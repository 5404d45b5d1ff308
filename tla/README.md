# A TLA+ development of the PikaScript core

PikaScript is a Python subset for microcontrollers: a compiler from indented
lines to bytecode, a virtual machine, a reference-counted object model with an
optional collector, a bitmap memory pool, an event system that connects
interrupts and native threads with Python callbacks, and an interactive shell.
Its core is the C code in `src/src/`; the modules here model that core. Names of
operators follow the source (`pool_malloc` becomes `MallocFast`, `MallocSearch`,
..., `obj_GC` becomes `GCSkip` and `GCDec`), and `PROJECT.json` gives for each definition the
lines it stands for.

## 1. The system and its parts

| Part | State | Operations | Hard behaviour | What makes it correct |
|---|---|---|---|---|
| Memory pool (`dataMemory.c`) | bitmap, `first_free_block`, `purl_free_block_start` | `pool_malloc`, `pool_free` | two cached indices, a search that rewrites its loop variable | live allocations are disjoint, the bitmap is exact, NULL only when nothing fits, loops end |
| Objects (`PikaObj.c`, `dataArg.c`, `dataArgs.c`, `dataStack.c`) | reference counts, args, gc chain, root flags | copy, store, delete, push, pop, call, return, mark and sweep | counts kept by hand; a collector that frees by taking references | counts are exact, nothing referenced is freed, nothing is freed twice, cycles go at the end |
| Block lowering (`PikaParser.c`) | block stack, exit queue, emitted code | one line at a time to bytecode | jumps count lines, blocks end implicitly | with the VM: Python's order of lines |
| VM control (`PikaVM.c`) | pc, `ireg`, `try_state`, `try_error_code`, exit signal | the control instructions, jump searches, error handling, `pika_vm_exit` | targets are searched for, not recorded; flags outlive lines | Python's order of lines; an exit stops the frame |
| VM frames and calls (`PikaVM.c`) | C stack of frames, one error code, `try_state` and `try_result` per `PikaVMThread` | call, return, raise, call-back from native code, event between instructions, `pika_vm_exit` | frames share one try state; call-backs have their own; an exit runs into all of them | an error goes to the innermost active try; an exit unwinds everything |
| Event queues (`PikaVM.c`, `PikaObj.c`) | two rings `cq`, `sq`, result slots, running handlers | push, pop, pickup, await, deinit | wrap, full, nested pickups, stale results, a push without a lock | in order and once, no result lost, all picked up |
| GIL and threads (`PikaVM.c`, `PikaPlatform.c`, `_thread.c`, `_time.c`) | recursive mutex, `bare_lock`, `is_first_lock`, the event thread and its exit flags | `pika_GIL_ENTER/EXIT`, start a thread, sleep, send, poll, deinit | lock chosen before it is used; main thread starts without a lock; shutdown handshake | at most one thread in bytecode; the GIL is held where the VM is touched; shutdown ends |
| Byte queue (`dataQueue.c`) | ring with head, tail, peek and counts | write, read, peek, reset, drop | full and empty look alike | FIFO with look-ahead |
| Shell filter (`PikaObj.c`) | byte queue, message tables | `_do_obj_runChar`, `_do_stream_filter`, `_do_message_filter` | messages that overlap and restart | the editor gets the input without its messages |
| Line editor and history (`PikaObj.c`) | `lineBuff`, positions, escape state, block buffer, history | one byte at a time | terminators kept by hand, full buffer, broken escape sequences, full history | a terminated string that behaves as a line with a cursor |
| Lexer and expression parser (`PikaParser.c`) | token stream, cursor | one line to a syntax tree | string rewriting | (plan) |
| Operand stack (`dataStack.c`) | payload and size buffers, two stack pointers | push, pop, look, end of line, reset | two buffers that fill at different rates, references owned by bytes | a LIFO of args within both buffers; references balanced |
| Arg cells and their cache (`dataArg.c`, `dataMemory.c`) | cells, cached cells, heap count | allocate, free, append, set content | sizes differ between allocation and free | cells never share a block, the heap count is exact |
| What expression instructions compute (`PikaVM.c`) | operand stack | REF, OPT, SLC, LST, ... | | not modelled, section 8 |
| Args, links, hash tables (`dataArgs.c`, `dataLink.c`) | lists of nodes | get, set, remove | reordering, replacement in place | (plan) |
| Queue, QueueObj, strings, linker, compiler, class objects and imports, hooks, platform, packages | | | | not modelled, section 8 |

How the parts interact. The parser hands bytecode to the VM. The VM allocates
objects and args from the pool through `pikaMalloc`, keeps objects alive by
counts and asks the collector to run from `New_PikaObj`. Interrupts and native
threads push into the event queues; the event thread, or the VM's own yield on
bare metal, picks events up and runs their handlers as VM frames. The GIL
serialises all of these once it exists. The shell reads bytes, filters messages
out through the byte queue, edits a line and hands complete lines and blocks to
the parser and the VM. The modelled compositions are: `ShellFilter` extends
`ByteQueue`; `VMControl` joins the lowering with the machine that runs it;
`ArgRuntime` joins the operand stack, the arg cells with their cache, and the
pool by its promise; `VMFrames` joins chains of calls with call-backs, events and
the exit; `ObjectGC` joins args, stacks, counts and the collector; `PikaThreads`
joins the GIL, threads, senders and the shutdown.

## 2. The modules

### Memory pool: `PoolAlloc`, `MemPool`, `MCMemPool`, `MemPoolProofs`

`PoolAlloc` is the promise: every caller owns a set of blocks, a request gets a
free run of consecutive blocks, or nothing when there is none, and a free gives
the run back. `MemPool` is the code: `pool_malloc`'s fast path at the end of the
used part (`MallocFast`), its search (`MallocSearch`, `SearchSkipByte`,
`SearchFree`, `SearchUsed`, `SearchEnd`, one iteration per step) and `pool_free`
with its walk back (`Free`, `BackStep`, `BackEnd`). `uint32_t` arithmetic wraps
at `UintMax`. The refinement mapping takes the blocks a handle covers for the
ones it owns.

### Events: `EventQueue`, `EventProofs`

Both rings of `PIKA_EVENT_LIST_SIZE` slots. `threaded` is the build: with GIL
and event thread every push of an arg event and every pickup is one critical
section, and handlers do not nest; without them only signals exist, pushed by
an interrupt or by the program, and the VM's yield picks up from inside a running
handler, at most `PIKA_EVENT_PICKUP_MAX` deep. A slot holds the number of its
event. `pushSignal` takes no lock and is modelled in its steps: `SignalCheck`
(is there room), `SignalWrite`, `SignalAdvance` (the tail is read), `SignalStore`
(`nextTail`, what was read plus one, is stored) and `SignalClear` (the result
slot, under the GIL), for two senders: `Irq`, an interrupt or another thread, and
`Prog`. With threads these steps interleave with everything; without, an interrupt
runs to its end and interrupts a push of the program. `AwaitReturn` and
`SignalSlot` are the code as it is (section 7).

`_VMEvent_deinit` may hit while a handler runs and between any two steps of a
push, which it shares no lock with. `Deinit` is all it does before the tail of `sq`,
`DeinitTail` that last assignment; `emptying` holds in between, when pushes go on
and, since the main thread owns the GIL, pickups do not. One step for all before the
tail is enough: what a push writes meanwhile is discarded with the tail, unless the
push is still under way at the end. `overlap` remembers that two pushes were
between check and store at the same time, or that one was when a deinit ended:
both lose signals (section 7). It is reset by a deinit that no push overlaps.

### GIL and threads: `PikaThreads`, `MCPikaThreads`, `EventProofs`

`pika_GIL_ENTER` is split where another thread can step in: which lock is used is
read first (`EnterRead`), then the bare flag is set (`EnterBare`) or the mutex is
locked (`EnterLock`) and the first-lock flag set (`EnterFlag`). `_VM_lock_init`,
which a send and `_thread_start_new_thread` call without any lock, is split the same
way: `InitCheck` (is there a mutex), `InitMutex` (it is made, its owner and count
reset), `InitDone` (`is_init` is set). A thread that was preempted after its check
may make the mutex again when another one has made it. If nobody uses it that is
harmless (`InitMutex`). If a thread owns it or is about to lock it (`InUse`), what
follows is undefined, two threads may own it: `Remake` takes every thread to
`"undefined"`, where the model ends. Threads are at program points; `back` is where
a call of the GIL functions returns to. The set `Programs` says who takes part.
`Main` runs the script, `Worker` are threads of the `_thread` module, `Native`
native threads that send arg events, `EventThread` the threads
`_do_pika_eventListener_send` starts. `events` says whether the program sends arg
events at all. `VMEvent_deinit`, `DeinitDestroy`, `DeinitJoin` and `GILDeinit` are
`_VMEvent_deinit` and what follows it.

### Objects: `ObjectGC`, `MCObjectGC`, `ObjectGCProofs`

The heap is the gc chain, the counts, the flags and the args that hold objects.
A program creates objects, loads them onto the stack of its frame, stores,
deletes, drops, calls (with an argument that waits on the caller's stack while
the locals are created) and returns, with or without a value. `obj_GC` and
`obj_deinit` call each other and are modelled step by step: `rel` is the object
that `obj_GC` was called with, `dying` the calls of `obj_deinit` that are under
way, each of which hands its args to `obj_GC` one by one (`DeinitArg`) before it
takes its object out of the chain (`DeinitEnd`). A pass of the collector lists
unmarked objects (`MarkSweepOnce`) and then releases each of them (`SweepNext`),
with all the nested releases that this causes, until a pass finds nothing.
Instructions that release or create something have a second half that runs when
this is over; `task`, `hand` and `slot` say which one waits and what it holds.
The order of the gc chain and of an args list decides what goes first: the model
allows any order. `returned` is a history variable: what `RET` has flagged as a
root and no store has unflagged. The variable `MarkSweep` is the build option.
Once an object on a stack has been freed its memory is reused and the code is
undefined: the model stops there, and `StackKeeps` and `StackAlive` say when
that happens.

### Operand stack and arg cells: `ArgLifo`, `ArgStack`, `ArgCells`, `ArgRuntime`, `MCArgRuntime`, `ArgRuntimeProofs`

`ArgLifo` is a stack of args, some of which an instruction holds. `ArgStack` is
`dataStack.c`: a byte of the payload names the arg it belongs to, the size array
has the sizes, and -1 for an arg of which only the pointer is stored.
`stack_pushArg`, `stack_popArg`, the walk of `stack_checkArg` entry by entry
(`CheckStart`, `CheckStep`, `CheckEnd`), `Overflow`, and the end of a line, which
pops what is left with a counter of 8 bits (`NewLine`, `SolveStep`) and resets the
buffers. `rc` is what an arg adds to the reference count of its object. `ArgCells`
is the memory of args on the heap: `_arg_cache_pop` and `_arg_cache_push`, the
heap count, the bitmap below. `ArgRuntime` says which steps of the stack allocate
a cell, free one, or pass a pointer on, and adds `arg_append` and
`arg_setContent`.

### Blocks and control flow: `PyStructure`, `PyBlocks`, `VMControl`, `MCVMControl`, `VMControlProofs`

`PyStructure` says what Python's block structure is, as a function of the text,
and `PyBlocks` runs a program by it: the reference. `VMControl` is the code. A
program is written line by line (`ParseLine`); each line closes blocks and emits
its instructions exactly as `parser_line2Ast` and `AST_genAsm_top` do, with
block depth and new-line mark. One frame of it is then executed: the module's
code or one function. Jump targets, the loop of a `break`, and the `except` of
an error are found by the searches of `PikaVMFrame_getAddrOffset*`. The
instructions of an expression are one `EVAL`, which comes to a value, true,
false or an error. `at` and `out` are history variables that name the source
line; through them `VMControl` is compared with `PyBlocks` (`PySpec`). `pika_vm_exit`
may come at any instruction; what Python says of a program that is being stopped
is nothing, so the comparison ends there and `StopsPromptly` begins.

`Families` are the programs that are checked: all programs of a set of line
kinds up to a number of lines. `Admit` lets programs contain four constructs
that the code does not give Python's meaning (section 7); the passing runs leave
them out.

### Calls and errors across frames: `PyFunctions`, `PyCalls`, `VMFrames`, `MCVMFrames`, `VMFramesProofs`

`PyFunctions` has functions as sequences of statements, with what Python's text
says of a position: whether it is in a try, where its handler is, what follows.
`Structured` says which sequences the parser makes of nested blocks.
`PyCalls` is the promise: a stack of calls in which an error goes to the innermost
try being executed. `VMFrames` is the code: `__pikaVM_runByteCodeFrameWithState`
frames with a `PikaVMThread` each chain of calls shares, `runInstructUnit`'s
decision after every instruction (`After`), the search for `NTR`, `RUN`'s look at
`try_result` on return, the callers that do not look at it (`__init__`, import),
call-backs from native code and from events, which have a thread of their own, and
`pika_vm_exit`. A line is one statement that may come to its end, fail, or call,
any number of times; the jumps inside a frame are `VMControl`'s. `served` allows
one call-back per statement, as a yield picks up at most one event after an
instruction.

### Shell: `PeekFifo`, `ByteQueue`, `ShellFilter`, `MCShellFilter`, `LineEditor`, `ReplShell`, `ShellProofs`

`PeekFifo` is a sequence with a look-ahead position; `ByteQueue` the ring that
implements it. `ShellFilter` runs `_do_obj_runChar`'s loop over it, one call of
the queue per step (look at a byte, start again at the head, drop, read), and is
compared with `Passed`, which reads the whole input at once. The editor may end
the shell at any byte it is given, with bytes left in the queue.
A message is a sequence of sets of bytes, two bytes in a set for a
case-insensitive letter. `LineEditor` is a line with a cursor and a block being
collected; `ReplShell` is `_inner_do_obj_runChar` on the real buffer, with what
is left behind its terminator, escape sequences, `handle_history_navigation` and
`shHistory_*`. `saved` is a history variable.

## 3. The runs

| Run | Configuration | Checks |
|---|---|---|
| `mempool` | 9 blocks, 3 callers, requests of 0, 5, 24, 64 bytes | `Exclusive`, `BitmapExact`, `InPool`, `NullOnlyWhenFull`, refinement of `PoolAlloc`, `CallsReturn` |
| `eventqueue` | rings of 3, 4 arg events, 3 signals of two senders, 1 deinit, after which 2 arg events and 1 signal follow, both builds | `ArgOrder`, `SignalsStored`, `CqResultNotLost`, `EventsPickedUp` |
| `threads` | main and 2 workers without arg events; with them, a worker with a sender and an event thread, or with 2 event threads, or 2 workers with an event thread; fair scheduling | `GILHeld`, `VMExclusive`, `DeinitCompletes` |
| `objectgc` | root, 2 objects, 1 locals object, 5 slots, stacks of 2, both builds | `ArgsAlive`, `RefcntExact`, `NoDoubleFree`, `StackKeeps`, `NothingLeaks` |
| `objectgc_stack` | the same with mark and sweep | violates `StackAlive` |
| `arg_runtime` | a stack of 64 bytes with room for 4 sizes, 4 args of two sizes, a pool of 5 blocks, a cache of one cell | `BuffersSafe`, `RefsBalanced`, refinement of `ArgLifo`, `CellsExclusive`, `HeapExact`, `LostOnlyWhenCacheFull`, `ArgsOwnCells` |
| `vm_control` | all programs of the four families of `MCVMControl` (5 to 7 lines, depth 3), an exit at any instruction | refinement of `PyBlocks`, `StopsPromptly` |
| `vm_break` | a break after an inner loop | violates `PySpec` |
| `vm_frames` | 3 frames of 4 functions, no function with a try called in a try, events and call-backs anywhere, an exit at any time | refinement of `PyCalls` (`ErrorsAreHandled`), `TryStateNested`, `RaiseUnderWay`, `ExitUnwinds`, `ExitEnds` |
| `vm_frames_try` | the same with a try below a try | violates `ErrorsAreHandled` |
| `shell_filter` | three messages that overlap, one visible, inputs of up to 7 of 4 byte values | `Aligned`, refinement of `PeekFifo`, `Filtered`, `RoomForByte` |
| `shell_edit` | buffer of 3, history of 3, blocks of 2 characters, every key | `Terminated`, `SavedReachable`, `UpRecallsLast`, refinement of `LineEditor` |

Every property has a mutant in `PROJECT.json`: an operator that changes one
definition the way a plausible slip in the code would (a dropped guard, a
missing reset, an off-by-one), under which TLC finds the property violated.

### Bounds, and why they are enough

- The pool has 9 blocks, one more than a bitmap byte, so the byte skip, the
  search and the fast path all happen and meet; 64 bytes fill a byte at once, 0
  bytes is the request that makes the index arithmetic wrap. The safety part is
  proved for all sizes.
- Rings of 3 slots hold 2 events; 4 arg events and 3 signals wrap them, and a
  deinit in between restarts the numbering. `LaterArg` and `LaterSignal` bound what
  comes after it: enough for a push that began before the deinit and ends after
  it, and for one after that. Two senders are enough for a push that another one
  overtakes between any two of its steps. The safety part is proved for all ring
  sizes.
- Two workers and the main thread give a thread that starts a thread while a
  third waits. Two event threads are there because a send during the shutdown may
  start a second one. Who holds the GIL is proved for any number of threads.
- Two objects, one of them with two slots, form cycles of length one and two,
  shared references and an object that holds itself twice; one locals object is
  one nested call. A threshold of 1 runs the collector at almost every creation,
  and each pass takes only one reference from an object, so cycles need several
  (`objectgc_stack` has a free list of one entry). A stack of 2 holds an object
  for the caller while an inner call removes its name. The safety part is proved
  for all sizes.
- Programs of 5 lines are enough for each construct inside and after each other
  one. Longer programs (6 and 7) are checked for loops with tests, for tries in
  loops, and for functions with tries, the combinations that need them.
- The operand stack of 64 bytes has room for 4 sizes and for the payload of two
  or three of the args: either buffer can be the one that is full. The counter of
  the end of a line wraps at 4, one more than the entries that can be pushed. The
  pool of 5 blocks and the cache of one
  cell are both exhausted. The properties are proved for all sizes.
- Three frames are the smallest chain with a frame between a try and the error
  in it; an event handler or a call-back may be any of them. `MaxFrames` bounds
  recursion. Where errors go is proved for every depth and every set of functions
  without a try below a try or a return in a try body.
- The filter's messages are shorter than the shell's but share a prefix and
  overlap themselves in the same way; the buffer is as long as the longest one.
- The editor's buffer of 3 holds two characters, so insertion in the middle, a
  full line, an overflow and a recalled shorter line all occur. `MaxBlock` stops
  the growth of a block.

`CHECK_DEADLOCK FALSE` is used where the system may stop: all events of the
bound were sent, every thread has ended, the root object was freed.

### Fairness

- `MemPool`: a call that was started goes on (a loop is executed).
- `EventQueue`: the event thread, or the VM's yield, keeps picking up; handlers
  return; a push or a deinit that was begun is finished (nobody stops in the middle of a C
  function). Nobody is obliged to send, and no waiting sender to return.
- `PikaThreads`: every thread is scheduled (weak fairness of its next step,
  locking a free mutex included); the platform mutex does not starve the main and
  the event thread (strong fairness of `EnterLock` for these two only); some worker
  that runs Python sleeps or ends again and again and a handler returns, which is
  a property of the script, not of the code, and an assumption here. The mutex
  assumption is one about the platform: the code gives the lock up and yields in
  every iteration of its polling loops, but on Linux the yield returns at once,
  and POSIX promises no order among waiters.
- `ObjectGC`: a release or a collection that was begun goes on, and the end of the
  root object is followed by its last collection (weak fairness of `Collect` and
  `Exit`, steps of C functions that were called). The program may stop anywhere.
- `VMFrames`: the VM executes its next instruction (weak fairness of `VMStep`).
  Events do not starve it: one is picked up per instruction. `ExitEnds` holds for
  bounded recursion only; a function that calls itself is stopped by the C stack,
  not by `pika_vm_exit`, since the signal is looked at after the call.
- `VMControl`: only the run that expects a violation needs fairness, the VM
  executes its next instruction.

## 4. What is proved

TLAPS proves the following for every value of the constants that satisfies the
`ASSUME` of the module.

- `MemPoolProofs` (assumes `PoolAssumption`: a positive block size, a pool whose
  block count fits into the integer type). `PoolTyping`, `PoolExclusive`,
  `PoolInPool`, `PoolBitmapExact`, `PoolNullOnlyWhenFull` and `PoolRefinement`. The inductive
  invariant `IInv` adds to the checked invariants what the loops know:
  `PurlFree` (everything from `purl_free_block_start` on is free), `FirstFree`
  (everything below `first_free_block` is used), `TailUsed` (the block before
  `purl_free_block_start` is used), `SearchInv` (the blocks counted so far are
  free and adjacent, and no run of the needed length lies behind the search) and
  `BackInv` (the walk back has passed only free blocks). Without the last two
  neither exclusiveness nor the meaning of NULL is inductive, since `pool_malloc`
  takes blocks many steps after it looked at them. The refinement uses `IInv`
  and one lemma per kind of step.
- `ShellProofs`, first part (assumes `SizeAssumption`, `FilterAssumption`: the tables
  are sequences of messages of at least one byte). `QueueAligned` (the indices
  agree with the counts modulo the size) and, from it, `QueueIsFifo`: the ring
  implements `PeekFifo`; each operation has a lemma on the content it leaves. The
  filter takes only steps of the queue, hence `FilterQueueSafe` for every table and
  every input. `FilterHasRoom`: if every message fits into the queue
  (`MessagesFit`), there is room for every byte that is received. The argument is
  that `_do_message_filter` asks for more bytes only for a message of which the
  queue holds a proper prefix; `Comparing` and `Matched` carry this through the
  loop over the table. The shell's own messages fit `PIKA_SHELL_FILTER_FIFO_SIZE`;
  a table of the user's with a longer message loses bytes.
  `FilterPasses` is `Filtered` for inputs of any length: at every point between two
  bytes, what the editor got, followed by what the reading of the whole input makes
  of the bytes still in the queue, is what it makes of the input, whatever comes
  next (`Even`). `Sought` and `Compared` say what the loop over the table knows:
  that no message before the present one fits the queue, or that one asks for more
  bytes. Its hypotheses: `MessagesFit`; `Unambiguous`, that no bytes begin with two
  messages, which holds of the two of `g_default_filter_messages` (their fourth
  bytes differ) and of the table of `shell_filter` (TLC evaluates `MCTables`); and no table
  of the user's, for which the statement is false (section 7).
- `ShellProofs`, second part (assumes `ShellAssumption`: positive sizes, distinct control
  bytes). `LineBufferSafe`: `TypeOK`, `Terminated` and `EntriesFit` together are
  inductive. `Terminated` needs `EntriesFit` (recalled entries are copied into
  the buffer), and that needs `Terminated` (entries are made from the buffer).
  From it `EditorIsLineEditor`: the editor implements `LineEditor`, by a lemma
  per group of keys. Strings are characterised by `StrLenIs`, `StrIsText`.
  `SavedLineReachable` and `UpRecallsLastLine` are about the history. `HistInv`
  adds that the line put aside is the last entry (`Aside`), that an offset leads to
  an entry (`Offset`) and that only the last entry can be empty
  (`OnlyLastEmpty`), for which `TrimmedIs` says what `shHistory_add` leaves.
  `UpRecallsLastLine` has the hypothesis `HistMax >= 3`: see section 7.
- `EventProofs`, first part (assumes `QueueAssumption`: a ring of at least two slots).
  `ArgEventsInOrder`, `SignalsInRing` and `ResultsKept`, for both builds and any
  number of events. `IInv` says slot by slot what the rings hold (`ArgInv`,
  `SigInv`), with the remainders of the index arithmetic replaced by a case
  (`AheadMod`, `HeldMod`). `SigInv` has to carry what a push knows between its
  steps: that it is the only one, that its room is still there after pickups,
  that what it wrote is behind the tail, and that the tail it read is still the
  tail. It holds as long as `overlap` and `emptying` do not, and comes back with
  a `DeinitTail` that no push overlaps. `ResInv` says that the slot of the running
  handler is the one before the head, the one a push cannot reach.
- `EventProofs`, second part (assumes `ThreadAssumption`: the kinds of threads are
  disjoint). `GILIsHeld` and `OneVMAtATime`. `Level` gives the number of levels of
  the recursive mutex a thread owns at each label, and `Depth` what it owns inside
  `pika_GIL_ENTER`, `pika_GIL_EXIT` and `_VM_lock_init`, by the label they return to;
  the invariant says that the mutex is counted exactly so by every thread but the
  main one, until a mutex in use is made again. `NInv` says who can do that: in a
  program in which no native thread sends (`Sole`), only the main thread ever makes
  the mutex, and it does so before anybody else runs; a thread of Python that sends
  or starts a thread later finds `is_init` set. The main thread is bound by the
  count of levels only from its first lock on: `MainAlone` says that before that nobody
  else runs, if there are no arg events.
- `ArgRuntimeProofs`, first part, of the stack alone (assumes `StackAssumption`: the size array has no more entries
  than the 8-bit counter counts, 4096 bytes of stack). `StackBuffersSafe`,
  `StackRefsBalanced`, `StackIsLifo`, by an invariant of six parts: types, the
  agreement of `top`, `sp_size` and the entries, the layout of the entries in the
  payload, the args in them (each at most once, and none that is also in hand),
  the references, and what the walk of `stack_checkArg` has summed up so far.
- `ArgRuntimeProofs`, second part, of the composition (assumes also `CellAssumption` and `RuntimeAssumption`: the
  alignment and the limits of the cache, sizes that are unsigned, an arg at least
  as large as its header). The composition takes only steps of the stack, so
  `RuntimeStackSafe` has the three properties for it too, wherever cells are put.
  `RuntimeSound` is the inductive invariant of the whole: that of the stack,
  `MemInv` of the cells and `Own` between the two. `MemInv` says that a cell's
  blocks are marked used and hold its content, and that it is larger than its
  content asks for only if it is of a size that the cache takes (`Fits`), that no
  two cells share a block (`Apart`), and that the cache holds cells of its sizes,
  each once (`CacheSound`). `Own` says that the args on the heap and the live cells correspond
  one to one; a step of the stack frees, makes or moves at most one of them, and
  the cell lemmas (one for each of making, reusing, freeing, growing and moving a
  cell) are combined with it arg by arg. From it follow `RuntimeCellsExclusive`,
  `RuntimeArgsOwnCells` and, from the clause on larger cells,
  `RuntimeLosesBlocks`. `RuntimeHeapExact`: the heap count is the sum of what the
  live cells asked for. Each cell operation changes one summand and the count by
  the same number (`SumChange`, `SumAdd` of `Recursion`).
- `ObjectGCProofs` (assumes `GCAssumption`: finitely many objects and names, a free
  list of at least one entry, a count of at least two values). The theorems have
  one hypothesis about the run, `FewHolders`: no object ever has as many references
  as the count has values. A `uint8_t` does not ensure this, and without it the
  statements are false (section 7). For both builds, every number of objects, every
  depth of calls and every threshold: `ArgsStayAlive`, `CountsAreExact`,
  `FreedOnce`, `StacksStayAlive`, and `ShutdownFrees`, the safety half of
  `NothingLeaks`: when the collection at the end is over, nothing is left but what
  returned and never stored objects reach.
  - The counts are not exact while the collector works: it takes references that
    nobody gives up. `Counts` is therefore split. The count of what is marked from
    the flagged objects (`Sound`; outside a collection everything alive) is exact.
    Of the other objects it says only that the count of one that is not being freed
    is not 0, and that the count of one being freed is 0 or exceeds the number of
    its remaining holders, so that no release can bring it to 0 a second time.
    `Reached` says that nothing marked is on the collector's list or being freed and
    that, outside a collection, all that args refer to is alive: the damage stays
    among garbage. When the collector ends, all that is left is marked, and all
    counts are exact again.
  - `Prepared` says what each `task` may rely on, `LocalsOwned` that frames own
    their locals, each once and flagged, `Freed` that freed objects have no args and
    that the calls of `obj_deinit` are for different objects. `Fresh`, needed for
    `ShutdownFrees`, says that a flagged object that was not returned is an arg of
    locals only.
  - Changes of one arg, one stack entry or one hand change the number of holders by
    one; these lemmas on cardinalities are stated once and used by every action.
- `VMFramesProofs` (assumes `FramesAssumption` and `BodiesAssumption`: functions
  are what the parser makes of nested blocks, `Structured`). For every set of
  functions and every depth of calls:
  - `ExitOnlyUnwinds`, for every program: after `pika_vm_exit` no frame goes on to
    another line. The invariant needed is that every frame is at a position of its
    function (`Positions`).
  - `TryStateTellsTries`, `RaisesAreAwaited` and `VMImplementsPython`, for
    `Disciplined` programs: no try and no return inside the body of a try, and no
    function with a try called below a try. These are the constructs of this model
    that the code does not give Python's meaning (section 7, `vm_frames_try`), and
    the theorem says that there are no others: in all other programs an error
    reaches the innermost try being executed, through every chain of calls,
    call-backs and events. `VMImplementsPython` has the further hypothesis that no raised address
    is a multiple of 256 (section 7).
  - The inductive invariant has, besides `TryStateNested`: that the frames of a
    chain lie side by side, each called from a line that waits for it, with one
    thread per chain (`Linked`); that no frame above one that is in a try body, in
    the same chain, has a try (`Separate`); that `try_result` is set only while the
    last frame of its chain is over with an error and a frame below has a try
    (`UnderWay`); and that `try_error_code` is set only on the way of an error to
    its except clause (`Pending`). Neither `TryStateNested` nor `RaiseUnderWay` is
    inductive without the others: the try state is written by frames that do not
    know whose it is.

- `VMControlProofs` (assumes `ControlAssumption`), for every program of every depth,
  the constructs of `Admit` included. `SearchesStayInside`: no search for the target
  of a jump, an error, an exit or a call leaves the bytecode, but the one of a
  break (section 7, `vm_break`). `ExitStops`: after `pika_vm_exit` no source line
  starts. The invariant `VInv` is about the bytecode as it grows line by line: the
  end of every loop has its head before it (`Backs`), the lines that opened the
  blocks on the parser's stack are in the bytecode (`Opened`), after the `DEF` of a
  function comes its body (`Defined`), and the instruction that ends a try body, to
  which an exit goes, belongs to no source line (`Types`).
- `Recursion` has the lemmas that the others need for sums, inputs and programs of any
  size: induction over a set of numbers or over the size of a finite set, the
  existence of recursively defined functions on a ranked set (`Recursive`), and
  sums over functions. The library states these for operators, which the provers
  cannot instantiate; here they are about sets and functions.

Only model-checked:

- liveness (`CallsReturn`, `EventsPickedUp`, `DeinitCompletes`, `ExitEnds`, and that
  the collection `NothingLeaks` speaks of ends), since the prover has no reasoning
  about fairness and ENABLED;
- `PySpec`, that the VM runs programs in Python's order. A proof needs, for every
  construct, that the searches find the instruction Python's structure names; the
  lemmas on the layout of the bytecode in `VMControlProofs` are its beginning.

## 5. What the checks show

The pool, the byte queue, the operand stack and the editor are correct in the
strong sense above. Arg events are handled exactly once and in order, and as long
as no push overlaps another one or the end of a deinit no signal is lost. With
Python threads alone the GIL excludes, also during the switch from the bare flag to
the mutex, and nobody makes a mutex in use again. With arg events the threads other
than the main one own the GIL where they touch the VM, up to a mutex in use that is
made again, which takes a native sender (section 7). Up to that too, the shutdown of
the event thread ends. Arg cells never overlap and the heap count is exact through
reuse and growth; blocks get lost in one case only (section 7). Reference counts
are exact through every sequence of the modelled operations, as long as none
reaches 256. Programs without the
four constructs of section 7 run in Python's order. An error goes to the right
try through any chain of calls, call-backs and events that has no try below a
try, and `pika_vm_exit` ends all frames from anywhere.

## 6. Hazards

`PROJECT.json` lists, at their lines, the places where this code is hard to
test, with the properties that cover them. Not covered: the order of signals and
the result of an awaited signal (the code as it is gives neither, section 7); the
256th reference to an object; a Python `__del__` in the middle of a release; a byte
that the escape state of the editor swallows, since a key without effect is a step
of `LineEditor`; an exception class at an address that is a multiple of 256 (the
runs have none, section 7).

Covered in part: a `pushSignal` without a lock (`PikaVM.c:294`). `SignalsStored` is about
pickups and deinits between its steps. The signals that overlapping pushes, or a
push and the end of a deinit, lose are excluded from it, since the code loses them,
and `EventsPickedUp` does not see them: a queue that lost a signal gets empty, too.
Likewise `GILHeld` ends where a mutex in use is made again (`PikaVM.c:113`).

## 7. Disagreements between the code and what is said of it

Three are checked as runs that are expected to fail:

- `vm_break` (`PikaVM.c:531`): `break` and `continue` take the nearest loop head
  above that is less deep for their own, also when that loop is already over.
  In `while a:` / `while b:` ... / `if c: break` the search for its end leaves
  the bytecode.
- `objectgc_stack` (`PikaObj.c:2362`): with `PIKA_GC_MARK_SWEEP_ENABLE` the
  collector does not look at VM stacks, and takes references from an unmarked
  object until it is freed; an object that only the stack of a calling frame
  holds is freed under it.
- `vm_frames_try` (`PikaVM.c:3779`): the frames of a chain of calls share one
  `try_state`. A try that ends in a callee clears it, and an error in the rest of
  the caller's try body then ends the program instead of reaching its except.

Others are visible in the models, which have the code as it is:

- `Admit` of `VMControl` with `"nestedTry"`, `"breakFromTry"` or
  `"returnFromTry"` and a family with these kinds violates `PySpec` as well.
  `try_state` is one flag and an error goes to the next `NTR` below
  (`PikaVM.c:619`), `break` and `continue` leave a try body without clearing it
  (`PikaVM.c:3421`), and the search stops at the first `RET`, which a `return`
  in the body emits (`PikaVM.c:634`).
- `raise` of a class (`PikaVM.c:3315`) stores the address of the constructor in an
  `int8_t`: an address that is a multiple of 256 raises nothing. `Raised` in
  `MCVMFrames.cfg` has none. `raise` of an instance sets no error code at all.
- Errors in code that native code or an event calls back stay in that code's own
  `PikaVMThread`: the caller does not learn of them. `PyCalls` has this as the rule
  for calls the runtime makes.
- `SignalSlot` (`PikaVM.c:330`): a signal's slot of `sq` is read at the head of
  `cq`; once the heads differ, a signal runs the handler of another one. What the
  ring holds is right (`SignalsStored`), what is read of it is not.
- `overlap` (`PikaVM.c:294`): two pushes of signals between check and advance write
  the same slot, so one signal is lost and the other handled twice; when both found
  the last free slot the tail runs into the head and the full ring looks empty.
- `DeinitTail` (`PikaVM.c:232`, `294`) inside a push: the slot that was written is
  emptied, and the push then stores a tail that counts it, or the tail it read
  before the deinit. The ring holds slots with no listener, and a pickup looks for
  the handler of a NULL listener. `SignalsStored` says nothing of a ring like this.
- `Remake` (`PikaVM.c:112`): `_VM_lock_init` looks at `is_init`, makes the mutex
  and sets `is_init`, without a lock. A native sender that is preempted in between
  makes the mutex again after another thread, which may be the main thread that
  starts its first Python thread, has made it and locked it: `owner` and
  `lock_times` are reset, and two threads can own the GIL. `GILHeld` says that it
  takes a native sender, and nothing of what follows.
- `Deinit` and `VMEvent_deinit`: `_VMEvent_deinit` does not take the GIL. It is called
  by the main thread, which owns it from its first lock on; the model of the queues
  takes this for granted. A script that holds none (see `SendWait`)
  empties the queues beside the event thread.
- `AwaitReturn` (`PikaObj.c:3090`) polls a slot of `cq.res`, while the result of a
  signal is stored in `sq.res`; the sender waits also when the queue was full and
  nothing was sent.
- `SendWait` (`PikaObj.c:3026`): the wait for the Python thread also ends when
  `bare_lock` is 0, which it is until the script first sleeps. The sender then
  takes the first lock, and handlers run beside a script that holds none. This
  is why `VMExclusive` is claimed for programs without arg events.
- `EventLoop` (`PikaObj.c:2972`): a send that has passed its wait while the main
  thread runs `pika_GIL_deinit` starts an event thread without a first lock.
- `DropCount` of `ShellFilter` (`PikaObj.c:1537`) with a non-empty `User` table:
  when one table fails, the first byte is passed on although the other table
  still needs it. `shell_filter` has the default table alone.
- `FreeCell` (`dataArg.c:206`): a cell that was reused for a smaller content and is
  freed while the cache is full gives back only the blocks of its present size.
  `LostOnlyWhenCacheFull` says that this is the only loss.
- `ArgCells` has `PIKA_ARG_ALIGN_ENABLE`. Without it allocation and free count
  different numbers of bytes for a cell that grew, and `heapUsed` drifts.
- `shHistory_add` (`ReplShell`) drops the oldest entry of a full history before it
  drops an empty last one. With `PIKA_SHELL_HISTORY_NUM` 1 or 2 (5 by default) the
  line entered last can go with it, and going up from an empty line recalls
  nothing; from 3 entries on it is recalled (`UpRecallsLastLine`).
- `Ended` of `ReplShell` (`PikaObj.c:1805`, `1831`): Enter on a line that fills the
  buffer, in a block or opening one, appends the `'\n'` with `strAppendWithSize`,
  which does not know the size of the buffer: its terminator (`dataString.c:88`) is
  written one byte past `lineBuff`, on `line_position`, which `__clearBuff` then
  resets. `Terminated` is about the buffer between two calls.
- `ReturnObj` (`PikaVM.c:1832`): `RET` flags the value as a root, and only a store
  clears the flag. An object in a cycle that a function returns and the caller does
  not store stays a root, and no collection frees it or what it refers to, the one
  at the end included. `NothingLeaks` excepts what hangs on such objects
  (`returned`).
- `Inc` (`PikaObj.h:652`): `refcnt` is a `uint8_t`. The 256th reference makes it 0;
  of 257 references the first release frees an object that is in use. With `RefMod` 3
  instead of 256 `objectgc` shows it; the theorems about `ObjectGC` have the
  hypothesis that it does not happen.
- `CacheMax` is a constant of its own because `PIKA_ARG_CACHE_SIZE` is a sum
  without parentheses: `2 * PIKA_ARG_CACHE_SIZE` is not twice its value.

## 8. What is not modelled

- What the instructions of an expression compute, and the binding of arguments to
  parameters; the lexer and the expression parser: string operations. Class objects
  and imports are lookups in args; the frames of `__init__` and of a module are in
  `VMFrames`.
- Lines of kind `class`, `del`, `global`, `assert`, default arguments and
  unpacking targets of `for`: they add instructions, not control.
- `__del__`, lists and dicts in `ObjectGC`.
- Messages with masks or handlers that refuse, which no table of the repository
  uses.
- Echo, cursor output, prompts, uploads of scripts and bytecode, printing, files.
- `PIKA_SETJMP_ENABLE` and its jump queue, off by default; the platform branches
  other than POSIX.
- The compiler and library linker: file formats and I/O. Breakpoints and hooks
  only observe. Strings are pure helpers. Packages other than `_thread` and
  `time` wrap drivers and third-party libraries.

## 9. Plan

Modules, in order:

1. `ArgsTable` over `dataArgs.c` and `dataLink.c`: lists, replacement in place
   and hash buckets, implementing a map from names to args.
2. `TokenCursor`: the lexer's tokens, brackets and the cursor; order of the stack
   code of an expression against evaluation order.
3. `__del__` in `ObjectGC`.

Theorems, in order: `PySpec` for programs without the constructs of `Admit`; the map
refinement above; with `__del__`, the invariant of `ObjectGCProofs` for a release
that a program interrupts.

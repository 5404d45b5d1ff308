---------------------------- MODULE PikaThreads ----------------------------
(***************************************************************************)
(* The GIL (pika_GIL_ENTER, pika_GIL_EXIT: a recursive mutex, and a plain  *)
(* flag bare_lock until the mutex exists) and the threads that use it: the *)
(* main thread that runs Python, the threads of the _thread module, native *)
(* threads that send arg events, and the event thread that handles them,   *)
(* with its shutdown by _VMEvent_deinit.                                   *)
(*                                                                         *)
(* A thread in "vm" executes bytecode; in "sleep" it is inside time.sleep, *)
(* input or a socket call, between GIL_EXIT and GIL_ENTER. The underlying  *)
(* platform mutex is free iff owner = NoThread: the code sets owner right  *)
(* after it locks and clears it right before it unlocks, and compares it   *)
(* only with the caller. That ends when a _VM_lock_init makes the mutex    *)
(* again while it is in use: what becomes of its owner and of those who    *)
(* wait for it is undefined (two threads may then own it), and the model   *)
(* stops there, with every thread that has not ended in "undefined".       *)
(***************************************************************************)
EXTENDS Integers, FiniteSets

CONSTANTS Main, Worker, Native, EventThread,
          Programs,   \* [events, threads]: whether arg events are sent, who takes part
          MaxPending, \* bound: events waiting at a time
          NoThread

Thread == {Main} \cup Worker \cup Native \cup EventThread

ASSUME ThreadAssumption ==
  /\ NoThread \notin Thread
  /\ Main \notin Worker \cup Native \cup EventThread
  /\ Worker \cap Native = {} /\ Worker \cap EventThread = {}
  /\ Native \cap EventThread = {}
  /\ Programs \subseteq [events : BOOLEAN, threads : SUBSET Thread] /\ MaxPending \in Nat

VARIABLES
  events,             \* whether the program sends arg events at all
  is_init, is_first_lock, bare_lock, owner, lock_times, \* g_pikaGIL
  pc,                 \* where each thread is
  back,               \* where it continues after GIL_ENTER, GIL_EXIT, _VM_lock_init
  vms,                \* threads with a VM frame: vm_cnt is their number
  pending,            \* events in cq
  event_thread,       \* the handle in g_PikaVMState, or NoThread
  event_thread_exit, event_thread_exit_done

gil  == <<is_init, is_first_lock, bare_lock, owner, lock_times>>
evt  == <<events, pending, event_thread, event_thread_exit, event_thread_exit_done>>
tvars == <<gil, pc, back, vms, evt>>

TInit ==
  /\ \E p \in Programs :
       /\ events = p.events
       /\ pc = [t \in Thread |-> CASE t = Main -> "vm"
                                   [] t \notin p.threads \cup {Main} -> "gone"
                                   [] t \in Native \cap p.threads -> "idle"
                                   [] OTHER -> "unborn"]
  /\ is_init = FALSE /\ is_first_lock = FALSE /\ bare_lock = 0
  /\ owner = NoThread /\ lock_times = 0
  /\ back = [t \in Thread |-> "vm"]
  /\ vms = {Main}
  /\ pending = 0
  /\ event_thread = NoThread
  /\ event_thread_exit = FALSE
  /\ event_thread_exit_done = FALSE

Goto(t, l) == pc' = [pc EXCEPT ![t] = l]

(* A call of GIL_ENTER, GIL_EXIT or _VM_lock_init that returns to label l. *)
Call(t, f, l) == /\ pc' = [pc EXCEPT ![t] = f]
                 /\ back' = [back EXCEPT ![t] = l]
Return(t) == Call(t, back[t], "vm")

-----------------------------------------------------------------------------
(* pika_GIL_ENTER: which lock is in use is read first, and used later.     *)
EnterRead(t) ==
  /\ pc[t] = "enter"
  /\ Goto(t, IF is_init THEN "lock" ELSE "bare")
  /\ UNCHANGED <<gil, back, vms, evt>>

(* Without a mutex bare_lock is taken; the -1 of a failed attempt is       *)
(* ignored by every caller.                                                *)
EnterBare(t) ==
  /\ pc[t] = "bare"
  /\ bare_lock' = 1
  /\ Return(t)
  /\ UNCHANGED <<is_init, is_first_lock, owner, lock_times, vms, evt>>

(* The mutex is free for t: not locked, or locked by t itself.             *)
CanLock(t) == owner = NoThread \/ owner = t

TimesOnce(t) == 1
Times(t) == IF owner = t THEN lock_times + 1 ELSE 1

EnterLock(t) ==
  /\ pc[t] = "lock"
  /\ CanLock(t)
  /\ owner' = t
  /\ lock_times' = Times(t)
  /\ Goto(t, "flag")
  /\ UNCHANGED <<is_init, is_first_lock, bare_lock, back, vms, evt>>

EnterFlag(t) ==
  /\ pc[t] = "flag"
  /\ is_first_lock' = TRUE
  /\ Return(t)
  /\ UNCHANGED <<is_init, bare_lock, owner, lock_times, vms, evt>>

OwnerAfterExit == IF lock_times = 1 THEN NoThread ELSE owner

(* pika_GIL_EXIT: the bare lock before the first lock, else one level of   *)
(* the mutex; a caller that does not own it gets -1 and changes nothing.   *)
Exit(t) ==
  /\ pc[t] = "exit"
  /\ Return(t)
  /\ IF ~ is_first_lock \/ ~ is_init
     THEN bare_lock' = 0 /\ UNCHANGED <<owner, lock_times>>
     ELSE /\ UNCHANGED bare_lock
          /\ IF owner # t
             THEN UNCHANGED <<owner, lock_times>>
             ELSE /\ lock_times' = lock_times - 1
                  /\ owner' = OwnerAfterExit
  /\ UNCHANGED <<is_init, is_first_lock, vms, evt>>

-----------------------------------------------------------------------------
(* _VM_lock_init: is there a mutex, if not make one, and only then say so. *)
(* Another thread can do as much, or more, between these steps.            *)
InitCheck(t) ==
  /\ pc[t] = "check"
  /\ IF is_init THEN Return(t) ELSE Goto(t, "make") /\ UNCHANGED back
  /\ UNCHANGED <<gil, vms, evt>>

(* A thread owns the mutex or is about to.                                 *)
InUse == owner # NoThread \/ \E t \in Thread : pc[t] = "lock"

(* pika_thread_recursive_mutex_init: nobody owns the mutex.                *)
InitMutex(t) ==
  /\ pc[t] = "make" /\ ~ InUse
  /\ owner' = NoThread /\ lock_times' = 0
  /\ Goto(t, "made")
  /\ UNCHANGED <<is_init, is_first_lock, bare_lock, back, vms, evt>>

(* The same for a mutex that another thread has made and uses.             *)
Remake(t) ==
  /\ pc[t] = "make" /\ InUse
  /\ pc' = [u \in Thread |-> IF pc[u] \in {"dead", "gone"} THEN pc[u] ELSE "undefined"]
  /\ UNCHANGED <<gil, back, vms, evt>>

InitDone(t) ==
  /\ pc[t] = "made"
  /\ is_init' = TRUE
  /\ Return(t)
  /\ UNCHANGED <<is_first_lock, bare_lock, owner, lock_times, vms, evt>>

-----------------------------------------------------------------------------
(* Python code that sleeps: GIL_EXIT, wait, GIL_ENTER.                     *)
Sleep(t) ==
  /\ pc[t] = "vm"
  /\ Call(t, "exit", "sleep")
  /\ UNCHANGED <<gil, vms, evt>>

Wake(t) ==
  /\ pc[t] = "sleep"
  /\ Call(t, "enter", "vm")
  /\ UNCHANGED <<gil, vms, evt>>

(* _thread_start_new_thread: the lock is made, the calling thread takes    *)
(* the first lock, and only then the new thread is started.                *)
FirstLockSkipped(t) == /\ Goto(t, "spawn")
                       /\ UNCHANGED back
TakeFirstLock(t) == IF is_first_lock
                    THEN Goto(t, "spawn") /\ UNCHANGED back
                    ELSE Call(t, "enter", "spawn")

StartThread(t) ==
  /\ pc[t] = "vm"
  /\ \E w \in Worker : pc[w] = "unborn"
  /\ Call(t, "check", "first")
  /\ UNCHANGED <<gil, vms, evt>>

FirstLock(t) ==
  /\ pc[t] = "first"
  /\ TakeFirstLock(t)
  /\ UNCHANGED <<gil, vms, evt>>

Spawn(t) ==
  /\ pc[t] = "spawn"
  /\ \E w \in Worker :
       /\ pc[w] = "unborn"
       /\ pc' = [pc EXCEPT ![t] = "vm", ![w] = "enter"]
       /\ back' = [back EXCEPT ![w] = "vm0"]
  /\ UNCHANGED <<gil, vms, evt>>

(* Another thread may have started the last thread in the meantime.        *)
SpawnNone(t) ==
  /\ pc[t] = "spawn"
  /\ \A w \in Worker : pc[w] # "unborn"
  /\ Goto(t, "vm")
  /\ UNCHANGED <<gil, back, vms, evt>>

(* A VM frame is created: vm_cnt++.                                        *)
RunVM(t) ==
  /\ pc[t] = "vm0"
  /\ vms' = vms \cup {t}
  /\ Goto(t, "vm")
  /\ UNCHANGED <<gil, back, evt>>

(* _thread_func ends: vm_cnt--, GIL_EXIT.                                  *)
WorkerEnd(t) ==
  /\ t \in Worker
  /\ pc[t] = "vm"
  /\ vms' = vms \ {t}
  /\ Call(t, "exit", "gone")
  /\ UNCHANGED <<gil, evt>>

-----------------------------------------------------------------------------
(* Where a thread sends from: a native thread, or a method called by the   *)
(* Python code it runs.                                                    *)
Home(t) == IF t \in Native THEN "idle" ELSE "vm"

(* _do_pika_eventListener_send with an Arg: _VM_lock_init unless the first *)
(* lock was taken. pika_GIL_isInit holds after either. Listeners exist     *)
(* only as long as the program they belong to.                             *)
SendStart(s) ==
  /\ events
  /\ pc[Main] \notin {"dead", "undefined"}
  /\ pc[s] = Home(s)
  /\ IF is_first_lock THEN Goto(s, "wait") /\ UNCHANGED back
                      ELSE Call(s, "check", "wait")
  /\ UNCHANGED <<gil, vms, evt>>

(* Wait until the Python thread has the first lock, no VM runs, or the     *)
(* bare lock is free.                                                      *)
SendWait(s) ==
  /\ pc[s] = "wait"
  /\ is_first_lock \/ vms = {} \/ bare_lock = 0
  /\ Call(s, "enter", "push")
  /\ UNCHANGED <<gil, vms, evt>>

(* Under the GIL: start the event thread if there is none, push the event  *)
(* (a full queue drops it), GIL_EXIT.                                      *)
SendPush(s) ==
  /\ pc[s] = "push"
  /\ pending' = IF pending < MaxPending THEN pending + 1 ELSE pending
  /\ IF event_thread = NoThread /\ \E e \in EventThread : pc[e] = "unborn"
     THEN \E e \in EventThread :
            /\ pc[e] = "unborn"
            /\ event_thread' = e
            /\ pc' = [pc EXCEPT ![s] = "exit", ![e] = "born"]
            /\ back' = [back EXCEPT ![s] = Home(s)]
     ELSE /\ Call(s, "exit", Home(s))
          /\ UNCHANGED event_thread
  /\ UNCHANGED <<events, gil, vms, event_thread_exit, event_thread_exit_done>>

(* _thread_event: asserts that the first lock was taken ("born"), then     *)
(* loops.                                                                  *)
EventLoop(e) ==
  /\ pc[e] \in {"born", "start"}
  /\ Call(e, "enter", "poll")
  /\ UNCHANGED <<gil, vms, evt>>

EventExit(e) ==
  /\ pc[e] = "poll"
  /\ event_thread_exit
  /\ event_thread_exit_done' = TRUE
  /\ Call(e, "exit", "gone")
  /\ UNCHANGED <<events, gil, vms, pending, event_thread, event_thread_exit>>

(* _VMEvent_pickupEvent: pop an event and run its handler, if there is one.*)
EventPoll(e) ==
  /\ pc[e] = "poll"
  /\ ~ event_thread_exit
  /\ IF pending > 0
     THEN /\ pending' = pending - 1
          /\ Goto(e, "vm0")
          /\ UNCHANGED back
     ELSE /\ Call(e, "exit", "start")
          /\ UNCHANGED pending
  /\ UNCHANGED <<events, gil, vms, event_thread, event_thread_exit, event_thread_exit_done>>

EventHandled(e) ==
  /\ e \in EventThread
  /\ pc[e] = "vm"
  /\ vms' = vms \ {e}
  /\ Call(e, "exit", "start")
  /\ UNCHANGED <<gil, evt>>

-----------------------------------------------------------------------------
(* The main script has run and its root object is freed: _VMEvent_deinit   *)
(* empties the queues and asks the event thread to exit.                   *)
VMEvent_deinit ==
  /\ pc[Main] = "vm"
  /\ vms' = vms \ {Main}
  /\ pending' = 0
  /\ event_thread_exit' = (event_thread # NoThread)
  /\ Goto(Main, IF event_thread # NoThread THEN "destroy" ELSE "deinit")
  /\ UNCHANGED <<events, gil, back, event_thread, event_thread_exit_done>>

(* pika_platform_thread_destroy (POSIX: detach), then GIL_EXIT.            *)
NoExitCall == Goto(Main, "join") /\ UNCHANGED back
ExitCall == Call(Main, "exit", "join")

DeinitDestroy ==
  /\ pc[Main] = "destroy"
  /\ event_thread' = NoThread
  /\ ExitCall
  /\ UNCHANGED <<events, gil, vms, pending, event_thread_exit, event_thread_exit_done>>

DeinitJoin ==
  /\ pc[Main] = "join"
  /\ event_thread_exit_done
  /\ event_thread_exit' = FALSE
  /\ event_thread_exit_done' = FALSE
  /\ Call(Main, "enter", "deinit")
  /\ UNCHANGED <<events, gil, vms, pending, event_thread>>

(* pika_GIL_deinit clears the lock.                                        *)
GILDeinit ==
  /\ pc[Main] = "deinit"
  /\ is_init' = FALSE /\ is_first_lock' = FALSE /\ bare_lock' = 0
  /\ owner' = NoThread /\ lock_times' = 0
  /\ Goto(Main, "dead")
  /\ UNCHANGED <<back, vms, evt>>

-----------------------------------------------------------------------------
Step(t) ==
  \/ EnterRead(t) \/ EnterBare(t) \/ EnterLock(t) \/ EnterFlag(t) \/ Exit(t)
  \/ InitCheck(t) \/ InitMutex(t) \/ InitDone(t) \/ Remake(t)
  \/ Sleep(t) \/ Wake(t) \/ RunVM(t)
  \/ StartThread(t) \/ FirstLock(t) \/ Spawn(t) \/ SpawnNone(t) \/ WorkerEnd(t)
  \/ EventHandled(t) \/ SendStart(t) \/ SendWait(t) \/ SendPush(t)

TNext ==
  \/ \E t \in Thread : Step(t)
  \/ \E e \in EventThread : EventLoop(e) \/ EventExit(e) \/ EventPoll(e)
  \/ VMEvent_deinit \/ DeinitDestroy \/ DeinitJoin \/ GILDeinit

TSpec == TInit /\ [][TNext]_tvars

(* Scheduling: every thread runs; the mutex is fair to the main and the    *)
(* event thread; threads that run Python sleep or end again and again, and *)
(* handlers return. Nobody is obliged to send or to start a thread.        *)
Goes(t) == \/ EnterRead(t) \/ EnterBare(t) \/ EnterFlag(t) \/ Exit(t) \/ Wake(t) \/ RunVM(t)
           \/ InitCheck(t) \/ InitMutex(t) \/ InitDone(t) \/ Remake(t)
           \/ FirstLock(t) \/ Spawn(t) \/ SpawnNone(t) \/ SendWait(t) \/ SendPush(t)

Fairness ==
  /\ \A t \in Thread : WF_tvars(Goes(t))
  /\ \A t \in Worker \cup Native : WF_tvars(EnterLock(t))
  /\ \A t \in EventThread \cup {Main} : SF_tvars(EnterLock(t))
  /\ SF_tvars(\E w \in Worker : Sleep(w) \/ WorkerEnd(w))
  /\ SF_tvars(\E e \in EventThread : EventHandled(e))
  /\ \A e \in EventThread : WF_tvars(EventLoop(e) \/ EventExit(e) \/ EventPoll(e))
  /\ WF_tvars(DeinitDestroy \/ DeinitJoin \/ GILDeinit)

FairSpec == TSpec /\ Fairness

-----------------------------------------------------------------------------
(* Threads of the _thread module only (no arg events): at most one thread  *)
(* executes bytecode at a time, although the main thread starts without    *)
(* any lock and the mutex is made only when the first thread is started.   *)
VMExclusive ==
  ~ events /\ pc[Main] # "dead" =>
    /\ pc[Main] # "undefined"
    /\ \A t, u \in Thread : pc[t] = "vm" /\ pc[u] = "vm" => t = u

(* Until the root object is freed, and up to a _VM_lock_init that makes a  *)
(* mutex in use again: a worker, the event thread and a sender that pushes  *)
(* own the GIL wherever they touch the VM, also after a nested GIL_ENTER   *)
(* and GIL_EXIT inside a send; and the mutex is free exactly when every    *)
(* level of it was given back. In a program without native senders no      *)
(* _VM_lock_init does so, whatever its Python threads send and start.      *)
GILHeld ==
  /\ (owner = NoThread) <=> (lock_times = 0)
  /\ pc[Main] # "dead" =>
    \A t \in Thread \ {Main} : pc[t] \in {"vm", "vm0", "poll", "push"} => owner = t
  /\ pc[Main] = "undefined" => \E s \in Native : pc[s] # "gone"

(* _VMEvent_deinit gets through: the event thread it waits for can always  *)
(* take the GIL, see the flag and answer, unless a mutex in use is made    *)
(* again.                                                                  *)
DeinitCompletes == (pc[Main] = "destroy") ~> (pc[Main] \in {"dead", "undefined"})
=============================================================================

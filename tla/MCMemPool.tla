----------------------------- MODULE MCMemPool -----------------------------
(* A pool of blocks of 8 bytes, with more than one whole bitmap byte, so    *)
(* that the byte skip, the fast path and the search all occur. A request   *)
(* of 64 bytes fills a bitmap byte at once.                                *)
EXTENDS MemPool

CONSTANTS h1, h2, h3

Handle3 == {h1, h2, h3}
SomeBytes == {0, 5, 24, 64}
=============================================================================

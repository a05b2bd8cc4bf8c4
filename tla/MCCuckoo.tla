------------------------------ MODULE MCCuckoo ------------------------------
(* A small table of the thread-safe index: two threads, one with more items  *)
(* than a batch, into so few bins that items reach the stash and overflow it. *)
EXTENDS CuckooIndex

Row(a, b, c) == [h \in 0 .. 2 |-> CASE h = 0 -> a [] h = 1 -> b [] OTHER -> c]
Spans == <<<<0, 1, 2, 3, 4>>, <<5>>>>
SomeRows == {Row(0, 1, 2), Row(2, 3, 4)}
ASSUME TableGiven == Given
=============================================================================

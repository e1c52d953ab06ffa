----------------------------- MODULE BoundedFifo -----------------------------
(***************************************************************************)
(* What the input queue promises the threads that use it: a queue of at    *)
(* most Room items, first in first out, which refuses an item only when it *)
(* is full: every refusal is counted, so that one which comes too early is *)
(* a step of no action.  InputQueue implements it with a ring of Room + 1  *)
(* places.                                                                 *)
(***************************************************************************)
EXTENDS Integers, Sequences

CONSTANTS Items, Room

VARIABLES queue, refused

Init == queue = <<>> /\ refused = 0

Put == /\ Len(queue) < Room
       /\ \E e \in Items : queue' = Append(queue, e)
       /\ UNCHANGED refused

Get == /\ queue # <<>>
       /\ queue' = Tail(queue)
       /\ UNCHANGED refused

Refuse == /\ Len(queue) = Room
          /\ refused' = refused + 1
          /\ UNCHANGED queue

Next == Put \/ Get \/ Refuse

Spec == Init /\ [][Next]_<<queue, refused>>
=============================================================================

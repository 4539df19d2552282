------------------------------ MODULE EventFeed ------------------------------
(***************************************************************************)
(* What the event feed promises its readers: events are numbered in the    *)
(* order they are published; a reader joins at the newest one and from     *)
(* there only moves forward, never back to an event it has passed and      *)
(* never beyond the newest, until it leaves.                               *)
(***************************************************************************)
EXTENDS Integers

CONSTANTS Readers

VARIABLES
  last,  \* the newest event, 0 before the first
  at     \* the event each reader has got to, -1 for one that has not joined

Away == -1

Init == last = 0 /\ at = [r \in Readers |-> Away]

Publish == last' = last + 1 /\ UNCHANGED at
Join(r) == at[r] = Away /\ at' = [at EXCEPT ![r] = last] /\ UNCHANGED last
Advance(r) ==
  /\ at[r] # Away
  /\ \E n \in at[r]..last : at' = [at EXCEPT ![r] = n]
  /\ UNCHANGED last
Leave(r) == at' = [at EXCEPT ![r] = Away] /\ UNCHANGED last

Next == Publish \/ \E r \in Readers : Join(r) \/ Advance(r) \/ Leave(r)
Spec == Init /\ [][Next]_<<last, at>>
=============================================================================

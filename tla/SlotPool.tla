------------------------------ MODULE SlotPool ------------------------------
(* What the upload manager promises its administrator for each of its queues: *)
(* a run works only while it holds a slot, a slot is handed out only while    *)
(* fewer than `limit' runs hold one, and the limit may be moved at any time.  *)
EXTENDS Integers, FiniteSets

CONSTANTS Run,     \* the runs (worker goroutines) that compete for slots
          Limits   \* the values the concurrency setting may take

VARIABLES holding, \* the runs that hold a slot
          limit

vars == <<holding, limit>>

Init == holding = {} /\ limit \in Limits

Grab(r) == /\ r \notin holding
           /\ Cardinality(holding) < limit
           /\ holding' = holding \cup {r}
           /\ UNCHANGED limit

Drop(r) == /\ r \in holding
           /\ holding' = holding \ {r}
           /\ UNCHANGED limit

SetLimit == limit' \in Limits /\ UNCHANGED holding

Next == SetLimit \/ \E r \in Run : Grab(r) \/ Drop(r)

Spec == Init /\ [][Next]_vars
=============================================================================

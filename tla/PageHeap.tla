------------------------------ MODULE PageHeap ------------------------------
(***************************************************************************)
(* What a page-frame allocator promises its callers: it hands out runs of  *)
(* consecutive pages, never gives a page to two callers, and takes back    *)
(* exactly the run it handed out.  No descriptors, no placement policy.    *)
(***************************************************************************)
EXTENDS Integers

CONSTANT NumPages

VARIABLE runs           \* the runs callers hold

Run == [start : 0 .. NumPages - 1, len : 1 .. NumPages]

Pages(r) == r.start .. r.start + r.len - 1

Init == runs = {}

Allocate(r) ==
  /\ Pages(r) \subseteq 0 .. NumPages - 1
  /\ \A q \in runs : Pages(q) \cap Pages(r) = {}
  /\ runs' = runs \cup {r}

Free(r) ==
  /\ r \in runs
  /\ runs' = runs \ {r}

Next == \E r \in Run : Allocate(r) \/ Free(r)

Spec == Init /\ [][Next]_runs
=============================================================================

---------------------------- MODULE AddressSpace ----------------------------
(***************************************************************************)
(* What a page table promises: which page each virtual page translates to, *)
(* with which permissions, and how large the leaf is that says so.         *)
(***************************************************************************)
EXTENDS Integers

CONSTANTS Width, Vpages, Vaddrs, Ppages, Perms, None

VARIABLE space

Translation == [page : Nat, bits : Perms, level : 0 .. 2]

BlockSize(level) ==
  CASE level = 0 -> 1
    [] level = 1 -> Width
    [] level = 2 -> Width * Width

SameBlock(v, w, level) == v \div BlockSize(level) = w \div BlockSize(level)

(* The page that v has in a leaf of this level placed at p. *)
PageIn(p, v, level) == p - (p % BlockSize(level)) + (v % BlockSize(level))

(* A larger leaf over v: a smaller mapping beneath it is not seen. *)
Covered(v, level) == space[v] # None /\ space[v].level > level

(* Each virtual page takes the translation that New gives it. *)
Becomes(New(_)) ==
  /\ \A v \in Vpages : space'[v] = New(v)
  /\ space' \in [Vpages -> Translation \cup {None}]

Map(v, p, bits, level) ==
  /\ ~Covered(v, level)
  /\ Becomes(LAMBDA w :
       IF SameBlock(v, w, level)
         THEN [page |-> PageIn(p, w, level), bits |-> bits, level |-> level]
         ELSE space[w])

(* Each page of start .. end - 1 to itself, except beneath a larger leaf.  *)
(* When no page is left for a table, a range is mapped in part.            *)
IdMap(start, end, bits) ==
  Becomes(LAMBDA v :
    IF v \in start .. end - 1 /\ ~Covered(v, 0)
      THEN [page |-> v, bits |-> bits, level |-> 0]
      ELSE space[v])

(* Only what the root table itself maps survives. *)
Unmap ==
  Becomes(LAMBDA v : IF space[v] # None /\ space[v].level = 2 THEN space[v] ELSE None)

Init == space = [v \in Vpages |-> None]

Next ==
  \/ \E v \in Vaddrs, p \in Ppages, bits \in Perms, level \in 0 .. 2 : Map(v, p, bits, level)
  \/ \E start, end \in Ppages, bits \in Perms :
       \E reached \in start .. end : IdMap(start, reached, bits)
  \/ Unmap

Spec == Init /\ [][Next]_space
=============================================================================

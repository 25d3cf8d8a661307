-------------------------- MODULE PageFrameProofs --------------------------
(***************************************************************************)
(* Proofs about the page-frame allocator for every heap: any page size,    *)
(* any placement of the heap, any sequence of calls.                       *)
(***************************************************************************)
EXTENDS PageFrame, TLAPS

(* Each held run is marked in the table, LAST on its final page only. *)
RunsMarked ==
  \A r \in held :
    /\ r.start + r.len <= NumDescs
    /\ \A k \in Pages(r) :
         desc[k] = IF k = r.start + r.len - 1 THEN {"TAKEN", "LAST"} ELSE {"TAKEN"}

(* A flag is set only on a page of some held run. *)
MarksOwned == \A k \in Idx : desc[k] # {} => \E r \in held : k \in Pages(r)

IInv == TypeOK /\ NoSharedPage /\ RunsMarked /\ MarksOwned /\ NoRunPanic

(* The number of descriptors is a natural number. *)
LEMMA NumDescsNat == NumDescs \in Nat
  <1>1. \A a \in Nat, b \in Nat \ {0} : a \div b \in Nat
    OBVIOUS
  <1> QED  BY <1>1, HeapAssumption DEF NumDescs

(* init() places the data pages behind the table. *)
LEMMA TableBeforePages ==
  \A s \in Nat : PageAddr(s) \in Nat /\ HeapStart + NumDescs <= PageAddr(s)
  <1>1. \A x \in Nat, m \in Nat \ {0} :
          next_multiple_of(x, m) \in Nat /\ x <= next_multiple_of(x, m)
    BY DEF next_multiple_of
  <1>2. \A s \in Nat : s * PAGE_SIZE \in Nat
    BY HeapAssumption
  <1>3. ALLOC_START \in Nat /\ HeapStart + NumDescs <= ALLOC_START
    BY <1>1, NumDescsNat, HeapAssumption DEF ALLOC_START
  <1> QED  BY <1>2, <1>3, NumDescsNat, HeapAssumption DEF PageAddr

(* zallocate's fill leaves the descriptor table alone. *)
LEMMA ZeroFillSparesTable ==
  ASSUME NEW s \in Idx, NEW n \in Nat, NEW t, t = [k \in Idx |-> t[k]]
  PROVE  ZeroFill(s, n, t) = t
  <1>1. \A k \in Idx : HeapStart + k \notin PageAddr(s) .. PageAddr(s + n) - 1
    <2>1. s \in Nat /\ s + n \in Nat  BY NumDescsNat DEF Idx
    <2>2. PageAddr(s) \in Nat /\ PageAddr(s + n) \in Nat /\ HeapStart + NumDescs <= PageAddr(s)
      BY <2>1, TableBeforePages
    <2>3. HeapStart \in Nat /\ NumDescs \in Nat  BY NumDescsNat, HeapAssumption
    <2> SUFFICES ASSUME NEW k \in Idx, HeapStart + k >= PageAddr(s) PROVE FALSE
      BY <2>2, <2>3 DEF Idx
    <2>4. k \in Nat /\ k < NumDescs  BY <2>3 DEF Idx
    <2> QED  BY <2>2, <2>3, <2>4
  <1> QED  BY <1>1 DEF ZeroFill

-----------------------------------------------------------------------------
(* init() clears every descriptor: the invariant holds before any call. *)
LEMMA InitIInv == Init => IInv
  BY DEF Init, IInv, TypeOK, NoSharedPage, RunsMarked, MarksOwned, NoRunPanic

(* allocate marks a window of free pages as one more run. *)
LEMMA AllocateIInv ==
  ASSUME IInv, NEW n \in 1 .. MaxPages, NEW zero \in BOOLEAN, Allocate(n, zero)
  PROVE  IInv'
  <1> USE NumDescsNat, HeapAssumption
  <1>1. PICK s \in Idx :
          /\ IsFirstFit(s, n)
          /\ desc' = IF zero THEN ZeroFill(s, n, MarkRun(s, n)) ELSE MarkRun(s, n)
          /\ held' = held \cup {[start |-> s, len |-> n]}
    BY DEF Allocate
  <1>2. n \in Nat /\ n > 0 /\ s \in Nat /\ s + n <= NumDescs
    BY <1>1 DEF IsFirstFit, FreeWindow, Idx
  <1>3. desc' = MarkRun(s, n)
    <2>1. MarkRun(s, n) = [k \in Idx |-> MarkRun(s, n)[k]]  BY DEF MarkRun
    <2> QED  BY <1>1, <1>2, <2>1, ZeroFillSparesTable
  <1> DEFINE new == [start |-> s, len |-> n]
  <1>4. new \in Run /\ Pages(new) = s .. s + n - 1 /\ Pages(new) \subseteq Idx
    BY <1>2 DEF Run, Pages, Idx
  <1>5. \A k \in Pages(new) : desc[k] = {}
    <2>1. \A k \in Pages(new) : "TAKEN" \notin desc[k]
      BY <1>1, <1>4 DEF IsFirstFit, FreeWindow, IsFree
    <2>2. \A k \in Idx : desc[k] # {} => "TAKEN" \in desc[k]
      BY DEF IInv, MarksOwned, RunsMarked
    <2> QED  BY <1>4, <2>1, <2>2, Zenon
  <1>6. \A r \in held : Pages(r) \cap Pages(new) = {}
    BY <1>5 DEF IInv, RunsMarked
  <1>7. \A k \in Pages(new) :
          desc'[k] = IF k = s + n - 1 THEN {"TAKEN", "LAST"} ELSE {"TAKEN"}
    BY <1>2, <1>3, <1>4, <1>5, Zenon DEF MarkRun
  <1>8. \A k \in Idx \ Pages(new) : desc'[k] = desc[k]
    BY <1>2, <1>3, <1>4 DEF MarkRun
  <1> HIDE DEF new
  <1>9. held' = held \cup {new} /\ new.start = s /\ new.len = n
    BY <1>1 DEF new
  <1>10. TypeOK'
    <2>1. desc' \in [Idx -> SUBSET {"TAKEN", "LAST"}]
      BY <1>3 DEF MarkRun, IInv, TypeOK
    <2> QED  BY <2>1, <1>2, <1>4, <1>9 DEF IInv, TypeOK, Allocate
  <1>11. NoSharedPage'
    BY <1>6, <1>9 DEF IInv, NoSharedPage
  <1>12. RunsMarked'
    <2>1. ASSUME NEW r \in held
          PROVE  /\ r.start + r.len <= NumDescs
                 /\ \A k \in Pages(r) : k \in Idx /\ desc'[k] = desc[k]
      <3>1. r.start \in Nat /\ r.len \in Nat /\ r.start + r.len <= NumDescs
        BY DEF IInv, TypeOK, Run, Idx, RunsMarked
      <3> QED  BY <3>1, <1>6, <1>8 DEF Pages, Idx
    <2> QED  BY <2>1, <1>2, <1>7, <1>9 DEF IInv, RunsMarked
  <1>13. MarksOwned'
    BY <1>8, <1>9 DEF IInv, MarksOwned
  <1> QED  BY <1>10, <1>11, <1>12, <1>13 DEF IInv, NoRunPanic, Allocate

(* deallocate's loop stops on the last page of the run that starts at ptr, *)
(* so it clears that run and no other page.                                *)
LEMMA DeallocateEffect ==
  ASSUME IInv, NEW r \in held, Deallocate(r)
  PROVE  /\ desc' = [k \in Idx |-> IF k \in Pages(r) THEN {} ELSE desc[k]]
         /\ held' = held \ {r}
         /\ UNCHANGED panic
  <1> USE NumDescsNat, HeapAssumption
  <1> DEFINE last == r.start + r.len - 1
  <1>1. r.start \in Nat /\ r.len \in Nat \ {0} /\ last \in Nat /\ last < NumDescs
    BY DEF IInv, TypeOK, Run, Idx, RunsMarked
  <1>2. /\ \A k \in r.start .. last - 1 : desc[k] = {"TAKEN"}
        /\ desc[last] = {"TAKEN", "LAST"}
    BY <1>1 DEF IInv, RunsMarked, Pages
  <1>3. PICK e \in r.start .. NumDescs :
          /\ LoopStops(r.start, e)
          /\ IF IsRunEnd(e)
               THEN desc' = ClearRun(r.start, e) /\ UNCHANGED panic
               ELSE desc' = ClearRun(r.start, e - 1) /\ panic' = "run"
    BY DEF Deallocate
  <1> HIDE DEF last
  <1>4. e = last
    <2>1. ~(last \in r.start .. e - 1)
      BY <1>2, <1>3 DEF LoopStops, InsideRun
    <2>2. ~(e \in r.start .. last - 1)
      BY <1>1, <1>2, <1>3 DEF LoopStops, InsideRun
    <2>3. r.start <= last  BY <1>1 DEF last
    <2> QED  BY <1>1, <2>1, <2>2, <2>3
  <1>5. IsRunEnd(e)
    BY <1>1, <1>2, <1>4 DEF IsRunEnd
  <1> QED
    BY <1>3, <1>4, <1>5 DEF ClearRun, Pages, last, Deallocate

(* deallocate forgets one run and leaves the marks of the others. *)
LEMMA DeallocateIInv ==
  ASSUME IInv, NEW r \in held, Deallocate(r)
  PROVE  IInv'
  <1> USE NumDescsNat, DeallocateEffect
  <1>1. TypeOK'
    BY DEF IInv, TypeOK
  <1>2. NoSharedPage'
    BY DEF IInv, NoSharedPage
  <1>3. RunsMarked'
    <2>1. ASSUME NEW q \in held'
          PROVE  /\ q \in held /\ q.start + q.len <= NumDescs
                 /\ \A k \in Pages(q) : desc'[k] = desc[k]
      <3>1. q \in held /\ q # r /\ q.start \in Nat /\ q.len \in Nat
            /\ q.start + q.len <= NumDescs
        BY DEF IInv, TypeOK, Run, Idx, RunsMarked
      <3>2. Pages(q) \subseteq Idx
        BY <3>1 DEF Pages, Idx
      <3> QED  BY <3>1, <3>2 DEF IInv, NoSharedPage
    <2> QED  BY <2>1 DEF IInv, RunsMarked
  <1>4. MarksOwned'
    BY DEF IInv, MarksOwned
  <1> QED  BY <1>1, <1>2, <1>3, <1>4 DEF IInv, NoRunPanic

(* Every call, and every failed assertion, preserves the invariant. *)
LEMMA NextIInv == IInv /\ [Next]_vars => IInv'
  <1> SUFFICES ASSUME IInv, [Next]_vars PROVE IInv'
    OBVIOUS
  <1>1. CASE \E n \in 1 .. MaxPages, zero \in BOOLEAN : Allocate(n, zero)
    BY <1>1, AllocateIInv
  <1>2. CASE \E r \in held : Deallocate(r)
    BY <1>2, DeallocateIInv
  <1>3. CASE AllocateZeroPages \/ \E r \in held : DeallocateOutsideHeap(r)
    BY <1>3 DEF AllocateZeroPages, DeallocateOutsideHeap, IInv, TypeOK, NoSharedPage,
                RunsMarked, MarksOwned, NoRunPanic
  <1>4. CASE UNCHANGED vars
    BY <1>4 DEF vars, IInv, TypeOK, NoSharedPage, RunsMarked, MarksOwned, NoRunPanic
  <1> QED  BY <1>1, <1>2, <1>3, <1>4 DEF Next, AllocateNone, Aborted

(* The table and the runs determine each other. *)
LEMMA IInvMatches == IInv => TableMatchesRuns
  <1> SUFFICES ASSUME IInv PROVE held = RunsOf(desc)
    BY DEF TableMatchesRuns
  <1> USE NumDescsNat
  <1>1. \A q \in held : /\ q \in Run /\ q.start \in Nat /\ q.len \in Nat \ {0}
                        /\ q.start + q.len <= NumDescs
    BY DEF IInv, TypeOK, Run, Idx, RunsMarked
  <1>2. ASSUME NEW r \in held PROVE r \in RunsOf(desc)
    <2>1. ASSUME r.start > 0, desc[r.start - 1] = {"TAKEN"} PROVE FALSE
      <3>1. r.start - 1 \in Idx
        BY <1>1, <2>1 DEF Idx
      <3>2. PICK q \in held : r.start - 1 \in Pages(q)
        BY <2>1, <3>1 DEF IInv, MarksOwned
      <3>3. r.start - 1 # q.start + q.len - 1
        BY <2>1, <3>2 DEF IInv, RunsMarked
      <3>4. r.start \in Pages(q) /\ r.start \in Pages(r) /\ r.start - 1 \notin Pages(r)
        BY <1>1, <3>2, <3>3 DEF Pages
      <3> QED  BY <3>2, <3>4 DEF IInv, NoSharedPage
    <2> QED  BY <1>1, <2>1 DEF RunsOf, IInv, RunsMarked
  <1>3. ASSUME NEW r \in RunsOf(desc) PROVE r \in held
    <2>1. /\ r \in Run /\ r.start \in Idx /\ r.start \in Nat /\ r.len \in Nat \ {0}
          /\ r.start + r.len <= NumDescs
      BY DEF RunsOf, Run, Idx
    <2>2. \A k \in Pages(r) :
            desc[k] = IF k = r.start + r.len - 1 THEN {"TAKEN", "LAST"} ELSE {"TAKEN"}
      BY DEF RunsOf
    <2>3. PICK q \in held : r.start \in Pages(q)
      BY <2>1, <2>2 DEF IInv, MarksOwned, Pages
    <2>4. \A k \in Pages(q) :
            desc[k] = IF k = q.start + q.len - 1 THEN {"TAKEN", "LAST"} ELSE {"TAKEN"}
      BY DEF IInv, RunsMarked
    <2>5. q.start = r.start
      <3>1. ASSUME q.start < r.start PROVE FALSE
        <4>1. desc[r.start - 1] = {"TAKEN"}
          BY <1>1, <2>1, <2>3, <2>4, <3>1 DEF Pages
        <4> QED  BY <1>1, <2>1, <3>1, <4>1 DEF RunsOf
      <3> QED  BY <1>1, <2>1, <2>3, <3>1 DEF Pages
    <2>6. q.len = r.len
      <3>1. {"TAKEN", "LAST"} # {"TAKEN"}  OBVIOUS
      <3>2. ASSUME r.len < q.len PROVE FALSE
        <4>1. r.start + r.len - 1 \in Pages(r) \cap Pages(q)
          BY <1>1, <2>1, <2>5, <3>2 DEF Pages
        <4> QED  BY <1>1, <2>1, <2>2, <2>4, <2>5, <3>1, <3>2, <4>1
      <3>3. ASSUME q.len < r.len PROVE FALSE
        <4>1. q.start + q.len - 1 \in Pages(r) \cap Pages(q)
          BY <1>1, <2>1, <2>5, <3>3 DEF Pages
        <4>2. desc[q.start + q.len - 1] = {"TAKEN", "LAST"}
          BY <2>4, <4>1
        <4>3. q.start + q.len - 1 # r.start + r.len - 1
          BY <1>1, <2>1, <2>5, <3>3
        <4>4. desc[q.start + q.len - 1] = {"TAKEN"}
          BY <2>2, <4>1, <4>3
        <4> QED  BY <3>1, <4>2, <4>4
      <3> QED  BY <1>1, <2>1, <3>2, <3>3
    <2> QED  BY <1>1, <2>1, <2>5, <2>6 DEF Run
  <1> QED  BY <1>2, <1>3

-----------------------------------------------------------------------------
(* For every heap: two callers never share a page, deallocate never meets  *)
(* its "not the start of a run" assertion, and the flags in the table      *)
(* denote exactly the runs callers hold (allocate, zallocate, deallocate). *)
THEOREM AllocatorSafety ==
  Spec => [](TypeOK /\ NoSharedPage /\ TableMatchesRuns /\ NoRunPanic)
  <1>1. IInv => TypeOK /\ NoSharedPage /\ TableMatchesRuns /\ NoRunPanic
    BY IInvMatches DEF IInv
  <1> QED  BY InitIInv, NextIInv, <1>1, PTL DEF Spec

(* The descriptor table implements the abstract heap: read as runs, every  *)
(* call takes one free run, returns one held run, or changes nothing.      *)
THEOREM AllocatorRefinesHeap == Spec => HeapSpec
  <1> USE NumDescsNat
  <1>1. Init => Heap!Init
    BY InitIInv, IInvMatches DEF Init, TableMatchesRuns, Heap!Init
  <1>2. IInv /\ IInv' /\ [Next]_vars => [Heap!Next]_(RunsOf(desc))
    <2> SUFFICES ASSUME IInv, IInv', [Next]_vars
                 PROVE  Heap!Next \/ RunsOf(desc)' = RunsOf(desc)
      OBVIOUS
    <2>1. held = RunsOf(desc) /\ held' = RunsOf(desc)'
      <3>1. held = RunsOf(desc)  BY IInvMatches DEF TableMatchesRuns
      <3>2. TableMatchesRuns'  BY IInvMatches, PTL
      <3> QED  BY <3>1, <3>2 DEF TableMatchesRuns
    <2>2. ASSUME NEW n \in 1 .. MaxPages, NEW zero \in BOOLEAN, Allocate(n, zero)
          PROVE  Heap!Next
      <3>1. PICK s \in Idx : held' = held \cup {[start |-> s, len |-> n]} /\ s + n <= NumDescs
                             /\ \A k \in s .. s + n - 1 : IsFree(k)
        BY <2>2 DEF Allocate, IsFirstFit, FreeWindow
      <3> DEFINE new == [start |-> s, len |-> n]
      <3>2. new \in Heap!Run /\ Heap!Pages(new) = s .. s + n - 1
            /\ Heap!Pages(new) \subseteq 0 .. NumDescs - 1
        BY <3>1, HeapAssumption DEF Heap!Run, Heap!Pages, Idx
      <3>3. \A q \in held : Heap!Pages(q) \cap Heap!Pages(new) = {}
        BY <3>1, <3>2 DEF IInv, RunsMarked, IsFree, Pages, Heap!Pages
      <3>4. Heap!Allocate(new)
        BY <2>1, <3>1, <3>2, <3>3, Zenon DEF Heap!Allocate
      <3> QED  BY <3>2, <3>4 DEF Heap!Next
    <2>3. ASSUME NEW r \in held, Deallocate(r)
          PROVE  Heap!Next
      <3>1. held' = held \ {r}  BY <2>3, DeallocateEffect
      <3>2. r \in Heap!Run  BY DEF IInv, TypeOK, Run, Idx, Heap!Run
      <3> QED  BY <2>1, <3>1, <3>2 DEF Heap!Next, Heap!Free
    <2>4. CASE UNCHANGED held
      BY <2>1, <2>4
    <2> QED
      BY <2>2, <2>3, <2>4 DEF Next, AllocateNone, AllocateZeroPages,
                             DeallocateOutsideHeap, Aborted, vars
  <1> QED  BY InitIInv, NextIInv, <1>1, <1>2, PTL DEF Spec, HeapSpec, Heap!Spec

(* Descriptors hold no flags but TAKEN and LAST, and no run that allocate  *)
(* hands out reaches past the end of the table, for every heap.            *)
COROLLARY AllocatorTypes == Spec => []TypeOK
  BY AllocatorSafety, PTL

(* No page is part of two live allocations (allocate, deallocate). *)
COROLLARY PagesNotShared == Spec => []NoSharedPage
  BY AllocatorSafety, PTL

(* deallocate's walk over a live run always ends at its END descriptor:    *)
(* its assertions never fire.                                              *)
COROLLARY RunsNeverPanic == Spec => []NoRunPanic
  BY AllocatorSafety, PTL
=============================================================================

----------------------------- MODULE PageFrame -----------------------------
(***************************************************************************)
(* The first-fit page-frame allocator (mm/alloc/page_frame.rs).            *)
(*                                                                         *)
(* One byte of flags per page lives in a table at the head of the heap;    *)
(* the table is the allocator's whole state.  A caller keeps the address   *)
(* it was given and nothing else: the length of its run is encoded by the  *)
(* LAST flag.  `held' records the runs callers own, so that the promises   *)
(* made to them can be stated.                                             *)
(***************************************************************************)
EXTENDS Integers

CONSTANTS
  PAGE_SIZE,      \* bytes in a page
  HeapStart,      \* linker::heap_start(), in general not page aligned
  MemoryEnd,      \* linker::memory_end() = heap_start() + heap_size()
  MaxPages        \* bound: the longest run a caller asks for

ASSUME HeapAssumption ==
  /\ PAGE_SIZE \in Nat \ {0}
  /\ HeapStart \in Nat
  /\ MemoryEnd \in Nat
  /\ HeapStart <= MemoryEnd
  /\ MaxPages \in Nat

VARIABLES
  desc,           \* the descriptor table: a set of flags for each page
  held,           \* the runs handed out and not yet given back
  panic           \* the assertion that stopped the caller, or "none"

vars == <<desc, held, panic>>

NumDescs == (MemoryEnd - HeapStart) \div PAGE_SIZE

Idx == 0 .. NumDescs - 1

next_multiple_of(x, m) == IF x % m = 0 THEN x ELSE x + (m - (x % m))

ALLOC_START_NoTable == next_multiple_of(HeapStart, PAGE_SIZE)

ALLOC_START == next_multiple_of(HeapStart + NumDescs, PAGE_SIZE)

PageAddr(i) == ALLOC_START + i * PAGE_SIZE

Run == [start : Idx, len : 1 .. NumDescs]

Pages(r) == r.start .. r.start + r.len - 1

IsFree(k) == "TAKEN" \notin desc[k]

InsideRun(k) == desc[k] = {"TAKEN"}      \* is_taken() && !is_last()

-----------------------------------------------------------------------------
(* allocate(pages) and zallocate(pages) *)

FreeWindow_NoBound(s, n) == \A k \in s .. s + n - 1 : k \in Idx => IsFree(k)

FreeWindow(s, n) == s + n <= NumDescs /\ \A k \in s .. s + n - 1 : IsFree(k)

IsFirstFit(s, n) == FreeWindow(s, n) /\ \A t \in Idx : FreeWindow(t, n) => s <= t

MarkRun(s, n) ==
  [k \in Idx |->
     desc[k] \cup (IF k \in s .. s + n - 1 THEN {"TAKEN"} ELSE {})
             \cup (IF k = s + n - 1 THEN {"LAST"} ELSE {})]

(* Descriptor k is the byte HeapStart + k.  Zeroing a run would clear the  *)
(* descriptors whose bytes lie inside it.                                  *)
ZeroFill(s, n, table) ==
  [k \in Idx |->
     IF HeapStart + k \in PageAddr(s) .. PageAddr(s + n) - 1 THEN {} ELSE table[k]]

Allocate(n, zero) ==
  /\ panic = "none"
  /\ n > 0
  /\ \E s \in Idx :
       /\ IsFirstFit(s, n)
       /\ desc' = IF zero THEN ZeroFill(s, n, MarkRun(s, n)) ELSE MarkRun(s, n)
       /\ held' = held \cup {[start |-> s, len |-> n]}
  /\ UNCHANGED panic

AllocateNone(n) ==
  /\ panic = "none"
  /\ n > 0
  /\ \A s \in Idx : ~FreeWindow(s, n)
  /\ UNCHANGED vars

(* assert!(pages > 0) *)
AllocateZeroPages ==
  /\ panic = "none"
  /\ panic' = "pages"
  /\ UNCHANGED <<desc, held>>

-----------------------------------------------------------------------------
(* deallocate(ptr): ptr is the start of a run that the caller holds, which *)
(* is the contract in the function's Safety section.                       *)

(* The descriptor at which the `while' loop stops; NumDescs is past the    *)
(* table, where indexing it panics.                                        *)
LoopStops(i, e) ==
  /\ \A k \in i .. e - 1 : InsideRun(k)
  /\ e = NumDescs \/ ~InsideRun(e)

ClearRun_KeepsEnd(i, e) == [k \in Idx |-> IF k \in i .. e - 1 THEN {} ELSE desc[k]]

ClearRun(i, e) == [k \in Idx |-> IF k \in i .. e THEN {} ELSE desc[k]]

IsRunEnd(e) == e < NumDescs /\ {"TAKEN", "LAST"} \subseteq desc[e]

Deallocate(r) ==
  /\ panic = "none"
  /\ PageAddr(r.start) < MemoryEnd
  /\ \E e \in r.start .. NumDescs :
       /\ LoopStops(r.start, e)
       /\ IF IsRunEnd(e)
            THEN desc' = ClearRun(r.start, e) /\ UNCHANGED panic
            ELSE desc' = ClearRun(r.start, e - 1) /\ panic' = "run"
  /\ held' = held \ {r}

(* assert!(addr >= start && addr < heap_end) *)
DeallocateOutsideHeap(r) ==
  /\ panic = "none"
  /\ PageAddr(r.start) >= MemoryEnd
  /\ panic' = "range"
  /\ UNCHANGED <<desc, held>>

(* A failed assertion ends in abort(), which never returns. *)
Aborted == panic # "none" /\ UNCHANGED vars

-----------------------------------------------------------------------------
Init ==
  /\ desc = [k \in Idx |-> {}]
  /\ held = {}
  /\ panic = "none"

Next ==
  \/ \E n \in 1 .. MaxPages, zero \in BOOLEAN : Allocate(n, zero)
  \/ \E n \in 1 .. MaxPages : AllocateNone(n)
  \/ AllocateZeroPages
  \/ \E r \in held : Deallocate(r)
  \/ \E r \in held : DeallocateOutsideHeap(r)
  \/ Aborted

Spec == Init /\ [][Next]_vars

-----------------------------------------------------------------------------
(* The flags of every descriptor are among the two the code sets, and no   *)
(* run that allocate hands out reaches past the end of the table.          *)
TypeOK ==
  /\ desc \in [Idx -> SUBSET {"TAKEN", "LAST"}]
  /\ held \in SUBSET Run
  /\ \A r \in held : r.start + r.len <= NumDescs
  /\ panic \in {"none", "pages", "run", "range"}

(* The runs a reader of the table alone would find. *)
RunsOf(table) ==
  {r \in Run :
     /\ r.start + r.len <= NumDescs
     /\ \A k \in Pages(r) :
          table[k] = IF k = r.start + r.len - 1 THEN {"TAKEN", "LAST"} ELSE {"TAKEN"}
     /\ r.start > 0 => table[r.start - 1] # {"TAKEN"}}

(* No page is in two runs at a time, whatever was allocated and freed      *)
(* before (allocate, deallocate).                                          *)
NoSharedPage == \A r, q \in held : r # q => Pages(r) \cap Pages(q) = {}

(* The table alone says which runs are out: deallocate, which sees only an *)
(* address, finds the length the caller asked for.                         *)
TableMatchesRuns == held = RunsOf(desc)

(* A caller that gives back what it holds never meets deallocate's "not    *)
(* the start of a run" assertion, nor runs off the table.                  *)
NoRunPanic == panic # "run"

(* The allocator implements PageHeap over its descriptors. *)
Heap == INSTANCE PageHeap WITH NumPages <- NumDescs, runs <- RunsOf(desc)

HeapSpec == Heap!Spec

(* "Allocate a contiguous run of `pages` 4 KiB pages, or `None` on OOM"    *)
(* (page_frame.rs:83): a run that was handed out lies inside the heap.     *)
RunsInsideHeap == \A r \in held : PageAddr(r.start + r.len) <= MemoryEnd
=============================================================================

-------------------------------- MODULE Sv39 --------------------------------
(***************************************************************************)
(* The Sv39 page tables (mm/paging/sv39): map, unmap, v2p, id_map_range.   *)
(*                                                                         *)
(* A table is one page of entries, and lives in a frame like any other; so *)
(* memory is modelled as frames of entries, and a walk that takes a mapped *)
(* page for a table reads and writes that page.  Addresses are page        *)
(* numbers: no operation looks at the offset within a page.                *)
(***************************************************************************)
EXTENDS Integers, FiniteSetsExt

CONSTANTS
  Width,          \* entries in a table (Table::len(), 512)
  Frames,         \* physical frames
  Root,           \* the frame of the root table
  TableFrames,    \* what the page-frame allocator can hand out
  Vaddrs,         \* virtual pages that callers map
  Ppages,         \* frames that callers map
  Perms,          \* PteFlags that callers pass: sets of "R", "W", "X"
  MaxCalls,       \* bound: calls to map and id_map_range
  None

(* Pages that an entry of level i spans. *)
Span(i) ==
  CASE i = 0 -> 1
    [] i = 1 -> Width
    [] i = 2 -> Width * Width
    [] i = 3 -> Width * Width * Width

Vpages == 0 .. Span(3) - 1

(* The frames that hold no table. *)
DataFrames == Frames \ (TableFrames \cup {Root})

(* Frame 0 holds no table, and no range that callers map contains one. *)
ASSUME PageTableAssumption ==
  /\ Width \in Nat \ {0, 1}
  /\ Frames \subseteq Nat
  /\ TableFrames \subseteq Frames /\ Root \in Frames \ TableFrames
  /\ 0 \in DataFrames
  /\ Vaddrs \subseteq Vpages
  /\ Ppages \subseteq Vpages
  /\ \A p, q \in Ppages : p .. q \subseteq DataFrames
  /\ \A bits \in Perms : bits \subseteq {"R", "W", "X"}
  /\ MaxCalls \in Nat
  /\ None \notin [page : Nat, bits : Perms, level : 0 .. 2]

VARIABLES
  mem,            \* the entries of every frame
  free,           \* TableFrames the allocator has not handed out
  panic,          \* the assertion that stopped the caller, or "none"
  below,          \* history: the last call mapped a page beneath a larger leaf
  mixed,          \* history: some call did, or put a leaf where a table hung
  calls           \* history: calls so far, at most MaxCalls

vars == <<mem, free, panic, below, mixed, calls>>

vpn(v, i) == (v \div Span(i)) % Width

Entry == [bits : SUBSET {"V", "R", "W", "X"}, ppn : Frames]

Invalid == [bits |-> {}, ppn |-> 0]

EmptyTable == [i \in 0 .. Width - 1 |-> Invalid]

is_valid(e) == "V" \in e.bits

is_leaf(e) == e.bits \cap {"R", "W", "X"} # {}

IsTablePointer(e) == is_valid(e) /\ ~is_leaf(e)

-----------------------------------------------------------------------------
(* map, as a function of a record of the state it works on: `at' is the    *)
(* slot the walk has reached, `ok' is FALSE once zallocate has failed,     *)
(* `below' once the walk has gone through a leaf.                          *)

zallocate_Unzeroed(st, f) == [st EXCEPT !.free = @ \ {f}]

zallocate(st, f) == [st EXCEPT !.free = @ \ {f}, !.mem[f] = EmptyTable]

EntryAt(st) == st.mem[st.at[1]][st.at[2]]

Follow(st, index) ==
  [st EXCEPT !.at = <<EntryAt(st).ppn, index>>,
             !.below = @ \/ is_leaf(EntryAt(st))]

Descend(st, index) ==
  LET f  == Min(st.free)                      \* first fit, a run of one page
      fs == zallocate(st, f)
  IN  IF ~st.ok THEN st
      ELSE IF is_valid(EntryAt(st)) THEN Follow(st, index)
      ELSE IF st.free = {} THEN [st EXCEPT !.ok = FALSE]
      ELSE Follow([fs EXCEPT !.mem[st.at[1]][st.at[2]] = [bits |-> {"V"}, ppn |-> f]], index)

Walk(st, v, level) ==
  LET w[i \in level .. 2] ==
        IF i = 2 THEN [st EXCEPT !.at = <<Root, vpn(v, 2)>>] ELSE Descend(w[i + 1], vpn(v, i))
  IN  w[level]

SetLeaf_Unshifted(st, p, bits) ==
  [st EXCEPT !.mem[st.at[1]][st.at[2]] = [bits |-> bits \cup {"V"}, ppn |-> p * Span(3)]]

SetLeaf(st, p, bits) ==
  [st EXCEPT !.mem[st.at[1]][st.at[2]] = [bits |-> bits \cup {"V"}, ppn |-> p],
             !.over = @ \/ IsTablePointer(EntryAt(st))]

map(st, v, p, bits, level) ==
  LET w == Walk(st, v, level) IN IF w.ok THEN SetLeaf(w, p, bits) ELSE w

id_map_range(st, start, end, bits) ==
  LET r[v \in start .. end] ==
        IF v = start THEN st ELSE map(r[v - 1], v - 1, v - 1, bits, 0)
  IN  r[end]

Now == [mem |-> mem, free |-> free, at |-> <<Root, 0>>,
        ok |-> TRUE, below |-> FALSE, over |-> FALSE]

Becomes(st) ==
  /\ mem' = st.mem
  /\ free' = st.free
  /\ panic' = IF st.ok THEN "none" ELSE "no page for a table"
  /\ below' = st.below
  /\ mixed' = (mixed \/ st.below \/ st.over)
  /\ calls' = calls + 1

Running == panic = "none"

Map(v, p, bits, level) ==
  /\ Running /\ calls < MaxCalls
  /\ bits # {}
  /\ Becomes(map(Now, v, p, bits, level))

(* assert!(bits.bits() & PteFlags::RWX.bits() != 0) *)
MapNoPermission ==
  /\ Running
  /\ {} \in Perms
  /\ panic' = "bits"
  /\ UNCHANGED <<mem, free, below, mixed, calls>>

IdMapRange(start, end, bits) ==
  /\ Running /\ calls < MaxCalls
  /\ bits # {}
  /\ Becomes(id_map_range(Now, start, end, bits))

-----------------------------------------------------------------------------
(* unmap.  A slot here is a table and an index that holds a table pointer. *)

PointersIn_Leaves(f) == {f} \X {i \in 0 .. Width - 1 : is_valid(mem[f][i])}

PointersIn(f) == {f} \X {i \in 0 .. Width - 1 : IsTablePointer(mem[f][i])}

Target(slot) == mem[slot[1]][slot[2]].ppn

Level1Slots == PointersIn(Root)

Level0Slots == UNION {PointersIn(Target(s)) : s \in Level1Slots}

(* deallocate asserts that what it is given is allocated, so freeing a     *)
(* frame twice panics.                                                     *)
FreesOnce(slots) ==
  /\ \A s \in slots : Target(s) \in TableFrames \ free
  /\ \A s, t \in slots : Target(s) = Target(t) => s = t

UnmapSlots(freed, cleared) ==
  /\ Running
  /\ panic' = IF FreesOnce(freed) THEN "none" ELSE "deallocate"
  /\ free' = free \cup {Target(s) : s \in freed}
  /\ mem' = [f \in Frames |-> [i \in 0 .. Width - 1 |->
               IF <<f, i>> \in cleared THEN Invalid ELSE mem[f][i]]]
  /\ below' = FALSE
  /\ UNCHANGED <<mixed, calls>>

Unmap_KeepsLevel0 == UnmapSlots(Level1Slots, Level1Slots \cup Level0Slots)

Unmap_KeepsRoot == UnmapSlots(Level1Slots \cup Level0Slots, Level0Slots)

Unmap == UnmapSlots(Level1Slots \cup Level0Slots, Level1Slots \cup Level0Slots)

Aborted == ~Running /\ UNCHANGED vars

-----------------------------------------------------------------------------
(* v2p, and the permissions and level of the leaf it ends at, which the    *)
(* hardware's own walk uses.                                               *)

LeafAt(e, i, v) ==
  IF is_valid(e)
    THEN [page  |-> e.ppn - (e.ppn % Span(i)) + (v % Span(i)),
          bits  |-> e.bits \ {"V"},
          level |-> i]
    ELSE None

v2p(v) ==
  LET w[i \in 0 .. 2] == [f \in Frames |->
        LET e == mem[f][vpn(v, i)]
        IN  IF ~IsTablePointer(e) THEN LeafAt(e, i, v)
            ELSE IF i = 0 THEN None
            ELSE w[i - 1][e.ppn]]
  IN  w[2][Root]

-----------------------------------------------------------------------------
(* The frames callers map hold data of their own: zeros, or bytes that     *)
(* would read as a valid entry.                                            *)
Init ==
  /\ \E word \in {Invalid, [bits |-> {"V", "R"}, ppn |-> 0]} :
       mem = [f \in Frames |->
                [i \in 0 .. Width - 1 |-> IF f \in Ppages THEN word ELSE Invalid]]
  /\ free = TableFrames
  /\ panic = "none"
  /\ below = FALSE
  /\ mixed = FALSE
  /\ calls = 0

Next ==
  \/ \E v \in Vaddrs, p \in Ppages, bits \in Perms, level \in 0 .. 2 : Map(v, p, bits, level)
  \/ \E start, end \in Ppages, bits \in Perms : start <= end /\ IdMapRange(start, end, bits)
  \/ MapNoPermission
  \/ Unmap
  \/ Aborted

Spec == Init /\ [][Next]_vars

-----------------------------------------------------------------------------
(* Every word of memory that a walk may read is an entry. *)
TypeOK ==
  /\ mem \in [Frames -> [0 .. Width - 1 -> Entry]]
  /\ free \subseteq TableFrames
  /\ panic \in {"none", "bits", "no page for a table", "deallocate"}
  /\ below \in BOOLEAN /\ mixed \in BOOLEAN
  /\ calls \in 0 .. MaxCalls

(* map, id_map_range and unmap do to the translations that v2p (and the    *)
(* hardware) finds exactly what AddressSpace says, at every level, after   *)
(* any earlier calls: no other page moves, nothing of a freed table comes  *)
(* back, and a mapping beneath a larger leaf is not seen.                  *)
Translations == INSTANCE AddressSpace WITH
  Perms <- Perms \ {{}}, space <- [v \in Vpages |-> v2p(v)]

TranslationSpec == Translations!Spec

(* The tree holds every table that was allocated for it, so that unmap     *)
(* gives all of them back, unless leaves of different sizes were mixed     *)
(* over the same addresses (map overwrites an entry without looking).      *)
NoTableLost ==
  ~mixed => TableFrames \ free = {Target(s) : s \in Level1Slots \cup Level0Slots}

(* unmap finds each table once and still allocated, so that deallocate     *)
(* never panics on it, however often it is called.                         *)
UnmapFreesOnce == FreesOnce(Level1Slots \cup Level0Slots)

(* "Leaves are left alone because they describe physical frames the caller *)
(* still owns" (map.rs:59): no call writes into a frame that was mapped,   *)
(* except a map beneath a larger leaf, which takes the leaf's page for a   *)
(* table (map.rs:45).                                                      *)
CallerFramesKept ==
  [][\A f \in DataFrames : mem'[f] # mem[f] => below']_vars
=============================================================================

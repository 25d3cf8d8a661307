-------------------------- MODULE Sv39ForestProofs --------------------------
(***************************************************************************)
(* The page tables, for any number of frames, entries in a table and calls:*)
(* unmap frees every table once and callers' frames are written only       *)
(* beneath a larger leaf.                                                  *)
(*                                                                         *)
(* The inductive invariant (SInv, from Sound) is that the pointers of the  *)
(* frames that are not free form a forest of allocated tables: every       *)
(* pointer leads to a table that is not free, and no two lead to the same  *)
(* one.  Leaves lead to frames that hold no table.  map keeps it because   *)
(* the table it hangs was free and is empty; unmap because it clears each  *)
(* slot whose table it frees.                                              *)
(*                                                                         *)
(* The last section unrolls v2p: the entry that a virtual page reads at    *)
(* each level (E2, E1, E0) and what v2p makes of them (V2P).               *)
(***************************************************************************)
EXTENDS Sv39, WellFoundedInduction, TLAPS

Idx == 0 .. Width - 1

Memory == [Frames -> [Idx -> Entry]]

(* The entry that map stores for a new table. *)
PointerTo(f) == [bits |-> {"V"}, ppn |-> f]

Sound(m, fr) ==
  /\ m \in Memory
  /\ fr \subseteq TableFrames
  /\ \A f \in Frames \ fr, i \in Idx :
       /\ IsTablePointer(m[f][i]) => m[f][i].ppn \in TableFrames \ fr
       /\ is_valid(m[f][i]) /\ is_leaf(m[f][i]) => m[f][i].ppn \in DataFrames
  /\ \A f, g \in Frames \ fr, i, j \in Idx :
       IsTablePointer(m[f][i]) /\ IsTablePointer(m[g][j]) /\ m[f][i].ppn = m[g][j].ppn
         => f = g /\ i = j

(* The record that map works on. *)
Walking(st) ==
  /\ st = [mem |-> st.mem, free |-> st.free, at |-> st.at,
           ok |-> st.ok, below |-> st.below, over |-> st.over]
  /\ st.ok \in BOOLEAN /\ st.below \in BOOLEAN /\ st.over \in BOOLEAN
  /\ st.at = <<st.at[1], st.at[2]>>
  /\ st.at[1] \in Frames \ st.free /\ st.at[2] \in Idx
  /\ Sound(st.mem, st.free)
  /\ st.at[1] \in DataFrames => st.below

-----------------------------------------------------------------------------
(* Least elements: what first fit finds, and induction. *)
LEMMA LeastElement ==
  ASSUME NEW T \in SUBSET Nat, T # {}
  PROVE  \E n \in T : \A m \in T : n <= m
<1>1. PICK R : R = OpToRel(<, Nat) /\ IsWellFoundedOn(R, Nat)
  BY NatLessThanWellFounded, Zenon
<1>2. PICK x \in T : \A y \in T : ~(<<y, x>> \in R)
  BY <1>1, WFMin, Zenon
<1>3. \A a \in Nat, b \in Nat : a < b => <<a, b>> \in R
  BY <1>1, Zenon DEF OpToRel
<1>4. \A y \in T : ~(y < x)
  BY <1>2, <1>3, Zenon
<1> QED
  BY <1>4

(* A set of numbers with 0 and every successor holds them all. *)
LEMMA NatSetInduction ==
  ASSUME NEW T \in SUBSET Nat, 0 \in T, \A n \in T : n + 1 \in T
  PROVE  T = Nat
<1> SUFFICES ASSUME Nat \ T # {} PROVE FALSE
  BY Zenon
<1>1. PICK n \in Nat \ T : \A m \in Nat \ T : n <= m
  BY LeastElement, Zenon
<1>2. n # 0 /\ n - 1 \in Nat
  OBVIOUS
<1>3. n - 1 \in T
  BY <1>1, <1>2
<1> QED
  BY <1>3

(* First fit takes a free frame. *)
LEMMA FirstFit ==
  ASSUME NEW fr \in SUBSET TableFrames, fr # {}
  PROVE  Min(fr) \in fr
<1>1. fr \in SUBSET Nat
  BY PageTableAssumption
<1>2. \E n \in fr : \A m \in fr : n <= m
  BY <1>1, LeastElement
<1> QED
  BY <1>2, Zenon DEF Min

(* The entries that the code writes. *)
LEMMA Entries ==
  /\ Invalid \in Entry /\ ~is_valid(Invalid) /\ ~IsTablePointer(Invalid) /\ ~is_leaf(Invalid)
  /\ EmptyTable \in [Idx -> Entry]
  /\ \A i \in Idx : EmptyTable[i] = Invalid
  /\ \A f \in Frames : PointerTo(f) \in Entry /\ IsTablePointer(PointerTo(f))
                       /\ PointerTo(f).ppn = f /\ is_valid(PointerTo(f))
                       /\ ~is_leaf(PointerTo(f))
<1>1. 0 \in Frames
  BY PageTableAssumption DEF DataFrames
<1>2. Invalid \in Entry /\ ~is_valid(Invalid) /\ ~IsTablePointer(Invalid) /\ ~is_leaf(Invalid)
  BY <1>1 DEF Invalid, Entry, is_valid, is_leaf, IsTablePointer
<1>3. EmptyTable \in [Idx -> Entry] /\ \A i \in Idx : EmptyTable[i] = Invalid
  BY <1>2 DEF EmptyTable, Idx
<1>4. ASSUME NEW f \in Frames
      PROVE  PointerTo(f) \in Entry /\ IsTablePointer(PointerTo(f)) /\ PointerTo(f).ppn = f
             /\ is_valid(PointerTo(f)) /\ ~is_leaf(PointerTo(f))
  BY DEF PointerTo, Entry, is_valid, is_leaf, IsTablePointer
<1> QED
  BY <1>2, <1>3, <1>4

-----------------------------------------------------------------------------
(* Writing entries *)

(* One entry of memory, written. *)
Stored(m, a, i, e) == [m EXCEPT ![a][i] = e]

LEMMA StoredEntry ==
  ASSUME NEW m \in Memory, NEW a \in Frames, NEW i \in Idx, NEW e \in Entry
  PROVE  /\ Stored(m, a, i, e) \in Memory
         /\ \A f \in Frames, j \in Idx :
              Stored(m, a, i, e)[f][j] = IF f = a /\ j = i THEN e ELSE m[f][j]
         /\ \A f \in Frames \ {a} : Stored(m, a, i, e)[f] = m[f]
  BY DEF Memory, Stored

(* A table zeroed, and hung in an entry of another frame. *)
Hung(m, a, i, f) == Stored([m EXCEPT ![f] = EmptyTable], a, i, PointerTo(f))

LEMMA HungEntry ==
  ASSUME NEW m \in Memory, NEW a \in Frames, NEW i \in Idx, NEW t \in Frames \ {a}
  PROVE  /\ Hung(m, a, i, t) \in Memory
         /\ \A f \in Frames, j \in Idx :
              Hung(m, a, i, t)[f][j] = IF f = a /\ j = i THEN PointerTo(t)
                                       ELSE IF f = t THEN Invalid ELSE m[f][j]
         /\ \A f \in Frames \ {a, t} : Hung(m, a, i, t)[f] = m[f]
<1> DEFINE z == [m EXCEPT ![t] = EmptyTable]
<1>1. z \in Memory /\ \A f \in Frames : z[f] = IF f = t THEN EmptyTable ELSE m[f]
  BY Entries DEF Memory
<1>2. PointerTo(t) \in Entry
  BY Entries
<1> HIDE DEF z
<1>3. /\ Stored(z, a, i, PointerTo(t)) \in Memory
      /\ \A f \in Frames, j \in Idx :
           Stored(z, a, i, PointerTo(t))[f][j] = IF f = a /\ j = i THEN PointerTo(t) ELSE z[f][j]
      /\ \A f \in Frames \ {a} : Stored(z, a, i, PointerTo(t))[f] = z[f]
  BY <1>1, <1>2, StoredEntry
<1>4. Hung(m, a, i, t) = Stored(z, a, i, PointerTo(t))
  BY Zenon DEF Hung, z
<1> QED
  BY <1>1, <1>3, <1>4, Entries

LEMMA HungHere ==
  ASSUME NEW m \in Memory, NEW a \in Frames, NEW i \in Idx, NEW t \in Frames \ {a}
  PROVE  Hung(m, a, i, t)[a][i] = PointerTo(t)
  BY HungEntry

LEMMA HungLive ==
  ASSUME NEW m, NEW fr, Sound(m, fr), NEW t \in fr, NEW a \in Frames \ fr, NEW i \in Idx
  PROVE  \A f \in Frames \ fr, j \in Idx :
           Hung(m, a, i, t)[f][j] = IF f = a /\ j = i THEN PointerTo(t) ELSE m[f][j]
<1> DEFINE n == Hung(m, a, i, t)
<1>1. m \in Memory /\ t \in Frames \ {a}
  BY PageTableAssumption DEF Sound
<1>2. \A f \in Frames, j \in Idx :
        n[f][j] = IF f = a /\ j = i THEN PointerTo(t) ELSE IF f = t THEN Invalid ELSE m[f][j]
  BY <1>1, HungEntry
<1> HIDE DEF n
<1>3. \A f \in Frames \ fr, j \in Idx : n[f][j] = IF f = a /\ j = i THEN PointerTo(t) ELSE m[f][j]
  BY <1>2
<1> QED
  BY <1>3 DEF n

(* A free table hung in an entry that held nothing. *)
LEMMA HungSound ==
  ASSUME NEW m, NEW fr, Sound(m, fr), NEW t \in fr,
         NEW a \in Frames \ fr, NEW i \in Idx, ~is_valid(m[a][i])
  PROVE  Sound(Hung(m, a, i, t), fr \ {t})
<1> DEFINE n == Hung(m, a, i, t)
<1>1. m \in Memory /\ fr \subseteq TableFrames /\ TableFrames \subseteq Frames /\ t # a
  BY PageTableAssumption DEF Sound
<1>2. /\ n \in Memory
      /\ \A f \in Frames, j \in Idx :
           n[f][j] = IF f = a /\ j = i THEN PointerTo(t) ELSE IF f = t THEN Invalid ELSE m[f][j]
  BY <1>1, HungEntry
<1> HIDE DEF n
<1>3. ASSUME NEW f \in Frames \ (fr \ {t}), NEW j \in Idx, IsTablePointer(n[f][j])
      PROVE  \/ f = a /\ j = i /\ n[f][j].ppn = t
             \/ f \in Frames \ fr /\ n[f][j] = m[f][j] /\ IsTablePointer(m[f][j])
                /\ n[f][j].ppn # t /\ n[f][j].ppn \in TableFrames \ fr
  <2>1. t \in Frames
    BY <1>1
  <2>2. CASE f = a /\ j = i
    BY <1>2, <2>1, <2>2, Entries
  <2>3. CASE ~(f = a /\ j = i)
    <3>1. f # t
      BY <1>2, <1>3, <2>3, Entries
    <3>2. f \in Frames \ fr /\ n[f][j] = m[f][j]
      BY <1>2, <2>3, <3>1
    <3> QED
      BY <1>3, <3>2 DEF Sound
  <2> QED
    BY <2>2, <2>3
<1>4. ASSUME NEW f \in Frames \ (fr \ {t}), NEW j \in Idx
      PROVE  /\ IsTablePointer(n[f][j]) => n[f][j].ppn \in TableFrames \ (fr \ {t})
             /\ is_valid(n[f][j]) /\ is_leaf(n[f][j]) => n[f][j].ppn \in DataFrames
  <2>1. IsTablePointer(n[f][j]) => n[f][j].ppn \in TableFrames \ (fr \ {t})
    BY <1>1, <1>3
  <2>2. ASSUME is_valid(n[f][j]), is_leaf(n[f][j])
        PROVE  n[f][j].ppn \in DataFrames
    <3>1. ~(f = a /\ j = i) /\ f # t
      BY <1>1, <1>2, <2>2, Entries
    <3>2. f \in Frames \ fr /\ n[f][j] = m[f][j]
      BY <1>2, <3>1
    <3> QED
      BY <2>2, <3>2 DEF Sound
  <2> QED
    BY <2>1, <2>2
<1>5. ASSUME NEW f \in Frames \ (fr \ {t}), NEW g \in Frames \ (fr \ {t}), NEW j \in Idx, NEW k \in Idx,
             IsTablePointer(n[f][j]), IsTablePointer(n[g][k]), n[f][j].ppn = n[g][k].ppn
      PROVE  f = g /\ j = k
  <2>1. CASE f = a /\ j = i /\ n[f][j].ppn = t
    BY <1>3, <1>5, <2>1
  <2>2. CASE g = a /\ k = i /\ n[g][k].ppn = t
    BY <1>3, <1>5, <2>2
  <2>3. CASE /\ f \in Frames \ fr /\ n[f][j] = m[f][j]
             /\ g \in Frames \ fr /\ n[g][k] = m[g][k]
    BY <1>5, <2>3 DEF Sound
  <2> QED
    BY <1>3, <1>5, <2>1, <2>2, <2>3
<1>6. fr \ {t} \subseteq TableFrames
  BY <1>1
<1>7. Sound(n, fr \ {t})
  BY <1>2, <1>4, <1>5, <1>6 DEF Sound
<1> QED
  BY <1>7 DEF n

(* A leaf for a caller's frame, or nothing, in any entry. *)
LEMMA StoredSound ==
  ASSUME NEW m, NEW fr, Sound(m, fr), NEW a \in Frames \ fr, NEW i \in Idx,
         NEW e \in Entry, ~IsTablePointer(e), is_valid(e) => e.ppn \in DataFrames
  PROVE  Sound(Stored(m, a, i, e), fr)
<1> DEFINE n == Stored(m, a, i, e)
<1>1. m \in Memory /\ fr \subseteq TableFrames
  BY DEF Sound
<1>2. n \in Memory /\ \A f \in Frames, j \in Idx : n[f][j] = IF f = a /\ j = i THEN e ELSE m[f][j]
  BY <1>1, StoredEntry
<1> HIDE DEF n
<1>3. ASSUME NEW f \in Frames, NEW j \in Idx, IsTablePointer(n[f][j])
      PROVE  n[f][j] = m[f][j]
  BY <1>2, <1>3
<1>4. ASSUME NEW f \in Frames \ fr, NEW j \in Idx
      PROVE  /\ IsTablePointer(n[f][j]) => n[f][j].ppn \in TableFrames \ fr
             /\ is_valid(n[f][j]) /\ is_leaf(n[f][j]) => n[f][j].ppn \in DataFrames
  <2>1. CASE n[f][j] = e
    BY <2>1
  <2>2. CASE n[f][j] = m[f][j]
    BY <2>2 DEF Sound
  <2> QED
    BY <1>2, <2>1, <2>2
<1>5. \A f, g \in Frames \ fr, j, k \in Idx :
        IsTablePointer(n[f][j]) /\ IsTablePointer(n[g][k]) /\ n[f][j].ppn = n[g][k].ppn
          => f = g /\ j = k
  BY <1>3 DEF Sound
<1>6. Sound(n, fr)
  BY <1>1, <1>2, <1>4, <1>5 DEF Sound
<1> QED
  BY <1>6 DEF n

-----------------------------------------------------------------------------
(* The walk of map *)

(* One level down, case by case: the call has failed; the entry leads on;  *)
(* no page is left; a new table is hung.                                   *)
Down(st, index, d) ==
  \/ ~st.ok /\ d = st
  \/ /\ st.ok /\ is_valid(EntryAt(st)) /\ d.ok
     /\ d.mem = st.mem /\ d.free = st.free
     /\ d.at = <<EntryAt(st).ppn, index>>
     /\ d.below = (st.below \/ is_leaf(EntryAt(st)))
     /\ d.over = st.over
  \/ /\ st.ok /\ ~is_valid(EntryAt(st)) /\ d.ok = FALSE
     /\ d.mem = st.mem /\ d.free = st.free /\ d.at = st.at
     /\ d.below = st.below /\ d.over = st.over
  \/ /\ st.ok /\ ~is_valid(EntryAt(st)) /\ d.ok
     /\ \E t \in st.free :
          /\ d.mem = Hung(st.mem, st.at[1], st.at[2], t)
          /\ d.free = st.free \ {t}
          /\ d.at = <<t, index>>
     /\ d.below = st.below /\ d.over = st.over

(* Records of the walk, field by field. *)
IsRecord(st) ==
  st = [mem |-> st.mem, free |-> st.free, at |-> st.at,
        ok |-> st.ok, below |-> st.below, over |-> st.over]

LEMMA FollowFields ==
  ASSUME NEW st, IsRecord(st), NEW index, NEW d, d = Follow(st, index)
  PROVE  /\ IsRecord(d)
         /\ d.mem = st.mem /\ d.free = st.free /\ d.ok = st.ok /\ d.over = st.over
         /\ d.at = <<EntryAt(st).ppn, index>>
         /\ d.below = (st.below \/ is_leaf(EntryAt(st)))
<1>1. PICK a, b : /\ a = <<EntryAt(st).ppn, index>>
                  /\ b = (st.below \/ is_leaf(EntryAt(st)))
  BY Zenon
<1>2. d = [st EXCEPT !.at = a, !.below = b]
  BY <1>1, Zenon DEF Follow
<1>3. /\ IsRecord(d)
      /\ d.mem = st.mem /\ d.free = st.free /\ d.ok = st.ok /\ d.over = st.over
      /\ d.at = a /\ d.below = b
  BY <1>2, Zenon DEF IsRecord
<1> QED
  BY <1>1, <1>3, Zenon

LEMMA DescendCases ==
  ASSUME NEW st, Walking(st), NEW index \in Idx
  PROVE  IsRecord(Descend(st, index)) /\ Down(st, index, Descend(st, index))
<1> DEFINE d == Descend(st, index)
           e == EntryAt(st)
           t == Min(st.free)
<1>1. IsRecord(st) /\ st.ok \in BOOLEAN /\ st.free \subseteq TableFrames
  BY DEF Walking, IsRecord, Sound
<1>2. CASE ~st.ok
  BY <1>1, <1>2, Zenon DEF Descend, Down
<1>3. CASE st.ok /\ is_valid(e)
  <2>1. d = Follow(st, index)
    BY <1>3, Zenon DEF Descend
  <2>2. /\ IsRecord(d)
        /\ d.mem = st.mem /\ d.free = st.free /\ d.ok = st.ok /\ d.over = st.over
        /\ d.at = <<EntryAt(st).ppn, index>>
        /\ d.below = (st.below \/ is_leaf(EntryAt(st)))
    <3> HIDE DEF d
    <3> QED
      BY <1>1, <2>1, FollowFields
  <2> QED
    BY <1>3, <2>2, Zenon DEF Down
<1>4. CASE st.ok /\ ~is_valid(e) /\ st.free = {}
  <2>1. d = [st EXCEPT !.ok = FALSE]
    BY <1>4, Zenon DEF Descend
  <2>2. IsRecord(d) /\ d.ok = FALSE /\ d.mem = st.mem /\ d.free = st.free /\ d.at = st.at
        /\ d.below = st.below /\ d.over = st.over
    BY <1>1, <2>1, Zenon DEF IsRecord
  <2> QED
    BY <1>4, <2>2, Zenon DEF Down
<1>5. CASE st.ok /\ ~is_valid(e) /\ st.free # {}
  <2>1. t \in st.free /\ t \in Frames
    BY <1>1, <1>5, FirstFit, PageTableAssumption, Zenon
  <2> DEFINE z == zallocate(st, t)
             h == [z EXCEPT !.mem[st.at[1]][st.at[2]] = PointerTo(t)]
  <2>2. d = Follow(h, index)
    BY <1>5, Zenon DEF Descend, PointerTo
  <2> HIDE DEF d, t
  <2>3. /\ IsRecord(z) /\ z.mem = [st.mem EXCEPT ![t] = EmptyTable] /\ z.free = st.free \ {t}
        /\ z.at = st.at /\ z.ok = st.ok /\ z.below = st.below /\ z.over = st.over
    <3>1. PICK x, y : x = st.free \ {t} /\ y = [st.mem EXCEPT ![t] = EmptyTable]
      BY Zenon
    <3>2. z = [st EXCEPT !.free = x, !.mem = y]
      BY <1>1, <3>1 DEF zallocate, IsRecord
    <3> HIDE DEF z
    <3>3. IsRecord(z) /\ z.mem = y /\ z.free = x
          /\ z.at = st.at /\ z.ok = st.ok /\ z.below = st.below /\ z.over = st.over
      BY <1>1, <3>2, Zenon DEF IsRecord
    <3> QED
      BY <3>1, <3>3, Zenon
  <2>4. h = [z EXCEPT !.mem = Stored(z.mem, st.at[1], st.at[2], PointerTo(t))]
    BY <2>3 DEF Stored, IsRecord
  <2> HIDE DEF h, z
  <2>5. /\ IsRecord(h) /\ h.mem = Stored(z.mem, st.at[1], st.at[2], PointerTo(t))
        /\ h.free = z.free /\ h.at = z.at /\ h.ok = z.ok /\ h.below = z.below /\ h.over = z.over
    BY <2>3, <2>4 DEF IsRecord
  <2>6. h.mem = Hung(st.mem, st.at[1], st.at[2], t)
    BY <2>3, <2>5, Zenon DEF Hung
  <2>7. EntryAt(h) = PointerTo(t)
    <3>1. st.at[1] \in Frames \ {t} /\ st.at[2] \in Idx /\ st.mem \in Memory
      BY <2>1, Zenon DEF Walking, Sound
    <3>2. h.mem[st.at[1]][st.at[2]] = PointerTo(t)
      <4>1. t \in Frames \ {st.at[1]}
        BY <2>1, <3>1, Zenon
      <4>2. PICK m \in Memory, a \in Frames, i \in Idx, u \in Frames :
              m = st.mem /\ a = st.at[1] /\ i = st.at[2] /\ u = t
        BY <3>1, <4>1, Zenon
      <4>3. u \in Frames \ {a}
        BY <4>1, <4>2, Zenon
      <4>4. Hung(m, a, i, u)[a][i] = PointerTo(u)
        BY <4>3, HungHere, Zenon
      <4> QED
        BY <2>6, <4>2, <4>4, Zenon
    <3> QED
      BY <2>3, <2>5, <3>2 DEF EntryAt
  <2>8. EntryAt(h).ppn = t /\ ~is_leaf(EntryAt(h))
    BY <2>1, <2>7, Entries
  <2>9. /\ IsRecord(d) /\ d.mem = h.mem /\ d.free = h.free /\ d.ok = h.ok /\ d.over = h.over
        /\ d.at = <<t, index>> /\ d.below = (h.below \/ FALSE)
    <3>1. /\ IsRecord(d)
          /\ d.mem = h.mem /\ d.free = h.free /\ d.ok = h.ok /\ d.over = h.over
          /\ d.at = <<EntryAt(h).ppn, index>>
          /\ d.below = (h.below \/ is_leaf(EntryAt(h)))
      BY <2>2, <2>5, FollowFields
    <3> QED
      BY <2>8, <3>1
  <2>10. d.ok /\ d.below = st.below /\ d.over = st.over /\ d.free = st.free \ {t}
    <3>1. st.below \in BOOLEAN /\ h.below = st.below /\ h.ok = st.ok /\ h.over = st.over
          /\ h.free = st.free \ {t}
      BY <2>3, <2>5, Zenon DEF Walking
    <3> QED
      BY <1>5, <2>9, <3>1
  <2>11. d.mem = Hung(st.mem, st.at[1], st.at[2], t)
    BY <2>6, <2>9, Zenon
  <2>12. IsRecord(d) /\ Down(st, index, d)
    BY <1>5, <2>1, <2>9, <2>10, <2>11, Zenon DEF Down
  <2> QED
    BY <2>12, Zenon DEF d
<1> QED
  BY <1>1, <1>2, <1>3, <1>4, <1>5

(* Callers' frames change only beneath a larger leaf. *)
Kept(m, st) == \A f \in DataFrames : st.mem[f] # m[f] => st.below

LEMMA DownWalking ==
  ASSUME NEW st, Walking(st), NEW index \in Idx, NEW d, IsRecord(d), Down(st, index, d)
  PROVE  Walking(d) /\ \A m : Kept(m, st) => Kept(m, d)
<1> DEFINE a == st.at[1]
           i == st.at[2]
           e == EntryAt(st)
<1>1. /\ a \in Frames \ st.free /\ i \in Idx /\ Sound(st.mem, st.free)
      /\ (a \in DataFrames => st.below)
      /\ st.below \in BOOLEAN /\ st.over \in BOOLEAN /\ st.free \subseteq TableFrames
      /\ e = st.mem[a][i] /\ TableFrames \subseteq Frames
      /\ st.mem \in Memory
  BY PageTableAssumption DEF Walking, Sound, EntryAt
<1>2. \A f \in DataFrames : f \in Frames /\ f \notin TableFrames
  BY DEF DataFrames
<1> HIDE DEF a, i, e
<1>3. CASE ~st.ok /\ d = st
  BY <1>3
<1>4. CASE /\ is_valid(e) /\ d.ok
           /\ d.mem = st.mem /\ d.free = st.free
           /\ d.at = <<e.ppn, index>>
           /\ d.below = (st.below \/ is_leaf(e))
           /\ d.over = st.over
  <2>1. \/ is_leaf(e) /\ e.ppn \in DataFrames
        \/ ~is_leaf(e) /\ e.ppn \in TableFrames \ st.free
    BY <1>1, <1>4 DEF Sound, IsTablePointer
  <2>2. e.ppn \in Frames \ st.free /\ (e.ppn \in DataFrames => is_leaf(e))
    BY <1>1, <1>2, <2>1
  <2>3. d.at[1] = e.ppn /\ d.at[2] = index /\ d.at = <<d.at[1], d.at[2]>>
    BY <1>4
  <2>4. d.below \in BOOLEAN /\ (st.below => d.below) /\ (is_leaf(e) => d.below)
    BY <1>4, Zenon
  <2>5. Walking(d)
    BY <1>1, <1>4, <2>2, <2>3, <2>4, Zenon DEF Walking, IsRecord
  <2>6. \A m : Kept(m, st) => Kept(m, d)
    BY <1>4, <2>4, Zenon DEF Kept
  <2> QED
    BY <2>5, <2>6
<1>5. CASE /\ d.ok = FALSE /\ d.mem = st.mem /\ d.free = st.free /\ d.at = st.at
           /\ d.below = st.below /\ d.over = st.over
  <2>1. Walking(d)
    BY <1>1, <1>5, Zenon DEF Walking, IsRecord, a, i
  <2> QED
    BY <1>5, <2>1, Zenon DEF Kept
<1>6. ASSUME NEW t \in st.free, ~is_valid(e), d.ok,
             d.mem = Hung(st.mem, a, i, t), d.free = st.free \ {t},
             d.at = <<t, index>>, d.below = st.below, d.over = st.over
      PROVE  Walking(d) /\ \A m : Kept(m, st) => Kept(m, d)
  <2>1. Sound(d.mem, d.free)
    BY <1>1, <1>6, HungSound
  <2>2. t \in Frames \ d.free /\ t \notin DataFrames /\ t \in Frames \ {a}
    BY <1>1, <1>2, <1>6
  <2>3. d.at[1] = t /\ d.at[2] = index /\ d.at = <<d.at[1], d.at[2]>>
    BY <1>6
  <2>4. Walking(d)
    BY <1>1, <1>6, <2>1, <2>2, <2>3, Zenon DEF Walking, IsRecord
  <2>5. \A f \in Frames \ {a, t} : d.mem[f] = st.mem[f]
    BY <1>1, <1>6, <2>2, HungEntry
  <2>6. ASSUME NEW m, Kept(m, st) PROVE Kept(m, d)
    <3> SUFFICES ASSUME NEW f \in DataFrames, d.mem[f] # m[f] PROVE d.below
      BY DEF Kept
    <3>1. CASE f = a
      BY <1>1, <1>6, <3>1
    <3>2. CASE f # a
      <4>1. d.mem[f] = st.mem[f]
        BY <1>2, <2>2, <2>5, <3>2
      <4> QED
        BY <1>6, <2>6, <4>1 DEF Kept
    <3> QED
      BY <3>1, <3>2
  <2> QED
    BY <2>4, <2>6
<1> QED
  BY <1>3, <1>4, <1>5, <1>6, Zenon DEF Down, a, i, e

(* The spans of the three levels. *)
LEMMA Spans ==
  /\ Span(0) = 1 /\ Span(1) = Width /\ Span(2) = Width * Width /\ Span(3) = Width * Width * Width
  /\ \A i \in 0 .. 3 : Span(i) \in Nat \ {0}
<1>1. Span(0) = 1 /\ Span(1) = Width /\ Span(2) = Width * Width /\ Span(3) = Width * Width * Width
  BY DEF Span
<1>2. Width \in Nat /\ Width >= 1
  BY PageTableAssumption
<1>3. Width * Width \in Nat /\ Width * Width >= 1
  BY <1>2
<1>4. Width * Width * Width \in Nat /\ Width * Width * Width >= 1
  BY <1>2, <1>3
<1> QED
  BY <1>1, <1>2, <1>3, <1>4

(* Quotients and remainders. *)
LEMMA DivMod ==
  ASSUME NEW a \in Nat, NEW b \in Nat \ {0}
  PROVE  \E q \in Nat, r \in 0 .. b - 1 : q = a \div b /\ r = a % b /\ a = b * q + r
<1>1. a \div b \in Nat /\ a % b \in 0 .. b - 1
  OBVIOUS
<1>2. a - b * (a \div b) = a % b
  OBVIOUS
<1>3. PICK q \in Nat, r \in 0 .. b - 1 : q = a \div b /\ r = a % b
  BY <1>1
<1>4. a = b * q + r
  BY <1>2, <1>3
<1> QED
  BY <1>3, <1>4

LEMMA DivUnique ==
  ASSUME NEW b \in Nat \ {0}, NEW p \in Nat, NEW q \in Nat,
         NEW r \in 0 .. b - 1, NEW s \in 0 .. b - 1, b * p + r = b * q + s
  PROVE  p = q /\ r = s
  OBVIOUS

LEMMA VpnType ==
  ASSUME NEW v \in Vpages, NEW i \in 0 .. 2
  PROVE  vpn(v, i) \in Idx
<1>1. v \in Nat /\ Span(i) \in Nat \ {0} /\ Width \in Nat \ {0}
  BY Spans, PageTableAssumption DEF Vpages
<1>2. v \div Span(i) \in Nat
  BY <1>1, DivMod
<1>3. (v \div Span(i)) % Width \in 0 .. Width - 1
  BY <1>1, <1>2, DivMod
<1> QED
  BY <1>3, Zenon DEF vpn, Idx

(* The walk before its loop, and after each round of it. *)
Top(st, v) == [st EXCEPT !.at = <<Root, vpn(v, 2)>>]

LEMMA WalkUnrolled ==
  ASSUME NEW st, NEW v
  PROVE  /\ Walk(st, v, 2) = Top(st, v)
         /\ Walk(st, v, 1) = Descend(Top(st, v), vpn(v, 1))
         /\ Walk(st, v, 0) = Descend(Descend(Top(st, v), vpn(v, 1)), vpn(v, 0))
<1> DEFINE s2 == Top(st, v)
           s1 == Descend(s2, vpn(v, 1))
           s0 == Descend(s1, vpn(v, 0))
           Round(w, level) == [i \in level .. 2 |-> IF i = 2 THEN s2 ELSE Descend(w[i + 1], vpn(v, i))]
           Run(level) == CHOOSE w : w = Round(w, level)
<1>1. \A level : Walk(st, v, level) = Run(level)[level]
  BY Zenon DEF Walk, Top
<1>2. ASSUME NEW level \in 0 .. 2 PROVE Run(level) = Round(Run(level), level)
  <2> DEFINE g == [i \in level .. 2 |-> IF i = 2 THEN s2 ELSE IF i = 1 THEN s1 ELSE s0]
  <2> HIDE DEF s2
  <2>1. g = Round(g, level)
    <3>1. ASSUME NEW i \in level .. 2, i # 2 PROVE i + 1 \in level .. 2 /\ i \in {0, 1}
      BY <3>1
    <3>2. ASSUME NEW i \in level .. 2, i = 1 PROVE g[i] = Descend(g[i + 1], vpn(v, i))
      BY <3>1, <3>2
    <3>3. ASSUME NEW i \in level .. 2, i = 0 PROVE g[i] = Descend(g[i + 1], vpn(v, i))
      <4>1. 1 \in level .. 2
        BY <3>3
      <4>2. g[1] = s1 /\ g[i] = s0
        BY <3>3, <4>1
      <4> QED
        BY <3>3, <4>2
    <3> HIDE DEF s1, s0
    <3>4. ASSUME NEW i \in level .. 2
          PROVE  g[i] = IF i = 2 THEN s2 ELSE Descend(g[i + 1], vpn(v, i))
      BY <3>1, <3>2, <3>3
    <3>5. g = [i \in level .. 2 |-> g[i]]
      OBVIOUS
    <3> HIDE DEF g
    <3> QED
      BY <3>4, <3>5, Zenon
  <2> HIDE DEF g, Round
  <2> QED
    BY <2>1, Zenon
<1> HIDE DEF Run, s2
<1>3. Run(2)[2] = s2
  BY <1>2
<1>4. Run(1)[1] = s1
  <2>1. Run(1)[2] = s2
    BY <1>2
  <2> QED
    BY <1>2, <2>1
<1>5. Run(0)[0] = s0
  <2>1. Run(0)[2] = s2
    BY <1>2
  <2>2. Run(0)[1] = s1
    BY <1>2, <2>1
  <2> QED
    BY <1>2, <2>2
<1> QED
  BY <1>1, <1>3, <1>4, <1>5 DEF s2

(* The walk starts at the root table. *)
LEMMA TopWalking ==
  ASSUME NEW st, Walking(st), NEW v \in Vpages
  PROVE  /\ Walking(Top(st, v))
         /\ Top(st, v).at = <<Root, vpn(v, 2)>>
         /\ Top(st, v).mem = st.mem /\ Top(st, v).free = st.free /\ Top(st, v).ok = st.ok
         /\ Top(st, v).below = st.below /\ Top(st, v).over = st.over
<1>1. PICK d : d = Top(st, v)
  OBVIOUS
<1>2. PICK a : a = <<Root, vpn(v, 2)>>
  BY Zenon
<1>3. IsRecord(st)
  BY Zenon DEF Walking, IsRecord
<1>4. d = [st EXCEPT !.at = a]
  BY <1>1, <1>2, Zenon DEF Top
<1>5. /\ IsRecord(d) /\ d.at = a /\ d.mem = st.mem /\ d.free = st.free /\ d.ok = st.ok
      /\ d.below = st.below /\ d.over = st.over
  BY <1>3, <1>4 DEF IsRecord
<1>6. d.at = <<Root, vpn(v, 2)>> /\ d.at[1] = Root /\ d.at[2] = vpn(v, 2) /\ d.at = <<d.at[1], d.at[2]>>
  BY <1>2, <1>5
<1>7. vpn(v, 2) \in Idx
  BY VpnType
<1>8. Root \in Frames \ st.free /\ Root \notin DataFrames
  BY PageTableAssumption DEF DataFrames, Walking, Sound
<1>9. Walking(d)
  BY <1>5, <1>6, <1>7, <1>8, Zenon DEF Walking, IsRecord
<1> QED
  BY <1>1, <1>5, <1>6, <1>9, Zenon

(* The levels of the walk, from the root down. *)
LEMMA WalkLevels ==
  ASSUME NEW st, Walking(st), NEW v \in Vpages
  PROVE  \E s1, s0 : /\ Walk(st, v, 2) = Top(st, v) /\ Walk(st, v, 1) = s1 /\ Walk(st, v, 0) = s0
                     /\ Walking(Top(st, v)) /\ Walking(s1) /\ Walking(s0)
                     /\ Down(Top(st, v), vpn(v, 1), s1) /\ Down(s1, vpn(v, 0), s0)
                     /\ \A m : Kept(m, st) => Kept(m, Top(st, v)) /\ Kept(m, s1) /\ Kept(m, s0)
<1>1. PICK s2, s1, s0 : /\ s2 = Top(st, v)
                        /\ s1 = Descend(s2, vpn(v, 1))
                        /\ s0 = Descend(s1, vpn(v, 0))
  OBVIOUS
<1>2. Walk(st, v, 2) = s2 /\ Walk(st, v, 1) = s1 /\ Walk(st, v, 0) = s0
  BY <1>1, WalkUnrolled
<1>3. vpn(v, 1) \in Idx /\ vpn(v, 0) \in Idx
  BY VpnType
<1>4. Walking(s2) /\ \A m : Kept(m, st) => Kept(m, s2)
  BY <1>1, TopWalking DEF Kept
<1>5. IsRecord(s1) /\ Down(s2, vpn(v, 1), s1)
  BY <1>1, <1>3, <1>4, DescendCases
<1>6. Walking(s1) /\ \A m : Kept(m, s2) => Kept(m, s1)
  BY <1>3, <1>4, <1>5, DownWalking
<1>7. IsRecord(s0) /\ Down(s1, vpn(v, 0), s0)
  BY <1>1, <1>3, <1>6, DescendCases
<1>8. Walking(s0) /\ \A m : Kept(m, s1) => Kept(m, s0)
  BY <1>3, <1>6, <1>7, DownWalking
<1> QED
  BY <1>1, <1>2, <1>4, <1>5, <1>6, <1>7, <1>8

(* The leaf that map writes. *)
LeafTo(p, bits) == [bits |-> bits \cup {"V"}, ppn |-> p]

LEMMA LeafEntry ==
  ASSUME NEW p \in DataFrames, NEW bits \in Perms \ {{}}
  PROVE  /\ LeafTo(p, bits) \in Entry /\ is_valid(LeafTo(p, bits)) /\ is_leaf(LeafTo(p, bits))
         /\ ~IsTablePointer(LeafTo(p, bits)) /\ LeafTo(p, bits).ppn = p
         /\ LeafTo(p, bits).bits \ {"V"} = bits
<1>1. bits \subseteq {"R", "W", "X"} /\ bits # {} /\ p \in Frames
  BY PageTableAssumption DEF DataFrames
<1>2. LeafTo(p, bits).bits = bits \cup {"V"} /\ LeafTo(p, bits).ppn = p
  BY DEF LeafTo
<1>3. bits \cup {"V"} \in SUBSET {"V", "R", "W", "X"}
  BY <1>1
<1>4. (bits \cup {"V"}) \ {"V"} = bits
  BY <1>1
<1>5. (bits \cup {"V"}) \cap {"R", "W", "X"} # {} /\ "V" \in bits \cup {"V"}
  BY <1>1
<1>6. LeafTo(p, bits) \in Entry
  BY <1>1, <1>3 DEF LeafTo, Entry
<1> QED
  BY <1>2, <1>4, <1>5, <1>6, Zenon DEF is_valid, is_leaf, IsTablePointer

LEMMA SetLeafFields ==
  ASSUME NEW st, IsRecord(st), NEW p, NEW bits, NEW d, d = SetLeaf(st, p, bits)
  PROVE  /\ IsRecord(d)
         /\ d.mem = Stored(st.mem, st.at[1], st.at[2], LeafTo(p, bits))
         /\ d.free = st.free /\ d.at = st.at /\ d.ok = st.ok /\ d.below = st.below
         /\ d.over = (st.over \/ IsTablePointer(EntryAt(st)))
<1>1. PICK m, o : /\ m = Stored(st.mem, st.at[1], st.at[2], LeafTo(p, bits))
                  /\ o = (st.over \/ IsTablePointer(EntryAt(st)))
  OBVIOUS
<1>2. d = [st EXCEPT !.mem = m, !.over = o]
  <2>1. m = [st.mem EXCEPT ![st.at[1]][st.at[2]] = [bits |-> bits \cup {"V"}, ppn |-> p]]
    BY <1>1, Zenon DEF Stored, LeafTo
  <2> QED
    BY <1>1, <2>1 DEF SetLeaf, IsRecord
<1>3. IsRecord(d) /\ d.mem = m /\ d.over = o
      /\ d.free = st.free /\ d.at = st.at /\ d.ok = st.ok /\ d.below = st.below
  BY <1>2, Zenon DEF IsRecord
<1> QED
  BY <1>1, <1>3, Zenon

LEMMA SetLeafWalking ==
  ASSUME NEW st, Walking(st), NEW p \in DataFrames, NEW bits \in Perms \ {{}},
         NEW d, d = SetLeaf(st, p, bits)
  PROVE  Walking(d) /\ \A m : Kept(m, st) => Kept(m, d)
<1> DEFINE e == LeafTo(p, bits)
<1>1. /\ IsRecord(d)
      /\ d.mem = Stored(st.mem, st.at[1], st.at[2], e)
      /\ d.free = st.free /\ d.at = st.at /\ d.ok = st.ok /\ d.below = st.below
      /\ d.over = (st.over \/ IsTablePointer(EntryAt(st)))
  <2>1. IsRecord(st)
    BY Zenon DEF Walking, IsRecord
  <2> QED
    BY <2>1, SetLeafFields
<1>2. e \in Entry /\ ~IsTablePointer(e) /\ e.ppn \in DataFrames
  BY LeafEntry
<1>3. st.at[1] \in Frames \ st.free /\ st.at[2] \in Idx /\ Sound(st.mem, st.free)
      /\ (st.at[1] \in DataFrames => st.below) /\ st.mem \in Memory
  BY Zenon DEF Walking, Sound
<1> HIDE DEF e
<1>4. Sound(d.mem, d.free)
  BY <1>1, <1>2, <1>3, StoredSound
<1>5. Walking(d)
  <2>1. d.over \in BOOLEAN
    BY <1>1
  <2> QED
    BY <1>1, <1>4, <2>1, Zenon DEF Walking, IsRecord
<1>6. \A f \in Frames \ {st.at[1]} : d.mem[f] = st.mem[f]
  BY <1>1, <1>2, <1>3, StoredEntry
<1>7. ASSUME NEW m, Kept(m, st) PROVE Kept(m, d)
  <2> SUFFICES ASSUME NEW f \in DataFrames, d.mem[f] # m[f] PROVE d.below
    BY DEF Kept
  <2>1. CASE f = st.at[1]
    BY <1>1, <1>3, <2>1
  <2>2. CASE f # st.at[1]
    <3>1. d.mem[f] = st.mem[f]
      BY <1>6, <2>2 DEF DataFrames
    <3> QED
      BY <1>1, <1>7, <3>1 DEF Kept
  <2> QED
    BY <2>1, <2>2
<1> QED
  BY <1>5, <1>7

(* map keeps the forest, and writes to callers' frames only beneath a leaf.*)
LEMMA MapWalking ==
  ASSUME NEW st, Walking(st), NEW v \in Vpages, NEW p \in DataFrames,
         NEW bits \in Perms \ {{}}, NEW level \in 0 .. 2
  PROVE  /\ Walking(map(st, v, p, bits, level))
         /\ \A m : Kept(m, st) => Kept(m, map(st, v, p, bits, level))
<1>1. PICK w : w = Walk(st, v, level)
  OBVIOUS
<1>2. Walking(w) /\ \A m : Kept(m, st) => Kept(m, w)
  BY <1>1, WalkLevels
<1>3. map(st, v, p, bits, level) = IF w.ok THEN SetLeaf(w, p, bits) ELSE w
  BY <1>1, Zenon DEF map
<1>4. Walking(SetLeaf(w, p, bits)) /\ \A m : Kept(m, w) => Kept(m, SetLeaf(w, p, bits))
  BY <1>2, SetLeafWalking
<1> QED
  BY <1>2, <1>3, <1>4

(* id_map_range, page by page. *)
LEMMA RangeUnrolled ==
  ASSUME NEW st, NEW start \in Nat, NEW end \in Nat, start <= end, NEW bits
  PROVE  \E r : /\ r[start] = st
                /\ \A v \in start + 1 .. end : r[v] = map(r[v - 1], v - 1, v - 1, bits, 0)
                /\ id_map_range(st, start, end, bits) = r[end]
<1> DEFINE Page(s, v) == map(s, v - 1, v - 1, bits, 0)
           Round(r, last) == [v \in start .. last |-> IF v = start THEN st ELSE Page(r[v - 1], v)]
           Run == CHOOSE r : r = Round(r, end)
<1>1. id_map_range(st, start, end, bits) = Run[end]
  BY Zenon DEF id_map_range
<1> HIDE DEF Page
<1> DEFINE T == {n \in Nat : \E r : r = Round(r, start + n)}
<1>2. 0 \in T
  <2> DEFINE g == [v \in start .. start |-> st]
  <2>1. g = Round(g, start + 0)
    OBVIOUS
  <2> HIDE DEF g, Round
  <2> QED
    BY <2>1
<1>3. ASSUME NEW n \in T PROVE n + 1 \in T
  <2>1. n \in Nat
    BY <1>3
  <2>2. PICK h : h = Round(h, start + n)
    BY <1>3
  <2> DEFINE last == start + n + 1
             g == [v \in start .. last |-> IF v = last THEN Page(h[last - 1], last) ELSE h[v]]
  <2>3. \A v \in start .. last : g[v] = IF v = start THEN st ELSE Page(g[v - 1], v)
    <3> SUFFICES ASSUME NEW v \in start .. last
                 PROVE  g[v] = IF v = start THEN st ELSE Page(g[v - 1], v)
      BY Zenon
    <3>1. CASE v = last
      <4>1. v # start /\ v - 1 \in start .. last /\ v - 1 # last
        BY <2>1, <3>1
      <4>2. g[v - 1] = h[v - 1]
        BY <4>1
      <4> QED
        BY <3>1, <4>1, <4>2
    <3>2. CASE v # last
      <4>1. v \in start .. start + n
        BY <2>1, <3>2
      <4>2. g[v] = h[v] /\ h[v] = IF v = start THEN st ELSE Page(h[v - 1], v)
        BY <2>2, <3>2, <4>1
      <4>3. v # start => v - 1 \in start .. last /\ v - 1 # last
        BY <2>1, <4>1
      <4>4. v # start => g[v - 1] = h[v - 1]
        BY <4>3
      <4> QED
        BY <4>2, <4>4
    <3> QED
      BY <3>1, <3>2
  <2>4. g = [v \in start .. last |-> g[v]]
    OBVIOUS
  <2> HIDE DEF g
  <2>5. g = Round(g, last)
    BY <2>3, <2>4, Zenon
  <2>6. last = start + (n + 1)
    BY <2>1
  <2> HIDE DEF Round, last
  <2> QED
    BY <2>1, <2>5, <2>6
<1>4. T = Nat
  <2>1. T \in SUBSET Nat
    OBVIOUS
  <2> HIDE DEF T
  <2> QED
    BY <1>2, <1>3, <2>1, NatSetInduction
<1>5. \E r : r = Round(r, end)
  <2>1. end - start \in Nat /\ start + (end - start) = end
    OBVIOUS
  <2> HIDE DEF Round
  <2> QED
    BY <1>4, <2>1, Zenon
<1>6. Run = Round(Run, end)
  <2> HIDE DEF Round
  <2> QED
    BY <1>5, Zenon
<1> HIDE DEF Run
<1>7. Run[start] = st
  BY <1>6
<1>8. ASSUME NEW v \in start + 1 .. end PROVE Run[v] = map(Run[v - 1], v - 1, v - 1, bits, 0)
  <2>1. v \in start .. end /\ v # start
    OBVIOUS
  <2>2. Run[v] = Page(Run[v - 1], v)
    BY <1>6, <2>1
  <2> QED
    BY <2>2, Zenon DEF Page
<1> QED
  BY <1>1, <1>7, <1>8

(* So does id_map_range. *)
LEMMA RangeWalking ==
  ASSUME NEW st, Walking(st), NEW start \in Ppages, NEW end \in Ppages, start <= end,
         NEW bits \in Perms \ {{}}
  PROVE  /\ Walking(id_map_range(st, start, end, bits))
         /\ \A m : Kept(m, st) => Kept(m, id_map_range(st, start, end, bits))
<1>1. start \in Nat /\ end \in Nat
  BY PageTableAssumption, Spans DEF Vpages
<1>2. PICK r : /\ r[start] = st
               /\ \A v \in start + 1 .. end : r[v] = map(r[v - 1], v - 1, v - 1, bits, 0)
               /\ id_map_range(st, start, end, bits) = r[end]
  BY <1>1, RangeUnrolled
<1> DEFINE Good(d) == Walking(d) /\ \A m : Kept(m, st) => Kept(m, d)
           T == {n \in Nat : start + n <= end => Good(r[start + n])}
<1>3. 0 \in T
  BY <1>1, <1>2
<1>4. ASSUME NEW n \in T PROVE n + 1 \in T
  <2> SUFFICES ASSUME n \in Nat, start + (n + 1) <= end PROVE Good(r[start + (n + 1)])
    OBVIOUS
  <2> DEFINE v == start + n
  <2>1. v \in Nat /\ v <= end /\ v + 1 \in start + 1 .. end /\ (v + 1) - 1 = v
        /\ start + (n + 1) = v + 1 /\ start <= v
    BY <1>1
  <2>2. Good(r[v])
    BY <2>1
  <2>3. v \in DataFrames /\ v \in Vpages
    <3>1. v \in start .. end
      BY <1>1, <2>1
    <3>2. start .. end \subseteq DataFrames /\ end \in Vpages
      BY PageTableAssumption
    <3> QED
      BY <1>1, <2>1, <3>1, <3>2, Spans DEF Vpages
  <2> HIDE DEF v, Good
  <2>4. r[v + 1] = map(r[v], v, v, bits, 0)
    BY <1>2, <2>1
  <2>5. Walking(r[v]) /\ \A m : Kept(m, st) => Kept(m, r[v])
    BY <2>2 DEF Good
  <2>6. Good(r[v + 1])
    BY <2>3, <2>4, <2>5, MapWalking DEF Good
  <2> QED
    BY <2>1, <2>6
<1>5. T = Nat
  <2>1. T \in SUBSET Nat
    OBVIOUS
  <2> HIDE DEF T
  <2> QED
    BY <1>3, <1>4, <2>1, NatSetInduction
<1>6. end - start \in Nat /\ start + (end - start) = end
  BY <1>1
<1>7. Good(r[end])
  <2> HIDE DEF Good
  <2>1. PICK n \in T : start + n = end
    BY <1>5, <1>6
  <2> QED
    BY <1>1, <2>1
<1> QED
  BY <1>2, <1>7

-----------------------------------------------------------------------------
(* The forest, after any calls *)

SInv == TypeOK /\ Sound(mem, free)

LEMMA SInvInit == Init => SInv
<1> SUFFICES ASSUME Init PROVE SInv
  OBVIOUS
<1>1. PICK word \in {Invalid, [bits |-> {"V", "R"}, ppn |-> 0]} :
        mem = [f \in Frames |-> [i \in Idx |-> IF f \in Ppages THEN word ELSE Invalid]]
  BY Zenon DEF Init, Idx
<1>2. free = TableFrames /\ panic = "none" /\ below = FALSE /\ mixed = FALSE /\ calls = 0
  BY DEF Init
<1>3. word \in Entry /\ ~IsTablePointer(word) /\ word.ppn = 0
  BY PageTableAssumption DEF DataFrames, Entry, Invalid, IsTablePointer, is_valid, is_leaf
<1>4. Invalid \in Entry /\ ~IsTablePointer(Invalid) /\ Invalid.ppn = 0
  BY Entries DEF Invalid
<1>5. 0 \in DataFrames
  BY PageTableAssumption
<1>6. mem \in Memory /\ \A f \in Frames, i \in Idx :
                          ~IsTablePointer(mem[f][i]) /\ mem[f][i].ppn = 0
  BY <1>1, <1>3, <1>4 DEF Memory
<1>7. Sound(mem, free)
  BY <1>2, <1>5, <1>6 DEF Sound
<1>8. TypeOK
  <2>1. MaxCalls \in Nat
    BY PageTableAssumption
  <2>2. calls \in 0 .. MaxCalls
    BY <1>2, <2>1
  <2> QED
    BY <1>2, <1>6, <2>2, Zenon DEF TypeOK, Memory, Idx
<1> QED
  BY <1>7, <1>8 DEF SInv

(* A call of map or id_map_range works on the state as it is. *)
LEMMA NowWalking == SInv => Walking(Now) /\ Kept(mem, Now)
<1> SUFFICES ASSUME SInv PROVE Walking(Now) /\ Kept(mem, Now)
  OBVIOUS
<1>1. /\ Now = [mem |-> Now.mem, free |-> Now.free, at |-> Now.at,
                ok |-> Now.ok, below |-> Now.below, over |-> Now.over]
      /\ Now.mem = mem /\ Now.free = free /\ Now.at = <<Root, 0>>
      /\ Now.ok = TRUE /\ Now.below = FALSE /\ Now.over = FALSE
  BY DEF Now
<1>2. Now.at[1] = Root /\ Now.at[2] = 0 /\ Now.at = <<Now.at[1], Now.at[2]>>
  BY <1>1
<1>3. Root \in Frames \ free /\ Root \notin DataFrames /\ 0 \in Idx
  BY PageTableAssumption DEF SInv, Sound, DataFrames, Idx
<1>4. Sound(mem, free)
  BY DEF SInv
<1> QED
  BY <1>1, <1>2, <1>3, <1>4, Zenon DEF Walking, Kept

(* And leaves what it was given, with its outcome. *)
LEMMA BecomesSound ==
  ASSUME SInv, calls < MaxCalls, NEW st, Walking(st), Kept(mem, st), Becomes(st)
  PROVE  SInv' /\ \A f \in DataFrames : mem'[f] # mem[f] => below'
<1>1. Sound(st.mem, st.free) /\ st.below \in BOOLEAN /\ st.over \in BOOLEAN
  BY Zenon DEF Walking
<1>2. mem' = st.mem /\ free' = st.free /\ below' = st.below /\ calls' = calls + 1
      /\ mixed' = (mixed \/ st.below \/ st.over)
      /\ panic' \in {"none", "no page for a table"}
  BY Zenon DEF Becomes
<1>3. Sound(mem, free)'
  <2>1. Sound(mem', free')
    BY <1>1, <1>2, Zenon
  <2> QED
    BY <2>1, Zenon DEF Sound, Memory, Entry, Idx, DataFrames, IsTablePointer, is_valid, is_leaf
<1>4. mem' \in Memory /\ free' \subseteq TableFrames
  BY <1>1, <1>2, Zenon DEF Sound
<1>5. calls' \in 0 .. MaxCalls
  <2>1. MaxCalls \in Nat
    BY PageTableAssumption
  <2>2. calls \in 0 .. MaxCalls /\ calls < MaxCalls
    BY Zenon DEF SInv, TypeOK
  <2>3. calls + 1 \in 0 .. MaxCalls
    BY <2>1, <2>2
  <2> QED
    BY <1>2, <2>3, Zenon
<1>6. below' \in BOOLEAN /\ mixed' \in BOOLEAN
  BY <1>1, <1>2, Zenon
<1>7. TypeOK'
  BY <1>2, <1>4, <1>5, <1>6, Zenon DEF TypeOK, Memory, Idx
<1> QED
  BY <1>2, <1>3, <1>7, Zenon DEF SInv, Kept

(* unmap finds each table once: what it frees is allocated, and no table   *)
(* is freed twice.                                                         *)
LEMMA SlotsLive ==
  ASSUME SInv, NEW s \in Level1Slots \cup Level0Slots
  PROVE  /\ s = <<s[1], s[2]>> /\ s[1] \in Frames \ free /\ s[2] \in Idx
         /\ IsTablePointer(mem[s[1]][s[2]]) /\ Target(s) \in TableFrames \ free
<1>0. Root \in Frames \ free /\ TableFrames \subseteq Frames /\ free \subseteq TableFrames
  BY PageTableAssumption DEF SInv, Sound
<1>1. ASSUME NEW f \in Frames \ free, NEW p \in PointersIn(f)
      PROVE  /\ p = <<p[1], p[2]>> /\ p[1] = f /\ p[2] \in Idx
             /\ IsTablePointer(mem[p[1]][p[2]]) /\ Target(p) \in TableFrames \ free
  <2>1. p = <<p[1], p[2]>> /\ p[1] = f /\ p[2] \in Idx /\ IsTablePointer(mem[p[1]][p[2]])
    BY DEF PointersIn, Idx
  <2>2. mem[p[1]][p[2]].ppn \in TableFrames \ free
    BY <1>1, <2>1 DEF SInv, Sound
  <2> QED
    BY <2>1, <2>2 DEF Target
<1>2. CASE s \in Level1Slots
  BY <1>0, <1>1, <1>2 DEF Level1Slots
<1>3. CASE s \in Level0Slots
  <2>1. PICK p \in Level1Slots : s \in PointersIn(Target(p))
    BY <1>3, Zenon DEF Level0Slots
  <2>2. Target(p) \in TableFrames \ free
    BY <1>0, <1>1, <2>1 DEF Level1Slots
  <2> QED
    BY <1>0, <1>1, <2>1, <2>2
<1> QED
  BY <1>2, <1>3

LEMMA FreesEachOnce == SInv => FreesOnce(Level1Slots \cup Level0Slots)
<1> SUFFICES ASSUME SInv PROVE FreesOnce(Level1Slots \cup Level0Slots)
  OBVIOUS
<1> DEFINE slots == Level1Slots \cup Level0Slots
<1>1. \A s \in slots : Target(s) \in TableFrames \ free
  BY SlotsLive
<1>2. ASSUME NEW s \in slots, NEW t \in slots, Target(s) = Target(t) PROVE s = t
  <2>1. /\ s = <<s[1], s[2]>> /\ s[1] \in Frames \ free /\ s[2] \in Idx
        /\ IsTablePointer(mem[s[1]][s[2]])
    BY SlotsLive
  <2>2. /\ t = <<t[1], t[2]>> /\ t[1] \in Frames \ free /\ t[2] \in Idx
        /\ IsTablePointer(mem[t[1]][t[2]])
    BY SlotsLive
  <2>3. mem[s[1]][s[2]].ppn = mem[t[1]][t[2]].ppn
    BY <1>2 DEF Target
  <2>4. s[1] = t[1] /\ s[2] = t[2]
    BY <2>1, <2>2, <2>3 DEF SInv, Sound
  <2> QED
    BY <2>1, <2>2, <2>4
<1> HIDE DEF slots
<1>3. FreesOnce(slots)
  BY <1>1, <1>2 DEF FreesOnce
<1> QED
  BY <1>3 DEF slots

(* unmap clears every slot whose table it frees. *)
LEMMA UnmapSound ==
  ASSUME SInv, Unmap
  PROVE  SInv' /\ \A f \in DataFrames : mem'[f] = mem[f]
<1> DEFINE slots == Level1Slots \cup Level0Slots
<1>1. /\ panic' \in {"none", "deallocate"} /\ below' = FALSE /\ UNCHANGED <<mixed, calls>>
      /\ free' = free \cup {Target(s) : s \in slots}
      /\ mem' = [f \in Frames |-> [i \in Idx |-> IF <<f, i>> \in slots THEN Invalid ELSE mem[f][i]]]
  BY DEF Unmap, UnmapSlots, Idx
<1>2. mem \in Memory /\ free \subseteq TableFrames
  BY DEF SInv, Sound
<1>3. \A s \in slots : /\ s[1] \in Frames \ free /\ s[2] \in Idx /\ s = <<s[1], s[2]>>
                       /\ IsTablePointer(mem[s[1]][s[2]]) /\ Target(s) \in TableFrames \ free
  BY SlotsLive
<1>4. free' \subseteq TableFrames /\ free \subseteq free'
  BY <1>1, <1>2, <1>3
<1> HIDE DEF slots
<1>5. \A f \in Frames, i \in Idx : mem'[f][i] = IF <<f, i>> \in slots THEN Invalid ELSE mem[f][i]
  BY <1>1
<1>6. mem' \in Memory
  BY <1>1, <1>2, Entries DEF Memory
<1>7. ASSUME NEW f \in Frames \ free', NEW i \in Idx, is_valid(mem'[f][i])
      PROVE  f \in Frames \ free /\ mem'[f][i] = mem[f][i] /\ <<f, i>> \notin slots
  BY <1>4, <1>5, <1>7, Entries
<1>8. ASSUME NEW f \in Frames \ free', NEW i \in Idx, IsTablePointer(mem'[f][i])
      PROVE  mem'[f][i].ppn \in TableFrames \ free'
  <2>1. f \in Frames \ free /\ mem'[f][i] = mem[f][i] /\ <<f, i>> \notin slots
    BY <1>7, <1>8 DEF IsTablePointer
  <2>2. mem[f][i].ppn \in TableFrames \ free /\ IsTablePointer(mem[f][i])
    BY <1>8, <2>1 DEF SInv, Sound
  <2>3. ASSUME NEW s \in slots, Target(s) = mem[f][i].ppn PROVE FALSE
    <3>1. mem[s[1]][s[2]].ppn = mem[f][i].ppn
      BY <2>3 DEF Target
    <3>2. s[1] = f /\ s[2] = i
      BY <1>3, <2>1, <2>2, <3>1 DEF SInv, Sound
    <3> QED
      BY <1>3, <2>1, <3>2
  <2> QED
    BY <1>1, <2>1, <2>2, <2>3
<1>9. \A f \in Frames \ free', i \in Idx :
        is_valid(mem'[f][i]) /\ is_leaf(mem'[f][i]) => mem'[f][i].ppn \in DataFrames
  BY <1>7, Zenon DEF SInv, Sound
<1>10. ASSUME NEW f \in Frames \ free', NEW g \in Frames \ free', NEW i \in Idx, NEW j \in Idx,
              IsTablePointer(mem'[f][i]), IsTablePointer(mem'[g][j]),
              mem'[f][i].ppn = mem'[g][j].ppn
       PROVE  f = g /\ i = j
  <2>1. f \in Frames \ free /\ mem'[f][i] = mem[f][i] /\ g \in Frames \ free /\ mem'[g][j] = mem[g][j]
    BY <1>7, <1>10, Zenon DEF IsTablePointer
  <2> QED
    BY <1>10, <2>1 DEF SInv, Sound
<1>11. Sound(mem, free)'
  <2>1. Sound(mem', free')
    BY <1>4, <1>6, <1>8, <1>9, <1>10 DEF Sound
  <2> QED
    BY <2>1, Zenon DEF Sound, Memory, Entry, Idx, DataFrames, IsTablePointer, is_valid, is_leaf
<1>12. TypeOK'
  BY <1>1, <1>4, <1>6, Zenon DEF SInv, TypeOK, Memory, Idx
<1>13. ASSUME NEW f \in DataFrames PROVE mem'[f] = mem[f]
  <2>1. f \in Frames /\ f \notin TableFrames /\ f # Root
    BY DEF DataFrames
  <2>2. \A i \in Idx : <<f, i>> \notin slots
    <3> SUFFICES ASSUME NEW i \in Idx, <<f, i>> \in slots PROVE FALSE
      OBVIOUS
    <3>1. CASE <<f, i>> \in Level1Slots
      BY <2>1, <3>1 DEF Level1Slots, PointersIn
    <3>2. CASE <<f, i>> \in Level0Slots
      <4>1. PICK p \in Level1Slots : <<f, i>> \in PointersIn(Target(p))
        BY <3>2, Zenon DEF Level0Slots
      <4>2. f = Target(p)
        BY <4>1 DEF PointersIn
      <4> QED
        BY <1>3, <2>1, <4>1, <4>2 DEF slots
    <3> QED
      BY <3>1, <3>2 DEF slots
  <2> QED
    BY <1>1, <1>2, <2>1, <2>2 DEF Memory
<1> QED
  BY <1>11, <1>12, <1>13 DEF SInv

(* One step, whichever it is. *)
LEMMA SInvNext ==
  ASSUME SInv, [Next]_vars
  PROVE  SInv' /\ \A f \in DataFrames : mem'[f] # mem[f] => below'
<1>1. ASSUME NEW v \in Vaddrs, NEW p \in Ppages, NEW bits \in Perms, NEW level \in 0 .. 2,
             Map(v, p, bits, level)
      PROVE  SInv' /\ \A f \in DataFrames : mem'[f] # mem[f] => below'
  <2>1. calls < MaxCalls /\ bits \in Perms \ {{}} /\ Becomes(map(Now, v, p, bits, level))
    BY <1>1 DEF Map
  <2>2. v \in Vpages /\ p \in DataFrames
    <3>1. p \in p .. p
      BY PageTableAssumption, Spans DEF Vpages
    <3> QED
      BY <3>1, PageTableAssumption, Zenon
  <2>3. Walking(map(Now, v, p, bits, level)) /\ Kept(mem, map(Now, v, p, bits, level))
    BY <2>1, <2>2, NowWalking, MapWalking
  <2> QED
    BY <2>1, <2>3, BecomesSound
<1>2. ASSUME NEW start \in Ppages, NEW end \in Ppages, NEW bits \in Perms,
             start <= end, IdMapRange(start, end, bits)
      PROVE  SInv' /\ \A f \in DataFrames : mem'[f] # mem[f] => below'
  <2>1. /\ calls < MaxCalls /\ bits \in Perms \ {{}}
        /\ Becomes(id_map_range(Now, start, end, bits))
    BY <1>2 DEF IdMapRange
  <2>2. Walking(id_map_range(Now, start, end, bits)) /\ Kept(mem, id_map_range(Now, start, end, bits))
    BY <1>2, <2>1, NowWalking, RangeWalking
  <2> QED
    BY <2>1, <2>2, BecomesSound
<1>3. ASSUME UNCHANGED <<mem, free, below, mixed, calls>>, panic' = panic \/ panic' = "bits"
      PROVE  SInv' /\ \A f \in DataFrames : mem'[f] # mem[f] => below'
  <2>1. Sound(mem, free)'
    <3>1. Sound(mem', free')
      BY <1>3, Zenon DEF SInv
    <3> QED
      BY <3>1, Zenon DEF Sound, Memory, Entry, Idx, DataFrames, IsTablePointer, is_valid, is_leaf
  <2>2. TypeOK'
    BY <1>3, Zenon DEF SInv, TypeOK
  <2> QED
    BY <1>3, <2>1, <2>2 DEF SInv
<1>4. CASE Unmap
  BY <1>4, UnmapSound
<1>5. CASE MapNoPermission
  BY <1>3, <1>5 DEF MapNoPermission
<1>6. CASE UNCHANGED vars
  BY <1>3, <1>6 DEF vars
<1> QED
  BY <1>1, <1>2, <1>4, <1>5, <1>6 DEF Next, Aborted

(* The forest is kept. *)
THEOREM ForestSound == Spec => []SInv
<1>1. SInv /\ [Next]_vars => SInv'
  BY SInvNext
<1> QED
  BY <1>1, SInvInit, PTL DEF Spec

(* Every word of memory that a walk may read is an entry. *)
THEOREM TableTypes == Spec => []TypeOK
<1>1. SInv => TypeOK
  BY DEF SInv
<1> QED
  BY <1>1, ForestSound, PTL

(* unmap finds each table once and still allocated: deallocate never       *)
(* panics on it, with any number of tables and after any calls.            *)
THEOREM UnmapNeverPanics == Spec => []UnmapFreesOnce
<1>1. SInv => UnmapFreesOnce
  BY FreesEachOnce DEF UnmapFreesOnce
<1> QED
  BY <1>1, ForestSound, PTL

(* map.rs:59 holds of every call but a map beneath a larger leaf: no frame *)
(* that holds no table is written.                                         *)
THEOREM FramesKept == Spec => CallerFramesKept
<1> DEFINE Keep == \A f \in DataFrames : mem'[f] # mem[f] => below'
<1>1. SInv /\ [Next]_vars => [Keep]_vars
  BY SInvNext
<1> HIDE DEF Keep
<1>2. SInv /\ [Next]_vars => SInv'
  BY SInvNext
<1>3. Spec => [][Keep]_vars
  BY <1>1, <1>2, SInvInit, PTL DEF Spec
<1> QED
  BY <1>3 DEF CallerFramesKept, Keep

-----------------------------------------------------------------------------
(* What v2p finds, level by level *)

E2(m, v) == m[Root][vpn(v, 2)]
E1(m, v) == m[E2(m, v).ppn][vpn(v, 1)]
E0(m, v) == m[E1(m, v).ppn][vpn(v, 0)]

V2P(m, v) ==
  IF ~IsTablePointer(E2(m, v)) THEN LeafAt(E2(m, v), 2, v)
  ELSE IF ~IsTablePointer(E1(m, v)) THEN LeafAt(E1(m, v), 1, v)
  ELSE IF ~IsTablePointer(E0(m, v)) THEN LeafAt(E0(m, v), 0, v)
  ELSE None

LEMMA V2PUnrolled == mem \in Memory => \A v \in Vpages : v2p(v) = V2P(mem, v)
<1> SUFFICES ASSUME mem \in Memory, NEW v \in Vpages PROVE v2p(v) = V2P(mem, v)
  OBVIOUS
<1> DEFINE E(f, i) == mem[f][vpn(v, i)]
           Round(w) == [i \in 0 .. 2 |-> [f \in Frames |->
             IF ~IsTablePointer(E(f, i)) THEN LeafAt(E(f, i), i, v)
             ELSE IF i = 0 THEN None
             ELSE w[i - 1][E(f, i).ppn]]]
           Run == CHOOSE w : w = Round(w)
<1>1. v2p(v) = Run[2][Root]
  BY Zenon DEF v2p
<1>2. \A f \in Frames, i \in 0 .. 2 : E(f, i).ppn \in Frames
  <2>1. ASSUME NEW f \in Frames, NEW i \in 0 .. 2 PROVE mem[f][vpn(v, i)] \in Entry
    <3>1. vpn(v, i) \in Idx
      BY VpnType
    <3> QED
      BY <3>1, Zenon DEF Memory
  <2>2. \A x \in Entry : x.ppn \in Frames
    BY DEF Entry
  <2> QED
    BY <2>1, <2>2
<1> DEFINE g0 == [f \in Frames |-> IF ~IsTablePointer(E(f, 0)) THEN LeafAt(E(f, 0), 0, v) ELSE None]
           g1 == [f \in Frames |-> IF ~IsTablePointer(E(f, 1)) THEN LeafAt(E(f, 1), 1, v) ELSE g0[E(f, 1).ppn]]
           g2 == [f \in Frames |-> IF ~IsTablePointer(E(f, 2)) THEN LeafAt(E(f, 2), 2, v) ELSE g1[E(f, 2).ppn]]
           g == [i \in 0 .. 2 |-> IF i = 0 THEN g0 ELSE IF i = 1 THEN g1 ELSE g2]
<1> HIDE DEF E
<1>3. g = Round(g)
  <2>1. g[0] = g0 /\ g[1] = g1 /\ g[2] = g2
    OBVIOUS
  <2>2. ASSUME NEW i \in 0 .. 2
        PROVE  g[i] = [f \in Frames |-> IF ~IsTablePointer(E(f, i)) THEN LeafAt(E(f, i), i, v)
                                        ELSE IF i = 0 THEN None
                                        ELSE g[i - 1][E(f, i).ppn]]
    <3> HIDE DEF g
    <3>1. CASE i = 0
      BY <2>1, <3>1
    <3>2. CASE i = 1
      <4>1. i - 1 = 0
        BY <3>2
      <4> HIDE DEF g0
      <4> QED
        BY <2>1, <3>2, <4>1
    <3>3. CASE i = 2
      <4>1. i - 1 = 1
        BY <3>3
      <4> HIDE DEF g1
      <4> QED
        BY <2>1, <3>3, <4>1
    <3> QED
      BY <3>1, <3>2, <3>3
  <2>3. g = [i \in 0 .. 2 |-> g[i]]
    OBVIOUS
  <2> HIDE DEF g
  <2> QED
    BY <2>2, <2>3
<1> HIDE DEF Round, g
<1>4. Run = Round(Run)
  BY <1>3, Zenon
<1> HIDE DEF Run
<1>5. \A f \in Frames : Run[0][f] = IF ~IsTablePointer(E(f, 0)) THEN LeafAt(E(f, 0), 0, v) ELSE None
  BY <1>4 DEF Round
<1>6. \A f \in Frames : Run[1][f] = IF ~IsTablePointer(E(f, 1)) THEN LeafAt(E(f, 1), 1, v)
                                    ELSE Run[0][E(f, 1).ppn]
  BY <1>4 DEF Round
<1>7. \A f \in Frames : Run[2][f] = IF ~IsTablePointer(E(f, 2)) THEN LeafAt(E(f, 2), 2, v)
                                    ELSE Run[1][E(f, 2).ppn]
  BY <1>4 DEF Round
<1>8. Root \in Frames /\ E(Root, 2).ppn \in Frames /\ E(E(Root, 2).ppn, 1).ppn \in Frames
  <2>1. Root \in Frames /\ 1 \in 0 .. 2 /\ 2 \in 0 .. 2
    BY PageTableAssumption
  <2>2. E(Root, 2).ppn \in Frames
    BY <1>2, <2>1, Zenon
  <2> QED
    BY <1>2, <2>1, <2>2, Zenon
<1>9. E(Root, 2) = E2(mem, v) /\ E(E(Root, 2).ppn, 1) = E1(mem, v)
      /\ E(E(E(Root, 2).ppn, 1).ppn, 0) = E0(mem, v)
  BY Zenon DEF E, E2, E1, E0
<1> QED
  BY <1>1, <1>5, <1>6, <1>7, <1>8, <1>9 DEF V2P

(* The digits of a virtual page. *)
LEMMA Digits ==
  ASSUME NEW v \in Vpages
  PROVE  /\ v \in Nat /\ v \div Span(0) = v
         /\ v \div Span(2) = vpn(v, 2)
         /\ v \div Span(1) = Width * vpn(v, 2) + vpn(v, 1)
         /\ v = Width * (v \div Span(1)) + vpn(v, 0)
<1>1. Width \in Nat \ {0} /\ v \in Nat /\ v < Width * Width * Width
  BY Spans, PageTableAssumption DEF Vpages
<1>2. v \div 1 = v
  BY <1>1
<1>3. PICK q \in Nat, r \in 0 .. Width - 1 : q = v \div Width /\ r = v % Width /\ v = Width * q + r
  BY <1>1, DivMod
<1>4. PICK p \in Nat, s \in 0 .. Width - 1 : p = q \div Width /\ s = q % Width /\ q = Width * p + s
  BY <1>1, DivMod
<1>5. Width * Width \in Nat \ {0}
  BY Spans
<1>6. PICK b : b = Width * Width
  OBVIOUS
<1>7. v = b * p + (Width * s + r)
  <2>1. Width * (Width * p + s) = Width * (Width * p) + Width * s
    BY <1>1, <1>4
  <2>2. Width * (Width * p) = b * p
    BY <1>1, <1>4, <1>6
  <2>3. Width * q = b * p + Width * s
    BY <1>4, <2>1, <2>2, Zenon
  <2>4. b * p \in Nat /\ Width * s \in Nat
    BY <1>1, <1>4, <1>5, <1>6
  <2>5. PICK x \in Nat, y \in Nat : x = b * p /\ y = Width * s
    BY <2>4
  <2>6. v = (x + y) + r
    BY <1>3, <2>3, <2>5, Zenon
  <2>7. v = x + (y + r)
    BY <1>3, <2>6
  <2> QED
    BY <2>5, <2>7, Zenon
<1>8. Width * s + r \in 0 .. b - 1
  <2>1. Width * s <= Width * (Width - 1)
    BY <1>1, <1>4
  <2>2. Width * (Width - 1) = b - Width
    BY <1>1, <1>6
  <2>3. Width * s \in Nat
    BY <1>1, <1>4
  <2> QED
    BY <1>1, <1>3, <1>5, <1>6, <2>1, <2>2, <2>3
<1>9. v \div b = p
  <2>1. PICK x \in Nat, y \in 0 .. b - 1 : x = v \div b /\ y = v % b /\ v = b * x + y
    BY <1>1, <1>5, <1>6, DivMod
  <2>2. PICK z \in 0 .. b - 1 : z = Width * s + r
    BY <1>8
  <2>3. b * x + y = b * p + z
    BY <1>7, <2>1, <2>2
  <2>4. b \in Nat \ {0} /\ p \in Nat /\ x \in Nat /\ y \in 0 .. b - 1 /\ z \in 0 .. b - 1
    BY <1>5, <1>6
  <2>5. x = p
    BY <2>3, <2>4, DivUnique
  <2> QED
    BY <2>1, <2>5
<1>10. p < Width
  <2>1. SUFFICES ASSUME p >= Width PROVE FALSE
    BY <1>1, <1>4
  <2>2. b * p >= b * Width
    BY <1>1, <1>4, <1>5, <1>6, <2>1
  <2>3. b * Width = Width * Width * Width
    BY <1>1, <1>6
  <2>4. PICK z \in 0 .. b - 1 : z = Width * s + r
    BY <1>8
  <2>5. b * p \in Nat /\ b * Width \in Nat
    BY <1>1, <1>4, <1>5, <1>6
  <2> QED
    BY <1>1, <1>5, <1>6, <1>7, <2>2, <2>3, <2>4, <2>5
<1>11. p % Width = p
  BY <1>1, <1>4, <1>10
<1>12. vpn(v, 2) = p /\ vpn(v, 1) = s /\ vpn(v, 0) = r
  BY <1>2, <1>3, <1>4, <1>6, <1>9, <1>11, Spans, Zenon DEF vpn
<1> QED
  BY <1>1, <1>2, <1>3, <1>4, <1>6, <1>9, <1>12, Spans

(* Two pages have the same leaf of level k when their digits from there up *)
(* agree.                                                                  *)
SameFrom(v, w, k) ==
  vpn(v, 2) = vpn(w, 2) /\ (k <= 1 => vpn(v, 1) = vpn(w, 1)) /\ (k = 0 => vpn(v, 0) = vpn(w, 0))

LEMMA Blocks ==
  ASSUME NEW v \in Vpages, NEW w \in Vpages, NEW k \in 0 .. 2
  PROVE  Translations!SameBlock(v, w, k) <=> SameFrom(v, w, k)
<1>1. /\ v \in Nat /\ v \div Span(0) = v
      /\ v \div Span(2) = vpn(v, 2)
      /\ v \div Span(1) = Width * vpn(v, 2) + vpn(v, 1)
      /\ v = Width * (v \div Span(1)) + vpn(v, 0)
  BY Digits
<1>2. /\ w \in Nat /\ w \div Span(0) = w
      /\ w \div Span(2) = vpn(w, 2)
      /\ w \div Span(1) = Width * vpn(w, 2) + vpn(w, 1)
      /\ w = Width * (w \div Span(1)) + vpn(w, 0)
  BY Digits
<1>3. Width \in Nat \ {0}
  BY PageTableAssumption
<1>4. \A i \in 0 .. 2 : vpn(v, i) \in 0 .. Width - 1 /\ vpn(w, i) \in 0 .. Width - 1
  BY VpnType DEF Idx
<1>6. v \div Span(2) = w \div Span(2) <=> SameFrom(v, w, 2)
  BY <1>1, <1>2 DEF SameFrom
<1>7. v \div Span(1) = w \div Span(1) <=> SameFrom(v, w, 1)
  <2>1. vpn(v, 2) \in Nat /\ vpn(w, 2) \in Nat
        /\ vpn(v, 1) \in 0 .. Width - 1 /\ vpn(w, 1) \in 0 .. Width - 1
    BY <1>4
  <2>2. v \div Span(1) = w \div Span(1) => vpn(v, 2) = vpn(w, 2) /\ vpn(v, 1) = vpn(w, 1)
    BY <1>1, <1>2, <1>3, <2>1, DivUnique
  <2> QED
    BY <1>1, <1>2, <2>2 DEF SameFrom
<1>8. v = w <=> SameFrom(v, w, 0)
  <2>1. v \div Span(1) \in Nat /\ w \div Span(1) \in Nat
        /\ vpn(v, 0) \in 0 .. Width - 1 /\ vpn(w, 0) \in 0 .. Width - 1
    BY <1>1, <1>2, <1>4, Spans, DivMod
  <2>2. ASSUME SameFrom(v, w, 0) PROVE v = w
    <3>1. v \div Span(1) = w \div Span(1) /\ vpn(v, 0) = vpn(w, 0)
      BY <1>7, <2>2 DEF SameFrom
    <3> QED
      BY <1>1, <1>2, <3>1
  <2> QED
    BY <2>2 DEF SameFrom
<1>9. Translations!BlockSize(k) = Span(k)
  BY Spans DEF Translations!BlockSize
<1>10. Translations!SameBlock(v, w, k) <=> v \div Span(k) = w \div Span(k)
  BY <1>9, Zenon DEF Translations!SameBlock
<1> QED
  BY <1>1, <1>2, <1>6, <1>7, <1>8, <1>10
=============================================================================

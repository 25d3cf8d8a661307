----------------------- MODULE Sv39TranslationProofs -----------------------
(***************************************************************************)
(* What the page tables translate, for any number of frames, entries in a  *)
(* table and calls: no table is lost, and v2p finds what AddressSpace says.*)
(*                                                                         *)
(* The invariant (TInv) adds to the forest of Sv39ForestProofs that every  *)
(* allocated table is in the tree below the root, until map has worked     *)
(* beneath a larger leaf or stored one over a table (mixed).               *)
(*                                                                         *)
(* The path of a page meets each table once.  A table hung where nothing   *)
(* was, and a write in a frame that no path reaches (Out), leave the       *)
(* translation of every page as it was; the leaf that map stores changes   *)
(* the pages of its own block and no other.                                *)
(***************************************************************************)
EXTENDS Sv39ForestProofs

-----------------------------------------------------------------------------
(* The tables of the tree, and the frames outside it *)

(* No walk from the root reaches frame a as a table. *)
Out(m, a) ==
  /\ a # Root
  /\ \A i \in Idx : IsTablePointer(m[Root][i]) =>
       /\ a # m[Root][i].ppn
       /\ \A j \in Idx :
            IsTablePointer(m[m[Root][i].ppn][j]) => a # m[m[Root][i].ppn][j].ppn

(* Frame a is the table that holds the entry of level k for page v. *)
OnPath(m, v, k, a) ==
  \/ k = 2 /\ a = Root
  \/ k = 1 /\ IsTablePointer(E2(m, v)) /\ a = E2(m, v).ppn
  \/ k = 0 /\ IsTablePointer(E2(m, v)) /\ IsTablePointer(E1(m, v)) /\ a = E1(m, v).ppn

(* Every table that is allocated hangs in the tree. *)
AllHang(m, fr) == \A t \in TableFrames \ fr : ~Out(m, t)

(* The leaves of tables have the permissions that map was given. *)
LeafBits(m, fr) ==
  \A f \in (TableFrames \cup {Root}) \ fr, i \in Idx :
    is_valid(m[f][i]) /\ is_leaf(m[f][i]) => m[f][i].bits \ {"V"} \in Perms \ {{}}

(* What a walk reads on its way. *)
Reads(m, fr, v) ==
  /\ m \in Memory /\ Root \in Frames \ fr /\ Root \notin TableFrames
  /\ vpn(v, 0) \in Idx /\ vpn(v, 1) \in Idx /\ vpn(v, 2) \in Idx
  /\ E2(m, v) \in Entry /\ E2(m, v) = m[Root][vpn(v, 2)]
  /\ IsTablePointer(E2(m, v)) =>
       /\ E2(m, v).ppn \in TableFrames \ fr /\ E2(m, v).ppn \in Frames \ fr
       /\ E1(m, v) \in Entry /\ E1(m, v) = m[E2(m, v).ppn][vpn(v, 1)]
       /\ IsTablePointer(E1(m, v)) =>
            /\ E1(m, v).ppn \in TableFrames \ fr /\ E1(m, v).ppn \in Frames \ fr
            /\ E0(m, v) \in Entry /\ E0(m, v) = m[E1(m, v).ppn][vpn(v, 0)]

LEMMA PathTypes ==
  ASSUME NEW m, NEW fr, Sound(m, fr), NEW v \in Vpages
  PROVE  Reads(m, fr, v)
<1>1. m \in Memory /\ Root \in Frames \ fr /\ Root \notin TableFrames /\ TableFrames \subseteq Frames
  BY PageTableAssumption DEF Sound
<1>2. vpn(v, 0) \in Idx /\ vpn(v, 1) \in Idx /\ vpn(v, 2) \in Idx
  BY VpnType
<1>3. \A f \in Frames \ fr, i \in Idx :
        m[f][i] \in Entry /\ (IsTablePointer(m[f][i]) => m[f][i].ppn \in TableFrames \ fr)
  BY <1>1 DEF Sound, Memory
<1>4. E2(m, v) = m[Root][vpn(v, 2)] /\ E1(m, v) = m[E2(m, v).ppn][vpn(v, 1)]
      /\ E0(m, v) = m[E1(m, v).ppn][vpn(v, 0)]
  BY Zenon DEF E2, E1, E0
<1>5. E2(m, v) \in Entry
      /\ (IsTablePointer(E2(m, v)) => E2(m, v).ppn \in TableFrames \ fr)
  BY <1>1, <1>2, <1>3, <1>4, Zenon
<1>6. IsTablePointer(E2(m, v)) =>
        /\ E2(m, v).ppn \in Frames \ fr /\ E1(m, v) \in Entry
        /\ (IsTablePointer(E1(m, v)) => E1(m, v).ppn \in TableFrames \ fr)
  BY <1>1, <1>2, <1>3, <1>4, <1>5, Zenon
<1>7. IsTablePointer(E2(m, v)) /\ IsTablePointer(E1(m, v)) =>
        E1(m, v).ppn \in Frames \ fr /\ E0(m, v) \in Entry
  BY <1>1, <1>2, <1>3, <1>4, <1>6, Zenon
<1> QED
  BY <1>1, <1>2, <1>4, <1>5, <1>6, <1>7, Zenon DEF Reads

(* What a leaf says. *)
LEMMA LeafType ==
  ASSUME NEW e \in Entry, is_valid(e), e.bits \ {"V"} \in Perms \ {{}}, NEW k \in 0 .. 2, NEW v \in Vpages
  PROVE  /\ LeafAt(e, k, v) \in Translations!Translation
         /\ LeafAt(e, k, v) # None /\ LeafAt(e, k, v).level = k
<1>1. e.ppn \in Nat /\ v \in Nat /\ Span(k) \in Nat \ {0}
  <2>1. e.ppn \in Frames
    BY DEF Entry
  <2>2. Frames \subseteq Nat
    BY PageTableAssumption
  <2>3. v \in Nat
    BY Digits
  <2>4. Span(k) \in Nat \ {0}
    BY Spans
  <2> QED
    BY <2>1, <2>2, <2>3, <2>4, Zenon
<1>2. \A a \in Nat, b \in Nat \ {0} : a - (a % b) \in Nat /\ a % b \in Nat
  OBVIOUS
<1>3. PICK page : page = e.ppn - (e.ppn % Span(k)) + (v % Span(k))
  OBVIOUS
<1>4. page \in Nat
  BY <1>1, <1>2, <1>3
<1>5. LeafAt(e, k, v) = [page |-> page, bits |-> e.bits \ {"V"}, level |-> k]
  BY <1>3, Zenon DEF LeafAt
<1>6. LeafAt(e, k, v) \in [page : Nat, bits : Perms \ {{}}, level : 0 .. 2]
      /\ LeafAt(e, k, v) \in [page : Nat, bits : Perms, level : 0 .. 2]
      /\ LeafAt(e, k, v).level = k
  BY <1>4, <1>5
<1> QED
  BY <1>6, PageTableAssumption DEF Translations!Translation

(* A leaf on the path is what v2p finds, and its level. *)
LEMMA LeafFound ==
  ASSUME NEW m, NEW fr, Sound(m, fr), LeafBits(m, fr), NEW v \in Vpages,
         NEW k \in 0 .. 2, NEW a, OnPath(m, v, k, a), ~IsTablePointer(m[a][vpn(v, k)])
  PROVE  /\ V2P(m, v) = LeafAt(m[a][vpn(v, k)], k, v)
         /\ V2P(m, v) \in Translations!Translation \cup {None}
         /\ V2P(m, v) # None => V2P(m, v).level = k
         /\ is_valid(m[a][vpn(v, k)]) => V2P(m, v) # None
<1>0. Reads(m, fr, v)
  BY PathTypes
<1>1. k \in {0, 1, 2}
  OBVIOUS
<1> DEFINE e == m[a][vpn(v, k)]
<1>2. e \in Entry /\ a \in (TableFrames \cup {Root}) \ fr /\ vpn(v, k) \in Idx
      /\ V2P(m, v) = LeafAt(e, k, v)
  <2>1. CASE k = 2
    BY <1>0, <2>1 DEF Reads, OnPath, V2P
  <2>2. CASE k = 1
    BY <1>0, <2>2 DEF Reads, OnPath, V2P
  <2>3. CASE k = 0
    BY <1>0, <2>3 DEF Reads, OnPath, V2P
  <2> QED
    BY <1>1, <2>1, <2>2, <2>3
<1>3. CASE is_valid(e)
  <2>1. e.bits \ {"V"} \in Perms \ {{}}
    BY <1>2, <1>3 DEF LeafBits, IsTablePointer
  <2> HIDE DEF e
  <2>2. /\ LeafAt(e, k, v) \in Translations!Translation
        /\ LeafAt(e, k, v) # None /\ LeafAt(e, k, v).level = k
    BY <1>2, <1>3, <2>1, LeafType
  <2> QED
    BY <1>2, <2>2 DEF e
<1>4. CASE ~is_valid(e)
  BY <1>2, <1>4 DEF LeafAt
<1> QED
  BY <1>2, <1>3, <1>4

(* v2p finds a translation or nothing. *)
LEMMA V2PType ==
  ASSUME NEW m, NEW fr, Sound(m, fr), LeafBits(m, fr), NEW v \in Vpages
  PROVE  V2P(m, v) \in Translations!Translation \cup {None}
<1>1. Reads(m, fr, v)
  BY PathTypes
<1>2. ASSUME NEW k \in 0 .. 2, NEW a, OnPath(m, v, k, a), ~IsTablePointer(m[a][vpn(v, k)])
      PROVE  V2P(m, v) \in Translations!Translation \cup {None}
  BY <1>2, LeafFound
<1>3. CASE ~IsTablePointer(E2(m, v))
  <2>1. OnPath(m, v, 2, Root) /\ E2(m, v) = m[Root][vpn(v, 2)] /\ 2 \in 0 .. 2
    BY <1>1 DEF OnPath, Reads
  <2> QED
    BY <1>2, <1>3, <2>1
<1>4. CASE IsTablePointer(E2(m, v)) /\ ~IsTablePointer(E1(m, v))
  <2>1. OnPath(m, v, 1, E2(m, v).ppn) /\ E1(m, v) = m[E2(m, v).ppn][vpn(v, 1)] /\ 1 \in 0 .. 2
    BY <1>1, <1>4 DEF OnPath, Reads
  <2> QED
    BY <1>2, <1>4, <2>1
<1>5. CASE IsTablePointer(E2(m, v)) /\ IsTablePointer(E1(m, v)) /\ ~IsTablePointer(E0(m, v))
  <2>1. OnPath(m, v, 0, E1(m, v).ppn) /\ E0(m, v) = m[E1(m, v).ppn][vpn(v, 0)] /\ 0 \in 0 .. 2
    BY <1>1, <1>5 DEF OnPath, Reads
  <2> QED
    BY <1>2, <1>5, <2>1
<1>6. CASE IsTablePointer(E2(m, v)) /\ IsTablePointer(E1(m, v)) /\ IsTablePointer(E0(m, v))
  BY <1>6, Zenon DEF V2P
<1> QED
  BY <1>3, <1>4, <1>5, <1>6, Zenon

(* Reading the same entries, v2p finds the same. *)
LEMMA SameReads ==
  ASSUME NEW m, NEW n, NEW v, E2(n, v) = E2(m, v),
         IsTablePointer(E2(m, v)) => E1(n, v) = E1(m, v),
         IsTablePointer(E2(m, v)) /\ IsTablePointer(E1(m, v)) => E0(n, v) = E0(m, v)
  PROVE  V2P(n, v) = V2P(m, v)
  BY DEF V2P

(* Frames that hold no table are outside. *)
LEMMA DataOut ==
  ASSUME NEW m, NEW fr, Sound(m, fr), NEW a \in DataFrames
  PROVE  Out(m, a)
<1>1. a # Root /\ a \notin TableFrames
  BY DEF DataFrames
<1>2. Root \in Frames \ fr /\ TableFrames \subseteq Frames
  BY PageTableAssumption DEF Sound
<1>3. \A f \in Frames \ fr, i \in Idx : IsTablePointer(m[f][i]) => m[f][i].ppn \in TableFrames \ fr
  BY DEF Sound
<1> QED
  BY <1>1, <1>2, <1>3 DEF Out

(* So is a table that is free, or that hangs from a frame outside. *)
LEMMA FreeOut ==
  ASSUME NEW m, NEW fr, Sound(m, fr), NEW t \in fr
  PROVE  Out(m, t)
<1>1. t # Root /\ Root \in Frames \ fr /\ TableFrames \subseteq Frames
  BY PageTableAssumption DEF Sound
<1>2. \A f \in Frames \ fr, i \in Idx : IsTablePointer(m[f][i]) => m[f][i].ppn \in TableFrames \ fr
  BY DEF Sound
<1> QED
  BY <1>1, <1>2 DEF Out

LEMMA TargetOut ==
  ASSUME NEW m, NEW fr, Sound(m, fr), NEW a \in Frames \ fr, Out(m, a),
         NEW i \in Idx, IsTablePointer(m[a][i])
  PROVE  Out(m, m[a][i].ppn)
<1> DEFINE t == m[a][i].ppn
<1>1. Root \in Frames \ fr /\ Root \notin TableFrames /\ TableFrames \subseteq Frames
  BY PageTableAssumption DEF Sound
<1>2. \A f \in Frames \ fr, j \in Idx : IsTablePointer(m[f][j]) => m[f][j].ppn \in TableFrames \ fr
  BY DEF Sound
<1>3. \A f \in Frames \ fr, j \in Idx :
        IsTablePointer(m[f][j]) /\ m[f][j].ppn = t => f = a
  BY DEF Sound
<1>4. t # Root
  BY <1>1, <1>2
<1> HIDE DEF t
<1>5. ASSUME NEW j \in Idx, IsTablePointer(m[Root][j])
      PROVE  /\ t # m[Root][j].ppn
             /\ \A l \in Idx : IsTablePointer(m[m[Root][j].ppn][l]) => t # m[m[Root][j].ppn][l].ppn
  <2>1. m[Root][j].ppn \in Frames \ fr /\ a # Root /\ a # m[Root][j].ppn
    BY <1>1, <1>2, <1>5, SMTT(20) DEF Out
  <2> QED
    BY <1>1, <1>3, <1>5, <2>1
<1>6. Out(m, t)
  BY <1>4, <1>5 DEF Out
<1> QED
  BY <1>6 DEF t

(* The tables on a path are in the tree, and hang from one entry each. *)
LEMMA PathIn ==
  ASSUME NEW m, NEW fr, Sound(m, fr), NEW v \in Vpages, NEW k \in 0 .. 2, NEW a, OnPath(m, v, k, a)
  PROVE  ~Out(m, a) /\ a \in (TableFrames \cup {Root}) \ fr /\ a \in Frames \ fr
<1>1. k \in {0, 1, 2}
  OBVIOUS
<1>2. Reads(m, fr, v)
  BY PathTypes
<1>3. CASE k = 2
  <2>1. a = Root
    BY <1>3 DEF OnPath
  <2> QED
    BY <1>2, <2>1, Zenon DEF Reads, Out
<1>4. CASE k = 1
  <2>1. IsTablePointer(E2(m, v)) /\ a = E2(m, v).ppn
    BY <1>4 DEF OnPath
  <2> QED
    BY <1>2, <2>1, Zenon DEF Reads, Out
<1>5. CASE k = 0
  <2>1. IsTablePointer(E2(m, v)) /\ IsTablePointer(E1(m, v)) /\ a = E1(m, v).ppn
    BY <1>5 DEF OnPath
  <2> QED
    BY <1>2, <2>1, Zenon DEF Reads, Out
<1> QED
  BY <1>1, <1>3, <1>4, <1>5

LEMMA PathUnique ==
  ASSUME NEW m, NEW fr, Sound(m, fr), NEW v \in Vpages, NEW w \in Vpages,
         NEW k \in 0 .. 2, NEW l \in 0 .. 2, NEW a, OnPath(m, v, k, a), OnPath(m, w, l, a)
  PROVE  /\ k = l
         /\ k <= 1 => vpn(v, 2) = vpn(w, 2)
         /\ k = 0 => vpn(v, 1) = vpn(w, 1)
<1>1. \A f, g \in Frames \ fr, i, j \in Idx :
        IsTablePointer(m[f][i]) /\ IsTablePointer(m[g][j]) /\ m[f][i].ppn = m[g][j].ppn
          => f = g /\ i = j
  BY DEF Sound
<1>2. Reads(m, fr, v) /\ Reads(m, fr, w)
  BY PathTypes
<1>3. k \in {0, 1, 2} /\ l \in {0, 1, 2}
  OBVIOUS
<1>4. ASSUME NEW u \in Vpages, Reads(m, fr, u), NEW j \in {0, 1}, OnPath(m, u, j, a)
      PROVE  /\ a \in TableFrames /\ a # Root /\ IsTablePointer(E2(m, u))
             /\ Root \in Frames \ fr /\ vpn(u, 2) \in Idx /\ E2(m, u) = m[Root][vpn(u, 2)]
             /\ j = 1 => a = E2(m, u).ppn
             /\ j = 0 => /\ IsTablePointer(E1(m, u)) /\ a = E1(m, u).ppn /\ vpn(u, 1) \in Idx
                         /\ E2(m, u).ppn \in Frames \ fr /\ E2(m, u).ppn # Root
                         /\ E1(m, u) = m[E2(m, u).ppn][vpn(u, 1)]
  <2>1. CASE j = 1
    BY <1>4, <2>1 DEF Reads, OnPath
  <2>2. CASE j = 0
    BY <1>4, <2>2 DEF Reads, OnPath
  <2> QED
    BY <2>1, <2>2
<1>5. OnPath(m, v, 2, a) => a = Root
  BY DEF OnPath
<1>6. OnPath(m, w, 2, a) => a = Root
  BY DEF OnPath
<1>7. CASE k = 2 \/ l = 2
  <2>1. a = Root
    BY <1>5, <1>6, <1>7
  <2>2. k = 2 /\ l = 2
    BY <1>2, <1>3, <1>4, <2>1
  <2> QED
    BY <2>2
<1>8. CASE k = 1 /\ l = 1
  <2>1. vpn(v, 2) = vpn(w, 2)
    BY <1>1, <1>2, <1>4, <1>8
  <2> QED
    BY <1>8, <2>1
<1>9. CASE k = 0 /\ l = 0
  <2>1. E2(m, v).ppn = E2(m, w).ppn /\ vpn(v, 1) = vpn(w, 1)
    BY <1>1, <1>2, <1>4, <1>9, SMTT(20)
  <2>2. vpn(v, 2) = vpn(w, 2)
    BY <1>1, <1>2, <1>4, <1>9, <2>1, SMTT(20)
  <2> QED
    BY <1>9, <2>1, <2>2, SMTT(20)
<1>10. CASE k = 1 /\ l = 0
  BY <1>1, <1>2, <1>4, <1>10
<1>11. CASE k = 0 /\ l = 1
  BY <1>1, <1>2, <1>4, <1>11
<1> QED
  BY <1>3, <1>7, <1>8, <1>9, <1>10, <1>11

(* An empty table hung where nothing was changes no translation. *)
LEMMA HungReads ==
  ASSUME NEW m, NEW fr, Sound(m, fr), NEW t \in fr, NEW a \in Frames \ fr, NEW i \in Idx,
         ~is_valid(m[a][i]), NEW v \in Vpages
  PROVE  V2P(Hung(m, a, i, t), v) = V2P(m, v)
<1> DEFINE n == Hung(m, a, i, t)
<1>1. m \in Memory /\ t \in Frames /\ t \in Frames \ {a}
  BY PageTableAssumption DEF Sound
<1>2. \A f \in Frames, j \in Idx :
        n[f][j] = IF f = a /\ j = i THEN PointerTo(t) ELSE IF f = t THEN Invalid ELSE m[f][j]
  BY <1>1, HungEntry
<1> HIDE DEF n
<1>3. \A f \in Frames \ fr, j \in Idx : n[f][j] = IF f = a /\ j = i THEN PointerTo(t) ELSE m[f][j]
  BY <1>2
<1>4. \A j \in Idx : n[t][j] = Invalid
  BY <1>1, <1>2
<1>5. IsTablePointer(PointerTo(t)) /\ PointerTo(t).ppn = t /\ ~is_valid(Invalid) /\ ~IsTablePointer(Invalid)
  BY <1>1, Entries
<1>6. \A k : LeafAt(Invalid, k, v) = None /\ LeafAt(m[a][i], k, v) = None /\ ~IsTablePointer(m[a][i])
  BY <1>5 DEF LeafAt, IsTablePointer
<1>7. /\ Root \in Frames \ fr
      /\ vpn(v, 0) \in Idx /\ vpn(v, 1) \in Idx /\ vpn(v, 2) \in Idx
      /\ E2(m, v) = m[Root][vpn(v, 2)]
      /\ IsTablePointer(E2(m, v)) =>
           /\ E2(m, v).ppn \in Frames \ fr
           /\ E1(m, v) = m[E2(m, v).ppn][vpn(v, 1)]
           /\ IsTablePointer(E1(m, v)) =>
                E1(m, v).ppn \in Frames \ fr /\ E0(m, v) = m[E1(m, v).ppn][vpn(v, 0)]
  <2>1. Reads(m, fr, v)
    BY PathTypes
  <2> QED
    BY <2>1, Zenon DEF Reads
<1>8. CASE Root = a /\ vpn(v, 2) = i
  <2>1. E2(n, v) = PointerTo(t)
    BY <1>3, <1>7, <1>8 DEF E2
  <2>2. E1(n, v) = Invalid
    BY <1>4, <1>5, <1>7, <2>1, Zenon DEF E1
  <2>3. V2P(n, v) = None
    BY <1>5, <1>6, <2>1, <2>2 DEF V2P
  <2>4. V2P(m, v) = None
    BY <1>6, <1>7, <1>8 DEF V2P
  <2> QED
    BY <2>3, <2>4 DEF n
<1>9. CASE ~(Root = a /\ vpn(v, 2) = i)
  <2>1. E2(n, v) = E2(m, v)
    BY <1>3, <1>7, <1>9 DEF E2
  <2>2. CASE ~IsTablePointer(E2(m, v))
    BY <2>1, <2>2, Zenon DEF V2P, n
  <2>3. CASE IsTablePointer(E2(m, v)) /\ E2(m, v).ppn = a /\ vpn(v, 1) = i
    <3>1. E1(n, v) = PointerTo(t) /\ E1(m, v) = m[a][i]
      BY <1>3, <1>7, <2>1, <2>3, Zenon DEF E1
    <3>2. E0(n, v) = Invalid
      BY <1>4, <1>5, <1>7, <3>1 DEF E0
    <3>3. V2P(n, v) = None
      BY <1>5, <1>6, <2>1, <2>3, <3>1, <3>2 DEF V2P
    <3>4. V2P(m, v) = None
      BY <1>6, <2>3, <3>1 DEF V2P
    <3> QED
      BY <3>3, <3>4 DEF n
  <2>4. CASE IsTablePointer(E2(m, v)) /\ ~(E2(m, v).ppn = a /\ vpn(v, 1) = i)
    <3>1. E1(n, v) = E1(m, v)
      <4>1. n[E2(m, v).ppn][vpn(v, 1)] = m[E2(m, v).ppn][vpn(v, 1)]
        BY <1>3, <1>7, <2>4
      <4> QED
        BY <2>1, <4>1, Zenon DEF E1
    <3>2. CASE ~IsTablePointer(E1(m, v))
      BY <2>1, <2>4, <3>1, <3>2, Zenon DEF V2P, n
    <3>3. CASE IsTablePointer(E1(m, v)) /\ E1(m, v).ppn = a /\ vpn(v, 0) = i
      <4>1. E0(n, v) = PointerTo(t) /\ E0(m, v) = m[a][i]
        BY <1>3, <1>7, <2>4, <3>1, <3>3, Zenon DEF E0
      <4>2. V2P(n, v) = None
        BY <1>5, <2>1, <2>4, <3>1, <3>3, <4>1 DEF V2P
      <4>3. V2P(m, v) = None
        BY <1>6, <2>4, <3>3, <4>1 DEF V2P
      <4> QED
        BY <4>2, <4>3 DEF n
    <3>4. CASE IsTablePointer(E1(m, v)) /\ ~(E1(m, v).ppn = a /\ vpn(v, 0) = i)
      <4>1. E0(n, v) = E0(m, v)
        BY <1>3, <1>7, <2>4, <3>1, <3>4 DEF E0
      <4> QED
        BY <2>1, <3>1, <4>1, SameReads DEF n
    <3> QED
      BY <3>2, <3>3, <3>4
  <2> QED
    BY <2>2, <2>3, <2>4
<1> QED
  BY <1>8, <1>9

(* A write outside the tree changes no translation, and stays outside. *)
LEMMA OutsideWrite ==
  ASSUME NEW m, NEW fr, Sound(m, fr), NEW a, Out(m, a), NEW n,
         \A f \in Frames \ fr, j \in Idx : f # a => n[f][j] = m[f][j]
  PROVE  Out(n, a) /\ \A v \in Vpages : V2P(n, v) = V2P(m, v)
<1>1. Root \in Frames \ fr /\ TableFrames \subseteq Frames /\ a # Root
  BY PageTableAssumption DEF Sound, Out
<1>2. \A f \in Frames \ fr, j \in Idx : IsTablePointer(m[f][j]) => m[f][j].ppn \in TableFrames \ fr
  BY DEF Sound
<1>3. \A j \in Idx : n[Root][j] = m[Root][j]
  BY <1>1, ZenonT(30)
<1>4. ASSUME NEW i \in Idx, IsTablePointer(m[Root][i])
      PROVE  /\ a # m[Root][i].ppn /\ m[Root][i].ppn \in Frames \ fr
             /\ \A j \in Idx : n[m[Root][i].ppn][j] = m[m[Root][i].ppn][j]
             /\ \A j \in Idx : IsTablePointer(m[m[Root][i].ppn][j]) => a # m[m[Root][i].ppn][j].ppn
  <2>1. a # m[Root][i].ppn /\ m[Root][i].ppn \in Frames \ fr
    BY <1>1, <1>2, <1>4 DEF Out
  <2> QED
    BY <1>4, <2>1 DEF Out
<1>5. Out(n, a)
  <2>1. ASSUME NEW i \in Idx, IsTablePointer(n[Root][i])
        PROVE  /\ a # n[Root][i].ppn
               /\ \A j \in Idx : IsTablePointer(n[n[Root][i].ppn][j]) => a # n[n[Root][i].ppn][j].ppn
    <3>1. n[Root][i] = m[Root][i]
      BY <1>3
    <3> QED
      BY <1>4, <2>1, <3>1
  <2> QED
    BY <1>1, <2>1, Zenon DEF Out
<1>6. ASSUME NEW v \in Vpages PROVE V2P(n, v) = V2P(m, v)
  <2>1. /\ vpn(v, 0) \in Idx /\ vpn(v, 1) \in Idx /\ vpn(v, 2) \in Idx
        /\ E2(m, v) = m[Root][vpn(v, 2)]
        /\ IsTablePointer(E2(m, v)) =>
             /\ E1(m, v) = m[E2(m, v).ppn][vpn(v, 1)]
             /\ IsTablePointer(E1(m, v)) =>
                  E1(m, v).ppn \in Frames \ fr /\ E0(m, v) = m[E1(m, v).ppn][vpn(v, 0)]
    <3>1. Reads(m, fr, v)
      BY PathTypes
    <3> QED
      BY <3>1 DEF Reads
  <2>2. E2(n, v) = E2(m, v)
    BY <1>3, <2>1, Zenon DEF E2
  <2>3. ASSUME IsTablePointer(E2(m, v)) PROVE E1(n, v) = E1(m, v)
    <3>1. n[E2(m, v).ppn][vpn(v, 1)] = m[E2(m, v).ppn][vpn(v, 1)]
      BY <1>4, <2>1, <2>3
    <3> QED
      BY <2>2, <3>1, ZenonT(30) DEF E1
  <2>4. ASSUME IsTablePointer(E2(m, v)), IsTablePointer(E1(m, v)) PROVE E0(n, v) = E0(m, v)
    <3>1. E1(m, v).ppn # a
      BY <1>4, <2>1, <2>4
    <3>2. n[E1(m, v).ppn][vpn(v, 0)] = m[E1(m, v).ppn][vpn(v, 0)]
      BY <2>1, <2>4, <3>1
    <3> QED
      BY <2>1, <2>3, <2>4, <3>2, SMTT(20) DEF E0
  <2> QED
    BY <2>2, <2>3, <2>4, SameReads
<1> QED
  BY <1>5, <1>6

(* While pointers are kept, what hangs in the tree still does. *)
LEMMA StillHangs ==
  ASSUME NEW m, NEW fr, Sound(m, fr), NEW n,
         \A f \in Frames \ fr, j \in Idx : IsTablePointer(m[f][j]) => n[f][j] = m[f][j],
         NEW t, t # Root, ~Out(m, t)
  PROVE  ~Out(n, t)
<1>1. Root \in Frames \ fr /\ TableFrames \subseteq Frames
  BY PageTableAssumption DEF Sound
<1>2. \A f \in Frames \ fr, j \in Idx : IsTablePointer(m[f][j]) => m[f][j].ppn \in TableFrames \ fr
  BY DEF Sound
<1>3. PICK i \in Idx : /\ IsTablePointer(m[Root][i])
                       /\ \/ t = m[Root][i].ppn
                          \/ \E j \in Idx : /\ IsTablePointer(m[m[Root][i].ppn][j])
                                            /\ t = m[m[Root][i].ppn][j].ppn
  BY Zenon DEF Out
<1>4. n[Root][i] = m[Root][i] /\ m[Root][i].ppn \in Frames \ fr
  BY <1>1, <1>2, <1>3
<1>5. CASE t = m[Root][i].ppn
  BY <1>3, <1>4, <1>5, Zenon DEF Out
<1>6. ASSUME NEW j \in Idx, IsTablePointer(m[m[Root][i].ppn][j]), t = m[m[Root][i].ppn][j].ppn
      PROVE  ~Out(n, t)
  <2>1. n[m[Root][i].ppn][j] = m[m[Root][i].ppn][j]
    BY <1>4, <1>6, Zenon
  <2> QED
    BY <1>3, <1>4, <1>6, <2>1, Zenon DEF Out
<1> QED
  BY <1>3, <1>5, <1>6, Zenon

-----------------------------------------------------------------------------
(* What map meets on its way down *)

(* A larger leaf is over v. *)
Cov(m, v, k) == V2P(m, v) # None /\ V2P(m, v).level > k

(* A walk that has met no leaf is not beneath one. *)
LEMMA PathUncovered ==
  ASSUME NEW m, NEW fr, Sound(m, fr), LeafBits(m, fr), NEW v \in Vpages, NEW k \in 0 .. 2,
         NEW a, OnPath(m, v, k, a)
  PROVE  ~Cov(m, v, k)
<1>1. ASSUME NEW l \in 0 .. 2, NEW b, OnPath(m, v, l, b), ~IsTablePointer(m[b][vpn(v, l)]), l <= k
      PROVE  ~Cov(m, v, k)
  <2>1. V2P(m, v) # None => V2P(m, v).level = l
    BY <1>1, LeafFound
  <2> QED
    BY <1>1, <2>1 DEF Cov
<1>2. /\ E2(m, v) = m[Root][vpn(v, 2)]
      /\ IsTablePointer(E2(m, v)) =>
           /\ E1(m, v) = m[E2(m, v).ppn][vpn(v, 1)]
           /\ IsTablePointer(E1(m, v)) => E0(m, v) = m[E1(m, v).ppn][vpn(v, 0)]
  <2>1. Reads(m, fr, v)
    BY PathTypes
  <2> QED
    BY <2>1, Zenon DEF Reads
<1>3. CASE ~IsTablePointer(E2(m, v))
  <2>1. k = 2 /\ a = Root
    BY <1>3 DEF OnPath
  <2>2. ~IsTablePointer(m[a][vpn(v, k)]) /\ k <= k
    BY <1>2, <1>3, <2>1
  <2> QED
    BY <1>1, <2>2
<1>4. CASE IsTablePointer(E2(m, v)) /\ ~IsTablePointer(E1(m, v))
  <2>1. k >= 1 /\ OnPath(m, v, 1, E2(m, v).ppn)
    BY <1>4 DEF OnPath
  <2> QED
    BY <1>1, <1>2, <1>4, <2>1
<1>5. CASE IsTablePointer(E2(m, v)) /\ IsTablePointer(E1(m, v)) /\ ~IsTablePointer(E0(m, v))
  <2>1. k >= 0 /\ OnPath(m, v, 0, E1(m, v).ppn)
    BY <1>5 DEF OnPath
  <2> QED
    BY <1>1, <1>2, <1>5, <2>1
<1>6. CASE IsTablePointer(E2(m, v)) /\ IsTablePointer(E1(m, v)) /\ IsTablePointer(E0(m, v))
  BY <1>6 DEF V2P, Cov
<1> QED
  BY <1>3, <1>4, <1>5, <1>6

(* Hanging a table keeps the leaves, and what hangs. *)
LEMMA HungGood ==
  ASSUME NEW m, NEW fr, Sound(m, fr), LeafBits(m, fr), NEW t \in fr,
         NEW a \in Frames \ fr, NEW i \in Idx, ~is_valid(m[a][i])
  PROVE  /\ LeafBits(Hung(m, a, i, t), fr \ {t})
         /\ ~Out(Hung(m, a, i, t), t) /\ AllHang(m, fr) => AllHang(Hung(m, a, i, t), fr \ {t})
<1> DEFINE n == Hung(m, a, i, t)
<1>1. m \in Memory /\ t \in Frames \ {a} /\ TableFrames \subseteq Frames /\ Root \in Frames \ TableFrames
      /\ fr \subseteq TableFrames
  BY PageTableAssumption DEF Sound
<1>2. \A f \in Frames, j \in Idx :
        n[f][j] = IF f = a /\ j = i THEN PointerTo(t) ELSE IF f = t THEN Invalid ELSE m[f][j]
  BY <1>1, HungEntry
<1> HIDE DEF n
<1>3. ~is_leaf(PointerTo(t)) /\ ~is_valid(Invalid)
  BY <1>1, Entries
<1>4. LeafBits(n, fr \ {t})
  <2> SUFFICES ASSUME NEW f \in (TableFrames \cup {Root}) \ (fr \ {t}), NEW j \in Idx,
                      is_valid(n[f][j]), is_leaf(n[f][j])
               PROVE  n[f][j].bits \ {"V"} \in Perms \ {{}}
    BY DEF LeafBits
  <2>1. n[f][j] = m[f][j] /\ f # t
    BY <1>1, <1>2, <1>3
  <2> QED
    BY <1>1, <2>1 DEF LeafBits
<1>5. \A f \in Frames \ fr, j \in Idx : IsTablePointer(m[f][j]) => n[f][j] = m[f][j]
  BY <1>1, <1>2 DEF IsTablePointer
<1>6. ASSUME ~Out(n, t), AllHang(m, fr) PROVE AllHang(n, fr \ {t})
  <2> SUFFICES ASSUME NEW x \in TableFrames \ (fr \ {t}) PROVE ~Out(n, x)
    BY DEF AllHang
  <2>1. CASE x = t
    BY <1>6, <2>1
  <2>2. CASE x # t
    <3>1. x \in TableFrames \ fr /\ x # Root
      BY <1>1, <2>2
    <3>2. ~Out(m, x)
      BY <1>6, <3>1 DEF AllHang
    <3> QED
      BY <1>5, <3>1, <3>2, StillHangs
  <2> QED
    BY <2>1, <2>2
<1> QED
  BY <1>4, <1>6 DEF n

(* The table a pointer on the path of v names is on the path of v. *)
LEMMA PathDown ==
  ASSUME NEW m, NEW v \in Vpages, NEW k \in {1, 2}, NEW a, OnPath(m, v, k, a),
         IsTablePointer(m[a][vpn(v, k)])
  PROVE  OnPath(m, v, k - 1, m[a][vpn(v, k)].ppn)
<1>1. CASE k = 2
  <2>1. m[a][vpn(v, k)] = E2(m, v)
    BY <1>1 DEF OnPath, E2
  <2> QED
    BY <1>1, <2>1 DEF OnPath
<1>2. CASE k = 1
  <2>1. IsTablePointer(E2(m, v)) /\ m[a][vpn(v, k)] = E1(m, v)
    BY <1>2 DEF OnPath, E1
  <2> QED
    BY <1>2, <2>1 DEF OnPath
<1> QED
  BY <1>1, <1>2

(* A table hung on the path of v is on the path of v. *)
LEMMA PathHung ==
  ASSUME NEW m, NEW fr, Sound(m, fr), NEW v \in Vpages, NEW k \in {1, 2}, NEW a \in Frames \ fr,
         OnPath(m, v, k, a), NEW t \in fr, Sound(Hung(m, a, vpn(v, k), t), fr \ {t})
  PROVE  /\ OnPath(Hung(m, a, vpn(v, k), t), v, k - 1, t)
         /\ ~Out(Hung(m, a, vpn(v, k), t), t)
<1> DEFINE n == Hung(m, a, vpn(v, k), t)
<1>0. /\ t \in Frames
      /\ \A f \in Frames \ fr, j \in Idx :
           n[f][j] = IF f = a /\ j = vpn(v, k) THEN PointerTo(t) ELSE m[f][j]
  <2>1. vpn(v, k) \in Idx /\ k \in 0 .. 2
    BY VpnType
  <2>2. t \in Frames
    BY PageTableAssumption, Zenon DEF Sound
  <2> QED
    BY <2>1, <2>2, HungLive
<1> HIDE DEF n
<1>1. Reads(m, fr, v)
  BY PathTypes
<1>2. /\ Root \in Frames \ fr /\ Root \notin TableFrames
      /\ vpn(v, 1) \in Idx /\ vpn(v, 2) \in Idx
      /\ IsTablePointer(E2(m, v)) => E2(m, v).ppn \in TableFrames
  BY <1>1, Zenon DEF Reads
<1>3. IsTablePointer(PointerTo(t)) /\ PointerTo(t).ppn = t
  BY <1>0, Entries, Zenon
<1>4. CASE k = 2
  <2>1. a = Root
    BY <1>4 DEF OnPath
  <2>2. E2(n, v) = PointerTo(t)
    BY <1>0, <1>2, <1>4, <2>1 DEF E2
  <2>3. OnPath(n, v, 1, t)
    BY <1>3, <2>2 DEF OnPath
  <2>4. ~Out(n, t)
    BY <2>3, PathIn DEF n
  <2> QED
    BY <1>4, <2>3, <2>4 DEF n
<1>5. CASE k = 1
  <2>1. IsTablePointer(E2(m, v)) /\ a = E2(m, v).ppn
    BY <1>5 DEF OnPath
  <2>2. a # Root
    BY <1>2, <2>1
  <2>3. n[Root][vpn(v, 2)] = m[Root][vpn(v, 2)]
    BY <1>0, <1>2, <2>2, Zenon
  <2>4. E2(n, v) = E2(m, v)
    BY <2>3 DEF E2
  <2>5. n[a][vpn(v, 1)] = PointerTo(t)
    BY <1>0, <1>2, <1>5
  <2>6. E1(n, v) = PointerTo(t)
    BY <2>1, <2>4, <2>5 DEF E1
  <2>7. OnPath(n, v, 0, t)
    BY <1>3, <2>1, <2>4, <2>6 DEF OnPath
  <2>8. ~Out(n, t)
    BY <2>7, PathIn DEF n
  <2> QED
    BY <1>5, <2>7, <2>8 DEF n
<1> QED
  BY <1>4, <1>5

(* Where a leaf on the path of v, or a frame outside the tree, leads. *)
LEMMA CoveredDown ==
  ASSUME NEW m, NEW fr, Sound(m, fr), LeafBits(m, fr), NEW v \in Vpages, NEW k \in {1, 2},
         NEW a \in Frames \ fr
  PROVE  /\ (OnPath(m, v, k, a) /\ is_valid(m[a][vpn(v, k)]) /\ is_leaf(m[a][vpn(v, k)])) =>
              Cov(m, v, k - 1) /\ Out(m, m[a][vpn(v, k)].ppn)
         /\ Cov(m, v, k) => Cov(m, v, k - 1)
<1> DEFINE e == m[a][vpn(v, k)]
<1>1. ASSUME OnPath(m, v, k, a), is_valid(e), is_leaf(e)
      PROVE  Cov(m, v, k - 1) /\ Out(m, e.ppn)
  <2>1. vpn(v, k) \in Idx /\ k \in 0 .. 2
    BY VpnType, SMTT(20)
  <2>2. ~IsTablePointer(e) /\ e.ppn \in DataFrames
    BY <1>1, <2>1 DEF IsTablePointer, Sound
  <2>3. V2P(m, v) # None /\ V2P(m, v).level = k
    BY <1>1, <2>1, <2>2, LeafFound
  <2>4. Out(m, e.ppn)
    BY <2>2, DataOut, Zenon
  <2> QED
    BY <2>3, <2>4 DEF Cov
<1>2. ASSUME Cov(m, v, k)
      PROVE  Cov(m, v, k - 1)
  <2>1. V2P(m, v).level \in 0 .. 2
    BY <1>2, V2PType, Zenon DEF Cov, Translations!Translation
  <2> QED
    BY <1>2, <2>1 DEF Cov
<1> QED
  BY <1>1, <1>2, Zenon

-----------------------------------------------------------------------------
(* What map and id_map_range do to the translations *)

(* The walk of map for page v has reached level k: the entry of v there,   *)
(* or, beneath a larger leaf, an entry outside the tree.                   *)
Reached(st, v, k) ==
  /\ st.at[2] = vpn(v, k)
  /\ \/ OnPath(st.mem, v, k, st.at[1])
     \/ Out(st.mem, st.at[1]) /\ Cov(st.mem, v, k) /\ st.below

Placed(st, v, k) == st.ok => Reached(st, v, k)

(* Unless some table was lost before, every allocated one is in the tree.  *)
Good(lost, st) ==
  /\ Walking(st)
  /\ LeafBits(st.mem, st.free)
  /\ lost \/ st.below \/ st.over \/ AllHang(st.mem, st.free)

(* One level down: no translation changes. *)
LEMMA DownGood ==
  ASSUME NEW lost, NEW st, Good(lost, st), NEW v \in Vpages, NEW k \in {1, 2}, Placed(st, v, k),
         NEW d, Walking(d), Down(st, vpn(v, k - 1), d)
  PROVE  /\ Good(lost, d) /\ Placed(d, v, k - 1) /\ (d.ok => st.ok)
         /\ \A w \in Vpages : V2P(d.mem, w) = V2P(st.mem, w)
<1> DEFINE a == st.at[1]
           i == st.at[2]
           e == EntryAt(st)
           index == vpn(v, k - 1)
<1>1. /\ Sound(st.mem, st.free) /\ LeafBits(st.mem, st.free) /\ a \in Frames \ st.free /\ i \in Idx
      /\ e = st.mem[a][i] /\ k \in 0 .. 2 /\ k - 1 \in 0 .. 2
  BY DEF Good, Walking, EntryAt
<1>0. st.ok => /\ i = vpn(v, k)
               /\ OnPath(st.mem, v, k, a) \/ (Out(st.mem, a) /\ Cov(st.mem, v, k) /\ st.below)
  BY Zenon DEF Placed, Reached
<1> HIDE DEF a, i, e, index
<1>2. CASE ~st.ok /\ d = st
  BY <1>2, Zenon DEF Placed
<1>3. CASE /\ st.ok /\ is_valid(e) /\ d.ok
           /\ d.mem = st.mem /\ d.free = st.free
           /\ d.at = <<e.ppn, index>>
           /\ d.below = (st.below \/ is_leaf(e))
           /\ d.over = st.over
  <2>1. d.at[1] = e.ppn /\ d.at[2] = index
    BY <1>3
  <2>2. Good(lost, d)
    BY <1>3, Zenon DEF Good
  <2>3. CASE OnPath(st.mem, v, k, a) /\ i = vpn(v, k) /\ ~is_leaf(e)
    <3>1. IsTablePointer(e)
      BY <1>3, <2>3, ZenonT(30) DEF IsTablePointer
    <3>2. OnPath(st.mem, v, k - 1, e.ppn)
      BY <1>1, <2>3, <3>1, PathDown
    <3> QED
      BY <1>3, <2>1, <2>2, <3>2, Zenon DEF Placed, Reached, index
  <2>4. CASE OnPath(st.mem, v, k, a) /\ i = vpn(v, k) /\ is_leaf(e)
    <3>3. Cov(st.mem, v, k - 1) /\ Out(st.mem, e.ppn)
      BY <1>1, <1>3, <2>4, CoveredDown, ZenonT(30)
    <3> QED
      BY <1>3, <2>1, <2>2, <2>4, <3>3, ZenonT(30) DEF Placed, Reached, index
  <2>5. CASE Out(st.mem, a) /\ Cov(st.mem, v, k) /\ st.below
    <3>1. Out(st.mem, e.ppn)
      <4>1. CASE is_leaf(e)
        <5>1. e.ppn \in DataFrames
          BY <1>1, <1>3, <4>1, Zenon DEF Sound
        <5> QED
          BY <1>1, <5>1, DataOut, Zenon
      <4>2. CASE ~is_leaf(e)
        <5>1. IsTablePointer(st.mem[a][i])
          BY <1>1, <1>3, <4>2, ZenonT(30) DEF IsTablePointer
        <5> QED
          BY <1>1, <2>5, <5>1, TargetOut, Zenon
      <4> QED
        BY <4>1, <4>2
    <3>2. Cov(st.mem, v, k - 1)
      BY <1>1, <2>5, CoveredDown, ZenonT(30)
    <3> QED
      BY <1>3, <2>1, <2>2, <2>5, <3>1, <3>2, Zenon DEF Placed, Reached, index
  <2> QED
    BY <1>0, <1>3, <2>3, <2>4, <2>5, ZenonT(30)
<1>4. CASE /\ st.ok /\ d.ok = FALSE /\ d.mem = st.mem /\ d.free = st.free
           /\ d.below = st.below /\ d.over = st.over
  BY <1>4 DEF Good, Placed
<1>5. ASSUME NEW t \in st.free, st.ok, ~is_valid(e), d.ok,
             d.mem = Hung(st.mem, a, i, t), d.free = st.free \ {t},
             d.at = <<t, index>>, d.below = st.below, d.over = st.over
      PROVE  /\ Good(lost, d) /\ Placed(d, v, k - 1)
             /\ \A w \in Vpages : V2P(d.mem, w) = V2P(st.mem, w)
  <2>1. \A w \in Vpages : V2P(d.mem, w) = V2P(st.mem, w)
    BY <1>1, <1>5, HungReads, SMTT(20)
  <2>2. d.at[1] = t /\ d.at[2] = index
    BY <1>5, SMTT(20)
  <2>3. /\ LeafBits(d.mem, d.free)
        /\ ~Out(d.mem, t) /\ AllHang(st.mem, st.free) => AllHang(d.mem, d.free)
    BY <1>1, <1>5, HungGood
  <2>4. st.mem \in Memory /\ t \in Frames \ {a} /\ Root \in Frames \ st.free /\ Root \notin TableFrames
        /\ TableFrames \subseteq Frames
    BY <1>1, PageTableAssumption, ZenonT(30) DEF Sound
  <2>5. \A f \in Frames \ st.free, j \in Idx :
          d.mem[f][j] = IF f = a /\ j = i THEN PointerTo(t) ELSE st.mem[f][j]
    <3>1. \A f \in Frames \ st.free, j \in Idx :
            Hung(st.mem, a, i, t)[f][j] = IF f = a /\ j = i THEN PointerTo(t) ELSE st.mem[f][j]
      BY <1>1, HungLive
    <3> QED
      BY <1>5, <3>1
  <2>6. IsTablePointer(PointerTo(t)) /\ PointerTo(t).ppn = t
    BY <2>4, Entries, Zenon
  <2>7. CASE OnPath(st.mem, v, k, a) /\ i = vpn(v, k)
    <3>0. Sound(d.mem, st.free \ {t})
      BY <1>5, ZenonT(30) DEF Walking
    <3>1. OnPath(d.mem, v, k - 1, t) /\ ~Out(d.mem, t)
      BY <1>1, <1>5, <2>7, <3>0, PathHung
    <3>3. Good(lost, d)
      BY <1>5, <2>3, <3>1, Zenon DEF Good
    <3> QED
      BY <2>1, <2>2, <3>1, <3>3, Zenon DEF Placed, Reached, index
  <2>8. CASE Out(st.mem, a) /\ Cov(st.mem, v, k) /\ st.below
    <3>1. Out(d.mem, a)
      BY <1>1, <2>5, <2>8, OutsideWrite
    <3>2. Sound(d.mem, d.free) /\ a \in Frames \ d.free
      BY <1>1, <1>5 DEF Walking
    <3>3. d.mem[a][i] = PointerTo(t)
      BY <1>1, <2>5, Zenon
    <3>4. Out(d.mem, t)
      BY <1>1, <2>6, <3>1, <3>2, <3>3, TargetOut
    <3>5. Cov(d.mem, v, k - 1)
      <4>1. Cov(st.mem, v, k - 1)
        BY <1>1, <2>8, CoveredDown
      <4> QED
        BY <2>1, <4>1, ZenonT(30) DEF Cov
    <3>6. Good(lost, d)
      BY <1>5, <2>3, <2>8, ZenonT(30) DEF Good
    <3> QED
      BY <1>5, <2>1, <2>2, <2>8, <3>4, <3>5, <3>6, ZenonT(30) DEF Placed, Reached, index
  <2> QED
    BY <1>0, <1>5, <2>7, <2>8, ZenonT(30)
<1> QED
  BY <1>2, <1>3, <1>4, <1>5, Zenon DEF Down, a, i, e, index

(* The walk starts at the root table, on the path of every page. *)
LEMMA TopGood ==
  ASSUME NEW lost, NEW st, Good(lost, st), NEW v \in Vpages
  PROVE  /\ Good(lost, Top(st, v)) /\ Placed(Top(st, v), v, 2)
         /\ Top(st, v).mem = st.mem /\ Top(st, v).ok = st.ok
<1>1. PICK d : d = Top(st, v)
  OBVIOUS
<1>2. /\ Walking(d) /\ d.at = <<Root, vpn(v, 2)>> /\ d.mem = st.mem /\ d.free = st.free
      /\ d.ok = st.ok /\ d.below = st.below /\ d.over = st.over
  BY <1>1, TopWalking, SMTT(20) DEF Good
<1>3. d.at[1] = Root /\ d.at[2] = vpn(v, 2)
  BY <1>2
<1>4. Good(lost, d)
  BY <1>2 DEF Good
<1>5. Placed(d, v, 2)
  BY <1>3 DEF Placed, Reached, OnPath
<1> QED
  BY <1>1, <1>2, <1>4, <1>5

(* The whole walk, to any level. *)
LEMMA WalkGood ==
  ASSUME NEW lost, NEW st, Good(lost, st), NEW v \in Vpages, NEW k \in 0 .. 2
  PROVE  /\ Good(lost, Walk(st, v, k)) /\ Placed(Walk(st, v, k), v, k)
         /\ Walk(st, v, k).ok => st.ok
         /\ \A w \in Vpages : V2P(Walk(st, v, k).mem, w) = V2P(st.mem, w)
<1>1. Walking(st)
  BY DEF Good
<1>2. PICK s2, s1, s0 :
        /\ s2 = Top(st, v)
        /\ Walk(st, v, 2) = s2 /\ Walk(st, v, 1) = s1 /\ Walk(st, v, 0) = s0
        /\ Walking(s1) /\ Walking(s0)
        /\ Down(s2, vpn(v, 1), s1) /\ Down(s1, vpn(v, 0), s0)
  BY <1>1, WalkLevels
<1>3. Good(lost, s2) /\ Placed(s2, v, 2) /\ s2.mem = st.mem /\ s2.ok = st.ok
  BY <1>2, TopGood
<1>4. /\ Good(lost, s1) /\ Placed(s1, v, 1) /\ (s1.ok => s2.ok)
      /\ \A w \in Vpages : V2P(s1.mem, w) = V2P(s2.mem, w)
  <2>1. 2 \in {1, 2} /\ 2 - 1 = 1
    OBVIOUS
  <2>2. Down(s2, vpn(v, 2 - 1), s1)
    BY <1>2, <2>1
  <2> QED
    BY <1>2, <1>3, <2>1, <2>2, DownGood
<1>5. /\ Good(lost, s0) /\ Placed(s0, v, 0) /\ (s0.ok => s1.ok)
      /\ \A w \in Vpages : V2P(s0.mem, w) = V2P(s1.mem, w)
  <2>1. 1 \in {1, 2} /\ 1 - 1 = 0
    OBVIOUS
  <2>2. Down(s1, vpn(v, 1 - 1), s0)
    BY <1>2, <2>1
  <2> QED
    BY <1>2, <1>4, <2>1, <2>2, DownGood
<1>6. k = 0 \/ k = 1 \/ k = 2
  OBVIOUS
<1> QED
  BY <1>2, <1>3, <1>4, <1>5, <1>6

(* The leaf is stored where the walk ended: it is what v2p finds from then *)
(* on for the pages it covers, unless it is beneath a larger leaf.         *)
LEMMA StoredReads ==
  ASSUME NEW m, NEW fr, Sound(m, fr), NEW v \in Vpages, NEW k \in 0 .. 2, NEW a, OnPath(m, v, k, a),
         NEW e \in Entry, ~IsTablePointer(e), NEW w \in Vpages
  PROVE  V2P(Stored(m, a, vpn(v, k), e), w) = IF SameFrom(v, w, k) THEN LeafAt(e, k, w) ELSE V2P(m, w)
<1> DEFINE n == Stored(m, a, vpn(v, k), e)
<1>1. a \in Frames \ fr
  BY PathIn
<1>2. vpn(v, k) \in Idx /\ m \in Memory
  BY VpnType DEF Sound
<1>3. \A f \in Frames, j \in Idx : n[f][j] = IF f = a /\ j = vpn(v, k) THEN e ELSE m[f][j]
  BY <1>1, <1>2, StoredEntry
<1> HIDE DEF n
<1>4. /\ Root \in Frames
      /\ vpn(w, 0) \in Idx /\ vpn(w, 1) \in Idx /\ vpn(w, 2) \in Idx
      /\ E2(m, w) = m[Root][vpn(w, 2)]
      /\ IsTablePointer(E2(m, w)) =>
           /\ E2(m, w).ppn \in Frames
           /\ E1(m, w) = m[E2(m, w).ppn][vpn(w, 1)]
           /\ IsTablePointer(E1(m, w)) =>
                E1(m, w).ppn \in Frames /\ E0(m, w) = m[E1(m, w).ppn][vpn(w, 0)]
  <2>1. Reads(m, fr, w)
    BY PathTypes
  <2> QED
    BY <2>1, Zenon DEF Reads
<1>5. ASSUME NEW l \in 0 .. 2, OnPath(m, w, l, a)
      PROVE  /\ k = l
             /\ vpn(w, k) = vpn(v, k) => SameFrom(v, w, k)
  <2>1. /\ k = l
        /\ k <= 1 => vpn(v, 2) = vpn(w, 2)
        /\ k = 0 => vpn(v, 1) = vpn(w, 1)
    BY <1>5, PathUnique
  <2> QED
    BY <2>1 DEF SameFrom
<1>6. ASSUME SameFrom(v, w, k)
      PROVE  OnPath(m, w, k, a) /\ vpn(w, k) = vpn(v, k)
  <2>1. vpn(w, k) = vpn(v, k)
    BY <1>6 DEF SameFrom
  <2>2. CASE k = 2
    BY <2>1, <2>2 DEF OnPath
  <2>3. CASE k = 1
    <3>1. E2(m, w) = E2(m, v)
      BY <1>6 DEF SameFrom, E2
    <3> QED
      BY <2>1, <2>3, <3>1 DEF OnPath
  <2>4. CASE k = 0
    <3>1. E2(m, w) = E2(m, v)
      BY <1>6 DEF SameFrom, E2
    <3>2. E1(m, w) = E1(m, v)
      BY <1>6, <2>4, <3>1 DEF SameFrom, E1
    <3> QED
      BY <2>1, <2>4, <3>1, <3>2, SMTT(20) DEF OnPath
  <2> QED
    BY <2>2, <2>3, <2>4
<1>7. CASE ~SameFrom(v, w, k)
  <2>1. ASSUME NEW l \in 0 .. 2, NEW b \in Frames, OnPath(m, w, l, b)
        PROVE  n[b][vpn(w, l)] = m[b][vpn(w, l)]
    <3>1. ~(b = a /\ vpn(w, l) = vpn(v, k))
      BY <1>5, <1>7, <2>1
    <3>2. vpn(w, l) \in Idx
      BY VpnType, SMTT(20)
    <3> QED
      BY <1>3, <3>1, <3>2
  <2>2. E2(n, w) = E2(m, w)
    BY <1>4, <2>1 DEF OnPath, E2
  <2>3. ASSUME IsTablePointer(E2(m, w)) PROVE E1(n, w) = E1(m, w)
    <3>1. n[E2(m, w).ppn][vpn(w, 1)] = m[E2(m, w).ppn][vpn(w, 1)]
      BY <1>4, <2>1, <2>3 DEF OnPath
    <3> QED
      BY <2>2, <3>1, Zenon DEF E1
  <2>4. ASSUME IsTablePointer(E2(m, w)), IsTablePointer(E1(m, w)) PROVE E0(n, w) = E0(m, w)
    <3>1. n[E1(m, w).ppn][vpn(w, 0)] = m[E1(m, w).ppn][vpn(w, 0)]
      BY <1>4, <2>1, <2>4 DEF OnPath
    <3> QED
      BY <2>3, <2>4, <3>1, ZenonT(30) DEF E0
  <2>5. V2P(n, w) = V2P(m, w)
    BY <2>2, <2>3, <2>4, SameReads
  <2> QED
    BY <1>7, <2>5, SMTT(20) DEF n
<1>8. CASE SameFrom(v, w, k)
  <2>1. OnPath(m, w, k, a) /\ vpn(w, k) = vpn(v, k) /\ vpn(w, k) \in Idx
    BY <1>2, <1>6, <1>8
  <2>2. n[a][vpn(w, k)] = e
    BY <1>1, <1>3, <2>1
  <2>3. CASE k = 2
    <3>1. E2(n, w) = e
      BY <2>1, <2>2, <2>3 DEF OnPath, E2
    <3>2. V2P(n, w) = LeafAt(e, k, w)
      BY <2>3, <3>1 DEF V2P
    <3> QED
      BY <1>8, <3>2 DEF n
  <2>4. ASSUME k # 2 PROVE E2(n, w) = E2(m, w)
    <3>1. ~OnPath(m, w, 2, a)
      BY <1>5, <2>4
    <3>2. Root # a
      BY <3>1 DEF OnPath
    <3> QED
      BY <1>3, <1>4, <3>2, Zenon DEF E2
  <2>5. CASE k = 1
    <3>1. IsTablePointer(E2(m, w)) /\ a = E2(m, w).ppn
      BY <2>1, <2>5 DEF OnPath
    <3>2. E2(n, w) = E2(m, w) /\ E1(n, w) = e
      BY <2>2, <2>4, <2>5, <3>1 DEF E1
    <3>3. V2P(n, w) = LeafAt(e, k, w)
      BY <2>5, <3>1, <3>2 DEF V2P
    <3> QED
      BY <1>8, <3>3 DEF n
  <2>6. CASE k = 0
    <3>1. IsTablePointer(E2(m, w)) /\ IsTablePointer(E1(m, w)) /\ a = E1(m, w).ppn
      BY <2>1, <2>6 DEF OnPath
    <3>2. E2(n, w) = E2(m, w)
      BY <2>4, <2>6
    <3>3. E1(n, w) = E1(m, w)
      <4>1. E2(m, w).ppn # a
        BY <1>5, <2>6, <3>1 DEF OnPath
      <4>2. n[E2(m, w).ppn][vpn(w, 1)] = m[E2(m, w).ppn][vpn(w, 1)]
        BY <1>3, <1>4, <3>1, <4>1, Zenon
      <4> QED
        BY <3>2, <4>2, Zenon DEF E1
    <3>4. E0(n, w) = e
      BY <2>2, <2>6, <3>1, <3>3 DEF E0
    <3>5. V2P(n, w) = LeafAt(e, k, w)
      BY <2>6, <3>1, <3>2, <3>3, <3>4 DEF V2P
    <3> QED
      BY <1>8, <3>5 DEF n
  <2> QED
    BY <2>3, <2>5, <2>6
<1> QED
  BY <1>7, <1>8

LEMMA SetLeafGood ==
  ASSUME NEW lost, NEW st, Good(lost, st), NEW v \in Vpages, NEW k \in 0 .. 2, Reached(st, v, k),
         NEW p \in DataFrames, NEW bits \in Perms \ {{}}, NEW d, d = SetLeaf(st, p, bits)
  PROVE  /\ Good(lost, d) /\ d.ok = st.ok
         /\ \A w \in Vpages :
              V2P(d.mem, w) = IF ~Cov(st.mem, v, k) /\ SameFrom(v, w, k)
                                THEN LeafAt(LeafTo(p, bits), k, w) ELSE V2P(st.mem, w)
<1> DEFINE a == st.at[1]
           i == st.at[2]
           e == LeafTo(p, bits)
<1>1. /\ Walking(st) /\ Walking(d) /\ Sound(st.mem, st.free) /\ LeafBits(st.mem, st.free)
      /\ a \in Frames \ st.free /\ i \in Idx /\ i = vpn(v, k) /\ st.mem \in Memory
  <2>1. Walking(st)
    BY DEF Good
  <2>2. Walking(d)
    BY <2>1, SetLeafWalking
  <2> QED
    BY <2>1, <2>2, Zenon DEF Good, Walking, Sound, Reached
<1>2. /\ d.mem = Stored(st.mem, a, i, e) /\ d.free = st.free /\ d.ok = st.ok /\ d.below = st.below
      /\ d.over = (st.over \/ IsTablePointer(EntryAt(st)))
  <2>1. IsRecord(st)
    BY <1>1, Zenon DEF Walking, IsRecord
  <2>2. /\ IsRecord(d)
        /\ d.mem = Stored(st.mem, st.at[1], st.at[2], LeafTo(p, bits))
        /\ d.free = st.free /\ d.at = st.at /\ d.ok = st.ok /\ d.below = st.below
        /\ d.over = (st.over \/ IsTablePointer(EntryAt(st)))
    BY <2>1, SetLeafFields
  <2> QED
    BY <2>2, Zenon
<1>3. e \in Entry /\ ~IsTablePointer(e) /\ e.bits \ {"V"} = bits
  BY LeafEntry
<1> HIDE DEF e, a, i
<1>4. \A f \in Frames, j \in Idx : d.mem[f][j] = IF f = a /\ j = i THEN e ELSE st.mem[f][j]
  <2>1. \A f \in Frames, j \in Idx :
          Stored(st.mem, a, i, e)[f][j] = IF f = a /\ j = i THEN e ELSE st.mem[f][j]
    BY <1>1, <1>3, StoredEntry, SMTT(20)
  <2> QED
    BY <1>2, <2>1, ZenonT(30)
<1>5. LeafBits(d.mem, d.free)
  <2> SUFFICES ASSUME NEW f \in (TableFrames \cup {Root}) \ st.free, NEW j \in Idx,
                      is_valid(d.mem[f][j]), is_leaf(d.mem[f][j])
               PROVE  d.mem[f][j].bits \ {"V"} \in Perms \ {{}}
    BY <1>2, Zenon DEF LeafBits
  <2>1. f \in Frames
    BY PageTableAssumption
  <2>2. CASE d.mem[f][j] = e
    BY <1>3, <2>2
  <2>3. CASE d.mem[f][j] = st.mem[f][j]
    BY <1>1, <2>3, Zenon DEF LeafBits
  <2> QED
    BY <1>4, <2>1, <2>2, <2>3
<1>6. lost \/ d.below \/ d.over \/ AllHang(d.mem, d.free)
  <2> SUFFICES ASSUME ~lost, ~st.below, ~st.over, ~IsTablePointer(st.mem[a][i]),
                      NEW t \in TableFrames \ st.free
               PROVE  ~Out(d.mem, t)
    BY <1>2, Zenon DEF AllHang, EntryAt, a, i
  <2>1. ~Out(st.mem, t) /\ t # Root
    BY PageTableAssumption, Zenon DEF Good, AllHang
  <2>2. \A f \in Frames \ st.free, j \in Idx :
          IsTablePointer(st.mem[f][j]) => d.mem[f][j] = st.mem[f][j]
    BY <1>4
  <2> QED
    BY <1>1, <2>1, <2>2, StillHangs, Zenon
<1>7. Good(lost, d)
  BY <1>1, <1>5, <1>6, Zenon DEF Good
<1>8. ASSUME NEW w \in Vpages
      PROVE  V2P(d.mem, w) = IF ~Cov(st.mem, v, k) /\ SameFrom(v, w, k)
                               THEN LeafAt(e, k, w) ELSE V2P(st.mem, w)
  <2>1. CASE OnPath(st.mem, v, k, a)
    <3>1. ~Cov(st.mem, v, k)
      BY <1>1, <2>1, PathUncovered, Zenon
    <3>2. V2P(Stored(st.mem, a, vpn(v, k), e), w) = IF SameFrom(v, w, k) THEN LeafAt(e, k, w) ELSE V2P(st.mem, w)
      <4>1. Sound(st.mem, st.free) /\ e \in Entry /\ ~IsTablePointer(e)
        BY <1>1, <1>3, Zenon
      <4> QED
        BY <2>1, <4>1, StoredReads, SMTT(30)
    <3> QED
      BY <1>1, <1>2, <3>1, <3>2, Zenon
  <2>2. CASE Out(st.mem, a) /\ Cov(st.mem, v, k)
    <3>1. \A f \in Frames \ st.free, j \in Idx : f # a => d.mem[f][j] = st.mem[f][j]
      BY <1>4, Zenon
    <3>2. V2P(d.mem, w) = V2P(st.mem, w)
      <4>1. Sound(st.mem, st.free)
        BY <1>1, Zenon
      <4> QED
        BY <2>2, <3>1, <4>1, OutsideWrite, SMTT(30)
    <3> QED
      BY <2>2, <3>2, Zenon
  <2> QED
    BY <2>1, <2>2, Zenon DEF Reached, a
<1> QED
  BY <1>2, <1>7, <1>8 DEF e

(* map, whole: the leaf is found, or nothing has changed. *)
LEMMA MapGood ==
  ASSUME NEW lost, NEW st, Good(lost, st), NEW v \in Vpages, NEW k \in 0 .. 2,
         NEW p \in DataFrames, NEW bits \in Perms \ {{}}, NEW d, d = map(st, v, p, bits, k)
  PROVE  /\ Good(lost, d) /\ (d.ok => st.ok)
         /\ \A w \in Vpages :
              V2P(d.mem, w) = IF d.ok /\ ~Cov(st.mem, v, k) /\ SameFrom(v, w, k)
                                THEN LeafAt(LeafTo(p, bits), k, w) ELSE V2P(st.mem, w)
<1>1. PICK s : s = Walk(st, v, k)
  OBVIOUS
<1>2. /\ Good(lost, s) /\ Placed(s, v, k) /\ (s.ok => st.ok)
      /\ \A w \in Vpages : V2P(s.mem, w) = V2P(st.mem, w)
  BY <1>1, WalkGood, Zenon
<1>3. d = IF s.ok THEN SetLeaf(s, p, bits) ELSE s
  BY <1>1, Zenon DEF map
<1>4. CASE ~s.ok
  BY <1>2, <1>3, <1>4
<1>5. CASE s.ok
  <2>0. d = SetLeaf(s, p, bits) /\ Good(lost, s) /\ Reached(s, v, k)
    BY <1>2, <1>3, <1>5, SMTT(20) DEF Placed
  <2>1. /\ Good(lost, d) /\ d.ok = s.ok
        /\ \A w \in Vpages :
             V2P(d.mem, w) = IF ~Cov(s.mem, v, k) /\ SameFrom(v, w, k)
                               THEN LeafAt(LeafTo(p, bits), k, w) ELSE V2P(s.mem, w)
    BY <2>0, SetLeafGood
  <2>2. Cov(s.mem, v, k) <=> Cov(st.mem, v, k)
    BY <1>2 DEF Cov
  <2> QED
    BY <1>2, <1>5, <2>1, <2>2
<1> QED
  BY <1>4, <1>5

(* id_map_range: the pages before the one it reached map to themselves,    *)
(* except beneath a larger leaf.                                           *)
Mapped(m, d, start, reached, bits) ==
  \A w \in Vpages :
    V2P(d.mem, w) = IF w \in start .. reached - 1 /\ ~Cov(m, w, 0)
                      THEN [page |-> w, bits |-> bits, level |-> 0] ELSE V2P(m, w)

LEMMA RangeGood ==
  ASSUME NEW lost, NEW st, Good(lost, st), NEW start \in Ppages, NEW end \in Ppages, start <= end,
         NEW bits \in Perms \ {{}}
  PROVE  /\ Good(lost, id_map_range(st, start, end, bits))
         /\ \E reached \in start .. end :
              Mapped(st.mem, id_map_range(st, start, end, bits), start, reached, bits)
<1>1. start \in Nat /\ end \in Nat
  BY PageTableAssumption, Spans DEF Vpages
<1>2. PICK r : /\ r[start] = st
               /\ \A v \in start + 1 .. end : r[v] = map(r[v - 1], v - 1, v - 1, bits, 0)
               /\ id_map_range(st, start, end, bits) = r[end]
  BY <1>1, RangeUnrolled
<1> DEFINE Fine(u) == /\ Good(lost, r[u])
                      /\ \E reached \in start .. u :
                           /\ Mapped(st.mem, r[u], start, reached, bits)
                           /\ r[u].ok => reached = u
           T == {n \in Nat : start + n <= end => Fine(start + n)}
<1>3. Fine(start)
  <2>1. start \in start .. start /\ \A w \in Vpages : w \notin start .. start - 1
    BY <1>1 DEF Vpages
  <2>2. Mapped(st.mem, r[start], start, start, bits)
    BY <1>2, <2>1 DEF Mapped
  <2> QED
    BY <1>2, <2>1, <2>2
<1>4. ASSUME NEW u \in Nat, start <= u, u + 1 <= end, Fine(u) PROVE Fine(u + 1)
  <2>1. u \in DataFrames /\ u \in Vpages
    <3>1. u \in start .. end
      BY <1>1, <1>4
    <3>2. start .. end \subseteq DataFrames /\ end \in Vpages
      BY PageTableAssumption
    <3> QED
      BY <1>1, <1>4, <3>1, <3>2, Spans DEF Vpages
  <2>2. PICK d : d = r[u + 1] /\ d = map(r[u], u, u, bits, 0)
    <3>1. u + 1 \in start + 1 .. end /\ (u + 1) - 1 = u
      BY <1>1, <1>4
    <3> QED
      BY <1>2, <3>1
  <2>3. PICK reached \in start .. u : /\ Mapped(st.mem, r[u], start, reached, bits)
                                      /\ r[u].ok => reached = u
    BY <1>4
  <2>4. /\ Good(lost, d) /\ (d.ok => r[u].ok)
        /\ \A w \in Vpages :
             V2P(d.mem, w) = IF d.ok /\ ~Cov(r[u].mem, u, 0) /\ SameFrom(u, w, 0)
                               THEN LeafAt(LeafTo(u, bits), 0, w) ELSE V2P(r[u].mem, w)
    <3>1. Good(lost, r[u]) /\ 0 \in 0 .. 2
      BY <1>4
    <3> QED
      BY <2>1, <2>2, <3>1, MapGood
  <2>5. CASE ~d.ok
    <3>1. Mapped(st.mem, d, start, reached, bits)
      BY <2>3, <2>4, <2>5 DEF Mapped
    <3>2. reached \in start .. u + 1
      BY <1>1, <1>4
    <3> QED
      BY <2>2, <2>4, <2>5, <3>1, <3>2, SMTT(20)
  <2>6. CASE d.ok
    <3>1. reached = u /\ u + 1 \in start .. u + 1
      BY <1>1, <1>4, <2>3, <2>4, <2>6
    <3>2. \A w \in Vpages : w \in Nat /\ (SameFrom(u, w, 0) <=> w = u)
      <4> SUFFICES ASSUME NEW w \in Vpages PROVE w \in Nat /\ (SameFrom(u, w, 0) <=> w = u)
        OBVIOUS
      <4>1. Translations!SameBlock(u, w, 0) <=> SameFrom(u, w, 0)
        BY <2>1, Blocks
      <4>2. Translations!SameBlock(u, w, 0) <=> u \div 1 = w \div 1
        BY DEF Translations!SameBlock, Translations!BlockSize
      <4>3. u \div 1 = u /\ w \div 1 = w /\ w \in Nat
        BY <2>1, Digits, Spans
      <4> QED
        BY <4>1, <4>2, <4>3
    <3>3. V2P(r[u].mem, u) = V2P(st.mem, u)
      <4>1. u \notin start .. u - 1
        BY <1>1, <1>4
      <4> QED
        BY <2>1, <2>3, <3>1, <4>1, Zenon DEF Mapped
    <3>4. Cov(r[u].mem, u, 0) <=> Cov(st.mem, u, 0)
      BY <3>3 DEF Cov
    <3>5. LeafAt(LeafTo(u, bits), 0, u) = [page |-> u, bits |-> bits, level |-> 0]
      <4>1. /\ is_valid(LeafTo(u, bits)) /\ LeafTo(u, bits).ppn = u
            /\ LeafTo(u, bits).bits \ {"V"} = bits
        BY <2>1, LeafEntry
      <4>2. u - (u % Span(0)) + (u % Span(0)) = u
        <5>1. u % 1 = 0 /\ Span(0) = 1
          BY <1>4, Spans, SMTT(20)
        <5> QED
          BY <1>4, <5>1
      <4> QED
        BY <4>1, <4>2, Zenon DEF LeafAt
    <3>6. ASSUME NEW w \in Vpages
          PROVE  V2P(d.mem, w) = IF w \in start .. (u + 1) - 1 /\ ~Cov(st.mem, w, 0)
                                   THEN [page |-> w, bits |-> bits, level |-> 0] ELSE V2P(st.mem, w)
      <4>1. CASE w = u
        <5>1. u \in start .. (u + 1) - 1
          BY <1>1, <1>4
        <5> QED
          BY <2>4, <2>6, <3>2, <3>3, <3>4, <3>5, <4>1, <5>1, ZenonT(30)
      <4>2. CASE w # u
        <5>1. w \in start .. (u + 1) - 1 <=> w \in start .. u - 1
          BY <1>1, <1>4, <3>2, <4>2
        <5>2. V2P(d.mem, w) = V2P(r[u].mem, w)
          BY <2>4, <3>2, <4>2, Zenon
        <5> QED
          BY <2>3, <3>1, <5>1, <5>2, Zenon DEF Mapped
      <4> QED
        BY <4>1, <4>2
    <3>7. Mapped(st.mem, d, start, u + 1, bits)
      BY <3>6 DEF Mapped
    <3> QED
      BY <2>2, <2>4, <3>1, <3>7
  <2> QED
    BY <2>5, <2>6
<1> HIDE DEF Fine
<1>5. 0 \in T
  BY <1>1, <1>3
<1>6. ASSUME NEW n \in T PROVE n + 1 \in T
  <2> SUFFICES ASSUME n \in Nat, start + (n + 1) <= end PROVE Fine(start + (n + 1))
    OBVIOUS
  <2>1. PICK u \in Nat : u = start + n /\ start <= u /\ u + 1 <= end /\ start + (n + 1) = u + 1
    BY <1>1
  <2>2. Fine(u)
    BY <1>1, <2>1
  <2>3. Fine(u + 1)
    BY <1>4, <2>1, <2>2
  <2> QED
    BY <2>1, <2>3
<1>7. T = Nat
  <2>1. T \in SUBSET Nat
    OBVIOUS
  <2> HIDE DEF T
  <2> QED
    BY <1>5, <1>6, <2>1, NatSetInduction
<1>8. Fine(end)
  <2>1. end - start \in Nat /\ start + (end - start) = end
    BY <1>1
  <2>2. PICK n \in T : start + n = end
    BY <1>7, <2>1
  <2> QED
    BY <1>1, <2>2
<1> QED
  BY <1>2, <1>8 DEF Fine

-----------------------------------------------------------------------------
(* No table is lost, after any calls *)

TInv == SInv /\ LeafBits(mem, free) /\ (mixed \/ AllHang(mem, free))

LEMMA TInvInit == Init => TInv
<1> SUFFICES ASSUME Init PROVE TInv
  OBVIOUS
<1>1. SInv
  BY SInvInit
<1>2. \A p \in Ppages : p \in DataFrames
  <2> SUFFICES ASSUME NEW p \in Ppages PROVE p \in DataFrames
    OBVIOUS
  <2>1. p \in p .. p
    BY PageTableAssumption, Spans DEF Vpages
  <2> QED
    BY <2>1, PageTableAssumption, Zenon
<1>3. \A f \in TableFrames \cup {Root} : f \in Frames /\ f \notin Ppages
  BY <1>2, PageTableAssumption DEF DataFrames
<1>4. \A f \in TableFrames \cup {Root}, i \in Idx : mem[f][i] = Invalid
  <2>1. PICK word : mem = [f \in Frames |-> [i \in Idx |-> IF f \in Ppages THEN word ELSE Invalid]]
    BY DEF Init, Idx
  <2> QED
    BY <1>3, <2>1
<1>5. LeafBits(mem, free)
  BY <1>4, Entries DEF LeafBits
<1>6. AllHang(mem, free)
  BY DEF Init, AllHang
<1> QED
  BY <1>1, <1>5, <1>6 DEF TInv

LEMMA NowGood == TInv => Good(mixed, Now)
<1> SUFFICES ASSUME TInv PROVE Good(mixed, Now)
  OBVIOUS
<1>1. Walking(Now)
  BY NowWalking DEF TInv
<1>2. Now.mem = mem /\ Now.free = free
  BY DEF Now
<1> QED
  BY <1>1, <1>2 DEF Good, TInv

LEMMA BecomesGood ==
  ASSUME TInv, SInv', NEW d, Good(mixed, d), Becomes(d)
  PROVE  TInv'
<1>1. mem' = d.mem /\ free' = d.free /\ mixed' = (mixed \/ d.below \/ d.over)
  BY Zenon DEF Becomes
<1>2. LeafBits(mem', free') /\ (mixed' \/ AllHang(mem', free'))
  BY <1>1, Zenon DEF Good
<1> QED
  BY <1>2, Zenon DEF TInv, LeafBits, AllHang, Out, is_valid, is_leaf, IsTablePointer, Idx

(* A table in the tree is the target of a slot that unmap frees. *)
LEMMA HangsInSlot ==
  ASSUME NEW t, t # Root, ~Out(mem, t)
  PROVE  \E s \in Level1Slots \cup Level0Slots : Target(s) = t
<1>1. PICK i \in Idx : /\ IsTablePointer(mem[Root][i])
                       /\ \/ t = mem[Root][i].ppn
                          \/ \E j \in Idx : /\ IsTablePointer(mem[mem[Root][i].ppn][j])
                                            /\ t = mem[mem[Root][i].ppn][j].ppn
  BY ZenonT(30) DEF Out
<1>2. <<Root, i>> \in Level1Slots /\ Target(<<Root, i>>) = mem[Root][i].ppn
  BY <1>1 DEF Level1Slots, PointersIn, Target, Idx
<1>3. CASE t = mem[Root][i].ppn
  BY <1>2, <1>3
<1>4. ASSUME NEW j \in Idx, IsTablePointer(mem[mem[Root][i].ppn][j]), t = mem[mem[Root][i].ppn][j].ppn
      PROVE  \E s \in Level1Slots \cup Level0Slots : Target(s) = t
  <2>1. PICK f : f = mem[Root][i].ppn
    OBVIOUS
  <2>2. <<f, j>> \in PointersIn(f) /\ Target(<<f, j>>) = t
    BY <1>4, <2>1, SMTT(20) DEF PointersIn, Target, Idx
  <2>3. <<f, j>> \in Level0Slots
    BY <1>2, <2>1, <2>2, Zenon DEF Level0Slots
  <2> QED
    BY <2>2, <2>3
<1> QED
  BY <1>1, <1>3, <1>4, Zenon

LEMMA UnmapGood ==
  ASSUME TInv, SInv', Unmap
  PROVE  TInv'
<1>1. /\ mixed' = mixed
      /\ free' = free \cup {Target(s) : s \in Level1Slots \cup Level0Slots}
  BY DEF Unmap, UnmapSlots
<1>2. \A f \in Frames, i \in Idx : mem'[f][i] = Invalid \/ mem'[f][i] = mem[f][i]
  <2>1. PICK cleared : mem' = [f \in Frames |-> [i \in Idx |->
                                IF <<f, i>> \in cleared THEN Invalid ELSE mem[f][i]]]
    BY Zenon DEF Unmap, UnmapSlots, Idx
  <2> QED
    BY <2>1, Zenon
<1>3. TableFrames \cup {Root} \subseteq Frames /\ Root \notin TableFrames
  BY PageTableAssumption
<1>4. LeafBits(mem', free')
  <2> SUFFICES ASSUME NEW f \in (TableFrames \cup {Root}) \ free', NEW i \in Idx,
                      is_valid(mem'[f][i]), is_leaf(mem'[f][i])
               PROVE  mem'[f][i].bits \ {"V"} \in Perms \ {{}}
    BY DEF LeafBits
  <2>1. f \in (TableFrames \cup {Root}) \ free /\ mem'[f][i] = mem[f][i]
    BY <1>1, <1>2, <1>3, Entries
  <2> QED
    BY <2>1 DEF TInv, LeafBits
<1>5. ASSUME ~mixed, NEW t \in TableFrames \ free' PROVE FALSE
  <2>1. ~Out(mem, t) /\ t # Root
    BY <1>1, <1>3, <1>5 DEF TInv, AllHang
  <2>2. t \in free'
    BY <1>1, <2>1, HangsInSlot
  <2> QED
    BY <2>2
<1>6. mixed' \/ AllHang(mem', free')
  BY <1>1, <1>5 DEF AllHang
<1> QED
  BY <1>4, <1>6, Zenon DEF TInv, LeafBits, AllHang, Out, is_valid, is_leaf, IsTablePointer, Idx

(* The calls that callers may make. *)
LEMMA CallTypes ==
  ASSUME NEW v \in Vaddrs, NEW p \in Ppages
  PROVE  v \in Vpages /\ p \in DataFrames /\ p \in Nat
<1>1. p \in p .. p /\ p \in Nat
  BY PageTableAssumption, Spans DEF Vpages
<1> QED
  BY <1>1, PageTableAssumption

LEMMA TInvNext == TInv /\ [Next]_vars => TInv'
<1> SUFFICES ASSUME TInv, [Next]_vars PROVE TInv'
  OBVIOUS
<1>0. SInv'
  BY SInvNext DEF TInv
<1>1. ASSUME NEW v \in Vaddrs, NEW p \in Ppages, NEW bits \in Perms, NEW level \in 0 .. 2,
             Map(v, p, bits, level)
      PROVE  TInv'
  <2>1. bits \in Perms \ {{}} /\ Becomes(map(Now, v, p, bits, level))
    BY <1>1 DEF Map
  <2>2. Good(mixed, map(Now, v, p, bits, level))
    BY <2>1, CallTypes, NowGood, MapGood
  <2> QED
    BY <1>0, <2>1, <2>2, BecomesGood
<1>2. ASSUME NEW start \in Ppages, NEW end \in Ppages, NEW bits \in Perms,
             start <= end, IdMapRange(start, end, bits)
      PROVE  TInv'
  <2>1. bits \in Perms \ {{}} /\ Becomes(id_map_range(Now, start, end, bits))
    BY <1>2 DEF IdMapRange
  <2>2. Good(mixed, id_map_range(Now, start, end, bits))
    BY <1>2, <2>1, NowGood, RangeGood
  <2> QED
    BY <1>0, <2>1, <2>2, BecomesGood
<1>3. ASSUME UNCHANGED <<mem, free, mixed>> PROVE TInv'
  <2>1. LeafBits(mem', free') /\ (mixed' \/ AllHang(mem', free'))
    BY <1>3 DEF TInv
  <2> QED
    BY <1>0, <2>1, Zenon DEF TInv, LeafBits, AllHang, Out, is_valid, is_leaf, IsTablePointer, Idx
<1>4. CASE Unmap
  BY <1>0, <1>4, UnmapGood
<1>5. CASE MapNoPermission
  BY <1>3, <1>5 DEF MapNoPermission
<1>6. CASE UNCHANGED vars
  BY <1>3, <1>6 DEF vars
<1> QED
  BY <1>1, <1>2, <1>4, <1>5, <1>6 DEF Next, Aborted

(* The tree holds every table allocated for it, so that unmap gives all of *)
(* them back, while leaves of different sizes were not mixed over the same *)
(* addresses.                                                              *)
THEOREM TablesFound == Spec => []NoTableLost
<1>1. TInv => NoTableLost
  <2> SUFFICES ASSUME TInv, ~mixed
               PROVE  TableFrames \ free = {Target(s) : s \in Level1Slots \cup Level0Slots}
    BY DEF NoTableLost
  <2>1. \A s \in Level1Slots \cup Level0Slots : Target(s) \in TableFrames \ free
    BY SlotsLive DEF TInv
  <2>2. ASSUME NEW t \in TableFrames \ free
        PROVE  \E s \in Level1Slots \cup Level0Slots : Target(s) = t
    <3>1. ~Out(mem, t) /\ t # Root
      BY PageTableAssumption DEF TInv, AllHang
    <3> QED
      BY <3>1, HangsInSlot
  <2> QED
    BY <2>1, <2>2
<1> QED
  BY <1>1, TInvInit, TInvNext, PTL DEF Spec

-----------------------------------------------------------------------------
(* The translations implement AddressSpace *)

Space == [v \in Vpages |-> v2p(v)]

(* Every step of the abstract specification that a call takes. *)
LEMMA SpaceReads ==
  ASSUME TInv, TInv'
  PROVE  \A v \in Vpages :
           /\ Space[v] = V2P(mem, v) /\ Space'[v] = V2P(mem', v)
           /\ Space'[v] \in Translations!Translation \cup {None}
<1>1. mem \in Memory
  BY Zenon DEF TInv, SInv, Sound
<1>2. \A v \in Vpages : v2p(v) = V2P(mem, v)
  BY <1>1, V2PUnrolled
<1>3. Sound(mem', free') /\ LeafBits(mem', free')
  BY Zenon DEF TInv, SInv, Sound, LeafBits, Memory, Entry, Idx, DataFrames, IsTablePointer, is_valid, is_leaf
<1>4. (mem \in Memory => \A v \in Vpages : v2p(v) = V2P(mem, v))'
  BY V2PUnrolled, PTL
<1>5. mem' \in Memory
  BY <1>3, Zenon DEF Sound
<1>6. \A v \in Vpages : v2p(v)' = V2P(mem', v)
  <2>1. (mem \in Memory)'
    BY <1>5, Zenon DEF Memory, Entry, Idx
  <2>2. \A v \in Vpages : v2p(v)' = V2P(mem, v)'
    BY <1>4, <2>1
  <2> QED
    BY <2>2, Zenon DEF V2P, E2, E1, E0
<1>7. \A v \in Vpages : V2P(mem', v) \in Translations!Translation \cup {None}
  BY <1>3, V2PType
<1> QED
  BY <1>2, <1>6, <1>7 DEF Space

(* A step that changes no translation. *)
LEMMA SpaceSame ==
  ASSUME TInv, TInv', \A v \in Vpages : V2P(mem', v) = V2P(mem, v)
  PROVE  Space' = Space
  BY SpaceReads DEF Space

LEMMA SpaceMap ==
  ASSUME TInv, TInv', NEW v \in Vpages, NEW p \in DataFrames, NEW bits \in Perms \ {{}}, NEW k \in 0 .. 2,
         ~Cov(mem, v, k),
         \A w \in Vpages :
           V2P(mem', w) = IF SameFrom(v, w, k) THEN LeafAt(LeafTo(p, bits), k, w) ELSE V2P(mem, w)
  PROVE  Translations!Map(v, p, bits, k)
<1>1. \A w \in Vpages : /\ Space[w] = V2P(mem, w) /\ Space'[w] = V2P(mem', w)
                        /\ Space'[w] \in Translations!Translation \cup {None}
  BY SpaceReads
<1>2. ASSUME NEW w \in Vpages
      PROVE  LeafAt(LeafTo(p, bits), k, w)
               = [page |-> Translations!PageIn(p, w, k), bits |-> bits, level |-> k]
  <2>1. /\ is_valid(LeafTo(p, bits)) /\ LeafTo(p, bits).ppn = p
        /\ LeafTo(p, bits).bits \ {"V"} = bits
    BY LeafEntry, Zenon
  <2>2. Translations!BlockSize(k) = Span(k)
    BY Spans DEF Translations!BlockSize
  <2>3. Translations!PageIn(p, w, k) = p - (p % Span(k)) + (w % Span(k))
    BY <2>2, Zenon DEF Translations!PageIn
  <2> QED
    BY <2>1, <2>3, Zenon DEF LeafAt
<1>3. ASSUME NEW w \in Vpages
      PROVE  Space'[w] = IF Translations!SameBlock(v, w, k)
                           THEN [page |-> Translations!PageIn(p, w, k), bits |-> bits, level |-> k]
                           ELSE Space[w]
  <2>1. Translations!SameBlock(v, w, k) <=> SameFrom(v, w, k)
    BY Blocks
  <2> QED
    BY <1>1, <1>2, <2>1, Zenon
<1>4. Space' \in [Vpages -> Translations!Translation \cup {None}]
  BY <1>1 DEF Space
<1>5. ~Translations!Covered(v, k)
  <2>1. ~(Space[v] # None /\ Space[v].level > k)
    BY <1>1 DEF Cov
  <2> QED
    BY <2>1, ZenonT(30) DEF Translations!Covered, Space
<1> QED
  BY <1>3, <1>4, <1>5, ZenonT(30) DEF Translations!Map, Translations!Becomes, Space

LEMMA SpaceIdMap ==
  ASSUME TInv, TInv', NEW start, NEW reached, NEW bits,
         \A w \in Vpages :
           V2P(mem', w) = IF w \in start .. reached - 1 /\ ~Cov(mem, w, 0)
                            THEN [page |-> w, bits |-> bits, level |-> 0] ELSE V2P(mem, w)
  PROVE  Translations!IdMap(start, reached, bits)
<1>1. \A w \in Vpages : /\ Space[w] = V2P(mem, w) /\ Space'[w] = V2P(mem', w)
                        /\ Space'[w] \in Translations!Translation \cup {None}
  BY SpaceReads
<1>2. \A w \in Vpages : Translations!Covered(w, 0) <=> Cov(mem, w, 0)
  <2>1. \A w \in Vpages : Cov(mem, w, 0) <=> Space[w] # None /\ Space[w].level > 0
    BY <1>1, Zenon DEF Cov
  <2> QED
    BY <2>1, Zenon DEF Translations!Covered, Space
<1>3. \A w \in Vpages :
        Space'[w] = IF w \in start .. reached - 1 /\ ~Translations!Covered(w, 0)
                      THEN [page |-> w, bits |-> bits, level |-> 0] ELSE Space[w]
  BY <1>1, <1>2, Zenon
<1>4. Space' \in [Vpages -> Translations!Translation \cup {None}]
  BY <1>1 DEF Space
<1> QED
  BY <1>3, <1>4, Zenon DEF Translations!IdMap, Translations!Becomes, Space

(* unmap clears what leads out of the root table, and keeps its leaves. *)
LEMMA SpaceUnmap ==
  ASSUME TInv, TInv', Unmap
  PROVE  Translations!Unmap
<1>1. \A w \in Vpages : /\ Space[w] = V2P(mem, w) /\ Space'[w] = V2P(mem', w)
                        /\ Space'[w] \in Translations!Translation \cup {None}
  BY SpaceReads
<1>2. Sound(mem, free) /\ LeafBits(mem, free)
  BY DEF TInv, SInv
<1>3. \A i \in Idx : mem'[Root][i] = IF IsTablePointer(mem[Root][i]) THEN Invalid ELSE mem[Root][i]
  <2> SUFFICES ASSUME NEW i \in Idx
               PROVE  mem'[Root][i] = IF IsTablePointer(mem[Root][i]) THEN Invalid ELSE mem[Root][i]
    OBVIOUS
  <2>1. Root \in Frames
    BY PageTableAssumption
  <2>2. mem'[Root][i] = IF <<Root, i>> \in Level1Slots \cup Level0Slots THEN Invalid ELSE mem[Root][i]
    BY <2>1 DEF Unmap, UnmapSlots, Idx
  <2>3. IsTablePointer(mem[Root][i]) => <<Root, i>> \in Level1Slots
    BY DEF Level1Slots, PointersIn, Idx
  <2>4. ASSUME <<Root, i>> \in Level1Slots \cup Level0Slots PROVE IsTablePointer(mem[Root][i])
    <3>1. PICK s \in Level1Slots \cup Level0Slots : s = <<Root, i>>
      BY <2>4
    <3>2. IsTablePointer(mem[s[1]][s[2]])
      BY SlotsLive DEF TInv
    <3> QED
      BY <3>1, <3>2
  <2> QED
    BY <2>2, <2>3, <2>4
<1>4. ASSUME NEW w \in Vpages
      PROVE  Space'[w] = IF Space[w] # None /\ Space[w].level = 2 THEN Space[w] ELSE None
  <2>1. vpn(w, 2) \in Idx /\ E2(mem, w) = mem[Root][vpn(w, 2)] /\ 2 \in 0 .. 2
        /\ E2(mem', w) = mem'[Root][vpn(w, 2)]
    BY VpnType DEF E2
  <2>2. CASE IsTablePointer(E2(mem, w))
    <3>1. E2(mem', w) = Invalid
      BY <1>3, <2>1, <2>2
    <3>2. V2P(mem', w) = None
      BY <3>1, Entries, Zenon DEF V2P, LeafAt
    <3>3. ~(V2P(mem, w) # None /\ V2P(mem, w).level = 2)
      <4>1. OnPath(mem, w, 1, E2(mem, w).ppn) /\ 1 \in 0 .. 2
        BY <2>2 DEF OnPath
      <4>2. ~Cov(mem, w, 1)
        BY <1>2, <4>1, PathUncovered
      <4> QED
        BY <4>2 DEF Cov
    <3> QED
      BY <1>1, <3>2, <3>3
  <2>3. CASE ~IsTablePointer(E2(mem, w))
    <3>1. E2(mem', w) = E2(mem, w)
      BY <1>3, <2>1, <2>3
    <3>2. V2P(mem', w) = V2P(mem, w)
      BY <2>3, <3>1, SMTT(20) DEF V2P
    <3>3. OnPath(mem, w, 2, Root) /\ ~IsTablePointer(mem[Root][vpn(w, 2)])
      BY <2>1, <2>3 DEF OnPath
    <3>4. V2P(mem, w) # None => V2P(mem, w).level = 2
      BY <1>2, <2>1, <3>3, LeafFound
    <3> QED
      BY <1>1, <3>2, <3>4
  <2> QED
    BY <2>2, <2>3
<1>5. Space' \in [Vpages -> Translations!Translation \cup {None}]
  BY <1>1 DEF Space
<1> QED
  BY <1>4, <1>5, Zenon DEF Translations!Unmap, Translations!Becomes, Space

(* Nothing is mapped at first. *)
LEMMA SpaceInit == Init => Translations!Init
<1> SUFFICES ASSUME Init PROVE Space = [v \in Vpages |-> None]
  BY Zenon DEF Translations!Init, Space
<1>1. mem \in Memory /\ Root \in Frames \ Ppages
  <2>1. mem \in Memory
    BY SInvInit DEF SInv, Sound
  <2>2. Root \notin Ppages
    <3> SUFFICES ASSUME Root \in Ppages PROVE FALSE
      OBVIOUS
    <3>1. Root \in Root .. Root
      BY PageTableAssumption
    <3>2. Root \in DataFrames
      BY <3>1, PageTableAssumption
    <3> QED
      BY <3>2 DEF DataFrames
  <2> QED
    BY <2>1, <2>2, PageTableAssumption
<1>2. \A i \in Idx : mem[Root][i] = Invalid
  <2>1. PICK word : mem = [f \in Frames |-> [i \in Idx |-> IF f \in Ppages THEN word ELSE Invalid]]
    BY DEF Init, Idx
  <2> QED
    BY <1>1, <2>1
<1>3. ASSUME NEW v \in Vpages PROVE v2p(v) = None
  <2>1. E2(mem, v) = Invalid
    BY <1>2, VpnType DEF E2
  <2>2. V2P(mem, v) = None
    BY <2>1, Entries, Zenon DEF V2P, LeafAt
  <2> QED
    BY <1>1, <2>2, V2PUnrolled
<1> QED
  BY <1>3 DEF Space

LEMMA SpaceNext ==
  ASSUME TInv, TInv', [Next]_vars
  PROVE  [Translations!Next]_Space
<1>1. ASSUME NEW v \in Vaddrs, NEW p \in Ppages, NEW bits \in Perms, NEW level \in 0 .. 2,
             Map(v, p, bits, level)
      PROVE  [Translations!Next]_Space
  <2>1. PICK d : d = map(Now, v, p, bits, level)
    OBVIOUS
  <2>2. bits \in Perms \ {{}} /\ mem' = d.mem
    BY <1>1, <2>1, Zenon DEF Map, Becomes
  <2>3. v \in Vpages /\ p \in DataFrames /\ Now.mem = mem
    BY CallTypes DEF Now
  <2>4. \A w \in Vpages :
          V2P(mem', w) = IF d.ok /\ ~Cov(mem, v, level) /\ SameFrom(v, w, level)
                           THEN LeafAt(LeafTo(p, bits), level, w) ELSE V2P(mem, w)
    <3>1. Good(mixed, Now)
      BY NowGood
    <3>2. \A w \in Vpages :
            V2P(d.mem, w) = IF d.ok /\ ~Cov(Now.mem, v, level) /\ SameFrom(v, w, level)
                              THEN LeafAt(LeafTo(p, bits), level, w) ELSE V2P(Now.mem, w)
      BY <2>1, <2>2, <2>3, <3>1, MapGood
    <3> QED
      BY <2>2, <2>3, <3>2, Zenon
  <2>5. CASE d.ok /\ ~Cov(mem, v, level)
    <3>1. Translations!Map(v, p, bits, level)
      BY <2>2, <2>3, <2>4, <2>5, SpaceMap, Zenon
    <3> QED
      BY <2>2, <3>1, Zenon DEF Translations!Next
  <2>6. CASE ~(d.ok /\ ~Cov(mem, v, level))
    <3>1. Space' = Space
      BY <2>4, <2>6, SpaceSame
    <3> QED
      BY <3>1
  <2> QED
    BY <2>5, <2>6
<1>2. ASSUME NEW start \in Ppages, NEW end \in Ppages, NEW bits \in Perms,
             start <= end, IdMapRange(start, end, bits)
      PROVE  [Translations!Next]_Space
  <2>1. PICK d : d = id_map_range(Now, start, end, bits)
    OBVIOUS
  <2>2. bits \in Perms \ {{}} /\ mem' = d.mem /\ Now.mem = mem
    BY <1>2, <2>1, Zenon DEF IdMapRange, Becomes, Now
  <2>3. PICK reached \in start .. end : Mapped(Now.mem, d, start, reached, bits)
    BY <1>2, <2>1, <2>2, NowGood, RangeGood, SMTT(20)
  <2>4. \A w \in Vpages :
          V2P(mem', w) = IF w \in start .. reached - 1 /\ ~Cov(mem, w, 0)
                           THEN [page |-> w, bits |-> bits, level |-> 0] ELSE V2P(mem, w)
    BY <2>2, <2>3 DEF Mapped
  <2>5. Translations!IdMap(start, reached, bits)
    BY <2>4, SpaceIdMap
  <2> QED
    BY <2>2, <2>3, <2>5, Zenon DEF Translations!Next
<1>3. ASSUME mem' = mem PROVE [Translations!Next]_Space
  <2>1. Space' = Space
    BY <1>3, SpaceSame
  <2> QED
    BY <2>1
<1>4. CASE Unmap
  <2>1. Translations!Unmap
    BY <1>4, SpaceUnmap
  <2> QED
    BY <2>1, Zenon DEF Translations!Next
<1>5. CASE MapNoPermission
  BY <1>3, <1>5 DEF MapNoPermission
<1>6. CASE UNCHANGED vars
  BY <1>3, <1>6 DEF vars
<1> QED
  BY <1>1, <1>2, <1>4, <1>5, <1>6 DEF Next, Aborted

(* map, id_map_range and unmap do to the translations that v2p finds what  *)
(* AddressSpace says, for tables of any width, at every level, after any   *)
(* earlier calls, and when pages run out in the middle of a call.          *)
THEOREM TranslationsRefine == Spec => TranslationSpec
<1>1. Init => Translations!Init
  BY SpaceInit
<1>2. TInv /\ TInv' /\ [Next]_vars => [Translations!Next]_Space
  BY SpaceNext
<1>3. Spec => Translations!Init /\ [][Translations!Next]_Space
  BY <1>1, <1>2, TInvInit, TInvNext, PTL DEF Spec
<1> QED
  BY <1>3, PTL DEF TranslationSpec, Translations!Spec, Space
=============================================================================

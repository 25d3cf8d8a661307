--------------------------- MODULE ThreadsProofs ---------------------------
(***************************************************************************)
(* The process table, its scheduler and the threads on the hart, for any   *)
(* number of slots, registers and PCs and any amount of memory that holds  *)
(* fewer stacks than there are PIDs.                                       *)
(*                                                                         *)
(* The table's invariant (IInv) counts: PIDs against stacks, and for each  *)
(* pair of processes the switches against the scan order and the exits.    *)
(*                                                                         *)
(* The hart's (HInv) says where the vector will save next (FrameOfCurrent) *)
(* and what holds between the save and the restore.  The refinement of     *)
(* VirtualCpus then goes action by action, comparing the context of each   *)
(* thread before and after.                                                *)
(***************************************************************************)
EXTENDS Threads, TLAPS

(* Every PID has cost a stack, and no stack comes back. *)
PidsCounted ==
  /\ NEXT_PID = stacks + 1
  /\ \A i \in Slots : slots[i] # None => slots[i].pid \in 1 .. stacks

(* The scan order counts: a process that is scanned before p since q last  *)
(* ran has one switch in hand over it.                                     *)
Credit(q, p) == IF current # None /\ Offset(current, q) < Offset(current, p) THEN 1 ELSE 0

BypassCounted ==
  \A q, p \in Slots : /\ bypass[q][p] <= exits[q] + Credit(q, p)
                      /\ slots[p] = None => bypass[q][p] = 0
                      /\ slots[q] = None => bypass[q][p] = 0
                      /\ current \in {None, q} => bypass[q][p] = 0

IInv == TypeOK /\ PidsUnique /\ PidsCounted /\ BypassCounted

-----------------------------------------------------------------------------
(* What the modulus of schedule's `(start + offset) % n' returns. *)
LEMMA ModFacts ==
  ASSUME NEW n \in Nat \ {0}, NEW x \in 0 .. n - 1
  PROVE  /\ x % n = x
         /\ (x + n) % n = x
  OBVIOUS

(* The loop of schedule visits the slots in cyclic order after `cur'. *)
LEMMA OffsetOrder ==
  ASSUME NEW c \in Slots, NEW i \in Slots
  PROVE  Offset(c, i) = IF i > c THEN i - c - 1 ELSE i - c - 1 + MAX_PROCESSES
  <1> USE TableAssumption DEF Slots
  <1>1. CASE c = MAX_PROCESSES - 1
    <2>1. Start(c) = 0
      BY <1>1 DEF Start
    <2> QED  BY <1>1, <2>1, ModFacts DEF Offset
  <1>2. CASE c # MAX_PROCESSES - 1
    <2>0. c + 1 \in 0 .. MAX_PROCESSES - 1 /\ c # None
      BY <1>2
    <2>1. Start(c) = c + 1
      <3>1. (c + 1) % MAX_PROCESSES = c + 1
        BY <2>0, ModFacts
      <3> QED  BY <2>0, <3>1, Zenon DEF Start
    <2>2. CASE i > c
      <3>1. i - c - 1 \in 0 .. MAX_PROCESSES - 1  BY <2>2
      <3>2. Offset(c, i) = ((i - c - 1) + MAX_PROCESSES) % MAX_PROCESSES
        BY <2>1 DEF Offset
      <3> QED  BY <2>2, <3>1, <3>2, ModFacts, Zenon
    <2>3. CASE ~(i > c)
      <3>1. i - c - 1 + MAX_PROCESSES \in 0 .. MAX_PROCESSES - 1  BY <2>3
      <3>2. Offset(c, i) = (i - c - 1 + MAX_PROCESSES) % MAX_PROCESSES
        BY <2>1 DEF Offset
      <3> QED  BY <2>3, <3>1, <3>2, ModFacts, Zenon
    <2> QED  BY <2>2, <2>3
  <1> QED  BY <1>1, <1>2

(* Moving the scan's start to the slot it picked keeps the order of the    *)
(* slots behind that one, and makes that one the last.                     *)
LEMMA OffsetShift ==
  ASSUME NEW c \in Slots, NEW i \in Slots, NEW q \in Slots, NEW p \in Slots
  PROVE  /\ Offset(c, i) = Offset(c, q) => i = q
         /\ q # i => Offset(i, q) < Offset(i, i)
         /\ Offset(c, i) < Offset(c, q) /\ Offset(c, i) < Offset(c, p) =>
              (Offset(i, q) < Offset(i, p) <=> Offset(c, q) < Offset(c, p))
         /\ Offset(c, i) \in Nat
  <1> DEFINE Dist(a, b) == IF b > a THEN b - a - 1 ELSE b - a - 1 + MAX_PROCESSES
  <1>1. /\ Offset(c, i) = Dist(c, i) /\ Offset(c, q) = Dist(c, q)
        /\ Offset(c, p) = Dist(c, p) /\ Offset(i, q) = Dist(i, q)
        /\ Offset(i, p) = Dist(i, p) /\ Offset(i, i) = Dist(i, i)
    BY OffsetOrder
  <1>2. /\ c \in Int /\ i \in Int /\ q \in Int /\ p \in Int /\ MAX_PROCESSES \in Int
        /\ 0 <= c /\ c < MAX_PROCESSES /\ 0 <= i /\ i < MAX_PROCESSES
        /\ 0 <= q /\ q < MAX_PROCESSES /\ 0 <= p /\ p < MAX_PROCESSES
    BY TableAssumption DEF Slots
  <1> QED  BY <1>1, <1>2

-----------------------------------------------------------------------------
(* The empty table that the kernel starts with satisfies the invariant. *)
LEMMA InitIInv == Init => IInv
  <1> SUFFICES ASSUME Init PROVE IInv
    OBVIOUS
  <1> USE TableAssumption DEF Init
  <1>1. TypeOK
    <2>1. bypass \in [Slots -> [Slots -> Nat]] /\ exits \in [Slots -> Nat]
      OBVIOUS
    <2>2. 1 \in 0 .. PidMod - 1 /\ 0 \in 0 .. MaxStacks
      OBVIOUS
    <2> QED  BY <2>1, <2>2, Zenon DEF TypeOK
  <1>2. PidsUnique /\ PidsCounted
    BY DEF PidsUnique, PidsCounted
  <1>3. BypassCounted
    BY DEF BypassCounted, Credit
  <1> QED  BY <1>1, <1>2, <1>3 DEF IInv

(* A switch to the slot that schedule picked keeps the books on bypasses.  *)
LEMMA SwitchBypass ==
  ASSUME TypeOK, NEW t, NEW i \in Slots, NEW b \in [Slots -> [Slots -> Nat]],
         NEW x \in [Slots -> Nat],
         slots' = t, current' = i, t[i] # None, Switch(t, i, b, x),
         \A q \in Slots \ {i}, p \in Slots \ {i} : t[q] # None /\ t[p] # None =>
            /\ b[q][i] <= x[q]
            /\ b[q][p] <= x[q] + (IF Offset(i, q) < Offset(i, p) THEN 1 ELSE 0)
  PROVE  BypassCounted' /\ bypass' \in [Slots -> [Slots -> Nat]] /\ exits' \in [Slots -> Nat]
  <1> USE TableAssumption
  <1>1. bypass' \in [Slots -> [Slots -> Nat]] /\ exits' \in [Slots -> Nat]
    BY DEF Switch
  <1>2. i # None
    OBVIOUS
  <1>3. ASSUME NEW q \in Slots, NEW p \in Slots
        PROVE  /\ bypass'[q][p] <= exits'[q] + Credit(q, p)'
               /\ t[p] = None => bypass'[q][p] = 0
               /\ t[q] = None \/ q = i => bypass'[q][p] = 0
    <2>1. /\ bypass'[q][p] = IF q = i \/ t[q] = None \/ t[p] = None THEN 0
                             ELSE IF p = i THEN b[q][p] + 1 ELSE b[q][p]
          /\ exits'[q] = IF q = i \/ t[q] = None THEN 0 ELSE x[q]
      BY DEF Switch
    <2>2. Credit(q, p)' = IF Offset(i, q) < Offset(i, p) THEN 1 ELSE 0
      BY <1>2 DEF Credit, Offset, Start
    <2>3. CASE q = i \/ t[q] = None \/ t[p] = None
      BY <1>1, <2>1, <2>2, <2>3
    <2>4. CASE q # i /\ t[q] # None /\ t[p] # None /\ p = i
      <3>1. Offset(i, q) < Offset(i, p)  BY <2>4, OffsetShift
      <3>2. b[q][i] <= x[q]  BY <2>4
      <3>3. b[q][i] \in Nat /\ x[q] \in Nat  OBVIOUS
      <3> QED  BY <2>1, <2>2, <2>4, <3>1, <3>2, <3>3
    <2>5. CASE q # i /\ t[q] # None /\ t[p] # None /\ p # i
      BY <2>1, <2>2, <2>5
    <2> QED  BY <2>3, <2>4, <2>5
  <1> QED  BY <1>1, <1>2, <1>3 DEF BypassCounted

(* A timer tick picks the next slot in cyclic order. *)
LEMMA TickIInv ==
  ASSUME IInv, NEW epc \in PCs, Tick(epc)
  PROVE  IInv'
  <1> USE TableAssumption
  <1> DEFINE t == Stash(slots, current, epc)
  <1>1. /\ t \in [Slots -> Proc \cup {None}]
        /\ \A k \in Slots : t[k] = None <=> slots[k] = None
        /\ \A k \in Slots : t[k] # None => t[k].pid = slots[k].pid
    <2>1. CASE current # None /\ slots[current] # None
      <3>1. t = [slots EXCEPT ![current].pc = epc] /\ current \in Slots
            /\ slots[current] \in Proc
        BY <2>1 DEF Stash, IInv, TypeOK
      <3>2. [slots[current] EXCEPT !.pc = epc] \in Proc
            /\ [slots[current] EXCEPT !.pc = epc].pid = slots[current].pid
        BY <3>1 DEF Proc
      <3> DEFINE p == [slots[current] EXCEPT !.pc = epc]
      <3>3. slots \in [Slots -> Proc \cup {None}]
        BY DEF IInv, TypeOK
      <3>4. t = [slots EXCEPT ![current] = p] /\ p \in Proc /\ p.pid = slots[current].pid
        BY <3>1, <3>2
      <3> HIDE DEF t, p
      <3>5. t \in [Slots -> Proc \cup {None}] /\ t[current] = p
            /\ \A k \in Slots \ {current} : t[k] = slots[k]
        BY <3>1, <3>3, <3>4
      <3>6. p # None  BY <3>4
      <3> QED  BY <2>1, <3>1, <3>4, <3>5, <3>6
    <2>2. CASE ~(current # None /\ slots[current] # None)
      BY <2>2 DEF Stash, IInv, TypeOK
    <2> QED  BY <2>1, <2>2
  <1>2. slots' = t /\ UNCHANGED <<NEXT_PID, stacks, parked>>
    BY DEF Tick
  <1>3. ASSUME NEW i \in Slots, IsNext(t, current, i), current' = i,
               Switch(t, i, bypass, exits)
        PROVE  current' \in Slots /\ slots'[current'] # None /\ BypassCounted'
               /\ bypass' \in [Slots -> [Slots -> Nat]] /\ exits' \in [Slots -> Nat]
    <2>1. t[i] # None  BY <1>3 DEF IsNext
    <2>2. ASSUME NEW q \in Slots \ {i}, NEW p \in Slots \ {i}, t[q] # None, t[p] # None
          PROVE  /\ bypass[q][i] <= exits[q]
                 /\ bypass[q][p] <= exits[q] + (IF Offset(i, q) < Offset(i, p) THEN 1 ELSE 0)
      <3>1. bypass[q][i] \in Nat /\ bypass[q][p] \in Nat /\ exits[q] \in Nat
        BY DEF IInv, TypeOK
      <3>2. CASE current = None
        BY <3>1, <3>2 DEF IInv, BypassCounted
      <3>3. CASE current # None
        <4>1. current \in Slots  BY <3>3 DEF IInv, TypeOK
        <4>2. Offset(current, i) < Offset(current, q) /\ Offset(current, i) < Offset(current, p)
          BY <1>3, <2>2, <4>1, OffsetShift DEF IsNext
        <4>3. ~(Offset(current, q) < Offset(current, i))
          BY <4>1, <4>2, OffsetShift
        <4>4. Offset(i, q) < Offset(i, p) <=> Offset(current, q) < Offset(current, p)
          BY <4>1, <4>2, OffsetShift
        <4>5. bypass[q][i] <= exits[q] + Credit(q, i) /\ bypass[q][p] <= exits[q] + Credit(q, p)
          BY DEF IInv, BypassCounted
        <4> QED  BY <3>1, <3>3, <4>3, <4>4, <4>5 DEF Credit
      <3> QED  BY <3>2, <3>3
    <2> HIDE DEF t
    <2>3. TypeOK /\ bypass \in [Slots -> [Slots -> Nat]] /\ exits \in [Slots -> Nat]
      BY DEF IInv, TypeOK
    <2>4. BypassCounted' /\ bypass' \in [Slots -> [Slots -> Nat]] /\ exits' \in [Slots -> Nat]
      BY <1>2, <1>3, <2>1, <2>2, <2>3, SwitchBypass, Zenon
    <2> QED  BY <1>2, <1>3, <2>1, <2>4
  <1>4. ASSUME Empty(t), current' = None, UNCHANGED <<bypass, exits>>
        PROVE  BypassCounted'
    BY <1>1, <1>2, <1>4 DEF Empty, BypassCounted, Credit, IInv, TypeOK
  <1> HIDE DEF t
  <1>5. BypassCounted' /\ TypeOK'
    <2>1. CASE \E i \in Slots : IsNext(t, current, i) /\ current' = i
                               /\ Switch(t, i, bypass, exits)
      BY <1>1, <1>2, <1>3, <2>1 DEF IInv, TypeOK
    <2>2. CASE Empty(t) /\ current' = None /\ UNCHANGED <<bypass, exits>>
      BY <1>1, <1>2, <1>4, <2>2 DEF IInv, TypeOK
    <2> QED  BY <2>1, <2>2 DEF Tick, t
  <1>6. PidsUnique' /\ PidsCounted'
    BY <1>1, <1>2 DEF IInv, PidsUnique, PidsCounted
  <1> QED  BY <1>5, <1>6 DEF IInv

(* An exit counts as one for everyone who waits, which pays for the scan's *)
(* return to slot 0.                                                       *)
LEMMA ExitIInv ==
  ASSUME IInv, Exit
  PROVE  IInv'
  <1> USE TableAssumption
  <1> DEFINE t == [slots EXCEPT ![current] = None]
             x == [q \in Slots |-> exits[q] + 1]
  <1>1. current \in Slots /\ slots' = t /\ UNCHANGED <<NEXT_PID, stacks>>
    BY DEF Exit, IInv, TypeOK
  <1>2. /\ t \in [Slots -> Proc \cup {None}]
        /\ \A k \in Slots : t[k] # None => k # current /\ t[k] = slots[k]
    BY <1>1 DEF IInv, TypeOK
  <1>3. x \in [Slots -> Nat] /\ bypass \in [Slots -> [Slots -> Nat]]
    BY DEF IInv, TypeOK
  <1>4. \A q, p \in Slots : bypass[q][p] <= x[q] /\ bypass[q][p] \in Nat /\ x[q] \in Nat
    <2> SUFFICES ASSUME NEW q \in Slots, NEW p \in Slots
                 PROVE  bypass[q][p] <= x[q] /\ bypass[q][p] \in Nat /\ x[q] \in Nat
      OBVIOUS
    <2>1. bypass[q][p] <= exits[q] + Credit(q, p) /\ exits[q] \in Nat
      BY DEF IInv, BypassCounted, TypeOK
    <2>2. Credit(q, p) \in {0, 1}
      BY DEF Credit
    <2> QED  BY <1>3, <2>1, <2>2
  <1>5. CASE ExitToNext(t)
    <2>1. PICK i \in Slots : IsNext(t, None, i) /\ current' = i /\ Switch(t, i, bypass, x)
      BY <1>5, Zenon DEF ExitToNext
    <2>2. t[i] # None /\ TypeOK
      BY <2>1 DEF IsNext, IInv
    <2> HIDE DEF t, x
    <2>3. BypassCounted' /\ bypass' \in [Slots -> [Slots -> Nat]] /\ exits' \in [Slots -> Nat]
      <3>1. \A q \in Slots \ {i}, p \in Slots \ {i} : t[q] # None /\ t[p] # None =>
               /\ bypass[q][i] <= x[q]
               /\ bypass[q][p] <= x[q] + (IF Offset(i, q) < Offset(i, p) THEN 1 ELSE 0)
        BY <1>4
      <3> QED  BY <1>1, <1>3, <2>1, <2>2, <3>1, SwitchBypass, Zenon
    <2>4. TypeOK'
      BY <1>1, <1>2, <1>5, <2>1, <2>2, <2>3 DEF IInv, TypeOK, ExitToNext
    <2>5. PidsUnique' /\ PidsCounted'
      <3>1. \A k \in Slots : slots'[k] # None => slots[k] # None /\ slots'[k] = slots[k]
        BY <1>1, <1>2, Zenon
      <3> QED  BY <1>1, <3>1 DEF IInv, PidsUnique, PidsCounted
    <2> QED  BY <2>3, <2>4, <2>5 DEF IInv
  <1>6. CASE ExitLast(t)
    <2> HIDE DEF t, x
    <2>1. \A k \in Slots : slots'[k] = None
      BY <1>1, <1>6 DEF ExitLast, Empty
    <2>2. \A q, p \in Slots : bypass[q][p] = 0
      <3> SUFFICES ASSUME NEW q \in Slots, NEW p \in Slots PROVE bypass[q][p] = 0
        OBVIOUS
      <3>1. CASE slots[q] = None \/ slots[p] = None
        BY <3>1 DEF IInv, BypassCounted
      <3>2. CASE slots[q] # None /\ slots[p] # None
        <4>0. \A k \in Slots \ {current} : slots'[k] = slots[k]
          BY <1>1 DEF t, IInv, TypeOK
        <4>1. q = current /\ p = current
          BY <2>1, <3>2, <4>0
        <4> QED  BY <4>1 DEF IInv, BypassCounted
      <3> QED  BY <3>1, <3>2
    <2>3. TypeOK'
      BY <1>1, <1>2, <1>6 DEF IInv, TypeOK, ExitLast
    <2>4. BypassCounted'
      BY <1>4, <1>6, <2>1, <2>2 DEF ExitLast, BypassCounted, Credit, IInv, TypeOK
    <2> QED
      BY <1>1, <2>1, <2>3, <2>4 DEF IInv, PidsUnique, PidsCounted
  <1> QED  BY <1>5, <1>6 DEF Exit

(* A spawn pays for its PID with a stack, so NEXT_PID does not wrap. *)
LEMMA SpawnIInv ==
  ASSUME IInv, (\E entry \in PCs : SpawnKernel(entry)) \/ SpawnTableFull
  PROVE  IInv' /\ NEXT_PID' = NEXT_PID + 1
  <1> USE TableAssumption
  <1>1. stacks < MaxStacks /\ TakeStackAndPid /\ UNCHANGED <<current, parked, bypass, exits>>
    BY DEF SpawnKernel, SpawnTableFull
  <1>2. NEXT_PID = stacks + 1 /\ stacks \in Nat /\ stacks' = stacks + 1
    BY <1>1 DEF IInv, PidsCounted, TypeOK, TakeStackAndPid
  <1>3. NEXT_PID' = NEXT_PID + 1 /\ NEXT_PID + 1 \in 0 .. PidMod - 1
    <2>1. NEXT_PID + 1 \in 0 .. PidMod - 1  BY <1>1, <1>2
    <2> QED  BY <1>1, <2>1, ModFacts DEF TakeStackAndPid
  <1>4. CASE SpawnTableFull
    <2>1. UNCHANGED slots  BY <1>4 DEF SpawnTableFull
    <2>2. TypeOK'  BY <1>1, <1>2, <1>3, <2>1 DEF IInv, TypeOK
    <2>3. PidsUnique' /\ PidsCounted'
      BY <1>2, <1>3, <2>1 DEF IInv, PidsUnique, PidsCounted
    <2>4. BypassCounted'
      BY <1>1, <2>1 DEF IInv, BypassCounted, Credit
    <2> QED  BY <1>3, <2>2, <2>3, <2>4 DEF IInv
  <1>5. ASSUME NEW entry \in PCs, SpawnKernel(entry)
        PROVE  IInv'
    <2> DEFINE new == [pid |-> NEXT_PID, pc |-> entry]
    <2>1. PICK s \in Slots : slots[s] = None /\ slots' = [slots EXCEPT ![s] = new]
      BY <1>5, Zenon DEF SpawnKernel, FirstFree
    <2>2. new \in Proc /\ new # None /\ new.pid = stacks + 1
      BY <1>2, <1>3 DEF IInv, TypeOK, Proc
    <2> HIDE DEF new
    <2>3. TypeOK'
      BY <1>1, <1>2, <1>3, <2>1, <2>2 DEF IInv, TypeOK
    <2>4. slots'[s] = new /\ \A k \in Slots \ {s} : slots'[k] = slots[k]
      BY <2>1 DEF IInv, TypeOK
    <2>5. PidsCounted'
      BY <1>2, <1>3, <2>2, <2>4 DEF IInv, PidsCounted
    <2>6. PidsUnique'
      <3>1. \A k \in Slots \ {s} : slots[k] # None => slots[k].pid # stacks + 1
        BY <1>2 DEF IInv, PidsCounted
      <3>2. stacks + 1 # 0  BY <1>2
      <3> QED  BY <2>2, <2>4, <3>1, <3>2 DEF IInv, PidsUnique
    <2>7. BypassCounted'
      BY <1>1, <2>1, <2>4 DEF IInv, BypassCounted, Credit
    <2> QED  BY <2>3, <2>5, <2>6, <2>7 DEF IInv
  <1> QED  BY <1>3, <1>4, <1>5

(* Every tick, exit and spawn preserves the invariant. *)
LEMMA NextIInv == IInv /\ [Next]_vars => IInv'
  <1> SUFFICES ASSUME IInv, [Next]_vars PROVE IInv'
    OBVIOUS
  <1>1. CASE Timer  BY <1>1, TickIInv DEF Timer
  <1>2. CASE Exit  BY <1>2, ExitIInv
  <1>3. CASE (\E entry \in PCs : SpawnKernel(entry)) \/ SpawnTableFull
    BY <1>3, SpawnIInv
  <1>4. CASE UNCHANGED vars
    BY <1>4 DEF vars, IInv, TypeOK, PidsUnique, PidsCounted, BypassCounted, Credit
  <1> QED  BY <1>1, <1>2, <1>3, <1>4 DEF Next, SpawnOutOfMemory, Parked

-----------------------------------------------------------------------------
(* For every table and every memory with fewer stacks than PIDs: live PIDs *)
(* are distinct and not 0, and a waiting process is overtaken by another   *)
(* at most once more than the exits that happen meanwhile (spawn_kernel,   *)
(* schedule, exit_current).                                                *)
THEOREM TableSafety == Spec => [](TypeOK /\ PidsUnique /\ BypassBounded)
  <1>1. IInv => BypassBounded
    <2> SUFFICES ASSUME IInv, NEW q \in Slots, NEW p \in Slots
                 PROVE  bypass[q][p] <= 1 + exits[q]
      BY DEF BypassBounded
    <2>1. bypass[q][p] <= exits[q] + Credit(q, p) /\ exits[q] \in Nat /\ bypass[q][p] \in Nat
      BY DEF IInv, BypassCounted, TypeOK
    <2>2. Credit(q, p) \in {0, 1}  BY DEF Credit
    <2> QED  BY <2>1, <2>2
  <1>2. IInv => TypeOK /\ PidsUnique /\ BypassBounded
    BY <1>1 DEF IInv
  <1> QED  BY InitIInv, NextIInv, <1>2, PTL DEF Spec

(* The 16-bit PID counter never wraps: memory runs out first, because a    *)
(* stack is never given back.                                              *)
THEOREM PidsNeverWrap == Spec => PidsMonotonic
  <1>1. IInv /\ [Next]_vars => [NEXT_PID' >= NEXT_PID]_vars
    <2> SUFFICES ASSUME IInv, Next PROVE NEXT_PID' >= NEXT_PID
      OBVIOUS
    <2>1. NEXT_PID \in Nat
      BY TableAssumption DEF IInv, TypeOK
    <2>2. NEXT_PID' = NEXT_PID \/ NEXT_PID' = NEXT_PID + 1
      BY SpawnIInv DEF Next, Timer, Tick, Exit, SpawnOutOfMemory, Parked, vars
    <2> QED  BY <2>1, <2>2
  <1> QED  BY InitIInv, NextIInv, <1>1, PTL DEF Spec, PidsMonotonic

(* The current index never names an empty slot, whatever schedule and      *)
(* exit_current do, and NEXT_PID stays 16 bits wide, for every table.      *)
COROLLARY ProcessTypes == Spec => []TypeOK
  BY TableSafety, PTL

(* Live processes have different PIDs, none of them 0 (spawn_kernel). *)
COROLLARY PidsAreUnique == Spec => []PidsUnique
  BY TableSafety, PTL

-----------------------------------------------------------------------------
(* The threads on the hart *)

(* Inside a trap, between the vector's save and m_trap's return. *)
InTrap ==
  /\ mode = "enter" /\ cause \in {"ecall", "fault"} => mepc + 1 \in PCs
  /\ mode = "enter" /\ cause \in {"ecall", "exit"} => current # None
  /\ parked => mode = "halt"

HInv == HartTypeOK /\ NEXT_PID = stacks + 1 /\ FrameOfCurrent /\ InTrap

-----------------------------------------------------------------------------
(* The table's operations on types *)

(* The history that a switch writes has its type. *)
LEMMA SwitchTypes ==
  ASSUME NEW t, NEW i \in Slots, NEW b \in [Slots -> [Slots -> Nat]], NEW x \in [Slots -> Nat],
         Switch(t, i, b, x)
  PROVE  bypass' \in [Slots -> [Slots -> Nat]] /\ exits' \in [Slots -> Nat]
  BY DEF Switch

(* schedule: the PC of the interrupted process goes into its slot, and     *)
(* another slot, which is occupied, becomes current.                       *)
LEMMA TickEffect ==
  ASSUME TypeOK, NEW epc \in PCs, Tick(epc)
  PROVE  /\ TypeOK' /\ UNCHANGED <<NEXT_PID, stacks, parked>>
         /\ \A k \in Slots : slots'[k] = IF k = current THEN [slots[k] EXCEPT !.pc = epc]
                                                        ELSE slots[k]
         /\ current' = None => current = None
<1> USE TableAssumption
<1> DEFINE t == Stash(slots, current, epc)
<1>1. current \notin Slots <=> current = None
  BY DEF TypeOK
<1>2. ASSUME NEW k \in Slots
      PROVE  /\ t[k] = IF k = current THEN [slots[k] EXCEPT !.pc = epc] ELSE slots[k]
             /\ t[k] = None <=> slots[k] = None
             /\ t[k] \in Proc \cup {None}
  <2>1. CASE k = current
    <3>1. slots[k] \in Proc
      BY <2>1 DEF TypeOK
    <3>2. [slots[k] EXCEPT !.pc = epc] \in Proc
      BY <3>1 DEF Proc
    <3>3. t[k] = [slots[k] EXCEPT !.pc = epc]
      BY <2>1, <3>1 DEF Stash, TypeOK
    <3> QED
      BY <2>1, <3>1, <3>2, <3>3
  <2>2. CASE k # current
    BY <1>1, <2>2 DEF Stash, TypeOK
  <2> QED
    BY <2>1, <2>2
<1>3. t \in [Slots -> Proc \cup {None}]
  <2>1. t = [k \in Slots |-> t[k]]
    BY <1>1, Zenon DEF Stash, TypeOK
  <2> QED
    BY <1>2, <2>1
<1>4. slots' = t /\ UNCHANGED <<NEXT_PID, stacks, parked>>
  BY DEF Tick
<1>5. CASE \E i \in Slots : IsNext(t, current, i) /\ current' = i /\ Switch(t, i, bypass, exits)
  <2>1. PICK i \in Slots : IsNext(t, current, i) /\ current' = i /\ Switch(t, i, bypass, exits)
    BY <1>5
  <2>2. bypass' \in [Slots -> [Slots -> Nat]] /\ exits' \in [Slots -> Nat]
    BY <2>1, SwitchTypes, Zenon DEF TypeOK
  <2>3. current' \in Slots /\ slots'[current'] # None
    BY <1>4, <2>1 DEF IsNext
  <2> HIDE DEF t
  <2>4. TypeOK'
    BY <1>3, <1>4, <2>2, <2>3 DEF TypeOK
  <2> QED
    BY <1>2, <1>4, <2>3, <2>4
<1>6. CASE Empty(t) /\ current' = None /\ UNCHANGED <<bypass, exits>>
  <2>1. \A k \in Slots : slots[k] = None
    BY <1>2, <1>6, Zenon DEF Empty
  <2>2. current = None
    BY <2>1 DEF TypeOK
  <2> HIDE DEF t
  <2>3. TypeOK'
    BY <1>3, <1>4, <1>6 DEF TypeOK
  <2> QED
    BY <1>2, <1>4, <2>2, <2>3
<1> QED
  BY <1>5, <1>6 DEF Tick

(* exit_current and the schedule after it: the slot is emptied, and an     *)
(* occupied one becomes current unless none is left.                       *)
LEMMA ExitEffect ==
  ASSUME TypeOK, Exit
  PROVE  /\ TypeOK' /\ UNCHANGED <<NEXT_PID, stacks>>
         /\ current \in Slots
         /\ \A k \in Slots : slots'[k] = IF k = current THEN None ELSE slots[k]
         /\ parked' <=> current' = None
         /\ current' = None => \A k \in Slots : slots'[k] = None
<1> USE TableAssumption
<1> DEFINE t == [slots EXCEPT ![current] = None]
<1>1. slots' = t /\ UNCHANGED <<NEXT_PID, stacks>> /\ ~parked /\ current \in Slots
  BY DEF Exit, TypeOK
<1>2. t \in [Slots -> Proc \cup {None}]
      /\ \A k \in Slots : t[k] = IF k = current THEN None ELSE slots[k]
  BY <1>1 DEF TypeOK
<1>3. CASE ExitLast(t)
  <2>1. current' = None /\ parked' = TRUE /\ UNCHANGED <<bypass, exits>>
        /\ \A k \in Slots : t[k] = None
    BY <1>3 DEF ExitLast, Empty
  <2> HIDE DEF t
  <2>2. TypeOK'
    BY <1>1, <1>2, <2>1 DEF TypeOK
  <2> QED
    BY <1>1, <1>2, <2>1, <2>2
<1>4. CASE ExitToNext(t)
  <2>1. PICK i \in Slots : IsNext(t, None, i) /\ current' = i
                           /\ Switch(t, i, bypass, [q \in Slots |-> exits[q] + 1])
    BY <1>4, Zenon DEF ExitToNext
  <2>2. parked' = parked
    BY <1>4 DEF ExitToNext
  <2>3. [q \in Slots |-> exits[q] + 1] \in [Slots -> Nat]
    BY DEF TypeOK
  <2>4. bypass' \in [Slots -> [Slots -> Nat]] /\ exits' \in [Slots -> Nat]
    BY <2>1, <2>3, SwitchTypes, Zenon DEF TypeOK
  <2>5. current' \in Slots /\ slots'[current'] # None
    BY <1>1, <2>1 DEF IsNext
  <2> HIDE DEF t
  <2>6. TypeOK'
    BY <1>1, <1>2, <2>2, <2>4, <2>5 DEF TypeOK
  <2> QED
    BY <1>1, <1>2, <2>2, <2>5, <2>6
<1> QED
  BY <1>3, <1>4 DEF Exit

-----------------------------------------------------------------------------
(* The invariant *)

(* The initial state: skmain runs, and traps go to TRAP_FRAME. *)
LEMMA HInvInit == HartInit => HInv
<1> SUFFICES ASSUME HartInit PROVE HInv
  OBVIOUS
<1> USE TableAssumption, HartAssumption DEF HartInit, Init
<1>1. TypeOK
  <2>1. bypass \in [Slots -> [Slots -> Nat]] /\ exits \in [Slots -> Nat]
    OBVIOUS
  <2>2. 1 \in 0 .. PidMod - 1 /\ 0 \in 0 .. MaxStacks
    OBVIOUS
  <2> QED
    BY <2>1, <2>2, Zenon DEF TypeOK
<1>2. cpu \in [regs : Regs, pc : PCs]
  OBVIOUS
<1> QED
  BY <1>1, <1>2 DEF HInv, HartTypeOK, FrameOfCurrent, InTrap

(* Every step keeps it. *)
LEMMA HInvNext == HInv /\ [HartNext]_hvars => HInv'
<1> SUFFICES ASSUME HInv, [HartNext]_hvars PROVE HInv'
  OBVIOUS
<1> USE TableAssumption, HartAssumption
<1>1. CASE Run
  BY <1>1 DEF Run, vars, HInv, HartTypeOK, TypeOK, FrameOfCurrent, InTrap
<1>2. CASE SpawnReserve
  <2>1. stacks + 1 \in 0 .. MaxStacks /\ NEXT_PID + 1 \in 0 .. PidMod - 1
        /\ NEXT_PID \in 1 .. PidMod - 1
    BY <1>2 DEF SpawnReserve, HInv, HartTypeOK, TypeOK
  <2>2. NEXT_PID' = NEXT_PID + 1 /\ stacks' = stacks + 1
    BY <1>2, <2>1 DEF SpawnReserve, TakeStackAndPid
  <2> QED
    BY <1>2, <2>1, <2>2 DEF SpawnReserve, hart, HInv, HartTypeOK, TypeOK, FrameOfCurrent,
       InTrap
<1>3. CASE SpawnPlace
  <2>1. PICK s \in Slots : slots' = [slots EXCEPT ![s] = [pid |-> spawning, pc |-> 0]]
                           /\ frames' = [frames EXCEPT ![s] = EntryRegs]
    BY <1>3, Zenon DEF SpawnPlace
  <2>2. spawning \in 0 .. PidMod - 1
    BY <1>3 DEF SpawnPlace, HInv, HartTypeOK
  <2>3. [pid |-> spawning, pc |-> 0] \in Proc
    BY <2>2 DEF Proc
  <2>4. slots' \in [Slots -> Proc \cup {None}]
    BY <2>1, <2>3 DEF HInv, HartTypeOK, TypeOK
  <2>5. frames' \in [Slots \cup {Boot} -> Regs]
    BY <2>1 DEF HInv, HartTypeOK
  <2> QED
    BY <1>3, <2>4, <2>5 DEF SpawnPlace, HInv, HartTypeOK, TypeOK, FrameOfCurrent, InTrap
<1>4. ASSUME NEW c \in Causes, TrapEnter(c) PROVE HInv'
  <2>1. frames' \in [Slots \cup {Boot} -> Regs] /\ cpu' \in [regs : Regs, pc : PCs]
        /\ mepc' \in PCs
    BY <1>4 DEF TrapEnter, HInv, HartTypeOK
  <2> QED
    BY <1>4, <2>1 DEF TrapEnter, vars, HInv, HartTypeOK, TypeOK, FrameOfCurrent, InTrap
<1>5. CASE HandleTimer
  <2>1. TypeOK' /\ UNCHANGED <<NEXT_PID, stacks, parked>> /\ (current' = None => current = None)
    BY <1>5, TickEffect DEF HandleTimer, HInv, HartTypeOK
  <2>2. /\ mode = "enter" /\ mode' = "leave" /\ UNCHANGED <<frames, cpu, cause, spawning>>
        /\ IF current' = None THEN UNCHANGED <<mscratch, mepc>>
                              ELSE mscratch' = current' /\ mepc' = slots'[current'].pc
    BY <1>5 DEF HandleTimer, SwitchTo
  <2>3. mepc' \in PCs /\ mscratch' = (IF current' = None THEN Boot ELSE current')
    BY <2>1, <2>2 DEF HInv, HartTypeOK, TypeOK, FrameOfCurrent, Proc
  <2>4. mscratch' \in Slots \cup {Boot}
    BY <2>1, <2>3 DEF TypeOK
  <2> QED
    BY <2>1, <2>2, <2>3, <2>4 DEF HInv, HartTypeOK, FrameOfCurrent, InTrap
<1>6. CASE HandleExit
  <2>1. TypeOK' /\ UNCHANGED <<NEXT_PID, stacks>> /\ (parked' <=> current' = None)
    BY <1>6, ExitEffect DEF HandleExit, HInv, HartTypeOK
  <2>2. /\ UNCHANGED <<frames, cpu, cause, spawning>>
        /\ IF parked' THEN mode' = "halt" /\ UNCHANGED <<mscratch, mepc>>
                      ELSE mode' = "leave" /\ mscratch' = current' /\ mepc' = slots'[current'].pc
    BY <1>6 DEF HandleExit, SwitchTo
  <2>3. mepc' \in PCs /\ mscratch' \in Slots \cup {Boot}
        /\ (mode' # "halt" => mscratch' = current' /\ current' # None)
    BY <2>1, <2>2 DEF HInv, HartTypeOK, TypeOK, Proc
  <2> QED
    BY <2>1, <2>2, <2>3 DEF HInv, HartTypeOK, FrameOfCurrent, InTrap
<1>7. CASE HandleEcall
  <2>1. frames' \in [Slots \cup {Boot} -> Regs] /\ mepc' \in PCs
    BY <1>7 DEF HandleEcall, HInv, HartTypeOK, InTrap
  <2> QED
    BY <1>7, <2>1 DEF HandleEcall, vars, HInv, HartTypeOK, TypeOK, FrameOfCurrent, InTrap
<1>8. CASE HandleFault
  <2>1. mepc' \in PCs
    BY <1>8 DEF HandleFault, HInv, InTrap
  <2> QED
    BY <1>8, <2>1 DEF HandleFault, vars, HInv, HartTypeOK, TypeOK, FrameOfCurrent, InTrap
<1>9. CASE HandleInterrupt \/ HandlePanic
  BY <1>9 DEF HandleInterrupt, HandlePanic, vars, HInv, HartTypeOK, TypeOK,
     FrameOfCurrent, InTrap
<1>10. CASE TrapLeave
  <2>1. cpu' \in [regs : Regs, pc : PCs]
    BY <1>10 DEF TrapLeave, HInv, HartTypeOK
  <2> QED
    BY <1>10, <2>1 DEF TrapLeave, vars, HInv, HartTypeOK, TypeOK, FrameOfCurrent, InTrap
<1>11. CASE UNCHANGED hvars
  BY <1>11 DEF hvars, vars, hart, HInv, HartTypeOK, TypeOK, FrameOfCurrent, InTrap
<1> QED
  BY <1>1, <1>2, <1>3, <1>4, <1>5, <1>6, <1>7, <1>8, <1>9, <1>10, <1>11 DEF HartNext, Halted

(* Outside a halt, the next trap saves into the frame of the thread that   *)
(* runs, or into TRAP_FRAME while skmain does (csrw mscratch).             *)
THEOREM FramesFollow == HartSpec => []FrameOfCurrent
<1>1. HInv => FrameOfCurrent
  BY DEF HInv
<1> QED
  BY <1>1, HInvInit, HInvNext, PTL DEF HartSpec

(* Whatever interrupts what, the table, the saved frames and the hart's    *)
(* registers keep their types (m_trap_vector, m_trap, spawn_kernel).       *)
THEOREM HartTypes == HartSpec => []HartTypeOK
<1>1. HInv => HartTypeOK
  BY DEF HInv
<1> QED
  BY <1>1, HInvInit, HInvNext, PTL DEF HartSpec

-----------------------------------------------------------------------------
(* The refinement *)

(* A context is what its fields say. *)
LEMMA ContextFields ==
  ASSUME NEW c \in [regs : Regs, pc : PCs]
  PROVE  c = [regs |-> c.regs, pc |-> c.pc] /\ c # None
  BY HartAssumption

(* Occupied slots are the ones with a context. *)
LEMMA ContextTypes ==
  ASSUME HInv, NEW i \in Slots
  PROVE  /\ slots[i] = None => ContextOf(i) = None
         /\ slots[i] # None => ContextOf(i) \in [regs : Regs, pc : PCs] /\ ContextOf(i) # None
  BY ContextFields, HartAssumption DEF HInv, HartTypeOK, TypeOK, Proc, ContextOf

VCpu == [i \in Slots |-> ContextOf(i)]

VStep == Virtual!Next \/ UNCHANGED <<VCpu, current, mode # "S">>

(* Steps of m_trap and of skmain that no thread can tell. *)
LEMMA Invisible ==
  ASSUME HInv, HInv', UNCHANGED <<slots, current>>, mode' = "S" <=> mode = "S",
         \A i \in Slots : ContextOf(i)' = ContextOf(i)
  PROVE  VStep
  BY DEF VStep, VCpu

(* The vector's save and restore carry the whole context over. *)
LEMMA Crossing ==
  ASSUME UNCHANGED <<slots, current>>, (mode' = "S") <=> ~(mode = "S"),
         \A i \in Slots : ContextOf(i)' = ContextOf(i)
  PROVE  VStep
<1>1. Virtual!Cross
  BY DEF Virtual!Cross
<1> QED
  BY <1>1 DEF VStep, Virtual!Next

(* Every step of the hart is a step of the virtual processors, or none. *)
LEMMA Simulates == HInv /\ HInv' /\ [HartNext]_hvars => VStep
<1> SUFFICES ASSUME HInv, HInv', [HartNext]_hvars PROVE VStep
  OBVIOUS
<1> USE TableAssumption, HartAssumption
<1>0. current \in Slots \cup {None} /\ None \notin Slots
  BY DEF HInv, HartTypeOK, TypeOK
<1>1. CASE Run
  <2>1. \A i \in Slots : ContextOf(i)' = IF i = current /\ slots[i] # None THEN cpu' ELSE ContextOf(i)
    BY <1>1 DEF Run, vars, ContextOf
  <2>2. CASE current = None
    BY <1>0, <1>1, <2>1, <2>2, Invisible DEF Run, vars
  <2>3. CASE current # None
    <3>1. slots[current] # None
      BY <2>3 DEF HInv, HartTypeOK, TypeOK
    <3>2. VCpu' = [VCpu EXCEPT ![current] = cpu']
      BY <1>0, <2>1, <2>3, <3>1, Zenon DEF VCpu
    <3>3. Virtual!Step
      BY <1>1, <2>3, <3>2, Zenon DEF Run, vars, Virtual!Step, Virtual!Context, VCpu
    <3> QED
      BY <3>3 DEF VStep, Virtual!Next
  <2> QED
    BY <2>2, <2>3
<1>2. CASE SpawnReserve
  BY <1>2, Invisible DEF SpawnReserve, hart, ContextOf
<1>3. CASE SpawnPlace
  <2>1. PICK s \in Slots : /\ slots[s] = None
                           /\ slots' = [slots EXCEPT ![s] = [pid |-> spawning, pc |-> 0]]
                           /\ frames' = [frames EXCEPT ![s] = EntryRegs]
    BY <1>3, Zenon DEF SpawnPlace, FirstFree
  <2>2. [pid |-> spawning, pc |-> 0] # None
    BY <1>3 DEF SpawnPlace, HInv, HartTypeOK, Proc
  <2>3. \A i \in Slots : ContextOf(i)' = IF i = s THEN [regs |-> EntryRegs, pc |-> 0] ELSE ContextOf(i)
    BY <1>0, <1>3, <2>1, <2>2 DEF SpawnPlace, ContextOf, HInv, HartTypeOK, TypeOK
  <2>4. VCpu' = [VCpu EXCEPT ![s] = [regs |-> EntryRegs, pc |-> 0]] /\ VCpu[s] = None
    <3>1. VCpu[s] = None
      BY <2>1, Zenon DEF VCpu, ContextOf
    <3> QED
      BY <2>3, <3>1, Zenon DEF VCpu
  <2>5. Virtual!Spawn(s)
    BY <1>3, <2>4 DEF SpawnPlace, Virtual!Spawn, VCpu
  <2> QED
    BY <2>5 DEF VStep, Virtual!Next
<1>4. ASSUME NEW c \in Causes, TrapEnter(c) PROVE VStep
  <2>1. cpu = [regs |-> cpu.regs, pc |-> cpu.pc]
    BY ContextFields DEF HInv, HartTypeOK
  <2>2. \A i \in Slots : ContextOf(i)' = ContextOf(i)
    BY <1>0, <1>4, <2>1 DEF TrapEnter, vars, ContextOf, HInv, HartTypeOK, FrameOfCurrent
  <2> QED
    BY <1>4, <2>2, Crossing DEF TrapEnter, vars
<1>5. CASE HandleTimer
  <2>1. /\ \A k \in Slots : slots'[k] = IF k = current THEN [slots[k] EXCEPT !.pc = mepc] ELSE slots[k]
        /\ current' = None => current = None
    BY <1>5, TickEffect DEF HandleTimer, HInv, HartTypeOK
  <2>2. /\ mode = "enter" /\ mode' = "leave" /\ frames' = frames
        /\ current' # None => mepc' = slots'[current'].pc
    BY <1>5 DEF HandleTimer, SwitchTo
  <2>3. \A k \in Slots : (slots'[k] = None <=> slots[k] = None)
                          /\ (k = current => slots'[k].pc = mepc)
    <3>1. ASSUME current # None
          PROVE  [slots[current] EXCEPT !.pc = mepc] \in Proc
                 /\ [slots[current] EXCEPT !.pc = mepc].pc = mepc /\ slots[current] # None
      <4>1. slots[current] \in Proc /\ mepc \in PCs
        BY <3>1 DEF HInv, HartTypeOK, TypeOK
      <4> QED
        BY <4>1 DEF Proc
    <3> QED
      BY <1>0, <2>1, <3>1, Zenon
  <2>4. \A k \in Slots : ContextOf(k)' = ContextOf(k)
    <3> SUFFICES ASSUME NEW k \in Slots PROVE ContextOf(k)' = ContextOf(k)
      OBVIOUS
    <3> QED
      BY <1>0, <2>1, <2>2, <2>3, Zenon DEF ContextOf
  <2>5. VCpu' = VCpu
    BY <2>4 DEF VCpu
  <2>6. CASE current' = None
    BY <2>1, <2>2, <2>5, <2>6 DEF VStep
  <2>7. CASE current' # None
    <3>1. current' \in Slots
      BY <2>7 DEF HInv, HartTypeOK, TypeOK
    <3>2. VCpu[current'] # None
      BY <2>3, <2>7, <3>1, ContextTypes DEF VCpu, HInv, HartTypeOK, TypeOK
    <3>3. Virtual!Dispatch(current')
      BY <2>2, <2>5, <3>2 DEF Virtual!Dispatch, VCpu
    <3> QED
      BY <3>1, <3>3 DEF VStep, Virtual!Next
  <2> QED
    BY <2>6, <2>7
<1>6. CASE HandleExit
  <2>1. /\ current \in Slots
        /\ \A k \in Slots : slots'[k] = IF k = current THEN None ELSE slots[k]
        /\ current' = None => \A k \in Slots : slots'[k] = None
        /\ parked' <=> current' = None
    BY <1>6, ExitEffect DEF HandleExit, HInv, HartTypeOK
  <2>2. /\ mode = "enter" /\ mode' # "S" /\ frames' = frames
        /\ current' # None => mepc' = slots'[current'].pc
    BY <1>6, <2>1 DEF HandleExit, SwitchTo
  <2>3. \A k \in Slots : ContextOf(k)' = IF k = current THEN None ELSE ContextOf(k)
    BY <1>0, <2>1, <2>2 DEF ContextOf
  <2>4. VCpu' = [VCpu EXCEPT ![current] = None]
    BY <2>1, <2>3, Zenon DEF VCpu
  <2>5. \/ \E i \in Slots : VCpu'[i] # None /\ current' = i
        \/ (\A i \in Slots : VCpu'[i] = None) /\ current' = None
    <3>1. CASE current' = None
      BY <2>1, <3>1 DEF VCpu, ContextOf
    <3>2. CASE current' # None
      <4>1. PICK i \in Slots : current' = i
        BY <3>2 DEF HInv, HartTypeOK, TypeOK
      <4>2. slots'[i] # None
        BY <3>2, <4>1 DEF HInv, HartTypeOK, TypeOK
      <4>3. ContextOf(i) # None /\ i # current
        BY <2>1, <4>2, ContextTypes
      <4> QED
        BY <2>3, <4>1, <4>3 DEF VCpu
    <3> QED
      BY <3>1, <3>2
  <2>6. Virtual!Exit
    BY <1>0, <2>1, <2>2, <2>4, <2>5 DEF Virtual!Exit, VCpu
  <2> QED
    BY <2>6 DEF VStep, Virtual!Next
<1>7. CASE HandleEcall
  <2>1. current \in Slots /\ slots[current] # None /\ mscratch = current
    BY <1>0, <1>7 DEF HandleEcall, HInv, HartTypeOK, TypeOK, FrameOfCurrent, InTrap
  <2>2. PICK r \in Regs : frames' = [frames EXCEPT ![current] = r]
    BY <1>7, <2>1, Zenon DEF HandleEcall
  <2>3. \A k \in Slots : ContextOf(k)' = IF k = current THEN [regs |-> r, pc |-> mepc + 1]
                                                        ELSE ContextOf(k)
    <3>1. /\ slots' = slots /\ current' = current /\ mepc' = mepc + 1
          /\ mode = "enter" /\ mode' = "leave"
      BY <1>7 DEF HandleEcall, vars
    <3>2. \A k \in Slots : frames'[k] = IF k = current THEN r ELSE frames[k]
      BY <2>1, <2>2 DEF HInv, HartTypeOK
    <3> QED
      BY <2>1, <3>1, <3>2 DEF ContextOf
  <2>4. VCpu[current].pc = mepc
    BY <1>7, <2>1 DEF HandleEcall, VCpu, ContextOf
  <2>5. VCpu' = [VCpu EXCEPT ![current] = [regs |-> r, pc |-> VCpu[current].pc + 1]]
    BY <2>1, <2>3, <2>4, Zenon DEF VCpu
  <2>6. Virtual!Service
    BY <1>0, <1>7, <2>1, <2>5, Zenon DEF HandleEcall, vars, Virtual!Service, VCpu
  <2> QED
    BY <2>6 DEF VStep, Virtual!Next
<1>8. CASE HandleFault
  <2>1. \A k \in Slots : ContextOf(k)' = IF k = current /\ slots[k] # None
                                           THEN [regs |-> frames[k], pc |-> mepc + 1]
                                           ELSE ContextOf(k)
    BY <1>8 DEF HandleFault, vars, ContextOf
  <2>2. CASE current = None
    BY <1>0, <1>8, <2>1, <2>2, Invisible DEF HandleFault, vars
  <2>3. CASE current # None
    <3>1. current \in Slots /\ slots[current] # None /\ frames[current] \in Regs
      BY <1>0, <2>3 DEF HInv, HartTypeOK, TypeOK
    <3>2. VCpu[current].pc = mepc
      BY <1>8, <3>1 DEF HandleFault, VCpu, ContextOf
    <3>3. VCpu' = [VCpu EXCEPT ![current] = [regs |-> frames[current], pc |-> VCpu[current].pc + 1]]
      BY <2>1, <3>1, <3>2, Zenon DEF VCpu
    <3>4. Virtual!Service
      BY <1>0, <1>8, <3>1, <3>3, Zenon DEF HandleFault, vars, Virtual!Service, VCpu
    <3> QED
      BY <3>4 DEF VStep, Virtual!Next
  <2> QED
    BY <2>2, <2>3
<1>9. CASE HandleInterrupt \/ HandlePanic
  BY <1>9, Invisible DEF HandleInterrupt, HandlePanic, vars, ContextOf
<1>10. CASE TrapLeave
  <2>0. /\ UNCHANGED <<slots, current, frames, mepc>>
        /\ mode = "leave" /\ mode' = "S"
        /\ current # None => cpu' = [regs |-> frames[current], pc |-> mepc]
    BY <1>0, <1>10 DEF TrapLeave, vars, HInv, FrameOfCurrent
  <2>1. \A i \in Slots : ContextOf(i)' = ContextOf(i)
    BY <1>0, <2>0 DEF ContextOf
  <2> QED
    BY <1>10, <2>1, Crossing DEF TrapLeave, vars
<1>11. CASE UNCHANGED hvars
  BY <1>11, Invisible DEF hvars, vars, hart, ContextOf
<1> QED
  BY <1>1, <1>2, <1>3, <1>4, <1>5, <1>6, <1>7, <1>8, <1>9, <1>10, <1>11 DEF HartNext, Halted

(* The trap vector, m_trap, schedule and spawn_kernel, interrupted at any  *)
(* instruction outside m_trap, give every thread a processor of its own.   *)
THEOREM ThreadsImplement == HartSpec => OwnProcessor
<1>1. HartInit => Virtual!Init
  BY TableAssumption DEF HartInit, Init, Virtual!Init, ContextOf
<1>2. VStep => [Virtual!Next]_<<[i \in Slots |-> ContextOf(i)], current, mode # "S">>
  BY DEF VStep, VCpu
<1> QED
  BY <1>1, <1>2, HInvInit, HInvNext, Simulates, PTL DEF HartSpec, OwnProcessor, Virtual!Spec
=============================================================================

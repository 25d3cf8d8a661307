---------------------------- MODULE ProcessTable ----------------------------
(***************************************************************************)
(* The process table, the PID counter and the round-robin scheduler        *)
(* (process/table.rs), driven by the timer and by the exit system call.    *)
(*                                                                         *)
(* Each operation is one step, as table.rs requires of its callers ("no    *)
(* concurrent access"); Threads.tla models what happens when spawn_kernel  *)
(* is interrupted.  A process is its PID and resume PC here; its registers *)
(* are in Threads.tla.  Its state field is always Running: no code writes  *)
(* Dead, exit_current empties the slot instead.                            *)
(***************************************************************************)
EXTENDS Integers, FiniteSets

CONSTANTS
  MAX_PROCESSES,  \* slots in the table
  MaxStacks,      \* stacks of STACK_PAGES the page-frame allocator can supply
  PidMod,         \* 2^16: NEXT_PID is an AtomicU16
  PCs,            \* program counters
  None

Slots == 0 .. MAX_PROCESSES - 1

Proc == [pid : 0 .. PidMod - 1, pc : PCs]

(* 128 MiB of RAM hold fewer than 2^14 stacks of 8 KiB. *)
ASSUME TableAssumption ==
  /\ MAX_PROCESSES \in Nat \ {0}
  /\ MaxStacks \in Nat
  /\ PidMod \in Nat
  /\ MaxStacks + 1 < PidMod
  /\ None \notin Slots \cup Proc

VARIABLES
  slots,          \* TABLE.slots
  current,        \* TABLE.current
  NEXT_PID,
  stacks,         \* stacks taken from the allocator so far
  parked,         \* the hart waits in do_syscall's final wfi loop
  bypass,         \* history: bypass[q][p], switches to p since q last ran
  exits           \* history: exits[q], processes that exited since q last ran

table == <<slots, current, NEXT_PID, stacks, parked>>
vars == <<slots, current, NEXT_PID, stacks, parked, bypass, exits>>

-----------------------------------------------------------------------------
(* schedule(epc), on table contents t with process cur running *)

Start_Zero(cur) == 0

Start(cur) == IF cur = None THEN 0 ELSE (cur + 1) % MAX_PROCESSES

(* The round of the `for offset in 0..n' loop that looks at slot i. *)
Offset(cur, i) == (i - Start(cur) + MAX_PROCESSES) % MAX_PROCESSES

IsNext(t, cur, i) ==
  /\ t[i] # None
  /\ \A j \in Slots : t[j] # None => Offset(cur, i) <= Offset(cur, j)

Empty(t) == \A i \in Slots : t[i] = None

Stash(t, cur, epc) ==
  IF cur # None /\ t[cur] # None THEN [t EXCEPT ![cur].pc = epc] ELSE t

(* History of a switch to slot i, given the history b and x before it. *)
Switch(t, i, b, x) ==
  /\ bypass' = [q \in Slots |-> [p \in Slots |->
                  IF q = i \/ t[q] = None \/ t[p] = None THEN 0
                  ELSE IF p = i THEN b[q][p] + 1 ELSE b[q][p]]]
  /\ exits' = [q \in Slots |-> IF q = i \/ t[q] = None THEN 0 ELSE x[q]]

(* m_trap, timer interrupt: rearm and schedule(epc) *)
Tick_KeepsCurrent(epc) ==
  /\ ~parked
  /\ \/ /\ current # None
        /\ slots' = Stash(slots, current, epc)
        /\ UNCHANGED <<current, bypass, exits>>
     \/ /\ current = None
        /\ \E i \in Slots :
             IsNext(slots, None, i) /\ current' = i /\ Switch(slots, i, bypass, exits)
        /\ UNCHANGED slots
  /\ UNCHANGED <<NEXT_PID, stacks, parked>>

Tick(epc) ==
  /\ ~parked
  /\ LET t == Stash(slots, current, epc) IN
       \/ \E i \in Slots :
            /\ IsNext(t, current, i)
            /\ current' = i
            /\ Switch(t, i, bypass, exits)
            /\ slots' = t
       \/ /\ Empty(t)
          /\ current' = None
          /\ slots' = t
          /\ UNCHANGED <<bypass, exits>>
  /\ UNCHANGED <<NEXT_PID, stacks, parked>>

-----------------------------------------------------------------------------
(* do_syscall(93): exit_current, then schedule from an empty `current', or *)
(* park the hart when no process is left.                                  *)

ExitLast_KeepsCurrent(t) ==
  /\ Empty(t)
  /\ parked' = TRUE
  /\ UNCHANGED <<current, bypass, exits>>

ExitLast(t) ==
  /\ Empty(t)
  /\ current' = None
  /\ parked' = TRUE
  /\ UNCHANGED <<bypass, exits>>

ExitToNext(t) ==
  /\ \E i \in Slots :
       /\ IsNext(t, None, i)
       /\ current' = i
       /\ Switch(t, i, bypass, [q \in Slots |-> exits[q] + 1])
  /\ UNCHANGED parked

Exit_FreesStack ==
  /\ ~parked
  /\ current # None
  /\ LET t == [slots EXCEPT ![current] = None] IN
       /\ ExitToNext(t) \/ ExitLast(t)
       /\ slots' = t
  /\ stacks' = stacks - 1
  /\ UNCHANGED NEXT_PID

Exit ==
  /\ ~parked
  /\ current # None
  /\ LET t == [slots EXCEPT ![current] = None] IN
       /\ ExitToNext(t) \/ ExitLast(t)
       /\ slots' = t
  /\ UNCHANGED <<NEXT_PID, stacks>>

-----------------------------------------------------------------------------
(* spawn_kernel(entry): a stack and a PID are taken before a slot is found *)

TakeStackAndPid ==
  /\ stacks' = stacks + 1
  /\ NEXT_PID' = (NEXT_PID + 1) % PidMod

FirstFree(t, s) == t[s] = None /\ \A r \in 0 .. s - 1 : t[r] # None

SpawnKernel(entry) ==
  /\ ~parked
  /\ stacks < MaxStacks
  /\ TakeStackAndPid
  /\ \E s \in Slots :
       /\ FirstFree(slots, s)
       /\ slots' = [slots EXCEPT ![s] = [pid |-> NEXT_PID, pc |-> entry]]
  /\ UNCHANGED <<current, parked, bypass, exits>>

SpawnTableFull ==
  /\ ~parked
  /\ stacks < MaxStacks
  /\ \A s \in Slots : slots[s] # None
  /\ TakeStackAndPid
  /\ UNCHANGED <<slots, current, parked, bypass, exits>>

SpawnOutOfMemory ==
  /\ ~parked
  /\ stacks = MaxStacks
  /\ UNCHANGED vars

(* The wfi loop at the end of do_syscall, with interrupts off. *)
Parked == parked /\ UNCHANGED vars

-----------------------------------------------------------------------------
Init ==
  /\ slots = [s \in Slots |-> None]
  /\ current = None
  /\ NEXT_PID = 1
  /\ stacks = 0
  /\ parked = FALSE
  /\ bypass = [q \in Slots |-> [p \in Slots |-> 0]]
  /\ exits = [q \in Slots |-> 0]

Timer == \E epc \in PCs : Tick(epc)

Next ==
  \/ Timer
  \/ Exit
  \/ \E entry \in PCs : SpawnKernel(entry)
  \/ SpawnTableFull
  \/ SpawnOutOfMemory
  \/ Parked

(* The handler rearms mtimecmp on every tick, so while the hart is not     *)
(* parked another timer interrupt always comes.                            *)
Spec == Init /\ [][Next]_vars /\ WF_vars(Timer)

-----------------------------------------------------------------------------
(* The table holds processes, and `current' never names an empty slot. *)
TypeOK ==
  /\ slots \in [Slots -> Proc \cup {None}]
  /\ current \in Slots \cup {None}
  /\ current # None => slots[current] # None
  /\ NEXT_PID \in 0 .. PidMod - 1
  /\ stacks \in 0 .. MaxStacks
  /\ parked \in BOOLEAN
  /\ bypass \in [Slots -> [Slots -> Nat]]
  /\ exits \in [Slots -> Nat]

(* Two processes in the table never have the same PID, and none has the    *)
(* PID 0, although NEXT_PID is 16 bits wide and spawn_kernel never looks   *)
(* for a free PID.                                                         *)
PidsUnique ==
  \A i \in Slots : slots[i] # None =>
    /\ slots[i].pid # 0
    /\ \A j \in Slots \ {i} : slots[j] # None => slots[i].pid # slots[j].pid

(* "PIDs are handed out monotonically" (table.rs:50). *)
PidsMonotonic == [][NEXT_PID' >= NEXT_PID]_vars

(* While a process waits, another is switched to at most once more than    *)
(* the number of processes that exit meanwhile (schedule, exit_current).   *)
BypassBounded == \A q, p \in Slots : bypass[q][p] <= 1 + exits[q]

(* A process that is in the table runs again, unless it has left.          *)
EventuallyRuns ==
  \A i \in Slots : \A k \in 1 .. MaxStacks :
    LET Is == slots[i] # None /\ slots[i].pid = k
    IN  Is ~> (~Is \/ current = i)
=============================================================================

---------------------------- MODULE VirtualCpus ----------------------------
(***************************************************************************)
(* What kernel threads are promised: each has a processor of its own.  Its *)
(* registers and program counter change only by its own steps and by the   *)
(* traps it asks for, however often and wherever it is preempted.  Going   *)
(* into and out of the kernel changes nothing.                             *)
(***************************************************************************)
EXTENDS Naturals

CONSTANTS Slots, Regs, PCs, None,
          Entry         \* the context a new thread starts with

VARIABLES vcpu, running,
          kernel        \* a trap is being handled

Context == [regs : Regs, pc : PCs]

Init == vcpu = [i \in Slots |-> None] /\ running = None /\ kernel = FALSE

Spawn(i) ==
  /\ ~kernel /\ vcpu[i] = None
  /\ vcpu' = [vcpu EXCEPT ![i] = Entry]
  /\ UNCHANGED <<running, kernel>>

Step ==
  /\ ~kernel /\ running # None
  /\ \E c \in Context : vcpu' = [vcpu EXCEPT ![running] = c]
  /\ UNCHANGED <<running, kernel>>

(* A trap begins or ends. *)
Cross == kernel' = ~kernel /\ UNCHANGED <<vcpu, running>>

(* A system call or a fault: results in registers, one instruction skipped. *)
Service ==
  /\ kernel /\ running # None
  /\ \E r \in Regs : vcpu' = [vcpu EXCEPT ![running] = [regs |-> r, pc |-> @.pc + 1]]
  /\ UNCHANGED <<running, kernel>>

Dispatch(i) ==
  /\ kernel /\ vcpu[i] # None
  /\ running' = i
  /\ UNCHANGED <<vcpu, kernel>>

(* The running thread leaves, and another one is dispatched if there is one. *)
Exit ==
  /\ kernel /\ running # None
  /\ vcpu' = [vcpu EXCEPT ![running] = None]
  /\ \/ \E i \in Slots : vcpu'[i] # None /\ running' = i
     \/ (\A i \in Slots : vcpu'[i] = None) /\ running' = None
  /\ UNCHANGED kernel

Next == (\E i \in Slots : Spawn(i) \/ Dispatch(i)) \/ Step \/ Cross \/ Service \/ Exit

Spec == Init /\ [][Next]_<<vcpu, running, kernel>>
=============================================================================

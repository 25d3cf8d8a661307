------------------------------ MODULE Threads ------------------------------
(***************************************************************************)
(* Kernel threads on the one hart: the trap vector (asm/trap.S), m_trap    *)
(* (arch/riscv64/trap.rs), do_syscall (process/syscall.rs) and skmain's    *)
(* call of spawn_kernel, composed with the process table.                  *)
(*                                                                         *)
(* A trap is three steps: the vector saves the registers in the frame that *)
(* mscratch points at; m_trap runs with interrupts off and may repoint     *)
(* mscratch; the vector restores from mscratch and returns.  A frame's     *)
(* address is its slot, or "boot" for the static TRAP_FRAME.  Program      *)
(* counters count instructions, so `epc + 4' is epc + 1 here.              *)
(***************************************************************************)
EXTENDS ProcessTable

CONSTANTS
  Regs,           \* contents of the register file
  EntryRegs,      \* the registers spawn_kernel puts in a new frame
  Boot            \* the address of TRAP_FRAME

ASSUME HartAssumption ==
  /\ EntryRegs \in Regs
  /\ Boot \notin Slots
  /\ PCs \subseteq Nat /\ 0 \in PCs
  /\ None \notin [regs : Regs, pc : PCs]

VARIABLES
  frames,         \* registers saved in each TrapFrame
  mscratch,
  cpu,            \* the register file and pc of the hart outside traps
  mepc,
  mode,           \* "S", "enter" (in m_trap), "leave" (back in the vector), "halt"
  cause,
  spawning        \* the PID of the process skmain is putting in the table

hart == <<frames, mscratch, cpu, mepc, mode, cause>>
hvars == <<vars, hart, spawning>>

-----------------------------------------------------------------------------
(* Outside traps *)

(* The thread on the hart computes; skmain does once nothing is scheduled. *)
Run ==
  /\ mode = "S"
  /\ cpu' \in [regs : Regs, pc : PCs]
  /\ UNCHANGED <<vars, frames, mscratch, mepc, mode, cause, spawning>>

(* spawn_kernel in skmain, up to TABLE.get(): zallocate, NEXT_PID.fetch_add *)
SpawnReserve ==
  /\ mode = "S" /\ current = None /\ ~parked
  /\ spawning = None
  /\ stacks < MaxStacks
  /\ TakeStackAndPid
  /\ spawning' = NEXT_PID
  /\ UNCHANGED <<slots, current, parked, bypass, exits, hart>>

(* spawn_kernel in skmain, from TABLE.get() to the return.  Without a free *)
(* slot, skmain's expect() panics and skmain stays in abort()'s loop.  The *)
(* copy of the process into its slot is one step.                          *)
SpawnPlace ==
  /\ mode = "S" /\ current = None
  /\ spawning # None
  /\ \E s \in Slots :
       /\ FirstFree(slots, s)
       /\ slots' = [slots EXCEPT ![s] = [pid |-> spawning, pc |-> 0]]
       /\ frames' = [frames EXCEPT ![s] = EntryRegs]
  /\ spawning' = None
  /\ UNCHANGED <<current, NEXT_PID, stacks, parked, bypass, exits,
                 mscratch, cpu, mepc, mode, cause>>

(* m_trap_vector up to the call; only a kernel thread makes system calls.  *)
(* The bound on PCs keeps the last one free of instructions to skip.       *)
TrapEnter(c) ==
  /\ mode = "S"
  /\ c \in {"ecall", "exit"} => current # None
  /\ c \in {"ecall", "fault"} => cpu.pc + 1 \in PCs
  /\ frames' = [frames EXCEPT ![mscratch] = cpu.regs]
  /\ mepc' = cpu.pc
  /\ mode' = "enter"
  /\ cause' = c
  /\ cpu' \in [regs : Regs, pc : {cpu.pc}]      \* m_trap uses the registers
  /\ UNCHANGED <<vars, mscratch, spawning>>

-----------------------------------------------------------------------------
(* m_trap *)

(* What m_trap and do_syscall do with the frame and PC from schedule. *)
SwitchTo_KeepsMscratch(i) == mscratch' = mscratch /\ mepc' = slots'[i].pc

SwitchTo(i) == mscratch' = i /\ mepc' = slots'[i].pc

HandleTimer ==
  /\ mode = "enter" /\ cause = "timer"
  /\ Tick(mepc)
  /\ IF current' = None THEN UNCHANGED <<mscratch, mepc>> ELSE SwitchTo(current')
  /\ mode' = "leave"
  /\ UNCHANGED <<frames, cpu, cause, spawning>>

HandleExit ==
  /\ mode = "enter" /\ cause = "exit"
  /\ Exit
  /\ IF parked'
       THEN mode' = "halt" /\ UNCHANGED <<mscratch, mepc>>
       ELSE mode' = "leave" /\ SwitchTo(current')
  /\ UNCHANGED <<frames, cpu, cause, spawning>>

(* The other system calls: a0 in the frame may change, the ecall is skipped. *)
HandleEcall ==
  /\ mode = "enter" /\ cause = "ecall"
  /\ \E r \in Regs : frames' = [frames EXCEPT ![mscratch] = r]
  /\ mepc' = mepc + 1
  /\ mode' = "leave"
  /\ UNCHANGED <<vars, mscratch, cpu, cause, spawning>>

(* Page and access faults: the faulting instruction is skipped. *)
HandleFault ==
  /\ mode = "enter" /\ cause = "fault"
  /\ mepc' = mepc + 1
  /\ mode' = "leave"
  /\ UNCHANGED <<vars, frames, mscratch, cpu, cause, spawning>>

(* External and software interrupts leave the threads alone. *)
HandleInterrupt ==
  /\ mode = "enter" /\ cause = "external"
  /\ mode' = "leave"
  /\ UNCHANGED <<vars, frames, mscratch, cpu, mepc, cause, spawning>>

(* panic! in m_trap: abort() waits for ever with interrupts off. *)
HandlePanic ==
  /\ mode = "enter" /\ cause = "illegal"
  /\ mode' = "halt"
  /\ UNCHANGED <<vars, frames, mscratch, cpu, mepc, cause, spawning>>

(* m_trap_vector after the call *)
TrapLeave ==
  /\ mode = "leave"
  /\ cpu' = [regs |-> frames[mscratch], pc |-> mepc]
  /\ mode' = "S"
  /\ UNCHANGED <<vars, frames, mscratch, mepc, cause, spawning>>

Halted == mode = "halt" /\ UNCHANGED hvars

-----------------------------------------------------------------------------
Causes == {"timer", "exit", "ecall", "fault", "external", "illegal"}

HartInit ==
  /\ Init
  /\ frames = [a \in Slots \cup {Boot} |-> EntryRegs]
  /\ mscratch = Boot
  /\ cpu \in [regs : Regs, pc : {0}]
  /\ mepc = 0
  /\ mode = "S"
  /\ cause = "timer"
  /\ spawning = None

HartNext ==
  \/ Run \/ SpawnReserve \/ SpawnPlace
  \/ \E c \in Causes : TrapEnter(c)
  \/ HandleTimer \/ HandleExit \/ HandleEcall \/ HandleFault
  \/ HandleInterrupt \/ HandlePanic
  \/ TrapLeave
  \/ Halted

HartSpec == HartInit /\ [][HartNext]_hvars

-----------------------------------------------------------------------------
(* The hart's registers hold what the vector and the handlers put there.   *)
HartTypeOK ==
  /\ TypeOK
  /\ frames \in [Slots \cup {Boot} -> Regs]
  /\ mscratch \in Slots \cup {Boot}
  /\ cpu \in [regs : Regs, pc : PCs]
  /\ mepc \in PCs
  /\ mode \in {"S", "enter", "leave", "halt"}
  /\ spawning \in 1 .. PidMod - 1 \cup {None}

(* The next trap saves into the frame of the thread that is running, and   *)
(* into TRAP_FRAME only while skmain runs (csrw mscratch in m_trap and     *)
(* do_syscall against TABLE.current).                                      *)
FrameOfCurrent ==
  mode # "halt" => mscratch = IF current = None THEN Boot ELSE current

(* Where the context of the thread in slot i is. *)
ContextOf(i) ==
  IF slots[i] = None THEN None
  ELSE IF i # current THEN [regs |-> frames[i], pc |-> slots[i].pc]
  ELSE IF mode = "S" THEN cpu
  ELSE [regs |-> frames[i], pc |-> mepc]

(* The trap vector, schedule and spawn_kernel together give every thread a *)
(* processor of its own, which starts with the entry registers at `entry'. *)
Virtual == INSTANCE VirtualCpus
             WITH vcpu <- [i \in Slots |-> ContextOf(i)], running <- current,
                  kernel <- mode # "S", Entry <- [regs |-> EntryRegs, pc |-> 0]

OwnProcessor == Virtual!Spec
=============================================================================

-------------------------------- MODULE Boot --------------------------------
(***************************************************************************)
(* From reset to skmain: boot.S, kinit (boot/entry.rs), the trap set-up    *)
(* (arch/riscv64/trap.rs) and enter_sv39 (arch/riscv64/paging.rs), over    *)
(* the image that lds/virt.lds lays out.                                   *)
(*                                                                         *)
(* `stage' is what hart 0 executes next: kinit goes call by call, and      *)
(* enter_sv39 instruction by instruction, because an interrupt may be      *)
(* taken between them.  mstatus and mret follow the privileged             *)
(* architecture: a trap saves MIE in MPIE and the mode in MPP, and mret    *)
(* puts them back.                                                         *)
(***************************************************************************)
EXTENDS VirtioSetup, Sequences

CONSTANTS
  PAGE_SIZE,
  Origin,                                   \* ORIGIN(ram)
  TextLen, RodataLen, DataLen, BssLen,      \* sizes of the linked sections
  StackLen,                                 \* 0x80000
  MemoryEnd,                                \* ORIGIN(ram) + LENGTH(ram)
  UART_BASE, MMIO_VIRTIO_START,             \* page-aligned, below RAM
  MaxInterrupts                             \* bound: interrupts taken

ASSUME ImageAssumption ==
  /\ PAGE_SIZE \in Nat \ {0}
  /\ {Origin, TextLen, RodataLen, DataLen, BssLen, StackLen, MemoryEnd} \subseteq Nat
  /\ {UART_BASE, MMIO_VIRTIO_START, MaxInterrupts} \subseteq Nat
  /\ \A a \in {Origin, MemoryEnd, UART_BASE, MMIO_VIRTIO_START} : a % PAGE_SIZE = 0
  /\ UART_BASE + PAGE_SIZE <= Origin
  /\ MMIO_VIRTIO_START + NumSlots * PAGE_SIZE <= Origin

VARIABLES
  stage,
  mode,           \* "M", "S" or "U"
  MIE, MPIE, MPP, \* fields of mstatus
  mepc,           \* a stage
  mie,            \* MTIE and MEIE are set
  mtvec,          \* "reset", "asm_trap_vector" (boot.S) or "m_trap_vector"
  mscratch,       \* points at TRAP_FRAME, which has its trap stack
  satp,           \* selects the tables that kinit built
  space,          \* page |-> permissions in those tables, or None
  mapped,         \* calls to map_section so far
  plic,           \* enabled sources
  trapped,        \* in m_trap, for an interrupt
  interrupts,     \* history: interrupts taken
  clobbered       \* history: one came between `csrw mepc' and `csrw mstatus'

hart == <<mode, MIE, MPIE, MPP, mepc, trapped, interrupts, clobbered>>

csrs == <<mie, mtvec, mscratch, satp>>

bootVars == <<stage, hart, csrs, space, mapped, plic, setupVars>>

-----------------------------------------------------------------------------
(* The image and the ranges kinit maps. *)

align_down(a) == a - (a % PAGE_SIZE)

align_up(a) == IF a % PAGE_SIZE = 0 THEN a ELSE a + (PAGE_SIZE - (a % PAGE_SIZE))

text_end == Origin + TextLen

rodata_start == align_up(text_end)

rodata_end == rodata_start + RodataLen

data_start_Packed == rodata_end

data_start == align_up(rodata_end)

data_end == data_start + DataLen

bss_end == data_end + BssLen

stack_end == bss_end + StackLen

(* The image fits in the region `ram', or it does not link. *)
ASSUME ImageFits == stack_end <= MemoryEnd

Range(start, end, bits) == [start |-> start, end |-> end, bits |-> bits]

Sections ==
  <<Range(Origin, text_end, "rx"),
    Range(rodata_start, rodata_end, "ro"),
    Range(data_start, data_end, "rw"),
    Range(data_end, bss_end, "rw"),
    Range(bss_end, stack_end, "rw"),
    Range(stack_end, MemoryEnd, "rw"),
    Range(UART_BASE, UART_BASE + PAGE_SIZE, "rw"),
    Range(MMIO_VIRTIO_START, MMIO_VIRTIO_START + NumSlots * PAGE_SIZE, "rw")>>

PagesOf(r) == align_down(r.start) \div PAGE_SIZE .. align_up(r.end) \div PAGE_SIZE - 1

UART0_IRQ == 10

AllPages == 0 .. MemoryEnd \div PAGE_SIZE - 1

-----------------------------------------------------------------------------
(* mret, and the step of kinit that is due *)

Mret ==
  /\ mode' = MPP
  /\ MIE' = MPIE
  /\ MPIE' = TRUE
  /\ MPP' = "U"
  /\ stage' = mepc
  /\ UNCHANGED <<mepc, interrupts, clobbered>>

At(s) == stage = s /\ ~trapped

Step(from, to) == At(from) /\ stage' = to

(* boot.S, hart 0: mstatus, mepc and mtvec, then mret into kinit. *)
Start ==
  /\ Step("_start", "kinit")
  /\ mtvec' = "asm_trap_vector"
  /\ mepc' = "kinit"
  /\ mode' = "M" /\ MPP' = "U"
  /\ MIE' = TRUE /\ MPIE' = TRUE        \* mret moves MPIE, written as 1, to MIE
  /\ UNCHANGED <<mie, mscratch, satp, trapped, interrupts, clobbered,
                 space, mapped, plic, setupVars>>

(* uart.init, page_frame::init, and the root table. *)
InitHeap ==
  /\ Step("kinit", "map_section")
  /\ space' = [p \in AllPages |-> None]
  /\ UNCHANGED <<hart, csrs, mapped, plic, setupVars>>

MapSection ==
  /\ At("map_section")
  /\ mapped < Len(Sections)
  /\ LET r == Sections[mapped + 1]
     IN  space' = [p \in AllPages |-> IF p \in PagesOf(r) THEN r.bits ELSE space[p]]
  /\ mapped' = mapped + 1
  /\ UNCHANGED <<stage, hart, csrs, plic, setupVars>>

SectionsMapped ==
  /\ mapped = Len(Sections)
  /\ Step("map_section", "install")
  /\ UNCHANGED <<hart, csrs, space, mapped, plic, setupVars>>

install_NoVector ==
  /\ Step("install", "plic")
  /\ mscratch' = TRUE
  /\ UNCHANGED <<hart, mie, mtvec, satp, space, mapped, plic, setupVars>>

install ==
  /\ Step("install", "plic")
  /\ mscratch' = TRUE
  /\ mtvec' = "m_trap_vector"
  /\ UNCHANGED <<hart, mie, satp, space, mapped, plic, setupVars>>

RouteUart ==
  /\ Step("plic", "probe")
  /\ plic' = plic \cup {UART0_IRQ}
  /\ UNCHANGED <<hart, csrs, space, mapped, setupVars>>

(* An access that faults traps here and comes back. *)
ProbeStep ==
  /\ At("probe")
  /\ Probe
  /\ mepc' = IF faults' = faults THEN mepc ELSE "probe"
  /\ UNCHANGED <<stage, mode, MIE, MPIE, MPP, trapped, interrupts, clobbered,
                 csrs, space, mapped, plic>>

RouteDisks_None ==
  /\ ~Probing
  /\ Step("probe", "enable_interrupts")
  /\ UNCHANGED <<hart, csrs, space, mapped, plic, setupVars>>

(* probe has returned: the sources of configured_irqs. *)
RouteDisks ==
  /\ ~Probing
  /\ Step("probe", "enable_interrupts")
  /\ plic' = plic \cup {irq(s) : s \in BLOCK_DEVICES}
  /\ UNCHANGED <<hart, csrs, space, mapped, setupVars>>

enable_interrupts ==
  /\ Step("enable_interrupts", "csrw satp")
  /\ mie' = TRUE
  /\ UNCHANGED <<hart, mtvec, mscratch, satp, space, mapped, plic, setupVars>>

(* zallocate(..).expect in kinit, map and install. *)
OutOfMemory ==
  /\ ~trapped /\ stage \in {"kinit", "map_section", "install"}
  /\ stage' = "panic"
  /\ UNCHANGED <<hart, csrs, space, mapped, plic, setupVars>>

-----------------------------------------------------------------------------
(* enter_sv39 *)

WriteSatp ==
  /\ Step("csrw satp", "csrw mepc")
  /\ satp' = TRUE
  /\ UNCHANGED <<hart, mie, mtvec, mscratch, space, mapped, plic, setupVars>>

WriteMepc ==
  /\ Step("csrw mepc", "csrw mstatus")
  /\ mepc' = "skmain"
  /\ UNCHANGED <<mode, MIE, MPIE, MPP, trapped, interrupts, clobbered,
                 csrs, space, mapped, plic, setupVars>>

WriteMstatus_SetsBits ==
  /\ At("csrw mstatus")
  /\ stage' = "mret" /\ MPP' = "S" /\ MPIE' = TRUE
  /\ UNCHANGED <<mode, MIE, mepc, trapped, interrupts, clobbered,
                 csrs, space, mapped, plic, setupVars>>

(* In S-mode the instruction is illegal, which m_trap answers by panicking. *)
WriteMstatus ==
  /\ At("csrw mstatus")
  /\ IF mode = "M"
       THEN stage' = "mret" /\ MPP' = "S" /\ MPIE' = TRUE /\ MIE' = FALSE
       ELSE stage' = "panic" /\ UNCHANGED <<MPP, MPIE, MIE>>
  /\ UNCHANGED <<mode, mepc, trapped, interrupts, clobbered,
                 csrs, space, mapped, plic, setupVars>>

EnterSupervisor ==
  /\ At("mret")
  /\ Mret
  /\ UNCHANGED <<trapped, csrs, space, mapped, plic, setupVars>>

-----------------------------------------------------------------------------
(* The timer or an enabled source interrupts; m_trap runs and resumes what *)
(* it interrupted, since no thread is in the process table yet.            *)

Interrupt ==
  /\ interrupts < MaxInterrupts
  /\ ~trapped /\ stage # "panic"
  /\ mie /\ (mode = "S" \/ MIE)
  /\ trapped' = TRUE
  /\ mode' = "M" /\ MPP' = mode
  /\ MIE' = FALSE /\ MPIE' = MIE
  /\ mepc' = stage
  /\ interrupts' = interrupts + 1
  /\ clobbered' = (clobbered \/ (mode = "M" /\ stage = "csrw mstatus"))
  /\ UNCHANGED <<stage, csrs, space, mapped, plic, setupVars>>

TrapReturn ==
  /\ trapped
  /\ trapped' = FALSE
  /\ Mret
  /\ UNCHANGED <<csrs, space, mapped, plic, setupVars>>

(* skmain goes on (Skmain.tla); abort loops for good. *)
Idle == ~trapped /\ stage \in {"skmain", "panic"} /\ UNCHANGED bootVars

-----------------------------------------------------------------------------
Init ==
  /\ stage = "_start" /\ mode = "M"
  /\ MIE = FALSE /\ MPIE = FALSE /\ MPP = "U" /\ mepc = "_start"
  /\ mie = FALSE /\ mtvec = "reset" /\ mscratch = FALSE /\ satp = FALSE
  /\ space = [p \in AllPages |-> None] /\ mapped = 0
  /\ plic = {}
  /\ trapped = FALSE /\ interrupts = 0 /\ clobbered = FALSE
  /\ SetupInit

Kinit ==
  \/ Start \/ InitHeap \/ MapSection \/ SectionsMapped \/ install \/ RouteUart
  \/ ProbeStep \/ RouteDisks \/ enable_interrupts \/ OutOfMemory
  \/ WriteSatp \/ WriteMepc \/ WriteMstatus \/ EnterSupervisor

Next == Kinit \/ Interrupt \/ TrapReturn \/ Idle

(* The hart executes instruction after instruction, in and out of m_trap. *)
Spec == Init /\ [][Next]_bootVars /\ WF_bootVars(Kinit) /\ WF_bootVars(TrapReturn)

-----------------------------------------------------------------------------
Stages ==
  {"_start", "kinit", "map_section", "install", "plic", "probe", "enable_interrupts",
   "csrw satp", "csrw mepc", "csrw mstatus", "mret", "skmain", "panic"}

BootTypeOK ==
  /\ SetupTypeOK
  /\ stage \in Stages /\ mepc \in Stages
  /\ mode \in {"M", "S", "U"} /\ MPP \in {"M", "S", "U"}
  /\ {MIE, MPIE, mie, mscratch, satp, trapped, clobbered} \subseteq BOOLEAN
  /\ mtvec \in {"reset", "asm_trap_vector", "m_trap_vector"}
  /\ space \in [AllPages -> {None, "rx", "ro", "rw"}]
  /\ mapped \in 0 .. Len(Sections)
  /\ plic \subseteq {UART0_IRQ} \cup {irq(s) : s \in Slots}
  /\ interrupts \in 0 .. MaxInterrupts

(* "rounding matters because linker sections are byte-aligned [...] over-  *)
(* mapping a few bytes is harmless" (entry.rs:29): rounded out and mapped  *)
(* one over the other, every byte of every range still has, once paging is *)
(* on, the permissions of its own range.                                   *)
KernelMapped ==
  satp => \A i \in DOMAIN Sections : \A a \in Sections[i].start .. Sections[i].end - 1 :
            space[a \div PAGE_SIZE] = Sections[i].bits

(* No trap is taken, for an interrupt or for a probe that faults, before   *)
(* m_trap_vector and its frame are in place (install, enable_interrupts).  *)
TrapsVectored ==
  [][(trapped' /\ ~trapped) \/ faults' # faults
        => mtvec = "m_trap_vector" /\ mscratch]_bootVars

(* Whoever runs in S-mode has paging, interrupts on, and a routed source   *)
(* for every disk that first_block_device may return.                      *)
SupervisorReady ==
  mode = "S" =>
    satp /\ mie /\ UART0_IRQ \in plic /\ \A s \in BLOCK_DEVICES : irq(s) \in plic

(* kinit ends in skmain whatever interrupts it, except for an interrupt    *)
(* between `csrw mepc' and `csrw mstatus' of enter_sv39.                   *)
OneWindow == mode # "M" /\ ~clobbered => mode = "S" /\ stage = "skmain"

(* "then `mret`s into [`skmain`] in S-mode" (entry.rs:43). *)
EntersSkmain == mode # "M" => mode = "S" /\ stage = "skmain"
=============================================================================

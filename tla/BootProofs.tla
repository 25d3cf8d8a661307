----------------------------- MODULE BootProofs -----------------------------
(***************************************************************************)
(* Theorems about the boot sequence, for every image that fits in memory,  *)
(* every page size, every number of MMIO slots, and any number of          *)
(* interrupts and faulting accesses.                                       *)
(*                                                                         *)
(* There are four arguments, each with an invariant of its own: Hart, on   *)
(* what each stage of kinit has already set up; Mapping, on the pages the  *)
(* sections occupy; Disks, on how far setup_block_device has come with the *)
(* slot that probe is at; and Accounted, on the pages skmain's tests hold. *)
(***************************************************************************)
EXTENDS Skmain, Elf, TLAPS

-----------------------------------------------------------------------------
(* Pages and alignment *)

(* The page size is positive. *)
LEMMA PageSize == PAGE_SIZE \in Nat \ {0}
  BY ImageAssumption

(* Pages are numbered from 0, and a higher address is not on a lower page. *)
LEMMA PageMonotonic ==
  ASSUME NEW a \in Nat, NEW b \in Nat, a <= b
  PROVE  a \div PAGE_SIZE \in Nat /\ a \div PAGE_SIZE <= b \div PAGE_SIZE
  BY PageSize

(* An address below a page boundary is on an earlier page. *)
LEMMA PageBelow ==
  ASSUME NEW a \in Nat, NEW b \in Nat, a < b, b % PAGE_SIZE = 0
  PROVE  a \div PAGE_SIZE < b \div PAGE_SIZE
  BY PageSize

(* align_down stays on the page. *)
LEMMA AlignDown ==
  ASSUME NEW a \in Nat
  PROVE  align_down(a) \in Nat /\ align_down(a) \div PAGE_SIZE = a \div PAGE_SIZE
  BY PageSize DEF align_down

(* Off a boundary, align_up goes to the start of the next page. *)
LEMMA RoundedUp ==
  ASSUME NEW a \in Nat, a % PAGE_SIZE # 0
  PROVE  align_up(a) = PAGE_SIZE * ((a \div PAGE_SIZE) + 1)
  BY PageSize DEF align_up

(* Multiples of the page size are boundaries. *)
LEMMA Boundary ==
  ASSUME NEW q \in Nat
  PROVE  PAGE_SIZE * q \in Nat /\ (PAGE_SIZE * q) % PAGE_SIZE = 0
  BY PageSize

(* align_up goes up, to a page boundary. *)
LEMMA AlignUp ==
  ASSUME NEW a \in Nat
  PROVE  align_up(a) \in Nat /\ a <= align_up(a) /\ align_up(a) % PAGE_SIZE = 0
<1>1. CASE a % PAGE_SIZE = 0
  BY <1>1 DEF align_up
<1>2. CASE a % PAGE_SIZE # 0
  <2>1. (a \div PAGE_SIZE) + 1 \in Nat
    BY PageSize
  <2>2. align_up(a) \in Nat /\ align_up(a) % PAGE_SIZE = 0
    BY <1>2, <2>1, RoundedUp, Boundary
  <2>3. a <= align_up(a)
    BY <1>2, PageSize DEF align_up
  <2> QED
    BY <2>2, <2>3
<1> QED
  BY <1>1, <1>2

(* align_up goes no further than the first boundary. *)
LEMMA AlignUpLeast ==
  ASSUME NEW a \in Nat, NEW b \in Nat, a <= b, b % PAGE_SIZE = 0
  PROVE  align_up(a) <= b
<1>1. CASE a % PAGE_SIZE = 0
  BY <1>1 DEF align_up
<1>2. CASE a % PAGE_SIZE # 0
  <2>1. PICK q \in Nat, k \in Nat : q = a \div PAGE_SIZE /\ k = b \div PAGE_SIZE
    BY PageSize
  <2>2. q < k
    BY <1>2, <2>1, PageBelow
  <2>3. b = PAGE_SIZE * k
    BY <2>1, PageSize
  <2>4. PAGE_SIZE * (q + 1) <= PAGE_SIZE * k
    BY <2>2, PageSize
  <2> QED
    BY <1>2, <2>1, <2>3, <2>4, RoundedUp
<1> QED
  BY <1>1, <1>2

(* Every byte of a range is on one of the pages that map_section gives it. *)
LEMMA ByteCovered ==
  ASSUME NEW start \in Nat, NEW end \in Nat, NEW bits, NEW a \in start .. end - 1
  PROVE  a \div PAGE_SIZE \in PagesOf(Range(start, end, bits))
<1>1. PICK up \in Nat : up = align_up(end) /\ a < up /\ up % PAGE_SIZE = 0
  BY AlignUp
<1>2. start \div PAGE_SIZE <= a \div PAGE_SIZE
  BY PageMonotonic
<1>3. a \div PAGE_SIZE < up \div PAGE_SIZE
  BY <1>1, PageBelow
<1>4. align_down(start) \div PAGE_SIZE = start \div PAGE_SIZE
  BY AlignDown
<1>5. a \div PAGE_SIZE \in Int /\ start \div PAGE_SIZE \in Int /\ up \div PAGE_SIZE \in Int
  BY <1>1, PageSize
<1> QED
  BY <1>1, <1>2, <1>3, <1>4, <1>5 DEF PagesOf, Range

(* The pages of a range lie between the pages of the boundaries around it. *)
LEMMA PagesWithin ==
  ASSUME NEW start \in Nat, NEW end \in Nat, NEW bits,
         NEW low \in Nat, NEW high \in Nat, high % PAGE_SIZE = 0,
         low <= start, end <= high
  PROVE  PagesOf(Range(start, end, bits)) \subseteq low \div PAGE_SIZE .. high \div PAGE_SIZE - 1
<1>1. PICK up \in Nat : up = align_up(end) /\ up <= high
  BY AlignUp, AlignUpLeast
<1>2. low \div PAGE_SIZE <= start \div PAGE_SIZE /\ up \div PAGE_SIZE <= high \div PAGE_SIZE
  BY <1>1, PageMonotonic
<1>3. align_down(start) \div PAGE_SIZE = start \div PAGE_SIZE
  BY AlignDown
<1>4. low \div PAGE_SIZE \in Int /\ start \div PAGE_SIZE \in Int
      /\ up \div PAGE_SIZE \in Int /\ high \div PAGE_SIZE \in Int
  BY <1>1, PageSize
<1> QED
  BY <1>1, <1>2, <1>3, <1>4 DEF PagesOf, Range

-----------------------------------------------------------------------------
(* The sections *)

(* The addresses of the linked image, in the order of virt.lds. *)
LEMMA ImageOrder ==
  /\ {Origin, text_end, rodata_start, rodata_end, data_start, data_end,
      bss_end, stack_end, MemoryEnd} \subseteq Nat
  /\ Origin <= text_end /\ text_end <= rodata_start /\ rodata_start <= rodata_end
  /\ rodata_end <= data_start /\ data_start <= data_end /\ data_end <= bss_end
  /\ bss_end <= stack_end /\ stack_end <= MemoryEnd
  /\ rodata_start % PAGE_SIZE = 0 /\ data_start % PAGE_SIZE = 0
<1>1. text_end \in Nat /\ Origin <= text_end
  BY ImageAssumption DEF text_end
<1>2. rodata_start \in Nat /\ text_end <= rodata_start /\ rodata_start % PAGE_SIZE = 0
  BY <1>1, AlignUp DEF rodata_start
<1>3. rodata_end \in Nat /\ rodata_start <= rodata_end
  BY <1>2, ImageAssumption DEF rodata_end
<1>4. data_start \in Nat /\ rodata_end <= data_start /\ data_start % PAGE_SIZE = 0
  BY <1>3, AlignUp DEF data_start
<1>5. data_end \in Nat /\ data_start <= data_end /\ bss_end \in Nat /\ data_end <= bss_end
      /\ stack_end \in Nat /\ bss_end <= stack_end
  BY <1>4, ImageAssumption DEF data_end, bss_end, stack_end
<1> QED
  BY <1>1, <1>2, <1>3, <1>4, <1>5, ImageAssumption, ImageFits

(* The eight ranges that kinit maps. *)
LEMMA SectionList ==
  /\ Len(Sections) = 8 /\ DOMAIN Sections = 1 .. 8
  /\ Sections[1] = Range(Origin, text_end, "rx")
  /\ Sections[2] = Range(rodata_start, rodata_end, "ro")
  /\ Sections[3] = Range(data_start, data_end, "rw")
  /\ Sections[4] = Range(data_end, bss_end, "rw")
  /\ Sections[5] = Range(bss_end, stack_end, "rw")
  /\ Sections[6] = Range(stack_end, MemoryEnd, "rw")
  /\ Sections[7] = Range(UART_BASE, UART_BASE + PAGE_SIZE, "rw")
  /\ Sections[8] = Range(MMIO_VIRTIO_START, MMIO_VIRTIO_START + NumSlots * PAGE_SIZE, "rw")
  BY DEF Sections

(* The ranges are ranges of addresses. *)
LEMMA SectionTypes ==
  \A i \in 1 .. 8 : \E s \in Nat, e \in Nat, b \in {"rx", "ro", "rw"} :
    Sections[i] = Range(s, e, b) /\ e <= MemoryEnd
<1>1. UART_BASE \in Nat /\ UART_BASE + PAGE_SIZE \in Nat /\ UART_BASE + PAGE_SIZE <= MemoryEnd
  BY ImageAssumption, ImageOrder
<1>2. PICK n \in Nat : n = NumSlots * PAGE_SIZE
  BY SlotAssumption, PageSize
<1>3. MMIO_VIRTIO_START \in Nat /\ MMIO_VIRTIO_START + n <= MemoryEnd
      /\ MMIO_VIRTIO_START + n \in Nat
  BY <1>2, ImageAssumption, ImageOrder
<1> QED
  BY <1>1, <1>2, <1>3, ImageOrder, SectionList

(* Rounded out to pages, text, read-only data and the writable sections    *)
(* share no page, because virt.lds aligns .rodata and .data; the device    *)
(* ranges end below RAM.                                                   *)
LEMMA PermissionsDisjoint ==
  ASSUME NEW i \in 1 .. 8, NEW j \in 1 .. 8, Sections[i].bits # Sections[j].bits
  PROVE  PagesOf(Sections[i]) \cap PagesOf(Sections[j]) = {}
<1> DEFINE page(a) == a \div PAGE_SIZE
<1>1. /\ PagesOf(Sections[1]) \subseteq page(Origin) .. page(rodata_start) - 1
      /\ PagesOf(Sections[2]) \subseteq page(rodata_start) .. page(data_start) - 1
  BY PagesWithin, ImageOrder, SectionList
<1>2. \A k \in 3 .. 6 : PagesOf(Sections[k]) \subseteq page(data_start) .. page(MemoryEnd) - 1
  <2>1. MemoryEnd % PAGE_SIZE = 0
    BY ImageAssumption
  <2> QED
    BY <2>1, PagesWithin, ImageOrder, SectionList
<1>3. \A k \in 7 .. 8 : PagesOf(Sections[k]) \subseteq page(0) .. page(Origin) - 1
  <2>1. Origin % PAGE_SIZE = 0 /\ UART_BASE \in Nat /\ UART_BASE + PAGE_SIZE \in Nat
        /\ UART_BASE + PAGE_SIZE <= Origin
    BY ImageAssumption
  <2>2. PICK n \in Nat : n = NumSlots * PAGE_SIZE
    BY SlotAssumption, PageSize
  <2>3. MMIO_VIRTIO_START \in Nat /\ MMIO_VIRTIO_START + n \in Nat
        /\ MMIO_VIRTIO_START + n <= Origin
    BY <2>2, ImageAssumption
  <2> QED
    BY <2>1, <2>2, <2>3, PagesWithin, ImageOrder, SectionList
<1>4. page(Origin) <= page(rodata_start) /\ page(rodata_start) <= page(data_start)
      /\ page(Origin) \in Int /\ page(rodata_start) \in Int /\ page(data_start) \in Int
      /\ page(MemoryEnd) \in Int /\ page(0) \in Int
  BY PageMonotonic, ImageOrder, PageSize
<1>5. Sections[1].bits = "rx" /\ Sections[2].bits = "ro" /\ \A k \in 3 .. 8 : Sections[k].bits = "rw"
  BY SectionList DEF Range
<1> HIDE DEF page
<1> QED
  BY <1>1, <1>2, <1>3, <1>4, <1>5

-----------------------------------------------------------------------------
(* What each stage has already set up *)

Enabled == {"csrw satp", "csrw mepc", "csrw mstatus", "mret", "skmain"}

Vectored == {"plic", "probe", "enable_interrupts"} \cup Enabled

Paged == {"csrw mepc", "csrw mstatus", "mret", "skmain"}

(* The mode of the code that runs, or that an interrupt has suspended. *)
Mode == IF trapped THEN MPP ELSE mode

Routed == UART0_IRQ \in plic /\ \A s \in BLOCK_DEVICES : irq(s) \in plic

Prepared ==
  /\ stage \in Stages /\ mepc \in Stages
  /\ MIE \in BOOLEAN /\ MPIE \in BOOLEAN /\ mie \in BOOLEAN /\ satp \in BOOLEAN
  /\ trapped \in BOOLEAN /\ clobbered \in BOOLEAN /\ mscratch \in BOOLEAN
  /\ stage \in Vectored \/ mie => mtvec = "m_trap_vector" /\ mscratch
  /\ stage \in {"probe", "enable_interrupts"} => UART0_IRQ \in plic
  /\ stage = "enable_interrupts" \/ mie => Routed
  /\ stage \in Enabled => mie
  /\ mie => stage \in Enabled \cup {"panic"}
  /\ stage \in Paged => satp
  /\ satp => mie

(* The window of enter_sv39: outside it mepc is skmain when mret runs. *)
Window ==
  /\ trapped => mie /\ mode = "M" /\ mepc = stage /\ stage \notin {"mret", "panic"}
                /\ (stage = "csrw mstatus" => clobbered)
  /\ Mode \in {"M", "S"}
  /\ Mode = "S" => satp /\ stage \in {"skmain", "csrw mstatus", "panic"}
  /\ Mode = "S" /\ ~clobbered => stage = "skmain"
  /\ stage = "skmain" => Mode = "S"
  /\ stage = "csrw mstatus" /\ ~trapped =>
       mepc \in {"skmain", "csrw mstatus"} /\ (~clobbered => mepc = "skmain")
  /\ stage = "mret" =>
       /\ ~trapped /\ ~MIE /\ mode = "M" /\ MPP = "S"
       /\ mepc \in {"skmain", "csrw mstatus"} /\ (~clobbered => mepc = "skmain")

Hart == Prepared /\ Window

(* The initial state: boot.S is about to run. *)
LEMMA HartInit == Init => Hart
  BY Zenon DEF Init, Hart, Prepared, Window, Mode, Routed, Stages, Vectored, Enabled, Paged,
     SetupInit

(* Every step keeps it.  Only probe changes BLOCK_DEVICES, and it runs     *)
(* with interrupts off, before RouteDisks reads the table.                 *)
LEMMA HartNext == Hart /\ [Next]_bootVars => Hart'
<1> SUFFICES ASSUME Hart, [Next]_bootVars PROVE Hart'
  OBVIOUS
<1> USE DEF Hart, Prepared, Window, Mode, Routed, Stages, Vectored, Enabled, Paged
<1>1. CASE Start
  BY <1>1, Zenon DEF Start, Step, At, hart, csrs, setupVars, tables
<1>2. CASE InitHeap
  BY <1>2, Zenon DEF InitHeap, Step, At, hart, csrs, setupVars, tables
<1>3. CASE MapSection
  BY <1>3, Zenon DEF MapSection, At, hart, csrs, setupVars, tables
<1>4. CASE SectionsMapped
  BY <1>4, Zenon DEF SectionsMapped, Step, At, hart, csrs, setupVars, tables
<1>5. CASE install
  BY <1>5, Zenon DEF install, Step, At, hart, csrs, setupVars, tables
<1>6. CASE RouteUart
  BY <1>6, Zenon DEF RouteUart, Step, At, hart, csrs, setupVars, tables
<1>7. CASE RouteDisks
  BY <1>7, Zenon DEF RouteDisks, Step, At, hart, csrs, setupVars, tables
<1>8. CASE enable_interrupts
  BY <1>8, Zenon DEF enable_interrupts, Step, At, hart, csrs, setupVars, tables
<1>9. CASE OutOfMemory
  BY <1>9, Zenon DEF OutOfMemory, hart, csrs, setupVars, tables
<1>10. CASE WriteSatp
  BY <1>10, Zenon DEF WriteSatp, Step, At, hart, csrs, setupVars, tables
<1>11. CASE WriteMepc
  BY <1>11, Zenon DEF WriteMepc, Step, At, hart, csrs, setupVars, tables
<1>12. CASE WriteMstatus
  BY <1>12, Zenon DEF WriteMstatus, At, hart, csrs, setupVars, tables
<1>13. CASE EnterSupervisor
  BY <1>13, Zenon DEF EnterSupervisor, At, hart, csrs, setupVars, tables, Mret
<1>14. CASE Interrupt
  BY <1>14, Zenon DEF Interrupt, hart, csrs, setupVars, tables
<1>15. CASE TrapReturn
  BY <1>15, Zenon DEF TrapReturn, hart, csrs, setupVars, tables, Mret
<1>16. CASE ProbeStep
  BY <1>16, Zenon DEF ProbeStep, At, csrs
<1>17. CASE UNCHANGED bootVars
  <2>1. UNCHANGED <<stage, mode, MIE, MPIE, MPP, mepc, mie, mtvec, mscratch, satp,
                    plic, trapped, clobbered, BLOCK_DEVICES>>
    BY <1>17, Zenon DEF bootVars, hart, csrs, setupVars, tables
  <2>2. Prepared'
    <3>1. Routed => Routed'
      BY <2>1, Zenon
    <3> HIDE DEF Routed, Stages, Vectored, Enabled, Paged, Window
    <3> QED
      BY <2>1, <3>1, Zenon
  <2>3. Window'
    BY <2>1, Zenon
  <2> QED
    BY <2>2, <2>3, Zenon
<1> QED
  BY <1>1, <1>2, <1>3, <1>4, <1>5, <1>6, <1>7, <1>8, <1>9, <1>10, <1>11, <1>12, <1>13,
     <1>14, <1>15, <1>16, <1>17, Zenon DEF Next, Kinit, Idle

(* Outside the window of enter_sv39, kinit leaves M-mode for skmain, in    *)
(* S-mode, whatever interrupts it and however often.                       *)
THEOREM OnlyOneWindow == Spec => []OneWindow
<1>1. Hart => OneWindow
  BY Zenon DEF Hart, Prepared, Window, Mode, OneWindow
<1> QED
  BY <1>1, HartInit, HartNext, PTL DEF Spec

(* Code in S-mode has paging, interrupts, and a routed source for every    *)
(* registered disk, even when the window is hit.                           *)
THEOREM SupervisorIsReady == Spec => []SupervisorReady
<1>1. Hart => SupervisorReady
  BY Zenon DEF Hart, Prepared, Window, Mode, Routed, SupervisorReady
<1> QED
  BY <1>1, HartInit, HartNext, PTL DEF Spec

(* Every trap, of an interrupt or of a faulting probe, finds m_trap_vector *)
(* and its frame in place.                                                 *)
THEOREM TrapsAreVectored == Spec => TrapsVectored
<1>1. Hart /\ [Next]_bootVars
        => [(trapped' /\ ~trapped) \/ faults' # faults
               => mtvec = "m_trap_vector" /\ mscratch]_bootVars
  <2> SUFFICES ASSUME Hart, Next, (trapped' /\ ~trapped) \/ faults' # faults
               PROVE  mtvec = "m_trap_vector" /\ mscratch
    OBVIOUS
  <2>1. CASE Interrupt
    BY <2>1, Zenon DEF Interrupt, Hart, Prepared
  <2>2. CASE ProbeStep
    BY <2>2 DEF ProbeStep, At, Hart, Prepared, Vectored
  <2>3. CASE TrapReturn \/ Idle
    BY <2>3 DEF TrapReturn, Idle, bootVars, hart, setupVars, history, Hart, Prepared
  <2>4. CASE Kinit /\ ~ProbeStep
    <3>1. UNCHANGED <<trapped, faults>>
      BY <2>4, Zenon DEF Kinit, Start, InitHeap, MapSection, SectionsMapped, install, RouteUart,
                  RouteDisks, enable_interrupts, OutOfMemory, WriteSatp, WriteMepc,
                  WriteMstatus, EnterSupervisor, hart, setupVars, history
    <3> QED
      BY <3>1, Zenon
  <2> QED
    BY <2>1, <2>2, <2>3, <2>4 DEF Next
<1> QED
  BY <1>1, HartInit, HartNext, PTL DEF Spec, TrapsVectored

-----------------------------------------------------------------------------
(* What the tables translate while kinit fills them *)

(* The pages of the ranges mapped so far have the permissions of their     *)
(* range; nothing after kinit's loop changes them.                         *)
Mapping ==
  /\ mapped \in 0 .. 8
  /\ stage \in {"_start", "kinit"} => mapped = 0
  /\ stage \in Vectored \cup {"install"} \/ satp => mapped = 8
  /\ \A i \in 1 .. mapped : \A p \in PagesOf(Sections[i]) \cap AllPages :
       space[p] = Sections[i].bits

(* One call of map_section: pages it shares with earlier ranges have the   *)
(* same permissions there (PermissionsDisjoint).                           *)
LEMMA MapSectionStep ==
  ASSUME Hart, Mapping, MapSection
  PROVE  Mapping'
<1>1. mapped \in 0 .. 7 /\ mapped' = mapped + 1 /\ stage = "map_section" /\ stage' = stage
      /\ satp' = satp
  <2>1. mapped \in 0 .. 8 /\ Len(Sections) = 8
    BY SectionList, Zenon DEF Mapping
  <2>2. /\ mapped < Len(Sections) /\ mapped' = mapped + 1
        /\ stage = "map_section" /\ UNCHANGED <<stage, csrs>>
    BY Zenon DEF MapSection, At
  <2>3. UNCHANGED <<stage, satp>>
    BY <2>2, Zenon DEF csrs
  <2> QED
    BY <2>1, <2>2, <2>3
<1>2. ~satp
  BY <1>1 DEF Hart, Prepared, Enabled
<1>3. ASSUME NEW i \in 1 .. mapped + 1, NEW p \in PagesOf(Sections[i]) \cap AllPages
      PROVE  space'[p] = Sections[i].bits
  <2>1. space'[p] = IF p \in PagesOf(Sections[mapped + 1]) THEN Sections[mapped + 1].bits
                                                           ELSE space[p]
    BY DEF MapSection
  <2>2. CASE p \in PagesOf(Sections[mapped + 1])
    <3>1. i \in 1 .. 8 /\ mapped + 1 \in 1 .. 8
      BY <1>1
    <3>2. Sections[i].bits = Sections[mapped + 1].bits
      BY <2>2, <3>1, PermissionsDisjoint
    <3> QED
      BY <2>1, <2>2, <3>2
  <2>3. CASE p \notin PagesOf(Sections[mapped + 1])
    <3>1. i \in 1 .. mapped
      BY <1>1, <2>3
    <3> QED
      BY <2>1, <2>3, <3>1 DEF Mapping
  <2> QED
    BY <2>2, <2>3
<1> QED
  BY <1>1, <1>2, <1>3 DEF Mapping, Vectored, Enabled

(* Every other step leaves space alone, or empties it before the first     *)
(* call.                                                                   *)
LEMMA MappingNext == Hart /\ Mapping /\ [Next]_bootVars => Mapping'
<1> SUFFICES ASSUME Hart, Mapping, [Next]_bootVars PROVE Mapping'
  OBVIOUS
<1>1. CASE MapSection
  BY <1>1, MapSectionStep
<1>2. CASE InitHeap
  <2>1. mapped' = 0 /\ stage' = "map_section" /\ ~satp'
    BY <1>2 DEF InitHeap, Step, At, Mapping, Hart, Prepared, Enabled, csrs
  <2>2. 1 .. mapped' = {} /\ mapped' \in 0 .. 8
    BY <2>1
  <2> QED
    BY <2>1, <2>2, Zenon DEF Mapping, Vectored, Enabled
<1>3. CASE UNCHANGED <<space, mapped>> /\ ~MapSection /\ ~InitHeap
  <2>1. (stage' \in {"_start", "kinit"} => mapped = 0)
        /\ (stage' \in Vectored \cup {"install"} \/ satp' => mapped = 8)
    <3>1. /\ satp \in BOOLEAN
          /\ stage \in {"_start", "kinit"} => mapped = 0
          /\ stage \in Vectored \cup {"install"} => mapped = 8
          /\ satp => mapped = 8
      BY DEF Mapping, Hart, Prepared
    <3> USE DEF Vectored, Enabled
    <3>2. CASE Start
      BY <3>1, <3>2 DEF Start, Step, At
    <3>3. CASE SectionsMapped
      BY <3>1, <3>3, SectionList DEF SectionsMapped, Step, At, csrs
    <3>4. CASE install \/ RouteUart \/ RouteDisks
      BY <3>1, <3>4, Zenon DEF install, RouteUart, RouteDisks, Step, At, csrs
    <3>5. CASE ProbeStep
      BY <3>1, <3>5 DEF ProbeStep, At, csrs
    <3>6. CASE enable_interrupts
      BY <3>1, <3>6, Zenon DEF enable_interrupts, Step, At
    <3>7. CASE OutOfMemory
      BY <3>1, <3>7, Zenon DEF OutOfMemory, csrs
    <3>8. CASE WriteSatp \/ WriteMepc \/ WriteMstatus
      BY <3>1, <3>8, Zenon DEF WriteSatp, WriteMepc, WriteMstatus, Step, At, csrs
    <3>9. CASE EnterSupervisor
      <4>1. stage = "mret" /\ stage' \in {"skmain", "csrw mstatus"} /\ satp' = satp
        BY <3>9, Zenon DEF EnterSupervisor, Mret, At, csrs, Hart, Window
      <4> QED
        BY <3>1, <4>1, Zenon
    <3>10. CASE Interrupt \/ TrapReturn \/ UNCHANGED bootVars
      <4>1. stage' = stage /\ satp' = satp
        BY <3>10, Zenon DEF Interrupt, TrapReturn, Mret, csrs, bootVars, Hart, Window
      <4> QED
        BY <3>1, <4>1, Zenon
    <3> QED
      BY <1>1, <1>2, <1>3, <3>2, <3>3, <3>4, <3>5, <3>6, <3>7, <3>8, <3>9, <3>10, Zenon
         DEF Next, Kinit, Idle
  <2> QED
    BY <1>3, <2>1 DEF Mapping
<1>4. MapSection \/ InitHeap \/ UNCHANGED <<space, mapped>>
  BY Zenon DEF Next, Kinit, Start, SectionsMapped, install, RouteUart, ProbeStep, RouteDisks,
         enable_interrupts, OutOfMemory, WriteSatp, WriteMepc, WriteMstatus,
         EnterSupervisor, Interrupt, TrapReturn, Idle, bootVars
<1> QED
  BY <1>1, <1>2, <1>3, <1>4

(* Once paging is on, every byte of every range kinit maps has the         *)
(* permissions of its own range, for every image that fits in memory and   *)
(* every page size (map_section, virt.lds).                                *)
THEOREM KernelIsMapped == Spec => []KernelMapped
<1>1. Init => Hart /\ Mapping
  BY HartInit DEF Init, Mapping, Vectored, Enabled
<1>2. Mapping => KernelMapped
  <2> SUFFICES ASSUME Mapping, satp, NEW i \in DOMAIN Sections,
                      NEW a \in Sections[i].start .. Sections[i].end - 1
               PROVE  space[a \div PAGE_SIZE] = Sections[i].bits
    BY DEF KernelMapped
  <2>1. i \in 1 .. 8 /\ mapped = 8
    BY SectionList DEF Mapping
  <2>2. PICK s \in Nat, e \in Nat, b \in {"rx", "ro", "rw"} :
          Sections[i] = Range(s, e, b) /\ e <= MemoryEnd
    BY <2>1, SectionTypes, Zenon
  <2>3. a \in s .. e - 1
    BY <2>2 DEF Range
  <2>4. a \div PAGE_SIZE \in PagesOf(Sections[i])
    BY <2>2, <2>3, ByteCovered, Zenon
  <2>5. a \div PAGE_SIZE < MemoryEnd \div PAGE_SIZE
    <3>1. MemoryEnd \in Nat /\ MemoryEnd % PAGE_SIZE = 0
      BY ImageAssumption
    <3> QED
      BY <2>2, <2>3, <3>1, PageBelow
  <2>6. a \div PAGE_SIZE \in Nat /\ MemoryEnd \div PAGE_SIZE \in Nat
    BY <2>3, PageMonotonic, ImageOrder
  <2>7. a \div PAGE_SIZE \in AllPages
    BY <2>5, <2>6 DEF AllPages
  <2> QED
    BY <2>1, <2>4, <2>7 DEF Mapping
<1> QED
  BY <1>1, <1>2, HartNext, MappingNext, PTL DEF Spec

-----------------------------------------------------------------------------
(* How far probe has come *)

(* The registers written by the time the code is about to make an access. *)
WrittenBefore(reg) ==
  CASE reg \in {"FeaturesOk", "ReadStatus", "QueueSel"} -> {"GuestFeatures"}
    [] reg \in {"QueueNumMax", "QueueNum"} -> {"GuestFeatures", "QueueSel"}
    [] reg = "QueueAlign" -> {"GuestFeatures", "QueueSel", "QueueNum"}
    [] reg = "GuestPageSize" -> {"GuestFeatures", "QueueSel", "QueueNum", "QueueAlign"}
    [] reg = "QueuePfn" -> ProgramSet \ {"QueuePfn"}
    [] reg = "DriverOk" -> ProgramSet
    [] OTHER -> {}

(* A slot that probe has not touched, or gave up. *)
Blank(s) == s \notin queues /\ s \notin BLOCK_DEVICES /\ "DRIVER_OK" \notin status[s]

Disks ==
  /\ slot \in Nat
  /\ status = [s \in Slots |-> status[s]] /\ written = [s \in Slots |-> written[s]]
  /\ slot \in Slots =>
       /\ written[slot] = WrittenBefore(step)
       /\ "DRIVER_OK" \notin status[slot]
       /\ slot \in queues <=> step \in {"QueuePfn", "DriverOk"}
       /\ slot \in BLOCK_DEVICES <=> step = "DriverOk"
  /\ \A s \in Slots : s > slot => Blank(s) /\ written[s] = {}
  /\ LiveIsSetUp
  /\ AllOrNothing

(* The order of the accesses, register by register. *)
LEMMA AccessOrder ==
  /\ After["Magic"] = "DeviceId" /\ After["DeviceId"] = "Reset"
  /\ After["Reset"] = "Acknowledge" /\ After["Acknowledge"] = "Driver"
  /\ After["Driver"] = "HostFeatures" /\ After["HostFeatures"] = "GuestFeatures"
  /\ After["GuestFeatures"] = "FeaturesOk" /\ After["FeaturesOk"] = "ReadStatus"
  /\ After["ReadStatus"] = "QueueSel" /\ After["QueueSel"] = "QueueNumMax"
  /\ After["QueueNumMax"] = "QueueNum" /\ After["QueueNum"] = "QueueAlign"
  /\ After["QueueAlign"] = "GuestPageSize" /\ After["GuestPageSize"] = "QueuePfn"
  /\ After["QueuePfn"] = "DriverOk"
  BY DEF After

(* The Status values, by whether they set the device going. *)
LEMMA StatusValues ==
  /\ DOMAIN StatusAt = {"Reset", "Acknowledge", "Driver", "FeaturesOk", "DriverOk"}
  /\ \A reg \in {"Reset", "Acknowledge", "Driver", "FeaturesOk"} : "DRIVER_OK" \notin StatusAt[reg]
  /\ "DRIVER_OK" \in StatusAt["DriverOk"]
  BY DEF StatusAt

(* Moving on to the next slot: what is required of the one it leaves. *)
LEMMA NextSlotStep ==
  ASSUME Disks, Probing, NextSlot,
         status' = [s \in Slots |-> status'[s]], written' = [s \in Slots |-> written'[s]],
         \A s \in Slots \ {slot} : status'[s] = status[s] /\ written'[s] = written[s],
         \A s \in Slots \ {slot} : s \in cutShort' <=> s \in cutShort,
         slot \in queues /\ slot \notin cutShort' => "DRIVER_OK" \in status'[slot],
         "DRIVER_OK" \in status'[slot] => slot \in BLOCK_DEVICES /\ written'[slot] = ProgramSet,
         UNCHANGED <<queues, BLOCK_DEVICES>>
  PROVE  Disks'
<1>1. slot \in Slots /\ slot' = slot + 1 /\ slot' \in Nat /\ step' = "Magic"
  BY SlotAssumption DEF Disks, Probing, NextSlot, Slots
<1>2. \A s \in Slots : s \in Int
  BY SlotAssumption DEF Slots
<1>3. slot \in BLOCK_DEVICES => slot \in queues
  BY <1>1 DEF Disks
<1>4. LiveIsSetUp'
  <2>1. LiveIsSetUp
    BY DEF Disks
  <2> QED
    BY <1>1, <1>3, <2>1 DEF LiveIsSetUp
<1>5. AllOrNothing'
  <2> SUFFICES ASSUME NEW s \in Slots, s < slot', s \notin cutShort'
               PROVE  \/ s \in queues' /\ s \in BLOCK_DEVICES' /\ "DRIVER_OK" \in status'[s]
                      \/ s \notin queues' /\ s \notin BLOCK_DEVICES' /\ "DRIVER_OK" \notin status'[s]
    BY DEF AllOrNothing, Slots
  <2>1. CASE s = slot
    BY <1>1, <1>3, <2>1
  <2>2. CASE s # slot
    <3>1. s < slot /\ AllOrNothing
      BY <1>1, <1>2, <2>2 DEF Disks
    <3> QED
      BY <2>2, <3>1 DEF AllOrNothing
  <2> QED
    BY <2>1, <2>2
<1>6. \A s \in Slots : s > slot => (Blank(s) /\ written[s] = {})'
  <2>1. \A s \in Slots : s > slot => Blank(s) /\ written[s] = {} /\ s # slot
    BY <1>1, <1>2 DEF Disks
  <2> QED
    BY <2>1 DEF Blank
<1>7. WrittenBefore("Magic") = {}
  BY DEF WrittenBefore
<1>8. slot' \in Slots => /\ written'[slot'] = WrittenBefore(step')
                         /\ "DRIVER_OK" \notin status'[slot']
                         /\ slot' \notin queues' /\ slot' \notin BLOCK_DEVICES'
  <2> SUFFICES ASSUME slot' \in Slots
               PROVE  /\ written'[slot'] = WrittenBefore(step')
                      /\ "DRIVER_OK" \notin status'[slot']
                      /\ slot' \notin queues' /\ slot' \notin BLOCK_DEVICES'
    OBVIOUS
  <2>1. slot' > slot /\ slot' # slot /\ slot' \in Slots
    BY <1>1, <1>2
  <2>2. (Blank(slot') /\ written[slot'] = {}) /\ slot' # slot
    BY <2>1, Zenon DEF Disks
  <2> QED
    BY <1>1, <1>7, <2>2, Zenon DEF Blank
<1>9. \A s \in Slots : s > slot' => (Blank(s) /\ written[s] = {})'
  <2>1. \A s \in Slots : s > slot' => s > slot
    BY <1>1, <1>2
  <2> QED
    BY <1>6, <2>1, Zenon
<1>10. step' \notin {"QueuePfn", "DriverOk"}
  BY <1>1
<1> QED
  BY <1>1, <1>4, <1>5, <1>8, <1>9, <1>10 DEF Disks, Slots

(* Going on with the same slot: what the next access requires of it. *)
LEMMA SameSlotStep ==
  ASSUME Disks, Probing, UNCHANGED <<slot, cutShort>>,
         status' = [s \in Slots |-> status'[s]], written' = [s \in Slots |-> written'[s]],
         \A s \in Slots \ {slot} : status'[s] = status[s] /\ written'[s] = written[s],
         \A s \in Slots \ {slot} : (s \in queues' <=> s \in queues)
                                   /\ (s \in BLOCK_DEVICES' <=> s \in BLOCK_DEVICES),
         written'[slot] = WrittenBefore(step'),
         "DRIVER_OK" \notin status'[slot],
         slot \in queues' <=> step' \in {"QueuePfn", "DriverOk"},
         slot \in BLOCK_DEVICES' <=> step' = "DriverOk"
  PROVE  Disks'
<1>1. \A s \in Slots : s \in Int
  BY SlotAssumption DEF Slots
<1>2. LiveIsSetUp'
  BY DEF Disks, LiveIsSetUp
<1>3. AllOrNothing'
  <2>1. AllOrNothing
    BY DEF Disks
  <2> QED
    BY <1>1, <2>1 DEF AllOrNothing
<1>4. \A s \in Slots : s > slot => (Blank(s) /\ written[s] = {})'
  <2>1. \A s \in Slots : s > slot => Blank(s) /\ written[s] = {} /\ s # slot
    BY <1>1 DEF Disks
  <2> QED
    BY <2>1 DEF Blank
<1> QED
  BY <1>2, <1>3, <1>4 DEF Disks

(* Each access, fault and early return of probe and setup_block_device. *)
LEMMA ProbeDisks == Disks /\ Probe => Disks'
<1> SUFFICES ASSUME Disks, Probe PROVE Disks'
  OBVIOUS
<1>1. Probing /\ slot \in Slots
  <2>1. Probing
    BY DEF Probe, AccessFaults, SkipSlot, RegisterOther, ReadOn, WriteStatus,
           WriteRegister, GiveUp, AllocateQueue, AllocateQueueFails, RegisterBlock, Access
  <2>2. slot \in Nat
    BY DEF Disks
  <2> QED
    BY <2>1, <2>2, SlotAssumption DEF Probing, Slots
<1>2. /\ status = [s \in Slots |-> status[s]] /\ written = [s \in Slots |-> written[s]]
      /\ written[slot] = WrittenBefore(step) /\ "DRIVER_OK" \notin status[slot]
      /\ slot \in queues <=> step \in {"QueuePfn", "DriverOk"}
      /\ slot \in BLOCK_DEVICES <=> step = "DriverOk"
  BY <1>1 DEF Disks
<1>3. CASE AccessFaults
  <2>1. NextSlot /\ cutShort' = cutShort \cup (queues \cap {slot})
        /\ UNCHANGED <<status, written, queues, BLOCK_DEVICES>>
    BY <1>3 DEF AccessFaults, devices, tables
  <2> QED
    BY <1>1, <1>2, <2>1, NextSlotStep
<1>4. CASE SkipSlot
  <2>1. NextSlot /\ step \in {"Magic", "DeviceId"}
        /\ UNCHANGED <<status, written, queues, BLOCK_DEVICES, cutShort>>
    BY <1>4 DEF SkipSlot, devices, tables, history
  <2> QED
    BY <1>1, <1>2, <2>1, NextSlotStep
<1>5. ASSUME NEW kind \in {"Entropy", "Unknown"}, RegisterOther(kind)
      PROVE  Disks'
  <2>1. NextSlot /\ step = "DeviceId"
        /\ UNCHANGED <<status, written, queues, BLOCK_DEVICES, cutShort>>
    BY <1>5 DEF RegisterOther, devices, history
  <2> QED
    BY <1>1, <1>2, <2>1, NextSlotStep
<1>6. ASSUME NEW reg \in {"Magic", "DeviceId", "HostFeatures", "ReadStatus", "QueueNumMax"},
             ReadOn(reg)
      PROVE  Disks'
  <2>1. step = reg /\ step' = After[reg]
        /\ UNCHANGED <<slot, status, written, queues, BLOCK_DEVICES, cutShort>>
    BY <1>6 DEF ReadOn, Access, devices, tables, history
  <2>2. step' \notin {"QueuePfn", "DriverOk"} /\ WrittenBefore(step') = WrittenBefore(step)
        /\ step \notin {"QueuePfn", "DriverOk"}
    BY <2>1, AccessOrder DEF WrittenBefore
  <2> QED
    BY <1>1, <1>2, <2>1, <2>2, SameSlotStep
<1>7. ASSUME NEW reg \in DOMAIN StatusAt \ {"DriverOk"}, WriteStatus(reg)
      PROVE  Disks'
  <2>1. step = reg /\ step' = After[reg] /\ reg # "DriverOk"
        /\ status' = [status EXCEPT ![slot] = StatusAt[reg]]
        /\ UNCHANGED <<slot, written, queues, BLOCK_DEVICES, cutShort>>
    BY <1>7 DEF WriteStatus, Access, tables, history
  <2>2. step' \notin {"QueuePfn", "DriverOk"} /\ WrittenBefore(step') = WrittenBefore(step)
        /\ step \notin {"QueuePfn", "DriverOk"}
    BY <2>1, AccessOrder, StatusValues DEF WrittenBefore
  <2>3. "DRIVER_OK" \notin StatusAt[reg]
    BY StatusValues
  <2>4. status' = [s \in Slots |-> status'[s]] /\ status'[slot] = StatusAt[reg]
        /\ \A s \in Slots \ {slot} : status'[s] = status[s]
    BY <1>1, <1>2, <2>1
  <2> QED
    BY <1>1, <1>2, <2>1, <2>2, <2>3, <2>4, SameSlotStep
<1>8. CASE WriteStatus("DriverOk")
  <2>1. step = "DriverOk" /\ NextSlot
        /\ status' = [status EXCEPT ![slot] = StatusAt["DriverOk"]]
        /\ UNCHANGED <<written, queues, BLOCK_DEVICES, cutShort>>
    BY <1>8 DEF WriteStatus, Access, tables, history
  <2>2. status' = [s \in Slots |-> status'[s]] /\ "DRIVER_OK" \in status'[slot]
        /\ \A s \in Slots \ {slot} : status'[s] = status[s]
    BY <1>1, <1>2, <2>1, StatusValues
  <2>3. WrittenBefore("DriverOk") = ProgramSet
    BY DEF WrittenBefore
  <2> QED
    BY <1>1, <1>2, <2>1, <2>2, <2>3, NextSlotStep
<1>9. ASSUME NEW reg \in {"GuestFeatures", "QueueSel", "QueueNum", "QueueAlign"},
             WriteRegister(reg)
      PROVE  Disks'
  <2>1. step = reg /\ step' = After[reg]
        /\ written' = [written EXCEPT ![slot] = written[slot] \cup {reg}]
        /\ UNCHANGED <<slot, status, queues, BLOCK_DEVICES, cutShort>>
    BY <1>9 DEF WriteRegister, Program, Access, tables, history
  <2>2. step' \notin {"QueuePfn", "DriverOk"} /\ step \notin {"QueuePfn", "DriverOk"}
        /\ WrittenBefore(step') = WrittenBefore(step) \cup {reg}
    BY <2>1, AccessOrder DEF WrittenBefore
  <2>3. written' = [s \in Slots |-> written'[s]]
        /\ written'[slot] = written[slot] \cup {reg}
        /\ \A s \in Slots \ {slot} : written'[s] = written[s]
    BY <1>1, <1>2, <2>1
  <2> QED
    BY <1>1, <1>2, <2>1, <2>2, <2>3, SameSlotStep
<1>10. CASE GiveUp \/ AllocateQueueFails
  <2>1. step \in {"ReadStatus", "QueueNumMax", "GuestPageSize"} /\ Fail
        /\ written' \in {written, [written EXCEPT ![slot] = written[slot] \cup {"GuestPageSize"}]}
    BY <1>10 DEF GiveUp, AllocateQueueFails, Program
  <2>2. NextSlot /\ UNCHANGED <<queues, BLOCK_DEVICES, cutShort>>
        /\ status' \in {status, [status EXCEPT ![slot] = {"FAILED"}]}
    BY <2>1 DEF Fail, tables
  <2>3. status' = [s \in Slots |-> status'[s]] /\ "DRIVER_OK" \notin status'[slot]
        /\ \A s \in Slots \ {slot} : status'[s] = status[s]
    BY <1>1, <1>2, <2>2
  <2>4. written' = [s \in Slots |-> written'[s]]
        /\ \A s \in Slots \ {slot} : written'[s] = written[s]
    BY <1>1, <1>2, <2>1
  <2> QED
    BY <1>1, <1>2, <2>1, <2>2, <2>3, <2>4, NextSlotStep
<1>11. CASE AllocateQueue \/ RegisterBlock
  <2>1. \/ /\ step = "GuestPageSize" /\ step' = After["GuestPageSize"]
           /\ written' = [written EXCEPT ![slot] = written[slot] \cup {"GuestPageSize"}]
           /\ queues' = queues \cup {slot} /\ UNCHANGED BLOCK_DEVICES
        \/ /\ step = "QueuePfn" /\ step' = After["QueuePfn"]
           /\ written' = [written EXCEPT ![slot] = written[slot] \cup {"QueuePfn"}]
           /\ BLOCK_DEVICES' = BLOCK_DEVICES \cup {slot} /\ UNCHANGED queues
    BY <1>11 DEF AllocateQueue, RegisterBlock, Program, Access
  <2>2. UNCHANGED <<slot, status, cutShort>>
    BY <1>11 DEF AllocateQueue, RegisterBlock, Access, history
  <2>3. written' = [s \in Slots |-> written'[s]]
        /\ written'[slot] = written[slot] \cup {step}
        /\ \A s \in Slots \ {slot} : written'[s] = written[s]
    BY <1>1, <1>2, <2>1
  <2>4. WrittenBefore(step') = WrittenBefore(step) \cup {step}
    BY <2>1, AccessOrder DEF WrittenBefore, ProgramSet
  <2> QED
    BY <1>1, <1>2, <2>1, <2>2, <2>3, <2>4, AccessOrder, SameSlotStep
<1> QED
  BY <1>3, <1>4, <1>5, <1>6, <1>7, <1>8, <1>9, <1>10, <1>11, StatusValues DEF Probe

(* Outside probe, kinit touches neither devices nor tables. *)
LEMMA DisksInvariant == Spec => []Disks
<1>1. Init => Disks
  <2> SUFFICES ASSUME Init PROVE Disks
    OBVIOUS
  <2>1. SetupInit
    BY DEF Init
  <2>2. slot = 0 /\ step = "Magic" /\ WrittenBefore("Magic") = {}
    BY <2>1 DEF SetupInit, WrittenBefore
  <2>3. \A s \in Slots : s \in Nat
    BY SlotAssumption DEF Slots
  <2>4. /\ queues = {} /\ BLOCK_DEVICES = {} /\ cutShort = {}
        /\ status = [s \in Slots |-> {}] /\ written = [s \in Slots |-> {}]
    BY <2>1 DEF SetupInit
  <2> QED
    BY <2>2, <2>3, <2>4 DEF Disks, Blank, LiveIsSetUp, AllOrNothing
<1>2. Disks /\ [Next]_bootVars => Disks'
  <2> SUFFICES ASSUME Disks, [Next]_bootVars PROVE Disks'
    OBVIOUS
  <2>1. CASE ProbeStep
    BY <2>1, ProbeDisks DEF ProbeStep
  <2>2. CASE UNCHANGED setupVars
    <3>1. UNCHANGED <<slot, step, status, written, queues, BLOCK_DEVICES, cutShort>>
      BY <2>2, Zenon DEF setupVars, devices, tables, history
    <3> QED
      BY <3>1 DEF Disks, Blank, LiveIsSetUp, AllOrNothing
  <2>3. ProbeStep \/ UNCHANGED setupVars
    BY Zenon DEF Next, Kinit, Start, InitHeap, MapSection, SectionsMapped, install, RouteUart,
           RouteDisks, enable_interrupts, OutOfMemory, WriteSatp, WriteMepc, WriteMstatus,
           EnterSupervisor, Interrupt, TrapReturn, Idle, bootVars
  <2> QED
    BY <2>1, <2>2, <2>3
<1> QED
  BY <1>1, <1>2, PTL DEF Spec

(* A device is told DRIVER_OK only with its queue allocated, every         *)
(* register written and its disk registered, wherever accesses fault.      *)
THEOREM DisksLive == Spec => []LiveIsSetUp
<1>1. Disks => LiveIsSetUp
  BY DEF Disks
<1> QED
  BY <1>1, DisksInvariant, PTL

(* probe leaves a slot as a whole disk or as none, unless one of the last  *)
(* two accesses of setup_block_device faulted.                             *)
THEOREM DisksWhole == Spec => []AllOrNothing
<1>1. Disks => AllOrNothing
  BY DEF Disks
<1> QED
  BY <1>1, DisksInvariant, PTL

-----------------------------------------------------------------------------
(* Types *)

Statuses == {StatusAt[reg] : reg \in DOMAIN StatusAt} \cup {{"FAILED"}}

Accesses == DOMAIN After \cup {"DriverOk"}

(* A slot that is left for the next one. *)
LEMMA NextSlotTypes ==
  ASSUME SetupTypeOK, Probing, NextSlot
  PROVE  slot \in Slots /\ slot' \in 0 .. NumSlots /\ step' \in Accesses
<1>1. slot \in Slots /\ slot + 1 \in 0 .. NumSlots
  BY SlotAssumption DEF SetupTypeOK, Probing, Slots
<1>2. "Magic" \in Accesses
  BY DEF Accesses, After
<1> QED
  BY <1>1, <1>2, Zenon DEF NextSlot

LEMMA AccessTypes ==
  ASSUME SetupTypeOK, NEW reg \in Accesses, Access(reg)
  PROVE  slot \in Slots /\ slot' \in 0 .. NumSlots /\ step' \in Accesses
<1>1. CASE reg = "DriverOk"
  BY <1>1, NextSlotTypes DEF Access
<1>2. CASE reg # "DriverOk"
  <2>1. slot' = slot /\ step' = After[reg] /\ Probing
    BY <1>2 DEF Access
  <2>2. slot \in Slots /\ slot' \in 0 .. NumSlots
    BY <2>1, SlotAssumption DEF SetupTypeOK, Probing, Slots
  <2>3. \A r \in DOMAIN After : After[r] \in Accesses
    BY DEF Accesses, After
  <2>4. reg \in DOMAIN After
    BY <1>2, Zenon DEF Accesses
  <2> QED
    BY <2>1, <2>2, <2>3, <2>4, Zenon
<1> QED
  BY <1>1, <1>2

(* Every access of probe leaves its tables and the devices' registers with *)
(* their types.                                                            *)
LEMMA ProbeTypes == ASSUME SetupTypeOK, Probe PROVE SetupTypeOK'
<1> DEFINE Kinds == {None, "Block", "Entropy", "Unknown"}
           Moved == slot \in Slots /\ slot' \in 0 .. NumSlots /\ step' \in Accesses
           Typed == /\ BLOCK_DEVICES' \subseteq Slots /\ queues' \subseteq Slots
                    /\ cutShort' \subseteq Slots /\ faults' \in 0 .. MaxFaults
                    /\ VIRTIO_DEVICES' \in [Slots -> Kinds]
                    /\ status' \in [Slots -> Statuses]
                    /\ written' \in [Slots -> SUBSET ProgramSet]
<1> SUFFICES Moved /\ Typed
  BY Zenon DEF SetupTypeOK, Statuses, Accesses
<1>1. /\ BLOCK_DEVICES \subseteq Slots /\ queues \subseteq Slots /\ cutShort \subseteq Slots
      /\ faults \in 0 .. MaxFaults /\ VIRTIO_DEVICES \in [Slots -> Kinds]
      /\ status \in [Slots -> Statuses] /\ written \in [Slots -> SUBSET ProgramSet]
  BY Zenon DEF SetupTypeOK, Statuses
<1>2. faults < MaxFaults => faults + 1 \in 0 .. MaxFaults
  BY <1>1, SlotAssumption
<1>3. /\ \A reg \in DOMAIN StatusAt : reg \in Accesses /\ StatusAt[reg] \in Statuses
      /\ {"FAILED"} \in Statuses
  <2>1. DOMAIN StatusAt \subseteq Accesses
    BY DEF StatusAt, Accesses, After
  <2> QED
    BY <2>1, Zenon DEF Statuses
<1>4. /\ {"Magic", "DeviceId", "HostFeatures", "ReadStatus", "QueueNumMax"} \subseteq Accesses
      /\ ProgramSet \subseteq Accesses
  BY DEF ProgramSet, Accesses, After
<1>5. "Block" \in Kinds /\ "Entropy" \in Kinds /\ "Unknown" \in Kinds
  OBVIOUS
<1>6. ASSUME NEW reg \in ProgramSet, slot \in Slots, Program(reg)
      PROVE  written' \in [Slots -> SUBSET ProgramSet]
  BY <1>1, <1>6 DEF Program
<1>7. {"GuestFeatures", "QueueSel", "QueueNum", "QueueAlign"} \subseteq ProgramSet
      /\ "GuestPageSize" \in ProgramSet /\ "QueuePfn" \in ProgramSet
  BY DEF ProgramSet
<1> HIDE DEF Kinds
<1>8. CASE AccessFaults
  <2>1. Moved
    BY <1>8, NextSlotTypes DEF AccessFaults
  <2> QED
    BY <1>1, <1>2, <1>8, <2>1 DEF AccessFaults, devices, tables
<1>9. CASE SkipSlot
  <2>1. Moved
    BY <1>9, NextSlotTypes DEF SkipSlot
  <2> QED
    BY <1>1, <1>9, <2>1 DEF SkipSlot, devices, tables, history
<1>10. ASSUME NEW kind \in {"Entropy", "Unknown"}, RegisterOther(kind) PROVE Moved /\ Typed
  <2>1. Moved
    BY <1>10, NextSlotTypes DEF RegisterOther
  <2>2. kind \in Kinds
    BY <1>5
  <2> QED
    BY <1>1, <1>10, <2>1, <2>2 DEF RegisterOther, devices, history
<1>11. ASSUME NEW reg \in {"Magic", "DeviceId", "HostFeatures", "ReadStatus", "QueueNumMax"},
              ReadOn(reg)
       PROVE  Moved /\ Typed
  <2>1. Moved
    BY <1>4, <1>11, AccessTypes DEF ReadOn
  <2> QED
    BY <1>1, <1>11, <2>1 DEF ReadOn, Access, devices, tables, history
<1>12. ASSUME NEW reg \in DOMAIN StatusAt, WriteStatus(reg) PROVE Moved /\ Typed
  <2>1. Moved
    BY <1>3, <1>12, AccessTypes DEF WriteStatus
  <2>2. status' \in [Slots -> Statuses]
    <3>1. status' = [status EXCEPT ![slot] = StatusAt[reg]] /\ StatusAt[reg] \in Statuses
      BY <1>3, <1>12 DEF WriteStatus
    <3> QED
      BY <1>1, <2>1, <3>1
  <2> QED
    BY <1>1, <1>12, <2>1, <2>2, Zenon DEF WriteStatus, Access, tables, history
<1>13. ASSUME NEW reg \in {"GuestFeatures", "QueueSel", "QueueNum", "QueueAlign"}, WriteRegister(reg)
       PROVE  Moved /\ Typed
  <2>1. Moved
    BY <1>4, <1>7, <1>13, AccessTypes DEF WriteRegister
  <2>2. written' \in [Slots -> SUBSET ProgramSet]
    BY <1>6, <1>7, <1>13, <2>1 DEF WriteRegister
  <2> QED
    BY <1>1, <1>13, <2>1, <2>2, Zenon DEF WriteRegister, Access, tables, history
<1>14. ASSUME Probing, Fail PROVE Moved /\ faults' \in 0 .. MaxFaults /\ status' \in [Slots -> Statuses]
  <2>1. Moved
    BY <1>14, NextSlotTypes DEF Fail
  <2>2. CASE status' = [status EXCEPT ![slot] = {"FAILED"}] /\ UNCHANGED faults
    BY <1>1, <1>3, <2>1, <2>2
  <2>3. CASE faults < MaxFaults /\ faults' = faults + 1 /\ UNCHANGED status
    BY <1>1, <1>2, <2>1, <2>3
  <2> QED
    BY <1>14, <2>2, <2>3 DEF Fail
<1>15. CASE GiveUp
  BY <1>1, <1>14, <1>15, Zenon DEF GiveUp, Fail, tables
<1>16. CASE AllocateQueue
  <2>1. Moved
    BY <1>4, <1>7, <1>16, AccessTypes DEF AllocateQueue
  <2>2. written' \in [Slots -> SUBSET ProgramSet]
    BY <1>6, <1>7, <1>16, <2>1 DEF AllocateQueue
  <2>3. queues' \subseteq Slots
    BY <1>1, <1>16, <2>1 DEF AllocateQueue
  <2> QED
    BY <1>1, <1>16, <2>1, <2>2, <2>3, Zenon DEF AllocateQueue, Access, history
<1>17. CASE AllocateQueueFails
  <2>1. Moved /\ faults' \in 0 .. MaxFaults /\ status' \in [Slots -> Statuses]
    BY <1>14, <1>17 DEF AllocateQueueFails
  <2>2. written' \in [Slots -> SUBSET ProgramSet]
    BY <1>6, <1>7, <1>17, <2>1 DEF AllocateQueueFails
  <2> QED
    BY <1>1, <1>17, <2>1, <2>2, Zenon DEF AllocateQueueFails, Fail, tables
<1>18. CASE RegisterBlock
  <2>1. Moved
    BY <1>4, <1>7, <1>18, AccessTypes DEF RegisterBlock
  <2>2. written' \in [Slots -> SUBSET ProgramSet]
    BY <1>6, <1>7, <1>18, <2>1 DEF RegisterBlock
  <2>3. BLOCK_DEVICES' \subseteq Slots /\ VIRTIO_DEVICES' \in [Slots -> Kinds]
    BY <1>1, <1>5, <1>18, <2>1 DEF RegisterBlock
  <2> QED
    BY <1>1, <1>18, <2>1, <2>2, <2>3, Zenon DEF RegisterBlock, Access, history
<1> QED
  BY <1>8, <1>9, <1>10, <1>11, <1>12, <1>13, <1>15, <1>16, <1>17, <1>18, Zenon DEF Probe

(* The hart's registers that Hart leaves open, the tables and the bounds. *)
BootTypes ==
  /\ SetupTypeOK
  /\ MPP \in {"M", "S", "U"}
  /\ mtvec \in {"reset", "asm_trap_vector", "m_trap_vector"}
  /\ space \in [AllPages -> {None, "rx", "ro", "rw"}]
  /\ plic \subseteq {UART0_IRQ} \cup {irq(s) : s \in Slots}
  /\ interrupts \in 0 .. MaxInterrupts

LEMMA BootTypesInit == Init => BootTypes
<1> SUFFICES ASSUME Init PROVE BootTypes
  OBVIOUS
<1>1. SetupTypeOK
  <2>1. "Magic" \in Accesses
    BY DEF Accesses, After
  <2>2. {} \in Statuses
    BY DEF Statuses, StatusAt
  <2>3. 0 \in 0 .. NumSlots /\ 0 \in 0 .. MaxFaults
    BY SlotAssumption
  <2> QED
    BY <2>1, <2>2, <2>3, Zenon DEF Init, SetupInit, SetupTypeOK, Accesses, Statuses
<1>2. 0 \in 0 .. MaxInterrupts
  BY ImageAssumption
<1> QED
  BY <1>1, <1>2, Zenon DEF Init, BootTypes

LEMMA BootTypesNext == Hart /\ Mapping /\ BootTypes /\ [Next]_bootVars => BootTypes'
<1> SUFFICES ASSUME Hart, Mapping, BootTypes, [Next]_bootVars PROVE BootTypes'
  OBVIOUS
<1>1. SetupTypeOK'
  <2>1. ASSUME UNCHANGED setupVars PROVE SetupTypeOK'
    BY <2>1, Zenon DEF BootTypes, SetupTypeOK, setupVars, devices, tables, history
  <2>2. ProbeStep \/ UNCHANGED setupVars
    BY Zenon DEF Next, Kinit, Start, InitHeap, MapSection, SectionsMapped, install, RouteUart,
           RouteDisks, enable_interrupts, OutOfMemory, WriteSatp, WriteMepc, WriteMstatus,
           EnterSupervisor, Interrupt, TrapReturn, Idle, bootVars
  <2> QED
    BY <2>1, <2>2, ProbeTypes DEF ProbeStep, BootTypes
<1>2. MPP' \in {"M", "S", "U"} /\ mtvec' \in {"reset", "asm_trap_vector", "m_trap_vector"}
  BY Zenon DEF Next, Kinit, Start, InitHeap, MapSection, SectionsMapped, install, RouteUart,
       ProbeStep, RouteDisks, enable_interrupts, OutOfMemory, WriteSatp, WriteMepc, WriteMstatus,
       EnterSupervisor, Interrupt, TrapReturn, Idle, bootVars, hart, csrs, Mret,
       BootTypes, Hart, Window, Mode
<1>3. space' \in [AllPages -> {None, "rx", "ro", "rw"}]
  <2>1. CASE InitHeap
    BY <2>1, Zenon DEF InitHeap
  <2>2. CASE MapSection
    <3>1. PICK i \in 1 .. 8 : /\ mapped + 1 = i
                             /\ space' = [p \in AllPages |-> IF p \in PagesOf(Sections[i])
                                                               THEN Sections[i].bits ELSE space[p]]
      BY <2>2, SectionList DEF MapSection, Mapping
    <3>2. Sections[i].bits \in {"rx", "ro", "rw"}
      <4>1. PICK s \in Nat, e \in Nat, b \in {"rx", "ro", "rw"} : Sections[i] = Range(s, e, b)
        BY SectionTypes
      <4> QED
        BY <4>1 DEF Range
    <3> QED
      BY <3>1, <3>2, Zenon DEF BootTypes
  <2>3. ~InitHeap /\ ~MapSection => UNCHANGED space
    BY Zenon DEF Next, Kinit, Start, SectionsMapped, install, RouteUart,
         ProbeStep, RouteDisks, enable_interrupts, OutOfMemory, WriteSatp, WriteMepc, WriteMstatus,
         EnterSupervisor, Interrupt, TrapReturn, Idle, bootVars
  <2> QED
    BY <2>1, <2>2, <2>3, Zenon DEF BootTypes
<1>4. plic' \subseteq {UART0_IRQ} \cup {irq(s) : s \in Slots}
  <2>1. CASE RouteUart
    BY <2>1, Zenon DEF RouteUart, BootTypes
  <2>2. CASE RouteDisks
    <3>1. {irq(s) : s \in BLOCK_DEVICES} \subseteq {irq(s) : s \in Slots}
      BY Zenon DEF BootTypes, SetupTypeOK
    <3> QED
      BY <2>2, <3>1, Zenon DEF RouteDisks, BootTypes
  <2>3. ~RouteUart /\ ~RouteDisks => UNCHANGED plic
    BY Zenon DEF Next, Kinit, Start, InitHeap, MapSection, SectionsMapped, install,
         ProbeStep, enable_interrupts, OutOfMemory, WriteSatp, WriteMepc, WriteMstatus,
         EnterSupervisor, Interrupt, TrapReturn, Idle, bootVars
  <2> QED
    BY <2>1, <2>2, <2>3, Zenon DEF BootTypes
<1>5. interrupts' \in 0 .. MaxInterrupts
  <2>1. CASE Interrupt
    <3>1. interrupts < MaxInterrupts /\ interrupts' = interrupts + 1
      BY <2>1, Zenon DEF Interrupt
    <3>2. interrupts \in 0 .. MaxInterrupts
      BY Zenon DEF BootTypes
    <3> QED
      BY <3>1, <3>2, ImageAssumption
  <2>2. ~Interrupt => UNCHANGED interrupts
    BY Zenon DEF Next, Kinit, Start, InitHeap, MapSection, SectionsMapped, install, RouteUart,
         ProbeStep, RouteDisks, enable_interrupts, OutOfMemory, WriteSatp, WriteMepc,
         WriteMstatus, EnterSupervisor, TrapReturn, Idle, bootVars, hart, Mret
  <2> QED
    BY <2>1, <2>2, Zenon DEF BootTypes
<1> QED
  BY <1>1, <1>2, <1>3, <1>4, <1>5, Zenon DEF BootTypes

(* From reset on, the hart's registers, the tables of the devices and what *)
(* kinit maps and routes have their types (boot.S, kinit, probe).          *)
THEOREM BootTyped == Spec => []BootTypeOK
<1>1. Init => Hart /\ Mapping /\ BootTypes
  BY HartInit, BootTypesInit DEF Init, Mapping, Vectored, Enabled
<1>2. Hart /\ Mapping /\ BootTypes /\ [Next]_bootVars => Hart' /\ Mapping' /\ BootTypes'
  BY HartNext, MappingNext, BootTypesNext
<1>3. Hart /\ Mapping /\ BootTypes => BootTypeOK
  <2> SUFFICES ASSUME Hart, Mapping, BootTypes PROVE BootTypeOK
    OBVIOUS
  <2>1. mode \in {"M", "S", "U"}
    BY Zenon DEF Hart, Window, Mode
  <2>2. {MIE, MPIE, mie, mscratch, satp, trapped, clobbered} \subseteq BOOLEAN
    BY Zenon DEF Hart, Prepared
  <2>3. mapped \in 0 .. Len(Sections)
    BY SectionList DEF Mapping
  <2> QED
    BY <2>1, <2>2, <2>3, Zenon DEF Hart, Prepared, BootTypes, BootTypeOK
<1> QED
  BY <1>1, <1>2, <1>3, PTL DEF Spec

-----------------------------------------------------------------------------
(* skmain's tests give back what they take.  The invariant says which page *)
(* runs are out at each step, inside an operation and between two.         *)

Own ==
  IF at = "block_read" THEN {"test"}
  ELSE IF at = "list_dir: read_file" THEN {"dir"}
  ELSE IF at = "test_elf: read_file" THEN {"elf"}
  ELSE {}

Scratch == IF waiting THEN {"Buffer"} ELSE {}

(* Between operations nothing waits; nothing is claimed once it panicked. *)
Accounted ==
  /\ waiting \in BOOLEAN
  /\ at \in {"skmain", "list_dir", "test_elf: zallocate", "spawn", "idle"} => ~waiting
  /\ at # "panic" => held = Own \cup Scratch

(* An operation that asks for a block holds its buffer from then on, and   *)
(* nothing else changes hands (Buffer::new, alloc_request).                *)
LEMMA AskAccounted ==
  ASSUME Accounted, Asks,
         at \in {"block_read", "mount", "read_inode", "list_dir: read_file",
                 "test_elf", "test_elf: read_file"}
  PROVE  Accounted'
<1>1. at' = at /\ waiting' = TRUE /\ held' = held \cup {"Buffer"}
  BY Zenon DEF Asks
<1>2. held = Own
  BY Zenon DEF Accounted, Scratch, Asks
<1>3. Own' = Own
  BY <1>1, Zenon DEF Own
<1>4. held' = Own' \cup Scratch'
  BY <1>1, <1>2, <1>3, Zenon DEF Scratch
<1> QED
  BY <1>1, <1>4, Zenon DEF Accounted

(* A step that leaves with exactly what its successor owns is accounted    *)
(* for, and so is one that panics.                                         *)
LEMMA GoAccounted ==
  ASSUME NEW place, NEW pages, Goes(place, pages),
         \/ place = "panic"
         \/ /\ place \in {"mount", "read_inode", "list_dir", "test_elf",
                          "test_elf: zallocate", "spawn", "idle"}
            /\ pages = {}
         \/ place = "block_read" /\ pages = {"test"}
         \/ place = "list_dir: read_file" /\ pages = {"dir"}
         \/ place = "test_elf: read_file" /\ pages = {"elf"}
  PROVE  Accounted'
<1>1. at' = place /\ waiting' = FALSE /\ held' = pages
  BY Zenon DEF Goes
<1>2. Scratch' = {}
  BY <1>1, Zenon DEF Scratch
<1>3. place # "panic" => held' = Own'
  BY <1>1, Zenon DEF Own
<1> QED
  BY <1>1, <1>2, <1>3, Zenon DEF Accounted

(* Accounted is an invariant of every step of skmain. *)
LEMMA StepAccounted == ASSUME Accounted, SkmainStep PROVE Accounted'
<1>0. ASSUME NEW place, Here(place), Goes("panic", held) PROVE Accounted'
  BY <1>0, GoAccounted, Zenon
<1>1. CASE NoDisk
  <2>1. held = {}
    BY <1>1 DEF NoDisk, Here, Accounted, Own, Scratch
  <2> QED
    BY <1>1, <2>1, GoAccounted, Zenon DEF NoDisk
<1>2. CASE TestBuffer
  <2>1. held = {} /\ held \cup {"test"} = {"test"}
    BY <1>2 DEF TestBuffer, Here, Accounted, Own, Scratch
  <2> QED
    BY <1>2, <2>1, GoAccounted, Zenon DEF TestBuffer
<1>3. CASE TestRead
  <2>1. at = "block_read"
    BY <1>3 DEF TestRead, Operation, Here
  <2>2. Kept \ {"test"} = {}
    BY <2>1 DEF Kept, Accounted, Own, Scratch
  <2>3. CASE Asks
    BY <2>1, <2>3, AskAccounted
  <2>4. CASE Goes("mount", Kept \ {"test"})
    BY <2>2, <2>4, GoAccounted, Zenon
  <2> QED
    BY <1>3, <2>3, <2>4 DEF TestRead, Operation
<1>4. CASE mount
  <2>1. at = "mount"
    BY <1>4 DEF mount, Operation, Here
  <2>2. Kept = {}
    BY <2>1 DEF Kept, Accounted, Own, Scratch
  <2>3. CASE Asks
    BY <2>1, <2>3, AskAccounted
  <2>4. CASE \E next \in {"read_inode", "spawn"} : Goes(next, Kept)
    BY <2>2, <2>4, GoAccounted, Zenon
  <2> QED
    BY <1>4, <2>3, <2>4 DEF mount, Operation
<1>5. CASE ReadRoot
  <2>1. at = "read_inode"
    BY <1>5 DEF ReadRoot, Operation, Here
  <2>2. Kept = {}
    BY <2>1 DEF Kept, Accounted, Own, Scratch
  <2>3. CASE Asks
    BY <2>1, <2>3, AskAccounted
  <2>4. CASE \E next \in {"list_dir", "spawn"} : Goes(next, Kept)
    BY <2>2, <2>4, GoAccounted, Zenon
  <2> QED
    BY <1>5, <2>3, <2>4 DEF ReadRoot, Operation
<1>6. CASE ListDirBuffer
  <2>1. held = {} /\ held \cup {"dir"} = {"dir"}
    BY <1>6, Zenon DEF ListDirBuffer, Here, Accounted, Own, Scratch
  <2> QED
    BY <1>6, <2>1, GoAccounted, Zenon DEF ListDirBuffer
<1>7. CASE ListDirOutOfMemory
  BY <1>7, <1>0 DEF ListDirOutOfMemory, Panics
<1>8. CASE ListDir
  <2>1. at = "list_dir: read_file"
    BY <1>8, Zenon DEF ListDir, Operation, Here
  <2>2. Kept \ {"dir"} = {}
    BY <2>1, Zenon DEF Kept, Accounted, Own, Scratch
  <2>3. CASE Asks
    BY <2>1, <2>3, AskAccounted, Zenon
  <2>4. CASE Goes(AfterList, Kept \ {"dir"})
    BY <2>2, <2>4, GoAccounted, Zenon DEF AfterList
  <2> QED
    BY <1>8, <2>3, <2>4, Zenon DEF ListDir, Operation
<1>9. CASE ReadFilePanics
  BY <1>9, <1>0, Zenon DEF ReadFilePanics, Panics
<1>10. CASE ReadElfInode
  <2>1. at = "test_elf"
    BY <1>10, Zenon DEF ReadElfInode, Operation, Here
  <2>2. Kept = {}
    BY <2>1 DEF Kept, Accounted, Own, Scratch
  <2>3. CASE Asks
    BY <2>1, <2>3, AskAccounted
  <2>4. CASE \E next \in {"test_elf: zallocate", "spawn"} : Goes(next, Kept)
    BY <2>2, <2>4, GoAccounted, Zenon
  <2> QED
    BY <1>10, <2>3, <2>4, Zenon DEF ReadElfInode, Operation
<1>11. CASE ElfBuffer
  <2>1. held = {} /\ held \cup {"elf"} = {"elf"}
    BY <1>11, Zenon DEF ElfBuffer, Here, Accounted, Own, Scratch
  <2> QED
    BY <1>11, <2>1, GoAccounted, Zenon DEF ElfBuffer
<1>12. CASE ElfEmpty
  BY <1>12, <1>0, Zenon DEF ElfEmpty, Panics
<1>13. CASE ElfRead
  <2>1. at = "test_elf: read_file"
    BY <1>13, Zenon DEF ElfRead, Operation, Here
  <2>2. Kept \ {"elf"} = {}
    BY <2>1, Zenon DEF Kept, Accounted, Own, Scratch
  <2>3. CASE Asks
    BY <2>1, <2>3, AskAccounted, Zenon
  <2>4. CASE Goes("spawn", Kept \ {"elf"})
    BY <2>2, <2>4, GoAccounted, Zenon
  <2> QED
    BY <1>13, <2>3, <2>4, Zenon DEF ElfRead, Operation
<1>14. CASE SpawnInit
  <2>1. held = {}
    BY <1>14 DEF SpawnInit, Here, Accounted, Own, Scratch
  <2> QED
    BY <1>14, <2>1, GoAccounted, Zenon DEF SpawnInit
<1>15. CASE SpawnFails
  BY <1>15, <1>0 DEF SpawnFails, Panics
<1> QED
  BY <1>1, <1>2, <1>3, <1>4, <1>5, <1>6, <1>7, <1>8, <1>9, <1>10, <1>11, <1>12,
     <1>13, <1>14, <1>15 DEF SkmainStep

(* skmain changes nothing that kinit set up and no disk's set-up: each of  *)
(* its steps asks a disk for something or moves on.                        *)
LEMMA StepKeepsBoot == ASSUME SkmainStep PROVE UNCHANGED bootVars
<1>1. Asks => UNCHANGED bootVars
  BY DEF Asks
<1>2. \A place, pages : Goes(place, pages) => UNCHANGED bootVars
  BY DEF Goes
<1>3. \A place, ok, err, pages : Operation(place, ok, err, pages) => UNCHANGED bootVars
  BY <1>1, <1>2 DEF Operation
<1> QED
  BY <1>2, <1>3, Zenon
  DEF SkmainStep, NoDisk, TestBuffer, TestRead, mount, ReadRoot, ListDirBuffer,
      ListDirOutOfMemory, ListDir, ReadFilePanics, ReadElfInode, ElfBuffer, ElfEmpty,
      ElfRead, SpawnInit, SpawnFails, Panics

(* The kernel with skmain implements Boot, so that every safety theorem    *)
(* about kinit and the disks' set-up holds of it too.                      *)
THEOREM SkmainKeepsBoot == KernelSpec => Init /\ [][Next]_bootVars
<1>1. KernelInit => Init
  BY DEF KernelInit
<1>2. [KernelNext]_kernelVars => [Next]_bootVars
  BY StepKeepsBoot DEF KernelNext, kernelVars
<1> QED
  BY <1>1, <1>2, PTL DEF KernelSpec

(* Whatever the disks answer, and wherever an operation of the file system *)
(* fails, skmain has given every page of its tests back when it spawns the *)
(* first thread (skmain, list_dir, test_elf, Buffer::drop).                *)
THEOREM TestsReturnPages == KernelSpec => []PagesReturned
<1>1. KernelInit => Accounted
  BY Zenon DEF KernelInit, Accounted, Own, Scratch
<1>2. Accounted /\ [KernelNext]_kernelVars => Accounted'
  <2>1. ASSUME Accounted, UNCHANGED skmainVars PROVE Accounted'
    BY <2>1, Zenon DEF Accounted, Own, Scratch, skmainVars
  <2> QED
    BY <2>1, StepAccounted DEF KernelNext, kernelVars
<1>3. Accounted => PagesReturned
  BY Zenon DEF Accounted, PagesReturned, Own, Scratch
<1> QED
  BY <1>1, <1>2, <1>3, PTL DEF KernelSpec

-----------------------------------------------------------------------------
(* The parser of exec/elf.rs, which skmain runs on an image *)

(* The fields of a header. *)
LEMMA Fields ==
  ASSUME NEW M \in Nat, NEW hdr \in Header(M)
  PROVE  hdr.phoff \in Nat /\ hdr.phnum \in Nat /\ hdr.phentsize \in Nat
<1>1. hdr.phoff \in 0 .. M - 1 /\ hdr.phnum \in u16 /\ hdr.phentsize \in u16
  BY DEF Header
<1>2. \A n \in u16 : n \in Nat
  <2>1. U16_MAX \in Nat
    BY DEF U16_MAX
  <2> QED
    BY <2>1 DEF u16
<1>3. \A n \in 0 .. M - 1 : n \in Nat
  OBVIOUS
<1> QED
  BY <1>1, <1>2, <1>3

(* program_headers reads inside every image that parse accepted, without   *)
(* wrapping around, as long as the image says its headers are at least     *)
(* size_of::<ProgramHeader>() apart (the "Safe because `parse' already     *)
(* bounds-checked" of program_headers, with the condition it needs).       *)
THEOREM HeadersInside ==
  ASSUME NEW M \in Nat, NEW len \in 0 .. M - 1, NEW hdr \in Header(M),
         parse(hdr, len, M) = "Ok",
         hdr.phentsize >= ProgramHeaderSize,
         NEW i \in 0 .. hdr.phnum - 1
  PROVE  /\ program_header(hdr, i, M) = hdr.phoff + i * ProgramHeaderSize
         /\ program_header(hdr, i, M) + ProgramHeaderSize <= len
<1> DEFINE off == hdr.phoff
           n == hdr.phnum
           size == hdr.phentsize
<1>1. off \in Nat /\ n \in Nat /\ size \in Nat /\ size >= 56 /\ i \in Nat /\ i + 1 <= n
  BY Fields DEF ProgramHeaderSize
<1>2. off + n * size <= len
  BY <1>1 DEF parse
<1> HIDE DEF off, n, size
<1>3. (i + 1) * 56 <= n * 56 /\ n * 56 <= n * size
  BY <1>1
<1>4. off + i * 56 + 56 <= len
  BY <1>1, <1>2, <1>3
<1>5. (off + i * 56) % M = off + i * 56
  BY <1>1, <1>4
<1> QED
  BY <1>4, <1>5 DEF program_header, ProgramHeaderSize, off

(* parse turns away no good image: when the header fields are right and    *)
(* the whole program-header table lies inside the file, it returns Ok.     *)
THEOREM GoodImageAccepted ==
  ASSUME NEW M \in Nat, NEW len \in HeaderSize .. M - 1, NEW hdr \in Header(M),
         hdr.magic = MAGIC, hdr.machine = MACHINE_RISCV, hdr.obj_type = TYPE_EXEC,
         hdr.phentsize = ProgramHeaderSize,
         hdr.phoff <= len,
         \A i \in 0 .. hdr.phnum - 1 :
           hdr.phoff + i * ProgramHeaderSize + ProgramHeaderSize <= len
  PROVE  parse(hdr, len, M) = "Ok"
<1>1. hdr.phoff \in Nat /\ hdr.phnum \in Nat
  BY Fields
<1>2. hdr.phoff + hdr.phnum * 56 <= len
  <2>1. CASE hdr.phnum = 0
    BY <1>1, <2>1
  <2>2. CASE hdr.phnum # 0
    BY <1>1, <2>2 DEF ProgramHeaderSize
  <2> QED
    BY <2>1, <2>2
<1> QED
  BY <1>1, <1>2 DEF parse, ProgramHeaderSize, HeaderSize
=============================================================================

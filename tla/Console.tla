------------------------------ MODULE Console ------------------------------
(***************************************************************************)
(* The console: the UART's two FIFOs, the PLIC, the external-interrupt     *)
(* handler (handle_external and echo_uart in arch/riscv64/trap.rs), next   *)
(* to the disk's interrupts, and S-mode code printing a line meanwhile.    *)
(*                                                                         *)
(* One byte is read per interrupt.  The handler runs with interrupts off;  *)
(* system calls hold it off, and the exit of the last thread parks the     *)
(* hart for good.  What the disk's handler does with the queue is in       *)
(* VirtioBlk.tla; here it lowers the disk's line.                          *)
(*                                                                         *)
(* Uart::put reads LSR and writes THR in two accesses, with no lock: the   *)
(* handler may print between the two.                                      *)
(***************************************************************************)
EXTENDS Integers, Sequences, Functions

CONSTANTS
  Bytes,          \* bytes a user types
  FifoSize,       \* bytes the receive FIFO holds
  TxSize,         \* bytes the transmit FIFO holds
  KernelLine,     \* what S-mode code prints, none of it a byte of the echo
  MaxTyped,       \* bound: bytes typed
  MaxInflight     \* bound: disk requests that have not raised their interrupt

UART0_IRQ == 10
DISK_IRQ == 8     \* BlockDevice::irq: 1 + the slot of the device, 0 to 7
Sources == {DISK_IRQ, UART0_IRQ}

(* FifoSize and the bounds are sizes; KernelLine is a sequence. *)
ASSUME ConsoleAssumption ==
  /\ KernelLine \in Seq(Range(KernelLine))
  /\ FifoSize \in Nat \ {0} /\ TxSize \in Nat \ {0, 1}
  /\ MaxTyped \in Nat /\ MaxInflight \in Nat

VARIABLES
  typed,          \* history: the bytes the UART accepted
  fifo,           \* its receive FIFO
  inflight,       \* disk requests still to be answered
  diskLine,       \* the disk's interrupt line; the UART's is fifo # <<>>
  pending,        \* sources whose interrupt the PLIC has latched
  claimed,        \* sources claimed and not completed, which it masks
  hart,           \* "S" (interrupts on), "M" (in a system call), "parked"
  handler,        \* the step of handle_external
  id,             \* the source that plic::next returned last
  ESC_STATE,
  out,            \* the bytes its print! still has to put
  left,           \* the bytes of KernelLine that S-mode code still has to put
  tested,         \* its put has read LSR_THR_EMPTY and not yet written THR
  depth,          \* bytes the transmitter takes: 1 until FCR turns the FIFO on
  tx,             \* the transmit FIFO
  screen          \* what has left it

plic == <<pending, claimed>>
output == <<out, left, tested, depth, tx, screen>>
vars == <<typed, fifo, inflight, diskLine, pending, claimed, hart, handler,
          id, ESC_STATE, output>>

-----------------------------------------------------------------------------
(* The devices.  A line that is raised becomes pending in the PLIC even    *)
(* while its source is being served.                                       *)

(* A byte that arrives at a full FIFO is lost in the UART. *)
Type(c) ==
  /\ Len(typed) < MaxTyped
  /\ Len(fifo) < FifoSize
  /\ typed' = Append(typed, c)
  /\ fifo' = Append(fifo, c)
  /\ pending' = pending \cup {UART0_IRQ}
  /\ UNCHANGED <<inflight, diskLine, claimed, hart, handler, id, ESC_STATE, output>>

DiskDone ==
  /\ inflight > 0
  /\ inflight' = inflight - 1
  /\ diskLine' = TRUE
  /\ pending' = pending \cup {DISK_IRQ}
  /\ UNCHANGED <<typed, fifo, claimed, hart, handler, id, ESC_STATE, output>>

Line(s) == IF s = UART0_IRQ THEN fifo # <<>> ELSE diskLine

-----------------------------------------------------------------------------
(* The transmitter and Uart::put *)

(* A byte leaves the transmit FIFO; LSR_THR_EMPTY is tx = <<>>. *)
Transmit ==
  /\ tx # <<>>
  /\ tx' = Tail(tx)
  /\ screen' = Append(screen, Head(tx))
  /\ UNCHANGED <<typed, fifo, inflight, diskLine, plic, hart, handler, id, ESC_STATE,
                 out, left, tested, depth>>

(* A write of THR.  At a full transmitter the oldest byte is lost. *)
Put(c) == tx' = Append(IF Len(tx) < depth THEN tx ELSE Tail(tx), c)

HandlerPut_Unpolled ==
  /\ handler = "print"
  /\ Put(Head(out))
  /\ out' = Tail(out)
  /\ handler' = IF out' = <<>> THEN "complete" ELSE "print"
  /\ UNCHANGED <<typed, fifo, inflight, diskLine, plic, hart, id, ESC_STATE,
                 left, tested, depth, screen>>

(* put, called by the handler's print!: nothing runs between its polling   *)
(* loop and its write.                                                     *)
HandlerPut ==
  /\ handler = "print"
  /\ tx = <<>>
  /\ Put(Head(out))
  /\ out' = Tail(out)
  /\ handler' = IF out' = <<>> THEN "complete" ELSE "print"
  /\ UNCHANGED <<typed, fifo, inflight, diskLine, plic, hart, id, ESC_STATE,
                 left, tested, depth, screen>>

(* S-mode code runs while no interrupt is waiting. *)
Supervisor == hart = "S" /\ handler = "off" /\ pending \subseteq claimed

(* put, called by S-mode code: the loop ends. *)
PollThr ==
  /\ Supervisor
  /\ left # <<>> /\ ~tested
  /\ tx = <<>>
  /\ tested' = TRUE
  /\ UNCHANGED <<typed, fifo, inflight, diskLine, plic, hart, handler, id, ESC_STATE,
                 out, left, depth, tx, screen>>

(* put, called by S-mode code: the write. *)
WriteThr ==
  /\ Supervisor
  /\ tested
  /\ Put(Head(left))
  /\ left' = Tail(left)
  /\ tested' = FALSE
  /\ UNCHANGED <<typed, fifo, inflight, diskLine, plic, hart, handler, id, ESC_STATE,
                 out, depth, screen>>

-----------------------------------------------------------------------------
(* The rest of the kernel *)

(* A pending interrupt is taken before the next instruction of S-mode. *)
Syscall ==
  /\ Supervisor /\ ~tested
  /\ hart' = "M"
  /\ inflight' \in {inflight} \cup {k \in {inflight + 1} : k <= MaxInflight}
  /\ UNCHANGED <<typed, fifo, diskLine, plic, handler, id, ESC_STATE, output>>

SyscallReturn ==
  /\ hart = "M"
  /\ hart' \in {"S", "parked"}
  /\ UNCHANGED <<typed, fifo, inflight, diskLine, plic, handler, id, ESC_STATE, output>>

(* The wfi loop at the end of do_syscall. *)
Parked == hart = "parked" /\ UNCHANGED vars

-----------------------------------------------------------------------------
(* handle_external *)

(* plic::next: both sources have priority 1, and the lower number wins. *)
Claim(s) ==
  /\ hart = "S" /\ handler = "off"
  /\ s \in pending \ claimed
  /\ \A t \in pending \ claimed : s <= t
  /\ claimed' = claimed \cup {s}
  /\ pending' = pending \ {s}
  /\ handler' = "serve"
  /\ id' = s
  /\ UNCHANGED <<typed, fifo, inflight, diskLine, hart, ESC_STATE, output>>

(* plic::next returns None: nothing was claimed, nothing is completed. *)
Spurious ==
  /\ Supervisor
  /\ UNCHANGED vars

(* pending_by_irq.  When InterruptStatus reads zero it is false and a line *)
(* is printed, which is left out.                                          *)
ServeDisk ==
  /\ handler = "serve" /\ id = DISK_IRQ
  /\ diskLine' = FALSE
  /\ handler' = "complete"
  /\ UNCHANGED <<typed, fifo, inflight, plic, hart, id, ESC_STATE, output>>

CRLF == <<"CR", "LF">>

Arrow == [A |-> "up arrow!", B |-> "down arrow!", C |-> "right arrow!", D |-> "left arrow!"]

(* What a byte shows outside an escape sequence. *)
Glyph(c) ==
  CASE c \in {"BS", "DEL"} -> <<"BS", " ", "BS">>
    [] c \in {"CR", "LF"} -> CRLF
    [] OTHER -> <<c>>

(* The arms of `match state', as the state that follows. *)
NextEsc_KeepsCsi(esc, c) ==
  CASE esc = "Idle" /\ c = "ESC" -> "EscSeen"
    [] esc = "EscSeen" /\ c = "[" -> "CsiOpen"
    [] esc = "CsiOpen" /\ c \notin DOMAIN Arrow -> "CsiOpen"
    [] OTHER -> "Idle"

NextEsc(esc, c) ==
  CASE esc = "Idle" /\ c = "ESC" -> "EscSeen"
    [] esc = "EscSeen" /\ c = "[" -> "CsiOpen"
    [] OTHER -> "Idle"

(* The arms of `match state', as what they print. *)
Printed(esc, c) ==
  CASE esc = "Idle" /\ c # "ESC" -> Glyph(c)
    [] esc = "CsiOpen" /\ c \in DOMAIN Arrow -> <<Arrow[c]>> \o CRLF
    [] OTHER -> <<>>

(* All that Printed can give. *)
Echoes == Bytes \cup {"BS", " ", "CR", "LF"} \cup Range(Arrow)

Letters == Echoes \cup Range(KernelLine)

(* The line can be told from the echo. *)
ASSUME EchoAssumption == Range(KernelLine) \cap Echoes = {}

(* uart.get, and the decoder; what it prints is put byte by byte. *)
echo_uart ==
  /\ handler = "serve" /\ id = UART0_IRQ
  /\ IF fifo = <<>>
       THEN UNCHANGED <<fifo, ESC_STATE, out>>
       ELSE /\ out' = Printed(ESC_STATE, Head(fifo))
            /\ ESC_STATE' = NextEsc(ESC_STATE, Head(fifo))
            /\ fifo' = Tail(fifo)
  /\ handler' = IF out' = <<>> THEN "complete" ELSE "print"
  /\ UNCHANGED <<typed, inflight, diskLine, plic, hart, id, left, tested, depth, tx, screen>>

Complete_Forgotten ==
  /\ handler = "complete"
  /\ handler' = "off"
  /\ UNCHANGED <<typed, fifo, inflight, diskLine, pending, claimed, hart, id, ESC_STATE, output>>

(* plic::complete unmasks the source: if its line is still raised, it is   *)
(* pending again.                                                          *)
Complete ==
  /\ handler = "complete"
  /\ claimed' = claimed \ {id}
  /\ pending' = IF Line(id) THEN pending \cup {id} ELSE pending
  /\ handler' = "off"
  /\ UNCHANGED <<typed, fifo, inflight, diskLine, hart, id, ESC_STATE, output>>

-----------------------------------------------------------------------------
init_NoFifo == 1

(* Uart::init, which kinit calls first: with FCR_ENABLE the transmitter    *)
(* has its FIFO, without it one holding register.                          *)
init == TxSize

Init ==
  /\ typed = <<>>
  /\ fifo = <<>>
  /\ inflight = 0
  /\ diskLine = FALSE
  /\ pending = {}
  /\ claimed = {}
  /\ hart = "S"
  /\ handler = "off"
  /\ id = UART0_IRQ
  /\ ESC_STATE = "Idle"
  /\ out = <<>>
  /\ left = KernelLine
  /\ tested = FALSE
  /\ depth = init
  /\ tx = <<>>
  /\ screen = <<>>

Serve == ServeDisk \/ echo_uart \/ HandlerPut \/ Complete

Next ==
  \/ \E c \in Bytes : Type(c)
  \/ DiskDone
  \/ \E s \in Sources : Claim(s)
  \/ Syscall \/ SyscallReturn \/ Parked
  \/ Spurious
  \/ PollThr \/ WriteThr
  \/ Serve
  \/ Transmit

(* The hart takes a pending interrupt, system calls return, and the        *)
(* handler runs to its end, which its put does when the transmitter drains.*)
(* Nothing is assumed of the disk, of whoever types or of S-mode code.     *)
Fairness ==
  /\ WF_vars(\E s \in Sources : Claim(s))
  /\ WF_vars(SyscallReturn)
  /\ WF_vars(Serve)
  /\ WF_vars(Transmit)

Spec == Init /\ [][Next]_vars /\ Fairness

-----------------------------------------------------------------------------
(* Types; exactly the source that the handler is serving is masked. *)
TypeOK ==
  /\ typed \in Seq(Bytes) /\ fifo \in Seq(Bytes)
  /\ Len(fifo) <= FifoSize
  /\ inflight \in 0 .. MaxInflight
  /\ diskLine \in BOOLEAN
  /\ pending \subseteq Sources
  /\ id \in Sources
  /\ claimed = IF handler = "off" THEN {} ELSE {id}
  /\ hart \in {"S", "M", "parked"} /\ (handler # "off" => hart = "S")
  /\ ESC_STATE \in {"Idle", "EscSeen", "CsiOpen"}
  /\ handler = "print" <=> out # <<>>
  /\ Len(tx) <= 2
  /\ out \in Seq(Echoes) /\ left \in Seq(Range(KernelLine))
  /\ tx \in Seq(Letters) /\ screen \in Seq(Letters)

(* The key that starts at byte i of an input: ESC [ and a byte is one key, *)
(* ESC with any other byte is one that shows nothing.                      *)
KeyLen(input, i) ==
  IF input[i] # "ESC" \/ i = Len(input) THEN 1
  ELSE IF input[i + 1] # "[" THEN 2
  ELSE 3

KeyShows(input, i) ==
  IF input[i] # "ESC" THEN Glyph(input[i])
  ELSE IF KeyLen(input, i) = 3 /\ i + 2 <= Len(input) /\ input[i + 2] \in DOMAIN Arrow
    THEN <<Arrow[input[i + 2]]>> \o CRLF
    ELSE <<>>

(* What a whole input shows, read key by key from left to right. *)
Shown(input) ==
  LET from[i \in 1 .. Len(input) + 3] ==
        IF i > Len(input) THEN <<>>
        ELSE KeyShows(input, i) \o from[i + KeyLen(input, i)]
  IN  from[1]

(* The elements of s that are in S, in their order. *)
Only(s, S) ==
  LET from[i \in 1 .. Len(s) + 1] ==
        IF i > Len(s) THEN <<>>
        ELSE (IF s[i] \in S THEN <<s[i]>> ELSE <<>>) \o from[i + 1]
  IN  from[1]

(* The bytes put so far by S-mode code, and those put by the handler. *)
OfKernel(bytes) == Only(bytes, Range(KernelLine))
OfEcho(bytes) == Only(bytes, Echoes)

(* Bytes come out once each, in the order they were typed, and ESC_STATE   *)
(* puts the escape sequences together although each byte has an interrupt  *)
(* of its own (echo_uart); and what the handler prints is on the screen    *)
(* in full, although it may print between the polling of LSR and the       *)
(* write of THR in a put it interrupted (Uart::put).                       *)
EchoExact ==
  /\ fifo = SubSeq(typed, Len(typed) - Len(fifo) + 1, Len(typed))
  /\ OfEcho(screen \o tx) \o out = Shown(SubSeq(typed, 1, Len(typed) - Len(fifo)))

(* Once S-mode code has seen LSR_THR_EMPTY the transmitter has room for    *)
(* its byte when it writes, although handlers may have printed in between  *)
(* (Uart::put: the holding register alone would not have it, the FIFO that *)
(* Uart::init turns on has).                                               *)
ThrHasRoom == tested => Len(tx) < depth

(* The line that S-mode code prints loses no byte and keeps its order,     *)
(* whatever the handler prints inside it (Uart::write_str: nothing is      *)
(* locked, so the line may be mixed with the echo).                        *)
LineWhole == OfKernel(screen \o tx) \o left = KernelLine

(* Whatever was typed is eventually read, although each interrupt reads    *)
(* one byte (handle_external, plic::complete) and waits for the            *)
(* transmitter to print it, unless the hart is parked.                     *)
EverythingRead == fifo # <<>> ~> (fifo = <<>> \/ hart = "parked")
=============================================================================

----------------------------- MODULE VirtioBlk -----------------------------
(***************************************************************************)
(* The virtio block driver (drivers/virtio/device.rs): block_op, pending   *)
(* and pending_by_irq over one queue, against the device and the PLIC.     *)
(*                                                                         *)
(* One operation is in progress at a time.  skmain issues its operations   *)
(* in S-mode, where the device's interrupt may run pending_by_irq between  *)
(* any two of its steps; later ones come from system call 63 in M-mode     *)
(* with interrupts off.  The device answers in three steps: it fetches the *)
(* chain, writes data and status, and only then publishes the used element *)
(* and raises its interrupt.  req_head is left out: it is written, and its *)
(* value is tested against null, with no effect on what follows.           *)
(***************************************************************************)
EXTENDS Integers, Sequences, FiniteSets, Functions

CONSTANTS
  VIRTIO_RING_SIZE,
  IdxMod,         \* 2^16: ring indices are u16; a multiple of the ring size
  ReqPages,       \* pages that alloc_request may return
  MaxBootOps,     \* bound: operations that skmain issues
  Overlaps        \* kinds of device: the values `overlap' may have

ASSUME QueueAssumption ==
  /\ VIRTIO_RING_SIZE \in Nat \ {0}
  /\ IdxMod \in Nat \ {0}
  /\ IdxMod % VIRTIO_RING_SIZE = 0
  /\ ReqPages # {}
  /\ MaxBootOps \in Nat
  /\ Overlaps \subseteq BOOLEAN

D == 0 .. VIRTIO_RING_SIZE - 1
NoNext == -1      \* a descriptor without VIRTIO_DESC_F_NEXT

VARIABLES
  free,           \* QueueState.free, as the set of free descriptors
  next,           \* the next field and NEXT flag of each descriptor
  target,         \* the request page whose fields each descriptor points at
  status,         \* Request.status in each request page
  ack,            \* BlockDevice.ack_used_idx
  op,             \* the block_op in progress: step and locals
  bootOps,        \* operations skmain may still issue
  posted,         \* heads in the avail ring that the device has not fetched
  jobs,           \* requests the device has fetched and not published
  usedRing, usedIdx,
  isr,            \* the device's InterruptStatus
  irq,            \* the PLIC has the device's interrupt pending
  handler,        \* the step of handle_external / pending_by_irq
  raced,          \* history: the handler ran inside a block_op
  overlap         \* fixed: the device may answer a request before it has
                  \* published the used element of the previous one

driver == <<free, next, target, ack>>
device == <<posted, jobs, usedRing, usedIdx, isr>>
vars == <<free, next, target, status, ack, op, bootOps, posted, jobs,
          usedRing, usedIdx, isr, irq, handler, raced, overlap>>

Idle == [at |-> "idle", boot |-> FALSE, page |-> CHOOSE p \in ReqPages : TRUE,
         ack |-> 0, head |-> 0, chain |-> <<>>]

(* A step of the interrupted code waits for the handler to return. *)
Runs(step) == op.at = step /\ handler = "off"

Inc_NoWrap(i) == i + 1

Inc(i) == (i + 1) % IdxMod

-----------------------------------------------------------------------------
(* Descriptor chains *)

(* alloc_desc_chain takes the three lowest free descriptors. *)
LowestFree(c) ==
  /\ {c[1], c[2], c[3]} \subseteq free
  /\ c[1] < c[2] /\ c[2] < c[3]
  /\ \A i \in free : i <= c[3] => i \in {c[1], c[2], c[3]}

(* free_desc_chain: the descriptors its walk from head frees *)
Chain_HeadOnly(head) == {head}

Chain(head) ==
  LET walk[i \in D] == {i} \cup (IF next[i] = NoNext THEN {} ELSE walk[next[i]])
  IN  walk[head]

-----------------------------------------------------------------------------
(* block_op *)

(* No such device, a write to a read-only one, no page for the request. *)
Refuse == Runs("idle") /\ UNCHANGED vars

(* alloc_desc_chain finds fewer than three: the request page goes back. *)
NoChain ==
  /\ Runs("idle")
  /\ Cardinality(free) < 3
  /\ UNCHANGED vars

(* Who calls: skmain in S-mode, until the first thread runs; after that    *)
(* system call 63 in M-mode.                                               *)
Submit(p, boot) ==
  /\ Runs("idle")
  /\ boot => bootOps > 0
  /\ bootOps' = IF boot THEN bootOps - 1 ELSE 0
  /\ status' = [status EXCEPT ![p] = "PENDING"]
  /\ \E c \in D \X D \X D :
       /\ LowestFree(c)
       /\ free' = free \ {c[1], c[2], c[3]}
       /\ op' = [at |-> "post", boot |-> boot, page |-> p, ack |-> ack, head |-> 0, chain |-> c]
  /\ UNCHANGED <<next, target, ack, device, irq, handler, raced, overlap>>

Post_NoNotify ==
  /\ Runs("post")
  /\ op' = [op EXCEPT !.at = "pending", !.chain = <<>>]
  /\ UNCHANGED <<driver, status, bootOps, device, irq, handler, raced, overlap>>

(* The three descriptors, the avail ring and its index, QueueNotify. *)
Post ==
  /\ Runs("post")
  /\ LET head == op.chain[1]
         data == op.chain[2]
         stat == op.chain[3]
     IN /\ next' = [next EXCEPT ![head] = data, ![data] = stat, ![stat] = NoNext]
        /\ target' = [target EXCEPT ![head] = op.page, ![data] = op.page, ![stat] = op.page]
        /\ posted' = Append(posted, head)
  /\ op' = [op EXCEPT !.at = "pending", !.chain = <<>>]
  /\ UNCHANGED <<free, ack, status, bootOps, jobs, usedRing, usedIdx, isr, irq,
                 handler, raced, overlap>>

(* pending, called from block_op.  The handler may change ack_used_idx     *)
(* meanwhile, a data race: the compiler may reload it at each mention or   *)
(* use the value it loaded or stored before.                               *)
AckSeen == {ack, op.ack}

PendingTest ==
  /\ Runs("pending")
  /\ \E a \in AckSeen :
       op' = [op EXCEPT !.at = IF a = usedIdx THEN "status" ELSE "element", !.ack = a]
  /\ UNCHANGED <<driver, status, bootOps, device, irq, handler, raced, overlap>>

PendingElement ==
  /\ Runs("element")
  /\ \E a \in AckSeen :
       op' = [op EXCEPT !.at = "bump", !.head = usedRing[a % VIRTIO_RING_SIZE], !.ack = a]
  /\ UNCHANGED <<driver, status, bootOps, device, irq, handler, raced, overlap>>

PendingBump ==
  /\ Runs("bump")
  /\ \E a \in AckSeen :
       /\ ack' = Inc(a)
       /\ op' = [op EXCEPT !.at = "free", !.ack = Inc(a)]
  /\ UNCHANGED <<free, next, target, status, bootOps, device, irq, handler, raced, overlap>>

PendingFree ==
  /\ Runs("free")
  /\ free' = free \cup Chain(op.head)
  /\ op' = [op EXCEPT !.at = "pending", !.head = 0]
  /\ UNCHANGED <<next, target, status, ack, bootOps, device, irq, handler, raced, overlap>>

(* break unless req.status is STATUS_PENDING; free_request; return *)
CheckStatus_Skipped ==
  /\ Runs("status")
  /\ op' = Idle
  /\ UNCHANGED <<driver, status, bootOps, device, irq, handler, raced, overlap>>

CheckStatus ==
  /\ Runs("status")
  /\ op' = IF status[op.page] # "PENDING" THEN Idle ELSE [op EXCEPT !.at = "pending"]
  /\ UNCHANGED <<driver, status, bootOps, device, irq, handler, raced, overlap>>

-----------------------------------------------------------------------------
(* handle_external and pending_by_irq, in M-mode *)

(* plic::next claims the interrupt. *)
Claim ==
  /\ handler = "off"
  /\ irq
  /\ op.at = "idle" \/ op.boot
  /\ irq' = FALSE
  /\ handler' = "isr"
  /\ raced' = (raced \/ op.at # "idle")
  /\ UNCHANGED <<driver, status, op, bootOps, device, overlap>>

ReadIsr ==
  /\ handler = "isr"
  /\ handler' = IF isr THEN "pending" ELSE "complete"
  /\ UNCHANGED <<driver, status, op, bootOps, device, irq, raced, overlap>>

(* One round of pending's loop: nothing but the device runs meanwhile. *)
HandlerPending ==
  /\ handler = "pending"
  /\ ack # usedIdx
  /\ free' = free \cup Chain(usedRing[ack % VIRTIO_RING_SIZE])
  /\ ack' = Inc(ack)
  /\ UNCHANGED <<next, target, status, op, bootOps, device, irq, handler, raced, overlap>>

HandlerDrained ==
  /\ handler = "pending"
  /\ ack = usedIdx
  /\ handler' = "ack"
  /\ UNCHANGED <<driver, status, op, bootOps, device, irq, raced, overlap>>

AckIsr ==
  /\ handler = "ack"
  /\ isr' = FALSE
  /\ handler' = "complete"
  /\ UNCHANGED <<driver, status, op, bootOps, posted, jobs, usedRing, usedIdx, irq,
                 raced, overlap>>

(* plic::complete: a line that is still raised becomes pending again. *)
Complete ==
  /\ handler = "complete"
  /\ handler' = "off"
  /\ irq' = (irq \/ isr)
  /\ UNCHANGED <<driver, status, op, bootOps, device, raced, overlap>>

-----------------------------------------------------------------------------
(* The device *)

Fetch ==
  /\ posted # <<>>
  /\ jobs' = jobs \cup {[head |-> Head(posted), answered |-> FALSE]}
  /\ posted' = Tail(posted)
  /\ UNCHANGED <<driver, status, op, bootOps, usedRing, usedIdx, isr, irq, handler,
                 raced, overlap>>

(* The device reaches the status byte through the chain. *)
StatusPage(head) == target[next[next[head]]]

(* The device writes the data and a status, success or failure. *)
Answer(j) ==
  /\ j \in jobs /\ ~j.answered
  /\ overlap \/ jobs = {j}
  /\ status' = [status EXCEPT ![StatusPage(j.head)] = "ANSWERED"]
  /\ jobs' = (jobs \ {j}) \cup {[j EXCEPT !.answered = TRUE]}
  /\ UNCHANGED <<driver, op, bootOps, posted, usedRing, usedIdx, isr, irq, handler,
                 raced, overlap>>

Publish(j) ==
  /\ j \in jobs /\ j.answered
  /\ usedRing' = [usedRing EXCEPT ![usedIdx % VIRTIO_RING_SIZE] = j.head]
  /\ usedIdx' = Inc(usedIdx)
  /\ jobs' = jobs \ {j}
  /\ isr' = TRUE
  /\ irq' = TRUE
  /\ UNCHANGED <<driver, status, op, bootOps, posted, handler, raced, overlap>>

-----------------------------------------------------------------------------
Jobs == [head : D, answered : BOOLEAN]

Init ==
  /\ free = D
  /\ next = [i \in D |-> NoNext]
  /\ target = [i \in D |-> Idle.page]
  /\ status = [p \in ReqPages |-> "ANSWERED"]
  /\ ack = 0
  /\ op = Idle
  /\ bootOps = MaxBootOps
  /\ posted = <<>>
  /\ jobs = {}
  /\ usedRing = [i \in D |-> 0]
  /\ usedIdx = 0
  /\ isr = FALSE
  /\ irq = FALSE
  /\ handler = "off"
  /\ raced = FALSE
  /\ overlap \in Overlaps

OpStep == Post \/ PendingTest \/ PendingElement \/ PendingBump \/ PendingFree \/ CheckStatus

HandlerStep == Claim \/ ReadIsr \/ HandlerPending \/ HandlerDrained \/ AckIsr \/ Complete

Next ==
  \/ Refuse \/ NoChain
  \/ \E p \in ReqPages, boot \in BOOLEAN : Submit(p, boot)
  \/ OpStep
  \/ HandlerStep
  \/ Fetch
  \/ \E j \in Jobs : Answer(j) \/ Publish(j)

(* The hart executes instructions, takes pending interrupts, and a working *)
(* device eventually serves what is posted to it.                          *)
Fairness ==
  /\ WF_vars(OpStep)
  /\ WF_vars(HandlerStep)
  /\ WF_vars(Fetch)
  /\ \A h \in D :
       /\ WF_vars(Answer([head |-> h, answered |-> FALSE]))
       /\ WF_vars(Publish([head |-> h, answered |-> TRUE]))

Spec == Init /\ [][Next]_vars /\ Fairness

-----------------------------------------------------------------------------
(* The ranges of the driver's and the device's variables; chains run       *)
(* upwards, so that free_desc_chain's walk ends.                           *)
TypeOK ==
  /\ free \subseteq D
  /\ \A i \in D : next[i] = NoNext \/ next[i] \in i + 1 .. VIRTIO_RING_SIZE - 1
  /\ target \in [D -> ReqPages]
  /\ status \in [ReqPages -> {"PENDING", "ANSWERED"}]
  /\ ack \in 0 .. IdxMod - 1 /\ usedIdx \in 0 .. IdxMod - 1
  /\ op.at \in {"idle", "post", "pending", "element", "bump", "free", "status"}
  /\ bootOps \in 0 .. MaxBootOps
  /\ jobs \subseteq Jobs

(* The heads of requests the device has yet to answer. *)
Unanswered == Range(posted) \cup {j.head : j \in {k \in jobs : ~k.answered}}

(* While the device may still write, block_op has neither returned nor     *)
(* given back the request page, and the chain still leads there: the       *)
(* interrupt handler freeing descriptors under block_op does no harm.      *)
DmaTargetHeld ==
  \A h \in Unanswered : op.at # "idle" /\ StatusPage(h) = op.page /\ status[op.page] = "PENDING"

(* Every block_op returns, whatever the interrupt handler does meanwhile.  *)
BlockOpReturns == (op.at # "idle") ~> (op.at = "idle")

(* Used elements that pending has still to look at. *)
Unconsumed == {usedRing[k % VIRTIO_RING_SIZE] :
                 k \in {(ack + i) % IdxMod : i \in 0 .. ((usedIdx - ack) % IdxMod) - 1}}

Outstanding ==
  Range(posted) \cup {j.head : j \in jobs} \cup Unconsumed
    \cup (IF op.at \in {"bump", "free"} THEN {op.head} ELSE {})

(* The chain that alloc_desc_chain took and that is not written yet. *)
Taken == {op.chain[i] : i \in DOMAIN op.chain}

(* As long as the handler has not run inside a block_op, each descriptor   *)
(* is free or belongs to one request the driver has still to retire        *)
(* (alloc_desc_chain, pending, free_desc_chain).                           *)
NoDescriptorLost ==
  ~raced => /\ D \ free \subseteq Taken \cup UNION {Chain(h) : h \in Outstanding}
            /\ \A h \in Outstanding : Chain(h) \cap free = {}

(* "supporting interrupt-driven completion via `pending`" (device.rs:368): *)
(* the queue never stays without a free chain when the device has          *)
(* published everything and no interrupt is left to make pending run.      *)
NeverWedged ==
  ~ /\ op.at = "idle" /\ handler = "off"
    /\ posted = <<>> /\ jobs = {} /\ ~isr /\ ~irq
    /\ Cardinality(free) < 3

(* On a device that publishes each answer before it gives the next, the    *)
(* queue gets stuck only after the handler ran inside a block_op: elements *)
(* that block_op leaves behind, or that arrive between pending's last test *)
(* and the InterruptAck, are caught up with by a later pending.            *)
WedgeNeedsRace == ~overlap /\ ~raced => NeverWedged

(* block_op looks synchronous (BlockTransfer): the device writes to a      *)
(* request page once per call, to the caller's page and before the call    *)
(* returns, whatever stale elements and freed chains pending deals with.   *)
Transfer ==
  INSTANCE BlockTransfer WITH phase <- IF op.at = "idle" THEN "idle" ELSE "waiting",
                              page <- op.page

TransferSpec == Transfer!Spec
=============================================================================

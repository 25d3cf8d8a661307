-------------------------- MODULE VirtioBlkProofs --------------------------
(***************************************************************************)
(* The virtio queue and block_op, for every queue size, every set of       *)
(* request pages and both kinds of device.                                 *)
(*                                                                         *)
(* DmaTargetHeld (IInv): block_op is never run twice at once, so at most   *)
(* one request is unanswered, it is the one block_op waits for, and the    *)
(* three descriptors written by Post are not written again before it       *)
(* returns.  What is free plays no part, so the data race on ack_used_idx, *)
(* which can free a chain early or never, cannot break it.                 *)
(*                                                                         *)
(* NoDescriptorLost (Queue): until that race, the chains of the requests   *)
(* in flight and the free descriptors share out the table: chains are      *)
(* apart from each other and from what is free, and each head is in one    *)
(* place only, the avail ring, the device or the used ring.                *)
(*                                                                         *)
(* WedgeNeedsRace (LeftBehind): until the race, a device that answers in   *)
(* order has left at most one used element that no one will look at, so at *)
(* most one chain is out when block_op starts and a ring of six            *)
(* descriptors still has the three it needs.                               *)
(***************************************************************************)
EXTENDS VirtioBlk, FiniteSetTheorems, TLAPS

Steps == {"idle", "post", "pending", "element", "bump", "free", "status"}

IsOp(r) == r = [at |-> r.at, boot |-> r.boot, page |-> r.page, ack |-> r.ack,
                head |-> r.head, chain |-> r.chain]

(* The types that the argument needs; nothing is said of free and ack. *)
Types ==
  /\ next \in [D -> D \cup {NoNext}]
  /\ target \in [D -> ReqPages]
  /\ status \in [ReqPages -> {"PENDING", "ANSWERED"}]
  /\ op.at \in Steps /\ op.page \in ReqPages
  /\ IsOp(op)
  /\ posted \in Seq(D)
  /\ jobs \subseteq Jobs

(* A chain that alloc_desc_chain took has three different descriptors. *)
ChainTaken ==
  op.at = "post" =>
    /\ op.chain \in D \X D \X D
    /\ op.chain[1] # op.chain[2] /\ op.chain[2] # op.chain[3] /\ op.chain[1] # op.chain[3]
    /\ status[op.page] = "PENDING"

(* h is the head of the request that block_op waits for. *)
Held(h) ==
  /\ h \in D /\ next[h] \in D /\ next[next[h]] \in D
  /\ op.at \notin {"idle", "post"}
  /\ StatusPage(h) = op.page
  /\ status[op.page] = "PENDING"

(* The device has one unanswered request at most. *)
OneRequest ==
  /\ posted = <<>> \/ \E h \in D : posted = <<h>> /\ Held(h)
  /\ posted # <<>> => \A j \in jobs : j.answered
  /\ \A j \in jobs : ~j.answered => Held(j.head)
  /\ \A j, k \in jobs : ~j.answered /\ ~k.answered => j = k

IInv == Types /\ ChainTaken /\ OneRequest

-----------------------------------------------------------------------------
(* The idle state of block_op has the type of op: alloc_request returns    *)
(* some page.                                                              *)
LEMMA IdleType == Idle.page \in ReqPages /\ Idle.at = "idle"
<1>1. \E p \in ReqPages : TRUE
  BY QueueAssumption
<1>2. (CHOOSE p \in ReqPages : TRUE) \in ReqPages
  BY <1>1
<1> QED
  BY <1>2 DEF Idle

(* The inductive invariant gives the property: posted heads and fetched    *)
(* jobs are all held by the block_op in progress.                          *)
LEMMA HeldEnough == IInv => DmaTargetHeld
<1> SUFFICES ASSUME IInv, NEW h \in Unanswered
             PROVE  op.at # "idle" /\ StatusPage(h) = op.page /\ status[op.page] = "PENDING"
  BY DEF DmaTargetHeld
<1>1. CASE h \in Range(posted)
  <2>1. PICK g \in D : posted = <<g>> /\ Held(g)
    BY <1>1 DEF IInv, OneRequest, Range
  <2>2. h = g
    BY <1>1, <2>1 DEF Range
  <2> QED
    BY <2>1, <2>2 DEF Held
<1>2. CASE h \in {j.head : j \in {k \in jobs : ~k.answered}}
  BY <1>2 DEF IInv, OneRequest, Held
<1> QED
  BY <1>1, <1>2 DEF Unanswered

-----------------------------------------------------------------------------
(* The initial state: an empty queue, block_op idle. *)
LEMMA InitIInv == Init => IInv
<1> SUFFICES ASSUME Init PROVE IInv
  OBVIOUS
<1>1. op = Idle /\ op.at = "idle" /\ op.page \in ReqPages
  BY IdleType DEF Init
<1>2. Types
  <2>1. posted \in Seq(D)
    BY DEF Init
  <2>2. target \in [D -> ReqPages]
    BY IdleType DEF Init
  <2>3. IsOp(op)
    BY <1>1 DEF IsOp, Idle
  <2> QED
    BY <1>1, <2>1, <2>2, <2>3 DEF Init, Types, Steps
<1> QED
  BY <1>1, <1>2 DEF IInv, ChainTaken, OneRequest, Init

(* Every step that writes neither a descriptor, nor a status, nor the      *)
(* rings, and leaves op in progress, keeps the invariant.                  *)
LEMMA OpMoves ==
  ASSUME IInv, op.at \notin {"idle", "post"},
         op'.at \in Steps \ {"idle", "post"}, op'.page = op.page, IsOp(op)',
         UNCHANGED <<next, target, status, posted, jobs>>
  PROVE  IInv'
<1>1. Types'
  BY DEF IInv, Types
<1>2. \A h : Held(h) => Held(h)'
  BY DEF Held, StatusPage
<1> QED
  BY <1>1, <1>2 DEF IInv, ChainTaken, OneRequest

(* Steps that touch none of the variables of the argument: those of the    *)
(* handler, and what it does to free and ack_used_idx.                     *)
LEMMA Untouched ==
  ASSUME IInv, UNCHANGED <<next, target, status, op, posted, jobs>>
  PROVE  IInv'
  BY DEF IInv, Types, ChainTaken, OneRequest, Held, StatusPage, IsOp

(* alloc_request and alloc_desc_chain: nothing is unanswered while         *)
(* block_op is idle, and the chain taken is three different descriptors.   *)
LEMMA SubmitStep ==
  ASSUME IInv, NEW p \in ReqPages, NEW boot \in BOOLEAN, Submit(p, boot)
  PROVE  IInv'
<1>1. PICK c \in D \X D \X D :
        /\ LowestFree(c)
        /\ op' = [at |-> "post", boot |-> boot, page |-> p, ack |-> ack, head |-> 0, chain |-> c]
  BY DEF Submit
<1>2. c[1] \in Int /\ c[2] \in Int /\ c[3] \in Int /\ c[1] < c[2] /\ c[2] < c[3]
  BY <1>1 DEF LowestFree, D
<1>3. op.at = "idle" /\ status' = [status EXCEPT ![p] = "PENDING"]
      /\ UNCHANGED <<next, target, posted, jobs>>
  BY DEF Submit, Runs, device
<1>4. op'.at = "post" /\ op'.page = p /\ op'.chain = c /\ IsOp(op)'
  BY <1>1 DEF IsOp
<1>5. Types' /\ status'[p] = "PENDING"
  BY <1>3, <1>4 DEF IInv, Types, Steps
<1>6. ChainTaken'
  BY <1>2, <1>4, <1>5 DEF ChainTaken
<1>7. posted = <<>> /\ \A j \in jobs : j.answered
  BY <1>3 DEF IInv, OneRequest, Held
<1> QED
  BY <1>3, <1>5, <1>6, <1>7 DEF IInv, OneRequest

(* Post: the one request becomes unanswered, and its three descriptors     *)
(* lead to the status of its own page.                                     *)
LEMMA PostStep == ASSUME IInv, Post PROVE IInv'
<1>1. PICK h \in D, d \in D, s \in D :
        /\ h = op.chain[1] /\ d = op.chain[2] /\ s = op.chain[3]
        /\ h # d /\ d # s /\ h # s
  BY DEF IInv, ChainTaken, Post, Runs
<1>2. /\ next' = [next EXCEPT ![h] = d, ![d] = s, ![s] = NoNext]
      /\ target' = [target EXCEPT ![h] = op.page, ![d] = op.page, ![s] = op.page]
      /\ posted' = Append(posted, h)
      /\ op' = [op EXCEPT !.at = "pending", !.chain = <<>>]
      /\ op.at = "post" /\ status[op.page] = "PENDING"
      /\ UNCHANGED <<status, jobs>>
  BY <1>1 DEF Post, Runs, IInv, ChainTaken
<1>3. op'.at = "pending" /\ op'.page = op.page /\ IsOp(op)'
  BY <1>2, Zenon DEF IInv, Types, IsOp
<1>4. posted = <<>> /\ \A j \in jobs : j.answered
  BY <1>2 DEF IInv, OneRequest, Held
<1>5. posted' = <<h>>
  BY <1>1, <1>2, <1>4
<1>6. next' \in [D -> D \cup {NoNext}] /\ next'[h] = d /\ next'[d] = s
  BY <1>1, <1>2 DEF IInv, Types
<1>7. target' \in [D -> ReqPages] /\ target'[s] = op.page
  BY <1>1, <1>2 DEF IInv, Types
<1>8. Types'
  <2>1. /\ status' \in [ReqPages -> {"PENDING", "ANSWERED"}] /\ jobs' \subseteq Jobs
        /\ op'.page \in ReqPages
    BY <1>2, <1>3 DEF IInv, Types
  <2>2. posted' \in Seq(D)
    BY <1>1, <1>5
  <2>3. op'.at \in Steps
    BY <1>3 DEF Steps
  <2> QED
    BY <1>3, <1>6, <1>7, <2>1, <2>2, <2>3, Zenon DEF Types
<1>9. Held(h)'
  BY <1>1, <1>2, <1>3, <1>6, <1>7, Zenon DEF Held, StatusPage
<1> QED
  BY <1>1, <1>2, <1>3, <1>4, <1>5, <1>8, <1>9 DEF IInv, ChainTaken, OneRequest

(* block_op returns only on a status that is not STATUS_PENDING: then      *)
(* nothing is unanswered.                                                  *)
LEMMA CheckStatusStep == ASSUME IInv, CheckStatus PROVE IInv'
<1>1. op.at = "status" /\ UNCHANGED <<next, target, status, posted, jobs>>
  BY DEF CheckStatus, Runs, driver, device
<1>2. CASE status[op.page] # "PENDING"
  <2>1. op' = Idle
    BY <1>2 DEF CheckStatus
  <2>2. op'.at = "idle" /\ op'.page \in ReqPages /\ IsOp(op)'
    BY <2>1, IdleType DEF IsOp, Idle
  <2>3. posted = <<>> /\ \A j \in jobs : j.answered
    BY <1>2 DEF IInv, OneRequest, Held
  <2>4. Types'
    BY <1>1, <2>2 DEF IInv, Types, Steps
  <2> QED
    BY <1>1, <2>2, <2>3, <2>4 DEF IInv, ChainTaken, OneRequest
<1>3. CASE status[op.page] = "PENDING"
  <2>1. op'.at = "pending" /\ op'.page = op.page /\ IsOp(op)'
    BY <1>3 DEF CheckStatus, IInv, Types, IsOp
  <2> QED
    BY <1>1, <2>1, OpMoves DEF Steps
<1> QED
  BY <1>2, <1>3

(* The device fetches the posted request: it stays the one held. *)
LEMMA FetchStep == ASSUME IInv, Fetch PROVE IInv'
<1>1. PICK h \in D : posted = <<h>> /\ Held(h)
  BY DEF IInv, OneRequest, Fetch
<1>2. /\ jobs' = jobs \cup {[head |-> h, answered |-> FALSE]}
      /\ posted' = <<>>
      /\ UNCHANGED <<next, target, status, op>>
  BY <1>1 DEF Fetch, driver
<1>3. \A j \in jobs : j.answered
  BY <1>1 DEF IInv, OneRequest
<1>4. Held(h)'
  BY <1>1, <1>2 DEF Held, StatusPage
<1>5. [head |-> h, answered |-> FALSE] \in Jobs
  BY DEF Jobs
<1>6. posted' \in Seq(D)
  BY <1>2
<1>7. Types'
  BY <1>2, <1>5, <1>6, Zenon DEF IInv, Types, IsOp
<1>8. ChainTaken'
  BY <1>2 DEF IInv, ChainTaken
<1>9. \A j \in jobs' : ~j.answered => j = [head |-> h, answered |-> FALSE]
  BY <1>2, <1>3
<1>10. \A j \in jobs' : ~j.answered => Held(j.head)'
  BY <1>4, <1>9
<1>11. OneRequest'
  BY <1>2, <1>9, <1>10, Zenon DEF OneRequest
<1> QED
  BY <1>7, <1>8, <1>11 DEF IInv

(* The device answers the one request: none is left unanswered. *)
LEMMA AnswerStep == ASSUME IInv, NEW j \in Jobs, Answer(j) PROVE IInv'
<1>1. j \in jobs /\ ~j.answered /\ Held(j.head)
  BY DEF Answer, IInv, OneRequest
<1>2. /\ status' = [status EXCEPT ![StatusPage(j.head)] = "ANSWERED"]
      /\ jobs' = (jobs \ {j}) \cup {[j EXCEPT !.answered = TRUE]}
      /\ UNCHANGED <<next, target, op, posted>>
  BY DEF Answer, driver
<1>3. posted = <<>> /\ \A k \in jobs \ {j} : k.answered
  BY <1>1 DEF IInv, OneRequest
<1>4. [j EXCEPT !.answered = TRUE] \in Jobs /\ [j EXCEPT !.answered = TRUE].answered
  BY Zenon DEF Jobs
<1>5. posted' = <<>> /\ \A k \in jobs' : k.answered
  BY <1>2, <1>3, <1>4, Zenon
<1>6. Types'
  BY <1>1, <1>2, <1>4, Zenon DEF IInv, Types, Held, IsOp
<1>7. ChainTaken'
  BY <1>1, <1>2 DEF ChainTaken, Held
<1> QED
  BY <1>5, <1>6, <1>7 DEF IInv, OneRequest

(* The used element of an answered request is published. *)
LEMMA PublishStep == ASSUME IInv, NEW j \in Jobs, Publish(j) PROVE IInv'
<1>1. jobs' = jobs \ {j} /\ UNCHANGED <<next, target, status, op, posted>>
  BY DEF Publish, driver
<1> QED
  BY <1>1 DEF IInv, Types, ChainTaken, OneRequest, Held, StatusPage, IsOp

(* block_op's steps, except the one that returns. *)
LEMMA OpStepStep == ASSUME IInv, OpStep PROVE IInv'
<1>1. CASE Post
  BY <1>1, PostStep
<1>2. CASE PendingTest
  <2>1. PICK a \in AckSeen :
          op' = [op EXCEPT !.at = IF a = usedIdx THEN "status" ELSE "element", !.ack = a]
    BY <1>2, Zenon DEF PendingTest
  <2>2. op'.at \in {"status", "element"} /\ op'.page = op.page /\ IsOp(op)'
    BY <2>1, Zenon DEF IInv, Types, IsOp
  <2> QED
    BY <1>2, <2>2, OpMoves DEF PendingTest, Runs, driver, device, Steps
<1>3. CASE PendingElement
  <2>1. PICK a \in AckSeen :
          op' = [op EXCEPT !.at = "bump", !.head = usedRing[a % VIRTIO_RING_SIZE], !.ack = a]
    BY <1>3, Zenon DEF PendingElement
  <2>2. op'.at = "bump" /\ op'.page = op.page /\ IsOp(op)'
    BY <2>1, Zenon DEF IInv, Types, IsOp
  <2> QED
    BY <1>3, <2>2, OpMoves DEF PendingElement, Runs, driver, device, Steps
<1>4. CASE PendingBump
  <2>1. PICK a \in AckSeen : op' = [op EXCEPT !.at = "free", !.ack = Inc(a)]
    BY <1>4, Zenon DEF PendingBump
  <2>2. op'.at = "free" /\ op'.page = op.page /\ IsOp(op)'
    BY <2>1, Zenon DEF IInv, Types, IsOp
  <2> QED
    BY <1>4, <2>2, OpMoves DEF PendingBump, Runs, device, Steps
<1>5. CASE PendingFree
  <2>1. op'.at = "pending" /\ op'.page = op.page /\ IsOp(op)'
    BY <1>5, Zenon DEF PendingFree, IInv, Types, IsOp
  <2> QED
    BY <1>5, <2>1, OpMoves DEF PendingFree, Runs, device, Steps
<1>6. CASE CheckStatus
  BY <1>6, CheckStatusStep
<1> QED
  BY <1>1, <1>2, <1>3, <1>4, <1>5, <1>6 DEF OpStep

(* Every step keeps the invariant. *)
LEMMA NextIInv == IInv /\ [Next]_vars => IInv'
<1> SUFFICES ASSUME IInv, [Next]_vars PROVE IInv'
  OBVIOUS
<1>1. CASE UNCHANGED vars
  BY <1>1, Untouched DEF vars
<1>2. CASE Refuse \/ NoChain
  BY <1>2, Untouched DEF Refuse, NoChain, vars
<1>3. CASE \E p \in ReqPages, boot \in BOOLEAN : Submit(p, boot)
  BY <1>3, SubmitStep
<1>4. CASE OpStep
  BY <1>4, OpStepStep
<1>5. CASE HandlerStep
  <2>1. UNCHANGED <<next, target, status, op, posted, jobs>>
    BY <1>5 DEF HandlerStep, Claim, ReadIsr, HandlerPending, HandlerDrained, AckIsr,
                Complete, driver, device
  <2> QED
    BY <2>1, Untouched
<1>6. CASE Fetch
  BY <1>6, FetchStep
<1>7. CASE \E j \in Jobs : Answer(j) \/ Publish(j)
  BY <1>7, AnswerStep, PublishStep
<1> QED
  BY <1>1, <1>2, <1>3, <1>4, <1>5, <1>6, <1>7 DEF Next

(* While the device may still write to a request, block_op has neither     *)
(* returned nor given back the request's page, and the chain still leads   *)
(* to it, for every queue size and whatever the interrupt handler frees    *)
(* under block_op.                                                         *)
THEOREM DmaSafety == Spec => []DmaTargetHeld
<1>1. Spec => []IInv
  BY InitIInv, NextIInv, PTL DEF Spec
<1> QED
  BY <1>1, HeldEnough, PTL

-----------------------------------------------------------------------------
(* block_op looks synchronous *)

(* Steps of block_op and of pending keep the page and, but for the last,   *)
(* the call.                                                               *)
LEMMA OpStepCall ==
  ASSUME IInv, OpStep
  PROVE  /\ status' = status /\ op.at # "idle"
         /\ \/ op'.at # "idle" /\ op'.page = op.page
            \/ op' = Idle /\ status[op.page] # "PENDING"
<1>1. op.at \in Steps /\ IsOp(op)
  BY DEF IInv, Types
<1>2. CASE Post
  BY <1>1, <1>2 DEF Post, Runs, IsOp
<1>3. CASE PendingTest
  BY <1>1, <1>3 DEF PendingTest, Runs, IsOp
<1>4. CASE PendingElement
  BY <1>1, <1>4 DEF PendingElement, Runs, IsOp
<1>5. CASE PendingBump
  BY <1>1, <1>5 DEF PendingBump, Runs, IsOp
<1>6. CASE PendingFree
  BY <1>1, <1>6 DEF PendingFree, Runs, IsOp
<1>7. CASE CheckStatus
  BY <1>1, <1>7 DEF CheckStatus, Runs, IsOp
<1> QED
  BY <1>2, <1>3, <1>4, <1>5, <1>6, <1>7 DEF OpStep

(* block_op, pending, the interrupt handler and the device implement       *)
(* BlockTransfer: for every queue size and both kinds of device, the       *)
(* device writes to a request page once per call, to the caller's page and *)
(* before block_op returns.                                                *)
THEOREM TransfersRefine == Spec => TransferSpec
<1> DEFINE phase == IF op.at = "idle" THEN "idle" ELSE "waiting"
<1>0. Idle.page \in ReqPages /\ Idle.at = "idle"
  BY QueueAssumption DEF Idle
<1>1. Init => Transfer!Init
  BY <1>0 DEF Init, Transfer!Init
<1>2. IInv /\ [Next]_vars => [Transfer!Next]_<<status, phase, op.page>>
  <2> SUFFICES ASSUME IInv, [Next]_vars
               PROVE  [Transfer!Next]_<<status, phase, op.page>>
    OBVIOUS
  <2>0. Types
    BY DEF IInv
  <2>1. ASSUME NEW p \in ReqPages, NEW boot \in BOOLEAN, Submit(p, boot)
        PROVE  Transfer!Call(p)
    <3>1. op.at = "idle" /\ status' = [status EXCEPT ![p] = "PENDING"]
      BY <2>1 DEF Submit, Runs
    <3>2. op'.at = "post" /\ op'.page = p
      BY <2>1 DEF Submit
    <3> QED
      BY <3>1, <3>2 DEF Transfer!Call
  <2>2. CASE OpStep
    <3>1. /\ status' = status /\ op.at # "idle"
          /\ \/ op'.at # "idle" /\ op'.page = op.page
             \/ op' = Idle /\ status[op.page] # "PENDING"
      BY <2>2, OpStepCall
    <3>2. CASE op'.at # "idle" /\ op'.page = op.page
      BY <3>1, <3>2
    <3>3. CASE op' = Idle /\ status[op.page] # "PENDING"
      <4>1. status[op.page] = "ANSWERED"
        BY <2>0, <3>3 DEF Types
      <4> QED
        BY <1>0, <3>1, <3>3, <4>1 DEF Transfer!Next, Transfer!Return
    <3> QED
      BY <3>1, <3>2, <3>3
  <2>3. ASSUME NEW j \in Jobs, Answer(j)
        PROVE  Transfer!Serve
    <3>1. Held(j.head)
      BY <2>3 DEF Answer, IInv, OneRequest
    <3>2. op' = op /\ status' = [status EXCEPT ![StatusPage(j.head)] = "ANSWERED"]
      BY <2>3 DEF Answer
    <3> QED
      BY <3>1, <3>2 DEF Held, Transfer!Serve
  <2>4. CASE UNCHANGED <<op, status>>
    BY <2>4
  <2>5. ASSUME NEW j \in Jobs, Publish(j)
        PROVE  UNCHANGED <<op, status>>
    BY <2>5 DEF Publish
  <2>6. ASSUME Refuse \/ NoChain \/ HandlerStep \/ Fetch \/ UNCHANGED vars
        PROVE  UNCHANGED <<op, status>>
    BY <2>6 DEF Refuse, NoChain, HandlerStep, Claim, ReadIsr, HandlerPending, HandlerDrained,
                AckIsr, Complete, Fetch, vars
  <2> QED
    BY <2>1, <2>2, <2>3, <2>4, <2>5, <2>6 DEF Next, Transfer!Next
<1> QED
  BY InitIInv, NextIInv, <1>1, <1>2, PTL DEF Spec, TransferSpec, Transfer!Spec

-----------------------------------------------------------------------------
(* Remainders *)

(* Division with remainder, and that it has one result. *)
LEMMA DivideBy ==
  ASSUME NEW m \in Nat \ {0}, NEW x \in Nat
  PROVE  \E q \in Nat, r \in 0 .. m - 1 : x = m * q + r /\ x % m = r
<1>1. x \div m \in Nat /\ x % m \in 0 .. m - 1
  OBVIOUS
<1>2. x = m * (x \div m) + (x % m)
  OBVIOUS
<1> QED
  BY <1>1, <1>2, Zenon

LEMMA DivideOnce ==
  ASSUME NEW m \in Nat \ {0}, NEW q \in Nat, NEW r \in 0 .. m - 1
  PROVE  (m * q + r) % m = r
<1>1. m * q \in Nat
  OBVIOUS
<1>2. PICK x \in Nat : x = m * q + r
  BY <1>1
<1>3. PICK p \in Nat, s \in 0 .. m - 1 : x = m * p + s /\ x % m = s
  BY DivideBy, Zenon
<1>4. p = q /\ s = r
  BY <1>2, <1>3
<1> QED
  BY <1>2, <1>3, <1>4

-----------------------------------------------------------------------------
(* The indices of the used ring *)

(* What a sum of two indices, or an index less another one, is modulo 2^16. *)
LEMMA Modulus ==
  ASSUME NEW m \in Nat \ {0}, NEW x \in Int
  PROVE  /\ 0 <= x /\ x < m => x % m = x
         /\ 0 <= x /\ x < m => (m + x) % m = x
         /\ -m <= x /\ x < 0 => x % m = x + m
  OBVIOUS

(* Numbers less than m apart have different remainders. *)
LEMMA Remainders ==
  ASSUME NEW m \in Nat \ {0}, NEW x \in Nat, NEW d \in Nat, 0 < d, d < m
  PROVE  (x + d) % m # x % m
<1>1. PICK q \in Nat, r \in 0 .. m - 1 : x = m * q + r /\ x % m = r
  BY DivideBy, Zenon
<1>2. CASE r + d < m
  <2>1. x + d = m * q + (r + d) /\ r + d \in 0 .. m - 1
    BY <1>1, <1>2
  <2>2. (x + d) % m = r + d
    BY <2>1, DivideOnce, Zenon
  <2> QED
    BY <1>1, <2>2
<1>3. CASE r + d >= m
  <2>1. PICK p \in Nat, s \in 0 .. m - 1 : p = q + 1 /\ s = r + d - m
    BY <1>1, <1>3
  <2>2. x + d = m * p + s
    BY <1>1, <2>1
  <2>3. (x + d) % m = s
    BY <2>2, DivideOnce, Zenon
  <2> QED
    BY <1>1, <2>1, <2>3
<1> QED
  BY <1>2, <1>3

(* A multiple of the modulus does not change the remainder. *)
LEMMA Multiple ==
  ASSUME NEW m \in Nat \ {0}, NEW k \in Nat, k % m = 0, NEW x \in Nat
  PROVE  (k + x) % m = x % m
<1>1. PICK q \in Nat, r \in 0 .. m - 1 : x = m * q + r /\ x % m = r
  BY DivideBy, Zenon
<1>2. PICK p \in Nat, s \in 0 .. m - 1 : k = m * p + s /\ k % m = s
  BY DivideBy
<1>3. k + x = m * (p + q) + r
  BY <1>1, <1>2
<1> QED
  BY <1>1, <1>2, <1>3, DivideOnce

-----------------------------------------------------------------------------
(* Chains of descriptors *)

(* Every descriptor leads to a later one or to none. *)
Upwards == next \in [D -> D \cup {NoNext}] /\ \A i \in D : next[i] = NoNext \/ next[i] > i

Link(w, i) == {i} \cup (IF next[i] = NoNext THEN {} ELSE w[next[i]])

(* free_desc_chain's walk, one descriptor at a time.  That there is such a *)
(* walk: the least set with i that no next field leaves is what it frees.  *)
LEMMA ChainUnrolled ==
  ASSUME next \in [D -> D \cup {NoNext}], NEW i \in D
  PROVE  Chain(i) = {i} \cup (IF next[i] = NoNext THEN {} ELSE Chain(next[i]))
<1> DEFINE Closed(S) == \A k \in S : next[k] = NoNext \/ next[k] \in S
           Reach(k) == {d \in D : \A S \in SUBSET D : k \in S /\ Closed(S) => d \in S}
           g == [k \in D |-> Reach(k)]
           walk == CHOOSE w : w = [k \in D |-> Link(w, k)]
<1>1. NoNext \notin D
  BY QueueAssumption DEF D, NoNext
<1>2. ASSUME NEW k \in D PROVE k \in Reach(k) /\ Closed(Reach(k)) /\ Reach(k) \subseteq D
  <2>1. ASSUME NEW d \in Reach(k) PROVE next[d] = NoNext \/ next[d] \in Reach(k)
    BY <2>1, <1>1
  <2> QED
    BY <1>2, <2>1
<1>3. ASSUME NEW k \in D PROVE Reach(k) = Link(g, k)
  <2>1. CASE next[k] = NoNext
    <3>1. Closed({k}) /\ {k} \in SUBSET D
      BY <1>3, <2>1
    <3>2. Reach(k) \subseteq {k}
      BY <3>1, Zenon
    <3> QED
      BY <1>2, <2>1, <3>2 DEF Link
  <2>2. CASE next[k] # NoNext
    <3>1. next[k] \in D /\ g[next[k]] = Reach(next[k])
      BY <1>3, <2>2
    <3> DEFINE T == {k} \cup Reach(next[k])
    <3>2. Closed(T) /\ T \in SUBSET D /\ k \in T
      BY <1>2, <1>3, <3>1
    <3>3. Reach(k) \subseteq T
      BY <3>2, Zenon
    <3>4. ASSUME NEW d \in Reach(next[k]) PROVE d \in Reach(k)
      <4>1. ASSUME NEW S \in SUBSET D, k \in S, Closed(S) PROVE d \in S
        BY <2>2, <3>4, <4>1
      <4> QED
        BY <3>4, <4>1
    <3>5. T \subseteq Reach(k)
      BY <1>2, <3>4
    <3> QED
      BY <2>2, <3>1, <3>3, <3>5 DEF Link
  <2> QED
    BY <2>1, <2>2, Zenon
<1>4. g = [k \in D |-> Link(g, k)]
  BY <1>3, Zenon
<1>5. walk = [k \in D |-> Link(walk, k)]
  BY <1>4, Zenon
<1>6. \A k : Chain(k) = walk[k]
  BY Zenon DEF Chain, Link
<1>7. walk[i] = Link(walk, i)
  BY <1>5, Zenon
<1> QED
  BY <1>6, <1>7, Zenon DEF Link

(* A set of numbers that is not empty has a greatest element below a bound.*)
LEMMA Greatest ==
  ASSUME NEW n \in Nat, NEW T \in SUBSET (0 .. n), T # {}
  PROVE  \E x \in T : \A y \in T : y <= x
<1> DEFINE W == {k \in Nat : n - k \in T}
<1>1. PICK R : R = OpToRel(<, Nat) /\ IsWellFoundedOn(R, Nat)
  BY NatLessThanWellFounded, Zenon
<1>2. W \in SUBSET Nat /\ W # {}
  <2>1. PICK x \in T : TRUE
    BY Zenon
  <2>2. n - x \in Nat /\ n - (n - x) = x
    OBVIOUS
  <2> QED
    BY <2>2, Zenon
<1>3. PICK k \in W : \A j \in W : ~(<<j, k>> \in R)
  BY <1>1, <1>2, WFMin, Zenon
<1>4. \A a \in Nat, b \in Nat : a < b => <<a, b>> \in R
  BY <1>1, Zenon DEF OpToRel
<1>5. \A j \in W : ~(j < k)
  BY <1>2, <1>3, <1>4, Zenon
<1>6. ASSUME NEW y \in T PROVE y <= n - k
  <2>1. n - y \in Nat /\ n - (n - y) = y
    OBVIOUS
  <2>2. n - y \in W
    BY <2>1
  <2> QED
    BY <1>5, <2>2
<1> QED
  BY <1>6

(* The walk from a descriptor frees descriptors. *)
LEMMA ChainType ==
  ASSUME Upwards, NEW i \in D
  PROVE  Chain(i) \subseteq D
<1> DEFINE Bad == {k \in D : ~(Chain(k) \subseteq D)}
<1> SUFFICES ASSUME Bad # {} PROVE FALSE
  OBVIOUS
<1>1. VIRTIO_RING_SIZE - 1 \in Nat /\ Bad \in SUBSET (0 .. VIRTIO_RING_SIZE - 1)
  BY QueueAssumption DEF D
<1>2. PICK x \in Bad : \A y \in Bad : y <= x
  BY <1>1, Greatest, Zenon
<1>3. Chain(x) = {x} \cup (IF next[x] = NoNext THEN {} ELSE Chain(next[x]))
  BY ChainUnrolled DEF Upwards
<1>4. next[x] # NoNext
  BY <1>2, <1>3
<1>5. next[x] \in D /\ next[x] > x
  BY <1>4 DEF Upwards
<1>6. next[x] \notin Bad
  BY <1>1, <1>2, <1>5 DEF D
<1> QED
  BY <1>2, <1>3, <1>5, <1>6

(* A chain as block_op writes it: a head, the data and the status. *)
Proper(nx, h) == h \in D /\ nx[h] \in D /\ nx[nx[h]] \in D /\ nx[nx[nx[h]]] = NoNext

Three(nx, h) == {h, nx[h], nx[nx[h]]}

(* Of such a chain, free_desc_chain frees all three. *)
LEMMA ProperChain ==
  ASSUME next \in [D -> D \cup {NoNext}], NEW h, Proper(next, h)
  PROVE  Chain(h) = Three(next, h)
<1>1. NoNext \notin D
  BY QueueAssumption DEF D, NoNext
<1>2. \A i \in D : Chain(i) = {i} \cup (IF next[i] = NoNext THEN {} ELSE Chain(next[i]))
  BY ChainUnrolled
<1>3. Chain(next[next[h]]) = {next[next[h]]}
  BY <1>2 DEF Proper
<1>4. Chain(next[h]) = {next[h]} \cup Chain(next[next[h]])
  BY <1>1, <1>2 DEF Proper
<1>5. Chain(h) = {h} \cup Chain(next[h])
  BY <1>1, <1>2 DEF Proper
<1> QED
  BY <1>3, <1>4, <1>5 DEF Three

-----------------------------------------------------------------------------
(* The types *)

Index == 0 .. IdxMod - 1

QTypes ==
  /\ free \subseteq D
  /\ Upwards
  /\ usedRing \in [D -> D]
  /\ ack \in Index /\ usedIdx \in Index /\ op.ack \in Index
  /\ op.head \in D
  /\ op.at = "post" => op.chain[1] < op.chain[2] /\ op.chain[2] < op.chain[3]
  /\ bootOps \in 0 .. MaxBootOps

(* An index of the used ring, the next one, and the slot it denotes. *)
LEMMA Indices ==
  /\ 0 \in D /\ 0 \in Index
  /\ \A a \in Index : Inc(a) \in Index /\ a % VIRTIO_RING_SIZE \in D
<1>1. IdxMod \in Nat \ {0} /\ VIRTIO_RING_SIZE \in Nat \ {0}
  BY QueueAssumption
<1>2. \A m \in Nat \ {0}, x \in Nat : x % m \in 0 .. m - 1
  OBVIOUS
<1>3. \A a \in Index : a \in Nat /\ a + 1 \in Nat
  BY <1>1 DEF Index
<1> QED
  BY <1>1, <1>2, <1>3 DEF D, Index, Inc

(* The ranges together are TypeOK. *)
LEMMA TypesEnough == IInv /\ QTypes => TypeOK
<1> SUFFICES ASSUME IInv, QTypes PROVE TypeOK
  OBVIOUS
<1>1. \A i \in D : next[i] = NoNext \/ next[i] \in i + 1 .. VIRTIO_RING_SIZE - 1
  BY QueueAssumption DEF QTypes, Upwards, D
<1> QED
  BY <1>1, Zenon DEF IInv, Types, Steps, QTypes, Index, TypeOK

LEMMA QTypesInit == Init => QTypes
<1> SUFFICES ASSUME Init PROVE QTypes
  OBVIOUS
<1>1. op.ack = 0 /\ op.head = 0 /\ op.at = "idle"
  BY DEF Init, Idle
<1>2. Upwards
  BY DEF Init, Upwards
<1>3. usedRing \in [D -> D]
  BY Indices DEF Init
<1>4. bootOps \in 0 .. MaxBootOps
  BY QueueAssumption DEF Init
<1> QED
  BY <1>1, <1>2, <1>3, <1>4, Indices DEF Init, QTypes

(* Steps of block_op that only move it on. *)
LEMMA OpTypes ==
  ASSUME QTypes, op'.ack \in Index, op'.head \in D, op'.at # "post",
         UNCHANGED <<next, usedRing, usedIdx, bootOps>>, ack' \in Index, free' \subseteq D
  PROVE  QTypes'
<1>1. Upwards'
  BY DEF QTypes, Upwards
<1> QED
  BY <1>1 DEF QTypes

LEMMA SubmitTypes ==
  ASSUME QTypes, NEW p \in ReqPages, NEW boot \in BOOLEAN, Submit(p, boot)
  PROVE  QTypes'
<1>1. PICK c \in D \X D \X D :
        /\ LowestFree(c)
        /\ free' = free \ {c[1], c[2], c[3]}
        /\ op' = [at |-> "post", boot |-> boot, page |-> p, ack |-> ack, head |-> 0, chain |-> c]
  BY DEF Submit
<1>2. op'.ack = ack /\ op'.head = 0 /\ op'.chain = c
  BY <1>1
<1>3. c[1] < c[2] /\ c[2] < c[3]
  BY <1>1 DEF LowestFree
<1>4. Upwards'
  BY DEF Submit, QTypes, Upwards
<1>5. bootOps' \in 0 .. MaxBootOps
  <2>1. bootOps \in 0 .. MaxBootOps /\ MaxBootOps \in Nat
    BY QueueAssumption DEF QTypes
  <2>2. bootOps' = (IF boot THEN bootOps - 1 ELSE 0) /\ (boot => bootOps > 0)
    BY Zenon DEF Submit
  <2>3. CASE boot
    BY <2>1, <2>2, <2>3
  <2>4. CASE ~boot
    BY <2>1, <2>2, <2>4
  <2> QED
    BY <2>3, <2>4
<1>6. UNCHANGED <<ack, usedIdx, usedRing>>
  BY DEF Submit, device
<1> QED
  BY <1>1, <1>2, <1>3, <1>4, <1>5, <1>6, Indices DEF QTypes

(* The three descriptors are in order, so the chain runs upwards. *)
LEMMA PostTypes == ASSUME IInv, QTypes, Post PROVE QTypes'
<1>1. PICK h \in D, d \in D, s \in D :
        /\ h = op.chain[1] /\ d = op.chain[2] /\ s = op.chain[3]
        /\ h < d /\ d < s
  BY DEF IInv, QTypes, ChainTaken, Post, Runs
<1>2. /\ next' = [next EXCEPT ![h] = d, ![d] = s, ![s] = NoNext]
      /\ op' = [op EXCEPT !.at = "pending", !.chain = <<>>]
      /\ UNCHANGED <<free, ack, usedIdx, usedRing, bootOps>>
  BY <1>1 DEF Post
<1>3. op'.at = "pending" /\ op'.ack = op.ack /\ op'.head = op.head
  BY <1>2, Zenon DEF IInv, Types, IsOp
<1>4. Upwards'
  <2>1. next' \in [D -> D \cup {NoNext}]
    BY <1>1, <1>2 DEF QTypes, Upwards
  <2>2. ASSUME NEW i \in D PROVE next'[i] = NoNext \/ next'[i] > i
    BY <1>1, <1>2 DEF QTypes, Upwards, D
  <2> QED
    BY <2>1, <2>2 DEF Upwards
<1> QED
  BY <1>2, <1>3, <1>4 DEF QTypes

(* Every step keeps the ranges, those after a race included. *)
LEMMA QTypesNext == IInv /\ QTypes /\ [Next]_vars => QTypes'
<1> SUFFICES ASSUME IInv, QTypes, [Next]_vars PROVE QTypes'
  OBVIOUS
<1>0. \A i \in D : Chain(i) \subseteq D
  BY ChainType DEF QTypes
<1>a. AckSeen \subseteq Index
  BY DEF AckSeen, QTypes
<1>b. \A a \in Index : Inc(a) \in Index /\ usedRing[a % VIRTIO_RING_SIZE] \in D
  BY Indices DEF QTypes
<1>1. CASE UNCHANGED vars
  BY <1>1 DEF vars, QTypes, Upwards
<1>2. CASE Refuse \/ NoChain
  BY <1>2 DEF Refuse, NoChain, vars, QTypes, Upwards
<1>3. CASE \E p \in ReqPages, boot \in BOOLEAN : Submit(p, boot)
  BY <1>3, SubmitTypes
<1>4. CASE Post
  BY <1>4, PostTypes
<1>5. CASE PendingTest
  <2>1. PICK a \in AckSeen :
          op' = [op EXCEPT !.at = IF a = usedIdx THEN "status" ELSE "element", !.ack = a]
    BY <1>5, Zenon DEF PendingTest
  <2>2. op'.at \in {"status", "element"} /\ op'.ack = a /\ op'.head = op.head
    BY <2>1, Zenon DEF IInv, Types, IsOp
  <2> QED
    BY <1>5, <1>a, <2>2, OpTypes DEF PendingTest, driver, device, QTypes
<1>6. CASE PendingElement
  <2>1. PICK a \in AckSeen :
          op' = [op EXCEPT !.at = "bump", !.head = usedRing[a % VIRTIO_RING_SIZE], !.ack = a]
    BY <1>6, Zenon DEF PendingElement
  <2>2. op'.at = "bump" /\ op'.ack = a /\ op'.head = usedRing[a % VIRTIO_RING_SIZE]
    BY <2>1, Zenon DEF IInv, Types, IsOp
  <2> QED
    BY <1>6, <1>a, <1>b, <2>2, OpTypes DEF PendingElement, driver, device, QTypes
<1>7. CASE PendingBump
  <2>1. PICK a \in AckSeen : ack' = Inc(a) /\ op' = [op EXCEPT !.at = "free", !.ack = Inc(a)]
    BY <1>7, Zenon DEF PendingBump
  <2>2. op'.at = "free" /\ op'.ack = Inc(a) /\ op'.head = op.head
    BY <2>1, Zenon DEF IInv, Types, IsOp
  <2> QED
    BY <1>7, <1>a, <1>b, <2>1, <2>2, OpTypes DEF PendingBump, driver, device, QTypes
<1>8. CASE PendingFree
  <2>1. op'.at = "pending" /\ op'.ack = op.ack /\ op'.head = 0
    BY <1>8, Zenon DEF PendingFree, IInv, Types, IsOp
  <2>2. free' \subseteq D
    BY <1>8, <1>0 DEF PendingFree, QTypes
  <2> QED
    BY <1>8, <2>1, <2>2, Indices, OpTypes DEF PendingFree, device, QTypes
<1>9. CASE CheckStatus
  <2>1. op'.at # "post" /\ op'.ack \in Index /\ op'.head \in D
    <3>1. CASE status[op.page] # "PENDING"
      BY <1>9, <3>1, Indices DEF CheckStatus, Idle
    <3>2. CASE status[op.page] = "PENDING"
      BY <1>9, <3>2, Zenon DEF CheckStatus, IInv, Types, IsOp, QTypes
    <3> QED
      BY <3>1, <3>2
  <2> QED
    BY <1>9, <2>1, OpTypes DEF CheckStatus, driver, device, QTypes
<1>10. CASE HandlerPending
  <2>1. free' \subseteq D /\ ack' \in Index
    BY <1>10, <1>0, <1>b DEF HandlerPending, QTypes
  <2> QED
    BY <1>10, <2>1 DEF HandlerPending, device, QTypes, Upwards
<1>11. CASE HandlerStep /\ ~HandlerPending
  <2>1. UNCHANGED <<free, next, usedRing, ack, usedIdx, op, bootOps>>
    BY <1>11, Zenon
    DEF HandlerStep, Claim, ReadIsr, HandlerDrained, AckIsr, Complete, driver, device
  <2> QED
    BY <2>1 DEF QTypes, Upwards
<1>12. CASE Fetch
  BY <1>12 DEF Fetch, driver, QTypes, Upwards
<1>13. ASSUME NEW j \in Jobs, Answer(j) PROVE QTypes'
  BY <1>13 DEF Answer, driver, QTypes, Upwards
<1>14. ASSUME NEW j \in Jobs, Publish(j) PROVE QTypes'
  <2>1. j.head \in D /\ usedIdx % VIRTIO_RING_SIZE \in D
    BY Indices DEF Jobs, QTypes
  <2>2. usedRing' \in [D -> D] /\ usedIdx' \in Index
    BY <1>14, <1>b, <2>1 DEF Publish, QTypes
  <2> QED
    BY <1>14, <2>2 DEF Publish, driver, QTypes, Upwards
<1> QED
  BY <1>1, <1>2, <1>3, <1>4, <1>5, <1>6, <1>7, <1>8, <1>9, <1>10, <1>11, <1>12, <1>13, <1>14
  DEF Next, OpStep

(* Whatever the handler frees under block_op, indices and descriptors stay *)
(* in range, and every chain runs upwards: free_desc_chain's walk ends.    *)
THEOREM QueueTypes == Spec => []TypeOK
<1>1. Init => IInv /\ QTypes
  BY InitIInv, QTypesInit
<1>2. IInv /\ QTypes /\ [Next]_vars => IInv' /\ QTypes'
  BY NextIInv, QTypesNext
<1> QED
  BY <1>1, <1>2, TypesEnough, PTL DEF Spec

-----------------------------------------------------------------------------
(* The used elements between ack_used_idx and the device's index *)

Between(u, a) == (u - a) % IdxMod

At(ring, a, i) == ring[((a + i) % IdxMod) % VIRTIO_RING_SIZE]

Window(ring, a, u) == {At(ring, a, i) : i \in 0 .. Between(u, a) - 1}

Distinct(ring, a, u) ==
  \A i, k \in 0 .. Between(u, a) - 1 : At(ring, a, i) = At(ring, a, k) => i = k

(* How many there are, the slot of each, and where the next one goes. *)
LEMMA Positions ==
  ASSUME NEW a \in Index, NEW u \in Index
  PROVE  /\ Between(u, a) \in Index
         /\ Between(u, a) = IF a <= u THEN u - a ELSE u - a + IdxMod
         /\ \A i \in Index : ((a + i) % IdxMod) % VIRTIO_RING_SIZE = (a + i) % VIRTIO_RING_SIZE
         /\ (a + Between(u, a)) % VIRTIO_RING_SIZE = u % VIRTIO_RING_SIZE
<1>1. IdxMod \in Nat \ {0} /\ a \in Nat /\ u \in Nat /\ a < IdxMod /\ u < IdxMod
  BY QueueAssumption DEF Index
<1>2. Between(u, a) = IF a <= u THEN u - a ELSE u - a + IdxMod
  <2>1. u - a \in Int /\ -IdxMod <= u - a /\ u - a < IdxMod
    BY <1>1
  <2>2. a <= u => (u - a) % IdxMod = u - a
    <3>1. a <= u => 0 <= u - a
      BY <1>1
    <3> QED
      BY <1>1, <2>1, <3>1, Modulus, Zenon
  <2>3. ~(a <= u) => (u - a) % IdxMod = u - a + IdxMod
    <3>1. ~(a <= u) => u - a < 0
      BY <1>1
    <3> QED
      BY <1>1, <2>1, <3>1, Modulus, Zenon
  <2> QED
    BY <2>2, <2>3 DEF Between
<1>3. Between(u, a) \in Index
  BY <1>1, <1>2 DEF Index
<1>4. VIRTIO_RING_SIZE \in Nat \ {0} /\ IdxMod % VIRTIO_RING_SIZE = 0 /\ IdxMod \in Nat
  BY QueueAssumption
<1>5. ASSUME NEW i \in Index
      PROVE  ((a + i) % IdxMod) % VIRTIO_RING_SIZE = (a + i) % VIRTIO_RING_SIZE
  <2>1. i \in Nat /\ i < IdxMod
    BY <1>1 DEF Index
  <2>2. CASE a + i < IdxMod
    <3>1. (a + i) % IdxMod = a + i
      <4>1. a + i \in Int /\ 0 <= a + i
        BY <1>1, <2>1
      <4> QED
        BY <1>1, <2>2, <4>1, Modulus, Zenon
    <3> QED
      BY <3>1
  <2>3. CASE ~(a + i < IdxMod)
    <3>1. PICK x \in Nat : a + i = IdxMod + x
      <4>1. a + i - IdxMod \in Nat /\ a + i = IdxMod + (a + i - IdxMod)
        BY <1>1, <2>1, <2>3
      <4> QED
        BY <4>1
    <3>2. (a + i) % IdxMod = x
      <4>1. x \in Int /\ 0 <= x /\ x < IdxMod
        BY <1>1, <2>1, <3>1
      <4> QED
        BY <1>1, <3>1, <4>1, Modulus, Zenon
    <3>3. (IdxMod + x) % VIRTIO_RING_SIZE = x % VIRTIO_RING_SIZE
      BY <1>4, Multiple, Zenon
    <3> QED
      BY <3>1, <3>2, <3>3, Zenon
  <2> QED
    BY <2>2, <2>3
<1>6. (a + Between(u, a)) % VIRTIO_RING_SIZE = u % VIRTIO_RING_SIZE
  <2>1. CASE a <= u
    BY <1>1, <1>2, <2>1
  <2>2. CASE ~(a <= u)
    <3>1. a + Between(u, a) = IdxMod + u
      BY <1>1, <1>2, <2>2
    <3>2. (IdxMod + u) % VIRTIO_RING_SIZE = u % VIRTIO_RING_SIZE
      BY <1>1, <1>4, Multiple, Zenon
    <3> QED
      BY <3>1, <3>2, Zenon
  <2> QED
    BY <2>1, <2>2
<1> QED
  BY <1>2, <1>3, <1>5, <1>6

(* The index after a has the same elements but the first. *)
LEMMA Advance ==
  ASSUME NEW ring, NEW a \in Index, NEW u \in Index, a # u
  PROVE  /\ Inc(a) \in Index
         /\ Between(u, a) \in Nat \ {0}
         /\ Between(u, Inc(a)) = Between(u, a) - 1
         /\ At(ring, a, 0) = ring[a % VIRTIO_RING_SIZE]
         /\ \A i \in 0 .. Between(u, a) - 2 : At(ring, Inc(a), i) = At(ring, a, i + 1)
<1>1. IdxMod \in Nat \ {0} /\ a \in Nat /\ u \in Nat /\ a < IdxMod /\ u < IdxMod
  BY QueueAssumption DEF Index
<1>2. VIRTIO_RING_SIZE \in Nat \ {0} /\ IdxMod % VIRTIO_RING_SIZE = 0 /\ IdxMod \in Nat
  BY QueueAssumption
<1>3. Inc(a) = IF a + 1 = IdxMod THEN 0 ELSE a + 1
  <2>1. a + 1 < IdxMod => (a + 1) % IdxMod = a + 1
    <3>1. a + 1 \in Int /\ 0 <= a + 1
      BY <1>1
    <3> QED
      BY <1>1, <3>1, Modulus, Zenon
  <2>2. a + 1 = IdxMod => (a + 1) % IdxMod = 0
    BY <1>1
  <2> QED
    BY <1>1, <2>1, <2>2 DEF Inc
<1>4. Inc(a) \in Index
  BY Indices
<1>5. Between(u, a) = IF a <= u THEN u - a ELSE u - a + IdxMod
  BY Positions
<1>6. Between(u, Inc(a)) = IF Inc(a) <= u THEN u - Inc(a) ELSE u - Inc(a) + IdxMod
  BY <1>4, Positions
<1>7. Between(u, a) \in Nat \ {0} /\ Between(u, Inc(a)) = Between(u, a) - 1
      /\ Between(u, a) < IdxMod
  BY <1>1, <1>3, <1>5, <1>6
<1>8. At(ring, a, 0) = ring[a % VIRTIO_RING_SIZE]
  <2>1. ((a + 0) % IdxMod) % VIRTIO_RING_SIZE = (a + 0) % VIRTIO_RING_SIZE /\ a + 0 = a
    <3>1. 0 \in Index /\ a + 0 = a
      BY <1>1 DEF Index
    <3> QED
      BY <3>1, Positions, Zenon
  <2> QED
    BY <2>1, Zenon DEF At
<1>9. ASSUME NEW i \in 0 .. Between(u, a) - 2 PROVE At(ring, Inc(a), i) = At(ring, a, i + 1)
  <2>1. i \in Nat /\ i \in Index /\ i + 1 \in Index
    BY <1>1, <1>7 DEF Index
  <2>2. ((Inc(a) + i) % IdxMod) % VIRTIO_RING_SIZE = (Inc(a) + i) % VIRTIO_RING_SIZE
    BY <1>4, <2>1, Positions, Zenon
  <2>3. ((a + (i + 1)) % IdxMod) % VIRTIO_RING_SIZE = (a + (i + 1)) % VIRTIO_RING_SIZE
    BY <2>1, Positions
  <2>4. (Inc(a) + i) % VIRTIO_RING_SIZE = (a + (i + 1)) % VIRTIO_RING_SIZE
    <3>1. CASE a + 1 = IdxMod
      <4>1. Inc(a) + i = i /\ a + (i + 1) = IdxMod + i
        BY <1>1, <1>3, <2>1, <3>1
      <4>2. (IdxMod + i) % VIRTIO_RING_SIZE = i % VIRTIO_RING_SIZE
        BY <1>2, <2>1, Multiple, Zenon
      <4> QED
        BY <4>1, <4>2, Zenon
    <3>2. CASE a + 1 # IdxMod
      BY <1>1, <1>3, <2>1, <3>2
    <3> QED
      BY <3>1, <3>2
  <2> QED
    BY <2>2, <2>3, <2>4, Zenon DEF At
<1> QED
  BY <1>4, <1>7, <1>8, <1>9

(* pending takes the first element out of the window. *)
LEMMA Consumed ==
  ASSUME NEW ring, NEW a \in Index, NEW u \in Index, a # u, Distinct(ring, a, u)
  PROVE  /\ ring[a % VIRTIO_RING_SIZE] \in Window(ring, a, u)
         /\ Window(ring, Inc(a), u) = Window(ring, a, u) \ {ring[a % VIRTIO_RING_SIZE]}
         /\ Distinct(ring, Inc(a), u)
<1>1. PICK n \in Nat \ {0} : n = Between(u, a) /\ Between(u, Inc(a)) = n - 1
  BY Advance, Zenon
<1>2. At(ring, a, 0) = ring[a % VIRTIO_RING_SIZE]
  BY Advance
<1>3. \A i \in 0 .. n - 2 : At(ring, Inc(a), i) = At(ring, a, i + 1)
  <2>1. \A i \in 0 .. Between(u, a) - 2 : At(ring, Inc(a), i) = At(ring, a, i + 1)
    BY Advance, Zenon
  <2> QED
    BY <1>1, <2>1
<1>4. \A i, k \in 0 .. n - 1 : At(ring, a, i) = At(ring, a, k) => i = k
  BY <1>1, Zenon DEF Distinct
<1>5. Window(ring, a, u) = {At(ring, a, i) : i \in 0 .. n - 1}
  BY <1>1, Zenon DEF Window
<1>6. Window(ring, Inc(a), u) = {At(ring, Inc(a), i) : i \in 0 .. n - 2}
  <2>1. n - 1 - 1 = n - 2
    OBVIOUS
  <2> QED
    BY <1>1, <2>1, Zenon DEF Window
<1>7. \A i \in 0 .. n - 2 : i + 1 \in 0 .. n - 1 /\ i + 1 # 0
  OBVIOUS
<1>8. \A i \in 0 .. n - 1 : i # 0 => i - 1 \in 0 .. n - 2 /\ (i - 1) + 1 = i
  OBVIOUS
<1>9. 0 \in 0 .. n - 1
  OBVIOUS
<1>10. Window(ring, Inc(a), u) \subseteq Window(ring, a, u) \ {At(ring, a, 0)}
  <2> SUFFICES ASSUME NEW i \in 0 .. n - 2
               PROVE  At(ring, Inc(a), i) \in Window(ring, a, u) \ {At(ring, a, 0)}
    BY <1>6, Zenon
  <2>1. At(ring, Inc(a), i) = At(ring, a, i + 1) /\ i + 1 \in 0 .. n - 1 /\ i + 1 # 0
    BY <1>3, <1>7
  <2> QED
    BY <2>1, <1>4, <1>5, <1>9, Zenon
<1>11. Window(ring, a, u) \ {At(ring, a, 0)} \subseteq Window(ring, Inc(a), u)
  <2> SUFFICES ASSUME NEW i \in 0 .. n - 1, At(ring, a, i) # At(ring, a, 0)
               PROVE  At(ring, a, i) \in Window(ring, Inc(a), u)
    BY <1>5, Zenon
  <2>1. i # 0
    OBVIOUS
  <2>2. PICK k \in 0 .. n - 2 : k + 1 = i
    BY <1>8, <2>1, Zenon
  <2> QED
    BY <1>3, <1>6, <2>2, Zenon
<1>12. Distinct(ring, Inc(a), u)
  <2>1. n - 1 - 1 = n - 2
    OBVIOUS
  <2>2. ASSUME NEW i \in 0 .. n - 2, NEW k \in 0 .. n - 2, At(ring, Inc(a), i) = At(ring, Inc(a), k)
        PROVE  i = k
    <3>1. i + 1 = k + 1
      BY <1>3, <1>4, <1>7, <2>2, Zenon
    <3> QED
      BY <3>1
  <2> QED
    BY <1>1, <2>1, <2>2, Zenon DEF Distinct
<1> QED
  BY <1>2, <1>5, <1>9, <1>10, <1>11, <1>12, Zenon

(* The heads in the window are different descriptors, and none of them is  *)
(* the second descriptor of a chain: the window is smaller than the ring.  *)
LEMMA WindowFits ==
  ASSUME NEW ring \in [D -> D], NEW a \in Index, NEW u \in Index, Distinct(ring, a, u),
         NEW h \in D, NEW d \in D, h # d, {h, d} \cap Window(ring, a, u) = {}
  PROVE  Between(u, a) + 1 < VIRTIO_RING_SIZE /\ VIRTIO_RING_SIZE <= IdxMod
<1>1. PICK n \in Nat : n = Between(u, a)
  BY Positions DEF Index
<1>2. VIRTIO_RING_SIZE \in Nat \ {0} /\ IdxMod \in Nat \ {0} /\ IdxMod % VIRTIO_RING_SIZE = 0
  BY QueueAssumption
<1> DEFINE f == [i \in 0 .. n |-> IF i = n THEN h ELSE At(ring, a, i)]
<1>3. ASSUME NEW i \in 0 .. n, i # n
      PROVE  /\ i \in 0 .. n - 1 /\ i \in 0 .. Between(u, a) - 1
             /\ At(ring, a, i) \in D /\ At(ring, a, i) \in Window(ring, a, u)
  <2>1. i \in 0 .. n - 1 /\ i \in 0 .. Between(u, a) - 1
    BY <1>1, <1>3
  <2>2. a + i \in Nat /\ (a + i) % IdxMod \in Index
    BY <1>2 DEF Index
  <2>3. At(ring, a, i) \in D
    BY <2>2, Indices DEF At
  <2> QED
    BY <2>1, <2>3, Zenon DEF Window
<1>4. f \in [0 .. n -> D \ {d}]
  BY <1>3
<1>5. \A i, k \in 0 .. n : f[i] = f[k] => i = k
  <2>1. ASSUME NEW i \in 0 .. n, NEW k \in 0 .. n, f[i] = f[k] PROVE i = k
    <3>1. CASE i = n /\ k # n
      BY <1>3, <2>1, <3>1
    <3>2. CASE i # n /\ k = n
      BY <1>3, <2>1, <3>2
    <3>3. CASE i # n /\ k # n
      <4>1. At(ring, a, i) = At(ring, a, k)
        BY <2>1, <3>3
      <4> QED
        BY <1>3, <3>3, <4>1, Zenon DEF Distinct
    <3> QED
      BY <3>1, <3>2, <3>3
  <2> QED
    BY <2>1
<1>6. IsFiniteSet(0 .. n) /\ Cardinality(0 .. n) = n + 1
  BY <1>1, FS_Interval
<1>7. IsFiniteSet(D) /\ Cardinality(D) = VIRTIO_RING_SIZE
  BY <1>2, FS_Interval DEF D
<1>8. IsFiniteSet(D \ {d}) /\ Cardinality(D \ {d}) = VIRTIO_RING_SIZE - 1
  BY <1>7, FS_RemoveElement
<1>9. ~(VIRTIO_RING_SIZE - 1 < n + 1)
  <2> HIDE DEF f
  <2> QED
    BY <1>4, <1>5, <1>6, <1>8, FS_PigeonHole
<1>10. VIRTIO_RING_SIZE <= IdxMod
  <2>1. IdxMod < VIRTIO_RING_SIZE => IdxMod % VIRTIO_RING_SIZE = IdxMod
    BY <1>2
  <2> QED
    BY <1>2, <2>1
<1> QED
  BY <1>1, <1>2, <1>9, <1>10

(* The device puts one more head at the end of the window and overwrites   *)
(* none that pending has still to look at.                                 *)
LEMMA Published ==
  ASSUME NEW ring \in [D -> D], NEW a \in Index, NEW u \in Index, Distinct(ring, a, u),
         NEW h \in D, NEW d \in D, h # d, {h, d} \cap Window(ring, a, u) = {},
         NEW new, new[u % VIRTIO_RING_SIZE] = h,
         \A i \in D : i # u % VIRTIO_RING_SIZE => new[i] = ring[i]
  PROVE  /\ Between(Inc(u), a) = Between(u, a) + 1
         /\ Window(new, a, Inc(u)) = Window(ring, a, u) \cup {h}
         /\ Distinct(new, a, Inc(u))
         /\ \A i \in 0 .. Between(u, a) - 1 : At(new, a, i) = At(ring, a, i)
<1>1. PICK n \in Nat : n = Between(u, a) /\ n \in Index
  BY Positions DEF Index
<1>2. VIRTIO_RING_SIZE \in Nat \ {0} /\ IdxMod \in Nat \ {0}
      /\ a \in Nat /\ u \in Nat /\ a < IdxMod /\ u < IdxMod
  BY QueueAssumption DEF Index
<1>3. n + 1 < VIRTIO_RING_SIZE /\ n + 1 < IdxMod
  BY <1>1, <1>2, WindowFits
<1>4. Between(Inc(u), a) = n + 1
  <2>1. Inc(u) = IF u + 1 = IdxMod THEN 0 ELSE u + 1
    <3>1. u + 1 < IdxMod => (u + 1) % IdxMod = u + 1
      <4>1. u + 1 \in Int /\ 0 <= u + 1
        BY <1>2
      <4> QED
        BY <1>2, <4>1, Modulus, Zenon
    <3>2. u + 1 = IdxMod => (u + 1) % IdxMod = 0
      BY <1>2
    <3> QED
      BY <1>2, <3>1, <3>2 DEF Inc
  <2>2. n = IF a <= u THEN u - a ELSE u - a + IdxMod
    BY <1>1, Positions, Zenon
  <2>3. Between(Inc(u), a) = IF a <= Inc(u) THEN Inc(u) - a ELSE Inc(u) - a + IdxMod
    BY Indices, Positions
  <2> QED
    BY <1>2, <1>3, <2>1, <2>2, <2>3
<1>5. ASSUME NEW i \in 0 .. n
      PROVE  /\ At(ring, a, i) = ring[(a + i) % VIRTIO_RING_SIZE]
             /\ At(new, a, i) = new[(a + i) % VIRTIO_RING_SIZE]
             /\ (a + i) % VIRTIO_RING_SIZE \in D
  <2>1. i \in Index /\ a + i \in Nat
    BY <1>1, <1>2 DEF Index
  <2>2. ((a + i) % IdxMod) % VIRTIO_RING_SIZE = (a + i) % VIRTIO_RING_SIZE
    BY <2>1, Positions, Zenon
  <2>3. (a + i) % VIRTIO_RING_SIZE \in D
    <3>1. \A m \in Nat \ {0}, x \in Nat : x % m \in 0 .. m - 1
      OBVIOUS
    <3> QED
      BY <1>2, <2>1, <3>1, Zenon DEF D
  <2> QED
    BY <2>2, <2>3, Zenon DEF At
<1>6. (a + n) % VIRTIO_RING_SIZE = u % VIRTIO_RING_SIZE
  BY <1>1, Positions, Zenon
<1>7. At(new, a, n) = h
  <2>1. n \in 0 .. n
    OBVIOUS
  <2>2. At(new, a, n) = new[u % VIRTIO_RING_SIZE] /\ u % VIRTIO_RING_SIZE \in D
    BY <1>5, <1>6, <2>1, Zenon
  <2> QED
    BY <2>2, Zenon
<1>8. ASSUME NEW i \in 0 .. n - 1
      PROVE  At(new, a, i) = At(ring, a, i) /\ At(ring, a, i) \in Window(ring, a, u)
  <2>1. PICK x \in Nat, e \in Nat : x = a + i /\ e = n - i
    BY <1>2
  <2>2. 0 < e /\ e < VIRTIO_RING_SIZE /\ x + e = a + n
    BY <1>2, <1>3, <2>1
  <2>3. (x + e) % VIRTIO_RING_SIZE # x % VIRTIO_RING_SIZE
    BY <1>2, <2>1, <2>2, Remainders, Zenon
  <2>4. (a + i) % VIRTIO_RING_SIZE # u % VIRTIO_RING_SIZE
    BY <1>6, <2>1, <2>2, <2>3, Zenon
  <2>5. i \in 0 .. n
    BY <1>1
  <2>6. At(new, a, i) = At(ring, a, i)
    BY <1>5, <2>4, <2>5, Zenon
  <2>7. i \in 0 .. Between(u, a) - 1
    BY <1>1
  <2> QED
    BY <2>6, <2>7, Zenon DEF Window
<1>9. Between(Inc(u), a) - 1 = n /\ Between(u, a) = n
  BY <1>1, <1>4
<1>10. Window(new, a, Inc(u)) = {At(new, a, i) : i \in 0 .. n}
  BY <1>9, Zenon DEF Window
<1>11. Window(ring, a, u) = {At(ring, a, i) : i \in 0 .. n - 1}
  BY <1>9, Zenon DEF Window
<1>12. \A i \in 0 .. n : i = n \/ i \in 0 .. n - 1
  OBVIOUS
<1>13. n \in 0 .. n /\ \A i \in 0 .. n - 1 : i \in 0 .. n
  OBVIOUS
<1>14. Window(new, a, Inc(u)) = Window(ring, a, u) \cup {h}
  <2>1. ASSUME NEW i \in 0 .. n PROVE At(new, a, i) \in Window(ring, a, u) \cup {h}
    BY <1>7, <1>8, <1>12, Zenon
  <2>2. ASSUME NEW i \in 0 .. n - 1 PROVE At(ring, a, i) \in Window(new, a, Inc(u))
    BY <1>8, <1>10, <1>13, Zenon
  <2>3. h \in Window(new, a, Inc(u))
    BY <1>7, <1>10, <1>13, Zenon
  <2>4. Window(new, a, Inc(u)) \subseteq Window(ring, a, u) \cup {h}
    BY <1>10, <2>1, Zenon
  <2>5. Window(ring, a, u) \subseteq Window(new, a, Inc(u))
    BY <1>11, <2>2, Zenon
  <2> QED
    BY <2>3, <2>4, <2>5
<1>15. ASSUME NEW i \in 0 .. n, NEW k \in 0 .. n, At(new, a, i) = At(new, a, k) PROVE i = k
  <2>0. h \notin Window(ring, a, u)
    OBVIOUS
  <2>1. CASE i = n /\ k \in 0 .. n - 1
    BY <1>7, <1>8, <1>15, <2>0, <2>1, Zenon
  <2>2. CASE k = n /\ i \in 0 .. n - 1
    BY <1>7, <1>8, <1>15, <2>0, <2>2, Zenon
  <2>3. CASE i \in 0 .. n - 1 /\ k \in 0 .. n - 1
    <3>1. At(ring, a, i) = At(ring, a, k)
      BY <1>8, <1>15, <2>3, Zenon
    <3>2. i \in 0 .. Between(u, a) - 1 /\ k \in 0 .. Between(u, a) - 1
      BY <1>9, <2>3
    <3> QED
      BY <3>1, <3>2, Zenon DEF Distinct
  <2> QED
    BY <1>12, <2>1, <2>2, <2>3
<1>16. Distinct(new, a, Inc(u))
  <2>1. \A i, k \in 0 .. Between(Inc(u), a) - 1 : i \in 0 .. n /\ k \in 0 .. n
    BY <1>9
  <2> QED
    BY <1>15, <2>1, Zenon DEF Distinct
<1>17. \A i \in 0 .. Between(u, a) - 1 : At(new, a, i) = At(ring, a, i)
  BY <1>8, <1>9
<1> QED
  BY <1>1, <1>4, <1>14, <1>16, <1>17

-----------------------------------------------------------------------------
(* Which request each descriptor belongs to *)

Heads == {j.head : j \in jobs}

Freeing == IF op.at = "free" THEN {op.head} ELSE {}

(* The heads of the requests that the driver has still to retire. *)
Busy == Range(posted) \cup Heads \cup Window(usedRing, ack, usedIdx) \cup Freeing

(* Every descriptor is in fr, or in tk, or in the chain of one of the      *)
(* heads in B, and in one of these only.                                   *)
Sound(nx, fr, tk, B) ==
  /\ \A h \in B : Proper(nx, h) /\ Three(nx, h) \cap (fr \cup tk) = {}
  /\ \A g, h \in B : g # h => Three(nx, g) \cap Three(nx, h) = {}
  /\ fr \cap tk = {}
  /\ D \ fr \subseteq tk \cup UNION {Three(nx, h) : h \in B}

(* A request is in one place: posted, fetched, published or being freed. *)
Once ==
  /\ Range(posted) \cap Heads = {}
  /\ Window(usedRing, ack, usedIdx) \cap (Range(posted) \cup Heads) = {}
  /\ Freeing \cap (Range(posted) \cup Heads \cup Window(usedRing, ack, usedIdx)) = {}
  /\ \A j, k \in jobs : j.head = k.head => j = k
  /\ Distinct(usedRing, ack, usedIdx)

(* The handler runs between operations only, so that pending, in block_op, *)
(* sees the ack_used_idx it wrote itself.                                  *)
Alone ==
  /\ handler # "off" => op.at = "idle"
  /\ op.at # "idle" => op.ack = ack
  /\ op.at \in {"element", "bump"} => ack # usedIdx
  /\ op.at = "bump" => op.head = usedRing[ack % VIRTIO_RING_SIZE]
  /\ op.at # "post" => Taken = {}

Queue == ~raced => Alone /\ Once /\ Sound(next, free, Taken, Busy)

(* alloc_desc_chain takes three free descriptors. *)
LEMMA SoundTake ==
  ASSUME NEW nx, NEW fr, NEW B, Sound(nx, fr, {}, B), NEW T, T \subseteq fr
  PROVE  Sound(nx, fr \ T, T, B)
<1>1. \A h \in B : Proper(nx, h) /\ Three(nx, h) \cap ((fr \ T) \cup T) = {}
  BY DEF Sound
<1>2. \A g, h \in B : g # h => Three(nx, g) \cap Three(nx, h) = {}
  BY Zenon DEF Sound
<1>3. D \ (fr \ T) \subseteq T \cup UNION {Three(nx, h) : h \in B}
  BY DEF Sound
<1> QED
  BY <1>1, <1>2, <1>3 DEF Sound

(* free_desc_chain gives one chain back. *)
LEMMA SoundFree ==
  ASSUME NEW nx, NEW fr, NEW tk, NEW B, Sound(nx, fr, tk, B), NEW h \in B
  PROVE  Sound(nx, fr \cup Three(nx, h), tk, B \ {h})
<1>1. \A g \in B \ {h} : Proper(nx, g)
                         /\ Three(nx, g) \cap ((fr \cup Three(nx, h)) \cup tk) = {}
  BY DEF Sound
<1>2. \A f, g \in B \ {h} : f # g => Three(nx, f) \cap Three(nx, g) = {}
  BY Zenon DEF Sound
<1>3. (fr \cup Three(nx, h)) \cap tk = {}
  BY DEF Sound
<1>4. D \ (fr \cup Three(nx, h)) \subseteq tk \cup UNION {Three(nx, g) : g \in B \ {h}}
  BY DEF Sound
<1> QED
  BY <1>1, <1>2, <1>3, <1>4 DEF Sound

(* block_op writes the descriptors it took: a chain of their own. *)
LEMMA SoundPost ==
  ASSUME NEW nx \in [D -> D \cup {NoNext}], NEW fr, NEW B,
         NEW h \in D, NEW d \in D, NEW s \in D, h # d, d # s, h # s,
         Sound(nx, fr, {h, d, s}, B),
         NEW new, new[h] = d, new[d] = s, new[s] = NoNext,
         \A i \in D \ {h, d, s} : new[i] = nx[i]
  PROVE  Sound(new, fr, {}, B \cup {h}) /\ h \notin B
<1>1. new[h] = d /\ new[d] = s /\ new[s] = NoNext
  OBVIOUS
<1>2. \A i \in D : i \notin {h, d, s} => new[i] = nx[i]
  OBVIOUS
<1>3. Proper(new, h) /\ Three(new, h) = {h, d, s}
  BY <1>1 DEF Proper, Three
<1>4. ASSUME NEW g \in B
      PROVE  Proper(new, g) /\ Three(new, g) = Three(nx, g) /\ Three(nx, g) \cap {h, d, s} = {}
             /\ Three(nx, g) \cap fr = {}
  <2>1. Proper(nx, g) /\ Three(nx, g) \cap (fr \cup {h, d, s}) = {}
    BY Zenon DEF Sound
  <2>2. g \notin {h, d, s} /\ nx[g] \notin {h, d, s} /\ nx[nx[g]] \notin {h, d, s}
    BY <2>1 DEF Three
  <2>3. new[g] = nx[g] /\ new[nx[g]] = nx[nx[g]] /\ new[nx[nx[g]]] = nx[nx[nx[g]]]
    BY <1>2, <2>1, <2>2, Zenon DEF Proper
  <2>4. Proper(new, g) /\ Three(new, g) = Three(nx, g)
    BY <2>1, <2>3, Zenon DEF Proper, Three
  <2> QED
    BY <2>1, <2>4
<1>5. h \notin B
  BY <1>4, Zenon DEF Three
<1>6. \A g \in B \cup {h} : Proper(new, g) /\ Three(new, g) \cap (fr \cup {}) = {}
  <2>1. Three(new, h) \cap fr = {}
    BY <1>3 DEF Sound
  <2> QED
    BY <1>3, <1>4, <2>1
<1>7. \A f, g \in B \cup {h} : f # g => Three(new, f) \cap Three(new, g) = {}
  <2>1. \A f, g \in B : f # g => Three(nx, f) \cap Three(nx, g) = {}
    BY Zenon DEF Sound
  <2> QED
    BY <1>3, <1>4, <2>1
<1>8. D \ fr \subseteq {} \cup UNION {Three(new, g) : g \in B \cup {h}}
  <2>1. D \ fr \subseteq {h, d, s} \cup UNION {Three(nx, g) : g \in B}
    BY Zenon DEF Sound
  <2>2. \A x \in {h, d, s} : x \in Three(new, h)
    BY <1>3
  <2>3. \A g \in B : Three(nx, g) = Three(new, g)
    BY <1>4
  <2> QED
    BY <2>1, <2>2, <2>3
<1>9. fr \cap {} = {}
  OBVIOUS
<1> QED
  BY <1>5, <1>6, <1>7, <1>8, <1>9, Zenon DEF Sound

(* What pending looks at. *)
LEMMA UnconsumedIs == ASSUME QTypes PROVE Unconsumed = Window(usedRing, ack, usedIdx)
  BY Zenon DEF Unconsumed, Window, At, Between

(* The invariant gives the property: free_desc_chain frees what Post wrote.*)
LEMMA QueueEnough == ASSUME IInv, QTypes, Queue PROVE NoDescriptorLost
<1> SUFFICES ASSUME ~raced
             PROVE  /\ D \ free \subseteq Taken \cup UNION {Chain(h) : h \in Outstanding}
                    /\ \A h \in Outstanding : Chain(h) \cap free = {}
  BY DEF NoDescriptorLost
<1>1. Alone /\ Once /\ Sound(next, free, Taken, Busy)
  BY DEF Queue
<1>2. ack \in Index /\ usedIdx \in Index /\ next \in [D -> D \cup {NoNext}]
  BY DEF QTypes, Upwards
<1>3. Outstanding = Busy
  <2>1. Unconsumed = Window(usedRing, ack, usedIdx)
    BY UnconsumedIs
  <2>2. op.at = "bump" => op.head \in Window(usedRing, ack, usedIdx)
    BY <1>1, <1>2, Consumed DEF Alone, Once
  <2> QED
    BY <2>1, <2>2 DEF Outstanding, Busy, Heads, Freeing
<1>4. \A h \in Busy : Chain(h) = Three(next, h)
  BY <1>1, <1>2, ProperChain DEF Sound
<1> QED
  BY <1>1, <1>3, <1>4 DEF Sound

LEMMA QueueInit == Init => Queue
<1> SUFFICES ASSUME Init PROVE Queue
  OBVIOUS
<1>1. op.at = "idle" /\ op.chain = <<>> /\ posted = <<>> /\ jobs = {} /\ ack = 0 /\ usedIdx = 0
      /\ free = D /\ handler = "off"
  BY DEF Init, Idle
<1>2. Taken = {} /\ Range(posted) = {} /\ Heads = {} /\ Freeing = {}
  BY <1>1 DEF Taken, Range, Heads, Freeing
<1>3. Between(0, 0) = 0
  BY QueueAssumption DEF Between
<1>4. Window(usedRing, ack, usedIdx) = {} /\ Distinct(usedRing, ack, usedIdx)
  BY <1>1, <1>3 DEF Window, Distinct
<1>5. Busy = {}
  BY <1>2, <1>4 DEF Busy
<1>6. Sound(next, free, Taken, Busy)
  BY <1>1, <1>2, <1>5 DEF Sound
<1>7. Alone
  BY <1>1, <1>2 DEF Alone
<1>8. Once
  BY <1>1, <1>2, <1>4 DEF Once
<1> QED
  BY <1>6, <1>7, <1>8 DEF Queue

-----------------------------------------------------------------------------
(* The steps *)

(* The definitions are about the state only through their arguments. *)
LEMMA Primed ==
  /\ Sound(next', free', Taken', Busy') => Sound(next, free, Taken, Busy)'
  /\ Window(usedRing, ack, usedIdx)' = Window(usedRing', ack', usedIdx')
  /\ Distinct(usedRing, ack, usedIdx)' <=> Distinct(usedRing', ack', usedIdx')
<1>1. Sound(next', free', Taken', Busy') => Sound(next, free, Taken, Busy)'
  BY Zenon DEF Sound, Proper, Three, D, NoNext
<1>2. Window(usedRing, ack, usedIdx)' = Window(usedRing', ack', usedIdx')
  BY Zenon DEF Window, At, Between
<1>3. Distinct(usedRing, ack, usedIdx)' <=> Distinct(usedRing', ack', usedIdx')
  BY Zenon DEF Distinct, At, Between
<1> QED
  BY <1>1, <1>2, <1>3

(* Steps that leave each request where it is. *)
LEMMA Still ==
  ASSUME Queue, ~raced, UNCHANGED <<next, free, posted, jobs, usedRing, usedIdx, ack>>,
         Taken' = Taken, Freeing' = Freeing, Alone'
  PROVE  Queue'
<1>1. Once /\ Sound(next, free, Taken, Busy)
  BY DEF Queue
<1>2. Window(usedRing, ack, usedIdx)' = Window(usedRing, ack, usedIdx)
      /\ (Distinct(usedRing, ack, usedIdx)' <=> Distinct(usedRing, ack, usedIdx))
  BY Primed
<1>3. Heads' = Heads /\ Range(posted)' = Range(posted)
  BY DEF Heads, Range
<1>4. Busy' = Busy
  BY <1>2, <1>3 DEF Busy
<1>5. Sound(next, free, Taken, Busy)'
  BY <1>1, <1>4, Primed
<1>6. Once'
  BY <1>1, <1>2, <1>3, Zenon DEF Once
<1> QED
  BY <1>5, <1>6 DEF Queue

LEMMA SubmitQueue ==
  ASSUME IInv, QTypes, Queue, ~raced, NEW p \in ReqPages, NEW boot \in BOOLEAN, Submit(p, boot)
  PROVE  Queue'
<1>1. PICK c \in D \X D \X D :
        /\ LowestFree(c)
        /\ free' = free \ {c[1], c[2], c[3]}
        /\ op' = [at |-> "post", boot |-> boot, page |-> p, ack |-> ack, head |-> 0, chain |-> c]
  BY DEF Submit
<1>2. op'.at = "post" /\ op'.ack = ack /\ op'.chain = c
  BY <1>1
<1>3. op.at = "idle" /\ handler = "off"
      /\ UNCHANGED <<next, ack, posted, jobs, usedRing, usedIdx, handler>>
  BY DEF Submit, Runs, device
<1>4. Alone /\ Once /\ Sound(next, free, Taken, Busy) /\ Taken = {}
  BY <1>3 DEF Queue, Alone
<1>5. Taken' = {c[1], c[2], c[3]}
  <2>1. DOMAIN c = 1 .. 3
    OBVIOUS
  <2> QED
    BY <1>2, <2>1 DEF Taken
<1>6. Window(usedRing, ack, usedIdx)' = Window(usedRing, ack, usedIdx)
      /\ (Distinct(usedRing, ack, usedIdx)' <=> Distinct(usedRing, ack, usedIdx))
  BY <1>3, Primed
<1>7. Heads' = Heads /\ Range(posted)' = Range(posted) /\ Freeing' = Freeing
  BY <1>2, <1>3 DEF Heads, Range, Freeing
<1>8. Busy' = Busy
  BY <1>6, <1>7 DEF Busy
<1>9. Sound(next, free, Taken, Busy)'
  <2>1. {c[1], c[2], c[3]} \subseteq free
    BY <1>1 DEF LowestFree
  <2>2. Sound(next, free \ {c[1], c[2], c[3]}, {c[1], c[2], c[3]}, Busy)
    BY <1>4, <2>1, SoundTake, Zenon
  <2>3. Sound(next', free', Taken', Busy')
    BY <1>1, <1>3, <1>5, <1>8, <2>2, Zenon
  <2> QED
    BY <2>3, Primed
<1>10. Alone'
  BY <1>2, <1>3 DEF Alone
<1>11. Once'
  BY <1>4, <1>6, <1>7, <1>3, Zenon DEF Once
<1> QED
  BY <1>9, <1>10, <1>11 DEF Queue

LEMMA PostQueue == ASSUME IInv, QTypes, Queue, ~raced, Post PROVE Queue'
<1>1. PICK h \in D, d \in D, s \in D :
        /\ h = op.chain[1] /\ d = op.chain[2] /\ s = op.chain[3]
        /\ h # d /\ d # s /\ h # s
  BY DEF IInv, ChainTaken, Post, Runs
<1>2. /\ next' = [next EXCEPT ![h] = d, ![d] = s, ![s] = NoNext]
      /\ posted' = Append(posted, h)
      /\ op' = [op EXCEPT !.at = "pending", !.chain = <<>>]
      /\ op.at = "post" /\ handler = "off"
      /\ UNCHANGED <<free, ack, jobs, usedRing, usedIdx, handler>>
  BY <1>1 DEF Post, Runs
<1>3. op'.at = "pending" /\ op'.chain = <<>> /\ op'.ack = op.ack
  BY <1>2, Zenon DEF IInv, Types, IsOp
<1>4. Alone /\ Once /\ Sound(next, free, Taken, Busy) /\ next \in [D -> D \cup {NoNext}]
  BY DEF Queue, QTypes, Upwards
<1>5. Taken = {h, d, s}
  <2>1. op.chain \in D \X D \X D
    BY <1>2 DEF IInv, ChainTaken
  <2>2. DOMAIN op.chain = 1 .. 3
    BY <2>1
  <2> QED
    BY <1>1, <2>2 DEF Taken
<1>6. Taken' = {}
  BY <1>3 DEF Taken
<1>7. posted = <<>> /\ posted' = <<h>>
  <2>1. posted = <<>>
    BY <1>2 DEF IInv, OneRequest, Held
  <2> QED
    BY <1>1, <1>2, <2>1
<1>8. Range(posted) = {} /\ Range(posted)' = {h}
  BY <1>7 DEF Range
<1>9. Window(usedRing, ack, usedIdx)' = Window(usedRing, ack, usedIdx)
      /\ (Distinct(usedRing, ack, usedIdx)' <=> Distinct(usedRing, ack, usedIdx))
  BY <1>2, Primed
<1>10. Heads' = Heads /\ Freeing = {} /\ Freeing' = {}
  BY <1>2, <1>3 DEF Heads, Freeing
<1>11. Busy' = Busy \cup {h}
  BY <1>8, <1>9, <1>10 DEF Busy
<1>12. Sound(next', free, {}, Busy \cup {h}) /\ h \notin Busy
  <2>1. Sound(next, free, {h, d, s}, Busy)
    BY <1>4, <1>5, Zenon
  <2>2. next'[h] = d /\ next'[d] = s /\ next'[s] = NoNext
        /\ \A i \in D \ {h, d, s} : next'[i] = next[i]
    BY <1>1, <1>2, <1>4
  <2>3. h # d /\ d # s /\ h # s /\ next \in [D -> D \cup {NoNext}]
    BY <1>1, <1>4
  <2> QED
    BY <2>1, <2>2, <2>3, SoundPost
<1>13. Sound(next, free, Taken, Busy)'
  <2>1. Sound(next', free', Taken', Busy')
    BY <1>2, <1>6, <1>11, <1>12, Zenon
  <2> QED
    BY <2>1, Primed
<1>14. Alone'
  BY <1>2, <1>3, <1>4, <1>6 DEF Alone
<1>15. Once'
  <2>1. h \notin Heads /\ h \notin Window(usedRing, ack, usedIdx)
    BY <1>12 DEF Busy
  <2>2. Range(posted)' \cap Heads' = {}
        /\ Window(usedRing, ack, usedIdx)' \cap (Range(posted)' \cup Heads') = {}
    BY <1>4, <1>8, <1>9, <1>10, <2>1 DEF Once
  <2> QED
    BY <1>2, <1>4, <1>9, <1>10, <2>2, Zenon DEF Once
<1> QED
  BY <1>13, <1>14, <1>15 DEF Queue

(* pending counts an element as seen before it frees its chain. *)
LEMMA BumpQueue == ASSUME IInv, QTypes, Queue, ~raced, PendingBump PROVE Queue'
<1>1. Alone /\ Once /\ Sound(next, free, Taken, Busy) /\ ack \in Index /\ usedIdx \in Index
  BY DEF Queue, QTypes
<1>2. op.at = "bump" /\ handler = "off" /\ op.ack = ack /\ ack # usedIdx
      /\ op.head = usedRing[ack % VIRTIO_RING_SIZE] /\ Taken = {}
  BY <1>1 DEF PendingBump, Runs, Alone
<1>3. ack' = Inc(ack) /\ op' = [op EXCEPT !.at = "free", !.ack = Inc(ack)]
      /\ UNCHANGED <<next, free, posted, jobs, usedRing, usedIdx, handler>>
  BY <1>2, Zenon DEF PendingBump, AckSeen, device
<1>4. op'.at = "free" /\ op'.ack = ack' /\ op'.head = op.head /\ op'.chain = op.chain
  BY <1>3, Zenon DEF IInv, Types, IsOp
<1>5. Taken' = {} /\ Freeing = {} /\ Freeing' = {op.head}
  BY <1>2, <1>4, Zenon DEF Taken, Freeing
<1>6. /\ op.head \in Window(usedRing, ack, usedIdx)
      /\ Window(usedRing, Inc(ack), usedIdx) = Window(usedRing, ack, usedIdx) \ {op.head}
      /\ Distinct(usedRing, Inc(ack), usedIdx)
  <2>1. Distinct(usedRing, ack, usedIdx)
    BY <1>1 DEF Once
  <2> QED
    BY <1>1, <1>2, <2>1, Consumed
<1>7. Window(usedRing, ack, usedIdx)' = Window(usedRing, ack, usedIdx) \ {op.head}
      /\ Distinct(usedRing, ack, usedIdx)'
  BY <1>3, <1>6, Primed
<1>8. Heads' = Heads /\ Range(posted)' = Range(posted)
  BY <1>3 DEF Heads, Range
<1>9. Busy' = Busy
  BY <1>5, <1>6, <1>7, <1>8 DEF Busy
<1>10. Sound(next, free, Taken, Busy)'
  BY <1>1, <1>2, <1>3, <1>5, <1>9, Primed
<1>11. Alone'
  BY <1>2, <1>3, <1>4, <1>5 DEF Alone
<1>12. Once'
  <2>1. op.head \notin Range(posted) /\ op.head \notin Heads
    BY <1>1, <1>6 DEF Once
  <2>2. Window(usedRing, ack, usedIdx)' \cap (Range(posted) \cup Heads)' = {}
        /\ Freeing' \cap (Range(posted) \cup Heads \cup Window(usedRing, ack, usedIdx))' = {}
    BY <1>1, <1>5, <1>7, <1>8, <2>1 DEF Once
  <2> QED
    BY <1>1, <1>3, <1>7, <1>8, <2>2 DEF Once
<1> QED
  BY <1>10, <1>11, <1>12 DEF Queue

(* The chain of a head that is in one place only goes back to free. *)
LEMMA FreeQueue ==
  ASSUME QTypes, Queue, ~raced, NEW h \in Busy, Taken = {}, Taken' = {},
         free' = free \cup Chain(h), Busy' = Busy \ {h}, Alone', Once', next' = next
  PROVE  Queue'
<1>1. Sound(next, free, {}, Busy) /\ next \in [D -> D \cup {NoNext}]
  BY DEF Queue, QTypes, Upwards
<1>2. Chain(h) = Three(next, h)
  BY <1>1, ProperChain DEF Sound
<1>3. Sound(next, free \cup Three(next, h), {}, Busy \ {h})
  BY <1>1, SoundFree, Zenon
<1>4. Sound(next', free', Taken', Busy')
  BY <1>2, <1>3, Zenon
<1> QED
  BY <1>4, Primed DEF Queue

LEMMA PendingFreeQueue == ASSUME IInv, QTypes, Queue, ~raced, PendingFree PROVE Queue'
<1>1. Alone /\ Once
  BY DEF Queue
<1>2. op.at = "free" /\ handler = "off" /\ op.ack = ack /\ Taken = {}
  BY <1>1 DEF PendingFree, Runs, Alone
<1>3. free' = free \cup Chain(op.head) /\ op' = [op EXCEPT !.at = "pending", !.head = 0]
      /\ UNCHANGED <<next, ack, posted, jobs, usedRing, usedIdx, handler>>
  BY DEF PendingFree, device
<1>4. op'.at = "pending" /\ op'.ack = op.ack /\ op'.chain = op.chain
  BY <1>3, Zenon DEF IInv, Types, IsOp
<1>5. Taken' = {} /\ Freeing = {op.head} /\ Freeing' = {}
  BY <1>2, <1>4 DEF Taken, Freeing
<1>6. Window(usedRing, ack, usedIdx)' = Window(usedRing, ack, usedIdx)
      /\ (Distinct(usedRing, ack, usedIdx)' <=> Distinct(usedRing, ack, usedIdx))
  BY <1>3, Primed
<1>7. Heads' = Heads /\ Range(posted)' = Range(posted)
  BY <1>3 DEF Heads, Range
<1>8. op.head \in Busy /\ Busy' = Busy \ {op.head}
  BY <1>1, <1>5, <1>6, <1>7 DEF Busy, Once
<1>9. Alone'
  BY <1>2, <1>3, <1>4, <1>5 DEF Alone
<1>10. Once'
  BY <1>1, <1>3, <1>5, <1>6, <1>7 DEF Once
<1> QED
  BY <1>2, <1>3, <1>5, <1>8, <1>9, <1>10, FreeQueue

LEMMA HandlerQueue == ASSUME IInv, QTypes, Queue, ~raced, HandlerPending PROVE Queue'
<1>1. Alone /\ Once /\ ack \in Index /\ usedIdx \in Index
  BY DEF Queue, QTypes
<1>2. op.at = "idle" /\ handler = "pending" /\ ack # usedIdx /\ Taken = {}
  BY <1>1 DEF HandlerPending, Alone
<1>3. PICK h : h = usedRing[ack % VIRTIO_RING_SIZE]
  OBVIOUS
<1>4. free' = free \cup Chain(h) /\ ack' = Inc(ack)
      /\ UNCHANGED <<next, posted, jobs, usedRing, usedIdx, op, handler>>
  BY <1>3 DEF HandlerPending, device
<1>5. Taken' = {} /\ Freeing = {} /\ Freeing' = {}
  BY <1>2, <1>4 DEF Taken, Freeing
<1>6. /\ h \in Window(usedRing, ack, usedIdx)
      /\ Window(usedRing, Inc(ack), usedIdx) = Window(usedRing, ack, usedIdx) \ {h}
      /\ Distinct(usedRing, Inc(ack), usedIdx)
  BY <1>1, <1>2, <1>3, Consumed DEF Once
<1>7. Window(usedRing, ack, usedIdx)' = Window(usedRing, ack, usedIdx) \ {h}
      /\ Distinct(usedRing, ack, usedIdx)'
  BY <1>4, <1>6, Primed
<1>8. Heads' = Heads /\ Range(posted)' = Range(posted)
  BY <1>4 DEF Heads, Range
<1>9. h \in Busy /\ Busy' = Busy \ {h}
  BY <1>1, <1>5, <1>6, <1>7, <1>8 DEF Busy, Once
<1>10. Alone'
  BY <1>2, <1>4, <1>5 DEF Alone
<1>11. Once'
  BY <1>1, <1>4, <1>5, <1>7, <1>8 DEF Once
<1> QED
  BY <1>2, <1>4, <1>5, <1>9, <1>10, <1>11, FreeQueue, ZenonT(30)

(* The device takes the posted request. *)
LEMMA FetchQueue == ASSUME IInv, QTypes, Queue, ~raced, Fetch PROVE Queue'
<1>1. PICK h \in D : posted = <<h>>
  BY DEF IInv, OneRequest, Fetch
<1>2. PICK f : f = [head |-> h, answered |-> FALSE]
  BY Zenon
<1>a. f.head = h
  BY <1>2, SMTT(20)
<1>0. /\ jobs' = jobs \cup {f}
      /\ posted' = <<>>
      /\ UNCHANGED <<next, free, ack, usedRing, usedIdx, op, handler>>
  BY <1>1, <1>2 DEF Fetch, driver
<1>3. Alone /\ Once /\ Sound(next, free, Taken, Busy)
  BY DEF Queue
<1>4. Taken' = Taken /\ Freeing' = Freeing
  BY <1>0 DEF Taken, Freeing
<1>5. Window(usedRing, ack, usedIdx)' = Window(usedRing, ack, usedIdx)
      /\ (Distinct(usedRing, ack, usedIdx)' <=> Distinct(usedRing, ack, usedIdx))
  BY <1>0, Primed
<1>6. Range(posted) = {h} /\ Range(posted)' = {}
  BY <1>0, <1>1 DEF Range
<1>7. Heads' = Heads \cup {h}
  BY <1>0, <1>a DEF Heads
<1>8. Busy' = Busy
  BY <1>4, <1>5, <1>6, <1>7 DEF Busy
<1>9. Sound(next, free, Taken, Busy)'
  BY <1>0, <1>3, <1>4, <1>8, Primed
<1>10. Alone'
  BY <1>0, <1>3, <1>4 DEF Alone
<1>11. \A j, k \in jobs' : j.head = k.head => j = k
  <2>1. h \notin Heads
    BY <1>3, <1>6 DEF Once
  <2>2. \A j \in jobs : j.head # h
    BY <2>1 DEF Heads
  <2> QED
    BY <1>0, <1>a, <1>3, <2>2 DEF Once
<1>12. Once'
  <2>1. /\ Range(posted)' \cap Heads' = {}
        /\ Window(usedRing, ack, usedIdx)' \cap (Range(posted) \cup Heads)' = {}
        /\ Freeing' \cap (Range(posted) \cup Heads \cup Window(usedRing, ack, usedIdx))' = {}
    BY <1>3, <1>4, <1>5, <1>6, <1>7 DEF Once
  <2> QED
    BY <1>3, <1>5, <1>11, <2>1, Zenon DEF Once
<1> QED
  BY <1>9, <1>10, <1>12 DEF Queue

(* The device answers: the request stays with it. *)
LEMMA AnswerQueue ==
  ASSUME IInv, QTypes, Queue, ~raced, NEW j \in Jobs, Answer(j) PROVE Queue'
<1>1. j \in jobs /\ jobs' = (jobs \ {j}) \cup {[j EXCEPT !.answered = TRUE]}
      /\ UNCHANGED <<next, free, ack, usedRing, usedIdx, op, handler, posted>>
  BY DEF Answer, driver
<1>2. Alone /\ Once /\ Sound(next, free, Taken, Busy)
  BY DEF Queue
<1>3. PICK k : k = [j EXCEPT !.answered = TRUE]
  BY Zenon
<1>4. k.head = j.head
  BY <1>3, Zenon DEF Jobs
<1>5. Heads' = Heads
  BY <1>1, <1>3, <1>4, Zenon DEF Heads
<1>6. \A f, g \in jobs' : f.head = g.head => f = g
  <2>1. \A f, g \in jobs : f.head = g.head => f = g
    BY <1>2 DEF Once
  <2>2. jobs' = (jobs \ {j}) \cup {k}
    BY <1>1, <1>3
  <2> QED
    BY <1>1, <1>4, <2>1, <2>2
<1>7. Taken' = Taken /\ Freeing' = Freeing /\ Range(posted)' = Range(posted)
  BY <1>1 DEF Taken, Freeing, Range
<1>8. Window(usedRing, ack, usedIdx)' = Window(usedRing, ack, usedIdx)
      /\ (Distinct(usedRing, ack, usedIdx)' <=> Distinct(usedRing, ack, usedIdx))
  BY <1>1, Primed
<1>9. Busy' = Busy
  BY <1>5, <1>7, <1>8 DEF Busy
<1>10. Sound(next, free, Taken, Busy)'
  BY <1>1, <1>2, <1>7, <1>9, Primed
<1>11. Alone'
  BY <1>1, <1>2, <1>7 DEF Alone
<1>12. Once'
  BY <1>2, <1>5, <1>6, <1>7, <1>8, Zenon DEF Once
<1> QED
  BY <1>10, <1>11, <1>12 DEF Queue

(* The head that the device publishes goes to the end of the window. *)
LEMMA PublishWindow ==
  ASSUME QTypes, Queue, ~raced, NEW j \in Jobs, Publish(j)
  PROVE  /\ Window(usedRing', ack, Inc(usedIdx)) = Window(usedRing, ack, usedIdx) \cup {j.head}
         /\ Distinct(usedRing', ack, Inc(usedIdx))
         /\ Between(Inc(usedIdx), ack) = Between(usedIdx, ack) + 1
         /\ \A i \in 0 .. Between(usedIdx, ack) - 1 : At(usedRing', ack, i) = At(usedRing, ack, i)
<1>1. /\ j \in jobs /\ jobs' = jobs \ {j} /\ usedIdx' = Inc(usedIdx)
      /\ usedRing' = [usedRing EXCEPT ![usedIdx % VIRTIO_RING_SIZE] = j.head]
      /\ UNCHANGED <<next, free, ack, op, handler, posted>>
  BY DEF Publish, driver
<1>2. Once /\ Sound(next, free, Taken, Busy)
  BY DEF Queue
<1>3. usedRing \in [D -> D] /\ ack \in Index /\ usedIdx \in Index /\ Upwards
  BY DEF QTypes
<1>4. PICK h : h = j.head
  OBVIOUS
<1>5. h \in Heads /\ h \in Busy /\ h \in D
  BY <1>1, <1>4 DEF Heads, Busy, Jobs
<1>6. Proper(next, h)
  BY <1>2, <1>5, Zenon DEF Sound
<1>7. PICK d \in D : d = next[h] /\ h # d
  <2>1. next[h] \in D
    BY <1>6, Zenon DEF Proper
  <2>2. next[h] # h
    BY <1>3, <1>5, <2>1, QueueAssumption, SMTT(20) DEF Upwards, D, NoNext
  <2> QED
    BY <2>1, <2>2
<1>8. h \notin Window(usedRing, ack, usedIdx)
  BY <1>2, <1>5 DEF Once
<1>9. d \notin Window(usedRing, ack, usedIdx)
  <2> SUFFICES ASSUME d \in Window(usedRing, ack, usedIdx) PROVE FALSE
    OBVIOUS
  <2>1. d \in Busy
    BY DEF Busy
  <2>2. Three(next, d) \cap Three(next, h) = {}
    BY <1>2, <1>5, <1>7, <2>1, ZenonT(30) DEF Sound
  <2> QED
    BY <1>7, <2>2 DEF Three
<1>10. /\ Window(usedRing', ack, Inc(usedIdx)) = Window(usedRing, ack, usedIdx) \cup {h}
       /\ Distinct(usedRing', ack, Inc(usedIdx))
       /\ Between(Inc(usedIdx), ack) = Between(usedIdx, ack) + 1
       /\ \A i \in 0 .. Between(usedIdx, ack) - 1 : At(usedRing', ack, i) = At(usedRing, ack, i)
  <2>1. Distinct(usedRing, ack, usedIdx)
    BY <1>2 DEF Once
  <2>2. {h, d} \cap Window(usedRing, ack, usedIdx) = {}
    BY <1>8, <1>9
  <2>3. usedRing'[usedIdx % VIRTIO_RING_SIZE] = h
        /\ \A i \in D : i # usedIdx % VIRTIO_RING_SIZE => usedRing'[i] = usedRing[i]
    BY <1>1, <1>3, <1>4, Indices
  <2> QED
    BY <1>3, <1>5, <1>7, <2>1, <2>2, <2>3, Published
<1> QED
  BY <1>4, <1>10, Zenon

(* The device publishes: the request moves from the jobs to the window. *)
LEMMA PublishQueue ==
  ASSUME IInv, QTypes, Queue, ~raced, NEW j \in Jobs, Publish(j) PROVE Queue'
<1>1. /\ j \in jobs /\ jobs' = jobs \ {j} /\ usedIdx' = Inc(usedIdx)
      /\ UNCHANGED <<next, free, ack, op, handler, posted>>
  BY DEF Publish, driver
<1>2. Alone /\ Once /\ Sound(next, free, Taken, Busy)
  BY DEF Queue
<1>3. usedRing \in [D -> D] /\ ack \in Index /\ usedIdx \in Index
  BY DEF QTypes
<1>4. PICK h : h = j.head
  OBVIOUS
<1>5. h \in Heads
  BY <1>1, <1>4 DEF Heads
<1>10. /\ Window(usedRing', ack, Inc(usedIdx)) = Window(usedRing, ack, usedIdx) \cup {h}
       /\ Distinct(usedRing', ack, Inc(usedIdx))
       /\ Between(Inc(usedIdx), ack) = Between(usedIdx, ack) + 1
       /\ \A i \in 0 .. Between(usedIdx, ack) - 1 : At(usedRing', ack, i) = At(usedRing, ack, i)
  BY <1>4, PublishWindow, Zenon
<1>11. Window(usedRing, ack, usedIdx)' = Window(usedRing, ack, usedIdx) \cup {h}
       /\ Distinct(usedRing, ack, usedIdx)'
  BY <1>1, <1>10, Primed
<1>12. Heads' = Heads \ {h}
  <2>1. \A f, g \in jobs : f.head = g.head => f = g
    BY <1>2 DEF Once
  <2> QED
    BY <1>1, <1>4, <2>1, SMTT(20) DEF Heads
<1>13. Taken' = Taken /\ Freeing' = Freeing /\ Range(posted)' = Range(posted)
  BY <1>1 DEF Taken, Freeing, Range
<1>14. Busy' = Busy
  BY <1>5, <1>11, <1>12, <1>13 DEF Busy
<1>15. Sound(next, free, Taken, Busy)'
  BY <1>1, <1>2, <1>13, <1>14, Primed
<1>16. op.at \notin {"element", "bump"} => Alone'
  BY <1>1, <1>2, <1>13 DEF Alone
<1>17. op.at \in {"element", "bump"} => Alone'
  <2> SUFFICES ASSUME op.at \in {"element", "bump"} PROVE Alone'
    OBVIOUS
  <2>1. ack # usedIdx
    BY <1>2 DEF Alone
  <2>3. Between(usedIdx, ack) \in Nat /\ Between(ack, ack) = 0
    <3>1. Between(usedIdx, ack) \in Index
          /\ Between(ack, ack) = IF ack <= ack THEN ack - ack ELSE ack - ack + IdxMod
      BY <1>3, Positions, Zenon
    <3> QED
      BY <1>3, <3>1, QueueAssumption DEF Index
  <2>4. ack # Inc(usedIdx)
    BY <1>10, <2>3
  <2>5. usedRing[ack % VIRTIO_RING_SIZE] = usedRing'[ack % VIRTIO_RING_SIZE]
    <3>1. At(usedRing, ack, 0) = usedRing[ack % VIRTIO_RING_SIZE]
          /\ At(usedRing', ack, 0) = usedRing'[ack % VIRTIO_RING_SIZE]
      BY <1>3, <2>1, Advance, Zenon
    <3>2. Between(usedIdx, ack) \in Nat \ {0}
      BY <1>3, <2>1, Advance, Zenon
    <3>3. 0 \in 0 .. Between(usedIdx, ack) - 1
      BY <3>2
    <3> QED
      BY <1>10, <3>1, <3>3, Zenon
  <2> QED
    BY <1>1, <1>2, <1>13, <2>4, <2>5 DEF Alone
<1>18. Once'
  <2>1. h \notin Range(posted) /\ h \notin Freeing
    BY <1>2, <1>5 DEF Once
  <2>2. /\ Range(posted)' \cap Heads' = {}
        /\ Window(usedRing, ack, usedIdx)' \cap (Range(posted) \cup Heads)' = {}
        /\ Freeing' \cap (Range(posted) \cup Heads \cup Window(usedRing, ack, usedIdx))' = {}
    BY <1>2, <1>11, <1>12, <1>13, <2>1 DEF Once
  <2>3. \A f, g \in jobs' : f.head = g.head => f = g
    BY <1>1, <1>2 DEF Once
  <2> QED
    BY <1>11, <2>2, <2>3, Zenon DEF Once
<1> QED
  BY <1>15, <1>16, <1>17, <1>18 DEF Queue

(* The kind of the device is fixed, and a race is not forgotten. *)
LEMMA History == ASSUME [Next]_vars PROVE overlap' = overlap /\ (raced => raced')
<1>1. CASE UNCHANGED vars \/ Refuse \/ NoChain
  BY <1>1 DEF vars, Refuse, NoChain
<1>2. CASE \E p \in ReqPages, boot \in BOOLEAN : Submit(p, boot)
  BY <1>2 DEF Submit
<1>3. CASE OpStep
  <2>1. UNCHANGED <<raced, overlap>>
    BY <1>3, Zenon DEF OpStep, Post, PendingTest, PendingElement, PendingBump, PendingFree, CheckStatus
  <2> QED
    BY <2>1, Zenon
<1>4. CASE HandlerStep
  <2>1. CASE Claim
    BY <2>1, Zenon DEF Claim
  <2>2. CASE HandlerStep /\ ~Claim
    <3>1. UNCHANGED <<raced, overlap>>
      BY <2>2 DEF HandlerStep, ReadIsr, HandlerPending, HandlerDrained, AckIsr, Complete
    <3> QED
      BY <3>1
  <2> QED
    BY <1>4, <2>1, <2>2
<1>5. CASE Fetch
  BY <1>5 DEF Fetch
<1>6. CASE \E j \in Jobs : Answer(j) \/ Publish(j)
  BY <1>6 DEF Answer, Publish
<1> QED
  BY <1>1, <1>2, <1>3, <1>4, <1>5, <1>6, Zenon DEF Next

(* Every step, as long as the handler has not run inside a block_op. *)
LEMMA QueueNext == IInv /\ QTypes /\ Queue /\ [Next]_vars => Queue'
<1> SUFFICES ASSUME IInv, QTypes, Queue, [Next]_vars, ~raced' PROVE Queue'
  BY DEF Queue
<1>1. ~raced
  BY History
<1>2. Alone
  BY <1>1 DEF Queue
<1>3. CASE UNCHANGED vars \/ Refuse \/ NoChain
  <2>1. UNCHANGED vars
    BY <1>3 DEF Refuse, NoChain
  <2>2. Taken' = Taken /\ Freeing' = Freeing
    BY <2>1 DEF vars, Taken, Freeing
  <2>3. Alone'
    BY <1>2, <2>1, <2>2 DEF vars, Alone
  <2> QED
    BY <1>1, <2>1, <2>2, <2>3, Still DEF vars
<1>4. CASE \E p \in ReqPages, boot \in BOOLEAN : Submit(p, boot)
  BY <1>1, <1>4, SubmitQueue
<1>5. CASE Post
  BY <1>1, <1>5, PostQueue
<1>6. CASE PendingTest
  <2>1. op.at = "pending" /\ handler = "off" /\ op.ack = ack /\ Taken = {}
    BY <1>2, <1>6 DEF PendingTest, Runs, Alone
  <2>2. op' = [op EXCEPT !.at = IF ack = usedIdx THEN "status" ELSE "element", !.ack = ack]
        /\ UNCHANGED <<next, free, posted, jobs, usedRing, usedIdx, ack, handler>>
    BY <1>6, <2>1, Zenon DEF PendingTest, AckSeen, driver, device
  <2>3. op'.at = (IF ack = usedIdx THEN "status" ELSE "element") /\ op'.ack = ack
        /\ op'.chain = op.chain
    BY <2>2, Zenon DEF IInv, Types, IsOp
  <2>4. Taken' = Taken /\ Freeing' = Freeing
    BY <2>1, <2>3 DEF Taken, Freeing
  <2>5. Alone'
    BY <2>1, <2>2, <2>3, <2>4 DEF Alone
  <2> QED
    BY <1>1, <2>2, <2>4, <2>5, Still
<1>7. CASE PendingElement
  <2>1. op.at = "element" /\ handler = "off" /\ op.ack = ack /\ Taken = {} /\ ack # usedIdx
    BY <1>2, <1>7 DEF PendingElement, Runs, Alone
  <2>2. op' = [op EXCEPT !.at = "bump", !.head = usedRing[ack % VIRTIO_RING_SIZE], !.ack = ack]
        /\ UNCHANGED <<next, free, posted, jobs, usedRing, usedIdx, ack, handler>>
    BY <1>7, <2>1, Zenon DEF PendingElement, AckSeen, driver, device
  <2>3. op'.at = "bump" /\ op'.ack = ack /\ op'.chain = op.chain
        /\ op'.head = usedRing[ack % VIRTIO_RING_SIZE]
    BY <2>2, Zenon DEF IInv, Types, IsOp
  <2>4. Taken' = Taken /\ Freeing' = Freeing
    BY <2>1, <2>3 DEF Taken, Freeing
  <2>5. Alone'
    BY <2>1, <2>2, <2>3, <2>4 DEF Alone
  <2> QED
    BY <1>1, <2>2, <2>4, <2>5, Still
<1>8. CASE PendingBump
  BY <1>1, <1>8, BumpQueue
<1>9. CASE PendingFree
  BY <1>1, <1>9, PendingFreeQueue
<1>10. CASE CheckStatus
  <2>1. op.at = "status" /\ handler = "off" /\ op.ack = ack /\ Taken = {}
    BY <1>2, <1>10 DEF CheckStatus, Runs, Alone
  <2>2. op' \in {Idle, [op EXCEPT !.at = "pending"]}
        /\ UNCHANGED <<next, free, posted, jobs, usedRing, usedIdx, ack, handler>>
    BY <1>10 DEF CheckStatus, driver, device
  <2>3. \/ op'.at = "idle" /\ op'.chain = <<>>
        \/ op'.at = "pending" /\ op'.ack = op.ack /\ op'.chain = op.chain
    <3>1. CASE op' = Idle
      BY <3>1 DEF Idle
    <3>2. CASE op' = [op EXCEPT !.at = "pending"]
      BY <3>2, Zenon DEF IInv, Types, IsOp
    <3> QED
      BY <2>2, <3>1, <3>2
  <2>4. Taken' = Taken /\ Freeing' = Freeing
    <3>1. DOMAIN <<>> = {}
      OBVIOUS
    <3>2. Taken' = {}
      BY <2>1, <2>3, <3>1, Zenon DEF Taken
    <3> QED
      BY <2>1, <2>3, <3>2 DEF Freeing
  <2>5. Alone'
    BY <2>1, <2>2, <2>3, <2>4 DEF Alone
  <2> QED
    BY <1>1, <2>2, <2>4, <2>5, Still
<1>11. CASE HandlerPending
  BY <1>1, <1>11, HandlerQueue
<1>12. CASE HandlerStep /\ ~HandlerPending
  <2>1. UNCHANGED <<next, free, posted, jobs, usedRing, usedIdx, ack, op>>
    BY <1>12 DEF HandlerStep, Claim, ReadIsr, HandlerDrained, AckIsr, Complete, driver, device
  <2>2. Taken' = Taken /\ Freeing' = Freeing
    BY <2>1 DEF Taken, Freeing
  <2>3. handler' # "off" => op.at = "idle"
    BY <1>2, <1>12, Zenon DEF HandlerStep, Claim, ReadIsr, HandlerDrained, AckIsr, Complete, Alone
  <2>4. Alone'
    BY <1>2, <2>1, <2>2, <2>3 DEF Alone
  <2> QED
    BY <1>1, <2>1, <2>2, <2>4, Still, SMTT(20)
<1>13. CASE Fetch
  BY <1>1, <1>13, FetchQueue
<1>14. CASE \E j \in Jobs : Answer(j) \/ Publish(j)
  BY <1>1, <1>14, AnswerQueue, PublishQueue
<1> QED
  BY <1>3, <1>4, <1>5, <1>6, <1>7, <1>8, <1>9, <1>10, <1>11, <1>12, <1>13, <1>14, SMTT(20) DEF Next, OpStep

(* As long as the handler has not run inside a block_op, every descriptor  *)
(* is free or belongs to a request the driver has still to retire, and the *)
(* chain of such a request is not free (alloc_desc_chain, pending,         *)
(* free_desc_chain).                                                       *)
THEOREM DescriptorsKept == Spec => []NoDescriptorLost
<1>1. Init => IInv /\ QTypes /\ Queue
  BY InitIInv, QTypesInit, QueueInit
<1>2. IInv /\ QTypes /\ Queue /\ [Next]_vars => IInv' /\ QTypes' /\ Queue'
  BY NextIInv, QTypesNext, QueueNext
<1>3. IInv /\ QTypes /\ Queue => NoDescriptorLost
  BY QueueEnough
<1> QED
  BY <1>1, <1>2, <1>3, PTL DEF Spec

-----------------------------------------------------------------------------
(* Why the queue does not get stuck *)

(* On a device that publishes an answer before it gives the next one, at   *)
(* most one element is left behind without an interrupt to come: the one   *)
(* that arrives between the handler's last look and its InterruptAck.      *)
LeftBehind ==
  ~overlap /\ ~raced =>
    /\ \A j, k \in jobs : j.answered /\ k.answered => j = k
    /\ ~isr => Between(usedIdx, ack) <= 1
    /\ handler = "ack" => ack = usedIdx \/ (Between(usedIdx, ack) = 1 /\ jobs = {})

(* Elements are none or at least one. *)
LEMMA BetweenType ==
  ASSUME QTypes
  PROVE  /\ Between(usedIdx, ack) \in Nat
         /\ ack = usedIdx <=> Between(usedIdx, ack) = 0
<1>1. ack \in Index /\ usedIdx \in Index
  BY DEF QTypes
<1>2. Between(usedIdx, ack) \in Index
      /\ Between(usedIdx, ack) = IF ack <= usedIdx THEN usedIdx - ack ELSE usedIdx - ack + IdxMod
  BY <1>1, Positions, Zenon
<1> QED
  BY <1>1, <1>2, QueueAssumption DEF Index

LEMMA LeftBehindInit == Init => LeftBehind
<1> SUFFICES ASSUME Init PROVE LeftBehind
  OBVIOUS
<1>1. Between(0, 0) = 0
  BY QueueAssumption DEF Between
<1>2. jobs = {} /\ handler = "off" /\ Between(usedIdx, ack) = 0
  BY <1>1 DEF Init
<1> QED
  BY <1>2 DEF LeftBehind

(* Steps after which no element is further from being seen. *)
LEMMA LeftBehindKeeps ==
  ASSUME QTypes, LeftBehind, ~overlap, ~raced, UNCHANGED <<jobs, usedIdx, isr>>,
         \/ ack' = ack /\ handler' \in {handler, "isr", "pending", "complete", "off"}
         \/ ack # usedIdx /\ ack' = Inc(ack) /\ handler' = handler /\ handler # "ack"
  PROVE  LeftBehind'
<1>1. ack \in Index /\ usedIdx \in Index
  BY DEF QTypes
<1>2. CASE ack' = ack /\ handler' \in {handler, "isr", "pending", "complete", "off"}
  <2>1. Between(usedIdx, ack)' = Between(usedIdx, ack)
    BY <1>2 DEF Between
  <2> QED
    BY <1>2, <2>1 DEF LeftBehind
<1>3. CASE ack # usedIdx /\ ack' = Inc(ack) /\ handler' = handler /\ handler # "ack"
  <2>1. Between(usedIdx, ack)' = Between(usedIdx, Inc(ack))
    BY <1>3 DEF Between
  <2>2. Between(usedIdx, ack) \in Nat \ {0} /\ Between(usedIdx, Inc(ack)) = Between(usedIdx, ack) - 1
    BY <1>1, <1>3, Advance, Zenon
  <2> QED
    BY <1>3, <2>1, <2>2 DEF LeftBehind
<1> QED
  BY <1>2, <1>3

LEMMA LeftBehindPublish ==
  ASSUME IInv, QTypes, Queue, LeftBehind, ~overlap, ~raced, NEW j \in Jobs, Publish(j)
  PROVE  LeftBehind'
<1>1. /\ j \in jobs /\ j.answered /\ jobs' = jobs \ {j} /\ usedIdx' = Inc(usedIdx) /\ isr'
      /\ UNCHANGED <<ack, handler>>
  BY DEF Publish, driver
<1>2. Between(usedIdx, ack)' = Between(usedIdx, ack) + 1
  <2>1. Between(usedIdx, ack)' = Between(Inc(usedIdx), ack)
    BY <1>1 DEF Between
  <2> QED
    BY <2>1, PublishWindow
<1>3. handler = "ack" => Between(usedIdx, ack)' = 1 /\ jobs' = {}
  <2> SUFFICES ASSUME handler = "ack" PROVE Between(usedIdx, ack)' = 1 /\ jobs' = {}
    OBVIOUS
  <2>1. op.at = "idle"
    BY ZenonT(30) DEF Queue, Alone
  <2>2. \A k \in jobs : k.answered
    BY <2>1 DEF IInv, OneRequest, Held
  <2>3. \A k \in jobs : k = j
    BY <1>1, <2>2 DEF LeftBehind
  <2>4. Between(usedIdx, ack) = 0
    BY <1>1, BetweenType DEF LeftBehind
  <2> QED
    BY <1>1, <1>2, <2>3, <2>4
<1>4. \A f, g \in jobs' : f.answered /\ g.answered => f = g
  BY <1>1 DEF LeftBehind
<1> QED
  BY <1>1, <1>3, <1>4 DEF LeftBehind

LEMMA LeftBehindNext == IInv /\ QTypes /\ Queue /\ LeftBehind /\ [Next]_vars => LeftBehind'
<1> SUFFICES ASSUME IInv, QTypes, Queue, LeftBehind, [Next]_vars, ~overlap', ~raced'
             PROVE  LeftBehind'
  BY DEF LeftBehind
<1>1. ~raced /\ ~overlap
  BY History
<1>2. Alone
  BY <1>1 DEF Queue
<1>3. CASE UNCHANGED vars \/ Refuse \/ NoChain
  BY <1>1, <1>3, LeftBehindKeeps DEF Refuse, NoChain, vars
<1>4. CASE \E p \in ReqPages, boot \in BOOLEAN : Submit(p, boot)
  <2>1. UNCHANGED <<ack, handler, jobs, usedIdx, isr>>
    BY <1>4 DEF Submit, device
  <2> QED
    BY <1>1, <2>1, LeftBehindKeeps
<1>5. CASE Post \/ PendingTest \/ PendingElement \/ PendingFree \/ CheckStatus
  BY <1>1, <1>5, LeftBehindKeeps, ZenonT(30)
  DEF Post, PendingTest, PendingElement, PendingFree, CheckStatus, driver, device
<1>6. CASE PendingBump
  <2>1. op.at = "bump" /\ handler = "off" /\ op.ack = ack /\ ack # usedIdx
    BY <1>2, <1>6 DEF PendingBump, Runs, Alone
  <2>2. ack' = Inc(ack) /\ UNCHANGED <<jobs, usedIdx, isr, handler>>
    BY <1>6, <2>1 DEF PendingBump, AckSeen, device
  <2> QED
    BY <1>1, <2>1, <2>2, LeftBehindKeeps
<1>7. CASE HandlerPending
  BY <1>1, <1>7, LeftBehindKeeps, SMTT(20) DEF HandlerPending, device
<1>8. CASE Claim \/ ReadIsr \/ Complete
  BY <1>1, <1>8, LeftBehindKeeps DEF Claim, ReadIsr, Complete, driver, device
<1>9. CASE HandlerDrained
  <2>1. ack = usedIdx /\ UNCHANGED <<jobs, ack, usedIdx, isr>>
    BY <1>9 DEF HandlerDrained, driver, device
  <2>2. Between(usedIdx, ack)' = Between(usedIdx, ack)
    BY <2>1 DEF Between
  <2> QED
    BY <1>1, <2>1, <2>2 DEF LeftBehind
<1>10. CASE AckIsr
  <2>1. handler = "ack" /\ handler' = "complete" /\ UNCHANGED <<jobs, ack, usedIdx>>
    BY <1>10 DEF AckIsr, driver
  <2>2. Between(usedIdx, ack)' = Between(usedIdx, ack)
    BY <2>1 DEF Between
  <2>3. Between(usedIdx, ack) <= 1
    BY <1>1, <2>1, BetweenType DEF LeftBehind
  <2> QED
    BY <1>1, <2>1, <2>2, <2>3, SMTT(20) DEF LeftBehind
<1>11. CASE Fetch
  <2>1. jobs' = jobs \cup {[head |-> Head(posted), answered |-> FALSE]}
        /\ UNCHANGED <<ack, usedIdx, isr, handler>> /\ posted # <<>>
    BY <1>11 DEF Fetch, driver
  <2>2. Between(usedIdx, ack)' = Between(usedIdx, ack)
    BY <2>1, SMTT(20) DEF Between
  <2>3. handler # "ack"
    BY <1>2, <2>1 DEF IInv, OneRequest, Held, Alone
  <2>4. \A j, k \in jobs' : j.answered /\ k.answered => j = k
    <3>1. \A j \in jobs' : j.answered => j \in jobs
      BY <2>1
    <3> QED
      BY <1>1, <3>1 DEF LeftBehind
  <2> QED
    BY <1>1, <2>1, <2>2, <2>3, <2>4, SMTT(20) DEF LeftBehind
<1>12. ASSUME NEW j \in Jobs, Answer(j) PROVE LeftBehind'
  <2>1. j \in jobs /\ ~j.answered /\ jobs = {j}
        /\ jobs' = (jobs \ {j}) \cup {[j EXCEPT !.answered = TRUE]}
        /\ UNCHANGED <<ack, usedIdx, isr, handler>>
    BY <1>1, <1>12 DEF Answer, driver
  <2>2. Between(usedIdx, ack)' = Between(usedIdx, ack)
    BY <2>1 DEF Between
  <2>3. handler # "ack"
    BY <1>2, <2>1 DEF IInv, OneRequest, Held, Alone
  <2>4. jobs' = {[j EXCEPT !.answered = TRUE]}
    BY <2>1
  <2>5. \A f, g \in jobs' : f = g
    BY <2>4, Zenon
  <2> QED
    BY <1>1, <2>1, <2>2, <2>3, <2>5 DEF LeftBehind
<1>13. ASSUME NEW j \in Jobs, Publish(j) PROVE LeftBehind'
  BY <1>1, <1>13, LeftBehindPublish
<1> QED
  BY <1>3, <1>4, <1>5, <1>6, <1>7, <1>8, <1>9, <1>10, <1>11, <1>12, <1>13, ZenonT(30)
  DEF Next, OpStep, HandlerStep

(* Without one chain, a ring of six descriptors still has another.         *)
LEMMA RoomForOne ==
  ASSUME VIRTIO_RING_SIZE >= 6, free \subseteq D, NEW x, NEW y, NEW z, D \ free \subseteq {x, y, z}
  PROVE  ~(Cardinality(free) < 3)
<1>1. IsFiniteSet(D) /\ Cardinality(D) = VIRTIO_RING_SIZE /\ VIRTIO_RING_SIZE \in Nat
  BY QueueAssumption, FS_Interval DEF D
<1>2. IsFiniteSet({x}) /\ Cardinality({x}) = 1
  BY FS_Singleton
<1>3. IsFiniteSet({x} \cup {y}) /\ Cardinality({x} \cup {y}) \in {1, 2}
  BY <1>2, FS_AddElement
<1>4. PICK T : T = ({x} \cup {y}) \cup {z}
  BY Zenon
<1>5. IsFiniteSet(T) /\ Cardinality(T) \in {1, 2, 3}
  BY <1>3, <1>4, FS_AddElement
<1>6. Cardinality(D \cap T) <= Cardinality(T) /\ IsFiniteSet(D \cap T)
  BY <1>5, FS_Intersection
<1>7. Cardinality(D \cap T) \in Nat
  BY <1>6, FS_CardinalityType
<1>8. Cardinality(D \ T) = Cardinality(D) - Cardinality(D \cap T) /\ IsFiniteSet(D \ T)
  BY <1>1, FS_Difference, Zenon
<1>9. IsFiniteSet(free) /\ D \ T \subseteq free
  BY <1>1, <1>4, FS_Subset
<1>10. Cardinality(D \ T) <= Cardinality(free)
  BY <1>9, FS_Subset
<1>11. Cardinality(free) \in Nat
  BY <1>9, FS_CardinalityType
<1> QED
  BY <1>1, <1>5, <1>6, <1>7, <1>8, <1>10, <1>11

LEMMA NotWedged ==
  ASSUME VIRTIO_RING_SIZE >= 6, QTypes, Queue, LeftBehind PROVE WedgeNeedsRace
<1> SUFFICES ASSUME ~overlap, ~raced, op.at = "idle", handler = "off", posted = <<>>,
                    jobs = {}, ~isr
             PROVE  ~(Cardinality(free) < 3)
  BY DEF WedgeNeedsRace, NeverWedged
<1>1. Sound(next, free, {}, Busy) /\ free \subseteq D
  BY Zenon DEF Queue, Alone, QTypes
<1>2. Busy = Window(usedRing, ack, usedIdx)
  BY DEF Busy, Range, Heads, Freeing
<1>3. Between(usedIdx, ack) \in {0, 1}
  BY BetweenType DEF LeftBehind
<1>4. PICK h : Busy \subseteq {h}
  <2>1. \A i \in 0 .. Between(usedIdx, ack) - 1 : i = 0
    BY <1>3
  <2>2. Busy \subseteq {At(usedRing, ack, 0)}
    BY <1>2, <2>1, Zenon DEF Window
  <2> QED
    BY <2>2
<1>5. D \ free \subseteq {h, next[h], next[next[h]]}
  BY <1>1, <1>4 DEF Sound, Three
<1> QED
  BY <1>1, <1>5, RoomForOne, Zenon

(* A queue with room for two requests gets stuck only after the handler    *)
(* ran inside a block_op, on a device that publishes each answer before it *)
(* gives the next: descriptors that nobody frees, with no interrupt left   *)
(* to make pending run, are one chain at most.                             *)
THEOREM OnlyRacesWedge ==
  ASSUME VIRTIO_RING_SIZE >= 6 PROVE Spec => []WedgeNeedsRace
<1>1. Init => IInv /\ QTypes /\ Queue /\ LeftBehind
  BY InitIInv, QTypesInit, QueueInit, LeftBehindInit
<1>2. IInv /\ QTypes /\ Queue /\ LeftBehind /\ [Next]_vars
        => IInv' /\ QTypes' /\ Queue' /\ LeftBehind'
  BY NextIInv, QTypesNext, QueueNext, LeftBehindNext
<1>3. IInv /\ QTypes /\ Queue /\ LeftBehind => WedgeNeedsRace
  BY NotWedged
<1> QED
  BY <1>1, <1>2, <1>3, PTL DEF Spec
=============================================================================

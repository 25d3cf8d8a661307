--------------------------- MODULE BlockTransfer ---------------------------
(***************************************************************************)
(* What block_op promises: a transfer looks synchronous.  The request in   *)
(* the caller's page is answered once, between the call and its return,    *)
(* and no page is written at any other time.  No rings, no descriptors, no *)
(* interrupts.                                                             *)
(***************************************************************************)
CONSTANT ReqPages

VARIABLES
  status,         \* of the request in each page
  phase, page     \* of the caller: "idle" or "waiting", and for which page

Init ==
  /\ status = [p \in ReqPages |-> "ANSWERED"]
  /\ phase = "idle" /\ page \in ReqPages

Call(p) ==
  /\ phase = "idle" /\ phase' = "waiting"
  /\ page' = p
  /\ status' = [status EXCEPT ![p] = "PENDING"]

Serve ==
  /\ phase = "waiting" /\ status[page] = "PENDING"
  /\ status' = [status EXCEPT ![page] = "ANSWERED"]
  /\ UNCHANGED <<phase, page>>

Return ==
  /\ phase = "waiting" /\ status[page] = "ANSWERED"
  /\ phase' = "idle" /\ page' \in ReqPages
  /\ UNCHANGED status

Next == (\E p \in ReqPages : Call(p)) \/ Serve \/ Return

Spec == Init /\ [][Next]_<<status, phase, page>>
=============================================================================

----------------------------- MODULE MCConsole -----------------------------
(* Two bytes for the line that S-mode code prints. *)
EXTENDS Console

MCKernelLine == <<"k1", "k2">>
=============================================================================

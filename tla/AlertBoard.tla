----------------------------- MODULE AlertBoard -----------------------------
(***************************************************************************)
(* What the unified alerting component promises its readers (the console,  *)
(* the health, certificate, pipeline and GitHub publishers): one slot per  *)
(* fingerprint, which is clear or shows one of the active statuses.        *)
(*                                                                         *)
(*   - a fault raises only a fingerprint that is clear, and a fault that   *)
(*     goes on changes nothing on the board;                               *)
(*   - only an operator acknowledges or suppresses;                        *)
(*   - what is acknowledged or suppressed does not become open again       *)
(*     except when a suppression has run out;                              *)
(*   - clearing a fingerprint really clears it.                            *)
(***************************************************************************)
CONSTANT Fingerprints

VARIABLE board

Showing == {"CLEAR", "OPEN", "ACKNOWLEDGED", "SUPPRESSED"}

Init == board = [f \in Fingerprints |-> "CLEAR"]

Show(F, status) == board' = [f \in Fingerprints |-> IF f \in F THEN status ELSE board[f]]

Raise(f) ==
  /\ board[f] = "CLEAR"
  /\ Show({f}, "OPEN") \/ Show({f}, "SUPPRESSED")

Acknowledge(f) ==
  /\ board[f] # "CLEAR"
  /\ Show({f}, "ACKNOWLEDGED")

Suppress(f) == Show({f}, "SUPPRESSED")

Unsuppress(F) ==
  /\ \A f \in F : board[f] = "SUPPRESSED"
  /\ Show(F, "OPEN")

Clear(F) == Show(F, "CLEAR")

Next ==
  \/ \E f \in Fingerprints : Raise(f) \/ Acknowledge(f) \/ Suppress(f)
  \/ \E F \in SUBSET Fingerprints : Unsuppress(F) \/ Clear(F)

Spec == Init /\ [][Next]_board
=============================================================================

--------------------------- MODULE MCAlertSessions ---------------------------
(***************************************************************************)
(* Instances of EscalationJobs and AlertSessions in one run: the two share *)
(* no variable, so a behaviour is one of the first or of the second while  *)
(* the other does not start.                                               *)
(*                                                                         *)
(* EscalationJobs: two jobs that escalate beside a plain dispatch, and one *)
(* row more than the jobs that escalate can insert.                        *)
(* AlertSessions: two sessions on one fault, and three rows it may get.    *)
(***************************************************************************)
EXTENDS EscalationJobs, AlertSessions, TLC

CONSTANTS x1, x2, x3, p1, p2, dispatch

MCRows     == {x1, x2, x3}
MCRequests == {p1, p2}
MCJobs     == MCRequests \cup {dispatch}

MCSymmetry == Permutations(MCRows) \cup Permutations(MCRequests)

BothInit == EscInit /\ SessInit

BothNext ==
  \/ SessInit /\ EscNext  /\ UNCHANGED sessVars
  \/ EscInit  /\ SessNext /\ UNCHANGED escVars

BothSpec == BothInit /\ [][BothNext]_<<escVars, sessVars>>
=============================================================================

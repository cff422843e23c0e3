----------------------------- MODULE MCJobQueue -----------------------------
(***************************************************************************)
(* An instance of JobQueue for TLC, for the families of all kinds of job.  *)
(***************************************************************************)
EXTENDS JobKinds

CONSTANTS e1, e2, w1, w2
=============================================================================

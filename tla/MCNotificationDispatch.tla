----------------------- MODULE MCNotificationDispatch -----------------------
(***************************************************************************)
(* Instances of NotificationDispatch for TLC.                              *)
(***************************************************************************)
EXTENDS NotificationDispatch

CONSTANTS r1, r2, w1, w2, a1

OneAlert == [r \in Rows |-> a1]

(* A fault and its end.                                                    *)
FaultAndRecovery == [r \in Rows |-> IF r = r1 THEN "initial" ELSE "recovery"]
=============================================================================

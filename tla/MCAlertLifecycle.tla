-------------------------- MODULE MCAlertLifecycle --------------------------
(***************************************************************************)
(* Instances of AlertLifecycle for TLC: one fault, one destination, and    *)
(* the policies that ensure_defaults() creates or one that repeats.        *)
(***************************************************************************)
EXTENDS AlertLifecycle

CONSTANTS f1, teams, prdCritical, repeating, host

Sends(initial, escalation, recovery) ==
  [t \in NotificationTypes |->
     CASE t = "initial" -> initial
       [] t = "escalation" -> escalation
       [] t = "recovery" -> recovery
       [] OTHER -> {}]

(* policy-prd-critical: first, then after its delay, and at the recovery.  *)
PrdPolicy ==
  [sends |-> Sends({teams}, {teams}, {teams}), delay |-> [d \in Destinations |-> 1],
   escalateAfter |-> 1, repeats |-> FALSE, recovers |-> TRUE]

(* policy-default, which has no escalation and no recovery step, with a    *)
(* repeat period.                                                          *)
RepeatingPolicy ==
  [sends |-> Sends({teams}, {}, {}), delay |-> [d \in Destinations |-> 0],
   escalateAfter |-> 0, repeats |-> TRUE, recovers |-> TRUE]

MCPolicySpec ==
  [p \in Policies |-> IF p = prdCritical THEN PrdPolicy ELSE RepeatingPolicy]

RuleFor(policy) == [policy |-> policy, reached |-> Severities, minimum |-> 1]

PrdRules       == {RuleFor(prdCritical)}
OwnPolicyRules == {RuleFor(NoPolicy)}

OneSource == [f \in Fingerprints |-> host]

NoRoutes == [k \in Fingerprints \X Severities |-> {}]
NoRoutePolicies == [k \in Fingerprints \X Severities |-> NoPolicy]

(* A route for one severity only: an alert of another severity has neither *)
(* a destination nor a policy until it is reopened with this one.          *)
CriticalRoutes ==
  [k \in Fingerprints \X Severities |-> IF k[2] = "CRITICAL" THEN {teams} ELSE {}]
CriticalRoutePolicies ==
  [k \in Fingerprints \X Severities |-> IF k[2] = "CRITICAL" THEN repeating ELSE NoPolicy]

NoGroups == {}
AllTogether == {Fingerprints}
=============================================================================

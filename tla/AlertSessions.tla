---------------------------- MODULE AlertSessions ----------------------------
(***************************************************************************)
(* Requests and jobs that raise, resolve, acknowledge and suppress one     *)
(* fault in transactions that overlap, each between its reads and its      *)
(* commit.                                                                 *)
(*                                                                         *)
(* AlertLifecycle runs each handler as one step.  Here the rows of one     *)
(* fingerprint are followed through the sessions: a session keeps what it  *)
(* read, a flush takes a row lock that lasts until the commit, and a       *)
(* commit writes the columns the handler set.  Of the notifications only   *)
(* the numbers of live rows matter, for one destination; escalations and   *)
(* repeats, which no request queues, are the subject of EscalationJobs.    *)
(*                                                                         *)
(* An occurrence of an active alert writes no status and queues nothing:   *)
(* it is no step here.  last_seen_at is left out, so any row may be the    *)
(* newest one.                                                             *)
(***************************************************************************)
EXTENDS Integers, FiniteSets

CONSTANTS
  Rows,        \* ids of alert rows of the fingerprint
  Requests,    \* sessions: requests, and jobs of the publishing components
  NoRowId,     \* no row
  MaxRaces     \* bound: insertions beside another row

ASSUME RequestsAssumption ==
  /\ IsFiniteSet(Rows) /\ IsFiniteSet(Requests)
  /\ NoRowId \notin Rows
  /\ MaxRaces \in Nat

LiveFaults == {"OPEN", "ACKNOWLEDGED", "SUPPRESSED"}

VARIABLES
  status,    \* of each row; "NONE": no such row
  told,      \* live INITIAL rows of each alert for the destination
  cleared,   \* live RECOVERY rows of each alert for the destination
  req,       \* the open sessions
  races      \* ghost: rows inserted beside a step of another session

sessVars == <<status, told, cleared, req, races>>

(* op: what the session does; step: how far it is.  `beside` is a ghost:   *)
(* another session has made a row active since this one looked.            *)
RequestRecord ==
  [op     : {"none", "publish", "resolve", "acknowledge", "suppress", "expire"},
   step   : {"idle", "looked", "found", "flushed"},
   row    : Rows \cup {NoRowId},
   fresh  : BOOLEAN,     \* the row is inserted
   silent : BOOLEAN,     \* publish: suppressed; otherwise: the status is there already
   adds   : BOOLEAN,     \* a notification is queued
   beside : BOOLEAN]

NoRequest ==
  [op |-> "none", step |-> "idle", row |-> NoRowId, fresh |-> FALSE, silent |-> FALSE,
   adds |-> FALSE, beside |-> FALSE]

SessInit ==
  /\ status = [a \in Rows |-> "NONE"]
  /\ told = [a \in Rows |-> 0]
  /\ cleared = [a \in Rows |-> 0]
  /\ req = [r \in Requests |-> NoRequest]
  /\ races = 0

-----------------------------------------------------------------------------
Known == {a \in Rows : status[a] # "NONE"}

ActiveFaults == {a \in Rows : status[a] \in LiveFaults}

(* Mutant of Unlocked: the flush comes after the look for a live row.      *)
UnlockedAlways(r, a) == r \in Requests /\ a \in Rows

(* No other session has flushed a change of the row.                       *)
Unlocked(r, a) ==
  \A q \in Requests \ {r} : ~(req[q].step = "flushed" /\ req[q].row = a)

(* The open sessions after `r` has made a row active, or not.              *)
Passed(r, revives) ==
  [q \in Requests |->
     IF q = r THEN NoRequest
     ELSE [req[q] EXCEPT !.beside = @ \/ (revives /\ req[q].op = "publish")]]

-----------------------------------------------------------------------------
(* publish() of a fault.                                                   *)

(* active_by_fingerprint() finds none.                                     *)
LookActive(r) ==
  /\ req[r].op = "none" /\ ActiveFaults = {}
  /\ req' = [req EXCEPT ![r].op = "publish", ![r].step = "looked"]
  /\ UNCHANGED <<status, told, cleared, races>>

(* latest_by_fingerprint(), a query of its own: the newest row is reopened *)
(* when it is resolved; otherwise a row is inserted.                       *)
Reopenable == {a \in Rows : status[a] = "RESOLVED"}

(* Mutant of MayInsert: the id is free, and no row is looked for.          *)
MayInsertAlways(a) == status[a] = "NONE"

MayInsert(a) == status[a] = "NONE" /\ (Known = {} \/ ActiveFaults # {})

(* A row that no other session has chosen for its insertion.               *)
Unclaimed(a) == \A q \in Requests : ~(req[q].fresh /\ req[q].row = a)

LookLatest(r) ==
  /\ req[r].op = "publish" /\ req[r].step = "looked"
  /\ \E a \in Rows :
       \/ /\ a \in Reopenable
          /\ req' = [req EXCEPT ![r].step = "found", ![r].row = a]
       \/ /\ MayInsert(a) /\ Unclaimed(a)
          /\ req' = [req EXCEPT ![r].step = "found", ![r].row = a, ![r].fresh = TRUE]
  /\ UNCHANGED <<status, told, cleared, races>>

(* The flush writes the row and waits for its lock; only then does         *)
(* _queue_deliveries() look for a live row.  Nothing is queued under a     *)
(* suppression, a window, a rule that does not allow it, or without route. *)
FlushFault(r) ==
  /\ req[r].op = "publish" /\ req[r].step = "found"
  /\ Unlocked(r, req[r].row)
  /\ \E silent, notifies \in BOOLEAN :
       req' = [req EXCEPT
                 ![r].step = "flushed", ![r].silent = silent,
                 ![r].adds = ~silent /\ notifies /\ told[req[r].row] = 0]
  /\ UNCHANGED <<status, told, cleared, races>>

(* The commit.  A new notification that failed at once is not live.        *)
CommitFault(r) ==
  LET a == req[r].row
      raced == req[r].fresh /\ req[r].beside
  IN  /\ req[r].op = "publish" /\ req[r].step = "flushed"
      /\ raced => races < MaxRaces
      /\ status' = [status EXCEPT ![a] = IF req[r].silent THEN "SUPPRESSED" ELSE "OPEN"]
      /\ \/ told' = told
         \/ req[r].adds /\ told' = [told EXCEPT ![a] = @ + 1]
      /\ races' = IF raced THEN races + 1 ELSE races
      /\ req' = Passed(r, status[a] \notin LiveFaults)
      /\ UNCHANGED cleared

-----------------------------------------------------------------------------
(* resolve_alert(), by an operator or by publish() of a recovery.          *)

ReadResolve(r) ==
  /\ req[r].op = "none"
  /\ \E a \in ActiveFaults :
       req' = [req EXCEPT ![r].op = "resolve", ![r].step = "looked", ![r].row = a]
  /\ UNCHANGED <<status, told, cleared, races>>

(* Mutant of QueueRecovery: it does not look for a live row.               *)
QueueRecoveryBlindly(r) ==
  /\ req[r].op = "resolve" /\ req[r].step = "looked"
  /\ \E notifies \in BOOLEAN :
       req' = [req EXCEPT ![r].step = "found", ![r].adds = notifies]
  /\ UNCHANGED <<status, told, cleared, races>>

(* _queue_deliveries() looks for a live row before anything is flushed.    *)
QueueRecovery(r) ==
  /\ req[r].op = "resolve" /\ req[r].step = "looked"
  /\ \E notifies \in BOOLEAN :
       req' = [req EXCEPT ![r].step = "found",
                          ![r].adds = notifies /\ cleared[req[r].row] = 0]
  /\ UNCHANGED <<status, told, cleared, races>>

FlushResolve(r) ==
  /\ req[r].op = "resolve" /\ req[r].step = "found"
  /\ Unlocked(r, req[r].row)
  /\ req' = [req EXCEPT ![r].step = "flushed"]
  /\ UNCHANGED <<status, told, cleared, races>>

CommitResolve(r) ==
  LET a == req[r].row
  IN  /\ req[r].op = "resolve" /\ req[r].step = "flushed"
      /\ status' = [status EXCEPT ![a] = "RESOLVED"]
      /\ \/ cleared' = cleared
         \/ req[r].adds /\ cleared' = [cleared EXCEPT ![a] = @ + 1]
      /\ req' = Passed(r, FALSE)
      /\ UNCHANGED <<told, races>>

-----------------------------------------------------------------------------
(* acknowledge_alert() refuses a resolved alert, suppress_alert() none;    *)
(* run_suppression_expiry() takes the suppressed ones.  Their flush is the *)
(* commit's.                                                               *)
ReadStatus(r, op, from, new) ==
  /\ req[r].op = "none"
  /\ \E a \in from :
       req' = [req EXCEPT ![r].op = op, ![r].step = "looked", ![r].row = a,
                          ![r].silent = status[a] = new]
  /\ UNCHANGED <<status, told, cleared, races>>

ReadAcknowledge(r) == ReadStatus(r, "acknowledge", ActiveFaults, "ACKNOWLEDGED")
ReadSuppress(r)    == ReadStatus(r, "suppress", Known, "SUPPRESSED")
ReadExpiry(r) ==
  ReadStatus(r, "expire", {a \in Rows : status[a] = "SUPPRESSED"}, "OPEN")

(* Only a column that differs from what was read is written.               *)
CommitStatus(r, op, new) ==
  LET a == req[r].row
  IN  /\ req[r].op = op /\ req[r].step = "looked" /\ Unlocked(r, a)
      /\ status' = IF req[r].silent THEN status ELSE [status EXCEPT ![a] = new]
      /\ req' = Passed(r, ~req[r].silent /\ status[a] \notin LiveFaults)
      /\ UNCHANGED <<told, cleared, races>>

CommitAcknowledge(r) == CommitStatus(r, "acknowledge", "ACKNOWLEDGED")
CommitSuppress(r)    == CommitStatus(r, "suppress", "SUPPRESSED")
CommitExpiry(r)      == CommitStatus(r, "expire", "OPEN")

-----------------------------------------------------------------------------
(* An exception rolls the session back.                                    *)
AbortRequest(r) ==
  /\ req[r].op # "none"
  /\ req' = [req EXCEPT ![r] = NoRequest]
  /\ UNCHANGED <<status, told, cleared, races>>

(* A dispatch gives a row up, and it is live no more.  (That another one,  *)
(* which read it before, can bring it back is left to                      *)
(* NotificationDispatch.)                                                  *)
GiveUpInitial(a) ==
  /\ told[a] > 0
  /\ told' = [told EXCEPT ![a] = @ - 1]
  /\ UNCHANGED <<status, cleared, req, races>>

GiveUpRecovery(a) ==
  /\ cleared[a] > 0
  /\ cleared' = [cleared EXCEPT ![a] = @ - 1]
  /\ UNCHANGED <<status, told, req, races>>

SessNext ==
  \/ \E r \in Requests :
       \/ LookActive(r) \/ LookLatest(r) \/ FlushFault(r) \/ CommitFault(r)
       \/ ReadResolve(r) \/ QueueRecovery(r) \/ FlushResolve(r) \/ CommitResolve(r)
       \/ ReadAcknowledge(r) \/ CommitAcknowledge(r)
       \/ ReadSuppress(r) \/ CommitSuppress(r)
       \/ ReadExpiry(r) \/ CommitExpiry(r)
       \/ AbortRequest(r)
  \/ \E a \in Rows : GiveUpInitial(a) \/ GiveUpRecovery(a)

SessSpec == SessInit /\ [][SessNext]_sessVars

-----------------------------------------------------------------------------
(* The variables have their types.                                         *)
SessTypeOK ==
  /\ status \in [Rows -> {"NONE", "RESOLVED"} \cup LiveFaults]
  /\ told \in [Rows -> Nat]
  /\ cleared \in [Rows -> Nat]
  /\ req \in [Requests -> RequestRecord]
  /\ races \in 0..MaxRaces

(* However requests and jobs overlap, a destination is told of a fault by  *)
(* at most one row: two publishers that reopen one row both look for a     *)
(* live row only after the flush, so the second one looks after the first  *)
(* has committed.                                                          *)
ToldOnceOfFault == \A a \in Rows : told[a] <= 1

(* Of its end it may be told by as many rows as there are sessions, for    *)
(* resolve_alert() looks before it flushes, but by no more.                *)
ClearedPerSession == \A a \in Rows : cleared[a] <= Cardinality(Requests)

(* The table has no unique key on the fingerprint.  A second row of a      *)
(* fault, and with it a second active alert, needs a publisher whose two   *)
(* queries and insertion had another session make a row active between     *)
(* them; publishers that have the fault to themselves add none.            *)
SecondRowIsRaced == Cardinality(Known) <= 1 + races
=============================================================================

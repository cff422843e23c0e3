--------------------- MODULE NotificationDispatchProofs ---------------------
(***************************************************************************)
(* Proofs about NotificationDispatch, for any number of rows, dispatchers  *)
(* and mishaps: the types, that a SENT row was accepted by its             *)
(* destination, that mixed commits keep the retry budget, that a settled   *)
(* row nobody has read stays settled, that repeated messages are explained *)
(* by mishaps and by readings of a row another dispatcher holds, and that  *)
(* the dispatchers together implement DeliveryLedger.                      *)
(*                                                                         *)
(* Inv, the inductive invariant, relates what a dispatcher read, its copy  *)
(* and the table.  Its part OnceRead says how far the table can have moved *)
(* on behind a dispatcher's back: a row that was read is no longer absent, *)
(* and a row that was read in RETRY is never PENDING again.  Without it a  *)
(* commit that writes only the attempt counter could leave a PENDING row   *)
(* that was tried.  Counted adds how many messages a row has had and may   *)
(* still get from the readings that are open.                              *)
(***************************************************************************)
EXTENDS NotificationDispatch, FiniteSetTheorems, TLAPS

(* The budget of MixedRowsKeepBudget, for one row.                         *)
Budgeted(x) ==
  /\ x.attempt <= MaxRetries + 1
  /\ x.status = "RETRY" => x.attempt \in 1..MaxRetries
  /\ x.status = "PENDING" => x.attempt = 0

(* What a dispatcher reads is dispatchable and within the budget.          *)
IsReading(x) == x.status \in PendingStatuses /\ Budgeted(x)

(* y is what deliver() makes of the reading x; m messages were accepted.   *)
IsAttempt(y, x, m) ==
  /\ y.attempt = x.attempt + 1
  /\ y.status \in {"SENT", "RETRY", "FAILED", "SKIPPED"}
  /\ y.status = "RETRY" => y.attempt <= MaxRetries
  /\ y.status = "SENT" => m > 0

(* The session of dispatcher w as far as row r is concerned.               *)
SessionOK(w, r) ==
  /\ r \in batch[w] => loaded[w][r] # NoRow /\ copy[w][r] = loaded[w][r]
  /\ sending[w] = r => r \in batch[w]
  /\ loaded[w][r] # NoRow => IsReading(loaded[w][r])
  /\ loaded[w][r] # NoRow /\ r \notin batch[w] =>
       IsAttempt(copy[w][r], loaded[w][r], messages[r])

OnceRead(w, r) ==
  /\ row[r].status = "NONE" => loaded[w][r] = NoRow
  /\ row[r].status = "PENDING" => loaded[w][r].status # "RETRY"

Inv ==
  /\ TypeOK
  /\ SentWasAccepted
  /\ MixedRowsKeepBudget
  /\ \A w \in Dispatchers, r \in Rows : SessionOK(w, r) /\ OnceRead(w, r)

-----------------------------------------------------------------------------
(* Lemmas about deliver() and the commit.                                  *)

(* deliver() on a reading is an attempt, and it says SENT only when the    *)
(* provider accepted the message.                                          *)
LEMMA DeliverIsAttempt ==
  ASSUME NEW x \in Row, IsReading(x), NEW type, NEW s, NEW on \in BOOLEAN, NEW outcome,
         NEW m \in Nat, CallsProvider(s, type, on) /\ outcome = "accepted" => m > 0
  PROVE  /\ Deliver(x, type, s, on, outcome) \in Row
         /\ IsAttempt(Deliver(x, type, s, on, outcome), x, m)
<1>. DEFINE n == x.attempt + 1
            as(result) == [status |-> result, attempt |-> n, waiting |-> result = "RETRY"]
            y == Deliver(x, type, s, on, outcome)
<1>1. n \in Nat
  BY DEF Row
<1>2. PICK result \in {"FAILED", "SKIPPED", "SENT", "RETRY"} :
        /\ y = as(result)
        /\ result = "RETRY" => n <= MaxRetries
        /\ result = "SENT" => CallsProvider(s, type, on) /\ outcome = "accepted"
  BY DEF Deliver, CallsProvider, MayRetry
<1>. DEFINE w == result = "RETRY"
<1>3. w \in BOOLEAN /\ y = [status |-> result, attempt |-> n, waiting |-> w]
  BY <1>2
<1>. HIDE DEF w, y
<1>4. y \in Row
  BY <1>1, <1>3 DEF Row, DeliveryStatuses
<1>5. y.status = result /\ y.attempt = n
  BY <1>3
<1>6. IsAttempt(y, x, m)
  BY <1>2, <1>5 DEF IsAttempt
<1>. QED BY <1>4, <1>6 DEF y

(* A commit of an attempt over whatever the table holds now.               *)
LEMMA WrittenRow ==
  ASSUME NEW now \in Row, NEW x \in Row, NEW y \in Row, NEW m \in Nat,
         Budgeted(now), now.status = "SENT" => m > 0,
         now.status # "NONE", now.status = "PENDING" => x.status # "RETRY",
         IsReading(x), IsAttempt(y, x, m)
  PROVE  LET z == Written(now, x, y)
         IN  /\ z \in Row /\ Budgeted(z)
             /\ z.status = "SENT" => m > 0
             /\ z.status # "NONE" /\ z.status # "PENDING"
<1>. DEFINE z == Written(now, x, y)
<1>1. z.attempt = x.attempt + 1 /\ z.attempt = y.attempt
  BY DEF Written, IsAttempt, Row
<1>2. z.status = y.status \/ (z.status = now.status /\ y.status = x.status)
  BY DEF Written
<1>3. y.status = x.status => x.status = "RETRY"
  BY DEF IsReading, IsAttempt, PendingStatuses
<1>4. x.attempt \in 0..MaxRetries
  BY MaxRetriesAssumption DEF IsReading, Budgeted, PendingStatuses, Row
<1>5. z \in Row
  BY DEF Written, Row
<1>6. Budgeted(z)
  BY <1>1, <1>2, <1>3, <1>4, MaxRetriesAssumption DEF IsAttempt, Budgeted
<1>7. /\ z.status = "SENT" => m > 0
      /\ z.status # "NONE" /\ z.status # "PENDING"
  BY <1>2, <1>3 DEF IsAttempt
<1>. QED BY <1>5, <1>6, <1>7

(* The two rows the module names are rows, and differ.                     *)
LEMMA NoRowIsRow == NoRow \in Row /\ NewRow \in Row /\ NoRow.status = "NONE" /\ NewRow # NoRow
BY DEF NoRow, NewRow, Row, DeliveryStatuses

-----------------------------------------------------------------------------
(* Every action preserves Inv.                                             *)

(* A new table satisfies the invariant.                                    *)
LEMMA InitInv == Init => Inv
<1>. SUFFICES ASSUME Init PROVE Inv
  OBVIOUS
<1>1. \A w \in Dispatchers, r \in Rows :
        loaded[w][r] = NoRow /\ batch[w] = {} /\ sending[w] # r /\ row[r] = NoRow
  BY ConfigurationAssumption DEF Init, NothingRead
<1>2. TypeOK
  BY NoRowIsRow, ConfigurationAssumption DEF Init, TypeOK, NothingRead, AlertStatuses, ActiveStatuses
<1>3. SentWasAccepted /\ MixedRowsKeepBudget
  BY MaxRetriesAssumption DEF Init, NothingRead, NoRow, SentWasAccepted, MixedRowsKeepBudget
<1>4. ASSUME NEW w \in Dispatchers, NEW r \in Rows PROVE SessionOK(w, r) /\ OnceRead(w, r)
  BY <1>1, <1>4 DEF SessionOK, OnceRead, NoRow
<1>. QED BY <1>2, <1>3, <1>4 DEF Inv

(* The query: what is read is what the table holds.                        *)
LEMMA BeginStep ==
  ASSUME Inv, NEW w \in Dispatchers, Begin(w)
  PROVE  Inv'
<1>1. PICK B \in SUBSET Due :
        /\ batch' = [batch EXCEPT ![w] = B]
        /\ loaded' = [loaded EXCEPT ![w] = [r \in Rows |-> IF r \in B THEN row[r] ELSE NoRow]]
        /\ copy' = [copy EXCEPT ![w] = loaded'[w]]
        /\ shared' = [r \in Rows |-> IF r \in B /\ Held(r) THEN shared[r] + 1 ELSE shared[r]]
  BY DEF Begin
<1>2. UNCHANGED <<row, status, enabled, messages, mishaps, sending>>
  BY DEF Begin, table
<1>3. TypeOK'
  BY <1>1, <1>2, NoRowIsRow DEF Inv, TypeOK, Due
<1>4. SentWasAccepted' /\ MixedRowsKeepBudget'
  BY <1>2 DEF Inv, SentWasAccepted, MixedRowsKeepBudget
<1>5. ASSUME NEW v \in Dispatchers, NEW r \in Rows PROVE SessionOK(v, r)' /\ OnceRead(v, r)'
  <2>1. CASE v # w
    BY <1>1, <1>2, <2>1 DEF Inv, TypeOK, SessionOK, OnceRead
  <2>2. CASE v = w
    <3>1. loaded'[w][r] = (IF r \in B THEN row[r] ELSE NoRow) /\ copy'[w][r] = loaded'[w][r]
          /\ batch'[w] = B
      BY <1>1 DEF Inv, TypeOK
    <3>2. r \in B => row[r] # NoRow /\ IsReading(row[r])
      BY DEF Inv, MixedRowsKeepBudget, Due, IsDispatchable, IsReading, Budgeted, NoRow, PendingStatuses
    <3>3. sending[w] # r
      BY DEF Inv, SessionOK, Begin, IsOpen, NothingRead
    <3>4. SessionOK(w, r)'
      BY <1>2, <3>1, <3>2, <3>3 DEF SessionOK
    <3>5. OnceRead(w, r)'
      BY <1>2, <3>1, <3>2 DEF OnceRead, IsReading, PendingStatuses, NoRow
    <3>. QED BY <2>2, <3>4, <3>5
  <2>. QED BY <2>1, <2>2
<1>. QED BY <1>3, <1>4, <1>5 DEF Inv

(* A delivery attempt changes the dispatcher's copy of one row.            *)
LEMMA AttemptStep ==
  ASSUME Inv, NEW w \in Dispatchers, NEW r \in Rows, NEW y \in Row, r \in batch[w],
         copy' = [copy EXCEPT ![w][r] = y],
         batch' = [batch EXCEPT ![w] = @ \ {r}],
         sending' \in [Dispatchers -> Rows \cup {Nobody}],
         sending'[w] \notin Rows, \A v \in Dispatchers : v # w => sending'[v] = sending[v],
         UNCHANGED <<row, status, enabled, shared, loaded>>, mishaps' \in 0..MaxMishaps,
         messages' \in [Rows -> Nat], \A s \in Rows : messages'[s] >= messages[s],
         IsAttempt(y, loaded[w][r], messages'[r])
  PROVE  Inv'
<1>1. TypeOK'
  BY DEF Inv, TypeOK
<1>2. SentWasAccepted' /\ MixedRowsKeepBudget'
  BY DEF Inv, TypeOK, SentWasAccepted, MixedRowsKeepBudget
<1>3. ASSUME NEW v \in Dispatchers, NEW s \in Rows PROVE SessionOK(v, s)' /\ OnceRead(v, s)'
  <2>1. OnceRead(v, s)'
    BY DEF Inv, OnceRead
  <2>2. IsAttempt(copy[v][s], loaded[v][s], messages[s])
          => IsAttempt(copy[v][s], loaded[v][s], messages'[s])
    BY DEF Inv, TypeOK, IsAttempt
  <2>3. CASE v = w /\ s = r
    BY <2>1, <2>3 DEF Inv, TypeOK, SessionOK
  <2>4. CASE v # w \/ s # r
    <3>1. /\ copy'[v][s] = copy[v][s]
          /\ s \in batch'[v] <=> s \in batch[v]
          /\ sending'[v] = s => sending[v] = s
      BY <2>4 DEF Inv, TypeOK
    <3>. QED BY <2>1, <2>2, <3>1 DEF Inv, SessionOK
  <2>. QED BY <2>1, <2>3, <2>4
<1>. QED BY <1>1, <1>2, <1>3 DEF Inv

(* A delivery that deliver() gives up without a call.                      *)
LEMMA DropStep ==
  ASSUME Inv, NEW w \in Dispatchers, NEW r \in Rows, Drop(w, r)
  PROVE  Inv'
<1>1. r \in batch[w] /\ loaded[w][r] \in Row /\ IsReading(loaded[w][r])
  BY DEF Drop, IsNextOf, Inv, TypeOK, SessionOK
<1>2. (r \in enabled) \in BOOLEAN /\ messages[r] \in Nat
      /\ ~CallsProvider(status[AlertOf[r]], TypeOf[r], r \in enabled)
  BY DEF Drop, Calls, Inv, TypeOK
<1>3. Attempted(w, r, "accepted") \in Row
      /\ IsAttempt(Attempted(w, r, "accepted"), loaded[w][r], messages[r])
  BY <1>1, <1>2, DeliverIsAttempt DEF Attempted
<1>4. /\ copy' = [copy EXCEPT ![w][r] = Attempted(w, r, "accepted")]
      /\ batch' = [batch EXCEPT ![w] = @ \ {r}]
      /\ UNCHANGED <<row, status, enabled, messages, mishaps, shared, loaded, sending>>
      /\ sending[w] = Nobody
  BY DEF Drop, IsNextOf, table
<1>5. /\ sending' \in [Dispatchers -> Rows \cup {Nobody}] /\ sending'[w] \notin Rows
      /\ mishaps' \in 0..MaxMishaps
      /\ messages' \in [Rows -> Nat] /\ \A s \in Rows : messages'[s] >= messages[s]
  BY <1>4, ConfigurationAssumption DEF Inv, TypeOK
<1>. HIDE DEF Attempted
<1>. QED BY <1>1, <1>3, <1>4, <1>5, AttemptStep

(* A call to the provider begins; the row in the session is unchanged.     *)
LEMMA CallStep ==
  ASSUME Inv, NEW w \in Dispatchers, NEW r \in Rows, Call(w, r)
  PROVE  Inv'
<1>1. /\ sending' = [sending EXCEPT ![w] = r] /\ r \in batch[w]
      /\ UNCHANGED <<row, status, enabled, messages, mishaps, shared, batch, loaded, copy>>
  BY DEF Call, IsNextOf, table
<1>2. TypeOK'
  BY <1>1 DEF Inv, TypeOK
<1>3. \A v \in Dispatchers, s \in Rows : SessionOK(v, s)' /\ OnceRead(v, s)'
  BY <1>1 DEF Inv, TypeOK, SessionOK, OnceRead
<1>. QED BY <1>1, <1>2, <1>3 DEF Inv, SentWasAccepted, MixedRowsKeepBudget

(* A provider call ends: with an answer that says what happened, or too    *)
(* late.                                                                   *)
LEMMA ReturnStep ==
  ASSUME Inv, NEW w \in Dispatchers, NEW r \in Rows, NEW outcome, Return(w, r, outcome),
         UNCHANGED <<row, status, enabled, shared, loaded>>, mishaps' \in 0..MaxMishaps,
         \/ messages' = [messages EXCEPT ![r] = @ + 1]
         \/ outcome # "accepted" /\ messages' = messages
  PROVE  Inv'
<1>1. r \in batch[w] /\ loaded[w][r] \in Row /\ IsReading(loaded[w][r])
  BY DEF Return, Inv, TypeOK, SessionOK
<1>2. /\ messages' \in [Rows -> Nat] /\ \A s \in Rows : messages'[s] >= messages[s]
      /\ outcome = "accepted" => messages'[r] > 0
  <2>1. CASE messages' = [messages EXCEPT ![r] = @ + 1]
    <3>1. \A s \in Rows : messages'[s] = IF s = r THEN messages[s] + 1 ELSE messages[s]
      BY <2>1 DEF Inv, TypeOK
    <3>. QED BY <2>1, <3>1 DEF Inv, TypeOK
  <2>2. CASE outcome # "accepted" /\ messages' = messages
    BY <2>2 DEF Inv, TypeOK
  <2>. QED BY <2>1, <2>2
<1>. DEFINE y == Deliver(loaded[w][r], TypeOf[r], "OPEN", TRUE, outcome)
<1>3. y \in Row /\ IsAttempt(y, loaded[w][r], messages'[r])
  <2>1. TRUE \in BOOLEAN /\ messages'[r] \in Nat
        /\ (CallsProvider("OPEN", TypeOf[r], TRUE) /\ outcome = "accepted" => messages'[r] > 0)
    BY <1>2
  <2>. QED BY <1>1, <2>1, DeliverIsAttempt
<1>4. /\ copy' = [copy EXCEPT ![w][r] = y] /\ batch' = [batch EXCEPT ![w] = @ \ {r}]
      /\ sending' = [sending EXCEPT ![w] = Nobody]
  BY DEF Return
<1>. HIDE DEF y
<1>5. /\ sending' \in [Dispatchers -> Rows \cup {Nobody}] /\ sending'[w] \notin Rows
      /\ \A v \in Dispatchers : v # w => sending'[v] = sending[v]
  BY <1>4, ConfigurationAssumption DEF Inv, TypeOK
<1>. QED BY <1>1, <1>2, <1>3, <1>4, <1>5, AttemptStep

(* The end of a session: its readings are gone.                            *)
LEMMA CloseSession ==
  ASSUME Inv, NEW w \in Dispatchers, Close(w)
  PROVE  /\ batch' \in [Dispatchers -> SUBSET Rows]
         /\ loaded' \in [Dispatchers -> [Rows -> Row]]
         /\ copy' \in [Dispatchers -> [Rows -> Row]]
         /\ sending' \in [Dispatchers -> Rows \cup {Nobody}]
         /\ batch'[w] = {} /\ sending'[w] = Nobody
         /\ \A r \in Rows : loaded'[w][r] = NoRow
         /\ \A v \in Dispatchers : v # w =>
              /\ batch'[v] = batch[v] /\ loaded'[v] = loaded[v]
              /\ copy'[v] = copy[v] /\ sending'[v] = sending[v]
<1>1. NothingRead \in [Rows -> Row] /\ \A r \in Rows : NothingRead[r] = NoRow
  BY NoRowIsRow DEF NothingRead
<1>. QED BY <1>1 DEF Close, Inv, TypeOK

(* A commit writes the columns that the session changed.                   *)
LEMMA CommitStep ==
  ASSUME Inv, NEW w \in Dispatchers, Commit(w)
  PROVE  Inv'
<1>1. /\ row' = [r \in Rows |-> IF loaded[w][r] = NoRow THEN row[r]
                                 ELSE Written(row[r], loaded[w][r], copy[w][r])]
      /\ Close(w) /\ batch[w] = {}
      /\ UNCHANGED <<status, enabled, messages, mishaps, shared>>
  BY DEF Commit
<1>2. ASSUME NEW r \in Rows, loaded[w][r] # NoRow
      PROVE  /\ row'[r] \in Row /\ Budgeted(row'[r])
             /\ row'[r].status = "SENT" => messages[r] > 0
             /\ row'[r].status # "NONE" /\ row'[r].status # "PENDING"
  <2>1. /\ row[r] \in Row /\ loaded[w][r] \in Row /\ copy[w][r] \in Row /\ messages[r] \in Nat
        /\ IsReading(loaded[w][r]) /\ IsAttempt(copy[w][r], loaded[w][r], messages[r])
    BY <1>1, <1>2 DEF Inv, TypeOK, SessionOK
  <2>2. /\ Budgeted(row[r]) /\ (row[r].status = "SENT" => messages[r] > 0)
        /\ row[r].status # "NONE" /\ (row[r].status = "PENDING" => loaded[w][r].status # "RETRY")
    BY <1>2 DEF Inv, MixedRowsKeepBudget, SentWasAccepted, OnceRead, Budgeted
  <2>3. row'[r] = Written(row[r], loaded[w][r], copy[w][r])
    BY <1>1, <1>2
  <2>. QED BY <2>1, <2>2, <2>3, WrittenRow
<1>3. ASSUME NEW r \in Rows, loaded[w][r] = NoRow PROVE row'[r] = row[r]
  BY <1>1, <1>3
<1>4. TypeOK'
  <2>1. row' \in [Rows -> Row]
    <3>1. \A r \in Rows : row'[r] \in Row
      BY <1>2, <1>3 DEF Inv, TypeOK
    <3>. QED BY <1>1, <3>1
  <2>. QED BY <1>1, <2>1, CloseSession DEF Inv, TypeOK
<1>5. SentWasAccepted' /\ MixedRowsKeepBudget'
  <2>1. ASSUME NEW r \in Rows
        PROVE  /\ row'[r].status = "SENT" => messages[r] > 0
               /\ Budgeted(row'[r])
    BY <1>2, <1>3 DEF Inv, SentWasAccepted, MixedRowsKeepBudget, Budgeted
  <2>. QED BY <1>1, <2>1 DEF SentWasAccepted, MixedRowsKeepBudget, Budgeted
<1>6. ASSUME NEW v \in Dispatchers, NEW r \in Rows PROVE SessionOK(v, r)' /\ OnceRead(v, r)'
  <2>1. CASE v = w
    BY <1>1, <2>1, CloseSession, ConfigurationAssumption DEF SessionOK, OnceRead, NoRow
  <2>2. CASE v # w
    <3>1. /\ batch'[v] = batch[v] /\ loaded'[v] = loaded[v]
          /\ copy'[v] = copy[v] /\ sending'[v] = sending[v]
      BY <1>1, <2>2, CloseSession
    <3>2. OnceRead(v, r)'
      BY <1>2, <1>3, <3>1 DEF Inv, OnceRead
    <3>. QED BY <1>1, <3>1, <3>2 DEF Inv, SessionOK
  <2>. QED BY <2>1, <2>2
<1>. QED BY <1>4, <1>5, <1>6 DEF Inv

(* A crash loses the session and leaves the table as it was.               *)
LEMMA CrashStep ==
  ASSUME Inv, NEW w \in Dispatchers, Crash(w)
  PROVE  Inv'
<1>1. /\ Close(w) /\ UNCHANGED <<row, status, enabled, messages, shared>>
      /\ mishaps < MaxMishaps /\ mishaps' = mishaps + 1
  BY DEF Crash, table
<1>2. TypeOK'
  BY <1>1, CloseSession, ConfigurationAssumption DEF Inv, TypeOK
<1>3. ASSUME NEW v \in Dispatchers, NEW r \in Rows PROVE SessionOK(v, r)' /\ OnceRead(v, r)'
  <2>1. CASE v = w
    BY <1>1, <2>1, CloseSession, ConfigurationAssumption DEF SessionOK, OnceRead, NoRow
  <2>2. CASE v # w
    <3>1. /\ batch'[v] = batch[v] /\ loaded'[v] = loaded[v]
          /\ copy'[v] = copy[v] /\ sending'[v] = sending[v]
      BY <1>1, <2>2, CloseSession
    <3>. QED BY <1>1, <3>1 DEF Inv, SessionOK, OnceRead
  <2>. QED BY <2>1, <2>2
<1>. QED BY <1>1, <1>2, <1>3 DEF Inv, SentWasAccepted, MixedRowsKeepBudget

(* What everybody else does to the tables.                                 *)
LEMMA OtherStep ==
  ASSUME Inv, NEW r \in Rows, Queue(r) \/ RetryTimeComes(r) \/ EditDestination(r)
  PROVE  Inv'
<1>1. UNCHANGED <<messages, mishaps, shared, batch, loaded, copy, sending>>
  BY DEF Queue, RetryTimeComes, EditDestination, session
<1>2. CASE Queue(r)
  <2>1. /\ row[r] = NoRow /\ row' = [row EXCEPT ![r] = NewRow] /\ UNCHANGED <<status, enabled>>
    BY <1>2 DEF Queue
  <2>2. TypeOK'
    BY <1>1, <2>1, NoRowIsRow DEF Inv, TypeOK
  <2>3. SentWasAccepted' /\ MixedRowsKeepBudget'
    BY <1>1, <2>1, MaxRetriesAssumption
    DEF Inv, TypeOK, SentWasAccepted, MixedRowsKeepBudget, NewRow
  <2>4. ASSUME NEW w \in Dispatchers, NEW q \in Rows PROVE SessionOK(w, q)' /\ OnceRead(w, q)'
    <3>1. SessionOK(w, q)'
      BY <1>1 DEF Inv, SessionOK
    <3>2. loaded[w][r] = NoRow
      BY <2>1, NoRowIsRow DEF Inv, OnceRead
    <3>3. row'[q] = IF q = r THEN NewRow ELSE row[q]
      BY <2>1 DEF Inv, TypeOK
    <3>4. OnceRead(w, q)'
      BY <1>1, <3>2, <3>3 DEF Inv, OnceRead, NewRow, NoRow
    <3>. QED BY <3>1, <3>4
  <2>. QED BY <2>2, <2>3, <2>4 DEF Inv
<1>3. CASE RetryTimeComes(r)
  <2>1. row' = [row EXCEPT ![r].waiting = FALSE] /\ UNCHANGED <<status, enabled>>
    BY <1>3 DEF RetryTimeComes
  <2>2. \A q \in Rows : row'[q] \in Row /\ row'[q].status = row[q].status
                         /\ row'[q].attempt = row[q].attempt
    BY <2>1 DEF Inv, TypeOK, Row
  <2>3. TypeOK'
    <3>1. row' \in [Rows -> Row]
      BY <2>1, <2>2 DEF Inv, TypeOK
    <3>. QED BY <1>1, <2>1, <3>1 DEF Inv, TypeOK
  <2>. QED BY <1>1, <2>2, <2>3
       DEF Inv, SentWasAccepted, MixedRowsKeepBudget, SessionOK, OnceRead
<1>4. CASE EditDestination(r)
  <2>1. TypeOK'
    BY <1>1, <1>4 DEF Inv, TypeOK, EditDestination
  <2>. QED BY <1>1, <1>4, <2>1
       DEF EditDestination, Inv, SentWasAccepted, MixedRowsKeepBudget, SessionOK, OnceRead
<1>. QED BY <1>2, <1>3, <1>4

(* The status of an alert changes under a dispatcher that has read it.     *)
LEMMA ChangeAlertStep ==
  ASSUME Inv, NEW a \in Alerts, NEW s \in AlertStatuses, ChangeAlert(a, s)
  PROVE  Inv'
<1>1. UNCHANGED <<row, enabled, messages, mishaps, shared, batch, loaded, copy, sending>>
  BY DEF ChangeAlert, session
<1>2. TypeOK'
  BY <1>1 DEF Inv, TypeOK, ChangeAlert
<1>. QED BY <1>1, <1>2 DEF Inv, SentWasAccepted, MixedRowsKeepBudget, SessionOK, OnceRead

-----------------------------------------------------------------------------
(* Every step keeps the invariant.                                         *)
LEMMA NextInv == Inv /\ [Next]_vars => Inv'
<1>. SUFFICES ASSUME Inv, [Next]_vars PROVE Inv'
  OBVIOUS
<1>1. ASSUME NEW w \in Dispatchers, Dispatch(w) PROVE Inv'
  <2>1. CASE Begin(w)
    BY <2>1, BeginStep
  <2>2. CASE Commit(w)
    BY <2>2, CommitStep
  <2>3. ASSUME NEW r \in Rows, Drop(w, r) PROVE Inv'
    BY <2>3, DropStep
  <2>4. ASSUME NEW r \in Rows, Call(w, r) PROVE Inv'
    BY <2>4, CallStep
  <2>5. ASSUME NEW r \in Rows, NEW outcome \in Outcomes, Answer(w, r, outcome) PROVE Inv'
    <3>1. /\ Return(w, r, outcome)
          /\ messages' = IF outcome = "accepted" THEN [messages EXCEPT ![r] = @ + 1] ELSE messages
          /\ UNCHANGED <<row, status, enabled, mishaps, shared, loaded>>
      BY <2>5 DEF Answer, table
    <3>2. mishaps' \in 0..MaxMishaps
      BY <3>1 DEF Inv, TypeOK
    <3>. QED BY <3>1, <3>2, ReturnStep
  <2>. QED BY <1>1, <2>1, <2>2, <2>3, <2>4, <2>5 DEF Dispatch
<1>2. ASSUME NEW w \in Dispatchers, Mishap(w) PROVE Inv'
  <2>1. CASE Crash(w)
    BY <2>1, CrashStep
  <2>2. ASSUME NEW r \in Rows, AnswerTooLate(w, r) PROVE Inv'
    <3>1. /\ Return(w, r, "temporary") /\ messages' = [messages EXCEPT ![r] = @ + 1]
          /\ UNCHANGED <<row, status, enabled, shared, loaded>>
      BY <2>2 DEF AnswerTooLate, table
    <3>2. mishaps' \in 0..MaxMishaps
      BY <2>2, ConfigurationAssumption DEF AnswerTooLate, Inv, TypeOK
    <3>. QED BY <3>1, <3>2, ReturnStep
  <2>. QED BY <1>2, <2>1, <2>2 DEF Mishap
<1>3. CASE \E r \in Rows : Queue(r) \/ RetryTimeComes(r) \/ EditDestination(r)
  BY <1>3, OtherStep
<1>4. CASE \E a \in Alerts, s \in AlertStatuses : ChangeAlert(a, s)
  BY <1>4, ChangeAlertStep
<1>5. CASE UNCHANGED vars
  BY <1>5 DEF vars, Inv, TypeOK, SentWasAccepted, MixedRowsKeepBudget, SessionOK, OnceRead
<1>. QED BY <1>1, <1>2, <1>3, <1>4, <1>5 DEF Next

(* Inv holds always.                                                       *)
THEOREM Invariance == Spec => []Inv
<1>. QED BY InitInv, NextInv, PTL DEF Spec

(* The table, the sessions and the counters keep their types.              *)
THEOREM TypeCorrectness == Spec => []TypeOK
<1>1. Inv => TypeOK
  BY DEF Inv
<1>. QED BY <1>1, Invariance, PTL

(* However many dispatchers overwrite each other's commits, a row is SENT  *)
(* only if its destination accepted a message.                             *)
THEOREM SentWasAcceptedAlways == Spec => []SentWasAccepted
<1>1. Inv => SentWasAccepted
  BY DEF Inv
<1>. QED BY <1>1, Invariance, PTL

(* No mixture of commits leaves a row outside the retry budget.            *)
THEOREM BudgetOfMixedRows == Spec => []MixedRowsKeepBudget
<1>1. Inv => MixedRowsKeepBudget
  BY DEF Inv
<1>. QED BY <1>1, Invariance, PTL

-----------------------------------------------------------------------------
(* A settled row that no dispatcher has read: nothing reads it, sends it   *)
(* or writes it.                                                           *)
LEMMA SettledStep ==
  ASSUME Inv, [Next]_vars, NEW r \in Rows, Settled(r), ~Held(r)
  PROVE  Settled(r)' /\ messages'[r] = messages[r] /\ ~Held(r)'
<1>1. /\ ~IsDispatchable(row[r]) /\ row[r] # NoRow
      /\ \A w \in Dispatchers : loaded[w][r] = NoRow /\ sending[w] # r
  BY DEF Settled, Held, IsDispatchable, PendingStatuses, NoRow, Inv, SessionOK
<1>. DEFINE Untouched == /\ row'[r].status = row[r].status /\ messages'[r] = messages[r]
                         /\ \A w \in Dispatchers : loaded'[w][r] = NoRow
<1>2. SUFFICES Untouched
  BY DEF Settled, Held
<1>3. ASSUME NEW w \in Dispatchers, Begin(w) PROVE Untouched
  <2>1. PICK B \in SUBSET Due :
          loaded' = [loaded EXCEPT ![w] = [q \in Rows |-> IF q \in B THEN row[q] ELSE NoRow]]
    BY <1>3 DEF Begin
  <2>2. r \notin B
    BY <1>1 DEF Due
  <2>3. UNCHANGED <<row, messages>>
    BY <1>3 DEF Begin, table
  <2>. QED BY <1>1, <2>1, <2>2, <2>3 DEF Inv, TypeOK
<1>4. ASSUME NEW w \in Dispatchers, NEW q \in Rows, Drop(w, q) \/ Call(w, q) PROVE Untouched
  BY <1>1, <1>4 DEF Drop, Call, table
<1>5. ASSUME NEW w \in Dispatchers, NEW q \in Rows, NEW outcome \in Outcomes,
             Answer(w, q, outcome) \/ AnswerTooLate(w, q)
      PROVE  Untouched
  <2>1. q # r
    BY <1>1, <1>5 DEF Answer, AnswerTooLate, Return
  <2>2. UNCHANGED <<row, loaded>> /\ (messages' = messages \/ messages' = [messages EXCEPT ![q] = @ + 1])
    BY <1>5 DEF Answer, AnswerTooLate, table
  <2>. QED BY <1>1, <2>1, <2>2 DEF Inv, TypeOK
<1>6. ASSUME NEW w \in Dispatchers, Commit(w) \/ Crash(w) PROVE Untouched
  <2>1. Close(w) /\ UNCHANGED messages
    BY <1>6 DEF Commit, Crash
  <2>2. row'[r] = row[r]
    BY <1>1, <1>6 DEF Commit, Crash, table
  <2>3. \A v \in Dispatchers : loaded'[v][r] = NoRow
    BY <1>1, <2>1, CloseSession
  <2>. QED BY <2>1, <2>2, <2>3
<1>7. ASSUME NEW q \in Rows, Queue(q) \/ RetryTimeComes(q) \/ EditDestination(q) PROVE Untouched
  <2>1. UNCHANGED <<messages, loaded>>
    BY <1>7 DEF Queue, RetryTimeComes, EditDestination, session
  <2>2. row[q] \in Row /\ row[r] \in Row
    BY DEF Inv, TypeOK
  <2>3. CASE Queue(q)
    BY <1>1, <2>1, <2>3 DEF Queue, Inv, TypeOK
  <2>4. CASE RetryTimeComes(q)
    <3>1. row'[r] = row[r] \/ row'[r] = [row[r] EXCEPT !.waiting = FALSE]
      BY <2>4 DEF RetryTimeComes, Inv, TypeOK
    <3>. QED BY <1>1, <2>1, <2>2, <3>1 DEF Row
  <2>5. CASE EditDestination(q)
    BY <1>1, <2>1, <2>5 DEF EditDestination
  <2>. QED BY <1>7, <2>3, <2>4, <2>5
<1>8. ASSUME NEW a \in Alerts, NEW s \in AlertStatuses, ChangeAlert(a, s) PROVE Untouched
  BY <1>1, <1>8 DEF ChangeAlert, session
<1>9. CASE UNCHANGED vars
  BY <1>1, <1>9 DEF vars
<1>. QED
  BY <1>3, <1>4, <1>5, <1>6, <1>7, <1>8, <1>9 DEF Next, Dispatch, Mishap, Outcomes

(* Once a row is settled and no older reading of it is open, it is settled *)
(* for good, for any number of dispatchers.                                *)
THEOREM SettledForGood == Spec => SettledStaysSettled
<1>1. Inv /\ [Next]_vars =>
        [\A r \in Rows :
           Settled(r) /\ ~Held(r) =>
             /\ Settled(r)' /\ ~Held(r)'
             /\ messages'[r] = messages[r]]_vars
  BY SettledStep
<1>. QED BY <1>1, Invariance, PTL DEF Spec, SettledStaysSettled
-----------------------------------------------------------------------------
(* How many messages a row has had.  RepeatsAreExplained is not inductive: *)
(* every dispatcher that is still to attempt the row may send one more,    *)
(* and a row that nobody has sent or is about to send is one below its     *)
(* allowance.                                                              *)
Trying(r) == {w \in Dispatchers : r \in batch[w]}

ToldBy(w, r) == loaded[w][r] # NoRow /\ r \notin batch[w] /\ copy[w][r].status = "SENT"
Told(r) == \E w \in Dispatchers : ToldBy(w, r)
FailedBy(w, r) == loaded[w][r] # NoRow /\ r \notin batch[w] /\ copy[w][r].status # "SENT"

IsUnsent(r) ==
  row[r].status \in {"NONE"} \cup PendingStatuses /\ ~Told(r) /\ Trying(r) = {}

CountedRow(r) ==
  /\ messages[r] + Cardinality(Trying(r)) <= 1 + mishaps + shared[r]
  /\ IsUnsent(r) \/ (\E w \in Dispatchers : FailedBy(w, r)) =>
       messages[r] + Cardinality(Trying(r)) <= mishaps + shared[r]

Counted == \A r \in Rows : CountedRow(r)

(* What the counts are made of.                                            *)
LEMMA CountTypes ==
  ASSUME Inv, NEW r \in Rows
  PROVE  /\ messages[r] \in Nat /\ mishaps \in Nat /\ shared[r] \in Nat
         /\ IsFiniteSet(Trying(r)) /\ Cardinality(Trying(r)) \in Nat
<1>1. messages[r] \in Nat /\ mishaps \in Nat /\ shared[r] \in Nat
  BY ConfigurationAssumption DEF Inv, TypeOK
<1>2. IsFiniteSet(Trying(r))
  BY FS_Subset, ConfigurationAssumption DEF Trying
<1>. QED BY <1>1, <1>2, FS_CardinalityType

(* A dispatcher that takes row r into its batch, or out of it.             *)
LEMMA TryingCount ==
  ASSUME Inv, NEW w \in Dispatchers, NEW r \in Rows,
         \A v \in Dispatchers : v # w => (r \in batch'[v] <=> r \in batch[v])
  PROVE  Cardinality(Trying(r))' =
           IF r \in batch'[w] /\ r \notin batch[w] THEN Cardinality(Trying(r)) + 1
           ELSE IF r \notin batch'[w] /\ r \in batch[w] THEN Cardinality(Trying(r)) - 1
           ELSE Cardinality(Trying(r))
<1>1. IsFiniteSet(Trying(r))
  BY CountTypes
<1>2. CASE r \in batch'[w] /\ r \notin batch[w]
  <2>1. Trying(r)' = Trying(r) \cup {w} /\ w \notin Trying(r)
    BY <1>2 DEF Trying
  <2>. QED BY <1>1, <1>2, <2>1, FS_AddElement
<1>3. CASE r \notin batch'[w] /\ r \in batch[w]
  <2>1. Trying(r)' = Trying(r) \ {w} /\ w \in Trying(r)
    BY <1>3 DEF Trying
  <2>. QED BY <1>1, <1>3, <2>1, FS_RemoveElement
<1>4. CASE r \in batch'[w] <=> r \in batch[w]
  <2>1. Trying(r)' = Trying(r)
    BY <1>4 DEF Trying
  <2>. QED BY <1>4, <2>1
<1>. QED BY <1>2, <1>3, <1>4

(* A step that leaves row r and what is held of it alone, and takes no     *)
(* mishap back.                                                            *)
LEMMA Untouched ==
  ASSUME Inv, Counted, NEW r \in Rows,
         row'[r].status \in {"NONE"} \cup PendingStatuses =>
           row[r].status \in {"NONE"} \cup PendingStatuses,
         messages'[r] = messages[r], shared'[r] = shared[r],
         mishaps' \in Nat, mishaps' >= mishaps,
         \A w \in Dispatchers :
           /\ r \in batch'[w] <=> r \in batch[w]
           /\ loaded'[w][r] = loaded[w][r] /\ copy'[w][r] = copy[w][r]
  PROVE  CountedRow(r)'
<1>1. Trying(r)' = Trying(r)
  BY DEF Trying
<1>2. Told(r)' <=> Told(r)
  BY DEF Told, ToldBy
<1>3. \A w \in Dispatchers : FailedBy(w, r)' <=> FailedBy(w, r)
  BY DEF FailedBy
<1>4. IsUnsent(r)' => IsUnsent(r)
  BY <1>1, <1>2 DEF IsUnsent
<1>5. Cardinality(Trying(r))' = Cardinality(Trying(r))
  BY <1>1
<1>6. CountedRow(r)
  BY DEF Counted
<1>. QED BY <1>3, <1>4, <1>5, <1>6, CountTypes DEF CountedRow

(* The query: a row that nobody held is one below its allowance, and one   *)
(* that another dispatcher holds is shared once more.                      *)
LEMMA BeginCounts ==
  ASSUME Inv, Counted, NEW w \in Dispatchers, Begin(w)
  PROVE  Counted'
<1>1. PICK B \in SUBSET Due :
        /\ batch' = [batch EXCEPT ![w] = B]
        /\ loaded' = [loaded EXCEPT ![w] = [r \in Rows |-> IF r \in B THEN row[r] ELSE NoRow]]
        /\ copy' = [copy EXCEPT ![w] = loaded'[w]]
        /\ shared' = [r \in Rows |-> IF r \in B /\ Held(r) THEN shared[r] + 1 ELSE shared[r]]
  BY DEF Begin
<1>2. UNCHANGED <<row, messages, mishaps>>
  BY DEF Begin, table
<1>3. ASSUME NEW r \in Rows
      PROVE  /\ loaded[w][r] = NoRow /\ r \notin batch[w]
             /\ r \in batch'[w] <=> r \in B
             /\ loaded'[w][r] = IF r \in B THEN row[r] ELSE NoRow
             /\ \A v \in Dispatchers : v # w =>
                  batch'[v] = batch[v] /\ loaded'[v] = loaded[v] /\ copy'[v] = copy[v]
  BY <1>1 DEF Begin, IsOpen, NothingRead, Inv, TypeOK, SessionOK
<1>4. ASSUME NEW r \in Rows PROVE CountedRow(r)'
  <2>1. CountedRow(r)
    BY DEF Counted
  <2>2. \A v \in Dispatchers : FailedBy(v, r)' => v # w /\ FailedBy(v, r)
    BY <1>3, NoRowIsRow DEF FailedBy
  <2>3. CASE r \notin B
    <3>1. Cardinality(Trying(r))' = Cardinality(Trying(r)) /\ shared'[r] = shared[r]
      BY <1>1, <1>3, <2>3, TryingCount
    <3>2. Trying(r)' = Trying(r)
      BY <1>3, <2>3 DEF Trying
    <3>3. Told(r) => Told(r)'
      BY <1>3 DEF Told, ToldBy
    <3>4. IsUnsent(r)' => IsUnsent(r)
      BY <1>2, <3>2, <3>3 DEF IsUnsent
    <3>. QED BY <1>2, <2>1, <2>2, <3>1, <3>4, CountTypes DEF CountedRow
  <2>4. CASE r \in B
    <3>1. Cardinality(Trying(r))' = Cardinality(Trying(r)) + 1
      BY <1>3, <2>4, TryingCount
    <3>2. ~IsUnsent(r)'
      BY <1>3, <2>4 DEF IsUnsent, Trying
    <3>3. CASE Held(r)
      <4>1. shared'[r] = shared[r] + 1
        BY <1>1, <2>4, <3>3
      <4>. QED BY <1>2, <2>1, <2>2, <3>1, <3>2, <4>1, CountTypes DEF CountedRow
    <3>4. CASE ~Held(r)
      <4>1. shared'[r] = shared[r] /\ \A v \in Dispatchers : ~FailedBy(v, r)
        BY <1>1, <3>4 DEF Held, FailedBy
      <4>2. ~Told(r) /\ Trying(r) = {}
        BY <3>4 DEF Held, Told, ToldBy, Trying, Inv, SessionOK
      <4>3. IsUnsent(r)
        BY <2>4, <4>2 DEF IsUnsent, Due, IsDispatchable
      <4>. QED BY <1>2, <2>1, <2>2, <3>1, <3>2, <4>1, <4>3, CountTypes DEF CountedRow
    <3>. QED BY <3>3, <3>4
  <2>. QED BY <2>3, <2>4
<1>. QED BY <1>4 DEF Counted

(* One attempt of dispatcher w at row r: the message it may have sent was  *)
(* allowed for, and it is on its way into the table or was a mishap.       *)
LEMMA AttemptCounts ==
  ASSUME Inv, Counted, NEW w \in Dispatchers, NEW r \in Rows, NEW y, r \in batch[w],
         copy' = [copy EXCEPT ![w][r] = y], batch' = [batch EXCEPT ![w] = @ \ {r}],
         UNCHANGED <<row, loaded, shared>>, mishaps' \in Nat,
         \/ messages' = messages /\ mishaps' = mishaps
         \/ messages' = [messages EXCEPT ![r] = @ + 1] /\ mishaps' = mishaps /\ y.status = "SENT"
         \/ messages' = [messages EXCEPT ![r] = @ + 1] /\ mishaps' = mishaps + 1
  PROVE  Counted'
<1>1. TypeOK /\ mishaps \in Nat
  BY ConfigurationAssumption DEF Inv, TypeOK
<1>2. ASSUME NEW q \in Rows, q # r PROVE CountedRow(q)'
  <2>1. messages'[q] = messages[q] /\ mishaps' >= mishaps
    BY <1>1, <1>2 DEF TypeOK
  <2>2. \A v \in Dispatchers : copy'[v][q] = copy[v][q] /\ (q \in batch'[v] <=> q \in batch[v])
    BY <1>1, <1>2 DEF TypeOK
  <2>. QED BY <2>1, <2>2, Untouched
<1>3. CountedRow(r)'
  <2>1. CountedRow(r) /\ shared'[r] = shared[r]
    BY DEF Counted
  <2>2. Cardinality(Trying(r))' = Cardinality(Trying(r)) - 1
    BY <1>1, TryingCount DEF TypeOK
  <2>3. CASE messages' = messages /\ mishaps' = mishaps
    BY <2>1, <2>2, <2>3, CountTypes DEF CountedRow
  <2>4. CASE messages' = [messages EXCEPT ![r] = @ + 1] /\ mishaps' = mishaps /\ y.status = "SENT"
    <3>1. messages'[r] = messages[r] + 1
      BY <1>1, <2>4 DEF TypeOK
    <3>2. copy'[w][r] = y /\ r \notin batch'[w] /\ loaded[w][r] # NoRow
      BY <1>1 DEF TypeOK, Inv, SessionOK
    <3>3. ~IsUnsent(r)'
      BY <2>4, <3>2 DEF IsUnsent, Told, ToldBy
    <3>4. \A v \in Dispatchers : FailedBy(v, r)' => FailedBy(v, r)
      BY <1>1, <2>4, <3>2 DEF FailedBy, TypeOK
    <3>. QED BY <2>1, <2>2, <2>4, <3>1, <3>3, <3>4, CountTypes DEF CountedRow
  <2>5. CASE messages' = [messages EXCEPT ![r] = @ + 1] /\ mishaps' = mishaps + 1
    <3>1. messages'[r] = messages[r] + 1
      BY <1>1, <2>5 DEF TypeOK
    <3>. QED BY <2>1, <2>2, <2>5, <3>1, CountTypes DEF CountedRow
  <2>. QED BY <2>3, <2>4, <2>5
<1>. QED BY <1>2, <1>3 DEF Counted

(* What a commit makes of the status of a row it has read.                 *)
LEMMA CommittedStatus ==
  ASSUME Inv, NEW w \in Dispatchers, Commit(w), NEW r \in Rows
  PROVE  /\ loaded[w][r] = NoRow => row'[r] = row[r]
         /\ loaded[w][r] # NoRow =>
              /\ copy[w][r].status \in {"SENT", "RETRY", "FAILED", "SKIPPED"}
              /\ copy[w][r].status = "SENT" => row'[r].status = "SENT"
              /\ row'[r].status \in {copy[w][r].status, row[r].status}
<1>1. row' = [s \in Rows |-> IF loaded[w][s] = NoRow THEN row[s]
                              ELSE Written(row[s], loaded[w][s], copy[w][s])]
      /\ batch[w] = {}
  BY DEF Commit
<1>2. CASE loaded[w][r] = NoRow
  BY <1>1, <1>2
<1>3. CASE loaded[w][r] # NoRow
  <2>1. IsReading(loaded[w][r]) /\ IsAttempt(copy[w][r], loaded[w][r], messages[r])
    BY <1>1, <1>3 DEF Inv, SessionOK
  <2>2. row'[r].status = IF copy[w][r].status # loaded[w][r].status
                         THEN copy[w][r].status ELSE row[r].status
    BY <1>1, <1>3 DEF Written
  <2>. QED BY <1>3, <2>1, <2>2 DEF IsReading, IsAttempt, PendingStatuses
<1>. QED BY <1>2, <1>3

(* The end of a transaction: what it told is recorded, or was a mishap.    *)
LEMMA EndCounts ==
  ASSUME Inv, Counted, NEW w \in Dispatchers, Commit(w) \/ Crash(w)
  PROVE  Counted'
<1>1. Close(w) /\ UNCHANGED <<messages, shared>>
  BY DEF Commit, Crash, table
<1>2. ASSUME NEW r \in Rows PROVE CountedRow(r)'
  <2>1. CountedRow(r)
    BY DEF Counted
  <2>2. /\ r \notin batch'[w] /\ loaded'[w][r] = NoRow
        /\ \A v \in Dispatchers : v # w =>
             batch'[v] = batch[v] /\ loaded'[v] = loaded[v] /\ copy'[v] = copy[v]
    BY <1>1, CloseSession
  <2>3. CASE Crash(w)
    <3>1. mishaps' = mishaps + 1
      BY <2>3 DEF Crash
    <3>2. Cardinality(Trying(r))' \in {Cardinality(Trying(r)), Cardinality(Trying(r)) - 1}
      BY <2>2, TryingCount
    <3>. QED BY <1>1, <2>1, <3>1, <3>2, CountTypes DEF CountedRow
  <2>4. CASE Commit(w)
    <3>1. batch[w] = {} /\ mishaps' = mishaps
      BY <2>4 DEF Commit
    <3>2. Trying(r)' = Trying(r)
      BY <2>2, <3>1 DEF Trying
    <3>3. \A v \in Dispatchers : FailedBy(v, r)' => FailedBy(v, r)
      BY <2>2 DEF FailedBy
    <3>4. IsUnsent(r)' => IsUnsent(r) \/ FailedBy(w, r)
      <4>1. CASE loaded[w][r] = NoRow
        <5>1. row'[r] = row[r] /\ (Told(r) => Told(r)')
          BY <2>2, <2>4, <4>1, CommittedStatus DEF Told, ToldBy
        <5>. QED BY <3>2, <5>1 DEF IsUnsent
      <4>2. CASE loaded[w][r] # NoRow /\ copy[w][r].status = "SENT"
        BY <2>4, <4>2, CommittedStatus DEF IsUnsent, PendingStatuses
      <4>3. CASE loaded[w][r] # NoRow /\ copy[w][r].status # "SENT"
        BY <3>1, <4>3 DEF FailedBy
      <4>. QED BY <4>1, <4>2, <4>3
    <3>5. Cardinality(Trying(r))' = Cardinality(Trying(r))
      BY <3>2
    <3>. QED BY <1>1, <2>1, <3>1, <3>3, <3>4, <3>5, CountTypes DEF CountedRow
  <2>. QED BY <2>3, <2>4
<1>. QED BY <1>2 DEF Counted

(* The steps of everybody else hold nothing, tell nothing and at most put  *)
(* a row into the queue.                                                   *)
LEMMA OthersKeep ==
  ASSUME Inv, NEW r \in Rows, Queue(r) \/ RetryTimeComes(r) \/ EditDestination(r)
  PROVE  /\ UNCHANGED <<messages, mishaps, shared, batch, loaded, copy>>
         /\ \A q \in Rows : \/ row'[q].status = row[q].status
                            \/ q = r /\ row[q].status = "NONE" /\ row'[q].status = "PENDING"
<1>1. UNCHANGED <<messages, mishaps, shared, batch, loaded, copy>>
  BY DEF Queue, RetryTimeComes, EditDestination, session
<1>2. CASE Queue(r)
  <2>1. row[r] = NoRow /\ \A q \in Rows : row'[q] = IF q = r THEN NewRow ELSE row[q]
    BY <1>2 DEF Queue, Inv, TypeOK
  <2>. QED BY <1>1, <2>1 DEF NoRow, NewRow
<1>3. CASE RetryTimeComes(r)
  <2>1. \A q \in Rows : row'[q] = IF q = r THEN [row[r] EXCEPT !.waiting = FALSE] ELSE row[q]
    BY <1>3 DEF RetryTimeComes, Inv, TypeOK
  <2>2. row[r] \in Row
    BY DEF Inv, TypeOK
  <2>3. row'[r].status = row[r].status
    BY <2>1, <2>2 DEF Row
  <2>. QED BY <1>1, <2>1, <2>3
<1>4. CASE EditDestination(r)
  BY <1>1, <1>4 DEF EditDestination
<1>. QED BY <1>2, <1>3, <1>4

(* What becomes of a provider call: an attempt y that says SENT if and     *)
(* only if the destination is known to have accepted the message.          *)
LEMMA ReturnIsAttempt ==
  ASSUME Inv, NEW w \in Dispatchers, NEW r \in Rows, NEW outcome \in Outcomes,
         Answer(w, r, outcome) \/ AnswerTooLate(w, r)
  PROVE  /\ r \in batch[w]
         /\ UNCHANGED <<row, loaded, shared>>
         /\ \E y :
              /\ copy' = [copy EXCEPT ![w][r] = y] /\ batch' = [batch EXCEPT ![w] = @ \ {r}]
              /\ \/ messages' = messages /\ mishaps' = mishaps /\ y.status # "SENT"
                 \/ messages' = [messages EXCEPT ![r] = @ + 1] /\ mishaps' = mishaps /\ y.status = "SENT"
                 \/ messages' = [messages EXCEPT ![r] = @ + 1] /\ mishaps' = mishaps + 1 /\ y.status # "SENT"
<1>. DEFINE y(o) == Deliver(loaded[w][r], TypeOf[r], "OPEN", TRUE, o)
<1>1. \A o \in Outcomes : y(o).status = "SENT" <=> o = "accepted"
  BY DEF Deliver, CallsProvider, IsNotifiable, MayRetry, Outcomes
<1>2. r \in batch[w] /\ UNCHANGED <<row, loaded, shared>>
  BY DEF Answer, AnswerTooLate, Return, table, Inv, SessionOK
<1>. HIDE DEF y
<1>3. CASE Answer(w, r, outcome)
  <2>1. /\ copy' = [copy EXCEPT ![w][r] = y(outcome)] /\ batch' = [batch EXCEPT ![w] = @ \ {r}]
        /\ mishaps' = mishaps
        /\ messages' = IF outcome = "accepted" THEN [messages EXCEPT ![r] = @ + 1] ELSE messages
    BY <1>3 DEF Answer, Return, y
  <2>. QED BY <1>1, <1>2, <2>1
<1>4. CASE AnswerTooLate(w, r)
  <2>1. /\ copy' = [copy EXCEPT ![w][r] = y("temporary")] /\ batch' = [batch EXCEPT ![w] = @ \ {r}]
        /\ mishaps' = mishaps + 1 /\ messages' = [messages EXCEPT ![r] = @ + 1]
    BY <1>4 DEF AnswerTooLate, Return, y
  <2>2. "temporary" \in Outcomes
    BY DEF Outcomes
  <2>. QED BY <1>1, <1>2, <2>1, <2>2
<1>. QED BY <1>3, <1>4

(* A dropped row counts as an attempt that was not accepted.               *)
LEMMA DropIsAttempt ==
  ASSUME Inv, NEW w \in Dispatchers, NEW r \in Rows, Drop(w, r)
  PROVE  /\ r \in batch[w]
         /\ copy' = [copy EXCEPT ![w][r] = Attempted(w, r, "accepted")]
         /\ batch' = [batch EXCEPT ![w] = @ \ {r}]
         /\ UNCHANGED <<row, messages, mishaps, loaded, shared>>
         /\ Attempted(w, r, "accepted").status # "SENT"
<1>1. Attempted(w, r, "accepted").status # "SENT"
  BY DEF Drop, Calls, Attempted, Deliver, CallsProvider, MayRetry
<1>. QED BY <1>1 DEF Drop, IsNextOf, table

(* Every step keeps the counts.                                            *)
LEMMA CountedStep ==
  ASSUME Inv, Counted, [Next]_vars
  PROVE  Counted'
<1>0. mishaps \in Nat
  BY ConfigurationAssumption DEF Inv, TypeOK
<1>1. ASSUME NEW w \in Dispatchers, Begin(w) PROVE Counted'
  BY <1>1, BeginCounts
<1>2. ASSUME NEW w \in Dispatchers, NEW r \in Rows, Drop(w, r) PROVE Counted'
  BY <1>0, <1>2, DropIsAttempt, AttemptCounts
<1>3. ASSUME NEW w \in Dispatchers, NEW r \in Rows, NEW outcome \in Outcomes,
             Answer(w, r, outcome) \/ AnswerTooLate(w, r)
      PROVE  Counted'
  BY <1>0, <1>3, ReturnIsAttempt, AttemptCounts
<1>4. ASSUME NEW w \in Dispatchers, Commit(w) \/ Crash(w) PROVE Counted'
  BY <1>4, EndCounts
<1>5. ASSUME NEW r \in Rows, Queue(r) \/ RetryTimeComes(r) \/ EditDestination(r) PROVE Counted'
  <2>1. /\ UNCHANGED <<messages, mishaps, shared, batch, loaded, copy>>
        /\ \A q \in Rows : row'[q].status \in {"NONE"} \cup PendingStatuses
                             => row[q].status \in {"NONE"} \cup PendingStatuses
    BY <1>5, OthersKeep DEF PendingStatuses
  <2>. QED BY <1>0, <2>1, Untouched DEF Counted
<1>6. CASE UNCHANGED <<row, messages, mishaps, shared, batch, loaded, copy>>
  BY <1>0, <1>6, Untouched DEF Counted
<1>7. ASSUME NEW w \in Dispatchers, NEW r \in Rows, Call(w, r)
      PROVE  UNCHANGED <<row, messages, mishaps, shared, batch, loaded, copy>>
  BY <1>7 DEF Call, table
<1>8. ASSUME NEW a \in Alerts, NEW s \in AlertStatuses, ChangeAlert(a, s)
      PROVE  UNCHANGED <<row, messages, mishaps, shared, batch, loaded, copy>>
  BY <1>8 DEF ChangeAlert, session
<1>9. UNCHANGED vars => UNCHANGED <<row, messages, mishaps, shared, batch, loaded, copy>>
  BY DEF vars
<1>. QED BY <1>1, <1>2, <1>3, <1>4, <1>5, <1>6, <1>7, <1>8, <1>9
     DEF Next, Dispatch, Mishap, Outcomes

(* However many dispatchers read the same rows, a message goes out again   *)
(* only for a crash, a rollback or a late answer, or because the row was   *)
(* read while another dispatcher held it, and each costs at most one.      *)
THEOREM RepeatsExplained == Spec => []RepeatsAreExplained
<1>1. Init => Counted
  <2>. SUFFICES ASSUME Init, NEW r \in Rows PROVE CountedRow(r)
    BY DEF Counted
  <2>1. messages[r] = 0 /\ mishaps = 0 /\ shared[r] = 0 /\ Trying(r) = {}
    BY DEF Init, Trying
  <2>. QED BY <2>1, FS_EmptySet DEF CountedRow
<1>2. Inv /\ Counted /\ [Next]_vars => Counted'
  BY CountedStep
<1>3. Inv /\ Counted => RepeatsAreExplained
  BY CountTypes DEF Counted, CountedRow, RepeatsAreExplained
<1>. QED BY <1>1, <1>2, <1>3, Invariance, PTL DEF Spec

-----------------------------------------------------------------------------
(* The dispatchers together implement DeliveryLedger.                      *)

(* How the statuses of a row read in the ledger.                           *)
LEMMA Entries ==
  /\ EntryOf("NONE") = "none"
  /\ \A s \in PendingStatuses : EntryOf(s) = "queued"
  /\ EntryOf("SENT") = "told"
  /\ EntryOf("FAILED") = "dropped" /\ EntryOf("SKIPPED") = "dropped"
BY DEF EntryOf, PendingStatuses

(* What the ledger sees of a step that moves no row and no session.        *)
LEMMA LedgerSees ==
  /\ row' = row => Entry' = Entry
  /\ loaded' = loaded => Holding' = Holding
  /\ batch' = batch /\ loaded' = loaded /\ copy' = copy => Sent' = Sent
BY DEF Entry, Holding, Sent

(* The query opens a transaction on queued rows.                           *)
LEMMA BeginOpens ==
  ASSUME Inv, NEW w \in Dispatchers, Begin(w)
  PROVE  Ledger!Open(w)
<1>1. PICK B \in SUBSET Due :
        /\ batch' = [batch EXCEPT ![w] = B]
        /\ loaded' = [loaded EXCEPT ![w] = [r \in Rows |-> IF r \in B THEN row[r] ELSE NoRow]]
        /\ copy' = [copy EXCEPT ![w] = loaded'[w]]
  BY DEF Begin
<1>2. UNCHANGED <<row, messages>> /\ \A r \in Rows : loaded[w][r] = NoRow
  BY DEF Begin, table, IsOpen, NothingRead
<1>3. B \in SUBSET Rows /\ \A r \in B : row[r].status \in PendingStatuses /\ row[r] # NoRow
  BY DEF Due, IsDispatchable, PendingStatuses, NoRow
<1>4. \A r \in B : Entry[r] = "queued"
  BY <1>3, Entries DEF Entry
<1>5. Holding[w] = {} /\ Sent[w] = {}
  BY <1>2 DEF Holding, Sent
<1>6. /\ \A r \in Rows : loaded'[w][r] # NoRow <=> r \in B
      /\ batch'[w] = B
      /\ \A v \in Dispatchers : v # w =>
           batch'[v] = batch[v] /\ loaded'[v] = loaded[v] /\ copy'[v] = copy[v]
  BY <1>1, <1>3 DEF Inv, TypeOK
<1>7. Holding' = [Holding EXCEPT ![w] = B]
  <2>1. Holding'[w] = B
    BY <1>3, <1>6 DEF Holding
  <2>2. \A v \in Dispatchers : v # w => Holding'[v] = Holding[v]
    BY <1>6 DEF Holding
  <2>. QED BY <2>1, <2>2 DEF Holding
<1>8. Sent' = Sent
  <2>1. \A v \in Dispatchers : Sent'[v] = Sent[v]
    BY <1>5, <1>6, <1>7 DEF Sent, Holding
  <2>. QED BY <2>1 DEF Sent
<1>. QED BY <1>1, <1>2, <1>3, <1>4, <1>5, <1>7, <1>8, LedgerSees DEF Ledger!Open

(* An attempt tells, or fails.                                             *)
LEMMA AttemptTells ==
  ASSUME Inv, NEW w \in Dispatchers, NEW r \in Rows, NEW y, r \in batch[w],
         copy' = [copy EXCEPT ![w][r] = y], batch' = [batch EXCEPT ![w] = @ \ {r}],
         UNCHANGED <<row, loaded>>,
         \/ messages' = [messages EXCEPT ![r] = @ + 1] /\ y.status = "SENT"
         \/ messages' \in {messages, [messages EXCEPT ![r] = @ + 1]} /\ y.status # "SENT"
  PROVE  Ledger!Tell(w, r) \/ Ledger!Fail(w, r)
<1>1. Entry' = Entry /\ Holding' = Holding /\ r \in Holding[w]
  BY LedgerSees DEF Holding, Inv, SessionOK
<1>2. /\ copy'[w][r] = y /\ r \notin batch'[w]
      /\ \A v \in Dispatchers, q \in Rows : v # w \/ q # r =>
           copy'[v][q] = copy[v][q] /\ (q \in batch'[v] <=> q \in batch[v])
  BY DEF Inv, TypeOK
<1>3. Ledger!Attempt(w, r)
  BY <1>1 DEF Ledger!Attempt
<1>4. CASE messages' = [messages EXCEPT ![r] = @ + 1] /\ y.status = "SENT"
  <2>1. Sent' = [Sent EXCEPT ![w] = @ \cup {r}]
    <3>1. \A v \in Dispatchers : Sent'[v] = IF v = w THEN Sent[w] \cup {r} ELSE Sent[v]
      BY <1>1, <1>2, <1>4 DEF Sent, Holding
    <3>. QED BY <3>1 DEF Sent
  <2>. QED BY <1>3, <1>4, <2>1 DEF Ledger!Tell
<1>5. CASE messages' \in {messages, [messages EXCEPT ![r] = @ + 1]} /\ y.status # "SENT"
  <2>1. Sent' = Sent
    <3>1. \A v \in Dispatchers : Sent'[v] = Sent[v]
      BY <1>1, <1>2, <1>5 DEF Sent, Holding
    <3>. QED BY <3>1 DEF Sent
  <2>. QED BY <1>3, <1>5, <2>1 DEF Ledger!Fail
<1>. QED BY <1>4, <1>5

(* The end of a session closes the transaction.                            *)
LEMMA CloseCloses ==
  ASSUME Inv, NEW w \in Dispatchers, Close(w), messages' = messages
  PROVE  Ledger!Close(w)
<1>1. /\ batch' = [batch EXCEPT ![w] = {}] /\ \A r \in Rows : loaded'[w][r] = NoRow
      /\ \A v \in Dispatchers : v # w =>
           batch'[v] = batch[v] /\ loaded'[v] = loaded[v] /\ copy'[v] = copy[v]
  BY CloseSession DEF Close
<1>2. Holding' = [Holding EXCEPT ![w] = {}]
  BY <1>1 DEF Holding
<1>3. Sent' = [Sent EXCEPT ![w] = {}]
  <2>1. \A v \in Dispatchers : Sent'[v] = IF v = w THEN {} ELSE Sent[v]
    BY <1>1 DEF Sent, Holding
  <2>. QED BY <2>1 DEF Sent
<1>. QED BY <1>1, <1>2, <1>3 DEF Ledger!Close

(* A commit settles what was read: SENT over whatever the table says of    *)
(* what was told, and of the rest what came of it or what the table says.  *)
LEMMA CommitSettles ==
  ASSUME Inv, NEW w \in Dispatchers, Commit(w)
  PROVE  Ledger!Settle(w)
<1>. DEFINE F == Holding[w] \ Sent[w]
            E == [r \in F |-> EntryOf(copy[w][r].status)]
            K == {r \in F : row'[r].status = row[r].status}
<1>1. batch[w] = {} /\ Close(w) /\ messages' = messages
  BY DEF Commit
<1>2. F \subseteq Rows /\ Sent[w] \subseteq Rows /\ K \in SUBSET F
  BY DEF Holding, Sent
<1>3. ASSUME NEW r \in F
      PROVE  /\ E[r] \in {"queued", "dropped"}
             /\ r \notin K => Entry'[r] = E[r]
             /\ r \in K => Entry'[r] = Entry[r]
  <2>1. loaded[w][r] # NoRow /\ copy[w][r].status # "SENT" /\ r \in Rows
    BY <1>1, <1>3 DEF Holding, Sent
  <2>2. copy[w][r].status \in PendingStatuses \cup {"FAILED", "SKIPPED"}
        /\ row'[r].status \in {copy[w][r].status, row[r].status}
    BY <2>1, CommittedStatus DEF PendingStatuses
  <2>3. E[r] = EntryOf(copy[w][r].status)
    OBVIOUS
  <2>. QED BY <2>1, <2>2, <2>3, Entries DEF Entry
<1>4. ASSUME NEW r \in Sent[w] PROVE Entry'[r] = "told"
  <2>1. r \in Rows /\ row'[r].status = "SENT"
    BY <1>4, CommittedStatus DEF Holding, Sent
  <2>. QED BY <2>1, Entries DEF Entry
<1>5. ASSUME NEW r \in Rows, r \notin Sent[w], r \notin F PROVE Entry'[r] = Entry[r]
  <2>1. loaded[w][r] = NoRow
    BY <1>5 DEF Holding
  <2>. QED BY <2>1, CommittedStatus DEF Entry
<1>6. E \in [F -> {"queued", "dropped"}]
  BY <1>3
<1>7. Entry' = [r \in Rows |-> CASE r \in Sent[w] -> "told"
                                 [] r \in F \ K   -> E[r]
                                 [] OTHER         -> Entry[r]]
  <2>. HIDE DEF E, K
  <2>1. \A r \in Rows : Entry'[r] = CASE r \in Sent[w] -> "told"
                                      [] r \in F \ K   -> E[r]
                                      [] OTHER         -> Entry[r]
    BY <1>3, <1>4, <1>5
  <2>. QED BY <2>1 DEF Entry
<1>8. Ledger!Close(w)
  BY <1>1, CloseCloses
<1>. HIDE DEF E, K
<1>. QED BY <1>1, <1>2, <1>6, <1>7, <1>8 DEF Ledger!Settle

(* Everybody else: a row is queued, or the ledger sees nothing.            *)
LEMMA OthersEnter ==
  ASSUME Inv, NEW r \in Rows, Queue(r) \/ RetryTimeComes(r) \/ EditDestination(r)
  PROVE  [Ledger!Next]_<<Entry, messages, Holding, batch, Sent>>
<1>1. UNCHANGED <<messages, batch, Holding, Sent>>
  BY OthersKeep, LedgerSees
<1>2. CASE \A q \in Rows : row'[q].status = row[q].status
  BY <1>1, <1>2 DEF Entry
<1>3. CASE ~ \A q \in Rows : row'[q].status = row[q].status
  <2>1. /\ row[r].status = "NONE" /\ row'[r].status = "PENDING"
        /\ \A q \in Rows : q # r => row'[q].status = row[q].status
    BY <1>3, OthersKeep
  <2>2. Entry[r] = "none" /\ Entry' = [Entry EXCEPT ![r] = "queued"]
    BY <2>1, Entries DEF Entry, PendingStatuses
  <2>3. Ledger!Enter(r)
    BY <1>1, <2>2 DEF Ledger!Enter
  <2>. QED BY <2>3 DEF Ledger!Next
<1>. QED BY <1>2, <1>3

(* Every step is a step of the ledger, or none.                            *)
LEMMA LedgerStep ==
  ASSUME Inv, [Next]_vars
  PROVE  [Ledger!Next]_<<Entry, messages, Holding, batch, Sent>>
<1>. DEFINE Seen == [Ledger!Next]_<<Entry, messages, Holding, batch, Sent>>
<1>1. CASE UNCHANGED <<row, messages, batch, loaded, copy>>
  BY <1>1, LedgerSees
<1>2. ASSUME NEW w \in Dispatchers, NEW r \in Rows, Call(w, r)
      PROVE  UNCHANGED <<row, messages, batch, loaded, copy>>
  BY <1>2 DEF Call, table
<1>3. ASSUME NEW w \in Dispatchers, Begin(w) PROVE Seen
  BY <1>3, BeginOpens DEF Ledger!Next
<1>4. ASSUME NEW w \in Dispatchers, Commit(w) PROVE Seen
  BY <1>4, CommitSettles DEF Ledger!Next
<1>5. ASSUME NEW w \in Dispatchers, Crash(w) PROVE Seen
  <2>1. Close(w) /\ UNCHANGED <<row, messages>>
    BY <1>5 DEF Crash, table
  <2>. QED BY <2>1, CloseCloses, LedgerSees DEF Ledger!Abandon, Ledger!Next
<1>6. ASSUME NEW w \in Dispatchers, NEW r \in Rows, Drop(w, r) PROVE Seen
  BY <1>6, DropIsAttempt, AttemptTells DEF Ledger!Next
<1>7. ASSUME NEW w \in Dispatchers, NEW r \in Rows, NEW outcome \in Outcomes,
             Answer(w, r, outcome) \/ AnswerTooLate(w, r)
      PROVE  Seen
  BY <1>7, ReturnIsAttempt, AttemptTells DEF Ledger!Next
<1>8. ASSUME NEW r \in Rows, Queue(r) \/ RetryTimeComes(r) \/ EditDestination(r) PROVE Seen
  BY <1>8, OthersEnter
<1>9. ASSUME NEW a \in Alerts, NEW s \in AlertStatuses, ChangeAlert(a, s)
      PROVE  UNCHANGED <<row, messages, batch, loaded, copy>>
  BY <1>9 DEF ChangeAlert, session
<1>10. UNCHANGED vars => UNCHANGED <<row, messages, batch, loaded, copy>>
  BY DEF vars
<1>. HIDE DEF Seen
<1>. QED BY <1>1, <1>2, <1>3, <1>4, <1>5, <1>6, <1>7, <1>8, <1>9, <1>10
     DEF Next, Dispatch, Mishap, Outcomes, Seen

(* What any number of dispatchers do to the table is what DeliveryLedger   *)
(* promises: only rows of the queue are read, a row is told at most once   *)
(* for a reading of it, and a commit writes SENT of exactly what was       *)
(* accepted, whatever another dispatcher wrote before.                     *)
THEOREM LedgerImplemented == Spec => ImplementsLedger
<1>1. Init => Ledger!Init
  <2>. SUFFICES ASSUME Init PROVE Ledger!Init
    OBVIOUS
  <2>1. /\ \A r \in Rows : row[r].status = "NONE"
        /\ \A w \in Dispatchers, r \in Rows : loaded[w][r] = NoRow
    BY DEF Init, NothingRead, NoRow
  <2>2. Entry = [r \in Rows |-> "none"]
    BY <2>1, Entries DEF Entry
  <2>3. Holding = [w \in Dispatchers |-> {}] /\ Sent = [w \in Dispatchers |-> {}]
    BY <2>1 DEF Holding, Sent
  <2>. QED BY <2>2, <2>3 DEF Init, Ledger!Init
<1>2. Inv /\ [Next]_vars => [Ledger!Next]_<<Entry, messages, Holding, batch, Sent>>
  BY LedgerStep
<1>. QED BY <1>1, <1>2, Invariance, PTL DEF Spec, ImplementsLedger, Ledger!Spec
=============================================================================

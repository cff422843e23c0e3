--------------------------- MODULE DeliveryLedger ---------------------------
(***************************************************************************)
(* What queued notifications are promised by transactions that deliver     *)
(* them side by side.  A transaction takes up queued notifications, makes  *)
(* one attempt at each, by which its destination is told or not, and then  *)
(* writes what became of all of them, or abandons them and writes nothing. *)
(*                                                                         *)
(* A notification that several transactions took up is told by each of     *)
(* them, and one that failed may put back into the queue what another one  *)
(* told.  But what a transaction knows it told is written as told, nothing *)
(* else is, no notification is forgotten, and nothing is told that was not *)
(* taken from the queue.                                                   *)
(***************************************************************************)
EXTENDS Naturals

CONSTANTS Rows, Transactions

VARIABLES
  entry,     \* what the ledger says of a notification
  messages,  \* how often its destination accepted a message
  open,      \* what a transaction has taken up
  untried,   \* what of that it has not attempted yet
  told       \* what of that it knows to be told

Init ==
  /\ entry = [r \in Rows |-> "none"]
  /\ messages = [r \in Rows |-> 0]
  /\ open = [t \in Transactions |-> {}]
  /\ untried = [t \in Transactions |-> {}]
  /\ told = [t \in Transactions |-> {}]

Enter(r) ==
  /\ entry[r] = "none"
  /\ entry' = [entry EXCEPT ![r] = "queued"]
  /\ UNCHANGED <<messages, open, untried, told>>

Open(t) ==
  /\ open[t] = {}
  /\ \E R \in SUBSET Rows :
       /\ \A r \in R : entry[r] = "queued"
       /\ open' = [open EXCEPT ![t] = R]
       /\ untried' = [untried EXCEPT ![t] = R]
  /\ UNCHANGED <<entry, messages, told>>

Attempt(t, r) ==
  /\ r \in untried[t]
  /\ untried' = [untried EXCEPT ![t] = @ \ {r}]
  /\ UNCHANGED <<entry, open>>

(* The destination accepts a message, and the transaction knows.           *)
Tell(t, r) ==
  /\ Attempt(t, r)
  /\ messages' = [messages EXCEPT ![r] = @ + 1]
  /\ told' = [told EXCEPT ![t] = @ \cup {r}]

(* The attempt fails, or seems to fail.                                    *)
Fail(t, r) ==
  /\ Attempt(t, r)
  /\ messages' \in {messages, [messages EXCEPT ![r] = @ + 1]}
  /\ UNCHANGED told

Close(t) ==
  /\ open' = [open EXCEPT ![t] = {}]
  /\ untried' = [untried EXCEPT ![t] = {}]
  /\ told' = [told EXCEPT ![t] = {}]
  /\ UNCHANGED messages

(* Everything taken up was attempted, and what became of it is written.    *)
(* Of what it did not tell, a transaction may leave what another wrote.    *)
Settle(t) ==
  /\ untried[t] = {}
  /\ \E E \in [open[t] \ told[t] -> {"queued", "dropped"}], Kept \in SUBSET (open[t] \ told[t]) :
       entry' = [r \in Rows |-> CASE r \in told[t]                   -> "told"
                                  [] r \in (open[t] \ told[t]) \ Kept -> E[r]
                                  [] OTHER                           -> entry[r]]
  /\ Close(t)

Abandon(t) ==
  /\ Close(t)
  /\ UNCHANGED entry

Next ==
  \/ \E r \in Rows : Enter(r)
  \/ \E t \in Transactions : Open(t) \/ Settle(t) \/ Abandon(t)
  \/ \E t \in Transactions, r \in Rows : Tell(t, r) \/ Fail(t, r)

Spec == Init /\ [][Next]_<<entry, messages, open, untried, told>>
=============================================================================

---------------------------- MODULE CallContract ----------------------------
(***************************************************************************)
(* What a client promises about its calls (doc/api.md, "Client and service *)
(* lifetime"): a call accepted while the client is open gets one answer,   *)
(* answers come in the order of acceptance, calls submitted before         *)
(* disposal drain, later calls fail.  When the worker is lost every        *)
(* unanswered call fails at once.                                          *)
(***************************************************************************)
EXTENDS Naturals, Sequences

CONSTANT Calls

VARIABLES
  status,     \* "idle", "accepted", "succeeded", "failed" or "rejected"
  accepted,   \* accepted calls in order
  lifecycle   \* "open", "closing" or "closed"

contractVars == <<status, accepted, lifecycle>>

Init ==
  /\ status = [c \in Calls |-> "idle"]
  /\ accepted = <<>>
  /\ lifecycle = "open"

Waiting == {c \in Calls : status[c] = "accepted"}

Accept(c) ==
  /\ lifecycle = "open"
  /\ status[c] = "idle"
  /\ status' = [status EXCEPT ![c] = "accepted"]
  /\ accepted' = Append(accepted, c)
  /\ UNCHANGED lifecycle

Reject(c) ==
  /\ lifecycle # "open"
  /\ status[c] = "idle"
  /\ status' = [status EXCEPT ![c] = "rejected"]
  /\ UNCHANGED <<accepted, lifecycle>>

\* The oldest waiting call gets its answer.
Answer(c) ==
  /\ \E i \in DOMAIN accepted :
       /\ accepted[i] = c
       /\ \A j \in 1..i-1 : accepted[j] \notin Waiting
  /\ c \in Waiting
  /\ \E s \in {"succeeded", "failed"} : status' = [status EXCEPT ![c] = s]
  /\ UNCHANGED <<accepted, lifecycle>>

FailWaiting == status' = [c \in Calls |-> IF c \in Waiting THEN "failed" ELSE status[c]]

\* The worker is lost; the client may notice its end only later.
Lose ==
  /\ lifecycle # "closed"
  /\ FailWaiting
  /\ lifecycle' \in {lifecycle, "closed"}
  /\ UNCHANGED accepted

BeginClose ==
  /\ lifecycle = "open"
  /\ lifecycle' = "closing"
  /\ UNCHANGED <<status, accepted>>

\* Disposal ends when every call has its answer.
Close ==
  /\ lifecycle = "closing"
  /\ Waiting = {}
  /\ lifecycle' = "closed"
  /\ UNCHANGED <<status, accepted>>

Progress == Lose \/ Close \/ \E c \in Calls : Answer(c)

Next ==
  \/ \E c \in Calls : Accept(c) \/ Reject(c)
  \/ Progress
  \/ BeginClose

Obliged == Waiting # {} \/ lifecycle = "closing"

Safety == Init /\ [][Next]_contractVars

Spec == Safety /\ WF_contractVars(Obliged /\ Progress)
=============================================================================

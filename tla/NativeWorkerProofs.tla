------------------------- MODULE NativeWorkerProofs -------------------------
(***************************************************************************)
(* Proofs about NativeWorker, for any calls and any number of events.      *)
(***************************************************************************)
EXTENDS NativeWorker, TLAPS

(***************************************************************************)
(* The inductive invariant.  Positions of the two queues are spelled out,  *)
(* so that order is a matter of comparing numbers.                         *)
(***************************************************************************)
Ended == {"ending", "ended"}
Sent == 1..Len(messages)
Mailed == 1..Len(mailbox)
Answers(i, r) == messages[i].kind = "response" /\ messages[i].request = r
Commands(i, r) == mailbox[i].kind = "command" /\ mailbox[i].request = r
NeverReady == \A i \in Sent : messages[i].kind # "ready"

\* A worker that starts has said, received and passed on nothing.
Starting ==
  worker = "starting" =>
    /\ client = "connecting"
    /\ messages = <<>> /\ mailbox = <<>>
    /\ ~relaying /\ ~lost
    /\ posted = 0 /\ heard = 0

\* A start that failed was never ready.
StartFailed ==
  \A i \in Sent : messages[i].kind = "startupFailed" =>
    client # "open" /\ NeverReady /\ worker \in Ended

\* Nothing is asked of a client that is not connected.
NotConnected == client # "open" => pending = {} /\ disposing = "no"

\* Nothing waits, or can come to wait, behind a closed port.
PortClosed ==
  ~portOpen =>
    /\ client = "failed" \/ exited \/ disposing # "no"
    /\ pending = {}
    /\ ~streamOpen

\* The exit is known when there was one, and nothing is received after it.
ExitKnown ==
  /\ exited => ~portOpen /\ worker \in Ended
  /\ \A i \in Sent : messages[i].kind = "exit" => worker = "ended"
  /\ worker \in Ended => mailbox = <<>> /\ ~relaying

\* _pending holds the calls that wait and a disposal that does.
PendingWaits ==
  /\ \A c \in Calls : status[c] = "accepted" <=> c \in pending
  /\ Dispose \in pending <=> disposing = "requested"

DisposalEnds ==
  /\ disposing = "done" => exited
  /\ disposing = "failed" => ~portOpen

\* A worker that was not lost ended because it was told to, or never began.
EndedOnPurpose ==
  worker \in Ended /\ ~lost =>
    disposing # "no" \/ (client # "open" /\ NeverReady)

Control ==
  /\ Starting /\ StartFailed /\ NotConnected /\ PortClosed /\ ExitKnown
  /\ PendingWaits /\ DisposalEnds /\ EndedOnPurpose

\* A call is accepted once, and what waits was accepted.
AcceptedOnce ==
  /\ \A m, n \in 1..Len(accepted) : accepted[m] = accepted[n] => m = n
  /\ \A m \in 1..Len(accepted) : status[accepted[m]] \notin {"idle", "rejected"}
  /\ \A c \in Calls : status[c] = "accepted" => \E m \in 1..Len(accepted) : accepted[m] = c

\* RunsInOrder, position by position.
RanInOrder ==
  /\ Len(executed) <= Len(accepted)
  /\ \A m \in 1..Len(executed) : executed[m] = accepted[m]

\* A worker that lives has in its mailbox the calls that are still to run,
\* in order.
StillToRun ==
  worker \notin Ended =>
    /\ \A i \in Mailed, c \in Calls : Commands(i, c) =>
         \E m \in Len(executed) + 1..Len(accepted) : accepted[m] = c
    /\ \A m \in Len(executed) + 1..Len(accepted) :
         \E i \in Mailed : Commands(i, accepted[m])
    /\ \A i, j \in Mailed, m, n \in 1..Len(accepted) :
         Commands(i, accepted[m]) /\ Commands(j, accepted[n]) /\ i < j => m < n

\* The command of a disposal is the last one.
DisposeLast ==
  /\ \A i \in Mailed : Commands(i, Dispose) => disposing # "no"
  /\ \A i, j \in Mailed : Commands(i, Dispose) /\ i < j => mailbox[j].kind # "command"

\* So is its answer, and it means that everything has run.
DisposeAnswered ==
  /\ \A i \in Sent : Answers(i, Dispose) =>
       /\ disposing # "no"
       /\ worker \in Ended
       /\ executed = accepted
       /\ \A j \in Sent : i < j => messages[j].kind # "response"
  /\ disposing = "awaitingExit" =>
       /\ worker \in Ended
       /\ executed = accepted
       /\ \A c \in Calls : status[c] # "accepted"

\* A call that ran and waits is answered by a message, in order, and no
\* message answers another one.
AnswersInOrder ==
  /\ portOpen => \A m \in 1..Len(executed) : status[executed[m]] = "accepted" =>
       \E i \in Sent : Answers(i, executed[m])
  /\ \A i \in Sent, c \in Calls : Answers(i, c) =>
       \E m \in 1..Len(executed) : executed[m] = c
  /\ \A i, j \in Sent, m, n \in 1..Len(accepted) :
       Answers(i, accepted[m]) /\ Answers(j, accepted[n]) /\ i < j => m < n

Order ==
  /\ AcceptedOnce /\ RanInOrder /\ StillToRun /\ DisposeLast /\ DisposeAnswered
  /\ AnswersInOrder

Inv == TypeOK /\ Control /\ Order

(***************************************************************************)
(* Events, while the application's stream is open.                         *)
(***************************************************************************)
Told(i) == messages[i].kind \in {"event", "streamDone", "eventError"}
Posted(i) == mailbox[i].kind # "command"

\* The messages carry the next numbers, without a gap.
ToldInOrder ==
  /\ \A i \in Sent : Told(i) =>
       /\ heard < messages[i].number /\ messages[i].number <= posted
       /\ \/ messages[i].number = heard + 1
          \/ \E j \in Sent : j < i /\ Told(j) /\ messages[j].number + 1 = messages[i].number
  /\ \A i, j \in Sent : Told(i) /\ Told(j) /\ i < j =>
       messages[i].number < messages[j].number

\* What waits for the worker goes on from there.
PostedInOrder ==
  /\ \A i \in Mailed : Posted(i) =>
       /\ heard < mailbox[i].number /\ mailbox[i].number <= posted
       /\ \A j \in Sent : Told(j) => messages[j].number < mailbox[i].number
       /\ \/ mailbox[i].number = heard + 1
          \/ \E j \in Sent : Told(j) /\ messages[j].number + 1 = mailbox[i].number
          \/ \E j \in Mailed : j < i /\ Posted(j)
                               /\ mailbox[j].number + 1 = mailbox[i].number
  /\ \A i, j \in Mailed : Posted(i) /\ Posted(j) /\ i < j =>
       mailbox[i].number < mailbox[j].number

\* The number posted last is somewhere on its way, or was heard.
LastPosted ==
  \/ posted = heard
  \/ \E j \in Sent : Told(j) /\ messages[j].number = posted
  \/ \E j \in Mailed : Posted(j) /\ mailbox[j].number = posted

Numbers ==
  streamOpen =>
    /\ heard <= posted
    /\ ToldInOrder
    /\ relaying => PostedInOrder /\ LastPosted

(***************************************************************************)
(* Queues.                                                                 *)
(***************************************************************************)
LEMMA Empty ==
  ASSUME NEW S
  PROVE  <<>> \in Seq(S)
OBVIOUS

LEMMA Appended ==
  ASSUME NEW S, NEW s \in Seq(S), NEW x \in S
  PROVE  /\ Append(s, x) \in Seq(S)
         /\ Len(Append(s, x)) = Len(s) + 1
         /\ \A i \in 1..Len(s) : Append(s, x)[i] = s[i]
         /\ Append(s, x)[Len(s) + 1] = x
OBVIOUS

LEMMA Taken ==
  ASSUME NEW S, NEW s \in Seq(S), s # <<>>
  PROVE  /\ Tail(s) \in Seq(S)
         /\ Len(s) \in Nat /\ Len(s) >= 1
         /\ Len(Tail(s)) = Len(s) - 1
         /\ Head(s) = s[1] /\ Head(s) \in S
         /\ \A i \in 1..Len(s) - 1 : Tail(s)[i] = s[i + 1]
OBVIOUS

LEMMA SameSequence ==
  ASSUME NEW S, NEW s \in Seq(S), NEW t \in Seq(S), Len(s) = Len(t),
         \A i \in 1..Len(s) : s[i] = t[i]
  PROVE  s = t
OBVIOUS

(***************************************************************************)
(* Types.                                                                  *)
(***************************************************************************)
\* The letters that are sent are letters.
LEMMA Letters ==
  /\ \A k \in {"ready", "startupFailed", "crashed", "exit"} : [kind |-> k] \in Message
  /\ \A r \in Requests, s \in {"succeeded", "failed"} :
       [kind |-> "response", request |-> r, status |-> s] \in Message
  /\ \A n \in Nat : [kind |-> "eventError", number |-> n] \in Message
  /\ \A mail \in Mail : mail.kind \in {"event", "streamDone"} => mail \in Message
BY DEF Message, Mail

LEMMA Parcels ==
  /\ \A r \in Requests : [kind |-> "command", request |-> r] \in Mail
  /\ \A k \in {"event", "streamDone", "undecodable"}, n \in Nat :
       [kind |-> k, number |-> n] \in Mail
  /\ \A mail \in Mail :
       /\ mail.kind = "command" => mail.request \in Requests
       /\ mail.kind # "command" =>
            mail.kind \in {"event", "streamDone", "undecodable"} /\ mail.number \in Nat
BY DEF Mail

LEMMA Contents ==
  \A m \in Message :
    /\ m.kind \in {"event", "streamDone", "eventError"} => m.number \in Nat
    /\ m.kind = "response" => m.request \in Requests /\ m.status \in {"succeeded", "failed"}
BY DEF Message

LEMMA WorkerTypes ==
  ASSUME TypeOK, Worker \/ WorkerStartFails \/ WorkerCrash \/ NativePost
  PROVE  TypeOK'
<1> USE DEF TypeOK, main, native, Settled, Requests, Tell
<1>1. CASE WorkerReady
  BY <1>1, Letters, Appended DEF WorkerReady
<1>2. CASE Relay
  <2> DEFINE mail == Head(mailbox)
             news == IF mail.kind = "undecodable"
                     THEN [kind |-> "eventError", number |-> mail.number] ELSE mail
  <2>1. mail \in Mail /\ mail.kind # "command" /\ Tail(mailbox) \in Seq(Mail)
    BY <1>2, Taken DEF Relay
  <2>2. news \in Message
    BY <2>1, Letters, Parcels
  <2>3. Append(messages, news) \in Seq(Message)
    BY <2>2, Appended
  <2> QED BY <1>2, <2>1, <2>3 DEF Relay
<1>3. CASE Execute
  <2>1. Head(mailbox).request \in Calls /\ Tail(mailbox) \in Seq(Mail)
    BY <1>3, Taken, Parcels DEF Execute
  <2>2. messages' \in Seq(Message)
    <3>1. PICK s \in {"succeeded", "failed"} :
            Tell([kind |-> "response", request |-> Head(mailbox).request, status |-> s])
      BY <1>3 DEF Execute
    <3>2. [kind |-> "response", request |-> Head(mailbox).request, status |-> s]
            \in Message
      BY <2>1, Letters
    <3> QED BY <3>1, <3>2, Appended
  <2> QED BY <1>3, <2>1, <2>2, Appended DEF Execute
<1>4. CASE ExecuteDispose
  BY <1>4, Letters, Empty, Appended DEF ExecuteDispose
<1>5. CASE WorkerExit
  BY <1>5, Letters, Appended DEF WorkerExit
<1>6. CASE WorkerStartFails
  BY <1>6, Letters, Appended DEF WorkerStartFails
<1>7. CASE WorkerCrash
  BY <1>7, Letters, Empty, Appended DEF WorkerCrash
<1>8. CASE NativePost
  BY <1>8, Parcels, Appended DEF NativePost, Send
<1> QED BY <1>1, <1>2, <1>3, <1>4, <1>5, <1>6, <1>7, <1>8 DEF Worker

LEMMA Received ==
  ASSUME TypeOK, OnMessage
  PROVE  /\ portOpen
         /\ messages # <<>>
         /\ Head(messages) \in Message
         /\ Tail(messages) \in Seq(Message)
<1>1. portOpen /\ messages # <<>>
  BY DEF OnMessage, OnReady, OnStartupFailed, OnEvent, OnStreamDone,
         OnEventError, OnResponse, OnCrash, OnExit, Receive
<1> QED BY <1>1, Taken DEF TypeOK

LEMMA ClientTypes ==
  ASSUME TypeOK,
         (\E c \in Calls : Call(c) \/ CallRefused(c)) \/ DisposeClient \/ OnMessage
  PROVE  TypeOK'
<1> USE DEF TypeOK, main, native, Settled, Requests
<1>1. ASSUME NEW c \in Calls, Call(c)
      PROVE  TypeOK'
  BY <1>1, Parcels, Appended DEF Call, Send
<1>2. ASSUME NEW c \in Calls, CallRefused(c)
      PROVE  TypeOK'
  BY <1>2 DEF CallRefused
<1>3. CASE DisposeClient
  <2>1. Append(mailbox, [kind |-> "command", request |-> Dispose]) \in Seq(Mail)
    BY Parcels, Appended
  <2> QED BY <1>3, <2>1 DEF DisposeClient, Send
<1>4. CASE OnMessage
  <2>1. CASE OnReady
    BY <2>1, <1>4, Received DEF OnReady, Receive
  <2>2. CASE OnStartupFailed
    BY <2>2, Empty DEF OnStartupFailed, Receive
  <2>3. CASE OnEvent \/ OnStreamDone \/ OnEventError
    <3>1. Head(messages).number \in Nat
      BY <2>3, <1>4, Received, Contents DEF OnEvent, OnStreamDone, OnEventError, Receive
    <3>2. CASE OnEvent
      BY <3>1, <3>2, <1>4, Received DEF OnEvent
    <3>3. CASE OnStreamDone
      BY <3>1, <3>3, <1>4, Received DEF OnStreamDone
    <3>4. CASE OnEventError
      BY <3>1, <3>4, <1>4, Received DEF OnEventError
    <3> QED BY <2>3, <3>2, <3>3, <3>4
  <2>4. CASE OnResponse
    BY <2>4, <1>4, Received, Contents DEF OnResponse, Receive
  <2>5. CASE OnCrash
    BY <2>5, <1>4, Received DEF OnCrash, FailPending
  <2>6. CASE OnExit
    BY <2>6, Empty DEF OnExit, FailPending
  <2> QED BY <1>4, <2>1, <2>2, <2>3, <2>4, <2>5, <2>6 DEF OnMessage
<1> QED BY <1>1, <1>2, <1>3, <1>4

LEMMA TypesInitially == Init => TypeOK
<1>1. <<>> \in Seq(Message) /\ <<>> \in Seq(Mail) /\ <<>> \in Seq(Calls)
  BY Empty
<1>2. Init => status \in [Calls -> {"idle", "accepted"} \cup Settled]
  BY DEF Init
<1>3. Init => exited \in BOOLEAN /\ portOpen \in BOOLEAN /\ streamOpen \in BOOLEAN
                /\ relaying \in BOOLEAN /\ lost \in BOOLEAN
  BY DEF Init
<1>4. Init => messages \in Seq(Message) /\ mailbox \in Seq(Mail)
                /\ accepted \in Seq(Calls) /\ executed \in Seq(Calls)
  BY <1>1 DEF Init
<1>5. Init => heard \in Nat /\ posted \in Nat /\ pending \subseteq Requests
  BY DEF Init
<1> QED BY <1>2, <1>3, <1>4, <1>5 DEF Init, TypeOK

\* Every variable keeps to the values the code can give it.
THEOREM TypeCorrect == Spec => []TypeOK
<1>2. TypeOK /\ [Next]_vars => TypeOK'
  <2> SUFFICES ASSUME TypeOK, [Next]_vars
               PROVE  TypeOK'
    OBVIOUS
  <2>1. CASE UNCHANGED vars
    BY <2>1 DEF vars, main, native, TypeOK
  <2> QED BY <2>1, WorkerTypes, ClientTypes DEF Next
<1> QED BY <1>2, TypesInitially, PTL DEF Spec

(***************************************************************************)
(* What a step does to the queues.                                         *)
(***************************************************************************)
LEMMA TellsOne ==
  ASSUME TypeOK, NEW m \in Message, Tell(m)
  PROVE  /\ Len(messages) \in Nat
         /\ portOpen =>
              /\ Sent' = 1..Len(messages) + 1
              /\ \A i \in Sent : i \in Sent' /\ messages'[i] = messages[i]
              /\ messages'[Len(messages) + 1] = m
         /\ \A i \in Sent' : i \notin Sent =>
              portOpen /\ i = Len(messages) + 1 /\ messages'[i] = m
         /\ \A i \in Sent : i \in Sent' /\ messages'[i] = messages[i]
<1>1. CASE portOpen
  <2>1. messages \in Seq(Message) /\ messages' = Append(messages, m)
    BY <1>1 DEF TypeOK, Tell
  <2>2. /\ Len(messages) \in Nat
        /\ Len(messages') = Len(messages) + 1
        /\ \A i \in 1..Len(messages) : messages'[i] = messages[i]
        /\ messages'[Len(messages) + 1] = m
    BY <2>1, Appended
  <2>3. Sent' = 1..Len(messages) + 1
    BY <2>2 DEF Sent
  <2>4. \A i \in Sent : i \in Sent' /\ messages'[i] = messages[i]
    BY <2>2, <2>3 DEF Sent
  <2>5. \A i \in Sent' : i \notin Sent => i = Len(messages) + 1
    BY <2>2, <2>3 DEF Sent
  <2> QED BY <1>1, <2>2, <2>3, <2>4, <2>5
<1>2. CASE ~portOpen
  <2>1. messages' = messages /\ Len(messages) \in Nat
    BY <1>2 DEF TypeOK, Tell
  <2>2. Sent' = Sent
    BY <2>1 DEF Sent
  <2> QED BY <1>2, <2>1, <2>2
<1> QED BY <1>1, <1>2

LEMMA TakesOne ==
  ASSUME TypeOK, OnMessage
  PROVE  /\ portOpen
         /\ Len(messages) \in Nat \ {0}
         /\ 1 \in Sent /\ messages[1] = Head(messages) /\ messages[1] \in Message
         /\ messages' = Tail(messages) =>
              /\ Sent' = 1..Len(messages) - 1
              /\ \A i \in Sent' : i + 1 \in Sent /\ messages'[i] = messages[i + 1]
         /\ messages' = <<>> => Sent' = {}
<1>1. portOpen /\ messages # <<>> /\ messages \in Seq(Message)
  BY Received DEF TypeOK
<1>2. /\ Len(messages) \in Nat /\ Len(messages) >= 1
      /\ Len(Tail(messages)) = Len(messages) - 1
      /\ Head(messages) = messages[1] /\ Head(messages) \in Message
      /\ \A i \in 1..Len(messages) - 1 : Tail(messages)[i] = messages[i + 1]
  BY <1>1, Taken
<1>3. Len(messages) \in Nat \ {0} /\ 1 \in Sent
  BY <1>2 DEF Sent
<1>4. ASSUME messages' = Tail(messages)
      PROVE  /\ Sent' = 1..Len(messages) - 1
             /\ \A i \in Sent' : i + 1 \in Sent /\ messages'[i] = messages[i + 1]
  <2>1. Sent' = 1..Len(messages) - 1
    BY <1>2, <1>4 DEF Sent
  <2> QED BY <1>2, <1>4, <2>1 DEF Sent
<1>5. messages' = <<>> => Sent' = {}
  BY DEF Sent
<1> QED BY <1>1, <1>2, <1>3, <1>4, <1>5

LEMMA SendsOne ==
  ASSUME TypeOK, NEW m \in Mail, Send(m)
  PROVE  /\ Len(mailbox) \in Nat
         /\ worker \in Ended => mailbox' = mailbox
         /\ worker \notin Ended =>
              /\ Mailed' = 1..Len(mailbox) + 1
              /\ mailbox'[Len(mailbox) + 1] = m
         /\ \A i \in Mailed' : i \notin Mailed =>
              worker \notin Ended /\ i = Len(mailbox) + 1 /\ mailbox'[i] = m
         /\ \A i \in Mailed : i \in Mailed' /\ mailbox'[i] = mailbox[i]
<1>1. CASE worker \notin Ended
  <2>1. mailbox \in Seq(Mail) /\ mailbox' = Append(mailbox, m)
    BY <1>1 DEF TypeOK, Send, Ended
  <2>2. /\ Len(mailbox) \in Nat
        /\ Len(mailbox') = Len(mailbox) + 1
        /\ \A i \in 1..Len(mailbox) : mailbox'[i] = mailbox[i]
        /\ mailbox'[Len(mailbox) + 1] = m
    BY <2>1, Appended
  <2>3. Mailed' = 1..Len(mailbox) + 1
    BY <2>2 DEF Mailed
  <2>4. \A i \in Mailed : i \in Mailed' /\ mailbox'[i] = mailbox[i]
    BY <2>2, <2>3 DEF Mailed
  <2>5. \A i \in Mailed' : i \notin Mailed => i = Len(mailbox) + 1
    BY <2>2, <2>3 DEF Mailed
  <2> QED BY <1>1, <2>2, <2>3, <2>4, <2>5
<1>2. CASE worker \in Ended
  <2>1. mailbox' = mailbox /\ Len(mailbox) \in Nat
    BY <1>2 DEF TypeOK, Send, Ended
  <2>2. Mailed' = Mailed
    BY <2>1 DEF Mailed
  <2> QED BY <1>2, <2>1, <2>2
<1> QED BY <1>1, <1>2

LEMMA ServesOne ==
  ASSUME TypeOK, mailbox # <<>>
  PROVE  /\ Len(mailbox) \in Nat \ {0}
         /\ 1 \in Mailed /\ mailbox[1] = Head(mailbox) /\ mailbox[1] \in Mail
         /\ mailbox' = Tail(mailbox) =>
              /\ Mailed' = 1..Len(mailbox) - 1
              /\ \A i \in Mailed' : i + 1 \in Mailed /\ mailbox'[i] = mailbox[i + 1]
<1>2. /\ Len(mailbox) \in Nat /\ Len(mailbox) >= 1
      /\ Len(Tail(mailbox)) = Len(mailbox) - 1
      /\ Head(mailbox) = mailbox[1] /\ Head(mailbox) \in Mail
      /\ \A i \in 1..Len(mailbox) - 1 : Tail(mailbox)[i] = mailbox[i + 1]
  BY Taken DEF TypeOK
<1>3. Len(mailbox) \in Nat \ {0} /\ 1 \in Mailed
  BY <1>2 DEF Mailed
<1>4. ASSUME mailbox' = Tail(mailbox)
      PROVE  /\ Mailed' = 1..Len(mailbox) - 1
             /\ \A i \in Mailed' : i + 1 \in Mailed /\ mailbox'[i] = mailbox[i + 1]
  <2>1. Mailed' = 1..Len(mailbox) - 1
    BY <1>2, <1>4 DEF Mailed
  <2> QED BY <1>2, <1>4, <2>1 DEF Mailed
<1> QED BY <1>2, <1>3, <1>4

(***************************************************************************)
(* Control.                                                                *)
(***************************************************************************)
LEMMA WorkerControl ==
  ASSUME Inv, TypeOK', Worker \/ WorkerStartFails \/ WorkerCrash \/ NativePost
  PROVE  Control'
<1> USE DEF Inv
<1> USE DEF Control, Starting, StartFailed, NotConnected, PortClosed, ExitKnown,
            PendingWaits, DisposalEnds, EndedOnPurpose, NeverReady, Ended, main, native
<1>1. CASE WorkerReady
  BY <1>1, Letters, TellsOne DEF WorkerReady
<1>2. CASE Relay
  <2>1. Head(mailbox) = mailbox[1] /\ mailbox[1] \in Mail
    BY <1>2, ServesOne DEF Relay
  <2>2. \/ UNCHANGED messages
        \/ \E m \in Message :
             m.kind \in {"event", "streamDone", "eventError"} /\ Tell(m)
    BY <1>2, <2>1, Letters, Parcels DEF Relay
  <2>3. \A i \in Sent' : \/ i \in Sent /\ messages'[i] = messages[i]
                         \/ messages'[i].kind \in {"event", "streamDone", "eventError"}
    BY <2>2, TellsOne DEF Sent
  <2>4. mailbox' = <<>> \/ worker \notin Ended
    BY <1>2 DEF Relay
  <2>5. UNCHANGED <<main, worker, lost>> /\ (relaying' => relaying) /\ worker = "serving"
    BY <1>2 DEF Relay
  <2> QED BY <2>3, <2>5
<1>4. CASE ExecuteDispose
  <2> DEFINE m == [kind |-> "response", request |-> Dispose, status |-> "succeeded"]
  <2>1. \A i \in Sent' : \/ i \in Sent /\ messages'[i] = messages[i]
                         \/ messages'[i].kind = "response"
    <3>1. m \in Message /\ Tell(m) /\ m.kind = "response"
      BY <1>4, Letters DEF ExecuteDispose, Requests
    <3> HIDE DEF m
    <3> QED BY <3>1, TellsOne
  <2>2. disposing # "no"
    BY <1>4, ServesOne DEF ExecuteDispose, Order, DisposeLast, Commands
  <2> QED BY <1>4, <2>1, <2>2 DEF ExecuteDispose
<1>5. CASE WorkerExit
  <2>1. \A i \in Sent' : \/ i \in Sent /\ messages'[i] = messages[i]
                         \/ messages'[i].kind = "exit"
    BY <1>5, Letters, TellsOne DEF WorkerExit
  <2> QED BY <1>5, <2>1 DEF WorkerExit
<1>6. CASE WorkerStartFails
  BY <1>6, Letters, TellsOne DEF WorkerStartFails
<1>7. CASE WorkerCrash
  <2>1. \A i \in Sent' : \/ i \in Sent /\ messages'[i] = messages[i]
                         \/ messages'[i].kind = "crashed"
    BY <1>7, Letters, TellsOne DEF WorkerCrash
  <2> QED BY <1>7, <2>1 DEF WorkerCrash
<1>8. CASE NativePost
  BY <1>8 DEF NativePost, Send, Sent
<1>3. CASE Execute
  <2>1. Head(mailbox).request \in Requests
    BY <1>3, ServesOne, Parcels DEF Execute
  <2>2. \E m \in Message : m.kind = "response" /\ Tell(m)
    BY <1>3, <2>1, Letters DEF Execute
  <2>3. \A i \in Sent' : \/ i \in Sent /\ messages'[i] = messages[i]
                         \/ messages'[i].kind = "response"
    BY <2>2, TellsOne
  <2>4. UNCHANGED <<main, worker, relaying, posted, lost>> /\ worker = "serving"
    BY <1>3 DEF Execute
  <2> QED BY <2>3, <2>4
<1> QED BY <1>1, <1>2, <1>3, <1>4, <1>5, <1>6, <1>7, <1>8 DEF Worker

LEMMA CallControl ==
  ASSUME Inv, TypeOK', (\E c \in Calls : Call(c) \/ CallRefused(c)) \/ DisposeClient
  PROVE  Control'
<1> USE DEF Inv
<1> USE DEF Control, Starting, StartFailed, NotConnected, PortClosed, ExitKnown,
            PendingWaits, DisposalEnds, EndedOnPurpose, NeverReady, Ended, main, native
<1>1. ASSUME NEW c \in Calls, Call(c)
      PROVE  Control'
  BY <1>1, WorkerAssumption DEF Call, Send, TypeOK, Sent
<1>2. ASSUME NEW c \in Calls, CallRefused(c)
      PROVE  Control'
  BY <1>2 DEF CallRefused, Sent, TypeOK
<1>3. CASE DisposeClient
  BY <1>3, WorkerAssumption DEF DisposeClient, Send, Sent
<1> QED BY <1>1, <1>2, <1>3

LEMMA MessageControl ==
  ASSUME Inv, TypeOK', OnMessage
  PROVE  Control'
<1> USE DEF Inv
<1> USE DEF Control, Starting, StartFailed, NotConnected, PortClosed, ExitKnown,
            PendingWaits, DisposalEnds, EndedOnPurpose, NeverReady, Ended, main, native
<1>0. messages # <<>> /\ worker # "starting" /\ UNCHANGED <<native, mailbox>>
  BY Received DEF OnMessage, OnReady, OnStartupFailed, OnEvent, OnStreamDone,
                  OnEventError, OnResponse, OnCrash, OnExit
<1>1. CASE OnReady
  BY <1>0, <1>1, TakesOne DEF OnReady, Receive
<1>2. CASE OnStartupFailed
  BY <1>0, <1>2, TakesOne DEF OnStartupFailed, Receive
<1>3. CASE OnEvent
  BY <1>0, <1>3, TakesOne DEF OnEvent, Receive
<1>4. CASE OnStreamDone
  BY <1>0, <1>4, TakesOne DEF OnStreamDone, Receive
<1>5. CASE OnEventError
  BY <1>0, <1>5, TakesOne DEF OnEventError, Receive
<1>6. CASE OnResponse
  <2> DEFINE r == Head(messages).request
  <2>1. r \in Requests /\ Head(messages).status \in {"succeeded", "failed"}
    BY <1>6, TakesOne, Contents DEF OnResponse, Receive
  <2>2. /\ pending' = pending \ {r}
        /\ status' = IF r \in pending \cap Calls
                     THEN [status EXCEPT ![r] = Head(messages).status] ELSE status
        /\ disposing' = IF r = Dispose /\ r \in pending THEN "awaitingExit" ELSE disposing
        /\ UNCHANGED <<client, exited, portOpen, streamOpen, heard>>
    BY <1>6 DEF OnResponse
  <2>3. \A i \in Sent' : i + 1 \in Sent /\ messages'[i] = messages[i + 1]
    BY <1>6, TakesOne DEF OnResponse
  <2> HIDE DEF r
  <2>4. PendingWaits'
    BY <2>1, <2>2, WorkerAssumption DEF TypeOK
  <2>5. \/ disposing' = disposing
        \/ disposing = "requested" /\ disposing' = "awaitingExit"
    BY <2>2
  <2>6. PortClosed' /\ NotConnected' /\ DisposalEnds' /\ Starting'
    BY <1>0, <2>2, <2>5
  <2>7. StartFailed' /\ ExitKnown' /\ EndedOnPurpose'
    BY <1>0, <2>2, <2>3, <2>5
  <2> HIDE DEF PendingWaits, PortClosed, NotConnected, DisposalEnds, Starting,
               StartFailed, ExitKnown, EndedOnPurpose
  <2> QED BY <2>4, <2>6, <2>7
<1>7. CASE OnCrash
  <2>1. PendingWaits'
    BY <1>7 DEF OnCrash, FailPending, TypeOK
  <2>2. \A i \in Sent' : i + 1 \in Sent /\ messages'[i] = messages[i + 1]
    BY <1>7, TakesOne DEF OnCrash
  <2>3. /\ portOpen' <=> client = "open" /\ Dispose \notin pending
        /\ streamOpen' <=> streamOpen /\ portOpen'
        /\ pending' = {} /\ UNCHANGED <<exited, heard, native, mailbox>>
        /\ client' = IF client = "connecting" THEN "failed" ELSE client
        /\ disposing' = IF Dispose \in pending THEN "failed" ELSE disposing
    BY <1>7 DEF OnCrash, FailPending
  <2>4. Starting' /\ NotConnected' /\ DisposalEnds'
    BY <1>0, <2>3, TakesOne
  <2>5. PortClosed'
    BY <2>3 DEF TypeOK
  <2>6. StartFailed' /\ ExitKnown'
    BY <1>0, <2>2, <2>3, TakesOne
  <2>7. EndedOnPurpose'
    BY <1>0, <2>2, <2>3
  <2> HIDE DEF PendingWaits, PortClosed, NotConnected, DisposalEnds, Starting,
               StartFailed, ExitKnown, EndedOnPurpose
  <2> QED BY <2>1, <2>4, <2>5, <2>6, <2>7
<1>8. CASE OnExit
  <2>1. PendingWaits'
    BY <1>8 DEF OnExit, FailPending, TypeOK
  <2>2. Sent' = {}
    BY <1>8, TakesOne DEF OnExit
  <2>3. PortClosed' /\ NotConnected' /\ DisposalEnds' /\ Starting'
    BY <1>0, <1>8 DEF OnExit, FailPending, TypeOK
  <2>4. worker = "ended"
    BY <1>8, TakesOne DEF OnExit, Receive
  <2>5. StartFailed' /\ ExitKnown'
    BY <1>0, <1>8, <2>2, <2>4 DEF OnExit
  <2>6. EndedOnPurpose'
    BY <1>0, <1>8, <2>2 DEF OnExit
  <2> HIDE DEF PendingWaits, PortClosed, NotConnected, DisposalEnds, Starting,
               StartFailed, ExitKnown, EndedOnPurpose
  <2> QED BY <2>1, <2>3, <2>5, <2>6
<1> QED BY <1>1, <1>2, <1>3, <1>4, <1>5, <1>6, <1>7, <1>8 DEF OnMessage

(***************************************************************************)
(* Order.                                                                  *)
(***************************************************************************)
\* A message that is no answer changes nothing about the answers.
LEMMA OtherTold ==
  ASSUME Inv, NEW m \in Message, Tell(m), m.kind # "response",
         UNCHANGED <<accepted, executed, status, disposing, portOpen>>,
         worker \in Ended => worker' \in Ended
  PROVE  DisposeAnswered' /\ AnswersInOrder'
<1>1. /\ \A i \in Sent' : i \notin Sent => messages'[i].kind # "response"
      /\ \A i \in Sent : i \in Sent' /\ messages'[i] = messages[i]
  BY TellsOne DEF Inv
<1>2. \A i \in Sent' : \A r : Answers(i, r)' => i \in Sent /\ Answers(i, r)
  BY <1>1 DEF Answers
<1>3. \A i \in Sent : \A r : Answers(i, r) => i \in Sent' /\ Answers(i, r)'
  BY <1>1 DEF Answers
<1>4. DisposeAnswered'
  BY <1>1, <1>2 DEF Inv, Order, DisposeAnswered
<1>5. AnswersInOrder'
  BY <1>2, <1>3 DEF Inv, Order, AnswersInOrder
<1> QED BY <1>4, <1>5

\* The receipt of a message moves the others up.
LEMMA AnswersMove ==
  ASSUME Inv, OnMessage, messages' = Tail(messages)
  PROVE  /\ \A i \in Sent' : i + 1 \in Sent /\ messages'[i] = messages[i + 1]
         /\ \A i \in Sent' : \A r : Answers(i, r)' <=> Answers(i + 1, r)
         /\ \A i \in Sent : \A r : Answers(i, r) /\ ~Answers(1, r) =>
              \E j \in Sent' : Answers(j, r)'
         /\ \A i, j \in Sent' : i < j => i + 1 < j + 1
<1>1. /\ Len(messages) \in Nat \ {0}
      /\ Sent' = 1..Len(messages) - 1
      /\ \A i \in Sent' : i + 1 \in Sent /\ messages'[i] = messages[i + 1]
  BY TakesOne DEF Inv
<1>2. \A i \in Sent' : \A r : Answers(i, r)' <=> Answers(i + 1, r)
  BY <1>1 DEF Answers
<1>3. ASSUME NEW i \in Sent, NEW r, Answers(i, r), ~Answers(1, r)
      PROVE  \E j \in Sent' : Answers(j, r)'
  <2>1. i \in 1..Len(messages) /\ i # 1
    BY <1>3 DEF Sent
  <2>2. i - 1 \in Sent' /\ (i - 1) + 1 = i
    BY <1>1, <2>1
  <2> QED BY <1>2, <1>3, <2>2
<1>4. \A i, j \in Sent' : i < j => i + 1 < j + 1
  BY <1>1
<1> QED BY <1>1, <1>2, <1>3, <1>4

\* The receipt of a message that is no answer changes nothing about them.
LEMMA OtherReceived ==
  ASSUME Inv, OnMessage, messages' = Tail(messages), Head(messages).kind # "response",
         UNCHANGED <<accepted, executed, status, disposing, portOpen, worker>>
  PROVE  DisposeAnswered' /\ AnswersInOrder'
<1>1. \A r : ~Answers(1, r)
  BY TakesOne DEF Inv, Answers
<1>2. DisposeAnswered'
  <2>1. ASSUME NEW i \in Sent', Answers(i, Dispose)'
        PROVE  /\ disposing # "no" /\ worker \in Ended /\ executed = accepted
               /\ \A j \in Sent' : i < j => messages'[j].kind # "response"
    <3>1. i + 1 \in Sent /\ Answers(i + 1, Dispose)
      BY <2>1, AnswersMove
    <3> QED BY <3>1, AnswersMove DEF Inv, Order, DisposeAnswered
  <2> QED BY <2>1 DEF Inv, Order, DisposeAnswered, Ended
<1>3. AnswersInOrder'
  <2>1. \A k \in 1..Len(executed) : status[executed[k]] = "accepted" /\ portOpen =>
          \E i \in Sent' : Answers(i, executed[k])'
    BY <1>1, AnswersMove DEF Inv, Order, AnswersInOrder
  <2>2. \A i \in Sent', c \in Calls : Answers(i, c)' =>
          \E k \in 1..Len(executed) : executed[k] = c
    BY AnswersMove DEF Inv, Order, AnswersInOrder
  <2>3. \A i, j \in Sent', k, n \in 1..Len(accepted) :
          Answers(i, accepted[k])' /\ Answers(j, accepted[n])' /\ i < j => k < n
    BY AnswersMove DEF Inv, Order, AnswersInOrder
  <2> QED BY <2>1, <2>2, <2>3 DEF AnswersInOrder
<1> QED BY <1>2, <1>3

\* An event in the mailbox changes nothing about the commands in it.
LEMMA EventServed ==
  ASSUME Inv, mailbox # <<>>, mailbox' = Tail(mailbox), Head(mailbox).kind # "command",
         UNCHANGED <<accepted, executed, disposing, worker>>
  PROVE  StillToRun' /\ DisposeLast'
<1>1. /\ Len(mailbox) \in Nat \ {0} /\ mailbox[1].kind # "command"
      /\ Mailed' = 1..Len(mailbox) - 1
      /\ \A i \in Mailed' : i + 1 \in Mailed /\ mailbox'[i] = mailbox[i + 1]
  BY ServesOne DEF Inv
<1>2. \A i \in Mailed' : \A r : Commands(i, r)' <=> Commands(i + 1, r)
  BY <1>1 DEF Commands
<1>3. ASSUME NEW i \in Mailed, NEW r, Commands(i, r)
      PROVE  i - 1 \in Mailed' /\ Commands(i - 1, r)'
  <2>1. i \in 1..Len(mailbox) /\ i # 1
    BY <1>1, <1>3 DEF Commands, Mailed
  <2>2. i - 1 \in Mailed' /\ (i - 1) + 1 = i
    BY <1>1, <2>1
  <2> QED BY <1>2, <1>3, <2>2
<1>4. \A i, j \in Mailed' : i < j => i + 1 < j + 1
  BY <1>1
<1>5. StillToRun'
  <2> SUFFICES ASSUME worker \notin Ended
               PROVE  StillToRun'
    BY DEF StillToRun, Ended
  <2>1. \A i \in Mailed', c \in Calls : Commands(i, c)' =>
          \E m \in Len(executed) + 1..Len(accepted) : accepted[m] = c
    BY <1>1, <1>2 DEF Inv, Order, StillToRun
  <2>2. \A m \in Len(executed) + 1..Len(accepted) :
          \E i \in Mailed' : Commands(i, accepted[m])'
    BY <1>3 DEF Inv, Order, StillToRun
  <2>3. \A i, j \in Mailed', m, n \in 1..Len(accepted) :
          Commands(i, accepted[m])' /\ Commands(j, accepted[n])' /\ i < j => m < n
    BY <1>1, <1>2, <1>4 DEF Inv, Order, StillToRun
  <2> QED BY <2>1, <2>2, <2>3 DEF StillToRun
<1>6. DisposeLast'
  BY <1>1, <1>2, <1>4 DEF Inv, Order, DisposeLast
<1> QED BY <1>5, <1>6

LEMMA EventPosted ==
  ASSUME Inv, NEW m \in Mail, Send(m), m.kind # "command",
         UNCHANGED <<accepted, executed, disposing, worker>>
  PROVE  StillToRun' /\ DisposeLast'
<1>1. /\ \A i \in Mailed' : i \notin Mailed => mailbox'[i].kind # "command"
      /\ \A i \in Mailed : i \in Mailed' /\ mailbox'[i] = mailbox[i]
  BY SendsOne DEF Inv
<1>2. \A i \in Mailed' : \A r : Commands(i, r)' => i \in Mailed /\ Commands(i, r)
  BY <1>1 DEF Commands
<1>3. \A i \in Mailed : \A r : Commands(i, r) => i \in Mailed' /\ Commands(i, r)'
  BY <1>1 DEF Commands
<1>4. StillToRun'
  BY <1>2, <1>3 DEF Inv, Order, StillToRun, Ended
<1>5. DisposeLast'
  BY <1>1, <1>2 DEF Inv, Order, DisposeLast
<1> QED BY <1>4, <1>5

\* A worker that ends takes its mailbox with it.
LEMMA MailboxDropped ==
  ASSUME mailbox' = <<>>, worker' \in Ended
  PROVE  StillToRun' /\ DisposeLast'
BY DEF StillToRun, DisposeLast, Mailed, Ended

\* A mailbox that is left alone still holds what is to run.
LEMMA SameMailbox ==
  ASSUME Inv, UNCHANGED <<mailbox, accepted, executed>>,
         worker \in Ended => worker' \in Ended,
         disposing # "no" => disposing' # "no"
  PROVE  StillToRun' /\ DisposeLast'
<1>1. UNCHANGED Mailed /\ \A i, r : Commands(i, r)' <=> Commands(i, r)
  BY DEF Mailed, Commands
<1>2. StillToRun /\ DisposeLast
  BY DEF Inv, Order
<1>3. StillToRun'
  BY <1>1, <1>2 DEF StillToRun
<1>4. DisposeLast'
  BY <1>1, <1>2 DEF DisposeLast
<1> QED BY <1>3, <1>4

LEMMA SameMessages ==
  ASSUME Inv, UNCHANGED <<messages, accepted, executed, status, disposing, portOpen>>,
         worker \in Ended => worker' \in Ended
  PROVE  DisposeAnswered' /\ AnswersInOrder'
<1>1. UNCHANGED Sent /\ \A i, r : Answers(i, r)' <=> Answers(i, r)
  BY DEF Sent, Answers
<1>2. DisposeAnswered /\ AnswersInOrder
  BY DEF Inv, Order
<1>3. DisposeAnswered'
  BY <1>1, <1>2 DEF DisposeAnswered
<1>4. AnswersInOrder'
  BY <1>1, <1>2 DEF AnswersInOrder
<1> QED BY <1>3, <1>4

LEMMA SameAccepted ==
  ASSUME Inv, UNCHANGED <<accepted, status>>
  PROVE  AcceptedOnce'
BY DEF Inv, Order, AcceptedOnce

LEMMA SameRan ==
  ASSUME Inv, UNCHANGED <<accepted, executed>>
  PROVE  RanInOrder'
BY DEF Inv, Order, RanInOrder

\* The worker runs the oldest call that has not run.
LEMMA NextToRun ==
  ASSUME Inv, Execute
  PROVE  LET k == Len(executed) + 1
             c == Head(mailbox).request
         IN  /\ k \in 1..Len(accepted) /\ accepted[k] = c /\ c \in Calls
             /\ Len(executed') = k
             /\ \A m \in 1..Len(executed) : executed'[m] = executed[m]
             /\ executed'[k] = c
             /\ \A i \in Mailed : i > 1 => ~Commands(i, c)
<1> DEFINE k == Len(executed) + 1
           c == Head(mailbox).request
<1>1. c \in Calls /\ 1 \in Mailed /\ Commands(1, c) /\ worker \notin Ended
      /\ mailbox # <<>> /\ executed' = Append(executed, c)
  BY ServesOne, Parcels DEF Inv, Execute, Commands, Ended, Requests
<1>2. /\ executed \in Seq(Calls) /\ Len(executed) \in Nat /\ Len(accepted) \in Nat
      /\ Mailed \subseteq Nat
  BY DEF Inv, TypeOK, Mailed
<1> HIDE DEF c
<1>3. PICK m \in Len(executed) + 1..Len(accepted) : accepted[m] = c
  BY <1>1 DEF Inv, Order, StillToRun
<1>4. k \in Len(executed) + 1..Len(accepted) /\ k <= m /\ k \in 1..Len(accepted)
      /\ m \in 1..Len(accepted)
  BY <1>2, <1>3
<1>5. k = m
  <2> SUFFICES ASSUME k # m
               PROVE  FALSE
    OBVIOUS
  <2>1. PICK i \in Mailed : Commands(i, accepted[k])
    BY <1>1, <1>4 DEF Inv, Order, StillToRun
  <2>2. accepted[k] # c
    BY <1>3, <1>4 DEF Inv, Order, AcceptedOnce
  <2>3. i # 1
    BY <1>1, <2>1, <2>2 DEF Commands
  <2>4. 1 < i
    BY <2>3 DEF Mailed
  <2>5. m < k
    BY <1>1, <1>3, <1>4, <2>1, <2>4 DEF Inv, Order, StillToRun
  <2> QED BY <1>2, <1>4, <2>5
<1>6. Len(executed') = k /\ executed'[k] = c
      /\ \A n \in 1..Len(executed) : executed'[n] = executed[n]
  BY <1>1, <1>2, Appended
<1>7. \A i \in Mailed : i > 1 => ~Commands(i, c)
  <2> SUFFICES ASSUME NEW i \in Mailed, i > 1, Commands(i, c)
               PROVE  FALSE
    OBVIOUS
  <2>1. 1 < i /\ accepted[k] = c
    BY <1>2, <1>3, <1>5
  <2>2. k < k
    BY <1>1, <1>4, <2>1 DEF Inv, Order, StillToRun
  <2> QED BY <1>2, <2>2
<1> QED BY <1>1, <1>3, <1>4, <1>5, <1>6, <1>7 DEF c

LEMMA ExecuteOrder ==
  ASSUME Inv, Execute
  PROVE  Order'
<1> DEFINE k == Len(executed) + 1
           c == Head(mailbox).request
<1>1. /\ k \in 1..Len(accepted) /\ accepted[k] = c /\ c \in Calls
      /\ Len(executed') = k /\ k \in Nat /\ Len(executed) \in Nat /\ Len(accepted) \in Nat
      /\ \A m \in 1..Len(executed) : executed'[m] = executed[m]
      /\ executed'[k] = c
      /\ \A i \in Mailed : i > 1 => ~Commands(i, c)
  BY NextToRun DEF Inv, TypeOK
<1>2. /\ UNCHANGED <<accepted, status, disposing, portOpen, worker>>
      /\ worker = "serving"
      /\ mailbox # <<>> /\ mailbox' = Tail(mailbox)
      /\ Commands(1, c)
  BY ServesOne DEF Inv, Execute, Commands, main
<1>3. PICK s \in {"succeeded", "failed"} :
        Tell([kind |-> "response", request |-> c, status |-> s])
  BY DEF Execute
<1> DEFINE m0 == [kind |-> "response", request |-> c, status |-> s]
<1>4. m0 \in Message /\ m0.kind = "response" /\ m0.request = c
  BY <1>1, Letters DEF Requests
<1>5. Tell(m0)
  BY <1>3
<1> HIDE DEF m0, c
<1>6. /\ Len(messages) \in Nat
      /\ portOpen => /\ Sent' = 1..Len(messages) + 1
                     /\ messages'[Len(messages) + 1] = m0
      /\ \A i \in Sent' : i \notin Sent =>
           portOpen /\ i = Len(messages) + 1 /\ messages'[i] = m0
      /\ \A i \in Sent : i \in Sent' /\ messages'[i] = messages[i]
  BY <1>4, <1>5, TellsOne DEF Inv
<1>7. AcceptedOnce'
  BY <1>2, SameAccepted
<1>8. RanInOrder'
  <2>1. \A m \in 1..k : m \in 1..Len(executed) \/ m = k
    BY <1>1
  <2> QED BY <1>1, <1>2, <2>1 DEF Inv, Order, RanInOrder
<1>9. StillToRun' /\ DisposeLast'
  <2>1. /\ Len(mailbox) \in Nat \ {0}
        /\ Mailed' = 1..Len(mailbox) - 1
        /\ \A i \in Mailed' : i + 1 \in Mailed /\ mailbox'[i] = mailbox[i + 1]
    BY <1>2, ServesOne DEF Inv
  <2>2. \A i \in Mailed' : \A r : Commands(i, r)' <=> Commands(i + 1, r)
    BY <2>1 DEF Commands
  <2>3. ASSUME NEW i \in Mailed, NEW r, Commands(i, r), r # c
        PROVE  i - 1 \in Mailed' /\ Commands(i - 1, r)'
    <3>1. i \in 1..Len(mailbox) /\ i # 1
      BY <1>2, <2>3 DEF Commands, Mailed
    <3>2. i - 1 \in Mailed' /\ (i - 1) + 1 = i
      BY <2>1, <3>1
    <3> QED BY <2>2, <2>3, <3>2
  <2>4. \A i, j \in Mailed' : i < j => i + 1 < j + 1
    BY <2>1
  <2>5. ASSUME NEW i \in Mailed', NEW d \in Calls, Commands(i, d)'
        PROVE  \E m \in k + 1..Len(accepted) : accepted[m] = d
    <3>1. i + 1 \in Mailed /\ Commands(i + 1, d) /\ i + 1 > 1
      BY <2>1, <2>2, <2>5
    <3>2. PICK m \in Len(executed) + 1..Len(accepted) : accepted[m] = d
      BY <1>2, <3>1 DEF Inv, Order, StillToRun, Ended
    <3>3. d # c
      BY <1>1, <3>1
    <3>4. m # k
      BY <1>1, <3>2, <3>3
    <3>5. m \in k + 1..Len(accepted)
      BY <1>1, <3>4
    <3> QED BY <3>2, <3>5
  <2>6. ASSUME NEW m \in k + 1..Len(accepted)
        PROVE  \E i \in Mailed' : Commands(i, accepted[m])'
    <3>1. m \in Len(executed) + 1..Len(accepted) /\ m \in 1..Len(accepted) /\ m # k
      BY <1>1
    <3>2. accepted[m] # c
      BY <1>1, <3>1 DEF Inv, Order, AcceptedOnce
    <3>3. PICK i \in Mailed : Commands(i, accepted[m])
      BY <1>2, <3>1 DEF Inv, Order, StillToRun, Ended
    <3> QED BY <1>2, <2>3, <3>2, <3>3
  <2>7. \A i, j \in Mailed', m, n \in 1..Len(accepted) :
          Commands(i, accepted[m])' /\ Commands(j, accepted[n])' /\ i < j => m < n
    BY <1>2, <2>1, <2>2, <2>4 DEF Inv, Order, StillToRun, Ended
  <2>8. StillToRun'
    BY <1>1, <1>2, <2>5, <2>6, <2>7 DEF StillToRun
  <2>9. DisposeLast'
    BY <1>2, <2>1, <2>2, <2>4 DEF Inv, Order, DisposeLast
  <2> QED BY <2>8, <2>9
<1>10. DisposeAnswered'
  <2>1. \A i \in Sent : ~Answers(i, Dispose)
    BY <1>2 DEF Inv, Order, DisposeAnswered, Ended
  <2>2. \A i \in Sent' : ~Answers(i, Dispose)'
    BY <1>1, <1>4, <1>6, <2>1, WorkerAssumption DEF Answers
  <2>3. disposing' # "awaitingExit"
    BY <1>2 DEF Inv, Order, DisposeAnswered, Ended
  <2> QED BY <2>2, <2>3 DEF DisposeAnswered
<1>11. AnswersInOrder'
  <2>1. \A i \in Sent : \A r : Answers(i, r) => i \in Sent' /\ Answers(i, r)'
    BY <1>6 DEF Answers
  <2>2. \A i \in Sent' : \A r : Answers(i, r)' =>
          \/ i \in Sent /\ Answers(i, r)
          \/ i \notin Sent /\ i = Len(messages) + 1 /\ r = c
    BY <1>4, <1>6 DEF Answers
  <2>3. ASSUME portOpen, NEW m \in 1..k, status[executed'[m]] = "accepted"
        PROVE  \E i \in Sent' : Answers(i, executed[m])'
    <3>1. CASE m \in 1..Len(executed)
      <4>1. executed'[m] = executed[m] /\ status[executed[m]] = "accepted"
        BY <1>1, <2>3, <3>1
      <4>2. PICK i \in Sent : Answers(i, executed[m])
        BY <2>3, <3>1, <4>1 DEF Inv, Order, AnswersInOrder
      <4>3. i \in Sent' /\ Answers(i, executed[m])'
        BY <2>1, <4>1, <4>2
      <4> QED BY <4>3
    <3>2. CASE m = k
      <4>1. Len(messages) + 1 \in Sent'
        BY <1>6, <2>3
      <4>2. \E i \in Sent' : i = Len(messages) + 1 /\ Answers(i, executed[m])'
        BY <1>1, <1>4, <1>6, <2>3, <3>2, <4>1 DEF Answers
      <4> QED BY <4>2
    <3> QED BY <1>1, <3>1, <3>2
  <2>4. ASSUME NEW i \in Sent', NEW d \in Calls, Answers(i, d)'
        PROVE  \E m \in 1..k : executed'[m] = d
    <3>1. CASE i \in Sent /\ Answers(i, d)
      <4>1. PICK m \in 1..Len(executed) : executed[m] = d
        BY <3>1 DEF Inv, Order, AnswersInOrder
      <4>2. m \in 1..k
        BY <1>1
      <4> QED BY <1>1, <4>1, <4>2
    <3>2. CASE d = c
      <4>1. k \in 1..k
        BY <1>1
      <4> QED BY <1>1, <3>2, <4>1
    <3> QED BY <2>2, <2>4, <3>1, <3>2
  <2>5. ASSUME NEW i \in Sent', NEW j \in Sent',
               NEW m \in 1..Len(accepted), NEW n \in 1..Len(accepted),
               Answers(i, accepted[m])', Answers(j, accepted[n])', i < j
        PROVE  m < n
    <3>1. i \in Sent /\ Answers(i, accepted[m])
      <4> SUFFICES ASSUME i \notin Sent
                   PROVE  FALSE
        BY <1>2, <2>2, <2>5
      <4>1. portOpen /\ i = Len(messages) + 1 /\ Sent' = 1..Len(messages) + 1
        BY <1>6
      <4> QED BY <1>6, <2>5, <4>1
    <3>2. CASE j \in Sent /\ Answers(j, accepted[n])
      BY <2>5, <3>1, <3>2 DEF Inv, Order, AnswersInOrder
    <3>3. CASE accepted[n] = c
      <4>1. n = k
        BY <1>1, <3>3 DEF Inv, Order, AcceptedOnce
      <4>2. accepted[m] \in Calls
        BY DEF Inv, TypeOK
      <4>3. PICK p \in 1..Len(executed) : executed[p] = accepted[m]
        BY <3>1, <4>2 DEF Inv, Order, AnswersInOrder
      <4>4. p \in 1..Len(accepted) /\ accepted[p] = accepted[m] /\ p < k
        BY <1>1, <4>3 DEF Inv, Order, RanInOrder
      <4>5. p = m
        BY <4>4 DEF Inv, Order, AcceptedOnce
      <4> QED BY <4>1, <4>4, <4>5
    <3> QED BY <1>2, <2>2, <2>5, <3>2, <3>3
  <2> QED BY <1>1, <1>2, <2>3, <2>4, <2>5 DEF AnswersInOrder
<1> QED BY <1>7, <1>8, <1>9, <1>10, <1>11 DEF Order

\* A disposal is run when everything that was accepted has run.
LEMMA ExecuteDisposeOrder ==
  ASSUME Inv, ExecuteDispose
  PROVE  Order'
<1> DEFINE m == [kind |-> "response", request |-> Dispose, status |-> "succeeded"]
<1>1. /\ UNCHANGED <<accepted, executed, status, disposing, portOpen>>
      /\ mailbox' = <<>> /\ worker = "serving" /\ worker' = "ending"
      /\ Commands(1, Dispose) /\ 1 \in Mailed
      /\ m \in Message /\ m.kind = "response" /\ m.request = Dispose /\ Tell(m)
  <2>1. /\ UNCHANGED <<accepted, executed, status, disposing, portOpen>>
        /\ mailbox' = <<>> /\ worker = "serving" /\ worker' = "ending"
    BY DEF ExecuteDispose, main
  <2>2. Commands(1, Dispose) /\ 1 \in Mailed
    BY ServesOne DEF Inv, ExecuteDispose, Commands
  <2>3. m \in Message /\ m.kind = "response" /\ m.request = Dispose /\ Tell(m)
    BY Letters DEF ExecuteDispose, Requests
  <2> QED BY <2>1, <2>2, <2>3
<1> HIDE DEF m
<1>2. disposing # "no"
  BY <1>1 DEF Inv, Order, DisposeLast
<1>3. executed = accepted
  <2>1. executed \in Seq(Calls) /\ accepted \in Seq(Calls)
        /\ Len(executed) \in Nat /\ Len(accepted) \in Nat
    BY DEF Inv, TypeOK
  <2>2. ASSUME NEW k \in Len(executed) + 1..Len(accepted)
        PROVE  FALSE
    <3>1. PICK i \in Mailed : Commands(i, accepted[k])
      BY <1>1 DEF Inv, Order, StillToRun, Ended
    <3>2. accepted[k] # Dispose
      BY <2>1, WorkerAssumption
    <3>3. i # 1
      BY <1>1, <3>1, <3>2 DEF Commands
    <3>4. 1 < i
      BY <3>3 DEF Mailed
    <3> QED BY <1>1, <3>1, <3>4 DEF Inv, Order, DisposeLast, Commands
  <2>3. Len(executed) = Len(accepted)
    <3>1. Len(executed) <= Len(accepted)
      BY DEF Inv, Order, RanInOrder
    <3>2. Len(executed) < Len(accepted) =>
            Len(executed) + 1 \in Len(executed) + 1..Len(accepted)
      BY <2>1
    <3> QED BY <2>1, <2>2, <3>1, <3>2
  <2>4. \A k \in 1..Len(executed) : executed[k] = accepted[k]
    BY DEF Inv, Order, RanInOrder
  <2> QED BY <2>1, <2>3, <2>4, SameSequence
<1>4. /\ \A i \in Sent' : i \notin Sent =>
           portOpen /\ i = Len(messages) + 1 /\ Sent' = 1..Len(messages) + 1
           /\ messages'[i] = m
      /\ \A i \in Sent : i \in Sent' /\ messages'[i] = messages[i]
      /\ Len(messages) \in Nat
  BY <1>1, TellsOne DEF Inv
<1>5. AcceptedOnce' /\ RanInOrder'
  BY <1>1, SameAccepted, SameRan
<1>6. StillToRun' /\ DisposeLast'
  BY <1>1, MailboxDropped DEF Ended
<1>7. DisposeAnswered'
  <2>1. ASSUME NEW i \in Sent', Answers(i, Dispose)'
        PROVE  \A j \in Sent' : i < j => messages'[j].kind # "response"
    <3>1. i \notin Sent
      BY <1>1, <1>4, <2>1 DEF Inv, Order, DisposeAnswered, Answers, Ended
    <3> QED BY <1>4, <3>1
  <2>2. disposing' # "awaitingExit"
    BY <1>1 DEF Inv, Order, DisposeAnswered, Ended
  <2> QED BY <1>1, <1>2, <1>3, <2>1, <2>2 DEF DisposeAnswered, Ended
<1>8. AnswersInOrder'
  <2>1. \A i \in Sent : \A r : Answers(i, r) => i \in Sent' /\ Answers(i, r)'
    BY <1>4 DEF Answers
  <2>2. \A i \in Sent', c \in Calls : Answers(i, c)' => i \in Sent /\ Answers(i, c)
    BY <1>1, <1>4, WorkerAssumption DEF Answers
  <2>3. \A k \in 1..Len(accepted) : accepted[k] \in Calls
    BY DEF Inv, TypeOK
  <2> QED BY <1>1, <2>1, <2>2, <2>3 DEF Inv, Order, AnswersInOrder
<1> QED BY <1>5, <1>6, <1>7, <1>8 DEF Order

LEMMA WorkerOrder ==
  ASSUME Inv, Worker \/ WorkerStartFails \/ WorkerCrash \/ NativePost
  PROVE  Order'
<1> USE DEF main, Order
<1>1. CASE WorkerReady
  <2>1. DisposeAnswered' /\ AnswersInOrder'
    BY <1>1, Letters, OtherTold DEF WorkerReady, Ended
  <2>2. StillToRun' /\ DisposeLast'
    BY <1>1, SameMailbox DEF WorkerReady, Ended
  <2> QED BY <1>1, <2>1, <2>2, SameAccepted, SameRan DEF WorkerReady
<1>2. CASE Relay
  <2>1. Head(mailbox) \in Mail
    BY <1>2, ServesOne DEF Inv, Relay
  <2>2. DisposeAnswered' /\ AnswersInOrder'
    <3>1. CASE UNCHANGED messages
      BY <1>2, <3>1, SameMessages DEF Relay
    <3>2. CASE \E m \in Message : m.kind # "response" /\ Tell(m)
      BY <1>2, <3>2, OtherTold DEF Relay
    <3> QED BY <1>2, <2>1, <3>1, <3>2, Letters, Parcels DEF Relay
  <2>3. StillToRun' /\ DisposeLast'
    BY <1>2, EventServed DEF Relay
  <2> QED BY <1>2, <2>2, <2>3, SameAccepted, SameRan DEF Relay
<1>3. CASE Execute
  BY <1>3, ExecuteOrder
<1>4. CASE ExecuteDispose
  BY <1>4, ExecuteDisposeOrder
<1>5. CASE WorkerExit
  <2>1. DisposeAnswered' /\ AnswersInOrder'
    BY <1>5, Letters, OtherTold DEF WorkerExit, Ended
  <2>2. mailbox' = <<>>
    BY <1>5 DEF WorkerExit, Inv, Control, ExitKnown, Ended
  <2> QED BY <1>5, <2>1, <2>2, MailboxDropped, SameAccepted, SameRan DEF WorkerExit, Ended
<1>6. CASE WorkerStartFails
  <2>1. DisposeAnswered' /\ AnswersInOrder'
    BY <1>6, Letters, OtherTold DEF WorkerStartFails, Ended
  <2>2. mailbox' = <<>>
    BY <1>6 DEF WorkerStartFails, Inv, Control, Starting
  <2> QED BY <1>6, <2>1, <2>2, MailboxDropped, SameAccepted, SameRan
          DEF WorkerStartFails, Ended
<1>7. CASE WorkerCrash
  <2>1. DisposeAnswered' /\ AnswersInOrder'
    BY <1>7, Letters, OtherTold DEF WorkerCrash, Ended
  <2> QED BY <1>7, <2>1, MailboxDropped, SameAccepted, SameRan DEF WorkerCrash, Ended
<1>8. CASE NativePost
  <2>1. DisposeAnswered' /\ AnswersInOrder'
    BY <1>8, SameMessages DEF NativePost
  <2>2. posted' \in Nat
    BY <1>8 DEF Inv, TypeOK, NativePost
  <2>3. StillToRun' /\ DisposeLast'
    BY <1>8, <2>2, Parcels, EventPosted DEF NativePost
  <2> QED BY <1>8, <2>1, <2>3, SameAccepted, SameRan DEF NativePost
<1> QED BY <1>1, <1>2, <1>3, <1>4, <1>5, <1>6, <1>7, <1>8 DEF Worker

LEMMA CallOrder ==
  ASSUME Inv, NEW c \in Calls, Call(c)
  PROVE  Order'
<1> DEFINE k == Len(accepted) + 1
           m == [kind |-> "command", request |-> c]
<1>1. /\ UNCHANGED <<disposing, portOpen, messages, worker, executed>>
      /\ status[c] = "idle" /\ disposing = "no"
      /\ status' = [status EXCEPT ![c] = "accepted"]
      /\ accepted' = Append(accepted, c)
      /\ m \in Mail /\ m.kind = "command" /\ m.request = c /\ Send(m)
  BY Parcels DEF Call, native, Requests
<1> HIDE DEF m
<1>2. /\ accepted \in Seq(Calls) /\ executed \in Seq(Calls)
      /\ Len(accepted) \in Nat /\ Len(executed) \in Nat
      /\ \A d \in Calls : status'[d] = IF d = c THEN "accepted" ELSE status[d]
      /\ \A n \in 1..Len(accepted) : accepted[n] \in Calls
      /\ \A n \in 1..Len(executed) : executed[n] \in Calls
  BY <1>1 DEF Inv, TypeOK
<1>3. /\ Len(accepted') = k /\ accepted'[k] = c /\ k \in 1..k
      /\ \A n \in 1..Len(accepted) : accepted'[n] = accepted[n] /\ n \in 1..k
      /\ \A n \in 1..k : n = k \/ n \in 1..Len(accepted)
  BY <1>1, <1>2, Appended
<1>4. \A n \in 1..Len(accepted) : accepted[n] # c
  BY <1>1 DEF Inv, Order, AcceptedOnce
<1>5. /\ Len(mailbox) \in Nat
      /\ worker \notin Ended =>
           Mailed' = 1..Len(mailbox) + 1 /\ mailbox'[Len(mailbox) + 1] = m
      /\ \A i \in Mailed' : i \notin Mailed =>
           worker \notin Ended /\ i = Len(mailbox) + 1 /\ mailbox'[i] = m
      /\ \A i \in Mailed : i \in Mailed' /\ mailbox'[i] = mailbox[i]
  BY <1>1, SendsOne DEF Inv
<1>6. AcceptedOnce'
  <2>1. \A n, p \in 1..k : accepted'[n] = accepted'[p] => n = p
    BY <1>3, <1>4 DEF Inv, Order, AcceptedOnce
  <2>2. \A n \in 1..k : status'[accepted'[n]] \notin {"idle", "rejected"}
    BY <1>2, <1>3, <1>4 DEF Inv, Order, AcceptedOnce
  <2>3. \A d \in Calls : status'[d] = "accepted" => \E n \in 1..k : accepted'[n] = d
    BY <1>2, <1>3 DEF Inv, Order, AcceptedOnce
  <2> QED BY <1>3, <2>1, <2>2, <2>3 DEF AcceptedOnce
<1>7. RanInOrder'
  <2>1. Len(executed) <= Len(accepted)
    BY DEF Inv, Order, RanInOrder
  <2>2. Len(executed) <= k /\ \A n \in 1..Len(executed) : n \in 1..Len(accepted)
    BY <1>2, <2>1
  <2> QED BY <1>1, <1>3, <2>2 DEF Inv, Order, RanInOrder
<1>8. \A i \in Mailed : \A r : Commands(i, r) => i \in Mailed' /\ Commands(i, r)'
  BY <1>5 DEF Commands
<1>9. \A i \in Mailed' : \A r : Commands(i, r)' =>
        \/ i \in Mailed /\ Commands(i, r)
        \/ i \notin Mailed /\ i = Len(mailbox) + 1 /\ r = c
  BY <1>1, <1>5 DEF Commands
<1>10. StillToRun'
  <2> SUFFICES ASSUME worker \notin Ended
               PROVE  StillToRun'
    BY <1>1 DEF StillToRun, Ended
  <2>1. ASSUME NEW i \in Mailed', NEW d \in Calls, Commands(i, d)'
        PROVE  \E n \in Len(executed) + 1..k : accepted'[n] = d
    <3>1. CASE i \in Mailed /\ Commands(i, d)
      <4>1. PICK n \in Len(executed) + 1..Len(accepted) : accepted[n] = d
        BY <3>1 DEF Inv, Order, StillToRun
      <4>2. n \in Len(executed) + 1..k /\ n \in 1..Len(accepted)
        BY <1>2
      <4> QED BY <1>3, <4>1, <4>2
    <3>2. CASE d = c
      <4>1. Len(executed) <= Len(accepted)
        BY DEF Inv, Order, RanInOrder
      <4>2. k \in Len(executed) + 1..k
        BY <1>2, <4>1
      <4> QED BY <1>3, <3>2, <4>2
    <3> QED BY <1>9, <2>1, <3>1, <3>2
  <2>2. ASSUME NEW n \in Len(executed) + 1..k
        PROVE  \E i \in Mailed' : Commands(i, accepted[n])'
    <3>1. CASE n = k
      <4>1. Len(mailbox) + 1 \in Mailed'
        BY <1>5
      <4>2. mailbox'[Len(mailbox) + 1].kind = "command"
            /\ mailbox'[Len(mailbox) + 1].request = c
        BY <1>1, <1>5
      <4> QED BY <1>3, <3>1, <4>1, <4>2 DEF Commands
    <3>2. CASE n # k
      <4>1. n \in Len(executed) + 1..Len(accepted) /\ n \in 1..Len(accepted)
        BY <1>2, <3>2
      <4>2. PICK i \in Mailed : Commands(i, accepted[n])
        BY <4>1 DEF Inv, Order, StillToRun
      <4>3. accepted'[n] = accepted[n]
        BY <1>3, <4>1
      <4>4. i \in Mailed' /\ mailbox'[i] = mailbox[i]
        BY <1>5
      <4> QED BY <4>2, <4>3, <4>4 DEF Commands
    <3> QED BY <3>1, <3>2
  <2>3. ASSUME NEW i \in Mailed', NEW j \in Mailed', NEW n \in 1..k, NEW p \in 1..k,
               Commands(i, accepted[n])', Commands(j, accepted[p])', i < j
        PROVE  n < p
    <3>1. i \in Mailed
      <4> SUFFICES ASSUME i \notin Mailed
                   PROVE  FALSE
        OBVIOUS
      <4>1. i = Len(mailbox) + 1 /\ Mailed' = 1..Len(mailbox) + 1
        BY <1>5
      <4> QED BY <1>5, <2>3, <4>1
    <3>2. ASSUME NEW d \in Calls, Commands(i, d)
          PROVE  d # c
      <4>1. PICK q \in Len(executed) + 1..Len(accepted) : accepted[q] = d
        BY <3>1, <3>2 DEF Inv, Order, StillToRun
      <4>2. q \in 1..Len(accepted)
        BY <1>2
      <4> QED BY <1>4, <4>1, <4>2
    <3>3. n \in 1..Len(accepted) /\ Commands(i, accepted[n])
      <4>1. accepted'[n] \in Calls
        BY <1>2, <1>3
      <4>2. Commands(i, accepted'[n])
        BY <1>5, <2>3, <3>1 DEF Commands
      <4> QED BY <1>3, <3>2, <4>1, <4>2
    <3>4. CASE p = k
      BY <1>2, <3>3, <3>4
    <3>5. CASE p # k
      <4>1. p \in 1..Len(accepted) /\ accepted'[p] = accepted[p] /\ accepted[p] # c
        BY <1>3, <1>4, <3>5
      <4>2. j \in Mailed
        BY <1>1, <1>5, <2>3, <4>1 DEF Commands
      <4>3. Commands(j, accepted[p])
        BY <1>5, <2>3, <4>1, <4>2 DEF Commands
      <4> QED BY <2>3, <3>1, <3>3, <4>1, <4>2, <4>3 DEF Inv, Order, StillToRun
    <3> QED BY <3>4, <3>5
  <2> QED BY <1>1, <1>3, <2>1, <2>2, <2>3 DEF StillToRun
<1>11. DisposeLast'
  BY <1>1, <1>9, WorkerAssumption DEF Inv, Order, DisposeLast
<1>12. DisposeAnswered'
  BY <1>1 DEF Inv, Order, DisposeAnswered, Sent, Answers
<1>13. AnswersInOrder'
  <2>1. \A n \in 1..Len(executed) : executed[n] # c /\ executed[n] \in Calls
    BY <1>2, <1>4 DEF Inv, Order, RanInOrder
  <2>2. Sent' = Sent
    BY <1>1 DEF Sent
  <2>3. \A i \in Sent : messages'[i] = messages[i] /\ ~Answers(i, c)
    BY <1>1, <2>1 DEF Inv, Order, AnswersInOrder
  <2>4. portOpen' => \A n \in 1..Len(executed) : status'[executed[n]] = "accepted" =>
          \E i \in Sent : Answers(i, executed[n])
    BY <1>1, <1>2, <2>1 DEF Inv, Order, AnswersInOrder
  <2>5. \A i, j \in Sent, n, p \in 1..k :
          Answers(i, accepted'[n]) /\ Answers(j, accepted'[p]) /\ i < j => n < p
    BY <1>3, <2>3 DEF Inv, Order, AnswersInOrder
  <2>6. \A i \in Sent, d \in Calls : Answers(i, d) =>
          \E n \in 1..Len(executed) : executed[n] = d
    BY DEF Inv, Order, AnswersInOrder
  <2> QED BY <1>1, <1>3, <2>2, <2>4, <2>5, <2>6 DEF AnswersInOrder, Answers
<1> QED BY <1>6, <1>7, <1>10, <1>11, <1>12, <1>13 DEF Order

\* A refusal and the request of a disposal.
LEMMA OtherCallsOrder ==
  ASSUME Inv, (\E c \in Calls : CallRefused(c)) \/ DisposeClient
  PROVE  Order'
<1>1. ASSUME NEW c \in Calls, CallRefused(c)
      PROVE  Order'
  <2>1. /\ UNCHANGED <<accepted, executed, disposing, portOpen, messages, mailbox, worker>>
        /\ status[c] = "idle"
        /\ \A d \in Calls : status'[d] = IF d = c THEN "rejected" ELSE status[d]
    BY <1>1 DEF CallRefused, native, Inv, TypeOK
  <2>2. /\ \A n \in 1..Len(accepted) : accepted[n] \in Calls
        /\ \A n \in 1..Len(executed) : executed[n] \in Calls
    BY DEF Inv, TypeOK
  <2>3. AcceptedOnce'
    BY <2>1, <2>2 DEF Inv, Order, AcceptedOnce
  <2>4. RanInOrder' /\ StillToRun' /\ DisposeLast'
    BY <2>1, SameRan, SameMailbox
  <2>5. DisposeAnswered'
    BY <2>1 DEF Inv, Order, DisposeAnswered, Sent, Answers
  <2>6. AnswersInOrder'
    BY <2>1, <2>2 DEF Inv, Order, AnswersInOrder, Sent, Answers
  <2> QED BY <2>3, <2>4, <2>5, <2>6 DEF Order
<1>2. CASE DisposeClient
  <2> DEFINE m == [kind |-> "command", request |-> Dispose]
  <2>1. /\ UNCHANGED <<accepted, executed, status, portOpen, messages, worker>>
        /\ disposing = "no" /\ disposing' \notin {"no", "awaitingExit"}
        /\ m \in Mail /\ m.kind = "command" /\ m.request = Dispose
        /\ UNCHANGED mailbox \/ Send(m)
    BY <1>2, Parcels DEF DisposeClient, native, Requests
  <2> HIDE DEF m
  <2>2. AcceptedOnce' /\ RanInOrder'
    BY <2>1, SameAccepted, SameRan
  <2>3. StillToRun' /\ DisposeLast'
    <3>1. CASE UNCHANGED mailbox
      BY <2>1, <3>1, SameMailbox
    <3>2. CASE Send(m)
      <4>1. /\ Len(mailbox) \in Nat /\ Mailed \subseteq 1..Len(mailbox)
            /\ \A i \in Mailed' : i \notin Mailed =>
                 i = Len(mailbox) + 1 /\ mailbox'[i] = m /\ Mailed' = 1..Len(mailbox) + 1
            /\ \A i \in Mailed : i \in Mailed' /\ mailbox'[i] = mailbox[i]
        BY <2>1, <3>2, SendsOne DEF Inv, Mailed
      <4>2. \A i \in Mailed : \A r : Commands(i, r) => i \in Mailed' /\ Commands(i, r)'
        BY <4>1 DEF Commands
      <4>3. \A i \in Mailed', c \in Calls : Commands(i, c)' => i \in Mailed /\ Commands(i, c)
        BY <2>1, <4>1, WorkerAssumption DEF Commands
      <4>4. \A n \in 1..Len(accepted) : accepted[n] \in Calls
        BY DEF Inv, TypeOK
      <4>5. StillToRun'
        BY <2>1, <4>2, <4>3, <4>4 DEF Inv, Order, StillToRun
      <4>6. ASSUME NEW i \in Mailed', NEW j \in Mailed', Commands(i, Dispose)', i < j
            PROVE  FALSE
        <5>1. i \notin Mailed
          BY <2>1, <4>1, <4>6 DEF Inv, Order, DisposeLast, Commands
        <5> QED BY <4>1, <4>6, <5>1
      <4> QED BY <2>1, <4>5, <4>6 DEF DisposeLast
    <3> QED BY <2>1, <3>1, <3>2
  <2>4. DisposeAnswered'
    BY <2>1 DEF Inv, Order, DisposeAnswered, Sent, Answers
  <2>5. AnswersInOrder'
    BY <2>1 DEF Inv, Order, AnswersInOrder, Sent, Answers
  <2> QED BY <2>2, <2>3, <2>4, <2>5 DEF Order
<1> QED BY <1>1, <1>2

\* Calls that fail together with the worker.
LEMMA FailedAccepted ==
  ASSUME Inv, FailPending, UNCHANGED accepted
  PROVE  AcceptedOnce' /\ \A c \in Calls : status'[c] # "accepted"
<1>1. \A c \in Calls : status'[c] = IF status[c] = "accepted" THEN "failed" ELSE status[c]
  BY DEF FailPending, Inv, Control, PendingWaits
<1>2. \A n \in 1..Len(accepted) : accepted[n] \in Calls
  BY DEF Inv, TypeOK
<1> QED BY <1>1, <1>2 DEF Inv, Order, AcceptedOnce

LEMMA ResponseOrder ==
  ASSUME Inv, OnResponse
  PROVE  Order'
<1> DEFINE r == Head(messages).request
<1>1. /\ OnMessage /\ messages' = Tail(messages) /\ portOpen
      /\ UNCHANGED <<accepted, executed, portOpen, mailbox, worker>>
      /\ \A x : Answers(1, x) <=> x = r
      /\ \/ disposing' = disposing
         \/ r = Dispose /\ disposing = "requested" /\ disposing' = "awaitingExit"
      /\ r \in Requests /\ 1 \in Sent /\ Sent \subseteq Nat
  <2>1. OnMessage
    BY DEF OnMessage
  <2>2. r = messages[1].request /\ messages[1].kind = "response" /\ 1 \in Sent
        /\ messages[1] \in Message
    BY <2>1, TakesOne DEF OnResponse, Receive, Inv
  <2>3. messages' = Tail(messages) /\ portOpen
        /\ UNCHANGED <<accepted, executed, portOpen, mailbox, worker>>
    BY DEF OnResponse, Receive, native
  <2>4. \/ disposing' = disposing
        \/ r = Dispose /\ disposing = "requested" /\ disposing' = "awaitingExit"
    BY DEF OnResponse, Inv, Control, PendingWaits
  <2> QED BY <2>1, <2>2, <2>3, <2>4, Contents DEF Answers, Sent
<1>2. \A c \in Calls : /\ c # r => status'[c] = status[c]
                       /\ c = r => status'[c] # "accepted"
                                   /\ (status'[c] # status[c] => status[c] = "accepted"
                                         /\ status'[c] \in {"succeeded", "failed"})
  <2>1. Head(messages).status \in {"succeeded", "failed"}
    BY <1>1, TakesOne, Contents DEF OnResponse, Receive, Inv
  <2> QED BY <2>1 DEF OnResponse, Inv, TypeOK, Control, PendingWaits
<1> HIDE DEF r
<1>3. /\ \A n \in 1..Len(accepted) : accepted[n] \in Calls
      /\ \A n \in 1..Len(executed) : executed[n] \in Calls
  BY DEF Inv, TypeOK
<1>4. AcceptedOnce'
  BY <1>1, <1>2, <1>3 DEF Inv, Order, AcceptedOnce
<1>5. RanInOrder' /\ StillToRun' /\ DisposeLast'
  BY <1>1, SameRan, SameMailbox
<1>6. DisposeAnswered'
  <2>1. ASSUME NEW i \in Sent', Answers(i, Dispose)'
        PROVE  /\ disposing # "no" /\ worker \in Ended /\ executed = accepted
               /\ \A j \in Sent' : i < j => messages'[j].kind # "response"
    <3>1. i + 1 \in Sent /\ Answers(i + 1, Dispose)
      BY <1>1, <2>1, AnswersMove
    <3> QED BY <1>1, <3>1, AnswersMove DEF Inv, Order, DisposeAnswered
  <2>2. ASSUME disposing' = "awaitingExit", disposing = "awaitingExit"
        PROVE  /\ worker \in Ended /\ executed = accepted
               /\ \A c \in Calls : status'[c] # "accepted"
    BY <1>2, <2>2 DEF Inv, Order, DisposeAnswered
  <2>3. ASSUME disposing' = "awaitingExit", disposing # "awaitingExit"
        PROVE  /\ worker \in Ended /\ executed = accepted
               /\ \A c \in Calls : status'[c] # "accepted"
    <3>1. Answers(1, Dispose)
      BY <1>1, <2>3
    <3>2. /\ worker \in Ended /\ executed = accepted
          /\ \A j \in Sent : 1 < j => messages[j].kind # "response"
      BY <1>1, <3>1 DEF Inv, Order, DisposeAnswered
    <3>3. ASSUME NEW c \in Calls, status[c] = "accepted"
          PROVE  FALSE
      <4>1. PICK n \in 1..Len(accepted) : accepted[n] = c
        BY <3>3 DEF Inv, Order, AcceptedOnce
      <4>2. PICK i \in Sent : Answers(i, c)
        BY <1>1, <3>2, <3>3, <4>1 DEF Inv, Order, AnswersInOrder
      <4>3. i # 1
        BY <1>1, <3>1, <4>2, WorkerAssumption
      <4>4. 1 < i
        BY <4>3 DEF Sent
      <4> QED BY <3>2, <4>2, <4>4 DEF Answers
    <3> QED BY <1>2, <3>2, <3>3
  <2> QED BY <1>1, <2>1, <2>2, <2>3 DEF DisposeAnswered, Ended
<1>7. AnswersInOrder'
  <2>1. ASSUME NEW k \in 1..Len(executed), status'[executed[k]] = "accepted"
        PROVE  \E i \in Sent' : Answers(i, executed[k])'
    <3>1. executed[k] # r /\ status[executed[k]] = "accepted"
      BY <1>2, <1>3, <2>1
    <3>2. PICK i \in Sent : Answers(i, executed[k])
      BY <1>1, <3>1 DEF Inv, Order, AnswersInOrder
    <3>3. ~Answers(1, executed[k])
      BY <1>1, <3>1
    <3>4. PICK d : d = executed[k]
      OBVIOUS
    <3>5. PICK j \in Sent' : Answers(j, d)'
      BY <1>1, <3>2, <3>3, <3>4, AnswersMove
    <3> QED BY <1>1, <3>4, <3>5 DEF Answers
  <2>2. \A i \in Sent', c \in Calls : Answers(i, c)' =>
          \E k \in 1..Len(executed) : executed[k] = c
    BY <1>1, AnswersMove DEF Inv, Order, AnswersInOrder
  <2>3. \A i, j \in Sent', k, n \in 1..Len(accepted) :
          Answers(i, accepted[k])' /\ Answers(j, accepted[n])' /\ i < j => k < n
    BY <1>1, AnswersMove DEF Inv, Order, AnswersInOrder
  <2> QED BY <1>1, <2>1, <2>2, <2>3 DEF AnswersInOrder
<1> QED BY <1>4, <1>5, <1>6, <1>7 DEF Order

LEMMA MessageOrder ==
  ASSUME Inv, OnMessage
  PROVE  Order'
<1> USE DEF native
<1>0. /\ UNCHANGED <<accepted, executed, mailbox, worker>>
      /\ RanInOrder'
  BY SameRan DEF OnMessage, OnReady, OnStartupFailed, OnEvent, OnStreamDone,
                 OnEventError, OnResponse, OnCrash, OnExit
<1>1. CASE OnReady \/ OnEvent \/ OnStreamDone \/ OnEventError
  <2>1. /\ UNCHANGED <<status, disposing, portOpen>> /\ messages' = Tail(messages)
        /\ Head(messages).kind # "response"
    BY <1>1 DEF OnReady, OnEvent, OnStreamDone, OnEventError, Receive
  <2>2. StillToRun' /\ DisposeLast'
    BY <1>0, <2>1, SameMailbox
  <2> QED BY <1>0, <2>1, <2>2, OtherReceived, SameAccepted DEF Order
<1>2. CASE OnStartupFailed \/ OnExit
  <2>1. /\ portOpen' = FALSE /\ Sent' = {}
        /\ disposing # "no" => disposing' # "no"
        /\ disposing' = "awaitingExit" => FALSE \/ UNCHANGED <<status, disposing>>
    BY <1>2, TakesOne DEF OnStartupFailed, OnExit, Inv
  <2>2. AcceptedOnce'
    BY <1>0, <1>2, SameAccepted, FailedAccepted DEF OnStartupFailed, OnExit
  <2>3. StillToRun' /\ DisposeLast'
    BY <1>0, <2>1, SameMailbox
  <2>4. DisposeAnswered'
    BY <1>0, <2>1 DEF Inv, Order, DisposeAnswered
  <2>5. AnswersInOrder'
    BY <2>1 DEF AnswersInOrder
  <2> QED BY <1>0, <2>2, <2>3, <2>4, <2>5 DEF Order
<1>3. CASE OnResponse
  BY <1>3, ResponseOrder
<1>4. CASE OnCrash
  <2>1. /\ \A c \in Calls : status'[c] # "accepted"
        /\ AcceptedOnce'
    BY <1>0, <1>4, FailedAccepted DEF OnCrash
  <2>2. disposing' = disposing \/ disposing' = "failed"
    BY <1>4 DEF OnCrash
  <2>3. StillToRun' /\ DisposeLast'
    BY <1>0, <2>2, SameMailbox
  <2>4. \A n \in 1..Len(executed) : executed[n] \in Calls
    BY DEF Inv, TypeOK
  <2>5. CASE messages' = <<>>
    <3>1. Sent' = {}
      BY <2>5 DEF Sent
    <3>2. DisposeAnswered'
      BY <1>0, <2>1, <2>2, <3>1 DEF Inv, Order, DisposeAnswered
    <3>3. AnswersInOrder'
      BY <1>0, <2>1, <2>4, <3>1 DEF AnswersInOrder
    <3> QED BY <1>0, <2>1, <2>3, <3>2, <3>3 DEF Order
  <2>6. CASE messages' = Tail(messages)
    <3>1. ASSUME NEW i \in Sent', Answers(i, Dispose)'
          PROVE  /\ disposing # "no" /\ worker \in Ended /\ executed = accepted
                 /\ \A j \in Sent' : i < j => messages'[j].kind # "response"
      <4>1. i + 1 \in Sent /\ Answers(i + 1, Dispose)
        BY <2>6, <3>1, AnswersMove
      <4> QED BY <2>6, <4>1, AnswersMove DEF Inv, Order, DisposeAnswered
    <3>2. DisposeAnswered'
      BY <1>0, <2>1, <2>2, <3>1 DEF Inv, Order, DisposeAnswered, Ended
    <3>3. \A i \in Sent', c \in Calls : Answers(i, c)' =>
            \E k \in 1..Len(executed) : executed[k] = c
      BY <2>6, AnswersMove DEF Inv, Order, AnswersInOrder
    <3>4. \A i, j \in Sent', k, n \in 1..Len(accepted) :
            Answers(i, accepted[k])' /\ Answers(j, accepted[n])' /\ i < j => k < n
      BY <1>0, <2>6, AnswersMove DEF Inv, Order, AnswersInOrder
    <3>5. AnswersInOrder'
      BY <1>0, <2>1, <2>4, <3>3, <3>4 DEF AnswersInOrder
    <3> QED BY <1>0, <2>1, <2>3, <3>2, <3>5 DEF Order
  <2> QED BY <1>4, <2>5, <2>6 DEF OnCrash
<1> QED BY <1>1, <1>2, <1>3, <1>4 DEF OnMessage

(***************************************************************************)
(* The invariant and what follows from it.                                 *)
(***************************************************************************)
LEMMA InvInitially == Init => Inv
<1> SUFFICES ASSUME Init
             PROVE  Inv
  OBVIOUS
<1>1. TypeOK
  BY TypesInitially
<1>2. Sent = {} /\ Mailed = {} /\ Len(accepted) = 0 /\ Len(executed) = 0
  BY DEF Init, Sent, Mailed
<1>3. Control
  BY <1>2, WorkerAssumption DEF Init, Control, Starting, StartFailed, NotConnected,
    PortClosed, ExitKnown, PendingWaits, DisposalEnds, EndedOnPurpose, Ended
<1>4. Order
  BY <1>2 DEF Init, Order, AcceptedOnce, RanInOrder, StillToRun, DisposeLast,
    DisposeAnswered, AnswersInOrder
<1> QED BY <1>1, <1>3, <1>4 DEF Inv

LEMMA InvStep == Inv /\ [Next]_vars => Inv'
<1> SUFFICES ASSUME Inv, [Next]_vars
             PROVE  Inv'
  OBVIOUS
<1>1. CASE UNCHANGED vars
  <2>1. TypeOK'
    BY <1>1 DEF Inv, TypeOK, vars, main, native
  <2>2. Control'
    BY <1>1 DEF Inv, Control, Starting, StartFailed, NotConnected, PortClosed,
      ExitKnown, PendingWaits, DisposalEnds, EndedOnPurpose, NeverReady, Sent,
      vars, main, native
  <2>3. Order'
    <3>1. UNCHANGED <<status, disposing, portOpen, messages, worker, mailbox,
                      accepted, executed>>
      BY <1>1 DEF vars, main, native
    <3>2. AcceptedOnce' /\ RanInOrder'
      BY <3>1, SameAccepted, SameRan
    <3>3. StillToRun' /\ DisposeLast'
      BY <3>1 DEF Inv, Order, StillToRun, DisposeLast, Mailed, Commands
    <3>4. DisposeAnswered' /\ AnswersInOrder'
      BY <3>1, SameMessages
    <3> QED BY <3>2, <3>3, <3>4 DEF Order
  <2> QED BY <2>1, <2>2, <2>3 DEF Inv
<1>2. CASE Next
  <2>1. TypeOK'
    BY <1>2, WorkerTypes, ClientTypes DEF Inv, Next
  <2>2. Control'
    BY <1>2, <2>1, WorkerControl, CallControl, MessageControl DEF Next
  <2>3. Order'
    BY <1>2, WorkerOrder, CallOrder, OtherCallsOrder, MessageOrder DEF Next
  <2> QED BY <2>1, <2>2, <2>3 DEF Inv
<1> QED BY <1>1, <1>2

LEMMA Invariance == Spec => []Inv
BY InvInitially, InvStep, PTL DEF Spec

\* Commands run in the order in which their calls were accepted, each once.
THEOREM RunsInOrderHolds == Spec => []RunsInOrder
<1>1. Inv => RunsInOrder
  <2> SUFFICES ASSUME Inv
               PROVE  RunsInOrder
    OBVIOUS
  <2> DEFINE run == SubSeq(accepted, 1, Len(executed))
  <2>1. /\ accepted \in Seq(Calls) /\ executed \in Seq(Calls)
        /\ Len(executed) \in Nat /\ Len(accepted) \in Nat
        /\ Len(executed) <= Len(accepted)
        /\ \A m \in 1..Len(executed) : executed[m] = accepted[m]
    BY DEF Inv, TypeOK, Order, RanInOrder
  <2>2. /\ run \in Seq(Calls) /\ Len(run) = Len(executed)
        /\ \A m \in 1..Len(executed) : run[m] = accepted[m]
    BY <2>1
  <2> HIDE DEF run
  <2>3. executed = run
    BY <2>1, <2>2, SameSequence
  <2> QED BY <2>3 DEF RunsInOrder, run
<1> QED BY <1>1, Invariance, PTL

\* A port that is closed, or a worker known to be gone, leaves nobody waiting.
THEOREM NobodyLeftWaitingHolds == Spec => []NobodyLeftWaiting
<1>1. Inv => NobodyLeftWaiting
  BY DEF Inv, Control, PortClosed, PendingWaits, NobodyLeftWaiting
<1> QED BY <1>1, Invariance, PTL

\* A disposal that is done has let every accepted call run and be answered,
\* unless the worker was lost.
THEOREM DisposalDrainsHolds == Spec => []DisposalDrains
<1>1. Init => DisposalDrains
  BY DEF Init, DisposalDrains
<1>2. Inv /\ Inv' /\ DisposalDrains /\ [Next]_vars => DisposalDrains'
  <2> SUFFICES ASSUME Inv, Inv', DisposalDrains, [Next]_vars,
                      disposing' = "done", ~lost'
               PROVE  executed' = accepted' /\ \A c \in Calls : status'[c] # "accepted"
    BY DEF DisposalDrains
  <2>1. \A c \in Calls : status'[c] # "accepted"
    BY DEF Inv, Control, DisposalEnds, ExitKnown, PortClosed, PendingWaits
  <2>2. CASE disposing = "done"
    <3>1. exited /\ worker \in Ended /\ mailbox = <<>> /\ ~portOpen
      BY <2>2 DEF Inv, Control, DisposalEnds, ExitKnown
    <3>2. UNCHANGED <<accepted, executed, lost>>
      BY <2>2, <3>1 DEF Ended, Next, Worker, WorkerReady, Relay, Execute, ExecuteDispose,
        WorkerExit, WorkerStartFails, WorkerCrash, NativePost, Call, CallRefused,
        DisposeClient, OnMessage, OnReady, OnStartupFailed, OnEvent, OnStreamDone,
        OnEventError, OnResponse, OnCrash, OnExit, Receive, main, native, vars
    <3> QED BY <2>1, <2>2, <3>2 DEF DisposalDrains
  <2>3. CASE disposing # "done"
    <3>1. DisposeClient \/ OnExit
      BY <2>3 DEF Next, Worker, WorkerReady, Relay, Execute, ExecuteDispose,
        WorkerExit, WorkerStartFails, WorkerCrash, NativePost, Call, CallRefused,
        OnMessage, OnReady, OnStartupFailed, OnEvent, OnStreamDone,
        OnEventError, OnResponse, OnCrash, main, native, vars
    <3>2. ~DisposeClient
      <4> SUFFICES ASSUME DisposeClient
                   PROVE  FALSE
        OBVIOUS
      <4>1. exited /\ client = "open" /\ disposing = "no" /\ ~lost
        BY DEF DisposeClient, native
      <4> QED BY <4>1 DEF Inv, Control, ExitKnown, EndedOnPurpose
    <3>3. OnExit /\ disposing = "awaitingExit"
      BY <2>3, <3>1, <3>2 DEF OnExit, Inv, TypeOK
    <3> QED BY <2>1, <3>3 DEF OnExit, native, Inv, Order, DisposeAnswered
  <2> QED BY <2>2, <2>3
<1> QED BY <1>1, <1>2, Invariance, PTL DEF Spec

(***************************************************************************)
(* The contract.                                                           *)
(***************************************************************************)
\* _disposeFuture and _exited, as a lifecycle.
Lifecycle ==
  IF exited \/ disposing \in {"done", "failed"} THEN "closed"
  ELSE IF disposing = "no" THEN "open" ELSE "closing"

\* The oldest call that waits is the one a message answers first.
LEMMA AnswersOldest ==
  ASSUME Inv, portOpen, 1 \in Sent, NEW c \in Calls, Answers(1, c)
  PROVE  \E i \in DOMAIN accepted :
           /\ accepted[i] = c
           /\ \A j \in 1..i-1 : status[accepted[j]] # "accepted"
<1>1. PICK k \in 1..Len(executed) : executed[k] = c
  BY DEF Inv, Order, AnswersInOrder
<1>2. /\ Len(accepted) \in Nat /\ Len(executed) \in Nat /\ Len(executed) <= Len(accepted)
      /\ DOMAIN accepted = 1..Len(accepted)
      /\ \A m \in 1..Len(executed) : executed[m] = accepted[m]
  BY DEF Inv, TypeOK, Order, RanInOrder
<1>3. k \in DOMAIN accepted /\ accepted[k] = c
  BY <1>1, <1>2
<1>4. ASSUME NEW j \in 1..k-1, status[accepted[j]] = "accepted"
      PROVE  FALSE
  <2>1. j \in 1..Len(executed) /\ j \in 1..Len(accepted) /\ k \in 1..Len(accepted) /\ j < k
    BY <1>1, <1>2
  <2>2. PICK i \in Sent : Answers(i, accepted[j])
    BY <1>2, <1>4, <2>1 DEF Inv, Order, AnswersInOrder
  <2>3. accepted[j] # c
    BY <1>3, <2>1 DEF Inv, Order, AcceptedOnce
  <2>4. i # 1
    BY <2>2, <2>3 DEF Answers
  <2>5. 1 < i
    BY <2>4 DEF Sent
  <2>6. k < j
    BY <1>3, <2>1, <2>2, <2>5 DEF Inv, Order, AnswersInOrder
  <2> QED BY <2>1, <2>6
<1> QED BY <1>3, <1>4

\* Each step of the isolates is one the contract allows, or none to it.
THEOREM KeepsContract == Spec => Contract!Safety
<1>1. Init => Contract!Init
  BY DEF Init, Contract!Init
<1>2. Inv /\ [Next]_vars => [Contract!Next]_(Contract!contractVars)
  <2> SUFFICES ASSUME Inv, [Next]_vars
               PROVE  Contract!Next \/ UNCHANGED <<status, accepted, Lifecycle>>
    BY DEF Contract!contractVars, Lifecycle
  <2>1. ASSUME NEW c \in Calls, Call(c)
        PROVE  Contract!Accept(c)
    BY <2>1 DEF Call, Contract!Accept
  <2>2. ASSUME NEW c \in Calls, CallRefused(c)
        PROVE  Contract!Reject(c)
    BY <2>2 DEF CallRefused, Contract!Reject
  <2>3. CASE DisposeClient
    <3>1. CASE exited
      BY <2>3, <3>1 DEF DisposeClient, Lifecycle
    <3>2. CASE ~exited
      <4>1. Contract!BeginClose
        BY <2>3, <3>2 DEF DisposeClient, Contract!BeginClose
      <4> QED BY <4>1 DEF Contract!Next
    <3> QED BY <3>1, <3>2
  <2>4. CASE OnResponse
    <3> DEFINE r == Head(messages).request
    <3>1. /\ portOpen /\ 1 \in Sent /\ Answers(1, r) /\ r \in Requests
          /\ Head(messages).status \in {"succeeded", "failed"}
      BY <2>4, TakesOne, Contents DEF OnMessage, OnResponse, Receive, Inv, Answers
    <3>2. /\ UNCHANGED <<accepted, exited>>
          /\ \/ UNCHANGED disposing
             \/ disposing = "requested" /\ disposing' = "awaitingExit"
      BY <2>4 DEF OnResponse, Inv, Control, PendingWaits
    <3>3. UNCHANGED Lifecycle
      BY <3>2 DEF Lifecycle
    <3>4. CASE r \in pending \cap Calls
      <4>1. status[r] = "accepted" /\ r \in Calls
        BY <3>4 DEF Inv, Control, PendingWaits
      <4>2. status' = [status EXCEPT ![r] = Head(messages).status]
        BY <2>4, <3>4 DEF OnResponse
      <4>3. \E i \in DOMAIN accepted :
              /\ accepted[i] = r
              /\ \A j \in 1..i-1 : status[accepted[j]] # "accepted"
        BY <3>1, <4>1, AnswersOldest
      <4> HIDE DEF r
      <4>4. Contract!Answer(r)
        BY <3>1, <3>2, <3>3, <4>1, <4>2, <4>3
           DEF Contract!Answer, Contract!Waiting, Lifecycle
      <4> QED BY <4>1, <4>4 DEF Contract!Next, Contract!Progress
    <3>5. CASE r \notin pending \cap Calls
      BY <2>4, <3>2, <3>3, <3>5 DEF OnResponse
    <3> QED BY <3>4, <3>5
  <2>5. CASE OnCrash \/ OnExit
    <3>1. status' = [c \in Calls |-> IF status[c] = "accepted" THEN "failed" ELSE status[c]]
      BY <2>5 DEF OnCrash, OnExit, FailPending, Inv, Control, PendingWaits
    <3>2. Lifecycle # "closed"
      BY <2>5 DEF OnCrash, OnExit, Receive, Lifecycle, Inv, Control, ExitKnown, DisposalEnds
    <3>3. Lifecycle' \in {Lifecycle, "closed"} /\ UNCHANGED accepted
      BY <2>5 DEF OnCrash, OnExit, Lifecycle
    <3>4. Contract!Lose
      BY <3>1, <3>2, <3>3
         DEF Contract!Lose, Contract!FailWaiting, Contract!Waiting, Lifecycle
    <3> QED BY <3>4 DEF Contract!Next, Contract!Progress
  <2>6. CASE OnReady \/ OnStartupFailed \/ OnEvent \/ OnStreamDone \/ OnEventError
    BY <2>6 DEF OnReady, OnStartupFailed, OnEvent, OnStreamDone, OnEventError, Lifecycle
  <2>7. CASE Worker \/ WorkerStartFails \/ WorkerCrash \/ NativePost
    BY <2>7 DEF Worker, WorkerReady, Relay, Execute, ExecuteDispose, WorkerExit,
      WorkerStartFails, WorkerCrash, NativePost, main, Lifecycle
  <2>8. CASE UNCHANGED vars
    BY <2>8 DEF vars, main, Lifecycle
  <2> QED BY <2>1, <2>2, <2>3, <2>4, <2>5, <2>6, <2>7, <2>8
          DEF Next, OnMessage, Contract!Next
<1> QED BY <1>1, <1>2, Invariance, PTL DEF Spec, Contract!Safety

(***************************************************************************)
(* Events.                                                                 *)
(***************************************************************************)
LEMMA NumbersAreNumbers ==
  ASSUME TypeOK
  PROVE  /\ \A i \in Sent : Told(i) => messages[i].number \in Nat
         /\ \A i \in Mailed : Posted(i) => mailbox[i].number \in Nat
         /\ \A i \in Sent \cup Mailed : i \in Nat
         /\ heard \in Nat /\ posted \in Nat
<1>1. \A i \in Sent : messages[i] \in Message
  BY DEF TypeOK, Sent
<1>2. \A i \in Mailed : mailbox[i] \in Mail
  BY DEF TypeOK, Mailed
<1>3. \A i \in Sent \cup Mailed : i \in Nat
  BY DEF TypeOK, Sent, Mailed
<1> QED BY <1>1, <1>2, <1>3, Contents, Parcels DEF TypeOK, Told, Posted

\* The events on their way stay the same; others may come or go, so that
\* a queue moves on by one.
LEMMA SameTold ==
  ASSUME TypeOK, TypeOK', ToldInOrder, UNCHANGED <<heard, posted>>,
         NEW a \in {0, 1},
         \A i \in Sent' : Told(i)' => i + a \in Sent /\ messages'[i] = messages[i + a],
         \A i \in Sent : Told(i) => i - a \in Sent' /\ messages'[i - a] = messages[i]
  PROVE  ToldInOrder'
<1>1. \A i \in Sent' : Told(i)' => Told(i + a)
  BY DEF Told
<1>2. \A i \in Sent : Told(i) => Told(i - a)'
  BY DEF Told
<1>3. ASSUME NEW i \in Sent', Told(i)'
      PROVE  /\ heard' < messages'[i].number /\ messages'[i].number <= posted'
             /\ \/ messages'[i].number = heard' + 1
                \/ \E j \in Sent' : j < i /\ Told(j)'
                                    /\ messages'[j].number + 1 = messages'[i].number
  <2>1. /\ i + a \in Sent /\ Told(i + a) /\ messages'[i] = messages[i + a]
        /\ heard < messages'[i].number /\ messages'[i].number <= posted
        /\ \/ messages'[i].number = heard + 1
           \/ \E j \in Sent : j < i + a /\ Told(j)
                              /\ messages[j].number + 1 = messages'[i].number
    BY <1>1, <1>3 DEF ToldInOrder
  <2>2. ASSUME NEW j \in Sent, j < i + a, Told(j),
               messages[j].number + 1 = messages'[i].number
        PROVE  \E k \in Sent' : k < i /\ Told(k)'
                                /\ messages'[k].number + 1 = messages'[i].number
    <3>1. j - a \in Sent' /\ Told(j - a)' /\ messages'[j - a] = messages[j]
      BY <1>2, <2>2
    <3>2. j - a < i
      BY <2>2, NumbersAreNumbers DEF Sent, TypeOK
    <3> QED BY <2>2, <3>1, <3>2
  <2> QED BY <2>1, <2>2
<1>4. ASSUME NEW i \in Sent', NEW j \in Sent', Told(i)', Told(j)', i < j
      PROVE  messages'[i].number < messages'[j].number
  <2>1. i + a < j + a
    BY <1>4 DEF Sent, TypeOK
  <2> QED BY <1>1, <1>4, <2>1 DEF ToldInOrder
<1> QED BY <1>3, <1>4 DEF ToldInOrder

LEMMA SamePosted ==
  ASSUME TypeOK, TypeOK', PostedInOrder, LastPosted, UNCHANGED <<heard, posted>>,
         NEW a \in {0, 1}, NEW b \in {0, 1},
         \A i \in Sent' : Told(i)' => i + a \in Sent /\ messages'[i] = messages[i + a],
         \A i \in Sent : Told(i) => i - a \in Sent' /\ messages'[i - a] = messages[i],
         \A i \in Mailed' : Posted(i)' => i + b \in Mailed /\ mailbox'[i] = mailbox[i + b],
         \A i \in Mailed : Posted(i) => i - b \in Mailed' /\ mailbox'[i - b] = mailbox[i]
  PROVE  PostedInOrder' /\ LastPosted'
<1>1. /\ \A i \in Sent' : Told(i)' => Told(i + a)
      /\ \A i \in Sent : Told(i) => Told(i - a)'
  BY DEF Told
<1>2. /\ \A i \in Mailed' : Posted(i)' => Posted(i + b)
      /\ \A i \in Mailed : Posted(i) => Posted(i - b)'
  BY DEF Posted
<1>3. ASSUME NEW i \in Mailed', Posted(i)'
      PROVE  /\ heard' < mailbox'[i].number /\ mailbox'[i].number <= posted'
             /\ \A j \in Sent' : Told(j)' => messages'[j].number < mailbox'[i].number
             /\ \/ mailbox'[i].number = heard' + 1
                \/ \E j \in Sent' : Told(j)' /\ messages'[j].number + 1 = mailbox'[i].number
                \/ \E j \in Mailed' : j < i /\ Posted(j)'
                                      /\ mailbox'[j].number + 1 = mailbox'[i].number
  <2>1. i + b \in Mailed /\ Posted(i + b) /\ mailbox'[i] = mailbox[i + b]
    BY <1>2, <1>3
  <2>2. /\ heard < mailbox'[i].number /\ mailbox'[i].number <= posted
        /\ \A j \in Sent : Told(j) => messages[j].number < mailbox'[i].number
        /\ \/ mailbox'[i].number = heard + 1
           \/ \E j \in Sent : Told(j) /\ messages[j].number + 1 = mailbox'[i].number
           \/ \E j \in Mailed : j < i + b /\ Posted(j)
                                /\ mailbox[j].number + 1 = mailbox'[i].number
    BY <2>1 DEF PostedInOrder
  <2>3. \A j \in Sent' : Told(j)' => messages'[j].number < mailbox'[i].number
    BY <1>1, <2>2
  <2>4. ASSUME NEW j \in Sent, Told(j), messages[j].number + 1 = mailbox'[i].number
        PROVE  \E k \in Sent' : Told(k)' /\ messages'[k].number + 1 = mailbox'[i].number
    BY <1>1, <2>4
  <2>5. ASSUME NEW j \in Mailed, j < i + b, Posted(j),
               mailbox[j].number + 1 = mailbox'[i].number
        PROVE  \E k \in Mailed' : k < i /\ Posted(k)'
                                  /\ mailbox'[k].number + 1 = mailbox'[i].number
    <3>1. j - b \in Mailed' /\ Posted(j - b)' /\ mailbox'[j - b] = mailbox[j]
      BY <1>2, <2>5
    <3>2. j - b < i
      BY <2>5 DEF Mailed, TypeOK
    <3> QED BY <2>5, <3>1, <3>2
  <2> QED BY <2>2, <2>3, <2>4, <2>5
<1>4. ASSUME NEW i \in Mailed', NEW j \in Mailed', Posted(i)', Posted(j)', i < j
      PROVE  mailbox'[i].number < mailbox'[j].number
  <2>1. i + b < j + b
    BY <1>4 DEF Mailed, TypeOK
  <2> QED BY <1>2, <1>4, <2>1 DEF PostedInOrder
<1>5. PostedInOrder'
  BY <1>3, <1>4 DEF PostedInOrder
<1>6. LastPosted'
  BY <1>1, <1>2 DEF LastPosted
<1> QED BY <1>5, <1>6

\* Letters other than events may be sent.
LEMMA OtherLetter ==
  ASSUME TypeOK, NEW m \in Message, Tell(m),
         m.kind \notin {"event", "streamDone", "eventError"}
  PROVE  /\ \A i \in Sent' : Told(i)' => i + 0 \in Sent /\ messages'[i] = messages[i + 0]
         /\ \A i \in Sent : Told(i) => i - 0 \in Sent' /\ messages'[i - 0] = messages[i]
<1>1. /\ \A i \in Sent' : i \notin Sent => messages'[i] = m
      /\ \A i \in Sent : i \in Sent' /\ messages'[i] = messages[i]
  BY TellsOne
<1>2. \A i \in Sent \cup Sent' : i + 0 = i /\ i - 0 = i
  BY DEF Sent
<1> QED BY <1>1, <1>2 DEF Told

\* The worker relays an event while it listens.
LEMMA RelayNumbers ==
  ASSUME Inv, TypeOK', Numbers, streamOpen, Relay
  PROVE  Numbers'
<1>1. /\ UNCHANGED <<heard, posted, streamOpen>> /\ portOpen /\ mailbox # <<>>
      /\ mailbox' = Tail(mailbox) /\ Head(mailbox).kind # "command"
      /\ relaying' => relaying
  BY DEF Relay, main, Inv, Control, PortClosed
<1>2. TypeOK /\ heard <= posted /\ ToldInOrder /\ (relaying => PostedInOrder /\ LastPosted)
  BY DEF Inv, Numbers
<1>3. CASE ~relaying
  <2>1. UNCHANGED messages /\ ~relaying'
    BY <1>3 DEF Relay
  <2>2. UNCHANGED <<heard, posted, Sent>> /\ \A i : Told(i)' <=> Told(i)
    BY <1>1, <2>1 DEF Sent, Told
  <2>3. ToldInOrder'
    BY <1>2, <2>1, <2>2 DEF ToldInOrder
  <2> QED BY <1>1, <1>2, <2>1, <2>3 DEF Numbers
<1>4. CASE relaying
  <2> DEFINE mail == Head(mailbox)
             n == mail.number
             news == IF mail.kind = "undecodable"
                     THEN [kind |-> "eventError", number |-> n] ELSE mail
  <2>0. PICK L : L = Len(messages) + 1
    OBVIOUS
  <2>1. /\ mail = mailbox[1] /\ 1 \in Mailed /\ Posted(1) /\ mail \in Mail
        /\ \A i \in Mailed' : i + 1 \in Mailed /\ mailbox'[i] = mailbox[i + 1]
        /\ \A i \in Mailed : i # 1 => i - 1 \in Mailed' /\ mailbox'[i - 1] = mailbox[i]
    <3>1. /\ mail = mailbox[1] /\ 1 \in Mailed /\ mail \in Mail
          /\ Len(mailbox) \in Nat \ {0}
          /\ Mailed' = 1..Len(mailbox) - 1
          /\ \A i \in Mailed' : i + 1 \in Mailed /\ mailbox'[i] = mailbox[i + 1]
      BY <1>1, <1>2, ServesOne
    <3>2. \A i \in Mailed : i # 1 => i - 1 \in Mailed' /\ (i - 1) + 1 = i
      BY <3>1 DEF Mailed
    <3>3. \A i \in Mailed : i # 1 => i - 1 \in Mailed' /\ mailbox'[i - 1] = mailbox[i]
      BY <3>1, <3>2
    <3> QED BY <1>1, <3>1, <3>3 DEF Posted
  <2>2. /\ news \in Message /\ Tell(news) /\ news.number = n /\ n \in Nat
        /\ news.kind \in {"event", "streamDone", "eventError"}
    BY <1>1, <1>4, <2>1, Letters, Parcels DEF Relay
  <2> HIDE DEF news
  <2>3. /\ L \in Nat /\ L \notin Sent /\ L \in Sent' /\ messages'[L] = news
        /\ \A i \in Sent' : i = L \/ i \in Sent
        /\ \A i \in Sent : i \in Sent' /\ i < L /\ messages'[i] = messages[i]
    BY <1>1, <1>2, <2>0, <2>2, TellsOne DEF Sent
  <2>4. /\ \A i \in Sent : Told(i)' <=> Told(i)
        /\ Told(L)'
    BY <2>2, <2>3 DEF Told
  <2>5. /\ heard < n /\ n <= posted
        /\ \A j \in Sent : Told(j) => messages[j].number < n
        /\ \/ n = heard + 1
           \/ \E j \in Sent : Told(j) /\ messages[j].number + 1 = n
    <3>1. \A j \in Mailed : ~(j < 1)
      BY <1>2 DEF Mailed, TypeOK
    <3> QED BY <1>2, <1>4, <2>1, <3>1 DEF PostedInOrder
  <2>6. ToldInOrder'
    <3>1. ASSUME NEW i \in Sent', Told(i)'
          PROVE  /\ heard < messages'[i].number /\ messages'[i].number <= posted
                 /\ \/ messages'[i].number = heard + 1
                    \/ \E j \in Sent' : j < i /\ Told(j)'
                                        /\ messages'[j].number + 1 = messages'[i].number
      <4>1. CASE i = L
        BY <2>2, <2>3, <2>4, <2>5, <4>1
      <4>2. CASE i \in Sent
        BY <1>2, <2>3, <2>4, <3>1, <4>2 DEF ToldInOrder
      <4> QED BY <2>3, <4>1, <4>2
    <3>2. ASSUME NEW i \in Sent', NEW j \in Sent', Told(i)', Told(j)', i < j
          PROVE  messages'[i].number < messages'[j].number
      <4>1. i \in Sent
        <5>1. i # L
          BY <1>2, <2>3, <3>2 DEF Sent, TypeOK
        <5> QED BY <2>3, <5>1
      <4>2. CASE j = L
        BY <2>2, <2>3, <2>4, <2>5, <3>2, <4>1, <4>2
      <4>3. CASE j \in Sent
        BY <1>2, <2>3, <2>4, <3>2, <4>1, <4>3 DEF ToldInOrder
      <4> QED BY <2>3, <4>2, <4>3
    <3> QED BY <1>1, <3>1, <3>2 DEF ToldInOrder
  <2>7. \A i \in Mailed' : Posted(i)' => Posted(i + 1) /\ n < mailbox'[i].number
    <3>1. \A i \in Mailed' : i + 1 \in Mailed /\ 1 < i + 1
      BY <2>1 DEF Mailed, TypeOK
    <3> QED BY <1>2, <1>4, <2>1, <3>1 DEF PostedInOrder, Posted
  <2>8. ASSUME NEW i \in Mailed', Posted(i)'
        PROVE  /\ heard < mailbox'[i].number /\ mailbox'[i].number <= posted
               /\ \A j \in Sent' : Told(j)' => messages'[j].number < mailbox'[i].number
               /\ \/ mailbox'[i].number = heard + 1
                  \/ \E j \in Sent' : Told(j)' /\ messages'[j].number + 1 = mailbox'[i].number
                  \/ \E j \in Mailed' : j < i /\ Posted(j)'
                                        /\ mailbox'[j].number + 1 = mailbox'[i].number
    <3>1. i + 1 \in Mailed /\ Posted(i + 1) /\ mailbox'[i] = mailbox[i + 1]
      BY <2>1, <2>7, <2>8
    <3>2. /\ heard < mailbox'[i].number /\ mailbox'[i].number <= posted
          /\ \A j \in Sent : Told(j) => messages[j].number < mailbox'[i].number
          /\ \/ mailbox'[i].number = heard + 1
             \/ \E j \in Sent : Told(j) /\ messages[j].number + 1 = mailbox'[i].number
             \/ \E j \in Mailed : j < i + 1 /\ Posted(j)
                                  /\ mailbox[j].number + 1 = mailbox'[i].number
      BY <1>2, <1>4, <3>1 DEF PostedInOrder
    <3>3. \A j \in Sent' : Told(j)' => messages'[j].number < mailbox'[i].number
      BY <2>2, <2>3, <2>4, <2>7, <2>8, <3>2
    <3>4. ASSUME NEW j \in Sent, Told(j), messages[j].number + 1 = mailbox'[i].number
          PROVE  \E k \in Sent' : Told(k)' /\ messages'[k].number + 1 = mailbox'[i].number
      BY <2>3, <2>4, <3>4
    <3>5. ASSUME NEW j \in Mailed, j < i + 1, Posted(j),
                 mailbox[j].number + 1 = mailbox'[i].number
          PROVE  \/ \E k \in Sent' : Told(k)' /\ messages'[k].number + 1 = mailbox'[i].number
                 \/ \E k \in Mailed' : k < i /\ Posted(k)'
                                       /\ mailbox'[k].number + 1 = mailbox'[i].number
      <4>1. CASE j = 1
        BY <2>1, <2>2, <2>3, <2>4, <3>5, <4>1
      <4>2. CASE j # 1
        <5>1. j - 1 \in Mailed' /\ mailbox'[j - 1] = mailbox[j] /\ Posted(j - 1)'
          BY <2>1, <3>5, <4>2 DEF Posted
        <5>2. j - 1 < i
          BY <3>5 DEF Mailed, TypeOK
        <5> QED BY <3>5, <5>1, <5>2
      <4> QED BY <4>1, <4>2
    <3> QED BY <3>2, <3>3, <3>4, <3>5
  <2>9. ASSUME NEW i \in Mailed', NEW j \in Mailed', Posted(i)', Posted(j)', i < j
        PROVE  mailbox'[i].number < mailbox'[j].number
    <3>1. i + 1 < j + 1
      BY <2>9 DEF Mailed, TypeOK
    <3> QED BY <1>2, <1>4, <2>1, <2>7, <2>9, <3>1 DEF PostedInOrder
  <2>10. LastPosted'
    <3>1. CASE posted = heard
      BY <1>1, <3>1 DEF LastPosted
    <3>2. ASSUME NEW j \in Sent, Told(j), messages[j].number = posted
          PROVE  LastPosted'
      BY <1>1, <2>3, <2>4, <3>2 DEF LastPosted
    <3>3. ASSUME NEW j \in Mailed, Posted(j), mailbox[j].number = posted
          PROVE  LastPosted'
      <4>1. CASE j = 1
        BY <1>1, <2>1, <2>2, <2>3, <2>4, <3>3, <4>1 DEF LastPosted
      <4>2. CASE j # 1
        <5>1. j - 1 \in Mailed' /\ mailbox'[j - 1] = mailbox[j] /\ Posted(j - 1)'
          BY <2>1, <3>3, <4>2 DEF Posted
        <5> QED BY <1>1, <3>3, <5>1 DEF LastPosted
      <4> QED BY <4>1, <4>2
    <3> QED BY <1>2, <1>4, <3>1, <3>2, <3>3 DEF LastPosted
  <2> QED BY <1>1, <1>2, <2>6, <2>8, <2>9, <2>10 DEF Numbers, PostedInOrder
<1> QED BY <1>3, <1>4

\* A native thread posts the next event.
LEMMA PostNumbers ==
  ASSUME Inv, TypeOK', Numbers, streamOpen, NativePost
  PROVE  Numbers'
<1>0. PICK L : L = Len(mailbox) + 1
  OBVIOUS
<1>1. /\ UNCHANGED <<heard, streamOpen, messages, relaying>> /\ relaying
      /\ worker \notin Ended /\ posted' = posted + 1
  BY DEF NativePost, main, Ended
<1>2. TypeOK /\ heard <= posted /\ ToldInOrder /\ PostedInOrder /\ LastPosted
  BY <1>1 DEF Inv, Numbers
<1>3. heard \in Nat /\ posted \in Nat
  BY <1>2 DEF TypeOK
<1>4. PICK k \in {"event", "streamDone", "undecodable"} :
        Send([kind |-> k, number |-> posted'])
  BY DEF NativePost
<1>5. [kind |-> k, number |-> posted'] \in Mail
  BY <1>1, <1>3, <1>4, Parcels
<1>6. /\ L \in Nat /\ L \notin Mailed /\ L \in Mailed'
      /\ mailbox'[L] = [kind |-> k, number |-> posted']
      /\ \A i \in Mailed' : i = L \/ i \in Mailed
      /\ \A i \in Mailed : i \in Mailed' /\ i < L /\ mailbox'[i] = mailbox[i]
  BY <1>0, <1>1, <1>2, <1>4, <1>5, SendsOne DEF Mailed
<1>7. /\ mailbox'[L].number = posted + 1 /\ Posted(L)'
      /\ \A i \in Mailed : Posted(i)' <=> Posted(i)
  BY <1>1, <1>4, <1>6 DEF Posted
<1>8. UNCHANGED Sent /\ \A i : Told(i)' <=> Told(i)
  BY <1>1 DEF Sent, Told
<1>9. /\ \A i \in Sent : Told(i) => messages[i].number \in Nat
      /\ \A i \in Mailed : Posted(i) => mailbox[i].number \in Nat
  BY <1>2, NumbersAreNumbers
<1>10. ToldInOrder'
  BY <1>1, <1>2, <1>3, <1>8, <1>9 DEF ToldInOrder
<1>11. ASSUME NEW i \in Mailed', Posted(i)'
       PROVE  /\ heard < mailbox'[i].number /\ mailbox'[i].number <= posted'
              /\ \A j \in Sent : Told(j) => messages[j].number < mailbox'[i].number
              /\ \/ mailbox'[i].number = heard + 1
                 \/ \E j \in Sent : Told(j) /\ messages[j].number + 1 = mailbox'[i].number
                 \/ \E j \in Mailed' : j < i /\ Posted(j)'
                                       /\ mailbox'[j].number + 1 = mailbox'[i].number
  <2>1. CASE i = L
    <3>1. \A j \in Sent : Told(j) => messages[j].number < posted + 1
      BY <1>2, <1>3, <1>9 DEF ToldInOrder
    <3>2. \/ posted + 1 = heard + 1
          \/ \E j \in Sent : Told(j) /\ messages[j].number + 1 = posted + 1
          \/ \E j \in Mailed' : j < L /\ Posted(j)' /\ mailbox'[j].number + 1 = posted + 1
      BY <1>2, <1>6, <1>7 DEF LastPosted
    <3> QED BY <1>1, <1>2, <1>3, <1>7, <2>1, <3>1, <3>2
  <2>2. CASE i \in Mailed
    <3>1. /\ Posted(i) /\ mailbox'[i] = mailbox[i] /\ mailbox[i].number \in Nat
      BY <1>6, <1>7, <1>9, <1>11, <2>2
    <3>2. /\ heard < mailbox[i].number /\ mailbox[i].number <= posted
          /\ \A j \in Sent : Told(j) => messages[j].number < mailbox[i].number
          /\ \/ mailbox[i].number = heard + 1
             \/ \E j \in Sent : Told(j) /\ messages[j].number + 1 = mailbox[i].number
             \/ \E j \in Mailed : j < i /\ Posted(j)
                                  /\ mailbox[j].number + 1 = mailbox[i].number
      BY <1>2, <2>2, <3>1 DEF PostedInOrder
    <3>3. mailbox'[i].number <= posted'
      BY <1>1, <1>3, <3>1, <3>2
    <3> QED BY <1>6, <1>7, <3>1, <3>2, <3>3
  <2> QED BY <1>6, <2>1, <2>2
<1>12. ASSUME NEW i \in Mailed', NEW j \in Mailed', Posted(i)', Posted(j)', i < j
       PROVE  mailbox'[i].number < mailbox'[j].number
  <2>1. i \in Mailed
    <3>1. i # L
      <4>1. i \in Nat /\ j \in Nat /\ j <= L
        BY <1>6 DEF Mailed
      <4> QED BY <1>6, <1>12, <4>1
    <3> QED BY <1>6, <3>1
  <2>2. CASE j = L
    <3>1. mailbox[i].number <= posted /\ mailbox[i].number \in Nat /\ mailbox'[i] = mailbox[i]
      BY <1>2, <1>6, <1>7, <1>9, <1>12, <2>1 DEF PostedInOrder
    <3> QED BY <1>3, <1>7, <2>2, <3>1
  <2>3. CASE j \in Mailed
    BY <1>2, <1>6, <1>7, <1>12, <2>1, <2>3 DEF PostedInOrder
  <2> QED BY <1>6, <2>2, <2>3
<1>13. PostedInOrder'
  BY <1>1, <1>8, <1>11, <1>12 DEF PostedInOrder
<1>14. LastPosted'
  BY <1>1, <1>6, <1>7 DEF LastPosted
<1> QED BY <1>1, <1>2, <1>3, <1>10, <1>13, <1>14 DEF Numbers

\* What the application hears next is the next event.
LEMMA NextHeard ==
  ASSUME Inv, Numbers, streamOpen, OnMessage, OnEvent \/ OnStreamDone \/ OnEventError
  PROVE  /\ 1 \in Sent /\ Told(1) /\ messages[1].number = heard + 1
         /\ heard' = heard + 1
<1>1. 1 \in Sent /\ messages[1] = Head(messages)
  BY TakesOne DEF Inv
<1>2. Told(1) /\ heard' = messages[1].number
  BY <1>1 DEF Told, OnEvent, OnStreamDone, OnEventError, Receive
<1>3. \A j \in Sent : ~(j < 1)
  BY DEF Sent, Inv, TypeOK
<1> QED BY <1>1, <1>2, <1>3 DEF Numbers, ToldInOrder

LEMMA HearNumbers ==
  ASSUME Inv, TypeOK', Numbers, streamOpen, OnEvent \/ OnEventError
  PROVE  Numbers'
<1>1. /\ UNCHANGED <<posted, streamOpen, mailbox, relaying>> /\ messages' = Tail(messages)
      /\ OnMessage
  BY DEF OnEvent, OnEventError, native, OnMessage
<1>2. TypeOK /\ heard <= posted /\ ToldInOrder /\ (relaying => PostedInOrder /\ LastPosted)
  BY DEF Inv, Numbers
<1>3. /\ 1 \in Sent /\ Told(1) /\ messages[1].number = heard + 1
      /\ heard' = heard + 1
  BY <1>1, NextHeard
<1>4. /\ \A i \in Sent' : i + 1 \in Sent /\ 1 < i + 1 /\ messages'[i] = messages[i + 1]
      /\ \A i \in Sent : i # 1 => i - 1 \in Sent' /\ messages'[i - 1] = messages[i]
  <2>1. /\ Len(messages) \in Nat \ {0} /\ Sent' = 1..Len(messages) - 1
        /\ \A i \in Sent' : i + 1 \in Sent /\ messages'[i] = messages[i + 1]
    BY <1>1, <1>2, TakesOne
  <2>2. \A i \in Sent : i # 1 => i - 1 \in Sent' /\ (i - 1) + 1 = i
    BY <2>1 DEF Sent
  <2>3. \A i \in Sent' : 1 < i + 1
    BY <2>1
  <2> QED BY <2>1, <2>2, <2>3
<1>5. /\ \A i \in Sent' : Told(i)' <=> Told(i + 1)
      /\ \A i \in Sent : i # 1 => (Told(i - 1)' <=> Told(i))
  BY <1>4 DEF Told
<1>6. /\ heard \in Nat /\ posted \in Nat
      /\ \A i \in Sent : i \in Nat /\ (Told(i) => messages[i].number \in Nat)
      /\ \A i \in Mailed : Posted(i) => mailbox[i].number \in Nat
      /\ \A i \in Sent' : i \in Nat
  BY <1>2, NumbersAreNumbers DEF Sent, TypeOK
<1>7. heard' <= posted'
  BY <1>1, <1>2, <1>3, <1>6 DEF ToldInOrder
<1>8. ASSUME NEW i \in Sent', Told(i)'
      PROVE  /\ heard' < messages'[i].number /\ messages'[i].number <= posted'
             /\ \/ messages'[i].number = heard' + 1
                \/ \E j \in Sent' : j < i /\ Told(j)'
                                    /\ messages'[j].number + 1 = messages'[i].number
  <2>1. /\ i + 1 \in Sent /\ Told(i + 1) /\ messages'[i] = messages[i + 1] /\ 1 < i + 1
        /\ messages'[i].number \in Nat
    BY <1>4, <1>5, <1>6, <1>8
  <2>2. heard' < messages'[i].number /\ messages'[i].number <= posted'
    BY <1>1, <1>2, <1>3, <2>1 DEF ToldInOrder
  <2>3. PICK j \in Sent : j < i + 1 /\ Told(j)
                          /\ messages[j].number + 1 = messages'[i].number
    <3>1. messages'[i].number # heard + 1
      BY <1>3, <1>6, <2>1, <2>2
    <3> QED BY <1>2, <2>1, <3>1 DEF ToldInOrder
  <2>4. CASE j = 1
    BY <1>3, <2>2, <2>3, <2>4
  <2>5. CASE j # 1
    <3>1. j - 1 \in Sent' /\ Told(j - 1)' /\ messages'[j - 1] = messages[j]
      BY <1>4, <1>5, <2>3, <2>5
    <3>2. j - 1 < i
      BY <1>6, <2>3
    <3> QED BY <2>2, <2>3, <3>1, <3>2
  <2> QED BY <2>4, <2>5
<1>9. ASSUME NEW i \in Sent', NEW j \in Sent', Told(i)', Told(j)', i < j
      PROVE  messages'[i].number < messages'[j].number
  <2>1. i + 1 < j + 1
    BY <1>6, <1>9
  <2> QED BY <1>2, <1>4, <1>5, <1>9, <2>1 DEF ToldInOrder
<1>10. ToldInOrder'
  BY <1>8, <1>9 DEF ToldInOrder
<1>11. ASSUME relaying
       PROVE  PostedInOrder' /\ LastPosted'
  <2>1. UNCHANGED Mailed /\ \A i : Posted(i)' <=> Posted(i)
    BY <1>1 DEF Mailed, Posted
  <2>2. ASSUME NEW i \in Mailed, Posted(i)
        PROVE  /\ heard' < mailbox[i].number /\ mailbox[i].number <= posted
               /\ \A j \in Sent' : Told(j)' => messages'[j].number < mailbox[i].number
               /\ \/ mailbox[i].number = heard' + 1
                  \/ \E j \in Sent' : Told(j)' /\ messages'[j].number + 1 = mailbox[i].number
                  \/ \E j \in Mailed : j < i /\ Posted(j)
                                       /\ mailbox[j].number + 1 = mailbox[i].number
    <3>1. /\ mailbox[i].number <= posted
          /\ \A j \in Sent : Told(j) => messages[j].number < mailbox[i].number
          /\ \/ mailbox[i].number = heard + 1
             \/ \E j \in Sent : Told(j) /\ messages[j].number + 1 = mailbox[i].number
             \/ \E j \in Mailed : j < i /\ Posted(j)
                                  /\ mailbox[j].number + 1 = mailbox[i].number
      BY <1>2, <1>11, <2>2 DEF PostedInOrder
    <3>2. heard' < mailbox[i].number /\ mailbox[i].number # heard + 1
      BY <1>3, <1>6, <2>2, <3>1
    <3>3. \A j \in Sent' : Told(j)' => messages'[j].number < mailbox[i].number
      BY <1>4, <1>5, <3>1
    <3>4. ASSUME NEW j \in Sent, Told(j), messages[j].number + 1 = mailbox[i].number
          PROVE  \/ mailbox[i].number = heard' + 1
                 \/ \E k \in Sent' : Told(k)' /\ messages'[k].number + 1 = mailbox[i].number
      <4>1. CASE j = 1
        BY <1>3, <3>4, <4>1
      <4>2. CASE j # 1
        BY <1>4, <1>5, <3>4, <4>2
      <4> QED BY <4>1, <4>2
    <3> QED BY <3>1, <3>2, <3>3, <3>4
  <2>3. \A i, j \in Mailed : Posted(i) /\ Posted(j) /\ i < j =>
          mailbox[i].number < mailbox[j].number
    BY <1>2, <1>11 DEF PostedInOrder
  <2>4. PostedInOrder'
    BY <1>1, <2>1, <2>2, <2>3 DEF PostedInOrder
  <2>5. LastPosted'
    <3>1. posted # heard
      BY <1>1, <1>3, <1>6, <1>7
    <3>2. ASSUME NEW j \in Sent, Told(j), messages[j].number = posted
          PROVE  LastPosted'
      <4>1. CASE j = 1
        BY <1>1, <1>3, <3>2, <4>1 DEF LastPosted
      <4>2. CASE j # 1
        BY <1>1, <1>4, <1>5, <3>2, <4>2 DEF LastPosted
      <4> QED BY <4>1, <4>2
    <3>3. ASSUME NEW j \in Mailed, Posted(j), mailbox[j].number = posted
          PROVE  LastPosted'
      BY <1>1, <2>1, <3>3 DEF LastPosted
    <3> QED BY <1>2, <1>11, <3>1, <3>2, <3>3 DEF LastPosted
  <2> QED BY <2>4, <2>5
<1> QED BY <1>1, <1>7, <1>10, <1>11 DEF Numbers

\* Neither queue changes the events in it, nor does anything else happen to them.
LEMMA KeepsNumbers ==
  ASSUME Inv, TypeOK', Numbers, streamOpen, UNCHANGED <<heard, posted>>,
         relaying' => relaying,
         NEW a \in {0, 1}, NEW b \in {0, 1},
         \A i \in Sent' : Told(i)' => i + a \in Sent /\ messages'[i] = messages[i + a],
         \A i \in Sent : Told(i) => i - a \in Sent' /\ messages'[i - a] = messages[i],
         relaying' =>
           /\ \A i \in Mailed' : Posted(i)' =>
                i + b \in Mailed /\ mailbox'[i] = mailbox[i + b]
           /\ \A i \in Mailed : Posted(i) =>
                i - b \in Mailed' /\ mailbox'[i - b] = mailbox[i]
  PROVE  Numbers'
<1>1. TypeOK /\ heard <= posted /\ ToldInOrder /\ (relaying => PostedInOrder /\ LastPosted)
  BY DEF Inv, Numbers
<1>2. ToldInOrder'
  BY <1>1, SameTold
<1>3. relaying' => PostedInOrder' /\ LastPosted'
  BY <1>1, SamePosted
<1> QED BY <1>1, <1>2, <1>3 DEF Numbers

LEMMA WorkerNumbers ==
  ASSUME Inv, TypeOK', Numbers, streamOpen, Worker \/ WorkerStartFails \/ WorkerCrash
  PROVE  Numbers'
<1>0. TypeOK
  BY DEF Inv
<1>1. CASE WorkerReady
  <2>1. /\ messages = <<>> /\ mailbox = <<>> /\ posted = 0 /\ heard = 0
        /\ UNCHANGED <<heard, posted, mailbox>>
    BY <1>1 DEF WorkerReady, main, Inv, Control, Starting
  <2>2. /\ \A i \in Sent' : ~Told(i)'
        /\ Mailed' = {}
    <3>1. [kind |-> "ready"] \in Message /\ Tell([kind |-> "ready"])
      BY <1>1, Letters DEF WorkerReady
    <3>2. \A i \in Sent' : i \notin Sent => messages'[i] = [kind |-> "ready"]
      BY <1>0, <3>1, TellsOne
    <3>3. Sent = {} /\ Mailed' = {}
      BY <2>1 DEF Sent, Mailed
    <3> QED BY <3>2, <3>3 DEF Told
  <2> QED BY <2>1, <2>2 DEF Numbers, ToldInOrder, PostedInOrder, LastPosted
<1>2. CASE Relay
  BY <1>2, RelayNumbers
<1>3. CASE Execute
  <2>1. Head(mailbox).request \in Calls /\ mailbox # <<>> /\ Head(mailbox).kind = "command"
    BY <1>0, <1>3, Taken, Parcels DEF Execute, TypeOK, Requests
  <2>2. PICK m \in Message : m.kind = "response" /\ Tell(m)
    BY <1>3, <2>1, Letters DEF Execute, Requests
  <2>3. /\ \A i \in Sent' : Told(i)' => i + 0 \in Sent /\ messages'[i] = messages[i + 0]
        /\ \A i \in Sent : Told(i) => i - 0 \in Sent' /\ messages'[i - 0] = messages[i]
    BY <1>0, <2>2, OtherLetter
  <2>4. /\ \A i \in Mailed' : Posted(i)' =>
             i + 1 \in Mailed /\ mailbox'[i] = mailbox[i + 1]
        /\ \A i \in Mailed : Posted(i) =>
             i - 1 \in Mailed' /\ mailbox'[i - 1] = mailbox[i]
    <3>1. /\ Len(mailbox) \in Nat \ {0} /\ mailbox[1] = Head(mailbox)
          /\ Mailed' = 1..Len(mailbox) - 1
          /\ \A i \in Mailed' : i + 1 \in Mailed /\ mailbox'[i] = mailbox[i + 1]
      BY <1>0, <1>3, <2>1, ServesOne DEF Execute
    <3>2. \A i \in Mailed : i # 1 => i - 1 \in Mailed' /\ (i - 1) + 1 = i
      BY <3>1 DEF Mailed
    <3> QED BY <2>1, <3>1, <3>2 DEF Posted
  <2>5. UNCHANGED <<heard, posted, relaying>>
    BY <1>3 DEF Execute, main
  <2> QED BY <2>3, <2>4, <2>5, KeepsNumbers
<1>4. CASE ExecuteDispose \/ WorkerExit \/ WorkerStartFails \/ WorkerCrash
  <2>1. PICK m \in Message :
          m.kind \notin {"event", "streamDone", "eventError"} /\ Tell(m)
    BY <1>4, Letters DEF ExecuteDispose, WorkerExit, WorkerStartFails, WorkerCrash, Requests
  <2>2. /\ \A i \in Sent' : Told(i)' => i + 0 \in Sent /\ messages'[i] = messages[i + 0]
        /\ \A i \in Sent : Told(i) => i - 0 \in Sent' /\ messages'[i - 0] = messages[i]
    BY <1>0, <2>1, OtherLetter
  <2>3. UNCHANGED <<heard, posted>> /\ ~relaying'
    <3>1. CASE ExecuteDispose
      BY <3>1 DEF ExecuteDispose, main
    <3>2. CASE WorkerExit
      BY <3>2 DEF WorkerExit, main, Inv, Control, ExitKnown, Ended
    <3>3. CASE WorkerStartFails
      BY <3>3 DEF WorkerStartFails, main, Inv, Control, Starting
    <3>4. CASE WorkerCrash
      BY <3>4 DEF WorkerCrash, main
    <3> QED BY <1>4, <3>1, <3>2, <3>3, <3>4
  <2> QED BY <2>2, <2>3, KeepsNumbers
<1> QED BY <1>1, <1>2, <1>3, <1>4 DEF Worker

LEMMA CallNumbers ==
  ASSUME Inv, TypeOK', Numbers, streamOpen,
         (\E c \in Calls : Call(c) \/ CallRefused(c)) \/ DisposeClient
  PROVE  Numbers'
<1>0. TypeOK
  BY DEF Inv
<1>1. UNCHANGED <<heard, posted, relaying, messages>>
  BY DEF Call, CallRefused, DisposeClient, native
<1>2. UNCHANGED mailbox \/ \E m \in Mail : m.kind = "command" /\ Send(m)
  BY Parcels DEF Call, CallRefused, DisposeClient, Requests
<1>3. /\ \A i \in Mailed' : Posted(i)' => i \in Mailed /\ mailbox'[i] = mailbox[i]
      /\ \A i \in Mailed : Posted(i) => i \in Mailed' /\ mailbox'[i] = mailbox[i]
  <2>1. CASE UNCHANGED mailbox
    BY <2>1 DEF Mailed
  <2>2. ASSUME NEW m \in Mail, m.kind = "command", Send(m)
        PROVE  /\ \A i \in Mailed' : Posted(i)' => i \in Mailed /\ mailbox'[i] = mailbox[i]
               /\ \A i \in Mailed : Posted(i) => i \in Mailed' /\ mailbox'[i] = mailbox[i]
    <3>1. /\ \A i \in Mailed' : i \notin Mailed => mailbox'[i] = m
          /\ \A i \in Mailed : i \in Mailed' /\ mailbox'[i] = mailbox[i]
      BY <1>0, <2>2, SendsOne
    <3> QED BY <2>2, <3>1 DEF Posted
  <2> QED BY <1>2, <2>1, <2>2
<1>4. /\ UNCHANGED Sent
      /\ \A i \in Sent : i + 0 = i /\ i - 0 = i
      /\ \A i \in Mailed : i + 0 = i /\ i - 0 = i
      /\ \A i \in Mailed' : i + 0 = i
  BY <1>0, <1>1 DEF Sent, Mailed, TypeOK
<1> QED BY <1>1, <1>3, <1>4, KeepsNumbers

LEMMA MessageNumbers ==
  ASSUME Inv, TypeOK', Numbers, streamOpen, OnMessage
  PROVE  Numbers'
<1>0. TypeOK
  BY DEF Inv
<1>1. CASE OnEvent \/ OnEventError
  BY <1>1, HearNumbers
<1>2. CASE OnStreamDone \/ OnStartupFailed \/ OnExit
  BY <1>2 DEF OnStreamDone, OnStartupFailed, OnExit, Numbers
<1>3. CASE OnReady \/ OnResponse \/ OnCrash
  <2>1. /\ UNCHANGED <<heard, posted, relaying, mailbox>>
        /\ streamOpen' => messages' = Tail(messages)
        /\ Head(messages).kind \in {"ready", "response", "crashed"}
    BY <1>3 DEF OnReady, OnResponse, OnCrash, Receive, native
  <2>2. CASE ~streamOpen'
    BY <2>2 DEF Numbers
  <2>3. CASE streamOpen'
    <3>1. /\ \A i \in Sent' : Told(i)' => i + 1 \in Sent /\ messages'[i] = messages[i + 1]
          /\ \A i \in Sent : Told(i) => i - 1 \in Sent' /\ messages'[i - 1] = messages[i]
      <4>1. /\ Len(messages) \in Nat \ {0} /\ messages[1] = Head(messages)
            /\ Sent' = 1..Len(messages) - 1
            /\ \A i \in Sent' : i + 1 \in Sent /\ messages'[i] = messages[i + 1]
        BY <1>0, <2>1, <2>3, TakesOne
      <4>2. \A i \in Sent : i # 1 => i - 1 \in Sent' /\ (i - 1) + 1 = i
        BY <4>1 DEF Sent
      <4> QED BY <2>1, <4>1, <4>2 DEF Told
    <3>2. /\ UNCHANGED Mailed
          /\ \A i \in Mailed : i + 0 = i /\ i - 0 = i
      BY <1>0, <2>1 DEF Mailed, TypeOK
    <3> QED BY <2>1, <3>1, <3>2, KeepsNumbers
  <2> QED BY <2>2, <2>3
<1> QED BY <1>1, <1>2, <1>3 DEF OnMessage

\* What the worker relays reaches the application's stream in the order in
\* which the native threads posted it, and nothing is left out.
THEOREM EventsInOrderHolds == Spec => EventsInOrder
<1> DEFINE Heard == heard' # heard => streamOpen /\ heard' = heard + 1
<1>1. Init => Numbers
  BY DEF Init, Numbers, ToldInOrder, PostedInOrder, LastPosted, Sent, Mailed
<1>2. Inv /\ Inv' /\ Numbers /\ [Next]_vars => Numbers'
  <2> SUFFICES ASSUME Inv, Inv', Numbers, [Next]_vars
               PROVE  Numbers'
    OBVIOUS
  <2>1. CASE ~streamOpen
    <3>1. ~streamOpen'
      BY <2>1 DEF Next, Worker, WorkerReady, Relay, Execute, ExecuteDispose,
        WorkerExit, WorkerStartFails, WorkerCrash, NativePost, Call, CallRefused,
        DisposeClient, OnMessage, OnReady, OnStartupFailed, OnEvent, OnStreamDone,
        OnEventError, OnResponse, OnCrash, OnExit, main, vars
    <3> QED BY <3>1 DEF Numbers
  <2>2. CASE streamOpen
    <3>1. CASE UNCHANGED vars
      BY <3>1 DEF vars, main, native, Numbers, ToldInOrder, PostedInOrder, LastPosted,
                  Sent, Mailed, Told, Posted
    <3>2. TypeOK'
      BY DEF Inv
    <3> QED BY <2>2, <3>1, <3>2, WorkerNumbers, PostNumbers, CallNumbers, MessageNumbers
            DEF Next
  <2> QED BY <2>1, <2>2
<1>3. Inv /\ Numbers /\ [Next]_vars => [Heard]_vars
  <2> SUFFICES ASSUME Inv, Numbers, [Next]_vars, heard' # heard
               PROVE  streamOpen /\ heard' = heard + 1
    OBVIOUS
  <2>1. (OnEvent \/ OnStreamDone \/ OnEventError) /\ OnMessage
    BY DEF Next, Worker, WorkerReady, Relay, Execute, ExecuteDispose,
      WorkerExit, WorkerStartFails, WorkerCrash, NativePost, Call, CallRefused,
      DisposeClient, OnMessage, OnReady, OnStartupFailed, OnResponse, OnCrash, OnExit,
      main, vars
  <2>2. streamOpen
    BY <2>1 DEF OnEvent, OnStreamDone, OnEventError
  <2> QED BY <2>1, <2>2, NextHeard
<1> QED BY <1>1, <1>2, <1>3, Invariance, PTL DEF Spec, EventsInOrder
=============================================================================

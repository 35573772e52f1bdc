---------------------- MODULE TransferCompletionProofs ----------------------
(***************************************************************************)
(* What wait reports is what became of the transfer, for every number of   *)
(* transfers and paths, and however events and the reply interleave.       *)
(***************************************************************************)
EXTENDS TransferCompletion, TLAPS

-----------------------------------------------------------------------------
(* The inductive invariant.                                                 *)

\* An event of the watched transfer, and one that names its path.
Own(e) == e.transfer = Mine
OnPath(e) == pathOf[e.transfer] = pathOf[Mine]

Said(status) == [kind |-> "status", transfer |-> Mine, status |-> status]
Gone == [kind |-> "removed", transfer |-> Mine]

Queued(e) == \E i \in DOMAIN events : events[i] = e

\* The call, its reply and what the watcher may know from it.
Phases ==
  /\ stream # "open" => streamError /\ events = <<>>
  /\ wait = "idle" => reply = "none"
  /\ reply = "none" => life[Mine] = "none"
  /\ life[Mine] = "none" => reply \in {"none", "asked", "failed"}
  /\ path <=> reply = "delivered"
  /\ wait = "starting" => ~path
  /\ wait = "waiting" => path
  /\ wait = "returned" => outcome # "none"

\* One transfer at a time lives at the path, and completed ones were complete.
Lives ==
  /\ life[Mine] # "none" =>
       \A u \in Transfers \ {Mine} :
         pathOf[u] = pathOf[Mine] => life[u] \in {"none", "removed"}
  /\ Mine \in completed => life[Mine] \in {"complete", "removed"}
  /\ life[Mine] = "complete" => Mine \in completed

\* A status that Mine had, and that settles what becomes of it.
Settled(status) ==
  /\ status = "complete" => Mine \in completed
  /\ status \in Failures => /\ Mine \notin completed
                            /\ life[Mine] \in Failures \cup {"removed"}

\* f may come after e in the stream: once Mine has spoken nobody else speaks
\* on its path, its ending is its last status, its removal its last word.
MayFollow(e, f) ==
  Own(e) /\ OnPath(f) => /\ Own(f) /\ f.kind # "added"
                         /\ e.kind # "removed"
                         /\ e.kind = "status" /\ e.status \notin Running
                              => f.kind = "removed"

Orderly == \A i, j \in DOMAIN events : i < j => MayFollow(events[i], events[j])

\* What an event of Mine says has happened.
Agrees(e) ==
  Own(e) => /\ life[Mine] # "none"
            /\ e.kind = "removed" => life[Mine] = "removed"
            /\ e.kind = "status" /\ e.status \notin Running =>
                 life[Mine] \in {e.status, "removed"}
            /\ e.kind = "status" => (e.status = "complete" => Mine \in completed)
            /\ e.kind = "status" => (e.status \in Failures => Mine \notin completed)

Honest == \A i \in DOMAIN events : Agrees(events[i])

\* The announcement of Mine is not on its way any more.
Tracking == life[Mine] # "none" /\ OwnEventsHeard

\* From the announcement on, the record of the path is about Mine.
Recorded ==
  Listening /\ Tracking =>
    /\ \A i \in DOMAIN events : OnPath(events[i]) => Own(events[i])
    /\ Settled(statuses[pathOf[Mine]])
    /\ pathOf[Mine] \in removed =>
         /\ life[Mine] = "removed"
         /\ \A i \in DOMAIN events : ~Own(events[i])

\* The end of Mine is its last status.  Only the reply can name one ahead of
\* the events, and that is a verdict.
LastHeard ==
  Listening /\ Tracking /\ statuses[pathOf[Mine]] \in Failures \cup {"complete"} =>
    \A i \in DOMAIN events : Own(events[i]) => events[i].kind = "removed"

\* What became of Mine is recorded or still to be heard.
Due ==
  Listening =>
    /\ Mine \in completed =>
         \/ Tracking /\ statuses[pathOf[Mine]] = "complete"
         \/ Queued(Said("complete"))
    /\ life[Mine] \in Failures =>
         \/ Tracking /\ statuses[pathOf[Mine]] = life[Mine]
         \/ Queued(Said(life[Mine]))
    /\ life[Mine] = "removed" =>
         \/ Tracking /\ pathOf[Mine] \in removed
         \/ Queued(Gone)

\* Until there is an outcome, both hold.
Coming == outcome = "none" => LastHeard /\ Due

\* Without reuse nothing but Mine ever makes a record of the path.
Unshared ==
  ~environment.reuse =>
    /\ \A u \in Transfers \ {Mine} : pathOf[u] # pathOf[Mine]
    /\ Settled(statuses[pathOf[Mine]])
    /\ ~Tracking => pathOf[Mine] \notin removed

\* The reply, or the path, tells Mine from an earlier owner of its path.
Distinguishable == ~(environment.reuse /\ environment.overtakes)

\* The reply came behind the announcement where the path alone is no help.
Behind ==
  Distinguishable /\ environment.reuse /\ path /\ stream = "open" => Tracking

\* The watcher waits only while there is no verdict.
Undecided ==
  wait = "waiting" /\ outcome = "none" =>
    Verdict(path, statuses[pathOf[Mine]], pathOf[Mine] \in removed, streamError) = "none"

\* A failure was reported for a transfer that can no longer complete.
FailedForGood ==
  outcome \in {"transferFailed", "removed"} /\ ~streamError =>
    Mine \notin completed /\ life[Mine] \in Failures \cup {"removed"}

Truthful == Distinguishable => TruthfulSuccess /\ FailedForGood

WInv ==
  /\ TypeOK /\ Phases /\ Lives /\ Orderly /\ Honest
  /\ Settled(replyStatus)
  /\ Recorded /\ Coming /\ Unshared /\ Behind /\ Undecided /\ Truthful

LEMMA WInvInit == Init => WInv
<1> SUFFICES ASSUME Init PROVE WInv
  OBVIOUS
<1> USE TransfersAssumption DEF Init
<1>1. TypeOK
  <2>1. environment \in Environments /\ pathOf \in [Transfers -> Paths]
    OBVIOUS
  <2>2. events \in Seq(Event)
    OBVIOUS
  <2>3. life \in [Transfers -> Status \cup {"none", "removed"}]
    OBVIOUS
  <2>4. statuses \in [Paths -> Status \cup {NoStatus}]
    OBVIOUS
  <2> QED BY <2>1, <2>2, <2>3, <2>4 DEF TypeOK
<1>2. Phases /\ Lives /\ Orderly /\ Honest
  BY DEF Phases, Lives, Orderly, Honest
<1>3. life[Mine] = "none" /\ ~Listening /\ ~Tracking
  BY DEF Listening, Tracking
<1>4. statuses[pathOf[Mine]] = NoStatus
  OBVIOUS
<1>5. Settled(NoStatus)
  BY DEF Settled, NoStatus, Failures
<1>6. Unshared
  BY <1>4, <1>5 DEF Unshared
<1> QED
  BY <1>1, <1>2, <1>3, <1>5, <1>6
     DEF WInv, Recorded, Coming, LastHeard, Due, Behind, Undecided, Truthful, TruthfulSuccess, FailedForGood

-----------------------------------------------------------------------------
(* The event stream as the service extends it and the watcher takes from it. *)

\* r is q with events of N behind it.
Grown(q, r, N) ==
  /\ DOMAIN q \subseteq DOMAIN r
  /\ \A i \in DOMAIN q : r[i] = q[i]
  /\ \A i \in DOMAIN r \ DOMAIN q : r[i] \in N /\ \A j \in DOMAIN q : j < i
  /\ \A i \in DOMAIN r : i \in Nat

\* One event more.
LEMMA OneMore ==
  ASSUME NEW q \in Seq(Event), NEW e \in Event
  PROVE  /\ q \o <<e>> \in Seq(Event) /\ Grown(q, q \o <<e>>, {e})
         /\ \E i \in DOMAIN (q \o <<e>>) \ DOMAIN q : (q \o <<e>>)[i] = e
         /\ \A i, j \in DOMAIN (q \o <<e>>) \ DOMAIN q : ~(i < j)
<1> DEFINE r == q \o <<e>>
<1>1. r \in Seq(Event) /\ Len(q) \in Nat /\ DOMAIN q = 1..Len(q)
  OBVIOUS
<1>2. DOMAIN r = 1..(Len(q) + 1) /\ r[Len(q) + 1] = e /\ \A i \in 1..Len(q) : r[i] = q[i]
  OBVIOUS
<1> HIDE DEF r
<1> QED
  BY <1>1, <1>2 DEF Grown

\* r is q with e and then f behind it.
GrownByTwo(q, r, e, f) ==
  /\ Grown(q, r, {e, f})
  /\ \E i \in DOMAIN r \ DOMAIN q : r[i] = e
  /\ \A i, j \in DOMAIN r \ DOMAIN q : i < j => r[i] = e /\ r[j] = f

\* Two events more, in their order.
LEMMA TwoMore ==
  ASSUME NEW q \in Seq(Event), NEW e \in Event, NEW f \in Event
  PROVE  GrownByTwo(q, q \o <<e, f>>, e, f)
<1> DEFINE r == q \o <<e, f>>
<1>1. r \in Seq(Event) /\ Len(q) \in Nat /\ DOMAIN q = 1..Len(q)
  OBVIOUS
<1>2. /\ DOMAIN r = 1..(Len(q) + 2) /\ r[Len(q) + 1] = e /\ r[Len(q) + 2] = f
      /\ \A i \in 1..Len(q) : r[i] = q[i]
  OBVIOUS
<1> HIDE DEF r
<1>3. \A i \in DOMAIN r \ DOMAIN q : i = Len(q) + 1 \/ i = Len(q) + 2
  BY <1>1, <1>2
<1>4. \A i, j \in DOMAIN r \ DOMAIN q : i < j => i = Len(q) + 1 /\ j = Len(q) + 2
  BY <1>1, <1>3
<1>5. Len(q) + 1 \in DOMAIN r \ DOMAIN q
  BY <1>1, <1>2
<1>6. Grown(q, r, {e, f})
  BY <1>1, <1>2, <1>3 DEF Grown
<1>7. \A i, j \in DOMAIN r \ DOMAIN q : i < j => r[i] = e /\ r[j] = f
  BY <1>4, <1>2
<1>8. GrownByTwo(q, r, e, f)
  BY <1>2, <1>5, <1>6, <1>7 DEF GrownByTwo
<1> QED
  BY <1>8 DEF r

\* The first event taken.
LEMMA FirstTaken ==
  ASSUME NEW q \in Seq(Event), q # <<>>
  PROVE  /\ Tail(q) \in Seq(Event) /\ Head(q) \in Event
         /\ 1 \in DOMAIN q /\ Head(q) = q[1]
         /\ \A i \in DOMAIN q : i \in Nat /\ i >= 1
         /\ \A i \in DOMAIN Tail(q) : i + 1 \in DOMAIN q /\ 1 < i + 1
                                       /\ Tail(q)[i] = q[i + 1]
         /\ \A i \in DOMAIN q : i = 1 \/ (i - 1 \in DOMAIN Tail(q) /\ Tail(q)[i - 1] = q[i])
         /\ \A i \in DOMAIN Tail(q) : i \in Nat
  OBVIOUS

-----------------------------------------------------------------------------
(* Types.                                                                   *)

LEMMA EventTypes ==
  ASSUME NEW t \in Transfers
  PROVE  /\ [kind |-> "added", transfer |-> t] \in Event
         /\ [kind |-> "removed", transfer |-> t] \in Event
         /\ \A s \in Status : [kind |-> "status", transfer |-> t, status |-> s] \in Event
  BY DEF Event

LEMMA TypeStep == TypeOK /\ [Next]_vars => TypeOK'
<1> SUFFICES ASSUME TypeOK, [Next]_vars PROVE TypeOK'
  OBVIOUS
<1> USE TransfersAssumption
<1>q. events \in Seq(Event)
  BY DEF TypeOK
<1>1. ASSUME NEW t \in Transfers, CreateTransfer(t)
      PROVE  TypeOK'
  <2>1. events' \in Seq(Event)
    <3> DEFINE e == [kind |-> "added", transfer |-> t]
               f == [kind |-> "status", transfer |-> t, status |-> "queued"]
    <3>1. e \in Event /\ f \in Event
      BY EventTypes DEF Status, Running
    <3>2. events' = IF stream = "open" THEN events \o <<e, f>> ELSE events
      BY <1>1 DEF CreateTransfer, Publish
    <3> HIDE DEF e, f
    <3> QED BY <3>1, <3>2, <1>q
  <2>2. life' \in [Transfers -> Status \cup {"none", "removed"}]
    BY <1>1 DEF CreateTransfer, TypeOK, Status, Running
  <2> QED
    BY <1>1, <2>1, <2>2 DEF CreateTransfer, TypeOK, watcher
<1>2. ASSUME NEW t \in Transfers, RemoveTransfer(t)
      PROVE  TypeOK'
  <2>1. events' \in Seq(Event)
    <3> DEFINE e == [kind |-> "removed", transfer |-> t]
    <3>1. e \in Event
      BY EventTypes
    <3>2. events' = IF stream = "open" THEN events \o <<e>> ELSE events
      BY <1>2 DEF RemoveTransfer, Publish
    <3> HIDE DEF e
    <3> QED BY <3>1, <3>2, <1>q
  <2>2. life' \in [Transfers -> Status \cup {"none", "removed"}]
    BY <1>2 DEF RemoveTransfer, TypeOK
  <2> QED
    BY <1>2, <2>1, <2>2 DEF RemoveTransfer, TypeOK, watcher
<1>3. ASSUME NEW t \in Transfers, NEW s \in {"complete", "error", "active"},
             ChangeStatus(t, s)
      PROVE  TypeOK'
  <2>0. s \in Status
    BY DEF Status, Running, Failures
  <2>1. events' \in Seq(Event)
    <3> DEFINE e == [kind |-> "status", transfer |-> t, status |-> s]
    <3>1. e \in Event
      BY EventTypes, <2>0
    <3>2. events' = IF stream = "open" THEN events \o <<e>> ELSE events
      BY <1>3 DEF ChangeStatus, Publish
    <3> HIDE DEF e
    <3> QED BY <3>1, <3>2, <1>q
  <2>2. life' \in [Transfers -> Status \cup {"none", "removed"}]
    BY <1>3, <2>0 DEF ChangeStatus, TypeOK
  <2>3. completed' \subseteq Transfers
    BY <1>3 DEF ChangeStatus, TypeOK
  <2> QED
    BY <1>3, <2>1, <2>2, <2>3 DEF ChangeStatus, TypeOK, watcher
<1>4. CASE Hear
  <2>1. Head(events) \in Event /\ Tail(events) \in Seq(Event)
    BY <1>4, <1>q, FirstTaken DEF Hear
  <2>2. pathOf[Head(events).transfer] \in Paths
    BY <2>1 DEF TypeOK, Event
  <2>3. Head(events).kind = "status" => Head(events).status \in Status
    BY <2>1 DEF Event
  <2>4. statuses' \in [Paths -> Status \cup {NoStatus}] /\ removed' \subseteq Paths
    BY <1>4, <2>1, <2>2, <2>3 DEF Hear, Record, TypeOK, Event
  <2>5. outcome' \in {outcome, Verdict(path, statuses'[pathOf[Mine]],
                                       pathOf[Mine] \in removed', streamError)}
    BY <1>4 DEF Hear, Settle, service
  <2>6. statuses'[pathOf[Mine]] \in Status \cup {NoStatus}
    BY <2>4 DEF TypeOK
  <2>7. outcome' = outcome \/ outcome' \in
          {"none", "success", "transferFailed", "removed", "streamFailed"}
    BY <2>5, <2>6 DEF Verdict
  <2> QED
    BY <1>4, <2>1, <2>4, <2>7 DEF Hear, TypeOK, service
<1>5. CASE ReceiveReply
  <2>1. statuses' \in [Paths -> Status \cup {NoStatus}]
    BY <1>5 DEF ReceiveReply, TypeOK
  <2>2. outcome' \in {outcome, Verdict(TRUE, statuses'[pathOf[Mine]],
                                       pathOf[Mine] \in removed, streamError)}
    BY <1>5 DEF ReceiveReply, Settle, service
  <2>3. statuses'[pathOf[Mine]] \in Status \cup {NoStatus}
    BY <2>1 DEF TypeOK
  <2>4. outcome' = outcome \/ outcome' \in
          {"none", "success", "transferFailed", "removed", "streamFailed"}
    BY <2>2, <2>3 DEF Verdict
  <2> QED
    BY <1>5, <2>1, <2>4 DEF ReceiveReply, TypeOK, service
<1>6. CASE StreamError \/ StreamDone \/ Abort
  <2>1. /\ UNCHANGED <<service, path, statuses, removed, wait, reply, replyStatus>>
        /\ streamError' = TRUE /\ stream' \in {stream, "done", "closed"}
        /\ events' = events \/ events' = <<>>
        /\ Settle
    BY <1>6 DEF StreamError, StreamDone, Abort
  <2>2. outcome' \in {outcome, Verdict(path, statuses[pathOf[Mine]],
                                       pathOf[Mine] \in removed, TRUE)}
    BY <2>1 DEF Settle, service
  <2>3. statuses[pathOf[Mine]] \in Status \cup {NoStatus}
    BY DEF TypeOK
  <2>4. outcome' = outcome \/ outcome' \in
          {"none", "success", "transferFailed", "removed", "streamFailed"}
    BY <2>2, <2>3 DEF Verdict
  <2>5. events' \in Seq(Event)
    <3>1. <<>> \in Seq(Event)
      OBVIOUS
    <3> QED BY <2>1, <3>1, <1>q
  <2>6. UNCHANGED <<environment, pathOf, life, completed, reply, replyStatus, path,
                    statuses, removed, wait>> /\ streamError' \in BOOLEAN
    BY <2>1 DEF service
  <2>7. stream' \in {"open", "done", "closed"}
    BY <2>1 DEF TypeOK
  <2>8. outcome' \in {"none", "success", "transferFailed", "removed", "streamFailed",
                     "timeout", "startFailed"}
    BY <2>4 DEF TypeOK
  <2>9. /\ environment' \in Environments
        /\ pathOf' \in [Transfers -> Paths]
        /\ life' \in [Transfers -> Status \cup {"none", "removed"}]
    BY <2>6 DEF TypeOK
  <2>10. /\ statuses' \in [Paths -> Status \cup {NoStatus}]
         /\ path' \in BOOLEAN /\ removed' \subseteq Paths
    BY <2>6 DEF TypeOK
  <2> QED
    BY <2>5, <2>6, <2>7, <2>8, <2>9, <2>10 DEF TypeOK
<1>7. CASE Reply \/ RefuseStart \/ Start \/ ReceiveRefusal \/ Return \/ Timeout
  BY <1>7 DEF Reply, RefuseStart, Start, ReceiveRefusal, Return, Timeout, TypeOK, service, watcher
<1>8. CASE Unheard
  <2>1. Tail(events) \in Seq(Event)
    BY <1>8, <1>q, FirstTaken DEF Unheard
  <2> QED
    BY <1>8, <2>1 DEF Unheard, TypeOK, service, watcher
<1>9. CASE UNCHANGED vars
  BY <1>9 DEF vars, TypeOK, service, watcher
<1> QED
  BY <1>1, <1>2, <1>3, <1>4, <1>5, <1>6, <1>7, <1>8, <1>9 DEF Next, Service, Answer

-----------------------------------------------------------------------------
(* Steps of the service.                                                    *)

\* What one published event does to the stream.
LEMMA Posted ==
  ASSUME TypeOK, NEW e \in Event, Publish(<<e>>)
  PROVE  /\ Grown(events, events', {e})
         /\ \A i, j \in DOMAIN events' \ DOMAIN events : ~(i < j)
         /\ stream = "open" => Queued(e)'
         /\ stream # "open" => events' = events
<1>1. events \in Seq(Event)
  BY DEF TypeOK
<1>2. CASE stream = "open"
  <2>1. events' = events \o <<e>>
    BY <1>2 DEF Publish
  <2> QED BY <1>1, <1>2, <2>1, OneMore DEF Queued
<1>3. CASE stream # "open"
  <2>1. events' = events
    BY <1>3 DEF Publish
  <2>2. \A i \in DOMAIN events : i \in Nat
    BY <1>1
  <2> QED BY <1>3, <2>1, <2>2 DEF Grown
<1> QED
  BY <1>2, <1>3

\* The order survives events that may follow all those before them.
LEMMA OrderlyGrows ==
  ASSUME TypeOK, Orderly, pathOf' = pathOf, NEW N, Grown(events, events', N),
         \A i \in DOMAIN events : \A e \in N : MayFollow(events[i], e),
         \A i, j \in DOMAIN events' \ DOMAIN events :
           i < j => MayFollow(events'[i], events'[j])
  PROVE  Orderly'
<1>1. SUFFICES ASSUME NEW i \in DOMAIN events', NEW j \in DOMAIN events', i < j
               PROVE  MayFollow(events'[i], events'[j])
  BY DEF Orderly, MayFollow, Own, OnPath
<1>2. i \in Nat /\ j \in Nat
  BY DEF Grown
<1>3. CASE i \in DOMAIN events /\ j \in DOMAIN events
  BY <1>1, <1>3 DEF Orderly, Grown
<1>4. CASE i \in DOMAIN events /\ j \notin DOMAIN events
  BY <1>4 DEF Grown
<1>5. CASE i \notin DOMAIN events /\ j \in DOMAIN events
  BY <1>1, <1>2, <1>5 DEF Grown
<1>6. CASE i \notin DOMAIN events /\ j \notin DOMAIN events
  BY <1>1, <1>6
<1> QED
  BY <1>3, <1>4, <1>5, <1>6

\* What is queued stays queued.
LEMMA StillQueued ==
  ASSUME NEW e, NEW N, Grown(events, events', N), Queued(e)
  PROVE  Queued(e)'
  BY DEF Queued, Grown

\* A step that concerns other transfers: on Mine's path only before Mine.
LEMMA OthersStep ==
  ASSUME WInv, TypeOK', NEW N, Grown(events, events', N),
         stream # "open" => events' = events,
         \A e \in N : ~Own(e) /\ (OnPath(e) => life[Mine] = "none"),
         UNCHANGED <<environment, pathOf, reply, replyStatus, stream, watcher>>,
         life'[Mine] = life[Mine],
         Mine \in completed' <=> Mine \in completed,
         life[Mine] # "none" =>
           \A u \in Transfers \ {Mine} :
             pathOf[u] = pathOf[Mine] => life'[u] \in {"none", "removed"}
  PROVE  WInv'
<1>0. /\ TypeOK /\ Phases /\ Lives /\ Orderly /\ Honest /\ Settled(replyStatus)
      /\ Recorded /\ Coming /\ Unshared /\ Behind /\ Undecided /\ Truthful
  BY DEF WInv
<1>1. Phases' /\ Lives'
  BY <1>0 DEF Phases, Lives, watcher
<1>2. Orderly'
  <2>1. \A i \in DOMAIN events : \A e \in N : MayFollow(events[i], e)
    BY <1>0 DEF MayFollow, Honest, Agrees
  <2>2. \A i, j \in DOMAIN events' \ DOMAIN events :
           i < j => MayFollow(events'[i], events'[j])
    BY DEF Grown, MayFollow
  <2> QED BY <1>0, <2>1, <2>2, OrderlyGrows
<1>3. Honest'
  BY <1>0 DEF Honest, Agrees, Grown, Own
<1>4. Tracking' <=> Tracking
  BY DEF Tracking, OwnEventsHeard, Grown, Own
<1>5. Listening' <=> Listening
  BY DEF Listening, watcher
<1>s. \A status : Settled(status) <=> Settled(status)'
  BY DEF Settled
<1>6. Recorded'
  <2> SUFFICES ASSUME Listening', Tracking' PROVE Recorded'
    BY DEF Recorded
  <2>1. Listening /\ Tracking /\ life[Mine] # "none"
    BY <1>4, <1>5 DEF Tracking
  <2>2. \A i \in DOMAIN events' : OnPath(events'[i]) => Own(events'[i])
    BY <1>0, <2>1 DEF Recorded, Grown, Own, OnPath
  <2>3. \A i \in DOMAIN events' : Own(events'[i]) => i \in DOMAIN events
    BY DEF Grown, Own
  <2>4. \A i \in DOMAIN events : events'[i] = events[i]
    BY DEF Grown
  <2>5. Settled(statuses[pathOf[Mine]])'
    BY <1>0, <1>s, <2>1 DEF Recorded, watcher
  <2> QED BY <1>0, <2>1, <2>2, <2>3, <2>4, <2>5 DEF Recorded, Own, OnPath, watcher
<1>7. Coming'
  <2>1. \A e : Queued(e) => Queued(e)'
    BY StillQueued
  <2>2. Due => Due'
    BY <1>4, <1>5, <2>1 DEF Due, Said, Gone, watcher
  <2>3. LastHeard => LastHeard'
    BY <1>4, <1>5 DEF LastHeard, Grown, Own, watcher
  <2> QED BY <1>0, <2>2, <2>3 DEF Coming, watcher
<1>8. Unshared' /\ Behind' /\ Undecided' /\ Truthful' /\ Settled(replyStatus)'
  BY <1>0, <1>4, <1>s DEF Unshared, Behind, Undecided, Truthful, TruthfulSuccess,
                    FailedForGood, Distinguishable, watcher
<1> QED
  BY <1>1, <1>2, <1>3, <1>6, <1>7, <1>8 DEF WInv

LEMMA OthersServed ==
  ASSUME WInv, TypeOK', NEW t \in Transfers \ {Mine},
         CreateTransfer(t) \/ RemoveTransfer(t) \/ \E s \in Status : ChangeStatus(t, s)
  PROVE  WInv'
<1> USE TransfersAssumption
<1>a. TypeOK /\ Lives /\ events \in Seq(Event)
  BY DEF WInv, TypeOK
<1>1. ASSUME CreateTransfer(t)
      PROVE  WInv'
  <2> DEFINE e == [kind |-> "added", transfer |-> t]
             f == [kind |-> "status", transfer |-> t, status |-> "queued"]
  <2>1. e \in Event /\ f \in Event /\ e.transfer = t /\ f.transfer = t
    BY EventTypes DEF Status, Running
  <2>2. events' = IF stream = "open" THEN events \o <<e, f>> ELSE events
    BY <1>1 DEF CreateTransfer, Publish
  <2>3. /\ life' = [life EXCEPT ![t] = "queued"]
        /\ pathOf[t] = pathOf[Mine] => life[Mine] = "none"
        /\ UNCHANGED <<environment, pathOf, completed, reply, replyStatus, stream, watcher>>
    BY <1>1 DEF CreateTransfer
  <2> HIDE DEF e, f
  <2>4. Grown(events, events', {e, f})
    <3>1. \A i \in DOMAIN events : i \in Nat
      BY <1>a
    <3>2. GrownByTwo(events, events \o <<e, f>>, e, f)
      BY <2>1, <1>a, TwoMore
    <3>3. stream = "open" => GrownByTwo(events, events', e, f)
      BY <2>2, <3>2
    <3> QED BY <2>2, <3>1, <3>3 DEF Grown, GrownByTwo
  <2>5. \A x \in {e, f} : ~Own(x) /\ (OnPath(x) => life[Mine] = "none")
    BY <2>1, <2>3 DEF Own, OnPath
  <2>6. /\ life'[Mine] = life[Mine]
        /\ \A u \in Transfers \ {t} : life'[u] = life[u]
    BY <2>3, <1>a DEF TypeOK
  <2>7. life[Mine] # "none" =>
          \A u \in Transfers \ {Mine} :
            pathOf[u] = pathOf[Mine] => life'[u] \in {"none", "removed"}
    BY <2>3, <2>6, <1>a DEF Lives
  <2>8. stream # "open" => events' = events
    BY <2>2
  <2>9. Mine \in completed' <=> Mine \in completed
    BY <2>3
  <2> QED BY <2>3, <2>4, <2>5, <2>6, <2>7, <2>8, <2>9, OthersStep
<1>2. ASSUME NEW e \in Event, e.transfer = t, Publish(<<e>>),
             NEW s \in Status \cup {"removed"},
             life' = [life EXCEPT ![t] = s], life[t] \in Status,
             Mine \in completed' <=> Mine \in completed,
             UNCHANGED <<environment, pathOf, reply, replyStatus, stream, watcher>>
      PROVE  WInv'
  <2>1. life[Mine] # "none" => pathOf[t] # pathOf[Mine]
    BY <1>2, <1>a DEF Lives, Status, Running, Failures
  <2>2. \A x \in {e} : ~Own(x) /\ (OnPath(x) => life[Mine] = "none")
    BY <1>2, <2>1 DEF Own, OnPath
  <2>3. /\ life'[Mine] = life[Mine]
        /\ \A u \in Transfers \ {t} : life'[u] = life[u]
    BY <1>2, <1>a DEF TypeOK
  <2>4. life[Mine] # "none" =>
          \A u \in Transfers \ {Mine} :
            pathOf[u] = pathOf[Mine] => life'[u] \in {"none", "removed"}
    BY <2>1, <2>3, <1>a DEF Lives
  <2>5. Grown(events, events', {e}) /\ (stream # "open" => events' = events)
    BY <1>a, <1>2, Posted
  <2> QED BY <1>2, <2>2, <2>3, <2>4, <2>5, OthersStep
<1>3. ASSUME RemoveTransfer(t)
      PROVE  WInv'
  <2> DEFINE e == [kind |-> "removed", transfer |-> t]
  <2>1. e \in Event /\ e.transfer = t
    BY EventTypes
  <2>2. /\ Publish(<<e>>) /\ life' = [life EXCEPT ![t] = "removed"] /\ life[t] \in Status
        /\ Mine \in completed' <=> Mine \in completed
        /\ UNCHANGED <<environment, pathOf, reply, replyStatus, stream, watcher>>
    BY <1>3 DEF RemoveTransfer
  <2> HIDE DEF e
  <2> QED BY <2>1, <2>2, <1>2
<1>4. ASSUME NEW s \in Status, ChangeStatus(t, s)
      PROVE  WInv'
  <2> DEFINE e == [kind |-> "status", transfer |-> t, status |-> s]
  <2>1. e \in Event /\ e.transfer = t
    BY EventTypes
  <2>2. /\ Publish(<<e>>) /\ life' = [life EXCEPT ![t] = s] /\ life[t] \in Status
        /\ Mine \in completed' <=> Mine \in completed
        /\ UNCHANGED <<environment, pathOf, reply, replyStatus, stream, watcher>>
    BY <1>4 DEF ChangeStatus, Status
  <2> HIDE DEF e
  <2> QED BY <2>1, <2>2, <1>2
<1> QED
  BY <1>1, <1>3, <1>4

\* The object of Mine appears: nothing of it was heard or is under way.
LEMMA MineCreated ==
  ASSUME WInv, TypeOK', CreateTransfer(Mine)
  PROVE  WInv'
<1> USE TransfersAssumption
<1>0. /\ TypeOK /\ Phases /\ Lives /\ Orderly /\ Honest /\ Settled(replyStatus)
      /\ Recorded /\ Coming /\ Unshared /\ Behind /\ Undecided /\ Truthful
  BY DEF WInv
<1> DEFINE e == [kind |-> "added", transfer |-> Mine]
           f == [kind |-> "status", transfer |-> Mine, status |-> "queued"]
<1>1. /\ e \in Event /\ f \in Event /\ Own(e) /\ Own(f) /\ e.kind = "added"
      /\ f.kind = "status" /\ f.status = "queued"
  BY EventTypes DEF Status, Running, Own
<1>2. events' = IF stream = "open" THEN events \o <<e, f>> ELSE events
  BY DEF CreateTransfer, Publish
<1>3. /\ life' = [life EXCEPT ![Mine] = "queued"]
      /\ \A u \in Transfers : pathOf[u] = pathOf[Mine] => life[u] \in {"none", "removed"}
      /\ reply = "asked" /\ life[Mine] = "none"
      /\ UNCHANGED <<environment, pathOf, completed, reply, replyStatus, stream, watcher>>
  BY DEF CreateTransfer
<1> HIDE DEF e, f
<1>4. life'[Mine] = "queued" /\ \A u \in Transfers \ {Mine} : life'[u] = life[u]
  BY <1>3, <1>0 DEF TypeOK
<1>5. Mine \notin completed
  BY <1>0, <1>3 DEF Lives
<1>6. \A i \in DOMAIN events : ~Own(events[i])
  BY <1>0, <1>3 DEF Honest, Agrees
<1>7. Phases'
  BY <1>0, <1>2, <1>3, <1>4 DEF Phases, watcher
<1>8. Lives'
  BY <1>0, <1>3, <1>4, <1>5 DEF Lives
<1>9. /\ Grown(events, events', {e, f})
      /\ stream = "open" => \E i \in DOMAIN events' \ DOMAIN events : events'[i] = e
      /\ \A i, j \in DOMAIN events' \ DOMAIN events :
           i < j => events'[i] = e /\ events'[j] = f
  <2>1. events \in Seq(Event)
    BY <1>0 DEF TypeOK
  <2>2. \A i \in DOMAIN events : i \in Nat
    BY <2>1
  <2>3. CASE stream = "open"
    <3>1. e \in Event /\ f \in Event /\ events' = events \o <<e, f>>
      BY <1>1, <1>2, <2>3
    <3>2. GrownByTwo(events, events \o <<e, f>>, e, f)
      BY <2>1, <3>1, TwoMore
    <3>3. GrownByTwo(events, events', e, f)
      BY <3>1, <3>2
    <3> QED BY <3>3 DEF GrownByTwo
  <2>4. CASE stream # "open"
    BY <1>2, <2>2, <2>4 DEF Grown
  <2> QED BY <2>3, <2>4
<1>10. Orderly'
  <2>1. MayFollow(e, f)
    BY <1>1 DEF MayFollow, Running
  <2>2. \A i \in DOMAIN events : \A x \in {e, f} : MayFollow(events[i], x)
    BY <1>6 DEF MayFollow
  <2>3. pathOf' = pathOf
    BY <1>3
  <2> QED BY <1>0, <1>9, <2>1, <2>2, <2>3, OrderlyGrows
<1>11. Honest'
  <2>1. Agrees(e)' /\ Agrees(f)'
    BY <1>1, <1>4 DEF Agrees, Own, Running, Failures
  <2>2. \A i \in DOMAIN events' : events'[i] \in {e, f} \/ ~Own(events'[i])
    BY <1>6, <1>9 DEF Grown
  <2>3. \A i \in DOMAIN events' : Own(events'[i]) => events'[i] = e \/ events'[i] = f
    BY <2>2
  <2> QED BY <2>1, <2>3, <1>1, <1>4 DEF Honest, Agrees, Own, Running, Failures
<1>12. Listening' => ~Tracking'
  <2>1. Listening' => stream = "open"
    BY <1>3 DEF Listening
  <2> QED BY <1>1, <1>9, <2>1 DEF Tracking, OwnEventsHeard, Own
<1>13. Recorded' /\ Coming'
  BY <1>4, <1>5, <1>3, <1>12 DEF Recorded, Coming, LastHeard, Due, Failures
<1>s. \A status : Settled(status) => Settled(status)'
  BY <1>3, <1>5 DEF Settled, Failures
<1>14. Unshared' /\ Settled(replyStatus)'
  <2>1. ~Tracking
    BY <1>3 DEF Tracking
  <2> QED BY <1>0, <1>s, <1>3, <2>1 DEF Unshared, watcher
<1>15. Behind' /\ Undecided'
  BY <1>0, <1>3 DEF Behind, Undecided, Phases, watcher
<1>16. Truthful'
  BY <1>0, <1>3, <1>5 DEF Truthful, TruthfulSuccess, FailedForGood, Failures,
     Distinguishable, watcher
<1> QED
  BY <1>7, <1>8, <1>10, <1>11, <1>13, <1>14, <1>15, <1>16 DEF WInv

\* Mine gets another status.
LEMMA MineChanged ==
  ASSUME WInv, TypeOK', NEW s \in {"complete", "error", "active"}, ChangeStatus(Mine, s)
  PROVE  WInv'
<1> USE TransfersAssumption
<1>0. /\ TypeOK /\ Phases /\ Lives /\ Orderly /\ Honest /\ Settled(replyStatus)
      /\ Recorded /\ Coming /\ Unshared /\ Behind /\ Undecided /\ Truthful
  BY DEF WInv
<1> DEFINE e == [kind |-> "status", transfer |-> Mine, status |-> s]
<1>1. e \in Event /\ Own(e) /\ e.kind = "status" /\ e.status = s /\ e = Said(s)
  BY EventTypes DEF Status, Running, Failures, Own, Said
<1>2. /\ Publish(<<e>>) /\ life[Mine] \in Running
      /\ life' = [life EXCEPT ![Mine] = s]
      /\ completed' = IF s = "complete" THEN completed \cup {Mine} ELSE completed
      /\ UNCHANGED <<environment, pathOf, reply, replyStatus, stream, watcher>>
  BY DEF ChangeStatus
<1> HIDE DEF e
<1>3. life'[Mine] = s /\ \A u \in Transfers \ {Mine} : life'[u] = life[u]
  BY <1>2, <1>0 DEF TypeOK
<1>4. Mine \notin completed /\ life[Mine] # "none"
  BY <1>0, <1>2 DEF Lives, Running
<1>5. Mine \in completed' <=> s = "complete"
  BY <1>2, <1>4
<1>6. /\ Grown(events, events', {e})
      /\ \A i, j \in DOMAIN events' \ DOMAIN events : ~(i < j)
      /\ stream = "open" => Queued(e)'
      /\ stream # "open" => events' = events
  BY <1>0, <1>1, <1>2, Posted
<1>7. \A i \in DOMAIN events : Own(events[i]) =>
        /\ events[i].kind # "removed"
        /\ events[i].kind = "status" => events[i].status \in Running
  BY <1>0, <1>2 DEF Honest, Agrees, Running, Failures
<1>8. Phases'
  BY <1>0, <1>2, <1>3, <1>4, <1>6 DEF Phases, watcher
<1>9. Lives'
  BY <1>0, <1>2, <1>3, <1>4, <1>5 DEF Lives
<1>10. Orderly'
  <2>1. \A i \in DOMAIN events : \A x \in {e} : MayFollow(events[i], x)
    BY <1>1, <1>7 DEF MayFollow
  <2>2. pathOf' = pathOf
    BY <1>2
  <2> QED BY <1>0, <1>6, <2>1, <2>2, OrderlyGrows
<1>11. Honest'
  <2>1. ASSUME NEW x, NEW i \in DOMAIN events', events'[i] = x, Own(x)
        PROVE  Agrees(x)'
    <3>1. CASE i \in DOMAIN events
      <4>1. events'[i] = events[i]
        BY <3>1, <1>6 DEF Grown
      <4> QED
        BY <2>1, <3>1, <4>1, <1>3, <1>5, <1>7 DEF Agrees, Running, Failures
    <3>2. CASE i \notin DOMAIN events
      <4>1. events'[i] = e
        BY <3>2, <1>6 DEF Grown
      <4> QED
        BY <2>1, <4>1, <1>1, <1>3, <1>5 DEF Agrees, Failures
    <3> QED BY <3>1, <3>2
  <2> QED BY <2>1 DEF Honest, Agrees, Own
<1>12. (Tracking' <=> Tracking) /\ (Listening' <=> Listening)
  BY <1>1, <1>2, <1>3, <1>4, <1>6
     DEF Tracking, OwnEventsHeard, Grown, Own, Listening, watcher
<1>s. \A status : Settled(status) => Settled(status)'
  BY <1>2, <1>4 DEF Settled, Running, Failures
<1>13. Recorded'
  <2> SUFFICES ASSUME Listening', Tracking' PROVE Recorded'
    BY DEF Recorded
  <2>1. Listening /\ Tracking
    BY <1>12
  <2>2. \A i \in DOMAIN events' :
          events'[i] = e \/ (i \in DOMAIN events /\ events'[i] = events[i])
    BY <1>6 DEF Grown
  <2>3. \A i \in DOMAIN events' : OnPath(events'[i]) => Own(events'[i])
    BY <1>0, <1>1, <2>1, <2>2 DEF Recorded
  <2>4. pathOf[Mine] \notin removed
    BY <1>0, <1>2, <2>1 DEF Recorded, Running
  <2>5. Settled(statuses[pathOf[Mine]])'
    BY <1>0, <1>2, <1>s, <2>1 DEF Recorded, watcher
  <2> QED BY <1>2, <2>3, <2>4, <2>5 DEF Recorded, Own, OnPath, watcher
<1>14. Coming'
  <2>1. Listening' => Queued(e)'
    BY <1>6, <1>12 DEF Listening
  <2>2. Due'
    BY <1>1, <1>3, <1>5, <2>1 DEF Due, Said, Failures
  <2>3. LastHeard'
    <3>1. Listening /\ Tracking => Settled(statuses[pathOf[Mine]])
      BY <1>0 DEF Recorded
    <3>2. Listening /\ Tracking => statuses[pathOf[Mine]] \notin Failures \cup {"complete"}
      BY <1>2, <1>4, <3>1 DEF Settled, Running, Failures
    <3> QED BY <1>2, <1>12, <3>2 DEF LastHeard, watcher
  <2> QED BY <2>2, <2>3 DEF Coming
<1>15. Unshared' /\ Behind' /\ Undecided' /\ Settled(replyStatus)'
  BY <1>0, <1>2, <1>s, <1>12 DEF Unshared, Behind, Undecided, Distinguishable, watcher
<1>16. Truthful'
  BY <1>0, <1>2, <1>4 DEF Truthful, TruthfulSuccess, FailedForGood, Running, Failures,
     Distinguishable, watcher
<1> QED
  BY <1>8, <1>9, <1>10, <1>11, <1>13, <1>14, <1>15, <1>16 DEF WInv

\* The object of Mine goes away.
LEMMA MineRemoved ==
  ASSUME WInv, TypeOK', RemoveTransfer(Mine)
  PROVE  WInv'
<1> USE TransfersAssumption
<1>0. /\ TypeOK /\ Phases /\ Lives /\ Orderly /\ Honest /\ Settled(replyStatus)
      /\ Recorded /\ Coming /\ Unshared /\ Behind /\ Undecided /\ Truthful
  BY DEF WInv
<1>1. Gone \in Event /\ Own(Gone) /\ Gone.kind = "removed"
  BY EventTypes DEF Own, Gone
<1>2. /\ Publish(<<Gone>>) /\ life[Mine] \in Status
      /\ life' = [life EXCEPT ![Mine] = "removed"]
      /\ UNCHANGED <<environment, pathOf, completed, reply, replyStatus, stream, watcher>>
  BY DEF RemoveTransfer, Gone
<1>3. life'[Mine] = "removed" /\ \A u \in Transfers \ {Mine} : life'[u] = life[u]
  BY <1>2, <1>0 DEF TypeOK
<1>4. life[Mine] # "none" /\ life[Mine] # "removed"
  BY <1>2 DEF Status, Running, Failures
<1>5. /\ Grown(events, events', {Gone})
      /\ \A i, j \in DOMAIN events' \ DOMAIN events : ~(i < j)
      /\ stream = "open" => Queued(Gone)'
      /\ stream # "open" => events' = events
  BY <1>0, <1>1, <1>2, Posted
<1>6. \A i \in DOMAIN events : Own(events[i]) => events[i].kind # "removed"
  BY <1>0, <1>4 DEF Honest, Agrees
<1>7. Phases'
  BY <1>0, <1>2, <1>3, <1>4, <1>5 DEF Phases, watcher
<1>8. Lives'
  BY <1>0, <1>2, <1>3, <1>4 DEF Lives
<1>9. Orderly'
  <2>1. \A i \in DOMAIN events : \A x \in {Gone} : MayFollow(events[i], x)
    BY <1>1, <1>6 DEF MayFollow
  <2>2. pathOf' = pathOf
    BY <1>2
  <2> QED BY <1>0, <1>5, <2>1, <2>2, OrderlyGrows
<1>10. Honest'
  <2>1. ASSUME NEW x, NEW i \in DOMAIN events', events'[i] = x, Own(x)
        PROVE  Agrees(x)'
    <3>1. CASE i \in DOMAIN events
      <4>1. events'[i] = events[i]
        BY <3>1, <1>5 DEF Grown
      <4> QED
        BY <2>1, <3>1, <4>1, <1>0, <1>2, <1>3 DEF Honest, Agrees
    <3>2. CASE i \notin DOMAIN events
      <4>1. events'[i] = Gone
        BY <3>2, <1>5 DEF Grown
      <4> QED
        BY <2>1, <4>1, <1>1, <1>3 DEF Agrees
    <3> QED BY <3>1, <3>2
  <2> QED BY <2>1 DEF Honest, Agrees, Own
<1>11. (Tracking' <=> Tracking) /\ (Listening' <=> Listening)
  BY <1>1, <1>2, <1>3, <1>4, <1>5
     DEF Tracking, OwnEventsHeard, Grown, Own, Listening, watcher
<1>s. \A status : Settled(status) => Settled(status)'
  BY <1>2, <1>3 DEF Settled
<1>12. Recorded'
  <2> SUFFICES ASSUME Listening', Tracking' PROVE Recorded'
    BY DEF Recorded
  <2>1. Listening /\ Tracking
    BY <1>11
  <2>2. \A i \in DOMAIN events' :
          events'[i] = Gone \/ (i \in DOMAIN events /\ events'[i] = events[i])
    BY <1>5 DEF Grown
  <2>3. \A i \in DOMAIN events' : OnPath(events'[i]) => Own(events'[i])
    BY <1>0, <1>1, <2>1, <2>2 DEF Recorded
  <2>4. pathOf[Mine] \notin removed
    BY <1>0, <1>4, <2>1 DEF Recorded
  <2>5. Settled(statuses[pathOf[Mine]])'
    BY <1>0, <1>2, <1>s, <2>1 DEF Recorded, watcher
  <2>6. UNCHANGED <<pathOf, completed, statuses, removed>>
    BY <1>2 DEF watcher
  <2> QED BY <1>0, <1>3, <2>1, <2>3, <2>4, <2>5, <2>6 DEF Recorded, Own, OnPath
<1>13. Coming'
  <2>1. Listening' => Queued(Gone)'
    BY <1>5, <1>11 DEF Listening
  <2>2. Queued(Said("complete")) => Queued(Said("complete"))'
    BY <1>5, StillQueued
  <2>3. Due => Due'
    BY <1>2, <1>3, <1>11, <2>1, <2>2 DEF Due, Said, Gone, Failures, watcher
  <2>4. \A i \in DOMAIN events' :
          events'[i] = Gone \/ (i \in DOMAIN events /\ events'[i] = events[i])
    BY <1>5 DEF Grown
  <2>5. LastHeard => LastHeard'
    BY <1>1, <1>2, <1>11, <2>4 DEF LastHeard, Own, watcher
  <2> QED
    BY <1>0, <1>2, <2>3, <2>5 DEF Coming, watcher
<1>14. Unshared' /\ Behind' /\ Undecided' /\ Settled(replyStatus)'
  BY <1>0, <1>2, <1>s, <1>11 DEF Unshared, Behind, Undecided, Distinguishable, watcher
<1>15. Truthful'
  BY <1>0, <1>2, <1>3 DEF Truthful, TruthfulSuccess, FailedForGood, Distinguishable, watcher
<1> QED
  BY <1>7, <1>8, <1>9, <1>10, <1>12, <1>13, <1>14, <1>15 DEF WInv

-----------------------------------------------------------------------------
(* Steps of the watcher.                                                    *)

\* What a callback leaves behind is judged by what it recorded.
LEMMA SettledWell ==
  ASSUME TypeOK', Truthful, Settle, UNCHANGED service,
         path' => wait' = "waiting",
         streamError => streamError',
         stream' = "open" => stream = "open",
         stream' # "open" => streamError',
         Lives', Recorded', outcome = "none" => Due', Unshared', Behind'
  PROVE  Undecided' /\ Truthful'
<1> DEFINE p == pathOf[Mine]
<1>0. UNCHANGED <<environment, pathOf, life, completed>>
  BY DEF service
<1>1. CASE outcome # "none"
  <2>1. outcome' = outcome
    BY <1>1 DEF Settle
  <2> QED
    BY <1>0, <1>1, <2>1
       DEF Undecided, Truthful, TruthfulSuccess, FailedForGood, Distinguishable
<1>2. CASE outcome = "none"
  <2>1. outcome' = Verdict(path', statuses'[p], p \in removed', streamError')
    BY <1>2 DEF Settle
  <2>2. Undecided'
    BY <2>1, <1>0 DEF Undecided
  <2>3. path' /\ stream' = "open" => Listening'
    BY DEF Listening
  <2>4. environment' \in [reuse : BOOLEAN, overtakes : BOOLEAN]
    BY TransfersAssumption DEF TypeOK
  <2>5. ASSUME Distinguishable', outcome' = "success",
               environment'.reuse => stream' = "open"
        PROVE  Mine \in completed'
    <3>1. path' /\ statuses'[p] = "complete"
      BY <2>1, <2>5 DEF Verdict
    <3>2. CASE environment'.reuse
      <4>1. Listening' /\ Tracking'
        BY <2>3, <2>5, <3>1, <3>2 DEF Behind
      <4> QED BY <3>1, <4>1, <1>0 DEF Recorded, Settled
    <3>3. CASE ~environment'.reuse
      BY <3>1, <3>3, <1>0 DEF Unshared, Settled
    <3> QED BY <3>2, <3>3
  <2>6. ASSUME Distinguishable', outcome' \in {"transferFailed", "removed"}, ~streamError'
        PROVE  Mine \notin completed' /\ life'[Mine] \in Failures \cup {"removed"}
    <3>1. path' /\ stream' = "open"
      BY <2>1, <2>6 DEF Verdict
    <3>2. statuses'[p] \in Failures \/ (statuses'[p] # "complete" /\ p \in removed')
      BY <2>1, <2>6 DEF Verdict, Running, NoStatus
    <3>3. Listening'
      BY <2>3, <3>1
    <3>4. CASE statuses'[p] \in Failures
      <4>1. CASE environment'.reuse
        BY <2>6, <3>1, <3>3, <3>4, <4>1, <1>0 DEF Behind, Recorded, Settled
      <4>2. CASE ~environment'.reuse
        BY <3>4, <4>2, <1>0 DEF Unshared, Settled
      <4> QED BY <4>1, <4>2
    <3>5. CASE statuses'[p] # "complete" /\ p \in removed'
      <4>1. Tracking'
        <5>1. CASE environment'.reuse
          BY <2>6, <3>1, <5>1 DEF Behind
        <5>2. CASE ~environment'.reuse
          BY <3>5, <5>2, <1>0 DEF Unshared
        <5> QED BY <5>1, <5>2
      <4>2. life'[Mine] = "removed" /\ \A i \in DOMAIN events' : events'[i].transfer # Mine
        BY <3>3, <3>5, <4>1, <1>0 DEF Recorded, Own
      <4>3. ~Queued(Said("complete"))'
        BY <4>2 DEF Queued, Said
      <4> QED BY <1>2, <3>3, <3>5, <4>2, <4>3, <1>0 DEF Due
    <3> QED BY <3>2, <3>4, <3>5
  <2> QED
    BY <2>2, <2>5, <2>6 DEF Truthful, TruthfulSuccess, FailedForGood
<1> QED
  BY <1>1, <1>2

\* One event is heard.
LEMMA Heard ==
  ASSUME WInv, TypeOK', Hear
  PROVE  WInv'
<1> USE TransfersAssumption
<1>0. /\ TypeOK /\ Phases /\ Lives /\ Orderly /\ Honest /\ Settled(replyStatus)
      /\ Recorded /\ Coming /\ Unshared /\ Behind /\ Undecided /\ Truthful
  BY DEF WInv
<1> DEFINE e == Head(events)
           p == pathOf[Mine]
<1>1. /\ Listening /\ events # <<>> /\ events' = Tail(events) /\ Record(e) /\ Settle
      /\ UNCHANGED <<path, streamError, wait, service, reply, replyStatus, stream>>
      /\ UNCHANGED <<environment, pathOf, life, completed>>
  BY DEF Hear, service
<1>2. /\ 1 \in DOMAIN events /\ events[1] = e /\ e \in Event
      /\ \A i \in DOMAIN events' : /\ i + 1 \in DOMAIN events /\ 1 < i + 1
                                   /\ events'[i] = events[i + 1] /\ i \in Nat
      /\ \A i \in DOMAIN events : i = 1 \/ \E j \in DOMAIN events' : events'[j] = events[i]
  <2>1. events \in Seq(Event)
    BY <1>0 DEF TypeOK
  <2> QED BY <1>1, <2>1, FirstTaken
<1>3. /\ ~OnPath(e) => statuses'[p] = statuses[p] /\ (p \in removed' <=> p \in removed)
      /\ OnPath(e) /\ e.kind = "status" =>
           statuses'[p] = e.status /\ (p \in removed' <=> p \in removed)
      /\ OnPath(e) /\ e.kind = "added" => statuses'[p] = NoStatus /\ p \notin removed'
      /\ OnPath(e) /\ e.kind = "removed" => statuses'[p] = statuses[p] /\ p \in removed'
      /\ e.kind \in {"status", "added", "removed"}
      /\ Own(e) => OnPath(e)
  <2>1. e.kind \in {"status", "added", "removed"} /\ e.transfer \in Transfers
    BY <1>2 DEF Event
  <2>2. statuses \in [Paths -> Status \cup {NoStatus}] /\ p \in Paths
        /\ pathOf[e.transfer] \in Paths
    BY <1>0, <2>1 DEF TypeOK
  <2>3. Own(e) => OnPath(e)
    BY DEF Own, OnPath
  <2> HIDE DEF e
  <2>4. CASE e.kind = "status"
    BY <1>1, <2>2, <2>3, <2>4 DEF Record, OnPath
  <2>5. CASE e.kind = "added"
    BY <1>1, <2>2, <2>3, <2>5 DEF Record, OnPath
  <2>6. CASE e.kind = "removed"
    BY <1>1, <2>2, <2>3, <2>6 DEF Record, OnPath
  <2> QED BY <2>1, <2>4, <2>5, <2>6
<1> HIDE DEF e
<1>4. Phases' /\ Lives'
  BY <1>0, <1>1 DEF Phases, Lives, Listening
<1>5. \A i \in DOMAIN events' : MayFollow(e, events'[i])
  BY <1>0, <1>2 DEF Orderly
<1>6. Orderly'
  <2>1. SUFFICES ASSUME NEW i \in DOMAIN events', NEW j \in DOMAIN events', i < j
                 PROVE  MayFollow(events'[i], events'[j])
    BY <1>1 DEF Orderly, MayFollow, Own, OnPath
  <2>2. i + 1 < j + 1
    BY <2>1, <1>2
  <2> QED BY <1>0, <1>2, <2>2 DEF Orderly
<1>7. Agrees(e) /\ Honest'
  BY <1>0, <1>1, <1>2 DEF Honest, Agrees, Own
<1>8. Listening'
  BY <1>1 DEF Listening
<1>9. Tracking => Tracking'
  BY <1>1, <1>2 DEF Tracking, OwnEventsHeard
<1>10. Own(e) => Tracking' /\ (e.kind # "added" => Tracking)
  <2>1. SUFFICES ASSUME Own(e) PROVE Tracking' /\ (e.kind # "added" => Tracking)
    OBVIOUS
  <2>2. life[Mine] # "none"
    BY <2>1, <1>7 DEF Agrees
  <2>3. \A i \in DOMAIN events' : Own(events'[i]) => events'[i].kind # "added"
    BY <2>1, <1>5 DEF MayFollow, Own, OnPath
  <2>4. \A i \in DOMAIN events : i = 1 \/ (Own(events[i]) => events[i].kind # "added")
    BY <1>2, <2>3
  <2> QED BY <1>1, <1>2, <2>2, <2>3, <2>4 DEF Tracking, OwnEventsHeard, Own
<1>11. Tracking' /\ ~Own(e) => Tracking
  BY <1>1, <1>2 DEF Tracking, OwnEventsHeard, Own
<1>12. Tracking /\ ~Own(e) => ~OnPath(e)
  BY <1>0, <1>1, <1>2 DEF Recorded
<1>s. \A status : Settled(status) <=> Settled(status)'
  BY <1>1 DEF Settled
<1>r. Own(e) /\ e.kind = "status" => Settled(e.status)
  BY <1>7 DEF Agrees, Settled, Running, Failures
<1>13. Recorded'
  <2> SUFFICES ASSUME Tracking' PROVE Recorded'
    BY DEF Recorded
  <2>1. CASE ~Own(e)
    <3>1. Tracking /\ ~OnPath(e)
      BY <1>11, <1>12, <2>1
    <3>2. \A i \in DOMAIN events' : OnPath(events'[i]) => Own(events'[i])
      BY <1>0, <1>1, <1>2, <3>1 DEF Recorded
    <3>3. \A i \in DOMAIN events' : Own(events'[i]) =>
            \E j \in DOMAIN events : Own(events[j]) /\ events[j] = events'[i]
      BY <1>2
    <3>4. Settled(statuses'[p])
      BY <1>0, <1>1, <1>3, <3>1 DEF Recorded
    <3>5. p \in removed' => /\ life[Mine] = "removed"
                            /\ \A i \in DOMAIN events' : ~Own(events'[i])
      BY <1>0, <1>1, <1>3, <3>1, <3>3 DEF Recorded
    <3> QED
      BY <1>1, <1>s, <3>2, <3>4, <3>5 DEF Recorded, Own, OnPath
  <2>2. CASE Own(e)
    <3>1. \A i \in DOMAIN events' : OnPath(events'[i]) => Own(events'[i])
      BY <1>5, <2>2 DEF MayFollow
    <3>2. CASE e.kind = "added"
      <4>1. statuses'[p] = NoStatus /\ p \notin removed'
        BY <1>3, <2>2, <3>2
      <4>2. Settled(NoStatus)
        BY DEF Settled, NoStatus, Failures
      <4> QED
        BY <1>1, <1>s, <3>1, <4>1, <4>2 DEF Recorded, Own, OnPath
    <3>3. CASE e.kind = "removed"
      <4>1. /\ Tracking /\ life[Mine] = "removed" /\ statuses'[p] = statuses[p]
            /\ \A i \in DOMAIN events' : ~Own(events'[i])
        BY <1>3, <1>5, <1>7, <1>10, <2>2, <3>3 DEF MayFollow, Agrees, Own, OnPath
      <4>2. Settled(statuses'[p])
        BY <1>0, <1>1, <4>1 DEF Recorded
      <4> QED
        BY <1>1, <1>s, <3>1, <4>1, <4>2 DEF Recorded, Own, OnPath
    <3>4. CASE e.kind = "status"
      <4>1. p \notin removed
        BY <1>0, <1>1, <1>2, <1>10, <2>2, <3>4 DEF Recorded
      <4>2. statuses'[p] = e.status /\ p \notin removed'
        BY <4>1, <1>3, <2>2, <3>4
      <4> QED
        BY <1>1, <1>r, <1>s, <2>2, <3>1, <3>4, <4>2 DEF Recorded, Own, OnPath
    <3> QED BY <1>3, <3>2, <3>3, <3>4
  <2> QED BY <2>1, <2>2
<1>14. \A x : Queued(x) => x = e \/ Queued(x)'
  BY <1>2 DEF Queued
<1>15. ASSUME LastHeard, NEW s \in Failures \cup {"complete"},
              (Tracking /\ statuses[p] = s) \/ Queued(Said(s))
       PROVE  (Tracking' /\ statuses'[p] = s) \/ Queued(Said(s))'
  <2>1. CASE Tracking /\ statuses[p] = s
    <3>1. Own(e) => e.kind = "removed"
      BY <1>1, <1>2, <1>15, <2>1 DEF LastHeard
    <3>2. statuses'[p] = statuses[p]
      BY <1>3, <1>12, <2>1, <3>1
    <3> QED BY <1>9, <2>1, <3>2
  <2>2. CASE Said(s) = e
    <3>1. Own(e) /\ e.kind = "status" /\ e.status = s
      BY <2>2 DEF Said, Own
    <3> QED BY <1>3, <1>10, <3>1
  <2>3. CASE Queued(Said(s))'
    BY <2>3
  <2> QED BY <1>14, <1>15, <2>1, <2>2, <2>3
<1>16. ASSUME (Tracking /\ p \in removed) \/ Queued(Gone)
       PROVE  (Tracking' /\ p \in removed') \/ Queued(Gone)'
  <2>1. CASE Tracking /\ p \in removed
    <3>1. ~Own(e)
      BY <1>0, <1>1, <1>2, <2>1 DEF Recorded
    <3> QED BY <1>3, <1>9, <1>12, <2>1, <3>1
  <2>2. CASE Gone = e
    <3>1. Own(e) /\ e.kind = "removed"
      BY <2>2 DEF Gone, Own
    <3> QED BY <1>3, <1>10, <3>1
  <2> QED BY <1>14, <1>16, <2>1, <2>2
<1>17. LastHeard /\ Due => LastHeard' /\ Due'
  <2> SUFFICES ASSUME LastHeard, Due PROVE LastHeard' /\ Due'
    OBVIOUS
  <2>1. Mine \in completed =>
          (Tracking' /\ statuses'[p] = "complete") \/ Queued(Said("complete"))'
    BY <1>1, <1>15 DEF Due
  <2>2. life[Mine] \in Failures =>
          (Tracking' /\ statuses'[p] = life[Mine]) \/ Queued(Said(life[Mine]))'
    BY <1>1, <1>15 DEF Due
  <2>3. life[Mine] = "removed" => (Tracking' /\ p \in removed') \/ Queued(Gone)'
    BY <1>1, <1>16 DEF Due
  <2>4. Due'
    BY <1>1, <2>1, <2>2, <2>3 DEF Due, Queued, Said
  <2>5. ASSUME Tracking', statuses'[p] \in Failures \cup {"complete"},
               NEW i \in DOMAIN events', Own(events'[i])
        PROVE  events'[i].kind = "removed"
    <3>1. CASE Own(e)
      <4>1. CASE e.kind = "status"
        <5>1. e.status \notin Running
          BY <1>3, <2>5, <3>1, <4>1 DEF Running, Failures
        <5> QED BY <1>5, <2>5, <3>1, <4>1, <5>1 DEF MayFollow, Own, OnPath
      <4>2. CASE e.kind # "status"
        <5>1. e.kind = "removed"
          BY <1>3, <2>5, <3>1, <4>2 DEF NoStatus, Failures
        <5> QED BY <1>5, <2>5, <3>1, <5>1 DEF MayFollow, Own, OnPath
      <4> QED BY <4>1, <4>2
    <3>2. CASE ~Own(e)
      <4>1. Tracking /\ statuses[p] = statuses'[p]
        BY <1>3, <1>11, <1>12, <2>5, <3>2
      <4> QED BY <1>1, <1>2, <2>5, <4>1 DEF LastHeard
    <3> QED BY <3>1, <3>2
  <2>6. LastHeard'
    BY <1>1, <2>5 DEF LastHeard, Own
  <2> QED BY <2>4, <2>6
<1>18. Unshared'
  <2> SUFFICES ASSUME ~environment.reuse PROVE Unshared'
    BY <1>1 DEF Unshared
  <2>1. OnPath(e) => Own(e)
    BY <1>0, <1>2 DEF Unshared, OnPath, Own, Event
  <2>2. Settled(NoStatus)
    BY DEF Settled, NoStatus, Failures
  <2>3. Settled(statuses'[p])
    BY <1>0, <1>3, <1>r, <2>1, <2>2 DEF Unshared
  <2>4. ~Tracking' => /\ ~Tracking
                      /\ statuses'[p] = statuses[p] /\ (p \in removed' <=> p \in removed)
    BY <1>3, <1>9, <1>10, <2>1
  <2> QED
    BY <1>0, <1>1, <1>s, <2>3, <2>4 DEF Unshared
<1>19. Behind'
  BY <1>0, <1>1, <1>9 DEF Behind, Distinguishable
<1>c. outcome = "none" => LastHeard' /\ Due'
  BY <1>0, <1>17 DEF Coming
<1>d. Coming'
  BY <1>1, <1>c DEF Coming, Settle
<1>20. Undecided' /\ Truthful'
  <2>1. UNCHANGED service
    BY <1>1
  <2>2. path' => wait' = "waiting"
    BY <1>0, <1>1 DEF Phases, Listening, TypeOK
  <2>3. stream = "open" /\ stream' = "open" /\ (streamError => streamError')
    BY <1>1 DEF Listening
  <2> QED
    BY <1>0, <1>1, <1>4, <1>13, <1>c, <1>18, <1>19, <2>1, <2>2, <2>3, SettledWell
<1>21. Settled(replyStatus)'
  BY <1>0, <1>1, <1>s
<1> QED
  BY <1>4, <1>6, <1>7, <1>13, <1>d, <1>18, <1>19, <1>20, <1>21 DEF WInv

\* The reply is in: the path is known, what was heard of it stands.
LEMMA Replied ==
  ASSUME WInv, TypeOK', ReceiveReply
  PROVE  WInv'
<1> USE TransfersAssumption
<1>0. /\ TypeOK /\ Phases /\ Lives /\ Orderly /\ Honest /\ Settled(replyStatus)
      /\ Recorded /\ Coming /\ Unshared /\ Behind /\ Undecided /\ Truthful
  BY DEF WInv
<1> DEFINE p == pathOf[Mine]
<1>1. /\ wait = "starting" /\ wait' = "waiting" /\ reply = "sent" /\ reply' = "delivered"
      /\ path' = TRUE /\ Settle
      /\ environment.overtakes \/ stream # "open" \/ OwnEventsHeard
      /\ statuses' = IF statuses[p] = NoStatus THEN [statuses EXCEPT ![p] = replyStatus]
                                               ELSE statuses
      /\ UNCHANGED <<service, events, replyStatus, stream, removed, streamError>>
      /\ UNCHANGED <<environment, pathOf, life, completed>>
  BY DEF ReceiveReply, service
<1>2. /\ statuses'[p] = statuses[p] \/ statuses'[p] = replyStatus
      /\ statuses[p] \in Failures \cup {"complete"} => statuses'[p] = statuses[p]
  BY <1>0, <1>1 DEF TypeOK, NoStatus, Failures
<1>s. \A status : Settled(status) <=> Settled(status)'
  BY <1>1 DEF Settled
<1>3. (Tracking' <=> Tracking) /\ (Listening' <=> Listening)
  BY <1>1 DEF Tracking, OwnEventsHeard, Listening
<1>4. life[Mine] # "none"
  BY <1>0, <1>1 DEF Phases
<1>5. Phases' /\ Lives'
  BY <1>0, <1>1, <1>4 DEF Phases, Lives
<1>6. Orderly' /\ Honest'
  BY <1>0, <1>1 DEF Orderly, Honest, MayFollow, Agrees, Own, OnPath
<1>7. Recorded'
  <2>1. Listening /\ Tracking => Settled(statuses'[p])
    BY <1>0, <1>2 DEF Recorded
  <2> QED BY <1>0, <1>1, <1>3, <1>s, <2>1 DEF Recorded, Own, OnPath
<1>8. Due => Due'
  BY <1>1, <1>2, <1>3 DEF Due, Queued, Said
<1>c. Coming'
  <2> SUFFICES ASSUME outcome' = "none" PROVE LastHeard' /\ Due'
    BY DEF Coming
  <2>1. outcome = "none"
        /\ Verdict(TRUE, statuses'[p], p \in removed', streamError') = "none"
    BY <1>1 DEF Settle
  <2>2. statuses'[p] \notin Failures \cup {"complete"}
    BY <2>1 DEF Verdict, Failures
  <2> QED BY <1>0, <1>1, <1>8, <2>1, <2>2 DEF Coming, LastHeard
<1>9. Unshared'
  <2>1. ~environment.reuse => Settled(statuses'[p])
    BY <1>0, <1>2 DEF Unshared
  <2> QED BY <1>0, <1>1, <1>3, <1>s, <2>1 DEF Unshared
<1>10. Behind'
  BY <1>1, <1>3, <1>4 DEF Behind, Distinguishable, Tracking
<1>11. Undecided' /\ Truthful'
  <2>1. stream' = "open" => stream = "open"
    BY <1>1
  <2>2. stream' # "open" => streamError'
    BY <1>0, <1>1 DEF Phases
  <2>3. outcome = "none" => Due'
    BY <1>0, <1>8 DEF Coming
  <2> QED
    BY <1>0, <1>1, <1>5, <1>7, <1>9, <1>10, <2>1, <2>2, <2>3, SettledWell
<1>12. Settled(replyStatus)'
  BY <1>0, <1>1, <1>s
<1> QED
  BY <1>5, <1>6, <1>7, <1>9, <1>10, <1>11, <1>12, <1>c DEF WInv

\* The service replies: what it says of the transfer is so.
LEMMA ReplyMade ==
  ASSUME WInv, TypeOK', Reply
  PROVE  WInv'
<1> USE TransfersAssumption
<1>0. /\ TypeOK /\ Phases /\ Lives /\ Orderly /\ Honest /\ Settled(replyStatus)
      /\ Recorded /\ Coming /\ Unshared /\ Behind /\ Undecided /\ Truthful
  BY DEF WInv
<1>1. /\ reply = "asked" /\ reply' = "sent" /\ life[Mine] # "none"
      /\ replyStatus' = NoStatus \/ replyStatus' = life[Mine]
      /\ UNCHANGED <<environment, pathOf, life, completed, events, stream, path,
                     statuses, removed, streamError, wait, outcome>>
  BY DEF Reply, service, watcher
<1>2. Phases'
  BY <1>0, <1>1 DEF Phases
<1>3. \A status : Settled(status) <=> Settled(status)'
  BY <1>1 DEF Settled
<1>4. Settled(NoStatus) /\ Settled(life[Mine])
  BY <1>0 DEF Settled, Lives, NoStatus, Failures
<1>5. Settled(replyStatus)'
  BY <1>1, <1>3, <1>4
<1>6. Lives' /\ Orderly' /\ Honest'
  BY <1>0, <1>1 DEF Lives, Orderly, Honest, MayFollow, Agrees, Own, OnPath
<1>7. (Tracking' <=> Tracking) /\ (Listening' <=> Listening)
  BY <1>1 DEF Tracking, OwnEventsHeard, Listening
<1>8. Recorded' /\ Unshared'
  BY <1>0, <1>1, <1>3, <1>7 DEF Recorded, Unshared, Own, OnPath
<1>9. Coming'
  BY <1>0, <1>1, <1>7 DEF Coming, LastHeard, Due, Queued, Said, Own
<1>10. Behind' /\ Undecided' /\ Truthful'
  BY <1>0, <1>1, <1>7
     DEF Behind, Undecided, Truthful, TruthfulSuccess, FailedForGood, Distinguishable
<1> QED
  BY <1>2, <1>5, <1>6, <1>8, <1>9, <1>10 DEF WInv

\* The stream reports an error, ends, or is given up.
LEMMA Broken ==
  ASSUME WInv, TypeOK', StreamError \/ StreamDone \/ Abort
  PROVE  WInv'
<1> USE TransfersAssumption
<1>0. /\ TypeOK /\ Phases /\ Lives /\ Orderly /\ Honest /\ Settled(replyStatus)
      /\ Recorded /\ Coming /\ Unshared /\ Behind /\ Undecided /\ Truthful
  BY DEF WInv
<1>1. /\ Listening /\ streamError' = TRUE /\ Settle
      /\ UNCHANGED <<service, path, statuses, removed, wait, reply, replyStatus>>
      /\ UNCHANGED <<environment, pathOf, life, completed>>
      /\ \/ stream' = "open" /\ events' = events
         \/ stream' # "open" /\ events' = <<>>
  BY DEF StreamError, StreamDone, Abort, Listening, service
<1>2. stream = "open" /\ wait \in {"starting", "waiting"}
  BY <1>1 DEF Listening
<1>3. DOMAIN events' = {} \/ events' = events
  BY <1>1
<1>4. Tracking => Tracking'
  BY <1>1, <1>3 DEF Tracking, OwnEventsHeard
<1>5. Phases' /\ Lives'
  BY <1>0, <1>1, <1>2 DEF Phases, Lives
<1>6. Orderly' /\ Honest'
  BY <1>0, <1>1, <1>3 DEF Orderly, Honest, MayFollow, Agrees, Own, OnPath
<1>7. Listening' => UNCHANGED <<events, stream>>
  BY <1>1, <1>2 DEF Listening
<1>s. \A status : Settled(status) <=> Settled(status)'
  BY <1>1 DEF Settled
<1>8. Recorded' /\ (LastHeard => LastHeard') /\ (Due => Due')
  BY <1>0, <1>1, <1>7, <1>s
     DEF Recorded, LastHeard, Due, Tracking, OwnEventsHeard, Queued, Own, OnPath, Said, Listening
<1>c. outcome = "none" => LastHeard' /\ Due'
  BY <1>0, <1>8 DEF Coming
<1>d. Coming'
  BY <1>1, <1>c DEF Coming, Settle
<1>9. Unshared' /\ Settled(replyStatus)'
  BY <1>0, <1>1, <1>4, <1>s DEF Unshared
<1>10. Behind'
  BY <1>0, <1>1, <1>2, <1>4 DEF Behind, Distinguishable
<1>11. Undecided' /\ Truthful'
  <2>1. path' => wait' = "waiting"
    BY <1>0, <1>1, <1>2 DEF Phases
  <2>2. streamError'
    BY <1>1
  <2> QED
    BY <1>0, <1>1, <1>2, <1>5, <1>8, <1>c, <1>9, <1>10, <2>1, <2>2, SettledWell
<1> QED
  BY <1>5, <1>6, <1>8, <1>d, <1>9, <1>10, <1>11 DEF WInv

\* Nothing is recorded any more, or nothing yet.
LEMMA NotListening ==
  ASSUME WInv, TypeOK',
         RefuseStart \/ Start \/ Unheard \/ ReceiveRefusal \/ Return \/ Timeout
  PROVE  WInv'
<1> USE TransfersAssumption
<1>0. /\ TypeOK /\ Phases /\ Lives /\ Orderly /\ Honest /\ Settled(replyStatus)
      /\ Recorded /\ Coming /\ Unshared /\ Behind /\ Undecided /\ Truthful
  BY DEF WInv
<1>1. /\ UNCHANGED <<environment, pathOf, life, completed, stream, statuses, removed,
                     path, streamError, replyStatus>>
      /\ outcome' \in {outcome, "startFailed", "timeout"}
  BY DEF RefuseStart, Start, Unheard, ReceiveRefusal, Return, Timeout, service, watcher
<1>2. Phases'
  <2>1. CASE RefuseStart
    BY <2>1, <1>0 DEF Phases, RefuseStart, service, watcher
  <2>2. CASE Start
    BY <2>2, <1>0 DEF Phases, Start, service
  <2>3. CASE Unheard
    <3>1. stream = "open"
      BY <2>3, <1>0 DEF Phases, Unheard
    <3> QED BY <2>3, <3>1, <1>0 DEF Phases, Unheard, service, watcher
  <2>4. CASE ReceiveRefusal \/ Return \/ Timeout
    BY <2>4, <1>0 DEF Phases, ReceiveRefusal, Return, Timeout, service
  <2> QED BY <2>1, <2>2, <2>3, <2>4
<1>3. Lives'
  BY <1>0, <1>1 DEF Lives
<1>4. /\ \A i \in DOMAIN events' :
           \/ i \in DOMAIN events /\ events'[i] = events[i]
           \/ i + 1 \in DOMAIN events /\ events'[i] = events[i + 1]
      /\ ~Unheard => events' = events
  <2>1. CASE Unheard
    <3>1. events \in Seq(Event) /\ events # <<>> /\ events' = Tail(events)
      BY <2>1, <1>0 DEF Unheard, TypeOK
    <3> QED BY <2>1, <3>1, FirstTaken
  <2>2. CASE ~Unheard
    BY <2>2 DEF RefuseStart, Start, ReceiveRefusal, Return, Timeout
  <2> QED BY <2>1, <2>2
<1>5. Orderly'
  <2>1. CASE Unheard
    <3>1. events \in Seq(Event) /\ events # <<>> /\ events' = Tail(events)
      BY <2>1, <1>0 DEF Unheard, TypeOK
    <3>2. \A i \in DOMAIN events' : /\ i + 1 \in DOMAIN events /\ i \in Nat
                                    /\ events'[i] = events[i + 1]
      BY <3>1, FirstTaken
    <3>3. \A i, j \in DOMAIN events' : i < j => i + 1 < j + 1
      BY <3>2
    <3> QED BY <1>0, <1>1, <3>2, <3>3 DEF Orderly, MayFollow, Own, OnPath
  <2>2. CASE ~Unheard
    BY <2>2, <1>0, <1>1, <1>4 DEF Orderly, MayFollow, Own, OnPath
  <2> QED BY <2>1, <2>2
<1>6. Honest'
  BY <1>0, <1>1, <1>4 DEF Honest, Agrees, Own
<1>7. wait = "idle" => life[Mine] = "none"
  BY <1>0 DEF Phases
<1>8. Tracking' <=> Tracking
  <2>1. CASE Unheard
    BY <2>1, <1>1, <1>7 DEF Unheard, Tracking
  <2>2. CASE ~Unheard
    BY <2>2, <1>1, <1>4 DEF Tracking, OwnEventsHeard
  <2> QED BY <2>1, <2>2
<1>s. \A status : Settled(status) <=> Settled(status)'
  BY <1>1 DEF Settled
<1>9. Recorded' /\ Coming'
  <2>1. CASE life[Mine] = "none"
    BY <2>1, <1>0, <1>1 DEF Recorded, Coming, LastHeard, Due, Tracking, Lives, Failures
  <2>2. CASE life[Mine] # "none"
    <3>1. ~Unheard /\ ~Start
      BY <2>2, <1>7 DEF Unheard, Start
    <3>2. Listening' => Listening
      BY <3>1 DEF RefuseStart, ReceiveRefusal, Return, Timeout, Listening, service, watcher
    <3>3. events' = events
      BY <3>1, <1>4
    <3>4. Recorded'
      BY <1>0, <1>1, <1>8, <1>s, <3>2, <3>3 DEF Recorded, Own, OnPath
    <3>5. (LastHeard => LastHeard') /\ (Due => Due')
      BY <1>1, <1>8, <3>2, <3>3 DEF LastHeard, Due, Queued, Own, Said
    <3>6. outcome' = "none" => outcome = "none"
      BY <1>1
    <3> QED BY <1>0, <3>4, <3>5, <3>6 DEF Coming
  <2> QED BY <2>1, <2>2
<1>10. Unshared' /\ Behind' /\ Settled(replyStatus)'
  BY <1>0, <1>1, <1>8, <1>s DEF Unshared, Behind, Distinguishable
<1>11. Undecided'
  BY <1>0, <1>1 DEF Undecided, RefuseStart, Start, Unheard, ReceiveRefusal, Return, Timeout,
                    watcher
<1>12. Truthful'
  BY <1>0, <1>1 DEF Truthful, TruthfulSuccess, FailedForGood, Distinguishable
<1> QED
  BY <1>2, <1>3, <1>5, <1>6, <1>9, <1>10, <1>11, <1>12 DEF WInv

-----------------------------------------------------------------------------
(* The theorems.                                                            *)

LEMMA WInvStep == WInv /\ [Next]_vars => WInv'
<1> SUFFICES ASSUME WInv, [Next]_vars PROVE WInv'
  OBVIOUS
<1> USE TransfersAssumption
<1>1. TypeOK'
  BY TypeStep DEF WInv
<1>2. ASSUME NEW t \in Transfers, NEW s \in {"complete", "error", "active"},
             CreateTransfer(t) \/ RemoveTransfer(t) \/ ChangeStatus(t, s)
      PROVE  WInv'
  <2>1. s \in Status
    BY DEF Status, Running, Failures
  <2>2. CASE t = Mine
    BY <1>1, <1>2, <2>2, MineCreated, MineRemoved, MineChanged
  <2>3. CASE t # Mine
    BY <1>1, <1>2, <2>1, <2>3, OthersServed
  <2> QED BY <2>2, <2>3
<1>3. CASE Hear
  BY <1>1, <1>3, Heard
<1>4. CASE ReceiveReply
  BY <1>1, <1>4, Replied
<1>5. CASE StreamError \/ StreamDone \/ Abort
  BY <1>1, <1>5, Broken
<1>6. CASE RefuseStart \/ Start \/ Unheard \/ ReceiveRefusal \/ Return \/ Timeout
  BY <1>1, <1>6, NotListening
<1>7. CASE Reply
  BY <1>1, <1>7, ReplyMade
<1>8. CASE UNCHANGED vars
  <2>1. WInv
    OBVIOUS
  <2> QED
    BY <1>8, <2>1
       DEF vars, service, watcher, WInv, TypeOK, Phases, Lives, Orderly, Honest, Recorded,
           Coming, LastHeard, Due, Settled, Unshared, Behind, Undecided, Truthful, TruthfulSuccess, FailedForGood,
           MayFollow, Agrees, Own, OnPath, Tracking, OwnEventsHeard, Listening, Queued,
           Said, Distinguishable
<1> QED
  <2>1. ASSUME NEW t \in Transfers, CreateTransfer(t) \/ RemoveTransfer(t)
        PROVE  WInv'
    BY <1>2, <2>1
  <2>2. ASSUME NEW t \in Transfers, NEW s \in {"complete", "error"}, ChangeStatus(t, s)
        PROVE  WInv'
    BY <1>2, <2>2
  <2>3. CASE ChangeStatus(Mine, "active")
    BY <1>2, <2>3
  <2> QED
    BY <1>3, <1>4, <1>5, <1>6, <1>7, <1>8, <2>1, <2>2, <2>3 DEF Next, Service, Answer

LEMMA WInvHolds == Spec => []WInv
  BY WInvInit, WInvStep, PTL DEF Spec

\* Every variable keeps its type (lib/src/internal/transfer_completion.dart).
THEOREM TypeCorrect == Spec => []TypeOK
<1>1. WInv => TypeOK
  BY DEF WInv
<1> QED
  BY <1>1, WInvHolds, PTL

\* wait returns normally only for a transfer that did complete, for every
\* number of transfers and paths and every order of events and reply, unless
\* paths are reused and the reply overtakes the events: then it is refuted by
\* a run (_settle, transfer_completion.dart).
THEOREM TruthfulSuccessHolds == Spec => [](Distinguishable => TruthfulSuccess)
<1>1. WInv => (Distinguishable => TruthfulSuccess)
  BY DEF WInv, Truthful
<1> QED
  BY <1>1, WInvHolds, PTL

\* wait blames the transfer or its removal only if it did not complete, under
\* the same condition (_settle, transfer_completion.dart).
THEOREM TruthfulFailureHolds == Spec => [](Distinguishable => TruthfulFailure)
<1>1. WInv => (Distinguishable => TruthfulFailure)
  BY DEF WInv, Truthful, FailedForGood, TruthfulFailure
<1> QED
  BY <1>1, WInvHolds, PTL

\* A transfer that ended before the reply is not missed, whatever the reply
\* and the paths do: when everything was heard, there is an outcome (wait and
\* _settle, transfer_completion.dart).
THEOREM NothingMissedHolds == Spec => []NothingMissed
<1>1. WInv => NothingMissed
  <2> SUFFICES ASSUME WInv, life[Mine] \in {"complete", "error", "removed"},
                      reply = "delivered", events = <<>>, outcome = "none"
               PROVE  FALSE
    BY DEF NothingMissed
  <2> DEFINE p == pathOf[Mine]
  <2>0. TypeOK /\ Phases /\ Lives /\ Recorded /\ Coming /\ Undecided
    BY DEF WInv
  <2>1. path /\ wait = "waiting"
    BY <2>0 DEF Phases, TypeOK
  <2>2. Verdict(path, statuses[p], p \in removed, streamError) = "none"
    BY <2>0, <2>1 DEF Undecided
  <2>3. statuses[p] \in Running \cup {NoStatus}
        /\ p \notin removed /\ ~streamError
    <3>1. statuses[p] \in Status \cup {NoStatus}
      BY <2>0, TransfersAssumption DEF TypeOK
    <3> QED BY <2>1, <2>2, <3>1 DEF Verdict, Status, Running, Failures, NoStatus
  <2>4. Listening
    BY <2>0, <2>1, <2>3 DEF Phases, Listening
  <2>5. \A e : ~Queued(e)
    BY DEF Queued
  <2> QED
    BY <2>0, <2>3, <2>4, <2>5 DEF Coming, Due, Lives, Running, NoStatus, Failures
<1> QED
  BY <1>1, WInvHolds, PTL

=============================================================================

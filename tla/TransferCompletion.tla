------------------------- MODULE TransferCompletion -------------------------
(***************************************************************************)
(* Waiting for one OBEX transfer (lib/src/internal/                        *)
(* transfer_completion.dart).  waitForTransfer subscribes to the client's  *)
(* events, then starts the transfer; the reply names the transfer's path;  *)
(* statuses and removals heard before it are kept per path.                *)
(*                                                                         *)
(* The service runs the watched transfer Mine and others.  What it does to *)
(* transfers reaches the watcher as a first-in-first-out stream of events. *)
(* The reply to the start call travels on its own: an event stream fed     *)
(* while the call is served is read after the reply (the native worker,    *)
(* which is busy with the call) or before it (the simulated backend).      *)
(* environment says which of the two it is and whether Mine gets the path  *)
(* of an earlier transfer.  That a later transfer gets Mine's path while   *)
(* the watcher still waits is left out: no event could tell them apart.    *)
(***************************************************************************)
EXTENDS Naturals, Sequences

CONSTANTS
  Transfers,      \* transfers the service runs
  Mine,           \* the one this watcher starts
  Paths,          \* object paths
  Environments    \* [reuse, overtakes : BOOLEAN] records to consider

ASSUME TransfersAssumption ==
  /\ Mine \in Transfers
  /\ Environments \subseteq [reuse : BOOLEAN, overtakes : BOOLEAN]

NoStatus == "absent"
Running == {"queued", "active"}
Failures == {"error", "failed", "cancelled"}
Status == Running \cup Failures \cup {"complete"}

VARIABLES
  environment,   \* how replies and paths behave
  pathOf,        \* the path the service gives each transfer
  life,          \* "none", a status, or "removed" once its object is gone
  completed,     \* transfers that reached "complete"
  events,        \* events posted and not yet heard
  reply,         \* "none", "asked", "sent", "failed" or "delivered"
  replyStatus,   \* Status among the properties of the reply
  stream,        \* "open", "done" or "closed" (by this watcher)
  path,          \* _path is set
  statuses,      \* _statuses
  removed,       \* _removed
  streamError,   \* _streamError # null
  wait,          \* "idle", "starting", "waiting", "returned"
  outcome        \* "none", "success", "transferFailed", "removed",
                 \* "streamFailed", "timeout", "startFailed"

service == <<environment, pathOf, life, completed>>
watcher == <<path, statuses, removed, streamError, wait, outcome>>
vars == <<service, events, reply, replyStatus, stream, watcher>>

Event == [kind : {"added", "removed"}, transfer : Transfers]
           \cup [kind : {"status"}, transfer : Transfers, status : Status]

TypeOK ==
  /\ environment \in Environments
  /\ pathOf \in [Transfers -> Paths]
  /\ life \in [Transfers -> Status \cup {"none", "removed"}]
  /\ completed \subseteq Transfers
  /\ events \in Seq(Event)
  /\ reply \in {"none", "asked", "sent", "failed", "delivered"}
  /\ replyStatus \in Status \cup {NoStatus}
  /\ stream \in {"open", "done", "closed"}
  /\ path \in BOOLEAN
  /\ statuses \in [Paths -> Status \cup {NoStatus}]
  /\ removed \subseteq Paths
  /\ streamError \in BOOLEAN
  /\ wait \in {"idle", "starting", "waiting", "returned"}
  /\ outcome \in {"none", "success", "transferFailed", "removed", "streamFailed",
                  "timeout", "startFailed"}

\* Other transfers may be anywhere in their life when the watcher appears.
Init ==
  /\ environment \in Environments
  /\ pathOf \in [Transfers -> Paths]
  /\ environment.reuse = \E t, u \in Transfers : t # u /\ pathOf[t] = pathOf[u]
  /\ life = [t \in Transfers |-> "none"]
  /\ completed = {}
  /\ events = <<>>
  /\ reply = "none"
  /\ replyStatus = NoStatus
  /\ stream = "open"
  /\ path = FALSE
  /\ statuses = [p \in Paths |-> NoStatus]
  /\ removed = {}
  /\ streamError = FALSE
  /\ wait = "idle"
  /\ outcome = "none"

-----------------------------------------------------------------------------
(* The service and the way to the watcher (external).                       *)

Publish(news) == events' = IF stream = "open" THEN events \o news ELSE events

\* The object manager posts the object, then its properties.
CreateTransfer(t) ==
  /\ life[t] = "none"
  /\ \A u \in Transfers : pathOf[u] = pathOf[t] => life[u] \in {"none", "removed"}
  /\ IF t = Mine THEN reply = "asked"
                 ELSE pathOf[t] = pathOf[Mine] => life[Mine] = "none"
  /\ life' = [life EXCEPT ![t] = "queued"]
  /\ Publish(<<[kind |-> "added", transfer |-> t],
               [kind |-> "status", transfer |-> t, status |-> "queued"]>>)
  /\ UNCHANGED <<environment, pathOf, completed, reply, replyStatus, stream, watcher>>

ChangeStatus(t, status) ==
  /\ life[t] \in Running
  /\ status # life[t] /\ status # "queued"
  /\ life' = [life EXCEPT ![t] = status]
  /\ completed' = IF status = "complete" THEN completed \cup {t} ELSE completed
  /\ Publish(<<[kind |-> "status", transfer |-> t, status |-> status]>>)
  /\ UNCHANGED <<environment, pathOf, reply, replyStatus, stream, watcher>>

\* Objects go away after they end, or with their session before that.
RemoveTransfer(t) ==
  /\ life[t] \in Status
  /\ life' = [life EXCEPT ![t] = "removed"]
  /\ Publish(<<[kind |-> "removed", transfer |-> t]>>)
  /\ UNCHANGED <<environment, pathOf, completed, reply, replyStatus, stream, watcher>>

\* The reply names the transfer, and its status or not; the transfer may have
\* gone on meanwhile, and ended.
Reply ==
  /\ reply = "asked"
  /\ life[Mine] # "none"
  /\ reply' = "sent"
  /\ replyStatus' \in {NoStatus} \cup ({life[Mine]} \cap Status)
  /\ UNCHANGED <<service, events, stream, watcher>>

\* An error, the caller's own timeout among them: the transfer may run.
RefuseStart ==
  /\ reply = "asked"
  /\ reply' = "failed"
  /\ UNCHANGED <<service, events, replyStatus, stream, watcher>>

-----------------------------------------------------------------------------
(* The watcher.                                                             *)

\* Mutated form: an object that is gone has done its work.
Verdict_GoneIsDone(known, heard, gone, broken) ==
  CASE known /\ (heard = "complete" \/ gone) -> "success"
    [] known /\ ~gone /\ heard \in Failures -> "transferFailed"
    [] known /\ ~gone /\ heard \in Running \cup {NoStatus} /\ broken -> "streamFailed"
    [] OTHER -> "none"

\* Mutated form: removal is looked at before the status.
Verdict_GoneFirst(known, heard, gone, broken) ==
  CASE known /\ gone -> "removed"
    [] known /\ ~gone /\ heard = "complete" -> "success"
    [] known /\ ~gone /\ heard \in Failures -> "transferFailed"
    [] known /\ ~gone /\ heard \in Running \cup {NoStatus} /\ broken -> "streamFailed"
    [] OTHER -> "none"

\* What _settle completes _done with; "none" leaves it pending.
Verdict(known, heard, gone, broken) ==
  CASE known /\ heard = "complete" -> "success"
    [] known /\ heard \in Failures -> "transferFailed"
    [] known /\ heard \in Running \cup {NoStatus} /\ gone -> "removed"
    [] known /\ heard \in Running \cup {NoStatus} /\ ~gone /\ broken -> "streamFailed"
    [] OTHER -> "none"

\* _settle at the end of every callback: the first verdict is kept.
Settle ==
  outcome' = IF outcome # "none" THEN outcome
             ELSE Verdict(path', statuses'[pathOf[Mine]],
                          pathOf[Mine] \in removed', streamError')

\* The subscription is made by the constructor, the call follows.
Start ==
  /\ wait = "idle"
  /\ reply' = "asked"
  /\ wait' = "starting"
  /\ UNCHANGED <<service, events, replyStatus, stream, path, statuses, removed,
                 streamError, outcome>>

\* Heard until the subscription is cancelled, after wait has returned.
Listening == wait \in {"starting", "waiting"} /\ stream = "open"

\* _statuses, then _removed, as one event leaves them.
Record(event) ==
  LET p == pathOf[event.transfer] IN
    CASE event.kind = "status" ->
           /\ statuses' = [statuses EXCEPT ![p] = event.status]
           /\ UNCHANGED removed
      [] event.kind = "added" ->
           /\ statuses' = [statuses EXCEPT ![p] = NoStatus]
           /\ removed' = removed \ {p}
      [] event.kind = "removed" ->
           /\ removed' = removed \cup {p}
           /\ UNCHANGED statuses

Hear ==
  /\ Listening
  /\ events # <<>>
  /\ events' = Tail(events)
  /\ Record(Head(events))
  /\ UNCHANGED <<path, streamError, wait>>
  /\ Settle
  /\ UNCHANGED <<service, reply, replyStatus, stream>>

\* An event nobody listens to, before the subscription.
Unheard ==
  /\ wait = "idle"
  /\ events # <<>>
  /\ events' = Tail(events)
  /\ UNCHANGED <<service, reply, replyStatus, stream, watcher>>

OwnEventsHeard == \A i \in DOMAIN events :
                     events[i].transfer # Mine \/ events[i].kind # "added"

\* Mutated form: wait does not call _settle after it learns the path.
ReceiveReply_NoSettle ==
  /\ wait = "starting"
  /\ reply = "sent"
  /\ environment.overtakes \/ stream # "open" \/ OwnEventsHeard
  /\ reply' = "delivered"
  /\ path' = TRUE
  /\ statuses' = IF statuses[pathOf[Mine]] = NoStatus
                 THEN [statuses EXCEPT ![pathOf[Mine]] = replyStatus]
                 ELSE statuses
  /\ wait' = "waiting"
  /\ UNCHANGED <<service, events, replyStatus, stream, removed, streamError, outcome>>

\* start() returns: path, then the reply's status unless one was heard.
ReceiveReply ==
  /\ wait = "starting"
  /\ reply = "sent"
  /\ environment.overtakes \/ stream # "open" \/ OwnEventsHeard
  /\ reply' = "delivered"
  /\ path' = TRUE
  /\ statuses' = IF statuses[pathOf[Mine]] = NoStatus
                 THEN [statuses EXCEPT ![pathOf[Mine]] = replyStatus]
                 ELSE statuses
  /\ wait' = "waiting"
  /\ UNCHANGED <<removed, streamError>>
  /\ Settle
  /\ UNCHANGED <<service, events, replyStatus, stream>>

\* start() throws: wait rethrows and waitForTransfer cancels.
ReceiveRefusal ==
  /\ wait = "starting"
  /\ reply = "failed"
  /\ wait' = "returned"
  /\ outcome' = "startFailed"
  /\ UNCHANGED <<service, events, reply, replyStatus, stream, path, statuses,
                 removed, streamError>>

\* onError: an event that could not be decoded; the stream goes on.
StreamError ==
  /\ Listening
  /\ streamError' = TRUE
  /\ UNCHANGED <<path, statuses, removed, wait>>
  /\ Settle
  /\ UNCHANGED <<service, events, reply, replyStatus, stream>>

\* onDone: streamDone or disposal; events still under way are lost.
StreamDone ==
  /\ Listening
  /\ stream' = "done"
  /\ events' = <<>>
  /\ streamError' = TRUE
  /\ UNCHANGED <<path, statuses, removed, wait>>
  /\ Settle
  /\ UNCHANGED <<service, reply, replyStatus>>

\* abort(): the application closes; the subscription ends with it.
Abort ==
  /\ Listening
  /\ stream' = "closed"
  /\ events' = <<>>
  /\ streamError' = TRUE
  /\ UNCHANGED <<path, statuses, removed, wait>>
  /\ Settle
  /\ UNCHANGED <<service, reply, replyStatus>>

\* wait resumes once _done is completed; finally, close() cancels.
Return ==
  /\ wait = "waiting"
  /\ outcome # "none"
  /\ wait' = "returned"
  /\ UNCHANGED <<service, events, reply, replyStatus, stream, path, statuses,
                 removed, streamError, outcome>>

\* Mutated form: no timeout is set.
Timeout_Never == FALSE /\ UNCHANGED vars

\* _done.future.timeout fires.
Timeout ==
  /\ wait = "waiting"
  /\ outcome = "none"
  /\ wait' = "returned"
  /\ outcome' = "timeout"
  /\ UNCHANGED <<service, events, reply, replyStatus, stream, path, statuses,
                 removed, streamError>>

Service ==
  \/ \E t \in Transfers : CreateTransfer(t) \/ RemoveTransfer(t)
  \/ \E t \in Transfers, s \in {"complete", "error"} : ChangeStatus(t, s)
  \/ ChangeStatus(Mine, "active")
  \/ Reply \/ RefuseStart

Answer == ReceiveReply \/ ReceiveRefusal

Next ==
  \/ Service
  \/ Start \/ Hear \/ Unheard \/ Answer
  \/ StreamError \/ StreamDone \/ Abort \/ Return \/ Timeout

Spec == Init /\ [][Next]_vars

\* The event loop delivers events and replies; the service answers a call
\* (or D-Bus does, with a timeout error).  Nothing is assumed of the
\* transfer itself: it may stay queued for ever.
Answered == Reply \/ RefuseStart
FairSpec == Spec /\ WF_vars(Hear) /\ WF_vars(Answer) /\ WF_vars(Answered)
                 /\ WF_vars(Return) /\ WF_vars(Timeout)

-----------------------------------------------------------------------------
(* Properties.                                                              *)

\* wait returns normally only for a transfer that did reach "complete", not on
\* the word of the path's earlier owner: the announcement of the new object
\* clears what was recorded (so it must come before the stream breaks).
TruthfulSuccess ==
  outcome = "success" /\ (environment.reuse => stream = "open") => Mine \in completed

\* wait blames the transfer, or its removal, only if it did not complete;
\* once the event stream itself failed, a failure is right in any case.
TruthfulFailure ==
  outcome \in {"transferFailed", "removed"} /\ ~streamError => Mine \notin completed

\* The same without any condition on paths: what wait reports is what became
\* of the transfer it started, "across path reuse" (CHANGELOG.md).
TruthfulOutcome ==
  /\ outcome = "success" => Mine \in completed
  /\ TruthfulFailure

\* A transfer that ends before the reply is not missed: when everything it
\* did has been heard and the reply is in, wait has returned.
NothingMissed ==
  /\ life[Mine] \in {"complete", "error", "removed"}
  /\ reply = "delivered"
  /\ events = <<>>
  => outcome # "none"

\* A call that was started returns, by an event, a failure or the timeout.
Returns == wait = "starting" ~> wait = "returned"
=============================================================================

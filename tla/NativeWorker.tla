---------------------------- MODULE NativeWorker ----------------------------
(***************************************************************************)
(* The Dart side of a native client (lib/src/internal/native_worker.dart): *)
(* the main isolate's NativeBlueZObexBackend and the worker isolate that   *)
(* owns the native connection.                                             *)
(*                                                                         *)
(* Main isolate: calls get an id, wait in _pending and are sent to the     *)
(* worker; one port receives everything the worker sends, its exit and its *)
(* uncaught errors included.  Worker isolate: one message queue receives   *)
(* the commands and what the native threads post.  Both queues are first   *)
(* in, first out.  A command blocks the worker in one native call, so it   *)
(* is one step, taken when the call returns; the native thread goes on     *)
(* posting meanwhile.  Code between two awaits of completed futures is one *)
(* step as well: microtasks run before the next message.                   *)
(***************************************************************************)
EXTENDS Naturals, Sequences

CONSTANTS
  Calls,      \* calls the application makes
  Dispose,    \* the request of dispose()
  MaxEvents   \* bound on the events the native side posts

ASSUME WorkerAssumption == Dispose \notin Calls /\ MaxEvents \in Nat

Requests == Calls \cup {Dispose}

VARIABLES
  client,      \* connect(): "connecting", "open" or "failed"
  status,      \* what became of each call
  pending,     \* keys of _pending
  disposing,   \* _disposeFuture: "no", "requested", "awaitingExit", "done", "failed"
  exited,      \* _exited is completed
  portOpen,    \* _messages is open
  streamOpen,  \* _events is open
  heard,       \* number of the last event or error added to _events
  messages,    \* sent to _messages, not yet received
  worker,      \* "starting", "serving", "ending" or "ended"
  mailbox,     \* the worker's message queue
  relaying,    \* the worker's native port is open
  posted,      \* native events posted so far
  accepted,    \* history: calls sent to the worker, in order
  executed,    \* history: commands the worker ran, in order
  lost         \* history: the worker ended by an uncaught error

main == <<client, status, pending, disposing, exited, portOpen, streamOpen, heard,
          accepted>>
native == <<worker, relaying, posted, executed, lost>>
vars == <<main, native, messages, mailbox>>

Settled == {"succeeded", "failed", "rejected"}

Message ==
  [kind : {"ready", "startupFailed", "crashed", "exit"}]
    \cup [kind : {"event", "streamDone", "eventError"}, number : Nat]
    \cup [kind : {"response"}, request : Requests, status : {"succeeded", "failed"}]

Mail == [kind : {"command"}, request : Requests]
          \cup [kind : {"event", "streamDone", "undecodable"}, number : Nat]

TypeOK ==
  /\ client \in {"connecting", "open", "failed"}
  /\ status \in [Calls -> {"idle", "accepted"} \cup Settled]
  /\ pending \subseteq Requests
  /\ disposing \in {"no", "requested", "awaitingExit", "done", "failed"}
  /\ exited \in BOOLEAN /\ portOpen \in BOOLEAN /\ streamOpen \in BOOLEAN
  /\ heard \in Nat
  /\ messages \in Seq(Message)
  /\ worker \in {"starting", "serving", "ending", "ended"}
  /\ mailbox \in Seq(Mail)
  /\ relaying \in BOOLEAN
  /\ posted \in Nat
  /\ accepted \in Seq(Calls)
  /\ executed \in Seq(Calls)
  /\ lost \in BOOLEAN

Init ==
  /\ client = "connecting"
  /\ status = [c \in Calls |-> "idle"]
  /\ pending = {}
  /\ disposing = "no"
  /\ exited = FALSE
  /\ portOpen = TRUE
  /\ streamOpen = TRUE
  /\ heard = 0
  /\ messages = <<>>
  /\ worker = "starting"
  /\ mailbox = <<>>
  /\ relaying = FALSE
  /\ posted = 0
  /\ accepted = <<>>
  /\ executed = <<>>
  /\ lost = FALSE

\* A closed port drops what is sent to it.
Tell(message) ==
  messages' = IF portOpen THEN Append(messages, message) ELSE messages
Send(mail) == mailbox' = IF worker \in {"ending", "ended"} THEN mailbox
                         ELSE Append(mailbox, mail)

-----------------------------------------------------------------------------
(* The worker isolate and the native threads behind it.                     *)

\* backend.connect() done; the command port goes to the main isolate.
WorkerReady ==
  /\ worker = "starting"
  /\ worker' = "serving"
  /\ relaying' = TRUE
  /\ Tell([kind |-> "ready"])
  /\ UNCHANGED <<main, mailbox, posted, executed, lost>>

\* connect() throws: 'startup', then the finally block and the exit.
WorkerStartFails ==
  /\ worker = "starting"
  /\ worker' = "ending"
  /\ Tell([kind |-> "startupFailed"])
  /\ UNCHANGED <<main, mailbox, relaying, posted, executed, lost>>

\* The event thread posts to the native port; nothing follows streamDone.
NativePost ==
  /\ worker = "serving"
  /\ relaying
  /\ \A i \in DOMAIN mailbox : mailbox[i].kind # "streamDone"
  /\ posted < MaxEvents
  /\ posted' = posted + 1
  /\ \E k \in {"event", "streamDone", "undecodable"} :
       Send([kind |-> k, number |-> posted'])
  /\ UNCHANGED <<main, messages, worker, relaying, executed, lost>>

\* Mutated form: an event that cannot be decoded is passed on as it is.
Relay_Raw ==
  /\ worker = "serving"
  /\ mailbox # <<>>
  /\ Head(mailbox).kind # "command"
  /\ mailbox' = Tail(mailbox)
  /\ relaying' = (relaying /\ Head(mailbox).kind # "streamDone")
  /\ IF relaying THEN Tell(Head(mailbox)) ELSE UNCHANGED messages
  /\ UNCHANGED <<main, worker, posted, executed, lost>>

\* Mutated form: an event that cannot be decoded is dropped without a word.
Relay_SkipsUndecodable ==
  /\ worker = "serving"
  /\ mailbox # <<>>
  /\ Head(mailbox).kind # "command"
  /\ mailbox' = Tail(mailbox)
  /\ relaying' = (relaying /\ Head(mailbox).kind # "streamDone")
  /\ IF relaying /\ Head(mailbox).kind # "undecodable" THEN Tell(Head(mailbox))
     ELSE UNCHANGED messages
  /\ UNCHANGED <<main, worker, posted, executed, lost>>

\* The native port's listener passes an event on to the main isolate.
Relay ==
  /\ worker = "serving"
  /\ mailbox # <<>>
  /\ Head(mailbox).kind # "command"
  /\ mailbox' = Tail(mailbox)
  /\ LET mail == Head(mailbox) IN
       /\ relaying' = (relaying /\ mail.kind # "streamDone")
       /\ IF ~relaying THEN UNCHANGED messages
          ELSE Tell(IF mail.kind = "undecodable"
                    THEN [kind |-> "eventError", number |-> mail.number] ELSE mail)
  /\ UNCHANGED <<main, worker, posted, executed, lost>>

\* Mutated form: commands are listened to, so that one may overtake another.
Execute_AnyOrder ==
  /\ worker = "serving"
  /\ \E i \in DOMAIN mailbox :
       /\ mailbox[i].kind = "command"
       /\ mailbox[i].request # Dispose
       /\ executed' = Append(executed, mailbox[i].request)
       /\ Tell([kind |-> "response", request |-> mailbox[i].request,
                status |-> "succeeded"])
       /\ mailbox' = SubSeq(mailbox, 1, i - 1) \o SubSeq(mailbox, i + 1, Len(mailbox))
  /\ UNCHANGED <<main, worker, relaying, posted, lost>>

\* One command of the await-for loop: the native call, then the response.
Execute ==
  /\ worker = "serving"
  /\ mailbox # <<>>
  /\ Head(mailbox).kind = "command"
  /\ LET c == Head(mailbox).request IN
       /\ c # Dispose
       /\ executed' = Append(executed, c)
       /\ \E s \in {"succeeded", "failed"} :
            Tell([kind |-> "response", request |-> c, status |-> s])
  /\ mailbox' = Tail(mailbox)
  /\ UNCHANGED <<main, worker, relaying, posted, lost>>

\* Mutated form: disposal goes ahead of the commands sent before it.
ExecuteDispose_Ahead ==
  /\ worker = "serving"
  /\ \E i \in DOMAIN mailbox : mailbox[i] = [kind |-> "command", request |-> Dispose]
  /\ worker' = "ending"
  /\ relaying' = FALSE
  /\ mailbox' = <<>>
  /\ Tell([kind |-> "response", request |-> Dispose, status |-> "succeeded"])
  /\ UNCHANGED <<main, posted, executed, lost>>

\* The dispose command: client_destroy has joined the event thread; the loop
\* breaks, and the finally block closes the ports with what is left in them.
ExecuteDispose ==
  /\ worker = "serving"
  /\ mailbox # <<>>
  /\ Head(mailbox) = [kind |-> "command", request |-> Dispose]
  /\ worker' = "ending"
  /\ relaying' = FALSE
  /\ mailbox' = <<>>
  /\ Tell([kind |-> "response", request |-> Dispose, status |-> "succeeded"])
  /\ UNCHANGED <<main, posted, executed, lost>>

\* An error nobody caught ends the isolate (onError, errors are fatal).
WorkerCrash ==
  /\ worker \in {"starting", "serving"}
  /\ worker' = "ending"
  /\ relaying' = FALSE
  /\ mailbox' = <<>>
  /\ lost' = TRUE
  /\ Tell([kind |-> "crashed"])
  /\ UNCHANGED <<main, posted, executed>>

\* onExit.
WorkerExit ==
  /\ worker = "ending"
  /\ worker' = "ended"
  /\ Tell([kind |-> "exit"])
  /\ UNCHANGED <<main, mailbox, relaying, posted, executed, lost>>

-----------------------------------------------------------------------------
(* The main isolate.                                                        *)

\* Mutated form: neither _disposeFuture nor _exited is looked at.
Call_Unchecked(c) ==
  /\ client = "open"
  /\ status[c] = "idle"
  /\ status' = [status EXCEPT ![c] = "accepted"]
  /\ pending' = pending \cup {c}
  /\ accepted' = Append(accepted, c)
  /\ Send([kind |-> "command", request |-> c])
  /\ UNCHANGED <<client, disposing, exited, portOpen, streamOpen, heard, messages, native>>

\* _call: refused once disposal began or the worker is gone; else _request.
Call(c) ==
  /\ client = "open"
  /\ status[c] = "idle"
  /\ disposing = "no" /\ ~exited
  /\ status' = [status EXCEPT ![c] = "accepted"]
  /\ pending' = pending \cup {c}
  /\ accepted' = Append(accepted, c)
  /\ Send([kind |-> "command", request |-> c])
  /\ UNCHANGED <<client, disposing, exited, portOpen, streamOpen, heard, messages, native>>

CallRefused(c) ==
  /\ client = "open"
  /\ status[c] = "idle"
  /\ disposing # "no" \/ exited
  /\ status' = [status EXCEPT ![c] = "rejected"]
  /\ UNCHANGED <<client, pending, disposing, exited, portOpen, streamOpen, heard,
                 accepted, messages, mailbox, native>>

\* dispose(): the first call makes _disposeFuture, later ones share it.
DisposeClient ==
  /\ client = "open"
  /\ disposing = "no"
  /\ IF exited
     THEN /\ disposing' = "done"
          /\ UNCHANGED <<pending, mailbox>>
     ELSE /\ disposing' = "requested"
          /\ pending' = pending \cup {Dispose}
          /\ Send([kind |-> "command", request |-> Dispose])
  /\ UNCHANGED <<client, status, exited, portOpen, streamOpen, heard, accepted,
                 messages, native>>

Receive(kind) ==
  /\ portOpen
  /\ messages # <<>>
  /\ Head(messages).kind = kind

\* _ready completes, connect() returns.
OnReady ==
  /\ Receive("ready")
  /\ messages' = Tail(messages)
  /\ client' = "open"
  /\ UNCHANGED <<status, pending, disposing, exited, portOpen, streamOpen, heard,
                 accepted, mailbox, native>>

\* connect() rethrows after it closed the port and the stream.
OnStartupFailed ==
  /\ Receive("startupFailed")
  /\ messages' = <<>>
  /\ client' = "failed"
  /\ portOpen' = FALSE
  /\ streamOpen' = FALSE
  /\ UNCHANGED <<status, pending, disposing, exited, heard, accepted, mailbox, native>>

OnEvent ==
  /\ Receive("event")
  /\ messages' = Tail(messages)
  /\ heard' = IF streamOpen THEN Head(messages).number ELSE heard
  /\ UNCHANGED <<client, status, pending, disposing, exited, portOpen, streamOpen,
                 accepted, mailbox, native>>

\* The event itself, then the end of the application's stream.
OnStreamDone ==
  /\ Receive("streamDone")
  /\ messages' = Tail(messages)
  /\ heard' = IF streamOpen THEN Head(messages).number ELSE heard
  /\ streamOpen' = FALSE
  /\ UNCHANGED <<client, status, pending, disposing, exited, portOpen, accepted,
                 mailbox, native>>

\* addError: an event that cannot be decoded reaches the stream as an error.
OnEventError ==
  /\ Receive("eventError")
  /\ messages' = Tail(messages)
  /\ heard' = IF streamOpen THEN Head(messages).number ELSE heard
  /\ UNCHANGED <<client, status, pending, disposing, exited, portOpen, streamOpen,
                 accepted, mailbox, native>>

\* The completer of the id, if it is still pending.
OnResponse ==
  /\ Receive("response")
  /\ messages' = Tail(messages)
  /\ LET r == Head(messages).request IN
       /\ pending' = pending \ {r}
       /\ status' = IF r \in pending \cap Calls
                    THEN [status EXCEPT ![r] = Head(messages).status] ELSE status
       /\ disposing' = IF r = Dispose /\ r \in pending THEN "awaitingExit" ELSE disposing
  /\ UNCHANGED <<client, exited, portOpen, streamOpen, heard, accepted, mailbox, native>>

\* Every pending completer fails; a pending dispose() fails with them.
FailPending ==
  /\ pending' = {}
  /\ status' = [c \in Calls |-> IF c \in pending THEN "failed" ELSE status[c]]

\* An uncaught error of the worker, before its exit is known.  A connect()
\* or a dispose() that fails with it closes the port.
OnCrash ==
  /\ Receive("crashed")
  /\ FailPending
  /\ client' = IF client = "connecting" THEN "failed" ELSE client
  /\ disposing' = IF Dispose \in pending THEN "failed" ELSE disposing
  /\ portOpen' = (client = "open" /\ Dispose \notin pending)
  /\ streamOpen' = (streamOpen /\ portOpen')
  /\ messages' = IF portOpen' THEN Tail(messages) ELSE <<>>
  /\ UNCHANGED <<exited, heard, accepted, mailbox, native>>

\* Mutated form: the completers that still wait are left alone.
OnExit_NobodyTold ==
  /\ Receive("exit")
  /\ messages' = <<>>
  /\ portOpen' = FALSE
  /\ streamOpen' = FALSE
  /\ exited' = TRUE
  /\ disposing' = IF disposing = "awaitingExit" THEN "done" ELSE disposing
  /\ UNCHANGED <<client, status, pending, heard, accepted, mailbox, native>>

\* null: the worker is gone.  The port closes and dispose() can return.
OnExit ==
  /\ Receive("exit")
  /\ FailPending
  /\ messages' = <<>>
  /\ portOpen' = FALSE
  /\ streamOpen' = FALSE
  /\ exited' = TRUE
  /\ disposing' = CASE disposing = "awaitingExit" -> "done"
                    [] disposing = "requested" -> "failed"
                    [] OTHER -> disposing
  /\ UNCHANGED <<client, heard, accepted, mailbox, native>>

OnMessage == \/ OnReady \/ OnStartupFailed \/ OnEvent \/ OnStreamDone
             \/ OnEventError \/ OnResponse \/ OnCrash \/ OnExit

Worker == WorkerReady \/ Relay \/ Execute \/ ExecuteDispose \/ WorkerExit

Next ==
  \/ Worker \/ WorkerStartFails \/ WorkerCrash \/ NativePost
  \/ \E c \in Calls : Call(c) \/ CallRefused(c)
  \/ DisposeClient
  \/ OnMessage

Spec == Init /\ [][Next]_vars

\* Both event loops run, and a native call returns: D-Bus calls time out.
FairSpec == Spec /\ WF_vars(OnMessage) /\ WF_vars(Worker)

-----------------------------------------------------------------------------
(* Properties.                                                              *)

\* The worker runs accepted calls in their order, each once, and no other:
\* neither a refused call nor one that failed with a lost worker runs later.
RunsInOrder == executed = SubSeq(accepted, 1, Len(executed))

\* "Calls submitted before disposal drain in order": unless the worker died,
\* disposal is done only after every accepted call ran and has its answer.
DisposalDrains ==
  disposing = "done" /\ ~lost =>
    /\ executed = accepted
    /\ \A c \in Calls : status[c] # "accepted"

\* No future waits on a port that is closed or a worker known to be gone.
NobodyLeftWaiting ==
  ~portOpen => pending = {} /\ \A c \in Calls : status[c] # "accepted"

\* Native events reach the application's stream without a gap, a repetition
\* or a change of order, and none after the stream has ended.
EventsInOrder ==
  [][heard' # heard => streamOpen /\ heard' = heard + 1]_vars

\* The contract of a client, with _disposeFuture and _exited as its lifecycle.
Contract == INSTANCE CallContract WITH
  lifecycle <- IF exited \/ disposing \in {"done", "failed"} THEN "closed"
               ELSE IF disposing = "no" THEN "open" ELSE "closing"

\* Every behaviour of the two isolates is one the contract allows, its
\* liveness included: every accepted call is answered and disposal ends.
ImplementsContract == Contract!Spec
=============================================================================

-------------------------- MODULE SimulatedBackend --------------------------
(***************************************************************************)
(* The in-process endpoint for tests and examples                          *)
(* (SimulatedBlueZObexBackend in lib/src/bluez_obex_client.dart).  It runs *)
(* on the application's isolate and awaits nothing: every method is one    *)
(* step.  Its events are added to the stream before its future completes;  *)
(* a listener is one that has received them.                               *)
(*                                                                         *)
(* A path is the sequence of its numbers: <<s>> is a session, <<s, m>> a   *)
(* message, and a transfer appends its number to its owner's path.         *)
(* Methods that only read change nothing and have no action; validation of *)
(* arguments and the files written change no state here either.            *)
(***************************************************************************)
EXTENDS Naturals, FiniteSets, Sequences

CONSTANTS
  MaxSessions,   \* bound on the sessions ever created
  MaxTransfers   \* bound on the transfers ever created

ASSUME BoundsAssumption == MaxSessions \in Nat /\ MaxTransfers \in Nat

VARIABLES
  disposed,         \* _disposed
  sessionCounter,   \* _sessionCounter
  transferCounter,  \* _transferCounter
  sessions,         \* keys of _sessions
  phonebooks,       \* _phonebooks: session -> selected folder
  messages,         \* _messages: path -> what the message is
  transfers,        \* _transfers: path -> session and status
  out,              \* objects the last step announced, retired and described
  told,             \* history: objects announced to a listener, not retired
  shown,            \* history: the last status posted of each transfer
  announced         \* history: paths of sessions and transfers ever announced

maps == <<sessions, phonebooks, messages, transfers>>
counters == <<sessionCounter, transferCounter>>
vars == <<disposed, counters, maps, out, told, shown, announced>>

SessionPath == {<<s>> : s \in 0..MaxSessions}
MessagePath == [1..2 -> Nat]
TransferPath == {owner \o <<t>> : owner \in SessionPath, t \in 0..MaxTransfers}
                  \cup [1..3 -> Nat]
Folders == {"telecom/pb", "selected"}
Statuses == {"complete", "cancelled", "suspended", "active"}

\* origin is 0 for a sample message; a push leaves the number its transfer
\* takes transferCounter to.
MessageProps == [origin : 0..MaxTransfers, read : BOOLEAN, deleted : BOOLEAN]
TransferProps == [session : SessionPath, status : Statuses]

Object(interface, path) == [interface |-> interface, path |-> path]
Objects == [interface : {"Session1", "PhonebookAccess1", "MessageAccess1"}, path : SessionPath]
             \cup [interface : {"Message1"}, path : MessagePath]
             \cup [interface : {"Transfer1"}, path : TransferPath]

TypeOK ==
  /\ disposed \in BOOLEAN
  /\ sessionCounter \in 0..MaxSessions
  /\ transferCounter \in 0..MaxTransfers
  /\ sessions \subseteq SessionPath
  /\ DOMAIN phonebooks \subseteq SessionPath
  /\ \A s \in DOMAIN phonebooks : phonebooks[s] \in Folders
  /\ \A m \in DOMAIN messages : m \in MessagePath /\ messages[m] \in MessageProps
  /\ \A t \in DOMAIN transfers : t \in TransferPath /\ transfers[t] \in TransferProps
  /\ \A o \in out.added \cup out.removed \cup told : o \in Objects
  /\ \A t \in DOMAIN shown : t \in TransferPath /\ shown[t] \in Statuses

Without(table, keys) == [k \in DOMAIN table \ keys |-> table[k]]
Put(table, key, value) ==
  [k \in DOMAIN table \cup {key} |-> IF k = key THEN value ELSE table[k]]

Nothing == [k \in {} |-> 0]

Init ==
  /\ disposed = FALSE
  /\ sessionCounter = 0
  /\ transferCounter = 0
  /\ sessions = {}
  /\ phonebooks = Nothing
  /\ messages = Nothing
  /\ transfers = Nothing
  /\ out = [added |-> {}, removed |-> {}]
  /\ told = {}
  /\ shown = Nothing
  /\ announced = {}

\* What _emitAdded and _emitRemoved tell a listener.
Emit(added, removed) ==
  /\ out' = [added |-> added, removed |-> removed]
  /\ told' = (told \cup added) \ removed
  /\ announced' = announced \cup {o \in added : o.interface \in {"Session1", "Transfer1"}}

Quiet == out' = [added |-> {}, removed |-> {}] /\ UNCHANGED <<told, announced>>

-----------------------------------------------------------------------------
(* Sessions.                                                                *)

SessionObjects(s) ==
  {Object(i, s) : i \in {"Session1", "PhonebookAccess1", "MessageAccess1"}}

\* A new session at path s, with its sample message.
MakeSession(s) ==
  LET sample == s \o <<0>> IN
    /\ ~disposed
    /\ sessions' = sessions \cup {s}
    /\ phonebooks' = Put(phonebooks, s, "telecom/pb")
    /\ messages' = Put(messages, sample,
                       [origin |-> 0, read |-> FALSE, deleted |-> FALSE])
    /\ Emit(SessionObjects(s) \cup {Object("Message1", sample)}, {})
    /\ UNCHANGED <<disposed, transferCounter, transfers, shown>>

\* Mutated form: sessions are numbered by how many there are.
CreateSession_Counted ==
  /\ sessionCounter < MaxSessions
  /\ MakeSession(<<Cardinality(sessions)>>)
  /\ sessionCounter' = sessionCounter + 1

CreateSession ==
  /\ sessionCounter < MaxSessions
  /\ MakeSession(<<sessionCounter>>)
  /\ sessionCounter' = sessionCounter + 1

MessagesOf(s) == {m \in DOMAIN messages : Head(m) = Head(s)}
TransfersOf(s) == {t \in DOMAIN transfers : transfers[t].session = s}

\* Mutated form: the session's messages are not removed with it.
RemoveSession_KeepsMessages(s) ==
  /\ ~disposed
  /\ sessions' = sessions \ {s}
  /\ phonebooks' = Without(phonebooks, {s})
  /\ transfers' = Without(transfers, TransfersOf(s))
  /\ shown' = Without(shown, TransfersOf(s))
  /\ Emit({}, {Object("Transfer1", t) : t \in TransfersOf(s)} \cup SessionObjects(s)
                \cup {Object("Message1", m) : m \in MessagesOf(s)})
  /\ UNCHANGED <<disposed, counters, messages>>

\* Whether there is such a session is not asked.
RemoveSession(s) ==
  /\ ~disposed
  /\ sessions' = sessions \ {s}
  /\ phonebooks' = Without(phonebooks, {s})
  /\ transfers' = Without(transfers, TransfersOf(s))
  /\ shown' = Without(shown, TransfersOf(s))
  /\ messages' = Without(messages, MessagesOf(s))
  /\ Emit({}, {Object("Transfer1", t) : t \in TransfersOf(s)} \cup SessionObjects(s)
                \cup {Object("Message1", m) : m \in MessagesOf(s)})
  /\ UNCHANGED <<disposed, counters>>

PhonebookSelect(s) ==
  /\ ~disposed
  /\ s \in DOMAIN phonebooks
  /\ phonebooks' = [phonebooks EXCEPT ![s] = "selected"]
  /\ Quiet
  /\ UNCHANGED <<disposed, counters, sessions, messages, transfers, shown>>

-----------------------------------------------------------------------------
(* Transfers.                                                               *)

\* A message's path up to its last '/', or the session's path.
SessionOf(owner) == <<Head(owner)>>

\* _completeTransfer, with the objects announced before it.
CompleteTransfer(owner, added) ==
  LET path == Append(owner, transferCounter) IN
    /\ transferCounter < MaxTransfers
    /\ transferCounter' = transferCounter + 1
    /\ transfers' = Put(transfers, path,
                        [session |-> SessionOf(owner), status |-> "complete"])
    /\ shown' = Put(shown, path, "complete")
    /\ Emit(added \cup {Object("Transfer1", path)}, {})
    /\ UNCHANGED <<disposed, sessionCounter, sessions, phonebooks>>

\* phonebookPullAll and phonebookPull.
PhonebookPull(s) ==
  /\ ~disposed
  /\ s \in DOMAIN phonebooks
  /\ CompleteTransfer(s, {})
  /\ UNCHANGED messages

\* messageGet.
MessageGet(m) ==
  /\ ~disposed
  /\ m \in DOMAIN messages
  /\ CompleteTransfer(m, {})
  /\ UNCHANGED messages

\* The new message's number is the number of messages there are.
PushMessage(s) ==
  /\ ~disposed
  /\ s \in sessions
  /\ LET m == Append(s, Cardinality(DOMAIN messages)) IN
       /\ messages' = Put(messages, m, [origin |-> transferCounter + 1, read |-> FALSE,
                                        deleted |-> FALSE])
       /\ CompleteTransfer(s, {Object("Message1", m)})

\* Mutated form: the new status is stored and not posted.
SetTransferStatus_NotPosted(t, status) ==
  /\ ~disposed
  /\ t \in DOMAIN transfers
  /\ transfers' = [transfers EXCEPT ![t].status = status]
  /\ Quiet
  /\ UNCHANGED <<disposed, counters, sessions, phonebooks, messages, shown>>

\* transferCancel, transferSuspend and transferResume, whatever the status.
SetTransferStatus(t, status) ==
  /\ ~disposed
  /\ t \in DOMAIN transfers
  /\ transfers' = [transfers EXCEPT ![t].status = status]
  /\ shown' = Put(shown, t, status)
  /\ Quiet
  /\ UNCHANGED <<disposed, counters, sessions, phonebooks, messages>>

-----------------------------------------------------------------------------
(* Messages and the end.                                                    *)

\* messageSetRead and messageSetDeleted: _copyMessage, no event.
SetMessage(m, read, deleted) ==
  /\ ~disposed
  /\ m \in DOMAIN messages
  /\ messages' = [messages EXCEPT ![m].read = read, ![m].deleted = deleted]
  /\ Quiet
  /\ UNCHANGED <<disposed, counters, sessions, phonebooks, transfers, shown>>

Dispose ==
  /\ ~disposed
  /\ disposed' = TRUE
  /\ Quiet
  /\ UNCHANGED <<counters, maps, shown>>

Next ==
  \/ CreateSession
  \/ \E s \in {<<n>> : n \in 0..MaxSessions-1} : \/ RemoveSession(s) \/ PhonebookSelect(s)
                                 \/ PhonebookPull(s) \/ PushMessage(s)
  \/ \E m \in DOMAIN messages :
       \/ MessageGet(m)
       \/ \E b \in BOOLEAN : \/ SetMessage(m, b, messages[m].deleted)
                             \/ SetMessage(m, messages[m].read, b)
  \/ \E t \in {o.path : o \in {a \in announced : a.interface = "Transfer1"}},
        status \in {"cancelled", "suspended", "active"} : SetTransferStatus(t, status)
  \/ Dispose

Spec == Init /\ [][Next]_vars

-----------------------------------------------------------------------------
(* Properties.                                                              *)

\* What getManagedObjects lists.
Listed ==
  {Object(i, s) : i \in {"Session1", "MessageAccess1"}, s \in sessions}
    \cup {Object("PhonebookAccess1", s) : s \in DOMAIN phonebooks}
    \cup {Object("Message1", m) : m \in DOMAIN messages}
    \cup {Object("Transfer1", t) : t \in DOMAIN transfers}

\* A listener that applies additions and removals, and one that asks for the
\* list, see the same objects; the last status posted is the one stored.
EventsMatchListing ==
  /\ told = Listed
  /\ shown = [t \in DOMAIN transfers |-> transfers[t].status]

\* A removed session leaves nothing behind: its phone book, its messages, and
\* the transfers it or one of its messages started go with it.
NoOrphans ==
  /\ DOMAIN phonebooks = sessions
  /\ \A m \in DOMAIN messages : <<Head(m)>> \in sessions
  /\ \A t \in DOMAIN transfers : transfers[t].session \in sessions

\* No path of a session or a transfer is ever announced a second time, so
\* that a watcher of a transfer never takes an earlier one for its own.
PathsNotReused == [][announced \cap out'.added = {}]_vars

\* An endpoint that "mirrors the BlueZ OBEX API" keeps its messages: a message
\* is the same message for as long as it has its path.
MessagesStayThemselves ==
  [][\A m \in DOMAIN messages \cap DOMAIN messages' :
       messages'[m].origin = messages[m].origin]_vars
=============================================================================

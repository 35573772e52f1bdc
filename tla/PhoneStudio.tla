---------------------------- MODULE PhoneStudio ----------------------------
(***************************************************************************)
(* The controller of the Flutter example (_PhoneMessageHomeState in        *)
(* example/flutter_phone_message/lib/main.dart) beside the OBEX service.   *)
(* Steps fall where the code awaits.  At most one operation runs (_busy);  *)
(* closing the view and events of the client come between its steps.       *)
(*                                                                         *)
(* Client n lives in workspace n; client, subscription and workspace are   *)
(* set and cleared together, so `client' stands for the three.  A native   *)
(* call executes at the service and is answered in one step: the reply     *)
(* precedes every event posted after the call was executed                 *)
(* (lib/src/internal/native_worker.dart).  A call made on a client that is *)
(* being disposed is refused at once.  What lists, filters and fields the  *)
(* calls return is left out.                                               *)
(***************************************************************************)
EXTENDS Naturals, FiniteSets, Sequences

CONSTANTS
  Devices,      \* addresses of devices that may be connected
  NoDevice,     \* no device is selected
  MaxClients,   \* bound on the clients ever connected
  MaxSessions   \* bound on the sessions ever created

ASSUME ConstantsAssumption ==
  NoDevice \notin Devices /\ MaxClients \in Nat /\ MaxSessions \in Nat

VARIABLES
  closing,       \* _closing: the view was disposed
  clientEpoch,   \* _clientEpoch
  selected,      \* _selectedAddress
  client,        \* _client, 0 for none
  session,       \* _pbapSession and _mapSession, 0 for none
  op,            \* the running operation and where it waits; idle when not _busy
  watcher,       \* _transferWatchers: none, open or aborted
  cleanup,       \* the runs of _disposeOwnedResources of _disconnect and dispose
  clientState,   \* what became of each client
  epoch,         \* the epoch each client's listener was registered with
  subscriptions, \* clients whose events are listened to
  workspaces,    \* temporary directories that exist
  owner,         \* service: the client of each session ever created
  live,          \* service: sessions that exist
  notices,       \* removals of sessions that were not yet told
  lost,          \* clients whose event stream is over
  ended          \* clients of which the view was told so

view == <<closing, clientEpoch, selected, client, session, watcher>>
world == <<clientState, epoch, subscriptions, workspaces>>
service == <<owner, live, notices, lost, ended>>
vars == <<view, op, cleanup, world, service>>

Clients == 1..MaxClients
Sessions == 1..MaxSessions
Profiles == {"pbap", "map"}
Cleanups == {"disconnect", "dispose"}

\* Where an operation waits for an answer to a native call.
CallStages == {"create", "properties", "capabilities", "call", "start", "remove", "discard"}
Stages == CallStages \cup {"idle", "discover", "disconnect", "connect", "release", "wait"}

Ops == [at : Stages, then : {"nothing", "session", "call"}, profile : Profiles,
        device : Devices \cup {NoDevice}, client : 0..MaxClients, session : 0..MaxSessions]

Idle == [at |-> "idle", then |-> "nothing", profile |-> "pbap",
         device |-> NoDevice, client |-> 0, session |-> 0]

CleanupStages == {"done", "watchers", "cancel", "remove", "dispose", "disposing", "delete"}

TypeOK ==
  /\ closing \in BOOLEAN
  /\ clientEpoch \in 0..(2 * MaxClients + 2)
  /\ selected \in Devices \cup {NoDevice}
  /\ client \in 0..MaxClients
  /\ session \in [Profiles -> 0..MaxSessions]
  /\ op \in Ops
  /\ watcher \in {"none", "open", "aborted"}
  /\ cleanup \in [Cleanups -> [at : CleanupStages, client : 0..MaxClients,
                               sessions : UNION {[1..n -> Sessions] : n \in 0..2},
                               removed : 0..2]]
  /\ clientState \in [Clients -> {"unborn", "connecting", "open", "disposing", "disposed"}]
  /\ epoch \in [Clients -> 0..(2 * MaxClients + 2)]
  /\ subscriptions \subseteq Clients
  /\ workspaces \subseteq Clients
  /\ owner \in Seq(Clients) /\ Len(owner) <= MaxSessions
  /\ live \subseteq DOMAIN owner /\ notices \subseteq DOMAIN owner
  /\ lost \subseteq Clients /\ ended \subseteq lost

NoCleanup == [at |-> "done", client |-> 0, sessions |-> <<>>, removed |-> 0]

Init ==
  /\ closing = FALSE
  /\ clientEpoch = 0
  /\ selected = NoDevice
  /\ client = 0
  /\ session = [p \in Profiles |-> 0]
  /\ op = Idle
  /\ watcher = "none"
  /\ cleanup = [k \in Cleanups |-> NoCleanup]
  /\ clientState = [c \in Clients |-> "unborn"]
  /\ epoch = [c \in Clients |-> 0]
  /\ subscriptions = {}
  /\ workspaces = {}
  /\ owner = <<>>
  /\ live = {} /\ notices = {} /\ lost = {} /\ ended = {}

-----------------------------------------------------------------------------
(* What the steps of an operation are made of.                              *)

\* The operation goes on to wait for a call on client c, unless it is refused.
Await(o, stage, c) ==
  IF clientState[c] = "open" THEN [o EXCEPT !.at = stage, !.client = c] ELSE Idle

\* A call of the running operation on session s is carried out.
Reaches(s) == s \in live /\ owner[s] \notin lost

\* With a session: one call, or a transfer, which takes a watcher of the
\* client's events.  Further calls of the same operation change nothing here.
Use(o, s) ==
  \/ op' = Await([o EXCEPT !.session = s], "call", owner[s]) /\ UNCHANGED watcher
  \/ op' = Await([o EXCEPT !.session = s], "start", owner[s]) /\ watcher' = "open"

\* _ensureClient found or made client c.
WithClient(o, c) ==
  CASE o.then = "nothing" -> op' = Idle
    [] o.then = "session" -> op' = Await(o, "create", c)
    [] o.then = "call" -> op' = Await(o, "call", c)

\* The number of the next client.
NextClient == Cardinality({c \in Clients : clientState[c] # "unborn"}) + 1

\* _ensureClient up to its first await, for device d.
EnsureClient(o, d) ==
  \/ /\ client # 0
     /\ WithClient(o, client)
     /\ UNCHANGED <<clientState, workspaces>>
  \/ /\ client = 0 /\ d = NoDevice
     /\ op' = Idle
     /\ UNCHANGED <<clientState, workspaces>>
  \/ /\ client = 0 /\ d # NoDevice
     /\ NextClient \in Clients
     /\ op' = [o EXCEPT !.at = "connect", !.client = NextClient]
     /\ clientState' = [clientState EXCEPT ![NextClient] = "connecting"]
     /\ workspaces' = workspaces \cup {NextClient}

\* _sessionsForCleanup.
SessionsForCleanup ==
  SelectSeq(<<session["pbap"], session["map"]>>, LAMBDA s : s # 0)

\* What _disconnect and dispose take over from the view.
Takeover(k) ==
  /\ cleanup' = [cleanup EXCEPT ![k] = [at |-> "watchers", client |-> client,
                                        sessions |-> SessionsForCleanup, removed |-> 0]]
  /\ clientEpoch' = clientEpoch + 1
  /\ client' = 0

-----------------------------------------------------------------------------
(* Operations: each starts only when none runs and the view is alive.       *)

MayRun == op.at = "idle" /\ ~closing

Refresh ==
  /\ MayRun
  /\ op' = [Idle EXCEPT !.at = "discover"]
  /\ UNCHANGED <<view, cleanup, world, service>>

\* _disconnect, before the operation selects device d.
Disconnect(d) ==
  /\ Takeover("disconnect")
  /\ session' = [p \in Profiles |-> 0]
  /\ op' = [Idle EXCEPT !.at = "disconnect", !.device = d]
  /\ UNCHANGED <<closing, selected, watcher, world, service>>

\* Another device of the list; the list is not empty once one is selected.
SelectDevice(d) ==
  /\ MayRun
  /\ selected # NoDevice /\ d # selected
  /\ clientEpoch < 2 * MaxClients + 1
  /\ Disconnect(d)

\* Every operation that needs a session of a profile.
UseProfile(p) ==
  /\ MayRun
  /\ selected # NoDevice
  /\ \/ /\ session[p] # 0
        /\ Use([Idle EXCEPT !.profile = p], session[p])
        /\ UNCHANGED <<clientState, workspaces>>
     \/ /\ session[p] = 0
        /\ EnsureClient([Idle EXCEPT !.then = "session", !.profile = p], selected)
        /\ UNCHANGED watcher
  /\ UNCHANGED <<closing, clientEpoch, selected, client, session, cleanup, epoch,
                 subscriptions, service>>

\* _transferAction and _refreshManagedObjects.
UseClient ==
  /\ MayRun
  /\ client # 0
  /\ EnsureClient([Idle EXCEPT !.then = "call"], selected)
  /\ UNCHANGED <<view, cleanup, epoch, subscriptions, service>>

\* A message in the view outlives its session there; reading, changing or
\* downloading it does not ask for one.
UseMessage ==
  /\ MayRun
  /\ client # 0
  /\ \E s \in DOMAIN owner : owner[s] = client
  /\ \/ op' = Await(Idle, "call", client) /\ UNCHANGED watcher
     \/ op' = Await(Idle, "start", client) /\ watcher' = "open"
  /\ UNCHANGED <<closing, clientEpoch, selected, client, session, cleanup, world, service>>

CloseProfile(p) ==
  /\ MayRun
  /\ session[p] # 0
  /\ op' = Await([Idle EXCEPT !.profile = p, !.session = session[p]], "remove",
                 owner[session[p]])
  /\ UNCHANGED <<view, cleanup, world, service>>

-----------------------------------------------------------------------------
(* Continuations of the running operation.                                  *)

\* _refreshDevices: found is what discovery lists as connected.
Discovered(found) ==
  /\ op.at = "discover"
  /\ \/ /\ closing
        /\ op' = Idle
        /\ UNCHANGED <<view, cleanup, world, service>>
     \/ /\ ~closing
        /\ \E d \in IF selected \in found THEN {selected}
                    ELSE IF found = {} THEN {NoDevice} ELSE found :
             \/ /\ d # selected
                /\ clientEpoch < 2 * MaxClients + 1
                /\ Disconnect(d)
             \/ /\ d = selected
                /\ IF d = NoDevice THEN op' = Idle /\ UNCHANGED <<clientState, workspaces>>
                   ELSE EnsureClient(Idle, d)
                /\ UNCHANGED <<view, cleanup, epoch, subscriptions, service>>

\* Discovery fails.
DiscoveryFails ==
  /\ op.at = "discover"
  /\ op' = Idle
  /\ UNCHANGED <<view, cleanup, world, service>>

\* Mutated form: the old endpoint's disposal is not awaited.
Disconnected_Unawaited ==
  /\ op.at = "disconnect"
  /\ ~closing
  /\ selected' = op.device
  /\ IF op.device = NoDevice THEN op' = Idle /\ UNCHANGED <<clientState, workspaces>>
     ELSE EnsureClient(Idle, op.device)
  /\ UNCHANGED <<closing, clientEpoch, client, session, watcher, cleanup, epoch,
                 subscriptions, service>>

\* _disconnect has returned.
Disconnected ==
  /\ op.at = "disconnect"
  /\ cleanup["disconnect"].at = "done"
  /\ \/ /\ closing
        /\ op' = Idle
        /\ UNCHANGED <<selected, clientState, workspaces>>
     \/ /\ ~closing
        /\ selected' = op.device
        /\ IF op.device = NoDevice THEN op' = Idle /\ UNCHANGED <<clientState, workspaces>>
           ELSE EnsureClient(Idle, op.device)
  /\ UNCHANGED <<closing, clientEpoch, client, session, watcher, cleanup, epoch,
                 subscriptions, service>>

\* Mutated form: whether the view is still there is not asked.
Connected_Unchecked ==
  /\ op.at = "connect"
  /\ client' = op.client
  /\ clientEpoch' = clientEpoch + 1
  /\ epoch' = [epoch EXCEPT ![op.client] = clientEpoch + 1]
  /\ subscriptions' = subscriptions \cup {op.client}
  /\ clientState' = [clientState EXCEPT ![op.client] = "open"]
  /\ op' = IF op.then = "nothing" THEN Idle
           ELSE [op EXCEPT !.at = IF op.then = "session" THEN "create" ELSE "call"]
  /\ UNCHANGED <<closing, selected, session, watcher, cleanup, workspaces, service>>

\* The rest of _ensureClient.
Connected ==
  /\ op.at = "connect"
  /\ \/ /\ closing
        /\ clientState' = [clientState EXCEPT ![op.client] = "disposing"]
        /\ op' = [op EXCEPT !.at = "release"]
        /\ UNCHANGED <<client, clientEpoch, epoch, subscriptions>>
     \/ /\ ~closing
        /\ client' = op.client
        /\ clientEpoch' = clientEpoch + 1
        /\ epoch' = [epoch EXCEPT ![op.client] = clientEpoch + 1]
        /\ subscriptions' = subscriptions \cup {op.client}
        /\ clientState' = [clientState EXCEPT ![op.client] = "open"]
        /\ op' = IF op.then = "nothing" THEN Idle
                 ELSE [op EXCEPT !.at = IF op.then = "session" THEN "create" ELSE "call"]
  /\ UNCHANGED <<closing, selected, session, watcher, cleanup, workspaces, service>>

\* createClient throws: the directory is deleted.
ConnectFails ==
  /\ op.at = "connect"
  /\ clientState' = [clientState EXCEPT ![op.client] = "disposed"]
  /\ workspaces' = workspaces \ {op.client}
  /\ op' = Idle
  /\ UNCHANGED <<view, cleanup, epoch, subscriptions, service>>

\* The view was closed while connecting.
Released ==
  /\ op.at = "release"
  /\ clientState' = [clientState EXCEPT ![op.client] = "disposed"]
  /\ workspaces' = workspaces \ {op.client}
  /\ op' = Idle
  /\ UNCHANGED <<view, cleanup, epoch, subscriptions, service>>

\* createSession, then session.properties().
Created ==
  /\ op.at = "create"
  /\ op.client \notin lost
  /\ Len(owner) < MaxSessions
  /\ owner' = Append(owner, op.client)
  /\ live' = live \cup {Len(owner) + 1}
  /\ op' = Await([op EXCEPT !.session = Len(owner) + 1], "properties", op.client)
  /\ UNCHANGED <<view, cleanup, world, notices, lost, ended>>

PropertiesRead ==
  /\ op.at = "properties"
  /\ Reaches(op.session)
  /\ op' = Await(op, "capabilities", op.client)
  /\ UNCHANGED <<view, cleanup, world, service>>

\* Mutated form: every error of the call counts as "not supported".
CapabilitiesRead_AnyError ==
  /\ op.at = "capabilities"
  /\ ~closing
  /\ session' = [session EXCEPT ![op.profile] = op.session]
  /\ Use(op, op.session)
  /\ UNCHANGED <<closing, clientEpoch, selected, client, cleanup, world, service>>

\* readOptionalCapabilities: an unsupported method is an answer as well.
CapabilitiesRead ==
  /\ op.at = "capabilities"
  /\ Reaches(op.session)
  /\ \/ /\ closing
        /\ op' = Await(op, "discard", op.client)
        /\ UNCHANGED <<session, watcher>>
     \/ /\ ~closing
        /\ session' = [session EXCEPT ![op.profile] = op.session]
        /\ Use(op, op.session)
  /\ UNCHANGED <<closing, clientEpoch, selected, client, cleanup, world, service>>

\* The session is removed at the service: its client is told.
Remove(s) == live' = live \ {s} /\ notices' = notices \cup {s}

\* The view was closed while creating the session.
Discarded ==
  /\ op.at = "discard"
  /\ Reaches(op.session)
  /\ Remove(op.session)
  /\ op' = Idle
  /\ UNCHANGED <<view, cleanup, world, owner, lost, ended>>

\* _closePbap and _closeMap: the rest, when the session was removed.
Removed ==
  /\ op.at = "remove"
  /\ Reaches(op.session)
  /\ Remove(op.session)
  /\ session' = IF closing THEN session ELSE [session EXCEPT ![op.profile] = 0]
  /\ op' = Idle
  /\ UNCHANGED <<closing, clientEpoch, selected, client, watcher, cleanup, world,
                 owner, lost, ended>>

\* The one call of "call" returns.
Called ==
  /\ op.at = "call"
  /\ op.client \notin lost
  /\ op' = Idle
  /\ UNCHANGED <<view, cleanup, world, service>>

\* The reply to a call that starts a transfer; an aborted watcher ends at once.
Started ==
  /\ op.at = "start"
  /\ op.client \notin lost
  /\ op' = IF watcher = "open" THEN [op EXCEPT !.at = "wait"] ELSE Idle
  /\ watcher' = IF watcher = "open" THEN "open" ELSE "none"
  /\ UNCHANGED <<closing, clientEpoch, selected, client, session, cleanup, world, service>>

\* The transfer completes or fails, the watcher times out or was aborted.
Waited ==
  /\ op.at = "wait"
  /\ op' = Idle
  /\ watcher' = "none"
  /\ UNCHANGED <<closing, clientEpoch, selected, client, session, cleanup, world, service>>

\* A call fails at the phone, at the service or by timeout: _run reports it.
CallFails ==
  /\ op.at \in CallStages
  /\ op' = Idle
  /\ watcher' = "none"
  /\ UNCHANGED <<closing, clientEpoch, selected, client, session, cleanup, world, service>>

-----------------------------------------------------------------------------
(* _disposeOwnedResources, for k: every failure is swallowed.               *)

Goto(k, at) == cleanup' = [cleanup EXCEPT ![k].at = at]

\* Mutated form: the watchers are dropped and not told.
AbortWatchers_Dropped(k) ==
  /\ cleanup[k].at = "watchers"
  /\ Goto(k, IF cleanup[k].client = 0 THEN "done" ELSE "cancel")
  /\ UNCHANGED <<view, op, world, service>>

\* Without a client there is nothing to dispose of.
AbortWatchers(k) ==
  /\ cleanup[k].at = "watchers"
  /\ Goto(k, IF cleanup[k].client = 0 THEN "done" ELSE "cancel")
  /\ watcher' = IF watcher = "open" THEN "aborted" ELSE watcher
  /\ UNCHANGED <<closing, clientEpoch, selected, client, session, op, world, service>>

CancelSubscription(k) ==
  /\ cleanup[k].at = "cancel"
  /\ Goto(k, "remove")
  /\ subscriptions' = subscriptions \ {cleanup[k].client}
  /\ UNCHANGED <<view, op, clientState, epoch, workspaces, service>>

RemoveSessions(k) ==
  /\ cleanup[k].at = "remove"
  /\ cleanup[k].removed < Len(cleanup[k].sessions)
  /\ cleanup' = [cleanup EXCEPT ![k].removed = @ + 1]
  /\ LET s == cleanup[k].sessions[cleanup[k].removed + 1] IN
       \/ Reaches(s) /\ Remove(s)
       \/ UNCHANGED <<live, notices>>
  /\ UNCHANGED <<view, op, world, owner, lost, ended>>

\* client.dispose() begins: later calls are refused, earlier ones drain.
DisposeClient(k) ==
  /\ cleanup[k].at = "remove"
  /\ cleanup[k].removed = Len(cleanup[k].sessions)
  /\ Goto(k, "disposing")
  /\ clientState' = [clientState EXCEPT ![cleanup[k].client] = "disposing"]
  /\ UNCHANGED <<view, op, epoch, subscriptions, workspaces, service>>

\* Nothing of client c is under way: its calls are answered, and an operation
\* whose watcher was aborted has gone on.
Drained(c) ==
  /\ ~(op.at \in CallStages /\ op.client = c)
  /\ ~(op.at = "wait" /\ op.client = c /\ watcher = "aborted")

\* client.dispose() returns; the service drops the sessions of the connection.
ClientDisposed(k) ==
  LET c == cleanup[k].client IN
    /\ cleanup[k].at = "disposing"
    /\ Drained(c)
    /\ Goto(k, "delete")
    /\ clientState' = [clientState EXCEPT ![c] = "disposed"]
    /\ live' = {s \in live : owner[s] # c}
    /\ notices' = {s \in notices : owner[s] # c}
    /\ UNCHANGED <<view, op, epoch, subscriptions, workspaces, owner, lost, ended>>

DeleteWorkspace(k) ==
  /\ cleanup[k].at = "delete"
  /\ workspaces' = workspaces \ {cleanup[k].client}
  /\ cleanup' = [cleanup EXCEPT ![k] = NoCleanup]
  /\ UNCHANGED <<view, op, clientState, epoch, subscriptions, service>>

Cleanup(k) ==
  \/ AbortWatchers(k) \/ CancelSubscription(k) \/ RemoveSessions(k)
  \/ DisposeClient(k) \/ ClientDisposed(k) \/ DeleteWorkspace(k)

\* dispose() of the view.
Close ==
  /\ ~closing
  /\ closing' = TRUE
  /\ Takeover("dispose")
  /\ UNCHANGED <<selected, session, op, watcher, world, service>>

-----------------------------------------------------------------------------
(* Events and the service.                                                  *)

Heard(c) == ~closing /\ epoch[c] = clientEpoch

\* _handleEvent: Session1 of s was removed.
SessionRemoved(s) ==
  /\ s \in notices
  /\ owner[s] \in subscriptions
  /\ notices' = notices \ {s}
  /\ session' = [p \in Profiles |->
                   IF Heard(owner[s]) /\ session[p] = s THEN 0 ELSE session[p]]
  /\ UNCHANGED <<closing, clientEpoch, selected, client, watcher, op, cleanup, world,
                 owner, live, lost, ended>>

\* onDone: the view only writes it down.
StreamDone(c) ==
  /\ c \in lost \ ended
  /\ c \in subscriptions
  /\ \A s \in notices : owner[s] # c
  /\ ended' = IF Heard(c) THEN ended \cup {c} ELSE ended
  /\ subscriptions' = subscriptions \ {c}
  /\ UNCHANGED <<view, op, cleanup, clientState, epoch, workspaces, owner, live,
                 notices, lost>>

\* The phone ends a session.
SessionEnds(s) ==
  /\ s \in live
  /\ Remove(s)
  /\ UNCHANGED <<view, op, cleanup, world, owner, lost, ended>>

\* The service or the bus connection of client c goes away; another owner of
\* the service's name may appear for the next client.
ServiceLost(c) ==
  /\ clientState[c] = "open" /\ c \notin lost
  /\ lost' = lost \cup {c}
  /\ live' = {s \in live : owner[s] # c}
  /\ UNCHANGED <<view, op, cleanup, world, owner, notices, ended>>

Start ==
  \/ Refresh \/ UseClient \/ UseMessage
  \/ \E d \in Devices : SelectDevice(d)
  \/ \E p \in Profiles : UseProfile(p) \/ CloseProfile(p)

Continue ==
  \/ \E found \in SUBSET Devices : Discovered(found)
  \/ DiscoveryFails \/ Disconnected \/ Connected \/ ConnectFails \/ Released
  \/ Created \/ PropertiesRead \/ CapabilitiesRead \/ Discarded \/ Removed
  \/ Called \/ Started \/ Waited \/ CallFails

Environment ==
  \/ \E s \in DOMAIN owner : SessionRemoved(s) \/ SessionEnds(s)
  \/ \E c \in Clients : StreamDone(c) \/ ServiceLost(c)

Next == Start \/ Continue \/ (\E k \in Cleanups : Cleanup(k)) \/ Close \/ Environment

\* Calls are answered or time out, watchers time out, futures that are
\* complete resume what awaits them.
Fairness == WF_vars(Continue) /\ \A k \in Cleanups : WF_vars(Cleanup(k))

Spec == Init /\ [][Next]_vars /\ Fairness

-----------------------------------------------------------------------------
(* Properties.                                                              *)

\* The view holds one endpoint at a time: a new client is never connected
\* before the last one was disposed of, also when devices are switched while
\* the view closes.
OneEndpoint ==
  Cardinality({c \in Clients : clientState[c] \in {"connecting", "open", "disposing"}}) <= 1

\* A session the view shows is of its current client, and it exists, or its
\* end is on its way, or the client is lost.  No session removed while it was
\* still being set up is ever shown.
SessionsCurrent ==
  ~closing => \A p \in Profiles :
    LET s == session[p] IN
      s # 0 => /\ owner[s] = client
               /\ s \in live \/ s \in notices \/ owner[s] \in lost

\* "Finally deletes temporary files": no client in use and no transfer that is
\* started or watched has lost its directory.
WorkspaceOutlivesUse ==
  /\ \A c \in Clients : clientState[c] \in {"connecting", "open", "disposing"} => c \in workspaces
  /\ op.at \in {"start", "wait"} => op.client \in workspaces

\* Once the view is closed every client is disposed of, every directory is
\* deleted and no operation or watcher remains, whatever ran when it closed.
Gone ==
  /\ op.at = "idle" /\ watcher = "none"
  /\ workspaces = {} /\ subscriptions = {}
  /\ \A c \in Clients : clientState[c] \in {"unborn", "disposed"}
NothingLeft == closing ~> Gone

\* "Dispose that client and create a new one": no operation starts on a client
\* the view knows to be lost.
LostClientsReplaced == [][op.at = "idle" => op'.client \notin ended]_vars
=============================================================================

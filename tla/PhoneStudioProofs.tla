------------------------- MODULE PhoneStudioProofs -------------------------
(***************************************************************************)
(* Theorems about the controller of the Flutter example, for every set of  *)
(* devices and every number of clients and sessions: it holds one endpoint *)
(* at a time, shows only sessions of that endpoint, and deletes a          *)
(* directory only when nothing uses it any more.                           *)
(***************************************************************************)
EXTENDS PhoneStudio, FiniteSetTheorems, SequenceTheorems, TLAPS

-----------------------------------------------------------------------------
(* The inductive invariant.                                                 *)

ClientStates == {"unborn", "connecting", "open", "disposing", "disposed"}
Operation == [at : Stages, then : {"nothing", "session", "call"}, profile : Profiles,
              device : Devices \cup {NoDevice}, client : 0..MaxClients, session : Nat]

Shapes ==
  /\ closing \in BOOLEAN
  /\ clientEpoch \in Nat
  /\ selected \in Devices \cup {NoDevice}
  /\ client \in 0..MaxClients
  /\ session \in [Profiles -> Nat]
  /\ op \in Operation
  /\ DOMAIN cleanup = Cleanups
  /\ \A k \in Cleanups : /\ DOMAIN cleanup[k] = {"at", "client", "sessions", "removed"}
                         /\ cleanup[k].at \in CleanupStages
                         /\ cleanup[k].client \in 0..MaxClients
  /\ clientState \in [Clients -> ClientStates]
  /\ epoch \in [Clients -> Nat]
  /\ workspaces \subseteq Clients
  /\ owner \in Seq(Clients)

\* An endpoint being made, in use or being taken down.
Alive(c) == clientState[c] \in {"connecting", "open", "disposing"}

\* Who runs beside whom: a clean-up of a disconnect has its operation waiting
\* for it, and whoever takes over an endpoint leaves none behind.
Modes ==
  /\ ~closing => cleanup["dispose"].at = "done"
  /\ closing => client = 0
  /\ cleanup["disconnect"].at # "done" => op.at = "disconnect"
  /\ op.at \in {"disconnect", "connect", "release"} =>
       client = 0 /\ cleanup["dispose"].client = 0
  /\ op.at = "release" => closing
  /\ \A k \in Cleanups :
       /\ cleanup[k].client = 0 => cleanup[k].at \in {"done", "watchers"}
       /\ cleanup[k].at = "done" => cleanup[k].client = 0

\* The state of an endpoint is the one its holder brought it to.
HeldAs ==
  /\ client # 0 => clientState[client] = "open"
  /\ op.at = "connect" => op.client \in Clients /\ clientState[op.client] = "connecting"
  /\ op.at = "release" => op.client \in Clients /\ clientState[op.client] = "disposing"
  /\ \A k \in Cleanups : cleanup[k].client # 0 =>
       /\ cleanup[k].at \in {"watchers", "cancel", "remove"} =>
            clientState[cleanup[k].client] = "open"
       /\ cleanup[k].at = "disposing" => clientState[cleanup[k].client] = "disposing"
       /\ cleanup[k].at = "delete" => clientState[cleanup[k].client] = "disposed"

\* Every endpoint alive is held: by the view, a connecting operation or a
\* clean-up; and its directory exists.
Held ==
  \A c \in Clients : Alive(c) =>
    /\ c \in workspaces
    /\ \/ client = c
       \/ op.at \in {"connect", "release"} /\ op.client = c
       \/ \E k \in Cleanups : cleanup[k].client = c

\* An operation that waits for a call waits on the view's client; one with a
\* transfer keeps that client from being disposed of under it.
Waiting ==
  /\ op.at \in CallStages \cup {"wait"} =>
       op.client # 0 /\ (~closing => op.client = client)
  /\ op.at \in {"properties", "capabilities", "discard", "remove"} =>
       op.session \in DOMAIN owner /\ owner[op.session] = op.client
  /\ op.at \in {"start", "wait"} =>
       /\ watcher \in {"open", "aborted"}
       /\ closing => /\ cleanup["dispose"].client = op.client
                     /\ cleanup["dispose"].at \in {"watchers", "cancel", "remove", "disposing"}
                     /\ cleanup["dispose"].at # "watchers" => watcher = "aborted"

\* The sessions of the view exist at the service, and its listener is heard.
Shown ==
  /\ ~closing => \A p \in Profiles : session[p] # 0 => session[p] \in DOMAIN owner
  /\ ~closing /\ client # 0 => epoch[client] = clientEpoch
  /\ SessionsCurrent

SInv == Shapes /\ Modes /\ HeldAs /\ Held /\ Waiting /\ Shown

LEMMA SInvInit == Init => SInv
<1> SUFFICES ASSUME Init PROVE SInv
  OBVIOUS
<1>1. Idle \in Operation
  BY ConstantsAssumption
     DEF Idle, Operation, Stages, CallStages, Profiles, ConstantsAssumption
<1>2. Shapes
  <2>1. 0 \in 0..MaxClients
    BY ConstantsAssumption DEF ConstantsAssumption
  <2>2. \A k \in Cleanups : cleanup[k] = NoCleanup
    BY DEF Init
  <2>3. DOMAIN NoCleanup = {"at", "client", "sessions", "removed"}
        /\ NoCleanup.at = "done" /\ NoCleanup.client = 0
    BY DEF NoCleanup
  <2>4. owner \in Seq(Clients)
    BY DEF Init
  <2> QED BY <1>1, <2>1, <2>2, <2>3, <2>4 DEF Init, Shapes, CleanupStages, ClientStates
<1>3. Modes /\ HeldAs /\ Held /\ Waiting
  BY DEF Init, Modes, HeldAs, Held, Alive, Waiting, CallStages, Idle, NoCleanup, Cleanups
<1>4. Shown
  BY DEF Init, Shown, SessionsCurrent
<1> QED
  BY <1>2, <1>3, <1>4 DEF SInv

-----------------------------------------------------------------------------
(* Steps of one kind.                                                       *)

LEMMA IdleOp ==
  /\ Idle \in Operation /\ Idle.at = "idle" /\ Idle.client = 0 /\ Idle.session = 0
  BY ConstantsAssumption
     DEF Idle, Operation, Stages, CallStages, Profiles, ConstantsAssumption

\* Waiting for a call on c: the call is under way, or it was refused.
LEMMA AwaitOp ==
  ASSUME NEW o \in Operation, NEW stage \in Stages, NEW c \in Clients
  PROVE  /\ Await(o, stage, c) \in Operation
         /\ \/ Await(o, stage, c) = Idle
            \/ /\ clientState[c] = "open"
               /\ Await(o, stage, c).at = stage /\ Await(o, stage, c).client = c
               /\ Await(o, stage, c).session = o.session
<1>1. CASE clientState[c] = "open"
  <2>1. Await(o, stage, c) = [o EXCEPT !.at = stage, !.client = c]
    BY <1>1 DEF Await
  <2>2. c \in 0..MaxClients
    BY ConstantsAssumption DEF Clients, ConstantsAssumption
  <2> QED BY <1>1, <2>1, <2>2 DEF Operation
<1>2. CASE clientState[c] # "open"
  BY <1>2, IdleOp DEF Await
<1> QED
  BY <1>1, <1>2

\* The running operation goes on or ends; endpoints and clean-ups stay.
LEMMA OpStep ==
  ASSUME SInv,
         UNCHANGED <<closing, clientEpoch, client, cleanup, clientState, epoch, workspaces>>,
         selected' \in Devices \cup {NoDevice},
         session' \in [Profiles -> Nat], owner' \in Seq(Clients),
         op.at \notin {"connect", "release"}, cleanup["disconnect"].at = "done",
         op' \in Operation, op'.at \notin {"connect", "release", "disconnect"},
         Waiting', Shown'
  PROVE  SInv'
<1>1. Shapes'
  BY DEF SInv, Shapes
<1>2. Modes'
  BY DEF SInv, Modes
<1>3. HeldAs'
  BY DEF SInv, HeldAs
<1>4. Held'
  BY DEF SInv, Held, Alive
<1> QED
  BY <1>1, <1>2, <1>3, <1>4 DEF SInv

\* An operation ends.
LEMMA OpEnds ==
  ASSUME SInv,
         UNCHANGED <<closing, clientEpoch, client, session, cleanup, clientState, epoch,
                     workspaces, service>>,
         selected' \in Devices \cup {NoDevice},
         op.at \notin {"connect", "release"}, cleanup["disconnect"].at = "done",
         op' = Idle
  PROVE  SInv'
<1>1. Waiting'
  BY IdleOp DEF Waiting, CallStages
<1>2. Shown'
  BY DEF SInv, Shown, SessionsCurrent, service
<1>3. session' \in [Profiles -> Nat] /\ owner' \in Seq(Clients)
  BY DEF SInv, Shapes, service
<1> QED
  BY <1>1, <1>2, <1>3, IdleOp, OpStep

\* An operation waits for another call on the view's client.
LEMMA OpWaits ==
  ASSUME SInv, NEW o, o \in Operation, o.at \in CallStages,
         UNCHANGED <<closing, clientEpoch, client, session, cleanup, clientState, epoch,
                     workspaces, service>>,
         selected' \in Devices \cup {NoDevice},
         op.at \notin {"connect", "release"}, cleanup["disconnect"].at = "done",
         op' = o, o.client # 0, ~closing => o.client = client,
         o.at \in {"properties", "capabilities", "discard", "remove"} =>
           o.session \in DOMAIN owner /\ owner[o.session] = o.client,
         o.at = "start" => ~closing /\ watcher' \in {"open", "aborted"}
  PROVE  SInv'
<1>1. Waiting'
  BY DEF Waiting, CallStages, service
<1>2. Shown'
  BY DEF SInv, Shown, SessionsCurrent, service
<1>3. session' \in [Profiles -> Nat] /\ owner' \in Seq(Clients)
  BY DEF SInv, Shapes, service
<1> QED
  BY <1>1, <1>2, <1>3, OpStep DEF CallStages

\* Sessions come and go at the service, clients lose it.
LEMMA ServiceOnly ==
  ASSUME SInv,
         UNCHANGED <<closing, clientEpoch, selected, client, op, watcher, cleanup,
                     clientState, epoch, workspaces, owner>>,
         session' \in [Profiles -> Nat],
         ~closing => \A p \in Profiles :
           session'[p] # 0 =>
             /\ session'[p] = session[p]
             /\ session[p] \in live => \/ session[p] \in live' \cup notices'
                                       \/ owner[session[p]] \in lost'
             /\ session[p] \in notices => session[p] \in notices'
             /\ owner[session[p]] \in lost => owner[session[p]] \in lost'
  PROVE  SInv'
<1>1. Shapes' /\ Modes' /\ HeldAs' /\ Held' /\ Waiting'
  BY DEF SInv, Shapes, Modes, HeldAs, Held, Alive, Waiting
<1>2. Shown'
  BY DEF SInv, Shown, SessionsCurrent
<1> QED
  BY <1>1, <1>2 DEF SInv

\* With no endpoint of the view and none handed over, none is alive.
LEMMA NoneAlive ==
  ASSUME SInv, ~closing, client = 0, cleanup["disconnect"].at = "done",
         op.at \notin {"connect", "release"}
  PROVE  \A c \in Clients : ~Alive(c)
<1>1. \A k \in Cleanups : cleanup[k].client = 0
  BY DEF SInv, Modes, Cleanups
<1> QED
  BY <1>1, ConstantsAssumption DEF SInv, Held, Clients, ConstantsAssumption

\* _ensureClient up to its first await, with what calls it.
LEMMA EnsureStep ==
  ASSUME SInv, ~closing, op.at \notin {"connect", "release"},
         cleanup["disconnect"].at = "done",
         NEW o \in Operation, NEW d \in Devices \cup {NoDevice}, EnsureClient(o, d),
         selected' \in Devices \cup {NoDevice},
         UNCHANGED <<closing, clientEpoch, client, session, watcher, cleanup, epoch,
                     service>>
  PROVE  SInv'
<1>a. /\ client # 0 => client \in Clients
      /\ clientState \in [Clients -> ClientStates] /\ workspaces \subseteq Clients
  BY DEF SInv, Shapes, Clients
<1>1. CASE client # 0 /\ WithClient(o, client) /\ UNCHANGED <<clientState, workspaces>>
  <2>1. op' = Idle \/ op' = Await(o, "create", client) \/ op' = Await(o, "call", client)
    BY <1>1 DEF WithClient, Operation
  <2>2. CASE op' = Idle
    BY <1>1, <2>2, OpEnds
  <2>3. ASSUME NEW stage \in {"create", "call"}, op' = Await(o, stage, client), op' # Idle
        PROVE  SInv'
    <3>0. stage \in Stages /\ client \in Clients
      BY <1>a, <1>1 DEF Stages, CallStages
    <3>1. op' \in Operation /\ op'.at = stage /\ op'.client = client
      BY <2>3, <3>0, AwaitOp
    <3> QED BY <1>1, <3>1, OpWaits DEF CallStages
  <2> QED BY <2>1, <2>2, <2>3
<1>2. CASE client = 0 /\ op' = Idle /\ UNCHANGED <<clientState, workspaces>>
  BY <1>2, OpEnds
<1>3. CASE /\ client = 0 /\ NextClient \in Clients
           /\ op' = [o EXCEPT !.at = "connect", !.client = NextClient]
           /\ clientState' = [clientState EXCEPT ![NextClient] = "connecting"]
           /\ workspaces' = workspaces \cup {NextClient}
  <2> DEFINE n == NextClient
  <2> HIDE DEF n
  <2>0. n \in Clients /\ n \in 0..MaxClients /\ n # 0
    BY <1>3, ConstantsAssumption DEF n, Clients, ConstantsAssumption
  <2>1. op' \in Operation /\ op'.at = "connect" /\ op'.client = n
    BY <1>3, <2>0 DEF Operation, Stages, n
  <2>2. /\ clientState' \in [Clients -> ClientStates] /\ clientState'[n] = "connecting"
        /\ \A c \in Clients \ {n} : clientState'[c] = clientState[c]
        /\ workspaces' = workspaces \cup {n}
    BY <1>3, <1>a DEF ClientStates, n
  <2>3. \A c \in Clients : ~Alive(c)
    BY <1>3, NoneAlive
  <2>4. \A k \in Cleanups : cleanup[k].client = 0
    BY <1>3 DEF SInv, Modes, Cleanups
  <2>5. Shapes'
    BY <2>0, <2>1, <2>2 DEF SInv, Shapes, service
  <2>6. Modes'
    BY <1>3, <2>1, <2>4 DEF SInv, Modes, Cleanups
  <2>7. HeldAs'
    BY <1>3, <2>0, <2>1, <2>2, <2>4 DEF SInv, HeldAs
  <2>8. Held'
    BY <2>0, <2>1, <2>2, <2>3 DEF Held, Alive
  <2>9. Waiting'
    BY <2>1 DEF Waiting, CallStages
  <2>10. Shown'
    BY <1>3 DEF SInv, Shown, SessionsCurrent, service
  <2> QED BY <2>5, <2>6, <2>7, <2>8, <2>9, <2>10 DEF SInv
<1> QED
  BY <1>1, <1>2, <1>3 DEF EnsureClient

\* _disconnect up to its first await.
LEMMA DisconnectStep ==
  ASSUME SInv, ~closing, op.at \notin {"connect", "release", "disconnect"},
         NEW d \in Devices \cup {NoDevice}, Disconnect(d)
  PROVE  SInv'
<1> DEFINE r == [at |-> "watchers", client |-> client,
                 sessions |-> SessionsForCleanup, removed |-> 0]
<1>1. /\ cleanup' = [cleanup EXCEPT !["disconnect"] = r]
      /\ clientEpoch' = clientEpoch + 1 /\ client' = 0
      /\ session' = [p \in Profiles |-> 0]
      /\ op' = [Idle EXCEPT !.at = "disconnect", !.device = d]
      /\ UNCHANGED <<closing, selected, watcher, clientState, epoch, workspaces,
                     owner, live, notices, lost>>
  BY DEF Disconnect, Takeover, world, service
<1>2. /\ r.at = "watchers" /\ r.client = client
      /\ DOMAIN r = {"at", "client", "sessions", "removed"}
  OBVIOUS
<1> HIDE DEF r
<1>3. op' \in Operation /\ op'.at = "disconnect"
  BY <1>1, IdleOp DEF Operation, Stages
<1>4. /\ cleanup["disconnect"].at = "done" /\ cleanup["dispose"].at = "done"
      /\ cleanup["disconnect"].client = 0 /\ cleanup["dispose"].client = 0
  BY DEF SInv, Modes, Cleanups
<1>5. /\ DOMAIN cleanup' = Cleanups /\ cleanup'["disconnect"] = r
      /\ cleanup'["dispose"] = cleanup["dispose"]
  BY <1>1 DEF SInv, Shapes, Cleanups
<1>6. Shapes'
  <2>1. client \in 0..MaxClients /\ 0 \in 0..MaxClients
    BY ConstantsAssumption DEF SInv, Shapes, ConstantsAssumption
  <2> QED BY <1>1, <1>2, <1>3, <1>5, <2>1 DEF SInv, Shapes, Cleanups, CleanupStages
<1>7. Modes'
  BY <1>1, <1>2, <1>3, <1>4, <1>5 DEF SInv, Modes, Cleanups
<1>8. HeldAs'
  BY <1>1, <1>2, <1>3, <1>4, <1>5 DEF SInv, HeldAs, Cleanups
<1>9. Held'
  <2>1. ASSUME NEW c \in Clients, Alive(c)
        PROVE  c \in workspaces /\ client = c
    BY <1>4, <2>1, ConstantsAssumption
       DEF SInv, Held, Cleanups, Clients, ConstantsAssumption
  <2> QED BY <1>1, <1>2, <1>5, <2>1 DEF Held, Alive, Cleanups
<1>10. Waiting'
  BY <1>3 DEF Waiting, CallStages
<1>11. Shown'
  BY <1>1 DEF Shown, SessionsCurrent
<1> QED
  BY <1>6, <1>7, <1>8, <1>9, <1>10, <1>11 DEF SInv

\* A call or a transfer on a session of the view's client.
LEMMA UseStep ==
  ASSUME SInv, ~closing, client # 0, op.at \notin {"connect", "release", "disconnect"},
         NEW o \in Operation, NEW s \in DOMAIN owner, owner[s] = client, Use(o, s),
         UNCHANGED <<closing, clientEpoch, selected, client, cleanup, clientState, epoch,
                     workspaces, service>>,
         session' \in [Profiles -> Nat],
         \A p \in Profiles : session'[p] = session[p] \/ session'[p] = s,
         s \in live \/ session' = session
  PROVE  SInv'
<1> DEFINE q == [o EXCEPT !.session = s]
<1>1. q \in Operation /\ client \in Clients /\ owner \in Seq(Clients)
  <2>1. s \in Nat /\ client \in Clients /\ owner \in Seq(Clients)
    BY DEF SInv, Shapes, Clients
  <2>2. q \in Operation
    BY <2>1 DEF Operation
  <2> QED BY <2>1, <2>2
<1> HIDE DEF q
<1>u. \/ op' = Await(q, "call", client)
      \/ op' = Await(q, "start", client) /\ watcher' = "open"
  BY DEF Use, q
<1>v. "call" \in Stages /\ "start" \in Stages
  BY DEF Stages, CallStages
<1>2. \/ op' = Idle
      \/ op'.at \in {"call", "start"} /\ op'.client = client
         /\ (op'.at = "start" => watcher' = "open")
  BY <1>1, <1>u, <1>v, AwaitOp
<1>3. op' \in Operation
  BY <1>1, <1>u, <1>v, AwaitOp
<1>4. Shown'
  <2>1. \A p \in Profiles : session'[p] # 0 =>
          /\ session'[p] \in DOMAIN owner /\ owner[session'[p]] = client
          /\ \/ session'[p] \in live \/ session'[p] \in notices
             \/ owner[session'[p]] \in lost
    BY DEF SInv, Shown, SessionsCurrent
  <2>2. epoch[client] = clientEpoch
    BY DEF SInv, Shown
  <2> QED BY <2>1, <2>2 DEF Shown, SessionsCurrent, service
<1>5. Waiting'
  BY <1>2, IdleOp DEF Waiting, CallStages, service
<1>6. cleanup["disconnect"].at = "done"
  BY DEF SInv, Modes
<1>7. op'.at \notin {"connect", "release", "disconnect"}
  BY <1>2, IdleOp
<1>8. selected' \in Devices \cup {NoDevice} /\ owner' \in Seq(Clients)
  BY DEF SInv, Shapes, service
<1> QED
  BY <1>3, <1>4, <1>5, <1>6, <1>7, <1>8, OpStep

-----------------------------------------------------------------------------
(* Every step keeps the invariant.                                          *)

\* What the operations begin with.
LEMMA StartSteps ==
  ASSUME SInv, Start
  PROVE  SInv'
<1>a. /\ op.at = "idle" /\ ~closing /\ cleanup["disconnect"].at = "done"
      /\ selected \in Devices \cup {NoDevice} /\ session \in [Profiles -> Nat]
      /\ owner \in Seq(Clients) /\ client \in 0..MaxClients
  BY DEF Start, Refresh, UseClient, UseMessage, SelectDevice, UseProfile, CloseProfile,
         MayRun, SInv, Modes, Shapes
<1>b. client # 0 => client \in Clients
  BY <1>a DEF Clients
<1>c. \A p \in Profiles : session[p] # 0 =>
        session[p] \in DOMAIN owner /\ owner[session[p]] = client /\ client # 0
  <2>1. \A i \in DOMAIN owner : owner[i] # 0
    BY <1>a, ConstantsAssumption DEF Clients, ConstantsAssumption
  <2> QED BY <1>a, <2>1 DEF SInv, Shown, SessionsCurrent
<1>1. CASE Refresh
  <2>1. op' = [Idle EXCEPT !.at = "discover"] /\ UNCHANGED <<view, cleanup, world, service>>
    BY <1>1 DEF Refresh
  <2>2. op' \in Operation /\ op'.at = "discover"
    BY <2>1, IdleOp DEF Operation, Stages
  <2>3. Waiting'
    BY <2>2 DEF Waiting, CallStages
  <2>4. Shown'
    BY <2>1 DEF SInv, Shown, SessionsCurrent, view, world, service
  <2> QED BY <1>a, <2>1, <2>2, <2>3, <2>4, OpStep DEF view, world, service
<1>2. ASSUME NEW d \in Devices, SelectDevice(d)
      PROVE  SInv'
  BY <1>a, <1>2, DisconnectStep DEF SelectDevice
<1>3. ASSUME NEW p \in Profiles, UseProfile(p)
      PROVE  SInv'
  <2>1. CASE session[p] # 0 /\ Use([Idle EXCEPT !.profile = p], session[p])
             /\ UNCHANGED <<clientState, workspaces>>
    <3>1. [Idle EXCEPT !.profile = p] \in Operation
      BY IdleOp DEF Operation
    <3>2. /\ UNCHANGED <<closing, clientEpoch, selected, client, cleanup, clientState,
                         epoch, workspaces, service>>
          /\ session' = session
      BY <1>3, <2>1 DEF UseProfile
    <3> QED BY <1>a, <1>c, <2>1, <3>1, <3>2, UseStep
  <2>2. CASE EnsureClient([Idle EXCEPT !.then = "session", !.profile = p], selected)
             /\ UNCHANGED watcher
    <3>1. [Idle EXCEPT !.then = "session", !.profile = p] \in Operation
      BY IdleOp DEF Operation
    <3>2. UNCHANGED <<closing, clientEpoch, selected, client, session, watcher, cleanup,
                      epoch, service>>
      BY <1>3, <2>2 DEF UseProfile
    <3> QED BY <1>a, <2>2, <3>1, <3>2, EnsureStep
  <2> QED BY <1>3, <2>1, <2>2 DEF UseProfile
<1>4. CASE UseClient
  <2>1. [Idle EXCEPT !.then = "call"] \in Operation
    BY IdleOp DEF Operation
  <2>2. /\ EnsureClient([Idle EXCEPT !.then = "call"], selected)
        /\ UNCHANGED <<closing, clientEpoch, selected, client, session, watcher, cleanup,
                       epoch, service>>
    BY <1>4 DEF UseClient, view
  <2> QED BY <1>a, <2>1, <2>2, EnsureStep
<1>5. CASE UseMessage
  <2>1. /\ client \in Clients
        /\ UNCHANGED <<closing, clientEpoch, selected, client, session, cleanup,
                       clientState, epoch, workspaces, service>>
        /\ \/ op' = Await(Idle, "call", client)
           \/ op' = Await(Idle, "start", client) /\ watcher' = "open"
    BY <1>5, <1>b DEF UseMessage, world
  <2>2. "call" \in Stages /\ "start" \in Stages
    BY DEF Stages, CallStages
  <2>3. /\ op' \in Operation
        /\ op' = Idle \/ (op'.at \in {"call", "start"} /\ op'.client = client)
    BY <2>1, <2>2, IdleOp, AwaitOp
  <2>4. op'.at = "start" => watcher' = "open"
    BY <2>1, <2>2, IdleOp, AwaitOp
  <2>5. CASE op' = Idle
    BY <1>a, <2>1, <2>5, OpEnds
  <2>6. CASE op'.at \in {"call", "start"} /\ op'.client = client
    <3>1. op'.at \in CallStages /\ client # 0
      BY <2>6, <1>5 DEF CallStages, UseMessage
    <3> QED BY <1>a, <2>1, <2>3, <2>4, <2>6, <3>1, OpWaits
  <2> QED BY <2>3, <2>5, <2>6
<1>6. ASSUME NEW p \in Profiles, CloseProfile(p)
      PROVE  SInv'
  <2> DEFINE o == [Idle EXCEPT !.profile = p, !.session = session[p]]
  <2>1. /\ session[p] # 0 /\ op' = Await(o, "remove", owner[session[p]])
        /\ UNCHANGED <<view, cleanup, world, service>>
    BY <1>6 DEF CloseProfile
  <2>2. o \in Operation /\ o.session = session[p]
    BY <1>a, IdleOp DEF Operation
  <2> HIDE DEF o
  <2>3. "remove" \in Stages /\ owner[session[p]] = client /\ client \in Clients /\ client # 0
        /\ session[p] \in DOMAIN owner
    BY <1>b, <1>c, <2>1 DEF Stages, CallStages
  <2>4. op' \in Operation /\
        \/ op' = Idle
        \/ op'.at = "remove" /\ op'.client = client /\ op'.session = session[p]
    BY <2>1, <2>2, <2>3, AwaitOp
  <2>5. CASE op' = Idle
    BY <1>a, <2>1, <2>5, OpEnds DEF view, world
  <2>6. CASE op'.at = "remove" /\ op'.client = client /\ op'.session = session[p]
    <3>1. op'.at \in CallStages
      BY <2>6 DEF CallStages
    <3> QED BY <1>a, <2>1, <2>3, <2>4, <2>6, <3>1, OpWaits DEF view, world
  <2> QED BY <2>4, <2>5, <2>6
<1> QED
  BY <1>1, <1>2, <1>3, <1>4, <1>5, <1>6 DEF Start

\* The steps around a connection being made.
LEMMA ConnectSteps ==
  ASSUME SInv, Connected \/ ConnectFails \/ Released
  PROVE  SInv'
<1> DEFINE c == op.client
<1>a. /\ op.at \in {"connect", "release"} /\ client = 0 /\ c \in Clients /\ c \in 0..MaxClients
      /\ cleanup["disconnect"].at = "done" /\ op \in Operation
      /\ \A k \in Cleanups : cleanup[k].client = 0
      /\ clientState \in [Clients -> ClientStates] /\ c # 0
  BY ConstantsAssumption
     DEF Connected, ConnectFails, Released, SInv, Modes, HeldAs, Shapes, Cleanups,
         Clients, ConstantsAssumption
<1>b. \A x \in Clients \ {c} : ~Alive(x)
  BY <1>a, ConstantsAssumption DEF SInv, Held, Clients, ConstantsAssumption
<1>c. ~closing => \A p \in Profiles : session[p] = 0
  <2>1. \A i \in DOMAIN owner : owner[i] # 0
    BY ConstantsAssumption DEF SInv, Shapes, Clients, ConstantsAssumption
  <2> QED BY <1>a, <2>1 DEF SInv, Shown, SessionsCurrent
<1>1. CASE Connected /\ closing
  <2>1. /\ clientState' = [clientState EXCEPT ![c] = "disposing"]
        /\ op' = [op EXCEPT !.at = "release"] /\ op.at = "connect"
        /\ UNCHANGED <<closing, clientEpoch, selected, client, session, watcher, cleanup,
                       epoch, workspaces, owner, live, notices, lost>>
    BY <1>1 DEF Connected, service
  <2>2. op' \in Operation /\ op'.at = "release" /\ op'.client = c
    BY <1>a, <2>1 DEF Operation, Stages
  <2> HIDE DEF c
  <2>3. /\ clientState' \in [Clients -> ClientStates] /\ clientState'[c] = "disposing"
        /\ \A x \in Clients \ {c} : clientState'[x] = clientState[x]
    BY <1>a, <2>1 DEF ClientStates
  <2>4. c \in workspaces
    BY <1>a, <2>1 DEF SInv, Held, HeldAs, Alive, c
  <2>5. Shapes'
    BY <2>1, <2>2, <2>3 DEF SInv, Shapes
  <2>6. Modes'
    BY <1>a, <1>1, <2>1, <2>2 DEF SInv, Modes, Cleanups
  <2>7. HeldAs'
    BY <1>a, <2>1, <2>2, <2>3 DEF HeldAs
  <2>8. Held'
    BY <1>b, <2>1, <2>2, <2>3, <2>4 DEF Held, Alive
  <2>9. Waiting'
    BY <2>2 DEF Waiting, CallStages
  <2>10. Shown'
    BY <1>1, <2>1 DEF Shown, SessionsCurrent
  <2> QED BY <2>5, <2>6, <2>7, <2>8, <2>9, <2>10 DEF SInv
<1>2. CASE Connected /\ ~closing
  <2>1. /\ client' = c /\ clientEpoch' = clientEpoch + 1
        /\ epoch' = [epoch EXCEPT ![c] = clientEpoch + 1]
        /\ clientState' = [clientState EXCEPT ![c] = "open"]
        /\ op' = IF op.then = "nothing" THEN Idle
                 ELSE [op EXCEPT !.at = IF op.then = "session" THEN "create" ELSE "call"]
        /\ op.at = "connect"
        /\ UNCHANGED <<closing, selected, session, watcher, cleanup, workspaces, owner,
                       live, notices, lost>>
    BY <1>2 DEF Connected, service
  <2>2. /\ op' \in Operation
        /\ op' = Idle \/ (op'.at \in {"create", "call"} /\ op'.client = c)
    BY <1>a, <2>1, IdleOp DEF Operation, Stages, CallStages
  <2> HIDE DEF c
  <2>3. /\ clientState' \in [Clients -> ClientStates] /\ clientState'[c] = "open"
        /\ \A x \in Clients \ {c} : clientState'[x] = clientState[x]
        /\ clientEpoch' \in Nat /\ epoch' \in [Clients -> Nat]
        /\ epoch'[c] = clientEpoch'
    BY <1>a, <2>1 DEF ClientStates, SInv, Shapes
  <2>4. c \in workspaces
    BY <1>a, <2>1 DEF SInv, Held, HeldAs, Alive, c
  <2>5. Shapes'
    BY <1>a, <2>1, <2>2, <2>3 DEF SInv, Shapes
  <2>6. Modes'
    BY <1>a, <1>2, <2>1, <2>2, IdleOp DEF SInv, Modes, Cleanups
  <2>7. HeldAs'
    BY <1>a, <2>1, <2>2, <2>3, IdleOp DEF HeldAs
  <2>8. Held'
    BY <1>b, <2>1, <2>3, <2>4 DEF Held, Alive
  <2>9. Waiting'
    BY <1>a, <1>2, <2>1, <2>2, IdleOp DEF Waiting, CallStages
  <2>10. Shown'
    BY <1>2, <1>c, <2>1, <2>3 DEF Shown, SessionsCurrent
  <2> QED BY <2>5, <2>6, <2>7, <2>8, <2>9, <2>10 DEF SInv
<1>3. CASE ConnectFails \/ Released
  <2>1. /\ clientState' = [clientState EXCEPT ![c] = "disposed"]
        /\ workspaces' = workspaces \ {c} /\ op' = Idle
        /\ UNCHANGED <<closing, clientEpoch, selected, client, session, watcher, cleanup,
                       epoch, owner, live, notices, lost>>
    BY <1>3 DEF ConnectFails, Released, view, service
  <2> HIDE DEF c
  <2>3. /\ clientState' \in [Clients -> ClientStates] /\ clientState'[c] = "disposed"
        /\ \A x \in Clients \ {c} : clientState'[x] = clientState[x]
    BY <1>a, <2>1 DEF ClientStates
  <2>5. Shapes'
    BY <2>1, <2>3, IdleOp DEF SInv, Shapes
  <2>6. Modes'
    BY <1>a, <2>1, IdleOp DEF SInv, Modes, Cleanups
  <2>7. HeldAs'
    BY <1>a, <2>1, IdleOp DEF HeldAs
  <2>8. Held'
    BY <1>b, <2>3 DEF Held, Alive
  <2>9. Waiting'
    BY <2>1, IdleOp DEF Waiting, CallStages
  <2>10. Shown'
    BY <2>1 DEF SInv, Shown, SessionsCurrent
  <2> QED BY <2>5, <2>6, <2>7, <2>8, <2>9, <2>10 DEF SInv
<1> QED
  BY <1>1, <1>2, <1>3

\* What the operations go on with.
LEMMA ContinueSteps ==
  ASSUME SInv, Continue, ~(Connected \/ ConnectFails \/ Released)
  PROVE  SInv'
<1>a. /\ selected \in Devices \cup {NoDevice} /\ session \in [Profiles -> Nat]
      /\ owner \in Seq(Clients) /\ op \in Operation
  BY DEF SInv, Shapes
<1>b. op.at \notin {"connect", "release", "disconnect"} => cleanup["disconnect"].at = "done"
  BY DEF SInv, Modes
<1>c. op.at \in CallStages \cup {"wait"} =>
        /\ op.client # 0 /\ op.client \in Clients /\ (~closing => op.client = client)
        /\ op.at \notin {"connect", "release", "disconnect"}
  BY <1>a DEF SInv, Waiting, Operation, Clients, CallStages
<1>d. op.at \in {"properties", "capabilities", "discard", "remove"} =>
        op.session \in DOMAIN owner /\ owner[op.session] = op.client /\ op.session # 0
  <2>1. 0 \notin DOMAIN owner
    BY <1>a
  <2> QED BY <2>1 DEF SInv, Waiting
<1>1. ASSUME NEW found \in SUBSET Devices, Discovered(found)
      PROVE  SInv'
  <2>1. CASE op' = Idle /\ UNCHANGED <<closing, clientEpoch, client, session, cleanup,
               clientState, epoch, workspaces, service>>
             /\ selected' = selected
    BY <1>a, <1>b, <1>1, <2>1, OpEnds DEF Discovered
  <2>2. ASSUME NEW d \in Devices \cup {NoDevice}, ~closing, Disconnect(d)
        PROVE  SInv'
    BY <1>1, <2>2, DisconnectStep DEF Discovered
  <2>3. ASSUME NEW d \in Devices \cup {NoDevice}, ~closing, EnsureClient(Idle, d),
               UNCHANGED <<view, cleanup, epoch, subscriptions, service>>
        PROVE  SInv'
    BY <1>a, <1>b, <1>1, <2>3, IdleOp, EnsureStep DEF Discovered, view
  <2>4. \A d : d \in (IF selected \in found THEN {selected}
                      ELSE IF found = {} THEN {NoDevice} ELSE found)
               => d \in Devices \cup {NoDevice}
    BY <1>a
  <2> QED BY <1>1, <2>1, <2>2, <2>3, <2>4 DEF Discovered, view, world
<1>2. CASE DiscoveryFails
  BY <1>a, <1>b, <1>2, OpEnds DEF DiscoveryFails, view, world
<1>3. CASE Disconnected
  <2>1. /\ op.at = "disconnect" /\ cleanup["disconnect"].at = "done"
        /\ op.device \in Devices \cup {NoDevice}
        /\ UNCHANGED <<closing, clientEpoch, client, session, watcher, cleanup, epoch, service>>
    BY <1>a, <1>3 DEF Disconnected, Operation
  <2>2. CASE op' = Idle /\ selected' \in Devices \cup {NoDevice}
             /\ UNCHANGED <<clientState, workspaces>>
    BY <2>1, <2>2, OpEnds
  <2>3. CASE ~closing /\ selected' = op.device /\ EnsureClient(Idle, op.device)
    BY <2>1, <2>3, IdleOp, EnsureStep
  <2> QED BY <1>a, <1>3, <2>1, <2>2, <2>3 DEF Disconnected
<1>4. CASE Created
  <2> DEFINE n == Len(owner) + 1
             o == [op EXCEPT !.session = n]
  <2>1. /\ op.at = "create" /\ owner' = Append(owner, op.client) /\ live' = live \cup {n}
        /\ op' = Await(o, "properties", op.client)
        /\ UNCHANGED <<closing, clientEpoch, selected, client, session, watcher, cleanup,
                       clientState, epoch, workspaces, notices, lost>>
    BY <1>4 DEF Created, view, world
  <2>2. op.client \in Clients /\ op.client # 0 /\ (~closing => op.client = client)
        /\ cleanup["disconnect"].at = "done"
    BY <1>b, <1>c, <2>1 DEF CallStages
  <2>3. n \in Nat /\ o \in Operation /\ o.session = n
    BY <1>a DEF Operation
  <2>4. /\ owner' \in Seq(Clients) /\ n \in DOMAIN owner' /\ owner'[n] = op.client
        /\ \A i \in DOMAIN owner : i \in DOMAIN owner' /\ owner'[i] = owner[i]
    BY <1>a, <2>1, <2>2
  <2> HIDE DEF n, o
  <2>5. /\ op' \in Operation
        /\ \/ op' = Idle
           \/ op'.at = "properties" /\ op'.client = op.client /\ op'.session = n
    <3>1. "properties" \in Stages
      BY DEF Stages, CallStages
    <3> QED BY <2>1, <2>2, <2>3, <3>1, AwaitOp
  <2>6. Waiting'
    BY <2>1, <2>2, <2>4, <2>5, IdleOp DEF Waiting, CallStages
  <2>7. Shown'
    BY <2>1, <2>4 DEF SInv, Shown, SessionsCurrent
  <2>8. op'.at \notin {"connect", "release", "disconnect"}
    BY <2>5, IdleOp
  <2> QED BY <1>a, <2>1, <2>2, <2>4, <2>5, <2>6, <2>7, <2>8, OpStep
<1>5. ASSUME NEW stage \in {"capabilities", "discard"},
             op.at \in {"properties", "capabilities"}, op' = Await(op, stage, op.client),
             UNCHANGED <<closing, clientEpoch, selected, client, session, cleanup,
                         clientState, epoch, workspaces, service>>
      PROVE  SInv'
  <2>1. /\ op.client \in Clients /\ op.client # 0 /\ (~closing => op.client = client)
        /\ cleanup["disconnect"].at = "done" /\ op.at \notin {"connect", "release"}
    BY <1>b, <1>c, <1>5 DEF CallStages
  <2>2. stage \in Stages /\ stage \in CallStages
    BY DEF Stages, CallStages
  <2>3. /\ op' \in Operation
        /\ \/ op' = Idle
           \/ op'.at = stage /\ op'.client = op.client /\ op'.session = op.session
    BY <1>a, <1>5, <2>1, <2>2, AwaitOp
  <2>4. CASE op' = Idle
    BY <1>a, <1>5, <2>1, <2>4, OpEnds
  <2>5. CASE op'.at = stage /\ op'.client = op.client /\ op'.session = op.session
    <3>1. op.session \in DOMAIN owner /\ owner[op.session] = op.client
      BY <1>d, <1>5
    <3>2. op'.at # "start"
      BY <2>5
    <3> QED BY <1>a, <1>5, <2>1, <2>2, <2>3, <2>5, <3>1, <3>2, OpWaits
  <2> QED BY <2>3, <2>4, <2>5
<1>6. CASE PropertiesRead
  BY <1>5, <1>6 DEF PropertiesRead, view, world
<1>7. CASE CapabilitiesRead
  <2>1. CASE closing
    BY <1>5, <1>7, <2>1 DEF CapabilitiesRead, world
  <2>2. CASE ~closing
    <3>1. /\ op.at = "capabilities" /\ op.session \in live
          /\ session' = [session EXCEPT ![op.profile] = op.session]
          /\ Use(op, op.session)
          /\ UNCHANGED <<closing, clientEpoch, selected, client, cleanup, clientState,
                         epoch, workspaces, service>>
      BY <1>7, <2>2 DEF CapabilitiesRead, Reaches, world
    <3>2. /\ op.session \in DOMAIN owner /\ owner[op.session] = client /\ client # 0
          /\ op.at \notin {"connect", "release", "disconnect"}
      BY <1>c, <1>d, <2>2, <3>1 DEF CallStages
    <3>3. /\ session' \in [Profiles -> Nat]
          /\ \A p \in Profiles : session'[p] = session[p] \/ session'[p] = op.session
      BY <1>a, <3>1 DEF Operation
    <3> QED BY <1>a, <2>2, <3>1, <3>2, <3>3, UseStep
  <2> QED BY <2>1, <2>2
<1>8. CASE Discarded \/ Removed
  <2>1. /\ op.at \in {"discard", "remove"} /\ op' = Idle
        /\ live' = live \ {op.session} /\ notices' = notices \cup {op.session}
        /\ \/ session' = session
           \/ ~closing /\ session' = [session EXCEPT ![op.profile] = 0]
        /\ UNCHANGED <<closing, clientEpoch, selected, client, watcher, cleanup,
                       clientState, epoch, workspaces, owner, lost>>
    BY <1>8 DEF Discarded, Removed, Remove, view, world
  <2>2. cleanup["disconnect"].at = "done" /\ op.at \notin {"connect", "release"}
    BY <1>b, <2>1
  <2>3. session' \in [Profiles -> Nat]
    BY <1>a, <2>1
  <2>4. \A p \in Profiles : session'[p] = session[p] \/ session'[p] = 0
    BY <1>a, <2>1
  <2>5. Shown'
    BY <2>1, <2>4 DEF SInv, Shown, SessionsCurrent
  <2>6. Waiting'
    BY <2>1, IdleOp DEF Waiting, CallStages
  <2> QED BY <1>a, <2>1, <2>2, <2>3, <2>5, <2>6, IdleOp, OpStep
<1>9. CASE Started /\ watcher = "open"
  <2>1. /\ op.at = "start" /\ op' = [op EXCEPT !.at = "wait"] /\ watcher' = watcher
        /\ UNCHANGED <<closing, clientEpoch, selected, client, session, cleanup,
                       clientState, epoch, workspaces, owner, live, notices, lost>>
    BY <1>9 DEF Started, world, service
  <2>2. op' \in Operation /\ op'.at = "wait" /\ op'.client = op.client
    BY <1>a, <2>1 DEF Operation, Stages
  <2>3. Waiting'
    BY <1>9, <2>1, <2>2 DEF SInv, Waiting, CallStages
  <2>4. Shown'
    BY <2>1 DEF SInv, Shown, SessionsCurrent
  <2>5. cleanup["disconnect"].at = "done"
    BY <1>b, <2>1
  <2> QED BY <1>a, <2>1, <2>2, <2>3, <2>4, <2>5, OpStep
<1>10. CASE Called \/ (Started /\ watcher # "open") \/ Waited \/ CallFails
  <2>1. /\ op.at \in CallStages \cup {"wait"} /\ op' = Idle
        /\ UNCHANGED <<closing, clientEpoch, selected, client, session, cleanup,
                       clientState, epoch, workspaces, service>>
    BY <1>10 DEF Called, Started, Waited, CallFails, view, world, CallStages
  <2> QED BY <1>a, <1>b, <1>c, <2>1, OpEnds
<1> QED
  BY <1>1, <1>2, <1>3, <1>4, <1>6, <1>7, <1>8, <1>9, <1>10 DEF Continue

\* A clean-up moves on to another stage, with its client or done with it.
LEMMA GotoEffect ==
  ASSUME SInv, NEW k \in Cleanups, NEW at \in CleanupStages, Goto(k, at)
  PROVE  /\ DOMAIN cleanup' = Cleanups
         /\ cleanup'[k].at = at /\ cleanup'[k].client = cleanup[k].client
         /\ \A j \in Cleanups \ {k} : cleanup'[j] = cleanup[j]
         /\ \A j \in Cleanups : /\ DOMAIN cleanup'[j] = {"at", "client", "sessions", "removed"}
                                /\ cleanup'[j].at \in CleanupStages
                                /\ cleanup'[j].client \in 0..MaxClients
  BY DEF Goto, SInv, Shapes

\* A client handed to a clean-up is neither the view's nor another one's.
LEMMA OneHolder ==
  ASSUME SInv, NEW k \in Cleanups, cleanup[k].client # 0
  PROVE  /\ client = 0 /\ op.at \notin {"connect", "release"}
         /\ cleanup[k].client \in Clients
         /\ \A j \in Cleanups \ {k} : cleanup[j].client = 0
         /\ k = "disconnect" => op.at = "disconnect"
         /\ k = "dispose" => closing
  BY DEF SInv, Modes, Shapes, Cleanups, Clients

LEMMA CleanupSteps ==
  ASSUME SInv, NEW k \in Cleanups, Cleanup(k)
  PROVE  SInv'
<1> DEFINE c == cleanup[k].client
<1>a. c \in 0..MaxClients /\ cleanup[k].at \in CleanupStages /\ cleanup[k].at # "done"
  BY DEF Cleanup, AbortWatchers, CancelSubscription, RemoveSessions, DisposeClient,
         ClientDisposed, DeleteWorkspace, SInv, Shapes
<1>b. UNCHANGED <<closing, clientEpoch, selected, client, session, op, epoch, owner, lost>>
  BY DEF Cleanup, AbortWatchers, CancelSubscription, RemoveSessions, DisposeClient,
         ClientDisposed, DeleteWorkspace, view, world, service
<1>c. ~closing => k = "disconnect" /\ op.at = "disconnect" /\ client = 0
  BY <1>a DEF SInv, Modes, Cleanups
<1>d. ~closing => \A p \in Profiles : session[p] = 0
  <2>1. \A i \in DOMAIN owner : owner[i] # 0
    BY ConstantsAssumption DEF SInv, Shapes, Clients, ConstantsAssumption
  <2> QED BY <1>c, <2>1 DEF SInv, Shown, SessionsCurrent
<1>e. Shown'
  BY <1>b, <1>c, <1>d DEF Shown, SessionsCurrent
<1>f. CleanupStages = {"done", "watchers", "cancel", "remove", "dispose", "disposing", "delete"}
  BY DEF CleanupStages
<1>1. CASE AbortWatchers(k)
  <2> DEFINE at == IF c = 0 THEN "done" ELSE "cancel"
  <2>1. /\ cleanup[k].at = "watchers" /\ Goto(k, at)
        /\ watcher' = IF watcher = "open" THEN "aborted" ELSE watcher
        /\ UNCHANGED <<clientState, workspaces>>
    BY <1>1 DEF AbortWatchers, world
  <2>2. at \in CleanupStages
    BY <1>f
  <2> HIDE DEF at
  <2>3. Shapes'
    BY <1>b, <2>1, <2>2, GotoEffect DEF SInv, Shapes
  <2>4. Modes'
    BY <1>b, <2>1, <2>2, GotoEffect DEF SInv, Modes, Cleanups, at
  <2>5. HeldAs'
    BY <1>b, <2>1, <2>2, GotoEffect DEF SInv, HeldAs, Cleanups, at
  <2>6. Held'
    <3>1. \A j \in Cleanups : cleanup'[j].client = cleanup[j].client
      BY <2>1, <2>2, GotoEffect
    <3> QED BY <1>b, <2>1, <3>1 DEF SInv, Held, Alive
  <2>7. Waiting'
    <3>1. op.at \in {"start", "wait"} =>
            k = "dispose" /\ c # 0 /\ watcher \in {"open", "aborted"}
      BY <1>c, <2>1 DEF SInv, Modes, Waiting, Cleanups, CallStages
    <3>2. op.at \in {"start", "wait"} => at = "cancel" /\ watcher' = "aborted"
      BY <2>1, <3>1 DEF at
    <3> QED BY <1>b, <2>1, <2>2, <3>1, <3>2, GotoEffect DEF SInv, Waiting, Cleanups
  <2> QED BY <1>e, <2>3, <2>4, <2>5, <2>6, <2>7 DEF SInv
<1>2. CASE CancelSubscription(k)
  <2>1. /\ cleanup[k].at = "cancel" /\ Goto(k, "remove")
        /\ UNCHANGED <<watcher, clientState, workspaces>>
    BY <1>2 DEF CancelSubscription, view
  <2>2. "remove" \in CleanupStages
    BY <1>f
  <2>3. Shapes'
    BY <1>b, <2>1, <2>2, GotoEffect DEF SInv, Shapes
  <2>4. Modes'
    BY <1>b, <2>1, <2>2, GotoEffect DEF SInv, Modes, Cleanups
  <2>5. HeldAs'
    BY <1>b, <2>1, <2>2, GotoEffect DEF SInv, HeldAs, Cleanups
  <2>6. Held'
    <3>1. \A j \in Cleanups : cleanup'[j].client = cleanup[j].client
      BY <2>1, <2>2, GotoEffect
    <3> QED BY <1>b, <2>1, <3>1 DEF SInv, Held, Alive
  <2>7. Waiting'
    BY <1>b, <2>1, <2>2, GotoEffect DEF SInv, Waiting, Cleanups
  <2> QED BY <1>e, <2>3, <2>4, <2>5, <2>6, <2>7 DEF SInv
<1>3. CASE RemoveSessions(k)
  <2>1. /\ cleanup' = [cleanup EXCEPT ![k].removed = @ + 1]
        /\ UNCHANGED <<watcher, clientState, workspaces>>
    BY <1>3 DEF RemoveSessions, view, world
  <2>2. /\ DOMAIN cleanup' = Cleanups
        /\ \A j \in Cleanups :
             /\ cleanup'[j].at = cleanup[j].at /\ cleanup'[j].client = cleanup[j].client
             /\ DOMAIN cleanup'[j] = DOMAIN cleanup[j]
    BY <2>1 DEF SInv, Shapes
  <2>3. Shapes'
    BY <1>b, <2>1, <2>2 DEF SInv, Shapes
  <2>4. Modes' /\ HeldAs' /\ Held'
    BY <1>b, <2>1, <2>2 DEF SInv, Modes, HeldAs, Held, Alive, Cleanups
  <2>5. Waiting'
    BY <1>b, <2>1, <2>2 DEF SInv, Waiting, Cleanups
  <2> QED BY <1>e, <2>3, <2>4, <2>5 DEF SInv
<1>4. CASE DisposeClient(k)
  <2>1. /\ cleanup[k].at = "remove" /\ Goto(k, "disposing")
        /\ clientState' = [clientState EXCEPT ![c] = "disposing"]
        /\ UNCHANGED <<watcher, workspaces>>
    BY <1>4 DEF DisposeClient, view
  <2>2. "disposing" \in CleanupStages
    BY <1>f
  <2>3. c # 0
    BY <2>1 DEF SInv, Modes
  <2>4. /\ client = 0 /\ op.at \notin {"connect", "release"} /\ c \in Clients
        /\ \A j \in Cleanups \ {k} : cleanup[j].client = 0
    BY <2>3, OneHolder
  <2>5. clientState[c] = "open"
    BY <2>1, <2>3 DEF SInv, HeldAs
  <2>6. /\ cleanup'[k].at = "disposing" /\ cleanup'[k].client = c
        /\ \A j \in Cleanups \ {k} : cleanup'[j] = cleanup[j]
    BY <2>1, <2>2, GotoEffect
  <2> HIDE DEF c
  <2>7. /\ clientState' \in [Clients -> ClientStates] /\ clientState'[c] = "disposing"
        /\ \A x \in Clients \ {c} : clientState'[x] = clientState[x]
    BY <2>1, <2>4 DEF SInv, Shapes, ClientStates
  <2>8. Shapes'
    BY <1>b, <2>1, <2>2, <2>7, GotoEffect DEF SInv, Shapes
  <2>9. Modes'
    BY <1>b, <2>1, <2>2, <2>3, <2>6, GotoEffect DEF SInv, Modes, Cleanups
  <2>10. HeldAs'
    BY <1>b, <2>4, <2>6, <2>7 DEF HeldAs
  <2>11. Held'
    <3>1. \A j \in Cleanups : cleanup'[j].client = cleanup[j].client
      BY <2>6 DEF c
    <3>2. \A x \in Clients : Alive(x)' => Alive(x)
      BY <2>5, <2>7 DEF Alive
    <3> QED BY <1>b, <2>1, <3>1, <3>2 DEF SInv, Held
  <2>12. Waiting'
    BY <1>b, <2>1, <2>6 DEF SInv, Waiting, Cleanups, c
  <2> QED BY <1>e, <2>8, <2>9, <2>10, <2>11, <2>12 DEF SInv
<1>5. CASE ClientDisposed(k)
  <2>1. /\ cleanup[k].at = "disposing" /\ Goto(k, "delete") /\ Drained(c)
        /\ clientState' = [clientState EXCEPT ![c] = "disposed"]
        /\ UNCHANGED <<watcher, workspaces>>
    BY <1>5 DEF ClientDisposed, view
  <2>2. "delete" \in CleanupStages
    BY <1>f
  <2>3. c # 0
    BY <2>1 DEF SInv, Modes
  <2>4. /\ client = 0 /\ op.at \notin {"connect", "release"} /\ c \in Clients
        /\ \A j \in Cleanups \ {k} : cleanup[j].client = 0
    BY <2>3, OneHolder
  <2>5. /\ cleanup'[k].at = "delete" /\ cleanup'[k].client = c
        /\ \A j \in Cleanups \ {k} : cleanup'[j] = cleanup[j]
    BY <2>1, <2>2, GotoEffect
  <2>6. op.at \in {"start", "wait"} => k # "dispose"
    BY <1>c, <2>1 DEF SInv, Waiting, Drained, CallStages
  <2> HIDE DEF c
  <2>7. /\ clientState' \in [Clients -> ClientStates] /\ clientState'[c] = "disposed"
        /\ \A x \in Clients \ {c} : clientState'[x] = clientState[x]
    BY <2>1, <2>4 DEF SInv, Shapes, ClientStates
  <2>8. Shapes'
    BY <1>b, <2>1, <2>2, <2>7, GotoEffect DEF SInv, Shapes
  <2>9. Modes'
    BY <1>b, <2>1, <2>2, <2>3, <2>5, GotoEffect DEF SInv, Modes, Cleanups
  <2>10. HeldAs'
    BY <1>b, <2>4, <2>5, <2>7 DEF HeldAs
  <2>11. Held'
    <3>1. \A j \in Cleanups : cleanup'[j].client = cleanup[j].client
      BY <2>5 DEF c
    <3>2. \A x \in Clients : Alive(x)' => Alive(x)
      BY <2>7 DEF Alive
    <3> QED BY <1>b, <2>1, <3>1, <3>2 DEF SInv, Held
  <2>12. Waiting'
    BY <1>b, <2>1, <2>5, <2>6 DEF SInv, Waiting, Cleanups
  <2> QED BY <1>e, <2>8, <2>9, <2>10, <2>11, <2>12 DEF SInv
<1>6. CASE DeleteWorkspace(k)
  <2>1. /\ cleanup[k].at = "delete" /\ cleanup' = [cleanup EXCEPT ![k] = NoCleanup]
        /\ workspaces' = workspaces \ {c}
        /\ UNCHANGED <<watcher, clientState>>
    BY <1>6 DEF DeleteWorkspace, view
  <2>2. /\ NoCleanup.at = "done" /\ NoCleanup.client = 0
        /\ DOMAIN NoCleanup = {"at", "client", "sessions", "removed"}
    BY DEF NoCleanup
  <2>3. /\ DOMAIN cleanup' = Cleanups /\ cleanup'[k] = NoCleanup
        /\ \A j \in Cleanups \ {k} : cleanup'[j] = cleanup[j]
    BY <2>1 DEF SInv, Shapes
  <2>4. c # 0 /\ clientState[c] = "disposed"
    BY <2>1 DEF SInv, Modes, HeldAs
  <2>5. op.at \in {"start", "wait"} => k # "dispose"
    BY <1>c, <2>1 DEF SInv, Waiting
  <2> HIDE DEF NoCleanup
  <2>6. Shapes'
    BY <1>b, <1>f, <2>1, <2>2, <2>3, ConstantsAssumption
       DEF SInv, Shapes, ConstantsAssumption
  <2>7. Modes'
    BY <1>b, <2>2, <2>3 DEF SInv, Modes, Cleanups
  <2>8. HeldAs'
    BY <1>b, <2>1, <2>2, <2>3 DEF SInv, HeldAs
  <2>9. Held'
    <3>1. \A x \in Clients : Alive(x)' => Alive(x) /\ x # c
      BY <2>1, <2>4 DEF Alive
    <3> QED BY <1>b, <2>1, <2>3, <3>1 DEF SInv, Held
  <2>10. Waiting'
    BY <1>b, <2>1, <2>3, <2>5 DEF SInv, Waiting, Cleanups
  <2> QED BY <1>e, <2>6, <2>7, <2>8, <2>9, <2>10 DEF SInv
<1> QED
  BY <1>1, <1>2, <1>3, <1>4, <1>5, <1>6 DEF Cleanup

\* dispose() of the view, whatever runs.
LEMMA CloseStep ==
  ASSUME SInv, Close
  PROVE  SInv'
<1> DEFINE r == [at |-> "watchers", client |-> client,
                 sessions |-> SessionsForCleanup, removed |-> 0]
<1>1. /\ ~closing /\ closing' = TRUE
      /\ cleanup' = [cleanup EXCEPT !["dispose"] = r]
      /\ clientEpoch' = clientEpoch + 1 /\ client' = 0
      /\ UNCHANGED <<selected, session, op, watcher, clientState, epoch, workspaces,
                     owner>>
  BY DEF Close, Takeover, world, service
<1>2. /\ r.at = "watchers" /\ r.client = client
      /\ DOMAIN r = {"at", "client", "sessions", "removed"}
  OBVIOUS
<1> HIDE DEF r
<1>3. cleanup["dispose"].at = "done" /\ cleanup["dispose"].client = 0
  BY <1>1 DEF SInv, Modes, Cleanups
<1>4. /\ DOMAIN cleanup' = Cleanups /\ cleanup'["dispose"] = r
      /\ cleanup'["disconnect"] = cleanup["disconnect"]
  BY <1>1 DEF SInv, Shapes, Cleanups
<1>5. Shapes'
  <2>1. client \in 0..MaxClients /\ 0 \in 0..MaxClients
    BY ConstantsAssumption DEF SInv, Shapes, ConstantsAssumption
  <2> QED BY <1>1, <1>2, <1>4, <2>1 DEF SInv, Shapes, Cleanups, CleanupStages
<1>6. Modes'
  BY <1>1, <1>2, <1>3, <1>4 DEF SInv, Modes, Cleanups
<1>7. HeldAs'
  BY <1>1, <1>2, <1>4 DEF SInv, HeldAs, Cleanups
<1>8. Held'
  <2>1. ASSUME NEW x \in Clients, Alive(x)
        PROVE  /\ x \in workspaces
               /\ \/ client = x
                  \/ op.at \in {"connect", "release"} /\ op.client = x
                  \/ cleanup["disconnect"].client = x
    BY <1>3, <2>1, ConstantsAssumption
       DEF SInv, Held, Cleanups, Clients, ConstantsAssumption
  <2> QED BY <1>1, <1>2, <1>4, <2>1 DEF Held, Alive, Cleanups
<1>9. Waiting'
  BY <1>1, <1>2, <1>4 DEF SInv, Waiting, CallStages
<1>10. Shown'
  BY <1>1 DEF Shown, SessionsCurrent
<1> QED
  BY <1>5, <1>6, <1>7, <1>8, <1>9, <1>10 DEF SInv

\* Sessions end, clients lose the service, the view is told.
LEMMA EnvironmentSteps ==
  ASSUME SInv, Environment
  PROVE  SInv'
<1>a. session \in [Profiles -> Nat]
  BY DEF SInv, Shapes
<1>1. ASSUME NEW s \in DOMAIN owner, SessionRemoved(s)
      PROVE  SInv'
  <2>1. /\ notices' = notices \ {s}
        /\ session' = [p \in Profiles |->
             IF Heard(owner[s]) /\ session[p] = s THEN 0 ELSE session[p]]
        /\ UNCHANGED <<closing, clientEpoch, selected, client, op, watcher, cleanup,
                       clientState, epoch, workspaces, owner, live, lost>>
    BY <1>1 DEF SessionRemoved, world
  <2>2. session' \in [Profiles -> Nat]
    BY <1>a, <2>1
  <2>3. ASSUME NEW p \in Profiles, ~closing, session'[p] # 0
        PROVE  session'[p] = session[p] /\ session[p] # s
    <3>1. session[p] = s => Heard(owner[s])
      <4>1. SUFFICES ASSUME session[p] = s PROVE Heard(owner[s])
        OBVIOUS
      <4>2. session[p] # 0
        BY <2>1, <2>3
      <4>3. owner[s] = client /\ owner[s] # 0
        BY <2>3, <4>1, <4>2, ConstantsAssumption
           DEF SInv, Shown, SessionsCurrent, Shapes, Clients, ConstantsAssumption
      <4> QED BY <2>3, <4>3 DEF SInv, Shown, Heard
    <3> QED BY <2>1, <2>3, <3>1
  <2> QED BY <2>1, <2>2, <2>3, ServiceOnly
<1>2. ASSUME NEW s \in DOMAIN owner, SessionEnds(s)
      PROVE  SInv'
  BY <1>a, <1>2, ServiceOnly DEF SessionEnds, Remove, view, world
<1>3. ASSUME NEW c \in Clients, StreamDone(c)
      PROVE  SInv'
  BY <1>a, <1>3, ServiceOnly DEF StreamDone, view
<1>4. ASSUME NEW c \in Clients, ServiceLost(c)
      PROVE  SInv'
  BY <1>a, <1>4, ServiceOnly DEF ServiceLost, view, world
<1> QED
  BY <1>1, <1>2, <1>3, <1>4 DEF Environment

LEMMA Inductive == Spec => []SInv
<1>1. SInv /\ [Next]_vars => SInv'
  <2> SUFFICES ASSUME SInv, [Next]_vars PROVE SInv'
    OBVIOUS
  <2>1. CASE UNCHANGED vars
    BY <2>1 DEF vars, view, world, service, SInv, Shapes, Modes, HeldAs, Held, Alive,
                Waiting, Shown, SessionsCurrent
  <2> QED
    BY <2>1, StartSteps, ConnectSteps, ContinueSteps, CleanupSteps, CloseStep,
       EnvironmentSteps DEF Next
<1> QED
  BY SInvInit, <1>1, PTL DEF Spec

-----------------------------------------------------------------------------
(* The theorems.                                                            *)

\* However devices are switched, connections fail and the view closes, at most
\* one client is being connected, open or being disposed of.
THEOREM OneEndpointHolds == Spec => []OneEndpoint
<1>1. SInv => OneEndpoint
  <2> SUFFICES ASSUME SInv PROVE OneEndpoint
    OBVIOUS
  <2> DEFINE S == {c \in Clients : Alive(c)}
  <2>1. \A c, d \in S : c = d
    BY DEF SInv, Held, Modes, Cleanups, Clients
  <2>2. Cardinality(S) <= 1
    <3>1. CASE S = {}
      BY <3>1, FS_EmptySet
    <3>2. CASE S # {}
      <4> HIDE DEF S
      <4>1. PICK c \in S : TRUE
        BY <3>2
      <4>2. S = {c}
        BY <2>1, <4>1
      <4>3. Cardinality({c}) = 1
        BY FS_Singleton
      <4> QED BY <4>2, <4>3
    <3> QED BY <3>1, <3>2
  <2> QED BY <2>2 DEF OneEndpoint, Alive
<1> QED
  BY <1>1, Inductive, PTL

\* What the view shows as a session is one of its client and is there, or the
\* news of its end is under way.
THEOREM SessionsCurrentHolds == Spec => []SessionsCurrent
<1>1. SInv => SessionsCurrent
  BY DEF SInv, Shown
<1> QED
  BY <1>1, Inductive, PTL

\* A directory outlives its client and the transfers that write to it.
THEOREM WorkspaceOutlivesUseHolds == Spec => []WorkspaceOutlivesUse
<1>1. SInv => WorkspaceOutlivesUse
  <2> SUFFICES ASSUME SInv PROVE WorkspaceOutlivesUse
    OBVIOUS
  <2>1. \A c \in Clients : Alive(c) => c \in workspaces
    BY DEF SInv, Held
  <2>2. ASSUME op.at \in {"start", "wait"} PROVE op.client \in workspaces
    <3>1. op.client \in Clients
      BY <2>2 DEF SInv, Shapes, Operation, Waiting, Clients, CallStages
    <3>2. Alive(op.client)
      <4>1. CASE closing
        BY <2>2, <4>1 DEF SInv, Waiting, HeldAs, Alive, CallStages, Cleanups
      <4>2. CASE ~closing
        BY <2>2, <4>2 DEF SInv, Waiting, HeldAs, Alive, CallStages
      <4> QED BY <4>1, <4>2
    <3> QED BY <2>1, <3>1, <3>2
  <2> QED BY <2>1, <2>2 DEF WorkspaceOutlivesUse, Alive
<1> QED
  BY <1>1, Inductive, PTL

=============================================================================

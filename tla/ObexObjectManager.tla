------------------------- MODULE ObexObjectManager -------------------------
(***************************************************************************)
(* The native object cache of one client (native/src/                      *)
(* obex_object_manager.cpp): it follows the objects of the org.bluez.obex  *)
(* service through D-Bus signals and posts what it learns to a Dart port.  *)
(*                                                                         *)
(* Actors: the service (it creates, removes and changes objects, and may   *)
(* leave the bus), the D-Bus queue of the connection (first in, first      *)
(* out), and one native thread.  That thread is the creator of the client  *)
(* until initial discovery is done and the event loop thread afterwards;   *)
(* the second starts only when the first has finished, so the handlers     *)
(* never overlap.  A handler is a loop that locks, changes the cache,      *)
(* unlocks and posts: one iteration is one step here.                      *)
(*                                                                         *)
(* The cache is the pair known/cached: cached[o] is meaningful for o in    *)
(* known only.  told, shown and ended are what a listener that has read    *)
(* everything posted so far knows; out is what the last step posted.       *)
(***************************************************************************)
EXTENDS Naturals, Sequences

CONSTANTS
  Paths,           \* object paths; the service reuses them
  Interfaces,      \* D-Bus interfaces an object may carry
  ObexInterfaces,  \* the ones is_obex_interface accepts
  Keys,            \* properties is_known_property accepts
  Values,          \* well-typed property values
  NoValue,         \* the key is not in the map
  IllTyped,        \* a value has_expected_type refuses
  MaxChanges       \* bound on the number of service steps

ASSUME ConstantsAssumption ==
  /\ ObexInterfaces \subseteq Interfaces
  /\ NoValue \notin Values
  /\ IllTyped \notin Values \cup {NoValue}
  /\ MaxChanges \in Nat

\* Every (path, interface) pair of the service, and those the cache follows.
Remote == Paths \X Interfaces
Object == Paths \X ObexInterfaces

PropertiesMap == [Keys -> Values \cup {NoValue}]
Empty == [k \in Keys |-> NoValue]

VARIABLES
  running,     \* the service owns its bus name
  exists,      \* objects the service has now
  value,       \* and their properties
  queue,       \* signals sent and not yet dispatched on this connection
  changes,     \* service steps so far
  phase,       \* "subscribed", "discovering", "running" or "stopped"
  failed,      \* failed_
  known,       \* keys of interfaces_by_path_
  cached,      \* and its property maps
  adding,      \* loop of on_interfaces_added: interfaces still to do
  fresh,       \* the properties that call was given
  removing,    \* loop of on_interfaces_removed: interfaces still to do
  rereading,   \* PropertiesChanged: invalidated <<object, key>> to read again
  out,         \* events posted by the last step, in order
  told,        \* objects announced and not retired
  shown,       \* the last properties posted for each object
  lost,        \* <<object, key>> whose last read failed with a posted error
  ended        \* the 0xFF sentinel was posted

service == <<running, exists, value, changes>>
handler == <<adding, fresh, removing, rereading>>
cache == <<known, cached>>
listener == <<told, shown, lost, ended>>
vars == <<service, queue, phase, failed, cache, handler, out, listener>>

AddedSignal == [kind : {"added"}, path : Paths, interfaces : SUBSET Interfaces,
                properties : [Interfaces -> PropertiesMap]]
RemovedSignal == [kind : {"removed"}, path : Paths,
                  interfaces : SUBSET Interfaces]
ChangedSignal == [kind : {"changed"}, path : Paths, interface : Interfaces,
                  changed : [Keys -> Values \cup {NoValue, IllTyped}],
                  invalidated : SUBSET Keys]
OwnerSignal == [kind : {"owner"}, replaced : BOOLEAN]
MalformedSignal == [kind : {"malformed"}]
Signal == AddedSignal \cup RemovedSignal \cup ChangedSignal
            \cup OwnerSignal \cup MalformedSignal

Event == [kind : {"added", "removed"}, object : Object]
           \cup [kind : {"properties"}, object : Object, properties : PropertiesMap]
           \cup [kind : {"error", "disconnected", "initialSnapshotComplete", "streamDone"}]

TypeOK ==
  /\ running \in BOOLEAN
  /\ exists \subseteq Remote
  /\ value \in [Remote -> [Keys -> Values]]
  /\ queue \in Seq(Signal)
  /\ changes \in 0..MaxChanges
  /\ phase \in {"subscribed", "discovering", "running", "stopped"}
  /\ failed \in BOOLEAN
  /\ known \subseteq Object
  /\ cached \in [Object -> PropertiesMap]
  /\ adding \subseteq Object
  /\ fresh \in [Object -> PropertiesMap]
  /\ removing \subseteq Object
  /\ rereading \subseteq Object \X Keys
  /\ out \in Seq(Event)
  /\ told \subseteq Object
  /\ shown \in [Object -> PropertiesMap]
  /\ lost \subseteq Object \X Keys
  /\ ended \in BOOLEAN

-----------------------------------------------------------------------------
(* The service and the bus (external: BlueZ obexd and the message bus).     *)

\* Constructor done: handlers registered, nothing cached, whatever exists.
Init ==
  /\ running \in BOOLEAN
  /\ exists \in SUBSET Remote
  /\ running \/ exists = {}
  /\ value \in [Remote -> [Keys -> Values]]
  /\ queue = <<>>
  /\ changes = 0
  /\ phase = "subscribed"
  /\ failed = FALSE
  /\ known = {}
  /\ cached = [o \in Object |-> Empty]
  /\ adding = {}
  /\ fresh = [o \in Object |-> Empty]
  /\ removing = {}
  /\ rereading = {}
  /\ out = <<>>
  /\ told = {}
  /\ shown = [o \in Object |-> Empty]
  /\ lost = {}
  /\ ended = FALSE

Send(signal) ==
  /\ changes < MaxChanges
  /\ changes' = changes + 1
  /\ queue' = Append(queue, signal)
  /\ out' = <<>>
  /\ UNCHANGED <<phase, failed, cache, handler, listener>>

CreateObject(p, interfaces, v) ==
  /\ running
  /\ interfaces # {}
  /\ \A i \in interfaces : <<p, i>> \notin exists
  /\ exists' = exists \cup ({p} \X interfaces)
  /\ UNCHANGED running
  /\ value' = [o \in Remote |->
                 IF o[1] = p /\ o[2] \in interfaces THEN v ELSE value[o]]
  /\ Send([kind |-> "added", path |-> p, interfaces |-> interfaces,
           properties |-> [i \in Interfaces |-> v]])

RemoveObject(p, interfaces) ==
  /\ interfaces # {}
  /\ \A i \in interfaces : <<p, i>> \in exists
  /\ exists' = exists \ ({p} \X interfaces)
  /\ UNCHANGED <<running, value>>
  /\ Send([kind |-> "removed", path |-> p, interfaces |-> interfaces])

\* A key that changes is announced with its value or as invalidated.
ChangeProperties(o, v, announced) ==
  /\ o \in exists
  /\ v # value[o]
  /\ UNCHANGED <<running, exists>>
  /\ value' = [value EXCEPT ![o] = v]
  /\ Send([kind |-> "changed", path |-> o[1], interface |-> o[2],
           changed |-> [k \in Keys |->
             IF v[k] # value[o][k] /\ k \in announced THEN v[k] ELSE NoValue],
           invalidated |-> {k \in Keys : v[k] # value[o][k] /\ k \notin announced}])

\* A signal that cannot be decoded, or whose one value has a wrong type.
EmitNoise(signal) ==
  /\ running
  /\ UNCHANGED <<running, exists, value>>
  /\ Send(signal)

\* The service leaves the bus: no InterfacesRemoved, one NameOwnerChanged.
ServiceExit ==
  /\ running
  /\ running' = FALSE
  /\ exists' = {}
  /\ UNCHANGED value
  /\ Send([kind |-> "owner", replaced |-> TRUE])

\* The service takes the free name, also when a call activates it.
ServiceStart ==
  /\ ~running
  /\ running' = TRUE
  /\ UNCHANGED <<exists, value>>
  /\ Send([kind |-> "owner", replaced |-> FALSE])

Noise == {[kind |-> "malformed"]} \cup
  {[kind |-> "changed", path |-> o[1], interface |-> o[2],
    changed |-> [k \in Keys |-> IllTyped], invalidated |-> {}] : o \in Remote}

Service ==
  \/ \E p \in Paths, interfaces \in SUBSET Interfaces, v \in [Keys -> Values] :
       CreateObject(p, interfaces, v)
  \/ \E p \in Paths, interfaces \in SUBSET Interfaces : RemoveObject(p, interfaces)
  \/ \E o \in Remote, v \in [Keys -> Values], announced \in SUBSET Keys :
       ChangeProperties(o, v, announced)
  \/ \E signal \in Noise : EmitNoise(signal)
  \/ ServiceExit
  \/ ServiceStart

-----------------------------------------------------------------------------
(* Posting: what a step writes to the Dart port, and what a listener knows  *)
(* of it afterwards.                                                        *)

Post(events) == out' = events

Added(o) == [kind |-> "added", object |-> o]
Removed(o) == [kind |-> "removed", object |-> o]
Properties(o, properties) ==
  [kind |-> "properties", object |-> o, properties |-> properties]
Error == [kind |-> "error"]
Disconnected == [kind |-> "disconnected"]
InitialSnapshotComplete == [kind |-> "initialSnapshotComplete"]
StreamDone == [kind |-> "streamDone"]

Quiet == Post(<<>>) /\ UNCHANGED listener

-----------------------------------------------------------------------------
(* The manager.                                                             *)

Idle == adding = {} /\ removing = {} /\ rereading = {}

\* The service answers while the creator waits: later changes are signals.
GetManagedObjects ==
  /\ phase = "subscribed"
  /\ running
  /\ phase' = "discovering"
  /\ adding' = exists \cap Object
  /\ fresh' = [o \in Object |-> IF o \in adding' THEN value[o] ELSE Empty]
  /\ Quiet
  /\ UNCHANGED <<service, queue, failed, cache, removing, rereading>>

\* The call throws: client_create fails and the manager is destroyed.
GetManagedObjectsFails ==
  /\ phase = "subscribed"
  /\ phase' = "stopped"
  /\ Quiet
  /\ UNCHANGED <<service, queue, failed, cache, handler>>

\* Mutated form: the subscriptions are made only after discovery.
FinishDiscovery_LateSubscription ==
  /\ phase = "discovering"
  /\ adding = {}
  /\ phase' = "running"
  /\ queue' = <<>>
  /\ Post(<<InitialSnapshotComplete>>)
  /\ UNCHANGED <<service, failed, cache, handler, listener>>

\* post_sentinel(0x00); the event loop thread starts next.
FinishDiscovery ==
  /\ phase = "discovering"
  /\ adding = {}
  /\ phase' = "running"
  /\ Post(<<InitialSnapshotComplete>>)
  /\ UNCHANGED <<service, queue, failed, cache, handler, listener>>

\* One interface in the loop of on_interfaces_added.
AddInterface(o) ==
  /\ o \in adding
  /\ adding' = adding \ {o}
  /\ fresh' = [fresh EXCEPT ![o] = Empty]
  /\ known' = known \cup {o}
  /\ cached' = [cached EXCEPT ![o] = fresh[o]]
  /\ Post(IF o \in known THEN <<Properties(o, fresh[o])>>
                         ELSE <<Added(o), Properties(o, fresh[o])>>)
  /\ told' = IF o \in known THEN told ELSE told \cup {o}
  /\ shown' = [shown EXCEPT ![o] = fresh[o]]
  /\ lost' = lost \ ({o} \X Keys)
  /\ UNCHANGED <<service, queue, phase, failed, removing, rereading, ended>>

\* Mutated form: the result of erase is not looked at.
RemoveInterface_Unchecked(o) ==
  /\ o \in removing
  /\ removing' = removing \ {o}
  /\ known' = known \ {o}
  /\ cached' = [cached EXCEPT ![o] = Empty]
  /\ Post(<<Removed(o)>>)
  /\ told' = told \ {o}
  /\ shown' = [shown EXCEPT ![o] = Empty]
  /\ lost' = lost \ ({o} \X Keys)
  /\ UNCHANGED <<service, queue, phase, failed, adding, fresh, rereading, ended>>

\* One interface in the loop of on_interfaces_removed.
RemoveInterface(o) ==
  /\ o \in removing
  /\ removing' = removing \ {o}
  /\ known' = known \ {o}
  /\ cached' = [cached EXCEPT ![o] = Empty]
  /\ Post(IF o \in known THEN <<Removed(o)>> ELSE <<>>)
  /\ told' = IF o \in known THEN told \ {o} ELSE told
  /\ shown' = IF o \in known THEN [shown EXCEPT ![o] = Empty] ELSE shown
  /\ lost' = lost \ ({o} \X Keys)
  /\ UNCHANGED <<service, queue, phase, failed, adding, fresh, rereading, ended>>

\* The event loop takes the next signal when no handler is in progress.
Dispatch(signal) ==
  /\ phase = "running"
  /\ Idle
  /\ queue # <<>>
  /\ signal = Head(queue)
  /\ queue' = Tail(queue)

\* Mutated form: the handler does not look at failed_.
DispatchAdded_Failed ==
  /\ queue # <<>> /\ Head(queue).kind = "added"
  /\ LET signal == Head(queue) IN
       /\ Dispatch(signal)
       /\ adding' = {signal.path} \X (signal.interfaces \cap ObexInterfaces)
       /\ fresh' = [o \in Object |->
            IF o \in adding' THEN signal.properties[o[2]] ELSE Empty]
  /\ Quiet
  /\ UNCHANGED <<service, phase, failed, cache, removing, rereading>>

DispatchAdded ==
  /\ queue # <<>> /\ Head(queue).kind = "added"
  /\ LET signal == Head(queue) IN
       /\ Dispatch(signal)
       /\ ~failed
       /\ adding' = {signal.path} \X (signal.interfaces \cap ObexInterfaces)
       /\ fresh' = [o \in Object |->
            IF o \in adding' THEN signal.properties[o[2]] ELSE Empty]
  /\ Quiet
  /\ UNCHANGED <<service, phase, failed, cache, removing, rereading>>

DispatchRemoved ==
  /\ queue # <<>> /\ Head(queue).kind = "removed"
  /\ LET signal == Head(queue) IN
       /\ Dispatch(signal)
       /\ ~failed
       /\ removing' = {signal.path} \X (signal.interfaces \cap ObexInterfaces)
  /\ Quiet
  /\ UNCHANGED <<service, phase, failed, cache, adding, fresh, rereading>>

\* Mutated form: the value's type is not looked at.
WellTyped_AnyType(changed) == {k \in Keys : changed[k] # NoValue}

WellTyped(changed) == {k \in Keys : changed[k] \in Values}

\* Mutated form: an invalidated key keeps its value until it is read again.
Merge_KeepStale(properties, signal) ==
  [k \in Keys |-> IF k \in WellTyped(signal.changed) THEN signal.changed[k]
                  ELSE properties[k]]

\* What the handler leaves in the cached map before any round trip.
Merge(properties, signal) ==
  [k \in Keys |-> IF k \in signal.invalidated THEN NoValue
                  ELSE IF k \in WellTyped(signal.changed) THEN signal.changed[k]
                  ELSE properties[k]]

\* Mutated form: the lookup in interfaces_by_path_ is dropped.
Effective_AnyObject(signal) ==
  /\ signal.interface \in ObexInterfaces
  /\ WellTyped(signal.changed) \cup signal.invalidated # {}

Effective(signal) ==
  /\ <<signal.path, signal.interface>> \in known
  /\ WellTyped(signal.changed) \cup signal.invalidated # {}

DispatchChanged ==
  /\ queue # <<>> /\ Head(queue).kind = "changed"
  /\ LET signal == Head(queue)
         o == <<signal.path, signal.interface>>
     IN
       /\ Dispatch(signal)
       /\ ~failed
       /\ Effective(signal)
       /\ cached' = [cached EXCEPT ![o] = Merge(@, signal)]
       /\ rereading' = {o} \X signal.invalidated
       /\ Post(<<Properties(o, cached'[o])>>)
       /\ shown' = [shown EXCEPT ![o] = cached'[o]]
       /\ lost' = lost \ ({o} \X (WellTyped(signal.changed) \cup signal.invalidated))
  /\ UNCHANGED <<service, phase, failed, known, adding, fresh, removing, told,
                 ended>>

\* Early returns: failed, undecodable, uncached object, nothing changed.
DispatchIgnored ==
  /\ queue # <<>>
  /\ LET signal == Head(queue) IN
       /\ Dispatch(signal)
       /\ \/ signal.kind = "malformed"
          \/ signal.kind = "owner" /\ (failed \/ ~signal.replaced)
          \/ signal.kind \in {"added", "removed"} /\ failed
          \/ signal.kind = "changed" /\ (failed \/ ~Effective(signal))
  /\ Quiet
  /\ UNCHANGED <<service, phase, failed, cache, handler>>

\* Mutated form: the value read again is stored but not posted.
Reread_NotPosted(o, k) ==
  /\ <<o, k>> \in rereading
  /\ o \in exists
  /\ o \in known
  /\ rereading' = rereading \ {<<o, k>>}
  /\ cached' = [cached EXCEPT ![o][k] = value[o][k]]
  /\ Quiet
  /\ UNCHANGED <<service, queue, phase, failed, known, adding, fresh, removing>>

\* The blocking getProperty of one invalidated key, answered by the service.
\* Signals it sent before its answer stay in the queue behind the answer.
Reread(o, k) ==
  /\ <<o, k>> \in rereading
  /\ o \in exists
  /\ o \in known
  /\ rereading' = rereading \ {<<o, k>>}
  /\ cached' = [cached EXCEPT ![o][k] = value[o][k]]
  /\ Post(<<Properties(o, cached'[o])>>)
  /\ shown' = [shown EXCEPT ![o] = cached'[o]]
  /\ lost' = lost \ {<<o, k>>}
  /\ UNCHANGED <<service, queue, phase, failed, known, adding, fresh, removing,
                 told, ended>>

\* UnknownObject or UnknownInterface: skipped without a word.
RereadUnknown(o, k) ==
  /\ <<o, k>> \in rereading
  /\ running
  /\ o \notin exists
  /\ rereading' = rereading \ {<<o, k>>}
  /\ Quiet
  /\ UNCHANGED <<service, queue, phase, failed, cache, adding, fresh, removing>>

\* Mutated form: the first key that cannot be read ends the loop.
RereadFails_LeavesLoop(o, k) ==
  /\ <<o, k>> \in rereading
  /\ rereading' = {}
  /\ Post(<<Error>>)
  /\ lost' = lost \cup {<<o, k>>}
  /\ UNCHANGED <<service, queue, phase, failed, cache, adding, fresh, removing,
                 told, shown, ended>>

\* Any other error, a timeout or a missing service among them: post_error.
RereadFails(o, k) ==
  /\ <<o, k>> \in rereading
  /\ rereading' = rereading \ {<<o, k>>}
  /\ Post(<<Error>>)
  /\ lost' = lost \cup {<<o, k>>}
  /\ UNCHANGED <<service, queue, phase, failed, cache, adding, fresh, removing,
                 told, shown, ended>>

\* Mutated form: failed_ is set without looking at its old value.
ConnectionFailed_EveryTime ==
  /\ failed' = TRUE
  /\ known' = {}
  /\ cached' = [o \in Object |-> Empty]
  /\ ended' = TRUE
  /\ Post(<<Disconnected, StreamDone>>)
  /\ UNCHANGED <<told, shown, lost>>

\* connection_failed: the first call empties the cache and ends the stream.
ConnectionFailed ==
  /\ failed' = TRUE
  /\ known' = IF failed THEN known ELSE {}
  /\ ended' = TRUE
  /\ Post(IF failed THEN <<>> ELSE <<Disconnected, StreamDone>>)
  /\ cached' = [o \in Object |-> Empty]
  /\ UNCHANGED <<told, shown, lost>>

DispatchOwnerChanged ==
  /\ queue # <<>> /\ Head(queue).kind = "owner"
  /\ LET signal == Head(queue) IN
       /\ Dispatch(signal)
       /\ ~failed
       /\ signal.replaced
  /\ ConnectionFailed
  /\ UNCHANGED <<service, phase, handler>>

\* enterEventLoop throws, the bus connection is gone: queued signals are lost.
EventLoopFails ==
  /\ phase = "running"
  /\ Idle
  /\ phase' = "stopped"
  /\ queue' = <<>>
  /\ ConnectionFailed
  /\ UNCHANGED <<service, handler>>

\* stop(): leaveEventLoop, then join, which waits for the handler.
Stop ==
  /\ phase = "running"
  /\ Idle
  /\ phase' = "stopped"
  /\ Quiet
  /\ UNCHANGED <<service, queue, failed, cache, handler>>

\* Everything the native thread does by itself, as long as it is let run.
Manager ==
  \/ GetManagedObjects \/ FinishDiscovery
  \/ \E o \in Object : AddInterface(o) \/ RemoveInterface(o)
  \/ DispatchAdded \/ DispatchRemoved \/ DispatchChanged \/ DispatchIgnored
  \/ DispatchOwnerChanged
  \/ \E o \in Object, k \in Keys :
       Reread(o, k) \/ RereadUnknown(o, k) \/ RereadFails(o, k)

Failure == GetManagedObjectsFails \/ EventLoopFails \/ Stop

Next == Service \/ Manager \/ Failure

Spec == Init /\ [][Next]_vars

\* The event loop never sleeps on a signal, and a D-Bus call times out.
FairSpec == Spec /\ WF_vars(Manager)

-----------------------------------------------------------------------------
(* Properties.                                                              *)

\* post_added and post_removed alternate for every object, whatever the
\* order of the snapshot, replayed signals, repeated interfaces and removals
\* (on_interfaces_added tests inserted, on_interfaces_removed tests removed).
AnnouncedOnce ==
  [][\A i \in DOMAIN out' :
       /\ out'[i].kind = "added" => out'[i].object \notin told
       /\ out'[i].kind = "removed" => out'[i].object \in told]_vars

\* A property event is posted only between the announcement of its object
\* and its retirement, a late answer to getProperty included.
PropertiesWithinLifetime ==
  [][\A i \in DOMAIN out' : out'[i].kind = "properties" =>
       \/ out'[i].object \in told
       \/ \E j \in 1..i-1 : out'[j] = Added(out'[i].object)]_vars

\* The sentinel 0xFF comes once, right after the error that explains it, and
\* nothing follows it: neither a signal still queued nor a second failure
\* (owner change, then the event loop's own exception) posts anything.
SilentAfterEnd ==
  [][/\ ended => out' = <<>>
     /\ \A i \in DOMAIN out' : out'[i] = StreamDone =>
          out' = <<Disconnected, StreamDone>>]_vars

\* A listener that applies every event knows the objects of the native cache
\* and their properties exactly, until the stream ends; it ends with failed_.
ListenerMirrorsCache ==
  /\ ended = failed
  /\ ~ended => told = known /\ \A o \in known : shown[o] = cached[o]

\* Once failed_ is set no handler is in progress and none starts, whatever is
\* still queued; initial discovery never runs in a failed manager.
FailureStopsHandlers ==
  /\ failed => Idle
  /\ phase \in {"subscribed", "discovering"} => ~failed

Adds(signal, o) ==
  /\ signal.kind = "added"
  /\ signal.path = o[1]
  /\ o[2] \in signal.interfaces

Removes(signal, o) ==
  \/ signal.kind = "owner" /\ signal.replaced
  \/ /\ signal.kind = "removed"
     /\ signal.path = o[1]
     /\ o[2] \in signal.interfaces

\* Subscribing before GetManagedObjects loses no object: one the service has
\* and the listener lacks is still to be announced, one the listener has and
\* the service lacks is still to be retired (or the stream about to end).
NothingMissed ==
  phase \in {"discovering", "running"} /\ ~failed =>
    \A o \in Object :
      /\ o \in exists \ told => \/ o \in adding
                                \/ \E i \in DOMAIN queue : Adds(queue[i], o)
      /\ o \in told \ exists => \/ o \in removing
                                \/ \E i \in DOMAIN queue : Removes(queue[i], o)

\* What the listener shows is what the service has, except for a key whose
\* last read failed with an error the listener was told.
Current ==
  /\ told = exists \cap Object
  /\ \A o \in told, k \in Keys :
       \/ shown[o][k] = value[o][k]
       \/ <<o, k>> \in lost /\ shown[o][k] = NoValue

\* With no signal left and no handler in progress the picture is current:
\* neither a replayed older signal nor a value read ahead of queued signals
\* survives, and an object that came back has none of its old properties.
CurrentWhenQuiet ==
  phase = "running" /\ ~failed /\ Idle /\ queue = <<>> => Current

\* Once the service rests, the listener's picture becomes current and stays
\* so, unless the stream ended, the client was stopped or nothing ever runs.
EventuallyCurrent ==
  <>[](\/ phase = "stopped" \/ ended \/ Current
       \/ phase = "subscribed" /\ ~running)
=============================================================================

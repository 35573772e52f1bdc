---------------------- MODULE ObexObjectManagerProofs ----------------------
(***************************************************************************)
(* Theorems about the native object cache, for every set of paths,         *)
(* interfaces, keys and values and every number of service steps.          *)
(***************************************************************************)
EXTENDS ObexObjectManager, SequenceTheorems, TLAPS

-----------------------------------------------------------------------------
(* The shapes of signals, events and property maps.                         *)

\* A map with one value replaced is still a map of the same kind.
LEMMA UpdateMap ==
  ASSUME NEW K, NEW V, NEW f \in [K -> V], NEW k \in K, NEW v \in V
  PROVE  [f EXCEPT ![k] = v] \in [K -> V]
  OBVIOUS

\* The empty property map is a property map.
LEMMA EmptyMap == Empty \in PropertiesMap
  BY DEF Empty, PropertiesMap

\* The events a step posts are events, alone or in pairs.
LEMMA EventTypes ==
  /\ <<>> \in Seq(Event)
  /\ \A o \in Object : <<Removed(o)>> \in Seq(Event)
  /\ \A o \in Object, m \in PropertiesMap :
       <<Properties(o, m)>> \in Seq(Event) /\ <<Added(o), Properties(o, m)>> \in Seq(Event)
  /\ <<Error>> \in Seq(Event)
  /\ <<InitialSnapshotComplete>> \in Seq(Event)
  /\ <<Disconnected, StreamDone>> \in Seq(Event)
<1>1. \A o \in Object : Added(o) \in Event /\ Removed(o) \in Event
  BY DEF Added, Removed, Event
<1>2. \A o \in Object, m \in PropertiesMap : Properties(o, m) \in Event
  BY DEF Properties, Event
<1>3. {Error, InitialSnapshotComplete, Disconnected, StreamDone} \subseteq Event
  BY DEF Error, InitialSnapshotComplete, Disconnected, StreamDone, Event
<1> QED
  BY <1>1, <1>2, <1>3

\* What the service sends is a signal.
LEMMA ServiceSendsSignals ==
  ASSUME TypeOK, Service
  PROVE  queue' \in Seq(Signal)
<1>1. ASSUME NEW s \in Signal, Send(s)
      PROVE  queue' \in Seq(Signal)
  BY <1>1 DEF Send, TypeOK
<1>2. ASSUME NEW p \in Paths, NEW interfaces \in SUBSET Interfaces,
             NEW v \in [Keys -> Values], CreateObject(p, interfaces, v)
      PROVE  queue' \in Seq(Signal)
  <2>1. [kind |-> "added", path |-> p, interfaces |-> interfaces,
         properties |-> [i \in Interfaces |-> v]] \in AddedSignal
    BY DEF AddedSignal, PropertiesMap
  <2> QED BY <2>1, <1>2, <1>1 DEF CreateObject, Signal
<1>3. ASSUME NEW p \in Paths, NEW interfaces \in SUBSET Interfaces,
             RemoveObject(p, interfaces)
      PROVE  queue' \in Seq(Signal)
  <2>1. [kind |-> "removed", path |-> p, interfaces |-> interfaces] \in RemovedSignal
    BY DEF RemovedSignal
  <2> QED BY <2>1, <1>3, <1>1 DEF RemoveObject, Signal
<1>4. ASSUME NEW o \in Remote, NEW v \in [Keys -> Values],
             NEW announced \in SUBSET Keys, ChangeProperties(o, v, announced)
      PROVE  queue' \in Seq(Signal)
  <2> DEFINE c == [k \in Keys |->
             IF v[k] # value[o][k] /\ k \in announced THEN v[k] ELSE NoValue]
             d == {k \in Keys : v[k] # value[o][k] /\ k \notin announced}
  <2>1. c \in [Keys -> Values \cup {NoValue, IllTyped}] /\ d \in SUBSET Keys
    OBVIOUS
  <2>2. o[1] \in Paths /\ o[2] \in Interfaces
    BY DEF Remote
  <2> HIDE DEF c, d
  <2>3. [kind |-> "changed", path |-> o[1], interface |-> o[2],
         changed |-> c, invalidated |-> d] \in ChangedSignal
    BY <2>1, <2>2 DEF ChangedSignal
  <2> USE DEF c, d
  <2> QED BY <2>3, <1>4, <1>1 DEF ChangeProperties, Signal
<1>5. ASSUME NEW s \in Noise, EmitNoise(s)
      PROVE  queue' \in Seq(Signal)
  <2>1. CASE s = [kind |-> "malformed"]
    <3>1. s \in MalformedSignal
      BY <2>1 DEF MalformedSignal
    <3> QED BY <3>1, <1>5, <1>1 DEF EmitNoise, Signal
  <2>2. ASSUME NEW o \in Remote,
               s = [kind |-> "changed", path |-> o[1], interface |-> o[2],
                    changed |-> [k \in Keys |-> IllTyped], invalidated |-> {}]
        PROVE  queue' \in Seq(Signal)
    <3>1. o[1] \in Paths /\ o[2] \in Interfaces
      BY DEF Remote
    <3>2. [k \in Keys |-> IllTyped] \in [Keys -> Values \cup {NoValue, IllTyped}]
      OBVIOUS
    <3>3. s \in ChangedSignal
      BY <2>2, <3>1, <3>2 DEF ChangedSignal
    <3> QED BY <3>3, <1>5, <1>1 DEF EmitNoise, Signal
  <2> QED BY <2>1, <2>2, <1>5 DEF Noise
<1>6. ASSUME NEW b \in BOOLEAN, Send([kind |-> "owner", replaced |-> b])
      PROVE  queue' \in Seq(Signal)
  <2>1. [kind |-> "owner", replaced |-> b] \in OwnerSignal
    BY DEF OwnerSignal
  <2> QED BY <2>1, <1>6, <1>1 DEF Signal
<1> QED
  BY <1>2, <1>3, <1>4, <1>5, <1>6 DEF Service, ServiceExit, ServiceStart

-----------------------------------------------------------------------------
(* Type correctness.                                                        *)

\* Taking the next signal leaves a queue of signals, and the signal is one.
LEMMA DispatchTypes ==
  ASSUME TypeOK, queue # <<>>
  PROVE  Head(queue) \in Signal /\ Tail(queue) \in Seq(Signal)
  BY DEF TypeOK

\* A signal has the fields its kind says.
LEMMA SignalFields ==
  ASSUME NEW s \in Signal
  PROVE  /\ s.kind = "added" => s \in AddedSignal
         /\ s.kind = "removed" => s \in RemovedSignal
         /\ s.kind = "changed" => s \in ChangedSignal
         /\ s.kind = "owner" => s \in OwnerSignal
  BY DEF Signal, AddedSignal, RemovedSignal, ChangedSignal, OwnerSignal,
         MalformedSignal

\* The merged map of a PropertiesChanged handler is a property map: a value
\* of another type than the property's never gets into it.
LEMMA MergeType ==
  ASSUME NEW m \in PropertiesMap, NEW s \in ChangedSignal
  PROVE  Merge(m, s) \in PropertiesMap
  BY DEF Merge, WellTyped, PropertiesMap, ChangedSignal

\* A service step changes only the service, its queue and out.
LEMMA ServiceKeepsManager ==
  ASSUME Service
  PROVE  /\ UNCHANGED <<phase, failed, cache, handler, listener>>
         /\ out' = <<>>
  BY DEF Service, CreateObject, RemoveObject, ChangeProperties, EmitNoise,
         ServiceExit, ServiceStart, Send

\* The service keeps its own state well formed.
LEMMA ServiceTypes ==
  ASSUME TypeOK, Service
  PROVE  /\ running' \in BOOLEAN
         /\ exists' \subseteq Remote
         /\ value' \in [Remote -> [Keys -> Values]]
         /\ changes' \in 0..MaxChanges
<1>1. changes' \in 0..MaxChanges
  <2>1. ASSUME NEW s, Send(s) PROVE changes' \in 0..MaxChanges
    BY <2>1, ConstantsAssumption DEF Send, TypeOK, ConstantsAssumption
  <2> QED
    BY <2>1 DEF Service, CreateObject, RemoveObject, ChangeProperties, EmitNoise,
                ServiceExit, ServiceStart
<1>2. ASSUME NEW p \in Paths, NEW interfaces \in SUBSET Interfaces,
             NEW v \in [Keys -> Values], CreateObject(p, interfaces, v)
      PROVE  /\ running' \in BOOLEAN /\ exists' \subseteq Remote
             /\ value' \in [Remote -> [Keys -> Values]]
  BY <1>2 DEF CreateObject, TypeOK, Remote
<1>3. ASSUME NEW p \in Paths, NEW interfaces \in SUBSET Interfaces,
             RemoveObject(p, interfaces)
      PROVE  /\ running' \in BOOLEAN /\ exists' \subseteq Remote
             /\ value' \in [Remote -> [Keys -> Values]]
  BY <1>3 DEF RemoveObject, TypeOK
<1>4. ASSUME NEW o \in Remote, NEW v \in [Keys -> Values],
             NEW announced \in SUBSET Keys, ChangeProperties(o, v, announced)
      PROVE  /\ running' \in BOOLEAN /\ exists' \subseteq Remote
             /\ value' \in [Remote -> [Keys -> Values]]
  BY <1>4 DEF ChangeProperties, TypeOK
<1>5. ASSUME NEW s \in Noise, EmitNoise(s)
      PROVE  /\ running' \in BOOLEAN /\ exists' \subseteq Remote
             /\ value' \in [Remote -> [Keys -> Values]]
  BY <1>5 DEF EmitNoise, TypeOK
<1>6. ASSUME ServiceExit \/ ServiceStart
      PROVE  /\ running' \in BOOLEAN /\ exists' \subseteq Remote
             /\ value' \in [Remote -> [Keys -> Values]]
  BY <1>6 DEF ServiceExit, ServiceStart, TypeOK
<1> QED
  BY <1>1, <1>2, <1>3, <1>4, <1>5, <1>6 DEF Service

\* The objects of the cache are objects of the service's name space.
LEMMA ObjectIsRemote == Object \subseteq Remote
  BY ConstantsAssumption DEF Object, Remote, ConstantsAssumption

\* What the service holds of a followed object is a property map.
LEMMA ValueIsMap ==
  ASSUME TypeOK, NEW o \in Object
  PROVE  value[o] \in PropertiesMap
  BY ObjectIsRemote DEF TypeOK, PropertiesMap

LEMMA TypeInit == Init => TypeOK
<1> SUFFICES ASSUME Init PROVE TypeOK
  OBVIOUS
<1>1. [o \in Object |-> Empty] \in [Object -> PropertiesMap]
  BY EmptyMap
<1>2. queue \in Seq(Signal) /\ out \in Seq(Event)
  BY DEF Init
<1>3. changes \in 0..MaxChanges
  BY ConstantsAssumption DEF Init, ConstantsAssumption
<1>4. /\ cached \in [Object -> PropertiesMap]
      /\ fresh \in [Object -> PropertiesMap]
      /\ shown \in [Object -> PropertiesMap]
  BY <1>1 DEF Init
<1> QED
  BY <1>2, <1>3, <1>4 DEF Init, TypeOK

\* Every step keeps the type invariant.
LEMMA TypeStep == TypeOK /\ [Next]_vars => TypeOK'
<1> SUFFICES ASSUME TypeOK, [Next]_vars PROVE TypeOK'
  OBVIOUS
<1>1. CASE Service
  <2>1. queue' \in Seq(Signal) /\ out' \in Seq(Event)
    BY <1>1, ServiceSendsSignals, ServiceKeepsManager, EventTypes
  <2> QED
    BY <1>1, <2>1, ServiceTypes, ServiceKeepsManager
       DEF TypeOK, cache, handler, listener
<1>2. CASE GetManagedObjects
  <2>1. fresh' \in [Object -> PropertiesMap]
    BY <1>2, ValueIsMap, EmptyMap DEF GetManagedObjects
  <2> QED
    BY <1>2, <2>1, EventTypes
       DEF GetManagedObjects, Quiet, Post, TypeOK, service, cache, listener
<1>3. CASE GetManagedObjectsFails
  BY <1>3, EventTypes
     DEF GetManagedObjectsFails, Quiet, Post, TypeOK, service, cache, handler, listener
<1>4. CASE FinishDiscovery
  BY <1>4, EventTypes
     DEF FinishDiscovery, Post, TypeOK, service, cache, handler, listener
<1>5. ASSUME NEW o \in Object, AddInterface(o)
      PROVE  TypeOK'
  <2>1. fresh[o] \in PropertiesMap
    BY DEF TypeOK
  <2>2. /\ cached' \in [Object -> PropertiesMap]
        /\ shown' \in [Object -> PropertiesMap]
        /\ fresh' \in [Object -> PropertiesMap]
    BY <1>5, <2>1, EmptyMap DEF AddInterface, TypeOK, PropertiesMap
  <2>3. out' \in Seq(Event)
    BY <1>5, <2>1, EventTypes DEF AddInterface, Post
  <2>4. adding' \subseteq Object /\ known' \subseteq Object /\ told' \subseteq Object
    BY <1>5 DEF AddInterface, TypeOK
  <2>5. lost' \subseteq Object \X Keys
    BY <1>5 DEF AddInterface, TypeOK
  <2> QED
    BY <1>5, <2>2, <2>3, <2>4, <2>5 DEF AddInterface, TypeOK, service, PropertiesMap
<1>6. ASSUME NEW o \in Object, RemoveInterface(o)
      PROVE  TypeOK'
  <2>1. /\ cached' \in [Object -> PropertiesMap]
        /\ shown' \in [Object -> PropertiesMap]
    BY <1>6, EmptyMap DEF RemoveInterface, TypeOK, PropertiesMap
  <2>2. out' \in Seq(Event)
    BY <1>6, EventTypes DEF RemoveInterface, Post
  <2>3. removing' \subseteq Object /\ known' \subseteq Object /\ told' \subseteq Object
    BY <1>6 DEF RemoveInterface, TypeOK
  <2>4. lost' \subseteq Object \X Keys
    BY <1>6 DEF RemoveInterface, TypeOK
  <2> QED
    BY <1>6, <2>1, <2>2, <2>3, <2>4
       DEF RemoveInterface, TypeOK, service, PropertiesMap
<1>7. CASE DispatchAdded
  <2> DEFINE s == Head(queue)
  <2>1. s \in AddedSignal /\ Tail(queue) \in Seq(Signal)
    BY <1>7, DispatchTypes, SignalFields DEF DispatchAdded
  <2>2. adding' \subseteq Object
    BY <1>7, <2>1 DEF DispatchAdded, AddedSignal, Object
  <2>3. \A o \in Object : s.properties[o[2]] \in PropertiesMap
    BY <2>1, ConstantsAssumption DEF AddedSignal, Object, ConstantsAssumption
  <2>4. fresh' \in [Object -> PropertiesMap]
    BY <1>7, <2>3, EmptyMap DEF DispatchAdded
  <2> QED
    BY <1>7, <2>1, <2>2, <2>4, EventTypes
       DEF DispatchAdded, Dispatch, Quiet, Post, TypeOK, service, cache, listener
<1>8. CASE DispatchRemoved
  <2>1. Head(queue) \in RemovedSignal /\ Tail(queue) \in Seq(Signal)
    BY <1>8, DispatchTypes, SignalFields DEF DispatchRemoved
  <2>2. removing' \subseteq Object
    BY <1>8, <2>1 DEF DispatchRemoved, RemovedSignal, Object
  <2> QED
    BY <1>8, <2>1, <2>2, EventTypes
       DEF DispatchRemoved, Dispatch, Quiet, Post, TypeOK, service, cache, listener
<1>9. CASE DispatchChanged
  <2> DEFINE s == Head(queue)
             o == <<s.path, s.interface>>
             m == Merge(cached[o], s)
  <2>1. s \in ChangedSignal /\ Tail(queue) \in Seq(Signal)
    BY <1>9, DispatchTypes, SignalFields DEF DispatchChanged
  <2>2. o \in Object
    BY <1>9 DEF DispatchChanged, Effective, TypeOK
  <2>3. m \in PropertiesMap
    BY <2>1, <2>2, MergeType DEF TypeOK, PropertiesMap
  <2>4. cached' = [cached EXCEPT ![o] = m] /\ cached'[o] = m
    BY <1>9, <2>2 DEF DispatchChanged, TypeOK
  <2>5. cached' \in [Object -> PropertiesMap]
    BY <2>2, <2>3, <2>4, UpdateMap DEF TypeOK, PropertiesMap
  <2>6. shown' \in [Object -> PropertiesMap]
    BY <1>9, <2>2, <2>3, <2>4, UpdateMap DEF DispatchChanged, TypeOK
  <2>7. out' \in Seq(Event)
    BY <1>9, <2>2, <2>3, <2>4, EventTypes DEF DispatchChanged, Post
  <2>8. rereading' \subseteq Object \X Keys
    BY <1>9, <2>1, <2>2 DEF DispatchChanged, ChangedSignal
  <2>9. lost' \subseteq Object \X Keys
    BY <1>9 DEF DispatchChanged, TypeOK
  <2>10. queue' \in Seq(Signal)
    BY <1>9, <2>1 DEF DispatchChanged, Dispatch
  <2> QED
    BY <1>9, <2>5, <2>6, <2>7, <2>8, <2>9, <2>10
       DEF DispatchChanged, TypeOK, service, PropertiesMap
<1>10. CASE DispatchIgnored
  BY <1>10, DispatchTypes, EventTypes
     DEF DispatchIgnored, Dispatch, Quiet, Post, TypeOK, service, cache, handler,
         listener
<1>11. CASE DispatchOwnerChanged
  <2>1. [o \in Object |-> Empty] \in [Object -> PropertiesMap]
    BY EmptyMap
  <2>2. out' \in Seq(Event)
    BY <1>11, EventTypes DEF DispatchOwnerChanged, ConnectionFailed, Post
  <2> QED
    BY <1>11, <2>1, <2>2, DispatchTypes
       DEF DispatchOwnerChanged, ConnectionFailed, Dispatch, TypeOK, service,
           handler, PropertiesMap
<1>12. ASSUME NEW o \in Object, NEW k \in Keys, Reread(o, k)
       PROVE  TypeOK'
  <2> DEFINE m == [cached[o] EXCEPT ![k] = value[o][k]]
  <2>1. m \in PropertiesMap
    BY ValueIsMap DEF TypeOK, PropertiesMap
  <2>2. cached' = [cached EXCEPT ![o] = m] /\ cached'[o] = m
    BY <1>12 DEF Reread, TypeOK
  <2>3. cached' \in [Object -> PropertiesMap]
    BY <2>1, <2>2, UpdateMap DEF TypeOK, PropertiesMap
  <2>4. shown' \in [Object -> PropertiesMap]
    BY <1>12, <2>1, <2>2, UpdateMap DEF Reread, TypeOK
  <2>5. out' \in Seq(Event)
    BY <1>12, <2>1, <2>2, EventTypes DEF Reread, Post
  <2>6. rereading' \subseteq Object \X Keys /\ lost' \subseteq Object \X Keys
    BY <1>12 DEF Reread, TypeOK
  <2> QED
    BY <1>12, <2>3, <2>4, <2>5, <2>6 DEF Reread, TypeOK, service, PropertiesMap
<1>13. ASSUME NEW o \in Object, NEW k \in Keys, RereadUnknown(o, k)
       PROVE  TypeOK'
  BY <1>13, EventTypes
     DEF RereadUnknown, Quiet, Post, TypeOK, service, cache, listener
<1>14. ASSUME NEW o \in Object, NEW k \in Keys, RereadFails(o, k)
       PROVE  TypeOK'
  <2>1. lost' \subseteq Object \X Keys /\ rereading' \subseteq Object \X Keys
    BY <1>14 DEF RereadFails, TypeOK
  <2> QED
    BY <1>14, <2>1, EventTypes DEF RereadFails, Post, TypeOK, service, cache
<1>15. CASE EventLoopFails
  <2>1. [o \in Object |-> Empty] \in [Object -> PropertiesMap]
    BY EmptyMap
  <2>2. out' \in Seq(Event)
    BY <1>15, EventTypes DEF EventLoopFails, ConnectionFailed, Post
  <2>3. queue' \in Seq(Signal)
    BY <1>15 DEF EventLoopFails
  <2> QED
    BY <1>15, <2>1, <2>2, <2>3
       DEF EventLoopFails, ConnectionFailed, TypeOK, service, handler, PropertiesMap
<1>16. CASE Stop
  BY <1>16, EventTypes
     DEF Stop, Quiet, Post, TypeOK, service, cache, handler, listener
<1>17. CASE UNCHANGED vars
  BY <1>17 DEF vars, service, cache, handler, listener, TypeOK
<1> QED
  BY <1>1, <1>2, <1>3, <1>4, <1>5, <1>6, <1>7, <1>8, <1>9, <1>10, <1>11, <1>12,
     <1>13, <1>14, <1>15, <1>16, <1>17 DEF Next, Manager, Failure

\* The cache, the handlers' work lists and the posted events stay well formed:
\* above all, no value of a wrong type ever reaches the cache.
THEOREM TypeCorrect == Spec => []TypeOK
<1> QED
  BY TypeInit, TypeStep, PTL DEF Spec

-----------------------------------------------------------------------------
(* The listener's picture and the shape of the event stream.                *)

\* Inductive: what was posted mirrors the cache, and nothing runs on after a
\* failure, which is why nothing can be posted behind the last sentinel.
IInv == TypeOK /\ ListenerMirrorsCache /\ FailureStopsHandlers

LEMMA IInvInit == Init => IInv
<1>1. Init => ListenerMirrorsCache /\ FailureStopsHandlers
  BY DEF Init, ListenerMirrorsCache, FailureStopsHandlers, Idle
<1> QED
  BY <1>1, TypeInit DEF IInv

\* Every step keeps the listener's picture equal to the cache.
LEMMA IInvStep == IInv /\ [Next]_vars => IInv'
<1> SUFFICES ASSUME IInv, [Next]_vars
             PROVE  ListenerMirrorsCache' /\ FailureStopsHandlers'
  BY TypeStep DEF IInv
<1> USE DEF IInv, ListenerMirrorsCache, FailureStopsHandlers
<1>1. CASE Service
  BY <1>1, ServiceKeepsManager DEF cache, handler, listener, Idle
<1>2. CASE GetManagedObjects \/ GetManagedObjectsFails \/ FinishDiscovery
  BY <1>2 DEF GetManagedObjects, GetManagedObjectsFails, FinishDiscovery, Quiet,
              Idle, service, cache, handler, listener
<1>3. ASSUME NEW o \in Object, AddInterface(o)
      PROVE  ListenerMirrorsCache' /\ FailureStopsHandlers'
  <2>1. ~failed /\ told = known /\ \A x \in known : shown[x] = cached[x]
    BY <1>3 DEF AddInterface, Idle
  <2>2. cached'[o] = fresh[o] /\ shown'[o] = fresh[o]
    BY <1>3 DEF AddInterface, TypeOK
  <2>3. \A x \in known \ {o} : cached'[x] = cached[x] /\ shown'[x] = shown[x]
    BY <1>3 DEF AddInterface, TypeOK
  <2>4. told' = known' /\ known' = known \cup {o} /\ ended' = ended /\ failed' = failed
    BY <1>3, <2>1 DEF AddInterface
  <2>5. phase' = phase
    BY <1>3 DEF AddInterface
  <2> QED
    BY <2>1, <2>2, <2>3, <2>4, <2>5
<1>4. ASSUME NEW o \in Object, RemoveInterface(o)
      PROVE  ListenerMirrorsCache' /\ FailureStopsHandlers'
  <2>1. ~failed /\ told = known /\ \A x \in known : shown[x] = cached[x]
    BY <1>4 DEF RemoveInterface, Idle
  <2>2. \A x \in known \ {o} : cached'[x] = cached[x] /\ shown'[x] = shown[x]
    BY <1>4 DEF RemoveInterface, TypeOK
  <2>3. told' = known' /\ known' = known \ {o}
    BY <1>4, <2>1 DEF RemoveInterface
  <2> QED
    BY <1>4, <2>1, <2>2, <2>3 DEF RemoveInterface
<1>5. CASE DispatchAdded \/ DispatchRemoved \/ DispatchIgnored
  BY <1>5 DEF DispatchAdded, DispatchRemoved, DispatchIgnored, Dispatch, Quiet,
              Idle, cache, handler, listener
<1>6. CASE DispatchChanged
  <2> DEFINE s == Head(queue)
             o == <<s.path, s.interface>>
  <2>1. /\ ~failed /\ failed' = failed /\ ended' = ended /\ phase' = phase
        /\ phase = "running" /\ known' = known /\ told' = told
    BY <1>6 DEF DispatchChanged, Dispatch
  <2>2. /\ o \in known
        /\ cached' = [cached EXCEPT ![o] = Merge(@, s)]
        /\ shown' = [shown EXCEPT ![o] = cached'[o]]
    BY <1>6 DEF DispatchChanged, Effective
  <2> HIDE DEF o
  <2>3. \A x \in known : shown'[x] = cached'[x]
    BY <2>1, <2>2 DEF TypeOK
  <2> QED
    BY <2>1, <2>3
<1>7. ASSUME NEW o \in Object, NEW k \in Keys, Reread(o, k)
      PROVE  ListenerMirrorsCache' /\ FailureStopsHandlers'
  <2>1. ~failed /\ told = known /\ \A x \in known : shown[x] = cached[x]
    BY <1>7 DEF Reread, Idle
  <2>2. /\ cached' = [cached EXCEPT ![o][k] = value[o][k]]
        /\ shown' = [shown EXCEPT ![o] = cached'[o]]
    BY <1>7 DEF Reread
  <2>3. \A x \in known : shown'[x] = cached'[x]
    BY <2>1, <2>2 DEF TypeOK
  <2> QED
    BY <1>7, <2>1, <2>3 DEF Reread
<1>8. ASSUME NEW o \in Object, NEW k \in Keys,
             RereadUnknown(o, k) \/ RereadFails(o, k)
      PROVE  ListenerMirrorsCache' /\ FailureStopsHandlers'
  BY <1>8 DEF RereadUnknown, RereadFails, Quiet, Idle, cache, listener
<1>9. CASE DispatchOwnerChanged \/ EventLoopFails
  BY <1>9 DEF DispatchOwnerChanged, EventLoopFails, ConnectionFailed, Dispatch,
              Idle, handler
<1>10. CASE Stop
  BY <1>10 DEF Stop, Quiet, Idle, cache, handler, listener
<1>11. CASE UNCHANGED vars
  BY <1>11 DEF vars, Idle, cache, handler, listener
<1> QED
  BY <1>1, <1>2, <1>3, <1>4, <1>5, <1>6, <1>7, <1>8, <1>9, <1>10, <1>11
     DEF Next, Manager, Failure

LEMMA Inductive == Spec => []IInv
  BY IInvInit, IInvStep, PTL DEF Spec

\* A listener that applies every posted event always knows exactly the native
\* cache, and the final sentinel is posted exactly when failed_ is set.
THEOREM Mirror == Spec => []ListenerMirrorsCache
<1>1. IInv => ListenerMirrorsCache
  BY DEF IInv
<1> QED
  BY <1>1, Inductive, PTL

\* No handler is in progress in a failed manager.
THEOREM FailureIsFinal == Spec => []FailureStopsHandlers
<1>1. IInv => FailureStopsHandlers
  BY DEF IInv
<1> QED
  BY <1>1, Inductive, PTL

-----------------------------------------------------------------------------
(* What a single step may post.                                             *)

\* The events a step can post, each with what justifies it.
PostedEvents ==
  \/ out' = <<>>
  \/ out' = <<Error>> /\ ~ended
  \/ out' = <<InitialSnapshotComplete>> /\ ~ended
  \/ out' = <<Disconnected, StreamDone>> /\ ~ended
  \/ \E o \in Object, m \in PropertiesMap :
       /\ ~ended
       /\ \/ o \notin told /\ out' = <<Added(o), Properties(o, m)>>
          \/ o \in told /\ out' = <<Properties(o, m)>>
          \/ o \in told /\ out' = <<Removed(o)>>

\* Every step posts one of the batches above.
LEMMA StepPosts == IInv /\ Next => PostedEvents
<1> SUFFICES ASSUME IInv, Next PROVE PostedEvents
  OBVIOUS
<1> USE DEF IInv, ListenerMirrorsCache, FailureStopsHandlers
<1>1. CASE Service
  BY <1>1, ServiceKeepsManager DEF PostedEvents
<1>2. CASE \/ GetManagedObjects \/ GetManagedObjectsFails \/ DispatchAdded
           \/ DispatchRemoved \/ DispatchIgnored \/ Stop
  BY <1>2 DEF GetManagedObjects, GetManagedObjectsFails, DispatchAdded,
              DispatchRemoved, DispatchIgnored, Stop, Quiet, Post, PostedEvents
<1>3. CASE FinishDiscovery
  BY <1>3 DEF FinishDiscovery, Post, PostedEvents
<1>4. ASSUME NEW o \in Object, AddInterface(o)
      PROVE  PostedEvents
  <2>1. ~ended /\ told = known /\ fresh[o] \in PropertiesMap
    BY <1>4 DEF AddInterface, Idle, TypeOK
  <2>2. out' = IF o \in known THEN <<Properties(o, fresh[o])>>
                              ELSE <<Added(o), Properties(o, fresh[o])>>
    BY <1>4 DEF AddInterface, Post
  <2> QED BY <2>1, <2>2 DEF PostedEvents
<1>5. ASSUME NEW o \in Object, RemoveInterface(o)
      PROVE  PostedEvents
  <2>1. ~ended /\ told = known
    BY <1>5 DEF RemoveInterface, Idle
  <2>2. out' = IF o \in known THEN <<Removed(o)>> ELSE <<>>
    BY <1>5 DEF RemoveInterface, Post
  <2>3. CASE o \in known
    <3>1. PropertiesMap # {}
      BY EmptyMap
    <3> QED BY <2>1, <2>2, <2>3, <3>1 DEF PostedEvents
  <2>4. CASE o \notin known
    BY <2>2, <2>4 DEF PostedEvents
  <2> QED BY <2>3, <2>4
<1>6. CASE DispatchChanged
  <2> DEFINE o == <<Head(queue).path, Head(queue).interface>>
  <2>1. /\ ~ended /\ told = known /\ o \in known
        /\ out' = <<Properties(o, cached'[o])>>
    BY <1>6 DEF DispatchChanged, Effective, Post
  <2>2. o \in Object
    BY <2>1 DEF TypeOK
  <2>3. cached'[o] \in PropertiesMap
    BY <2>2, TypeStep DEF TypeOK
  <2> HIDE DEF o
  <2> QED BY <2>1, <2>2, <2>3 DEF PostedEvents
<1>7. ASSUME NEW o \in Object, NEW k \in Keys, Reread(o, k)
      PROVE  PostedEvents
  <2>1. /\ ~ended /\ told = known /\ o \in known
        /\ out' = <<Properties(o, cached'[o])>>
    BY <1>7 DEF Reread, Post, Idle
  <2>2. cached'[o] \in PropertiesMap
    BY TypeStep DEF TypeOK
  <2> QED BY <2>1, <2>2 DEF PostedEvents
<1>8. ASSUME NEW o \in Object, NEW k \in Keys, RereadUnknown(o, k) \/ RereadFails(o, k)
      PROVE  PostedEvents
  <2>1. ~ended
    BY <1>8 DEF RereadUnknown, RereadFails, Idle
  <2>2. out' = <<>> \/ out' = <<Error>>
    BY <1>8 DEF RereadUnknown, RereadFails, Quiet, Post
  <2> QED BY <2>1, <2>2 DEF PostedEvents
<1>9. CASE DispatchOwnerChanged \/ EventLoopFails
  BY <1>9 DEF DispatchOwnerChanged, EventLoopFails, ConnectionFailed, Post,
              PostedEvents
<1> QED
  BY <1>1, <1>2, <1>3, <1>4, <1>5, <1>6, <1>7, <1>8, <1>9 DEF Next, Manager, Failure

\* Reading the kinds of a posted batch.
LEMMA Kinds ==
  ASSUME NEW o, NEW m
  PROVE  /\ Added(o).kind = "added" /\ Added(o).object = o
         /\ Removed(o).kind = "removed" /\ Removed(o).object = o
         /\ Properties(o, m).kind = "properties" /\ Properties(o, m).object = o
         /\ Error.kind = "error"
         /\ InitialSnapshotComplete.kind = "initialSnapshotComplete"
         /\ Disconnected.kind = "disconnected"
         /\ StreamDone.kind = "streamDone"
  BY DEF Added, Removed, Properties, Error, InitialSnapshotComplete, Disconnected,
         StreamDone

AnnouncedOnceStep ==
  \A i \in DOMAIN out' :
    /\ out'[i].kind = "added" => out'[i].object \notin told
    /\ out'[i].kind = "removed" => out'[i].object \in told

\* Additions and removals of an object alternate in the posted stream, for
\* every snapshot, replay and repetition of signals.
THEOREM AnnouncedOnceHolds == Spec => AnnouncedOnce
<1>1. IInv /\ Next => AnnouncedOnceStep
  <2> SUFFICES ASSUME PostedEvents PROVE AnnouncedOnceStep
    BY StepPosts
  <2> QED BY Kinds DEF PostedEvents, AnnouncedOnceStep
<1>2. IInv /\ [Next]_vars => [AnnouncedOnceStep]_vars
  BY <1>1
<1>3. Spec => [][AnnouncedOnceStep]_vars
  BY <1>2, Inductive, PTL DEF Spec
<1> QED
  BY <1>3 DEF AnnouncedOnce, AnnouncedOnceStep

WithinLifetimeStep ==
  \A i \in DOMAIN out' : out'[i].kind = "properties" =>
    \/ out'[i].object \in told
    \/ \E j \in 1..i-1 : out'[j] = Added(out'[i].object)

\* Properties are posted only for an object announced and not yet retired.
THEOREM PropertiesWithinLifetimeHolds == Spec => PropertiesWithinLifetime
<1>1. IInv /\ Next => WithinLifetimeStep
  <2> SUFFICES ASSUME PostedEvents PROVE WithinLifetimeStep
    BY StepPosts
  <2> QED BY Kinds DEF PostedEvents, WithinLifetimeStep
<1>2. IInv /\ [Next]_vars => [WithinLifetimeStep]_vars
  BY <1>1
<1>3. Spec => [][WithinLifetimeStep]_vars
  BY <1>2, Inductive, PTL DEF Spec
<1> QED
  BY <1>3 DEF PropertiesWithinLifetime, WithinLifetimeStep

SilentAfterEndStep ==
  /\ ended => out' = <<>>
  /\ \A i \in DOMAIN out' : out'[i] = StreamDone => out' = <<Disconnected, StreamDone>>

\* The stream ends once, with an error and the sentinel, and stays silent.
THEOREM SilentAfterEndHolds == Spec => SilentAfterEnd
<1>1. IInv /\ Next => SilentAfterEndStep
  <2> SUFFICES ASSUME PostedEvents PROVE SilentAfterEndStep
    BY StepPosts
  <2>1. ended => out' = <<>>
    BY DEF PostedEvents
  <2>2. \A i \in DOMAIN out' : out'[i] = StreamDone => out' = <<Disconnected, StreamDone>>
    BY Kinds DEF PostedEvents
  <2> QED BY <2>1, <2>2 DEF SilentAfterEndStep
<1>2. IInv /\ [Next]_vars => [SilentAfterEndStep]_vars
  BY <1>1
<1>3. Spec => [][SilentAfterEndStep]_vars
  BY <1>2, Inductive, PTL DEF Spec
<1> QED
  BY <1>3 DEF SilentAfterEnd, SilentAfterEndStep

-----------------------------------------------------------------------------
(***************************************************************************)
(* The native cache against the service: what the two disagree about is    *)
(* always explained by a signal still queued, a handler in progress or a   *)
(* read that failed.                                                       *)
(***************************************************************************)

(* Queues whose last word on a matter is known.  A signal of B has a say in *)
(* it, a signal of G says what is true.                                     *)

\* No signal of the queue has a say in the matter.
Clear(q, B) == \A i \in DOMAIN q : q[i] \notin B

\* A signal of the queue tells the truth and no later one has a say.
Settles(q, G, B) ==
  \E i \in DOMAIN q : q[i] \in G /\ \A j \in DOMAIN q : j > i => q[j] \notin B

\* Positions of a queue with one more signal at its end.
LEMMA Appended ==
  ASSUME NEW q \in Seq(Signal), NEW s \in Signal
  PROVE  /\ DOMAIN Append(q, s) = DOMAIN q \cup {Len(q) + 1}
         /\ DOMAIN q = 1..Len(q) /\ Len(q) \in Nat
         /\ Append(q, s)[Len(q) + 1] = s
         /\ \A i \in DOMAIN q : Append(q, s)[i] = q[i]
  OBVIOUS

\* Positions of a queue whose first signal was taken.
LEMMA Taken ==
  ASSUME NEW q \in Seq(Signal), q # <<>>
  PROVE  /\ Len(Tail(q)) = Len(q) - 1 /\ Len(q) \in Nat \ {0}
         /\ DOMAIN q = 1..Len(q) /\ DOMAIN Tail(q) = 1..(Len(q) - 1)
         /\ Head(q) = q[1]
         /\ \A i \in 1..(Len(q) - 1) : Tail(q)[i] = q[i + 1]
  OBVIOUS

\* A signal with no say in the matter changes nothing about it.
LEMMA AppendOther ==
  ASSUME NEW q \in Seq(Signal), NEW s \in Signal, NEW G, NEW B, s \notin B
  PROVE  /\ Settles(q, G, B) => Settles(Append(q, s), G, B)
         /\ Clear(q, B) => Clear(Append(q, s), B)
  BY Appended DEF Settles, Clear

\* A new signal that tells the truth is the last word.
LEMMA AppendTruth ==
  ASSUME NEW q \in Seq(Signal), NEW s \in Signal, NEW G, NEW B, s \in G
  PROVE  Settles(Append(q, s), G, B)
  BY Appended DEF Settles

\* Taking the first signal: it was the last word or that one is still queued.
LEMMA TakeFirst ==
  ASSUME NEW q \in Seq(Signal), q # <<>>, NEW G, NEW B
  PROVE  /\ Settles(q, G, B) =>
              Settles(Tail(q), G, B) \/ (Head(q) \in G /\ Clear(Tail(q), B))
         /\ Clear(q, B) => Clear(Tail(q), B) /\ Head(q) \notin B
<1>1. ASSUME NEW i \in DOMAIN q, q[i] \in G,
             \A j \in DOMAIN q : j > i => q[j] \notin B
      PROVE  Settles(Tail(q), G, B) \/ (Head(q) \in G /\ Clear(Tail(q), B))
  <2>1. CASE i = 1
    BY <1>1, <2>1, Taken DEF Clear
  <2>2. CASE i # 1
    <3>1. i - 1 \in DOMAIN Tail(q) /\ Tail(q)[i - 1] = q[i]
      BY <2>2, Taken
    <3>2. \A j \in DOMAIN Tail(q) : j > i - 1 => Tail(q)[j] \notin B
      BY <1>1, Taken
    <3> QED BY <3>1, <3>2, <1>1 DEF Settles
  <2> QED BY <2>1, <2>2
<1>2. Clear(q, B) => Clear(Tail(q), B) /\ Head(q) \notin B
  BY Taken DEF Clear
<1> QED
  BY <1>1, <1>2 DEF Settles

\* What settles a matter has a say in it.
LEMMA SettledNotClear ==
  ASSUME NEW q, NEW G, NEW B, NEW C, G \cap Signal \subseteq C, Settles(q, G, B),
         q \in Seq(Signal)
  PROVE  ~Clear(q, C)
<1>1. PICK i \in DOMAIN q : q[i] \in G
  BY DEF Settles
<1>2. q[i] \in Signal
  OBVIOUS
<1> QED
  BY <1>1, <1>2 DEF Clear

-----------------------------------------------------------------------------
(* The inductive invariant.                                                 *)

AddsOf(o) == {s \in Signal : Adds(s, o)}
RemovesOf(o) == {s \in Signal : Removes(s, o)}

\* PropertiesChanged of o with a usable word on key k.
ChangesOf(o, k) ==
  {s \in ChangedSignal : /\ s.path = o[1] /\ s.interface = o[2]
                         /\ s.changed[k] \in Values \/ k \in s.invalidated}

\* Signals after which the cached value of k is another one, or none.
TouchesOf(o, k) == AddsOf(o) \cup RemovesOf(o) \cup ChangesOf(o, k)

\* Signals after which the cached value of k is v, or is read again.
DeliversOf(o, k, v) ==
  {s \in AddsOf(o) : s.properties[o[2]][k] = v} \cup
  {s \in ChangesOf(o, k) : k \in s.invalidated \/ s.changed[k] = v}

\* One handler at a time; an invalidated key stays out of the cache until it
\* is read again; nothing is cached before discovery.
HandlersTakeTurns ==
  /\ adding = {} \/ (removing = {} /\ rereading = {})
  /\ removing = {} \/ rereading = {}
  /\ phase = "subscribed" => Idle /\ known = {}
  /\ phase = "discovering" => removing = {} /\ rereading = {}
  /\ \A o \in Object : \A k \in Keys :
       <<o, k>> \in rereading => cached[o][k] = NoValue

\* The handlers will leave o in the cache.
Kept(o) == phase = "subscribed" \/ o \in adding \/ (o \in known /\ o \notin removing)

\* The handlers will leave o out of the cache.
Dropped(o) == phase = "subscribed" \/ o \in removing \/ (o \notin known /\ o \notin adding)

\* The handlers will leave the service's value of k in the cache, or none
\* and an error the listener was told.
UpToDate(o, k) ==
  \/ phase = "subscribed"
  \/ o \in adding /\ fresh[o][k] = value[o][k]
  \/ /\ o \notin adding
     /\ \/ <<o, k>> \in rereading
        \/ cached[o][k] = value[o][k]
        \/ <<o, k>> \in lost /\ cached[o][k] = NoValue

\* The last word on the existence of o is queued, or is acted upon.
Existence(o) ==
  /\ o \in exists => \/ Settles(queue, AddsOf(o), RemovesOf(o))
                     \/ Clear(queue, RemovesOf(o)) /\ Kept(o)
  /\ o \notin exists => \/ Settles(queue, RemovesOf(o), AddsOf(o))
                        \/ Clear(queue, AddsOf(o)) /\ Dropped(o)

\* The last word on the value of k is queued, or is acted upon.
Freshness(o, k) ==
  o \in exists => \/ Settles(queue, DeliversOf(o, k, value[o][k]), TouchesOf(o, k))
                  \/ Clear(queue, TouchesOf(o, k)) /\ UpToDate(o, k)

Live == phase \in {"subscribed", "discovering", "running"} /\ ~failed

Currency == Live => \A o \in Object : Existence(o) /\ \A k \in Keys : Freshness(o, k)

CInv == IInv /\ HandlersTakeTurns /\ Currency

LEMMA CInvInit == Init => CInv
<1> SUFFICES ASSUME Init PROVE HandlersTakeTurns /\ Currency
  BY IInvInit DEF CInv
<1>1. HandlersTakeTurns
  BY DEF Init, HandlersTakeTurns, Idle
<1>2. \A o \in Object : Existence(o) /\ \A k \in Keys : Freshness(o, k)
  BY DEF Init, Existence, Freshness, Clear, Kept, Dropped, UpToDate
<1> QED
  BY <1>1, <1>2 DEF Currency

-----------------------------------------------------------------------------
(* Handlers.                                                                *)

LEMMA TurnsStep == CInv /\ [Next]_vars => HandlersTakeTurns'
<1> SUFFICES ASSUME CInv, [Next]_vars PROVE HandlersTakeTurns'
  OBVIOUS
<1> USE DEF HandlersTakeTurns
<1>a. TypeOK /\ HandlersTakeTurns
  BY DEF CInv, IInv
<1>1. CASE Service
  BY <1>1, <1>a, ServiceKeepsManager DEF cache, handler, Idle
<1>2. CASE GetManagedObjects \/ GetManagedObjectsFails \/ FinishDiscovery
  BY <1>2, <1>a DEF GetManagedObjects, GetManagedObjectsFails, FinishDiscovery,
                    Idle, cache, handler
<1>3. ASSUME NEW o \in Object, AddInterface(o)
      PROVE  HandlersTakeTurns'
  BY <1>3, <1>a DEF AddInterface, Idle
<1>4. ASSUME NEW o \in Object, RemoveInterface(o)
      PROVE  HandlersTakeTurns'
  BY <1>4, <1>a DEF RemoveInterface, Idle
<1>5. CASE DispatchAdded \/ DispatchRemoved \/ DispatchIgnored
  BY <1>5, <1>a DEF DispatchAdded, DispatchRemoved, DispatchIgnored, Dispatch,
                    Idle, cache, handler
<1>6. CASE DispatchChanged
  <2> DEFINE s == Head(queue)
             o == <<s.path, s.interface>>
  <2>1. /\ phase = "running" /\ phase' = "running" /\ Idle
        /\ adding' = adding /\ removing' = removing
        /\ rereading' = {o} \X s.invalidated
        /\ cached' = [cached EXCEPT ![o] = Merge(@, s)]
        /\ o \in known
    BY <1>6 DEF DispatchChanged, Dispatch, Effective
  <2>2. o \in Object
    BY <2>1, <1>a DEF TypeOK
  <2>3. cached'[o] = Merge(cached[o], s)
    BY <2>1, <2>2, <1>a DEF TypeOK
  <2> HIDE DEF o, s
  <2>4. \A k \in s.invalidated \cap Keys : cached'[o][k] = NoValue
    BY <2>3 DEF Merge
  <2> QED
    BY <2>1, <2>4 DEF Idle
<1>7. ASSUME NEW o \in Object, NEW k \in Keys, Reread(o, k)
      PROVE  HandlersTakeTurns'
  <2>1. /\ cached' = [cached EXCEPT ![o][k] = value[o][k]]
        /\ rereading' = rereading \ {<<o, k>>}
        /\ UNCHANGED <<phase, adding, removing>> /\ <<o, k>> \in rereading
    BY <1>7 DEF Reread
  <2>2. \A x \in Object : \A y \in Keys :
          <<x, y>> # <<o, k>> => cached'[x][y] = cached[x][y]
    BY <2>1, <1>a DEF TypeOK, PropertiesMap
  <2> QED
    BY <2>1, <2>2, <1>a DEF Idle
<1>8. ASSUME NEW o \in Object, NEW k \in Keys,
             RereadUnknown(o, k) \/ RereadFails(o, k)
      PROVE  HandlersTakeTurns'
  BY <1>8, <1>a DEF RereadUnknown, RereadFails, Idle, cache
<1>9. CASE DispatchOwnerChanged \/ EventLoopFails
  BY <1>9, <1>a DEF DispatchOwnerChanged, EventLoopFails, ConnectionFailed, Dispatch,
                    Idle, handler
<1>10. CASE Stop
  BY <1>10, <1>a DEF Stop, Idle, cache, handler
<1>11. CASE UNCHANGED vars
  BY <1>11, <1>a DEF vars, Idle, cache, handler
<1> QED
  BY <1>1, <1>2, <1>3, <1>4, <1>5, <1>6, <1>7, <1>8, <1>9, <1>10, <1>11
     DEF Next, Manager, Failure

-----------------------------------------------------------------------------
(* What the service says and what it does.                                  *)

\* A service step that sends s, seen from one object and key.
LEMMA Sent ==
  ASSUME TypeOK, NEW s \in Signal, queue' = Append(queue, s),
         UNCHANGED <<phase, failed, cache, handler, listener>>,
         NEW o \in Object, Existence(o),
         \/ s \in AddsOf(o) /\ o \in exists'
         \/ s \in RemovesOf(o) /\ o \notin exists'
         \/ s \notin AddsOf(o) \cup RemovesOf(o) /\ (o \in exists <=> o \in exists')
  PROVE  Existence(o)'
<1>1. queue \in Seq(Signal)
  BY DEF TypeOK
<1>2. Kept(o)' = Kept(o) /\ Dropped(o)' = Dropped(o)
  BY DEF Kept, Dropped, cache, handler
<1> QED
  BY <1>1, <1>2, AppendOther, AppendTruth DEF Existence

\* The same for the value of one key.
LEMMA SentValue ==
  ASSUME TypeOK, NEW s \in Signal, queue' = Append(queue, s),
         UNCHANGED <<phase, failed, cache, handler, listener>>,
         NEW o \in Object, NEW k \in Keys, Freshness(o, k),
         \/ s \in DeliversOf(o, k, value'[o][k])
         \/ o \notin exists'
         \/ /\ s \notin TouchesOf(o, k) /\ o \in exists
            /\ value'[o][k] = value[o][k]
  PROVE  Freshness(o, k)'
<1>1. queue \in Seq(Signal)
  BY DEF TypeOK
<1>2. value'[o][k] = value[o][k] => UpToDate(o, k)' = UpToDate(o, k)
  BY DEF UpToDate, cache, handler, listener
<1> QED
  BY <1>1, <1>2, AppendOther, AppendTruth DEF Freshness

\* What each kind of signal has a say in.
LEMMA SignalSays ==
  ASSUME NEW s \in Signal, NEW o \in Object
  PROVE  /\ s \in AddsOf(o) <=> s.kind = "added" /\ s.path = o[1] /\ o[2] \in s.interfaces
         /\ s \in RemovesOf(o) <=>
              \/ s.kind = "owner" /\ s.replaced
              \/ s.kind = "removed" /\ s.path = o[1] /\ o[2] \in s.interfaces
         /\ \A k \in Keys : s \in ChangesOf(o, k) <=>
              /\ s.kind = "changed" /\ s.path = o[1] /\ s.interface = o[2]
              /\ s.changed[k] \in Values \/ k \in s.invalidated
         /\ \A k \in Keys : s \in TouchesOf(o, k) <=>
              s \in AddsOf(o) \/ s \in RemovesOf(o) \/ s \in ChangesOf(o, k)
<1>1. s \in AddsOf(o) <=> s.kind = "added" /\ s.path = o[1] /\ o[2] \in s.interfaces
  BY DEF AddsOf, Adds
<1>2. s \in RemovesOf(o) <=>
        \/ s.kind = "owner" /\ s.replaced
        \/ s.kind = "removed" /\ s.path = o[1] /\ o[2] \in s.interfaces
  BY DEF RemovesOf, Removes
<1>3. s \in ChangedSignal => s.kind = "changed"
  BY DEF ChangedSignal
<1>4. \A k \in Keys : s \in ChangesOf(o, k) <=>
        /\ s.kind = "changed" /\ s.path = o[1] /\ s.interface = o[2]
        /\ s.changed[k] \in Values \/ k \in s.invalidated
  BY <1>3, SignalFields DEF ChangesOf
<1> QED
  BY <1>1, <1>2, <1>4 DEF TouchesOf

\* Objects are pairs, equal when path and interface are.
LEMMA Pairs ==
  ASSUME NEW o \in Remote
  PROVE  o[1] \in Paths /\ o[2] \in Interfaces /\ o = <<o[1], o[2]>>
  BY DEF Remote

\* Every service step is announced by a signal that says what it did.
LEMMA ServiceStep ==
  ASSUME CInv, Service, NEW o \in Object, Existence(o),
         \A k \in Keys : Freshness(o, k)
  PROVE  Existence(o)' /\ \A k \in Keys : Freshness(o, k)'
<1>a. TypeOK /\ o \in Remote /\ o[1] \in Paths /\ o[2] \in Interfaces
      /\ o = <<o[1], o[2]>> /\ Keys = Keys
  BY ObjectIsRemote, Pairs DEF CInv, IInv
<1>b. UNCHANGED <<phase, failed, cache, handler, listener>>
  BY ServiceKeepsManager
<1>1. ASSUME NEW p \in Paths, NEW interfaces \in SUBSET Interfaces,
             NEW v \in [Keys -> Values], CreateObject(p, interfaces, v)
      PROVE  Existence(o)' /\ \A k \in Keys : Freshness(o, k)'
  <2> DEFINE s == [kind |-> "added", path |-> p, interfaces |-> interfaces,
                   properties |-> [i \in Interfaces |-> v]]
  <2>1. s \in Signal
    <3>1. s \in AddedSignal
      BY DEF AddedSignal, PropertiesMap
    <3> QED BY <3>1 DEF Signal
  <2>2. /\ queue' = Append(queue, s)
        /\ exists' = exists \cup ({p} \X interfaces)
        /\ value' = [x \in Remote |->
             IF x[1] = p /\ x[2] \in interfaces THEN v ELSE value[x]]
        /\ \A i \in interfaces : <<p, i>> \notin exists
    BY <1>1 DEF CreateObject, Send
  <2>3. /\ s.kind = "added" /\ s.path = p /\ s.interfaces = interfaces
        /\ s.properties[o[2]] = v
    BY <1>a
  <2> HIDE DEF s
  <2>4. CASE o[1] = p /\ o[2] \in interfaces
    <3>1. s \in AddsOf(o) /\ o \in exists'
      BY <2>1, <2>2, <2>3, <2>4, <1>a DEF AddsOf, Adds
    <3>2. \A k \in Keys : s \in DeliversOf(o, k, value'[o][k])
      BY <2>2, <2>3, <2>4, <3>1, <1>a DEF DeliversOf
    <3> QED BY <1>a, <1>b, <2>1, <2>2, <3>1, <3>2, Sent, SentValue
  <2>5. CASE ~(o[1] = p /\ o[2] \in interfaces)
    <3>1. s \notin AddsOf(o) \cup RemovesOf(o) /\ \A k \in Keys : s \notin TouchesOf(o, k)
      BY <2>1, <2>3, <2>5, SignalSays
    <3>2. (o \in exists <=> o \in exists') /\ value'[o] = value[o]
      BY <2>2, <2>5, <1>a
    <3> QED BY <1>a, <1>b, <2>1, <2>2, <3>1, <3>2, Sent, SentValue
  <2> QED BY <2>4, <2>5
<1>2. ASSUME NEW p \in Paths, NEW interfaces \in SUBSET Interfaces,
             RemoveObject(p, interfaces)
      PROVE  Existence(o)' /\ \A k \in Keys : Freshness(o, k)'
  <2> DEFINE s == [kind |-> "removed", path |-> p, interfaces |-> interfaces]
  <2>1. s \in Signal
    BY DEF RemovedSignal, Signal
  <2>2. /\ queue' = Append(queue, s)
        /\ exists' = exists \ ({p} \X interfaces)
        /\ value' = value
    BY <1>2 DEF RemoveObject, Send
  <2>3. s.kind = "removed" /\ s.path = p /\ s.interfaces = interfaces
    OBVIOUS
  <2> HIDE DEF s
  <2>4. CASE o[1] = p /\ o[2] \in interfaces
    <3>1. s \in RemovesOf(o) /\ o \notin exists'
      BY <2>1, <2>2, <2>3, <2>4, <1>a DEF RemovesOf, Removes
    <3> QED BY <1>a, <1>b, <2>1, <2>2, <3>1, Sent, SentValue
  <2>5. CASE ~(o[1] = p /\ o[2] \in interfaces)
    <3>1. s \notin AddsOf(o) \cup RemovesOf(o) /\ \A k \in Keys : s \notin TouchesOf(o, k)
      BY <2>1, <2>3, <2>5, SignalSays
    <3>2. o \in exists <=> o \in exists'
      BY <2>2, <2>5, <1>a
    <3> QED BY <1>a, <1>b, <2>1, <2>2, <3>1, <3>2, Sent, SentValue
  <2> QED BY <2>4, <2>5
<1>3. ASSUME NEW x \in Remote, NEW v \in [Keys -> Values],
             NEW announced \in SUBSET Keys, ChangeProperties(x, v, announced)
      PROVE  Existence(o)' /\ \A k \in Keys : Freshness(o, k)'
  <2> DEFINE c == [k \in Keys |->
               IF v[k] # value[x][k] /\ k \in announced THEN v[k] ELSE NoValue]
             d == {k \in Keys : v[k] # value[x][k] /\ k \notin announced}
             s == [kind |-> "changed", path |-> x[1], interface |-> x[2],
                   changed |-> c, invalidated |-> d]
  <2>0. queue' = Append(queue, s)
    BY <1>3 DEF ChangeProperties, Send
  <2>1. c \in [Keys -> Values \cup {NoValue, IllTyped}] /\ d \in SUBSET Keys
    OBVIOUS
  <2>2. \A k \in Keys : /\ c[k] \in Values \/ k \in d => v[k] # value[x][k]
                        /\ v[k] # value[x][k] => k \in d \/ c[k] = v[k]
    BY ConstantsAssumption DEF ConstantsAssumption
  <2> HIDE DEF c, d
  <2>3. s \in ChangedSignal /\ s \in Signal
    BY <2>1, Pairs DEF ChangedSignal, Signal
  <2>4. /\ s.kind = "changed" /\ s.path = x[1] /\ s.interface = x[2]
        /\ s.changed = c /\ s.invalidated = d
    OBVIOUS
  <2>5. exists' = exists /\ value' = [value EXCEPT ![x] = v] /\ x \in exists
    BY <1>3 DEF ChangeProperties
  <2> HIDE DEF s
  <2>6. s \notin AddsOf(o) \cup RemovesOf(o)
    BY <2>4 DEF AddsOf, RemovesOf, Adds, Removes
  <2>7. ASSUME NEW k \in Keys
        PROVE  \/ s \in DeliversOf(o, k, value'[o][k])
               \/ o \notin exists'
               \/ /\ s \notin TouchesOf(o, k) /\ o \in exists
                  /\ value'[o][k] = value[o][k]
    <3>1. CASE o = x /\ v[k] # value[x][k]
      <4>1. value'[o][k] = v[k] /\ v[k] \in Values
        BY <2>5, <3>1, <1>a DEF TypeOK
      <4>2. s \in ChangesOf(o, k)
        BY <2>2, <2>3, <2>4, <3>1, <4>1 DEF ChangesOf
      <4> QED BY <2>2, <2>4, <3>1, <4>1, <4>2 DEF DeliversOf
    <3>2. CASE ~(o = x /\ v[k] # value[x][k])
      <4>1. value'[o][k] = value[o][k]
        BY <2>5, <3>2, <1>a DEF TypeOK
      <4>2. s \notin ChangesOf(o, k)
        <5>1. CASE o = x
          BY <2>2, <2>4, <3>2, <5>1 DEF ChangesOf
        <5>2. CASE o # x
          BY <2>4, <5>2, <1>a, Pairs DEF ChangesOf
        <5> QED BY <5>1, <5>2
      <4> QED BY <2>5, <2>6, <4>1, <4>2 DEF TouchesOf
    <3> QED BY <3>1, <3>2
  <2>8. Existence(o)'
    BY <1>a, <1>b, <2>0, <2>3, <2>5, <2>6, Sent
  <2>9. \A k \in Keys : Freshness(o, k)'
    BY <1>a, <1>b, <2>0, <2>3, <2>7, SentValue
  <2> QED BY <2>8, <2>9
<1>4. ASSUME NEW s \in Noise, EmitNoise(s)
      PROVE  Existence(o)' /\ \A k \in Keys : Freshness(o, k)'
  <2>1. /\ queue' = Append(queue, s) /\ exists' = exists /\ value' = value
    BY <1>4 DEF EmitNoise, Send
  <2>2. s \in Signal /\ s \notin AddsOf(o) \cup RemovesOf(o)
        /\ \A k \in Keys : s \notin TouchesOf(o, k)
    <3>1. CASE s = [kind |-> "malformed"]
      <4>1. s \in Signal /\ s.kind = "malformed"
        BY <3>1 DEF Signal, MalformedSignal
      <4> QED BY <4>1, SignalSays
    <3>2. ASSUME NEW x \in Remote,
                 s = [kind |-> "changed", path |-> x[1], interface |-> x[2],
                      changed |-> [k \in Keys |-> IllTyped], invalidated |-> {}]
          PROVE  s \in Signal /\ s \notin AddsOf(o) \cup RemovesOf(o)
                 /\ \A k \in Keys : s \notin TouchesOf(o, k)
      <4>1. s \in ChangedSignal
        BY <3>2, Pairs DEF ChangedSignal
      <4>2. s \in Signal
        BY <4>1 DEF Signal
      <4>3. s.kind = "changed" /\ s.invalidated = {}
            /\ \A k \in Keys : s.changed[k] = IllTyped
        BY <3>2
      <4>4. \A k \in Keys : s \notin ChangesOf(o, k)
        BY <4>3, ConstantsAssumption DEF ChangesOf, ConstantsAssumption
      <4>5. s \notin AddsOf(o) \cup RemovesOf(o)
        BY <4>3 DEF AddsOf, RemovesOf, Adds, Removes
      <4> QED BY <4>2, <4>4, <4>5 DEF TouchesOf
    <3> QED BY <3>1, <3>2 DEF Noise
  <2>3. Existence(o)'
    BY <1>a, <1>b, <2>1, <2>2, Sent
  <2>4. \A k \in Keys : Freshness(o, k)'
    BY <1>a, <1>b, <2>1, <2>2, SentValue DEF Freshness
  <2> QED BY <2>3, <2>4
<1>5. CASE ServiceExit
  <2> DEFINE s == [kind |-> "owner", replaced |-> TRUE]
  <2>1. queue' = Append(queue, s) /\ exists' = {}
    BY <1>5 DEF ServiceExit, Send
  <2>2. s \in Signal /\ s \in RemovesOf(o)
    <3>1. s \in OwnerSignal
      BY DEF OwnerSignal
    <3> QED BY <3>1 DEF Signal, RemovesOf, Removes
  <2> HIDE DEF s
  <2> QED BY <1>a, <1>b, <2>1, <2>2, Sent, SentValue
<1>6. CASE ServiceStart
  <2> DEFINE s == [kind |-> "owner", replaced |-> FALSE]
  <2>1. queue' = Append(queue, s) /\ exists' = exists /\ value' = value
    BY <1>6 DEF ServiceStart, Send
  <2>2. s \in Signal /\ s.kind = "owner" /\ ~s.replaced
    <3>1. s \in OwnerSignal
      BY DEF OwnerSignal
    <3> QED BY <3>1 DEF Signal
  <2> HIDE DEF s
  <2>3. s \notin AddsOf(o) \cup RemovesOf(o)
        /\ \A k \in Keys : s \notin TouchesOf(o, k)
    BY <2>2, SignalSays
  <2>4. Existence(o)'
    BY <1>a, <1>b, <2>1, <2>2, <2>3, Sent
  <2>5. \A k \in Keys : Freshness(o, k)'
    BY <1>a, <1>b, <2>1, <2>2, <2>3, SentValue
  <2> QED BY <2>4, <2>5
<1> QED
  BY <1>1, <1>2, <1>3, <1>4, <1>5, <1>6 DEF Service

\* A step that touches neither queue nor service keeps what is settled there;
\* what is not must stay right in the handlers and the cache.
LEMMA HandlersOnly ==
  ASSUME NEW o \in Object, Existence(o), \A k \in Keys : Freshness(o, k),
         UNCHANGED <<queue, exists, value>>,
         o \in exists /\ Clear(queue, RemovesOf(o)) /\ Kept(o) => Kept(o)',
         o \notin exists /\ Clear(queue, AddsOf(o)) /\ Dropped(o) => Dropped(o)',
         \A k \in Keys : o \in exists /\ Clear(queue, TouchesOf(o, k)) /\ UpToDate(o, k)
                           => UpToDate(o, k)'
  PROVE  Existence(o)' /\ \A k \in Keys : Freshness(o, k)'
<1>1. Existence(o)'
  BY DEF Existence
<1>2. \A k \in Keys : Freshness(o, k)'
  BY DEF Freshness
<1> QED
  BY <1>1, <1>2

\* While nothing queued has a say in an object it has, the manager keeps it.
LEMMA KeptWhenClear ==
  ASSUME TypeOK, NEW o \in Object, NEW k \in Keys, Existence(o), o \in exists,
         Clear(queue, TouchesOf(o, k))
  PROVE  Kept(o)
<1>1. queue \in Seq(Signal)
  BY DEF TypeOK
<1>2. ~Settles(queue, AddsOf(o), RemovesOf(o))
  BY <1>1, SettledNotClear DEF TouchesOf
<1> QED
  BY <1>2 DEF Existence

\* What the steps between two signals do to one object.
LEMMA HandlerSteps ==
  ASSUME CInv, NEW o \in Object, Existence(o), \A k \in Keys : Freshness(o, k),
         \/ GetManagedObjects \/ FinishDiscovery
         \/ \E x \in Object : AddInterface(x) \/ RemoveInterface(x)
         \/ \E x \in Object, k \in Keys :
              Reread(x, k) \/ RereadUnknown(x, k) \/ RereadFails(x, k)
  PROVE  Existence(o)' /\ \A k \in Keys : Freshness(o, k)'
<1>a. TypeOK /\ HandlersTakeTurns
  BY DEF CInv, IInv
<1>1. CASE GetManagedObjects
  <2>1. /\ phase = "subscribed" /\ phase' = "discovering"
        /\ adding' = exists \cap Object
        /\ fresh' = [x \in Object |-> IF x \in adding' THEN value[x] ELSE Empty]
        /\ UNCHANGED <<queue, exists, value, known, removing, rereading>>
    BY <1>1 DEF GetManagedObjects, service, cache
  <2>2. known = {}
    BY <2>1, <1>a DEF HandlersTakeTurns
  <2>3. o \in exists => Kept(o)' /\ \A k \in Keys : UpToDate(o, k)'
    BY <2>1 DEF Kept, UpToDate
  <2>4. o \notin exists => Dropped(o)'
    BY <2>1, <2>2 DEF Dropped
  <2> QED BY <2>1, <2>3, <2>4, HandlersOnly
<1>2. CASE FinishDiscovery
  <2>1. /\ phase = "discovering" /\ phase' = "running"
        /\ UNCHANGED <<queue, exists, value, known, cached, adding, fresh, removing,
                       rereading, lost>>
    BY <1>2 DEF FinishDiscovery, service, cache, handler, listener
  <2>2. /\ Kept(o)' = Kept(o) /\ Dropped(o)' = Dropped(o)
        /\ \A k \in Keys : UpToDate(o, k)' = UpToDate(o, k)
    BY <2>1 DEF Kept, Dropped, UpToDate
  <2> QED BY <2>1, <2>2, HandlersOnly
<1>3. ASSUME NEW x \in Object, AddInterface(x)
      PROVE  Existence(o)' /\ \A k \in Keys : Freshness(o, k)'
  <2>1. /\ x \in adding /\ adding' = adding \ {x}
        /\ fresh' = [fresh EXCEPT ![x] = Empty]
        /\ known' = known \cup {x}
        /\ cached' = [cached EXCEPT ![x] = fresh[x]]
        /\ lost' = lost \ ({x} \X Keys)
        /\ UNCHANGED <<queue, exists, value, phase, removing, rereading>>
    BY <1>3 DEF AddInterface, service
  <2>2. removing = {} /\ rereading = {} /\ phase # "subscribed"
    BY <2>1, <1>a DEF HandlersTakeTurns, Idle
  <2>3. Kept(o) => Kept(o)'
    BY <2>1, <2>2 DEF Kept
  <2>4. Dropped(o) => Dropped(o)'
    BY <2>1, <2>2 DEF Dropped
  <2>5. ASSUME NEW k \in Keys, UpToDate(o, k)
        PROVE  UpToDate(o, k)'
    <3>1. CASE o = x
      <4>1. fresh[o][k] = value[o][k] /\ cached'[o] = fresh[o] /\ o \notin adding'
        BY <2>1, <2>2, <2>5, <3>1, <1>a DEF UpToDate, TypeOK
      <4> QED BY <2>1, <4>1 DEF UpToDate
    <3>2. CASE o # x
      <4>1. cached'[o] = cached[o] /\ fresh'[o] = fresh[o]
            /\ (o \in adding' <=> o \in adding)
            /\ (<<o, k>> \in lost' <=> <<o, k>> \in lost)
        BY <2>1, <3>2, <1>a DEF TypeOK
      <4> QED BY <2>1, <2>5, <4>1 DEF UpToDate
    <3> QED BY <3>1, <3>2
  <2> QED BY <2>1, <2>3, <2>4, <2>5, HandlersOnly
<1>4. ASSUME NEW x \in Object, RemoveInterface(x)
      PROVE  Existence(o)' /\ \A k \in Keys : Freshness(o, k)'
  <2>1. /\ x \in removing /\ removing' = removing \ {x}
        /\ known' = known \ {x}
        /\ cached' = [cached EXCEPT ![x] = Empty]
        /\ lost' = lost \ ({x} \X Keys)
        /\ UNCHANGED <<queue, exists, value, phase, adding, fresh, rereading>>
    BY <1>4 DEF RemoveInterface, service
  <2>2. adding = {} /\ rereading = {} /\ phase # "subscribed"
    BY <2>1, <1>a DEF HandlersTakeTurns, Idle
  <2>3. Kept(o) => Kept(o)' /\ o # x
    BY <2>1, <2>2 DEF Kept
  <2>4. Dropped(o) => Dropped(o)'
    BY <2>1, <2>2 DEF Dropped
  <2>5. ASSUME NEW k \in Keys, o \in exists, Clear(queue, TouchesOf(o, k)),
               UpToDate(o, k)
        PROVE  UpToDate(o, k)'
    <3>1. o # x
      BY <2>3, <2>5, <1>a, KeptWhenClear
    <3>2. cached'[o] = cached[o] /\ (<<o, k>> \in lost' <=> <<o, k>> \in lost)
      BY <2>1, <3>1, <1>a DEF TypeOK
    <3> QED BY <2>1, <2>5, <3>2 DEF UpToDate
  <2> QED BY <2>1, <2>3, <2>4, <2>5, HandlersOnly
<1>5. ASSUME NEW x \in Object, NEW y \in Keys,
             Reread(x, y) \/ RereadUnknown(x, y) \/ RereadFails(x, y)
      PROVE  Existence(o)' /\ \A k \in Keys : Freshness(o, k)'
  <2>1. /\ <<x, y>> \in rereading /\ rereading' = rereading \ {<<x, y>>}
        /\ UNCHANGED <<queue, exists, value, phase, known, adding, fresh, removing>>
    BY <1>5 DEF Reread, RereadUnknown, RereadFails, service, cache
  <2>2. adding = {} /\ cached[x][y] = NoValue
    BY <2>1, <1>a DEF HandlersTakeTurns
  <2>3. Kept(o)' = Kept(o) /\ Dropped(o)' = Dropped(o)
    BY <2>1 DEF Kept, Dropped
  <2>4. ASSUME NEW k \in Keys, <<o, k>> # <<x, y>>
        PROVE  cached'[o][k] = cached[o][k] /\ (<<o, k>> \in lost' <=> <<o, k>> \in lost)
    <3>1. \/ cached' = cached
          \/ cached' = [cached EXCEPT ![x][y] = value[x][y]]
      BY <1>5 DEF Reread, RereadUnknown, RereadFails, cache
    <3>2. lost' = lost \/ lost' = lost \ {<<x, y>>} \/ lost' = lost \cup {<<x, y>>}
      BY <1>5 DEF Reread, RereadUnknown, RereadFails, listener, Quiet
    <3>3. cached'[o][k] = cached[o][k]
      BY <3>1, <2>4, <1>a DEF TypeOK, PropertiesMap
    <3> QED BY <3>2, <3>3, <2>4
  <2>5. ASSUME NEW k \in Keys, o \in exists, UpToDate(o, k)
        PROVE  UpToDate(o, k)'
    <3>1. CASE <<o, k>> # <<x, y>>
      BY <2>1, <2>4, <2>5, <3>1 DEF UpToDate
    <3>2. CASE o = x /\ k = y
      <4>1. CASE Reread(x, y)
        <5>1. cached' = [cached EXCEPT ![x][y] = value[x][y]]
          BY <4>1 DEF Reread
        <5>2. cached'[o][k] = value[o][k]
          BY <5>1, <3>2, <1>a DEF TypeOK, PropertiesMap
        <5> QED BY <2>1, <2>2, <5>2 DEF UpToDate
      <4>2. CASE RereadUnknown(x, y)
        BY <4>2, <3>2, <2>5 DEF RereadUnknown
      <4>3. CASE RereadFails(x, y)
        <5>1. <<o, k>> \in lost' /\ cached' = cached
          BY <4>3, <3>2 DEF RereadFails, cache
        <5> QED BY <2>1, <2>2, <3>2, <5>1 DEF UpToDate
      <4> QED BY <4>1, <4>2, <4>3, <1>5, <3>2
    <3> QED BY <3>1, <3>2
  <2> QED BY <2>1, <2>3, <2>5, HandlersOnly
<1> QED
  BY <1>1, <1>2, <1>3, <1>4, <1>5

\* Taking a signal: either a later one is the last word, or this one was, or
\* the matter was settled before; the last two are for the handler to honour.
LEMMA Dispatched ==
  ASSUME TypeOK, queue # <<>>, queue' = Tail(queue), UNCHANGED <<exists, value>>,
         NEW o \in Object, Existence(o), \A k \in Keys : Freshness(o, k),
         o \in exists =>
           (Head(queue) \in AddsOf(o) \/ (Head(queue) \notin RemovesOf(o) /\ Kept(o))
              => Kept(o)'),
         o \notin exists =>
           (Head(queue) \in RemovesOf(o) \/ (Head(queue) \notin AddsOf(o) /\ Dropped(o))
              => Dropped(o)'),
         \A k \in Keys :
           /\ o \in exists
           /\ Head(queue) \in AddsOf(o) \/ Kept(o)
           /\ \/ Head(queue) \in DeliversOf(o, k, value[o][k])
              \/ Head(queue) \notin TouchesOf(o, k) /\ UpToDate(o, k)
           => UpToDate(o, k)'
  PROVE  Existence(o)' /\ \A k \in Keys : Freshness(o, k)'
<1>1. queue \in Seq(Signal) /\ Tail(queue) \in Seq(Signal)
  BY DEF TypeOK
<1>2. Existence(o)'
  BY <1>1, TakeFirst DEF Existence
<1>3. ASSUME NEW k \in Keys, o \in exists
      PROVE  Freshness(o, k)'
  <2> DEFINE v == value[o][k]
  <2>1. \/ Settles(Tail(queue), DeliversOf(o, k, v), TouchesOf(o, k))
        \/ /\ Clear(Tail(queue), TouchesOf(o, k))
           /\ \/ Head(queue) \in DeliversOf(o, k, v)
              \/ Head(queue) \notin TouchesOf(o, k) /\ UpToDate(o, k)
    BY <1>1, <1>3, TakeFirst DEF Freshness
  <2>2. ASSUME Clear(Tail(queue), TouchesOf(o, k)), Head(queue) \notin AddsOf(o)
        PROVE  Kept(o)
    <3>1. ~Settles(Tail(queue), AddsOf(o), RemovesOf(o))
      BY <1>1, <2>2, SettledNotClear DEF TouchesOf
    <3>2. ~Settles(queue, AddsOf(o), RemovesOf(o))
      BY <1>1, <2>2, <3>1, TakeFirst
    <3> QED BY <1>3, <3>2 DEF Existence
  <2>3. value'[o][k] = v
    OBVIOUS
  <2> HIDE DEF v
  <2> QED BY <1>3, <2>1, <2>2, <2>3 DEF Freshness, v
<1> QED
  BY <1>2, <1>3 DEF Freshness

\* What is delivered has a say, and a say on a value is one of three kinds.
LEMMA Delivers ==
  ASSUME NEW o \in Object, NEW k \in Keys, NEW v, NEW s \in DeliversOf(o, k, v)
  PROVE  s \in Signal /\ s \in TouchesOf(o, k) /\ s \notin RemovesOf(o)
         /\ \/ s \in AddsOf(o) /\ s.properties[o[2]][k] = v
            \/ s \in ChangesOf(o, k) /\ (k \in s.invalidated \/ s.changed[k] = v)
<1>1. \/ s \in AddsOf(o) /\ s.properties[o[2]][k] = v
      \/ s \in ChangesOf(o, k) /\ (k \in s.invalidated \/ s.changed[k] = v)
  BY DEF DeliversOf
<1>2. s \in Signal
  BY <1>1 DEF AddsOf, ChangesOf, Signal
<1> QED
  BY <1>1, <1>2, SignalSays

\* The handlers of queued signals do what the signals say.
LEMMA DispatchSteps ==
  ASSUME CInv, ~failed, NEW o \in Object, Existence(o), \A k \in Keys : Freshness(o, k),
         DispatchAdded \/ DispatchRemoved \/ DispatchChanged \/ DispatchIgnored,
         ~failed'
  PROVE  Existence(o)' /\ \A k \in Keys : Freshness(o, k)'
<1> DEFINE s == Head(queue)
<1>a. TypeOK /\ HandlersTakeTurns
  BY DEF CInv, IInv
<1>b. /\ queue # <<>> /\ queue' = Tail(queue) /\ UNCHANGED <<exists, value>>
      /\ phase = "running" /\ phase' = "running"
      /\ adding = {} /\ removing = {} /\ rereading = {}
  BY DEF DispatchAdded, DispatchRemoved, DispatchChanged, DispatchIgnored, Dispatch,
         service, Idle
<1>c. s \in Signal
  BY <1>a, <1>b, DispatchTypes
<1>d. o = <<o[1], o[2]>> /\ o[1] \in Paths /\ o[2] \in ObexInterfaces
  BY DEF Object
<1>1. CASE DispatchAdded
  <2>1. /\ s.kind = "added"
        /\ adding' = {s.path} \X (s.interfaces \cap ObexInterfaces)
        /\ fresh' = [x \in Object |->
             IF x \in adding' THEN s.properties[x[2]] ELSE Empty]
        /\ UNCHANGED <<known, cached, removing, rereading, lost>>
    BY <1>1 DEF DispatchAdded, cache, Quiet, listener
  <2> HIDE DEF s
  <2>2. s \in AddsOf(o) <=> o \in adding'
    BY <1>c, <1>d, <2>1, SignalSays
  <2>3. s \notin RemovesOf(o) /\ \A k \in Keys : s \notin ChangesOf(o, k)
    BY <1>c, <2>1, SignalSays
  <2>4. s \in AddsOf(o) \/ Kept(o) => Kept(o)'
    BY <1>b, <2>1, <2>2 DEF Kept
  <2>5. s \notin AddsOf(o) /\ Dropped(o) => Dropped(o)'
    BY <1>b, <2>1, <2>2 DEF Dropped
  <2>6. ASSUME NEW k \in Keys, s \in DeliversOf(o, k, value[o][k])
        PROVE  UpToDate(o, k)'
    <3>1. o \in adding' /\ s.properties[o[2]][k] = value[o][k]
      BY <2>2, <2>3, <2>6, Delivers
    <3> QED BY <1>b, <2>1, <3>1 DEF UpToDate
  <2>7. ASSUME NEW k \in Keys, s \notin TouchesOf(o, k), UpToDate(o, k)
        PROVE  UpToDate(o, k)'
    <3>1. o \notin adding'
      BY <1>c, <2>2, <2>7, SignalSays
    <3> QED BY <1>b, <2>1, <2>7, <3>1 DEF UpToDate
  <2> USE DEF s
  <2> QED BY <1>a, <1>b, <2>3, <2>4, <2>5, <2>6, <2>7, Dispatched
<1>2. CASE DispatchRemoved
  <2>1. /\ s.kind = "removed"
        /\ removing' = {s.path} \X (s.interfaces \cap ObexInterfaces)
        /\ UNCHANGED <<known, cached, adding, fresh, rereading, lost>>
    BY <1>2 DEF DispatchRemoved, cache, Quiet, listener
  <2> HIDE DEF s
  <2>2. s \in RemovesOf(o) <=> o \in removing'
    BY <1>c, <1>d, <2>1, SignalSays
  <2>3. s \notin AddsOf(o) /\ \A k \in Keys : s \notin ChangesOf(o, k)
    BY <1>c, <2>1, SignalSays
  <2>4. s \notin RemovesOf(o) /\ Kept(o) => Kept(o)'
    BY <1>b, <2>1, <2>2 DEF Kept
  <2>5. s \in RemovesOf(o) \/ Dropped(o) => Dropped(o)'
    BY <1>b, <2>1, <2>2 DEF Dropped
  <2>6. \A k \in Keys : s \notin DeliversOf(o, k, value[o][k])
    BY <2>3, Delivers
  <2>7. \A k \in Keys : UpToDate(o, k) => UpToDate(o, k)'
    BY <1>b, <2>1 DEF UpToDate
  <2> USE DEF s
  <2> QED BY <1>a, <1>b, <2>3, <2>4, <2>5, <2>6, <2>7, Dispatched
<1>3. CASE DispatchChanged
  <2> DEFINE x == <<s.path, s.interface>>
  <2>1. /\ s.kind = "changed" /\ x \in known
        /\ cached' = [cached EXCEPT ![x] = Merge(@, s)]
        /\ rereading' = {x} \X s.invalidated
        /\ lost' = lost \ ({x} \X (WellTyped(s.changed) \cup s.invalidated))
        /\ UNCHANGED <<known, adding, fresh, removing>>
    BY <1>3 DEF DispatchChanged, Effective
  <2>2. x \in Object
    BY <1>a, <2>1 DEF TypeOK
  <2>3. s.path = x[1] /\ s.interface = x[2]
    OBVIOUS
  <2> HIDE DEF s, x
  <2>4. s \notin AddsOf(o) /\ s \notin RemovesOf(o)
    BY <1>c, <2>1, SignalSays
  <2>5. Kept(o)' = Kept(o) /\ Dropped(o)' = Dropped(o)
    BY <1>b, <2>1 DEF Kept, Dropped
  <2>6. \A k \in Keys : s \in ChangesOf(o, k) <=>
          o = x /\ (k \in WellTyped(s.changed) \/ k \in s.invalidated)
    <3>1. o = x <=> s.path = o[1] /\ s.interface = o[2]
      BY <1>d, <2>2, <2>3, Pairs, ObjectIsRemote
    <3> QED BY <1>c, <2>1, <3>1, SignalSays DEF WellTyped
  <2>7. \A k \in Keys :
          cached'[o][k] = IF o = x THEN Merge(cached[o], s)[k] ELSE cached[o][k]
    BY <1>a, <2>1, <2>2 DEF TypeOK
  <2>8. ASSUME NEW k \in Keys, s \in DeliversOf(o, k, value[o][k])
        PROVE  UpToDate(o, k)'
    <3>1. s \in ChangesOf(o, k) /\ (k \in s.invalidated \/ s.changed[k] = value[o][k])
      BY <2>4, <2>8, Delivers
    <3>2. CASE k \in s.invalidated
      BY <1>b, <2>1, <2>6, <3>1, <3>2 DEF UpToDate
    <3>3. CASE k \notin s.invalidated
      <4>1. cached'[o][k] = s.changed[k]
        BY <2>6, <2>7, <3>1, <3>3 DEF Merge
      <4> QED BY <1>b, <2>1, <3>1, <3>3, <4>1 DEF UpToDate
    <3> QED BY <3>2, <3>3
  <2>9. ASSUME NEW k \in Keys, s \notin TouchesOf(o, k), UpToDate(o, k)
        PROVE  UpToDate(o, k)'
    <3>1. ~(o = x /\ (k \in WellTyped(s.changed) \/ k \in s.invalidated))
      BY <1>c, <2>6, <2>9, SignalSays
    <3>2. cached'[o][k] = cached[o][k]
      BY <2>7, <3>1 DEF Merge
    <3>3. <<o, k>> \in lost' <=> <<o, k>> \in lost
      BY <2>1, <3>1
    <3> QED BY <1>b, <2>1, <2>9, <3>2, <3>3 DEF UpToDate
  <2> USE DEF s
  <2> QED BY <1>a, <1>b, <2>4, <2>5, <2>8, <2>9, Dispatched
<1>4. CASE DispatchIgnored
  <2>1. /\ UNCHANGED <<known, cached, adding, fresh, removing, rereading, lost>>
        /\ \/ s.kind = "malformed"
           \/ s.kind = "owner" /\ ~s.replaced
           \/ s.kind = "changed" /\ ~Effective(s)
    BY <1>4 DEF DispatchIgnored, cache, handler, Quiet, listener
  <2> HIDE DEF s
  <2>2. s \notin AddsOf(o) /\ s \notin RemovesOf(o)
    BY <1>c, <2>1, SignalSays
  <2>3. /\ Kept(o)' = Kept(o) /\ Dropped(o)' = Dropped(o)
        /\ \A k \in Keys : UpToDate(o, k)' = UpToDate(o, k)
    BY <1>b, <2>1 DEF Kept, Dropped, UpToDate
  <2>4. ASSUME NEW k \in Keys, s \in DeliversOf(o, k, value[o][k]), o \in exists
        PROVE  ~Kept(o)
    <3>1. s \in ChangesOf(o, k)
      BY <2>2, <2>4, Delivers
    <3>2. /\ s.kind = "changed" /\ <<s.path, s.interface>> = o
          /\ k \in WellTyped(s.changed) \cup s.invalidated
      BY <1>c, <1>d, <3>1, SignalSays DEF WellTyped
    <3>3. o \notin known
      BY <2>1, <3>2 DEF Effective
    <3> QED BY <1>b, <3>3 DEF Kept
  <2> USE DEF s
  <2> QED BY <1>a, <1>b, <2>2, <2>3, <2>4, Dispatched
<1> QED
  BY <1>1, <1>2, <1>3, <1>4

-----------------------------------------------------------------------------
(* The theorems.                                                            *)

\* Every step keeps the explanation of each difference.
LEMMA CurrencyStep == CInv /\ [Next]_vars => Currency'
<1> SUFFICES ASSUME CInv, [Next]_vars, Live',
                    NEW o \in Object
             PROVE  Existence(o)' /\ \A k \in Keys : Freshness(o, k)'
  BY DEF Currency
<1>a. phase' # "stopped" /\ ~failed'
  BY DEF Live
<1>1. Live
  <2>1. CASE Service
    BY <2>1, ServiceKeepsManager DEF Live
  <2>2. ASSUME NEW x \in Object, AddInterface(x) \/ RemoveInterface(x) PROVE Live
    BY <2>2 DEF AddInterface, RemoveInterface, Live
  <2>3. ASSUME NEW x \in Object, NEW k \in Keys,
               Reread(x, k) \/ RereadUnknown(x, k) \/ RereadFails(x, k)
        PROVE  Live
    BY <2>3 DEF Reread, RereadUnknown, RereadFails, Live
  <2>4. CASE GetManagedObjects \/ FinishDiscovery
    BY <2>4 DEF GetManagedObjects, FinishDiscovery, Live
  <2>5. CASE DispatchAdded \/ DispatchRemoved \/ DispatchChanged \/ DispatchIgnored
    BY <2>5 DEF DispatchAdded, DispatchRemoved, DispatchChanged, DispatchIgnored, Live
  <2>6. CASE DispatchOwnerChanged \/ Failure
    BY <2>6, <1>a DEF DispatchOwnerChanged, ConnectionFailed, Failure,
                      GetManagedObjectsFails, EventLoopFails, Stop
  <2>7. CASE UNCHANGED vars
    BY <2>7 DEF vars, Live
  <2> QED BY <2>1, <2>2, <2>3, <2>4, <2>5, <2>6, <2>7 DEF Next, Manager
<1>2. Existence(o) /\ \A k \in Keys : Freshness(o, k)
  BY <1>1 DEF CInv, Currency
<1>3. CASE Service
  BY <1>2, <1>3, ServiceStep
<1>4. CASE \/ GetManagedObjects \/ FinishDiscovery
           \/ \E x \in Object : AddInterface(x) \/ RemoveInterface(x)
           \/ \E x \in Object, k \in Keys :
                Reread(x, k) \/ RereadUnknown(x, k) \/ RereadFails(x, k)
  BY <1>2, <1>4, HandlerSteps
<1>5. CASE DispatchAdded \/ DispatchRemoved \/ DispatchChanged \/ DispatchIgnored
  BY <1>a, <1>1, <1>2, <1>5, DispatchSteps DEF Live
<1>6. CASE DispatchOwnerChanged \/ Failure
  BY <1>6, <1>a DEF DispatchOwnerChanged, ConnectionFailed, Failure,
                    GetManagedObjectsFails, EventLoopFails, Stop
<1>7. CASE UNCHANGED vars
  <2>1. /\ UNCHANGED <<queue, exists, value, phase, known, cached, adding, fresh,
                       removing, rereading, lost>>
    BY <1>7 DEF vars, service, cache, handler, listener
  <2>2. /\ Kept(o)' = Kept(o) /\ Dropped(o)' = Dropped(o)
        /\ \A k \in Keys : UpToDate(o, k)' = UpToDate(o, k)
    BY <2>1 DEF Kept, Dropped, UpToDate
  <2> QED BY <1>2, <2>1, <2>2, HandlersOnly
<1> QED
  BY <1>3, <1>4, <1>5, <1>6, <1>7 DEF Next, Manager

\* The explanations hold in every reachable state.
LEMMA CurrencyInductive == Spec => []CInv
<1>1. CInv /\ [Next]_vars => CInv'
  BY IInvStep, TurnsStep, CurrencyStep DEF CInv
<1> QED
  BY CInvInit, <1>1, PTL DEF Spec

\* Whatever the service does around GetManagedObjects and however late the
\* signals come, an object the listener lacks is still to be announced, and
\* one the service lacks is still to be retired or the stream to end.
THEOREM NothingMissedHolds == Spec => []NothingMissed
<1>1. CInv => NothingMissed
  <2> SUFFICES ASSUME CInv, phase \in {"discovering", "running"}, ~failed,
                      NEW o \in Object
               PROVE  /\ o \in exists \ told => \/ o \in adding
                           \/ \E i \in DOMAIN queue : Adds(queue[i], o)
                      /\ o \in told \ exists => \/ o \in removing
                           \/ \E i \in DOMAIN queue : Removes(queue[i], o)
    BY DEF NothingMissed
  <2>1. Existence(o) /\ told = known
    BY DEF CInv, Currency, Live, IInv, ListenerMirrorsCache
  <2>2. \A G, B : Settles(queue, G, B) => \E i \in DOMAIN queue : queue[i] \in G
    BY DEF Settles
  <2>3. CASE o \in exists
    BY <2>1, <2>2, <2>3 DEF Existence, Kept, AddsOf
  <2>4. CASE o \notin exists
    BY <2>1, <2>2, <2>4 DEF Existence, Dropped, RemovesOf
  <2> QED BY <2>3, <2>4
<1> QED
  BY <1>1, CurrencyInductive, PTL

\* Once nothing is queued and no handler is in progress, the listener shows
\* the objects the service has with their values, or lacks a value and was
\* told that it could not be read.
THEOREM CurrentWhenQuietHolds == Spec => []CurrentWhenQuiet
<1>1. CInv => CurrentWhenQuiet
  <2> SUFFICES ASSUME CInv, phase = "running", ~failed, Idle, queue = <<>>
               PROVE  Current
    BY DEF CurrentWhenQuiet
  <2>1. \A o \in Object : Existence(o) /\ \A k \in Keys : Freshness(o, k)
    BY DEF CInv, Currency, Live
  <2>2. /\ told = known /\ \A o \in known : shown[o] = cached[o]
        /\ known \subseteq Object
    BY DEF CInv, IInv, ListenerMirrorsCache, TypeOK
  <2>3. \A G, B : ~Settles(queue, G, B)
    BY DEF Settles
  <2>4. \A o \in Object : o \in exists <=> o \in known
    BY <2>1, <2>3 DEF Existence, Kept, Dropped, Idle
  <2>5. \A o \in known, k \in Keys :
          \/ cached[o][k] = value[o][k]
          \/ <<o, k>> \in lost /\ cached[o][k] = NoValue
    BY <2>1, <2>2, <2>3, <2>4 DEF Freshness, UpToDate, Idle
  <2> QED BY <2>2, <2>4, <2>5 DEF Current
<1> QED
  BY <1>1, CurrencyInductive, PTL

=============================================================================

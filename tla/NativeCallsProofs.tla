-------------------------- MODULE NativeCallsProofs --------------------------
(***************************************************************************)
(* Proofs about NativeCalls, for any threads, texts and folders.           *)
(***************************************************************************)
EXTENDS NativeCalls, SequenceTheorems, WellFoundedInduction, TLAPS

(***************************************************************************)
(* The tables.                                                             *)
(***************************************************************************)
\* A key of a joined table has the value one of the tables gives it.
LEMMA JoinedValue ==
  ASSUME NEW tables, NEW key \in DOMAIN Joined(tables)
  PROVE  \E i \in DOMAIN tables :
           key \in DOMAIN tables[i] /\ Joined(tables)[key] = tables[i][key]
<1> DEFINE at == CHOOSE j \in DOMAIN tables : key \in DOMAIN tables[j]
<1>1. \E j \in DOMAIN tables : key \in DOMAIN tables[j]
  BY DEF Joined
<1>2. at \in DOMAIN tables /\ key \in DOMAIN tables[at]
  BY <1>1
<1>3. Joined(tables)[key] = tables[at][key]
  BY <1>1 DEF Joined
<1> QED BY <1>2, <1>3

\* What a table of proxy functions says: at most two D-Bus methods in a row.
Short(table) ==
  \A does \in DOMAIN table :
    \E first, second : table[does] \in {<<first>>, <<first, second>>}

\* No proxy function invokes more than two methods.
LEMMA ShortProxies == Short(Proxies)
<1> DEFINE tables == <<SessionProxy, TransferProxy, PhonebookProxy,
                       MessageAccessProxy, MessageProxy, managed_objects, devices>>
<1>1. Short(SessionProxy)
  BY DEF Short, SessionProxy, get_all_properties
<1>2. Short(TransferProxy)
  BY DEF Short, TransferProxy, get_all_properties
<1>3. Short(PhonebookProxy)
  BY DEF Short, PhonebookProxy, get_all_properties
<1>4. Short(MessageAccessProxy)
  BY DEF Short, MessageAccessProxy, get_all_properties
<1>5. Short(MessageProxy)
  BY DEF Short, MessageProxy, get_all_properties
<1>6. Short(managed_objects) /\ Short(devices)
  BY DEF Short, managed_objects, devices
<1>7. \A i \in DOMAIN tables : Short(tables[i])
  BY <1>1, <1>2, <1>3, <1>4, <1>5, <1>6
<1>8. Proxies = Joined(tables)
  BY DEF Proxies
<1> HIDE DEF tables
<1> QED BY <1>7, <1>8, JoinedValue DEF Short

\* Every entry point does something that is known.
Known(table) ==
  \A entry \in DOMAIN table : table[entry].does \in DOMAIN Proxies \cup {"list_messages"}

LEMMA ProxyFunctions ==
  DOMAIN Proxies = DOMAIN SessionProxy \cup DOMAIN TransferProxy
    \cup DOMAIN PhonebookProxy \cup DOMAIN MessageAccessProxy
    \cup DOMAIN MessageProxy \cup DOMAIN managed_objects \cup DOMAIN devices
BY DEF Proxies, Joined

LEMMA KnownEntryPoints == Known(EntryPoints)
<1> DEFINE tables == <<SessionCalls, TransferCalls, ObjectCalls, PhonebookPullCalls,
                       PhonebookQueryCalls, MessageAccessCalls, MessageCalls>>
<1> USE ProxyFunctions DEF Known, Bytes, Status, Filtered
<1>1. Known(SessionCalls)
  BY DEF SessionCalls, SessionProxy
<1>2. Known(TransferCalls)
  BY DEF TransferCalls, TransferProxy
<1>3. Known(ObjectCalls)
  BY DEF ObjectCalls, managed_objects, devices
<1>4. Known(PhonebookPullCalls)
  BY DEF PhonebookPullCalls, PhonebookProxy
<1>5. Known(PhonebookQueryCalls)
  BY DEF PhonebookQueryCalls, PhonebookProxy
<1>6. Known(MessageAccessCalls)
  BY DEF MessageAccessCalls, MessageAccessProxy
<1>7. Known(MessageCalls)
  BY DEF MessageCalls, MessageProxy
<1>8. \A i \in DOMAIN tables : Known(tables[i])
  BY <1>1, <1>2, <1>3, <1>4, <1>5, <1>6, <1>7
<1>9. EntryPoints = Joined(tables)
  BY DEF EntryPoints
<1> HIDE DEF tables
<1> QED BY <1>8, <1>9, JoinedValue DEF Known

\* A call sends at most two requests.
LEMMA ShortRequests ==
  ASSUME NEW entry \in DOMAIN EntryPoints, NEW text
  PROVE  Len(Requests(entry, text)) \in 0..MaxRequests
<1>1. CASE EntryPoints[entry].does = "list_messages"
  BY <1>1 DEF Requests, ListMessages, MaxRequests
<1>2. CASE EntryPoints[entry].does \in DOMAIN Proxies
                /\ EntryPoints[entry].does # "list_messages"
  <2> DEFINE does == EntryPoints[entry].does
  <2>1. PICK first, second : Proxies[does] \in {<<first>>, <<first, second>>}
    BY <1>2, ShortProxies DEF Short
  <2>2. Requests(entry, text)
          = [i \in DOMAIN Proxies[does] |-> Request(Proxies[does][i], text)]
    BY <1>2 DEF Requests
  <2>3. CASE Proxies[does] = <<first>>
    <3>1. DOMAIN Proxies[does] = 1..1
      BY <2>3
    <3> QED BY <2>2, <3>1 DEF MaxRequests
  <2>4. CASE Proxies[does] = <<first, second>>
    <3>1. DOMAIN Proxies[does] = 1..2
      BY <2>4
    <3> QED BY <2>2, <3>1 DEF MaxRequests
  <2> QED BY <2>1, <2>3, <2>4
<1> QED BY <1>1, <1>2, KnownEntryPoints DEF Known

(***************************************************************************)
(* The inductive invariant.                                                *)
(***************************************************************************)
\* Request i of a call has been answered, or is one it does without.
Behind(c, i) == c.ran[i] = 1 \/ (Optional(c.entry, i) /\ c.ran[i] = 0)

\* The requests of a call are run from the first to the one it has come to;
\* that one is run when it fails, if at all, and none is run after it.
SentInOrder(t) ==
  \A i \in 1..MaxRequests :
    /\ i < call[t].at => Behind(call[t], i)
    /\ i > call[t].at => call[t].ran[i] = 0
    /\ i = call[t].at => call[t].ran[i] <= 1
    /\ i = call[t].at /\ call[t].phase # "failed" => call[t].ran[i] = 0

\* How far a call can be, by how it went.
EndsWhereItStopped(t) ==
  /\ call[t].phase = "ok" => call[t].at > Len(ToSend(t))
  /\ call[t].phase \in {"idle", "refused"} => call[t].at = 1
  /\ call[t].cause # "none" <=> call[t].phase = "failed"
  /\ call[t].cause = "arguments" => \A i \in 1..MaxRequests : call[t].ran[i] = 0

\* last_error is that of the call in hand, or of an earlier one.
LastErrorOK(t) ==
  lastError[t] = IF call[t].phase = "failed"
                 THEN [cause |-> call[t].cause, of |-> "current"] ELSE Earlier

Good(t) == SentInOrder(t) /\ EndsWhereItStopped(t) /\ LastErrorOK(t)

IInv == TypeOK /\ \A t \in Threads : Good(t)

\* The initial states satisfy the inductive invariant.
LEMMA IInvInit == Init => IInv
<1> SUFFICES ASSUME Init PROVE IInv
  OBVIOUS
<1>1. Idle \in Calls
  BY DEF Idle, Calls, MaxRequests
<1>2. TypeOK
  BY <1>1, TreeAssumption DEF TreeAssumption, Init, Idle, Earlier, TypeOK
<1>3. \A t \in Threads : call[t] = Idle /\ lastError[t] = Earlier
  BY DEF Init
<1> QED BY <1>2, <1>3 DEF IInv, Good, SentInOrder, EndsWhereItStopped, LastErrorOK, Idle,
   Causes, MaxRequests

\* Thread u's call is where it was, but for the history variable start.
Untouched(u) ==
  /\ lastError'[u] = lastError[u]
  /\ \E start \in Tree \cup {NoFolder} : call'[u] = [call[u] EXCEPT !.start = start]

\* A step of one thread is about that thread.
LEMMA OneThread ==
  ASSUME IInv, NEW t \in Threads, TypeOK', Good(t)', \A u \in Threads \ {t} : Untouched(u)
  PROVE  IInv'
<1> SUFFICES ASSUME NEW u \in Threads \ {t} PROVE Good(u)'
  BY DEF IInv
<1>1. /\ call'[u].phase = call[u].phase /\ call'[u].entry = call[u].entry
      /\ call'[u].text = call[u].text /\ call'[u].at = call[u].at
      /\ call'[u].ran = call[u].ran /\ call'[u].cause = call[u].cause
      /\ lastError'[u] = lastError[u]
  BY DEF Untouched, IInv, TypeOK, Calls
<1>2. SentInOrder(u)'
  BY <1>1 DEF IInv, Good, SentInOrder, Behind, Optional
<1>3. EndsWhereItStopped(u)'
  BY <1>1 DEF IInv, Good, EndsWhereItStopped, ToSend
<1>4. LastErrorOK(u)'
  BY <1>1 DEF IInv, Good, LastErrorOK, Earlier
<1> QED BY <1>2, <1>3, <1>4 DEF Good

\* A request that can be sent is one of the two.
LEMMA AtRequest ==
  ASSUME TypeOK, NEW t \in Threads, Pending(t)
  PROVE  call[t].phase = "calling" /\ call[t].at \in 1..MaxRequests
<1>1. call[t].entry \in DOMAIN EntryPoints
  BY UsesAssumption DEF UsesAssumption, TypeOK, Pending
<1>2. Len(ToSend(t)) \in 0..MaxRequests
  BY <1>1, ShortRequests DEF ToSend
<1>3. call[t].at \in 1..MaxRequests + 1 /\ call[t].at <= Len(ToSend(t))
  BY DEF TypeOK, Calls, Pending
<1>4. call[t].at \in 1..MaxRequests
  <2> DEFINE at == call[t].at
             sends == Len(ToSend(t))
  <2>1. sends \in 0..2 /\ at \in 1..3 /\ at <= sends
    BY <1>2, <1>3 DEF MaxRequests
  <2> HIDE DEF at, sends
  <2>2. at \in 1..2
    BY <2>1
  <2> QED BY <2>2 DEF at, MaxRequests
<1>5. call[t].phase = "calling"
  BY DEF Pending
<1> QED BY <1>4, <1>5

\* A request is counted.
LEMMA Counted ==
  ASSUME NEW c \in Calls, NEW i \in 1..MaxRequests, NEW n \in 0..1
  PROVE  LET done == [c EXCEPT !.ran[i] = @ + n]
         IN  /\ done \in Calls
             /\ done.ran = [c.ran EXCEPT ![i] = @ + n]
             /\ done.phase = c.phase /\ done.entry = c.entry /\ done.text = c.text
             /\ done.at = c.at /\ done.cause = c.cause
<1> DEFINE ran == [c.ran EXCEPT ![i] = @ + n]
           done == [c EXCEPT !.ran = ran]
<1>1. ran \in [1..MaxRequests -> Nat]
  <2>1. c.ran \in [1..MaxRequests -> Nat]
    BY DEF Calls
  <2>2. ASSUME NEW r \in [1..MaxRequests -> Nat]
        PROVE  [r EXCEPT ![i] = @ + n] \in [1..MaxRequests -> Nat]
    OBVIOUS
  <2> QED BY <2>1, <2>2
<1> HIDE DEF ran
<1>2. /\ done \in Calls /\ done.ran = ran
      /\ done.phase = c.phase /\ done.entry = c.entry /\ done.text = c.text
      /\ done.at = c.at /\ done.cause = c.cause
  BY <1>1 DEF Calls
<1>3. done = [c EXCEPT !.ran[i] = @ + n]
  BY DEF ran
<1> QED BY <1>2, <1>3 DEF ran

\* What the others see of a request that is run.
LEMMA RanTouchesOne ==
  ASSUME TypeOK, NEW t \in Threads, NEW n, NEW f \in Tree, NEW c, Ran(t, n, f, c),
         \A u \in Threads \ {t} : lastError'[u] = lastError[u]
  PROVE  /\ \A u \in Threads \ {t} : Untouched(u)
         /\ call'[t] = [c EXCEPT !.ran[call[t].at] = @ + n]
         /\ call' = [u \in Threads |-> call'[u]]
         /\ folder' = f
<1>1. ASSUME NEW u \in Threads \ {t} PROVE Untouched(u)
  <2> DEFINE start == IF f # folder THEN NoFolder ELSE call[u].start
  <2>1. call'[u] = [call[u] EXCEPT !.start = start]
    BY DEF Ran
  <2>2. start \in Tree \cup {NoFolder}
    BY DEF TypeOK, Calls
  <2> HIDE DEF start
  <2> QED BY <2>1, <2>2 DEF Untouched
<1>2. call' = [u \in Threads |-> call'[u]]
  <2> DEFINE ran == [u \in Threads |->
                       IF u = t
                       THEN [c EXCEPT !.ran[call[t].at] = @ + n]
                       ELSE [call[u] EXCEPT
                               !.start = IF f # folder THEN NoFolder ELSE @]]
  <2>1. call' = ran
    BY DEF Ran
  <2>2. ran = [u \in Threads |-> ran[u]]
    OBVIOUS
  <2> HIDE DEF ran
  <2> QED BY <2>1, <2>2
<1> QED BY <1>1, <1>2 DEF Ran

\* The types hold after a step of one thread.
LEMMA TypeStep ==
  ASSUME TypeOK, NEW t \in Threads, \A u \in Threads \ {t} : Untouched(u),
         call' = [u \in Threads |-> call'[u]],
         lastError' = [u \in Threads |-> lastError'[u]],
         call'[t] \in Calls, call'[t].phase # "idle" => call'[t].entry \in Uses[t],
         lastError'[t] \in [cause : Causes \cup {"none"}, of : {"earlier", "current"}],
         folder' \in Tree
  PROVE  TypeOK'
<1>0. ASSUME NEW u \in Threads \ {t}
      PROVE  call'[u] \in Calls /\ (call'[u].phase # "idle" => call'[u].entry \in Uses[u])
  <2>1. PICK start \in Tree \cup {NoFolder} : call'[u] = [call[u] EXCEPT !.start = start]
    BY DEF Untouched
  <2>2. call[u] \in Calls /\ (call[u].phase # "idle" => call[u].entry \in Uses[u])
    BY DEF TypeOK
  <2>3. call'[u] \in Calls
    BY <2>1, <2>2 DEF Calls
  <2>4. call'[u].phase = call[u].phase /\ call'[u].entry = call[u].entry
    BY <2>1, <2>2 DEF Calls
  <2> QED BY <2>2, <2>3, <2>4
<1>1. \A u \in Threads : call'[u] \in Calls
  BY <1>0
<1>2. \A u \in Threads : call'[u].phase # "idle" => call'[u].entry \in Uses[u]
  BY <1>0
<1>3. \A u \in Threads : lastError'[u] \in [cause : Causes \cup {"none"},
                                            of : {"earlier", "current", "other"}]
  <2>1. lastError'[t] \in [cause : Causes \cup {"none"},
                           of : {"earlier", "current", "other"}]
    OBVIOUS
  <2>2. \A u \in Threads \ {t} : lastError'[u] \in [cause : Causes \cup {"none"},
                                             of : {"earlier", "current", "other"}]
    BY DEF TypeOK, Untouched
  <2> QED BY <2>1, <2>2
<1>4. call' \in [Threads -> Calls]
  <2>1. [u \in Threads |-> call'[u]] \in [Threads -> Calls]
    BY <1>1
  <2> QED BY <2>1
<1>5. lastError' \in [Threads -> [cause : Causes \cup {"none"},
                                  of : {"earlier", "current", "other"}]]
  <2>1. [u \in Threads |-> lastError'[u]]
          \in [Threads -> [cause : Causes \cup {"none"},
                           of : {"earlier", "current", "other"}]]
    BY <1>3
  <2> QED BY <2>1
<1> QED BY <1>2, <1>4, <1>5 DEF TypeOK

\* A step of a thread preserves the inductive invariant.
LEMMA IInvStep ==
  ASSUME IInv, NEW t \in Threads, Step(t)
  PROVE  IInv'
<1>0. TypeOK /\ Good(t) /\ call[t] \in Calls
  BY DEF IInv, TypeOK
<1> DEFINE Rest(c, error) ==
             /\ call' = [call EXCEPT ![t] = c]
             /\ lastError' = [lastError EXCEPT ![t] = error]
             /\ folder' = folder
<1>1. ASSUME NEW c \in Calls,
             NEW error \in [cause : Causes \cup {"none"}, of : {"earlier", "current"}],
             Rest(c, error), c.phase # "idle" => c.entry \in Uses[t], Good(t)'
      PROVE  IInv'
  <2>1. \A u \in Threads \ {t} : Untouched(u)
    <3> SUFFICES ASSUME NEW u \in Threads \ {t} PROVE Untouched(u)
      OBVIOUS
    <3>1. call'[u] = call[u] /\ lastError'[u] = lastError[u]
      BY <1>0, <1>1 DEF TypeOK
    <3>2. call[u] = [call[u] EXCEPT !.start = call[u].start]
      BY <1>0 DEF TypeOK, Calls
    <3>3. call[u].start \in Tree \cup {NoFolder}
      BY <1>0 DEF TypeOK, Calls
    <3> QED BY <3>1, <3>2, <3>3 DEF Untouched
  <2>2. call'[t] = c /\ lastError'[t] = error
    BY <1>0, <1>1 DEF TypeOK
  <2>3. TypeOK'
    BY <1>0, <1>1, <2>1, <2>2, TypeStep DEF TypeOK
  <2> QED BY <1>1, <2>1, <2>3, OneThread
<1>2. CASE Refuse(t)
  <2> DEFINE c == [call[t] EXCEPT !.phase = "refused"]
             error == lastError[t]
  <2>1. Rest(c, error)
    BY <1>2, <1>0 DEF Refuse, IInv, TypeOK
  <2>2. c \in Calls /\ (c.phase # "idle" => c.entry \in Uses[t])
    BY <1>0, <1>2 DEF Refuse, TypeOK, Calls
  <2>3. error \in [cause : Causes \cup {"none"}, of : {"earlier", "current"}]
    BY <1>0, <1>2 DEF Refuse, Good, LastErrorOK, Earlier, Causes
  <2>4. call'[t] = c /\ lastError'[t] = error
    BY <2>1, <1>0 DEF TypeOK, IInv
  <2>5. Good(t)'
    BY <2>4, <1>0, <1>2 DEF Refuse, Good, SentInOrder, Behind, EndsWhereItStopped,
       LastErrorOK, ToSend, Calls, Earlier, MaxRequests, Failed, Idle
  <2> HIDE DEF c, error
  <2> QED BY <1>1, <2>1, <2>2, <2>3, <2>5
<1>3. CASE RejectArguments(t)
  <2> DEFINE c == Failed(call[t], "arguments")
             error == [cause |-> "arguments", of |-> "current"]
  <2>1. Rest(c, error)
    BY <1>3, <1>0 DEF RejectArguments, record_error
  <2>2. c \in Calls /\ (c.phase # "idle" => c.entry \in Uses[t])
    BY <1>0, <1>3 DEF RejectArguments, Failed, TypeOK, Calls, Causes
  <2>3. error \in [cause : Causes \cup {"none"}, of : {"earlier", "current"}]
    BY <1>0, <1>3 DEF RejectArguments, Good, LastErrorOK, Earlier, Causes
  <2>4. call'[t] = c /\ lastError'[t] = error
    BY <2>1, <1>0 DEF TypeOK, IInv
  <2>5. Good(t)'
    BY <2>4, <1>0, <1>3 DEF RejectArguments, Good, SentInOrder, Behind, EndsWhereItStopped,
       LastErrorOK, ToSend, Calls, Earlier, MaxRequests, Failed, Idle
  <2> HIDE DEF c, error
  <2> QED BY <1>1, <2>1, <2>2, <2>3, <2>5
<1>4. CASE Return(t)
  <2> DEFINE c == [call[t] EXCEPT !.phase = "ok"]
             error == lastError[t]
  <2>1. Rest(c, error)
    BY <1>4, <1>0 DEF Return, IInv, TypeOK
  <2>2. c \in Calls /\ (c.phase # "idle" => c.entry \in Uses[t])
    BY <1>0, <1>4 DEF Return, TypeOK, Calls
  <2>3. error \in [cause : Causes \cup {"none"}, of : {"earlier", "current"}]
    BY <1>0, <1>4 DEF Return, Good, LastErrorOK, Earlier, Causes
  <2>4. call'[t] = c /\ lastError'[t] = error
    BY <2>1, <1>0 DEF TypeOK, IInv
  <2>5. Good(t)'
    BY <2>4, <1>0, <1>4 DEF Return, Good, SentInOrder, Behind, EndsWhereItStopped,
       LastErrorOK, ToSend, Calls, Earlier, MaxRequests, Failed, Idle
  <2> HIDE DEF c, error
  <2> QED BY <1>1, <2>1, <2>2, <2>3, <2>5
<1>5. CASE NoMemory(t)
  <2> DEFINE c == Failed(call[t], "memory")
             error == [cause |-> "memory", of |-> "current"]
  <2>1. Rest(c, error)
    BY <1>5, <1>0 DEF NoMemory, record_error
  <2>2. c \in Calls /\ (c.phase # "idle" => c.entry \in Uses[t])
    BY <1>0, <1>5 DEF NoMemory, Failed, TypeOK, Calls, Causes
  <2>3. error \in [cause : Causes \cup {"none"}, of : {"earlier", "current"}]
    BY <1>0, <1>5 DEF NoMemory, Good, LastErrorOK, Earlier, Causes
  <2>4. call'[t] = c /\ lastError'[t] = error
    BY <2>1, <1>0 DEF TypeOK, IInv
  <2>5. Good(t)'
    BY <2>4, <1>0, <1>5 DEF NoMemory, Good, SentInOrder, Behind, EndsWhereItStopped,
       LastErrorOK, ToSend, Calls, Earlier, MaxRequests, Failed, Idle
  <2> HIDE DEF c, error
  <2> QED BY <1>1, <2>1, <2>2, <2>3, <2>5
<1>6. CASE Take(t)
  <2> DEFINE c == Idle
             error == Earlier
  <2>1. Rest(c, error)
    BY <1>6, <1>0 DEF Take
  <2>2. c \in Calls /\ (c.phase # "idle" => c.entry \in Uses[t])
    BY <1>0, <1>6 DEF Idle, Calls, Causes, MaxRequests
  <2>3. error \in [cause : Causes \cup {"none"}, of : {"earlier", "current"}]
    BY <1>0, <1>6 DEF Take, Good, LastErrorOK, Earlier, Causes
  <2>4. call'[t] = c /\ lastError'[t] = error
    BY <2>1, <1>0 DEF TypeOK, IInv
  <2>5. Good(t)'
    BY <2>4, <1>0, <1>6 DEF Take, Good, SentInOrder, Behind, EndsWhereItStopped,
       LastErrorOK, ToSend, Calls, Earlier, MaxRequests, Failed, Idle
  <2> HIDE DEF c, error
  <2> QED BY <1>1, <2>1, <2>2, <2>3, <2>5
<1>7. CASE Call(t)
  <2>1. PICK entry \in Uses[t] : \E text \in TextsOf(entry) :
          /\ call[t].phase = "idle"
          /\ call' = [call EXCEPT ![t] = Begun(entry, text)]
          /\ UNCHANGED <<lastError, folder>>
    BY <1>7 DEF Call
  <2>2. PICK text \in TextsOf(entry) :
          /\ call[t].phase = "idle"
          /\ call' = [call EXCEPT ![t] = Begun(entry, text)]
          /\ UNCHANGED <<lastError, folder>>
    BY <2>1
  <2> DEFINE c == Begun(entry, text)
  <2>3. lastError[t] = Earlier
    BY <1>0, <2>2 DEF Good, LastErrorOK
  <2>4. Rest(c, Earlier)
    BY <1>0, <2>2, <2>3 DEF TypeOK
  <2>5. entry \in DOMAIN EntryPoints /\ text \in Texts \cup {<<>>}
    BY UsesAssumption DEF UsesAssumption, TextsOf
  <2>6. folder \in Tree
    BY <1>0 DEF TypeOK
  <2>7. /\ c \in Calls
        /\ c.phase = "calling" /\ c.entry = entry /\ c.at = 1 /\ c.cause = "none"
        /\ c.ran = [i \in 1..MaxRequests |-> 0]
    <3>1. /\ Idle \in Calls /\ Idle.at = 1 /\ Idle.cause = "none"
          /\ Idle.ran = [i \in 1..MaxRequests |-> 0]
      BY DEF Idle, Calls, MaxRequests
    <3> QED BY <2>5, <2>6, <3>1 DEF Begun, Calls
  <2>8. c \in Calls /\ c.entry \in Uses[t]
    BY <2>7
  <2>9. call'[t] = c /\ lastError'[t] = Earlier
    BY <1>0, <2>4 DEF TypeOK
  <2>10. Good(t)'
    BY <2>7, <2>9 DEF Good, SentInOrder, Behind, EndsWhereItStopped, LastErrorOK, Earlier,
       MaxRequests
  <2>11. Earlier \in [cause : Causes \cup {"none"}, of : {"earlier", "current"}]
    BY DEF Earlier
  <2> HIDE DEF c, Rest
  <2> QED BY <1>1, <2>4, <2>8, <2>10, <2>11
<1>8. CASE Serve(t)
  <2>1. PICK f \in Tree, there \in Tree \cup {NoFolder} :
          Ran(t, 1, f, [Answered(call[t]) EXCEPT !.listed = there])
    <3>1. Answered(call[t]) = [Answered(call[t]) EXCEPT !.listed = call[t].listed]
      BY <1>0 DEF Answered, Calls
    <3>2. call[t].listed \in Tree \cup {NoFolder} /\ folder \in Tree
      BY <1>0 DEF Calls, TypeOK
    <3> QED BY <1>8, <3>1, <3>2 DEF Serve
  <2>2. call[t].phase = "calling" /\ call[t].at \in 1..MaxRequests /\ Pending(t)
    BY <1>0, <1>8, AtRequest DEF Serve, NotServed
  <2> DEFINE c == [Answered(call[t]) EXCEPT !.listed = there]
             done == [c EXCEPT !.ran[call[t].at] = @ + 1]
  <2>3. /\ \A u \in Threads : lastError'[u] = lastError[u]
        /\ lastError' = [u \in Threads |-> lastError'[u]]
    BY <1>0, <1>8 DEF Serve, TypeOK
  <2>4. /\ \A u \in Threads \ {t} : Untouched(u)
        /\ call'[t] = done
        /\ call' = [u \in Threads |-> call'[u]]
        /\ folder' = f
    <3>1. Ran(t, 1, f, c)
      BY <2>1
    <3> HIDE DEF c
    <3> QED BY <1>0, <2>3, <3>1, RanTouchesOne
  <2>5. lastError[t] = Earlier /\ call[t].entry \in Uses[t]
    BY <1>0, <2>2 DEF Good, LastErrorOK, TypeOK
  <2>6. done \in Calls /\ done.entry \in Uses[t]
    <3>1. c \in Calls /\ c.entry = call[t].entry
      <4>1. /\ Answered(call[t]) \in Calls
            /\ Answered(call[t]).entry = call[t].entry
        BY <1>0, <2>2 DEF Answered, Calls, Causes, MaxRequests
      <4> QED BY <4>1 DEF Calls
    <3>2. 1 \in 0..1 /\ call[t].at \in 1..MaxRequests
      BY <2>2
    <3> HIDE DEF c
    <3>3. done \in Calls /\ done.entry = c.entry
      BY <3>1, <3>2, Counted
    <3> QED BY <2>5, <3>1, <3>3
  <2>7. Good(t)'
    <3>1. SentInOrder(t)'
      BY <1>0, <1>8, <2>2, <2>4 DEF Serve, Answered, Good, SentInOrder, Behind, Optional,
         Calls, MaxRequests
    <3>2. EndsWhereItStopped(t)'
      BY <1>0, <2>2, <2>4 DEF Answered, Good, EndsWhereItStopped, Calls, Causes
    <3>3. LastErrorOK(t)'
      BY <1>0, <2>1, <2>2, <2>3, <2>4, <2>5 DEF Answered, LastErrorOK, Calls, Earlier
    <3> QED BY <3>1, <3>2, <3>3 DEF Good
  <2>8. TypeOK'
    <3>1. lastError'[t] \in [cause : Causes \cup {"none"}, of : {"earlier", "current"}]
      BY <2>3, <2>5 DEF Earlier, Causes
    <3>2. call'[t] \in Calls /\ call'[t].entry \in Uses[t] /\ folder' \in Tree
      BY <2>4, <2>6
    <3> QED BY <1>0, <2>3, <2>4, <3>1, <3>2, TypeStep
  <2> QED BY <2>4, <2>7, <2>8, OneThread
<1>9. CASE Fail(t)
  <2>1. PICK n \in 0..1, cause \in {"bus", "reply"}, f \in Tree :
          Ran(t, n, f, Failed(call[t], cause)) /\ record_error(t, cause)
    BY <1>0, <1>9 DEF Fail, NotServed, TypeOK
  <2>2. call[t].phase = "calling" /\ call[t].at \in 1..MaxRequests /\ Pending(t)
    BY <1>0, <1>9, AtRequest DEF Fail, NotServed
  <2> DEFINE c == Failed(call[t], cause)
             done == [c EXCEPT !.ran[call[t].at] = @ + n]
  <2>3. /\ \A u \in Threads \ {t} : lastError'[u] = lastError[u]
        /\ lastError' = [u \in Threads |-> lastError'[u]]
        /\ lastError'[t] = [cause |-> cause, of |-> "current"]
    BY <1>0, <2>1 DEF record_error, TypeOK
  <2>4. /\ \A u \in Threads \ {t} : Untouched(u)
        /\ call'[t] = done
        /\ call' = [u \in Threads |-> call'[u]]
        /\ folder' = f
    BY <1>0, <2>1, <2>3, RanTouchesOne
  <2>5. lastError[t] = Earlier /\ call[t].entry \in Uses[t]
    BY <1>0, <2>2 DEF Good, LastErrorOK, TypeOK
  <2>6. done \in Calls /\ done.entry \in Uses[t]
    <3>1. c \in Calls /\ c.entry = call[t].entry
      BY <1>0, <2>2 DEF Failed, Calls, Causes, MaxRequests
    <3>2. n \in 0..1 /\ call[t].at \in 1..MaxRequests
      BY <2>2
    <3> HIDE DEF c
    <3>3. done \in Calls /\ done.entry = c.entry
      BY <3>1, <3>2, Counted
    <3> QED BY <2>5, <3>1, <3>3
  <2>7. Good(t)'
    <3>1. SentInOrder(t)'
      BY <1>0, <1>9, <2>2, <2>4 DEF Fail, Failed, Good, SentInOrder, Behind, Optional,
         Calls, MaxRequests
    <3>2. EndsWhereItStopped(t)'
      BY <1>0, <2>2, <2>4 DEF Failed, Good, EndsWhereItStopped, Calls, Causes
    <3>3. LastErrorOK(t)'
      BY <1>0, <2>1, <2>2, <2>3, <2>4, <2>5 DEF Failed, LastErrorOK, Calls, Earlier
    <3> QED BY <3>1, <3>2, <3>3 DEF Good
  <2>8. TypeOK'
    <3>1. lastError'[t] \in [cause : Causes \cup {"none"}, of : {"earlier", "current"}]
      BY <2>3, <2>5 DEF Earlier, Causes
    <3>2. call'[t] \in Calls /\ call'[t].entry \in Uses[t] /\ folder' \in Tree
      BY <2>4, <2>6
    <3> QED BY <1>0, <2>3, <2>4, <3>1, <3>2, TypeStep
  <2> QED BY <2>4, <2>7, <2>8, OneThread
<1>10. CASE GoWithout(t)
  <2>1. PICK n \in 0..1, f \in Tree : Ran(t, n, f, Answered(call[t]))
    BY <1>0, <1>10 DEF GoWithout, NotServed, TypeOK
  <2>2. call[t].phase = "calling" /\ call[t].at \in 1..MaxRequests /\ Pending(t)
    BY <1>0, <1>10, AtRequest DEF GoWithout, NotServed
  <2> DEFINE c == Answered(call[t])
             done == [c EXCEPT !.ran[call[t].at] = @ + n]
  <2>3. /\ \A u \in Threads : lastError'[u] = lastError[u]
        /\ lastError' = [u \in Threads |-> lastError'[u]]
    BY <1>0, <1>10 DEF GoWithout, TypeOK
  <2>4. /\ \A u \in Threads \ {t} : Untouched(u)
        /\ call'[t] = done
        /\ call' = [u \in Threads |-> call'[u]]
        /\ folder' = f
    BY <1>0, <2>1, <2>3, RanTouchesOne
  <2>5. lastError[t] = Earlier /\ call[t].entry \in Uses[t]
    BY <1>0, <2>2 DEF Good, LastErrorOK, TypeOK
  <2>6. done \in Calls /\ done.entry \in Uses[t]
    <3>1. c \in Calls /\ c.entry = call[t].entry
      BY <1>0, <2>2 DEF Answered, Calls, Causes, MaxRequests
    <3>2. n \in 0..1 /\ call[t].at \in 1..MaxRequests
      BY <2>2
    <3> HIDE DEF c
    <3>3. done \in Calls /\ done.entry = c.entry
      BY <3>1, <3>2, Counted
    <3> QED BY <2>5, <3>1, <3>3
  <2>7. Good(t)'
    <3>1. SentInOrder(t)'
      BY <1>0, <1>10, <2>2, <2>4
         DEF GoWithout, Answered, Good, SentInOrder, Behind, Optional,
         Calls, MaxRequests
    <3>2. EndsWhereItStopped(t)'
      BY <1>0, <2>2, <2>4 DEF Answered, Good, EndsWhereItStopped, Calls, Causes
    <3>3. LastErrorOK(t)'
      BY <1>0, <2>1, <2>2, <2>3, <2>4, <2>5 DEF Answered, LastErrorOK, Calls, Earlier
    <3> QED BY <3>1, <3>2, <3>3 DEF Good
  <2>8. TypeOK'
    <3>1. lastError'[t] \in [cause : Causes \cup {"none"}, of : {"earlier", "current"}]
      BY <2>3, <2>5 DEF Earlier, Causes
    <3>2. call'[t] \in Calls /\ call'[t].entry \in Uses[t] /\ folder' \in Tree
      BY <2>4, <2>6
    <3> QED BY <1>0, <2>3, <2>4, <3>1, <3>2, TypeStep
  <2> QED BY <2>4, <2>7, <2>8, OneThread
<1> QED
  BY <1>2, <1>3, <1>4, <1>5, <1>6, <1>7, <1>8, <1>9, <1>10 DEF Step

\* The inductive invariant holds in every reachable state.
LEMMA Inductive == Spec => []IInv
<1>1. IInv /\ [Next]_vars => IInv'
  <2>1. CASE Next
    BY <2>1, IInvStep DEF Next
  <2>2. CASE UNCHANGED vars
    BY <2>2 DEF vars, IInv, TypeOK, Good, SentInOrder, Behind, EndsWhereItStopped,
       LastErrorOK, ToSend
  <2> QED BY <2>1, <2>2
<1> QED BY <1>1, IInvInit, PTL DEF Spec

\* Every variable keeps its type.
THEOREM TypeCorrect == Spec => []TypeOK
BY Inductive, PTL DEF IInv

\* What a caller finds in last_error is the error of its own call
\* (thread_local last_error, record_error).
THEOREM ErrorIsOwnHolds == Spec => []ErrorIsOwn
<1>1. IInv => ErrorIsOwn
  BY DEF IInv, Good, LastErrorOK, ErrorIsOwn
<1> QED BY <1>1, Inductive, PTL

\* A refused call, or one with malformed filters, sent nothing (the checks of
\* the entry points come before make_variant_map, and that before the proxy).
THEOREM RefusedUnsentHolds == Spec => []RefusedUnsent
<1>1. IInv => RefusedUnsent
  BY DEF IInv, Good, SentInOrder, EndsWhereItStopped, RefusedUnsent, MaxRequests
<1> QED BY <1>1, Inductive, PTL

\* Success means that every request ran once, failure that none ran twice and
\* none behind the one that failed (the proxies' requests, in order).
THEOREM ReportedAsExecutedHolds == Spec => []ReportedAsExecuted
<1>1. IInv => ReportedAsExecuted
  <2> SUFFICES ASSUME IInv, NEW t \in Threads
               PROVE  /\ \A i \in 1..MaxRequests : call[t].ran[i] <= 1
                      /\ call[t].phase = "ok" =>
                           \A i \in 1..Len(ToSend(t)) :
                             call[t].ran[i] = 1
                               \/ (call[t].entry = "create_session" /\ i = 2)
                      /\ call[t].phase = "failed" =>
                           \A i \in 1..MaxRequests :
                             /\ i < call[t].at =>
                                  call[t].ran[i] = 1
                                    \/ (call[t].entry = "create_session" /\ i = 2)
                             /\ i > call[t].at => call[t].ran[i] = 0
    BY DEF ReportedAsExecuted
  <2>1. call[t].at \in Nat /\ Good(t)
    BY DEF IInv, TypeOK, Calls, MaxRequests
  <2>2. \A i \in 1..MaxRequests : call[t].ran[i] <= 1
    BY <2>1 DEF Good, SentInOrder, Behind, MaxRequests
  <2>3. \A i \in 1..MaxRequests :
          /\ i < call[t].at =>
               call[t].ran[i] = 1 \/ (call[t].entry = "create_session" /\ i = 2)
          /\ i > call[t].at => call[t].ran[i] = 0
    BY <2>1 DEF Good, SentInOrder, Behind, Optional
  <2>4. ASSUME call[t].phase = "ok", NEW i \in 1..Len(ToSend(t))
        PROVE  call[t].ran[i] = 1 \/ (call[t].entry = "create_session" /\ i = 2)
    <3>1. call[t].entry \in DOMAIN EntryPoints
      BY <2>4, UsesAssumption DEF UsesAssumption, IInv, TypeOK
    <3>2. Len(ToSend(t)) \in 0..MaxRequests
      BY <3>1, ShortRequests DEF ToSend
    <3>3. call[t].at > Len(ToSend(t))
      BY <2>1, <2>4 DEF Good, EndsWhereItStopped
    <3> DEFINE sends == Len(ToSend(t))
    <3> HIDE DEF sends
    <3>4. sends \in 0..MaxRequests /\ call[t].at > sends /\ i \in 1..sends
      BY <3>2, <3>3, <2>4 DEF sends
    <3>5. i \in 1..MaxRequests /\ i < call[t].at
      BY <2>1, <3>4 DEF MaxRequests
    <3> QED BY <2>3, <3>5
  <2> QED BY <2>2, <2>3, <2>4
<1> QED BY <1>1, Inductive, PTL

(***************************************************************************)
(* Induction over numbers, from the library's least elements: its theorem  *)
(* on induction takes an operator.                                         *)
(***************************************************************************)
\* Every set of numbers that is not empty has a least one.
LEMMA LeastNumber ==
  ASSUME NEW T, T \subseteq Nat, T # {}
  PROVE  \E m \in T : \A n \in T : m <= n
<1>1. IsWellFoundedOn(OpToRel(<,Nat), Nat)
  BY NatLessThanWellFounded
<1>2. \E m \in T : \A n \in T : ~ (<<n, m>> \in OpToRel(<,Nat))
  BY <1>1, WFMin
<1>3. \A m, n \in Nat : n < m => <<n, m>> \in OpToRel(<,Nat)
  BY DEF OpToRel
<1>4. PICK m \in T : \A n \in T : ~(n < m)
  BY <1>2, <1>3
<1> QED
  BY <1>4

\* Induction, for a set of numbers.
LEMMA Induction ==
  ASSUME NEW S, 0 \in S, \A n \in Nat : n \in S => n + 1 \in S
  PROVE  \A n \in Nat : n \in S
<1> SUFFICES ASSUME Nat \ S # {} PROVE FALSE
  OBVIOUS
<1>1. PICK m \in Nat \ S : \A n \in Nat \ S : m <= n
  BY LeastNumber
<1>2. m - 1 \in Nat /\ m - 1 \in S
  BY <1>1
<1> QED
  BY <1>1, <1>2

(***************************************************************************)
(* What a text names.                                                      *)
(***************************************************************************)
\* What texts are made of.
Elements == {"/"} \cup UNION {{text[i] : i \in DOMAIN text} : text \in Texts}

\* f collects the names of the first m elements of the text, one by one.
Collects(f, text, m) ==
  f = [n \in 0..m |->
         IF n = 0 THEN <<>>
         ELSE IF text[n] = "/" THEN f[n - 1] ELSE Append(f[n - 1], text[n])]

\* There is such a function, for every number of elements.
LEMMA CollectsExists ==
  ASSUME NEW text
  PROVE  \A m \in Nat : \E f : Collects(f, text, m)
<1> DEFINE S == {m \in Nat : \E f : Collects(f, text, m)}
           Follow(g, n) == IF text[n] = "/" THEN g[n - 1] ELSE Append(g[n - 1], text[n])
<1>1. 0 \in S
  <2> DEFINE f == [n \in 0..0 |-> <<>>]
  <2>1. Collects(f, text, 0)
    BY DEF Collects
  <2> QED BY <2>1
<1>2. ASSUME NEW m \in Nat, m \in S
      PROVE  m + 1 \in S
  <2>1. PICK f : Collects(f, text, m)
    BY <1>2
  <2> DEFINE g == [n \in 0..(m + 1) |-> IF n = m + 1 THEN Follow(f, n) ELSE f[n]]
             h == [n \in 0..(m + 1) |-> IF n = 0 THEN <<>> ELSE Follow(g, n)]
  <2>2. \A n \in 0..m : n # m + 1 /\ n \in 0..(m + 1)
    OBVIOUS
  <2>3. \A n \in 0..m : g[n] = f[n]
    BY <2>2
  <2>4. g[m + 1] = Follow(f, m + 1)
    BY m + 1 \in 0..(m + 1)
  <2>5. f = [n \in 0..m |-> IF n = 0 THEN <<>> ELSE Follow(f, n)]
    BY <2>1 DEF Collects
  <2>6. ASSUME NEW n \in 0..(m + 1) PROVE g[n] = h[n]
    <3>1. h[n] = IF n = 0 THEN <<>> ELSE Follow(g, n)
      OBVIOUS
    <3>2. CASE n = 0
      <4>1. f[n] = <<>>
        <5>1. n \in 0..m
          BY <3>2
        <5> HIDE DEF g, h, Follow
        <5> QED BY <5>1, <2>5, <3>2
      <4> HIDE DEF g, h, Follow
      <4> QED BY <4>1, <3>1, <3>2, <2>3
    <3>3. CASE n # 0 /\ n # m + 1
      <4>1. n \in 0..m /\ n - 1 \in 0..m
        BY <3>3
      <4>2. f[n] = Follow(f, n)
        <5> HIDE DEF Follow, g, h
        <5> QED BY <4>1, <2>5, <3>3
      <4>3. g[n] = f[n] /\ g[n - 1] = f[n - 1]
        <5> HIDE DEF Follow, g, h
        <5> QED BY <4>1, <2>3
      <4> HIDE DEF g, h
      <4> QED BY <4>2, <4>3, <3>1, <3>3
    <3>4. CASE n = m + 1
      <4>1. m \in 0..m /\ n - 1 = m /\ n # 0
        BY <3>4
      <4>2. g[m] = f[m]
        BY <4>1, <2>3
      <4> HIDE DEF g, h
      <4> QED BY <4>1, <4>2, <3>1, <3>4, <2>4
    <3> QED BY <3>2, <3>3, <3>4
  <2>7. g = [n \in 0..(m + 1) |-> g[n]] /\ h = [n \in 0..(m + 1) |-> h[n]]
    OBVIOUS
  <2>8. g = h
    <3> HIDE DEF g, h
    <3> QED BY <2>6, <2>7
  <2>9. Collects(g, text, m + 1)
    <3> HIDE DEF g
    <3> QED BY <2>8 DEF Collects
  <2> QED BY <2>9
<1> HIDE DEF S
<1>3. \A m \in Nat : m \in S
  BY <1>1, <1>2, Induction
<1> QED
  BY <1>3 DEF S

\* Names is the last value of one.
LEMMA NamesCollected ==
  ASSUME NEW text \in Seq(Elements)
  PROVE  \E f : Collects(f, text, Len(text)) /\ Names(text) = f[Len(text)]
<1> DEFINE f == CHOOSE f : Collects(f, text, Len(text))
<1>1. Collects(f, text, Len(text))
  BY CollectsExists
<1>2. Names(text) = f[Len(text)]
  BY DEF Names, Collects
<1> QED
  BY <1>1, <1>2

\* f[n] is what the first n elements of the text name.
ByPrefix(f, text) ==
  /\ f[0] = <<>>
  /\ \A n \in 1..Len(text) :
       f[n] = IF text[n] = "/" THEN f[n - 1] ELSE Append(f[n - 1], text[n])

\* A sequence of one element.
LEMMA OneElement ==
  ASSUME NEW T, NEW x \in T
  PROVE  <<x>> \in Seq(T) /\ Len(<<x>>) = 1 /\ <<x>>[1] = x
OBVIOUS

\* Names is what all the elements of a text name.
LEMMA NamesByPrefix ==
  ASSUME NEW text \in Seq(Elements)
  PROVE  \E f : ByPrefix(f, text) /\ Names(text) = f[Len(text)]
<1>1. PICK f : Collects(f, text, Len(text)) /\ Names(text) = f[Len(text)]
  BY NamesCollected
<1>2. f[0] = <<>>
  <2>1. 0 \in 0..Len(text)
    OBVIOUS
  <2> QED BY <1>1, <2>1 DEF Collects
<1>3. ASSUME NEW n \in 1..Len(text)
      PROVE  f[n] = IF text[n] = "/" THEN f[n - 1] ELSE Append(f[n - 1], text[n])
  <2>1. n \in 0..Len(text) /\ n # 0
    OBVIOUS
  <2> QED BY <1>1, <2>1 DEF Collects
<1> QED
  BY <1>1, <1>2, <1>3 DEF ByPrefix

\* What a prefix names is a sequence, made of what the text is made of.
LEMMA PrefixesTyped ==
  ASSUME NEW text \in Seq(Elements), NEW f, ByPrefix(f, text)
  PROVE  \A n \in 0..Len(text) : f[n] \in Seq(Elements)
<1> DEFINE S == {n \in Nat : n <= Len(text) => f[n] \in Seq(Elements)}
<1>1. 0 \in S
  <2>1. <<>> \in Seq(Elements)
    OBVIOUS
  <2>2. f[0] \in Seq(Elements)
    BY <2>1 DEF ByPrefix
  <2> QED BY <2>2
<1>2. ASSUME NEW n \in Nat, n \in S, n + 1 <= Len(text)
      PROVE  f[n + 1] \in Seq(Elements)
  <2>1. n + 1 \in 1..Len(text) /\ n <= Len(text) /\ (n + 1) - 1 = n
    BY <1>2
  <2>2. f[n] \in Seq(Elements) /\ text[n + 1] \in Elements
    BY <1>2, <2>1
  <2>3. f[n + 1] = IF text[n + 1] = "/" THEN f[n] ELSE Append(f[n], text[n + 1])
    BY <2>1 DEF ByPrefix
  <2>4. ASSUME NEW p \in Seq(Elements), NEW x \in Elements
        PROVE  Append(p, x) \in Seq(Elements)
    BY AppendProperties
  <2>5. Append(f[n], text[n + 1]) \in Seq(Elements)
    BY <2>2, <2>4
  <2> QED BY <2>2, <2>3, <2>5
<1>3. \A n \in Nat : n \in S => n + 1 \in S
  BY <1>2
<1> HIDE DEF S
<1>4. \A n \in Nat : n \in S
  BY <1>1, <1>3, Induction
<1> QED
  BY <1>4 DEF S

\* So are the names of a text.
LEMMA NamesTyped ==
  ASSUME NEW text \in Seq(Elements)
  PROVE  Names(text) \in Seq(Elements)
<1>1. PICK f : ByPrefix(f, text) /\ Names(text) = f[Len(text)]
  BY NamesByPrefix
<1>2. Len(text) \in 0..Len(text)
  OBVIOUS
<1> QED BY <1>1, <1>2, PrefixesTyped

\* Two texts, one behind the other, name what each of them names.
LEMMA NamesJoined ==
  ASSUME NEW a \in Seq(Elements), NEW b \in Seq(Elements)
  PROVE  Names(a \o b) = Names(a) \o Names(b)
<1> DEFINE ab == a \o b
<1>0. /\ ab \in Seq(Elements) /\ Len(ab) = Len(a) + Len(b)
      /\ \A n \in 1..Len(a) : ab[n] = a[n]
      /\ \A n \in 1..Len(b) : ab[Len(a) + n] = b[n]
      /\ Len(a) \in Nat /\ Len(b) \in Nat
  OBVIOUS
<1>1. PICK f : ByPrefix(f, ab) /\ Names(ab) = f[Len(ab)]
  BY <1>0, NamesByPrefix
<1>2. PICK g : ByPrefix(g, a) /\ Names(a) = g[Len(a)]
  BY NamesByPrefix
<1>3. PICK h : ByPrefix(h, b) /\ Names(b) = h[Len(b)]
  BY NamesByPrefix
<1> HIDE DEF ab
<1> DEFINE S == {n \in Nat : n <= Len(a) => f[n] = g[n]}
<1>4. \A n \in Nat : n \in S
  <2>1. 0 \in S
    BY <1>1, <1>2 DEF ByPrefix
  <2>2. ASSUME NEW n \in Nat, n \in S, n + 1 <= Len(a)
        PROVE  f[n + 1] = g[n + 1]
    <3>1. /\ n + 1 \in 1..Len(a) /\ n + 1 \in 1..Len(ab) /\ n <= Len(a)
          /\ (n + 1) - 1 = n
      BY <1>0, <2>2
    <3>2. f[n] = g[n] /\ ab[n + 1] = a[n + 1]
      BY <1>0, <2>2, <3>1
    <3>3. f[n + 1] = IF ab[n + 1] = "/" THEN f[n] ELSE Append(f[n], ab[n + 1])
      BY <1>1, <3>1 DEF ByPrefix
    <3>4. g[n + 1] = IF a[n + 1] = "/" THEN g[n] ELSE Append(g[n], a[n + 1])
      BY <1>2, <3>1 DEF ByPrefix
    <3> QED BY <3>2, <3>3, <3>4
  <2>3. \A n \in Nat : n \in S => n + 1 \in S
    BY <2>2
  <2> HIDE DEF S
  <2> QED BY <2>1, <2>3, Induction
<1>5. f[Len(a)] = Names(a)
  BY <1>0, <1>2, <1>4
<1>6. /\ Names(a) \in Seq(Elements)
      /\ \A n \in 0..Len(b) : h[n] \in Seq(Elements)
  BY <1>3, NamesTyped, PrefixesTyped
<1> DEFINE R == {n \in Nat : n <= Len(b) => f[Len(a) + n] = Names(a) \o h[n]}
<1>7. \A n \in Nat : n \in R
  <2>1. 0 \in R
    <3>1. Names(a) \o <<>> = Names(a) /\ h[0] = <<>> /\ Len(a) + 0 = Len(a)
      BY <1>0, <1>3, <1>6 DEF ByPrefix
    <3> QED BY <1>5, <3>1
  <2>2. ASSUME NEW n \in Nat, n \in R, n + 1 <= Len(b)
        PROVE  f[Len(a) + (n + 1)] = Names(a) \o h[n + 1]
    <3> DEFINE k == Len(a) + (n + 1)
    <3>1. /\ n + 1 \in 1..Len(b) /\ k \in 1..Len(ab) /\ n <= Len(b) /\ n \in 0..Len(b)
          /\ (n + 1) - 1 = n /\ k - 1 = Len(a) + n
      BY <1>0, <2>2
    <3>2. f[k - 1] = Names(a) \o h[n] /\ ab[k] = b[n + 1] /\ b[n + 1] \in Elements
      BY <1>0, <2>2, <3>1
    <3>3. f[k] = IF ab[k] = "/" THEN f[k - 1] ELSE Append(f[k - 1], ab[k])
      <4> HIDE DEF k
      <4> QED BY <1>1, <3>1 DEF ByPrefix
    <3>4. h[n + 1] = IF b[n + 1] = "/" THEN h[n] ELSE Append(h[n], b[n + 1])
      BY <1>3, <3>1 DEF ByPrefix
    <3>5. Append(Names(a) \o h[n], b[n + 1]) = Names(a) \o Append(h[n], b[n + 1])
      <4>1. ASSUME NEW p \in Seq(Elements), NEW q \in Seq(Elements), NEW x \in Elements
            PROVE  Append(p \o q, x) = p \o Append(q, x)
        <5>0. p \o q \in Seq(Elements)
          BY ConcatProperties
        <5>2. <<x>> \in Seq(Elements)
          BY OneElement
        <5>1. /\ Append(p \o q, x) = (p \o q) \o <<x>>
              /\ Append(q, x) = q \o <<x>>
          BY <5>0, AppendIsConcat
        <5> QED BY <5>1, <5>2, ConcatAssociative
      <4>2. h[n] \in Seq(Elements)
        BY <1>6, <3>1
      <4> QED BY <1>6, <3>2, <4>1, <4>2
    <3> HIDE DEF k
    <3>6. f[k] = Names(a) \o h[n + 1]
      BY <3>2, <3>3, <3>4, <3>5
    <3> QED BY <3>6 DEF k
  <2>3. ASSUME NEW n \in Nat, n \in R PROVE n + 1 \in R
    <3>1. CASE n + 1 <= Len(b)
      <4>1. f[Len(a) + (n + 1)] = Names(a) \o h[n + 1]
        BY <2>2, <2>3, <3>1
      <4> QED BY <4>1
    <3>2. CASE ~(n + 1 <= Len(b))
      BY <3>2
    <3> QED BY <3>1, <3>2
  <2> HIDE DEF R
  <2> QED BY <2>1, <2>3, Induction
<1>8. f[Len(a) + Len(b)] = Names(a) \o h[Len(b)]
  BY <1>0, <1>7
<1> QED
  BY <1>0, <1>1, <1>3, <1>8 DEF ab

\* Separators name nothing.
LEMMA NamesOfNone ==
  ASSUME NEW text \in Seq(Elements), \A i \in 1..Len(text) : text[i] = "/"
  PROVE  Names(text) = <<>>
<1>1. PICK f : ByPrefix(f, text) /\ Names(text) = f[Len(text)]
  BY NamesByPrefix
<1> DEFINE S == {n \in Nat : n <= Len(text) => f[n] = <<>>}
<1>2. 0 \in S
  BY <1>1 DEF ByPrefix
<1>3. ASSUME NEW n \in Nat, n \in S, n + 1 <= Len(text)
      PROVE  f[n + 1] = <<>>
  <2>1. n + 1 \in 1..Len(text) /\ n <= Len(text) /\ (n + 1) - 1 = n
    BY <1>3
  <2> QED BY <1>1, <1>3, <2>1 DEF ByPrefix
<1>4. \A n \in Nat : n \in S => n + 1 \in S
  BY <1>3
<1> HIDE DEF S
<1>5. \A n \in Nat : n \in S
  BY <1>2, <1>4, Induction
<1> QED
  BY <1>1, <1>5 DEF S

\* A name names itself.
LEMMA NamesOfOne ==
  ASSUME NEW x \in Elements, x # "/"
  PROVE  Names(<<x>>) = <<x>>
<1>1. <<x>> \in Seq(Elements) /\ Len(<<x>>) = 1 /\ <<x>>[1] = x
  OBVIOUS
<1>2. PICK f : ByPrefix(f, <<x>>) /\ Names(<<x>>) = f[Len(<<x>>)]
  BY <1>1, NamesByPrefix
<1>3. f[0] = <<>> /\ f[1] = Append(f[0], x)
  <2>1. 1 \in 1..Len(<<x>>) /\ 1 - 1 = 0
    BY <1>1
  <2> QED BY <1>1, <1>2, <2>1 DEF ByPrefix
<1> QED BY <1>1, <1>2, <1>3

\* No two names of a text are next to one another.
Separated(text) == \A i \in 1..Len(text) - 1 : "/" \in {text[i], text[i + 1]}

\* Every set of numbers up to n that is not empty has a greatest one.
LEMMA GreatestNumber ==
  ASSUME NEW n \in Nat, NEW T, T \subseteq 1..n, T # {}
  PROVE  \E m \in T : \A i \in T : i <= m
<1> DEFINE below == {n - i : i \in T}
<1>1. below \subseteq Nat /\ below # {}
  <2>1. \A i \in T : n - i \in Nat
    OBVIOUS
  <2> QED BY <2>1
<1>2. PICK d \in below : \A e \in below : d <= e
  BY <1>1, LeastNumber
<1>3. PICK m \in T : d = n - m
  BY <1>2
<1>4. \A i \in T : n - m <= n - i
  BY <1>2, <1>3
<1> QED
  BY <1>4

\* A part of a text, which may be empty.
LEMMA Part ==
  ASSUME NEW s \in Seq(Elements), NEW i \in 1..Len(s) + 1, NEW j \in i - 1..Len(s)
  PROVE  /\ SubSeq(s, i, j) \in Seq(Elements)
         /\ Len(SubSeq(s, i, j)) = (j - i) + 1
         /\ \A k \in 1..(j - i) + 1 :
              /\ (i - 1) + k \in 1..Len(s)
              /\ SubSeq(s, i, j)[k] = s[(i - 1) + k]
<1>1. /\ i \in Int /\ j \in Int /\ (i <= j \/ i = j + 1)
      /\ \A k \in i..j : s[k] \in Elements
  OBVIOUS
<1> DEFINE sub == SubSeq(s, i, j)
<1>2. /\ sub \in Seq(Elements) /\ Len(sub) = IF i <= j THEN (j - i) + 1 ELSE 0
      /\ \A k \in 1..(j - i) + 1 : sub[k] = s[(i + k) - 1]
  BY <1>1, SubSeqProperties
<1> HIDE DEF sub
<1>3. \A k \in 1..(j - i) + 1 : (i + k) - 1 = (i - 1) + k /\ (i - 1) + k \in 1..Len(s)
  BY <1>1
<1>4. Len(sub) = (j - i) + 1
  BY <1>1, <1>2
<1> QED BY <1>2, <1>3, <1>4 DEF sub

\* Parts of a text that adjoin make it up.
LEMMA Adjacent ==
  ASSUME NEW s \in Seq(Elements), NEW i \in 1..Len(s), NEW j \in i..Len(s)
  PROVE  /\ SubSeq(s, 1, i - 1) \o SubSeq(s, i, j) = SubSeq(s, 1, j)
         /\ SubSeq(s, 1, j) \o SubSeq(s, j + 1, Len(s)) = s
<1>1. /\ 1 \in 1..Len(s) + 1 /\ i - 1 \in 1 - 1..Len(s) /\ j \in i - 1..Len(s)
      /\ (i - 1) + 1 = i
  OBVIOUS
<1>2. SubSeq(s, 1, i - 1) \o SubSeq(s, (i - 1) + 1, j) = SubSeq(s, 1, j)
  BY <1>1, ConcatAdjacentSubSeq
<1>3. j \in 1 - 1..Len(s) /\ Len(s) \in j..Len(s)
  OBVIOUS
<1>4. SubSeq(s, 1, j) \o SubSeq(s, j + 1, Len(s)) = SubSeq(s, 1, Len(s))
  BY <1>1, <1>3, ConcatAdjacentSubSeq
<1> QED BY <1>1, <1>2, <1>4, SubSeqFull

\* A text is what Normalized leaves of it between separators.
LEMMA NormalizedText ==
  ASSUME NEW text \in Seq(Elements), Separated(text)
  PROVE  /\ Normalized(text) \in Seq(Elements)
         /\ Separated(Normalized(text))
         /\ Names(Normalized(text)) = Names(text)
         /\ Normalized(text) # <<>> =>
              /\ Normalized(text)[1] # "/"
              /\ Normalized(text)[Len(Normalized(text))] # "/"
<1> DEFINE names == DOMAIN text \ Separators(text)
           first == CHOOSE i \in names : \A j \in names : i <= j
           last == CHOOSE i \in names : \A j \in names : j <= i
<1>0. /\ Len(text) \in Nat /\ DOMAIN text = 1..Len(text)
      /\ \A i \in 1..Len(text) : text[i] \in Elements /\ (i \in names <=> text[i] # "/")
  BY DEF Separators
<1>1. CASE names = {}
  <2>1. Normalized(text) = <<>>
    BY <1>1 DEF Normalized
  <2>2. Names(text) = <<>>
    BY <1>0, <1>1, NamesOfNone
  <2>3. <<>> \in Seq(Elements) /\ Len(<<>>) = 0 /\ Names(<<>>) = <<>>
    <3>1. <<>> \in Seq(Elements) /\ Len(<<>>) = 0
      OBVIOUS
    <3>2. \A i \in 1..Len(<<>>) : <<>>[i] = "/"
      BY <3>1
    <3> QED BY <3>1, <3>2, NamesOfNone
  <2> QED BY <2>1, <2>2, <2>3 DEF Separated
<1>2. CASE names # {}
  <2>1. names \subseteq 1..Len(text) /\ names \subseteq Nat
    BY <1>0
  <2>2. first \in names /\ \A j \in names : first <= j
    <3>1. \E i \in names : \A j \in names : i <= j
      BY <1>2, <2>1, LeastNumber
    <3> QED BY <3>1
  <2>3. last \in names /\ \A j \in names : j <= last
    <3>1. \E i \in names : \A j \in names : j <= i
      BY <1>0, <1>2, <2>1, GreatestNumber
    <3> QED BY <3>1
  <2>4. Normalized(text) = SubSeq(text, first, last)
    BY <1>2 DEF Normalized
  <2>5. /\ first \in 1..Len(text) /\ last \in 1..Len(text) /\ first <= last
        /\ text[first] # "/" /\ text[last] # "/"
        /\ \A i \in 1..Len(text) : i < first \/ last < i => text[i] = "/"
    <3>1. first \in 1..Len(text) /\ last \in 1..Len(text) /\ first <= last
      BY <2>1, <2>2, <2>3
    <3>2. text[first] # "/" /\ text[last] # "/"
      BY <1>0, <2>2, <2>3, <3>1
    <3>3. ASSUME NEW i \in 1..Len(text), i < first \/ last < i
          PROVE  text[i] = "/"
      <4>1. i \notin names
        BY <2>1, <2>2, <2>3, <3>1, <3>3
      <4> QED BY <1>0, <4>1
    <3> QED BY <3>1, <3>2, <3>3
  <2> HIDE DEF first, last, names
  <2> DEFINE before == SubSeq(text, 1, first - 1)
             core == SubSeq(text, first, last)
             behind == SubSeq(text, last + 1, Len(text))
  <2>6. /\ before \in Seq(Elements) /\ \A i \in 1..Len(before) : before[i] = "/"
    <3>1. 1 \in 1..Len(text) + 1 /\ first - 1 \in 1 - 1..Len(text)
      BY <1>0, <2>5
    <3>2. /\ before \in Seq(Elements) /\ Len(before) = ((first - 1) - 1) + 1
          /\ \A i \in 1..((first - 1) - 1) + 1 :
               (1 - 1) + i \in 1..Len(text) /\ before[i] = text[(1 - 1) + i]
      BY <3>1, Part
    <3> HIDE DEF before
    <3>3. \A i \in 1..Len(before) :
            i < first /\ i \in 1..Len(text) /\ before[i] = text[i]
      BY <1>0, <2>5, <3>2
    <3> QED BY <2>5, <3>2, <3>3
  <2>7. /\ core \in Seq(Elements) /\ Len(core) = (last - first) + 1
        /\ \A i \in 1..Len(core) : core[i] = text[(first - 1) + i]
    <3>1. first \in 1..Len(text) + 1 /\ last \in first - 1..Len(text)
      BY <1>0, <2>5
    <3> QED BY <3>1, Part
  <2>8. /\ behind \in Seq(Elements) /\ \A i \in 1..Len(behind) : behind[i] = "/"
    <3>1. last + 1 \in 1..Len(text) + 1 /\ Len(text) \in (last + 1) - 1..Len(text)
      BY <1>0, <2>5
    <3>2. /\ behind \in Seq(Elements) /\ Len(behind) = (Len(text) - (last + 1)) + 1
          /\ \A i \in 1..(Len(text) - (last + 1)) + 1 :
               /\ ((last + 1) - 1) + i \in 1..Len(text)
               /\ behind[i] = text[((last + 1) - 1) + i]
      BY <3>1, Part
    <3> HIDE DEF behind
    <3>3. ASSUME NEW i \in 1..Len(behind)
          PROVE  last < last + i /\ last + i \in 1..Len(text) /\ behind[i] = text[last + i]
      <4>1. i \in 1..(Len(text) - (last + 1)) + 1 /\ ((last + 1) - 1) + i = last + i
        BY <1>0, <2>5, <3>2
      <4> QED BY <2>5, <3>2, <4>1
    <3> QED BY <2>5, <3>2, <3>3
  <2>9. text = (before \o core) \o behind
    <3>1. before \o core = SubSeq(text, 1, last)
      <4>1. first \in 1..Len(text) /\ last \in first..Len(text)
        BY <1>0, <2>5
      <4> QED BY <4>1, Adjacent
    <3>2. SubSeq(text, 1, last) \o behind = text
      <4>1. last \in 1..Len(text) /\ last \in last..Len(text)
        BY <1>0, <2>5
      <4> QED BY <4>1, Adjacent
    <3> QED BY <3>1, <3>2
  <2> HIDE DEF before, core, behind
  <2>10. Names(text) = Names(core)
    <3>1. Names(before) = <<>> /\ Names(behind) = <<>>
      BY <2>6, <2>8, NamesOfNone
    <3>2. before \o core \in Seq(Elements)
      BY <2>6, <2>7, ConcatProperties
    <3>3. Names(text) = (Names(before) \o Names(core)) \o Names(behind)
      BY <2>6, <2>7, <2>8, <2>9, <3>2, NamesJoined
    <3>4. Names(core) \in Seq(Elements)
      BY <2>7, NamesTyped
    <3> QED BY <3>1, <3>3, <3>4, ConcatEmptySeq
  <2>11. Separated(core)
    <3> SUFFICES ASSUME NEW i \in 1..Len(core) - 1
                 PROVE  "/" \in {core[i], core[i + 1]}
      BY DEF Separated
    <3> DEFINE k == (first - 1) + i
    <3>1. /\ i \in 1..Len(core) /\ i + 1 \in 1..Len(core) /\ k \in 1..Len(text) - 1
          /\ k + 1 = (first - 1) + (i + 1)
      BY <1>0, <2>5, <2>7
    <3>2. core[i] = text[k] /\ core[i + 1] = text[k + 1]
      BY <2>7, <3>1
    <3> QED BY <3>1, <3>2 DEF Separated
  <2>12. core[1] # "/" /\ core[Len(core)] # "/"
    <3>1. /\ 1 \in 1..Len(core) /\ Len(core) \in 1..Len(core)
          /\ (first - 1) + 1 = first /\ (first - 1) + Len(core) = last
      BY <1>0, <2>5, <2>7
    <3> QED BY <2>5, <2>7, <3>1
  <2> QED BY <2>4, <2>7, <2>10, <2>11, <2>12 DEF core
<1> QED BY <1>1, <1>2

\* Without a separator there is one name, or none.
LEMMA ListsFlat ==
  ASSUME NEW text \in Seq(Elements), Separated(text), Separators(Normalized(text)) = {}
  PROVE  /\ ListMessages(text) = <<Request("ListMessages", Normalized(text))>>
         /\ ~IsAbsolute(Normalized(text))
         /\ Len(Names(text)) \in 0..1
<1> DEFINE only == Normalized(text)
<1>1. /\ only \in Seq(Elements) /\ Separated(only) /\ Names(only) = Names(text)
      /\ only # <<>> => only[1] # "/"
  BY NormalizedText
<1>2. ListMessages(text) = <<Request("ListMessages", only)>>
  BY DEF ListMessages
<1> HIDE DEF only
<1>3. \A i \in 1..Len(only) : only[i] # "/"
  BY <1>1 DEF Separators, only
<1>4. Len(only) \in 0..1
  <2>1. Len(only) \in Nat
    BY <1>1
  <2>2. ASSUME Len(only) > 1 PROVE FALSE
    <3>1. 1 \in 1..Len(only) - 1 /\ 1 \in 1..Len(only) /\ 1 + 1 \in 1..Len(only)
      BY <2>1, <2>2
    <3>2. only[1] # "/" /\ only[1 + 1] # "/"
      BY <1>3, <3>1
    <3>3. "/" \in {only[1], only[1 + 1]}
      BY <1>1, <3>1 DEF Separated
    <3> QED BY <3>2, <3>3
  <2>3. \A n \in Nat : ~(n > 1) => n \in 0..1
    OBVIOUS
  <2> QED BY <2>1, <2>2, <2>3
<1>5. Len(Names(only)) \in 0..1
  <2>1. CASE Len(only) = 0
    <3>1. \A i \in 1..Len(only) : only[i] = "/"
      BY <2>1
    <3>2. Names(only) = <<>> /\ Len(<<>>) = 0
      BY <1>1, <3>1, NamesOfNone
    <3> QED BY <3>2
  <2>2. CASE Len(only) = 1
    <3>1. only = <<only[1]>> /\ only[1] \in Elements /\ only[1] # "/"
      BY <1>1, <1>3, <2>2
    <3>2. Names(only) = <<only[1]>>
      BY <3>1, NamesOfOne
    <3>3. Len(<<only[1]>>) = 1
      OBVIOUS
    <3> QED BY <3>2, <3>3
  <2> QED BY <1>4, <2>1, <2>2
<1> QED BY <1>1, <1>2, <1>5 DEF IsAbsolute, only

\* With one, the parent and the last name together name what the text names.
LEMMA ListsNested ==
  ASSUME NEW text \in Seq(Elements), Separated(text), Separators(Normalized(text)) # {}
  PROVE  \E parent \in Seq(Elements), child \in Seq(Elements) :
           /\ ListMessages(text) = <<Request("SetFolder", <<"/">> \o parent),
                                     Request("ListMessages", child)>>
           /\ IsAbsolute(<<"/">> \o parent) /\ ~IsAbsolute(child)
           /\ Names(text) = Names(<<"/">> \o parent) \o Names(child)
           /\ Len(Names(text)) > 1
<1> DEFINE all == Normalized(text)
           separators == Separators(all)
           last == CHOOSE i \in separators : \A j \in separators : j <= i
           parent == SubSeq(all, 1, last - 1)
           child == SubSeq(all, last + 1, Len(all))
<1>1. /\ all \in Seq(Elements) /\ Names(all) = Names(text)
      /\ all # <<>> => all[1] # "/" /\ all[Len(all)] # "/"
  BY NormalizedText
<1>2. ListMessages(text) = <<Request("SetFolder", <<"/">> \o parent),
                             Request("ListMessages", child)>>
  BY DEF ListMessages
<1> HIDE DEF all
<1>3. /\ Len(all) \in Nat /\ DOMAIN all = 1..Len(all)
      /\ \A i \in 1..Len(all) : all[i] \in Elements
  BY <1>1
<1>4. /\ separators \subseteq 1..Len(all) /\ separators # {}
      /\ \A i \in 1..Len(all) : i \in separators <=> all[i] = "/"
  BY <1>3 DEF Separators, all
<1> HIDE DEF separators
<1>5. last \in separators /\ \A j \in separators : j <= last
  <2>1. \E i \in separators : \A j \in separators : j <= i
    BY <1>3, <1>4, GreatestNumber
  <2> QED BY <2>1
<1> HIDE DEF last
<1>6. /\ last \in 1..Len(all) /\ all[last] = "/"
      /\ \A i \in 1..Len(all) : last < i => all[i] # "/"
  <2>1. last \in 1..Len(all) /\ all[last] = "/"
    BY <1>4, <1>5
  <2>2. ASSUME NEW i \in 1..Len(all), last < i PROVE all[i] # "/"
    <3>1. i \notin separators
      BY <1>3, <1>4, <1>5, <2>1, <2>2
    <3> QED BY <1>4, <3>1
  <2> QED BY <2>1, <2>2
<1>7. all[1] # "/" /\ all[Len(all)] # "/" /\ last > 1 /\ last < Len(all)
  <2>1. all # <<>>
    BY <1>3, <1>6
  <2>2. all[1] # "/" /\ all[Len(all)] # "/"
    BY <1>1, <2>1
  <2> QED BY <1>3, <1>6, <2>2
<1>8. /\ parent \in Seq(Elements) /\ parent[1] = all[1] /\ Len(parent) = last - 1
      /\ child \in Seq(Elements) /\ Len(child) = Len(all) - last
      /\ \A i \in 1..Len(child) : last + i \in 1..Len(all) /\ child[i] = all[last + i]
  <2>1. 1 \in 1..Len(all) + 1 /\ last - 1 \in 1 - 1..Len(all)
    BY <1>3, <1>6
  <2>2. /\ parent \in Seq(Elements) /\ Len(parent) = ((last - 1) - 1) + 1
        /\ \A i \in 1..((last - 1) - 1) + 1 : parent[i] = all[(1 - 1) + i]
    BY <1>1, <2>1, Part
  <2>3. last + 1 \in 1..Len(all) + 1 /\ Len(all) \in (last + 1) - 1..Len(all)
    BY <1>3, <1>6
  <2>4. /\ child \in Seq(Elements) /\ Len(child) = (Len(all) - (last + 1)) + 1
        /\ \A i \in 1..(Len(all) - (last + 1)) + 1 :
             /\ ((last + 1) - 1) + i \in 1..Len(all)
             /\ child[i] = all[((last + 1) - 1) + i]
    BY <1>1, <2>3, Part
  <2> HIDE DEF parent, child
  <2>5. parent[1] = all[1] /\ Len(parent) = last - 1
    <3>1. /\ 1 \in 1..((last - 1) - 1) + 1 /\ (1 - 1) + 1 = 1
          /\ ((last - 1) - 1) + 1 = last - 1
      BY <1>3, <1>6, <1>7
    <3> QED BY <2>2, <3>1
  <2>6. Len(child) = Len(all) - last
    BY <1>3, <1>6, <2>4
  <2>7. ASSUME NEW i \in 1..Len(child)
        PROVE  last + i \in 1..Len(all) /\ child[i] = all[last + i]
    <3>1. i \in 1..(Len(all) - (last + 1)) + 1 /\ ((last + 1) - 1) + i = last + i
      BY <1>3, <1>6, <2>4
    <3> QED BY <2>4, <3>1
  <2> QED BY <2>2, <2>4, <2>5, <2>6, <2>7
<1>9. all = (parent \o <<"/">>) \o child
  <2>1. last \in 1..Len(all) /\ last \in last..Len(all)
    BY <1>3, <1>6
  <2>2. /\ parent \o SubSeq(all, last, last) = SubSeq(all, 1, last)
        /\ SubSeq(all, 1, last) \o child = all
    BY <1>1, <2>1, Adjacent
  <2>3. SubSeq(all, last, last) = <<"/">>
    <3> DEFINE sub == SubSeq(all, last, last)
    <3>1. last \in 1..Len(all) + 1 /\ last \in last - 1..Len(all)
      BY <1>3, <1>6
    <3>2. /\ sub \in Seq(Elements) /\ Len(sub) = (last - last) + 1
          /\ \A k \in 1..(last - last) + 1 : sub[k] = all[(last - 1) + k]
      BY <1>1, <3>1, Part
    <3> HIDE DEF sub
    <3>3. Len(sub) = 1 /\ sub[1] = "/"
      <4>1. /\ (last - last) + 1 = 1 /\ (last - 1) + 1 = last
            /\ 1 \in 1..(last - last) + 1
        BY <1>3, <1>6
      <4>2. sub[1] = all[(last - 1) + 1]
        BY <3>2, <4>1
      <4>3. sub[1] = all[last]
        BY <4>1, <4>2
      <4>4. Len(sub) = 1
        BY <3>2, <4>1
      <4> QED BY <1>6, <4>3, <4>4
    <3>4. ASSUME NEW p \in Seq(Elements), Len(p) = 1 PROVE p = <<p[1]>>
      BY <3>4
    <3>5. sub = <<"/">>
      BY <3>2, <3>3, <3>4
    <3> QED BY <3>5 DEF sub
  <2> QED BY <2>2, <2>3
<1> HIDE DEF parent, child
<1>10. ~IsAbsolute(child)
  <2>1. 1 \in 1..Len(child) /\ last < last + 1
    BY <1>3, <1>6, <1>7, <1>8
  <2>2. child[1] # "/"
    BY <1>6, <1>8, <2>1
  <2>3. Head(child) = child[1]
    BY <1>8
  <2> QED BY <2>2, <2>3 DEF IsAbsolute
<1>11. /\ <<"/">> \in Seq(Elements) /\ Names(<<"/">>) = <<>>
       /\ <<"/">> \o parent \in Seq(Elements) /\ parent \o <<"/">> \in Seq(Elements)
       /\ IsAbsolute(<<"/">> \o parent)
  <2>1. <<"/">> \in Seq(Elements) /\ Len(<<"/">>) = 1 /\ <<"/">>[1] = "/"
    <3>1. "/" \in Elements
      BY DEF Elements
    <3> QED BY <3>1, OneElement
  <2>2. Names(<<"/">>) = <<>>
    <3>1. \A i \in 1..Len(<<"/">>) : <<"/">>[i] = "/"
      OBVIOUS
    <3> QED BY <2>1, <3>1, NamesOfNone
  <2>3. <<"/">> \o parent \in Seq(Elements) /\ parent \o <<"/">> \in Seq(Elements)
    BY <1>8, <2>1, ConcatProperties
  <2>4. IsAbsolute(<<"/">> \o parent)
    BY <1>8, <2>1 DEF IsAbsolute
  <2> QED BY <2>1, <2>2, <2>3, <2>4
<1>12. /\ Names(parent) \in Seq(Elements) /\ Names(child) \in Seq(Elements)
       /\ Names(<<"/">> \o parent) = Names(parent)
       /\ Names(parent \o <<"/">>) = Names(parent)
  <2>1. Names(parent) \in Seq(Elements) /\ Names(child) \in Seq(Elements)
    BY <1>8, NamesTyped
  <2>2. /\ Names(<<"/">> \o parent) = <<>> \o Names(parent)
        /\ Names(parent \o <<"/">>) = Names(parent) \o <<>>
    <3>1. /\ Names(<<"/">> \o parent) = Names(<<"/">>) \o Names(parent)
          /\ Names(parent \o <<"/">>) = Names(parent) \o Names(<<"/">>)
      BY <1>8, <1>11, NamesJoined
    <3> QED BY <1>11, <3>1
  <2> QED BY <2>1, <2>2, ConcatEmptySeq
<1>13. Names(all) = Names(parent) \o Names(child)
  BY <1>8, <1>9, <1>11, <1>12, NamesJoined
<1>14. Len(Names(parent)) > 0 /\ Len(Names(child)) > 0
  <2>1. ASSUME NEW s \in Seq(Elements), NEW i \in 1..Len(s), s[i] # "/",
               i \in {1, Len(s)}
        PROVE  Len(Names(s)) > 0
    <3>1. Names(<<s[i]>>) = <<s[i]>> /\ <<s[i]>> \in Seq(Elements) /\ Len(<<s[i]>>) = 1
      <4>1. s[i] \in Elements
        BY <2>1
      <4> QED BY <2>1, <4>1, NamesOfOne, OneElement
    <3>2. CASE i = 1
      <4>1. /\ s = <<s[i]>> \o Tail(s) /\ Tail(s) \in Seq(Elements)
        BY <3>2
      <4>2. Names(s) = <<s[i]>> \o Names(Tail(s)) /\ Names(Tail(s)) \in Seq(Elements)
        BY <3>1, <4>1, NamesJoined, NamesTyped
      <4> QED BY <3>1, <4>2, ConcatProperties
    <3>3. CASE i = Len(s)
      <4> DEFINE most == SubSeq(s, 1, Len(s) - 1)
      <4>1. s = most \o <<s[i]>> /\ most \in Seq(Elements)
        BY <3>3, SubSeqRecursiveSecond, SubSeqFull
      <4> HIDE DEF most
      <4>2. Names(s) = Names(most) \o <<s[i]>> /\ Names(most) \in Seq(Elements)
        BY <3>1, <4>1, NamesJoined, NamesTyped
      <4> QED BY <3>1, <4>2, ConcatProperties
    <3> QED BY <2>1, <3>2, <3>3
  <2>2. /\ 1 \in 1..Len(parent) /\ Len(child) \in 1..Len(child)
        /\ child[Len(child)] = all[Len(all)]
    <3>1. /\ 1 \in 1..Len(parent) /\ Len(child) \in 1..Len(child)
          /\ last + Len(child) = Len(all)
      BY <1>3, <1>6, <1>7, <1>8
    <3> QED BY <1>8, <3>1
  <2> QED BY <1>7, <1>8, <2>1, <2>2
<1>15. Len(Names(all)) > 1
  BY <1>12, <1>13, <1>14, ConcatProperties
<1> QED
  BY <1>1, <1>2, <1>8, <1>10, <1>11, <1>12, <1>13, <1>15

(***************************************************************************)
(* Listings.                                                               *)
(***************************************************************************)
\* As long as nobody else moves the session, it is where the listing began
\* until the listing enters a parent, and in the parent from then on; what is
\* listed there is what the text names.
ListingOK(t) ==
  LET c == call[t]
      sends == ToSend(t)
      names == Names(c.text)
  IN  c.entry = "message_access_list_messages" /\ c.start # NoFolder =>
        /\ c.phase = "calling" /\ c.at = 1 => folder = c.start
        /\ c.phase = "calling" /\ c.at = 2 /\ Len(sends) = 2 =>
             folder = Names(sends[1].text)
        /\ c.phase \in {"calling", "ok"} /\ c.at > Len(sends) =>
             c.listed = IF Len(names) > 1 THEN names ELSE c.start \o names

LInv == \A t \in Threads : ListingOK(t)

\* A text that a call has is a sequence whose names stand apart.
LEMMA TextsSeparated ==
  ASSUME NEW text \in Texts \cup {<<>>}
  PROVE  text \in Seq(Elements) /\ Separated(text)
<1>1. CASE text \in Texts
  <2> DEFINE own == {text[i] : i \in DOMAIN text}
  <2>1. text \in Seq(own) /\ Separated(text)
    BY <1>1, TextsAssumption DEF TextsAssumption, Separated
  <2>2. own \subseteq Elements
    BY <1>1 DEF Elements
  <2> HIDE DEF own
  <2> QED BY <2>1, <2>2, SeqMonotonic
<1>2. CASE text = <<>>
  <2>1. <<>> \in Seq(Elements) /\ Len(<<>>) = 0
    OBVIOUS
  <2> QED BY <1>2, <2>1 DEF Separated
<1> QED BY <1>1, <1>2

\* message_access_list_messages is the entry point that lists messages.
LEMMA ListingEntry ==
  ASSUME NEW text
  PROVE  Requests("message_access_list_messages", text) = ListMessages(text)
<1> DEFINE tables == <<SessionCalls, TransferCalls, ObjectCalls, PhonebookPullCalls,
                       PhonebookQueryCalls, MessageAccessCalls, MessageCalls>>
           key == "message_access_list_messages"
<1> USE DEF Bytes, Status, Filtered
<1>1. key \in DOMAIN MessageAccessCalls /\ MessageAccessCalls[key].does = "list_messages"
  BY DEF MessageAccessCalls
<1>2. key \notin DOMAIN SessionCalls /\ key \notin DOMAIN TransferCalls
  BY DEF SessionCalls, TransferCalls
<1>3. key \notin DOMAIN ObjectCalls /\ key \notin DOMAIN PhonebookPullCalls
  BY DEF ObjectCalls, PhonebookPullCalls
<1>4. key \notin DOMAIN PhonebookQueryCalls /\ key \notin DOMAIN MessageCalls
  BY DEF PhonebookQueryCalls, MessageCalls
<1>5. \A i \in DOMAIN tables : key \in DOMAIN tables[i] => tables[i] = MessageAccessCalls
  BY <1>2, <1>3, <1>4
<1>6. 6 \in DOMAIN tables /\ tables[6] = MessageAccessCalls
  OBVIOUS
<1>7. EntryPoints = Joined(tables)
  BY DEF EntryPoints
<1> HIDE DEF tables
<1>8. key \in DOMAIN Joined(tables)
  BY <1>1, <1>6 DEF Joined
<1>9. EntryPoints[key].does = "list_messages"
  BY <1>1, <1>5, <1>7, <1>8, JoinedValue
<1> QED BY <1>9 DEF Requests

\* A listing asks for one folder, or for a parent and one folder of it.
LEMMA ListingRequests ==
  ASSUME NEW text \in Texts \cup {<<>>}
  PROVE  LET sends == Requests("message_access_list_messages", text)
             names == Names(text)
         IN  \/ \E only :
                  /\ sends = <<Request("ListMessages", only)>>
                  /\ ~IsAbsolute(only) /\ Names(only) = names
                  /\ Len(names) \in 0..1
             \/ \E parent, child :
                  /\ sends = <<Request("SetFolder", parent),
                               Request("ListMessages", child)>>
                  /\ IsAbsolute(parent) /\ ~IsAbsolute(child)
                  /\ Names(parent) \o Names(child) = names
                  /\ Len(names) > 1
<1>2. text \in Seq(Elements) /\ Separated(text)
  BY TextsSeparated
<1>3. Requests("message_access_list_messages", text) = ListMessages(text)
  BY ListingEntry
<1>4. CASE Separators(Normalized(text)) = {}
  <2>1. /\ ListMessages(text) = <<Request("ListMessages", Normalized(text))>>
        /\ ~IsAbsolute(Normalized(text)) /\ Len(Names(text)) \in 0..1
    BY <1>2, <1>4, ListsFlat
  <2>2. Names(Normalized(text)) = Names(text)
    BY <1>2, NormalizedText
  <2> QED BY <1>3, <2>1, <2>2
<1>5. CASE Separators(Normalized(text)) # {}
  <2>1. PICK parent \in Seq(Elements), child \in Seq(Elements) :
          /\ ListMessages(text) = <<Request("SetFolder", <<"/">> \o parent),
                                    Request("ListMessages", child)>>
          /\ IsAbsolute(<<"/">> \o parent) /\ ~IsAbsolute(child)
          /\ Names(text) = Names(<<"/">> \o parent) \o Names(child)
          /\ Len(Names(text)) > 1
    BY <1>2, <1>5, ListsNested
  <2> QED BY <1>3, <2>1
<1> QED BY <1>4, <1>5

\* In the initial states nothing is listed.
LEMMA LInvInit == Init => LInv
BY DEF Init, Idle, LInv, ListingOK

\* The rest of the threads see their listing's folder, or that it was moved.
LEMMA OthersListing ==
  ASSUME IInv, LInv, NEW t \in Threads, Step(t), NEW u \in Threads \ {t}
  PROVE  ListingOK(u)'
<1>0. call[u] \in Calls
  BY DEF IInv, TypeOK
<1>1. CASE call'[u] = call[u] /\ folder' = folder
  BY <1>1 DEF LInv, ListingOK, ToSend
<1>2. ASSUME NEW n, NEW f, NEW c, Ran(t, n, f, c)
      PROVE  ListingOK(u)'
  <2>1. /\ folder' = f
        /\ call'[u] = [call[u] EXCEPT !.start = IF f # folder THEN NoFolder ELSE @]
    BY <1>2 DEF Ran
  <2>2. CASE f = folder
    <3>1. call'[u] = call[u]
      BY <1>0, <2>1, <2>2 DEF Calls
    <3> QED BY <1>1, <2>1, <2>2, <3>1
  <2>3. CASE f # folder
    <3>1. call'[u].start = NoFolder
      BY <1>0, <2>1, <2>3 DEF Calls
    <3> QED BY <3>1 DEF ListingOK
  <2> QED BY <2>2, <2>3
<1>3. CASE Call(t) \/ Refuse(t) \/ RejectArguments(t) \/ Return(t) \/ NoMemory(t) \/ Take(t)
  <2>1. call'[u] = call[u] /\ folder' = folder
    BY <1>3 DEF IInv, TypeOK, Call, Refuse, RejectArguments, Return, NoMemory, Take
  <2> QED BY <1>1, <2>1
<1>4. CASE Serve(t) \/ Fail(t) \/ GoWithout(t)
  <2>1. \E n, f, c : Ran(t, n, f, c)
    BY <1>4 DEF Serve, Fail, GoWithout, NotServed
  <2> QED BY <1>2, <2>1
<1> QED BY <1>3, <1>4 DEF Step

\* An answered request takes a listing to the parent, or to its end.
LEMMA ServeListing ==
  ASSUME IInv, LInv, NEW t \in Threads, Serve(t)
  PROVE  ListingOK(t)'
<1>0. /\ TypeOK /\ call[t] \in Calls
      /\ call[t].phase = "calling" /\ call[t].at \in 1..MaxRequests
      /\ call[t].at <= Len(ToSend(t))
  BY AtRequest DEF Serve, Pending, IInv, TypeOK
<1> SUFFICES ASSUME call[t].entry = "message_access_list_messages",
                    call[t].start # NoFolder
             PROVE  ListingOK(t)'
  <2>1. PICK f, there : Ran(t, 1, f, [Answered(call[t]) EXCEPT !.listed = there])
    <3>1. Answered(call[t]) = [Answered(call[t]) EXCEPT !.listed = call[t].listed]
      BY <1>0 DEF Answered, Calls
    <3>2. \E f, there : \/ Ran(t, 1, f, Answered(call[t]))
                         \/ Ran(t, 1, f, [Answered(call[t]) EXCEPT !.listed = there])
      BY DEF Serve
    <3> QED BY <3>1, <3>2
  <2>2. call'[t].entry = call[t].entry /\ call'[t].start = call[t].start
    BY <1>0, <2>1 DEF Ran, Answered, Calls
  <2> QED BY <2>2 DEF ListingOK
<1> DEFINE names == Names(call[t].text)
           done == Answered(call[t])
<1>1. ListingOK(t)
  BY DEF LInv
<1>2. Current(t) = ToSend(t)[call[t].at]
  BY DEF Current
<1>3. ASSUME NEW f, NEW listed, Ran(t, 1, f, [done EXCEPT !.listed = listed])
      PROVE  /\ folder' = f /\ call'[t].listed = listed /\ call'[t].at = call[t].at + 1
             /\ call'[t].start = call[t].start /\ call'[t].text = call[t].text
             /\ call'[t].phase = "calling" /\ ToSend(t)' = ToSend(t)
  <2>1. /\ folder' = f /\ call'[t].listed = listed /\ call'[t].at = call[t].at + 1
        /\ call'[t].start = call[t].start /\ call'[t].text = call[t].text
        /\ call'[t].phase = "calling" /\ call'[t].entry = call[t].entry
    BY <1>0, <1>3 DEF Ran, Answered, Calls
  <2> QED BY <2>1 DEF ToSend
<1>4. ASSUME NEW only,
             /\ ToSend(t) = <<Request("ListMessages", only)>>
             /\ ~IsAbsolute(only) /\ Names(only) = names
             /\ Len(names) \in 0..1
      PROVE  ListingOK(t)'
  <2>1. Len(ToSend(t)) = 1 /\ call[t].at = 1
    BY <1>0, <1>4
  <2>2. Current(t).method = "ListMessages" /\ Current(t).text = only
    BY <1>2, <1>4, <2>1 DEF Request
  <2>3. FolderAt(folder, only) = call[t].start \o names
    BY <1>0, <1>1, <1>4, <2>1 DEF ListingOK, FolderAt
  <2>4. Ran(t, 1, folder, [done EXCEPT !.listed = call[t].start \o names])
    BY <2>2, <2>3 DEF Serve
  <2>5. /\ call'[t].listed = call[t].start \o names /\ call'[t].at = 1 + 1
        /\ call'[t].start = call[t].start /\ call'[t].text = call[t].text
        /\ ToSend(t)' = ToSend(t)
    BY <1>3, <2>1, <2>4
  <2>6. ~(Len(names) > 1)
    <3>1. \A n \in 0..1 : ~(n > 1)
      OBVIOUS
    <3> QED BY <1>4, <3>1
  <2>7. call'[t].at = 2 /\ Len(ToSend(t)') = 1 /\ Names(call'[t].text) = names
    BY <2>1, <2>5
  <2> HIDE DEF done, names
  <2> QED BY <2>5, <2>6, <2>7 DEF ListingOK
<1>5. ASSUME NEW parent, NEW child,
             /\ ToSend(t) = <<Request("SetFolder", parent), Request("ListMessages", child)>>
             /\ IsAbsolute(parent) /\ ~IsAbsolute(child)
             /\ Names(parent) \o Names(child) = names
             /\ Len(names) > 1
      PROVE  ListingOK(t)'
  <2>1. Len(ToSend(t)) = 2 /\ call[t].at \in {1, 2}
    BY <1>0, <1>5 DEF MaxRequests
  <2>2. CASE call[t].at = 1
    <3>1. Current(t).method = "SetFolder" /\ Current(t).text = parent
      BY <1>2, <1>5, <2>2 DEF Request
    <3>2. FolderAt(folder, parent) = Names(parent)
      BY <1>5 DEF FolderAt
    <3>3. done = [done EXCEPT !.listed = call[t].listed]
      BY <1>0 DEF Answered, Calls
    <3>4. Ran(t, 1, Names(parent), [done EXCEPT !.listed = call[t].listed])
      BY <3>1, <3>2, <3>3 DEF Serve
    <3>5. /\ folder' = Names(parent) /\ call'[t].at = 1 + 1 /\ ToSend(t)' = ToSend(t)
      BY <1>3, <2>2, <3>4
    <3>6. ToSend(t)[1].text = parent
      BY <1>5 DEF Request
    <3>7. call'[t].at = 2 /\ Len(ToSend(t)') = 2 /\ ToSend(t)'[1].text = parent
      BY <2>1, <3>5, <3>6
    <3> HIDE DEF done
    <3> QED BY <3>5, <3>7 DEF ListingOK
  <2>3. CASE call[t].at = 2
    <3>1. Current(t).method = "ListMessages" /\ Current(t).text = child
      BY <1>2, <1>5, <2>3 DEF Request
    <3>2. folder = Names(parent)
      <4>1. ToSend(t)[1].text = parent
        BY <1>5 DEF Request
      <4> QED BY <1>0, <1>1, <2>1, <2>3, <4>1 DEF ListingOK
    <3>3. FolderAt(folder, child) = names
      BY <1>5, <3>2 DEF FolderAt
    <3>4. Ran(t, 1, folder, [done EXCEPT !.listed = names])
      BY <3>1, <3>3 DEF Serve
    <3>5. /\ call'[t].listed = names /\ call'[t].at = 2 + 1
          /\ call'[t].text = call[t].text /\ ToSend(t)' = ToSend(t)
      BY <1>3, <2>3, <3>4
    <3> HIDE DEF done
    <3> QED BY <1>5, <2>1, <3>5 DEF ListingOK
  <2> QED BY <2>1, <2>2, <2>3
<1> HIDE DEF done
<1>6. call[t].text \in Texts \cup {<<>>}
  BY <1>0 DEF Calls
<1>7. ToSend(t) = Requests("message_access_list_messages", call[t].text)
  BY DEF ToSend
<1> QED BY <1>4, <1>5, <1>6, <1>7, ListingRequests

\* A step of a thread keeps its own listing on its way.
LEMMA OwnListing ==
  ASSUME IInv, LInv, NEW t \in Threads, Step(t)
  PROVE  ListingOK(t)'
<1>0. TypeOK /\ call[t] \in Calls /\ ListingOK(t)
  BY DEF IInv, LInv, TypeOK
<1>1. CASE Call(t)
  <2>1. PICK entry \in Uses[t] : \E text \in TextsOf(entry) :
          call' = [call EXCEPT ![t] = Begun(entry, text)] /\ folder' = folder
    BY <1>1 DEF Call
  <2>2. PICK text \in TextsOf(entry) :
          call' = [call EXCEPT ![t] = Begun(entry, text)] /\ folder' = folder
    BY <2>1
  <2>3. /\ call'[t].entry = entry /\ call'[t].text = text /\ call'[t].at = 1
        /\ entry = "message_access_list_messages" => call'[t].start = folder
    <3>1. call'[t] = Begun(entry, text)
      BY <1>0, <2>2 DEF TypeOK
    <3> QED BY <3>1 DEF Begun, Idle
  <2>4. CASE entry = "message_access_list_messages"
    <3>1. text \in Texts \cup {<<>>}
      BY DEF TextsOf
    <3>2. Len(Requests(entry, text)) \in {1, 2}
      BY <2>4, <3>1, ListingRequests
    <3>3. ToSend(t)' = Requests(entry, text)
      BY <2>3 DEF ToSend
    <3>4. \A n \in {1, 2} : ~(1 > n)
      OBVIOUS
    <3>5. ~(call'[t].at > Len(ToSend(t)'))
      BY <2>3, <3>2, <3>3, <3>4
    <3> QED BY <2>2, <2>3, <2>4, <3>5 DEF ListingOK
  <2>5. CASE entry # "message_access_list_messages"
    BY <2>3, <2>5 DEF ListingOK
  <2> QED BY <2>4, <2>5
<1>2. CASE Refuse(t) \/ RejectArguments(t) \/ NoMemory(t)
  <2>1. \/ call'[t] = [call[t] EXCEPT !.phase = "refused"]
        \/ \E cause : call'[t] = Failed(call[t], cause)
    BY <1>0, <1>2 DEF Refuse, RejectArguments, NoMemory, TypeOK
  <2>2. call'[t].phase \in {"refused", "failed"}
    BY <1>0, <2>1 DEF Failed, Calls
  <2> QED BY <2>2 DEF ListingOK
<1>3. CASE Serve(t)
  BY <1>3, ServeListing
<1>4. CASE Fail(t)
  <2>1. PICK n, cause, f : Ran(t, n, f, Failed(call[t], cause))
    BY <1>4 DEF Fail, NotServed
  <2>2. call'[t].phase = "failed"
    BY <1>0, <2>1 DEF Ran, Failed, Calls
  <2> QED BY <2>2 DEF ListingOK
<1>5. CASE GoWithout(t)
  <2>1. PICK n, f : Ran(t, n, f, Answered(call[t]))
    BY <1>5 DEF GoWithout, NotServed
  <2>2. call'[t].entry = "create_session"
    BY <1>0, <1>5, <2>1 DEF GoWithout, Optional, Ran, Answered, Calls
  <2> QED BY <2>2 DEF ListingOK
<1>6. CASE Return(t)
  <2>1. /\ call[t].phase = "calling" /\ call[t].at > Len(ToSend(t))
        /\ call'[t] = [call[t] EXCEPT !.phase = "ok"]
    BY <1>0, <1>6 DEF Return, TypeOK
  <2>2. /\ call'[t].phase = "ok" /\ call'[t].at = call[t].at
        /\ call'[t].entry = call[t].entry /\ call'[t].text = call[t].text
        /\ call'[t].start = call[t].start /\ call'[t].listed = call[t].listed
    BY <1>0, <2>1 DEF Calls
  <2>3. ToSend(t)' = ToSend(t)
    BY <2>2 DEF ToSend
  <2> QED BY <1>0, <2>1, <2>2, <2>3 DEF ListingOK
<1>7. CASE Take(t)
  <2>1. call'[t].start = NoFolder
    BY <1>0, <1>7 DEF Take, Idle, TypeOK
  <2> QED BY <2>1 DEF ListingOK
<1> QED
  BY <1>1, <1>2, <1>3, <1>4, <1>5, <1>6, <1>7 DEF Step

\* A listing is of the folder its text names (list_messages): from the root
\* for a nested one, in the session's folder otherwise.
THEOREM ListsNamedFolderHolds == Spec => []ListsNamedFolder
<1>1. IInv /\ LInv /\ [Next]_vars => LInv'
  <2>1. CASE IInv /\ LInv /\ Next
    <3>1. PICK t \in Threads : Step(t)
      BY <2>1 DEF Next
    <3>2. \A u \in Threads : ListingOK(u)'
      BY <2>1, <3>1, OwnListing, OthersListing
    <3> QED BY <3>2 DEF LInv
  <2>2. CASE LInv /\ UNCHANGED vars
    BY <2>2 DEF vars, LInv, ListingOK, ToSend
  <2> QED BY <2>1, <2>2
<1>2. IInv /\ LInv => ListsNamedFolder
  <2> SUFFICES ASSUME IInv, LInv, NEW t \in Threads, call[t].phase = "ok",
                      call[t].entry = "message_access_list_messages",
                      call[t].start # NoFolder
               PROVE  call[t].listed = IF Len(Names(call[t].text)) > 1
                                       THEN Names(call[t].text)
                                       ELSE call[t].start \o Names(call[t].text)
    BY DEF ListsNamedFolder
  <2>1. call[t].at > Len(ToSend(t))
    BY DEF IInv, Good, EndsWhereItStopped
  <2> QED BY <2>1 DEF LInv, ListingOK
<1> QED BY <1>1, <1>2, Inductive, LInvInit, PTL DEF Spec
=============================================================================

------------------------ MODULE ClientRegistryProofs ------------------------
(***************************************************************************)
(* Proofs about ClientRegistry, for any number of threads and clients.     *)
(***************************************************************************)
EXTENDS ClientRegistry, TLAPS

\* A thread holds a context exactly while it is in an entry point that made or
\* found one.
Without == {"idle", "initializing", "resolving"}
Held == \A t \in Threads : pc[t] \in Without <=> context[t] = None

\* Nothing is under way before the Dart API is there.
ApiFirst ==
  dartApi # "ready" =>
    /\ \A x \in Contexts : loop[x] = "none"
    /\ \A t \in Threads : pc[t] \in Without

Destructors == {"registering", "leaving", "joining"}
Live == {"running", "replaced", "failing", "reporting", "returned"}

\* Somebody answers for every event loop that is not joined.
Owned ==
  \A x \in Contexts : loop[x] \in Live =>
    \/ \E h \in DOMAIN clients : clients[h] = x
    \/ \E t \in Threads : context[t] = x /\ pc[t] \in Destructors

\* A context under construction is its creator's alone and has no loop yet.
Fresh ==
  \A t \in Threads : pc[t] = "connecting" =>
    /\ loop[context[t]] = "none"
    /\ \A u \in Threads \ {t} : context[u] # context[t]
    /\ \A h \in DOMAIN clients : clients[h] # context[t]

\* A context has one owner: one registry entry, or the one thread that creates
\* or destroys it; its loop is not joined before that thread does it.
OneOwner ==
  /\ \A h \in DOMAIN clients :
       /\ loop[clients[h]] \in Live
       /\ \A g \in DOMAIN clients : clients[g] = clients[h] => g = h
  /\ \A t \in Threads : pc[t] \in Destructors =>
       /\ loop[context[t]] \in Live
       /\ \A h \in DOMAIN clients : clients[h] # context[t]
       /\ \A u \in Threads : pc[u] \in Destructors /\ context[u] = context[t] => u = t

\* Memory whose loop was joined is still held, or freed.
JoinedKept ==
  \A x \in Contexts : loop[x] = "joined" =>
    x \in freed \/ \E t \in Threads : context[t] = x

\* A thread that destroys by a handle holds the context of that handle.
Retiring ==
  \A t \in Threads : pc[t] \in {"leaving", "joining"} /\ handle[t] # 0 =>
    handle[t] \in destroyed /\ issued[handle[t]] = context[t]

RetiredJoined == \A h \in retired : loop[issued[h]] = "joined"

\* What the registry resolves was issued.
RegisteredIssued == DOMAIN clients \subseteq DOMAIN issued

\* The manager is marked before anything is told.
EndedFailed ==
  /\ ended \subseteq managerFailed
  /\ \A x \in Contexts : loop[x] \in {"replaced", "reporting"} => x \in managerFailed

IInv ==
  /\ TypeOK
  /\ Held /\ Owned /\ OneOwner /\ Fresh /\ JoinedKept /\ Retiring /\ RetiredJoined
  /\ RegisteredIssued /\ EndedFailed
  /\ ContextOutlivesUse /\ HandleMeansItsClient
  /\ ApiFirst /\ PostsThroughReadyApi

\* The initial states satisfy the inductive invariant.
LEMMA IInvInit == Init => IInv
BY ContextsAssumption
   DEF ContextsAssumption, Init, IInv, TypeOK, Held, Without, Owned, OneOwner, Fresh,
     JoinedKept, Retiring, RetiredJoined, RegisteredIssued, EndedFailed,
     ContextOutlivesUse, HandleMeansItsClient, Destructors, Live, ApiFirst,
     PostsThroughReadyApi

\* A step of an event loop thread preserves the inductive invariant.
LEMMA LoopStep ==
  ASSUME IInv, NEW x \in Contexts, Loop(x)
  PROVE  IInv'
<1> USE DEF IInv, registry, eventLoop, threads, history, Posts
<1>1. CASE LoopPosts(x)
  BY <1>1 DEF LoopPosts, TypeOK, Held, Without, Owned, OneOwner, Fresh,
     JoinedKept, Retiring, RetiredJoined, RegisteredIssued, EndedFailed,
     ContextOutlivesUse, HandleMeansItsClient, Destructors, Live,
     ApiFirst, PostsThroughReadyApi
<1>6. CASE LoopTells(x)
  BY <1>6 DEF LoopTells, TypeOK, Held, Without, Owned, OneOwner, Fresh,
     JoinedKept, Retiring, RetiredJoined, RegisteredIssued, EndedFailed,
     ContextOutlivesUse, HandleMeansItsClient, Destructors, Live,
     ApiFirst, PostsThroughReadyApi
<1>2. CASE LoopServiceReplaced(x)
  BY <1>2 DEF LoopServiceReplaced, ConnectionFailed, TypeOK, Held, Without, Owned, OneOwner, Fresh,
     JoinedKept, Retiring, RetiredJoined, RegisteredIssued, EndedFailed,
     ContextOutlivesUse, HandleMeansItsClient, Destructors, Live,
     ApiFirst, PostsThroughReadyApi
<1>3. CASE LoopThrows(x)
  BY <1>3 DEF LoopThrows, TypeOK, Held, Without, Owned, OneOwner, Fresh,
     JoinedKept, Retiring, RetiredJoined, RegisteredIssued, EndedFailed,
     ContextOutlivesUse, HandleMeansItsClient, Destructors, Live,
     ApiFirst, PostsThroughReadyApi
<1>4. CASE LoopReports(x)
  BY <1>4 DEF LoopReports, ConnectionFailed, TypeOK, Held, Without, Owned, OneOwner, Fresh,
     JoinedKept, Retiring, RetiredJoined, RegisteredIssued, EndedFailed,
     ContextOutlivesUse, HandleMeansItsClient, Destructors, Live,
     ApiFirst, PostsThroughReadyApi
<1>5. CASE LoopLeaves(x)
  BY <1>5 DEF LoopLeaves, TypeOK, Held, Without, Owned, OneOwner, Fresh,
     JoinedKept, Retiring, RetiredJoined, RegisteredIssued, EndedFailed,
     ContextOutlivesUse, HandleMeansItsClient, Destructors, Live,
     ApiFirst, PostsThroughReadyApi
<1> QED BY <1>1, <1>2, <1>3, <1>4, <1>5, <1>6 DEF Loop, LoopEnds

\* A step of a thread in an entry point preserves the inductive invariant.
LEMMA ThreadStep ==
  ASSUME IInv, NEW t \in Threads, Thread(t)
  PROVE  IInv'
<1> USE ContextsAssumption DEF ContextsAssumption, IInv, registry, eventLoop, threads,
        history, Posts
<1>1. ASSUME NEW x \in Contexts, CreateBegins(t, x) PROVE IInv'
  <2>1. TypeOK'
    BY <1>1 DEF CreateBegins, Used, TypeOK, Held, Without, Retiring, RegisteredIssued
  <2>2. (Held /\ Owned)'
    BY <1>1 DEF CreateBegins, Used, TypeOK, Held, Without, Owned, Destructors, Live, 
       Fresh
  <2>3. OneOwner'
    BY <1>1 DEF CreateBegins, Used, TypeOK, Held, Without, OneOwner, Destructors, Live, 
       Fresh
  <2>4. Fresh'
    BY <1>1 DEF CreateBegins, Used, TypeOK, Held, Without, Fresh, Owned, JoinedKept, Live
  <2>5. JoinedKept'
    BY <1>1 DEF CreateBegins, Used, TypeOK, Held, Without, JoinedKept, OneOwner, 
       Destructors, Live, Fresh
  <2>6. (Retiring /\ RetiredJoined)'
    BY <1>1 DEF CreateBegins, Used, TypeOK, Held, Without, Fresh, Retiring, 
       RetiredJoined, RegisteredIssued, HandleMeansItsClient
  <2>7. (RegisteredIssued /\ EndedFailed)'
    BY <1>1 DEF CreateBegins, Used, TypeOK, RegisteredIssued, EndedFailed
  <2>8. ContextOutlivesUse'
    BY <1>1 DEF CreateBegins, Used, TypeOK, Held, Without, Owned, Destructors, Live, 
       Fresh, ContextOutlivesUse
  <2>9. HandleMeansItsClient'
    BY <1>1 DEF CreateBegins, Used, TypeOK, HandleMeansItsClient, 
       RegisteredIssued
  <2>10. (ApiFirst /\ PostsThroughReadyApi)'
    BY <1>1 DEF CreateBegins, Used, TypeOK, Held, Without, OneOwner, Live, ApiFirst,
       PostsThroughReadyApi
  <2> QED BY <2>1, <2>2, <2>3, <2>4, <2>5, <2>6, <2>7, <2>8, <2>9, <2>10
<1>2. CASE CreateFails(t)
  <2>1. TypeOK'
    BY <1>2 DEF CreateFails, Release, TypeOK, Held, Without, Retiring, 
       RegisteredIssued
  <2>2. (Held /\ Owned)'
    BY <1>2 DEF CreateFails, Release, TypeOK, Held, Without, Owned, Destructors, Live, 
       Fresh
  <2>3. OneOwner'
    BY <1>2 DEF CreateFails, Release, TypeOK, Held, Without, OneOwner, Destructors, 
       Live, Fresh
  <2>4. Fresh'
    BY <1>2 DEF CreateFails, Release, TypeOK, Held, Without, Fresh
  <2>5. JoinedKept'
    BY <1>2 DEF CreateFails, Release, TypeOK, Held, Without, JoinedKept, OneOwner, 
       Destructors, Live, Fresh
  <2>6. (Retiring /\ RetiredJoined)'
    BY <1>2 DEF CreateFails, Release, TypeOK, Held, Without, Fresh, Retiring, 
       RetiredJoined, RegisteredIssued, HandleMeansItsClient
  <2>7. (RegisteredIssued /\ EndedFailed)'
    BY <1>2 DEF CreateFails, Release, TypeOK, RegisteredIssued, EndedFailed
  <2>8. ContextOutlivesUse'
    BY <1>2 DEF CreateFails, Release, TypeOK, Held, Without, Owned, Destructors, Live, 
       Fresh, ContextOutlivesUse
  <2>9. HandleMeansItsClient'
    BY <1>2 DEF CreateFails, Release, TypeOK, HandleMeansItsClient, 
       RegisteredIssued
  <2>10. (ApiFirst /\ PostsThroughReadyApi)'
    BY <1>2 DEF CreateFails, Release, TypeOK, Held, Without, OneOwner, Live, ApiFirst,
       PostsThroughReadyApi
  <2> QED BY <2>1, <2>2, <2>3, <2>4, <2>5, <2>6, <2>7, <2>8, <2>9, <2>10
<1>3. CASE CreateStartsLoop(t)
  <2>1. TypeOK'
    BY <1>3 DEF CreateStartsLoop, TypeOK, Held, Without, Retiring, RegisteredIssued
  <2>2. (Held /\ Owned)'
    BY <1>3 DEF CreateStartsLoop, TypeOK, Held, Without, Owned, Destructors, Live, 
       Fresh
  <2>3. OneOwner'
    BY <1>3 DEF CreateStartsLoop, TypeOK, Held, Without, OneOwner, Destructors, Live, 
       Fresh
  <2>4. Fresh'
    BY <1>3 DEF CreateStartsLoop, TypeOK, Held, Without, Fresh
  <2>5. JoinedKept'
    BY <1>3 DEF CreateStartsLoop, TypeOK, Held, Without, JoinedKept, OneOwner, 
       Destructors, Live, Fresh
  <2>6. (Retiring /\ RetiredJoined)'
    BY <1>3 DEF CreateStartsLoop, TypeOK, Held, Without, Fresh, Retiring, 
       RetiredJoined, RegisteredIssued, HandleMeansItsClient
  <2>7. (RegisteredIssued /\ EndedFailed)'
    BY <1>3 DEF CreateStartsLoop, TypeOK, RegisteredIssued, EndedFailed
  <2>8. ContextOutlivesUse'
    BY <1>3 DEF CreateStartsLoop, TypeOK, Held, Without, Owned, Destructors, Live, 
       Fresh, ContextOutlivesUse
  <2>9. HandleMeansItsClient'
    BY <1>3 DEF CreateStartsLoop, TypeOK, HandleMeansItsClient, 
       RegisteredIssued
  <2>10. (ApiFirst /\ PostsThroughReadyApi)'
    BY <1>3 DEF CreateStartsLoop, TypeOK, Held, Without, OneOwner, Live, ApiFirst,
       PostsThroughReadyApi
  <2> QED BY <2>1, <2>2, <2>3, <2>4, <2>5, <2>6, <2>7, <2>8, <2>9, <2>10
<1>4. CASE CreateRegisters(t)
  <2>1. TypeOK'
    BY <1>4 DEF CreateRegisters, Register, Put, TypeOK, Held, Without, Retiring, 
       RegisteredIssued
  <2>2. (Held /\ Owned)'
    <3>1. Held'
      BY <1>4 DEF CreateRegisters, Register, TypeOK, Held, Without
    <3>2. \A h \in DOMAIN clients : h \in DOMAIN clients' /\ clients'[h] = clients[h]
      BY <1>4 DEF CreateRegisters, Register, Put, TypeOK
    <3>3. nextId \in DOMAIN clients' /\ clients'[nextId] = context[t]
      BY <1>4 DEF CreateRegisters, Register, Put
    <3>4. \A u \in Threads \ {t} : pc'[u] = pc[u] /\ context'[u] = context[u]
      BY <1>4 DEF CreateRegisters, Register, TypeOK
    <3>5. Owned'
      BY <1>4, <3>2, <3>3, <3>4 DEF CreateRegisters, Register, Owned
    <3> QED BY <3>1, <3>5
  <2>3. OneOwner'
    BY <1>4 DEF CreateRegisters, Register, Put, TypeOK, Held, Without, OneOwner, 
       Destructors, Live, Fresh
  <2>4. Fresh'
    BY <1>4 DEF CreateRegisters, Register, Put, TypeOK, Held, Without, Fresh
  <2>5. JoinedKept'
    BY <1>4 DEF CreateRegisters, Register, Put, TypeOK, Held, Without, JoinedKept, 
       OneOwner, Destructors, Live, Fresh
  <2>6. (Retiring /\ RetiredJoined)'
    BY <1>4 DEF CreateRegisters, Register, Put, TypeOK, Held, Without, Fresh, Retiring, 
       RetiredJoined, RegisteredIssued, HandleMeansItsClient
  <2>7. (RegisteredIssued /\ EndedFailed)'
    BY <1>4 DEF CreateRegisters, Register, Put, TypeOK, RegisteredIssued, 
       EndedFailed
  <2>8. ContextOutlivesUse'
    BY <1>4 DEF CreateRegisters, Register, Put, TypeOK, Held, Without, Owned, 
       Destructors, Live, Fresh, ContextOutlivesUse
  <2>9. HandleMeansItsClient'
    BY <1>4 DEF CreateRegisters, Register, Put, TypeOK, HandleMeansItsClient, 
       RegisteredIssued
  <2>10. (ApiFirst /\ PostsThroughReadyApi)'
    BY <1>4 DEF CreateRegisters, Register, Put, TypeOK, Held, Without, OneOwner, Live, ApiFirst,
       PostsThroughReadyApi
  <2> QED BY <2>1, <2>2, <2>3, <2>4, <2>5, <2>6, <2>7, <2>8, <2>9, <2>10
<1>5. CASE CreateRegisterFails(t)
  <2>1. TypeOK'
    BY <1>5 DEF CreateRegisterFails, TypeOK, Held, Without, Retiring, RegisteredIssued
  <2>2. (Held /\ Owned)'
    BY <1>5 DEF CreateRegisterFails, TypeOK, Held, Without, Owned, Destructors, Live, 
       Fresh
  <2>3. OneOwner'
    BY <1>5 DEF CreateRegisterFails, TypeOK, Held, Without, OneOwner, Destructors, 
       Live, Fresh
  <2>4. Fresh'
    BY <1>5 DEF CreateRegisterFails, TypeOK, Held, Without, Fresh
  <2>5. JoinedKept'
    BY <1>5 DEF CreateRegisterFails, TypeOK, Held, Without, JoinedKept, OneOwner, 
       Destructors, Live, Fresh
  <2>6. (Retiring /\ RetiredJoined)'
    BY <1>5 DEF CreateRegisterFails, TypeOK, Held, Without, Fresh, Retiring, 
       RetiredJoined, RegisteredIssued, HandleMeansItsClient
  <2>7. (RegisteredIssued /\ EndedFailed)'
    BY <1>5 DEF CreateRegisterFails, TypeOK, RegisteredIssued, EndedFailed
  <2>8. ContextOutlivesUse'
    BY <1>5 DEF CreateRegisterFails, TypeOK, Held, Without, Owned, Destructors, Live, 
       Fresh, ContextOutlivesUse
  <2>9. HandleMeansItsClient'
    BY <1>5 DEF CreateRegisterFails, TypeOK, HandleMeansItsClient, 
       RegisteredIssued
  <2>10. (ApiFirst /\ PostsThroughReadyApi)'
    BY <1>5 DEF CreateRegisterFails, TypeOK, Held, Without, OneOwner, Live, ApiFirst,
       PostsThroughReadyApi
  <2> QED BY <2>1, <2>2, <2>3, <2>4, <2>5, <2>6, <2>7, <2>8, <2>9, <2>10
<1>6. CASE CallResolves(t)
  <2>1. TypeOK'
    BY <1>6 DEF CallResolves, Resolves, TypeOK, Held, Without, Retiring, 
       RegisteredIssued
  <2>2. (Held /\ Owned)'
    BY <1>6 DEF CallResolves, Resolves, TypeOK, Held, Without, Owned, Destructors, Live, 
       Fresh
  <2>3. OneOwner'
    BY <1>6 DEF CallResolves, Resolves, TypeOK, Held, Without, OneOwner, Destructors, 
       Live, Fresh
  <2>4. Fresh'
    BY <1>6 DEF CallResolves, Resolves, TypeOK, Held, Without, Fresh
  <2>5. JoinedKept'
    BY <1>6 DEF CallResolves, Resolves, TypeOK, Held, Without, JoinedKept, OneOwner, 
       Destructors, Live, Fresh
  <2>6. (Retiring /\ RetiredJoined)'
    BY <1>6 DEF CallResolves, Resolves, TypeOK, Held, Without, Fresh, Retiring, 
       RetiredJoined, RegisteredIssued, HandleMeansItsClient
  <2>7. (RegisteredIssued /\ EndedFailed)'
    BY <1>6 DEF CallResolves, Resolves, TypeOK, RegisteredIssued, EndedFailed
  <2>8. ContextOutlivesUse'
    BY <1>6 DEF CallResolves, Resolves, TypeOK, Held, Without, Owned, Destructors, Live, 
       Fresh, ContextOutlivesUse
  <2>9. HandleMeansItsClient'
    BY <1>6 DEF CallResolves, Resolves, TypeOK, HandleMeansItsClient, 
       RegisteredIssued
  <2>10. (ApiFirst /\ PostsThroughReadyApi)'
    BY <1>6 DEF CallResolves, Resolves, TypeOK, Held, Without, OneOwner, Live, ApiFirst,
       PostsThroughReadyApi
  <2> QED BY <2>1, <2>2, <2>3, <2>4, <2>5, <2>6, <2>7, <2>8, <2>9, <2>10
<1>13. ASSUME NEW h \in 0..nextId, CallEnters(t, h) PROVE IInv'
  <2>1. (TypeOK /\ Held /\ ApiFirst /\ PostsThroughReadyApi)'
    BY <1>13 DEF CallEnters, TypeOK, Held, Without, ApiFirst, PostsThroughReadyApi
  <2>2. (Owned /\ OneOwner /\ Fresh)'
    BY <1>13 DEF CallEnters, TypeOK, Held, Without, Owned, OneOwner, Fresh,
       Destructors, Live
  <2>3. (JoinedKept /\ Retiring /\ RetiredJoined)'
    BY <1>13 DEF CallEnters, TypeOK, Held, Without, JoinedKept, Retiring, RetiredJoined
  <2>4. (RegisteredIssued /\ EndedFailed /\ ContextOutlivesUse /\ HandleMeansItsClient)'
    BY <1>13 DEF CallEnters, RegisteredIssued, EndedFailed, ContextOutlivesUse,
       HandleMeansItsClient
  <2> QED BY <2>1, <2>2, <2>3, <2>4
<1>14. CASE CallRefused(t)
  <2>1. (TypeOK /\ Held /\ ApiFirst /\ PostsThroughReadyApi)'
    BY <1>14 DEF CallRefused, Return, TypeOK, Held, Without, ApiFirst, PostsThroughReadyApi
  <2>2. (Owned /\ OneOwner /\ Fresh)'
    BY <1>14 DEF CallRefused, Return, TypeOK, Held, Without, Owned, OneOwner, Fresh,
       Destructors, Live
  <2>3. (JoinedKept /\ Retiring /\ RetiredJoined)'
    BY <1>14 DEF CallRefused, Return, TypeOK, Held, Without, JoinedKept, Retiring, RetiredJoined
  <2>4. (RegisteredIssued /\ EndedFailed /\ ContextOutlivesUse /\ HandleMeansItsClient)'
    BY <1>14 DEF CallRefused, Return, RegisteredIssued, EndedFailed, ContextOutlivesUse,
       HandleMeansItsClient
  <2> QED BY <2>1, <2>2, <2>3, <2>4
<1>15. CASE CallRequests(t)
  <2>1. (TypeOK /\ Held /\ ApiFirst /\ PostsThroughReadyApi)'
    BY <1>15 DEF CallRequests, TypeOK, Held, Without, ApiFirst, PostsThroughReadyApi
  <2>2. (Owned /\ OneOwner /\ Fresh)'
    BY <1>15 DEF CallRequests, TypeOK, Held, Without, Owned, OneOwner, Fresh,
       Destructors, Live
  <2>3. (JoinedKept /\ Retiring /\ RetiredJoined)'
    BY <1>15 DEF CallRequests, TypeOK, Held, Without, JoinedKept, Retiring, RetiredJoined
  <2>4. (RegisteredIssued /\ EndedFailed /\ ContextOutlivesUse /\ HandleMeansItsClient)'
    BY <1>15 DEF CallRequests, RegisteredIssued, EndedFailed, ContextOutlivesUse,
       HandleMeansItsClient
  <2> QED BY <2>1, <2>2, <2>3, <2>4
<1>7. ASSUME NEW h \in 0..nextId, DestroyBegins(t, h) PROVE IInv'
  <2>1. TypeOK'
    BY <1>7 DEF DestroyBegins, TypeOK, Held, Without, Retiring, RegisteredIssued
  <2>2. (Held /\ Owned)'
    BY <1>7 DEF DestroyBegins, TypeOK, Held, Without, Owned, Destructors, Live, Fresh
  <2>3. OneOwner'
    BY <1>7 DEF DestroyBegins, TypeOK, Held, Without, OneOwner, Destructors, Live, 
       Fresh
  <2>4. Fresh'
    BY <1>7 DEF DestroyBegins, TypeOK, Held, Without, Fresh
  <2>5. JoinedKept'
    BY <1>7 DEF DestroyBegins, TypeOK, Held, Without, JoinedKept, OneOwner, 
       Destructors, Live, Fresh
  <2>6. (Retiring /\ RetiredJoined)'
    BY <1>7 DEF DestroyBegins, TypeOK, Held, Without, Fresh, Retiring, RetiredJoined, 
       RegisteredIssued, HandleMeansItsClient
  <2>7. (RegisteredIssued /\ EndedFailed)'
    BY <1>7 DEF DestroyBegins, TypeOK, RegisteredIssued, EndedFailed
  <2>8. ContextOutlivesUse'
    BY <1>7 DEF DestroyBegins, TypeOK, Held, Without, Owned, Destructors, Live, Fresh, 
       ContextOutlivesUse
  <2>9. HandleMeansItsClient'
    BY <1>7 DEF DestroyBegins, TypeOK, HandleMeansItsClient, RegisteredIssued
  <2>10. (ApiFirst /\ PostsThroughReadyApi)'
    BY <1>7 DEF DestroyBegins, TypeOK, Held, Without, OneOwner, Live, ApiFirst,
       PostsThroughReadyApi
  <2> QED BY <2>1, <2>2, <2>3, <2>4, <2>5, <2>6, <2>7, <2>8, <2>9, <2>10
<1>8. CASE CallEnds(t)
  <2>1. TypeOK'
    BY <1>8 DEF CallEnds, Return, Release, TypeOK, Held, Without, Retiring, RegisteredIssued
  <2>2. (Held /\ Owned)'
    BY <1>8 DEF CallEnds, Return, Release, TypeOK, Held, Without, Owned, Destructors, Live, 
       Fresh
  <2>3. OneOwner'
    BY <1>8 DEF CallEnds, Return, Release, TypeOK, Held, Without, OneOwner, Destructors, Live, 
       Fresh
  <2>4. Fresh'
    BY <1>8 DEF CallEnds, Return, Release, TypeOK, Held, Without, Fresh
  <2>5. JoinedKept'
    BY <1>8 DEF CallEnds, Return, Release, TypeOK, Held, Without, JoinedKept, OneOwner, 
       Destructors, Live, Fresh
  <2>6. (Retiring /\ RetiredJoined)'
    BY <1>8 DEF CallEnds, Return, Release, TypeOK, Held, Without, Fresh, Retiring, 
       RetiredJoined, RegisteredIssued, HandleMeansItsClient
  <2>7. (RegisteredIssued /\ EndedFailed)'
    BY <1>8 DEF CallEnds, Return, Release, TypeOK, RegisteredIssued, EndedFailed
  <2>8. ContextOutlivesUse'
    BY <1>8 DEF CallEnds, Return, Release, TypeOK, Held, Without, Owned, Destructors, Live, 
       Fresh, ContextOutlivesUse
  <2>9. HandleMeansItsClient'
    BY <1>8 DEF CallEnds, Return, Release, TypeOK, HandleMeansItsClient, 
       RegisteredIssued
  <2>10. (ApiFirst /\ PostsThroughReadyApi)'
    BY <1>8 DEF CallEnds, Return, Release, TypeOK, Held, Without, OneOwner, Live, ApiFirst,
       PostsThroughReadyApi
  <2> QED BY <2>1, <2>2, <2>3, <2>4, <2>5, <2>6, <2>7, <2>8, <2>9, <2>10
<1>9. CASE StopLeaves(t)
  <2>1. TypeOK'
    BY <1>9 DEF StopLeaves, TypeOK, Held, Without, Retiring, RegisteredIssued
  <2>2. (Held /\ Owned)'
    BY <1>9 DEF StopLeaves, TypeOK, Held, Without, Owned, Destructors, Live, Fresh
  <2>3. OneOwner'
    BY <1>9 DEF StopLeaves, TypeOK, Held, Without, OneOwner, Destructors, Live, Fresh
  <2>4. Fresh'
    BY <1>9 DEF StopLeaves, TypeOK, Held, Without, Fresh
  <2>5. JoinedKept'
    BY <1>9 DEF StopLeaves, TypeOK, Held, Without, JoinedKept, OneOwner, Destructors, 
       Live, Fresh
  <2>6. (Retiring /\ RetiredJoined)'
    BY <1>9 DEF StopLeaves, TypeOK, Held, Without, Fresh, Retiring, RetiredJoined, 
       RegisteredIssued, HandleMeansItsClient
  <2>7. (RegisteredIssued /\ EndedFailed)'
    BY <1>9 DEF StopLeaves, TypeOK, RegisteredIssued, EndedFailed
  <2>8. ContextOutlivesUse'
    BY <1>9 DEF StopLeaves, TypeOK, Held, Without, Owned, Destructors, Live, Fresh, 
       ContextOutlivesUse
  <2>9. HandleMeansItsClient'
    BY <1>9 DEF StopLeaves, TypeOK, HandleMeansItsClient, RegisteredIssued
  <2>10. (ApiFirst /\ PostsThroughReadyApi)'
    BY <1>9 DEF StopLeaves, TypeOK, Held, Without, OneOwner, Live, ApiFirst,
       PostsThroughReadyApi
  <2> QED BY <2>1, <2>2, <2>3, <2>4, <2>5, <2>6, <2>7, <2>8, <2>9, <2>10
<1>10. CASE StopJoins(t)
  <2>1. TypeOK'
    BY <1>10 DEF StopJoins, Return, Release, TypeOK, Held, Without, Retiring, RegisteredIssued
  <2>2. (Held /\ Owned)'
    BY <1>10 DEF StopJoins, Return, Release, TypeOK, Held, Without, Owned, Destructors, Live, 
       Fresh
  <2>3. OneOwner'
    BY <1>10 DEF StopJoins, Return, Release, TypeOK, Held, Without, OneOwner, Destructors, 
       Live, Fresh
  <2>4. Fresh'
    BY <1>10 DEF StopJoins, Return, Release, TypeOK, Held, Without, Fresh
  <2>5. JoinedKept'
    BY <1>10 DEF StopJoins, Return, Release, TypeOK, Held, Without, JoinedKept, OneOwner, 
       Destructors, Live, Fresh
  <2>6. (Retiring /\ RetiredJoined)'
    BY <1>10 DEF StopJoins, Return, Release, TypeOK, Held, Without, Fresh, Retiring, 
       RetiredJoined, RegisteredIssued, HandleMeansItsClient
  <2>7. (RegisteredIssued /\ EndedFailed)'
    BY <1>10 DEF StopJoins, Return, Release, TypeOK, RegisteredIssued, EndedFailed
  <2>8. ContextOutlivesUse'
    BY <1>10 DEF StopJoins, Return, Release, TypeOK, Held, Without, Owned, Destructors, Live, 
       Fresh, ContextOutlivesUse
  <2>9. HandleMeansItsClient'
    BY <1>10 DEF StopJoins, Return, Release, TypeOK, HandleMeansItsClient, 
       RegisteredIssued
  <2>10. (ApiFirst /\ PostsThroughReadyApi)'
    BY <1>10 DEF StopJoins, Return, Release, TypeOK, Held, Without, OneOwner, Live, ApiFirst,
       PostsThroughReadyApi
  <2> QED BY <2>1, <2>2, <2>3, <2>4, <2>5, <2>6, <2>7, <2>8, <2>9, <2>10
<1>11. CASE InitBegins(t)
  <2>1. (TypeOK /\ Held /\ ApiFirst /\ PostsThroughReadyApi)'
    BY <1>11 DEF InitBegins, Dart_InitializeApiDL, TypeOK, Held, Without, ApiFirst,
       PostsThroughReadyApi
  <2>2. (Owned /\ OneOwner /\ Fresh)'
    BY <1>11 DEF InitBegins, Dart_InitializeApiDL, TypeOK, Held, Without, Owned, OneOwner,
       Fresh, Destructors, Live
  <2>3. (JoinedKept /\ Retiring /\ RetiredJoined)'
    BY <1>11 DEF InitBegins, Dart_InitializeApiDL, TypeOK, Held, Without, JoinedKept,
       Retiring, RetiredJoined
  <2>4. (RegisteredIssued /\ EndedFailed /\ ContextOutlivesUse /\ HandleMeansItsClient)'
    BY <1>11 DEF InitBegins, Dart_InitializeApiDL, RegisteredIssued, EndedFailed,
       ContextOutlivesUse,
       HandleMeansItsClient
  <2> QED BY <2>1, <2>2, <2>3, <2>4
<1>12. CASE InitEnds(t)
  <2>1. (TypeOK /\ Held /\ ApiFirst /\ PostsThroughReadyApi)'
    BY <1>12 DEF InitEnds, TypeOK, Held, Without, ApiFirst, PostsThroughReadyApi
  <2>2. (Owned /\ OneOwner /\ Fresh)'
    BY <1>12 DEF InitEnds, TypeOK, Held, Without, Owned, OneOwner, Fresh, Destructors, Live
  <2>3. (JoinedKept /\ Retiring /\ RetiredJoined)'
    BY <1>12 DEF InitEnds, TypeOK, Held, Without, JoinedKept, Retiring, RetiredJoined
  <2>4. (RegisteredIssued /\ EndedFailed /\ ContextOutlivesUse /\ HandleMeansItsClient)'
    BY <1>12 DEF InitEnds, RegisteredIssued, EndedFailed, ContextOutlivesUse,
       HandleMeansItsClient
  <2> QED BY <2>1, <2>2, <2>3, <2>4
<1> QED BY <1>1, <1>2, <1>3, <1>4, <1>5, <1>6, <1>7, <1>8, <1>9, <1>10, <1>11, <1>12,
           <1>13, <1>14, <1>15
        DEF Thread, Continue

\* The inductive invariant holds in every reachable state.
LEMMA Inductive == Spec => []IInv
<1>1. IInv /\ [Next]_vars => IInv'
  <2>1. CASE Next
    BY <2>1, ThreadStep, LoopStep DEF Next
  <2>2. CASE UNCHANGED vars
    BY <2>2 DEF vars, registry, eventLoop, threads, history,
      IInv, TypeOK, Held, Without, Owned, OneOwner, Fresh,
       JoinedKept, Retiring, RetiredJoined, RegisteredIssued, EndedFailed,
       ContextOutlivesUse, HandleMeansItsClient, Destructors, Live, ApiFirst,
       PostsThroughReadyApi
  <2> QED BY <2>1, <2>2
<1> QED BY <1>1, IInvInit, PTL DEF Spec

\* Every variable keeps its type.
THEOREM TypeCorrect == Spec => []TypeOK
BY Inductive, PTL DEF IInv

\* No event is posted through pointers that Dart_InitializeApiDL has not written
\* or is writing: bluez_obex_init initialises once, client_create comes after.
THEOREM PostsThroughReadyApiHolds == Spec => []PostsThroughReadyApi
BY Inductive, PTL DEF IInv

\* No context is destroyed while the registry, a call or its own event loop can
\* still use it (shared_ptr in client_for, the order in client_destroy).
THEOREM ContextOutlivesUseHolds == Spec => []ContextOutlivesUse
BY Inductive, PTL DEF IInv

\* A handle resolves to the client it was issued for, and to nothing once that
\* client was destroyed (next_id is never reused).
THEOREM HandleMeansItsClientHolds == Spec => []HandleMeansItsClient
BY Inductive, PTL DEF IInv

\* A call that came too late has not got further than client_for.
StaleOver == \A t \in stale : pc[t] = "resolving" /\ Over(handle[t])

\* client_for refuses what is over: handles are not used again, and the manager
\* was marked before the sentinel was posted.
LEMMA OverRefused ==
  ASSUME IInv, NEW h, Over(h)
  PROVE  ~Resolves(h)
BY DEF IInv, TypeOK, HandleMeansItsClient, EndedFailed, Over, Resolves

\* What is over stays over.
LEMMA OverStays ==
  ASSUME IInv, Next
  PROVE  \A h : Over(h) => Over(h)'
<1>1. CASE \E x \in Contexts : Loop(x)
  BY <1>1 DEF Over, Loop, LoopEnds, LoopPosts, LoopServiceReplaced, LoopThrows, LoopReports,
     LoopTells, LoopLeaves, ConnectionFailed, eventLoop, history
<1>2. ASSUME NEW t \in Threads, CreateRegisters(t) PROVE \A h : Over(h) => Over(h)'
  BY <1>2 DEF Over, CreateRegisters, Register, Put, eventLoop, IInv, TypeOK
<1>3. ASSUME NEW t \in Threads, Thread(t), ~CreateRegisters(t)
      PROVE  \A h : Over(h) => Over(h)'
  <2>1. ended' = ended /\ issued' = issued /\ destroyed \subseteq destroyed'
    BY <1>3 DEF Thread, Continue, CreateBegins, CreateFails, CreateStartsLoop,
       CreateRegisterFails, CallEnters, CallRefused, CallResolves, CallRequests, CallEnds,
       DestroyBegins, StopLeaves, StopJoins, InitBegins, InitEnds, eventLoop, history
  <2> QED BY <2>1 DEF Over
<1> QED BY <1>1, <1>2, <1>3 DEF Next

\* A call that came too late is refused and nothing else.
LEMMA StaleStep ==
  ASSUME IInv, StaleOver, [Next]_vars
  PROVE  StaleOver'
<1>1. CASE UNCHANGED vars
  BY <1>1 DEF StaleOver, Over, vars, threads, history, eventLoop
<1>2. CASE \E x \in Contexts : Loop(x)
  <2>1. pc' = pc /\ handle' = handle /\ stale' = stale
    BY <1>2 DEF Loop, LoopEnds, LoopPosts, LoopServiceReplaced, LoopThrows, LoopReports,
       LoopTells, LoopLeaves, threads, history
  <2> QED BY <2>1, <1>2, OverStays DEF StaleOver, Over, Next
<1>3. ASSUME NEW t \in Threads, Thread(t) PROVE StaleOver'
  <2>1. \A u \in Threads \ {t} :
          /\ pc'[u] = pc[u]
          /\ handle'[u] = handle[u]
          /\ u \in stale' <=> u \in stale
    BY <1>3 DEF IInv, TypeOK, Thread, Continue, CreateBegins, CreateFails, CreateStartsLoop,
       CreateRegisters, Register, CreateRegisterFails, CallEnters, CallRefused,
       CallResolves, CallRequests, CallEnds, DestroyBegins, StopLeaves, StopJoins,
       InitBegins, InitEnds, Return, history
  <2>2. stale' \subseteq Threads
    <3>1. stale' = stale \/ stale' = stale \cup {t} \/ stale' = stale \ {t}
      BY <1>3 DEF Thread, Continue, CreateBegins, CreateFails, CreateStartsLoop,
         CreateRegisters, Register, CreateRegisterFails, CallEnters, CallRefused,
         CallResolves, CallRequests, CallEnds, DestroyBegins, StopLeaves, StopJoins,
         InitBegins, InitEnds, history
    <3>2. stale \subseteq Threads
      BY DEF IInv, TypeOK
    <3> QED BY <3>1, <3>2
  <2>3. t \in stale' => pc'[t] = "resolving" /\ Over(handle[t])'
    <3>1. ASSUME NEW h \in 0..nextId, CallEnters(t, h)
          PROVE  t \in stale' => pc'[t] = "resolving" /\ Over(handle[t])'
      BY <3>1 DEF CallEnters, IInv, TypeOK, StaleOver, Over, eventLoop
    <3>2. CASE CallRefused(t) \/ CallEnds(t)
      BY <3>2 DEF CallRefused, CallEnds
    <3>3. CASE CallResolves(t)
      BY <3>3, OverRefused DEF CallResolves, StaleOver, history
    <3>4. ASSUME Thread(t), ~CallRefused(t), ~CallEnds(t), ~CallResolves(t),
                 \A h \in 0..nextId : ~CallEnters(t, h)
          PROVE  t \notin stale'
      BY <3>4 DEF StaleOver, Thread, Continue, CreateBegins, CreateFails, CreateStartsLoop,
         CreateRegisters, Register, CreateRegisterFails, CallRequests, DestroyBegins,
         StopLeaves, StopJoins, InitBegins, InitEnds, history
    <3> QED BY <1>3, <3>1, <3>2, <3>3, <3>4
  <2>4. ASSUME NEW u \in stale' PROVE pc'[u] = "resolving" /\ Over(handle[u])'
    <3>1. CASE u = t
      BY <2>3, <2>4, <3>1
    <3>2. CASE u # t
      <4>1. u \in stale /\ u \in Threads \ {t}
        BY <2>1, <2>2, <2>4, <3>2
      <4>2. pc'[u] = "resolving" /\ handle'[u] = handle[u] /\ Over(handle[u])
        BY <2>1, <3>2, <4>1 DEF StaleOver
      <4> QED BY <1>3, <4>2, OverStays DEF Over, Next
    <3> QED BY <3>1, <3>2
  <2> QED BY <2>4 DEF StaleOver
<1> QED BY <1>1, <1>2, <1>3 DEF Next

\* A call that came when its client was destroyed, or had posted its sentinel,
\* sends nothing: client_for, connection_failed and the registry's tokens.
THEOREM NoStaleRequestsHolds == Spec => []NoStaleRequests
<1>1. Init => StaleOver
  BY DEF Init, StaleOver
<1>2. StaleOver => NoStaleRequests
  BY DEF StaleOver, NoStaleRequests
<1> QED BY <1>1, <1>2, Inductive, StaleStep, PTL DEF Spec

\* Once client_destroy has returned, nothing is posted for its client: stop()
\* joined the only thread that posts.
THEOREM QuietOnceDestroyedHolds == Spec => QuietOnceDestroyed
<1> DEFINE Quiet == \A h \in retired : \A e \in out' : e[1] # issued[h]
<1>1. ASSUME IInv, Next PROVE Quiet
  <2>1. ASSUME NEW x \in Contexts, Loop(x) PROVE Quiet
    BY <1>1, <2>1 DEF Loop, LoopEnds, LoopPosts, LoopServiceReplaced, LoopThrows,
       LoopReports, LoopTells, LoopLeaves, ConnectionFailed, Posts, IInv, RetiredJoined
  <2>2. ASSUME NEW u \in Threads, CreateStartsLoop(u) PROVE Quiet
    BY <1>1, <2>2 DEF CreateStartsLoop, Posts, IInv, RetiredJoined, Fresh
  <2>3. ASSUME NEW u \in Threads, Thread(u), ~CreateStartsLoop(u) PROVE Quiet
    BY <1>1, <2>3 DEF Thread, Continue, CreateBegins, CreateFails, CreateRegisters,
       Register, CreateRegisterFails, CallEnters, CallRefused, CallResolves,
       CallRequests, CallEnds, DestroyBegins, StopLeaves, StopJoins, InitBegins,
       InitEnds, Posts
  <2> QED BY <1>1, <2>1, <2>2, <2>3 DEF Next
<1>2. IInv /\ [Next]_vars => [Quiet]_vars
  BY <1>1
<1> QED BY <1>2, Inductive, PTL DEF Spec, QuietOnceDestroyed
=============================================================================

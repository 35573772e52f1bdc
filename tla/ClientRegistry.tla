--------------------------- MODULE ClientRegistry ---------------------------
(***************************************************************************)
(* The C entry points of the native library (native/src/                   *)
(* bluez_obex_client.cpp): clients are created, called and destroyed by    *)
(* any thread of the process, through tokens a registry resolves.          *)
(*                                                                         *)
(* Each client is one context on the heap: a bus connection, an object     *)
(* manager and an event loop thread.  The registry and every call in       *)
(* progress hold it by shared_ptr; the last holder destroys it.  The       *)
(* registry's mutex is never held while something waits, so what is done   *)
(* under it is one step; D-Bus calls and join are not done under it.       *)
(* What the event loop's handlers do is ObexObjectManager's subject: here  *)
(* a handler is one post.                                                  *)
(***************************************************************************)
EXTENDS Naturals

CONSTANTS
  Threads,    \* native threads that call the library
  Contexts,   \* allocations; the bound on the clients ever created
  None        \* no context

ASSUME ContextsAssumption == None \notin Contexts

VARIABLES
  clients,        \* the registry: handle -> context
  nextId,         \* next_id
  dartApi,        \* the Dart API's function pointers: "unset", "written", "ready"
  loop,           \* event loop: "none", "running", "replaced" (owner change handled),
                  \* "failing", "reporting", "returned", "joined"
  leaving,        \* contexts whose leaveEventLoop was called
  failed,         \* context->failed
  managerFailed,  \* object_manager->failed()
  freed,          \* contexts destroyed
  pc,             \* what each thread is doing
  context,        \* the context it holds (unique_ptr or shared_ptr)
  handle,         \* the handle it was called with
  out,            \* events posted by the last step
  ended,          \* history: contexts that posted the 0xFF sentinel
  issued,         \* history: handles create returned, with their contexts
  destroyed,      \* history: handles destroy took out of the registry
  retired,        \* history: those whose destroy returned
  stale           \* history: threads whose call came when its client was over

registry == <<clients, nextId, dartApi>>
eventLoop == <<loop, failed, managerFailed, ended>>
threads == <<pc, context, handle>>
history == <<issued, destroyed, retired, stale>>
vars == <<registry, eventLoop, leaving, freed, threads, out, history>>

Used == {context[t] : t \in Threads} \cup freed
          \cup {clients[h] : h \in DOMAIN clients}

TypeOK ==
  /\ nextId \in Nat \ {0}
  /\ dartApi \in {"unset", "written", "ready"}
  /\ DOMAIN clients \subseteq 1..nextId-1
  /\ \A h \in DOMAIN clients : clients[h] \in Contexts
  /\ loop \in [Contexts -> {"none", "running", "replaced", "failing", "reporting",
                           "returned", "joined"}]
  /\ leaving \subseteq Contexts
  /\ failed \subseteq Contexts
  /\ managerFailed \subseteq Contexts
  /\ freed \subseteq Contexts
  /\ pc \in [Threads -> {"idle", "initializing", "connecting", "registering",
                         "resolving", "resolved", "calling", "leaving", "joining"}]
  /\ context \in [Threads -> Contexts \cup {None}]
  /\ handle \in [Threads -> Nat]
  /\ out \in SUBSET (Contexts \X {"event", "streamDone"})
  /\ ended \subseteq Contexts
  /\ DOMAIN issued \subseteq 1..nextId-1
  /\ \A h \in DOMAIN issued : issued[h] \in Contexts
  /\ destroyed \subseteq DOMAIN issued
  /\ retired \subseteq destroyed
  /\ stale \subseteq Threads

Init ==
  /\ clients = [h \in {} |-> None]
  /\ nextId = 1
  /\ dartApi = "unset"
  /\ loop = [x \in Contexts |-> "none"]
  /\ leaving = {}
  /\ failed = {}
  /\ managerFailed = {}
  /\ freed = {}
  /\ pc = [t \in Threads |-> "idle"]
  /\ context = [t \in Threads |-> None]
  /\ handle = [t \in Threads |-> 0]
  /\ out = {}
  /\ ended = {}
  /\ issued = [h \in {} |-> None]
  /\ destroyed = {}
  /\ retired = {}
  /\ stale = {}

-----------------------------------------------------------------------------
(* The event loop thread of a context.                                      *)

Posts(events) == out' = events

\* A handler posts while the manager has not failed.
LoopPosts(x) ==
  /\ loop[x] = "running"
  /\ x \notin managerFailed
  /\ Posts({<<x, "event">>})
  /\ UNCHANGED <<registry, eventLoop, leaving, freed, threads, history>>

\* connection_failed marks the manager failed; whoever was first goes on to
\* tell the listener.
ConnectionFailed(x) ==
  /\ managerFailed' = managerFailed \cup {x}
  /\ Posts({})

\* The service's name changes owner: the manager fails, the loop goes on.
LoopServiceReplaced(x) ==
  /\ loop[x] = "running"
  /\ x \notin managerFailed
  /\ loop' = [loop EXCEPT ![x] = "replaced"]
  /\ ConnectionFailed(x)
  /\ UNCHANGED <<registry, failed, ended, leaving, freed, threads, history>>

\* enterEventLoop throws: context->failed first ...
LoopThrows(x) ==
  /\ loop[x] = "running"
  /\ loop' = [loop EXCEPT ![x] = "failing"]
  /\ failed' = failed \cup {x}
  /\ Posts({})
  /\ UNCHANGED <<registry, managerFailed, ended, leaving, freed, threads, history>>

\* ... then connection_failed, which returns at once if it was called before.
LoopReports(x) ==
  /\ loop[x] = "failing"
  /\ loop' = [loop EXCEPT ![x] = IF x \in managerFailed THEN "returned" ELSE "reporting"]
  /\ ConnectionFailed(x)
  /\ UNCHANGED <<registry, failed, ended, leaving, freed, threads, history>>

\* The error and the sentinel, or what of them there is memory for: an
\* exception ends the report and goes no further.
LoopTells(x) ==
  \E told \in {{}, {"event"}, {"event", "streamDone"}} :
    /\ loop[x] \in {"replaced", "reporting"}
    /\ loop' = [loop EXCEPT ![x] = IF @ = "replaced" THEN "running" ELSE "returned"]
    /\ ended' = IF "streamDone" \in told THEN ended \cup {x} ELSE ended
    /\ Posts({x} \X told)
    /\ UNCHANGED <<registry, failed, managerFailed, leaving, freed, threads, history>>

LoopLeaves(x) ==
  /\ loop[x] = "running"
  /\ x \in leaving
  /\ loop' = [loop EXCEPT ![x] = "returned"]
  /\ Posts({})
  /\ UNCHANGED <<registry, failed, managerFailed, ended, leaving, freed, threads,
                 history>>

-----------------------------------------------------------------------------
(* Entry points.                                                            *)

\* Mutated form: the context goes with the first holder that lets it go.
Release_First(t) ==
  /\ freed' = IF \E h \in DOMAIN clients : clients[h] = context[t]
              THEN freed ELSE freed \cup {context[t]}
  /\ context' = [context EXCEPT ![t] = None]

\* A shared_ptr is dropped; the last one destroys the context.
Release(t) ==
  /\ freed' = IF \/ \E u \in Threads \ {t} : context[u] = context[t]
                 \/ \E h \in DOMAIN clients : clients[h] = context[t]
              THEN freed ELSE freed \cup {context[t]}
  /\ context' = [context EXCEPT ![t] = None]

\* The pointers are being written, one after the other.  A Dart VM of another
\* major version is refused and nothing is written.
Dart_InitializeApiDL == dartApi' = "written"

\* Mutated form: every isolate's call initialises.
InitBegins_Again(t) ==
  /\ pc[t] = "idle"
  /\ dartApi # "written"
  /\ pc' = [pc EXCEPT ![t] = "initializing"]
  /\ Dart_InitializeApiDL
  /\ Posts({})
  /\ UNCHANGED <<clients, nextId, eventLoop, leaving, freed, context, handle, history>>

\* bluez_obex_init takes its mutex and finds dart_api_initialized false.  With
\* a null argument, or once it is true, it changes nothing.
InitBegins(t) ==
  /\ pc[t] = "idle"
  /\ dartApi = "unset"
  /\ pc' = [pc EXCEPT ![t] = "initializing"]
  /\ Dart_InitializeApiDL
  /\ Posts({})
  /\ UNCHANGED <<clients, nextId, eventLoop, leaving, freed, context, handle, history>>

\* All are written: dart_api_initialized is set and the mutex released.
InitEnds(t) ==
  /\ pc[t] = "initializing"
  /\ pc' = [pc EXCEPT ![t] = "idle"]
  /\ dartApi' = "ready"
  /\ Posts({})
  /\ UNCHANGED <<clients, nextId, eventLoop, leaving, freed, context, handle, history>>

\* client_create: connection, client and object manager are made, once the
\* Dart API is there.
CreateBegins(t, x) ==
  /\ pc[t] = "idle"
  /\ dartApi = "ready"
  /\ x \notin Used
  /\ pc' = [pc EXCEPT ![t] = "connecting"]
  /\ context' = [context EXCEPT ![t] = x]
  /\ Posts({})
  /\ UNCHANGED <<registry, eventLoop, leaving, freed, handle, history>>

\* The bus or GetManagedObjects throws: nullptr, with last_error recorded.
CreateFails(t) ==
  /\ pc[t] = "connecting"
  /\ pc' = [pc EXCEPT ![t] = "idle"]
  /\ Release(t)
  /\ Posts({})
  /\ UNCHANGED <<registry, eventLoop, leaving, handle, history>>

\* get_managed_objects has posted the snapshot; std::thread starts.
CreateStartsLoop(t) ==
  /\ pc[t] = "connecting"
  /\ pc' = [pc EXCEPT ![t] = "registering"]
  /\ loop' = [loop EXCEPT ![context[t]] = "running"]
  /\ Posts({<<context[t], "event">>})
  /\ UNCHANGED <<registry, failed, managerFailed, ended, leaving, freed, context,
                 handle, history>>

Put(table, id, x) ==
  [h \in DOMAIN table \cup {id} |-> IF h = id THEN x ELSE table[h]]

Register(t, id) ==
  /\ pc[t] = "registering"
  /\ pc' = [pc EXCEPT ![t] = "idle"]
  /\ clients' = Put(clients, id, context[t])
  /\ context' = [context EXCEPT ![t] = None]
  /\ issued' = Put(issued, id, context[t])
  /\ Posts({})
  /\ UNCHANGED <<dartApi, eventLoop, leaving, freed, handle, destroyed, retired, stale>>

\* An entry point that was called with a handle returns.
Return(t) ==
  /\ pc' = [pc EXCEPT ![t] = "idle"]
  /\ handle' = [handle EXCEPT ![t] = 0]

\* Mutated form: the first id that is free.
CreateRegisters_FreeId(t) ==
  \E id \in 1..nextId :
    /\ id \notin DOMAIN clients
    /\ \A lower \in 1..id-1 : lower \in DOMAIN clients
    /\ Register(t, id)
    /\ nextId' = nextId + 1

\* Under the mutex: a new token for the context, and nothing else holds it.
CreateRegisters(t) == Register(t, nextId) /\ nextId' = nextId + 1

\* emplace runs out of memory: the token is spent, the context's destructor
\* stops the loop.
CreateRegisterFails(t) ==
  /\ pc[t] = "registering"
  /\ pc' = [pc EXCEPT ![t] = "leaving"]
  /\ handle' = [handle EXCEPT ![t] = 0]
  /\ nextId' = nextId + 1
  /\ Posts({})
  /\ UNCHANGED <<clients, dartApi, eventLoop, leaving, freed, context, history>>

\* Mutated form: the object manager is not asked.
Resolves_Registered(h) == h \in DOMAIN clients /\ clients[h] \notin failed

\* client_for finds a client, and one that has not failed.
Resolves(h) == h \in DOMAIN clients /\ clients[h] \notin failed \cup managerFailed

\* A client that destroy took out of the registry, or whose stream has ended.
Over(h) ==
  \/ h \in destroyed
  \/ h \in DOMAIN issued /\ issued[h] \in ended

\* An entry point is called with any handle, a stale or made-up one too.
CallEnters(t, h) ==
  /\ pc[t] = "idle"
  /\ pc' = [pc EXCEPT ![t] = "resolving"]
  /\ handle' = [handle EXCEPT ![t] = h]
  /\ stale' = IF Over(h) THEN stale \cup {t} ELSE stale
  /\ Posts({})
  /\ UNCHANGED <<registry, eventLoop, leaving, freed, context, issued, destroyed, retired>>

\* -1: client_for returned null.
CallRefused(t) ==
  /\ pc[t] = "resolving"
  /\ ~Resolves(handle[t])
  /\ Return(t)
  /\ stale' = stale \ {t}
  /\ Posts({})
  /\ UNCHANGED <<registry, eventLoop, leaving, freed, context, issued, destroyed, retired>>

\* A reference of the caller's own.
CallResolves(t) ==
  /\ pc[t] = "resolving"
  /\ Resolves(handle[t])
  /\ pc' = [pc EXCEPT ![t] = "resolved"]
  /\ context' = [context EXCEPT ![t] = clients[handle[t]]]
  /\ Posts({})
  /\ UNCHANGED <<registry, eventLoop, leaving, freed, handle, history>>

\* The blocking D-Bus call, whatever became of the client meanwhile.
CallRequests(t) ==
  /\ pc[t] = "resolved"
  /\ pc' = [pc EXCEPT ![t] = "calling"]
  /\ Posts({})
  /\ UNCHANGED <<registry, eventLoop, leaving, freed, context, handle, history>>

\* Mutated form: the caller's reference is never dropped.
CallEnds_Leaks(t) ==
  /\ pc[t] = "calling"
  /\ Return(t)
  /\ context' = [context EXCEPT ![t] = None]
  /\ stale' = stale \ {t}
  /\ Posts({})
  /\ UNCHANGED <<registry, eventLoop, leaving, freed, issued, destroyed, retired>>

\* The answer or an error; copy_payload does not need the context.
CallEnds(t) ==
  /\ pc[t] = "calling"
  /\ Return(t)
  /\ Release(t)
  /\ stale' = stale \ {t}
  /\ Posts({})
  /\ UNCHANGED <<registry, eventLoop, leaving, issued, destroyed, retired>>

\* client_destroy under the mutex: the entry is erased, its context kept.
\* A handle that is not there makes it return at once.
DestroyBegins(t, h) ==
  /\ pc[t] = "idle"
  /\ h \in DOMAIN clients
  /\ pc' = [pc EXCEPT ![t] = "leaving"]
  /\ context' = [context EXCEPT ![t] = clients[h]]
  /\ handle' = [handle EXCEPT ![t] = h]
  /\ clients' = [g \in DOMAIN clients \ {h} |-> clients[g]]
  /\ destroyed' = destroyed \cup {h}
  /\ Posts({})
  /\ UNCHANGED <<nextId, dartApi, eventLoop, leaving, freed, issued, retired,
                 stale>>

\* Mutated form: the loop is not told to leave.
StopLeaves_Forgotten(t) ==
  /\ pc[t] = "leaving"
  /\ pc' = [pc EXCEPT ![t] = "joining"]
  /\ Posts({})
  /\ UNCHANGED <<registry, eventLoop, leaving, freed, context, handle, history>>

\* stop(): leaveEventLoop; if the bus is gone it throws and the loop ends too.
StopLeaves(t) ==
  /\ pc[t] = "leaving"
  /\ pc' = [pc EXCEPT ![t] = "joining"]
  /\ leaving' = leaving \cup {context[t]}
  /\ Posts({})
  /\ UNCHANGED <<registry, eventLoop, freed, context, handle, history>>

\* Mutated form: the thread is detached and destroy does not wait for it.
StopJoins_Detached(t) ==
  /\ pc[t] = "joining"
  /\ Return(t)
  /\ Release(t)
  /\ retired' = retired \cup ({handle[t]} \ {0})
  /\ Posts({})
  /\ UNCHANGED <<registry, eventLoop, leaving, issued, destroyed, stale>>

\* join, then destroy returns and drops its reference.
StopJoins(t) ==
  /\ pc[t] = "joining"
  /\ loop[context[t]] = "returned"
  /\ loop' = [loop EXCEPT ![context[t]] = "joined"]
  /\ Return(t)
  /\ Release(t)
  /\ retired' = retired \cup ({handle[t]} \ {0})
  /\ Posts({})
  /\ UNCHANGED <<registry, failed, managerFailed, ended, leaving, issued, destroyed,
                 stale>>

LoopEnds(x) == LoopReports(x) \/ LoopTells(x) \/ LoopLeaves(x)

Loop(x) == LoopPosts(x) \/ LoopServiceReplaced(x) \/ LoopThrows(x) \/ LoopEnds(x)

Continue(t) ==
  \/ CallRefused(t) \/ CallResolves(t) \/ CallRequests(t) \/ CallEnds(t)
  \/ StopLeaves(t) \/ StopJoins(t)

Thread(t) ==
  \/ InitBegins(t) \/ InitEnds(t)
  \/ \E x \in Contexts : CreateBegins(t, x)
  \/ CreateFails(t) \/ CreateStartsLoop(t)
  \/ CreateRegisters(t) \/ CreateRegisterFails(t)
  \/ \E h \in 0..nextId : CallEnters(t, h) \/ DestroyBegins(t, h)
  \/ Continue(t)

Next == (\E t \in Threads : Thread(t)) \/ (\E x \in Contexts : Loop(x))

Spec == Init /\ [][Next]_vars

\* Threads are scheduled, a D-Bus call answers or times out, and the loop
\* notices that it was told to leave.
FairSpec == /\ Spec
            /\ \A t \in Threads : WF_vars(Continue(t))
            /\ \A x \in Contexts : WF_vars(LoopEnds(x))

-----------------------------------------------------------------------------
(* Properties.                                                              *)

\* Events are posted through pointers that Dart_InitializeApiDL writes and
\* that posting threads read without any lock: no event is posted before they
\* are all there, nor while another isolate's bluez_obex_init writes them again.
PostsThroughReadyApi == out # {} => dartApi = "ready"

\* A context is destroyed only when neither the registry nor a call nor its
\* own event loop can use it any more, and with its thread joined (a joinable
\* std::thread would end the process): client_for hands out shared_ptrs.
ContextOutlivesUse ==
  \A x \in freed :
    /\ \A h \in DOMAIN clients : clients[h] # x
    /\ \A t \in Threads : context[t] # x
    /\ loop[x] \in {"none", "joined"}

\* "Dart carries the non-reused registry token": a handle means the client it
\* was issued for, and nothing after its destroy.
HandleMeansItsClient ==
  \A h \in DOMAIN clients : h \notin destroyed /\ clients[h] = issued[h]

\* A request on the bus is one of a call that came while its client was
\* registered and its listener could not yet know that it failed.  The flags
\* that client_for reads are set by another thread, between any two steps of
\* the call; doc/api.md:23 tells the application to go by the stream's end.
NoStaleRequests == \A t \in Threads : pc[t] = "calling" => t \notin stale

\* When client_destroy has returned, the client's port gets nothing more.
QuietOnceDestroyed ==
  [][\A h \in retired : \A e \in out' : e[1] # issued[h]]_vars

\* client_destroy returns: join never waits for a loop nobody told to leave.
DestroyReturns == \A t \in Threads : pc[t] = "leaving" ~> pc[t] = "idle"

\* A destroyed client's memory is given back, calls in progress or not.
DestroyedIsFreed ==
  \A x \in Contexts : (\E h \in destroyed : issued[h] = x) ~> x \in freed
=============================================================================

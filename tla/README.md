# Formal models of bluez_obex_native

`bluez_obex_native` is a Dart client for BlueZ OBEX (phone book and message access)
over D-Bus. A Dart application talks to a worker isolate, the worker calls a C
library, and the library talks to the `org.bluez.obex` service and posts what it
learns back to Dart. This directory holds TLA+ models of the parts where order,
failure and concurrency matter, the TLC configurations that check them, and TLAPS
proofs. Line numbers below and in `PROJECT.json` refer to the repository.

## 1. The system

| Component | Source | State | Operations |
|---|---|---|---|
| Object manager | `native/src/obex_object_manager.cpp` | `interfaces_by_path_`, `failed_` | discovery, three signal handlers, name owner change, posting |
| C ABI, client registry | `native/src/bluez_obex_client.cpp` | `clients`, `next_id`, per client a connection, a manager, an event loop thread, `failed` | create, destroy, some thirty calls that resolve a handle and make one D-Bus call |
| Native worker | `lib/src/internal/native_worker.dart` | `_pending`, `_ready`, `_exited`, `_disposeFuture`, `_events`; the worker's command loop | connect, calls, dispose, `_onMessage` |
| Local native backend | `_LocalNativeBlueZObexBackend` in `lib/src/bluez_obex_client.dart` | receive port, event controller, `_disposed` | decode and forward events, one FFI call per operation |
| Simulated backend | `SimulatedBlueZObexBackend`, same file | sessions, phone books, transfers, messages, counters | the API of the service, in process |
| Facade and wrappers | same file | a backend; a path and the last properties read | forward to the backend |
| Transfer completion | `lib/src/internal/transfer_completion.dart` | statuses and removals per path, `_path`, `_streamError`, `_done` | listen, wait, abort |
| Proxies | `native/src/obex_{session,transfer,phonebook,message}_proxy.cpp` | none | one or two D-Bus calls each |
| Filter conversion | `native/src/obex_proxy_utils.cpp` | none | strings to typed variants, with limits |
| Device registry | `native/src/bluez_device_registry.cpp` | none | list Bluetooth devices |
| Wire codec | `native/include/glaze_meta.h`, `lib/src/ffi/codec.dart` | none | encode and decode records |
| Library loader | `lib/src/internal/library_loader.dart`, `hook/build.dart` | none | find the shared library |
| Flutter example | `example/flutter_phone_message/lib/main.dart` | client, sessions, `_clientEpoch`, `_busy`, `_closing`, watchers | a controller of user actions |

How they interact. The application awaits futures of the main isolate's backend.
Each call is a message to the worker isolate, which runs one native call at a time
and blocks in it. The C library resolves the handle under a mutex, holds the
client by `shared_ptr` during the call, and makes a blocking D-Bus call. Meanwhile
the client's event loop thread handles D-Bus signals and posts bytes to the
worker's port; the worker decodes them when it is not in a call and sends them on
to the main isolate, whose broadcast stream feeds transfer watchers and the user
interface.

What is hard about it:

- discovery races signals, and signals are replayed after a snapshot that already
  contains them; a handler makes blocking reads whose answers are newer than
  signals still queued; the service reuses object paths;
- the end of the service, of the bus connection and of the client can come in any
  order and each must be reported once and be final;
- handles are plain integers used by several threads, with destruction beside calls;
- the worker isolate may die at any point with calls, a disposal or a connection
  attempt pending;
- events and replies take different routes, so a reply may overtake the events of
  the very object it names.

What makes each part correct: the listener's picture equals the native cache and
becomes current (manager); no context is freed in use, no handle is confused, no
event follows a destroy (registry); calls run in order, drain before disposal and
always complete (worker); a verdict is about the transfer that was started
(completion); sessions, messages and transfers announced equal those listed
(simulated backend); conversions refuse what does not fit (filters, codec).

## 2. Modules

| Module | What it is |
|---|---|
| `ObexObjectManager` | the native object cache beside a service and a D-Bus queue |
| `ObexObjectManagerProofs` | theorems about the cache, the event protocol and the cache against the service |
| `MCObexObjectManager` | constants and symmetry for TLC |
| `ClientRegistry` | C entry points, contexts, event loop threads |
| `ClientRegistryProofs` | theorems about it |
| `MCClientRegistry` | constants for TLC |
| `NativeCalls` | every C entry point, its D-Bus requests, its errors, the session's folder |
| `NativeCallsProofs` | theorems about it |
| `MCNativeCalls` | threads, texts and folders for TLC |
| `WireCodec` | the structs, the C++ encoder and decoder, the Dart reader |
| `PayloadConversion` | Dart values to texts to variants; D-Bus dictionaries to structs |
| `Payloads` | data on its way: filters out, answers and events back, damage on the way |
| `PayloadsProofs` | theorems about data on its way, and about the codec |
| `MCPayloads` | filters and answers for TLC |
| `CallContract` | abstract: what a client promises about its calls and its disposal |
| `NativeWorker` | main isolate and worker isolate; implements `CallContract` |
| `NativeWorkerProofs` | theorems about `NativeWorker` |
| `MCNativeWorker` | constants for TLC |
| `TransferCompletion` | waiting for one transfer |
| `TransferCompletionProofs` | theorems about it |
| `MCTransferCompletion` | the two environments for TLC |
| `SimulatedBackend` | the in-process service for tests and examples |
| `SimulatedBackendProofs` | theorems about it |
| `MCSimulatedBackend` | its instance for TLC |
| `PhoneStudio` | the controller of the Flutter example beside the service |
| `PhoneStudioProofs` | theorems about it |
| `MCPhoneStudio` | its instance for TLC |

Definitions named `X_Y` with the comment "Mutated form" are variants of `X` with a
plausible bug. They are not used by any specification; each one shows that some
property fails when the code is wrong in that way.

### ObexObjectManager

`known`/`cached` are `interfaces_by_path_`, split into keys and values; `queue` is
what D-Bus has delivered to the connection and the event loop has not dispatched.
`exists`, `value` and `running` are the service. `adding`, `removing` and
`rereading` are the loops of the three handlers: one iteration (lock, change,
unlock, post) is one step, so that service steps fall between iterations. This is
exact because one native thread runs discovery and later another all handlers,
never both (`client_create` starts the loop after `get_managed_objects`).

`out` holds the events the last step posted. `told`, `shown`, `lost` and `ended` are
what a listener knows that has read everything posted; they are history and no
guard reads them.

The environment may do all that D-Bus allows: create and remove objects with one
or several interfaces, announce a change by value or by invalidation, send signals
that cannot be decoded or whose value has an unexpected type, leave the bus and
come back. Reads can fail at any time (timeout). Properties the service itself
holds are well typed: `on_interfaces_added` and the re-read store what they get
without a type check, and what a reader then makes of an ill-typed value belongs to
the conversion (`PayloadConversion`). Several keys with invalidation and value in one signal are
covered by `Merge`; the order in which the keys of one signal are re-read is left
open although the code takes the signal's order.

### ClientRegistry

A context is one allocation; `context[t]` is the `unique_ptr` or `shared_ptr` thread
`t` holds. `Release` is the end of a `shared_ptr`: the last holder destroys. Work
under the registry mutex is one step. This is right since nothing waits while it
holds the mutex; `client_for` takes the manager's mutex inside, whose holders do
not wait either. `stop()` is two steps (`leaveEventLoop`, `join`), an event loop
failure is three (`context->failed`, then `failed_` of `connection_failed`, then the error and the sentinel, which an
exception may cut short); an owner change is the last two. A call is four: it is entered
(`CallEnters`), `client_for` refuses or resolves the handle, the request goes out, and it ends. `stale` is
history: the threads whose call was entered when its client was destroyed or its stream had ended. Any thread may
use any handle, stale and never issued ones included. Locks have no state of their own: what is checked of `stop()` is that its `join`
always meets a loop that ends, not an order of locks. Out of
memory in `emplace` is modelled (`CreateRegisterFails`).

`dartApi` is the table of function pointers that `Dart_InitializeApiDL` fills and every
event is posted through. `bluez_obex_init` takes its own mutex and finds `initialized`
set on later calls; writing the table (`InitBegins`) and setting the flag (`InitEnds`) are
two steps, between which other threads run. A null argument or a version that does not match changes
nothing and has no step. `client_create` refuses while `initialized` is not set. `last_error` is in
`NativeCalls`.

### NativeCalls

The same entry points seen from the other side: not who holds the client, but what one
call does. Three tables say it. `EntryPoints` names for each C function the proxy
function it runs, what it answers with and whether it converts filters first;
`Proxies` names for each proxy function the D-Bus methods it invokes, in order;
`Replies` says which methods have a reply whose contents are read. Two functions send two
requests: `create_session` reads the properties of the session it made and does
without them when that fails, and `list_messages` enters the parent of a nested folder before it
lists the last name.

A thread goes through `Call`, then `Refuse` (no client, null argument: −1) or
`RejectArguments` (−3), or `Serve`, `Fail` and `GoWithout` for its requests, then
`Return` or `NoMemory`, then `Take`. `Fail` covers everything a caller of a blocking D-Bus call can see:
the request was not run, or it was run and the answer came too late or has another
type. `folder` is the session's current folder at the service and a failed
`SetFolder` may have entered some of the folders it names. A request whose caller timed out may be run later, but the service
runs the requests of a session in order, so for everything that follows it is as if
it had run before its caller gave up.

`lastError` is the thread-local `last_error`. Its `of` component tells whose failure it
describes. `ran`, `start` and `listed` in `call` are history: how often each request ran,
where a listing began, and what was listed.

### WireCodec, PayloadConversion and Payloads

`WireCodec` has the structs twice: `ObjectFields`, `MessageFields` and `ResultFields` in the order of
`glz::meta` (`glaze_meta.h`), and Dart's in the order in which `codec.dart` reads
them, and the encoder, the C++ decoder and the Dart reader with its length checks. A
text is a sequence of byte codes (ASCII), an integer its little-endian bytes.
`PayloadConversion` is `_filterValueToString` (`native_bridge.dart`),
`variant_map_from_strings` (`obex_proxy_utils.cpp`) and the functions that make a struct of
what the service said. `Payloads` composes them in the order of the code: `Marshal` and
`Send` for a filter map, `Answer` and `Receive` for a reply or an event. `Cut` and
`Change` damage the bytes before Dart reads them. The library's own encoder writes no such
message; they stand for what the reader's checks are there for, a library and a
package of different versions.

`Says` is what D-Bus can deliver for each struct: any dictionary, list or text, with values of the type
their signature says, texts in ASCII, and numbers and lengths below 2^24. The limit stands for the widths of the
format (a length has four bytes, of which the model keeps three). A damaged length beyond it is read as the
limit, which is more than any message holds that is not itself that long.

The data in `MCPayloads` is enumerated, not exhaustive: for every struct, dictionaries
that are complete, half complete, empty and ill-typed, in which no two properties have the same
value (so that two exchanged fields show), and five complete ones in which the
booleans differ pairwise.

### NativeWorker and CallContract

`messages` is what was sent to the main isolate's port and `mailbox` the worker's
event queue (its command port and its native port: one queue per isolate). A call
passes `status` idle, accepted, then succeeded or failed; or is rejected. `client`
is the state of `connect()`, `disposing` that of `_disposeFuture`. Messages carry
their meaning and not their list lengths. A worker in a native call cannot receive:
`Execute` is a single step, and `NativePost` steps before and after it are what the
event thread did meanwhile. `WorkerCrash` is any uncaught error (fatal to the
isolate); the error message and the exit message are two messages, and the client
acts between them.

`CallContract` says it without isolates: an accepted call gets one answer, in the
order of acceptance; disposal is done when nothing waits; a lost worker fails all
that waits at once. The refinement maps `_disposeFuture` and `_exited` to the
contract's `lifecycle`. Liveness is part of the contract: while a call waits or
disposal is under way, it progresses.

### TransferCompletion

The service runs the watched transfer `Mine` and others; it posts `added`, `status`
and `removed`. `environment` fixes two facts: `overtakes` (the reply to the start
call does not wait for the events posted before it, as with the native worker) and
`reuse` (`Mine` gets the path of an earlier transfer). The watcher's state is
the class's fields, restricted to what `_settle` reads. The transfer may go on, end and be removed before the
call is answered (`Reply`) and before the answer is read; the reply's `Status` property
is absent or the status at the time of the answer, "complete" included (the simulated backend's always is). The caller's
timeout (`RefuseStart`) may come while the transfer runs. A later reuse of `Mine`'s path while the watcher still waits is left
out: the service would have to remove `Mine` first, which the watcher has then been
told by an event that precedes the new object's.

### SimulatedBackend

One action per method that changes state; a path is the sequence of its numbers.
`told`, `shown` and `announced` are what a listener has learned. Arguments may name
sessions and transfers that are gone. `origin` tells the messages that held one path apart.
`initialSnapshotComplete` is left out: the constructor adds it (`:1119`) to a
broadcast stream that nobody can listen to yet, so no listener ever receives it,
whereas listeners of the native backend do (`doc/api.md:18-21`).

### PhoneStudio

One operation (`op`, `_busy`) goes from await to await; `_disposeOwnedResources` runs at
most twice at once (`cleanup`: from `_disconnect` and from `dispose`), also from await to
await. Client, subscription and workspace directory are always set and cleared in the same
synchronous stretch, so `client` stands for all three. A native call executes and is
answered in one step, because the worker sends the reply before any event that
was posted since (`native_worker.dart:507`); `SessionsCurrent` rests on this. Calls
submitted before a disposal drain, later ones are refused (`NativeWorker`). The list of devices is not kept: any address
but the selected one may be chosen once one is selected. All operations of a session
differ only in what they show, so they are one action with one call or one transfer.

## 3. Runs

| Run | Configuration | States | Shows |
|---|---|---|---|
| `object_cache` | `MCObexObjectManager.cfg` | 1 304 153 (with symmetry) | cache and listener with two followed interfaces and a foreign one, all handlers, all failures |
| `object_two_keys` | `MCObexTwoKeys.cfg` | 151 724 | two properties invalidated together, over a reused path with older signals queued; the listener becomes current, and a failed read of one does not leave the other stale |
| `client_registry` | `MCClientRegistry.cfg` | 222 730 | initialisation, destruction beside calls, failing loops, stale handles |
| `native_calls` | `MCNativeCalls.cfg` | 341 524 | requests and errors of every entry point, folders entered and listed by two threads |
| `payloads` | `MCPayloads.cfg` | 19 266 | filters arrive as they were, answers are read as they were said, damage is noticed |
| `native_worker` | `MCNativeWorker.cfg` | 238 904 | order, drain, loss of the worker, refinement of `CallContract` |
| `transfer_completion` | `MCTransferCompletion.cfg` | 678 808 | verdicts are true, nothing missed, `wait` returns |
| `transfer_path_reuse` | `MCTransferPathReuse.cfg` | (stops at the violation) | a finding, see section 5 |
| `simulated_backend` | `MCSimulatedBackend.cfg` | 622 971 | events agree with the listing, nothing is left behind, paths are not reused |
| `simulated_push` | `MCSimulatedPush.cfg` | (stops at the violation) | a finding, see section 5 |
| `phone_studio` | `MCPhoneStudio.cfg` | 315 038 | one endpoint, current sessions, clean-up in order and complete |
| `studio_lost_service` | `MCStudioLost.cfg` | (stops at the violation) | a finding, see section 5 |

Bounds and why they suffice. Handlers work on one object at a time, so interference needs
two followed interfaces of one path (a loop of two iterations),
one that is not followed (filtering), or the same object twice; that is `object_cache`, with one property of two
values. Properties meet only in the loop over invalidated keys; `object_two_keys` has two of them on one object.
Objects may be there from the start, so three
service steps (`MaxChanges`) allow change, remove and create again around a
snapshot; invalidation with a later change needs two. The safety properties of both runs are proved for any number
of each. Two threads and two contexts
allow a call or a second destroy beside a destroy, and a stale handle beside a new client. Three
calls, one disposal and two events (`MaxEvents`) allow a call before, between and after, and an event,
an error and the end of the stream in every place. Two transfers over two paths give
a watched transfer beside another with or without a shared path. Two sessions and two
transfers of the simulated backend allow a transfer of a session beside one of a message, of
the same or of another session, and each removal in between; the violation needs
no more than two pushes. Two devices, two clients and two sessions of the studio allow a switch with
its clean-up beside a close, and a leaked session beside a shown one. One thread that calls
every entry point beside one that moves the session and lists are enough for interference in `NativeCalls`: threads
share nothing but the service's folder and, if it were not thread-local, the error. Folders are
three deep with the same names at several levels, so that a wrong turn ends in a folder too;
the texts have several separators, leading and trailing ones. Filters have the values next to the limits of
uint8 and uint16. Messages up to 400 bytes (`Damageable`) are cut at every byte and changed
in every byte to each of four values (`RaisedTo`): that is every sample, and list lengths become small, zero and
huge. Property values are symmetric (`ValueSymmetry`, only in the run without liveness).

`CHECK_DEADLOCK FALSE` in every configuration but those of `NativeCalls` and `Payloads`: a
stopped client, a service at its bound, a returned watcher and a disposed worker do
nothing more.

What the properties say:

- `NothingMissed` (manager): an object the listener lacks is announced by a step
  or signal still to come, and one that is gone is still to be retired.
- `CurrentWhenQuiet`, `EventuallyCurrent`: with no signal left, objects and property
  values shown are the service's, except a value whose last read failed with an
  error the listener was told. Reads ahead of queued signals do no lasting harm
  because every later change has its own signal.
- `AnnouncedOnce`, `PropertiesWithinLifetime`, `SilentAfterEnd`,
  `FailureStopsHandlers`, `ListenerMirrorsCache`: the event protocol.
- `PostsThroughReadyApi`: an event loop posts only through a table that is completely
  written and is not being written again, whichever threads initialise and create.
- `ContextOutlivesUse`, `HandleMeansItsClient`, `NoStaleRequests`,
  `QuietOnceDestroyed`, `DestroyReturns`, `DestroyedIsFreed`: the registry. A
  second destroy of the same handle returns at once, while the first may still be
  joining; `QuietOnceDestroyed` is about the destroy that found the client. `NoStaleRequests`: a call that was
entered after its client was destroyed, or after the end of its stream was posted, sends no request. One
entered before may send it later, on a connection that `ContextOutlivesUse` keeps alive.
- `ErrorIsOwn`: after −3 `last_error` tells why the thread's own call failed.
  `ReportedAsExecuted`: success means every request of the operation ran once, failure that none
  behind the failed one ran. `RefusedUnsent`: malformed filters have touched
  nothing (`doc/api.md`, "fail before D-Bus dispatch"). `ListsNamedFolder`: a listing is of the
  folder its text names unless somebody else moved the session meanwhile. The exception is
  real: two threads that list nested folders of one session can list each
  other's. That is the caller's to avoid (the worker runs one call at a time) and no property says otherwise.
- `FiltersArrive`, `AnswersArrive`, `DamageRefused`: every filter reaches the service in the D-Bus type its
  key has, or the call is refused; one that fits arrives as it was, and a number or truth value that arrives is in
  range and is the one the Dart value, its text or its only item says (`"007"` may be sent as 7, `"a,b"` or
  `"4294967297"` as no number). What Dart reads is what the service
  said, compared for every property and type, device and folder; a cut message is never taken for a whole one, and no damaged length makes the reader
  reserve more than the message could hold.
- `RunsInOrder`, `DisposalDrains` (`doc/api.md:10-11`), `NobodyLeftWaiting`,
  `EventsInOrder`, `ImplementsContract`: the worker.
- `TruthfulSuccess`, `TruthfulFailure`, `NothingMissed`, `Returns`:
  the watcher (`doc/api.md:49-54`).
- `EventsMatchListing`, `NoOrphans`, `PathsNotReused`: the simulated backend.
  `removeSession` of a session that is gone succeeds and posts removals again; for a
  listener that is no change.
- `OneEndpoint`, `SessionsCurrent`, `WorkspaceOutlivesUse`, `NothingLeft`: the studio.

Fairness. The manager's steps are weakly fair as a whole: the event loop does not
sleep while signals are queued and D-Bus calls time out. Threads in an entry point
continue and a loop that was told to leave does so. Both isolates run while they have
messages; the native call of a command returns. The watcher's event loop delivers
events and replies, a call is answered or times out, and timers fire. The studio's calls
are answered or time out, and a complete future resumes what awaits it. Nothing is
assumed of the service, of users, of failures, or of a transfer making progress.

## 4. Proofs

`tlapm` checks these for every value of the constants.

`ObexObjectManagerProofs`, from `ConstantsAssumption` (followed interfaces are
interfaces; the marks for "no value" and "ill-typed value" are not values):
`TypeCorrect`, `Mirror` (`ListenerMirrorsCache`), `FailureIsFinal`
(`FailureStopsHandlers`), `AnnouncedOnceHolds`, `PropertiesWithinLifetimeHolds`,
`SilentAfterEndHolds`. The inductive invariant is the conjunction of the first
three: the mirror property is not inductive without the knowledge that a failed
manager has no handler in progress (it empties the cache but not the listener's
picture), and both need the types. The action properties follow from the
invariant together with the lemma that says what each step posts.

`ClientRegistryProofs`, from `ContextsAssumption` (`None` is not a context):
`TypeCorrect`, `ContextOutlivesUseHolds`, `HandleMeansItsClientHolds`,
`NoStaleRequestsHolds`, `QuietOnceDestroyedHolds`, `PostsThroughReadyApiHolds`. `ContextOutlivesUse` alone is
not inductive: the last holder may free only because some registry entry or thread
answers for every loop that is not joined (`Owned`) and each context has one such
owner (`OneOwner`), which in turn needs that a context under construction is its
creator's alone (`Fresh`). `RetiredJoined` and `Retiring` link a handle whose destroy
returned to a joined loop. `StaleOver` says that a thread whose call came too late has a handle that is over for
good (destroyed handles stay destroyed, an ended stream stays ended), and that such a handle resolves to nothing: the
sentinel follows the manager's `failed_`, and a registered handle is not a destroyed one. `ApiFirst` says that no context exists, registered, held or with a running loop,
before the table is ready.

`NativeCallsProofs`, from `TreeAssumption` (a folder's parents are folders),
`UsesAssumption` (threads call entry points that exist) and `TextsAssumption` (no two names of a text are side
by side: a name is all there is between two separators): `TypeCorrect`, `ErrorIsOwnHolds`,
`RefusedUnsentHolds`, `ReportedAsExecutedHolds`, `ListsNamedFolderHolds`, for any number of threads, any texts
and any tree.
The tables are evaluated once, in lemmas that say that no operation sends more than two
requests (`ShortRequests`) and each is a method the generated proxies have. The invariant holds for each thread alone (`Good`): requests
ran in the order they are sent and once each (`SentInOrder`), a call that ended did so where it stopped
(`EndsWhereItStopped`), and the error is its own (`LastErrorOK`); `OneThread` says that a step of one thread
disturbs none of it for another.

`ListsNamedFolderHolds` adds `ListingOK`: until somebody else moves the session, it is where the
listing began, then in the parent, and what is listed is what the text names. That the two requests of
`list_messages` name together what its text names is `ListingRequests`, about texts of any length. It rests
on `NamesJoined` (`Names(a \o b) = Names(a) \o Names(b)`), proved by induction over the length of a text. The
library's theorems on induction take an operator, which no prover here can instantiate; `Induction`
states the same for a set of numbers and follows from the library's `WFMin` (a set of numbers that
is not empty has a least element). `Names` is a recursive function whose values are
shown to exist (`CollectsExists`) before they are used. `ListingOK` was first checked by TLC on the instance
of `native_calls`.

`NativeWorkerProofs`, from `WorkerAssumption` (the request of `dispose()` is not one of the
calls): `TypeCorrect`, `RunsInOrderHolds`, `NobodyLeftWaitingHolds`, `DisposalDrainsHolds`,
`EventsInOrderHolds`, and `KeepsContract`, that each step of the isolates is a step of
`CallContract` or leaves its state alone. `RunsInOrder` speaks of the calls that ran and says nothing of
those that will. The invariant therefore follows a call through both queues, position by position: as long as
the worker lives its mailbox holds exactly the accepted calls that have not run, in order (`StillToRun`),
with the dispose command behind them (`DisposeLast`); every call that ran and still waits has its answer among the
messages, in order (`AnswersInOrder`); a disposal's answer means that all have run
(`DisposeAnswered`). The rest (`Control`) is what the flags say of each other: `_pending` is what waits,
nothing waits behind a closed port, a worker that was not lost ended on purpose. `KeepsContract` needs the order of
the answers, since the contract lets only the oldest waiting call be answered. For the events a second invariant
(`Numbers`) says that, while the stream is open, the messages carry the numbers after the last one
heard without a gap and the mailbox goes on from there. What is left of `ImplementsContract` is fairness, which
TLC checks.

The second part of `ObexObjectManagerProofs` proves, from the same assumption, `NothingMissedHolds` and
`CurrentWhenQuietHolds`, for any objects, keys and values and any number of service steps. Both
properties speak of what the service and the listener disagree about, and neither says where the
disagreement will end, which is what the invariant has to say. It calls signals that make an object appear,
disappear or change a value its words, and states for each object (`Existence`) and each key
(`Freshness`) that the last word still queued is true (`Settles`), or no word is queued (`Clear`)
and the cache, after the handlers at work have finished, is right. A read ahead of queued signals
(`cached` newer than the queue) is in the first case as long as a later word is queued and in
the second afterwards. `HandlersTakeTurns` says that only one of the three handlers is ever at
work. The steps are proved from four lemmas about a queue to which a signal is appended
(`AppendOther`, `AppendTruth`) or from which one is taken (`TakeFirst`, `SettledNotClear`).

`TransferCompletionProofs`, from `TransfersAssumption` (the watched transfer is one of them):
`TypeCorrect`, `TruthfulSuccessHolds`, `TruthfulFailureHolds`, `NothingMissedHolds`, for any number of transfers and
paths. The first two of the properties hold under `Distinguishable` (not reused paths together with
overtaking replies), which the theorems name as a hypothesis on the state because the finding of
section 5 refutes them without it; `NothingMissed` holds in every environment. The invariant says which event
may follow which (`MayFollow`: once the watched transfer has spoken nobody else speaks on its path,
nothing but its removal follows its end), that events report what happened (`Honest`), and,
from the moment its announcement is heard (`Tracking`), that the record of the path is about this
transfer (`Recorded`); statuses heard or named by the reply are ones it had (`Settled`). What became of the transfer is on record or still to be heard (`Coming`);
that half carries `NothingMissed`, and `TruthfulFailure` too: a removal may be blamed only because a completion, had
there been one, is recorded when the removal is heard. It holds until there is an outcome: a reply that names
the end of the transfer is recorded ahead of its events, and is a verdict at once. `Behind` is the only part that needs replies to stay
behind the announcement, `Unshared` the only one that needs paths of one owner.
`FailedForGood` strengthens `TruthfulFailure`: a transfer blamed now cannot complete later. `SettledWell` proves
once, for all callbacks, that a verdict reached from such a record is right.

`SimulatedBackendProofs`, from `BoundsAssumption` (the bounds are numbers): `NoOrphansHolds`,
`EventsMatchListingHolds`, `PathsNotReusedHolds`. The invariant adds to the two state properties that session, message
and transfer paths are the numbers the counters gave (`Numbered`) and that every announced path lies below
its counter (`AnnouncedBelow`). Without `NoOrphans`, `EventsMatchListing` is not inductive: a removal retires the
objects found under the session, so anything kept beside it would be listed and not told.

`PhoneStudioProofs`, from `ConstantsAssumption` (`NoDevice` is not a device, the bounds are numbers):
`OneEndpointHolds`, `SessionsCurrentHolds`, `WorkspaceOutlivesUseHolds`, for any devices and any number of clients and
sessions. The invariant finds a holder for every endpoint that is alive (`Held`: the view, an operation that
connects or releases one, or a clean-up), ties its state to what the holder has done so far (`HeldAs`) and says
who may hold one beside whom (`Modes`: an operation that takes the endpoint over leaves the view without, a
disconnect's clean-up has its operation waiting for it, and the one that closes the view works on the
endpoint the view had). At most one holder follows, and with it `OneEndpoint`. `Waiting` says that an operation
in a call waits on the view's client, and that a transfer that is started or watched when the view closes has
the closing clean-up hold its client and not yet delete the directory.

The invariants of these four modules were first checked by TLC on the instances of the runs
`object_cache`, `transfer_completion` (with all four environments), `simulated_backend` and `phone_studio`.

`PayloadsProofs`, from `FilterSamplesAssumption` (filter maps hold Dart values: null, any integer, truth value, byte text or
list of byte texts) and `AnswerSamplesAssumption` (answers are what D-Bus can deliver, see `Says`):
`FiltersArriveHolds`, `AnswersArriveHolds`, `DamageRefusedHolds`, for any filter maps, answers, texts and
lists, and for damage to messages of any length. The state machine is short; the work is in what its functions
compute.

- The functions are defined by recursion over numbers (`InOrder`, `Decimal`, `FromChars`, the library's folds). Each is shown to
  exist and to satisfy its equation (`InOrderIs`, `DigitsExist`, `FromCharsIs`, `FlattenSeqIs`), by
  `Induction` over a set of numbers, and only then used.
- Filters: the decimal text of a number is read back as that number (`DecimalIs`), and conversely a text that is
  converted to a number consists of digits that say this number (`NumeralIs`, `NumberFrom`), so nothing else becomes a
  number whatever kind of Dart value it was; a list joined by commas is
  split into the same list if its texts are not empty and have no comma (`SplitJoined`), and no other value has the
  text of a truth value but a text, or a list of one text (`TruthFrom`). `FiltersIInv` carries this along the steps.
- Answers: `Right(r, d, at, e, v)` says that reading at `at` from bytes `d` that agree with the
  encoding `e` of `v`, as far as they reach, succeeds exactly if all of `e` is there and then yields `v`. It is
  proved of numbers, texts, lists, elements and structs in turn, up to `DecodeRight` (Dart) and
  `NativeDecodeRight` (C++, for whole messages), from one lemma about things read one after the other
  (`InOrderRight`). A list's check of its count passes because no element is shorter than its declared minimum
  (`ItemLength`). The tables of both sides are evaluated once (`Tables`).
- That the structs say what the service said: `PropsAgree` for dictionaries, `InKeyOrderIs` (keys in the order of
  `std::map` are a list of all keys, each once; it needs that the order of texts is strict, total and
  transitive), `VariantText`, and a lemma for each kind of listing, collected in `AnswerStructs`.
- Damage: a cut message agrees with the whole one as far as it reaches, so `DecodeRight` refuses it
  (`CutRead`). `Room` bounds the elements reserved by the bytes consumed, whatever the bytes are (`DecodeRoom`).
  `AnswersIInv` says that Dart reads the bytes of the answer, the first of them or any others.

The two invariants were first checked by TLC on the instance of `payloads`.

Only model-checked:

- all liveness (`EventuallyCurrent`, `DestroyReturns`, `DestroyedIsFreed`, `Returns`, `NothingLeft` and the
  fairness part of `ImplementsContract`), which the prover does not support;
- `TruthfulOutcome`, `MessagesStayThemselves` and `LostClientsReplaced` are refuted by runs (section 5).

## 5. Findings

`transfer_path_reuse`: `CHANGELOG.md:16` promises to "preserve fast transfer events
across path reuse". An earlier transfer at path `p` completes or is removed, its event is
still on its way or already recorded, and the service gives `p` to the new transfer.
The worker sends the reply before the events posted during the call
(`native_worker.dart:507`), so `_settle` (`transfer_completion.dart:69-84`) takes the
old transfer's state for the new one's: a success that is none, or a failure that
belongs to another transfer. With replies behind the events, or paths that are not
reused, the passing run shows that the verdict is right.

`simulated_push`: `messageAccessPushMessage` (`bluez_obex_client.dart:1438`) numbers a
pushed message by the messages of all sessions there are now. Two sessions, a push to the second
(`message2`), removal of the first, a second push to the second: two messages are
left, so the name `message2` is given again, the first pushed message is overwritten, and
it is announced twice. The service this backend "mirrors" (`:1087`) does
not name two live messages alike.

`studio_lost_service`: `doc/api.md:23-24` says to dispose of a client whose stream has ended and
create a new one. The studio's `onDone` (`main.dart:332`) writes a line and keeps the
client, and `_ensureClient` returns it for good; refreshing does not help while the
same device is selected.

Observed, without a run of its own: the example's README (lines 24-26) says closing removes both
sessions. If the view closes during `createSession`, the call drains and creates a session that
nobody tries to remove: the clean-up does not know it and `properties` is refused before the
branch at `main.dart:443` is reached. BlueZ drops the session when the connection
closes, so the effect is short when the view closes; when only `properties` fails the session stays until
the endpoint is switched.

## 6. Not modelled, and the plan

Not modelled for good: generated bindings and the Dart API headers, the library
loader (file system probing), build and packaging scripts, widgets, and text formatting. Within modelled
components:

- results above 2 GB (`copy_data` returns −1 when the size exceeds `INT32_MAX`);
- `client_create` clears `last_error` when it is called and sets it when it fails; `ErrorIsOwn` is about the calls
  made with a handle;
- texts other than ASCII in the codec (UTF-8 decoding is the platform's);
- overloads of the codec that no struct uses (int16, uint32, byte vectors, maps);
- the facade and its wrappers, which keep a path and forward.

Planned:

- `EventPipeline`: the object manager's posts through the worker to a watcher, to
  derive the environments of `TransferCompletion` instead of assuming them.

----------------------------- MODULE NativeCalls -----------------------------
(***************************************************************************)
(* One call of the C interface from beginning to end: the entry points of  *)
(* native/src/bluez_obex_client.cpp, the proxies they construct (native/   *)
(* src/obex_*_proxy.cpp) and the D-Bus methods those invoke (native/       *)
(* generated/*.h), for several threads at once on one MAP session.         *)
(*                                                                         *)
(* The tables say what each function does: an entry point names a proxy    *)
(* function, a proxy function the D-Bus methods it invokes in order, a     *)
(* method the signature of its reply.  A call is refused before anything   *)
(* is sent, or sends its requests one after the other and stops at the     *)
(* first failure.                                                          *)
(*                                                                         *)
(* The service runs the requests of one session in the order they are      *)
(* sent, so a request that is answered too late is, for every later one,   *)
(* the same as one that was run before its caller gave up.                 *)
(***************************************************************************)
EXTENDS Naturals, Sequences

CONSTANTS
  Threads,   \* native threads that call the library
  Uses,      \* thread -> the entry points it calls
  Texts,     \* folder arguments: sequences over "/" and names
  Tree,      \* the folders of the phone: sequences of names
  NoFolder   \* nothing was listed

ASSUME TreeAssumption ==
  /\ <<>> \in Tree
  /\ NoFolder \notin Tree
  /\ \A f \in Tree : f # <<>> => SubSeq(f, 1, Len(f) - 1) \in Tree

\* A name is all there is between two separators: no two are side by side.
ASSUME TextsAssumption ==
  \A text \in Texts :
    /\ text \in Seq({text[i] : i \in DOMAIN text})
    /\ \A i \in 1..Len(text) - 1 : "/" \in {text[i], text[i + 1]}

(***************************************************************************)
(* The C interface.                                                        *)
(***************************************************************************)
\* An entry point that returns the bytes of a proxy function, by call_bytes.
Bytes(does) == [does |-> does, answer |-> "bytes", filters |-> FALSE]
\* One that returns a number once a proxy function has returned: 0 by
\* call_status, the size for phonebook_get_size.
Status(does) == [does |-> does, answer |-> "status", filters |-> FALSE]
\* One that first converts filters, by make_variant_map.
Filtered(entry) == [entry EXCEPT !.filters = TRUE]

SessionCalls ==
  [create_session           |-> Bytes("create_session"),
   remove_session           |-> Status("remove_session"),
   session_get_properties   |-> Bytes("session_properties"),
   session_get_capabilities |-> Bytes("get_capabilities")]

TransferCalls ==
  [transfer_get_properties |-> Bytes("transfer_properties"),
   transfer_cancel         |-> Status("cancel"),
   transfer_suspend        |-> Status("suspend"),
   transfer_resume         |-> Status("resume")]

ObjectCalls ==
  [get_managed_objects |-> Bytes("managed_objects"),
   get_devices         |-> Bytes("devices")]

PhonebookPullCalls ==
  [phonebook_get_properties |-> Bytes("phonebook_properties"),
   phonebook_select         |-> Status("select"),
   phonebook_pull_all       |-> Filtered(Bytes("pull_all")),
   phonebook_pull           |-> Filtered(Bytes("pull"))]

PhonebookQueryCalls ==
  [phonebook_list               |-> Filtered(Bytes("list")),
   phonebook_search             |-> Filtered(Bytes("search")),
   phonebook_get_size           |-> Status("get_size"),
   phonebook_update_version     |-> Status("update_version"),
   phonebook_list_filter_fields |-> Bytes("phonebook_filter_fields")]

MessageAccessCalls ==
  [message_access_set_folder         |-> Status("set_folder"),
   message_access_get_properties     |-> Bytes("message_access_properties"),
   message_access_list_folders       |-> Filtered(Bytes("list_folders")),
   message_access_list_filter_fields |-> Bytes("message_filter_fields"),
   message_access_list_messages      |-> Filtered(Bytes("list_messages")),
   message_access_update_inbox       |-> Status("update_inbox"),
   message_access_push_message       |-> Filtered(Bytes("push_message"))]

MessageCalls ==
  [message_get_properties |-> Bytes("message_properties"),
   message_get            |-> Bytes("get"),
   message_set_read       |-> Status("set_read"),
   message_set_deleted    |-> Status("set_deleted")]

\* Several tables with different keys, as one.
Joined(tables) ==
  [key \in UNION {DOMAIN tables[i] : i \in DOMAIN tables} |->
     LET i == CHOOSE j \in DOMAIN tables : key \in DOMAIN tables[j]
     IN  tables[i][key]]

EntryPoints ==
  Joined(<<SessionCalls, TransferCalls, ObjectCalls, PhonebookPullCalls,
           PhonebookQueryCalls, MessageAccessCalls, MessageCalls>>)

ASSUME UsesAssumption == Uses \in [Threads -> SUBSET DOMAIN EntryPoints]

(***************************************************************************)
(* The proxies.  get_all_properties is Properties.GetAll of the object.    *)
(***************************************************************************)
get_all_properties == "GetAll"

SessionProxy ==
  [create_session     |-> <<"CreateSession", get_all_properties>>,
   remove_session     |-> <<"RemoveSession">>,
   session_properties |-> <<get_all_properties>>,
   get_capabilities   |-> <<"GetCapabilities">>]

TransferProxy ==
  [transfer_properties |-> <<get_all_properties>>,
   cancel              |-> <<"Cancel">>,
   suspend             |-> <<"Suspend">>,
   resume              |-> <<"Resume">>]

PhonebookProxy ==
  [phonebook_properties    |-> <<get_all_properties>>,
   select                  |-> <<"Select">>,
   pull_all                |-> <<"PullAll">>,
   pull                    |-> <<"Pull">>,
   list                    |-> <<"List">>,
   search                  |-> <<"Search">>,
   get_size                |-> <<"GetSize">>,
   update_version          |-> <<"UpdateVersion">>,
   phonebook_filter_fields |-> <<"ListFilterFields">>]

MessageAccessProxy ==
  [set_folder                |-> <<"SetFolder">>,
   list_folders              |-> <<"ListFolders">>,
   message_filter_fields     |-> <<"ListFilterFields">>,
   update_inbox              |-> <<"UpdateInbox">>,
   push_message              |-> <<"PushMessage">>,
   message_access_properties |-> <<get_all_properties>>]

MessageProxy ==
  [get                |-> <<"Get">>,
   set_read           |-> <<"Set">>,
   set_deleted        |-> <<"Set">>,
   message_properties |-> <<get_all_properties>>]

managed_objects == [managed_objects |-> <<"GetManagedObjects">>]
devices == [devices |-> <<"GetManagedObjects">>]

Proxies ==
  Joined(<<SessionProxy, TransferProxy, PhonebookProxy, MessageAccessProxy,
           MessageProxy, managed_objects, devices>>)

(***************************************************************************)
(* The generated proxies: whether a method's reply has contents that are   *)
(* read, by storeResultsTo.  Property writes are Properties.Set.           *)
(***************************************************************************)
Client1Replies == [CreateSession |-> TRUE, RemoveSession |-> FALSE]
Session1Replies == [GetCapabilities |-> TRUE]
Transfer1Replies == [Cancel |-> FALSE, Suspend |-> FALSE, Resume |-> FALSE]
PhonebookAccess1Replies ==
  [Select |-> FALSE, PullAll |-> TRUE, List |-> TRUE, Pull |-> TRUE,
   Search |-> TRUE, GetSize |-> TRUE, UpdateVersion |-> FALSE,
   ListFilterFields |-> TRUE]
MessageAccess1Replies ==
  [SetFolder |-> FALSE, ListFolders |-> TRUE, ListFilterFields |-> TRUE,
   ListMessages |-> TRUE, UpdateInbox |-> FALSE, PushMessage |-> TRUE]
Message1Replies == [Get |-> TRUE]
Message1Properties == [Set |-> FALSE]
StandardReplies == [GetAll |-> TRUE, GetManagedObjects |-> TRUE]

Replies ==
  Joined(<<Client1Replies, Session1Replies, Transfer1Replies,
           PhonebookAccess1Replies, MessageAccess1Replies, Message1Replies,
           Message1Properties, StandardReplies>>)

(***************************************************************************)
(* Folders.  A text is absolute when it begins with "/".                   *)
(***************************************************************************)
IsAbsolute(text) == text # <<>> /\ Head(text) = "/"
Names(text) ==
  LET upTo[n \in 0..Len(text)] ==
        IF n = 0 THEN <<>>
        ELSE IF text[n] = "/" THEN upTo[n - 1] ELSE Append(upTo[n - 1], text[n])
  IN  upTo[Len(text)]

\* The folder a text names for someone who is in folder f.
FolderAt(f, text) == IF IsAbsolute(text) THEN Names(text) ELSE f \o Names(text)

\* The service enters the folders of a path one by one and may fail at any.
Entered(f, text) ==
  LET from == IF IsAbsolute(text) THEN <<>> ELSE f
  IN  {f} \cup {from \o SubSeq(Names(text), 1, n) : n \in 0..Len(Names(text))}

Separators(text) == {i \in DOMAIN text : text[i] = "/"}

\* The text without the separators it begins and ends with.
Normalized(text) ==
  LET names == DOMAIN text \ Separators(text)
      first == CHOOSE i \in names : \A j \in names : i <= j
      last == CHOOSE i \in names : \A j \in names : j <= i
  IN  IF names = {} THEN <<>> ELSE SubSeq(text, first, last)

Request(method, text) == [method |-> method, text |-> text]

\* Mutated form: the parent is entered from the current folder.
ListMessages_Relative(text) ==
  LET normalized == Normalized(text)
      separators == Separators(normalized)
      last == CHOOSE i \in separators : \A j \in separators : j <= i
  IN  IF separators = {}
      THEN <<Request("ListMessages", normalized)>>
      ELSE <<Request("SetFolder", SubSeq(normalized, 1, last - 1)),
             Request("ListMessages",
                     SubSeq(normalized, last + 1, Len(normalized)))>>

\* A nested folder is listed by entering its parent, from the root, and
\* listing the last name; any other one relative to the current folder.
ListMessages(text) ==
  LET normalized == Normalized(text)
      separators == Separators(normalized)
      last == CHOOSE i \in separators : \A j \in separators : j <= i
  IN  IF separators = {}
      THEN <<Request("ListMessages", normalized)>>
      ELSE <<Request("SetFolder", <<"/">> \o SubSeq(normalized, 1, last - 1)),
             Request("ListMessages",
                     SubSeq(normalized, last + 1, Len(normalized)))>>

\* What a call of an entry point sends, in order.
Requests(entry, text) ==
  LET does == EntryPoints[entry].does
  IN  IF does = "list_messages" THEN ListMessages(text)
      ELSE [i \in DOMAIN Proxies[does] |-> Request(Proxies[does][i], text)]

\* Mutated form: CreateSession itself stands in the try block.
Optional_Session(entry, at) == entry = "create_session"

\* create_session does without the properties it cannot read.
Optional(entry, at) == entry = "create_session" /\ at = 2

MaxRequests == 2

(***************************************************************************)
(* Calls.                                                                  *)
(***************************************************************************)
VARIABLES
  call,       \* what each thread is doing, and how its call went
  lastError,  \* thread_local last_error
  folder      \* the session's current folder at the service

vars == <<call, lastError, folder>>

Causes == {"arguments", "bus", "reply", "memory"}
\* No error yet, or the one of an earlier call.
Earlier == [cause |-> "none", of |-> "earlier"]

Idle == [phase |-> "idle", entry |-> "none", text |-> <<>>, at |-> 1,
         ran |-> [i \in 1..MaxRequests |-> 0], cause |-> "none",
         start |-> NoFolder, listed |-> NoFolder]

\* The arguments a call can have: its folder, when it takes one.
TextsOf(entry) ==
  IF entry \in {"message_access_set_folder", "message_access_list_messages"}
  THEN Texts ELSE {<<>>}

Calls ==
  [phase : {"idle", "calling", "ok", "refused", "failed"},
   entry : DOMAIN EntryPoints \cup {"none"},
   text : Texts \cup {<<>>},
   at : 1..MaxRequests + 1,
   ran : [1..MaxRequests -> Nat],
   cause : Causes \cup {"none"},
   start : Tree \cup {NoFolder},
   listed : Tree \cup {NoFolder}]

TypeOK ==
  /\ call \in [Threads -> Calls]
  /\ \A t \in Threads : call[t].phase # "idle" => call[t].entry \in Uses[t]
  /\ lastError \in [Threads -> [cause : Causes \cup {"none"},
                                of : {"earlier", "current", "other"}]]
  /\ folder \in Tree

Init ==
  /\ call = [t \in Threads |-> Idle]
  /\ lastError = [t \in Threads |-> Earlier]
  /\ folder = <<>>

\* start is a history variable: the folder a listing began in, as long as
\* nobody else has moved the session.
Begun(entry, text) ==
  [Idle EXCEPT !.phase = "calling", !.entry = entry, !.text = text,
               !.start = IF entry = "message_access_list_messages"
                         THEN folder ELSE NoFolder]
ToSend(t) == Requests(call[t].entry, call[t].text)
Pending(t) == call[t].phase = "calling" /\ call[t].at <= Len(ToSend(t))

\* Mutated form: last_error is one object of the process.
record_error_Shared(t, cause) ==
  lastError' = [u \in Threads |->
                  [cause |-> cause, of |-> IF u = t THEN "current" ELSE "other"]]

\* record_error: the error of the thread that runs the catch block.
record_error(t, cause) ==
  lastError' = [lastError EXCEPT ![t] = [cause |-> cause, of |-> "current"]]

\* A thread enters an entry point.
Call(t) ==
  \E entry \in Uses[t] :
    \E text \in TextsOf(entry) :
      /\ call[t].phase = "idle"
      /\ call' = [call EXCEPT ![t] = Begun(entry, text)]
      /\ UNCHANGED <<lastError, folder>>

\* -1: a null argument, or no client for the handle.
Refuse(t) ==
  /\ call[t].phase = "calling"
  /\ call[t].at = 1
  /\ call' = [call EXCEPT ![t].phase = "refused"]
  /\ UNCHANGED <<lastError, folder>>

Failed(c, cause) == [c EXCEPT !.phase = "failed", !.cause = cause]

\* Mutated form: the filters are converted for the request that takes them,
\* after the folder has been entered.
RejectArguments_Late(t) ==
  /\ call[t].phase = "calling"
  /\ call[t].at = Len(ToSend(t))
  /\ EntryPoints[call[t].entry].filters
  /\ call' = [call EXCEPT ![t] = Failed(call[t], "arguments")]
  /\ record_error(t, "arguments")
  /\ UNCHANGED folder

\* -3: the filters cannot be converted.
RejectArguments(t) ==
  /\ call[t].phase = "calling"
  /\ call[t].at = 1
  /\ EntryPoints[call[t].entry].filters
  /\ call' = [call EXCEPT ![t] = Failed(call[t], "arguments")]
  /\ record_error(t, "arguments")
  /\ UNCHANGED folder

\* The service ran the thread's request n times; the session is now in
\* folder f, under the feet of whoever else is calling.
Ran(t, n, f, c) ==
  /\ folder' = f
  /\ call' = [u \in Threads |->
                IF u = t
                THEN [c EXCEPT !.ran[call[t].at] = @ + n]
                ELSE [call[u] EXCEPT
                        !.start = IF f # folder THEN NoFolder ELSE @]]

Current(t) == ToSend(t)[call[t].at]
Answered(c) == [c EXCEPT !.at = @ + 1]

\* A request is run and answered.
Serve(t) ==
  /\ Pending(t)
  /\ LET there == FolderAt(folder, Current(t).text)
         done == Answered(call[t])
     IN  \/ /\ Current(t).method = "SetFolder"
            /\ there \in Tree
            /\ Ran(t, 1, there, done)
         \/ /\ Current(t).method = "ListMessages"
            /\ there \in Tree
            /\ Ran(t, 1, folder, [done EXCEPT !.listed = there])
         \/ /\ Current(t).method \notin {"SetFolder", "ListMessages"}
            /\ Ran(t, 1, folder, done)
  /\ UNCHANGED lastError

\* The caller of a request gets an error: the service was not reached or
\* refused it, it answered too late, after it ran it or some of it, or its
\* answer has contents of another type.
NotServed(t, n, cause, c) ==
  /\ Pending(t)
  /\ cause = "reply" => n = 1 /\ Replies[Current(t).method]
  /\ \E f \in IF n = 1 /\ Current(t).method = "SetFolder"
            THEN Entered(folder, Current(t).text) \cap Tree
            ELSE {folder} :
       Ran(t, n, f, c)

Fail(t) ==
  \E n \in 0..1, cause \in {"bus", "reply"} :
    /\ ~ Optional(call[t].entry, call[t].at)
    /\ NotServed(t, n, cause, Failed(call[t], cause))
    /\ record_error(t, cause)

\* create_session: the properties could not be read.
GoWithout(t) ==
  \E n \in 0..1, cause \in {"bus", "reply"} :
    /\ Optional(call[t].entry, call[t].at)
    /\ NotServed(t, n, cause, Answered(call[t]))
    /\ UNCHANGED lastError

\* Everything is answered: the result is copied out and its size returned.
Return(t) ==
  /\ call[t].phase = "calling"
  /\ call[t].at > Len(ToSend(t))
  /\ call' = [call EXCEPT ![t].phase = "ok"]
  /\ UNCHANGED <<lastError, folder>>

\* There is no memory for the copy.
NoMemory(t) ==
  /\ call[t].phase = "calling"
  /\ call[t].at > Len(ToSend(t))
  /\ EntryPoints[call[t].entry].answer = "bytes"
  /\ call' = [call EXCEPT ![t] = Failed(call[t], "memory")]
  /\ record_error(t, "memory")
  /\ UNCHANGED folder

\* The caller has read the result, and the error of a failure, which from
\* then on is that of an earlier call.
Take(t) ==
  /\ call[t].phase \in {"ok", "refused", "failed"}
  /\ call' = [call EXCEPT ![t] = Idle]
  /\ lastError' = [lastError EXCEPT ![t] = Earlier]
  /\ UNCHANGED folder

Step(t) ==
  \/ Call(t) \/ Refuse(t) \/ RejectArguments(t) \/ Serve(t) \/ Fail(t)
  \/ GoWithout(t) \/ Return(t) \/ NoMemory(t) \/ Take(t)

Next == \E t \in Threads : Step(t)

Spec == Init /\ [][Next]_vars

(***************************************************************************)
(* Properties.                                                             *)
(***************************************************************************)
\* What a caller finds in last_error after -3 is why its own call failed,
\* whatever other threads do meanwhile; a call that did not fail leaves no
\* error of its own behind (bluez_obex_native.h: "Details for the latest -3
\* result on the calling thread").
ErrorIsOwn ==
  \A t \in Threads :
    /\ call[t].phase = "failed" =>
         lastError[t] = [cause |-> call[t].cause, of |-> "current"]
    /\ call[t].phase \in {"calling", "ok", "refused"} =>
         lastError[t] = Earlier

\* What a result says of the service is true: success means that every
\* request of the operation ran exactly once, up to the properties that
\* create_session does without; after a failure each ran at most once and
\* none behind the one that failed (bluez_obex_native.h: "Each operation
\* executes exactly once").
ReportedAsExecuted ==
  \A t \in Threads :
    /\ \A i \in 1..MaxRequests : call[t].ran[i] <= 1
    /\ call[t].phase = "ok" =>
         \A i \in 1..Len(ToSend(t)) :
           call[t].ran[i] = 1 \/ (call[t].entry = "create_session" /\ i = 2)
    /\ call[t].phase = "failed" =>
         \A i \in 1..MaxRequests :
           /\ i < call[t].at =>
                call[t].ran[i] = 1 \/ (call[t].entry = "create_session" /\ i = 2)
           /\ i > call[t].at => call[t].ran[i] = 0

\* A call that is refused, or whose filters are malformed, has not touched
\* the service: nothing was sent, no folder was entered (doc/api.md: "fail
\* before D-Bus dispatch").
RefusedUnsent ==
  \A t \in Threads :
    call[t].phase = "refused" \/ call[t].cause = "arguments" =>
      \A i \in 1..MaxRequests : call[t].ran[i] = 0

\* A listing is of the folder its text names: from the root when the text
\* has several names, in the session's current folder otherwise, unless
\* somebody else moved the session while the call ran (doc/api.md: "Listing
\* telecom/msg/inbox navigates from the service's root before listing
\* inbox").
ListsNamedFolder ==
  \A t \in Threads :
    LET c == call[t]
        names == Names(c.text)
    IN  /\ c.phase = "ok"
        /\ c.entry = "message_access_list_messages"
        /\ c.start # NoFolder
        => c.listed = IF Len(names) > 1 THEN names ELSE c.start \o names
=============================================================================

------------------------------ MODULE Payloads ------------------------------
(***************************************************************************)
(* The way of data through the library: a filter map from Dart to a D-Bus  *)
(* request, and an answer or a notification of the service from D-Bus to   *)
(* Dart.  Each step is a function of PayloadConversion or WireCodec; this  *)
(* module puts them in the order of the code and lets what Dart receives   *)
(* be cut short or changed on the way.                                     *)
(*                                                                         *)
(* An answer is [kind, via, path, says]: the struct it becomes, whether it *)
(* answers a call ("call", "unread" for a session whose properties could   *)
(* not be read) or is posted ("event"), the object it is about, and what   *)
(* the service said.                                                       *)
(***************************************************************************)
EXTENDS PayloadConversion

CONSTANTS
  FilterSamples,  \* the filter maps Dart code passes, a sequence
  AnswerSamples,  \* the answers of the service, a sequence
  RaisedTo,       \* what a damaged byte becomes
  Damageable      \* the longest message that is damaged, in bytes

\* Texts, and the values a filter map can hold in Dart.
Text == Seq(0..255)
DartValue ==
  ({"null"} \X {0}) \cup ({"int"} \X Int) \cup ({"bool"} \X BOOLEAN)
    \cup ({"text"} \X Text) \cup ({"list"} \X Seq(Text))

ASSUME FilterSamplesAssumption ==
  \A n \in DOMAIN FilterSamples : \A key \in DOMAIN FilterSamples[n] :
    FilterSamples[n][key] \in DartValue

\* What D-Bus delivers: numbers and lengths are below 2^24 here and texts
\* ASCII.
Below(n) == {k \in Nat : k < n}
Limit == 16777216
Ascii == {text \in Seq(0..127) : Len(text) < Limit}
AsciiList ==
  {list \in Seq(Ascii) : Len(list) < Limit /\ Len(Joined(list)) < Limit}
DBusValue ==
  ({"s", "o"} \X Ascii) \cup ({"b"} \X BOOLEAN) \cup ({"y"} \X Below(256))
    \cup ({"q"} \X Below(65536)) \cup ({"u", "t"} \X Below(Limit))
    \cup ({"n", "i", "x"} \X {k \in Int : k < Limit /\ -k < Limit})
    \cup ({"as"} \X AsciiList) \cup ({"d"} \X {0})

IsDictionary(f) == \A key \in DOMAIN f : f[key] \in DBusValue
IsMap(f) ==
  /\ IsFiniteSet(DOMAIN f) /\ DOMAIN f \subseteq Ascii
  /\ Cardinality(DOMAIN f) < Limit
IsRecord(r, names) == r \in [names -> Ascii]

\* What the service says for each struct.
Says(kind, says) ==
  CASE kind \in DOMAIN PropsFromMap -> IsDictionary(says)
    [] kind = "TransferResult" -> IsMap(says) /\ IsDictionary(says)
    [] kind = "PhonebookEntries" ->
         says \in Seq(Ascii \X Ascii) /\ Len(says) < Limit
    [] kind = "MessageFolders" ->
         /\ says \in Seq({says[i] : i \in DOMAIN says}) /\ Len(says) < Limit
         /\ \A i \in DOMAIN says : IsDictionary(says[i])
    [] kind = "Messages" ->
         IsMap(says) /\ \A path \in DOMAIN says : IsDictionary(says[path])
    [] kind = "FilterFields" -> says \in AsciiList
    [] kind = "ManagedObjects" -> IsMap(says)
    [] kind = "Devices" ->
         /\ IsMap(says)
         /\ \A path \in DOMAIN says : "Device1" \in DOMAIN says[path]
              => IsDictionary(says[path]["Device1"])
    [] kind \in {"ObjectAdded", "ObjectRemoved"} ->
         IsRecord(says, {"objectPath", "interfaceName"})
    [] kind = "Error" -> IsRecord(says, {"objectPath", "name", "message"})
    [] OTHER -> FALSE

\* post_properties, post_removed, post_added, post_error
Discriminator ==
  [SessionProps |-> 1, TransferProps |-> 2, PhonebookProps |-> 3,
   MessageProps |-> 6, MessageAccessProps |-> 7, Error |-> 32,
   ObjectAdded |-> 125, ObjectRemoved |-> 126]

ASSUME AnswerSamplesAssumption ==
  /\ RaisedTo \subseteq 0..255
  /\ \A n \in DOMAIN AnswerSamples :
       LET a == AnswerSamples[n]
       IN  /\ a.path \in Ascii
           /\ IF a.via = "unread"
              THEN a.kind = "SessionProps" /\ a.says \in Ascii
              ELSE Says(a.kind, a.says)
           /\ a.via = "event" => a.kind \in DOMAIN Discriminator

VARIABLES
  stage,     \* how far the data has come
  filters,   \* the filter map, in Dart
  strings,   \* the same as texts
  variants,  \* the same as D-Bus variants
  answer,    \* what the service said
  wire,      \* the bytes it became
  received   \* what Dart read: the type of an event, and the result

vars == <<stage, filters, strings, variants, answer, wire, received>>
request == <<filters, strings, variants>>
reply == <<answer, wire, received>>

Nothing == [nothing |-> TRUE]

(***************************************************************************)
(* Events.                                                                 *)
(***************************************************************************)
\* BlueZObexEventType: the struct each type of event carries.
EventTypes ==
  {<<1, "SessionProps">>, <<2, "TransferProps">>, <<3, "PhonebookProps">>,
   <<4, "PhonebookEntries">>, <<5, "MessageFolders">>, <<6, "MessageProps">>,
   <<7, "MessageAccessProps">>, <<16, "TransferResult">>, <<32, "Error">>,
   <<125, "ObjectAdded">>, <<126, "ObjectRemoved">>}
BareEventTypes == {<<0, "initialSnapshotComplete">>, <<255, "streamDone">>}

fromDiscriminator(value) ==
  LET named == {t \in EventTypes \cup BareEventTypes : t[1] = value}
  IN  IF named = {} THEN "unknown" ELSE (CHOOSE t \in named : TRUE)[2]

decodeNativeEvent(message) ==
  LET type == IF message = <<>> THEN "unknown" ELSE fromDiscriminator(message[1])
  IN  [type |-> type,
       result |-> IF type \in Structs THEN Decode(type, message, 1)
                  ELSE Result(Len(message), <<>>)]

(***************************************************************************)
(* The native side's half of an answer.                                    *)
(***************************************************************************)
ToStruct(a) ==
  CASE a.via = "unread" -> SessionWithoutProps(a.path, a.says)
    [] a.via # "unread" /\ a.kind \in DOMAIN PropsFromMap ->
         Props(a.kind, a.path, a.says)
    [] a.kind = "TransferResult" -> transfer_result_from_dbus(a.path, a.says)
    [] a.kind = "PhonebookEntries" -> to_entries(a.says)
    [] a.kind = "MessageFolders" -> to_folders(a.says)
    [] a.kind = "Messages" -> to_messages(a.says)
    [] a.kind = "FilterFields" -> [fields |-> a.says]
    [] a.kind = "ManagedObjects" -> get_managed_objects(a.says)
    [] a.kind = "Devices" -> get_devices(a.says)
    [] a.kind \in {"ObjectAdded", "ObjectRemoved", "Error"} -> a.says

\* post_glaze and post_bytes put a byte before an event.
Posted(a) ==
  LET bytes == Encode(a.kind, ToStruct(a))
  IN  IF a.via = "event" THEN <<Discriminator[a.kind]>> \o bytes ELSE bytes

(***************************************************************************)
(* Steps.                                                                  *)
(***************************************************************************)
Init ==
  /\ stage = "idle"
  /\ filters = Nothing /\ strings = Nothing /\ variants = Nothing
  /\ answer = Nothing /\ wire = <<>> /\ received = Nothing

HasNul(text) == \E i \in DOMAIN text : text[i] = 0

\* nativeStringMapValues and make_variant_map's std::map.  A name with a zero
\* byte is refused there too: names are strings here and have none.
Marshal ==
  \E n \in DOMAIN FilterSamples :
    LET map == FilterSamples[n]
        texts == [key \in DOMAIN map |-> FilterValueToString(map[key])]
    IN  /\ stage = "idle"
        /\ stage' = IF \E key \in DOMAIN map : HasNul(texts[key])
                    THEN "refused" ELSE "texts"
        /\ filters' = map
        /\ strings' = texts
        /\ UNCHANGED <<variants, reply>>

Send ==
  LET converted == variant_map_from_strings(strings)
  IN  /\ stage = "texts"
      /\ stage' = IF converted.ok THEN "sent" ELSE "refused"
      /\ variants' = IF converted.ok THEN converted.variants ELSE Nothing
      /\ UNCHANGED <<filters, strings, reply>>

Answer ==
  \E n \in DOMAIN AnswerSamples :
    /\ stage = "idle"
    /\ stage' = "posted"
    /\ answer' = AnswerSamples[n]
    /\ wire' = Posted(AnswerSamples[n])
    /\ UNCHANGED <<request, received>>

\* The message is cut short.
Cut ==
  \E n \in 0..Len(wire) - 1 :
    /\ stage = "posted"
    /\ Len(wire) <= Damageable
    /\ stage' = "cut"
    /\ wire' = SubSeq(wire, 1, n)
    /\ UNCHANGED <<request, answer, received>>

\* One of its bytes is another one.
Change ==
  \E i \in DOMAIN wire, v \in RaisedTo :
    /\ stage = "posted"
    /\ Len(wire) <= Damageable
    /\ wire[i] # v
    /\ stage' = "changed"
    /\ wire' = [wire EXCEPT ![i] = v]
    /\ UNCHANGED <<request, answer, received>>

Receive ==
  /\ stage \in {"posted", "cut", "changed"}
  /\ stage' = CASE stage = "posted" -> "received"
                [] stage = "cut" -> "received_cut"
                [] stage = "changed" -> "received_changed"
  /\ received' = IF answer.via = "event" THEN decodeNativeEvent(wire)
                 ELSE [type |-> answer.kind, result |-> Decode(answer.kind, wire, 0)]
  /\ UNCHANGED <<request, answer, wire>>

\* The data has been used.
Forget ==
  /\ stage \in {"sent", "refused", "received", "received_cut",
                "received_changed"}
  /\ stage' = "idle"
  /\ filters' = Nothing /\ strings' = Nothing /\ variants' = Nothing
  /\ answer' = Nothing /\ wire' = <<>> /\ received' = Nothing

Next == Marshal \/ Send \/ Answer \/ Cut \/ Change \/ Receive \/ Forget

Spec == Init /\ [][Next]_vars

(***************************************************************************)
(* Filters arrive.                                                         *)
(***************************************************************************)
\* The type BlueZ expects of a filter, and the numbers it can hold.
Numeric == [MaxCount |-> 65535, Offset |-> 65535, ListStartOffset |-> 65535,
            StartOffset |-> 65535, SubjectLength |-> 255]
Listed == {"Fields", "Filter", "FilterAll", "FilterAny", "Types"}
Boolean ==
  {"ResetNewMissedCalls", "Read", "Priority", "Transparent", "Retry"}
Expected(key) ==
  CASE key \in DOMAIN Numeric -> IF Numeric[key] = 255 THEN "y" ELSE "q"
    [] key \in Listed -> "as"
    [] key \in Boolean -> "b"
    [] OTHER -> "s"

\* Dart values that mean what a filter of this name takes.
Fits(key, v) ==
  CASE key \in DOMAIN Numeric -> v[1] = "int" /\ v[2] \in 0..Numeric[key]
    [] key \in Listed ->
         /\ v[1] = "list"
         /\ \A i \in DOMAIN v[2] :
              /\ v[2][i] # <<>>
              /\ \A j \in DOMAIN v[2][i] : v[2][i][j] \notin {0, Comma}
    [] key \in Boolean -> v[1] = "bool"
    [] OTHER -> v[1] = "text" /\ ~ HasNul(v[2])

\* A text that is the digits of a number, zeros in front of them or not.
StandsFor(text, n) ==
  LET zeros == Len(text) - Len(Decimal(n))
  IN  /\ zeros >= 0
      /\ \A i \in DOMAIN text :
           text[i] = IF i <= zeros THEN 48 ELSE Decimal(n)[i - zeros]

\* Dart values that say a number or a truth value: itself, a text of it, or a
\* list of one such text.
SaysNumber(v, n) ==
  \/ v[1] = "int" /\ v[2] = n
  \/ v[1] = "text" /\ StandsFor(v[2], n)
  \/ v[1] = "list" /\ Len(v[2]) = 1 /\ StandsFor(v[2][1], n)
SaysTruth(v, b) ==
  v \in {<<"bool", b>>, <<"text", BoolText(b)>>, <<"list", <<BoolText(b)>>>>}

\* Every filter is sent, and in the type BlueZ expects of it, or nothing is.
\* Those that fit are never refused and arrive as they were: the same number,
\* list, truth value or text.  A number that is sent is in the range of its
\* type and is the one the Dart value says, and so is a truth value: "007" may
\* be sent as 7, but no other text, nor null, is sent as a number, and none
\* that is too large as what is left of it
\* (test/bluez_obex_client_test.dart, native/test/test_obex_types.cpp).
FiltersArrive ==
  LET keys == DOMAIN filters \ {""}
  IN  /\ stage = "refused" =>
           \E key \in DOMAIN filters : ~ Fits(key, filters[key])
      /\ stage = "sent" =>
           /\ DOMAIN variants = keys
           /\ \A key \in keys :
                /\ variants[key][1] = Expected(key)
                /\ Fits(key, filters[key]) => variants[key][2] = filters[key][2]
                /\ key \in DOMAIN Numeric =>
                     /\ variants[key][2] \in 0..Numeric[key]
                     /\ SaysNumber(filters[key], variants[key][2])
                /\ key \in Boolean => SaysTruth(filters[key], variants[key][2])

(***************************************************************************)
(* Answers arrive.                                                         *)
(***************************************************************************)
\* The properties of the interfaces, and their types.
Session1 ==
  {<<"Source", "s">>, <<"Destination", "s">>, <<"Channel", "y">>,
   <<"PSM", "q">>, <<"Target", "s">>, <<"Root", "s">>}
Transfer1 ==
  {<<"Status", "s">>, <<"Session", "o">>, <<"Name", "s">>, <<"Type", "s">>,
   <<"Time", "t">>, <<"Size", "t">>, <<"Transferred", "t">>,
   <<"Filename", "s">>}
PhonebookAccess1 ==
  {<<"Folder", "s">>, <<"DatabaseIdentifier", "s">>,
   <<"PrimaryCounter", "s">>, <<"SecondaryCounter", "s">>,
   <<"FixedImageSize", "b">>}
MessageAccess1 == {<<"SupportedTypes", "as">>}
Message1Headers ==
  {<<"Folder", "s">>, <<"Subject", "s">>, <<"Timestamp", "s">>,
   <<"Sender", "s">>, <<"SenderAddress", "s">>, <<"ReplyTo", "s">>,
   <<"Recipient", "s">>, <<"RecipientAddress", "s">>, <<"Type", "s">>,
   <<"Size", "t">>, <<"Status", "s">>, <<"Priority", "b">>, <<"Read", "b">>}
Message1State ==
  {<<"Sent", "b">>, <<"Protected", "b">>, <<"DeliveryStatus", "s">>,
   <<"ConversationId", "t">>, <<"ConversationName", "s">>,
   <<"Direction", "s">>, <<"AttachmentMimeTypes", "s">>}
\* Those only a listing has, or that can only be written.
Message1Listed ==
  {<<"Text", "b">>, <<"AttachmentSize", "t">>, <<"Deleted", "b">>}

Interfaces ==
  [SessionProps |-> Session1, TransferProps |-> Transfer1,
   PhonebookProps |-> PhonebookAccess1, MessageAccessProps |-> MessageAccess1,
   MessageProps |-> Message1Headers \cup Message1State \cup Message1Listed]

\* The name Dart has for a property.
DartName ==
  [Source |-> "source", Destination |-> "destination", Channel |-> "channel",
   PSM |-> "psm", Target |-> "target", Root |-> "root", Status |-> "status",
   Session |-> "session", Name |-> "name", Type |-> "type", Time |-> "time",
   Size |-> "size", Transferred |-> "transferred", Filename |-> "filename",
   Folder |-> "folder", DatabaseIdentifier |-> "databaseIdentifier",
   PrimaryCounter |-> "primaryCounter",
   SecondaryCounter |-> "secondaryCounter",
   FixedImageSize |-> "fixedImageSize", SupportedTypes |-> "supportedTypes",
   Subject |-> "subject", Timestamp |-> "timestamp", Sender |-> "sender",
   SenderAddress |-> "senderAddress", ReplyTo |-> "replyTo",
   Recipient |-> "recipient", RecipientAddress |-> "recipientAddress",
   Priority |-> "priority", Read |-> "read", Sent |-> "sent",
   Protected |-> "protected", DeliveryStatus |-> "deliveryStatus",
   ConversationId |-> "conversationId",
   ConversationName |-> "conversationName", Direction |-> "direction",
   AttachmentMimeTypes |-> "attachmentMimeTypes", Text |-> "text",
   AttachmentSize |-> "attachmentSize", Deleted |-> "deleted"]

\* What the service said of a property, in its type.
Said(properties, name, type) ==
  IF name \in DOMAIN properties /\ properties[name][1] = type
  THEN properties[name][2] ELSE Default(type)

\* A record says of an object what the service said of it, and nothing of
\* what the service did not say or said in another type.
Agrees(record, struct, path, properties) ==
  /\ record.objectPath = path
  /\ \A property \in Interfaces[struct] :
       record[DartName[property[1]]] = Said(properties, property[1], property[2])

Once(list, set) ==
  /\ Len(list) = Cardinality(set)
  /\ \A x \in set : \E i \in DOMAIN list : list[i] = x

\* Items that can be told apart once joined.
Items(list) ==
  \A i \in 1..Len(list) :
    list[i] # <<>> /\ \A k \in 1..Len(list[i]) : list[i][k] # Comma

\* The variant a text of a transfer's properties stands for.
ReadsAs(text, v) ==
  CASE v[1] \in {"s", "o"} -> text = v[2]
    [] v[1] = "b" -> text = BoolText(v[2])
    [] v[1] \in {"y", "q"} -> IsNumber(text) /\ FromChars(text) = v[2]
    [] v[1] \in {"u", "t", "n", "i", "x"} -> text = Decimal(v[2])
    [] v[1] = "as" -> Items(v[2]) => split_csv(text) = v[2]
    [] OTHER -> TRUE

Address(properties) == Said(properties, "Address", "s")

\* A device goes by the first name it has; its address is one.
Describes(device, properties) ==
  LET names == <<Said(properties, "Alias", "s"), Said(properties, "Name", "s"),
                 Address(properties)>>
  IN  /\ device.address = Address(properties)
      /\ \E i \in 1..3 : /\ device.name = names[i] /\ names[i] # <<>>
                        /\ \A j \in 1..i-1 : names[j] = <<>>
      /\ device.paired = Said(properties, "Paired", "b")
      /\ device.connected = Said(properties, "Connected", "b")
      /\ device.uuids = Said(properties, "UUIDs", "as")

Understood(a, r) ==
  CASE a.via = "unread" ->
         Agrees(r, "SessionProps", a.path,
                [Destination |-> <<"s", a.says>>])
    [] a.via # "unread" /\ a.kind \in DOMAIN Interfaces ->
         Agrees(r, a.kind, a.path, a.says)
    [] a.kind = "Messages" ->
         /\ Once([i \in DOMAIN r.messages |-> r.messages[i].objectPath],
                 DOMAIN a.says)
         /\ \A i \in DOMAIN r.messages :
              Agrees(r.messages[i], "MessageProps", r.messages[i].objectPath,
                     a.says[r.messages[i].objectPath])
    [] a.kind = "TransferResult" ->
         /\ r.transferPath = a.path
         /\ Once([i \in DOMAIN r.properties |-> r.properties[i].key],
                 DOMAIN a.says)
         /\ \A i \in DOMAIN r.properties :
              ReadsAs(r.properties[i].value, a.says[r.properties[i].key])
    [] a.kind = "PhonebookEntries" ->
         a.says = [i \in DOMAIN r.entries |->
                     <<r.entries[i].vcard, r.entries[i].name>>]
    [] a.kind = "MessageFolders" ->
         /\ Len(r.folders) = Len(a.says)
         /\ \A i \in DOMAIN r.folders :
              r.folders[i].name = Said(a.says[i], "Name", "s")
    [] a.kind = "FilterFields" -> r.fields = a.says
    [] a.kind = "ManagedObjects" ->
         \A f \in {<<"sessions", "Session1">>, <<"transfers", "Transfer1">>,
                   <<"phonebooks", "PhonebookAccess1">>,
                   <<"messageAccesses", "MessageAccess1">>,
                   <<"messages", "Message1">>} :
           Once(r[f[1]], {p \in DOMAIN a.says : f[2] \in DOMAIN a.says[p]})
    [] a.kind = "Devices" ->
         LET device == {p \in DOMAIN a.says : "Device1" \in DOMAIN a.says[p]}
             usable == {p \in device : Address(a.says[p]["Device1"]) # <<>>}
         IN  /\ Len(r.devices) = Cardinality(usable)
             /\ \A p \in usable : \E i \in DOMAIN r.devices :
                  Describes(r.devices[i], a.says[p]["Device1"])
    [] a.kind \in {"ObjectAdded", "ObjectRemoved", "Error"} -> r = a.says

\* What Dart reads from an undamaged message is what the service said, read
\* to its last byte, and so is what the C++ decoder reads (glaze_meta.h and
\* codec.dart: "Matches glaze_meta.h").
AnswersArrive ==
  stage = "received" =>
    /\ received.type = answer.kind
    /\ received.result.ok
    /\ received.result.at = Len(wire)
    /\ Understood(answer, received.result.value)
    /\ NativeDecode(answer.kind, wire, IF answer.via = "event" THEN 1 ELSE 0).value
         = received.result.value

\* A message that was cut short is never taken for a whole one, and reading
\* any message makes room for at most half as many list elements as it has
\* bytes (glaze_meta.h:18 "Readers must bounds-check every prefix").
DamageRefused ==
  received # Nothing =>
    /\ stage = "received_cut" /\ received.type = answer.kind
         => ~ received.result.ok
    /\ 2 * received.result.slots <= Len(wire)
=============================================================================

-------------------------- MODULE PayloadConversion --------------------------
(***************************************************************************)
(* What happens to data between Dart and D-Bus.  On the way out a filter   *)
(* map becomes texts in Dart (lib/src/native_bridge.dart) and typed        *)
(* variants in C++ (native/src/obex_proxy_utils.cpp).  On the way back the *)
(* answers of the service become the structs of WireCodec.                 *)
(*                                                                         *)
(* Texts are sequences of byte codes.  A variant is <<signature, value>>;  *)
(* a D-Bus dictionary is a function.  std::map yields keys in order.       *)
(***************************************************************************)
EXTENDS WireCodec, Integers, FiniteSets, TLC

Comma == 44
Slash == 47
Minus == 45
Digits == 48..57
TrueText == <<116, 114, 117, 101>>
FalseText == <<102, 97, 108, 115, 101>>
BoolText(b) == IF b THEN TrueText ELSE FalseText

\* std::to_string, Dart's int.toString
Decimal(n) ==
  LET size == IF n < 0 THEN -n ELSE n
      digits[m \in 0..size] ==
        IF m < 10 THEN <<48 + m>> ELSE Append(digits[m \div 10], 48 + (m % 10))
  IN  IF n < 0 THEN <<Minus>> \o digits[size] ELSE digits[size]

\* join_strings, Dart's Iterable.join(",")
Joined(texts) ==
  FlattenSeq([i \in DOMAIN texts |->
                IF i = 1 THEN texts[i] ELSE <<Comma>> \o texts[i]])

(***************************************************************************)
(* Filters, on their way out.                                              *)
(***************************************************************************)
\* _filterValueToString, of a Dart value <<its class, it>>.
FilterValueToString(v) ==
  CASE v[1] = "null" -> <<>>
    [] v[1] = "list" -> Joined(v[2])
    [] v[1] = "int"  -> Decimal(v[2])
    [] v[1] = "bool" -> BoolText(v[2])
    [] v[1] = "text" -> v[2]

is_uint16_key == {"MaxCount", "Offset", "ListStartOffset", "StartOffset"}
is_string_array_key == {"Fields", "Filter", "FilterAll", "FilterAny", "Types"}
is_bool_key ==
  {"ResetNewMissedCalls", "Read", "Priority", "Transparent", "Retry"}

\* What std::from_chars makes of a text that is all digits: anything above
\* the range of uint16 is refused the same way.
TooLarge == 65536
FromChars(text) ==
  LET value[i \in 0..Len(text)] ==
        IF i = 0 THEN 0
        ELSE IF 10 * value[i - 1] + text[i] - 48 > TooLarge THEN TooLarge
        ELSE 10 * value[i - 1] + text[i] - 48
  IN  value[Len(text)]

IsNumber(text) == text # <<>> /\ \A i \in DOMAIN text : text[i] \in Digits

\* Converted text: whether it could be, and to what.
Parsed(ok, variant) == [ok |-> ok, variant |-> variant]
Malformed == Parsed(FALSE, <<"none", 0>>)

\* Mutated form: the number wraps around.
parse_uint_Wraps(signature, limit, text) ==
  IF IsNumber(text)
  THEN Parsed(TRUE, <<signature, FromChars(text) % (limit + 1)>>)
  ELSE Malformed

\* parse_uint16, parse_uint8
parse_uint(signature, limit, text) ==
  IF IsNumber(text) /\ FromChars(text) <= limit
  THEN Parsed(TRUE, <<signature, FromChars(text)>>)
  ELSE Malformed

\* split_csv: the non-empty stretches between commas.
split_csv(text) ==
  LET ends == {0, Len(text) + 1} \cup {i \in DOMAIN text : text[i] = Comma}
      starts == {i \in ends : i + 1 \in DOMAIN text /\ text[i + 1] # Comma}
      end(i) == CHOOSE j \in ends : j > i /\ \A k \in ends : k > i => j <= k
  IN  [n \in 1..Cardinality(starts) |->
         LET i == CHOOSE i \in starts :
                    Cardinality({j \in starts : j <= i}) = n
         IN  SubSeq(text, i + 1, end(i) - 1)]

ConvertFilter(key, text) ==
  CASE key \in is_uint16_key -> parse_uint("q", 65535, text)
    [] key = "SubjectLength" -> parse_uint("y", 255, text)
    [] key \in is_string_array_key -> Parsed(TRUE, <<"as", split_csv(text)>>)
    [] key \in is_bool_key ->
         IF text \in {TrueText, FalseText}
         THEN Parsed(TRUE, <<"b", text = TrueText>>) ELSE Malformed
    [] OTHER -> Parsed(TRUE, <<"s", text>>)

\* Nothing is sent unless every filter can be converted; a filter without a
\* name is left out.
variant_map_from_strings(strings) ==
  LET keys == DOMAIN strings \ {""}
  IN  [ok |-> \A key \in keys : ConvertFilter(key, strings[key]).ok,
       variants |-> [key \in keys |-> ConvertFilter(key, strings[key]).variant]]

(***************************************************************************)
(* Properties, on their way back.                                          *)
(***************************************************************************)
Default(signature) ==
  CASE signature \in {"s", "o", "as"} -> <<>>
    [] signature = "b" -> FALSE
    [] OTHER -> 0

\* A property that is missing or has another type counts as its default.
get_property_value(properties, key, signature) ==
  IF key \in DOMAIN properties /\ properties[key][1] = signature
  THEN properties[key][2] ELSE Default(signature)

\* For each field of a struct the property it is taken from, and its type.
session_props_from_map ==
  <<<<"source", "Source", "s">>, <<"destination", "Destination", "s">>,
    <<"channel", "Channel", "y">>, <<"psm", "PSM", "q">>,
    <<"target", "Target", "s">>, <<"root", "Root", "s">>>>

\* Mutated form: the session's object path is read as a text.
transfer_props_from_map_Text ==
  <<<<"status", "Status", "s">>, <<"session", "Session", "s">>,
    <<"name", "Name", "s">>, <<"type", "Type", "s">>, <<"time", "Time", "t">>,
    <<"size", "Size", "t">>, <<"transferred", "Transferred", "t">>,
    <<"filename", "Filename", "s">>>>

transfer_props_from_map ==
  <<<<"status", "Status", "s">>, <<"session", "Session", "o">>,
    <<"name", "Name", "s">>, <<"type", "Type", "s">>, <<"time", "Time", "t">>,
    <<"size", "Size", "t">>, <<"transferred", "Transferred", "t">>,
    <<"filename", "Filename", "s">>>>

phonebook_props_from_map ==
  <<<<"folder", "Folder", "s">>,
    <<"databaseIdentifier", "DatabaseIdentifier", "s">>,
    <<"primaryCounter", "PrimaryCounter", "s">>,
    <<"secondaryCounter", "SecondaryCounter", "s">>,
    <<"fixedImageSize", "FixedImageSize", "b">>>>

message_props_from_map ==
  <<<<"folder", "Folder", "s">>, <<"subject", "Subject", "s">>,
    <<"timestamp", "Timestamp", "s">>, <<"sender", "Sender", "s">>,
    <<"senderAddress", "SenderAddress", "s">>, <<"replyTo", "ReplyTo", "s">>,
    <<"recipient", "Recipient", "s">>,
    <<"recipientAddress", "RecipientAddress", "s">>, <<"type", "Type", "s">>,
    <<"size", "Size", "t">>, <<"text", "Text", "b">>, <<"status", "Status", "s">>,
    <<"attachmentSize", "AttachmentSize", "t">>,
    <<"priority", "Priority", "b">>, <<"read", "Read", "b">>,
    <<"deleted", "Deleted", "b">>, <<"sent", "Sent", "b">>,
    <<"protected", "Protected", "b">>,
    <<"deliveryStatus", "DeliveryStatus", "s">>,
    <<"conversationId", "ConversationId", "t">>,
    <<"conversationName", "ConversationName", "s">>,
    <<"direction", "Direction", "s">>,
    <<"attachmentMimeTypes", "AttachmentMimeTypes", "s">>>>

message_access_props_from_map ==
  <<<<"supportedTypes", "SupportedTypes", "as">>>>

PropsFromMap ==
  [SessionProps |-> session_props_from_map,
   TransferProps |-> transfer_props_from_map,
   PhonebookProps |-> phonebook_props_from_map,
   MessageProps |-> message_props_from_map,
   MessageAccessProps |-> message_access_props_from_map]

Props(struct, path, properties) ==
  LET from == PropsFromMap[struct]
      source(f) == CHOOSE i \in DOMAIN from : from[i][1] = f
  IN  [f \in {"objectPath"} \cup {from[i][1] : i \in DOMAIN from} |->
         IF f = "objectPath" THEN path
         ELSE get_property_value(properties, from[source(f)][2],
                                 from[source(f)][3])]

\* create_session when the properties cannot be read.
SessionWithoutProps(path, destination) ==
  [Props("SessionProps", path, [none \in {} |-> 0])
     EXCEPT !.destination = destination]

Dump == <<63>>

variant_to_string(v) ==
  CASE v[1] \in {"s", "o"} -> v[2]
    [] v[1] = "b" -> BoolText(v[2])
    [] v[1] \in {"y", "q", "u", "t", "n", "i", "x"} -> Decimal(v[2])
    [] v[1] = "as" -> Joined(v[2])
    [] OTHER -> Dump

\* The order of std::string.
Before(s, t) ==
  \/ \E n \in 0..Len(s) :
       /\ n < Len(t)
       /\ SubSeq(s, 1, n) = SubSeq(t, 1, n)
       /\ n < Len(s) => s[n + 1] < t[n + 1]

InKeyOrder(keys) ==
  [n \in 1..Cardinality(keys) |->
     CHOOSE key \in keys : Cardinality({k \in keys : Before(k, key)}) = n - 1]

variant_map_to_properties(properties) ==
  LET keys == InKeyOrder(DOMAIN properties)
  IN  [i \in DOMAIN keys |->
         [key |-> keys[i], value |-> variant_to_string(properties[keys[i]])]]

transfer_result_from_dbus(path, properties) ==
  [transferPath |-> path, properties |-> variant_map_to_properties(properties)]

(***************************************************************************)
(* Listings, on their way back.                                            *)
(***************************************************************************)
to_entries(items) ==
  [entries |-> [i \in DOMAIN items |->
                  [vcard |-> items[i][1], name |-> items[i][2]]]]

to_folders(items) ==
  [folders |-> [i \in DOMAIN items |->
                  [name |-> get_property_value(items[i], "Name", "s")]]]

to_messages(items) ==
  LET paths == InKeyOrder(DOMAIN items)
  IN  [messages |-> [i \in DOMAIN paths |->
                       Props("MessageProps", paths[i], items[paths[i]])]]

\* ObexClient::get_managed_objects; objects maps a path to its interfaces
\* and each of them to its properties.
get_managed_objects(objects) ==
  LET with(interface) ==
        InKeyOrder({p \in DOMAIN objects : interface \in DOMAIN objects[p]})
  IN  [sessions |-> with("Session1"), transfers |-> with("Transfer1"),
       phonebooks |-> with("PhonebookAccess1"),
       messageAccesses |-> with("MessageAccess1"),
       messages |-> with("Message1")]

\* get_string_property, get_bool_property and get_string_list_property are
\* get_property_value.
device_from_map(properties) ==
  LET text(key) == get_property_value(properties, key, "s")
  IN  [address |-> text("Address"),
       name |-> IF text("Alias") # <<>> THEN text("Alias")
                ELSE IF text("Name") # <<>> THEN text("Name")
                ELSE text("Address"),
       paired |-> get_property_value(properties, "Paired", "b"),
       connected |-> get_property_value(properties, "Connected", "b"),
       uuids |-> get_property_value(properties, "UUIDs", "as")]

\* BluezDeviceRegistry::get_devices: devices that have an address.
get_devices(objects) ==
  LET device(p) == device_from_map(objects[p]["Device1"])
      paths == InKeyOrder({p \in DOMAIN objects :
                             /\ "Device1" \in DOMAIN objects[p]
                             /\ device(p).address # <<>>})
  IN  [devices |-> [i \in DOMAIN paths |-> device(paths[i])]]
=============================================================================

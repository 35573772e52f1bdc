------------------------------ MODULE WireCodec ------------------------------
(***************************************************************************)
(* The binary form in which records cross from C++ to Dart: the structs of *)
(* native/include/bluez_obex_types.h, their encoder and decoder in         *)
(* native/include/glaze_meta.h, and the reader of lib/src/ffi/codec.dart.  *)
(*                                                                         *)
(* A record is a function from field names to values: texts and lists are  *)
(* sequences, a text one of byte codes.  The C++ side writes the fields in *)
(* the order of its own table, Dart reads them in the order of its own.    *)
(*                                                                         *)
(* Types: "s" text, "y", "q" and "t" unsigned integers of 1, 2 and 8       *)
(* bytes, "b" boolean, "as" list of texts; the name of a struct stands for *)
(* a list of that struct, and no such list holds another one.              *)
(***************************************************************************)
EXTENDS Naturals, Sequences, SequencesExt

Texts(names) == [i \in DOMAIN names |-> <<names[i], "s">>]
Lists(names) == [i \in DOMAIN names |-> <<names[i], "as">>]

(***************************************************************************)
(* The structs of the C++ side, fields in the order of glz::meta.          *)
(***************************************************************************)
ObjectFields ==
  [Property |-> Texts(<<"key", "value">>),
   SessionProps |->
     Texts(<<"objectPath", "source", "destination">>)
       \o <<<<"channel", "y">>, <<"psm", "q">>>> \o Texts(<<"target", "root">>),
   TransferProps |->
     Texts(<<"objectPath", "status", "session", "name", "type">>)
       \o <<<<"time", "t">>, <<"size", "t">>, <<"transferred", "t">>>>
       \o Texts(<<"filename">>),
   PhonebookProps |->
     Texts(<<"objectPath", "folder", "databaseIdentifier", "primaryCounter",
             "secondaryCounter">>)
       \o <<<<"fixedImageSize", "b">>>>,
   PhonebookEntry |-> Texts(<<"vcard", "name">>),
   PhonebookEntries |-> <<<<"entries", "PhonebookEntry">>>>]

MessageFields ==
  [MessageFolder |-> Texts(<<"name">>),
   MessageFolders |-> <<<<"folders", "MessageFolder">>>>,
   MessageProps |->
     Texts(<<"objectPath", "folder", "subject", "timestamp", "sender",
             "senderAddress", "replyTo", "recipient", "recipientAddress",
             "type">>)
       \o <<<<"size", "t">>, <<"text", "b">>, <<"status", "s">>,
            <<"attachmentSize", "t">>, <<"priority", "b">>, <<"read", "b">>,
            <<"deleted", "b">>, <<"sent", "b">>, <<"protected", "b">>,
            <<"deliveryStatus", "s">>, <<"conversationId", "t">>>>
       \o Texts(<<"conversationName", "direction", "attachmentMimeTypes">>),
   MessageAccessProps |-> <<<<"objectPath", "s">>, <<"supportedTypes", "as">>>>,
   Messages |-> <<<<"messages", "MessageProps">>>>,
   FilterFields |-> Lists(<<"fields">>)]

ResultFields ==
  [TransferResult |-> <<<<"transferPath", "s">>, <<"properties", "Property">>>>,
   ManagedObjects |->
     Lists(<<"sessions", "transfers", "phonebooks", "messageAccesses",
             "messages">>),
   ObjectAdded |-> Texts(<<"objectPath", "interfaceName">>),
   ObjectRemoved |-> Texts(<<"objectPath", "interfaceName">>),
   Error |-> Texts(<<"objectPath", "name", "message">>),
   Device |->
     Texts(<<"address", "name">>)
       \o <<<<"paired", "b">>, <<"connected", "b">>, <<"uuids", "as">>>>,
   Devices |-> <<<<"devices", "Device">>>>]

Structs == DOMAIN ObjectFields \cup DOMAIN MessageFields \cup DOMAIN ResultFields

Fields ==
  [s \in Structs |->
     IF s \in DOMAIN ObjectFields THEN ObjectFields[s]
     ELSE IF s \in DOMAIN MessageFields THEN MessageFields[s]
     ELSE ResultFields[s]]

(***************************************************************************)
(* The encoder.                                                            *)
(***************************************************************************)
\* A number as w bytes, the low one first.
Bytes(n, w) ==
  SubSeq(<<n % 256, (n \div 256) % 256, (n \div 65536) % 256, 0, 0, 0, 0, 0>>, 1, w)

EncodeText(s) == Bytes(Len(s), 4) \o s

EncodeEach(encoded) == Bytes(Len(encoded), 4) \o FlattenSeq(encoded)

EncodePlain(type, v) ==
  CASE type = "s"  -> EncodeText(v)
    [] type = "y"  -> Bytes(v, 1)
    [] type = "q"  -> Bytes(v, 2)
    [] type = "t"  -> Bytes(v, 8)
    [] type = "b"  -> IF v THEN <<1>> ELSE <<0>>
    [] type = "as" -> EncodeEach([i \in DOMAIN v |-> EncodeText(v[i])])

EncodeItem(struct, record) ==
  FlattenSeq([i \in DOMAIN Fields[struct] |->
                EncodePlain(Fields[struct][i][2], record[Fields[struct][i][1]])])

EncodeField(type, v) ==
  IF type \in Structs
  THEN EncodeEach([i \in DOMAIN v |-> EncodeItem(type, v[i])])
  ELSE EncodePlain(type, v)

Encode(struct, record) ==
  FlattenSeq([i \in DOMAIN Fields[struct] |->
                EncodeField(Fields[struct][i][2], record[Fields[struct][i][1]])])

(***************************************************************************)
(* Reading: what was read, where the next byte is, and how many list       *)
(* elements were made room for.                                            *)
(***************************************************************************)
Result(at, value) == [ok |-> TRUE, at |-> at, value |-> value, slots |-> 0]
Refused == [ok |-> FALSE, at |-> 0, value |-> <<>>, slots |-> 0]

\* n things one after the other, from offset at, up to the first refusal.
InOrder(n, read, at) ==
  LET upTo[i \in 0..n] ==
        IF i = 0 THEN Result(at, <<>>)
        ELSE LET before == upTo[i - 1]
                 next == read[i][before.at]
             IN  IF ~ before.ok THEN before
                 ELSE [next EXCEPT !.value = Append(before.value, @),
                                   !.slots = before.slots + @]
  IN  upTo[n]

\* The number in w bytes; whatever is beyond 2^24 is one number.
Number(d, at, w) ==
  LET byte(i) == IF i <= w THEN d[at + i] ELSE 0
  IN  IF \E i \in 4..w : byte(i) # 0 THEN 16777216
      ELSE byte(1) + 256 * byte(2) + 65536 * byte(3)

Width(type) == CASE type \in {"y", "b"} -> 1 [] type = "q" -> 2 [] type = "t" -> 8

Scalar(type, n) == IF type = "b" THEN n # 0 ELSE n

Named(fields, r) ==
  [r EXCEPT !.value =
     IF ~ r.ok THEN @
     ELSE [name \in {fields[i][1] : i \in DOMAIN fields} |->
             @[CHOOSE i \in DOMAIN fields : fields[i][1] = name]]]

(***************************************************************************)
(* The C++ decoder, which trusts its input.                                *)
(***************************************************************************)
NativeText(d, at) ==
  LET n == Number(d, at, 4)
  IN  Result(at + 4 + n, SubSeq(d, at + 5, at + 4 + n))

NativePlain(d, at, type) ==
  CASE type = "s"  -> NativeText(d, at)
    [] type = "as" ->
         InOrder(Number(d, at, 4), [i \in Nat |-> [a \in Nat |-> NativeText(d, a)]],
                 at + 4)
    [] OTHER -> Result(at + Width(type), Scalar(type, Number(d, at, Width(type))))

NativeItem(d, at, struct) ==
  LET fields == Fields[struct]
  IN  Named(fields, InOrder(Len(fields),
                            [i \in Nat |->
                               [a \in Nat |-> NativePlain(d, a, fields[i][2])]], at))

NativeField(d, at, type) ==
  IF type \in Structs
  THEN InOrder(Number(d, at, 4),
               [i \in Nat |-> [a \in Nat |-> NativeItem(d, a, type)]], at + 4)
  ELSE NativePlain(d, at, type)

NativeDecode(struct, d, at) ==
  LET fields == Fields[struct]
  IN  Named(fields, InOrder(Len(fields),
                            [i \in Nat |->
                               [a \in Nat |-> NativeField(d, a, fields[i][2])]], at))

(***************************************************************************)
(* The Dart reader, which checks every length and count.                   *)
(***************************************************************************)
DartObjectFields ==
  [SessionProps |->
     Texts(<<"objectPath", "source", "destination">>)
       \o <<<<"channel", "y">>, <<"psm", "q">>>> \o Texts(<<"target", "root">>),
   TransferProps |->
     Texts(<<"objectPath", "status", "session", "name", "type">>)
       \o <<<<"time", "t">>, <<"size", "t">>, <<"transferred", "t">>>>
       \o Texts(<<"filename">>),
   PhonebookProps |->
     Texts(<<"objectPath", "folder", "databaseIdentifier", "primaryCounter",
             "secondaryCounter">>)
       \o <<<<"fixedImageSize", "b">>>>,
   PhonebookEntries |-> <<<<"entries", "PhonebookEntry">>>>,
   MessageFolders |-> <<<<"folders", "MessageFolder">>>>,
   MessageProps |->
     Texts(<<"objectPath", "folder", "subject", "timestamp", "sender",
             "senderAddress", "replyTo", "recipient", "recipientAddress",
             "type">>)
       \o <<<<"size", "t">>, <<"text", "b">>, <<"status", "s">>,
            <<"attachmentSize", "t">>, <<"priority", "b">>, <<"read", "b">>,
            <<"deleted", "b">>, <<"sent", "b">>, <<"protected", "b">>,
            <<"deliveryStatus", "s">>, <<"conversationId", "t">>>>
       \o Texts(<<"conversationName", "direction", "attachmentMimeTypes">>),
   MessageAccessProps |-> <<<<"objectPath", "s">>, <<"supportedTypes", "as">>>>]

DartResultFields ==
  [Messages |-> <<<<"messages", "MessageProps">>>>,
   FilterFields |-> Lists(<<"fields">>),
   TransferResult |-> <<<<"transferPath", "s">>, <<"properties", "Property">>>>,
   ManagedObjects |->
     Lists(<<"sessions", "transfers", "phonebooks", "messageAccesses",
             "messages">>),
   ObjectRemoved |-> Texts(<<"objectPath", "interfaceName">>),
   ObjectAdded |-> Texts(<<"objectPath", "interfaceName">>),
   Error |-> Texts(<<"objectPath", "name", "message">>),
   Devices |-> <<<<"devices", "Device">>>>]

DartItemFields ==
  [Property |-> Texts(<<"key", "value">>),
   PhonebookEntry |-> Texts(<<"vcard", "name">>),
   MessageFolder |-> Texts(<<"name">>),
   Device |->
     Texts(<<"address", "name">>)
       \o <<<<"paired", "b">>, <<"connected", "b">>, <<"uuids", "as">>>>]

DartFields ==
  [s \in Structs |->
     IF s \in DOMAIN DartObjectFields THEN DartObjectFields[s]
     ELSE IF s \in DOMAIN DartResultFields THEN DartResultFields[s]
     ELSE DartItemFields[s]]

\* _checkBounds
CheckBounds(d, at, needed) == needed <= Len(d) - at

\* The fewest bytes an element takes.
MinimumBytes ==
  [Property |-> 8, PhonebookEntry |-> 8, MessageFolder |-> 4,
   MessageProps |-> 90, Device |-> 14]

\* Mutated form: an element is taken to need a byte at least.
CheckElementCount_AnyByte(d, at, count, minimum) == count <= Len(d) - at

\* _checkElementCount
CheckElementCount(d, at, count, minimum) ==
  count <= (Len(d) - at) \div minimum

ReadScalar(d, at, type) ==
  IF CheckBounds(d, at, Width(type))
  THEN Result(at + Width(type), Scalar(type, Number(d, at, Width(type))))
  ELSE Refused

\* readString: the bytes must be UTF-8, here ASCII.
ReadText(d, at) ==
  IF ~ CheckBounds(d, at, 4) THEN Refused
  ELSE LET n == Number(d, at, 4)
           text == SubSeq(d, at + 5, at + 4 + n)
       IN  IF CheckBounds(d, at + 4, n) /\ \A i \in DOMAIN text : text[i] < 128
           THEN Result(at + 4 + n, text)
           ELSE Refused

\* A list: its count is checked before room is made for the elements.
ReadEach(d, at, minimum, read) ==
  IF ~ CheckBounds(d, at, 4) THEN Refused
  ELSE LET count == Number(d, at, 4)
       IN  IF CheckElementCount(d, at + 4, count, minimum)
           THEN [InOrder(count, read, at + 4) EXCEPT !.slots = @ + count]
           ELSE Refused

ReadPlain(d, at, type) ==
  CASE type = "s"  -> ReadText(d, at)
    [] type = "as" -> ReadEach(d, at, 4, [i \in Nat |-> [a \in Nat |-> ReadText(d, a)]])
    [] OTHER -> ReadScalar(d, at, type)

ReadItem(d, at, struct) ==
  LET fields == DartFields[struct]
  IN  Named(fields, InOrder(Len(fields),
                            [i \in Nat |->
                               [a \in Nat |-> ReadPlain(d, a, fields[i][2])]], at))

ReadField(d, at, type) ==
  IF type \in Structs
  THEN ReadEach(d, at, MinimumBytes[type],
                [i \in Nat |-> [a \in Nat |-> ReadItem(d, a, type)]])
  ELSE ReadPlain(d, at, type)

\* GlazeCodec.decode
Decode(struct, d, at) ==
  LET fields == DartFields[struct]
  IN  Named(fields, InOrder(Len(fields),
                            [i \in Nat |->
                               [a \in Nat |-> ReadField(d, a, fields[i][2])]], at))
=============================================================================

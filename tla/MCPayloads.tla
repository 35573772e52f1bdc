----------------------------- MODULE MCPayloads -----------------------------
EXTENDS Payloads

(* Filters: every kind of filter with every kind of value, and maps of two. *)
Values ==
  <<<<"null", 0>>, <<"int", 0>>, <<"int", -1>>, <<"int", 1>>, <<"int", 255>>,
    <<"int", 256>>, <<"int", 65535>>, <<"int", 65536>>, <<"bool", TRUE>>,
    <<"bool", FALSE>>, <<"text", <<>>>>, <<"text", <<55>>>>,
    <<"text", <<48, 55>>>>, <<"text", TrueText>>, <<"text", <<97, 44, 98>>>>,
    <<"text", <<97, 0>>>>, <<"text", <<52, 50, 57, 52, 57, 54, 55, 50, 57, 55>>>>,
    <<"list", <<>>>>, <<"list", <<<<97>>>>>>, <<"list", <<<<97>>, <<98, 99>>>>>>,
    <<"list", <<<<>>, <<97>>>>>>, <<"list", <<<<97, 44, 98>>, <<99>>>>>>,
    <<"list", <<TrueText>>>>, <<"list", <<TrueText, TrueText>>>>,
    <<"list", <<<<48, 48, 55>>>>>>, <<"list", <<<<49>>, <<50>>>>>>,
    <<"text", <<48, 48, 48>>>>, <<"text", <<43, 55>>>>, <<"text", <<32, 55>>>>>>
Keys ==
  <<"MaxCount", "SubjectLength", "Types", "Read", "Order", "">>

SingleFilters ==
  [n \in 1..Len(Keys) * Len(Values) |->
     [key \in {Keys[1 + (n - 1) \div Len(Values)]} |->
        Values[1 + ((n - 1) % Len(Values))]]]
Pairs ==
  [n \in 1..Len(Values) |->
     [Offset |-> Values[n], Retry |-> <<"bool", TRUE>>, Fields |-> Values[18 + (n % 3)]]]
Filters == <<[none \in {} |-> 0]>> \o SingleFilters \o Pairs

(* Answers: a value that no other property of the object has. *)
Bit(k, i) == (i \div (2^k)) % 2 = 1
Value(type, k, i) ==
  CASE type = "s"  -> <<"s", <<65 + i>>>>
    [] type = "o"  -> <<"o", <<47, 65 + i>>>>
    [] type = "y"  -> <<"y", 10 + i>>
    [] type = "q"  -> <<"q", 300 + i>>
    [] type = "t"  -> <<"t", 70000 + i>>
    [] type = "b"  -> <<"b", Bit(k, i)>>
    [] type = "as" -> <<"as", <<<<65 + i>>, <<>>, <<97, 44>>>>>>
Another(type, i) == IF type = "s" THEN <<"o", <<47, 65 + i>>>> ELSE <<"s", <<65 + i>>>>

Ordered ==
  [struct \in DOMAIN Interfaces |->
     FoldSet(LAMBDA property, before : Append(before, property), <<>>,
             Interfaces[struct])]
IndexOf(struct, name) ==
  LET all == Ordered[struct]
  IN  CHOOSE i \in DOMAIN all : all[i][1] = name
NamesOf(struct) == {p[1] : p \in Interfaces[struct]}
TypeOf(struct, name) == Ordered[struct][IndexOf(struct, name)][2]

Full(struct, k) ==
  [name \in NamesOf(struct) |-> Value(TypeOf(struct, name), k, IndexOf(struct, name))]
Half(struct, r) ==
  [name \in {m \in NamesOf(struct) : IndexOf(struct, m) % 2 = r} |->
     Value(TypeOf(struct, name), 0, IndexOf(struct, name))]
IllTyped(struct) ==
  [name \in NamesOf(struct) |-> Another(TypeOf(struct, name), IndexOf(struct, name))]
None == [none \in {} |-> 0]

Path == <<47, 112>>
Other == <<47, 113>>
An(kind, via, says) == [kind |-> kind, via |-> via, path |-> Path, says |-> says]

PropertyStructs ==
  <<"SessionProps", "TransferProps", "PhonebookProps", "MessageProps",
    "MessageAccessProps">>
PropertyAnswers(struct) ==
  <<An(struct, "call", Full(struct, 0)), An(struct, "event", Full(struct, 1)),
    An(struct, "call", Full(struct, 2)), An(struct, "event", Full(struct, 3)),
    An(struct, "call", Full(struct, 4)), An(struct, "event", Half(struct, 0)),
    An(struct, "event", Half(struct, 1)), An(struct, "call", IllTyped(struct)),
    An(struct, "event", None)>>

Devices ==
  (Path :> ("Device1" :> [Address |-> <<"s", <<49>>>>, Alias |-> <<"s", <<65>>>>,
                          Paired |-> <<"b", TRUE>>, Connected |-> <<"b", FALSE>>,
                          UUIDs |-> <<"as", <<<<85>>, <<86>>>>>>]))
  @@ (Other :> ("Device1" :> [Address |-> <<"s", <<50>>>>, Name |-> <<"s", <<66>>>>]))
  @@ (<<47, 114>> :> ("Device1" :> [Address |-> <<"s", <<51>>>>,
                                    Connected |-> <<"b", TRUE>>]))
  @@ (<<47, 116>> :> ("Device1" :> [Address |-> <<"s", <<52>>>>, Alias |-> <<"s", <<68>>>>,
                                    Name |-> <<"s", <<69>>>>]))
  @@ (<<47, 115>> :> ("Device1" :> [Name |-> <<"s", <<67>>>>]))
  @@ (<<47>> :> ("Adapter1" :> None))

Objects ==
  (Path :> [Session1 |-> None, PhonebookAccess1 |-> None, MessageAccess1 |-> None])
  @@ (Other :> [Transfer1 |-> None])
  @@ (<<47, 112, 47, 109>> :> [Message1 |-> None])
  @@ (<<47>> :> [Client1 |-> None])

Result1 ==
  (<<78>> :> <<"s", <<97>>>>) @@ (<<79>> :> <<"o", <<47>>>>)
  @@ (<<80>> :> <<"b", TRUE>>) @@ (<<80, 80>> :> <<"q", 300>>)
  @@ (<<81>> :> <<"t", 70000>>) @@ (<<82>> :> <<"n", -5>>)
  @@ (<<83>> :> <<"as", <<<<97>>, <<98>>>>>>) @@ (<<84>> :> <<"d", 0>>)
  @@ (<<85>> :> <<"y", 0>>)

OtherAnswers ==
  <<An("SessionProps", "unread", <<49>>),
    An("TransferResult", "call", Result1), An("TransferResult", "call", None),
    An("PhonebookEntries", "call", <<<<<<118>>, <<97>>>>, <<<<119>>, <<>>>>>>),
    An("PhonebookEntries", "call", <<>>),
    An("MessageFolders", "call",
       <<[Name |-> <<"s", <<105>>>>], None, [Name |-> <<"q", 7>>]>>),
    An("Messages", "call", (Other :> Full("MessageProps", 0))
                             @@ (Path :> Half("MessageProps", 1))),
    An("Messages", "call", (Other :> None)),
    An("FilterFields", "call", <<<<97>>, <<98>>>>),
    An("FilterFields", "call", <<>>),
    An("ManagedObjects", "call", Objects), An("Devices", "call", Devices),
    An("ObjectAdded", "event", [objectPath |-> Path, interfaceName |-> <<83>>]),
    An("ObjectRemoved", "event", [objectPath |-> Path, interfaceName |-> <<84>>]),
    An("Error", "event", [objectPath |-> Path, name |-> <<78>>, message |-> <<>>])>>

Answers ==
  FlattenSeq([i \in DOMAIN PropertyStructs |-> PropertyAnswers(PropertyStructs[i])])
    \o OtherAnswers

Raised == {0, 1, 40, 255}
=============================================================================

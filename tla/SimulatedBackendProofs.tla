----------------------- MODULE SimulatedBackendProofs -----------------------
(***************************************************************************)
(* Theorems about the in-process endpoint, for every number of sessions    *)
(* and transfers: what its events tell is what it lists, nothing outlives  *)
(* its session, and no path of a session or transfer comes back.           *)
(***************************************************************************)
EXTENDS SimulatedBackend, SequenceTheorems, FiniteSetTheorems, TLAPS

-----------------------------------------------------------------------------
(* Tables and objects.                                                      *)

LEMMA PutMap ==
  ASSUME NEW f, NEW k, NEW v
  PROVE  /\ DOMAIN Put(f, k, v) = DOMAIN f \cup {k}
         /\ Put(f, k, v)[k] = v
         /\ \A x \in DOMAIN f \ {k} : Put(f, k, v)[x] = f[x]
  BY DEF Put

LEMMA WithoutMap ==
  ASSUME NEW f, NEW S
  PROVE  /\ DOMAIN Without(f, S) = DOMAIN f \ S
         /\ \A x \in DOMAIN f \ S : Without(f, S)[x] = f[x]
  BY DEF Without

\* Two objects are one when interface and path agree.
LEMMA ObjectFields ==
  ASSUME NEW i, NEW p
  PROVE  /\ Object(i, p).interface = i /\ Object(i, p).path = p
         /\ \A j, q : Object(i, p) = Object(j, q) => i = j /\ p = q
  BY DEF Object

-----------------------------------------------------------------------------
(* The inductive invariant.                                                 *)

SessionTransferInterfaces == {"Session1", "Transfer1"}

\* Paths are sequences of numbers, numbered below the counters.
Numbered ==
  /\ sessionCounter \in Nat /\ transferCounter \in Nat
  /\ \A s \in sessions : \E n \in Nat : s = <<n>> /\ n < sessionCounter
  /\ IsFiniteSet(DOMAIN messages)
  /\ \A m \in DOMAIN messages : m \in Seq(Nat) /\ Len(m) = 2
  /\ \A t \in DOMAIN transfers :
       DOMAIN transfers[t] = {"session", "status"}

\* Every path announced so far lies below the counters.
AnnouncedBelow ==
  \A o \in announced :
    /\ o.interface \in SessionTransferInterfaces
    /\ o.interface = "Session1" =>
         \E n \in Nat : o.path = <<n>> /\ n < sessionCounter
    /\ o.interface = "Transfer1" =>
         /\ o.path \in Seq(Nat) /\ o.path # <<>>
         /\ o.path[Len(o.path)] < transferCounter

BInv == Numbered /\ AnnouncedBelow /\ NoOrphans /\ EventsMatchListing

LEMMA BInvInit == Init => BInv
<1> SUFFICES ASSUME Init PROVE BInv
  OBVIOUS
<1>1. DOMAIN Nothing = {}
  BY DEF Nothing
<1>2. Numbered /\ AnnouncedBelow /\ NoOrphans
  BY <1>1, FS_EmptySet DEF Init, Numbered, AnnouncedBelow, NoOrphans
<1>3. Listed = {}
  BY <1>1 DEF Init, Listed
<1>4. shown = [t \in DOMAIN transfers |-> transfers[t].status]
  BY DEF Init, Nothing
<1> QED
  BY <1>2, <1>3, <1>4 DEF Init, BInv, EventsMatchListing

\* Membership in the listing, one interface at a time.
LEMMA ListedMember ==
  ASSUME NEW x
  PROVE  x \in Listed <=>
           \/ \E s \in sessions :
                x = Object("Session1", s) \/ x = Object("MessageAccess1", s)
           \/ \E s \in DOMAIN phonebooks : x = Object("PhonebookAccess1", s)
           \/ \E m \in DOMAIN messages : x = Object("Message1", m)
           \/ \E t \in DOMAIN transfers : x = Object("Transfer1", t)
  BY DEF Listed

\* A new session.
LEMMA CreateStep ==
  ASSUME BInv, CreateSession
  PROVE  BInv' /\ announced \cap out'.added = {}
<1> DEFINE s == <<sessionCounter>>
           sample == s \o <<0>>
           new == SessionObjects(s) \cup {Object("Message1", sample)}
<1>1. /\ sessionCounter' = sessionCounter + 1
      /\ sessions' = sessions \cup {s}
      /\ phonebooks' = Put(phonebooks, s, "telecom/pb")
      /\ messages' = Put(messages, sample,
                         [origin |-> 0, read |-> FALSE, deleted |-> FALSE])
      /\ out' = [added |-> new, removed |-> {}]
      /\ told' = (told \cup new) \ {}
      /\ announced' = announced \cup {o \in new : o.interface \in SessionTransferInterfaces}
      /\ UNCHANGED <<transferCounter, transfers, shown>>
  BY DEF CreateSession, MakeSession, Emit, SessionTransferInterfaces
<1>2. sessionCounter \in Nat /\ transferCounter \in Nat
  BY DEF BInv, Numbered
<1>3. sample \in Seq(Nat) /\ Len(sample) = 2 /\ Head(sample) = sessionCounter
  BY <1>2
<1> HIDE DEF sample
<1>4. /\ DOMAIN phonebooks' = DOMAIN phonebooks \cup {s}
      /\ DOMAIN messages' = DOMAIN messages \cup {sample}
  BY <1>1, PutMap
<1>5. Numbered'
  <2>1. \A x \in sessions' : \E n \in Nat : x = <<n>> /\ n < sessionCounter'
    BY <1>1, <1>2 DEF BInv, Numbered
  <2>2. \A m \in DOMAIN messages' : m \in Seq(Nat) /\ Len(m) = 2
    BY <1>3, <1>4 DEF BInv, Numbered
  <2>3. IsFiniteSet(DOMAIN messages')
    <3>1. IsFiniteSet(DOMAIN messages)
      BY DEF BInv, Numbered
    <3>2. IsFiniteSet(DOMAIN messages \cup {sample})
      BY <3>1, FS_AddElement
    <3> QED BY <1>4, <3>2
  <2> QED BY <1>1, <1>2, <2>1, <2>2, <2>3 DEF BInv, Numbered
<1>6. NoOrphans'
  BY <1>1, <1>3, <1>4 DEF BInv, NoOrphans
<1>7. \A x : x \in new <=> \/ x = Object("Session1", s)
                           \/ x = Object("MessageAccess1", s)
                           \/ x = Object("PhonebookAccess1", s)
                           \/ x = Object("Message1", sample)
  BY DEF SessionObjects
<1> HIDE DEF new, s
<1>8. EventsMatchListing'
  <2>1. \A x : x \in told' <=> x \in Listed'
    BY <1>1, <1>4, <1>7, ListedMember DEF BInv, EventsMatchListing, Listed
  <2> QED BY <1>1, <2>1 DEF BInv, EventsMatchListing
<1>9. \A x \in new : x.interface \in SessionTransferInterfaces =>
        x.interface = "Session1" /\ x.path = s
  BY <1>7, ObjectFields DEF SessionTransferInterfaces
<1>10. AnnouncedBelow'
  BY <1>1, <1>2, <1>9 DEF BInv, AnnouncedBelow, s
<1>11. announced \cap out'.added = {}
  BY <1>1, <1>2, <1>9 DEF BInv, AnnouncedBelow, s
<1> QED
  BY <1>5, <1>6, <1>8, <1>10, <1>11 DEF BInv

\* The end of a session, or the removal of one that is not there.
LEMMA RemoveStep ==
  ASSUME BInv, NEW n \in Nat, RemoveSession(<<n>>)
  PROVE  BInv' /\ announced \cap out'.added = {}
<1> DEFINE s == <<n>>
           gone == {Object("Transfer1", t) : t \in TransfersOf(s)} \cup SessionObjects(s)
                     \cup {Object("Message1", m) : m \in MessagesOf(s)}
<1>1. /\ sessions' = sessions \ {s}
      /\ phonebooks' = Without(phonebooks, {s})
      /\ transfers' = Without(transfers, TransfersOf(s))
      /\ shown' = Without(shown, TransfersOf(s))
      /\ messages' = Without(messages, MessagesOf(s))
      /\ out' = [added |-> {}, removed |-> gone]
      /\ told' = (told \cup {}) \ gone
      /\ announced' = announced
      /\ UNCHANGED <<sessionCounter, transferCounter>>
  BY DEF RemoveSession, Emit, counters
<1>2. /\ DOMAIN phonebooks' = DOMAIN phonebooks \ {s}
      /\ DOMAIN transfers' = DOMAIN transfers \ TransfersOf(s)
      /\ DOMAIN messages' = DOMAIN messages \ MessagesOf(s)
      /\ \A t \in DOMAIN transfers' : transfers'[t] = transfers[t]
  <2> HIDE DEF gone, s
  <2>1. DOMAIN phonebooks' = DOMAIN phonebooks \ {s}
    BY <1>1 DEF Without
  <2>2. DOMAIN transfers' = DOMAIN transfers \ TransfersOf(s)
    BY <1>1 DEF Without
  <2>3. DOMAIN messages' = DOMAIN messages \ MessagesOf(s)
    BY <1>1 DEF Without
  <2>4. \A t \in DOMAIN transfers' : transfers'[t] = transfers[t]
    BY <1>1 DEF Without
  <2> QED BY <2>1, <2>2, <2>3, <2>4
<1>3. Head(s) = n
  OBVIOUS
<1>4. \A x : x \in gone <=> \/ x = Object("Session1", s)
                            \/ x = Object("MessageAccess1", s)
                            \/ x = Object("PhonebookAccess1", s)
                            \/ \E t \in TransfersOf(s) : x = Object("Transfer1", t)
                            \/ \E m \in MessagesOf(s) : x = Object("Message1", m)
  BY DEF SessionObjects
<1> HIDE DEF gone
<1>5. Numbered'
  <2>1. IsFiniteSet(DOMAIN messages')
    BY <1>2, FS_Subset DEF BInv, Numbered
  <2> QED BY <1>1, <1>2, <2>1 DEF BInv, Numbered
<1>6. AnnouncedBelow'
  BY <1>1 DEF BInv, AnnouncedBelow
<1>7. NoOrphans'
  <2>1. \A m \in DOMAIN messages' : <<Head(m)>> \in sessions'
    BY <1>1, <1>2, <1>3 DEF BInv, NoOrphans, MessagesOf
  <2>2. \A t \in DOMAIN transfers' : transfers'[t].session \in sessions'
    BY <1>1, <1>2 DEF BInv, NoOrphans, TransfersOf
  <2> QED BY <1>1, <1>2, <2>1, <2>2 DEF BInv, NoOrphans
<1>8. EventsMatchListing'
  <2> HIDE DEF s
  <2>1. \A x : x \in told' <=> x \in Listed /\ x \notin gone
    BY <1>1 DEF BInv, EventsMatchListing
  <2>2. \A x : x \in Listed' <=>
          \/ \E y \in sessions' :
               x = Object("Session1", y) \/ x = Object("MessageAccess1", y)
          \/ \E y \in DOMAIN phonebooks' : x = Object("PhonebookAccess1", y)
          \/ \E m \in DOMAIN messages' : x = Object("Message1", m)
          \/ \E t \in DOMAIN transfers' : x = Object("Transfer1", t)
    BY DEF Listed
  <2>3. ASSUME NEW x
        PROVE  x \in Listed /\ x \notin gone <=> x \in Listed'
    <3>1. ASSUME NEW y, x = Object("Session1", y)
          PROVE  x \in Listed /\ x \notin gone <=> x \in Listed'
      <4>1. (x \in Listed <=> y \in sessions) /\ (x \in gone <=> y = s)
            /\ (x \in Listed' <=> y \in sessions')
        BY <3>1, <1>4, <2>2, ListedMember, ObjectFields
      <4> QED BY <4>1, <1>1
    <3>2. ASSUME NEW y, x = Object("MessageAccess1", y)
          PROVE  x \in Listed /\ x \notin gone <=> x \in Listed'
      <4>1. (x \in Listed <=> y \in sessions) /\ (x \in gone <=> y = s)
            /\ (x \in Listed' <=> y \in sessions')
        BY <3>2, <1>4, <2>2, ListedMember, ObjectFields
      <4> QED BY <4>1, <1>1
    <3>3. ASSUME NEW y, x = Object("PhonebookAccess1", y)
          PROVE  x \in Listed /\ x \notin gone <=> x \in Listed'
      <4>1. (x \in Listed <=> y \in DOMAIN phonebooks) /\ (x \in gone <=> y = s)
            /\ (x \in Listed' <=> y \in DOMAIN phonebooks')
        BY <3>3, <1>4, <2>2, ListedMember, ObjectFields
      <4> QED BY <4>1, <1>2
    <3>4. ASSUME NEW m, x = Object("Message1", m)
          PROVE  x \in Listed /\ x \notin gone <=> x \in Listed'
      <4>1. /\ x \in Listed <=> m \in DOMAIN messages
            /\ x \in gone <=> m \in MessagesOf(s)
            /\ x \in Listed' <=> m \in DOMAIN messages'
        BY <3>4, <1>4, <2>2, ListedMember, ObjectFields
      <4> QED BY <4>1, <1>2
    <3>5. ASSUME NEW t, x = Object("Transfer1", t)
          PROVE  x \in Listed /\ x \notin gone <=> x \in Listed'
      <4>1. /\ x \in Listed <=> t \in DOMAIN transfers
            /\ x \in gone <=> t \in TransfersOf(s)
            /\ x \in Listed' <=> t \in DOMAIN transfers'
        BY <3>5, <1>4, <2>2, ListedMember, ObjectFields
      <4> QED BY <4>1, <1>2
    <3> QED BY <3>1, <3>2, <3>3, <3>4, <3>5, <2>2, ListedMember
  <2>4. shown' = [t \in DOMAIN transfers' |-> transfers'[t].status]
    BY <1>1, <1>2 DEF BInv, EventsMatchListing, Without
  <2> QED BY <2>1, <2>3, <2>4 DEF EventsMatchListing
<1> QED
  BY <1>1, <1>5, <1>6, <1>7, <1>8 DEF BInv

\* A transfer of a session or a message, with or without a new message.
LEMMA TransferStep ==
  ASSUME BInv, NEW owner \in Seq(Nat), Len(owner) \in {1, 2},
         <<Head(owner)>> \in sessions, NEW added, CompleteTransfer(owner, added),
         IsFiniteSet(DOMAIN messages'),
         \A m \in DOMAIN messages' :
           m \in Seq(Nat) /\ Len(m) = 2 /\ <<Head(m)>> \in sessions,
         \A x : x \in added => x.interface = "Message1",
         \A x : x \in {Object("Message1", m) : m \in DOMAIN messages'} <=>
                x \in {Object("Message1", m) : m \in DOMAIN messages} \cup added
  PROVE  BInv' /\ announced \cap out'.added = {}
<1> DEFINE path == Append(owner, transferCounter)
           new == added \cup {Object("Transfer1", path)}
<1>1. /\ transferCounter' = transferCounter + 1
      /\ transfers' = Put(transfers, path,
                          [session |-> SessionOf(owner), status |-> "complete"])
      /\ shown' = Put(shown, path, "complete")
      /\ out' = [added |-> new, removed |-> {}]
      /\ told' = (told \cup new) \ {}
      /\ announced' = announced \cup {o \in new : o.interface \in SessionTransferInterfaces}
      /\ UNCHANGED <<sessionCounter, sessions, phonebooks>>
  BY DEF CompleteTransfer, Emit, SessionTransferInterfaces
<1>2. transferCounter \in Nat
  BY DEF BInv, Numbered
<1>3. path \in Seq(Nat) /\ path # <<>> /\ path[Len(path)] = transferCounter
  BY <1>2
<1> HIDE DEF path
<1>4. /\ DOMAIN transfers' = DOMAIN transfers \cup {path}
      /\ transfers'[path] = [session |-> SessionOf(owner), status |-> "complete"]
      /\ \A t \in DOMAIN transfers \ {path} : transfers'[t] = transfers[t]
  <2> DEFINE entry == [session |-> SessionOf(owner), status |-> "complete"]
  <2>1. transfers' = Put(transfers, path, entry)
    BY <1>1
  <2> HIDE DEF entry, new
  <2>2. DOMAIN transfers' = DOMAIN transfers \cup {path}
    BY <2>1 DEF Put
  <2>3. transfers'[path] = entry
    BY <2>1 DEF Put
  <2>4. \A t \in DOMAIN transfers \ {path} : transfers'[t] = transfers[t]
    BY <2>1 DEF Put
  <2> QED BY <2>2, <2>3, <2>4 DEF entry
<1>5. \A x \in new : x.interface \in SessionTransferInterfaces =>
        x.interface = "Transfer1" /\ x.path = path
  BY ObjectFields DEF SessionTransferInterfaces
<1>6. AnnouncedBelow'
  BY <1>1, <1>2, <1>3, <1>5 DEF BInv, AnnouncedBelow
<1>7. Numbered' /\ NoOrphans'
  <2>1. /\ DOMAIN transfers'[path] = {"session", "status"}
        /\ transfers'[path].session = <<Head(owner)>>
    BY <1>4 DEF SessionOf
  <2>2. Numbered'
    <3>1. sessionCounter \in Nat /\ transferCounter' \in Nat
      BY <1>1, <1>2 DEF BInv, Numbered
    <3>2. \A s \in sessions : \E n \in Nat : s = <<n>> /\ n < sessionCounter
      BY DEF BInv, Numbered
    <3>3. \A t \in DOMAIN transfers' : DOMAIN transfers'[t] = {"session", "status"}
      BY <1>4, <2>1 DEF BInv, Numbered
    <3> QED BY <1>1, <3>1, <3>2, <3>3 DEF Numbered
  <2>3. NoOrphans'
    BY <1>1, <1>4, <2>1 DEF BInv, NoOrphans
  <2> QED BY <2>2, <2>3
<1>8. announced \cap out'.added = {}
  BY <1>1, <1>2, <1>3, <1>5 DEF BInv, AnnouncedBelow
<1>9. EventsMatchListing'
  <2>1. \A x : x \in told' <=> x \in Listed \/ x \in added \/ x = Object("Transfer1", path)
    BY <1>1 DEF BInv, EventsMatchListing
  <2>2. \A x : x \in Listed' <=>
                 x \in Listed \/ x \in added \/ x = Object("Transfer1", path)
    <3>1. /\ DOMAIN transfers' = DOMAIN transfers \cup {path}
          /\ sessions' = sessions /\ phonebooks' = phonebooks
      BY <1>1, <1>4
    <3> QED BY <3>1 DEF Listed
  <2>3. shown' = [t \in DOMAIN transfers' |-> transfers'[t].status]
    BY <1>1, <1>4 DEF BInv, EventsMatchListing, Put
  <2> QED BY <2>1, <2>2, <2>3 DEF EventsMatchListing
<1> QED
  BY <1>6, <1>7, <1>8, <1>9 DEF BInv

\* Steps that announce and retire nothing and keep the tables' keys.
LEMMA QuietStep ==
  ASSUME BInv, Quiet, UNCHANGED <<sessionCounter, transferCounter, sessions>>,
         DOMAIN phonebooks' = DOMAIN phonebooks,
         DOMAIN messages' = DOMAIN messages,
         DOMAIN transfers' = DOMAIN transfers,
         \A t \in DOMAIN transfers :
           /\ DOMAIN transfers'[t] = DOMAIN transfers[t]
           /\ transfers'[t].session = transfers[t].session,
         shown' = [t \in DOMAIN transfers' |-> transfers'[t].status]
  PROVE  BInv' /\ announced \cap out'.added = {}
<1>1. told' = told /\ announced' = announced /\ out'.added = {}
  BY DEF Quiet
<1>2. Numbered' /\ AnnouncedBelow' /\ NoOrphans'
  BY <1>1 DEF BInv, Numbered, AnnouncedBelow, NoOrphans
<1>3. Listed' = Listed
  BY DEF Listed
<1> QED
  BY <1>1, <1>2, <1>3 DEF BInv, EventsMatchListing

\* Every step keeps the invariant and announces only paths never announced.
LEMMA BInvStep ==
  ASSUME BInv, Next
  PROVE  BInv' /\ announced \cap out'.added = {}
<1>a. shown = [t \in DOMAIN transfers |-> transfers[t].status]
  BY DEF BInv, EventsMatchListing
<1>b. /\ transferCounter \in Nat
      /\ \A m \in DOMAIN messages : m \in Seq(Nat) /\ Len(m) = 2
      /\ \A t \in DOMAIN transfers : DOMAIN transfers[t] = {"session", "status"}
  BY DEF BInv, Numbered
<1>c. /\ DOMAIN phonebooks = sessions
      /\ \A m \in DOMAIN messages : <<Head(m)>> \in sessions
  BY DEF BInv, NoOrphans
<1>1. CASE CreateSession
  BY <1>1, CreateStep
<1>2. ASSUME NEW n \in 0..MaxSessions-1, RemoveSession(<<n>>)
      PROVE  BInv' /\ announced \cap out'.added = {}
  BY <1>2, RemoveStep
<1>3. ASSUME NEW n \in 0..MaxSessions-1, PhonebookSelect(<<n>>)
      PROVE  BInv' /\ announced \cap out'.added = {}
  BY <1>3, <1>a, QuietStep DEF PhonebookSelect, counters
<1>4. ASSUME NEW n \in 0..MaxSessions-1, PhonebookPull(<<n>>)
      PROVE  BInv' /\ announced \cap out'.added = {}
  <2>1. <<n>> \in Seq(Nat) /\ Len(<<n>>) = 1 /\ Head(<<n>>) = n
    OBVIOUS
  <2>2. <<n>> \in sessions /\ CompleteTransfer(<<n>>, {}) /\ messages' = messages
    BY <1>4, <1>c DEF PhonebookPull
  <2>3. IsFiniteSet(DOMAIN messages')
    BY <2>2 DEF BInv, Numbered
  <2> QED BY <1>b, <1>c, <2>1, <2>2, <2>3, TransferStep
<1>5. ASSUME NEW n \in 0..MaxSessions-1, PushMessage(<<n>>)
      PROVE  BInv' /\ announced \cap out'.added = {}
  <2> DEFINE s == <<n>>
             m == Append(s, Cardinality(DOMAIN messages))
             v == [origin |-> transferCounter + 1, read |-> FALSE, deleted |-> FALSE]
  <2>1. IsFiniteSet(DOMAIN messages) /\ Cardinality(DOMAIN messages) \in Nat
    BY FS_CardinalityType DEF BInv, Numbered
  <2>2. m \in Seq(Nat) /\ Len(m) = 2 /\ Head(m) = n
    BY <2>1
  <2>3. s \in Seq(Nat) /\ Len(s) = 1 /\ Head(s) = n
    OBVIOUS
  <2>4. /\ s \in sessions /\ messages' = Put(messages, m, v)
        /\ CompleteTransfer(s, {Object("Message1", m)})
    BY <1>5 DEF PushMessage
  <2>5. <<Head(s)>> = s /\ <<Head(m)>> = s
    BY <2>2
  <2> HIDE DEF m, v, s
  <2>6. DOMAIN messages' = DOMAIN messages \cup {m}
    BY <2>4 DEF Put
  <2>7. IsFiniteSet(DOMAIN messages')
    BY <2>1, <2>6, FS_AddElement
  <2>8. \A x \in DOMAIN messages' : x \in Seq(Nat) /\ Len(x) = 2 /\ <<Head(x)>> \in sessions
    BY <1>b, <1>c, <2>2, <2>4, <2>5, <2>6
  <2>9. \A x : x \in {Object("Message1", y) : y \in DOMAIN messages'} <=>
               x \in {Object("Message1", y) : y \in DOMAIN messages}
                       \cup {Object("Message1", m)}
    BY <2>6
  <2>10. \A x : x \in {Object("Message1", m)} => x.interface = "Message1"
    BY ObjectFields
  <2> QED BY <2>3, <2>4, <2>5, <2>7, <2>8, <2>9, <2>10, TransferStep
<1>6. ASSUME NEW m \in DOMAIN messages, MessageGet(m)
      PROVE  BInv' /\ announced \cap out'.added = {}
  <2>1. CompleteTransfer(m, {}) /\ messages' = messages
    BY <1>6 DEF MessageGet
  <2>2. m \in Seq(Nat) /\ Len(m) \in {1, 2} /\ <<Head(m)>> \in sessions
    BY <1>b, <1>c
  <2>3. IsFiniteSet(DOMAIN messages')
    BY <2>1 DEF BInv, Numbered
  <2> QED BY <1>b, <1>c, <2>1, <2>2, <2>3, TransferStep
<1>7. ASSUME NEW m \in DOMAIN messages, NEW read, NEW deleted,
             SetMessage(m, read, deleted)
      PROVE  BInv' /\ announced \cap out'.added = {}
  BY <1>7, <1>a, QuietStep DEF SetMessage, counters
<1>8. ASSUME NEW t, NEW status, SetTransferStatus(t, status)
      PROVE  BInv' /\ announced \cap out'.added = {}
  <2>1. /\ t \in DOMAIN transfers /\ Quiet
        /\ transfers' = [transfers EXCEPT ![t].status = status]
        /\ shown' = Put(shown, t, status)
        /\ UNCHANGED <<sessionCounter, transferCounter, sessions, phonebooks, messages>>
    BY <1>8 DEF SetTransferStatus, counters
  <2>2. /\ DOMAIN transfers' = DOMAIN transfers
        /\ transfers'[t] = [transfers[t] EXCEPT !.status = status]
        /\ \A x \in DOMAIN transfers \ {t} : transfers'[x] = transfers[x]
    BY <2>1
  <2>3. /\ transfers'[t].status = status
        /\ transfers'[t].session = transfers[t].session
        /\ DOMAIN transfers'[t] = DOMAIN transfers[t]
    BY <1>b, <2>1, <2>2
  <2>4. shown' = [x \in DOMAIN transfers' |-> transfers'[x].status]
    BY <1>a, <2>1, <2>2, <2>3 DEF Put
  <2> QED BY <2>1, <2>2, <2>3, <2>4, QuietStep
<1>9. CASE Dispose
  BY <1>9, <1>a, QuietStep DEF Dispose, counters, maps
<1> QED
  BY <1>1, <1>2, <1>3, <1>4, <1>5, <1>6, <1>7, <1>8, <1>9 DEF Next

LEMMA Inductive == Spec => []BInv
<1>1. BInv /\ [Next]_vars => BInv'
  <2>1. ASSUME BInv, UNCHANGED vars PROVE BInv'
    BY <2>1 DEF vars, maps, counters, BInv, Numbered, AnnouncedBelow, NoOrphans,
                EventsMatchListing, Listed
  <2> QED BY <2>1, BInvStep
<1> QED
  BY BInvInit, <1>1, PTL DEF Spec

\* A removed session leaves no phone book, message or transfer behind, also
\* the transfers its messages started.
THEOREM NoOrphansHolds == Spec => []NoOrphans
<1>1. BInv => NoOrphans
  BY DEF BInv
<1> QED
  BY <1>1, Inductive, PTL

\* A listener that applies additions, removals and status changes sees just
\* what getManagedObjects lists.
THEOREM EventsMatchListingHolds == Spec => []EventsMatchListing
<1>1. BInv => EventsMatchListing
  BY DEF BInv
<1> QED
  BY <1>1, Inductive, PTL

NotReusedStep == announced \cap out'.added = {}

\* No path of a session or transfer is announced twice, whatever was removed
\* in between.
THEOREM PathsNotReusedHolds == Spec => PathsNotReused
<1>1. BInv /\ [Next]_vars => [NotReusedStep]_vars
  BY BInvStep DEF NotReusedStep
<1>2. Spec => [][NotReusedStep]_vars
  BY <1>1, Inductive, PTL DEF Spec
<1> QED
  BY <1>2 DEF PathsNotReused, NotReusedStep

=============================================================================

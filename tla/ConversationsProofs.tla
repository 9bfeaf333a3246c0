------------------------ MODULE ConversationsProofs -------------------------
(***************************************************************************)
(* Theorems about Conversations, for any participants and bounds.          *)
(***************************************************************************)
EXTENDS Conversations, SequenceTheorems, WellFoundedInduction, TLAPS

-----------------------------------------------------------------------------
(* Ids and events.                                                         *)

LEMMA SmallestOf ==
    ASSUME NEW S, S \subseteq Nat, S # {}
    PROVE  Min(S) \in S /\ \A y \in S : Min(S) =< y
<1> DEFINE Less == {p \in Nat \X Nat : p[1] < p[2]}
<1>1. IsWellFoundedOn(Less, Nat)
    BY NatLessThanWellFounded DEF OpToRel
<1>2. PICK x \in S : \A y \in S : ~ (<<y, x>> \in Less)
    BY <1>1, WFMin
<1>3. ASSUME NEW y \in S PROVE x =< y
    <2>1. x \in Nat /\ y \in Nat /\ <<y, x>> \in Nat \X Nat
        OBVIOUS
    <2>2. y < x => <<y, x>> \in Less
        BY <2>1, SMT
    <2> QED BY <1>2, <2>1, <2>2, SMT
<1>4. \E s \in S : \A t \in S : s =< t
    BY <1>3, Zenon
<1> QED BY <1>4, Zenon DEF Min

LEMMA LargestOf ==
    ASSUME NEW n \in Nat, NEW S, S \subseteq 0 .. n, S # {}
    PROVE  Max(S) \in S /\ \A y \in S : y =< Max(S)
<1> DEFINE T == {n - x : x \in S}
<1>1. T \subseteq Nat /\ T # {}
    <2>1. ASSUME NEW x \in S PROVE n - x \in Nat
        OBVIOUS
    <2>2. PICK x : x \in S
        OBVIOUS
    <2>3. n - x \in T
        BY <2>2
    <2> QED BY <2>1, <2>3
<1>2. Min(T) \in T /\ \A y \in T : Min(T) =< y
    BY <1>1, SmallestOf
<1>3. PICK x \in S : Min(T) = n - x
    BY <1>2
<1>4. ASSUME NEW y \in S PROVE x >= y
    <2>1. n - y \in T
        OBVIOUS
    <2>2. n - x =< n - y /\ x \in Nat /\ y \in Nat
        BY <1>2, <1>3, <2>1
    <2> QED BY <2>2
<1>5. \E s \in S : \A t \in S : s >= t
    BY <1>4, Zenon
<1>6. Max(S) \in S /\ \A y \in S : Max(S) >= y
    BY <1>5, Zenon DEF Max
<1> QED BY <1>6

\* A new conversation gets an id that no row has.
LEMMA NewIdIsNew ==
    ASSUME NewId \in Ids PROVE conversations[NewId] = None
<1> DEFINE S == {c \in Ids : conversations[c] # None} \cup {0}
<1>1. S \subseteq 0 .. MaxId /\ S # {} /\ MaxId \in Nat
    BY ConversationsAssumption DEF Ids
<1>2. Max(S) \in S /\ \A y \in S : y =< Max(S)
    BY <1>1, LargestOf
<1>3. NewId = 1 + Max(S) /\ Max(S) \in Nat
    BY <1>1, <1>2 DEF NewId
<1>4. NewId \notin S
    <2> HIDE DEF S
    <2> QED BY <1>2, <1>3
<1> QED BY <1>4

LEMMA LatestIsMessage ==
    ASSUME NEW c PROVE LatestOf(c) \in 0 .. MaxMessages
<1> DEFINE S == {m \in Messages : inConv[m] = c} \cup {0}
<1>1. S \subseteq 0 .. MaxMessages /\ S # {} /\ MaxMessages \in Nat
    BY ConversationsAssumption DEF Messages
<1>2. Max(S) \in S
    BY <1>1, LargestOf
<1> QED BY <1>1, <1>2 DEF LatestOf

LEMMA EventType ==
    ASSUME NEW kind \in Kinds, NEW c \in Ids \cup {0}, NEW m \in Messages \cup {0}
    PROVE  Ev(kind, c, m) \in Event /\ Ev(kind, c, m).kind = kind
           /\ Ev(kind, c, m).conv = c /\ Ev(kind, c, m).msg = m
BY DEF Ev, Event

\* What a queue of events holds.
Elems(q) == {q[i] : i \in DOMAIN q}

LEMMA ElemsOfAppend ==
    ASSUME NEW S, NEW q \in Seq(S), NEW e \in S
    PROVE  Append(q, e) \in Seq(S) /\ Elems(Append(q, e)) = Elems(q) \cup {e}
           /\ (q = <<>> => Append(q, e) = <<e>>)
<1> DEFINE r == Append(q, e)
<1>1. /\ r \in Seq(S) /\ Len(q) \in Nat /\ Len(r) = Len(q) + 1
      /\ DOMAIN q = 1 .. Len(q) /\ DOMAIN r = 1 .. Len(q) + 1
      /\ \A i \in 1 .. Len(q) : r[i] = q[i]
      /\ r[Len(q) + 1] = e
    OBVIOUS
<1> HIDE DEF r
<1>2. ASSUME NEW i \in DOMAIN r PROVE r[i] \in Elems(q) \cup {e}
    <2>1. i \in DOMAIN q \/ i = Len(q) + 1
        BY <1>1
    <2> QED BY <1>1, <2>1 DEF Elems
<1>3. ASSUME NEW i \in DOMAIN q PROVE q[i] \in Elems(r)
    BY <1>1 DEF Elems
<1>4. e \in Elems(r)
    BY <1>1 DEF Elems
<1>5. Elems(r) = Elems(q) \cup {e}
    BY <1>2, <1>3, <1>4 DEF Elems
<1>6. q = <<>> => r = <<e>>
    BY DEF r
<1> QED BY <1>1, <1>5, <1>6 DEF r

LEMMA ElemsOfTail ==
    ASSUME NEW S, NEW q \in Seq(S), q # <<>>
    PROVE  /\ Tail(q) \in Seq(S) /\ Head(q) \in S /\ Head(q) \in Elems(q)
           /\ Elems(q) = Elems(Tail(q)) \cup {Head(q)}
           /\ (Len(q) = 1 => Tail(q) = <<>> /\ Elems(q) = {Head(q)})
<1> DEFINE r == Tail(q)
<1>1. /\ r \in Seq(S) /\ Len(q) \in Nat /\ Len(q) > 0 /\ Len(r) = Len(q) - 1
      /\ DOMAIN q = 1 .. Len(q) /\ DOMAIN r = 1 .. Len(q) - 1
      /\ \A i \in 1 .. Len(q) - 1 : r[i] = q[i + 1]
      /\ Head(q) = q[1] /\ Head(q) \in S
    OBVIOUS
<1> HIDE DEF r
<1>2. Len(q) = 1 => r = <<>>
    BY <1>1, EmptySeq
<1>3. ASSUME NEW i \in DOMAIN q PROVE q[i] \in Elems(r) \cup {Head(q)}
    <2>1. CASE i = 1
        BY <1>1, <2>1
    <2>2. CASE i # 1
        <3>1. i - 1 \in DOMAIN r /\ r[i - 1] = q[i]
            BY <1>1, <2>2
        <3> QED BY <3>1 DEF Elems
    <2> QED BY <2>1, <2>2
<1>4. ASSUME NEW i \in DOMAIN r PROVE r[i] \in Elems(q)
    <2>1. i + 1 \in DOMAIN q /\ q[i + 1] = r[i]
        <3>1. i \in 1 .. Len(q) - 1
            BY <1>1
        <3>2. r[i] = q[i + 1]
            BY <1>1, <3>1
        <3>3. i + 1 \in 1 .. Len(q)
            BY <1>1, <3>1
        <3> QED BY <1>1, <3>2, <3>3
    <2> QED BY <2>1 DEF Elems
<1>5. Head(q) \in Elems(q)
    <2>1. 1 \in DOMAIN q /\ q[1] = Head(q)
        BY <1>1
    <2> QED BY <2>1, Zenon DEF Elems
<1>6. Elems(q) = Elems(r) \cup {Head(q)}
    <2>1. Elems(q) \subseteq Elems(r) \cup {Head(q)}
        BY <1>3 DEF Elems
    <2>2. Elems(r) \subseteq Elems(q)
        BY <1>4 DEF Elems
    <2> QED BY <1>5, <2>1, <2>2
<1>7. Len(q) = 1 => Elems(q) = {Head(q)}
    <2>1. Elems(<<>>) = {}
        BY DEF Elems
    <2> QED BY <1>2, <1>6, <2>1
<1> QED BY <1>1, <1>2, <1>5, <1>6, <1>7 DEF r

LEMMA ElemsOfBoth ==
    ASSUME NEW S, NEW q \in Seq(S), NEW p \in Seq(S)
    PROVE  q \o p \in Seq(S) /\ Elems(q \o p) = Elems(q) \cup Elems(p)
           /\ (q = <<>> => q \o p = p)
<1> DEFINE r == q \o p
<1>1. /\ r \in Seq(S) /\ Len(q) \in Nat /\ Len(p) \in Nat
      /\ DOMAIN q = 1 .. Len(q) /\ DOMAIN p = 1 .. Len(p)
      /\ DOMAIN r = 1 .. Len(q) + Len(p)
      /\ \A i \in 1 .. Len(q) + Len(p) : r[i] = IF i =< Len(q) THEN q[i] ELSE p[i - Len(q)]
    OBVIOUS
<1>2. q = <<>> => r = p
    OBVIOUS
<1> HIDE DEF r
<1>3. ASSUME NEW i \in DOMAIN r PROVE r[i] \in Elems(q) \cup Elems(p)
    <2>1. CASE i =< Len(q)
        BY <1>1, <2>1 DEF Elems
    <2>2. CASE ~(i =< Len(q))
        <3>1. i - Len(q) \in DOMAIN p /\ r[i] = p[i - Len(q)]
            BY <1>1, <2>2
        <3> QED BY <3>1 DEF Elems
    <2> QED BY <2>1, <2>2
<1>4. ASSUME NEW i \in DOMAIN q PROVE q[i] \in Elems(r)
    BY <1>1 DEF Elems
<1>5. ASSUME NEW i \in DOMAIN p PROVE p[i] \in Elems(r)
    <2>1. Len(q) + i \in DOMAIN r /\ r[Len(q) + i] = p[i]
        BY <1>1
    <2> QED BY <2>1 DEF Elems
<1>6. Elems(r) = Elems(q) \cup Elems(p)
    BY <1>3, <1>4, <1>5 DEF Elems
<1> QED BY <1>1, <1>2, <1>6 DEF r

LEMMA ElemsOfPair ==
    ASSUME NEW S, NEW e \in S, NEW f \in S
    PROVE  /\ <<e, f>> \in Seq(S) /\ Elems(<<e, f>>) = {e, f} /\ <<e, f>> # <<>>
           /\ <<e>> \in Seq(S) /\ Elems(<<e>>) = {e} /\ <<e>> # <<>> /\ Len(<<e>>) = 1
           /\ <<>> \in Seq(S) /\ Elems(<<>>) = {}
<1>1. DOMAIN <<e, f>> = {1, 2} /\ DOMAIN <<e>> = {1} /\ DOMAIN <<>> = {}
    OBVIOUS
<1> QED BY <1>1 DEF Elems

-----------------------------------------------------------------------------
(* The inductive invariant.                                                *)

\* Every event is about a conversation.
NamedEvent == {e \in Event : e.conv # 0}

LEMMA PairOfEvents ==
    ASSUME NEW e \in NamedEvent, NEW f \in NamedEvent
    PROVE  <<e, f>> \in Seq(NamedEvent) /\ Elems(<<e, f>>) = {e, f}
<1>1. DOMAIN <<e, f>> = {1, 2} /\ <<e, f>> \in Seq(NamedEvent)
    OBVIOUS
<1> QED BY <1>1 DEF Elems

Named == events \in Seq(NamedEvent) /\ out \in Seq(NamedEvent)

\* TypeOK without the two variables of a cancelled sync, and what it says of these.
Types ==
    /\ conversations \in [Ids -> Participants \cup {None}]
    /\ \A c, d \in Ids : conversations[c] = conversations[d] /\ conversations[c] # None => c = d
    /\ inConv \in [Messages -> 0 .. MaxId]
    /\ sentTo \in [Messages -> Participants \cup {None}]
    /\ sendable \subseteq Ids
    /\ cached \in [Ids -> Participants \cup {None}]
    /\ idOf \in [Participants -> 0 .. MaxId]
    /\ latest \in [Ids -> 0 .. MaxMessages \cup {None}]
    /\ cachedMsgs \in [Messages -> 0 .. MaxId]
    /\ events \in Seq(Event) /\ out \in Seq(Event)
    /\ removing \in 0 .. MaxId
    /\ stage \in {"none", "messages", "draft", "conversation"} /\ left \subseteq Messages
    /\ removing = 0 <=> stage = "none"
    /\ pc \in {"idle", "loop", "loading", "posting", "emitSent", "inbox", "emitNew"}
    /\ job \in Job \cup {None}
    /\ pc \in {"loading", "posting"} <=> job # None
    /\ pc = "posting" => job.parts # None
    /\ pc \in {"emitSent", "emitNew"} <=> out # <<>>
    /\ thrown \in Thrown \cup {None}
    /\ actions \in 0 .. MaxActions /\ deletes \in 0 .. MaxDeletes
OldTypes ==
    /\ old \in Old \cup {None} /\ overran \in BOOLEAN
    /\ old # None /\ old.pc \in {"loading", "posting"} => old.job # None
    /\ old # None /\ old.pc = "posting" => old.job.parts # None
Typed == Types /\ Named

Pending(kind, m) == \E e \in Elems(events) \cup Elems(out) : e.kind = kind /\ e.msg = m

\* A message that is or was in the table has been exchanged with somebody.
Known ==
    \A m \in Messages :
        inConv[m] # 0 \/ cachedMsgs[m] # 0 \/ m \in left \/ Pending("messageRemoved", m)
            => sentTo[m] # None

\* The app does not know a message only while it is told of it, and is not told
\* that a message is removed that is there.
Told ==
    \A m \in Messages :
        /\ inConv[m] # 0 => cachedMsgs[m] = inConv[m] \/ Pending("messageAdded", m)
        /\ Pending("messageRemoved", m) => inConv[m] = 0

\* A removal begins when no other event is pending and no sync runs.
Alone ==
    /\ \A e \in Elems(events) : e.kind = "conversationWillBeRemoved" =>
          Len(events) = 1 /\ pc = "idle" /\ removing = 0
    /\ \A e \in Elems(out) : e.kind # "conversationWillBeRemoved"

\* Before its row is deleted, a conversation has lost its messages.
Emptied ==
    removing # 0 =>
        /\ pc = "idle"
        /\ \A m \in Messages : inConv[m] = removing => stage = "messages" /\ m \in left

\* What the uploader has loaded is what the table says.
Loaded == pc = "posting" => conversations[job.conv] = job.parts

\* The bodies of RightConversation and NothingThrown.
Matched == \A m \in Messages : inConv[m] # 0 => conversations[inConv[m]] = sentTo[m]
Unthrown == thrown = None

Safe == Known /\ Told /\ Alone /\ Emptied /\ Loaded /\ Matched

-----------------------------------------------------------------------------
(* The types.                                                              *)

LEMMA NamedType ==
    ASSUME NEW kind \in Kinds, NEW c \in Ids, NEW m \in Messages \cup {0}
    PROVE  /\ Ev(kind, c, m) \in NamedEvent /\ Ev(kind, c, m).kind = kind
           /\ Ev(kind, c, m).conv = c /\ Ev(kind, c, m).msg = m
<1>1. 0 \notin Ids
    BY ConversationsAssumption DEF Ids
<1> QED BY <1>1, EventType DEF NamedEvent

\* Kinds, as facts.
LEMMA KindsAre ==
    /\ {"messageAdded", "messageRemoved", "conversationAdded", "conversationModified",
        "conversationWillBeRemoved"} \subseteq Kinds
    /\ NamedEvent \subseteq Event
BY DEF Kinds, NamedEvent

LEMMA NamedIsEvents == Named => events \in Seq(Event) /\ out \in Seq(Event)
<1> SUFFICES ASSUME Named PROVE events \in Seq(Event) /\ out \in Seq(Event)
    OBVIOUS
<1>1. \A q \in Seq(NamedEvent) : q \in Seq(Event)
    BY KindsAre
<1> QED BY <1>1 DEF Named

LEMMA TypesAre == TypeOK <=> Types /\ OldTypes
BY DEF TypeOK, Types, OldTypes, Phases

LEMMA TypeInit == Init => Typed
<1> SUFFICES ASSUME Init PROVE Typed
    OBVIOUS
<1>1. events \in Seq(Event) /\ out \in Seq(Event) /\ Named
    BY DEF Init, Named
<1>2. 0 \in 0 .. MaxId /\ None \notin Job
    BY ConversationsAssumption, NoneIsNoValue
<1> QED BY <1>1, <1>2, ConversationsAssumption DEF Init, Types, Typed

\* What the type says of the user's counter.
LEMMA ActsType == ASSUME Types, Acts PROVE actions' \in 0 .. MaxActions
BY ConversationsAssumption DEF Types, Acts

\* A row with new participants.
LEMMA NewRow ==
    ASSUME Types, NEW p \in Participants, Existing(p) = {}, NewId \in Ids,
           conversations' = [conversations EXCEPT ![NewId] = p]
    PROVE  /\ conversations' \in [Ids -> Participants \cup {None}]
           /\ \A c, d \in Ids : conversations'[c] = conversations'[d] /\ conversations'[c] # None => c = d
           /\ \A c \in Ids : conversations[c] # None => conversations'[c] = conversations[c]
           /\ conversations'[NewId] = p
<1>1. \A c \in Ids : conversations[c] # p
    BY DEF Existing
<1>2. conversations[NewId] = None
    BY NewIdIsNew
<1> QED BY <1>1, <1>2 DEF Types

\* Sequences of events.
LEMMA EventsType ==
    /\ \A q \in Seq(NamedEvent) : q \in Seq(Event)
    /\ 0 \in 0 .. MaxId /\ Ids \subseteq 0 .. MaxId /\ 0 \notin Ids
    /\ (0 .. MaxId) \ {0} \subseteq Ids
BY ConversationsAssumption DEF NamedEvent, Ids

LEMMA TypeApp == ASSUME Typed, AppStep PROVE Typed'
<1> USE DEF Typed
<1>1. CASE MessageAdded
    <2>u. UNCHANGED <<conversations, inConv, sentTo, sendable, cached, idOf, latest, removing,
                      stage, left, pc, job, out, thrown, actions, deletes>>
        BY <1>1 DEF MessageAdded, tables, app, sync
    <2>1. events' \in Seq(NamedEvent) /\ Head(events) \in NamedEvent
        BY <1>1, ElemsOfTail DEF MessageAdded, Handles, Named
    <2>2. cachedMsgs' \in [Messages -> 0 .. MaxId]
        BY <1>1 DEF MessageAdded, Types
    <2> QED BY <2>u, <2>1, <2>2, EventsType DEF Types, Named
<1>2. CASE MessageRemoved
    <2>u. UNCHANGED <<conversations, inConv, sentTo, sendable, cached, idOf, latest, removing,
                      stage, left, pc, job, out, thrown, actions, deletes>>
        BY <1>2 DEF MessageRemoved, tables, app, sync
    <2>1. events' \in Seq(NamedEvent) /\ Head(events) \in NamedEvent
        BY <1>2, ElemsOfTail DEF MessageRemoved, Handles, Named
    <2>2. cachedMsgs' \in [Messages -> 0 .. MaxId]
        BY <1>2, EventsType DEF MessageRemoved, Types
    <2> QED BY <2>u, <2>1, <2>2, EventsType DEF Types, Named
<1>3. CASE ConversationAdded
    <2>u. UNCHANGED <<conversations, inConv, sentTo, sendable, latest, cachedMsgs, removing,
                      stage, left, pc, job, out, actions, deletes>>
        BY <1>3 DEF ConversationAdded, tables, app, sync
    <2>1. events' \in Seq(NamedEvent) /\ Head(events) \in NamedEvent
        BY <1>3, ElemsOfTail DEF ConversationAdded, Handles, Named
    <2>2. Head(events).conv \in Ids
        BY <2>1, EventsType DEF NamedEvent, Event
    <2>3. cached' \in [Ids -> Participants \cup {None}] /\ idOf' \in [Participants -> 0 .. MaxId]
           /\ thrown' \in Thrown \cup {None}
        <3> DEFINE c == Head(events).conv
                   p == conversations[c]
        <3>1. /\ cached \in [Ids -> Participants \cup {None}] /\ p \in Participants \cup {None}
              /\ idOf \in [Participants -> 0 .. MaxId] /\ c \in 0 .. MaxId
              /\ thrown \in Thrown \cup {None}
            BY <2>2, EventsType DEF Types
        <3>2. CASE p = None
            BY <1>3, <3>1, <3>2 DEF ConversationAdded, Thrown
        <3>3. CASE p # None
            <4>1. /\ idOf' = [idOf EXCEPT ![p] = c] /\ thrown' = thrown
                  /\ cached' = [cached EXCEPT ![c] = IF @ = None THEN p ELSE @]
                BY <1>3, <3>3 DEF ConversationAdded
            <4> HIDE DEF c, p
            <4> QED BY <3>1, <4>1
        <3> QED BY <3>2, <3>3
    <2> QED BY <2>u, <2>1, <2>2, <2>3, EventsType DEF Types, Named
<1>4. CASE ConversationModified
    <2>u. UNCHANGED <<conversations, inConv, sentTo, sendable, idOf, cachedMsgs, removing,
                      stage, left, pc, job, out, actions, deletes>>
        BY <1>4 DEF ConversationModified, tables, app, sync
    <2>1. events' \in Seq(NamedEvent) /\ Head(events) \in NamedEvent
        BY <1>4, ElemsOfTail DEF ConversationModified, Handles, Named
    <2>2. Head(events).conv \in Ids
        BY <2>1, EventsType DEF NamedEvent, Event
    <2>a. cached' \in [Ids -> Participants \cup {None}]
        BY <1>4, <2>2 DEF ConversationModified, Types
    <2>b. LatestOf(Head(events).conv) \in 0 .. MaxMessages
        BY LatestIsMessage
    <2>c. latest' \in [Ids -> 0 .. MaxMessages \cup {None}]
        BY <1>4, <2>2, <2>b DEF ConversationModified, Types
    <2>3. /\ cached' \in [Ids -> Participants \cup {None}] /\ latest' \in [Ids -> 0 .. MaxMessages \cup {None}]
           /\ thrown' \in Thrown \cup {None}
        BY <1>4, <2>a, <2>c DEF ConversationModified, Types, Thrown
    <2> QED BY <2>u, <2>1, <2>2, <2>3, EventsType DEF Types, Named
<1>5. CASE ConversationWillBeRemoved
    <2>u. UNCHANGED <<conversations, inConv, sentTo, sendable, cached, idOf, latest, cachedMsgs,
                      pc, job, out, thrown, actions, deletes>>
        BY <1>5 DEF ConversationWillBeRemoved, tables, caches, sync
    <2>1. events' \in Seq(NamedEvent) /\ Head(events) \in NamedEvent
        BY <1>5, ElemsOfTail DEF ConversationWillBeRemoved, Handles, Named
    <2>2. removing' \in Ids /\ stage' = "messages" /\ left' \subseteq Messages
        BY <1>5, <2>1, EventsType DEF ConversationWillBeRemoved, NamedEvent, Event
    <2> QED BY <2>u, <2>1, <2>2, EventsType DEF Types, Named
<1>6. CASE RemoveNextMessage
    <2>u. UNCHANGED <<conversations, sentTo, sendable, cached, idOf, latest, removing, pc, job,
                      out, thrown, actions, deletes>>
        BY <1>6 DEF RemoveNextMessage, sync
    <2>1. removing \in Ids
        BY <1>6, EventsType DEF RemoveNextMessage, Types
    <2>2. left # {} => Min(left) \in Messages
        <3>1. left \subseteq Messages /\ left \subseteq Nat
            BY ConversationsAssumption DEF Types, Messages
        <3> QED BY <3>1, SmallestOf
    <2>3. left # {} => Ev("messageRemoved", removing, Min(left)) \in NamedEvent
        BY <2>1, <2>2, KindsAre, NamedType
    <2>4. events' \in Seq(NamedEvent)
        <3>1. events \in Seq(NamedEvent)
            BY DEF Named
        <3>2. CASE left = {}
            BY <1>6, <3>1, <3>2 DEF RemoveNextMessage
        <3>3. CASE left # {}
            <4>1. events' = Append(events, Ev("messageRemoved", removing, Min(left)))
                BY <1>6, <3>3 DEF RemoveNextMessage
            <4> QED BY <2>3, <3>1, <3>3, <4>1, ElemsOfAppend, Zenon
        <3> QED BY <3>2, <3>3
    <2>5. inConv' \in [Messages -> 0 .. MaxId] /\ cachedMsgs' \in [Messages -> 0 .. MaxId] /\ left' \subseteq Messages
        <3>1. CASE left = {}
            BY <1>6, <3>1 DEF RemoveNextMessage, Types
        <3>2. CASE left # {}
            <4>1. /\ inConv' = [inConv EXCEPT ![Min(left)] = 0]
                  /\ cachedMsgs' = [cachedMsgs EXCEPT ![Min(left)] = 0]
                  /\ left' = left \ {Min(left)}
                BY <1>6, <3>2 DEF RemoveNextMessage
            <4> QED BY <4>1, EventsType DEF Types
        <3> QED BY <3>1, <3>2
    <2>6. stage' \in {"messages", "draft"} /\ stage = "messages"
        BY <1>6 DEF RemoveNextMessage
    <2> QED BY <2>u, <2>1, <2>2, <2>3, <2>4, <2>5, <2>6, EventsType DEF Types, Named
<1>7. CASE RemoveDraft
    <2>u. UNCHANGED <<conversations, inConv, sentTo, cached, idOf, latest, cachedMsgs, events,
                      removing, left, pc, job, out, thrown, actions, deletes>>
        BY <1>7 DEF RemoveDraft, caches, sync
    <2>1. sendable' \subseteq Ids /\ stage = "draft" /\ stage' = "conversation"
        BY <1>7 DEF RemoveDraft, Types
    <2> QED BY <2>u, <2>1, EventsType DEF Types, Named
<1>8. CASE RemoveConversation
    <2>u. UNCHANGED <<inConv, sentTo, sendable, cachedMsgs, events, left, pc, job, out, actions,
                      deletes>>
        BY <1>8 DEF RemoveConversation, sync
    <2>1. removing \in Ids /\ removing' = 0 /\ stage' = "none"
        BY <1>8, EventsType DEF RemoveConversation, Types
    <2>2. \/ UNCHANGED <<conversations, cached, idOf, latest>> /\ thrown' \in {thrown, "erased"}
          \/ /\ conversations' = [conversations EXCEPT ![removing] = None]
             /\ cached' = [cached EXCEPT ![removing] = None]
             /\ idOf' = [idOf EXCEPT ![cached[removing]] = 0]
             /\ latest' = [latest EXCEPT ![removing] = None] /\ UNCHANGED thrown
        BY <1>8 DEF RemoveConversation
    <2>3. conversations' \in [Ids -> Participants \cup {None}]
         /\ \A c, d \in Ids : conversations'[c] = conversations'[d] /\ conversations'[c] # None => c = d
        BY <2>1, <2>2 DEF Types
    <2>a. cached' \in [Ids -> Participants \cup {None}]
        BY <2>2 DEF Types
    <2>b. idOf' \in [Participants -> 0 .. MaxId]
        <3>1. idOf \in [Participants -> 0 .. MaxId] /\ 0 \in 0 .. MaxId
            BY EventsType DEF Types
        <3>2. \A p : [idOf EXCEPT ![p] = 0] \in [Participants -> 0 .. MaxId]
            BY <3>1
        <3>3. idOf' = idOf \/ idOf' = [idOf EXCEPT ![cached[removing]] = 0]
            BY <2>2
        <3> QED BY <3>1, <3>2, <3>3
    <2>c. latest' \in [Ids -> 0 .. MaxMessages \cup {None}]
        BY <2>2 DEF Types
    <2>4. thrown' \in Thrown \cup {None}
        BY <2>2 DEF Types, Thrown
    <2> QED BY <2>u, <2>1, <2>3, <2>a, <2>b, <2>c, <2>4, EventsType DEF Types, Named
<1> QED
    BY <1>1, <1>2, <1>3, <1>4, <1>5, <1>6, <1>7, <1>8 DEF AppStep

\* A message that is added and told of.
Adds(m, c, p, isNew) == addMessage(m, c, p) /\ emitSignals(m, c, isNew)

LEMMA AddMessageType ==
    ASSUME Typed, NEW m \in NextMessage, NEW c \in Ids, NEW p \in Participants,
           NEW isNew \in BOOLEAN, Adds(m, c, p, isNew)
    PROVE  /\ m \in Messages /\ sentTo[m] = None
           /\ inConv' = [inConv EXCEPT ![m] = c] /\ sentTo' = [sentTo EXCEPT ![m] = p]
           /\ inConv' \in [Messages -> 0 .. MaxId]
           /\ sentTo' \in [Messages -> Participants \cup {None}]
           /\ out' \in Seq(NamedEvent) /\ out' # <<>>
           /\ Ev("messageAdded", c, m) \in Elems(out')
           /\ \A e \in Elems(out') : e.kind \in {"messageAdded", "conversationAdded", "conversationModified"}
<1> DEFINE kind == IF isNew THEN "conversationAdded" ELSE "conversationModified"
           e == Ev("messageAdded", c, m)
           f == Ev(kind, c, 0)
<1>1. m \in Messages /\ sentTo[m] = None
    BY DEF NextMessage
<1>2. out' = <<e, f>> /\ inConv' = [inConv EXCEPT ![m] = c] /\ sentTo' = [sentTo EXCEPT ![m] = p]
    BY DEF Adds, addMessage, emitSignals
<1>3. kind \in Kinds /\ kind \in {"conversationAdded", "conversationModified"}
    BY KindsAre
<1> HIDE DEF kind
<1>4. /\ e \in NamedEvent /\ e.kind = "messageAdded"
      /\ f \in NamedEvent /\ f.kind = kind
    BY <1>1, <1>3, KindsAre, NamedType
<1> HIDE DEF e, f
<1>5. out' \in Seq(NamedEvent) /\ Elems(out') = {e, f} /\ out' # <<>>
    BY <1>2, <1>4, ElemsOfPair
<1>6. \A x \in Elems(out') : x.kind \in {"messageAdded", "conversationAdded", "conversationModified"}
    BY <1>3, <1>4, <1>5
<1>7. /\ inConv' \in [Messages -> 0 .. MaxId]
      /\ sentTo' \in [Messages -> Participants \cup {None}]
    BY <1>1, <1>2, EventsType DEF Typed, Types
<1> QED BY <1>1, <1>2, <1>5, <1>6, <1>7 DEF e

\* A message from somebody, and the row of the conversation it gets.
LEMMA NewMessageMeans ==
    ASSUME Typed, NEW p \in Participants, NewMessage(p)
    PROVE  \E m \in NextMessage, c \in Ids, isNew \in BOOLEAN :
              /\ Adds(m, c, p, isNew) /\ conversations'[c] = p
              /\ conversations' \in [Ids -> Participants \cup {None}]
              /\ \A x, y \in Ids : conversations'[x] = conversations'[y] /\ conversations'[x] # None => x = y
              /\ \A x \in Ids : conversations[x] # None => conversations'[x] = conversations[x]
              /\ \A x \in Ids : x # c => conversations'[x] = conversations[x]
              /\ conversations[c] = IF isNew THEN None ELSE p
<1>1. PICK m \in NextMessage, c \in Ids, isNew \in BOOLEAN :
         makeConversation(p, c, isNew) /\ Adds(m, c, p, isNew)
    BY DEF NewMessage, Adds
<1>2. CASE ~isNew /\ c \in Existing(p) /\ UNCHANGED conversations
    <2>1. conversations[c] = p /\ conversations'[c] = p
        BY <1>2 DEF Existing
    <2> QED BY <1>1, <1>2, <2>1 DEF Typed, Types
<1>3. CASE /\ isNew /\ Existing(p) = {} /\ c = NewId
           /\ conversations' = [conversations EXCEPT ![c] = p]
    <2>1. NewId \in Ids /\ conversations' = [conversations EXCEPT ![NewId] = p]
        BY <1>3
    <2>2. /\ conversations' \in [Ids -> Participants \cup {None}]
          /\ \A x, y \in Ids : conversations'[x] = conversations'[y] /\ conversations'[x] # None => x = y
          /\ \A x \in Ids : conversations[x] # None => conversations'[x] = conversations[x]
          /\ conversations'[NewId] = p
        BY <1>3, <2>1, NewRow DEF Typed
    <2>3. conversations[NewId] = None /\ \A x \in Ids : x # NewId => conversations'[x] = conversations[x]
        BY <2>1, NewIdIsNew DEF Typed, Types
    <2> QED BY <1>1, <1>3, <2>2, <2>3
<1> QED BY <1>1, <1>2, <1>3 DEF makeConversation

\* The draft that was posted, as a message.
LEMMA PostedMeans ==
    ASSUME Typed, Posted
    PROVE  /\ job.conv \in Ids /\ job.parts \in Participants
           /\ \E m \in NextMessage : Adds(m, job.conv, job.parts, FALSE)
<1>1. job \in Job /\ job.parts # None
    BY DEF Posted, Typed, Types
<1> QED BY <1>1 DEF Posted, Job, Adds

LEMMA TypeSync == ASSUME Typed, SyncStep PROVE Typed'
<1> USE DEF Typed
<1>1. CASE StartSync
    <2>u. UNCHANGED <<conversations, inConv, sentTo, sendable, cached, idOf, latest, cachedMsgs,
                      events, removing, stage, left, job, out, thrown, actions, deletes>>
        BY <1>1 DEF StartSync, tables, caches, app
    <2>1. pc = "idle" /\ pc' = "loop"
        BY <1>1 DEF StartSync
    <2> QED BY <2>u, <2>1, EventsType DEF Types, Named
<1>2. CASE FirstSendable
    <2>u. UNCHANGED <<conversations, inConv, sentTo, sendable, cached, idOf, latest, cachedMsgs,
                      events, removing, stage, left, out, thrown, actions, deletes>>
        BY <1>2 DEF FirstSendable, tables, caches, app
    <2>1. pc = "loop" /\ job = None
        BY <1>2 DEF FirstSendable, Types
    <2>2. \/ pc' = "inbox" /\ job' = None
          \/ pc' = "loading" /\ job' \in Job
        <3>1. CASE pc' = "inbox" /\ UNCHANGED job
            BY <2>1, <3>1
        <3>2. CASE pc' = "loading" /\ \E c \in sendable : job' = [conv |-> c, parts |-> None]
            <4>1. PICK c \in sendable : job' = [conv |-> c, parts |-> None]
                BY <3>2
            <4>2. c \in Ids
                BY DEF Types
            <4> QED BY <3>2, <4>1, <4>2 DEF Job
        <3> QED BY <1>2, <3>1, <3>2 DEF FirstSendable
    <2> QED BY <2>u, <2>1, <2>2, NoneIsNoValue, EventsType DEF Types, Named
<1>3. CASE LoadConversation
    <2>u. UNCHANGED <<conversations, inConv, sentTo, sendable, cached, idOf, latest, cachedMsgs,
                      events, removing, stage, left, out, actions, deletes>>
        BY <1>3 DEF LoadConversation, tables, caches, app
    <2>1. pc = "loading" /\ job \in Job
        BY <1>3 DEF LoadConversation, Types
    <2>2. \/ pc' = "idle" /\ job' = None /\ thrown' = "conv"
          \/ /\ pc' = "posting" /\ job' \in Job /\ job'.parts # None /\ UNCHANGED thrown
             /\ job'.parts = conversations[job'.conv]
        <3>1. /\ job.conv \in Ids /\ conversations[job.conv] \in Participants \cup {None}
              /\ job = [conv |-> job.conv, parts |-> job.parts]
            BY <2>1 DEF Job, Types
        <3>2. CASE conversations[job.conv] = None
            BY <1>3, <3>2 DEF LoadConversation
        <3>3. CASE conversations[job.conv] # None
            <4>1. /\ pc' = "posting" /\ thrown' = thrown
                  /\ job' = [conv |-> job.conv, parts |-> conversations[job.conv]]
                BY <1>3, <3>1, <3>3 DEF LoadConversation
            <4>2. conversations' = conversations
                BY <2>u
            <4> QED BY <3>1, <3>3, <4>1, <4>2 DEF Job
        <3> QED BY <3>2, <3>3
    <2>3. thrown' \in Thrown \cup {None}
        BY <2>2 DEF Types, Thrown
    <2> QED BY <2>u, <2>1, <2>2, <2>3, NoneIsNoValue, EventsType DEF Types, Named
<1>4. CASE Posted
    <2>u. UNCHANGED <<conversations, cached, idOf, latest, cachedMsgs, events, removing, stage,
                      left, thrown, actions, deletes>>
        BY <1>4 DEF Posted, caches, app
    <2>1. pc = "posting" /\ pc' = "emitSent" /\ job' = None /\ sendable' \subseteq Ids
        BY <1>4 DEF Posted, Types
    <2>2. inConv' \in [Messages -> 0 .. MaxId] /\ sentTo' \in [Messages -> Participants \cup {None}]
         /\ out' \in Seq(NamedEvent) /\ out' # <<>>
        BY <1>4, PostedMeans, AddMessageType
    <2> QED BY <2>u, <2>1, <2>2, EventsType DEF Types, Named
<1>5. CASE Leave
    <2>u. UNCHANGED <<conversations, inConv, sentTo, sendable, cached, idOf, latest, cachedMsgs,
                      events, removing, stage, left, out, thrown, actions, deletes>>
        BY <1>5 DEF Leave, tables, caches, app
    <2>1. pc \in {"loop", "posting", "inbox"} /\ pc' = "idle" /\ job' = None
        BY <1>5 DEF Leave
    <2> QED BY <2>u, <2>1, EventsType DEF Types, Named
<1>6. CASE Emit
    <2>u. UNCHANGED <<conversations, inConv, sentTo, sendable, cached, idOf, latest, cachedMsgs,
                      removing, stage, left, job, thrown, actions, deletes>>
        BY <1>6 DEF Emit, tables, caches, app
    <2>1. pc \in {"emitSent", "emitNew"} /\ pc' \in {"loop", "inbox"} /\ out' = <<>>
        BY <1>6 DEF Emit, AfterEmit
    <2>2. events' \in Seq(NamedEvent) /\ out' \in Seq(NamedEvent)
        BY <1>6, ElemsOfBoth DEF Emit, Named
    <2> QED BY <2>u, <2>1, <2>2, EventsType DEF Types, Named
<1>7. CASE \E p \in Participants : NewMessage(p)
    <2>u. UNCHANGED <<sendable, cached, idOf, latest, cachedMsgs, events, removing, stage, left,
                      job, thrown, actions, deletes>>
        BY <1>7 DEF NewMessage, caches, app
    <2>1. pc = "inbox" /\ pc' = "emitNew"
        BY <1>7 DEF NewMessage
    <2>2. conversations' \in [Ids -> Participants \cup {None}]
         /\ \A c, d \in Ids : conversations'[c] = conversations'[d] /\ conversations'[c] # None => c = d
        BY <1>7, NewMessageMeans
    <2>3. inConv' \in [Messages -> 0 .. MaxId] /\ sentTo' \in [Messages -> Participants \cup {None}]
         /\ out' \in Seq(NamedEvent) /\ out' # <<>>
        BY <1>7, NewMessageMeans, AddMessageType
    <2> QED BY <2>u, <2>1, <2>2, <2>3, EventsType DEF Types, Named
<1>8. CASE \E m \in Messages : DeletedMessage(m)
    <2>u. UNCHANGED <<conversations, sentTo, sendable, cached, idOf, latest, cachedMsgs, events,
                      removing, stage, left, job, thrown, actions>>
        BY <1>8 DEF DeletedMessage, caches, app
    <2>1. PICK m \in Messages : DeletedMessage(m)
        BY <1>8
    <2>2. pc = "inbox" /\ pc' = "emitNew" /\ inConv[m] \in Ids /\ inConv' = [inConv EXCEPT ![m] = 0]
        BY <2>1, EventsType DEF DeletedMessage, Types
    <2>3. inConv' \in [Messages -> 0 .. MaxId]
        BY <2>2, EventsType DEF Types
    <2>4. deletes' \in 0 .. MaxDeletes
        BY <2>1, ConversationsAssumption DEF DeletedMessage, Types
    <2>5. Ev("messageRemoved", inConv[m], m) \in NamedEvent
        BY <2>2, KindsAre, NamedType
    <2>6. out' \in Seq(NamedEvent) /\ out' # <<>>
        BY <2>1, <2>5, ElemsOfPair DEF DeletedMessage
    <2> QED BY <2>u, <2>1, <2>2, <2>3, <2>4, <2>5, <2>6, EventsType DEF Types, Named
<1>9. CASE GiveBack
    <2>u. UNCHANGED <<conversations, inConv, sentTo, cached, idOf, latest, cachedMsgs,
                      events, removing, stage, left, out, thrown, actions, deletes>>
        BY <1>9 DEF GiveBack, caches, app
    <2>1. pc = "posting" /\ pc' = "loop" /\ job' = None /\ sendable' \subseteq Ids
        BY <1>9 DEF GiveBack, Types
    <2> QED BY <2>u, <2>1, EventsType DEF Types, Named
<1> QED
    BY <1>1, <1>2, <1>3, <1>4, <1>5, <1>6, <1>7, <1>8, <1>9 DEF SyncStep

\* What the user does.
UserStep ==
    \/ \E p \in Participants : add(p)
    \/ \E c \in Ids : triggerRemoval(c) \/ latestMessageTimestamp(c) \/ PrepareToSend(c)
    \/ \E m \in Messages : RemoveMessage(m)

LEMMA TypeUser == ASSUME Typed, UserStep PROVE Typed'
<1> USE DEF Typed
<1>1. CASE \E p \in Participants : add(p)
    <2>u. UNCHANGED <<inConv, sentTo, sendable, cached, idOf, latest, cachedMsgs, removing,
                      stage, left, pc, job, out, deletes>>
        BY <1>1 DEF add, caches, app, sync
    <2>1. PICK p \in Participants : add(p)
        BY <1>1
    <2>2. actions' \in 0 .. MaxActions
        BY <2>1, ActsType DEF add
    <2>3. CASE Existing(p) # {}
        <3>1. UNCHANGED <<conversations, events>> /\ thrown' = "add"
            BY <2>1, <2>3 DEF add
        <3>2. thrown' \in Thrown \cup {None}
            BY <3>1 DEF Thrown
        <3> QED BY <2>u, <2>2, <3>1, <3>2, EventsType DEF Types, Named
    <2>4. CASE Existing(p) = {}
        <3>1. /\ NewId \in Ids /\ conversations' = [conversations EXCEPT ![NewId] = p]
              /\ events' = Append(events, Ev("conversationAdded", NewId, 0)) /\ UNCHANGED thrown
            BY <2>1, <2>4 DEF add
        <3>2. events' \in Seq(NamedEvent)
            BY <3>1, KindsAre, NamedType, ElemsOfAppend DEF Named
        <3>3. /\ conversations' \in [Ids -> Participants \cup {None}]
              /\ \A c, d \in Ids : conversations'[c] = conversations'[d] /\ conversations'[c] # None => c = d
            BY <2>4, <3>1, NewRow
        <3> QED BY <2>u, <2>2, <3>1, <3>2, <3>3, EventsType DEF Types, Named
    <2> QED BY <2>3, <2>4
<1>2. CASE \E c \in Ids : triggerRemoval(c)
    <2>u. UNCHANGED <<conversations, inConv, sentTo, sendable, cached, idOf, latest, cachedMsgs,
                      removing, stage, left, pc, job, out, thrown, deletes>>
        BY <1>2 DEF triggerRemoval, tables, caches, app, sync
    <2>1. PICK c \in Ids : triggerRemoval(c)
        BY <1>2
    <2>2. actions' \in 0 .. MaxActions
        BY <2>1, ActsType DEF triggerRemoval
    <2>3. events' \in Seq(NamedEvent)
        BY <2>1, KindsAre, NamedType, ElemsOfAppend DEF triggerRemoval, Named
    <2> QED BY <2>u, <2>1, <2>2, <2>3, EventsType DEF Types, Named
<1>3. CASE \E c \in Ids : latestMessageTimestamp(c)
    <2>u. UNCHANGED <<conversations, inConv, sentTo, sendable, cached, idOf, cachedMsgs, events,
                      removing, stage, left, pc, job, out, thrown, actions, deletes>>
        BY <1>3 DEF latestMessageTimestamp, tables, app, sync
    <2>1. PICK c \in Ids : latestMessageTimestamp(c)
        BY <1>3
    <2>2. latest' \in [Ids -> 0 .. MaxMessages \cup {None}]
        BY <2>1, LatestIsMessage DEF latestMessageTimestamp, Types
    <2> QED BY <2>u, <2>1, <2>2, EventsType DEF Types, Named
<1>4. CASE \E c \in Ids : PrepareToSend(c)
    <2>u. UNCHANGED <<conversations, inConv, sentTo, cached, idOf, latest, cachedMsgs, events,
                      removing, stage, left, pc, job, out, thrown, deletes>>
        BY <1>4 DEF PrepareToSend, caches, app, sync
    <2>1. PICK c \in Ids : PrepareToSend(c)
        BY <1>4
    <2>2. actions' \in 0 .. MaxActions
        BY <2>1, ActsType DEF PrepareToSend
    <2>3. sendable' \subseteq Ids
        BY <2>1 DEF PrepareToSend, Types
    <2> QED BY <2>u, <2>1, <2>2, <2>3, EventsType DEF Types, Named
<1>5. CASE \E m \in Messages : RemoveMessage(m)
    <2>u. UNCHANGED <<conversations, sentTo, sendable, cached, idOf, latest, removing, stage,
                      left, pc, job, out, thrown, deletes>>
        BY <1>5 DEF RemoveMessage, app, sync
    <2>1. PICK m \in Messages : RemoveMessage(m)
        BY <1>5
    <2>2. actions' \in 0 .. MaxActions
        BY <2>1, ActsType DEF RemoveMessage
    <2>3. /\ inConv' = [inConv EXCEPT ![m] = 0] /\ cachedMsgs' = [cachedMsgs EXCEPT ![m] = 0]
          /\ cachedMsgs[m] \in Ids
        BY <2>1, EventsType DEF RemoveMessage, Types
    <2>4. inConv' \in [Messages -> 0 .. MaxId] /\ cachedMsgs' \in [Messages -> 0 .. MaxId]
        BY <2>3, EventsType DEF Types
    <2>5. /\ Ev("conversationModified", cachedMsgs[m], 0) \in NamedEvent
          /\ Ev("messageRemoved", cachedMsgs[m], m) \in NamedEvent
        BY <2>3, KindsAre, NamedType
    <2>6. events' \in Seq(NamedEvent)
        BY <2>1, <2>5, ElemsOfPair, ElemsOfBoth DEF RemoveMessage, Named
    <2> QED BY <2>u, <2>1, <2>2, <2>3, <2>4, <2>5, <2>6, EventsType DEF Types, Named
<1> QED
    BY <1>1, <1>2, <1>3, <1>4, <1>5 DEF UserStep

\* A cancelled sync.
LEMMA TypeOld == ASSUME Typed, OldTypes, OldStep PROVE Typed'
<1> USE DEF Typed
<1>1. CASE Cancel
    <2>u. UNCHANGED <<conversations, inConv, sentTo, sendable, cached, idOf, latest, cachedMsgs,
                      events, removing, stage, left, thrown, actions, deletes>>
        BY <1>1 DEF Cancel, tables, caches, app
    <2>1. pc' = "idle" /\ job' = None /\ out' = <<>>
        BY <1>1 DEF Cancel
    <2> QED BY <2>u, <2>1, EventsType DEF Types, Named
<1>2. CASE OldLeaves
    BY <1>2 DEF OldLeaves, tables, caches, app, Types, Named
<1>3. CASE OldLoads
    <2>u. UNCHANGED <<conversations, inConv, sentTo, sendable, cached, idOf, latest, cachedMsgs,
                      events, removing, stage, left, pc, job, out, actions, deletes>>
        BY <1>3 DEF OldLoads, Overruns, tables, caches, app
    <2>1. thrown' \in Thrown \cup {None}
        BY <1>3 DEF OldLoads, Types, Thrown
    <2> QED BY <2>u, <2>1 DEF Types, Named
<1>4. CASE OldPosts
    <2>u. UNCHANGED <<conversations, cached, idOf, latest, cachedMsgs,
                      events, removing, stage, left, pc, job, out, thrown, actions, deletes>>
        BY <1>4 DEF OldPosts, Overruns, caches, app
    <2>1. old.job \in Job /\ old.job.parts # None
        BY <1>4 DEF OldPosts, Overruns, OldTypes, Old
    <2>2. old.job.conv \in Ids /\ old.job.parts \in Participants
        BY <2>1 DEF Job
    <2>3. /\ inConv' \in [Messages -> 0 .. MaxId]
          /\ sentTo' \in [Messages -> Participants \cup {None}]
        BY <1>4, <2>2, EventsType DEF OldPosts, addMessage, NextMessage, Types
    <2>4. sendable' \subseteq Ids
        BY <1>4 DEF OldPosts, Types
    <2> QED BY <2>u, <2>3, <2>4 DEF Types, Named
<1>5. CASE \E p \in Participants : OldReceives(p)
    <2>u. UNCHANGED <<sendable, cached, idOf, latest, cachedMsgs,
                      events, removing, stage, left, pc, job, out, thrown, actions, deletes>>
        BY <1>5 DEF OldReceives, Overruns, caches, app
    <2>1. PICK p \in Participants, m \in NextMessage, c \in Ids, isNew \in BOOLEAN :
             makeConversation(p, c, isNew) /\ addMessage(m, c, p)
        BY <1>5 DEF OldReceives
    <2>2. /\ inConv' \in [Messages -> 0 .. MaxId]
          /\ sentTo' \in [Messages -> Participants \cup {None}]
        BY <2>1, EventsType DEF addMessage, NextMessage, Types
    <2>3. /\ conversations' \in [Ids -> Participants \cup {None}]
          /\ \A x, y \in Ids : conversations'[x] = conversations'[y] /\ conversations'[x] # None => x = y
        <3>1. CASE UNCHANGED conversations
            BY <3>1 DEF Types
        <3>2. CASE /\ Existing(p) = {} /\ c = NewId
                   /\ conversations' = [conversations EXCEPT ![c] = p]
            BY <3>2, NewRow
        <3> QED BY <2>1, <3>1, <3>2 DEF makeConversation
    <2> QED BY <2>u, <2>2, <2>3 DEF Types, Named
<1>6. CASE \E m \in Messages : OldDeletes(m)
    <2>u. UNCHANGED <<conversations, sentTo, sendable, cached, idOf, latest, cachedMsgs,
                      events, removing, stage, left, pc, job, out, thrown, actions>>
        BY <1>6 DEF OldDeletes, Overruns, caches, app
    <2>1. deletes' \in 0 .. MaxDeletes /\ inConv' \in [Messages -> 0 .. MaxId]
        BY <1>6, ConversationsAssumption, EventsType DEF OldDeletes, Types
    <2> QED BY <2>u, <2>1 DEF Types, Named
<1> QED
    BY <1>1, <1>2, <1>3, <1>4, <1>5, <1>6 DEF OldStep

\* Nobody else touches what a cancelled sync leaves.
LEMMA OldStays == ASSUME AppStep \/ SyncStep \/ UserStep PROVE UNCHANGED <<old, overran>>
<1>1. CASE AppStep
    BY <1>1 DEF AppStep, MessageAdded, MessageRemoved, ConversationAdded, ConversationModified,
            ConversationWillBeRemoved, RemoveNextMessage, RemoveDraft, RemoveConversation, sync
<1>2. CASE SyncStep
    BY <1>2 DEF SyncStep, StartSync, FirstSendable, LoadConversation, Posted, GiveBack, Leave, Emit,
            NewMessage, DeletedMessage, cancelled
<1>3. CASE UserStep
    BY <1>3 DEF UserStep, add, triggerRemoval, latestMessageTimestamp, PrepareToSend, RemoveMessage, sync
<1> QED BY <1>1, <1>2, <1>3

LEMMA StepsAre == Next <=> AppStep \/ SyncStep \/ UserStep \/ OldStep
BY DEF Next, UserStep

LEMMA OldTypesNext == ASSUME Typed, OldTypes, Next PROVE OldTypes' /\ (overran => overran')
<1>1. CASE AppStep \/ SyncStep \/ UserStep
    BY <1>1, OldStays DEF OldTypes
<1>2. CASE Cancel
    <2> DEFINE phase == IF pc \in Phases THEN pc ELSE AfterEmit
    <2>1. old' = [pc |-> phase, job |-> job] /\ overran' = (overran \/ out # <<>>)
        BY <1>2 DEF Cancel
    <2>2. /\ phase \in Phases /\ job \in Job \cup {None}
          /\ phase \in {"loading", "posting"} => pc = phase
          /\ phase \in {"loading", "posting"} => job # None
          /\ phase = "posting" => job.parts # None
        BY DEF Phases, AfterEmit, Typed, Types
    <2> HIDE DEF phase
    <2>3. old' \in Old /\ old'.pc = phase /\ old'.job = job
        BY <2>1, <2>2 DEF Old
    <2>4. overran' \in BOOLEAN /\ (overran => overran')
        BY <2>1, Zenon DEF OldTypes
    <2> QED BY <2>2, <2>3, <2>4 DEF OldTypes
<1>3. CASE OldLeaves
    BY <1>3 DEF OldLeaves, OldTypes
<1>4. CASE OldLoads \/ OldPosts \/ (\E p \in Participants : OldReceives(p))
           \/ \E m \in Messages : OldDeletes(m)
    <2>1. old' = None /\ overran' = TRUE
        BY <1>4 DEF OldLoads, OldPosts, OldReceives, OldDeletes, Overruns
    <2> QED BY <2>1 DEF OldTypes
<1> QED BY <1>1, <1>2, <1>3, <1>4, StepsAre DEF OldStep

LEMMA TypeNext == Typed /\ OldTypes /\ [Next]_vars => Typed' /\ OldTypes' /\ (overran => overran')
<1> SUFFICES ASSUME Typed, OldTypes, [Next]_vars PROVE Typed' /\ OldTypes' /\ (overran => overran')
    OBVIOUS
<1>1. CASE Next
    BY <1>1, StepsAre, OldTypesNext, TypeApp, TypeSync, TypeUser, TypeOld
<1>2. CASE UNCHANGED vars
    BY <1>2 DEF vars, tables, caches, app, sync, Typed, Types, Named, OldTypes
<1> QED BY <1>1, <1>2

\* What a cancelled sync does before it has overrun is to disappear.
LEMMA OldVanishes ==
    ASSUME Typed, OldStep, ~overran'
    PROVE  /\ UNCHANGED <<conversations, inConv, sentTo, sendable, cached, idOf, latest, cachedMsgs,
                          events, removing, stage, left, out, thrown, actions, deletes>>
           /\ \/ pc # "idle" /\ pc' = "idle" /\ job' = None
              \/ UNCHANGED <<pc, job>>
<1>1. CASE Cancel
    <2>1. overran' = (overran \/ out # <<>>) /\ out' = <<>>
        BY <1>1 DEF Cancel
    <2>2. out' = out
        BY <2>1, Zenon
    <2> QED BY <1>1, <2>2 DEF Cancel, tables, caches, app
<1>2. CASE OldLeaves
    BY <1>2 DEF OldLeaves, tables, caches, app
<1>3. CASE OldLoads \/ OldPosts \/ (\E p \in Participants : OldReceives(p))
           \/ \E m \in Messages : OldDeletes(m)
    BY <1>3 DEF OldLoads, OldPosts, OldReceives, OldDeletes, Overruns
<1> QED BY <1>1, <1>2, <1>3 DEF OldStep

\* The variables keep their types, and no two rows of the table have the same
\* participants, whatever the app does and whenever it does it: add() and
\* makeConversation() insert only what is not in the table.
THEOREM TypeCorrect == Spec => []TypeOK
<1>1. Init => Typed /\ OldTypes
    BY TypeInit DEF Init, OldTypes
<1>2. Typed /\ OldTypes /\ [Next]_vars => Typed' /\ OldTypes'
    BY TypeNext
<1>3. Typed /\ OldTypes => TypeOK
    BY TypesAre DEF Typed
<1> QED BY <1>1, <1>2, <1>3, PTL DEF Spec

-----------------------------------------------------------------------------
(* No message outlives its conversation.                                   *)

LEMMA SafeInit == Init => Safe
<1> SUFFICES ASSUME Init PROVE Safe
    OBVIOUS
<1>1. Elems(events) = {} /\ Elems(out) = {}
    BY DEF Init, Elems
<1> QED
    BY <1>1 DEF Init, Safe, Known, Told, Alone, Emptied, Loaded, Matched, Pending

\* What the app's thread knows of the event it handles.
LEMMA HandledEvent ==
    ASSUME Typed, Safe, NEW kind, Handles(kind), UNCHANGED out
    PROVE  /\ Head(events) \in NamedEvent /\ Head(events).kind = kind
           /\ Elems(events) = Elems(events') \cup {Head(events)}
           /\ removing = 0
           /\ kind # "conversationWillBeRemoved" =>
                \A e \in Elems(events) : e.kind # "conversationWillBeRemoved"
           /\ kind = "conversationWillBeRemoved" =>
                Elems(events') = {} /\ Elems(events) = {Head(events)} /\ pc = "idle" /\ out = <<>>
           /\ \A k, m : Pending(k, m)' => Pending(k, m)
           /\ \A k, m : Pending(k, m) /\ (k # kind \/ m # Head(events).msg) => Pending(k, m)'
<1> DEFINE h == Head(events)
<1>1. events \in Seq(NamedEvent) /\ events # <<>> /\ h.kind = kind /\ events' = Tail(events) /\ removing = 0
    BY DEF Handles, Typed, Named
<1>2. /\ h \in NamedEvent /\ h \in Elems(events)
      /\ Elems(events) = Elems(events') \cup {h}
      /\ Len(events) = 1 => events' = <<>> /\ Elems(events) = {h}
    BY <1>1, ElemsOfTail
<1>3. Elems(<<>>) = {}
    BY DEF Elems
<1> HIDE DEF h
<1>4. ASSUME kind # "conversationWillBeRemoved", NEW e \in Elems(events)
      PROVE  e.kind # "conversationWillBeRemoved"
    BY <1>1, <1>2, <1>4 DEF Safe, Alone
<1>5. ASSUME kind = "conversationWillBeRemoved"
      PROVE  Elems(events') = {} /\ Elems(events) = {h} /\ pc = "idle" /\ out = <<>>
    <2>1. Len(events) = 1 /\ pc = "idle"
        BY <1>1, <1>2, <1>5 DEF Safe, Alone
    <2>2. out = <<>>
        BY <2>1 DEF Typed, Types
    <2> QED BY <1>2, <1>3, <2>1, <2>2
<1>6. Elems(out') = Elems(out)
    OBVIOUS
<1>7. \A k, m : Pending(k, m)' => Pending(k, m)
    BY <1>2, <1>6 DEF Pending
<1>8. ASSUME NEW k, NEW m, Pending(k, m), k # kind \/ m # h.msg PROVE Pending(k, m)'
    <2>1. PICK e \in Elems(events) \cup Elems(out) : e.kind = k /\ e.msg = m
        BY <1>8 DEF Pending
    <2>2. e # h
        BY <1>1, <1>8, <2>1
    <2> QED BY <1>2, <1>6, <2>1, <2>2 DEF Pending
<1> QED BY <1>1, <1>2, <1>4, <1>5, <1>7, <1>8 DEF h

\* An event that changes no table and no copy of the messages.
LEMMA SafeOther ==
    ASSUME Typed, Safe, NEW kind \in {"conversationAdded", "conversationModified"}, Handles(kind),
           UNCHANGED <<conversations, inConv, sentTo, cachedMsgs, removing, stage, left, pc, job, out>>
    PROVE  Safe'
<1>1. /\ \A m : Pending("messageRemoved", m)' => Pending("messageRemoved", m)
      /\ \A m : Pending("messageAdded", m) => Pending("messageAdded", m)'
      /\ \A e \in Elems(events') : e.kind # "conversationWillBeRemoved"
      /\ Elems(out') = Elems(out)
    BY HandledEvent
<1>2. Known' /\ Told'
    BY <1>1 DEF Safe, Known, Told
<1>3. Alone'
    BY <1>1 DEF Safe, Alone
<1>4. Emptied' /\ Loaded' /\ Matched'
    BY DEF Safe, Emptied, Loaded, Matched
<1> QED BY <1>2, <1>3, <1>4 DEF Safe

LEMMA SafeApp == ASSUME Typed, Safe, AppStep PROVE Safe'
<1>1. CASE MessageAdded
    <2>1. /\ Handles("messageAdded")
          /\ UNCHANGED <<conversations, inConv, sentTo, removing, stage, left, pc, job, out>>
          /\ cachedMsgs' = [cachedMsgs EXCEPT ![Head(events).msg] = inConv[Head(events).msg]]
        BY <1>1 DEF MessageAdded, tables, app, sync
    <2>2. /\ \A m : Pending("messageRemoved", m)' => Pending("messageRemoved", m)
          /\ \A m : Pending("messageAdded", m) /\ m # Head(events).msg => Pending("messageAdded", m)'
          /\ \A e \in Elems(events') : e.kind # "conversationWillBeRemoved"
          /\ Elems(out') = Elems(out)
        BY <2>1, HandledEvent
    <2>3. \A m \in Messages : cachedMsgs'[m] = IF m = Head(events).msg THEN inConv[m] ELSE cachedMsgs[m]
        BY <2>1 DEF Typed, Types
    <2>4. Known'
        BY <2>1, <2>2, <2>3 DEF Safe, Known
    <2>5. Told'
        BY <2>1, <2>2, <2>3 DEF Safe, Told
    <2>6. Alone'
        BY <2>1, <2>2 DEF Safe, Alone
    <2>7. Emptied' /\ Loaded' /\ Matched'
        BY <2>1 DEF Safe, Emptied, Loaded, Matched
    <2> QED BY <2>4, <2>5, <2>6, <2>7 DEF Safe
<1>2. CASE MessageRemoved
    <2>1. /\ Handles("messageRemoved")
          /\ UNCHANGED <<conversations, inConv, sentTo, removing, stage, left, pc, job, out>>
          /\ cachedMsgs' = [cachedMsgs EXCEPT ![Head(events).msg] = 0]
        BY <1>2 DEF MessageRemoved, tables, app, sync
    <2>2. /\ \A m : Pending("messageRemoved", m)' => Pending("messageRemoved", m)
          /\ \A m : Pending("messageAdded", m) => Pending("messageAdded", m)'
          /\ \A e \in Elems(events') : e.kind # "conversationWillBeRemoved"
          /\ Elems(out') = Elems(out)
        BY <2>1, HandledEvent
    <2>3. \A m \in Messages : cachedMsgs'[m] = IF m = Head(events).msg THEN 0 ELSE cachedMsgs[m]
        BY <2>1 DEF Typed, Types
    <2>4. Pending("messageRemoved", Head(events).msg)
        BY <2>1, HandledEvent DEF Pending
    <2>5. Known'
        BY <2>1, <2>2, <2>3 DEF Safe, Known
    <2>6. Told'
        BY <2>1, <2>2, <2>3, <2>4 DEF Safe, Told
    <2>7. Alone'
        BY <2>1, <2>2 DEF Safe, Alone
    <2>8. Emptied' /\ Loaded' /\ Matched'
        BY <2>1 DEF Safe, Emptied, Loaded, Matched
    <2> QED BY <2>5, <2>6, <2>7, <2>8 DEF Safe
<1>3. CASE ConversationAdded
    BY <1>3, SafeOther DEF ConversationAdded, tables, app, sync
<1>4. CASE ConversationModified
    BY <1>4, SafeOther DEF ConversationModified, tables, app, sync
<1>5. CASE ConversationWillBeRemoved
    <2>1. /\ Handles("conversationWillBeRemoved")
          /\ UNCHANGED <<conversations, inConv, sentTo, cachedMsgs, pc, job, out>>
          /\ removing' = Head(events).conv /\ stage' = "messages"
          /\ left' = {m \in Messages : cachedMsgs[m] = Head(events).conv}
        BY <1>5 DEF ConversationWillBeRemoved, tables, caches, sync
    <2>2. /\ Elems(events) = {Head(events)} /\ Elems(events') = {} /\ pc = "idle" /\ out = <<>>
          /\ Head(events) \in NamedEvent /\ Head(events).kind = "conversationWillBeRemoved"
        BY <2>1, HandledEvent
    <2>3. Elems(out) = {} /\ Elems(out') = {} /\ Head(events).conv # 0
        BY <2>1, <2>2 DEF Elems, NamedEvent
    <2>4. \A k, m : ~Pending(k, m)'
        BY <2>2, <2>3 DEF Pending
    <2>5. \A m : ~Pending("messageAdded", m)
        BY <2>2, <2>3 DEF Pending
    <2>6. \A m \in Messages : inConv[m] # 0 => cachedMsgs[m] = inConv[m]
        BY <2>5 DEF Safe, Told
    <2>7. Known'
        BY <2>1, <2>3, <2>4 DEF Safe, Known
    <2>8. Told'
        BY <2>1, <2>4, <2>6 DEF Told
    <2>9. Alone'
        BY <2>2, <2>3 DEF Alone
    <2>10. Emptied'
        BY <2>1, <2>2, <2>3, <2>6 DEF Emptied
    <2>11. Loaded' /\ Matched'
        BY <2>1 DEF Safe, Loaded, Matched
    <2> QED BY <2>7, <2>8, <2>9, <2>10, <2>11 DEF Safe
<1>6. CASE RemoveNextMessage
    <2>1. /\ stage = "messages" /\ removing # 0 /\ removing \in Ids
          /\ UNCHANGED <<conversations, sentTo, removing, pc, job, out>>
        BY <1>6, EventsType DEF RemoveNextMessage, sync, Typed, Types
    <2>2. pc = "idle" /\ \A m \in Messages : inConv[m] = removing => m \in left
        BY <2>1 DEF Safe, Emptied
    <2>3. \A e \in Elems(events) : e.kind # "conversationWillBeRemoved"
        BY <2>1 DEF Safe, Alone
    <2>4. CASE left = {}
        <3>1. UNCHANGED <<left, cachedMsgs, inConv, events>> /\ stage' = "draft"
            BY <1>6, <2>4 DEF RemoveNextMessage
        <3>2. \A k, m : Pending(k, m)' <=> Pending(k, m)
            BY <2>1, <3>1 DEF Pending
        <3>3. Known' /\ Told'
            BY <2>1, <3>1, <3>2 DEF Safe, Known, Told
        <3>4. Alone'
            BY <2>1, <3>1 DEF Safe, Alone
        <3>5. Emptied' /\ Loaded' /\ Matched'
            BY <2>1, <2>2, <2>4, <3>1 DEF Safe, Emptied, Loaded, Matched
        <3> QED BY <3>3, <3>4, <3>5 DEF Safe
    <2>5. CASE left # {}
        <3>1. left \subseteq Messages /\ left \subseteq Nat
            BY ConversationsAssumption DEF Typed, Types, Messages
        <3>2. PICK n \in left : n = Min(left)
            BY <2>5, <3>1, SmallestOf
        <3>3. /\ left' = left \ {n} /\ cachedMsgs' = [cachedMsgs EXCEPT ![n] = 0]
              /\ inConv' = [inConv EXCEPT ![n] = 0] /\ stage' = "messages"
              /\ events' = Append(events, Ev("messageRemoved", removing, n))
            BY <1>6, <2>1, <2>5, <3>2 DEF RemoveNextMessage
        <3>4. /\ Ev("messageRemoved", removing, n) \in NamedEvent
              /\ Ev("messageRemoved", removing, n).kind = "messageRemoved"
              /\ Ev("messageRemoved", removing, n).msg = n
            BY <2>1, <3>1, KindsAre, NamedType
        <3>5. Elems(events') = Elems(events) \cup {Ev("messageRemoved", removing, n)}
            BY <3>3, <3>4, ElemsOfAppend DEF Typed, Named
        <3>6. /\ \A m : Pending("messageRemoved", m)' => Pending("messageRemoved", m) \/ m = n
              /\ \A m : Pending("messageAdded", m) => Pending("messageAdded", m)'
            BY <2>1, <3>4, <3>5 DEF Pending
        <3>7. \A m \in Messages : /\ inConv'[m] = IF m = n THEN 0 ELSE inConv[m]
                                  /\ cachedMsgs'[m] = IF m = n THEN 0 ELSE cachedMsgs[m]
            BY <3>3 DEF Typed, Types
        <3>8. Known'
            BY <2>1, <3>1, <3>3, <3>6, <3>7 DEF Safe, Known
        <3>9. Told'
            BY <3>6, <3>7 DEF Safe, Told
        <3>10. Alone'
            BY <2>1, <2>3, <3>4, <3>5 DEF Safe, Alone
        <3>11. Emptied'
            BY <2>1, <2>2, <3>3, <3>7 DEF Emptied
        <3>12. Loaded' /\ Matched'
            BY <2>1, <3>7 DEF Safe, Loaded, Matched
        <3> QED BY <3>8, <3>9, <3>10, <3>11, <3>12 DEF Safe
    <2> QED BY <2>4, <2>5
<1>7. CASE RemoveDraft
    <2>1. /\ stage = "draft" /\ stage' = "conversation"
          /\ UNCHANGED <<conversations, inConv, sentTo, cachedMsgs, events, removing, left, pc, job, out>>
        BY <1>7 DEF RemoveDraft, caches, sync
    <2>2. Known' /\ Told'
        BY <2>1 DEF Safe, Known, Told, Pending
    <2>3. Alone' /\ Emptied' /\ Loaded' /\ Matched'
        BY <2>1 DEF Safe, Alone, Emptied, Loaded, Matched
    <2> QED BY <2>2, <2>3 DEF Safe
<1>8. CASE RemoveConversation
    <2>1. /\ stage = "conversation" /\ removing # 0 /\ removing' = 0 /\ stage' = "none"
          /\ UNCHANGED <<inConv, sentTo, cachedMsgs, events, left, pc, job, out>>
          /\ UNCHANGED conversations \/ conversations' = [conversations EXCEPT ![removing] = None]
        BY <1>8 DEF RemoveConversation, sync, Typed, Types
    <2>2. pc = "idle" /\ \A m \in Messages : inConv[m] # removing
        BY <2>1 DEF Safe, Emptied
    <2>3. Known' /\ Told'
        BY <2>1 DEF Safe, Known, Told, Pending
    <2>4. Alone' /\ Emptied' /\ Loaded'
        BY <2>1, <2>2 DEF Safe, Alone, Emptied, Loaded
    <2>5. \A c \in Ids : c # removing => conversations'[c] = conversations[c]
        BY <2>1 DEF Typed, Types
    <2>6. \A m \in Messages : inConv[m] # 0 => inConv[m] \in Ids
        BY EventsType DEF Typed, Types
    <2>7. Matched'
        BY <2>1, <2>2, <2>5, <2>6 DEF Safe, Matched
    <2> QED BY <2>3, <2>4, <2>7 DEF Safe
<1> QED
    BY <1>1, <1>2, <1>3, <1>4, <1>5, <1>6, <1>7, <1>8 DEF AppStep

\* While a sync runs nothing is being removed.
LEMMA SyncAlone ==
    ASSUME Safe, pc # "idle"
    PROVE  removing = 0 /\ \A e \in Elems(events) : e.kind # "conversationWillBeRemoved"
BY DEF Safe, Alone, Emptied

\* A step of the sync that writes nothing.
LEMMA SafeReading ==
    ASSUME Safe, pc # "idle", Loaded',
           UNCHANGED <<conversations, inConv, sentTo, cachedMsgs, events, out, removing, stage, left>>
    PROVE  Safe'
<1>1. removing = 0 /\ \A e \in Elems(events) : e.kind # "conversationWillBeRemoved"
    BY SyncAlone
<1>2. Known' /\ Told'
    BY DEF Safe, Known, Told, Pending
<1>3. Alone' /\ Emptied' /\ Matched'
    BY <1>1 DEF Safe, Alone, Emptied, Matched
<1> QED BY <1>2, <1>3 DEF Safe

\* A message that is added to the conversation of the people it is from or to.
LEMMA SafeAdding ==
    ASSUME Typed, Safe, NEW m \in NextMessage, NEW c \in Ids, NEW p \in Participants,
           NEW isNew \in BOOLEAN, Adds(m, c, p, isNew),
           pc # "idle", pc' \notin {"idle", "posting"}, out = <<>>,
           conversations'[c] = p,
           \A x \in Ids : conversations[x] # None => conversations'[x] = conversations[x],
           UNCHANGED <<cachedMsgs, events, removing, stage, left>>
    PROVE  Safe'
<1>1. removing = 0 /\ \A e \in Elems(events) : e.kind # "conversationWillBeRemoved"
    BY SyncAlone
<1>2. /\ m \in Messages /\ sentTo[m] = None
      /\ inConv' = [inConv EXCEPT ![m] = c] /\ sentTo' = [sentTo EXCEPT ![m] = p]
      /\ Ev("messageAdded", c, m) \in Elems(out')
      /\ \A e \in Elems(out') : e.kind \in {"messageAdded", "conversationAdded", "conversationModified"}
    BY AddMessageType
<1>3. Elems(out) = {} /\ Elems(events') = Elems(events)
    BY DEF Elems
<1>4. Ev("messageAdded", c, m).kind = "messageAdded" /\ Ev("messageAdded", c, m).msg = m
    BY <1>2, KindsAre, NamedType
<1>5. /\ \A n : Pending("messageRemoved", n)' => Pending("messageRemoved", n)
      /\ \A n : Pending("messageAdded", n) => Pending("messageAdded", n)'
      /\ Pending("messageAdded", m)'
    BY <1>2, <1>3, <1>4 DEF Pending
<1>6. p # None /\ c # 0
    BY ConversationsAssumption, EventsType
<1>7. \A n \in Messages : /\ inConv'[n] = IF n = m THEN c ELSE inConv[n]
                          /\ sentTo'[n] = IF n = m THEN p ELSE sentTo[n]
    BY <1>2 DEF Typed, Types
<1>8. Known'
    BY <1>5, <1>6, <1>7 DEF Safe, Known
<1>9. ~Pending("messageRemoved", m)
    BY <1>2 DEF Safe, Known
<1>10. Told'
    BY <1>5, <1>7, <1>9 DEF Safe, Told
<1>11. Alone'
    BY <1>1, <1>2, <1>3 DEF Alone
<1>12. Emptied' /\ Loaded'
    BY <1>1 DEF Emptied, Loaded
<1>13. \A n \in Messages : inConv[n] # 0 =>
          inConv[n] \in Ids /\ sentTo[n] # None /\ conversations[inConv[n]] = sentTo[n]
    BY EventsType DEF Safe, Known, Matched, Typed, Types
<1>14. Matched'
    BY <1>7, <1>13 DEF Matched
<1> QED BY <1>8, <1>10, <1>11, <1>12, <1>14 DEF Safe

LEMMA SafeSync == ASSUME Typed, Safe, ~Hasty, SyncStep PROVE Safe'
<1>1. CASE StartSync
    <2>1. /\ removing = 0 /\ pc = "idle" /\ pc' = "loop"
          /\ \A i \in DOMAIN events : events[i].kind # "conversationWillBeRemoved"
          /\ UNCHANGED <<conversations, inConv, sentTo, cachedMsgs, events, out, removing, stage, left>>
        BY <1>1 DEF StartSync, tables, caches, app
    <2>2. \A e \in Elems(events) : e.kind # "conversationWillBeRemoved"
        BY <2>1 DEF Elems
    <2>3. Known' /\ Told'
        BY <2>1 DEF Safe, Known, Told, Pending
    <2>4. Alone' /\ Emptied' /\ Loaded' /\ Matched'
        BY <2>1, <2>2 DEF Safe, Alone, Emptied, Loaded, Matched
    <2> QED BY <2>3, <2>4 DEF Safe
<1>2. CASE FirstSendable
    <2>1. pc = "loop" /\ pc' \in {"inbox", "loading"}
        BY <1>2 DEF FirstSendable
    <2> QED BY <1>2, <2>1, SafeReading DEF FirstSendable, tables, caches, app, Loaded
<1>3. CASE LoadConversation
    <2>1. pc = "loading" /\ job \in Job
        BY <1>3 DEF LoadConversation, Typed, Types
    <2>2. Loaded'
        BY <1>3, <2>1 DEF LoadConversation, tables, Loaded, Job
    <2> QED BY <1>3, <2>1, <2>2, SafeReading DEF LoadConversation, tables, caches, app
<1>4. CASE Posted
    <2>1. /\ pc = "posting" /\ pc' = "emitSent"
          /\ UNCHANGED <<conversations, cachedMsgs, events, removing, stage, left>>
        BY <1>4 DEF Posted, caches, app
    <2>2. /\ job.conv \in Ids /\ job.parts \in Participants
          /\ \E m \in NextMessage : Adds(m, job.conv, job.parts, FALSE)
        BY <1>4, PostedMeans
    <2>3. out = <<>>
        BY <2>1 DEF Typed, Types
    <2>4. conversations'[job.conv] = job.parts
        BY <2>1 DEF Safe, Loaded
    <2> QED BY <2>1, <2>2, <2>3, <2>4, SafeAdding
<1>5. CASE Leave
    <2>1. pc # "idle" /\ pc' = "idle"
        BY <1>5 DEF Leave
    <2> QED BY <1>5, <2>1, SafeReading DEF Leave, tables, caches, app, Loaded
<1>6. CASE Emit
    <2>1. /\ pc \in {"emitSent", "emitNew"} /\ pc' \in {"loop", "inbox"}
          /\ events' = events \o out /\ out' = <<>>
          /\ UNCHANGED <<conversations, inConv, sentTo, cachedMsgs, removing, stage, left>>
        BY <1>6 DEF Emit, AfterEmit, tables, caches, app
    <2>2. removing = 0 /\ \A e \in Elems(events) : e.kind # "conversationWillBeRemoved"
        BY <2>1, SyncAlone
    <2>3. Elems(events') = Elems(events) \cup Elems(out)
        BY <2>1, ElemsOfBoth DEF Typed, Named
    <2>4. Elems(out') = {}
        BY <2>1 DEF Elems
    <2>5. \A k, m : Pending(k, m)' <=> Pending(k, m)
        BY <2>3, <2>4 DEF Pending
    <2>6. Known' /\ Told'
        BY <2>1, <2>5 DEF Safe, Known, Told
    <2>7. Alone'
        BY <2>2, <2>3, <2>4 DEF Safe, Alone
    <2>8. Emptied' /\ Loaded' /\ Matched'
        BY <2>1, <2>2 DEF Safe, Emptied, Loaded, Matched
    <2> QED BY <2>6, <2>7, <2>8 DEF Safe
<1>7. CASE \E p \in Participants : NewMessage(p)
    <2>1. PICK p \in Participants : NewMessage(p)
        BY <1>7
    <2>2. /\ pc = "inbox" /\ pc' = "emitNew"
          /\ UNCHANGED <<cachedMsgs, events, removing, stage, left>>
        BY <2>1 DEF NewMessage, caches, app
    <2>3. out = <<>>
        BY <2>2 DEF Typed, Types
    <2>4. PICK m \in NextMessage, c \in Ids, isNew \in BOOLEAN :
              /\ Adds(m, c, p, isNew) /\ conversations'[c] = p
              /\ \A x \in Ids : conversations[x] # None => conversations'[x] = conversations[x]
        BY <2>1, NewMessageMeans
    <2> QED BY <2>2, <2>3, <2>4, SafeAdding
<1>8. CASE \E m \in Messages : DeletedMessage(m)
    <2>1. PICK m \in Messages : DeletedMessage(m)
        BY <1>8
    <2>2. /\ pc = "inbox" /\ pc' = "emitNew" /\ inConv[m] \in Ids /\ inConv[m] # 0
          /\ inConv' = [inConv EXCEPT ![m] = 0]
          /\ out' = <<Ev("messageRemoved", inConv[m], m)>>
          /\ UNCHANGED <<conversations, sentTo, cachedMsgs, events, removing, stage, left>>
        BY <2>1, EventsType DEF DeletedMessage, caches, app, Typed, Types
    <2>3. removing = 0 /\ \A e \in Elems(events) : e.kind # "conversationWillBeRemoved"
        BY <2>2, SyncAlone
    <2>4. out = <<>> /\ Elems(out) = {} /\ Elems(events') = Elems(events)
        BY <2>2 DEF Typed, Types, Elems
    <2>5. /\ Ev("messageRemoved", inConv[m], m) \in NamedEvent
          /\ Ev("messageRemoved", inConv[m], m).kind = "messageRemoved"
          /\ Ev("messageRemoved", inConv[m], m).msg = m
        BY <2>2, KindsAre, NamedType
    <2>6. Elems(out') = {Ev("messageRemoved", inConv[m], m)}
        BY <2>2, <2>5, ElemsOfPair
    <2>7. /\ \A n : Pending("messageRemoved", n)' => Pending("messageRemoved", n) \/ n = m
          /\ \A n : Pending("messageAdded", n) => Pending("messageAdded", n)'
        BY <2>4, <2>5, <2>6 DEF Pending
    <2>8. \A n \in Messages : inConv'[n] = IF n = m THEN 0 ELSE inConv[n]
        BY <2>2 DEF Typed, Types
    <2>9. Known'
        BY <2>2, <2>7, <2>8 DEF Safe, Known
    <2>10. Told'
        BY <2>2, <2>7, <2>8 DEF Safe, Told
    <2>11. Alone'
        BY <2>3, <2>4, <2>5, <2>6 DEF Alone
    <2>12. Emptied' /\ Loaded' /\ Matched'
        BY <2>2, <2>3, <2>8 DEF Safe, Emptied, Loaded, Matched
    <2> QED BY <2>9, <2>10, <2>11, <2>12 DEF Safe
<1>9. CASE GiveBack
    <2>1. pc # "idle" /\ pc' = "loop"
        BY <1>9 DEF GiveBack
    <2> QED BY <1>9, <2>1, SafeReading DEF GiveBack, caches, app, Loaded
<1> QED
    BY <1>1, <1>2, <1>3, <1>4, <1>5, <1>6, <1>7, <1>8, <1>9 DEF SyncStep

\* A patient user acts when nothing else is going on.
LEMMA PatientUser ==
    ASSUME Typed, ~Hasty, Acts
    PROVE  /\ pc = "idle" /\ events = <<>> /\ out = <<>> /\ removing = 0
           /\ Elems(events) = {} /\ Elems(out) = {} /\ \A k, m : ~Pending(k, m)
<1>1. pc = "idle" /\ events = <<>> /\ removing = 0
    BY DEF Acts, Quiet
<1>2. out = <<>>
    BY <1>1 DEF Typed, Types
<1>3. Elems(events) = {} /\ Elems(out) = {}
    BY <1>1, <1>2 DEF Elems
<1> QED BY <1>1, <1>2, <1>3 DEF Pending

\* An action that tells of a conversation, and loses none.
LEMMA SafeActing ==
    ASSUME Typed, Safe, ~Hasty, Acts,
           NEW es \in Seq(NamedEvent), events' = events \o es,
           \A e \in Elems(es) :
              e.kind \in {"conversationAdded", "conversationModified"}
              \/ (e.kind = "conversationWillBeRemoved" /\ Len(es) = 1),
           \A x \in Ids : conversations[x] # None => conversations'[x] = conversations[x],
           UNCHANGED <<inConv, sentTo, cachedMsgs, removing, stage, left, pc, job, out>>
    PROVE  Safe'
<1>1. /\ pc = "idle" /\ events = <<>> /\ out = <<>> /\ removing = 0
      /\ Elems(out) = {} /\ \A k, m : ~Pending(k, m)
    BY PatientUser
<1>2. events' = es /\ Elems(out') = {}
    BY <1>1, ElemsOfBoth DEF Typed, Named
<1>3. \A m : ~Pending("messageRemoved", m)'
    BY <1>2 DEF Pending
<1>4. Known' /\ Told'
    BY <1>1, <1>3 DEF Safe, Known, Told
<1>5. Alone' /\ Emptied' /\ Loaded'
    BY <1>1, <1>2 DEF Alone, Emptied, Loaded
<1>6. \A n \in Messages : inConv[n] # 0 =>
          inConv[n] \in Ids /\ sentTo[n] # None /\ conversations[inConv[n]] = sentTo[n]
    BY EventsType DEF Safe, Known, Matched, Typed, Types
<1>7. Matched'
    BY <1>6 DEF Matched
<1> QED BY <1>4, <1>5, <1>7 DEF Safe

\* The first event of a queue.
LEMMA FirstEvent ==
    ASSUME NEW e \in NamedEvent
    PROVE  /\ <<e>> \in Seq(NamedEvent) /\ Elems(<<e>>) = {e} /\ Len(<<e>>) = 1
           /\ Append(<<>>, e) = <<>> \o <<e>>
<1>1. <<>> \in Seq(NamedEvent)
    OBVIOUS
<1>2. <<e>> \in Seq(NamedEvent) /\ Elems(<<e>>) = {e} /\ Len(<<e>>) = 1
    BY ElemsOfPair
<1>3. Append(<<>>, e) = <<e>>
    OBVIOUS
<1>4. <<>> \o <<e>> = <<e>>
    BY <1>1, <1>2, ConcatEmptySeq
<1> QED BY <1>2, <1>3, <1>4

LEMMA SafeUser == ASSUME Typed, Safe, ~Hasty, UserStep PROVE Safe'
<1>a. events \in Seq(NamedEvent) /\ <<>> \in Seq(NamedEvent) /\ Elems(<<>>) = {}
    BY DEF Typed, Named, Elems
<1>1. CASE \E p \in Participants : add(p)
    <2>1. PICK p \in Participants : add(p)
        BY <1>1
    <2>2. /\ Acts /\ events = <<>>
          /\ UNCHANGED <<inConv, sentTo, cachedMsgs, removing, stage, left, pc, job, out>>
        BY <2>1, PatientUser DEF add, caches, app, sync
    <2>3. CASE Existing(p) # {}
        <3>1. UNCHANGED conversations /\ events' = events \o <<>>
            BY <1>a, <2>1, <2>2, <2>3, ElemsOfBoth DEF add
        <3> QED BY <1>a, <2>2, <3>1, SafeActing
    <2>4. CASE Existing(p) = {}
        <3>a. PICK e : e = Ev("conversationAdded", NewId, 0)
            OBVIOUS
        <3>1. /\ NewId \in Ids /\ conversations' = [conversations EXCEPT ![NewId] = p]
              /\ events' = Append(events, e)
            BY <2>1, <2>4, <3>a DEF add
        <3>2. e \in NamedEvent /\ e.kind = "conversationAdded"
            BY <3>a, <3>1, KindsAre, NamedType
        <3>3. \A x \in Ids : conversations[x] # None => conversations'[x] = conversations[x]
            BY <2>4, <3>1, NewRow DEF Typed
        <3>4. events' = events \o <<e>> /\ <<e>> \in Seq(NamedEvent) /\ Elems(<<e>>) = {e}
            BY <2>2, <3>1, <3>2, FirstEvent
        <3> QED BY <2>2, <3>2, <3>3, <3>4, SafeActing
    <2> QED BY <2>3, <2>4
<1>2. CASE \E c \in Ids : triggerRemoval(c)
    <2>1. PICK c \in Ids : triggerRemoval(c)
        BY <1>2
    <2>a. PICK e : e = Ev("conversationWillBeRemoved", c, 0)
        OBVIOUS
    <2>2. /\ Acts /\ events = <<>> /\ events' = Append(events, e)
          /\ UNCHANGED <<conversations, inConv, sentTo, cachedMsgs, removing, stage, left, pc, job, out>>
        BY <2>1, <2>a, PatientUser DEF triggerRemoval, tables, caches, app, sync
    <2>3. e \in NamedEvent /\ e.kind = "conversationWillBeRemoved"
        BY <2>a, KindsAre, NamedType
    <2>4. /\ events' = events \o <<e>> /\ <<e>> \in Seq(NamedEvent) /\ Elems(<<e>>) = {e}
          /\ Len(<<e>>) = 1
        BY <2>2, <2>3, FirstEvent
    <2> QED BY <2>2, <2>3, <2>4, SafeActing
<1>3. CASE \E c \in Ids : latestMessageTimestamp(c)
    <2>1. UNCHANGED <<conversations, inConv, sentTo, cachedMsgs, events, removing, stage, left, pc, job, out>>
        BY <1>3 DEF latestMessageTimestamp, tables, app, sync
    <2>2. Known' /\ Told'
        BY <2>1 DEF Safe, Known, Told, Pending
    <2>3. Alone' /\ Emptied' /\ Loaded' /\ Matched'
        BY <2>1 DEF Safe, Alone, Emptied, Loaded, Matched
    <2> QED BY <2>2, <2>3 DEF Safe
<1>4. CASE \E c \in Ids : PrepareToSend(c)
    <2>1. /\ Acts
          /\ UNCHANGED <<conversations, inConv, sentTo, cachedMsgs, events, removing, stage, left, pc, job, out>>
        BY <1>4 DEF PrepareToSend, caches, app, sync
    <2>2. events' = events \o <<>>
        BY <1>a, <2>1, PatientUser, ElemsOfBoth
    <2> QED BY <1>a, <2>1, <2>2, SafeActing
<1>5. CASE \E m \in Messages : RemoveMessage(m)
    <2>1. PICK m \in Messages : RemoveMessage(m)
        BY <1>5
    <2>a. PICK e : e = Ev("conversationModified", cachedMsgs[m], 0)
        OBVIOUS
    <2>b. PICK f : f = Ev("messageRemoved", cachedMsgs[m], m)
        OBVIOUS
    <2>2. /\ Acts /\ cachedMsgs[m] # 0 /\ cachedMsgs[m] \in Ids
          /\ cachedMsgs' = [cachedMsgs EXCEPT ![m] = 0]
          /\ inConv' = [inConv EXCEPT ![m] = 0]
          /\ events' = events \o <<e, f>>
          /\ UNCHANGED <<conversations, sentTo, removing, stage, left, pc, job, out>>
        BY <2>1, <2>a, <2>b, EventsType DEF RemoveMessage, app, sync, Typed, Types
    <2>3. /\ pc = "idle" /\ events = <<>> /\ removing = 0
          /\ Elems(out) = {} /\ \A k, n : ~Pending(k, n)
        BY <2>2, PatientUser
    <2>4. /\ e \in NamedEvent /\ e.kind = "conversationModified"
          /\ f \in NamedEvent /\ f.kind = "messageRemoved" /\ f.msg = m
        BY <2>2, <2>a, <2>b, KindsAre, NamedType
    <2>5. Elems(events') = {e, f} /\ Elems(out') = {}
        <3>1. <<e, f>> \in Seq(NamedEvent) /\ Elems(<<e, f>>) = {e, f}
            BY <2>4, PairOfEvents, Zenon
        <3>2. events' = <<e, f>> /\ out' = out
            BY <2>2, <2>3, <3>1, ConcatEmptySeq
        <3> QED BY <2>3, <3>1, <3>2
    <2>6. \A n : Pending("messageRemoved", n)' => n = m
        BY <2>4, <2>5 DEF Pending
    <2>7. \A n \in Messages : /\ inConv'[n] = IF n = m THEN 0 ELSE inConv[n]
                              /\ cachedMsgs'[n] = IF n = m THEN 0 ELSE cachedMsgs[n]
        BY <2>2 DEF Typed, Types
    <2>8. Known'
        BY <2>2, <2>6, <2>7 DEF Safe, Known
    <2>9. Told'
        BY <2>3, <2>6, <2>7 DEF Safe, Told
    <2>10. Alone'
        BY <2>4, <2>5 DEF Alone
    <2>11. Emptied' /\ Loaded' /\ Matched'
        BY <2>2, <2>3, <2>7 DEF Safe, Emptied, Loaded, Matched
    <2> QED BY <2>8, <2>9, <2>10, <2>11 DEF Safe
<1> QED
    BY <1>1, <1>2, <1>3, <1>4, <1>5 DEF UserStep

Patient == ~Hasty /\ Typed /\ Safe

LEMMA PatientNext == Patient /\ OldTypes /\ [Next]_vars /\ ~overran' => Patient'
<1> SUFFICES ASSUME Patient, OldTypes, [Next]_vars, ~overran' PROVE Safe'
    BY TypeNext DEF Patient
<1> USE DEF Patient
<1>1. CASE Next
    <2>1. CASE OldStep
        <3>1. /\ UNCHANGED <<conversations, inConv, sentTo, cachedMsgs, events, removing, stage, left, out>>
              /\ \/ pc # "idle" /\ pc' = "idle"
                 \/ UNCHANGED <<pc, job>>
            BY <2>1, OldVanishes
        <3>2. CASE pc # "idle" /\ pc' = "idle"
            BY <3>1, <3>2, SafeReading DEF Loaded
        <3>3. CASE UNCHANGED <<pc, job>>
            <4>1. Known' /\ Told'
                BY <3>1 DEF Safe, Known, Told, Pending
            <4>2. Alone' /\ Emptied' /\ Loaded' /\ Matched'
                BY <3>1, <3>3 DEF Safe, Alone, Emptied, Loaded, Matched
            <4> QED BY <4>1, <4>2 DEF Safe
        <3> QED BY <3>1, <3>2, <3>3
    <2> QED BY <1>1, <2>1, StepsAre, SafeApp, SafeSync, SafeUser
<1>2. CASE UNCHANGED vars
    <2>1. UNCHANGED <<conversations, inConv, sentTo, cachedMsgs, events, removing, stage, left, pc, job, out>>
        BY <1>2 DEF vars, tables, caches, app, sync
    <2>2. Known' /\ Told'
        BY <2>1 DEF Safe, Known, Told, Pending
    <2>3. Alone' /\ Emptied' /\ Loaded' /\ Matched'
        BY <2>1 DEF Safe, Alone, Emptied, Loaded, Matched
    <2> QED BY <2>2, <2>3 DEF Safe
<1> QED BY <1>1, <1>2

\* Until a cancelled sync has gone on.
SoFar(P) == Typed /\ OldTypes /\ (overran \/ P)

\* A message is in the conversation of the people it was exchanged with, if the
\* user acts when no sync runs and all events are handled, and until a cancelled
\* sync has gone on: a removal, in its three transactions, then leaves no message
\* behind whose conversation's id makeConversation() or add() may give away again.
THEOREM RightConversationCorrect == Spec /\ ~Hasty => []RightConversation
<1>1. Init /\ ~Hasty => SoFar(Patient)
    BY TypeInit, SafeInit DEF SoFar, Patient, Init, OldTypes
<1>2. SoFar(Patient) /\ [Next]_vars => SoFar(Patient)'
    BY TypeNext, PatientNext DEF SoFar
<1>3. SoFar(Patient) => RightConversation
    BY DEF SoFar, Patient, Safe, Matched, RightConversation
<1> QED BY <1>1, <1>2, <1>3, PTL DEF Spec

-----------------------------------------------------------------------------
(* The app's caches follow the tables, and nothing throws.  What a cache   *)
(* lacks or has too much of is on its way as an event, each event is about *)
(* a row that is there, and while a conversation is being removed there is *)
(* no event but those of its messages.                                     *)

Waiting(kind, c) == \E e \in Elems(events) \cup Elems(out) : e.kind = kind /\ e.conv = c

\* The row an event is about has not been deleted when the event is handled.
Rowed ==
    \A e \in Elems(events) \cup Elems(out) :
        e.kind \in {"conversationAdded", "conversationModified"} => conversations[e.conv] # None

RowsShown ==
    \A c \in Ids :
        /\ cached[c] \in {None, conversations[c]}
        /\ conversations[c] # None /\ (cached[c] = None \/ idOf[conversations[c]] # c)
                => Waiting("conversationAdded", c)

IdsFound == \A p \in Participants : idOf[p] # 0 => conversations[idOf[p]] = p

\* Told says when the app may lack a message; this, when it may have too many.
Untold ==
    \A m \in Messages : cachedMsgs[m] # 0 =>
        cachedMsgs[m] = inConv[m] \/ Pending("messageRemoved", m)

LatestFollows ==
    \A c \in Ids :
        /\ conversations[c] = None => latest[c] = None
        /\ deletes = 0 => \/ latest[c] \in {None, LatestOf(c)}
                          \/ Waiting("conversationModified", c)
                          \/ removing = c

InRemoval ==
    removing # 0 =>
        /\ \A e \in Elems(events) : e.kind = "messageRemoved"
        /\ stage = "messages" => \A m \in left : inConv[m] = removing
        /\ stage = "conversation" => removing \notin sendable

\* What the uploader finds to send has a conversation.
Uploadable ==
    /\ \A c \in sendable : conversations[c] # None
    /\ pc = "loading" => conversations[job.conv] # None

Synced ==
    /\ Rowed /\ RowsShown /\ IdsFound /\ Untold /\ LatestFollows
    /\ InRemoval /\ Uploadable /\ Unthrown

Attentive == Patient /\ Synced

\* The newest message of a conversation that no message came to or left.
LEMMA LatestSame ==
    ASSUME NEW c, \A m \in Messages : inConv'[m] = c <=> inConv[m] = c
    PROVE  LatestOf(c)' = LatestOf(c)
<1>1. {m \in Messages : inConv'[m] = c} = {m \in Messages : inConv[m] = c}
    OBVIOUS
<1> QED BY <1>1 DEF LatestOf

\* Nothing waits when there are no events and no sync runs.
LEMMA NothingWaits ==
    ASSUME Typed, pc = "idle", events = <<>>
    PROVE  /\ Elems(events) = {} /\ Elems(out) = {} /\ out = <<>>
           /\ \A k, x : ~Pending(k, x) /\ ~Waiting(k, x)
<1>1. out = <<>>
    BY DEF Typed, Types
<1>2. Elems(events) = {} /\ Elems(out) = {}
    BY <1>1 DEF Elems
<1> QED BY <1>1, <1>2 DEF Pending, Waiting

\* What a conversation's entry in the cache is worth.
LEMMA ShownRow ==
    ASSUME Typed, RowsShown, IdsFound, NEW c \in Ids, ~Waiting("conversationAdded", c)
    PROVE  /\ cached[c] = conversations[c]
           /\ \A p \in Participants : idOf[p] = c <=> conversations[c] = p
<1>1. cached[c] = conversations[c]
    BY DEF RowsShown
<1>2. ASSUME NEW p \in Participants, idOf[p] = c PROVE conversations[c] = p
    BY <1>2, EventsType DEF IdsFound
<1>3. ASSUME NEW p \in Participants, conversations[c] = p PROVE idOf[p] = c
    BY <1>3, ConversationsAssumption DEF RowsShown
<1> QED BY <1>1, <1>2, <1>3

\* With all events handled and no sync running, the caches are the tables.
LEMMA QuietAgrees ==
    ASSUME Attentive, pc = "idle", events = <<>>, removing = 0
    PROVE  /\ cached = conversations /\ cachedMsgs = inConv
           /\ \A p \in Participants, c \in Ids : idOf[p] = c <=> conversations[c] = p
           /\ deletes = 0 => \A c \in Ids : latest[c] \in {None, LatestOf(c)}
<1> USE DEF Attentive, Patient, Synced
<1>1. \A k, x : ~Pending(k, x) /\ ~Waiting(k, x)
    BY NothingWaits
<1>2. \A c \in Ids : cached[c] = conversations[c]
                     /\ \A p \in Participants : idOf[p] = c <=> conversations[c] = p
    BY <1>1, ShownRow
<1>3. cached = conversations
    BY <1>2 DEF Typed, Types
<1>4. \A m \in Messages : cachedMsgs[m] = inConv[m]
    BY <1>1 DEF Safe, Told, Untold
<1>5. cachedMsgs = inConv
    BY <1>4 DEF Typed, Types
<1>6. ASSUME deletes = 0, NEW c \in Ids PROVE latest[c] \in {None, LatestOf(c)}
    BY <1>1, <1>6, EventsType DEF LatestFollows
<1> QED BY <1>2, <1>3, <1>5, <1>6

\* What waits while an event is handled.
LEMMA HandledWaiting ==
    ASSUME Typed, Safe, Rowed, NEW kind, Handles(kind), UNCHANGED out
    PROVE  /\ Elems(events') \cup Elems(out') \subseteq Elems(events) \cup Elems(out)
           /\ Head(events).conv \in Ids
           /\ kind \in {"conversationAdded", "conversationModified"}
                => conversations[Head(events).conv] # None
           /\ \A k, c : Waiting(k, c) /\ (k # kind \/ c # Head(events).conv) => Waiting(k, c)'
<1> DEFINE h == Head(events)
<1>1. h \in NamedEvent /\ h.kind = kind /\ Elems(events) = Elems(events') \cup {h}
    BY HandledEvent
<1>2. Elems(out') = Elems(out)
    OBVIOUS
<1>3. h.conv \in Ids
    BY <1>1, EventsType DEF NamedEvent, Event
<1> HIDE DEF h
<1>4. kind \in {"conversationAdded", "conversationModified"} => conversations[h.conv] # None
    BY <1>1 DEF Rowed
<1>5. \A k, c : Waiting(k, c) /\ (k # kind \/ c # h.conv) => Waiting(k, c)'
    BY <1>1, <1>2 DEF Waiting
<1> QED BY <1>1, <1>2, <1>3, <1>4, <1>5 DEF h

\* The handlers of single events.
LEMMA SyncedHandled ==
    ASSUME Attentive,
           MessageAdded \/ MessageRemoved \/ ConversationAdded \/ ConversationModified
    PROVE  Synced'
<1> USE DEF Attentive, Patient
<1>s. Rowed /\ RowsShown /\ IdsFound /\ Untold /\ LatestFollows /\ InRemoval
      /\ Uploadable /\ Unthrown
    BY DEF Synced
<1>1. CASE MessageAdded \/ MessageRemoved
    <2>1. PICK kind \in {"messageAdded", "messageRemoved"} :
            /\ Handles(kind)
            /\ UNCHANGED <<conversations, inConv, sendable, cached, idOf, latest, removing,
                           stage, left, pc, job, out, thrown, deletes>>
            /\ cachedMsgs' = [cachedMsgs EXCEPT ![Head(events).msg] =
                                IF kind = "messageAdded" THEN inConv[Head(events).msg] ELSE 0]
        BY <1>1 DEF MessageAdded, MessageRemoved, tables, app, sync
    <2>2. /\ Elems(events') \cup Elems(out') \subseteq Elems(events) \cup Elems(out)
          /\ \A k, c : Waiting(k, c) /\ k # kind => Waiting(k, c)'
        BY <1>s, <2>1, HandledWaiting
    <2>3. /\ removing = 0
          /\ \A m : Pending("messageRemoved", m) /\ m # Head(events).msg
                => Pending("messageRemoved", m)'
        BY <2>1, HandledEvent
    <2>4. \A m \in Messages : cachedMsgs'[m] =
                IF m = Head(events).msg
                THEN IF kind = "messageAdded" THEN inConv[m] ELSE 0 ELSE cachedMsgs[m]
        BY <2>1 DEF Typed, Types
    <2>5. Rowed' /\ RowsShown' /\ IdsFound'
        BY <1>s, <2>1, <2>2 DEF Rowed, RowsShown, IdsFound
    <2>6. Untold'
        BY <1>s, <2>1, <2>3, <2>4 DEF Untold
    <2>7. \A c \in Ids : LatestOf(c)' = LatestOf(c)
        BY <2>1, LatestSame
    <2>8. LatestFollows'
        BY <1>s, <2>1, <2>2, <2>7 DEF LatestFollows
    <2>9. InRemoval' /\ Uploadable' /\ Unthrown'
        BY <1>s, <2>1, <2>3 DEF InRemoval, Uploadable, Unthrown
    <2> QED BY <2>5, <2>6, <2>8, <2>9 DEF Synced
<1>2. CASE ConversationAdded
    <2> PICK c \in Ids : c = Head(events).conv
        BY <1>s, <1>2, HandledWaiting DEF ConversationAdded, sync
    <2> PICK p \in Participants : p = conversations[c]
        BY <1>s, <1>2, HandledWaiting DEF ConversationAdded, sync, Typed, Types
    <2>1. /\ Handles("conversationAdded") /\ p # None
          /\ UNCHANGED <<conversations, inConv, sendable, latest, cachedMsgs, removing,
                         stage, left, pc, job, out, thrown, deletes>>
          /\ idOf' = [idOf EXCEPT ![p] = c]
          /\ cached' = [cached EXCEPT ![c] = IF @ = None THEN p ELSE @]
        BY <1>2, ConversationsAssumption DEF ConversationAdded, tables, app, sync
    <2>2. /\ Elems(events') \cup Elems(out') \subseteq Elems(events) \cup Elems(out)
          /\ \A k, d : Waiting(k, d) /\ (k # "conversationAdded" \/ d # c) => Waiting(k, d)'
        BY <1>s, <2>1, HandledWaiting
    <2>3. /\ removing = 0
          /\ \A m : Pending("messageRemoved", m) => Pending("messageRemoved", m)'
        BY <2>1, HandledEvent
    <2>4. /\ \A d \in Ids : cached'[d] = IF d = c /\ cached[d] = None THEN p ELSE cached[d]
          /\ \A q \in Participants : idOf'[q] = IF q = p THEN c ELSE idOf[q]
          /\ \A d \in Ids : conversations[d] \in Participants \cup {None}
          /\ \A d \in Ids : conversations[d] = p => d = c
        BY <2>1 DEF Typed, Types
    <2>5. Rowed' /\ IdsFound'
        BY <1>s, <2>1, <2>2, <2>4 DEF Rowed, IdsFound
    <2>6. RowsShown'
        BY <1>s, <2>1, <2>2, <2>4 DEF RowsShown
    <2>7. Untold'
        BY <1>s, <2>1, <2>3 DEF Untold
    <2>8. \A d \in Ids : LatestOf(d)' = LatestOf(d)
        BY <2>1, LatestSame
    <2>9. LatestFollows'
        BY <1>s, <2>1, <2>2, <2>8 DEF LatestFollows
    <2>10. InRemoval' /\ Uploadable' /\ Unthrown'
        BY <1>s, <2>1, <2>3 DEF InRemoval, Uploadable, Unthrown
    <2> QED BY <2>5, <2>6, <2>7, <2>9, <2>10 DEF Synced
<1>3. CASE ConversationModified
    <2> PICK c \in Ids : c = Head(events).conv
        BY <1>s, <1>3, HandledWaiting DEF ConversationModified, sync
    <2>1. /\ Handles("conversationModified") /\ conversations[c] # None
          /\ UNCHANGED <<conversations, inConv, sendable, idOf, cachedMsgs, removing,
                         stage, left, pc, job, out, thrown, deletes>>
          /\ cached' = [cached EXCEPT ![c] = conversations[c]]
          /\ latest' = [latest EXCEPT ![c] = LatestOf(c)]
        BY <1>s, <1>3, HandledWaiting DEF ConversationModified, tables, app, sync
    <2>2. /\ Elems(events') \cup Elems(out') \subseteq Elems(events) \cup Elems(out)
          /\ \A k, d : Waiting(k, d) /\ (k # "conversationModified" \/ d # c) => Waiting(k, d)'
        BY <1>s, <2>1, HandledWaiting
    <2>3. /\ removing = 0
          /\ \A m : Pending("messageRemoved", m) => Pending("messageRemoved", m)'
        BY <2>1, HandledEvent
    <2>4. /\ \A d \in Ids : cached'[d] = IF d = c THEN conversations[d] ELSE cached[d]
          /\ \A d \in Ids : latest'[d] = IF d = c THEN LatestOf(d) ELSE latest[d]
        BY <2>1 DEF Typed, Types
    <2>5. Rowed' /\ RowsShown' /\ IdsFound'
        BY <1>s, <2>1, <2>2, <2>4 DEF Rowed, RowsShown, IdsFound
    <2>6. Untold'
        BY <1>s, <2>1, <2>3 DEF Untold
    <2>7. \A d \in Ids : LatestOf(d)' = LatestOf(d)
        BY <2>1, LatestSame
    <2>8. LatestFollows'
        BY <1>s, <2>1, <2>2, <2>4, <2>7 DEF LatestFollows
    <2>9. InRemoval' /\ Uploadable' /\ Unthrown'
        BY <1>s, <2>1, <2>3 DEF InRemoval, Uploadable, Unthrown
    <2> QED BY <2>5, <2>6, <2>8, <2>9 DEF Synced
<1> QED BY <1>1, <1>2, <1>3

\* The removal of a conversation, from its event to its row.
LEMMA SyncedRemoval ==
    ASSUME Attentive,
           ConversationWillBeRemoved \/ RemoveNextMessage \/ RemoveDraft \/ RemoveConversation
    PROVE  Synced'
<1> USE DEF Attentive, Patient
<1>s. Rowed /\ RowsShown /\ IdsFound /\ Untold /\ LatestFollows /\ InRemoval
      /\ Uploadable /\ Unthrown
    BY DEF Synced
<1>1. CASE ConversationWillBeRemoved
    <2> PICK r \in Ids : r = Head(events).conv
        BY <1>s, <1>1, HandledWaiting DEF ConversationWillBeRemoved, sync
    <2>1. /\ Handles("conversationWillBeRemoved") /\ removing = 0
          /\ UNCHANGED <<conversations, inConv, sendable, cached, idOf, latest, cachedMsgs,
                         pc, job, out, thrown, deletes>>
          /\ removing' = r /\ stage' = "messages"
          /\ left' = {m \in Messages : cachedMsgs[m] = r}
        BY <1>1 DEF ConversationWillBeRemoved, Handles, tables, caches, sync
    <2>2. /\ Elems(events) = {Head(events)} /\ Elems(events') = {} /\ out = <<>>
          /\ Head(events).kind = "conversationWillBeRemoved"
        BY <2>1, HandledEvent
    <2>3. Elems(out) = {} /\ Elems(out') = {}
        BY <2>1, <2>2 DEF Elems
    <2>4. /\ \A m : ~Pending("messageRemoved", m)
          /\ \A c : ~Waiting("conversationAdded", c) /\ ~Waiting("conversationModified", c)
        BY <2>2, <2>3 DEF Pending, Waiting
    <2>5. Rowed' /\ RowsShown' /\ IdsFound'
        BY <1>s, <2>1, <2>2, <2>3, <2>4 DEF Rowed, RowsShown, IdsFound
    <2>6. Untold'
        BY <1>s, <2>1, <2>4 DEF Untold
    <2>7. \A c \in Ids : LatestOf(c)' = LatestOf(c)
        BY <2>1, LatestSame
    <2>8. \A c \in Ids : removing # c
        BY <2>1, EventsType
    <2>9. LatestFollows'
        BY <1>s, <2>1, <2>4, <2>7, <2>8 DEF LatestFollows
    <2>10. \A m \in Messages : cachedMsgs[m] = r => inConv[m] = r
        BY <1>s, <2>4, EventsType DEF Untold
    <2>11. InRemoval'
        BY <2>1, <2>2, <2>10 DEF InRemoval
    <2>12. Uploadable' /\ Unthrown'
        BY <1>s, <2>1 DEF Uploadable, Unthrown
    <2> QED BY <2>5, <2>6, <2>9, <2>11, <2>12 DEF Synced
<1>2. CASE RemoveNextMessage
    <2>1. /\ stage = "messages" /\ removing # 0 /\ removing \in Ids
          /\ UNCHANGED <<conversations, sendable, cached, idOf, latest, removing, pc, job, out,
                         thrown, deletes>>
        BY <1>2, EventsType DEF RemoveNextMessage, sync, Typed, Types
    <2>2. /\ \A e \in Elems(events) : e.kind = "messageRemoved"
          /\ \A m \in left : inConv[m] = removing
        BY <1>s, <2>1 DEF InRemoval
    <2>3. CASE left = {}
        <3>1. UNCHANGED <<left, cachedMsgs, inConv, events>> /\ stage' = "draft"
            BY <1>2, <2>3 DEF RemoveNextMessage
        <3>2. /\ \A k, m : Pending(k, m)' <=> Pending(k, m)
              /\ \A k, m : Waiting(k, m)' <=> Waiting(k, m)
              /\ \A c : LatestOf(c)' = LatestOf(c)
            BY <2>1, <3>1 DEF Pending, Waiting, LatestOf
        <3>3. Rowed' /\ RowsShown' /\ IdsFound' /\ Untold' /\ Uploadable' /\ Unthrown'
            BY <1>s, <2>1, <3>1, <3>2
            DEF Rowed, RowsShown, IdsFound, Untold, Uploadable, Unthrown
        <3>4. LatestFollows'
            BY <1>s, <2>1, <3>2 DEF LatestFollows
        <3>5. InRemoval'
            BY <2>2, <3>1 DEF InRemoval
        <3> QED BY <3>3, <3>4, <3>5 DEF Synced
    <2>4. CASE left # {}
        <3>1. left \subseteq Messages /\ left \subseteq Nat
            BY ConversationsAssumption DEF Typed, Types, Messages
        <3>2. PICK n \in left : n = Min(left)
            BY <2>4, <3>1, SmallestOf
        <3> PICK f : f = Ev("messageRemoved", removing, n)
            OBVIOUS
        <3>3. /\ left' = left \ {n} /\ cachedMsgs' = [cachedMsgs EXCEPT ![n] = 0]
              /\ inConv' = [inConv EXCEPT ![n] = 0] /\ stage' = "messages"
              /\ events' = Append(events, f)
            BY <1>2, <2>1, <2>4, <3>2 DEF RemoveNextMessage
        <3>4. f \in NamedEvent /\ f.kind = "messageRemoved" /\ f.msg = n
            BY <2>1, <3>1, KindsAre, NamedType
        <3>5. Elems(events') = Elems(events) \cup {f} /\ Elems(out') = Elems(out)
            BY <2>1, <3>3, <3>4, ElemsOfAppend DEF Typed, Named
        <3>6. /\ \A k, c : Waiting(k, c) => Waiting(k, c)'
              /\ \A m : Pending("messageRemoved", m) => Pending("messageRemoved", m)'
            BY <3>5 DEF Waiting, Pending
        <3>7. \A m \in Messages : /\ inConv'[m] = IF m = n THEN 0 ELSE inConv[m]
                                  /\ cachedMsgs'[m] = IF m = n THEN 0 ELSE cachedMsgs[m]
            BY <3>3 DEF Typed, Types
        <3>8. Rowed'
            BY <1>s, <2>1, <3>4, <3>5 DEF Rowed
        <3>9. RowsShown' /\ IdsFound' /\ Uploadable' /\ Unthrown'
            BY <1>s, <2>1, <3>6 DEF RowsShown, IdsFound, Uploadable, Unthrown
        <3>10. Untold'
            BY <1>s, <3>6, <3>7 DEF Untold
        <3>11. ASSUME NEW c \in Ids, c # removing PROVE LatestOf(c)' = LatestOf(c)
            <4>1. \A m \in Messages : inConv'[m] = c <=> inConv[m] = c
                BY <2>2, <3>7, <3>11, EventsType
            <4> QED BY <4>1, LatestSame
        <3>12. LatestFollows'
            BY <1>s, <2>1, <3>6, <3>11 DEF LatestFollows
        <3>13. InRemoval'
            BY <2>1, <2>2, <3>1, <3>3, <3>4, <3>5, <3>7 DEF InRemoval
        <3> QED BY <3>8, <3>9, <3>10, <3>12, <3>13 DEF Synced
    <2> QED BY <2>3, <2>4
<1>3. CASE RemoveDraft
    <2>1. /\ stage = "draft" /\ stage' = "conversation" /\ removing # 0
          /\ sendable' = sendable \ {removing}
          /\ UNCHANGED <<conversations, inConv, cached, idOf, latest, cachedMsgs, events,
                         removing, left, pc, job, out, thrown, deletes>>
        BY <1>3 DEF RemoveDraft, caches, sync, Typed, Types
    <2>2. /\ \A k, m : Pending(k, m)' <=> Pending(k, m)
          /\ \A k, m : Waiting(k, m)' <=> Waiting(k, m)
          /\ \A c : LatestOf(c)' = LatestOf(c)
        BY <2>1 DEF Pending, Waiting, LatestOf
    <2>3. Rowed' /\ RowsShown' /\ IdsFound' /\ Untold' /\ Uploadable' /\ Unthrown'
        BY <1>s, <2>1, <2>2 DEF Rowed, RowsShown, IdsFound, Untold, Uploadable, Unthrown
    <2>4. LatestFollows'
        BY <1>s, <2>1, <2>2 DEF LatestFollows
    <2>5. InRemoval'
        BY <1>s, <2>1 DEF InRemoval
    <2> QED BY <2>3, <2>4, <2>5 DEF Synced
<1>4. CASE RemoveConversation
    <2> PICK r \in Ids : r = removing
        BY <1>4, EventsType DEF RemoveConversation, Typed, Types
    <2>1. /\ stage = "conversation" /\ removing' = 0 /\ pc = "idle" /\ out = <<>>
          /\ UNCHANGED <<inConv, sendable, cachedMsgs, events, left, pc, job, out, deletes>>
        BY <1>4, EventsType DEF RemoveConversation, sync, Safe, Emptied, Typed, Types
    <2>2. /\ \A e \in Elems(events) : e.kind = "messageRemoved"
          /\ r \notin sendable /\ Elems(out) = {}
        BY <1>s, <2>1, EventsType DEF InRemoval, Elems
    <2>3. \A c : ~Waiting("conversationAdded", c) /\ ~Waiting("conversationModified", c)
        BY <2>2 DEF Waiting
    <2>4. /\ \A c \in Ids : cached[c] = conversations[c]
          /\ \A c \in Ids, p \in Participants : idOf[p] = c <=> conversations[c] = p
        BY <1>s, <2>3, ShownRow
    <2>5. /\ conversations' = [conversations EXCEPT ![r] = None]
          /\ cached' = [cached EXCEPT ![r] = None]
          /\ \A p \in Participants : idOf'[p] = IF idOf[p] = r THEN 0 ELSE idOf[p]
          /\ latest' = [latest EXCEPT ![r] = None] /\ thrown' = thrown
        <3>1. CASE cached[r] = None
            <4>1. UNCHANGED <<conversations, cached, idOf, latest, thrown>>
                BY <1>4, <3>1 DEF RemoveConversation
            <4>2. latest[r] = None /\ conversations[r] = None
                BY <1>s, <2>4, <3>1 DEF LatestFollows
            <4>3. \A p \in Participants : idOf[p] # r
                BY <2>4, <4>2, ConversationsAssumption
            <4> QED BY <3>1, <4>1, <4>2, <4>3 DEF Typed, Types
        <3>2. CASE cached[r] # None
            <4>1. PICK p \in Participants : p = cached[r]
                BY <3>2 DEF Typed, Types
            <4>2. idOf[p] = r /\ r # 0
                BY <2>4, <4>1, EventsType
            <4>3. /\ conversations' = [conversations EXCEPT ![r] = None]
                  /\ cached' = [cached EXCEPT ![r] = None]
                  /\ idOf' = [idOf EXCEPT ![p] = 0]
                  /\ latest' = [latest EXCEPT ![r] = None] /\ thrown' = thrown
                BY <1>4, <3>2, <4>1, <4>2 DEF RemoveConversation
            <4>4. \A q \in Participants : idOf[q] = r => q = p
                BY <2>4, <4>2
            <4>5. \A q \in Participants : idOf'[q] = IF idOf[q] = r THEN 0 ELSE idOf[q]
                BY <4>2, <4>3, <4>4 DEF Typed, Types
            <4> QED BY <4>3, <4>5
        <3> QED BY <3>1, <3>2
    <2>6. \A c \in Ids : /\ conversations'[c] = IF c = r THEN None ELSE conversations[c]
                         /\ cached'[c] = IF c = r THEN None ELSE cached[c]
                         /\ latest'[c] = IF c = r THEN None ELSE latest[c]
        BY <2>5 DEF Typed, Types
    <2>7. Elems(events') = Elems(events) /\ Elems(out') = {}
        BY <2>1, <2>2
    <2>8. Rowed'
        BY <2>2, <2>7 DEF Rowed
    <2>9. RowsShown'
        <3>1. \A c \in Ids : conversations[c] \in Participants \cup {None}
            BY DEF Typed, Types
        <3> QED BY <2>4, <2>5, <2>6, <3>1 DEF RowsShown
    <2>10. IdsFound'
        <3>1. \A p \in Participants : idOf[p] # 0 => idOf[p] \in Ids
            BY EventsType DEF Typed, Types
        <3> QED BY <1>s, <2>5, <2>6, <3>1 DEF IdsFound
    <2>11. Untold'
        BY <1>s, <2>1 DEF Untold, Pending
    <2>12. \A c \in Ids : LatestOf(c)' = LatestOf(c)
        BY <2>1, LatestSame
    <2>13. LatestFollows'
        BY <1>s, <2>1, <2>3, <2>6, <2>12 DEF LatestFollows
    <2>14. InRemoval' /\ Uploadable' /\ Unthrown'
        BY <1>s, <2>1, <2>2, <2>5, <2>6 DEF InRemoval, Uploadable, Unthrown, Typed, Types
    <2> QED BY <2>8, <2>9, <2>10, <2>11, <2>13, <2>14 DEF Synced
<1> QED BY <1>1, <1>2, <1>3, <1>4

\* A message that is added, with its conversation or to it.
LEMMA SyncedAdding ==
    ASSUME Attentive, NEW m \in NextMessage, NEW c \in Ids, NEW p \in Participants,
           NEW isNew \in BOOLEAN, Adds(m, c, p, isNew),
           pc # "idle", pc' # "loading", out = <<>>,
           conversations[c] = (IF isNew THEN None ELSE p), conversations'[c] = p,
           \A x \in Ids : x # c => conversations'[x] = conversations[x],
           sendable' \subseteq sendable,
           UNCHANGED <<cached, idOf, latest, cachedMsgs, events, removing, stage, left, thrown,
                       deletes>>
    PROVE  Synced'
<1> USE DEF Attentive, Patient
<1>s. Rowed /\ RowsShown /\ IdsFound /\ Untold /\ LatestFollows /\ InRemoval
      /\ Uploadable /\ Unthrown
    BY DEF Synced
<1>1. removing = 0 /\ p # None /\ c # 0 /\ Elems(out) = {} /\ Elems(events') = Elems(events)
    BY SyncAlone, ConversationsAssumption, EventsType DEF Elems
<1>2. /\ m \in Messages /\ sentTo[m] = None
      /\ inConv' = [inConv EXCEPT ![m] = c]
    BY AddMessageType
<1>3. inConv[m] = 0 /\ cachedMsgs[m] = 0
    BY <1>2 DEF Safe, Known
<1> PICK kind : kind = IF isNew THEN "conversationAdded" ELSE "conversationModified"
    OBVIOUS
<1> PICK e, f : e = Ev("messageAdded", c, m) /\ f = Ev(kind, c, 0)
    OBVIOUS
<1>4. /\ e \in NamedEvent /\ e.kind = "messageAdded"
      /\ f \in NamedEvent /\ f.kind = kind /\ f.conv = c
    <2>1. kind \in Kinds
        BY KindsAre
    <2> QED BY <1>2, <2>1, KindsAre, NamedType
<1>5. out' = <<e, f>>
    BY DEF Adds, emitSignals
<1>6. Elems(out') = {e, f}
    BY <1>4, <1>5, PairOfEvents, Zenon
<1>7. /\ \A k, x : Waiting(k, x) => Waiting(k, x)'
      /\ \A k, n : Pending(k, n) => Pending(k, n)'
      /\ Waiting(kind, c)'
    BY <1>1, <1>4, <1>6 DEF Waiting, Pending
<1>8. \A n \in Messages : inConv'[n] = IF n = m THEN c ELSE inConv[n]
    BY <1>2 DEF Typed, Types
<1>9. \A x \in Ids : conversations[x] # None => conversations'[x] = conversations[x]
    OBVIOUS
<1>10. Rowed'
    <2>1. ASSUME NEW x \in Elems(events') \cup Elems(out'),
                 x.kind \in {"conversationAdded", "conversationModified"}
          PROVE  conversations'[x.conv] # None
        <3>1. CASE x \in Elems(events)
            <4>1. x \in NamedEvent
                BY <3>1 DEF Typed, Named, Elems
            <4>2. x.conv \in Ids
                BY <4>1, EventsType DEF NamedEvent, Event
            <4> QED BY <1>s, <1>9, <2>1, <3>1, <4>2 DEF Rowed
        <3>2. CASE x \in Elems(out')
            BY <1>1, <1>4, <1>6, <2>1, <3>2
        <3> QED BY <1>1, <3>1, <3>2
    <2> QED BY <2>1 DEF Rowed
<1>11. RowsShown'
    BY <1>s, <1>7 DEF RowsShown
<1>12. IdsFound'
    <2>1. \A q \in Participants : idOf[q] # 0 => idOf[q] \in Ids /\ q # None
        BY ConversationsAssumption, EventsType DEF Typed, Types
    <2> QED BY <1>s, <1>9, <2>1 DEF IdsFound
<1>13. Untold'
    BY <1>s, <1>3, <1>7, <1>8 DEF Untold
<1>14. ASSUME NEW x \in Ids, x # c PROVE LatestOf(x)' = LatestOf(x)
    <2>1. \A n \in Messages : inConv'[n] = x <=> inConv[n] = x
        BY <1>3, <1>8, <1>14, EventsType
    <2> QED BY <2>1, LatestSame
<1>15. LatestFollows'
    <2>1. ASSUME NEW x \in Ids, x # c
          PROVE  /\ conversations'[x] = None => latest'[x] = None
                 /\ deletes' = 0 => \/ latest'[x] \in {None, LatestOf(x)'}
                                    \/ Waiting("conversationModified", x)'
                                    \/ removing' = x
        BY <1>s, <1>7, <1>14, <2>1 DEF LatestFollows
    <2>2. /\ conversations'[c] # None
          /\ isNew => latest'[c] = None
          /\ ~isNew => Waiting("conversationModified", c)'
        BY <1>s, <1>1, <1>7 DEF LatestFollows
    <2> QED BY <2>1, <2>2 DEF LatestFollows
<1>16. InRemoval'
    BY <1>1 DEF InRemoval
<1>17. Uploadable' /\ Unthrown'
    BY <1>s, <1>9 DEF Uploadable, Unthrown, Typed, Types
<1> QED BY <1>10, <1>11, <1>12, <1>13, <1>15, <1>16, <1>17 DEF Synced

\* A step of the sync that leaves the tables, the caches and the events alone.
LEMMA SyncedReading ==
    ASSUME Attentive, removing = 0, Uploadable', Unthrown',
           UNCHANGED <<conversations, inConv, cached, idOf, latest, cachedMsgs, removing, deletes>>,
           Elems(events') \cup Elems(out') = Elems(events) \cup Elems(out)
    PROVE  Synced'
<1>s. Rowed /\ RowsShown /\ IdsFound /\ Untold /\ LatestFollows
    BY DEF Attentive, Synced
<1>1. /\ \A k, m : Pending(k, m)' <=> Pending(k, m)
      /\ \A k, c : Waiting(k, c)' <=> Waiting(k, c)
      /\ \A c : LatestOf(c)' = LatestOf(c)
    BY DEF Pending, Waiting, LatestOf
<1>2. Rowed' /\ RowsShown' /\ IdsFound' /\ Untold'
    BY <1>s, <1>1 DEF Rowed, RowsShown, IdsFound, Untold
<1>3. LatestFollows'
    BY <1>s, <1>1 DEF LatestFollows
<1>4. InRemoval'
    BY DEF InRemoval
<1> QED BY <1>2, <1>3, <1>4 DEF Synced

LEMMA SyncedSync == ASSUME Attentive, SyncStep PROVE Synced'
<1> USE DEF Attentive, Patient
<1>s. Rowed /\ RowsShown /\ IdsFound /\ Untold /\ LatestFollows /\ InRemoval
      /\ Uploadable /\ Unthrown
    BY DEF Synced
<1>1. CASE StartSync
    <2>1. /\ removing = 0 /\ pc' = "loop"
          /\ UNCHANGED <<conversations, inConv, sendable, cached, idOf, latest, cachedMsgs, events,
                         out, removing, thrown, deletes>>
        BY <1>1 DEF StartSync, tables, caches, app
    <2>2. Uploadable' /\ Unthrown'
        BY <1>s, <2>1 DEF Uploadable, Unthrown
    <2> QED BY <2>1, <2>2, SyncedReading
<1>2. CASE FirstSendable
    <2>1. /\ pc = "loop"
          /\ UNCHANGED <<conversations, inConv, sendable, cached, idOf, latest, cachedMsgs, events,
                         out, removing, thrown, deletes>>
        BY <1>2 DEF FirstSendable, tables, caches, app
    <2>2. pc' = "loading" => \E c \in sendable : job' = [conv |-> c, parts |-> None]
        BY <1>2 DEF FirstSendable
    <2>3. Uploadable' /\ Unthrown'
        BY <1>s, <2>1, <2>2 DEF Uploadable, Unthrown
    <2> QED BY <2>1, <2>3, SyncAlone, SyncedReading
<1>3. CASE LoadConversation
    <2>1. /\ pc = "loading" /\ pc' = "posting" /\ thrown' = thrown
          /\ UNCHANGED <<conversations, inConv, sendable, cached, idOf, latest, cachedMsgs, events,
                         out, removing, deletes>>
        BY <1>s, <1>3 DEF LoadConversation, tables, caches, app, Uploadable
    <2>2. Uploadable' /\ Unthrown'
        BY <1>s, <2>1 DEF Uploadable, Unthrown
    <2> QED BY <2>1, <2>2, SyncAlone, SyncedReading
<1>4. CASE Posted
    <2>1. /\ pc = "posting" /\ pc' = "emitSent" /\ sendable' = sendable \ {job.conv}
          /\ UNCHANGED <<conversations, cached, idOf, latest, cachedMsgs, events, removing, stage,
                         left, thrown, deletes>>
        BY <1>4 DEF Posted, caches, app
    <2>2. /\ job.conv \in Ids /\ job.parts \in Participants
          /\ \E m \in NextMessage : Adds(m, job.conv, job.parts, FALSE)
        BY <1>4, PostedMeans
    <2>3. out = <<>>
        BY <2>1 DEF Typed, Types
    <2>4. conversations[job.conv] = job.parts
        BY <2>1 DEF Safe, Loaded
    <2> PICK c \in Ids, p \in Participants : c = job.conv /\ p = job.parts
        BY <2>2
    <2> QED BY <2>1, <2>2, <2>3, <2>4, SyncedAdding
<1>5. CASE Leave
    <2>1. /\ pc # "idle" /\ pc' = "idle"
          /\ UNCHANGED <<conversations, inConv, sendable, cached, idOf, latest, cachedMsgs, events,
                         out, removing, thrown, deletes>>
        BY <1>5 DEF Leave, tables, caches, app
    <2>2. Uploadable' /\ Unthrown'
        BY <1>s, <2>1 DEF Uploadable, Unthrown
    <2> QED BY <2>1, <2>2, SyncAlone, SyncedReading
<1>6. CASE Emit
    <2>1. /\ pc # "idle" /\ pc' # "loading" /\ events' = events \o out /\ out' = <<>>
          /\ UNCHANGED <<conversations, inConv, sendable, cached, idOf, latest, cachedMsgs,
                         removing, thrown, deletes>>
        BY <1>6 DEF Emit, AfterEmit, tables, caches, app
    <2>a. events \in Seq(NamedEvent) /\ out \in Seq(NamedEvent)
        BY DEF Typed, Named
    <2>b. Elems(events') = Elems(events) \cup Elems(out)
        BY <2>1, <2>a, ElemsOfBoth
    <2>c. Elems(<<>>) = {}
        BY DEF Elems
    <2>2. Elems(events') \cup Elems(out') = Elems(events) \cup Elems(out)
        BY <2>1, <2>b, <2>c
    <2>3. Uploadable' /\ Unthrown'
        BY <1>s, <2>1 DEF Uploadable, Unthrown
    <2> QED BY <2>1, <2>2, <2>3, SyncAlone, SyncedReading
<1>7. CASE \E p \in Participants : NewMessage(p)
    <2>1. PICK p \in Participants : NewMessage(p)
        BY <1>7
    <2>2. /\ pc = "inbox" /\ pc' = "emitNew"
          /\ UNCHANGED <<sendable, cached, idOf, latest, cachedMsgs, events, removing, stage, left,
                         thrown, deletes>>
        BY <2>1 DEF NewMessage, caches, app
    <2>3. out = <<>>
        BY <2>2 DEF Typed, Types
    <2>4. PICK m \in NextMessage, c \in Ids, isNew \in BOOLEAN :
              /\ Adds(m, c, p, isNew) /\ conversations'[c] = p
              /\ \A x \in Ids : x # c => conversations'[x] = conversations[x]
              /\ conversations[c] = IF isNew THEN None ELSE p
        BY <2>1, NewMessageMeans
    <2> QED BY <2>2, <2>3, <2>4, SyncedAdding
<1>8. CASE \E m \in Messages : DeletedMessage(m)
    <2>1. PICK m \in Messages : DeletedMessage(m)
        BY <1>8
    <2> PICK c \in Ids : c = inConv[m]
        BY <2>1, EventsType DEF DeletedMessage, Typed, Types
    <2> PICK e : e = Ev("messageRemoved", c, m)
        OBVIOUS
    <2>2. /\ pc = "inbox" /\ pc' = "emitNew"
          /\ inConv' = [inConv EXCEPT ![m] = 0]
          /\ out' = <<e>> /\ deletes' = deletes + 1
          /\ UNCHANGED <<conversations, sendable, cached, idOf, latest, cachedMsgs, events,
                         removing, thrown>>
        BY <2>1 DEF DeletedMessage, caches, app
    <2>3. removing = 0 /\ out = <<>> /\ Elems(out) = {} /\ Elems(events') = Elems(events)
        BY <2>2, SyncAlone DEF Typed, Types, Elems
    <2>4. e \in NamedEvent /\ e.kind = "messageRemoved" /\ e.msg = m
        BY KindsAre, NamedType
    <2>5. Elems(out') = {e}
        <3>1. ASSUME NEW x \in NamedEvent PROVE Elems(<<x>>) = {x}
            BY ElemsOfPair
        <3> QED BY <2>2, <2>4, <3>1
    <2>6. /\ \A k, x : Waiting(k, x) => Waiting(k, x)'
          /\ \A n : Pending("messageRemoved", n) => Pending("messageRemoved", n)'
          /\ Pending("messageRemoved", m)'
        BY <2>3, <2>4, <2>5 DEF Waiting, Pending
    <2>7. \A n \in Messages : inConv'[n] = IF n = m THEN 0 ELSE inConv[n]
        BY <2>2 DEF Typed, Types
    <2>8. deletes' # 0
        BY <2>2, ConversationsAssumption DEF Typed, Types
    <2>9. Rowed'
        BY <1>s, <2>2, <2>3, <2>4, <2>5 DEF Rowed
    <2>10. RowsShown' /\ IdsFound' /\ Uploadable' /\ Unthrown'
        BY <1>s, <2>2, <2>6 DEF RowsShown, IdsFound, Uploadable, Unthrown
    <2>11. Untold'
        BY <1>s, <2>2, <2>6, <2>7 DEF Untold
    <2>12. LatestFollows' /\ InRemoval'
        BY <1>s, <2>2, <2>3, <2>8 DEF LatestFollows, InRemoval
    <2> QED BY <2>9, <2>10, <2>11, <2>12 DEF Synced
<1>9. CASE GiveBack
    <2>1. /\ pc # "idle" /\ pc' = "loop" /\ sendable' \subseteq sendable
          /\ UNCHANGED <<conversations, inConv, cached, idOf, latest, cachedMsgs, events,
                         out, removing, thrown, deletes>>
        BY <1>9 DEF GiveBack, caches, app
    <2>2. Uploadable' /\ Unthrown'
        BY <1>s, <2>1 DEF Uploadable, Unthrown
    <2> QED BY <2>1, <2>2, SyncAlone, SyncedReading
<1> QED
    BY <1>1, <1>2, <1>3, <1>4, <1>5, <1>6, <1>7, <1>8, <1>9 DEF SyncStep

\* An action of a patient user: what it tells of is all that waits.
LEMMA ActingWaiting ==
    ASSUME Attentive, Acts, NEW es \in Seq(NamedEvent), events' = events \o es, UNCHANGED out
    PROVE  /\ Elems(events') \cup Elems(out') = Elems(es)
           /\ \A k, x : ~Pending(k, x) /\ ~Waiting(k, x)
           /\ cached = conversations /\ cachedMsgs = inConv /\ removing = 0 /\ pc = "idle"
           /\ \A p \in Participants, c \in Ids : idOf[p] = c <=> conversations[c] = p
           /\ deletes = 0 => \A c \in Ids : latest[c] \in {None, LatestOf(c)}
<1> USE DEF Attentive, Patient
<1>1. pc = "idle" /\ events = <<>> /\ removing = 0
    BY DEF Acts, Quiet
<1>2. Elems(events) = {} /\ Elems(out) = {} /\ \A k, x : ~Pending(k, x) /\ ~Waiting(k, x)
    BY <1>1, NothingWaits
<1>3. Elems(events') = Elems(events) \cup Elems(es) /\ Elems(out') = Elems(out)
    BY ElemsOfBoth DEF Typed, Named
<1>4. /\ cached = conversations /\ cachedMsgs = inConv
      /\ \A p \in Participants, c \in Ids : idOf[p] = c <=> conversations[c] = p
      /\ deletes = 0 => \A c \in Ids : latest[c] \in {None, LatestOf(c)}
    BY <1>1, QuietAgrees
<1> QED BY <1>1, <1>2, <1>3, <1>4

LEMMA SyncedUser == ASSUME Attentive, UserStep PROVE Synced'
<1> USE DEF Attentive, Patient
<1>s. Rowed /\ RowsShown /\ IdsFound /\ Untold /\ LatestFollows /\ InRemoval
      /\ Uploadable /\ Unthrown
    BY DEF Synced
<1>a. events \in Seq(NamedEvent) /\ <<>> \in Seq(NamedEvent) /\ Elems(<<>>) = {}
    BY DEF Typed, Named, Elems
<1>1. CASE \E p \in Participants : add(p)
    <2>1. PICK p \in Participants : add(p)
        BY <1>1
    <2>2. /\ Acts /\ events = <<>> /\ idOf[p] = 0
          /\ UNCHANGED <<inConv, sendable, cached, idOf, latest, cachedMsgs, removing, stage,
                         left, pc, job, out, deletes>>
        BY <2>1, PatientUser DEF add, caches, app, sync
    <2>3. Existing(p) = {}
        <3>1. events = <<>> /\ pc = "idle" /\ removing = 0
            BY <2>2, PatientUser
        <3>2. \A c \in Ids : conversations[c] # p
            BY <2>2, <3>1, QuietAgrees, EventsType
        <3> QED BY <3>2 DEF Existing
    <2>4. NewId \in Ids
        BY <2>1, <2>3 DEF add
    <2> PICK n \in Ids : n = NewId
        BY <2>4
    <2> PICK e : e = Ev("conversationAdded", n, 0)
        OBVIOUS
    <2>5. /\ conversations' = [conversations EXCEPT ![n] = p]
          /\ events' = Append(events, e) /\ thrown' = thrown
        BY <2>1, <2>3 DEF add
    <2>6. e \in NamedEvent /\ e.kind = "conversationAdded" /\ e.conv = n
        BY KindsAre, NamedType
    <2>7. events' = events \o <<e>> /\ <<e>> \in Seq(NamedEvent) /\ Elems(<<e>>) = {e}
        BY <2>2, <2>5, <2>6, FirstEvent
    <2>8. /\ Elems(events') \cup Elems(out') = {e} /\ removing = 0 /\ pc = "idle"
          /\ cached = conversations /\ cachedMsgs = inConv
          /\ \A q \in Participants, c \in Ids : idOf[q] = c <=> conversations[c] = q
          /\ deletes = 0 => \A c \in Ids : latest[c] \in {None, LatestOf(c)}
        BY <2>2, <2>7, ActingWaiting
    <2>9. conversations[n] = None /\ p # None
        BY <2>4, NewIdIsNew, ConversationsAssumption
    <2>10. \A c \in Ids : conversations'[c] = IF c = n THEN p ELSE conversations[c]
        BY <2>5 DEF Typed, Types
    <2>11. Waiting("conversationAdded", n)'
        BY <2>6, <2>8 DEF Waiting
    <2>12. Rowed'
        BY <2>6, <2>8, <2>9, <2>10 DEF Rowed
    <2>13. RowsShown'
        <3>1. \A c \in Ids : conversations[c] \in Participants \cup {None}
            BY DEF Typed, Types
        <3> QED BY <2>2, <2>8, <2>9, <2>10, <2>11, <3>1 DEF RowsShown
    <2>14. IdsFound'
        <3>1. \A q \in Participants : idOf[q] # 0 => idOf[q] \in Ids /\ q # None
            BY ConversationsAssumption, EventsType DEF Typed, Types
        <3> QED BY <1>s, <2>2, <2>9, <2>10, <3>1 DEF IdsFound
    <2>15. Untold'
        BY <2>2, <2>8 DEF Untold
    <2>16. \A c \in Ids : LatestOf(c)' = LatestOf(c)
        BY <2>2, LatestSame
    <2>17. LatestFollows'
        BY <1>s, <2>2, <2>8, <2>9, <2>10, <2>16 DEF LatestFollows
    <2>18. InRemoval' /\ Uploadable' /\ Unthrown'
        BY <1>s, <2>2, <2>5, <2>8, <2>9, <2>10 DEF InRemoval, Uploadable, Unthrown, Typed, Types
    <2> QED BY <2>12, <2>13, <2>14, <2>15, <2>17, <2>18 DEF Synced
<1>2. CASE \E c \in Ids : triggerRemoval(c)
    <2>1. PICK c \in Ids : triggerRemoval(c)
        BY <1>2
    <2> PICK e : e = Ev("conversationWillBeRemoved", c, 0)
        OBVIOUS
    <2>2. /\ Acts /\ events = <<>> /\ events' = Append(events, e)
          /\ UNCHANGED <<conversations, inConv, sendable, cached, idOf, latest, cachedMsgs,
                         removing, stage, left, pc, job, out, thrown, deletes>>
        BY <2>1, PatientUser DEF triggerRemoval, tables, caches, app, sync
    <2>3. e \in NamedEvent /\ e.kind = "conversationWillBeRemoved"
        BY KindsAre, NamedType
    <2>4. events' = events \o <<e>> /\ <<e>> \in Seq(NamedEvent) /\ Elems(<<e>>) = {e}
        BY <2>2, <2>3, FirstEvent
    <2>5. /\ Elems(events') \cup Elems(out') = {e} /\ removing = 0 /\ pc = "idle"
          /\ \A k, x : ~Pending(k, x) /\ ~Waiting(k, x)
          /\ cached = conversations /\ cachedMsgs = inConv
          /\ deletes = 0 => \A x \in Ids : latest[x] \in {None, LatestOf(x)}
        BY <2>2, <2>4, ActingWaiting
    <2>6. \A x \in Ids : LatestOf(x)' = LatestOf(x)
        BY <2>2, LatestSame
    <2>7. Rowed' /\ RowsShown' /\ IdsFound' /\ Untold'
        BY <1>s, <2>2, <2>3, <2>5 DEF Rowed, RowsShown, IdsFound, Untold
    <2>8. LatestFollows'
        BY <1>s, <2>2, <2>5, <2>6 DEF LatestFollows
    <2>9. InRemoval' /\ Uploadable' /\ Unthrown'
        BY <1>s, <2>2, <2>5 DEF InRemoval, Uploadable, Unthrown
    <2> QED BY <2>7, <2>8, <2>9 DEF Synced
<1>3. CASE \E c \in Ids : latestMessageTimestamp(c)
    <2>1. PICK c \in Ids : latestMessageTimestamp(c)
        BY <1>3
    <2>2. /\ removing = 0 /\ cached[c] # None
          /\ latest' = [latest EXCEPT ![c] = LatestOf(c)]
          /\ UNCHANGED <<conversations, inConv, sendable, cached, idOf, cachedMsgs, events,
                         removing, stage, left, pc, job, out, thrown, deletes>>
        BY <2>1 DEF latestMessageTimestamp, tables, app, sync
    <2>3. conversations[c] # None
        BY <1>s, <2>2 DEF RowsShown
    <2>4. /\ \A k, m : Pending(k, m)' <=> Pending(k, m)
          /\ \A k, x : Waiting(k, x)' <=> Waiting(k, x)
          /\ \A x : LatestOf(x)' = LatestOf(x)
        BY <2>2 DEF Pending, Waiting, LatestOf
    <2>5. \A x \in Ids : latest'[x] = IF x = c THEN LatestOf(x) ELSE latest[x]
        BY <2>2 DEF Typed, Types
    <2>6. Rowed' /\ RowsShown' /\ IdsFound' /\ Untold'
        BY <1>s, <2>2, <2>4 DEF Rowed, RowsShown, IdsFound, Untold
    <2>7. LatestFollows'
        BY <1>s, <2>2, <2>3, <2>4, <2>5 DEF LatestFollows
    <2>8. InRemoval' /\ Uploadable' /\ Unthrown'
        BY <1>s, <2>2 DEF InRemoval, Uploadable, Unthrown
    <2> QED BY <2>6, <2>7, <2>8 DEF Synced
<1>4. CASE \E c \in Ids : PrepareToSend(c)
    <2>1. PICK c \in Ids : PrepareToSend(c)
        BY <1>4
    <2>2. /\ Acts /\ cached[c] # None /\ sendable' = sendable \cup {c}
          /\ UNCHANGED <<conversations, inConv, cached, idOf, latest, cachedMsgs, events,
                         removing, pc, out, thrown, deletes>>
        BY <2>1 DEF PrepareToSend, caches, app, sync
    <2>3. pc = "idle" /\ removing = 0
        BY <2>2, PatientUser
    <2>4. conversations[c] # None
        BY <1>s, <2>2 DEF RowsShown
    <2>5. Uploadable' /\ Unthrown'
        BY <1>s, <2>2, <2>3, <2>4 DEF Uploadable, Unthrown
    <2> QED BY <2>2, <2>3, <2>5, SyncedReading
<1>5. CASE \E m \in Messages : RemoveMessage(m)
    <2>1. PICK m \in Messages : RemoveMessage(m)
        BY <1>5
    <2> PICK c \in Ids : c = cachedMsgs[m]
        BY <2>1, EventsType DEF RemoveMessage, Typed, Types
    <2> PICK e, f : e = Ev("conversationModified", c, 0) /\ f = Ev("messageRemoved", c, m)
        OBVIOUS
    <2>2. /\ Acts /\ cachedMsgs' = [cachedMsgs EXCEPT ![m] = 0]
          /\ inConv' = [inConv EXCEPT ![m] = 0]
          /\ events' = events \o <<e, f>>
          /\ UNCHANGED <<conversations, sendable, cached, idOf, latest, removing, stage, left,
                         pc, job, out, thrown, deletes>>
        BY <2>1 DEF RemoveMessage, app, sync
    <2>3. /\ e \in NamedEvent /\ e.kind = "conversationModified" /\ e.conv = c
          /\ f \in NamedEvent /\ f.kind = "messageRemoved" /\ f.msg = m
        BY KindsAre, NamedType
    <2>4. <<e, f>> \in Seq(NamedEvent) /\ Elems(<<e, f>>) = {e, f}
        BY <2>3, PairOfEvents, Zenon
    <2>5. /\ Elems(events') \cup Elems(out') = {e, f} /\ removing = 0 /\ pc = "idle"
          /\ \A k, x : ~Pending(k, x) /\ ~Waiting(k, x)
          /\ cached = conversations /\ cachedMsgs = inConv
          /\ deletes = 0 => \A x \in Ids : latest[x] \in {None, LatestOf(x)}
        BY <2>2, <2>4, ActingWaiting
    <2>6. inConv[m] = c /\ c # 0 /\ conversations[c] # None
        <3>1. inConv[m] = c /\ c # 0
            BY <2>5, EventsType
        <3> QED BY <3>1 DEF Safe, Known, Matched
    <2>7. \A n \in Messages : /\ inConv'[n] = IF n = m THEN 0 ELSE inConv[n]
                              /\ cachedMsgs'[n] = IF n = m THEN 0 ELSE cachedMsgs[n]
        BY <2>2 DEF Typed, Types
    <2>8. Waiting("conversationModified", c)'
        BY <2>3, <2>5 DEF Waiting
    <2>9. Rowed'
        BY <2>2, <2>3, <2>5, <2>6 DEF Rowed
    <2>10. RowsShown' /\ IdsFound'
        BY <1>s, <2>2, <2>5 DEF RowsShown, IdsFound
    <2>11. Untold'
        BY <2>5, <2>7 DEF Untold
    <2>12. ASSUME NEW x \in Ids, x # c PROVE LatestOf(x)' = LatestOf(x)
        <3>1. \A n \in Messages : inConv'[n] = x <=> inConv[n] = x
            BY <2>6, <2>7, <2>12, EventsType
        <3> QED BY <3>1, LatestSame
    <2>13. LatestFollows'
        BY <1>s, <2>2, <2>5, <2>8, <2>12 DEF LatestFollows
    <2>14. InRemoval' /\ Uploadable' /\ Unthrown'
        BY <1>s, <2>2, <2>5 DEF InRemoval, Uploadable, Unthrown
    <2> QED BY <2>9, <2>10, <2>11, <2>13, <2>14 DEF Synced
<1> QED
    BY <1>1, <1>2, <1>3, <1>4, <1>5 DEF UserStep

LEMMA AttentiveInit == Init /\ ~Hasty => Attentive
<1> SUFFICES ASSUME Init, ~Hasty PROVE Attentive
    OBVIOUS
<1>1. Patient
    BY TypeInit, SafeInit DEF Patient
<1>2. /\ \A c \in Ids : conversations[c] = None /\ cached[c] = None /\ latest[c] = None
      /\ \A p \in Participants : idOf[p] = 0
      /\ \A m \in Messages : cachedMsgs[m] = 0
      /\ removing = 0 /\ sendable = {} /\ pc = "idle" /\ thrown = None
    BY DEF Init
<1>3. Elems(events) = {} /\ Elems(out) = {}
    BY DEF Init, Elems
<1>4. Synced
    BY <1>2, <1>3 DEF Synced, Rowed, RowsShown, IdsFound, Untold, LatestFollows, InRemoval,
                      Uploadable, Unthrown
<1> QED BY <1>1, <1>4 DEF Attentive

LEMMA AttentiveNext == Attentive /\ OldTypes /\ [Next]_vars /\ ~overran' => Attentive'
<1> SUFFICES ASSUME Attentive, OldTypes, [Next]_vars, ~overran' PROVE Synced'
    BY PatientNext DEF Attentive
<1>1. CASE Next
    <2>1. CASE OldStep
        <3>1. /\ UNCHANGED <<conversations, inConv, sendable, cached, idOf, latest, cachedMsgs,
                             events, removing, stage, left, out, thrown, deletes>>
              /\ \/ pc # "idle" /\ pc' = "idle"
                 \/ UNCHANGED <<pc, job>>
            BY <2>1, OldVanishes DEF Attentive, Patient
        <3>2. Uploadable' /\ Unthrown'
            BY <3>1 DEF Attentive, Synced, Uploadable, Unthrown
        <3>3. CASE pc # "idle" /\ pc' = "idle"
            BY <3>1, <3>2, <3>3, SyncAlone, SyncedReading DEF Attentive, Patient
        <3>4. CASE UNCHANGED <<pc, job>>
            <4>1. /\ \A k, m : Pending(k, m)' <=> Pending(k, m)
                  /\ \A k, c : Waiting(k, c)' <=> Waiting(k, c)
                  /\ \A c : LatestOf(c)' = LatestOf(c)
                BY <3>1 DEF Pending, Waiting, LatestOf
            <4>2. Rowed /\ RowsShown /\ IdsFound /\ Untold /\ LatestFollows /\ InRemoval
                BY DEF Attentive, Synced
            <4>3. Rowed' /\ RowsShown' /\ IdsFound' /\ Untold' /\ LatestFollows'
                BY <3>1, <4>1, <4>2 DEF Rowed, RowsShown, IdsFound, Untold, LatestFollows
            <4>4. InRemoval'
                BY <3>1, <4>2 DEF InRemoval
            <4> QED BY <3>2, <4>3, <4>4 DEF Synced
        <3> QED BY <3>1, <3>3, <3>4
    <2> QED BY <1>1, <2>1, StepsAre, SyncedHandled, SyncedRemoval, SyncedSync, SyncedUser DEF AppStep
<1>2. CASE UNCHANGED vars
    <2>1. UNCHANGED <<conversations, inConv, sendable, cached, idOf, latest, cachedMsgs, events,
                      removing, stage, left, pc, job, out, thrown, deletes>>
        BY <1>2 DEF vars, tables, caches, app, sync
    <2>2. /\ \A k, m : Pending(k, m)' <=> Pending(k, m)
          /\ \A k, c : Waiting(k, c)' <=> Waiting(k, c)
          /\ \A c : LatestOf(c)' = LatestOf(c)
        BY <2>1 DEF Pending, Waiting, LatestOf
    <2>3. Rowed /\ RowsShown /\ IdsFound /\ Untold /\ LatestFollows /\ InRemoval
          /\ Uploadable /\ Unthrown
        BY DEF Attentive, Synced
    <2>4. Rowed' /\ RowsShown' /\ IdsFound' /\ Untold' /\ LatestFollows'
        BY <2>1, <2>2, <2>3 DEF Rowed, RowsShown, IdsFound, Untold, LatestFollows
    <2>5. InRemoval' /\ Uploadable' /\ Unthrown'
        BY <2>1, <2>3 DEF InRemoval, Uploadable, Unthrown
    <2> QED BY <2>4, <2>5 DEF Synced
<1> QED BY <1>1, <1>2

LEMMA AttentiveSoFar ==
    /\ Init /\ ~Hasty => SoFar(Attentive)
    /\ SoFar(Attentive) /\ [Next]_vars => SoFar(Attentive)'
<1>1. Init /\ ~Hasty => SoFar(Attentive)
    BY TypeInit, AttentiveInit DEF SoFar, Init, OldTypes
<1>2. SoFar(Attentive) /\ [Next]_vars => SoFar(Attentive)'
    BY TypeNext, AttentiveNext DEF SoFar
<1> QED BY <1>1, <1>2

\* If the user acts when no sync runs and all events are handled, and until a
\* cancelled sync has gone on, no call and no event ends in an exception or a
\* failed assertion: add() does not insert the participants of a row (the UNIQUE
\* constraint), the handlers of conversationAdded and conversationModified find
\* the row they load, RemovalEventDispatcher erases what
\* participantsToConversationId_ holds, and the uploader's loadConversation()
\* finds the conversation of the draft.
THEOREM NothingThrownCorrect == Spec /\ ~Hasty => []NothingThrown
<1>1. SoFar(Attentive) => NothingThrown
    BY DEF SoFar, Attentive, Synced, Unthrown, NothingThrown
<1> QED BY <1>1, AttentiveSoFar, PTL DEF Spec

\* With the same patience and until the same moment, whenever no sync runs and all
\* events are handled the caches of ConversationsImpl and MessagesImpl are the
\* tables: the conversations, the ids by participants, the messages, and, if no
\* other device deleted a message, the times of the latest messages.
THEOREM CacheAgreesCorrect == Spec /\ ~Hasty => []CacheAgrees
<1>1. SoFar(Attentive) => CacheAgrees
    BY QuietAgrees DEF SoFar, CacheAgrees, Quiet
<1> QED BY <1>1, AttentiveSoFar, PTL DEF Spec

=============================================================================

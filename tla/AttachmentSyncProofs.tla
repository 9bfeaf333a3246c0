------------------------ MODULE AttachmentSyncProofs ------------------------
(***************************************************************************)
(* Theorems about AttachmentSync, for any messages, defects and bounds.    *)
(***************************************************************************)
EXTENDS AttachmentSync, WellFoundedInduction, TLAPS

\* The smallest of some numbers is one of them.
LEMMA MinOfSome ==
    ASSUME NEW S, S \subseteq Nat, S # {}
    PROVE  Min(S) \in S
<1> DEFINE Less == {p \in Nat \X Nat : p[1] < p[2]}
<1>1. IsWellFoundedOn(Less, Nat)
    BY NatLessThanWellFounded DEF OpToRel
<1>2. \E x \in S : \A y \in S : ~ (<<y, x>> \in Less)
    BY <1>1, WFMin
<1>3. \E x \in S : \A y \in S : x =< y
    <2>1. PICK x \in S : \A y \in S : ~ (<<y, x>> \in Less)
        BY <1>2, Zenon
    <2>2. ASSUME NEW y \in S PROVE x =< y
        <3>1. x \in Nat /\ y \in Nat /\ <<y, x>> \in Nat \X Nat
            OBVIOUS
        <3>2. y < x => <<y, x>> \in Less
            BY <3>1, SMT
        <3> QED BY <2>1, <3>1, <3>2, SMT
    <2> QED BY <2>2, Zenon
<1> QED BY <1>3, Zenon DEF Min

\* A stream begins at the first attachment.
FromTheFirst == pc \in {"idle", "next", "load", "request"} => att = 1

Typed == TypeOK /\ FromTheFirst

LEMMA ContentKinds ==
    /\ "null" \in Contents /\ "zeros" \in Contents /\ "wrong" \in Contents
    /\ "whole" \in Contents /\ "gone" \in Contents
BY DEF Contents

\* While the syncer is at a message, that is one of the messages.
LEMMA AtMessage ==
    ASSUME TypeOK, pc \in Requesting \cup Writing
    PROVE  msg \in Messages /\ msg # None
BY AttachmentAssumption DEF TypeOK

\* The attachments without bytes are attachments.
LEMMA BlankPlaces ==
    ASSUME TypeOK, NEW m \in Messages
    PROVE  block[m].blank \subseteq Attachments
BY DEF TypeOK, Blocks

\* An attachment that is written keeps the others.
\* Attachment b of m becomes c, and nothing else does.
Writes(m, b, c) == content' = [content EXCEPT ![m][b] = c]

LEMMA Written ==
    ASSUME TypeOK, NEW m \in Messages, NEW b \in Attachments, NEW c \in Contents,
           Writes(m, b, c)
    PROVE  /\ content' \in [Messages -> [Attachments -> Contents]]
           /\ content'[m][b] = c
           /\ \A a \in Attachments : a # b => content'[m][a] = content[m][a]
           /\ \A n \in Messages : n # m => content'[n] = content[n]
<1>1. content \in [Messages -> [Attachments -> Contents]]
    BY DEF TypeOK
<1>2. content[m] \in [Attachments -> Contents]
    BY <1>1
<1>3. content' = [content EXCEPT ![m] = [content[m] EXCEPT ![b] = c]]
    BY <1>1 DEF Writes
<1> QED BY <1>1, <1>2, <1>3

\* Where downloadForMessage() leaves the syncer when it returns or throws.
LEMMA Returned ==
    ASSUME Typed, Return \/ Leave
    PROVE  /\ pc' \in {"idle", "next"} /\ msg' = None /\ att' = 1
           /\ tried' = tried /\ single' = single /\ cancelled' \in BOOLEAN
BY DEF Return, Leave, Typed, TypeOK

\* The parts of the type that the syncer's position decides on.
Position ==
    /\ pc \in {"idle", "next"} \cup Requesting \cup Writing
    /\ msg \in Messages \cup {None} /\ att \in 1 .. Last + 1
    /\ pc \in Requesting \cup Writing <=> msg # None
    /\ pc \in {"request"} \cup Writing => msg \in tried
    /\ pc = "store" => att \in Attachments
    /\ FromTheFirst

LEMMA ReturnedPosition ==
    ASSUME Typed, Return \/ Leave
    PROVE  Position' /\ cancelled' \in BOOLEAN /\ tried' \subseteq Messages /\ single' \in BOOLEAN
<1>1. /\ pc' \in {"idle", "next"} /\ msg' = None /\ att' = 1
      /\ tried' = tried /\ single' = single /\ cancelled' \in BOOLEAN
    BY Returned, Zenon
<1>2. att' \in 1 .. Last + 1
    BY <1>1, AttachmentAssumption
<1>3. Position'
    BY <1>1, <1>2 DEF Position, FromTheFirst, Requesting, Writing
<1> QED BY <1>1, <1>3 DEF Typed, TypeOK

\* The type of a state, and of its successor, taken apart.
LEMMA TypedParts ==
    /\ Typed <=>
        /\ Position
        /\ block \in [Messages -> Blocks]
        /\ content \in [Messages -> [Attachments -> Contents]]
        /\ withKey \subseteq Messages /\ removed \subseteq Messages /\ announced \subseteq Messages
        /\ single \in BOOLEAN /\ tried \subseteq Messages /\ cancelled \in BOOLEAN
        /\ faults \in 0 .. MaxFaults /\ crashes \in 0 .. MaxCrashes
    /\ Typed' <=>
        /\ Position'
        /\ block' \in [Messages -> Blocks]
        /\ content' \in [Messages -> [Attachments -> Contents]]
        /\ withKey' \subseteq Messages /\ removed' \subseteq Messages /\ announced' \subseteq Messages
        /\ single' \in BOOLEAN /\ tried' \subseteq Messages /\ cancelled' \in BOOLEAN
        /\ faults' \in 0 .. MaxFaults /\ crashes' \in 0 .. MaxCrashes
BY DEF Typed, TypeOK, Position

LEMMA TypeInit == Init => Typed
<1> SUFFICES ASSUME Init PROVE Typed
    OBVIOUS
<1>1. Position
    BY AttachmentAssumption DEF Init, Position, FromTheFirst, Requesting, Writing
<1>2. content \in [Messages -> [Attachments -> Contents]]
    BY ContentKinds DEF Init
<1>3. faults \in 0 .. MaxFaults /\ crashes \in 0 .. MaxCrashes
    BY AttachmentAssumption DEF Init
<1> QED BY <1>1, <1>2, <1>3, TypedParts DEF Init

\* The rows of a removed message go one by one; nothing else changes.
LEMMA HandledIsGone ==
    ASSUME Typed, NEW m \in Messages, HandleRemoved(m)
    PROVE  /\ content' \in [Messages -> [Attachments -> Contents]]
           /\ \A n \in Messages : n # m => content'[n] = content[n]
           /\ m \in removed /\ removed' \subseteq removed
<1> DEFINE left == {a \in Attachments : content[m][a] # "gone"}
<1>1. CASE left = {}
    <2>1. content' = content /\ m \in removed /\ removed' = removed \ {m}
        BY <1>1 DEF HandleRemoved
    <2> QED BY <2>1, TypedParts
<1>2. CASE left # {}
    <2>1. content' = [content EXCEPT ![m][Min(left)] = "gone"] /\ m \in removed /\ removed' = removed
        BY <1>2 DEF HandleRemoved
    <2>2. Min(left) \in left /\ Min(left) \in Attachments
        <3>1. left \subseteq Nat
            BY AttachmentAssumption DEF Attachments
        <3>2. Min(left) \in left
            <4> HIDE DEF left
            <4> QED BY <1>2, <3>1, MinOfSome, Zenon
        <3> QED BY <3>2
    <2>3. TypeOK /\ "gone" \in Contents /\ Writes(m, Min(left), "gone")
        BY <2>1, ContentKinds DEF Typed, Writes
    <2> HIDE DEF left
    <2> QED BY <2>1, <2>2, <2>3, Written
<1> QED BY <1>1, <1>2

\* The app's thread, which only changes the syncer when that is at rest.
LEMMA TypeApp ==
    ASSUME Typed
    PROVE  /\ RequestAll => Typed'
           /\ Cancel => Typed'
           /\ \A m \in Messages : RequestOne(m) \/ Remove(m) \/ HandleRemoved(m) => Typed'
<1>1. ASSUME RequestAll PROVE Typed'
    <2>1. Position'
        BY <1>1, TypedParts DEF RequestAll, Position, FromTheFirst, Requesting, Writing
    <2> QED BY <1>1, <2>1, TypedParts DEF RequestAll, rows
<1>2. ASSUME Cancel PROVE Typed'
    <2>1. Position'
        BY <1>2, TypedParts DEF Cancel, Position, FromTheFirst
    <2>2. faults' \in 0 .. MaxFaults
        BY <1>2, TypedParts, AttachmentAssumption DEF Cancel
    <2> QED BY <1>2, <2>1, <2>2, TypedParts DEF Cancel, rows
<1>3. ASSUME NEW m \in Messages, RequestOne(m) PROVE Typed'
    <2>1. Position'
        BY <1>3, TypedParts, AttachmentAssumption
        DEF RequestOne, Position, FromTheFirst, Requesting, Writing
    <2> QED BY <1>3, <2>1, TypedParts DEF RequestOne, rows
<1>4. ASSUME NEW m \in Messages, Remove(m) PROVE Typed'
    <2>1. Position'
        BY <1>4, TypedParts DEF Remove, syncer, Position, FromTheFirst
    <2> QED BY <1>4, <2>1, TypedParts DEF Remove, syncer
<1>5. ASSUME NEW m \in Messages, HandleRemoved(m) PROVE Typed'
    <2>1. Position'
        BY <1>5, TypedParts DEF HandleRemoved, syncer, Position, FromTheFirst
    <2>2. content' \in [Messages -> [Attachments -> Contents]] /\ removed' \subseteq Messages
        BY <1>5, TypedParts, HandledIsGone, Zenon
    <2> QED BY <1>5, <2>1, <2>2, TypedParts DEF HandleRemoved, syncer
<1> QED BY <1>1, <1>2, <1>3, <1>4, <1>5, Zenon

\* The worker's thread.
LEMMA TypeSyncer ==
    ASSUME Typed, SyncerStep
    PROVE  Typed'
<1>0. /\ block' = block /\ withKey' = withKey /\ removed' = removed
      /\ faults' = faults /\ crashes' = crashes
    BY DEF SyncerStep, Next1, Load, Fetch, Unwind, Open, Store, Skip, TooLong, Downloaded, rows
<1>1. CASE Next1
    <2>1. content' = content /\ announced' = announced
        BY <1>1 DEF Next1, rows
    <2>2. CASE Leave
        BY <1>0, <2>1, <2>2, ReturnedPosition, TypedParts, Zenon
    <2>3. CASE ~Leave
        <3> DEFINE missing == {m \in Messages : Missing(m)}
        <3>1. /\ pc = "next" /\ missing # {} /\ pc' = "load" /\ msg' = Min(missing)
              /\ UNCHANGED <<att, tried, single, cancelled>>
            BY <1>1, <2>3 DEF Next1
        <3>2. Min(missing) \in missing
            <4>1. missing \subseteq Nat
                BY AttachmentAssumption
            <4> HIDE DEF missing
            <4> QED BY <3>1, <4>1, MinOfSome, Zenon
        <3>3. msg' \in Messages /\ msg' # None
            BY <3>1, <3>2, AttachmentAssumption
        <3> HIDE DEF missing
        <3>4. Position'
            BY <3>1, <3>3, TypedParts DEF Position, FromTheFirst, Requesting, Writing
        <3> QED BY <1>0, <2>1, <3>1, <3>4, TypedParts
    <2> QED BY <2>2, <2>3
<1>2. CASE Load
    <2>1. content' = content /\ announced' = announced
        BY <1>2 DEF Load, rows
    <2>2. CASE Return \/ Leave
        BY <1>0, <2>1, <2>2, ReturnedPosition, TypedParts, Zenon
    <2>3. CASE ~(Return \/ Leave)
        <3>1. /\ pc = "load" /\ pc' \in {"open", "request", "unwind"} /\ tried' = tried \cup {msg}
              /\ UNCHANGED <<msg, att, single, cancelled>>
            BY <1>2, <2>3 DEF Load
        <3>2. msg \in Messages
            BY <3>1, AtMessage DEF Typed, Requesting
        <3>3. Position'
            BY <3>1, <3>2, TypedParts DEF Position, FromTheFirst, Requesting, Writing
        <3> QED BY <1>0, <2>1, <3>1, <3>2, <3>3, TypedParts
    <2> QED BY <2>2, <2>3
<1>3. CASE Fetch
    <2>1. /\ pc = "request" /\ pc' \in {"open", "unwind"} /\ UNCHANGED <<msg, att, single, tried, cancelled>>
          /\ content' = content /\ announced' = announced
        BY <1>3 DEF Fetch, rows
    <2>2. Position'
        BY <2>1, TypedParts DEF Position, FromTheFirst, Requesting, Writing
    <2> QED BY <1>0, <2>1, <2>2, TypedParts
<1>7. CASE Unwind
    <2>1. announced' = announced
        BY <1>7 DEF Unwind
    <2>2. CASE Leave
        <3>1. pc = "unwind" /\ msg # None
            BY <1>7, AtMessage DEF Unwind, Typed, Writing
        <3>2. content' = content
            BY <1>7, <2>2, <3>1 DEF Unwind, Leave
        <3> QED BY <1>0, <2>1, <2>2, <3>2, ReturnedPosition, TypedParts, Zenon
    <2>3. CASE ~Leave
        <3>1. /\ pc = "unwind" /\ att \in block[msg].blank /\ Writes(msg, att, "whole")
              /\ pc' = pc /\ att' = att + 1 /\ UNCHANGED <<msg, single, tried, cancelled>>
            BY <1>7, <2>3 DEF Unwind, Writes
        <3>2. msg \in Messages /\ msg # None /\ att \in Attachments
            <4>1. msg \in Messages /\ msg # None
                BY <3>1, AtMessage DEF Typed, Writing
            <4> QED BY <3>1, <4>1, BlankPlaces DEF Typed
        <3>3. content' \in [Messages -> [Attachments -> Contents]]
            <4>1. TypeOK /\ "whole" \in Contents
                BY ContentKinds DEF Typed
            <4> QED BY <3>1, <3>2, <4>1, Written
        <3>4. att' \in 1 .. Last + 1
            BY <3>1, <3>2, AttachmentAssumption DEF Attachments
        <3>5. Position'
            BY <3>1, <3>2, <3>4, TypedParts DEF Position, FromTheFirst, Requesting, Writing
        <3> QED BY <1>0, <2>1, <3>1, <3>3, <3>5, TypedParts
    <2> QED BY <2>2, <2>3
<1>4. CASE Open
    <2>1. msg \in Messages /\ att \in Attachments /\ announced' = announced
        BY <1>4, AtMessage, TypedParts, AttachmentAssumption
        DEF Open, Typed, Position, Writing, Attachments, rows
    <2>2. CASE content[msg][att] = "gone" \/ (att \in Trailing(msg) /\ HashMismatch)
        <3>1. Leave /\ content' = content
            BY <1>4, <2>2 DEF Open
        <3> QED BY <1>0, <2>1, <3>1, ReturnedPosition, TypedParts, Zenon
    <2>3. CASE ~(content[msg][att] = "gone" \/ (att \in Trailing(msg) /\ HashMismatch))
        <3>1. /\ pc = "open" /\ pc' = "store" /\ \E c \in Contents : Writes(msg, att, c)
              /\ UNCHANGED <<msg, att, single, tried, cancelled>>
            BY <1>4, <2>3, ContentKinds DEF Open, Writes
        <3>2. content' \in [Messages -> [Attachments -> Contents]]
            BY <2>1, <3>1, Written DEF Typed
        <3>3. Position'
            BY <2>1, <3>1, TypedParts DEF Position, FromTheFirst, Requesting, Writing, Attachments
        <3> QED BY <1>0, <2>1, <3>1, <3>2, <3>3, TypedParts
    <2> QED BY <2>2, <2>3
<1>5. CASE Store
    <2>1. msg \in Messages /\ att \in Attachments /\ announced' = announced
        BY <1>5, AtMessage, TypedParts DEF Store, Typed, Position, Writing, rows
    <2>2. content' \in [Messages -> [Attachments -> Contents]]
        <3>1. \/ content' = content
              \/ \E c \in Contents : Writes(msg, att, c)
            BY <1>5, ContentKinds DEF Store, Writes
        <3>2. TypeOK
            BY DEF Typed
        <3> QED BY <2>1, <3>1, <3>2, Written, TypedParts
    <2>3. CASE Return \/ Leave
        BY <1>0, <2>1, <2>2, <2>3, ReturnedPosition, TypedParts, Zenon
    <2>4. CASE ~(Return \/ Leave)
        <3>1. pc = "store" /\ pc' = "open" /\ att' = att + 1 /\ UNCHANGED <<msg, single, tried, cancelled>>
            BY <1>5, <2>4 DEF Store
        <3>2. att' \in 1 .. Last + 1
            BY <2>1, <3>1, AttachmentAssumption DEF Attachments
        <3>3. Position'
            BY <3>1, <3>2, TypedParts DEF Position, FromTheFirst, Requesting, Writing
        <3> QED BY <1>0, <2>1, <2>2, <3>1, <3>3, TypedParts
    <2> QED BY <2>3, <2>4
<1>6. CASE Skip \/ TooLong \/ Downloaded
    <2>1. (Return \/ Leave) /\ content' = content
        BY <1>6 DEF Skip, TooLong, Downloaded, rows
    <2>2. announced' \subseteq Messages
        <3>1. pc = "open" /\ (announced' = announced \/ announced' = announced \cup {msg})
            BY <1>6 DEF Skip, TooLong, Downloaded
        <3> QED BY <3>1, AtMessage, TypedParts DEF Typed, Writing
    <2> QED BY <1>0, <2>1, <2>2, ReturnedPosition, TypedParts, Zenon
<1> QED BY <1>1, <1>2, <1>3, <1>4, <1>5, <1>6, <1>7 DEF SyncerStep

LEMMA TypeNext ==
    ASSUME Typed, [Next]_vars
    PROVE  Typed'
<1>1. CASE NetworkError
    <2>1. Position'
        BY <1>1, TypedParts DEF NetworkError, Position, FromTheFirst, Requesting, Writing
    <2>2. faults' \in 0 .. MaxFaults
        BY <1>1, TypedParts, AttachmentAssumption DEF NetworkError
    <2> QED BY <1>1, <2>1, <2>2, TypedParts DEF NetworkError, rows
<1>2. CASE Crash
    <2>1. Position'
        BY <1>2, AttachmentAssumption DEF Crash, Position, FromTheFirst, Requesting, Writing
    <2>2. crashes' \in 0 .. MaxCrashes
        BY <1>2, TypedParts, AttachmentAssumption DEF Crash
    <2> QED BY <1>2, <2>1, <2>2, TypedParts DEF Crash, rows
<1>3. CASE UNCHANGED vars
    BY <1>3, TypedParts DEF vars, rows, syncer, Position, FromTheFirst
<1> QED BY <1>1, <1>2, <1>3, TypeApp, TypeSyncer, Zenon DEF Next

\* Every state has the declared types.
THEOREM TypeCorrect == Spec => []TypeOK
<1>1. Typed => TypeOK
    BY DEF Typed
<1> QED BY <1>1, TypeInit, TypeNext, PTL DEF Spec

-----------------------------------------------------------------------------
(* What was announced is whole.                                            *)

\* A message whose event is on its way is a tombstone.
RemovedHasNoKey == removed \cap withKey = {}

\* A message is announced behind its download only, and never downloaded again.
NotAnnounced == pc \in {"request"} \cup Writing => msg \notin announced

\* The attachments the stream has passed are stored.
PassedIsWhole ==
    pc \in Writing /\ msg \in withKey =>
        \A a \in Attachments : a < att => content[msg][a] = "whole"

\* Only a tombstone loses rows.
GoneHasNoKey == \A m \in withKey, a \in Attachments : content[m][a] # "gone"

Announcing ==
    Typed /\ RemovedHasNoKey /\ GoneHasNoKey /\ NotAnnounced /\ PassedIsWhole /\ AnnouncedIsWhole

LEMMA AnnouncingInit == Init => Announcing
BY TypeInit DEF Init, Announcing, RemovedHasNoKey, GoneHasNoKey, NotAnnounced, PassedIsWhole, AnnouncedIsWhole, Writing

\* Only an attachment of the message being written changes in the worker's
\* hands, and a row of a tombstone in the app's.
LEMMA AnnouncingApp ==
    ASSUME Announcing
    PROVE  /\ RequestAll \/ Cancel => Announcing'
           /\ \A m \in Messages : RequestOne(m) \/ Remove(m) \/ HandleRemoved(m) => Announcing'
<1>1. ASSUME RequestAll \/ Cancel PROVE Announcing'
    <2>1. Typed'
        BY <1>1, TypeApp DEF Announcing
    <2> QED BY <1>1, <2>1 DEF RequestAll, Cancel, rows, Announcing, RemovedHasNoKey, GoneHasNoKey, NotAnnounced,
                              PassedIsWhole, AnnouncedIsWhole, Writing
<1>2. ASSUME NEW m \in Messages, RequestOne(m) PROVE Announcing'
    <2>1. Typed'
        BY <1>2, TypeApp DEF Announcing
    <2> QED BY <1>2, <2>1 DEF RequestOne, rows, Announcing, RemovedHasNoKey, GoneHasNoKey, NotAnnounced,
                              PassedIsWhole, AnnouncedIsWhole, Writing
<1>3. ASSUME NEW m \in Messages, Remove(m) PROVE Announcing'
    <2>1. Typed'
        BY <1>3, TypeApp DEF Announcing
    <2> QED BY <1>3, <2>1 DEF Remove, syncer, Announcing, RemovedHasNoKey, GoneHasNoKey, NotAnnounced,
                              PassedIsWhole, AnnouncedIsWhole
<1>4. ASSUME NEW m \in Messages, HandleRemoved(m) PROVE Announcing'
    <2>1. Typed'
        BY <1>4, TypeApp DEF Announcing
    <2>2. /\ \A n \in Messages : n # m => content'[n] = content[n]
          /\ m \in removed /\ removed' \subseteq removed
        BY <1>4, HandledIsGone, Zenon DEF Announcing
    <2>3. UNCHANGED <<withKey, announced, syncer>>
        BY <1>4 DEF HandleRemoved
    <2>4. m \notin withKey
        BY <2>2 DEF Announcing, RemovedHasNoKey
    <2>5. PassedIsWhole'
        <3>1. pc \in Writing => msg \in Messages
            BY AtMessage DEF Announcing, Typed
        <3> QED BY <2>2, <2>3, <2>4, <3>1 DEF Announcing, PassedIsWhole, syncer
    <2>6. AnnouncedIsWhole'
        BY <2>2, <2>3, <2>4 DEF Announcing, Typed, TypeOK, AnnouncedIsWhole
    <2>7. GoneHasNoKey'
        BY <2>2, <2>3, <2>4 DEF Announcing, Typed, TypeOK, GoneHasNoKey
    <2> QED BY <2>1, <2>2, <2>3, <2>5, <2>6, <2>7 DEF Announcing, RemovedHasNoKey, NotAnnounced, syncer
<1> QED BY <1>1, <1>2, <1>3, <1>4, Zenon

\* A step that leaves the contents alone and takes the syncer away.
LEMMA AnnouncingReturn ==
    ASSUME Announcing, Typed', Return \/ Leave, UNCHANGED <<content, withKey, removed, announced>>
    PROVE  Announcing'
<1>1. pc' \notin {"request"} \cup Writing
    BY Returned DEF Announcing, Writing
<1> QED BY <1>1 DEF Announcing, RemovedHasNoKey, GoneHasNoKey, NotAnnounced, PassedIsWhole,
                    AnnouncedIsWhole

\* What Open, Store and Unwind may do to the contents.
LEMMA OneIsWritten ==
    ASSUME Typed, Open \/ Store \/ Unwind
    PROVE  \/ content' = content
           \/ /\ msg \in Messages /\ att \in Attachments
              /\ \E c \in Contents : Writes(msg, att, c) /\ (c = "gone" => content[msg][att] = "gone")
<1>1. pc \in Writing /\ msg \in Messages
    BY AtMessage DEF Open, Store, Unwind, Writing, Typed
<1>2. CASE Open
    <2>1. att \in Attachments
        BY <1>2, TypedParts, AttachmentAssumption DEF Open, Position, Attachments
    <2> QED BY <1>1, <1>2, <2>1, ContentKinds DEF Open, Writes
<1>3. CASE Store
    <2>1. att \in Attachments
        BY <1>3, TypedParts DEF Store, Position
    <2> QED BY <1>1, <1>3, <2>1, ContentKinds DEF Store, Writes
<1>4. CASE Unwind
    <2>1. att \in block[msg].blank => att \in Attachments
        BY <1>1, BlankPlaces DEF Typed
    <2> QED BY <1>1, <1>4, <2>1, ContentKinds DEF Unwind, Writes
<1> QED BY <1>2, <1>3, <1>4

LEMMA AnnouncingSyncer ==
    ASSUME Announcing, SyncerStep
    PROVE  Announcing'
<1>0. /\ Typed /\ Typed' /\ withKey' = withKey /\ removed' = removed
      /\ RemovedHasNoKey'
    BY TypeSyncer DEF Announcing, SyncerStep, Next1, Load, Fetch, Unwind, Open, Store, Skip,
                      TooLong, Downloaded, rows, RemovedHasNoKey
<1>1. CASE Next1
    <2>1. content' = content /\ announced' = announced /\ pc' \notin {"request"} \cup Writing
        BY <1>1 DEF Next1, Leave, rows, Writing
    <2> QED BY <1>0, <2>1 DEF Announcing, NotAnnounced, PassedIsWhole, AnnouncedIsWhole, GoneHasNoKey
<1>2. CASE Load
    <2>1. content' = content /\ announced' = announced
        BY <1>2 DEF Load, rows
    <2>2. CASE Return \/ Leave
        BY <1>0, <2>1, <2>2, AnnouncingReturn
    <2>3. CASE ~(Return \/ Leave)
        <3>1. /\ pc = "load" /\ ~allAttachmentsDownloaded(msg) /\ msg \in withKey
              /\ UNCHANGED <<msg, att>>
            BY <1>2, <2>3 DEF Load
        <3>2. msg \notin announced
            BY <3>1 DEF Announcing, AnnouncedIsWhole, allAttachmentsDownloaded, Missing
        <3>3. att = 1
            BY <1>0, <3>1 DEF Typed, FromTheFirst
        <3>4. \A a \in Attachments : ~ (a < 1)
            BY DEF Attachments
        <3> QED BY <1>0, <2>1, <3>1, <3>2, <3>3, <3>4
                DEF Announcing, NotAnnounced, PassedIsWhole, AnnouncedIsWhole, GoneHasNoKey
    <2> QED BY <2>2, <2>3
<1>3. CASE Fetch
    <2>1. /\ content' = content /\ announced' = announced
          /\ pc = "request" /\ UNCHANGED <<msg, att>>
        BY <1>3 DEF Fetch, rows
    <2>2. att = 1
        BY <1>0, <2>1 DEF Typed, FromTheFirst
    <2>3. \A a \in Attachments : ~ (a < 1)
        BY DEF Attachments
    <2> QED BY <1>0, <2>1, <2>2, <2>3
            DEF Announcing, NotAnnounced, PassedIsWhole, AnnouncedIsWhole, GoneHasNoKey
<1>4. CASE Open \/ Store \/ Unwind
    <2>1. /\ msg \in Messages /\ pc \in Writing /\ announced' = announced
        BY <1>0, <1>4, AtMessage DEF Open, Store, Unwind, rows, Typed, Writing
    <2>2. msg \notin announced
        BY <2>1 DEF Announcing, NotAnnounced
    <2>3. /\ \A n \in Messages : n # msg => content'[n] = content[n]
          /\ \A a \in Attachments : a # att => content'[msg][a] = content[msg][a]
          /\ att \in Attachments /\ content'[msg][att] = "gone" => content[msg][att] = "gone"
        <3>1. CASE content' = content
            BY <3>1
        <3>2. CASE content' # content
            <4>1. PICK c \in Contents : Writes(msg, att, c) /\ (c = "gone" => content[msg][att] = "gone")
                BY <1>0, <1>4, <3>2, OneIsWritten, Zenon
            <4>2. att \in Attachments /\ TypeOK
                BY <1>0, <1>4, <3>2, OneIsWritten DEF Typed
            <4> QED BY <2>1, <4>1, <4>2, Written
        <3> QED BY <3>1, <3>2
    <2>7. GoneHasNoKey'
        BY <1>0, <2>1, <2>3, TypedParts DEF Announcing, GoneHasNoKey
    <2>4. AnnouncedIsWhole'
        BY <1>0, <2>1, <2>2, <2>3, TypedParts DEF Announcing, AnnouncedIsWhole
    <2>5. CASE Return \/ Leave
        <3>1. pc' \notin {"request"} \cup Writing
            BY <1>0, <2>5, Returned DEF Writing
        <3> QED BY <1>0, <2>4, <2>7, <3>1 DEF Announcing, NotAnnounced, PassedIsWhole
    <2>6. CASE ~(Return \/ Leave)
        <3>1. CASE Open
            <4>1. msg' = msg /\ att' = att
                BY <2>6, <3>1 DEF Open
            <4>2. att \in Attachments
                BY <1>0, <3>1, TypedParts, AttachmentAssumption DEF Open, Position, Attachments
            <4>3. PassedIsWhole'
                BY <1>0, <2>1, <2>3, <4>1, <4>2 DEF Announcing, PassedIsWhole, Attachments
            <4> QED BY <1>0, <2>1, <2>2, <2>4, <2>7, <4>1, <4>3 DEF Announcing, NotAnnounced
        <3>2. CASE Store \/ Unwind
            <4>1. msg' = msg /\ att' = att + 1
                BY <2>6, <3>2 DEF Store, Unwind
            <4>2. att \in Attachments
                BY <1>0, <2>1, <2>6, <3>2, TypedParts, BlankPlaces DEF Store, Unwind, Position, Typed
            <4>3. msg \in withKey => content'[msg][att] = "whole"
                <5>1. CASE msg \in withKey
                    <6>1. content[msg][att] # "gone"
                        BY <4>2, <5>1 DEF Announcing, GoneHasNoKey
                    <6>2. Writes(msg, att, "whole")
                        BY <2>6, <3>2, <6>1 DEF Store, Unwind, Writes
                    <6>3. TypeOK /\ "whole" \in Contents
                        BY <1>0, ContentKinds DEF Typed
                    <6> QED BY <2>1, <4>2, <6>2, <6>3, Written
                <5> QED BY <5>1
            <4>4. \A a \in Attachments : a < att + 1 => a < att \/ a = att
                BY <4>2 DEF Attachments
            <4>5. PassedIsWhole'
                BY <1>0, <2>1, <2>3, <4>1, <4>3, <4>4 DEF Announcing, PassedIsWhole
            <4> QED BY <1>0, <2>1, <2>2, <2>4, <2>7, <4>1, <4>5 DEF Announcing, NotAnnounced
        <3> QED BY <1>4, <3>1, <3>2
    <2> QED BY <2>5, <2>6
<1>5. CASE Skip \/ TooLong
    BY <1>0, <1>5, AnnouncingReturn DEF Skip, TooLong, rows
<1>6. CASE Downloaded
    <2>1. /\ Return /\ content' = content /\ announced' = announced \cup {msg}
          /\ pc \in Writing /\ att = Last + 1
        BY <1>6 DEF Downloaded, rows, Writing
    <2>2. pc' \notin {"request"} \cup Writing
        BY <1>0, <2>1, Returned DEF Writing
    <2>3. \A a \in Attachments : a < att
        BY <2>1, AttachmentAssumption DEF Attachments
    <2>4. AnnouncedIsWhole'
        BY <1>0, <2>1, <2>3 DEF Announcing, PassedIsWhole, AnnouncedIsWhole
    <2> QED BY <1>0, <2>1, <2>2, <2>4 DEF Announcing, NotAnnounced, PassedIsWhole, GoneHasNoKey
<1> QED BY <1>1, <1>2, <1>3, <1>4, <1>5, <1>6 DEF SyncerStep

LEMMA AnnouncingNext ==
    ASSUME Announcing, [Next]_vars
    PROVE  Announcing'
<1>0. Typed'
    BY TypeNext DEF Announcing
<1>1. CASE NetworkError
    <2>1. /\ UNCHANGED <<rows, removed, announced, msg, att>> /\ pc = "request"
        BY <1>1 DEF NetworkError
    <2>2. att = 1
        BY <2>1 DEF Announcing, Typed, FromTheFirst
    <2>3. \A a \in Attachments : ~ (a < 1)
        BY DEF Attachments
    <2> QED BY <1>0, <2>1, <2>2, <2>3 DEF rows, Announcing, RemovedHasNoKey, GoneHasNoKey,
            NotAnnounced, PassedIsWhole, AnnouncedIsWhole
<1>2. CASE Crash
    BY <1>0, <1>2 DEF Crash, rows, Writing, Announcing, RemovedHasNoKey, GoneHasNoKey, NotAnnounced, PassedIsWhole,
                     AnnouncedIsWhole
<1>3. CASE UNCHANGED vars
    BY <1>0, <1>3 DEF vars, rows, syncer, Announcing, RemovedHasNoKey, GoneHasNoKey, NotAnnounced,
                     PassedIsWhole, AnnouncedIsWhole
<1> QED BY <1>1, <1>2, <1>3, AnnouncingApp, AnnouncingSyncer, Zenon DEF Next

\* The event messageAttachmentsDownloaded is true for as long as the message is
\* not removed: every attachment is as its sender hashed it.
THEOREM AnnouncedIsWholeCorrect == Spec => []AnnouncedIsWhole
<1>1. Announcing => AnnouncedIsWhole
    BY DEF Announcing
<1> QED BY <1>1, AnnouncingInit, AnnouncingNext, PTL DEF Spec

-----------------------------------------------------------------------------
(* All or nothing.                                                         *)

\* How far an intact block is stored while its stream runs, or unwinds.
Progress(m) ==
    \A a \in Attachments :
        IF a < att THEN content[m][a] = "whole"
        ELSE IF a = att /\ pc = "store"
        THEN content[m][a] = IF a \in block[m].blank THEN "whole" ELSE "zeros"
        ELSE content[m][a] = "null" \/ (a \in Leading(m) /\ content[m][a] = "whole")

Nothing(m)  == \A a \in Attachments :
                   content[m][a] = "null" \/ (a \in Leading(m) /\ content[m][a] = "whole")
AllWhole(m) == \A a \in Attachments : content[m][a] = "whole"

\* AllOrNothing, said of the message in the stream as well.
StoredInOrder ==
    crashes = 0 =>
        \A m \in withKey : Intact(m) =>
            IF pc \in {"request"} \cup Writing /\ msg = m
            THEN Progress(m)
            ELSE Nothing(m) \/ AllWhole(m)

\* A stream that unwinds has passed attachments without bytes only.
UnwindsBlank == pc = "unwind" => \A a \in Attachments : a < att => a \in block[msg].blank

Storing == Announcing /\ StoredInOrder /\ UnwindsBlank

LEMMA StoringInit == Init => Storing
<1> SUFFICES ASSUME Init PROVE StoredInOrder /\ UnwindsBlank
    BY AnnouncingInit DEF Storing
<1>1. \A m \in Messages : Nothing(m)
    BY DEF Init, Nothing
<1> QED BY <1>1 DEF Init, StoredInOrder, UnwindsBlank, Writing

\* An intact block has no defect anywhere.
LEMMA IntactIsRead ==
    ASSUME Intact(msg)
    PROVE  ~Unreadable /\ ~Breaks /\ ~HashMismatch /\ ~TooMuch
BY DEF Intact, Unreadable, Breaks, HashMismatch, TooMuch, DefectHere

LEMMA SameBlocks ==
    ASSUME block' = block, NEW m \in Messages
    PROVE  (Intact(m)' <=> Intact(m)) /\ Leading(m)' = Leading(m)
BY DEF Intact, Leading

\* Steps that change neither the contents nor the message in the stream.
LEMMA StoringElsewhere ==
    ASSUME Storing, UNCHANGED <<block, content, att>>, withKey' \subseteq withKey,
           crashes' \in Nat, crashes' = 0 => crashes = 0,
           pc \in {"request"} \cup Writing \/ pc' \in {"request"} \cup Writing =>
               pc' = pc /\ msg' = msg
    PROVE  StoredInOrder' /\ UnwindsBlank'
<1>1. withKey \subseteq Messages
    BY TypedParts DEF Storing, Announcing
<1>2. UnwindsBlank'
    BY DEF Storing, UnwindsBlank, Writing
<1> QED BY <1>1, <1>2, SameBlocks DEF Storing, StoredInOrder, Progress, Nothing, AllWhole, Writing

LEMMA StoringApp ==
    ASSUME Storing
    PROVE  /\ RequestAll \/ Cancel => StoredInOrder' /\ UnwindsBlank'
           /\ \A m \in Messages :
                RequestOne(m) \/ Remove(m) \/ HandleRemoved(m) => StoredInOrder' /\ UnwindsBlank'
<1>0. crashes \in Nat
    BY TypedParts DEF Storing, Announcing
<1>1. ASSUME RequestAll \/ Cancel PROVE StoredInOrder' /\ UnwindsBlank'
    BY <1>0, <1>1, StoringElsewhere DEF RequestAll, Cancel, rows, Writing
<1>2. ASSUME NEW m \in Messages, RequestOne(m) PROVE StoredInOrder' /\ UnwindsBlank'
    BY <1>0, <1>2, StoringElsewhere DEF RequestOne, rows, Writing
<1>3. ASSUME NEW m \in Messages, Remove(m) PROVE StoredInOrder' /\ UnwindsBlank'
    BY <1>0, <1>3, StoringElsewhere DEF Remove, syncer, Writing
<1>4. ASSUME NEW m \in Messages, HandleRemoved(m) PROVE StoredInOrder' /\ UnwindsBlank'
    <2>1. /\ \A n \in Messages : n # m => content'[n] = content[n]
          /\ m \in removed
        BY <1>4, HandledIsGone, Zenon DEF Storing, Announcing
    <2>2. m \notin withKey /\ withKey \subseteq Messages
        BY <2>1, TypedParts DEF Storing, Announcing, RemovedHasNoKey
    <2>3. UNCHANGED <<block, withKey, syncer, crashes>>
        BY <1>4 DEF HandleRemoved
    <2>4. \A n \in withKey : content'[n] = content[n]
        BY <2>1, <2>2
    <2>5. UnwindsBlank'
        BY <2>3 DEF Storing, UnwindsBlank, syncer
    <2> QED BY <2>2, <2>3, <2>4, <2>5, SameBlocks
            DEF Storing, StoredInOrder, Progress, Nothing, AllWhole, syncer
<1> QED BY <1>1, <1>2, <1>3, <1>4, Zenon

\* The stream is left when its message is stored as a whole or not at all, or
\* has lost its key or its block is broken.
LEMMA StoringReturn ==
    ASSUME Storing, Return \/ Leave, UNCHANGED <<block, withKey, crashes>>,
           \A n \in withKey : n # msg => content'[n] = content[n],
           /\ crashes = 0 /\ pc \in {"request"} \cup Writing
           /\ msg \in withKey /\ Intact(msg)
           => content'[msg] = content[msg] /\ (Nothing(msg) \/ AllWhole(msg)),
           pc \notin {"request"} \cup Writing => content' = content
    PROVE  StoredInOrder' /\ UnwindsBlank'
<1>1. pc' \notin {"request"} \cup Writing
    BY Returned DEF Storing, Announcing, Writing
<1>2. withKey \subseteq Messages
    BY TypedParts DEF Storing, Announcing
<1> QED BY <1>1, <1>2, SameBlocks
        DEF Storing, StoredInOrder, UnwindsBlank, Nothing, AllWhole, Writing

\* One attachment of the message in the stream is written, or none.
LEMMA StoringWrite ==
    ASSUME Storing, pc \in {"request"} \cup Writing, pc' \in {"request"} \cup Writing, msg' = msg,
           UNCHANGED <<block, withKey, crashes>>,
           \A n \in Messages : n # msg => content'[n] = content[n],
           crashes = 0 /\ msg \in withKey /\ Intact(msg) /\ Progress(msg) => Progress(msg)'
    PROVE  StoredInOrder'
<1>1. withKey \subseteq Messages
    BY TypedParts DEF Storing, Announcing
<1>2. ASSUME NEW m \in withKey, crashes = 0, Intact(m), m # msg
      PROVE  (Nothing(m) \/ AllWhole(m))'
    BY <1>1, <1>2, SameBlocks DEF Storing, StoredInOrder, Nothing, AllWhole
<1>3. crashes = 0 /\ msg \in withKey /\ Intact(msg) => Progress(msg)'
    BY DEF Storing, StoredInOrder
<1> QED BY <1>1, <1>2, <1>3, SameBlocks DEF StoredInOrder

\* The request ends, well or not, before a byte is written.
LEMMA StoringStarted ==
    ASSUME Storing, pc = "request", pc' \in {"open", "unwind"}, att = 1,
           UNCHANGED <<block, withKey, crashes, content, msg, att>>
    PROVE  StoredInOrder' /\ UnwindsBlank'
<1>1. msg \in Messages
    BY AtMessage DEF Storing, Announcing, Typed, Requesting
<1>2. \A a \in Attachments : ~ (a < 1)
    BY DEF Attachments
<1>3. Progress(msg) => Progress(msg)'
    BY <1>1, SameBlocks DEF Progress
<1>4. StoredInOrder'
    BY <1>1, <1>3, StoringWrite DEF Writing
<1> QED BY <1>2, <1>4 DEF UnwindsBlank

LEMMA StoringSyncer ==
    ASSUME Storing, SyncerStep
    PROVE  StoredInOrder' /\ UnwindsBlank'
<1>0. /\ Typed /\ UNCHANGED <<block, withKey, crashes>> /\ crashes \in Nat
      /\ withKey \subseteq Messages
    BY TypedParts DEF Storing, Announcing, SyncerStep, Next1, Load, Fetch, Unwind, Open, Store,
                      Skip, TooLong, Downloaded, rows
<1>8. \A a \in Attachments : ~ (a < 1)
    BY DEF Attachments
<1>1. CASE Next1
    <2>1. content' = content /\ pc = "next"
        BY <1>1 DEF Next1, rows
    <2>2. CASE Leave
        BY <1>0, <2>1, <2>2, StoringReturn DEF Writing
    <2>3. CASE ~Leave
        <3>1. pc' = "load" /\ att' = att
            BY <1>1, <2>3 DEF Next1
        <3> QED BY <1>0, <2>1, <3>1, StoringElsewhere DEF Writing
    <2> QED BY <2>2, <2>3
<1>2. CASE Load
    <2>1. content' = content /\ pc = "load"
        BY <1>2 DEF Load, rows
    <2>2. CASE Return \/ Leave
        BY <1>0, <2>1, <2>2, StoringReturn DEF Writing
    <2>3. CASE ~(Return \/ Leave)
        <3>1. /\ ~allAttachmentsDownloaded(msg) /\ msg \in withKey /\ UNCHANGED <<msg, att>>
              /\ pc' \in {"request", "open", "unwind"}
            BY <1>2, <2>3 DEF Load
        <3>2. att = 1
            BY <1>0, <2>1 DEF Typed, FromTheFirst
        <3>3. ~AllWhole(msg)
            BY <3>1 DEF allAttachmentsDownloaded, Missing, AllWhole
        <3>4. crashes = 0 /\ Intact(msg) => Nothing(msg)
            BY <2>1, <3>1, <3>3 DEF Storing, StoredInOrder, Writing
        <3>5. crashes = 0 /\ Intact(msg) => Progress(msg)'
            BY <1>0, <1>8, <2>1, <3>1, <3>2, <3>4, SameBlocks DEF Progress, Nothing
        <3>6. UnwindsBlank'
            BY <1>8, <3>1, <3>2 DEF UnwindsBlank
        <3>7. \A m \in withKey : crashes = 0 /\ Intact(m) => (Nothing(m) \/ AllWhole(m))'
            BY <1>0, <2>1, SameBlocks DEF Storing, StoredInOrder, Nothing, AllWhole, Writing
        <3> QED BY <1>0, <3>1, <3>5, <3>6, <3>7, SameBlocks DEF StoredInOrder
    <2> QED BY <2>2, <2>3
<1>3. CASE Fetch
    <2>1. /\ content' = content /\ pc = "request" /\ pc' \in {"unwind", "open"}
          /\ UNCHANGED <<msg, att>>
        BY <1>3 DEF Fetch, rows
    <2>2. att = 1
        BY <1>0, <2>1 DEF Typed, FromTheFirst
    <2> QED BY <1>0, <2>1, <2>2, StoringStarted
<1>4. CASE Open
    <2>1. /\ msg \in Messages /\ pc = "open" /\ pc \in Writing /\ att \in Attachments
        BY <1>0, <1>4, AtMessage, TypedParts, AttachmentAssumption
        DEF Open, Typed, Position, Writing, Attachments
    <2>2. CASE content[msg][att] = "gone" \/ (att \in Trailing(msg) /\ HashMismatch)
        <3>1. Leave /\ content' = content
            BY <1>4, <2>2 DEF Open
        <3>2. ~(msg \in withKey /\ Intact(msg))
            BY <2>1, <2>2, IntactIsRead DEF Storing, Announcing, GoneHasNoKey
        <3> QED BY <1>0, <3>1, <3>2, StoringReturn
    <2>3. CASE ~(content[msg][att] = "gone" \/ (att \in Trailing(msg) /\ HashMismatch))
        <3> DEFINE c == IF att \in block[msg].blank /\ ~HashMismatch THEN "whole" ELSE "zeros"
        <3>1. Writes(msg, att, c) /\ pc' = "store" /\ UNCHANGED <<msg, att>>
            BY <1>4, <2>3 DEF Open, Writes
        <3>2. c \in Contents /\ (Intact(msg) => c = IF att \in block[msg].blank THEN "whole" ELSE "zeros")
            BY ContentKinds, IntactIsRead
        <3> HIDE DEF c
        <3>3. /\ content'[msg][att] = c
              /\ \A a \in Attachments : a # att => content'[msg][a] = content[msg][a]
              /\ \A n \in Messages : n # msg => content'[n] = content[n]
            BY <1>0, <2>1, <3>1, <3>2, Written DEF Typed
        <3>4. Intact(msg) /\ Progress(msg) => Progress(msg)'
            BY <1>0, <2>1, <3>1, <3>2, <3>3, SameBlocks DEF Progress, Attachments
        <3>5. pc' \in {"request"} \cup Writing
            BY <3>1 DEF Writing
        <3>6. StoredInOrder'
            BY <1>0, <2>1, <3>1, <3>3, <3>4, <3>5, StoringWrite
        <3> QED BY <3>1, <3>6 DEF UnwindsBlank
    <2> QED BY <2>2, <2>3
<1>5. CASE Store \/ Unwind
    <2>1. /\ msg \in Messages /\ pc \in Writing
        BY <1>0, <1>5, AtMessage DEF Store, Unwind, Typed, Writing
    <2>2. crashes = 0 /\ msg \in withKey /\ Intact(msg) => Progress(msg)
        BY <2>1 DEF Storing, StoredInOrder
    <2>3. CASE Return \/ Leave
        <3>1. pc' \notin {"request"} \cup Writing
            BY <1>0, <2>3, Returned DEF Writing
        <3>2. \A n \in Messages : n # msg => content'[n] = content[n]
            <4>1. CASE content' = content
                BY <4>1
            <4>2. CASE content' # content
                <5>1. PICK c \in Contents : Writes(msg, att, c)
                    BY <1>0, <1>5, <4>2, OneIsWritten, Zenon
                <5>2. att \in Attachments /\ TypeOK
                    BY <1>0, <1>5, <4>2, OneIsWritten DEF Typed
                <5> QED BY <2>1, <5>1, <5>2, Written
            <4> QED BY <4>1, <4>2
        <3>3. CASE Store
            <4>1. att \in Attachments
                BY <1>0, <3>3, TypedParts DEF Store, Position
            <4>2. ~(msg \in withKey /\ Intact(msg))
                BY <2>1, <3>1, <3>3, <4>1, IntactIsRead
                DEF Store, Storing, Announcing, GoneHasNoKey, Writing
            <4> QED BY <1>0, <2>1, <2>3, <3>2, <4>2, StoringReturn
        <3>4. CASE Unwind
            <4>1. content' = content /\ pc = "unwind"
                BY <3>1, <3>4 DEF Unwind, Writing
            <4>2. ASSUME crashes = 0, msg \in withKey, Intact(msg)
                  PROVE  Nothing(msg)
                <5>1. \A a \in Attachments : a < att => a \in Leading(msg)
                    BY <1>0, <2>1, <4>1, TypedParts, AttachmentAssumption
                    DEF Storing, UnwindsBlank, Leading, Attachments, Position
                <5> QED BY <2>2, <4>1, <4>2, <5>1 DEF Progress, Nothing
            <4> QED BY <1>0, <2>1, <2>3, <4>1, <4>2, StoringReturn
        <3> QED BY <1>5, <3>3, <3>4
    <2>4. CASE ~(Return \/ Leave)
        <3>1. msg' = msg /\ att' = att + 1 /\ pc' \in {"open", "unwind"}
            BY <1>5, <2>4 DEF Store, Unwind
        <3>2. att \in Attachments
            BY <1>0, <1>5, <2>1, <2>4, TypedParts, BlankPlaces DEF Store, Unwind, Position, Typed
        <3>3. PICK c \in Contents : /\ Writes(msg, att, c)
                                    /\ msg \in withKey => c = "whole"
            <4>1. msg \in withKey => content[msg][att] # "gone"
                BY <3>2 DEF Storing, Announcing, GoneHasNoKey
            <4> QED BY <1>5, <2>4, <4>1, ContentKinds DEF Store, Unwind, Writes
        <3>4. /\ content'[msg][att] = c
              /\ \A a \in Attachments : a # att => content'[msg][a] = content[msg][a]
              /\ \A n \in Messages : n # msg => content'[n] = content[n]
            BY <1>0, <2>1, <3>2, <3>3, Written DEF Typed
        <3>5. /\ \A a \in Attachments : a < att + 1 <=> a < att \/ a = att
              /\ \A a \in Attachments : a = att + 1 => ~(a < att) /\ a # att
            BY <3>2 DEF Attachments
        <3>6. msg \in withKey /\ Progress(msg) => Progress(msg)'
            BY <1>0, <2>1, <3>1, <3>3, <3>4, <3>5, SameBlocks DEF Progress
        <3>7. StoredInOrder'
            BY <1>0, <2>1, <3>1, <3>4, <3>6, StoringWrite DEF Writing
        <3>8. UnwindsBlank'
            <4>1. pc' = "unwind" => pc = "unwind" /\ att \in block[msg].blank
                BY <1>5, <2>4 DEF Store, Unwind
            <4> QED BY <1>0, <3>1, <3>5, <4>1 DEF Storing, UnwindsBlank
        <3> QED BY <3>7, <3>8
    <2> QED BY <2>3, <2>4
<1>6. CASE Skip \/ TooLong
    <2>1. /\ Return \/ Leave
          /\ content' = content /\ (Unreadable \/ TooMuch)
        BY <1>6 DEF Skip, TooLong, rows
    <2>2. ~Intact(msg)
        BY <2>1, IntactIsRead
    <2> QED BY <1>0, <2>1, <2>2, StoringReturn
<1>7. CASE Downloaded
    <2>1. Return /\ content' = content /\ att = Last + 1 /\ pc \in Writing
        BY <1>7 DEF Downloaded, rows, Writing
    <2>2. \A a \in Attachments : a < att
        BY <2>1, AttachmentAssumption DEF Attachments
    <2>3. crashes = 0 /\ msg \in withKey /\ Intact(msg) => AllWhole(msg)
        BY <2>1, <2>2 DEF Storing, StoredInOrder, Progress, AllWhole
    <2> QED BY <1>0, <2>1, <2>3, StoringReturn
<1> QED BY <1>1, <1>2, <1>3, <1>4, <1>5, <1>6, <1>7 DEF SyncerStep

LEMMA StoringNext ==
    ASSUME Storing, [Next]_vars
    PROVE  Storing'
<1>0. Announcing' /\ Typed
    BY AnnouncingNext DEF Storing, Announcing
<1>1. CASE NetworkError
    <2>1. /\ pc = "request" /\ pc' = "unwind" /\ UNCHANGED <<block, withKey, crashes, content, msg, att>>
        BY <1>1 DEF NetworkError, rows
    <2>2. att = 1
        BY <1>0, <2>1 DEF Typed, FromTheFirst
    <2> QED BY <1>0, <2>1, <2>2, StoringStarted DEF Storing
<1>2. CASE Crash
    <2>1. crashes' # 0 /\ pc' = "idle"
        BY <1>0, <1>2, TypedParts DEF Crash
    <2> QED BY <1>0, <2>1 DEF Storing, StoredInOrder, UnwindsBlank
<1>3. CASE UNCHANGED vars
    <2>1. withKey \subseteq Messages /\ UNCHANGED <<block, content, withKey, pc, msg, att, crashes>>
        BY <1>0, <1>3, TypedParts DEF vars, rows, syncer
    <2>2. UnwindsBlank'
        BY <2>1 DEF Storing, UnwindsBlank
    <2> QED BY <1>0, <2>1, <2>2, SameBlocks DEF Storing, StoredInOrder, Progress, Nothing, AllWhole
<1> QED BY <1>0, <1>1, <1>2, <1>3, StoringApp, StoringSyncer, Zenon DEF Next, Storing

\* If no process died, a message with an intact block has all of its attachments
\* or none with a byte in it between two syncs: requests that fail and cancels
\* leave nothing that could be taken for a part of the block.
THEOREM AllOrNothingCorrect == Spec => []AllOrNothing
<1>1. Storing => AllOrNothing
    BY DEF Storing, StoredInOrder, AllOrNothing, Nothing, AllWhole, Writing
<1> QED BY <1>1, StoringInit, StoringNext, PTL DEF Spec

=============================================================================

-------------------------- MODULE DraftSendProofs ---------------------------
(***************************************************************************)
(* Theorems about DraftSend, for any conversations, texts and bounds: the  *)
(* types whatever the app does, the rest if it leaves a draft alone while  *)
(* it is being sent.                                                       *)
(***************************************************************************)
EXTENDS DraftSend, FiniteSetTheorems, FunctionTheorems, TLAPS

-----------------------------------------------------------------------------
(* The types, as far as the argument needs them.                           *)

\* How many of ids are at most id.
Rank(ids, id) == Cardinality({other \in ids : other <= id})

LEMMA AttIdsAreFinite == IsFiniteSet(AttIds) /\ AttIds \subseteq Nat
<1>1. AttIds \subseteq Nat
    BY DraftAssumption DEF AttIds
<1>2. IsFiniteSet(AttIds)
    BY FS_Interval, DraftAssumption DEF AttIds
<1> QED BY <1>1, <1>2

LEMMA RanksDiffer ==
    ASSUME NEW ids \in SUBSET AttIds, NEW a \in ids, NEW b \in ids, a < b
    PROVE  Rank(ids, a) < Rank(ids, b)
<1> DEFINE below == {other \in ids : other <= a}
           through == {other \in ids : other <= b}
<1>1. ids \subseteq Nat /\ IsFiniteSet(ids)
    <2>1. ids \subseteq Nat
        BY AttIdsAreFinite
    <2> QED BY <2>1, AttIdsAreFinite, FS_Subset
<1>2. below \in SUBSET through /\ below # through
    <2>1. a \in Nat /\ b \in Nat /\ ids \subseteq Nat
        BY <1>1
    <2>2. b \in through /\ b \notin below
        BY <2>1
    <2>3. ASSUME NEW id \in below PROVE id \in through
        <3>1. id \in Nat /\ id <= a
            BY <2>1
        <3>2. id <= b
            BY <2>1, <3>1
        <3> QED BY <3>2
    <2> HIDE DEF below, through
    <2> QED BY <2>2, <2>3
<1>3. IsFiniteSet(through) /\ through \in SUBSET ids
    BY <1>1, FS_Subset
<1> HIDE DEF below, through
<1>4. /\ Cardinality(below) <= Cardinality(through) /\ Cardinality(through) # Cardinality(below)
      /\ IsFiniteSet(below)
    BY <1>2, <1>3, FS_Subset
<1>5. Cardinality(below) \in Nat /\ Cardinality(through) \in Nat
    BY <1>3, <1>4, FS_CardinalityType
<1>6. Rank(ids, a) = Cardinality(below) /\ Rank(ids, b) = Cardinality(through)
    BY DEF Rank, below, through
<1> QED BY <1>4, <1>5, <1>6

\* Each place up to their number is taken by one of the ids.
LEMMA NthIsOne ==
    ASSUME NEW ids \in SUBSET AttIds, NEW i \in 1 .. Cardinality(ids)
    PROVE  Nth(ids, i) \in ids
<1> DEFINE n == Cardinality(ids)
           rank == [id \in ids |-> Rank(ids, id)]
<1>1. ids \subseteq Nat /\ IsFiniteSet(ids) /\ n \in Nat
    <2>1. ids \subseteq Nat
        BY AttIdsAreFinite
    <2>2. IsFiniteSet(ids)
        BY AttIdsAreFinite, FS_Subset
    <2> QED BY <2>1, <2>2, FS_CardinalityType
<1>2. ASSUME NEW id \in ids PROVE Rank(ids, id) \in 1 .. n
    <2> DEFINE upTo == {other \in ids : other <= id}
    <2>1. upTo \in SUBSET ids /\ id \in upTo
        BY <1>1
    <2> HIDE DEF upTo
    <2>2. IsFiniteSet(upTo) /\ Cardinality(upTo) <= n /\ Cardinality(upTo) \in Nat
        BY <1>1, <2>1, FS_Subset, FS_CardinalityType
    <2>3. Cardinality(upTo) # 0
        BY <2>1, <2>2, FS_EmptySet
    <2>4. Rank(ids, id) = Cardinality(upTo)
        BY DEF Rank, upTo
    <2> QED BY <1>1, <2>2, <2>3, <2>4
<1>3. rank \in Injection(ids, 1 .. n)
    <2>1. rank \in [ids -> 1 .. n]
        BY <1>2
    <2>2. ASSUME NEW a \in ids, NEW b \in ids, rank[a] = rank[b] PROVE a = b
        <3>1. Rank(ids, a) = Rank(ids, b) /\ a \in Nat /\ b \in Nat
            BY <1>1, <2>2
        <3>2. Rank(ids, a) \in 1 .. n
            BY <1>2
        <3>3. ~(a < b) /\ ~(b < a)
            BY <3>1, <3>2, RanksDiffer
        <3> QED BY <3>1, <3>3
    <2> HIDE DEF rank
    <2> QED BY <2>1, <2>2, Fun_IsInj
<1>4. IsFiniteSet(1 .. n) /\ Cardinality(1 .. n) = n
    BY <1>1, FS_Interval
<1> HIDE DEF rank
<1>5. rank \in Surjection(ids, 1 .. n)
    BY <1>3, <1>4, FS_Injection
<1>6. PICK id \in ids : rank[id] = i
    <2>1. \A t \in 1 .. n : \E id \in ids : rank[id] = t
        <3> HIDE DEF n
        <3> QED BY <1>5, Fun_SurjectionProperties
    <2> QED BY <2>1
<1>7. Cardinality({other \in ids : other <= id}) = i
    BY <1>6 DEF rank, Rank
<1> QED BY <1>7 DEF Nth

LEMMA RemovalsAreEvents ==
    ASSUME NEW c \in Convs, NEW ids \in SUBSET AttIds
    PROVE  Removals(c, ids) \in Seq(Event)
<1> DEFINE n == Cardinality(ids)
           e(i) == [kind |-> "attRemoved", conv |-> c, att |-> Nth(ids, i)]
<1>1. n \in Nat
    BY AttIdsAreFinite, FS_Subset, FS_CardinalityType
<1>2. \A i \in 1 .. n : e(i) \in Event
    BY NthIsOne DEF Event
<1>3. Removals(c, ids) = [i \in 1 .. n |-> e(i)]
    BY DEF Removals
<1> HIDE DEF n, e
<1> QED BY <1>1, <1>2, <1>3

Busy == pc \in {"loaded", "encoded", "posted", "stored"}

Typed ==
    /\ draft \in [Convs -> Row \cup {None}] /\ cached \in [Convs -> Row \cup {None}]
    /\ atts \in [Convs -> SUBSET AttIds] /\ cachedAtts \in [Convs -> SUBSET AttIds]
    /\ adding \subseteq Convs
    /\ server \in Seq(Content)
    /\ events \in Seq(Event)
    /\ pc \in {"idle", "loop", "loaded", "encoded", "posted", "stored"}
    /\ Busy => job \in Content
    /\ prepared \in [Convs -> Nat] /\ aborts \in Nat

\* Is a removal of the attachments of c under way?
Clearing(c) ==
    \E i \in DOMAIN events : events[i].kind = "draftRemoved" /\ events[i].conv = c

\* While a draft is being sent nobody on the app's thread touches it; whatever
\* the app has not heard of, it takes the draft for one that is being sent.
LeftAlone ==
    \A c \in Convs : /\ draft[c] # cached[c] => Sending(cached[c])
                     /\ Sending(draft[c]) => Sending(cached[c]) /\ c \notin adding /\ ~Clearing(c)

\* The copy of the uploader is the draft, until that is cleared.
CopyIsDraft ==
    /\ Busy => Sending(draft[job.conv]) /\ job.text = draft[job.conv].text
    /\ pc \in {"encoded", "posted"} => job.atts = atts[job.conv]

\* What was posted last is the draft; it is in the table when it is stored.
LastIsPosted ==
    /\ pc \in {"posted", "stored"} => server # <<>> /\ server[Len(server)] = job
    /\ pc = "stored" => Len(server) \in DOMAIN messages
    /\ DOMAIN messages \subseteq DOMAIN server

Uploading == Careful /\ Typed /\ LeftAlone /\ CopyIsDraft /\ LastIsPosted /\ StoredIsPosted

LEMMA UploadingInit == Init /\ Careful => Uploading
<1> SUFFICES ASSUME Init, Careful PROVE Uploading
    OBVIOUS
<1>1. Typed
    BY DraftAssumption DEF Init, Typed, Busy
<1>2. LeftAlone /\ CopyIsDraft /\ LastIsPosted /\ StoredIsPosted
    BY DEF Init, LeftAlone, CopyIsDraft, LastIsPosted, StoredIsPosted, Busy, Sending
<1> QED BY <1>1, <1>2 DEF Uploading

\* What an event adds to those under way.
LEMMA AppendedEvent ==
    ASSUME events \in Seq(Event), NEW e \in Event, events' = Append(events, e)
    PROVE  /\ events' \in Seq(Event)
           /\ \A c \in Convs : Clearing(c)' => Clearing(c) \/ (e.kind = "draftRemoved" /\ e.conv = c)
<1>1. /\ DOMAIN events' = 1 .. Len(events) + 1 /\ DOMAIN events = 1 .. Len(events)
      /\ Len(events) \in Nat
      /\ \A i \in 1 .. Len(events) : events'[i] = events[i]
      /\ events'[Len(events) + 1] = e /\ events' \in Seq(Event)
    OBVIOUS
<1>2. ASSUME NEW c \in Convs, NEW i \in DOMAIN events',
             events'[i].kind = "draftRemoved", events'[i].conv = c
      PROVE  Clearing(c) \/ (e.kind = "draftRemoved" /\ e.conv = c)
    <2>1. CASE i \in DOMAIN events
        BY <1>1, <1>2, <2>1 DEF Clearing
    <2>2. CASE i = Len(events) + 1
        BY <1>1, <1>2, <2>2
    <2> QED BY <1>1, <1>2, <2>1, <2>2
<1> QED BY <1>1, <1>2 DEF Clearing

\* What the uploader emits are events, and none that clears a draft.
Harmless(sequence) ==
    sequence \in Seq(Event) /\ \A i \in DOMAIN sequence : sequence[i].kind # "draftRemoved"

LEMMA EmittedIsHarmless ==
    ASSUME NEW c \in Convs, NEW ids \in SUBSET AttIds
    PROVE  Harmless(Modified(c)) /\ Harmless(Removals(c, ids) \o Modified(c))
<1> DEFINE n == Cardinality(ids)
<1>1. IsFiniteSet(AttIds)
    BY AttIdsAreFinite
<1>2. n \in Nat
    BY <1>1, FS_Subset, FS_CardinalityType
<1>3. Removals(c, ids) = [i \in 1 .. n |-> [kind |-> "attRemoved", conv |-> c, att |-> Nth(ids, i)]]
    BY DEF Removals
<1> HIDE DEF n
<1>4. /\ Len(Removals(c, ids)) = n /\ DOMAIN Removals(c, ids) = 1 .. n
      /\ \A i \in 1 .. n : Removals(c, ids)[i].kind = "attRemoved"
    BY <1>2, <1>3, RemovalsAreEvents
<1>5. [kind |-> "draftModified", conv |-> c] \in Event
    BY DEF Event
<1>6. /\ Modified(c) \in Seq(Event) /\ Len(Modified(c)) = 1
      /\ Modified(c)[1].kind = "draftModified" /\ DOMAIN Modified(c) = 1 .. 1
    BY <1>5 DEF Modified
<1> DEFINE both == Removals(c, ids) \o Modified(c)
<1>7. /\ both \in Seq(Event) /\ DOMAIN both = 1 .. n + 1
      /\ \A i \in 1 .. n : both[i] = Removals(c, ids)[i]
      /\ \A i \in 1 .. 1 : both[n + i] = Modified(c)[i]
    <2>1. ASSUME NEW p \in Seq(Event), NEW q \in Seq(Event), Len(p) = n, Len(q) = 1
          PROVE  /\ p \o q \in Seq(Event) /\ DOMAIN (p \o q) = 1 .. n + 1
                 /\ \A i \in 1 .. n : (p \o q)[i] = p[i]
                 /\ \A i \in 1 .. 1 : (p \o q)[n + i] = q[i]
        <3>1. /\ p \o q \in Seq(Event)
              /\ DOMAIN (p \o q) = 1 .. Len(p) + Len(q)
              /\ \A i \in 1 .. Len(p) : (p \o q)[i] = p[i]
              /\ \A i \in 1 .. Len(q) : (p \o q)[Len(p) + i] = q[i]
            OBVIOUS
        <3> QED BY <2>1, <3>1
    <2> QED BY <1>4, <1>6, <2>1, RemovalsAreEvents, Zenon
<1>8. ASSUME NEW i \in 1 .. n + 1 PROVE both[i].kind # "draftRemoved"
    <2> HIDE DEF both
    <2>1. i \in 1 .. n \/ i = n + 1
        BY <1>2
    <2>2. both[n + 1] = Modified(c)[1]
        BY <1>7
    <2> QED BY <1>4, <1>6, <1>7, <2>1, <2>2
<1>9. Harmless(Modified(c))
    BY <1>6 DEF Harmless
<1> QED BY <1>7, <1>8, <1>9 DEF Harmless

LEMMA Emitted ==
    ASSUME events \in Seq(Event), NEW es, Harmless(es), Emit(es)
    PROVE  events' \in Seq(Event) /\ \A c \in Convs : Clearing(c)' => Clearing(c)
<1>1. CASE cancelled
    BY <1>1 DEF Emit, Clearing
<1>2. CASE ~cancelled
    <2>1. events' = events \o es /\ es \in Seq(Event)
        BY <1>2 DEF Emit, Harmless
    <2>2. /\ events' \in Seq(Event) /\ Len(events) \in Nat /\ Len(es) \in Nat
          /\ DOMAIN events = 1 .. Len(events) /\ DOMAIN es = 1 .. Len(es)
          /\ DOMAIN events' = 1 .. Len(events) + Len(es)
          /\ \A i \in 1 .. Len(events) + Len(es) :
                events'[i] = IF i =< Len(events) THEN events[i] ELSE es[i - Len(events)]
        BY <2>1
    <2>3. ASSUME NEW c \in Convs, NEW i \in DOMAIN events',
                 events'[i].kind = "draftRemoved", events'[i].conv = c
          PROVE  Clearing(c)
        <3>1. CASE i =< Len(events)
            <4>1. i \in DOMAIN events /\ events'[i] = events[i]
                BY <2>2, <2>3, <3>1
            <4> QED BY <2>3, <4>1 DEF Clearing
        <3>2. CASE ~(i =< Len(events))
            <4>1. i - Len(events) \in DOMAIN es /\ events'[i] = es[i - Len(events)]
                BY <2>2, <2>3, <3>2
            <4> QED BY <2>3, <4>1 DEF Harmless
        <3> QED BY <3>1, <3>2
    <2> QED BY <2>2, <2>3 DEF Clearing
<1> QED BY <1>1, <1>2

-----------------------------------------------------------------------------
(* The app's thread.                                                       *)

\* A step about a draft that is not being sent.
LEMMA OtherDraft ==
    ASSUME Uploading, NEW c \in Convs, ~Sending(draft[c]),
           \A d \in Convs : d # c => draft'[d] = draft[d] /\ atts'[d] = atts[d],
           UNCHANGED <<server, messages, pc, job>>
    PROVE  CopyIsDraft' /\ LastIsPosted' /\ StoredIsPosted'
<1>1. Busy => job.conv \in Convs /\ job.conv # c
    BY DEF Uploading, CopyIsDraft, Typed, Content
<1>2. Busy' = Busy
    BY DEF Busy
<1>3. CopyIsDraft'
    BY <1>1, <1>2 DEF Uploading, CopyIsDraft, Busy, Sending
<1>4. LastIsPosted' /\ StoredIsPosted'
    BY DEF Uploading, LastIsPosted, StoredIsPosted
<1> QED BY <1>3, <1>4

LEMMA MayEditMeans ==
    ASSUME Uploading, NEW c \in Convs, MayEdit(c) PROVE ~Sending(draft[c]) /\ ~Sending(cached[c])
BY DEF Uploading, LeftAlone, MayEdit

\* The app's copy of a row is saved: the new row is being sent only if nothing
\* else is under way for this draft.
LEMMA SavedRow ==
    ASSUME Uploading, NEW c \in Convs, NEW row \in Row, MayEdit(c), SaveCached(c, row),
           row.state = "sending" => c \notin adding /\ ~Clearing(c),
           events' \in Seq(Event),
           \A d \in Convs : Clearing(d)' => Clearing(d) \/ (d = c /\ row.state = "editing"),
           prepared' \in [Convs -> Nat],
           UNCHANGED <<atts, cachedAtts, adding, server, messages, pc, job, aborts>>
    PROVE  Uploading'
<1>1. /\ draft \in [Convs -> Row \cup {None}] /\ cached \in [Convs -> Row \cup {None}]
      /\ draft' = [draft EXCEPT ![c] = row] /\ cached' = [cached EXCEPT ![c] = row]
    BY DEF Uploading, Typed, SaveCached
<1>2. Typed'
    BY <1>1 DEF Uploading, Typed, Busy
<1>3. LeftAlone'
    <2> SUFFICES ASSUME NEW d \in Convs
                 PROVE  /\ draft'[d] # cached'[d] => Sending(cached'[d])
                        /\ Sending(draft'[d]) => Sending(cached'[d]) /\ d \notin adding' /\ ~Clearing(d)'
        BY Zenon DEF LeftAlone
    <2>1. CASE d = c
        BY <1>1, <2>1 DEF Sending
    <2>2. CASE d # c
        BY <1>1, <2>2 DEF Uploading, LeftAlone
    <2> QED BY <2>1, <2>2
<1>4. CopyIsDraft' /\ LastIsPosted' /\ StoredIsPosted'
    <2>1. \A d \in Convs : d # c => draft'[d] = draft[d] /\ atts'[d] = atts[d]
        BY <1>1
    <2> QED BY <2>1, MayEditMeans, OtherDraft, Zenon
<1> QED BY <1>2, <1>3, <1>4 DEF Uploading

\* The rows stay; attachments of a draft that is not sent may change.
LEMMA SavedAttachments ==
    ASSUME Uploading, NEW c \in Convs, ~Sending(draft[c]),
           atts' \in [Convs -> SUBSET AttIds], \A d \in Convs : d # c => atts'[d] = atts[d],
           cachedAtts' \in [Convs -> SUBSET AttIds],
           adding' \subseteq adding \cup {c},
           events' \in Seq(Event), \A d \in Convs : Clearing(d)' => Clearing(d),
           UNCHANGED <<draft, cached, server, messages, pc, job, prepared, aborts>>
    PROVE  Uploading'
<1>1. Typed'
    BY DEF Uploading, Typed, Busy
<1>2. LeftAlone'
    BY Zenon DEF Uploading, LeftAlone, Sending
<1>3. CopyIsDraft' /\ LastIsPosted' /\ StoredIsPosted'
    BY OtherDraft, Zenon
<1> QED BY <1>1, <1>2, <1>3 DEF Uploading

LEMMA NewAttachmentIsNext ==
    ASSUME NEW c \in Convs, atts \in [Convs -> SUBSET AttIds],
           NEW att \in AttIds, atts' = [atts EXCEPT ![c] = @ \cup {att}]
    PROVE  atts' \in [Convs -> SUBSET AttIds] /\ \A d \in Convs : d # c => atts'[d] = atts[d]
OBVIOUS

LEMMA UploadingApp ==
    ASSUME Uploading, NEW c \in Convs,
           \/ \E text \in Texts : SetText(c, text)
           \/ PrepareToSend(c) \/ Clear(c) \/ AddAsync(c) \/ Added(c)
           \/ \E att \in AttIds : RemoveAttachment(c, att)
    PROVE  Uploading'
<1>a. /\ cached \in [Convs -> Row \cup {None}] /\ atts \in [Convs -> SUBSET AttIds]
      /\ cachedAtts \in [Convs -> SUBSET AttIds]
      /\ events \in Seq(Event) /\ prepared \in [Convs -> Nat] /\ Careful
    BY DEF Uploading, Typed
<1>1. ASSUME NEW text \in Texts, SetText(c, text) PROVE Uploading'
    <2>1. MayEdit(c) /\ ~Sending(cached[c])
        BY <1>1, MayEditMeans DEF SetText
    <2>2. \E row \in Row : SaveCached(c, row) /\ row.state # "sending"
        <3>1. CASE cached[c] = None
            <4>1. [text |-> text, state |-> "editing"] \in Row
                BY DEF Row
            <4> QED BY <1>1, <3>1, <4>1 DEF SetText
        <3>2. CASE cached[c] # None
            <4>1. cached[c] \in Row /\ cached[c].state # "sending"
                BY <1>a, <2>1, <3>2 DEF Sending
            <4>2. [cached[c] EXCEPT !.text = text] \in Row
                  /\ [cached[c] EXCEPT !.text = text].state # "sending"
                BY <4>1 DEF Row
            <4> QED BY <1>1, <3>2, <4>2 DEF SetText
        <3> QED BY <3>1, <3>2
    <2>3. UNCHANGED <<atts, cachedAtts, adding, events, prepared, server, messages, pc, job, aborts>>
        BY <1>1 DEF SetText, sync
    <2>4. \A d \in Convs : Clearing(d)' => Clearing(d)
        BY <2>3 DEF Clearing
    <2> QED BY <1>a, <2>1, <2>2, <2>3, <2>4, SavedRow
<1>2. CASE PrepareToSend(c)
    <2> DEFINE row == [text |-> IF cached[c] = None THEN Empty ELSE cached[c].text, state |-> "sending"]
    <2>1. row \in Row /\ row.state = "sending"
        BY <1>a DEF Row
    <2>2. MayEdit(c) /\ SaveCached(c, row) /\ c \notin adding /\ ~Clearing(c)
        BY <1>2, <1>a DEF PrepareToSend, Shown, Clearing
    <2>3. UNCHANGED <<atts, cachedAtts, adding, events, server, messages, pc, job, aborts>>
        BY <1>2 DEF PrepareToSend, sync
    <2>4. \A d \in Convs : Clearing(d)' => Clearing(d)
        BY <2>3 DEF Clearing
    <2>5. prepared' \in [Convs -> Nat]
        BY <1>2, <1>a DEF PrepareToSend
    <2> HIDE DEF row
    <2> QED BY <1>a, <2>1, <2>2, <2>3, <2>4, <2>5, SavedRow
<1>3. CASE Clear(c)
    <2> DEFINE e == [kind |-> "draftRemoved", conv |-> c]
    <2>1. e \in Event /\ e.kind = "draftRemoved" /\ e.conv = c
        BY DEF Event
    <2>2. Cleared \in Row /\ Cleared.state = "editing"
        BY DEF Cleared, Row
    <2>3. MayEdit(c) /\ SaveCached(c, Cleared) /\ events' = Append(events, e)
        BY <1>3 DEF Clear
    <2>4. UNCHANGED <<atts, cachedAtts, adding, server, messages, pc, job, aborts, prepared>>
        BY <1>3 DEF Clear, sync
    <2> HIDE DEF e, Cleared
    <2>5. events' \in Seq(Event) /\ \A d \in Convs : Clearing(d)' => Clearing(d) \/ d = c
        BY <1>a, <2>1, <2>3, AppendedEvent
    <2> QED BY <1>a, <2>2, <2>3, <2>4, <2>5, SavedRow
<1>4. CASE AddAsync(c)
    <2>1. MayEdit(c) /\ adding' = adding \cup {c}
        BY <1>4 DEF AddAsync
    <2>2. UNCHANGED <<draft, atts, messages, cached, cachedAtts, events, prepared, server, pc, job, aborts>>
        BY <1>4 DEF AddAsync, db
    <2>3. \A d \in Convs : Clearing(d)' => Clearing(d)
        BY <2>2 DEF Clearing
    <2> QED BY <1>a, <2>1, <2>2, <2>3, MayEditMeans, SavedAttachments
<1>5. CASE Added(c)
    <2>1. ~Sending(draft[c])
        BY <1>5 DEF Added, Uploading, LeftAlone
    <2>2. /\ adding' \subseteq adding
          /\ UNCHANGED <<draft, messages, cached, cachedAtts, prepared, server, pc, job, aborts>>
        BY <1>5 DEF Added, sync
    <2>3. CASE UNCHANGED <<atts, events>>
        <3>1. \A d \in Convs : Clearing(d)' => Clearing(d)
            BY <2>3 DEF Clearing
        <3> QED BY <1>a, <2>1, <2>2, <2>3, <3>1, SavedAttachments
    <2>4. CASE ~UNCHANGED <<atts, events>>
        <3>1. PICK att \in AttIds :
                 /\ atts' = [atts EXCEPT ![c] = @ \cup {att}]
                 /\ events' = Append(events, [kind |-> "attAdded", conv |-> c, att |-> att])
            BY <1>5, <2>4 DEF Added
        <3>2. [kind |-> "attAdded", conv |-> c, att |-> att] \in Event
            BY DEF Event
        <3>3. events' \in Seq(Event) /\ \A d \in Convs : Clearing(d)' => Clearing(d)
            BY <1>a, <3>1, <3>2, AppendedEvent
        <3>4. atts' \in [Convs -> SUBSET AttIds] /\ \A d \in Convs : d # c => atts'[d] = atts[d]
            BY <1>a, <3>1, NewAttachmentIsNext
        <3> QED BY <1>a, <2>1, <2>2, <3>3, <3>4, SavedAttachments
    <2> QED BY <2>3, <2>4
<1>6. ASSUME NEW att \in AttIds, RemoveAttachment(c, att) PROVE Uploading'
    <2>1. /\ MayEdit(c)
          /\ atts' = [atts EXCEPT ![c] = @ \ {att}]
          /\ cachedAtts' = [cachedAtts EXCEPT ![c] = @ \ {att}]
        BY <1>6 DEF RemoveAttachment
    <2>2. UNCHANGED <<draft, messages, cached, adding, events, prepared, server, pc, job, aborts>>
        BY <1>6 DEF RemoveAttachment, sync
    <2>3. /\ atts' \in [Convs -> SUBSET AttIds] /\ cachedAtts' \in [Convs -> SUBSET AttIds]
          /\ \A d \in Convs : d # c => atts'[d] = atts[d]
        BY <1>a, <2>1
    <2>4. \A d \in Convs : Clearing(d)' => Clearing(d)
        BY <2>2 DEF Clearing
    <2> QED BY <1>a, <2>1, <2>2, <2>3, <2>4, MayEditMeans, SavedAttachments
<1> QED BY <1>1, <1>2, <1>3, <1>4, <1>5, <1>6

LEMMA UploadingNotify ==
    ASSUME Uploading, Notify PROVE Uploading'
<1> DEFINE e == Head(events)
<1>1. /\ events \in Seq(Event) /\ events # <<>> /\ events' = Tail(events)
      /\ UNCHANGED <<draft, adding, prepared, server, messages, pc, job, aborts>>
    BY DEF Notify, Uploading, Typed, sync
<1>2. /\ 1 \in DOMAIN events /\ e = events[1] /\ e \in Event /\ events' \in Seq(Event)
      /\ \A i \in DOMAIN events' : i + 1 \in DOMAIN events /\ events'[i] = events[i + 1]
    BY <1>1
<1>3. e.conv \in Convs
    BY <1>2 DEF Event
<1>4. \A c \in Convs : Clearing(c)' => Clearing(c)
    BY <1>2 DEF Clearing
<1>5. /\ cached \in [Convs -> Row \cup {None}] /\ draft \in [Convs -> Row \cup {None}]
      /\ atts \in [Convs -> SUBSET AttIds] /\ cachedAtts \in [Convs -> SUBSET AttIds]
    BY DEF Uploading, Typed
<1>6. CASE e.kind = "draftRemoved"
    <2>1. ~Sending(draft[e.conv])
        BY <1>2, <1>3, <1>6 DEF Uploading, LeftAlone, Clearing
    <2>2. /\ atts' = [atts EXCEPT ![e.conv] = @ \ cachedAtts[e.conv]]
          /\ cachedAtts' = [cachedAtts EXCEPT ![e.conv] = {}]
          /\ UNCHANGED cached
        BY <1>6 DEF Notify
    <2>3. /\ atts' \in [Convs -> SUBSET AttIds] /\ cachedAtts' \in [Convs -> SUBSET AttIds]
          /\ \A d \in Convs : d # e.conv => atts'[d] = atts[d]
        BY <1>3, <1>5, <2>2
    <2> HIDE DEF e
    <2> QED BY <1>1, <1>2, <1>3, <1>4, <2>1, <2>2, <2>3, SavedAttachments
<1>7. CASE e.kind # "draftRemoved"
    <2>1. /\ UNCHANGED atts
          /\ \/ cached' = [cached EXCEPT ![e.conv] = draft[e.conv]] /\ UNCHANGED cachedAtts
             \/ UNCHANGED cached /\ cachedAtts' = [cachedAtts EXCEPT ![e.conv] = @ \cup ({e.att} \cap atts[e.conv])]
             \/ UNCHANGED cached /\ cachedAtts' = [cachedAtts EXCEPT ![e.conv] = @ \ {e.att}]
        <3>1. e.kind = "draftModified" \/ e.kind = "attAdded" \/ e.kind = "attRemoved"
            BY <1>2, <1>7 DEF Event
        <3>2. CASE e.kind = "draftModified"
            BY <3>2 DEF Notify
        <3>3. CASE e.kind = "attAdded"
            BY <3>3 DEF Notify
        <3>4. CASE e.kind = "attRemoved"
            BY <3>4 DEF Notify
        <3> QED BY <3>1, <3>2, <3>3, <3>4
    <2> HIDE DEF e
    <2>2. cached' \in [Convs -> Row \cup {None}] /\ cachedAtts' \in [Convs -> SUBSET AttIds]
        BY <1>3, <1>5, <2>1
    <2>3. \A d \in Convs : cached'[d] = cached[d] \/ cached'[d] = draft[d]
        BY <1>3, <1>5, <2>1
    <2>4. LeftAlone'
        BY <1>1, <1>4, <2>3 DEF Uploading, LeftAlone
    <2>5. Typed'
        BY <1>1, <1>2, <2>1, <2>2 DEF Uploading, Typed, Busy
    <2>6. CopyIsDraft' /\ LastIsPosted' /\ StoredIsPosted'
        BY <1>1, <2>1 DEF Uploading, CopyIsDraft, LastIsPosted, StoredIsPosted, Busy
    <2> QED BY <2>4, <2>5, <2>6 DEF Uploading
<1> QED BY <1>6, <1>7

-----------------------------------------------------------------------------
(* The uploader, and the end of the program.                               *)

\* A step that leaves the rows and the queue alone.
LEMMA SameRows ==
    ASSUME Uploading, Typed', UNCHANGED <<draft, cached, adding, events>>
    PROVE  LeftAlone'
BY DEF Uploading, LeftAlone, Clearing

\* What is on the server stays there.
LEMMA ServerGrows ==
    ASSUME server \in Seq(Content), server' = server \/ (job \in Content /\ server' = Append(server, job))
    PROVE  /\ server' \in Seq(Content) /\ DOMAIN server \subseteq DOMAIN server'
           /\ \A i \in DOMAIN server : server'[i] = server[i]
<1>1. CASE server' = server
    BY <1>1
<1>2. CASE job \in Content /\ server' = Append(server, job)
    BY <1>2
<1> QED BY <1>1, <1>2

\* The run ends, or the program does: the copy is gone.
LEMMA UploadingLeave ==
    ASSUME Uploading, pc' = "idle", UNCHANGED <<draft, atts, messages, prepared>>,
           aborts' \in Nat,
           server' = server \/ (pc = "encoded" /\ server' = Append(server, job)),
           \/ UNCHANGED <<ui, events>>
           \/ cached' = draft /\ cachedAtts' = atts /\ adding' = {} /\ events' = <<>>
    PROVE  Uploading'
<1>a. /\ server' \in Seq(Content) /\ DOMAIN server \subseteq DOMAIN server'
      /\ \A i \in DOMAIN server : server'[i] = server[i]
    <2>1. server \in Seq(Content) /\ (pc = "encoded" => job \in Content)
        BY DEF Uploading, Typed, Busy
    <2> QED BY <2>1, ServerGrows
<1>1. Typed'
    <2>1. events' \in Seq(Event)
        <3>1. CASE events' = events
            BY <3>1 DEF Uploading, Typed
        <3>2. CASE events' = <<>>
            BY <3>2
        <3> QED BY <3>1, <3>2
    <2> QED BY <1>a, <2>1 DEF Uploading, Typed, Busy, ui
<1>2. LeftAlone'
    <2>1. CASE UNCHANGED <<ui, events>>
        BY <1>1, <2>1, SameRows DEF ui
    <2>2. CASE cached' = draft /\ adding' = {} /\ events' = <<>>
        BY <2>2 DEF LeftAlone, Clearing
    <2> QED BY <2>1, <2>2
<1>3. CopyIsDraft'
    BY DEF CopyIsDraft, Busy
<1>4. LastIsPosted' /\ StoredIsPosted'
    BY <1>a DEF Uploading, LastIsPosted, StoredIsPosted
<1> QED BY <1>1, <1>2, <1>3, <1>4 DEF Uploading

\* The uploader saves its copy as a draft that is edited, and goes on.
LEMMA UploadingSave ==
    ASSUME Uploading, Busy, pc' = "loop", NEW text \in Texts \cup {Empty}, SaveJob(text),
           NEW es, Harmless(es), Emit(es),
           atts' \in [Convs -> SUBSET AttIds],
           UNCHANGED <<messages, ui, prepared>>, aborts' \in Nat,
           server' = server \/ (pc = "encoded" /\ server' = Append(server, job))
    PROVE  Uploading'
<1>1. job \in Content /\ job.conv \in Convs /\ draft \in [Convs -> Row \cup {None}]
      /\ events \in Seq(Event)
    BY DEF Uploading, Typed, Content
<1>2. /\ [text |-> text, state |-> "editing"] \in Row
      /\ draft' = [draft EXCEPT ![job.conv] = [text |-> text, state |-> "editing"]]
    BY DEF SaveJob, Row
<1>3. events' \in Seq(Event) /\ \A c \in Convs : Clearing(c)' => Clearing(c)
    BY <1>1, Emitted
<1>a. /\ server' \in Seq(Content) /\ DOMAIN server \subseteq DOMAIN server'
      /\ \A i \in DOMAIN server : server'[i] = server[i]
    <2>1. server \in Seq(Content)
        BY DEF Uploading, Typed
    <2> QED BY <1>1, <2>1, ServerGrows
<1>4. Typed'
    <2>1. draft' \in [Convs -> Row \cup {None}]
        BY <1>1, <1>2
    <2> QED BY <1>a, <1>3, <2>1 DEF Uploading, Typed, Busy, ui
<1>5. LeftAlone'
    <2> SUFFICES ASSUME NEW c \in Convs
                 PROVE  /\ draft'[c] # cached'[c] => Sending(cached'[c])
                        /\ Sending(draft'[c]) => Sending(cached'[c]) /\ c \notin adding' /\ ~Clearing(c)'
        BY Zenon DEF LeftAlone
    <2>1. CASE c = job.conv
        <3>1. ~Sending(draft'[c])
            BY <1>1, <1>2, <2>1 DEF Sending
        <3>2. Sending(cached[c])
            BY <2>1 DEF Uploading, CopyIsDraft, LeftAlone
        <3> QED BY <3>1, <3>2 DEF ui
    <2>2. CASE c # job.conv
        <3>1. draft'[c] = draft[c]
            BY <1>1, <1>2, <2>2
        <3> QED BY <1>3, <3>1 DEF Uploading, LeftAlone, ui
    <2> QED BY <2>1, <2>2
<1>6. CopyIsDraft'
    BY DEF CopyIsDraft, Busy
<1>7. LastIsPosted' /\ StoredIsPosted'
    BY <1>a DEF Uploading, LastIsPosted, StoredIsPosted
<1> QED BY <1>4, <1>5, <1>6, <1>7 DEF Uploading

LEMMA UploadingRun == Uploading /\ Run => Uploading'
<1> SUFFICES ASSUME Uploading, Run PROVE Uploading'
    OBVIOUS
<1>a. /\ draft \in [Convs -> Row \cup {None}] /\ atts \in [Convs -> SUBSET AttIds]
      /\ server \in Seq(Content) /\ aborts \in Nat /\ (Busy => job \in Content)
    BY DEF Uploading, Typed
<1>b. \A c \in Convs : Sending(draft[c]) => draft[c] \in Row
    BY <1>a DEF Sending
<1>1. CASE Start
    <2>1. pc' = "loop" /\ UNCHANGED <<db, ui, server, events, prepared, aborts>>
        BY <1>1 DEF Start
    <2>2. Typed'
        BY <2>1 DEF Uploading, Typed, Busy, db, ui
    <2>3. LeftAlone'
        BY <2>1, <2>2, SameRows DEF db, ui
    <2> QED BY <2>1, <2>2, <2>3 DEF Uploading, CopyIsDraft, LastIsPosted, StoredIsPosted, Busy, db
<1>2. CASE FirstSendable
    <2>1. UNCHANGED <<db, ui, server, events, prepared, aborts>>
        BY <1>2 DEF FirstSendable
    <2>2. CASE Leave
        BY <1>a, <2>1, <2>2, UploadingLeave DEF Leave, db
    <2>3. CASE ~Leave
        <3>1. PICK c \in Convs : /\ Sending(draft[c])
                                 /\ job' = [conv |-> c, text |-> draft[c].text, atts |-> {}]
                                 /\ pc' = "loaded"
            BY <1>2, <2>3 DEF FirstSendable
        <3>2. job' \in Content
            BY <1>b, <3>1 DEF Content, Row
        <3>3. Typed'
            BY <2>1, <3>1, <3>2 DEF Uploading, Typed, db, ui
        <3>4. LeftAlone'
            BY <2>1, <3>3, SameRows DEF db, ui
        <3>5. CopyIsDraft' /\ LastIsPosted' /\ StoredIsPosted'
            BY <2>1, <3>1 DEF Uploading, CopyIsDraft, LastIsPosted, StoredIsPosted, db
        <3> QED BY <3>3, <3>4, <3>5, <2>1 DEF Uploading
    <2> QED BY <2>2, <2>3
<1>3. CASE ThrowCanceled
    <2>1. aborts' \in Nat
        BY <1>3, <1>a DEF ThrowCanceled
    <2> QED BY <1>3, <2>1, UploadingLeave DEF ThrowCanceled, Leave, db
<1>4. CASE Encode
    <2>1. pc = "loaded" /\ Busy /\ UNCHANGED <<atts, messages, ui, server, prepared, aborts>>
        BY <1>4 DEF Encode, Busy
    <2>2. job \in Content /\ job.conv \in Convs /\ job.text \in Texts \cup {Empty}
        BY <1>a, <2>1 DEF Content
    <2>3. CASE /\ job' = [job EXCEPT !.atts = atts[job.conv]] /\ pc' = "encoded"
               /\ UNCHANGED <<draft, events>>
        <3>1. job' \in Content /\ job'.conv = job.conv /\ job'.text = job.text /\ job'.atts = atts[job.conv]
            BY <1>a, <2>2, <2>3 DEF Content
        <3>2. Typed'
            BY <2>1, <2>3, <3>1 DEF Uploading, Typed, ui
        <3>3. LeftAlone'
            BY <2>1, <2>3, <3>2, SameRows DEF ui
        <3>4. CopyIsDraft' /\ LastIsPosted' /\ StoredIsPosted'
            BY <2>1, <2>3, <3>1 DEF Uploading, CopyIsDraft, LastIsPosted, StoredIsPosted
        <3> QED BY <3>2, <3>3, <3>4 DEF Uploading
    <2>4. CASE SaveJob(job.text) /\ Emit(Modified(job.conv)) /\ pc' = "loop"
        <3>1. Harmless(Modified(job.conv))
            BY <2>2, EmittedIsHarmless
        <3>2. atts' \in [Convs -> SUBSET AttIds] /\ aborts' \in Nat
            BY <1>a, <2>1
        <3> QED BY <2>1, <2>2, <2>4, <3>1, <3>2, UploadingSave
    <2> QED BY <1>4, <2>3, <2>4 DEF Encode
<1>5. CASE Post
    <2>1. pc = "encoded" /\ Busy /\ UNCHANGED <<db, ui, events, prepared>> /\ server' = Append(server, job)
        BY <1>5 DEF Post, Arrive, Busy
    <2>2. job \in Content
        BY <1>a, <2>1
    <2>3. CASE pc' = "posted" /\ UNCHANGED <<job, cancelled, aborts>>
        <3>1. /\ server' \in Seq(Content) /\ server' # <<>> /\ server'[Len(server')] = job
              /\ DOMAIN server \subseteq DOMAIN server'
              /\ \A i \in DOMAIN server : server'[i] = server[i]
            BY <1>a, <2>1, <2>2
        <3>2. Typed'
            BY <2>1, <2>2, <2>3, <3>1 DEF Uploading, Typed, db, ui
        <3>3. LeftAlone'
            BY <2>1, <3>2, SameRows DEF db, ui
        <3>4. CopyIsDraft'
            BY <2>1, <2>3 DEF Uploading, CopyIsDraft, Busy, db
        <3>5. LastIsPosted' /\ StoredIsPosted'
            BY <2>1, <2>3, <3>1 DEF Uploading, LastIsPosted, StoredIsPosted, db
        <3> QED BY <3>2, <3>3, <3>4, <3>5 DEF Uploading
    <2>4. CASE Leave /\ aborts' = aborts + 1
        BY <1>a, <2>1, <2>4, UploadingLeave DEF Leave, db
    <2> QED BY <1>5, <2>3, <2>4 DEF Post
<1>6. CASE HandleFailed
    <2>1. Busy /\ UNCHANGED <<messages, ui, prepared>> /\ pc' = "loop"
        BY <1>6 DEF HandleFailed, Busy
    <2>2. job \in Content /\ job.conv \in Convs /\ job.text \in Texts \cup {Empty}
        BY <1>a, <2>1 DEF Content
    <2>3. SaveJob(job.text) /\ Emit(Removals(job.conv, atts[job.conv]) \o Modified(job.conv))
        BY <1>6 DEF HandleFailed
    <2>4. atts[job.conv] \in SUBSET AttIds
        BY <1>a, <2>2
    <2>5. Harmless(Removals(job.conv, atts[job.conv]) \o Modified(job.conv))
        BY <2>2, <2>4, EmittedIsHarmless
    <2>6. /\ atts' \in [Convs -> SUBSET AttIds] /\ aborts' \in Nat
          /\ server' = server \/ (pc = "encoded" /\ server' = Append(server, job))
        BY <1>6, <1>a, <2>2 DEF HandleFailed, Arrive
    <2> QED BY <2>1, <2>2, <2>3, <2>5, <2>6, UploadingSave
<1>7. CASE AddMessage
    <2>1. /\ pc = "posted" /\ Busy /\ pc' = "stored" /\ atts' = [atts EXCEPT ![job.conv] = {}]
          /\ UNCHANGED <<draft, server, ui, events, prepared, aborts>>
        BY <1>7 DEF AddMessage, Busy
    <2>2. job \in Content /\ [job EXCEPT !.atts = atts[job.conv]] = job
        BY <1>a, <2>1 DEF Uploading, CopyIsDraft, Content
    <2>3. /\ job' = job
          /\ messages' = [id \in DOMAIN messages \cup {Len(server)} |->
                            IF id = Len(server) THEN job ELSE messages[id]]
        BY <1>7, <2>2 DEF AddMessage, SaveMessage
    <2>4. Len(server) \in DOMAIN server /\ server[Len(server)] = job
        BY <1>a, <2>1 DEF Uploading, LastIsPosted
    <2>5. Typed'
        <3>1. atts' \in [Convs -> SUBSET AttIds]
            BY <1>a, <2>1
        <3> QED BY <2>1, <2>2, <2>3, <3>1 DEF Uploading, Typed, ui
    <2>6. LeftAlone'
        BY <2>1, <2>5, SameRows DEF ui
    <2>7. CopyIsDraft'
        BY <2>1, <2>3 DEF Uploading, CopyIsDraft, Busy
    <2>8. LastIsPosted' /\ StoredIsPosted'
        BY <2>1, <2>3, <2>4 DEF Uploading, LastIsPosted, StoredIsPosted
    <2> QED BY <2>5, <2>6, <2>7, <2>8 DEF Uploading
<1>8. CASE ClearDraft
    <2>1. Busy /\ UNCHANGED <<atts, messages, server, ui, prepared, aborts>> /\ pc' = "loop"
        BY <1>8 DEF ClearDraft, Busy
    <2>2. job \in Content /\ job.conv \in Convs /\ job.atts \in SUBSET AttIds
        BY <1>a, <2>1 DEF Content
    <2>3. SaveJob(Empty) /\ Emit(Removals(job.conv, job.atts) \o Modified(job.conv))
        BY <1>8 DEF ClearDraft
    <2>4. Harmless(Removals(job.conv, job.atts) \o Modified(job.conv))
        BY <2>2, EmittedIsHarmless
    <2>5. atts' \in [Convs -> SUBSET AttIds] /\ aborts' \in Nat
        BY <1>a, <2>1
    <2> QED BY <2>1, <2>2, <2>3, <2>4, <2>5, UploadingSave
<1> QED BY <1>1, <1>2, <1>3, <1>4, <1>5, <1>6, <1>7, <1>8 DEF Run

LEMMA UploadingNext == Uploading /\ [Next]_vars => Uploading'
<1> SUFFICES ASSUME Uploading, [Next]_vars PROVE Uploading'
    OBVIOUS
<1>1. ASSUME NEW c \in Convs,
             \/ \E text \in Texts : SetText(c, text)
             \/ PrepareToSend(c) \/ Clear(c) \/ AddAsync(c) \/ Added(c)
             \/ \E att \in AttIds : RemoveAttachment(c, att)
      PROVE  Uploading'
    BY <1>1, UploadingApp
<1>2. CASE Cancel \/ UNCHANGED vars
    <2>1. UNCHANGED <<draft, atts, messages, cached, cachedAtts, adding, server, events, pc, job,
                      prepared, aborts>>
        BY <1>2 DEF Cancel, vars, db, ui
    <2> QED BY <2>1 DEF Uploading, Typed, LeftAlone, CopyIsDraft, LastIsPosted, StoredIsPosted, Busy, Clearing
<1>3. CASE Restart
    <2>1. aborts' \in Nat
        BY <1>3 DEF Restart, Uploading, Typed
    <2> QED BY <1>3, <2>1, UploadingLeave DEF Restart, Leave, db
<1> QED BY <1>1, <1>2, <1>3, UploadingNotify, UploadingRun DEF Next, App

\* The sender's own copy of a message, with all attachments, is what was posted
\* to the server under its id, although the attachments are read twice.
THEOREM StoredIsPostedCorrect == Spec /\ Careful => []StoredIsPosted
<1>1. Uploading => StoredIsPosted
    BY DEF Uploading
<1> QED BY <1>1, UploadingInit, UploadingNext, PTL DEF Spec

\* A text leaves a draft by the uploader's hand only when the message that was
\* made from it is stored, whatever fails and is cancelled.
THEOREM NothingLostCorrect == Spec /\ Careful => NothingLost
<1>1. ASSUME Uploading, [Next]_vars, NEW c \in Convs,
             draft[c] # None, draft'[c] # draft[c], UNCHANGED cached
      PROVE  \/ draft'[c].text = draft[c].text
             \/ \E id \in DOMAIN messages :
                   messages[id].conv = c /\ messages[id].text = draft[c].text
    <2>a. /\ draft \in [Convs -> Row \cup {None}] /\ cached \in [Convs -> Row \cup {None}]
          /\ (Busy => job \in Content)
        BY <1>1 DEF Uploading, Typed
    <2>1. ASSUME NEW d \in Convs, NEW row \in Row, SaveCached(d, row), MayEdit(d) PROVE FALSE
        <3>1. d = c /\ draft'[c] = row /\ cached[c] = row
            BY <1>1, <2>a, <2>1 DEF SaveCached
        <3>2. ~Sending(cached[c])
            BY <1>1, <2>1, <3>1, MayEditMeans
        <3> QED BY <1>1, <3>1, <3>2 DEF Uploading, LeftAlone
    <2>2. ASSUME NEW d \in Convs, NEW text \in Texts, SetText(d, text) PROVE FALSE
        <3>1. CASE cached[d] = None
            <4>1. [text |-> text, state |-> "editing"] \in Row
                BY DEF Row
            <4> QED BY <2>1, <2>2, <3>1, <4>1 DEF SetText
        <3>2. CASE cached[d] # None
            <4>1. [cached[d] EXCEPT !.text = text] \in Row
                BY <2>a, <3>2 DEF Row
            <4> QED BY <2>1, <2>2, <3>2, <4>1 DEF SetText
        <3> QED BY <3>1, <3>2
    <2>3. ASSUME NEW d \in Convs, PrepareToSend(d) PROVE FALSE
        <3>1. [text |-> IF cached[d] = None THEN Empty ELSE cached[d].text, state |-> "sending"] \in Row
            BY <2>a DEF Row
        <3> QED BY <2>1, <2>3, <3>1 DEF PrepareToSend
    <2>4. ASSUME NEW d \in Convs, Clear(d) PROVE FALSE
        <3>1. Cleared \in Row
            BY DEF Cleared, Row
        <3> QED BY <2>1, <2>4, <3>1 DEF Clear
    <2>5. ASSUME Busy, NEW text \in Texts \cup {Empty}, SaveJob(text)
          PROVE  job.conv = c /\ draft'[c].text = text
        <3>1. job.conv \in Convs /\ draft' = [draft EXCEPT ![job.conv] = [text |-> text, state |-> "editing"]]
            BY <2>a, <2>5 DEF SaveJob, Content
        <3> QED BY <1>1, <2>a, <3>1
    <2>6. ASSUME Busy, SaveJob(job.text) PROVE draft'[c].text = draft[c].text
        <3>1. job.text \in Texts \cup {Empty}
            BY <2>a, <2>6 DEF Content
        <3> QED BY <1>1, <2>5, <2>6, <3>1 DEF Uploading, CopyIsDraft
    <2>7. CASE ClearDraft
        <3>1. Busy /\ pc = "stored" /\ SaveJob(Empty)
            BY <2>7 DEF ClearDraft, Busy
        <3>2. /\ Len(server) \in DOMAIN messages /\ messages[Len(server)] = job
              /\ job.text = draft[job.conv].text
            BY <1>1, <3>1 DEF Uploading, LastIsPosted, StoredIsPosted, CopyIsDraft
        <3> QED BY <2>5, <3>1, <3>2
    <2>8. CASE Encode \/ HandleFailed
        <3>1. Busy /\ SaveJob(job.text)
            BY <1>1, <2>8 DEF Encode, HandleFailed, Busy
        <3> QED BY <2>6, <3>1
    <2> QED BY <1>1, <2>2, <2>3, <2>4, <2>7, <2>8 DEF Next, App, Run, vars, db, ui, sync, AddAsync, Added,
            RemoveAttachment, Cancel, Restart, Notify, Start, FirstSendable, ThrowCanceled, Post, AddMessage
<1>2. Uploading /\ [Next]_vars =>
        [\A c \in Convs :
            draft[c] # None /\ draft'[c] # draft[c] /\ UNCHANGED cached
               => \/ draft'[c].text = draft[c].text
                  \/ \E id \in DOMAIN messages :
                        messages[id].conv = c /\ messages[id].text = draft[c].text]_vars
    BY <1>1
<1> QED BY <1>2, UploadingInit, UploadingNext, PTL DEF Spec, NothingLost

-----------------------------------------------------------------------------
(* The number of posts.                                                    *)

\* A draft that was asked for and is not posted yet.
Due(c) == IF Sending(draft[c]) /\ ~(pc \in {"posted", "stored"} /\ job.conv = c) THEN 1 ELSE 0

Counted ==
    \A c \in Convs : /\ IsFiniteSet(PostsOf(c))
                     /\ Cardinality(PostsOf(c)) + Due(c) =< prepared[c] + aborts

LEMMA CountedInit == Init => Counted
<1> SUFFICES ASSUME Init, NEW c \in Convs
             PROVE  IsFiniteSet(PostsOf(c)) /\ Cardinality(PostsOf(c)) + Due(c) =< prepared[c] + aborts
    BY DEF Counted
<1>1. PostsOf(c) = {} /\ Due(c) = 0 /\ prepared[c] = 0 /\ aborts = 0
    BY DEF Init, PostsOf, Due, Sending
<1> QED BY <1>1, FS_EmptySet

\* A post counts for its draft only.
LEMMA PostsGrow ==
    ASSUME Uploading, Counted, Busy, server' = Append(server, job), NEW c \in Convs
    PROVE  /\ IsFiniteSet(PostsOf(c)')
           /\ Cardinality(PostsOf(c)') = Cardinality(PostsOf(c)) + (IF job.conv = c THEN 1 ELSE 0)
<1>1. /\ DOMAIN server' = DOMAIN server \cup {Len(server) + 1} /\ Len(server) + 1 \notin DOMAIN server
      /\ server'[Len(server) + 1] = job /\ \A i \in DOMAIN server : server'[i] = server[i]
    <2>1. server \in Seq(Content) /\ job \in Content
        BY DEF Uploading, Typed
    <2> QED BY <2>1
<1>2. CASE job.conv = c
    <2>1. PostsOf(c)' = PostsOf(c) \cup {Len(server) + 1} /\ Len(server) + 1 \notin PostsOf(c)
        BY <1>1, <1>2 DEF PostsOf
    <2> QED BY <1>2, <2>1, FS_AddElement DEF Counted
<1>3. CASE job.conv # c
    <2>1. PostsOf(c)' = PostsOf(c)
        BY <1>1, <1>3 DEF PostsOf
    <2>2. Cardinality(PostsOf(c)) \in Nat
        BY FS_CardinalityType DEF Counted
    <2> QED BY <1>3, <2>1, <2>2 DEF Counted
<1> QED BY <1>2, <1>3

\* The server is as it was, and nothing more is due than there was.
LEMMA SamePosts ==
    ASSUME Uploading, Uploading', Counted, UNCHANGED server,
           \A c \in Convs : prepared[c] + aborts + Due(c)' =< prepared'[c] + aborts' + Due(c)
    PROVE  Counted'
<1> SUFFICES ASSUME NEW c \in Convs
             PROVE  /\ IsFiniteSet(PostsOf(c)')
                    /\ Cardinality(PostsOf(c)') + Due(c)' =< prepared'[c] + aborts'
    BY Zenon DEF Counted
<1>1. PostsOf(c)' = PostsOf(c)
    BY DEF PostsOf
<1>2. IsFiniteSet(PostsOf(c)) /\ Cardinality(PostsOf(c)) + Due(c) =< prepared[c] + aborts
    BY DEF Counted
<1>3. /\ prepared[c] \in Nat /\ aborts \in Nat /\ prepared'[c] \in Nat /\ aborts' \in Nat
      /\ Due(c) \in Nat /\ Due(c)' \in Nat
    BY DEF Uploading, Typed, Due
<1>4. Cardinality(PostsOf(c)) \in Nat
    BY <1>2, FS_CardinalityType
<1>5. prepared[c] + aborts + Due(c)' =< prepared'[c] + aborts' + Due(c)
    OBVIOUS
<1> QED BY <1>1, <1>2, <1>3, <1>4, <1>5

LEMMA OneMore ==
    ASSUME NEW more \in Nat, NEW posts \in Nat, NEW due \in Nat, NEW due2 \in Nat,
           NEW asked \in Nat, NEW lost \in Nat, NEW lost2 \in Nat,
           posts + due =< asked + lost, more + lost + due2 =< lost2 + due
    PROVE  posts + more + due2 =< asked + lost2
OBVIOUS

\* A post: one more for its draft, which either is no longer due or has ended a
\* run that comes again.
LEMMA OnePost ==
    ASSUME Uploading, Uploading', Counted, Busy, server' = Append(server, job), UNCHANGED prepared,
           \A c \in Convs : (IF job.conv = c THEN 1 ELSE 0) + aborts + Due(c)' =< aborts' + Due(c)
    PROVE  Counted'
<1> SUFFICES ASSUME NEW c \in Convs
             PROVE  /\ IsFiniteSet(PostsOf(c)')
                    /\ Cardinality(PostsOf(c)') + Due(c)' =< prepared'[c] + aborts'
    BY Zenon DEF Counted
<1>1. /\ IsFiniteSet(PostsOf(c)')
      /\ Cardinality(PostsOf(c)') = Cardinality(PostsOf(c)) + (IF job.conv = c THEN 1 ELSE 0)
    BY PostsGrow
<1>2. IsFiniteSet(PostsOf(c)) /\ Cardinality(PostsOf(c)) + Due(c) =< prepared[c] + aborts
    BY DEF Counted
<1>3. /\ prepared[c] \in Nat /\ aborts \in Nat /\ aborts' \in Nat /\ prepared' = prepared
      /\ Due(c) \in Nat /\ Due(c)' \in Nat
    BY DEF Uploading, Typed, Due
<1>4. Cardinality(PostsOf(c)) \in Nat
    BY <1>2, FS_CardinalityType
<1>5. (IF job.conv = c THEN 1 ELSE 0) + aborts + Due(c)' =< aborts' + Due(c)
    OBVIOUS
<1> DEFINE more == IF job.conv = c THEN 1 ELSE 0
           posts == Cardinality(PostsOf(c))
           due == Due(c)
           posts2 == Cardinality(PostsOf(c)')
           due2 == Due(c)'
<1>6. /\ more \in Nat /\ posts \in Nat /\ due \in Nat /\ due2 \in Nat
      /\ posts2 = posts + more /\ posts + due =< prepared[c] + aborts
      /\ more + aborts + due2 =< aborts' + due
    BY <1>1, <1>2, <1>3, <1>4, <1>5, Zenon
<1>7. prepared[c] \in Nat /\ aborts \in Nat /\ aborts' \in Nat
    BY <1>3
<1> HIDE DEF more, posts, due, posts2, due2
<1>8. posts + more + due2 =< prepared[c] + aborts'
    BY <1>6, <1>7, OneMore, Zenon
<1> QED BY <1>1, <1>3, <1>6, <1>8, Zenon DEF posts2, due2

LEMMA CountedNext == Uploading /\ Counted /\ [Next]_vars => Counted'
<1> SUFFICES ASSUME Uploading, Counted, [Next]_vars PROVE Counted'
    OBVIOUS
<1>0. Uploading'
    BY UploadingNext
<1>a. /\ draft \in [Convs -> Row \cup {None}] /\ prepared \in [Convs -> Nat] /\ aborts \in Nat
      /\ (Busy => job \in Content)
    BY DEF Uploading, Typed
<1>b. ASSUME UNCHANGED <<server, prepared>>, aborts' \in Nat, aborts =< aborts',
             \A c \in Convs : Due(c)' =< Due(c) PROVE Counted'
    <2>1. \A c \in Convs : Due(c) \in Nat /\ Due(c)' \in Nat /\ prepared[c] \in Nat
        BY <1>a DEF Due
    <2>2. \A c \in Convs : prepared[c] + aborts + Due(c)' =< prepared'[c] + aborts' + Due(c)
        BY <1>a, <1>b, <2>1
    <2> QED BY <1>0, <1>b, <2>2, SamePosts
<1>c. ASSUME UNCHANGED <<server, prepared, aborts, draft, pc, job>> PROVE Counted'
    <2>1. \A c \in Convs : Due(c)' = Due(c) /\ Due(c) \in Nat
        BY <1>c DEF Due
    <2> QED BY <1>a, <1>b, <1>c, <2>1
\* a row that is saved by the app's thread
<1>d. ASSUME NEW c \in Convs, NEW row \in Row, MayEdit(c), SaveCached(c, row),
             UNCHANGED <<server, pc, job, aborts>>,
             \/ row.state # "sending" /\ UNCHANGED prepared
             \/ prepared' = [prepared EXCEPT ![c] = @ + 1]
      PROVE  Counted'
    <2>1. ~Sending(draft[c])
        BY <1>d, MayEditMeans
    <2>2. \A d \in Convs : d # c => Due(d)' = Due(d)
        BY <1>a, <1>d DEF Due, SaveCached
    <2>3. Due(c) = 0 /\ Due(c)' \in 0 .. 1 /\ (row.state # "sending" => Due(c)' = 0)
        BY <1>a, <1>d, <2>1 DEF Due, SaveCached, Sending
    <2>4. \A d \in Convs : Due(d) \in Nat /\ prepared[d] \in Nat
        BY <1>a DEF Due
    <2>5. \A d \in Convs : d # c => prepared'[d] = prepared[d]
        BY <1>a, <1>d
    <2>6. prepared'[c] = prepared[c] + 1 \/ (prepared'[c] = prepared[c] /\ Due(c)' = 0)
        BY <1>a, <1>d, <2>3
    <2>7. ASSUME NEW d \in Convs
          PROVE  prepared[d] + aborts + Due(d)' =< prepared'[d] + aborts' + Due(d)
        <3>1. CASE d = c
            BY <1>a, <1>d, <2>3, <2>4, <2>6, <3>1
        <3>2. CASE d # c
            BY <1>a, <1>d, <2>2, <2>4, <2>5, <3>2
        <3> QED BY <3>1, <3>2
    <2> QED BY <1>0, <1>d, <2>7, SamePosts
\* a row that is saved by the uploader
<1>e. ASSUME Busy, NEW text \in Texts \cup {Empty}, SaveJob(text), pc' = "loop" PROVE
             \A c \in Convs : Due(c)' =< Due(c) /\ (c = job.conv => Due(c)' = 0)
    <2>1. job.conv \in Convs /\ draft' = [draft EXCEPT ![job.conv] = [text |-> text, state |-> "editing"]]
        BY <1>a, <1>e DEF SaveJob, Content
    <2> QED BY <1>a, <1>e, <2>1 DEF Due, Sending
\* a run that ends between a post and its draft
<1>f. ASSUME pc' = "idle", UNCHANGED <<server, prepared, draft>>,
             aborts' = IF pc \in {"posted", "stored"} THEN aborts + 1 ELSE aborts
      PROVE  Counted'
    <2>1. \A c \in Convs : /\ Due(c) \in Nat /\ Due(c)' \in Nat /\ Due(c)' =< Due(c) + 1
                           /\ pc \notin {"posted", "stored"} => Due(c)' = Due(c)
        BY <1>f DEF Due
    <2>2. \A c \in Convs : prepared[c] \in Nat /\ prepared'[c] = prepared[c]
        BY <1>a, <1>f
    <2>3. \A c \in Convs : prepared[c] + aborts + Due(c)' =< prepared'[c] + aborts' + Due(c)
        <3>1. CASE pc \in {"posted", "stored"}
            BY <1>a, <1>f, <2>1, <2>2, <3>1
        <3>2. CASE pc \notin {"posted", "stored"}
            BY <1>a, <1>f, <2>1, <2>2, <3>2
        <3> QED BY <3>1, <3>2
    <2> QED BY <1>0, <1>f, <2>3, SamePosts
<1>1. ASSUME NEW c \in Convs, NEW text \in Texts, SetText(c, text) PROVE Counted'
    <2>1. MayEdit(c) /\ ~Sending(cached[c]) /\ cached \in [Convs -> Row \cup {None}]
        BY <1>1, MayEditMeans DEF SetText, Uploading, Typed
    <2>2. \E row \in Row : SaveCached(c, row) /\ row.state # "sending"
        <3>1. CASE cached[c] = None
            <4>1. [text |-> text, state |-> "editing"] \in Row
                BY DEF Row
            <4> QED BY <1>1, <3>1, <4>1 DEF SetText
        <3>2. CASE cached[c] # None
            <4>1. cached[c] \in Row /\ cached[c].state # "sending"
                BY <2>1, <3>2 DEF Sending
            <4>2. [cached[c] EXCEPT !.text = text] \in Row
                  /\ [cached[c] EXCEPT !.text = text].state # "sending"
                BY <4>1 DEF Row
            <4> QED BY <1>1, <3>2, <4>2 DEF SetText
        <3> QED BY <3>1, <3>2
    <2>3. UNCHANGED <<server, pc, job, aborts, prepared>>
        BY <1>1 DEF SetText, sync
    <2> QED BY <1>d, <2>1, <2>2, <2>3
<1>2. ASSUME NEW c \in Convs, PrepareToSend(c) PROVE Counted'
    <2> DEFINE row == [text |-> IF cached[c] = None THEN Empty ELSE cached[c].text, state |-> "sending"]
    <2>1. row \in Row
        BY DEF Row, Uploading, Typed
    <2>2. MayEdit(c) /\ SaveCached(c, row) /\ prepared' = [prepared EXCEPT ![c] = @ + 1]
        BY <1>2 DEF PrepareToSend
    <2>3. UNCHANGED <<server, pc, job, aborts>>
        BY <1>2 DEF PrepareToSend, sync
    <2> HIDE DEF row
    <2> QED BY <1>d, <2>1, <2>2, <2>3
<1>3. ASSUME NEW c \in Convs, Clear(c) PROVE Counted'
    <2>1. Cleared \in Row /\ Cleared.state # "sending" /\ MayEdit(c) /\ SaveCached(c, Cleared)
        BY <1>3 DEF Clear, Cleared, Row
    <2>2. UNCHANGED <<server, pc, job, aborts, prepared>>
        BY <1>3 DEF Clear, sync
    <2> QED BY <1>d, <2>1, <2>2
<1>4. CASE FirstSendable
    <2>1. UNCHANGED <<server, prepared, aborts, draft>> /\ pc = "loop" /\ pc' \in {"idle", "loaded"}
        BY <1>4 DEF FirstSendable, Leave, db
    <2>2. \A c \in Convs : Due(c)' =< Due(c)
        BY <2>1 DEF Due
    <2> QED BY <1>a, <1>b, <2>1, <2>2
<1>5. CASE Encode
    <2>1. /\ pc = "loaded" /\ Busy /\ UNCHANGED <<server, prepared, aborts>>
          /\ \/ pc' = "encoded" /\ UNCHANGED draft
             \/ pc' = "loop" /\ SaveJob(job.text)
        BY <1>5 DEF Encode, Busy
    <2>2. job.text \in Texts \cup {Empty}
        BY <1>a, <2>1 DEF Content
    <2>3. \A c \in Convs : Due(c)' =< Due(c)
        <3>1. CASE pc' = "encoded" /\ UNCHANGED draft
            BY <2>1, <3>1 DEF Due
        <3>2. CASE pc' = "loop" /\ SaveJob(job.text)
            BY <1>e, <2>1, <2>2, <3>2
        <3> QED BY <2>1, <3>1, <3>2
    <2> QED BY <1>a, <1>b, <2>1, <2>3
<1>6. CASE Post
    <2>1. /\ pc = "encoded" /\ Busy /\ server' = Append(server, job) /\ UNCHANGED <<draft, prepared>>
          /\ \/ pc' = "posted" /\ job' = job /\ aborts' = aborts
             \/ pc' = "idle" /\ aborts' = aborts + 1
        BY <1>6 DEF Post, Arrive, Busy, db, Leave
    <2>2. Sending(draft[job.conv])
        BY <2>1 DEF Uploading, CopyIsDraft
    <2>3. ASSUME NEW c \in Convs
          PROVE  (IF job.conv = c THEN 1 ELSE 0) + aborts + Due(c)' =< aborts' + Due(c)
        <3>1. CASE pc' = "posted" /\ job' = job /\ aborts' = aborts
            BY <1>a, <2>1, <2>2, <3>1 DEF Due
        <3>2. CASE pc' = "idle" /\ aborts' = aborts + 1
            BY <1>a, <2>1, <3>2 DEF Due
        <3> QED BY <2>1, <3>1, <3>2
    <2> QED BY <1>0, <2>1, <2>3, OnePost
<1>7. CASE HandleFailed
    <2>1. /\ Busy /\ pc \in {"loaded", "encoded"} /\ pc' = "loop" /\ SaveJob(job.text) /\ UNCHANGED prepared
          /\ \/ UNCHANGED <<server, aborts>>
             \/ server' = Append(server, job) /\ aborts' = aborts + 1
        BY <1>7 DEF HandleFailed, Busy, Arrive
    <2>2. job.text \in Texts \cup {Empty}
        BY <1>a, <2>1 DEF Content
    <2>3. \A c \in Convs : Due(c)' =< Due(c) /\ (c = job.conv => Due(c)' = 0)
        BY <1>e, <2>1, <2>2
    <2>4. \A c \in Convs : Due(c) \in Nat /\ Due(c)' \in Nat
        BY DEF Due
    <2>5. CASE UNCHANGED <<server, aborts>>
        BY <1>a, <1>b, <2>1, <2>3, <2>5
    <2>6. CASE server' = Append(server, job) /\ aborts' = aborts + 1
        <3>1. \A c \in Convs : (IF job.conv = c THEN 1 ELSE 0) + aborts + Due(c)' =< aborts' + Due(c)
            BY <1>a, <2>3, <2>4, <2>6
        <3> QED BY <1>0, <2>1, <2>6, <3>1, OnePost
    <2> QED BY <2>1, <2>5, <2>6
<1>8. CASE AddMessage
    <2>1. /\ pc = "posted" /\ pc' = "stored" /\ UNCHANGED <<draft, server, prepared, aborts>>
          /\ job'.conv = job.conv
        <3>1. job \in Content
            BY <1>8, <1>a DEF AddMessage, Busy
        <3> QED BY <1>8, <3>1 DEF AddMessage, Content
    <2>2. \A c \in Convs : Due(c)' = Due(c) /\ Due(c) \in Nat
        BY <2>1 DEF Due
    <2> QED BY <1>a, <1>b, <2>1, <2>2
<1>9. CASE ClearDraft
    <2>1. Busy /\ pc' = "loop" /\ SaveJob(Empty) /\ UNCHANGED <<server, prepared, aborts>>
        BY <1>9 DEF ClearDraft, Busy
    <2>2. \A c \in Convs : Due(c)' =< Due(c)
        BY <1>e, <2>1
    <2> QED BY <1>a, <1>b, <2>1, <2>2
<1>10. CASE ThrowCanceled \/ Restart
    <2>1. /\ pc' = "idle" /\ UNCHANGED <<server, prepared, draft>>
          /\ aborts' = IF pc \in {"posted", "stored"} THEN aborts + 1 ELSE aborts
        <3>1. CASE ThrowCanceled
            <4>1. pc # "stored"
                BY <3>1 DEF ThrowCanceled
            <4> QED BY <3>1, <4>1 DEF ThrowCanceled, Leave, db
        <3>2. CASE Restart
            BY <3>2 DEF Restart, Leave, db
        <3> QED BY <1>10, <3>1, <3>2
    <2> QED BY <1>f, <2>1
<1>11. CASE Start
    <2>1. pc = "idle" /\ pc' = "loop" /\ UNCHANGED <<server, prepared, aborts, draft, job>>
        BY <1>11 DEF Start, db
    <2>2. \A c \in Convs : Due(c)' = Due(c) /\ Due(c) \in Nat
        BY <2>1 DEF Due
    <2> QED BY <1>a, <1>b, <2>1, <2>2
<1>12. ASSUME NEW c \in Convs, \/ AddAsync(c) \/ Added(c)
                               \/ \E att \in AttIds : RemoveAttachment(c, att)
       PROVE  Counted'
    <2>1. UNCHANGED <<server, prepared, aborts, draft, pc, job>>
        BY <1>12 DEF AddAsync, Added, RemoveAttachment, db, sync
    <2> QED BY <1>c, <2>1
<1>13. CASE Cancel \/ Notify \/ UNCHANGED vars
    <2>1. UNCHANGED <<server, prepared, aborts, draft, pc, job>>
        BY <1>13 DEF Cancel, Notify, vars, db, sync
    <2> QED BY <1>c, <2>1
<1> QED BY <1>1, <1>2, <1>3, <1>4, <1>5, <1>6, <1>7, <1>8, <1>9, <1>10, <1>11, <1>12, <1>13
        DEF Next, App, Run

\* A draft is posted once for each time the user asked for it, and once more for
\* each run that was cut off between a post and the clearing of the draft.
THEOREM SentAsAskedCorrect == Spec /\ Careful => []SentAsAsked
<1>1. Uploading /\ Counted => SentAsAsked
    <2> SUFFICES ASSUME Uploading, Counted, NEW c \in Convs
                 PROVE  Cardinality(PostsOf(c)) =< prepared[c] + aborts
        BY DEF SentAsAsked
    <2>1. /\ IsFiniteSet(PostsOf(c)) /\ Cardinality(PostsOf(c)) + Due(c) =< prepared[c] + aborts
          /\ Due(c) \in Nat /\ prepared[c] \in Nat /\ aborts \in Nat
        BY DEF Counted, Due, Uploading, Typed
    <2>2. Cardinality(PostsOf(c)) \in Nat
        BY <2>1, FS_CardinalityType
    <2> QED BY <2>1, <2>2
<1> QED BY <1>1, UploadingInit, UploadingNext, CountedInit, CountedNext, PTL DEF Spec

-----------------------------------------------------------------------------
(* The types in full, whatever the app does.                               *)

RowsTyped ==
    /\ draft \in [Convs -> Row \cup {None}] /\ cached \in [Convs -> Row \cup {None}]
    /\ atts \in [Convs -> SUBSET AttIds] /\ cachedAtts \in [Convs -> SUBSET AttIds]
    /\ adding \subseteq Convs
    /\ events \in Seq(Event)
    /\ prepared \in [Convs -> 0 .. MaxSends]

\* After a post the server has a message; the row of a draft is never deleted.
RunTyped ==
    /\ server \in Seq(Content)
    /\ DOMAIN messages \subseteq DOMAIN server
    /\ \A id \in DOMAIN messages : messages[id] \in Content
    /\ pc \in {"idle", "loop", "loaded", "encoded", "posted", "stored"}
    /\ job \in Content \cup {None}
    /\ Busy => job # None /\ draft[job.conv] # None
    /\ pc \in {"posted", "stored"} => server # <<>>

\* Each abort has a fault of its own; a pending cancel is one that may still abort.
FaultsTyped ==
    /\ cancelled \in BOOLEAN /\ missed \in BOOLEAN
    /\ aborts \in Nat /\ faults \in 0 .. MaxFaults
    /\ aborts + (IF cancelled THEN 1 ELSE 0) =< faults

Intact == RowsTyped /\ RunTyped /\ FaultsTyped

LEMMA IntactMeans == Intact => TypeOK
<1> SUFFICES ASSUME Intact PROVE TypeOK
    OBVIOUS
<1>1. aborts \in 0 .. MaxFaults
    BY DraftAssumption DEF Intact, FaultsTyped
<1> QED BY <1>1 DEF Intact, RowsTyped, RunTyped, FaultsTyped, Busy, TypeOK

LEMMA IntactInit == Init => Intact
<1> SUFFICES ASSUME Init PROVE Intact
    OBVIOUS
<1>1. RowsTyped
    <2>1. /\ draft = [c \in Convs |-> None] /\ cached = draft
          /\ atts = [c \in Convs |-> {}] /\ cachedAtts = atts
          /\ adding = {} /\ events = <<>> /\ prepared = [c \in Convs |-> 0]
        BY DEF Init
    <2> QED BY <2>1, DraftAssumption DEF RowsTyped
<1>2. RunTyped
    BY DEF Init, RunTyped, Busy
<1>3. FaultsTyped
    <2>1. ~cancelled /\ cancelled \in BOOLEAN /\ missed \in BOOLEAN
        BY Zenon DEF Init
    <2>2. aborts = 0 /\ faults = 0
        BY DEF Init
    <2> QED BY <2>1, <2>2, DraftAssumption DEF FaultsTyped
<1> QED BY <1>1, <1>2, <1>3 DEF Intact

\* A row that is saved is typed, and none is deleted.
LEMMA SavedRowIsTyped ==
    ASSUME NEW rows \in [Convs -> Row \cup {None}], NEW c \in Convs, NEW row \in Row
    PROVE  /\ [rows EXCEPT ![c] = row] \in [Convs -> Row \cup {None}]
           /\ \A d \in Convs : rows[d] # None => [rows EXCEPT ![c] = row][d] # None
BY NoneIsNoRecord

LEMMA SaveJobIsTyped ==
    ASSUME RowsTyped, job \in Content, NEW text \in Texts \cup {Empty}, SaveJob(text)
    PROVE  /\ draft' \in [Convs -> Row \cup {None}]
           /\ \A d \in Convs : draft[d] # None => draft'[d] # None
<1> DEFINE row == [text |-> text, state |-> "editing"]
<1>1. row \in Row /\ job.conv \in Convs
    BY DEF Row, Content
<1>2. draft' = [draft EXCEPT ![job.conv] = row]
    BY DEF SaveJob
<1> HIDE DEF row
<1> QED BY <1>1, <1>2, SavedRowIsTyped DEF RowsTyped

\* The uploader stays where it is while the app works.
LEMMA RunUndisturbed ==
    ASSUME RunTyped, UNCHANGED <<server, messages, pc, job>>,
           \A d \in Convs : draft[d] # None => draft'[d] # None
    PROVE  RunTyped'
<1>1. job # None => job.conv \in Convs
    BY DEF RunTyped, Content
<1> QED BY <1>1 DEF RunTyped, Busy

\* It has put its draft down.
LEMMA RunDone ==
    ASSUME RunTyped, UNCHANGED <<server, messages>>, pc' \in {"idle", "loop"},
           job' \in Content \cup {None}
    PROVE  RunTyped'
BY DEF RunTyped, Busy

LEMMA Posted ==
    ASSUME RunTyped, job \in Content, Arrive, UNCHANGED messages
    PROVE  /\ server' \in Seq(Content) /\ server' # <<>>
           /\ DOMAIN messages' \subseteq DOMAIN server'
           /\ \A id \in DOMAIN messages' : messages'[id] \in Content
<1>1. server' = Append(server, job) /\ server \in Seq(Content)
    BY DEF Arrive, RunTyped
<1>2. /\ server' \in Seq(Content) /\ Len(server') = Len(server) + 1
      /\ DOMAIN server = 1 .. Len(server) /\ DOMAIN server' = 1 .. Len(server')
      /\ Len(server) \in Nat
    BY <1>1
<1>3. server' # <<>> /\ DOMAIN server \subseteq DOMAIN server'
    BY <1>2
<1> QED BY <1>2, <1>3 DEF RunTyped

LEMMA EmittedIsTyped ==
    ASSUME events \in Seq(Event), missed \in BOOLEAN, cancelled \in BOOLEAN,
           NEW es \in Seq(Event), Emit(es)
    PROVE  events' \in Seq(Event) /\ missed' \in BOOLEAN
<1>1. events' \in Seq(Event)
    BY DEF Emit
<1>2. missed' \in BOOLEAN
    BY Zenon DEF Emit
<1> QED BY <1>1, <1>2

LEMMA IntactApp ==
    ASSUME Intact, NEW c \in Convs,
           \/ \E text \in Texts : SetText(c, text)
           \/ PrepareToSend(c) \/ Clear(c) \/ AddAsync(c) \/ Added(c)
           \/ \E att \in AttIds : RemoveAttachment(c, att)
    PROVE  Intact'
<1>a. /\ draft \in [Convs -> Row \cup {None}] /\ cached \in [Convs -> Row \cup {None}]
      /\ atts \in [Convs -> SUBSET AttIds] /\ cachedAtts \in [Convs -> SUBSET AttIds]
      /\ adding \subseteq Convs /\ events \in Seq(Event) /\ prepared \in [Convs -> 0 .. MaxSends]
    BY DEF Intact, RowsTyped
<1>b. ASSUME UNCHANGED sync, RowsTyped', \A d \in Convs : draft[d] # None => draft'[d] # None
      PROVE  Intact'
    <2>1. RunTyped'
        BY <1>b, RunUndisturbed DEF Intact, sync
    <2>2. FaultsTyped'
        BY <1>b DEF Intact, FaultsTyped, sync
    <2> QED BY <1>b, <2>1, <2>2 DEF Intact
\* a row that is saved
<1>c. ASSUME NEW row \in Row, SaveCached(c, row), UNCHANGED sync,
             UNCHANGED <<atts, cachedAtts, adding>>,
             events' \in Seq(Event), prepared' \in [Convs -> 0 .. MaxSends]
      PROVE  Intact'
    <2>1. draft' = [draft EXCEPT ![c] = row] /\ cached' = [cached EXCEPT ![c] = row]
        BY <1>c DEF SaveCached
    <2>2. /\ draft' \in [Convs -> Row \cup {None}] /\ cached' \in [Convs -> Row \cup {None}]
          /\ \A d \in Convs : draft[d] # None => draft'[d] # None
        BY <1>a, <1>c, <2>1, SavedRowIsTyped
    <2>3. RowsTyped'
        BY <1>a, <1>c, <2>2 DEF RowsTyped
    <2> QED BY <1>b, <1>c, <2>2, <2>3
<1>1. ASSUME NEW text \in Texts, SetText(c, text) PROVE Intact'
    <2>1. \E row \in Row : SaveCached(c, row)
        <3>1. CASE cached[c] = None
            <4>1. [text |-> text, state |-> "editing"] \in Row
                BY DEF Row
            <4> QED BY <1>1, <3>1, <4>1 DEF SetText
        <3>2. CASE cached[c] # None
            <4>1. cached[c] \in Row
                BY <1>a, <3>2
            <4>2. [cached[c] EXCEPT !.text = text] \in Row
                BY <4>1 DEF Row
            <4> QED BY <1>1, <3>2, <4>2 DEF SetText
        <3> QED BY <3>1, <3>2
    <2>2. UNCHANGED <<atts, cachedAtts, adding, events, prepared>> /\ UNCHANGED sync
        BY <1>1 DEF SetText
    <2> QED BY <1>a, <1>c, <2>1, <2>2
<1>2. CASE PrepareToSend(c)
    <2> DEFINE row == [text |-> IF cached[c] = None THEN Empty ELSE cached[c].text, state |-> "sending"]
    <2>1. row \in Row
        BY <1>a DEF Row
    <2>2. SaveCached(c, row) /\ UNCHANGED <<atts, cachedAtts, adding, events>> /\ UNCHANGED sync
        BY <1>2 DEF PrepareToSend
    <2>3. prepared' \in [Convs -> 0 .. MaxSends]
        <3>1. prepared[c] < MaxSends /\ prepared' = [prepared EXCEPT ![c] = @ + 1]
            BY <1>2 DEF PrepareToSend
        <3> QED BY <1>a, <3>1, DraftAssumption
    <2> HIDE DEF row
    <2> QED BY <1>a, <1>c, <2>1, <2>2, <2>3
<1>3. CASE Clear(c)
    <2> DEFINE e == [kind |-> "draftRemoved", conv |-> c]
    <2>1. e \in Event /\ Cleared \in Row
        BY DEF Event, Cleared, Row
    <2>2. /\ SaveCached(c, Cleared) /\ events' = Append(events, e) /\ UNCHANGED sync
          /\ UNCHANGED <<atts, cachedAtts, adding, prepared>>
        BY <1>3 DEF Clear
    <2> HIDE DEF e
    <2>3. events' \in Seq(Event)
        BY <1>a, <2>1, <2>2
    <2> QED BY <1>a, <1>c, <2>1, <2>2, <2>3
\* the rows stay
<1>d. ASSUME UNCHANGED <<draft, cached, prepared>>, UNCHANGED sync,
             atts' \in [Convs -> SUBSET AttIds], cachedAtts' \in [Convs -> SUBSET AttIds],
             adding' \subseteq Convs, events' \in Seq(Event)
      PROVE  Intact'
    <2>1. RowsTyped'
        BY <1>a, <1>d DEF RowsTyped
    <2> QED BY <1>b, <1>d, <2>1
<1>4. CASE AddAsync(c)
    <2>1. adding' = adding \cup {c} /\ UNCHANGED <<draft, cached, prepared, atts, cachedAtts, events>>
        BY <1>4 DEF AddAsync, db
    <2>2. UNCHANGED sync
        BY <1>4 DEF AddAsync, db, sync
    <2> QED BY <1>a, <1>d, <2>1, <2>2
<1>5. CASE Added(c)
    <2>1. /\ adding' = adding \ {c} /\ UNCHANGED <<draft, cached, prepared, cachedAtts>>
          /\ UNCHANGED sync
        BY <1>5 DEF Added
    <2>2. PICK att : att = idForNewDraftAttachment(c)
        OBVIOUS
    <2>3. CASE /\ att \in AttIds /\ atts' = [atts EXCEPT ![c] = @ \cup {att}]
               /\ events' = Append(events, [kind |-> "attAdded", conv |-> c, att |-> att])
        <3>1. [kind |-> "attAdded", conv |-> c, att |-> att] \in Event
            BY <2>3 DEF Event
        <3>2. events' \in Seq(Event)
            BY <1>a, <2>3, <3>1
        <3>3. atts' \in [Convs -> SUBSET AttIds]
            BY <1>a, <2>3
        <3> QED BY <1>a, <1>d, <2>1, <3>2, <3>3
    <2>4. CASE UNCHANGED <<atts, events>>
        BY <1>a, <1>d, <2>1, <2>4
    <2> QED BY <1>5, <2>2, <2>3, <2>4 DEF Added
<1>6. ASSUME NEW att \in AttIds, RemoveAttachment(c, att) PROVE Intact'
    <2>1. /\ atts' = [atts EXCEPT ![c] = @ \ {att}] /\ cachedAtts' = [cachedAtts EXCEPT ![c] = @ \ {att}]
          /\ UNCHANGED <<draft, cached, prepared, adding, events>> /\ UNCHANGED sync
        BY <1>6 DEF RemoveAttachment
    <2>2. atts' \in [Convs -> SUBSET AttIds] /\ cachedAtts' \in [Convs -> SUBSET AttIds]
        BY <1>a, <2>1
    <2> QED BY <1>a, <1>d, <2>1, <2>2
<1> QED BY <1>1, <1>2, <1>3, <1>4, <1>5, <1>6

LEMMA IntactNotify == Intact /\ Notify => Intact'
<1> SUFFICES ASSUME Intact, Notify PROVE Intact'
    OBVIOUS
<1>a. /\ draft \in [Convs -> Row \cup {None}] /\ cached \in [Convs -> Row \cup {None}]
      /\ atts \in [Convs -> SUBSET AttIds] /\ cachedAtts \in [Convs -> SUBSET AttIds]
      /\ events \in Seq(Event)
    BY DEF Intact, RowsTyped
<1>1. PICK e \in Event : e = Head(events)
    <2>1. events # <<>>
        BY DEF Notify
    <2> QED BY <1>a, <2>1
<1>2. events' \in Seq(Event) /\ UNCHANGED <<draft, adding, prepared>> /\ UNCHANGED sync
    <2>1. events # <<>> /\ events' = Tail(events) /\ UNCHANGED <<draft, adding, prepared>>
          /\ UNCHANGED sync
        BY DEF Notify
    <2> QED BY <1>a, <2>1
<1>3. /\ cached' \in [Convs -> Row \cup {None}]
      /\ atts' \in [Convs -> SUBSET AttIds] /\ cachedAtts' \in [Convs -> SUBSET AttIds]
    <2>0. e.conv \in Convs
        BY <1>1 DEF Event
    <2>1. CASE e.kind = "draftModified"
        <3>1. cached' = [cached EXCEPT ![e.conv] = draft[e.conv]] /\ UNCHANGED <<cachedAtts, atts>>
            BY <1>1, <2>1 DEF Notify
        <3> QED BY <1>a, <2>0, <3>1
    <2>2. CASE e.kind = "attAdded"
        <3>1. /\ cachedAtts' = [cachedAtts EXCEPT ![e.conv] = @ \cup ({e.att} \cap atts[e.conv])]
              /\ UNCHANGED <<cached, atts>>
            BY <1>1, <2>2 DEF Notify
        <3> QED BY <1>a, <2>0, <3>1
    <2>3. CASE e.kind = "attRemoved"
        <3>1. cachedAtts' = [cachedAtts EXCEPT ![e.conv] = @ \ {e.att}] /\ UNCHANGED <<cached, atts>>
            BY <1>1, <2>3 DEF Notify
        <3> QED BY <1>a, <2>0, <3>1
    <2>4. CASE e.kind = "draftRemoved"
        <3>1. /\ atts' = [atts EXCEPT ![e.conv] = @ \ cachedAtts[e.conv]]
              /\ cachedAtts' = [cachedAtts EXCEPT ![e.conv] = {}] /\ UNCHANGED cached
            BY <1>1, <2>4 DEF Notify
        <3> QED BY <1>a, <2>0, <3>1
    <2>5. e.kind \in {"draftModified", "attAdded", "attRemoved", "draftRemoved"}
        BY <1>1 DEF Event
    <2> QED BY <2>1, <2>2, <2>3, <2>4, <2>5
<1>4. RowsTyped'
    BY <1>2, <1>3 DEF Intact, RowsTyped
<1>5. RunTyped'
    BY <1>2, RunUndisturbed DEF Intact, sync
<1>6. FaultsTyped'
    BY <1>2 DEF Intact, FaultsTyped, sync
<1> QED BY <1>4, <1>5, <1>6 DEF Intact

LEMMA IntactRun == Intact /\ (Run \/ Cancel \/ Restart) => Intact'
<1> SUFFICES ASSUME Intact, Run \/ Cancel \/ Restart PROVE Intact'
    OBVIOUS
<1>a. /\ draft \in [Convs -> Row \cup {None}] /\ atts \in [Convs -> SUBSET AttIds]
      /\ events \in Seq(Event) /\ cancelled \in BOOLEAN /\ missed \in BOOLEAN
      /\ aborts \in Nat /\ faults \in 0 .. MaxFaults /\ server \in Seq(Content)
      /\ job \in Content \cup {None} /\ MaxFaults \in Nat
      /\ aborts + (IF cancelled THEN 1 ELSE 0) =< faults
    BY DraftAssumption DEF Intact, RowsTyped, RunTyped, FaultsTyped
<1>b. Busy => job \in Content /\ job.conv \in Convs /\ job.text \in Texts \cup {Empty}
    BY DEF Intact, RunTyped, Content
<1>c. Fault => faults' \in 0 .. MaxFaults /\ faults' = faults + 1
    BY <1>a DEF Fault
\* the app's side is left alone
<1>d. UNCHANGED <<draft, atts, events, prepared>> /\ UNCHANGED ui => RowsTyped'
    BY DEF Intact, RowsTyped, ui
\* no fault is used up
<1>e. UNCHANGED <<missed, aborts, faults>> /\ (cancelled' = cancelled \/ ~cancelled') /\ cancelled' \in BOOLEAN
        => FaultsTyped'
    BY <1>a DEF FaultsTyped
\* a cancel or a fault becomes an abort
<1>f. ASSUME cancelled' = FALSE, missed' \in BOOLEAN, aborts' \in {aborts, aborts + 1},
             \/ cancelled /\ faults' = faults
             \/ faults' = faults /\ aborts' = aborts
             \/ faults' = faults + 1 /\ faults' \in 0 .. MaxFaults
      PROVE  FaultsTyped'
    <2>1. ~cancelled' /\ cancelled' \in BOOLEAN
        BY <1>f
    <2>2. aborts =< faults /\ (cancelled => aborts + 1 =< faults)
        <3>1. CASE cancelled
            BY <1>a, <3>1
        <3>2. CASE ~cancelled
            BY <1>a, <3>2
        <3> QED BY <3>1, <3>2
    <2>3. aborts' \in Nat /\ faults' \in 0 .. MaxFaults /\ aborts' =< faults'
        BY <1>a, <1>f, <2>2
    <2>4. aborts' + (IF cancelled' THEN 1 ELSE 0) =< faults'
        <3>1. (IF cancelled' THEN 1 ELSE 0) = 0
            BY <2>1
        <3>2. ASSUME NEW x \in Nat, NEW y \in Nat, x =< y, NEW k, k = 0 PROVE x + k =< y
            BY <3>2
        <3>3. faults' \in Nat
            BY <1>a, <2>3
        <3> QED BY <2>3, <3>1, <3>2, <3>3, Zenon
    <2> QED BY <1>f, <2>1, <2>3, <2>4 DEF FaultsTyped
<1>1. CASE Start
    <2>1. /\ pc' = "loop" /\ cancelled' = FALSE
          /\ UNCHANGED <<server, messages, job, missed, aborts, faults>>
          /\ UNCHANGED <<draft, atts, events, prepared>> /\ UNCHANGED ui
        BY <1>1 DEF Start, db
    <2> QED BY <1>a, <1>d, <1>e, <2>1, RunDone DEF Intact
<1>2. CASE FirstSendable
    <2>1. /\ UNCHANGED <<server, messages, missed, aborts, faults>>
          /\ UNCHANGED <<draft, atts, events, prepared>> /\ UNCHANGED ui
        BY <1>2 DEF FirstSendable, db
    <2>2. CASE Leave
        BY <1>a, <1>d, <1>e, <2>1, <2>2, RunDone DEF Intact, Leave
    <2>3. ASSUME NEW c \in Convs, Sending(draft[c]), pc' = "loaded", UNCHANGED cancelled,
                 job' = [conv |-> c, text |-> draft[c].text, atts |-> {}]
          PROVE  Intact'
        <3>1. draft[c] # None /\ draft[c] \in Row
            BY <1>a, <2>3 DEF Sending
        <3>2. job' \in Content /\ job'.conv = c /\ job' # None
            BY <2>3, <3>1, NoneIsNoRecord DEF Row, Content
        <3>3. RunTyped'
            BY <2>1, <2>3, <3>1, <3>2 DEF Intact, RunTyped, Busy
        <3> QED BY <1>a, <1>d, <1>e, <2>1, <2>3, <3>3 DEF Intact
    <2> QED BY <1>2, <2>2, <2>3 DEF FirstSendable
<1>3. CASE ThrowCanceled
    <2>1. /\ UNCHANGED <<server, messages, missed, faults>> /\ cancelled /\ Leave
          /\ UNCHANGED <<draft, atts, events, prepared>> /\ UNCHANGED ui
          /\ aborts' \in {aborts, aborts + 1}
        BY <1>3 DEF ThrowCanceled, db
    <2>2. RunTyped'
        BY <2>1, RunDone DEF Leave, Intact
    <2>3. FaultsTyped'
        BY <1>a, <1>f, <2>1 DEF Leave
    <2> QED BY <1>d, <2>1, <2>2, <2>3 DEF Intact
<1>4. CASE Encode
    <2>0. /\ UNCHANGED <<atts, messages, server, cancelled, prepared, aborts, faults>> /\ UNCHANGED ui
          /\ Busy /\ pc = "loaded"
        BY <1>4 DEF Encode, Busy
    <2>1. CASE /\ job' = [job EXCEPT !.atts = atts[job.conv]] /\ pc' = "encoded"
               /\ UNCHANGED <<draft, events, missed>>
        <3>1. job' \in Content /\ job'.conv = job.conv /\ job' # None
            BY <1>a, <1>b, <2>0, <2>1, NoneIsNoRecord DEF Content
        <3>2. RunTyped'
            BY <2>0, <2>1, <3>1 DEF Intact, RunTyped, Busy
        <3> QED BY <1>a, <1>d, <1>e, <2>0, <2>1, <3>2 DEF Intact
    <2>2. CASE SaveJob(job.text) /\ Emit(Modified(job.conv)) /\ pc' = "loop" /\ job' = None
        <3>1. draft' \in [Convs -> Row \cup {None}]
            BY <1>b, <2>0, <2>2, SaveJobIsTyped DEF Intact
        <3>2. Modified(job.conv) \in Seq(Event)
            BY <1>b, <2>0, EmittedIsHarmless DEF Harmless
        <3>3. events' \in Seq(Event) /\ missed' \in BOOLEAN
            BY <1>a, <2>2, <3>2, EmittedIsTyped
        <3>4. RowsTyped'
            BY <2>0, <3>1, <3>3 DEF Intact, RowsTyped, ui
        <3>5. RunTyped'
            BY <2>0, <2>2, RunDone DEF Intact
        <3>6. FaultsTyped'
            BY <1>a, <2>0, <3>3 DEF FaultsTyped
        <3> QED BY <3>4, <3>5, <3>6 DEF Intact
    <2> QED BY <1>4, <2>1, <2>2 DEF Encode
<1>5. CASE Post
    <2>0. /\ Busy /\ Arrive /\ UNCHANGED <<draft, atts, messages, events, missed, prepared, faults>>
          /\ UNCHANGED ui
        BY <1>5 DEF Post, Busy, db
    <2>1. /\ server' \in Seq(Content) /\ server' # <<>> /\ DOMAIN messages' \subseteq DOMAIN server'
          /\ \A id \in DOMAIN messages' : messages'[id] \in Content
        BY <1>b, <2>0, Posted DEF Intact
    <2>2. CASE ~cancelled /\ pc' = "posted" /\ UNCHANGED <<job, cancelled, aborts>>
        <3>1. RunTyped'
            BY <2>0, <2>1, <2>2 DEF Intact, RunTyped, Busy
        <3> QED BY <1>a, <1>d, <1>e, <2>0, <2>2, <3>1 DEF Intact
    <2>3. CASE cancelled /\ Leave /\ aborts' = aborts + 1
        <3>1. RunTyped'
            BY <2>1, <2>3 DEF RunTyped, Busy, Leave
        <3>2. FaultsTyped'
            BY <1>a, <1>f, <2>0, <2>3 DEF Leave
        <3> QED BY <1>d, <2>0, <3>1, <3>2 DEF Intact
    <2> QED BY <1>5, <2>2, <2>3 DEF Post
<1>6. CASE HandleFailed
    <2>0. /\ Busy /\ Fault /\ UNCHANGED <<messages, cancelled, prepared>> /\ UNCHANGED ui
          /\ SaveJob(job.text) /\ Emit(Removals(job.conv, atts[job.conv]) \o Modified(job.conv))
          /\ pc' = "loop" /\ job' = None /\ atts' = [atts EXCEPT ![job.conv] = {}]
          /\ \/ UNCHANGED <<server, aborts>>
             \/ Arrive /\ aborts' = aborts + 1
        BY <1>6 DEF HandleFailed, Busy
    <2>1. draft' \in [Convs -> Row \cup {None}] /\ atts' \in [Convs -> SUBSET AttIds]
        BY <1>a, <1>b, <2>0, SaveJobIsTyped DEF Intact
    <2>2. Removals(job.conv, atts[job.conv]) \o Modified(job.conv) \in Seq(Event)
        <3>1. atts[job.conv] \in SUBSET AttIds
            BY <1>a, <1>b, <2>0
        <3> QED BY <1>b, <2>0, <3>1, EmittedIsHarmless DEF Harmless
    <2>3. events' \in Seq(Event) /\ missed' \in BOOLEAN
        BY <1>a, <2>0, <2>2, EmittedIsTyped
    <2>4. RowsTyped'
        BY <2>0, <2>1, <2>3 DEF Intact, RowsTyped, ui
    <2>5. RunTyped'
        <3>1. CASE UNCHANGED <<server, aborts>>
            BY <2>0, <3>1, RunDone DEF Intact
        <3>2. CASE Arrive
            <4>1. /\ server' \in Seq(Content) /\ DOMAIN messages' \subseteq DOMAIN server'
                  /\ \A id \in DOMAIN messages' : messages'[id] \in Content
                BY <1>b, <2>0, <3>2, Posted DEF Intact
            <4> QED BY <2>0, <4>1 DEF RunTyped, Busy
        <3> QED BY <2>0, <3>1, <3>2
    <2>6. FaultsTyped'
        BY <1>a, <1>c, <2>0, <2>3 DEF FaultsTyped
    <2> QED BY <2>4, <2>5, <2>6 DEF Intact
<1>7. CASE AddMessage
    <2>0. /\ Busy /\ pc = "posted" /\ pc' = "stored"
          /\ SaveMessage([job EXCEPT !.atts = atts[job.conv]])
          /\ job' = [job EXCEPT !.atts = atts[job.conv]]
          /\ atts' = [atts EXCEPT ![job.conv] = {}]
          /\ UNCHANGED <<draft, server, events, cancelled, missed, prepared, aborts, faults>>
          /\ UNCHANGED ui
        BY <1>7 DEF AddMessage, Busy
    <2>1. job' \in Content /\ job'.conv = job.conv /\ job' # None
        BY <1>a, <1>b, <2>0, NoneIsNoRecord DEF Content
    <2>2. Len(server) \in DOMAIN server
        <3>1. server # <<>>
            BY <2>0 DEF Intact, RunTyped
        <3> QED BY <1>a, <3>1
    <2>3. messages' = [id \in DOMAIN messages \cup {Len(server)} |->
                          IF id = Len(server) THEN job' ELSE messages[id]]
        BY <2>0 DEF SaveMessage
    <2>4. /\ DOMAIN messages' \subseteq DOMAIN server
          /\ \A id \in DOMAIN messages' : messages'[id] \in Content
        BY <2>1, <2>2, <2>3 DEF Intact, RunTyped
    <2>5. RunTyped'
        BY <2>0, <2>1, <2>4 DEF Intact, RunTyped, Busy
    <2>6. RowsTyped'
        <3>1. atts' \in [Convs -> SUBSET AttIds]
            BY <1>a, <2>0
        <3> QED BY <2>0, <3>1 DEF Intact, RowsTyped, ui
    <2> QED BY <1>a, <1>e, <2>0, <2>5, <2>6 DEF Intact
<1>8. CASE ClearDraft
    <2>0. /\ Busy /\ SaveJob(Empty) /\ Emit(Removals(job.conv, job.atts) \o Modified(job.conv))
          /\ pc' = "loop" /\ job' = None /\ UNCHANGED ui
          /\ UNCHANGED <<atts, messages, server, cancelled, prepared, aborts, faults>>
        BY <1>8 DEF ClearDraft, Busy
    <2>1. draft' \in [Convs -> Row \cup {None}]
        BY <1>b, <2>0, SaveJobIsTyped DEF Intact
    <2>2. Removals(job.conv, job.atts) \o Modified(job.conv) \in Seq(Event)
        <3>1. job.atts \in SUBSET AttIds
            BY <1>b, <2>0 DEF Content
        <3> QED BY <1>b, <2>0, <3>1, EmittedIsHarmless DEF Harmless
    <2>3. events' \in Seq(Event) /\ missed' \in BOOLEAN
        BY <1>a, <2>0, <2>2, EmittedIsTyped
    <2>4. RowsTyped'
        BY <2>0, <2>1, <2>3 DEF Intact, RowsTyped, ui
    <2>5. RunTyped'
        BY <2>0, RunDone DEF Intact
    <2>6. FaultsTyped'
        BY <1>a, <2>0, <2>3 DEF FaultsTyped
    <2> QED BY <2>4, <2>5, <2>6 DEF Intact
<1>9. CASE Cancel
    <2>1. /\ Fault /\ ~cancelled /\ cancelled' = TRUE
          /\ UNCHANGED <<draft, atts, events, prepared>> /\ UNCHANGED ui
          /\ UNCHANGED <<server, messages, pc, job, missed, aborts>>
        BY <1>9 DEF Cancel, db
    <2>2. RunTyped'
        BY <2>1, RunUndisturbed DEF Intact
    <2>3. FaultsTyped'
        BY <1>a, <1>c, <2>1 DEF FaultsTyped
    <2> QED BY <1>d, <2>1, <2>2, <2>3 DEF Intact
<1>10. CASE Restart
    <2>1. /\ Fault /\ Leave /\ aborts' \in {aborts, aborts + 1} /\ missed' = FALSE
          /\ cached' = draft /\ cachedAtts' = atts /\ adding' = {} /\ events' = <<>>
          /\ UNCHANGED <<draft, atts, messages, server, prepared>>
        BY <1>10 DEF Restart, db
    <2>2. RowsTyped'
        BY <2>1 DEF Intact, RowsTyped
    <2>3. RunTyped'
        BY <2>1, RunDone DEF Leave, Intact
    <2>4. FaultsTyped'
        BY <1>c, <1>f, <2>1 DEF Leave
    <2> QED BY <2>2, <2>3, <2>4 DEF Intact
<1> QED BY <1>1, <1>2, <1>3, <1>4, <1>5, <1>6, <1>7, <1>8, <1>9, <1>10 DEF Run

LEMMA IntactNext == Intact /\ [Next]_vars => Intact'
<1>1. Intact /\ UNCHANGED vars => Intact'
    <2> SUFFICES ASSUME Intact, UNCHANGED vars PROVE Intact'
        OBVIOUS
    <2>1. UNCHANGED <<draft, atts, cached, cachedAtts, adding, events, prepared>> /\ UNCHANGED sync
        BY DEF vars, db, ui, sync
    <2>2. RowsTyped'
        BY <2>1 DEF Intact, RowsTyped
    <2>3. RunTyped'
        BY <2>1, RunUndisturbed DEF Intact, sync
    <2>4. FaultsTyped'
        BY <2>1 DEF Intact, FaultsTyped, sync
    <2> QED BY <2>2, <2>3, <2>4 DEF Intact
<1> QED BY <1>1, IntactApp, IntactNotify, IntactRun DEF Next, App

\* Whatever the app does to a draft that is being sent: the rows, copies and events
\* keep their form, a removed attachment is named by its own idx, the draft that
\* the uploader works on has a row, and a message gets the id of something posted.
THEOREM TypeCorrect == Spec => []TypeOK
<1> QED BY IntactInit, IntactNext, IntactMeans, PTL DEF Spec

=============================================================================

------------------------------ MODULE KeysSync ------------------------------
(***************************************************************************)
(* The keys: KeysSyncer (sync/keyssyncer.cpp), which every sync starts     *)
(* with, the tables keys_symm, keys_asymm and keys_public, the cache of    *)
(* PrivateKeyProvider, and the two later parts of Syncer::run() that need  *)
(* them: MessagesUploader and MessagesSender use the newest valid pairs,   *)
(* MessagesSyncer decrypts with the pair a message was sealed with and     *)
(* fetches the public key of a sender it does not know yet.  A message that*)
(* cannot be decoded is skipped, but one that cannot be opened ends the    *)
(* sync, and so does a pair of a type that is not known.  Meanwhile another*)
(* client of the user registers and revokes pairs, and time goes by.  A    *)
(* step ends at an HTTP request or a commit.  Other contents of those parts*)
(* are in MessagesSender and MessageSync.                                  *)
(***************************************************************************)
EXTENDS Naturals, SequencesExt

CONSTANTS
    NoKey,
    Encryption, Signature,  \* ids of the user's key pairs, by AsymmetricKeyType
    Invalid,                \* those of another type
    NoPrivate,              \* pairs that the server has no private key of
    validFrom, validUntil,  \* of each pair
    First,                  \* the pairs the user registered with
    Msgs,                   \* messages to the user
    Form,                   \* what is wrong with each of them
    Signer,                 \* the sender's key that signs each of them
    Rows,                   \* of `delivery`: messages of the user, by recipient
    MaxTime,                \* bound on the clock
    Revocable,              \* bounds the pairs that are revoked
    MaxChanges,             \* bound on what time, others and the server do
    MaxFaults               \* bound on errors, cancels and crashes

Pairs   == Encryption \cup Signature \cup Invalid
Signers == {Signer[m] : m \in Msgs}

\* A message whose key safe is too short has no key to look for; one whose format is
\* not supported, or whose parts cannot be parsed or decrypted, shows it when it is
\* opened with its key; one that is malformed, when its content is parsed; of one
\* that is forged the signature does not verify, or what is parsed behind that fails.
Forms == {"good", "short", "broken", "malformed", "forged"}

\* The ids are unique over both types, as `id` is the primary key of keys_asymm.
ASSUME KeysAssumption ==
    /\ Encryption \cap Signature = {} /\ Invalid \cap (Encryption \cup Signature) = {}
    /\ Form \in [Msgs -> Forms] /\ NoKey \notin Pairs \cup Msgs \cup Rows
    /\ NoPrivate \subseteq Pairs /\ First \subseteq Pairs
    /\ Revocable \subseteq Pairs
    /\ MaxTime \in Nat \ {0} /\ MaxChanges \in Nat /\ MaxFaults \in Nat
    /\ validFrom \in [Pairs -> 0 .. MaxTime] /\ validUntil \in [Pairs -> 0 .. MaxTime]

VARIABLES
    now,            \* the clock
    offered, revoked,   \* pairs on the server; those with a revocation
    published,      \* senders' keys that can still be asked for
    inbox, sealed,  \* the user's messages on the server, and the pair of each
    privateDataKey, \* is there a row in keys_symm?
    pairs, revocations, \* rows of keys_asymm; those with a revocation
    publicKeys,     \* keys of senders in keys_public
    stored,         \* rows of `message`
    timestamp,      \* SyncDao::timestamp(Message), as a position in the inbox
    row,            \* the state of each row of `delivery`
    cache,          \* PrivateKeyProvider::cache_
    part, mode,     \* where Syncer::run() is
    answer, left,   \* the key pairs of this sync, and those not stored yet
    unsent,         \* rows that MessagesSender::run() has not come to
    signing,        \* row and pair of the message that is posted next
    upTo,           \* the end of the messages that were downloaded
    shouldCancel, faults

world    == <<now, offered, revoked, published, inbox, sealed>>
keys     == <<privateDataKey, pairs, revocations, publicKeys>>
run      == <<part, mode, answer, left, unsent, signing, upTo, shouldCancel>>
keysVars == <<world, keys, stored, timestamp, row, cache, run, faults>>

Answers == [pair : Pairs, revoked : BOOLEAN]
PartsOfSync == {"symm", "pairs", "store", "sign", "post", "download", "decrypt",
                "verify", "fetch", "stamp"}

\* The types; what is stored came from the server, and has a private key.
KeysTypeOK ==
    /\ now \in 1 .. MaxTime
    /\ offered \subseteq Pairs /\ revoked \subseteq offered
    /\ published \subseteq Signers
    /\ inbox \in Seq(Msgs) /\ sealed \in [Msgs -> Encryption \cup {NoKey}]
    /\ privateDataKey \in BOOLEAN
    /\ pairs \subseteq offered \ NoPrivate /\ revocations \subseteq pairs \cap revoked
    /\ publicKeys \subseteq Signers
    /\ stored \subseteq Range(inbox) /\ timestamp \in 0 .. Len(inbox)
    /\ row \in [Rows -> {"draft", "unsent", "delivered", "unknown"}]
    /\ cache \subseteq pairs
    /\ part \in PartsOfSync \cup {"idle"} /\ mode \in {"SendOnly", "Everything"}
    /\ left \subseteq answer /\ answer \subseteq Answers
    /\ unsent \subseteq Rows
    /\ signing \in [row : Rows, pair : Signature] \cup {NoKey}
    /\ upTo \in 0 .. Len(inbox)
    /\ shouldCancel \in BOOLEAN /\ faults \in 0 .. MaxFaults

KeysInit ==
    /\ now = 1 /\ offered = First /\ revoked = {} /\ published = Signers
    /\ inbox = <<>> /\ sealed = [m \in Msgs |-> NoKey]
    /\ privateDataKey = FALSE
    /\ pairs = {} /\ revocations = {} /\ publicKeys = {} /\ cache = {}
    /\ stored = {} /\ timestamp = 0
    /\ row = [r \in Rows |-> "draft"]
    /\ part = "idle" /\ mode = "SendOnly" /\ answer = {} /\ left = {}
    /\ unsent = {} /\ signing = NoKey /\ upTo = 0
    /\ shouldCancel = FALSE /\ faults = 0

-----------------------------------------------------------------------------
(* The server, the user's other clients, the senders, and time.            *)

here == <<keys, stored, timestamp, row, cache, run, faults>>

Tick ==
    /\ now < MaxTime
    /\ now' = now + 1
    /\ UNCHANGED <<offered, revoked, published, inbox, sealed, here>>

AddPair(k) ==
    /\ k \notin offered
    /\ offered' = offered \cup {k}
    /\ UNCHANGED <<now, revoked, published, inbox, sealed, here>>

Revoke(k) ==
    /\ k \in Revocable /\ k \in offered \ revoked
    /\ revoked' = revoked \cup {k}
    /\ UNCHANGED <<now, offered, published, inbox, sealed, here>>

\* A sender asks for the user's "latest-enc" and posts.
Receive(m, k) ==
    /\ m \notin Range(inbox)
    /\ k \in offered
    /\ inbox' = Append(inbox, m)
    /\ sealed' = [sealed EXCEPT ![m] = k]
    /\ UNCHANGED <<now, offered, revoked, published, here>>

\* A sender's account is closed.
Close(s) ==
    /\ s \in published
    /\ published' = published \ {s}
    /\ UNCHANGED <<now, offered, revoked, inbox, sealed, here>>

-----------------------------------------------------------------------------
(* The first part of a sync: KeysSyncer::run().                            *)

\* run() returns or throws: its variables are gone.
EndSync ==
    /\ part' = "idle" /\ mode' = "SendOnly" /\ answer' = {} /\ left' = {}
    /\ unsent' = {} /\ signing' = NoKey /\ upTo' = 0 /\ shouldCancel' = FALSE

StartSync(m) ==
    /\ part = "idle"
    /\ part' = "symm" /\ mode' = m
    /\ UNCHANGED <<world, keys, stored, timestamp, row, cache, answer, left, unsent, signing, upTo,
                   shouldCancel, faults>>

StorePrivateDataKey ==
    /\ part = "symm"
    /\ privateDataKey' = TRUE
    /\ part' = "pairs"
    /\ UNCHANGED <<world, pairs, revocations, publicKeys, stored, timestamp, row, cache, mode,
                   answer, left, unsent, signing, upTo, shouldCancel, faults>>

GetAsymmKeyPairs ==
    /\ part = "pairs" /\ ~shouldCancel
    /\ answer' = {[pair |-> k, revoked |-> k \in revoked] : k \in offered}
    /\ left' = answer'
    /\ part' = "store"
    /\ UNCHANGED <<world, keys, stored, timestamp, row, cache, mode, unsent, signing, upTo,
                   shouldCancel, faults>>

StoreFrame == <<world, privateDataKey, publicKeys, stored, timestamp, row, cache, part, mode,
                answer, unsent, signing, upTo, shouldCancel, faults>>

Revocations(a) ==
    IF a.revoked THEN revocations \cup {a.pair} ELSE revocations \ {a.pair}

StorePair_Slip1(a) ==       \* `return` for a pair without a private key
    /\ part = "store" /\ a \in left /\ a.pair \notin Invalid
    /\ left' = IF a.pair \in NoPrivate THEN {} ELSE left \ {a}
    /\ IF a.pair \in NoPrivate
       THEN UNCHANGED <<pairs, revocations>>
       ELSE pairs' = pairs \cup {a.pair} /\ revocations' = Revocations(a)
    /\ UNCHANGED StoreFrame

StorePair_Slip2(a) ==       \* a pair that is stored already is left alone
    /\ part = "store" /\ a \in left /\ a.pair \notin Invalid
    /\ left' = left \ {a}
    /\ IF a.pair \in NoPrivate \cup pairs
       THEN UNCHANGED <<pairs, revocations>>
       ELSE pairs' = pairs \cup {a.pair} /\ revocations' = Revocations(a)
    /\ UNCHANGED StoreFrame

StorePair_Slip3(a) ==       \* no look at the private key being empty
    /\ part = "store" /\ a \in left /\ a.pair \notin Invalid
    /\ left' = left \ {a}
    /\ pairs' = pairs \cup {a.pair} /\ revocations' = Revocations(a)
    /\ UNCHANGED StoreFrame

\* A pair that is stored already gets the revocation only.
StorePair(a) ==
    /\ part = "store" /\ a \in left /\ a.pair \notin Invalid
    /\ left' = left \ {a}
    /\ IF a.pair \in NoPrivate
       THEN UNCHANGED <<pairs, revocations>>
       ELSE pairs' = pairs \cup {a.pair} /\ revocations' = Revocations(a)
    /\ UNCHANGED StoreFrame

\* keyTypeFromString() throws before the pair is looked at, and ends the sync.
UnknownType(a) ==
    /\ part = "store" /\ a \in left /\ a.pair \in Invalid
    /\ EndSync
    /\ UNCHANGED <<world, keys, stored, timestamp, row, cache, faults>>

-----------------------------------------------------------------------------
(* MessagesUploader adds rows to `delivery`; MessagesSender::run().        *)

IsValid(k) == validFrom[k] <= now /\ now <= validUntil[k]

LatestKeys_Slip(type) ==        \* ORDER BY without DESC
    LET valid == {k \in pairs \cap type : IsValid(k)}
    IN  {k \in valid : \A other \in valid : validFrom[k] <= validFrom[other]}

\* AsymmetricKeyPairDao::load(type): valid now, the latest valid_from first.
LatestKeys(type) ==
    LET valid == {k \in pairs \cap type : IsValid(k)}
    IN  {k \in valid : \A other \in valid : validFrom[other] <= validFrom[k]}

\* MessagesUploader encrypts for and signs with the newest pairs; a draft for which
\* there are none is given back to the user.
Upload(new) ==
    /\ part = "store" /\ left = {}
    /\ \A r \in new : row[r] = "draft"
    /\ \/ new = {} /\ UNCHANGED cache
       \/ /\ new # {} /\ ~shouldCancel
          /\ \E enc \in LatestKeys(Encryption), sig \in LatestKeys(Signature) :
                cache' = cache \cup {enc, sig}
    /\ row' = [r \in Rows |-> IF r \in new THEN "unsent" ELSE row[r]]
    /\ unsent' = {r \in Rows : row'[r] = "unsent"}
    /\ part' = "sign"
    /\ UNCHANGED <<world, keys, stored, timestamp, mode, answer, left, signing, upTo,
                   shouldCancel, faults>>

Mark(r, state) ==
    /\ row' = [row EXCEPT ![r] = state]
    /\ unsent' = unsent \ {r}

\* getLatestKeyAndId() throws without a valid pair, and handleFailed() marks the row.
Sign(r) ==
    /\ part = "sign" /\ ~shouldCancel
    /\ r \in unsent
    /\ \/ /\ LatestKeys(Signature) = {}
          /\ Mark(r, "unknown")
          /\ UNCHANGED <<cache, signing, part>>
       \/ \E k \in LatestKeys(Signature) :
          /\ signing' = [row |-> r, pair |-> k]
          /\ cache' = cache \cup {k}
          /\ part' = "post"
          /\ UNCHANGED <<row, unsent>>
    /\ UNCHANGED <<world, keys, stored, timestamp, mode, answer, left, upTo, shouldCancel, faults>>

Post ==
    /\ part = "post" /\ ~shouldCancel
    /\ Mark(signing.row, "delivered")
    /\ signing' = NoKey
    /\ part' = "sign"
    /\ UNCHANGED <<world, keys, stored, timestamp, cache, mode, answer, left, upTo,
                   shouldCancel, faults>>

AllSent ==
    /\ part = "sign" /\ unsent = {}
    /\ IF mode = "SendOnly"
       THEN EndSync
       ELSE /\ part' = "download"
            /\ UNCHANGED <<mode, answer, left, unsent, signing, upTo, shouldCancel>>
    /\ UNCHANGED <<world, keys, stored, timestamp, row, cache, faults>>

-----------------------------------------------------------------------------
(* MessagesSyncer: tryDecrypt() and tryDecode() of each message.           *)

inboxRun == <<mode, answer, left, unsent, signing>>

Download ==
    /\ part = "download"
    /\ upTo' = Len(inbox)
    /\ part' = "decrypt"
    /\ UNCHANGED <<world, keys, stored, timestamp, row, cache, inboxRun, shouldCancel, faults>>

Current == inbox[timestamp + 1]

\* PrivateKeyProvider::getKey(): from the cache, or from keys_asymm into it.
HasKey(m) == sealed[m] \in cache \cup pairs

\* MessageDecryptor throws what tryDecrypt() does not catch.
Unopened(m) == Form[m] = "short" \/ (Form[m] = "broken" /\ HasKey(m))

\* A message whose key is missing is skipped; without the private data key, which
\* opens the meta data, each sync would end here.
Decrypt ==
    /\ part = "decrypt" /\ timestamp < upTo /\ ~shouldCancel
    /\ privateDataKey /\ ~Unopened(Current)
    /\ \/ /\ HasKey(Current)
          /\ cache' = cache \cup {sealed[Current]}
          /\ part' = "verify"
       \/ /\ ~HasKey(Current)
          /\ part' = "stamp" /\ UNCHANGED cache
    /\ UNCHANGED <<world, keys, stored, timestamp, row, inboxRun, upTo, shouldCancel, faults>>

\* The exception ends the sync, and the timestamp stays: so will the next one end.
CannotOpen ==
    /\ part = "decrypt" /\ timestamp < upTo /\ ~shouldCancel
    /\ Unopened(Current)
    /\ EndSync
    /\ cache' = IF Form[Current] = "broken" THEN cache \cup {sealed[Current]} ELSE cache
    /\ UNCHANGED <<world, keys, stored, timestamp, row, faults>>

\* Decoding in a transaction: what is malformed, or does not verify with the
\* sender's key, is skipped.  It is rolled back when the key is not there: the request
\* for it must not hold a lock.
Decode ==
    /\ part = "verify"
    /\ \/ /\ Form[Current] = "malformed"
          /\ part' = "stamp" /\ UNCHANGED stored
       \/ /\ Form[Current] # "malformed" /\ Signer[Current] \in publicKeys
          /\ stored' = IF Form[Current] = "forged" THEN stored ELSE stored \cup {Current}
          /\ part' = "stamp"
       \/ /\ Form[Current] # "malformed" /\ Signer[Current] \notin publicKeys
          /\ part' = "fetch" /\ UNCHANGED stored
    /\ UNCHANGED <<world, keys, timestamp, row, cache, inboxRun, upTo, shouldCancel, faults>>

DownloadPublicKey_Slip ==      \* the key is not saved
    /\ part = "fetch"
    /\ part' = IF Signer[Current] \in published THEN "verify" ELSE "stamp"
    /\ UNCHANGED <<world, keys, stored, timestamp, row, cache, inboxRun, upTo, shouldCancel, faults>>

\* downloadPublicKey(), after which tryDecode() calls itself; a message whose
\* sender's key is not found is skipped.
DownloadPublicKey ==
    /\ part = "fetch"
    /\ IF Signer[Current] \in published
       THEN /\ publicKeys' = publicKeys \cup {Signer[Current]}
            /\ part' = "verify"
       ELSE /\ part' = "stamp" /\ UNCHANGED publicKeys
    /\ UNCHANGED <<world, privateDataKey, pairs, revocations, stored, timestamp, row, cache,
                   inboxRun, upTo, shouldCancel, faults>>

\* SyncDao::setTimestamp(), a commit of its own.
Stamp ==
    /\ part = "stamp"
    /\ timestamp' = timestamp + 1
    /\ part' = "decrypt"
    /\ UNCHANGED <<world, keys, stored, row, cache, inboxRun, upTo, shouldCancel, faults>>

Finish ==
    /\ part = "decrypt" /\ timestamp >= upTo
    /\ EndSync
    /\ UNCHANGED <<world, keys, stored, timestamp, row, cache, faults>>

-----------------------------------------------------------------------------
(* What can go wrong.                                                      *)

Fault == faults < MaxFaults /\ faults' = faults + 1

\* An exception ends the sync, but for those that MessagesSender catches.
Fail ==
    /\ part \notin {"idle", "sign", "post"}
    /\ Fault
    /\ EndSync
    /\ UNCHANGED <<world, keys, stored, timestamp, row, cache>>

PostFails ==
    /\ part = "post"
    /\ Fault
    /\ Mark(signing.row, "unknown")
    /\ signing' = NoKey
    /\ part' = "sign"
    /\ UNCHANGED <<world, keys, stored, timestamp, cache, mode, answer, left, upTo, shouldCancel>>

Cancel ==
    /\ part # "idle" /\ ~shouldCancel
    /\ Fault
    /\ shouldCancel' = TRUE
    /\ UNCHANGED <<world, keys, stored, timestamp, row, cache, part, inboxRun, upTo>>

ThrowCanceled ==
    /\ shouldCancel
    /\ \/ part = "pairs"
       \/ part = "store" /\ left = {} /\ \E r \in Rows : row[r] = "draft"
       \/ part = "sign" /\ unsent # {}
       \/ part = "post"
       \/ part = "decrypt" /\ timestamp < upTo
    /\ EndSync
    /\ UNCHANGED <<world, keys, stored, timestamp, row, cache, faults>>

\* The process dies, and the cache with it.
Restart ==
    /\ Fault
    /\ EndSync
    /\ cache' = {}
    /\ UNCHANGED <<world, keys, stored, timestamp, row>>

-----------------------------------------------------------------------------

Changes ==
    (now - 1) + Cardinality(offered \ First) + Cardinality(revoked) + Len(inbox)
    + Cardinality(Signers \ published)

Others ==
    /\ Changes < MaxChanges
    /\ \/ Tick
       \/ \E k \in Pairs : AddPair(k) \/ Revoke(k)
       \/ \E m \in Msgs, k \in Encryption : Receive(m, k)
       \/ \E s \in Signers : Close(s)

Worker ==
    \/ StorePrivateDataKey \/ GetAsymmKeyPairs
    \/ \E a \in left : StorePair(a) \/ UnknownType(a)
    \/ \E new \in SUBSET Rows : Upload(new)
    \/ \E r \in Rows : Sign(r)
    \/ Post \/ AllSent
    \/ Download \/ Decrypt \/ CannotOpen \/ Decode \/ DownloadPublicKey \/ Stamp \/ Finish
    \/ ThrowCanceled

KeysNext ==
    \/ Others \/ Worker
    \/ \E m \in {"SendOnly", "Everything"} : StartSync(m)
    \/ Fail \/ PostFails \/ Cancel \/ Restart

KeysSpec == KeysInit /\ [][KeysNext]_keysVars

\* A sync that runs goes on, and the app asks for one of everything again and again.
FairKeysSpec == KeysSpec /\ WF_keysVars(Worker) /\ SF_keysVars(StartSync("Everything"))

-----------------------------------------------------------------------------
(* Properties.                                                             *)

\* The usable pairs the server had when this sync asked.
Usable == {a.pair : a \in answer} \ NoPrivate

\* A message that is well formed and verifies is passed over for good only if another
\* client registered its pair after this sync asked for the pairs, if the server has
\* no private key of it, or if its sender is gone: whatever errors, cancels, crashes
\* and messages that cannot be opened came before.
SkipsForAReason ==
    [][\A m \in Msgs :
        part = "stamp" /\ timestamp' # timestamp /\ m = Current /\ m \notin stored =>
            \/ sealed[m] \notin Usable \/ Signer[m] \notin published
            \/ Form[m] \in {"malformed", "forged"}]_keysVars

\* What is posted is signed with a pair that is valid when it is chosen, and
\* none the server had at the start of the sync is valid and newer; a row is
\* given up for want of a pair only if no such pair is valid.
SignsWithNewest ==
    [][part = "sign" =>
        /\ part' = "post" =>
            /\ IsValid(signing'.pair)
            /\ \A k \in Usable \cap Signature :
                IsValid(k) => validFrom[k] <= validFrom[signing'.pair]
        /\ (\E r \in Rows : row[r] # "unknown" /\ row'[r] = "unknown") =>
            \A k \in Usable \cap Signature : ~IsValid(k)]_keysVars

\* The server offers a pair whose type is not known.
Blocked == offered \cap Invalid # {}

\* Once the others are done, this client has every pair it can use and every
\* revocation, also of pairs it had before, unless one is of an unknown type.
KeysArrive ==
    <>[](Blocked \/ (pairs = offered \ NoPrivate /\ revocations = revoked \ NoPrivate))

\* Each message is stored or passed over in the end, up to the first that cannot be
\* opened: tryDecode() does not call itself for ever, and a message that cannot be
\* decoded or verified does not stop the ones behind it.
Handled == <>[](Blocked \/ timestamp = Len(inbox) \/ Unopened(Current))

=============================================================================

# A TLA+ model of libkullo

libkullo is the client library of the Kullo messenger.  An app gives it a user, and the
library keeps a local SQLite replica of the user's messages, sends drafts, delivers messages
to their recipients and synchronises the user's settings with the user's server.  This directory models the
parts in which the order of steps matters: a worker thread that talks to a server and writes to the
database, the app's thread that changes the same rows through cached objects, and the
events that connect the two.  All paths below are relative to `src/kulloclient/`.

## 1. The system and its parts

| Part | State it keeps | Operations | Hard behaviour |
|---|---|---|---|
| Message synchronisation (`sync/messagessyncer.cpp`, `dao/messagedao.cpp`, `api_impl/messagesimpl.cpp`) | rows of `messages` with `old = 0` and `old = 1`, a download timestamp, a cache of DAOs on the app's thread | page-wise download, merge, tombstones, upload of local changes, `setState()`, `remove()`, events | interleaving with the user, crash between a row and the cursor, lost answers, stale versions |
| Sync queue (`api_impl/syncerimpl.cpp`, `syncerworker.cpp`, `asynctaskimpl.cpp`) | one queued sync, a download queue, the current task, its thread | `requestSync`, `requestDownloadingAttachmentsForMessage`, `cancel`, `finished`, `error` | a cancelled worker that still runs, callbacks that come late, starvation |
| Drafts and upload (`api_impl/draftsimpl.cpp`, `draftattachmentsimpl.cpp`, `sync/messagesuploader.cpp`) | rows of `drafts` and draft attachments, caches, the uploader's copy of a draft | edit, add and remove attachments, `prepareToSend`, upload, conversion into a message, `clearDraft` | two writers of whole rows, cancel and crash between POST and commit |
| Delivery (`sync/messagessender.cpp`, `dao/deliverydao.cpp`) | a row per message and recipient | one POST per recipient, marks | a list read once, a buffer that outlives its message, duplicates |
| Settings (`sync/profilesyncer.cpp`, `dao/usersettingsdao.cpp`, `api_impl/usersettingsimpl.cpp`) | local and remote value per key, a timestamp, a copy in the app | setters, download, upload, conflict | a value set while it is uploaded, conflicts with other devices |
| Attachment download (`sync/attachmentsyncer.cpp`, `dao/attachmentdao.cpp`, `dao/messageattachmentsink.cpp`, `codec/attachmentsplittingsink.cpp`) | `attachments_content`, one row per attachment | download of a message's block, integrity checks, retry, removal of a message's rows | two commits per attachment, checks behind the writes, a removal between them |
| Conversations (`api_impl/conversationsimpl.cpp`, `removaleventdispatcher.cpp`, `dao/conversationdao.cpp`, `sync/messageadder.cpp`) | the table, three caches of the app | `add`, `triggerRemoval`, rows that the syncers add, events | removal in several transactions, ids that are used again, caches that are behind |
| Tasks (`util/stltaskrunner.cpp`, `api_impl/asynctaskimpl.cpp`, `worker.cpp`, the workers of the API) | a list of futures, a flag and a condition variable per worker | start, cancel, wait, `wait()` at exit | a task that starts a task, exceptions, wake-ups |
| Keys (`sync/keyssyncer.cpp`, key DAOs, `codec/privatekeyprovider.cpp`) | own key pairs, public keys of others, a cache of private keys | fetch, choose the newest valid pair, cache | keys that are missing when a message comes, pairs that expire or are registered in the middle of a sync |
| Session, registration, database, codec, HTTP, search, utilities | | | thin, or pure functions |

How they interact.  `Sync::Syncer::run()` (`sync/syncer.cpp:41-167`) is the body of a sync and calls the
syncers one after the other on the worker's thread: keys, uploader, sender; unless only sending was asked
for, profile and messages; and for `Everything` the attachments.  An exception in one of them keeps the rest from
running.  Each of them has a database connection of its own, commits in small transactions
and calls `EMIT` after a commit; `SyncerWorker` turns that into an internal event, unless it
was cancelled.  The app's thread hands the event to the session, whose models
(`MessagesImpl`, `ConversationsImpl`, `DraftsImpl`, `DraftAttachmentsImpl`, `MessageAttachmentsImpl`, `UserSettingsImpl`) reload what they have cached.
Between a commit and its event the caches are stale, and every operation of the app writes
whole rows from them.  Nearly all hazards in `PROJECT.json` come from this window, from
the loop state a syncer holds over an HTTP request, or from a run that ends in the middle.

## 2. The modules

Each module has the variables of its part, one action per transaction, HTTP exchange, callback or call of
the API, and its own small environment: server, other devices, user, faults.  Operators whose name ends in
`_Slip` are mistakes a programmer could make in the operator of the same name; the specifications do not use
them, they serve to show that the properties notice.

| Module | Models | Theorems in |
|---|---|---|
| `MessageDao` | rows, `operator==`, `clearData()`, the copy to `old = 1` in `save()`; used by `MessageSync` | |
| `MessageSync` | the worker, the server, the app's cache and its events | `MessageSyncProofs` |
| `SyncService` | the service the queue gives, abstractly: work that is owed and work that is done | |
| `SyncerQueue` | the queue and its threads, and the refinement of `SyncService` | `SyncerQueueProofs` |
| `DraftSend` | the user's draft, the worker that adds an attachment, the uploader | `DraftSendProofs` |
| `MessagesSender` | the rows of `delivery` and the loop over them | `MessagesSenderProofs` |
| `ProfileSync` | settings, the profile server, the syncer | `ProfileSyncProofs` |
| `AttachmentSync` | the download of the blocks, the stream that stores them, removals | `AttachmentSyncProofs` |
| `Conversations` | conversations and their messages, the app's caches and all events between them and the sync | `ConversationsProofs` |
| `AsyncTasks` | the task runner, waiting for and cancelling a worker, the workers' listeners | `TasksAndKeysProofs` |
| `KeysSync` | key pairs, their choice, and the keys a message needs | `TasksAndKeysProofs` |
| `MC...` | constants for TLC | |

### MessageSync

* `local` and `old` are the rows of `messages`; `timestamp` is the cursor; `cache`, `index` and `events` are
  `messages_`, `idsForConvId_` and the event queue of the app; `batch`, `loaded`, `todo` and `reply` are local
  variables of the syncer; `pc` is where it is.
* Worker: `Download` is one `getMessages()`; `LoadLocal` is `MessageDao::load()` at line 116, which is outside
  of the transaction of `Handle` (one disjunct per handler); `Stamp` is the transaction of its own that advances
  the cursor; `Upload` is one `modifyMeta()` or `deleteMessage()` with its conflicts; `HandleSuccessfulModification`
  the transaction after it.  `Fail` and `Restart` end a sync at any of these points.
* App: `SetState` and `Remove` save the cached row as a whole and copy the *stored* row to `old = 1`; `Notify`
  delivers the oldest event.
* `DecodedState` is what `parseMeta()` makes of a message's metadata (`codec/messagedecoder.cpp:341-411`): a message whose sender is the user (`Own`) is read and done and of
  the latest version whatever the metadata say, and so is, but for the version, one that a newer client wrote.  A state that the user takes away from a message of their own is uploaded, and the next
  download of that message decodes to read and done again; `AgreesWith` allows both, `Converges` the second only.
* `LocallyModified` asks for rows whose `old = 1` copy has a known version (`dao/messagedao.cpp:70`).  A change of a message that a newer client wrote is never uploaded
  (`HeldBack`), and `Converges` leaves it out.
* Messages the user sends enter the table by download here; that the uploader stores them itself is in `DraftSend` and `Conversations`.
* `meta` is the version of a message's metadata; 0, 1 and 2 stand for older than, equal to, newer than
  `LATEST_META_VERSION`.  Text, sender, dates and keys of a message never change after it was added and are left out.
* `ConcurrentUi` says whether the user may act while a sync or its events are under way.

### SyncerQueue

* `enqueued`, `downloads`, `running`, `task`, `lastMode`, `lastFullSync` are the members of `SyncerImpl`; `phase`, `job` and
  `cancelled` are the workers.  `finishing` and `failing` are the moment after a worker copied its listener
  under its own mutex and before the listener takes the queue's; a cancel fits in between.
* `SyncService` owes work and does some of it; a request begins at once when nothing is active.  The
  mapping reads `owed` off the queue, with `Covers` saying what each `SyncMode` does, and `active` off the current task.  It is the service of the code, and not all of
  what `api/Syncer.h` says of it: the examples in lines 21-25 there cancel a `SendOnly` sync that runs when a larger one is asked for, and drop a `SendOnly` request
  while a larger sync runs.  `requestSync()` looks at the queue only, never at the sync that runs: the first goes on to its end, the second is queued and done afterwards.
* `Hasty` says whether the app asks for a sync while one that it cancelled still runs.

### DraftSend

* `draft` and `atts` are the rows, `cached` and `cachedAtts` what the app holds, `job` what the uploader
  holds.  Both save whole rows from their copies.
* `Encode` reads the attachments; `Post` is the request to the user's own server, whose id is the place of the message in
  `server`; `AddMessage` is the transaction that reads the attachments a second time and moves them to the message;
  `ClearDraft` is the save after it; `HandleFailed` is the `catch (std::exception&)`.
* `Nth` is `ORDER BY idx` in the query for the attachments, by which their removals are announced.
* `Careful` says whether the app leaves a draft alone while it is `Sending` and waits for its attachments to be shown
  before it sends.

### MessagesSender

* `delivery` are the rows; `rest` is what is left of the result of `unsentMessages()`, read once per run, and `First` the
  row of the current pass in the order of the query; `current` and `encoded`
  are `currentMessageId` and the message `encodedMessage` was made from; `received` counts what reached the
  recipients' servers.  `Load` loads and encodes for the first recipient of a message only, as lines 82-105 do.
* `aborts` counts the runs that ended between a post and its mark, by a cancel or a crash.
* `Shielded` says of a row that no other message that may be removed or refused goes to its recipient and to a second one; only such messages make the code post
  what it encoded before in their place.

### ProfileSync

* A row has a local and a remote value and the `lastModified` of the remote one; `server`, `clock` and `mine`
  are the profile server and which of its versions are uploads of this device; `batch`, `todo`, `reply` are the loops of `run()`.
* `Hasty` says whether the user sets a key whose value is just being uploaded.

### AttachmentSync

* `content[m][a]` is what the database has of an attachment: NULL, the zeros of `zeroblob()`, bytes that do not fit the hash, the
  attachment, or no row.  `block[m]` is what the server has, with at most one defect and the attachment at which it bites.
* `Next1` is the query for the next message and the loop around it, `Load` and `Fetch` lines 86-180, `Open` and `Store` the
  two commits of `MessageAttachmentSink`, `Skip`, `TooLong` and `Downloaded` the three ends of a stream.
* `Unwind` is `~FilterChain` (`util/filterchain.cpp:50-58`): when an error or a cancel leaves `downloadForMessage()`, the stream is closed on the way, and the sink stores the attachments of
  no bytes that come first (`Trailing`, `attachmentsplittingsink.cpp:62-70`), while the others stay NULL.  `Blocks` lets any attachment of a block have no bytes (`blank`).
* `Remove` is the transaction in which `MessagesImpl::remove()` makes a tombstone, `HandleRemoved` the event that deletes the rows of the attachments,
  one by one; `Crash` loses the event.

### Conversations

* `conversations`, `inConv`, `sendable` are the tables, as far as they refer to conversations; `cached`, `idOf`, `latest` are the caches
  of `ConversationsImpl`, `cachedMsgs` that of `MessagesImpl`.  `sentTo` is a history variable: whom a message was exchanged with.
* `removing`, `stage` and `left` are the loop of `RemovalEventDispatcher`, which runs on the app's thread while the sync goes on.
* Both callers of `MessageAdder` are there: the uploader (`FirstSendable`, `LoadConversation`, `Posted`), which has loaded the conversation
  before its request, and the syncer (`NewMessage`), which finds or makes it in its transaction.  `Emit` emits behind the commit.
* `Cancel` forgets the sync and its listener at any point: events that were not emitted are lost, the app is idle and may start the next sync.  `old` is the cancelled worker, which ends at its next check
  (`OldLeaves`) or first finishes what it has in hand without telling anybody (`OldLoads`, `OldPosts`, `OldReceives`, `OldDeletes`).  There is one such worker at a time.
  `overran` says that something was committed, or thrown, of which the app has not heard.
* `NewId` is SQLite's rule for a primary key without AUTOINCREMENT: ids are used again.
* `Hasty` says whether the user acts during a sync and before all events are handled.

### AsyncTasks

* `futures`, `active` and `app` are `StlTaskRunner` and where a thread is in it; `unvisited` is what the loop of `wait()` (lines 91-94) has not left behind; `pc`, `listener`, `cancelled`, `finished` are each
  worker; `waits` and `awake` are the threads in `Worker::wait()`, whose condition variable is notified for one of them.
* A worker of the API is a record of what its `work()` does with exceptions, retries and its listener; each record is named for and mapped to its
  class.  `keys` and `sign` are the two workers that generate keys, with their own steps, because the first starts and awaits the second.
* A worker is `Alive` while its future or its own thread holds it: `Wait` returns at once when the `weak_ptr` has expired.
* The thread that generates keys may append to the list, and prune it, at any moment of the app's `append` and of `wait()`.  `Appended` and `AppendedInLoop` have the outcomes of two threads in an
  unsynchronised list, and of the erasure of the entry the loop stands on: an entry is lost, the loop ends early.  `raced` becomes true with them.
* `Escape` is an exception that leaves the `work()` of a worker, of either worker that generates keys as well (`Throws`): the future is ready, `isFinished_` is never set.
* The sync's worker appends the next job in the same way (`syncerimpl.cpp:191, 199`, called from `finished()`); it has no action of its own here, as `keys` shows what an append by a task does.

### KeysSync

* `pairs`, `revocations`, `privateDataKey`, `publicKeys` are the tables `keys_asymm`, `keys_symm`, `keys_public`; `cache` is that of `PrivateKeyProvider`, which
  lives as long as the process; `offered`, `revoked`, `published` are what the servers have; `inbox` is the server's list of messages and `timestamp` a position in it.
* A sync is `StorePrivateDataKey`, `GetAsymmKeyPairs` (the request of line 49), `StorePair` for each pair, one at a time, since no transaction
  surrounds them; then the parts that use keys: `Upload`, `Sign` and `Post`, and `Decrypt`, `Decode`, `DownloadPublicKey`, `Stamp`.  What else these do is in `DraftSend`,
  `MessagesSender` and `MessageSync`.
* `Form` says what is wrong with a message.  One that cannot be opened (`Unopened`: the key safe is too short, the format unknown, a part cannot be parsed or decrypted) ends the sync, since `tryDecrypt()`
  catches `DecryptionKeyMissing` only, and the next sync comes to the same message; the handler for `UnsupportedContentVersion` in `tryDecode()` (`messagessyncer.cpp:456`) is never reached,
  for the exception is thrown while the message is decrypted (`messagedecryptor.cpp:214`).  One that is malformed or whose signature does not verify is skipped (lines 463-475).
* `Invalid` are pairs of a type that is not known; `UnknownType` ends each sync from when the server offers one.
* `LatestKeys` is the set of the rows that `ORDER BY datetime(valid_from) DESC` may put first, so pairs with equal dates are a free choice.
* Taken from the server: ids are unique over both types (as `id` is the primary key), a pair never changes but for its revocation, and the key that is sent
  is the one that was asked for.  A revocation is stored and never consulted when a pair is chosen.
* `part` is the statement of the sync that comes next.  Names the module shares with `AsyncTasks` carry a prefix (`KeysInit`, `KeysNext`, `NoKey`),
  because the theorems about both are in one module.

## 3. What is checked

All passing runs finish with TLC exploring the whole state space.

| Run | Question | Size |
|---|---|---|
| `message_sync` | does the replica hold what the server's rows decode to, miss nothing, never lose a deletion or a change, converge, and does every sync end, with a user who acts between syncs? | 3 messages, one of which cannot be decoded and one is the user's own, three formats, page size 1, 2 steps of other devices, 2 of the user, 1 error or crash, 1 cancel |
| `message_sync_resurrection` | violated: "local deletion > remote modification" | finding |
| `syncer_queue` | is each request served by one sync behind the other, with all callbacks of the workers? | 2 messages, 2 threads, 3 modes, no bound on requests |
| `syncer_queue_parallel` | violated: "Prevents multiple syncs from running in parallel" | finding |
| `draft_send` | is a draft sent as often as asked, stored as posted, never lost? | 1 draft, 2 texts, 2 attachments, 2 sends, 1 fault |
| `messages_sender` | does each recipient get a message at most once, and every row an outcome? | 3 messages, for 2, 2 and 1 of 3 recipients, 3 faults |
| `messages_sender_stale` | violated: "sends all unsent messages" | finding |
| `profile_sync` | is nothing skipped, dropped or shown wrongly, and do both sides agree in the end? | 2 keys, 2 values, 2 remote and 2 local changes, 1 fault |
| `attachments` | does an announced message keep all its attachments, is a block stored as a whole or not at all, and in the end? | 2 messages, 2 attachments, any of which may have no bytes, each defect at each place, 1 fault, 1 crash |
| `conversations` | do messages stay with their people, does nothing throw, do the caches follow? | 2 conversations, 2 messages, 5 acts of the user, 1 deletion elsewhere, any number of cancels |
| `async_tasks` | does `wait()` mean that nothing runs, does each task answer and each wait return? | 1 worker of any of 9 kinds, the 2 that generate keys, 1 waiting thread |
| `keys_sync` | is a message skipped for a reason only, what is signed signed with the newest pair, and does every pair and message arrive? | 5 pairs, 3 of them from the start and one of these without a private key, and 1 of an unknown type; 5 messages, one of each form, 1 delivery, 2 times, 3 steps of others, 1 fault |

The bounds.  The algorithms treat messages, keys and conversations independently except for the order of
versions and the paging; two of each give every order, with page size 1 every message is at a page border.  The three metadata states
let a message arrive in the old format (so that the client upgrades it and uploads that), be changed by another device, or come
from a newer client.  Three delivery rows of a message never interact otherwise than two do: the first one
loads, each later one does not.  A budget of one or two faults covers a fault in each step of a run with a full
run after it; more faults repeat that from states that are reached anyway.  `DraftSend` with two conversations (one send and one attachment each,
2.2 million states) was checked as well and shows nothing new; it is too slow to keep as a run.

In `attachments` two attachments give a first and a last one, so that a defect can lie before, in, between and behind them; the second message is
the one the loop must still reach.  Two conversations are enough for one that is removed while the other lives; the table gives the removed
id away again, to a later conversation with the same people or the others.  `async_tasks` has one plain worker, because workers share only the list of futures,
which the two that generate keys are in as well; `PRUNING_THRESHOLD` is 1, so that each append prunes.  Two messages are enough in `conversations` for one that is received while one is sent; five acts are to add a conversation, send in it, remove it,
add it again and remove a message.

In `keys_sync` a pair of each type comes late, so that it is registered before, between or after the requests of a sync; at time 1 the old and the new signing pair are
both valid, at time 2 (`MaxTime`) the old one has expired, and a clock that moves during a sync separates the upload from the signature.  `Revocable` is the old
signing pair.  Each message is handled on its own, so one of each form is enough, and the three steps of others bring up to three of them, one behind the other; `MaxFaults` is 1.

The type invariants of `SyncerQueue`, `MessagesSender`, `ProfileSync`, `AttachmentSync` and `Conversations` are left to the proofs (`TypeCorrect`).

The runs of `MessageSync`, `DraftSend`, `Conversations`, `AsyncTasks` and `KeysSync` do not check deadlock: when the bounded environment has used up its steps,
nothing is left to send, the ids are used up, or the runner has been stopped, the system really rests.

### Assumptions the passing runs make about the app

The constants `ConcurrentUi`, `Careful` and `Hasty` stand for a discipline of the app that the library neither enforces nor states.
Without it the library does not keep all of its promises; two violation runs show such cases, and TLC finds these with the constants changed:

* `DraftSend` with `Careful = FALSE`: `SentAsAsked` fails (a `setText()` on a cached row that still says `Sending` makes the
  uploader send a text that was never prepared), and so do `StoredIsPosted` and `NothingLost` (an attachment added between
  `Encode` and `AddMessage`).
* `MessageSync` with `ConcurrentUi = TRUE`: `handleSuccessfulModification()` deletes the old row although the user may have
  changed the message during the request, and `setState()` saves a stale `lastModified`; such changes are not uploaded, so `Converges` and
  `VersionsAreTrue` fail, and a merge overwrites a change made since the row was loaded (`LocalModificationWins`).  An event handled late puts a
  tombstone back into the cache (`CacheIsCurrent` fails), the next `setState()` writes that to the table (`DeletedForever`), and the removal event behind it fails
  the assertion in `removeFromCache()`.  What still holds is proved: `NothingUnseen`, that no row is lost, and that no version goes back.
* `SyncerQueue` with `Hasty = TRUE`: two syncs run at a time, and a late `finished()` of the cancelled one ends the wrong one
  (`OneAtATime` and `FullSyncIsFull` fail).
* `ProfileSync` with `Hasty = TRUE`: a value set while the one before is uploaded is cleared with it (`PushedOrOverwritten` and `ShownIsStored` fail).
* `Conversations` with `Hasty = TRUE`: `add()` throws for a conversation whose event is on its way; a message that comes in the middle of a removal
  outlives its conversation, and shows in the one that gets the id next; the draft of a removed conversation makes the uploader use a null pointer;
  `countErased` fails its assertion.

The library breaks some of its promises by itself, whatever the app does.  These behaviours are part of the passing runs, and the properties that would fail say what they leave out:

* A cancelled sync drops its events, those of rows that are committed already as well.  The app keeps a stale copy, and its next `setState()` writes that over the row, a tombstone as well
  (`CacheIsCurrent`, `DeletedForever` and `Converges` are about the time before a cancel, `Uncancelled`; what the others say holds also behind it).  Of `Conversations` nothing is left once such a sync has gone on
  (`overran`): the caches stay behind, `add()` throws for a conversation the app was not told of, and a message it does not know outlives its conversation and shows in the next one with that id, for a user who waits as well.
* Two threads may meet in the list of futures, which nothing guards: the app in `append` or in the loop of `wait()`, a worker in `append`.  An append is lost, or the loop ends early, and `wait()` returns while a
  task runs.  `util/stltaskrunner.h:36` promises the end of all tasks without a condition; `WaitMeansAll` is about the time until that happens (`raced`).  `SignatureIsThere` holds behind it as well.
* An exception that leaves `work()` skips `isFinished_` and the listener.  `Answered` and `WaitReturns` leave out a task that this ended, and the key generation when it ended the worker that signs (`Stuck`).
* A message that cannot be opened, and a pair of an unknown type, end every sync.  `Handled` and `KeysArrive` leave that out (`Unopened`, `Blocked`).
* A change of a message that a newer client wrote is never uploaded (`HeldBack`).
* A crash between the two commits of an attachment leaves zeros that count as downloaded (`AllOrNothing` is about processes that do not die), and attachments of no bytes may be stored before
  the rest of their block (`AllOrNothing` is about those that have bytes).  A block that is broken is met again by the same
  run and trips `kulloAssert(insertionOk)`, so each full sync ends there (`Fetched` is about intact blocks).
* A deletion by another device emits no `conversationModified`, so the app's order of conversations keeps the old time stamp (`CacheAgrees` leaves `latest` out then).
* A second recipient is posted what was encoded before when its message is removed or refused (`messages_sender_stale`); `AtMostOnce` is about rows that cannot be posted in place of another (`Shielded`).

And two are outside of the modules.  With two threads that wait for the same task one of them is not woken up; the run has one.  `ClientGenerateKeysSigningWorker` holds a reference to its parent, which
returns without waiting for it when it is cancelled, and is freed as soon as its future is pruned.

### Fairness

Weak fairness of the worker (`Run`, `Worker`, `SyncerStep`, `Thread(w)`) and of the app's event loop (`Notify`, `HandleRemoved`): the operating system schedules both threads, and
the app requests syncs again and again; `Start` is an action of the worker for that reason.  HTTP requests
end, since the HTTP client has a timeout.  Nothing is assumed of the user, other devices, faults or cancels; they are bounded, so they
stop.  In `AttachmentSync` single downloads and full syncs compete for an idle syncer, and the full sync that the app requests again and again is
strongly fair, as the queue serves both; so is the sync of everything in `KeysSync`, which competes with those that only send.  In `AsyncTasks` the threads of the workers, a notified thread and the one in the runner go on; `TimeOut`, `cancel` and
a retry's success are owed by nobody.  `Conversations` has safety properties only.  `Served` in `SyncerQueue`, where requests are not bounded, says itself that attachment requests that never stop may starve a sync,
and that after an error nothing is begun until the next request.

## 4. What is proved

Every safety property of the passing runs, invariant or action property, and the refinement of `SyncService`, is a theorem.
Each holds for every value of the constants that meets the named assumption of its module, and for the discipline of the app it
names; the table says which.  A property that needs no discipline is proved without.  What a property leaves out of its own is listed in section 3.

| | whatever the app does | needs the discipline |
|---|---|---|
| `MessageSync` | `TypeOK`, `NothingUnseen`, no row is lost, no version goes back or is ahead of the server's | `VersionsAreTrue`, `LocalModificationWins`, `CacheIsCurrent`, `DeletedForever` (`~ConcurrentUi`) |
| `ProfileSync` | `TypeOK`, `CursorSkipsNothing`, `SameVersionSameValue`, no version goes back or is ahead of the server's | `ShownIsStored`, `PushedOrOverwritten` (`~Hasty`) |
| `SyncerQueue` | `TypeOK`, no message is queued twice or beside a sync of everything | `OneAtATime`, `FullSyncIsFull`, `ImplementsService` (`~Hasty`) |
| `MessagesSender` | `TypeOK`, `AtMostOnce`, rows go one way; `DeliveredWasReceived` for `RefusedHaveOne` | |
| `DraftSend` | `TypeOK` | `StoredIsPosted`, `NothingLost`, `SentAsAsked` (`Careful`) |
| `AttachmentSync` | all three | |
| `Conversations` | `TypeOK` | `RightConversation`, `NothingThrown`, `CacheAgrees` (`~Hasty`) |
| `AsyncTasks` | all three | |
| `KeysSync` | all three | |

An invariant is proved by three facts: it holds initially, each action keeps it (one lemma or step per action), and it implies the property.
Where the invariant is long, TLC checked it on the instance of the run before the proof was written.

`MessageSyncProofs` has nine theorems, for any set of messages and states, any page size and any budget.  They rest on
the named assumptions `ConstantsAssumption` and `NoneIsNoRow` only.

* `TypeCorrect`: `Spec => []TypeOK`.  The types alone are not inductive: `SetState` would copy a missing row, `HandleSuccessfulModification`
  would write to one.  `Stored` adds that a row with `old = 1`, and a confirmed upload, has a row with `old = 0`.
* `NothingUnseenCorrect`: `Spec => []NothingUnseen`.  The cursor moves in `Stamp` only, to the version of the batch entry that was
  just handled; the property needs that every message up to there is stored.  The invariant is
  `CursorInv`: versions on the server are positive, distinct and not above the clock (`Versions`); whatever
  the server has between the cursor and an entry of the batch is itself in the batch, as the client downloaded it
  (`BatchComplete`), which other devices preserve because they always write versions above the clock; and the message under
  the worker's hands is stored when it is stamped (`HandledIsStored`), which concurrent `SetState`, `Remove` and crashes preserve
  because rows never go away (`LocalStays`).  There is one lemma per group of actions (`CursorDownload`, `CursorLoadLocal`, `CursorHandle`,
  `CursorStamp`, `CursorUnmoved`), and `NewVersion` for the steps of the server.
* `RowsStay`: no step removes a row of `messages`.
* `VersionsOnlyGrow` and `NotAheadCorrect`, whenever the user acts.  The cursor only grows, a row with `old = 1` never gets an older version, and no row the worker
  writes replaces a newer one.  The user's own row may fall back, as `setState()` saves the cached object, and the worker may write to a row that is no
  longer the one it loaded; so `ForwardInv` speaks of all versions the client holds of a message, in the table or in the cache (`VersionsOf`): none is
  ahead of the server (`NotAhead`), of an entry of the batch for that message (`BatchBrings`) or of the answer to its upload (`ReplyBrings`).  The app's thread only
  copies versions (`ForwardCopies`), a handler writes no other than that of its entry (`HandleVersions`), and there is no batch while an upload is answered.
* `VersionsAreTrueCorrect` is about what the client believes of the server, the row with `old = 1` or, without one, the only row (`Base`).
  `VersionInv` adds to `CursorInv` what each step of a sync relies on: an entry of the batch is the server's row or has been overtaken
  (`BatchIsTrue`); the row that was loaded outside of the transaction still is the row (`LoadedIsLocal`); what was handled is what was downloaded, until the
  cursor takes it in (`HandledIsTrue`); what an upload was confirmed for is what the row still says (`ReplyIsTrue`); a believed
  deletion is one, for good (`DeletedIsFinal`).  `LoadedIsLocal` and `ReplyIsTrue` are where a user who acts during a sync would break it.
  A crash between the upload and its confirmation is harmless because the belief stays below the version the server has given meanwhile (`BaseIsOld`).
* `LocalModificationWinsCorrect` and `DeletedForeverCorrect` are action properties.  The first is about `Handle` and needs `LoadedIsLocal`; the second is about
  each step that writes a row, and needs in addition that the app does not show a tombstone when no event is pending, which is a part of the next one.
* `CacheIsCurrentCorrect`: `CacheInv` says of each message, as long as no cancel dropped an event, how far the app is behind (`Follows`): a live row it does
  not show as it is has its `messageAdded` or `messageModified` in the queue; no `messageRemoved` waits for a live row; a cached one whose row is
  a tombstone has its removal in the queue.  `AddedBefore` orders the events: `messageModified` never comes before the `messageAdded` that
  puts the message into the index.

`ProfileSyncProofs` has seven, for any keys, values and budgets.  They rest on
`ProfileAssumption` and on `NoneIsNoRecord`: NULL is neither a row nor a change.

* `TypeCorrect`: `Spec => []TypeOK`.  Inductive with `Versions`: a version in the table, the batch or an answer is
  not above the clock, and the answer to an upload is above the cursor and not above the server's version of its key.
* `CursorSkipsNothingCorrect`: `Spec => []CursorSkipsNothing`.  `UpdateLatestSync` moves the cursor over the whole batch at once, in
  which the entries have no order.  So the invariant is about all of it: each key the server has at or below
  any version of the batch is taken in or still in the batch (`BatchComplete`), and an entry that another device has
  overtaken meanwhile is overtaken by a version above the whole batch (`Overtaken`); without the latter, `ApplyRemote` could
  write an old version over one that is taken in.
* `VersionsOnlyGrow`: no row is removed or replaced by an older version, and the timestamp only grows, also with `Hasty`; `NotAheadCorrect`: no row is
  ahead of the server.  `ForwardInv` adds to `CursorInv` that a change of the batch, or an answer, is not behind the row it is for (`Brings`): the download finds the rows behind
  the server, each key is in the batch once, and uploads begin when the batch is empty.
* `SameVersionSameValueCorrect`: `Spec => []SameVersionSameValue`.  `SameValues` says the same of the batch and of an
  answer that is not saved yet; `SameWrite` is the server's side, `SameSave` that of `setRemoteValue()`.
* `ShownIsStoredCorrect`: `Spec /\ ~Hasty => []ShownIsStored`.  A key the app shows wrongly has its event under way
  (`ShownOrPending`).  `SaveUploaded` sends no event, and is right not to, as long as the local value it takes away is
  the one that was uploaded (`UploadsAreCurrent`).  With `Hasty` that is false, and so is the property.
* `PushedOrOverwrittenCorrect`: `Spec /\ ~Hasty => PushedOrOverwritten`.  A value set here goes away only because the server took it, because another
  device wrote the key, or for a key one of whose uploads was never answered.  The difficulty is a batch that holds an upload of this very device, as its answer may have been lost: then `ApplyRemote`
  must not take it for a change of others.  `OwnUploads` and `OwnBatch` say that the server's version of a key is one of this
  device only if it is taken in, in the worker's hands, or was never answered.

`SyncerQueueProofs` has five.  `TypeCorrect` and `MergedCorrect` need nothing of the app: no message is queued twice or beside an `Everything` sync
(`Merged`), for each request looks at both queues before it adds to one.  The other three are for `~Hasty` and rest on `InOrder`: a thread that is
busy is the current task's, or was cancelled and then the queue is empty (`OneBusy`); `lastMode` is the mode of the running job
(`ModeOfJob`).

* `OneAtATimeCorrect` and `FullSyncIsFullCorrect` follow from `OneBusy` and `ModeOfJob`.
* `ImplementsServiceCorrect`: `Spec /\ ~Hasty => ImplementsService`.  The initial states map to initial states; a request maps to `Request` because merging
  two modes covers what both cover; `Finished` maps to `Finish`, for `RunNextJob` takes a part of what is owed and leaves exactly the rest (this is
  where `Merged` is needed); `Error` and `Cancel` to theirs; all other steps stutter.

`MessagesSenderProofs` has four.  A message that is removed between the read of the rows and its pass, or that the encoder refuses, makes the code post what
it encoded before to the second recipient: the run `messages_sender_stale` refutes `PostsAreUnsent`.  The theorems hold for messages with any number of recipients all the same.

* `RowsGoOneWay`, with no hypothesis: a delivery row is written unsent, gets one outcome, and goes away only with its message.  `Reading` says what a run over rows
  that may have gone relies on: a row it still has to do is unsent or gone (`RunsOverRows`), so a mark that finds its row finds it
  unsent (`Settled`).  `StepsOfRun` sorts the steps of a run into those that end a pass (`Passes`) and those within one.
* `DeliveredWasReceivedCorrect`, for `RefusedHaveOne`: only messages the encoder refuses must have one recipient.  What a removed message leaves behind is posted wrongly, but
  there is no row to mark.  `Entering` says that the buffer fits any row of the current message that is still there (`BufferFitsRow`), and that what was accepted for such a row was received
  (`AcceptedIfThere`).
* `TypeCorrect`: whenever something is posted a row is left that it is for (`Control`), and aborts are faults of their own (`AbortsAreFaults`).
* `AtMostOnceCorrect`: the run goes through the messages in their order, so the buffer is the one of the current message, or an earlier one, and then the current message was removed or refused
  and the row is not its first (`BufferOrRefused`).  So a row that is `Shielded` gets what is posted for itself only, and until it has an outcome by runs that were cut off only (`PostedByAborted`).

That `First` is an element of `rest` is a well-founded induction on the order of the rows.

`DraftSendProofs` has four, which rest on `DraftAssumption` and on `NoneIsNoRecord`: NULL is neither a row nor what is posted.

* `TypeCorrect`: `Spec => []TypeOK`, whatever the app does.  Two parts are not by shape.  The events of a removal are made of the attachments one by one in the order of their
  indices, so that each place of the sequence must have exactly one: ranks in a finite set of numbers are a bijection onto
  `1 .. Cardinality` (`RanksDiffer`, `NthIsOne`).  And the uploader's steps need what they are sent for: `Intact` says that its draft is
  still a row, that after a post the server has a message, and that aborts and a pending cancel are covered by faults.
* `StoredIsPostedCorrect`, `NothingLostCorrect`, `SentAsAskedCorrect` are for `Careful`.  Two threads write whole rows from copies.  That this
  is harmless needs `LeftAlone` (a row whose change the app has not heard of it takes for one being sent, and one being sent it leaves alone), `CopyIsDraft` (the
  uploader's copy is the row until it is cleared) and `LastIsPosted`.  `Counted` adds to the posts of a draft the one that is still due.

`AttachmentSyncProofs` has three.  `TypeCorrect`.  `AnnouncedIsWholeCorrect` rests on the stream: the attachments it has passed are whole
(`PassedIsWhole`), a message is not downloaded after it was announced (`NotAnnounced`), and rows are deleted of tombstones only.
`AllOrNothingCorrect` follows a block through the stream (`StoredInOrder`) and shows that each way out of it, as long as the process lives, is at its start or at its end; the
chain that is closed while an exception unwinds passes attachments of no bytes only (`UnwindsBlank`).

`ConversationsProofs` has four.  `TypeCorrect` includes that participants are unique in the table; `NewId` is free because it is above all ids
in use.  The others are for `~Hasty`, and hold until `overran`; up to then a cancelled sync has committed nothing the app was not told of (`SoFar`).

* `RightConversationCorrect` rests on `Safe`: the app knows each message of the table or has its event coming
  (`Told`), a removal begins when no other event is pending and no sync runs (`Alone`), and before the row is deleted no message is left in it (`Emptied`).
* `NothingThrownCorrect` and `CacheAgreesCorrect` rest on `Attentive`, which adds what the handlers look up: the row an event is about is there (`Rowed`);
  a conversation the app does not find has its event coming (`RowsShown`), and no id is found for people who have none (`IdsFound`); a cached
  message that is gone has its removal coming (`Untold`); what a removal still has to erase are messages of that conversation, and its draft is gone
  first (`InRemoval`); what the uploader finds to send has a conversation (`Uploadable`).  `LatestFollows` is for the order of the
  conversations, as long as no other device deletes.

`TasksAndKeysProofs` has six, three about each of two modules.

* `AsyncTasks`: `TypeCorrect`.  `WaitMeansAllCorrect`, until `raced`: a worker that runs is in the list or on its way there
  (`RunningIsListed`); what the loop of `wait()` has left behind is over, and a task that is appended meanwhile is appended by one the loop has not left behind (`Visited`); so nothing runs from the moment on at
  which the loop has come to its end (`Resting`).  `SignatureIsThereCorrect` needs no discipline: the key is written before the worker
  can be seen finished or gone (`SignedBefore`), and the task that waits for it is itself in the list until it has started that worker, even when appends
  overlap, because it is the first that could append beside the app (`KeysIsListed`).
* `KeysTypeCorrect`: `KeysSpec => []KeysTypeOK`.  The stored pairs are pairs of the server with a private key, a stored revocation is true and of a
  stored pair, and the message that is being handled is one that was downloaded (`WorldTyped`, `TablesTyped`, `SyncTyped`).
* `SkipsForAReasonCorrect`: each pair the server answered with is stored, about to be, or has no private key (`PairsArrive`); so a message that is passed over
  needs a pair this sync was not told of, has a sender without a key, is malformed or does not verify (`PassedOver`).  Messages arrive meanwhile; they are appended, so the one at the
  cursor stays the same.
* `SignsWithNewestCorrect`: a newest pair exists whenever a valid one does, since the dates are bounded (`OneIsNewest`, a well-founded induction);
  pairs that become known during the sync can only be newer ones.

Only model-checked are the liveness properties (`Converges` of `MessageSync` and of `ProfileSync`, `SyncEnds`, `Served`, `Settles`, `Sends`, `Fetched`, `Answered`, `WaitReturns`,
`KeysArrive`, `Handled`): they need fairness, and `ENABLED` is out of the prover's reach.  The recursive definitions of the modules are functions or quantified over
positions, so no theorem rests on an induction over data.

## 5. What is not modelled

The modules map about 4850 of the 28000 lines of the library outside of `api/`.  What is left is, by size: third-party or generated code (`jsoncpp/`, `argon2/`, `jni/`, `nowide/`,
`breakpadwrapper/`, and the interfaces in `api/`), which is half of all lines; code without a state that outlives a call (JSON, encoding, cryptography, dates,
addresses, SQL statements and migrations); declarations, getters and `toString`s; and the following.

* In the modules other than `KeysSync`: that a key is missing.
* Codec and cryptography: pure functions around a library; the models use whether they succeed.
* HTTP and JSON: what a request can end in (`BaseClient::throwOnError`) is a choice in each module.
* Database sessions and migrations: SQLite is taken to give atomic and serial transactions; a connection that stays busy is `Fail`.
* Search, senders, avatars: rows that are written in the transactions of `MessageSync` and read by queries.
* What the workers of session, client and registration ask the server; `AsyncTasks` has what they do to their callers.
* Reading an attachment for the app, and progress.
* `tests/`, `tools/`.

## 6. The plan

Done: all modules of section 2, and the proofs of all safety properties the runs check.

1. `Sync`: the order of the parts in `Syncer::run()`, composed of the modules: an error in one part keeps the others from
   running, and the uploader's rows are what the sender finds.
2. Proofs: more of what is left when the app does not keep the discipline, such as `VersionsAreTrue` for the messages the
   user does not touch during a sync; what remains of `Conversations` behind a sync that has gone on after its cancel.

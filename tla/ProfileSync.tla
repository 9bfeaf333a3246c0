----------------------------- MODULE ProfileSync ----------------------------
(***************************************************************************)
(* The user's settings: UserSettingsImpl on the app's thread, the rows of  *)
(* UserSettingsDao (dao/usersettingsdao.cpp) with a local value beside the *)
(* value of the server, and ProfileSyncer (sync/profilesyncer.cpp), which  *)
(* downloads what changed since the last sync and uploads what is left of  *)
(* the local values.  Other devices write to the same profile.  A step     *)
(* ends at an HTTP request or a commit.                                    *)
(***************************************************************************)
EXTENDS Naturals, SequencesExt

CONSTANTS
    None,           \* NULL
    Keys, Values,   \* of the profile
    Default,        \* the empty string
    Hasty,          \* may the user set a key whose value is being uploaded?
    MaxRemote,      \* bound on the writes of other devices
    MaxLocal,       \* bound on the user's changes
    MaxFaults       \* bound on network errors, cancels and crashes

ASSUME ProfileAssumption ==
    /\ None \notin Keys \cup Values \cup {Default}
    /\ Default \notin Values
    /\ Hasty \in BOOLEAN
    /\ MaxRemote \in Nat /\ MaxLocal \in Nat /\ MaxFaults \in Nat

VARIABLES
    server,         \* value and lastModified of each key
    clock,          \* the server's largest lastModified
    mine,           \* those of them that are uploads of this device
    rows,           \* the table `usersettings`
    latestSync,     \* SyncDao::timestamp(Profile)
    shown,          \* UserSettingsImpl::userSettings_
    events,         \* profileModified events on their way to the app's thread
    pc,             \* where ProfileSyncer::run() is
    batch,          \* remoteChanges that are not handled yet
    maxLastModified,
    todo,           \* localChanges that are not handled yet
    reply,          \* the answer to an upload, which is not saved yet
    cancelled, missed,      \* the listener is dropped; an event was lost by it
    unanswered,     \* keys with an upload whose answer was lost
    remoteWrites, localWrites, faults

remote == <<server, clock, mine>>
syncer == <<pc, batch, maxLastModified, todo, reply, cancelled>>
bounds == <<remoteWrites, localWrites, faults>>
vars == <<remote, rows, latestSync, shown, events, syncer, missed, unanswered, bounds>>

Texts  == Values \cup {Default}
Row    == [local : Texts \cup {None}, remote : Texts \cup {None}, lastModified : Nat]
Change == [key : Keys, value : Texts, lastModified : Nat]
Entry  == [value : Texts \cup {None}, lastModified : Nat]

ASSUME NoneIsNoRecord == None \notin Row \cup Change

\* The types; no version is ahead of the clock of the server.
TypeOK ==
    /\ server \in [Keys -> Entry]
    /\ clock \in Nat /\ mine \subseteq 1 .. clock
    /\ \A k \in Keys : server[k].lastModified <= clock
    /\ rows \in [Keys -> Row \cup {None}]
    /\ latestSync \in 0 .. clock /\ maxLastModified \in 0 .. clock
    /\ shown \in [Keys -> Texts]
    /\ events \in Seq(Keys)
    /\ pc \in {"idle", "apply", "upload", "uploaded"}
    /\ batch \subseteq Change /\ todo \subseteq Change
    /\ reply \in Change \cup {None}
    /\ pc = "uploaded" => reply # None
    /\ cancelled \in BOOLEAN /\ missed \in BOOLEAN
    /\ unanswered \subseteq Keys
    /\ remoteWrites \in 0 .. MaxRemote /\ localWrites \in 0 .. MaxLocal
    /\ faults \in 0 .. MaxFaults

Init ==
    /\ server = [k \in Keys |-> [value |-> None, lastModified |-> 0]]
    /\ clock = 0 /\ mine = {}
    /\ rows = [k \in Keys |-> None]
    /\ latestSync = 0
    /\ shown = [k \in Keys |-> Default]
    /\ events = <<>>
    /\ pc = "idle" /\ batch = {} /\ maxLastModified = 0 /\ todo = {} /\ reply = None
    /\ cancelled = FALSE /\ missed = FALSE
    /\ unanswered = {}
    /\ remoteWrites = 0 /\ localWrites = 0 /\ faults = 0

-----------------------------------------------------------------------------
(* The server and other devices.                                           *)

\* A write of `value` on top of the version `base` succeeds, or is a Conflict.
Accepts(k, base) == server[k].lastModified = base
Write(k, value) ==
    /\ clock' = clock + 1
    /\ server' = [server EXCEPT ![k] = [value |-> value, lastModified |-> clock + 1]]

RemoteChange(k, value) ==
    /\ remoteWrites < MaxRemote
    /\ remoteWrites' = remoteWrites + 1
    /\ Write(k, value)
    /\ UNCHANGED <<mine, rows, latestSync, shown, events, syncer, missed, unanswered, localWrites, faults>>

-----------------------------------------------------------------------------
(* The app's thread.                                                       *)

Coalesced(row) ==
    CASE row = None -> Default
      [] row # None /\ row.local # None -> row.local
      [] row # None /\ row.local = None /\ row.remote # None -> row.remote
      [] OTHER -> Default

InUpload(k) == \E change \in todo \cup ({reply} \ {None}) : change.key = k

setLocalValue(k, value) ==
    rows' = [rows EXCEPT ![k] =
        IF @ = None THEN [local |-> value, remote |-> None, lastModified |-> 0]
                    ELSE [@ EXCEPT !.local = value]]

\* setName(), setFooter(), ...
Set(k, value) ==
    /\ Hasty \/ ~InUpload(k)
    /\ localWrites < MaxLocal
    /\ localWrites' = localWrites + 1
    /\ shown' = [shown EXCEPT ![k] = value]
    /\ setLocalValue(k, value)
    /\ UNCHANGED <<remote, latestSync, events, syncer, missed, unanswered, remoteWrites, faults>>

\* userSettingModified()
Notify ==
    /\ events # <<>>
    /\ events' = Tail(events)
    /\ shown' = [shown EXCEPT ![Head(events)] = Coalesced(rows[Head(events)])]
    /\ UNCHANGED <<remote, rows, latestSync, syncer, missed, unanswered, bounds>>

-----------------------------------------------------------------------------
(* ProfileSyncer::run().                                                   *)

Fault == faults < MaxFaults /\ faults' = faults + 1

Changed(since) ==
    {[key |-> k, value |-> server[k].value, lastModified |-> server[k].lastModified] :
        k \in {key \in Keys : server[key].lastModified > since}}

DownloadChanges ==
    /\ pc = "idle"
    /\ pc' = "apply"
    /\ batch' = Changed(latestSync)
    /\ maxLastModified' = latestSync
    /\ UNCHANGED <<remote, rows, latestSync, shown, events, todo, reply,
                   cancelled, missed, unanswered, bounds>>

setRemoteValue_Slip(new) ==     \* without last_modified != :last_modified
    rows' = [rows EXCEPT ![new.key] =
        [local |-> None, remote |-> new.value, lastModified |-> new.lastModified]]

\* The local value goes, unless this version of the remote value is there.
setRemoteValue(new) ==
    rows' = [rows EXCEPT ![new.key] =
        IF @ # None /\ @.lastModified = new.lastModified THEN @
        ELSE [local |-> None, remote |-> new.value, lastModified |-> new.lastModified]]

ApplyRemote_Slip ==     \* no event
    /\ pc = "apply"
    /\ \E change \in batch :
        /\ setRemoteValue(change)
        /\ batch' = batch \ {change}
        /\ maxLastModified' = Max({maxLastModified, change.lastModified})
    /\ UNCHANGED <<remote, latestSync, shown, events, missed, pc, todo, reply, cancelled, unanswered, bounds>>

ApplyRemote ==
    /\ pc = "apply"
    /\ \E change \in batch :
        /\ setRemoteValue(change)
        /\ batch' = batch \ {change}
        /\ maxLastModified' = Max({maxLastModified, change.lastModified})
        /\ events' = IF cancelled THEN events ELSE Append(events, change.key)
    /\ missed' = (missed \/ cancelled)
    /\ UNCHANGED <<remote, latestSync, shown, pc, todo, reply, cancelled, unanswered, bounds>>

LocalChanges_Slip ==    \* local_value != remote_value is NULL for a new key
    {[key |-> k, value |-> rows[k].local, lastModified |-> rows[k].lastModified] :
        k \in {key \in Keys : /\ rows[key] # None
                              /\ None \notin {rows[key].local, rows[key].remote}
                              /\ rows[key].local # rows[key].remote}}

LocalChanges ==
    {[key |-> k, value |-> rows[k].local, lastModified |-> rows[k].lastModified] :
        k \in {key \in Keys : /\ rows[key] # None
                              /\ rows[key].local # None
                              /\ rows[key].local # rows[key].remote}}

UpdateLatestSync_Slip ==   \* the time of the server, not of the downloaded changes
    /\ pc = "apply" /\ batch = {}
    /\ latestSync' = clock
    /\ todo' = LocalChanges
    /\ pc' = "upload"
    /\ UNCHANGED <<remote, rows, shown, events, batch, maxLastModified, reply,
                   cancelled, missed, unanswered, bounds>>

UpdateLatestSync ==
    /\ pc = "apply" /\ batch = {}
    /\ latestSync' = maxLastModified
    /\ todo' = LocalChanges
    /\ pc' = "upload"
    /\ UNCHANGED <<remote, rows, shown, events, batch, maxLastModified, reply,
                   cancelled, missed, unanswered, bounds>>

UploadChange ==
    /\ pc = "upload"
    /\ \E change \in todo :
        /\ todo' = todo \ {change}
        /\ IF Accepts(change.key, change.lastModified)
           THEN /\ Write(change.key, change.value)
                /\ mine' = mine \cup {clock + 1}
                /\ reply' = [change EXCEPT !.lastModified = clock + 1]
                /\ pc' = "uploaded"
           ELSE UNCHANGED <<remote, reply, pc>>
    /\ UNCHANGED <<rows, latestSync, shown, events, batch, maxLastModified, cancelled,
                   missed, unanswered, bounds>>

SaveUploaded_Slip ==    \* of the answer, only lastModified is saved
    /\ pc = "uploaded"
    /\ rows' = [rows EXCEPT ![reply.key].lastModified = reply.lastModified]
    /\ reply' = None
    /\ pc' = "upload"
    /\ UNCHANGED <<remote, latestSync, shown, events, batch, maxLastModified, todo,
                   cancelled, missed, unanswered, bounds>>

SaveUploaded ==
    /\ pc = "uploaded"
    /\ setRemoteValue(reply)
    /\ reply' = None
    /\ pc' = "upload"
    /\ UNCHANGED <<remote, latestSync, shown, events, batch, maxLastModified, todo,
                   cancelled, missed, unanswered, bounds>>

Leave ==
    /\ pc' = "idle"
    /\ batch' = {} /\ todo' = {} /\ reply' = None
    /\ maxLastModified' = 0
    /\ cancelled' = FALSE

Finish ==
    /\ pc = "upload" /\ todo = {}
    /\ Leave
    /\ UNCHANGED <<remote, rows, latestSync, shown, events, missed, unanswered, bounds>>

\* A request fails, or its answer is lost; the sync ends with an error.
Fail ==
    /\ pc # "idle" /\ Fault
    /\ Leave
    /\ unanswered' = IF pc = "uploaded" THEN unanswered \cup {reply.key} ELSE unanswered
    /\ UNCHANGED <<remote, rows, latestSync, shown, events, missed, remoteWrites, localWrites>>

\* run() does not look at shouldCancel; only the events stop.
Cancel ==
    /\ pc # "idle" /\ ~cancelled /\ Fault
    /\ cancelled' = TRUE
    /\ UNCHANGED <<remote, rows, latestSync, shown, events, pc, batch, maxLastModified,
                   todo, reply, missed, unanswered, remoteWrites, localWrites>>

Restart ==
    /\ Fault
    /\ Leave
    /\ unanswered' = IF pc = "uploaded" THEN unanswered \cup {reply.key} ELSE unanswered
    /\ shown' = [k \in Keys |-> Coalesced(rows[k])]
    /\ events' = <<>> /\ missed' = FALSE
    /\ UNCHANGED <<remote, rows, latestSync, remoteWrites, localWrites>>

-----------------------------------------------------------------------------
Run == DownloadChanges \/ ApplyRemote \/ UpdateLatestSync \/ UploadChange \/ SaveUploaded \/ Finish

Next ==
    \/ \E k \in Keys, value \in Values : RemoteChange(k, value) \/ Set(k, value)
    \/ Notify \/ Run \/ Fail \/ Cancel \/ Restart

Spec == Init /\ [][Next]_vars

\* Syncs are requested again and again, and both threads are scheduled.
FairSpec == Spec /\ WF_vars(Run) /\ WF_vars(Notify)

-----------------------------------------------------------------------------
(* Properties.                                                             *)

\* A change of another device that is below the timestamp was taken in, whatever
\* failed on the way: it will never be downloaded again.
CursorSkipsNothing ==
    \A k \in Keys :
        server[k].lastModified \in 1 .. latestSync
            => rows[k] # None /\ rows[k].lastModified = server[k].lastModified

\* A row that has the version of the server has its value.
SameVersionSameValue ==
    \A k \in Keys :
        (rows[k] # None /\ rows[k].lastModified > 0
            /\ rows[k].lastModified = server[k].lastModified)
                => rows[k].remote = server[k].value

\* "local_value is empty because it has either been pushed to the server or been
\* overwritten": by a change another device made, or by an upload of this one
\* whose answer was lost.
PushedOrOverwritten ==
    [][\A k \in Keys :
          (rows[k] # None /\ rows[k].local # None /\ rows'[k].local = None) =>
              \/ rows'[k].remote = rows[k].local
              \/ k \in unanswered
              \/ \E change \in batch :
                    /\ change.key = k /\ change.lastModified \notin mine
                    /\ change \notin batch']_vars

\* What the app shows is what is in the database, when all events are handled.
ShownIsStored ==
    events = <<>> /\ ~missed => shown = [k \in Keys |-> Coalesced(rows[k])]

\* When the changes and faults stop, this device and the server agree.
Converges ==
    <>[](\A k \in Keys : rows[k] # None => Coalesced(rows[k]) = server[k].value)

=============================================================================

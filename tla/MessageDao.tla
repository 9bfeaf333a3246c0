----------------------------- MODULE MessageDao -----------------------------
(***************************************************************************)
(* The rows of the table "messages" (dao/messagedao.cpp) and the pure      *)
(* operations on them.  The table is keyed by (id, old): the row with      *)
(* old = 0 is the local state of a message, the row with old = 1 its last  *)
(* state known to be on the server, kept while there are local changes.    *)
(*                                                                         *)
(* Content that is never changed after a message was added (text, sender,  *)
(* dates, key) is abstracted away; clearData() empties it exactly when a   *)
(* message becomes a tombstone, so it says nothing beyond "deleted".  The  *)
(* conversation id of a row is its conversation, or 0 for a tombstone.     *)
(***************************************************************************)
EXTENDS Naturals

CONSTANT None   \* the null pointer load() returns when there is no row

LATEST_META_VERSION == 1

Row == [lm: Nat, deleted: BOOLEAN, meta: Nat, read: BOOLEAN, done: BOOLEAN]

ASSUME NoneIsNoRow == None \notin Row

States == {"read", "done"}      \* MessageState

(***************************************************************************)
(* MessageDao::operator==, for two rows of one message: two deleted rows   *)
(* are equal whatever else they hold, and lastModified is never compared.  *)
(***************************************************************************)
SameContent(a, b) ==
    \/ a.deleted /\ b.deleted
    \/ /\ a.deleted = b.deleted
       /\ a.meta = b.meta
       /\ a.read = b.read
       /\ a.done = b.done

\* clearData(), setDeleted(true) with lastModified set or kept.
Tombstone(lm) ==
    [lm |-> lm, deleted |-> TRUE, meta |-> 0, read |-> FALSE, done |-> FALSE]

\* The conversation id stored in a row.
ConvOf(row) == IF row.deleted THEN "none" ELSE "conv"

ConvIds == {"none", "conv"}

(***************************************************************************)
(* save(CreateOld::Yes) first copies the stored row (not the values of the *)
(* saved object) to old = 1, unless such a row is there already.           *)
(***************************************************************************)
OldOnSave(oldRow, storedRow) == IF oldRow = None THEN storedRow ELSE oldRow

=============================================================================

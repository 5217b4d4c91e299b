---------------------------- MODULE MessageStore ----------------------------
(***************************************************************************)
(* The messages table of crates/database for one chat of one account, and  *)
(* the chat-list preview, as values; one operator per SQL statement that   *)
(* the services and the sync task execute.  Each statement is atomic in    *)
(* SQLite, so each operator is one step of the modules that use it.        *)
(*                                                                         *)
(* A row is a message identity and its send state: two texts are equal     *)
(* exactly when they are the same message, so the columns carried along    *)
(* unchanged (sender, text, media, ...) are that identity.                 *)
(***************************************************************************)
EXTENDS Integers

CONSTANTS
    Messages,   \* what the user composes, one element per call of send_message
    LocalIds,   \* negative ids, handed out by next_local_id
    ServerIds,  \* positive ids, assigned by Telegram
    DateOf,     \* the date Telegram stamps on a server id
    NoRow       \* what a lookup of an absent id returns

ASSUME LocalIdsAssumption == LocalIds \subseteq {i \in Int : i < 0}
ASSUME ServerIdsAssumption == ServerIds \subseteq Nat \ {0}
(* Dates have one-second granularity: later ids never carry earlier dates, *)
(* but two ids may share one.                                              *)
ASSUME DateAssumption ==
    /\ DateOf \in [ServerIds -> Nat]
    /\ \A r, s \in ServerIds : r < s => DateOf[r] <= DateOf[s]

Ids == LocalIds \cup ServerIds
SendState == {"pending", "sent", "failed"}
Row == [msg : Messages, state : SendState]

ASSUME NoRowAssumption == NoRow \notin Row

(* UNIQUE(account_id, chat_id, id): at most one row per id.                *)
Table == [Ids -> Row \cup {NoRow}]

Stored(t) == {i \in Ids : t[i] # NoRow}

(* INSERT ... ON CONFLICT DO UPDATE: the new row replaces whatever the id  *)
(* held.                                                                   *)
Upsert(t, i, row) == [t EXCEPT ![i] = row]

DeleteRows(t, ids) == [i \in Ids |-> IF i \in ids THEN NoRow ELSE t[i]]

(* UPDATE ... SET id = server_id, send_state = 'sent' WHERE id = local_id. *)
(* No row under the local id: nothing is updated.  A row already under the *)
(* server id: the UNIQUE constraint fails the statement and the table is   *)
(* unchanged.                                                              *)
ConfirmSent(t, localRow, s) ==
    IF t[localRow] # NoRow /\ t[s] = NoRow
    THEN [t EXCEPT ![s] = [msg |-> t[localRow].msg, state |-> "sent"],
                   ![localRow] = NoRow]
    ELSE t

(* Mutant: the UPDATE no longer matches the row.                           *)
MarkFailedMisses(t, localRow) == t

MarkFailed(t, localRow) ==
    IF t[localRow] = NoRow THEN t
    ELSE [t EXCEPT ![localRow] = [msg |-> t[localRow].msg, state |-> "failed"]]

(* The denormalised preview of the chat list; at = 0 stands for NULL.      *)
Preview == [at : Nat, msg : Messages \cup {NoRow}]

(* Mutant: the WHERE clause on last_message_at is gone.                    *)
TouchAnyMessage(p, at, m) == [at |-> at, msg |-> m]

TouchLastMessage(p, at, m) ==
    IF p.at <= at THEN [at |-> at, msg |-> m] ELSE p

=============================================================================

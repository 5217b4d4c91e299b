------------------------------ MODULE SendPath ------------------------------
(***************************************************************************)
(* The outgoing path of telegram-core: send_message stores a pending row   *)
(* under a negative local id, a spawned task (deliver_text) talks to       *)
(* Telegram and reconciles the row, while the user deletes messages, the   *)
(* message view backfills history and the sync task stores the server's    *)
(* own copies - all of them against the same messages table - and the      *)
(* process may stop at any point and start again.                          *)
(*                                                                         *)
(* Every await of the source at which another task can change what is      *)
(* modelled is a step boundary here; an event is published in the step of  *)
(* the statement before it (the bus and its readers are another module).   *)
(* One account and one chat: all that chats share is NEXT_LOCAL_ID, and    *)
(* sends elsewhere only leave gaps in the ids.  SQLite I/O errors are left *)
(* out, the UNIQUE violation in confirm_sent is not.                       *)
(***************************************************************************)
EXTENDS MessageStore, FiniteSets

CONSTANTS
    PageLimit,   \* the page size the message view asks messages() for
    MaxDisturb   \* bound: deletes, backfills, seeds and restarts, together

ASSUME PageLimitAssumption == PageLimit \in Nat \ {0}
ASSUME MaxDisturbAssumption == MaxDisturb \in Nat

VARIABLES
    nextLocal,   \* NEXT_LOCAL_ID, process-wide
    pc,          \* where the send of each message stands
    localId,     \* the local id it was given, 0 before that
    serverId,    \* the id Telegram gave it, 0 if it was not accepted
    newest,      \* the newest server id Telegram has assigned
    unsent,      \* server ids Telegram has deleted for everyone
    db,          \* the messages table
    preview,     \* last_message_at and last_message_preview of the chat
    del,         \* the delete_messages call in progress
    fill,        \* the messages() call in progress, when it backfills
    sync,        \* what the account's sync task has in hand
    disturbed,   \* how many deletes, backfills, seeds and restarts have begun
    dropped,     \* history: messages whose local row the user deleted
    copied,      \* history: server ids stored by sync or backfill
    outrun       \* history: messages sent while the list that last
                 \* overwrote the preview was on its way

delivery == <<nextLocal, pc, localId>>
server == <<serverId, newest, unsent>>
store == <<db, preview>>
history == <<dropped, copied, outrun>>
vars == <<delivery, server, store, del, fill, sync, disturbed, history>>

-----------------------------------------------------------------------------
(* "sending" .. "confirmed" and "erred" are the stages of deliver_text,    *)
(* "sent" and "failed" its two ends; "dead": the process stopped first.    *)
BeforeAck == {"sending", "accepted", "replied"}
Live == BeforeAck \cup {"confirmed", "erred"}
Stages == Live \cup {"new", "sent", "failed", "dead"}

Accepted == {serverId[m] : m \in Messages} \ {0}
ServerCopy(s) == [msg |-> CHOOSE m \in Messages : serverId[m] = s,
                  state |-> "sent"]

NoDelete == [at |-> "idle", id |-> 0]
NoFill == [at |-> "idle", todo |-> {}]
NoTask == [at |-> "idle", id |-> 0]
NoPreview == [at |-> 0, msg |-> NoRow]

Init ==
    /\ nextLocal = -1
    /\ pc = [m \in Messages |-> "new"]
    /\ localId = [m \in Messages |-> 0]
    /\ serverId = [m \in Messages |-> 0]
    /\ newest = 0
    /\ unsent = {}
    /\ db = [i \in Ids |-> NoRow]
    /\ preview = NoPreview
    /\ del = NoDelete
    /\ fill = NoFill
    /\ sync = NoTask
    /\ disturbed = 0
    /\ dropped = {}
    /\ copied = {}
    /\ outrun = {}

Disturb == disturbed < MaxDisturb /\ disturbed' = disturbed + 1

Goto(m, from, to) == pc[m] = from /\ pc' = [pc EXCEPT ![m] = to]

-----------------------------------------------------------------------------
(* send_message and the task it spawns                                     *)

(* Mutants: the counter is read and not advanced; it counts up.            *)
SameLocalId == nextLocal
NextPositiveId == nextLocal + 1

(* fetch_sub(1): returns the counter and leaves the next id below it.      *)
NextLocalId == nextLocal - 1

(* next_local_id, the upsert of the pending row, and the spawn. The guard  *)
(* on LocalIds only bounds the model.                                      *)
SendMessage(m) ==
    /\ Goto(m, "new", "sending")
    /\ nextLocal \in LocalIds
    /\ localId' = [localId EXCEPT ![m] = nextLocal]
    /\ nextLocal' = NextLocalId
    /\ db' = Upsert(db, nextLocal, [msg |-> m, state |-> "pending"])
    /\ UNCHANGED <<server, preview, del, fill, sync, disturbed, history>>

(* No runtime for the account, the peer is not resolved, the request is    *)
(* lost or Telegram rejects it: an Err before anything was accepted.       *)
SendFails(m) ==
    /\ Goto(m, "sending", "erred")
    /\ UNCHANGED <<nextLocal, localId, server, store, del, fill, sync, disturbed, history>>

(* Telegram accepts the message; the ids of other chats lie between.       *)
ServerAccepts(m) ==
    /\ Goto(m, "sending", "accepted")
    /\ \E s \in ServerIds :
        /\ s > newest
        /\ newest' = s
        /\ serverId' = [serverId EXCEPT ![m] = s]
    /\ UNCHANGED <<nextLocal, localId, unsent, store, del, fill, sync, disturbed, history>>

Reply(m) ==
    /\ Goto(m, "accepted", "replied")
    /\ UNCHANGED <<nextLocal, localId, server, store, del, fill, sync, disturbed, history>>

(* Mutant: a lost reply is taken for a lost request, which is sent again.  *)
ReplyLostRetried(m) ==
    /\ Goto(m, "accepted", "sending")
    /\ UNCHANGED <<nextLocal, localId, server, store, del, fill, sync, disturbed, history>>

(* The connection is lost after Telegram accepted: send_text returns Err.  *)
ReplyLost(m) ==
    /\ Goto(m, "accepted", "erred")
    /\ UNCHANGED <<nextLocal, localId, server, store, del, fill, sync, disturbed, history>>

(* confirm_sent(...).ok().flatten(): an Err of the UPDATE is dropped.      *)
Confirm(m) ==
    /\ Goto(m, "replied", "confirmed")
    /\ db' = ConfirmSent(db, localId[m], serverId[m])
    /\ UNCHANGED <<nextLocal, localId, server, preview, del, fill, sync, disturbed, history>>

(* touch_last_message, then publish MessageDeleted(local id) and           *)
(* MessageAdded(server id)                                                 *)
TouchPreview(m) ==
    /\ Goto(m, "confirmed", "sent")
    /\ preview' = TouchLastMessage(preview, DateOf[serverId[m]], m)
    /\ UNCHANGED <<nextLocal, localId, server, db, del, fill, sync, disturbed, history>>

(* Mutant: an error ends the task without touching the row.                *)
GiveUp(m) ==
    /\ Goto(m, "erred", "failed")
    /\ UNCHANGED <<nextLocal, localId, server, store, del, fill, sync, disturbed, history>>

(* mark_failed, then publish MessageUpdated(failed)                        *)
FailRow(m) ==
    /\ Goto(m, "erred", "failed")
    /\ db' = MarkFailed(db, localId[m])
    /\ UNCHANGED <<nextLocal, localId, server, preview, del, fill, sync, disturbed, history>>

Deliver(m) ==
    \/ SendFails(m) \/ ServerAccepts(m) \/ Reply(m) \/ ReplyLost(m)
    \/ Confirm(m) \/ TouchPreview(m) \/ FailRow(m)

-----------------------------------------------------------------------------
(* delete_messages, one id at a time                                       *)

(* Only a positive id goes to Telegram.                                    *)
NeedsRpc(i) == i > 0

DeleteBegin(i) ==
    /\ del = NoDelete
    /\ Disturb
    /\ i \in Stored(db)
    /\ del' = [at |-> IF NeedsRpc(i) THEN "rpc" ELSE "local", id |-> i]
    /\ UNCHANGED <<delivery, server, store, fill, sync, history>>

DeleteRpcOk ==
    /\ del.at = "rpc"
    /\ unsent' = unsent \cup {del.id}
    /\ del' = [del EXCEPT !.at = "local"]
    /\ UNCHANGED <<delivery, serverId, newest, store, fill, sync, disturbed, history>>

(* Mutant: the error of the RPC is logged and the local delete goes on.    *)
DeleteAnyway(d) == [d EXCEPT !.at = "local"]

(* What a failed RPC leaves to do: `?` returns before the local delete.    *)
AfterRpcError(d) == NoDelete

DeleteRpcErr ==
    /\ del.at = "rpc"
    /\ del' = AfterRpcError(del)
    /\ UNCHANGED <<delivery, server, store, fill, sync, disturbed, history>>

(* Telegram deletes the message and the reply is lost: the same Err.       *)
DeleteReplyLost ==
    /\ del.at = "rpc"
    /\ unsent' = unsent \cup {del.id}
    /\ del' = AfterRpcError(del)
    /\ UNCHANGED <<delivery, serverId, newest, store, fill, sync, disturbed, history>>

(* DELETE in one transaction, then publish MessageDeleted                  *)
DeleteLocally ==
    /\ del.at = "local"
    /\ db' = DeleteRows(db, {del.id})
    /\ dropped' = dropped \cup
        {m \in Messages : del.id \in LocalIds /\ db[del.id] # NoRow /\ db[del.id].msg = m}
    /\ del' = NoDelete
    /\ UNCHANGED <<delivery, server, preview, fill, sync, disturbed, copied, outrun>>

-----------------------------------------------------------------------------
(* messages(before = None): backfill when less than a page is stored       *)

FillBegin ==
    /\ fill = NoFill
    /\ Cardinality(Stored(db)) < PageLimit
    /\ Disturb
    /\ fill' = [fill EXCEPT !.at = "rpc"]
    /\ UNCHANGED <<delivery, server, store, del, sync, history>>

NewestPage(S) == {s \in S : Cardinality({r \in S : r > s}) < PageLimit}

FillReply ==
    /\ fill.at = "rpc"
    /\ LET page == NewestPage(Accepted \ unsent) IN
        fill' = IF page = {} THEN NoFill ELSE [at |-> "upsert", todo |-> page]
    /\ UNCHANGED <<delivery, server, store, del, sync, disturbed, history>>

FillError ==
    /\ fill.at = "rpc"
    /\ fill' = NoFill
    /\ UNCHANGED <<delivery, server, store, del, sync, disturbed, history>>

(* for message in &fetched, newest first                                   *)
FillUpsert ==
    /\ fill.at = "upsert"
    /\ \E s \in fill.todo :
        /\ \A r \in fill.todo : r <= s
        /\ db' = Upsert(db, s, ServerCopy(s))
        /\ copied' = copied \cup {s}
        /\ fill' = IF fill.todo = {s} THEN NoFill
                   ELSE [fill EXCEPT !.todo = @ \ {s}]
    /\ UNCHANGED <<delivery, server, preview, del, sync, disturbed, dropped, outrun>>

-----------------------------------------------------------------------------
(* The account's sync task, for messages of this account: apply_event of a *)
(* MessageNew (live, from another device's point of view, or replayed by   *)
(* catch-up) and of a deletion, and at the start of every sync_cycle the   *)
(* seed from the dialog list.  It does one of these at a time.             *)

SyncUpsert(s) ==
    /\ sync = NoTask
    /\ s \in Accepted
    /\ db' = Upsert(db, s, ServerCopy(s))
    /\ copied' = copied \cup {s}
    /\ sync' = [at |-> "touch", id |-> s]
    /\ UNCHANGED <<delivery, server, preview, del, fill, disturbed, dropped, outrun>>

SyncTouch ==
    /\ sync.at = "touch"
    /\ preview' = TouchLastMessage(preview, DateOf[sync.id], ServerCopy(sync.id).msg)
    /\ sync' = NoTask
    /\ UNCHANGED <<delivery, server, db, del, fill, disturbed, history>>

SyncDelete(s) ==
    /\ sync = NoTask
    /\ s \in unsent
    /\ db' = DeleteRows(db, {s})
    /\ UNCHANGED <<delivery, server, preview, del, fill, sync, disturbed, history>>

(* list_dialogs: the last message of the chat, as Telegram has it now; the *)
(* entries of the list are then written one after the other.               *)
SeedFetch ==
    /\ sync = NoTask
    /\ Disturb
    /\ \E s \in (Accepted \ unsent) \cup {0} :
        /\ \A r \in Accepted \ unsent : r <= s
        /\ sync' = [at |-> "chat", id |-> s]
    /\ UNCHANGED <<delivery, server, store, del, fill, history>>

DialogPreview(s) ==
    IF s = 0 THEN NoPreview ELSE [at |-> DateOf[s], msg |-> ServerCopy(s).msg]

(* chats().upsert(&entry.chat): date and text are those of the list,       *)
(* whatever the row holds by now.                                          *)
SeedPreview ==
    /\ sync.at = "chat"
    /\ preview' = DialogPreview(sync.id)
    /\ outrun' = {m \in Messages : pc[m] = "sent" /\ serverId[m] > sync.id}
    /\ sync' = IF sync.id = 0 THEN NoTask ELSE [sync EXCEPT !.at = "row"]
    /\ UNCHANGED <<delivery, server, db, del, fill, disturbed, dropped, copied>>

(* messages().upsert(entry.last_message), then publish ChatUpdated         *)
SeedRow ==
    /\ sync.at = "row"
    /\ db' = Upsert(db, sync.id, ServerCopy(sync.id))
    /\ copied' = copied \cup {sync.id}
    /\ sync' = NoTask
    /\ UNCHANGED <<delivery, server, preview, del, fill, disturbed, dropped, outrun>>

-----------------------------------------------------------------------------
(* The process stops and starts again: tasks and NEXT_LOCAL_ID are gone,   *)
(* the database is not, and nothing at startup revisits its pending rows.  *)
(* A request on the wire when the process stops was either accepted before *)
(* this step or never is.                                                  *)
AfterCrash == [m \in Messages |-> IF pc[m] \in Live THEN "dead" ELSE pc[m]]

Crash ==
    /\ Disturb
    /\ nextLocal' = -1
    /\ pc' = AfterCrash
    /\ del' = NoDelete
    /\ fill' = NoFill
    /\ sync' = NoTask
    /\ UNCHANGED <<localId, server, store, history>>

(* Nothing is in progress: the program waits for the user.                 *)
Idle ==
    /\ \A m \in Messages : pc[m] \notin Live
    /\ del = NoDelete /\ fill = NoFill /\ sync = NoTask
    /\ UNCHANGED vars

Next ==
    \/ \E m \in Messages : SendMessage(m) \/ Deliver(m)
    \/ \E i \in Ids : DeleteBegin(i)
    \/ DeleteRpcOk \/ DeleteRpcErr \/ DeleteReplyLost \/ DeleteLocally
    \/ FillBegin \/ FillReply \/ FillError \/ FillUpsert
    \/ \E s \in ServerIds : SyncUpsert(s) \/ SyncDelete(s)
    \/ SyncTouch \/ SeedFetch \/ SeedPreview \/ SeedRow
    \/ Crash
    \/ Idle

(* A spawned task is polled until it finishes (tokio), and an RPC returns  *)
(* a reply or an error; nothing else is assumed to happen.                 *)
Fairness == \A m \in Messages : WF_vars(Deliver(m))

Spec == Init /\ [][Next]_vars /\ Fairness

-----------------------------------------------------------------------------
(* The type invariant of the send path, its store and the other callers.   *)
TypeOK ==
    /\ nextLocal \in {i \in Int : i < 0}
    /\ pc \in [Messages -> Stages]
    /\ localId \in [Messages -> LocalIds \cup {0}]
    /\ serverId \in [Messages -> ServerIds \cup {0}]
    /\ newest \in ServerIds \cup {0}
    /\ unsent \in SUBSET ServerIds
    /\ db \in Table
    /\ preview \in Preview
    /\ del \in [at : {"idle", "rpc", "local"}, id : Ids \cup {0}]
    /\ fill \in [at : {"idle", "rpc", "upsert"}, todo : SUBSET ServerIds]
    /\ sync \in [at : {"idle", "touch", "chat", "row"}, id : ServerIds \cup {0}]
    /\ disturbed \in 0 .. MaxDisturb
    /\ dropped \in SUBSET Messages
    /\ copied \in SUBSET ServerIds
    /\ outrun \in SUBSET Messages

(* A row under a server id is a sent row, and it holds the very message    *)
(* that Telegram gave this id: confirm_sent never files one message under  *)
(* the id of another, however sends, restarts, backfill and sync           *)
(* interleave.                                                             *)
SentIsAccepted ==
    \A s \in ServerIds : db[s] # NoRow =>
        /\ db[s].state = "sent"
        /\ serverId[db[s].msg] = s

(* "Honest about delivery state": a local row is failed only after its     *)
(* delivery failed, and pending only while its delivery runs, after the    *)
(* process that was delivering it stopped, or when the server's copy       *)
(* reached the table before confirm_sent and made it fail.                 *)
RowTellsDelivery ==
    \A i \in LocalIds : db[i] # NoRow =>
        LET m == db[i].msg IN
        /\ localId[m] = i
        /\ \/ db[i].state = "failed" /\ pc[m] = "failed"
           \/ /\ db[i].state = "pending"
              /\ \/ pc[m] \in BeforeAck \cup {"erred", "dead"}
                 \/ pc[m] \in {"confirmed", "sent"} /\ serverId[m] \in copied

(* A message the user has sent is in the table - pending, failed or sent - *)
(* until the user deletes it or Telegram has deleted it; the one other way *)
(* to lose it is a local id handed out a second time, after a restart.     *)
NothingLost ==
    \A m \in Messages : pc[m] # "new" =>
        \/ m \in dropped
        \/ db[localId[m]] # NoRow /\ db[localId[m]].msg = m
        \/ serverId[m] # 0 /\ (db[serverId[m]] # NoRow \/ serverId[m] \in unsent)
        \/ \E n \in Messages \ {m} : localId[n] = localId[m]

(* The preview is a message Telegram accepted, with its own date, and no   *)
(* older than any message whose delivery has finished and that Telegram    *)
(* still has, in whatever order the acknowledgements and the updates came  *)
(* back.  The one way for it to fall behind is the seed of sync_cycle: a   *)
(* delivery that finished between the fetch of the dialog list and the     *)
(* write of the chat's entry, until a newer list or message corrects it.   *)
PreviewNewest ==
    /\ preview.at > 0 => /\ preview.msg \in Messages
                         /\ serverId[preview.msg] # 0
                         /\ preview.at = DateOf[serverId[preview.msg]]
    /\ \A m \in Messages :
        pc[m] = "sent" => \/ preview.at >= DateOf[serverId[m]]
                          \/ serverId[m] \in unsent
                          \/ m \in outrun

Unresolved(m) == \E i \in LocalIds : db[i] = [msg |-> m, state |-> "pending"]

(* Every send ends, unless the process stops, and with it the pending row: *)
(* it is re-keyed, marked failed or deleted - except for the row whose     *)
(* confirm_sent the server's own copy forestalled.  A message is sent once *)
(* and there are finitely many, so this is said of all of them in the end. *)
DeliveryResolves ==
    <>[] \A m \in Messages :
            /\ pc[m] \notin Live
            /\ Unresolved(m) => pc[m] = "dead" \/ serverId[m] \in copied

(* What the table and the tasks say of each message, in Outbox's terms.    *)
Outcome ==
    [m \in Messages |-> IF pc[m] \in Live THEN "sending"
                        ELSE IF pc[m] = "dead" THEN "stopped" ELSE pc[m]]

ShownStates ==
    [m \in Messages |-> {db[i].state : i \in {j \in Stored(db) : db[j].msg = m}}]

Promise == INSTANCE Outbox
    WITH outcome <- Outcome, acceptedAs <- serverId, shown <- ShownStates

(* The send path keeps what Outbox promises of it, through every           *)
(* interleaving with deletes, backfill, updates and restarts: one          *)
(* submission, at most one acceptance, one final outcome, and the states   *)
(* shown follow them.                                                      *)
ImplementsOutbox == Promise!Spec

(* services.rs 18-20 says of the local ids that several runs of the        *)
(* program stay collision-free: a stored local row is never overwritten by *)
(* another message.                                                        *)
LocalIdsNeverCollide ==
    [][\A i \in LocalIds : db[i] # NoRow /\ db'[i] # NoRow
                              => db'[i].msg = db[i].msg]_vars

(* messages.rs 3-6 says that a pending row is re-keyed to the server id    *)
(* once Telegram acknowledges: after the delivery, no pending row is left. *)
AcknowledgedIsRekeyed == \A m \in Messages : pc[m] = "sent" => ~Unresolved(m)
=============================================================================

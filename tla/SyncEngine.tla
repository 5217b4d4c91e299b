----------------------------- MODULE SyncEngine -----------------------------
(***************************************************************************)
(* The sync task of one account (telegram-core/src/sync.rs), seen at one   *)
(* chat: it seeds the chat list from list_dialogs, applies the ordered     *)
(* update stream, and starts over with a growing delay when the connection *)
(* is lost.  The calls of the UI that write the same rows run beside it:   *)
(* mark_read, edit_message, react, delete_messages, send_file, and the     *)
(* pages that messages() and search() store.                               *)
(*                                                                         *)
(* Every await between two statements on the database is a step boundary.  *)
(* A row is the version of its text (the other columns travel with it),    *)
(* the chat row is its unread counter: the preview is SendPath's.          *)
(* Telegram is an append-only log of updates; catch_up is on, as in        *)
(* config/default.toml, and a catch-up (getDifference) hands out messages  *)
(* as they are now and no deleted ones.  That the updates of our own edits *)
(* and deletions are in the log too is an assumption on Telegram.          *)
(***************************************************************************)
EXTENDS Integers, Sequences, FiniteSets

CONSTANTS
    Ids,         \* server message ids of the chat
    Incoming,    \* those sent by somebody else
    Callers,     \* calls of the UI that may be under way together
    FirstDelay,  \* backoff_initial_secs, at least 1
    LastDelay,   \* backoff_max_secs, at least 1
    MaxEdits,    \* bound: edits of one message
    MaxUpdates,  \* bound: updates in Telegram's log
    MaxCalls,    \* bound: calls of the UI
    MaxTrouble   \* bound: lost connections and restarts, together

ASSUME IdsAssumption == Ids \subseteq Nat \ {0} /\ Incoming \subseteq Ids
ASSUME DelayAssumption == FirstDelay \in Nat \ {0} /\ LastDelay \in Nat \ {0}
ASSUME BoundsAssumption ==
    MaxEdits \in Nat /\ MaxUpdates \in Nat /\ MaxCalls \in Nat /\ MaxTrouble \in Nat

VARIABLES
    newest,     \* Telegram: the newest id
    gone,       \* Telegram: ids deleted for everyone
    text,       \* Telegram: how often each message has been edited
    serverRead, \* Telegram: everything up to this id has been read
    log,        \* Telegram: the updates, oldest first
    db,         \* messages table: the version stored under each id
    unread,     \* unread_count of the chat row, NoChat without a row
    sync,       \* the sync task
    delay,      \* its reconnect delay
    pos,        \* how much of the log its stream has handed out
    saved,      \* the watermark in the stored session
    call,       \* the calls of the UI
    made,       \* how many calls have begun
    trouble,    \* how many connections and processes have been lost
    top,        \* history: the furthest pos has ever been
    counted,    \* history: messages that have raised the counter
    aside,      \* history: stored by other hands than apply_event, or counted never
    cleared,    \* history: marked read by the user
    overtaken,  \* history: came between mark_read's watermark and its reset
    raced,      \* history: overwritten with an older version by a call
    erased,     \* history: ids whose deletion the task has applied
    revived     \* history: of those, the ones a call was about to write

telegram == <<newest, gone, text, serverRead, log>>
stream == <<pos, top, saved>>
badge == <<counted, aside, cleared, overtaken>>
rows == <<raced, erased, revived>>
vars == <<telegram, db, unread, sync, delay, stream, call, made, trouble, badge, rows>>

-----------------------------------------------------------------------------
NoRow == -1
NoChat == -1
Text == 0 .. MaxEdits

Stored == {m \in Ids : db[m] # NoRow}
MaxOf(S) == IF S = {} THEN 0 ELSE CHOOSE m \in S : \A n \in S : n <= m

(* "fresh" and "known" are apply_event between its lookup and its upsert,  *)
(* "count" and "bump" the increment of the counter; "over" and "revoked"   *)
(* are the two returns of run.                                             *)
SyncStages == {"start", "ask", "seedChat", "seedRow", "live", "fresh", "known",
               "count", "bump", "sleep", "over", "revoked"}
At(stage) == [at |-> stage, id |-> 0, text |-> 0, n |-> 0]

CallStages == {"idle", "zero", "tell", "edit", "react", "put", "store", "drop"}
Idle == [at |-> "idle", id |-> 0, text |-> 0]

Update(kind, m, v) == [kind |-> kind, id |-> m, text |-> v]

(* A first login: the chat may have a history already.                     *)
Init ==
    /\ newest \in Ids \cup {0}
    /\ serverRead \in {0, newest}
    /\ gone = {}
    /\ text = [m \in Ids |-> 0]
    /\ log = <<>>
    /\ db = [m \in Ids |-> NoRow]
    /\ unread = NoChat
    /\ sync = At("start")
    /\ delay = FirstDelay
    /\ pos = 0 /\ top = 0 /\ saved = 0
    /\ call = [c \in Callers |-> Idle]
    /\ made = 0
    /\ trouble = 0
    /\ counted = {} /\ aside = {} /\ cleared = {} /\ overtaken = {}
    /\ raced = {} /\ erased = {} /\ revived = {}

-----------------------------------------------------------------------------
(* Telegram and the other people and devices                               *)

Announce(update) ==
    /\ Len(log) < MaxUpdates
    /\ log' = Append(log, update)

Posts(m) ==
    /\ m \in Ids
    /\ m = newest + 1
    /\ newest' = m
    /\ Announce(Update("new", m, 0))

Exists(m) == m \in Ids /\ m <= newest /\ m \notin gone

Edits(m) ==
    /\ Exists(m)
    /\ text[m] < MaxEdits
    /\ text' = [text EXCEPT ![m] = @ + 1]
    /\ Announce(Update("edit", m, text[m] + 1))

Unsends(m) ==
    /\ Exists(m)
    /\ gone' = gone \cup {m}
    /\ Announce(Update("delete", m, 0))

PostElsewhere(m) ==
    /\ Posts(m)
    /\ UNCHANGED <<gone, text, serverRead, db, unread, sync, delay, stream, call, made,
                   trouble, badge, rows>>

EditElsewhere(m) ==
    /\ Edits(m)
    /\ UNCHANGED <<newest, gone, serverRead, db, unread, sync, delay, stream, call, made,
                   trouble, badge, rows>>

UnsendElsewhere(m) ==
    /\ Unsends(m)
    /\ UNCHANGED <<newest, text, serverRead, db, unread, sync, delay, stream, call, made,
                   trouble, badge, rows>>

(* The update that says so is one the client does not handle.              *)
ReadElsewhere ==
    /\ serverRead < newest
    /\ serverRead' = newest
    /\ UNCHANGED <<newest, gone, text, log, db, unread, sync, delay, stream, call, made,
                   trouble, badge, rows>>

-----------------------------------------------------------------------------
(* run: the stream is taken once, then cycle after cycle                   *)

SyncGoes(from, to) == sync.at = from /\ sync' = At(to)

TakeStream ==
    /\ SyncGoes("start", "ask")
    /\ UNCHANGED <<telegram, db, unread, delay, stream, call, made, trouble, badge, rows>>

(* take_update_stream fails: run returns, and nothing starts it again.     *)
StreamRefused ==
    /\ SyncGoes("start", "over")
    /\ UNCHANGED <<telegram, db, unread, delay, stream, call, made, trouble, badge, rows>>

NotRead == {m \in Incoming : Exists(m) /\ m > serverRead}
LastOf == MaxOf({m \in Ids : Exists(m)})

(* list_dialogs: unread_count and the last message, as of now.  An account *)
(* without the chat has no entry to seed.                                  *)
Dialogs ==
    /\ sync.at = "ask"
    /\ sync' = IF newest = 0 THEN At("live")
               ELSE [at |-> "seedChat", id |-> LastOf,
                     text |-> IF LastOf = 0 THEN 0 ELSE text[LastOf],
                     n |-> Cardinality(NotRead)]
    /\ UNCHANGED <<telegram, db, unread, delay, stream, call, made, trouble, badge, rows>>

(* chats().upsert(&entry.chat): the counter is overwritten.  The date and  *)
(* the preview the same statement overwrites are SendPath's SeedPreview.   *)
SeedChat ==
    /\ sync.at = "seedChat"
    /\ unread' = sync.n
    /\ sync' = IF sync.id = 0 THEN At("live") ELSE [sync EXCEPT !.at = "seedRow"]
    /\ UNCHANGED <<telegram, db, delay, stream, call, made, trouble, badge, rows>>

(* messages().upsert(last_message), ChatUpdated, flush, UpToDate           *)
SeedRow ==
    /\ sync.at = "seedRow"
    /\ db' = [db EXCEPT ![sync.id] = sync.text]
    /\ sync' = At("live")
    /\ UNCHANGED <<telegram, unread, delay, stream, call, made, trouble, badge, rows>>

Lose == trouble < MaxTrouble /\ trouble' = trouble + 1

DialogsFail ==
    /\ SyncGoes("ask", "sleep")
    /\ Lose
    /\ UNCHANGED <<telegram, db, unread, delay, stream, call, made, badge, rows>>

(* sync_state() puts the watermark into the session; whether it is flushed *)
(* before the process ends is not this module's business.                  *)
StreamFails ==
    /\ SyncGoes("live", "sleep")
    /\ Lose
    /\ saved' \in {saved, pos}
    /\ UNCHANGED <<telegram, db, unread, delay, pos, top, call, made, badge, rows>>

(* Mutant: halved instead of doubled.                                      *)
HalfDelay(d) == d \div 2

(* (backoff * 2).min(backoff_max), and it is never set back                *)
NextDelay(d) == IF 2 * d < LastDelay THEN 2 * d ELSE LastDelay

(* Mutant: at the longest delay the task gives up.                         *)
SleepToCap ==
    /\ SyncGoes("sleep", IF delay >= LastDelay THEN "sleep" ELSE "ask")
    /\ delay' = NextDelay(delay)
    /\ UNCHANGED <<telegram, db, unread, stream, call, made, trouble, badge, rows>>

Sleep ==
    /\ SyncGoes("sleep", "ask")
    /\ delay' = NextDelay(delay)
    /\ UNCHANGED <<telegram, db, unread, stream, call, made, trouble, badge, rows>>

(* is_auth_revoked, in either place: on_logged_out, and run returns.       *)
Revoked ==
    /\ sync.at \in {"ask", "live"}
    /\ sync' = At("revoked")
    /\ UNCHANGED <<telegram, db, unread, delay, stream, call, made, trouble, badge, rows>>

-----------------------------------------------------------------------------
(* apply_event                                                             *)

Replay == pos < top
Head1 == log[pos + 1]
Carried == IF Replay THEN text[Head1.id] ELSE Head1.text

Receive(kind) ==
    /\ sync.at = "live"
    /\ pos < Len(log)
    /\ Head1.kind = kind
    /\ pos' = pos + 1
    /\ top' = IF Replay THEN top ELSE pos + 1

(* A deleted message is not handed out a second time.                      *)
SkipDeleted ==
    /\ \E kind \in {"new", "edit"} : Receive(kind)
    /\ Replay /\ Head1.id \in gone
    /\ UNCHANGED <<telegram, db, unread, sync, delay, saved, call, made, trouble, badge, rows>>

(* Mutant: every delivery of an incoming message counts.                   *)
CountsAlways(m) == m \in Incoming

(* !message.outgoing && !already_seen                                      *)
Counts(m) == m \in Incoming /\ db[m] = NoRow

ReceiveNew ==
    /\ Receive("new")
    /\ ~(Replay /\ Head1.id \in gone)
    /\ sync' = [at |-> IF Counts(Head1.id) THEN "fresh" ELSE "known",
                id |-> Head1.id, text |-> Carried, n |-> 0]
    /\ UNCHANGED <<telegram, db, unread, delay, saved, call, made, trouble, badge, rows>>

(* messages().upsert, then touch_last_message (see SendPath)               *)
StoreNew ==
    /\ sync.at \in {"fresh", "known"}
    /\ db' = [db EXCEPT ![sync.id] = sync.text]
    /\ sync' = IF sync.at = "fresh" THEN [sync EXCEPT !.at = "count"] ELSE At("live")
    /\ UNCHANGED <<telegram, unread, delay, stream, call, made, trouble, badge, rows>>

(* chats().get: a chat that no dialog list has seeded has no row to count  *)
(* in, nor one to publish.                                                 *)
ReadCounter ==
    /\ sync.at = "count"
    /\ sync' = IF unread = NoChat THEN At("live")
               ELSE [sync EXCEPT !.at = "bump", !.n = unread]
    /\ UNCHANGED <<telegram, db, unread, delay, stream, call, made, trouble, badge, rows>>

(* Mutant: the counter read before is written back as it was.              *)
WriteSame ==
    /\ sync.at = "bump"
    /\ unread' = sync.n
    /\ counted' = counted \cup {sync.id}
    /\ sync' = At("live")
    /\ UNCHANGED <<telegram, db, delay, stream, call, made, trouble, aside, cleared, overtaken, rows>>

(* set_unread_count(chat.unread_count + 1), ChatUpdated, MessageAdded      *)
WriteCounter ==
    /\ sync.at = "bump"
    /\ unread' = sync.n + 1
    /\ counted' = counted \cup {sync.id}
    /\ sync' = At("live")
    /\ UNCHANGED <<telegram, db, delay, stream, call, made, trouble, aside, cleared, overtaken, rows>>

NewAside(m) == IF db[m] = NoRow THEN {m} ELSE {}

(* Mutant: the upsert leaves an existing row alone.                        *)
ReceiveEditKept ==
    /\ Receive("edit")
    /\ ~(Replay /\ Head1.id \in gone)
    /\ db' = IF db[Head1.id] = NoRow THEN [db EXCEPT ![Head1.id] = Carried] ELSE db
    /\ aside' = aside \cup NewAside(Head1.id)
    /\ UNCHANGED <<telegram, unread, sync, delay, saved, call, made, trouble, counted, cleared,
                   overtaken, rows>>

ReceiveEdit ==
    /\ Receive("edit")
    /\ ~(Replay /\ Head1.id \in gone)
    /\ db' = [db EXCEPT ![Head1.id] = Carried]
    /\ aside' = aside \cup NewAside(Head1.id)
    /\ UNCHANGED <<telegram, unread, sync, delay, saved, call, made, trouble, counted, cleared,
                   overtaken, rows>>

AboutToWrite(m) == \E c \in Callers : call[c].at \in {"put", "store"} /\ call[c].id = m

ReceiveDelete ==
    /\ Receive("delete")
    /\ db' = [db EXCEPT ![Head1.id] = NoRow]
    /\ erased' = erased \cup {Head1.id}
    /\ revived' = revived \cup {m \in {Head1.id} : AboutToWrite(m)}
    /\ UNCHANGED <<telegram, unread, sync, delay, saved, call, made, trouble, badge, raced>>

ApplyEvent ==
    \/ SkipDeleted \/ ReceiveNew \/ StoreNew \/ ReadCounter \/ WriteCounter
    \/ ReceiveEdit \/ ReceiveDelete

-----------------------------------------------------------------------------
(* The calls of the UI                                                     *)

Begin(c, stage, m, v) ==
    /\ call[c] = Idle
    /\ made < MaxCalls
    /\ made' = made + 1
    /\ call' = [call EXCEPT ![c] = [at |-> stage, id |-> m, text |-> v]]

Return(c) == call' = [call EXCEPT ![c] = Idle]

(* mark_read: the watermark is the newest stored id ...                    *)
MarkRead(c) ==
    /\ Begin(c, "zero", MaxOf(Stored), 0)
    /\ UNCHANGED <<telegram, db, unread, sync, delay, stream, trouble, badge, rows>>

(* A dialog whose counter is stored and whose last message is not yet.     *)
Seeding == IF sync.at = "seedRow" THEN {sync.id} ELSE {}

(* ... then the counter is reset ...                                       *)
ResetCounter(c) ==
    /\ call[c].at = "zero"
    /\ unread' = IF unread = NoChat THEN NoChat ELSE 0
    /\ cleared' = cleared \cup {m \in Stored \cup Seeding : m <= call[c].id}
    /\ overtaken' = overtaken \cup {m \in Stored \cup Seeding : m > call[c].id}
    /\ call' = [call EXCEPT ![c].at = "tell"]
    /\ UNCHANGED <<telegram, db, sync, delay, stream, made, trouble, counted, aside, rows>>

(* ... and Telegram is told: 0 means everything, or in a channel nothing.  *)
TellRead(c) ==
    /\ call[c].at = "tell"
    /\ serverRead' \in IF call[c].id = 0 THEN {serverRead, newest}
                       ELSE {MaxOf({serverRead, call[c].id})}
    /\ Return(c)
    /\ UNCHANGED <<newest, gone, text, log, db, unread, sync, delay, stream, made, trouble,
                   badge, rows>>

(* The error is logged; mark_read returns Ok.                              *)
TellFails(c) ==
    /\ call[c].at = "tell"
    /\ Return(c)
    /\ UNCHANGED <<telegram, db, unread, sync, delay, stream, made, trouble, badge, rows>>

(* edit_message and react: Telegram first, ...                             *)
Edit(c, m) ==
    /\ m \in Stored \ Incoming
    /\ Edits(m)
    /\ Begin(c, "edit", m, text[m] + 1)
    /\ UNCHANGED <<newest, gone, serverRead, db, unread, sync, delay, stream, trouble, badge, rows>>

React(c, m) ==
    /\ m \in Stored
    /\ Exists(m)
    /\ Begin(c, "react", m, 0)
    /\ UNCHANGED <<telegram, db, unread, sync, delay, stream, trouble, badge, rows>>

(* Mutant: the row is written whether or not it is still there.            *)
ReadRowBlind(c) ==
    /\ call[c].at \in {"edit", "react"}
    /\ call' = [call EXCEPT ![c].at = "put"]
    /\ UNCHANGED <<telegram, db, unread, sync, delay, stream, made, trouble, badge, rows>>

(* ... then messages().get: react keeps the text it finds, edit_message    *)
(* puts its own in its place.                                              *)
ReadRow(c) ==
    /\ call[c].at \in {"edit", "react"}
    /\ call' = [call EXCEPT ![c] =
                    IF db[@.id] = NoRow THEN Idle
                    ELSE [at |-> "put", id |-> @.id,
                          text |-> IF @.at = "edit" THEN @.text ELSE db[@.id]]]
    /\ UNCHANGED <<telegram, db, unread, sync, delay, stream, made, trouble, badge, rows>>

(* A message of a fetched page: search() and the backfill of messages()    *)
(* store it whatever the table holds by then.                              *)
Fetch(c, m) ==
    /\ Exists(m)
    /\ Begin(c, "store", m, text[m])
    /\ UNCHANGED <<telegram, db, unread, sync, delay, stream, trouble, badge, rows>>

(* send_file: uploads and sends, then stores what Telegram answered.       *)
SendFile(c, m) ==
    /\ m \notin Incoming
    /\ Posts(m)
    /\ Begin(c, "store", m, 0)
    /\ UNCHANGED <<gone, text, serverRead, db, unread, sync, delay, stream, trouble, badge, rows>>

(* The upsert that ends all of them.                                       *)
WriteRow(c) ==
    /\ call[c].at \in {"put", "store"}
    /\ db' = [db EXCEPT ![call[c].id] = call[c].text]
    /\ raced' = raced \cup {m \in {call[c].id} : db[m] > call[c].text}
    /\ aside' = aside \cup NewAside(call[c].id)
    /\ Return(c)
    /\ UNCHANGED <<telegram, unread, sync, delay, stream, made, trouble, counted, cleared,
                   overtaken, erased, revived>>

(* delete_messages: Telegram first, then the row.                          *)
Delete(c, m) ==
    /\ m \in Stored
    /\ Unsends(m)
    /\ Begin(c, "drop", m, 0)
    /\ UNCHANGED <<newest, text, serverRead, db, unread, sync, delay, stream, trouble, badge, rows>>

DropRow(c) ==
    /\ call[c].at = "drop"
    /\ db' = [db EXCEPT ![call[c].id] = NoRow]
    /\ Return(c)
    /\ UNCHANGED <<telegram, unread, sync, delay, stream, made, trouble, badge, rows>>

-----------------------------------------------------------------------------
(* The process ends and starts again: the stream resumes at the stored     *)
(* watermark.                                                              *)
HalfCounted == IF sync.at \in {"count", "bump"} THEN {sync.id} ELSE {}

Restart ==
    /\ Lose
    /\ sync' = At("start")
    /\ delay' = FirstDelay
    /\ pos' = saved
    /\ call' = [c \in Callers |-> Idle]
    /\ aside' = aside \cup HalfCounted
    /\ UNCHANGED <<telegram, db, unread, top, saved, made, counted, cleared, overtaken, rows>>

-----------------------------------------------------------------------------
SyncStep ==
    \/ TakeStream \/ Dialogs \/ SeedChat \/ SeedRow \/ Sleep \/ ApplyEvent

CallStep(c) ==
    \/ ResetCounter(c) \/ TellRead(c) \/ TellFails(c) \/ ReadRow(c) \/ WriteRow(c) \/ DropRow(c)

Next ==
    \/ SyncStep
    \/ StreamRefused \/ DialogsFail \/ StreamFails \/ Revoked \/ Restart
    \/ \E m \in Ids : PostElsewhere(m) \/ EditElsewhere(m) \/ UnsendElsewhere(m)
    \/ ReadElsewhere
    \/ \E c \in Callers :
        \/ MarkRead(c) \/ CallStep(c)
        \/ \E m \in Ids : Edit(c, m) \/ React(c, m) \/ Fetch(c, m) \/ SendFile(c, m) \/ Delete(c, m)

(* The sync task is polled by tokio and its requests return: with an error *)
(* or a lost connection as often as MaxTrouble allows, else with a reply.  *)
Fairness == WF_vars(SyncStep)

Spec == Init /\ [][Next]_vars /\ Fairness

-----------------------------------------------------------------------------
(* The type invariant of Telegram, the store, the task and the calls.      *)
TypeOK ==
    /\ newest \in Ids \cup {0}
    /\ gone \subseteq Ids
    /\ text \in [Ids -> Text]
    /\ serverRead \in Ids \cup {0}
    /\ log \in Seq([kind : {"new", "edit", "delete"}, id : Ids, text : Text])
    /\ db \in [Ids -> Text \cup {NoRow}]
    /\ unread \in Nat \cup {NoChat}
    /\ sync \in [at : SyncStages, id : Ids \cup {0}, text : Text, n : Nat]
    /\ delay \in Nat \ {0}
    /\ pos \in 0 .. Len(log) /\ top \in 0 .. Len(log) /\ saved \in 0 .. Len(log)
    /\ call \in [Callers -> [at : CallStages, id : Ids \cup {0}, text : Text]]
    /\ made \in 0 .. MaxCalls
    /\ trouble \in 0 .. MaxTrouble
    /\ counted \subseteq Ids /\ aside \subseteq Ids /\ cleared \subseteq Ids
    /\ overtaken \subseteq Ids /\ raced \subseteq Ids /\ erased \subseteq Ids
    /\ revived \subseteq Ids

(* "Without this guard each replay would re-increment the unread count":   *)
(* no message raises the counter twice, however often restarts and lost    *)
(* connections make the stream hand it out again.                          *)
CountedOnce == sync.at = "bump" => sync.id \notin counted

Counting == IF sync.at \in {"count", "bump"} THEN {sync.id} ELSE {}

(* The badge does not hide anything: while the counter is 0, a stored      *)
(* message that Telegram has as unread was marked read here, is being      *)
(* counted, was stored first by a page, an edit or a process that stopped  *)
(* before it counted, or slipped in between mark_read's watermark and its  *)
(* reset.                                                                  *)
BadgeHidesNothing ==
    unread = 0 => Stored \cap NotRead \subseteq Counting \cup cleared \cup aside \cup overtaken

(* A deletion that has been applied stays applied, through replays,        *)
(* reactions and edits; only a call that had already read the row or       *)
(* fetched the page when the deletion came brings the message back.        *)
DeletedStaysDeleted == erased \cap Stored \subseteq revived

Settled ==
    /\ sync.at = "live" /\ pos = Len(log)
    /\ \A c \in Callers : call[c] = Idle

(* Once the stream is drained and no call is under way, what is stored is  *)
(* what Telegram has, unless a call wrote an older version over a newer.   *)
RowsConverge ==
    Settled => \A m \in Stored \ erased : db[m] = text[m] \/ m \in raced

Announced(m) == \E k \in 1 .. Len(log) : log[k].kind = "new" /\ log[k].id = m

(* Whatever connections and processes are lost on the way, a message that  *)
(* Telegram announced is stored in the end, unless it is deleted, the      *)
(* authorization is revoked, or the task has given up its stream.          *)
AnnouncedArrives ==
    \A m \in Ids : Announced(m) ~> \/ m \in Stored \cup gone
                                   \/ sync.at \in {"over", "revoked"}
=============================================================================

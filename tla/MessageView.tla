----------------------------- MODULE MessageView ----------------------------
(***************************************************************************)
(* From the database to the screen, for one chat's messages: tasks that    *)
(* store a row and then publish it (sync.rs, services.rs), writers that    *)
(* publish nothing about the row they store (the dialog seed, backfill,    *)
(* search), the event bus and the bridge to the webview, Core::messages    *)
(* with its pages and its backfill (services.rs, database/messages.rs),    *)
(* and the list that shows the result (MessageView.tsx).                   *)
(*                                                                         *)
(* A row is its version: 0 when there is none, one more at every write.    *)
(* Server messages are dated in whole seconds, growing with their ids; the *)
(* one local row has a fraction of a second in its date.  Which updates    *)
(* Telegram sends, and what a read-modify-write does to a row, is          *)
(* SyncEngine's subject: a write here is one step, and Telegram's deletion *)
(* of a message and the row's are one.                                     *)
(***************************************************************************)
EXTENDS EventBus, FiniteSets, Functions

CONSTANTS
    Old,        \* ids of the messages the chat has at first
    New,        \* ids of the messages that are posted
    LocalDate,  \* the second the local row was written in
    Limit,      \* messages per page: 50 in commands.rs
    Writers,    \* tasks that store and publish
    Loads,      \* bound: calls of loadInitial under way together
    Older,      \* the one call of loadOlder
    MaxWrites,  \* bound: writes
    MaxCopies,  \* bound: copies of a message on screen when loadOlder is called
    Newest      \* the cursor of a first page

ASSUME IdsAssumption ==
    /\ Old \subseteq Nat \ {0} /\ New \subseteq Nat \ {0} /\ Old \cap New = {}
    /\ IsFiniteSet(Old) /\ IsFiniteSet(New)
ASSUME LoadsAssumption == Loads # {} /\ Older \notin Loads
ASSUME LimitsAssumption ==
    LocalDate \in Nat /\ Limit \in Nat \ {0} /\ MaxWrites \in Nat /\ MaxCopies \in Nat

Ids == Old \cup New
Local == -1
NoSend == 0
Keys == Ids \cup {Local}
ASSUME NewestAssumption == Newest \notin Keys

Kinds == {"added", "updated", "deleted"}
Calls == Loads \cup {Older}

VARIABLES
    server,     \* ids of the messages Telegram has
    given,      \* ids Telegram, or next_local_id, has given so far
    rows,       \* version of each row of the database
    send,       \* the local row's delivery: NoSend, Local, or the id Telegram gave
    pending,    \* the events each writer is about to publish
    bus,        \* the events the bridge has not read
    missed,     \* the ring dropped some of them
    view,       \* copies of each message MessageView shows, by version
    calls,      \* calls of Core::messages: loadInitial's, and loadOlder's one
    writes,     \* how many writes there were
    stale,      \* history: rows the screen has not been told of rightly
    crossed,    \* history: a message earlier than loadOlder's cursor is shown
    vanished,   \* history: one was deleted between loadOlder's backfill and its second read
    disturbed   \* history: the list is not one stretch of the chat

ids == <<server, given>>
store == <<ids, rows, send>>
way == <<pending, bus, missed>>
marks == <<crossed, vanished, disturbed>>
vars == <<store, way, view, calls, writes, stale, marks>>

-----------------------------------------------------------------------------
(* Orders and pages                                                        *)

DateOf(k) == IF k = Local THEN LocalDate ELSE k

(* (date, id) < (date, id) in SQL, which compares the stored text: a whole *)
(* second, "12:00:00+00:00", is before its fractions, "12:00:00.5+00:00".  *)
Earlier(j, k) == \/ DateOf(j) < DateOf(k)
                 \/ DateOf(j) = DateOf(k) /\ j # Local /\ k = Local

(* sortAscending: localeCompare has "12:00:00.5Z" before "12:00:00Z".      *)
Above(j, k) == \/ DateOf(j) < DateOf(k)
               \/ DateOf(j) = DateOf(k) /\ j = Local /\ k # Local

Behind(k, cursor) == cursor = Newest \/ Earlier(k, cursor)

Stored == {k \in Keys : rows[k] # 0}
Shown == {k \in Keys : view[k] # <<>>}

(* The last Limit of a set before the cursor.                              *)
LastOf(set, cursor) ==
    {k \in set : /\ Behind(k, cursor)
                 /\ Cardinality({j \in set : Behind(j, cursor) /\ Earlier(k, j)}) < Limit}

(* Mutant: ORDER BY date, oldest first.                                    *)
HistoryAscending(stored, cursor) ==
    {k \in stored : /\ Behind(k, cursor)
                    /\ Cardinality({j \in stored : Earlier(j, k)}) < Limit}

(* MessageRepo::history.                                                   *)
History(stored, cursor) == LastOf(stored, cursor)

(* messages[0], which loadOlder takes for the oldest.                      *)
Oldest == CHOOSE k \in Shown : \A j \in Shown \ {k} : Above(k, j)

Idle == [at |-> "idle", cursor |-> Newest, seen |-> <<>>, failed |-> FALSE]
Asked(cursor) == [Idle EXCEPT !.at = "read", !.cursor = cursor]

(* The list loads when it is mounted.  The chat has its last message from  *)
(* the dialog seed, or all of them; there may be a local row, whose send   *)
(* is under way, or failed before.                                         *)
Init ==
    /\ server = Old
    /\ \E stored \in {LastOf(Old, Newest), Old}, local \in {0, 1} :
        /\ rows = [k \in Keys |-> IF k = Local THEN local ELSE IF k \in stored THEN 1 ELSE 0]
        /\ given = Old \cup (IF local = 1 THEN {Local} ELSE {})
        /\ send \in (IF local = 1 THEN {NoSend, Local} ELSE {NoSend})
    /\ pending = [w \in Writers |-> <<>>]
    /\ bus = <<>>
    /\ missed = FALSE
    /\ view = [k \in Keys |-> <<>>]
    /\ \E first \in Loads :
        calls = [c \in Calls |-> IF c = first THEN Asked(Newest) ELSE Idle]
    /\ writes = 0
    /\ stale = {}
    /\ crossed = FALSE /\ vanished = FALSE /\ disturbed = FALSE

-----------------------------------------------------------------------------
(* Telegram                                                                *)

(* A message gets the next id: ids grow, and none is given twice.          *)
Given(k) ==
    /\ k \in New \ given
    /\ \A j \in given \cap Ids : j < k
    /\ given' = given \cup {k}
    /\ server' = server \cup {k}

(* Somebody posts a message ...                                            *)
Post(k) ==
    /\ Given(k)
    /\ UNCHANGED <<rows, send, way, view, calls, writes, stale, marks>>

(* ... or the one of the local row is accepted.                            *)
Accept(k) ==
    /\ Given(k)
    /\ send = Local /\ send' = k
    /\ UNCHANGED <<rows, way, view, calls, writes, stale, marks>>

-----------------------------------------------------------------------------
(* Writers: the sync task and the calls of the services                    *)

Event(kind, k, version) == [kind |-> kind, about |-> k, version |-> version]

(* A task stores a row, and is about to publish events.                    *)
Write(w, new, events) ==
    /\ pending[w] = <<>>
    /\ writes < MaxWrites
    /\ writes' = writes + 1
    /\ rows' = new
    /\ pending' = [pending EXCEPT ![w] = events]
    /\ UNCHANGED <<bus, missed, view, calls, crossed, disturbed>>

Put(k, version) == [rows EXCEPT ![k] = version]

(* send_message stores its local row.  One send has it.                    *)
Send(w) ==
    /\ Local \notin given
    /\ given' = given \cup {Local}
    /\ send' = Local
    /\ Write(w, Put(Local, 1), <<Event("added", Local, 1)>>)
    /\ UNCHANGED <<server, stale, vanished>>

(* deliver_text, accepted: confirm_sent makes the local row the server's,  *)
(* fails when that one is stored already, and then leaves both.  What is   *)
(* published is the row it finds, or else the message Telegram returned.   *)
Confirm(w) ==
    LET local == rows[Local]
        row == rows[send]
    IN  /\ send \in Ids
        /\ send' = NoSend
        /\ Write(w, IF local # 0 /\ row = 0 THEN [rows EXCEPT ![Local] = 0, ![send] = 1] ELSE rows,
                 <<Event("deleted", Local, 0),
                   Event("added", send, IF local = 0 /\ row # 0 THEN row ELSE 1)>>)
        /\ UNCHANGED <<ids, stale, vanished>>

(* deliver_text, failed: mark_failed, and "updated" with or without a row. *)
SendFails(w) ==
    /\ send # NoSend
    /\ send' = NoSend
    /\ Write(w, IF rows[Local] # 0 THEN Put(Local, rows[Local] + 1) ELSE rows,
             <<Event("updated", Local, rows[Local] + 1)>>)
    /\ UNCHANGED <<ids, stale, vanished>>

(* MessageNew; after a reconnect, catch-up delivers a message again.       *)
Arrive(w, k) ==
    LET version == IF rows[k] = 0 THEN 1 ELSE rows[k] IN
        /\ k \in server
        /\ Write(w, Put(k, version), <<Event("added", k, version)>>)
        /\ UNCHANGED <<ids, send, stale, vanished>>

(* An edit or a reaction.  Telegram's stores the message if need be, and   *)
(* publishes "updated", which adds nothing to the screen.                  *)
Modify(w, k) ==
    /\ k \in Ids \cap (Stored \cup server)
    /\ Write(w, Put(k, rows[k] + 1), <<Event("updated", k, rows[k] + 1)>>)
    /\ stale' = IF rows[k] = 0 THEN stale \cup {k} ELSE stale
    /\ UNCHANGED <<ids, send, vanished>>

(* delete_messages, and MessagesDeleted, which a channel's chat publishes  *)
(* whether or not there was a row.                                         *)
Delete(w, k) ==
    /\ k \in Stored \cup server
    /\ server' = server \ {k}
    /\ Write(w, Put(k, 0), <<Event("deleted", k, 0)>>)
    /\ vanished' = \/ vanished
                   \/ calls[Older].at = "reread" /\ Earlier(k, calls[Older].cursor)
    /\ UNCHANGED <<given, send, stale>>

(* EventBus::publish.  An event that is not what the row holds is stale:   *)
(* two tasks publish in another order than they wrote, or deliver_text     *)
(* tells of a row that is not there, or away one that is.                  *)
Publish(w) ==
    LET event == Head(pending[w])
        all == Append(bus, event)
    IN  /\ pending[w] # <<>>
        /\ pending' = [pending EXCEPT ![w] = Tail(@)]
        /\ bus' = Kept(all)
        /\ missed' = (missed \/ Len(all) > Capacity)
        /\ stale' = IF event.version # rows[event.about] THEN stale \cup {event.about} ELSE stale
        /\ UNCHANGED <<store, view, calls, writes, marks>>

(* Upserts that no message event tells of: a message that is stored comes  *)
(* back as it was, or edited.                                              *)
Upsert(page, edited) ==
    /\ edited \subseteq page \cap Stored
    /\ rows' = [k \in Keys |-> IF k \in edited THEN rows[k] + 1
                               ELSE IF k \in page /\ rows[k] = 0 THEN 1 ELSE rows[k]]
    /\ stale' = stale \cup edited \cup (page \ Stored)

StoreUntold(k) ==
    /\ k \in server
    /\ writes < MaxWrites /\ writes' = writes + 1
    /\ \E edited \in SUBSET {k} : Upsert({k}, edited)
    /\ UNCHANGED <<ids, send, way, view, calls, marks>>

(* sync_cycle stores the last message of the chat, and publishes the chat. *)
Seed(k) == (\A j \in server : j <= k) /\ StoreUntold(k)

(* Core::search stores what Telegram finds and the local search did not.   *)
Search(k) == StoreUntold(k)

-----------------------------------------------------------------------------
(* The bridge, and what the webview does with an event                     *)

Replaced(event) ==
    [view EXCEPT ![event.about] = [n \in DOMAIN @ |-> event.version]]

(* Mutant: an added message does not replace the copy already shown.       *)
AfterAppending(event) ==
    CASE event.kind = "added" -> [view EXCEPT ![event.about] = Append(@, event.version)]
      [] event.kind = "updated" -> Replaced(event)
      [] OTHER -> [view EXCEPT ![event.about] = <<>>]

(* Mutant: a deleted message keeps its place.                              *)
AfterBlanking(event) ==
    CASE event.kind = "added" -> [view EXCEPT ![event.about] = <<event.version>>]
      [] OTHER -> Replaced(event)

(* MessageView's handler: filter and append, map, or filter.               *)
After(event) ==
    CASE event.kind = "added" -> [view EXCEPT ![event.about] = <<event.version>>]
      [] event.kind = "updated" -> Replaced(event)
      [] OTHER -> [view EXCEPT ![event.about] = <<>>]

(* An event of these kinds about k is under way.                           *)
Awaited(k, kinds) ==
    \E w \in Writers : \E i \in 1 .. Len(pending[w]) :
        pending[w][i].kind \in kinds /\ pending[w][i].about = k
OnBus(events, k, kinds) ==
    \E i \in 1 .. Len(events) : events[i].kind \in kinds /\ events[i].about = k
Coming(k, kinds) == Awaited(k, kinds) \/ OnBus(bus, k, kinds)

(* The last event about a row that is what the row holds puts the screen   *)
(* right, but "updated" adds no message.                                   *)
Settles(event) ==
    /\ event.version = rows[event.about]
    /\ event.kind = "updated" => view[event.about] # <<>>
    /\ ~ Awaited(event.about, Kinds) /\ ~ OnBus(Tail(bus), event.about, Kinds)

Deliver ==
    /\ ~ missed
    /\ bus # <<>>
    /\ bus' = Tail(bus)
    /\ LET event == Head(bus)
           k == event.about
       IN  /\ view' = After(event)
           /\ stale' = IF Settles(event) THEN stale \ {k} ELSE stale
           /\ crossed' = \/ crossed
                         \/ /\ calls[Older] # Idle
                            /\ event.kind = "added" /\ Earlier(k, calls[Older].cursor)
           /\ disturbed' = \/ disturbed
                           \/ /\ event.kind = "added"
                              /\ \A j \in Shown : Earlier(k, j)
                              /\ \E j \in Stored : Earlier(k, j)
    /\ UNCHANGED <<store, pending, missed, calls, writes, vanished>>

(* Mutant: nothing is read again after a lag.                              *)
LaggedIgnored ==
    /\ missed
    /\ missed' = FALSE
    /\ UNCHANGED <<store, pending, bus, view, calls, writes, stale, marks>>

(* RecvError::Lagged: MessageView loads its first page again.              *)
Lagged ==
    /\ missed
    /\ missed' = FALSE
    /\ \E l \in Loads :
        /\ calls[l] = Idle
        /\ calls' = [calls EXCEPT ![l] = Asked(Newest)]
    /\ UNCHANGED <<store, pending, bus, view, writes, stale, marks>>

-----------------------------------------------------------------------------
(* Core::messages                                                          *)

Set(c, call) == calls' = [calls EXCEPT ![c] = call]

(* What the call has read; the page is its end.                            *)
Answered(call, failed) ==
    [call EXCEPT !.at = "answer", !.seen = [k \in Keys |-> rows[k]], !.failed = failed]

Page(call) ==
    LET keys == History({k \in Keys : call.seen[k] # 0}, call.cursor)
    IN  [k \in keys |-> call.seen[k]]

(* A first page that is not full, or an older one that is empty, is not    *)
(* enough.                                                                 *)
Enough(cursor) ==
    Cardinality(History(Stored, cursor)) >= (IF cursor = Newest THEN Limit ELSE 1)

ReadPage(c) ==
    /\ calls[c].at = "read"
    /\ Set(c, IF Enough(calls[c].cursor) THEN Answered(calls[c], FALSE)
              ELSE [calls[c] EXCEPT !.at = "fetch"])
    /\ UNCHANGED <<store, way, view, writes, stale, marks>>

(* Without a client, an empty page is the answer as it is.                 *)
ReadOffline(c) ==
    /\ calls[c].at = "read"
    /\ History(Stored, calls[c].cursor) = {}
    /\ Set(c, Answered(calls[c], TRUE))
    /\ UNCHANGED <<store, way, view, writes, stale, marks>>

(* Mutant: the backfill is always the newest page.                         *)
FetchedNewest(cursor) == LastOf(server, Newest)

(* before_id keeps server ids only: from a local row the newest page comes *)
(* again.                                                                  *)
Fetched(cursor) == LastOf(server, IF cursor = Local THEN Newest ELSE cursor)

(* The fetched messages are stored ...                                     *)
Backfill(c) ==
    /\ calls[c].at = "fetch"
    /\ \E edited \in SUBSET Fetched(calls[c].cursor) :
        /\ Upsert(Fetched(calls[c].cursor), edited)
        /\ IF edited = {} THEN UNCHANGED writes
           ELSE writes < MaxWrites /\ writes' = writes + 1
    /\ Set(c, [calls[c] EXCEPT !.at = "reread"])
    /\ UNCHANGED <<ids, send, way, view, marks>>

(* ... or there is no client, or an error ...                              *)
BackfillFails(c) ==
    /\ calls[c].at = "fetch"
    /\ Set(c, [calls[c] EXCEPT !.at = "reread", !.failed = TRUE])
    /\ UNCHANGED <<store, way, view, writes, stale, marks>>

(* ... and the page is read again.                                         *)
RereadPage(c) ==
    /\ calls[c].at = "reread"
    /\ Set(c, Answered(calls[c], calls[c].failed))
    /\ UNCHANGED <<store, way, view, writes, stale, marks>>

-----------------------------------------------------------------------------
(* The webview's calls                                                     *)

(* Messages written since an answer was read that it leaves wrong on       *)
(* screen, or out of it, with no event under way that puts them right.     *)
Amiss(call, shown) ==
    {k \in Keys :
        /\ call.seen[k] # rows[k]
        /\ ~ missed
        /\ IF shown[k] # <<>>
           THEN Range(shown[k]) # {rows[k]} /\ ~ Coming(k, Kinds)
           ELSE rows[k] # 0 /\ ~ Coming(k, {"added"})}

(* setMessages(sortAscending(page)): with no event under way about it, a   *)
(* row is shown as it was read.                                            *)
InitialAnswer(c) ==
    /\ c # Older
    /\ calls[c].at = "answer"
    /\ LET page == Page(calls[c]) IN
        /\ view' = [k \in Keys |-> IF k \in DOMAIN page THEN <<page[k]>> ELSE <<>>]
        /\ stale' = {k \in stale : Coming(k, Kinds)} \cup Amiss(calls[c], view')
        /\ crossed' = (calls[Older] # Idle)
    /\ disturbed' = FALSE
    /\ Set(c, Idle)
    /\ UNCHANGED <<store, way, writes, vanished>>

(* A scroll to the top.  By the other order, the first message shown need  *)
(* not be the earliest one.                                                *)
LoadOlder ==
    /\ calls[Older] = Idle
    /\ Shown # {} /\ \A k \in Shown : Len(view[k]) <= MaxCopies
    /\ Set(Older, Asked(Oldest))
    /\ crossed' = \E k \in Shown : Earlier(k, Oldest)
    /\ vanished' = FALSE
    /\ UNCHANGED <<store, way, view, writes, stale, disturbed>>

(* sortAscending([...page, ...prev])                                       *)
OlderAnswer ==
    /\ calls[Older].at = "answer"
    /\ LET page == Page(calls[Older]) IN
        /\ view' = [k \in Keys |-> IF k \in DOMAIN page THEN <<page[k]>> \o view[k] ELSE view[k]]
        /\ stale' = (stale \ {k \in DOMAIN page : view[k] = <<>> /\ ~ Coming(k, Kinds)})
                        \cup Amiss(calls[Older], view')
        /\ disturbed' = (disturbed \/ crossed)
    /\ crossed' = FALSE /\ vanished' = FALSE
    /\ Set(Older, Idle)
    /\ UNCHANGED <<store, way, writes>>

Next ==
    \/ \E k \in New : Post(k) \/ Accept(k)
    \/ \E w \in Writers :
        \/ Send(w) \/ Confirm(w) \/ SendFails(w)
        \/ \E k \in Keys : Arrive(w, k) \/ Modify(w, k) \/ Delete(w, k)
        \/ Publish(w)
    \/ \E k \in Keys : Seed(k) \/ Search(k)
    \/ Deliver \/ Lagged
    \/ \E c \in Calls :
        \/ ReadPage(c) \/ ReadOffline(c)
        \/ Backfill(c) \/ BackfillFails(c) \/ RereadPage(c)
        \/ InitialAnswer(c)
    \/ LoadOlder \/ OlderAnswer

Spec == Init /\ [][Next]_vars

-----------------------------------------------------------------------------
Events == [kind : Kinds, about : Keys, version : Nat]

(* The type invariant of the rows, the events, the calls and the list.     *)
TypeOK ==
    /\ server \subseteq Ids /\ given \subseteq Keys
    /\ rows \in [Keys -> Nat]
    /\ send \in {NoSend, Local} \cup Ids
    /\ pending \in [Writers -> Seq(Events)]
    /\ bus \in Seq(Events) /\ Len(bus) <= Capacity
    /\ missed \in BOOLEAN
    /\ view \in [Keys -> Seq(Nat \ {0})]
    /\ DOMAIN calls = Calls
    /\ \A c \in Calls :
        /\ calls[c].at \in {"idle", "read", "fetch", "reread", "answer"}
        /\ calls[c].cursor \in Keys \cup {Newest}
        /\ calls[c].seen \in [Keys -> Nat] \cup {<<>>}
    /\ writes \in 0 .. MaxWrites
    /\ stale \subseteq Keys
    /\ crossed \in BOOLEAN /\ vanished \in BOOLEAN /\ disturbed \in BOOLEAN

(* Nothing is under way between the database and the screen.               *)
Quiet ==
    /\ \A w \in Writers : pending[w] = <<>>
    /\ bus = <<>> /\ ~ missed
    /\ \A c \in Calls : calls[c] = Idle

(* Once nothing is under way, a message on screen is the row the database  *)
(* has, whatever the ring dropped, "which always holds the truth": but for *)
(* an answer that was read before a write and came after its event, a row  *)
(* that was written and not told of, and one that was last told of wrongly.*)
ViewMatchesStore ==
    Quiet => \A k \in Keys \ stale : Range(view[k]) \subseteq {rows[k]}

(* What is on screen is one stretch of the stored chat up to its end, as   *)
(* scrolling back relies on, which goes on from the oldest message shown.  *)
(* Two things break it, and nothing fills the gap again: a message older   *)
(* than any shown that comes as an event, and loadOlder's answer put in    *)
(* front of another list than it was asked for.  Rows the screen was not   *)
(* told of rightly are the others.                                         *)
NoHoles ==
    Quiet /\ ~ disturbed =>
        \A k \in Stored \ stale :
            (\E j \in Shown : Earlier(j, k)) => view[k] # <<>>

(* No message is on screen twice, as loadOlder puts its page in front      *)
(* without looking: unless a message before its cursor was shown already,  *)
(* which an event, another answer, and the two orders can do.              *)
NoTwins == ~ disturbed => \A k \in Keys : Len(view[k]) <= 1

(* An older page is empty, without an error, only at the beginning of the  *)
(* chat.  The exceptions are a local row as the cursor, and a page that    *)
(* was fetched and deleted again before it was read.                       *)
EndIsTheEnd ==
    LET call == calls[Older] IN
        call.at = "answer" /\ ~ call.failed /\ DOMAIN Page(call) = {}
            /\ call.cursor # Local /\ ~ vanished
            => \A k \in server : ~ Earlier(k, call.cursor)
=============================================================================

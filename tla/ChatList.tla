------------------------------ MODULE ChatList ------------------------------
(***************************************************************************)
(* The accounts and the chat list on screen (App.tsx), and what keeps them *)
(* as the database has them: the tasks that write a row and then publish   *)
(* an event (sync.rs, services.rs, accounts.rs), the event bus, and the    *)
(* calls list_accounts and chat_list that read everything again.  Several  *)
(* accounts may have a chat of the same id, as two of them have with one   *)
(* user.                                                                   *)
(*                                                                         *)
(* A row of chats is its version: 0 when there is none, one more at every  *)
(* write.  What a row has, and in which order the list shows it, is left   *)
(* out; the unread count is SyncEngine's subject, the preview SendPath's.  *)
(***************************************************************************)
EXTENDS EventBus, FiniteSets

CONSTANTS
    Accounts,           \* numbered in the order of created_at
    Chats,              \* ids of chats
    Writers,            \* tasks that write and publish
    Refreshes,          \* bound: calls of refreshChats under way together
    Reloads,            \* bound: calls of refreshAccounts under way together
    MaxMoves,           \* bound: writes, and moves of the user
    AccountsChanged     \* the events login (complete) and logged_out

Nobody == 0
Rows == Accounts \X Chats
ChatRows == [account : Accounts, id : Chats, version : Nat \ {0}]
Events == ChatRows \cup {AccountsChanged}

ASSUME AccountsAssumption == Accounts \subseteq Nat \ {Nobody}
ASSUME EventsAssumption == AccountsChanged \notin ChatRows
ASSUME BoundAssumption == MaxMoves \in Nat

VARIABLES
    authorized,     \* accounts the database has as authorized
    rows,           \* version of each chat of each account
    task,           \* what each writer has written, or read to publish
    bus,            \* the events the bridge has not read
    missed,         \* the ring dropped some of them
    listed,         \* the authorized accounts that App has
    active,         \* the account on screen, or Nobody
    view,           \* the chats on screen
    refreshes,      \* the calls of refreshChats
    reloads,        \* the calls of refreshAccounts
    moves,          \* how many writes and moves of the user there were
    stale,          \* history: rows the list has not been told of rightly
    dropped,        \* history: rows the ring dropped an event of
    behind          \* history: refreshAccounts' last answer was not its last read

store == <<authorized, rows>>
way == <<task, bus, missed>>
screen == <<listed, active, view>>
calls == <<refreshes, reloads>>
history == <<stale, dropped, behind>>
vars == <<store, way, screen, calls, moves, history>>

-----------------------------------------------------------------------------
Row(a, c) == [account |-> a, id |-> c, version |-> rows[a][c]]

(* ChatRepo::list.                                                         *)
List(a) == {Row(a, c) : c \in {d \in Chats : rows[a][d] # 0}}

Free == [at |-> "idle", event |-> AccountsChanged]
Done == [at |-> "idle", account |-> Nobody, seen |-> {}]
Reading == [at |-> "read", seen |-> {}]
NotReading == [at |-> "idle", seen |-> {}]

(* App is mounted, and asks for the accounts.                              *)
Init ==
    /\ authorized \in SUBSET Accounts
    /\ rows \in [Accounts -> [Chats -> {0, 1}]]
    /\ task = [w \in Writers |-> Free]
    /\ bus = <<>>
    /\ missed = FALSE
    /\ listed = {} /\ active = Nobody /\ view = {}
    /\ refreshes = [s \in Refreshes |-> Done]
    /\ \E first \in Reloads :
        reloads = [l \in Reloads |-> IF l = first THEN Reading ELSE NotReading]
    /\ moves = 0
    /\ stale = {} /\ dropped = {} /\ behind = FALSE

-----------------------------------------------------------------------------
(* Writers                                                                 *)

Goes(w, at, event) == task' = [task EXCEPT ![w] = [at |-> at, event |-> event]]
Idle(w) == task[w].at = "idle"

Moved == moves < MaxMoves /\ moves' = moves + 1
Changed(a, c) == Moved /\ rows' = [rows EXCEPT ![a][c] = @ + 1]

(* MessageNew: touch_last_message, unless the message is older than the    *)
(* chat's last one ...                                                     *)
Touch(w, a, c) ==
    /\ Idle(w)
    /\ rows[a][c] # 0
    /\ Changed(a, c) \/ (Moved /\ UNCHANGED rows)
    /\ Goes(w, "touched", Row(a, c))
    /\ UNCHANGED <<authorized, bus, missed, screen, calls, history>>

(* ... and set_unread_count, if it is incoming and new.                    *)
Count(w) ==
    /\ task[w].at = "touched"
    /\ Changed(task[w].event.account, task[w].event.id)
    /\ Goes(w, "stored", task[w].event)
    /\ UNCHANGED <<authorized, bus, missed, screen, calls, history>>

(* mark_read: set_unread_count.                                            *)
MarkRead(w, a, c) ==
    /\ Idle(w)
    /\ rows[a][c] # 0
    /\ Changed(a, c)
    /\ Goes(w, "stored", Row(a, c))
    /\ UNCHANGED <<authorized, bus, missed, screen, calls, history>>

(* Both read the row again, for the event.                                 *)
Get(w) ==
    /\ task[w].at \in {"touched", "stored"}
    /\ Goes(w, "publish", Row(task[w].event.account, task[w].event.id))
    /\ UNCHANGED <<store, bus, missed, screen, calls, moves, history>>

(* sync_cycle: upsert, of a chat that is published as it was fetched.      *)
SeedChat(w, a, c) ==
    /\ Idle(w)
    /\ Changed(a, c)
    /\ Goes(w, "publish", Row(a, c)')
    /\ UNCHANGED <<authorized, bus, missed, screen, calls, history>>

(* deliver_text: touch_last_message, and no ChatUpdated.                   *)
SentTouches(a, c) ==
    /\ rows[a][c] # 0
    /\ Changed(a, c)
    /\ stale' = stale \cup {<<a, c>>}
    /\ UNCHANGED <<authorized, way, screen, calls, dropped, behind>>

(* complete_login, which publishes nothing when the runtime does not       *)
(* start; sign_out and the sync task's callback.                           *)
LogIn(w, a) ==
    /\ Idle(w)
    /\ Moved /\ authorized' = authorized \cup {a}
    /\ Goes(w, "publish", AccountsChanged) \/ UNCHANGED task
    /\ UNCHANGED <<rows, bus, missed, screen, calls, history>>

LogOut(w, a) ==
    /\ Idle(w)
    /\ Moved /\ authorized' = authorized \ {a}
    /\ Goes(w, "publish", AccountsChanged)
    /\ UNCHANGED <<rows, bus, missed, screen, calls, history>>

RowOf(event) == <<event.account, event.id>>

(* An event that is not what its row holds tells of it wrongly.            *)
Told(event) ==
    IF event # AccountsChanged /\ event.version # rows[event.account][event.id]
    THEN stale \cup {RowOf(event)} ELSE stale

(* EventBus::publish.                                                      *)
Publish(w) ==
    LET all == Append(bus, task[w].event) IN
        /\ task[w].at = "publish"
        /\ task' = [task EXCEPT ![w] = Free]
        /\ bus' = Kept(all)
        /\ missed' = (missed \/ Len(all) > Capacity)
        /\ stale' = Told(task[w].event)
        /\ dropped' = IF Len(all) > Capacity /\ Head(all) # AccountsChanged
                      THEN dropped \cup {RowOf(Head(all))} ELSE dropped
        /\ UNCHANGED <<store, screen, calls, moves, behind>>

-----------------------------------------------------------------------------
(* App's handler of events                                                 *)

(* An event about the row is under way, or a task that will publish it.    *)
Awaited(row) ==
    \E w \in Writers : /\ task[w].at # "idle" /\ task[w].event # AccountsChanged
                       /\ RowOf(task[w].event) = row
OnBus(events, row) ==
    \E i \in 1 .. Len(events) : events[i] # AccountsChanged /\ RowOf(events[i]) = row
Coming(row) == Awaited(row) \/ OnBus(bus, row)

(* refreshAccounts starts.                                                 *)
Reload == \E l \in Reloads :
    /\ reloads[l].at = "idle"
    /\ reloads' = [reloads EXCEPT ![l] = Reading]

(* Mutant: the new entry is put beside the former one.                     *)
AfterAppending(chat) == view \cup {chat}

(* chat_updated: filter and append, by the id of the chat alone.           *)
After(chat) == {x \in view : x.id # chat.id} \cup {chat}

(* The last event about a row puts the list right, if it is what the row   *)
(* holds; another account's takes the chat's place.                        *)
ChatUpdated(chat) ==
    LET row == RowOf(chat)
        settled == IF /\ chat.version = rows[chat.account][chat.id]
                      /\ ~ Awaited(row) /\ ~ OnBus(Tail(bus), row)
                   THEN {row} ELSE {}
    IN  /\ view' = After(chat)
        /\ stale' = (stale \ settled)
                        \cup (IF chat.account # active THEN {active} \X {chat.id} ELSE {})
        /\ dropped' = dropped \ settled
        /\ UNCHANGED reloads

Deliver ==
    /\ ~ missed
    /\ bus # <<>>
    /\ bus' = Tail(bus)
    /\ IF Head(bus) = AccountsChanged
       THEN Reload /\ UNCHANGED <<view, stale, dropped>>
       ELSE ChatUpdated(Head(bus))
    /\ UNCHANGED <<store, task, missed, listed, active, refreshes, moves, behind>>

(* While LoginView is shown, it calls refreshAccounts at a login too.      *)
LoginView ==
    /\ active = Nobody
    /\ Moved /\ Reload
    /\ UNCHANGED <<store, way, screen, refreshes, history>>

(* Mutant: nothing is read again after a lag.                              *)
LaggedIgnored ==
    /\ missed
    /\ missed' = FALSE
    /\ UNCHANGED <<store, task, bus, screen, calls, moves, history>>

(* RecvError::Lagged: App loads the accounts again, and not the chats.     *)
Lagged ==
    /\ missed
    /\ missed' = FALSE
    /\ Reload
    /\ UNCHANGED <<store, task, bus, screen, refreshes, moves, history>>

-----------------------------------------------------------------------------
(* refreshChats, and the account on screen                                 *)

(* Mutant: the chats are loaded for the first account only.                *)
RefreshOnce(a) ==
    IF active # Nobody THEN UNCHANGED refreshes
    ELSE \E s \in Refreshes :
        /\ refreshes[s].at = "idle"
        /\ refreshes' = [refreshes EXCEPT ![s] = [Done EXCEPT !.at = "read", !.account = a]]

(* The effect of another active account.                                   *)
Refresh(a) == \E s \in Refreshes :
    /\ refreshes[s].at = "idle"
    /\ refreshes' = [refreshes EXCEPT ![s] = [Done EXCEPT !.at = "read", !.account = a]]

Activate(a) ==
    /\ active' = a
    /\ IF a = Nobody THEN UNCHANGED refreshes ELSE Refresh(a)

(* onSwitchAccount, from a menu of the accounts App has.                   *)
Switch(a) ==
    /\ active # Nobody
    /\ Moved /\ Activate(a)
    /\ UNCHANGED <<store, way, listed, view, reloads, history>>

(* onAddAccount.                                                           *)
AddAccount ==
    /\ active # Nobody
    /\ Moved /\ Activate(Nobody)
    /\ UNCHANGED <<store, way, listed, view, reloads, history>>

ReadChats(s) ==
    /\ refreshes[s].at = "read"
    /\ LET a == refreshes[s].account IN
        refreshes' = [refreshes EXCEPT ![s] = [at |-> "answer", account |-> a, seen |-> List(a)]]
    /\ UNCHANGED <<store, way, screen, reloads, moves, history>>

(* setChats, whichever account is on screen now.  A row that was written   *)
(* since it was read, and whose event came before, is shown as it was.     *)
ChatsAnswer(s) ==
    LET call == refreshes[s]
        own == {call.account} \X Chats
        read == {row \in own : {x \in call.seen : x.id = row[2]} =
                               {x \in List(call.account) : x.id = row[2]}}
    IN  /\ call.at = "answer"
        /\ view' = call.seen
        /\ IF call.account = active
           THEN /\ stale' = {row \in stale : row \notin own \/ Coming(row)}
                                \cup {row \in own \ read : ~ Coming(row)}
                /\ dropped' = dropped \ read
           ELSE /\ stale' = stale \cup ({active} \X Chats)
                /\ UNCHANGED dropped
        /\ refreshes' = [refreshes EXCEPT ![s] = Done]
        /\ UNCHANGED <<store, way, listed, active, reloads, moves, behind>>

-----------------------------------------------------------------------------
(* refreshAccounts                                                         *)

ReadAccounts(l) ==
    /\ reloads[l].at = "read"
    /\ reloads' = [reloads EXCEPT ![l] = [at |-> "answer", seen |-> authorized]]
    /\ UNCHANGED <<store, way, screen, refreshes, moves, history>>

First(seen) == IF seen = {} THEN Nobody ELSE CHOOSE a \in seen : \A b \in seen : a <= b

(* A change of the accounts will be seen yet.                              *)
Telling ==
    \/ missed
    \/ \E w \in Writers : task[w].at = "publish" /\ task[w].event = AccountsChanged
    \/ \E i \in 1 .. Len(bus) : bus[i] = AccountsChanged
    \/ \E l \in Reloads : \/ reloads[l].at = "read"
                          \/ reloads[l].at = "answer" /\ reloads[l].seen \subseteq authorized

(* setAccounts, and another active account if the present one is gone.     *)
AccountsAnswer(l) ==
    LET seen == reloads[l].seen IN
        /\ reloads[l].at = "answer"
        /\ reloads' = [reloads EXCEPT ![l] = NotReading]
        /\ listed' = seen
        /\ IF active \in seen THEN UNCHANGED <<active, refreshes>> ELSE Activate(First(seen))
        /\ UNCHANGED <<store, way, view, moves, stale, dropped>>
        /\ behind' = (~ (seen \subseteq authorized) /\ ~ Telling')

Next ==
    \/ \E w \in Writers :
        \/ \E a \in Accounts, c \in Chats : Touch(w, a, c) \/ MarkRead(w, a, c) \/ SeedChat(w, a, c)
        \/ \E a \in Accounts : LogIn(w, a) \/ LogOut(w, a)
        \/ Count(w) \/ Get(w) \/ Publish(w)
    \/ \E a \in Accounts, c \in Chats : SentTouches(a, c)
    \/ Deliver \/ LoginView \/ Lagged
    \/ \E a \in listed : Switch(a)
    \/ AddAccount
    \/ \E s \in Refreshes : ReadChats(s) \/ ChatsAnswer(s)
    \/ \E l \in Reloads : ReadAccounts(l) \/ AccountsAnswer(l)

Spec == Init /\ [][Next]_vars

-----------------------------------------------------------------------------
(* The type invariant of the accounts, the rows and what is on screen: no  *)
(* chat is there twice.                                                    *)
TypeOK ==
    /\ authorized \subseteq Accounts /\ listed \subseteq Accounts
    /\ rows \in [Accounts -> [Chats -> Nat]]
    /\ task \in [Writers -> [at : {"idle", "touched", "stored", "publish"}, event : Events]]
    /\ bus \in Seq(Events) /\ Len(bus) <= Capacity
    /\ missed \in BOOLEAN
    /\ active \in Accounts \cup {Nobody}
    /\ view \subseteq ChatRows /\ \A x, y \in view : x.id = y.id => x = y
    /\ refreshes \in [Refreshes -> [at : {"idle", "read", "answer"},
                                    account : Accounts \cup {Nobody}, seen : SUBSET ChatRows]]
    /\ reloads \in [Reloads -> [at : {"idle", "read", "answer"}, seen : SUBSET Accounts]]
    /\ moves \in 0 .. MaxMoves
    /\ stale \subseteq (Accounts \cup {Nobody}) \X Chats /\ dropped \subseteq Rows
    /\ behind \in BOOLEAN

(* Nothing is under way between the database and the screen.               *)
Quiet ==
    /\ \A w \in Writers : Idle(w)
    /\ bus = <<>> /\ ~ missed
    /\ \A s \in Refreshes : refreshes[s].at = "idle"
    /\ \A l \in Reloads : reloads[l].at = "idle"

(* The list has the chat as the row of the active account.                 *)
Matches(c) == {x \in view : x.id = c} = {x \in List(active) : x.id = c}

(* Once nothing is under way, each chat on screen is the row that the      *)
(* account on screen has of it, through switches of the account, answers   *)
(* that come late and two writers of a row: but for a row that a send      *)
(* wrote without a word, whose last event was not what it holds, or whose  *)
(* place another account's event or answer took; and one of which the ring *)
(* dropped an event.                                                       *)
ListMatchesStore ==
    Quiet /\ active # Nobody =>
        \A c \in Chats : <<active, c>> \notin stale \cup dropped => Matches(c)

(* The same without the last exception: what "The UI re-reads from the DB  *)
(* after a lag signal" (bridge.rs) and "re-read everything" (App.tsx) say. *)
ListIsRereadAfterLag ==
    Quiet /\ active # Nobody =>
        \A c \in Chats : <<active, c>> \notin stale => Matches(c)

(* Once nothing is under way, the account on screen is authorized, through *)
(* logins, logouts and lags, unless the last answer of refreshAccounts is  *)
(* not the one that was read last.                                         *)
ActiveIsAuthorized ==
    Quiet /\ ~ behind => active \in authorized \cup {Nobody}
=============================================================================

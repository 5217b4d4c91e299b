--------------------------- MODULE ChatListProofs --------------------------
(***************************************************************************)
(* The safety invariants of ChatList, for any accounts and chats, any      *)
(* number of writers and calls, any number of moves and any size of the    *)
(* ring.                                                                   *)
(*                                                                         *)
(* ListInv is what makes a quiet list right: the last event on the bus     *)
(* about a row that is not stale is what the row holds, so that delivering *)
(* it puts the list right, and until then it is under way.  KnownInv does  *)
(* the same for the accounts: until App has read them, a change of theirs  *)
(* is told.                                                                *)
(***************************************************************************)
EXTENDS ChatList, SequenceTheorems, WellFoundedInduction, TLAPS

-----------------------------------------------------------------------------
(* Types: TypeOK, and that a row is there before it is read for an event.  *)

RowTypes == [Accounts -> [Chats -> Nat]]
Tasks == [at : {"idle", "touched", "stored", "publish"}, event : Events]
RefreshRec == [at : {"idle", "read", "answer"}, account : Accounts \cup {Nobody},
               seen : SUBSET ChatRows]
ReloadRec == [at : {"idle", "read", "answer"}, seen : SUBSET Accounts]

IsChat(event) == event \in ChatRows /\ event # AccountsChanged

Sound(w) ==
    task[w].at \in {"touched", "stored"} =>
        /\ IsChat(task[w].event)
        /\ rows[task[w].event.account][task[w].event.id] # 0

Calling(call) ==
    /\ call.at = "idle" \/ call.account \in Accounts
    /\ \A x, y \in call.seen : x.id = y.id => x = y

Types ==
    /\ TypeOK
    /\ \A w \in Writers : Sound(w)
    /\ \A s \in Refreshes : Calling(refreshes[s])

Last(events, i) ==
    \A j \in i + 1 .. Len(events) :
        events[j] # AccountsChanged => RowOf(events[j]) # RowOf(events[i])

(* The last event on the bus about a row that is not stale is what the row *)
(* holds, if no writer has another.                                        *)
LastSays ==
    \A row \in Rows \ stale : ~ Awaited(row) =>
        \A i \in 1 .. Len(bus) :
            bus[i] # AccountsChanged /\ RowOf(bus[i]) = row /\ Last(bus, i) =>
                bus[i].version = rows[row[1]][row[2]]

Asked == \E s \in Refreshes : refreshes[s].at # "idle" /\ refreshes[s].account = active

(* The chats of the account on screen are asked for, or each is as the     *)
(* list has it or under way.                                               *)
Shown ==
    active # Nobody =>
        \/ Asked
        \/ \A c \in Chats : <<active, c>> \notin stale \cup dropped =>
                Coming(<<active, c>>) \/ Matches(c)

ListInv == LastSays /\ Shown

(* App knows of no account that is not authorized, or will be told.        *)
KnownInv ==
    ~ behind => \/ Telling
                \/ listed \subseteq authorized /\ active \in authorized \cup {Nobody}

-----------------------------------------------------------------------------
(* Events, rows and calls.                                                 *)

LEMMA ChatFacts ==
    /\ Nobody \notin Accounts /\ AccountsChanged \notin ChatRows
    /\ AccountsChanged \in Events
    /\ \A e \in ChatRows :
        /\ e \in Events /\ IsChat(e) /\ e # AccountsChanged
        /\ e.account \in Accounts /\ e.id \in Chats /\ e.version \in Nat /\ e.version # 0
        /\ RowOf(e) = <<e.account, e.id>> /\ RowOf(e) \in Rows
    /\ \A e \in Events : e # AccountsChanged => e \in ChatRows
BY AccountsAssumption, EventsAssumption DEF Events, ChatRows, IsChat, RowOf, Rows, Nobody

LEMMA TaskFacts ==
    ASSUME Types
    PROVE  /\ task \in [Writers -> Tasks]
           /\ \A w \in Writers : /\ task[w] \in Tasks /\ task[w].event \in Events
                                 /\ task[w].at \in {"idle", "touched", "stored", "publish"}
           /\ \A w \in Writers : Sound(w)
BY DEF Types, TypeOK, Tasks

LEMMA RowsFacts ==
    ASSUME Types
    PROVE  /\ rows \in RowTypes
           /\ \A a \in Accounts, c \in Chats : rows[a][c] \in Nat
BY DEF Types, TypeOK, RowTypes

(* A task of w, and what it makes of them.                                 *)
LEMMA GoesTask ==
    ASSUME Types, NEW w \in Writers, NEW e \in Events,
           NEW at \in {"touched", "stored", "publish"}, Goes(w, at, e)
    PROVE  /\ task' \in [Writers -> Tasks]
           /\ task'[w].at = at /\ task'[w].event = e
           /\ \A v \in Writers \ {w} : task'[v] = task[v]
<1> DEFINE new == [at |-> at, event |-> e]
<1>1. new \in Tasks /\ new.at = at /\ new.event = e
    BY DEF Tasks
<1> HIDE DEF new
<1>2. task' = [task EXCEPT ![w] = new]
    BY DEF Goes, new
<1> QED BY <1>1, <1>2, TaskFacts

LEMMA RowFacts ==
    ASSUME Types, NEW a \in Accounts, NEW c \in Chats
    PROVE  /\ Row(a, c).account = a /\ Row(a, c).id = c /\ Row(a, c).version = rows[a][c]
           /\ rows[a][c] # 0 => Row(a, c) \in ChatRows
<1>1. rows[a][c] \in Nat
    BY RowsFacts
<1> QED BY <1>1 DEF Row, ChatRows

(* A writer writes the row of a chat, or reads it again for the event.     *)
Wrote(w, a, c) ==
    /\ task' \in [Writers -> Tasks]
    /\ task'[w].at # "idle" /\ IsChat(task'[w].event) /\ RowOf(task'[w].event) = <<a, c>>
    /\ task'[w].at \in {"touched", "stored"} => rows'[a][c] # 0
    /\ \A v \in Writers \ {w} : task'[v] = task[v]
    /\ task[w].at = "idle" \/ (IsChat(task[w].event) /\ RowOf(task[w].event) = <<a, c>>)
    /\ rows' \in RowTypes
    /\ \A b \in Accounts, d \in Chats : /\ b # a \/ d # c => rows'[b][d] = rows[b][d]
                                        /\ rows[b][d] # 0 => rows'[b][d] # 0
    /\ moves' \in 0 .. MaxMoves
    /\ UNCHANGED <<authorized, bus, missed, screen, calls, history>>

LEMMA ChangedRows ==
    ASSUME Types, NEW a \in Accounts, NEW c \in Chats, Changed(a, c)
    PROVE  /\ rows' \in RowTypes /\ rows'[a][c] # 0
           /\ \A b \in Accounts, d \in Chats : /\ b # a \/ d # c => rows'[b][d] = rows[b][d]
                                               /\ rows[b][d] # 0 => rows'[b][d] # 0
           /\ moves' \in 0 .. MaxMoves
<1>1. moves' \in 0 .. MaxMoves
    BY BoundAssumption DEF Changed, Moved, Types, TypeOK
<1>2. rows' = [rows EXCEPT ![a] = [rows[a] EXCEPT ![c] = rows[a][c] + 1]]
    BY RowsFacts DEF Changed, RowTypes
<1>3. /\ rows'[a] = [rows[a] EXCEPT ![c] = rows[a][c] + 1]
      /\ \A b \in Accounts \ {a} : rows'[b] = rows[b]
      /\ rows[a] \in [Chats -> Nat]
    BY <1>2, RowsFacts DEF RowTypes
<1>4. /\ rows'[a] \in [Chats -> Nat] /\ rows'[a][c] = rows[a][c] + 1
      /\ \A d \in Chats \ {c} : rows'[a][d] = rows[a][d]
    BY <1>3
<1>5. rows' \in RowTypes
    BY <1>2, <1>3, <1>4, RowsFacts DEF RowTypes
<1> QED BY <1>1, <1>3, <1>4, <1>5, RowsFacts

LEMMA WritesWrote ==
    ASSUME Types, NEW w \in Writers, NEW a \in Accounts, NEW c \in Chats,
           \/ Touch(w, a, c) \/ MarkRead(w, a, c) \/ SeedChat(w, a, c)
           \/ (Count(w) \/ Get(w)) /\ RowOf(task[w].event) = <<a, c>>
    PROVE  Wrote(w, a, c)
<1> DEFINE Same == UNCHANGED <<authorized, bus, missed, screen, calls, history>>
           Rest == /\ rows' \in RowTypes
                   /\ \A b \in Accounts, d \in Chats : /\ b # a \/ d # c => rows'[b][d] = rows[b][d]
                                                       /\ rows[b][d] # 0 => rows'[b][d] # 0
                   /\ moves' \in 0 .. MaxMoves
<1>1. ASSUME NEW e \in ChatRows, RowOf(e) = <<a, c>>,
             NEW at \in {"touched", "stored", "publish"}, Goes(w, at, e),
             at \in {"touched", "stored"} => rows'[a][c] # 0,
             task[w].at = "idle" \/ (IsChat(task[w].event) /\ RowOf(task[w].event) = <<a, c>>),
             Rest, Same
      PROVE  Wrote(w, a, c)
    <2>1. e \in Events /\ IsChat(e)
        BY <1>1, ChatFacts
    <2>2. /\ task' \in [Writers -> Tasks]
          /\ task'[w].at = at /\ task'[w].event = e
          /\ \A v \in Writers \ {w} : task'[v] = task[v]
        BY <1>1, <2>1, GoesTask
    <2> QED BY <1>1, <2>1, <2>2 DEF Wrote
<1>2. ASSUME Changed(a, c)
      PROVE  Rest /\ rows'[a][c] # 0
    BY <1>2, ChangedRows
<1>3. ASSUME UNCHANGED rows, moves' \in 0 .. MaxMoves
      PROVE  Rest
    BY <1>3, RowsFacts
<1>4. rows[a][c] # 0 => Row(a, c) \in ChatRows /\ RowOf(Row(a, c)) = <<a, c>>
    BY RowFacts DEF RowOf
<1> HIDE DEF Rest, Same
<1>5. CASE Touch(w, a, c)
    <2>1. /\ Same /\ Goes(w, "touched", Row(a, c)) /\ task[w].at = "idle" /\ rows[a][c] # 0
          /\ Changed(a, c) \/ (Moved /\ UNCHANGED rows)
        BY <1>5 DEF Touch, Idle, Same
    <2>2. Rest /\ rows'[a][c] # 0
        BY <2>1, <1>2, <1>3, BoundAssumption DEF Moved, Types, TypeOK
    <2> QED BY <1>1, <1>4, <2>1, <2>2
<1>6. CASE MarkRead(w, a, c)
    <2>1. /\ Same /\ Goes(w, "stored", Row(a, c)) /\ task[w].at = "idle" /\ rows[a][c] # 0
          /\ Changed(a, c)
        BY <1>6 DEF MarkRead, Idle, Same
    <2> QED BY <1>1, <1>2, <1>4, <2>1
<1>7. CASE SeedChat(w, a, c)
    <2>1. /\ Same /\ Goes(w, "publish", Row(a, c)') /\ task[w].at = "idle" /\ Changed(a, c)
        BY <1>7 DEF SeedChat, Idle, Same
    <2>2. Row(a, c)' \in ChatRows /\ RowOf(Row(a, c)') = <<a, c>>
        <3>1. rows'[a][c] \in Nat /\ rows'[a][c] # 0
            BY <1>2, <2>1 DEF Rest, RowTypes
        <3> QED BY <3>1 DEF Row, ChatRows, RowOf
    <2> QED BY <1>1, <1>2, <2>1, <2>2
<1>8. CASE (Count(w) \/ Get(w)) /\ RowOf(task[w].event) = <<a, c>>
    <2> DEFINE e == task[w].event
    <2>1. task[w].at \in {"touched", "stored"} => IsChat(e) /\ rows[e.account][e.id] # 0
        BY TaskFacts DEF Sound
    <2>2. e.account = a /\ e.id = c
        BY <1>8 DEF RowOf
    <2>3. CASE Count(w)
        <3>1. Same /\ task[w].at = "touched" /\ Changed(a, c) /\ Goes(w, "stored", e)
            BY <2>2, <2>3 DEF Count, Same
        <3>2. e \in ChatRows
            BY <2>1, <3>1 DEF IsChat
        <3> QED BY <1>1, <1>2, <1>8, <2>1, <3>1, <3>2
    <2>4. CASE Get(w)
        <3>1. /\ Same /\ task[w].at \in {"touched", "stored"} /\ UNCHANGED <<rows, moves>>
              /\ Goes(w, "publish", Row(a, c))
            BY <2>2, <2>4 DEF Get, Same, store
        <3>2. Rest
            BY <3>1, <1>3 DEF Types, TypeOK
        <3>3. rows[a][c] # 0
            BY <2>1, <2>2, <3>1
        <3> QED BY <1>1, <1>4, <1>8, <2>1, <3>1, <3>2, <3>3
    <2> QED BY <1>8, <2>3, <2>4
<1> QED BY <1>5, <1>6, <1>7, <1>8

(* The accounts change.                                                    *)
Logged(w) ==
    /\ task' \in [Writers -> Tasks]
    /\ \A v \in Writers \ {w} : task'[v] = task[v]
    /\ task[w].at = "idle"
    /\ \/ task' = task
       \/ task'[w].at = "publish" /\ task'[w].event = AccountsChanged
    /\ task' = task => authorized \subseteq authorized'
    /\ authorized' \subseteq Accounts
    /\ moves' \in 0 .. MaxMoves
    /\ UNCHANGED <<rows, bus, missed, screen, calls, history>>

LEMMA LogsLogged ==
    ASSUME Types, NEW w \in Writers, NEW a \in Accounts, LogIn(w, a) \/ LogOut(w, a)
    PROVE  Logged(w)
<1> DEFINE Same == UNCHANGED <<rows, bus, missed, screen, calls, history>>
<1>1. /\ Same /\ task[w].at = "idle" /\ moves' \in 0 .. MaxMoves
      /\ authorized' \subseteq Accounts
      /\ \/ Goes(w, "publish", AccountsChanged)
         \/ UNCHANGED task /\ authorized \subseteq authorized'
    BY BoundAssumption DEF LogIn, LogOut, Idle, Moved, Types, TypeOK
<1>2. CASE Goes(w, "publish", AccountsChanged)
    <2>1. /\ task' \in [Writers -> Tasks]
          /\ task'[w].at = "publish" /\ task'[w].event = AccountsChanged
          /\ \A v \in Writers \ {w} : task'[v] = task[v]
        BY <1>2, ChatFacts, GoesTask
    <2>2. task' # task
        BY <1>1, <2>1
    <2> QED BY <1>1, <2>1, <2>2 DEF Logged
<1>3. CASE UNCHANGED task /\ authorized \subseteq authorized'
    BY <1>1, <1>3, TaskFacts DEF Logged
<1> QED BY <1>1, <1>2, <1>3

-----------------------------------------------------------------------------
(* The bus.                                                                *)

LEMMA BusFacts ==
    ASSUME Types
    PROVE  /\ bus \in Seq(Events) /\ Len(bus) \in Nat /\ Len(bus) <= Capacity
           /\ Capacity \in Nat /\ Capacity > 0
           /\ \A i \in 1 .. Len(bus) : bus[i] \in Events
BY CapacityAssumption DEF Types, TypeOK

LEMMA PublishTask ==
    ASSUME Types, NEW w \in Writers, Publish(w)
    PROVE  /\ task[w].event \in Events /\ task[w].at = "publish"
           /\ task' \in [Writers -> Tasks] /\ task'[w].at = "idle"
           /\ \A v \in Writers \ {w} : task'[v] = task[v]
           /\ UNCHANGED <<store, screen, calls, moves, behind>>
<1>1. Free \in Tasks /\ Free.at = "idle"
    BY ChatFacts DEF Free, Tasks
<1>2. /\ task[w].at = "publish" /\ task' = [task EXCEPT ![w] = Free]
      /\ UNCHANGED <<store, screen, calls, moves, behind>>
    BY DEF Publish
<1> QED BY <1>1, <1>2, TaskFacts

LEMMA PublishBus ==
    ASSUME Types, NEW w \in Writers, Publish(w)
    PROVE  LET event == task[w].event
               full == Len(bus) = Capacity
               n == Len(bus')
           IN  /\ bus' \in Seq(Events) /\ n \in Nat /\ n > 0 /\ n <= Capacity
               /\ bus'[n] = event
               /\ ~ full => n = Len(bus) + 1 /\ \A i \in 1 .. Len(bus) : bus'[i] = bus[i]
               /\ full => n = Len(bus) /\ \A i \in 1 .. Len(bus) - 1 : bus'[i] = bus[i + 1]
               /\ full \/ missed => missed'
               /\ missed' \in BOOLEAN
               /\ stale' = Told(event)
               /\ dropped' = IF full /\ bus[1] # AccountsChanged
                             THEN dropped \cup {RowOf(bus[1])} ELSE dropped
<1> DEFINE event == task[w].event
           all == Append(bus, event)
<1>1. event \in Events
    BY TaskFacts
<1>2. /\ bus \in Seq(Events) /\ Len(bus) \in Nat /\ Len(bus) <= Capacity
      /\ Capacity \in Nat /\ Capacity > 0
    BY BusFacts
<1>3. /\ all \in Seq(Events) /\ Len(all) = Len(bus) + 1 /\ all[Len(bus) + 1] = event
      /\ \A i \in 1 .. Len(bus) : all[i] = bus[i]
    BY <1>1, <1>2
<1>4. /\ bus' = (IF Len(all) > Capacity THEN Tail(all) ELSE all)
      /\ missed' = (missed \/ Len(all) > Capacity)
      /\ stale' = Told(event)
      /\ dropped' = IF Len(all) > Capacity /\ Head(all) # AccountsChanged
                    THEN dropped \cup {RowOf(Head(all))} ELSE dropped
    BY DEF Publish, Kept
<1>5. Len(all) > Capacity <=> Len(bus) = Capacity
    BY <1>2, <1>3
<1>6. missed' \in BOOLEAN /\ (Len(bus) = Capacity \/ missed => missed')
    BY <1>4, <1>5
<1>7. CASE Len(bus) # Capacity
    <2>1. bus' = all /\ dropped' = dropped
        BY <1>4, <1>5, <1>7
    <2> HIDE DEF all, event
    <2>2. Len(bus') <= Capacity
        BY <1>2, <1>3, <1>7, <2>1
    <2> QED BY <1>1, <1>2, <1>3, <1>4, <1>6, <1>7, <2>1, <2>2 DEF event
<1>8. CASE Len(bus) = Capacity
    <2>1. bus' = Tail(all) /\ all # <<>> /\ Head(all) = all[1] /\ all[1] = bus[1]
        BY <1>2, <1>3, <1>4, <1>5, <1>8
    <2>2. /\ bus' \in Seq(Events) /\ Len(bus') = Len(bus)
          /\ \A i \in 1 .. Len(bus) : bus'[i] = all[i + 1]
        BY <1>2, <1>3, <2>1, HeadTailProperties
    <2>3. dropped' = IF bus[1] # AccountsChanged THEN dropped \cup {RowOf(bus[1])} ELSE dropped
        BY <1>4, <1>5, <1>8, <2>1
    <2> HIDE DEF all, event
    <2>4. bus'[Len(bus)] = event /\ \A i \in 1 .. Len(bus) - 1 : bus'[i] = bus[i + 1]
        BY <1>2, <1>3, <1>8, <2>2
    <2> QED BY <1>1, <1>2, <1>4, <1>6, <1>8, <2>2, <2>3, <2>4 DEF event
<1> QED BY <1>7, <1>8

LEMMA DeliverBus ==
    ASSUME Types, Deliver
    PROVE  /\ Len(bus) > 0 /\ Head(bus) = bus[1] /\ bus[1] \in Events
           /\ bus' = Tail(bus)
           /\ bus' \in Seq(Events) /\ Len(bus') = Len(bus) - 1 /\ Len(bus') \in Nat
           /\ \A i \in 1 .. Len(bus') : i + 1 \in 1 .. Len(bus) /\ bus'[i] = bus[i + 1]
<1>1. bus \in Seq(Events) /\ bus # <<>> /\ bus' = Tail(bus)
    BY BusFacts DEF Deliver
<1>2. Len(bus) \in Nat /\ Len(bus) > 0 /\ bus[1] \in Events
    BY <1>1
<1>3. bus' \in Seq(Events) /\ Len(bus') = Len(bus) - 1
      /\ \A i \in 1 .. Len(bus') : bus'[i] = bus[i + 1]
    BY <1>1, HeadTailProperties
<1>4. \A i \in 1 .. Len(bus') : i + 1 \in 1 .. Len(bus)
    BY <1>2, <1>3
<1> QED BY <1>1, <1>2, <1>3, <1>4

-----------------------------------------------------------------------------
(* The calls.                                                              *)

LEMMA CallFacts ==
    ASSUME Types
    PROVE  /\ refreshes \in [Refreshes -> RefreshRec] /\ reloads \in [Reloads -> ReloadRec]
           /\ \A s \in Refreshes :
                /\ Calling(refreshes[s]) /\ refreshes[s] \in RefreshRec
                /\ refreshes[s].seen \subseteq ChatRows
           /\ \A l \in Reloads : reloads[l].seen \subseteq Accounts /\ reloads[l] \in ReloadRec
BY DEF Types, TypeOK, RefreshRec, ReloadRec

LEMMA DoneCall ==
    /\ Done \in RefreshRec /\ Calling(Done) /\ Done.at = "idle"
    /\ \A a \in Accounts :
        LET call == [Done EXCEPT !.at = "read", !.account = a]
        IN  call \in RefreshRec /\ Calling(call) /\ call.at = "read" /\ call.account = a
BY DEF Done, RefreshRec, Calling, Nobody

LEMMA RefreshCall ==
    ASSUME Types, NEW a \in Accounts, Refresh(a)
    PROVE  /\ refreshes' \in [Refreshes -> RefreshRec]
           /\ \A s \in Refreshes : Calling(refreshes'[s])
           /\ \E s \in Refreshes : refreshes'[s].at = "read" /\ refreshes'[s].account = a
<1> DEFINE call == [Done EXCEPT !.at = "read", !.account = a]
<1>1. PICK s \in Refreshes : refreshes' = [refreshes EXCEPT ![s] = call]
    BY DEF Refresh
<1>2. call \in RefreshRec /\ Calling(call) /\ call.at = "read" /\ call.account = a
    BY DoneCall
<1> HIDE DEF call
<1>3. refreshes'[s] = call /\ \A t \in Refreshes \ {s} : refreshes'[t] = refreshes[t]
    BY <1>1, CallFacts
<1>4. refreshes' \in [Refreshes -> RefreshRec]
    BY <1>1, <1>2, CallFacts
<1>5. \A t \in Refreshes : Calling(refreshes'[t])
    BY <1>2, <1>3, CallFacts
<1> QED BY <1>2, <1>3, <1>4, <1>5

LEMMA Activated ==
    ASSUME Types, NEW a \in Accounts \cup {Nobody}, Activate(a)
    PROVE  /\ active' = a
           /\ refreshes' \in [Refreshes -> RefreshRec]
           /\ \A s \in Refreshes : Calling(refreshes'[s])
           /\ active' # Nobody => Asked'
<1>1. CASE a = Nobody
    BY <1>1, CallFacts DEF Activate
<1>2. CASE a # Nobody
    <2>1. a \in Accounts /\ Refresh(a) /\ active' = a
        BY <1>2 DEF Activate
    <2> QED BY <2>1, RefreshCall DEF Asked
<1> QED BY <1>1, <1>2

LEMMA ReloadCall ==
    ASSUME Types, Reload
    PROVE  /\ reloads' \in [Reloads -> ReloadRec]
           /\ \E l \in Reloads : reloads'[l].at = "read"
<1>1. PICK l \in Reloads : reloads' = [reloads EXCEPT ![l] = Reading]
    BY DEF Reload
<1>2. Reading \in ReloadRec /\ Reading.at = "read"
    BY DEF Reading, ReloadRec
<1> QED BY <1>1, <1>2, CallFacts

LEMMA FirstOf ==
    ASSUME NEW seen \in SUBSET Accounts
    PROVE  First(seen) \in seen \cup {Nobody}
<1> DEFINE Less == OpToRel(<, Nat)
<1>1. IsWellFoundedOn(Less, Nat)
    BY NatLessThanWellFounded
<1>2. \A m, n \in Nat : n < m => <<n, m>> \in Less
    BY DEF OpToRel
<1> HIDE DEF Less
<1>3. CASE seen = {}
    BY <1>3 DEF First
<1>4. CASE seen # {}
    <2>1. seen \subseteq Nat
        BY AccountsAssumption
    <2>2. PICK a \in seen : \A b \in seen : ~ (<<b, a>> \in Less)
        BY <1>1, <1>4, <2>1, WFMin
    <2>3. \A b \in seen : b \in Nat /\ ~ (b < a)
        BY <1>2, <2>1, <2>2
    <2>4. \A b \in seen : a <= b
        BY <2>1, <2>3
    <2> QED BY <1>4, <2>4 DEF First
<1> QED BY <1>3, <1>4

LEMMA ListFacts ==
    ASSUME Types, NEW a \in Accounts
    PROVE  /\ List(a) \subseteq ChatRows
           /\ \A x, y \in List(a) : x.id = y.id => x = y
           /\ \A c \in Chats : rows[a][c] # 0 => {x \in List(a) : x.id = c} = {Row(a, c)}
           /\ \A c \in Chats : rows[a][c] = 0 => {x \in List(a) : x.id = c} = {}
<1>1. \A c \in Chats : /\ Row(a, c).id = c
                       /\ rows[a][c] # 0 => Row(a, c) \in ChatRows
    BY RowFacts
<1>2. \A x : x \in List(a) <=> \E c \in Chats : rows[a][c] # 0 /\ x = Row(a, c)
    BY DEF List
<1> QED BY <1>1, <1>2

LEMMA ReadCall ==
    ASSUME Types, NEW s \in Refreshes, ReadChats(s)
    PROVE  /\ refreshes' \in [Refreshes -> RefreshRec]
           /\ \A t \in Refreshes : /\ Calling(refreshes'[t])
                                   /\ refreshes'[t].account = refreshes[t].account
                                   /\ refreshes[t].at # "idle" => refreshes'[t].at # "idle"
<1> DEFINE a == refreshes[s].account
           call == [at |-> "answer", account |-> a, seen |-> List(a)]
<1>1. refreshes[s] \in RefreshRec /\ refreshes[s].at = "read" /\ a \in Accounts
    BY CallFacts DEF ReadChats, Calling
<1>2. refreshes' = [refreshes EXCEPT ![s] = call]
    BY DEF ReadChats
<1>3. call \in RefreshRec /\ Calling(call) /\ call.at = "answer" /\ call.account = a
    BY <1>1, ListFacts DEF RefreshRec, Calling
<1> HIDE DEF call
<1>4. refreshes'[s] = call /\ \A t \in Refreshes \ {s} : refreshes'[t] = refreshes[t]
    BY <1>2, CallFacts
<1>5. refreshes' \in [Refreshes -> RefreshRec]
    BY <1>2, <1>3, CallFacts
<1> QED BY <1>3, <1>4, <1>5, CallFacts

LEMMA AnswerCall ==
    ASSUME Types, NEW s \in Refreshes, ChatsAnswer(s)
    PROVE  /\ refreshes' \in [Refreshes -> RefreshRec]
           /\ \A t \in Refreshes : Calling(refreshes'[t])
           /\ \A t \in Refreshes \ {s} : refreshes'[t] = refreshes[t]
           /\ refreshes[s].account \in Accounts
           /\ view' = refreshes[s].seen
           /\ UNCHANGED <<store, way, listed, active, reloads, moves, behind>>
<1>1. /\ refreshes' = [refreshes EXCEPT ![s] = Done] /\ refreshes[s].at = "answer"
      /\ view' = refreshes[s].seen
      /\ UNCHANGED <<store, way, listed, active, reloads, moves, behind>>
    BY DEF ChatsAnswer
<1> QED BY <1>1, DoneCall, CallFacts DEF Calling

LEMMA SeenCall ==
    ASSUME Types, NEW l \in Reloads, ReadAccounts(l) \/ AccountsAnswer(l)
    PROVE  /\ reloads' \in [Reloads -> ReloadRec]
           /\ \A k \in Reloads \ {l} : reloads'[k] = reloads[k]
           /\ ReadAccounts(l) => reloads'[l].at = "answer" /\ reloads'[l].seen = authorized
<1>1. CASE ReadAccounts(l)
    <2> DEFINE call == [at |-> "answer", seen |-> authorized]
    <2>1. call \in ReloadRec /\ call.at = "answer" /\ call.seen = authorized
        BY DEF ReloadRec, Types, TypeOK
    <2>2. reloads' = [reloads EXCEPT ![l] = call]
        BY <1>1 DEF ReadAccounts
    <2> HIDE DEF call
    <2> QED BY <2>1, <2>2, CallFacts
<1>2. CASE AccountsAnswer(l) /\ ~ ReadAccounts(l)
    <2>1. NotReading \in ReloadRec
        BY DEF NotReading, ReloadRec
    <2>2. reloads' = [reloads EXCEPT ![l] = NotReading]
        BY <1>2 DEF AccountsAnswer
    <2> QED BY <1>2, <2>1, <2>2, CallFacts
<1> QED BY <1>1, <1>2

-----------------------------------------------------------------------------
(* Types.                                                                  *)

(* The parts of Types, as the steps change them.                           *)
StoreTyped == authorized \subseteq Accounts /\ rows \in RowTypes /\ moves \in 0 .. MaxMoves
TasksTyped == task \in [Writers -> Tasks] /\ \A w \in Writers : Sound(w)
BusTyped == bus \in Seq(Events) /\ Len(bus) <= Capacity /\ missed \in BOOLEAN
AppTyped == listed \subseteq Accounts /\ active \in Accounts \cup {Nobody}
ViewTyped == view \subseteq ChatRows /\ \A x, y \in view : x.id = y.id => x = y
RefreshesTyped ==
    refreshes \in [Refreshes -> RefreshRec] /\ \A s \in Refreshes : Calling(refreshes[s])
ReloadsTyped == reloads \in [Reloads -> ReloadRec]
HistoryTyped ==
    stale \subseteq (Accounts \cup {Nobody}) \X Chats /\ dropped \subseteq Rows
BehindTyped == behind \in BOOLEAN

Typed ==
    /\ StoreTyped /\ TasksTyped /\ BusTyped /\ AppTyped /\ ViewTyped
    /\ RefreshesTyped /\ ReloadsTyped /\ HistoryTyped /\ BehindTyped

LEMMA TypesParts == Types <=> Typed
<1> USE DEF Types, TypeOK, Typed, StoreTyped, TasksTyped, BusTyped, AppTyped, ViewTyped,
            RefreshesTyped, ReloadsTyped, HistoryTyped, BehindTyped, RowTypes, Tasks,
            RefreshRec, ReloadRec
<1>1. Types => Typed
    OBVIOUS
<1>2. Typed => Types
    OBVIOUS
<1> QED BY <1>1, <1>2

(* A step leaves a part of Types alone.                                    *)
LEMMA PartsKept ==
    ASSUME Typed
    PROVE  /\ UNCHANGED <<authorized, rows, moves>> => StoreTyped'
           /\ UNCHANGED <<task, rows>> => TasksTyped'
           /\ UNCHANGED <<bus, missed>> => BusTyped'
           /\ UNCHANGED <<listed, active>> => AppTyped'
           /\ UNCHANGED view => ViewTyped'
           /\ UNCHANGED refreshes => RefreshesTyped'
           /\ UNCHANGED reloads => ReloadsTyped'
           /\ UNCHANGED <<stale, dropped>> => HistoryTyped'
           /\ UNCHANGED behind => BehindTyped'
<1>1. UNCHANGED <<task, rows>> => TasksTyped'
    BY DEF Typed, TasksTyped, Sound
<1>2. UNCHANGED <<bus, missed>> => BusTyped'
    BY DEF Typed, BusTyped
<1>3. UNCHANGED behind => BehindTyped'
    BY DEF Typed, BehindTyped
<1>4. /\ UNCHANGED <<authorized, rows, moves>> => StoreTyped'
      /\ UNCHANGED <<listed, active>> => AppTyped'
    BY DEF Typed, StoreTyped, AppTyped
<1>5. /\ UNCHANGED view => ViewTyped'
      /\ UNCHANGED reloads => ReloadsTyped'
      /\ UNCHANGED <<stale, dropped>> => HistoryTyped'
    BY DEF Typed, ViewTyped, ReloadsTyped, HistoryTyped
<1>6. UNCHANGED refreshes => RefreshesTyped'
    BY DEF Typed, RefreshesTyped
<1> QED BY <1>1, <1>2, <1>3, <1>4, <1>5, <1>6

LEMMA WroteTypes ==
    ASSUME Typed, NEW w \in Writers, NEW a \in Accounts, NEW c \in Chats, Wrote(w, a, c)
    PROVE  Typed'
<1>1. StoreTyped'
    BY DEF Wrote, Typed, StoreTyped
<1>2. ASSUME NEW v \in Writers PROVE Sound(v)'
    <2>1. CASE v = w
        BY <2>1, ChatFacts DEF Wrote, Sound, IsChat, RowOf
    <2>2. CASE v # w
        <3>1. task'[v] = task[v] /\ Sound(v)
            BY <2>2 DEF Wrote, Typed, TasksTyped
        <3> QED BY <3>1, ChatFacts DEF Sound, Wrote, IsChat
    <2> QED BY <2>1, <2>2
<1>3. TasksTyped'
    BY <1>2 DEF Wrote, TasksTyped
<1> QED BY <1>1, <1>3, PartsKept DEF Wrote, Typed, screen, calls, history

LEMMA UntoldTypes ==
    ASSUME Typed, NEW a \in Accounts, NEW c \in Chats, SentTouches(a, c)
    PROVE  Typed'
<1>1. /\ rows' \in RowTypes /\ moves' \in 0 .. MaxMoves
      /\ \A b \in Accounts, d \in Chats : rows[b][d] # 0 => rows'[b][d] # 0
    BY TypesParts, ChangedRows DEF SentTouches
<1>2. StoreTyped'
    BY <1>1 DEF SentTouches, Typed, StoreTyped
<1>3. TasksTyped'
    BY <1>1, ChatFacts DEF SentTouches, way, Typed, TasksTyped, Sound, IsChat
<1>4. HistoryTyped'
    BY DEF SentTouches, Typed, HistoryTyped
<1> QED BY <1>2, <1>3, <1>4, PartsKept DEF SentTouches, Typed, way, screen, calls

LEMMA LoggedTypes ==
    ASSUME Typed, NEW w \in Writers, Logged(w)
    PROVE  Typed'
<1>1. StoreTyped'
    BY DEF Logged, Typed, StoreTyped
<1>2. TasksTyped'
    <2>1. ASSUME NEW v \in Writers PROVE Sound(v)'
        BY DEF Logged, Typed, TasksTyped, Sound
    <2> QED BY <2>1 DEF Logged, TasksTyped
<1> QED BY <1>1, <1>2, PartsKept DEF Logged, Typed, screen, calls, history

LEMMA PublishTypes ==
    ASSUME Typed, NEW w \in Writers, Publish(w)
    PROVE  Typed'
<1>1. Types
    BY TypesParts
<1>2. /\ task[w].event \in Events /\ task' \in [Writers -> Tasks] /\ task'[w].at = "idle"
      /\ \A v \in Writers \ {w} : task'[v] = task[v]
      /\ UNCHANGED <<store, screen, calls, moves, behind>>
    BY <1>1, PublishTask
<1>3. TasksTyped'
    BY <1>2 DEF Typed, TasksTyped, Sound, store
<1>4. BusTyped'
    BY <1>1, PublishBus DEF BusTyped
<1>5. HistoryTyped'
    <2>1. stale' = Told(task[w].event)
        BY <1>1, PublishBus
    <2>2. stale' \subseteq (Accounts \cup {Nobody}) \X Chats
        BY <1>2, <2>1, ChatFacts DEF Told, Typed, HistoryTyped, Rows
    <2>3. bus[1] # AccountsChanged /\ Len(bus) = Capacity => RowOf(bus[1]) \in Rows
        BY <1>1, BusFacts, ChatFacts
    <2>4. dropped' = dropped \/ (/\ bus[1] # AccountsChanged /\ Len(bus) = Capacity
                                 /\ dropped' = dropped \cup {RowOf(bus[1])})
        BY <1>1, PublishBus
    <2> QED BY <2>2, <2>3, <2>4 DEF Typed, HistoryTyped
<1> QED BY <1>2, <1>3, <1>4, <1>5, PartsKept DEF Typed, store, screen, calls

LEMMA DeliverTypes ==
    ASSUME Typed, Deliver
    PROVE  Typed'
<1>1. Types
    BY TypesParts
<1>2. /\ UNCHANGED <<store, task, missed, listed, active, refreshes, moves, behind>>
      /\ \/ bus[1] = AccountsChanged /\ Reload /\ UNCHANGED <<view, stale, dropped>>
         \/ bus[1] # AccountsChanged /\ ChatUpdated(bus[1])
    BY <1>1, DeliverBus DEF Deliver
<1>3. BusTyped'
    <2>1. Len(bus') <= Capacity /\ bus' \in Seq(Events)
        BY <1>1, DeliverBus, BusFacts
    <2> QED BY <1>2, <2>1 DEF BusTyped, Typed
<1>4. CASE bus[1] = AccountsChanged /\ Reload /\ UNCHANGED <<view, stale, dropped>>
    <2>1. ReloadsTyped'
        BY <1>1, <1>4, ReloadCall DEF ReloadsTyped
    <2> QED BY <1>2, <1>3, <1>4, <2>1, PartsKept DEF Typed, store
<1>5. CASE bus[1] # AccountsChanged /\ ChatUpdated(bus[1])
    <2>1. bus[1] \in ChatRows
        BY <1>1, <1>5, DeliverBus, ChatFacts
    <2>2. view' = After(bus[1]) /\ UNCHANGED reloads
        BY <1>5 DEF ChatUpdated
    <2>3. ViewTyped'
        BY <2>1, <2>2 DEF After, Typed, ViewTyped
    <2>4. HistoryTyped'
        <3>1. stale' \subseteq stale \cup ({active} \X {bus[1].id}) /\ dropped' \subseteq dropped
            BY <1>5 DEF ChatUpdated
        <3> QED BY <2>1, <3>1, ChatFacts DEF Typed, HistoryTyped, AppTyped
    <2> QED BY <1>2, <1>3, <2>2, <2>3, <2>4, PartsKept DEF Typed, store
<1> QED BY <1>2, <1>4, <1>5

LEMMA MovedFacts == Typed /\ Moved => moves' \in 0 .. MaxMoves
BY BoundAssumption DEF Moved, Typed, StoreTyped

LEMMA AppTypes ==
    ASSUME Typed,
           \/ LoginView \/ Lagged \/ AddAccount \/ (\E a \in listed : Switch(a))
           \/ \E l \in Reloads : ReadAccounts(l) \/ AccountsAnswer(l)
    PROVE  Typed'
<1>1. Types
    BY TypesParts
<1>2. CASE LoginView
    <2>1. moves' \in 0 .. MaxMoves /\ UNCHANGED store
        BY <1>2, MovedFacts DEF LoginView
    <2>2. StoreTyped'
        BY <2>1 DEF Typed, StoreTyped, store
    <2>3. ReloadsTyped'
        BY <1>1, <1>2, ReloadCall DEF LoginView, ReloadsTyped
    <2> QED BY <1>2, <2>2, <2>3, PartsKept DEF LoginView, Typed, store, way, screen, history
<1>3. CASE Lagged
    <2>1. ReloadsTyped'
        BY <1>1, <1>3, ReloadCall DEF Lagged, ReloadsTyped
    <2>2. BusTyped'
        BY <1>3 DEF Lagged, Typed, BusTyped
    <2> QED BY <1>3, <2>1, <2>2, PartsKept DEF Lagged, Typed, store, screen, history
<1>4. ASSUME NEW a \in Accounts \cup {Nobody}, Activate(a)
      PROVE  RefreshesTyped' /\ active' \in Accounts \cup {Nobody}
    BY <1>1, <1>4, Activated DEF RefreshesTyped
<1>5. ASSUME NEW a \in Accounts \cup {Nobody}, Moved, Activate(a),
             UNCHANGED <<store, way, listed, view, reloads, history>>
      PROVE  Typed'
    <2>1. StoreTyped'
        BY <1>5, MovedFacts DEF Typed, StoreTyped, store
    <2>2. AppTyped'
        BY <1>4, <1>5 DEF Typed, AppTyped
    <2> QED BY <1>4, <1>5, <2>1, <2>2, PartsKept DEF Typed, store, way, history
<1>6. CASE AddAccount
    BY <1>5, <1>6 DEF AddAccount
<1>7. ASSUME NEW a \in listed, Switch(a)
      PROVE  Typed'
    <2>1. a \in Accounts \cup {Nobody}
        BY DEF Typed, AppTyped
    <2> QED BY <1>5, <1>7, <2>1 DEF Switch
<1>8. ASSUME NEW l \in Reloads, ReadAccounts(l)
      PROVE  Typed'
    <2>1. ReloadsTyped'
        BY <1>1, <1>8, SeenCall DEF ReloadsTyped
    <2> QED BY <1>8, <2>1, PartsKept DEF ReadAccounts, Typed, store, way, screen, history
<1>9. ASSUME NEW l \in Reloads, AccountsAnswer(l)
      PROVE  Typed'
    <2> DEFINE seen == reloads[l].seen
    <2>1. ReloadsTyped'
        BY <1>1, <1>9, SeenCall DEF ReloadsTyped
    <2>2. /\ listed' = seen
          /\ (active \in seen /\ UNCHANGED <<active, refreshes>>) \/ Activate(First(seen))
          /\ UNCHANGED <<store, way, view, moves, stale, dropped>>
        BY <1>9 DEF AccountsAnswer
    <2>3. seen \subseteq Accounts /\ First(seen) \in Accounts \cup {Nobody}
        BY <1>1, CallFacts, FirstOf
    <2>4. RefreshesTyped' /\ active' \in Accounts \cup {Nobody}
        BY <1>4, <2>2, <2>3, PartsKept DEF Typed, AppTyped
    <2>5. AppTyped'
        BY <2>2, <2>3, <2>4 DEF AppTyped
    <2>6. BehindTyped'
        BY <1>9 DEF AccountsAnswer, BehindTyped
    <2> QED BY <2>1, <2>2, <2>4, <2>5, <2>6, PartsKept DEF Typed, store, way
<1> QED BY <1>2, <1>3, <1>6, <1>7, <1>8, <1>9

LEMMA ChatsTypes ==
    ASSUME Typed, NEW s \in Refreshes, ReadChats(s) \/ ChatsAnswer(s)
    PROVE  Typed'
<1>1. Types
    BY TypesParts
<1>2. CASE ReadChats(s)
    <2>1. RefreshesTyped'
        BY <1>1, <1>2, ReadCall DEF RefreshesTyped
    <2> QED BY <1>2, <2>1, PartsKept DEF ReadChats, Typed, store, way, screen, history
<1>3. CASE ChatsAnswer(s)
    <2>1. /\ RefreshesTyped' /\ refreshes[s].account \in Accounts
          /\ view' = refreshes[s].seen
          /\ UNCHANGED <<store, way, listed, active, reloads, moves, behind>>
        BY <1>1, <1>3, AnswerCall DEF RefreshesTyped
    <2>2. ViewTyped'
        BY <1>1, <2>1, CallFacts DEF ViewTyped, Calling
    <2>3. /\ stale' \subseteq stale \cup ({refreshes[s].account} \X Chats) \cup ({active} \X Chats)
          /\ dropped' \subseteq dropped
        BY <1>3 DEF ChatsAnswer
    <2>4. HistoryTyped'
        BY <2>1, <2>3 DEF Typed, HistoryTyped, AppTyped
    <2> QED BY <2>1, <2>2, <2>4, PartsKept DEF Typed, store, way
<1> QED BY <1>2, <1>3

(* The cases of a step.                                                    *)
Step ==
    \/ \E w \in Writers, a \in Accounts, c \in Chats : Wrote(w, a, c)
    \/ \E w \in Writers : Logged(w)
    \/ \E w \in Writers : Publish(w)
    \/ \E a \in Accounts, c \in Chats : SentTouches(a, c)
    \/ Deliver
    \/ LoginView \/ Lagged \/ AddAccount \/ (\E a \in listed : Switch(a))
    \/ \E l \in Reloads : ReadAccounts(l) \/ AccountsAnswer(l)
    \/ \E s \in Refreshes : ReadChats(s) \/ ChatsAnswer(s)

LEMMA Steps == Types /\ Next => Step
<1> SUFFICES ASSUME Types, Next
             PROVE  Step
    OBVIOUS
<1>1. ASSUME NEW w \in Writers, Count(w) \/ Get(w)
      PROVE  \E a \in Accounts, c \in Chats : Wrote(w, a, c)
    <2> DEFINE e == task[w].event
    <2>1. e \in ChatRows
        BY <1>1, TaskFacts DEF Count, Get, Sound, IsChat
    <2>2. e.account \in Accounts /\ e.id \in Chats /\ RowOf(e) = <<e.account, e.id>>
        BY <2>1, ChatFacts
    <2>3. Wrote(w, e.account, e.id)
        BY <1>1, <2>2, WritesWrote
    <2> QED BY <2>2, <2>3
<1> QED BY <1>1, WritesWrote, LogsLogged DEF Next, Step

LEMMA TypesStep == Types /\ [Next]_vars => Types'
<1>1. ASSUME Types, Next PROVE Types'
    <2>1. Step /\ Typed
        BY <1>1, Steps, TypesParts
    <2>2. Typed'
        BY <2>1, WroteTypes, UntoldTypes, LoggedTypes, PublishTypes, DeliverTypes, AppTypes,
           ChatsTypes DEF Step
    <2> QED BY <2>2, TypesParts, PTL
<1>2. ASSUME Types, UNCHANGED vars PROVE Types'
    <2>1. Typed
        BY <1>2, TypesParts
    <2>2. Typed'
        BY <1>2, <2>1, PartsKept DEF Typed, vars, store, way, screen, calls, history
    <2> QED BY <2>2, TypesParts, PTL
<1> QED BY <1>1, <1>2

LEMMA TypesInit == Init => Types
<1> SUFFICES ASSUME Init PROVE Typed
    BY TypesParts
<1>1. StoreTyped
    <2>1. rows \in RowTypes
        BY DEF Init, RowTypes
    <2> QED BY <2>1, BoundAssumption DEF Init, StoreTyped
<1>2. TasksTyped
    BY ChatFacts DEF Init, TasksTyped, Tasks, Free, Sound
<1>3. BusTyped
    <2>1. bus = <<>> /\ missed = FALSE
        BY DEF Init
    <2>2. <<>> \in Seq(Events) /\ Len(<<>>) <= Capacity
        BY CapacityAssumption
    <2> QED BY <2>1, <2>2 DEF BusTyped
<1>4. AppTyped /\ ViewTyped /\ HistoryTyped
    BY DEF Init, AppTyped, ViewTyped, HistoryTyped
<1>5. RefreshesTyped
    BY DoneCall DEF Init, RefreshesTyped
<1>6. ReloadsTyped
    <2>1. Reading \in ReloadRec /\ NotReading \in ReloadRec
        BY DEF Reading, NotReading, ReloadRec
    <2> QED BY <2>1 DEF Init, ReloadsTyped
<1>7. BehindTyped
    BY DEF Init, BehindTyped
<1> QED BY <1>1, <1>2, <1>3, <1>4, <1>5, <1>6, <1>7 DEF Typed

(* TypeOK: the accounts, the rows and what is on screen have their types,  *)
(* and no chat is in the list twice.                                       *)
THEOREM TypeCorrect == Spec => []TypeOK
<1>1. Types => TypeOK
    BY DEF Types
<1> QED BY <1>1, TypesInit, TypesStep, PTL DEF Spec

-----------------------------------------------------------------------------
(* What is under way about a row.                                          *)

LEMMA WroteComing ==
    ASSUME Types, NEW w \in Writers, NEW a \in Accounts, NEW c \in Chats, Wrote(w, a, c),
           NEW row
    PROVE  /\ row = <<a, c>> => Awaited(row)'
           /\ row # <<a, c>> => (Awaited(row)' <=> Awaited(row))
           /\ Coming(row) => Coming(row)'
<1>1. /\ task'[w].at # "idle" /\ task'[w].event # AccountsChanged
      /\ RowOf(task'[w].event) = <<a, c>>
      /\ \A v \in Writers \ {w} : task'[v] = task[v]
      /\ task[w].at = "idle" \/ RowOf(task[w].event) = <<a, c>>
      /\ bus' = bus
    BY DEF Wrote, IsChat
<1>2. row = <<a, c>> => Awaited(row)'
    BY <1>1 DEF Awaited
<1>3. row # <<a, c>> => (Awaited(row)' <=> Awaited(row))
    BY <1>1 DEF Awaited
<1> QED BY <1>1, <1>2, <1>3 DEF Coming

LEMMA LoggedComing ==
    ASSUME Types, NEW w \in Writers, Logged(w), NEW row
    PROVE  /\ Awaited(row)' <=> Awaited(row)
           /\ Coming(row)' <=> Coming(row)
<1>1. Awaited(row)' <=> Awaited(row)
    BY DEF Logged, Awaited
<1> QED BY <1>1 DEF Logged, Coming

LEMMA PublishComing ==
    ASSUME Types, NEW w \in Writers, Publish(w), NEW row
    PROVE  /\ Awaited(row)' => Awaited(row)
           /\ Awaited(row) => \/ Awaited(row)'
                              \/ task[w].event # AccountsChanged /\ RowOf(task[w].event) = row
           /\ Coming(row) /\ row \notin dropped' => Coming(row)'
<1> DEFINE event == task[w].event
<1>1. /\ task[w].at = "publish" /\ task'[w].at = "idle"
      /\ \A v \in Writers \ {w} : task'[v] = task[v]
    BY PublishTask
<1>2. Awaited(row)' => Awaited(row)
    BY <1>1 DEF Awaited
<1>3. Awaited(row) => Awaited(row)' \/ (event # AccountsChanged /\ RowOf(event) = row)
    BY <1>1 DEF Awaited
<1>4. /\ Len(bus') \in Nat /\ Len(bus') > 0 /\ Len(bus) \in Nat /\ bus'[Len(bus')] = event
      /\ Len(bus) # Capacity =>
            Len(bus') = Len(bus) + 1 /\ \A i \in 1 .. Len(bus) : bus'[i] = bus[i]
      /\ Len(bus) = Capacity =>
            Len(bus') = Len(bus) /\ \A i \in 1 .. Len(bus) - 1 : bus'[i] = bus[i + 1]
      /\ dropped' = IF Len(bus) = Capacity /\ bus[1] # AccountsChanged
                    THEN dropped \cup {RowOf(bus[1])} ELSE dropped
    BY PublishBus, BusFacts
<1> HIDE DEF event
<1>5. event # AccountsChanged /\ RowOf(event) = row => OnBus(bus', row)
    <2>1. Len(bus') \in 1 .. Len(bus')
        BY <1>4
    <2> QED BY <1>4, <2>1 DEF OnBus
<1>6. ASSUME OnBus(bus, row), row \notin dropped'
      PROVE  OnBus(bus', row)
    <2>1. PICK i \in 1 .. Len(bus) : bus[i] # AccountsChanged /\ RowOf(bus[i]) = row
        BY <1>6 DEF OnBus
    <2>2. CASE Len(bus) # Capacity
        <3>1. i \in 1 .. Len(bus') /\ bus'[i] = bus[i]
            BY <1>4, <2>2
        <3> QED BY <2>1, <3>1 DEF OnBus
    <2>3. CASE Len(bus) = Capacity
        <3>1. i # 1
            BY <1>4, <1>6, <2>1, <2>3
        <3>2. i - 1 \in 1 .. Len(bus) - 1 /\ i - 1 \in 1 .. Len(bus') /\ (i - 1) + 1 = i
            BY <1>4, <2>3, <3>1
        <3>3. bus'[i - 1] = bus[i]
            BY <1>4, <2>3, <3>2
        <3> QED BY <2>1, <3>2, <3>3 DEF OnBus
    <2> QED BY <2>2, <2>3
<1> QED BY <1>2, <1>3, <1>5, <1>6 DEF Coming, event

LEMMA DeliverComing ==
    ASSUME Types, Deliver, NEW row
    PROVE  /\ Awaited(row)' <=> Awaited(row)
           /\ OnBus(bus', row) => OnBus(bus, row)
           /\ OnBus(bus, row) => \/ OnBus(bus', row)
                                 \/ bus[1] # AccountsChanged /\ RowOf(bus[1]) = row
           /\ bus[1] # AccountsChanged /\ RowOf(bus[1]) = row => OnBus(bus, row)
<1>1. /\ Len(bus) \in Nat /\ Len(bus) > 0 /\ Len(bus') = Len(bus) - 1
      /\ \A i \in 1 .. Len(bus') : i + 1 \in 1 .. Len(bus) /\ bus'[i] = bus[i + 1]
    BY DeliverBus, BusFacts
<1>2. Awaited(row)' <=> Awaited(row)
    BY DEF Deliver, Awaited
<1>3. OnBus(bus', row) => OnBus(bus, row)
    BY <1>1 DEF OnBus
<1>4. ASSUME OnBus(bus, row), ~ OnBus(bus', row)
      PROVE  bus[1] # AccountsChanged /\ RowOf(bus[1]) = row
    <2>1. PICK i \in 1 .. Len(bus) : bus[i] # AccountsChanged /\ RowOf(bus[i]) = row
        BY <1>4 DEF OnBus
    <2>2. CASE i # 1
        <3>1. i - 1 \in 1 .. Len(bus') /\ (i - 1) + 1 = i
            BY <1>1, <2>2
        <3>2. bus'[i - 1] = bus[i]
            BY <1>1, <3>1
        <3> QED BY <1>4, <2>1, <3>1, <3>2 DEF OnBus
    <2> QED BY <2>1, <2>2
<1>5. bus[1] # AccountsChanged /\ RowOf(bus[1]) = row => OnBus(bus, row)
    <2>1. 1 \in 1 .. Len(bus)
        BY <1>1
    <2> QED BY <2>1 DEF OnBus
<1> QED BY <1>2, <1>3, <1>4, <1>5

LEMMA SameComing ==
    ASSUME UNCHANGED <<task, bus>>, NEW row
    PROVE  /\ Awaited(row)' <=> Awaited(row)
           /\ Coming(row)' <=> Coming(row)
BY DEF Awaited, OnBus, Coming

-----------------------------------------------------------------------------
(* LastSays.                                                               *)

LEMMA LastSaysInit == Init => LastSays
BY DEF Init, LastSays

(* The row of a stale one, or of one with nothing under way, may change.   *)
LEMMA LastSaysKept ==
    ASSUME Types, LastSays, UNCHANGED bus,
           \A row \in Rows \ stale' : ~ Awaited(row)' /\ OnBus(bus, row) =>
                /\ ~ Awaited(row) /\ row \notin stale
                /\ rows'[row[1]][row[2]] = rows[row[1]][row[2]]
    PROVE  LastSays'
<1> SUFFICES ASSUME NEW row \in Rows \ stale', ~ Awaited(row)',
                    NEW i \in 1 .. Len(bus),
                    bus[i] # AccountsChanged, RowOf(bus[i]) = row, Last(bus, i)
             PROVE  bus[i].version = rows'[row[1]][row[2]]
    BY DEF LastSays, Last
<1>1. OnBus(bus, row)
    BY DEF OnBus
<1> QED BY <1>1 DEF LastSays

LEMMA WroteLastSays ==
    ASSUME Types, LastSays, NEW w \in Writers, NEW a \in Accounts, NEW c \in Chats,
           Wrote(w, a, c)
    PROVE  LastSays'
<1>1. bus' = bus /\ stale' = stale
    BY DEF Wrote, history
<1>2. ASSUME NEW row \in Rows \ stale', ~ Awaited(row)'
      PROVE  ~ Awaited(row) /\ rows'[row[1]][row[2]] = rows[row[1]][row[2]]
    <2>1. row # <<a, c>> /\ ~ Awaited(row)
        BY <1>2, WroteComing
    <2>2. row[1] \in Accounts /\ row[2] \in Chats /\ row = <<row[1], row[2]>>
        BY DEF Rows
    <2> QED BY <2>1, <2>2 DEF Wrote
<1> QED BY <1>1, <1>2, LastSaysKept

LEMMA UntoldLastSays ==
    ASSUME Types, LastSays, NEW a \in Accounts, NEW c \in Chats, SentTouches(a, c)
    PROVE  LastSays'
<1>1. UNCHANGED <<task, bus>> /\ stale' = stale \cup {<<a, c>>}
    BY DEF SentTouches, way
<1>2. ASSUME NEW row \in Rows \ stale'
      PROVE  row \notin stale /\ rows'[row[1]][row[2]] = rows[row[1]][row[2]]
    <2>1. row[1] \in Accounts /\ row[2] \in Chats /\ row = <<row[1], row[2]>> /\ row # <<a, c>>
        BY <1>1 DEF Rows
    <2> QED BY <1>1, <2>1, ChangedRows DEF SentTouches
<1> QED BY <1>1, <1>2, SameComing, LastSaysKept

LEMMA PublishLastSays ==
    ASSUME Types, LastSays, NEW w \in Writers, Publish(w)
    PROVE  LastSays'
<1> DEFINE event == task[w].event
           n == Len(bus')
<1>1. /\ n \in Nat /\ n > 0 /\ bus'[n] = event /\ Len(bus) \in Nat
      /\ Len(bus) # Capacity => n = Len(bus) + 1 /\ \A i \in 1 .. Len(bus) : bus'[i] = bus[i]
      /\ Len(bus) = Capacity => n = Len(bus) /\ \A i \in 1 .. Len(bus) - 1 : bus'[i] = bus[i + 1]
      /\ stale' = Told(event)
    BY PublishBus, BusFacts
<1>2. rows' = rows /\ event \in Events
    BY PublishTask DEF store
<1> HIDE DEF event
<1>3. SUFFICES ASSUME NEW row \in Rows \ stale', ~ Awaited(row)', NEW i \in 1 .. n,
                      bus'[i] # AccountsChanged, RowOf(bus'[i]) = row, Last(bus', i)
               PROVE  bus'[i].version = rows[row[1]][row[2]]
    BY <1>2 DEF LastSays, Last
<1>4. row \notin stale
    BY <1>1, <1>3 DEF Told
<1>5. CASE event # AccountsChanged /\ RowOf(event) = row
    <2>1. i = n
        BY <1>1, <1>3, <1>5 DEF Last
    <2>2. row[1] = event.account /\ row[2] = event.id
        BY <1>5 DEF RowOf
    <2> QED BY <1>1, <1>3, <1>5, <2>1, <2>2 DEF Told
<1>6. CASE event = AccountsChanged \/ RowOf(event) # row
    <2>1. i # n /\ i \in 1 .. n - 1
        BY <1>1, <1>3, <1>6
    <2>2. ~ Awaited(row)
        BY <1>3, <1>6, PublishComing DEF event
    <2>3. CASE Len(bus) # Capacity
        <3>1. i \in 1 .. Len(bus) /\ bus'[i] = bus[i]
            BY <1>1, <2>1, <2>3
        <3>2. \A j \in i + 1 .. Len(bus) : j \in i + 1 .. n /\ bus'[j] = bus[j]
            BY <1>1, <2>1, <2>3
        <3>3. Last(bus, i)
            BY <1>3, <3>1, <3>2 DEF Last
        <3> QED BY <1>3, <1>4, <2>2, <3>1, <3>3 DEF LastSays
    <2>4. CASE Len(bus) = Capacity
        <3>1. i \in 1 .. Len(bus) - 1 /\ i + 1 \in 1 .. Len(bus) /\ bus'[i] = bus[i + 1]
            BY <1>1, <2>1, <2>4
        <3>2. ASSUME NEW j \in (i + 1) + 1 .. Len(bus)
              PROVE  j - 1 \in i + 1 .. n /\ bus'[j - 1] = bus[j]
            <4>1. j - 1 \in 1 .. Len(bus) - 1 /\ j - 1 \in i + 1 .. n /\ (j - 1) + 1 = j
                BY <1>1, <2>1, <2>4, <3>2
            <4> QED BY <1>1, <2>4, <4>1
        <3>3. Last(bus, i + 1)
            BY <1>3, <3>1, <3>2 DEF Last
        <3> QED BY <1>3, <1>4, <2>2, <3>1, <3>3 DEF LastSays
    <2> QED BY <2>3, <2>4
<1> QED BY <1>5, <1>6

LEMMA DeliverLastSays ==
    ASSUME Types, LastSays, Deliver
    PROVE  LastSays'
<1>1. /\ Len(bus) \in Nat /\ Len(bus) > 0 /\ Len(bus') = Len(bus) - 1
      /\ bus' = Tail(bus) /\ Head(bus) = bus[1]
      /\ \A i \in 1 .. Len(bus') : i + 1 \in 1 .. Len(bus) /\ bus'[i] = bus[i + 1]
    BY DeliverBus, BusFacts
<1>2. rows' = rows /\ task' = task
    BY DEF Deliver, store
<1> SUFFICES ASSUME NEW row \in Rows \ stale', ~ Awaited(row)', NEW i \in 1 .. Len(bus'),
                    bus'[i] # AccountsChanged, RowOf(bus'[i]) = row, Last(bus', i)
             PROVE  bus'[i].version = rows[row[1]][row[2]]
    BY <1>2 DEF LastSays, Last
<1>3. OnBus(Tail(bus), row)
    BY <1>1 DEF OnBus
<1>4. row \notin stale
    BY <1>1, <1>3 DEF Deliver, ChatUpdated
<1>5. ~ Awaited(row)
    BY DeliverComing
<1>6. i + 1 \in 1 .. Len(bus) /\ bus'[i] = bus[i + 1]
    BY <1>1
<1>7. ASSUME NEW j \in (i + 1) + 1 .. Len(bus)
      PROVE  j - 1 \in i + 1 .. Len(bus') /\ bus'[j - 1] = bus[j]
    <2>1. j - 1 \in i + 1 .. Len(bus') /\ j - 1 \in 1 .. Len(bus') /\ (j - 1) + 1 = j
        BY <1>1, <1>7
    <2> QED BY <1>1, <2>1
<1>8. Last(bus, i + 1)
    BY <1>6, <1>7 DEF Last
<1> QED BY <1>4, <1>5, <1>6, <1>8 DEF LastSays

LEMMA AnswerLastSays ==
    ASSUME Types, LastSays, NEW s \in Refreshes, ChatsAnswer(s)
    PROVE  LastSays'
<1>1. UNCHANGED <<rows, task, bus>>
    BY DEF ChatsAnswer, store, way
<1>2. ASSUME NEW row \in Rows \ stale', OnBus(bus, row)
      PROVE  row \notin stale
    BY <1>2 DEF ChatsAnswer, Coming
<1> QED BY <1>1, <1>2, SameComing, LastSaysKept

LEMMA LastSaysStep == Types /\ LastSays /\ [Next]_vars => LastSays'
<1> SUFFICES ASSUME Types, LastSays, [Next]_vars
             PROVE  LastSays'
    OBVIOUS
<1>1. CASE \/ \E w \in Writers, a \in Accounts, c \in Chats : Wrote(w, a, c)
           \/ \E w \in Writers : Publish(w)
           \/ \E a \in Accounts, c \in Chats : SentTouches(a, c)
           \/ Deliver
           \/ \E s \in Refreshes : ChatsAnswer(s)
    BY <1>1, WroteLastSays, PublishLastSays, UntoldLastSays, DeliverLastSays, AnswerLastSays
<1>2. ASSUME NEW w \in Writers, Logged(w)
      PROVE  LastSays'
    <2>1. UNCHANGED <<rows, bus, stale>>
        BY <1>2 DEF Logged, history
    <2> QED BY <1>2, <2>1, LoggedComing, LastSaysKept
<1>3. CASE \/ LoginView \/ Lagged \/ AddAccount \/ (\E a \in listed : Switch(a))
           \/ \E l \in Reloads : ReadAccounts(l) \/ AccountsAnswer(l)
           \/ \E s \in Refreshes : ReadChats(s)
           \/ UNCHANGED vars
    <2>1. UNCHANGED <<rows, task, bus, stale>>
        BY <1>3 DEF LoginView, Lagged, AddAccount, Switch, ReadAccounts, AccountsAnswer, ReadChats,
                    vars, store, way, history
    <2> QED BY <2>1, SameComing, LastSaysKept
<1> QED BY <1>1, <1>2, <1>3, Steps DEF Step

-----------------------------------------------------------------------------
(* The chats on screen.                                                    *)

(* What the list has of a chat is what the row of an account is.           *)
Fits(chats, a, c) ==
    IF rows[a][c] = 0 THEN {x \in chats : x.id = c} = {}
    ELSE {x \in chats : x.id = c} = {Row(a, c)}

LEMMA MatchesFits ==
    ASSUME Types, active \in Accounts, NEW c \in Chats
    PROVE  Matches(c) <=> Fits(view, active, c)
BY ListFacts DEF Matches, Fits

ActiveShown(a, c) ==
    <<a, c>> \notin stale \cup dropped => Coming(<<a, c>>) \/ Fits(view, a, c)

ShownAs(a) == Asked \/ \A c \in Chats : ActiveShown(a, c)

ShownHere == active # Nobody => ShownAs(active)

LEMMA ShownFacts == Types => (Shown <=> ShownHere)
<1> SUFFICES ASSUME Types, active # Nobody
             PROVE  Shown <=> ShownAs(active)
    BY DEF Shown, ShownHere
<1>1. active \in Accounts
    BY DEF Types, TypeOK
<1> QED BY <1>1, MatchesFits DEF Shown, ShownAs, ActiveShown

(* The row, its place and what is under way are left alone.                *)
LEMMA ShownKept ==
    ASSUME NEW a \in Accounts, NEW c \in Chats, ActiveShown(a, c),
           stale \subseteq stale', dropped \subseteq dropped',
           view' = view, rows'[a][c] = rows[a][c],
           Coming(<<a, c>>) /\ <<a, c>> \notin dropped' => Coming(<<a, c>>)'
    PROVE  ActiveShown(a, c)'
BY DEF ActiveShown, Fits, Row

LEMMA AskedKept ==
    UNCHANGED <<active, refreshes>> => (Asked' <=> Asked)
BY DEF Asked

LEMMA ShownNext == Types' => (Shown' <=> (active' # Nobody => ShownAs(active)'))
<1>1. Types' => (Shown' <=> ShownHere')
    BY ShownFacts, PTL
<1> QED BY <1>1 DEF ShownHere

LEMMA ShownAfter ==
    ASSUME Types', UNCHANGED <<active, refreshes>>, NEW k \in Accounts \cup {Nobody}, k = active,
           k \in Accounts /\ ~ Asked => \A d \in Chats : ActiveShown(k, d)'
    PROVE  Shown'
<1>1. k \in Accounts /\ ~ Asked => ShownAs(active)'
    BY DEF ShownAs, ActiveShown, Coming, Awaited, Fits, Row
<1>2. Asked => ShownAs(active)'
    BY AskedKept DEF ShownAs
<1> QED BY <1>1, <1>2, ShownNext

(* A writer's step.                                                        *)
LEMMA WritersShown ==
    ASSUME Types, Types', Shown,
           \/ \E w \in Writers, a \in Accounts, c \in Chats : Wrote(w, a, c)
           \/ \E w \in Writers : Logged(w) \/ Publish(w)
           \/ \E a \in Accounts, c \in Chats : SentTouches(a, c)
    PROVE  Shown'
<1>1. UNCHANGED <<active, view, refreshes>>
    <2>1. ASSUME NEW w \in Writers, Publish(w)
          PROVE  UNCHANGED <<active, view, refreshes>>
        BY <2>1, PublishTask DEF screen, calls
    <2> QED BY <2>1 DEF Wrote, Logged, SentTouches, screen, calls
<1>2. PICK k \in Accounts \cup {Nobody} : k = active
    BY DEF Types, TypeOK
<1>3. SUFFICES ASSUME k \in Accounts, ~ Asked, NEW d \in Chats
               PROVE  ActiveShown(k, d)'
    BY <1>1, <1>2, ShownAfter
<1>4. ActiveShown(k, d)
    BY <1>2, <1>3, ChatFacts, ShownFacts DEF ShownHere, ShownAs
<1>5. ASSUME NEW w \in Writers, NEW a \in Accounts, NEW c \in Chats, Wrote(w, a, c)
      PROVE  ActiveShown(k, d)'
    <2>1. UNCHANGED <<stale, dropped>>
        BY <1>5 DEF Wrote, history
    <2>2. CASE <<k, d>> = <<a, c>>
        BY <1>5, <2>2, WroteComing DEF ActiveShown, Coming
    <2>3. CASE <<k, d>> # <<a, c>>
        <3>1. rows'[k][d] = rows[k][d]
            BY <1>3, <1>5, <2>3 DEF Wrote
        <3> QED BY <1>1, <1>3, <1>4, <1>5, <2>1, <3>1, WroteComing, ShownKept
    <2> QED BY <2>2, <2>3
<1>6. ASSUME NEW w \in Writers, Logged(w)
      PROVE  ActiveShown(k, d)'
    <2>1. UNCHANGED <<rows, stale, dropped>>
        BY <1>6 DEF Logged, history
    <2> QED BY <1>1, <1>3, <1>4, <1>6, <2>1, LoggedComing, ShownKept
<1>7. ASSUME NEW w \in Writers, Publish(w)
      PROVE  ActiveShown(k, d)'
    <2>1. rows' = rows
        BY <1>7, PublishTask DEF store
    <2>2. stale \subseteq stale' /\ dropped \subseteq dropped'
        BY <1>7, PublishBus DEF Told
    <2> QED BY <1>1, <1>3, <1>4, <1>7, <2>1, <2>2, PublishComing, ShownKept
<1>8. ASSUME NEW a \in Accounts, NEW c \in Chats, SentTouches(a, c)
      PROVE  ActiveShown(k, d)'
    <2>1. /\ stale' = stale \cup {<<a, c>>} /\ dropped' = dropped
          /\ UNCHANGED <<task, bus>>
        BY <1>8 DEF SentTouches, way
    <2>2. CASE <<k, d>> = <<a, c>>
        BY <2>1, <2>2 DEF ActiveShown
    <2>3. CASE <<k, d>> # <<a, c>>
        <3>1. rows'[k][d] = rows[k][d]
            BY <1>3, <1>8, <2>3, ChangedRows DEF SentTouches
        <3> QED BY <1>1, <1>3, <1>4, <2>1, <3>1, SameComing, ShownKept
    <2> QED BY <2>2, <2>3
<1> QED BY <1>5, <1>6, <1>7, <1>8

LEMMA DeliverShown ==
    ASSUME Types, Types', LastSays, Shown, Deliver
    PROVE  Shown'
<1> DEFINE chat == bus[1]
<1>1. /\ UNCHANGED <<rows, active, refreshes, task>>
      /\ \/ chat = AccountsChanged /\ UNCHANGED <<view, stale, dropped>>
         \/ chat # AccountsChanged /\ ChatUpdated(chat)
      /\ chat \in Events /\ bus' = Tail(bus)
    BY DeliverBus DEF Deliver, store
<1>2. PICK k \in Accounts \cup {Nobody} : k = active
    BY DEF Types, TypeOK
<1>3. SUFFICES ASSUME k \in Accounts, ~ Asked, NEW d \in Chats
               PROVE  ActiveShown(k, d)'
    BY <1>1, <1>2, ShownAfter
<1>4. ActiveShown(k, d)
    BY <1>2, <1>3, ChatFacts, ShownFacts DEF ShownHere, ShownAs
<1>5. CASE chat = AccountsChanged /\ UNCHANGED <<view, stale, dropped>>
    <2>1. Coming(<<k, d>>) => Coming(<<k, d>>)'
        BY <1>5, DeliverComing DEF Coming
    <2> QED BY <1>1, <1>3, <1>4, <1>5, <2>1, ShownKept
<1>6. CASE chat # AccountsChanged /\ ChatUpdated(chat)
    <2> DEFINE row == RowOf(chat)
               settled == IF /\ chat.version = rows[chat.account][chat.id]
                             /\ ~ Awaited(row) /\ ~ OnBus(Tail(bus), row)
                          THEN {row} ELSE {}
    <2>1. /\ view' = {x \in view : x.id # chat.id} \cup {chat}
          /\ stale' = (stale \ settled) \cup (IF chat.account # k THEN {k} \X {chat.id} ELSE {})
          /\ dropped' = dropped \ settled
        BY <1>2, <1>6 DEF ChatUpdated, After
    <2>2. /\ chat \in ChatRows /\ chat.account \in Accounts /\ chat.id \in Chats
          /\ chat.version # 0 /\ row = <<chat.account, chat.id>>
        BY <1>1, <1>6, ChatFacts
    <2>3. CASE chat.id # d
        <3>1. <<k, d>> # row /\ {x \in view' : x.id = d} = {x \in view : x.id = d}
            BY <2>1, <2>2, <2>3
        <3>2. <<k, d>> \notin settled
            BY <3>1
        <3> HIDE DEF settled, row
        <3>3. <<k, d>> \in stale \cup dropped => <<k, d>> \in stale' \cup dropped'
            BY <2>1, <3>2
        <3>4. Coming(<<k, d>>) => Coming(<<k, d>>)'
            BY <1>6, <3>1, DeliverComing DEF Coming, row
        <3> QED BY <1>1, <1>4, <3>1, <3>3, <3>4 DEF ActiveShown, Fits, Row
    <2>4. CASE chat.id = d /\ chat.account # k
        BY <2>1, <2>4 DEF ActiveShown
    <2>5. CASE chat.id = d /\ chat.account = k
        <3>1. SUFFICES ASSUME <<k, d>> \notin stale', <<k, d>> \notin dropped',
                              ~ Coming(<<k, d>>)'
                       PROVE  Fits(view, k, d)'
            BY DEF ActiveShown
        <3>2. row = <<k, d>> /\ ~ Awaited(row) /\ ~ OnBus(Tail(bus), row)
            BY <1>1, <2>2, <2>5, <3>1, DeliverComing DEF Coming
        <3>3. chat.version = rows[k][d]
            <4>1. CASE row \in stale
                <5>1. row \in settled
                    BY <2>1, <3>1, <3>2, <4>1
                <5> QED BY <2>5, <5>1
            <4>2. CASE row \notin stale
                <5>1. /\ Len(bus) \in Nat /\ Len(bus) > 0 /\ Len(bus') = Len(bus) - 1
                      /\ \A i \in 1 .. Len(bus') : bus'[i] = bus[i + 1]
                    BY DeliverBus, BusFacts
                <5>2. ASSUME NEW j \in 1 + 1 .. Len(bus), bus[j] # AccountsChanged
                      PROVE  RowOf(bus[j]) # row
                    <6>1. j - 1 \in 1 .. Len(bus') /\ (j - 1) + 1 = j
                        BY <5>1
                    <6>2. bus'[j - 1] = bus[j]
                        BY <5>1, <6>1
                    <6> QED BY <1>1, <3>2, <5>2, <6>1, <6>2 DEF OnBus
                <5>3. 1 \in 1 .. Len(bus) /\ Last(bus, 1)
                    BY <5>1, <5>2 DEF Last
                <5>4. row \in Rows /\ row[1] = k /\ row[2] = d
                    BY <1>3, <3>2 DEF Rows
                <5> HIDE DEF row
                <5> QED BY <1>6, <3>2, <4>2, <5>3, <5>4 DEF LastSays, row
            <4> QED BY <4>1, <4>2
        <3>4. chat = Row(k, d)
            BY <2>2, <2>5, <3>3 DEF Row, ChatRows
        <3>5. {x \in view' : x.id = d} = {chat}
            BY <2>1, <2>5
        <3> QED BY <1>1, <2>2, <3>3, <3>4, <3>5 DEF Fits, Row
    <2> QED BY <2>3, <2>4, <2>5
<1> QED BY <1>1, <1>5, <1>6

LEMMA AnswerShown ==
    ASSUME Types, Types', Shown, NEW s \in Refreshes, ChatsAnswer(s)
    PROVE  Shown'
<1> DEFINE call == refreshes[s]
           own == {call.account} \X Chats
           read == {row \in own : {x \in call.seen : x.id = row[2]} =
                                  {x \in List(call.account) : x.id = row[2]}}
<1>1. /\ call.account \in Accounts /\ view' = call.seen
      /\ UNCHANGED <<rows, task, bus, active>>
    BY AnswerCall DEF store, way
<1>2. CASE call.account = active
    <2>1. stale' = {row \in stale : row \notin own \/ Coming(row)}
                        \cup {row \in own \ read : ~ Coming(row)}
        BY <1>2 DEF ChatsAnswer
    <2>2. ASSUME NEW d \in Chats, <<active, d>> \notin stale', ~ Coming(<<active, d>>)'
          PROVE  Fits(view, active, d)'
        <3>1. <<active, d>> \in own /\ ~ Coming(<<active, d>>)
            BY <1>1, <1>2, <2>2, SameComing
        <3>2. <<active, d>> \in read
            BY <2>1, <2>2, <3>1
        <3>3. {x \in view' : x.id = d} = {x \in List(active) : x.id = d}
            BY <1>1, <1>2, <3>2
        <3> HIDE DEF own, read, call
        <3> QED BY <1>1, <1>2, <3>3, ListFacts DEF Fits, Row, call
    <2> HIDE DEF own, read, call
    <2>3. ShownAs(active)'
        BY <1>1, <2>2 DEF ShownAs, ActiveShown, Coming, Awaited, Fits, Row
    <2> QED BY <2>3, ShownNext
<1>3. CASE call.account # active
    <2>1. {active} \X Chats \subseteq stale'
        BY <1>3 DEF ChatsAnswer
    <2>2. \A d \in Chats : <<active', d>> \in stale'
        BY <1>1, <2>1
    <2>3. ShownAs(active)'
        BY <2>2 DEF ShownAs, ActiveShown
    <2> QED BY <2>3, ShownNext
<1> QED BY <1>2, <1>3

(* The account on screen is another one, and its chats are asked for.      *)
LEMMA ActivateShown ==
    ASSUME Types, Types', NEW a \in Accounts \cup {Nobody}, Activate(a)
    PROVE  Shown'
<1>1. active' # Nobody => Asked'
    BY Activated
<1>2. active' # Nobody => ShownAs(active)'
    BY <1>1 DEF ShownAs
<1> QED BY <1>2, ShownNext

LEMMA ShownStep == Types /\ LastSays /\ Shown /\ [Next]_vars => Shown'
<1> SUFFICES ASSUME Types, LastSays, Shown, [Next]_vars
             PROVE  Shown'
    OBVIOUS
<1>1. Types'
    BY TypesStep
<1>2. PICK k \in Accounts \cup {Nobody} : k = active
    BY DEF Types, TypeOK
<1>3. k \in Accounts /\ ~ Asked => \A d \in Chats : ActiveShown(k, d)
    BY <1>2, ChatFacts, ShownFacts DEF ShownHere, ShownAs
<1>4. ASSUME UNCHANGED <<rows, task, bus, active, view, stale, dropped>>,
             Asked => Asked'
      PROVE  Shown'
    <2>1. k \in Accounts /\ ~ Asked => ShownAs(active)'
        BY <1>2, <1>3, <1>4 DEF ShownAs, ActiveShown, Coming, Awaited, Fits, Row
    <2>2. Asked => ShownAs(active)'
        BY <1>4 DEF ShownAs
    <2> QED BY <1>1, <1>2, <1>4, <2>1, <2>2, ShownNext
<1>5. CASE \/ \E w \in Writers, a \in Accounts, c \in Chats : Wrote(w, a, c)
           \/ \E w \in Writers : Logged(w) \/ Publish(w)
           \/ \E a \in Accounts, c \in Chats : SentTouches(a, c)
    BY <1>1, <1>5, WritersShown
<1>6. CASE Deliver
    BY <1>1, <1>6, DeliverShown
<1>7. CASE \E s \in Refreshes : ChatsAnswer(s)
    BY <1>1, <1>7, AnswerShown
<1>8. CASE AddAccount \/ (\E a \in listed : Switch(a))
    <2>1. PICK a \in Accounts \cup {Nobody} : Activate(a)
        BY <1>8 DEF AddAccount, Switch, Types, TypeOK
    <2> QED BY <1>1, <2>1, ActivateShown
<1>9. ASSUME NEW l \in Reloads, AccountsAnswer(l)
      PROVE  Shown'
    <2> DEFINE seen == reloads[l].seen
    <2>1. seen \in SUBSET Accounts /\ First(seen) \in Accounts \cup {Nobody}
        BY CallFacts, FirstOf
    <2>2. CASE active \notin seen
        <3>1. Activate(First(seen))
            BY <1>9, <2>2 DEF AccountsAnswer
        <3> QED BY <1>1, <2>1, <3>1, ActivateShown
    <2>3. CASE active \in seen
        <3>1. UNCHANGED <<rows, task, bus, active, refreshes, view, stale, dropped>>
            BY <1>9, <2>3 DEF AccountsAnswer, store, way
        <3> QED BY <1>4, <3>1, AskedKept
    <2> QED BY <2>2, <2>3
<1>10. ASSUME NEW s \in Refreshes, ReadChats(s)
       PROVE  Shown'
    <2>1. UNCHANGED <<rows, task, bus, active, view, stale, dropped>>
        BY <1>10 DEF ReadChats, store, way, screen, history
    <2>2. Asked => Asked'
        BY <1>10, <2>1, ReadCall DEF Asked
    <2> QED BY <1>4, <2>1, <2>2
<1>11. CASE \/ LoginView \/ Lagged \/ (\E l \in Reloads : ReadAccounts(l))
            \/ UNCHANGED vars
    <2>1. UNCHANGED <<rows, task, bus, active, refreshes, view, stale, dropped>>
        BY <1>11 DEF LoginView, Lagged, ReadAccounts, vars, store, way, screen, calls, history
    <2> QED BY <1>4, <2>1, AskedKept
<1> QED BY <1>5, <1>6, <1>7, <1>8, <1>9, <1>10, <1>11, Steps DEF Step

LEMMA ListInit == Init => ListInv
BY LastSaysInit DEF Init, ListInv, Shown

LEMMA QuietFacts ==
    ASSUME Quiet
    PROVE  ~ Asked /\ \A row : ~ Coming(row)
BY DEF Quiet, Idle, Asked, Coming, Awaited, OnBus

(* ListMatchesStore: once nothing is under way, each chat on screen is the *)
(* row that the account on screen has of it, but for a row of which the    *)
(* list was not rightly told and one of which the ring dropped an event.   *)
THEOREM ListShowsStore == Spec => []ListMatchesStore
<1>1. Init => Types /\ ListInv
    BY TypesInit, ListInit
<1>2. Types /\ ListInv /\ [Next]_vars => (Types /\ ListInv)'
    BY TypesStep, LastSaysStep, ShownStep DEF ListInv
<1>3. ListInv => ListMatchesStore
    BY QuietFacts DEF ListInv, Shown, ListMatchesStore
<1> QED BY <1>1, <1>2, <1>3, PTL DEF Spec

-----------------------------------------------------------------------------
(* The account on screen.                                                  *)

Known == listed \subseteq authorized /\ active \in authorized \cup {Nobody}

(* What Telling says, as the steps change it.                              *)
ToPublish == \E w \in Writers : task[w].at = "publish" /\ task[w].event = AccountsChanged
Published == \E i \in 1 .. Len(bus) : bus[i] = AccountsChanged
ToRead == \E l \in Reloads : \/ reloads[l].at = "read"
                             \/ reloads[l].at = "answer" /\ reloads[l].seen \subseteq authorized

LEMMA TellingParts ==
    /\ Telling <=> missed \/ ToPublish \/ Published \/ ToRead
    /\ Telling' <=> missed' \/ ToPublish' \/ Published' \/ ToRead'
<1>1. Telling <=> missed \/ ToPublish \/ Published \/ ToRead
    BY DEF Telling, ToPublish, Published, ToRead
<1> QED BY <1>1, PTL

(* Nothing of it is lost.                                                  *)
LEMMA KnownKept ==
    ASSUME KnownInv, behind' = behind, Telling => Telling',
           Known => Known' \/ Telling'
    PROVE  KnownInv'
BY DEF KnownInv, Known

LEMMA TellingKept ==
    ASSUME UNCHANGED <<missed, task, bus, reloads>>, authorized \subseteq authorized'
    PROVE  Telling => Telling'
<1>1. (ToPublish => ToPublish') /\ (Published => Published') /\ (ToRead => ToRead')
    BY DEF ToPublish, Published, ToRead
<1> QED BY <1>1, TellingParts

LEMMA LoggedKnown ==
    ASSUME Types, KnownInv, NEW w \in Writers, Logged(w)
    PROVE  KnownInv'
<1>1. UNCHANGED <<bus, missed, listed, active, reloads, behind>>
    BY DEF Logged, screen, calls, history
<1>2. CASE task' = task
    <2>1. authorized \subseteq authorized'
        BY <1>2 DEF Logged
    <2>2. Known => Known'
        BY <1>1, <2>1 DEF Known
    <2> QED BY <1>1, <1>2, <2>1, <2>2, TellingKept, KnownKept
<1>3. CASE task'[w].at = "publish" /\ task'[w].event = AccountsChanged
    <2>1. ToPublish'
        BY <1>3 DEF ToPublish
    <2> QED BY <1>1, <2>1, TellingParts, KnownKept
<1> QED BY <1>2, <1>3 DEF Logged

LEMMA PublishKnown ==
    ASSUME Types, KnownInv, NEW w \in Writers, Publish(w)
    PROVE  KnownInv'
<1> DEFINE event == task[w].event
<1>1. /\ task'[w].at = "idle" /\ \A v \in Writers \ {w} : task'[v] = task[v]
      /\ UNCHANGED <<authorized, listed, active, reloads, behind>>
    BY PublishTask DEF store, screen, calls
<1>2. /\ Len(bus') \in Nat /\ Len(bus') > 0 /\ Len(bus) \in Nat /\ bus'[Len(bus')] = event
      /\ Len(bus) # Capacity =>
            Len(bus') = Len(bus) + 1 /\ \A i \in 1 .. Len(bus) : bus'[i] = bus[i]
      /\ Len(bus) = Capacity => missed'
      /\ missed => missed'
    BY PublishBus, BusFacts
<1> HIDE DEF event
<1>3. event = AccountsChanged => Published'
    <2>1. Len(bus') \in 1 .. Len(bus')
        BY <1>2
    <2> QED BY <1>2, <2>1 DEF Published
<1>4. ToPublish => ToPublish' \/ Published'
    BY <1>1, <1>3 DEF ToPublish, event
<1>5. Published => Published' \/ missed'
    <2>1. Len(bus) # Capacity => \A i \in 1 .. Len(bus) : i \in 1 .. Len(bus') /\ bus'[i] = bus[i]
        BY <1>2
    <2> QED BY <1>2, <2>1 DEF Published
<1>6. ToRead => ToRead'
    BY <1>1 DEF ToRead
<1>7. Known => Known'
    BY <1>1 DEF Known
<1>8. missed => missed'
    BY <1>2
<1>9. Telling => Telling'
    BY <1>4, <1>5, <1>6, <1>8, TellingParts
<1> QED BY <1>1, <1>7, <1>9, KnownKept

LEMMA DeliverKnown ==
    ASSUME Types, KnownInv, Deliver
    PROVE  KnownInv'
<1>1. /\ UNCHANGED <<authorized, task, missed, listed, active, behind>>
      /\ \/ bus[1] = AccountsChanged /\ Reload
         \/ bus[1] # AccountsChanged /\ UNCHANGED reloads
      /\ Len(bus) \in Nat /\ Len(bus) > 0 /\ Len(bus') = Len(bus) - 1
      /\ \A i \in 1 .. Len(bus') : bus'[i] = bus[i + 1]
    BY DeliverBus, BusFacts DEF Deliver, ChatUpdated, store
<1>2. Known => Known'
    BY <1>1 DEF Known
<1>3. CASE bus[1] = AccountsChanged /\ Reload
    <2>1. ToRead'
        BY <1>3, ReloadCall DEF ToRead
    <2> QED BY <1>1, <2>1, TellingParts, KnownKept
<1>4. CASE bus[1] # AccountsChanged /\ UNCHANGED reloads
    <2>1. ASSUME NEW i \in 1 .. Len(bus), bus[i] = AccountsChanged
          PROVE  Published'
        <3>1. i - 1 \in 1 .. Len(bus') /\ (i - 1) + 1 = i
            BY <1>1, <1>4, <2>1
        <3> QED BY <1>1, <2>1, <3>1 DEF Published
    <2>2. (Published => Published') /\ (ToPublish => ToPublish') /\ (ToRead => ToRead')
        BY <1>1, <1>4, <2>1 DEF Published, ToPublish, ToRead
    <2>3. missed => missed'
        BY <1>1
    <2>4. Telling => Telling'
        BY <2>2, <2>3, TellingParts
    <2> QED BY <1>1, <1>2, <2>4, KnownKept
<1> QED BY <1>1, <1>3, <1>4

LEMMA AnswerKnown ==
    ASSUME Types, KnownInv, NEW l \in Reloads, AccountsAnswer(l)
    PROVE  KnownInv'
<1> DEFINE seen == reloads[l].seen
<1>1. /\ listed' = seen /\ authorized' = authorized
      /\ (active \in seen /\ active' = active) \/ active' = First(seen)
      /\ behind' = (~ (seen \subseteq authorized) /\ ~ Telling')
    BY DEF AccountsAnswer, Activate, store
<1>2. seen \in SUBSET Accounts /\ First(seen) \in seen \cup {Nobody}
    BY CallFacts, FirstOf
<1>3. seen \subseteq authorized => Known'
    BY <1>1, <1>2 DEF Known
<1>4. ~ behind' => seen \subseteq authorized \/ Telling'
    BY <1>1
<1> QED BY <1>3, <1>4 DEF KnownInv, Known

LEMMA KnownStep == Types /\ KnownInv /\ [Next]_vars => KnownInv'
<1> SUFFICES ASSUME Types, KnownInv, [Next]_vars
             PROVE  KnownInv'
    OBVIOUS
<1>1. ASSUME UNCHANGED <<authorized, behind>>, Telling => Telling', Known => Known' \/ Telling'
      PROVE  KnownInv'
    BY <1>1, KnownKept
<1>2. ASSUME NEW w \in Writers, NEW a \in Accounts, NEW c \in Chats, Wrote(w, a, c)
      PROVE  KnownInv'
    <2>1. UNCHANGED <<authorized, bus, missed, listed, active, reloads, behind>>
        BY <1>2 DEF Wrote, screen, calls, history
    <2>2. ToPublish => ToPublish'
        BY <1>2 DEF ToPublish, Wrote, IsChat
    <2>3. (Published => Published') /\ (ToRead => ToRead') /\ (Known => Known')
        BY <2>1 DEF Published, ToRead, Known
    <2>4. missed => missed'
        BY <2>1
    <2>5. Telling => Telling'
        BY <2>2, <2>3, <2>4, TellingParts
    <2> QED BY <1>1, <2>1, <2>3, <2>5
<1>3. CASE \/ \E w \in Writers : Logged(w)
           \/ \E w \in Writers : Publish(w)
           \/ Deliver
           \/ \E l \in Reloads : AccountsAnswer(l)
    BY <1>3, LoggedKnown, PublishKnown, DeliverKnown, AnswerKnown
<1>4. CASE \/ \E a \in Accounts, c \in Chats : SentTouches(a, c)
           \/ \E s \in Refreshes : ReadChats(s) \/ ChatsAnswer(s)
           \/ UNCHANGED vars
    <2>1. UNCHANGED <<authorized, bus, missed, task, listed, active, reloads, behind>>
        BY <1>4 DEF SentTouches, ReadChats, ChatsAnswer, vars, store, way, screen, calls, history
    <2>2. Known => Known'
        BY <2>1 DEF Known
    <2> QED BY <1>1, <2>1, <2>2, TellingKept
<1>5. CASE LoginView \/ Lagged
    <2>1. UNCHANGED <<authorized, behind>>
        BY <1>5 DEF LoginView, Lagged, store, history
    <2>2. ToRead'
        BY <1>5, ReloadCall DEF LoginView, Lagged, ToRead
    <2> QED BY <1>1, <2>1, <2>2, TellingParts
<1>6. CASE AddAccount \/ (\E a \in listed : Switch(a))
    <2>1. /\ UNCHANGED <<authorized, bus, missed, task, listed, reloads, behind>>
          /\ active' \in listed \cup {Nobody}
        BY <1>6 DEF AddAccount, Switch, Activate, store, way, history
    <2>2. Known => Known'
        BY <2>1 DEF Known
    <2> QED BY <1>1, <2>1, <2>2, TellingKept
<1>7. ASSUME NEW l \in Reloads, ReadAccounts(l)
      PROVE  KnownInv'
    <2>1. UNCHANGED <<authorized, behind>>
        BY <1>7 DEF ReadAccounts, store, history
    <2>2. ToRead'
        BY <1>7, <2>1, SeenCall DEF ToRead
    <2> QED BY <1>1, <2>1, <2>2, TellingParts
<1> QED BY <1>2, <1>3, <1>4, <1>5, <1>6, <1>7, Steps DEF Step

LEMMA KnownInit == Init => KnownInv
BY DEF Init, KnownInv

(* ActiveIsAuthorized: once nothing is under way, the account on screen is *)
(* authorized, unless the last answer of refreshAccounts is not the one    *)
(* that was read last.                                                     *)
THEOREM OnlyAuthorizedShown == Spec => []ActiveIsAuthorized
<1>1. Init => Types /\ KnownInv
    BY TypesInit, KnownInit
<1>2. Types /\ KnownInv /\ [Next]_vars => (Types /\ KnownInv)'
    BY TypesStep, KnownStep
<1>3. KnownInv => ActiveIsAuthorized
    BY DEF KnownInv, ActiveIsAuthorized, Quiet, Idle, Telling
<1> QED BY <1>1, <1>2, <1>3, PTL DEF Spec
=============================================================================

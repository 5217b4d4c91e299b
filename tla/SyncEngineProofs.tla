-------------------------- MODULE SyncEngineProofs --------------------------
(***************************************************************************)
(* The safety invariants of SyncEngine, for any set of message ids, any    *)
(* number of calls under way, any log of updates and any number of lost    *)
(* connections and restarts.                                               *)
(*                                                                         *)
(* All of them rest on what Telegram's log is (LogInv): a message is       *)
(* posted once and before its edits, each edit is newer than the last, and *)
(* nothing follows a deletion.                                             *)
(***************************************************************************)
EXTENDS SyncEngine, FiniteSetTheorems, SequenceTheorems, WellFoundedInduction, TLAPS

Entry == [kind : {"new", "edit", "delete"}, id : Ids, text : Text]
Dialog == {"seedChat", "seedRow"}
Applying == {"fresh", "known", "count", "bump"}
WithRow == {"edit", "react", "put", "store", "drop"}
Writing == {"put", "store"}

(* The task and the calls that are about to write a row name one, and have *)
(* no newer version of it than Telegram.                                   *)
InHand ==
    /\ sync.at \in {"seedRow"} \cup Applying => sync.id \in Ids
    /\ sync.id \in Ids /\ sync.at \in Dialog \cup Applying =>
        sync.id <= newest /\ sync.text <= text[sync.id]
    /\ \A c \in Callers :
        /\ call[c].id <= newest
        /\ call[c].at \in WithRow => call[c].id \in Ids /\ call[c].text <= text[call[c].id]

Types == TypeOK /\ InHand

(* Nothing is known of messages to come, and no row is ahead of Telegram.  *)
PastOnly ==
    /\ serverRead <= newest
    /\ \A m \in Ids :
        /\ db[m] # NoRow \/ m \in gone \/ text[m] # 0 => m <= newest
        /\ db[m] <= text[m]

(* A message is posted before anything else, and deleted after everything  *)
(* else, and its edits grow.                                               *)
LogOrder ==
    \A j, k \in 1 .. Len(log) : log[j].id = log[k].id =>
        /\ log[j].kind = "delete" => k <= j
        /\ log[j].kind = "new" => j <= k
        /\ log[j].kind = "edit" /\ log[k].kind = "edit" /\ j < k => log[j].text < log[k].text

LogInv ==
    /\ LogOrder
    /\ \A k \in 1 .. Len(log) :
        /\ log[k].id <= newest
        /\ log[k].kind = "new" => log[k].text = 0
        /\ log[k].kind = "edit" => log[k].text <= text[log[k].id]
        /\ log[k].kind = "delete" => log[k].id \in gone
    /\ \A m \in Ids :
        /\ m \in gone => \E k \in 1 .. Len(log) : log[k].kind = "delete" /\ log[k].id = m
        /\ text[m] # 0 => \E k \in 1 .. Len(log) : log[k] = Update("edit", m, text[m])

StreamInv == saved <= pos /\ pos <= top

(* What the task has been told of a message so far.                        *)
Told(kind, m) == \E k \in 1 .. top : log[k].kind = kind /\ log[k].id = m

Known == {m \in Ids : Told("new", m)}

CountInv ==
    /\ \A m \in counted : m \in Known /\ (db[m] # NoRow \/ m \in gone)
    /\ sync.at \in Applying => sync.id \in Known
    /\ sync.at \in {"fresh", "count", "bump"} => sync.id \notin counted
    /\ sync.at \in {"count", "bump"} => db[sync.id] # NoRow \/ sync.id \in gone
    /\ \A c \in Callers : call[c].at = "drop" => call[c].id \in gone

DeleteInv ==
    /\ \A m \in Ids : m \in erased <=> Told("delete", m)
    /\ sync.at \in Dialog \cup {"fresh", "known"} => sync.id \notin erased
    /\ \A c \in Callers : call[c].at \in Writing /\ call[c].id \in erased => call[c].id \in revived
    /\ DeletedStaysDeleted

(* Why an unread message may be stored beside a counter of 0.              *)
Excused == cleared \cup aside \cup overtaken

BadgeInv ==
    /\ sync.at = "known" => sync.id \notin Incoming \/ db[sync.id] # NoRow \/ sync.id \in gone
    /\ sync.at = "seedChat" /\ sync.n = 0 => Stored \cap NotRead \subseteq Excused
    /\ sync.at = "seedChat" /\ sync.n = 0 => sync.id \notin NotRead
    /\ sync.at = "seedRow" /\ unread = 0 => sync.id \notin NotRead \/ sync.id \in Excused
    /\ BadgeHidesNothing

(* A message whose row Telegram's log will bring up to date, or nothing.   *)
Pending(m) == \E k \in pos + 1 .. Len(log) : log[k] = Update("edit", m, text[m])

Fresh(m) ==
    /\ db[m] \in {NoRow, text[m]}
    /\ sync.at \in Dialog \cup {"fresh", "known"} /\ sync.id = m => sync.text = text[m]
    /\ \A c \in Callers : call[c].at \in Writing /\ call[c].id = m
                           => call[c].text = text[m] \/ db[m] = text[m]

RowInv == \A m \in Ids : m \in gone \/ m \in raced \/ Pending(m) \/ Fresh(m)

-----------------------------------------------------------------------------
(* Facts about ids, sets of ids and the log.                               *)

LEMMA IdFacts ==
    /\ \A m \in Ids : m \in Nat /\ m > 0 /\ m # 0
    /\ Ids \cup {0} \subseteq Nat
    /\ \A v \in Text : v \in Nat /\ v # NoRow
    /\ 0 \in Text
BY IdsAssumption, BoundsAssumption DEF Text, NoRow

LEMMA LeastOf ==
    ASSUME NEW S \in SUBSET Nat, S # {}
    PROVE  \E m \in S : \A n \in S : m <= n
<1> DEFINE Less == OpToRel(<, Nat)
<1>1. IsWellFoundedOn(Less, Nat)
    BY NatLessThanWellFounded
<1>2. \A m, n \in Nat : n < m => <<n, m>> \in Less
    BY DEF OpToRel
<1> HIDE DEF Less
<1>3. PICK m \in S : \A n \in S : ~ (<<n, m>> \in Less)
    BY <1>1, WFMin
<1>4. m \in Nat /\ \A n \in S : n \in Nat
    OBVIOUS
<1>5. \A n \in S : ~ (n < m)
    BY <1>2, <1>3, <1>4
<1>6. \A n \in S : m <= n
    BY <1>4, <1>5
<1> QED BY <1>6

LEMMA MaxFacts ==
    ASSUME NEW bound \in Nat, NEW S \in SUBSET Nat, \A m \in S : m <= bound
    PROVE  /\ MaxOf(S) \in S \cup {0}
           /\ S # {} => MaxOf(S) \in S
           /\ \A m \in S : m <= MaxOf(S)
           /\ MaxOf(S) <= bound
<1>1. CASE S = {}
    BY <1>1 DEF MaxOf
<1>2. CASE S # {}
    <2> DEFINE gaps == {bound - m : m \in S}
    <2>1. gaps \in SUBSET Nat /\ gaps # {}
        BY <1>2
    <2>2. PICK least \in gaps : \A gap \in gaps : least <= gap
        BY <2>1, LeastOf
    <2>3. PICK top_ \in S : least = bound - top_
        BY <2>2
    <2>4. \A n \in S : n <= top_
        BY <2>2, <2>3
    <2>5. \E m \in S : \A n \in S : n <= m
        BY <2>4
    <2>6. MaxOf(S) \in S /\ \A n \in S : n <= MaxOf(S)
        BY <1>2, <2>5 DEF MaxOf
    <2> QED BY <2>6
<1> QED BY <1>1, <1>2

LEMMA LogFacts ==
    ASSUME TypeOK
    PROVE  /\ log \in Seq(Entry) /\ Len(log) \in Nat
           /\ \A k \in 1 .. Len(log) : log[k] \in Entry
<1>1. log \in Seq(Entry)
    BY DEF TypeOK, Entry
<1> QED BY <1>1, LenProperties, ElementOfSeq

LEMMA AnnounceFacts ==
    ASSUME TypeOK, NEW update \in Entry, Announce(update)
    PROVE  /\ log' \in Seq(Entry) /\ Len(log') = Len(log) + 1
           /\ \A k \in 1 .. Len(log) : log'[k] = log[k]
           /\ log'[Len(log) + 1] = update
BY LogFacts, AppendProperties DEF Announce

LEMMA EntryFacts ==
    ASSUME NEW m \in Ids, NEW v \in Text, NEW kind \in {"new", "edit", "delete"}
    PROVE  /\ Update(kind, m, v) \in Entry
           /\ Update(kind, m, v).kind = kind /\ Update(kind, m, v).id = m
           /\ Update(kind, m, v).text = v
BY DEF Entry, Update

(* The update at the head of the stream.                                   *)
LEMMA HeadFacts ==
    ASSUME Types, PastOnly, LogInv, NEW kind, Receive(kind)
    PROVE  /\ Head1 \in Entry /\ Head1 = log[pos + 1] /\ pos + 1 \in 1 .. Len(log)
           /\ Head1.kind = kind /\ Head1.id \in Ids /\ Head1.id <= newest
           /\ kind \in {"new", "edit"} => Carried \in Text /\ Carried <= text[Head1.id]
<1>1. pos \in Nat /\ Len(log) \in Nat
    BY LogFacts DEF Types, TypeOK
<1>2. pos + 1 \in 1 .. Len(log) /\ Head1 = log[pos + 1] /\ Head1.kind = kind
    BY <1>1 DEF Receive, Head1
<1>3. Head1 \in Entry
    BY <1>2, LogFacts DEF Types
<1>4. Head1.id \in Ids /\ Head1.text \in Text
    BY <1>3 DEF Entry
<1>5. text[Head1.id] \in Text
    BY <1>4 DEF Types, TypeOK
<1>6. Head1.id <= newest
    BY <1>2 DEF LogInv
<1>7. kind = "new" => Head1.text = 0
    BY <1>2 DEF LogInv
<1>8. kind = "edit" => Head1.text <= text[Head1.id]
    BY <1>2 DEF LogInv
<1>9. kind \in {"new", "edit"} => Carried \in Text /\ Carried <= text[Head1.id]
    BY <1>4, <1>5, <1>7, <1>8, IdFacts DEF Carried
<1> QED BY <1>2, <1>3, <1>4, <1>6, <1>9

-----------------------------------------------------------------------------
(* What Telegram does, alone or on behalf of a call.                       *)

telegramText == <<newest, gone, text, log>>

LEMMA PostsTypes ==
    ASSUME Types, PastOnly, NEW m \in Ids, Posts(m), UNCHANGED <<gone, text>>
    PROVE  /\ newest' = newest + 1 /\ newest' = m /\ newest' \in Ids /\ newest \in Nat
           /\ log' \in Seq(Entry) /\ Len(log') = Len(log) + 1
           /\ \A k \in 1 .. Len(log) : log'[k] = log[k]
           /\ log'[Len(log) + 1] = Update("new", m, 0)
           /\ db[m] = NoRow /\ m \notin gone /\ text[m] = 0
<1>1. newest \in Nat /\ m \in Nat
    BY IdFacts DEF Types, TypeOK
<1>2. Update("new", m, 0) \in Entry
    BY IdFacts, EntryFacts
<1>3. ~ (m <= newest)
    BY <1>1 DEF Posts
<1> QED BY <1>1, <1>2, <1>3, AnnounceFacts DEF Posts, Types, PastOnly

LEMMA EditsTypes ==
    ASSUME Types, NEW m \in Ids, Edits(m), UNCHANGED <<newest, gone>>
    PROVE  /\ text' \in [Ids -> Text] /\ text' = [text EXCEPT ![m] = text[m] + 1]
           /\ text[m] + 1 \in Text
           /\ \A n \in Ids : text[n] <= text'[n] /\ (n # m => text'[n] = text[n])
           /\ m <= newest /\ m \notin gone
           /\ log' \in Seq(Entry) /\ Len(log') = Len(log) + 1
           /\ \A k \in 1 .. Len(log) : log'[k] = log[k]
           /\ log'[Len(log) + 1] = Update("edit", m, text[m] + 1)
<1>1. text[m] + 1 \in Text
    BY BoundsAssumption DEF Edits, Text, Types, TypeOK
<1>2. Update("edit", m, text[m] + 1) \in Entry
    BY <1>1, EntryFacts
<1>3. text' = [text EXCEPT ![m] = text[m] + 1] /\ text' \in [Ids -> Text]
    BY <1>1 DEF Edits, Types, TypeOK
<1>4. \A n \in Ids : text[n] \in Nat
    BY IdFacts DEF Types, TypeOK
<1>5. \A n \in Ids : text[n] <= text'[n] /\ (n # m => text'[n] = text[n])
    BY <1>3, <1>4 DEF Types, TypeOK
<1> QED BY <1>1, <1>2, <1>3, <1>5, AnnounceFacts DEF Edits, Exists, Types

LEMMA UnsendsTypes ==
    ASSUME Types, NEW m \in Ids, Unsends(m), UNCHANGED <<newest, text>>
    PROVE  /\ gone' = gone \cup {m} /\ gone' \subseteq Ids
           /\ m <= newest /\ m \notin gone
           /\ log' \in Seq(Entry) /\ Len(log') = Len(log) + 1
           /\ \A k \in 1 .. Len(log) : log'[k] = log[k]
           /\ log'[Len(log) + 1] = Update("delete", m, 0)
<1>1. Update("delete", m, 0) \in Entry
    BY IdFacts, EntryFacts
<1> QED BY <1>1, AnnounceFacts DEF Unsends, Exists, Types, TypeOK

(* A step leaves Telegram's messages alone, or posts, edits or deletes one *)
(* of them.                                                                *)
LEMMA TelegramSteps ==
    ASSUME [Next]_vars
    PROVE  \/ UNCHANGED telegramText
           \/ \E m \in Ids : Posts(m) /\ UNCHANGED <<gone, text>>
           \/ \E m \in Ids : Edits(m) /\ UNCHANGED <<newest, gone>>
           \/ \E m \in Ids : Unsends(m) /\ UNCHANGED <<newest, text>>
<1>1. CASE \E m \in Ids : PostElsewhere(m) \/ EditElsewhere(m) \/ UnsendElsewhere(m)
    BY <1>1 DEF PostElsewhere, EditElsewhere, UnsendElsewhere
<1>2. CASE ReadElsewhere
    BY <1>2 DEF ReadElsewhere, telegramText
<1>3. CASE SyncStep
    BY <1>3 DEF SyncStep, TakeStream, Dialogs, SeedChat, SeedRow, Sleep, ApplyEvent, SkipDeleted,
                ReceiveNew, StoreNew, ReadCounter, WriteCounter, ReceiveEdit, ReceiveDelete,
                telegram, telegramText
<1>4. CASE StreamRefused \/ DialogsFail \/ StreamFails \/ Revoked \/ Restart \/ UNCHANGED vars
    BY <1>4 DEF StreamRefused, DialogsFail, StreamFails, Revoked, Restart, vars, telegram,
                telegramText
<1>5. CASE \E c \in Callers : MarkRead(c) \/ CallStep(c)
    BY <1>5 DEF MarkRead, CallStep, ResetCounter, TellRead, TellFails, ReadRow, WriteRow, DropRow,
                telegram, telegramText
<1>6. CASE \E c \in Callers, m \in Ids : React(c, m) \/ Fetch(c, m)
    BY <1>6 DEF React, Fetch, telegram, telegramText
<1>7. CASE \E c \in Callers, m \in Ids : Edit(c, m) \/ SendFile(c, m) \/ Delete(c, m)
    BY <1>7 DEF Edit, SendFile, Delete
<1> QED BY <1>1, <1>2, <1>3, <1>4, <1>5, <1>6, <1>7 DEF Next

LEMMA AppendedInOrder ==
    ASSUME Types, LogOrder, NEW e \in Entry,
           Len(log') = Len(log) + 1, \A k \in 1 .. Len(log) : log'[k] = log[k],
           log'[Len(log) + 1] = e,
           \A k \in 1 .. Len(log) : log[k].id = e.id =>
                /\ log[k].kind # "delete" /\ e.kind # "new"
                /\ log[k].kind = "edit" /\ e.kind = "edit" => log[k].text < e.text
    PROVE  LogOrder'
<1>0. Len(log) \in Nat
    BY LogFacts DEF Types
<1>1. \A k \in 1 .. Len(log') : k \in 1 .. Len(log) \/ k = Len(log) + 1
    BY <1>0
<1> SUFFICES ASSUME NEW j \in 1 .. Len(log'), NEW k \in 1 .. Len(log'), log'[j].id = log'[k].id
             PROVE  /\ log'[j].kind = "delete" => k <= j
                    /\ log'[j].kind = "new" => j <= k
                    /\ log'[j].kind = "edit" /\ log'[k].kind = "edit" /\ j < k
                        => log'[j].text < log'[k].text
    BY DEF LogOrder
<1>2. CASE j \in 1 .. Len(log) /\ k \in 1 .. Len(log)
    BY <1>2 DEF LogOrder
<1>3. CASE j \in 1 .. Len(log) /\ k = Len(log) + 1
    BY <1>0, <1>3
<1>4. CASE j = Len(log) + 1 /\ k \in 1 .. Len(log)
    BY <1>0, <1>4
<1>5. CASE j = Len(log) + 1 /\ k = Len(log) + 1
    BY <1>0, <1>5
<1> QED BY <1>1, <1>2, <1>3, <1>4, <1>5

LEMMA AllLogged ==
    ASSUME LogInv, NEW n \in Ids
    PROVE  /\ n \in gone => \E k \in 1 .. Len(log) : log[k].kind = "delete" /\ log[k].id = n
           /\ text[n] # 0 => \E k \in 1 .. Len(log) : log[k] = Update("edit", n, text[n])
BY DEF LogInv

LEMMA Longer ==
    ASSUME NEW a \in Nat, NEW b \in Nat, b = a + 1
    PROVE  /\ a + 1 \in 1 .. b /\ \A k \in 1 .. a : k \in 1 .. b
           /\ \A k \in 1 .. b : k \in 1 .. a \/ k = a + 1
OBVIOUS

LEMMA NextLog ==
    ASSUME Types, PastOnly, LogInv, [Next]_vars
    PROVE  LogInv'
<1>0. Len(log) \in Nat /\ \A k \in 1 .. Len(log) : log[k] \in Entry
    BY LogFacts DEF Types
<1>1. CASE UNCHANGED telegramText
    BY <1>1 DEF telegramText, LogInv, LogOrder
<1>2. ASSUME NEW m \in Ids, Posts(m), UNCHANGED <<gone, text>> PROVE LogInv'
    <2> DEFINE e == Update("new", m, 0)
    <2>1. e \in Entry /\ e.kind = "new" /\ e.id = m /\ e.text = 0
        BY IdFacts, EntryFacts
    <2>2. /\ newest' = newest + 1 /\ newest' = m /\ newest \in Nat
          /\ Len(log') = Len(log) + 1 /\ \A k \in 1 .. Len(log) : log'[k] = log[k]
          /\ log'[Len(log) + 1] = e
        BY <1>2, PostsTypes
    <2> HIDE DEF e
    <2>3. \A k \in 1 .. Len(log) : log[k].id <= newest /\ log[k].id # m /\ log[k].id \in Nat
        <3>1. \A k \in 1 .. Len(log) : log[k].id \in Nat
            BY <1>0, IdFacts DEF Entry
        <3>2. \A k \in 1 .. Len(log) : log[k].id <= newest
            BY DEF LogInv
        <3> QED BY <2>2, <3>1, <3>2
    <2>4. LogOrder'
        <3>1. LogOrder
            BY DEF LogInv
        <3>2. \A k \in 1 .. Len(log) : log[k].id # e.id
            BY <2>1, <2>3
        <3> QED BY <2>1, <2>2, <3>1, <3>2, AppendedInOrder
    <2>5. \A k \in 1 .. Len(log') : k \in 1 .. Len(log) \/ k = Len(log) + 1
        BY <1>0, <2>2, Longer
    <2>6. \A k \in 1 .. Len(log') :
            /\ log'[k].id <= newest'
            /\ log'[k].kind = "new" => log'[k].text = 0
            /\ log'[k].kind = "edit" => log'[k].text <= text'[log'[k].id]
            /\ log'[k].kind = "delete" => log'[k].id \in gone'
        BY <1>2, <2>1, <2>2, <2>3, <2>5 DEF LogInv
    <2>7. \A k \in 1 .. Len(log) : k \in 1 .. Len(log')
        BY <1>0, <2>2, Longer
    <2>8. \A n \in Ids :
            /\ n \in gone' => \E k \in 1 .. Len(log') : log'[k].kind = "delete" /\ log'[k].id = n
            /\ text'[n] # 0 => \E k \in 1 .. Len(log') : log'[k] = Update("edit", n, text'[n])
        <3>1. gone' = gone /\ text' = text
            BY <1>2
        <3>2. \A k \in 1 .. Len(log) : k \in 1 .. Len(log') /\ log'[k] = log[k]
            BY <2>2, <2>7
        <3> SUFFICES ASSUME NEW n \in Ids
                     PROVE  /\ n \in gone => \E k \in 1 .. Len(log') :
                                                log'[k].kind = "delete" /\ log'[k].id = n
                            /\ text[n] # 0 => \E k \in 1 .. Len(log') :
                                                log'[k] = Update("edit", n, text[n])
            BY <3>1
        <3>3. n \in gone => \E k \in 1 .. Len(log) : log[k].kind = "delete" /\ log[k].id = n
            BY AllLogged
        <3>4. text[n] # 0 => \E k \in 1 .. Len(log) : log[k] = Update("edit", n, text[n])
            BY AllLogged
        <3> QED BY <3>2, <3>3, <3>4
    <2> QED BY <2>4, <2>6, <2>8 DEF LogInv
<1>3. ASSUME NEW m \in Ids, Edits(m), UNCHANGED <<newest, gone>> PROVE LogInv'
    <2> DEFINE e == Update("edit", m, text[m] + 1)
    <2>1. /\ text' = [text EXCEPT ![m] = text[m] + 1] /\ text[m] + 1 \in Text
          /\ \A n \in Ids : text[n] <= text'[n] /\ (n # m => text'[n] = text[n])
          /\ m <= newest /\ m \notin gone
          /\ Len(log') = Len(log) + 1 /\ \A k \in 1 .. Len(log) : log'[k] = log[k]
          /\ log'[Len(log) + 1] = e
        BY <1>3, EditsTypes
    <2>2. e \in Entry /\ e.kind = "edit" /\ e.id = m /\ e.text = text[m] + 1
        BY <2>1, EntryFacts
    <2>3. \A n \in Ids : text[n] \in Nat /\ text'[n] \in Nat
        BY <2>1, IdFacts DEF Types, TypeOK
    <2>4. e = Update("edit", m, text'[m])
        BY <2>1 DEF Types, TypeOK
    <2> HIDE DEF e
    <2>5. \A k \in 1 .. Len(log) : log[k].id \in Ids /\ log[k].text \in Nat
        BY <1>0, IdFacts DEF Entry
    <2>6. LogOrder'
        <3>1. LogOrder
            BY DEF LogInv
        <3>2. \A k \in 1 .. Len(log) : log[k].id = e.id => log[k].kind # "delete"
            BY <2>1, <2>2 DEF LogInv
        <3>3. ASSUME NEW k \in 1 .. Len(log), log[k].id = e.id, log[k].kind = "edit"
              PROVE  log[k].text < e.text
            <4>1. log[k].text <= text[m]
                BY <2>2, <3>3 DEF LogInv
            <4> QED BY <2>2, <2>3, <2>5, <4>1
        <3> QED BY <2>1, <2>2, <3>1, <3>2, <3>3, AppendedInOrder
    <2>7. \A k \in 1 .. Len(log') : k \in 1 .. Len(log) \/ k = Len(log) + 1
        BY <1>0, <2>1, Longer
    <2>8. \A k \in 1 .. Len(log') :
            /\ log'[k].id <= newest'
            /\ log'[k].kind = "new" => log'[k].text = 0
            /\ log'[k].kind = "edit" => log'[k].text <= text'[log'[k].id]
            /\ log'[k].kind = "delete" => log'[k].id \in gone'
        <3> SUFFICES ASSUME NEW k \in 1 .. Len(log')
                     PROVE  /\ log'[k].id <= newest'
                            /\ log'[k].kind = "new" => log'[k].text = 0
                            /\ log'[k].kind = "edit" => log'[k].text <= text'[log'[k].id]
                            /\ log'[k].kind = "delete" => log'[k].id \in gone'
            OBVIOUS
        <3>1. CASE k \in 1 .. Len(log)
            <4>1. text[log[k].id] <= text'[log[k].id]
                BY <2>1, <2>5, <3>1
            <4>2. log[k].kind = "edit" => log[k].text <= text[log[k].id]
                BY <3>1 DEF LogInv
            <4>3. log[k].kind = "edit" => log[k].text <= text'[log[k].id]
                <5>1. /\ log[k].text \in Nat /\ text[log[k].id] \in Nat
                      /\ text'[log[k].id] \in Nat
                    BY <2>3, <2>5, <3>1
                <5> QED BY <4>1, <4>2, <5>1
            <4>4. log'[k].kind = log[k].kind /\ log'[k].id = log[k].id /\ log'[k].text = log[k].text
                BY <2>1, <3>1
            <4>5. newest' = newest /\ gone' = gone
                BY <1>3
            <4>6. /\ log[k].id <= newest
                  /\ log[k].kind = "new" => log[k].text = 0
                  /\ log[k].kind = "delete" => log[k].id \in gone
                BY <3>1 DEF LogInv
            <4>7. log'[k].kind = "edit" => log'[k].text <= text'[log'[k].id]
                BY <4>3, <4>4
            <4>8. log'[k].id <= newest' /\ (log'[k].kind = "new" => log'[k].text = 0)
                BY <4>4, <4>5, <4>6
            <4>9. log'[k].kind = "delete" => log'[k].id \in gone'
                BY <4>4, <4>5, <4>6
            <4> QED BY <4>7, <4>8, <4>9
        <3>2. CASE k = Len(log) + 1
            <4>1. log'[k].kind = "edit" /\ log'[k].id = m /\ log'[k].text = text[m] + 1
                BY <2>1, <2>2, <3>2
            <4>2. text'[m] = text[m] + 1 /\ text'[m] \in Nat
                BY <2>1, <2>3 DEF Types, TypeOK
            <4>3. m <= newest'
                BY <1>3, <2>1
            <4> QED BY <4>1, <4>2, <4>3
        <3> QED BY <2>7, <3>1, <3>2
    <2>9. \A k \in 1 .. Len(log) : k \in 1 .. Len(log')
        BY <1>0, <2>1, Longer
    <2>10. \A n \in Ids :
            /\ n \in gone' => \E k \in 1 .. Len(log') : log'[k].kind = "delete" /\ log'[k].id = n
            /\ text'[n] # 0 => \E k \in 1 .. Len(log') : log'[k] = Update("edit", n, text'[n])
        <3> SUFFICES ASSUME NEW n \in Ids
                     PROVE  /\ n \in gone' => \E k \in 1 .. Len(log') :
                                                log'[k].kind = "delete" /\ log'[k].id = n
                            /\ text'[n] # 0 => \E k \in 1 .. Len(log') :
                                                log'[k] = Update("edit", n, text'[n])
            OBVIOUS
        <3>1. n \in gone' => \E k \in 1 .. Len(log') : log'[k].kind = "delete" /\ log'[k].id = n
            BY <1>3, <2>1, <2>9, AllLogged
        <3>2. CASE n = m
            <4>1. Len(log) + 1 \in 1 .. Len(log')
                BY <1>0, <2>1
            <4> QED BY <2>1, <2>4, <3>1, <3>2, <4>1
        <3>3. CASE n # m
            BY <2>1, <2>9, <3>1, <3>3, AllLogged
        <3> QED BY <3>2, <3>3
    <2> QED BY <2>6, <2>8, <2>10 DEF LogInv
<1>4. ASSUME NEW m \in Ids, Unsends(m), UNCHANGED <<newest, text>> PROVE LogInv'
    <2> DEFINE e == Update("delete", m, 0)
    <2>1. e \in Entry /\ e.kind = "delete" /\ e.id = m
        BY IdFacts, EntryFacts
    <2>2. /\ gone' = gone \cup {m} /\ m \notin gone /\ m <= newest
          /\ Len(log') = Len(log) + 1 /\ \A k \in 1 .. Len(log) : log'[k] = log[k]
          /\ log'[Len(log) + 1] = e
        BY <1>4, UnsendsTypes
    <2> HIDE DEF e
    <2>3. LogOrder'
        <3>1. \A k \in 1 .. Len(log) : log[k].id = e.id => log[k].kind # "delete"
            BY <2>1, <2>2 DEF LogInv
        <3> QED BY <2>1, <2>2, <3>1, AppendedInOrder DEF LogInv
    <2>4. \A k \in 1 .. Len(log') : k \in 1 .. Len(log) \/ k = Len(log) + 1
        BY <1>0, <2>2, Longer
    <2>5. \A k \in 1 .. Len(log') :
            /\ log'[k].id <= newest'
            /\ log'[k].kind = "new" => log'[k].text = 0
            /\ log'[k].kind = "edit" => log'[k].text <= text'[log'[k].id]
            /\ log'[k].kind = "delete" => log'[k].id \in gone'
        BY <1>4, <2>1, <2>2, <2>4 DEF LogInv
    <2>6. Len(log) + 1 \in 1 .. Len(log') /\ \A k \in 1 .. Len(log) : k \in 1 .. Len(log')
        BY <1>0, <2>2, Longer
    <2>7. \A n \in Ids :
            /\ n \in gone' => \E k \in 1 .. Len(log') : log'[k].kind = "delete" /\ log'[k].id = n
            /\ text'[n] # 0 => \E k \in 1 .. Len(log') : log'[k] = Update("edit", n, text'[n])
        BY <1>4, <2>1, <2>2, <2>6, AllLogged
    <2> QED BY <2>3, <2>5, <2>7 DEF LogInv
<1> QED BY <1>1, <1>2, <1>3, <1>4, TelegramSteps

-----------------------------------------------------------------------------
(* Which actions change what.                                              *)

LEMMA DbSteps ==
    ASSUME [Next]_vars
    PROVE  \/ UNCHANGED db \/ SeedRow \/ StoreNew \/ ReceiveEdit \/ ReceiveDelete
           \/ \E c \in Callers : WriteRow(c) \/ DropRow(c)
<1> USE DEF telegram, stream, badge, rows
<1>1. CASE (\E m \in Ids : PostElsewhere(m) \/ EditElsewhere(m) \/ UnsendElsewhere(m)) \/ ReadElsewhere
    BY <1>1 DEF PostElsewhere, EditElsewhere, UnsendElsewhere, ReadElsewhere
<1>2. CASE TakeStream \/ Dialogs \/ SeedChat \/ SeedRow \/ Sleep
    BY <1>2 DEF TakeStream, Dialogs, SeedChat, SeedRow, Sleep
<1>3. CASE ApplyEvent
    BY <1>3 DEF ApplyEvent, SkipDeleted, ReceiveNew, StoreNew, ReadCounter, WriteCounter,
                ReceiveEdit, ReceiveDelete
<1>4. CASE StreamRefused \/ DialogsFail \/ StreamFails \/ Revoked \/ Restart \/ UNCHANGED vars
    BY <1>4 DEF StreamRefused, DialogsFail, StreamFails, Revoked, Restart, vars
<1>5. CASE \E c \in Callers : MarkRead(c) \/ CallStep(c)
    BY <1>5 DEF MarkRead, CallStep, ResetCounter, TellRead, TellFails, ReadRow, WriteRow, DropRow
<1>6. CASE \E c \in Callers, m \in Ids : Edit(c, m) \/ React(c, m) \/ Fetch(c, m)
    BY <1>6 DEF Edit, React, Fetch
<1>7. CASE \E c \in Callers, m \in Ids : SendFile(c, m) \/ Delete(c, m)
    BY <1>7 DEF SendFile, Delete
<1> QED BY <1>1, <1>2, <1>3, <1>4, <1>5, <1>6, <1>7 DEF Next, SyncStep

LEMMA UnreadSteps ==
    ASSUME [Next]_vars
    PROVE  \/ UNCHANGED unread \/ SeedChat \/ WriteCounter \/ \E c \in Callers : ResetCounter(c)
<1> USE DEF telegram, stream, badge, rows
<1>1. CASE (\E m \in Ids : PostElsewhere(m) \/ EditElsewhere(m) \/ UnsendElsewhere(m)) \/ ReadElsewhere
    BY <1>1 DEF PostElsewhere, EditElsewhere, UnsendElsewhere, ReadElsewhere
<1>2. CASE TakeStream \/ Dialogs \/ SeedChat \/ SeedRow \/ Sleep
    BY <1>2 DEF TakeStream, Dialogs, SeedChat, SeedRow, Sleep
<1>3. CASE ApplyEvent
    BY <1>3 DEF ApplyEvent, SkipDeleted, ReceiveNew, StoreNew, ReadCounter, WriteCounter,
                ReceiveEdit, ReceiveDelete
<1>4. CASE StreamRefused \/ DialogsFail \/ StreamFails \/ Revoked \/ Restart \/ UNCHANGED vars
    BY <1>4 DEF StreamRefused, DialogsFail, StreamFails, Revoked, Restart, vars
<1>5. CASE \E c \in Callers : MarkRead(c) \/ CallStep(c)
    BY <1>5 DEF MarkRead, CallStep, ResetCounter, TellRead, TellFails, ReadRow, WriteRow, DropRow
<1>6. CASE \E c \in Callers, m \in Ids : Edit(c, m) \/ React(c, m) \/ Fetch(c, m)
    BY <1>6 DEF Edit, React, Fetch
<1>7. CASE \E c \in Callers, m \in Ids : SendFile(c, m) \/ Delete(c, m)
    BY <1>7 DEF SendFile, Delete
<1> QED BY <1>1, <1>2, <1>3, <1>4, <1>5, <1>6, <1>7 DEF Next, SyncStep

LEMMA SyncSteps ==
    ASSUME [Next]_vars
    PROVE  \/ UNCHANGED <<sync, delay>> \/ TakeStream \/ StreamRefused \/ Dialogs \/ SeedChat \/ SeedRow
           \/ DialogsFail \/ StreamFails \/ Sleep \/ Revoked \/ ReceiveNew \/ StoreNew
           \/ ReadCounter \/ WriteCounter \/ Restart
<1> USE DEF telegram, stream, badge, rows
<1>1. CASE (\E m \in Ids : PostElsewhere(m) \/ EditElsewhere(m) \/ UnsendElsewhere(m)) \/ ReadElsewhere
    BY <1>1 DEF PostElsewhere, EditElsewhere, UnsendElsewhere, ReadElsewhere
<1>2. CASE TakeStream \/ Dialogs \/ SeedChat \/ SeedRow \/ Sleep
    BY <1>2 DEF TakeStream, Dialogs, SeedChat, SeedRow, Sleep
<1>3. CASE ApplyEvent
    BY <1>3 DEF ApplyEvent, SkipDeleted, ReceiveNew, StoreNew, ReadCounter, WriteCounter,
                ReceiveEdit, ReceiveDelete
<1>4. CASE StreamRefused \/ DialogsFail \/ StreamFails \/ Revoked \/ Restart \/ UNCHANGED vars
    BY <1>4 DEF StreamRefused, DialogsFail, StreamFails, Revoked, Restart, vars
<1>5. CASE \E c \in Callers : MarkRead(c) \/ CallStep(c)
    BY <1>5 DEF MarkRead, CallStep, ResetCounter, TellRead, TellFails, ReadRow, WriteRow, DropRow
<1>6. CASE \E c \in Callers, m \in Ids : Edit(c, m) \/ React(c, m) \/ Fetch(c, m)
    BY <1>6 DEF Edit, React, Fetch
<1>7. CASE \E c \in Callers, m \in Ids : SendFile(c, m) \/ Delete(c, m)
    BY <1>7 DEF SendFile, Delete
<1> QED BY <1>1, <1>2, <1>3, <1>4, <1>5, <1>6, <1>7 DEF Next, SyncStep

LEMMA StreamSteps ==
    ASSUME [Next]_vars
    PROVE  \/ UNCHANGED stream \/ StreamFails \/ Restart \/ SkipDeleted \/ ReceiveNew
           \/ ReceiveEdit \/ ReceiveDelete
<1> USE DEF telegram, stream, badge, rows
<1>1. CASE (\E m \in Ids : PostElsewhere(m) \/ EditElsewhere(m) \/ UnsendElsewhere(m)) \/ ReadElsewhere
    BY <1>1 DEF PostElsewhere, EditElsewhere, UnsendElsewhere, ReadElsewhere
<1>2. CASE TakeStream \/ Dialogs \/ SeedChat \/ SeedRow \/ Sleep
    BY <1>2 DEF TakeStream, Dialogs, SeedChat, SeedRow, Sleep
<1>3. CASE ApplyEvent
    BY <1>3 DEF ApplyEvent, SkipDeleted, ReceiveNew, StoreNew, ReadCounter, WriteCounter,
                ReceiveEdit, ReceiveDelete
<1>4. CASE StreamRefused \/ DialogsFail \/ StreamFails \/ Revoked \/ Restart \/ UNCHANGED vars
    BY <1>4 DEF StreamRefused, DialogsFail, StreamFails, Revoked, Restart, vars
<1>5. CASE \E c \in Callers : MarkRead(c) \/ CallStep(c)
    BY <1>5 DEF MarkRead, CallStep, ResetCounter, TellRead, TellFails, ReadRow, WriteRow, DropRow
<1>6. CASE \E c \in Callers, m \in Ids : Edit(c, m) \/ React(c, m) \/ Fetch(c, m)
    BY <1>6 DEF Edit, React, Fetch
<1>7. CASE \E c \in Callers, m \in Ids : SendFile(c, m) \/ Delete(c, m)
    BY <1>7 DEF SendFile, Delete
<1> QED BY <1>1, <1>2, <1>3, <1>4, <1>5, <1>6, <1>7 DEF Next, SyncStep

LEMMA CallSteps ==
    ASSUME [Next]_vars
    PROVE  \/ UNCHANGED <<call, made>> \/ Restart
           \/ \E c \in Callers : MarkRead(c) \/ CallStep(c)
           \/ \E c \in Callers, m \in Ids :
                Edit(c, m) \/ React(c, m) \/ Fetch(c, m) \/ SendFile(c, m) \/ Delete(c, m)
<1> USE DEF telegram, stream, badge, rows
<1>1. CASE (\E m \in Ids : PostElsewhere(m) \/ EditElsewhere(m) \/ UnsendElsewhere(m)) \/ ReadElsewhere
    BY <1>1 DEF PostElsewhere, EditElsewhere, UnsendElsewhere, ReadElsewhere
<1>2. CASE TakeStream \/ Dialogs \/ SeedChat \/ SeedRow \/ Sleep
    BY <1>2 DEF TakeStream, Dialogs, SeedChat, SeedRow, Sleep
<1>3. CASE ApplyEvent
    BY <1>3 DEF ApplyEvent, SkipDeleted, ReceiveNew, StoreNew, ReadCounter, WriteCounter,
                ReceiveEdit, ReceiveDelete
<1>4. CASE StreamRefused \/ DialogsFail \/ StreamFails \/ Revoked \/ Restart \/ UNCHANGED vars
    BY <1>4 DEF StreamRefused, DialogsFail, StreamFails, Revoked, Restart, vars
<1>5. CASE \E c \in Callers : MarkRead(c) \/ CallStep(c)
    BY <1>5 DEF MarkRead, CallStep, ResetCounter, TellRead, TellFails, ReadRow, WriteRow, DropRow
<1>6. CASE \E c \in Callers, m \in Ids : Edit(c, m) \/ React(c, m) \/ Fetch(c, m)
    BY <1>6 DEF Edit, React, Fetch
<1>7. CASE \E c \in Callers, m \in Ids : SendFile(c, m) \/ Delete(c, m)
    BY <1>7 DEF SendFile, Delete
<1> QED BY <1>1, <1>2, <1>3, <1>4, <1>5, <1>6, <1>7 DEF Next, SyncStep

LEMMA BadgeSteps ==
    ASSUME [Next]_vars
    PROVE  \/ UNCHANGED badge \/ WriteCounter \/ ReceiveEdit \/ Restart
           \/ \E c \in Callers : ResetCounter(c) \/ WriteRow(c)
<1> USE DEF telegram, stream, badge, rows
<1>1. CASE (\E m \in Ids : PostElsewhere(m) \/ EditElsewhere(m) \/ UnsendElsewhere(m)) \/ ReadElsewhere
    BY <1>1 DEF PostElsewhere, EditElsewhere, UnsendElsewhere, ReadElsewhere
<1>2. CASE TakeStream \/ Dialogs \/ SeedChat \/ SeedRow \/ Sleep
    BY <1>2 DEF TakeStream, Dialogs, SeedChat, SeedRow, Sleep
<1>3. CASE ApplyEvent
    BY <1>3 DEF ApplyEvent, SkipDeleted, ReceiveNew, StoreNew, ReadCounter, WriteCounter,
                ReceiveEdit, ReceiveDelete
<1>4. CASE StreamRefused \/ DialogsFail \/ StreamFails \/ Revoked \/ Restart \/ UNCHANGED vars
    BY <1>4 DEF StreamRefused, DialogsFail, StreamFails, Revoked, Restart, vars
<1>5. CASE \E c \in Callers : MarkRead(c) \/ CallStep(c)
    BY <1>5 DEF MarkRead, CallStep, ResetCounter, TellRead, TellFails, ReadRow, WriteRow, DropRow
<1>6. CASE \E c \in Callers, m \in Ids : Edit(c, m) \/ React(c, m) \/ Fetch(c, m)
    BY <1>6 DEF Edit, React, Fetch
<1>7. CASE \E c \in Callers, m \in Ids : SendFile(c, m) \/ Delete(c, m)
    BY <1>7 DEF SendFile, Delete
<1> QED BY <1>1, <1>2, <1>3, <1>4, <1>5, <1>6, <1>7 DEF Next, SyncStep

LEMMA RowsSteps ==
    ASSUME [Next]_vars
    PROVE  \/ UNCHANGED rows \/ ReceiveDelete \/ \E c \in Callers : WriteRow(c)
<1> USE DEF telegram, stream, badge, rows
<1>1. CASE (\E m \in Ids : PostElsewhere(m) \/ EditElsewhere(m) \/ UnsendElsewhere(m)) \/ ReadElsewhere
    BY <1>1 DEF PostElsewhere, EditElsewhere, UnsendElsewhere, ReadElsewhere
<1>2. CASE TakeStream \/ Dialogs \/ SeedChat \/ SeedRow \/ Sleep
    BY <1>2 DEF TakeStream, Dialogs, SeedChat, SeedRow, Sleep
<1>3. CASE ApplyEvent
    BY <1>3 DEF ApplyEvent, SkipDeleted, ReceiveNew, StoreNew, ReadCounter, WriteCounter,
                ReceiveEdit, ReceiveDelete
<1>4. CASE StreamRefused \/ DialogsFail \/ StreamFails \/ Revoked \/ Restart \/ UNCHANGED vars
    BY <1>4 DEF StreamRefused, DialogsFail, StreamFails, Revoked, Restart, vars
<1>5. CASE \E c \in Callers : MarkRead(c) \/ CallStep(c)
    BY <1>5 DEF MarkRead, CallStep, ResetCounter, TellRead, TellFails, ReadRow, WriteRow, DropRow
<1>6. CASE \E c \in Callers, m \in Ids : Edit(c, m) \/ React(c, m) \/ Fetch(c, m)
    BY <1>6 DEF Edit, React, Fetch
<1>7. CASE \E c \in Callers, m \in Ids : SendFile(c, m) \/ Delete(c, m)
    BY <1>7 DEF SendFile, Delete
<1> QED BY <1>1, <1>2, <1>3, <1>4, <1>5, <1>6, <1>7 DEF Next, SyncStep

LEMMA ReadSteps ==
    ASSUME [Next]_vars
    PROVE  \/ UNCHANGED serverRead \/ ReadElsewhere \/ \E c \in Callers : TellRead(c)
<1> USE DEF telegram, stream, badge, rows
<1>1. CASE (\E m \in Ids : PostElsewhere(m) \/ EditElsewhere(m) \/ UnsendElsewhere(m)) \/ ReadElsewhere
    BY <1>1 DEF PostElsewhere, EditElsewhere, UnsendElsewhere, ReadElsewhere
<1>2. CASE TakeStream \/ Dialogs \/ SeedChat \/ SeedRow \/ Sleep
    BY <1>2 DEF TakeStream, Dialogs, SeedChat, SeedRow, Sleep
<1>3. CASE ApplyEvent
    BY <1>3 DEF ApplyEvent, SkipDeleted, ReceiveNew, StoreNew, ReadCounter, WriteCounter,
                ReceiveEdit, ReceiveDelete
<1>4. CASE StreamRefused \/ DialogsFail \/ StreamFails \/ Revoked \/ Restart \/ UNCHANGED vars
    BY <1>4 DEF StreamRefused, DialogsFail, StreamFails, Revoked, Restart, vars
<1>5. CASE \E c \in Callers : MarkRead(c) \/ CallStep(c)
    BY <1>5 DEF MarkRead, CallStep, ResetCounter, TellRead, TellFails, ReadRow, WriteRow, DropRow
<1>6. CASE \E c \in Callers, m \in Ids : Edit(c, m) \/ React(c, m) \/ Fetch(c, m)
    BY <1>6 DEF Edit, React, Fetch
<1>7. CASE \E c \in Callers, m \in Ids : SendFile(c, m) \/ Delete(c, m)
    BY <1>7 DEF SendFile, Delete
<1> QED BY <1>1, <1>2, <1>3, <1>4, <1>5, <1>6, <1>7 DEF Next, SyncStep

LEMMA TroubleSteps ==
    ASSUME [Next]_vars
    PROVE  \/ UNCHANGED trouble \/ Lose
<1> USE DEF telegram, stream, badge, rows
<1>1. CASE (\E m \in Ids : PostElsewhere(m) \/ EditElsewhere(m) \/ UnsendElsewhere(m)) \/ ReadElsewhere
    BY <1>1 DEF PostElsewhere, EditElsewhere, UnsendElsewhere, ReadElsewhere
<1>2. CASE TakeStream \/ Dialogs \/ SeedChat \/ SeedRow \/ Sleep
    BY <1>2 DEF TakeStream, Dialogs, SeedChat, SeedRow, Sleep
<1>3. CASE ApplyEvent
    BY <1>3 DEF ApplyEvent, SkipDeleted, ReceiveNew, StoreNew, ReadCounter, WriteCounter,
                ReceiveEdit, ReceiveDelete
<1>4. CASE StreamRefused \/ DialogsFail \/ StreamFails \/ Revoked \/ Restart \/ UNCHANGED vars
    BY <1>4 DEF StreamRefused, DialogsFail, StreamFails, Revoked, Restart, vars
<1>5. CASE \E c \in Callers : MarkRead(c) \/ CallStep(c)
    BY <1>5 DEF MarkRead, CallStep, ResetCounter, TellRead, TellFails, ReadRow, WriteRow, DropRow
<1>6. CASE \E c \in Callers, m \in Ids : Edit(c, m) \/ React(c, m) \/ Fetch(c, m)
    BY <1>6 DEF Edit, React, Fetch
<1>7. CASE \E c \in Callers, m \in Ids : SendFile(c, m) \/ Delete(c, m)
    BY <1>7 DEF SendFile, Delete
<1> QED BY <1>1, <1>2, <1>3, <1>4, <1>5, <1>6, <1>7 DEF Next, SyncStep

-----------------------------------------------------------------------------
(* Telegram forgets nothing: what is deleted stays so, versions and ids    *)
(* grow, and the log keeps its beginning.                                  *)
LEMMA Grows ==
    ASSUME Types, PastOnly, [Next]_vars
    PROVE  /\ newest' \in Ids \cup {0} /\ newest <= newest' /\ newest \in Nat /\ newest' \in Nat
           /\ gone \subseteq gone' /\ gone' \subseteq Ids
           /\ text' \in [Ids -> Text]
           /\ \A m \in Ids : text[m] <= text'[m] /\ text[m] \in Nat /\ text'[m] \in Nat
           /\ log' \in Seq(Entry) /\ Len(log) \in Nat /\ Len(log') \in Nat
           /\ Len(log) <= Len(log')
           /\ \A k \in 1 .. Len(log) : log'[k] = log[k] /\ k \in 1 .. Len(log')
<1>0. /\ newest \in Nat /\ \A m \in Ids : text[m] \in Nat
      /\ log \in Seq(Entry) /\ Len(log) \in Nat
    BY IdFacts, LogFacts DEF Types, TypeOK
<1>1. CASE UNCHANGED telegramText
    BY <1>0, <1>1 DEF telegramText, Types, TypeOK
<1>2. ASSUME NEW m \in Ids, Posts(m), UNCHANGED <<gone, text>>
      PROVE  newest <= newest' /\ newest' \in Ids /\ log' \in Seq(Entry) /\ Len(log') = Len(log) + 1
             /\ \A k \in 1 .. Len(log) : log'[k] = log[k]
    BY <1>0, <1>2, PostsTypes
<1>3. ASSUME NEW m \in Ids, Edits(m), UNCHANGED <<newest, gone>>
      PROVE  /\ log' \in Seq(Entry) /\ Len(log') = Len(log) + 1
             /\ \A k \in 1 .. Len(log) : log'[k] = log[k]
             /\ text' \in [Ids -> Text] /\ \A n \in Ids : text[n] <= text'[n]
    BY <1>3, EditsTypes
<1>4. ASSUME NEW m \in Ids, Unsends(m), UNCHANGED <<newest, text>>
      PROVE  /\ log' \in Seq(Entry) /\ Len(log') = Len(log) + 1
             /\ \A k \in 1 .. Len(log) : log'[k] = log[k]
             /\ gone \subseteq gone' /\ gone' \subseteq Ids
    BY <1>4, UnsendsTypes
<1>5. \A m \in Ids : text'[m] = text[m] => text[m] <= text'[m]
    BY <1>0
<1>6. /\ newest' \in Ids \cup {0} /\ newest <= newest'
      /\ gone \subseteq gone' /\ gone' \subseteq Ids
      /\ text' \in [Ids -> Text] /\ \A m \in Ids : text[m] <= text'[m]
      /\ log' \in Seq(Entry) /\ (Len(log') = Len(log) \/ Len(log') = Len(log) + 1)
      /\ \A k \in 1 .. Len(log) : log'[k] = log[k]
    <2>1. CASE UNCHANGED telegramText
        BY <1>0, <1>5, <2>1 DEF telegramText, Types, TypeOK
    <2>2. CASE \E m \in Ids : Posts(m) /\ UNCHANGED <<gone, text>>
        BY <1>0, <1>2, <1>5, <2>2 DEF Types, TypeOK
    <2>3. CASE \E m \in Ids : Edits(m) /\ UNCHANGED <<newest, gone>>
        <3>1. newest' = newest /\ gone' = gone /\ newest \in Ids \cup {0} /\ gone \subseteq Ids
            BY <2>3 DEF Types, TypeOK
        <3>2. newest <= newest'
            BY <1>0, <3>1
        <3>3. /\ log' \in Seq(Entry) /\ Len(log') = Len(log) + 1
              /\ \A k \in 1 .. Len(log) : log'[k] = log[k]
              /\ text' \in [Ids -> Text] /\ \A n \in Ids : text[n] <= text'[n]
            BY <1>3, <2>3
        <3> QED BY <3>1, <3>2, <3>3
    <2>4. CASE \E m \in Ids : Unsends(m) /\ UNCHANGED <<newest, text>>
        BY <1>0, <1>4, <1>5, <2>4 DEF Types, TypeOK
    <2> QED BY <2>1, <2>2, <2>3, <2>4, TelegramSteps
<1>7. newest' \in Nat /\ \A m \in Ids : text'[m] \in Nat
    BY <1>6, IdFacts
<1>8. Len(log') \in Nat /\ Len(log) <= Len(log')
    BY <1>0, <1>6
<1>9. \A k \in 1 .. Len(log) : k \in 1 .. Len(log')
    BY <1>0, <1>8
<1> QED BY <1>0, <1>6, <1>7, <1>8, <1>9

(* A step writes one row at most, with a version Telegram has had.         *)
LEMMA OneRow ==
    ASSUME TypeOK, NEW m \in Ids, NEW v \in Text \cup {NoRow}, db' = [db EXCEPT ![m] = v]
    PROVE  /\ db' \in [Ids -> Text \cup {NoRow}] /\ db'[m] = v
           /\ \A n \in Ids \ {m} : db'[n] = db[n]
BY DEF TypeOK

LEMMA DbWrites ==
    ASSUME Types, PastOnly, LogInv, [Next]_vars
    PROVE  \/ UNCHANGED db
           \/ \E m \in Ids, v \in Text \cup {NoRow} :
                db' = [db EXCEPT ![m] = v] /\ v <= text[m] /\ (v # NoRow => m <= newest)
<1>1. \A m \in Ids : NoRow <= text[m] /\ NoRow \in Text \cup {NoRow}
    BY IdFacts DEF Types, TypeOK, NoRow
<1>2. ASSUME SeedRow \/ StoreNew
      PROVE  sync.id \in Ids /\ sync.text \in Text /\ db' = [db EXCEPT ![sync.id] = sync.text]
             /\ sync.text <= text[sync.id] /\ sync.id <= newest
    BY <1>2 DEF SeedRow, StoreNew, Types, TypeOK, InHand, Dialog, Applying
<1>3. ASSUME ReceiveEdit
      PROVE  Head1.id \in Ids /\ Carried \in Text /\ db' = [db EXCEPT ![Head1.id] = Carried]
             /\ Carried <= text[Head1.id] /\ Head1.id <= newest
    BY <1>3, HeadFacts DEF ReceiveEdit
<1>4. ASSUME ReceiveDelete
      PROVE  Head1.id \in Ids /\ db' = [db EXCEPT ![Head1.id] = NoRow]
    BY <1>4, HeadFacts DEF ReceiveDelete
<1>5. ASSUME NEW c \in Callers, WriteRow(c)
      PROVE  /\ call[c].id \in Ids /\ call[c].text \in Text
             /\ db' = [db EXCEPT ![call[c].id] = call[c].text]
             /\ call[c].text <= text[call[c].id] /\ call[c].id <= newest
    BY <1>5 DEF WriteRow, Types, TypeOK, InHand, WithRow
<1>6. ASSUME NEW c \in Callers, DropRow(c)
      PROVE  call[c].id \in Ids /\ db' = [db EXCEPT ![call[c].id] = NoRow]
    BY <1>6 DEF DropRow, Types, TypeOK, InHand, WithRow
<1> QED BY <1>1, <1>2, <1>3, <1>4, <1>5, <1>6, DbSteps

LEMMA NextPast ==
    ASSUME Types, PastOnly, LogInv, [Next]_vars
    PROVE  db' \in [Ids -> Text \cup {NoRow}] /\ serverRead' \in Ids \cup {0} /\ PastOnly'
<1>0. /\ newest \in Nat /\ newest' \in Nat /\ newest <= newest'
      /\ \A m \in Ids : /\ text[m] <= text'[m] /\ text[m] \in Nat /\ text'[m] \in Nat
                        /\ m \in Nat
    BY Grows, IdFacts
<1>1. db' \in [Ids -> Text \cup {NoRow}]
    BY DbWrites, OneRow DEF Types, TypeOK
<1>2. \A m \in Ids : db'[m] <= text[m] /\ (db'[m] # NoRow => m <= newest)
    <2>1. CASE UNCHANGED db
        BY <2>1 DEF PastOnly
    <2>2. CASE \E m \in Ids, v \in Text \cup {NoRow} :
                db' = [db EXCEPT ![m] = v] /\ v <= text[m] /\ (v # NoRow => m <= newest)
        <3> PICK m \in Ids, v \in Text \cup {NoRow} :
                db' = [db EXCEPT ![m] = v] /\ v <= text[m] /\ (v # NoRow => m <= newest)
            BY <2>2
        <3>1. db'[m] = v /\ \A n \in Ids \ {m} : db'[n] = db[n]
            BY OneRow DEF Types
        <3> QED BY <3>1 DEF PastOnly
    <2> QED BY <2>1, <2>2, DbWrites
<1>3. \A m \in Ids : db'[m] \in Int
    BY <1>1, IdFacts DEF NoRow
<1>4. \A m \in Ids : db'[m] <= text'[m] /\ (db'[m] # NoRow => m <= newest')
    BY <1>0, <1>2, <1>3
<1>5. \A m \in Ids : m \in gone' \/ text'[m] # 0 => m <= newest'
    <2>1. \A m \in Ids : m \in gone \/ text[m] # 0 => m <= newest'
        BY <1>0 DEF PastOnly
    <2>2. CASE UNCHANGED telegramText
        BY <2>1, <2>2 DEF telegramText
    <2>3. CASE \E m \in Ids : Posts(m) /\ UNCHANGED <<gone, text>>
        BY <2>1, <2>3
    <2>4. ASSUME NEW m \in Ids, Edits(m), UNCHANGED <<newest, gone>>
          PROVE  \A n \in Ids : n \in gone' \/ text'[n] # 0 => n <= newest'
        BY <2>1, <2>4, EditsTypes
    <2>5. ASSUME NEW m \in Ids, Unsends(m), UNCHANGED <<newest, text>>
          PROVE  \A n \in Ids : n \in gone' \/ text'[n] # 0 => n <= newest'
        BY <2>1, <2>5, UnsendsTypes
    <2> QED BY <2>2, <2>3, <2>4, <2>5, TelegramSteps
<1>6. serverRead' \in Ids \cup {0} /\ serverRead' <= newest /\ serverRead' \in Nat
    <2>0. serverRead \in Nat /\ serverRead <= newest /\ serverRead \in Ids \cup {0}
        BY IdFacts DEF Types, TypeOK, PastOnly
    <2>1. CASE UNCHANGED serverRead
        BY <2>0, <2>1
    <2>2. CASE ReadElsewhere
        BY <1>0, <2>2 DEF ReadElsewhere, Types, TypeOK
    <2>3. ASSUME NEW c \in Callers, TellRead(c)
          PROVE  serverRead' \in Ids \cup {0} /\ serverRead' <= newest /\ serverRead' \in Nat
        <3>1. call[c].id \in Ids \cup {0} /\ call[c].id <= newest /\ call[c].id \in Nat
            BY IdFacts DEF Types, TypeOK, InHand
        <3> DEFINE S == {serverRead, call[c].id}
        <3>2. S \in SUBSET Nat /\ (\A m \in S : m <= newest) /\ S \subseteq Ids \cup {0}
            BY <2>0, <3>1
        <3>3. MaxOf(S) \in S \cup {0} /\ MaxOf(S) <= newest
            <4> HIDE DEF S
            <4> QED BY <1>0, <3>2, MaxFacts
        <3>4. MaxOf(S) \in Ids \cup {0} /\ MaxOf(S) \in Nat
            BY <3>2, <3>3, IdFacts
        <3>5. serverRead' \in {serverRead, newest} \/ serverRead' = MaxOf(S)
            BY <2>3 DEF TellRead
        <3>6. newest \in Ids \cup {0}
            BY DEF Types, TypeOK
        <3> HIDE DEF S
        <3> QED BY <1>0, <2>0, <3>3, <3>4, <3>5, <3>6
    <2> QED BY <2>1, <2>2, <2>3, ReadSteps
<1>7. serverRead' <= newest'
    BY <1>0, <1>6
<1> QED BY <1>1, <1>4, <1>5, <1>6, <1>7 DEF PastOnly

(* What a dialog list says is a number, and of the past.                   *)
LEMMA DialogFacts ==
    ASSUME Types, PastOnly
    PROVE  /\ NotRead \subseteq Ids /\ Cardinality(NotRead) \in Nat /\ IsFiniteSet(NotRead)
           /\ LastOf \in Ids \cup {0} /\ LastOf \notin gone \ {0} /\ LastOf <= newest
           /\ \A m \in Ids : Exists(m) => m <= LastOf
           /\ LastOf # 0 => Exists(LastOf)
<1>0. newest \in Nat
    BY IdFacts DEF Types, TypeOK
<1>1. newest \in Nat /\ IsFiniteSet(1 .. newest)
    BY <1>0, FS_Interval
<1>2. NotRead \subseteq 1 .. newest /\ NotRead \subseteq Ids
    <2>1. \A m \in NotRead : m \in Ids /\ m <= newest
        BY DEF NotRead, Exists
    <2>2. \A m \in NotRead : m \in 1 .. newest
        BY <1>0, <2>1, IdFacts
    <2> QED BY <2>1, <2>2
<1>3. IsFiniteSet(NotRead)
    BY <1>1, <1>2, FS_Subset
<1>4. Cardinality(NotRead) \in Nat
    BY <1>3, FS_CardinalityType
<1> DEFINE S == {m \in Ids : Exists(m)}
<1>5. S \in SUBSET Nat /\ \A m \in S : m <= newest
    BY IdFacts DEF Exists
<1>6. /\ MaxOf(S) \in S \cup {0} /\ MaxOf(S) <= newest
      /\ \A m \in S : m <= MaxOf(S)
    <2> HIDE DEF S
    <2> QED BY <1>1, <1>5, MaxFacts
<1>7. LastOf = MaxOf(S)
    BY DEF LastOf
<1> QED BY <1>2, <1>3, <1>4, <1>6, <1>7 DEF Exists

LEMMA AtFacts ==
    ASSUME NEW stage \in SyncStages
    PROVE  /\ At(stage) \in [at : SyncStages, id : Ids \cup {0}, text : Text, n : Nat]
           /\ At(stage).at = stage /\ At(stage).id = 0
BY IdFacts DEF At

TaskTypes ==
    /\ sync \in [at : SyncStages, id : Ids \cup {0}, text : Text, n : Nat]
    /\ sync.at \in {"seedRow"} \cup Applying => sync.id \in Ids
    /\ sync.id \in Ids /\ sync.at \in Dialog \cup Applying =>
        sync.id <= newest /\ sync.text <= text[sync.id]

(* The task after a step: back at a stage that names no message, where it  *)
(* was with the same message in hand, or with a new one.                   *)
LEMMA SyncMoves ==
    ASSUME Types, PastOnly, LogInv, [Next]_vars
    PROVE  \/ UNCHANGED sync
           \/ \E stage \in SyncStages \ (Dialog \cup Applying) : sync' = At(stage)
           \/ Dialogs /\ newest # 0
           \/ SeedChat /\ sync.id # 0 /\ sync' = [sync EXCEPT !.at = "seedRow"]
           \/ ReceiveNew
           \/ StoreNew /\ sync.at = "fresh" /\ sync' = [sync EXCEPT !.at = "count"]
           \/ ReadCounter /\ unread # NoChat /\ sync' = [sync EXCEPT !.at = "bump", !.n = unread]
<1> DEFINE Rest == SyncStages \ (Dialog \cup Applying)
<1>0. "start" \in Rest /\ "ask" \in Rest /\ "live" \in Rest /\ "sleep" \in Rest
      /\ "over" \in Rest /\ "revoked" \in Rest
    BY DEF SyncStages, Dialog, Applying
<1> HIDE DEF Rest
<1>1. CASE TakeStream \/ StreamRefused \/ DialogsFail \/ StreamFails \/ Sleep \/ Revoked
           \/ WriteCounter \/ Restart \/ SeedRow
    <2>1. sync' \in {At("ask"), At("over"), At("sleep"), At("revoked"), At("live"), At("start")}
        BY <1>1 DEF TakeStream, StreamRefused, DialogsFail, StreamFails, Sleep, Revoked,
                    WriteCounter, Restart, SeedRow, SyncGoes
    <2>2. \E stage \in Rest : sync' = At(stage)
        BY <1>0, <2>1
    <2> QED BY <2>2 DEF Rest
<1>2. CASE Dialogs
    <2>1. newest # 0 \/ sync' = At("live")
        BY <1>2 DEF Dialogs
    <2> QED BY <1>0, <1>2, <2>1 DEF Rest
<1>3. CASE SeedChat
    <2>1. (sync.id # 0 /\ sync' = [sync EXCEPT !.at = "seedRow"]) \/ sync' = At("live")
        BY <1>3 DEF SeedChat
    <2> QED BY <1>0, <1>3, <2>1 DEF Rest
<1>4. CASE StoreNew
    <2>1. (sync.at = "fresh" /\ sync' = [sync EXCEPT !.at = "count"]) \/ sync' = At("live")
        BY <1>4 DEF StoreNew
    <2> QED BY <1>0, <1>4, <2>1 DEF Rest
<1>5. CASE ReadCounter
    <2>1. (unread # NoChat /\ sync' = [sync EXCEPT !.at = "bump", !.n = unread]) \/ sync' = At("live")
        BY <1>5 DEF ReadCounter
    <2> QED BY <1>0, <1>5, <2>1 DEF Rest
<1> QED BY <1>1, <1>2, <1>3, <1>4, <1>5, SyncSteps

LEMMA NextTask ==
    ASSUME Types, PastOnly, LogInv, [Next]_vars
    PROVE  TaskTypes'
<1>0. /\ newest \in Nat /\ newest' \in Nat /\ newest <= newest'
      /\ \A m \in Ids : /\ text[m] <= text'[m] /\ text[m] \in Nat /\ text'[m] \in Nat
                        /\ m \in Nat /\ m # 0
      /\ \A v \in Text : v \in Nat
    BY Grows, IdFacts
<1>1. TaskTypes
    BY DEF Types, TypeOK, InHand, TaskTypes
<1>2. ASSUME NEW m \in Ids, NEW v \in Text
      PROVE  (m <= newest => m <= newest') /\ (v <= text[m] => v <= text'[m])
    BY <1>0
<1>3. CASE UNCHANGED sync
    BY <1>1, <1>2, <1>3 DEF TaskTypes
<1>4. CASE \E stage \in SyncStages \ (Dialog \cup Applying) : sync' = At(stage)
    <2> PICK stage \in SyncStages \ (Dialog \cup Applying) : sync' = At(stage)
        BY <1>4
    <2>1. "seedRow" \in Dialog
        BY DEF Dialog
    <2> QED BY <2>1, AtFacts DEF TaskTypes
<1>5. CASE Dialogs /\ newest # 0
    <2>1. sync' = [at |-> "seedChat", id |-> LastOf, text |-> IF LastOf = 0 THEN 0 ELSE text[LastOf],
                   n |-> Cardinality(NotRead)]
        BY <1>5 DEF Dialogs
    <2>2. newest' = newest /\ text' = text
        BY <1>5 DEF Dialogs, telegram
    <2>3. Cardinality(NotRead) \in Nat /\ LastOf \in Ids \cup {0} /\ LastOf <= newest
        BY DialogFacts
    <2>4. (IF LastOf = 0 THEN 0 ELSE text[LastOf]) \in Text
        BY <2>3, IdFacts DEF Types, TypeOK
    <2>5. "seedChat" \in SyncStages
        BY DEF SyncStages
    <2>6. sync' \in [at : SyncStages, id : Ids \cup {0}, text : Text, n : Nat]
        BY <2>1, <2>3, <2>4, <2>5
    <2>7. sync'.id \in Ids => sync'.id <= newest' /\ sync'.text <= text'[sync'.id]
        BY <1>0, <2>1, <2>2, <2>3
    <2>8. sync'.at \notin {"seedRow"} \cup Applying
        BY <2>1 DEF Applying
    <2> QED BY <2>6, <2>7, <2>8 DEF TaskTypes
<1>6. CASE SeedChat /\ sync.id # 0 /\ sync' = [sync EXCEPT !.at = "seedRow"]
    <2>1. sync.id \in Ids /\ sync.at \in Dialog
        BY <1>1, <1>6 DEF TaskTypes, SeedChat, Dialog
    <2>2. sync' \in [at : SyncStages, id : Ids \cup {0}, text : Text, n : Nat]
          /\ sync'.id = sync.id /\ sync'.text = sync.text
        BY <1>1, <1>6 DEF TaskTypes, SyncStages
    <2>3. newest' = newest /\ text' = text
        BY <1>6 DEF SeedChat, telegram
    <2> QED BY <1>1, <2>1, <2>2, <2>3 DEF TaskTypes
<1>7. CASE ReceiveNew
    <2>1. Receive("new")
        BY <1>7 DEF ReceiveNew
    <2>2. Head1.id \in Ids /\ Head1.id <= newest /\ Carried \in Text /\ Carried <= text[Head1.id]
        BY <2>1, HeadFacts
    <2>3. newest' = newest /\ text' = text
        BY <1>7 DEF ReceiveNew, telegram
    <2>4. PICK stage \in {"fresh", "known"} :
                sync' = [at |-> stage, id |-> Head1.id, text |-> Carried, n |-> 0]
        BY <1>7 DEF ReceiveNew
    <2>5. stage \in SyncStages
        BY <2>4 DEF SyncStages
    <2> QED BY <2>2, <2>3, <2>4, <2>5 DEF TaskTypes
<1>8. CASE StoreNew /\ sync.at = "fresh" /\ sync' = [sync EXCEPT !.at = "count"]
    <2>1. sync.id \in Ids /\ sync.at \in Applying
        BY <1>1, <1>8 DEF TaskTypes, StoreNew, Applying
    <2>2. sync' \in [at : SyncStages, id : Ids \cup {0}, text : Text, n : Nat]
          /\ sync'.id = sync.id /\ sync'.text = sync.text
        BY <1>1, <1>8 DEF TaskTypes, SyncStages
    <2>3. newest' = newest /\ text' = text
        BY <1>8 DEF StoreNew, telegram
    <2> QED BY <1>1, <2>1, <2>2, <2>3 DEF TaskTypes
<1>9. CASE ReadCounter /\ unread # NoChat /\ sync' = [sync EXCEPT !.at = "bump", !.n = unread]
    <2>1. sync.id \in Ids /\ sync.at \in Applying
        BY <1>1, <1>9 DEF TaskTypes, ReadCounter, Applying
    <2>0. unread \in Nat
        BY <1>9 DEF Types, TypeOK
    <2>2. sync' \in [at : SyncStages, id : Ids \cup {0}, text : Text, n : Nat]
          /\ sync'.id = sync.id /\ sync'.text = sync.text
        BY <1>1, <1>9, <2>0 DEF TaskTypes, SyncStages
    <2>3. newest' = newest /\ text' = text
        BY <1>9 DEF ReadCounter, telegram
    <2> QED BY <1>1, <2>1, <2>2, <2>3 DEF TaskTypes
<1> QED BY <1>3, <1>4, <1>5, <1>6, <1>7, <1>8, <1>9, SyncMoves

CallRec == [at : CallStages, id : Ids \cup {0}, text : Text]

Held(r, n, t) ==
    /\ r \in CallRec
    /\ r.id <= n
    /\ r.at \in WithRow => r.id \in Ids /\ r.text <= t[r.id]

LEMMA StoredFacts ==
    ASSUME Types, PastOnly
    PROVE  /\ Stored \subseteq Ids /\ MaxOf(Stored) \in Ids \cup {0} /\ MaxOf(Stored) <= newest
           /\ \A m \in Stored : m <= MaxOf(Stored)
<1>1. Stored \in SUBSET Nat /\ (\A m \in Stored : m <= newest) /\ Stored \subseteq Ids
    BY IdFacts DEF Stored, PastOnly
<1>2. newest \in Nat
    BY IdFacts DEF Types, TypeOK
<1>3. MaxOf(Stored) \in Stored \cup {0} /\ MaxOf(Stored) <= newest
      /\ \A m \in Stored : m <= MaxOf(Stored)
    BY <1>1, <1>2, MaxFacts
<1> QED BY <1>1, <1>3

LEMMA CallMoves ==
    ASSUME Types, PastOnly, LogInv, [Next]_vars
    PROVE  \/ UNCHANGED call \/ call' = [c \in Callers |-> Idle]
           \/ \E c \in Callers, r \in CallRec :
                call' = [call EXCEPT ![c] = r] /\ Held(r, newest', text')
<1>0. /\ newest \in Nat /\ newest' \in Nat /\ newest <= newest'
      /\ \A m \in Ids : /\ text[m] <= text'[m] /\ text[m] \in Nat /\ text'[m] \in Nat
                        /\ m \in Nat /\ m # 0
      /\ \A v \in Text : v \in Nat
      /\ 0 \in Text
    BY Grows, IdFacts
<1>1. Held(Idle, newest', text')
    <2>1. Idle \in CallRec /\ Idle.id = 0 /\ Idle.at \notin WithRow
        BY IdFacts DEF Idle, CallRec, CallStages, WithRow
    <2> QED BY <1>0, <2>1 DEF Held
<1>2. \A c \in Callers : Held(call[c], newest, text)
    BY DEF Held, CallRec, Types, TypeOK, InHand
<1>3. \A r \in CallRec : Held(r, newest, text) => Held(r, newest', text')
    <2> SUFFICES ASSUME NEW r \in CallRec, Held(r, newest, text)
                 PROVE  Held(r, newest', text')
        OBVIOUS
    <2>1. r.id \in Nat /\ r.text \in Nat /\ r.id <= newest
        BY <1>0, IdFacts DEF CallRec, Held
    <2>2. r.id <= newest'
        BY <1>0, <2>1
    <2>3. ASSUME r.at \in WithRow PROVE r.id \in Ids /\ r.text <= text'[r.id]
        <3>1. r.id \in Ids /\ r.text <= text[r.id]
            BY <2>3 DEF Held
        <3>2. text[r.id] <= text'[r.id] /\ text[r.id] \in Nat /\ text'[r.id] \in Nat
            BY <1>0, <3>1
        <3> QED BY <2>1, <3>1, <3>2
    <2> QED BY <2>2, <2>3 DEF Held
<1>4. ASSUME NEW stage \in CallStages, NEW m \in Ids, NEW v \in Text, m <= newest', v <= text'[m]
      PROVE  Held([at |-> stage, id |-> m, text |-> v], newest', text')
    <2>1. [at |-> stage, id |-> m, text |-> v] \in CallRec
        BY DEF CallRec
    <2> QED BY <1>4, <2>1 DEF Held
<1>5. /\ "zero" \in CallStages \ WithRow /\ "tell" \in CallStages \ WithRow
      /\ "edit" \in CallStages /\ "react" \in CallStages /\ "put" \in CallStages
      /\ "store" \in CallStages /\ "drop" \in CallStages
    BY DEF CallStages, WithRow
<1>6. ASSUME NEW c \in Callers, MarkRead(c)
      PROVE  \E r \in CallRec : call' = [call EXCEPT ![c] = r] /\ Held(r, newest', text')
    <2> DEFINE r == [at |-> "zero", id |-> MaxOf(Stored), text |-> 0]
    <2>1. call' = [call EXCEPT ![c] = r]
        BY <1>6 DEF MarkRead, Begin
    <2>2. r \in CallRec
        BY <1>0, <1>5, StoredFacts DEF CallRec
    <2>3. newest' = newest
        BY <1>6 DEF MarkRead, telegram
    <2>4. Held(r, newest', text')
        BY <1>5, <2>2, <2>3, StoredFacts DEF Held
    <2> HIDE DEF r
    <2> QED BY <2>1, <2>2, <2>4
<1>7. ASSUME NEW c \in Callers, ResetCounter(c)
      PROVE  \E r \in CallRec : call' = [call EXCEPT ![c] = r] /\ Held(r, newest', text')
    <2> DEFINE r == [call[c] EXCEPT !.at = "tell"]
    <2>1. call' = [call EXCEPT ![c] = r]
        BY <1>7 DEF ResetCounter
    <2>2. call[c] \in CallRec /\ call[c].id <= newest /\ call[c].id \in Nat
        BY <1>2, IdFacts DEF Held, CallRec
    <2>3. r \in CallRec /\ r.at = "tell" /\ r.id = call[c].id
        BY <1>5, <2>2 DEF CallRec
    <2>4. r.id <= newest'
        BY <1>0, <2>2, <2>3
    <2>5. Held(r, newest', text')
        BY <1>5, <2>3, <2>4 DEF Held
    <2> QED BY <2>1, <2>3, <2>5
<1>8. ASSUME NEW c \in Callers, TellRead(c) \/ TellFails(c) \/ WriteRow(c) \/ DropRow(c)
      PROVE  call' = [call EXCEPT ![c] = Idle]
    BY <1>8 DEF TellRead, TellFails, WriteRow, DropRow, Return
<1>9. ASSUME NEW c \in Callers, ReadRow(c)
      PROVE  \E r \in CallRec : call' = [call EXCEPT ![c] = r] /\ Held(r, newest', text')
    <2> DEFINE v == IF call[c].at = "edit" THEN call[c].text ELSE db[call[c].id]
    <2>1. call[c].id \in Ids /\ call[c].id <= newest /\ call[c].text \in Text
          /\ call[c].text <= text[call[c].id]
        BY <1>2, <1>9 DEF ReadRow, Held, CallRec, WithRow
    <2>2. CASE db[call[c].id] = NoRow
        <3>1. call' = [call EXCEPT ![c] = Idle]
            BY <1>9, <2>2 DEF ReadRow, Types, TypeOK
        <3> QED BY <1>1, <3>1 DEF Held
    <2>3. CASE db[call[c].id] # NoRow
        <3>1. call' = [call EXCEPT ![c] = [at |-> "put", id |-> call[c].id, text |-> v]]
            BY <1>9, <2>3 DEF ReadRow, Types, TypeOK
        <3>2. newest' = newest /\ text' = text
            BY <1>9 DEF ReadRow, telegram
        <3>3. v \in Text /\ v <= text'[call[c].id]
            BY <2>1, <2>3, <3>2 DEF Types, TypeOK, PastOnly
        <3> HIDE DEF v
        <3> DEFINE r == [at |-> "put", id |-> call[c].id, text |-> v]
        <3>4. Held(r, newest', text')
            BY <1>4, <1>5, <2>1, <3>2, <3>3
        <3>5. r \in CallRec
            BY <3>4 DEF Held
        <3> HIDE DEF r
        <3> QED BY <3>1, <3>4, <3>5 DEF r
    <2> QED BY <2>2, <2>3
<1>10. ASSUME NEW c \in Callers, NEW m \in Ids,
              Edit(c, m) \/ React(c, m) \/ Fetch(c, m) \/ SendFile(c, m) \/ Delete(c, m)
       PROVE  \E r \in CallRec : call' = [call EXCEPT ![c] = r] /\ Held(r, newest', text')
    <2>1. \E stage \in CallStages, v \in Text :
            call' = [call EXCEPT ![c] = [at |-> stage, id |-> m, text |-> v]]
            /\ m <= newest' /\ v <= text'[m]
        <3>1. CASE Edit(c, m)
            <4>1. Edits(m) /\ newest' = newest /\ gone' = gone
                  /\ call' = [call EXCEPT ![c] = [at |-> "edit", id |-> m, text |-> text[m] + 1]]
                BY <3>1 DEF Edit, Begin
            <4>2. /\ text' = [text EXCEPT ![m] = text[m] + 1] /\ text[m] + 1 \in Text /\ m <= newest
                BY <4>1, EditsTypes
            <4>3. text'[m] = text[m] + 1 /\ text[m] + 1 <= text'[m]
                BY <1>0, <4>2 DEF Types, TypeOK
            <4> QED BY <1>5, <4>1, <4>2, <4>3
        <3>2. CASE React(c, m)
            <4>1. m <= newest' /\ call' = [call EXCEPT ![c] = [at |-> "react", id |-> m, text |-> 0]]
                BY <3>2 DEF React, Exists, Begin, telegram
            <4>2. 0 <= text'[m]
                BY <1>0
            <4> QED BY <1>0, <1>5, <4>1, <4>2
        <3>3. CASE Fetch(c, m)
            <4>1. m <= newest' /\ call' = [call EXCEPT ![c] = [at |-> "store", id |-> m, text |-> text[m]]]
                  /\ text' = text
                BY <3>3 DEF Fetch, Exists, Begin, telegram
            <4>2. text[m] <= text'[m] /\ text[m] \in Text
                BY <1>0 DEF Types, TypeOK
            <4> QED BY <1>0, <1>5, <4>1, <4>2
        <3>4. CASE SendFile(c, m)
            <4>1. newest' = m /\ call' = [call EXCEPT ![c] = [at |-> "store", id |-> m, text |-> 0]]
                BY <3>4 DEF SendFile, Posts, Begin
            <4>2. 0 <= text'[m] /\ m <= newest'
                BY <1>0, <4>1
            <4> QED BY <1>0, <1>5, <4>1, <4>2
        <3>5. CASE Delete(c, m)
            <4>1. m <= newest' /\ call' = [call EXCEPT ![c] = [at |-> "drop", id |-> m, text |-> 0]]
                BY <3>5 DEF Delete, Unsends, Exists, Begin
            <4>2. 0 <= text'[m]
                BY <1>0
            <4> QED BY <1>0, <1>5, <4>1, <4>2
        <3> QED BY <1>10, <3>1, <3>2, <3>3, <3>4, <3>5
    <2>2. PICK stage \in CallStages, v \in Text :
            call' = [call EXCEPT ![c] = [at |-> stage, id |-> m, text |-> v]]
            /\ m <= newest' /\ v <= text'[m]
        BY <2>1
    <2> DEFINE r == [at |-> stage, id |-> m, text |-> v]
    <2>3. Held(r, newest', text')
        BY <1>4, <2>2
    <2>4. r \in CallRec
        BY <2>3 DEF Held
    <2> HIDE DEF r
    <2> QED BY <2>2, <2>3, <2>4 DEF r
<1>11. CASE Restart
    BY <1>11 DEF Restart
<1>12. Idle \in CallRec
    BY <1>1 DEF Held
<1> QED BY <1>1, <1>6, <1>7, <1>8, <1>9, <1>10, <1>11, <1>12, CallSteps DEF CallStep

CallsHeld == call \in [Callers -> CallRec] /\ \A c \in Callers : Held(call[c], newest, text)

LEMMA NextCalls ==
    ASSUME Types, PastOnly, LogInv, [Next]_vars
    PROVE  CallsHeld'
<1>0. /\ newest \in Nat /\ newest' \in Nat /\ newest <= newest'
      /\ \A m \in Ids : text[m] <= text'[m] /\ text[m] \in Nat /\ text'[m] \in Nat
      /\ \A v \in Text : v \in Nat
    BY Grows, IdFacts
<1>1. /\ call \in [Callers -> CallRec]
      /\ \A c \in Callers : Held(call[c], newest', text')
    <2>1. call \in [Callers -> CallRec]
        BY DEF CallRec, Types, TypeOK
    <2> SUFFICES ASSUME NEW c \in Callers PROVE Held(call[c], newest', text')
        BY <2>1
    <2>2. call[c] \in CallRec /\ call[c].id <= newest /\ call[c].id \in Nat /\ call[c].text \in Nat
        BY <1>0, <2>1, IdFacts DEF CallRec, Types, InHand
    <2>3. call[c].id <= newest'
        BY <1>0, <2>2
    <2>4. ASSUME call[c].at \in WithRow
          PROVE  call[c].id \in Ids /\ call[c].text <= text'[call[c].id]
        <3>1. call[c].id \in Ids /\ call[c].text <= text[call[c].id]
            BY <2>4 DEF Types, InHand
        <3>2. /\ text[call[c].id] <= text'[call[c].id]
              /\ text[call[c].id] \in Nat /\ text'[call[c].id] \in Nat
            BY <1>0, <3>1
        <3> QED BY <2>2, <3>1, <3>2
    <2> QED BY <2>2, <2>3, <2>4 DEF Held
<1>2. Held(Idle, newest', text') /\ Idle \in CallRec
    BY <1>0, IdFacts DEF Held, Idle, CallRec, CallStages, WithRow
<1>3. CASE UNCHANGED call
    BY <1>1, <1>3 DEF CallsHeld
<1>4. CASE call' = [c \in Callers |-> Idle]
    BY <1>2, <1>4 DEF CallsHeld
<1>5. CASE \E c \in Callers, r \in CallRec :
                call' = [call EXCEPT ![c] = r] /\ Held(r, newest', text')
    <2> PICK c \in Callers, r \in CallRec :
                call' = [call EXCEPT ![c] = r] /\ Held(r, newest', text')
        BY <1>5
    <2>1. call' \in [Callers -> CallRec] /\ \A d \in Callers : call'[d] = IF d = c THEN r ELSE call[d]
        BY <1>1
    <2> QED BY <1>1, <2>1 DEF CallsHeld
<1> QED BY <1>3, <1>4, <1>5, CallMoves

(* The stream moves forward, or back to the watermark.                     *)
LEMMA NextStream ==
    ASSUME Types, PastOnly, LogInv, StreamInv, [Next]_vars
    PROVE  /\ pos' \in 0 .. Len(log') /\ top' \in 0 .. Len(log') /\ saved' \in 0 .. Len(log')
           /\ StreamInv' /\ top <= top'
<1>0. /\ Len(log) \in Nat /\ Len(log') \in Nat /\ Len(log) <= Len(log')
      /\ pos \in Nat /\ top \in Nat /\ saved \in Nat
      /\ pos <= Len(log) /\ top <= Len(log) /\ saved <= Len(log)
      /\ saved <= pos /\ pos <= top
    BY Grows DEF Types, TypeOK, StreamInv
<1>1. CASE UNCHANGED stream
    BY <1>0, <1>1 DEF stream, StreamInv
<1>2. CASE StreamFails
    BY <1>0, <1>2 DEF StreamFails, StreamInv
<1>3. CASE Restart
    BY <1>0, <1>3 DEF Restart, StreamInv
<1>4. CASE SkipDeleted \/ ReceiveNew \/ ReceiveEdit \/ ReceiveDelete
    <2>1. /\ pos < Len(log) /\ pos' = pos + 1 /\ saved' = saved
          /\ top' = IF pos < top THEN top ELSE pos + 1
        BY <1>4 DEF SkipDeleted, ReceiveNew, ReceiveEdit, ReceiveDelete, Receive, Replay
    <2> QED BY <1>0, <2>1 DEF StreamInv
<1> QED BY <1>1, <1>2, <1>3, <1>4, StreamSteps

LEMMA NextUnread ==
    ASSUME Types, [Next]_vars
    PROVE  unread' \in Nat \cup {NoChat}
<1>1. CASE UNCHANGED unread
    BY <1>1 DEF Types, TypeOK
<1>2. CASE SeedChat \/ WriteCounter
    <2>1. sync.n \in Nat /\ (unread' = sync.n \/ unread' = sync.n + 1)
        BY <1>2 DEF SeedChat, WriteCounter, Types, TypeOK
    <2> QED BY <2>1
<1>3. CASE \E c \in Callers : ResetCounter(c)
    BY <1>3 DEF ResetCounter
<1> QED BY <1>1, <1>2, <1>3, UnreadSteps

LEMMA NextDelays ==
    ASSUME Types, [Next]_vars
    PROVE  delay' \in Nat \ {0}
<1>1. CASE delay' = delay \/ delay' = FirstDelay
    BY <1>1, DelayAssumption DEF Types, TypeOK
<1>2. CASE Sleep
    <2>1. delay' = NextDelay(delay) /\ delay \in Nat \ {0}
        BY <1>2 DEF Sleep, Types, TypeOK
    <2> QED BY <2>1, DelayAssumption DEF NextDelay
<1>3. CASE TakeStream \/ StreamRefused \/ Dialogs \/ SeedChat \/ SeedRow \/ DialogsFail \/ StreamFails
           \/ Revoked \/ ReceiveNew \/ StoreNew \/ ReadCounter \/ WriteCounter \/ Restart
    <2>1. delay' = delay \/ delay' = FirstDelay
        BY <1>3 DEF TakeStream, StreamRefused, Dialogs, SeedChat, SeedRow, DialogsFail, StreamFails,
                    Revoked, ReceiveNew, StoreNew, ReadCounter, WriteCounter, Restart
    <2> QED BY <1>1, <2>1
<1> QED BY <1>1, <1>2, <1>3, SyncSteps

LEMMA NextCounters ==
    ASSUME Types, [Next]_vars
    PROVE  made' \in 0 .. MaxCalls /\ trouble' \in 0 .. MaxTrouble
<1>0. made \in Nat /\ trouble \in Nat /\ made <= MaxCalls /\ trouble <= MaxTrouble
    BY BoundsAssumption DEF Types, TypeOK
<1>1. made' = made \/ (made < MaxCalls /\ made' = made + 1)
    <2>1. ASSUME NEW c \in Callers, NEW m \in Ids, Edit(c, m) \/ React(c, m) \/ Fetch(c, m)
                 \/ SendFile(c, m) \/ Delete(c, m)
          PROVE  made < MaxCalls /\ made' = made + 1
        BY <2>1 DEF Edit, React, Fetch, SendFile, Delete, Begin
    <2>2. ASSUME NEW c \in Callers, MarkRead(c) PROVE made < MaxCalls /\ made' = made + 1
        BY <2>2 DEF MarkRead, Begin
    <2>3. ASSUME NEW c \in Callers, CallStep(c) PROVE made' = made
        BY <2>3 DEF CallStep, ResetCounter, TellRead, TellFails, ReadRow, WriteRow, DropRow
    <2>4. CASE Restart
        BY <2>4 DEF Restart
    <2> QED BY <2>1, <2>2, <2>3, <2>4, CallSteps
<1>2. trouble' = trouble \/ (trouble < MaxTrouble /\ trouble' = trouble + 1)
    BY TroubleSteps DEF Lose
<1> QED BY <1>0, <1>1, <1>2, BoundsAssumption

LEMMA NextHistory ==
    ASSUME Types, PastOnly, LogInv, [Next]_vars
    PROVE  /\ counted' \subseteq Ids /\ aside' \subseteq Ids /\ cleared' \subseteq Ids
           /\ overtaken' \subseteq Ids /\ raced' \subseteq Ids /\ erased' \subseteq Ids
           /\ revived' \subseteq Ids
           /\ counted \subseteq counted' /\ aside \subseteq aside' /\ cleared \subseteq cleared'
           /\ overtaken \subseteq overtaken' /\ raced \subseteq raced' /\ erased \subseteq erased'
           /\ revived \subseteq revived'
<1>0. /\ counted \subseteq Ids /\ aside \subseteq Ids /\ cleared \subseteq Ids /\ overtaken \subseteq Ids
      /\ raced \subseteq Ids /\ erased \subseteq Ids /\ revived \subseteq Ids
    BY DEF Types, TypeOK
<1>1. sync.at \in Applying => sync.id \in Ids
    BY DEF Types, InHand
<1>2. \A kind : Receive(kind) => Head1.id \in Ids
    BY HeadFacts
<1>3. \A c \in Callers : call[c].at \in WithRow => call[c].id \in Ids
    BY DEF Types, InHand
<1>4. /\ counted' \subseteq Ids /\ aside' \subseteq Ids /\ cleared' \subseteq Ids
      /\ overtaken' \subseteq Ids
      /\ counted \subseteq counted' /\ aside \subseteq aside' /\ cleared \subseteq cleared'
      /\ overtaken \subseteq overtaken'
    <2>1. CASE UNCHANGED badge
        BY <1>0, <2>1 DEF badge
    <2>2. CASE WriteCounter
        BY <1>0, <1>1, <2>2 DEF WriteCounter, Applying
    <2>3. CASE ReceiveEdit
        BY <1>0, <1>2, <2>3 DEF ReceiveEdit, NewAside
    <2>4. CASE Restart
        BY <1>0, <1>1, <2>4 DEF Restart, HalfCounted, Applying
    <2>5. CASE \E c \in Callers : ResetCounter(c)
        <3>1. Seeding \subseteq Ids /\ Stored \subseteq Ids
            BY DEF Seeding, Stored, Types, InHand
        <3> QED BY <1>0, <2>5, <3>1 DEF ResetCounter
    <2>6. CASE \E c \in Callers : WriteRow(c)
        BY <1>0, <1>3, <2>6 DEF WriteRow, NewAside, WithRow
    <2> QED BY <2>1, <2>2, <2>3, <2>4, <2>5, <2>6, BadgeSteps
<1>5. /\ raced' \subseteq Ids /\ erased' \subseteq Ids /\ revived' \subseteq Ids
      /\ raced \subseteq raced' /\ erased \subseteq erased' /\ revived \subseteq revived'
    <2>1. CASE UNCHANGED rows
        BY <1>0, <2>1 DEF rows
    <2>2. CASE ReceiveDelete
        BY <1>0, <1>2, <2>2 DEF ReceiveDelete
    <2>3. CASE \E c \in Callers : WriteRow(c)
        BY <1>0, <1>3, <2>3 DEF WriteRow, WithRow
    <2> QED BY <2>1, <2>2, <2>3, RowsSteps
<1> QED BY <1>4, <1>5

LEMMA NextTypes ==
    ASSUME Types, PastOnly, LogInv, StreamInv, [Next]_vars
    PROVE  Types'
<1>1. TaskTypes'
    BY NextTask
<1>2. CallsHeld'
    BY NextCalls
<1>3. log' \in Seq([kind : {"new", "edit", "delete"}, id : Ids, text : Text])
    BY Grows DEF Entry
<1>4. call' \in [Callers -> [at : CallStages, id : Ids \cup {0}, text : Text]]
    BY <1>2 DEF CallsHeld, CallRec
<1>5. newest' \in Ids \cup {0} /\ gone' \subseteq Ids /\ text' \in [Ids -> Text]
    BY Grows
<1>6. db' \in [Ids -> Text \cup {NoRow}] /\ serverRead' \in Ids \cup {0}
    BY NextPast
<1>7. pos' \in 0 .. Len(log') /\ top' \in 0 .. Len(log') /\ saved' \in 0 .. Len(log')
    BY NextStream
<1>8. TypeOK'
    BY <1>1, <1>3, <1>4, <1>5, <1>6, <1>7, NextUnread, NextDelays, NextCounters, NextHistory
    DEF TypeOK, TaskTypes
<1>9. InHand'
    BY <1>1, <1>2 DEF InHand, TaskTypes, CallsHeld, Held
<1> QED BY <1>8, <1>9 DEF Types

Grounds == Types /\ PastOnly /\ LogInv /\ StreamInv

LEMMA InitGrounds == Init => Grounds
<1> SUFFICES ASSUME Init PROVE Grounds
    OBVIOUS
<1>0. log = <<>> /\ Len(log) = 0
    BY DEF Init
<1>1. newest \in Nat /\ newest \in Ids \cup {0} /\ serverRead \in Ids \cup {0} /\ serverRead <= newest
    BY IdFacts DEF Init
<1>2. FirstDelay \in Nat \ {0} /\ MaxCalls \in Nat /\ MaxTrouble \in Nat /\ 0 \in Text
    BY DelayAssumption, BoundsAssumption, IdFacts
<1>3. At("start") \in [at : SyncStages, id : Ids \cup {0}, text : Text, n : Nat]
      /\ At("start").at = "start" /\ At("start").id = 0
    BY AtFacts DEF SyncStages
<1>4. Idle \in [at : CallStages, id : Ids \cup {0}, text : Text] /\ Idle.id = 0 /\ Idle.at = "idle"
    BY <1>2 DEF Idle, CallStages
<1>5. log \in Seq([kind : {"new", "edit", "delete"}, id : Ids, text : Text])
    BY <1>0
<1>6. pos \in 0 .. Len(log) /\ top \in 0 .. Len(log) /\ saved \in 0 .. Len(log)
    BY <1>0 DEF Init
<1>7. TypeOK
    BY <1>1, <1>2, <1>3, <1>4, <1>5, <1>6 DEF Init, TypeOK
<1>8. InHand
    BY <1>1, <1>3, <1>4, IdFacts DEF Init, InHand, Applying, Dialog, WithRow
<1>9. PastOnly
    BY <1>1 DEF Init, PastOnly, NoRow
<1>10. LogInv
    BY <1>0 DEF Init, LogInv, LogOrder
<1>11. StreamInv
    BY DEF Init, StreamInv
<1> QED BY <1>7, <1>8, <1>9, <1>10, <1>11 DEF Grounds, Types

LEMMA NextGrounds == Grounds /\ [Next]_vars => Grounds'
<1> SUFFICES ASSUME Grounds, [Next]_vars PROVE Grounds'
    OBVIOUS
<1>1. Types /\ PastOnly /\ LogInv /\ StreamInv
    BY DEF Grounds
<1> QED BY <1>1, NextTypes, NextPast, NextLog, NextStream DEF Grounds

(* The type invariant: Telegram, the store, the task and the calls keep to *)
(* their types.                                                            *)
THEOREM TypeCorrect == Spec => []TypeOK
<1>1. Grounds => TypeOK
    BY DEF Grounds, Types
<1> QED BY <1>1, InitGrounds, NextGrounds, PTL DEF Spec

-----------------------------------------------------------------------------
(* No message is counted twice.                                            *)

LEMMA ReceiveFacts ==
    ASSUME Grounds, NEW kind, Receive(kind), log' = log
    PROVE  /\ Head1 \in Entry /\ Head1.kind = kind /\ Head1.id \in Ids /\ Head1.id <= newest
           /\ kind \in {"new", "edit"} => Carried \in Text /\ Carried <= text[Head1.id]
           /\ pos \in Nat /\ top \in Nat /\ Len(log) \in Nat /\ pos + 1 \in 1 .. Len(log)
           /\ Head1 = log[pos + 1] /\ pos' = pos + 1 /\ pos <= top
           /\ IF Replay THEN top' = top /\ pos + 1 \in 1 .. top
                        ELSE top' = pos + 1 /\ pos = top
           /\ sync.at = "live"
<1>1. /\ Head1 \in Entry /\ Head1.kind = kind /\ Head1.id \in Ids /\ Head1.id <= newest
      /\ kind \in {"new", "edit"} => Carried \in Text /\ Carried <= text[Head1.id]
      /\ pos + 1 \in 1 .. Len(log) /\ Head1 = log[pos + 1]
    BY HeadFacts DEF Grounds
<1>2. pos \in Nat /\ top \in Nat /\ Len(log) \in Nat /\ pos <= top
    BY LogFacts DEF Grounds, Types, TypeOK, StreamInv
<1>3. pos' = pos + 1 /\ top' = (IF Replay THEN top ELSE pos + 1) /\ sync.at = "live"
    BY DEF Receive
<1>4. IF Replay THEN top' = top /\ pos + 1 \in 1 .. top ELSE top' = pos + 1 /\ pos = top
    BY <1>2, <1>3 DEF Replay
<1> QED BY <1>1, <1>2, <1>3, <1>4

(* The task learns of a message only by receiving the update.              *)
LEMMA ToldMoves ==
    ASSUME Grounds, [Next]_vars, NEW kind, NEW m
    PROVE  Told(kind, m)' <=> Told(kind, m) \/ (Receive(kind) /\ Head1.id = m /\ log' = log)
<1>0. /\ Len(log) \in Nat /\ top \in Nat /\ top <= Len(log)
      /\ \A k \in 1 .. Len(log) : log'[k] = log[k]
    <2>1. Len(log) \in Nat /\ \A k \in 1 .. Len(log) : log'[k] = log[k]
        BY Grows DEF Grounds
    <2>2. top \in 0 .. Len(log)
        BY DEF Grounds, Types, TypeOK
    <2> QED BY <2>1, <2>2
<1>1. \A k \in 1 .. top : log'[k] = log[k]
    BY <1>0
<1>2. CASE ~ \E any : Receive(any) /\ log' = log
    <2>1. top' = top
        <3>1. CASE UNCHANGED stream
            BY <3>1 DEF stream
        <3>2. CASE StreamFails \/ Restart
            BY <3>2 DEF StreamFails, Restart
        <3>3. CASE SkipDeleted \/ ReceiveNew \/ ReceiveEdit \/ ReceiveDelete
            BY <1>2, <3>3 DEF SkipDeleted, ReceiveNew, ReceiveEdit, ReceiveDelete, telegram
        <3> QED BY <3>1, <3>2, <3>3, StreamSteps
    <2> QED BY <1>1, <1>2, <2>1 DEF Told
<1>3. ASSUME NEW any, Receive(any), log' = log
      PROVE  Told(kind, m)' <=> Told(kind, m) \/ (Receive(kind) /\ Head1.id = m /\ log' = log)
    <2>1. /\ Head1.kind = any /\ Head1 = log[pos + 1] /\ pos \in Nat
          /\ IF Replay THEN top' = top /\ pos + 1 \in 1 .. top ELSE top' = pos + 1 /\ pos = top
        BY <1>3, ReceiveFacts
    <2>2. Receive(kind) <=> kind = any
        BY <1>3, <2>1 DEF Receive
    <2>3. CASE Replay
        BY <1>3, <2>1, <2>2, <2>3 DEF Told
    <2>4. CASE ~ Replay
        <3>1. \A k : k \in 1 .. top' <=> k \in 1 .. top \/ k = pos + 1
            BY <2>1, <2>4
        <3> QED BY <1>3, <2>1, <2>2, <3>1 DEF Told
    <2> QED BY <2>3, <2>4
<1> QED BY <1>2, <1>3

(* A row goes only with its message.                                       *)
LEMMA RowsGo ==
    ASSUME Grounds, CountInv, [Next]_vars, NEW m \in Ids, db[m] # NoRow
    PROVE  db'[m] # NoRow \/ m \in gone
<1> USE DEF Grounds
<1>0. \A v \in Text : v # NoRow
    BY IdFacts
<1>1. CASE UNCHANGED db
    BY <1>1
<1>2. CASE SeedRow \/ StoreNew
    <2>1. sync.text \in Text /\ db' = [db EXCEPT ![sync.id] = sync.text]
        BY <1>2 DEF SeedRow, StoreNew, Types, TypeOK
    <2> QED BY <1>0, <2>1 DEF Types, TypeOK
<1>3. CASE ReceiveEdit
    <2>1. Carried \in Text /\ db' = [db EXCEPT ![Head1.id] = Carried]
        BY <1>3, HeadFacts DEF ReceiveEdit
    <2> QED BY <1>0, <2>1 DEF Types, TypeOK
<1>4. CASE ReceiveDelete
    <2>1. /\ db' = [db EXCEPT ![Head1.id] = NoRow] /\ Head1 = log[pos + 1] /\ Head1.kind = "delete"
          /\ pos + 1 \in 1 .. Len(log)
        BY <1>4, HeadFacts DEF ReceiveDelete
    <2>2. Head1.id \in gone
        BY <2>1 DEF LogInv
    <2> QED BY <2>1, <2>2 DEF Types, TypeOK
<1>5. ASSUME NEW c \in Callers, WriteRow(c)
      PROVE  db'[m] # NoRow \/ m \in gone
    <2>1. call[c].text \in Text /\ db' = [db EXCEPT ![call[c].id] = call[c].text]
        BY <1>5 DEF WriteRow, Types, TypeOK
    <2> QED BY <1>0, <2>1 DEF Types, TypeOK
<1>6. ASSUME NEW c \in Callers, DropRow(c)
      PROVE  db'[m] # NoRow \/ m \in gone
    <2>1. call[c].at = "drop" /\ db' = [db EXCEPT ![call[c].id] = NoRow]
        BY <1>6 DEF DropRow
    <2>2. call[c].id \in gone
        BY <2>1 DEF CountInv
    <2> QED BY <2>1, <2>2 DEF Types, TypeOK
<1> QED BY <1>1, <1>2, <1>3, <1>4, <1>5, <1>6, DbSteps

(* What a step does to one call.                                           *)
LEMMA CallTurns ==
    ASSUME Types, [Next]_vars, NEW c \in Callers
    PROVE  \/ call'[c] = call[c]
           \/ call'[c].at \in {"idle", "zero", "tell", "edit", "react"}
           \/ /\ ReadRow(c) /\ call[c].at \in {"edit", "react"} /\ db[call[c].id] # NoRow
              /\ call'[c] = [at |-> "put", id |-> call[c].id,
                             text |-> IF call[c].at = "edit" THEN call[c].text ELSE db[call[c].id]]
           \/ \E m \in Ids : Fetch(c, m) /\ call'[c] = [at |-> "store", id |-> m, text |-> text[m]]
           \/ \E m \in Ids : SendFile(c, m) /\ call'[c] = [at |-> "store", id |-> m, text |-> 0]
           \/ \E m \in Ids : Delete(c, m) /\ call'[c] = [at |-> "drop", id |-> m, text |-> 0]
<1> USE DEF Types, TypeOK
<1>0. /\ call \in [Callers -> [at : CallStages, id : Ids \cup {0}, text : Text]]
      /\ Idle.at = "idle"
    BY DEF Idle
<1>1. CASE UNCHANGED <<call, made>>
    BY <1>1
<1>2. CASE Restart
    BY <1>0, <1>2 DEF Restart
<1>3. ASSUME NEW d \in Callers, MarkRead(d) \/ ResetCounter(d)
      PROVE  call'[c] = call[c] \/ call'[c].at \in {"zero", "tell"}
    <2>1. \/ call' = [call EXCEPT ![d] = [at |-> "zero", id |-> MaxOf(Stored), text |-> 0]]
          \/ call' = [call EXCEPT ![d] = [call[d] EXCEPT !.at = "tell"]]
        BY <1>3 DEF MarkRead, ResetCounter, Begin
    <2> QED BY <1>0, <2>1
<1>4. ASSUME NEW d \in Callers, TellRead(d) \/ TellFails(d) \/ WriteRow(d) \/ DropRow(d)
      PROVE  call'[c] = call[c] \/ call'[c].at = "idle"
    <2>1. call' = [call EXCEPT ![d] = Idle]
        BY <1>4 DEF TellRead, TellFails, WriteRow, DropRow, Return
    <2> QED BY <1>0, <2>1
<1>5. ASSUME NEW d \in Callers, ReadRow(d)
      PROVE  \/ call'[c] = call[c] \/ call'[c].at = "idle"
             \/ /\ ReadRow(c) /\ call[c].at \in {"edit", "react"} /\ db[call[c].id] # NoRow
                /\ call'[c] = [at |-> "put", id |-> call[c].id,
                               text |-> IF call[c].at = "edit" THEN call[c].text ELSE db[call[c].id]]
    BY <1>0, <1>5 DEF ReadRow
<1>6. ASSUME NEW d \in Callers, NEW m \in Ids, Edit(d, m) \/ React(d, m)
      PROVE  call'[c] = call[c] \/ call'[c].at \in {"edit", "react"}
    <2>1. \/ call' = [call EXCEPT ![d] = [at |-> "edit", id |-> m, text |-> text[m] + 1]]
          \/ call' = [call EXCEPT ![d] = [at |-> "react", id |-> m, text |-> 0]]
        BY <1>6 DEF Edit, React, Begin
    <2> QED BY <1>0, <2>1
<1>7. ASSUME NEW d \in Callers, NEW m \in Ids, Fetch(d, m) \/ SendFile(d, m) \/ Delete(d, m)
      PROVE  \/ call'[c] = call[c]
             \/ Fetch(c, m) /\ call'[c] = [at |-> "store", id |-> m, text |-> text[m]]
             \/ SendFile(c, m) /\ call'[c] = [at |-> "store", id |-> m, text |-> 0]
             \/ Delete(c, m) /\ call'[c] = [at |-> "drop", id |-> m, text |-> 0]
    <2>1. CASE Fetch(d, m)
        <3>1. call' = [call EXCEPT ![d] = [at |-> "store", id |-> m, text |-> text[m]]]
            BY <2>1 DEF Fetch, Begin
        <3> QED BY <1>0, <2>1, <3>1
    <2>2. CASE SendFile(d, m)
        <3>1. call' = [call EXCEPT ![d] = [at |-> "store", id |-> m, text |-> 0]]
            BY <2>2 DEF SendFile, Begin
        <3> QED BY <1>0, <2>2, <3>1
    <2>3. CASE Delete(d, m)
        <3>1. call' = [call EXCEPT ![d] = [at |-> "drop", id |-> m, text |-> 0]]
            BY <2>3 DEF Delete, Begin
        <3> QED BY <1>0, <2>3, <3>1
    <2> QED BY <1>7, <2>1, <2>2, <2>3
<1> QED BY <1>1, <1>2, <1>3, <1>4, <1>5, <1>6, <1>7, CallSteps DEF CallStep

(* A message the task has just been told of for the first time, or is told *)
(* of again while it exists: it has not counted while its row is missing,  *)
(* and it has not been erased.                                             *)
LEMMA NewToTask ==
    ASSUME Grounds, NEW kind \in {"new", "edit"}, Receive(kind), log' = log,
           ~ (Replay /\ Head1.id \in gone)
    PROVE  /\ kind = "new" /\ ~ Replay => ~ Told("new", Head1.id)
           /\ ~ Told("delete", Head1.id)
<1>1. /\ Head1.kind = kind /\ Head1.id \in Ids /\ Head1 = log[pos + 1] /\ pos \in Nat
      /\ pos + 1 \in 1 .. Len(log) /\ Len(log) \in Nat /\ top \in Nat
      /\ ~ Replay => pos = top
    BY ReceiveFacts
<1>2. \A k \in 1 .. top : k \in 1 .. Len(log) /\ k \in Nat
    BY <1>1 DEF Grounds, Types, TypeOK
<1>3. ASSUME ~ Replay, NEW k \in 1 .. top, log[k].id = Head1.id
      PROVE  log[k].kind # "delete" /\ (kind = "new" => log[k].kind # "new")
    <2>1. k < pos + 1 /\ k \in Nat /\ ~ (pos + 1 <= k)
        BY <1>1, <1>3
    <2>2. k \in 1 .. Len(log)
        BY <1>2
    <2>3. LogOrder
        BY DEF Grounds, LogInv
    <2>4. log[k].kind = "delete" => pos + 1 <= k
        BY <1>1, <1>3, <2>2, <2>3 DEF LogOrder
    <2>5. log[pos + 1].kind = "new" => pos + 1 <= k
        BY <1>1, <1>3, <2>2, <2>3 DEF LogOrder
    <2> QED BY <1>1, <2>1, <2>4, <2>5
<1>4. ASSUME Head1.id \notin gone, NEW k \in 1 .. top, log[k].id = Head1.id
      PROVE  log[k].kind # "delete"
    BY <1>2, <1>4 DEF Grounds, LogInv
<1>5. kind = "new" /\ ~ Replay => ~ Told("new", Head1.id)
    BY <1>3 DEF Told
<1>6. ~ Told("delete", Head1.id)
    <2>1. CASE ~ Replay
        BY <1>3, <2>1 DEF Told
    <2>2. CASE Head1.id \notin gone
        BY <1>4, <2>2 DEF Told
    <2> QED BY <2>1, <2>2
<1> QED BY <1>5, <1>6

LEMMA KnownMoves ==
    ASSUME Grounds, [Next]_vars
    PROVE  Known \subseteq Known' /\ (Receive("new") /\ log' = log => Head1.id \in Known')
<1>1. \A m : Told("new", m)' <=> Told("new", m) \/ (Receive("new") /\ Head1.id = m /\ log' = log)
    BY ToldMoves
<1>2. Receive("new") /\ log' = log => Head1.id \in Ids
    BY ReceiveFacts
<1> QED BY <1>1, <1>2 DEF Known

LEMMA NextCount ==
    ASSUME Grounds, CountInv, [Next]_vars
    PROVE  CountInv'
<1> USE DEF Grounds
<1>0. /\ sync.at \in Applying => sync.id \in Ids
      /\ sync.at \in Applying => sync.id \in Known
      /\ \A m \in counted : m \in Ids /\ m \in Known /\ (db[m] # NoRow \/ m \in gone)
      /\ gone \subseteq gone' /\ counted \subseteq counted'
    BY Grows, NextHistory DEF CountInv, Types, TypeOK, InHand
<1>1. \A m \in Ids : db[m] # NoRow \/ m \in gone => db'[m] # NoRow \/ m \in gone'
    BY <1>0, RowsGo
<1>2. Known \subseteq Known'
    BY KnownMoves
<1>3. \A m \in counted' : m \in Known' /\ (db'[m] # NoRow \/ m \in gone')
    <2>1. CASE counted' = counted
        BY <1>0, <1>1, <1>2, <2>1
    <2>2. CASE WriteCounter
        <3>1. counted' = counted \cup {sync.id} /\ sync.at = "bump" /\ db' = db /\ gone' = gone
            BY <2>2 DEF WriteCounter, telegram
        <3>2. sync.id \in Ids /\ sync.id \in Known /\ (db[sync.id] # NoRow \/ sync.id \in gone)
            BY <1>0, <3>1 DEF CountInv, Applying
        <3> QED BY <1>0, <1>1, <1>2, <3>1, <3>2
    <2>3. CASE ReceiveEdit \/ Restart \/ \E c \in Callers : ResetCounter(c) \/ WriteRow(c)
        <3>1. counted' = counted
            BY <2>3 DEF ReceiveEdit, Restart, ResetCounter, WriteRow
        <3> QED BY <2>1, <3>1
    <2>4. CASE UNCHANGED badge
        BY <2>1, <2>4 DEF badge
    <2> QED BY <2>2, <2>3, <2>4, BadgeSteps
<1> DEFINE Steady ==
        /\ sync'.at \in Applying => sync'.id \in Known'
        /\ sync'.at \in {"fresh", "count", "bump"} => sync'.id \notin counted'
        /\ sync'.at \in {"count", "bump"} => db'[sync'.id] # NoRow \/ sync'.id \in gone'
<1>4. Steady
    <2>1. CASE UNCHANGED sync
        <3>1. sync.at \in Applying => sync.id \in Ids /\ sync'.id \in Known'
            BY <1>0, <1>2, <2>1
        <3>2. sync.at \in {"fresh", "count", "bump"} => sync.id \notin counted'
            <4>1. CASE WriteCounter
                <5>1. sync.at = "bump" /\ sync'.at = "live"
                    BY <4>1 DEF WriteCounter, At
                <5> QED BY <2>1, <5>1
            <4>2. CASE UNCHANGED badge \/ ReceiveEdit \/ Restart
                       \/ \E c \in Callers : ResetCounter(c) \/ WriteRow(c)
                <5>1. counted' = counted
                    BY <4>2 DEF badge, ReceiveEdit, Restart, ResetCounter, WriteRow
                <5> QED BY <5>1 DEF CountInv
            <4> QED BY <4>1, <4>2, BadgeSteps
        <3>3. sync.at \in {"count", "bump"} => db'[sync.id] # NoRow \/ sync.id \in gone'
            BY <1>1, <3>1 DEF CountInv, Applying
        <3> QED BY <2>1, <3>1, <3>2, <3>3
    <2>2. CASE \E stage \in SyncStages \ (Dialog \cup Applying) : sync' = At(stage)
        BY <2>2, AtFacts DEF Applying
    <2>3. CASE Dialogs /\ newest # 0
        <3>1. sync'.at = "seedChat"
            BY <2>3 DEF Dialogs
        <3> QED BY <3>1 DEF Applying
    <2>4. CASE SeedChat /\ sync.id # 0 /\ sync' = [sync EXCEPT !.at = "seedRow"]
        <3>1. sync'.at = "seedRow"
            BY <2>4 DEF Types, TypeOK
        <3> QED BY <3>1 DEF Applying
    <2>5. CASE ReceiveNew
        <3>1. /\ Receive("new") /\ ~ (Replay /\ Head1.id \in gone) /\ log' = log
              /\ counted' = counted /\ sync'.id = Head1.id
              /\ sync'.at = IF Counts(Head1.id) THEN "fresh" ELSE "known"
            BY <2>5 DEF ReceiveNew, telegram, badge
        <3>2. Head1.id \in Ids /\ Head1.id \in Known'
            BY <3>1, ReceiveFacts, KnownMoves
        <3>3. sync'.at = "fresh" => db[Head1.id] = NoRow
            BY <3>1 DEF Counts
        <3>4. sync'.at = "fresh" => Head1.id \notin counted
            <4>1. CASE ~ Replay
                BY <1>0, <3>1, <4>1, NewToTask DEF Known
            <4>2. CASE Replay
                BY <1>0, <3>1, <3>3, <4>2
            <4> QED BY <4>1, <4>2
        <3>5. sync'.at \in {"fresh", "known"}
            BY <3>1
        <3>6. sync'.id \in Known'
            BY <3>1, <3>2
        <3> QED BY <3>1, <3>4, <3>5, <3>6
    <2>6. CASE StoreNew /\ sync.at = "fresh" /\ sync' = [sync EXCEPT !.at = "count"]
        <3>1. sync'.at = "count" /\ sync'.id = sync.id /\ sync.id \in Ids
            BY <1>0, <2>6 DEF Types, TypeOK, Applying
        <3>2. db' = [db EXCEPT ![sync.id] = sync.text] /\ sync.text # NoRow /\ counted' = counted
            BY <2>6, IdFacts DEF StoreNew, badge, Types, TypeOK
        <3>3. db'[sync.id] # NoRow
            BY <3>1, <3>2 DEF Types, TypeOK
        <3>4. sync.id \notin counted /\ sync.id \in Known'
            BY <1>0, <1>2, <2>6 DEF CountInv, Applying
        <3>5. sync'.id \in Known'
            BY <3>1, <3>4
        <3> QED BY <3>1, <3>2, <3>3, <3>4, <3>5
    <2>7. CASE ReadCounter /\ unread # NoChat /\ sync' = [sync EXCEPT !.at = "bump", !.n = unread]
        <3>1. sync.at = "count" /\ sync'.at = "bump" /\ sync'.id = sync.id /\ sync.id \in Ids
            BY <1>0, <2>7 DEF ReadCounter, Types, TypeOK, Applying
        <3>2. db' = db /\ gone' = gone /\ counted' = counted
            BY <2>7 DEF ReadCounter, badge, telegram
        <3>4. sync.id \notin counted /\ sync.id \in Known' /\ (db[sync.id] # NoRow \/ sync.id \in gone)
            BY <1>0, <1>2, <3>1 DEF CountInv, Applying
        <3>5. sync'.id \in Known'
            BY <3>1, <3>4
        <3> QED BY <3>1, <3>2, <3>4, <3>5
    <2> QED BY <2>1, <2>2, <2>3, <2>4, <2>5, <2>6, <2>7, SyncMoves
<1>5. ASSUME NEW c \in Callers, call'[c].at = "drop" PROVE call'[c].id \in gone'
    <2>1. CASE call'[c] = call[c]
        BY <1>0, <1>5, <2>1 DEF CountInv
    <2>2. ASSUME NEW m \in Ids, Delete(c, m), call'[c] = [at |-> "drop", id |-> m, text |-> 0]
          PROVE  call'[c].id \in gone'
        <3>1. gone' = gone \cup {m}
            BY <2>2 DEF Delete, Unsends
        <3>2. call'[c].id = m
            BY <2>2
        <3> QED BY <3>1, <3>2
    <2>3. ASSUME NEW m \in Ids, NEW v, \/ call'[c] = [at |-> "store", id |-> m, text |-> v]
                                     \/ call'[c] = [at |-> "put", id |-> m, text |-> v]
          PROVE  FALSE
        <3>1. call'[c].at \in {"store", "put"}
            BY <2>3
        <3> QED BY <1>5, <3>1
    <2>4. ~ (call'[c].at \in {"idle", "zero", "tell", "edit", "react"})
        BY <1>5
    <2>5. call[c].at \in {"edit", "react"} => call[c].id \in Ids
        BY DEF Types, InHand, WithRow
    <2> QED BY <2>1, <2>2, <2>3, <2>4, <2>5, CallTurns
<1> QED BY <1>3, <1>4, <1>5 DEF CountInv

(* "Without this guard each replay would re-increment the unread count":   *)
(* no message raises the counter twice, however often restarts and lost    *)
(* connections make the stream hand it out again.                          *)
THEOREM CountsOnce == Spec => []CountedOnce
<1>1. Init => CountInv
    BY AtFacts DEF Init, CountInv, Applying, SyncStages, Idle
<1>2. Grounds /\ CountInv /\ [Next]_vars => CountInv'
    BY NextCount
<1>3. CountInv => CountedOnce
    BY DEF CountInv, CountedOnce
<1> QED BY <1>1, <1>2, <1>3, InitGrounds, NextGrounds, PTL DEF Spec

-----------------------------------------------------------------------------
(* A deletion stays applied.                                               *)

LEMMA ErasedFacts ==
    ASSUME Grounds, DeleteInv
    PROVE  erased \subseteq gone /\ erased \subseteq Ids
<1>1. \A k \in 1 .. top : k \in 1 .. Len(log)
    BY LogFacts DEF Grounds, Types, TypeOK
<1>2. erased \subseteq Ids
    BY DEF Grounds, Types, TypeOK
<1>3. \A m \in Ids : Told("delete", m) => m \in gone
    BY <1>1 DEF Told, Grounds, LogInv
<1> QED BY <1>2, <1>3 DEF DeleteInv

LEMMA NextDelete ==
    ASSUME Grounds, DeleteInv, [Next]_vars
    PROVE  DeleteInv'
<1> USE DEF Grounds
<1>0. /\ erased \subseteq gone /\ erased \subseteq Ids /\ erased' \subseteq Ids
      /\ erased \subseteq erased' /\ revived \subseteq revived'
    BY ErasedFacts, NextHistory
<1>1. CASE ReceiveDelete
    <2>1. /\ Receive("delete") /\ log' = log /\ sync' = sync /\ call' = call
          /\ db' = [db EXCEPT ![Head1.id] = NoRow] /\ erased' = erased \cup {Head1.id}
          /\ revived' = revived \cup {m \in {Head1.id} : AboutToWrite(m)}
        BY <1>1 DEF ReceiveDelete, telegram
    <2>2. Head1.id \in Ids /\ sync.at = "live"
        BY <2>1, ReceiveFacts
    <2>3. \A m \in Ids : m \in erased' <=> Told("delete", m)'
        BY <2>1, ToldMoves DEF DeleteInv
    <2>4. sync'.at \notin Dialog \cup {"fresh", "known"}
        BY <2>1, <2>2 DEF Dialog
    <2>5. \A c \in Callers : call'[c].at \in Writing /\ call'[c].id \in erased' => call'[c].id \in revived'
        BY <2>1 DEF DeleteInv, AboutToWrite, Writing
    <2>6. DeletedStaysDeleted'
        BY <2>1, <2>2 DEF DeleteInv, DeletedStaysDeleted, Stored, Types, TypeOK
    <2> QED BY <2>3, <2>4, <2>5, <2>6 DEF DeleteInv
<1>2. CASE ~ ReceiveDelete
    <2>1. erased' = erased /\ revived' = revived
        <3>1. CASE \E c \in Callers : WriteRow(c)
            BY <3>1 DEF WriteRow
        <3> QED BY <1>2, <3>1, RowsSteps DEF rows
    <2>2. ~ (Receive("delete") /\ log' = log)
        <3> SUFFICES ASSUME Receive("delete"), log' = log PROVE FALSE
            OBVIOUS
        <3>0. Head1.kind = "delete" /\ pos' = pos + 1 /\ pos \in Nat /\ saved \in Nat /\ saved <= pos
            BY ReceiveFacts DEF Receive, StreamInv, Types, TypeOK
        <3>1. CASE UNCHANGED stream
            BY <3>0, <3>1 DEF stream
        <3>2. CASE StreamFails \/ Restart
            <4>1. pos' = pos \/ pos' = saved
                BY <3>2 DEF StreamFails, Restart
            <4> QED BY <3>0, <4>1
        <3>3. CASE SkipDeleted \/ ReceiveNew \/ ReceiveEdit
            <4>1. Head1.kind \in {"new", "edit"}
                BY <3>3 DEF SkipDeleted, ReceiveNew, ReceiveEdit, Receive
            <4> QED BY <3>0, <4>1
        <3> QED BY <1>2, <3>1, <3>2, <3>3, StreamSteps
    <2>3. \A m \in Ids : m \in erased' <=> Told("delete", m)'
        BY <2>1, <2>2, ToldMoves DEF DeleteInv
    <2>4. sync'.at \in Dialog \cup {"fresh", "known"} => sync'.id \notin erased
        <3>1. CASE UNCHANGED sync
            BY <3>1 DEF DeleteInv
        <3>2. CASE \E stage \in SyncStages \ (Dialog \cup Applying) : sync' = At(stage)
            BY <3>2, AtFacts DEF Applying
        <3>3. CASE Dialogs /\ newest # 0
            <4>1. sync'.id = LastOf
                BY <3>3 DEF Dialogs
            <4>2. LastOf \notin gone \ {0} /\ 0 \notin Ids
                BY DialogFacts, IdFacts
            <4> QED BY <1>0, <4>1, <4>2
        <3>4. CASE SeedChat /\ sync.id # 0 /\ sync' = [sync EXCEPT !.at = "seedRow"]
            <4>1. sync'.id = sync.id /\ sync.at \in Dialog
                BY <3>4 DEF Types, TypeOK, SeedChat, Dialog
            <4> QED BY <4>1 DEF DeleteInv
        <3>5. CASE ReceiveNew
            <4>1. Receive("new") /\ ~ (Replay /\ Head1.id \in gone) /\ log' = log /\ sync'.id = Head1.id
                BY <3>5 DEF ReceiveNew, telegram
            <4>2. ~ Told("delete", Head1.id)
                BY <4>1, NewToTask
            <4> QED BY <1>0, <4>1, <4>2 DEF DeleteInv
        <3>6. CASE StoreNew /\ sync.at = "fresh" /\ sync' = [sync EXCEPT !.at = "count"]
            <4>1. sync'.at = "count"
                BY <3>6 DEF Types, TypeOK
            <4> QED BY <4>1 DEF Dialog
        <3>7. CASE ReadCounter /\ unread # NoChat /\ sync' = [sync EXCEPT !.at = "bump", !.n = unread]
            <4>1. sync'.at = "bump"
                BY <3>7 DEF Types, TypeOK
            <4> QED BY <4>1 DEF Dialog
        <3> QED BY <3>1, <3>2, <3>3, <3>4, <3>5, <3>6, <3>7, SyncMoves
    <2>5. ASSUME NEW c \in Callers, call'[c].at \in Writing, call'[c].id \in erased
          PROVE  call'[c].id \in revived
        <3>1. CASE call'[c] = call[c]
            BY <2>5, <3>1 DEF DeleteInv
        <3>2. CASE /\ ReadRow(c) /\ call[c].at \in {"edit", "react"} /\ db[call[c].id] # NoRow
                   /\ call'[c] = [at |-> "put", id |-> call[c].id,
                             text |-> IF call[c].at = "edit" THEN call[c].text ELSE db[call[c].id]]
            <4>1. call'[c].id = call[c].id
                BY <3>2
            <4>2. call[c].id \in Stored
                BY <1>0, <2>5, <3>2, <4>1 DEF Stored
            <4> QED BY <2>5, <4>1, <4>2 DEF DeleteInv, DeletedStaysDeleted
        <3>3. ASSUME NEW m \in Ids, Fetch(c, m), call'[c] = [at |-> "store", id |-> m, text |-> text[m]]
              PROVE  call'[c].id \notin gone
            BY <3>3 DEF Fetch, Exists
        <3>4. ASSUME NEW m \in Ids, SendFile(c, m), call'[c] = [at |-> "store", id |-> m, text |-> 0]
              PROVE  call'[c].id \notin gone
            <4>1. Posts(m) /\ gone' = gone /\ text' = text
                BY <3>4 DEF SendFile
            <4>2. m \notin gone
                BY <4>1, PostsTypes
            <4> QED BY <3>4, <4>2
        <3>5. CASE call'[c].at \in {"idle", "zero", "tell", "edit", "react"}
            BY <2>5, <3>5 DEF Writing
        <3>6. ASSUME NEW m \in Ids, Delete(c, m), call'[c] = [at |-> "drop", id |-> m, text |-> 0]
              PROVE  FALSE
            BY <2>5, <3>6 DEF Writing
        <3> QED BY <1>0, <2>5, <3>1, <3>2, <3>3, <3>4, <3>5, <3>6, CallTurns
    <2>6. ASSUME NEW m \in Ids, db'[m] # NoRow, m \in erased PROVE m \in revived
        <3>1. CASE db[m] # NoRow
            BY <2>6, <3>1 DEF DeleteInv, DeletedStaysDeleted, Stored
        <3>2. CASE UNCHANGED db
            BY <2>6, <3>1, <3>2
        <3>3. CASE SeedRow \/ StoreNew
            <4>1. db' = [db EXCEPT ![sync.id] = sync.text] /\ sync.id \notin erased
                BY <3>3 DEF SeedRow, StoreNew, DeleteInv, Dialog
            <4>2. db'[m] = db[m]
                BY <2>6, <4>1 DEF Types, TypeOK
            <4> QED BY <2>6, <3>1, <4>2
        <3>4. CASE ReceiveEdit
            <4>1. /\ Receive("edit") /\ ~ (Replay /\ Head1.id \in gone) /\ log' = log
                  /\ db' = [db EXCEPT ![Head1.id] = Carried]
                BY <3>4 DEF ReceiveEdit, telegram
            <4>2. ~ Told("delete", Head1.id)
                BY <4>1, NewToTask
            <4>3. Head1.id \notin erased
                BY <1>0, <4>2 DEF DeleteInv
            <4>4. db'[m] = db[m]
                BY <2>6, <4>1, <4>3 DEF Types, TypeOK
            <4> QED BY <2>6, <3>1, <4>4
        <3>5. ASSUME NEW c \in Callers, WriteRow(c) \/ DropRow(c) PROVE m \in revived
            <4>1. CASE call[c].id # m
                <5>1. \E v : db' = [db EXCEPT ![call[c].id] = v]
                    BY <3>5 DEF WriteRow, DropRow
                <5>2. db'[m] = db[m]
                    BY <4>1, <5>1 DEF Types, TypeOK
                <5> QED BY <2>6, <3>1, <5>2
            <4>2. CASE call[c].id = m /\ WriteRow(c)
                BY <2>6, <4>2 DEF WriteRow, DeleteInv, Writing
            <4>3. CASE call[c].id = m /\ DropRow(c)
                BY <2>6, <4>3 DEF DropRow, Types, TypeOK
            <4> QED BY <3>5, <4>1, <4>2, <4>3
        <3> QED BY <1>2, <3>2, <3>3, <3>4, <3>5, DbSteps
    <2>7. DeletedStaysDeleted'
        BY <2>1, <2>6 DEF DeletedStaysDeleted, Stored
    <2> QED BY <2>1, <2>3, <2>4, <2>5, <2>7 DEF DeleteInv
<1> QED BY <1>1, <1>2

LEMMA InitDelete == Init => DeleteInv
<1> SUFFICES ASSUME Init PROVE DeleteInv
    OBVIOUS
<1>1. \A m \in Ids : ~ Told("delete", m) /\ m \notin erased
    BY DEF Init, Told
<1>2. sync.at = "start" /\ \A c \in Callers : call[c].at = "idle"
    BY DEF Init, At, Idle
<1>3. DeletedStaysDeleted
    BY DEF Init, DeletedStaysDeleted
<1> QED BY <1>1, <1>2, <1>3 DEF DeleteInv, Dialog, Writing

(* A deletion that has been applied stays applied, through replays,        *)
(* reactions and edits, unless a call had already read the row or fetched  *)
(* the page when the deletion came.                                        *)
THEOREM DeletionsStay == Spec => []DeletedStaysDeleted
<1>1. Grounds /\ DeleteInv /\ [Next]_vars => DeleteInv'
    BY NextDelete
<1>2. DeleteInv => DeletedStaysDeleted
    BY DEF DeleteInv
<1> QED BY <1>1, <1>2, InitDelete, InitGrounds, NextGrounds, PTL DEF Spec

-----------------------------------------------------------------------------
(* What is stored becomes what Telegram has.                               *)

LEMMA LatestIsLogged ==
    ASSUME Grounds, NEW m \in Ids, text[m] # 0
    PROVE  \E k \in 1 .. Len(log) : log[k] = Update("edit", m, text[m])
BY AllLogged DEF Grounds

(* An update that is not the latest of its message leaves that one to come. *)
LEMMA LatestOrPending ==
    ASSUME Grounds, NEW kind \in {"new", "edit"}, Receive(kind), UNCHANGED telegramText,
           Carried # text[Head1.id]
    PROVE  Pending(Head1.id) /\ \E k \in pos' + 1 .. Len(log) :
                log[k] = Update("edit", Head1.id, text[Head1.id])
<1>0. log' = log
    BY DEF telegramText
<1>1. /\ Head1 \in Entry /\ Head1.kind = kind /\ Head1.id \in Ids /\ Head1 = log[pos + 1]
      /\ pos \in Nat /\ pos' = pos + 1 /\ pos + 1 \in 1 .. Len(log) /\ Len(log) \in Nat
      /\ Carried \in Text
    BY <1>0, ReceiveFacts
<1>2. Carried = Head1.text
    BY DEF Carried
<1>3. kind = "new" => Head1.text = 0
    BY <1>1 DEF Grounds, LogInv
<1>4. kind = "edit" => Head1.text <= text[Head1.id]
    BY <1>1 DEF Grounds, LogInv
<1>5. Head1.text \in Nat /\ text[Head1.id] \in Nat /\ text[Head1.id] \in Text
    BY <1>1, <1>2, IdFacts DEF Grounds, Types, TypeOK
<1>6. text[Head1.id] # 0
    BY <1>2, <1>3, <1>4, <1>5
<1>7. PICK k \in 1 .. Len(log) : log[k] = Update("edit", Head1.id, text[Head1.id])
    BY <1>1, <1>6, LatestIsLogged
<1>8. log[k].kind = "edit" /\ log[k].id = Head1.id /\ log[k].text = text[Head1.id]
    BY <1>7 DEF Update
<1>9. LogOrder
    BY DEF Grounds, LogInv
<1>10. CASE kind = "new"
    <2>1. pos + 1 <= k
        BY <1>1, <1>8, <1>9, <1>10 DEF LogOrder
    <2>2. k # pos + 1
        BY <1>1, <1>8, <1>10
    <2>3. k \in pos + 1 .. Len(log) /\ k \in pos' + 1 .. Len(log)
        BY <1>1, <2>1, <2>2
    <2> QED BY <1>7, <2>3 DEF Pending
<1>11. CASE kind = "edit"
    <2>1. k < pos + 1 => log[k].text < Head1.text
        BY <1>1, <1>8, <1>9, <1>11 DEF LogOrder
    <2>2. ~ (k < pos + 1)
        BY <1>4, <1>5, <1>8, <1>11, <2>1
    <2>3. k # pos + 1
        BY <1>1, <1>2, <1>8
    <2>4. k \in pos + 1 .. Len(log) /\ k \in pos' + 1 .. Len(log)
        BY <1>1, <2>2, <2>3
    <2> QED BY <1>7, <2>4 DEF Pending
<1> QED BY <1>10, <1>11

(* A received edit is the latest, or the latest is to come.                *)
LEMMA EditLands ==
    ASSUME Grounds, ReceiveEdit, NEW m \in Ids, Head1.id = m
    PROVE  db'[m] = text'[m] \/ Pending(m)'
<1>1. /\ Receive("edit") /\ UNCHANGED telegramText /\ db' = [db EXCEPT ![Head1.id] = Carried]
    BY DEF ReceiveEdit, telegram, telegramText
<1>2. db'[m] = Carried
    BY <1>1 DEF Grounds, Types, TypeOK
<1>3. Carried # text[Head1.id] => \E k \in pos' + 1 .. Len(log) :
                log[k] = Update("edit", Head1.id, text[Head1.id])
    BY <1>1, LatestOrPending
<1>4. log' = log /\ text' = text
    BY <1>1 DEF telegramText
<1>5. Carried # text[m] => \E k \in pos' + 1 .. Len(log') : log'[k] = Update("edit", m, text'[m])
    BY <1>3, <1>4
<1> QED BY <1>2, <1>4, <1>5 DEF Pending

(* The latest edit is to come until it is received.                        *)
LEMMA PendingMoves ==
    ASSUME Grounds, [Next]_vars, NEW m \in Ids, Pending(m)
    PROVE  Pending(m)' \/ m \in gone \/ (ReceiveEdit /\ Head1.id = m)
<1>0. /\ Len(log) \in Nat /\ Len(log') \in Nat /\ Len(log) <= Len(log') /\ pos \in Nat /\ saved \in Nat
      /\ \A k \in 1 .. Len(log) : log'[k] = log[k] /\ k \in 1 .. Len(log')
      /\ saved <= pos
    BY Grows DEF Grounds, Types, TypeOK, StreamInv
<1>1. PICK k \in 1 .. Len(log) : pos < k /\ log[k] = Update("edit", m, text[m])
    <2>1. PICK k \in pos + 1 .. Len(log) : log[k] = Update("edit", m, text[m])
        BY DEF Pending
    <2>2. k \in 1 .. Len(log) /\ pos < k
        BY <1>0, <2>1
    <2> QED BY <2>1, <2>2
<1>2. k \in Nat /\ pos + 1 <= k /\ k <= Len(log)
    BY <1>0, <1>1
<1>3. log'[k] = Update("edit", m, text[m])
    BY <1>0, <1>1, <1>2
<1>4. CASE text'[m] = text[m] /\ pos' \in {pos, saved}
    <2> DEFINE p == pos'
    <2>1. p \in Nat /\ p <= pos /\ pos \in Nat
        BY <1>0, <1>4
    <2> HIDE DEF p
    <2>2. p + 1 \in Nat /\ p + 1 <= pos + 1 /\ pos + 1 \in Nat
        BY <2>1
    <2>3. p + 1 <= k
        BY <1>2, <2>2
    <2>4. k <= Len(log')
        BY <1>0, <1>2
    <2>5. k \in pos' + 1 .. Len(log')
        BY <1>0, <1>2, <2>2, <2>3, <2>4 DEF p
    <2> QED BY <1>3, <1>4, <2>5 DEF Pending
<1>5. CASE text'[m] = text[m] /\ \E kind : Receive(kind) /\ UNCHANGED telegramText
    <2> PICK kind : Receive(kind) /\ UNCHANGED telegramText
        BY <1>5
    <2>1. pos' = pos + 1 /\ Head1 = log[pos + 1] /\ Head1.kind = kind
        BY ReceiveFacts DEF telegramText
    <2>2. CASE k # pos + 1
        <3>1. k \in pos' + 1 .. Len(log')
            BY <1>0, <1>2, <2>1, <2>2
        <3> QED BY <1>3, <1>5, <3>1 DEF Pending
    <2>3. CASE k = pos + 1
        <3>1. Head1.id = m /\ Head1.kind = "edit"
            BY <1>1, <2>1, <2>3 DEF Update
        <3>2. CASE UNCHANGED stream
            BY <1>0, <2>1, <3>2 DEF stream
        <3>3. CASE StreamFails \/ Restart
            <4>1. pos' = pos \/ pos' = saved
                BY <3>3 DEF StreamFails, Restart
            <4> QED BY <1>0, <2>1, <4>1
        <3>4. CASE SkipDeleted
            BY <3>1, <3>4 DEF SkipDeleted
        <3>5. CASE ReceiveEdit
            BY <3>1, <3>5
        <3>6. CASE ReceiveNew \/ ReceiveDelete
            <4>1. Head1.kind \in {"new", "delete"}
                BY <3>6 DEF ReceiveNew, ReceiveDelete, Receive
            <4> QED BY <3>1, <4>1
        <3> QED BY <3>2, <3>3, <3>4, <3>5, <3>6, StreamSteps
    <2> QED BY <2>2, <2>3
<1>6. CASE text'[m] # text[m]
    <2>1. PICK n \in Ids : Edits(n) /\ UNCHANGED <<newest, gone>>
        BY <1>6, TelegramSteps DEF telegramText
    <2>2. n = m /\ text' = [text EXCEPT ![n] = text[n] + 1]
          /\ Len(log') = Len(log) + 1 /\ log'[Len(log) + 1] = Update("edit", n, text[n] + 1)
        BY <1>6, <2>1, EditsTypes DEF Grounds
    <2>3. log'[Len(log) + 1] = Update("edit", m, text'[m])
        BY <2>2 DEF Grounds, Types, TypeOK
    <2>4. pos' \in {pos, saved} \/ \E kind : Receive(kind) /\ log' = log
        <3>1. CASE UNCHANGED stream
            BY <3>1 DEF stream
        <3>2. CASE StreamFails \/ Restart
            BY <3>2 DEF StreamFails, Restart
        <3>3. CASE SkipDeleted \/ ReceiveNew \/ ReceiveEdit \/ ReceiveDelete
            BY <3>3 DEF SkipDeleted, ReceiveNew, ReceiveEdit, ReceiveDelete, telegram
        <3> QED BY <3>1, <3>2, <3>3, StreamSteps
    <2>5. pos' \in {pos, saved}
        BY <1>0, <2>2, <2>4
    <2>6. pos <= Len(log)
        BY DEF Grounds, Types, TypeOK
    <2>7. Len(log) + 1 \in pos' + 1 .. Len(log')
        BY <1>0, <2>2, <2>5, <2>6
    <2> QED BY <2>3, <2>7 DEF Pending
<1>7. pos' \in {pos, saved} \/ \E kind : Receive(kind) /\ UNCHANGED telegramText
    <2>1. CASE UNCHANGED stream
        BY <2>1 DEF stream
    <2>2. CASE StreamFails \/ Restart
        BY <2>2 DEF StreamFails, Restart
    <2>3. CASE SkipDeleted \/ ReceiveNew \/ ReceiveEdit \/ ReceiveDelete
        BY <2>3 DEF SkipDeleted, ReceiveNew, ReceiveEdit, ReceiveDelete, telegram, telegramText
    <2> QED BY <2>1, <2>2, <2>3, StreamSteps
<1> QED BY <1>4, <1>5, <1>6, <1>7

(* While Telegram leaves the message alone, what is written of it is the   *)
(* latest version, or a call has overtaken the stream.                     *)
LEMMA FreshRow ==
    ASSUME Grounds, CountInv, [Next]_vars, NEW m \in Ids, Fresh(m), text'[m] = text[m],
           m \notin gone, ~ Pending(m)'
    PROVE  m \in raced' \/ (/\ db'[m] \in {NoRow, text[m]} /\ (db[m] = text[m] => db'[m] = text[m]))
<1> USE DEF Grounds
<1>0. db \in [Ids -> Text \cup {NoRow}] /\ text[m] \in Text /\ text[m] # NoRow /\ text[m] \in Nat
      /\ db[m] \in {NoRow, text[m]}
    BY IdFacts DEF Types, TypeOK, Fresh
<1>1. CASE UNCHANGED db
    BY <1>0, <1>1
<1>2. CASE SeedRow \/ StoreNew
    <2>1. db' = [db EXCEPT ![sync.id] = sync.text] /\ sync.at \in Dialog \cup {"fresh", "known"}
        BY <1>2 DEF SeedRow, StoreNew, Dialog
    <2>2. sync.id = m => sync.text = text[m]
        BY <2>1 DEF Fresh
    <2> QED BY <1>0, <2>1, <2>2
<1>3. CASE ReceiveEdit
    <2>1. CASE Head1.id = m
        <3>1. db'[m] = text[m]
            BY <1>3, <2>1, EditLands
        <3> QED BY <3>1
    <2>2. CASE Head1.id # m
        BY <1>0, <1>3, <2>2 DEF ReceiveEdit
    <2> QED BY <2>1, <2>2
<1>4. CASE ReceiveDelete
    <2>1. /\ db' = [db EXCEPT ![Head1.id] = NoRow] /\ Head1 = log[pos + 1] /\ Head1.kind = "delete"
          /\ pos + 1 \in 1 .. Len(log)
        BY <1>4, HeadFacts DEF ReceiveDelete
    <2>2. Head1.id \in gone
        BY <2>1 DEF LogInv
    <2> QED BY <1>0, <2>1, <2>2
<1>5. ASSUME NEW c \in Callers, WriteRow(c)
      PROVE  m \in raced' \/ (/\ db'[m] \in {NoRow, text[m]} /\ (db[m] = text[m] => db'[m] = text[m]))
    <2>1. /\ call[c].at \in Writing /\ db' = [db EXCEPT ![call[c].id] = call[c].text]
          /\ raced' = raced \cup {n \in {call[c].id} : db[n] > call[c].text}
        BY <1>5 DEF WriteRow, Writing
    <2>2. CASE call[c].id # m
        BY <1>0, <2>1, <2>2
    <2>3. CASE call[c].id = m
        <3>1. call[c].text \in Nat /\ call[c].text <= text[m]
            BY <2>1, <2>3, IdFacts DEF Types, TypeOK, InHand, WithRow, Writing
        <3>2. call[c].text = text[m] \/ db[m] = text[m]
            BY <2>1, <2>3 DEF Fresh
        <3>3. call[c].text = text[m] \/ db[m] > call[c].text
            BY <1>0, <3>1, <3>2
        <3>4. db'[m] = call[c].text
            BY <1>0, <2>1, <2>3
        <3>5. db[m] > call[c].text => m \in raced'
            BY <2>1, <2>3
        <3> QED BY <3>3, <3>4, <3>5
    <2> QED BY <2>2, <2>3
<1>6. ASSUME NEW c \in Callers, DropRow(c)
      PROVE  db'[m] = db[m]
    <2>1. call[c].at = "drop" /\ db' = [db EXCEPT ![call[c].id] = NoRow]
        BY <1>6 DEF DropRow
    <2>2. call[c].id \in gone
        BY <2>1 DEF CountInv
    <2> QED BY <1>0, <2>1, <2>2
<1> QED BY <1>0, <1>1, <1>2, <1>3, <1>4, <1>5, <1>6, DbSteps

LEMMA FreshTask ==
    ASSUME Grounds, [Next]_vars, NEW m \in Ids, Fresh(m), text'[m] = text[m], ~ Pending(m)',
           sync'.at \in Dialog \cup {"fresh", "known"}, sync'.id = m
    PROVE  sync'.text = text[m]
<1> USE DEF Grounds
<1>1. CASE UNCHANGED sync
    BY <1>1 DEF Fresh
<1>2. CASE \E stage \in SyncStages \ (Dialog \cup Applying) : sync' = At(stage)
    BY <1>2, AtFacts DEF Applying
<1>3. CASE Dialogs /\ newest # 0
    <2>1. sync'.id = LastOf /\ sync'.text = IF LastOf = 0 THEN 0 ELSE text[LastOf]
        BY <1>3 DEF Dialogs
    <2> QED BY <2>1, IdFacts
<1>4. CASE SeedChat /\ sync.id # 0 /\ sync' = [sync EXCEPT !.at = "seedRow"]
    <2>1. sync'.id = sync.id /\ sync'.text = sync.text /\ sync.at \in Dialog
        BY <1>4 DEF Types, TypeOK, SeedChat, Dialog
    <2> QED BY <2>1 DEF Fresh
<1>5. CASE ReceiveNew
    <2>1. Receive("new") /\ UNCHANGED telegramText /\ sync'.id = Head1.id /\ sync'.text = Carried
        BY <1>5 DEF ReceiveNew, telegram, telegramText
    <2>2. Carried # text[Head1.id] => \E k \in pos' + 1 .. Len(log) :
                log[k] = Update("edit", Head1.id, text[Head1.id])
        BY <2>1, LatestOrPending
    <2>3. Head1.id = m /\ log' = log
        BY <2>1 DEF telegramText
    <2>4. Carried # text[m] => \E k \in pos' + 1 .. Len(log') : log'[k] = Update("edit", m, text'[m])
        BY <2>2, <2>3
    <2> QED BY <2>1, <2>4 DEF Pending
<1>6. CASE StoreNew /\ sync.at = "fresh" /\ sync' = [sync EXCEPT !.at = "count"]
    <2>1. sync'.at = "count"
        BY <1>6 DEF Types, TypeOK
    <2> QED BY <2>1 DEF Dialog
<1>7. CASE ReadCounter /\ unread # NoChat /\ sync' = [sync EXCEPT !.at = "bump", !.n = unread]
    <2>1. sync'.at = "bump"
        BY <1>7 DEF Types, TypeOK
    <2> QED BY <2>1 DEF Dialog
<1> QED BY <1>1, <1>2, <1>3, <1>4, <1>5, <1>6, <1>7, SyncMoves

LEMMA FreshCalls ==
    ASSUME Grounds, [Next]_vars, NEW m \in Ids, Fresh(m), text'[m] = text[m], m \notin gone,
           NEW c \in Callers, call'[c].at \in Writing, call'[c].id = m
    PROVE  call'[c].text = text[m] \/ db[m] = text[m]
<1> USE DEF Grounds
<1>1. CASE call'[c] = call[c]
    BY <1>1 DEF Fresh
<1>2. CASE call'[c].at \in {"idle", "zero", "tell", "edit", "react"}
    BY <1>2 DEF Writing
<1>3. CASE /\ ReadRow(c) /\ call[c].at \in {"edit", "react"} /\ db[call[c].id] # NoRow
           /\ call'[c] = [at |-> "put", id |-> call[c].id,
                          text |-> IF call[c].at = "edit" THEN call[c].text ELSE db[call[c].id]]
    <2>1. call[c].id = m
        BY <1>3
    <2> QED BY <1>3, <2>1 DEF Fresh
<1>4. ASSUME NEW n \in Ids, Fetch(c, n), call'[c] = [at |-> "store", id |-> n, text |-> text[n]]
      PROVE  call'[c].text = text[m]
    <2>1. n = m
        BY <1>4
    <2> QED BY <1>4, <2>1
<1>5. ASSUME NEW n \in Ids, SendFile(c, n), call'[c] = [at |-> "store", id |-> n, text |-> 0]
      PROVE  call'[c].text = text[m]
    <2>1. n = m
        BY <1>5
    <2>2. Posts(n) /\ gone' = gone /\ text' = text
        BY <1>5 DEF SendFile
    <2>3. text[n] = 0
        BY <2>2, PostsTypes
    <2> QED BY <1>5, <2>1, <2>3
<1>6. ASSUME NEW n \in Ids, Delete(c, n), call'[c] = [at |-> "drop", id |-> n, text |-> 0]
      PROVE  FALSE
    BY <1>6 DEF Writing
<1> QED BY <1>1, <1>2, <1>3, <1>4, <1>5, <1>6, CallTurns

LEMMA NextRow ==
    ASSUME Grounds, CountInv, RowInv, [Next]_vars
    PROVE  RowInv'
<1> USE DEF Grounds
<1> SUFFICES ASSUME NEW m \in Ids, m \notin gone', m \notin raced', ~ Pending(m)'
             PROVE  Fresh(m)'
    BY DEF RowInv
<1>1. m \notin gone /\ m \notin raced
    BY Grows, NextHistory
<1>2. CASE Pending(m)
    <2>1. ReceiveEdit /\ Head1.id = m
        BY <1>1, <1>2, PendingMoves
    <2>2. db'[m] = text'[m]
        BY <2>1, EditLands
    <2>3. sync' = sync /\ sync.at = "live"
        BY <2>1 DEF ReceiveEdit, Receive
    <2> QED BY <2>2, <2>3 DEF Fresh, Dialog
<1>3. CASE Fresh(m) /\ text'[m] # text[m]
    <2>1. PICK n \in Ids : Edits(n) /\ UNCHANGED <<newest, gone>>
        BY <1>3, TelegramSteps DEF telegramText
    <2>2. n = m /\ text' = [text EXCEPT ![n] = text[n] + 1]
          /\ Len(log') = Len(log) + 1 /\ log'[Len(log) + 1] = Update("edit", n, text[n] + 1)
        BY <1>3, <2>1, EditsTypes
    <2>3. log'[Len(log) + 1] = Update("edit", m, text'[m])
        BY <2>2 DEF Types, TypeOK
    <2>4. pos' \in 0 .. Len(log) /\ Len(log) \in Nat
        <3>1. CASE UNCHANGED stream
            BY <3>1, LogFacts DEF stream, Types, TypeOK
        <3>2. CASE StreamFails \/ Restart
            BY <3>2, LogFacts DEF StreamFails, Restart, Types, TypeOK
        <3>3. CASE SkipDeleted \/ ReceiveNew \/ ReceiveEdit \/ ReceiveDelete
            <4>1. log' = log
                BY <3>3 DEF SkipDeleted, ReceiveNew, ReceiveEdit, ReceiveDelete, telegram
            <4>2. Len(log) \in Nat
                BY LogFacts
            <4> QED BY <2>2, <4>1, <4>2
        <3> QED BY <3>1, <3>2, <3>3, StreamSteps
    <2>5. Len(log) + 1 \in pos' + 1 .. Len(log')
        BY <2>2, <2>4
    <2> QED BY <2>3, <2>5 DEF Pending
<1>4. CASE Fresh(m) /\ text'[m] = text[m]
    <2>1. db'[m] \in {NoRow, text[m]} /\ (db[m] = text[m] => db'[m] = text[m])
        BY <1>1, <1>4, FreshRow
    <2>2. sync'.at \in Dialog \cup {"fresh", "known"} /\ sync'.id = m => sync'.text = text[m]
        BY <1>4, FreshTask
    <2>3. \A c \in Callers : call'[c].at \in Writing /\ call'[c].id = m
                           => call'[c].text = text[m] \/ db[m] = text[m]
        BY <1>1, <1>4, FreshCalls
    <2> QED BY <1>4, <2>1, <2>2, <2>3 DEF Fresh
<1> QED BY <1>1, <1>2, <1>3, <1>4 DEF RowInv

(* Once the stream is drained and no call is under way, what is stored is  *)
(* what Telegram has, unless a call wrote an older version over a newer.   *)
THEOREM StoreConverges == Spec => []RowsConverge
<1>1. Init => CountInv
    BY AtFacts DEF Init, CountInv, Applying, SyncStages, Idle
<1>2. Init => RowInv
    <2> SUFFICES ASSUME Init, NEW m \in Ids PROVE Fresh(m)
        BY DEF RowInv
    <2>1. db[m] = NoRow /\ sync.at = "start" /\ \A c \in Callers : call[c].at = "idle"
        BY DEF Init, At, Idle
    <2> QED BY <2>1 DEF Fresh, Dialog, Writing
<1>3. Grounds /\ CountInv /\ [Next]_vars => CountInv'
    BY NextCount
<1>4. Grounds /\ DeleteInv /\ [Next]_vars => DeleteInv'
    BY NextDelete
<1>5. Grounds /\ CountInv /\ RowInv /\ [Next]_vars => RowInv'
    BY NextRow
<1>6. Grounds /\ DeleteInv /\ RowInv => RowsConverge
    <2> SUFFICES ASSUME Grounds, DeleteInv, RowInv, Settled, NEW m \in Stored \ erased
                 PROVE  db[m] = text[m] \/ m \in raced
        BY DEF RowsConverge
    <2>1. m \in Ids /\ db[m] # NoRow
        BY DEF Stored
    <2>2. pos = Len(log) /\ top = Len(log) /\ Len(log) \in Nat
        BY LogFacts DEF Settled, Grounds, Types, TypeOK, StreamInv
    <2>3. m \notin gone
        BY <2>1, <2>2, AllLogged DEF Grounds, DeleteInv, Told
    <2>4. ~ Pending(m)
        BY <2>2 DEF Pending
    <2> QED BY <2>1, <2>3, <2>4 DEF RowInv, Fresh
<1> QED BY <1>1, <1>2, <1>3, <1>4, <1>5, <1>6, InitDelete, InitGrounds, NextGrounds, PTL DEF Spec

-----------------------------------------------------------------------------
(* The badge.                                                              *)

(* What becomes unread is new, and has no row yet.                         *)
LEMMA NotReadMoves ==
    ASSUME Grounds, [Next]_vars, NEW m \in NotRead'
    PROVE  m \in Ids /\ (m \in NotRead \/ (db'[m] = NoRow /\ ~ (m <= newest)))
<1> USE DEF Grounds
<1>0. /\ newest \in Nat /\ newest' \in Nat /\ newest <= newest' /\ gone \subseteq gone'
      /\ serverRead \in Nat /\ serverRead' \in Nat /\ serverRead <= newest
    BY Grows, NextPast, IdFacts DEF Types, TypeOK, PastOnly
<1>1. m \in Incoming /\ m \in Ids /\ m \in Nat /\ m \notin gone' /\ m > serverRead' /\ m \notin gone
    BY <1>0, IdFacts DEF NotRead, Exists
<1>2. serverRead <= serverRead'
    <2>1. CASE UNCHANGED serverRead
        BY <1>0, <2>1
    <2>2. CASE ReadElsewhere
        BY <1>0, <2>2 DEF ReadElsewhere
    <2>3. ASSUME NEW c \in Callers, TellRead(c)
          PROVE  serverRead <= serverRead'
        <3>1. call[c].id \in Nat /\ call[c].id <= newest
            BY IdFacts DEF Types, TypeOK, InHand
        <3> DEFINE S == {serverRead, call[c].id}
        <3>2. S \in SUBSET Nat /\ (\A n \in S : n <= newest) /\ serverRead \in S
            BY <1>0, <3>1
        <3>3. serverRead <= MaxOf(S)
            <4> HIDE DEF S
            <4> QED BY <1>0, <3>2, MaxFacts
        <3>4. serverRead' \in {serverRead, newest} \/ serverRead' = MaxOf(S)
            BY <2>3 DEF TellRead
        <3> HIDE DEF S
        <3> QED BY <1>0, <3>3, <3>4
    <2> QED BY <2>1, <2>2, <2>3, ReadSteps
<1>3. m > serverRead
    BY <1>0, <1>1, <1>2
<1>4. CASE m <= newest
    BY <1>1, <1>3, <1>4 DEF NotRead, Exists
<1>5. CASE ~ (m <= newest)
    <2>1. db[m] = NoRow
        BY <1>1, <1>5 DEF PastOnly
    <2>2. db'[m] = NoRow
        <3>1. CASE UNCHANGED db
            BY <2>1, <3>1
        <3>2. CASE \E n \in Ids, v \in Text \cup {NoRow} :
                db' = [db EXCEPT ![n] = v] /\ v <= text[n] /\ (v # NoRow => n <= newest)
            <4> PICK n \in Ids, v \in Text \cup {NoRow} :
                    db' = [db EXCEPT ![n] = v] /\ v <= text[n] /\ (v # NoRow => n <= newest)
                BY <3>2
            <4> QED BY <1>1, <1>5, <2>1 DEF Types, TypeOK
        <3> QED BY <3>1, <3>2, DbWrites
    <2> QED BY <1>1, <1>5, <2>2
<1> QED BY <1>4, <1>5

(* A row comes from the task, or from hands other than apply_event.        *)
LEMMA StoredMoves ==
    ASSUME Grounds, [Next]_vars, NEW m \in Ids, db[m] = NoRow, db'[m] # NoRow
    PROVE  m \in aside' \/ ((SeedRow \/ StoreNew) /\ sync.id = m)
<1> USE DEF Grounds
<1>1. CASE UNCHANGED db
    BY <1>1
<1>2. CASE SeedRow \/ StoreNew
    BY <1>2 DEF SeedRow, StoreNew, Types, TypeOK
<1>3. CASE ReceiveEdit
    BY <1>3 DEF ReceiveEdit, NewAside, Types, TypeOK
<1>4. CASE ReceiveDelete
    BY <1>4 DEF ReceiveDelete, Types, TypeOK
<1>5. ASSUME NEW c \in Callers, WriteRow(c) \/ DropRow(c)
      PROVE  m \in aside'
    <2>1. CASE WriteRow(c)
        BY <2>1 DEF WriteRow, NewAside, Types, TypeOK
    <2>2. CASE DropRow(c)
        BY <2>2 DEF DropRow, Types, TypeOK
    <2> QED BY <1>5, <2>1, <2>2
<1> QED BY <1>1, <1>2, <1>3, <1>4, <1>5, DbSteps

(* A message about to be counted is counted, or its process has stopped.   *)
LEMMA CountingMoves ==
    ASSUME Grounds, [Next]_vars, unread = 0, unread' = 0
    PROVE  Counting \subseteq Counting' \cup aside'
<1> USE DEF Grounds
<1>1. CASE sync.at \in {"count", "bump"}
    <2>1. CASE UNCHANGED <<sync, delay>>
        BY <2>1 DEF Counting
    <2>2. CASE ReadCounter
        <3>1. sync' = [sync EXCEPT !.at = "bump", !.n = unread]
            BY <2>2 DEF ReadCounter, NoChat
        <3>2. sync'.at = "bump" /\ sync'.id = sync.id
            BY <3>1 DEF Types, TypeOK
        <3> QED BY <1>1, <3>2 DEF Counting
    <2>3. CASE WriteCounter
        <3>1. sync.n \in Nat /\ unread' = sync.n + 1
            BY <2>3 DEF WriteCounter, Types, TypeOK
        <3> QED BY <3>1
    <2>4. CASE Restart
        BY <2>4 DEF Restart, HalfCounted, Counting
    <2>5. CASE TakeStream \/ StreamRefused \/ Dialogs \/ SeedChat \/ SeedRow \/ DialogsFail
               \/ StreamFails \/ Sleep \/ Revoked \/ ReceiveNew \/ StoreNew
        <3>1. sync.at \in {"start", "ask", "seedChat", "seedRow", "live", "sleep", "fresh", "known"}
            BY <2>5 DEF TakeStream, StreamRefused, Dialogs, SeedChat, SeedRow, DialogsFail,
                        StreamFails, Sleep, Revoked, ReceiveNew, StoreNew, SyncGoes, Receive
        <3> QED BY <1>1, <3>1
    <2> QED BY <2>1, <2>2, <2>3, <2>4, <2>5, SyncSteps
<1>2. CASE sync.at \notin {"count", "bump"}
    BY <1>2 DEF Counting
<1> QED BY <1>1, <1>2

LEMMA NextBadgeHides ==
    ASSUME Grounds, BadgeInv, [Next]_vars, unread' = 0
    PROVE  Stored' \cap NotRead' \subseteq Counting' \cup Excused'
<1> USE DEF Grounds
<1> SUFFICES ASSUME NEW m \in Stored', m \in NotRead'
             PROVE  m \in Counting' \/ m \in Excused'
    OBVIOUS
<1>0. m \in Ids /\ db'[m] # NoRow
    BY DEF Stored
<1>1. m \in NotRead /\ m \in Incoming /\ m \notin gone
    BY <1>0, NotReadMoves DEF NotRead, Exists
<1>2. Excused \subseteq Excused' /\ aside' \subseteq Excused'
    BY NextHistory DEF Excused
<1>3. CASE UNCHANGED unread
    <2>1. CASE db[m] # NoRow
        <3>1. m \in Counting \/ m \in Excused
            BY <1>0, <1>1, <1>3, <2>1 DEF BadgeInv, BadgeHidesNothing, Excused, Stored
        <3>2. Counting \subseteq Counting' \cup aside'
            BY <1>3, CountingMoves
        <3> QED BY <1>2, <3>1, <3>2
    <2>2. CASE db[m] = NoRow /\ m \notin aside'
        <3>1. (SeedRow \/ StoreNew) /\ sync.id = m
            BY <1>0, <2>2, StoredMoves
        <3>2. CASE SeedRow
            <4>1. sync.at = "seedRow"
                BY <3>2 DEF SeedRow
            <4>2. m \in Excused
                BY <1>1, <1>3, <3>1, <4>1 DEF BadgeInv
            <4> QED BY <1>2, <4>2
        <3>3. CASE StoreNew /\ sync.at = "known"
            BY <1>1, <2>2, <3>1, <3>3 DEF BadgeInv
        <3>4. CASE StoreNew /\ sync.at = "fresh"
            <4>1. sync' = [sync EXCEPT !.at = "count"]
                BY <3>4 DEF StoreNew
            <4>2. sync'.at = "count" /\ sync'.id = m
                BY <3>1, <4>1 DEF Types, TypeOK
            <4> QED BY <4>2 DEF Counting
        <3>5. StoreNew => sync.at \in {"fresh", "known"}
            BY DEF StoreNew
        <3> QED BY <3>1, <3>2, <3>3, <3>4, <3>5
    <2> QED BY <1>2, <2>1, <2>2
<1>4. CASE SeedChat
    <2>1. sync.at = "seedChat" /\ sync.n = 0 /\ db' = db
        BY <1>4 DEF SeedChat
    <2>2. m \in Stored
        BY <1>0, <2>1 DEF Stored
    <2> QED BY <1>1, <1>2, <2>1, <2>2 DEF BadgeInv
<1>5. CASE WriteCounter
    <2>1. sync.n \in Nat /\ unread' = sync.n + 1
        BY <1>5 DEF WriteCounter, Types, TypeOK
    <2> QED BY <2>1
<1>6. ASSUME NEW c \in Callers, ResetCounter(c)
      PROVE  m \in Excused'
    <2>1. /\ cleared' = cleared \cup {n \in Stored \cup Seeding : n <= call[c].id}
          /\ overtaken' = overtaken \cup {n \in Stored \cup Seeding : n > call[c].id}
          /\ db' = db
        BY <1>6 DEF ResetCounter
    <2>2. m \in Stored
        BY <1>0, <2>1 DEF Stored
    <2>3. m \in Nat /\ call[c].id \in Nat
        BY <1>0, IdFacts DEF Types, TypeOK
    <2>4. m <= call[c].id \/ m > call[c].id
        BY <2>3
    <2> QED BY <2>1, <2>2, <2>4 DEF Excused
<1> QED BY <1>3, <1>4, <1>5, <1>6, UnreadSteps

LEMMA NextSeeds ==
    ASSUME Grounds, BadgeInv, [Next]_vars
    PROVE  /\ sync'.at = "seedChat" /\ sync'.n = 0 => Stored' \cap NotRead' \subseteq Excused'
           /\ sync'.at = "seedChat" /\ sync'.n = 0 => sync'.id \notin NotRead'
           /\ sync'.at = "seedRow" /\ unread' = 0 => sync'.id \notin NotRead' \/ sync'.id \in Excused'
<1> USE DEF Grounds
<1>0. Excused \subseteq Excused' /\ aside' \subseteq Excused'
    BY NextHistory DEF Excused
<1>1. CASE UNCHANGED sync
    <2>1. sync.at \in Dialog /\ sync.id \in NotRead' => sync.id \in NotRead
        <3> SUFFICES ASSUME sync.at \in Dialog, sync.id \in NotRead'
                     PROVE  sync.id \in NotRead
            OBVIOUS
        <3>1. sync.id \in Ids
            BY IdsAssumption DEF NotRead
        <3>2. sync.id <= newest
            BY <3>1 DEF Types, InHand
        <3> QED BY <3>2, NotReadMoves
    <2>2. ASSUME sync.at = "seedChat", sync.n = 0, NEW m \in Stored', m \in NotRead'
          PROVE  m \in Excused'
        <3>1. m \in Ids /\ db'[m] # NoRow /\ m \in NotRead
            BY <2>2, NotReadMoves DEF Stored
        <3>2. CASE db[m] # NoRow
            BY <1>0, <2>2, <3>1, <3>2 DEF BadgeInv, Stored
        <3>3. CASE db[m] = NoRow
            <4>1. ~ SeedRow /\ ~ StoreNew
                BY <2>2 DEF SeedRow, StoreNew
            <4> QED BY <1>0, <3>1, <3>3, <4>1, StoredMoves
        <3> QED BY <3>2, <3>3
    <2>3. ASSUME sync.at = "seedRow", unread' = 0, sync.id \in NotRead'
          PROVE  sync.id \in Excused'
        <3>1. sync.id \in NotRead
            BY <2>1, <2>3 DEF Dialog
        <3>2. CASE UNCHANGED unread
            BY <1>0, <2>3, <3>1, <3>2 DEF BadgeInv
        <3>3. CASE SeedChat \/ WriteCounter
            BY <2>3, <3>3 DEF SeedChat, WriteCounter
        <3>4. ASSUME NEW c \in Callers, ResetCounter(c)
              PROVE  sync.id \in Excused'
            <4>1. /\ cleared' = cleared \cup {n \in Stored \cup Seeding : n <= call[c].id}
                  /\ overtaken' = overtaken \cup {n \in Stored \cup Seeding : n > call[c].id}
                BY <3>4 DEF ResetCounter
            <4>2. sync.id \in Seeding
                BY <2>3 DEF Seeding
            <4>3. sync.id \in Nat /\ call[c].id \in Nat
                BY IdFacts DEF Types, TypeOK
            <4>4. sync.id <= call[c].id \/ sync.id > call[c].id
                BY <4>3
            <4> QED BY <4>1, <4>2, <4>4 DEF Excused
        <3> QED BY <3>2, <3>3, <3>4, UnreadSteps
    <2>4. sync.at = "seedChat" /\ sync.n = 0 => sync.id \notin NotRead'
        BY <2>1 DEF BadgeInv, Dialog
    <2> QED BY <1>1, <2>2, <2>3, <2>4
<1>2. CASE \E stage \in SyncStages \ (Dialog \cup Applying) : sync' = At(stage)
    BY <1>2, AtFacts DEF Dialog
<1>3. CASE Dialogs /\ newest # 0
    <2>1. /\ sync'.at = "seedChat" /\ sync'.n = Cardinality(NotRead)
          /\ telegram' = telegram
        BY <1>3 DEF Dialogs
    <2>2. NotRead' = NotRead
        BY <2>1 DEF telegram, NotRead, Exists
    <2>3. Cardinality(NotRead) = 0 => NotRead = {}
        BY DialogFacts, FS_EmptySet
    <2> QED BY <2>1, <2>2, <2>3
<1>4. CASE SeedChat /\ sync.id # 0 /\ sync' = [sync EXCEPT !.at = "seedRow"]
    <2>1. /\ sync'.at = "seedRow" /\ sync'.id = sync.id /\ unread' = sync.n /\ sync.at = "seedChat"
          /\ telegram' = telegram
        BY <1>4 DEF SeedChat, Types, TypeOK
    <2>2. NotRead' = NotRead
        BY <2>1 DEF telegram, NotRead, Exists
    <2> QED BY <2>1, <2>2 DEF BadgeInv
<1>5. CASE ReceiveNew
    <2>1. sync'.at \in {"fresh", "known"}
        BY <1>5 DEF ReceiveNew
    <2> QED BY <2>1
<1>6. CASE StoreNew /\ sync.at = "fresh" /\ sync' = [sync EXCEPT !.at = "count"]
    <2>1. sync'.at = "count"
        BY <1>6 DEF Types, TypeOK
    <2> QED BY <2>1
<1>7. CASE ReadCounter /\ unread # NoChat /\ sync' = [sync EXCEPT !.at = "bump", !.n = unread]
    <2>1. sync'.at = "bump"
        BY <1>7 DEF Types, TypeOK
    <2> QED BY <2>1
<1> QED BY <1>1, <1>2, <1>3, <1>4, <1>5, <1>6, <1>7, SyncMoves

LEMMA NextKnown ==
    ASSUME Grounds, CountInv, BadgeInv, [Next]_vars, sync'.at = "known"
    PROVE  sync'.id \notin Incoming \/ db'[sync'.id] # NoRow \/ sync'.id \in gone'
<1> USE DEF Grounds
<1>1. CASE UNCHANGED sync
    <2>1. sync.id \in Ids /\ gone \subseteq gone'
        BY <1>1, Grows DEF Types, InHand, Applying
    <2>2. db[sync.id] # NoRow => db'[sync.id] # NoRow \/ sync.id \in gone
        BY <2>1, RowsGo
    <2> QED BY <1>1, <2>1, <2>2 DEF BadgeInv
<1>2. CASE \E stage \in SyncStages \ (Dialog \cup Applying) : sync' = At(stage)
    BY <1>2, AtFacts DEF Applying
<1>3. CASE Dialogs /\ newest # 0
    BY <1>3 DEF Dialogs
<1>4. CASE SeedChat /\ sync.id # 0 /\ sync' = [sync EXCEPT !.at = "seedRow"]
    BY <1>4 DEF Types, TypeOK
<1>5. CASE ReceiveNew
    <2>1. sync'.id = Head1.id /\ db' = db /\ sync'.at = IF Counts(Head1.id) THEN "fresh" ELSE "known"
        BY <1>5 DEF ReceiveNew
    <2>2. ~ Counts(Head1.id)
        BY <2>1
    <2> QED BY <2>1, <2>2 DEF Counts
<1>6. CASE StoreNew /\ sync.at = "fresh" /\ sync' = [sync EXCEPT !.at = "count"]
    BY <1>6 DEF Types, TypeOK
<1>7. CASE ReadCounter /\ unread # NoChat /\ sync' = [sync EXCEPT !.at = "bump", !.n = unread]
    <2>1. sync'.at = "bump"
        BY <1>7 DEF Types, TypeOK
    <2> QED BY <2>1
<1> QED BY <1>1, <1>2, <1>3, <1>4, <1>5, <1>6, <1>7, SyncMoves

LEMMA NextBadge ==
    ASSUME Grounds, CountInv, BadgeInv, [Next]_vars
    PROVE  BadgeInv'
<1>1. BadgeHidesNothing'
    <2>1. unread' = 0 => Stored' \cap NotRead' \subseteq Counting' \cup Excused'
        BY NextBadgeHides
    <2>2. Excused' = cleared' \cup aside' \cup overtaken'
        BY DEF Excused
    <2>3. unread' = 0 => Stored' \cap NotRead' \subseteq Counting' \cup cleared' \cup aside' \cup overtaken'
        BY <2>1, <2>2
    <2> QED BY <2>3 DEF BadgeHidesNothing
<1> QED BY <1>1, NextSeeds, NextKnown DEF BadgeInv

(* The badge does not hide anything: while the counter is 0, a stored      *)
(* message that Telegram has as unread was marked read here, is being      *)
(* counted, was stored by other hands than apply_event's, or slipped in    *)
(* between mark_read's watermark and its reset.                            *)
THEOREM BadgeHides == Spec => []BadgeHidesNothing
<1>1. Init => CountInv
    BY AtFacts DEF Init, CountInv, Applying, SyncStages, Idle
<1>2. Init => BadgeInv
    <2> SUFFICES ASSUME Init PROVE BadgeInv
        OBVIOUS
    <2>1. sync.at = "start" /\ unread # 0
        BY DEF Init, At, NoChat
    <2> QED BY <2>1 DEF BadgeInv, BadgeHidesNothing
<1>3. Grounds /\ CountInv /\ [Next]_vars => CountInv'
    BY NextCount
<1>4. Grounds /\ CountInv /\ BadgeInv /\ [Next]_vars => BadgeInv'
    BY NextBadge
<1>5. BadgeInv => BadgeHidesNothing
    BY DEF BadgeInv
<1> QED BY <1>1, <1>2, <1>3, <1>4, <1>5, InitGrounds, NextGrounds, PTL DEF Spec
=============================================================================

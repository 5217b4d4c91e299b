-------------------------- MODULE MessageViewProofs -------------------------
(***************************************************************************)
(* The safety invariants of MessageView, for any messages and any date of  *)
(* the local row, any size of a page and of the ring, any number of        *)
(* writers, calls of loadInitial and writes.                               *)
(*                                                                         *)
(* They rest on Grounds: the types, and that nothing is stored or seen of  *)
(* a message whose id is not given yet.  On it stand three invariants of   *)
(* what is between the database and the screen: the last event on the bus  *)
(* about a row is what the row holds (ViewInv), nothing is shown before    *)
(* the cursor that loadOlder's page will be put in front of (Ahead), and a *)
(* stored message that is taken off the screen comes back (Back).          *)
(***************************************************************************)
EXTENDS MessageView, FiniteSetTheorems, SequenceTheorems, WellFoundedInduction, TLAPS

-----------------------------------------------------------------------------
(* Types: TypeOK with what it leaves open, the shape of events and calls.  *)

Fact(event) ==
    /\ event \in Events
    /\ event.kind = "deleted" <=> event.version = 0

CallRec ==
    [at : {"idle", "read", "fetch", "reread", "answer"}, cursor : Keys \cup {Newest},
     seen : [Keys -> Nat] \cup {<<>>}, failed : BOOLEAN]

WellFormed(c, call) ==
    /\ call.at = "idle" => call = Idle
    /\ call.at = "answer" => call.seen \in [Keys -> Nat]
    /\ c = Older /\ call # Idle => call.cursor \in Keys
    /\ c \in Loads => call.cursor = Newest

Facts(events) == \A i \in 1 .. Len(events) : Fact(events[i])

Types ==
    /\ TypeOK
    /\ \A w \in Writers : Facts(pending[w])
    /\ Facts(bus)
    /\ calls \in [Calls -> CallRec]
    /\ \A c \in Calls : WellFormed(c, calls[c])

-----------------------------------------------------------------------------
Reloading == \E l \in Loads : calls[l] # Idle

(* Nothing of a message is on screen, or on its way there.                 *)
Unseen(k) ==
    /\ view[k] = <<>>
    /\ ~ Coming(k, Kinds)
    /\ \A c \in Calls : calls[c].at = "answer" => calls[c].seen[k] = 0

(* No message is stored or seen before its id was given.                   *)
OnlyGiven ==
    /\ server \subseteq given
    /\ send # NoSend => {Local, send} \subseteq given
    /\ \A k \in Keys \ given : rows[k] = 0 /\ Unseen(k)
    /\ calls[Older] # Idle => calls[Older].cursor \in given

Grounds == Types /\ OnlyGiven

Last(events, i) == \A j \in i + 1 .. Len(events) : events[j].about # events[i].about

(* The last event on the bus about a row that is not stale is what the row *)
(* holds, if no writer has another.                                        *)
LastSays ==
    \A k \in Keys \ stale : ~ Awaited(k, Kinds) =>
        \A i \in 1 .. Len(bus) :
            bus[i].about = k /\ Last(bus, i) => bus[i].version = rows[k]

Right(k) ==
    \/ missed \/ Reloading \/ Coming(k, Kinds)
    \/ Range(view[k]) \subseteq {rows[k]}

ViewInv == LastSays /\ \A k \in Keys \ stale : Right(k)

-----------------------------------------------------------------------------
(* While loadOlder runs uncrossed, nothing is shown before its cursor.     *)
Ahead ==
    calls[Older] # Idle /\ ~ crossed =>
        \A j \in Shown : ~ Earlier(j, calls[Older].cursor)

TwinsInv == Ahead /\ NoTwins

InPlace(k) ==
    view[k] # <<>> \/ Coming(k, {"added"}) \/ missed \/ Reloading

(* A stored message that is taken off the screen comes back.               *)
Back ==
    \A k \in Stored \ stale : ~ Awaited(k, {"added"}) =>
        \A i \in 1 .. Len(bus) : bus[i].about = k /\ bus[i].kind = "deleted" =>
            \E j \in i + 1 .. Len(bus) : bus[j].about = k /\ bus[j].kind = "added"

(* It is behind one that is shown, or not before the cursor that           *)
(* loadOlder's page will be put in front of ...                            *)
Reached(k) ==
    \/ \E j \in Shown : Earlier(j, k)
    \/ calls[Older] # Idle /\ ~ crossed /\ ~ Earlier(k, calls[Older].cursor)

(* ... and is not missing.                                                 *)
Covered == ~ disturbed => \A k \in Stored \ stale : Reached(k) => InPlace(k)

HolesInv == Ahead /\ Back /\ Covered

EndInv ==
    LET call == calls[Older] IN
        /\ call.at = "reread" /\ ~ call.failed /\ call.cursor # Local /\ ~ vanished =>
            \A k \in server : Earlier(k, call.cursor) =>
                \E j \in Stored \cap server : Earlier(j, call.cursor)
        /\ EndIsTheEnd

-----------------------------------------------------------------------------
(* The orders of messages, and the page before a cursor.                   *)

LEMMA KeyFacts ==
    /\ \A k \in Ids : k \in Nat /\ k # 0 /\ k # Local /\ k \in Keys /\ DateOf(k) = k
    /\ \A k \in Keys : k \in Int /\ DateOf(k) \in Nat /\ k # NoSend /\ k # Newest
    /\ Local \in Keys /\ Local \notin Ids /\ DateOf(Local) = LocalDate
    /\ Newest \notin Keys /\ NoSend \notin Keys
    /\ \A k \in Keys : k \in Ids \/ k = Local
    /\ LocalDate \in Nat
    /\ IsFiniteSet(Keys)
<1>1. IsFiniteSet(Old \cup New)
    BY IdsAssumption, FS_Union
<1>2. IsFiniteSet(Keys)
    BY <1>1, FS_AddElement DEF Keys, Ids
<1> QED
    BY <1>2, IdsAssumption, LimitsAssumption, NewestAssumption
    DEF Ids, Keys, Local, NoSend, DateOf

(* Both orders are those of a number: a whole second before its fraction,  *)
(* or after it.                                                            *)
Rank == [k \in Keys |-> IF k = Local THEN 2 * LocalDate + 1 ELSE 2 * k]
ScreenRank == [k \in Keys |-> IF k = Local THEN 2 * LocalDate ELSE 2 * k + 1]

LEMMA Ranks ==
    /\ Rank \in [Keys -> Nat] /\ ScreenRank \in [Keys -> Nat]
    /\ \A j, k \in Keys :
        /\ Rank[j] = Rank[k] => j = k
        /\ ScreenRank[j] = ScreenRank[k] => j = k
        /\ Earlier(j, k) <=> Rank[j] < Rank[k]
        /\ Above(j, k) <=> ScreenRank[j] < ScreenRank[k]
<1>1. \A k \in Keys : k = Local \/ (k # Local /\ k \in Nat /\ DateOf(k) = k)
    BY KeyFacts
<1>2. LocalDate \in Nat /\ DateOf(Local) = LocalDate
    BY KeyFacts
<1>3. Rank \in [Keys -> Nat] /\ ScreenRank \in [Keys -> Nat]
    BY <1>1, <1>2 DEF Rank, ScreenRank
<1>4. SUFFICES ASSUME NEW j \in Keys, NEW k \in Keys
               PROVE  /\ Rank[j] = Rank[k] => j = k
                      /\ ScreenRank[j] = ScreenRank[k] => j = k
                      /\ Earlier(j, k) <=> Rank[j] < Rank[k]
                      /\ Above(j, k) <=> ScreenRank[j] < ScreenRank[k]
    BY <1>3
<1>5. /\ Rank[j] = (IF j = Local THEN 2 * LocalDate + 1 ELSE 2 * j)
      /\ Rank[k] = (IF k = Local THEN 2 * LocalDate + 1 ELSE 2 * k)
      /\ ScreenRank[j] = (IF j = Local THEN 2 * LocalDate ELSE 2 * j + 1)
      /\ ScreenRank[k] = (IF k = Local THEN 2 * LocalDate ELSE 2 * k + 1)
    BY DEF Rank, ScreenRank
<1> QED BY <1>1, <1>2, <1>5 DEF Earlier, Above

LEMMA EarlierOrder ==
    /\ \A k \in Keys : ~ Earlier(k, k)
    /\ \A j, k \in Keys : j = k \/ Earlier(j, k) \/ Earlier(k, j)
    /\ \A j, k \in Keys : Earlier(j, k) => ~ Earlier(k, j) /\ j # k
    /\ \A i, j, k \in Keys : Earlier(i, j) /\ Earlier(j, k) => Earlier(i, k)
    /\ \A i, j, k \in Keys : Earlier(i, j) /\ ~ Earlier(k, j) => Earlier(i, k)
<1>1. \A k \in Keys : Rank[k] \in Nat
    BY Ranks
<1> QED BY <1>1, Ranks

LEMMA LaterIds ==
    ASSUME NEW j \in Ids, NEW k \in Ids, j < k
    PROVE  Earlier(j, k)
BY KeyFacts DEF Earlier

LEMMA LeastOf ==
    ASSUME NEW S \in SUBSET Nat, S # {}
    PROVE  \E m \in S : \A n \in S : m <= n
<1> DEFINE Less == OpToRel(<, Nat)
<1>1. IsWellFoundedOn(Less, Nat)
    BY NatLessThanWellFounded
<1>2. \A m, n \in Nat : n < m => <<n, m>> \in Less
    BY DEF OpToRel
<1> HIDE DEF Less
<1>3. PICK m \in S : \A n \in S : ~ (<<n, m>> \in Less)
    BY <1>1, WFMin
<1>4. m \in Nat /\ \A n \in S : n \in Nat
    OBVIOUS
<1>5. \A n \in S : ~ (n < m)
    BY <1>2, <1>3, <1>4
<1>6. \A n \in S : m <= n
    BY <1>4, <1>5
<1> QED BY <1>6

(* The first of a set of messages, in either order.                        *)
LEMMA FirstBy ==
    ASSUME NEW rank \in [Keys -> Nat], \A j, k \in Keys : rank[j] = rank[k] => j = k,
           NEW S \in SUBSET Keys, S # {}
    PROVE  \E k \in S : \A j \in S \ {k} : rank[k] < rank[j]
<1> DEFINE ranks == {rank[k] : k \in S}
<1>1. ranks \in SUBSET Nat /\ ranks # {}
    OBVIOUS
<1>2. PICK n \in ranks : \A m \in ranks : n <= m
    BY <1>1, LeastOf
<1>3. PICK k \in S : n = rank[k]
    BY <1>2
<1>4. \A j \in S \ {k} : rank[k] < rank[j]
    <2> SUFFICES ASSUME NEW j \in S \ {k}
                 PROVE  rank[k] < rank[j]
        OBVIOUS
    <2>1. rank[k] <= rank[j] /\ rank[k] # rank[j] /\ rank[j] \in Nat /\ rank[k] \in Nat
        BY <1>2, <1>3
    <2> QED BY <2>1
<1> QED BY <1>4

LEMMA FirstOf ==
    ASSUME NEW S \in SUBSET Keys, S # {}
    PROVE  /\ \E k \in S : \A j \in S \ {k} : Earlier(k, j)
           /\ \E k \in S : \A j \in S \ {k} : Above(k, j)
<1>1. PICK k \in S : \A j \in S \ {k} : Rank[k] < Rank[j]
    BY Ranks, FirstBy
<1>2. PICK i \in S : \A j \in S \ {i} : ScreenRank[i] < ScreenRank[j]
    BY Ranks, FirstBy
<1>3. \A j \in S \ {k} : Earlier(k, j)
    BY <1>1, Ranks
<1>4. \A j \in S \ {i} : Above(i, j)
    BY <1>2, Ranks
<1> QED BY <1>3, <1>4

(* LastOf gives an end of the set: what is later than one of its messages, *)
(* and before the cursor, is in it.                                        *)
LEMMA PageIsAnEnd ==
    ASSUME NEW S \in SUBSET Keys, NEW cursor,
           NEW j \in LastOf(S, cursor), NEW k \in S, Earlier(j, k), Behind(k, cursor)
    PROVE  k \in LastOf(S, cursor)
<1> DEFINE After1 == {i \in S : Behind(i, cursor) /\ Earlier(j, i)}
           After2 == {i \in S : Behind(i, cursor) /\ Earlier(k, i)}
<1>1. j \in Keys /\ k \in Keys
    BY DEF LastOf
<1>2. After2 \in SUBSET After1
    BY <1>1, EarlierOrder
<1>3. IsFiniteSet(After1)
    BY KeyFacts, FS_Subset
<1>4. Cardinality(After2) <= Cardinality(After1)
    BY <1>2, <1>3, FS_Subset
<1>5. Cardinality(After2) \in Nat /\ Cardinality(After1) \in Nat
    BY <1>2, <1>3, FS_Subset, FS_CardinalityType
<1>6. Cardinality(After1) < Limit
    BY DEF LastOf
<1>7. Cardinality(After2) < Limit
    <2> HIDE DEF After1, After2
    <2> QED BY <1>4, <1>5, <1>6, LimitsAssumption
<1> QED BY <1>7 DEF LastOf

(* ... and leaves nothing out before it is full: it has Limit messages at  *)
(* least unless it has all there are before the cursor.                    *)
LEMMA PageLeavesLater ==
    ASSUME NEW S \in SUBSET Keys, NEW cursor,
           NEW k \in S, Behind(k, cursor), k \notin LastOf(S, cursor)
    PROVE  Cardinality(LastOf(S, cursor)) >= Limit
<1> DEFINE P == LastOf(S, cursor)
           N == {i \in S : Behind(i, cursor)} \ P
           Later(i) == {j \in S : Behind(j, cursor) /\ Earlier(i, j)}
           counts == {Cardinality(Later(i)) : i \in N}
<1>1. \A i \in S : IsFiniteSet(Later(i)) /\ Cardinality(Later(i)) \in Nat
    <2> SUFFICES ASSUME NEW i \in S
                 PROVE  IsFiniteSet(Later(i)) /\ Cardinality(Later(i)) \in Nat
        OBVIOUS
    <2>1. Later(i) \in SUBSET Keys
        OBVIOUS
    <2> QED BY <2>1, KeyFacts, FS_Subset, FS_CardinalityType
<1>2. counts \in SUBSET Nat /\ counts # {}
    BY <1>1
<1>3. PICK n \in counts : \A m \in counts : n <= m
    BY <1>2, LeastOf
<1>4. PICK i \in N : n = Cardinality(Later(i))
    BY <1>3
<1>5. Later(i) \subseteq P
    <2> SUFFICES ASSUME NEW j \in Later(i), j \in N
                 PROVE  FALSE
        OBVIOUS
    <2>1. j \in S /\ j \in Keys /\ i \in S /\ i \in Keys /\ Earlier(i, j)
        OBVIOUS
    <2>2. Later(j) \in SUBSET Later(i) /\ j \notin Later(j)
        BY <2>1, EarlierOrder
    <2>3. Later(j) # Later(i)
        BY <2>2
    <2>4. Cardinality(Later(j)) <= Cardinality(Later(i))
          /\ Cardinality(Later(j)) # Cardinality(Later(i))
        BY <1>1, <2>1, <2>2, <2>3, FS_Subset
    <2>5. Cardinality(Later(j)) \in counts /\ Cardinality(Later(j)) \in Nat /\ n \in Nat
        BY <1>1, <1>2, <2>1
    <2>6. n <= Cardinality(Later(j))
        BY <1>3, <2>5
    <2> HIDE DEF Later
    <2> QED BY <1>4, <2>4, <2>5, <2>6
<1>6. Cardinality(Later(i)) >= Limit
    <2>1. i \in S /\ Behind(i, cursor) /\ i \notin LastOf(S, cursor)
        OBVIOUS
    <2>2. ~ (Cardinality(Later(i)) < Limit)
        BY <2>1 DEF LastOf
    <2>3. Cardinality(Later(i)) \in Nat
        BY <1>1, <2>1
    <2> HIDE DEF Later
    <2> QED BY <2>2, <2>3, LimitsAssumption
<1>7. IsFiniteSet(P)
    <2>1. P \in SUBSET Keys
        BY DEF LastOf
    <2> QED BY <2>1, KeyFacts, FS_Subset
<1>8. Cardinality(Later(i)) <= Cardinality(P) /\ Cardinality(P) \in Nat
      /\ Cardinality(Later(i)) \in Nat
    BY <1>1, <1>5, <1>7, FS_Subset, FS_CardinalityType
<1> HIDE DEF Later
<1>9. Cardinality(P) >= Limit
    <2> HIDE DEF P
    <2> QED BY <1>6, <1>8, LimitsAssumption
<1> QED BY <1>9

(* So it is empty only when nothing is before the cursor.                  *)
LEMMA PageIsNotEmpty ==
    ASSUME NEW S \in SUBSET Keys, NEW cursor, NEW k \in S, Behind(k, cursor)
    PROVE  LastOf(S, cursor) # {}
<1>1. CASE k \in LastOf(S, cursor)
    BY <1>1
<1>2. CASE k \notin LastOf(S, cursor)
    <2>1. Cardinality(LastOf(S, cursor)) >= Limit
        BY <1>2, PageLeavesLater
    <2> QED BY <2>1, FS_EmptySet, LimitsAssumption
<1> QED BY <1>1, <1>2

(* It never has more than Limit: after its first message come fewer.       *)
LEMMA PageFits ==
    ASSUME NEW S \in SUBSET Keys, NEW cursor
    PROVE  Cardinality(LastOf(S, cursor)) \in 0 .. Limit
<1> DEFINE P == LastOf(S, cursor)
<1>1. P \in SUBSET Keys
    BY DEF LastOf
<1>2. IsFiniteSet(P) /\ Cardinality(P) \in Nat
    BY <1>1, KeyFacts, FS_Subset, FS_CardinalityType
<1>3. ASSUME P = {} PROVE Cardinality(P) <= Limit
    <2>1. Cardinality(P) = 0
        BY <1>3, FS_EmptySet
    <2> QED BY <2>1, LimitsAssumption
<1>4. ASSUME P # {} PROVE Cardinality(P) <= Limit
    <2>1. PICK k \in P : \A j \in P \ {k} : Earlier(k, j)
        <3> HIDE DEF P
        <3> QED BY <1>1, <1>4, FirstOf
    <2> DEFINE Later == {j \in S : Behind(j, cursor) /\ Earlier(k, j)}
    <2>2. Later \in SUBSET Keys /\ Cardinality(Later) < Limit
        BY DEF LastOf
    <2>3. P \ {k} \in SUBSET Later
        BY <2>1 DEF LastOf
    <2>4. IsFiniteSet(Later)
        BY <2>2, KeyFacts, FS_Subset
    <2> HIDE DEF P, Later
    <2>5. Cardinality(P \ {k}) <= Cardinality(Later) /\ Cardinality(Later) \in Nat
        BY <2>3, <2>4, FS_Subset, FS_CardinalityType
    <2>6. Cardinality(P \ {k}) = Cardinality(P) - 1
        BY <1>2, FS_RemoveElement
    <2>7. Cardinality(Later) < Limit
        BY <2>2
    <2> QED BY <1>2, <2>5, <2>6, <2>7, LimitsAssumption
<1> HIDE DEF P
<1>5. Cardinality(P) \in 0 .. Limit
    BY <1>2, <1>3, <1>4, LimitsAssumption
<1> QED BY <1>5 DEF P

(* Core::messages takes a page that is not full for the end of what the    *)
(* database has, and the backfill relies on the same of Telegram's pages:  *)
(* of any rows and any cursor, a page has at most Limit messages, goes on  *)
(* without a gap up to the cursor, and has all of them if it has fewer.    *)
THEOREM ShortPageIsTheRest ==
    \A S \in SUBSET Keys : \A cursor \in Keys \cup {Newest} :
        LET page == History(S, cursor) IN
            /\ page \subseteq {k \in S : Behind(k, cursor)}
            /\ Cardinality(page) \in 0 .. Limit
            /\ \A j \in page, k \in S : Earlier(j, k) /\ Behind(k, cursor) => k \in page
            /\ Cardinality(page) < Limit => page = {k \in S : Behind(k, cursor)}
<1> SUFFICES ASSUME NEW S \in SUBSET Keys, NEW cursor \in Keys \cup {Newest}
             PROVE  LET page == LastOf(S, cursor) IN
                        /\ page \subseteq {k \in S : Behind(k, cursor)}
                        /\ Cardinality(page) \in 0 .. Limit
                        /\ \A j \in page, k \in S : Earlier(j, k) /\ Behind(k, cursor) => k \in page
                        /\ Cardinality(page) < Limit => page = {k \in S : Behind(k, cursor)}
    BY DEF History
<1> DEFINE page == LastOf(S, cursor)
<1>1. page \subseteq {k \in S : Behind(k, cursor)}
    BY DEF LastOf
<1>2. Cardinality(page) \in 0 .. Limit
    BY PageFits
<1>3. \A j \in page, k \in S : Earlier(j, k) /\ Behind(k, cursor) => k \in page
    BY PageIsAnEnd
<1>4. ASSUME Cardinality(page) < Limit, NEW k \in S, Behind(k, cursor), k \notin page
      PROVE  FALSE
    <2>1. Cardinality(page) >= Limit
        BY <1>4, PageLeavesLater
    <2> HIDE DEF page
    <2> QED BY <1>2, <1>4, <2>1, LimitsAssumption
<1> HIDE DEF page
<1>5. Cardinality(page) < Limit => page = {k \in S : Behind(k, cursor)}
    BY <1>1, <1>4
<1> QED BY <1>1, <1>2, <1>3, <1>5 DEF page

-----------------------------------------------------------------------------
(* The calls.                                                              *)

LEMMA CallFacts ==
    /\ Idle \in CallRec /\ Idle.at = "idle" /\ Idle.cursor = Newest /\ ~ Idle.failed
    /\ \A cursor \in Keys \cup {Newest} :
        /\ Asked(cursor) \in CallRec /\ Asked(cursor).at = "read"
        /\ Asked(cursor).cursor = cursor
    /\ Older \in Calls /\ Loads \subseteq Calls /\ Loads # {}
    /\ \A c \in Calls : c \in Loads \/ c = Older
    /\ \A c \in Loads : c # Older
BY LoadsAssumption DEF Idle, Asked, CallRec, Calls

LEMMA RowFacts ==
    ASSUME rows \in [Keys -> Nat]
    PROVE  /\ [k \in Keys |-> rows[k]] \in [Keys -> Nat]
           /\ \A k \in Keys : rows[k] \in Nat /\ [i \in Keys |-> rows[i]][k] = rows[k]
OBVIOUS

LEMMA EditedCalls ==
    ASSUME NEW call \in CallRec, rows \in [Keys -> Nat]
    PROVE  /\ \A at \in {"fetch", "reread"} :
               LET next == [call EXCEPT !.at = at]
               IN  /\ next \in CallRec /\ next.at = at /\ next.cursor = call.cursor
                   /\ next.failed = call.failed
           /\ LET next == [call EXCEPT !.at = "reread", !.failed = TRUE]
              IN  /\ next \in CallRec /\ next.at = "reread" /\ next.cursor = call.cursor
                  /\ next.failed
BY DEF CallRec

LEMMA AnsweredCall ==
    ASSUME NEW call \in CallRec, rows \in [Keys -> Nat], NEW failed \in BOOLEAN
    PROVE  /\ Answered(call, failed) \in CallRec
           /\ Answered(call, failed).at = "answer"
           /\ Answered(call, failed).cursor = call.cursor
           /\ Answered(call, failed).seen = [k \in Keys |-> rows[k]]
           /\ Answered(call, failed).failed = failed
<1> DEFINE seen == [k \in Keys |-> rows[k]]
           next == [call EXCEPT !.at = "answer", !.seen = seen, !.failed = failed]
<1>1. seen \in [Keys -> Nat]
    BY RowFacts
<1>2. Answered(call, failed) = next
    BY DEF Answered
<1> HIDE DEF seen
<1>3. next \in CallRec /\ next.at = "answer" /\ next.cursor = call.cursor /\ next.seen = seen
    BY <1>1 DEF CallRec
<1>4. next.failed = failed
    BY DEF CallRec
<1> QED BY <1>2, <1>3, <1>4 DEF seen

LEMMA WellFormedCalls ==
    /\ \A c \in Calls : WellFormed(c, Idle)
    /\ \A c \in Loads : WellFormed(c, Asked(Newest))
<1>1. Asked(Newest).at = "read" /\ Asked(Newest).cursor = Newest
    BY CallFacts
<1>2. Idle.at = "idle" /\ Idle.cursor = Newest
    BY CallFacts
<1> QED BY <1>1, <1>2, CallFacts DEF WellFormed

(* A call of Core::messages goes on.                                       *)
Moves(c) == ReadPage(c) \/ ReadOffline(c) \/ Backfill(c) \/ BackfillFails(c) \/ RereadPage(c)

LEMMA MovesCalls ==
    ASSUME Types, NEW c \in Calls, Moves(c)
    PROVE  /\ calls' \in [Calls -> CallRec]
           /\ calls[c].at # "idle" /\ calls'[c].at \in {"fetch", "reread", "answer"}
           /\ calls'[c].cursor = calls[c].cursor
           /\ \A d \in Calls \ {c} : calls'[d] = calls[d]
           /\ calls'[c].at = "answer" =>
               rows' = rows /\ calls'[c].seen = [k \in Keys |-> rows[k]]
           /\ ~ Backfill(c) => UNCHANGED <<rows, writes, stale>>
           /\ UNCHANGED <<server, given, send, pending, bus, missed, view, marks>>
<1>1. calls \in [Calls -> CallRec] /\ calls[c] \in CallRec /\ rows \in [Keys -> Nat]
    BY DEF Types, TypeOK
<1>2. CASE ReadPage(c)
    <2>1. CASE Enough(calls[c].cursor)
        <3>1. calls' = [calls EXCEPT ![c] = Answered(calls[c], FALSE)]
            BY <1>2, <2>1 DEF ReadPage, Set
        <3>2. FALSE \in BOOLEAN
            OBVIOUS
        <3> DEFINE next == Answered(calls[c], FALSE)
        <3>3. /\ next \in CallRec /\ next.at = "answer" /\ next.cursor = calls[c].cursor
              /\ next.seen = [k \in Keys |-> rows[k]]
            BY <1>1, <3>2, AnsweredCall
        <3> HIDE DEF next
        <3>4. /\ calls' \in [Calls -> CallRec] /\ calls'[c] = next
              /\ \A d \in Calls \ {c} : calls'[d] = calls[d]
            BY <1>1, <3>1, <3>3 DEF next
        <3> QED BY <1>2, <3>3, <3>4 DEF ReadPage, store, ids, way
    <2>2. CASE ~ Enough(calls[c].cursor)
        <3>1. calls' = [calls EXCEPT ![c] = [calls[c] EXCEPT !.at = "fetch"]]
            BY <1>2, <2>2 DEF ReadPage, Set
        <3> QED BY <1>1, <1>2, <3>1, EditedCalls DEF ReadPage, store, ids, way
    <2> QED BY <2>1, <2>2
<1>3. CASE Backfill(c)
    <2>1. calls' = [calls EXCEPT ![c] = [calls[c] EXCEPT !.at = "reread"]]
        BY <1>3 DEF Backfill, Set
    <2> QED BY <1>1, <1>3, <2>1, EditedCalls DEF Backfill, ids, way
<1>4. CASE BackfillFails(c)
    <2>1. calls' = [calls EXCEPT ![c] = [calls[c] EXCEPT !.at = "reread", !.failed = TRUE]]
        BY <1>4 DEF BackfillFails, Set
    <2> QED BY <1>1, <1>4, <2>1, EditedCalls DEF BackfillFails, store, ids, way
<1>5. CASE RereadPage(c)
    <2>1. calls' = [calls EXCEPT ![c] = Answered(calls[c], calls[c].failed)]
        BY <1>5 DEF RereadPage, Set
    <2> DEFINE failed == calls[c].failed
               next == Answered(calls[c], failed)
    <2>2. failed \in BOOLEAN
        BY <1>1 DEF CallRec
    <2> HIDE DEF failed
    <2>3. /\ next \in CallRec /\ next.at = "answer" /\ next.cursor = calls[c].cursor
          /\ next.seen = [k \in Keys |-> rows[k]]
        BY <1>1, <2>2, AnsweredCall
    <2> HIDE DEF next
    <2>4. /\ calls' \in [Calls -> CallRec] /\ calls'[c] = next
          /\ \A d \in Calls \ {c} : calls'[d] = calls[d]
        BY <1>1, <2>1, <2>3 DEF next, failed
    <2> QED BY <1>5, <2>3, <2>4 DEF RereadPage, store, ids, way
<1>6. CASE ReadOffline(c)
    <2>1. calls' = [calls EXCEPT ![c] = Answered(calls[c], TRUE)]
        BY <1>6 DEF ReadOffline, Set
    <2>2. TRUE \in BOOLEAN
        OBVIOUS
    <2> DEFINE next == Answered(calls[c], TRUE)
    <2>3. /\ next \in CallRec /\ next.at = "answer" /\ next.cursor = calls[c].cursor
          /\ next.seen = [k \in Keys |-> rows[k]]
        BY <1>1, <2>2, AnsweredCall
    <2> HIDE DEF next
    <2>4. /\ calls' \in [Calls -> CallRec] /\ calls'[c] = next
          /\ \A d \in Calls \ {c} : calls'[d] = calls[d]
        BY <1>1, <2>1, <2>3 DEF next
    <2> QED BY <1>6, <2>3, <2>4 DEF ReadOffline, store, ids, way
<1> QED BY <1>2, <1>3, <1>4, <1>5, <1>6 DEF Moves

LEMMA IdleCalls ==
    ASSUME Types
    PROVE  \A c \in Calls : calls[c] # Idle <=> calls[c].at # "idle"
BY CallFacts DEF Types, WellFormed

(* What a step of a call leaves alone: that it runs, and its cursor.       *)
LEMMA MovesKeep ==
    ASSUME Types, NEW c \in Calls, Moves(c)
    PROVE  /\ \A d \in Calls : calls'[d] # Idle <=> calls[d] # Idle
           /\ Reloading' <=> Reloading
           /\ c \in Loads => Reloading
           /\ \A d \in Calls : calls'[d].cursor = calls[d].cursor
<1>1. calls[c] # Idle /\ calls'[c] # Idle
    BY MovesCalls, IdleCalls, CallFacts
<1>2. \A d \in Calls : calls'[d] # Idle <=> calls[d] # Idle
    BY <1>1, MovesCalls
<1>3. \A d \in Loads : d \in Calls
    BY CallFacts
<1>4. \A d \in Calls : calls'[d].cursor = calls[d].cursor
    BY MovesCalls
<1> QED BY <1>1, <1>2, <1>3, <1>4 DEF Reloading

LEMMA InitialCalls ==
    ASSUME Types, NEW c \in Calls, InitialAnswer(c)
    PROVE  /\ calls' \in [Calls -> CallRec] /\ calls'[c] = Idle
           /\ \A d \in Calls \ {c} : calls'[d] = calls[d]
           /\ c \in Loads /\ c # Older /\ calls[c].at = "answer" /\ calls[c].cursor = Newest
           /\ calls[c].seen \in [Keys -> Nat]
<1>1. calls' = [calls EXCEPT ![c] = Idle]
    BY DEF InitialAnswer, Set
<1>2. c \in Loads /\ calls[c].cursor = Newest /\ calls[c].seen \in [Keys -> Nat]
    BY CallFacts DEF Types, WellFormed, InitialAnswer
<1> QED BY <1>1, <1>2, CallFacts DEF Types, InitialAnswer

LEMMA LoadOlderCalls ==
    ASSUME Types, LoadOlder
    PROVE  /\ calls' \in [Calls -> CallRec] /\ calls'[Older].at = "read"
           /\ calls[Older] = Idle /\ calls'[Older] # Idle
           /\ calls'[Older].cursor = Oldest /\ Oldest \in Shown
           /\ ~ crossed' => \A j \in Shown : ~ Earlier(j, Oldest)
           /\ \A d \in Calls \ {Older} : calls'[d] = calls[d]
           /\ Reloading' <=> Reloading
<1>1. Shown \in SUBSET Keys /\ Shown # {}
    BY DEF LoadOlder, Shown
<1>2. Oldest \in Shown
    BY <1>1, FirstOf DEF Oldest
<1>3. ~ crossed' => \A j \in Shown : ~ Earlier(j, Oldest)
    BY DEF LoadOlder
<1>4. calls' = [calls EXCEPT ![Older] = Asked(Oldest)]
    BY DEF LoadOlder, Set
<1>5. calls' \in [Calls -> CallRec] /\ calls'[Older] = Asked(Oldest)
    BY <1>1, <1>2, <1>4, CallFacts DEF Types
<1>6. \A d \in Calls \ {Older} : calls'[d] = calls[d]
    BY <1>4 DEF Types
<1>7. calls'[Older].at = "read" /\ calls'[Older].cursor = Oldest
    BY <1>1, <1>2, <1>5, CallFacts
<1>8. Reloading' <=> Reloading
    BY <1>6, CallFacts DEF Reloading
<1> QED BY <1>2, <1>3, <1>5, <1>6, <1>7, <1>8, CallFacts DEF LoadOlder

LEMMA OlderCalls ==
    ASSUME Types, OlderAnswer
    PROVE  /\ calls' \in [Calls -> CallRec] /\ calls'[Older] = Idle
           /\ calls[Older].at = "answer" /\ calls[Older] # Idle
           /\ calls[Older].seen \in [Keys -> Nat] /\ calls[Older].cursor \in Keys
           /\ \A d \in Calls \ {Older} : calls'[d] = calls[d]
           /\ Reloading' <=> Reloading
<1>1. calls' = [calls EXCEPT ![Older] = Idle]
    BY DEF OlderAnswer, Set
<1>2. \A d \in Calls \ {Older} : calls'[d] = calls[d]
    BY <1>1 DEF Types
<1>3. Reloading' <=> Reloading
    BY <1>2, CallFacts DEF Reloading
<1>4. calls[Older].at = "answer" /\ calls[Older] # Idle
    BY CallFacts DEF OlderAnswer
<1>5. calls[Older].seen \in [Keys -> Nat] /\ calls[Older].cursor \in Keys
    BY <1>4, CallFacts DEF Types, WellFormed
<1> QED BY <1>1, <1>2, <1>3, <1>4, <1>5, CallFacts DEF Types

LEMMA LaggedCalls ==
    ASSUME Types, Lagged
    PROVE  /\ calls' \in [Calls -> CallRec] /\ Reloading'
           /\ calls'[Older] = calls[Older]
           /\ \A d \in Calls : calls'[d] = calls[d] \/ (d \in Loads /\ calls'[d] = Asked(Newest))
<1>1. PICK l \in Loads : calls[l] = Idle /\ calls' = [calls EXCEPT ![l] = Asked(Newest)]
    BY DEF Lagged
<1>2. l \in Calls /\ l # Older
    BY CallFacts
<1>3. calls' \in [Calls -> CallRec] /\ calls'[l] = Asked(Newest)
    BY <1>1, <1>2, CallFacts DEF Types
<1>4. \A d \in Calls \ {l} : calls'[d] = calls[d]
    BY <1>1 DEF Types
<1>5. calls'[l] # Idle
    BY <1>3, CallFacts
<1> QED BY <1>2, <1>3, <1>4, <1>5, CallFacts DEF Reloading

-----------------------------------------------------------------------------
(* Events.                                                                 *)

LEMMA EventFacts ==
    ASSUME NEW event, Fact(event)
    PROVE  /\ event \in Events /\ event.kind \in Kinds /\ event.about \in Keys
           /\ event.version \in Nat
           /\ event.kind = "deleted" <=> event.version = 0
           /\ event.kind \in {"added", "updated", "deleted"}
BY DEF Fact, Events, Kinds

LEMMA BusFacts ==
    ASSUME Types
    PROVE  /\ bus \in Seq(Events) /\ Len(bus) \in Nat /\ Len(bus) <= Capacity
           /\ Capacity \in Nat /\ Capacity > 0
           /\ \A i \in 1 .. Len(bus) : Fact(bus[i]) /\ bus[i] \in Events
<1>1. bus \in Seq(Events) /\ Len(bus) <= Capacity
    BY DEF Types, TypeOK
<1>2. \A i \in 1 .. Len(bus) : Fact(bus[i])
    BY DEF Types, Facts
<1> QED BY <1>1, <1>2, CapacityAssumption DEF Fact

LEMMA PendingFacts ==
    ASSUME Types
    PROVE  /\ pending \in [Writers -> Seq(Events)]
           /\ \A w \in Writers :
                /\ pending[w] \in Seq(Events) /\ Len(pending[w]) \in Nat
                /\ \A i \in 1 .. Len(pending[w]) : Fact(pending[w][i])
<1>1. pending \in [Writers -> Seq(Events)] /\ \A w \in Writers : Facts(pending[w])
    BY DEF Types, TypeOK
<1>2. \A w \in Writers : pending[w] \in Seq(Events) /\ Len(pending[w]) \in Nat
    BY <1>1
<1> QED BY <1>1, <1>2 DEF Facts

LEMMA MadeEvents ==
    ASSUME NEW kind \in Kinds, NEW k \in Keys, NEW version \in Nat,
           kind = "deleted" <=> version = 0
    PROVE  /\ Fact(Event(kind, k, version)) /\ Event(kind, k, version) \in Events
           /\ Event(kind, k, version).kind = kind
           /\ Event(kind, k, version).about = k
           /\ Event(kind, k, version).version = version
BY DEF Fact, Event, Events

(* What one event, or two, tell of.                                        *)
LEMMA OneEvent ==
    ASSUME NEW event, Fact(event)
    PROVE  /\ <<event>> \in Seq(Events) /\ Facts(<<event>>)
           /\ \A k, kinds : OnBus(<<event>>, k, kinds) <=> event.kind \in kinds /\ event.about = k
<1> DEFINE events == <<event>>
<1>1. event \in Events
    BY EventFacts
<1>2. events \in Seq(Events) /\ Len(events) = 1 /\ events[1] = event /\ 1 .. 1 = {1}
    BY <1>1
<1> HIDE DEF events
<1>3. Facts(events)
    BY <1>2 DEF Facts
<1>4. \A k, kinds : OnBus(events, k, kinds) <=> event.kind \in kinds /\ event.about = k
    BY <1>2 DEF OnBus
<1> QED BY <1>2, <1>3, <1>4 DEF events

LEMMA TwoEvents ==
    ASSUME NEW first, Fact(first), NEW second, Fact(second)
    PROVE  /\ <<first, second>> \in Seq(Events) /\ Facts(<<first, second>>)
           /\ \A k, kinds : OnBus(<<first, second>>, k, kinds) <=>
                \/ first.kind \in kinds /\ first.about = k
                \/ second.kind \in kinds /\ second.about = k
<1> DEFINE events == <<first, second>>
<1>1. first \in Events /\ second \in Events
    BY EventFacts
<1>2. /\ events \in Seq(Events) /\ Len(events) = 2 /\ events[1] = first /\ events[2] = second
      /\ 1 .. 2 = {1, 2}
    BY <1>1
<1> HIDE DEF events
<1>3. Facts(events)
    BY <1>2 DEF Facts
<1>4. \A k, kinds : OnBus(events, k, kinds) <=>
        (first.kind \in kinds /\ first.about = k) \/ (second.kind \in kinds /\ second.about = k)
    BY <1>2 DEF OnBus
<1> QED BY <1>2, <1>3, <1>4 DEF events

(* A write puts its events to those that are awaited.                      *)
LEMMA WriteStep ==
    ASSUME Types, NEW w \in Writers, NEW new, NEW events, events \in Seq(Events), Facts(events),
           Write(w, new, events)
    PROVE  /\ rows' = new
           /\ \A v \in Writers : pending'[v] = IF v = w THEN events ELSE pending[v]
           /\ pending[w] = <<>>
           /\ pending' \in [Writers -> Seq(Events)] /\ \A v \in Writers : Facts(pending'[v])
           /\ writes' \in 0 .. MaxWrites
           /\ UNCHANGED <<bus, missed, view, calls, crossed, disturbed>>
<1>1. rows' = new /\ pending' = [pending EXCEPT ![w] = events] /\ pending[w] = <<>>
    BY DEF Write
<1>2. pending' \in [Writers -> Seq(Events)]
      /\ \A v \in Writers : pending'[v] = IF v = w THEN events ELSE pending[v]
    BY <1>1, PendingFacts
<1>3. \A v \in Writers : Facts(pending'[v])
    BY <1>2 DEF Types
<1>4. writes' \in 0 .. MaxWrites
    BY LimitsAssumption DEF Write, Types, TypeOK
<1> QED BY <1>1, <1>2, <1>3, <1>4 DEF Write

LEMMA WriteComing ==
    ASSUME Types, NEW w \in Writers, NEW new, NEW events, events \in Seq(Events), Facts(events),
           Write(w, new, events), NEW k, NEW kinds \in SUBSET Kinds
    PROVE  /\ Coming(k, kinds)' <=> Coming(k, kinds) \/ OnBus(events, k, kinds)
           /\ Awaited(k, kinds)' <=> Awaited(k, kinds) \/ OnBus(events, k, kinds)
           /\ OnBus(bus, k, kinds)' <=> OnBus(bus, k, kinds)
<1>1. /\ \A v \in Writers : pending'[v] = IF v = w THEN events ELSE pending[v]
      /\ pending[w] = <<>> /\ bus' = bus
    BY WriteStep
<1>2. Awaited(k, kinds)' <=> Awaited(k, kinds) \/ OnBus(events, k, kinds)
    <2>1. ASSUME NEW v \in Writers, NEW i \in 1 .. Len(pending[v]),
                 pending[v][i].kind \in kinds, pending[v][i].about = k
          PROVE  Awaited(k, kinds)'
        <3>1. v # w
            BY <1>1, <2>1
        <3> QED BY <1>1, <2>1, <3>1 DEF Awaited
    <2>2. OnBus(events, k, kinds) => Awaited(k, kinds)'
        BY <1>1 DEF Awaited, OnBus
    <2>3. Awaited(k, kinds)' => Awaited(k, kinds) \/ OnBus(events, k, kinds)
        BY <1>1 DEF Awaited, OnBus
    <2> QED BY <2>1, <2>2, <2>3 DEF Awaited
<1>3. OnBus(bus, k, kinds)' <=> OnBus(bus, k, kinds)
    BY <1>1 DEF OnBus
<1> QED BY <1>2, <1>3 DEF Coming

(* Publishing: the event is the last on the bus, and a full ring has lost  *)
(* its first.                                                              *)
LEMMA PublishBus ==
    ASSUME Types, NEW w \in Writers, Publish(w)
    PROVE  LET event == Head(pending[w])
               full == Len(bus) = Capacity
               n == Len(bus')
           IN  /\ Fact(event)
               /\ bus' \in Seq(Events) /\ n \in Nat /\ n > 0 /\ n <= Capacity
               /\ bus'[n] = event
               /\ ~ full => n = Len(bus) + 1 /\ \A i \in 1 .. Len(bus) : bus'[i] = bus[i]
               /\ full => n = Len(bus) /\ \A i \in 1 .. Len(bus) - 1 : bus'[i] = bus[i + 1]
               /\ full \/ missed => missed'
               /\ missed' => full \/ missed
               /\ stale' = IF event.version # rows[event.about] THEN stale \cup {event.about}
                                                                ELSE stale
               /\ UNCHANGED <<server, given, rows, send, view, calls, writes, marks>>
<1> DEFINE event == Head(pending[w])
           all == Append(bus, event)
<1>1. Fact(event) /\ event \in Events
    <2>1. pending[w] \in Seq(Events) /\ pending[w] # <<>>
        BY PendingFacts DEF Publish
    <2>2. 1 \in 1 .. Len(pending[w]) /\ event = pending[w][1]
        BY <2>1
    <2> QED BY <2>2, PendingFacts, EventFacts
<1>2. /\ bus \in Seq(Events) /\ Len(bus) \in Nat /\ Len(bus) <= Capacity
      /\ Capacity \in Nat /\ Capacity > 0
    BY BusFacts
<1>3. /\ all \in Seq(Events) /\ Len(all) = Len(bus) + 1 /\ all[Len(bus) + 1] = event
      /\ \A i \in 1 .. Len(bus) : all[i] = bus[i]
    BY <1>1, <1>2
<1>4. bus' = (IF Len(all) > Capacity THEN Tail(all) ELSE all) /\ missed' = (missed \/ Len(all) > Capacity)
    BY DEF Publish, Kept
<1>5. Len(all) > Capacity <=> Len(bus) = Capacity
    BY <1>2, <1>3
<1>6. /\ stale' = IF event.version # rows[event.about] THEN stale \cup {event.about} ELSE stale
      /\ UNCHANGED <<server, given, rows, send, view, calls, writes, marks>>
    BY DEF Publish, store, ids
<1>7. CASE Len(bus) = Capacity
    <2>1. bus' = Tail(all) /\ all # <<>>
        BY <1>2, <1>3, <1>4, <1>5, <1>7
    <2>2. /\ bus' \in Seq(Events) /\ Len(bus') = Len(bus)
          /\ \A i \in 1 .. Len(bus) : bus'[i] = all[i + 1]
        BY <1>2, <1>3, <2>1, HeadTailProperties
    <2> HIDE DEF all, event
    <2>3. bus'[Len(bus)] = event /\ \A i \in 1 .. Len(bus) - 1 : bus'[i] = bus[i + 1]
        BY <1>2, <1>3, <1>7, <2>2
    <2>4. missed'
        BY <1>4, <1>5, <1>7
    <2> QED BY <1>1, <1>2, <1>6, <1>7, <2>2, <2>3, <2>4 DEF event
<1>8. CASE Len(bus) # Capacity
    <2>1. bus' = all
        BY <1>4, <1>5, <1>8
    <2>2. missed' <=> missed
        BY <1>4, <1>5, <1>8
    <2> HIDE DEF all, event
    <2>3. Len(bus') <= Capacity
        BY <1>2, <1>3, <1>8, <2>1
    <2> QED BY <1>1, <1>2, <1>3, <1>6, <1>8, <2>1, <2>2, <2>3 DEF event
<1> QED BY <1>7, <1>8

LEMMA PublishPending ==
    ASSUME Types, NEW w \in Writers, Publish(w)
    PROVE  /\ pending' \in [Writers -> Seq(Events)] /\ \A v \in Writers : Facts(pending'[v])
           /\ \A v \in Writers \ {w} : pending'[v] = pending[v]
           /\ Len(pending[w]) \in Nat /\ Len(pending[w]) > 0 /\ Head(pending[w]) = pending[w][1]
           /\ Len(pending'[w]) = Len(pending[w]) - 1
           /\ \A i \in 1 .. Len(pending'[w]) :
                i + 1 \in 1 .. Len(pending[w]) /\ pending'[w][i] = pending[w][i + 1]
<1> DEFINE events == pending[w]
<1>1. events \in Seq(Events) /\ events # <<>> /\ pending \in [Writers -> Seq(Events)]
    BY PendingFacts DEF Publish
<1>2. pending' = [pending EXCEPT ![w] = Tail(events)]
    BY DEF Publish
<1>3. Len(events) \in Nat /\ Len(events) > 0 /\ Head(events) = events[1]
    BY <1>1
<1>4. /\ Tail(events) \in Seq(Events) /\ Len(Tail(events)) = Len(events) - 1
      /\ \A i \in 1 .. Len(Tail(events)) : Tail(events)[i] = events[i + 1]
    BY <1>1, HeadTailProperties
<1>5. \A i \in 1 .. Len(Tail(events)) : i + 1 \in 1 .. Len(events)
    BY <1>3, <1>4
<1>6. Facts(Tail(events))
    BY <1>4, <1>5, PendingFacts DEF Facts
<1> HIDE DEF events
<1>7. /\ pending' \in [Writers -> Seq(Events)] /\ pending'[w] = Tail(events)
      /\ \A v \in Writers \ {w} : pending'[v] = pending[v]
    BY <1>1, <1>2, <1>4
<1>8. \A v \in Writers : Facts(pending'[v])
    BY <1>6, <1>7 DEF Types
<1> QED BY <1>3, <1>4, <1>5, <1>7, <1>8 DEF events

LEMMA PublishAwaited ==
    ASSUME Types, NEW w \in Writers, Publish(w), NEW k, NEW kinds \in SUBSET Kinds
    PROVE  LET event == Head(pending[w])
           IN  /\ Awaited(k, kinds)' => Awaited(k, kinds)
               /\ Awaited(k, kinds) =>
                    Awaited(k, kinds)' \/ (event.kind \in kinds /\ event.about = k)
               /\ event.kind \in kinds /\ event.about = k => Awaited(k, kinds)
<1>1. /\ \A v \in Writers \ {w} : pending'[v] = pending[v]
      /\ Len(pending[w]) \in Nat /\ Len(pending[w]) > 0 /\ Head(pending[w]) = pending[w][1]
      /\ Len(pending'[w]) = Len(pending[w]) - 1
      /\ \A i \in 1 .. Len(pending'[w]) :
            i + 1 \in 1 .. Len(pending[w]) /\ pending'[w][i] = pending[w][i + 1]
    BY PublishPending
<1> DEFINE event == pending[w][1]
<1>2. Awaited(k, kinds)' => Awaited(k, kinds)
    <2> SUFFICES ASSUME NEW v \in Writers, NEW i \in 1 .. Len(pending'[v]),
                        pending'[v][i].kind \in kinds, pending'[v][i].about = k
                 PROVE  Awaited(k, kinds)
        BY DEF Awaited
    <2>1. CASE v = w
        BY <1>1, <2>1 DEF Awaited
    <2>2. CASE v # w
        BY <1>1, <2>2 DEF Awaited
    <2> QED BY <2>1, <2>2
<1>3. ASSUME NEW v \in Writers, NEW i \in 1 .. Len(pending[v]),
             pending[v][i].kind \in kinds, pending[v][i].about = k
      PROVE  Awaited(k, kinds)' \/ (event.kind \in kinds /\ event.about = k)
    <2>1. CASE v # w
        BY <1>1, <1>3, <2>1 DEF Awaited
    <2>2. CASE v = w /\ i # 1
        <3>1. i - 1 \in 1 .. Len(pending'[w]) /\ (i - 1) + 1 = i
            BY <1>1, <1>3, <2>2
        <3>2. pending'[w][i - 1] = pending[w][i]
            BY <1>1, <3>1
        <3> QED BY <1>3, <2>2, <3>1, <3>2 DEF Awaited
    <2>3. CASE v = w /\ i = 1
        BY <1>3, <2>3
    <2> QED BY <2>1, <2>2, <2>3
<1>4. event.kind \in kinds /\ event.about = k => Awaited(k, kinds)
    <2>1. 1 \in 1 .. Len(pending[w])
        BY <1>1
    <2> QED BY <2>1 DEF Awaited
<1>5. Awaited(k, kinds) => Awaited(k, kinds)' \/ (event.kind \in kinds /\ event.about = k)
    BY <1>3 DEF Awaited
<1> HIDE DEF event
<1> QED BY <1>1, <1>2, <1>4, <1>5 DEF event

LEMMA PublishComing ==
    ASSUME Types, NEW w \in Writers, Publish(w), NEW k, NEW kinds \in SUBSET Kinds
    PROVE  /\ Coming(k, kinds)' => Coming(k, kinds)
           /\ Coming(k, kinds) /\ ~ missed' => Coming(k, kinds)'
           /\ Head(pending[w]).kind \in kinds /\ Head(pending[w]).about = k => OnBus(bus, k, kinds)'
<1> DEFINE event == Head(pending[w])
           n == Len(bus')
<1>1. /\ n \in Nat /\ n > 0 /\ bus'[n] = event /\ Len(bus) \in Nat
      /\ Len(bus) # Capacity => n = Len(bus) + 1 /\ \A i \in 1 .. Len(bus) : bus'[i] = bus[i]
      /\ Len(bus) = Capacity => n = Len(bus) /\ \A i \in 1 .. Len(bus) - 1 : bus'[i] = bus[i + 1]
      /\ Len(bus) = Capacity => missed'
    BY PublishBus, BusFacts
<1>2. event.kind \in kinds /\ event.about = k => OnBus(bus, k, kinds)'
    <2>1. n \in 1 .. n
        BY <1>1
    <2> HIDE DEF event
    <2> QED BY <1>1, <2>1 DEF OnBus
<1>3. OnBus(bus, k, kinds)' => OnBus(bus, k, kinds) \/ (event.kind \in kinds /\ event.about = k)
    <2> SUFFICES ASSUME NEW i \in 1 .. n, bus'[i].kind \in kinds, bus'[i].about = k, i # n
                 PROVE  OnBus(bus, k, kinds)
        BY <1>1 DEF OnBus
    <2>1. CASE Len(bus) # Capacity
        <3>1. i \in 1 .. Len(bus) /\ bus'[i] = bus[i]
            BY <1>1, <2>1
        <3> QED BY <3>1 DEF OnBus
    <2>2. CASE Len(bus) = Capacity
        <3>1. i + 1 \in 1 .. Len(bus) /\ bus'[i] = bus[i + 1]
            BY <1>1, <2>2
        <3> QED BY <3>1 DEF OnBus
    <2> QED BY <2>1, <2>2
<1>4. event.kind \in kinds /\ event.about = k => Awaited(k, kinds)
    BY PublishAwaited
<1>5. Coming(k, kinds)' => Coming(k, kinds)
    BY <1>3, <1>4, PublishAwaited DEF Coming
<1>6. OnBus(bus, k, kinds) /\ ~ missed' => OnBus(bus, k, kinds)'
    <2> SUFFICES ASSUME NEW i \in 1 .. Len(bus), bus[i].kind \in kinds, bus[i].about = k, ~ missed'
                 PROVE  OnBus(bus, k, kinds)'
        BY DEF OnBus
    <2>1. i \in 1 .. n /\ bus'[i] = bus[i]
        BY <1>1
    <2> QED BY <2>1 DEF OnBus
<1> HIDE DEF event
<1> QED BY <1>2, <1>5, <1>6, PublishAwaited DEF Coming, event

(* Delivering takes the first event off the bus.                           *)
LEMMA DeliverBus ==
    ASSUME Types, Deliver
    PROVE  /\ bus # <<>> /\ Len(bus) > 0 /\ Head(bus) = bus[1] /\ Fact(bus[1]) /\ bus[1] \in Events
           /\ bus' \in Seq(Events) /\ Len(bus') = Len(bus) - 1 /\ Len(bus') \in Nat
           /\ \A i \in 1 .. Len(bus') : i + 1 \in 1 .. Len(bus) /\ bus'[i] = bus[i + 1]
<1>1. bus \in Seq(Events) /\ bus # <<>> /\ bus' = Tail(bus)
    BY BusFacts DEF Deliver
<1>2. Len(bus) \in Nat /\ Len(bus) > 0
    BY <1>1
<1>3. Fact(bus[1]) /\ bus[1] \in Events
    BY <1>2, BusFacts
<1>4. bus' \in Seq(Events) /\ Len(bus') = Len(bus) - 1
      /\ \A i \in 1 .. Len(bus') : bus'[i] = bus[i + 1]
    BY <1>1, HeadTailProperties
<1>5. \A i \in 1 .. Len(bus') : i + 1 \in 1 .. Len(bus)
    BY <1>2, <1>4
<1> QED BY <1>1, <1>2, <1>3, <1>4, <1>5

LEMMA DeliverComing ==
    ASSUME Types, Deliver, NEW k, NEW kinds \in SUBSET Kinds
    PROVE  /\ Coming(k, kinds)' => Coming(k, kinds)
           /\ Coming(k, kinds) => \/ Coming(k, kinds)'
                                  \/ bus[1].kind \in kinds /\ bus[1].about = k
           /\ bus[1].kind \in kinds /\ bus[1].about = k => Coming(k, kinds)
           /\ Awaited(k, kinds)' <=> Awaited(k, kinds)
<1>1. /\ Len(bus) \in Nat /\ Len(bus) > 0 /\ Len(bus') = Len(bus) - 1
      /\ \A i \in 1 .. Len(bus') : i + 1 \in 1 .. Len(bus) /\ bus'[i] = bus[i + 1]
    BY DeliverBus, BusFacts
<1>2. Awaited(k, kinds)' <=> Awaited(k, kinds)
    BY DEF Deliver, Awaited
<1>3. OnBus(bus, k, kinds)' => OnBus(bus, k, kinds)
    BY <1>1 DEF OnBus
<1>4. ASSUME OnBus(bus, k, kinds)
      PROVE  OnBus(bus, k, kinds)' \/ (bus[1].kind \in kinds /\ bus[1].about = k)
    <2>1. PICK i \in 1 .. Len(bus) : bus[i].kind \in kinds /\ bus[i].about = k
        BY <1>4 DEF OnBus
    <2>2. CASE i # 1
        <3>1. i - 1 \in 1 .. Len(bus') /\ (i - 1) + 1 = i
            BY <1>1, <2>2
        <3>2. bus'[i - 1] = bus[i]
            BY <1>1, <3>1
        <3> QED BY <2>1, <3>1, <3>2 DEF OnBus
    <2> QED BY <2>1, <2>2
<1>5. bus[1].kind \in kinds /\ bus[1].about = k => OnBus(bus, k, kinds)
    BY <1>1 DEF OnBus
<1> QED BY <1>2, <1>3, <1>4, <1>5 DEF Coming

-----------------------------------------------------------------------------
(* The list on screen.                                                     *)

Versions == Nat \ {0}

LEMMA OneCopy ==
    ASSUME NEW version \in Versions
    PROVE  /\ <<version>> \in Seq(Versions) /\ Len(<<version>>) = 1 /\ <<version>> # <<>>
           /\ Range(<<version>>) = {version}
<1>1. /\ <<version>> \in Seq(Versions) /\ Len(<<version>>) = 1 /\ <<version>> # <<>>
      /\ DOMAIN <<version>> = 1 .. 1 /\ <<version>>[1] = version
    OBVIOUS
<1> QED BY <1>1 DEF Range

LEMMA NoCopy == Len(<<>>) = 0 /\ Range(<<>>) = {} /\ <<>> \in Seq(Versions)
BY DEF Range

LEMMA AllReplaced ==
    ASSUME NEW s \in Seq(Versions), NEW version \in Versions
    PROVE  LET t == [n \in DOMAIN s |-> version]
           IN  /\ t \in Seq(Versions) /\ Len(t) = Len(s) /\ (t = <<>> <=> s = <<>>)
               /\ Range(t) \subseteq {version}
<1> DEFINE t == [n \in DOMAIN s |-> version]
<1>1. DOMAIN s = 1 .. Len(s) /\ Len(s) \in Nat
    BY LenProperties
<1>2. t \in [1 .. Len(s) -> Versions] /\ t \in Seq(Versions) /\ Len(t) = Len(s)
    BY <1>1
<1>3. t = <<>> <=> s = <<>>
    BY <1>2, EmptySeq
<1>4. Range(t) \subseteq {version}
    BY <1>1 DEF Range
<1> QED BY <1>2, <1>3, <1>4

LEMMA InFront ==
    ASSUME NEW s \in Seq(Versions), NEW version \in Versions
    PROVE  LET t == <<version>> \o s
           IN  /\ t \in Seq(Versions) /\ Len(t) = Len(s) + 1 /\ t # <<>>
               /\ Range(t) \subseteq {version} \cup Range(s)
<1> DEFINE one == <<version>>
           t == one \o s
<1>1. one \in Seq(Versions) /\ Len(one) = 1 /\ one[1] = version
    BY OneCopy
<1>2. Len(s) \in Nat /\ DOMAIN s = 1 .. Len(s)
    BY LenProperties
<1> HIDE DEF one
<1>3. /\ t \in Seq(Versions) /\ Len(t) = Len(s) + 1
      /\ \A i \in 1 .. Len(s) + 1 : t[i] = IF i <= 1 THEN one[i] ELSE s[i - 1]
    BY <1>1, <1>2, ConcatProperties
<1>4. DOMAIN t = 1 .. Len(s) + 1
    BY <1>3, LenProperties
<1> HIDE DEF t
<1>5. \A i \in 1 .. Len(s) + 1 : t[i] = version \/ t[i] \in Range(s)
    <2> SUFFICES ASSUME NEW i \in 1 .. Len(s) + 1
                 PROVE  t[i] = version \/ t[i] \in Range(s)
        OBVIOUS
    <2>1. CASE i = 1
        BY <1>1, <1>3, <2>1
    <2>2. CASE i # 1
        <3>1. i - 1 \in 1 .. Len(s) /\ t[i] = s[i - 1]
            BY <1>2, <1>3, <2>2
        <3> QED BY <1>2, <3>1 DEF Range
    <2> QED BY <2>1, <2>2
<1>6. Range(t) \subseteq {version} \cup Range(s)
    BY <1>4, <1>5 DEF Range
<1>7. t # <<>>
    BY <1>2, <1>3, NoCopy
<1> QED BY <1>3, <1>6, <1>7 DEF t, one

LEMMA ViewFacts ==
    ASSUME Types
    PROVE  \A k \in Keys : view[k] \in Seq(Versions)
BY DEF Types, TypeOK, Versions

(* What an event does to the list.                                         *)
LEMMA DeliverView ==
    ASSUME Types, Deliver
    PROVE  LET event == bus[1]
               k == event.about
           IN  /\ view' \in [Keys -> Seq(Versions)]
               /\ \A j \in Keys \ {k} : view'[j] = view[j]
               /\ event.kind = "added" => view'[k] = <<event.version>> /\ event.version \in Versions
               /\ event.kind = "updated" =>
                    /\ Len(view'[k]) = Len(view[k]) /\ (view'[k] = <<>> <=> view[k] = <<>>)
                    /\ Range(view'[k]) \subseteq {event.version}
               /\ event.kind = "deleted" => view'[k] = <<>>
<1> DEFINE event == bus[1]
           k == event.about
           version == event.version
           other == [n \in DOMAIN view[k] |-> version]
<1>1. Fact(event) /\ Head(bus) = event
    BY DeliverBus
<1>2. event.kind \in {"added", "updated", "deleted"} /\ k \in Keys /\ version \in Nat
    BY <1>1, EventFacts
<1>3. event.kind # "deleted" => version \in Versions
    BY <1>1, <1>2, EventFacts DEF Versions
<1>4. view \in [Keys -> Seq(Versions)] /\ view' = After(event)
    BY <1>1 DEF Deliver, Types, TypeOK, Versions
<1> HIDE DEF version
<1>5. CASE event.kind = "added"
    <2>1. view' = [view EXCEPT ![k] = <<version>>]
        BY <1>4, <1>5 DEF After, version
    <2>2. <<version>> \in Seq(Versions) /\ k \in Keys /\ version \in Versions
        BY <1>2, <1>3, <1>5, OneCopy
    <2> HIDE DEF event
    <2>3. view' \in [Keys -> Seq(Versions)] /\ view'[k] = <<version>>
          /\ \A j \in Keys \ {k} : view'[j] = view[j]
        BY <1>4, <2>1, <2>2
    <2> QED BY <1>5, <2>2, <2>3 DEF event, version
<1>6. CASE event.kind = "updated"
    <2>1. view' = [view EXCEPT ![k] = other]
        BY <1>4, <1>6 DEF After, Replaced, version
    <2>2. k \in Keys /\ version \in Versions /\ view[k] \in Seq(Versions)
        BY <1>2, <1>3, <1>4, <1>6
    <2>3. /\ other \in Seq(Versions) /\ Len(other) = Len(view[k])
          /\ other = <<>> <=> view[k] = <<>>
          /\ Range(other) \subseteq {version}
        BY <2>2, AllReplaced
    <2> HIDE DEF event, other
    <2>4. view' \in [Keys -> Seq(Versions)] /\ view'[k] = other
          /\ \A j \in Keys \ {k} : view'[j] = view[j]
        BY <1>4, <2>1, <2>2, <2>3
    <2> QED BY <1>6, <2>3, <2>4 DEF event, version
<1>7. CASE event.kind = "deleted"
    <2>1. view' = [view EXCEPT ![k] = <<>>]
        BY <1>4, <1>7 DEF After
    <2> HIDE DEF event
    <2>2. view' \in [Keys -> Seq(Versions)] /\ view'[k] = <<>>
          /\ \A j \in Keys \ {k} : view'[j] = view[j]
        BY <1>2, <1>4, <1>7, <2>1, NoCopy
    <2> QED BY <1>7, <2>2 DEF event
<1> QED BY <1>2, <1>5, <1>6, <1>7

(* The event that settles a row is the only one under way about it.        *)
LEMMA DeliverStale ==
    ASSUME Types, Deliver, NEW k, k = bus[1].about
    PROVE  /\ stale' \subseteq stale /\ stale \ {k} \subseteq stale'
           /\ k \in stale /\ k \notin stale' =>
                /\ bus[1].version = rows[k]
                /\ bus[1].kind = "updated" => view[k] # <<>>
                /\ ~ Coming(k, Kinds)'
           /\ ~ missed /\ ~ missed'
           /\ UNCHANGED <<server, given, rows, send, pending, calls, writes, vanished>>
<1> DEFINE event == bus[1]
<1>1. /\ Head(bus) = event /\ stale' = (IF Settles(event) THEN stale \ {k} ELSE stale)
      /\ bus' = Tail(bus) /\ ~ missed /\ missed' = missed
      /\ UNCHANGED <<server, given, rows, send, pending, calls, writes, vanished>>
    BY DeliverBus DEF Deliver, store, ids
<1>2. Settles(event) =>
        /\ event.version = rows[k]
        /\ event.kind = "updated" => view[k] # <<>>
        /\ ~ Awaited(k, Kinds) /\ ~ OnBus(Tail(bus), k, Kinds)
    BY DEF Settles
<1>3. Awaited(k, Kinds)' <=> Awaited(k, Kinds)
    BY <1>1 DEF Awaited
<1>4. OnBus(bus, k, Kinds)' <=> OnBus(Tail(bus), k, Kinds)
    BY <1>1 DEF OnBus
<1>5. Settles(event) => ~ Coming(k, Kinds)'
    BY <1>2, <1>3, <1>4 DEF Coming
<1> HIDE DEF event
<1> QED BY <1>1, <1>2, <1>5 DEF event

(* The messages that a call has read.                                      *)
Had(call) == {k \in Keys : call.seen[k] # 0}

LEMMA PageFacts ==
    ASSUME NEW call
    PROVE  /\ DOMAIN Page(call) = LastOf(Had(call), call.cursor)
           /\ \A k \in DOMAIN Page(call) :
                /\ Page(call)[k] = call.seen[k] /\ k \in Had(call) /\ k \in Keys
                /\ Behind(k, call.cursor)
BY DEF Page, History, Had, LastOf

(* What is before a message of the page and not before its end is in it.   *)
LEMMA PageEnds ==
    ASSUME NEW call, NEW j \in DOMAIN Page(call), NEW k \in Had(call), Earlier(j, k),
           Behind(k, call.cursor)
    PROVE  k \in DOMAIN Page(call)
<1>1. Had(call) \in SUBSET Keys
    BY DEF Had
<1> QED BY <1>1, PageFacts, PageIsAnEnd

LEMMA InitialView ==
    ASSUME Types, NEW c \in Calls, InitialAnswer(c)
    PROVE  /\ view' \in [Keys -> Seq(Versions)]
           /\ \A k \in Keys :
                \/ /\ k \in DOMAIN Page(calls[c]) /\ view'[k] # <<>>
                   /\ view'[k] = <<calls[c].seen[k]>>
                   /\ Len(view'[k]) = 1 /\ Range(view'[k]) = {calls[c].seen[k]}
                \/ k \notin DOMAIN Page(calls[c]) /\ view'[k] = <<>>
<1> DEFINE call == calls[c]
           page == Page(call)
<1>1. view' = [k \in Keys |-> IF k \in DOMAIN page THEN <<page[k]>> ELSE <<>>]
    BY DEF InitialAnswer
<1>2. call.seen \in [Keys -> Nat]
    BY InitialCalls
<1>3. \A k \in DOMAIN page : page[k] = call.seen[k] /\ call.seen[k] \in Versions
    BY <1>2, PageFacts DEF Had, Versions
<1> HIDE DEF page, call
<1>4. \A k \in DOMAIN page : /\ <<page[k]>> \in Seq(Versions) /\ Len(<<page[k]>>) = 1
                             /\ <<page[k]>> # <<>> /\ Range(<<page[k]>>) = {page[k]}
    BY <1>3, OneCopy
<1> QED BY <1>1, <1>3, <1>4, NoCopy DEF page, call

LEMMA OlderView ==
    ASSUME Types, OlderAnswer
    PROVE  /\ view' \in [Keys -> Seq(Versions)]
           /\ \A k \in Keys :
                \/ /\ k \in DOMAIN Page(calls[Older]) /\ view'[k] # <<>>
                   /\ Len(view'[k]) = Len(view[k]) + 1
                   /\ Range(view'[k]) \subseteq {calls[Older].seen[k]} \cup Range(view[k])
                \/ k \notin DOMAIN Page(calls[Older]) /\ view'[k] = view[k]
<1> DEFINE call == calls[Older]
           page == Page(call)
<1>1. view' = [k \in Keys |-> IF k \in DOMAIN page THEN <<page[k]>> \o view[k] ELSE view[k]]
    BY DEF OlderAnswer
<1>2. call.seen \in [Keys -> Nat]
    BY OlderCalls
<1>3. \A k \in DOMAIN page : page[k] = call.seen[k] /\ call.seen[k] \in Versions
    BY <1>2, PageFacts DEF Had, Versions
<1> HIDE DEF page, call
<1>4. \A k \in Keys : view[k] \in Seq(Versions)
    BY ViewFacts
<1>5. \A k \in DOMAIN page \cap Keys :
        /\ <<page[k]>> \o view[k] \in Seq(Versions)
        /\ Len(<<page[k]>> \o view[k]) = Len(view[k]) + 1
        /\ <<page[k]>> \o view[k] # <<>>
        /\ Range(<<page[k]>> \o view[k]) \subseteq {page[k]} \cup Range(view[k])
    BY <1>3, <1>4, InFront
<1> QED BY <1>1, <1>3, <1>4, <1>5 DEF page, call

(* What an answer that is amiss leaves, and what it settles.               *)
LEMMA AmissFacts ==
    ASSUME NEW call, NEW shown, NEW k \in Keys, k \notin Amiss(call, shown),
           ~ missed, call.seen[k] # rows[k]
    PROVE  /\ shown[k] # <<>> /\ ~ Coming(k, Kinds) => Range(shown[k]) = {rows[k]}
           /\ shown[k] = <<>> /\ rows[k] # 0 => Coming(k, {"added"})
BY DEF Amiss

LEMMA InitialStale ==
    ASSUME Types, NEW c \in Calls, InitialAnswer(c)
    PROVE  /\ stale' \subseteq Keys /\ Amiss(calls[c], view') \subseteq stale'
           /\ \A k \in stale \ stale' : ~ Coming(k, Kinds)
           /\ crossed' = (calls[Older] # Idle) /\ disturbed' = FALSE
           /\ UNCHANGED <<server, given, rows, send, pending, bus, missed, writes, vanished>>
<1>1. stale \subseteq Keys
    BY DEF Types, TypeOK
<1>2. stale' = {k \in stale : Coming(k, Kinds)} \cup Amiss(calls[c], view')
    BY DEF InitialAnswer
<1>3. Amiss(calls[c], view') \subseteq Keys
    BY DEF Amiss
<1> QED BY <1>1, <1>2, <1>3 DEF InitialAnswer, store, ids, way

LEMMA OlderStale ==
    ASSUME Types, OlderAnswer
    PROVE  /\ stale' \subseteq Keys /\ Amiss(calls[Older], view') \subseteq stale'
           /\ \A k \in stale \ stale' :
                k \in DOMAIN Page(calls[Older]) /\ view[k] = <<>> /\ ~ Coming(k, Kinds)
           /\ disturbed' = (disturbed \/ crossed) /\ crossed' = FALSE /\ vanished' = FALSE
           /\ UNCHANGED <<server, given, rows, send, pending, bus, missed, writes>>
<1>1. stale \subseteq Keys
    BY DEF Types, TypeOK
<1>2. stale' = (stale \ {k \in DOMAIN Page(calls[Older]) : view[k] = <<>> /\ ~ Coming(k, Kinds)})
                    \cup Amiss(calls[Older], view')
    BY DEF OlderAnswer
<1>3. Amiss(calls[Older], view') \subseteq Keys
    BY DEF Amiss
<1> QED BY <1>1, <1>2, <1>3 DEF OlderAnswer, store, ids, way

LEMMA WayComing ==
    ASSUME UNCHANGED <<pending, bus>>, NEW k, NEW kinds
    PROVE  /\ Coming(k, kinds)' <=> Coming(k, kinds)
           /\ Awaited(k, kinds)' <=> Awaited(k, kinds)
           /\ OnBus(bus, k, kinds)' <=> OnBus(bus, k, kinds)
BY DEF Coming, Awaited, OnBus

-----------------------------------------------------------------------------
(* The steps, by what they write.                                          *)

Writes(w) ==
    \/ Send(w) \/ Confirm(w) \/ SendFails(w)
    \/ \E k \in Keys : Arrive(w, k) \/ Modify(w, k) \/ Delete(w, k)

Step ==
    \/ \E k \in New : Post(k) \/ Accept(k)
    \/ \E w \in Writers : Writes(w) \/ Publish(w)
    \/ \E k \in Keys : StoreUntold(k)
    \/ Deliver \/ Lagged
    \/ \E c \in Calls : Moves(c) \/ InitialAnswer(c)
    \/ LoadOlder \/ OlderAnswer

LEMMA Steps == Next => Step
BY DEF Next, Step, Writes, Moves, Seed, Search

(* An id is given.                                                         *)
LEMMA GivenStep ==
    ASSUME Types, NEW k \in New, Post(k) \/ Accept(k)
    PROVE  /\ k \in Ids /\ k \notin given /\ \A j \in given \cap Ids : j < k
           /\ given' = given \cup {k} /\ server' = server \cup {k}
           /\ send' = send \/ send' = k
           /\ UNCHANGED <<rows, pending, bus, missed, view, calls, writes, stale, marks>>
BY DEF Post, Accept, Given, way, Ids

(* An upsert keeps what is stored, and what it changes is stale.           *)
LEMMA UpsertStep ==
    ASSUME Types, NEW page \in SUBSET server, NEW edited, Upsert(page, edited)
    PROVE  /\ rows' \in [Keys -> Nat]
           /\ \A k \in Keys : /\ rows[k] # 0 => rows'[k] # 0
                              /\ rows'[k] # rows[k] => k \in stale' /\ k \in server
           /\ \A k \in page : rows'[k] # 0
           /\ stale \subseteq stale' /\ stale' \subseteq Keys
<1>1. rows \in [Keys -> Nat] /\ page \subseteq Keys /\ stale \subseteq Keys
    BY KeyFacts DEF Types, TypeOK
<1>2. /\ edited \subseteq page \cap Stored
      /\ stale' = stale \cup edited \cup (page \ Stored)
      /\ rows' = [k \in Keys |-> IF k \in edited THEN rows[k] + 1
                                 ELSE IF k \in page /\ rows[k] = 0 THEN 1 ELSE rows[k]]
    BY DEF Upsert
<1>3. \A k \in Keys : k \in Stored <=> rows[k] # 0
    BY DEF Stored
<1> QED BY <1>1, <1>2, <1>3

LEMMA UntoldStep ==
    ASSUME Types, NEW k \in Keys, StoreUntold(k)
    PROVE  /\ rows' \in [Keys -> Nat]
           /\ \A j \in Keys : /\ rows[j] # 0 => rows'[j] # 0
                              /\ rows'[j] # rows[j] => j \in stale' /\ j \in server
           /\ stale \subseteq stale' /\ stale' \subseteq Keys
           /\ writes' \in 0 .. MaxWrites
           /\ UNCHANGED <<server, given, send, pending, bus, missed, view, calls, marks>>
<1>1. PICK edited : Upsert({k}, edited)
    BY DEF StoreUntold
<1>2. {k} \in SUBSET server
    BY DEF StoreUntold
<1>3. writes' \in 0 .. MaxWrites
    BY LimitsAssumption DEF StoreUntold, Types, TypeOK
<1> QED BY <1>1, <1>2, <1>3, UpsertStep DEF StoreUntold, ids, way

LEMMA FetchedFacts == \A cursor : Fetched(cursor) \subseteq server
BY DEF Fetched, LastOf

LEMMA BackfillStep ==
    ASSUME Types, NEW c \in Calls, Backfill(c)
    PROVE  /\ rows' \in [Keys -> Nat]
           /\ \A j \in Keys : /\ rows[j] # 0 => rows'[j] # 0
                              /\ rows'[j] # rows[j] => j \in stale' /\ j \in server
           /\ \A j \in Fetched(calls[c].cursor) : rows'[j] # 0
           /\ stale \subseteq stale' /\ stale' \subseteq Keys
           /\ writes' \in 0 .. MaxWrites
<1>1. PICK edited : /\ Upsert(Fetched(calls[c].cursor), edited)
                    /\ IF edited = {} THEN UNCHANGED writes
                       ELSE writes < MaxWrites /\ writes' = writes + 1
    BY DEF Backfill
<1>2. writes' \in 0 .. MaxWrites
    BY <1>1, LimitsAssumption DEF Types, TypeOK
<1> QED BY <1>1, <1>2, UpsertStep, FetchedFacts

LEMMA MovesRows ==
    ASSUME Types, NEW c \in Calls, Moves(c)
    PROVE  /\ \A k \in Keys : /\ rows[k] # 0 => rows'[k] # 0
                              /\ rows'[k] # rows[k] => k \in stale'
           /\ stale \subseteq stale'
<1>1. CASE Backfill(c)
    BY <1>1, BackfillStep
<1>2. CASE ~ Backfill(c)
    BY <1>2, MovesCalls
<1> QED BY <1>1, <1>2

(* A write tells of what it changes: with an event about the row, which it *)
(* makes stale if nothing adds it to the screen.                           *)
Wrote(w, new, events) ==
    /\ new \in [Keys -> Nat] /\ events \in Seq(Events) /\ Facts(events) /\ Write(w, new, events)
    /\ \A k \in Keys :
        /\ new[k] # rows[k] => OnBus(events, k, Kinds)
        /\ rows[k] = 0 /\ new[k] # 0 => OnBus(events, k, {"added"}) \/ k \in stale'
        /\ OnBus(events, k, Kinds) => k \in given'
        /\ k \in server' /\ rows[k] # 0 => new[k] # 0
        /\ k \in server \ server' /\ calls[Older].at = "reread" /\ Earlier(k, calls[Older].cursor) =>
            vanished'
    /\ stale \subseteq stale' /\ stale' \subseteq Keys
    /\ server' \subseteq server /\ given \subseteq given' /\ given' \subseteq Keys
    /\ send' # NoSend => {Local, send'} \subseteq given'
    /\ vanished' \in BOOLEAN /\ (vanished => vanished')

LEMMA PutFacts ==
    ASSUME Types, NEW k \in Keys, NEW version \in Nat
    PROVE  /\ Put(k, version) \in [Keys -> Nat] /\ Put(k, version)[k] = version
           /\ \A j \in Keys \ {k} : Put(k, version)[j] = rows[j]
BY DEF Put, Types, TypeOK

(* One row, and one event about it.                                        *)
LEMMA PutWrote ==
    ASSUME Types, OnlyGiven, NEW w \in Writers, NEW k \in Keys, NEW version \in Nat,
           NEW kind \in Kinds, kind = "deleted" <=> version = 0,
           Write(w, Put(k, version), <<Event(kind, k, version)>>),
           rows[k] # 0 \/ kind = "added" \/ k \in stale' \/ version = 0,
           k \in given', version = 0 => k \notin server',
           \A j \in server \ server' :
                calls[Older].at = "reread" /\ Earlier(j, calls[Older].cursor) => vanished',
           stale \subseteq stale', stale' \subseteq Keys,
           server' \subseteq server, given \subseteq given', given' \subseteq Keys,
           send' # NoSend => {Local, send'} \subseteq given',
           vanished' \in BOOLEAN, vanished => vanished'
    PROVE  \E new, events : Wrote(w, new, events)
<1> DEFINE new == Put(k, version)
           event == Event(kind, k, version)
           events == <<event>>
<1>1. /\ new \in [Keys -> Nat] /\ new[k] = version
      /\ \A j \in Keys \ {k} : new[j] = rows[j]
    BY PutFacts
<1>2. Fact(event) /\ event.kind = kind /\ event.about = k
    BY MadeEvents
<1> HIDE DEF new, event
<1>3. /\ events \in Seq(Events) /\ Facts(events)
      /\ \A j, kinds : OnBus(events, j, kinds) <=> event.kind \in kinds /\ event.about = j
    BY <1>2, OneEvent
<1>4. Write(w, new, events)
    BY DEF new, event
<1> HIDE DEF events
<1>5. ASSUME NEW j \in Keys
      PROVE  /\ new[j] # rows[j] => OnBus(events, j, Kinds)
             /\ rows[j] = 0 /\ new[j] # 0 => OnBus(events, j, {"added"}) \/ j \in stale'
             /\ OnBus(events, j, Kinds) => j \in given'
             /\ j \in server' /\ rows[j] # 0 => new[j] # 0
    <2>1. CASE j = k
        BY <1>1, <1>2, <1>3, <2>1
    <2>2. CASE j # k
        BY <1>1, <1>2, <1>3, <2>2
    <2> QED BY <2>1, <2>2
<1>6. Wrote(w, new, events)
    BY <1>1, <1>3, <1>4, <1>5 DEF Wrote
<1> QED BY <1>6

LEMMA WritesWrote ==
    ASSUME Types, OnlyGiven, NEW w \in Writers, Writes(w)
    PROVE  \E new, events : Wrote(w, new, events)
<1>1. /\ rows \in [Keys -> Nat] /\ stale \subseteq Keys /\ given \subseteq Keys
      /\ server \subseteq Ids /\ vanished \in BOOLEAN /\ server \subseteq given
      /\ send # NoSend => {Local, send} \subseteq given
      /\ \A k \in Keys : rows[k] # 0 => k \in given
      /\ Kinds = {"added", "updated", "deleted"} /\ Local \in Keys
    BY KeyFacts DEF Types, TypeOK, OnlyGiven, Kinds
<1>2. CASE Send(w)
    <2>1. /\ given' = given \cup {Local} /\ send' = Local
          /\ Write(w, Put(Local, 1), <<Event("added", Local, 1)>>)
          /\ UNCHANGED <<server, stale, vanished>>
        BY <1>2 DEF Send
    <2>2. /\ Local \in given' /\ given \subseteq given' /\ given' \subseteq Keys
          /\ (send' # NoSend => {Local, send'} \subseteq given') /\ server \ server' = {}
          /\ stale \subseteq stale' /\ stale' \subseteq Keys
          /\ vanished' \in BOOLEAN /\ (vanished => vanished')
        BY <1>1, <2>1
    <2> DEFINE version == 1
    <2>3. version \in Nat /\ version # 0
        OBVIOUS
    <2>4. Write(w, Put(Local, version), <<Event("added", Local, version)>>)
        BY <2>1
    <2> HIDE DEF version
    <2> QED BY <1>1, <2>1, <2>2, <2>3, <2>4, PutWrote
<1>3. CASE SendFails(w)
    <2>1. /\ send # NoSend /\ send' = NoSend /\ UNCHANGED <<server, given, stale, vanished>>
          /\ Write(w, IF rows[Local] # 0 THEN Put(Local, rows[Local] + 1) ELSE rows,
                   <<Event("updated", Local, rows[Local] + 1)>>)
        BY <1>3 DEF SendFails, ids
    <2>2. rows[Local] \in Nat /\ rows[Local] + 1 \in Nat /\ rows[Local] + 1 # 0
        BY <1>1
    <2>3. CASE rows[Local] # 0
        BY <1>1, <2>1, <2>2, <2>3, PutWrote
    <2>4. CASE rows[Local] = 0
        <3> DEFINE event == Event("updated", Local, rows[Local] + 1)
                   events == <<event>>
        <3>1. Fact(event) /\ event.kind = "updated" /\ event.about = Local
            BY <1>1, <2>2, MadeEvents
        <3>2. Write(w, rows, events)
            BY <2>1, <2>4
        <3> HIDE DEF event
        <3>3. /\ events \in Seq(Events) /\ Facts(events)
              /\ \A j, kinds : OnBus(events, j, kinds) <=> event.kind \in kinds /\ event.about = j
            BY <3>1, OneEvent
        <3> HIDE DEF events
        <3>4. Local \in given
            BY <2>1 DEF OnlyGiven
        <3>5. Wrote(w, rows, events)
            BY <1>1, <2>1, <3>1, <3>2, <3>3, <3>4 DEF Wrote
        <3> QED BY <3>5
    <2> QED BY <2>3, <2>4
<1>4. CASE Confirm(w)
    <2> DEFINE row == rows[send]
               new == IF rows[Local] # 0 /\ row = 0 THEN [rows EXCEPT ![Local] = 0, ![send] = 1] ELSE rows
               first == Event("deleted", Local, 0)
               second == Event("added", send, IF rows[Local] = 0 /\ row # 0 THEN row ELSE 1)
               events == <<first, second>>
    <2>1. /\ send \in Ids /\ send' = NoSend /\ Write(w, new, events)
          /\ UNCHANGED <<server, given, stale, vanished>>
        BY <1>4 DEF Confirm, ids
    <2>2. send \in Keys /\ send \in given /\ send # Local /\ row \in Nat
        BY <1>1, <2>1, KeyFacts
    <2>3. new \in [Keys -> Nat]
        BY <1>1, <2>2
    <2>4. /\ rows[Local] # 0 /\ row = 0 => new[Local] = 0 /\ new[send] = 1
          /\ \A k \in Keys \ {Local, send} : new[k] = rows[k]
          /\ ~ (rows[Local] # 0 /\ row = 0) => new = rows
        BY <1>1, <2>2
    <2>5. Fact(first) /\ first.kind = "deleted" /\ first.about = Local
        BY <1>1, MadeEvents
    <2>6. Fact(second) /\ second.kind = "added" /\ second.about = send
        BY <1>1, <2>2, MadeEvents
    <2> HIDE DEF first, second, new
    <2>7. /\ events \in Seq(Events) /\ Facts(events)
          /\ \A k, kinds : OnBus(events, k, kinds) <=>
                (first.kind \in kinds /\ first.about = k) \/ (second.kind \in kinds /\ second.about = k)
        BY <2>5, <2>6, TwoEvents
    <2> HIDE DEF events
    <2>8. Local \in given
        BY <1>1, <2>1, <2>2, KeyFacts DEF OnlyGiven
    <2>9. ASSUME NEW k \in Keys
          PROVE  /\ new[k] # rows[k] => OnBus(events, k, Kinds)
                 /\ rows[k] = 0 /\ new[k] # 0 => OnBus(events, k, {"added"})
                 /\ OnBus(events, k, Kinds) => k \in given
                 /\ k \in server /\ rows[k] # 0 => new[k] # 0
        <3>1. CASE k = Local
            BY <1>1, <2>4, <2>5, <2>7, <2>8, <3>1, KeyFacts
        <3>2. CASE k = send
            BY <1>1, <2>2, <2>4, <2>6, <2>7, <3>2
        <3>3. CASE k # Local /\ k # send
            BY <2>4, <2>5, <2>6, <2>7, <3>3
        <3> QED BY <3>1, <3>2, <3>3
    <2>10. Wrote(w, new, events)
        BY <1>1, <2>1, <2>3, <2>7, <2>9 DEF Wrote
    <2> QED BY <2>10
<1>5. ASSUME NEW k \in Keys, Arrive(w, k)
      PROVE  \E new, events : Wrote(w, new, events)
    <2> DEFINE version == IF rows[k] = 0 THEN 1 ELSE rows[k]
    <2>1. /\ k \in server /\ Write(w, Put(k, version), <<Event("added", k, version)>>)
          /\ UNCHANGED <<server, given, send, stale, vanished>>
        BY <1>5 DEF Arrive, ids
    <2>2. version \in Nat /\ version # 0
        BY <1>1
    <2> HIDE DEF version
    <2> QED BY <1>1, <2>1, <2>2, PutWrote
<1>6. ASSUME NEW k \in Keys, Modify(w, k)
      PROVE  \E new, events : Wrote(w, new, events)
    <2> DEFINE version == rows[k] + 1
    <2>1. /\ k \in Stored \cup server /\ Write(w, Put(k, version), <<Event("updated", k, version)>>)
          /\ stale' = IF rows[k] = 0 THEN stale \cup {k} ELSE stale
          /\ UNCHANGED <<server, given, send, vanished>>
        BY <1>6 DEF Modify, ids
    <2>2. version \in Nat /\ version # 0
        BY <1>1
    <2>3. k \in given
        BY <1>1, <2>1 DEF Stored
    <2> HIDE DEF version
    <2> QED BY <1>1, <2>1, <2>2, <2>3, PutWrote
<1>7. ASSUME NEW k \in Keys, Delete(w, k)
      PROVE  \E new, events : Wrote(w, new, events)
    <2>1. /\ k \in Stored \cup server /\ server' = server \ {k}
          /\ Write(w, Put(k, 0), <<Event("deleted", k, 0)>>)
          /\ UNCHANGED <<given, send, stale>>
        BY <1>7 DEF Delete
    <2>2. vanished' = (vanished \/ (calls[Older].at = "reread" /\ Earlier(k, calls[Older].cursor)))
        BY <1>7 DEF Delete
    <2>3. vanished' \in BOOLEAN /\ (vanished => vanished')
        BY <2>2
    <2>4. \A j \in server \ server' :
                calls[Older].at = "reread" /\ Earlier(j, calls[Older].cursor) => vanished'
        BY <2>1, <2>2
    <2>5. k \in given
        BY <1>1, <2>1 DEF Stored
    <2> QED BY <1>1, <2>1, <2>3, <2>4, <2>5, PutWrote
<1> QED BY <1>2, <1>3, <1>4, <1>5, <1>6, <1>7 DEF Writes

LEMMA InitFacts ==
    ASSUME Init
    PROVE  /\ server = Old /\ pending = [w \in Writers |-> <<>>] /\ bus = <<>> /\ missed = FALSE
           /\ view = [k \in Keys |-> <<>>] /\ writes = 0 /\ stale = {}
           /\ crossed = FALSE /\ vanished = FALSE /\ disturbed = FALSE
           /\ calls \in [Calls -> CallRec] /\ calls[Older] = Idle /\ Reloading
           /\ \A c \in Calls : WellFormed(c, calls[c]) /\ calls[c].at # "answer"
           /\ \A k, kinds : ~ Coming(k, kinds)
           /\ rows \in [Keys -> Nat] /\ Old \subseteq given /\ given \subseteq Keys
           /\ \A k \in Keys : rows[k] # 0 => k \in given
           /\ send = NoSend \/ (send = Local /\ Local \in given)
<1>1. PICK stored \in {LastOf(Old, Newest), Old}, local \in {0, 1} :
        /\ rows = [k \in Keys |-> IF k = Local THEN local ELSE IF k \in stored THEN 1 ELSE 0]
        /\ given = Old \cup (IF local = 1 THEN {Local} ELSE {})
        /\ send \in (IF local = 1 THEN {NoSend, Local} ELSE {NoSend})
    BY DEF Init
<1>2. PICK first \in Loads : calls = [c \in Calls |-> IF c = first THEN Asked(Newest) ELSE Idle]
    BY DEF Init
<1>3. stored \subseteq Old
    BY DEF LastOf
<1>4. /\ rows \in [Keys -> Nat] /\ Old \subseteq given /\ given \subseteq Keys
      /\ \A k \in Keys : rows[k] # 0 => k \in given
      /\ send = NoSend \/ (send = Local /\ Local \in given)
    BY <1>1, <1>3, KeyFacts DEF Ids
<1>5. /\ calls \in [Calls -> CallRec] /\ calls[Older] = Idle
      /\ \A c \in Calls : calls[c] = Idle \/ (calls[c] = Asked(Newest) /\ c \in Loads)
      /\ calls[first] = Asked(Newest)
    BY <1>2, CallFacts
<1>6. Asked(Newest).at = "read" /\ Idle.at = "idle"
    BY CallFacts
<1>7. Reloading
    BY <1>5, <1>6 DEF Reloading
<1>8. \A c \in Calls : WellFormed(c, calls[c]) /\ calls[c].at # "answer"
    BY <1>5, <1>6, WellFormedCalls
<1>9. pending = [w \in Writers |-> <<>>] /\ bus = <<>>
    BY DEF Init
<1>10. \A k, kinds : ~ Coming(k, kinds)
    <2>1. 1 .. Len(bus) = {} /\ \A w \in Writers : 1 .. Len(pending[w]) = {}
        BY <1>9
    <2> QED BY <2>1 DEF Coming, Awaited, OnBus
<1> QED BY <1>4, <1>5, <1>7, <1>8, <1>10 DEF Init

(* The parts of Types.                                                     *)
Flags ==
    missed \in BOOLEAN /\ crossed \in BOOLEAN /\ vanished \in BOOLEAN /\ disturbed \in BOOLEAN

Store ==
    /\ server \subseteq Ids /\ given \subseteq Keys /\ rows \in [Keys -> Nat]
    /\ send \in {NoSend} \cup Keys

Way ==
    /\ pending \in [Writers -> Seq(Events)] /\ \A w \in Writers : Facts(pending[w])
    /\ bus \in Seq(Events) /\ Len(bus) <= Capacity /\ Facts(bus)

Screen == view \in [Keys -> Seq(Versions)]

Asking == calls \in [Calls -> CallRec] /\ \A c \in Calls : WellFormed(c, calls[c])

Counts == writes \in 0 .. MaxWrites /\ stale \subseteq Keys

LEMMA TypesParts == Flags /\ Store /\ Way /\ Screen /\ Asking /\ Counts <=> Types
<1>1. Asking => /\ DOMAIN calls = Calls
                /\ \A c \in Calls :
                    /\ calls[c].at \in {"idle", "read", "fetch", "reread", "answer"}
                    /\ calls[c].cursor \in Keys \cup {Newest}
                    /\ calls[c].seen \in [Keys -> Nat] \cup {<<>>}
    BY DEF Asking, CallRec
<1>2. {NoSend} \cup Keys = {NoSend, Local} \cup Ids
    BY DEF Keys
<1> QED
    BY <1>1, <1>2 DEF Types, TypeOK, Versions, Flags, Store, Way, Screen, Asking, Counts

LEMMA TypesInit == Init => Types
<1> SUFFICES ASSUME Init
             PROVE  Types
    OBVIOUS
<1>1. Flags /\ Counts
    BY InitFacts, LimitsAssumption DEF Flags, Counts
<1>2. Store
    BY InitFacts, KeyFacts DEF Store, Ids
<1>3. Way
    <2>1. pending = [w \in Writers |-> <<>>] /\ bus = <<>>
        BY InitFacts
    <2>2. <<>> \in Seq(Events) /\ Len(<<>>) = 0 /\ 1 .. 0 = {}
        OBVIOUS
    <2>3. pending \in [Writers -> Seq(Events)] /\ \A w \in Writers : Len(pending[w]) = 0
        BY <2>1, <2>2
    <2>4. bus \in Seq(Events) /\ Len(bus) <= Capacity /\ Len(bus) = 0
        BY <2>1, <2>2, CapacityAssumption
    <2> QED BY <2>2, <2>3, <2>4 DEF Way, Facts
<1>4. Screen
    BY InitFacts, NoCopy DEF Screen
<1>5. Asking
    BY InitFacts DEF Asking
<1> QED BY <1>1, <1>2, <1>3, <1>4, <1>5, TypesParts

LEMMA PublishTypes ==
    ASSUME Types, NEW w \in Writers, Publish(w)
    PROVE  Types'
<1>1. Flags /\ Store /\ Way /\ Screen /\ Asking /\ Counts
    BY TypesParts
<1> DEFINE event == Head(pending[w])
           n == Len(bus')
<1>2. /\ Fact(event) /\ n \in Nat /\ n > 0 /\ bus'[n] = event /\ bus' \in Seq(Events) /\ n <= Capacity
      /\ Len(bus) # Capacity => n = Len(bus) + 1 /\ \A i \in 1 .. Len(bus) : bus'[i] = bus[i]
      /\ Len(bus) = Capacity => n = Len(bus)
                                /\ \A i \in 1 .. Len(bus) - 1 : bus'[i] = bus[i + 1]
      /\ stale' = IF event.version # rows[event.about] THEN stale \cup {event.about} ELSE stale
      /\ UNCHANGED <<server, given, rows, send, view, calls, writes, marks>>
    BY PublishBus
<1>3. Len(bus) \in Nat /\ \A i \in 1 .. Len(bus) : Fact(bus[i])
    BY BusFacts
<1> HIDE DEF event
<1>4. \A i \in 1 .. n : i = n \/ (\E j \in 1 .. Len(bus) : bus'[i] = bus[j])
    <2>1. CASE Len(bus) # Capacity
        BY <1>2, <1>3, <2>1
    <2>2. CASE Len(bus) = Capacity
        <3> SUFFICES ASSUME NEW i \in 1 .. n, i # n
                     PROVE  \E j \in 1 .. Len(bus) : bus'[i] = bus[j]
            OBVIOUS
        <3>1. i + 1 \in 1 .. Len(bus) /\ bus'[i] = bus[i + 1]
            BY <1>2, <1>3, <2>2
        <3> QED BY <3>1
    <2> QED BY <2>1, <2>2
<1>5. \A i \in 1 .. n : Fact(bus'[i])
    BY <1>2, <1>3, <1>4
<1>6. Way'
    BY <1>2, <1>5, PublishPending DEF Way, Facts
<1>7. missed' \in BOOLEAN
    BY DEF Publish
<1>8. Flags'
    BY <1>1, <1>2, <1>7 DEF Flags, marks
<1>9. Counts'
    <2>1. event.about \in Keys
        BY <1>2, EventFacts
    <2> QED BY <1>1, <1>2, <2>1 DEF Counts
<1>10. Store' /\ Screen' /\ Asking'
    BY <1>1, <1>2 DEF Store, Screen, Asking
<1>11. Flags' /\ Store' /\ Way' /\ Screen' /\ Asking' /\ Counts'
    BY <1>6, <1>8, <1>9, <1>10
<1> QED BY <1>11, TypesParts, PTL

LEMMA MovesTypes ==
    ASSUME Types, NEW c \in Calls, Moves(c)
    PROVE  Types'
<1>1. Flags /\ Store /\ Way /\ Screen /\ Asking /\ Counts
    BY TypesParts
<1>2. /\ calls' \in [Calls -> CallRec]
      /\ calls[c].at # "idle" /\ calls'[c].at \in {"fetch", "reread", "answer"}
      /\ calls'[c].cursor = calls[c].cursor
      /\ \A d \in Calls \ {c} : calls'[d] = calls[d]
      /\ calls'[c].at = "answer" => calls'[c].seen = [k \in Keys |-> rows[k]]
      /\ UNCHANGED <<server, given, send, pending, bus, missed, view, marks>>
    BY MovesCalls
<1>3. rows' \in [Keys -> Nat] /\ Counts'
    <2>1. CASE Backfill(c)
        BY <2>1, BackfillStep DEF Counts
    <2>2. CASE ~ Backfill(c)
        BY <1>1, <2>2, MovesCalls DEF Store, Counts
    <2> QED BY <2>1, <2>2
<1>4. WellFormed(c, calls'[c])
    <2>1. calls'[c].at # "idle" /\ (calls'[c].at = "answer" => calls'[c].seen \in [Keys -> Nat])
        BY <1>1, <1>2, RowFacts DEF Store
    <2>2. calls[c] # Idle /\ WellFormed(c, calls[c])
        BY <1>1, <1>2, CallFacts DEF Asking
    <2> QED BY <1>2, <2>1, <2>2 DEF WellFormed
<1>5. Asking'
    BY <1>1, <1>2, <1>4 DEF Asking
<1>6. Flags' /\ Store' /\ Way' /\ Screen'
    BY <1>1, <1>2, <1>3 DEF Flags, Store, Way, Screen, marks
<1>7. Flags' /\ Store' /\ Way' /\ Screen' /\ Asking' /\ Counts'
    BY <1>3, <1>5, <1>6
<1> QED BY <1>7, TypesParts, PTL

LEMMA CallsTypes ==
    ASSUME Types, Lagged \/ LoadOlder \/ OlderAnswer \/ \E c \in Calls : InitialAnswer(c)
    PROVE  Types'
<1>1. Flags /\ Store /\ Way /\ Screen /\ Asking /\ Counts
    BY TypesParts
<1>2. CASE Lagged
    <2>1. calls' \in [Calls -> CallRec]
          /\ \A d \in Calls : calls'[d] = calls[d] \/ (d \in Loads /\ calls'[d] = Asked(Newest))
        BY <1>2, LaggedCalls
    <2>2. Asking'
        BY <1>1, <2>1, WellFormedCalls DEF Asking
    <2>3. missed' = FALSE
          /\ UNCHANGED <<server, given, rows, send, pending, bus, view, writes, stale,
                         crossed, vanished, disturbed>>
        BY <1>2 DEF Lagged, store, ids, marks
    <2>4. Flags' /\ Store' /\ Way' /\ Screen' /\ Counts'
        BY <1>1, <2>3 DEF Flags, Store, Way, Screen, Counts
    <2>5. Flags' /\ Store' /\ Way' /\ Screen' /\ Asking' /\ Counts'
        BY <2>2, <2>4
    <2> QED BY <2>5, TypesParts, PTL
<1>3. CASE LoadOlder
    <2>1. /\ calls' \in [Calls -> CallRec] /\ calls'[Older].at = "read"
          /\ calls'[Older].cursor = Oldest /\ Oldest \in Shown
          /\ \A d \in Calls \ {Older} : calls'[d] = calls[d]
        BY <1>3, LoadOlderCalls
    <2>2. WellFormed(Older, calls'[Older])
        BY <2>1, CallFacts DEF WellFormed, Shown
    <2>3. Asking'
        BY <1>1, <2>1, <2>2 DEF Asking
    <2>4. /\ crossed' \in BOOLEAN /\ vanished' = FALSE
          /\ UNCHANGED <<server, given, rows, send, pending, bus, missed, view, writes, stale,
                         disturbed>>
        BY <1>3 DEF LoadOlder, store, ids, way
    <2>5. Flags' /\ Store' /\ Way' /\ Screen' /\ Counts'
        BY <1>1, <2>4 DEF Flags, Store, Way, Screen, Counts
    <2>6. Flags' /\ Store' /\ Way' /\ Screen' /\ Asking' /\ Counts'
        BY <2>3, <2>5
    <2> QED BY <2>6, TypesParts, PTL
<1>4. CASE OlderAnswer
    <2>1. /\ calls' \in [Calls -> CallRec] /\ calls'[Older] = Idle
          /\ \A d \in Calls \ {Older} : calls'[d] = calls[d]
        BY <1>4, OlderCalls
    <2>2. Asking'
        BY <1>1, <2>1, WellFormedCalls, CallFacts DEF Asking
    <2>3. /\ view' \in [Keys -> Seq(Versions)] /\ stale' \subseteq Keys
          /\ crossed' = FALSE /\ vanished' = FALSE
          /\ UNCHANGED <<server, given, rows, send, pending, bus, missed, writes>>
        BY <1>4, OlderView, OlderStale
    <2>4. disturbed' \in BOOLEAN
        BY <1>4 DEF OlderAnswer
    <2>5. Flags' /\ Store' /\ Way' /\ Screen' /\ Counts'
        BY <1>1, <2>3, <2>4 DEF Flags, Store, Way, Screen, Counts
    <2>6. Flags' /\ Store' /\ Way' /\ Screen' /\ Asking' /\ Counts'
        BY <2>2, <2>5
    <2> QED BY <2>6, TypesParts, PTL
<1>5. ASSUME NEW c \in Calls, InitialAnswer(c)
      PROVE  Types'
    <2>1. /\ calls' \in [Calls -> CallRec] /\ calls'[c] = Idle
          /\ \A d \in Calls \ {c} : calls'[d] = calls[d]
        BY <1>5, InitialCalls
    <2>2. Asking'
        BY <1>1, <2>1, WellFormedCalls DEF Asking
    <2>3. /\ view' \in [Keys -> Seq(Versions)] /\ stale' \subseteq Keys /\ disturbed' = FALSE
          /\ UNCHANGED <<server, given, rows, send, pending, bus, missed, writes, vanished>>
        BY <1>5, InitialView, InitialStale
    <2>4. crossed' \in BOOLEAN
        BY <1>5 DEF InitialAnswer
    <2>5. Flags' /\ Store' /\ Way' /\ Screen' /\ Counts'
        BY <1>1, <2>3, <2>4 DEF Flags, Store, Way, Screen, Counts
    <2>6. Flags' /\ Store' /\ Way' /\ Screen' /\ Asking' /\ Counts'
        BY <2>2, <2>5
    <2> QED BY <2>6, TypesParts, PTL
<1> QED BY <1>2, <1>3, <1>4, <1>5

LEMMA DeliverTypes ==
    ASSUME Types, Deliver
    PROVE  Types'
<1>1. Flags /\ Store /\ Way /\ Screen /\ Asking /\ Counts
    BY TypesParts
<1>2. /\ bus' \in Seq(Events) /\ Len(bus') = Len(bus) - 1 /\ Len(bus) \in Nat
      /\ \A i \in 1 .. Len(bus') : i + 1 \in 1 .. Len(bus) /\ bus'[i] = bus[i + 1]
    BY DeliverBus, BusFacts
<1>3. /\ view' \in [Keys -> Seq(Versions)] /\ stale' \subseteq stale /\ missed' = missed
      /\ UNCHANGED <<server, given, rows, send, pending, calls, writes, vanished>>
    BY DeliverView, DeliverStale DEF Deliver
<1>4. Facts(bus')
    BY <1>1, <1>2 DEF Way, Facts
<1>5. Len(bus') <= Capacity
    BY <1>2, BusFacts
<1>6. Way'
    BY <1>1, <1>2, <1>3, <1>4, <1>5 DEF Way
<1>7. crossed' \in BOOLEAN /\ disturbed' \in BOOLEAN
    BY DEF Deliver
<1>8. Flags'
    BY <1>1, <1>3, <1>7 DEF Flags
<1>9. Store' /\ Screen' /\ Asking' /\ Counts'
    BY <1>1, <1>3 DEF Store, Screen, Asking, Counts
<1>10. Flags' /\ Store' /\ Way' /\ Screen' /\ Asking' /\ Counts'
    BY <1>6, <1>8, <1>9
<1> QED BY <1>10, TypesParts, PTL

LEMMA WroteTypes ==
    ASSUME Types, NEW w \in Writers, NEW new, NEW events, Wrote(w, new, events)
    PROVE  Types'
<1>1. Flags /\ Store /\ Way /\ Screen /\ Asking /\ Counts
    BY TypesParts
<1>2. /\ new \in [Keys -> Nat] /\ events \in Seq(Events) /\ Facts(events) /\ Write(w, new, events)
      /\ stale' \subseteq Keys /\ server' \subseteq server /\ given' \subseteq Keys
      /\ (send' # NoSend => {Local, send'} \subseteq given') /\ vanished' \in BOOLEAN
    BY DEF Wrote
<1>3. /\ rows' = new
      /\ pending' \in [Writers -> Seq(Events)] /\ \A v \in Writers : Facts(pending'[v])
      /\ writes' \in 0 .. MaxWrites
      /\ UNCHANGED <<bus, missed, view, calls, crossed, disturbed>>
    BY <1>2, WriteStep
<1>4. Flags' /\ Counts' /\ Way' /\ Screen' /\ Asking'
    BY <1>1, <1>2, <1>3 DEF Flags, Counts, Way, Screen, Asking
<1>5. Store'
    BY <1>1, <1>2, <1>3 DEF Store
<1>6. Flags' /\ Store' /\ Way' /\ Screen' /\ Asking' /\ Counts'
    BY <1>4, <1>5
<1> QED BY <1>6, TypesParts, PTL

LEMMA OthersTypes ==
    ASSUME Types,
           \/ UNCHANGED vars
           \/ \E k \in New : Post(k) \/ Accept(k)
           \/ \E k \in Keys : StoreUntold(k)
    PROVE  Types'
<1>1. Flags /\ Store /\ Way /\ Screen /\ Asking /\ Counts
    BY TypesParts
<1>2. CASE UNCHANGED vars
    <2>1. Flags' /\ Store' /\ Way' /\ Screen' /\ Asking' /\ Counts'
        BY <1>1, <1>2
        DEF vars, store, ids, way, marks, Flags, Store, Way, Screen, Asking, Counts
    <2> QED BY <2>1, TypesParts, PTL
<1>3. ASSUME NEW k \in New, Post(k) \/ Accept(k)
      PROVE  Types'
    <2>1. /\ k \in Ids /\ given' = given \cup {k} /\ server' = server \cup {k}
          /\ send' = send \/ send' = k
          /\ UNCHANGED <<rows, pending, bus, missed, view, calls, writes, stale, marks>>
        BY <1>3, GivenStep
    <2>2. Flags' /\ Store' /\ Way' /\ Screen' /\ Asking' /\ Counts'
        BY <1>1, <2>1, KeyFacts DEF marks, Flags, Store, Way, Screen, Asking, Counts
    <2> QED BY <2>2, TypesParts, PTL
<1>4. ASSUME NEW k \in Keys, StoreUntold(k)
      PROVE  Types'
    <2>1. /\ rows' \in [Keys -> Nat] /\ stale' \subseteq Keys /\ writes' \in 0 .. MaxWrites
          /\ UNCHANGED <<server, given, send, pending, bus, missed, view, calls, marks>>
        BY <1>4, UntoldStep
    <2>2. Flags' /\ Store' /\ Way' /\ Screen' /\ Asking' /\ Counts'
        BY <1>1, <2>1 DEF marks, Flags, Store, Way, Screen, Asking, Counts
    <2> QED BY <2>2, TypesParts, PTL
<1> QED BY <1>2, <1>3, <1>4

-----------------------------------------------------------------------------
(* What the program can have seen of a message.                            *)

LEMMA OnlyGivenInit == Init => OnlyGiven
<1> SUFFICES ASSUME Init
             PROVE  OnlyGiven
    OBVIOUS
<1>1. /\ server = Old /\ Old \subseteq given /\ calls[Older] = Idle
      /\ \A k \in Keys : view[k] = <<>> /\ (rows[k] # 0 => k \in given)
      /\ \A c \in Calls : calls[c].at # "answer"
      /\ \A k, kinds : ~ Coming(k, kinds)
      /\ send = NoSend \/ (send = Local /\ Local \in given)
    BY InitFacts
<1> QED BY <1>1 DEF OnlyGiven, Unseen

LEMMA WroteGiven ==
    ASSUME Types, OnlyGiven, NEW w \in Writers, NEW new, NEW events, Wrote(w, new, events)
    PROVE  OnlyGiven'
<1>1. /\ events \in Seq(Events) /\ Facts(events) /\ Write(w, new, events)
      /\ server' \subseteq server /\ given \subseteq given'
      /\ \A k \in Keys : /\ new[k] # rows[k] => OnBus(events, k, Kinds)
                         /\ OnBus(events, k, Kinds) => k \in given'
    BY DEF Wrote
<1>2. rows' = new /\ UNCHANGED <<view, calls>>
    BY <1>1, WriteStep
<1>3. ASSUME NEW k \in Keys \ given'
      PROVE  rows'[k] = 0 /\ Unseen(k)'
    <2>1. rows[k] = 0 /\ Unseen(k) /\ k \in Keys /\ ~ OnBus(events, k, Kinds)
        BY <1>1, <1>3 DEF OnlyGiven
    <2>2. ~ Coming(k, Kinds)'
        BY <1>1, <2>1, WriteComing DEF Unseen
    <2>3. view'[k] = <<>>
        BY <1>2, <2>1 DEF Unseen
    <2>4. Unseen(k)'
        BY <1>2, <2>1, <2>2, <2>3 DEF Unseen
    <2> QED BY <1>1, <1>2, <2>1, <2>4
<1>4. send' # NoSend => {Local, send'} \subseteq given'
    BY DEF Wrote
<1> QED BY <1>1, <1>2, <1>3, <1>4 DEF OnlyGiven

LEMMA GivenGiven ==
    ASSUME Types, OnlyGiven, NEW i \in New, Post(i) \/ Accept(i)
    PROVE  OnlyGiven'
<1>1. /\ given' = given \cup {i} /\ server' = server \cup {i} /\ (send' = send \/ send' = i)
      /\ UNCHANGED <<rows, pending, bus, missed, view, calls, writes, stale, marks>>
    BY GivenStep
<1>2. ASSUME NEW k \in Keys \ given'
      PROVE  rows'[k] = 0 /\ Unseen(k)'
    <2>1. k \in Keys /\ rows[k] = 0 /\ Unseen(k)
        BY <1>1, <1>2 DEF OnlyGiven
    <2>2. ~ Coming(k, Kinds)'
        BY <1>1, <2>1, WayComing DEF Unseen
    <2> QED BY <1>1, <2>1, <2>2 DEF Unseen
<1>3. send' # NoSend => {Local, send'} \subseteq given'
    <2>1. CASE send' = send
        BY <1>1, <2>1 DEF OnlyGiven
    <2>2. CASE send' # send
        <3>1. send = Local /\ Local # NoSend
            BY <2>2 DEF Post, Accept, Local, NoSend
        <3> QED BY <1>1, <2>2, <3>1 DEF OnlyGiven
    <2> QED BY <2>1, <2>2
<1> QED BY <1>1, <1>2, <1>3 DEF OnlyGiven

LEMMA PublishGiven ==
    ASSUME Types, OnlyGiven, NEW w \in Writers, Publish(w)
    PROVE  OnlyGiven'
<1>1. UNCHANGED <<server, given, rows, send, view, calls>>
    BY PublishBus
<1>2. ASSUME NEW k \in Keys \ given'
      PROVE  rows'[k] = 0 /\ Unseen(k)'
    <2>1. k \in Keys /\ rows[k] = 0 /\ Unseen(k)
        BY <1>1, <1>2 DEF OnlyGiven
    <2>2. ~ Coming(k, Kinds)'
        BY <2>1, PublishComing DEF Unseen
    <2> QED BY <1>1, <2>1, <2>2 DEF Unseen
<1> QED BY <1>1, <1>2 DEF OnlyGiven

LEMMA UntoldGiven ==
    ASSUME Types, OnlyGiven, NEW i \in Keys, StoreUntold(i)
    PROVE  OnlyGiven'
<1>1. /\ \A k \in Keys : rows'[k] # rows[k] => k \in server
      /\ UNCHANGED <<server, given, send, pending, bus, missed, view, calls, marks>>
    BY UntoldStep
<1>2. ASSUME NEW k \in Keys \ given'
      PROVE  rows'[k] = 0 /\ Unseen(k)'
    <2>1. k \in Keys /\ k \notin server /\ rows[k] = 0 /\ Unseen(k)
        BY <1>1, <1>2 DEF OnlyGiven
    <2>2. ~ Coming(k, Kinds)'
        BY <1>1, <2>1, WayComing DEF Unseen
    <2> QED BY <1>1, <2>1, <2>2 DEF Unseen
<1> QED BY <1>1, <1>2 DEF OnlyGiven

LEMMA DeliverGiven ==
    ASSUME Types, OnlyGiven, Deliver
    PROVE  OnlyGiven'
<1>1. UNCHANGED <<server, given, rows, send, pending, calls, writes, vanished>>
    BY DeliverStale
<1>2. ASSUME NEW k \in Keys \ given'
      PROVE  rows'[k] = 0 /\ Unseen(k)'
    <2>1. k \in Keys /\ rows[k] = 0 /\ Unseen(k)
        BY <1>1, <1>2 DEF OnlyGiven
    <2>2. ~ Coming(k, Kinds)'
        BY <2>1, DeliverComing DEF Unseen
    <2>3. bus[1].about # k
        <3>1. bus[1].kind \in Kinds
            BY DeliverBus, EventFacts
        <3> QED BY <2>1, <3>1, DeliverComing DEF Unseen
    <2>4. view'[k] = <<>>
        BY <2>1, <2>3, DeliverView DEF Unseen
    <2> QED BY <1>1, <2>1, <2>2, <2>4 DEF Unseen
<1> QED BY <1>1, <1>2 DEF OnlyGiven

LEMMA MovesGiven ==
    ASSUME Types, OnlyGiven, NEW c \in Calls, Moves(c)
    PROVE  OnlyGiven'
<1>1. /\ \A d \in Calls \ {c} : calls'[d] = calls[d]
      /\ calls'[c].at = "answer" => calls'[c].seen = [k \in Keys |-> rows[k]]
      /\ UNCHANGED <<server, given, send, pending, bus, missed, view, marks>>
    BY MovesCalls
<1>2. \A k \in Keys : rows'[k] # rows[k] => k \in server
    <2>1. CASE Backfill(c)
        BY <2>1, BackfillStep
    <2>2. CASE ~ Backfill(c)
        BY <2>2, MovesCalls
    <2> QED BY <2>1, <2>2
<1>3. ASSUME NEW k \in Keys \ given'
      PROVE  rows'[k] = 0 /\ Unseen(k)'
    <2>1. k \in Keys /\ k \notin server /\ rows[k] = 0 /\ Unseen(k)
        BY <1>1, <1>3 DEF OnlyGiven
    <2>2. ~ Coming(k, Kinds)'
        BY <1>1, <2>1, WayComing DEF Unseen
    <2>3. view'[k] = <<>>
        BY <1>1, <2>1 DEF Unseen
    <2>4. ASSUME NEW d \in Calls, calls'[d].at = "answer"
          PROVE  calls'[d].seen[k] = 0
        <3>1. CASE d = c
            BY <1>1, <2>1, <2>4, <3>1
        <3>2. CASE d # c
            BY <1>1, <2>1, <2>4, <3>2 DEF Unseen
        <3> QED BY <3>1, <3>2
    <2>5. Unseen(k)'
        BY <2>2, <2>3, <2>4 DEF Unseen
    <2> QED BY <1>2, <2>1, <2>5
<1>4. calls'[Older] # Idle => calls'[Older].cursor \in given
    BY MovesKeep, CallFacts DEF OnlyGiven
<1> QED BY <1>1, <1>3, <1>4 DEF OnlyGiven

LEMMA CallsGiven ==
    ASSUME Types, OnlyGiven, Lagged \/ LoadOlder \/ OlderAnswer \/ \E c \in Calls : InitialAnswer(c)
    PROVE  OnlyGiven'
<1>1. UNCHANGED <<server, given, rows, send, pending, bus>>
    BY DEF Lagged, LoadOlder, OlderAnswer, InitialAnswer, store, ids, way
<1>2. \A d \in Calls : \/ calls'[d] = calls[d] \/ calls'[d].at # "answer"
    <2>1. CASE Lagged
        BY <2>1, LaggedCalls, CallFacts
    <2>2. CASE LoadOlder
        BY <2>2, LoadOlderCalls
    <2>3. CASE OlderAnswer
        BY <2>3, OlderCalls, CallFacts
    <2>4. ASSUME NEW c \in Calls, InitialAnswer(c)
          PROVE  \A d \in Calls : calls'[d] = calls[d] \/ calls'[d].at # "answer"
        BY <2>4, InitialCalls, CallFacts
    <2> QED BY <2>1, <2>2, <2>3, <2>4
<1>3. ASSUME NEW k \in Keys, Unseen(k)
      PROVE  view'[k] = <<>>
    <2>1. CASE Lagged \/ LoadOlder
        BY <1>3, <2>1 DEF Lagged, LoadOlder, Unseen
    <2>2. ASSUME NEW call, call.seen[k] = 0
          PROVE  k \notin DOMAIN Page(call)
        BY <2>2, PageFacts DEF Had
    <2>3. CASE OlderAnswer
        <3>1. k \notin DOMAIN Page(calls[Older])
            BY <1>3, <2>2, <2>3, OlderCalls, CallFacts DEF Unseen
        <3> QED BY <1>3, <2>3, <3>1, OlderView DEF Unseen
    <2>4. ASSUME NEW c \in Calls, InitialAnswer(c)
          PROVE  view'[k] = <<>>
        <3>1. k \notin DOMAIN Page(calls[c])
            BY <1>3, <2>2, <2>4, InitialCalls DEF Unseen
        <3> QED BY <2>4, <3>1, InitialView
    <2> QED BY <2>1, <2>3, <2>4
<1>4. ASSUME NEW k \in Keys \ given'
      PROVE  rows'[k] = 0 /\ Unseen(k)'
    <2>1. k \in Keys /\ rows[k] = 0 /\ Unseen(k)
        BY <1>1, <1>4 DEF OnlyGiven
    <2>2. ~ Coming(k, Kinds)'
        BY <1>1, <2>1, WayComing DEF Unseen
    <2>3. view'[k] = <<>>
        BY <1>3, <2>1
    <2> QED BY <1>1, <1>2, <2>1, <2>2, <2>3 DEF Unseen
<1>5. ASSUME calls'[Older] # Idle
      PROVE  calls'[Older].cursor \in given
    <2>1. CASE LoadOlder
        <3>1. Oldest \in Keys /\ view[Oldest] # <<>> /\ calls'[Older].cursor = Oldest
            BY <2>1, LoadOlderCalls DEF Shown
        <3> QED BY <3>1 DEF OnlyGiven, Unseen
    <2>2. CASE OlderAnswer
        BY <1>5, <2>2, OlderCalls
    <2>3. CASE calls'[Older] = calls[Older]
        BY <1>5, <2>3 DEF OnlyGiven
    <2>4. CASE Lagged
        BY <2>3, <2>4, LaggedCalls
    <2>5. CASE \E c \in Calls : InitialAnswer(c)
        BY <2>3, <2>5, InitialCalls, CallFacts
    <2> QED BY <2>1, <2>2, <2>4, <2>5
<1> QED BY <1>1, <1>4, <1>5 DEF OnlyGiven

LEMMA GroundsStep == Grounds /\ [Next]_vars => Grounds'
<1> SUFFICES ASSUME Grounds, [Next]_vars
             PROVE  Grounds'
    OBVIOUS
<1>1. Types /\ OnlyGiven
    BY DEF Grounds
<1>2. CASE \E k \in New : Post(k) \/ Accept(k)
    BY <1>1, <1>2, OthersTypes, GivenGiven DEF Grounds
<1>3. CASE \E w \in Writers : Writes(w)
    BY <1>1, <1>3, WritesWrote, WroteTypes, WroteGiven DEF Grounds
<1>4. CASE \E w \in Writers : Publish(w)
    BY <1>1, <1>4, PublishTypes, PublishGiven DEF Grounds
<1>5. CASE \E k \in Keys : StoreUntold(k)
    BY <1>1, <1>5, OthersTypes, UntoldGiven DEF Grounds
<1>6. CASE Deliver
    BY <1>1, <1>6, DeliverTypes, DeliverGiven DEF Grounds
<1>7. CASE \E c \in Calls : Moves(c)
    BY <1>1, <1>7, MovesTypes, MovesGiven DEF Grounds
<1>8. CASE Lagged \/ LoadOlder \/ OlderAnswer \/ \E c \in Calls : InitialAnswer(c)
    BY <1>1, <1>8, CallsTypes, CallsGiven DEF Grounds
<1>9. CASE UNCHANGED vars
    <2>1. UNCHANGED <<server, given, rows, send, view, pending, bus, calls>>
        BY <1>9 DEF vars, store, ids, way
    <2>2. \A k : Coming(k, Kinds)' <=> Coming(k, Kinds)
        BY <2>1, WayComing
    <2>3. OnlyGiven'
        BY <1>1, <2>1, <2>2 DEF OnlyGiven, Unseen
    <2> QED BY <1>1, <1>9, <2>3, OthersTypes DEF Grounds
<1> QED BY <1>2, <1>3, <1>4, <1>5, <1>6, <1>7, <1>8, <1>9, Steps DEF Step

LEMMA GroundsInit == Init => Grounds
BY TypesInit, OnlyGivenInit DEF Grounds

(* Nothing is stored, under way or on screen of a message whose id is not  *)
(* given yet, whatever stores rows without telling (the seed, search,      *)
(* backfill), and loadOlder asks from a message that exists.               *)
THEOREM GroundsHold == Spec => []Grounds
<1>1. Init => Grounds
    BY GroundsInit
<1>2. Grounds /\ [Next]_vars => Grounds'
    BY GroundsStep
<1> QED BY <1>1, <1>2, PTL DEF Spec

(* The type invariant: Deliver's list keeps no place for a deleted         *)
(* message, and the ring is never longer than it is.                       *)
THEOREM TypeCorrect == Spec => []TypeOK
<1>1. Grounds => TypeOK
    BY DEF Grounds, Types
<1> QED BY <1>1, GroundsHold, PTL

-----------------------------------------------------------------------------
(* The last event about a row.                                             *)

LEMMA OnBusFacts ==
    ASSUME Types, NEW i \in 1 .. Len(bus), NEW k, bus[i].about = k
    PROVE  Coming(k, Kinds)
<1>1. bus[i].kind \in Kinds
    BY BusFacts, EventFacts
<1> QED BY <1>1 DEF Coming, OnBus

(* A row that was not stale, or of which nothing is under way, and that is *)
(* left alone.                                                             *)
LEMMA LastSaysKept ==
    ASSUME Types, LastSays, UNCHANGED <<pending, bus>>,
           \A k \in Keys \ stale' :
                Coming(k, Kinds) => rows'[k] = rows[k] /\ k \notin stale
    PROVE  LastSays'
<1> SUFFICES ASSUME NEW k \in Keys \ stale', ~ Awaited(k, Kinds)',
                    NEW i \in 1 .. Len(bus), bus[i].about = k, Last(bus, i)
             PROVE  bus[i].version = rows'[k]
    BY DEF LastSays, Last
<1>1. ~ Awaited(k, Kinds)
    BY WayComing
<1>2. rows'[k] = rows[k] /\ k \notin stale
    BY OnBusFacts
<1> QED BY <1>1, <1>2 DEF LastSays

LEMMA WroteLastSays ==
    ASSUME Types, LastSays, NEW w \in Writers, NEW new, NEW events, Wrote(w, new, events)
    PROVE  LastSays'
<1>1. /\ events \in Seq(Events) /\ Facts(events) /\ Write(w, new, events)
      /\ stale \subseteq stale'
      /\ \A k \in Keys : new[k] # rows[k] => OnBus(events, k, Kinds)
    BY DEF Wrote
<1>2. rows' = new /\ bus' = bus
    BY <1>1, WriteStep
<1> SUFFICES ASSUME NEW k \in Keys \ stale', ~ Awaited(k, Kinds)',
                    NEW i \in 1 .. Len(bus), bus[i].about = k, Last(bus, i)
             PROVE  bus[i].version = rows'[k]
    BY <1>2 DEF LastSays, Last
<1>3. ~ Awaited(k, Kinds) /\ ~ OnBus(events, k, Kinds)
    BY <1>1, WriteComing
<1>4. rows'[k] = rows[k]
    BY <1>1, <1>2, <1>3
<1> QED BY <1>1, <1>3, <1>4 DEF LastSays

LEMMA PublishLastSays ==
    ASSUME Types, LastSays, NEW w \in Writers, Publish(w)
    PROVE  LastSays'
<1> DEFINE event == Head(pending[w])
           n == Len(bus')
<1>1. /\ n \in Nat /\ n > 0 /\ bus'[n] = event /\ Len(bus) \in Nat
      /\ Len(bus) # Capacity => n = Len(bus) + 1 /\ \A i \in 1 .. Len(bus) : bus'[i] = bus[i]
      /\ Len(bus) = Capacity => n = Len(bus) /\ \A i \in 1 .. Len(bus) - 1 : bus'[i] = bus[i + 1]
      /\ stale' = IF event.version # rows[event.about] THEN stale \cup {event.about} ELSE stale
      /\ rows' = rows
    BY PublishBus, BusFacts
<1>2. event.kind \in Kinds
    BY PublishBus, EventFacts
<1> HIDE DEF event
<1>3. SUFFICES ASSUME NEW k \in Keys \ stale', ~ Awaited(k, Kinds)',
                      NEW i \in 1 .. n, bus'[i].about = k,
                      \A j \in i + 1 .. n : bus'[j].about # k
               PROVE  bus'[i].version = rows[k]
    BY <1>1 DEF LastSays, Last
<1>4. CASE event.about = k
    <2>1. i = n
        BY <1>1, <1>3, <1>4
    <2> QED BY <1>1, <1>3, <1>4, <2>1
<1>5. CASE event.about # k
    <2>1. i # n /\ i \in 1 .. n - 1
        BY <1>1, <1>3, <1>5
    <2>2. k \notin stale
        BY <1>1, <1>3
    <2>3. ~ Awaited(k, Kinds)
        BY <1>3, <1>5, PublishAwaited DEF event
    <2>4. CASE Len(bus) # Capacity
        <3>1. i \in 1 .. Len(bus) /\ bus'[i] = bus[i]
            BY <1>1, <2>1, <2>4
        <3>2. \A j \in i + 1 .. Len(bus) : j \in i + 1 .. n /\ bus'[j] = bus[j]
            BY <1>1, <2>1, <2>4
        <3>3. \A j \in i + 1 .. Len(bus) : bus[j].about # k
            BY <1>3, <3>2
        <3> QED BY <1>3, <2>2, <2>3, <3>1, <3>3 DEF LastSays, Last
    <2>5. CASE Len(bus) = Capacity
        <3>1. i + 1 \in 1 .. Len(bus) /\ bus'[i] = bus[i + 1]
            BY <1>1, <2>1, <2>5
        <3>2. ASSUME NEW j \in (i + 1) + 1 .. Len(bus)
              PROVE  bus[j].about # k
            <4>1. j - 1 \in i + 1 .. n /\ j - 1 \in 1 .. Len(bus) - 1 /\ (j - 1) + 1 = j
                BY <1>1, <2>1, <2>5
            <4>2. bus'[j - 1] = bus[j]
                BY <1>1, <2>5, <4>1
            <4> QED BY <1>3, <4>1, <4>2
        <3> QED BY <1>3, <2>2, <2>3, <3>1, <3>2 DEF LastSays, Last
    <2> QED BY <2>4, <2>5
<1> QED BY <1>4, <1>5

(* The row of an event that settles it has no other on the bus.            *)
LEMMA DeliverSettled ==
    ASSUME Types, Deliver, NEW k \in stale \ stale'
    PROVE  /\ k = bus[1].about /\ bus[1].version = rows[k]
           /\ bus[1].kind = "updated" => view[k] # <<>>
           /\ ~ Coming(k, Kinds)' /\ \A i \in 1 .. Len(bus') : bus'[i].about # k
<1>1. k = bus[1].about
    BY DeliverStale
<1>2. /\ bus[1].version = rows[k] /\ ~ Coming(k, Kinds)'
      /\ bus[1].kind = "updated" => view[k] # <<>>
    BY <1>1, DeliverStale
<1>3. \A i \in 1 .. Len(bus') : bus'[i].kind \in Kinds
    BY DeliverBus, BusFacts, EventFacts
<1>4. \A i \in 1 .. Len(bus') : bus'[i].about # k
    BY <1>2, <1>3 DEF Coming, OnBus
<1> QED BY <1>1, <1>2, <1>4

LEMMA DeliverLastSays ==
    ASSUME Types, LastSays, Deliver
    PROVE  LastSays'
<1>1. /\ Len(bus) \in Nat /\ Len(bus) > 0 /\ Len(bus') = Len(bus) - 1
      /\ \A i \in 1 .. Len(bus') : i + 1 \in 1 .. Len(bus) /\ bus'[i] = bus[i + 1]
    BY DeliverBus, BusFacts
<1>2. rows' = rows
    BY DEF Deliver, store
<1>3. SUFFICES ASSUME NEW k \in Keys \ stale', ~ Awaited(k, Kinds)',
                      NEW i \in 1 .. Len(bus'), bus'[i].about = k,
                      \A j \in i + 1 .. Len(bus') : bus'[j].about # k
               PROVE  bus'[i].version = rows[k]
    BY <1>2 DEF LastSays, Last
<1>4. i + 1 \in 1 .. Len(bus) /\ bus'[i] = bus[i + 1]
    BY <1>1
<1>5. ASSUME NEW j \in (i + 1) + 1 .. Len(bus)
      PROVE  bus[j].about # k
    <2>1. j - 1 \in i + 1 .. Len(bus') /\ j - 1 \in 1 .. Len(bus') /\ (j - 1) + 1 = j
        BY <1>1
    <2>2. bus'[j - 1] = bus[j]
        BY <1>1, <2>1
    <2> QED BY <1>3, <2>1, <2>2
<1>6. ~ Awaited(k, Kinds)
    BY <1>3, DeliverComing
<1>7. k \notin stale
    BY <1>3, DeliverSettled
<1> QED BY <1>3, <1>4, <1>5, <1>6, <1>7 DEF LastSays, Last

LEMMA LastSaysStep == Grounds /\ LastSays /\ [Next]_vars => LastSays'
<1> SUFFICES ASSUME Grounds, LastSays, [Next]_vars
             PROVE  LastSays'
    OBVIOUS
<1>1. Types /\ OnlyGiven
    BY DEF Grounds
<1>2. CASE \E k \in New : Post(k) \/ Accept(k)
    BY <1>1, <1>2, GivenStep, LastSaysKept
<1>3. CASE \E w \in Writers : Writes(w)
    BY <1>1, <1>3, WritesWrote, WroteLastSays
<1>4. CASE \E w \in Writers : Publish(w)
    BY <1>1, <1>4, PublishLastSays
<1>5. CASE \E k \in Keys : StoreUntold(k)
    BY <1>1, <1>5, UntoldStep, LastSaysKept
<1>6. CASE Deliver
    BY <1>1, <1>6, DeliverLastSays
<1>7. CASE \E c \in Calls : Moves(c)
    BY <1>1, <1>7, MovesCalls, MovesRows, LastSaysKept
<1>8. CASE \E c \in Calls : InitialAnswer(c)
    BY <1>1, <1>8, InitialStale, LastSaysKept
<1>9. CASE OlderAnswer
    BY <1>1, <1>9, OlderStale, LastSaysKept
<1>10. CASE Lagged \/ LoadOlder \/ UNCHANGED vars
    <2>1. UNCHANGED <<pending, bus, rows, stale>>
        BY <1>10 DEF Lagged, LoadOlder, vars, store, way
    <2> QED BY <1>1, <2>1, LastSaysKept
<1> QED BY <1>2, <1>3, <1>4, <1>5, <1>6, <1>7, <1>8, <1>9, <1>10, Steps DEF Step

-----------------------------------------------------------------------------
(* The rows on screen.                                                     *)

LEMMA DeliverRight ==
    ASSUME Grounds, ViewInv, Deliver, NEW k \in Keys \ stale'
    PROVE  Right(k)'
<1> DEFINE event == bus[1]
<1>1. Types /\ LastSays
    BY DEF Grounds, ViewInv
<1>2. /\ UNCHANGED <<rows, calls>> /\ Fact(event)
      /\ event.kind \in {"added", "updated", "deleted"} /\ event.kind \in Kinds
    BY <1>1, DeliverBus, DeliverStale, EventFacts
<1>3. Reloading' <=> Reloading
    BY <1>2 DEF Reloading
<1>4. CASE event.about = k
    <2>1. SUFFICES ASSUME ~ Coming(k, Kinds)'
                   PROVE  Range(view'[k]) \subseteq {rows[k]}
        BY <1>2 DEF Right
    <2>2. event.version = rows[k]
        <3>1. CASE k \in stale
            BY <1>1, <3>1, DeliverSettled
        <3>2. CASE k \notin stale
            <4>1. ~ Awaited(k, Kinds)
                BY <1>1, <2>1, DeliverComing DEF Coming
            <4>2. /\ 1 \in 1 .. Len(bus) /\ Len(bus) \in Nat /\ Len(bus') = Len(bus) - 1
                  /\ \A i \in 1 .. Len(bus') : bus'[i] = bus[i + 1] /\ Fact(bus[i + 1])
                BY <1>1, DeliverBus, BusFacts
            <4>3. ASSUME NEW i \in 1 + 1 .. Len(bus), bus[i].about = k
                  PROVE  FALSE
                <5>1. i - 1 \in 1 .. Len(bus') /\ (i - 1) + 1 = i
                    BY <4>2
                <5>2. bus'[i - 1] = bus[i] /\ Fact(bus[i])
                    BY <4>2, <5>1
                <5>3. bus'[i - 1].kind \in Kinds /\ bus'[i - 1].about = k
                    BY <4>3, <5>2, EventFacts
                <5> QED BY <2>1, <5>1, <5>3 DEF Coming, OnBus
            <4> QED BY <1>1, <1>4, <3>2, <4>1, <4>2, <4>3 DEF LastSays, Last
        <3> QED BY <3>1, <3>2
    <2>3. CASE event.kind = "added"
        BY <1>1, <1>4, <2>2, <2>3, DeliverView, OneCopy
    <2>4. CASE event.kind = "updated"
        BY <1>1, <1>4, <2>2, <2>4, DeliverView
    <2>5. CASE event.kind = "deleted"
        BY <1>1, <1>4, <2>5, DeliverView, NoCopy
    <2> QED BY <1>2, <2>3, <2>4, <2>5
<1>5. CASE event.about # k
    <2>1. view'[k] = view[k]
        BY <1>1, <1>5, DeliverView
    <2>2. k \notin stale
        BY <1>1, <1>5, DeliverSettled
    <2>3. Coming(k, Kinds) => Coming(k, Kinds)'
        BY <1>1, <1>5, DeliverComing
    <2>4. Right(k) /\ ~ missed
        BY <1>1, <2>2, DeliverStale DEF ViewInv
    <2> QED BY <1>2, <1>3, <2>1, <2>3, <2>4 DEF Right
<1> QED BY <1>4, <1>5

LEMMA InitialRight ==
    ASSUME Grounds, NEW c \in Calls, InitialAnswer(c), NEW k \in Keys \ stale'
    PROVE  Right(k)'
<1> DEFINE call == calls[c]
<1>1. Types
    BY DEF Grounds
<1>2. UNCHANGED <<rows, pending, bus, missed>> /\ k \notin Amiss(call, view')
    BY <1>1, InitialStale
<1>3. Coming(k, Kinds)' <=> Coming(k, Kinds)
    BY <1>2, WayComing
<1>4. CASE view'[k] = <<>>
    BY <1>4, NoCopy DEF Right
<1>5. CASE view'[k] # <<>>
    <2>1. Range(view'[k]) = {call.seen[k]}
        BY <1>1, <1>5, InitialView
    <2>2. CASE call.seen[k] = rows[k]
        BY <1>2, <2>1, <2>2 DEF Right
    <2>3. CASE call.seen[k] # rows[k]
        <3>1. missed \/ Range(view'[k]) = {rows[k]} \/ Coming(k, Kinds)
            BY <1>2, <1>5, <2>3, AmissFacts
        <3> QED BY <1>2, <1>3, <3>1 DEF Right
    <2> QED BY <2>2, <2>3
<1> QED BY <1>4, <1>5

LEMMA OlderRight ==
    ASSUME Grounds, ViewInv, OlderAnswer, NEW k \in Keys \ stale'
    PROVE  Right(k)'
<1> DEFINE call == calls[Older]
<1>1. Types
    BY DEF Grounds
<1>2. UNCHANGED <<rows, pending, bus, missed>> /\ k \notin Amiss(call, view')
    BY <1>1, OlderStale
<1>3. Coming(k, Kinds)' <=> Coming(k, Kinds)
    BY <1>2, WayComing
<1>4. Reloading' <=> Reloading
    BY <1>1, OlderCalls
<1>5. Right(k) \/ view[k] = <<>>
    BY <1>1, OlderStale DEF ViewInv
<1>6. CASE view'[k] = view[k]
    BY <1>2, <1>3, <1>4, <1>5, <1>6, NoCopy DEF Right
<1>7. CASE view'[k] # <<>> /\ Range(view'[k]) \subseteq {call.seen[k]} \cup Range(view[k])
    <2>1. CASE call.seen[k] = rows[k]
        <3>1. Range(view[k]) \subseteq {rows[k]} => Range(view'[k]) \subseteq {rows[k]}
            BY <1>7, <2>1
        <3> QED BY <1>2, <1>3, <1>4, <1>5, <3>1, NoCopy DEF Right
    <2>2. CASE call.seen[k] # rows[k]
        <3>1. missed \/ Range(view'[k]) = {rows[k]} \/ Coming(k, Kinds)
            BY <1>2, <1>7, <2>2, AmissFacts
        <3> QED BY <1>2, <1>3, <3>1 DEF Right
    <2> QED BY <2>1, <2>2
<1> QED BY <1>1, <1>6, <1>7, OlderView

LEMMA ViewInvInit == Init => ViewInv
<1> SUFFICES ASSUME Init
             PROVE  ViewInv
    OBVIOUS
<1>1. bus = <<>> /\ Reloading
    BY InitFacts
<1>2. 1 .. Len(bus) = {}
    BY <1>1
<1> QED BY <1>1, <1>2 DEF ViewInv, LastSays, Right

LEMMA ViewInvStep == Grounds /\ ViewInv /\ [Next]_vars => ViewInv'
<1> SUFFICES ASSUME Grounds, ViewInv, [Next]_vars, NEW k \in Keys \ stale'
             PROVE  Right(k)'
    BY LastSaysStep DEF ViewInv
<1>1. Types /\ OnlyGiven
    BY DEF Grounds
<1>2. k \notin stale => Right(k)
    BY DEF ViewInv
<1>3. ASSUME UNCHANGED <<pending, bus, missed, view>>, Reloading' <=> Reloading,
             k \notin stale, rows'[k] = rows[k]
      PROVE  Right(k)'
    <2>1. Coming(k, Kinds)' <=> Coming(k, Kinds)
        BY <1>3, WayComing
    <2> QED BY <1>2, <1>3, <2>1 DEF Right
<1>4. CASE \E i \in New : Post(i) \/ Accept(i)
    <2>1. UNCHANGED <<rows, pending, bus, missed, view, calls, stale>>
        BY <1>1, <1>4, GivenStep
    <2>2. Reloading' <=> Reloading
        BY <2>1 DEF Reloading
    <2> QED BY <1>3, <2>1, <2>2
<1>5. ASSUME NEW w \in Writers, NEW new, NEW events, Wrote(w, new, events)
      PROVE  Right(k)'
    <2>1. /\ events \in Seq(Events) /\ Facts(events) /\ Write(w, new, events)
          /\ stale \subseteq stale'
          /\ new[k] # rows[k] => OnBus(events, k, Kinds)
        BY <1>5 DEF Wrote
    <2>2. rows' = new /\ UNCHANGED <<missed, view, calls>>
        BY <1>1, <2>1, WriteStep
    <2>3. Coming(k, Kinds)' <=> Coming(k, Kinds) \/ OnBus(events, k, Kinds)
        BY <1>1, <2>1, WriteComing
    <2>4. Reloading' <=> Reloading
        BY <2>2 DEF Reloading
    <2>5. Right(k)
        BY <1>2, <2>1
    <2> QED BY <2>1, <2>2, <2>3, <2>4, <2>5 DEF Right
<1>6. CASE \E w \in Writers : Writes(w)
    BY <1>1, <1>5, <1>6, WritesWrote
<1>7. CASE \E w \in Writers : Publish(w)
    <2>1. PICK w \in Writers : Publish(w)
        BY <1>7
    <2>2. UNCHANGED <<rows, view, calls>> /\ stale \subseteq stale' /\ (missed => missed')
        BY <1>1, <2>1, PublishBus
    <2>3. Coming(k, Kinds) /\ ~ missed' => Coming(k, Kinds)'
        BY <1>1, <2>1, PublishComing
    <2>4. Reloading' <=> Reloading
        BY <2>2 DEF Reloading
    <2>5. Right(k)
        BY <1>2, <2>2
    <2> QED BY <2>2, <2>3, <2>4, <2>5 DEF Right
<1>8. CASE \E i \in Keys : StoreUntold(i)
    <2>1. /\ rows'[k] = rows[k] /\ k \notin stale
          /\ UNCHANGED <<pending, bus, missed, view, calls>>
        BY <1>1, <1>8, UntoldStep
    <2>2. Reloading' <=> Reloading
        BY <2>1 DEF Reloading
    <2> QED BY <1>3, <2>1, <2>2
<1>9. CASE Deliver
    BY <1>9, DeliverRight
<1>10. CASE Lagged
    BY <1>1, <1>10, LaggedCalls DEF Right
<1>11. CASE \E c \in Calls : Moves(c)
    BY <1>1, <1>3, <1>11, MovesCalls, MovesRows, MovesKeep
<1>12. CASE \E c \in Calls : InitialAnswer(c)
    BY <1>12, InitialRight
<1>13. CASE OlderAnswer
    BY <1>13, OlderRight
<1>14. CASE LoadOlder
    <2>1. UNCHANGED <<rows, pending, bus, missed, view, stale>>
        BY <1>14 DEF LoadOlder, store, way
    <2> QED BY <1>1, <1>3, <1>14, <2>1, LoadOlderCalls
<1>15. CASE UNCHANGED vars
    <2>1. UNCHANGED <<rows, pending, bus, missed, view, stale, calls>>
        BY <1>15 DEF vars, store, way
    <2>2. Reloading' <=> Reloading
        BY <2>1 DEF Reloading
    <2> QED BY <1>3, <2>1, <2>2
<1> QED
    BY <1>4, <1>6, <1>7, <1>8, <1>9, <1>10, <1>11, <1>12, <1>13, <1>14, <1>15, Steps DEF Step

LEMMA QuietFacts ==
    ASSUME Types, Quiet
    PROVE  ~ missed /\ ~ Reloading /\ \A k, kinds : ~ Coming(k, kinds)
<1>1. (\A w \in Writers : 1 .. Len(pending[w]) = {}) /\ 1 .. Len(bus) = {}
    BY DEF Quiet
<1>2. ~ Reloading
    BY CallFacts DEF Quiet, Reloading
<1> QED BY <1>1, <1>2 DEF Quiet, Coming, Awaited, OnBus

LEMMA ViewMatches == Grounds /\ ViewInv => ViewMatchesStore
BY QuietFacts DEF Grounds, ViewInv, Right, ViewMatchesStore

(* ViewMatchesStore: once nothing is under way, each message on screen is  *)
(* the row the database has, also after the ring has dropped events, but   *)
(* for an answer that came after the event of a later write, a row that    *)
(* was stored without a word (the seed, search, backfill), and one whose   *)
(* last event told of another version.                                     *)
THEOREM ScreenShowsStore == Spec => []ViewMatchesStore
<1>1. Init => Grounds /\ ViewInv
    BY GroundsInit, ViewInvInit
<1>2. Grounds /\ ViewInv /\ [Next]_vars => (Grounds /\ ViewInv)'
    BY GroundsStep, ViewInvStep
<1> QED BY <1>1, <1>2, ViewMatches, PTL DEF Spec

-----------------------------------------------------------------------------
(* What loadOlder's page will be put in front of.                          *)

LEMMA ShownFacts == \A k : k \in Shown <=> k \in Keys /\ view[k] # <<>>
BY DEF Shown

(* The page of loadOlder is before its cursor.                             *)
LEMMA OlderPage ==
    ASSUME Types, OlderAnswer
    PROVE  /\ \A k \in DOMAIN Page(calls[Older]) : Earlier(k, calls[Older].cursor) /\ k \in Keys
           /\ \A k \in Keys : Behind(k, calls[Older].cursor) <=> Earlier(k, calls[Older].cursor)
<1>1. calls[Older].cursor # Newest
    BY OlderCalls, KeyFacts
<1> QED BY <1>1, PageFacts DEF Behind

LEMMA DeliverShown ==
    ASSUME Types, Deliver, NEW j \in Shown'
    PROVE  \/ j \in Shown
           \/ bus[1].kind = "added" /\ j = bus[1].about
<1>1. j \in Keys /\ view'[j] # <<>>
    BY DEF Shown
<1>2. CASE j # bus[1].about
    BY <1>1, <1>2, DeliverView, ShownFacts
<1>3. CASE j = bus[1].about
    <2>1. bus[1].kind \in {"added", "updated", "deleted"}
        BY DeliverBus, EventFacts
    <2> QED BY <1>1, <1>3, <2>1, DeliverView, ShownFacts
<1> QED BY <1>2, <1>3

LEMMA AheadInit == Init => Ahead
BY InitFacts DEF Ahead

(* The steps that leave the list and loadOlder as they are.                *)
LEMMA ScreenKept ==
    ASSUME Types, OnlyGiven, [Next]_vars,
           ~ Deliver, ~ Lagged, ~ LoadOlder, ~ OlderAnswer,
           \A c \in Calls : ~ Moves(c) /\ ~ InitialAnswer(c)
    PROVE  UNCHANGED <<view, calls, crossed, disturbed>>
<1>1. CASE \E k \in New : Post(k) \/ Accept(k)
    BY <1>1, GivenStep DEF marks
<1>2. CASE \E w \in Writers : Writes(w)
    BY <1>2, WritesWrote, WriteStep DEF Wrote
<1>3. CASE \E w \in Writers : Publish(w)
    BY <1>3, PublishBus DEF marks
<1>4. CASE \E k \in Keys : StoreUntold(k)
    BY <1>4, UntoldStep DEF marks
<1>5. CASE UNCHANGED vars
    BY <1>5 DEF vars, marks
<1> QED BY <1>1, <1>2, <1>3, <1>4, <1>5, Steps DEF Step

LEMMA AheadStep == Grounds /\ Ahead /\ [Next]_vars => Ahead'
<1> SUFFICES ASSUME Grounds, Ahead, [Next]_vars, calls'[Older] # Idle, ~ crossed', NEW j \in Shown'
             PROVE  ~ Earlier(j, calls'[Older].cursor)
    BY DEF Ahead
<1>1. Types /\ OnlyGiven
    BY DEF Grounds
<1>2. ASSUME calls[Older] # Idle, ~ crossed, calls'[Older].cursor = calls[Older].cursor, j \in Shown
      PROVE  ~ Earlier(j, calls'[Older].cursor)
    BY <1>2 DEF Ahead
<1>3. ASSUME view' = view
      PROVE  j \in Shown
    BY <1>3 DEF Shown
<1>4. CASE UNCHANGED <<view, calls, crossed, disturbed>>
    BY <1>2, <1>3, <1>4
<1>5. CASE Deliver
    <2>1. calls' = calls /\ Head(bus) = bus[1]
        BY <1>1, <1>5, DeliverBus DEF Deliver
    <2>2. ~ crossed /\ ~ (bus[1].kind = "added" /\ Earlier(bus[1].about, calls[Older].cursor))
        BY <1>5, <2>1 DEF Deliver
    <2>3. CASE j \in Shown
        BY <1>2, <2>1, <2>2, <2>3
    <2>4. CASE bus[1].kind = "added" /\ j = bus[1].about
        BY <2>1, <2>2, <2>4
    <2> QED BY <1>1, <1>5, <2>3, <2>4, DeliverShown
<1>6. CASE Lagged
    <2>1. calls'[Older] = calls[Older] /\ view' = view /\ crossed' = crossed
        BY <1>1, <1>6, LaggedCalls DEF Lagged, marks
    <2> QED BY <1>2, <1>3, <2>1
<1>7. CASE \E c \in Calls : Moves(c)
    <2>1. PICK c \in Calls : Moves(c)
        BY <1>7
    <2>2. view' = view /\ crossed' = crossed
        BY <1>1, <2>1, MovesCalls DEF marks
    <2>3. (calls'[Older] # Idle <=> calls[Older] # Idle) /\ calls'[Older].cursor = calls[Older].cursor
        BY <1>1, <2>1, MovesKeep, CallFacts
    <2> QED BY <1>2, <1>3, <2>2, <2>3
<1>8. CASE \E c \in Calls : InitialAnswer(c)
    <2>1. PICK c \in Calls : InitialAnswer(c)
        BY <1>8
    <2>2. calls'[Older] = calls[Older]
        BY <1>1, <2>1, InitialCalls, CallFacts
    <2>3. crossed' = (calls[Older] # Idle)
        BY <2>1 DEF InitialAnswer
    <2> QED BY <2>2, <2>3
<1>9. CASE LoadOlder
    <2>1. view' = view
        BY <1>9 DEF LoadOlder
    <2> QED BY <1>1, <1>3, <1>9, <2>1, LoadOlderCalls
<1>10. CASE OlderAnswer
    BY <1>1, <1>10, OlderCalls
<1> QED BY <1>1, <1>4, <1>5, <1>6, <1>7, <1>8, <1>9, <1>10, ScreenKept

-----------------------------------------------------------------------------
(* No message is on screen twice.                                          *)

LEMMA TwinsInit == Init => TwinsInv
<1> SUFFICES ASSUME Init
             PROVE  TwinsInv
    OBVIOUS
<1>1. \A k \in Keys : view[k] = <<>>
    BY DEF Init
<1> QED BY <1>1, NoCopy, AheadInit DEF TwinsInv, NoTwins

LEMMA TwinsStep == Grounds /\ TwinsInv /\ [Next]_vars => TwinsInv'
<1> SUFFICES ASSUME Grounds, TwinsInv, [Next]_vars, ~ disturbed', NEW k \in Keys
             PROVE  Len(view'[k]) <= 1
    BY AheadStep DEF TwinsInv, NoTwins
<1>1. Types /\ OnlyGiven
    BY DEF Grounds
<1>2. ~ disturbed => Len(view[k]) <= 1
    BY DEF TwinsInv, NoTwins
<1>3. CASE Deliver
    <2>1. ~ disturbed
        BY <1>3 DEF Deliver
    <2>2. CASE k # bus[1].about
        BY <1>1, <1>2, <1>3, <2>1, <2>2, DeliverView
    <2>3. CASE k = bus[1].about
        <3>1. bus[1].kind \in {"added", "updated", "deleted"}
            BY <1>1, <1>3, DeliverBus, EventFacts
        <3>2. bus[1].kind = "added" => Len(view'[k]) = 1
            BY <1>1, <1>3, <2>3, DeliverView, OneCopy
        <3>3. bus[1].kind = "updated" => Len(view'[k]) = Len(view[k])
            BY <1>1, <1>3, <2>3, DeliverView
        <3>4. bus[1].kind = "deleted" => Len(view'[k]) = 0
            BY <1>1, <1>3, <2>3, DeliverView, NoCopy
        <3> DEFINE before == Len(view[k])
                   after == Len(view'[k])
        <3>5. before <= 1 /\ after \in {0, 1, before}
            BY <1>2, <2>1, <3>1, <3>2, <3>3, <3>4
        <3> HIDE DEF before, after
        <3>6. after <= 1
            BY <3>5
        <3> QED BY <3>6 DEF after
    <2> QED BY <2>2, <2>3
<1>4. CASE \E c \in Calls : Moves(c)
    <2>1. view' = view /\ disturbed' = disturbed
        BY <1>1, <1>4, MovesCalls DEF marks
    <2> QED BY <1>2, <2>1
<1>5. CASE \E c \in Calls : InitialAnswer(c)
    <2>1. PICK c \in Calls : InitialAnswer(c)
        BY <1>5
    <2>2. Len(view'[k]) = 1 \/ view'[k] = <<>>
        BY <1>1, <2>1, InitialView
    <2> DEFINE copies == Len(view'[k])
    <2>3. copies \in {0, 1}
        BY <2>2, NoCopy
    <2> HIDE DEF copies
    <2>4. copies <= 1
        BY <2>3
    <2> QED BY <2>4 DEF copies
<1>6. CASE OlderAnswer
    <2>1. ~ disturbed /\ ~ crossed /\ calls[Older] # Idle
        BY <1>1, <1>6, OlderCalls, OlderStale
    <2>2. CASE k \in DOMAIN Page(calls[Older])
        <3>1. Earlier(k, calls[Older].cursor)
            BY <1>1, <1>6, <2>2, OlderPage
        <3>2. view[k] = <<>>
            BY <2>1, <3>1, ShownFacts DEF TwinsInv, Ahead
        <3>3. Len(view'[k]) = Len(view[k]) + 1
            BY <1>1, <1>6, <2>2, OlderView
        <3>4. Len(view[k]) = 0
            BY <3>2, NoCopy
        <3> QED BY <3>3, <3>4
    <2>3. CASE k \notin DOMAIN Page(calls[Older])
        BY <1>1, <1>2, <1>6, <2>1, <2>3, OlderView
    <2> QED BY <2>2, <2>3
<1>7. CASE Lagged \/ LoadOlder
    <2>1. view' = view /\ disturbed' = disturbed
        BY <1>7 DEF Lagged, LoadOlder, marks
    <2> QED BY <1>2, <2>1
<1>8. CASE UNCHANGED <<view, calls, crossed, disturbed>>
    BY <1>2, <1>8
<1> QED BY <1>1, <1>3, <1>4, <1>5, <1>6, <1>7, <1>8, ScreenKept

(* NoTwins: loadOlder puts its page in front of the list without looking   *)
(* whether its messages are there, and no message is on screen twice,      *)
(* unless one before its cursor was shown already: an event or an answer   *)
(* came in between, or the list's own order put the later of two messages  *)
(* of one second first.                                                    *)
THEOREM NobodyTwice == Spec => []NoTwins
<1>1. Init => Grounds /\ TwinsInv
    BY GroundsInit, TwinsInit
<1>2. Grounds /\ TwinsInv /\ [Next]_vars => (Grounds /\ TwinsInv)'
    BY GroundsStep, TwinsStep
<1>3. TwinsInv => NoTwins
    BY DEF TwinsInv
<1> QED BY <1>1, <1>2, <1>3, PTL DEF Spec

-----------------------------------------------------------------------------
(* A stored message that is taken off the screen comes back.               *)

LEMMA StoredFacts == \A k : k \in Stored <=> k \in Keys /\ rows[k] # 0
BY DEF Stored

LEMMA BackInit == Init => Back
<1> SUFFICES ASSUME Init
             PROVE  Back
    OBVIOUS
<1>1. 1 .. Len(bus) = {}
    BY InitFacts
<1> QED BY <1>1 DEF Back

LEMMA BackKept ==
    ASSUME Types, Back, UNCHANGED <<pending, bus>>,
           \A k \in Keys \ stale' :
                Coming(k, Kinds) /\ rows'[k] # 0 => rows[k] # 0 /\ k \notin stale
    PROVE  Back'
<1> SUFFICES ASSUME NEW k \in Keys, rows'[k] # 0, k \notin stale', ~ Awaited(k, {"added"})',
                    NEW i \in 1 .. Len(bus), bus[i].about = k, bus[i].kind = "deleted"
             PROVE  \E j \in i + 1 .. Len(bus) : bus[j].about = k /\ bus[j].kind = "added"
    BY DEF Back, Stored
<1>1. ~ Awaited(k, {"added"})
    BY WayComing
<1>2. rows[k] # 0 /\ k \notin stale
    BY OnBusFacts
<1> QED BY <1>1, <1>2, StoredFacts DEF Back

LEMMA WroteBack ==
    ASSUME Types, Back, NEW w \in Writers, NEW new, NEW events, Wrote(w, new, events)
    PROVE  Back'
<1>1. /\ events \in Seq(Events) /\ Facts(events) /\ Write(w, new, events)
      /\ stale \subseteq stale'
      /\ \A k \in Keys : rows[k] = 0 /\ new[k] # 0 => OnBus(events, k, {"added"}) \/ k \in stale'
    BY DEF Wrote
<1>2. rows' = new /\ bus' = bus
    BY <1>1, WriteStep
<1> SUFFICES ASSUME NEW k \in Keys, rows'[k] # 0, k \notin stale', ~ Awaited(k, {"added"})',
                    NEW i \in 1 .. Len(bus), bus[i].about = k, bus[i].kind = "deleted"
             PROVE  \E j \in i + 1 .. Len(bus) : bus[j].about = k /\ bus[j].kind = "added"
    BY <1>2 DEF Back, Stored
<1>3. {"added"} \in SUBSET Kinds
    BY DEF Kinds
<1>4. ~ Awaited(k, {"added"}) /\ ~ OnBus(events, k, {"added"})
    BY <1>1, <1>3, WriteComing
<1>5. rows[k] # 0 /\ k \notin stale
    BY <1>1, <1>2, <1>4
<1> QED BY <1>4, <1>5, StoredFacts DEF Back

LEMMA PublishBack ==
    ASSUME Types, Back, NEW w \in Writers, Publish(w)
    PROVE  Back'
<1> DEFINE event == Head(pending[w])
           n == Len(bus')
<1>1. /\ n \in Nat /\ n > 0 /\ bus'[n] = event /\ Len(bus) \in Nat
      /\ Len(bus) # Capacity => n = Len(bus) + 1 /\ \A i \in 1 .. Len(bus) : bus'[i] = bus[i]
      /\ Len(bus) = Capacity => n = Len(bus) /\ \A i \in 1 .. Len(bus) - 1 : bus'[i] = bus[i + 1]
      /\ stale' = IF event.version # rows[event.about] THEN stale \cup {event.about} ELSE stale
      /\ rows' = rows /\ Fact(event)
    BY PublishBus, BusFacts
<1>2. event.kind = "deleted" <=> event.version = 0
    BY <1>1, EventFacts
<1> HIDE DEF event
<1>3. SUFFICES ASSUME NEW k \in Keys, rows[k] # 0, k \notin stale', ~ Awaited(k, {"added"})',
                      NEW i \in 1 .. n, bus'[i].about = k, bus'[i].kind = "deleted"
               PROVE  \E j \in i + 1 .. n : bus'[j].about = k /\ bus'[j].kind = "added"
    BY <1>1 DEF Back, Stored
<1>4. i # n /\ i \in 1 .. n - 1 /\ n \in i + 1 .. n
    <2>1. i # n
        BY <1>1, <1>2, <1>3
    <2> QED BY <1>1, <2>1
<1>5. CASE event.about = k /\ event.kind = "added"
    BY <1>1, <1>4, <1>5
<1>6. CASE ~ (event.about = k /\ event.kind = "added")
    <2>1. {"added"} \in SUBSET Kinds
        BY DEF Kinds
    <2>2. ~ Awaited(k, {"added"})
        BY <1>3, <1>6, <2>1, PublishAwaited DEF event
    <2>3. k \in Stored /\ k \notin stale
        BY <1>1, <1>3, StoredFacts
    <2>4. CASE Len(bus) # Capacity
        <3>1. i \in 1 .. Len(bus) /\ bus'[i] = bus[i]
            BY <1>1, <1>4, <2>4
        <3>2. PICK j \in i + 1 .. Len(bus) : bus[j].about = k /\ bus[j].kind = "added"
            BY <1>3, <2>2, <2>3, <3>1 DEF Back
        <3>3. j \in i + 1 .. n /\ j \in 1 .. Len(bus)
            BY <1>1, <1>4, <2>4
        <3>4. bus'[j] = bus[j]
            BY <1>1, <2>4, <3>3
        <3> QED BY <3>2, <3>3, <3>4
    <2>5. CASE Len(bus) = Capacity
        <3>1. i + 1 \in 1 .. Len(bus) /\ bus'[i] = bus[i + 1]
            BY <1>1, <1>4, <2>5
        <3>2. PICK j \in (i + 1) + 1 .. Len(bus) : bus[j].about = k /\ bus[j].kind = "added"
            BY <1>3, <2>2, <2>3, <3>1 DEF Back
        <3>3. j - 1 \in i + 1 .. n /\ j - 1 \in 1 .. Len(bus) - 1 /\ (j - 1) + 1 = j
            BY <1>1, <1>4, <2>5
        <3>4. bus'[j - 1] = bus[j]
            BY <1>1, <2>5, <3>3
        <3> QED BY <3>2, <3>3, <3>4
    <2> QED BY <2>4, <2>5
<1> QED BY <1>5, <1>6

LEMMA DeliverBack ==
    ASSUME Types, Back, Deliver
    PROVE  Back'
<1>1. /\ Len(bus) \in Nat /\ Len(bus) > 0 /\ Len(bus') = Len(bus) - 1
      /\ \A i \in 1 .. Len(bus') : i + 1 \in 1 .. Len(bus) /\ bus'[i] = bus[i + 1]
    BY DeliverBus, BusFacts
<1>2. rows' = rows
    BY DEF Deliver, store
<1>3. SUFFICES ASSUME NEW k \in Keys, rows[k] # 0, k \notin stale', ~ Awaited(k, {"added"})',
                      NEW i \in 1 .. Len(bus'), bus'[i].about = k, bus'[i].kind = "deleted"
               PROVE  \E j \in i + 1 .. Len(bus') : bus'[j].about = k /\ bus'[j].kind = "added"
    BY <1>2 DEF Back, Stored
<1>4. k \notin stale /\ k \in Stored
    BY <1>3, DeliverSettled, StoredFacts
<1>5. ~ Awaited(k, {"added"})
    BY <1>3, DeliverComing DEF Kinds
<1>6. i + 1 \in 1 .. Len(bus) /\ bus'[i] = bus[i + 1]
    BY <1>1
<1>7. PICK j \in (i + 1) + 1 .. Len(bus) : bus[j].about = k /\ bus[j].kind = "added"
    BY <1>3, <1>4, <1>5, <1>6 DEF Back
<1>8. j - 1 \in i + 1 .. Len(bus') /\ j - 1 \in 1 .. Len(bus') /\ (j - 1) + 1 = j
    BY <1>1
<1>9. bus'[j - 1] = bus[j]
    BY <1>1, <1>8
<1> QED BY <1>7, <1>8, <1>9

LEMMA BackStep == Grounds /\ Back /\ [Next]_vars => Back'
<1> SUFFICES ASSUME Grounds, Back, [Next]_vars
             PROVE  Back'
    OBVIOUS
<1>1. Types /\ OnlyGiven
    BY DEF Grounds
<1>2. CASE \E k \in New : Post(k) \/ Accept(k)
    BY <1>1, <1>2, GivenStep, BackKept
<1>3. CASE \E w \in Writers : Writes(w)
    BY <1>1, <1>3, WritesWrote, WroteBack
<1>4. CASE \E w \in Writers : Publish(w)
    BY <1>1, <1>4, PublishBack
<1>5. CASE \E k \in Keys : StoreUntold(k)
    <2>1. UNCHANGED <<pending, bus>> /\ stale \subseteq stale'
          /\ \A k \in Keys : rows'[k] # rows[k] => k \in stale'
        BY <1>1, <1>5, UntoldStep
    <2>2. \A k \in Keys \ stale' : rows'[k] = rows[k] /\ k \notin stale
        BY <2>1
    <2> QED BY <1>1, <2>1, <2>2, BackKept
<1>6. CASE Deliver
    BY <1>1, <1>6, DeliverBack
<1>7. CASE \E c \in Calls : Moves(c)
    <2>1. UNCHANGED <<pending, bus>> /\ stale \subseteq stale'
          /\ \A k \in Keys : rows'[k] # rows[k] => k \in stale'
        BY <1>1, <1>7, MovesCalls, MovesRows
    <2>2. \A k \in Keys \ stale' : rows'[k] = rows[k] /\ k \notin stale
        BY <2>1
    <2> QED BY <1>1, <2>1, <2>2, BackKept
<1>8. CASE \E c \in Calls : InitialAnswer(c)
    BY <1>1, <1>8, InitialStale, BackKept
<1>9. CASE OlderAnswer
    BY <1>1, <1>9, OlderStale, BackKept
<1>10. CASE Lagged \/ LoadOlder \/ UNCHANGED vars
    <2>1. UNCHANGED <<pending, bus, rows, stale>>
        BY <1>10 DEF Lagged, LoadOlder, vars, store, way
    <2> QED BY <1>1, <2>1, BackKept
<1> QED BY <1>2, <1>3, <1>4, <1>5, <1>6, <1>7, <1>8, <1>9, <1>10, Steps DEF Step

-----------------------------------------------------------------------------
(* No stored message is missing behind one that is shown.                  *)

(* A step that leaves the list as it is, and stores no message that it     *)
(* does not make stale.                                                    *)
LEMMA CoveredKept ==
    ASSUME Types, Covered, UNCHANGED <<pending, bus, missed, view, disturbed>>,
           crossed => crossed', Reloading => Reloading',
           calls'[Older] # Idle /\ ~ crossed' =>
                calls[Older] # Idle /\ calls'[Older].cursor = calls[Older].cursor,
           \A k \in Keys \ stale' : rows'[k] # 0 => rows[k] # 0 /\ k \notin stale
    PROVE  Covered'
<1> SUFFICES ASSUME ~ disturbed, NEW k \in Keys, rows'[k] # 0, k \notin stale', Reached(k)'
             PROVE  InPlace(k)'
    BY DEF Covered, Stored
<1>1. k \in Stored /\ k \notin stale
    BY StoredFacts
<1>2. Reached(k)
    BY DEF Reached, Shown
<1>3. InPlace(k)
    BY <1>1, <1>2 DEF Covered
<1>4. Coming(k, {"added"})' <=> Coming(k, {"added"})
    BY WayComing
<1> QED BY <1>3, <1>4 DEF InPlace

LEMMA WroteCovered ==
    ASSUME Types, Covered, NEW w \in Writers, NEW new, NEW events, Wrote(w, new, events)
    PROVE  Covered'
<1>1. /\ events \in Seq(Events) /\ Facts(events) /\ Write(w, new, events)
      /\ stale \subseteq stale'
      /\ \A k \in Keys : rows[k] = 0 /\ new[k] # 0 => OnBus(events, k, {"added"}) \/ k \in stale'
    BY DEF Wrote
<1>2. rows' = new /\ UNCHANGED <<missed, view, calls, crossed, disturbed>>
    BY <1>1, WriteStep
<1> SUFFICES ASSUME ~ disturbed, NEW k \in Keys, new[k] # 0, k \notin stale', Reached(k)'
             PROVE  InPlace(k)'
    BY <1>2 DEF Covered, Stored
<1>3. Coming(k, {"added"}) \/ OnBus(events, k, {"added"}) => Coming(k, {"added"})'
    BY <1>1, WriteComing DEF Kinds
<1>4. Reloading' <=> Reloading
    BY <1>2 DEF Reloading
<1>5. CASE rows[k] = 0
    BY <1>1, <1>3, <1>5 DEF InPlace
<1>6. CASE rows[k] # 0
    <2>1. k \in Stored /\ k \notin stale
        BY <1>1, <1>6, StoredFacts
    <2>2. Reached(k)
        BY <1>2 DEF Reached, Shown
    <2>3. InPlace(k)
        BY <2>1, <2>2 DEF Covered
    <2> QED BY <1>2, <1>3, <1>4, <2>3 DEF InPlace
<1> QED BY <1>5, <1>6

LEMMA PublishCovered ==
    ASSUME Types, Covered, NEW w \in Writers, Publish(w)
    PROVE  Covered'
<1>1. UNCHANGED <<rows, view, calls, crossed, disturbed>> /\ stale \subseteq stale'
      /\ (missed => missed')
    BY PublishBus DEF marks
<1> SUFFICES ASSUME ~ disturbed, NEW k \in Keys, rows[k] # 0, k \notin stale', Reached(k)'
             PROVE  InPlace(k)'
    BY <1>1 DEF Covered, Stored
<1>2. Reached(k) /\ k \in Stored /\ k \notin stale
    BY <1>1, StoredFacts DEF Reached, Shown
<1>3. Coming(k, {"added"}) /\ ~ missed' => Coming(k, {"added"})'
    BY PublishComing DEF Kinds
<1>4. Reloading' <=> Reloading
    BY <1>1 DEF Reloading
<1>5. InPlace(k)
    BY <1>2 DEF Covered
<1> QED BY <1>1, <1>3, <1>4, <1>5 DEF InPlace

LEMMA DeliverCovered ==
    ASSUME Types, Back, Covered, Deliver
    PROVE  Covered'
<1> DEFINE event == bus[1]
           m == event.about
<1>1. /\ UNCHANGED <<rows, calls>> /\ Head(bus) = event /\ ~ missed
      /\ Fact(event) /\ event.kind \in {"added", "updated", "deleted"}
      /\ event.kind = "deleted" <=> event.version = 0
      /\ {"added"} \in SUBSET Kinds
    BY DeliverBus, DeliverStale, EventFacts DEF Kinds
<1>2. SUFFICES ASSUME ~ disturbed', NEW k \in Keys, rows[k] # 0, k \notin stale', Reached(k)'
               PROVE  InPlace(k)'
    BY <1>1 DEF Covered, Stored
<1>3. /\ ~ disturbed /\ k \in Stored
      /\ ~ (/\ event.kind = "added"
            /\ \A j \in Shown : Earlier(m, j)
            /\ \E j \in Stored : Earlier(m, j))
    BY <1>1, <1>2, StoredFacts DEF Deliver
<1>4. crossed => crossed'
    BY DEF Deliver
<1>5. CASE k = m
    <2>1. CASE event.kind = "added"
        <3>1. view'[k] # <<>>
            BY <1>5, <2>1, DeliverView, OneCopy
        <3> QED BY <3>1 DEF InPlace
    <2>2. CASE event.kind = "updated"
        <3>1. view'[k] = <<>> <=> view[k] = <<>>
            BY <1>5, <2>2, DeliverView
        <3>2. CASE k \in stale
            <4>1. view[k] # <<>>
                BY <1>2, <2>2, <3>2, DeliverSettled
            <4> QED BY <3>1, <4>1 DEF InPlace
        <3>3. CASE k \notin stale
            <4>1. \A j \in Shown' : j \in Shown
                BY <2>2, DeliverShown
            <4>2. Reached(k)
                BY <1>1, <1>2, <1>4, <4>1 DEF Reached
            <4>3. InPlace(k)
                BY <1>3, <3>3, <4>2 DEF Covered
            <4>4. Coming(k, {"added"}) => Coming(k, {"added"})'
                BY <1>1, <2>2, DeliverComing
            <4>5. Reloading' <=> Reloading
                BY <1>1 DEF Reloading
            <4> QED BY <1>1, <3>1, <4>3, <4>4, <4>5 DEF InPlace
        <3> QED BY <3>2, <3>3
    <2>3. CASE event.kind = "deleted"
        <3>1. k \notin stale
            BY <1>1, <1>2, <2>3, DeliverSettled
        <3>2. Coming(k, {"added"})'
            <4>1. CASE Awaited(k, {"added"})
                BY <1>1, <4>1, DeliverComing DEF Coming
            <4>2. CASE ~ Awaited(k, {"added"})
                <5>1. /\ Len(bus) \in Nat /\ Len(bus) > 0 /\ Len(bus') = Len(bus) - 1
                      /\ \A i \in 1 .. Len(bus') : bus'[i] = bus[i + 1]
                    BY DeliverBus, BusFacts
                <5>2. 1 \in 1 .. Len(bus)
                    BY <5>1
                <5>3. PICK j \in 1 + 1 .. Len(bus) : bus[j].about = k /\ bus[j].kind = "added"
                    BY <1>3, <1>5, <2>3, <3>1, <4>2, <5>2 DEF Back
                <5>4. j - 1 \in 1 .. Len(bus') /\ (j - 1) + 1 = j
                    BY <5>1
                <5>5. bus'[j - 1] = bus[j]
                    BY <5>1, <5>4
                <5> QED BY <5>3, <5>4, <5>5 DEF Coming, OnBus
            <4> QED BY <4>1, <4>2
        <3> QED BY <3>2 DEF InPlace
    <2> QED BY <1>1, <2>1, <2>2, <2>3
<1>6. CASE k # m
    <2>1. view'[k] = view[k]
        BY <1>6, DeliverView
    <2>2. k \notin stale
        BY <1>2, <1>6, DeliverSettled
    <2>3. Coming(k, {"added"}) => Coming(k, {"added"})'
        BY <1>1, <1>6, DeliverComing
    <2>4. Reloading' <=> Reloading
        BY <1>1 DEF Reloading
    <2>5. InPlace(k) => InPlace(k)'
        BY <1>1, <2>1, <2>3, <2>4 DEF InPlace
    <2>6. Reached(k)
        <3>1. CASE \E j \in Shown' : Earlier(j, k)
            <4>1. PICK j \in Shown' : Earlier(j, k)
                BY <3>1
            <4>2. CASE j \in Shown
                BY <4>1, <4>2 DEF Reached
            <4>3. CASE event.kind = "added" /\ j = m
                <5>1. PICK i \in Shown : ~ Earlier(m, i)
                    BY <1>3, <4>1, <4>3
                <5>2. m \in Keys /\ i \in Keys
                    BY <4>1, <4>3, <5>1 DEF Shown
                <5>3. i = m \/ Earlier(i, m)
                    BY <5>1, <5>2, EarlierOrder
                <5>4. Earlier(i, k)
                    BY <4>1, <4>3, <5>2, <5>3, EarlierOrder
                <5> QED BY <5>1, <5>4 DEF Reached
            <4> QED BY <4>2, <4>3, DeliverShown
        <3>2. CASE calls[Older] # Idle /\ ~ crossed' /\ ~ Earlier(k, calls[Older].cursor)
            BY <1>4, <3>2 DEF Reached
        <3> QED BY <1>1, <1>2, <3>1, <3>2 DEF Reached
    <2> QED BY <1>3, <2>2, <2>5, <2>6 DEF Covered
<1> QED BY <1>5, <1>6

LEMMA InitialCovered ==
    ASSUME Types, NEW c \in Calls, InitialAnswer(c)
    PROVE  Covered'
<1> DEFINE call == calls[c]
<1>1. UNCHANGED <<rows, pending, bus, missed>>
    BY InitialStale
<1>2. SUFFICES ASSUME NEW k \in Keys, rows[k] # 0, k \notin stale', Reached(k)'
               PROVE  InPlace(k)'
    BY <1>1 DEF Covered, Stored
<1>3. calls'[Older] = calls[Older] /\ crossed' = (calls[Older] # Idle) /\ call.cursor = Newest
    BY InitialCalls, InitialStale, CallFacts
<1>4. PICK j \in Shown' : Earlier(j, k)
    BY <1>2, <1>3 DEF Reached
<1>5. j \in DOMAIN Page(call)
    BY InitialView DEF Shown
<1>6. CASE k \in DOMAIN Page(call)
    BY <1>6, InitialView DEF InPlace
<1>7. CASE k \notin DOMAIN Page(call)
    <2>1. view'[k] = <<>>
        BY <1>7, InitialView
    <2>2. k \notin Had(call)
        BY <1>3, <1>4, <1>5, <1>7, PageEnds DEF Behind
    <2>3. call.seen[k] # rows[k]
        BY <1>2, <2>2 DEF Had
    <2>4. k \notin Amiss(call, view')
        BY <1>2, InitialStale
    <2>5. missed \/ Coming(k, {"added"})
        BY <1>2, <2>1, <2>3, <2>4, AmissFacts
    <2>6. Coming(k, {"added"})' <=> Coming(k, {"added"})
        BY <1>1, WayComing
    <2> QED BY <1>1, <2>5, <2>6 DEF InPlace
<1> QED BY <1>6, <1>7

LEMMA LoadOlderCovered ==
    ASSUME Types, Covered, LoadOlder
    PROVE  Covered'
<1>1. UNCHANGED <<rows, pending, bus, missed, view, stale, disturbed>>
    BY DEF LoadOlder, store, way
<1>2. /\ calls'[Older].cursor = Oldest /\ Oldest \in Shown
      /\ Reloading' <=> Reloading
    BY LoadOlderCalls
<1>3. SUFFICES ASSUME ~ disturbed, NEW k \in Keys, rows[k] # 0, k \notin stale, Reached(k)'
               PROVE  InPlace(k)'
    BY <1>1 DEF Covered, Stored
<1>4. InPlace(k) => InPlace(k)'
    BY <1>1, <1>2, WayComing DEF InPlace
<1>5. CASE \E j \in Shown : Earlier(j, k)
    <2>1. Reached(k) /\ k \in Stored
        BY <1>3, <1>5, StoredFacts DEF Reached
    <2> QED BY <1>3, <1>4, <2>1 DEF Covered
<1>6. CASE ~ Earlier(k, Oldest)
    <2>1. Oldest \in Keys
        BY <1>2 DEF Shown
    <2>2. CASE k = Oldest
        BY <1>2, <1>4, <2>2 DEF InPlace, Shown
    <2>3. CASE Earlier(Oldest, k)
        BY <1>2, <1>5, <2>3
    <2> QED BY <1>6, <2>1, <2>2, <2>3, EarlierOrder
<1> QED BY <1>1, <1>2, <1>3, <1>5, <1>6 DEF Reached, Shown

LEMMA OlderCovered ==
    ASSUME Types, Covered, OlderAnswer
    PROVE  Covered'
<1> DEFINE call == calls[Older]
<1>1. UNCHANGED <<rows, pending, bus, missed>>
    BY OlderStale
<1>2. /\ calls'[Older] = Idle /\ call # Idle /\ call.cursor \in Keys
      /\ Reloading' <=> Reloading
    BY OlderCalls
<1>3. SUFFICES ASSUME ~ disturbed', NEW k \in Keys, rows[k] # 0, k \notin stale', Reached(k)'
               PROVE  InPlace(k)'
    BY <1>1 DEF Covered, Stored
<1>4. CASE k \in DOMAIN Page(call)
    BY <1>4, OlderView DEF InPlace
<1>5. CASE k \notin DOMAIN Page(call)
    <2>1. /\ ~ disturbed /\ ~ crossed /\ k \notin stale /\ k \notin Amiss(call, view')
          /\ k \in Stored
        BY <1>3, <1>5, OlderStale, StoredFacts
    <2>2. Coming(k, {"added"})' <=> Coming(k, {"added"})
        BY <1>1, WayComing
    <2>3. view[k] # <<>> => view'[k] # <<>>
        BY OlderView
    <2>4. Reached(k) => InPlace(k)'
        BY <1>1, <1>2, <2>1, <2>2, <2>3 DEF Covered, InPlace
    <2>5. PICK j \in Shown' : Earlier(j, k)
        BY <1>2, <1>3 DEF Reached
    <2>6. CASE j \in Shown
        BY <2>4, <2>5, <2>6 DEF Reached
    <2>7. CASE j \notin Shown
        <3>1. j \in DOMAIN Page(call)
            BY <2>5, <2>7, OlderView DEF Shown
        <3>2. CASE ~ Earlier(k, call.cursor)
            BY <1>2, <2>1, <2>4, <3>2 DEF Reached
        <3>3. CASE Earlier(k, call.cursor)
            <4>1. k \notin Had(call)
                BY <1>5, <2>5, <3>1, <3>3, PageEnds, OlderPage
            <4>2. call.seen[k] # rows[k]
                BY <1>3, <4>1 DEF Had
            <4>3. view'[k] # <<>> \/ missed \/ Coming(k, {"added"})
                BY <1>3, <2>1, <4>2, AmissFacts
            <4> QED BY <1>1, <2>2, <4>3 DEF InPlace
        <3> QED BY <3>2, <3>3
    <2> QED BY <2>6, <2>7
<1> QED BY <1>4, <1>5

LEMMA CoveredStep == Grounds /\ Back /\ Covered /\ [Next]_vars => Covered'
<1> SUFFICES ASSUME Grounds, Back, Covered, [Next]_vars
             PROVE  Covered'
    OBVIOUS
<1>1. Types /\ OnlyGiven
    BY DEF Grounds
<1>2. CASE \E k \in New : Post(k) \/ Accept(k)
    <2>1. UNCHANGED <<rows, pending, bus, missed, view, calls, stale, crossed, disturbed>>
        BY <1>1, <1>2, GivenStep DEF marks
    <2>2. Reloading' <=> Reloading
        BY <2>1 DEF Reloading
    <2> QED BY <1>1, <2>1, <2>2, CoveredKept
<1>3. CASE \E w \in Writers : Writes(w)
    BY <1>1, <1>3, WritesWrote, WroteCovered
<1>4. CASE \E w \in Writers : Publish(w)
    BY <1>1, <1>4, PublishCovered
<1>5. CASE \E k \in Keys : StoreUntold(k)
    <2>1. UNCHANGED <<pending, bus, missed, view, calls, crossed, disturbed>>
          /\ stale \subseteq stale' /\ \A k \in Keys : rows'[k] # rows[k] => k \in stale'
        BY <1>1, <1>5, UntoldStep DEF marks
    <2>2. Reloading' <=> Reloading
        BY <2>1 DEF Reloading
    <2>3. \A k \in Keys \ stale' : rows'[k] = rows[k] /\ k \notin stale
        BY <2>1
    <2> QED BY <1>1, <2>1, <2>2, <2>3, CoveredKept
<1>6. CASE Deliver
    BY <1>1, <1>6, DeliverCovered
<1>7. CASE Lagged
    BY <1>1, <1>7, LaggedCalls DEF Covered, InPlace
<1>8. CASE \E c \in Calls : Moves(c)
    <2>1. UNCHANGED <<pending, bus, missed, view, crossed, disturbed>>
          /\ stale \subseteq stale' /\ \A k \in Keys : rows'[k] # rows[k] => k \in stale'
        BY <1>1, <1>8, MovesCalls, MovesRows DEF marks
    <2>2. /\ Reloading' <=> Reloading
          /\ calls'[Older] # Idle <=> calls[Older] # Idle
          /\ calls'[Older].cursor = calls[Older].cursor
        BY <1>1, <1>8, MovesKeep, CallFacts
    <2>3. \A k \in Keys \ stale' : rows'[k] = rows[k] /\ k \notin stale
        BY <2>1
    <2> QED BY <1>1, <2>1, <2>2, <2>3, CoveredKept
<1>9. CASE \E c \in Calls : InitialAnswer(c)
    BY <1>1, <1>9, InitialCovered
<1>10. CASE LoadOlder
    BY <1>1, <1>10, LoadOlderCovered
<1>11. CASE OlderAnswer
    BY <1>1, <1>11, OlderCovered
<1>12. CASE UNCHANGED vars
    <2>1. UNCHANGED <<rows, pending, bus, missed, view, calls, stale, crossed, disturbed>>
        BY <1>12 DEF vars, store, way, marks
    <2>2. Reloading' <=> Reloading
        BY <2>1 DEF Reloading
    <2> QED BY <1>1, <2>1, <2>2, CoveredKept
<1> QED
    BY <1>2, <1>3, <1>4, <1>5, <1>6, <1>7, <1>8, <1>9, <1>10, <1>11, <1>12, Steps DEF Step

LEMMA HolesInit == Init => HolesInv
<1> SUFFICES ASSUME Init
             PROVE  HolesInv
    OBVIOUS
<1>1. Shown = {} /\ calls[Older] = Idle
    BY InitFacts DEF Shown
<1>2. Covered
    BY <1>1 DEF Covered, Reached
<1> QED BY <1>2, AheadInit, BackInit DEF HolesInv

LEMMA HolesStep == Grounds /\ HolesInv /\ [Next]_vars => HolesInv'
BY AheadStep, BackStep, CoveredStep DEF HolesInv

LEMMA HolesImply == Grounds /\ HolesInv => NoHoles
<1> SUFFICES ASSUME Grounds, HolesInv, Quiet, ~ disturbed, NEW k \in Stored, k \notin stale,
                    \E j \in Shown : Earlier(j, k)
             PROVE  view[k] # <<>>
    BY DEF NoHoles
<1>1. InPlace(k)
    BY DEF HolesInv, Covered, Reached
<1>2. ~ missed /\ ~ Reloading /\ ~ Coming(k, {"added"})
    BY QuietFacts DEF Grounds
<1> QED BY <1>1, <1>2 DEF InPlace

(* NoHoles: once nothing is under way, what is on screen is one stretch of *)
(* the stored chat up to its end, which scrolling back relies on, but for  *)
(* a list that an event or a late page put out of line, and the rows the   *)
(* screen was not told of rightly.                                         *)
THEOREM NothingMissing == Spec => []NoHoles
<1>1. Init => Grounds /\ HolesInv
    BY GroundsInit, HolesInit
<1>2. Grounds /\ HolesInv /\ [Next]_vars => (Grounds /\ HolesInv)'
    BY GroundsStep, HolesStep
<1> QED BY <1>1, <1>2, HolesImply, PTL DEF Spec

-----------------------------------------------------------------------------
(* The end of the chat.                                                    *)

LEMMA EndInit == Init => EndInv
<1> SUFFICES ASSUME Init
             PROVE  EndInv
    OBVIOUS
<1>1. calls[Older].at = "idle"
    BY InitFacts, CallFacts
<1> QED BY <1>1 DEF EndInv, EndIsTheEnd

(* Reading a page: it has what is stored before the cursor, or is empty    *)
(* because nothing is.                                                     *)
LEMMA MovesEnd ==
    ASSUME Grounds, EndInv, Moves(Older)
    PROVE  EndInv'
<1> DEFINE call == calls[Older]
           cursor == call.cursor
<1>1. Types /\ OnlyGiven /\ Older \in Calls /\ rows \in [Keys -> Nat] /\ call \in CallRec
    BY CallFacts DEF Grounds, Types, TypeOK
<1>2. /\ server' = server /\ vanished' = vanished
      /\ calls' \in [Calls -> CallRec] /\ calls'[Older].cursor = cursor
      /\ cursor \in Keys /\ cursor # Newest /\ call # Idle
    BY <1>1, MovesCalls, IdleCalls, KeyFacts DEF marks, Types, WellFormed
<1>3. Stored \in SUBSET Keys /\ server \in SUBSET Keys
    BY <1>1, KeyFacts DEF Stored, Types, TypeOK
<1>4. \A k \in Keys : Behind(k, cursor) <=> Earlier(k, cursor)
    BY <1>2 DEF Behind
<1>5. ASSUME calls'[Older].seen = [k \in Keys |-> rows[k]]
      PROVE  DOMAIN Page(calls'[Older]) = LastOf(Stored, cursor)
    <2>1. Had(calls'[Older]) = Stored
        BY <1>5 DEF Had, Stored
    <2>2. DOMAIN Page(calls'[Older]) = LastOf(Had(calls'[Older]), calls'[Older].cursor)
        BY PageFacts
    <2> QED BY <1>2, <2>1, <2>2
<1>6. CASE ReadPage(Older) /\ Enough(cursor)
    <2>1. calls' = [calls EXCEPT ![Older] = Answered(call, FALSE)]
        BY <1>6 DEF ReadPage, Set
    <2>2. FALSE \in BOOLEAN
        OBVIOUS
    <2>3. Answered(call, FALSE).at = "answer"
          /\ Answered(call, FALSE).seen = [k \in Keys |-> rows[k]]
        BY <1>1, <2>2, AnsweredCall
    <2>4. calls'[Older] = Answered(call, FALSE)
        BY <1>1, <2>1 DEF Types
    <2>5. DOMAIN Page(calls'[Older]) = LastOf(Stored, cursor)
        BY <1>5, <2>3, <2>4
    <2>6. LastOf(Stored, cursor) # {}
        BY <1>2, <1>6, FS_EmptySet DEF Enough, History
    <2>7. calls'[Older].at = "answer"
        BY <2>3, <2>4
    <2> QED BY <2>5, <2>6, <2>7 DEF EndInv, EndIsTheEnd
<1>7. CASE ReadPage(Older) /\ ~ Enough(cursor)
    <2>1. calls' = [calls EXCEPT ![Older] = [call EXCEPT !.at = "fetch"]]
        BY <1>7 DEF ReadPage, Set
    <2>2. calls'[Older].at = "fetch"
        BY <1>1, <2>1, EditedCalls DEF Types
    <2> QED BY <2>2 DEF EndInv, EndIsTheEnd
<1>8. CASE Backfill(Older)
    <2>1. calls' = [calls EXCEPT ![Older] = [call EXCEPT !.at = "reread"]]
        BY <1>8 DEF Backfill, Set
    <2>2. calls'[Older].at = "reread"
        BY <1>1, <2>1, EditedCalls DEF Types
    <2>3. ASSUME cursor # Local, NEW k \in server, Earlier(k, cursor)
          PROVE  \E j \in Stored' \cap server : Earlier(j, cursor)
        <3>1. Fetched(cursor) = LastOf(server, cursor)
            BY <2>3 DEF Fetched
        <3>2. PICK j \in LastOf(server, cursor) : TRUE
            BY <1>3, <1>4, <2>3, PageIsNotEmpty
        <3>3. j \in server /\ j \in Keys /\ Earlier(j, cursor)
            BY <1>3, <1>4 DEF LastOf
        <3>4. rows'[j] # 0
            BY <1>1, <1>8, <3>1, <3>2, BackfillStep
        <3> QED BY <3>3, <3>4 DEF Stored
    <2> QED BY <1>2, <2>2, <2>3 DEF EndInv, EndIsTheEnd
<1>9. CASE BackfillFails(Older)
    <2>1. calls' = [calls EXCEPT ![Older] = [call EXCEPT !.at = "reread", !.failed = TRUE]]
        BY <1>9 DEF BackfillFails, Set
    <2>2. calls'[Older].at = "reread" /\ calls'[Older].failed
        BY <1>1, <2>1, EditedCalls DEF Types
    <2> QED BY <2>2 DEF EndInv, EndIsTheEnd
<1>10. CASE RereadPage(Older)
    <2> DEFINE failed == call.failed
    <2>1. calls' = [calls EXCEPT ![Older] = Answered(call, failed)]
        BY <1>10 DEF RereadPage, Set
    <2>2. failed \in BOOLEAN
        BY <1>1 DEF CallRec
    <2> HIDE DEF failed
    <2>3. /\ Answered(call, failed).at = "answer"
          /\ Answered(call, failed).seen = [k \in Keys |-> rows[k]]
          /\ Answered(call, failed).failed = failed
        BY <1>1, <2>2, AnsweredCall
    <2>4. calls'[Older] = Answered(call, failed)
        BY <1>1, <2>1 DEF Types
    <2>5. DOMAIN Page(calls'[Older]) = LastOf(Stored, cursor)
        BY <1>5, <2>3, <2>4
    <2>6. calls'[Older].at = "answer" /\ calls'[Older].failed = failed
        BY <2>3, <2>4
    <2>7. call.at = "reread"
        BY <1>10 DEF RereadPage
    <2>8. ASSUME ~ calls'[Older].failed, LastOf(Stored, cursor) = {}, cursor # Local, ~ vanished,
                 NEW k \in server, Earlier(k, cursor)
          PROVE  FALSE
        <3>1. ~ call.failed
            BY <2>6, <2>8 DEF failed
        <3>2. PICK j \in Stored \cap server : Earlier(j, cursor)
            BY <2>7, <2>8, <3>1 DEF EndInv
        <3> QED BY <1>3, <1>4, <2>8, <3>2, PageIsNotEmpty
    <2> QED BY <1>2, <2>5, <2>6, <2>8 DEF EndInv, EndIsTheEnd
<1>11. CASE ReadOffline(Older)
    <2>1. calls' = [calls EXCEPT ![Older] = Answered(call, TRUE)]
        BY <1>11 DEF ReadOffline, Set
    <2>2. TRUE \in BOOLEAN
        OBVIOUS
    <2>3. Answered(call, TRUE).at = "answer" /\ Answered(call, TRUE).failed
        BY <1>1, <2>2, AnsweredCall
    <2>4. calls'[Older].at = "answer" /\ calls'[Older].failed
        BY <1>1, <2>1, <2>3 DEF Types
    <2> QED BY <2>4 DEF EndInv, EndIsTheEnd
<1> QED BY <1>6, <1>7, <1>8, <1>9, <1>10, <1>11 DEF Moves

(* A step that is not loadOlder's own.  A message that Telegram has and    *)
(* had not is later than the cursor, and a row goes only with its message, *)
(* of which loadOlder's second read is told.                               *)
LEMMA EndKept ==
    ASSUME Grounds, EndInv, calls'[Older] = calls[Older], vanished => vanished',
           \A k \in server' \ server : k \in Ids /\ \A j \in given \cap Ids : j < k,
           \A k \in server \cap server' \cap Stored : rows'[k] # 0,
           \A k \in server \ server' :
                calls[Older].at = "reread" /\ Earlier(k, calls[Older].cursor) => vanished'
    PROVE  EndInv'
<1> DEFINE call == calls[Older]
<1>1. Types /\ Older \in Calls /\ given \subseteq Keys /\ \A k \in Stored : k \in Keys
    BY CallFacts DEF Grounds, Types, TypeOK, Stored
<1>2. ASSUME call.at # "idle", call.cursor # Local, NEW k \in server', Earlier(k, call.cursor)
      PROVE  k \in server
    <2>1. call # Idle
        BY <1>1, <1>2, IdleCalls
    <2>2. call.cursor \in given \cap Ids
        BY <1>1, <1>2, <2>1, KeyFacts DEF Grounds, OnlyGiven
    <2>3. SUFFICES ASSUME k \notin server
                   PROVE  FALSE
        OBVIOUS
    <2>4. k \in Ids /\ call.cursor < k
        BY <2>2, <2>3
    <2>5. Earlier(call.cursor, k)
        BY <2>2, <2>4, LaterIds
    <2>6. k \in Keys /\ call.cursor \in Keys
        BY <2>2, <2>4, KeyFacts
    <2> QED BY <1>2, <2>5, <2>6, EarlierOrder
<1>3. ASSUME call.at = "reread", ~ call.failed, call.cursor # Local, ~ vanished',
             NEW k \in server', Earlier(k, call.cursor)
      PROVE  \E j \in Stored' \cap server' : Earlier(j, call.cursor)
    <2>1. k \in server
        BY <1>2, <1>3
    <2>2. PICK j \in Stored \cap server : Earlier(j, call.cursor)
        BY <1>3, <2>1 DEF EndInv
    <2>3. j \in server'
        BY <1>3, <2>2
    <2>4. rows'[j] # 0 /\ j \in Keys
        BY <1>1, <2>2, <2>3
    <2> QED BY <2>2, <2>3, <2>4 DEF Stored
<1>4. ASSUME call.at = "answer", ~ call.failed, DOMAIN Page(call) = {}, call.cursor # Local,
             ~ vanished', NEW k \in server', Earlier(k, call.cursor)
      PROVE  FALSE
    <2>1. k \in server
        BY <1>2, <1>4
    <2> QED BY <1>4, <2>1 DEF EndInv, EndIsTheEnd
<1> QED BY <1>3, <1>4 DEF EndInv, EndIsTheEnd

LEMMA EndStep == Grounds /\ EndInv /\ [Next]_vars => EndInv'
<1> SUFFICES ASSUME Grounds, EndInv, [Next]_vars
             PROVE  EndInv'
    OBVIOUS
<1>1. Types /\ OnlyGiven /\ Older \in Calls
    BY CallFacts DEF Grounds
<1>2. \A k \in Stored : k \in Keys /\ rows[k] # 0
    BY DEF Stored
<1>3. CASE \E k \in New : Post(k) \/ Accept(k)
    <2>1. PICK k \in New : Post(k) \/ Accept(k)
        BY <1>3
    <2>2. /\ k \in Ids /\ (\A j \in given \cap Ids : j < k) /\ server' = server \cup {k}
          /\ rows' = rows /\ calls' = calls /\ vanished' = vanished
        BY <1>1, <2>1, GivenStep DEF marks
    <2> QED BY <1>2, <2>2, EndKept
<1>4. CASE \E w \in Writers : Writes(w)
    <2>1. PICK w \in Writers : Writes(w)
        BY <1>4
    <2>2. PICK new, events : Wrote(w, new, events)
        BY <1>1, <2>1, WritesWrote
    <2>3. /\ events \in Seq(Events) /\ Facts(events) /\ Write(w, new, events)
          /\ server' \subseteq server /\ (vanished => vanished')
          /\ \A k \in Keys :
                /\ k \in server' /\ rows[k] # 0 => new[k] # 0
                /\ k \in server \ server' /\ calls[Older].at = "reread"
                        /\ Earlier(k, calls[Older].cursor) => vanished'
        BY <2>2 DEF Wrote
    <2>4. rows' = new /\ calls' = calls
        BY <1>1, <2>3, WriteStep
    <2>5. server \subseteq Keys
        BY <1>1, KeyFacts DEF Types, TypeOK
    <2> QED BY <1>2, <2>3, <2>4, <2>5, EndKept
<1>5. CASE \/ \E k \in Keys : StoreUntold(k)
           \/ \E w \in Writers : Publish(w)
           \/ Deliver
           \/ \E c \in Calls : InitialAnswer(c)
           \/ Lagged
           \/ \E c \in Calls \ {Older} : Moves(c)
           \/ UNCHANGED vars
    <2>1. server' = server /\ vanished' = vanished /\ calls'[Older] = calls[Older]
          /\ \A k \in Keys : rows[k] # 0 => rows'[k] # 0
        <3>1. CASE \E k \in Keys : StoreUntold(k)
            BY <1>1, <3>1, UntoldStep DEF marks
        <3>2. CASE \E w \in Writers : Publish(w)
            BY <1>1, <3>2, PublishBus DEF marks
        <3>3. CASE Deliver
            BY <1>1, <3>3, DeliverStale
        <3>4. CASE \E c \in Calls : InitialAnswer(c)
            BY <1>1, <3>4, InitialStale, InitialCalls
        <3>5. CASE Lagged
            BY <1>1, <3>5, LaggedCalls DEF Lagged, store, ids, marks
        <3>6. CASE \E c \in Calls \ {Older} : Moves(c)
            BY <1>1, <3>6, MovesCalls, MovesRows DEF marks
        <3>7. CASE UNCHANGED vars
            BY <3>7 DEF vars, store, ids, marks
        <3> QED BY <1>5, <3>1, <3>2, <3>3, <3>4, <3>5, <3>6, <3>7
    <2> QED BY <1>2, <2>1, EndKept
<1>6. CASE Moves(Older)
    BY <1>6, MovesEnd
<1>7. CASE LoadOlder \/ OlderAnswer
    <2>1. calls'[Older].at \in {"read", "idle"}
        BY <1>1, <1>7, LoadOlderCalls, OlderCalls, CallFacts
    <2> QED BY <2>1 DEF EndInv, EndIsTheEnd
<1> QED BY <1>3, <1>4, <1>5, <1>6, <1>7, Steps DEF Step

(* EndIsTheEnd: an older page is empty, without an error, only when        *)
(* Telegram has nothing earlier, so that MessageView may stop asking: but  *)
(* for a local row as the cursor, and for a page that was fetched and      *)
(* deleted before it was read.                                             *)
THEOREM EmptyPageIsTheEnd == Spec => []EndIsTheEnd
<1>1. Init => Grounds /\ EndInv
    BY GroundsInit, EndInit
<1>2. Grounds /\ EndInv /\ [Next]_vars => (Grounds /\ EndInv)'
    BY GroundsStep, EndStep
<1>3. EndInv => EndIsTheEnd
    BY DEF EndInv
<1> QED BY <1>1, <1>2, <1>3, PTL DEF Spec
=============================================================================

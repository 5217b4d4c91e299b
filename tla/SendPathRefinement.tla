------------------------- MODULE SendPathRefinement -------------------------
(***************************************************************************)
(* SendPath implements Outbox, for any set of messages and ids: each step  *)
(* of the send path is a step of the promise, or none.                     *)
(*                                                                         *)
(* Under the refinement mapping the states a message is shown in range     *)
(* over the whole table.  The inductive invariant of SendPathProofs says   *)
(* where its rows are: one under its local id at most, pending or failed,  *)
(* and one under the id Telegram gave it, sent (ShownInParts).  What a     *)
(* step does to these two rows is then what it does to the promise.        *)
(***************************************************************************)
EXTENDS SendPathProofs

HasLocalRow(m) == localId[m] # 0 /\ db[localId[m]] # NoRow /\ db[localId[m]].msg = m
HasServerRow(m) == serverId[m] # 0 /\ db[serverId[m]] # NoRow

LocalPart(m) == IF HasLocalRow(m) THEN {db[localId[m]].state} ELSE {}
ServerPart(m) == IF HasServerRow(m) THEN {"sent"} ELSE {}

ShownInParts ==
    /\ ShownStates = [m \in Messages |-> LocalPart(m) \cup ServerPart(m)]
    /\ \A m \in Messages : "sent" \notin LocalPart(m)

-----------------------------------------------------------------------------
(* Where the rows of a message are.                                        *)

LEMMA PartsOfShown == Inv => ShownInParts
<1> SUFFICES ASSUME Inv PROVE ShownInParts  OBVIOUS
<1> USE IdFacts
<1>1. ASSUME NEW m \in Messages, HasLocalRow(m)
      PROVE  localId[m] \in LocalIds /\ db[localId[m]].state \in {"pending", "failed"}
  <2>1. localId[m] \in LocalIds  BY <1>1 DEF HasLocalRow, Inv, TypeOK
  <2> QED  BY <1>1, <2>1 DEF HasLocalRow, Inv, RowTellsDelivery
<1>2. ASSUME NEW m \in Messages, HasServerRow(m)
      PROVE  /\ serverId[m] \in ServerIds
             /\ db[serverId[m]].msg = m
             /\ db[serverId[m]].state = "sent"
  <2>1. serverId[m] \in ServerIds  BY <1>2 DEF HasServerRow, Inv, TypeOK
  <2>2. db[serverId[m]].msg \in Messages
    BY <1>2, <2>1, RowFacts DEF HasServerRow, Inv, Ids
  <2>3. /\ db[serverId[m]].state = "sent"
        /\ serverId[db[serverId[m]].msg] = serverId[m]
    BY <1>2, <2>1 DEF HasServerRow, Inv, SentIsAccepted
  <2> QED  BY <2>1, <2>2, <2>3 DEF Inv, Numbering
<1>3. ASSUME NEW m \in Messages, NEW i \in Stored(db), db[i].msg = m
      PROVE  db[i].state \in LocalPart(m) \cup ServerPart(m)
  <2>1. i \in Ids /\ db[i] # NoRow  BY DEF Stored
  <2>2. CASE i \in LocalIds
    <3>1. localId[m] = i  BY <1>3, <2>1, <2>2 DEF Inv, RowTellsDelivery
    <3> QED  BY <1>3, <2>1, <2>2, <3>1 DEF LocalPart, HasLocalRow
  <2>3. CASE i \in ServerIds
    <3>1. serverId[m] = i /\ db[i].state = "sent"
      BY <1>3, <2>1, <2>3 DEF Inv, SentIsAccepted
    <3> QED  BY <2>1, <2>3, <3>1 DEF ServerPart, HasServerRow
  <2> QED  BY <2>1, <2>2, <2>3 DEF Ids
<1>4. ASSUME NEW m \in Messages, NEW x \in LocalPart(m) \cup ServerPart(m)
      PROVE  \E i \in Stored(db) : db[i].msg = m /\ db[i].state = x
  <2>1. CASE x \in LocalPart(m)
    BY <1>1, <2>1 DEF LocalPart, HasLocalRow, Stored, Ids
  <2>2. CASE x \in ServerPart(m)
    BY <1>2, <2>2 DEF ServerPart, HasServerRow, Stored, Ids
  <2> QED  BY <2>1, <2>2
<1>5. ASSUME NEW m \in Messages
      PROVE  {db[i].state : i \in {j \in Stored(db) : db[j].msg = m}}
                = LocalPart(m) \cup ServerPart(m)
  BY <1>3, <1>4
<1>6. \A m \in Messages : "sent" \notin LocalPart(m)  BY <1>1 DEF LocalPart
<1> QED  BY <1>5, <1>6 DEF ShownInParts, ShownStates

LEMMA PartsOfShownAfter == Inv' => ShownInParts'
BY PartsOfShown, PTL

(* In front of a step and behind it, then, the two rows tell what is shown. *)
LEMMA ShownParts ==
    ASSUME Inv, [Next]_vars, NEW m \in Messages
    PROVE  /\ ShownStates[m] = LocalPart(m) \cup ServerPart(m)
           /\ ShownStates'[m] = LocalPart(m)' \cup ServerPart(m)'
           /\ "sent" \notin LocalPart(m)
<1>1. ShownInParts /\ ShownInParts'  BY PartsOfShown, PartsOfShownAfter, InvStep
<1> QED  BY <1>1 DEF ShownInParts

(* A step that moves no row and gives no id changes nothing that is shown. *)
LEMMA SameShown ==
    ASSUME UNCHANGED db PROVE ShownStates' = ShownStates
BY DEF ShownStates, Stored

(* A part depends on its id and on the row it finds there.                 *)
LEMMA SameParts ==
    ASSUME NEW m \in Messages
    PROVE  /\ localId'[m] = localId[m] /\ (localId[m] # 0 => db'[localId[m]] = db[localId[m]])
                => LocalPart(m)' = LocalPart(m)
           /\ serverId'[m] = serverId[m] /\ (serverId[m] # 0 => db'[serverId[m]] = db[serverId[m]])
                => ServerPart(m)' = ServerPart(m)
<1>1. ASSUME localId'[m] = localId[m], localId[m] # 0 => db'[localId[m]] = db[localId[m]]
      PROVE  LocalPart(m)' = LocalPart(m)
  BY <1>1 DEF LocalPart, HasLocalRow
<1>2. ASSUME serverId'[m] = serverId[m], serverId[m] # 0 => db'[serverId[m]] = db[serverId[m]]
      PROVE  ServerPart(m)' = ServerPart(m)
  BY <1>2 DEF ServerPart, HasServerRow
<1> QED  BY <1>1, <1>2

LEMMA ShownIsFunction ==
    /\ ShownStates = [m \in Messages |-> ShownStates[m]]
    /\ ShownStates' = [m \in Messages |-> ShownStates'[m]]
BY DEF ShownStates

-----------------------------------------------------------------------------
(* The steps of the delivery.                                              *)

LEMMA SubmitStep ==
    ASSUME Inv, [Next]_vars, NEW m \in Messages, SendMessage(m)
    PROVE  Promise!Submit(m)
<1> USE IdFacts
<1>1. /\ pc[m] = "new" /\ pc' = [pc EXCEPT ![m] = "sending"]
      /\ nextLocal \in LocalIds
      /\ localId' = [localId EXCEPT ![m] = nextLocal]
      /\ db' = [db EXCEPT ![nextLocal] = [msg |-> m, state |-> "pending"]]
      /\ serverId' = serverId
  BY DEF SendMessage, Goto, Upsert, server
<1>2. /\ pc \in [Messages -> Stages] /\ localId \in [Messages -> LocalIds \cup {0}]
      /\ serverId \in [Messages -> ServerIds \cup {0}] /\ db \in [Ids -> Row \cup {NoRow}]
  BY DEF Inv, TypeOK, Table
<1>3. /\ Outcome[m] = "new"
      /\ Outcome' = [Outcome EXCEPT ![m] = "sending"]
  BY <1>1, <1>2 DEF Outcome, Live, BeforeAck
<1> DEFINE displaced == {n \in Messages \ {m} : localId[n] = nextLocal}
<1>4. ASSUME NEW n \in displaced PROVE Outcome[n] \notin {"new", "sending"}
  <2>1. pc[n] # "new"  BY <1>1 DEF Inv, StageIds
  <2>2. pc[n] \notin Live
    <3>1. nextLocal \in Int  BY <1>1
    <3> QED  BY <3>1 DEF Inv, OwnRow
  <2> QED  BY <1>2, <2>1, <2>2 DEF Outcome, Stages, Live, BeforeAck
<1>5. ASSUME NEW n \in Messages PROVE ServerPart(n)' = ServerPart(n)
  <2>1. serverId[n] # 0 => db'[serverId[n]] = db[serverId[n]]  BY <1>1, <1>2 DEF Ids
  <2> QED  BY <1>1, <2>1, SameParts
<1>6. LocalPart(m)' = {"pending"}
  <2>1. [msg |-> m, state |-> "pending"] \in Row  BY DEF Row, SendState
  <2>2. localId'[m] = nextLocal /\ db'[nextLocal] = [msg |-> m, state |-> "pending"]
    BY <1>1, <1>2 DEF Ids
  <2> QED  BY <1>1, <2>1, <2>2, NoRowAssumption DEF LocalPart, HasLocalRow
<1>7. ServerPart(m) = {}  BY <1>1 DEF ServerPart, HasServerRow, Inv, StageIds
<1>8. ASSUME NEW n \in displaced PROVE LocalPart(n)' = {}
  <2>1. localId'[n] = nextLocal /\ db'[nextLocal].msg = m
    BY <1>1, <1>2 DEF Ids
  <2> QED  BY <2>1 DEF LocalPart, HasLocalRow
<1>9. ASSUME NEW n \in Messages, n # m, n \notin displaced
      PROVE  LocalPart(n)' = LocalPart(n)
  <2>1. localId'[n] = localId[n] /\ localId[n] # nextLocal  BY <1>1, <1>2, <1>9
  <2>2. localId[n] # 0 => db'[localId[n]] = db[localId[n]]
    BY <1>1, <1>2, <2>1 DEF Ids
  <2> QED  BY <2>1, <2>2, SameParts
<1>10. ASSUME NEW n \in Messages
       PROVE  ShownStates'[n] = IF n = m THEN {"pending"}
                                ELSE IF n \in displaced THEN ShownStates[n] \cap {"sent"}
                                ELSE ShownStates[n]
  <2>1. /\ ShownStates[n] = LocalPart(n) \cup ServerPart(n)
        /\ ShownStates'[n] = LocalPart(n)' \cup ServerPart(n)'
        /\ "sent" \notin LocalPart(n)
    BY ShownParts
  <2>2. CASE n = m  BY <1>5, <1>6, <1>7, <2>1, <2>2
  <2>3. CASE n \in displaced
    <3>1. ServerPart(n) \subseteq {"sent"}  BY DEF ServerPart
    <3> QED  BY <1>5, <1>8, <2>1, <2>3, <3>1
  <2>4. CASE n # m /\ n \notin displaced  BY <1>5, <1>9, <2>1, <2>4
  <2> QED  BY <2>2, <2>3, <2>4
<1>11. ShownStates' = [n \in Messages |->
                          IF n = m THEN {"pending"}
                          ELSE IF n \in displaced THEN ShownStates[n] \cap {"sent"}
                          ELSE ShownStates[n]]
  BY <1>10, ShownIsFunction
<1>12. displaced \in SUBSET (Messages \ {m})  OBVIOUS
<1> HIDE DEF displaced
<1> QED  BY <1>1, <1>3, <1>4, <1>11, <1>12 DEF Promise!Submit

LEMMA AcceptStep ==
    ASSUME Inv, [Next]_vars, NEW m \in Messages, ServerAccepts(m)
    PROVE  Promise!Accept(m)
<1> USE IdFacts
<1>1. PICK s \in ServerIds :
        s > newest /\ serverId' = [serverId EXCEPT ![m] = s]
  BY DEF ServerAccepts
<1>2. /\ pc[m] = "sending" /\ pc' = [pc EXCEPT ![m] = "accepted"]
      /\ db' = db
  BY DEF ServerAccepts, Goto, store
<1>3. /\ pc \in [Messages -> Stages]
      /\ serverId \in [Messages -> ServerIds \cup {0}]
      /\ newest \in ServerIds \cup {0}
  BY DEF Inv, TypeOK
<1>4. Outcome[m] = "sending" /\ Outcome' = Outcome
  BY <1>2, <1>3 DEF Outcome, Live, BeforeAck
<1>5. serverId[m] = 0  BY <1>2 DEF Inv, StageIds
<1>6. \A n \in Messages : serverId[n] < s
  BY <1>1, <1>3 DEF Inv, Numbering
<1>7. ShownStates' = ShownStates  BY <1>2, SameShown
<1> QED  BY <1>1, <1>4, <1>5, <1>6, <1>7 DEF Promise!Accept

LEMMA AcknowledgeStep ==
    ASSUME Inv, [Next]_vars, NEW m \in Messages, TouchPreview(m)
    PROVE  Promise!Acknowledge(m)
<1>1. /\ pc[m] = "confirmed" /\ pc' = [pc EXCEPT ![m] = "sent"]
      /\ db' = db /\ serverId' = serverId
  BY DEF TouchPreview, Goto, server
<1>2. pc \in [Messages -> Stages]  BY DEF Inv, TypeOK
<1>3. Outcome[m] = "sending" /\ Outcome' = [Outcome EXCEPT ![m] = "sent"]
  BY <1>1, <1>2 DEF Outcome, Live, BeforeAck
<1>4. serverId[m] # 0  BY <1>1 DEF Inv, StageIds
<1>5. ShownStates' = ShownStates  BY <1>1, SameShown
<1> QED  BY <1>1, <1>3, <1>4, <1>5 DEF Promise!Acknowledge, Promise!Ends

(* confirm_sent finds the pending row and the server id free, or does      *)
(* nothing.                                                                *)
LEMMA RekeyStep ==
    ASSUME Inv, [Next]_vars, NEW m \in Messages, Confirm(m)
    PROVE  Promise!Rekey(m) \/ UNCHANGED Promise!vars
<1> USE IdFacts
<1> DEFINE l == localId[m]
           s == serverId[m]
<1>1. /\ pc[m] = "replied" /\ pc' = [pc EXCEPT ![m] = "confirmed"]
      /\ db' = ConfirmSent(db, l, s)
      /\ localId' = localId /\ serverId' = serverId
  BY DEF Confirm, Goto, server
<1>2. /\ pc \in [Messages -> Stages] /\ localId \in [Messages -> LocalIds \cup {0}]
      /\ serverId \in [Messages -> ServerIds \cup {0}] /\ db \in [Ids -> Row \cup {NoRow}]
  BY DEF Inv, TypeOK, Table
<1>3. Outcome[m] = "sending" /\ Outcome' = Outcome
  BY <1>1, <1>2 DEF Outcome, Live, BeforeAck
<1>4. l \in LocalIds /\ s \in ServerIds  BY <1>1, <1>2 DEF Inv, StageIds
<1>5. CASE db[l] # NoRow /\ db[s] = NoRow
  <2>1. db[l].msg = m  BY <1>1, <1>5 DEF Inv, OwnRow, Live, BeforeAck
  <2>2. db[l].state = "pending"
    BY <1>1, <1>4, <1>5, <2>1 DEF Inv, RowTellsDelivery
  <2>3. db' = [db EXCEPT ![s] = [msg |-> m, state |-> "sent"], ![l] = NoRow]
    BY <1>1, <1>5, <2>1 DEF ConfirmSent
  <2>4. [msg |-> m, state |-> "sent"] # NoRow
    BY NoRowAssumption DEF Row, SendState
  <2>5. db'[l] = NoRow /\ db'[s] # NoRow  BY <1>2, <1>4, <2>3, <2>4 DEF Ids
  <2>6. LocalPart(m) = {"pending"} /\ ServerPart(m) = {}
    BY <1>4, <1>5, <2>1, <2>2 DEF LocalPart, HasLocalRow, ServerPart, HasServerRow
  <2>7. LocalPart(m)' = {} /\ ServerPart(m)' = {"sent"}
    BY <1>1, <1>4, <2>5 DEF LocalPart, HasLocalRow, ServerPart, HasServerRow
  <2>8. ASSUME NEW n \in Messages, n # m
        PROVE  LocalPart(n)' = LocalPart(n) /\ ServerPart(n)' = ServerPart(n)
    <3>1. serverId[n] # s  BY <1>4, <2>8 DEF Inv, Numbering
    <3>2. serverId[n] # 0 => db'[serverId[n]] = db[serverId[n]]
      BY <1>2, <1>4, <2>3, <3>1 DEF Ids
    <3>3. ServerPart(n)' = ServerPart(n)  BY <1>1, <3>2, SameParts
    <3>4. CASE localId[n] = l
      <4>1. LocalPart(n) = {}  BY <2>1, <2>8, <3>4 DEF LocalPart, HasLocalRow
      <4>2. LocalPart(n)' = {}  BY <1>1, <2>5, <3>4 DEF LocalPart, HasLocalRow
      <4> QED  BY <3>3, <4>1, <4>2
    <3>5. CASE localId[n] # l
      <4>1. localId[n] # 0 => db'[localId[n]] = db[localId[n]]
        BY <1>2, <1>4, <2>3, <3>5 DEF Ids
      <4> QED  BY <1>1, <3>3, <4>1, SameParts
    <3> QED  BY <3>4, <3>5
  <2>9. ASSUME NEW n \in Messages
        PROVE  ShownStates'[n] = IF n = m THEN {"sent"} ELSE ShownStates[n]
    BY <2>7, <2>8, ShownParts
  <2>10. ShownStates' = [ShownStates EXCEPT ![m] = {"sent"}]
    BY <2>9, ShownIsFunction
  <2>11. "pending" \in ShownStates[m]  BY <2>6, ShownParts
  <2> QED  BY <1>1, <1>3, <1>4, <2>10, <2>11 DEF Promise!Rekey
<1>6. CASE ~(db[l] # NoRow /\ db[s] = NoRow)
  <2>1. db' = db  BY <1>1, <1>6 DEF ConfirmSent
  <2>2. ShownStates' = ShownStates  BY <2>1, SameShown
  <2> QED  BY <1>1, <1>3, <2>2 DEF Promise!vars
<1> QED  BY <1>5, <1>6

LEMMA FailStep ==
    ASSUME Inv, [Next]_vars, NEW m \in Messages, FailRow(m)
    PROVE  Promise!Fail(m)
<1> USE IdFacts
<1> DEFINE l == localId[m]
<1>1. /\ pc[m] = "erred" /\ pc' = [pc EXCEPT ![m] = "failed"]
      /\ db' = MarkFailed(db, l)
      /\ localId' = localId /\ serverId' = serverId
  BY DEF FailRow, Goto, server
<1>2. /\ pc \in [Messages -> Stages] /\ localId \in [Messages -> LocalIds \cup {0}]
      /\ serverId \in [Messages -> ServerIds \cup {0}] /\ db \in [Ids -> Row \cup {NoRow}]
  BY DEF Inv, TypeOK, Table
<1>3. Outcome[m] = "sending" /\ Outcome' = [Outcome EXCEPT ![m] = "failed"]
  BY <1>1, <1>2 DEF Outcome, Live, BeforeAck
<1>4. l \in LocalIds  BY <1>1, <1>2 DEF Inv, StageIds
<1>5. ASSUME NEW n \in Messages PROVE ServerPart(n)' = ServerPart(n)
  <2>1. serverId[n] # 0 => serverId[n] # l /\ serverId[n] \in Ids  BY <1>2, <1>4 DEF Ids
  <2>2. serverId[n] # 0 => db'[serverId[n]] = db[serverId[n]]
    BY <1>1, <1>2, <2>1 DEF MarkFailed
  <2> QED  BY <1>1, <2>2, SameParts
<1>6. db[l] # NoRow => db[l].msg = m /\ db[l].state = "pending"
  <2>1. db[l] # NoRow => db[l].msg = m  BY <1>1 DEF Inv, OwnRow, Live
  <2> QED  BY <1>1, <1>4, <2>1 DEF Inv, RowTellsDelivery
<1>7. ASSUME NEW n \in Messages
      PROVE  LocalPart(n)' = IF n = m /\ db[l] # NoRow THEN {"failed"} ELSE LocalPart(n)
  <2>1. CASE db[l] = NoRow
    BY <1>1, <2>1 DEF LocalPart, HasLocalRow, MarkFailed
  <2>2. CASE db[l] # NoRow
    <3>1. db' = [db EXCEPT ![l] = [msg |-> m, state |-> "failed"]]
      BY <1>1, <1>6, <2>2 DEF MarkFailed
    <3>2. [msg |-> m, state |-> "failed"] # NoRow
      BY NoRowAssumption DEF Row, SendState
    <3>3. db'[l] = [msg |-> m, state |-> "failed"]  BY <1>2, <1>4, <3>1 DEF Ids
    <3>4. CASE n = m
      BY <1>1, <1>4, <2>2, <3>2, <3>3, <3>4 DEF LocalPart, HasLocalRow
    <3>5. CASE n # m /\ localId[n] = l
      BY <1>1, <1>6, <2>2, <3>3, <3>5 DEF LocalPart, HasLocalRow
    <3>6. CASE n # m /\ localId[n] # l
      <4>1. localId[n] # 0 => db'[localId[n]] = db[localId[n]]
        BY <1>2, <1>4, <3>1, <3>6 DEF Ids
      <4> QED  BY <1>1, <3>6, <4>1, SameParts
    <3> QED  BY <3>4, <3>5, <3>6
  <2> QED  BY <2>1, <2>2
<1>8. LocalPart(m) = IF db[l] # NoRow THEN {"pending"} ELSE {}
  BY <1>4, <1>6 DEF LocalPart, HasLocalRow
<1>9. ServerPart(m) \subseteq {"sent"}  BY DEF ServerPart
<1>10. ASSUME NEW n \in Messages
       PROVE  ShownStates'[n] =
                IF n = m /\ "pending" \in ShownStates[m]
                THEN (ShownStates[m] \ {"pending"}) \cup {"failed"} ELSE ShownStates[n]
  <2>1. /\ ShownStates[n] = LocalPart(n) \cup ServerPart(n)
        /\ ShownStates'[n] = LocalPart(n)' \cup ServerPart(n)'
    BY ShownParts
  <2>2. CASE n = m  BY <1>5, <1>7, <1>8, <1>9, <2>1, <2>2
  <2>3. CASE n # m  BY <1>5, <1>7, <2>1, <2>3
  <2> QED  BY <2>2, <2>3
<1>11. ShownStates' = [ShownStates EXCEPT ![m] =
                          IF "pending" \in @ THEN (@ \ {"pending"}) \cup {"failed"} ELSE @]
  BY <1>10, ShownIsFunction
<1> QED  BY <1>1, <1>3, <1>11 DEF Promise!Fail, Promise!Ends

-----------------------------------------------------------------------------
(* The steps of the other callers.                                         *)

(* Backfill and sync store a copy of a message Telegram accepted.          *)
LEMMA CopyStep ==
    ASSUME Inv, [Next]_vars, NEW s \in Accepted,
           db' = Upsert(db, s, ServerCopy(s)),
           UNCHANGED <<pc, localId, serverId>>
    PROVE  \E m \in Messages : Promise!Copy(m)
<1> USE IdFacts
<1> PICK m \in Messages : m = ServerCopy(s).msg  BY ServerCopyFacts
<1>1. /\ serverId[m] = s
      /\ ServerCopy(s) # NoRow
      /\ s \in ServerIds
  BY ServerCopyFacts, AcceptedIds DEF Inv
<1>2. /\ localId \in [Messages -> LocalIds \cup {0}]
      /\ serverId \in [Messages -> ServerIds \cup {0}] /\ db \in [Ids -> Row \cup {NoRow}]
  BY DEF Inv, TypeOK, Table
<1>3. db' = [db EXCEPT ![s] = ServerCopy(s)]  BY DEF Upsert
<1>4. ASSUME NEW n \in Messages PROVE LocalPart(n)' = LocalPart(n)
  <2>1. localId[n] # 0 => localId[n] # s /\ localId[n] \in Ids  BY <1>1, <1>2 DEF Ids
  <2>2. localId[n] # 0 => db'[localId[n]] = db[localId[n]]  BY <1>2, <1>3, <2>1
  <2> QED  BY <2>2, SameParts
<1>5. ServerPart(m)' = {"sent"}
  BY <1>1, <1>2, <1>3 DEF ServerPart, HasServerRow, Ids
<1>6. ASSUME NEW n \in Messages, n # m PROVE ServerPart(n)' = ServerPart(n)
  <2>1. serverId[n] # s  BY <1>1, <1>6 DEF Inv, Numbering
  <2>2. serverId[n] # 0 => db'[serverId[n]] = db[serverId[n]]  BY <1>2, <1>3, <2>1 DEF Ids
  <2> QED  BY <2>2, SameParts
<1>7. ServerPart(m) \subseteq {"sent"}  BY DEF ServerPart
<1>8. ASSUME NEW n \in Messages
      PROVE  ShownStates'[n] =
                IF n = m THEN ShownStates[m] \cup {"sent"} ELSE ShownStates[n]
  <2>1. /\ ShownStates[n] = LocalPart(n) \cup ServerPart(n)
        /\ ShownStates'[n] = LocalPart(n)' \cup ServerPart(n)'
    BY ShownParts
  <2>2. CASE n = m  BY <1>4, <1>5, <1>7, <2>1, <2>2
  <2>3. CASE n # m  BY <1>4, <1>6, <2>1, <2>3
  <2> QED  BY <2>2, <2>3
<1>9. ShownStates' = [ShownStates EXCEPT ![m] = @ \cup {"sent"}]
  BY <1>1, <1>8, ShownIsFunction
<1>10. Outcome' = Outcome  BY DEF Outcome
<1>11. serverId[m] # 0  BY <1>1
<1> QED  BY <1>9, <1>10, <1>11 DEF Promise!Copy

(* A row that is deleted was the only one of its message in its state.     *)
LEMMA ForgetStep ==
    ASSUME Inv, [Next]_vars, NEW i \in Ids,
           db' = DeleteRows(db, {i}),
           UNCHANGED <<pc, localId, serverId>>
    PROVE  \/ \E m \in Messages : Promise!Forget(m)
           \/ UNCHANGED Promise!vars
<1> USE IdFacts
<1>1. Outcome' = Outcome  BY DEF Outcome
<1>2. /\ localId \in [Messages -> LocalIds \cup {0}]
      /\ serverId \in [Messages -> ServerIds \cup {0}] /\ db \in [Ids -> Row \cup {NoRow}]
  BY DEF Inv, TypeOK, Table
<1>3. /\ db' = [j \in Ids |-> IF j = i THEN NoRow ELSE db[j]]
      /\ db'[i] = NoRow
      /\ \A j \in Ids : j # i => db'[j] = db[j]
  BY DEF DeleteRows
<1>4. CASE db[i] = NoRow
  <2>1. db' = db  BY <1>2, <1>3, <1>4
  <2>2. ShownStates' = ShownStates  BY <2>1, SameShown
  <2> QED  BY <1>1, <2>2 DEF Promise!vars
<1>5. CASE db[i] # NoRow
  <2>1. PICK m \in Messages : m = db[i].msg  BY <1>5, RowFacts DEF Inv
  <2> PICK state : state = db[i].state  OBVIOUS
  <2>2. /\ LocalPart(m) = IF i \in LocalIds THEN {state} ELSE LocalPart(m)
        /\ LocalPart(m)' = IF i \in LocalIds THEN {} ELSE LocalPart(m)
        /\ ServerPart(m) = IF i \in ServerIds THEN {state} ELSE ServerPart(m)
        /\ ServerPart(m)' = IF i \in ServerIds THEN {} ELSE ServerPart(m)
    <3>1. CASE i \in LocalIds
      <4>1. localId[m] = i  BY <1>5, <2>1, <3>1 DEF Inv, RowTellsDelivery
      <4>2. i \notin ServerIds  BY <3>1
      <4>3. LocalPart(m) = {state} /\ LocalPart(m)' = {}
        BY <1>3, <1>5, <2>1, <3>1, <4>1 DEF LocalPart, HasLocalRow
      <4>4. ServerPart(m)' = ServerPart(m)
        <5>1. serverId[m] # 0 => serverId[m] # i /\ serverId[m] \in Ids
          BY <1>2, <4>2 DEF Ids
        <5> QED  BY <1>3, <5>1, SameParts
      <4> QED  BY <3>1, <4>2, <4>3, <4>4
    <3>2. CASE i \in ServerIds
      <4>1. serverId[m] = i /\ state = "sent"  BY <1>5, <2>1, <3>2 DEF Inv, SentIsAccepted
      <4>2. i \notin LocalIds  BY <3>2
      <4>3. ServerPart(m) = {state} /\ ServerPart(m)' = {}
        BY <1>3, <1>5, <2>1, <3>2, <4>1 DEF ServerPart, HasServerRow
      <4>4. LocalPart(m)' = LocalPart(m)
        <5>1. localId[m] # 0 => localId[m] # i /\ localId[m] \in Ids
          BY <1>2, <4>2 DEF Ids
        <5> QED  BY <1>3, <5>1, SameParts
      <4> QED  BY <3>2, <4>2, <4>3, <4>4
    <3> QED  BY <3>1, <3>2 DEF Ids
  <2>3. i \in ServerIds => state = "sent"  BY <1>5 DEF Inv, SentIsAccepted
  <2>4. ServerPart(m) \subseteq {"sent"}  BY DEF ServerPart
  <2>5. ASSUME NEW n \in Messages, n # m
        PROVE  LocalPart(n)' = LocalPart(n) /\ ServerPart(n)' = ServerPart(n)
    <3>1. LocalPart(n)' = LocalPart(n)
      <4>1. CASE localId[n] = i
        <5>1. LocalPart(n) = {}  BY <2>1, <2>5, <4>1 DEF LocalPart, HasLocalRow
        <5>2. LocalPart(n)' = {}  BY <1>3, <4>1 DEF LocalPart, HasLocalRow
        <5> QED  BY <5>1, <5>2
      <4>2. CASE localId[n] # i
        <5>1. localId[n] # 0 => localId[n] \in Ids  BY <1>2 DEF Ids
        <5> QED  BY <1>3, <4>2, <5>1, SameParts
      <4> QED  BY <4>1, <4>2
    <3>2. serverId[n] # 0 => serverId[n] # i
      <4>1. CASE i \in ServerIds
        <5>1. serverId[m] = i  BY <1>5, <2>1, <4>1 DEF Inv, SentIsAccepted
        <5> QED  BY <2>1, <2>5, <5>1 DEF Inv, Numbering
      <4>2. CASE i \notin ServerIds  BY <1>2, <4>2
      <4> QED  BY <4>1, <4>2
    <3>3. ServerPart(n)' = ServerPart(n)
      <4>1. serverId[n] # 0 => serverId[n] \in Ids  BY <1>2 DEF Ids
      <4> QED  BY <1>3, <3>2, <4>1, SameParts
    <3> QED  BY <3>1, <3>3
  <2>6. /\ ShownStates[m] = LocalPart(m) \cup ServerPart(m)
        /\ ShownStates'[m] = LocalPart(m)' \cup ServerPart(m)'
        /\ "sent" \notin LocalPart(m)
    BY <2>1, ShownParts
  <2>7. state \in ShownStates[m] /\ ShownStates'[m] = ShownStates[m] \ {state}
    <3>1. CASE i \in LocalIds
      <4>1. i \notin ServerIds  BY <3>1
      <4>2. LocalPart(m) = {state} /\ LocalPart(m)' = {} /\ ServerPart(m)' = ServerPart(m)
        BY <2>2, <3>1, <4>1
      <4>3. state # "sent"  BY <2>6, <4>2
      <4> QED  BY <2>4, <2>6, <4>2, <4>3
    <3>2. CASE i \in ServerIds
      <4>1. i \notin LocalIds  BY <3>2
      <4>2. ServerPart(m) = {state} /\ ServerPart(m)' = {} /\ LocalPart(m)' = LocalPart(m)
        BY <2>2, <3>2, <4>1
      <4> QED  BY <2>3, <2>6, <3>2, <4>2
    <3> QED  BY <3>1, <3>2 DEF Ids
  <2>8. ASSUME NEW n \in Messages, n # m PROVE ShownStates'[n] = ShownStates[n]
    BY <2>5, <2>8, ShownParts
  <2>9. ShownStates' = [ShownStates EXCEPT ![m] = @ \ {state}]
    BY <2>1, <2>7, <2>8, ShownIsFunction
  <2>10. Promise!Forget(m)
    BY <1>1, <2>7, <2>9 DEF Promise!Forget
  <2> QED  BY <2>1, <2>10
<1> QED  BY <1>4, <1>5

LEMMA StopStep ==
    ASSUME Inv, Crash PROVE Promise!Stop
<1>1. pc' = [m \in Messages |-> IF pc[m] \in Live THEN "dead" ELSE pc[m]]
  BY DEF Crash, AfterCrash
<1>2. serverId' = serverId /\ db' = db  BY DEF Crash, server, store
<1>3. ShownStates' = ShownStates  BY <1>2, SameShown
<1>4. Outcome' = [m \in Messages |->
                     IF Outcome[m] = "sending" THEN "stopped" ELSE Outcome[m]]
  <2>1. pc \in [Messages -> Stages]  BY DEF Inv, TypeOK
  <2> QED  BY <1>1, <2>1 DEF Outcome, Stages, Live, BeforeAck
<1> QED  BY <1>2, <1>3, <1>4 DEF Promise!Stop

(* What is left moves no row, gives no id and begins or ends no delivery.  *)
LEMMA SilentStep ==
    ASSUME Inv,
           \/ \E m \in Messages : SendFails(m) \/ Reply(m) \/ ReplyLost(m)
           \/ UNCHANGED <<pc, serverId, db>>
    PROVE  UNCHANGED Promise!vars
<1>1. serverId' = serverId /\ db' = db
  BY DEF SendFails, Reply, ReplyLost, server, store
<1>2. Outcome' = Outcome
  <2>1. pc \in [Messages -> Stages]  BY DEF Inv, TypeOK
  <2> QED
    BY <2>1 DEF Outcome, SendFails, Reply, ReplyLost, Goto, Live, BeforeAck
<1>3. ShownStates' = ShownStates  BY <1>1, SameShown
<1> QED  BY <1>1, <1>2, <1>3 DEF Promise!vars

-----------------------------------------------------------------------------
(* The refinement.                                                         *)

LEMMA PromiseInit == Init => Promise!Init
BY DEF Init, Promise!Init, Outcome, ShownStates, Stored, Live, BeforeAck

LEMMA PromiseStep == Inv /\ [Next]_vars => [Promise!Next]_Promise!vars
<1> SUFFICES ASSUME Inv, [Next]_vars PROVE [Promise!Next]_Promise!vars  OBVIOUS
<1>1. ASSUME NEW m \in Messages, SendMessage(m) PROVE Promise!Next
  BY <1>1, SubmitStep DEF Promise!Next
<1>2. ASSUME NEW m \in Messages, ServerAccepts(m) PROVE Promise!Next
  BY <1>2, AcceptStep DEF Promise!Next
<1>3. ASSUME NEW m \in Messages, Confirm(m) PROVE [Promise!Next]_Promise!vars
  BY <1>3, RekeyStep DEF Promise!Next
<1>4. ASSUME NEW m \in Messages, TouchPreview(m) PROVE Promise!Next
  BY <1>4, AcknowledgeStep DEF Promise!Next
<1>5. ASSUME NEW m \in Messages, FailRow(m) PROVE Promise!Next
  BY <1>5, FailStep DEF Promise!Next
<1>6. ASSUME NEW m \in Messages, SendFails(m) \/ Reply(m) \/ ReplyLost(m)
      PROVE  [Promise!Next]_Promise!vars
  BY <1>6, SilentStep
<1>7. CASE DeleteLocally
  <2>1. /\ del.id \in Ids /\ db' = DeleteRows(db, {del.id})
        /\ UNCHANGED <<pc, localId, serverId>>
    BY <1>7 DEF DeleteLocally, delivery, server, Inv, InHand
  <2> QED  BY <2>1, ForgetStep DEF Promise!Next
<1>8. CASE FillUpsert
  <2>1. PICK s \in fill.todo : db' = Upsert(db, s, ServerCopy(s))
    BY <1>8 DEF FillUpsert
  <2>2. s \in Accepted  BY <2>1 DEF Inv, InHand
  <2>3. UNCHANGED <<pc, localId, serverId>>
    BY <1>8 DEF FillUpsert, delivery, server
  <2> QED  BY <2>1, <2>2, <2>3, CopyStep DEF Promise!Next
<1>9. ASSUME NEW s \in ServerIds, SyncUpsert(s) PROVE Promise!Next
  <2>1. /\ s \in Accepted /\ db' = Upsert(db, s, ServerCopy(s))
        /\ UNCHANGED <<pc, localId, serverId>>
    BY <1>9 DEF SyncUpsert, delivery, server
  <2> QED  BY <2>1, CopyStep DEF Promise!Next
<1>10. ASSUME NEW s \in ServerIds, SyncDelete(s) PROVE [Promise!Next]_Promise!vars
  <2>1. /\ s \in Ids /\ db' = DeleteRows(db, {s})
        /\ UNCHANGED <<pc, localId, serverId>>
    BY <1>10 DEF SyncDelete, delivery, server, Ids
  <2> QED  BY <2>1, ForgetStep DEF Promise!Next
<1>11. CASE Crash
  BY <1>11, StopStep DEF Promise!Next
<1>12. CASE \/ \E i \in Ids : DeleteBegin(i)
            \/ DeleteRpcOk \/ DeleteRpcErr \/ DeleteReplyLost
            \/ FillBegin \/ FillReply \/ FillError
            \/ SyncTouch \/ SeedFetch \/ SeedPreview \/ Idle \/ UNCHANGED vars
  <2>1. UNCHANGED <<pc, serverId, db>>
    BY <1>12
    DEF DeleteBegin, DeleteRpcOk, DeleteRpcErr, DeleteReplyLost, FillBegin, FillReply,
        FillError, SyncTouch, SeedFetch, SeedPreview, Idle, vars, delivery, server, store
  <2> QED  BY <2>1, SilentStep
<1>13. CASE SeedRow
  <2>1. /\ sync.id \in Accepted /\ db' = Upsert(db, sync.id, ServerCopy(sync.id))
        /\ UNCHANGED <<pc, localId, serverId>>
    BY <1>13 DEF SeedRow, delivery, server, Inv, InHand
  <2> QED  BY <2>1, CopyStep DEF Promise!Next
<1> QED
  BY <1>1, <1>2, <1>3, <1>4, <1>5, <1>6, <1>7, <1>8, <1>9, <1>10, <1>11, <1>12, <1>13
  DEF Next, Deliver

(* The send path keeps, for any messages and ids, and through any number   *)
(* of deletes, backfills, updates and restarts, what Outbox promises: one  *)
(* submission, at most one acceptance, one final outcome, and the states   *)
(* shown follow them.                                                      *)
THEOREM SendPathImplementsOutbox == Spec => ImplementsOutbox
<1>1. Spec => Init /\ [][Next]_vars /\ []Inv  BY Invariance, PTL DEF Spec
<1> QED
  BY <1>1, PromiseInit, PromiseStep, PTL DEF ImplementsOutbox, Promise!Spec
=============================================================================

--------------------------- MODULE SendPathProofs ---------------------------
(***************************************************************************)
(* The safety invariants of SendPath, for any set of messages and ids, any *)
(* page size and any number of restarts.                                   *)
(*                                                                         *)
(* None of them is inductive alone.  What they lean on: Telegram numbers   *)
(* messages without repetition (Numbering), a stage of the delivery fixes  *)
(* which ids exist (StageIds), a running delivery shares its local row     *)
(* with nobody (OwnRow: the ids of one run are strictly decreasing), and   *)
(* what the other callers hold in their hands came from Telegram (InHand). *)
(***************************************************************************)
EXTENDS SendPath, TLAPS

Numbering ==
    /\ \A m \in Messages : serverId[m] <= newest
    /\ \A m, n \in Messages : serverId[m] # 0 /\ serverId[m] = serverId[n] => m = n

StageIds ==
    \A m \in Messages :
        /\ pc[m] = "new" => localId[m] = 0
        /\ pc[m] # "new" => localId[m] # 0
        /\ pc[m] \in {"new", "sending"} => serverId[m] = 0
        /\ pc[m] \in {"accepted", "replied", "confirmed", "sent"} => serverId[m] # 0

OwnRow ==
    \A m \in Messages : pc[m] \in Live =>
        /\ localId[m] > nextLocal
        /\ db[localId[m]] # NoRow => db[localId[m]].msg = m

InHand ==
    /\ fill.todo \subseteq Accepted
    /\ sync.id \in Accepted \cup {0}
    /\ sync.at \in {"touch", "row"} => sync.id # 0
    /\ del.at = "local" /\ del.id \in ServerIds => del.id \in unsent
    /\ del.at # "idle" => del.id \in Ids
    /\ del.at = "rpc" => del.id \in ServerIds

(* A row under a server id was stored by sync or backfill, or by the       *)
(* confirm_sent of the delivery itself.                                    *)
StoredBy ==
    \A s \in ServerIds : db[s] # NoRow =>
        s \in copied \/ pc[db[s].msg] \notin BeforeAck

Inv ==
    /\ TypeOK /\ Numbering /\ StageIds /\ OwnRow /\ InHand /\ StoredBy
    /\ SentIsAccepted /\ RowTellsDelivery /\ NothingLost /\ PreviewNewest

-----------------------------------------------------------------------------
(* Facts about the ids and the operators of the store.                     *)

LEMMA IdFacts ==
    /\ LocalIds \cap ServerIds = {}
    /\ 0 \notin Ids
    /\ \A i \in LocalIds : i \in Int /\ i < 0
    /\ \A s \in ServerIds : s \in Nat /\ s > 0
BY LocalIdsAssumption, ServerIdsAssumption DEF Ids

(* A row of the table is either absent or a record of a message.           *)
LEMMA RowFacts ==
    ASSUME TypeOK, NEW i \in Ids, db[i] # NoRow
    PROVE  db[i] \in Row /\ db[i].msg \in Messages /\ db[i].state \in SendState
<1>1. db[i] \in Row  BY DEF TypeOK, Table
<1> QED  BY <1>1 DEF Row

(* The copy Telegram holds of a server id is the message it gave that id.  *)
LEMMA ServerCopyFacts ==
    ASSUME NEW s \in Accepted
    PROVE  /\ ServerCopy(s) \in Row
           /\ ServerCopy(s) # NoRow
           /\ ServerCopy(s).state = "sent"
           /\ ServerCopy(s).msg \in Messages
           /\ serverId[ServerCopy(s).msg] = s
<1>1. PICK m \in Messages : serverId[m] = s  BY DEF Accepted
<1>2. /\ ServerCopy(s).msg \in Messages
      /\ serverId[ServerCopy(s).msg] = s
  BY <1>1 DEF ServerCopy
<1>3. ServerCopy(s) \in Row  BY <1>2 DEF ServerCopy, Row, SendState
<1> QED  BY <1>2, <1>3, NoRowAssumption DEF ServerCopy

LEMMA AcceptedIds ==
    ASSUME TypeOK PROVE Accepted \subseteq ServerIds
BY DEF TypeOK, Accepted

(* Every statement of the store keeps a table a table.                     *)
LEMMA StoreTypes ==
    ASSUME NEW t \in Table
    PROVE  /\ \A i \in Ids, r \in Row : Upsert(t, i, r) \in Table
           /\ \A S : DeleteRows(t, S) \in Table
           /\ \A i, s \in Ids : ConfirmSent(t, i, s) \in Table
           /\ \A i \in Ids : MarkFailed(t, i) \in Table
<1>1. \A i \in Ids : t[i] # NoRow => t[i].msg \in Messages
  BY DEF Table, Row
<1>2. ASSUME NEW i \in Ids, NEW s \in Ids PROVE ConfirmSent(t, i, s) \in Table
  <2>1. CASE t[i] # NoRow /\ t[s] = NoRow
    <3>1. [msg |-> t[i].msg, state |-> "sent"] \in Row
      BY <1>1, <2>1 DEF Row, SendState
    <3> QED  BY <2>1, <3>1 DEF ConfirmSent, Table
  <2>2. CASE ~(t[i] # NoRow /\ t[s] = NoRow)
    BY <2>2 DEF ConfirmSent
  <2> QED  BY <2>1, <2>2
<1>3. ASSUME NEW i \in Ids PROVE MarkFailed(t, i) \in Table
  <2>1. CASE t[i] # NoRow
    <3>1. [msg |-> t[i].msg, state |-> "failed"] \in Row
      BY <1>1, <2>1 DEF Row, SendState
    <3> QED  BY <2>1, <3>1 DEF MarkFailed, Table
  <2>2. CASE t[i] = NoRow
    BY <2>2 DEF MarkFailed
  <2> QED  BY <2>1, <2>2
<1> QED  BY <1>2, <1>3 DEF Upsert, DeleteRows, Table

-----------------------------------------------------------------------------
(* Type correctness.                                                       *)

LEMMA TypeInit == Init => TypeOK
<1> SUFFICES ASSUME Init PROVE TypeOK  OBVIOUS
<1>1. db \in Table  BY DEF Init, Table
<1>2. preview \in Preview  BY DEF Init, Preview, NoPreview
<1> QED
  BY <1>1, <1>2, MaxDisturbAssumption
  DEF Init, TypeOK, Stages, Live, BeforeAck, NoDelete, NoFill, NoTask

(* confirm_sent and mark_failed look up the local id of their message and  *)
(* the delete RPC has a server id in hand: StageIds and InHand give both.  *)
LEMMA TypeStep == Inv /\ [Next]_vars => TypeOK'
<1> SUFFICES ASSUME Inv, [Next]_vars PROVE TypeOK'  OBVIOUS
<1> USE IdFacts DEF TypeOK, Inv
<1>1. ASSUME NEW m \in Messages, SendMessage(m) PROVE TypeOK'
  <2>1. [msg |-> m, state |-> "pending"] \in Row  BY DEF Row, SendState
  <2>2. db' \in Table  BY <1>1, <2>1, StoreTypes DEF SendMessage, Ids
  <2> QED
    BY <1>1, <2>2
    DEF SendMessage, Goto, NextLocalId, Stages, Live, BeforeAck, server, history
<1>2. ASSUME NEW m \in Messages, SendFails(m) \/ Reply(m) \/ ReplyLost(m)
      PROVE TypeOK'
  BY <1>2 DEF SendFails, Reply, ReplyLost, Goto, Stages, Live, BeforeAck, server, store, history
<1>3. ASSUME NEW m \in Messages, ServerAccepts(m) PROVE TypeOK'
  BY <1>3 DEF ServerAccepts, Goto, Stages, Live, BeforeAck, store, history
<1>4. ASSUME NEW m \in Messages, Confirm(m) PROVE TypeOK'
  <2>1. localId[m] \in Ids /\ serverId[m] \in Ids
    BY <1>4 DEF Confirm, Goto, StageIds, Ids
  <2>2. db' \in Table  BY <1>4, <2>1, StoreTypes DEF Confirm
  <2> QED  BY <1>4, <2>2 DEF Confirm, Goto, Stages, Live, BeforeAck, server, history
<1>5. ASSUME NEW m \in Messages, TouchPreview(m) PROVE TypeOK'
  <2>1. serverId[m] \in ServerIds  BY <1>5 DEF TouchPreview, Goto, StageIds
  <2>2. DateOf[serverId[m]] \in Nat  BY <2>1, DateAssumption
  <2>3. preview' \in Preview
    BY <1>5, <2>2 DEF TouchPreview, TouchLastMessage, Preview
  <2> QED  BY <1>5, <2>3 DEF TouchPreview, Goto, Stages, Live, BeforeAck, server, history
<1>6. ASSUME NEW m \in Messages, FailRow(m) PROVE TypeOK'
  <2>1. localId[m] \in Ids  BY <1>6 DEF FailRow, Goto, StageIds, Ids
  <2>2. db' \in Table  BY <1>6, <2>1, StoreTypes DEF FailRow
  <2> QED  BY <1>6, <2>2 DEF FailRow, Goto, Stages, Live, BeforeAck, server, history
<1>7. ASSUME NEW i \in Ids, DeleteBegin(i) PROVE TypeOK'
  BY <1>7, MaxDisturbAssumption
  DEF DeleteBegin, Disturb, delivery, server, store, history
<1>8. ASSUME DeleteRpcOk \/ DeleteRpcErr \/ DeleteReplyLost PROVE TypeOK'
  <2>1. CASE DeleteRpcOk
    <3>1. del.id \in ServerIds  BY <2>1 DEF DeleteRpcOk, InHand
    <3> QED  BY <2>1, <3>1 DEF DeleteRpcOk, delivery, store, history
  <2>2. CASE DeleteRpcErr
    BY <2>2 DEF DeleteRpcErr, AfterRpcError, NoDelete, delivery, server, store, history
  <2>3. CASE DeleteReplyLost
    <3>1. del.id \in ServerIds  BY <2>3 DEF DeleteReplyLost, InHand
    <3> QED  BY <2>3, <3>1 DEF DeleteReplyLost, AfterRpcError, NoDelete, delivery, store, history
  <2> QED  BY <1>8, <2>1, <2>2, <2>3
<1>9. ASSUME DeleteLocally PROVE TypeOK'
  <2>1. db' \in Table  BY <1>9, StoreTypes DEF DeleteLocally
  <2> QED  BY <1>9, <2>1 DEF DeleteLocally, NoDelete, delivery, server
<1>10. ASSUME FillBegin \/ FillReply \/ FillError PROVE TypeOK'
  <2>1. CASE FillBegin
    BY <2>1, MaxDisturbAssumption DEF FillBegin, Disturb, delivery, server, store, history
  <2>2. CASE FillReply
    BY <2>2, AcceptedIds
    DEF FillReply, NewestPage, NoFill, delivery, server, store, history
  <2>3. CASE FillError
    BY <2>3 DEF FillError, NoFill, delivery, server, store, history
  <2> QED  BY <1>10, <2>1, <2>2, <2>3
<1>11. ASSUME FillUpsert PROVE TypeOK'
  <2>1. PICK s \in fill.todo :
          /\ db' = Upsert(db, s, ServerCopy(s))
          /\ copied' = copied \cup {s}
          /\ fill' = IF fill.todo = {s} THEN NoFill ELSE [fill EXCEPT !.todo = @ \ {s}]
    BY <1>11 DEF FillUpsert
  <2>2. s \in Accepted /\ s \in ServerIds  BY AcceptedIds DEF InHand
  <2>3. db' \in Table  BY <2>1, <2>2, ServerCopyFacts, StoreTypes DEF Ids
  <2> QED
    BY <1>11, <2>1, <2>2, <2>3 DEF FillUpsert, NoFill, delivery, server
<1>12. ASSUME NEW s \in ServerIds, SyncUpsert(s) PROVE TypeOK'
  <2>1. db' \in Table  BY <1>12, ServerCopyFacts, StoreTypes DEF SyncUpsert, Ids
  <2> QED  BY <1>12, <2>1 DEF SyncUpsert, delivery, server
<1>13. ASSUME NEW s \in ServerIds, SyncDelete(s) PROVE TypeOK'
  <2>1. db' \in Table  BY <1>13, StoreTypes DEF SyncDelete
  <2> QED  BY <1>13, <2>1 DEF SyncDelete, delivery, server, history
<1>14. ASSUME SyncTouch PROVE TypeOK'
  <2>1. sync.id \in Accepted /\ DateOf[sync.id] \in Nat
    BY <1>14, AcceptedIds, DateAssumption DEF SyncTouch, InHand
  <2>2. preview' \in Preview
    BY <1>14, <2>1, ServerCopyFacts DEF SyncTouch, TouchLastMessage, Preview
  <2> QED  BY <1>14, <2>2 DEF SyncTouch, NoTask, delivery, server, history
<1>17. ASSUME SeedFetch PROVE TypeOK'
  <2>1. PICK s \in Accepted \cup {0} : sync' = [at |-> "chat", id |-> s]
    BY <1>17 DEF SeedFetch
  <2>2. disturbed' \in 0 .. MaxDisturb
    BY <1>17, MaxDisturbAssumption DEF SeedFetch, Disturb
  <2> QED
    BY <1>17, <2>1, <2>2, AcceptedIds DEF SeedFetch, delivery, server, store, history
<1>18. ASSUME SeedPreview PROVE TypeOK'
  <2>1. preview' \in Preview
    <3>1. CASE sync.id = 0
      BY <1>18, <3>1 DEF SeedPreview, DialogPreview, NoPreview, Preview
    <3>2. CASE sync.id # 0
      <4>1. sync.id \in Accepted /\ DateOf[sync.id] \in Nat
        BY <3>2, AcceptedIds, DateAssumption DEF InHand
      <4> QED
        BY <1>18, <3>2, <4>1, ServerCopyFacts DEF SeedPreview, DialogPreview, Preview
    <3> QED  BY <3>1, <3>2
  <2> QED  BY <1>18, <2>1 DEF SeedPreview, NoTask, delivery, server
<1>19. ASSUME SeedRow PROVE TypeOK'
  <2>1. sync.id \in Accepted /\ sync.id \in ServerIds
    BY <1>19, AcceptedIds DEF SeedRow, InHand
  <2>2. db' \in Table
    BY <1>19, <2>1, ServerCopyFacts, StoreTypes DEF SeedRow, Ids
  <2> QED  BY <1>19, <2>1, <2>2 DEF SeedRow, NoTask, delivery, server
<1>15. ASSUME Crash PROVE TypeOK'
  BY <1>15, MaxDisturbAssumption
  DEF Crash, Disturb, AfterCrash, Stages, Live, BeforeAck, NoDelete, NoFill, NoTask,
      server, store, history
<1>16. ASSUME UNCHANGED vars PROVE TypeOK'
  BY <1>16 DEF vars, delivery, server, store, history
<1> QED
  BY <1>1, <1>2, <1>3, <1>4, <1>5, <1>6, <1>7, <1>8, <1>9, <1>10, <1>11, <1>12,
     <1>13, <1>14, <1>15, <1>16, <1>17, <1>18, <1>19
  DEF Next, Deliver, Idle

-----------------------------------------------------------------------------
(* Only ServerAccepts touches the numbering, and it draws a greater id.    *)

LEMMA NumberingStep == Inv /\ [Next]_vars => Numbering'
<1> SUFFICES ASSUME Inv, [Next]_vars PROVE Numbering'  OBVIOUS
<1> USE IdFacts DEF Inv, TypeOK, Numbering
<1>1. ASSUME NEW m \in Messages, ServerAccepts(m) PROVE Numbering'
  BY <1>1 DEF ServerAccepts
<1>2. CASE UNCHANGED <<serverId, newest>>
  BY <1>2
<1> QED
  BY <1>1, <1>2
  DEF Next, Deliver, Idle, vars, server, SendMessage, SendFails, Reply, ReplyLost,
      Confirm, TouchPreview, FailRow, DeleteBegin, DeleteRpcOk, DeleteRpcErr, DeleteReplyLost,
      DeleteLocally, FillBegin, FillReply, FillError, FillUpsert, SyncUpsert,
      SyncDelete, SyncTouch, SeedFetch, SeedPreview, SeedRow, Crash

LEMMA StageIdsStep == Inv /\ [Next]_vars => StageIds'
<1> SUFFICES ASSUME Inv, [Next]_vars PROVE StageIds'  OBVIOUS
<1> USE IdFacts DEF Inv, TypeOK, StageIds
<1>1. ASSUME NEW m \in Messages, SendMessage(m) PROVE StageIds'
  BY <1>1 DEF SendMessage, Goto, server
<1>2. ASSUME NEW m \in Messages, ServerAccepts(m) PROVE StageIds'
  BY <1>2 DEF ServerAccepts, Goto
<1>3. ASSUME NEW m \in Messages, NEW from, NEW to, Goto(m, from, to),
             UNCHANGED <<localId, serverId>>, from # "new", to \notin {"new", "sending"},
             to \in {"accepted", "replied", "confirmed", "sent"} =>
                 from \in {"accepted", "replied", "confirmed", "sent"}
      PROVE StageIds'
  BY <1>3 DEF Goto
<1>4. ASSUME Crash PROVE StageIds'
  BY <1>4 DEF Crash, AfterCrash, Live, BeforeAck, server
<1>5. CASE UNCHANGED <<pc, localId, serverId>>
  BY <1>5
<1>6. ASSUME NEW m \in Messages, Deliver(m), ~ServerAccepts(m) PROVE StageIds'
  BY <1>3, <1>6
  DEF Deliver, SendFails, Reply, ReplyLost, Confirm, TouchPreview, FailRow, server
<1> QED
  BY <1>1, <1>2, <1>4, <1>5, <1>6
  DEF Next, Idle, vars, delivery, server, DeleteBegin, DeleteRpcOk, DeleteRpcErr, DeleteReplyLost,
      DeleteLocally, FillBegin, FillReply, FillError, FillUpsert, SyncUpsert,
      SyncDelete, SyncTouch, SeedFetch, SeedPreview, SeedRow

-----------------------------------------------------------------------------
(* The row of a running delivery stays its own: a later send of the same   *)
(* run draws a smaller id, and after a restart the old deliveries are gone.*)

LEMMA OwnRowStep == Inv /\ [Next]_vars => OwnRow'
<1> SUFFICES ASSUME Inv, [Next]_vars PROVE OwnRow'  OBVIOUS
<1> USE IdFacts DEF Inv, TypeOK, OwnRow, Table
<1>1. ASSUME NEW m \in Messages, SendMessage(m) PROVE OwnRow'
  <2>1. \A n \in Messages : pc[n] \in Live => localId[n] \in LocalIds
    BY DEF StageIds, Live, BeforeAck
  <2>2. ASSUME NEW n \in Messages, n # m, pc[n] \in Live
        PROVE  /\ localId'[n] = localId[n] /\ localId[n] > nextLocal'
               /\ db'[localId[n]] = db[localId[n]]
    BY <1>1, <2>1, <2>2 DEF SendMessage, NextLocalId, Upsert
  <2>3. localId'[m] = nextLocal /\ nextLocal > nextLocal' /\ db'[nextLocal].msg = m
    BY <1>1 DEF SendMessage, NextLocalId, Upsert, Ids
  <2> QED  BY <1>1, <2>2, <2>3 DEF SendMessage, Goto
<1>2. ASSUME NEW m \in Messages, SendFails(m) \/ ServerAccepts(m) \/ Reply(m) \/ ReplyLost(m)
      PROVE OwnRow'
  BY <1>2 DEF SendFails, ServerAccepts, Reply, ReplyLost, Goto, store, Live, BeforeAck
<1>3. ASSUME NEW m \in Messages, Confirm(m) PROVE OwnRow'
  <2>1. localId[m] \in LocalIds /\ serverId[m] \in ServerIds
    BY <1>3 DEF Confirm, Goto, StageIds
  <2>2. \A i \in LocalIds : db'[i] = db[i] \/ db'[i] = NoRow
    BY <1>3, <2>1 DEF Confirm, ConfirmSent, Ids
  <2>3. \A n \in Messages : pc[n] \in Live => localId[n] \in LocalIds
    BY DEF StageIds, Live, BeforeAck
  <2> QED  BY <1>3, <2>2, <2>3 DEF Confirm, Goto, Live, BeforeAck
<1>4. ASSUME NEW m \in Messages, TouchPreview(m) PROVE OwnRow'
  <2>1. UNCHANGED <<nextLocal, localId, db>>  BY <1>4 DEF TouchPreview
  <2> QED  BY <1>4, <2>1 DEF TouchPreview, Goto, Live, BeforeAck
<1>5. ASSUME NEW m \in Messages, FailRow(m) PROVE OwnRow'
  <2>1. localId[m] \in Ids
    BY <1>5 DEF FailRow, Goto, StageIds, Ids
  <2>2. \A i \in Ids : db[i] = NoRow <=> db'[i] = NoRow
    BY <1>5, <2>1, RowFacts, NoRowAssumption DEF FailRow, MarkFailed, Row, SendState
  <2>3. \A i \in Ids : db[i] # NoRow => db'[i].msg = db[i].msg
    BY <1>5, <2>1 DEF FailRow, MarkFailed
  <2>4. \A n \in Messages : pc[n] \in Live => localId[n] \in Ids
    BY DEF StageIds, Live, BeforeAck, Ids
  <2> QED  BY <1>5, <2>2, <2>3, <2>4 DEF FailRow, Goto, Live, BeforeAck
<1>6. CASE Crash
  BY <1>6 DEF Crash, AfterCrash, Live, BeforeAck
<1>7. ASSUME UNCHANGED <<nextLocal, pc, localId>>,
             \A i \in LocalIds : db'[i] \in {db[i], NoRow}
      PROVE OwnRow'
  <2>1. \A n \in Messages : pc[n] \in Live => localId[n] \in LocalIds
    BY DEF StageIds, Live, BeforeAck
  <2> QED  BY <1>7, <2>1
<1>8. CASE DeleteLocally
  BY <1>7, <1>8 DEF DeleteLocally, DeleteRows, delivery, Ids
<1>9. CASE FillUpsert
  BY <1>7, <1>9, AcceptedIds DEF FillUpsert, Upsert, InHand, delivery, Ids
<1>10. ASSUME NEW s \in ServerIds, SyncUpsert(s) \/ SyncDelete(s) PROVE OwnRow'
  BY <1>7, <1>10 DEF SyncUpsert, SyncDelete, Upsert, DeleteRows, delivery, Ids
<1>11. CASE SeedRow
  <2>1. sync.id \in ServerIds  BY <1>11, AcceptedIds DEF SeedRow, InHand
  <2> QED  BY <1>7, <1>11, <2>1 DEF SeedRow, Upsert, delivery, Ids
<1>12. CASE UNCHANGED <<nextLocal, pc, localId, db>>
  BY <1>7, <1>12
<1> QED
  BY <1>1, <1>2, <1>3, <1>4, <1>5, <1>6, <1>8, <1>9, <1>10, <1>11, <1>12
  DEF Next, Deliver, Idle, vars, delivery, store, DeleteBegin, DeleteRpcOk,
      DeleteRpcErr, DeleteReplyLost, FillBegin, FillReply, FillError, SyncTouch,
      SeedFetch, SeedPreview, SeedRow

-----------------------------------------------------------------------------
(* Ids of the server never leave Accepted, and a local delete of a server  *)
(* row follows the RPC.                                                    *)

LEMMA AssignedStays ==
    Inv /\ [Next]_vars =>
        \A m \in Messages : serverId[m] # 0 => serverId'[m] = serverId[m]
<1> SUFFICES ASSUME Inv, [Next]_vars, NEW m \in Messages, serverId[m] # 0
             PROVE  serverId'[m] = serverId[m]
  OBVIOUS
<1>1. ASSUME NEW n \in Messages, ServerAccepts(n) PROVE serverId'[m] = serverId[m]
  BY <1>1 DEF ServerAccepts, Goto, Inv, TypeOK, StageIds
<1> QED
  BY <1>1
  DEF Next, Deliver, Idle, vars, server, SendMessage, SendFails, Reply, ReplyLost,
      Confirm, TouchPreview, FailRow, DeleteBegin, DeleteRpcOk, DeleteRpcErr, DeleteReplyLost,
      DeleteLocally, FillBegin, FillReply, FillError, FillUpsert, SyncUpsert,
      SyncDelete, SyncTouch, SeedFetch, SeedPreview, SeedRow, Crash

LEMMA InHandStep == Inv /\ [Next]_vars => InHand'
<1> SUFFICES ASSUME Inv, [Next]_vars PROVE InHand'  OBVIOUS
<1> USE IdFacts DEF Inv, TypeOK, InHand
<1>1. Accepted \subseteq Accepted'  BY AssignedStays DEF Accepted
<1>2. ASSUME NEW i \in Ids, DeleteBegin(i) PROVE InHand'
  BY <1>1, <1>2 DEF DeleteBegin, NeedsRpc, Ids, server
<1>3. CASE DeleteRpcOk
  BY <1>1, <1>3 DEF DeleteRpcOk
<1>4. CASE DeleteRpcErr \/ DeleteReplyLost \/ DeleteLocally
  BY <1>1, <1>4
  DEF DeleteRpcErr, DeleteReplyLost, DeleteLocally, AfterRpcError, NoDelete
<1>5. CASE FillBegin \/ FillReply \/ FillError
  <2>0. NewestPage(Accepted \ unsent) \subseteq Accepted  BY DEF NewestPage
  <2>1. fill'.todo \subseteq Accepted
    <3>1. CASE FillBegin  BY <3>1 DEF FillBegin
    <3>2. CASE FillReply
      <4>1. fill' \in {NoFill, [at |-> "upsert", todo |-> NewestPage(Accepted \ unsent)]}
        BY <3>2 DEF FillReply
      <4> QED  BY <2>0, <4>1 DEF NoFill
    <3>3. CASE FillError  BY <3>3 DEF FillError, NoFill
    <3> QED  BY <1>5, <3>1, <3>2, <3>3
  <2>2. UNCHANGED <<del, sync, unsent>>
    BY <1>5 DEF FillBegin, FillReply, FillError, server
  <2> QED  BY <1>1, <2>1, <2>2
<1>6. CASE FillUpsert
  BY <1>1, <1>6 DEF FillUpsert, NoFill, server
<1>7. ASSUME NEW s \in ServerIds, SyncUpsert(s) PROVE InHand'
  BY <1>1, <1>7 DEF SyncUpsert, server
<1>8. CASE SyncTouch
  BY <1>1, <1>8 DEF SyncTouch, NoTask, server
<1>9. CASE Crash
  BY <1>1, <1>9 DEF Crash, NoDelete, NoFill, NoTask
<1>11. CASE SeedFetch
  <2>1. PICK s \in Accepted \cup {0} : sync' = [at |-> "chat", id |-> s]
    BY <1>11 DEF SeedFetch
  <2> QED  BY <1>1, <1>11, <2>1 DEF SeedFetch, server
<1>12. CASE SeedPreview
  <2>1. sync' = NoTask \/ (sync.id # 0 /\ sync' = [sync EXCEPT !.at = "row"])
    BY <1>12 DEF SeedPreview
  <2> QED  BY <1>1, <1>12, <2>1 DEF SeedPreview, NoTask, server
<1>13. CASE SeedRow
  BY <1>1, <1>13 DEF SeedRow, NoTask, server
<1>10. CASE UNCHANGED <<fill, sync, del, unsent>>
  BY <1>1, <1>10
<1> QED
  BY <1>2, <1>3, <1>4, <1>5, <1>6, <1>7, <1>8, <1>9, <1>10, <1>11, <1>12, <1>13
  DEF Next, Deliver, Idle, vars, server, SendMessage, SendFails, ServerAccepts,
      Reply, ReplyLost, Confirm, TouchPreview, FailRow, SyncDelete

-----------------------------------------------------------------------------
(* What a step can do to the rows under server ids: drop one, store the    *)
(* server's copy, or re-key the row of the delivery that confirms.         *)

LEMMA ServerRowStep ==
    ASSUME Inv, [Next]_vars, NEW s \in ServerIds
    PROVE  \/ db'[s] \in {db[s], NoRow}
           \/ s \in Accepted /\ s \in copied' /\ db'[s] = ServerCopy(s)
           \/ \E m \in Messages :
                /\ Confirm(m) /\ s = serverId[m]
                /\ db'[s] = [msg |-> m, state |-> "sent"]
<1> USE IdFacts DEF Inv, TypeOK, Table, Ids
<1>1. ASSUME NEW m \in Messages, SendMessage(m) PROVE db'[s] = db[s]
  BY <1>1 DEF SendMessage, Upsert
<1>2. ASSUME NEW m \in Messages, FailRow(m) PROVE db'[s] = db[s]
  <2>1. localId[m] \in LocalIds  BY <1>2 DEF FailRow, Goto, StageIds
  <2> QED  BY <1>2, <2>1 DEF FailRow, MarkFailed
<1>3. ASSUME NEW m \in Messages, Confirm(m)
      PROVE  \/ db'[s] = db[s]
             \/ s = serverId[m] /\ db'[s] = [msg |-> m, state |-> "sent"]
  <2>1. localId[m] \in LocalIds /\ serverId[m] \in ServerIds /\ pc[m] \in Live
    BY <1>3 DEF Confirm, Goto, StageIds, Live, BeforeAck
  <2>2. db[localId[m]] # NoRow => db[localId[m]].msg = m  BY <2>1 DEF OwnRow
  <2>3. db' = ConfirmSent(db, localId[m], serverId[m])  BY <1>3 DEF Confirm
  <2>4. CASE db[localId[m]] # NoRow /\ db[serverId[m]] = NoRow
    <3>1. db' = [db EXCEPT ![serverId[m]] = [msg |-> m, state |-> "sent"],
                           ![localId[m]] = NoRow]
      BY <2>2, <2>3, <2>4 DEF ConfirmSent
    <3> QED  BY <2>1, <3>1
  <2>5. CASE ~(db[localId[m]] # NoRow /\ db[serverId[m]] = NoRow)
    BY <2>3, <2>5 DEF ConfirmSent
  <2> QED  BY <2>4, <2>5
<1>4. CASE DeleteLocally
  BY <1>4 DEF DeleteLocally, DeleteRows
<1>5. ASSUME FillUpsert
      PROVE  \/ db'[s] = db[s]
             \/ s \in Accepted /\ s \in copied' /\ db'[s] = ServerCopy(s)
  <2>1. PICK r \in fill.todo :
          db' = Upsert(db, r, ServerCopy(r)) /\ copied' = copied \cup {r}
    BY <1>5 DEF FillUpsert
  <2> QED  BY <2>1 DEF Upsert, InHand
<1>6. ASSUME NEW r \in ServerIds, SyncUpsert(r)
      PROVE  \/ db'[s] = db[s]
             \/ s \in Accepted /\ s \in copied' /\ db'[s] = ServerCopy(s)
  BY <1>6 DEF SyncUpsert, Upsert
<1>7. ASSUME NEW r \in ServerIds, SyncDelete(r) PROVE db'[s] \in {db[s], NoRow}
  BY <1>7 DEF SyncDelete, DeleteRows
<1>8. ASSUME SeedRow
      PROVE  \/ db'[s] = db[s]
             \/ s \in Accepted /\ s \in copied' /\ db'[s] = ServerCopy(s)
  <2>1. sync.id \in Accepted  BY <1>8 DEF SeedRow, InHand
  <2> QED  BY <1>8, <2>1 DEF SeedRow, Upsert
<1> QED
  BY <1>1, <1>2, <1>3, <1>4, <1>5, <1>6, <1>7, <1>8
  DEF Next, Deliver, Idle, vars, store, SendFails, ServerAccepts, Reply, ReplyLost,
      TouchPreview, DeleteBegin, DeleteRpcOk, DeleteRpcErr, DeleteReplyLost, FillBegin, FillReply,
      FillError, SyncTouch, SeedFetch, SeedPreview, SeedRow, Crash

LEMMA SentIsAcceptedStep == Inv /\ [Next]_vars => SentIsAccepted'
<1> SUFFICES ASSUME Inv, [Next]_vars, NEW s \in ServerIds, db'[s] # NoRow
             PROVE  db'[s].state = "sent" /\ serverId'[db'[s].msg] = s
  BY DEF SentIsAccepted
<1> USE IdFacts DEF Inv
<1>1. CASE db'[s] = db[s]
  <2>1. db[s].state = "sent" /\ serverId[db[s].msg] = s  BY <1>1 DEF SentIsAccepted
  <2>2. db[s].msg \in Messages  BY <1>1, RowFacts DEF Ids
  <2> QED  BY <1>1, <2>1, <2>2, AssignedStays
<1>2. CASE s \in Accepted /\ db'[s] = ServerCopy(s)
  BY <1>2, ServerCopyFacts, AssignedStays
<1>3. ASSUME NEW m \in Messages, s = serverId[m], db'[s] = [msg |-> m, state |-> "sent"]
      PROVE  db'[s].state = "sent" /\ serverId'[db'[s].msg] = s
  BY <1>3, AssignedStays
<1> QED  BY <1>1, <1>2, <1>3, ServerRowStep

(* No stage before the acknowledgement is entered from a later one.        *)
LEMMA StageOrder ==
    ASSUME Inv, [Next]_vars, NEW m \in Messages, pc[m] \notin BeforeAck, pc[m] # "new"
    PROVE  pc'[m] \notin BeforeAck
<1> USE DEF Inv, TypeOK, BeforeAck, Goto
<1>1. CASE Crash
  BY <1>1 DEF Crash, AfterCrash
<1>2. ASSUME NEW n \in Messages, SendMessage(n) \/ Deliver(n) PROVE pc'[m] \notin BeforeAck
  BY <1>2 DEF SendMessage, Deliver, SendFails, ServerAccepts, Reply, ReplyLost,
              Confirm, TouchPreview, FailRow
<1> QED
  BY <1>1, <1>2
  DEF Next, Idle, vars, delivery, DeleteBegin, DeleteRpcOk, DeleteRpcErr, DeleteReplyLost,
      DeleteLocally, FillBegin, FillReply, FillError, FillUpsert, SyncUpsert,
      SyncDelete, SyncTouch, SeedFetch, SeedPreview, SeedRow

LEMMA StoredByStep == Inv /\ [Next]_vars => StoredBy'
<1> SUFFICES ASSUME Inv, [Next]_vars, NEW s \in ServerIds, db'[s] # NoRow
             PROVE  s \in copied' \/ pc'[db'[s].msg] \notin BeforeAck
  BY DEF StoredBy
<1> USE IdFacts DEF Inv
<1>1. CASE db'[s] = db[s]
  <2>1. s \in copied \/ pc[db[s].msg] \notin BeforeAck  BY <1>1 DEF StoredBy
  <2>2. db[s].msg \in Messages  BY <1>1, RowFacts DEF Ids
  <2>3. pc[db[s].msg] # "new"
    BY <1>1, <2>2 DEF SentIsAccepted, StageIds
  <2>4. copied \subseteq copied'
    BY DEF Next, Deliver, Idle, vars, history, SendMessage, SendFails, ServerAccepts,
           Reply, ReplyLost, Confirm, TouchPreview, FailRow, DeleteBegin, DeleteRpcOk,
           DeleteRpcErr, DeleteReplyLost, DeleteLocally, FillBegin, FillReply, FillError, FillUpsert,
           SyncUpsert, SyncDelete, SyncTouch, SeedFetch, SeedPreview, SeedRow, Crash
  <2> QED  BY <1>1, <2>1, <2>2, <2>3, <2>4, StageOrder
<1>2. ASSUME NEW m \in Messages, Confirm(m), s = serverId[m],
             db'[s] = [msg |-> m, state |-> "sent"]
      PROVE  pc'[db'[s].msg] \notin BeforeAck
  BY <1>2 DEF Confirm, Goto, BeforeAck, TypeOK
<1> QED  BY <1>1, <1>2, ServerRowStep

-----------------------------------------------------------------------------
(* What a step can do to the rows under local ids.                         *)

LEMMA LocalRowStep ==
    ASSUME Inv, [Next]_vars, NEW i \in LocalIds
    PROVE  \/ db'[i] \in {db[i], NoRow}
           \/ \E m \in Messages :
                /\ SendMessage(m) /\ i = localId'[m]
                /\ db'[i] = [msg |-> m, state |-> "pending"]
           \/ \E m \in Messages :
                /\ FailRow(m) /\ i = localId[m] /\ db[i] # NoRow /\ db[i].msg = m
                /\ db'[i] = [msg |-> m, state |-> "failed"]
<1> USE IdFacts DEF Inv, TypeOK, Table, Ids
<1>1. ASSUME NEW m \in Messages, SendMessage(m)
      PROVE  \/ db'[i] = db[i]
             \/ i = localId'[m] /\ db'[i] = [msg |-> m, state |-> "pending"]
  BY <1>1 DEF SendMessage, Upsert
<1>2. ASSUME NEW m \in Messages, FailRow(m)
      PROVE  \/ db'[i] = db[i]
             \/ /\ i = localId[m] /\ db[i] # NoRow /\ db[i].msg = m
                /\ db'[i] = [msg |-> m, state |-> "failed"]
  <2>1. localId[m] \in LocalIds /\ pc[m] \in Live
    BY <1>2 DEF FailRow, Goto, StageIds, Live
  <2>2. db[localId[m]] # NoRow => db[localId[m]].msg = m  BY <2>1 DEF OwnRow
  <2> QED  BY <1>2, <2>1, <2>2 DEF FailRow, MarkFailed
<1>3. ASSUME NEW m \in Messages, Confirm(m) PROVE db'[i] \in {db[i], NoRow}
  <2>1. localId[m] \in LocalIds /\ serverId[m] \in ServerIds
    BY <1>3 DEF Confirm, Goto, StageIds
  <2> QED  BY <1>3, <2>1 DEF Confirm, ConfirmSent
<1>4. CASE DeleteLocally
  BY <1>4 DEF DeleteLocally, DeleteRows
<1>5. CASE FillUpsert
  BY <1>5, AcceptedIds DEF FillUpsert, Upsert, InHand
<1>6. ASSUME NEW r \in ServerIds, SyncUpsert(r) \/ SyncDelete(r) PROVE db'[i] = db[i]
  BY <1>6 DEF SyncUpsert, SyncDelete, Upsert, DeleteRows
<1>7. CASE SeedRow
  BY <1>7, AcceptedIds DEF SeedRow, Upsert, InHand
<1> QED
  BY <1>1, <1>2, <1>3, <1>4, <1>5, <1>6, <1>7
  DEF Next, Deliver, Idle, vars, store, SendFails, ServerAccepts, Reply, ReplyLost,
      TouchPreview, DeleteBegin, DeleteRpcOk, DeleteRpcErr, DeleteReplyLost, FillBegin, FillReply,
      FillError, SyncTouch, SeedFetch, SeedPreview, SeedRow, Crash

LEMMA CopiedGrows == [Next]_vars => copied \subseteq copied'
BY DEF Next, Deliver, Idle, vars, history, SendMessage, SendFails, ServerAccepts,
       Reply, ReplyLost, Confirm, TouchPreview, FailRow, DeleteBegin, DeleteRpcOk,
       DeleteRpcErr, DeleteReplyLost, DeleteLocally, FillBegin, FillReply, FillError, FillUpsert,
       SyncUpsert, SyncDelete, SyncTouch, SeedFetch, SeedPreview, SeedRow, Crash

(* A message keeps the local id its send drew.                             *)
LEMMA LocalIdStays ==
    ASSUME [Next]_vars, TypeOK, NEW m \in Messages, pc[m] # "new"
    PROVE  localId'[m] = localId[m] /\ pc'[m] # "new"
<1>1. ASSUME NEW n \in Messages, SendMessage(n) \/ Deliver(n)
      PROVE  localId'[m] = localId[m] /\ pc'[m] # "new"
  BY <1>1 DEF TypeOK, Goto, Deliver, SendMessage, SendFails, ServerAccepts, Reply, ReplyLost,
              Confirm, TouchPreview, FailRow
<1> QED
  BY <1>1
  DEF TypeOK, Next, Idle, vars, delivery, DeleteBegin, DeleteRpcOk, DeleteRpcErr, DeleteReplyLost,
      DeleteLocally, FillBegin, FillReply, FillError, FillUpsert, SyncUpsert,
      SyncDelete, SyncTouch, SeedFetch, SeedPreview, SeedRow, Crash, AfterCrash

LEMMA RowTellsDeliveryStep == Inv /\ [Next]_vars => RowTellsDelivery'
<1> SUFFICES ASSUME Inv, [Next]_vars, NEW i \in LocalIds, db'[i] # NoRow
    PROVE  LET m == db'[i].msg IN
           /\ localId'[m] = i
           /\ \/ db'[i].state = "failed" /\ pc'[m] = "failed"
              \/ /\ db'[i].state = "pending"
                 /\ \/ pc'[m] \in BeforeAck \cup {"erred", "dead"}
                    \/ pc'[m] \in {"confirmed", "sent"} /\ serverId'[m] \in copied'
  BY DEF RowTellsDelivery
<1> USE IdFacts DEF Inv
<1>1. ASSUME NEW m \in Messages, SendMessage(m), i = localId'[m],
             db'[i] = [msg |-> m, state |-> "pending"]
      PROVE  localId'[m] = i /\ pc'[m] \in BeforeAck
  BY <1>1 DEF SendMessage, Goto, BeforeAck, TypeOK
<1>2. ASSUME NEW m \in Messages, FailRow(m), i = localId[m], db[i] # NoRow, db[i].msg = m,
             db'[i] = [msg |-> m, state |-> "failed"]
      PROVE  localId'[m] = i /\ pc'[m] = "failed"
  BY <1>2 DEF FailRow, Goto, TypeOK
<1>3. ASSUME db'[i] = db[i]
      PROVE  LET m == db[i].msg IN
             /\ localId'[m] = i
             /\ \/ db[i].state = "failed" /\ pc'[m] = "failed"
                \/ /\ db[i].state = "pending"
                   /\ \/ pc'[m] \in BeforeAck \cup {"erred", "dead"}
                      \/ pc'[m] \in {"confirmed", "sent"} /\ serverId'[m] \in copied'
  <2> DEFINE m == db[i].msg
  <2>1. m \in Messages /\ db[i] # NoRow  BY <1>3, RowFacts DEF Ids
  <2>2. localId[m] = i /\ pc[m] # "new"
    BY <2>1 DEF RowTellsDelivery, StageIds
  <2>3. localId'[m] = i  BY <2>1, <2>2, LocalIdStays
  <2>4. db[i].state = "failed" /\ pc[m] = "failed" => pc'[m] = "failed"
    <3>1. ASSUME NEW n \in Messages, SendMessage(n) \/ Deliver(n), pc[m] = "failed"
          PROVE  pc'[m] = "failed"
      BY <2>1, <3>1
      DEF TypeOK, Goto, Deliver, SendMessage, SendFails, ServerAccepts, Reply, ReplyLost,
          Confirm, TouchPreview, FailRow
    <3> QED
      BY <2>1, <3>1
      DEF TypeOK, Next, Idle, vars, delivery, DeleteBegin, DeleteRpcOk, DeleteRpcErr, DeleteReplyLost,
          DeleteLocally, FillBegin, FillReply, FillError, FillUpsert, SyncUpsert,
          SyncDelete, SyncTouch, SeedFetch, SeedPreview, SeedRow, Crash, AfterCrash,
          Live, BeforeAck
  <2>5. ASSUME db[i].state = "pending"
        PROVE  \/ pc'[m] \in BeforeAck \cup {"erred", "dead"}
               \/ pc'[m] \in {"confirmed", "sent"} /\ serverId'[m] \in copied'
    <3>1. \/ pc[m] \in BeforeAck \cup {"erred", "dead"}
          \/ pc[m] \in {"confirmed", "sent"} /\ serverId[m] \in copied
      BY <2>1, <2>5 DEF RowTellsDelivery
    <3>2. CASE pc[m] \in {"confirmed", "sent"} /\ serverId[m] \in copied
      <4>1. serverId'[m] \in copied'
        BY <2>1, <3>2, AssignedStays, CopiedGrows DEF StageIds
      <4>2. pc'[m] \in {"confirmed", "sent", "dead"}
        <5>1. ASSUME NEW n \in Messages, SendMessage(n) \/ Deliver(n)
              PROVE  pc'[m] \in {"confirmed", "sent", "dead"}
          BY <2>1, <3>2, <5>1
          DEF TypeOK, Goto, Deliver, SendMessage, SendFails, ServerAccepts, Reply,
              ReplyLost, Confirm, TouchPreview, FailRow
        <5> QED
          BY <2>1, <3>2, <5>1
          DEF TypeOK, Next, Idle, vars, delivery, DeleteBegin, DeleteRpcOk, DeleteRpcErr, DeleteReplyLost,
              DeleteLocally, FillBegin, FillReply, FillError, FillUpsert, SyncUpsert,
              SyncDelete, SyncTouch, SeedFetch, SeedPreview, SeedRow, Crash,
              AfterCrash
      <4> QED  BY <4>1, <4>2
    <3>3. CASE pc[m] \in BeforeAck \cup {"erred", "dead"}
      <4>1. ASSUME Confirm(m) PROVE pc'[m] = "confirmed" /\ serverId'[m] \in copied'
        <5>1. localId[m] = i /\ serverId[m] \in ServerIds /\ pc[m] \in BeforeAck
          BY <2>1, <2>2, <4>1 DEF Confirm, Goto, StageIds, TypeOK, BeforeAck
        <5>2. db[serverId[m]] # NoRow
          BY <1>3, <2>1, <4>1, <5>1 DEF Confirm, ConfirmSent, TypeOK, Table, Ids
        <5>3. db[serverId[m]].msg = m
          BY <2>1, <5>1, <5>2, RowFacts DEF SentIsAccepted, Numbering, StageIds, Ids
        <5>4. serverId[m] \in copied  BY <5>1, <5>2, <5>3 DEF StoredBy
        <5>5. serverId'[m] = serverId[m]  BY <4>1 DEF Confirm, server
        <5> QED
          BY <2>1, <4>1, <5>4, <5>5, CopiedGrows DEF Confirm, Goto, TypeOK
      <4>2. ASSUME FailRow(m) PROVE FALSE
        BY <1>3, <2>1, <2>2, <2>5, <4>2
        DEF FailRow, MarkFailed, TypeOK, Table, Ids
      <4>3. ASSUME NEW n \in Messages, SendMessage(n) \/ Deliver(n),
                   ~Confirm(m), ~FailRow(m)
            PROVE  pc'[m] \in BeforeAck \cup {"erred", "dead"}
        BY <2>1, <3>3, <4>3
        DEF TypeOK, Goto, BeforeAck, Deliver, SendMessage, SendFails, ServerAccepts, Reply,
            ReplyLost, Confirm, TouchPreview, FailRow
      <4> QED
        BY <2>1, <3>3, <4>1, <4>2, <4>3
        DEF TypeOK, Next, Idle, vars, delivery, DeleteBegin, DeleteRpcOk, DeleteRpcErr, DeleteReplyLost,
            DeleteLocally, FillBegin, FillReply, FillError, FillUpsert, SyncUpsert,
            SyncDelete, SyncTouch, SeedFetch, SeedPreview, SeedRow, Crash, AfterCrash,
            Live
    <3> QED  BY <3>1, <3>2, <3>3
  <2> QED  BY <2>1, <2>3, <2>4, <2>5 DEF RowTellsDelivery
<1>4. CASE db'[i] = db[i]
  BY <1>3, <1>4
<1>5. CASE \E m \in Messages :
             /\ SendMessage(m) /\ i = localId'[m]
             /\ db'[i] = [msg |-> m, state |-> "pending"]
  BY <1>1, <1>5
<1>6. CASE \E m \in Messages :
             /\ FailRow(m) /\ i = localId[m] /\ db[i] # NoRow /\ db[i].msg = m
             /\ db'[i] = [msg |-> m, state |-> "failed"]
  BY <1>2, <1>6
<1> QED  BY <1>4, <1>5, <1>6, LocalRowStep

-----------------------------------------------------------------------------
(* Nothing is lost.                                                        *)

LEMMA ServerRowGone ==
    ASSUME Inv, [Next]_vars, NEW s \in ServerIds, db[s] # NoRow, db'[s] = NoRow
    PROVE  s \in unsent'
<1> USE IdFacts DEF Inv, TypeOK, Table, Ids
<1>1. ASSUME NEW m \in Messages, SendMessage(m) \/ FailRow(m) \/ Confirm(m) PROVE FALSE
  <2>1. CASE SendMessage(m)  BY <2>1 DEF SendMessage, Upsert
  <2>2. CASE FailRow(m)
    <3>1. localId[m] \in LocalIds  BY <2>2 DEF FailRow, Goto, StageIds
    <3> QED  BY <2>2, <3>1 DEF FailRow, MarkFailed
  <2>3. CASE Confirm(m)
    <3>1. localId[m] \in LocalIds /\ serverId[m] \in ServerIds
      BY <2>3 DEF Confirm, Goto, StageIds
    <3> QED  BY <2>3, <3>1 DEF Confirm, ConfirmSent
  <2> QED  BY <1>1, <2>1, <2>2, <2>3
<1>2. CASE DeleteLocally
  <2>1. s = del.id  BY <1>2 DEF DeleteLocally, DeleteRows
  <2> QED  BY <1>2, <2>1 DEF DeleteLocally, InHand, server
<1>3. CASE FillUpsert
  <2>1. PICK r \in fill.todo : db' = Upsert(db, r, ServerCopy(r))
    BY <1>3 DEF FillUpsert
  <2> QED  BY <2>1, ServerCopyFacts DEF Upsert, InHand
<1>4. ASSUME NEW r \in ServerIds, SyncUpsert(r) PROVE FALSE
  BY <1>4, ServerCopyFacts DEF SyncUpsert, Upsert
<1>5. ASSUME NEW r \in ServerIds, SyncDelete(r) PROVE s \in unsent'
  BY <1>5 DEF SyncDelete, DeleteRows, server
<1>6. ASSUME SeedRow PROVE FALSE
  <2>1. sync.id \in Accepted  BY <1>6 DEF SeedRow, InHand
  <2> QED  BY <1>6, <2>1, ServerCopyFacts DEF SeedRow, Upsert
<1> QED
  BY <1>1, <1>2, <1>3, <1>4, <1>5, <1>6
  DEF Next, Deliver, Idle, vars, store, SendFails, ServerAccepts, Reply, ReplyLost,
      TouchPreview, DeleteBegin, DeleteRpcOk, DeleteRpcErr, DeleteReplyLost, FillBegin, FillReply,
      FillError, SyncTouch, SeedFetch, SeedPreview, SeedRow, Crash

LEMMA LocalRowGone ==
    ASSUME Inv, [Next]_vars, NEW i \in LocalIds, db[i] # NoRow, db'[i] = NoRow
    PROVE  \/ db[i].msg \in dropped'
           \/ LET m == db[i].msg IN
              /\ serverId'[m] \in ServerIds
              /\ db'[serverId'[m]] # NoRow
<1> USE IdFacts DEF Inv, TypeOK, Table, Ids
<1>1. ASSUME NEW m \in Messages, SendMessage(m) \/ FailRow(m) PROVE FALSE
  <2>1. CASE SendMessage(m)
    <3>1. [msg |-> m, state |-> "pending"] # NoRow
      BY NoRowAssumption DEF Row, SendState
    <3> QED  BY <2>1, <3>1 DEF SendMessage, Upsert
  <2>2. CASE FailRow(m)
    <3>1. localId[m] \in LocalIds  BY <2>2 DEF FailRow, Goto, StageIds
    <3>2. [msg |-> db[i].msg, state |-> "failed"] \in Row
      BY RowFacts DEF Row, SendState
    <3> QED  BY <2>2, <3>1, <3>2, NoRowAssumption DEF FailRow, MarkFailed
  <2> QED  BY <1>1, <2>1, <2>2
<1>2. ASSUME NEW m \in Messages, Confirm(m)
      PROVE  LET n == db[i].msg IN serverId'[n] \in ServerIds /\ db'[serverId'[n]] # NoRow
  <2>1. localId[m] \in LocalIds /\ serverId[m] \in ServerIds /\ pc[m] \in Live
    BY <1>2 DEF Confirm, Goto, StageIds, Live, BeforeAck
  <2>2. i = localId[m] /\ db[serverId[m]] = NoRow
    BY <1>2, <2>1 DEF Confirm, ConfirmSent
  <2>3. db[i].msg = m  BY <2>1, <2>2 DEF OwnRow
  <2>4. db' = [db EXCEPT ![serverId[m]] = [msg |-> m, state |-> "sent"], ![i] = NoRow]
    BY <1>2, <2>2, <2>3 DEF Confirm, ConfirmSent
  <2>5. [msg |-> m, state |-> "sent"] # NoRow
    BY NoRowAssumption DEF Row, SendState
  <2>6. serverId'[m] = serverId[m]  BY <1>2 DEF Confirm, server
  <2> QED  BY <2>1, <2>3, <2>4, <2>5, <2>6
<1>3. CASE DeleteLocally
  <2>1. i = del.id  BY <1>3 DEF DeleteLocally, DeleteRows
  <2> QED  BY <1>3, <2>1, RowFacts DEF DeleteLocally
<1>4. CASE FillUpsert
  BY <1>4, AcceptedIds DEF FillUpsert, Upsert, InHand
<1>5. ASSUME NEW r \in ServerIds, SyncUpsert(r) \/ SyncDelete(r) PROVE FALSE
  BY <1>5 DEF SyncUpsert, SyncDelete, Upsert, DeleteRows
<1>6. ASSUME SeedRow PROVE FALSE
  BY <1>6, AcceptedIds DEF SeedRow, Upsert, InHand
<1> QED
  BY <1>1, <1>2, <1>3, <1>4, <1>5, <1>6
  DEF Next, Deliver, Idle, vars, store, SendFails, ServerAccepts, Reply, ReplyLost,
      TouchPreview, DeleteBegin, DeleteRpcOk, DeleteRpcErr, DeleteReplyLost, FillBegin, FillReply,
      FillError, SyncTouch, SeedFetch, SeedPreview, SeedRow, Crash

(* A row leaves the table by the user's delete of a local row, by a        *)
(* deletion that Telegram has made, or re-keyed under its server id.       *)
LEMMA NothingLostStep == Inv /\ [Next]_vars => NothingLost'
<1> SUFFICES ASSUME Inv, [Next]_vars, NEW m \in Messages, pc'[m] # "new"
    PROVE  \/ m \in dropped'
           \/ db'[localId'[m]] # NoRow /\ db'[localId'[m]].msg = m
           \/ serverId'[m] # 0 /\ (db'[serverId'[m]] # NoRow \/ serverId'[m] \in unsent')
           \/ \E n \in Messages \ {m} : localId'[n] = localId'[m]
  BY DEF NothingLost
<1> USE IdFacts DEF Inv
<1>1. CASE pc[m] = "new"
  <2>1. SendMessage(m)
    <3>1. ASSUME NEW n \in Messages, SendMessage(n) \/ Deliver(n), ~SendMessage(m)
          PROVE  pc'[m] = "new"
      BY <1>1, <3>1
      DEF TypeOK, Goto, Deliver, SendMessage, SendFails, ServerAccepts, Reply, ReplyLost,
          Confirm, TouchPreview, FailRow
    <3> QED
      BY <1>1, <3>1
      DEF TypeOK, Next, Idle, vars, delivery, DeleteBegin, DeleteRpcOk, DeleteRpcErr, DeleteReplyLost,
          DeleteLocally, FillBegin, FillReply, FillError, FillUpsert, SyncUpsert,
          SyncDelete, SyncTouch, SeedFetch, SeedPreview, SeedRow, Crash, AfterCrash,
          Live, BeforeAck
  <2>2. /\ localId'[m] = nextLocal /\ nextLocal \in LocalIds
        /\ db'[nextLocal] = [msg |-> m, state |-> "pending"]
    BY <2>1 DEF SendMessage, Upsert, TypeOK, Table, Ids
  <2>3. [msg |-> m, state |-> "pending"] \in Row  BY DEF Row, SendState
  <2> QED  BY <2>2, <2>3, NoRowAssumption
<1>2. CASE pc[m] # "new"
  <2>1. localId'[m] = localId[m] /\ localId[m] \in LocalIds
    BY <1>2, LocalIdStays DEF TypeOK, StageIds
  <2>2. CASE m \in dropped
    BY <2>2
    DEF Next, Deliver, Idle, vars, history, SendMessage, SendFails, ServerAccepts,
        Reply, ReplyLost, Confirm, TouchPreview, FailRow, DeleteBegin, DeleteRpcOk,
        DeleteRpcErr, DeleteReplyLost, DeleteLocally, FillBegin, FillReply, FillError, FillUpsert,
        SyncUpsert, SyncDelete, SyncTouch, SeedFetch, SeedPreview, SeedRow, Crash
  <2>3. CASE \E n \in Messages \ {m} : localId[n] = localId[m]
    <3>1. PICK n \in Messages \ {m} : localId[n] = localId[m]  BY <2>3
    <3>2. localId'[n] = localId[n]
      BY <2>1, <3>1, LocalIdStays DEF StageIds
    <3> QED  BY <2>1, <3>1, <3>2
  <2>4. CASE serverId[m] # 0 /\ (db[serverId[m]] # NoRow \/ serverId[m] \in unsent)
    <3>1. serverId'[m] = serverId[m] /\ serverId[m] \in ServerIds
      BY <2>4, AssignedStays DEF TypeOK
    <3>2. unsent \subseteq unsent'
      BY DEF Next, Deliver, Idle, vars, server, SendMessage, SendFails, ServerAccepts,
          Reply, ReplyLost, Confirm, TouchPreview, FailRow, DeleteBegin, DeleteRpcOk,
          DeleteRpcErr, DeleteReplyLost, DeleteLocally, FillBegin, FillReply, FillError, FillUpsert,
          SyncUpsert, SyncDelete, SyncTouch, SeedFetch, SeedPreview, SeedRow, Crash
    <3>3. db'[serverId[m]] = NoRow /\ db[serverId[m]] # NoRow => serverId[m] \in unsent'
      BY <3>1, ServerRowGone
    <3> QED  BY <2>4, <3>1, <3>2, <3>3
  <2>5. CASE db[localId[m]] # NoRow /\ db[localId[m]].msg = m
    <3> DEFINE i == localId[m]
    <3>1. CASE db'[i] = db[i]
      BY <2>1, <2>5, <3>1
    <3>2. CASE db'[i] = NoRow
      BY <2>1, <2>5, <3>2, LocalRowGone
    <3>3. ASSUME NEW n \in Messages, SendMessage(n), i = localId'[n]
          PROVE  n \in Messages \ {m} /\ localId'[n] = localId'[m]
      BY <1>2, <2>1, <3>3 DEF SendMessage, Goto
    <3>4. ASSUME NEW n \in Messages, db[i].msg = n,
                 db'[i] = [msg |-> n, state |-> "failed"]
          PROVE  db'[i] # NoRow /\ db'[i].msg = m
      BY <2>5, <3>4, NoRowAssumption DEF Row, SendState
    <3> QED  BY <2>1, <3>1, <3>2, <3>3, <3>4, LocalRowStep
  <2> QED  BY <1>2, <2>2, <2>3, <2>4, <2>5 DEF NothingLost
<1> QED  BY <1>1, <1>2

-----------------------------------------------------------------------------
(* The preview is what Telegram accepted; it moves forward, but for the    *)
(* seed, and who is then ahead of it is in `outrun` or deleted.            *)

LEMMA SentByTouch ==
    ASSUME Inv, [Next]_vars, NEW m \in Messages, pc'[m] = "sent", pc[m] # "sent"
    PROVE  TouchPreview(m)
<1> USE DEF Inv, TypeOK, Goto
<1>1. ASSUME NEW n \in Messages, SendMessage(n) \/ Deliver(n), ~TouchPreview(m) PROVE FALSE
  BY <1>1 DEF SendMessage, Deliver, SendFails, ServerAccepts, Reply, ReplyLost,
              Confirm, TouchPreview, FailRow
<1> QED
  BY <1>1
  DEF Next, Idle, vars, delivery, DeleteBegin, DeleteRpcOk, DeleteRpcErr, DeleteReplyLost,
      DeleteLocally, FillBegin, FillReply, FillError, FillUpsert, SyncUpsert,
      SyncDelete, SyncTouch, SeedFetch, SeedPreview, SeedRow, Crash, AfterCrash

(* What a date and a message of the preview must be.                       *)
Shows(p) ==
    /\ p.at \in Nat
    /\ p.at > 0 => /\ p.msg \in Messages
                   /\ serverId[p.msg] # 0
                   /\ p.at = DateOf[serverId[p.msg]]

LEMMA ShowsStays ==
    ASSUME Inv, [Next]_vars, Shows(preview')
    PROVE  preview'.at > 0 => /\ preview'.msg \in Messages
                              /\ serverId'[preview'.msg] # 0
                              /\ preview'.at = DateOf[serverId'[preview'.msg]]
BY AssignedStays DEF Shows

(* A step that does not overwrite the preview with an older one.           *)
LEMMA PreviewForward ==
    ASSUME Inv, [Next]_vars, Shows(preview'), preview'.at >= preview.at,
           unsent \subseteq unsent', outrun \subseteq outrun',
           \A m \in Messages : TouchPreview(m) => preview'.at >= DateOf[serverId[m]]
    PROVE  PreviewNewest'
<1> USE IdFacts DEF Inv, TypeOK, Preview
<1>1. \A m \in Messages : serverId[m] # 0 => serverId'[m] = serverId[m]
  BY AssignedStays
<1>2. ASSUME NEW m \in Messages, pc'[m] = "sent"
      PROVE  \/ preview'.at >= DateOf[serverId'[m]]
             \/ serverId'[m] \in unsent' \/ m \in outrun'
  <2>1. CASE pc[m] = "sent"
    <3>1. serverId'[m] = serverId[m] /\ serverId[m] \in ServerIds
      BY <1>1, <2>1 DEF StageIds
    <3>2. preview.at >= DateOf[serverId[m]] \/ serverId[m] \in unsent \/ m \in outrun
      BY <2>1 DEF PreviewNewest
    <3>3. DateOf[serverId[m]] \in Nat  BY <3>1, DateAssumption
    <3>4. preview.at \in Nat /\ preview'.at \in Nat  BY DEF Shows
    <3> QED  BY <3>1, <3>2, <3>3, <3>4
  <2>2. CASE pc[m] # "sent"
    <3>1. TouchPreview(m)  BY <1>2, <2>2, SentByTouch
    <3>2. serverId'[m] = serverId[m]  BY <3>1 DEF TouchPreview, server
    <3> QED  BY <3>1, <3>2
  <2> QED  BY <2>1, <2>2
<1> QED  BY <1>2, ShowsStays DEF PreviewNewest

LEMMA PreviewStep == Inv /\ [Next]_vars => PreviewNewest'
<1> SUFFICES ASSUME Inv, [Next]_vars PROVE PreviewNewest'  OBVIOUS
<1> USE IdFacts DEF Inv, TypeOK, Preview
<1>1. ASSUME NEW k \in Messages, serverId[k] \in ServerIds,
             preview' = TouchLastMessage(preview, DateOf[serverId[k]], k)
      PROVE  /\ Shows(preview') /\ preview'.at >= preview.at
             /\ preview'.at >= DateOf[serverId[k]]
  <2>1. DateOf[serverId[k]] \in Nat  BY <1>1, DateAssumption
  <2> QED  BY <1>1, <2>1 DEF TouchLastMessage, PreviewNewest, Shows
<1>3. ASSUME NEW k \in Messages, TouchPreview(k) PROVE PreviewNewest'
  <2>1. serverId[k] \in ServerIds  BY <1>3 DEF TouchPreview, Goto, StageIds
  <2>2. preview' = TouchLastMessage(preview, DateOf[serverId[k]], k)
    BY <1>3 DEF TouchPreview
  <2>3. \A m \in Messages : TouchPreview(m) => m = k
    BY <1>3 DEF TouchPreview, Goto
  <2>4. UNCHANGED <<unsent, outrun>>  BY <1>3 DEF TouchPreview, server, history
  <2> QED  BY <1>1, <2>1, <2>2, <2>3, <2>4, PreviewForward
<1>4. CASE SyncTouch
  <2>1. sync.id \in Accepted  BY <1>4 DEF SyncTouch, InHand
  <2> DEFINE k == ServerCopy(sync.id).msg
  <2>2. k \in Messages /\ serverId[k] = sync.id /\ sync.id \in ServerIds
    BY <2>1, ServerCopyFacts, AcceptedIds
  <2>3. preview' = TouchLastMessage(preview, DateOf[serverId[k]], k)
    BY <1>4, <2>2 DEF SyncTouch
  <2>4. \A m \in Messages : ~TouchPreview(m)
    BY <1>4 DEF SyncTouch, TouchPreview, Goto, delivery
  <2>5. UNCHANGED <<unsent, outrun>>  BY <1>4 DEF SyncTouch, server, history
  <2> QED  BY <1>1, <2>2, <2>3, <2>4, <2>5, PreviewForward
<1>5. CASE SeedPreview
  <2>1. CASE sync.id = 0
    <3>1. preview' = NoPreview  BY <1>5, <2>1 DEF SeedPreview, DialogPreview
    <3>2. \A m \in Messages : pc'[m] = "sent" => m \in outrun'
      BY <1>5, <2>1 DEF SeedPreview, StageIds, delivery
    <3> QED  BY <3>1, <3>2 DEF PreviewNewest, NoPreview
  <2>2. CASE sync.id # 0
    <3> DEFINE k == ServerCopy(sync.id).msg
    <3>1. sync.id \in Accepted /\ sync.id \in ServerIds
      BY <2>2, AcceptedIds DEF InHand
    <3>2. k \in Messages /\ serverId[k] = sync.id  BY <3>1, ServerCopyFacts
    <3>3. preview' = [at |-> DateOf[sync.id], msg |-> k]
      BY <1>5, <2>2 DEF SeedPreview, DialogPreview
    <3>4. DateOf[sync.id] \in Nat  BY <3>1, DateAssumption
    <3>5. Shows(preview')  BY <3>1, <3>2, <3>3, <3>4 DEF Shows
    <3>6. UNCHANGED <<pc, serverId, unsent>>
      BY <1>5 DEF SeedPreview, delivery, server
    <3>7. ASSUME NEW m \in Messages, pc[m] = "sent", m \notin outrun'
          PROVE  preview'.at >= DateOf[serverId[m]]
      <4>1. serverId[m] \in ServerIds  BY <3>7 DEF StageIds
      <4>2. serverId[m] <= sync.id  BY <1>5, <3>1, <3>7, <4>1 DEF SeedPreview
      <4>3. DateOf[serverId[m]] \in Nat  BY <4>1, DateAssumption
      <4>4. DateOf[serverId[m]] <= DateOf[sync.id]
        <5>1. CASE serverId[m] = sync.id  BY <3>4, <5>1
        <5>2. CASE serverId[m] < sync.id  BY <3>1, <4>1, <5>2, DateAssumption
        <5> QED  BY <3>1, <4>1, <4>2, <5>1, <5>2
      <4> QED  BY <3>3, <3>4, <4>3, <4>4
    <3> QED  BY <3>5, <3>6, <3>7, ShowsStays DEF PreviewNewest
  <2> QED  BY <2>1, <2>2
<1>6. ASSUME UNCHANGED preview, unsent \subseteq unsent', outrun' = outrun,
             \A m \in Messages : ~TouchPreview(m)
      PROVE  PreviewNewest'
  <2>1. Shows(preview')  BY <1>6 DEF Shows, PreviewNewest
  <2> QED  BY <1>6, <2>1, PreviewForward
<1> QED
  BY <1>3, <1>4, <1>5, <1>6
  DEF Next, Deliver, Idle, vars, store, server, history, SendMessage, SendFails,
      ServerAccepts, Reply, ReplyLost, Confirm, FailRow, DeleteBegin, DeleteRpcOk,
      DeleteRpcErr, DeleteReplyLost, DeleteLocally, FillBegin, FillReply, FillError,
      FillUpsert, SyncUpsert, SyncDelete, SeedFetch, SeedRow, Crash

-----------------------------------------------------------------------------
(* No two deliveries of one run of the process share a local id: those     *)
(* under way have ids that next_local_id has passed.                       *)

OwnId ==
    \A m, n \in Messages :
        pc[m] \in Live /\ pc[n] \in Live /\ localId[m] = localId[n] => m = n

LEMMA OwnIdStep == Inv /\ OwnId /\ [Next]_vars => OwnId'
<1> SUFFICES ASSUME Inv, OwnId, [Next]_vars PROVE OwnId'  OBVIOUS
<1> USE DEF Inv, TypeOK, OwnId
<1>1. ASSUME NEW m \in Messages, SendMessage(m) PROVE OwnId'
  <2>1. pc' = [pc EXCEPT ![m] = "sending"] /\ localId' = [localId EXCEPT ![m] = nextLocal]
    BY <1>1 DEF SendMessage, Goto
  <2>2. \A n \in Messages : pc[n] \in Live => localId[n] # nextLocal
    BY IdFacts DEF OwnRow, StageIds, Live, BeforeAck
  <2> QED  BY <2>1, <2>2
<1>2. ASSUME NEW m \in Messages, Deliver(m) PROVE OwnId'
  <2>1. UNCHANGED localId
    BY <1>2 DEF Deliver, SendFails, ServerAccepts, Reply, ReplyLost, Confirm,
       TouchPreview, FailRow
  <2>2. \A n \in Messages : pc'[n] \in Live => pc[n] \in Live
    BY <1>2 DEF Deliver, SendFails, ServerAccepts, Reply, ReplyLost, Confirm,
       TouchPreview, FailRow, Goto, Live, BeforeAck
  <2> QED  BY <2>1, <2>2
<1>3. CASE Crash
  BY <1>3 DEF Crash, AfterCrash, Live, BeforeAck
<1>4. CASE UNCHANGED <<pc, localId>>
  BY <1>4
<1> QED
  BY <1>1, <1>2, <1>3, <1>4
  DEF Next, Idle, vars, delivery, DeleteBegin, DeleteRpcOk, DeleteRpcErr, DeleteReplyLost, DeleteLocally,
      FillBegin, FillReply, FillError, FillUpsert, SyncUpsert, SyncDelete, SyncTouch,
      SeedFetch, SeedPreview, SeedRow

-----------------------------------------------------------------------------
(* The theorems.                                                           *)

LEMMA InvInit == Init => Inv
<1> SUFFICES ASSUME Init PROVE Inv  OBVIOUS
<1>1. TypeOK  BY TypeInit
<1>2. Numbering /\ StageIds /\ OwnRow
  BY DEF Init, Numbering, StageIds, OwnRow, Live, BeforeAck
<1>3. InHand  BY DEF Init, InHand, NoDelete, NoFill, NoTask
<1>4. StoredBy /\ SentIsAccepted /\ RowTellsDelivery
  BY DEF Init, StoredBy, SentIsAccepted, RowTellsDelivery, Ids
<1>5. NothingLost /\ PreviewNewest
  BY DEF Init, NothingLost, PreviewNewest, NoPreview
<1> QED  BY <1>1, <1>2, <1>3, <1>4, <1>5 DEF Inv

LEMMA InvStep == Inv /\ [Next]_vars => Inv'
BY TypeStep, NumberingStep, StageIdsStep, OwnRowStep, InHandStep, StoredByStep,
   SentIsAcceptedStep, RowTellsDeliveryStep, NothingLostStep, PreviewStep
DEF Inv

(* In every behaviour of the send path, with any number of messages, ids,  *)
(* deletes, backfills and restarts, the inductive invariant holds.         *)
THEOREM Invariance == Spec => []Inv
BY InvInit, InvStep, PTL DEF Spec

(* Every variable of the send path keeps to its type.                      *)
THEOREM TypeCorrect == Spec => []TypeOK
BY Invariance, PTL DEF Inv

(* A row under a server id is the sent message Telegram gave that id.      *)
THEOREM SentIsAcceptedAlways == Spec => []SentIsAccepted
BY Invariance, PTL DEF Inv

(* A local row says of its delivery what the delivery is.                  *)
THEOREM RowTellsDeliveryAlways == Spec => []RowTellsDelivery
BY Invariance, PTL DEF Inv

(* No message the user sent disappears but by a delete or a reused id.     *)
THEOREM NothingLostAlways == Spec => []NothingLost
BY Invariance, PTL DEF Inv

(* The preview is never older than a finished delivery that Telegram still *)
(* has, but for one that overtook the dialog list it was last seeded from. *)
THEOREM PreviewNewestAlways == Spec => []PreviewNewest
BY Invariance, PTL DEF Inv

(* next_local_id gives no two deliveries that are under way the same id:   *)
(* a local row that a delivery is about to resolve is its own.             *)
THEOREM OwnIdAlways == Spec => []OwnId
<1>1. Init => OwnId
  BY DEF Init, OwnId, Live, BeforeAck
<1> QED  BY <1>1, OwnIdStep, Invariance, PTL DEF Spec
=============================================================================

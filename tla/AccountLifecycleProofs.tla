------------------------ MODULE AccountLifecycleProofs ------------------------
(***************************************************************************)
(* The safety properties of AccountLifecycle, for any accounts, logins and *)
(* disturbances.                                                           *)
(*                                                                         *)
(* The histories are sets of names that only grow, so that each invariant  *)
(* speaks of the flows and accounts they leave out.  Of these, a flow has  *)
(* session-pending to itself (Apart), which brings the session it signed   *)
(* in to the secret of its account (Promoted) and to its sync task         *)
(* (OwnSession); and the account has one promotion, task and logout at a   *)
(* time (Untangled, Revoked), so that nothing else writes either.          *)
(*                                                                         *)
(* One lemma per conjunct of Inv shows that a step preserves it.  Those    *)
(* about a task, a secret, a promotion, a logout and a runtime (TaskStep,  *)
(* SecretStep, PromotionStep, LogoutStep, RuntimeStep) say once which      *)
(* actions change them.                                                    *)
(***************************************************************************)
EXTENDS AccountLifecycle, TLAPS

(* What the histories say of the present: session-pending has one user,    *)
(* the slot belongs to the QR task that is about to take it and to the     *)
(* flow whose token it holds, and an account that is being promoted has no *)
(* logout, runtime, other sync task or other promotion.                    *)
Alone ==
    crossed = {} =>
        \A f, g \in Flows : UsesPending(f) /\ UsesPending(g) => f = g

OwnSlot ==
    crossed = {} /\ pending # None =>
        \A f \in Flows : qr[f] \in Accounts \/ pending.tf = f => pending.flow = f

Untangled ==
    \A f \in Flows : fin[f] \in Finishing /\ who[f] \notin entangled =>
        /\ out[who[f]] = "no" /\ revoke[who[f]] = "no" /\ runtime[who[f]] = None
        /\ \A i \in Instances : live[i] # None /\ AccountOf(i) = who[f] => i = f
        /\ \A g \in Flows : fin[g] \in Finishing /\ who[g] = who[f] => g = f

(* The order in which a flow goes from its begin to its sync task.         *)
Ordered ==
    /\ \A f \in Flows :
        /\ fin[f] # "no" => at[f] = "gone"
        /\ at[f] \in {"new", "deleting", "loading", "requesting"} => qr[f] = "none"
        /\ live[f] # None => fin[f] \in {"insert", "done"}
    /\ pending # None => at[pending.flow] = "gone" /\ fin[pending.flow] = "no"

Owners ==
    \A a \in Accounts : runtime[a] # None =>
        /\ AccountOf(runtime[a]) = a
        /\ runtime[a] \in Flows => fin[runtime[a]] = "done"

(* While no two flows have crossed, session-pending holds the session of   *)
(* the flow that uses it, and a QR task's login is not submitted as well.  *)
Apart ==
    crossed = {} =>
        /\ \A f \in Flows :
            /\ fin[f] # "no" => qr[f] = "none"
            /\ qr[f] \in Accounts => pendingSecret = qr[f] /\ client[f] = qr[f]
            /\ fin[f] = "flush" => pendingSecret = who[f] /\ client[f] = who[f]
            /\ fin[f] = "get" => pendingSecret = who[f]
            /\ fin[f] = "set" => bytes[f] = who[f]
        /\ pending # None /\ qr[pending.flow] # "none" =>
            pending.code = None /\ pending.tf = None /\ submit = "no"

Excused(a) == a \in entangled \cup cut \/ crossed # {}

(* A promotion past FinSet has stored the session of its account, a sync   *)
(* task holds it, and one that reports a revocation has ended.             *)
Promoted ==
    \A f \in Flows : fin[f] \in {"clear", "upsert", "load"} =>
        secret[who[f]] = who[f] \/ Excused(who[f])

OwnSession ==
    \A i \in Instances : live[i] # None => live[i] = AccountOf(i) \/ Excused(AccountOf(i))

Revoked ==
    \A i \in Instances : live[i] # None =>
        revoke[AccountOf(i)] = "no" \/ AccountOf(i) \in entangled

Recorded == Alone /\ OwnSlot /\ Untangled

Inv ==
    /\ TypeOK /\ Recorded /\ Ordered /\ Owners /\ Apart /\ Promoted
    /\ OwnSession /\ Revoked
    /\ AuthorizedHasSession /\ EverySyncIsOwned

-----------------------------------------------------------------------------
LEMMA InitType == Init => TypeOK
<1> SUFFICES ASSUME Init PROVE TypeOK
  OBVIOUS
<1> USE DEF Init, Sessions, Instances
<1>1. live \in [Instances -> Sessions \cup {None}] /\ runtime \in [Accounts -> Instances \cup {None}]
  BY NamesAssumption DEF Resumed, Loaded
<1>2. secret \in [Accounts -> Sessions \cup {None}]
  OBVIOUS
<1>3. disturbed \in 0 .. MaxDisturb
  BY MaxDisturbAssumption
<1> QED
  BY <1>1, <1>2, <1>3 DEF TypeOK, Finishing, Moving

LEMMA TypeStep == TypeOK /\ [Next]_vars => TypeOK'
<1> SUFFICES ASSUME TypeOK, [Next]_vars PROVE TypeOK'
  OBVIOUS
<1> USE NamesAssumption, MaxDisturbAssumption DEF TypeOK, PendingLogin, Keeping, Disturbing, Track, login, promotion, account, stored, history
<1>0. Track => crossed' \subseteq Flows /\ entangled' \subseteq Accounts
  BY DEF Crossing, Entangled
<1>1. ASSUME NEW f \in Flows, Begin(f) PROVE TypeOK'
  BY <1>0, <1>1 DEF Begin, AfterAbort, PendingLocked
<1>2. ASSUME NEW f \in Flows, BeginDelete(f) \/ BeginLoad(f) \/ RequestFails(f) \/ Store(f)
      PROVE TypeOK'
  BY <1>0, <1>2 DEF BeginDelete, BeginLoad, RequestFails, Store, Loaded, Sessions, PendingLocked
<1>3. CASE SubmitCode \/ SubmitPassword \/ PasswordNeeded
  <2>1. pending' \in PendingLogin
    <3>1. PICK p \in PendingLogin : p = pending
      BY <1>3 DEF SubmitCode, SubmitPassword, PasswordNeeded
    <3>2. pending' = [p EXCEPT !.code = None] \/ pending' = [p EXCEPT !.tf = None]
          \/ pending' = [p EXCEPT !.tf = p.flow]
      BY <1>3, <3>1 DEF SubmitCode, SubmitPassword, PasswordNeeded
    <3> HIDE DEF TypeOK, Keeping, Track
    <3> QED
      BY <3>1, <3>2
  <2>2. submit' \in {"no", "code", "password"} /\ pending' # None
    BY <1>3, <2>1 DEF SubmitCode, SubmitPassword, PasswordNeeded
  <2> QED
    BY <1>0, <1>3, <2>1, <2>2 DEF SubmitCode, SubmitPassword, PasswordNeeded
<1>4. CASE SubmitFails
  BY <1>0, <1>4 DEF SubmitFails, Sessions
<1>5. ASSUME NEW a \in Accounts, SubmitOk(a) PROVE TypeOK'
  BY <1>0, <1>5 DEF SubmitOk, AfterLogin, AfterAbort, Sessions, Finishing, Moving
<1>6. ASSUME NEW f \in Flows, NEW a \in Accounts, QrAuthorized(f, a) PROVE TypeOK'
  BY <1>0, <1>6 DEF QrAuthorized, AfterLogin, Sessions
<1>7. ASSUME NEW f \in Flows, QrPassword(f) \/ QrFails(f) \/ QrPromote(f) \/ QrTooLate(f)
      PROVE TypeOK'
  BY <1>0, <1>7 DEF QrPassword, QrFails, QrPromote, QrTooLate, PendingLocked, Finishing, Moving, Sessions
<1>8. ASSUME NEW f \in Flows, Finalize(f) PROVE TypeOK'
  <2> USE DEF Finishing, Moving
  <2>1. CASE FinFails(f)
    BY <1>0, <2>1 DEF FinFails, Sessions
  <2>2. CASE FinFlush(f)
    BY <1>0, <2>2 DEF FinFlush
  <2>3. CASE FinGet(f)
    BY <1>0, <2>3 DEF FinGet, Loaded, Sessions
  <2>4. CASE FinSet(f)
    BY <1>0, <2>4 DEF FinSet, Sessions
  <2>5. CASE FinClear(f)
    BY <1>0, <2>5 DEF FinClear, Sessions
  <2>6. CASE FinUpsert(f)
    BY <1>0, <2>6 DEF FinUpsert
  <2>7. CASE FinLoad(f)
    BY <1>0, <2>7 DEF FinLoad, Loaded, Sessions, Instances
  <2>8. CASE FinInsert(f)
    BY <1>0, <2>8 DEF FinInsert, Instances
  <2> QED
    BY <1>8, <2>1, <2>2, <2>3, <2>4, <2>5, <2>6, <2>7, <2>8 DEF Finalize
<1>9. ASSUME NEW i \in Instances, SyncFlush(i) \/ SyncEnds(i) \/ SyncRevoked(i)
      PROVE TypeOK'
  BY <1>0, <1>9 DEF SyncFlush, SyncEnds, SyncRevoked
<1>10. ASSUME NEW a \in Accounts, RevokeDelete(a) \/ RevokeRecord(a) \/ RevokeRemove(a)
       PROVE TypeOK'
  BY <1>0, <1>10 DEF RevokeDelete, RevokeRecord, RevokeRemove
<1>11. ASSUME NEW a \in Accounts,
              SignOutBegin(a) \/ SignOutDestroy(a) \/ SignOutStored(a) \/ SignOutRecord(a)
       PROVE TypeOK'
  BY <1>0, <1>11 DEF SignOutBegin, SignOutDestroy, SignOutStored, SignOutRecord, Aborted
<1>12. CASE ShutdownRuntimes
  BY <1>0, <1>12 DEF ShutdownRuntimes, Aborted
<1>13. CASE ShutdownPending
  BY <1>0, <1>13 DEF ShutdownPending, AfterAbort, PendingLocked
<1>14. CASE Restart
  <2>1. runtime' \in [Accounts -> Instances \cup {None}] /\ live' \in [Instances -> Sessions \cup {None}]
    BY <1>14 DEF Restart, Loaded, Sessions, Instances
  <2>2. cut' \subseteq Accounts /\ crossed' \subseteq Flows /\ entangled' \subseteq Accounts
    BY <1>0, <1>14 DEF Restart
  <2>3. /\ fin' \in [Flows -> {"no", "done", "failed"} \cup Finishing]
        /\ \A f \in Flows : ~(fin'[f] \in Finishing \cup {"done"})
    BY <1>14 DEF Restart, Finishing, Moving
  <2> QED
    BY <1>14, <2>1, <2>2, <2>3 DEF Restart, Sessions
<1>15. CASE UNCHANGED vars
  BY <1>15 DEF vars
<1> QED
  BY <1>1, <1>2, <1>3, <1>4, <1>5, <1>6, <1>7, <1>8, <1>9, <1>10, <1>11, <1>12, <1>13, <1>14, <1>15
  DEF Next
-----------------------------------------------------------------------------
(* Every step records what there is to record.                             *)
LEMMA NextTracks == Next => Track
BY DEF Next, Finalize, Keeping, Disturbing, Begin, BeginDelete, BeginLoad, RequestFails, Store,
   SubmitCode, SubmitPassword, PasswordNeeded, SubmitFails, SubmitOk, QrAuthorized, QrPassword,
   QrFails, QrPromote, QrTooLate, FinFails, FinFlush, FinGet, FinSet, FinClear, FinUpsert,
   FinLoad, FinInsert, SyncFlush, SyncEnds, SyncRevoked, RevokeDelete, RevokeRecord,
   RevokeRemove, SignOutBegin, SignOutDestroy, SignOutStored, SignOutRecord,
   ShutdownRuntimes, ShutdownPending, Restart

LEMMA RecordedStep == ASSUME TypeOK', Next PROVE Recorded'
<1>1. Crossing' \subseteq crossed' /\ Entangled' \subseteq entangled'
  BY NextTracks DEF Track
<1>2. Alone'
  BY <1>1 DEF Alone, Crossing
<1>3. OwnSlot'
  BY <1>1 DEF OwnSlot, Crossing
<1>4. Untangled'
  BY <1>1, NamesAssumption DEF Untangled, Entangled, TypeOK, Finishing, Moving
<1> QED
  BY <1>2, <1>3, <1>4 DEF Recorded

LEMMA Monotone ==
    ASSUME TypeOK, Next
    PROVE  /\ crossed \subseteq crossed' /\ entangled \subseteq entangled'
           /\ crossed' = {} => crossed = {}
           /\ \A a : Excused(a) => Excused(a)'
<1>1. crossed \subseteq crossed' /\ entangled \subseteq entangled'
  BY NextTracks DEF Track
<1>2. cut \subseteq cut'
  BY DEF Next, Finalize, Keeping, Disturbing, Begin, BeginDelete, BeginLoad, RequestFails, Store,
     SubmitCode, SubmitPassword, PasswordNeeded, SubmitFails, SubmitOk, QrAuthorized, QrPassword,
     QrFails, QrPromote, QrTooLate, FinFails, FinFlush, FinGet, FinSet, FinClear, FinUpsert,
     FinLoad, FinInsert, SyncFlush, SyncEnds, SyncRevoked, RevokeDelete, RevokeRecord,
     RevokeRemove, SignOutBegin, SignOutDestroy, SignOutStored, SignOutRecord,
     ShutdownRuntimes, ShutdownPending, Restart
<1> QED
  BY <1>1, <1>2 DEF Excused
-----------------------------------------------------------------------------
LEMMA OrderedStep == ASSUME TypeOK, TypeOK', Ordered, Next PROVE Ordered'
<1> USE NamesAssumption DEF TypeOK, Keeping, Disturbing, Ordered, Finishing, Moving,
        login, promotion, account
<1>1. ASSUME NEW f \in Flows, Begin(f) PROVE Ordered'
  BY <1>1 DEF Begin, AfterAbort, PendingLogin
<1>2. ASSUME NEW f \in Flows, BeginDelete(f) \/ BeginLoad(f) \/ RequestFails(f) PROVE Ordered'
  <2>1. fin[f] = "no" /\ live[f] = None /\ (pending # None => pending.flow # f)
    BY <1>2 DEF BeginDelete, BeginLoad, RequestFails
  <2>2. pending' = pending /\ live' = live /\ fin' = fin /\ \A g \in Flows \ {f} : at'[g] = at[g] /\ qr'[g] = qr[g]
    BY <1>2 DEF BeginDelete, BeginLoad, RequestFails
  <2>3. at'[f] \in {"loading", "requesting"} => qr'[f] = "none"
    BY <1>2 DEF BeginDelete, BeginLoad, RequestFails
  <2>4. at'[f] \in {"loading", "requesting", "spawned", "gone"}
    BY <1>2 DEF BeginDelete, BeginLoad, RequestFails
  <2> QED
    BY <2>1, <2>2, <2>3, <2>4 DEF PendingLogin
<1>3. ASSUME NEW f \in Flows, Store(f) PROVE Ordered'
  BY <1>3 DEF Store, PendingLogin
<1>4. CASE SubmitCode \/ SubmitPassword \/ PasswordNeeded
  <2>1. pending' # None /\ pending # None /\ pending'.flow = pending.flow
    BY <1>4 DEF SubmitCode, SubmitPassword, PasswordNeeded, PendingLogin
  <2> QED
    BY <1>4, <2>1 DEF SubmitCode, SubmitPassword, PasswordNeeded
<1>5. CASE SubmitFails
  <2>1. pending' # None /\ pending # None /\ pending'.flow = pending.flow
    BY <1>5 DEF SubmitFails, PendingLogin
  <2> QED
    BY <1>5, <2>1 DEF SubmitFails
<1>6. ASSUME NEW a \in Accounts, SubmitOk(a) PROVE Ordered'
  BY <1>6 DEF SubmitOk, AfterLogin, AfterAbort, PendingLogin
<1>7. ASSUME NEW f \in Flows, NEW a \in Accounts, QrAuthorized(f, a) PROVE Ordered'
  BY <1>7 DEF QrAuthorized, AfterLogin
<1>8. ASSUME NEW f \in Flows, QrPassword(f) PROVE Ordered'
  <2>1. pending' # None => pending # None /\ pending'.flow = pending.flow
    BY <1>8 DEF QrPassword, PendingLogin
  <2> QED
    BY <1>8, <2>1 DEF QrPassword
<1>9. ASSUME NEW f \in Flows, QrFails(f) \/ QrTooLate(f) PROVE Ordered'
  BY <1>9 DEF QrFails, QrTooLate
<1>10. ASSUME NEW f \in Flows, QrPromote(f) PROVE Ordered'
  BY <1>10 DEF QrPromote, PendingLogin
<1>11. ASSUME NEW f \in Flows, Finalize(f) PROVE Ordered'
  BY <1>11 DEF Finalize, FinFails, FinFlush, FinGet, FinSet, FinClear, FinUpsert, FinLoad,
     FinInsert, Instances, PendingLogin
<1>12. ASSUME NEW i \in Instances, SyncFlush(i) \/ SyncEnds(i) \/ SyncRevoked(i)
       PROVE Ordered'
  BY <1>12 DEF SyncFlush, SyncEnds, SyncRevoked, Instances
<1>13. ASSUME NEW a \in Accounts, RevokeDelete(a) \/ RevokeRecord(a) \/ RevokeRemove(a)
       PROVE Ordered'
  BY <1>13 DEF RevokeDelete, RevokeRecord, RevokeRemove
<1>14. ASSUME NEW a \in Accounts,
              SignOutBegin(a) \/ SignOutDestroy(a) \/ SignOutStored(a) \/ SignOutRecord(a)
       PROVE Ordered'
  BY <1>14 DEF SignOutBegin, SignOutDestroy, SignOutStored, SignOutRecord, Aborted, Instances
<1>15. CASE ShutdownRuntimes
  BY <1>15 DEF ShutdownRuntimes, Aborted, Instances
<1>16. CASE ShutdownPending
  BY <1>16 DEF ShutdownPending, AfterAbort, PendingLogin
<1>17. CASE Restart
  BY <1>17 DEF Restart, Instances
<1> QED
  BY <1>1, <1>2, <1>3, <1>4, <1>5, <1>6, <1>7, <1>8, <1>9, <1>10, <1>11, <1>12, <1>13, <1>14,
     <1>15, <1>16, <1>17 DEF Next

LEMMA OwnersStep == ASSUME TypeOK, TypeOK', Ordered, Owners, Next PROVE Owners'
<1> USE NamesAssumption DEF TypeOK, Keeping, Disturbing, Owners, Finishing, Moving,
        login, promotion, account, AccountOf, Instances
<1>1. CASE UNCHANGED <<runtime, fin, who>>
  BY <1>1
<1>2. ASSUME NEW a \in Accounts, SubmitOk(a) PROVE Owners'
  BY <1>2 DEF SubmitOk, PendingLogin, Ordered
<1>3. ASSUME NEW f \in Flows, QrPromote(f) PROVE Owners'
  BY <1>3 DEF QrPromote, PendingLogin, Ordered
<1>4. ASSUME NEW f \in Flows, Finalize(f) PROVE Owners'
  <2>1. fin[f] # "done" /\ \A g \in Flows \ {f} : fin'[g] = fin[g] /\ who'[g] = who[g]
    BY <1>4 DEF Finalize, FinFails, FinFlush, FinGet, FinSet, FinClear, FinUpsert, FinLoad, FinInsert
  <2>2. CASE FinInsert(f)
    BY <2>1, <2>2 DEF FinInsert
  <2>3. CASE ~FinInsert(f)
    <3>1. runtime' = runtime
      BY <1>4, <2>3 DEF Finalize, FinFails, FinFlush, FinGet, FinSet, FinClear, FinUpsert, FinLoad
    <3> QED
      BY <2>1, <3>1
  <2> QED
    BY <2>2, <2>3
<1>5. ASSUME NEW a \in Accounts, RevokeRemove(a) \/ SignOutBegin(a) PROVE Owners'
  BY <1>5 DEF RevokeRemove, SignOutBegin
<1>6. CASE ShutdownRuntimes \/ Restart
  BY <1>6 DEF ShutdownRuntimes, Restart
<1> QED
  BY <1>1, <1>2, <1>3, <1>4, <1>5, <1>6 DEF Next, Begin, BeginDelete, BeginLoad, RequestFails, Store,
   SubmitCode, SubmitPassword, PasswordNeeded, SubmitFails, QrAuthorized, QrPassword,
   QrFails, QrTooLate, SyncFlush, SyncEnds, SyncRevoked, RevokeDelete, RevokeRecord,
   SignOutDestroy, SignOutStored, SignOutRecord, ShutdownPending

LEMMA ApartStep ==
    ASSUME TypeOK, TypeOK', Recorded, Recorded', Ordered, Apart, Next
    PROVE  Apart'
<1> SUFFICES ASSUME crossed' = {} PROVE Apart'
  BY DEF Apart
<1>0. crossed = {}
  BY Monotone
<1>a. \A f, g \in Flows : UsesPending(f) /\ UsesPending(g) => f = g
  BY <1>0 DEF Recorded, Alone
<1>b. \A f, g \in Flows : UsesPending(f)' /\ UsesPending(g)' => f = g
  BY DEF Recorded, Alone
<1>c. pending # None => \A f \in Flows : qr[f] \in Accounts \/ pending.tf = f => pending.flow = f
  BY <1>0 DEF Recorded, OwnSlot
<1>d. pending' # None => \A f \in Flows : pending'.tf = f => pending'.flow = f
  BY DEF Recorded, OwnSlot
<1> USE NamesAssumption, <1>0 DEF TypeOK, Keeping, Disturbing, Apart, UsesPending,
        login, promotion, account, stored, Moving
<1>1. ASSUME NEW f \in Flows, Begin(f) PROVE Apart'
  BY <1>1 DEF Begin, AfterAbort, PendingLogin, Ordered
<1>2. ASSUME NEW f \in Flows, BeginDelete(f) PROVE Apart'
  BY <1>2, <1>a DEF BeginDelete, Ordered
<1>3. ASSUME NEW f \in Flows, BeginLoad(f) \/ RequestFails(f) PROVE Apart'
  <2>1. fin[f] = "no" /\ qr[f] = "none" /\ (pending # None => pending.flow # f)
    BY <1>3 DEF BeginLoad, RequestFails, Ordered
  <2>2. /\ pending' = pending /\ pendingSecret' = pendingSecret /\ fin' = fin /\ who' = who
        /\ bytes' = bytes /\ submit' = submit
        /\ \A g \in Flows \ {f} : qr'[g] = qr[g] /\ client'[g] = client[g]
        /\ qr'[f] \in {"none", "scanning"}
    BY <1>3, <2>1 DEF BeginLoad, RequestFails
  <2> QED
    BY <2>1, <2>2 DEF PendingLogin
<1>4. ASSUME NEW f \in Flows, Store(f) PROVE Apart'
  <2>1. /\ pending' # None /\ pending'.flow = f /\ submit' = "no"
        /\ qr[f] # "none" => pending'.code = None /\ pending'.tf = None
    BY <1>4 DEF Store, PendingLogin, Ordered, PendingLocked
  <2> QED
    BY <1>4, <2>1 DEF Store
<1>5. CASE SubmitCode \/ SubmitPassword \/ PasswordNeeded
  <2>1. /\ pending' # None /\ pending # None /\ pending'.flow = pending.flow
        /\ qr[pending.flow] = "none"
    BY <1>5 DEF SubmitCode, SubmitPassword, PasswordNeeded, PendingLogin
  <2> QED
    BY <1>5, <2>1 DEF SubmitCode, SubmitPassword, PasswordNeeded
<1>6. CASE SubmitFails
  <2>1. /\ pending' # None /\ pending # None /\ pending'.flow = pending.flow
        /\ qr[pending.flow] = "none" /\ fin[pending.flow] = "no" /\ pending.flow \in Flows
    BY <1>6 DEF SubmitFails, PendingLogin, Ordered
  <2> QED
    BY <1>6, <2>1 DEF SubmitFails
<1>7. ASSUME NEW a \in Accounts, SubmitOk(a) PROVE Apart'
  <2>1. PICK f \in Flows : f = pending.flow
    BY <1>7 DEF SubmitOk, PendingLogin
  <2>2. qr[f] = "none" /\ fin[f] = "no"
    BY <1>7, <2>1 DEF SubmitOk, Ordered
  <2>3. /\ qr'[f] = "none" /\ fin'[f] = "flush" /\ who'[f] = a /\ client'[f] = a
        /\ pendingSecret' = a /\ pending' = None /\ bytes' = bytes
        /\ \A g \in Flows \ {f} : qr'[g] = qr[g] /\ fin'[g] = fin[g]
    BY <1>7, <2>1, <2>2 DEF SubmitOk, AfterLogin, AfterAbort
  <2>4. \A g \in Flows \ {f} : ~UsesPending(g)'
    BY <2>3, <1>b
  <2> QED
    BY <2>3, <2>4
<1>8. ASSUME NEW f \in Flows, NEW a \in Accounts, QrAuthorized(f, a) PROVE Apart'
  <2>1. \A g \in Flows \ {f} : ~UsesPending(g)'
    BY <1>8, <1>b DEF QrAuthorized
  <2> QED
    BY <1>8, <2>1 DEF QrAuthorized, AfterLogin
<1>9. ASSUME NEW f \in Flows, QrPassword(f) PROVE Apart'
  <2>1. pending' # None => pending'.flow = f
    BY <1>9, <1>d DEF QrPassword, PendingLogin
  <2> QED
    BY <1>9, <2>1 DEF QrPassword
<1>10. ASSUME NEW f \in Flows, QrFails(f) \/ QrTooLate(f) PROVE Apart'
  <2>1. /\ \A g \in Flows : qr'[g] \in {qr[g], "none"}
        /\ qr'[f] = "none" /\ fin[f] = "no"
        /\ \A g \in Flows \ {f} : client'[g] = client[g]
        /\ UNCHANGED <<pending, submit, fin, who, bytes, pendingSecret>>
    BY <1>10 DEF QrFails, QrTooLate
  <2> QED
    BY <2>1 DEF PendingLogin
<1>11. ASSUME NEW f \in Flows, QrPromote(f) PROVE Apart'
  <2>1. pending.flow = f
    BY <1>11, <1>c DEF QrPromote
  <2> QED
    BY <1>11, <2>1 DEF QrPromote
<1>12. ASSUME NEW f \in Flows, Finalize(f) PROVE Apart'
  <2>1. CASE FinFails(f)
    <3>1. pending # None => pending.flow # f
      BY <2>1 DEF FinFails, Ordered
    <3> QED
      BY <2>1, <3>1 DEF FinFails
  <2>2. CASE FinFlush(f)
    BY <2>2, <1>a DEF FinFlush
  <2>3. CASE FinGet(f)
    BY <2>3 DEF FinGet, Loaded, Finishing
  <2>4. CASE FinSet(f)
    BY <2>4 DEF FinSet
  <2>5. CASE FinClear(f)
    <3>1. \A g \in Flows \ {f} : ~UsesPending(g)
      BY <2>5, <1>a DEF FinClear
    <3> QED
      BY <2>5, <3>1 DEF FinClear
  <2>6. CASE FinUpsert(f) \/ FinLoad(f) \/ FinInsert(f)
    BY <2>6 DEF FinUpsert, FinLoad, FinInsert
  <2> QED
    BY <1>12, <2>1, <2>2, <2>3, <2>4, <2>5, <2>6 DEF Finalize
<1>13. CASE UNCHANGED <<login, promotion, pendingSecret>>
  BY <1>13
<1>14. CASE ShutdownPending
  <2>1. /\ pending' = None /\ \A f \in Flows : qr'[f] \in {qr[f], "none"}
        /\ UNCHANGED <<client, submit, fin, who, bytes, pendingSecret>>
    BY <1>14 DEF ShutdownPending, AfterAbort, PendingLogin
  <2> QED
    BY <2>1
<1>15. CASE Restart
  BY <1>15 DEF Restart
<1> QED
  BY <1>1, <1>2, <1>3, <1>4, <1>5, <1>6, <1>7, <1>8, <1>9, <1>10, <1>11, <1>12, <1>13, <1>14, <1>15
  DEF Next, SyncFlush, SyncEnds, SyncRevoked, RevokeDelete, RevokeRecord, RevokeRemove,
   SignOutBegin, SignOutDestroy, SignOutStored, SignOutRecord, ShutdownRuntimes

(* A task keeps its session and its account as long as it runs.            *)
LEMMA TaskStep ==
    ASSUME TypeOK, TypeOK', Ordered, Next, ~Restart, NEW i \in Instances, live'[i] # None
    PROVE  /\ AccountOf(i)' = AccountOf(i)
           /\ \/ live'[i] = live[i]
              \/ /\ i \in Flows /\ fin[i] = "load" /\ fin'[i] = "insert"
                 /\ live'[i] = Loaded(secret[who[i]])
<1> DEFINE Kept == /\ AccountOf(i)' = AccountOf(i)
                   /\ \/ live'[i] = live[i]
                      \/ /\ i \in Flows /\ fin[i] = "load" /\ fin'[i] = "insert"
                         /\ live'[i] = Loaded(secret[who[i]])
<1> USE NamesAssumption DEF TypeOK, Keeping, Disturbing, AccountOf, Instances,
        login, promotion, account
<1>1. ASSUME UNCHANGED <<live, who>>
      PROVE Kept
  BY <1>1
<1>2. ASSUME NEW a \in Accounts, SubmitOk(a)
      PROVE Kept
  <2>1. PICK f \in Flows : f = pending.flow /\ fin[f] = "no"
    BY <1>2 DEF SubmitOk, PendingLogin, Ordered
  <2>2. i # f
    BY <1>2, <2>1 DEF SubmitOk, Ordered
  <2> QED
    BY <1>2, <2>1, <2>2 DEF SubmitOk
<1>3. ASSUME NEW f \in Flows, QrPromote(f)
      PROVE Kept
  <2>1. PICK g \in Flows : g = pending.flow /\ fin[g] = "no"
    BY <1>3 DEF QrPromote, PendingLogin, Ordered
  <2>2. i # g
    BY <1>3, <2>1 DEF QrPromote, Ordered
  <2> QED
    BY <1>3, <2>1, <2>2 DEF QrPromote
<1>4. ASSUME NEW f \in Flows, FinFails(f)
      PROVE Kept
  <2>1. i # f
    BY <1>4 DEF FinFails, Ordered, Moving
  <2> QED
    BY <1>4, <2>1 DEF FinFails
<1>5. ASSUME NEW f \in Flows, FinLoad(f)
      PROVE Kept
  BY <1>5 DEF FinLoad
<1>6. ASSUME NEW f \in Flows, FinFlush(f) \/ FinGet(f) \/ FinSet(f) \/ FinClear(f)
                              \/ FinUpsert(f) \/ FinInsert(f)
      PROVE Kept
  BY <1>6 DEF FinFlush, FinGet, FinSet, FinClear, FinUpsert, FinInsert
<1>7. ASSUME NEW j \in Instances, SyncEnds(j) \/ SyncRevoked(j)
      PROVE Kept
  BY <1>7 DEF SyncEnds, SyncRevoked
<1>8. ASSUME (\E a \in Accounts : SignOutBegin(a)) \/ ShutdownRuntimes
      PROVE Kept
  BY <1>8 DEF SignOutBegin, ShutdownRuntimes, Aborted
<1>9. ASSUME ~\E a \in Accounts : SubmitOk(a) \/ SignOutBegin(a),
             ~\E f \in Flows : QrPromote(f) \/ Finalize(f),
             ~\E j \in Instances : SyncEnds(j) \/ SyncRevoked(j),
             ~ShutdownRuntimes
      PROVE Kept
  BY <1>1, <1>9
  DEF Next, Begin, BeginDelete, BeginLoad, RequestFails, Store, SubmitCode,
   SubmitPassword, PasswordNeeded, SubmitFails, QrAuthorized, QrPassword, QrFails, QrTooLate,
   SyncFlush, RevokeDelete, RevokeRecord, RevokeRemove, SignOutDestroy, SignOutStored,
   SignOutRecord, ShutdownPending
<1> HIDE DEF Kept
<1>10. Kept
  BY <1>2, <1>3, <1>4, <1>5, <1>6, <1>7, <1>8, <1>9 DEF Finalize
<1> QED
  BY <1>10 DEF Kept

(* What writes the secret of an account.                                   *)
LEMMA SecretStep ==
    ASSUME TypeOK, TypeOK', Owners, Next, NEW a \in Accounts
    PROVE  \/ secret'[a] = secret[a]
           \/ \E f \in Flows : /\ fin[f] = "set" /\ fin'[f] = "clear"
                               /\ who[f] = a /\ secret'[a] = bytes[f]
           \/ \E i \in Instances : /\ live[i] # None /\ AccountOf(i) = a
                                   /\ secret'[a] = live[i]
                                   /\ live'[i] = live[i] \/ runtime[a] = i
           \/ revoke'[a] = "record" \/ out'[a] = "record"
<1> DEFINE Written ==
       \/ secret'[a] = secret[a]
       \/ \E f \in Flows : /\ fin[f] = "set" /\ fin'[f] = "clear"
                           /\ who[f] = a /\ secret'[a] = bytes[f]
       \/ \E i \in Instances : /\ live[i] # None /\ AccountOf(i) = a
                               /\ secret'[a] = live[i]
                               /\ live'[i] = live[i] \/ runtime[a] = i
       \/ revoke'[a] = "record" \/ out'[a] = "record"
<1> USE NamesAssumption DEF TypeOK, Keeping, Disturbing, stored
<1>1. ASSUME NEW f \in Flows, FinSet(f) PROVE Written
  BY <1>1 DEF FinSet, Finishing, Moving
<1>2. ASSUME NEW i \in Instances, SyncFlush(i) PROVE Written
  BY <1>2 DEF SyncFlush, account
<1>3. CASE ShutdownRuntimes
  BY <1>3 DEF ShutdownRuntimes, Owners, Instances
<1>4. ASSUME NEW b \in Accounts, RevokeDelete(b) \/ SignOutDestroy(b) \/ SignOutStored(b)
      PROVE Written
  BY <1>4 DEF RevokeDelete, SignOutDestroy, SignOutStored
<1>5. ASSUME ~\E f \in Flows : FinSet(f), ~\E i \in Instances : SyncFlush(i), ~ShutdownRuntimes,
             ~\E b \in Accounts : RevokeDelete(b) \/ SignOutDestroy(b) \/ SignOutStored(b)
      PROVE secret' = secret
  BY <1>5 DEF Next, Finalize, Begin, BeginDelete, BeginLoad, RequestFails, Store, SubmitCode,
     SubmitPassword, PasswordNeeded, SubmitFails, SubmitOk, QrAuthorized, QrPassword, QrFails,
     QrPromote, QrTooLate, FinFails, FinFlush, FinGet, FinClear, FinUpsert, FinLoad, FinInsert,
     SyncEnds, SyncRevoked, RevokeRecord, RevokeRemove, SignOutBegin, SignOutRecord,
     ShutdownPending, Restart
<1>6. Written
  <2> HIDE DEF TypeOK, Keeping, Disturbing
  <2> QED
    BY <1>1, <1>2, <1>3, <1>4, <1>5
<1> QED
  BY <1>6 DEF Written

(* The way of a promotion from the stored secret to the runtime.           *)
LEMMA PromotionStep ==
    ASSUME TypeOK, TypeOK', Ordered, Next, NEW f \in Flows
    PROVE  /\ fin'[f] \in {"clear", "upsert", "load"} =>
                /\ who'[f] = who[f]
                /\ \/ fin[f] \in {"clear", "upsert", "load"}
                   \/ fin[f] = "set" /\ secret'[who[f]] = bytes[f]
           /\ fin[f] = "insert" =>
                fin'[f] \in {"insert", "failed"} \/ runtime'[who[f]] = f
           /\ ~Restart /\ fin[f] = "insert" => fin'[f] # "failed"
<1> DEFINE Way ==
       /\ fin'[f] \in {"clear", "upsert", "load"} =>
            /\ who'[f] = who[f]
            /\ \/ fin[f] \in {"clear", "upsert", "load"}
               \/ fin[f] = "set" /\ secret'[who[f]] = bytes[f]
       /\ fin[f] = "insert" =>
            fin'[f] \in {"insert", "failed"} \/ runtime'[who[f]] = f
       /\ fin[f] = "insert" => fin'[f] # "failed"
<1> USE DEF TypeOK, Keeping, Disturbing, promotion, Finishing, Moving
<1>1. ASSUME UNCHANGED <<fin, who>> PROVE Way
  BY <1>1
<1>2. ASSUME NEW a \in Accounts, SubmitOk(a) PROVE Way
  <2>1. PICK g \in Flows : g = pending.flow /\ fin[g] = "no"
    BY <1>2 DEF SubmitOk, PendingLogin, Ordered
  <2> QED
    BY <1>2, <2>1 DEF SubmitOk
<1>3. ASSUME NEW h \in Flows, QrPromote(h) PROVE Way
  <2>1. PICK g \in Flows : g = pending.flow /\ fin[g] = "no"
    BY <1>3 DEF QrPromote, PendingLogin, Ordered
  <2> QED
    BY <1>3, <2>1 DEF QrPromote
<1>4. ASSUME NEW g \in Flows, Finalize(g) PROVE Way
  <2>1. CASE FinSet(g)
    BY <2>1 DEF FinSet
  <2>2. CASE FinInsert(g)
    BY <2>2 DEF FinInsert
  <2>3. CASE FinFails(g)
    BY <2>3 DEF FinFails
  <2>4. CASE FinFlush(g) \/ FinGet(g) \/ FinClear(g) \/ FinUpsert(g) \/ FinLoad(g)
    BY <2>4 DEF FinFlush, FinGet, FinClear, FinUpsert, FinLoad
  <2> QED
    BY <1>4, <2>1, <2>2, <2>3, <2>4 DEF Finalize
<1>5. ASSUME ~\E a \in Accounts : SubmitOk(a), ~\E g \in Flows : QrPromote(g) \/ Finalize(g),
             ~Restart
      PROVE UNCHANGED <<fin, who>>
  BY <1>5 DEF Next, Begin, BeginDelete, BeginLoad, RequestFails, Store, SubmitCode,
   SubmitPassword, PasswordNeeded, SubmitFails, QrAuthorized, QrPassword, QrFails, QrTooLate,
   SyncFlush, SyncEnds, SyncRevoked, RevokeDelete, RevokeRecord, RevokeRemove, SignOutBegin,
   SignOutDestroy, SignOutStored, SignOutRecord, ShutdownRuntimes, ShutdownPending
<1>6. ASSUME ~Restart PROVE Way
  <2> HIDE DEF TypeOK, Keeping, Disturbing, Way
  <2> QED
    BY <1>1, <1>2, <1>3, <1>4, <1>5, <1>6
<1>7. ASSUME Restart PROVE ~(fin'[f] \in Finishing) /\ (fin[f] = "insert" => fin'[f] = "failed")
  BY <1>7 DEF Restart
<1> QED
  <2> HIDE DEF TypeOK
  <2> QED
    BY <1>6, <1>7 DEF Way

(* A logout that is about to be recorded is, unless a restart cuts it off. *)
LEMMA LogoutStep ==
    ASSUME TypeOK, TypeOK', Next, NEW a \in Accounts, a \in authorized'
    PROVE  /\ out[a] = "record" \/ revoke[a] = "record" =>
                out'[a] = "record" \/ revoke'[a] = "record" \/ a \in cut'
           /\ \/ a \in authorized
              \/ \E f \in Flows : fin[f] = "upsert" /\ who[f] = a /\ secret' = secret
<1> USE DEF TypeOK, Keeping, Disturbing, account, stored, history
<1>1. a \in authorized \/ \E f \in Flows : fin[f] = "upsert" /\ who[f] = a /\ secret' = secret
  <2>1. ASSUME NEW f \in Flows, FinUpsert(f)
        PROVE secret' = secret /\ fin[f] = "upsert" /\ authorized' = authorized \cup {who[f]}
    BY <2>1 DEF FinUpsert
  <2>2. CASE \E b \in Accounts : RevokeRecord(b) \/ SignOutRecord(b)
    BY <2>2 DEF RevokeRecord, SignOutRecord
  <2>3. ASSUME ~\E f \in Flows : FinUpsert(f),
               ~\E b \in Accounts : RevokeRecord(b) \/ SignOutRecord(b)
        PROVE authorized' = authorized
    <3> HIDE DEF TypeOK
    <3> QED
      BY <2>3 DEF Next, Finalize, Begin, BeginDelete, BeginLoad, RequestFails, Store, SubmitCode,
     SubmitPassword, PasswordNeeded, SubmitFails, SubmitOk, QrAuthorized, QrPassword, QrFails,
     QrPromote, QrTooLate, FinFails, FinFlush, FinGet, FinSet, FinClear, FinLoad,
     FinInsert, SyncFlush, SyncEnds, SyncRevoked, RevokeDelete, RevokeRemove,
     SignOutBegin, SignOutDestroy, SignOutStored, ShutdownRuntimes, ShutdownPending, Restart
  <2> QED
    BY <2>1, <2>2, <2>3
<1>2. ASSUME out[a] = "record" \/ revoke[a] = "record"
      PROVE out'[a] = "record" \/ revoke'[a] = "record" \/ a \in cut'
  <2>1. CASE Restart
    BY <1>2, <2>1 DEF Restart
  <2>2. CASE \E b \in Accounts : \/ SignOutBegin(b) \/ SignOutDestroy(b)
                                 \/ SignOutStored(b) \/ SignOutRecord(b)
    BY <1>2, <2>2 DEF SignOutBegin, SignOutDestroy, SignOutStored, SignOutRecord
  <2>3. CASE \E b \in Accounts : RevokeDelete(b) \/ RevokeRecord(b) \/ RevokeRemove(b)
    BY <1>2, <2>3 DEF RevokeDelete, RevokeRecord, RevokeRemove
  <2>4. CASE \E i \in Instances : SyncRevoked(i)
    BY <1>2, <2>4 DEF SyncRevoked
  <2>5. CASE UNCHANGED <<out, revoke>>
    BY <1>2, <2>5
  <2> QED
    BY <2>1, <2>2, <2>3, <2>4, <2>5 DEF Next, Finalize, Begin, BeginDelete, BeginLoad,
     RequestFails, Store, SubmitCode,
     SubmitPassword, PasswordNeeded, SubmitFails, SubmitOk, QrAuthorized, QrPassword, QrFails,
     QrPromote, QrTooLate, FinFails, FinFlush, FinGet, FinSet, FinClear, FinUpsert, FinLoad,
     FinInsert, SyncFlush, SyncEnds, ShutdownRuntimes, ShutdownPending
<1> QED
  BY <1>1, <1>2

(* What changes which runtime an account has.                              *)
LEMMA RuntimeStep ==
    ASSUME TypeOK, TypeOK', Next, ~Restart, NEW a \in Accounts, runtime[a] # None
    PROVE  \/ runtime'[a] = runtime[a]
           \/ live'[runtime[a]] = None
           \/ revoke[a] # "no"
           \/ \E f \in Flows : fin[f] = "insert" /\ who[f] = a
<1> USE DEF TypeOK, Keeping, Disturbing, account
<1>1. CASE \E f \in Flows : FinInsert(f)
  BY <1>1 DEF FinInsert
<1>2. CASE \E b \in Accounts : RevokeRemove(b)
  BY <1>2 DEF RevokeRemove
<1>3. CASE \E b \in Accounts : SignOutBegin(b)
  BY <1>3 DEF SignOutBegin, Aborted
<1>4. CASE ShutdownRuntimes
  BY <1>4 DEF ShutdownRuntimes, Aborted
<1>5. CASE runtime' = runtime
  BY <1>5
<1> QED
  BY <1>1, <1>2, <1>3, <1>4, <1>5 DEF Next, Finalize, Begin, BeginDelete, BeginLoad,
     RequestFails, Store, SubmitCode,
     SubmitPassword, PasswordNeeded, SubmitFails, SubmitOk, QrAuthorized, QrPassword, QrFails,
     QrPromote, QrTooLate, FinFails, FinFlush, FinGet, FinSet, FinClear, FinUpsert, FinLoad,
     SyncFlush, SyncEnds, SyncRevoked, RevokeDelete, RevokeRecord, SignOutDestroy,
     SignOutStored, SignOutRecord, ShutdownPending
-----------------------------------------------------------------------------
LEMMA TaskAccount ==
    ASSUME TypeOK, Ordered, NEW i \in Instances, live[i] # None
    PROVE  AccountOf(i) \in Accounts
BY DEF TypeOK, Ordered, AccountOf, Instances, Finishing

(* What an account that the histories do not excuse is spared.             *)
LEMMA Spared ==
    ASSUME TypeOK, Next, NEW a, ~Excused(a)'
    PROVE  ~Excused(a) /\ crossed = {} /\ a \notin entangled /\ a \notin entangled'
BY Monotone DEF Excused

(* The session a promotion stored is not overwritten while it goes on: its *)
(* account has no other task, promotion or logout.                         *)
LEMMA PromotedStep ==
    ASSUME TypeOK, TypeOK', Recorded, Recorded', Ordered, Ordered', Owners, Apart, Promoted, Next
    PROVE  Promoted'
<1> SUFFICES ASSUME NEW f \in Flows, fin'[f] \in {"clear", "upsert", "load"},
                    ~Excused(who[f])'
             PROVE  secret'[who'[f]] = who'[f]
  BY DEF Promoted
<1> DEFINE a == who[f]
<1>1. /\ who'[f] = a /\ a \in Accounts
      /\ \/ fin[f] \in {"clear", "upsert", "load"}
         \/ fin[f] = "set" /\ secret'[a] = bytes[f]
  BY PromotionStep, NamesAssumption DEF TypeOK, Finishing, Moving
<1>2. ~Excused(a) /\ crossed = {} /\ a \notin entangled /\ a \notin entangled'
  BY <1>1, Spared
<1>3. /\ out'[a] = "no" /\ revoke'[a] = "no"
      /\ \A i \in Instances : live'[i] # None /\ AccountOf(i)' = a => i = f
      /\ \A g \in Flows : fin'[g] = "clear" /\ who'[g] = a => g = f
      /\ runtime[a] = None
  BY <1>1, <1>2 DEF Recorded, Untangled, Finishing, Moving
<1>4. CASE fin[f] = "set"
  BY <1>1, <1>2, <1>4 DEF Apart
<1>5. CASE fin[f] \in {"clear", "upsert", "load"}
  <2>1. secret[a] = a
    BY <1>2, <1>5 DEF Promoted
  <2>2. ASSUME NEW g \in Flows, fin[g] = "set", fin'[g] = "clear", who[g] = a PROVE FALSE
    <3>1. who'[g] = a
      BY <2>2, PromotionStep
    <3> QED
      BY <1>3, <1>5, <2>2, <3>1
  <2>3. ASSUME NEW i \in Instances, live[i] # None, AccountOf(i) = a,
               live'[i] = live[i] \/ runtime[a] = i
        PROVE FALSE
    <3>1. i # None
      BY NamesAssumption DEF Instances
    <3>2. ~Restart
      BY <1>1 DEF Restart, TypeOK
    <3>3. live'[i] # None /\ AccountOf(i)' = a
      BY <1>3, <2>3, <3>1, <3>2, TaskStep
    <3>4. live'[f] = None
      BY DEF Ordered
    <3> QED
      BY <1>3, <3>3, <3>4
  <2> QED
    BY <1>1, <1>3, <2>1, <2>2, <2>3, SecretStep
<1> QED
  BY <1>1, <1>4, <1>5

LEMMA OwnSessionStep ==
    ASSUME TypeOK, TypeOK', Ordered, Promoted, OwnSession, AuthorizedHasSession, Next
    PROVE  OwnSession'
<1> SUFFICES ASSUME NEW i \in Instances, live'[i] # None, ~Excused(AccountOf(i))'
             PROVE  live'[i] = AccountOf(i)'
  BY DEF OwnSession
<1>1. CASE Restart
  <2>1. /\ i \in Accounts /\ i \in authorized /\ live'[i] = Loaded(secret[i])
        /\ out[i] = "record" \/ revoke[i] = "record" => i \in cut'
    BY <1>1, NamesAssumption DEF Restart, TypeOK
  <2>2. AccountOf(i)' = i
    BY <2>1 DEF AccountOf
  <2>3. ~Excused(i) /\ i \notin cut'
    BY <2>2, Spared DEF Excused
  <2>4. secret[i] = i
    BY <2>1, <2>3 DEF AuthorizedHasSession, Excused
  <2> QED
    BY <2>1, <2>2, <2>4, NamesAssumption DEF Loaded
<1>2. CASE ~Restart
  <2>1. /\ AccountOf(i)' = AccountOf(i) /\ ~Excused(AccountOf(i))
    BY <1>2, TaskStep, Spared
  <2>2. CASE live'[i] = live[i]
    BY <2>1, <2>2 DEF OwnSession
  <2>3. CASE i \in Flows /\ fin[i] = "load" /\ live'[i] = Loaded(secret[who[i]])
    BY <2>1, <2>3, NamesAssumption DEF Promoted, AccountOf, Loaded, TypeOK, Finishing
  <2> QED
    BY <1>2, <2>2, <2>3, TaskStep
<1> QED
  BY <1>1, <1>2

(* Two tasks of an account that is not entangled are one: both are owned.  *)
LEMMA OneOwner ==
    ASSUME TypeOK, Recorded, EverySyncIsOwned,
           NEW i \in Instances, NEW j \in Instances, live[i] # None, live[j] # None,
           AccountOf(i) = AccountOf(j), AccountOf(i) \notin entangled
    PROVE  i = j
BY NamesAssumption
DEF TypeOK, Recorded, Untangled, EverySyncIsOwned, AccountOf, Instances, Finishing

LEMMA RevokedStep ==
    ASSUME TypeOK, TypeOK', Recorded, Recorded', Ordered, Revoked, EverySyncIsOwned, Next
    PROVE  Revoked'
<1> SUFFICES ASSUME NEW i \in Instances, live'[i] # None, AccountOf(i)' \notin entangled'
             PROVE  revoke'[AccountOf(i)'] = "no"
  BY DEF Revoked
<1>1. CASE Restart
  <2>1. i \in Accounts
    BY <1>1, NamesAssumption DEF Restart, TypeOK
  <2> QED
    BY <1>1, <2>1 DEF Restart, AccountOf
<1>2. CASE ~Restart
  <2>1. AccountOf(i)' = AccountOf(i) /\ AccountOf(i) \notin entangled
    BY <1>2, TaskStep, Monotone
  <2>2. CASE live'[i] = live[i]
    <3>1. revoke[AccountOf(i)] = "no" /\ AccountOf(i) \in Accounts
      BY <2>1, <2>2, TaskAccount DEF Revoked
    <3>2. ASSUME NEW j \in Instances, SyncRevoked(j), AccountOf(j) = AccountOf(i) PROVE FALSE
      <4>1. live[j] # None /\ live'[j] = None
        BY <3>2 DEF SyncRevoked, TypeOK
      <4> QED
        BY <2>1, <2>2, <3>2, <4>1, OneOwner
    <3>3. ASSUME NEW b \in Accounts, RevokeDelete(b) \/ RevokeRecord(b) \/ RevokeRemove(b)
          PROVE revoke'[AccountOf(i)] = revoke[AccountOf(i)]
      BY <3>1, <3>3 DEF RevokeDelete, RevokeRecord, RevokeRemove, TypeOK
    <3>4. ASSUME NEW j \in Instances, SyncRevoked(j), AccountOf(j) # AccountOf(i)
          PROVE revoke'[AccountOf(i)] = revoke[AccountOf(i)]
      BY <3>4 DEF SyncRevoked, TypeOK
    <3>5. \/ revoke' = revoke
          \/ \E j \in Instances : SyncRevoked(j)
          \/ \E b \in Accounts : RevokeDelete(b) \/ RevokeRecord(b) \/ RevokeRemove(b)
      BY <1>2 DEF Next, Finalize, Keeping, Disturbing, account, Begin, BeginDelete, BeginLoad,
       RequestFails, Store, SubmitCode, SubmitPassword, PasswordNeeded, SubmitFails, SubmitOk,
       QrAuthorized, QrPassword, QrFails, QrPromote, QrTooLate, FinFails, FinFlush, FinGet,
       FinSet, FinClear, FinUpsert, FinLoad, FinInsert, SyncFlush, SyncEnds, SignOutBegin,
       SignOutDestroy, SignOutStored, SignOutRecord, ShutdownRuntimes, ShutdownPending
    <3> QED
      BY <2>1, <3>1, <3>2, <3>3, <3>4, <3>5
  <2>3. CASE i \in Flows /\ fin'[i] = "insert"
    <3>1. AccountOf(i)' = who'[i]
      BY <2>3, NamesAssumption DEF AccountOf
    <3> QED
      BY <2>3, <3>1 DEF Recorded, Untangled, Finishing
  <2> QED
    BY <1>2, <2>2, <2>3, TaskStep
<1> QED
  BY <1>1, <1>2

LEMMA AuthorizedHasSessionStep ==
    ASSUME TypeOK, TypeOK', Owners, Apart, Promoted, OwnSession, AuthorizedHasSession, Next
    PROVE  AuthorizedHasSession'
<1> SUFFICES ASSUME NEW a \in authorized', ~Excused(a)', out'[a] # "record", revoke'[a] # "record"
             PROVE  secret'[a] = a
  BY DEF AuthorizedHasSession, Excused
<1>1. a \in Accounts /\ ~Excused(a) /\ crossed = {} /\ a \notin cut'
  BY Spared DEF TypeOK, Excused
<1>2. CASE \E f \in Flows : fin[f] = "upsert" /\ who[f] = a /\ secret' = secret
  BY <1>1, <1>2 DEF Promoted
<1>3. CASE a \in authorized
  <2>1. out[a] # "record" /\ revoke[a] # "record"
    BY <1>1, LogoutStep
  <2>2. secret[a] = a
    BY <1>1, <1>3, <2>1 DEF AuthorizedHasSession, Excused
  <2>3. ASSUME NEW f \in Flows, fin[f] = "set", who[f] = a PROVE bytes[f] = a
    BY <1>1, <2>3 DEF Apart
  <2>4. ASSUME NEW i \in Instances, live[i] # None, AccountOf(i) = a PROVE live[i] = a
    BY <1>1, <2>4 DEF OwnSession
  <2> QED
    BY <1>1, <2>2, <2>3, <2>4, SecretStep
<1> QED
  BY <1>1, <1>2, <1>3, LogoutStep

LEMMA EverySyncIsOwnedStep ==
    ASSUME TypeOK, TypeOK', Recorded, Ordered, Owners, Revoked, EverySyncIsOwned, Next
    PROVE  EverySyncIsOwned'
<1> SUFFICES ASSUME NEW i \in Instances, live'[i] # None, AccountOf(i)' \notin entangled'
             PROVE  runtime'[AccountOf(i)'] = i \/ (i \in Flows /\ fin'[i] = "insert")
  BY DEF EverySyncIsOwned
<1>1. CASE Restart
  BY <1>1, NamesAssumption DEF Restart, TypeOK, AccountOf
<1>2. CASE ~Restart
  <2> DEFINE a == AccountOf(i)
  <2>1. AccountOf(i)' = a /\ a \notin entangled
    BY <1>2, TaskStep, Monotone
  <2>2. CASE live'[i] = live[i]
    <3>1. revoke[a] = "no"
      BY <2>1, <2>2 DEF Revoked
    <3>2. CASE runtime[a] = i
      <4>1. i # None
        BY NamesAssumption DEF Instances
      <4>2. a \in Accounts
        BY <2>2, TaskAccount
      <4>3. ASSUME NEW f \in Flows, fin[f] = "insert", who[f] = a PROVE FALSE
        BY <2>1, <3>2, <4>1, <4>3 DEF Recorded, Untangled, Finishing
      <4> QED
        BY <1>2, <2>1, <3>1, <3>2, <4>1, <4>2, <4>3, RuntimeStep
    <3>3. CASE i \in Flows /\ fin[i] = "insert"
      <4>1. a = who[i]
        BY <3>3, NamesAssumption DEF AccountOf
      <4> QED
        BY <1>2, <2>1, <3>3, <4>1, PromotionStep
    <3> QED
      BY <2>1, <2>2, <3>2, <3>3 DEF EverySyncIsOwned
  <2> QED
    BY <1>2, <2>2, TaskStep
<1> QED
  BY <1>1, <1>2
-----------------------------------------------------------------------------
LEMMA InitInv == Init => Inv
<1> SUFFICES ASSUME Init PROVE Inv
  OBVIOUS
<1>1. TypeOK
  BY InitType
<1>2. /\ \A i \in Instances : live[i] # None => i \in authorized /\ live[i] = i
      /\ \A a \in Accounts : runtime[a] # None => runtime[a] = a
      /\ \A a \in authorized : runtime[a] = a
  BY NamesAssumption DEF Init, Resumed, Loaded, Instances
<1>3. /\ \A f \in Flows : /\ fin[f] = "no" /\ at[f] = "new" /\ qr[f] = "none"
                          /\ live[f] = None
      /\ pending = None
  BY <1>2, NamesAssumption DEF Init, Instances
<1>4. Recorded /\ Ordered /\ Apart /\ Promoted
  BY <1>1, <1>3, NamesAssumption
  DEF Recorded, Alone, OwnSlot, Untangled, Ordered, Apart, Promoted, UsesPending, Finishing, Moving
<1>5. Owners /\ OwnSession /\ EverySyncIsOwned
  BY <1>1, <1>2, NamesAssumption DEF Owners, OwnSession, EverySyncIsOwned, AccountOf, TypeOK
<1>6. Revoked
  BY <1>1, <1>2, NamesAssumption DEF Init, Revoked, AccountOf, TypeOK
<1>7. AuthorizedHasSession
  BY <1>1 DEF Init, AuthorizedHasSession, TypeOK
<1> QED
  BY <1>1, <1>4, <1>5, <1>6, <1>7 DEF Inv

LEMMA StepInv == Inv /\ [Next]_vars => Inv'
<1> SUFFICES ASSUME Inv, [Next]_vars PROVE Inv'
  OBVIOUS
<1>1. CASE Next
  <2>1. TypeOK'
    BY TypeStep DEF Inv
  <2>2. Recorded'
    BY <1>1, <2>1, RecordedStep
  <2>3. Ordered' /\ Owners'
    BY <1>1, <2>1, OrderedStep, OwnersStep DEF Inv
  <2>4. Apart' /\ Promoted'
    BY <1>1, <2>1, <2>2, <2>3, ApartStep, PromotedStep DEF Inv
  <2>5. OwnSession' /\ Revoked'
    BY <1>1, <2>1, <2>2, OwnSessionStep, RevokedStep DEF Inv
  <2>6. AuthorizedHasSession' /\ EverySyncIsOwned'
    BY <1>1, <2>1, AuthorizedHasSessionStep, EverySyncIsOwnedStep DEF Inv
  <2> QED
    BY <2>1, <2>2, <2>3, <2>4, <2>5, <2>6 DEF Inv
<1>2. CASE UNCHANGED vars
  <2>1. TypeOK'
    BY TypeStep DEF Inv
  <2>2. (Recorded /\ Ordered /\ Owners)'
    BY <1>2 DEF vars, login, promotion, account, stored, history, Inv, Recorded, Alone, OwnSlot,
       Untangled, Ordered, Owners, UsesPending, AccountOf
  <2>3. (Apart /\ Promoted /\ OwnSession /\ Revoked)'
    BY <1>2 DEF vars, login, promotion, account, stored, history, Inv, Apart, Promoted,
       OwnSession, Revoked, Excused, AccountOf
  <2>4. (AuthorizedHasSession /\ EverySyncIsOwned)'
    BY <1>2 DEF vars, login, promotion, account, stored, history, Inv, AuthorizedHasSession,
       EverySyncIsOwned, AccountOf
  <2> QED
    BY <2>1, <2>2, <2>3, <2>4 DEF Inv
<1> QED
  BY <1>1, <1>2

(* The invariant of accounts.rs that the properties below follow from:     *)
(* types, order of the promotion, who uses session-pending, whose session  *)
(* a task and a secret hold.                                               *)
THEOREM Invariance == Spec => []Inv
BY InitInv, StepInv, PTL DEF Spec

(* Types of the login flows, accounts and tasks, for any number of them.   *)
THEOREM TypeCorrect == Spec => []TypeOK
<1>1. Inv => TypeOK
  BY DEF Inv
<1> QED
  BY <1>1, Invariance, PTL

(* Whatever logins, logouts, revocations, failures of the Keychain and     *)
(* restarts interleave, an authorized account has its own session stored,  *)
(* but for the exceptions AuthorizedHasSession names.                      *)
THEOREM AuthorizedHasSessionAlways == Spec => []AuthorizedHasSession
<1>1. Inv => AuthorizedHasSession
  BY DEF Inv
<1> QED
  BY <1>1, Invariance, PTL

(* Every sync task is the one of its account's runtime or about to be,     *)
(* unless the account was promoted amid a logout or a re-login.            *)
THEOREM EverySyncIsOwnedAlways == Spec => []EverySyncIsOwned
<1>1. Inv => EverySyncIsOwned
  BY DEF Inv
<1> QED
  BY <1>1, Invariance, PTL
=============================================================================

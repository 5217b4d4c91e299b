------------------------ MODULE KeychainSessionProofs ------------------------
(***************************************************************************)
(* The safety properties of KeychainSession, for any number of client      *)
(* tasks, changes and restarts.                                            *)
(*                                                                         *)
(* What they lean on: at most one flush is in progress unless `overlapped` *)
(* says otherwise (OneFlush); a flush that is about to write holds the     *)
(* current data or the change since is due again (InHand), and nothing     *)
(* older than the Keychain holds (Ordered); an account without a runtime   *)
(* has no sync task (Detached); and from the delete of a logout onwards no *)
(* flush begins (Gone).                                                    *)
(***************************************************************************)
EXTENDS KeychainSession, TLAPS

Due == dirty \/ \E u \in Mutators : mutator[u] = "changed"

OneFlush == flush["sync"] # Idle /\ flush["shutdown"] # Idle => overlapped

InHand ==
    \A f \in Flushers : flush[f].at = "writing" =>
        flush[f].snap = data \/ Due \/ overlapped \/ signOut # "no"

Ordered ==
    /\ secret <= data
    /\ \A f \in Flushers : flush[f].at = "writing" =>
        flush[f].snap <= data /\ (secret <= flush[f].snap \/ overlapped)

Detached ==
    /\ ~registered => sync = "ended"
    /\ signOut # "no" => ~registered
    /\ revoke # "no" => sync = "ended"
    /\ revoke = "done" => ~registered
    /\ ~authorized => sync = "ended"
    /\ ~authorized /\ registered => revoke = "remove"

LoggingOut ==
    \/ ~authorized
    \/ signOut \in {"deleted", "done"}
    \/ revoke \in {"record", "remove", "done"}

Gone ==
    LoggingOut => /\ secret = NoSecret \/ kept \/ raced
                  /\ Flushing => kept \/ raced

Inv ==
    /\ TypeOK /\ OneFlush /\ InHand /\ Ordered /\ Detached /\ Gone
    /\ NoChangeLost

-----------------------------------------------------------------------------
LEMMA InitInv == Init => Inv
<1> SUFFICES ASSUME Init PROVE Inv
  OBVIOUS
<1> USE DEF Init
<1>1. TypeOK
  <2>1. flush \in [Flushers -> [at : {"idle", "called", "swapped", "writing"}, snap : Nat]]
    BY DEF Idle, Flushers
  <2>2. restarts \in 0 .. MaxRestarts
    BY MaxRestartsAssumption
  <2> QED
    BY <2>1, <2>2 DEF TypeOK
<1>2. \A f \in Flushers : flush[f] = Idle
  BY DEF Idle, Flushers
<1>3. OneFlush /\ InHand /\ Ordered
  BY <1>2 DEF OneFlush, InHand, Ordered, Idle, Flushers
<1>4. Detached /\ Gone /\ NoChangeLost
  BY DEF Detached, Gone, LoggingOut, NoChangeLost
<1> QED
  BY <1>1, <1>3, <1>4 DEF Inv

-----------------------------------------------------------------------------
(* The type invariant, its flags apart: they are the part that the SMT     *)
(* solver leaves to Zenon.                                                 *)
Flags ==
    /\ dirty \in BOOLEAN
    /\ authorized \in BOOLEAN /\ registered \in BOOLEAN
    /\ failed \in BOOLEAN /\ overlapped \in BOOLEAN
    /\ kept \in BOOLEAN /\ raced \in BOOLEAN

Values ==
    /\ data \in Nat
    /\ mutator \in [Mutators -> {"idle", "changed"}]
    /\ flush \in [Flushers -> [at : {"idle", "called", "swapped", "writing"}, snap : Nat]]
    /\ secret \in Nat \cup {NoSecret}
    /\ sync \in {"starting", "offline", "live", "ended"}
    /\ signOut \in {"no", "rpc", "cleared", "deleted", "done"}
    /\ revoke \in {"no", "delete", "record", "remove", "done"}
    /\ shutdown \in {"no", "flushing", "done"}
    /\ restarts \in 0 .. MaxRestarts

LEMMA TypeParts == TypeOK <=> Flags /\ Values
BY DEF TypeOK, Flags, Values

LEMMA FlagsStep == Flags /\ [Next]_vars => Flags'
<1> SUFFICES ASSUME Flags, [Next]_vars PROVE Flags'
  OBVIOUS
<1> USE DEF Flags, vars, session, account, history
<1>1. CASE \E u \in Mutators : Mutate(u) \/ Mark(u)
  BY <1>1, Zenon DEF Mutate, Mark
<1>2. CASE \E f \in Flushers : FlushStep(f)
  <2>1. PICK f \in Flushers : FlushStep(f)
    BY <1>2
  <2>2. CASE Swap(f)
    BY <2>2, Zenon DEF Swap
  <2>3. CASE TakeSnapshot(f)
    BY <2>3, Zenon DEF TakeSnapshot
  <2>4. CASE Write(f)
    BY <2>4, Zenon DEF Write
  <2>5. CASE WriteFails(f)
    BY <2>5, Zenon DEF WriteFails
  <2> QED
    BY <2>1, <2>2, <2>3, <2>4, <2>5 DEF FlushStep
<1>3. CASE SyncStreamTaken \/ SyncStreamFails \/ SyncLost \/ SyncRevoked
  BY <1>3, Zenon DEF SyncStreamTaken, SyncStreamFails, SyncLost, SyncRevoked
<1>4. CASE SyncSeeded \/ SyncTick \/ ShutdownFlush
  <2>1. overlapped' \in BOOLEAN
    BY <1>4, Zenon DEF SyncSeeded, SyncTick, ShutdownFlush, Call
  <2>2. raced' \in BOOLEAN
    BY <1>4, Zenon DEF SyncSeeded, SyncTick, ShutdownFlush
  <2> QED
    BY <1>4, <2>1, <2>2, Zenon DEF SyncSeeded, SyncTick, ShutdownFlush
<1>5. CASE RevokeDelete \/ SignOutDelete \/ SignOutStored
  <2>1. kept' \in BOOLEAN /\ raced' \in BOOLEAN
    BY <1>5, Zenon DEF RevokeDelete, SignOutDelete, SignOutStored, Delete, DeleteFails, Flushing
  <2> QED
    BY <1>5, <2>1, Zenon DEF RevokeDelete, SignOutDelete, SignOutStored
<1>6. CASE RevokeRecord \/ RevokeRemove
  BY <1>6, Zenon DEF RevokeRecord, RevokeRemove
<1>7. CASE SignOutBegin \/ SignOutClear \/ SignOutRecord \/ ShutdownStop
  BY <1>7, Zenon DEF SignOutBegin, SignOutClear, SignOutRecord, ShutdownStop
<1>8. CASE Restart
  <2>1. registered' \in BOOLEAN
    BY <1>8, Zenon DEF Restart
  <2> QED
    BY <1>8, <2>1, Zenon DEF Restart
<1>9. CASE UNCHANGED vars
  BY <1>9, Zenon
<1> QED
  BY <1>1, <1>2, <1>3, <1>4, <1>5, <1>6, <1>7, <1>8, <1>9 DEF Next

LEMMA ValuesStep == Values /\ [Next]_vars => Values'
<1> SUFFICES ASSUME Values, [Next]_vars PROVE Values'
  OBVIOUS
<1> USE DEF Values, vars, session, account
<1>1. CASE \E u \in Mutators : Mutate(u) \/ Mark(u)
  BY <1>1 DEF Mutate, Mark
<1>2. CASE \E f \in Flushers : FlushStep(f)
  <2>1. PICK f \in Flushers : FlushStep(f)
    BY <1>2
  <2>2. CASE Swap(f)
    BY <2>2 DEF Swap, Idle
  <2>3. CASE TakeSnapshot(f)
    BY <2>3 DEF TakeSnapshot
  <2>4. CASE Write(f) \/ WriteFails(f)
    BY <2>4 DEF Write, WriteFails, Idle
  <2> QED
    BY <2>1, <2>2, <2>3, <2>4 DEF FlushStep
<1>3. CASE SyncStreamTaken \/ SyncStreamFails \/ SyncLost \/ SyncRevoked
  BY <1>3 DEF SyncStreamTaken, SyncStreamFails, SyncLost, SyncRevoked
<1>4. CASE SyncSeeded \/ SyncTick \/ ShutdownFlush
  BY <1>4 DEF SyncSeeded, SyncTick, ShutdownFlush, Call, Flushers
<1>5. CASE RevokeDelete \/ SignOutDelete \/ SignOutStored
  BY <1>5 DEF RevokeDelete, SignOutDelete, SignOutStored, Delete, DeleteFails
<1>6. CASE RevokeRecord \/ RevokeRemove
  BY <1>6 DEF RevokeRecord, RevokeRemove
<1>7. CASE SignOutBegin \/ SignOutClear \/ SignOutRecord \/ ShutdownStop
  BY <1>7 DEF SignOutBegin, SignOutClear, SignOutRecord, ShutdownStop, Abort
<1>8. CASE Restart
  <2>1. data' \in Nat /\ secret' \in Nat \cup {NoSecret}
    BY <1>8 DEF Restart, Loaded
  <2>2. mutator' \in [Mutators -> {"idle", "changed"}]
    BY <1>8 DEF Restart
  <2>3. flush' \in [Flushers -> [at : {"idle", "called", "swapped", "writing"}, snap : Nat]]
    BY <1>8 DEF Restart, Idle
  <2>4. sync' \in {"starting", "offline", "live", "ended"}
    BY <1>8 DEF Restart
  <2>5. signOut' = "no" /\ revoke' = "no" /\ shutdown' = "no"
    BY <1>8 DEF Restart
  <2>6. restarts' \in 0 .. MaxRestarts
    BY <1>8, MaxRestartsAssumption DEF Restart
  <2> QED
    BY <2>1, <2>2, <2>3, <2>4, <2>5, <2>6
<1>9. CASE UNCHANGED vars
  BY <1>9
<1> QED
  BY <1>1, <1>2, <1>3, <1>4, <1>5, <1>6, <1>7, <1>8, <1>9 DEF Next

(* Every action preserves the type invariant.                              *)
LEMMA TypeStep == TypeOK /\ [Next]_vars => TypeOK'
<1> SUFFICES ASSUME TypeOK, [Next]_vars PROVE TypeOK'
  OBVIOUS
<1>1. Flags' /\ Values'
  BY TypeParts, FlagsStep, ValuesStep
<1> QED
  BY <1>1 DEF TypeOK, Flags, Values

-----------------------------------------------------------------------------
(* One flush at a time, or `overlapped` says so: only Call makes a flush   *)
(* busy, and it looks at the other one.                                    *)
LEMMA CallOverlaps ==
    ASSUME NEW f \in Flushers, Call(f), \/ overlapped
                                        \/ \E g \in Flushers : flush[g] # Idle
    PROVE  overlapped'
BY Zenon DEF Call, Flushing

LEMMA OneFlushStep == Values /\ OneFlush /\ [Next]_vars => OneFlush'
<1> SUFFICES ASSUME Values, OneFlush, [Next]_vars PROVE OneFlush'
  OBVIOUS
<1> USE DEF Values, OneFlush, Idle, Flushers
<1>1. CASE \E f \in Flushers : FlushStep(f)
  <2>1. PICK f \in Flushers : FlushStep(f)
    BY <1>1
  <2>2. flush[f] # Idle /\ \A g \in Flushers \ {f} : flush'[g] = flush[g]
    BY <2>1 DEF FlushStep, Swap, TakeSnapshot, Write, WriteFails
  <2>3. overlapped' = overlapped
    BY <2>1 DEF FlushStep, Swap, TakeSnapshot, Write, WriteFails, history
  <2> QED
    BY <2>2, <2>3
<1>2. CASE SyncSeeded \/ SyncTick \/ ShutdownFlush
  <2>1. PICK f \in Flushers : Call(f)
    BY <1>2 DEF SyncSeeded, SyncTick, ShutdownFlush
  <2>2. CASE overlapped \/ \E g \in Flushers : flush[g] # Idle
    BY <2>1, <2>2, CallOverlaps
  <2>3. CASE \A g \in Flushers : flush[g] = Idle
    BY <2>1, <2>3 DEF Call
  <2> QED
    BY <2>2, <2>3
<1>3. CASE Restart
  BY <1>3 DEF Restart
<1>4. CASE UNCHANGED <<flush, overlapped>>
  BY <1>4
<1> QED
  BY <1>1, <1>2, <1>3, <1>4 DEF Next, vars, session, account, history,
     Mutate, Mark, SyncStreamTaken, SyncStreamFails, SyncLost, SyncRevoked,
     RevokeDelete, RevokeRecord, RevokeRemove, SignOutBegin, SignOutClear,
     SignOutDelete, SignOutStored, SignOutRecord, ShutdownStop

-----------------------------------------------------------------------------
(* What a flush is about to write is current, or another flush is due.     *)
LEMMA InHandStep ==
    Values /\ OneFlush /\ InHand /\ [Next]_vars => InHand'
<1> SUFFICES ASSUME Values, OneFlush, InHand, [Next]_vars,
                    NEW f \in Flushers, flush'[f].at = "writing"
             PROVE  (flush[f].snap = data \/ Due \/ overlapped \/ signOut # "no")'
  BY DEF InHand
<1> USE DEF Values, InHand, Due
<1>1. CASE \E u \in Mutators : Mutate(u) \/ Mark(u)
  BY <1>1 DEF Mutate, Mark, account, history
<1>2. ASSUME NEW g \in Flushers, FlushStep(g)
      PROVE  (flush[f].snap = data \/ Due \/ overlapped \/ signOut # "no")'
  <2>1. CASE Swap(g)
    BY <2>1 DEF Swap, OneFlush, Idle, Flushers, account, history
  <2>2. CASE TakeSnapshot(g)
    BY <2>2 DEF TakeSnapshot, session, account, history
  <2>3. CASE Write(g) \/ WriteFails(g)
    BY <2>3 DEF Write, WriteFails, Idle, session, account
  <2> QED
    BY <1>2, <2>1, <2>2, <2>3 DEF FlushStep
<1>3. CASE SyncSeeded \/ SyncTick \/ ShutdownFlush
  <2>1. PICK g \in Flushers : Call(g)
    BY <1>3 DEF SyncSeeded, SyncTick, ShutdownFlush, Flushers
  <2>2. overlapped => overlapped'
    BY <2>1, CallOverlaps
  <2>3. UNCHANGED <<session, signOut>>
    BY <1>3 DEF SyncSeeded, SyncTick, ShutdownFlush, account
  <2>4. flush[f] = flush'[f]
    BY <2>1 DEF Call, Idle
  <2> QED
    BY <2>2, <2>3, <2>4 DEF session
<1>4. CASE SignOutBegin \/ SignOutClear \/ SignOutDelete \/ SignOutRecord
  BY <1>4 DEF SignOutBegin, SignOutClear, SignOutDelete, SignOutRecord
<1>5. CASE SignOutStored
  BY <1>5 DEF SignOutStored, session
<1>6. CASE Restart
  BY <1>6 DEF Restart, Idle
<1>7. CASE UNCHANGED <<session, flush, overlapped, signOut>>
  BY <1>7 DEF session
<1> QED
  BY <1>1, <1>2, <1>3, <1>4, <1>5, <1>6, <1>7
  DEF Next, vars, session, account, history, SyncStreamTaken,
      SyncStreamFails, SyncLost, SyncRevoked, RevokeDelete, RevokeRecord,
      RevokeRemove, ShutdownStop

-----------------------------------------------------------------------------
(* A change that is not stored is due, or the account is being logged out, *)
(* or a write failed, or two flushes overlapped.                           *)
LEMMA NoChangeLostStep ==
    Values /\ InHand /\ NoChangeLost /\ [Next]_vars => NoChangeLost'
<1> SUFFICES ASSUME Values, InHand, NoChangeLost, [Next]_vars
             PROVE  NoChangeLost'
  OBVIOUS
<1> USE DEF Values, NoChangeLost, Pending
<1>1. CASE \E u \in Mutators : Mutate(u) \/ Mark(u)
  BY <1>1 DEF Mutate, Mark, account, history
<1>2. ASSUME NEW f \in Flushers, FlushStep(f)
      PROVE  NoChangeLost'
  <2>1. CASE Swap(f)
    <3>1. CASE dirty
      <4>1. flush'[f].at = "swapped"
        BY <2>1, <3>1 DEF Swap
      <4> QED
        BY <4>1
    <3>2. CASE ~dirty
      <4>1. \A g \in Flushers : flush[g].at \in {"swapped", "writing"} => flush'[g] = flush[g]
        BY <2>1 DEF Swap
      <4>2. UNCHANGED <<data, mutator, secret, failed, overlapped, signOut>>
        BY <2>1 DEF Swap, account, history
      <4> QED
        BY <3>2, <4>1, <4>2
    <3> QED
      BY <3>1, <3>2
  <2>2. CASE TakeSnapshot(f)
    <3>1. flush'[f].at = "writing" /\ flush'[f].snap = data /\ data' = data
      BY <2>2 DEF TakeSnapshot, session
    <3> QED
      BY <3>1
  <2>3. CASE Write(f)
    <3>1. secret' = flush[f].snap /\ flush[f].at = "writing"
      BY <2>3 DEF Write
    <3>2. UNCHANGED <<data, dirty, mutator, overlapped, signOut>>
      BY <2>3 DEF Write, session, account
    <3> QED
      BY <3>1, <3>2 DEF InHand, Due
  <2>4. CASE WriteFails(f)
    BY <2>4 DEF WriteFails
  <2> QED
    BY <1>2, <2>1, <2>2, <2>3, <2>4 DEF FlushStep
<1>3. CASE SyncSeeded \/ SyncTick \/ ShutdownFlush
  <2>1. PICK g \in Flushers : Call(g)
    BY <1>3 DEF SyncSeeded, SyncTick, ShutdownFlush, Flushers
  <2>2. overlapped => overlapped'
    BY <2>1, CallOverlaps
  <2>3. UNCHANGED <<session, secret, signOut, failed>>
    BY <1>3 DEF SyncSeeded, SyncTick, ShutdownFlush, account
  <2>4. \A f \in Flushers : flush[f].at \in {"swapped", "writing"} => flush'[f] = flush[f]
    BY <2>1 DEF Call, Idle
  <2> QED
    BY <2>2, <2>3, <2>4 DEF session
<1>4. CASE SignOutBegin \/ SignOutClear \/ SignOutDelete \/ SignOutRecord
  BY <1>4 DEF SignOutBegin, SignOutClear, SignOutDelete, SignOutRecord
<1>5. CASE RevokeDelete \/ SignOutStored
  <2>1. secret' \in {secret, NoSecret}
    BY <1>5 DEF RevokeDelete, SignOutStored, Delete, DeleteFails
  <2>2. UNCHANGED <<session, flush, failed, overlapped>> /\ (signOut # "no" => signOut' # "no")
    BY <1>5 DEF RevokeDelete, SignOutStored
  <2> QED
    BY <2>1, <2>2 DEF session
<1>6. CASE Restart
  BY <1>6 DEF Restart, Loaded
<1>7. CASE UNCHANGED <<session, flush, secret, failed, overlapped, signOut>>
  BY <1>7 DEF session
<1> QED
  BY <1>1, <1>2, <1>3, <1>4, <1>5, <1>6, <1>7
  DEF Next, vars, account, history, SyncStreamTaken, SyncStreamFails,
      SyncLost, SyncRevoked, RevokeRecord, RevokeRemove, ShutdownStop

-----------------------------------------------------------------------------
(* The versions: the Keychain is never ahead of memory, and a flush about  *)
(* to write is never behind the Keychain unless another overlapped it.     *)
LEMMA OrderedStep ==
    Values /\ OneFlush /\ Ordered /\ [Next]_vars => Ordered'
<1> SUFFICES ASSUME Values, OneFlush, Ordered, [Next]_vars
             PROVE  Ordered'
  OBVIOUS
<1> USE DEF Values, Ordered, NoSecret
<1>1. CASE \E u \in Mutators : Mutate(u) \/ Mark(u)
  BY <1>1 DEF Mutate, Mark, history
<1>2. ASSUME NEW f \in Flushers, FlushStep(f)
      PROVE  Ordered'
  <2>1. overlapped' = overlapped /\ data' = data
    BY <1>2 DEF FlushStep, Swap, TakeSnapshot, Write, WriteFails, session, history
  <2>2. CASE Swap(f)
    BY <2>1, <2>2 DEF Swap, Idle
  <2>3. CASE TakeSnapshot(f)
    BY <2>1, <2>3 DEF TakeSnapshot
  <2>4. CASE Write(f)
    <3>1. secret' = flush[f].snap /\ flush[f].at = "writing" /\ flush[f].snap <= data
      BY <2>4 DEF Write
    <3>2. \A g \in Flushers : flush'[g].at = "writing" => overlapped
      BY <2>4, <3>1 DEF Write, OneFlush, Idle, Flushers
    <3>3. \A g \in Flushers : flush'[g].at = "writing" => flush'[g] = flush[g]
      BY <2>4 DEF Write, Idle
    <3> QED
      BY <2>1, <3>1, <3>2, <3>3
  <2>5. CASE WriteFails(f)
    BY <2>1, <2>5 DEF WriteFails, Idle
  <2> QED
    BY <1>2, <2>2, <2>3, <2>4, <2>5 DEF FlushStep
<1>3. CASE SyncSeeded \/ SyncTick \/ ShutdownFlush
  <2>1. PICK g \in Flushers : Call(g)
    BY <1>3 DEF SyncSeeded, SyncTick, ShutdownFlush, Flushers
  <2>2. overlapped => overlapped'
    BY <2>1, CallOverlaps
  <2>3. UNCHANGED <<data, secret>>
    BY <1>3 DEF SyncSeeded, SyncTick, ShutdownFlush, session
  <2>4. \A f \in Flushers : flush'[f].at = "writing" => flush'[f] = flush[f]
    BY <2>1 DEF Call, Idle
  <2> QED
    BY <2>2, <2>3, <2>4
<1>4. CASE RevokeDelete \/ SignOutDelete \/ SignOutStored
  <2>1. secret' \in {secret, NoSecret}
    BY <1>4 DEF RevokeDelete, SignOutDelete, SignOutStored, Delete, DeleteFails
  <2>2. UNCHANGED <<data, flush, overlapped>>
    BY <1>4 DEF RevokeDelete, SignOutDelete, SignOutStored, session
  <2> QED
    BY <2>1, <2>2
<1>5. CASE Restart
  BY <1>5 DEF Restart, Loaded, Idle
<1>6. CASE UNCHANGED <<data, flush, secret, overlapped>>
  BY <1>6
<1> QED
  BY <1>1, <1>2, <1>3, <1>4, <1>5, <1>6
  DEF Next, vars, session, account, history, SyncStreamTaken,
      SyncStreamFails, SyncLost, SyncRevoked, RevokeRecord, RevokeRemove,
      SignOutBegin, SignOutClear, SignOutRecord, ShutdownStop

-----------------------------------------------------------------------------
(* An account without a runtime has no sync task, nor has one that is      *)
(* being logged out.                                                       *)
LEMMA DetachedStep == Values /\ Detached /\ [Next]_vars => Detached'
<1> SUFFICES ASSUME Values, Detached, [Next]_vars PROVE Detached'
  OBVIOUS
<1> USE DEF Values, Detached
<1>1. CASE SyncStreamTaken \/ SyncStreamFails \/ SyncSeeded \/ SyncLost
  BY <1>1 DEF SyncStreamTaken, SyncStreamFails, SyncSeeded, SyncLost
<1>2. CASE SyncRevoked
  BY <1>2 DEF SyncRevoked
<1>3. CASE RevokeDelete \/ RevokeRecord
  BY <1>3 DEF RevokeDelete, RevokeRecord
<1>4. CASE RevokeRemove
  BY <1>4 DEF RevokeRemove
<1>5. CASE SignOutBegin \/ ShutdownStop
  BY <1>5 DEF SignOutBegin, ShutdownStop, Abort
<1>6. CASE SignOutClear \/ SignOutDelete \/ SignOutStored \/ SignOutRecord
  BY <1>6 DEF SignOutClear, SignOutDelete, SignOutStored, SignOutRecord
<1>7. CASE Restart
  BY <1>7 DEF Restart
<1>8. CASE UNCHANGED <<authorized, registered, sync, signOut, revoke>>
  BY <1>8
<1> QED
  BY <1>1, <1>2, <1>3, <1>4, <1>5, <1>6, <1>7, <1>8
  DEF Next, vars, account, Mutate, Mark, FlushStep, Swap, TakeSnapshot,
      Write, WriteFails, SyncTick, ShutdownFlush

-----------------------------------------------------------------------------
(* From the delete on: no flush begins, so the secret comes back only if   *)
(* `raced` says that one was under way.                                    *)
LEMMA DeleteEffect ==
    ASSUME Delete \/ DeleteFails, UNCHANGED flush
    PROVE  /\ (secret = NoSecret \/ kept \/ raced)'
           /\ (Flushing => kept \/ raced)'
BY Zenon DEF Delete, DeleteFails, Flushing

LEMMA GoneStep == Values /\ Detached /\ Gone /\ [Next]_vars => Gone'
<1> SUFFICES ASSUME Values, Detached, Gone, [Next]_vars, LoggingOut'
             PROVE  /\ (secret = NoSecret \/ kept \/ raced)'
                    /\ (Flushing => kept \/ raced)'
  BY DEF Gone
<1>1. ASSUME NEW f \in Flushers, FlushStep(f)
      PROVE  /\ (secret = NoSecret \/ kept \/ raced)'
             /\ (Flushing => kept \/ raced)'
  <2>1. LoggingOut /\ UNCHANGED <<kept, raced>>
    BY <1>1 DEF FlushStep, Swap, TakeSnapshot, Write, WriteFails, account, history, LoggingOut
  <2>2. flush[f] # Idle
    BY <1>1 DEF FlushStep, Swap, TakeSnapshot, Write, WriteFails, Idle
  <2>3. kept \/ raced
    BY <2>1, <2>2 DEF Gone, Flushing
  <2> QED
    BY <2>1, <2>3
<1>2. CASE SyncSeeded \/ SyncTick
  BY <1>2 DEF SyncSeeded, SyncTick, LoggingOut, Detached, account
<1>3. CASE ShutdownFlush
  <2>1. raced' \/ revoke \notin {"record", "remove"}
    BY <1>3, Zenon DEF ShutdownFlush
  <2>2. LoggingOut /\ registered
    BY <1>3 DEF ShutdownFlush, LoggingOut
  <2>3. revoke \in {"record", "remove"}
    BY <2>2 DEF LoggingOut, Detached
  <2> QED
    BY <2>1, <2>3
<1>4. CASE RevokeDelete \/ SignOutDelete
  BY <1>4, DeleteEffect DEF RevokeDelete, SignOutDelete
<1>5. CASE SignOutStored
  BY <1>5, DeleteEffect DEF SignOutStored
<1>6. CASE Restart
  <2>1. ~Flushing'
    BY <1>6 DEF Restart, Flushing
  <2>2. LoggingOut /\ UNCHANGED <<secret, kept, raced>>
    BY <1>6 DEF Restart, LoggingOut
  <2> QED
    BY <2>1, <2>2 DEF Gone
<1>7. CASE /\ LoggingOut' => LoggingOut
           /\ UNCHANGED <<flush, secret, kept, raced>>
  BY <1>7 DEF Gone, Flushing
<1>8. CASE \/ \E u \in Mutators : Mutate(u) \/ Mark(u)
           \/ SyncStreamTaken \/ SyncStreamFails \/ SyncLost \/ UNCHANGED vars
  BY <1>7, <1>8 DEF Mutate, Mark, SyncStreamTaken, SyncStreamFails, SyncLost,
     vars, account, history, LoggingOut
<1>9. CASE SyncRevoked \/ SignOutBegin \/ SignOutClear \/ ShutdownStop
  BY <1>7, <1>9 DEF SyncRevoked, SignOutBegin, SignOutClear, ShutdownStop, history, LoggingOut
<1>10. CASE RevokeRecord \/ RevokeRemove \/ SignOutRecord
  BY <1>7, <1>10 DEF RevokeRecord, RevokeRemove, SignOutRecord, history, LoggingOut
<1> QED
  BY <1>1, <1>2, <1>3, <1>4, <1>5, <1>6, <1>8, <1>9, <1>10 DEF Next

-----------------------------------------------------------------------------
LEMMA NextInv == Inv /\ [Next]_vars => Inv'
BY TypeParts, TypeStep, OneFlushStep, InHandStep, NoChangeLostStep,
   OrderedStep, DetachedStep, GoneStep DEF Inv

(* Inv is an invariant.                                                    *)
THEOREM Invariance == Spec => []Inv
BY InitInv, NextInv, PTL DEF Spec

(* The session and the calls that touch it are well-typed for ever.        *)
THEOREM TypeCorrect == Spec => []TypeOK
<1>1. Inv => TypeOK
  BY DEF Inv
<1> QED
  BY <1>1, Invariance, PTL

(* session.rs: no interleaving of changes and flushes loses a change,      *)
(* except by a failed write or by overlapping flushes.                     *)
THEOREM NoChangeLostAlways == Spec => []NoChangeLost
<1>1. Inv => NoChangeLost
  BY DEF Inv
<1> QED
  BY <1>1, Invariance, PTL

(* accounts.rs: a recorded logout left no session in the Keychain, except  *)
(* by a failed delete or a flush under way.                                *)
THEOREM LoggedOutLeavesNoSecretAlways == Spec => []LoggedOutLeavesNoSecret
<1>1. Inv => LoggedOutLeavesNoSecret
  BY DEF Inv, Gone, LoggingOut, LoggedOutLeavesNoSecret
<1> QED
  BY <1>1, Invariance, PTL

(* No step takes the stored session back to an older state.                *)
LEMMA NeverBackwardsStep ==
    Inv /\ [Next]_vars => [secret' >= secret \/ secret' = NoSecret \/ overlapped]_vars
<1> SUFFICES ASSUME Inv, [Next]_vars
             PROVE  secret' >= secret \/ secret' = NoSecret \/ overlapped
  OBVIOUS
<1> USE DEF Inv, TypeOK, Ordered, NoSecret
<1>1. CASE \E f \in Flushers : Write(f)
  BY <1>1 DEF Write
<1>2. CASE secret' \in {secret, NoSecret}
  BY <1>2
<1> QED
  BY <1>1, <1>2 DEF Next, vars, session, account, history, Mutate, Mark,
     FlushStep, Swap, TakeSnapshot, WriteFails, SyncStreamTaken,
     SyncStreamFails, SyncSeeded, SyncTick, SyncLost, SyncRevoked,
     RevokeDelete, RevokeRecord, RevokeRemove, SignOutBegin, SignOutClear,
     SignOutDelete, SignOutStored, SignOutRecord, ShutdownFlush,
     ShutdownStop, Restart, Delete, DeleteFails

(* session.rs: the stored session only moves forward until the flushes of  *)
(* shutdown and sync overlap.                                              *)
THEOREM NeverBackwardsAlways == Spec => NeverBackwards
BY Invariance, NeverBackwardsStep, PTL DEF Spec, NeverBackwards
=============================================================================

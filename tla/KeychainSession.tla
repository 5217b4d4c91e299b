--------------------------- MODULE KeychainSession ---------------------------
(***************************************************************************)
(* The grammers session of one account (telegram-api, session.rs) between  *)
(* memory and the Keychain, with everybody who touches it: the tasks of    *)
(* the grammers client that change it, the account's sync task and the     *)
(* shutdown that flush it, sign_out and the logged-out callback that       *)
(* delete it, and the restart that loads it.                               *)
(*                                                                         *)
(* The data of a session is a version, the number of changes it has seen.  *)
(* The runtime has several threads: each lock, atomic operation and call   *)
(* of the secret store is a step of its own.                               *)
(***************************************************************************)
EXTENDS Integers

CONSTANTS
    Mutators,     \* tasks of the client that change the session
    MaxVersion,   \* bound: changes of one session
    MaxRestarts   \* bound: restarts of the process

ASSUME MaxVersionAssumption == MaxVersion \in Nat
ASSUME MaxRestartsAssumption == MaxRestarts \in Nat

VARIABLES
    data,         \* the version in memory
    dirty,        \* the flag of the session
    mutator,      \* "changed": between its change and mark_dirty
    flush,        \* the flush() calls of the sync task and of shutdown
    secret,       \* the version in the Keychain, or NoSecret
    authorized,   \* the column of the accounts table
    registered,   \* the account has a runtime in AccountManager
    sync,         \* the sync task
    signOut,      \* sign_out of the account
    revoke,       \* the task that logged_out_callback spawns
    shutdown,     \* AccountManager::shutdown
    restarts,     \* how often the process was restarted
    failed,       \* history: the last write to the Keychain failed
    overlapped,   \* history: two flushes of this run were in progress at once
    kept,         \* history: the last delete of the secret failed
    raced         \* history: a flush outlived or followed the last delete

session == <<data, dirty, mutator>>
account == <<authorized, registered, sync, signOut, revoke, shutdown>>
history == <<failed, overlapped, kept, raced>>
vars == <<session, flush, secret, account, restarts, history>>

-----------------------------------------------------------------------------
NoSecret == -1

(* Mutants: a missing item is not replaced by a fresh session; the         *)
(* snapshot is read and thrown away.                                       *)
LoadUnchecked(s) == s
FreshSession(s) == 0

(* The session that load builds from what the Keychain holds.              *)
Loaded(s) == IF s = NoSecret THEN 0 ELSE s

Flushers == {"sync", "shutdown"}
Idle == [at |-> "idle", snap |-> 0]
Flushing == \E f \in Flushers : flush[f] # Idle

(* sign_out keeps the write lock of `runtimes` from the removal to the end *)
(* of its `if let`, shutdown to its end.                                   *)
RuntimesLocked == signOut \in {"rpc", "cleared"} \/ shutdown = "flushing"

Init ==
    /\ data = 0 /\ dirty = FALSE
    /\ mutator = [u \in Mutators |-> "idle"]
    /\ flush = [f \in Flushers |-> Idle]
    /\ secret = 0
    /\ authorized = TRUE /\ registered = TRUE
    /\ sync = "starting"
    /\ signOut = "no" /\ revoke = "no" /\ shutdown = "no"
    /\ restarts = 0
    /\ failed = FALSE /\ overlapped = FALSE
    /\ kept = FALSE /\ raced = FALSE

-----------------------------------------------------------------------------
(* cache_peer, set_update_state, set_dc_option, set_home_dc_id: change the *)
(* data under the lock, then mark_dirty outside it.  Callers hold the      *)
(* client by Arc, so this goes on after the account was logged out.        *)

Mutate(u) ==
    /\ mutator[u] = "idle"
    /\ data < MaxVersion
    /\ data' = data + 1
    /\ mutator' = [mutator EXCEPT ![u] = "changed"]
    /\ UNCHANGED <<dirty, flush, secret, account, restarts, history>>

(* Mutant: the change is not marked.                                       *)
ForgetMark(u) ==
    /\ mutator[u] = "changed"
    /\ mutator' = [mutator EXCEPT ![u] = "idle"]
    /\ UNCHANGED <<data, dirty, flush, secret, account, restarts, history>>

Mark(u) ==
    /\ mutator[u] = "changed"
    /\ dirty' = TRUE
    /\ mutator' = [mutator EXCEPT ![u] = "idle"]
    /\ UNCHANGED <<data, flush, secret, account, restarts, history>>

-----------------------------------------------------------------------------
(* KeychainSession::flush                                                  *)

Call(f) ==
    /\ flush[f] = Idle
    /\ flush' = [flush EXCEPT ![f].at = "called"]
    /\ overlapped' = (overlapped \/ Flushing)

(* dirty.swap(false): a clean session is not written.                      *)
Swap(f) ==
    /\ flush[f].at = "called"
    /\ flush' = [flush EXCEPT ![f] = IF dirty THEN [@ EXCEPT !.at = "swapped"] ELSE Idle]
    /\ dirty' = FALSE
    /\ UNCHANGED <<data, mutator, secret, account, restarts, history>>

TakeSnapshot(f) ==
    /\ flush[f].at = "swapped"
    /\ flush' = [flush EXCEPT ![f] = [at |-> "writing", snap |-> data]]
    /\ UNCHANGED <<session, secret, account, restarts, history>>

(* Mutant: the flag is cleared once the write has succeeded.               *)
WriteThenClear(f) ==
    /\ flush[f].at = "writing"
    /\ secret' = flush[f].snap
    /\ dirty' = FALSE
    /\ flush' = [flush EXCEPT ![f] = Idle]
    /\ failed' = FALSE
    /\ UNCHANGED <<data, mutator, account, restarts, overlapped, kept, raced>>

Write(f) ==
    /\ flush[f].at = "writing"
    /\ secret' = flush[f].snap
    /\ flush' = [flush EXCEPT ![f] = Idle]
    /\ failed' = FALSE
    /\ UNCHANGED <<session, account, restarts, overlapped, kept, raced>>

(* secrets.set fails: flush returns Err and the flag stays clear.          *)
WriteFails(f) ==
    /\ flush[f].at = "writing"
    /\ flush' = [flush EXCEPT ![f] = Idle]
    /\ failed' = TRUE
    /\ UNCHANGED <<session, secret, account, restarts, overlapped, kept, raced>>

FlushStep(f) == Swap(f) \/ TakeSnapshot(f) \/ Write(f) \/ WriteFails(f)

-----------------------------------------------------------------------------
(* sync::run: flush is a synchronous call, the task does nothing else then *)

SyncStreamTaken ==
    /\ sync = "starting"
    /\ sync' = "offline"
    /\ UNCHANGED <<session, flush, secret, authorized, registered, signOut,
                   revoke, shutdown, restarts, history>>

(* take_update_stream fails: the task returns and is not started again.    *)
SyncStreamFails ==
    /\ sync = "starting"
    /\ sync' = "ended"
    /\ UNCHANGED <<session, flush, secret, authorized, registered, signOut,
                   revoke, shutdown, restarts, history>>

(* list_dialogs succeeded: flush, then the live loop.                      *)
SyncSeeded ==
    /\ sync = "offline"
    /\ sync' = "live"
    /\ Call("sync")
    /\ UNCHANGED <<session, secret, authorized, registered, signOut, revoke,
                   shutdown, restarts, failed, kept, raced>>

(* flush_timer.tick()                                                      *)
SyncTick ==
    /\ sync = "live"
    /\ Call("sync")
    /\ UNCHANGED <<session, secret, account, restarts, failed, kept, raced>>

SyncLost ==
    /\ sync = "live" /\ flush["sync"] = Idle
    /\ sync' = "offline"
    /\ UNCHANGED <<session, flush, secret, authorized, registered, signOut,
                   revoke, shutdown, restarts, history>>

(* An error says the authorization is revoked: on_logged_out, return.      *)
SyncRevoked ==
    /\ sync \in {"offline", "live"} /\ flush["sync"] = Idle
    /\ sync' = "ended"
    /\ revoke' = "delete"
    /\ UNCHANGED <<session, flush, secret, authorized, registered, signOut,
                   shutdown, restarts, history>>

-----------------------------------------------------------------------------
(* secrets.delete(session-<id>)                                            *)
Delete ==
    /\ secret' = NoSecret
    /\ kept' = FALSE
    /\ raced' = Flushing

DeleteFails ==
    /\ kept' = TRUE
    /\ UNCHANGED <<secret, raced>>

(* The task logged_out_callback spawns; the delete's result is dropped.    *)
RevokeDelete ==
    /\ revoke = "delete"
    /\ Delete \/ DeleteFails
    /\ revoke' = "record"
    /\ UNCHANGED <<session, flush, authorized, registered, sync, signOut,
                   shutdown, restarts, failed, overlapped>>

RevokeRecord ==
    /\ revoke = "record"
    /\ authorized' = FALSE
    /\ revoke' = "remove"
    /\ UNCHANGED <<session, flush, secret, registered, sync, signOut,
                   shutdown, restarts, history>>

RevokeRemove ==
    /\ revoke = "remove"
    /\ ~RuntimesLocked
    /\ registered' = FALSE
    /\ revoke' = "done"
    /\ UNCHANGED <<session, flush, secret, authorized, sync, signOut,
                   shutdown, restarts, history>>

-----------------------------------------------------------------------------
(* AccountManager::sign_out                                                *)

(* Mutant: the sync task is left running.                                  *)
LeaveRunning(task) == task

(* sync_task.abort() takes effect at an await: a flush call already        *)
(* running completes, and no other begins.                                 *)
Abort(task) == "ended"

SignOutBegin ==
    /\ signOut = "no" /\ registered
    /\ ~RuntimesLocked
    /\ registered' = FALSE
    /\ sync' = Abort(sync)
    /\ signOut' = "rpc"
    /\ UNCHANGED <<session, flush, secret, authorized, revoke, shutdown,
                   restarts, history>>

(* The RPC's result is dropped; destroy() begins with dirty.store(false).  *)
SignOutClear ==
    /\ signOut = "rpc"
    /\ dirty' = FALSE
    /\ signOut' = "cleared"
    /\ UNCHANGED <<data, mutator, flush, secret, authorized, registered, sync,
                   revoke, shutdown, restarts, history>>

(* ... and deletes the secret; sign_out drops the result.                  *)
SignOutDelete ==
    /\ signOut = "cleared"
    /\ Delete \/ DeleteFails
    /\ signOut' = "deleted"
    /\ UNCHANGED <<session, flush, authorized, registered, sync, revoke,
                   shutdown, restarts, failed, overlapped>>

(* No runtime: only the stored session is deleted, and an error returned.  *)
SignOutStored ==
    /\ signOut = "no" /\ ~registered
    /\ ~RuntimesLocked
    /\ \/ Delete /\ signOut' = "deleted"
       \/ DeleteFails /\ signOut' = signOut
    /\ UNCHANGED <<session, flush, authorized, registered, sync, revoke,
                   shutdown, restarts, failed, overlapped>>

SignOutRecord ==
    /\ signOut = "deleted"
    /\ authorized' = FALSE
    /\ signOut' = "done"
    /\ UNCHANGED <<session, flush, secret, registered, sync, revoke,
                   shutdown, restarts, history>>

-----------------------------------------------------------------------------
(* AccountManager::shutdown: flush, then abort and drop the runtime.       *)

ShutdownFlush ==
    /\ shutdown = "no"
    /\ ~RuntimesLocked
    /\ registered
    /\ shutdown' = "flushing"
    /\ Call("shutdown")
    /\ raced' = (raced \/ revoke \in {"record", "remove"})
    /\ UNCHANGED <<session, secret, authorized, registered, sync, signOut,
                   revoke, restarts, failed, kept>>

ShutdownStop ==
    /\ shutdown = "flushing" /\ flush["shutdown"] = Idle
    /\ registered' = FALSE
    /\ sync' = Abort(sync)
    /\ shutdown' = "done"
    /\ UNCHANGED <<session, flush, secret, authorized, signOut, revoke,
                   restarts, history>>

(* The process ends, at any point, and starts again: resume_all loads the  *)
(* session of an authorized account.  If that fails there is no runtime.   *)
Restart ==
    /\ restarts < MaxRestarts
    /\ restarts' = restarts + 1
    /\ data' = Loaded(secret) /\ dirty' = FALSE
    /\ mutator' = [u \in Mutators |-> "idle"]
    /\ flush' = [f \in Flushers |-> Idle]
    /\ \/ authorized /\ registered' = TRUE /\ sync' = "starting"
       \/ registered' = FALSE /\ sync' = "ended"
    /\ signOut' = "no" /\ revoke' = "no" /\ shutdown' = "no"
    /\ failed' = FALSE /\ overlapped' = FALSE
    /\ UNCHANGED <<secret, authorized, kept, raced>>

Next ==
    \/ \E u \in Mutators : Mutate(u) \/ Mark(u)
    \/ \E f \in Flushers : FlushStep(f)
    \/ SyncStreamTaken \/ SyncStreamFails \/ SyncSeeded \/ SyncTick
    \/ SyncLost \/ SyncRevoked
    \/ RevokeDelete \/ RevokeRecord \/ RevokeRemove
    \/ SignOutBegin \/ SignOutClear \/ SignOutDelete \/ SignOutStored
    \/ SignOutRecord
    \/ ShutdownFlush \/ ShutdownStop
    \/ Restart

(* Threads run; a synchronous flush returns; select! polls its branches in *)
(* random order, so a timer that is due is not passed over for ever.       *)
Fairness ==
    /\ \A u \in Mutators : WF_vars(Mark(u))
    /\ WF_vars(FlushStep("sync"))
    /\ WF_vars(SyncTick)

Spec == Init /\ [][Next]_vars /\ Fairness

-----------------------------------------------------------------------------
(* The type invariant of the session and of the calls that touch it.       *)
TypeOK ==
    /\ data \in Nat
    /\ dirty \in BOOLEAN
    /\ mutator \in [Mutators -> {"idle", "changed"}]
    /\ flush \in [Flushers -> [at : {"idle", "called", "swapped", "writing"}, snap : Nat]]
    /\ secret \in Nat \cup {NoSecret}
    /\ authorized \in BOOLEAN /\ registered \in BOOLEAN
    /\ sync \in {"starting", "offline", "live", "ended"}
    /\ signOut \in {"no", "rpc", "cleared", "deleted", "done"}
    /\ revoke \in {"no", "delete", "record", "remove", "done"}
    /\ shutdown \in {"no", "flushing", "done"}
    /\ restarts \in 0 .. MaxRestarts
    /\ failed \in BOOLEAN /\ overlapped \in BOOLEAN
    /\ kept \in BOOLEAN /\ raced \in BOOLEAN

(* Somebody is still going to store a change of the data: its mutator has  *)
(* yet to mark it, the flag is set, or a flush has it in hand.             *)
Pending ==
    \/ \E u \in Mutators : mutator[u] = "changed"
    \/ dirty
    \/ \E f \in Flushers : \/ flush[f].at = "swapped"
                           \/ flush[f].at = "writing" /\ flush[f].snap = data

(* Clearing the flag before the snapshot loses no change, however changes  *)
(* and flushes interleave: a session that differs from the Keychain's is   *)
(* due to be stored, unless it is being logged out, a write failed, or     *)
(* shutdown flushed while the sync task did.                               *)
NoChangeLost ==
    secret = data \/ secret = NoSecret \/ Pending \/ failed \/ overlapped \/ signOut # "no"

(* After a logout is recorded the Keychain holds no session, unless its    *)
(* delete failed (both callers drop the error) or a flush was in progress  *)
(* at the delete, or begun by shutdown between delete and removal.         *)
LoggedOutLeavesNoSecret == authorized \/ secret = NoSecret \/ kept \/ raced

(* The stored session never goes back to an older state - the update state *)
(* catch-up starts from, the peers' access hashes - except when the        *)
(* flushes of shutdown and of the sync task overlap.                       *)
NeverBackwards == [][secret' >= secret \/ secret' = NoSecret \/ overlapped]_vars

(* While the account stays connected every change reaches the Keychain     *)
(* with the next tick, however busy the session is.                        *)
ChangesReachKeychain ==
    \A v \in 1 .. MaxVersion :
        data >= v /\ sync = "live" ~>
            secret >= v \/ failed \/ overlapped \/ sync # "live"

(* session.rs 123-124 says that flush persists the current state if        *)
(* anything changed since the last flush: with the flag clear, so that the *)
(* next flush of the sync task writes nothing, the Keychain holds the data.*)
CleanIsStored ==
    sync = "live" /\ shutdown = "no" /\ ~Pending => secret \in {data, NoSecret}
=============================================================================

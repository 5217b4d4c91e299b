--------------------------- MODULE AccountLifecycle ---------------------------
(***************************************************************************)
(* AccountManager (telegram-core, accounts.rs): how logins become accounts.*)
(* Login flows share one pending slot and one secret, session-pending; a   *)
(* login that Telegram accepts is promoted to session-<id>, the accounts   *)
(* table and a runtime with a sync task; sign_out, a revoked authorization,*)
(* shutdown and restarts take it down again.                               *)
(*                                                                         *)
(* A session is what it is logged in to: an account, or Blank.  Each await,*)
(* lock and call of the secret store is a step of its own; the two locks   *)
(* are the conditions PendingLocked and RuntimesLocked.                    *)
(***************************************************************************)
EXTENDS Integers

CONSTANTS
    Accounts,     \* Telegram users
    Flows,        \* calls of begin_code_login and begin_qr_login
    Blank,        \* a session that is not logged in
    None,         \* no secret, no pending login, no runtime, no task
    MaxDisturb    \* bound: logouts, revocations, stream failures, shutdowns
                  \* and restarts

(* What the pending slot holds: the flow it belongs to, and the flows      *)
(* whose code and two-factor tokens it has, or None.                       *)
PendingLogin == [flow : Flows, code : Flows \cup {None}, tf : Flows \cup {None}]

ASSUME NamesAssumption ==
    /\ Accounts \cap Flows = {} /\ Accounts \cap {"none", "scanning"} = {}
    /\ Blank \notin Accounts /\ None \notin Accounts \cup Flows
    /\ Blank # None /\ None \notin PendingLogin
ASSUME MaxDisturbAssumption == MaxDisturb \in Nat

VARIABLES
    at,             \* how far the caller of begin_*_login is
    qr,             \* the QR task of each flow; an account once it is signed in
    client,         \* the session in memory of each flow's client
    pending,        \* the pending slot: a PendingLogin or None
    submit,         \* the submit_* call that holds the pending lock
    fin,            \* finalize_login of the PendingLogin of each flow
    who,            \* ... the account it is for
    bytes,          \* ... what it read from session-pending
    pendingSecret,  \* the secret session-pending
    secret,         \* the secrets session-<id>
    authorized,     \* the accounts the table says are authorized
    runtime,        \* the runtime in `runtimes`: a login's, or a resumed one
    live,           \* the session of each running sync task, or None
    out,            \* sign_out of each account
    revoke,         \* the task of logged_out_callback of each account
    shutdown,       \* AccountManager::shutdown
    disturbed,      \* how many of what MaxDisturb bounds
    crossed,        \* history: flows that used session-pending at once
    entangled,      \* history: accounts promoted during a logout or a re-login
    cut             \* history: accounts whose logout a restart interrupted

login == <<at, qr, client, pending, submit>>
promotion == <<fin, who, bytes>>
account == <<runtime, live, out, revoke, shutdown>>
stored == <<pendingSecret, secret, authorized>>
history == <<crossed, entangled, cut>>
vars == <<login, promotion, account, stored, disturbed, history>>

-----------------------------------------------------------------------------
Sessions == Accounts \cup {Blank}

(* A runtime is named by the flow that was promoted to it, or by its       *)
(* account when resume_all started it.                                     *)
Instances == Flows \cup Accounts
AccountOf(i) == IF i \in Accounts THEN i ELSE who[i]

(* Mutant: a missing item is not replaced by a fresh session.              *)
LoadUnchecked(s) == s

(* A missing or empty item loads as a fresh session.                       *)
Loaded(s) == IF s = None THEN Blank ELSE s

(* A running promotion, and the part of it that needs session-pending.     *)
Moving == {"flush", "get", "set", "clear"}
Finishing == Moving \cup {"upsert", "load", "insert"}

(* Mutant: submit_code keeps its guard while it finalizes.                 *)
KeepGuard == submit # "no" \/ \E f \in Flows : fin[f] \in Finishing

(* submit_code and submit_password hold the pending lock over the request, *)
(* sign_out the write lock of `runtimes`, shutdown that lock while it      *)
(* waits for the pending lock.                                             *)
PendingLocked == submit # "no"
RuntimesLocked == shutdown = "pending" \/ \E a \in Accounts : out[a] = "rpc"

(* abort() stops a task at its next await: one that is running may still   *)
(* store the answer it has and come to take the pending login.             *)
AfterAbort(task) == {task, "none"}

Resumed(started) ==
    /\ runtime = [a \in Accounts |-> IF a \in started THEN a ELSE None]
    /\ live = [i \in Instances |-> IF i \in started THEN Loaded(secret[i]) ELSE None]

Init ==
    /\ at = [f \in Flows |-> "new"]
    /\ qr = [f \in Flows |-> "none"]
    /\ client = [f \in Flows |-> Blank]
    /\ pending = None /\ submit = "no"
    /\ fin = [f \in Flows |-> "no"]
    /\ who = [f \in Flows |-> None]
    /\ bytes = [f \in Flows |-> Blank]
    /\ pendingSecret = None
    /\ authorized \in SUBSET Accounts
    /\ secret = [a \in Accounts |-> IF a \in authorized THEN a ELSE None]
    /\ Resumed(authorized)
    /\ out = [a \in Accounts |-> "no"]
    /\ revoke = [a \in Accounts |-> "no"]
    /\ shutdown = "no"
    /\ disturbed = 0
    /\ crossed = {} /\ entangled = {} /\ cut = {}

-----------------------------------------------------------------------------
(* Histories: what the properties except.                                  *)

(* The flow is somewhere between the first and the last access that its    *)
(* begin or its promotion make to session-pending.                         *)
UsesPending(f) ==
    at[f] \in {"deleting", "loading"} \/ qr[f] \in Accounts \/ fin[f] \in Moving

(* Flows that use session-pending at the same time, and QR tasks that      *)
(* promote the login of another flow, or leave it their two-factor token.  *)
Crossing ==
    {f \in Flows : \/ UsesPending(f) /\ \E g \in Flows \ {f} : UsesPending(g)
                   \/ qr[f] \in Accounts /\ pending # None /\ pending.flow # f
                   \/ pending # None /\ pending.tf = f /\ pending.flow # f}

(* Accounts a login is being promoted to while they are logged out, have a *)
(* runtime or a sync task, or are the target of another login.             *)
Entangled ==
    {a \in Accounts : \E f \in Flows :
        /\ fin[f] \in Finishing /\ who[f] = a
        /\ \/ out[a] # "no" \/ revoke[a] # "no"
           \/ runtime[a] # None
           \/ \E i \in Instances \ {f} : live[i] # None /\ AccountOf(i) = a
           \/ \E g \in Flows \ {f} : fin[g] \in Finishing /\ who[g] = a}

Track ==
    /\ crossed' = crossed \cup Crossing'
    /\ entangled' = entangled \cup Entangled'

(* How a step ends: what else it leaves unchanged, and the histories.      *)
Keeping(kept) == UNCHANGED <<kept, disturbed, cut>> /\ Track

Disturbing(kept) ==
    /\ disturbed < MaxDisturb
    /\ disturbed' = disturbed + 1
    /\ UNCHANGED kept
    /\ Track

-----------------------------------------------------------------------------
(* begin_code_login, begin_qr_login                                        *)

(* fresh_pending_client takes the previous login and aborts its QR task,   *)
Begin(f) ==
    /\ at[f] = "new"
    /\ ~PendingLocked
    /\ at' = [at EXCEPT ![f] = "deleting"]
    /\ pending' = None
    /\ IF pending = None
       THEN qr' = qr
       ELSE \E q \in AfterAbort(qr[pending.flow]) : qr' = [qr EXCEPT ![pending.flow] = q]
    /\ Keeping(<<client, submit, promotion, account, stored>>)

(* ... and, with the lock released, deletes session-pending ...            *)
BeginDelete(f) ==
    /\ at[f] = "deleting"
    /\ \/ pendingSecret' = None /\ at' = [at EXCEPT ![f] = "loading"]
       \/ pendingSecret' = pendingSecret /\ at' = [at EXCEPT ![f] = "gone"]
    /\ Keeping(<<qr, client, pending, submit, promotion, account,
                   secret, authorized>>)

(* ... and loads it.  A QR flow's task is spawned before its caller stores *)
(* the pending login.                                                      *)
BeginLoad(f) ==
    /\ at[f] = "loading"
    /\ client' = [client EXCEPT ![f] = Loaded(pendingSecret)]
    /\ \/ at' = [at EXCEPT ![f] = "requesting"] /\ qr' = qr
       \/ at' = [at EXCEPT ![f] = "spawned"] /\ qr' = [qr EXCEPT ![f] = "scanning"]
       \/ at' = [at EXCEPT ![f] = "gone"] /\ qr' = qr
    /\ Keeping(<<pending, submit, promotion, account, stored>>)

(* request_code fails.                                                     *)
RequestFails(f) ==
    /\ at[f] = "requesting"
    /\ at' = [at EXCEPT ![f] = "gone"]
    /\ Keeping(<<qr, client, pending, submit, promotion, account, stored>>)

(* What is in the slot is overwritten: its QR task is no longer reachable. *)
Store(f) ==
    /\ at[f] \in {"requesting", "spawned"}
    /\ ~PendingLocked
    /\ pending' = [flow |-> f, tf |-> None,
                 code |-> IF at[f] = "requesting" THEN f ELSE None]
    /\ at' = [at EXCEPT ![f] = "gone"]
    /\ Keeping(<<qr, client, submit, promotion, account, stored>>)

-----------------------------------------------------------------------------
(* submit_code, submit_password: the token is taken, the lock kept.        *)

SubmitCode ==
    /\ ~PendingLocked
    /\ pending # None /\ pending.code # None
    /\ pending' = [pending EXCEPT !.code = None]
    /\ submit' = "code"
    /\ Keeping(<<at, qr, client, promotion, account, stored>>)

SubmitPassword ==
    /\ ~PendingLocked
    /\ pending # None /\ pending.tf # None
    /\ pending' = [pending EXCEPT !.tf = None]
    /\ submit' = "password"
    /\ Keeping(<<at, qr, client, promotion, account, stored>>)

(* after_login stores the session that just got its account.               *)
AfterLogin(s) == pendingSecret' = s

(* Telegram signs the client in: after_login, take, release, finalize.     *)
SubmitOk(a) ==
    /\ submit # "no"
    /\ LET f == pending.flow IN
       /\ client' = [client EXCEPT ![f] = a]
       /\ AfterLogin(a)
       /\ qr' \in {[qr EXCEPT ![f] = q] : q \in AfterAbort(qr[f])}
       /\ fin' = [fin EXCEPT ![f] = "flush"]
       /\ who' = [who EXCEPT ![f] = a]
    /\ pending' = None
    /\ submit' = "no"
    /\ Keeping(<<at, bytes, account, secret, authorized>>)

PasswordNeeded ==
    /\ submit = "code"
    /\ pending' = [pending EXCEPT !.tf = pending.flow]
    /\ submit' = "no"
    /\ Keeping(<<at, qr, client, promotion, account, stored>>)

(* Rejected, or signed in but after_login could not store it.  A code may  *)
(* be tried again; the password's token is spent.                          *)
SubmitFails ==
    /\ submit # "no"
    /\ \E s \in {client[pending.flow]} \cup Accounts :
        client' = [client EXCEPT ![pending.flow] = s]
    /\ pending' = IF submit = "code" THEN [pending EXCEPT !.code = pending.flow] ELSE pending
    /\ submit' = "no"
    /\ Keeping(<<at, qr, promotion, account, stored>>)

-----------------------------------------------------------------------------
(* run_qr_flow.  Token refreshes change nothing here.                      *)

(* The code was scanned: complete_qr_login stores the session.             *)
QrAuthorized(f, a) ==
    /\ qr[f] = "scanning"
    /\ qr' = [qr EXCEPT ![f] = a]
    /\ client' = [client EXCEPT ![f] = a]
    /\ AfterLogin(a)
    /\ Keeping(<<at, pending, submit, promotion, account, secret, authorized>>)

QrPassword(f) ==
    /\ qr[f] = "scanning"
    /\ ~PendingLocked
    /\ qr' = [qr EXCEPT ![f] = "none"]
    /\ pending' = IF pending = None THEN None ELSE [pending EXCEPT !.tf = f]
    /\ Keeping(<<at, client, submit, promotion, account, stored>>)

(* The stream or a request fails, or the new session cannot be stored.     *)
QrFails(f) ==
    /\ qr[f] = "scanning"
    /\ qr' = [qr EXCEPT ![f] = "none"]
    /\ \E s \in {client[f]} \cup Accounts : client' = [client EXCEPT ![f] = s]
    /\ Keeping(<<at, pending, submit, promotion, account, stored>>)

(* The task takes whatever login the slot holds.                           *)
QrPromote(f) ==
    /\ qr[f] \in Accounts
    /\ ~PendingLocked
    /\ pending # None
    /\ qr' = [qr EXCEPT ![f] = "none"]
    /\ pending' = None
    /\ fin' = [fin EXCEPT ![pending.flow] = "flush"]
    /\ who' = [who EXCEPT ![pending.flow] = qr[f]]
    /\ Keeping(<<at, client, submit, bytes, account, stored>>)

(* NoPendingLogin.                                                         *)
QrTooLate(f) ==
    /\ qr[f] \in Accounts
    /\ ~PendingLocked
    /\ pending = None
    /\ qr' = [qr EXCEPT ![f] = "none"]
    /\ Keeping(<<at, client, pending, submit, promotion, account, stored>>)

-----------------------------------------------------------------------------
(* finalize_login.  Each call of the secret store may fail and end it; the *)
(* PendingLogin it took goes with it.                                      *)

FinFails(f) ==
    /\ fin[f] \in Moving \cup {"load"}
    /\ fin' = [fin EXCEPT ![f] = "failed"]
    /\ client' = [client EXCEPT ![f] = Blank]
    /\ who' = [who EXCEPT ![f] = None]
    /\ bytes' = [bytes EXCEPT ![f] = Blank]
    /\ Keeping(<<at, qr, pending, submit, account, stored>>)

(* The session is written if it changed since after_login.                 *)
FinFlush(f) ==
    /\ fin[f] = "flush"
    /\ pendingSecret' \in {pendingSecret, client[f]}
    /\ fin' = [fin EXCEPT ![f] = "get"]
    /\ Keeping(<<login, who, bytes, account, secret, authorized>>)

(* A missing item is copied as an empty one.                               *)
FinGet(f) ==
    /\ fin[f] = "get"
    /\ bytes' = [bytes EXCEPT ![f] = Loaded(pendingSecret)]
    /\ fin' = [fin EXCEPT ![f] = "set"]
    /\ Keeping(<<login, who, account, stored>>)

FinSet(f) ==
    /\ fin[f] = "set"
    /\ secret' = [secret EXCEPT ![who[f]] = bytes[f]]
    /\ bytes' = [bytes EXCEPT ![f] = Blank]
    /\ fin' = [fin EXCEPT ![f] = "clear"]
    /\ Keeping(<<login, who, account, pendingSecret, authorized>>)

(* The client of the pending slot is dropped.                              *)
FinClear(f) ==
    /\ fin[f] = "clear"
    /\ pendingSecret' = None
    /\ client' = [client EXCEPT ![f] = Blank]
    /\ fin' = [fin EXCEPT ![f] = "upsert"]
    /\ Keeping(<<at, qr, pending, submit, who, bytes, account, secret, authorized>>)

FinUpsert(f) ==
    /\ fin[f] = "upsert"
    /\ authorized' = authorized \cup {who[f]}
    /\ fin' = [fin EXCEPT ![f] = "load"]
    /\ Keeping(<<login, who, bytes, account, pendingSecret, secret>>)

(* start_runtime loads the session and spawns the sync task, ...           *)
FinLoad(f) ==
    /\ fin[f] = "load"
    /\ live' = [live EXCEPT ![f] = Loaded(secret[who[f]])]
    /\ fin' = [fin EXCEPT ![f] = "insert"]
    /\ Keeping(<<login, who, bytes, runtime, out, revoke, shutdown, stored>>)

(* ... then registers it.  A runtime it replaces is dropped, which neither *)
(* aborts nor disconnects its sync task.                                   *)
FinInsert(f) ==
    /\ fin[f] = "insert"
    /\ ~RuntimesLocked
    /\ runtime' = [runtime EXCEPT ![who[f]] = f]
    /\ fin' = [fin EXCEPT ![f] = "done"]
    /\ Keeping(<<login, who, bytes, live, out, revoke, shutdown, stored>>)

Finalize(f) ==
    \/ FinFails(f) \/ FinFlush(f) \/ FinGet(f) \/ FinSet(f) \/ FinClear(f)
    \/ FinUpsert(f) \/ FinLoad(f) \/ FinInsert(f)

-----------------------------------------------------------------------------
(* The sync task of a runtime, and the callback it fires.                  *)

SyncFlush(i) ==
    /\ live[i] # None
    /\ secret' = [secret EXCEPT ![AccountOf(i)] = live[i]]
    /\ Keeping(<<login, promotion, account, pendingSecret, authorized>>)

(* take_update_stream failed.                                              *)
SyncEnds(i) ==
    /\ live[i] # None
    /\ live' = [live EXCEPT ![i] = None]
    /\ Disturbing(<<login, promotion, runtime, out, revoke, shutdown, stored, cut>>)

SyncRevoked(i) ==
    /\ live[i] # None
    /\ revoke[AccountOf(i)] = "no"
    /\ live' = [live EXCEPT ![i] = None]
    /\ revoke' = [revoke EXCEPT ![AccountOf(i)] = "delete"]
    /\ Disturbing(<<login, promotion, runtime, out, shutdown, stored, cut>>)

RevokeDelete(a) ==
    /\ revoke[a] = "delete"
    /\ secret' \in {secret, [secret EXCEPT ![a] = None]}
    /\ revoke' = [revoke EXCEPT ![a] = "record"]
    /\ Keeping(<<login, promotion, runtime, live, out, shutdown,
                   pendingSecret, authorized>>)

(* Mutant: the callback does not record the logout.                        *)
RevokeUnrecorded(a) ==
    /\ revoke[a] = "record"
    /\ revoke' = [revoke EXCEPT ![a] = "remove"]
    /\ Keeping(<<login, promotion, runtime, live, out, shutdown, stored>>)

RevokeRecord(a) ==
    /\ revoke[a] = "record"
    /\ authorized' = authorized \ {a}
    /\ revoke' = [revoke EXCEPT ![a] = "remove"]
    /\ Keeping(<<login, promotion, runtime, live, out, shutdown,
                   pendingSecret, secret>>)

(* Whatever runtime the account has by now is removed.                     *)
RevokeRemove(a) ==
    /\ revoke[a] = "remove"
    /\ ~RuntimesLocked
    /\ runtime' = [runtime EXCEPT ![a] = None]
    /\ revoke' = [revoke EXCEPT ![a] = "no"]
    /\ Keeping(<<login, promotion, live, out, shutdown, stored>>)

-----------------------------------------------------------------------------
(* sign_out                                                                *)

(* Mutant: the runtime is removed, its sync task left running.             *)
LeaveRunning(started) == live

(* The live tasks once those of a set of runtimes are aborted.             *)
Aborted(started) == [i \in Instances |-> IF i \in started THEN None ELSE live[i]]

SignOutBegin(a) ==
    /\ out[a] = "no" /\ runtime[a] # None
    /\ ~RuntimesLocked
    /\ runtime' = [runtime EXCEPT ![a] = None]
    /\ live' = Aborted({runtime[a]})
    /\ out' = [out EXCEPT ![a] = "rpc"]
    /\ Disturbing(<<login, promotion, revoke, shutdown, stored, cut>>)

(* The request and destroy: both results are dropped, the lock released.   *)
SignOutDestroy(a) ==
    /\ out[a] = "rpc"
    /\ secret' \in {secret, [secret EXCEPT ![a] = None]}
    /\ out' = [out EXCEPT ![a] = "record"]
    /\ Keeping(<<login, promotion, runtime, live, revoke, shutdown,
                   pendingSecret, authorized>>)

(* No runtime: delete the stored session.  An error changes nothing.       *)
SignOutStored(a) ==
    /\ out[a] = "no" /\ runtime[a] = None
    /\ ~RuntimesLocked
    /\ secret' = [secret EXCEPT ![a] = None]
    /\ out' = [out EXCEPT ![a] = "record"]
    /\ Disturbing(<<login, promotion, runtime, live, revoke, shutdown,
                   pendingSecret, authorized, cut>>)

SignOutRecord(a) ==
    /\ out[a] = "record"
    /\ authorized' = authorized \ {a}
    /\ out' = [out EXCEPT ![a] = "no"]
    /\ Keeping(<<login, promotion, runtime, live, revoke, shutdown,
                   pendingSecret, secret>>)

-----------------------------------------------------------------------------
(* shutdown: flush and abort every runtime, then, with the write lock of   *)
(* `runtimes` still held, take the pending login and abort its QR task.    *)

ShutdownRuntimes ==
    /\ shutdown = "no"
    /\ ~RuntimesLocked
    /\ LET Started == {runtime[a] : a \in Accounts} \ {None} IN
       /\ \E changed \in SUBSET {a \in Accounts : runtime[a] # None /\ live[runtime[a]] # None} :
            secret' = [a \in Accounts |-> IF a \in changed THEN live[runtime[a]] ELSE secret[a]]
       /\ live' = Aborted(Started)
    /\ runtime' = [a \in Accounts |-> None]
    /\ shutdown' = "pending"
    /\ Disturbing(<<login, promotion, out, revoke, pendingSecret, authorized, cut>>)

ShutdownPending ==
    /\ shutdown = "pending"
    /\ ~PendingLocked
    /\ pending' = None
    /\ IF pending = None
       THEN qr' = qr
       ELSE \E q \in AfterAbort(qr[pending.flow]) : qr' = [qr EXCEPT ![pending.flow] = q]
    /\ shutdown' = "done"
    /\ Keeping(<<at, client, submit, promotion, runtime, live, out,
                   revoke, stored>>)

(* The process ends, at any point, and starts again: resume_all starts a   *)
(* runtime for each authorized account; one that fails is skipped.         *)
Restart ==
    /\ at' = [f \in Flows |-> IF at[f] = "new" THEN "new" ELSE "gone"]
    /\ qr' = [f \in Flows |-> "none"]
    /\ pending' = None /\ submit' = "no"
    /\ fin' = [f \in Flows |-> IF fin[f] = "no" THEN "no" ELSE "failed"]
    /\ \E started \in SUBSET authorized :
        /\ runtime' = [a \in Accounts |-> IF a \in started THEN a ELSE None]
        /\ live' = [i \in Instances |-> IF i \in started THEN Loaded(secret[i]) ELSE None]
    /\ out' = [a \in Accounts |-> "no"]
    /\ revoke' = [a \in Accounts |-> "no"]
    /\ shutdown' = "no"
    /\ cut' = cut \cup {a \in Accounts : out[a] = "record" \/ revoke[a] = "record"}
    /\ client' = [f \in Flows |-> Blank]
    /\ who' = [f \in Flows |-> None]
    /\ bytes' = [f \in Flows |-> Blank]
    /\ Disturbing(stored)

Next ==
    \/ \E f \in Flows : \/ Begin(f) \/ BeginDelete(f) \/ BeginLoad(f)
                        \/ RequestFails(f) \/ Store(f)
                        \/ QrPassword(f) \/ QrFails(f)
                        \/ QrPromote(f) \/ QrTooLate(f)
                        \/ \E a \in Accounts : QrAuthorized(f, a)
                        \/ Finalize(f)
    \/ SubmitCode \/ SubmitPassword \/ PasswordNeeded \/ SubmitFails
    \/ \E a \in Accounts : SubmitOk(a)
    \/ \E i \in Instances : SyncFlush(i) \/ SyncEnds(i) \/ SyncRevoked(i)
    \/ \E a \in Accounts : RevokeDelete(a) \/ RevokeRecord(a) \/ RevokeRemove(a)
    \/ \E a \in Accounts : \/ SignOutBegin(a) \/ SignOutDestroy(a)
                           \/ SignOutStored(a) \/ SignOutRecord(a)
    \/ ShutdownRuntimes \/ ShutdownPending
    \/ Restart

(* A call that waits for one of tokio's locks gets it in turn; requests    *)
(* return; tasks run.                                                      *)
Fairness ==
    /\ \A f \in Flows : SF_vars(Finalize(f))
    /\ SF_vars(ShutdownPending)
    /\ WF_vars(PasswordNeeded \/ SubmitFails \/ \E a \in Accounts : SubmitOk(a))
    /\ \A a \in Accounts : WF_vars(SignOutDestroy(a))

Spec == Init /\ [][Next]_vars /\ Fairness

-----------------------------------------------------------------------------
(* The type invariant of the login flows, the accounts and their tasks.    *)
TypeOK ==
    /\ at \in [Flows -> {"new", "deleting", "loading", "requesting", "spawned", "gone"}]
    /\ qr \in [Flows -> {"none", "scanning"} \cup Accounts]
    /\ client \in [Flows -> Sessions]
    /\ pending \in PendingLogin \cup {None}
    /\ submit \in {"no", "code", "password"}
    /\ submit # "no" => pending # None
    /\ fin \in [Flows -> {"no", "done", "failed"} \cup Finishing]
    /\ who \in [Flows -> Accounts \cup {None}]
    /\ \A f \in Flows : fin[f] \in Finishing \cup {"done"} => who[f] # None
    /\ bytes \in [Flows -> Sessions]
    /\ pendingSecret \in Sessions \cup {None}
    /\ secret \in [Accounts -> Sessions \cup {None}]
    /\ authorized \subseteq Accounts
    /\ runtime \in [Accounts -> Instances \cup {None}]
    /\ live \in [Instances -> Sessions \cup {None}]
    /\ out \in [Accounts -> {"no", "rpc", "record"}]
    /\ revoke \in [Accounts -> {"no", "delete", "record", "remove"}]
    /\ shutdown \in {"no", "pending", "done"}
    /\ disturbed \in 0 .. MaxDisturb
    /\ crossed \subseteq Flows /\ entangled \subseteq Accounts /\ cut \subseteq Accounts

(* An account that the table says is authorized has its own session in the *)
(* Keychain, not a blank one and not another account's - unless its logout *)
(* is about to be recorded or was cut short by a restart, two logins used  *)
(* session-pending at once, or it was promoted amid a logout or re-login.  *)
AuthorizedHasSession ==
    \A a \in authorized :
        \/ secret[a] = a
        \/ out[a] = "record" \/ revoke[a] = "record"
        \/ a \in entangled \cup cut \/ crossed # {}

(* Every running sync task can be stopped: it belongs to the runtime of    *)
(* its account, which sign_out and shutdown find, or is about to - unless  *)
(* the account was promoted amid a logout or a re-login.                   *)
EverySyncIsOwned ==
    \A i \in Instances : live[i] # None =>
        \/ runtime[AccountOf(i)] = i
        \/ i \in Flows /\ fin[i] = "insert"
        \/ AccountOf(i) \in entangled

(* The locks of submit_*, sign_out, finalize_login and shutdown are taken  *)
(* in an order that lets each of them end: a flow is promoted once at most *)
(* and shutdown runs once in a process, so in the end none is under way.   *)
CallsReturn ==
    <>[](shutdown # "pending" /\ \A f \in Flows : fin[f] \notin Finishing)

(* sync.rs 3 says that one instance of run lives for each connected        *)
(* account.                                                                *)
OneSyncPerAccount ==
    \A i, j \in Instances :
        live[i] # None /\ live[j] # None /\ AccountOf(i) = AccountOf(j) => i = j
=============================================================================

# Specifications of telegram_gui

TLA+ models of the Rust core of telegram_gui (crates `telegram-core`,
`telegram-api`, `database`, `cache`, `shared`) and of the state the React front
end derives from its events. TLC checks them on small instances, TLAPS proves
the safety properties of every module for every value of the constants, and
that the send path implements what sending promises.

    tlc -config MCSendPath.cfg MCSendPath.tla
    tlapm SendPathProofs.tla

## 1. Inventory

| part | code | state | operations | what is hard |
|---|---|---|---|---|
| Outgoing messages | `services.rs` (`send_message`, `deliver_text`, `delete_messages`) | `NEXT_LOCAL_ID`, one spawned task per send | send, deliver, reconcile, delete | the task runs against sync, backfill, deletes and the end of the process |
| Repositories | `database/*.rs`, `0001_init.sql` | tables `messages`, `chats`, `users`, `accounts` | one SQL statement each | UNIQUE (account, chat, id); conditional updates; upserts that overwrite |
| Keychain session | `session.rs`, `cache/secrets.rs` | data under a mutex, a dirty flag, the Keychain item | change + mark, flush, destroy, load | threads between lock, flag and Keychain; failing writes; deletes against flushes |
| Account lifecycle | `accounts.rs`, `auth.rs`, `client.rs` | `runtimes` (RwLock), `pending` (Mutex), `session-pending`, `session-<id>`, `accounts.authorized` | code and QR login, password, resume, sign out, revocation, shutdown | overlapping login flows, a crash between two writes, locks held across requests |
| Sync engine | `sync.rs`, `updates.rs` | one task per account, its back-off, the update stream | seed the dialogs, apply updates, reconnect | read-modify-write of counters around awaits, replayed updates, a stream that can be taken once |
| Event bus and bridge | `bus.rs`, `bridge.rs`, `event.rs` | broadcast ring of 1024 | publish, receive, lag | a slow reader loses events |
| Message view | `MessageView.tsx` | the messages of one chat | events, first page, older pages, lag | answers that come back after newer events; two orders of messages |
| Accounts and chat list | `App.tsx` | the accounts, the one on screen, its chats | events, re-reads, switches | two accounts with a chat of the same id; late answers; what is not read again after a lag |
| Blob cache | `blob.rs` | files, their times, temporary files | put, get, evict | shared temporary name, eviction on stale times |
| Media and avatars | `services.rs` 374-492 | semaphore of 3, reactions cache | cache, else fetch and put | waiting for a permit with a stale cache miss |
| Pagination, search, configuration, mapping | `messages.rs`, `config.rs`, `mapping.rs` | none | pure functions | boundaries |

**How they interact.** The webview calls `commands.rs`, which calls `Core`.
`Core` writes SQLite first, talks to Telegram through the account's
`TelegramClient`, writes the outcome and publishes a `CoreEvent`. The sync task
of each account does the same for what Telegram pushes. The bridge forwards the
events; the views apply them or read the database again. Every actor meets in
two places: the database, where a statement is atomic and nothing longer is,
and the session, which client tasks change and sync, shutdown and logout store
or delete.

What makes each part correct, and the hazards it is exposed to line by line,
are in `PROJECT.json` (`hazards`). In short: a message is never lost and its
delivery state never lies; a session change reaches the Keychain and a logout
leaves none behind; an authorized account has a usable session; counters and
previews agree with the messages; views converge to the database; the cache
returns what was put.

## 2. Plan

| order | module | composes | abstract promise | theorems | state |
|---|---|---|---|---|---|
| 1 | `MessageStore`, `SendPath` | the store with sends, deletes, backfill, sync, restart | each send ends in one resolved row | type, four safety invariants | **done** |
| 2 | `KeychainSession` | client tasks, flushers, logout, restart | memory is stored eventually, logout erases | type, three safety properties | **done** |
| 3 | `AccountLifecycle` | login flows, runtimes, secrets, accounts table | authorized accounts have their session, tasks can be stopped | type, two safety invariants | **done** |
| 4 | `SyncEngine` | the sync task, Telegram's log and the calls of the UI on one chat | what was announced arrives; counters and rows follow it | type, `CountedOnce`, `DeletedStaysDeleted`, `RowsConverge`, `BadgeHidesNothing` | **done** |
| 5 | `EventBus`, `MessageView` | writers, bus, bridge, `Core::messages`, the list of one chat | a view equals the database once quiet | type, `ViewMatchesStore`, `NoTwins`, `NoHoles`, `EndIsTheEnd` | **done** |
| 6 | `ChatList` | writers, bus, accounts and chats on screen, with `EventBus` | the same, of several accounts | type, `ListMatchesStore`, `ActiveIsAuthorized` | **done** |
| 7 | `BlobCache` | put, get, evict, avatar permits, restart | a map from keys to whole blobs that may forget | type, `PermitsConserved`, `TornOnlyIfShared`, `PhotoFetchedOnce`, `EvictsOldest` | **done** |
| 8 | `Outbox` | abstract delivery, implemented by `SendPath` | one submission, one acceptance, one outcome | `Spec => ImplementsOutbox` | **done** |

What the plan has left: an abstract specification of the views (a list that is
replaced, extended at its old end and kept current) that `MessageView` and
`ChatList` implement, and one of the blob cache (a map that may forget) for
`BlobCache`.

## 3. What is modelled

### `MessageStore` and `SendPath`

`MessageStore` has one operator per SQL statement, over a table that maps an id
to a row or to `NoRow` (so the UNIQUE constraint is the function itself). Its
interesting operator is `ConfirmSent`: the UPDATE that re-keys a pending row
fails when the server id is taken.

`SendPath` is one chat. `SendMessage(m)` is `send_message` up to its spawn;
`Deliver(m)` is `deliver_text`, one action per await: the request is rejected
(`SendFails`) or accepted (`ServerAccepts`), its reply arrives (`Reply`) or is
lost (`ReplyLost`), then `Confirm` and `TouchPreview`, or `FailRow`.
`DeleteBegin` .. `DeleteLocally` is `delete_messages` for one id, `FillBegin` ..
`FillUpsert` the backfill of `messages()` when no `before` is given,
`SyncUpsert`, `SyncTouch` and `SyncDelete` the two branches of `apply_event`
that write the same rows. `SeedFetch`, `SeedPreview` and `SeedRow` are the seed
of `sync_cycle` at this chat: the dialog list is fetched, then the chat row is
overwritten with the list's date and preview, whatever it holds by then, then
the last message's row. (The unread counter that the same statement overwrites
is in `SyncEngine`.) A failing delete is two actions, `DeleteRpcErr` and
`DeleteReplyLost`: Telegram may have deleted the message or not. `Crash` drops
every task and resets the id counter, and keeps the database. Telegram is the
variables `serverId`, `newest` and `unsent`: it numbers messages upwards, with
dates that never decrease and may be equal. The history `outrun` has the
messages whose delivery ended between the fetch of the list that last overwrote
the preview and that write.

Left out: I/O errors of SQLite (the UNIQUE violation is not one), other chats
(they leave gaps in both kinds of id, and gaps are modelled), a delete of
several ids in one call. `send_file`, edits and reactions are in `SyncEngine`.

`Outbox` says what `SendPath` promises without ids, tables or tasks: of each
message its outcome, the id Telegram gave it and the states it is shown in.
`SendPath` implements it by `Promise` (`INSTANCE Outbox WITH`): the outcome is
read off `pc` (`Outcome`), the states shown off the table (`ShownStates`). A
`Submit` may displace a message that is pending or failed: the reuse of local
ids after a restart is visible even at this level. `Outbox` has no fairness, so
liveness is stated of `SendPath` itself.

### `KeychainSession`

The session of one account. Its data is a version, the number of changes.
`Mutate` and `Mark` are the two halves of every change (`cache_peer`,
`set_update_state`, ...); `Call`, `Swap`, `TakeSnapshot`, `Write` / `WriteFails`
are `flush`, for the sync task (`SyncSeeded`, `SyncTick`) and for shutdown
(`ShutdownFlush`, `ShutdownStop`). `SignOut*` is `AccountManager::sign_out` with
`TelegramClient::sign_out` and `destroy` inside, `Revoke*` the task spawned by
`logged_out_callback`, `Restart` the end of the process and `resume_all`. The
write lock of `runtimes` is `RuntimesLocked`. Aborting a task that is inside a
synchronous flush does not stop the flush: that is why `Abort` only prevents
the next one.

Left out: a poisoned mutex, a corrupt item (load starts fresh, as for a missing
one), a second login of the account (`AccountLifecycle`).

### `AccountLifecycle`

All of `AccountManager`, with the parts of `auth.rs`, `session.rs` and
`database/accounts.rs` it calls. A session is reduced to what it is logged in
to: an account, or `Blank`. A flow is one call of `begin_code_login` or
`begin_qr_login`.

| code | actions |
|---|---|
| `fresh_pending_client`, then the store into `pending` | `Begin`, `BeginDelete`, `BeginLoad`, `RequestFails`, `Store` |
| `submit_code`, `submit_password` | `SubmitCode` / `SubmitPassword`, then `SubmitOk`, `PasswordNeeded` or `SubmitFails` |
| `run_qr_flow`, the task of a QR login | `QrAuthorized`, `QrPassword`, `QrFails`, `QrPromote`, `QrTooLate` |
| `finalize_login`, `start_runtime` | `FinFlush` .. `FinInsert`, `FinFails` |
| the sync task, `logged_out_callback` | `SyncFlush`, `SyncEnds`, `SyncRevoked`, `RevokeDelete` .. `RevokeRemove` |
| `sign_out` | `SignOutBegin`, `SignOutDestroy`, `SignOutStored`, `SignOutRecord` |
| `shutdown`; the end of the process and `resume_all` | `ShutdownRuntimes`, `ShutdownPending`; `Restart` |

Every await, lock and call of the secret store separates two actions. The mutex
of `pending` is kept across a request by `submit_*` (`PendingLocked`), the write
lock of `runtimes` by `sign_out` and, while it waits for the mutex, by
`shutdown` (`RuntimesLocked`). `abort` stops a task at its next await only, so
an aborted QR task may still act on an answer it has (`AfterAbort`). A runtime
that is replaced, or removed by the callback, drops a JoinHandle: its task goes
on. `live` therefore holds sync tasks, not runtimes.

Three history variables name the interleavings that the code does not handle:

- `crossed`: two flows used `session-pending` at once, or a QR task met the
  pending login of another flow. A second `begin_*_login` while a login is
  promoted deletes the secret between the flush and the read of
  `finalize_login`, whose `unwrap_or_default` stores an empty session for an
  account that it then records as authorized;
- `entangled`: an account was promoted while it was logged out, had a runtime
  or a sync task, or was the target of another login;
- `cut`: the process ended between the delete of the secret and
  `set_authorized(false)`, so the next run resumes an account without a session.

Left out: SQLite errors; the flush of a sync task that is aborted inside it
(`KeychainSession` has that); the version of a session (also there).

### `SyncEngine`

The sync task of one account at one chat. Telegram is an append-only `log` of
updates and what has become of the messages; `pos` is how much of the log the
stream has handed out, and a restart resumes at `saved`, the watermark in the
stored session. `catch_up` is on, as in `config/default.toml`: what was handed
out before comes again as it is now (`Carried`), deleted messages do not
(`SkipDeleted`). These two and the four `...Elsewhere` actions are assumptions
on Telegram, marked external in `PROJECT.json`.

| code | actions |
|---|---|
| `run` | `TakeStream`, `StreamRefused`, `Sleep` with `NextDelay`, `Revoked` |
| `sync_cycle` | `Dialogs`, `SeedChat`, `SeedRow`, `DialogsFail`, `StreamFails` |
| `apply_event` | `ReceiveNew`, `StoreNew`, `ReadCounter`, `WriteCounter`; `ReceiveEdit`; `ReceiveDelete` |
| `mark_read` | `MarkRead`, `ResetCounter`, `TellRead` or `TellFails` |
| `edit_message`, `react` | `Edit` or `React`, `ReadRow`, `WriteRow` |
| `send_file`; a page of `messages()` or `search()` | `SendFile` or `Fetch`, then `WriteRow` |
| `delete_messages` | `Delete`, `DropRow` |

A row is the version of its text. The chat row is its unread counter; its
preview is in `SendPath`, the flushes of the session in `KeychainSession`, the
publishing of events in `MessageView`. Typing and presence write nothing.

The histories name the races the code leaves open. A message is in `aside` when
a page, an edit or a stopped process stored it first, so that `already_seen`
keeps it from being counted; in `overtaken` when it came between `mark_read`'s
watermark and its reset. A row is `raced` when a call wrote an older version
over a newer one, and `revived` when a call had read it, or fetched its page,
before its deletion was applied.

### `EventBus`, `MessageView`

`EventBus` is the ring of `bus.rs` as its one slow reader sees it: `Kept` drops
the oldest event. `MessageView` is the way of one chat's messages from a write
to the screen. Telegram, and `next_local_id` within a run, give an id once:
`given` are those given so far.

| code | actions |
|---|---|
| `send_message`, `deliver_text` | `Send`; `Confirm` or `SendFails`, with `Accept` on Telegram's side |
| `apply_event`, edits, reactions and deletions of the UI | `Arrive`, `Modify`, `Delete` |
| `bus.publish`, the bridge, `RecvError::Lagged` | `Publish`, `Deliver`, `Lagged` |
| writers that publish nothing of the row: the dialog seed, `search`, the backfill | `Seed`, `Search`, `Backfill` |
| `Core::messages` | `ReadPage`, `ReadOffline`, `Backfill` or `BackfillFails`, `RereadPage` |
| `loadInitial`, `loadOlder` | `InitialAnswer`; `LoadOlder`, `OlderAnswer` |

A task stores a row (`Write`) and then publishes what it has `pending`; the two
steps of two writers can cross. `Confirm` publishes the deletion of the local
row and the sent message whether or not `confirm_sent` worked: when it fails,
the row stays in the table and goes from the screen. The three upserts that no
message event tells of (`Upsert`) overwrite: a message that is stored already
comes as it was or edited. A fetch and the storing of what it brought are one
step here; what comes between them is in `SendPath` and `SyncEngine`.

There are two orders. SQL compares dates as the text that is stored
(`Earlier`, `messages.rs:82`); `sortAscending` compares them by `localeCompare`
(`Above`, `MessageView.tsx:13-17`), which has a fraction of a second before the
bare second where SQL has it after. Only a local row has a fraction, so it and a
server message of its second stand in the other order on screen, and the first
message shown (`Oldest`), from which `loadOlder` goes on, need not be the
earliest. `view` keeps every copy of a message on screen: one shown twice is a
sequence of length 2. The local row is one; two of the same second are left out.

Histories name what the code does not handle:

- `stale`: rows that the screen was last told of wrongly, or not at all. There
  are three causes: an answer that was read before a write and is shown after
  its event; a row written with no event (seed, search, backfill), or with one
  that adds nothing to the screen (an edit of a message that was not stored); a
  last event that is not what the row holds, because two tasks published in
  another order than they wrote or because a re-key failed. An event or an
  answer that is the row takes it out again;
- `disturbed`: the list is not one stretch of the chat, because a message older
  than any shown came as an event, or `loadOlder`'s answer was put in front of
  a list that had a message before its cursor (`crossed`): by an event, by
  `loadInitial`'s answer, or from the start because of the two orders;
- `vanished`: a message was deleted between the backfill of `loadOlder` and its
  second read.

### `ChatList`

The accounts, the one on screen and its chats: `App.tsx` with what it reads
(`list_accounts`, `chat_list`) and what it is told. Several accounts may have a
chat of the same id. `Touch`, `Count` and `Get` are the statements of
`apply_event` on the chats table, `MarkRead` and `Get` those of `mark_read`;
`SeedChat` is the seed, which publishes the chat as it was fetched;
`SentTouches` is `touch_last_message` of `deliver_text`, after which nothing is
published of the chat. `LogIn` and `LogOut` set the `authorized` flag.
`ChatUpdated` is the handler of `chat_updated`, which looks at the chat's id
alone: another account's event takes the chat's place. `Lagged` re-reads the
accounts and not the chats; these are read when another account becomes active
(`Activate`), by the user (`Switch`, `AddAccount`), or because the present one is
gone (`AccountsAnswer`). An answer of `chat_list` replaces the list, whichever
account is on screen by then (`ChatsAnswer`).

The histories: `stale`, rows that the list was last told of wrongly or not at
all (a send's preview, two writers' events in the other order, a late answer,
another account's chat in the row's place); `dropped`, rows the ring dropped an
event of; `behind`, the last answer of `list_accounts` is not the one that was
read last. Left out: failing calls and database errors, the columns of a chat,
the order of the list, and the time between two accounts' creation (accounts are
numbered).

### `BlobCache`

`put`, `get` and `evict_to_limit` with the three services that call them. The
file system is modelled as far as write-then-rename depends on it: names bound
to inodes, an open that truncates, renames and removals that leave open files
alone. `PutOpen`, `PutWrite`, `PutRename` are the three effects of `put`;
`EvictList`, `EvictStat`, `EvictRemove` those of `evict_sync`, which runs on a
thread of its own. `Acquire` takes a permit of `avatar_downloads`, `End` gives
it back; only `user_avatar_bytes` looks into the cache again after it. A request
for a chat's photo may pass by a blob that is there (`NotFound`): `avatar_bytes`
looks under the key that the dialog sync recorded, none or an older one, and
stores under the one the download returns. `shared` names the keys whose
temporary file two puts had open together, `lost` those the eviction took a file
of, `seen` the files as the eviction began, until something else touches one.

## 4. What the runs show

| run | instance | shows |
|---|---|---|
| `send_path` | 2 messages, local ids -2..-1, server ids 1..2, pages of 2, 2 disturbances | five invariants of `SendPath`, liveness of deliveries, every step is one of `Outbox` |
| `local_ids` | the same with 1 disturbance | **finding**: a send after a restart overwrites an older pending row (`services.rs:21`) |
| `rekey` | the same | **finding**: the pending row survives its own acknowledgement when sync is faster (`services.rs:149`) |
| `keychain_session` | 2 client tasks, 3 changes, 1 restart | three invariants, one action property, one liveness property |
| `failed_flush` | 1 task, 1 change | **finding**: a failed write is not retried (`session.rs:126`) |
| `accounts` | 1 account, 2 logins, 1 disturbance | type, `AuthorizedHasSession`, `EverySyncIsOwned`, and that calls return |
| `relogin` | 1 account that logs in once more | **finding**: a second login leaves two sync tasks (`accounts.rs:320`) |
| `sync_engine` | 2 messages, 2 updates, 1 call, 2 lost connections or restarts | four invariants and liveness of `SyncEngine` |
| `blob_cache` | 3 or 4 requests at a time for 2 keys, 1 permit, room for 1 blob, 1 restart | five invariants of `BlobCache` |
| `message_view` | 2 old messages, a new one and a local row of the second old one's second, 2 writers, 2 writes, 2 loads, a ring of 1, pages of 1 | five invariants of `MessageView` |
| `chat_list` | 2 accounts with one chat each of the same id, 2 writers, 2 calls each of `chat_list` and `list_accounts`, 3 moves, a ring of 1 | three invariants of `ChatList` |
| `chat_list_lag` | the same with 2 moves | **finding**: the chats are not read again after a lag (`App.tsx:105`) |

**Properties of the send path.** `SentIsAccepted`: a row under a server id is
that message. `RowTellsDelivery`: which delivery stages a pending or failed row
may stand for; its two exceptions are the dead process and the lost race of
`rekey`. `NothingLost`: where a sent message can be; its exception is the id
reuse of `local_ids`. `PreviewNewest`: the preview is a real message with its
own date and not older than any finished send that Telegram still has; its
exception is the seed that was on its way when the send finished (`outrun`),
after which the preview really shows an older message until the next dialog
list or message. `DeliveryResolves`: liveness. It says `<>[]`, that in the end
every delivery has ended and resolved its row: a message is sent once and there
are finitely many, so this is the same as that each delivery ends, and cheaper
to check. `CallsReturn` is stated so for the same reason.

**Properties of the session.** `NoChangeLost`: whatever differs from the
Keychain is due to be stored by somebody. `LoggedOutLeavesNoSecret`: which
deletes may leave a secret. `NeverBackwards`: the stored version decreases only
by overlapping flushes. `ChangesReachKeychain`: liveness, while connected.

**Properties of the accounts.** `AuthorizedHasSession` relates the `accounts`
table to the Keychain: whoever is resumed has its own session, neither a blank
one nor another user's. `EverySyncIsOwned` relates the running tasks to
`runtimes`: `sign_out` and `shutdown` reach every one. `CallsReturn` is
liveness: the locks are taken in an order in which nobody waits for ever.

**Properties of the sync engine.** `CountedOnce` is the comment in
`apply_event`: a replay never counts a message again. `BadgeHidesNothing`
relates the counter to the rows and to Telegram: under a badge of 0 nothing is
unread but what the histories name. `DeletedStaysDeleted` and `RowsConverge`
relate the table to Telegram's log, `AnnouncedArrives` is liveness: what was
announced is stored, through lost connections, restarts and the longest delay,
unless the task has returned. The converse of `BadgeHidesNothing` is not
claimed: a message that the dialog list has counted already is counted again
when catch-up delivers it, so the badge can be too high until it is reset.

**Properties of the views.** `ViewMatchesStore`: once nothing is under way, what
is on screen is what the database has, whatever the ring dropped, but for the
rows in `stale`. `NoHoles`, `NoTwins`: the list is one stretch of the chat, each
message once. `EndIsTheEnd`: an older page is empty only at the beginning of the
chat; a page whose messages are deleted between the backfill and the second read
is empty too, although older ones are left (`vanished`). `ListMatchesStore` is
the first of these for the chats of the account on screen: there a loss of the
ring is an exception, because the code does not read the chats again; without
that exception it is `ListIsRereadAfterLag`, what the comments say, and fails.
`ActiveIsAuthorized`: once nothing is under way, the account on screen is one
that is logged in, lags included.

What is excepted can really stay wrong on screen. `stale` and `dropped` are kept
small: an event or an answer that brings the row takes it out again, so the
properties say that only these causes leave the screen behind, and only until
the row is told of once more.

**Properties of the blob cache.** `TornOnlyIfShared` is the comment "readers
never observe a torn blob", with the one race that breaks it: two puts of a key
share one temporary name. `PermitsConserved`, `PhotoFetchedOnce`: the bound on
parallel downloads and what it saves. `EvictsOldest`: least recently used
first, and never more than needed. The first contradicts the comment at
`blob.rs:97` in the one case it names; the reader then gets an `Err`, not wrong
bytes, and there is no run for it.

The findings are stated as the documentation has them (`LocalIdsNeverCollide`,
`AcknowledgedIsRekeyed`, `CleanIsStored`, `OneSyncPerAccount`,
`ListIsRereadAfterLag`); the invariants that hold name the same situations as
exceptions, so nothing else can cause them.

**What the histories excuse.** A property that names a race as its exception
says that nothing else goes wrong; it does not say that the race is harmless.
These stay wrong in the code and no property forbids them: logins that cross
(`crossed`) and promotions amid a logout or another login (`entangled`); a
message that is never counted (`aside`, `overtaken` in `SyncEngine`); a
`mark_read` that the task's counter overwrites, or a badge that is too high; a
sync task that returned because it could not take its stream; a blob torn by two
puts (`shared`); an eviction by times that a put or hit has changed since.

**Bounds.** Two sends are enough for any pair to race; a third is covered by the
proofs. A disturbance is a delete, a backfill, a seed or a restart; with two,
any of them meets any other, on either side of a send. Two server ids leave a
gap as soon as one message takes the second; more of them, and equal dates, are
covered by the proofs. The sync task's updates are unbounded: it may replay any
accepted message at any time.

- In `KeychainSession` three versions let a change fall before, into and after a
  flush; one restart is enough because a restart keeps nothing but the secret
  and the accounts row.
- In `AccountLifecycle` two logins of one account are enough for two flows to
  cross and for an account to be logged in twice; one disturbance is a logout,
  revocation, stream failure, shutdown or restart against them. A logout that a
  restart cuts short takes two, and a session under the wrong account two
  accounts: both are cases of the proofs, as are three or more flows.
- In `SyncEngine` two messages, of which one is incoming, and two updates let an
  edit or a deletion meet a post, a replay or a seeding; one call is enough
  because a call races with the task, and calls meet each other only in rows
  that the task writes too. Two lost connections double the delay to its cap and
  let a restart follow a lost connection.
- In `MessageView` a ring of one event lags as soon as two are waiting, and a
  page of one message makes every page the last of a stretch. The local row is
  of the second of the second old message, so that the two orders differ on
  them; two writers, two writes, two loads and one older page are what can
  cross. `MaxCopies` stops `loadOlder` from a list that has one message twice.
- In `ChatList` two accounts share a chat id, so that one's event can take the
  other's place, and two calls of each kind can answer in the other order; three
  moves are two writes around a switch, or a login, a logout and one more.
- In `BlobCache` the requests come in three batches (`Together`): two for a
  member's photo against two for a media blob, or against one for a chat's photo
  with which they share the one permit, and three for a media blob against the
  chat's photo, so that the third can find the blob that two others tore. Room
  for one blob makes the eviction choose among finished and temporary files.

`SYMMETRY` (of requests for one blob in `BlobCache`, of writers and of calls in
`MessageView` and `ChatList`) is used by runs that check safety only. `SendPath`
has an explicit `Idle` step and is checked for deadlock; a `KeychainSession`
stops for good after a logout, and the others when their flows, updates,
requests, writes or moves are used up, so their runs say `CHECK_DEADLOCK FALSE`.

**Fairness.** `Deliver(m)` is weakly fair: tokio polls a spawned task until it
finishes, and a request returns a reply or an error when the connection does.
`Mark(u)` and the sync task's flush are synchronous code on running threads.
`SyncTick` is weakly fair: the interval fires, and `select!` polls its branches
in random order. `Finalize(f)` and `ShutdownPending` are strongly fair because
tokio's locks are FIFO: a lock that others take again and again still comes to
whoever waits. The answer to `submit_*` and to the logout request
(`SignOutDestroy`) is weakly fair: a request returns. In `SyncEngine` the steps
of the sync task are weakly fair: it is polled, its sleeps end and its requests
return, with an error as often as `MaxTrouble` allows. `MessageView`,
`ChatList` and `BlobCache` state safety only. Nothing is assumed of the user, of
Telegram, of the connection, of logout or of shutdown.

## 5. What is proved

`SendPathProofs` proves `TypeOK`, `SentIsAccepted`, `RowTellsDelivery`,
`NothingLost` and `PreviewNewest` of `SendPath` for all constants that satisfy
the assumptions of `MessageStore` and `SendPath` (local ids are negative,
server ids positive, dates do not decrease, `NoRow` is no row). None is
inductive alone. The invariant `Inv` adds:

- `Numbering`: Telegram never repeats an id;
- `StageIds`: the stage of a delivery fixes which of its ids are assigned;
- `OwnRow`: a running delivery shares its local row with nobody, because the
  ids of one run strictly decrease. A restart kills all deliveries, which is
  why reusing ids afterwards breaks `NothingLost` and not `SentIsAccepted`;
- `InHand`: what a backfill, the sync task (a dialog entry included) or a delete
  holds between two steps came from Telegram;
- `StoredBy`: a row under a server id was stored by sync or backfill, or its
  delivery is past the acknowledgement.

`KeychainSessionProofs` proves `TypeOK`, `NoChangeLost`,
`LoggedOutLeavesNoSecret` and `NeverBackwards`. Its `Inv` adds `OneFlush` (two
busy flushes mean `overlapped`), `InHand` (what is about to be written is
current or due again), `Ordered` (the Keychain is not ahead of memory, a
pending write not behind the Keychain), `Detached` (no runtime, no sync task)
and `Gone` (from the delete of a logout on, nobody begins a flush).

`AccountLifecycleProofs` proves `TypeOK`, `AuthorizedHasSession` and
`EverySyncIsOwned` of `AccountLifecycle` for any accounts, flows and number of
disturbances, from `NamesAssumption` (accounts and flows are distinct names) and
`MaxDisturbAssumption`. What `Inv` adds:

- `Recorded` (`Alone`, `OwnSlot`, `Untangled`): what the histories say of the
  present. It holds after every step because every step ends with `Track`;
- `Ordered`: begin, slot, promotion and sync task of a flow follow each other,
  so a running task's account never changes (`TaskStep`);
- `Owners`: the runtime of an account is its own and fully promoted;
- `Apart`: until two flows cross, `session-pending` holds what the flow that
  uses it put there. This is what carries the session from `after_login` to
  the account's own secret;
- `Promoted`, `OwnSession`: from there on the secret and every task that may
  write it hold the account's own session;
- `Revoked`: an account whose callback runs has no task left.

`SendPathRefinement` proves that `SendPath` implements `Outbox`: initial states
map to initial states and each step to a step of the promise or to none. The
mapping ranges over the whole table; `ShownInParts`, which follows from
`SendPathProofs!Inv`, says which rows count: at most one under the local id,
pending or failed, and one under the server id, sent. A step that displaces a
row of a former run (`local_ids`) is `Submit` with that message displaced, and a
`confirm_sent` that comes too late (`rekey`) is a stutter.

`SyncEngineProofs` proves `TypeOK`, `CountedOnce`, `DeletedStaysDeleted`,
`RowsConverge` and `BadgeHidesNothing` of `SyncEngine` for any ids, callers,
edits, calls and interruptions. `Grounds` is what each of them rests on: the
types with what the task and the calls have in hand, nothing newer than
Telegram (`PastOnly`), and `LogInv`: a message is posted once and before its
edits, each edit is newer than the last, and nothing follows a deletion. Then
each property has an invariant of its own:

- `CountInv`: a counted message was handed out before, and is stored or deleted
  on Telegram. A replay skips what is deleted, and `already_seen` finds the
  rest;
- `DeleteInv`: `erased` is exactly what the stream has handed out as deleted,
  and neither the task nor a call writes such a message, but for `revived`;
- `RowInv`: a message is gone, raced, its latest edit still ahead in the log
  (`Pending`), or everything that holds a version of it holds the latest
  (`Fresh`);
- `BadgeInv`: what a counter of 0 is about to be over a dialog's seeding.

`BlobCacheProofs` proves `TypeOK`, `PermitsConserved`, `TornOnlyIfShared`,
`PhotoFetchedOnce` and `EvictsOldest` of `BlobCache` for any finite sets of
requests and keys, any permits, budget and number of restarts. `Sound` is types
and permits. `FilesInv` adds which inode belongs to which key (`Inodes`), and
that a put of a key that is not `shared` is the only one with its file open
(`Alone`): what it renames is whole. `FewStore` counts: a member's photo is
stored by requests that hold a permit and found it missing after that, so with
no eviction in between no more than `Permits` do. `EvictInv` ranks the files by
age (`Ranks`) and follows the eviction through its list (`Progress`): what is
left is what is younger than the number removed.

`MessageViewProofs` proves the five invariants of `MessageView` for any finite
sets of messages, any second of the local row, any page size, ring, writers,
loads and writes. Two facts carry it. `ShortPageIsTheRest` is what
`Core::messages` concludes from a page: it is the end of what is before the
cursor, and all of it when it is not full; it is proved of SQL's order, and the
webview's enters only with `Oldest`. `Grounds` is the types, and that nothing is
stored, seen or on its way to the screen before its id was given (`OnlyGiven`).
Then:

- `ViewInv`: each message shown that is not `stale` is the row, or something is
  under way that puts it right (`Right`): the ring's loss, a load, or an event.
  The last event on the bus about such a row is what it holds (`LastSays`);
- `TwinsInv`: until it is `crossed`, nothing shown is before the cursor of
  `loadOlder` (`Ahead`), whose page therefore meets none of it. When the two
  orders disagree on the cursor, it is crossed from the start;
- `HolesInv`: a stored message that is taken off the screen comes back (`Back`),
  and what is later than a message shown, or not earlier than that cursor, is
  shown or about to be (`Covered`). A failed re-key breaks `Back`, and makes the
  local row `stale`;
- `EndInv`: after a backfill that did not fail, the second read finds something
  earlier than the cursor if Telegram has it.

`ChatListProofs` proves the three invariants of `ChatList` for any accounts,
chats, writers, calls, ring and moves. `Types` adds to `TypeOK` that a row is
there before it is read for an event. `ListInv`: the last event about a row that
is not `stale` is what it holds (`LastSays`), and unless the chats of the account
on screen are asked for, each of them is as the list has it, under way, or named
by a history (`Shown`). A loss of the ring enters `dropped` there, because
nothing in the code makes up for it. `KnownInv` has no such exception: until App
has read the accounts again, a change of theirs is told (`Telling`), by an
event, by a read that is to come, or by the lag signal.

Looking for these invariants corrected the model: ids were given twice, and two
of the properties were false with one message more than the run has.
`EndIsTheEnd` did not except a page that was deleted before it was read again,
and `NoHoles` did not except a backfill from a local row.

`SendPathProofs` also proves `OwnId`, the part of the comment at
`services.rs:18` that holds: within one run no two deliveries share a local id.

Only model-checked: the liveness properties (`DeliveryResolves`,
`ChangesReachKeychain`, `CallsReturn`, `AnnouncedArrives`), since fairness is
outside TLAPS's reach here, and the five findings, which are counterexamples.

## 6. What is not modelled

- Configuration (`config.rs`): read once before anything runs, by sequential
  merging; its values are constants here.
- The users table: nothing calls `UserRepo::upsert`, so presence updates no row.
- Conversion of media, reactions and presence from the wire (`mapping.rs`), and
  the text match of the offline search: data without a state.
- Search results, selection, typing expiry and scrolling in the webview, and the
  order of the chat list; login forms, the composer and media blocks: rendering.
- `Core::shutdown` is modelled as it is written, but the shell (`ui/src/main.rs`)
  never calls it: the program ends as in `Restart`. What the modules say of it
  holds for a shell that does.
- Windows, plugins, notifications, logging: output only.
- Things the modules show the code not to handle and no property states: a
  wrong password consumes the two-factor token, so that the next
  `submit_password` fails (`accounts.rs:156`); the badge that is too high after
  catch-up; the only eviction of a run that
  ends when a temporary file it listed is renamed (`blob.rs:183`). A message of
  a chat without a row is listed by the next dialog sync only (`sync.rs:178`),
  and a view whose messages were all deleted cannot page back
  (`MessageView.tsx:146`). The comment at `updates.rs:24` asks for `sync_state`
  before shutdown; `shutdown` does not call it, so a restart replays from an
  older watermark, which is the case `SyncEngine` has.

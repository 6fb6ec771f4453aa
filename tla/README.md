# kylins-client: specifications, model checking and proofs

TLA+ modules for kylins-client, a desktop mail client (Tauri: Rust backend,
React frontend): how folders are mirrored into SQLite over IMAP and Exchange
ActiveSync, how the user's edits and outgoing mail are queued, protected and
replayed, how the tasks that do it live and die, and what the reading pane, the
caches and the composer do with the result.

Paths are relative to the repository; `backend/` stands for
`kylins.client.backend/src/`, `frontend/` for `kylins.client.frontend/src/`.

## 1. Inventory

| Component | State | Operations | Hard behaviour | What makes it correct |
|---|---|---|---|---|
| IMAP folder sync: `backend/sync_engine/imap_source.rs`, `backend/db/messages.rs`, `backend/db/sync_state.rs` | tables `messages`, `folder_sync_state` (uidvalidity, last_uid, modseq) | `load_cursor`, `sync_folder`, `apply_folder_delta`, `apply_flag_updates`, `advance_imap_cursor` | five server commands and five transactions a round, other clients in between, reconnect and crash anywhere, renumbering | the cursor claims only what is stored; nothing vanishes that the server still has; the mirror converges |
| Mutation queue and replay: `backend/db/queue.rs`, `backend/db/mutations.rs`, `engine.rs` (`run_replay_round`) | table `pending_operations` | `enqueue`, `compact_queue`, `dequeue_pending_for_account`, `mark_completed`, `mark_failed` | effect and its record are apart; backoff; undecodable rows; ids without order | no mail lost, no needless second copy, bounded attempts, the user's last edit reaches the server |
| Account workers: `engine.rs` (`SyncEngine`) | maps `workers`, `workers_starting`; a task and a channel per account | `ensure_worker`, `spawn_worker`, `nudge_worker`, `stop_all`, the `select!` loop | concurrent callers, locks held across awaits, full channels, panics | one worker per account, no lost wake-up, no deadlock |
| Receive gates: `engine.rs`, `backend/db/rate_limit.rs` | breaker, stored waits | open, probe, record | restarts, failed writes, a clock that fails | a send is never held back; a probe is always made in the end; a wait is kept |
| IMAP session actor: `backend/mail/imap/session_manager.rs` | one connection per account, IDLE or command, push channel | `execute`, IDLE, reconnect once, shutdown | IDLE interrupted by commands, full or closed push channel | one connection; calls return; a push leads to a sync |
| EAS source: `backend/sync_engine/eas_source.rs`, `backend/eas/` | sync key per collection, policy key, token | Sync, FolderSync, SendMail, Provision, refresh | one recovery per command, resets, lost answers | the key claims only what is stored; mail arrives |
| Lists and moves: `backend/db/mutations.rs`, `backend/db/labels.rs`, `imap_source.rs`, `client.rs` | `threads`, `thread_labels`, `labels` | move, delete, prune, COPY/STORE/EXPUNGE | three commands broken off anywhere, a LIST with rows missing | a moved mail is kept, arrives, and is shown where it is |
| Bodies: `backend/db/message_bodies.rs`, `backend/sync_engine/commands.rs`, `frontend/stores/threadStore.ts` | cached bodies, CMS blobs, verdicts | prefetch, open, evict, refine | fetches racing openings, wipes, evictions | nothing is stored or shown for another message |
| Attachments: `backend/attachment_cache.rs`, `backend/db/attachments.rs` | files and `local_path` | fetch, reconcile, clean up | files written in place | a recorded file is whole and the message's own |
| Send path and crypto glue: `engine.rs` (`send_op`), `backend/mail/crypto.rs`, `backend/mail/smtp/`, `backend/db/crypto_keys.rs` | staged files, keys, account method | build, sign, encrypt, submit, copy to Sent | keys change between queueing and retry; what fails after acceptance | what leaves is as asked; accepted mail is not reported as failed |
| Signature verdicts: `backend/mail/crypto.rs`, `crypto_crl.rs`, `kylins.client.crypto/smime` | CRL cache, trust decisions, stored verdict | read anchors, resolve trust, fetch lists, store | openings overtake one another's downloads | a revoked certificate is not reported as valid |
| Drafts: `frontend/services/composer/`, `frontend/stores/inlineComposerStore.ts`, `backend/db/drafts.rs` | session, debounce, draft row | autosave, flush, replace, send, discard | a save in flight during any of the others | one row per draft left, none after it ended |
| Message list: `frontend/stores/threadStore.ts`, `frontend/hooks/useSyncEvents.ts`, `backend/db/threads.rs` | the shown threads, page cursor, current query, debounce | load, load more, reload on `sync:delta`, optimistic move and delete | loads overtaking one another and the writes they should see | at rest the list is the folder, in order, once each |
| Accounts, contacts, calendar, tasks, settings, other UI, shell | tables, windows | CRUD, rendering | little | not modelled (section 5) |

**How they interact.** A command of the user interface (`apply_mutation_inner`)
writes the local tables, then inserts rows of `pending_operations`, then calls
`ensure_worker` and `nudge_worker`. The account's worker is one task: it wakes
on its ticker, on a nudge (`SyncNow`, `ReplayNow`) or on a push. A poll round
replays the queue, passes the gates, lists the folders and syncs each one
through the account's session actor; a `ReplayNow` only replays; a push only
syncs the inbox. Every round builds its source afresh. Body and attachment
fetches are calls of the user interface that share the session actor with the
worker. The tables and the files are the only memory that survives the process;
no transaction spans two steps of a round. Deltas are announced to the frontend
as `sync:delta` events, from which the stores refresh.

`PROJECT.json` lists every component with its files and status, and every
hazard at its line with the properties that would catch it.

## 2. The modules

Conventions: a step ends where the code awaits (a server command, a
transaction, a lock), since that is where another task or a crash gets in.
Bounds are constants spent by guards; each module has one that counts failures
of every kind together (`MaxFails`, `MaxMishaps`, `MaxSlips`, ...), so that a
run explores every placement of so many failures. History variables record what
the properties excuse; no step of the code depends on them.

### FolderSync: one IMAP folder

Its state is in four groups: the server's folder (`mail`, `uidNext`,
`uidValidity`, `highestModseq`); the local tables (`rows`, `cursor`,
`pending`); what a round holds in memory (`phase`, `kind`, `due`, `since`, the
parts of the `FolderDelta`, `next`), lost when the round fails; and history
(`waived`, `missed`, and the fields `mod` and `uv` of a row).

| Action | Code |
|---|---|
| `BeginPoll`, `BeginReplay`, `BeginPush` | the branches of the worker's `select!`; the first round precedes it |
| `ReplayOp` | one pass of `run_replay_round`'s loop with its three outcomes: done and marked, done and not marked, not done |
| `Load` | `load_cursor` and `list_local_uids`: a read that fails yields the cursor of a folder never synced (`db/sync_state.rs:29-36`), or no UIDs, and the round goes on |
| `StatusWipe`, `StatusSkip`, `StatusGoOn` | `get_folder_status` and the three ways on: UIDVALIDITY changed, QRESYNC short cut, go on |
| `SearchNew`, `FetchNew`, `GetChanges`, `GetVanished` | the rest of `sync_folder`; all but the first two tolerate a failure |
| `ApplyWipe`, `ApplyUpsert`, `ApplyVanished`, `CheckLock`, `WriteFlags`, `FlagsApplied` | `apply_folder_delta`; the flags' lock check and write are two statements |
| `AdvanceCursor` | `advance_imap_cursor`, whose result the caller ignores |
| `UserWrites`, `UserEnqueues`, `EnqueueFails` | `apply_mutation_inner` |
| `Reconnect`, `AbortRound`, `Crash` | the actor's single retry, `?` or `continue` in a round, the end of the process |
| `Deliver`, `OtherClientFlags`, `OtherClientExpunges`, `Rebuild` | the server (external) |

Abstractions: a message is UID, `\Seen`, modseq; chunks of `APPLY_BATCH_SIZE`
are one step; the raw fetch path, which replaces the typed one when that
returns nothing, is `FetchNew` too; threads and labels are MailMoves' subject;
the user has at most one operation pending per message (OutboxReplay lifts
that).

### Mirror: what a source owes its folder

`Mirror` is the abstract specification of a `MailSource` and the `FolderDelta`
it fills, without UIDs, sync keys or rounds. Four sets of messages: those of the
server's folder (`here`), those with a row (`held`), those the stored cursor
claims to have seen (`vouched`) and those no round will bring any more
(`excused`). Five actions: `ServerMoves`, `UserDeletes`, `Store` (rows come;
only what the server no longer has goes), `StartOver` (the cursor's claims are
dropped, and with them perhaps the rows) and `Vouch` (the cursor moves, over
nothing that is not held or excused). `FolderSync` instantiates it as
`FolderMirror`, a message being a UID under a UIDVALIDITY; `EasMail` as
`EasMirror`, where nothing is excused and the claims of a torn wipe do not
count.

### Outbox and OutboxReplay: the queue

`OutboxReplay` is `pending_operations` and a worker's replay rounds. Operations
are numbered in order of creation; `rank` is the order of their random ids,
chosen at the start, because `compact_queue` compares ids. `DropReads` and
`DropUnreads` are the two DELETEs of a compaction, `Dequeue` the SELECT,
`Execute` the call of the source, `MarkCompleted` and `MarkFailed` the UPDATE or
DELETE after it, `BackoffOver` the passing of `next_retry_at`. A failure or
`Crash` can fall between any two. `runs`, `lost` and `unsure` are history.

`Outbox` is what the queue promises whoever sends a mail, with four variables
per mail (where it stands, copies accepted, acceptances in doubt, tries) and
five actions. `OutboxReplay` instantiates it as `Promised`; the mapping reads a
mail's standing off its row and its history.

### WorkerLifecycle: `SyncEngine`

A caller is in `pc[c]`: the fast path, the reservation in `workers_starting`
(two steps: the second mutex is awaited with the first held), `spawn_worker`,
the guard's drop (`try_lock`), the nudge and the send, which waits while the
channel is full. `StopAll` drains the map and holds its mutex until every worker
is told, in any order. A worker is `select`, in a round, or dead. A round may
`Hang`: `execute` awaits its answer without a timeout, so nothing says that the
round ends, and `Resume` has no fairness. The
`tick-only` branch that follows a closed channel is unreachable while the map
holds the worker's sender.

### ImapSession: the session actor

`handle` is the manager's map entry; an actor has its connection (`session`),
the folder it believes selected (`selected`), the one the server has selected
(`mailbox`), its command channel and the worker it pushes to. A client (the
worker's round, or a reader) works through a plan of calls: `FindActor` and
`SpawnActor` are the two looks of `handle_for`, `SendCommand` sends and waits.
The actor: `TakeCommand`, `Attempt` (connect, SELECT, run; one retry),
`Yield`, `SetIdleFolder`, `EnterIdle`, `LeaveIdle`, `Arrive` (mail, external)
and `Notify`, the send into the push channel. `Unanswered` is a server silent
to IDLE or to DONE, for which the actor waits without a timeout; `Answered` ends
the silence and has no fairness. A push round (`TakePush`) may end `"unserved"`:
no INBOX role is known, or no source can be built. `TellWorkers` and
`ShutdownActors` are `stop_all`; a worker started afterwards makes a second
actor.

### SyncGate and EasMail: the gates, and the EAS account behind them

`SyncGate` is the order of a poll round: `Drain` (replay), `AskLimit`
(`get_rate_limit`), `AskBreaker`, `Listed` (what the server answers and what is
recorded of it), `FinishRound`; `Advance` is time, `GateRestart` a restart,
which forgets the breaker and keeps the rate-limit row. `EasMail` EXTENDS it
with `EasSource`: `send_command` with its one recovery (`LastTry`, `Refreshed`,
`Provisioned`), `SendMail`, `Sync` of one collection with each of its statuses
(`SyncAnswered`, `SyncOddly`, `SyncFailed`, `SyncLost`) and the delta's three
transactions (`ApplyWipeStep`, `ApplyUpsertStep`, `EasFinish`), while the
server gets and loses mail, forgets keys, expires tokens and changes its
policy. `GateSpec` is checked and proved of it, so what holds of the gates
holds of the account.

### ReadingPane: bodies and the pane

Tasks of two kinds: a fetch (`Prefetch`, `BatchFetched`, `SetBody`, `SetBlob`,
`SetFlags`, `CountRows`, `Evict`) and an opening (`Open`, `ReadRow`, `ShowBody`,
`Recall`, `OpenCt`, `OpenPart`, `Record`, `ShowOpened`), while sync rounds drop
messages and renumber the folder (`Expunge`, `Renumber`, `Refill`) and events
refine what is shown (`Notice`, `Refine`). A message id names a UID: after a
renumbering it is another mail, of the next `gen`. The recency of the cached
bodies, by which `Evict` chooses, is the relation `older` between the rows there
are.

### SendPath: one mail on its way out

`BeginSend`, `BuildMime`, `ReadAccount`, `ReadSigner`, `FindKey`, `ExportKey`,
`ValidateRecipients`, `Encrypt`, `Sign`, `Transport`, `AppendSent`, `CleanUp`,
`Mark`: `send_op` and `apply_crypto`, one action per await. `Change` is the user
changing the account's method and keys at any time.

### SignerVerdict: what a signature is worth

Openings of one signed message: `ReadAnchors`, `ResolveTrust`, then for each
distribution point `CacheHit` or `AskPoint`, `Answered`, `KeepList`; `Heard`,
`Revoked` and `SignatureState` are `KylinsCrlChecker`'s and
`verify_with_context`'s decisions; `StoreVerdict` writes the row.

### DraftAutosave: the composer in the dock

`dock` is the session; `saving` the saves in flight (`SaveLooks`,
`SaveUpdates`, `SaveCreates`, `SaveReturns`, `SaveUndoes`); `turns` the
replacements of the session that wait for the flush of the old one
(`OpenReply`, `ClickDraft`, `ResumeDraft`, `TurnComes`); then `EndSession`,
`Discard`, `DeleteDraft`, `Post`, `PostEnds`. `fate` says what the code owes
each draft: `"left"` one row, `"ended"` none, `"unclear"` nothing.

### AttachmentCache: the files

Commands (`AskFor`, `LookUpRows`, `CheckFiles`, `Resolve`, `FetchParts`,
`WriteBegins`, `WriteEnds`, `RecordPath`), `reconcile_attachment_cache`
(`SweepBegins`, `RemoveOrphan`, `ScanPaths`, `ClearStale`), the user's delete
and its clean-up, renumberings, renewed bodies and `CacheCrash`. A file is
`whole` or not and has the mails its bytes are of.

### MailMoves: lists and moves

One mail as a succession of copies, since each folder it is put in gives it a
new UID. User: `Click`, `LocalWrites`, `Enqueue`, `CommandFails`. Replay:
`StartReplay`, `Execute` (one of COPY, STORE, EXPUNGE), `CommandDone`,
`CommandLost`, `RefusalIgnored`, `MarkReplayed`, `ReplayOver`. Sync:
`ListFolders`, `PruneLabels`, `SyncFolder`, `ApplyAdded`, `ApplyGone`,
`SweepOrphans`, `AdvanceLastUid`, `RoundOver` and their failures; `MoverCrash`.
A copy made by COPY carries `\Deleted` along and EXPUNGE takes every marked
message of the folder. UID MOVE is not there because no replay uses it
(divergence 24).

### ListView: the message list

`shown`, `pageCursor`, `query` and `isLoading` are `threadStore`'s; `inList` is
`thread_labels`. Loads: `SelectFolder`, `CloseFolder`, `LoadMore`, then
`ReadPage` (the keyset query of `get_threads`) and `TakePage` or `LoadFails`.
Events: `HearDelta`, `DebounceOver`. The user's moves and deletions:
`RemoveRow`, then `WriteRemoval` or `RemovalFails`. Sync rounds: `PullDelta`,
the commits `ApplyWiped`, `ApplyNew`, `ApplyVanish`, then `EmitDelta`;
`ApplyFails` between any two; `PruneList`. A thread is its place in the order,
latest first; `InOrder` lists a set of them, as the query's ORDER BY does. What
a row says is left out.

### MailParts, ClientParts

Components without shared state, side by side in one run: a behaviour is that
of one part, drawn at the start, while the others keep their initial state. The
states add up instead of multiplying. No part reads another's variables.

## 3. What is checked

| Run | Instance | Shows |
|---|---|---|
| `foldersync_safety` | QRESYNC; 2 UIDs, 3 modseqs, 2 UIDVALIDITYs, 1 edit, 3 failures (5.36 M states) | `CursorCoversFolder`, `CursorNeverGoesBack`, `FolderMirrored` (the refinement of Mirror), `RowsNeverGetOlder` |
| `foldersync_converge` | CONDSTORE only; 2 UIDs, 3 modseqs, 2 UIDVALIDITYs, 1 edit, 1 failure, fair (1.03 M) | `MailConverges`, `FlagsConverge` |
| `outbox_replay` | 1 message, 3 operations of 4 kinds, batches of 2, 2 retries, 2 failures, fair (456 k) | `MailIsKeptAndSent` (the refinement of Outbox), `EditsArrive`, `EveryOpSettles` |
| `worker_lifecycle` | 1 account, 2 callers, 3 calls, a channel of 1, 1 stop, 1 failure or hanging round, fair (346 k) | `OneWorkerPerAccount`, `HandlesLive`, `NoLostWakeUp`, `NobodyWaitsForEver` |
| `imap_session` (ClientParts, 443 k) | session: 1 worker, 1 reader, 2 actors, a push channel of 1, 1 stop, 2 drops, fair | `OneActorPerAccount`, `IdleWatchesInbox`, `CallsReturnUnlessStuck`, `PushIsFollowedBySync` |
| | drafts: 3 saves, 3 sessions, 2 edits, 1 fault | `DraftsAreAsLeft` |
| | files: 2 commands, 1 inline part, 2 mails, 1 sweep, 1 break | `CachedFileIsThePart` |
| | moves: 2 folders, 4 copies, 2 gestures, 2 tries, 1 lapse | `MoveKeepsMail`, `MovesArrive`, `ListsShowServer` |
| `mail_parts` (MailParts, 522 k) | EAS: 2 items whose hashes differ or not, 2 tries, 2 mishaps, a change of policy; one concern at a time (account, collection, send); fair | `GateSpec`, `SendsPassTheGates`, `GatesReopen`, `EasCursorCoversRows`, `EasMailArrives` |
| | pane: a clear-signed and a plain mail, a cache of 1, 2 tasks, 2 clicks, 1 prefetch, 1 glitch | `CachedMeansStored`, `RowsAreOfTheirMail`, `VerdictFitsMail`, `PaneFollowsSelection` |
| | send: every draft, 2 addresses, 2 attempts, 1 change, 1 slip | `WireIsAsAsked`, `FailureMeansUnsent` |
| | verdict: 2 openings, 2 points, 4 instants, a list kept for 1, 1 trouble | `RevokedIsNotValid` |
| | list: 3 threads, 2 folders, pages of 2, 2 loads, 3 turns (selections, removals, deltas, failures) | `ListIsFresh` |

Six more runs each expect a violation (see below). Each passing run also checks
one type invariant.

**Bounds.** FolderSync: two UIDs give a message below and one at the cursor;
three modseqs a change before and one during a round; two UIDVALIDITYs one
renumbering; three failures a failed round, then one that cannot read the stored
cursor and drops a message, which is what it takes to refetch badly what the
cursor vouches for. Queue:
three operations are the shortest sequence in which a toggle is cancelled and
another remains, with `Limit` at 2 so that batches overflow and undecodable
rows can starve the queue. Workers: two callers and three calls let a third
spawn meet the traces of two; a channel of one is full at once, where the
code's is full after 16; accounts share nothing but the two mutexes, for which
two callers of one account contend already. Session: two actors in turn are the
one before and the one after a stop; a reader and a worker are two clients of
one actor. Gates: short and long cooldowns are both reached; a wait of one tick
can be running, over, or replaced. Pane: a cache of one makes every second body
evict. Drafts: three sessions and saves let a session be replaced twice while a
save is in flight; one save is in flight at a time in the run (two, by hand,
gave 5.4 million states and no error, and overlapping saves are excused). Files:
two parts and three commands, by hand, 1.6 million states. Moves: three
gestures and two lapses, by hand, 17.5 million states. List: three threads and
pages of two give a full page and a rest; every placement of two folders'
threads with pages of one (1.1 million states) and four turns (5.5 million), by
hand, showed no error.

`worker_lifecycle`, `imap_session` and `mail_parts` turn deadlock checking off
because their callers, stops and users are bounded: a part may come to rest.
The other runs keep it on.

**Fairness.** The commands on the network and the connects have timeouts, but
not every await has one: `execute` waits for the actor's answer without
(`session_manager.rs:268`), the actor for the server's to IDLE and DONE (515,
548) and for room in a push channel (576), and the refresh of an EAS OAuth token
for its answer (`eas/auth.rs:90`). WorkerLifecycle and ImapSession therefore have
a round that hangs (`Hang`) and an actor that the server leaves mute
(`Unanswered`), no fairness for their ends (`Resume`, `Answered`), and none for
`stop_all` reaching the actors (`ShutdownActors`). A round that does not hang
runs to its end: weak fairness of `Round`. The liveness of the other modules is
about rounds that end, hence about an account that does not meet one of these
awaits: `MailConverges` and `FlagsConverge` (weak fairness of `Worker`),
`EveryOpSettles`, `EasMailArrives`, `SendsPassTheGates`, `GatesReopen`. `select!`
polls its branches in
random order, so a ready branch is not passed over for ever: strong fairness of
`BeginPoll`, `Receive`, and, for a session's worker, of taking a push and of
leaving on Shutdown. Tokio's mutexes and channels are first come, first served:
weak fairness of each caller, client, actor and of the stop. Time passes and
the worker's ticker goes on: weak fairness of `BackoffOver` and of EasMail's
rounds and clock; the gates turn a round away again and again, so reaching past
them needs strong fairness of that step (`EasFairness`). Nothing is assumed of
the server, other clients, the user, or failures.

**What the properties excuse, and why.** Each excuse is a behaviour the code
has and does not repair; history variables name it, so the property says
exactly how far the code's promise goes.

| Excuse | In | What it stands for |
|---|---|---|
| `waived`, `missed` | `CursorCoversFolder`, `MailConverges` | UIDs deleted by the user, dropped by a fetch or kept out by the write-lock of an older message with that UID; UIDs the search left out |
| no failures, no renumbering, no edits | `FlagsConverge` | a CHANGEDSINCE that fails is not repeated |
| no failures, ids in order | `EditsArrive` | a retry in backoff is overtaken; random ids (see below) |
| `Starved` | `EveryOpSettles` | undecodable rows fill every batch |
| `Jams`, `StopJammed` | `NobodyWaitsForEver` | a caller, or `stop_all` with the map of workers locked, waits for room in the channel of a worker that hangs (divergence 25) |
| `Jammed` | `CallsReturnUnlessStuck`, `PushIsFollowedBySync` | actor and worker wait for each other (divergence 1) |
| `Mute` | `CallsReturnUnlessStuck`, `PushIsFollowedBySync` | the server answers neither IDLE nor DONE (divergence 25) |
| `"unserved"` | `PushIsFollowedBySync` | the inbox's row or the account's source cannot be read: the push is taken and no sync follows (`engine.rs:1626-1644`) |
| `"refused"` | `IdleWatchesInbox` | a SELECT the server refused (divergence 2) |
| `torn`, `Wedged` | EasMail | a status-12 wipe whose key was not stored; token and policy both stale |
| `crossed`, `hasty`, `overtaken` | ReadingPane | a fetch across a renumbering, an opening during a rewrite, a slow opening after a quick one |
| `doubt` | `FailureMeansUnsent` | an answer that was lost |
| `heard` | `RevokedIsNotValid` | no usable list was reached: the code soft-fails |
| `"unclear"` | `DraftsAreAsLeft` | drafts with overlapping saves, failed saves, edits during a flush, a send that ends in another session; a draft resumed while an earlier session's save of it is in flight |
| `hazy` | `CachedFileIsThePart` | files torn by a failure or crash while a path is recorded, or fetched across a renumbering |
| `unsure` | `ListIsFresh` | overlapping loads, a load before a removal is written, and changes not announced: a wipe with nothing to refill, an apply that fails after a commit, a pruned folder |
| `again`, `doubtful`, `dropped`, `unlinked`, `haunted` | MailMoves | a mail acted on twice before a sync; a move broken off between its commands; an operation given up, or one whose STORE or EXPUNGE the server refused unseen (divergence 22); links a partial LIST pruned; a crash before the orphan sweep |

### Disagreements with the repository's own statements

Each is one run with one property, which the code violates:

| Run | Property | The statement | What happens |
|---|---|---|---|
| `foldersync_search` | `NoMailSkipped` | `UID SEARCH 11:*` returns UIDs 11, 12 (plan of 2026-06-28) | the set is one of sequence numbers; after an expunge new mail is left out and the cursor jumps over it |
| `foldersync_skip` | `SkipIsSound` | unchanged HIGHESTMODSEQ means no new messages (`imap_source.rs:535`) | mail that arrived between search and CHANGEDSINCE is in the cursor's modseq but not stored |
| `foldersync_writelock` | `PendingEditIsLocal` | a message with a pending operation is skipped (`messages.rs:154`) | check and write are apart: the edit is overwritten |
| `foldersync_refill` | `RebuiltFolderRefills` | wipe and full resync from uid 0 (`imap_source.rs:510`) | the cursor keeps the modseq, the next QRESYNC round skips the folder, it stays empty |
| `outbox_compact` | `CompactionKeepsIntent` | UUIDs are ordered by creation (`queue.rs:147`) | ids are uuid v4: compaction can cancel the last toggle |
| `lifecycle_reservation` | `ReservationsEnd` | a re-spawn is never permanently blocked (`engine.rs:459`) | `try_lock` fails in the guard's drop: the reservation stays |

`SkipIsSound` and `RebuiltFolderRefills` are why `foldersync_converge` uses a
server without QRESYNC.

### Further divergences met while modelling

These have no run of their own. Where a module has the behaviour it is named.

1. Session jam (ImapSession, `Jammed`): the actor awaits `tx.send(PushNotice)`
   (`session_manager.rs:576`) on a full push channel while its worker awaits
   the actor's answer; both stop for good.
2. Refused SELECT (ImapSession): `selected` keeps the old folder
   (`session_manager.rs:702`) and the actor may IDLE with no mailbox selected.
3. EAS SendMail (EasMail): the empty body of success is an error to the
   transport and the mail is sent again; an error `<Status>` in the body is
   dropped and the mail marked as sent (`eas_source.rs:535`).
4. EAS throttling (EasMail): `eas/client.rs:215` rebuilds the error without
   Retry-After; the default of 60 is stored as an absolute time, long past.
5. EAS wedge (EasMail): an expired stored token and a stale policy need two
   recoveries, each command has one, and neither result is ever stored.
6. When `unix_now` fails the breaker skips the round (SyncGate), where the
   comment at `engine.rs:1463` says it fails open.
7. EAS: two ServerIds with one 32-bit hash share a row; deletions are not
   mapped to rows; a Status outside the collection is not read and leaves a
   blank key (EasMail).
8. A transient failure makes `execute` run an operation again that may have
   taken effect; a notification drained with DONE is dropped (ImapSession).
9. A crypto error in `send_op` is retried up to `max_retries`, the user told of
   a failure each time, where the comment at `engine.rs:989` says no retry;
   after a crash between send and mark the rerun fails because the staged files
   are gone (SendPath).
10. `set_message_body` nulls the blobs until later statements store them; an
    opening in between stores a wrong verdict, and the store's cache of opened
    mail keeps a blank result for the session; `maybe_evict` counts before its
    transaction and may evict too much (ReadingPane).
11. `openThreadBody` sets the pane without looking at the selection again
    (ReadingPane, `overtaken`), though `useSyncEvents.ts:88` comments on the
    same race; a body fetched across a UIDVALIDITY wipe lands under the new
    mail's row (`crossed`).
12. Attachments are written in place (AttachmentCache, `hazy`; the comment at
    `attachment_cache.rs:109` says so); one fetched across a renumbering is
    recorded for the new mail; decrypted inline images are named by filename
    only; a deletion during a fetch leaves an orphan file;
    `reconcile_attachment_cache`, the "startup backstop", is called from nowhere
    but its registration; renewing a body drops `local_path`.
13. `find_by_email` takes the first key by fingerprint: an expired first
    certificate blocks a send though a valid second exists (SendPath).
14. Verdicts: a result row says "good" of a certificate that was not checked
    and "unchecked" of a revoked one; an unusable list ends the look at the
    points that follow; `prune_stale_crls` is never called; a stored result is
    called always current (`threadStore.ts:141`) but nothing verifies again
    after a change of trust; the latest trust decision is that with the latest
    clock reading.
15. Drafts (DraftAutosave, `"unclear"`): overlapping autosaves create two rows
    or store the older text last; a save from before a replaced session can
    delete the row its successor kept, so a draft resumed while the save of the
    session that left it is in flight is erased when that save undoes itself
    (`draftAutoSaveEngine.ts:66`); edits typed during a flush, or after one
    that failed, are lost, where `inlineComposerStore.ts:228` says nothing is;
    a send that ends in another session clears that one.
16. `labels.rs:419` and `mutations.rs:358` rely on a per-round reconcile of
    `thread_labels` that does not exist (MailMoves, `unlinked`): a prune after
    a LIST with rows missing empties a folder's list for good.
17. `SetFlag`'s local write does not touch `threads.is_starred`; a crash between
    the deletions and the orphan sweep leaves a thread without mail (MailMoves,
    `haunted`).
18. `threadStore` (ListView, `unsure`): answers of `loadThreads` and `loadMore`
    are not compared with the current query; a move's source label is resolved after an await; a
    wipe with an empty delta, or an apply that fails after a committed chunk,
    emits no event and the list stays as it was.
19. `accounts::create`: duplicate check, COUNT and INSERT are apart, so two
    creations can both be the default, where `set_default` says never two;
    deleting the default leaves none.
20. `encode_params` writes a whole batch's UIDs into each row while
    `from_pending` reads the first: harmless while a thread has one message.
21. A second move or deletion before both folders were synced uses the row's
    old folder and UID and does nothing on the server (MailMoves, `again`).
22. `client.rs:1014` and `1070` discard the answers to UID STORE, `1025` and
    `1081` those to EXPUNGE: a refusal, or an error among the answers, is taken
    for success, the operation is marked completed and the mail stays on the
    server without a row (MailMoves, `dropped`); a repeated COPY leaves two copies (MailMoves,
    `doubtful`); EXPUNGE takes what other clients marked.
23. A move or deletion of a thread whose row is gone queues an operation
    without a message, which fails until it is given up (MailMoves, `"void"`).
24. Each round builds its `ImapSource` anew (`engine.rs:625`, `757`) and replays
    before the capabilities are known, so `use_move` (`imap_source.rs:1093`) is
    always false and UID MOVE is never used; nor is LIST-STATUS, where the
    comment at `imap_source.rs:295` counts on later rounds' cache.
25. A server that does not answer IDLE or DONE stops the actor, and whoever
    awaits `execute` with it, until `stop_all` aborts the actor
    (`session_manager.rs:268`, `515`, `548`; ImapSession, `Mute`). The worker's
    channel then fills, the nudge that follows an edit waits with it, and so may
    `stop_all` itself, which holds the map of workers and ends the actors only
    after it has told every worker (WorkerLifecycle, `Jams`, `StopJammed`).
26. A stored cursor that cannot be read passes for none
    (`db/sync_state.rs:29-36`; FolderSync, `Load`): the folder is fetched from
    the start, without a look at UIDVALIDITY. An EAS key that cannot be read
    passes for key 0 (`77-94`), which starts the collection over; EasMail leaves
    that out, as a key the server refuses has it start over in the same way.

## 4. What is proved

Every theorem holds for all values of the constants under the one named
assumption of each module it is about. Together they state every safety
invariant and every action property of the passing runs and the refinements of
Outbox, of the gates and of Mirror, the last by both of its sources; what
remains to TLC is liveness.

### FolderSyncProofs

`FolderSyncTypeCorrect`; `CursorMonotone` (`Spec => CursorNeverGoesBack`), from
the typing and `CursorMerged` alone; `CursorSound`
(`Spec => []CursorCoversFolder`).

`CursorCoversFolder` is not inductive: a round in memory may be about to store
a cursor of which the state says nothing. `CoverInv` strengthens it along the
round:

| Conjunct | Says |
|---|---|
| `CursorsKnown` | cursors name UIDVALIDITYs the server has had, a current one is below `uidNext`, and a round in progress works from the stored cursor, or from none when that could not be read |
| `UidsAssigned` | every message in the folder is of the present numbering, with a UID below `uidNext` |
| `SameNumbering` | outside a wipe the folder was not renumbered since the cursor the round works from, if it has one (the stored cursor may be older) |
| `SearchCovers` | after the search, whatever lies between the old cursor and a UID found was found too, or is `missed` |
| `FetchCovers` | after the fetch, everything between the cursor worked from and the new one was fetched, under this numbering, or has a row or is excused |
| `VanishedAreGone` | a UID to be deleted that is in the folder lies above both cursors |
| `WipeStartsOver` | a wipe's cursor is at UID 0, under another UIDVALIDITY than the stored one |
| `AppliedCovers` | once the upsert ran, everything up to the next cursor is stored or excused |

Those about a round hold while the numbering it saw is still the server's;
after a renumbering its cursor claims nothing. The proof has one lemma per
group of actions (server, user, replay, status, receive, upsert, apply,
failure), with one step per action and conjunct it can disturb; the last step
of each theorem combines them with `PTL`.

`OnlyExpungedMailIsDropped` (`OnlyExpungedMailVanishes`) and `RowsKeepUp`
(`RowsNeverGetOlder`) rest on a second invariant, `PastInv`, about the states of
a message that the database, the round and the server hold:

| Conjunct | Says |
|---|---|
| `RoundShape` | a part of the delta is there only from the stage that fetches it |
| `UidsOnce`, `MailNumbered` | one state per UID in each place; the server's are of its numbering and below `uidNext` |
| `KnownIsPast` | what is held locally is no newer than what the server has, nor above `uidNext` in its numbering |
| `DeltaIsNewer` | a delta is at least as new as the rows it will overwrite |
| `GoneIsGone` | a row found gone is not in the folder again before it is deleted, however much mail arrives |

`OnlyExpungedMailIsDropped` has no run of its own: `FolderMirrored`, which the
run checks, asks the same of every step, and more.

`FolderImplementsMirror` (`Spec => FolderMirrored`) takes both invariants and
two conjuncts that neither has. `RefetchedCovered`: what a round fetched that
the stored cursor vouches for has a row or is excused. Such a round is one that
could not read the stored cursor and started from none; a message it drops or
finds locked was vouched for already, and must have been accounted for then.
`NothingNewer`: while a round works from a numbering that is
over, the store has no row of the new one, so a late upsert, which goes by UID
alone, replaces no row of a message that is there. Each group of actions has a
lemma that names the step of Mirror it is (`MirrorServer`, `MirrorReceive`,
`MirrorUpsert`, `MirrorDeletes`, `MirrorAdvance`, ...). `MirrorClaimsHold` is
what Mirror is for: its steps keep `ClaimsHold`, whoever makes them.

`NothingSkippedWithoutHoles` says when the disagreement `foldersync_search`
cannot arise: `Spec /\ [](phase = "search" => NoHoles) => []NoMailSkipped`,
where in a folder without holes the sequence number of a message is its UID
(`SearchCounts`). Every expunge makes a hole, until a renumbering.

### OutboxProofs

`QueueTypes`; `NothingSentNeedlessly`, `TriesAreBounded`, `MailIsNeverLost`;
and `QueueImplementsOutbox`: `Spec => Promised!OutboxSpec`. The invariant
`Account` balances, for every operation, its row, its retries, what it ran, what
was accepted and what remained unknown, inside and outside of the batch a
round holds; each step of the queue then is a step of Outbox or a stutter.

`EditsDoArrive` (`EditsArrive`): with nothing left to come the server shows the
user's last edit. The property speaks of a drained queue, so the invariant has
to speak of one that is not: as long as nothing failed and ids are in creation
order, the edits to come of a message lead from what the server has (`seen`) to
what the user sees (`local`).

| Part of `EditInv` | Says |
|---|---|
| `EditsLead` | the first edit to come changes the server's value, the last sets the user's, and two of one kind have one of the other between them; without any the two values are equal (`Leads`) |
| `NothingFailed` | every row is due, and no decodable row older than one of the batch was left out of it |
| `PairsFit` | the second DELETE of a compaction follows the first |

`ToCome` leaves out the edits a compaction is about to delete, between its two
DELETEs too, and the one whose mark is due. `LeadsOn`, `LeadsAfter` and
`LeadsCompacted` are the lemmas for the three steps that change it: an edit is
added, the first one is executed, pairs are cancelled.

### WorkerLifecycleProofs

`LifecycleTypeCorrect`, `AtMostOneWorker`, `HandlesNeverExit`,
`NoWakeUpIsLost`. `LifeInv` = `TypeOK`, `Shapes`, `Lives`, `Reservations`,
`ToldByStopAll`: a handle enters the map only under an exclusive reservation
and leaves only through `stop_all`, which owes a Shutdown; a worker exits only
on one. `NoWakeUpIsLost` (`NoLostWakeUp`) adds `WakeUps`: an operation that is
owed a replay has a caller on its way to the worker in the map, or that worker
has a message or is before a replay, or there is none, or its last round failed
to replay.

### ReadingPaneProofs

`PaneTypeCorrect`, `BodyMarksFit` (`CachedMeansStored`), `StoredRowsFit`
(`RowsAreOfTheirMail`), `VerdictsFit` (`VerdictFitsMail`) and
`PaneShowsSelection` (`PaneFollowsSelection`), all from one invariant, since a
row is as good as what the task that writes it holds. `PaneInv` adds to the
properties themselves:

| Conjunct | Says |
|---|---|
| `GenerationsFit`, `StoredIsMarked` | rows are of no later numbering than the server's; a row has a body exactly if it is marked |
| `ReadIsPresent` | what a fetch or an opening has read is of the present numbering, unless its mail is `crossed` |
| `OpenedFits`, `NoPlainFlagged` | only protected mail is flagged and opened, and an opening that found all blobs has the right verdict |
| `Following` | openings are numbered; the latest is of the selected mail and still on its way, or has set the pane last |

### MailMovesProofs

`MovesTypeCorrect`, `MailIsKept` (`MoveKeepsMail`), `MovesDoArrive`
(`MovesArrive`) and `ListsAreRight` (`ListsShowServer`), from `MovesInv`:

| Conjunct | Says |
|---|---|
| `QueueFits` | operations have numbers of their own, name a copy the user acted on, and delete only what the user has given up |
| `MailKept` | there is an unmarked copy, and when a STORE is next, one besides the copy it will mark: EXPUNGE takes every marked message of the folder |
| `CopiesPend` | a copy the user acted on that the server still has is named by an operation or a gesture, unless one was given up |
| `CopiesFit` | while nothing went wrong, only the newest copy is there, but for the one a move is removing, and the newest is where the user wants it or about to be |
| `LabelsFit` | rows and labels of copies not acted on are the server's, down to the folder's `lastUid` |
| `NewsFit`, `RoundFits` | what a folder's delta has found, and that a folder a quiet round is done with agrees with the server |

### DraftAutosaveProofs

`DraftsTypeCorrect` and `DraftsStayAsLeft` (`DraftsAreAsLeft`). `DraftInv`
follows each draft from being open to its end: `SavesFit`, `DockFits`,
`RowsFit`, `TurnsFit` and `FatesFit` tie saves, session, rows and waiting turns
to the draft they are of; `OneSave` lets a draft the code answers for have one
save in flight; `OpenFits` says what that save may still do to the row the dock
knows, `DueFits` that a turn whose flush went well finds the draft stored,
`LeftFits` and `EndedFits` what has become of a draft after its session. It is
this proof that showed the case of a draft resumed during an earlier session's
save: it needs a fourth session, which the run does not have (TLC finds it with
four), and is excused and listed above (divergence 15).

### ClientPartsProofs

`ImapSession`: `OneConnection` (`OneActorPerAccount`) and `IdleIsOnInbox`
(`IdleWatchesInbox`), from `ActorInv`: what an actor believes selected is what
the server has selected, or the last SELECT was refused (`BeliefIsSound`).
`SessTypeCorrect` needs `SessInv`, the types with `PlansFit` (what is left of a
client's plan), `InboxesFit` (a call in a channel is one of the client that
waits) and `BusyFit` (an actor at work has a call).

`AttachmentCache`: `FilesTypeCorrect` and `RecordedFilesFit`
(`CachedFileIsThePart`). `FilesInv` says what each writer's file holds while it
is written and until its path is recorded.

`ClientPartsRunAlone`: composed side by side, the four parts each have a
behaviour of their own specification, so that what is proved of each holds in
the composition; `ClientTypesCorrect` (`ClientTypeOK`) puts their type
theorems together.

### MailPartsProofs

`SyncGate` and `EasMail`: `WaitsAreKept` (`GateSpec => WaitIsKept`, which
therefore has no run of its own), `EasImplementsGates` (`EasSpec => GateSpec`)
and from the two `EasKeepsWaits`; `EasTypeCorrect`; `SyncKeyClaimsRows`
(`EasCursorCoversRows`). `EasInv` adds to the types what the delta in memory has
left to store while the key is still the old one (`DeltaClaims`, `RowsFit`,
`DeltaInRound`). `EasImplementsMirror` (`EasSpec => EasMirrored`) adds to it
that no key tells an item still to come (`OnlyBornIsTold`) and that the key of
a delta tells again what the stored one tells and the server has
(`DeltaGoesOn`). It has no run: of the account alone, with the constants of
`mail_parts`, TLC agrees (110 k states, by hand).

`SendPath`: `SendTypeCorrect`, `NothingLeavesUnprotected` (`WireIsAsAsked`) and
`AcceptedIsNotFailed` (`FailureMeansUnsent`). `SendInv`: the draft is fixed when
queued, so that an attempt is always on that draft's way; after acceptance an
attempt ends in success or leaves doubt.

`SignerVerdict`: `VerdictTypeCorrect` and `RevocationIsNoticed`
(`RevokedIsNotValid`). `VerdictInv`: a list's stamp is close to its issue,
requests end within `Flight`, and what an opening holds is as recent as both
allow. It needs `Ttl >= 1`, which the day of the code satisfies; with neither a
lifetime nor a flight time the property is false.

`ListView`: `ListTypeCorrect` and `ListIsAsStored` (`ListIsFresh`).
`ListIsFresh` says nothing while a load is under way, so `ListInv` says, as
long as the list answers for the database (`Good`), what a page read and not
yet taken holds (`PageFits`: the folder between two cursors), where the load
that holds it begins (`LoadFits`), and that the rows shown are the folder up to
the cursor without the removals not yet written (`ShownFits`, `RemovalsFit`);
at most one load is under way (`AtMostOne`). Its lemmas about operators:
`InOrderIs` and `InOrderOnly` (the one increasing sequence of a finite set),
`PageIs` (what the query returns), `RowsJoined` (the page appended to the
rows).

`MailPartsRunAlone` and `MailTypesCorrect` (`PartsTypeOK`) are to these parts
what `ClientPartsRunAlone` and `ClientTypesCorrect` are to the others.

### Only model-checked

Liveness and everything about fairness or ENABLED, which the prover does not
treat: `MailConverges`, `FlagsConverge`, `EveryOpSettles`,
`NobodyWaitsForEver`, `CallsReturnUnlessStuck`, `PushIsFollowedBySync`,
`EasMailArrives`, `SendsPassTheGates`, `GatesReopen`. `ClientPartsRunAlone` and
`MailPartsRunAlone` state the parts' specifications without their fairness for
the same reason. The six disagreements of section 3 are counterexamples, with
nothing to prove.

Induction over data is not needed: no module declares a RECURSIVE operator, the
order of ListView's sequences follows from their being increasing, and the least
and the oldest of a set are found by the well-foundedness of the naturals.

## 5. Not modelled

- Parsing and formatting (IMAP responses, MIME, WBXML, ASN.1) and cryptography:
  computation on bytes without a protocol, a large part of the code, as are its
  in-file tests.
- The overlap of two workers after `stop_all` and a start, composed with the
  queue: the product is beyond a run's time. `OneWorkerPerAccount` says when it
  can happen.
- The compose window's closing flows (the dock is DraftAutosave's). Scheduled
  mail: rows only, the backend has no scheduler that sends them.
- What a row of the message list says, the selection, the folder store and its
  unread counters.
- Thread aggregates, counters and the search index, which follow the messages
  in the same transactions; creation and renaming of folders.
- EAS edits through Sync and removed folders; push rounds at the gates; the
  raw connection's own commands.
- Key import and discovery, the OpenPGP receive path, files of decrypted mail.
- OAuth sign-in and account rows; contacts, calendar and tasks; settings, other
  user interface, application shell: create, read, update and delete, or
  rendering.

## 6. Plan

Done, in order: FolderSync and its proofs, OutboxReplay, WorkerLifecycle; then
Outbox and the refinement, ImapSession, SyncGate and EasMail, ReadingPane,
SendPath, SignerVerdict, DraftAutosave, AttachmentCache, MailMoves, ListView;
the proofs of all of them, and of the two compositions; Mirror, and that
FolderSync and EasMail implement it.

Left, in order of importance:

1. An abstract specification of the message list, beside Outbox, SyncGate and
   Mirror, with the refinement proved.
2. The compose window's closing flows beside the dock.
3. Two overlapping workers over a reduced queue.

## 7. Running

    tlasany FolderSync.tla
    tlc -workers 2 -config FolderSync_safety.cfg FolderSync
    tlc -workers 2 -config ClientParts.cfg ClientParts
    tlapm FolderSyncProofs.tla

---------------------------- MODULE FolderSync ----------------------------
(***************************************************************************)
(* Delta synchronisation of one IMAP folder into the local SQLite store,   *)
(* as the per-account sync worker performs it: replay of queued edits,     *)
(* ImapSource::sync_folder, apply_folder_delta and advance_imap_cursor,    *)
(* interleaved with other clients of the server, with the user's edits,    *)
(* and with failures between any two steps.                                *)
(*                                                                         *)
(* A message is its UID, its \Seen flag, the modification sequence (modseq) *)
(* of that state, and the UIDVALIDITY under which the server numbered it.  *)
(* Headers and bodies play no part in the properties and are left out.     *)
(***************************************************************************)
EXTENDS Naturals, FiniteSets

CONSTANTS
    Condstore,   \* the server advertises CONDSTORE
    Qresync,     \* the server advertises QRESYNC
    MaxUid,      \* bound: largest UID the server assigns
    MaxModseq,   \* bound: modseq up to which other clients change the folder
    MaxValidity, \* bound: largest UIDVALIDITY
    MaxEdits,    \* bound: edits the user makes
    MaxFails     \* bound: failures of the network, the store or the process

ASSUME FolderSyncAssumption ==
    /\ Condstore \in BOOLEAN /\ Qresync \in BOOLEAN
    /\ Qresync => Condstore
    /\ MaxUid \in Nat \ {0}
    /\ MaxModseq \in Nat /\ MaxValidity \in Nat
    /\ MaxEdits \in Nat /\ MaxFails \in Nat

Uid == 1..MaxUid
EditKind == {"seen", "unseen", "delete"}

(* mod is the server's modseq of the state the record describes. A local   *)
(* row has no such column: there it is history, used to say that knowledge *)
(* never gets older. The same holds for uv.                                *)
Message == [uid : Uid, seen : BOOLEAN, mod : Nat, uv : Nat]
Cursor  == [uv : Nat, high : 0..MaxUid, modseq : Nat]
Edit    == [uid : Uid, op : EditKind, uv : Nat]

Phase == {"idle", "replay", "load", "status", "search", "fetch", "changes",
          "expunge", "wipe", "upsert", "vanish", "flags", "advance"}

VARIABLES
    \* The server's folder.
    mail,          \* the messages in it
    uidNext,       \* the next UID to assign
    uidValidity,   \* UIDVALIDITY
    highestModseq, \* HIGHESTMODSEQ
    \* The local database.
    rows,          \* the folder's rows of table messages
    cursor,        \* its row of folder_sync_state
    pending,       \* rows of pending_operations with status 'pending'
    \* apply_mutation_inner between its local write and its enqueue.
    editing,
    \* The worker's round: lost when the round fails or the process stops.
    phase,         \* what the round does next
    kind,          \* what started it: "poll", "push" or "replay"
    due,           \* operations dequeued and not yet replayed
    since,         \* the cursor the round loaded
    localUids,     \* list_local_uids, read before talking to the server
    toFetch,       \* what UID SEARCH returned
    added,         \* FolderDelta.added
    updates,       \* FolderDelta.flag_updates not yet applied
    checked,       \* an update whose write-lock check found no pending row
    vanished,      \* FolderDelta.vanished_uids
    next,          \* FolderDelta.next_cursor
    \* Counters for the bounds.
    edits, fails,
    \* History.
    waived,        \* UIDs that are not expected locally, see CursorCoversFolder
    missed         \* UIDs the new-mail search did not return

server == <<mail, uidNext, uidValidity, highestModseq>>
round  == <<phase, kind, due, since, localUids, toFetch, added, updates,
            checked, vanished, next>>
vars == <<server, rows, cursor, pending, editing, round, edits, fails,
          waived, missed>>

Uids(S) == {m.uid : m \in S}
Locked(u) == u \in Uids(pending)

NoCursor == [uv |-> 0, high |-> 0, modseq |-> 0]

Init ==
    /\ mail = {} /\ uidNext = 1 /\ uidValidity = 1 /\ highestModseq = 1
    /\ rows = {} /\ cursor = NoCursor /\ pending = {} /\ editing = {}
    /\ phase = "idle" /\ kind = "none" /\ due = {} /\ since = NoCursor
    /\ localUids = {} /\ toFetch = {} /\ added = {} /\ updates = {}
    /\ checked = {} /\ vanished = {} /\ next = NoCursor
    /\ edits = 0 /\ fails = 0 /\ waived = {} /\ missed = {}

---------------------------------------------------------------------------
(* The server, as its other clients and its delivery agent change it.      *)

Deliver ==
    /\ uidNext <= MaxUid /\ highestModseq < MaxModseq
    /\ highestModseq' = highestModseq + 1
    /\ uidNext' = uidNext + 1
    /\ mail' = mail \cup {[uid |-> uidNext, seen |-> FALSE,
                           mod |-> highestModseq + 1, uv |-> uidValidity]}
    /\ UNCHANGED <<uidValidity, rows, cursor, pending, editing, round, edits,
                   fails, waived, missed>>

(* A STORE of \Seen: a message that already has the flag does not change.  *)
Stored(m, value) ==
    IF m.seen = value THEN m
    ELSE [m EXCEPT !.seen = value, !.mod = highestModseq + 1]

OtherClientFlags(m, value) ==
    /\ m.seen # value /\ highestModseq < MaxModseq
    /\ highestModseq' = highestModseq + 1
    /\ mail' = (mail \ {m}) \cup {Stored(m, value)}
    /\ UNCHANGED <<uidNext, uidValidity, rows, cursor, pending, editing, round,
                   edits, fails, waived, missed>>

(* Plain CONDSTORE does not raise HIGHESTMODSEQ on an expunge.             *)
ModseqAfterExpunge(gone) ==
    IF Qresync /\ gone # {} THEN highestModseq + 1 ELSE highestModseq

OtherClientExpunges(m) ==
    /\ highestModseq < MaxModseq
    /\ highestModseq' = ModseqAfterExpunge({m})
    /\ mail' = mail \ {m}
    /\ UNCHANGED <<uidNext, uidValidity, rows, cursor, pending, editing, round,
                   edits, fails, waived, missed>>

(* The folder is rebuilt and its n messages are numbered afresh.           *)
Rebuild(n) ==
    /\ uidValidity < MaxValidity
    /\ uidValidity' = uidValidity + 1
    /\ highestModseq' = highestModseq + 1
    /\ uidNext' = n + 1
    /\ mail' = {[uid |-> u, seen |-> FALSE, mod |-> highestModseq + 1,
                 uv |-> uidValidity + 1] : u \in 1..n}
    /\ waived' = {} /\ missed' = {}
    /\ UNCHANGED <<rows, cursor, pending, editing, round, edits, fails>>

Server ==
    \/ Deliver
    \/ \E m \in mail, value \in BOOLEAN : OtherClientFlags(m, value)
    \/ \E m \in mail : OtherClientExpunges(m)
    \/ \E n \in Uid : Rebuild(n)

---------------------------------------------------------------------------
(* The user's edits: apply_mutation_inner commits the local write, then    *)
(* enqueues the operation in a separate statement. The bound of one        *)
(* pending operation per message is this module's; OutboxReplay lifts it.  *)

EditRow(r, op) ==
    IF op = "delete" THEN {} ELSE {[r EXCEPT !.seen = (op = "seen")]}

UserWrites(r, op) ==
    /\ edits < MaxEdits /\ editing = {} /\ ~Locked(r.uid)
    /\ op = "seen" => ~r.seen
    /\ op = "unseen" => r.seen
    /\ rows' = (rows \ {r}) \cup EditRow(r, op)
    /\ editing' = {[uid |-> r.uid, op |-> op, uv |-> r.uv]}
    /\ waived' = IF op = "delete" /\ r.uv = uidValidity THEN waived \cup {r.uid}
                 ELSE waived
    /\ edits' = edits + 1
    /\ UNCHANGED <<server, cursor, pending, round, fails, missed>>

UserEnqueues(e) ==
    /\ pending' = pending \cup {e}
    /\ editing' = {}
    /\ UNCHANGED <<server, rows, cursor, round, edits, fails, waived, missed>>

User ==
    \/ \E r \in rows, op \in EditKind : UserWrites(r, op)
    \/ \E e \in editing : UserEnqueues(e)

---------------------------------------------------------------------------
(* A round of the worker. Poll rounds replay the queue and then sync; a    *)
(* push round only syncs; a ReplayNow nudge only replays. The first round  *)
(* of a worker is a poll round: it precedes the select loop.               *)

BeginPoll ==
    /\ phase = "idle"
    /\ phase' = "replay" /\ kind' = "poll" /\ due' = pending
    /\ UNCHANGED <<server, rows, cursor, pending, editing, since, localUids,
                   toFetch, added, updates, checked, vanished, next, edits,
                   fails, waived, missed>>

BeginReplay ==
    /\ phase = "idle" /\ kind # "none" /\ pending # {}
    /\ phase' = "replay" /\ kind' = "replay" /\ due' = pending
    /\ UNCHANGED <<server, rows, cursor, pending, editing, since, localUids,
                   toFetch, added, updates, checked, vanished, next, edits,
                   fails, waived, missed>>

BeginPush ==
    /\ phase = "idle" /\ kind # "none"
    /\ phase' = "load" /\ kind' = "push"
    /\ UNCHANGED <<server, rows, cursor, pending, editing, due, since,
                   localUids, toFetch, added, updates, checked, vanished, next,
                   edits, fails, waived, missed>>

(* What a replayed operation does to the folder: UID STORE and UID EXPUNGE *)
(* name the message by its UID alone.                                      *)
ServerAfter(e) ==
    IF e.op = "delete"
    THEN {m \in mail : m.uid # e.uid}
    ELSE {IF m.uid = e.uid THEN Stored(m, e.op = "seen") ELSE m : m \in mail}

ModseqAfter(e) ==
    IF e.op = "delete" THEN ModseqAfterExpunge(mail \ ServerAfter(e))
    ELSE IF ServerAfter(e) = mail THEN highestModseq ELSE highestModseq + 1

(* After an acknowledged STORE the row stands for the server's new state.  *)
Acknowledged(r, e) ==
    IF r.uid = e.uid /\ r.uv = uidValidity /\ r.uid \in Uids(ServerAfter(e))
    THEN [r EXCEPT !.mod = (CHOOSE m \in ServerAfter(e) : m.uid = r.uid).mod]
    ELSE r

(* One dequeued operation. The loop runs to its end before the round goes   *)
(* on, so due is empty outside phase "replay".                             *)
ReplayOp(e) ==
    /\ e \in due
    /\ due' = due \ {e}
    /\ \/ \* executed and marked completed
          /\ mail' = ServerAfter(e) /\ highestModseq' = ModseqAfter(e)
          /\ pending' = pending \ {e}
          /\ rows' = {Acknowledged(r, e) : r \in rows}
          /\ UNCHANGED fails
       \/ \* executed, but the answer or mark_completed is lost: stays queued
          /\ fails < MaxFails /\ fails' = fails + 1
          /\ mail' = ServerAfter(e) /\ highestModseq' = ModseqAfter(e)
          /\ UNCHANGED <<pending, rows>>
       \/ \* not executed: mark_failed keeps it, or gives it up for good
          /\ fails < MaxFails /\ fails' = fails + 1
          /\ pending' \in {pending, pending \ {e}}
          /\ UNCHANGED <<mail, highestModseq, rows>>
    /\ UNCHANGED <<uidNext, uidValidity, cursor, editing, phase, kind, since,
                   localUids, toFetch, added, updates, checked, vanished, next,
                   edits, waived, missed>>

(* The receive side awaits run_replay_round.                               *)
ReplayNotAwaited == TRUE
ReplayAwaited == due = {}

EndReplayRound ==
    /\ phase = "replay" /\ kind = "replay" /\ ReplayAwaited
    /\ phase' = "idle"
    /\ UNCHANGED <<server, rows, cursor, pending, editing, kind, due, since,
                   localUids, toFetch, added, updates, checked, vanished, next,
                   edits, fails, waived, missed>>

---------------------------------------------------------------------------
(* sync_folder.                                                            *)

(* Only a poll round has asked the server for its capabilities: the source *)
(* a push round builds has the default ones.                               *)
CapCondstore == kind = "poll" /\ Condstore
CapQresync   == kind = "poll" /\ Qresync

(* load_cursor and list_local_uids. A read that fails passes for a folder  *)
(* never synced, or for one without messages.                              *)
Load ==
    /\ \/ phase = "load"
       \/ phase = "replay" /\ kind = "poll" /\ ReplayAwaited
    /\ phase' = "status"
    /\ since' \in {cursor, NoCursor}
    /\ localUids' \in {Uids(rows), {}}
    /\ IF since' = cursor /\ localUids' = Uids(rows) THEN UNCHANGED fails
       ELSE fails < MaxFails /\ fails' = fails + 1
    /\ UNCHANGED <<server, rows, cursor, pending, editing, kind, due, toFetch,
                   added, updates, checked, vanished, next, edits, waived,
                   missed>>

StatusModseq == IF CapCondstore THEN highestModseq ELSE 0

NeverRenumbered == FALSE
Renumbered == since.uv # 0 /\ since.uv # uidValidity
Unchanged ==
    ~Renumbered /\ CapQresync /\ since.modseq > 0 /\ highestModseq = since.modseq

(* The cursor a UIDVALIDITY change asks for.                               *)
KeptHigh == since.high
ResetHigh == 0

StatusWipe ==
    /\ phase = "status" /\ Renumbered
    /\ phase' = "wipe"
    /\ next' = [uv |-> uidValidity, high |-> ResetHigh, modseq |-> StatusModseq]
    /\ UNCHANGED <<server, rows, cursor, pending, editing, kind, due, since,
                   localUids, toFetch, added, updates, checked, vanished, edits,
                   fails, waived, missed>>

StatusSkip ==
    /\ phase = "status" /\ Unchanged
    /\ phase' = "advance"
    /\ next' = [uv |-> uidValidity, high |-> since.high, modseq |-> highestModseq]
    /\ UNCHANGED <<server, rows, cursor, pending, editing, kind, due, since,
                   localUids, toFetch, added, updates, checked, vanished, edits,
                   fails, waived, missed>>

StatusGoOn ==
    /\ phase = "status" /\ ~Renumbered /\ ~Unchanged
    /\ phase' = "search"
    /\ next' = [uv |-> uidValidity, high |-> since.high, modseq |-> StatusModseq]
    /\ UNCHANGED <<server, rows, cursor, pending, editing, kind, due, since,
                   localUids, toFetch, added, updates, checked, vanished, edits,
                   fails, waived, missed>>

(* fetch_new_uids sends UID SEARCH n:* with n = high + 1. A bare set is a  *)
(* set of message sequence numbers (only the answer is in UIDs), and n:*   *)
(* contains the last message even when n is beyond it. The result is then  *)
(* filtered by UID.                                                        *)
SeqNum(u) == Cardinality({v \in Uids(mail) : v <= u})
SearchResult(high) ==
    {u \in Uids(mail) : /\ u > high
                        /\ \/ SeqNum(u) > high
                           \/ SeqNum(u) = Cardinality(Uids(mail))}

SearchNew ==
    /\ phase = "search"
    /\ phase' = "fetch"
    /\ toFetch' = SearchResult(since.high)
    /\ missed' = missed \cup {u \in Uids(mail) : u > since.high /\ u \notin toFetch'}
    /\ UNCHANGED <<server, rows, cursor, pending, editing, kind, due, since,
                   localUids, added, updates, checked, vanished, next, edits,
                   fails, waived>>

(* h is the largest member of S, or high when S is empty.                  *)
IsHighest(h, S, high) ==
    IF S = {} THEN h = high ELSE h \in S /\ \A u \in S : u <= h

HasRow(m) == \E r \in rows : r.uid = m.uid /\ r.uv = m.uv

(* fetch_messages, or the raw fetch that replaces it. One message that     *)
(* cannot be read or parsed is dropped without failing the round. A round  *)
(* that goes over the folder again may drop one that already has a row.    *)
FetchNew ==
    /\ phase = "fetch"
    /\ phase' = "changes"
    /\ \E dropped \in SUBSET {m \in mail : m.uid \in toFetch} :
         /\ added' = {m \in mail : m.uid \in toFetch} \ dropped
         /\ \E h \in 0..MaxUid : /\ IsHighest(h, Uids(added'), since.high)
                                 /\ next' = [next EXCEPT !.high = h]
         /\ waived' = waived \cup
                Uids({m \in dropped : m.uid < next'.high /\ ~HasRow(m)})
         /\ IF dropped = {} THEN UNCHANGED fails
            ELSE fails < MaxFails /\ fails' = fails + 1
    /\ UNCHANGED <<server, rows, cursor, pending, editing, kind, due, since,
                   localUids, toFetch, updates, checked, vanished, edits, missed>>

(* CHANGEDSINCE, when the cursor has a modseq. Its failure leaves the      *)
(* modseq that STATUS reported in next.                                    *)
GetChanges ==
    /\ phase = "changes"
    /\ phase' = "expunge"
    /\ \/ /\ CapCondstore /\ since.modseq > 0
          /\ updates' = {m \in mail : m.mod > since.modseq}
          /\ next' = [next EXCEPT !.modseq =
                         IF highestModseq > since.modseq THEN highestModseq
                         ELSE since.modseq]
          /\ UNCHANGED fails
       \/ /\ CapCondstore /\ since.modseq > 0
          /\ fails < MaxFails /\ fails' = fails + 1
          /\ UNCHANGED <<updates, next>>
       \/ /\ ~(CapCondstore /\ since.modseq > 0)
          /\ UNCHANGED <<updates, next, fails>>
    /\ UNCHANGED <<server, rows, cursor, pending, editing, kind, due, since,
                   localUids, toFetch, added, checked, vanished, edits, waived,
                   missed>>

(* UID SEARCH ALL against the UIDs read at the start.                      *)
UnansweredMeansGone == localUids
NoneVanished == {}

GetVanished ==
    /\ phase = "expunge"
    /\ phase' = "upsert"
    /\ \/ vanished' = localUids \ Uids(mail) /\ UNCHANGED fails
       \/ /\ localUids # {} /\ fails < MaxFails /\ fails' = fails + 1
          /\ vanished' = NoneVanished
    /\ UNCHANGED <<server, rows, cursor, pending, editing, kind, due, since,
                   localUids, toFetch, added, updates, checked, next, edits,
                   waived, missed>>

---------------------------------------------------------------------------
(* apply_folder_delta and the cursor, each step a transaction of its own.  *)

ApplyWipe ==
    /\ phase = "wipe"
    /\ phase' = "advance"
    /\ rows' = {}
    /\ UNCHANGED <<server, cursor, pending, editing, kind, due, since,
                   localUids, toFetch, added, updates, checked, vanished, next,
                   edits, fails, waived, missed>>

(* upsert_message skips a message whose row has a pending operation.       *)
ApplyUpsert ==
    LET written == {m \in added : ~Locked(m.uid)}
        skipped == {m \in added \ written :
                      /\ m.uv = uidValidity
                      /\ \A r \in rows : r.uid = m.uid => r.uv # m.uv}
    IN  /\ phase = "upsert"
        /\ phase' = "vanish"
        /\ rows' = {r \in rows : r.uid \notin Uids(written)} \cup written
        /\ waived' = waived \cup Uids(skipped)
        /\ UNCHANGED <<server, cursor, pending, editing, kind, due, since,
                       localUids, toFetch, added, updates, checked, vanished,
                       next, edits, fails, missed>>

ApplyVanished ==
    /\ phase = "vanish"
    /\ phase' = "flags"
    /\ rows' = {r \in rows : r.uid \notin vanished}
    /\ UNCHANGED <<server, cursor, pending, editing, kind, due, since,
                   localUids, toFetch, added, updates, checked, vanished, next,
                   edits, fails, waived, missed>>

(* apply_flag_updates reads the write-lock in one statement and writes the *)
(* flags in another, with no transaction around them.                      *)
CheckLock(m) ==
    /\ phase = "flags" /\ checked = {}
    /\ updates' = updates \ {m}
    /\ checked' = IF Locked(m.uid) THEN {} ELSE {m}
    /\ UNCHANGED <<server, rows, cursor, pending, editing, phase, kind, due,
                   since, localUids, toFetch, added, vanished, next, edits,
                   fails, waived, missed>>

WriteFlags(m) ==
    /\ phase = "flags"
    /\ rows' = {IF r.uid = m.uid THEN [r EXCEPT !.seen = m.seen, !.mod = m.mod]
                ELSE r : r \in rows}
    /\ checked' = {}
    /\ UNCHANGED <<server, cursor, pending, editing, phase, kind, due, since,
                   localUids, toFetch, added, updates, vanished, next, edits,
                   fails, waived, missed>>

FlagsApplied ==
    /\ phase = "flags" /\ updates = {} /\ checked = {}
    /\ phase' = "advance"
    /\ UNCHANGED <<server, rows, cursor, pending, editing, kind, due, since,
                   localUids, toFetch, added, updates, checked, vanished, next,
                   edits, fails, waived, missed>>

Larger(i, j) == IF i > j THEN i ELSE j

(* The upsert of advance_imap_cursor: maxima under one UIDVALIDITY, the    *)
(* new values verbatim under another.                                      *)
CursorOverwritten(old, new) == new
CursorMerged(old, new) ==
    IF old.uv = new.uv
    THEN [uv |-> new.uv, high |-> Larger(new.high, old.high),
          modseq |-> Larger(new.modseq, old.modseq)]
    ELSE new

RoundOver ==
    /\ phase' = "idle" /\ due' = {} /\ since' = NoCursor /\ localUids' = {}
    /\ toFetch' = {} /\ added' = {} /\ updates' = {} /\ checked' = {}
    /\ vanished' = {} /\ next' = NoCursor

(* The result of the cursor's write is ignored.                            *)
AdvanceCursor ==
    /\ phase = "advance"
    /\ \/ cursor' = CursorMerged(cursor, next) /\ UNCHANGED fails
       \/ fails < MaxFails /\ fails' = fails + 1 /\ UNCHANGED cursor
    /\ RoundOver
    /\ UNCHANGED <<server, rows, pending, editing, kind, edits, waived, missed>>

---------------------------------------------------------------------------
(* Failures.                                                               *)

(* execute() reconnects once and runs the whole first stage again.         *)
Reconnect ==
    /\ phase \in {"search", "fetch", "changes", "expunge"}
    /\ fails < MaxFails /\ fails' = fails + 1
    /\ phase' = "status"
    /\ toFetch' = {} /\ added' = {} /\ updates' = {} /\ next' = NoCursor
    /\ UNCHANGED <<server, rows, cursor, pending, editing, kind, due, since,
                   localUids, checked, vanished, edits, waived, missed>>

(* A server command or a store write fails: the folder's round ends there. *)
AbortRound ==
    /\ phase # "idle"
    /\ fails < MaxFails /\ fails' = fails + 1
    /\ RoundOver
    /\ UNCHANGED <<server, rows, cursor, pending, editing, kind, edits, waived,
                   missed>>

(* enqueue fails after local_writes has committed: nothing is rolled back. *)
EnqueueFails ==
    /\ editing # {}
    /\ fails < MaxFails /\ fails' = fails + 1
    /\ editing' = {}
    /\ UNCHANGED <<server, rows, cursor, pending, round, edits, waived, missed>>

Crash ==
    /\ fails < MaxFails /\ fails' = fails + 1
    /\ RoundOver /\ kind' = "none" /\ editing' = {}
    /\ UNCHANGED <<server, rows, cursor, pending, edits, waived, missed>>

---------------------------------------------------------------------------
Sync ==
    \/ EndReplayRound \/ Load \/ StatusWipe \/ StatusSkip \/ StatusGoOn
    \/ SearchNew \/ FetchNew \/ GetChanges \/ GetVanished
    \/ ApplyWipe \/ ApplyUpsert \/ ApplyVanished
    \/ \E m \in updates : CheckLock(m)
    \/ \E m \in checked : WriteFlags(m)
    \/ FlagsApplied \/ AdvanceCursor

Worker == (\E e \in due : ReplayOp(e)) \/ Sync

Failure == Reconnect \/ AbortRound \/ EnqueueFails \/ Crash

Next == Server \/ User \/ BeginPoll \/ BeginReplay \/ BeginPush \/ Worker \/ Failure

Spec == Init /\ [][Next]_vars

(* The worker's task runs a round it has begun to its end; a mutation      *)
(* command runs to its end; and the poll ticker, one of the branches that  *)
(* select! chooses from fairly, starts a round again and again however     *)
(* often nudges and pushes come in between.                                *)
FairSpec ==
    /\ Spec
    /\ WF_vars(Worker)
    /\ WF_vars(\E e \in editing : UserEnqueues(e))
    /\ SF_vars(BeginPoll)

---------------------------------------------------------------------------
(* The variables' types; and operations are out of the queue only during   *)
(* the replay part of a round, which is over before the sync starts.       *)
TypeOK ==
    /\ mail \subseteq Message /\ rows \subseteq Message
    /\ uidNext \in 1..(MaxUid + 1)
    /\ uidValidity \in Nat \ {0} /\ highestModseq \in Nat \ {0}
    /\ cursor \in Cursor /\ since \in Cursor /\ next \in Cursor
    /\ pending \subseteq Edit /\ editing \subseteq Edit /\ due \subseteq Edit
    /\ phase \in Phase /\ kind \in {"none", "poll", "push", "replay"}
    /\ phase # "replay" => due = {}
    /\ localUids \subseteq Uid /\ toFetch \subseteq Uid /\ vanished \subseteq Uid
    /\ added \subseteq Message /\ updates \subseteq Message
    /\ checked \subseteq Message
    /\ edits \in 0..MaxEdits /\ fails \in 0..MaxFails
    /\ waived \subseteq Uid /\ missed \subseteq Uid

(* Everything the cursor claims to have seen is stored: a message of the   *)
(* folder whose UID is not above the cursor has a row, however rounds were *)
(* interrupted, unless the user deleted it, a fetch dropped it or the      *)
(* write-lock of an operation on an older message with its UID kept it out *)
(* (waived), or the new-mail search did not return it (missed).            *)
CursorCoversFolder ==
    cursor.uv = uidValidity =>
        \A m \in mail : m.uid <= cursor.high =>
            HasRow(m) \/ m.uid \in waived \cup missed

(* The same without the search's excuse: what fetch_new_uids is for.       *)
NoMailSkipped ==
    cursor.uv = uidValidity =>
        \A m \in mail : m.uid <= cursor.high => HasRow(m) \/ m.uid \in waived

(* advance_imap_cursor never lets a lagging or capability-blind round take *)
(* the cursor of one UIDVALIDITY back, in UID or in modseq.                *)
CursorNeverGoesBack ==
    [][cursor'.uv = cursor.uv =>
         cursor'.high >= cursor.high /\ cursor'.modseq >= cursor.modseq]_vars

(* Apart from a UIDVALIDITY wipe, a round deletes a row only when the      *)
(* server no longer has its message: failed searches, stale local lists    *)
(* and reconnects in between must not cost the user mail.                  *)
OnlyExpungedMailVanishes ==
    [][phase # "wipe" /\ editing' = editing =>
         \A r \in rows : r.uid \in Uids(rows') \/ r.uv # uidValidity
                         \/ r.uid \notin Uids(mail)]_vars

(* What a row says of its message never becomes older: a delta fetched     *)
(* before the server acknowledged an edit cannot undo that edit.           *)
RowsNeverGetOlder ==
    [][\A r \in rows, q \in rows' :
         r.uid = q.uid /\ r.uv = q.uv => q.mod >= r.mod]_vars

(* With an operation queued for it, a message shows the user's value.      *)
PendingEditIsLocal ==
    \A e \in pending, r \in rows :
        r.uid = e.uid /\ r.uv = e.uv /\ e.op # "delete" => r.seen = (e.op = "seen")

(* So the folder keeps what Mirror promises of every source. A message is  *)
(* named by the UID it has under a UIDVALIDITY.                            *)
Named(S) == {<<m.uv, m.uid>> : m \in S}
Claimed ==
    IF cursor.uv = uidValidity THEN {<<uidValidity, u>> : u \in 1..cursor.high} ELSE {}
Excused == {<<uidValidity, u>> : u \in waived \cup missed}

FolderMirror == INSTANCE Mirror WITH
    here <- Named(mail), held <- Named(rows), vouched <- Claimed, excused <- Excused

FolderMirrored == FolderMirror!MirrorSpec

(* When the QRESYNC short cut would skip the folder, nothing is missing.   *)
SkipIsSound ==
    phase = "status" /\ Unchanged =>
        \A m \in mail : m.uid \in Uids(rows) \cup waived \cup missed

MailMirrored ==
    /\ \A m \in mail : HasRow(m) \/ m.uid \in waived \cup missed
    /\ Uids(rows) \subseteq Uids(mail)
FlagsMirrored ==
    \A m \in mail, r \in rows : r.uid = m.uid => r.seen = m.seen

(* Once other clients and the user leave the folder alone, polling makes   *)
(* the local folder hold the server's messages and no others, also across  *)
(* a UIDVALIDITY change, whatever the user did and whatever failed.        *)
MailConverges == <>[]MailMirrored

(* And its flags come to be the server's. Three things the code cannot do  *)
(* are excluded: recover an edit that a delta reverted before it was       *)
(* enqueued (see PendingEditIsLocal); ask again for the changes of a       *)
(* CHANGEDSINCE that failed; and see a flag change made between the push   *)
(* round that refilled a renumbered folder and the next poll, for which    *)
(* no modseq is stored.                                                    *)
FlagsConverge ==
    <>[](edits = 0 /\ fails = 0 /\ uidValidity = 1 => FlagsMirrored)

(* After the server rebuilt the folder its messages appear again.          *)
RebuiltFolderRefills ==
    (uidValidity > 1 /\ rows = {} /\ mail # {}) ~> (rows # {} \/ mail = {})

=============================================================================

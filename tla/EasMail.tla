------------------------------ MODULE EasMail ------------------------------
(***************************************************************************)
(* An Exchange ActiveSync account: the rounds of SyncGate with EasSource   *)
(* as their source. Every command is one HTTP request with at most one     *)
(* recovery (Provision on 449, token refresh on 401) and one more try. A   *)
(* round lists the folders, pulls one page of one collection and applies   *)
(* it; the replay before it sends the queued mail with SendMail.           *)
(*                                                                         *)
(* A sync key stands for the items the server has told under it. Rows are  *)
(* keyed by a 32-bit hash of the ServerId, which is not injective. What a  *)
(* row holds besides its item, edits and folder removal are left out.      *)
(***************************************************************************)
EXTENDS SyncGate, FiniteSets

CONSTANTS
    Items,       \* messages of the collection, by ServerId
    EasUid,      \* values of the hash
    MaxTries,    \* max_retries of a queued operation
    Hashes,      \* the hashes considered
    Scenarios,   \* bound: which of Concern a behaviour meets, one set for each
    MaxPolicies  \* bound: policies the server enforces one after the other

Concern == {"account", "collection", "send"}

ASSUME EasAssumption ==
    /\ MaxTries \in Nat \ {0} /\ MaxPolicies \in Nat
    /\ Hashes \subseteq [Items -> EasUid]
    /\ 0 \notin Items /\ Scenarios \subseteq SUBSET Concern

NoItem == 0
Zero == [kind |-> "zero", told |-> {}]
Blank == [kind |-> "blank", told |-> {}]
Key(told) == [kind |-> "key", told |-> told]
EasCursor == {Zero, Blank} \cup {Key(told) : told \in SUBSET Items}
NoDelta == [wipe |-> FALSE, items |-> {}, next |-> Zero]

VARIABLES
    oauth,     \* the account signs in with OAuth
    tokenLive, \* the access token in the accounts row is still accepted
    policy,    \* the policy the server enforces
    saved,     \* the policy of accounts.eas_policy_key
    held,      \* the policy in the Account of this round's EasSource
    stands,    \* stands[i]: "unborn", "here" or "gone" on the server
    valid,     \* the sync keys the server accepts
    cursor,    \* the row of eas_sync_state
    uidOf,     \* the hash
    rows,      \* rows[u]: the item in the message row of uid u
    stage,     \* where the collection stands in the round
    delta,     \* the FolderDelta being applied
    torn,      \* a wipe was committed under a valid key that is still in use
    mail,      \* the queued mail: "none", "queued", "done", "failed"
    tries,     \* its retry_count
    delivered, \* how often the server accepted it
    scenario   \* what happens besides new mail

accountVars == <<oauth, tokenLive, saved, held>>
serverVars == <<policy, stands, valid>>
storeVars == <<cursor, uidOf, rows, torn>>
mailVars == <<mail, tries, delivered>>
movingVars == <<gateVars, accountVars, serverVars, storeVars, stage, delta,
                mailVars>>
easVars == <<movingVars, scenario>>

EasInit ==
    /\ GateInit /\ scenario \in Scenarios
    /\ oauth \in (IF "account" \in scenario THEN BOOLEAN ELSE {FALSE})
    /\ tokenLive = TRUE
    /\ policy = 0 /\ saved = 0 /\ held = 0
    /\ stands = [i \in Items |-> "unborn"] /\ valid = {}
    /\ cursor = Zero /\ uidOf \in Hashes
    /\ rows = [u \in EasUid |-> NoItem]
    /\ stage = "sync" /\ delta = NoDelta /\ torn = FALSE
    /\ mail = "none" /\ tries = 0 /\ delivered = 0
-----------------------------------------------------------------------------
(***************************************************************************)
(* The transport. An outcome has the client's policy after it and its cost *)
(* in faults.                                                              *)
(***************************************************************************)
Outcome(answer, wait, p, cost) ==
    [answer |-> answer, wait |-> wait, policy |-> p, cost |-> cost]

(* What the last try of a command yields: a throttling answer keeps its    *)
(* Retry-After.                                                            *)
LastTry(p) ==
    IF p # policy THEN {Outcome("failed", 0, p, 0)}
    ELSE {Outcome("ok", 0, p, 0), Outcome("failed", 0, p, 1)}
             \cup {Outcome("throttled", wait, p, 1) : wait \in Waits}

(* auth.refresh rotates the token of this client only.                     *)
Refreshed(p) ==
    {Outcome("failed", 0, p, 1)} \cup LastTry(p)

(* Both phases of provision: RemoteWipe, a status other than 1 or a        *)
(* missing key ends in an error.                                           *)
Provisioned(p) ==
    {Outcome("failed", 0, p, 1)} \cup LastTry(policy)

(* send_command: one decision by the HTTP status of the first try. Without *)
(* a recovery the error is rebuilt and loses its Retry-After; the default  *)
(* map_eas_error then puts in, 60, is read as a time and long past.        *)
send_command(p) ==
    LET unhelped == {Outcome("failed", 0, p, 1), Outcome("throttled", 0, p, 1)}
    IN  CASE ~tokenLive /\ oauth -> unhelped \cup Refreshed(p)
          [] ~tokenLive /\ ~oauth -> {Outcome("failed", 0, p, 0)}
          [] tokenLive /\ p # policy -> unhelped \cup Provisioned(p)
          [] OTHER -> unhelped \cup {Outcome("ok", 0, p, 0)}

(* persist_policy_key_if_changed, after a command that succeeded: the      *)
(* write may fail, and the Account of the round keeps the old key.         *)
persist_policy_key(p) ==
    saved' \in IF p = held THEN {saved} ELSE {saved, p}
-----------------------------------------------------------------------------
(***************************************************************************)
(* Replay. The server's answer to SendMail is empty when it took the mail, *)
(* and an empty body is an error to the transport; a Status in the body is *)
(* a refusal, and send drops it.                                           *)
(***************************************************************************)
RetryForEver ==
    /\ tries' = tries + 1
    /\ mail' = IF tries + 1 = MaxTries + 1 THEN "failed" ELSE "queued"

mark_failed ==
    /\ tries' = tries + 1
    /\ mail' = IF tries + 1 >= MaxTries THEN "failed" ELSE "queued"

SendMail(r) ==
    \/ r.answer = "ok" /\ delivered' = delivered + 1 /\ mark_failed
    \/ r.answer = "ok" /\ mail' = "done" /\ UNCHANGED <<tries, delivered>>
    \/ r.answer # "ok" /\ mark_failed /\ UNCHANGED delivered

(* A mail that failed before waits until its next_retry_at.                *)
EasDrain ==
    /\ \/ /\ mail = "queued"
          /\ \E r \in send_command(held) :
                Drain(r.cost) /\ unsent' = 0 /\ SendMail(r)
       \/ /\ mail = "queued" => tries > 0 \/ unsent' = unsent
          /\ Drain(0)
          /\ UNCHANGED mailVars
    /\ UNCHANGED <<accountVars, serverVars, storeVars, stage, delta>>

EasQueue ==
    /\ "send" \in scenario /\ Queue /\ mail = "none" /\ mail' = "queued"
    /\ UNCHANGED <<tries, delivered, accountVars, serverVars, storeVars,
                   stage, delta>>

(* source_for_account reads the account's row for every round.             *)
EasStart ==
    /\ StartRound /\ held' = saved
    /\ UNCHANGED <<oauth, tokenLive, saved, serverVars, storeVars, stage,
                   delta, mailVars>>

EasGate ==
    /\ AskLimit \/ AskBreaker \/ Advance
    /\ UNCHANGED <<accountVars, serverVars, storeVars, stage, delta, mailVars>>

list_folders ==
    /\ \E r \in send_command(held) :
          /\ Listed(r.answer, r.wait, r.cost)
          /\ IF r.answer = "ok" THEN persist_policy_key(r.policy)
                                ELSE UNCHANGED saved
    /\ stage' = "sync"
    /\ UNCHANGED <<oauth, tokenLive, held, serverVars, storeVars, delta,
                   mailVars>>
-----------------------------------------------------------------------------
(***************************************************************************)
(* sync_folder: one Sync with the loaded cursor. The server's part:        *)
(* key zero yields a first key and no items; a key it does not know yields *)
(* status 3; otherwise a page of one item and the deletions, under a new   *)
(* key, the old one staying valid until the new one is used; with nothing  *)
(* to tell, an empty body, which the transport turns into an error.        *)
(***************************************************************************)
Here == {i \in Items : stands[i] = "here"}
Known == cursor.kind = "key" /\ cursor.told \in valid

Pages == {p \in SUBSET (Here \ cursor.told) :
             Cardinality(p) = IF Here \subseteq cursor.told THEN 0 ELSE 1}

Resync == [wipe |-> TRUE, items |-> {}, next |-> Zero]

(* Without the recovery of status 3.                                       *)
UnknownKeySurfaces ==
    CASE cursor = Zero ->
            {[valid |-> {{}},
              delta |-> [wipe |-> FALSE, items |-> {}, next |-> Key({})]]}
      [] Known /\ cursor.told # Here ->
            {[valid |-> {cursor.told, (cursor.told \cap Here) \cup p},
              delta |-> [wipe |-> FALSE, items |-> p,
                         next |-> Key((cursor.told \cap Here) \cup p)]] : p \in Pages}
      [] OTHER -> {}

(* What the server makes of the request: the keys it keeps and the delta   *)
(* the client derives from the answer.                                     *)
SyncAnswers ==
    CASE cursor = Zero ->
            {[valid |-> {{}},
              delta |-> [wipe |-> FALSE, items |-> {}, next |-> Key({})]]}
      [] Known /\ cursor.told # Here ->
            {[valid |-> {cursor.told, (cursor.told \cap Here) \cup p},
              delta |-> [wipe |-> FALSE, items |-> p,
                         next |-> Key((cursor.told \cap Here) \cup p)]] : p \in Pages}
      [] cursor # Zero /\ ~Known -> {[valid |-> valid, delta |-> Resync]}
      [] OTHER -> {}

GateStands == UNCHANGED <<window, failures, cooldown, round, unsent, noted, sends>>

Cost(n) == Mishaps(n) /\ GateStands

(* sync_folder answered: status 1, 3, 6.                                   *)
SyncAnswered ==
    \E r \in send_command(held), a \in SyncAnswers :
       /\ r.answer = "ok" /\ Cost(r.cost)
       /\ valid' = a.valid /\ delta' = a.delta
       /\ stage' = "wipe" /\ persist_policy_key(r.policy)
       /\ UNCHANGED storeVars

(* Status 12, the hierarchy changed: the key stays valid and the client    *)
(* starts over all the same. A status that stands outside of the           *)
(* collection is not looked at, and the key comes out empty.               *)
SyncOddly ==
    /\ "collection" \in scenario
    /\ \E r \in send_command(held) :
          /\ r.answer = "ok" /\ Cost(r.cost + 1)
          /\ delta' \in {Resync, [wipe |-> FALSE, items |-> {}, next |-> Blank]}
          /\ stage' = "wipe" /\ persist_policy_key(r.policy)
          /\ UNCHANGED <<valid, storeVars>>

(* The command fails, or there was nothing to tell: the folder is skipped. *)
FolderFailureFailsRound ==
    /\ \E r \in send_command(held) : r.answer # "ok" /\ Mishaps(r.cost)
    /\ round' = "idle" /\ failures' = Long /\ stage' = "sync"
    /\ UNCHANGED <<window, cooldown, unsent, noted, sends, valid, delta, saved,
                   storeVars>>

SyncFailed ==
    \E r \in send_command(held) :
       /\ r.answer # "ok" \/ SyncAnswers = {}
       /\ Cost(r.cost) /\ stage' = "done"
       /\ UNCHANGED <<valid, delta, saved, storeVars>>

(* The answer is lost on its way: the server has moved on.                 *)
SyncLost ==
    \E a \in SyncAnswers :
       /\ tokenLive /\ held = policy /\ Cost(1)
       /\ valid' = a.valid /\ stage' = "done"
       /\ UNCHANGED <<delta, saved, storeVars>>

sync_folder ==
    /\ round = "folders" /\ stage = "sync"
    /\ SyncAnswered \/ SyncOddly \/ SyncFailed \/ SyncLost
    /\ UNCHANGED <<oauth, tokenLive, held, policy, stands, mailVars>>
-----------------------------------------------------------------------------
(***************************************************************************)
(* apply_folder_and_emit: the wipe and the upserts are transactions of     *)
(* their own, the cursor is written last and its errors are dropped.       *)
(***************************************************************************)
Keep == UNCHANGED <<accountVars, serverVars, delta, mailVars>>

DbFails == Cost(1)

Tears == torn' = (torn \/ (delta.wipe /\ Known))

ApplyWipeStep ==
    /\ round = "folders" /\ stage = "wipe"
    /\ \/ /\ stage' = "upsert"
          /\ rows' = IF delta.wipe THEN [u \in EasUid |-> NoItem] ELSE rows
          /\ UNCHANGED gateVars
       \/ stage' = "done" /\ DbFails /\ UNCHANGED rows
    /\ UNCHANGED <<cursor, uidOf, torn>> /\ Keep

(* upsert_message: the row of the hash takes the item, whoever had it.     *)
Upserted ==
    [u \in EasUid |->
        LET told == {i \in delta.items : uidOf[i] = u}
        IN  IF told = {} THEN rows[u] ELSE CHOOSE i \in told : TRUE]

UpsertOrGoOn ==
    /\ round = "folders" /\ stage = "upsert" /\ stage' = "advance"
    /\ \/ /\ rows' = Upserted
          /\ UNCHANGED gateVars
       \/ DbFails /\ UNCHANGED rows
    /\ UNCHANGED <<cursor, uidOf, torn>> /\ Keep

ApplyUpsertStep ==
    /\ round = "folders" /\ stage = "upsert"
    /\ \/ /\ stage' = "advance"
          /\ rows' = Upserted
          /\ UNCHANGED <<torn, gateVars>>
       \/ stage' = "done" /\ DbFails /\ Tears /\ UNCHANGED rows
    /\ UNCHANGED <<cursor, uidOf>> /\ Keep

advance_eas_cursor ==
    /\ round = "folders" /\ stage = "advance" /\ stage' = "done"
    /\ \/ /\ cursor' = delta.next /\ torn' = (torn /\ delta.next.kind = "key")
          /\ UNCHANGED gateVars
       \/ DbFails /\ Tears /\ UNCHANGED cursor
    /\ UNCHANGED <<uidOf, rows>> /\ Keep

EasFinish ==
    /\ stage = "done" /\ FinishRound
    /\ delta' = NoDelta
    /\ UNCHANGED <<accountVars, serverVars, storeVars, stage, mailVars>>
-----------------------------------------------------------------------------
(* The server's side: what it does matters to the next request only, so it *)
(* does it before one.                                                     *)
Asking == round \in {"replay", "list"} \/ (round = "folders" /\ stage = "sync")

EasArrive ==
    /\ Asking
    /\ \E i \in Items : stands[i] = "unborn"
                        /\ stands' = [stands EXCEPT ![i] = "here"]
    /\ UNCHANGED <<gateVars, accountVars, policy, valid, storeVars, stage,
                   delta, mailVars>>

EasDelete ==
    /\ Asking /\ "collection" \in scenario
    /\ \E i \in Here : stands' = [stands EXCEPT ![i] = "gone"]
    /\ UNCHANGED <<gateVars, accountVars, policy, valid, storeVars, stage,
                   delta, mailVars>>

TokenExpires ==
    /\ Asking /\ "account" \in scenario
    /\ oauth /\ tokenLive /\ tokenLive' = FALSE
    /\ UNCHANGED <<gateVars, oauth, saved, held, serverVars, storeVars, stage,
                   delta, mailVars>>

PolicyChanges ==
    /\ Asking /\ "account" \in scenario
    /\ policy < MaxPolicies /\ policy' = policy + 1
    /\ UNCHANGED <<gateVars, accountVars, stands, valid, storeVars, stage,
                   delta, mailVars>>

ServerForgetsKeys ==
    /\ Asking /\ "collection" \in scenario
    /\ valid # {} /\ valid' = {} /\ Cost(1)
    /\ UNCHANGED <<accountVars, policy, stands, storeVars, stage,
                   delta, mailVars>>

EasRestart ==
    /\ GateRestart
    /\ stage' = "sync" /\ delta' = NoDelta
    /\ IF stage \in {"upsert", "advance"} THEN Tears ELSE UNCHANGED torn
    /\ UNCHANGED <<accountVars, serverVars, cursor, uidOf, rows, mailVars>>

EasRound ==
    \/ EasStart \/ EasDrain \/ EasGate \/ list_folders \/ sync_folder
    \/ ApplyWipeStep \/ ApplyUpsertStep \/ advance_eas_cursor \/ EasFinish

EasNext ==
  /\ scenario' = scenario
  /\ \/ EasRound \/ EasQueue \/ EasArrive \/ EasDelete \/ TokenExpires
     \/ PolicyChanges \/ ServerForgetsKeys \/ EasRestart

(* The worker's loop goes on and time passes.                              *)
EasFairness ==
    /\ WF_movingVars(EasStart) /\ WF_movingVars(EasDrain) /\ WF_movingVars(list_folders)
    /\ WF_movingVars(sync_folder) /\ WF_movingVars(ApplyWipeStep)
    /\ WF_movingVars(ApplyUpsertStep) /\ WF_movingVars(advance_eas_cursor)
    /\ WF_movingVars(EasFinish)
    /\ WF_movingVars(EasGate /\ round' # round) /\ SF_movingVars(EasGate /\ round' = round)

EasSpec == EasInit /\ [][EasNext]_easVars
EasFairSpec == EasSpec /\ EasFairness
-----------------------------------------------------------------------------
EasTypeOK ==
    /\ GateTypeOK
    /\ oauth \in BOOLEAN /\ tokenLive \in BOOLEAN /\ torn \in BOOLEAN
    /\ policy \in 0..MaxPolicies /\ saved \in 0..policy /\ held \in 0..policy
    /\ stands \in [Items -> {"unborn", "here", "gone"}]
    /\ valid \subseteq SUBSET Items
    /\ cursor \in EasCursor /\ uidOf \in Hashes
    /\ rows \in [EasUid -> Items \cup {NoItem}]
    /\ stage \in {"sync", "wipe", "upsert", "advance", "done"}
    /\ delta \in [wipe : BOOLEAN, items : SUBSET Items, next : EasCursor]
    /\ mail \in {"none", "queued", "done", "failed"}
    /\ tries \in 0..MaxTries /\ delivered \in 0..MaxTries

Twins(i, j) == uidOf[i] = uidOf[j]
Stored(i) == rows[uidOf[i]] # NoItem /\ Twins(i, rows[uidOf[i]])

(* The server will not tell again what it told under the stored key, so    *)
(* every such item has its row, or the row is that of an item with the     *)
(* same hash: across crashes between the three writes, lost answers,       *)
(* forgotten keys. A status-12 wipe whose cursor write is lost breaks it,  *)
(* until the key is given up.                                              *)
EasCursorCoversRows ==
    Known /\ ~torn /\ ~(delta.wipe /\ stage \in {"upsert", "advance"})
        => \A i \in cursor.told : Stored(i)

(* So an Exchange collection, too, keeps what Mirror promises of a source. *)
(* There is nothing that a round gives up.                                 *)
Vouched ==
    IF Known /\ ~torn /\ ~(delta.wipe /\ stage \in {"upsert", "advance"})
    THEN cursor.told ELSE {}

EasMirror == INSTANCE Mirror WITH
    here <- Here, held <- {i \in Items : Stored(i)}, vouched <- Vouched, excused <- {}

EasMirrored == EasMirror!MirrorSpec

(* The stored token has expired and the stored policy is out of date: each *)
(* command has one recovery and needs two, and neither is ever stored.     *)
Wedged == oauth /\ ~tokenLive /\ saved # policy

(* Every message that stays on the server reaches the store in the end,    *)
(* whatever failed before.                                                 *)
EasMailArrives ==
    \A i \in Items : stands[i] = "here" ~>
        (Stored(i) \/ stands[i] = "gone" \/ Wedged \/ torn)
=============================================================================

--------------------------- MODULE MailPartsProofs ---------------------------
(***************************************************************************)
(* What is proved of the parts of MailParts other than the pane, which has *)
(* ReadingPaneProofs: the Exchange source and its gates, the sending of a  *)
(* message, the verdict on a signer, the message list, and that a part     *)
(* composed with the others behaves as it does alone.                      *)
(***************************************************************************)
EXTENDS MailParts, ReadingPaneProofs, SequenceTheorems

-----------------------------------------------------------------------------
(***************************************************************************)
(* EasMail implements the gates of SyncGate, so what is proved of the      *)
(* gates holds of an Exchange account; and its stored sync key claims no   *)
(* item that has no row, for any items, hash, bounds and failures.         *)
(***************************************************************************)

-----------------------------------------------------------------------------
(* The gates. A wait that was noted is what the row still holds, and past  *)
(* the first gate none is left.                                            *)
WaitIsInTheRow ==
    /\ noted > 0 => window = noted
    /\ round \in {"breaker", "list"} => noted = 0

GateInv == GateTypeOK /\ WaitIsInTheRow

LEMMA GateBegins == GateInit => GateInv
  BY GateAssumption
     DEF GateInit, GateInv, GateTypeOK, WaitIsInTheRow, NoRow, Unset

LEMMA GateGoesOn == GateInv /\ [GateNext]_gateVars => GateInv'
<1> SUFFICES ASSUME GateInv, [GateNext]_gateVars PROVE GateInv'
  OBVIOUS
<1> USE GateAssumption DEF GateInv, NoRow, Unset, gateBounds, Mishaps, Blip, Live
<1>1. CASE Queue
  BY <1>1 DEF Queue, GateTypeOK, WaitIsInTheRow
<1>2. CASE StartRound
  BY <1>2 DEF StartRound, GateTypeOK, WaitIsInTheRow
<1>3. CASE AskLimit
  <2>1. GateTypeOK'
    BY <1>3 DEF AskLimit, GateTypeOK
  <2>2. WaitIsInTheRow'
    BY <1>3 DEF AskLimit, GateTypeOK, WaitIsInTheRow
  <2> QED BY <2>1, <2>2
<1>4. CASE AskBreaker
  BY <1>4 DEF AskBreaker, GateTypeOK, WaitIsInTheRow
<1>5. CASE Advance
  <2>1. GateTypeOK'
    BY <1>5 DEF Advance, Less, GateTypeOK
  <2>2. WaitIsInTheRow'
    BY <1>5 DEF Advance, Less, GateTypeOK, WaitIsInTheRow
  <2> QED BY <2>1, <2>2
<1>6. CASE FinishRound
  BY <1>6 DEF FinishRound, GateTypeOK, WaitIsInTheRow
<1>7. CASE GateRestart
  BY <1>7 DEF GateRestart, GateTypeOK, WaitIsInTheRow
<1>8. CASE GateElsewhere
  BY <1>8 DEF GateElsewhere, GateTypeOK, WaitIsInTheRow
<1>9. CASE \E cost \in 0..2 : Drain(cost)
  BY <1>9 DEF Drain, GateTypeOK, WaitIsInTheRow
<1>10. CASE \E cost \in 0..2, answer \in GateAnswer, wait \in Waits \cup {0} :
               Listed(answer, wait, cost)
  <2>1. PICK cost \in 0..2, answer \in GateAnswer, wait \in Waits \cup {0} :
            Listed(answer, wait, cost)
    BY <1>10
  <2>2. wait \in Nat
    BY <2>1
  <2>3. CASE answer = "failed"
    <3>1. RecordFailure(cost) /\ round' = "idle" /\ UNCHANGED <<window, noted, unsent, sends>>
      BY <2>1, <2>3 DEF Listed
    <3>2. failures' \in 0..Long
      BY <3>1 DEF RecordFailure, GateTypeOK
    <3>3. cooldown' \in -1..LongCool
      BY <3>1, <3>2 DEF RecordFailure, CooldownFor, GateTypeOK
    <3>4. mishaps' \in 0..MaxMishaps
      BY <3>1 DEF RecordFailure, GateTypeOK
    <3> QED BY <3>1, <3>2, <3>3, <3>4 DEF GateTypeOK, WaitIsInTheRow
  <2>4. CASE answer # "failed"
    BY <2>1, <2>2, <2>4 DEF Listed, SetRateLimit, GateTypeOK, WaitIsInTheRow
  <2> QED BY <2>3, <2>4
<1>11. CASE UNCHANGED gateVars
  BY <1>11 DEF gateVars, GateTypeOK, WaitIsInTheRow
<1> QED
  BY <1>1, <1>2, <1>3, <1>4, <1>5, <1>6, <1>7, <1>8, <1>9, <1>10, <1>11 DEF GateNext

LEMMA GateHolds == GateSpec => []GateInv
  BY GateBegins, GateGoesOn, PTL DEF GateSpec

(* A server that asked to be left alone is not asked for its folders       *)
(* before its wait is over: across restarts, for any waits and cooldowns.  *)
THEOREM WaitsAreKept == GateSpec => WaitIsKept
<1>1. GateInv /\ [GateNext]_gateVars => [round = "list" /\ round' # "list" => noted = 0]_gateVars
  BY DEF GateInv, WaitIsInTheRow
<1> QED BY <1>1, GateHolds, PTL DEF GateSpec, WaitIsKept

-----------------------------------------------------------------------------
(* Each step of EasMail is one of the gates or leaves them alone.          *)
LEMMA RoundTripIs ==
    ASSUME NEW p \in Nat, policy \in Nat, NEW r \in send_command(p)
    PROVE  /\ r.answer \in GateAnswer /\ r.wait \in Waits \cup {0}
           /\ r.policy \in {p, policy} /\ r.cost \in {0, 1}
           /\ r.answer = "ok" => r.cost = 0
<1>1. ASSUME NEW q \in {p, policy}, NEW o \in LastTry(q)
      PROVE  /\ o.answer \in GateAnswer /\ o.wait \in Waits \cup {0}
             /\ o.policy \in {p, policy} /\ o.cost \in {0, 1}
             /\ o.answer = "ok" => o.cost = 0
  BY <1>1 DEF LastTry, Outcome, GateAnswer
<1> DEFINE Unhelped == {Outcome("failed", 0, p, 1), Outcome("throttled", 0, p, 1)}
<1> DEFINE Lost == {Outcome("failed", 0, p, 1), Outcome("failed", 0, p, 0),
                    Outcome("ok", 0, p, 0)}
<1>2. r \in Unhelped \cup Lost \cup LastTry(p) \cup LastTry(policy)
  <2>1. CASE ~tokenLive
    BY <2>1 DEF send_command, Refreshed
  <2>2. CASE tokenLive
    BY <2>2 DEF send_command, Provisioned
  <2> QED BY <2>1, <2>2
<1>3. CASE r \in Unhelped \cup Lost
  BY <1>3 DEF Outcome, GateAnswer
<1> QED BY <1>1, <1>2, <1>3

LEMMA GateStepOfEas ==
    ASSUME held \in Nat, policy \in Nat, mishaps \in Nat, [EasNext]_easVars
    PROVE  [GateNext]_gateVars
<1> USE DEF GateNext
<1>1. CASE EasDrain
  <2>1. CASE Drain(0)
    BY <2>1
  <2>2. CASE \E r \in send_command(held) : Drain(r.cost)
    BY <2>2, RoundTripIs
  <2> QED BY <1>1, <2>1, <2>2 DEF EasDrain
<1>2. CASE list_folders
  <2>1. PICK r \in send_command(held) : Listed(r.answer, r.wait, r.cost)
    BY <1>2 DEF list_folders
  <2>2. r.answer \in GateAnswer /\ r.wait \in Waits \cup {0} /\ r.cost \in 0..2
    BY <2>1, RoundTripIs
  <2> QED BY <2>1, <2>2
<1>3. ASSUME NEW n \in {0, 1}, Cost(n) PROVE [GateNext]_gateVars
  <2>1. CASE n = 1
    BY <1>3, <2>1 DEF Cost, GateStands, GateElsewhere
  <2>2. CASE n = 0
    BY <1>3, <2>2 DEF Cost, Mishaps, GateStands, gateVars, gateBounds
  <2> QED BY <2>1, <2>2
<1>4. CASE sync_folder
  <2>1. CASE SyncAnswered
    BY <2>1, <1>3, RoundTripIs DEF SyncAnswered
  <2>2. CASE SyncOddly
    BY <2>2, <1>3, RoundTripIs DEF SyncOddly
  <2>3. CASE SyncFailed
    BY <2>3, <1>3, RoundTripIs DEF SyncFailed
  <2>4. CASE SyncLost
    BY <2>4, <1>3 DEF SyncLost
  <2> QED BY <1>4, <2>1, <2>2, <2>3, <2>4 DEF sync_folder
<1>5. CASE ApplyWipeStep \/ ApplyUpsertStep \/ advance_eas_cursor \/ ServerForgetsKeys
  BY <1>5, <1>3 DEF ApplyWipeStep, ApplyUpsertStep, advance_eas_cursor, DbFails,
                    ServerForgetsKeys
<1>6. CASE EasQueue \/ EasStart \/ EasGate \/ EasFinish \/ EasRestart
  BY <1>6 DEF EasQueue, EasStart, EasGate, EasFinish, EasRestart
<1>7. CASE EasArrive \/ EasDelete \/ TokenExpires \/ PolicyChanges
  BY <1>7 DEF EasArrive, EasDelete, TokenExpires, PolicyChanges
<1>8. CASE UNCHANGED easVars
  BY <1>8 DEF easVars, movingVars
<1> QED BY <1>1, <1>2, <1>4, <1>5, <1>6, <1>7, <1>8 DEF EasNext, EasRound

-----------------------------------------------------------------------------
(* The invariant: types, and what a message row and the delta in hand may  *)
(* hold.                                                                   *)
AccountTypes ==
    /\ oauth \in BOOLEAN /\ tokenLive \in BOOLEAN
    /\ policy \in 0..MaxPolicies /\ saved \in 0..policy /\ held \in 0..policy

CollectionTypes ==
    /\ torn \in BOOLEAN
    /\ stands \in [Items -> {"unborn", "here", "gone"}]
    /\ valid \subseteq SUBSET Items
    /\ cursor \in EasCursor /\ uidOf \in Hashes
    /\ rows \in [EasUid -> Items \cup {NoItem}]
    /\ stage \in {"sync", "wipe", "upsert", "advance", "done"}
    /\ delta \in [wipe : BOOLEAN, items : SUBSET Items, next : EasCursor]

(* Each acceptance was taken for an error and counted as a try.            *)
MailTypes ==
    /\ mail \in {"none", "queued", "done", "failed"}
    /\ tries \in 0..MaxTries /\ delivered \in 0..tries
    /\ mail = "queued" => tries < MaxTries
    /\ mail = "none" => tries = 0

(* A delta is in hand in a round at its folders only.                      *)
DeltaInRound == stage \in {"wipe", "upsert", "advance"} => round = "folders"

(* A row is that of an item with the row's hash.                           *)
RowsFit == \A u \in EasUid : rows[u] # NoItem => uidOf[rows[u]] = u

(* A delta that does not wipe claims no more than the stored key's items   *)
(* and its own, and once these are written they have their rows.           *)
DeltaClaims ==
    /\ stage \in {"wipe", "upsert", "advance"} =>
          IF delta.wipe THEN delta.next = Zero
          ELSE delta.next.kind = "key" =>
                  \/ delta.next.told = {}
                  \/ Known /\ delta.next.told \subseteq cursor.told \cup delta.items
    /\ stage = "advance" /\ ~delta.wipe => \A i \in delta.items : Stored(i)

EasInv ==
    /\ GateInv /\ AccountTypes /\ CollectionTypes /\ MailTypes
    /\ DeltaInRound /\ RowsFit /\ DeltaClaims /\ EasCursorCoversRows

LEMMA EasTypes == EasInv => EasTypeOK
  BY EasAssumption
     DEF EasInv, GateInv, AccountTypes, CollectionTypes, MailTypes, EasTypeOK

(* With RowsFit, an item is stored when its row is taken.                  *)
LEMMA RowTaken ==
    ASSUME CollectionTypes, RowsFit, NEW i \in Items
    PROVE  uidOf[i] \in EasUid /\ (Stored(i) <=> rows[uidOf[i]] # NoItem)
  BY EasAssumption DEF CollectionTypes, RowsFit, Stored, Twins

LEMMA EasBegins == EasInit => EasInv
<1> SUFFICES ASSUME EasInit PROVE EasInv
  OBVIOUS
<1>1. GateInv
  BY GateBegins DEF EasInit
<1>2. AccountTypes /\ MailTypes
  <2>1. oauth \in BOOLEAN
    BY DEF EasInit
  <2> QED BY <2>1, EasAssumption DEF EasInit, AccountTypes, MailTypes
<1>3. CollectionTypes
  BY DEF EasInit, CollectionTypes, EasCursor, Zero, NoDelta
<1>4. DeltaInRound /\ RowsFit /\ DeltaClaims /\ EasCursorCoversRows
  BY DEF EasInit, GateInit, DeltaInRound, RowsFit, DeltaClaims, EasCursorCoversRows, Known, Zero
<1> QED BY <1>1, <1>2, <1>3, <1>4 DEF EasInv

(* Steps that leave the collection alone.                                  *)
LEMMA CollectionKept ==
    ASSUME EasInv, UNCHANGED <<storeVars, delta, valid>>,
           \/ UNCHANGED stage
           \/ stage' \in {"sync", "done"} /\ stage \notin {"upsert", "advance"},
           stands' \in [Items -> {"unborn", "here", "gone"}]
    PROVE  CollectionTypes' /\ RowsFit' /\ DeltaClaims' /\ EasCursorCoversRows'
<1> USE DEF EasInv, storeVars, CollectionTypes
<1>1. CollectionTypes'
  OBVIOUS
<1>2. RowsFit'
  BY DEF RowsFit
<1>3. DeltaClaims'
  BY DEF DeltaClaims, Known, Stored, Twins
<1>4. EasCursorCoversRows'
  BY DEF EasCursorCoversRows, Known, Stored, Twins
<1> QED BY <1>1, <1>2, <1>3, <1>4

(* Replay, the start of a round, the gates and the list of folders.        *)
LEMMA BeforeFolders ==
    ASSUME EasInv, GateInv', EasStart \/ EasDrain \/ EasQueue \/ EasGate \/ list_folders
    PROVE  EasInv'
<1> USE DEF EasInv, storeVars, accountVars, serverVars, mailVars
<1>0. UNCHANGED <<storeVars, delta, serverVars, oauth, tokenLive>>
  BY DEF EasStart, EasDrain, EasQueue, EasGate, list_folders
<1>1. AccountTypes'
  <2>1. CASE list_folders
    <3>1. PICK r \in send_command(held) :
             IF r.answer = "ok" THEN persist_policy_key(r.policy) ELSE UNCHANGED saved
      BY <2>1 DEF list_folders
    <3>2. r.policy \in {held, policy}
      BY <3>1, RoundTripIs, EasAssumption DEF AccountTypes
    <3>3. saved' \in {saved, held, policy} /\ held' = held
      BY <2>1, <3>1, <3>2 DEF persist_policy_key, list_folders
    <3> QED BY <1>0, <3>3, EasAssumption DEF AccountTypes
  <2>2. CASE ~list_folders
    BY <1>0, <2>2, EasAssumption DEF AccountTypes, EasStart, EasDrain, EasQueue, EasGate
  <2> QED BY <2>1, <2>2
<1>2. MailTypes'
  <2>1. CASE EasDrain
    BY <2>1, EasAssumption DEF EasDrain, SendMail, mark_failed, MailTypes
  <2>2. CASE ~EasDrain
    BY <2>2, EasAssumption DEF MailTypes, EasStart, EasQueue, EasGate, list_folders
  <2> QED BY <2>1, <2>2
<1>3. /\ \/ UNCHANGED stage
         \/ stage' \in {"sync", "done"} /\ stage \notin {"upsert", "advance"}
      /\ DeltaInRound'
  BY DEF DeltaInRound, EasStart, StartRound, EasDrain, Drain, EasQueue, Queue, EasGate, AskLimit,
         AskBreaker, Advance, list_folders, Listed
<1>4. CollectionTypes' /\ RowsFit' /\ DeltaClaims' /\ EasCursorCoversRows'
  BY <1>0, <1>3, CollectionKept DEF CollectionTypes
<1> QED BY <1>1, <1>2, <1>3, <1>4

(* sync_folder: what the delta claims of the stored key.                   *)
LEMMA SyncKeeps ==
    ASSUME EasInv, GateInv', sync_folder
    PROVE  EasInv'
<1> USE DEF EasInv
<1>0. /\ round = "folders" /\ round' = "folders" /\ stage = "sync"
      /\ UNCHANGED <<storeVars, held, oauth, tokenLive, policy, stands, mailVars>>
  BY DEF sync_folder, SyncAnswered, SyncOddly, SyncFailed, SyncLost, Cost, GateStands, storeVars
<1>1. AccountTypes'
  <2>1. CASE SyncAnswered \/ SyncOddly
    <3>1. PICK r \in send_command(held) : persist_policy_key(r.policy)
      BY <2>1 DEF SyncAnswered, SyncOddly
    <3>2. saved' \in {saved, held, policy}
      BY <3>1, RoundTripIs, EasAssumption DEF AccountTypes, persist_policy_key
    <3> QED BY <1>0, <3>2, EasAssumption DEF AccountTypes
  <2>2. CASE ~(SyncAnswered \/ SyncOddly)
    BY <1>0, <2>2 DEF AccountTypes, sync_folder, SyncFailed, SyncLost
  <2> QED BY <2>1, <2>2
<1>2. MailTypes'
  BY <1>0 DEF MailTypes, mailVars
<1>3. DeltaInRound' /\ RowsFit'
  BY <1>0 DEF DeltaInRound, RowsFit, storeVars
<1>4. ASSUME NEW a \in SyncAnswers
      PROVE  /\ a.valid \in SUBSET SUBSET Items
             /\ a.delta \in [wipe : BOOLEAN, items : SUBSET Items, next : EasCursor]
             /\ cursor.kind = "key" /\ cursor.told \in a.valid => cursor.told \in valid
             /\ IF a.delta.wipe THEN a.delta.next = Zero
                ELSE \/ a.delta.next.told = {}
                     \/ /\ cursor.kind = "key" /\ cursor.told \in a.valid
                        /\ a.delta.next.told \subseteq cursor.told \cup a.delta.items
  <2>1. CASE cursor = Zero
    <3>1. a = [valid |-> {{}},
               delta |-> [wipe |-> FALSE, items |-> {}, next |-> Key({})]]
      BY <1>4, <2>1 DEF SyncAnswers, Known, Zero
    <3>2. Key({}) \in EasCursor /\ Key({}).told = {}
      BY DEF EasCursor, Key
    <3> QED BY <2>1, <3>1, <3>2 DEF Zero
  <2>2. CASE Known /\ cursor.told # Here
    <3>1. PICK p \in Pages :
             a = [valid |-> {cursor.told, (cursor.told \cap Here) \cup p},
                  delta |-> [wipe |-> FALSE, items |-> p,
                             next |-> Key((cursor.told \cap Here) \cup p)]]
      BY <1>4, <2>2 DEF SyncAnswers, Known, Zero
    <3>2. p \in SUBSET Items /\ cursor.told \in SUBSET Items
      BY <2>2 DEF Pages, Here, Known, CollectionTypes, EasCursor, Key, Zero, Blank
    <3>3. Key((cursor.told \cap Here) \cup p) \in EasCursor
      BY <3>2 DEF EasCursor
    <3> QED BY <2>2, <3>1, <3>2, <3>3 DEF Key, Known
  <2>3. CASE cursor # Zero /\ ~Known
    <3>1. a = [valid |-> valid, delta |-> Resync]
      BY <1>4, <2>3 DEF SyncAnswers
    <3>2. Resync.wipe = TRUE /\ Resync.next = Zero /\ Resync.items = {} /\ Zero \in EasCursor
      BY DEF Resync, EasCursor
    <3>3. Resync \in [wipe : BOOLEAN, items : SUBSET Items, next : EasCursor]
      BY <3>2 DEF Resync
    <3> QED BY <2>3, <3>1, <3>2, <3>3 DEF CollectionTypes, Known
  <2> QED BY <1>4, <2>1, <2>2, <2>3 DEF SyncAnswers
<1>5. CollectionTypes' /\ DeltaClaims' /\ EasCursorCoversRows'
  <2>1. CASE SyncAnswered
    <3>1. PICK a \in SyncAnswers : valid' = a.valid /\ delta' = a.delta /\ stage' = "wipe"
      BY <2>1 DEF SyncAnswered
    <3>2. CollectionTypes'
      BY <1>0, <1>4, <3>1 DEF CollectionTypes, storeVars
    <3>3. DeltaClaims'
      BY <1>0, <1>4, <3>1 DEF DeltaClaims, Known, storeVars
    <3>4. EasCursorCoversRows'
      BY <1>0, <1>4, <3>1 DEF EasCursorCoversRows, Known, Stored, Twins, storeVars
    <3> QED BY <3>2, <3>3, <3>4
  <2>2. CASE SyncOddly
    <3>1. /\ delta' \in {Resync, [wipe |-> FALSE, items |-> {}, next |-> Blank]}
          /\ valid' = valid /\ stage' = "wipe"
      BY <2>2 DEF SyncOddly
    <3>2. CollectionTypes'
      <4>1. {Zero, Blank} \subseteq EasCursor
        BY DEF EasCursor
      <4>2. delta' \in [wipe : BOOLEAN, items : SUBSET Items, next : EasCursor]
        <5>1. CASE delta' = Resync
          BY <4>1, <5>1 DEF Resync
        <5>2. CASE delta' = [wipe |-> FALSE, items |-> {}, next |-> Blank]
          BY <4>1, <5>2
        <5> QED BY <3>1, <5>1, <5>2
      <4> QED BY <1>0, <3>1, <4>2 DEF CollectionTypes, storeVars
    <3>3. DeltaClaims'
      BY <1>0, <3>1 DEF DeltaClaims, Resync, Blank
    <3>4. EasCursorCoversRows'
      BY <1>0, <3>1 DEF EasCursorCoversRows, Known, Stored, Twins, storeVars
    <3> QED BY <3>2, <3>3, <3>4
  <2>3. CASE SyncFailed
    BY <1>0, <2>3, CollectionKept DEF SyncFailed, CollectionTypes
  <2>4. CASE SyncLost
    <3>1. PICK a \in SyncAnswers : valid' = a.valid /\ delta' = delta /\ stage' = "done"
      BY <2>4 DEF SyncLost
    <3>2. CollectionTypes'
      BY <1>0, <1>4, <3>1 DEF CollectionTypes, storeVars
    <3>3. DeltaClaims'
      BY <3>1 DEF DeltaClaims
    <3>4. EasCursorCoversRows'
      BY <1>0, <1>4, <3>1 DEF EasCursorCoversRows, Known, Stored, Twins, storeVars
    <3> QED BY <3>2, <3>3, <3>4
  <2> QED BY <2>1, <2>2, <2>3, <2>4 DEF sync_folder
<1> QED BY <1>1, <1>2, <1>3, <1>5

(* The upsert gives each item of the delta its row and takes none away.    *)
LEMMA UpsertStores ==
    ASSUME CollectionTypes, RowsFit, rows' = Upserted, UNCHANGED uidOf
    PROVE  /\ rows' \in [EasUid -> Items \cup {NoItem}] /\ RowsFit'
           /\ \A i \in Items : Stored(i) \/ i \in delta.items => Stored(i)'
<1> USE EasAssumption
<1>1. ASSUME NEW u \in EasUid
      PROVE  \/ rows'[u] = rows[u] /\ ~\E i \in delta.items : uidOf[i] = u
             \/ rows'[u] \in delta.items /\ uidOf[rows'[u]] = u
  <2> DEFINE ofRow == {i \in delta.items : uidOf[i] = u}
  <2>1. rows'[u] = IF ofRow = {} THEN rows[u] ELSE CHOOSE i \in ofRow : TRUE
    BY DEF Upserted
  <2>2. CASE ofRow = {}
    BY <2>1, <2>2
  <2>3. CASE ofRow # {}
    <3>1. (CHOOSE i \in ofRow : TRUE) \in ofRow
      BY <2>3
    <3> QED BY <2>1, <2>3, <3>1
  <2> QED BY <2>2, <2>3
<1>2. delta.items \subseteq Items /\ DOMAIN rows' = EasUid /\ rows' = [u \in EasUid |-> rows'[u]]
  BY DEF Upserted, CollectionTypes
<1>3. rows' \in [EasUid -> Items \cup {NoItem}]
  BY <1>1, <1>2 DEF CollectionTypes
<1>4. RowsFit'
  BY <1>1 DEF RowsFit
<1>5. ASSUME NEW i \in Items, Stored(i) \/ i \in delta.items
      PROVE  Stored(i)'
  <2>1. uidOf[i] \in EasUid
    BY DEF CollectionTypes
  <2>2. rows'[uidOf[i]] # NoItem
    BY <1>1, <1>2, <1>5, <2>1 DEF Stored, NoItem
  <2> QED BY <1>4, <2>1, <2>2 DEF RowsFit, Stored, Twins
<1> QED BY <1>3, <1>4, <1>5

(* The three writes of apply_folder_and_emit.                              *)
LEMMA ApplyKeeps ==
    ASSUME EasInv, GateInv', ApplyWipeStep \/ ApplyUpsertStep \/ advance_eas_cursor
    PROVE  EasInv'
<1> USE EasAssumption DEF EasInv
<1>0. /\ round = "folders" /\ round' = "folders"
      /\ UNCHANGED <<accountVars, serverVars, delta, mailVars, uidOf>>
  BY DEF ApplyWipeStep, ApplyUpsertStep, advance_eas_cursor, Keep, DbFails, Cost, GateStands,
         gateVars
<1>1. AccountTypes' /\ MailTypes'
  BY <1>0 DEF AccountTypes, MailTypes, accountVars, serverVars, mailVars
<1>2. DeltaInRound'
  BY <1>0 DEF DeltaInRound
<1>3. CASE ApplyWipeStep
  <2>1. CollectionTypes'
    BY <1>0, <1>3 DEF ApplyWipeStep, CollectionTypes, serverVars, NoItem
  <2>2. RowsFit'
    BY <1>0, <1>3 DEF ApplyWipeStep, RowsFit
  <2>3. DeltaClaims'
    BY <1>0, <1>3 DEF ApplyWipeStep, DeltaClaims, Known, serverVars
  <2>4. EasCursorCoversRows'
    BY <1>0, <1>3 DEF ApplyWipeStep, EasCursorCoversRows, Known, Stored, Twins, serverVars
  <2> QED BY <1>1, <1>2, <2>1, <2>2, <2>3, <2>4
<1>4. ASSUME stage = "upsert", rows' = Upserted
      PROVE  /\ rows' \in [EasUid -> Items \cup {NoItem}] /\ RowsFit'
             /\ \A i \in Items : Stored(i) \/ i \in delta.items => Stored(i)'
  BY <1>0, <1>4, UpsertStores
<1>5. CASE ApplyUpsertStep
  <2>1. CASE rows' = Upserted /\ stage' = "advance" /\ torn' = torn
    <3>1. stage = "upsert" /\ cursor' = cursor
      BY <1>5 DEF ApplyUpsertStep
    <3>2. CollectionTypes' /\ RowsFit'
      BY <1>0, <1>4, <2>1, <3>1 DEF CollectionTypes, serverVars
    <3>3. DeltaClaims'
      BY <1>0, <1>4, <2>1, <3>1 DEF DeltaClaims, Known, CollectionTypes, serverVars
    <3>4. EasCursorCoversRows'
      <4>1. cursor.kind = "key" => cursor.told \subseteq Items
        BY DEF CollectionTypes, EasCursor, Zero, Blank, Key
      <4> QED BY <1>0, <1>4, <2>1, <3>1, <4>1 DEF EasCursorCoversRows, Known, serverVars
    <3> QED BY <1>1, <1>2, <3>2, <3>3, <3>4
  <2>2. CASE stage' = "done" /\ Tears /\ UNCHANGED rows
    <3>1. stage = "upsert" /\ cursor' = cursor
      BY <1>5 DEF ApplyUpsertStep
    <3>2. CollectionTypes' /\ RowsFit' /\ DeltaClaims'
      BY <1>0, <2>2, <3>1 DEF CollectionTypes, serverVars, Tears, Known, RowsFit, DeltaClaims
    <3>3. EasCursorCoversRows'
      BY <1>0, <2>2, <3>1 DEF EasCursorCoversRows, Known, Stored, Twins, serverVars, Tears
    <3> QED BY <1>1, <1>2, <3>2, <3>3
  <2> QED BY <1>5, <2>1, <2>2 DEF ApplyUpsertStep
<1>6. CASE advance_eas_cursor
  <2>0. stage = "advance" /\ stage' = "done" /\ rows' = rows
    BY <1>6 DEF advance_eas_cursor
  <2>1. CASE cursor' = delta.next /\ torn' = (torn /\ delta.next.kind = "key")
    <3>1. CollectionTypes' /\ RowsFit' /\ DeltaClaims'
      BY <1>0, <2>0, <2>1 DEF CollectionTypes, serverVars, RowsFit, DeltaClaims
    <3>2. EasCursorCoversRows'
      <4> SUFFICES ASSUME Known', ~torn', NEW i \in delta.next.told PROVE Stored(i)'
        BY <2>0, <2>1 DEF EasCursorCoversRows
      <4>1. delta.next.kind = "key" /\ ~torn /\ ~delta.wipe
        <5>1. delta.next.kind = "key" /\ ~torn
          BY <2>0, <2>1 DEF Known, CollectionTypes
        <5> QED BY <2>0, <5>1 DEF DeltaClaims, Zero, CollectionTypes
      <4>2. Known /\ (i \in cursor.told \/ i \in delta.items)
        BY <2>0, <4>1 DEF DeltaClaims
      <4>3. Stored(i)
        BY <2>0, <4>1, <4>2 DEF EasCursorCoversRows, DeltaClaims
      <4> QED BY <1>0, <2>0, <4>3 DEF Stored, Twins
    <3> QED BY <1>1, <1>2, <3>1, <3>2
  <2>2. CASE Tears /\ UNCHANGED cursor
    <3>1. CollectionTypes' /\ RowsFit' /\ DeltaClaims'
      BY <1>0, <2>0, <2>2 DEF CollectionTypes, serverVars, Tears, Known, RowsFit, DeltaClaims
    <3>2. EasCursorCoversRows'
      BY <1>0, <2>0, <2>2 DEF EasCursorCoversRows, Known, Stored, Twins, serverVars, Tears
    <3> QED BY <1>1, <1>2, <3>1, <3>2
  <2> QED BY <1>6, <2>1, <2>2 DEF advance_eas_cursor
<1> QED BY <1>3, <1>5, <1>6

(* The end of a round, the server's doings, a restart.                     *)
LEMMA OtherwiseKept ==
    ASSUME EasInv, GateInv',
           \/ EasFinish \/ EasArrive \/ EasDelete \/ TokenExpires \/ PolicyChanges
           \/ ServerForgetsKeys \/ EasRestart
    PROVE  EasInv'
<1> USE EasAssumption DEF EasInv, accountVars, serverVars, storeVars, mailVars
<1>1. MailTypes'
  BY DEF MailTypes, EasFinish, EasArrive, EasDelete, TokenExpires, PolicyChanges,
         ServerForgetsKeys, EasRestart
<1>2. AccountTypes'
  <2>1. CASE PolicyChanges
    BY <2>1 DEF AccountTypes, PolicyChanges
  <2>2. CASE ~PolicyChanges
    BY <2>2 DEF AccountTypes, EasFinish, EasArrive, EasDelete, TokenExpires, ServerForgetsKeys,
                EasRestart
  <2> QED BY <2>1, <2>2
<1>3. CASE EasArrive \/ EasDelete \/ TokenExpires \/ PolicyChanges
  <2>1. /\ UNCHANGED <<storeVars, delta, valid, stage, round>>
        /\ stands' \in [Items -> {"unborn", "here", "gone"}]
    BY <1>3 DEF EasArrive, EasDelete, TokenExpires, PolicyChanges, CollectionTypes, gateVars
  <2>2. DeltaInRound'
    BY <2>1 DEF DeltaInRound
  <2> QED BY <1>1, <1>2, <2>1, <2>2, CollectionKept
<1>4. CASE EasFinish \/ EasRestart
  <2>1. /\ UNCHANGED <<cursor, uidOf, rows, valid, stands>>
        /\ stage' \in {"sync", "done"} /\ delta' = NoDelta
        /\ IF stage \in {"upsert", "advance"} THEN Tears ELSE torn' = torn
    BY <1>4 DEF EasFinish, EasRestart
  <2>2. CollectionTypes' /\ RowsFit' /\ DeltaClaims' /\ DeltaInRound'
    BY <2>1 DEF CollectionTypes, RowsFit, DeltaClaims, DeltaInRound, NoDelta, EasCursor, Tears,
                Known
  <2>3. EasCursorCoversRows'
    BY <2>1 DEF EasCursorCoversRows, Known, Stored, Twins, Tears
  <2> QED BY <1>1, <1>2, <2>2, <2>3
<1>5. CASE ServerForgetsKeys
  <2>1. /\ UNCHANGED <<cursor, uidOf, rows, torn, stands, stage, delta, round>> /\ valid' = {}
        /\ stage \notin {"wipe", "upsert", "advance"}
    BY <1>5 DEF ServerForgetsKeys, Cost, GateStands, Asking, DeltaInRound
  <2>2. CollectionTypes' /\ RowsFit' /\ DeltaClaims' /\ DeltaInRound' /\ EasCursorCoversRows'
    BY <2>1 DEF CollectionTypes, RowsFit, DeltaClaims, DeltaInRound, EasCursorCoversRows, Known
  <2> QED BY <1>1, <1>2, <2>2
<1> QED BY <1>3, <1>4, <1>5

LEMMA EasGoesOn == EasInv /\ [EasNext]_easVars => EasInv' /\ [GateNext]_gateVars
<1> SUFFICES ASSUME EasInv, [EasNext]_easVars PROVE EasInv' /\ [GateNext]_gateVars
  OBVIOUS
<1>1. [GateNext]_gateVars
  BY GateStepOfEas, EasAssumption, GateAssumption DEF EasInv, GateInv, AccountTypes, GateTypeOK
<1>2. GateInv'
  BY <1>1, GateGoesOn DEF EasInv
<1>3. CASE UNCHANGED easVars
  <2>1. AccountTypes' /\ MailTypes' /\ DeltaInRound'
    BY <1>3 DEF EasInv, easVars, movingVars, gateVars, accountVars, serverVars, mailVars,
                AccountTypes, MailTypes, DeltaInRound
  <2>2. CollectionTypes' /\ RowsFit' /\ DeltaClaims' /\ EasCursorCoversRows'
    BY <1>3, CollectionKept DEF EasInv, CollectionTypes, easVars, movingVars, storeVars, serverVars
  <2> QED BY <1>1, <1>2, <2>1, <2>2 DEF EasInv
<1> QED
  BY <1>1, <1>2, <1>3, BeforeFolders, SyncKeeps, ApplyKeeps, OtherwiseKept DEF EasNext, EasRound

LEMMA EasHolds == EasSpec => []EasInv
  BY EasBegins, EasGoesOn, PTL DEF EasSpec

(* Types, for any items, hashes, policies and bounds.                      *)
THEOREM EasTypeCorrect == EasSpec => []EasTypeOK
  BY EasHolds, EasTypes, PTL

(* What the stored sync key tells the server not to tell again has its     *)
(* rows: whichever of the three writes fails or is cut off, whichever      *)
(* answer is lost, whenever the server forgets its keys.                   *)
THEOREM SyncKeyClaimsRows == EasSpec => []EasCursorCoversRows
<1>1. EasInv => EasCursorCoversRows
  BY DEF EasInv
<1> QED BY <1>1, EasHolds, PTL

-----------------------------------------------------------------------------
(***************************************************************************)
(* The collection implements Mirror. Two facts are wanted besides: no key  *)
(* tells an item that is still to come, and the key of a delta tells again *)
(* what the stored one tells and the server has.                           *)
(***************************************************************************)
OnlyBornIsTold ==
    \A i \in cursor.told \cup delta.next.told : stands[i] # "unborn"

DeltaGoesOn ==
    stage \in {"wipe", "upsert", "advance"} /\ ~delta.wipe /\ delta.next.told # {} =>
        cursor.told \cap Here \subseteq delta.next.told

EasMirrorInv == EasInv /\ OnlyBornIsTold /\ DeltaGoesOn

(* What an answer of the server tells stands there.                        *)
LEMMA AnswersTell ==
    ASSUME NEW a \in SyncAnswers
    PROVE  /\ a.delta.next.told \subseteq Here
           /\ a.delta.next.told # {} => cursor.told \cap Here \subseteq a.delta.next.told
           /\ Known => cursor.told \in a.valid
           /\ cursor.kind = "key" /\ cursor.told \in a.valid => Known
<1>1. CASE cursor = Zero
  <2>1. a = [valid |-> {{}}, delta |-> [wipe |-> FALSE, items |-> {}, next |-> Key({})]]
    BY <1>1 DEF SyncAnswers, Known, Zero
  <2> QED BY <1>1, <2>1 DEF Key, Known, Zero
<1>2. CASE Known /\ cursor.told # Here
  <2>1. PICK p \in Pages :
           a = [valid |-> {cursor.told, (cursor.told \cap Here) \cup p},
                delta |-> [wipe |-> FALSE, items |-> p,
                           next |-> Key((cursor.told \cap Here) \cup p)]]
    <3>1. cursor # Zero
      BY <1>2 DEF Known, Zero
    <3> QED BY <1>2, <3>1 DEF SyncAnswers
  <2>2. a.delta.next.told = (cursor.told \cap Here) \cup p /\ cursor.told \in a.valid
    BY <2>1 DEF Key
  <2> QED BY <1>2, <2>2 DEF Pages
<1>3. CASE cursor # Zero /\ ~Known
  <2>1. a = [valid |-> valid, delta |-> Resync]
    BY <1>3 DEF SyncAnswers
  <2> QED BY <1>3, <2>1 DEF Resync, Zero, Known
<1> QED BY <1>1, <1>2, <1>3 DEF SyncAnswers

(* Whatever leaves the rows, the cursor and what it is worth stutters.     *)
LEMMA EasStutters ==
    ASSUME UNCHANGED <<rows, uidOf, Vouched>>, Here' = Here
    PROVE  UNCHANGED EasMirror!mirrorVars
BY DEF EasMirror!mirrorVars, Stored, Twins

(* Steps outside of the server and of the folder's sync.                   *)
LEMMA EasQuietSteps ==
    ASSUME EasMirrorInv, UNCHANGED <<cursor, uidOf, rows, valid, stands>>,
           \/ UNCHANGED <<stage, delta, torn>>
           \/ /\ UNCHANGED <<delta, torn>> /\ stage' \in {"sync", "done"}
              /\ stage \in {"sync", "done"}
           \/ /\ delta' = NoDelta /\ stage' \in {"sync", "done"}
              /\ IF stage \in {"upsert", "advance"} THEN Tears ELSE torn' = torn
           \/ UNCHANGED delta /\ stage \in {"upsert", "advance"} /\ stage' = "done" /\ Tears
    PROVE  UNCHANGED EasMirror!mirrorVars /\ OnlyBornIsTold' /\ DeltaGoesOn'
<1>1. torn \in BOOLEAN /\ delta.wipe \in BOOLEAN
  BY DEF EasMirrorInv, EasInv, CollectionTypes
<1>2. Known' = Known /\ Here' = Here
  BY DEF Known, Here
<1>3. CASE UNCHANGED <<stage, delta, torn>>
  BY <1>2, <1>3, EasStutters DEF EasMirrorInv, OnlyBornIsTold, DeltaGoesOn, Vouched
<1>4. CASE UNCHANGED <<delta, torn>> /\ stage' \in {"sync", "done"} /\ stage \in {"sync", "done"}
  BY <1>2, <1>4, EasStutters DEF EasMirrorInv, OnlyBornIsTold, DeltaGoesOn, Vouched
<1>5. ASSUME IF stage \in {"upsert", "advance"} THEN Tears ELSE torn' = torn,
             stage' \in {"sync", "done"}
      PROVE  UNCHANGED EasMirror!mirrorVars
  <2>1. Known => (torn' <=> torn \/ (delta.wipe /\ stage \in {"upsert", "advance"}))
    BY <1>1, <1>5 DEF Tears
  <2>2. Vouched' = Vouched
    BY <1>2, <1>5, <2>1 DEF Vouched
  <2> QED BY <1>2, <2>2, EasStutters
<1>6. CASE /\ delta' = NoDelta /\ stage' \in {"sync", "done"}
           /\ IF stage \in {"upsert", "advance"} THEN Tears ELSE torn' = torn
  BY <1>5, <1>6 DEF EasMirrorInv, OnlyBornIsTold, DeltaGoesOn, NoDelta, Zero
<1>7. CASE UNCHANGED delta /\ stage \in {"upsert", "advance"} /\ stage' = "done" /\ Tears
  BY <1>5, <1>7 DEF EasMirrorInv, OnlyBornIsTold, DeltaGoesOn
<1> QED BY <1>3, <1>4, <1>6, <1>7

LEMMA EasQuiet ==
    ASSUME EasMirrorInv,
           \/ EasStart \/ EasDrain \/ EasQueue \/ EasGate \/ list_folders
           \/ EasFinish \/ EasRestart \/ TokenExpires \/ PolicyChanges \/ UNCHANGED easVars
    PROVE  UNCHANGED EasMirror!mirrorVars /\ OnlyBornIsTold' /\ DeltaGoesOn'
<1> USE DEF storeVars, serverVars
<1>1. CASE EasStart \/ EasDrain \/ EasQueue \/ EasGate \/ TokenExpires \/ PolicyChanges
           \/ UNCHANGED easVars
  <2>1. UNCHANGED <<cursor, uidOf, rows, valid, stands, stage, delta, torn>>
    BY <1>1 DEF EasStart, EasDrain, EasQueue, EasGate, TokenExpires, PolicyChanges, easVars,
                movingVars
  <2> QED BY <2>1, EasQuietSteps
<1>2. CASE list_folders
  <2>1. UNCHANGED <<cursor, uidOf, rows, valid, stands, delta, torn>> /\ stage' = "sync"
        /\ round = "list"
    BY <1>2 DEF list_folders, Listed
  <2>2. stage \in {"sync", "done"}
    BY <2>1 DEF EasMirrorInv, EasInv, DeltaInRound, CollectionTypes
  <2> QED BY <2>1, <2>2, EasQuietSteps
<1>3. CASE EasFinish \/ EasRestart
  <2>1. /\ UNCHANGED <<cursor, uidOf, rows, valid, stands>>
        /\ stage' \in {"sync", "done"} /\ delta' = NoDelta
        /\ IF stage \in {"upsert", "advance"} THEN Tears ELSE torn' = torn
    BY <1>3 DEF EasFinish, EasRestart
  <2> QED BY <2>1, EasQuietSteps
<1> QED BY <1>1, <1>2, <1>3

(* Items come and go, and keys are forgotten all together.                 *)
LEMMA EasServerMoves ==
    ASSUME EasMirrorInv, EasArrive \/ EasDelete \/ ServerForgetsKeys
    PROVE  EasMirror!ServerMoves /\ OnlyBornIsTold' /\ DeltaGoesOn'
<1> USE DEF EasMirrorInv, EasInv, CollectionTypes
<1>1. UNCHANGED <<rows, uidOf, cursor, torn, delta, stage>>
  BY DEF EasArrive, EasDelete, ServerForgetsKeys, storeVars
<1>2. stage \notin {"wipe", "upsert", "advance"}
  BY DEF EasArrive, EasDelete, ServerForgetsKeys, Asking, DeltaInRound
<1>3. {i \in Items : Stored(i)}' = {i \in Items : Stored(i)}
  BY <1>1 DEF Stored, Twins
<1>4. DeltaGoesOn'
  BY <1>1, <1>2 DEF DeltaGoesOn
<1>5. CASE EasArrive
  <2>1. PICK i \in Items : stands[i] = "unborn" /\ stands' = [stands EXCEPT ![i] = "here"]
    BY <1>5 DEF EasArrive
  <2>2. Here' = Here \cup {i} /\ UNCHANGED Vouched
    BY <1>1, <1>5, <2>1 DEF Here, EasArrive, Vouched, Known
  <2>3. i \notin Vouched
    BY <2>1 DEF Vouched, OnlyBornIsTold
  <2>4. OnlyBornIsTold'
    BY <1>1, <2>1 DEF OnlyBornIsTold
  <2> QED BY <1>3, <1>4, <2>2, <2>3, <2>4 DEF EasMirror!ServerMoves
<1>6. CASE EasDelete
  <2>1. PICK i \in Here : stands' = [stands EXCEPT ![i] = "gone"]
    BY <1>6 DEF EasDelete
  <2>2. Here' \subseteq Here /\ UNCHANGED Vouched
    BY <1>1, <1>6, <2>1 DEF Here, EasDelete, Vouched, Known
  <2>3. OnlyBornIsTold'
    BY <1>1, <2>1 DEF OnlyBornIsTold, Here
  <2> QED BY <1>3, <1>4, <2>2, <2>3 DEF EasMirror!ServerMoves
<1>7. CASE ServerForgetsKeys
  <2>1. Here' = Here /\ Vouched' = {} /\ OnlyBornIsTold'
    BY <1>1, <1>7 DEF ServerForgetsKeys, Here, Vouched, Known, OnlyBornIsTold
  <2> QED BY <1>3, <1>4, <2>1 DEF EasMirror!ServerMoves
<1> QED BY <1>5, <1>6, <1>7

(* An answer, also one that is lost, leaves the stored key its worth.      *)
LEMMA EasAsks ==
    ASSUME EasMirrorInv, sync_folder
    PROVE  UNCHANGED EasMirror!mirrorVars /\ OnlyBornIsTold' /\ DeltaGoesOn'
<1> USE DEF EasMirrorInv
<1>1. stage = "sync" /\ UNCHANGED <<rows, uidOf, cursor, torn, stands>>
      /\ stage' \in {"wipe", "done"} /\ Here' = Here
  BY DEF sync_folder, SyncAnswered, SyncOddly, SyncFailed, SyncLost, storeVars, Here
<1>2. ASSUME Known' = Known PROVE UNCHANGED EasMirror!mirrorVars
  <2>1. Vouched' = Vouched
    BY <1>1, <1>2 DEF Vouched
  <2> QED BY <1>1, <2>1, EasStutters
<1>3. ASSUME \A i \in delta'.next.told : i \in Here \/ i \in delta.next.told
      PROVE  OnlyBornIsTold'
  BY <1>1, <1>3 DEF OnlyBornIsTold, Here
<1>4. CASE SyncAnswered \/ SyncLost
  <2>1. PICK a \in SyncAnswers : valid' = a.valid /\ IF SyncAnswered THEN delta' = a.delta
                                                    ELSE delta' = delta /\ stage' = "done"
    BY <1>4 DEF SyncAnswered, SyncLost
  <2>2. Known' = Known
    BY <1>1, <2>1, AnswersTell DEF Known
  <2>3. OnlyBornIsTold'
    BY <1>3, <2>1, AnswersTell
  <2>4. DeltaGoesOn'
    BY <1>1, <2>1, AnswersTell DEF DeltaGoesOn
  <2> QED BY <1>2, <2>2, <2>3, <2>4
<1>5. CASE SyncOddly
  <2>1. delta'.next.told = {} /\ valid' = valid
    BY <1>5 DEF SyncOddly, Resync, Zero, Blank
  <2>2. Known' = Known
    BY <1>1, <2>1 DEF Known
  <2> QED BY <1>2, <1>3, <2>1, <2>2 DEF DeltaGoesOn
<1>6. CASE SyncFailed
  <2>1. UNCHANGED <<valid, delta>> /\ stage' = "done"
    BY <1>6 DEF SyncFailed
  <2>2. Known' = Known
    BY <1>1, <2>1 DEF Known
  <2> QED BY <1>2, <1>3, <2>1, <2>2 DEF DeltaGoesOn
<1> QED BY <1>4, <1>5, <1>6 DEF sync_folder

(* The first two writes: a wipe takes the key's claims with it, and the    *)
(* upsert takes no row from an item.                                       *)
LEMMA EasWrites ==
    ASSUME EasMirrorInv, ApplyWipeStep \/ ApplyUpsertStep
    PROVE  /\ [EasMirror!MirrorNext]_(EasMirror!mirrorVars)
           /\ OnlyBornIsTold' /\ DeltaGoesOn'
<1>1. UNCHANGED <<cursor, uidOf, valid, stands, delta>>
  BY DEF ApplyWipeStep, ApplyUpsertStep, Keep, serverVars
<1>2. Here' = Here /\ Known' = Known
  BY <1>1 DEF Here, Known
<1>3. OnlyBornIsTold' /\ (stage \in {"wipe", "upsert"} => DeltaGoesOn')
  BY <1>1, <1>2 DEF EasMirrorInv, OnlyBornIsTold, DeltaGoesOn
<1>4. CASE ApplyWipeStep
  <2>1. stage = "wipe" /\ torn' = torn
    BY <1>4 DEF ApplyWipeStep
  <2>2. CASE rows' = rows /\ (delta.wipe => stage' = "done")
    <3>1. Vouched' = Vouched
      BY <1>1, <1>2, <2>1, <2>2 DEF Vouched
    <3> QED BY <1>1, <1>2, <1>3, <2>1, <2>2, <3>1, EasStutters
  <2>3. CASE delta.wipe /\ stage' = "upsert" /\ rows' = [u \in EasUid |-> NoItem]
    <3>1. Vouched' = {}
      BY <1>1, <2>3 DEF Vouched
    <3>2. {i \in Items : Stored(i)}' = {}
      <4>1. \A i \in Items : uidOf[i] \in EasUid
        BY EasAssumption DEF EasMirrorInv, EasInv, CollectionTypes
      <4> QED BY <1>1, <2>3, <4>1 DEF Stored
    <3> QED BY <1>2, <1>3, <2>1, <3>1, <3>2 DEF EasMirror!MirrorNext, EasMirror!StartOver
  <2> QED BY <1>4, <2>2, <2>3 DEF ApplyWipeStep
<1>5. CASE ApplyUpsertStep
  <2>1. stage = "upsert"
    BY <1>5 DEF ApplyUpsertStep
  <2>2. CASE stage' = "advance" /\ rows' = Upserted /\ torn' = torn
    <3>1. Vouched' = Vouched
      BY <1>1, <1>2, <2>1, <2>2 DEF Vouched
    <3>2. \A i \in Items : Stored(i) => Stored(i)'
      BY <1>1, <2>2, UpsertStores DEF EasMirrorInv, EasInv
    <3> QED BY <1>2, <1>3, <2>1, <3>1, <3>2 DEF EasMirror!MirrorNext, EasMirror!Store
  <2>3. CASE stage' = "done" /\ Tears /\ rows' = rows
    BY <1>1, <2>1, <2>3, EasQuietSteps
  <2> QED BY <1>5, <2>2, <2>3 DEF ApplyUpsertStep
<1> QED BY <1>4, <1>5

(* The third: the new key vouches for what is there, or for nothing.       *)
LEMMA EasAdvances ==
    ASSUME EasMirrorInv, EasInv', advance_eas_cursor
    PROVE  /\ [EasMirror!MirrorNext]_(EasMirror!mirrorVars)
           /\ OnlyBornIsTold' /\ DeltaGoesOn'
<1>1. /\ UNCHANGED <<rows, uidOf, valid, stands, delta>>
      /\ stage = "advance" /\ stage' = "done"
  BY DEF advance_eas_cursor, Keep, serverVars
<1>2. Here' = Here /\ {i \in Items : Stored(i)}' = {i \in Items : Stored(i)}
  BY <1>1 DEF Here, Stored, Twins
<1>3. CASE UNCHANGED cursor /\ Tears
  BY <1>1, <1>3, EasQuietSteps
<1>4. CASE cursor' = delta.next /\ torn' = (torn /\ delta.next.kind = "key")
  <2>1. OnlyBornIsTold' /\ DeltaGoesOn'
    BY <1>1, <1>4 DEF EasMirrorInv, OnlyBornIsTold, DeltaGoesOn
  <2>2. CASE Vouched' = {}
    BY <1>2, <2>1, <2>2 DEF EasMirror!MirrorNext, EasMirror!StartOver
  <2>3. CASE Vouched' # {}
    <3>1. Known' /\ ~torn' /\ Vouched' = delta.next.told
      BY <1>4, <2>3 DEF Vouched
    <3>2. delta.next.kind = "key" /\ ~torn /\ delta.next.told # {}
      BY <1>4, <2>3, <3>1 DEF Known, EasMirrorInv, EasInv, CollectionTypes
    <3>3. ~delta.wipe /\ Known
      BY <1>1, <3>2 DEF EasMirrorInv, EasInv, DeltaClaims, Zero
    <3>4. Vouched = cursor.told
      BY <3>2, <3>3 DEF Vouched
    <3>5. Vouched \cap Here \subseteq Vouched'
      BY <1>1, <3>1, <3>2, <3>3, <3>4 DEF EasMirrorInv, DeltaGoesOn
    <3>6. Vouched' \cap Here \subseteq {i \in Items : Stored(i)}
      <4>1. \A i \in cursor'.told : Stored(i)'
        BY <1>1, <3>1 DEF EasInv, EasCursorCoversRows
      <4> QED BY <1>1, <1>4, <3>1, <4>1 DEF Here, Stored, Twins
    <3> QED BY <1>2, <2>1, <3>5, <3>6 DEF EasMirror!MirrorNext, EasMirror!Vouch
  <2> QED BY <2>2, <2>3
<1> QED BY <1>3, <1>4 DEF advance_eas_cursor

LEMMA EasMirrorStep ==
    ASSUME EasMirrorInv, [EasNext]_easVars
    PROVE  EasMirrorInv' /\ [EasMirror!MirrorNext]_(EasMirror!mirrorVars)
<1>1. EasInv'
  BY EasGoesOn DEF EasMirrorInv
<1>2. EasMirror!ServerMoves => EasMirror!MirrorNext
  BY DEF EasMirror!MirrorNext
<1> QED BY <1>1, <1>2, EasQuiet, EasServerMoves, EasAsks, EasWrites, EasAdvances
        DEF EasNext, EasRound, EasMirrorInv

(* Over sync keys that are lost, refused, forgotten or given up, and over   *)
(* writes that fail, the collection's copy only does what a mirror may.    *)
THEOREM EasImplementsMirror == EasSpec => EasMirrored
<1>1. EasInit => EasMirrorInv /\ EasMirror!MirrorInit
  <2> SUFFICES ASSUME EasInit PROVE EasMirrorInv /\ EasMirror!MirrorInit
    OBVIOUS
  <2>1. OnlyBornIsTold /\ DeltaGoesOn
    BY DEF EasInit, OnlyBornIsTold, DeltaGoesOn, Zero, NoDelta
  <2>2. \A i \in Items : ~Stored(i)
    BY EasAssumption DEF EasInit, Stored
  <2>3. Vouched = {}
    BY DEF EasInit, Vouched, Known, Zero
  <2> QED BY <2>1, <2>2, <2>3, EasBegins DEF EasMirrorInv, EasMirror!MirrorInit
<1> QED BY <1>1, EasMirrorStep, PTL DEF EasSpec, EasMirrored, EasMirror!MirrorSpec

(* The rounds of an Exchange account pass the gates in their order.        *)
THEOREM EasImplementsGates == EasSpec => GateSpec
<1>1. EasInit => GateInit
  BY DEF EasInit
<1> QED BY <1>1, EasHolds, EasGoesOn, PTL DEF EasSpec, GateSpec

(* So the waits are kept by an Exchange account.                           *)
THEOREM EasKeepsWaits == EasSpec => WaitIsKept
  BY EasImplementsGates, WaitsAreKept

-----------------------------------------------------------------------------
(***************************************************************************)
(* SendPath: what leaves is what the draft asked for, and a mail that was  *)
(* accepted is not reported or queued as unsent, for any recipients,       *)
(* attempts, changes of the settings and failures.                         *)
(*                                                                         *)
(* The argument: the draft is fixed when it is queued, so an attempt is on *)
(* the way of its draft wherever it stands; and once the transport has     *)
(* accepted the mail, the attempt ends as a success or leaves a doubt.     *)
(***************************************************************************)

Looking == {"lookup", "export", "validate", "encrypt"}
Stage == {"idle", "build", "account", "signer", "sign", "transport", "append",
          "cleanup", "mark"} \cup Looking

Fits(form) ==
    /\ form.sign = asked.sign
    /\ form.to = IF asked.encrypt THEN Address ELSE {}

(* Where an attempt stands, what it has read and built is the draft's.     *)
OnItsWay ==
    /\ at \in Stage
    /\ at \notin {"transport", "append", "cleanup"} => mime = Plain
    /\ at \in {"transport", "append"} => Fits(mime)
    /\ at \in Looking => asked.encrypt /\ signs = asked.sign
    /\ at = "sign" => ~asked.encrypt /\ signs = asked.sign

(* An attempt is of a pending row, and has a result only to be marked.     *)
RowAndResult ==
    /\ at # "idle" => row = "pending"
    /\ row = "pending" => attempts < MaxAttempts
    /\ at # "mark" => went = "none"
    /\ at = "mark" => went \in {"ok", "err"}

(* After an acceptance without doubt the rest of the attempt is a success. *)
AcceptedEndsWell ==
    wire # {} /\ ~doubt =>
        /\ told = "success" /\ row # "failed"
        /\ \/ at \in {"append", "cleanup"}
           \/ at = "mark" /\ went = "ok"
           \/ at = "idle" /\ row = "gone"

SendInv ==
    /\ SendTypeOK /\ OnItsWay /\ WireIsAsAsked /\ RowAndResult /\ AcceptedEndsWell

-----------------------------------------------------------------------------
LEMMA SendBegins == SendInit => SendInv
<1> SUFFICES ASSUME SendInit PROVE SendInv
  OBVIOUS
<1> USE SendAssumption DEF SendInit
<1>1. SendTypeOK
  BY DEF SendTypeOK, Plain, Forms, Standing, Standard
<1>2. OnItsWay /\ WireIsAsAsked /\ RowAndResult /\ AcceptedEndsWell
  BY DEF OnItsWay, WireIsAsAsked, RowAndResult, AcceptedEndsWell, Stage, Looking
<1> QED BY <1>1, <1>2 DEF SendInv

(* A failure before the transport: nothing was accepted, unless in doubt.  *)
LEMMA FailureKeeps ==
    ASSUME SendInv, at \notin {"idle", "append", "cleanup", "mark"} \/ BeginSend, Fails, OnTheWay,
           Slip \/ Fine
    PROVE  SendInv'
<1> USE SendAssumption DEF SendInv, settings
<1>1. at \notin {"append", "cleanup", "mark"} /\ row = "pending" /\ UNCHANGED <<asked, wire, copies, row>>
  BY DEF BeginSend, RowAndResult, Fails, OnTheWay
<1>2. SendTypeOK'
  BY DEF SendTypeOK, Fails, OnTheWay, Slip, Fine, Plain, Forms, Standard
<1>3. OnItsWay'
  BY DEF Fails, OnItsWay, Stage, Looking
<1>4. WireIsAsAsked'
  BY <1>1 DEF WireIsAsAsked
<1>5. RowAndResult'
  BY <1>1 DEF RowAndResult, Fails, OnTheWay
<1>6. AcceptedEndsWell'
  BY <1>1 DEF AcceptedEndsWell, Fails, OnTheWay
<1> QED BY <1>2, <1>3, <1>4, <1>5, <1>6

(* A step that goes on before the transport, still on the draft's way.     *)
LEMMA WayKeeps ==
    ASSUME SendInv, OnTheWay, Fine, at \notin {"append", "cleanup", "mark"}, row = "pending",
           at' \notin {"idle", "append", "cleanup", "mark"}, OnItsWay',
           UNCHANGED <<went, outcome>>,
           mime' \in Forms, std' \in Standard \cup {"none"}, todo' \subseteq Address
    PROVE  SendInv'
<1> USE SendAssumption DEF SendInv, settings, outcome
<1>1. SendTypeOK'
  BY DEF SendTypeOK, OnTheWay, Fine
<1>2. WireIsAsAsked'
  BY DEF WireIsAsAsked, OnTheWay
<1>3. RowAndResult'
  BY DEF RowAndResult, OnTheWay
<1>4. AcceptedEndsWell'
  BY DEF AcceptedEndsWell, OnTheWay
<1> QED BY <1>1, <1>2, <1>3, <1>4

LEMMA BuildingKeeps ==
    ASSUME SendInv,
           \/ BeginSend \/ BuildMime \/ ReadAccount \/ ReadSigner \/ ValidateRecipients
           \/ Encrypt \/ Sign \/ \E a \in Address : FindKey(a) \/ ExportKey(a)
    PROVE  SendInv'
<1> DEFINE Step ==
      \/ BeginSend \/ BuildMime \/ ReadAccount \/ ReadSigner \/ ValidateRecipients
      \/ Encrypt \/ Sign \/ \E a \in Address : FindKey(a) \/ ExportKey(a)
<1>1. /\ OnTheWay /\ (Slip \/ Fine) /\ row = "pending"
      /\ at \notin {"append", "cleanup", "mark"} /\ (at = "idle" => BeginSend)
  BY DEF SendInv, RowAndResult, BeginSend, BuildMime, ReadAccount, ReadSigner,
         ValidateRecipients, Encrypt, Sign, FindKey, ExportKey, NoMethod
<1>2. CASE Fails
  BY <1>1, <1>2, FailureKeeps
<1>3. CASE ~Fails
  <2>1. Fine /\ at' \notin {"idle", "append", "cleanup", "mark"} /\ UNCHANGED <<went, outcome>>
    BY <1>3 DEF BeginSend, BuildMime, ReadAccount, ReadSigner, ValidateRecipients, Encrypt,
                Sign, FindKey, ExportKey, NoMethod, GoesOn
  <2>2. std' \in Standard \cup {"none"} /\ todo' \subseteq Address
    BY <1>3 DEF SendInv, SendTypeOK, BeginSend, BuildMime, ReadAccount, ReadSigner,
                ValidateRecipients, Encrypt, Sign, FindKey, ExportKey, NoMethod
  <2>3. asked' = asked /\ asked.sign \in BOOLEAN /\ asked.encrypt \in BOOLEAN
    BY <1>1, SendAssumption DEF OnTheWay, SendInv, SendTypeOK, Draft
  <2>4. OnItsWay' /\ mime' \in Forms
    <3>1. CASE BeginSend
      BY <1>3, <3>1 DEF BeginSend, GoesOn, SendInv, OnItsWay, SendTypeOK, Stage, Looking
    <3>2. CASE BuildMime
      <4>1. mime' = Plain /\ at' \in {"account", "transport"}
            /\ (at' = "transport" => ~asked.sign /\ ~asked.encrypt)
        BY <1>3, <3>2 DEF BuildMime, GoesOn, SendInv, OnItsWay
      <4>2. at' = "transport" => Fits(mime)'
        BY <2>3, <4>1 DEF Fits, Plain
      <4> QED BY <4>1, <4>2, <2>3 DEF OnItsWay, Stage, Looking, Plain, Forms
    <3>3. CASE ReadAccount
      BY <1>3, <3>3 DEF ReadAccount, NoMethod, GoesOn, SendInv, OnItsWay, SendTypeOK, Stage, Looking
    <3>4. CASE ReadSigner
      BY <1>3, <2>3, <3>4 DEF ReadSigner, GoesOn, SendInv, OnItsWay, SendTypeOK, Stage, Looking
    <3>5. CASE ValidateRecipients \/ \E a \in Address : FindKey(a) \/ ExportKey(a)
      <4>1. at \in Looking /\ at' \in Looking /\ UNCHANGED <<signs, mime>>
        BY <1>3, <3>5 DEF ValidateRecipients, FindKey, ExportKey, GoesOn, Looking
      <4> QED BY <2>3, <4>1 DEF SendInv, OnItsWay, SendTypeOK, Stage, Looking
    <3>6. CASE Encrypt \/ Sign
      <4>1. at' = "transport" /\ mime' = [sign |-> asked.sign,
                                         to |-> IF asked.encrypt THEN Address ELSE {}]
        BY <1>3, <2>3, <3>6 DEF Encrypt, Sign, GoesOn, SendInv, OnItsWay, Looking
      <4> QED BY <2>3, <4>1 DEF OnItsWay, Fits, Stage, Looking, Forms
    <3> QED BY <3>1, <3>2, <3>3, <3>4, <3>5, <3>6
  <2> QED BY <1>1, <2>1, <2>2, <2>4, WayKeeps
<1> QED BY <1>2, <1>3

LEMMA TransportKeeps ==
    ASSUME SendInv, Transport
    PROVE  SendInv'
<1> USE SendAssumption DEF SendInv, settings
<1>1. CASE Fails /\ Slip
  BY <1>1, FailureKeeps DEF Transport
<1>2. CASE ~(Fails /\ Slip)
  <2>1. /\ at = "transport" /\ Fits(mime) /\ row = "pending" /\ wire' = wire \cup {mime}
        /\ UNCHANGED <<asked, row, attempts, copies, std, todo, signs>> /\ (Slip \/ Fine)
        /\ OnTheWay
    BY <1>2 DEF Transport, OnItsWay, RowAndResult, OnTheWay
  <2>2. Plain \in Forms
    BY DEF Plain, Forms
  <2>3. wire' \subseteq Forms /\ mime' \in Forms /\ went' \in {"none", "ok", "err"}
        /\ told' \in {"none", "success", "failure"}
    BY <1>2, <2>1, <2>2 DEF Transport, SendTypeOK
  <2>4. slips' \in 0..MaxSlips
    BY <2>1 DEF SendTypeOK, Slip, Fine
  <2>5. SendTypeOK'
    BY <2>1, <2>3, <2>4 DEF SendTypeOK, OnTheWay
  <2>6. OnItsWay'
    BY <1>2, <2>1 DEF Transport, OnItsWay, Fits, Stage, Looking
  <2>7. WireIsAsAsked'
    BY <2>1 DEF WireIsAsAsked, Fits
  <2>8. RowAndResult' /\ AcceptedEndsWell'
    BY <1>2, <2>1 DEF Transport, RowAndResult, AcceptedEndsWell
  <2> QED BY <2>5, <2>6, <2>7, <2>8
<1> QED BY <1>1, <1>2

(* After the acceptance.                                                   *)
LEMMA AfterwardsKeeps ==
    ASSUME SendInv, AppendSent \/ CleanUp \/ Mark \/ SendCrash
    PROVE  SendInv'
<1> USE SendAssumption DEF SendInv, settings
<1>1. CASE AppendSent
  <2>1. /\ at = "append" /\ at' = "cleanup" /\ OnTheWay /\ (Slip \/ Fine)
        /\ copies' \in {copies, copies \cup {mime}}
        /\ UNCHANGED <<std, todo, signs, mime, went, wire, told, doubt>>
    BY <1>1 DEF AppendSent, AppendLogged, outcome
  <2>2. SendTypeOK'
    BY <2>1 DEF SendTypeOK, OnTheWay, Slip, Fine
  <2>3. WireIsAsAsked'
    BY <2>1 DEF WireIsAsAsked, OnItsWay, Fits, OnTheWay
  <2>4. OnItsWay'
    BY <2>1 DEF OnItsWay, OnTheWay, Stage, Looking
  <2>5. RowAndResult' /\ AcceptedEndsWell'
    BY <2>1 DEF RowAndResult, AcceptedEndsWell, OnTheWay
  <2> QED BY <2>2, <2>3, <2>4, <2>5
<1>2. CASE CleanUp
  <2>1. SendTypeOK'
    BY <1>2 DEF CleanUp, SendTypeOK, Slip, Fine, Plain, Forms, outcome
  <2>2. OnItsWay'
    BY <1>2 DEF CleanUp, OnItsWay, Stage, Looking
  <2>3. WireIsAsAsked'
    BY <1>2 DEF CleanUp, WireIsAsAsked, outcome
  <2>4. RowAndResult' /\ AcceptedEndsWell'
    BY <1>2 DEF CleanUp, RowAndResult, AcceptedEndsWell, outcome
  <2> QED BY <2>1, <2>2, <2>3, <2>4
<1>3. CASE Mark
  <2>1. SendTypeOK'
    BY <1>3 DEF Mark, SendTypeOK, RowAndResult, Slip, Fine
  <2>2. OnItsWay'
    BY <1>3 DEF Mark, OnItsWay, Stage, Looking
  <2>3. WireIsAsAsked'
    BY <1>3 DEF Mark, WireIsAsAsked
  <2>4. RowAndResult'
    BY <1>3 DEF Mark, RowAndResult, SendTypeOK
  <2>5. AcceptedEndsWell'
    BY <1>3 DEF Mark, AcceptedEndsWell
  <2> QED BY <2>1, <2>2, <2>3, <2>4, <2>5
<1>4. CASE SendCrash
  <2>1. SendTypeOK'
    BY <1>4 DEF SendCrash, SendTypeOK, OnTheWay, Slip, Plain, Forms
  <2>2. OnItsWay'
    BY <1>4 DEF SendCrash, OnItsWay, Stage, Looking
  <2>3. WireIsAsAsked'
    BY <1>4 DEF SendCrash, WireIsAsAsked, OnTheWay
  <2>4. RowAndResult' /\ AcceptedEndsWell'
    BY <1>4 DEF SendCrash, RowAndResult, AcceptedEndsWell, OnTheWay
  <2> QED BY <2>1, <2>2, <2>3, <2>4
<1> QED BY <1>1, <1>2, <1>3, <1>4

(* The user's changes touch neither the draft nor the attempt.             *)
LEMMA ChangeKeeps ==
    ASSUME SendInv, Change
    PROVE  SendInv'
<1> USE SendAssumption DEF SendInv
<1>1. SendTypeOK'
  BY DEF Change, SendTypeOK, attempt, outcome
<1>2. OnItsWay' /\ WireIsAsAsked'
  BY DEF Change, OnItsWay, Fits, WireIsAsAsked, attempt, outcome
<1>3. RowAndResult' /\ AcceptedEndsWell'
  BY DEF Change, RowAndResult, AcceptedEndsWell, attempt, outcome
<1> QED BY <1>1, <1>2, <1>3

LEMMA SendGoesOn == SendInv /\ [SendNext]_spVars => SendInv'
<1> SUFFICES ASSUME SendInv, [SendNext]_spVars PROVE SendInv'
  OBVIOUS
<1>1. CASE UNCHANGED spVars
  BY <1>1 DEF spVars, settings, attempt, outcome, SendInv, SendTypeOK, OnItsWay, Fits,
              WireIsAsAsked, RowAndResult, AcceptedEndsWell
<1> QED BY <1>1, BuildingKeeps, TransportKeeps, AfterwardsKeeps, ChangeKeeps
        DEF SendNext, SendStep

(* Types, for any addresses and bounds.                                    *)
THEOREM SendTypeCorrect == SendSpec => []SendTypeOK
<1>1. SendInv => SendTypeOK
  BY DEF SendInv
<1> QED BY SendBegins, SendGoesOn, <1>1, PTL DEF SendSpec

(* No change of the account's method or keys, no retry and no failure      *)
(* makes mail leave less protected than the draft asked, or be copied so.  *)
THEOREM NothingLeavesUnprotected == SendSpec => []WireIsAsAsked
<1>1. SendInv => WireIsAsAsked
  BY DEF SendInv
<1> QED BY SendBegins, SendGoesOn, <1>1, PTL DEF SendSpec

(* Accepted mail is neither reported as failed nor given up nor returned   *)
(* to the queue as an error, unless the client could not know.             *)
THEOREM AcceptedIsNotFailed == SendSpec => []FailureMeansUnsent
<1>1. SendInv => FailureMeansUnsent
  BY DEF SendInv, FailureMeansUnsent, RowAndResult, AcceptedEndsWell
<1> QED BY SendBegins, SendGoesOn, <1>1, PTL DEF SendSpec

-----------------------------------------------------------------------------
(***************************************************************************)
(* SignerVerdict: how old the revocation list behind a verdict can be, for *)
(* any number of openings and points, any lifetime of the cache and any    *)
(* timeout.                                                                *)
(*                                                                         *)
(* A list that is downloaded is no older than its request. The cache       *)
(* stamps it when it is kept, at most a timeout later, and gives it away   *)
(* until its lifetime is over: so whatever an opening takes up was issued  *)
(* no longer than both together before the opening began.                  *)
(***************************************************************************)

(* The cache's stamp is no earlier than its list, and late by a request.   *)
StampsAreClose ==
    \A p \in Point : stamped[p] # NoStamp =>
        stamped[p] <= now /\ issued[p] # NoList /\ stamped[p] <= issued[p] + Flight

(* A request on the line began after its opening did; what it brought is   *)
(* no older than the request.                                              *)
RequestsEnd ==
    \A o \in Opening :
        /\ opening[o].at = "unborn" => opening[o] = Unopened
        /\ opening[o].begun <= now
        /\ OnTheLine(o) =>
              /\ opening[o].point \in Point
              /\ opening[o].begun <= opening[o].asked /\ opening[o].asked <= now
              /\ now <= opening[o].asked + Flight
        /\ opening[o].at = "answered" =>
              /\ opening[o].list[opening[o].point] # NoList
              /\ opening[o].asked <= opening[o].list[opening[o].point]
              /\ opening[o].list[opening[o].point] <= now

(* What an opening has taken up.                                           *)
ListsAreRecent ==
    \A o \in Opening, p \in Point : opening[o].list[p] # NoList =>
        opening[o].list[p] + Ttl + Flight > opening[o].begun

VerdictInv ==
    VerdictTypeOK /\ StampsAreClose /\ RequestsEnd /\ ListsAreRecent /\ RevokedIsNotValid

LEMMA VerdictBegins == VerdictInit => VerdictInv
<1> SUFFICES ASSUME VerdictInit PROVE VerdictInv
  OBVIOUS
<1> USE VerdictAssumption DEF VerdictInit
<1>1. VerdictTypeOK
  BY DEF VerdictTypeOK, Unopened, NothingStored, Steps, Time, NoList, NoStamp, Point, Never
<1>2. StampsAreClose /\ RequestsEnd /\ ListsAreRecent /\ RevokedIsNotValid
  BY DEF StampsAreClose, RequestsEnd, ListsAreRecent, RevokedIsNotValid, OnTheLine, Unopened,
         NothingStored
<1> QED BY <1>1, <1>2 DEF VerdictInv

Step == [at : Steps, begun : Time, point : 1..(LastPoint + 1), asked : Time,
         anchored : BOOLEAN, trusted : BOOLEAN, list : [Point -> Time \cup {NoList}]]

LEMMA UnopenedIsAStep == Unopened \in Step
  BY VerdictAssumption DEF Unopened, Step, Steps, Time, Point

(* The updates of the actions.                                             *)
LEMMA FieldUpdates ==
    ASSUME NEW m \in Step, NEW a \in Steps, NEW t \in Time, NEW b \in BOOLEAN
    PROVE  /\ [m EXCEPT !.at = a] \in Step
           /\ [m EXCEPT !.at = a, !.trusted = b] \in Step
           /\ [m EXCEPT !.at = a, !.asked = t] \in Step
           /\ [m EXCEPT !.at = a, !.begun = t, !.anchored = b] \in Step
  BY DEF Step

LEMMA ListUpdate ==
    ASSUME NEW m \in Step, NEW a \in Steps, NEW l \in Time \cup {NoList}, m.point \in Point
    PROVE  [m EXCEPT !.at = a, !.list[m.point] = l] \in Step
  BY DEF Step

(* What the invariant asks of one opening.                                 *)
Sound(n) ==
    /\ n \in Step
    /\ n.at = "unborn" => n = Unopened
    /\ n.begun <= now
    /\ n.at \in {"asked", "answered"} =>
          /\ n.point \in Point /\ n.begun <= n.asked /\ n.asked <= now
          /\ now <= n.asked + Flight
    /\ n.at = "answered" =>
          /\ n.list[n.point] # NoList /\ n.asked <= n.list[n.point] /\ n.list[n.point] <= now
    /\ \A p \in Point : n.list[p] # NoList => n.list[p] + Ttl + Flight > n.begun

LEMMA OpeningsAreSound ==
    ASSUME VerdictInv, NEW o \in Opening
    PROVE  Sound(opening[o])
<1> USE DEF VerdictInv
<1>1. opening[o] \in Step
  BY DEF VerdictTypeOK, Step
<1> QED BY <1>1 DEF RequestsEnd, ListsAreRecent, Sound, OnTheLine

(* One opening takes a step that touches neither time nor cache.           *)
LEMMA StepKeeps ==
    ASSUME VerdictInv, NEW o \in Opening, NEW n, Becomes(o, n), Sound(n),
           UNCHANGED <<now, world, userKeys, crlCache, stored>>, NoTrouble \/ Trouble
    PROVE  VerdictInv'
<1> USE VerdictAssumption DEF VerdictInv, world, userKeys, crlCache
<1>1. VerdictTypeOK'
  BY DEF VerdictTypeOK, Becomes, Sound, Step, NoTrouble, Trouble
<1>2. StampsAreClose' /\ RevokedIsNotValid'
  BY DEF StampsAreClose, RevokedIsNotValid
<1>3. \A q \in Opening : Sound(opening'[q]) /\ opening' = [opening EXCEPT ![o] = n]
  BY OpeningsAreSound DEF Becomes, VerdictTypeOK
<1>4. RequestsEnd' /\ ListsAreRecent'
  BY <1>3 DEF RequestsEnd, ListsAreRecent, Sound, OnTheLine
<1> QED BY <1>1, <1>2, <1>4

-----------------------------------------------------------------------------
LEMMA TickKeeps ==
    ASSUME VerdictInv, Tick
    PROVE  VerdictInv'
<1> USE VerdictAssumption DEF VerdictInv, Tick, world, userKeys, crlCache
<1>1. VerdictTypeOK'
  BY DEF VerdictTypeOK, Time
<1>2. StampsAreClose'
  BY DEF StampsAreClose, VerdictTypeOK, Time, NoStamp
<1>3. RequestsEnd'
  <2>1. ASSUME NEW o \in Opening
        PROVE  Sound(opening[o])
    BY OpeningsAreSound
  <2>2. ASSUME NEW o \in Opening, OnTheLine(o)
        PROVE  now + 1 <= opening[o].asked + Flight
    BY <2>1, <2>2 DEF Sound, Step, Time, VerdictTypeOK
  <2> QED BY <2>1, <2>2 DEF RequestsEnd, Sound, Step, OnTheLine, Time, VerdictTypeOK, NoList
<1>4. ListsAreRecent' /\ RevokedIsNotValid'
  BY DEF ListsAreRecent, RevokedIsNotValid
<1> QED BY <1>1, <1>2, <1>3, <1>4

LEMMA DecisionKeeps ==
    ASSUME VerdictInv, UserDecides
    PROVE  VerdictInv'
<1> USE VerdictAssumption DEF VerdictInv, UserDecides, Trouble, world, crlCache
<1>1. VerdictTypeOK'
  <2>1. anchored' \in BOOLEAN /\ trusted' \in BOOLEAN
    BY Zenon DEF VerdictTypeOK
  <2> QED BY <2>1 DEF VerdictTypeOK
<1>2. StampsAreClose' /\ RequestsEnd'
  BY DEF StampsAreClose, RequestsEnd, OnTheLine
<1>3. ListsAreRecent' /\ RevokedIsNotValid'
  BY DEF ListsAreRecent, RevokedIsNotValid
<1> QED BY <1>1, <1>2, <1>3

(* An opening that failed, or is through.                                  *)
LEMMA OverIsSound == VerdictTypeOK => Sound([Unopened EXCEPT !.at = "over"])
<1> DEFINE n == [Unopened EXCEPT !.at = "over"]
<1>1. n \in Step
  BY UnopenedIsAStep DEF Step, Steps
<1>2. /\ n.at = "over" /\ n.begun = 0 /\ n.list = [p \in Point |-> NoList]
  BY DEF Unopened
<1> QED BY <1>1, <1>2, VerdictAssumption DEF Sound, VerdictTypeOK, Time

(* A list is taken up that is none, or recent enough.                      *)
LEMMA TakenIsSound ==
    ASSUME VerdictInv, NEW o \in Opening, opening[o].point \in Point,
           NEW list \in Time \cup {NoList},
           list # NoList => list + Ttl + Flight > opening[o].begun
    PROVE  Sound([opening[o] EXCEPT !.at = "lists", !.asked = 0,
                     !.list[opening[o].point] = list, !.point = @ + 1])
<1> DEFINE n == [opening[o] EXCEPT !.at = "lists", !.asked = 0,
                     !.list[opening[o].point] = list, !.point = @ + 1]
<1>1. Sound(opening[o])
  BY OpeningsAreSound
<1>2. /\ n.at = "lists" /\ n.begun = opening[o].begun /\ n.asked = 0
      /\ n.point = opening[o].point + 1 /\ n.anchored = opening[o].anchored
      /\ n.trusted = opening[o].trusted
      /\ n.list = [opening[o].list EXCEPT ![opening[o].point] = list]
  BY <1>1 DEF Sound, Step
<1>3. n \in Step
  <2>1. opening[o] \in Step /\ "lists" \in Steps
    BY <1>1 DEF Sound, Steps
  <2>2. [opening[o].list EXCEPT ![opening[o].point] = list] \in [Point -> Time \cup {NoList}]
    BY <2>1 DEF Step
  <2>3. 0 \in Time /\ opening[o].point + 1 \in 1..(LastPoint + 1)
    BY VerdictAssumption DEF Time, Point
  <2>4. n = [opening[o] EXCEPT !.at = "lists", !.asked = 0,
                !.list = [opening[o].list EXCEPT ![opening[o].point] = list],
                !.point = opening[o].point + 1]
    BY <2>1 DEF Step
  <2> QED BY <2>1, <2>2, <2>3, <2>4 DEF Step
<1>4. n.list[opening[o].point] = list
      /\ \A p \in Point : p # opening[o].point => n.list[p] = opening[o].list[p]
  BY <1>1, <1>2 DEF Sound, Step
<1> QED BY <1>1, <1>2, <1>3, <1>4 DEF Sound

LEMMA OpeningKeeps ==
    ASSUME VerdictInv, NEW o \in Opening,
           ReadAnchors(o) \/ ResolveTrust(o) \/ CacheHit(o) \/ AskPoint(o) \/ Answered(o)
    PROVE  VerdictInv'
<1>0. Sound(opening[o]) /\ Sound([Unopened EXCEPT !.at = "over"]) /\ now \in Time
  BY OpeningsAreSound, OverIsSound DEF VerdictInv, VerdictTypeOK
<1> USE VerdictAssumption DEF VerdictInv
<1>1. CASE ReadAnchors(o)
  <2> DEFINE n == [opening[o] EXCEPT !.at = "trust", !.begun = now, !.anchored = anchored]
  <2>1. opening[o] = Unopened
    BY <1>0, <1>1 DEF ReadAnchors, Sound
  <2>2. n \in Step
    BY <1>0, FieldUpdates DEF Steps, VerdictTypeOK, Sound
  <2>3. n.at = "trust" /\ n.begun = now /\ n.list = [p \in Point |-> NoList]
    BY <2>1 DEF Unopened
  <2>4. Sound(n)
    BY <1>0, <2>2, <2>3 DEF Sound, Time
  <2> QED BY <1>0, <1>1, <2>4, StepKeeps DEF ReadAnchors, Aborts
<1>2. CASE ResolveTrust(o)
  <2>1. ASSUME NEW t \in BOOLEAN
        PROVE  Sound([opening[o] EXCEPT !.at = "lists", !.trusted = t])
    BY <1>0, <1>2 DEF Sound, Step, Steps
  <2>2. Sound([opening[o] EXCEPT !.at = "lists"])
    BY <1>0, <1>2 DEF Sound, Step, Steps
  <2>3. (trusted /\ signature # "orphan") \in BOOLEAN
    OBVIOUS
  <2> QED BY <1>2, <2>1, <2>2, <2>3, StepKeeps DEF ResolveTrust
<1>3. CASE CacheHit(o)
  <2> DEFINE p == opening[o].point
  <2>1. p \in Point /\ stamped[p] # NoStamp /\ stamped[p] + Ttl > now /\ TakeUp(o, issued[p])
    BY <1>3 DEF CacheHit, is_fresh
  <2>2. /\ stamped[p] \in Time /\ issued[p] \in Time /\ opening[o].begun \in Time
        /\ opening[o].begun <= now /\ stamped[p] <= issued[p] + Flight
    BY <1>0, <2>1 DEF VerdictTypeOK, StampsAreClose, Sound, Step, NoStamp
  <2>3. issued[p] + Ttl + Flight > opening[o].begun
    BY <1>0, <2>1, <2>2 DEF Time
  <2>4. Sound([opening[o] EXCEPT !.at = "lists", !.asked = 0,
                  !.list[opening[o].point] = issued[p], !.point = @ + 1])
    BY <2>1, <2>2, <2>3, TakenIsSound
  <2> QED BY <1>3, <2>1, <2>4, StepKeeps DEF CacheHit, TakeUp, NoTrouble
<1>4. CASE AskPoint(o)
  <2> DEFINE n == [opening[o] EXCEPT !.at = "asked", !.asked = now]
  <2>1. n \in Step
    BY <1>0, FieldUpdates DEF Sound, Steps
  <2>2. /\ n.at = "asked" /\ n.asked = now /\ n.begun = opening[o].begun
        /\ n.point = opening[o].point /\ n.list = opening[o].list /\ n.point \in Point
    BY <1>0, <1>4 DEF AskPoint, Sound, Step
  <2>3. Sound(n)
    BY <1>0, <2>1, <2>2 DEF Sound, Time
  <2> QED BY <1>4, <2>3, StepKeeps DEF AskPoint
<1>5. CASE Answered(o)
  <2> DEFINE p == opening[o].point
             n == [opening[o] EXCEPT !.at = "answered", !.list[p] = now]
  <2>1. p \in Point /\ opening[o].at = "asked"
    BY <1>0, <1>5 DEF Answered, Sound
  <2>2. CASE TakeUp(o, NoList)
    <3>1. Sound([opening[o] EXCEPT !.at = "lists", !.asked = 0,
                    !.list[opening[o].point] = NoList, !.point = @ + 1])
      BY <2>1, TakenIsSound
    <3> QED BY <1>5, <2>2, <3>1, StepKeeps DEF Answered, TakeUp
  <2>3. CASE Becomes(o, n)
    <3>1. /\ n.at = "answered" /\ n.begun = opening[o].begun /\ n.point = p
          /\ n.asked = opening[o].asked /\ n.anchored = opening[o].anchored
          /\ n.trusted = opening[o].trusted
          /\ n.list = [opening[o].list EXCEPT ![p] = now]
      BY <1>0 DEF Sound, Step
    <3>2. n \in Step
      BY <1>0, <2>1, ListUpdate DEF Sound, Steps
    <3>3. n.list[p] = now /\ \A q \in Point : q # p => n.list[q] = opening[o].list[q]
      BY <1>0, <2>1, <3>1 DEF Sound, Step
    <3>4. opening[o].begun \in Time /\ opening[o].asked \in Time
      BY <1>0 DEF Sound, Step
    <3>5. Sound(n)
      BY <1>0, <2>1, <3>1, <3>2, <3>3, <3>4 DEF Sound, Time, NoList
    <3> QED BY <1>5, <2>3, <3>5, StepKeeps DEF Answered
  <2> QED BY <1>5, <2>2, <2>3 DEF Answered
<1> QED BY <1>1, <1>2, <1>3, <1>4, <1>5

(* The downloaded list is taken up and, with luck, kept.                   *)
LEMMA KeepingKeeps ==
    ASSUME VerdictInv, NEW o \in Opening, KeepList(o)
    PROVE  VerdictInv'
<1> USE VerdictAssumption DEF VerdictInv
<1> DEFINE p == opening[o].point
           list == opening[o].list[p]
           n == [opening[o] EXCEPT !.at = "lists", !.asked = 0,
                    !.list[opening[o].point] = list, !.point = @ + 1]
<1>0. Sound(opening[o]) /\ opening[o].at = "answered" /\ now \in Time
  BY OpeningsAreSound DEF KeepList, VerdictTypeOK
<1>1. /\ p \in Point /\ list \in Time /\ list # NoList /\ list <= now
      /\ opening[o].asked \in Time /\ opening[o].asked <= list /\ now <= opening[o].asked + Flight
      /\ list + Ttl + Flight > opening[o].begun
  BY <1>0 DEF Sound, Step
<1>2. Sound(n)
  BY <1>1, TakenIsSound
<1>3. opening' = [opening EXCEPT ![o] = n] /\ UNCHANGED <<now, world, userKeys, stored>>
  BY DEF KeepList, TakeUp, Becomes
<1>4. /\ issued' \in [Point -> Time \cup {NoList}] /\ stamped' \in [Point -> Time \cup {NoStamp}]
      /\ StampsAreClose'
  <2>1. CASE UNCHANGED crlCache
    BY <1>3, <2>1 DEF VerdictTypeOK, StampsAreClose, crlCache
  <2>2. CASE issued' = [issued EXCEPT ![p] = list] /\ stamped' = [stamped EXCEPT ![p] = now]
    <3>1. now <= list + Flight
      BY <1>0, <1>1 DEF Time
    <3>2. /\ issued' \in [Point -> Time \cup {NoList}]
          /\ stamped' \in [Point -> Time \cup {NoStamp}]
      BY <1>0, <1>1, <2>2 DEF VerdictTypeOK
    <3>3. \A q \in Point : IF q = p THEN issued'[q] = list /\ stamped'[q] = now
                            ELSE issued'[q] = issued[q] /\ stamped'[q] = stamped[q]
      BY <2>2 DEF VerdictTypeOK
    <3>4. ASSUME NEW q \in Point, stamped'[q] # NoStamp
          PROVE  stamped'[q] <= now /\ issued'[q] # NoList /\ stamped'[q] <= issued'[q] + Flight
      <4>1. CASE q = p
        BY <1>0, <1>1, <3>1, <3>3, <4>1 DEF Time
      <4>2. CASE q # p
        BY <3>3, <3>4, <4>2 DEF StampsAreClose
      <4> QED BY <4>1, <4>2
    <3> QED BY <1>3, <3>2, <3>4 DEF StampsAreClose
  <2> QED BY <2>1, <2>2 DEF KeepList
<1>5. VerdictTypeOK'
  <2>1. troubles' \in 0..MaxTroubles
    BY DEF KeepList, NoTrouble, Trouble, VerdictTypeOK
  <2>2. n \in Step
    BY <1>2 DEF Sound
  <2> QED BY <1>3, <1>4, <2>1, <2>2 DEF VerdictTypeOK, Step, world, userKeys
<1>6. \A q \in Opening : Sound(opening'[q])
  BY <1>2, <1>3, OpeningsAreSound DEF VerdictTypeOK
<1>7. RequestsEnd' /\ ListsAreRecent'
  BY <1>3, <1>6 DEF RequestsEnd, ListsAreRecent, Sound, OnTheLine
<1>8. RevokedIsNotValid'
  BY <1>3 DEF RevokedIsNotValid, world
<1> QED BY <1>4, <1>5, <1>7, <1>8

(* The verdict rests on the list that decides.                             *)
LEMMA StoringKeeps ==
    ASSUME VerdictInv, NEW o \in Opening, StoreVerdict(o)
    PROVE  VerdictInv'
<1> USE VerdictAssumption DEF VerdictInv
<1> DEFINE n == [Unopened EXCEPT !.at = "over"]
<1>0. Sound(opening[o]) /\ Sound(n)
  BY OpeningsAreSound, OverIsSound
<1>1. CASE UNCHANGED stored
  BY <1>0, <1>1, StepKeeps DEF StoreVerdict, Aborts
<1>2. CASE stored' = [says |-> SignatureState(o), begun |-> opening[o].begun, heard |-> Heard(o)]
           /\ opening' = [opening EXCEPT ![o] = n]
  <2>1. UNCHANGED <<now, world, userKeys, crlCache>> /\ troubles' \in 0..MaxTroubles
    BY DEF StoreVerdict, Aborts, NoTrouble, Trouble, VerdictTypeOK
  <2>2. stored'.begun = opening[o].begun /\ stored'.heard = Heard(o)
        /\ stored'.says = SignatureState(o)
    BY <1>2
  <2>3. VerdictTypeOK'
    BY <1>0, <1>2, <2>1, <2>2
       DEF VerdictTypeOK, Sound, Step, Heard, world, userKeys, crlCache
  <2>4. StampsAreClose'
    BY <2>1 DEF StampsAreClose, crlCache
  <2>5. \A q \in Opening : Sound(opening'[q])
    BY <1>0, <1>2, OpeningsAreSound DEF VerdictTypeOK
  <2>6. RequestsEnd' /\ ListsAreRecent'
    BY <2>1, <2>5 DEF RequestsEnd, ListsAreRecent, Sound, OnTheLine
  <2>7. RevokedIsNotValid'
    <3> SUFFICES ASSUME Heard(o),
                        SignatureState(o) \in {"valid-verified", "valid-unverified", "mismatch"}
                 PROVE  listedFrom + Ttl + Flight > opening[o].begun + 1
      BY <2>1, <2>2 DEF RevokedIsNotValid, world
    <3>1. ~Revoked(o)
      BY DEF SignatureState, VerdictTypeOK, Signature
    <3>2. PICK p \in Point : Decides(o, p) /\ serves[p] = "ours"
      BY DEF Heard
    <3>3. opening[o].list[p] # NoList /\ ~(opening[o].list[p] >= listedFrom)
      BY <3>1, <3>2 DEF Decides, Speaking, Revoked
    <3>4. /\ opening[o].list[p] \in Time /\ opening[o].begun \in Time
          /\ opening[o].list[p] + Ttl + Flight > opening[o].begun
      BY <1>0, <3>3 DEF Sound, Step
    <3> QED BY <3>3, <3>4 DEF VerdictTypeOK, Time, Never
  <2> QED BY <2>3, <2>4, <2>6, <2>7
<1> QED BY <1>1, <1>2 DEF StoreVerdict, Becomes

LEMMA VerdictGoesOn == VerdictInv /\ [VerdictNext]_svVars => VerdictInv'
<1> SUFFICES ASSUME VerdictInv, [VerdictNext]_svVars PROVE VerdictInv'
  OBVIOUS
<1>1. CASE UNCHANGED svVars
  BY <1>1 DEF svVars, world, userKeys, crlCache, VerdictInv, VerdictTypeOK, StampsAreClose,
              RequestsEnd, ListsAreRecent, RevokedIsNotValid, OnTheLine
<1> QED BY <1>1, TickKeeps, DecisionKeeps, OpeningKeeps, KeepingKeeps, StoringKeeps
        DEF VerdictNext

(* Types, for any number of points and openings.                           *)
THEOREM VerdictTypeCorrect == VerdictSpec => []VerdictTypeOK
<1>1. VerdictInv => VerdictTypeOK
  BY DEF VerdictInv
<1> QED BY VerdictBegins, VerdictGoesOn, <1>1, PTL DEF VerdictSpec

(* A certificate that its issuer has listed for longer than a list is kept *)
(* and a request lasts gets no valid verdict from an opening that had a    *)
(* list to go by.                                                          *)
THEOREM RevocationIsNoticed == VerdictSpec => []RevokedIsNotValid
<1>1. VerdictInv => RevokedIsNotValid
  BY DEF VerdictInv
<1> QED BY VerdictBegins, VerdictGoesOn, <1>1, PTL DEF VerdictSpec

-----------------------------------------------------------------------------
(***************************************************************************)
(* ListView: what the list shows is the folder as stored, for any folders, *)
(* threads, page size, loads at once and failures.                         *)
(*                                                                         *)
(* The argument follows the reload. As long as nothing is unannounced, no  *)
(* event or reload is on its way and nothing committed awaits its event,   *)
(* at most one load is out, for the folder shown; it either begins where   *)
(* the rows end or comes to an empty list. Then the rows are the folder's  *)
(* threads up to the cursor, less the removals shown and not yet written;  *)
(* these lie within the rows, so that neither writing one nor a page that  *)
(* is in flight meanwhile brings a row back or loses one.                  *)
(***************************************************************************)

-----------------------------------------------------------------------------
(* Numbers in order.                                                       *)

Increasing(s) == \A i, j \in 1..Len(s) : i < j => s[i] < s[j]
RowsOf(s) == {s[i] : i \in 1..Len(s)}

LEMMA Ranks ==
    ASSUME NEW S \in SUBSET Nat, IsFiniteSet(S)
    PROVE  /\ Cardinality(S) \in Nat
           /\ \A n \in S : Cardinality(UpTo(S, n)) \in 1..Cardinality(S)
           /\ \A m, n \in S : m < n => Cardinality(UpTo(S, m)) < Cardinality(UpTo(S, n))
<1>1. Cardinality(S) \in Nat
  BY FS_CardinalityType
<1>2. \A n \in S : /\ IsFiniteSet(UpTo(S, n)) /\ Cardinality(UpTo(S, n)) \in Nat
                   /\ Cardinality(UpTo(S, n)) <= Cardinality(S)
  <2> TAKE n \in S
  <2>1. UpTo(S, n) \in SUBSET S
    BY DEF UpTo
  <2> QED BY <2>1, FS_Subset, FS_CardinalityType
<1>3. \A n \in S : Cardinality(UpTo(S, n)) # 0
  <2> TAKE n \in S
  <2>1. n \in UpTo(S, n)
    BY DEF UpTo
  <2> QED BY <1>2, <2>1, FS_EmptySet
<1>4. ASSUME NEW m \in S, NEW n \in S, m < n
      PROVE  Cardinality(UpTo(S, m)) < Cardinality(UpTo(S, n))
  <2>0. m \in Nat /\ n \in Nat
    OBVIOUS
  <2>1. /\ \A k \in S : k \in Nat /\ (k <= m => k <= n)
        /\ n <= n /\ ~(n <= m)
    BY <1>4, <2>0
  <2>3. UpTo(S, m) \in SUBSET UpTo(S, n) /\ n \in UpTo(S, n) \ UpTo(S, m)
    BY <2>1 DEF UpTo
  <2>2. /\ Cardinality(UpTo(S, m)) <= Cardinality(UpTo(S, n))
        /\ Cardinality(UpTo(S, m)) # Cardinality(UpTo(S, n))
    BY <1>2, <2>3, FS_Subset
  <2> QED BY <1>2, <2>2
<1> QED BY <1>1, <1>2, <1>3, <1>4

(* Every number up to the size of a set is the rank of one of its members.  *)
LEMMA RankTaken ==
    ASSUME NEW S \in SUBSET Nat, IsFiniteSet(S), NEW i \in 1..Cardinality(S)
    PROVE  \E n \in S : Cardinality(UpTo(S, n)) = i
<1> DEFINE rank == [n \in S |-> Cardinality(UpTo(S, n))]
           size == Cardinality(S)
<1>1. size \in Nat /\ rank \in [S -> 1..size]
  BY Ranks
<1>2. \A m, n \in S : rank[m] = rank[n] => m = n
  <2> TAKE m, n \in S
  <2> HAVE rank[m] = rank[n]
  <2>1. ~(m < n) /\ ~(n < m)
    BY <1>1, Ranks
  <2>2. m \in Nat /\ n \in Nat
    OBVIOUS
  <2> QED BY <2>1, <2>2
<1>3. rank \in Injection(S, 1..size)
  BY <1>1, <1>2 DEF Injection, IsInjective
<1>4. IsFiniteSet(1..size) /\ Cardinality(1..size) = size
  BY <1>1, FS_Interval
<1>5. rank \in Surjection(S, 1..size)
  <2> HIDE DEF rank
  <2> QED BY <1>3, <1>4, FS_Injection
<1>6. \E n \in S : rank[n] = i
  <2> HIDE DEF rank
  <2> QED BY <1>5 DEF Surjection
<1> QED BY <1>6

LEMMA InOrderIs ==
    ASSUME NEW S \in SUBSET Nat, IsFiniteSet(S)
    PROVE  /\ InOrder(S) \in Seq(S) /\ Len(InOrder(S)) = Cardinality(S)
           /\ Cardinality(S) \in Nat
           /\ \A i \in 1..Cardinality(S) : /\ InOrder(S)[i] \in S
                                           /\ Cardinality(UpTo(S, InOrder(S)[i])) = i
           /\ Increasing(InOrder(S)) /\ RowsOf(InOrder(S)) = S
<1> DEFINE s == InOrder(S)
           size == Cardinality(S)
<1>1. size \in Nat
  BY Ranks
<1>2. \A i \in 1..size : s[i] \in S /\ Cardinality(UpTo(S, s[i])) = i
  <2> TAKE i \in 1..size
  <2>1. s[i] = CHOOSE n \in S : Cardinality(UpTo(S, n)) = i
    BY DEF InOrder
  <2> QED BY <2>1, RankTaken
<1>3. s \in [1..size -> S]
  BY <1>2 DEF InOrder
<1>4. s \in Seq(S) /\ Len(s) = size
  BY <1>1, <1>3, SeqDef
<1>5. Increasing(s)
  <2> SUFFICES ASSUME NEW i \in 1..size, NEW j \in 1..size, i < j PROVE s[i] < s[j]
    BY <1>4 DEF Increasing
  <2>1. s[i] \in S /\ s[j] \in S /\ s[i] \in Nat /\ s[j] \in Nat
    BY <1>2
  <2>2. Cardinality(UpTo(S, s[i])) = i /\ Cardinality(UpTo(S, s[j])) = j
    BY <1>2
  <2>3. s[i] # s[j]
    BY <2>2
  <2>4. ~(s[j] < s[i])
    <3>1. s[j] < s[i] => j < i
      BY <2>1, <2>2, Ranks
    <3> QED BY <3>1, <1>1
  <2> QED BY <2>1, <2>3, <2>4
<1>6. RowsOf(s) = S
  <2>1. RowsOf(s) \subseteq S
    BY <1>2, <1>4 DEF RowsOf
  <2>2. ASSUME NEW n \in S PROVE n \in RowsOf(s)
    <3> DEFINE i == Cardinality(UpTo(S, n))
    <3>1. i \in 1..size
      BY Ranks
    <3>2. s[i] \in S /\ Cardinality(UpTo(S, s[i])) = i
      BY <1>2, <3>1
    <3>3. ~(s[i] < n) /\ ~(n < s[i])
      <4>1. \A m, k \in S : m < k => Cardinality(UpTo(S, m)) < Cardinality(UpTo(S, k))
        BY Ranks
      <4>2. s[i] < n => i < i
        BY <3>2, <4>1
      <4>3. n < s[i] => i < i
        BY <3>2, <4>1
      <4>4. ~(i < i)
        BY <1>1, <3>1
      <4> QED BY <4>2, <4>3, <4>4
    <3>4. s[i] = n
      <4>1. s[i] \in Nat /\ n \in Nat
        BY <3>2
      <4> HIDE DEF s, i
      <4> QED BY <3>3, <4>1
    <3> QED BY <1>4, <3>1, <3>4 DEF RowsOf
  <2> QED BY <2>1, <2>2
<1> QED BY <1>1, <1>2, <1>4, <1>5, <1>6

(* The rows in order are the only increasing sequence of them.             *)
LEMMA InOrderOnly ==
    ASSUME NEW S \in SUBSET Nat, IsFiniteSet(S), NEW s \in Seq(Nat),
           Increasing(s), RowsOf(s) = S
    PROVE  s = InOrder(S)
<1> DEFINE size == Cardinality(S)
           n == Len(s)
<1>1. n \in Nat /\ DOMAIN s = 1..n /\ \A i \in 1..n : s[i] \in Nat /\ s[i] \in S
  BY LenProperties DEF RowsOf
<1>2. \A i, j \in 1..n : s[i] = s[j] => i = j
  <2> TAKE i, j \in 1..n
  <2> HAVE s[i] = s[j]
  <2>1. ~(i < j) /\ ~(j < i)
    BY <1>1 DEF Increasing
  <2> QED BY <1>1, <2>1
<1>3. \A i \in 1..n : Cardinality(UpTo(S, s[i])) = i
  <2> TAKE i \in 1..n
  <2> DEFINE upto == [j \in 1..i |-> s[j]]
             T == UpTo(S, s[i])
  <2>1. \A j \in 1..i : j \in 1..n /\ s[j] \in T
    <3> TAKE j \in 1..i
    <3>1. j \in 1..n /\ (j = i \/ j < i)
      BY <1>1
    <3>2. s[j] <= s[i]
      BY <1>1, <3>1 DEF Increasing
    <3> QED BY <1>1, <3>1, <3>2 DEF UpTo
  <2>2. \A t \in T : \E j \in 1..i : s[j] = t
    <3> TAKE t \in T
    <3>1. PICK j \in 1..n : s[j] = t
      BY DEF UpTo, RowsOf
    <3>2. ~(i < j)
      <4>1. s[j] <= s[i]
        BY <3>1 DEF UpTo
      <4>2. i < j => s[i] < s[j]
        BY DEF Increasing
      <4> QED BY <1>1, <4>1, <4>2
    <3>3. j \in 1..i
      BY <1>1, <3>2
    <3> QED BY <3>1, <3>3
  <2>3. upto \in Surjection(1..i, T)
    BY <2>1, <2>2 DEF Surjection
  <2>4. upto \in Injection(1..i, T)
    BY <1>2, <2>1 DEF Injection, IsInjective
  <2>5. IsFiniteSet(1..i) /\ Cardinality(1..i) = i
    BY <1>1, FS_Interval
  <2> HIDE DEF upto, T
  <2>6. Cardinality(T) = Cardinality(1..i)
    BY <2>3, <2>4, <2>5, FS_Surjection
  <2> QED BY <2>5, <2>6 DEF T
<1>4. n = size
  <2>1. s \in Surjection(1..n, S)
    BY <1>1 DEF Surjection, RowsOf
  <2>2. s \in Injection(1..n, S)
    BY <1>1, <1>2 DEF Injection, IsInjective
  <2>3. IsFiniteSet(1..n) /\ Cardinality(1..n) = n
    BY <1>1, FS_Interval
  <2> QED BY <2>1, <2>2, <2>3, FS_Surjection
<1>5. InOrder(S) \in Seq(Nat) /\ Len(InOrder(S)) = n
  <2>1. InOrder(S) \in Seq(S) /\ Len(InOrder(S)) = size
    BY InOrderIs
  <2> QED BY <1>4, <2>1, SeqMonotonic
<1>6. \A i \in 1..n : s[i] = InOrder(S)[i]
  <2> TAKE i \in 1..n
  <2> DEFINE m == InOrder(S)[i]
  <2>1. m \in S /\ Cardinality(UpTo(S, m)) = i
    BY <1>4, InOrderIs
  <2>2. \A a, b \in S : a < b => Cardinality(UpTo(S, a)) < Cardinality(UpTo(S, b))
    BY Ranks
  <2>3. s[i] \in S /\ Cardinality(UpTo(S, s[i])) = i
    BY <1>1, <1>3
  <2>4. ~(i < i)
    BY <1>1
  <2>5. ~(s[i] < m) /\ ~(m < s[i])
    BY <2>1, <2>2, <2>3, <2>4
  <2>6. s[i] \in Nat /\ m \in Nat
    BY <2>1, <2>3
  <2> QED BY <2>5, <2>6
<1> QED BY <1>5, <1>6, SeqEqual

LEMMA RowsLeftIs ==
    ASSUME NEW s \in Seq(Thread), NEW t
    PROVE  /\ RowsLeft(s, t) \in Seq(Thread)
           /\ RowsOf(RowsLeft(s, t)) = RowsOf(s) \ {t}
           /\ Increasing(s) => Increasing(RowsLeft(s, t))
<1> DEFINE I == {i \in 1..Len(s) : s[i] # t}
           kept == InOrder(I)
           left == RowsLeft(s, t)
<1>1. Len(s) \in Nat /\ \A i \in 1..Len(s) : s[i] \in Thread
  BY LenProperties, ElementOfSeq
<1>2. I \in SUBSET Nat /\ IsFiniteSet(I)
  <2>1. IsFiniteSet(1..Len(s))
    BY <1>1, FS_Interval
  <2> QED BY <1>1, <2>1, FS_Subset
<1>3. /\ kept \in Seq(I) /\ Increasing(kept) /\ RowsOf(kept) = I
  <2> HIDE DEF I
  <2> QED BY <1>2, InOrderIs
<1> DEFINE n == Len(kept)
<1>4. n \in Nat /\ \A k \in 1..n : kept[k] \in I
  BY <1>3, LenProperties, ElementOfSeq
<1>5. left = [k \in 1..n |-> s[kept[k]]]
  BY DEF RowsLeft
<1> HIDE DEF kept, left, n
<1>6. left \in [1..n -> Thread]
  BY <1>1, <1>4, <1>5
<1>7. left \in Seq(Thread) /\ Len(left) = n
  BY <1>4, <1>6, SeqDef
<1>8. RowsOf(left) = RowsOf(s) \ {t}
  <2>1. \A r \in RowsOf(left) : r \in RowsOf(s) \ {t}
    BY <1>4, <1>5, <1>7 DEF RowsOf
  <2>2. ASSUME NEW r \in RowsOf(s), r # t PROVE r \in RowsOf(left)
    <3>1. PICK i \in 1..Len(s) : s[i] = r
      BY <2>2 DEF RowsOf
    <3>2. i \in RowsOf(kept)
      BY <1>3, <2>2, <3>1
    <3>3. PICK k \in 1..n : kept[k] = i
      BY <3>2 DEF RowsOf, n
    <3> QED BY <1>5, <1>7, <3>1, <3>3 DEF RowsOf
  <2> QED BY <2>1, <2>2
<1>9. ASSUME Increasing(s) PROVE Increasing(left)
  <2>1. \A i, j \in 1..n : i < j => kept[i] < kept[j]
    BY <1>3 DEF Increasing, n
  <2> QED BY <1>4, <1>5, <1>7, <1>9, <2>1 DEF Increasing
<1> QED BY <1>7, <1>8, <1>9 DEF left

(* A page: the first rows beyond a cursor, and where the next begins.      *)
Covers(end, t) == end = NullCursor \/ t <= end

FirstRows(s) == IF Len(s) >= PageSize THEN SubSeq(s, 1, PageSize) ELSE s
LastRow(s) == IF Len(s) >= PageSize THEN s[PageSize] ELSE NullCursor

LEMMA PageIs ==
    ASSUME NEW S \in SUBSET Thread
    PROVE  /\ FirstRows(InOrder(S)) \in Seq(Thread)
           /\ LastRow(InOrder(S)) \in S \cup {NullCursor}
           /\ Increasing(FirstRows(InOrder(S)))
           /\ RowsOf(FirstRows(InOrder(S))) = {t \in S : Covers(LastRow(InOrder(S)), t)}
<1> DEFINE rest == InOrder(S)
           size == Len(rest)
           page == FirstRows(rest)
           next == LastRow(rest)
<1>1. S \in SUBSET Nat /\ IsFiniteSet(S) /\ NullCursor \notin S
  <2>1. IsFiniteSet(Thread) /\ Thread \subseteq Nat /\ NullCursor \notin Thread
    <3>1. 1 \in Int /\ LastThread \in Int
      BY ListAssumption
    <3>2. IsFiniteSet(Thread)
      BY <3>1, FS_Interval DEF Thread
    <3>3. Thread \subseteq Nat /\ NullCursor \notin Thread
      BY ListAssumption DEF Thread, NullCursor
    <3> QED BY <3>2, <3>3
  <2> QED BY <2>1, FS_Subset
<1>2. /\ rest \in Seq(S) /\ rest \in Seq(Thread) /\ size \in Nat
      /\ Increasing(rest) /\ RowsOf(rest) = S
  <2>1. rest \in Seq(S) /\ Increasing(rest) /\ RowsOf(rest) = S
    BY <1>1, InOrderIs
  <2> QED BY <2>1, SeqMonotonic, LenProperties
<1>3. \A i \in 1..size : rest[i] \in S /\ rest[i] \in Thread
  BY <1>2, ElementOfSeq
<1>4. CASE ~(size >= PageSize)
  <2>1. page = rest /\ next = NullCursor
    BY <1>4 DEF FirstRows, LastRow
  <2> QED BY <1>2, <2>1 DEF Covers
<1>5. CASE size >= PageSize
  <2>0. PageSize \in Nat /\ PageSize > 0 /\ size >= PageSize
    BY <1>5, ListAssumption
  <2>1. /\ PageSize \in Nat /\ PageSize > 0 /\ PageSize <= size
        /\ page = SubSeq(rest, 1, PageSize) /\ next = rest[PageSize]
    BY <1>2, <1>5, <2>0 DEF FirstRows, LastRow
  <2>2. PageSize \in 1..size /\ next \in S
    BY <1>2, <1>3, <2>1
  <2>3. \A i \in 1..PageSize : i \in 1..size /\ i \in Nat /\ 1 + i - 1 = i
    BY <1>2, <2>1
  <2>4. /\ page \in Seq(Thread) /\ Len(page) = PageSize
        /\ \A i \in 1..PageSize : page[i] = rest[i]
    <3>1. 1 \in Int /\ PageSize \in Int /\ PageSize - 1 + 1 = PageSize /\ 1 <= PageSize
          /\ \A i \in 1..PageSize : rest[i] \in Thread
      BY <1>3, <2>1, <2>3
    <3>2. /\ page \in Seq(Thread) /\ Len(page) = PageSize - 1 + 1
          /\ \A i \in 1..PageSize - 1 + 1 : page[i] = rest[1 + i - 1]
      <4> HIDE DEF rest
      <4> QED BY <2>1, <3>1, SubSeqProperties
    <3> QED BY <2>3, <3>1, <3>2
  <2>5. Increasing(page)
    BY <1>2, <2>3, <2>4 DEF Increasing
  <2>6. RowsOf(page) = {t \in S : Covers(next, t)}
    <3>1. ASSUME NEW i \in 1..PageSize
          PROVE  page[i] \in S /\ Covers(next, page[i])
      <4>1. i = PageSize \/ i < PageSize
        BY <2>1
      <4>2. rest[i] <= rest[PageSize]
        <5>1. rest[i] \in Nat /\ rest[PageSize] \in Nat
          BY <1>1, <1>3, <2>2, <2>3
        <5>2. i < PageSize => rest[i] < rest[PageSize]
          BY <1>2, <2>2, <2>3 DEF Increasing
        <5> QED BY <4>1, <5>1, <5>2
      <4> QED BY <1>3, <2>1, <2>3, <2>4, <4>2 DEF Covers
    <3>2. ASSUME NEW t \in S, Covers(next, t) PROVE t \in RowsOf(page)
      <4>1. PICK i \in 1..size : rest[i] = t
        BY <1>2 DEF RowsOf
      <4>2. t <= rest[PageSize]
        BY <1>1, <2>1, <2>2, <3>2 DEF Covers
      <4>3. ~(PageSize < i)
        <5>1. PageSize < i => rest[PageSize] < rest[i]
          BY <1>2, <2>2 DEF Increasing
        <5>2. rest[PageSize] \in Nat /\ t \in Nat
          BY <1>1, <1>3, <2>2
        <5> QED BY <4>1, <4>2, <5>1, <5>2
      <4>4. i \in 1..PageSize
        BY <1>2, <2>1, <4>3
      <4> QED BY <2>4, <4>1, <4>4 DEF RowsOf
    <3> QED BY <2>4, <3>1, <3>2 DEF RowsOf
  <2> QED BY <2>2, <2>4, <2>5, <2>6
<1> QED BY <1>4, <1>5

-----------------------------------------------------------------------------
(* The inductive invariant.                                                *)

(* The list answers for the database: no load was overtaken, no change is  *)
(* on its way to it.                                                       *)
Good == ~unsure /\ query # NoLabel /\ ~incoming.changed /\ ~announced /\ ~debounce

Pending == {r.thread : r \in removals}

(* There is at most one load under way, and it is of the folder shown.     *)
AtMostOne ==
    \A l \in Load : loads[l].at # "free" =>
        loads[l].of = query /\ \A k \in Load : loads[k].at # "free" => k = l

(* A page read is what the folder holds between two cursors.               *)
PageFits(l) ==
    /\ Increasing(loads[l].page)
    /\ RowsOf(loads[l].page) = {t \in inList[loads[l].of] :
                                  t > loads[l].from /\ Covers(loads[l].next, t)}
    /\ loads[l].next # NullCursor => loads[l].next > loads[l].from

(* The first page comes to an empty list from which nothing was removed, a *)
(* further one begins where the list ends.                                 *)
LoadFits(l) ==
    /\ loads[l].at # "free" =>
        IF loads[l].more THEN pageCursor # NullCursor /\ loads[l].from = pageCursor
        ELSE /\ shown = <<>> /\ pageCursor = NullCursor /\ removals = {}
             /\ loads[l].from = NullCursor
    /\ loads[l].at = "read" => PageFits(l)

(* The rows are the threads of the folder up to the cursor, but for those  *)
(* whose removal is not yet written.                                       *)
LoadsAnew == \E l \in Load : loads[l].at # "free" /\ ~loads[l].more
ShownFits ==
    /\ Increasing(shown)
    /\ RowsOf(shown) = {t \in inList[query] : Covers(pageCursor, t)} \ Pending

(* What is removed lies within the rows shown and leaves the folder.       *)
RemovalsFit == \A r \in removals : r.to # query /\ Covers(pageCursor, r.thread)

DeltaFits ==
    /\ applying = "rest" => ~incoming.changed
    /\ applying # "rest" => incoming.of \in Labels
LoadsNamed == \A l \in Load : loads[l].at # "free" => loads[l].of \in Labels
ListFits ==
    Good => /\ AtMostOne /\ RemovalsFit
            /\ \A l \in Load : LoadFits(l)
            /\ ~LoadsAnew => ShownFits

ListInv == ListTypeOK /\ DeltaFits /\ LoadsNamed /\ ListFits

LoadRecord == [at : {"free", "asked", "read"}, more : BOOLEAN,
               of : Labels \cup {NoLabel}, from : Thread \cup {NullCursor},
               page : Seq(Thread), next : Thread \cup {NullCursor}]
ViewTypes ==
    /\ shown \in Seq(Thread) /\ pageCursor \in Thread \cup {NullCursor}
    /\ query \in Labels \cup {NoLabel}
    /\ isLoading \in BOOLEAN /\ debounce \in BOOLEAN
    /\ loads \in [Load -> LoadRecord]
DeltaRecord == [of : Labels \cup {NoLabel}, wipe : BOOLEAN,
                added : SUBSET Thread, gone : SUBSET Thread,
                deleted : 0..LastThread, changed : BOOLEAN]
FolderTypes ==
    /\ inList \in [Labels -> SUBSET Thread] /\ announced \in BOOLEAN
    /\ applying \in {"rest", "wipe", "upsert", "vanish", "emit"}
    /\ incoming \in DeltaRecord
    /\ removals \subseteq [thread : Thread, to : Labels \cup {NoLabel}]
    /\ unsure \in BOOLEAN
    /\ turns \in 0..MaxTurns

LEMMA ListTypes == ListTypeOK <=> ViewTypes /\ FolderTypes
  BY DEF ListTypeOK, ViewTypes, FolderTypes, LoadRecord, DeltaRecord

LEMMA NumbersAre ==
    /\ LastThread \in Nat /\ Thread \subseteq Nat /\ NullCursor \notin Thread
    /\ IsFiniteSet(Thread) /\ Cardinality(Thread) = LastThread
    /\ \A t \in Thread : t > NullCursor
<1>1. LastThread \in Nat /\ LastThread > 0 /\ 1 \in Int /\ LastThread \in Int
  BY ListAssumption
<1>2. IsFiniteSet(1..LastThread)
      /\ Cardinality(1..LastThread) = IF 1 > LastThread THEN 0 ELSE LastThread - 1 + 1
  BY <1>1, FS_Interval
<1> QED BY <1>1, <1>2 DEF Thread, NullCursor

LEMMA TurnTypes == ASSUME FolderTypes, Turn \/ UNCHANGED turns PROVE turns' \in 0..MaxTurns
<1>1. MaxTurns \in Nat
  BY ListAssumption
<1> QED BY <1>1 DEF FolderTypes, Turn

LEMMA NoLoadIs ==
    /\ NoLoad \in LoadRecord /\ NoLoad.at = "free" /\ ~NoLoad.more
    /\ NoLoad.from = NullCursor
<1>1. <<>> \in Seq(Thread)
  OBVIOUS
<1> QED BY <1>1 DEF NoLoad, LoadRecord

LEMMA AskedIs ==
    ASSUME NEW f \in Labels, NEW r, r = [NoLoad EXCEPT !.at = "asked", !.of = f]
    PROVE  /\ r \in LoadRecord /\ r.at = "asked" /\ r.of = f /\ ~r.more
           /\ r.from = NullCursor
BY NoLoadIs DEF LoadRecord

-----------------------------------------------------------------------------
(* The loads.                                                              *)

LEMMA LoadThreadsStep ==
    ASSUME ListInv, NEW l \in Load, NEW f \in Labels, LoadThreads(l, f),
           UNCHANGED <<inList, announced, applying, incoming, removals>>,
           debounce' \in BOOLEAN, Turn \/ UNCHANGED turns
    PROVE  ListInv'
<1> DEFINE r == [NoLoad EXCEPT !.at = "asked", !.of = f]
<1>1. ViewTypes /\ FolderTypes
  BY ListTypes DEF ListInv
<1>2. /\ loads' = [loads EXCEPT ![l] = r]
      /\ isLoading' = TRUE /\ query' = f /\ shown' = <<>> /\ pageCursor' = NullCursor
      /\ unsure' = ~(NoneUnderWay /\ removals = {})
  BY DEF LoadThreads
<1>3. r \in LoadRecord /\ r.at = "asked" /\ r.of = f /\ ~r.more /\ r.from = NullCursor
  <2> HIDE DEF r
  <2> QED BY AskedIs DEF r
<1> HIDE DEF r
<1>4. loads' \in [Load -> LoadRecord] /\ \A k \in Load : loads'[k] = IF k = l THEN r ELSE loads[k]
  BY <1>1, <1>2, <1>3 DEF ViewTypes
<1>5. ViewTypes'
  <2>1. <<>> \in Seq(Thread)
    OBVIOUS
  <2> QED BY <1>2, <1>4, <2>1 DEF ViewTypes
<1>6. FolderTypes'
  <2>1. unsure' \in BOOLEAN /\ turns' \in 0..MaxTurns
    BY <1>1, <1>2, TurnTypes
  <2> QED BY <1>1, <2>1 DEF FolderTypes
<1>7. DeltaFits' /\ LoadsNamed'
  BY <1>3, <1>4 DEF ListInv, DeltaFits, LoadsNamed
<1>8. ASSUME Good' PROVE (AtMostOne /\ RemovalsFit /\ \A k \in Load : LoadFits(k))' /\ LoadsAnew'
  <2>1. NoneUnderWay /\ removals = {}
    BY <1>2, <1>8 DEF Good
  <2>2. \A k \in Load : loads'[k].at # "free" => k = l
    BY <1>4, <2>1 DEF NoneUnderWay
  <2>3. AtMostOne'
    BY <1>2, <1>3, <1>4, <2>2 DEF AtMostOne
  <2>4. RemovalsFit'
    BY <2>1 DEF RemovalsFit
  <2>5. ASSUME NEW k \in Load PROVE LoadFits(k)'
    BY <1>2, <1>3, <1>4, <2>1, <2>2 DEF LoadFits
  <2>6. LoadsAnew'
    BY <1>3, <1>4 DEF LoadsAnew
  <2> QED BY <2>3, <2>4, <2>5, <2>6
<1>9. ListFits'
  BY <1>8 DEF ListFits
<1>10. ListTypeOK'
  BY <1>5, <1>6 DEF ListTypeOK, ViewTypes, FolderTypes, LoadRecord, DeltaRecord
<1> QED BY <1>7, <1>9, <1>10 DEF ListInv

LEMMA CloseFolderStep ==
    ASSUME ListInv, CloseFolder
    PROVE  ListInv'
<1>1. ViewTypes /\ FolderTypes
  BY ListTypes DEF ListInv
<1>2. ViewTypes'
  <2>1. <<>> \in Seq(Thread)
    OBVIOUS
  <2> QED BY <1>1, <2>1 DEF CloseFolder, ViewTypes
<1>3. FolderTypes'
  <2>1. turns' \in 0..MaxTurns
    BY <1>1, TurnTypes DEF CloseFolder
  <2> QED BY <1>1, <2>1 DEF CloseFolder, FolderTypes
<1>4. DeltaFits' /\ LoadsNamed' /\ ListFits'
  BY DEF CloseFolder, ListInv, DeltaFits, LoadsNamed, ListFits, Good
<1>5. ListTypeOK'
  BY <1>2, <1>3 DEF ListTypeOK, ViewTypes, FolderTypes, LoadRecord, DeltaRecord
<1> QED BY <1>4, <1>5 DEF ListInv

LEMMA LoadMoreStep ==
    ASSUME ListInv, NEW l \in Load, LoadMore(l)
    PROVE  ListInv'
<1> DEFINE r == [NoLoad EXCEPT !.at = "asked", !.more = TRUE, !.of = query,
                               !.from = pageCursor]
<1>1. ViewTypes /\ FolderTypes
  BY ListTypes DEF ListInv
<1>2. /\ loads' = [loads EXCEPT ![l] = r] /\ isLoading' = TRUE
      /\ unsure' = (unsure \/ ~NoneUnderWay)
      /\ query # NoLabel /\ pageCursor # NullCursor
      /\ UNCHANGED <<inList, shown, pageCursor, query, debounce, announced, applying,
                     incoming, removals, turns>>
  BY DEF LoadMore, MayLoadMore
<1>3. query \in Labels /\ pageCursor \in Thread \cup {NullCursor}
  BY <1>1, <1>2 DEF ViewTypes
<1>4. r \in LoadRecord /\ r.at = "asked" /\ r.of = query /\ r.more /\ r.from = pageCursor
  BY <1>3, NoLoadIs DEF LoadRecord
<1> HIDE DEF r
<1>5. loads' \in [Load -> LoadRecord] /\ \A k \in Load : loads'[k] = IF k = l THEN r ELSE loads[k]
  BY <1>1, <1>2, <1>4 DEF ViewTypes
<1>6. ListTypeOK'
  <2>1. ViewTypes'
    BY <1>1, <1>2, <1>5 DEF ViewTypes
  <2>2. FolderTypes'
    BY <1>1, <1>2 DEF FolderTypes
  <2> QED BY <2>1, <2>2 DEF ListTypeOK, ViewTypes, FolderTypes, LoadRecord, DeltaRecord
<1>7. DeltaFits' /\ LoadsNamed'
  BY <1>2, <1>3, <1>4, <1>5 DEF ListInv, DeltaFits, LoadsNamed
<1>8. ListFits'
  <2> SUFFICES ASSUME Good'
               PROVE  (AtMostOne /\ RemovalsFit /\ (\A k \in Load : LoadFits(k)) /\ ShownFits)'
    BY DEF ListFits
  <2>1. Good /\ NoneUnderWay
    BY <1>2 DEF Good
  <2>2. RemovalsFit /\ ShownFits
    BY <2>1 DEF ListInv, ListFits, LoadsAnew, NoneUnderWay
  <2>3. \A k \in Load : loads'[k].at # "free" => k = l
    BY <1>5, <2>1 DEF NoneUnderWay
  <2>4. AtMostOne'
    BY <1>2, <1>4, <1>5, <2>3 DEF AtMostOne
  <2>5. ASSUME NEW k \in Load PROVE LoadFits(k)'
    BY <1>2, <1>4, <1>5, <2>3 DEF LoadFits
  <2>6. RemovalsFit' /\ ShownFits'
    BY <1>2, <2>2 DEF RemovalsFit, ShownFits, Pending
  <2> QED BY <2>4, <2>5, <2>6
<1> QED BY <1>6, <1>7, <1>8 DEF ListInv

LEMMA ReadPageStep ==
    ASSUME ListInv, NEW l \in Load, ReadPage(l)
    PROVE  ListInv'
<1> DEFINE S == {t \in inList[loads[l].of] : Beyond(loads[l].from, t)}
           full == Len(InOrder(S)) >= PageSize
           page == IF full THEN SubSeq(InOrder(S), 1, PageSize) ELSE InOrder(S)
           next == IF full THEN InOrder(S)[PageSize] ELSE NullCursor
           r == [loads[l] EXCEPT !.at = "read", !.page = page, !.next = next]
<1>1. ViewTypes /\ FolderTypes
  BY ListTypes DEF ListInv
<1>2. /\ loads[l].at = "asked" /\ loads' = [loads EXCEPT ![l] = r]
      /\ UNCHANGED <<inList, listStore, debounce, announced, applying, incoming,
                     removals, unsure, turns>>
  BY DEF ReadPage
<1>3. loads[l] \in LoadRecord /\ loads[l].of \in Labels
  BY <1>1, <1>2 DEF ViewTypes, ListInv, LoadsNamed
<1>4. S \in SUBSET Thread /\ \A t \in S : t > loads[l].from
  BY <1>1, <1>3 DEF FolderTypes, Beyond
<1>5. /\ page \in Seq(Thread) /\ next \in Thread \cup {NullCursor}
      /\ Increasing(page) /\ RowsOf(page) = {t \in S : Covers(next, t)}
      /\ next # NullCursor => next > loads[l].from
  <2>1. page = FirstRows(InOrder(S)) /\ next = LastRow(InOrder(S))
    BY DEF FirstRows, LastRow
  <2>2. /\ page \in Seq(Thread) /\ next \in S \cup {NullCursor}
        /\ Increasing(page) /\ RowsOf(page) = {t \in S : Covers(next, t)}
    <3> HIDE DEF S, full, page, next
    <3> QED BY <1>4, <2>1, PageIs
  <2> HIDE DEF S, full, page, next
  <2> QED BY <1>4, <2>2
<1>6. /\ r \in LoadRecord /\ r.at = "read" /\ r.of = loads[l].of /\ r.more = loads[l].more
      /\ r.from = loads[l].from /\ r.page = page /\ r.next = next
  <2> HIDE DEF page, next
  <2> QED BY <1>3, <1>5 DEF LoadRecord
<1>7. RowsOf(page) = {t \in inList[loads[l].of] : t > loads[l].from /\ Covers(next, t)}
  <2> HIDE DEF page, next
  <2> QED BY <1>5 DEF Beyond
<1> HIDE DEF S, page, next, r
<1>8. loads' \in [Load -> LoadRecord] /\ \A k \in Load : loads'[k] = IF k = l THEN r ELSE loads[k]
  BY <1>1, <1>2, <1>6 DEF ViewTypes
<1>9. ListTypeOK'
  <2>1. ViewTypes'
    BY <1>1, <1>2, <1>8 DEF ViewTypes, listStore
  <2>2. FolderTypes'
    BY <1>1, <1>2 DEF FolderTypes
  <2> QED BY <2>1, <2>2 DEF ListTypeOK, ViewTypes, FolderTypes, LoadRecord, DeltaRecord
<1>10. DeltaFits' /\ LoadsNamed'
  BY <1>2, <1>3, <1>6, <1>8 DEF ListInv, DeltaFits, LoadsNamed
<1>11. ListFits'
  <2> SUFFICES ASSUME Good'
               PROVE  (/\ AtMostOne /\ RemovalsFit /\ (\A k \in Load : LoadFits(k))
                       /\ ~LoadsAnew => ShownFits)'
    BY DEF ListFits
  <2>1. Good
    BY <1>2 DEF Good, listStore
  <2>2. /\ AtMostOne /\ RemovalsFit /\ (\A k \in Load : LoadFits(k))
        /\ ~LoadsAnew => ShownFits
    BY <2>1 DEF ListInv, ListFits
  <2>3. AtMostOne'
    BY <1>2, <1>6, <1>8, <2>2 DEF AtMostOne, listStore
  <2>4. RemovalsFit' /\ (ShownFits' <=> ShownFits)
    BY <1>2, <2>2 DEF RemovalsFit, ShownFits, Pending, listStore
  <2>5. LoadFits(l)'
    <3>1. PageFits(l)'
      BY <1>2, <1>5, <1>6, <1>7, <1>8 DEF PageFits
    <3>2. loads'[l] = r /\ LoadFits(l)
      BY <1>8, <2>2
    <3> QED BY <1>2, <1>6, <3>1, <3>2 DEF LoadFits, listStore
  <2>6. ASSUME NEW k \in Load, k # l PROVE LoadFits(k)'
    BY <1>2, <1>8, <2>2, <2>6 DEF LoadFits, PageFits, listStore
  <2>7. LoadsAnew' <=> LoadsAnew
    BY <1>2, <1>6, <1>8 DEF LoadsAnew
  <2> QED BY <2>2, <2>3, <2>4, <2>5, <2>6, <2>7
<1> QED BY <1>9, <1>10, <1>11 DEF ListInv


LEMMA RowsJoined ==
    ASSUME NEW s \in Seq(Thread), NEW u \in Seq(Thread)
    PROVE  /\ s \o u \in Seq(Thread) /\ RowsOf(s \o u) = RowsOf(s) \cup RowsOf(u)
           /\ /\ Increasing(s) /\ Increasing(u)
              /\ \A x \in RowsOf(s), y \in RowsOf(u) : x < y
              => Increasing(s \o u)
<1> DEFINE m == Len(s)
           n == Len(u)
<1>1. m \in Nat /\ n \in Nat
  BY LenProperties
<1>2. /\ s \o u \in Seq(Thread) /\ Len(s \o u) = m + n
      /\ \A i \in 1..m : (s \o u)[i] = s[i]
      /\ \A i \in m+1..m+n : (s \o u)[i] = u[i - m] /\ i - m \in 1..n
  <2>1. /\ s \o u \in Seq(Thread) /\ Len(s \o u) = m + n
        /\ \A i \in 1..m + n : (s \o u)[i] = IF i <= m THEN s[i] ELSE u[i - m]
    BY ConcatProperties
  <2> QED BY <1>1, <2>1
<1>3. \A i \in 1..m+n : i \in 1..m \/ i \in m+1..m+n
  BY <1>1
<1>4. \A i \in 1..m : s[i] \in RowsOf(s) /\ i \in 1..m+n
  BY <1>1 DEF RowsOf
<1>5. \A i \in 1..n : u[i] \in RowsOf(u) /\ m + i \in m+1..m+n /\ m + i - m = i
                      /\ m + i \in 1..m+n
  BY <1>1 DEF RowsOf
<1> DEFINE w == s \o u
<1>6. /\ w \in Seq(Thread) /\ Len(w) = m + n /\ \A i \in 1..m : w[i] = s[i]
      /\ \A i \in m+1..m+n : w[i] = u[i - m] /\ i - m \in 1..n
  BY <1>2
<1> HIDE DEF w
<1>7. RowsOf(w) = RowsOf(s) \cup RowsOf(u)
  <2>1. ASSUME NEW r \in RowsOf(w) PROVE r \in RowsOf(s) \cup RowsOf(u)
    <3>1. PICK i \in 1..m+n : r = w[i]
      BY <1>6 DEF RowsOf
    <3>2. CASE i \in 1..m
      BY <1>4, <1>6, <3>1, <3>2
    <3>3. CASE i \in m+1..m+n
      <4>1. i - m \in 1..n /\ r = u[i - m]
        BY <1>6, <3>1, <3>3
      <4> QED BY <1>5, <4>1
    <3> QED BY <1>3, <3>2, <3>3
  <2>2. \A r \in RowsOf(s) : r \in RowsOf(w)
    BY <1>4, <1>6 DEF RowsOf
  <2>3. ASSUME NEW r \in RowsOf(u) PROVE r \in RowsOf(w)
    <3>1. PICK i \in 1..n : r = u[i]
      BY DEF RowsOf
    <3>2. w[m + i] = r /\ m + i \in 1..m+n
      <4> DEFINE k == m + i
      <4>1. k \in m+1..m+n /\ k - m = i /\ k \in 1..m+n
        BY <1>5
      <4> HIDE DEF k
      <4>2. w[k] = u[k - m]
        BY <1>6, <4>1
      <4> QED BY <3>1, <4>1, <4>2 DEF k
    <3> QED BY <1>6, <3>2 DEF RowsOf
  <2> QED BY <2>1, <2>2, <2>3
<1>8. ASSUME Increasing(s), Increasing(u), \A x \in RowsOf(s), y \in RowsOf(u) : x < y
      PROVE  Increasing(w)
  <2> SUFFICES ASSUME NEW i \in 1..m+n, NEW j \in 1..m+n, i < j PROVE w[i] < w[j]
    BY <1>6 DEF Increasing
  <2>1. CASE j \in 1..m
    <3>1. i \in 1..m
      BY <1>1, <2>1
    <3> QED BY <1>6, <1>8, <2>1, <3>1 DEF Increasing
  <2>2. CASE i \in 1..m /\ j \in m+1..m+n
    BY <1>4, <1>5, <1>6, <1>8, <2>2
  <2>3. CASE i \in m+1..m+n /\ j \in m+1..m+n
    <3>1. i - m \in 1..n /\ j - m \in 1..n /\ i - m < j - m
      BY <1>1, <2>3
    <3> QED BY <1>6, <1>8, <2>3, <3>1 DEF Increasing
  <2> QED BY <1>1, <1>3, <2>1, <2>2, <2>3
<1> QED BY <1>6, <1>7, <1>8 DEF w

LEMMA TakePageStep ==
    ASSUME ListInv, NEW l \in Load, TakePage(l)
    PROVE  ListInv'
<1> DEFINE page == loads[l].page
           next == loads[l].next
<1>1. ViewTypes /\ FolderTypes
  BY ListTypes DEF ListInv
<1>2. /\ loads[l].at = "read"
      /\ shown' = (IF loads[l].more THEN shown ELSE <<>>) \o page
      /\ pageCursor' = next /\ isLoading' = FALSE
      /\ loads' = [loads EXCEPT ![l] = NoLoad]
      /\ UNCHANGED <<inList, query, debounce, announced, applying, incoming,
                     removals, unsure, turns>>
  BY DEF TakePage
<1>3. /\ loads[l] \in LoadRecord /\ loads[l].of \in Labels
      /\ page \in Seq(Thread) /\ next \in Thread \cup {NullCursor}
      /\ <<>> \in Seq(Thread) /\ <<>> \o page = page
  <2>1. loads[l] \in LoadRecord /\ loads[l].of \in Labels
    BY <1>1, <1>2 DEF ViewTypes, ListInv, LoadsNamed
  <2>2. page \in Seq(Thread) /\ next \in Thread \cup {NullCursor}
    BY <2>1 DEF LoadRecord
  <2> QED BY <2>1, <2>2, ConcatEmptySeq
<1>4. loads' \in [Load -> LoadRecord] /\ \A k \in Load : loads'[k] = IF k = l THEN NoLoad ELSE loads[k]
  BY <1>1, <1>2, NoLoadIs DEF ViewTypes
<1>5. ListTypeOK'
  <2>1. shown' \in Seq(Thread)
    BY <1>1, <1>2, <1>3, RowsJoined DEF ViewTypes
  <2>2. ViewTypes'
    BY <1>1, <1>2, <1>3, <1>4, <2>1 DEF ViewTypes
  <2>3. FolderTypes'
    BY <1>1, <1>2 DEF FolderTypes
  <2> QED BY <2>2, <2>3 DEF ListTypeOK, ViewTypes, FolderTypes, LoadRecord, DeltaRecord
<1>6. DeltaFits' /\ LoadsNamed'
  BY <1>2, <1>4, NoLoadIs DEF ListInv, DeltaFits, LoadsNamed
<1>7. ListFits'
  <2> SUFFICES ASSUME Good'
               PROVE  (AtMostOne /\ RemovalsFit /\ (\A k \in Load : LoadFits(k)) /\ ShownFits)'
    BY DEF ListFits
  <2>1. Good
    BY <1>2 DEF Good
  <2>2. /\ AtMostOne /\ RemovalsFit /\ LoadFits(l)
        /\ ~LoadsAnew => ShownFits
    BY <2>1 DEF ListInv, ListFits
  <2>3. \A k \in Load : loads'[k].at = "free"
    BY <1>2, <1>4, <2>2, NoLoadIs DEF AtMostOne
  <2>4. AtMostOne' /\ \A k \in Load : LoadFits(k)'
    BY <2>3 DEF AtMostOne, LoadFits
  <2>5. loads[l].of = query /\ query \in Labels
    BY <1>2, <1>3, <2>2 DEF AtMostOne
  <2>6. /\ Increasing(page)
        /\ RowsOf(page) = {t \in inList[query] : t > loads[l].from /\ Covers(next, t)}
        /\ next # NullCursor => next > loads[l].from
    BY <1>2, <2>2, <2>5 DEF LoadFits, PageFits
  <2>7. inList[query] \subseteq Nat /\ pageCursor \in Nat /\ next \in Nat
        /\ \A t \in inList[query] : t > NullCursor
    <3>1. inList[query] \subseteq Thread
      BY <1>1, <2>5 DEF FolderTypes
    <3>2. pageCursor \in Thread \cup {NullCursor} /\ NullCursor \in Nat
      BY <1>1 DEF ViewTypes, NullCursor
    <3> QED BY <1>3, <3>1, <3>2, NumbersAre
  <2>8. CASE loads[l].more
    <3>1. pageCursor # NullCursor /\ loads[l].from = pageCursor
      BY <1>2, <2>2, <2>8 DEF LoadFits
    <3>2. ~LoadsAnew
      BY <1>2, <2>2, <2>8 DEF LoadsAnew, AtMostOne
    <3>3. Increasing(shown)
          /\ RowsOf(shown) = {t \in inList[query] : t <= pageCursor} \ Pending
      BY <2>2, <3>1, <3>2 DEF ShownFits, Covers
    <3>4. RowsOf(page) = {t \in inList[query] : t > pageCursor /\ Covers(next, t)}
          /\ (next # NullCursor => next > pageCursor)
      BY <2>6, <3>1
    <3>5. \A x \in RowsOf(shown), y \in RowsOf(page) : x < y
      BY <2>7, <3>3, <3>4
    <3>6. \A t \in Pending : t <= pageCursor /\ t \in Nat
      <4>1. \A r \in removals : r.thread \in Thread
        BY <1>1 DEF FolderTypes
      <4>2. \A r \in removals : r.thread <= pageCursor
        BY <2>2, <3>1 DEF RemovalsFit, Covers
      <4> QED BY <4>1, <4>2, NumbersAre DEF Pending
    <3> HIDE DEF page, next
    <3>7. shown \in Seq(Thread)
      BY <1>1 DEF ViewTypes
    <3>8. /\ Increasing(shown') /\ RowsOf(shown') = RowsOf(shown) \cup RowsOf(page)
      BY <1>2, <1>3, <2>6, <2>8, <3>3, <3>5, <3>7, RowsJoined
    <3>9. \A t \in Nat : t <= pageCursor => Covers(next, t)
      BY <2>7, <3>4 DEF Covers
    <3>10. ShownFits'
      <4>1. \A t \in inList[query] : Covers(next, t) <=> t <= pageCursor \/ (t > pageCursor /\ Covers(next, t))
        BY <2>7, <3>9
      <4>2. \A t \in inList[query] : t > pageCursor => t \notin Pending
        BY <2>7, <3>6
      <4>3. RowsOf(shown') = {t \in inList[query] : Covers(next, t)} \ Pending
        BY <3>3, <3>4, <3>8, <4>1, <4>2
      <4> QED BY <1>2, <3>8, <4>3 DEF ShownFits, Pending
    <3>11. RemovalsFit'
      <4>1. \A r \in removals : Covers(next, r.thread)
        BY <3>6, <3>9 DEF Pending
      <4> QED BY <1>2, <2>2, <4>1 DEF RemovalsFit
    <3> QED BY <2>4, <3>10, <3>11
  <2>9. CASE ~loads[l].more
    <3>1. removals = {} /\ loads[l].from = NullCursor
      BY <1>2, <2>2, <2>9 DEF LoadFits
    <3>2. shown' = page
      BY <1>2, <1>3, <2>9
    <3>3. RowsOf(page) = {t \in inList[query] : Covers(next, t)}
      BY <2>6, <2>7, <3>1
    <3> HIDE DEF page, next
    <3>4. ShownFits' /\ RemovalsFit'
      BY <1>2, <2>6, <3>1, <3>2, <3>3 DEF ShownFits, RemovalsFit, Pending
    <3> QED BY <2>4, <3>4
  <2> QED BY <2>8, <2>9
<1> QED BY <1>5, <1>6, <1>7 DEF ListInv


(* The list and what is on its way to it are as they were.                 *)
LEMMA SameListKeeps ==
    ASSUME ListInv, Good,
           UNCHANGED <<inList, shown, pageCursor, query, loads, removals>>
    PROVE  ListFits'
<1>1. AtMostOne /\ RemovalsFit /\ (\A l \in Load : LoadFits(l)) /\ (~LoadsAnew => ShownFits)
  BY DEF ListInv, ListFits
<1>2. AtMostOne' /\ RemovalsFit' /\ (ShownFits' <=> ShownFits) /\ (LoadsAnew' <=> LoadsAnew)
  BY <1>1 DEF AtMostOne, RemovalsFit, ShownFits, LoadsAnew, Pending
<1>3. \A l \in Load : LoadFits(l)'
  BY <1>1 DEF LoadFits, PageFits
<1> QED BY <1>1, <1>2, <1>3 DEF ListFits

LEMMA LoadFailsStep ==
    ASSUME ListInv, NEW l \in Load, LoadFails(l)
    PROVE  ListInv'
<1>1. ViewTypes /\ FolderTypes
  BY ListTypes DEF ListInv
<1>2. /\ Turn /\ isLoading' = FALSE /\ loads' = [loads EXCEPT ![l] = NoLoad]
      /\ loads[l].at = "asked" /\ unsure' = (unsure \/ ~loads[l].more)
      /\ UNCHANGED <<inList, shown, pageCursor, query, debounce, announced, applying,
                     incoming, removals>>
  BY DEF LoadFails
<1>3. loads' \in [Load -> LoadRecord] /\ \A k \in Load : loads'[k] = IF k = l THEN NoLoad ELSE loads[k]
  BY <1>1, <1>2, NoLoadIs DEF ViewTypes
<1>4. ListTypeOK'
  <2>1. ViewTypes'
    BY <1>1, <1>2, <1>3 DEF ViewTypes
  <2>2. unsure' \in BOOLEAN /\ turns' \in 0..MaxTurns
    BY <1>1, <1>2, TurnTypes
  <2>3. FolderTypes'
    BY <1>1, <1>2, <2>2 DEF FolderTypes
  <2> QED BY <2>1, <2>3 DEF ListTypeOK, ViewTypes, FolderTypes, LoadRecord, DeltaRecord
<1>5. DeltaFits' /\ LoadsNamed'
  BY <1>2, <1>3, NoLoadIs DEF ListInv, DeltaFits, LoadsNamed
<1>6. ListFits'
  <2> SUFFICES ASSUME Good'
               PROVE  (AtMostOne /\ RemovalsFit /\ (\A k \in Load : LoadFits(k)) /\ ShownFits)'
    BY DEF ListFits
  <2>1. Good /\ loads[l].more
    BY <1>2 DEF Good
  <2>2. AtMostOne /\ RemovalsFit /\ (~LoadsAnew => ShownFits)
    BY <2>1 DEF ListInv, ListFits
  <2>3. \A k \in Load : loads'[k].at = "free" /\ (loads[k].at # "free" => k = l)
    BY <1>2, <1>3, <2>2, NoLoadIs DEF AtMostOne
  <2>4. AtMostOne' /\ \A k \in Load : LoadFits(k)'
    BY <2>3 DEF AtMostOne, LoadFits
  <2>5. ShownFits
    BY <2>1, <2>2, <2>3 DEF LoadsAnew
  <2>6. RemovalsFit' /\ ShownFits'
    BY <1>2, <2>2, <2>5 DEF RemovalsFit, ShownFits, Pending
  <2> QED BY <2>4, <2>6
<1> QED BY <1>4, <1>5, <1>6 DEF ListInv

-----------------------------------------------------------------------------
(* The events.                                                             *)

LEMMA HearDeltaStep ==
    ASSUME ListInv, HearDelta
    PROVE  ListInv'
<1>1. ViewTypes /\ FolderTypes
  BY ListTypes DEF ListInv
<1>2. /\ announced' = FALSE /\ debounce' = (debounce \/ query # NoLabel)
      /\ UNCHANGED <<inList, listStore, loads, applying, incoming, removals, unsure, turns>>
  BY DEF HearDelta
<1>3. ListTypeOK'
  <2>1. ViewTypes'
    BY <1>1, <1>2 DEF ViewTypes, listStore
  <2>2. FolderTypes'
    BY <1>1, <1>2 DEF FolderTypes
  <2> QED BY <2>1, <2>2 DEF ListTypeOK, ViewTypes, FolderTypes, LoadRecord, DeltaRecord
<1>4. DeltaFits' /\ LoadsNamed'
  BY <1>2 DEF ListInv, DeltaFits, LoadsNamed
<1>5. ~Good'
  BY <1>2 DEF Good, listStore
<1> QED BY <1>3, <1>4, <1>5 DEF ListInv, ListFits

LEMMA DebounceOverStep ==
    ASSUME ListInv, DebounceOver
    PROVE  ListInv'
<1>1. ViewTypes /\ FolderTypes
  BY ListTypes DEF ListInv
<1>2. debounce' = FALSE /\ UNCHANGED <<inList, announced, applying, incoming, removals, turns>>
  BY DEF DebounceOver
<1>3. CASE query = NoLabel
  <2>1. UNCHANGED <<listStore, loads, unsure>>
    BY <1>3 DEF DebounceOver
  <2>2. ViewTypes'
    BY <1>1, <1>2, <2>1 DEF ViewTypes, listStore
  <2>3. FolderTypes'
    BY <1>1, <1>2, <2>1 DEF FolderTypes
  <2>4. ListTypeOK'
    BY <2>2, <2>3 DEF ListTypeOK, ViewTypes, FolderTypes, LoadRecord, DeltaRecord
  <2>5. DeltaFits' /\ LoadsNamed'
    BY <1>2, <2>1 DEF ListInv, DeltaFits, LoadsNamed
  <2>6. ~Good'
    BY <1>3, <2>1 DEF Good, listStore
  <2> QED BY <2>4, <2>5, <2>6 DEF ListInv, ListFits
<1>4. CASE query # NoLabel
  <2>1. query \in Labels
    BY <1>1, <1>4 DEF ViewTypes
  <2>2. PICK l \in Load : LoadThreads(l, query)
    BY <1>4 DEF DebounceOver
  <2> QED BY <1>2, <2>1, <2>2, LoadThreadsStep
<1> QED BY <1>3, <1>4

-----------------------------------------------------------------------------
(* Moves and deletions.                                                    *)

LEMMA RemoveRowStep ==
    ASSUME ListInv, NEW t \in Thread, NEW to \in Labels \cup {NoLabel}, RemoveRow(t, to)
    PROVE  ListInv'
<1> DEFINE r == [thread |-> t, to |-> to]
<1>1. ViewTypes /\ FolderTypes
  BY ListTypes DEF ListInv
<1>2. /\ Turn /\ t \in RowsOf(shown) /\ to # query
      /\ shown' = RowsLeft(shown, t) /\ removals' = removals \cup {r}
      /\ UNCHANGED <<inList, pageCursor, query, isLoading, loads, debounce, announced,
                     applying, incoming, unsure>>
  BY DEF RemoveRow, RowsShown, RowsOf
<1>3. /\ shown' \in Seq(Thread) /\ RowsOf(shown') = RowsOf(shown) \ {t}
      /\ Increasing(shown) => Increasing(shown')
  BY <1>1, <1>2, RowsLeftIs DEF ViewTypes
<1>4. ListTypeOK'
  <2>1. ViewTypes'
    BY <1>1, <1>2, <1>3 DEF ViewTypes
  <2>2. turns' \in 0..MaxTurns
    BY <1>1, <1>2, TurnTypes
  <2>3. FolderTypes'
    BY <1>1, <1>2, <2>2 DEF FolderTypes
  <2> QED BY <2>1, <2>3 DEF ListTypeOK, ViewTypes, FolderTypes, LoadRecord, DeltaRecord
<1>5. DeltaFits' /\ LoadsNamed'
  BY <1>2 DEF ListInv, DeltaFits, LoadsNamed
<1>6. ListFits'
  <2> SUFFICES ASSUME Good'
               PROVE  (AtMostOne /\ RemovalsFit /\ (\A k \in Load : LoadFits(k)) /\ ShownFits)'
    BY DEF ListFits
  <2>1. Good
    BY <1>2 DEF Good
  <2>2. AtMostOne /\ RemovalsFit /\ (\A k \in Load : LoadFits(k)) /\ (~LoadsAnew => ShownFits)
    BY <2>1 DEF ListInv, ListFits
  <2>3. shown # <<>>
    BY <1>2 DEF RowsOf
  <2>4. \A k \in Load : loads[k].at # "free" => loads[k].more
    BY <2>2, <2>3 DEF LoadFits
  <2>5. ShownFits
    BY <2>2, <2>4 DEF LoadsAnew
  <2>6. Covers(pageCursor, t)
    BY <1>2, <2>5 DEF ShownFits
  <2>7. AtMostOne' /\ RemovalsFit'
    BY <1>2, <2>2, <2>6 DEF AtMostOne, RemovalsFit
  <2>8. \A k \in Load : LoadFits(k)'
    BY <1>2, <2>2, <2>4 DEF LoadFits, PageFits
  <2>9. Pending' = Pending \cup {t}
    <3>1. r.thread = t
      OBVIOUS
    <3> HIDE DEF r
    <3>2. \A p : p \in Pending' <=> p \in Pending \cup {t}
      BY <1>2, <3>1 DEF Pending
    <3> QED BY <3>2
  <2>10. ShownFits'
    BY <1>2, <1>3, <2>5, <2>9 DEF ShownFits
  <2> QED BY <2>7, <2>8, <2>10
<1> QED BY <1>4, <1>5, <1>6 DEF ListInv


LEMMA WriteRemovalStep ==
    ASSUME ListInv, NEW r \in removals, WriteRemoval(r)
    PROVE  ListInv'
<1> DEFINE t == r.thread
<1>1. ViewTypes /\ FolderTypes
  BY ListTypes DEF ListInv
<1>2. /\ removals' = removals \ {r}
      /\ UNCHANGED <<listStore, loads, debounce, announced, applying, incoming,
                     unsure, turns>>
  BY DEF WriteRemoval
<1>3. r \in [thread : Thread, to : Labels \cup {NoLabel}] /\ t \in Thread
  BY <1>1 DEF FolderTypes
<1>4. inList' \in [Labels -> SUBSET Thread]
  <2>1. CASE r.to = NoLabel \/ ~IsThread(t)
    <3>1. inList' = [f \in Labels |-> inList[f] \ {t}]
      BY <2>1 DEF WriteRemoval
    <3> QED BY <1>1, <3>1 DEF FolderTypes
  <2>2. CASE ~(r.to = NoLabel \/ ~IsThread(t))
    <3>1. inList' = [f \in Labels |->
                       {u \in inList[f] : u = t => ~MovedFrom(f)}
                       \cup (IF f = r.to THEN {t} ELSE {})]
      BY <2>2 DEF WriteRemoval
    <3> QED BY <1>1, <1>3, <3>1 DEF FolderTypes
  <2> QED BY <2>1, <2>2
<1>5. ListTypeOK'
  <2>1. ViewTypes'
    BY <1>1, <1>2 DEF ViewTypes, listStore
  <2>2. FolderTypes'
    BY <1>1, <1>2, <1>4 DEF FolderTypes
  <2> QED BY <2>1, <2>2 DEF ListTypeOK, ViewTypes, FolderTypes, LoadRecord, DeltaRecord
<1>6. DeltaFits' /\ LoadsNamed'
  BY <1>2 DEF ListInv, DeltaFits, LoadsNamed
<1>7. ListFits'
  <2> SUFFICES ASSUME Good'
               PROVE  (/\ AtMostOne /\ RemovalsFit /\ (\A k \in Load : LoadFits(k))
                       /\ ~LoadsAnew => ShownFits)'
    BY DEF ListFits
  <2>1. Good
    BY <1>2 DEF Good, listStore
  <2>2. /\ AtMostOne /\ RemovalsFit /\ (\A k \in Load : LoadFits(k))
        /\ ~LoadsAnew => ShownFits
    BY <2>1 DEF ListInv, ListFits
  <2>3. r.to # query /\ Covers(pageCursor, t) /\ query \in Labels
    BY <1>1, <2>1, <2>2 DEF RemovalsFit, Good, ViewTypes
  <2>4. inList'[query] = inList[query] \ {t}
    <3>1. CASE r.to = NoLabel \/ ~IsThread(t)
      <4>1. inList' = [f \in Labels |-> inList[f] \ {t}]
        BY <3>1 DEF WriteRemoval
      <4> QED BY <2>3, <4>1
    <3>2. CASE ~(r.to = NoLabel \/ ~IsThread(t))
      <4>1. inList' = [f \in Labels |->
                         {u \in inList[f] : u = t => ~MovedFrom(f)}
                         \cup (IF f = r.to THEN {t} ELSE {})]
        BY <3>2 DEF WriteRemoval
      <4>2. MovedFrom(query)
        BY DEF MovedFrom
      <4>3. inList'[query] = {u \in inList[query] : u = t => ~MovedFrom(query)}
        BY <2>3, <4>1
      <4> QED BY <4>2, <4>3
    <3> QED BY <3>1, <3>2
  <2>5. Pending' \cup {t} = Pending
    <3>1. removals = removals' \cup {r}
      BY <1>2
    <3>2. \A p : p \in Pending' \cup {t} <=> p \in Pending
      BY <3>1 DEF Pending
    <3> QED BY <3>2
  <2> HIDE DEF t
  <2>6. AtMostOne' /\ RemovalsFit' /\ (LoadsAnew' <=> LoadsAnew)
    BY <1>2, <2>2 DEF AtMostOne, RemovalsFit, LoadsAnew, listStore
  <2>7. ShownFits => ShownFits'
    <3> SUFFICES ASSUME ShownFits PROVE ShownFits'
      OBVIOUS
    <3>1. RowsOf(shown) = {u \in inList[query] : Covers(pageCursor, u)} \ Pending
      BY DEF ShownFits
    <3>2. RowsOf(shown) = {u \in inList'[query] : Covers(pageCursor, u)} \ Pending'
      BY <2>4, <2>5, <3>1
    <3> QED BY <1>2, <3>2 DEF ShownFits, listStore
  <2>8. ASSUME NEW k \in Load PROVE LoadFits(k)'
    <3>1. LoadFits(k) /\ loads'[k] = loads[k] /\ pageCursor' = pageCursor
      BY <1>2, <2>2 DEF listStore
    <3>2. CASE loads[k].at # "free"
      <4>1. loads[k].of = query
        BY <2>2, <3>2 DEF AtMostOne
      <4>2. loads[k].more /\ pageCursor # NullCursor /\ loads[k].from = pageCursor
        BY <3>1, <3>2 DEF LoadFits
      <4>3. ~(t > loads[k].from)
        <5>1. t <= pageCursor
          BY <2>3, <4>2 DEF Covers
        <5>2. t \in Nat /\ pageCursor \in Nat
          BY <1>1, <1>3, <4>2, NumbersAre DEF ViewTypes, t
        <5> QED BY <4>2, <5>1, <5>2
      <4>4. loads[k].at = "read" => PageFits(k)'
        <5> SUFFICES ASSUME loads[k].at = "read" PROVE PageFits(k)'
          OBVIOUS
        <5>1. PageFits(k)
          BY <3>1 DEF LoadFits
        <5>2. {u \in inList[query] : u > loads[k].from /\ Covers(loads[k].next, u)}
              = {u \in inList'[query] : u > loads[k].from /\ Covers(loads[k].next, u)}
          BY <2>4, <4>3
        <5> QED BY <3>1, <4>1, <5>1, <5>2 DEF PageFits
      <4> QED BY <3>1, <4>2, <4>4 DEF LoadFits
    <3> QED BY <3>1, <3>2 DEF LoadFits
  <2> QED BY <2>2, <2>6, <2>7, <2>8
<1> QED BY <1>5, <1>6, <1>7 DEF ListInv

LEMMA RemovalFailsStep ==
    ASSUME ListInv, NEW r \in removals, RemovalFails(r)
    PROVE  ListInv'
<1>1. ViewTypes /\ FolderTypes
  BY ListTypes DEF ListInv
<1>2. /\ removals' = removals \ {r} /\ Turn /\ unsure' = TRUE
      /\ UNCHANGED <<inList, listStore, loads, debounce, announced, applying, incoming>>
  BY DEF RemovalFails
<1>3. ListTypeOK'
  <2>1. ViewTypes'
    BY <1>1, <1>2 DEF ViewTypes, listStore
  <2>2. turns' \in 0..MaxTurns
    BY <1>1, <1>2, TurnTypes
  <2>3. FolderTypes'
    BY <1>1, <1>2, <2>2 DEF FolderTypes
  <2> QED BY <2>1, <2>3 DEF ListTypeOK, ViewTypes, FolderTypes, LoadRecord, DeltaRecord
<1>4. DeltaFits' /\ LoadsNamed' /\ ~Good'
  BY <1>2 DEF ListInv, DeltaFits, LoadsNamed, Good
<1> QED BY <1>3, <1>4 DEF ListInv, ListFits


-----------------------------------------------------------------------------
(* The rounds.                                                             *)

(* What a step of a round has to show: the view is left alone.             *)
LEMMA RoundKeeps ==
    ASSUME ListInv, ViewStands, FolderTypes', DeltaFits',
           Good' => Good /\ inList' = inList
    PROVE  ListInv'
<1>1. UNCHANGED <<shown, pageCursor, query, isLoading, loads, debounce, removals>>
  BY DEF ViewStands, listStore
<1>2. ViewTypes /\ FolderTypes
  BY ListTypes DEF ListInv
<1>3. ViewTypes'
  BY <1>1, <1>2 DEF ViewTypes
<1>4. ListTypeOK'
  BY <1>3 DEF ListTypeOK, ViewTypes, FolderTypes, LoadRecord, DeltaRecord
<1>5. LoadsNamed'
  BY <1>1 DEF ListInv, LoadsNamed
<1>6. ListFits'
  <2>1. CASE Good'
    BY <1>1, <2>1, SameListKeeps
  <2>2. CASE ~Good'
    BY <2>2 DEF ListFits
  <2> QED BY <2>1, <2>2
<1> QED BY <1>4, <1>5, <1>6 DEF ListInv

LEMMA NoNewMailIs ==
    NoNewMail \in DeltaRecord /\ ~NoNewMail.changed
<1>1. 0 \in 0..LastThread
  BY NumbersAre
<1> QED BY <1>1 DEF NoNewMail, DeltaRecord

LEMMA PullDeltaStep ==
    ASSUME ListInv, NEW f \in Labels, NEW wipe \in BOOLEAN,
           NEW added \in SUBSET Thread, NEW gone \in SUBSET Thread,
           PullDelta(f, wipe, added, gone)
    PROVE  ListInv'
<1>1. FolderTypes
  BY ListTypes DEF ListInv
<1>2. /\ applying = "rest" /\ Turn /\ applying' \in {"wipe", "upsert"}
      /\ incoming' = [NoNewMail EXCEPT !.of = f, !.wipe = wipe, !.added = added,
                                       !.gone = gone]
      /\ UNCHANGED <<inList, announced, unsure>> /\ ViewStands
  BY DEF PullDelta
<1>3. incoming' \in DeltaRecord /\ incoming'.of = f /\ ~incoming'.changed
  BY <1>2, NoNewMailIs DEF DeltaRecord
<1>4. FolderTypes'
  <2>1. turns' \in 0..MaxTurns
    BY <1>1, <1>2, TurnTypes
  <2>2. removals' = removals
    BY <1>2 DEF ViewStands
  <2> QED BY <1>1, <1>2, <1>3, <2>1, <2>2 DEF FolderTypes
<1>5. DeltaFits'
  BY <1>2, <1>3 DEF DeltaFits
<1>6. Good' => Good
  BY <1>2 DEF ListInv, DeltaFits, Good, ViewStands, listStore
<1> QED BY <1>2, <1>4, <1>5, <1>6, RoundKeeps

LEMMA CommitKeeps ==
    ASSUME ListInv, NEW ts \in SUBSET Thread, Commits(ts), applying # "rest",
           applying' \in {"upsert", "vanish"},
           UNCHANGED <<announced, unsure, turns>>, ViewStands
    PROVE  ListInv'
<1>1. FolderTypes /\ incoming.of \in Labels
  BY ListTypes DEF ListInv, DeltaFits
<1>2. /\ inList' = [inList EXCEPT ![incoming.of] = ts]
      /\ incoming' = [incoming EXCEPT !.changed = incoming.changed \/ ts # inList[incoming.of]]
  BY DEF Commits
<1>3. /\ incoming' \in DeltaRecord /\ incoming'.of = incoming.of
      /\ incoming'.changed <=> incoming.changed \/ ts # inList[incoming.of]
  BY <1>1, <1>2 DEF FolderTypes, DeltaRecord
<1>4. FolderTypes'
  <2>1. removals' = removals
    BY DEF ViewStands
  <2>2. inList' \in [Labels -> SUBSET Thread]
    BY <1>1, <1>2 DEF FolderTypes
  <2> QED BY <1>1, <1>3, <2>1, <2>2 DEF FolderTypes
<1>5. DeltaFits'
  BY <1>1, <1>3 DEF DeltaFits
<1>6. Good' => Good /\ inList' = inList
  <2> SUFFICES ASSUME Good' PROVE Good /\ inList' = inList
    OBVIOUS
  <2>1. ~incoming.changed /\ ts = inList[incoming.of]
    BY <1>3 DEF Good
  <2>2. inList' = inList
    BY <1>1, <1>2, <2>1 DEF FolderTypes
  <2>3. Good
    BY <2>1 DEF Good, ViewStands, listStore
  <2> QED BY <2>2, <2>3
<1> QED BY <1>4, <1>5, <1>6, RoundKeeps

LEMMA ApplyWipedStep == ASSUME ListInv, ApplyWiped PROVE ListInv'
BY CommitKeeps DEF ApplyWiped

LEMMA ApplyNewStep == ASSUME ListInv, ApplyNew PROVE ListInv'
<1>1. FolderTypes /\ incoming.of \in Labels
  BY ListTypes DEF ListInv, DeltaFits, ApplyNew
<1>2. inList[incoming.of] \cup incoming.added \in SUBSET Thread
  BY <1>1 DEF FolderTypes, DeltaRecord
<1> QED BY <1>2, CommitKeeps DEF ApplyNew

LEMMA ApplyVanishStep == ASSUME ListInv, ApplyVanish PROVE ListInv'
<1> DEFINE lost == incoming.gone \cap inList[incoming.of]
<1>1. FolderTypes /\ incoming.of \in Labels
  BY ListTypes DEF ListInv, DeltaFits, ApplyVanish
<1>2. /\ applying = "vanish" /\ applying' = "emit"
      /\ inList' = [inList EXCEPT ![incoming.of] = inList[incoming.of] \ incoming.gone]
      /\ incoming' = [incoming EXCEPT !.deleted = Deleted,
                                      !.changed = incoming.changed \/ Deleted > 0]
      /\ UNCHANGED <<announced, unsure, turns>> /\ ViewStands
  BY DEF ApplyVanish
<1>3. Deleted \in 0..LastThread /\ (~(Deleted > 0) => lost = {})
  <2>1. lost \in SUBSET Thread
    BY <1>1 DEF FolderTypes, DeltaRecord
  <2>2. IsFiniteSet(lost) /\ Cardinality(lost) \in Nat /\ Cardinality(lost) <= LastThread
    <3> HIDE DEF lost
    <3> QED BY <2>1, NumbersAre, FS_Subset, FS_CardinalityType
  <2>3. Cardinality(lost) = 0 => lost = {}
    <3> HIDE DEF lost
    <3> QED BY <2>2, FS_EmptySet
  <2>4. Deleted = Cardinality(lost)
    BY DEF Deleted
  <2> HIDE DEF lost
  <2> QED BY <2>2, <2>3, <2>4, NumbersAre
<1>4. /\ incoming' \in DeltaRecord /\ incoming'.of = incoming.of
      /\ incoming'.changed <=> incoming.changed \/ Deleted > 0
  BY <1>1, <1>2, <1>3 DEF FolderTypes, DeltaRecord
<1>5. FolderTypes'
  <2>1. removals' = removals
    BY <1>2 DEF ViewStands
  <2>2. inList' \in [Labels -> SUBSET Thread]
    BY <1>1, <1>2 DEF FolderTypes
  <2> QED BY <1>1, <1>2, <1>4, <2>1, <2>2 DEF FolderTypes
<1>6. DeltaFits'
  BY <1>1, <1>2, <1>4 DEF DeltaFits
<1>7. Good' => Good /\ inList' = inList
  <2> SUFFICES ASSUME Good' PROVE Good /\ inList' = inList
    OBVIOUS
  <2>1. ~incoming.changed /\ lost = {}
    BY <1>3, <1>4 DEF Good
  <2>2. inList[incoming.of] \ incoming.gone = inList[incoming.of]
    BY <2>1
  <2>3. inList' = inList
    BY <1>1, <1>2, <2>2 DEF FolderTypes
  <2>4. Good
    BY <1>2, <2>1 DEF Good, ViewStands, listStore
  <2> QED BY <2>3, <2>4
<1> QED BY <1>2, <1>5, <1>6, <1>7, RoundKeeps

LEMMA EmitDeltaStep == ASSUME ListInv, EmitDelta PROVE ListInv'
<1>1. FolderTypes
  BY ListTypes DEF ListInv
<1>2. /\ applying' = "rest" /\ incoming' = NoNewMail
      /\ announced' = (announced \/ Counted)
      /\ unsure' = (unsure \/ (incoming.changed /\ ~Counted))
      /\ UNCHANGED <<inList, turns>> /\ ViewStands
  BY DEF EmitDelta
<1>3. FolderTypes'
  <2>1. removals' = removals
    BY <1>2 DEF ViewStands
  <2>2. announced' \in BOOLEAN /\ unsure' \in BOOLEAN
    BY <1>1, <1>2
  <2> QED BY <1>1, <1>2, <2>1, <2>2, NoNewMailIs DEF FolderTypes
<1>4. DeltaFits'
  BY <1>2, NoNewMailIs DEF DeltaFits
<1>5. Good' => Good
  BY <1>2 DEF Good, ViewStands, listStore
<1> QED BY <1>2, <1>3, <1>4, <1>5, RoundKeeps

LEMMA ApplyFailsStep == ASSUME ListInv, ApplyFails PROVE ListInv'
<1>1. FolderTypes
  BY ListTypes DEF ListInv
<1>2. /\ Turn /\ applying' = "rest" /\ incoming' = NoNewMail
      /\ unsure' = (unsure \/ incoming.changed)
      /\ UNCHANGED <<inList, announced>> /\ ViewStands
  BY DEF ApplyFails
<1>3. FolderTypes'
  <2>1. removals' = removals
    BY <1>2 DEF ViewStands
  <2>2. unsure' \in BOOLEAN /\ turns' \in 0..MaxTurns
    BY <1>1, <1>2, TurnTypes
  <2> QED BY <1>1, <1>2, <2>1, <2>2, NoNewMailIs DEF FolderTypes
<1>4. DeltaFits'
  BY <1>2, NoNewMailIs DEF DeltaFits
<1>5. Good' => Good
  BY <1>2 DEF Good, ViewStands, listStore
<1> QED BY <1>2, <1>3, <1>4, <1>5, RoundKeeps

LEMMA PruneListStep ==
    ASSUME ListInv, NEW f \in Labels, PruneList(f)
    PROVE  ListInv'
<1>1. FolderTypes
  BY ListTypes DEF ListInv
<1>2. /\ Turn /\ inList' = [inList EXCEPT ![f] = {}] /\ unsure' = TRUE
      /\ UNCHANGED <<announced, applying, incoming>> /\ ViewStands
  BY DEF PruneList
<1>3. FolderTypes'
  <2>1. removals' = removals
    BY <1>2 DEF ViewStands
  <2>2. inList' \in [Labels -> SUBSET Thread] /\ turns' \in 0..MaxTurns
    BY <1>1, <1>2, TurnTypes DEF FolderTypes
  <2> QED BY <1>1, <1>2, <2>1, <2>2 DEF FolderTypes
<1>4. DeltaFits' /\ ~Good'
  BY <1>2 DEF ListInv, DeltaFits, Good
<1> QED BY <1>2, <1>3, <1>4, RoundKeeps

-----------------------------------------------------------------------------
LEMMA ListInvInit == ListInit => ListInv
<1> SUFFICES ASSUME ListInit PROVE ListInv
  OBVIOUS
<1>1. loads \in [Load -> LoadRecord] /\ \A l \in Load : loads[l].at = "free"
  BY NoLoadIs DEF ListInit
<1>2. ListTypeOK
  <2>1. <<>> \in Seq(Thread) /\ 0 \in 0..MaxTurns
    BY ListAssumption
  <2>2. ViewTypes
    BY <1>1, <2>1 DEF ListInit, ViewTypes
  <2>3. FolderTypes
    BY <2>1, NoNewMailIs DEF ListInit, FolderTypes
  <2> QED BY <2>2, <2>3, ListTypes
<1>3. DeltaFits /\ LoadsNamed /\ ListFits
  BY <1>1, NoNewMailIs DEF ListInit, DeltaFits, LoadsNamed, ListFits, Good
<1> QED BY <1>2, <1>3 DEF ListInv

LEMMA ListInvStep == ListInv /\ [ListNext]_lvVars => ListInv'
<1> SUFFICES ASSUME ListInv, [ListNext]_lvVars PROVE ListInv'
  OBVIOUS
<1>1. ASSUME NEW l \in Load, NEW f \in Labels, SelectFolder(l, f) PROVE ListInv'
  <2>1. ViewTypes
    BY ListTypes DEF ListInv
  <2>2. /\ Turn /\ LoadThreads(l, f)
        /\ UNCHANGED <<inList, debounce, announced, applying, incoming, removals>>
    BY <1>1 DEF SelectFolder
  <2>3. debounce' \in BOOLEAN
    BY <2>1, <2>2 DEF ViewTypes
  <2> QED BY <2>2, <2>3, LoadThreadsStep
<1>2. CASE LoadStep
  BY <1>1, <1>2, CloseFolderStep, LoadMoreStep, ReadPageStep, TakePageStep, LoadFailsStep,
     HearDeltaStep, DebounceOverStep DEF LoadStep
<1>3. CASE RemovalStep
  BY <1>3, RemoveRowStep, WriteRemovalStep, RemovalFailsStep DEF RemovalStep
<1>4. CASE DeltaStep
  BY <1>4, PullDeltaStep, ApplyWipedStep, ApplyNewStep, ApplyVanishStep, EmitDeltaStep,
     ApplyFailsStep, PruneListStep DEF DeltaStep
<1>5. CASE UNCHANGED lvVars
  <2>1. UNCHANGED <<inList, shown, pageCursor, query, isLoading, loads, debounce, announced,
                    applying, incoming, removals, unsure, turns>>
    BY <1>5 DEF lvVars, listStore
  <2>2. ListTypeOK' /\ DeltaFits' /\ LoadsNamed'
    BY <2>1 DEF ListInv, ListTypeOK, DeltaFits, LoadsNamed
  <2>3. ListFits'
    <3>1. Good' <=> Good
      BY <2>1 DEF Good
    <3> QED BY <2>1, <3>1, SameListKeeps DEF ListFits
  <2> QED BY <2>2, <2>3 DEF ListInv
<1> QED BY <1>2, <1>3, <1>4, <1>5 DEF ListNext

(* The variables of the list keep their types (threadStore's loads and     *)
(* removals, and apply_folder_and_emit).                                   *)
THEOREM ListTypeCorrect == ListSpec => []ListTypeOK
<1>1. ListInv => ListTypeOK
  BY DEF ListInv
<1> QED BY <1>1, ListInvInit, ListInvStep, PTL DEF ListSpec

(* When nothing is under way the list shows, in order and once each, the   *)
(* folder's threads down to the end of the last page, unless one of the    *)
(* ways threadStore's reload is missed took place.                         *)
THEOREM ListIsAsStored == ListSpec => []ListIsFresh
<1>1. ListInv => ListIsFresh
  <2> SUFFICES ASSUME ListInv, Settled, query # NoLabel, ~unsure
               PROVE  shown = InOrder({t \in inList[query] :
                                         pageCursor = NullCursor \/ t <= pageCursor})
    BY DEF ListIsFresh
  <2> DEFINE S == {t \in inList[query] : pageCursor = NullCursor \/ t <= pageCursor}
  <2>1. ViewTypes /\ FolderTypes
    BY ListTypes DEF ListInv
  <2>2. Good /\ ~LoadsAnew /\ removals = {}
    BY DEF Settled, NoneUnderWay, ListInv, DeltaFits, Good, LoadsAnew
  <2>3. ShownFits
    BY <2>2 DEF ListInv, ListFits
  <2>4. Increasing(shown) /\ RowsOf(shown) = S
    BY <2>2, <2>3 DEF ShownFits, Covers, Pending
  <2>5. S \in SUBSET Nat /\ IsFiniteSet(S)
    <3>1. S \in SUBSET Thread
      BY <2>1, <2>2 DEF FolderTypes, ViewTypes, Good
    <3> HIDE DEF S
    <3> QED BY <3>1, NumbersAre, FS_Subset
  <2>6. shown \in Seq(Nat)
    BY <2>1, NumbersAre, SeqMonotonic DEF ViewTypes
  <2> HIDE DEF S
  <2>7. shown = InOrder(S)
    BY <2>4, <2>5, <2>6, InOrderOnly
  <2> QED BY <2>7 DEF S
<1> QED BY <1>1, ListInvInit, ListInvStep, PTL DEF ListSpec

-----------------------------------------------------------------------------
(***************************************************************************)
(* The composition: in a behaviour of the parts side by side each has a    *)
(* behaviour of its own, so that every theorem about a part is one about   *)
(* MailParts.                                                              *)
(***************************************************************************)

(* The Exchange source, the pane, the sending, the verdicts and the list   *)
(* each run as they do alone: composing them adds no step to any.          *)
THEOREM MailPartsRunAlone ==
    PartsSpec => EasSpec /\ PaneSpec /\ SendSpec /\ VerdictSpec /\ ListSpec
<1>1. PartsInit => EasInit /\ PaneInit /\ SendInit /\ VerdictInit /\ ListInit
  BY DEF PartsInit
<1>2. ASSUME [PartsNext]_allVars
      PROVE  /\ [EasNext]_easVars /\ [PaneNext]_rpVars /\ [SendNext]_spVars
             /\ [VerdictNext]_svVars /\ [ListNext]_lvVars
  BY <1>2 DEF PartsNext, allVars
<1> QED BY <1>1, <1>2, PTL DEF PartsSpec, EasSpec, PaneSpec, SendSpec, VerdictSpec, ListSpec

(* All their variables have their types.                                   *)
THEOREM MailTypesCorrect == PartsSpec => []PartsTypeOK
<1>1. EasTypeOK /\ PaneTypeOK /\ SendTypeOK /\ VerdictTypeOK /\ ListTypeOK => PartsTypeOK
  BY DEF PartsTypeOK
<1> QED BY <1>1, MailPartsRunAlone, EasTypeCorrect, PaneTypeCorrect, SendTypeCorrect,
           VerdictTypeCorrect, ListTypeCorrect, PTL
=============================================================================

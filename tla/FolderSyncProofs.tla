------------------------- MODULE FolderSyncProofs -------------------------
(***************************************************************************)
(* Proofs about FolderSync, for every value of its constants.              *)
(***************************************************************************)
EXTENDS FolderSync, FiniteSetTheorems, TLAPS

(* The pieces TypeOK is kept by: steps of the server, of the user and of a  *)
(* round are each a lemma.                                                 *)

(* The empty folder, database and round are well typed.                    *)
LEMMA TypeInit == Init => TypeOK
  BY FolderSyncAssumption
     DEF Init, TypeOK, NoCursor, Cursor, Phase, Uid

(* A STORE of \Seen yields a message and keeps its name.                   *)
LEMMA StoredType ==
  ASSUME TypeOK, NEW m \in Message, NEW value \in BOOLEAN
  PROVE  /\ Stored(m, value) \in Message
         /\ Stored(m, value).uid = m.uid /\ Stored(m, value).uv = m.uv
<1>1. highestModseq + 1 \in Nat
  BY DEF TypeOK
<1>2. [m EXCEPT !.seen = value, !.mod = highestModseq + 1] \in Message
  BY <1>1 DEF Message
<1>3. /\ [m EXCEPT !.seen = value, !.mod = highestModseq + 1].uid = m.uid
      /\ [m EXCEPT !.seen = value, !.mod = highestModseq + 1].uv = m.uv
  BY DEF Message
<1> QED BY <1>2, <1>3 DEF Stored

(* Deliveries, other clients and rebuilds keep the types.                  *)
LEMMA TypeServer ==
  ASSUME TypeOK, Server
  PROVE  TypeOK'
<1> USE FolderSyncAssumption
<1>1. CASE Deliver
  <2>1. [uid |-> uidNext, seen |-> FALSE, mod |-> highestModseq + 1,
         uv |-> uidValidity] \in Message
    BY <1>1 DEF Deliver, TypeOK, Message, Uid
  <2>2. mail' \subseteq Message
    BY <1>1, <2>1 DEF Deliver, TypeOK
  <2>3. uidNext' \in 1..(MaxUid + 1) /\ highestModseq' \in Nat \ {0}
    BY <1>1 DEF Deliver, TypeOK
  <2> QED BY <1>1, <2>2, <2>3 DEF Deliver, TypeOK, round
<1>2. ASSUME NEW m \in mail, NEW value \in BOOLEAN, OtherClientFlags(m, value)
      PROVE  TypeOK'
  <2>1. Stored(m, value) \in Message
    BY StoredType DEF TypeOK
  <2>2. mail' \subseteq Message /\ highestModseq' \in Nat \ {0}
    BY <1>2, <2>1 DEF OtherClientFlags, TypeOK
  <2> QED BY <1>2, <2>2 DEF OtherClientFlags, TypeOK, round
<1>3. ASSUME NEW m \in mail, OtherClientExpunges(m) PROVE TypeOK'
  <2>1. mail' \subseteq Message /\ highestModseq' \in Nat \ {0}
    BY <1>3 DEF OtherClientExpunges, ModseqAfterExpunge, TypeOK
  <2> QED BY <1>3, <2>1 DEF OtherClientExpunges, TypeOK, round
<1>4. ASSUME NEW n \in Uid, Rebuild(n) PROVE TypeOK'
  <2>1. n \in 1..MaxUid /\ 1..n \subseteq Uid
    BY DEF Uid
  <2>2. ASSUME NEW u \in 1..n
        PROVE  [uid |-> u, seen |-> FALSE, mod |-> highestModseq + 1,
                uv |-> uidValidity + 1] \in Message
    BY <2>1 DEF Message, TypeOK
  <2>3. mail' \subseteq Message
    BY <1>4, <2>2 DEF Rebuild
  <2>4. /\ uidNext' \in 1..(MaxUid + 1)
        /\ uidValidity' \in Nat \ {0} /\ highestModseq' \in Nat \ {0}
    BY <1>4, <2>1 DEF Rebuild, TypeOK
  <2> QED BY <1>4, <2>3, <2>4 DEF Rebuild, TypeOK, round
<1> QED BY <1>1, <1>2, <1>3, <1>4 DEF Server

(* The local write and the enqueue of an edit keep the types.              *)
LEMMA TypeUser ==
  ASSUME TypeOK, User
  PROVE  TypeOK'
<1> USE FolderSyncAssumption
<1>1. ASSUME NEW r \in rows, NEW op \in EditKind, UserWrites(r, op)
      PROVE  TypeOK'
  <2>1. r \in Message
    BY DEF TypeOK
  <2>2. EditRow(r, op) \subseteq Message
    <3>1. [r EXCEPT !.seen = (op = "seen")] \in Message
      BY <2>1 DEF Message
    <3> QED BY <3>1 DEF EditRow
  <2>3. rows' \subseteq Message
    BY <1>1, <2>2 DEF UserWrites, TypeOK
  <2>4. editing' \subseteq Edit
    BY <1>1, <2>1 DEF UserWrites, Edit, Message
  <2>5. waived' \subseteq Uid
    BY <1>1, <2>1 DEF UserWrites, TypeOK, Message
  <2>6. edits' \in 0..MaxEdits
    BY <1>1 DEF UserWrites, TypeOK
  <2> QED BY <1>1, <2>3, <2>4, <2>5, <2>6
          DEF UserWrites, TypeOK, server, round
<1>2. ASSUME NEW e \in editing, UserEnqueues(e) PROVE TypeOK'
  BY <1>2 DEF UserEnqueues, TypeOK, server, round
<1> QED BY <1>1, <1>2 DEF User

(* A replayed operation leaves messages, and adds none.                    *)
LEMMA ServerAfterType ==
  ASSUME TypeOK, NEW e \in Edit
  PROVE  /\ ServerAfter(e) \subseteq Message
         /\ Uids(ServerAfter(e)) \subseteq Uids(mail)
         /\ \A n \in ServerAfter(e) : \E m \in mail : n.uid = m.uid /\ n.uv = m.uv
         /\ ModseqAfter(e) \in Nat \ {0}
<1>1. ASSUME NEW m \in mail
      PROVE  /\ Stored(m, e.op = "seen") \in Message
             /\ Stored(m, e.op = "seen").uid = m.uid
             /\ Stored(m, e.op = "seen").uv = m.uv
  BY StoredType DEF TypeOK
<1>2. ASSUME NEW n \in ServerAfter(e)
      PROVE  n \in Message /\ \E m \in mail : n.uid = m.uid /\ n.uv = m.uv
  BY <1>1 DEF ServerAfter, TypeOK
<1>3. ModseqAfter(e) \in Nat \ {0}
  BY DEF ModseqAfter, ModseqAfterExpunge, TypeOK
<1> QED BY <1>2, <1>3 DEF Uids

(* An acknowledged row is a row of the same message.                       *)
LEMMA AcknowledgedType ==
  ASSUME TypeOK, NEW e \in Edit, NEW r \in rows
  PROVE  /\ Acknowledged(r, e) \in Message
         /\ Acknowledged(r, e).uid = r.uid /\ Acknowledged(r, e).uv = r.uv
<1>1. CASE r.uid \in Uids(ServerAfter(e))
  <2>1. \E m \in ServerAfter(e) : m.uid = r.uid
    BY <1>1 DEF Uids
  <2> DEFINE s == CHOOSE m \in ServerAfter(e) : m.uid = r.uid
  <2>2. s \in Message
    BY <2>1, ServerAfterType
  <2>3. s.mod \in Nat
    BY <2>2 DEF Message
  <2> HIDE DEF s
  <2>4. r \in Message
    BY DEF TypeOK
  <2>5. /\ [r EXCEPT !.mod = s.mod] \in Message
        /\ [r EXCEPT !.mod = s.mod].uid = r.uid /\ [r EXCEPT !.mod = s.mod].uv = r.uv
    BY <2>3, <2>4 DEF Message
  <2> QED BY <2>4, <2>5 DEF Acknowledged, s
<1>2. CASE r.uid \notin Uids(ServerAfter(e))
  BY <1>2 DEF Acknowledged, TypeOK
<1> QED BY <1>1, <1>2

(* run_replay_round keeps the types.                                       *)
LEMMA TypeReplay ==
  ASSUME TypeOK, NEW e \in due, ReplayOp(e)
  PROVE  TypeOK'
<1> USE FolderSyncAssumption
<1>1. e \in Edit
  BY DEF TypeOK
<1>2. due' \subseteq Edit /\ (phase # "replay" => due' = {}) /\ phase' = phase
  BY DEF ReplayOp, TypeOK
<1>3. mail' \subseteq Message /\ highestModseq' \in Nat \ {0}
  BY <1>1, ServerAfterType DEF ReplayOp, TypeOK
<1>4. ASSUME NEW r \in rows PROVE Acknowledged(r, e) \in Message
  BY <1>1, AcknowledgedType
<1>5. rows' \subseteq Message
  BY <1>4 DEF ReplayOp, TypeOK
<1>6. pending' \subseteq Edit /\ fails' \in 0..MaxFails
  BY DEF ReplayOp, TypeOK
<1> QED BY <1>2, <1>3, <1>5, <1>6 DEF ReplayOp, TypeOK

(* Starting a round of any kind keeps the types.                           *)
LEMMA TypeBegin ==
  ASSUME TypeOK, BeginPoll \/ BeginReplay \/ BeginPush
  PROVE  TypeOK'
<1>1. CASE BeginPoll
  BY <1>1 DEF BeginPoll, TypeOK, Phase, server
<1>2. CASE BeginReplay
  BY <1>2 DEF BeginReplay, TypeOK, Phase, server
<1>3. CASE BeginPush
  BY <1>3 DEF BeginPush, TypeOK, Phase, server
<1> QED BY <1>1, <1>2, <1>3

(* advance_imap_cursor stores a cursor.                                    *)
LEMMA CursorMergedType ==
  ASSUME NEW old \in Cursor, NEW new \in Cursor
  PROVE  /\ CursorMerged(old, new) \in Cursor
         /\ CursorMerged(old, new).uv = new.uv
         /\ CursorMerged(old, new).high =
              IF old.uv = new.uv THEN Larger(new.high, old.high) ELSE new.high
         /\ CursorMerged(old, new).modseq =
              IF old.uv = new.uv THEN Larger(new.modseq, old.modseq)
              ELSE new.modseq
<1>1. Larger(new.high, old.high) \in 0..MaxUid
  BY DEF Cursor, Larger
<1>2. Larger(new.modseq, old.modseq) \in Nat
  BY DEF Cursor, Larger
<1> QED BY <1>1, <1>2 DEF CursorMerged, Cursor

(* A round that is over has lost all its state.                            *)
LEMMA TypeRoundOver ==
  ASSUME RoundOver
  PROVE  /\ phase' = "idle" /\ phase' \in Phase /\ due' = {}
         /\ since' \in Cursor /\ next' \in Cursor
         /\ localUids' = {} /\ toFetch' = {} /\ vanished' = {}
         /\ added' = {} /\ updates' = {} /\ checked' = {}
  BY FolderSyncAssumption DEF RoundOver, NoCursor, Cursor, Phase

(* The server half of sync_folder keeps the types.                         *)
LEMMA TypeReceive ==
  ASSUME TypeOK,
         \/ EndReplayRound \/ Load \/ StatusWipe \/ StatusSkip \/ StatusGoOn
         \/ SearchNew \/ FetchNew \/ GetChanges \/ GetVanished
  PROVE  TypeOK'
<1> USE FolderSyncAssumption
<1>1. CASE EndReplayRound
  BY <1>1 DEF EndReplayRound, ReplayAwaited, TypeOK, Phase, server
<1>2. CASE Load
  <2>1. localUids' \subseteq Uid
    BY <1>2 DEF Load, TypeOK, Uids, Message
  <2>2. fails' \in 0..MaxFails
    BY <1>2 DEF Load, TypeOK
  <2>3. phase' # "replay" => due' = {}
    BY <1>2 DEF Load, ReplayAwaited, TypeOK
  <2>4. since' \in Cursor
    BY <1>2 DEF Load, TypeOK, NoCursor, Cursor
  <2> QED BY <1>2, <2>1, <2>2, <2>3, <2>4 DEF Load, TypeOK, Phase, server
<1>3. CASE StatusWipe
  <2>1. next' \in Cursor
    BY <1>3 DEF StatusWipe, StatusModseq, ResetHigh, Cursor, TypeOK
  <2> QED BY <1>3, <2>1 DEF StatusWipe, TypeOK, Phase, server
<1>4. CASE StatusSkip
  <2>1. next' \in Cursor
    BY <1>4 DEF StatusSkip, Cursor, TypeOK
  <2> QED BY <1>4, <2>1 DEF StatusSkip, TypeOK, Phase, server
<1>5. CASE StatusGoOn
  <2>1. next' \in Cursor
    BY <1>5 DEF StatusGoOn, StatusModseq, Cursor, TypeOK
  <2> QED BY <1>5, <2>1 DEF StatusGoOn, TypeOK, Phase, server
<1>6. CASE SearchNew
  <2>1. Uids(mail) \subseteq Uid
    BY DEF TypeOK, Uids, Message
  <2>2. toFetch' \subseteq Uid /\ missed' \subseteq Uid
    BY <1>6, <2>1 DEF SearchNew, SearchResult, TypeOK
  <2> QED BY <1>6, <2>2 DEF SearchNew, TypeOK, Phase, server
<1>7. CASE FetchNew
  <2>1. added' \subseteq Message
    BY <1>7 DEF FetchNew, TypeOK
  <2>2. next' \in Cursor
    BY <1>7 DEF FetchNew, TypeOK, Cursor
  <2>3. waived' \subseteq Uid
    BY <1>7 DEF FetchNew, TypeOK, Uids, Message
  <2>4. fails' \in 0..MaxFails
    BY <1>7 DEF FetchNew, TypeOK
  <2> QED BY <1>7, <2>1, <2>2, <2>3, <2>4 DEF FetchNew, TypeOK, Phase, server
<1>8. CASE GetChanges
  <2>1. next' \in Cursor
    BY <1>8 DEF GetChanges, TypeOK, Cursor
  <2>2. updates' \subseteq Message /\ fails' \in 0..MaxFails
    BY <1>8 DEF GetChanges, TypeOK
  <2> QED BY <1>8, <2>1, <2>2 DEF GetChanges, TypeOK, Phase, server
<1>9. CASE GetVanished
  <2>1. vanished' \subseteq Uid /\ fails' \in 0..MaxFails
    BY <1>9 DEF GetVanished, NoneVanished, TypeOK
  <2> QED BY <1>9, <2>1 DEF GetVanished, TypeOK, Phase, server
<1> QED BY <1>1, <1>2, <1>3, <1>4, <1>5, <1>6, <1>7, <1>8, <1>9

(* apply_folder_delta and the cursor write keep the types.                 *)
LEMMA TypeApply ==
  ASSUME TypeOK,
         \/ ApplyWipe \/ ApplyUpsert \/ ApplyVanished
         \/ \E m \in updates : CheckLock(m)
         \/ \E m \in checked : WriteFlags(m)
         \/ FlagsApplied \/ AdvanceCursor
  PROVE  TypeOK'
<1> USE FolderSyncAssumption
<1>1. CASE ApplyWipe
  BY <1>1 DEF ApplyWipe, TypeOK, Phase, server
<1>2. CASE ApplyUpsert
  <2>1. rows' \subseteq Message
    BY <1>2 DEF ApplyUpsert, TypeOK
  <2>2. waived' \subseteq Uid
    BY <1>2 DEF ApplyUpsert, TypeOK, Uids, Message
  <2> QED BY <1>2, <2>1, <2>2 DEF ApplyUpsert, TypeOK, Phase, server
<1>3. CASE ApplyVanished
  BY <1>3 DEF ApplyVanished, TypeOK, Phase, server
<1>4. ASSUME NEW m \in updates, CheckLock(m) PROVE TypeOK'
  BY <1>4 DEF CheckLock, TypeOK, server
<1>5. ASSUME NEW m \in checked, WriteFlags(m) PROVE TypeOK'
  <2>1. ASSUME NEW r \in rows
        PROVE  [r EXCEPT !.seen = m.seen, !.mod = m.mod] \in Message
    BY DEF TypeOK, Message
  <2>2. rows' \subseteq Message
    BY <1>5, <2>1 DEF WriteFlags, TypeOK
  <2> QED BY <1>5, <2>2 DEF WriteFlags, TypeOK, server
<1>6. CASE FlagsApplied
  BY <1>6 DEF FlagsApplied, TypeOK, Phase, server
<1>7. CASE AdvanceCursor
  <2>1. cursor' \in Cursor
    BY <1>7, CursorMergedType DEF AdvanceCursor, TypeOK
  <2>2. fails' \in 0..MaxFails
    BY <1>7 DEF AdvanceCursor, TypeOK
  <2>3. RoundOver
    BY <1>7 DEF AdvanceCursor
  <2> QED BY <1>7, <2>1, <2>2, <2>3, TypeRoundOver
          DEF AdvanceCursor, TypeOK, server
<1> QED BY <1>1, <1>2, <1>3, <1>4, <1>5, <1>6, <1>7

(* Failures keep the types.                                                *)
LEMMA TypeFailure ==
  ASSUME TypeOK, Failure
  PROVE  TypeOK'
<1> USE FolderSyncAssumption
<1>1. fails' \in 0..MaxFails
  BY DEF Failure, Reconnect, AbortRound, EnqueueFails, Crash, TypeOK
<1>2. CASE Reconnect
  BY <1>1, <1>2 DEF Reconnect, TypeOK, Phase, NoCursor, Cursor, server
<1>3. CASE AbortRound
  <2>1. RoundOver
    BY <1>3 DEF AbortRound
  <2> QED BY <1>1, <1>3, <2>1, TypeRoundOver DEF AbortRound, TypeOK, server
<1>4. CASE EnqueueFails
  BY <1>1, <1>4 DEF EnqueueFails, TypeOK, server, round
<1>5. CASE Crash
  <2>1. RoundOver
    BY <1>5 DEF Crash
  <2> QED BY <1>1, <1>5, <2>1, TypeRoundOver DEF Crash, TypeOK, server
<1> QED BY <1>2, <1>3, <1>4, <1>5 DEF Failure

(* TypeOK is inductive.                                                    *)
LEMMA TypeStep == TypeOK /\ [Next]_vars => TypeOK'
<1> SUFFICES ASSUME TypeOK, [Next]_vars PROVE TypeOK'
  OBVIOUS
<1>1. CASE Server
  BY <1>1, TypeServer
<1>2. CASE User
  BY <1>2, TypeUser
<1>3. CASE BeginPoll \/ BeginReplay \/ BeginPush
  BY <1>3, TypeBegin
<1>4. CASE Worker
  BY <1>4, TypeReplay, TypeReceive, TypeApply DEF Worker, Sync
<1>5. CASE Failure
  BY <1>5, TypeFailure
<1>6. CASE UNCHANGED vars
  BY <1>6 DEF vars, server, round, TypeOK
<1> QED BY <1>1, <1>2, <1>3, <1>4, <1>5, <1>6 DEF Next

(* Every variable keeps the shape the schema and the round's structures    *)
(* give it, and operations are dequeued only in the replay part of a round. *)
THEOREM FolderSyncTypeCorrect == Spec => []TypeOK
  BY TypeInit, TypeStep, PTL DEF Spec

(* advance_imap_cursor is the only writer of the cursor and never lowers   *)
(* it within one UIDVALIDITY.                                              *)
THEOREM CursorMonotone == Spec => CursorNeverGoesBack
<1>1. TypeOK /\ [Next]_vars =>
        [cursor'.uv = cursor.uv =>
           cursor'.high >= cursor.high /\ cursor'.modseq >= cursor.modseq]_vars
  <2> SUFFICES ASSUME TypeOK, [Next]_vars, cursor'.uv = cursor.uv
               PROVE  cursor'.high >= cursor.high /\ cursor'.modseq >= cursor.modseq
    OBVIOUS
  <2>1. cursor \in Cursor /\ next \in Cursor
    BY DEF TypeOK
  <2>2. cursor' \in {cursor, CursorMerged(cursor, next)}
    BY DEF Next, vars, Server, Deliver, OtherClientFlags, OtherClientExpunges,
           Rebuild, User, UserWrites, UserEnqueues, BeginPoll, BeginReplay,
           BeginPush, Worker, Sync, ReplayOp, EndReplayRound, Load, StatusWipe,
           StatusSkip, StatusGoOn, SearchNew, FetchNew, GetChanges,
           GetVanished, ApplyWipe, ApplyUpsert, ApplyVanished, CheckLock,
           WriteFlags, FlagsApplied, AdvanceCursor, Failure, Reconnect,
           AbortRound, EnqueueFails, Crash
  <2>3. CASE cursor' = cursor
    BY <2>1, <2>3 DEF Cursor
  <2>4. CASE cursor' = CursorMerged(cursor, next)
    BY <2>1, <2>4, CursorMergedType DEF Larger, Cursor
  <2> QED BY <2>2, <2>3, <2>4
<1> QED BY <1>1, FolderSyncTypeCorrect, PTL DEF Spec, CursorNeverGoesBack

---------------------------------------------------------------------------
(* The inductive invariant behind CursorCoversFolder. A round whose STATUS  *)
(* saw the present UIDVALIDITY carries, from step to step, the part of the  *)
(* claim that it is about to make true by moving the cursor.               *)

Numbered(S) == {m.uid : m \in {n \in S : n.uv = uidValidity}}
Covered(u) == u \in Numbered(rows) \cup waived \cup missed
Current == next.uv = uidValidity

(* Cursors name numberings that exist; a round works from the stored one,  *)
(* or from none when it could not be read.                                 *)
CursorsKnown ==
    /\ cursor.uv <= uidValidity /\ next.uv <= uidValidity
    /\ cursor.uv = 0 => cursor.high = 0
    /\ cursor.uv = uidValidity => cursor.high < uidNext
    /\ phase \notin {"idle", "replay", "load"} => since \in {cursor, NoCursor}
    /\ phase \notin {"idle", "replay", "load", "status"} =>
         0 < next.uv /\ cursor.uv <= next.uv

UidsAssigned == \A m \in mail : m.uid < uidNext /\ m.uv = uidValidity

(* Outside a wipe, the folder was not renumbered since the cursor that the *)
(* round works from. The stored one may be older: see Load.                *)
SameNumbering ==
    phase \in {"search", "fetch", "changes", "expunge", "upsert"} /\ Current =>
        since.uv = 0 \/ since.uv = uidValidity

SearchCovers ==
    phase = "fetch" /\ Current =>
        /\ \A u \in toFetch : u < uidNext
        /\ \A m \in mail, u \in toFetch :
             since.high < m.uid /\ m.uid <= u => m.uid \in toFetch \cup missed

FetchCovers ==
    phase \in {"changes", "expunge", "upsert"} /\ Current =>
        /\ next.high < uidNext /\ \A m \in added : m.uv = uidValidity
        /\ \A m \in mail : since.high < m.uid /\ m.uid <= next.high =>
             m.uid \in Numbered(added) \/ Covered(m.uid)

VanishedAreGone ==
    phase \in {"upsert", "vanish"} /\ Current =>
        \A m \in mail : m.uid \in vanished =>
            next.high < m.uid /\ (cursor.uv = uidValidity => cursor.high < m.uid)

WipeStartsOver ==
    phase = "wipe" => next.high = 0 /\ cursor.uv # uidValidity

CursorCovers ==
    cursor.uv = uidValidity => \A m \in mail : m.uid <= cursor.high => Covered(m.uid)

AppliedCovers ==
    phase \in {"vanish", "flags", "advance"} /\ Current =>
        /\ next.high < uidNext
        /\ \A m \in mail : m.uid <= next.high => Covered(m.uid)

CoverInv ==
    /\ TypeOK /\ CursorsKnown /\ UidsAssigned /\ CursorCovers
    /\ SameNumbering /\ SearchCovers /\ FetchCovers /\ VanishedAreGone
    /\ WipeStartsOver /\ AppliedCovers

(* An empty database claims nothing.                                       *)
LEMMA CoverInit == Init => CoverInv
<1> SUFFICES ASSUME Init PROVE CoverInv
  OBVIOUS
<1>1. TypeOK
  BY TypeInit
<1>2. CursorsKnown /\ UidsAssigned /\ CursorCovers
  BY DEF Init, CursorsKnown, UidsAssigned, CursorCovers, NoCursor
<1>3. /\ SameNumbering /\ SearchCovers /\ FetchCovers /\ VanishedAreGone
      /\ WipeStartsOver /\ AppliedCovers
  BY DEF Init, SameNumbering, SearchCovers, FetchCovers, VanishedAreGone,
         WipeStartsOver, AppliedCovers
<1> QED BY <1>1, <1>2, <1>3 DEF CoverInv

(* A step that neither adds mail nor uncovers any, and leaves the round and *)
(* the cursor alone, keeps the invariant.                                  *)
LEMMA CoverKept ==
  ASSUME CoverInv, TypeOK',
         \A m \in mail' : \E n \in mail : m.uid = n.uid /\ m.uv = n.uv,
         UNCHANGED <<uidNext, uidValidity, cursor, phase, since, toFetch,
                     added, vanished, next>>,
         waived \subseteq waived', missed \subseteq missed',
         Numbered(rows) \subseteq Numbered(rows)' \cup waived'
  PROVE  CoverInv'
<1>1. CursorsKnown' /\ UidsAssigned' /\ SameNumbering' /\ WipeStartsOver'
  BY DEF CoverInv, CursorsKnown, UidsAssigned, SameNumbering, WipeStartsOver,
         Current
<1>2. CursorCovers'
  BY DEF CoverInv, CursorCovers, Covered
<1>3. SearchCovers' /\ VanishedAreGone'
  BY DEF CoverInv, SearchCovers, VanishedAreGone, Current
<1>4. FetchCovers'
  BY DEF CoverInv, FetchCovers, Covered, Current, Numbered
<1>5. AppliedCovers'
  BY DEF CoverInv, AppliedCovers, Covered, Current
<1> QED BY <1>1, <1>2, <1>3, <1>4, <1>5 DEF CoverInv

(* What others do on the server falsifies no claim of a round.             *)
LEMMA CoverServer ==
  ASSUME CoverInv, Server
  PROVE  CoverInv'
<1>0. TypeOK /\ TypeOK'
  BY TypeServer DEF CoverInv
<1>1. CASE Deliver
  <2>1. /\ uidNext' = uidNext + 1 /\ uidNext \in Nat
        /\ \A m \in mail' : m \in mail \/ (m.uid = uidNext /\ m.uv = uidValidity)
        /\ UNCHANGED <<uidValidity, rows, cursor, phase, since, toFetch, added,
                       vanished, next, waived, missed>>
    BY <1>0, <1>1 DEF Deliver, TypeOK, round
  <2>2. /\ cursor \in Cursor /\ next \in Cursor /\ since \in Cursor
        /\ toFetch \subseteq Nat /\ \A m \in mail : m.uid \in Nat
    BY <1>0 DEF TypeOK, Uid, Message
  <2>3. CursorsKnown' /\ UidsAssigned' /\ SameNumbering' /\ WipeStartsOver'
    BY <2>1, <2>2 DEF CoverInv, CursorsKnown, UidsAssigned, SameNumbering,
                      WipeStartsOver, Current, Cursor
  <2>4. CursorCovers'
    BY <2>1, <2>2 DEF CoverInv, CursorCovers, Covered, Numbered, CursorsKnown, Cursor
  <2>5. SearchCovers'
    BY <2>1, <2>2 DEF CoverInv, SearchCovers, Current, Cursor
  <2>6. FetchCovers'
    BY <2>1, <2>2 DEF CoverInv, FetchCovers, Covered, Numbered, Current, Cursor
  <2>7. VanishedAreGone'
    BY <2>1, <2>2 DEF CoverInv, VanishedAreGone, FetchCovers, AppliedCovers,
                      CursorsKnown, Current, Cursor
  <2>8. AppliedCovers'
    BY <2>1, <2>2 DEF CoverInv, AppliedCovers, Covered, Numbered, Current, Cursor
  <2> QED BY <1>0, <2>3, <2>4, <2>5, <2>6, <2>7, <2>8 DEF CoverInv
<1>2. ASSUME NEW m \in mail, NEW value \in BOOLEAN, OtherClientFlags(m, value)
      PROVE  CoverInv'
  <2>1. Stored(m, value).uid = m.uid /\ Stored(m, value).uv = m.uv
    BY <1>0, StoredType DEF TypeOK
  <2>2. Numbered(rows)' = Numbered(rows)
    BY <1>2 DEF OtherClientFlags, Numbered
  <2> QED BY <1>0, <1>2, <2>1, <2>2, CoverKept DEF OtherClientFlags, round
<1>3. ASSUME NEW m \in mail, OtherClientExpunges(m) PROVE CoverInv'
  <2>1. Numbered(rows)' = Numbered(rows)
    BY <1>3 DEF OtherClientExpunges, Numbered
  <2> QED BY <1>0, <1>3, <2>1, CoverKept DEF OtherClientExpunges, round
<1>4. ASSUME NEW n \in Uid, Rebuild(n) PROVE CoverInv'
  <2>1. /\ uidValidity \in Nat /\ uidValidity' = uidValidity + 1
        /\ uidNext' = n + 1 /\ n \in Nat
        /\ cursor.uv \in Nat /\ next.uv \in Nat
        /\ UNCHANGED <<cursor, phase, since, next>>
    BY <1>0, <1>4 DEF Rebuild, TypeOK, Cursor, Uid, round
  <2>2. ~(cursor.uv = uidValidity)' /\ ~Current'
    BY <2>1 DEF CoverInv, CursorsKnown, Current
  <2>3. UidsAssigned'
    BY <1>4, <2>1 DEF Rebuild, UidsAssigned
  <2>4. CursorsKnown' /\ WipeStartsOver'
    BY <2>1, <2>2 DEF CoverInv, CursorsKnown, WipeStartsOver
  <2> QED BY <1>0, <2>2, <2>3, <2>4
          DEF CoverInv, CursorCovers, SameNumbering, SearchCovers,
              FetchCovers, VanishedAreGone, AppliedCovers
<1> QED BY <1>1, <1>2, <1>3, <1>4 DEF Server

(* A deletion by the user waives the message; flag edits keep the row.     *)
LEMMA UserUncoversNone ==
  ASSUME TypeOK, NEW r \in rows, NEW op \in EditKind, UserWrites(r, op)
  PROVE  Numbered(rows) \subseteq Numbered(rows)' \cup waived'
<1>1. ASSUME NEW q \in rows, q.uv = uidValidity
      PROVE  q.uid \in Numbered(rows)' \cup waived'
  <2>1. CASE q # r
    BY <1>1, <2>1 DEF UserWrites, Numbered, server
  <2>2. CASE q = r /\ op = "delete"
    BY <1>1, <2>2 DEF UserWrites
  <2>3. CASE q = r /\ op # "delete"
    <3>1. /\ [r EXCEPT !.seen = (op = "seen")].uid = r.uid
          /\ [r EXCEPT !.seen = (op = "seen")].uv = r.uv
      BY DEF TypeOK, Message
    <3>2. [r EXCEPT !.seen = (op = "seen")] \in rows'
      BY <2>3 DEF UserWrites, EditRow
    <3>3. UNCHANGED uidValidity
      BY DEF UserWrites, server
    <3> QED BY <1>1, <2>3, <3>1, <3>2, <3>3 DEF Numbered
  <2> QED BY <2>1, <2>2, <2>3
<1> QED BY <1>1 DEF Numbered

(* So what the user does uncovers nothing.                                 *)
LEMMA CoverUser ==
  ASSUME CoverInv, User
  PROVE  CoverInv'
<1>0. TypeOK /\ TypeOK'
  BY TypeUser DEF CoverInv
<1>1. ASSUME NEW r \in rows, NEW op \in EditKind, UserWrites(r, op)
      PROVE  CoverInv'
  <2>1. Numbered(rows) \subseteq Numbered(rows)' \cup waived'
    BY <1>0, <1>1, UserUncoversNone
  <2> QED BY <1>0, <1>1, <2>1, CoverKept DEF UserWrites, server, round
<1>2. ASSUME NEW e \in editing, UserEnqueues(e) PROVE CoverInv'
  <2>1. Numbered(rows)' = Numbered(rows)
    BY <1>2 DEF UserEnqueues, Numbered, server
  <2> QED BY <1>0, <1>2, <2>1, CoverKept DEF UserEnqueues, server, round
<1> QED BY <1>1, <1>2 DEF User

(* Replay only removes messages from the server.                           *)
LEMMA CoverReplay ==
  ASSUME CoverInv, NEW e \in due, ReplayOp(e)
  PROVE  CoverInv'
<1>0. TypeOK /\ TypeOK' /\ e \in Edit
  BY TypeReplay DEF CoverInv, TypeOK
<1>1. \A m \in mail' : \E n \in mail : m.uid = n.uid /\ m.uv = n.uv
  BY <1>0, ServerAfterType DEF ReplayOp, Uids
<1>2. ASSUME NEW r \in rows, r.uv = uidValidity PROVE r.uid \in Numbered(rows)'
  <2>1. \E q \in rows' : q.uid = r.uid /\ q.uv = r.uv
    BY <1>0, AcknowledgedType DEF ReplayOp
  <2> QED BY <1>2, <2>1 DEF ReplayOp, Numbered
<1>3. Numbered(rows) \subseteq Numbered(rows)'
  BY <1>2 DEF Numbered
<1> QED BY <1>0, <1>1, <1>3, CoverKept DEF ReplayOp

(* Between rounds only the cursor's own claims are left to keep.           *)
LEMMA CoverOutside ==
  ASSUME CoverInv, TypeOK',
         UNCHANGED <<server, rows, waived, missed, cursor>>,
         next' \in {next, NoCursor},
         \/ phase' \in {"idle", "replay", "load"}
         \/ phase' = "status" /\ since' \in {cursor, NoCursor}
  PROVE  CoverInv'
<1>1. CursorsKnown' /\ UidsAssigned' /\ CursorCovers'
  BY DEF CoverInv, CursorsKnown, UidsAssigned, CursorCovers, Covered, Numbered, server,
         NoCursor, TypeOK
<1>2. /\ SameNumbering' /\ SearchCovers' /\ FetchCovers' /\ VanishedAreGone'
      /\ WipeStartsOver' /\ AppliedCovers'
  BY DEF SameNumbering, SearchCovers, FetchCovers, VanishedAreGone,
         WipeStartsOver, AppliedCovers
<1> QED BY <1>1, <1>2 DEF CoverInv

(* A new round starts with no claims.                                      *)
LEMMA CoverBegin ==
  ASSUME CoverInv, BeginPoll \/ BeginReplay \/ BeginPush
  PROVE  CoverInv'
<1>1. TypeOK'
  BY TypeBegin DEF CoverInv
<1> QED BY <1>1, CoverOutside DEF BeginPoll, BeginReplay, BeginPush

(* Load and STATUS make the claims of the round's first stage.             *)
LEMMA CoverStatus ==
  ASSUME CoverInv, EndReplayRound \/ Load \/ StatusWipe \/ StatusSkip \/ StatusGoOn
  PROVE  CoverInv'
<1>0. TypeOK /\ TypeOK'
  BY TypeReceive DEF CoverInv
<1>1. CASE EndReplayRound \/ Load
  BY <1>0, <1>1, CoverOutside DEF EndReplayRound, Load
<1>a. ASSUME StatusWipe \/ StatusSkip \/ StatusGoOn
      PROVE  /\ since \in {cursor, NoCursor} /\ cursor \in Cursor /\ next'.uv = uidValidity
             /\ uidValidity \in Nat \ {0} /\ uidNext \in Nat \ {0}
             /\ CursorsKnown' /\ UidsAssigned' /\ CursorCovers'
  <2>1. since \in {cursor, NoCursor} /\ cursor \in Cursor /\ uidValidity \in Nat \ {0}
        /\ uidNext \in Nat \ {0}
    BY <1>0, <1>a DEF StatusWipe, StatusSkip, StatusGoOn, CoverInv,
                      CursorsKnown, TypeOK
  <2>2. next'.uv = uidValidity
    BY <1>0, <1>a DEF StatusWipe, StatusSkip, StatusGoOn
  <2>3. CursorsKnown'
    BY <1>a, <2>1, <2>2 DEF StatusWipe, StatusSkip, StatusGoOn, CoverInv,
                           CursorsKnown, server
  <2>4. UidsAssigned' /\ CursorCovers'
    BY <1>a DEF StatusWipe, StatusSkip, StatusGoOn, CoverInv, UidsAssigned,
                CursorCovers, Covered, Numbered, server
  <2> QED BY <2>1, <2>2, <2>3, <2>4
<1>2. CASE StatusWipe
  <2>1. WipeStartsOver'
    BY <1>2, <1>a DEF StatusWipe, WipeStartsOver, ResetHigh, Renumbered, NoCursor, server
  <2>2. phase' = "wipe"
    BY <1>2 DEF StatusWipe
  <2> QED BY <1>0, <1>2, <1>a, <2>1, <2>2
          DEF CoverInv, SameNumbering, SearchCovers, FetchCovers,
              VanishedAreGone, AppliedCovers
<1>3. CASE StatusSkip
  <2>1. phase' = "advance" /\ next'.high = cursor.high
        /\ (cursor.uv = 0 \/ cursor.uv = uidValidity)
    BY <1>3, <1>a DEF StatusSkip, Unchanged, Renumbered, NoCursor
  <2>2. AppliedCovers'
    <3>1. UNCHANGED <<mail, uidNext, rows, waived, missed>>
      BY <1>3 DEF StatusSkip, server
    <3>2. \A m \in mail : m.uid \in Nat \ {0}
      BY <1>0 DEF TypeOK, Message, Uid
    <3>3. cursor.high < uidNext
      BY <1>a, <1>3, <2>1 DEF CoverInv, CursorsKnown
    <3>4. ASSUME NEW m \in mail, m.uid <= cursor.high PROVE Covered(m.uid)
      BY <1>3, <1>a, <2>1, <3>2, <3>4
         DEF CoverInv, CursorsKnown, CursorCovers, Cursor
    <3>5. UNCHANGED uidValidity
      BY <1>3 DEF StatusSkip, server
    <3> QED BY <2>1, <3>1, <3>3, <3>4, <3>5 DEF AppliedCovers, Covered, Numbered
  <2> QED BY <1>0, <1>3, <1>a, <2>1, <2>2
          DEF CoverInv, SameNumbering, SearchCovers, FetchCovers,
              VanishedAreGone, WipeStartsOver
<1>4. CASE StatusGoOn
  <2>1. phase' = "search" /\ (since.uv = 0 \/ since.uv = uidValidity)
    BY <1>4, <1>a DEF StatusGoOn, Renumbered
  <2>2. SameNumbering'
    BY <1>4, <2>1 DEF SameNumbering, StatusGoOn, server
  <2> QED BY <1>0, <1>4, <1>a, <2>1, <2>2
          DEF CoverInv, SearchCovers, FetchCovers, VanishedAreGone,
              WipeStartsOver, AppliedCovers
<1> QED BY <1>1, <1>2, <1>3, <1>4

(* A step of a round that leaves the server, the cursor and what the       *)
(* folder's copy covers as they are keeps everything but the claims that   *)
(* its new phase makes.                                                    *)
LEMMA CoverInRound ==
  ASSUME CoverInv, TypeOK', UNCHANGED <<server, cursor, since>>,
         phase \in {"search", "fetch", "changes", "expunge", "upsert", "vanish",
                    "flags"},
         phase' # "wipe",
         next'.uv = next.uv,
         Current => Numbered(rows) \subseteq Numbered(rows)' \cup waived',
         waived \subseteq waived', missed \subseteq missed'
  PROVE  /\ CursorsKnown' /\ UidsAssigned' /\ CursorCovers'
         /\ WipeStartsOver'
         /\ Current' = Current /\ (Current => next.uv = uidValidity)
<1>1. CursorsKnown' /\ UidsAssigned' /\ WipeStartsOver'
  BY DEF CoverInv, CursorsKnown, UidsAssigned, WipeStartsOver, server
<1>2. cursor.uv = uidValidity => Current
  <2>1. cursor.uv \in Nat /\ next.uv \in Nat /\ uidValidity \in Nat
    BY DEF CoverInv, TypeOK, Cursor
  <2> QED BY <2>1 DEF CoverInv, CursorsKnown, Current
<1>3. CursorCovers'
  BY <1>2 DEF CoverInv, CursorCovers, Covered, Numbered, server
<1> QED BY <1>1, <1>3 DEF Current, server

(* The search, fetch, change and expunge stages keep the invariant.        *)
LEMMA CoverReceive ==
  ASSUME CoverInv, SearchNew \/ FetchNew \/ GetChanges \/ GetVanished
  PROVE  CoverInv'
<1>0. TypeOK /\ TypeOK' /\ next \in Cursor /\ next' \in Cursor
      /\ \A m \in mail : m.uid \in Nat
  BY TypeReceive DEF CoverInv, TypeOK, Message, Uid
<1>1. CASE SearchNew
  <2>1. /\ CursorsKnown' /\ UidsAssigned' /\ CursorCovers'
        /\ WipeStartsOver' /\ Current' = Current
    BY <1>0, <1>1, CoverInRound DEF SearchNew, Numbered, server
  <2>2. SameNumbering'
    BY <1>1 DEF SearchNew, CoverInv, SameNumbering, Current, server
  <2>3. SearchCovers'
    <3>1. \A u \in toFetch' : u < uidNext
      BY <1>1 DEF SearchNew, SearchResult, CoverInv, UidsAssigned, Uids
    <3>2. \A m \in mail : since.high < m.uid => m.uid \in toFetch' \cup missed'
      <4>1. since.high \in Nat
        BY <1>0 DEF TypeOK, Cursor
      <4> QED BY <1>0, <1>1, <4>1 DEF SearchNew, Uids
    <3> QED BY <1>1, <3>1, <3>2 DEF SearchNew, SearchCovers, server
  <2> QED BY <1>0, <1>1, <2>1, <2>2, <2>3
          DEF SearchNew, CoverInv, FetchCovers, VanishedAreGone, AppliedCovers
<1>2. CASE FetchNew
  <2>1. PICK dropped \in SUBSET {m \in mail : m.uid \in toFetch}, h \in 0..MaxUid :
          /\ added' = {m \in mail : m.uid \in toFetch} \ dropped
          /\ IsHighest(h, Uids(added'), since.high)
          /\ next' = [next EXCEPT !.high = h]
          /\ waived' = waived \cup
                Uids({m \in dropped : m.uid < next'.high /\ ~HasRow(m)})
    BY <1>2 DEF FetchNew
  <2>2. next'.high = h /\ next'.uv = next.uv /\ since.high \in Nat /\ h \in Nat
    BY <1>0, <2>1 DEF Cursor, TypeOK
  <2>3. /\ CursorsKnown' /\ UidsAssigned' /\ CursorCovers'
        /\ WipeStartsOver' /\ Current' = Current
        /\ (Current => next.uv = uidValidity)
    <3>1. /\ UNCHANGED <<server, cursor, since, rows>> /\ phase = "fetch"
          /\ phase' = "changes" /\ missed' = missed /\ waived \subseteq waived'
      BY <1>2, <2>1 DEF FetchNew
    <3>2. Numbered(rows)' = Numbered(rows)
      BY <3>1 DEF Numbered, server
    <3> QED BY <1>0, <2>2, <3>1, <3>2, CoverInRound
  <2>4. SameNumbering'
    BY <1>2, <2>3 DEF FetchNew, CoverInv, SameNumbering, server
  <2>5. FetchCovers'
    <3>0. \A m \in added' : m.uv = uidValidity
      BY <2>1 DEF CoverInv, UidsAssigned
    <3>a. UNCHANGED <<uidValidity, uidNext, mail, rows, since, missed>> /\ phase' = "changes"
      BY <1>2 DEF FetchNew, server
    <3>b. Numbered(added)' = Uids(added')
      BY <3>0, <3>a DEF Numbered, Uids
    <3> SUFFICES ASSUME Current
                 PROVE  /\ h < uidNext
                        /\ \A m \in mail : since.high < m.uid /\ m.uid <= h =>
                             m.uid \in Uids(added') \cup Numbered(rows) \cup waived' \cup missed
      BY <2>2, <2>3, <3>0, <3>a, <3>b DEF FetchCovers, Covered, Numbered
    <3>1. /\ \A u \in toFetch : u < uidNext
          /\ \A m \in mail, u \in toFetch :
               since.high < m.uid /\ m.uid <= u => m.uid \in toFetch \cup missed
      BY <1>2 DEF FetchNew, CoverInv, SearchCovers
    <3>2. CASE Uids(added') = {}
      <4>1. h = since.high
        BY <2>1, <3>2 DEF IsHighest
      <4>2. since \in {cursor, NoCursor} /\ (since.uv = 0 \/ since.uv = uidValidity)
        BY <1>2 DEF FetchNew, CoverInv, CursorsKnown, SameNumbering
      <4>3. h < uidNext
        BY <1>0, <4>1, <4>2 DEF CoverInv, CursorsKnown, TypeOK, NoCursor
      <4>4. \A m \in mail : ~(since.high < m.uid /\ m.uid <= h)
        BY <1>0, <2>2, <4>1
      <4> QED BY <4>3, <4>4
    <3>3. CASE Uids(added') # {}
      <4>1. h \in Uids(added') /\ h \in toFetch
        BY <2>1, <3>3 DEF IsHighest, Uids
      <4>2. ASSUME NEW m \in mail, since.high < m.uid, m.uid <= h,
                   m.uid \in toFetch, m.uid \notin Uids(added')
            PROVE  m.uid \in Numbered(rows) \cup waived'
        <5>1. m.uid < h
          BY <1>0, <2>2, <4>1, <4>2
        <5>2. m \in dropped
          BY <2>1, <4>2 DEF Uids
        <5>3. CASE HasRow(m)
          BY <4>2, <5>3 DEF HasRow, Numbered, CoverInv, UidsAssigned
        <5>4. CASE ~HasRow(m)
          BY <2>1, <2>2, <5>1, <5>2, <5>4 DEF Uids
        <5> QED BY <5>3, <5>4
      <4> QED BY <3>1, <4>1, <4>2
    <3> QED BY <3>2, <3>3
  <2> QED BY <1>0, <1>2, <2>3, <2>4, <2>5
          DEF FetchNew, CoverInv, SearchCovers, VanishedAreGone, AppliedCovers
<1>3. CASE GetChanges
  <2>1. next'.uv = next.uv /\ next'.high = next.high
    BY <1>0, <1>3 DEF GetChanges, Cursor
  <2>2. /\ CursorsKnown' /\ UidsAssigned' /\ CursorCovers'
        /\ WipeStartsOver' /\ Current' = Current
    BY <1>0, <1>3, <2>1, CoverInRound DEF GetChanges, Numbered, server
  <2>3. SameNumbering' /\ FetchCovers'
    BY <1>3, <2>1, <2>2
       DEF GetChanges, CoverInv, SameNumbering, FetchCovers, Covered, Numbered, server
  <2> QED BY <1>0, <1>3, <2>2, <2>3
          DEF GetChanges, CoverInv, SearchCovers, VanishedAreGone, AppliedCovers
<1>4. CASE GetVanished
  <2>1. /\ CursorsKnown' /\ UidsAssigned' /\ CursorCovers'
        /\ WipeStartsOver' /\ Current' = Current
    BY <1>0, <1>4, CoverInRound DEF GetVanished, Numbered, server
  <2>2. SameNumbering' /\ FetchCovers'
    BY <1>4, <2>1 DEF GetVanished, CoverInv, SameNumbering, FetchCovers, Covered,
                      Numbered, server
  <2>3. VanishedAreGone'
    BY <1>4 DEF GetVanished, VanishedAreGone, NoneVanished, Uids, server
  <2> QED BY <1>0, <1>4, <2>1, <2>2, <2>3
          DEF GetVanished, CoverInv, SearchCovers, AppliedCovers
<1> QED BY <1>1, <1>2, <1>3, <1>4

(* After the upsert the fetched messages are stored or waived.             *)
LEMMA CoverUpsert ==
  ASSUME CoverInv, ApplyUpsert
  PROVE  CoverInv'
<1>0. TypeOK /\ TypeOK' /\ since.high \in Nat /\ next.high \in Nat
      /\ \A m \in mail : m.uid \in Nat
  BY TypeApply DEF CoverInv, TypeOK, Message, Uid, Cursor
<1> DEFINE written == {m \in added : ~Locked(m.uid)}
           skipped == {m \in added \ written :
                         /\ m.uv = uidValidity
                         /\ \A r \in rows : r.uid = m.uid => r.uv # m.uv}
<1>1. /\ rows' = {r \in rows : r.uid \notin Uids(written)} \cup written
      /\ waived' = waived \cup Uids(skipped)
      /\ phase = "upsert" /\ phase' = "vanish"
      /\ UNCHANGED <<server, cursor, since, added, vanished, next, missed>>
  BY DEF ApplyUpsert
<1>2. Current => /\ Numbered(rows) \subseteq Numbered(rows)'
                 /\ Numbered(added) \subseteq Numbered(rows)' \cup waived'
  <2> SUFFICES ASSUME Current
               PROVE  /\ Numbered(rows) \subseteq Numbered(rows)'
                      /\ Numbered(added) \subseteq Numbered(rows)' \cup waived'
    OBVIOUS
  <2>1. \A m \in added : m.uv = uidValidity
    BY <1>1 DEF CoverInv, FetchCovers
  <2>2. \A m \in written : m.uid \in Numbered(rows)'
    BY <1>1, <2>1 DEF Numbered, server
  <2>3. ASSUME NEW r \in rows, r.uv = uidValidity PROVE r.uid \in Numbered(rows)'
    <3>1. CASE r.uid \in Uids(written)
      BY <2>2, <3>1 DEF Uids
    <3>2. CASE r.uid \notin Uids(written)
      BY <1>1, <2>3, <3>2 DEF Numbered, server
    <3> QED BY <3>1, <3>2
  <2>4. ASSUME NEW m \in added PROVE m.uid \in Numbered(rows)' \cup waived'
    <3>1. CASE m \in written
      BY <2>2, <3>1
    <3>2. CASE m \in skipped
      BY <1>1, <3>2 DEF Uids
    <3>3. CASE \E r \in rows : r.uid = m.uid /\ r.uv = m.uv
      BY <2>1, <2>3, <3>3
    <3> QED BY <2>1, <3>1, <3>2, <3>3
  <2> QED BY <2>3, <2>4 DEF Numbered
<1> HIDE DEF written, skipped
<1>4. /\ CursorsKnown' /\ UidsAssigned' /\ CursorCovers'
      /\ WipeStartsOver' /\ Current' = Current
      /\ (Current => next.uv = uidValidity)
  BY <1>0, <1>1, <1>2, CoverInRound
<1>5. VanishedAreGone'
  BY <1>1, <1>4 DEF CoverInv, VanishedAreGone, server
<1>6. AppliedCovers'
  <2> SUFFICES ASSUME Current
               PROVE  /\ next.high < uidNext
                      /\ \A m \in mail : m.uid <= next.high => Covered(m.uid)'
    BY <1>1, <1>4 DEF AppliedCovers, server
  <2>1. next.high < uidNext
    BY <1>1 DEF CoverInv, FetchCovers
  <2>2. ASSUME NEW m \in mail, m.uid <= next.high, since.high < m.uid
        PROVE  Covered(m.uid)'
    BY <1>1, <1>2, <2>2 DEF CoverInv, FetchCovers, Covered
  <2>3. ASSUME NEW m \in mail, m.uid <= since.high PROVE Covered(m.uid)'
    <3>1. since \in {cursor, NoCursor} /\ (since.uv = 0 \/ since.uv = uidValidity)
      BY <1>1 DEF CoverInv, CursorsKnown, SameNumbering
    <3>2. m.uid \in Nat \ {0}
      BY <1>0 DEF TypeOK, Message, Uid
    <3>3. since = cursor /\ cursor.uv = uidValidity
      BY <1>0, <2>3, <3>1, <3>2 DEF CoverInv, CursorsKnown, NoCursor
    <3>4. m.uid \in Numbered(rows) \cup waived \cup missed
      BY <2>3, <3>1, <3>3 DEF CoverInv, CursorCovers, Covered
    <3> QED BY <1>1, <1>2, <3>4 DEF Covered
  <2> QED BY <1>0, <2>1, <2>2, <2>3
<1> QED BY <1>0, <1>1, <1>4, <1>5, <1>6
        DEF CoverInv, SameNumbering, SearchCovers, FetchCovers

(* The apply stages and the cursor write keep the invariant.               *)
LEMMA CoverApply ==
  ASSUME CoverInv,
         \/ ApplyWipe \/ ApplyVanished
         \/ \E m \in updates : CheckLock(m)
         \/ \E m \in checked : WriteFlags(m)
         \/ FlagsApplied \/ AdvanceCursor
  PROVE  CoverInv'
<1>0. /\ TypeOK /\ TypeOK'
      /\ next \in Cursor /\ cursor \in Cursor /\ uidNext \in Nat \ {0}
      /\ uidValidity \in Nat /\ \A m \in mail : m.uid \in Nat \ {0}
  BY TypeApply DEF CoverInv, TypeOK, Message, Uid
<1>1. CASE ApplyWipe
  <2>1. /\ phase = "wipe" /\ phase' = "advance"
        /\ UNCHANGED <<server, cursor, since, next, waived, missed>>
    BY <1>1 DEF ApplyWipe
  <2>2. CursorsKnown' /\ UidsAssigned' /\ CursorCovers'
    BY <2>1 DEF CoverInv, CursorsKnown, UidsAssigned, CursorCovers,
                WipeStartsOver, server
  <2>3. AppliedCovers'
    BY <1>0, <2>1 DEF CoverInv, AppliedCovers, WipeStartsOver, server
  <2> QED BY <1>0, <2>1, <2>2, <2>3
          DEF CoverInv, SameNumbering, SearchCovers, FetchCovers,
              VanishedAreGone, WipeStartsOver
<1>2. CASE ApplyVanished
  <2>1. /\ phase = "vanish" /\ phase' = "flags"
        /\ rows' = {r \in rows : r.uid \notin vanished}
        /\ UNCHANGED <<server, cursor, since, next, waived, missed>>
    BY <1>2 DEF ApplyVanished
  <2>2. \A u \in Numbered(rows) : u \in vanished \/ u \in Numbered(rows)'
    BY <2>1 DEF Numbered, server
  <2>3. CursorsKnown' /\ UidsAssigned'
    BY <2>1 DEF CoverInv, CursorsKnown, UidsAssigned, server
  <2>4. CursorCovers'
    <3> SUFFICES ASSUME cursor.uv = uidValidity, NEW m \in mail,
                        m.uid <= cursor.high
                 PROVE  m.uid \in Numbered(rows)' \cup waived \cup missed
      BY <2>1 DEF CursorCovers, Covered, Numbered, server
    <3>1. next.uv \in Nat /\ cursor.high \in Nat /\ m.uid \in Nat
      BY <1>0 DEF Cursor
    <3>2. Current
      BY <1>0, <2>1, <3>1 DEF CoverInv, CursorsKnown, Current
    <3>3. m.uid \notin vanished
      BY <2>1, <3>1, <3>2 DEF CoverInv, VanishedAreGone
    <3> QED BY <2>2, <3>3 DEF CoverInv, CursorCovers, Covered
  <2>5. AppliedCovers'
    <3> SUFFICES ASSUME Current
                 PROVE  /\ next.high < uidNext
                        /\ \A m \in mail : m.uid <= next.high => Covered(m.uid)'
      BY <2>1 DEF AppliedCovers, Current, server
    <3>1. ASSUME NEW m \in mail, m.uid <= next.high PROVE Covered(m.uid)'
      <4>1. next.high \in Nat /\ m.uid \in Nat
        BY <1>0 DEF Cursor
      <4>2. m.uid \notin vanished
        BY <2>1, <3>1, <4>1 DEF CoverInv, VanishedAreGone
      <4> QED BY <2>1, <2>2, <3>1, <4>2 DEF CoverInv, AppliedCovers, Covered
    <3> QED BY <2>1, <3>1 DEF CoverInv, AppliedCovers
  <2> QED BY <1>0, <2>1, <2>3, <2>4, <2>5
          DEF CoverInv, SameNumbering, SearchCovers, FetchCovers,
              VanishedAreGone, WipeStartsOver
<1>3. ASSUME NEW m \in updates, CheckLock(m) PROVE CoverInv'
  <2>1. Numbered(rows)' = Numbered(rows)
    BY <1>3 DEF CheckLock, Numbered, server
  <2> QED BY <1>0, <1>3, <2>1, CoverKept DEF CheckLock, server
<1>4. ASSUME NEW m \in checked, WriteFlags(m) PROVE CoverInv'
  <2>1. ASSUME NEW r \in rows, r.uv = uidValidity PROVE r.uid \in Numbered(rows)'
    <3> DEFINE q == IF r.uid = m.uid THEN [r EXCEPT !.seen = m.seen, !.mod = m.mod] ELSE r
    <3>1. q.uid = r.uid /\ q.uv = r.uv
      BY <1>0 DEF TypeOK, Message
    <3>2. q \in rows' /\ UNCHANGED uidValidity
      BY <1>4 DEF WriteFlags, server
    <3> HIDE DEF q
    <3> QED BY <2>1, <3>1, <3>2 DEF Numbered
  <2>2. Numbered(rows) \subseteq Numbered(rows)'
    BY <2>1 DEF Numbered
  <2> QED BY <1>0, <1>4, <2>2, CoverKept DEF WriteFlags, server
<1>5. CASE FlagsApplied
  <2>1. /\ CursorsKnown' /\ UidsAssigned' /\ CursorCovers'
        /\ WipeStartsOver' /\ Current' = Current
    BY <1>0, <1>5, CoverInRound DEF FlagsApplied, Numbered, server
  <2>2. AppliedCovers'
    BY <1>5, <2>1 DEF FlagsApplied, CoverInv, AppliedCovers, Covered, Numbered,
                           server
  <2> QED BY <1>0, <1>5, <2>1, <2>2
          DEF FlagsApplied, CoverInv, SameNumbering, SearchCovers, FetchCovers,
              VanishedAreGone
<1>6. CASE AdvanceCursor
  <2>1. CASE UNCHANGED cursor
    BY <1>0, <1>6, <2>1, CoverOutside DEF AdvanceCursor, RoundOver
  <2>2. CASE cursor' = CursorMerged(cursor, next)
    <3>1. /\ cursor'.uv = next.uv
          /\ cursor'.high = IF cursor.uv = next.uv
                            THEN Larger(next.high, cursor.high) ELSE next.high
      BY <1>0, <2>2, CursorMergedType
    <3>2. /\ phase = "advance" /\ phase' = "idle" /\ next' = NoCursor
          /\ UNCHANGED <<server, rows, waived, missed>>
      BY <1>6 DEF AdvanceCursor, RoundOver
    <3>3. next.high \in Nat /\ cursor.high \in Nat /\ next.uv \in Nat
          /\ cursor.uv \in Nat
      BY <1>0 DEF Cursor
    <3>4. CursorsKnown'
      <4>1. cursor'.uv <= uidValidity /\ NoCursor.uv <= uidValidity
        BY <1>0, <3>1 DEF CoverInv, CursorsKnown, NoCursor
      <4>2. cursor'.uv = 0 => cursor'.high = 0
        BY <3>1, <3>2, <3>3 DEF CoverInv, CursorsKnown
      <4>3. cursor'.uv = uidValidity => cursor'.high < uidNext
        BY <3>1, <3>2, <3>3
           DEF CoverInv, CursorsKnown, AppliedCovers, Current, Larger
      <4> QED BY <3>2, <4>1, <4>2, <4>3 DEF CursorsKnown, server
    <3>5. CursorCovers'
      <4> SUFFICES ASSUME next.uv = uidValidity, NEW m \in mail,
                          m.uid <= cursor'.high
                   PROVE  Covered(m.uid)
        BY <3>1, <3>2 DEF CursorCovers, Covered, Numbered, server
      <4>1. CASE m.uid <= next.high
        BY <3>2, <4>1 DEF CoverInv, AppliedCovers, Current
      <4>2. CASE ~(m.uid <= next.high)
        <5>1. cursor.uv = uidValidity /\ m.uid <= cursor.high
          BY <1>0, <3>1, <3>3, <4>2 DEF Larger
        <5> QED BY <5>1 DEF CoverInv, CursorCovers, Covered
      <4> QED BY <4>1, <4>2
    <3>6. UidsAssigned'
      BY <3>2 DEF CoverInv, UidsAssigned, server
    <3> QED BY <1>0, <3>2, <3>4, <3>5, <3>6
            DEF CoverInv, SameNumbering, SearchCovers, FetchCovers,
                VanishedAreGone, WipeStartsOver, AppliedCovers
  <2> QED BY <1>6, <2>1, <2>2 DEF AdvanceCursor
<1> QED BY <1>1, <1>2, <1>3, <1>4, <1>5, <1>6

(* A failure drops the claims of the round, not the stored ones.           *)
LEMMA CoverFailure ==
  ASSUME CoverInv, Failure
  PROVE  CoverInv'
<1>0. TypeOK /\ TypeOK'
  BY TypeFailure DEF CoverInv
<1>1. CASE Reconnect
  <2>1. since' \in {cursor, NoCursor}
    BY <1>1 DEF Reconnect, CoverInv, CursorsKnown
  <2> QED BY <1>0, <1>1, <2>1, CoverOutside DEF Reconnect
<1>2. CASE AbortRound
  BY <1>0, <1>2, CoverOutside DEF AbortRound, RoundOver
<1>3. CASE EnqueueFails
  <2>1. Numbered(rows)' = Numbered(rows)
    BY <1>3 DEF EnqueueFails, Numbered, server
  <2> QED BY <1>0, <1>3, <2>1, CoverKept DEF EnqueueFails, server, round
<1>4. CASE Crash
  BY <1>0, <1>4, CoverOutside DEF Crash, RoundOver
<1> QED BY <1>1, <1>2, <1>3, <1>4 DEF Failure

(* CoverInv is inductive.                                                  *)
LEMMA CoverStep == CoverInv /\ [Next]_vars => CoverInv'
<1> SUFFICES ASSUME CoverInv, [Next]_vars PROVE CoverInv'
  OBVIOUS
<1>1. CASE Server
  BY <1>1, CoverServer
<1>2. CASE User
  BY <1>2, CoverUser
<1>3. CASE BeginPoll \/ BeginReplay \/ BeginPush
  BY <1>3, CoverBegin
<1>4. CASE Worker
  BY <1>4, CoverReplay, CoverStatus, CoverReceive, CoverUpsert, CoverApply
     DEF Worker, Sync
<1>5. CASE Failure
  BY <1>5, CoverFailure
<1>6. CASE UNCHANGED vars
  <2>1. TypeOK'
    BY <1>6, TypeStep DEF CoverInv
  <2>2. Numbered(rows)' = Numbered(rows)
    BY <1>6 DEF vars, Numbered, server
  <2> QED BY <1>6, <2>1, <2>2, CoverKept DEF vars, server, round
<1> QED BY <1>1, <1>2, <1>3, <1>4, <1>5, <1>6 DEF Next

(* Wherever rounds, pushes, edits, other clients and failures interleave,  *)
(* a stored cursor never claims a message of the present numbering that is *)
(* neither stored nor accounted for.                                       *)
THEOREM CursorSound == Spec => []CursorCoversFolder
<1>1. CoverInv => CursorCoversFolder
  BY DEF CoverInv, UidsAssigned, CursorCovers, CursorCoversFolder, Covered, Numbered, HasRow
<1> QED BY <1>1, CoverInit, CoverStep, PTL DEF Spec

---------------------------------------------------------------------------
(* The inductive invariant behind OnlyExpungedMailVanishes and             *)
(* RowsNeverGetOlder: how the states of a message that the database, the   *)
(* round and the server hold relate to one another.                        *)

OncePerUid(S) == \A m, n \in S : m.uid = n.uid => m = n

(* The parts of a delta are there only from the stage that fetches them.   *)
RoundShape ==
    /\ phase \notin {"changes", "expunge", "upsert", "vanish", "flags", "advance"} =>
         added = {}
    /\ phase \notin {"expunge", "upsert", "vanish", "flags", "advance"} => updates = {}
    /\ phase # "flags" => checked = {}

UidsOnce ==
    /\ OncePerUid(mail) /\ OncePerUid(rows) /\ OncePerUid(added)
    /\ OncePerUid(updates \cup checked)

MailNumbered ==
    \A m \in mail : m.uid < uidNext /\ m.uv = uidValidity /\ m.mod <= highestModseq

(* What is held locally the server said once: it is ahead of none of it.   *)
Known == rows \cup added \cup updates \cup checked
KnownIsPast ==
    /\ \A k \in Known : /\ k.mod <= highestModseq /\ k.uv <= uidValidity
                        /\ k.uv = uidValidity => k.uid < uidNext
    /\ \A k \in Known, m \in mail : k.uid = m.uid => k.mod <= m.mod

(* A delta is at least as new as what it will overwrite.                   *)
DeltaIsNewer ==
    /\ \A k \in rows \cup added, d \in updates \cup checked :
         k.uid = d.uid => k.mod <= d.mod
    /\ phase \in {"changes", "expunge", "upsert"} =>
         \A r \in rows, a \in added : r.uid = a.uid => r.mod <= a.mod

(* Until they are deleted, the rows found gone stay gone on the server.    *)
GoneIsGone ==
    phase \in {"upsert", "vanish"} =>
        \A k \in rows \cup added :
          k.uv = uidValidity /\ k.uid \in vanished => k.uid \notin Uids(mail)

PastInv ==
    /\ TypeOK /\ RoundShape /\ UidsOnce /\ MailNumbered
    /\ KnownIsPast /\ DeltaIsNewer /\ GoneIsGone

(* An empty folder and database.                                           *)
LEMMA PastInit == Init => PastInv
<1> SUFFICES ASSUME Init PROVE PastInv
  OBVIOUS
<1>1. RoundShape /\ UidsOnce /\ MailNumbered
  BY DEF Init, RoundShape, UidsOnce, OncePerUid, MailNumbered
<1>2. KnownIsPast /\ DeltaIsNewer /\ GoneIsGone
  BY DEF Init, KnownIsPast, Known, DeltaIsNewer, GoneIsGone
<1> QED BY <1>1, <1>2, TypeInit DEF PastInv

(* The types the comparisons need.                                         *)
LEMMA PastTypes ==
  ASSUME TypeOK
  PROVE  /\ uidNext \in Nat /\ uidValidity \in Nat /\ highestModseq \in Nat
         /\ \A m \in mail \cup Known : /\ m \in Message /\ m.uid \in Nat
                                       /\ m.mod \in Nat /\ m.uv \in Nat
<1>1. mail \cup Known \subseteq Message
  BY DEF TypeOK, Known
<1>2. \A m \in Message : m.uid \in Nat /\ m.mod \in Nat /\ m.uv \in Nat
  BY DEF Message, Uid
<1> QED BY <1>1, <1>2 DEF TypeOK

(* A step that makes no message older, adds none, and takes only from what *)
(* is held locally keeps the invariant.                                    *)
LEMMA PastKept ==
  ASSUME PastInv, TypeOK', RoundShape',
         OncePerUid(mail)', OncePerUid(rows)',
         UNCHANGED <<uidNext, uidValidity>>,
         highestModseq <= highestModseq',
         \A n \in mail' : /\ n.mod <= highestModseq'
                          /\ \E m \in mail : /\ m.uid = n.uid /\ m.uv = n.uv
                                             /\ m.mod <= n.mod,
         \A q \in rows' : \E r \in rows : /\ r.uid = q.uid /\ r.uv = q.uv
                                          /\ r.mod = q.mod,
         added' \subseteq added,
         (updates \cup checked)' \subseteq updates \cup checked,
         phase' \in {"changes", "expunge", "upsert"} =>
           phase \in {"changes", "expunge", "upsert"},
         phase' \in {"upsert", "vanish"} =>
           phase \in {"upsert", "vanish"} /\ vanished' = vanished
  PROVE  PastInv'
<1>1. /\ uidNext \in Nat /\ uidValidity \in Nat
      /\ highestModseq \in Nat /\ highestModseq' \in Nat
      /\ \A m \in mail \cup Known : m.uid \in Nat /\ m.mod \in Nat /\ m.uv \in Nat
      /\ \A m \in mail' \cup Known' : m.uid \in Nat /\ m.mod \in Nat /\ m.uv \in Nat
  <2>1. uidNext \in Nat /\ uidValidity \in Nat /\ highestModseq \in Nat
        /\ \A m \in mail \cup Known : m.uid \in Nat /\ m.mod \in Nat /\ m.uv \in Nat
    BY PastTypes DEF PastInv
  <2>2. highestModseq' \in Nat /\ (mail \cup Known)' \subseteq Message
    BY DEF TypeOK, Known
  <2>3. \A m \in Message : m.uid \in Nat /\ m.mod \in Nat /\ m.uv \in Nat
    BY DEF Message, Uid
  <2> QED BY <2>1, <2>2, <2>3
<1>2. \A k \in Known' : \E j \in Known : /\ j.uid = k.uid /\ j.uv = k.uv
                                         /\ j.mod = k.mod
  BY DEF Known
<1>3. UidsOnce'
  BY DEF PastInv, UidsOnce, OncePerUid
<1>4. MailNumbered'
  BY <1>1 DEF PastInv, MailNumbered
<1>5. KnownIsPast'
  <2>1. ASSUME NEW k \in Known'
        PROVE  /\ k.mod <= highestModseq' /\ k.uv <= uidValidity'
               /\ k.uv = uidValidity' => k.uid < uidNext'
    BY <1>1, <1>2 DEF PastInv, KnownIsPast
  <2>2. ASSUME NEW k \in Known', NEW n \in mail', k.uid = n.uid PROVE k.mod <= n.mod
    BY <1>1, <1>2, <2>2 DEF PastInv, KnownIsPast
  <2> QED BY <2>1, <2>2 DEF KnownIsPast
<1>6. \A k \in (rows \cup added)' : \E j \in rows \cup added :
         j.uid = k.uid /\ j.uv = k.uv /\ j.mod = k.mod
  OBVIOUS
<1>7. DeltaIsNewer'
  BY <1>6 DEF PastInv, DeltaIsNewer
<1>8. GoneIsGone'
  <2>1. Uids(mail)' \subseteq Uids(mail)
    BY DEF Uids
  <2> QED BY <1>6, <2>1 DEF PastInv, GoneIsGone
<1> QED BY <1>3, <1>4, <1>5, <1>7, <1>8 DEF PastInv

(* Mail that arrives is newer than anything, and a rebuilt folder's too.   *)
LEMMA PastServer ==
  ASSUME PastInv, Server
  PROVE  PastInv'
<1>0. TypeOK /\ TypeOK'
  BY TypeServer DEF PastInv
<1>n. /\ uidNext \in Nat /\ uidValidity \in Nat /\ highestModseq \in Nat
      /\ \A m \in mail \cup Known : /\ m \in Message /\ m.uid \in Nat
                                    /\ m.mod \in Nat /\ m.uv \in Nat
  BY <1>0, PastTypes
<1>1. CASE Deliver
  <2> DEFINE new == [uid |-> uidNext, seen |-> FALSE, mod |-> highestModseq + 1,
                     uv |-> uidValidity]
  <2>1. /\ mail' = mail \cup {new} /\ highestModseq' = highestModseq + 1
        /\ uidNext' = uidNext + 1
        /\ UNCHANGED <<uidValidity, rows, phase, added, updates, checked, vanished>>
    BY <1>1 DEF Deliver, round
  <2>2. new.uid = uidNext /\ new.mod = highestModseq + 1 /\ new.uv = uidValidity
    OBVIOUS
  <2> HIDE DEF new
  <2>3. RoundShape' /\ DeltaIsNewer'
    BY <2>1 DEF PastInv, RoundShape, DeltaIsNewer
  <2>4. UidsOnce'
    BY <1>n, <2>1, <2>2 DEF PastInv, UidsOnce, OncePerUid, MailNumbered
  <2>5. MailNumbered'
    BY <1>n, <2>1, <2>2 DEF PastInv, MailNumbered
  <2>6. KnownIsPast'
    BY <1>n, <2>1, <2>2 DEF PastInv, KnownIsPast, Known
  <2>7. GoneIsGone'
    BY <1>n, <2>1, <2>2 DEF PastInv, KnownIsPast, Known, GoneIsGone, Uids
  <2> QED BY <1>0, <2>3, <2>4, <2>5, <2>6, <2>7 DEF PastInv
<1>2. ASSUME NEW m \in mail, NEW value \in BOOLEAN, OtherClientFlags(m, value)
      PROVE  PastInv'
  <2> DEFINE new == Stored(m, value)
  <2>1. /\ mail' = (mail \ {m}) \cup {new} /\ highestModseq' = highestModseq + 1
        /\ UNCHANGED <<uidNext, uidValidity, rows, phase, added, updates, checked,
                       vanished>>
    BY <1>2 DEF OtherClientFlags, round
  <2>2. new.uid = m.uid /\ new.uv = m.uv /\ new.mod = highestModseq + 1
    BY <1>n, <1>2 DEF OtherClientFlags, Stored, Message
  <2> HIDE DEF new
  <2>3. OncePerUid(mail)'
    BY <2>1, <2>2 DEF PastInv, UidsOnce, OncePerUid
  <2>4. \A n \in mail' : /\ n.mod <= highestModseq'
                         /\ \E k \in mail : /\ k.uid = n.uid /\ k.uv = n.uv
                                            /\ k.mod <= n.mod
    BY <1>n, <2>1, <2>2 DEF PastInv, MailNumbered
  <2>5. RoundShape' /\ OncePerUid(rows)'
    BY <2>1 DEF PastInv, RoundShape, UidsOnce, OncePerUid
  <2> QED BY <1>0, <1>n, <2>1, <2>3, <2>4, <2>5, PastKept
<1>3. ASSUME NEW m \in mail, OtherClientExpunges(m) PROVE PastInv'
  <2>1. /\ mail' = mail \ {m} /\ highestModseq <= highestModseq'
        /\ highestModseq' \in Nat
        /\ UNCHANGED <<uidNext, uidValidity, rows, phase, added, updates, checked,
                       vanished>>
    BY <1>n, <1>3 DEF OtherClientExpunges, ModseqAfterExpunge, round
  <2>2. \A n \in mail' : /\ n.mod <= highestModseq'
                         /\ \E k \in mail : /\ k.uid = n.uid /\ k.uv = n.uv
                                            /\ k.mod <= n.mod
    BY <1>n, <2>1 DEF PastInv, MailNumbered
  <2>3. RoundShape' /\ OncePerUid(rows)' /\ OncePerUid(mail)'
    BY <2>1 DEF PastInv, RoundShape, UidsOnce, OncePerUid
  <2> QED BY <1>0, <2>1, <2>2, <2>3, PastKept
<1>4. ASSUME NEW n \in Uid, Rebuild(n) PROVE PastInv'
  <2>1. /\ highestModseq' = highestModseq + 1 /\ uidValidity' = uidValidity + 1
        /\ uidNext' = n + 1 /\ n \in Nat
        /\ UNCHANGED <<rows, phase, added, updates, checked, vanished>>
    BY <1>4 DEF Rebuild, round, Uid
  <2>2. \A m \in mail' : /\ m.uid \in 1..n /\ m.mod = highestModseq + 1
                         /\ m.uv = uidValidity + 1 /\ m.seen = FALSE
    BY <1>4 DEF Rebuild
  <2>3. RoundShape' /\ DeltaIsNewer'
    BY <2>1 DEF PastInv, RoundShape, DeltaIsNewer
  <2>4. UidsOnce'
    <3> DEFINE fresh(u) == [uid |-> u, seen |-> FALSE, mod |-> highestModseq + 1,
                            uv |-> uidValidity + 1]
    <3>1. mail' = {fresh(u) : u \in 1..n}
      BY <1>4 DEF Rebuild
    <3>2. \A u \in 1..n : fresh(u).uid = u
      OBVIOUS
    <3> HIDE DEF fresh
    <3>3. OncePerUid(mail)'
      BY <3>1, <3>2 DEF OncePerUid
    <3> QED BY <2>1, <3>3 DEF PastInv, UidsOnce, OncePerUid
  <2>5. MailNumbered'
    BY <1>n, <2>1, <2>2 DEF MailNumbered
  <2>6. KnownIsPast'
    BY <1>n, <2>1, <2>2 DEF PastInv, KnownIsPast, Known
  <2>7. GoneIsGone'
    BY <1>n, <2>1 DEF PastInv, KnownIsPast, Known, GoneIsGone
  <2> QED BY <1>0, <2>3, <2>4, <2>5, <2>6, <2>7 DEF PastInv
<1> QED BY <1>1, <1>2, <1>3, <1>4 DEF Server

(* The user's writes leave a row's knowledge of the server as it is.       *)
LEMMA PastUser ==
  ASSUME PastInv, User
  PROVE  PastInv'
<1>0. TypeOK /\ TypeOK' /\ highestModseq \in Nat
      /\ \A m \in mail : m.mod \in Nat /\ m.mod <= highestModseq
  BY TypeUser, PastTypes DEF PastInv, MailNumbered
<1>1. RoundShape' /\ OncePerUid(mail)' /\ UNCHANGED <<server, round>>
  BY DEF User, UserWrites, UserEnqueues, PastInv, RoundShape, UidsOnce,
         OncePerUid, server, round
<1>2. /\ \A q \in rows' : \E r \in rows : /\ r.uid = q.uid /\ r.uv = q.uv
                                          /\ r.mod = q.mod
      /\ OncePerUid(rows)'
  <2>1. ASSUME NEW r \in rows, NEW op \in EditKind, UserWrites(r, op)
        PROVE  /\ \A q \in rows' : \E p \in rows : /\ p.uid = q.uid /\ p.uv = q.uv
                                                   /\ p.mod = q.mod
               /\ OncePerUid(rows)'
    <3> DEFINE new == [r EXCEPT !.seen = (op = "seen")]
    <3>1. new.uid = r.uid /\ new.uv = r.uv /\ new.mod = r.mod
      BY <1>0 DEF TypeOK, Message
    <3>2. rows' \subseteq (rows \ {r}) \cup {new}
      BY <2>1 DEF UserWrites, EditRow
    <3> HIDE DEF new
    <3> QED BY <3>1, <3>2 DEF PastInv, UidsOnce, OncePerUid
  <2>2. ASSUME NEW e \in editing, UserEnqueues(e) PROVE rows' = rows
    BY <2>2 DEF UserEnqueues
  <2> QED BY <2>1, <2>2 DEF User, PastInv, UidsOnce, OncePerUid
<1> QED BY <1>0, <1>1, <1>2, PastKept DEF server, round

(* A replayed operation makes no message older.                            *)
LEMMA ServerAfterNewer ==
  ASSUME PastInv, NEW e \in Edit
  PROVE  /\ highestModseq <= ModseqAfter(e)
         /\ OncePerUid(ServerAfter(e))
         /\ \A n \in ServerAfter(e) :
              /\ n.mod <= ModseqAfter(e)
              /\ \E m \in mail : /\ m.uid = n.uid /\ m.uv = n.uv
                                 /\ m.mod <= n.mod
<1>1. /\ TypeOK /\ highestModseq \in Nat
      /\ \A m \in mail : m \in Message /\ m.mod \in Nat /\ m.mod <= highestModseq
  BY PastTypes DEF PastInv, MailNumbered
<1>2. CASE e.op = "delete"
  BY <1>1, <1>2 DEF ServerAfter, ModseqAfter, ModseqAfterExpunge, PastInv,
                    UidsOnce, OncePerUid
<1>3. CASE e.op # "delete"
  <2> DEFINE after(m) == IF m.uid = e.uid THEN Stored(m, e.op = "seen") ELSE m
  <2>1. ServerAfter(e) = {after(m) : m \in mail}
    BY <1>3 DEF ServerAfter
  <2>2. ASSUME NEW m \in mail
        PROVE  /\ after(m).uid = m.uid /\ after(m).uv = m.uv
               /\ m.mod <= after(m).mod /\ after(m).mod <= highestModseq + 1
    BY <1>1 DEF Stored, Message
  <2> HIDE DEF after
  <2>3. OncePerUid(ServerAfter(e))
    BY <2>1, <2>2 DEF PastInv, UidsOnce, OncePerUid
  <2>4. CASE ServerAfter(e) = mail
    BY <1>1, <1>3, <2>3, <2>4 DEF ModseqAfter
  <2>5. CASE ServerAfter(e) # mail
    BY <1>1, <1>3, <2>1, <2>2, <2>3, <2>5 DEF ModseqAfter
  <2> QED BY <2>4, <2>5
<1> QED BY <1>2, <1>3

(* An acknowledged row says what the server has after the operation.       *)
LEMMA AcknowledgedNewer ==
  ASSUME PastInv, NEW e \in Edit, NEW r \in rows
  PROVE  /\ Acknowledged(r, e).uid = r.uid /\ Acknowledged(r, e).uv = r.uv
         /\ r.mod <= Acknowledged(r, e).mod
         /\ Acknowledged(r, e).mod <= ModseqAfter(e)
         /\ \A n \in ServerAfter(e) : n.uid = r.uid => Acknowledged(r, e).mod <= n.mod
<1>1. /\ TypeOK /\ r \in Message /\ r.mod \in Nat /\ r.mod <= highestModseq
      /\ highestModseq \in Nat /\ ModseqAfter(e) \in Nat
      /\ \A m \in mail : m.mod \in Nat /\ (m.uid = r.uid => r.mod <= m.mod)
  BY PastTypes, ServerAfterType DEF PastInv, KnownIsPast, Known
<1>2. \A n \in ServerAfter(e) :
        n.mod \in Nat /\ n.mod <= ModseqAfter(e) /\ (n.uid = r.uid => r.mod <= n.mod)
  <2>1. \A n \in ServerAfter(e) : n.mod \in Nat
    BY <1>1, ServerAfterType DEF Message
  <2> QED BY <1>1, <2>1, ServerAfterNewer
<1>3. CASE /\ r.uid \in Uids(ServerAfter(e)) /\ r.uv = uidValidity
           /\ r.uid = e.uid
  <2>1. \E m \in ServerAfter(e) : m.uid = r.uid
    BY <1>3 DEF Uids
  <2> DEFINE s == CHOOSE m \in ServerAfter(e) : m.uid = r.uid
  <2>2. s \in ServerAfter(e) /\ s.uid = r.uid
    BY <2>1
  <2>3. Acknowledged(r, e) = [r EXCEPT !.mod = s.mod]
    BY <1>3 DEF Acknowledged
  <2> HIDE DEF s
  <2>4. /\ Acknowledged(r, e).uid = r.uid /\ Acknowledged(r, e).uv = r.uv
        /\ Acknowledged(r, e).mod = s.mod
    BY <1>1, <2>3 DEF Message
  <2>5. \A n \in ServerAfter(e) : n.uid = r.uid => n = s
    BY <2>2, ServerAfterNewer DEF OncePerUid
  <2> QED BY <1>2, <2>2, <2>4, <2>5
<1>4. CASE ~(/\ r.uid \in Uids(ServerAfter(e)) /\ r.uv = uidValidity
             /\ r.uid = e.uid)
  <2>1. Acknowledged(r, e) = r
    BY <1>4 DEF Acknowledged
  <2> QED BY <1>1, <1>2, <2>1, ServerAfterNewer
<1> QED BY <1>3, <1>4

(* Replay works with no delta at hand.                                     *)
LEMMA PastReplay ==
  ASSUME PastInv, NEW e \in due, ReplayOp(e)
  PROVE  PastInv'
<1>0. /\ TypeOK /\ TypeOK' /\ e \in Edit /\ phase = "replay" /\ phase' = "replay"
      /\ added = {} /\ updates = {} /\ checked = {}
  BY TypeReplay DEF PastInv, TypeOK, RoundShape, ReplayOp
<1>n. /\ uidNext \in Nat /\ uidValidity \in Nat /\ highestModseq \in Nat
      /\ \A m \in mail \cup Known : m.uid \in Nat /\ m.mod \in Nat /\ m.uv \in Nat
  BY <1>0, PastTypes
<1>1. /\ UNCHANGED <<uidNext, uidValidity, added, updates, checked, vanished, phase>>
      /\ RoundShape'
  BY <1>0 DEF ReplayOp, RoundShape
<1>2. /\ highestModseq <= highestModseq' /\ OncePerUid(mail)'
      /\ \A n \in mail' : /\ n.mod <= highestModseq'
                          /\ \E m \in mail : /\ m.uid = n.uid /\ m.uv = n.uv
                                             /\ m.mod <= n.mod
  <2>1. CASE mail' = ServerAfter(e) /\ highestModseq' = ModseqAfter(e)
    BY <1>0, <2>1, ServerAfterNewer DEF OncePerUid
  <2>2. CASE mail' = mail /\ highestModseq' = highestModseq
    BY <1>n, <2>2 DEF PastInv, MailNumbered, UidsOnce, OncePerUid
  <2> QED BY <2>1, <2>2 DEF ReplayOp
<1>3. CASE rows' = rows
  <2>1. OncePerUid(rows)'
    BY <1>3 DEF PastInv, UidsOnce, OncePerUid
  <2> QED BY <1>0, <1>1, <1>2, <1>3, <2>1, PastKept
<1>4. CASE /\ rows' = {Acknowledged(r, e) : r \in rows}
           /\ mail' = ServerAfter(e) /\ highestModseq' = ModseqAfter(e)
  <2>1. ASSUME NEW q \in rows'
        PROVE  \E r \in rows : /\ q.uid = r.uid /\ q.uv = r.uv
                               /\ q.mod <= highestModseq'
                               /\ q = Acknowledged(r, e)
                               /\ \A n \in mail' : n.uid = q.uid => q.mod <= n.mod
    BY <1>0, <1>4, AcknowledgedNewer
  <2>2. UidsOnce'
    BY <1>0, <1>1, <1>2, <2>1 DEF PastInv, UidsOnce, OncePerUid
  <2>3. MailNumbered'
    BY <1>n, <1>1, <1>2 DEF PastInv, MailNumbered
  <2>4. KnownIsPast'
    BY <1>n, <1>0, <1>1, <2>1 DEF PastInv, KnownIsPast, Known
  <2>5. DeltaIsNewer' /\ GoneIsGone'
    BY <1>0, <1>1 DEF DeltaIsNewer, GoneIsGone
  <2> QED BY <1>0, <1>1, <2>2, <2>3, <2>4, <2>5 DEF PastInv
<1> QED BY <1>3, <1>4 DEF ReplayOp

(* A step of a round that leaves server and rows alone and fetches nothing *)
(* keeps the invariant.                                                    *)
LEMMA PastQuiet ==
  ASSUME PastInv, TypeOK', RoundShape',
         UNCHANGED server, rows' \subseteq rows,
         added' \subseteq added,
         (updates \cup checked)' \subseteq updates \cup checked,
         phase' \in {"changes", "expunge", "upsert"} =>
           phase \in {"changes", "expunge", "upsert"},
         phase' \in {"upsert", "vanish"} =>
           phase \in {"upsert", "vanish"} /\ vanished' = vanished
  PROVE  PastInv'
<1>1. /\ highestModseq \in Nat /\ \A m \in mail : m.mod \in Nat
      /\ \A m \in mail : m.mod <= highestModseq
  BY PastTypes DEF PastInv, MailNumbered
<1>2. OncePerUid(mail)' /\ OncePerUid(rows)'
  BY DEF server, PastInv, UidsOnce, OncePerUid
<1> QED BY <1>1, <1>2, PastKept DEF server

(* Beginning a round, STATUS, the search and the ends of a round.          *)
LEMMA PastRound ==
  ASSUME PastInv,
         \/ BeginPoll \/ BeginReplay \/ BeginPush \/ EndReplayRound \/ Load
         \/ StatusWipe \/ StatusSkip \/ StatusGoOn \/ SearchNew
         \/ FlagsApplied \/ AdvanceCursor \/ ApplyWipe \/ ApplyVanished
         \/ (\E m \in updates : CheckLock(m)) \/ Failure
  PROVE  PastInv'
<1>0. TypeOK'
  BY TypeBegin, TypeReceive, TypeApply, TypeFailure DEF PastInv
<1>1. CASE BeginPoll \/ BeginReplay \/ BeginPush
  <2>1. RoundShape'
    BY <1>1 DEF BeginPoll, BeginReplay, BeginPush, PastInv, RoundShape
  <2> QED BY <1>0, <1>1, <2>1, PastQuiet DEF BeginPoll, BeginReplay, BeginPush
<1>2. CASE EndReplayRound \/ Load \/ StatusWipe \/ StatusSkip \/ StatusGoOn
           \/ SearchNew
  <2>1. RoundShape'
    BY <1>2 DEF EndReplayRound, Load, StatusWipe, StatusSkip, StatusGoOn,
                SearchNew, PastInv, RoundShape
  <2> QED BY <1>0, <1>2, <2>1, PastQuiet
          DEF EndReplayRound, Load, StatusWipe, StatusSkip, StatusGoOn, SearchNew
<1>3. CASE FlagsApplied \/ AdvanceCursor \/ ApplyWipe \/ ApplyVanished
  <2>1. RoundShape'
    BY <1>3 DEF FlagsApplied, AdvanceCursor, RoundOver, ApplyWipe, ApplyVanished,
                PastInv, RoundShape
  <2> QED BY <1>0, <1>3, <2>1, PastQuiet
          DEF FlagsApplied, AdvanceCursor, RoundOver, ApplyWipe, ApplyVanished
<1>4. ASSUME NEW m \in updates, CheckLock(m) PROVE PastInv'
  <2>1. RoundShape'
    BY <1>4 DEF CheckLock, PastInv, RoundShape
  <2> QED BY <1>0, <1>4, <2>1, PastQuiet DEF CheckLock
<1>5. CASE Failure
  <2>1. RoundShape'
    BY <1>5 DEF Failure, Reconnect, AbortRound, EnqueueFails, Crash, RoundOver,
                round, PastInv, RoundShape
  <2> QED BY <1>0, <1>5, <2>1, PastQuiet
          DEF Failure, Reconnect, AbortRound, EnqueueFails, Crash, RoundOver, round
<1> QED BY <1>1, <1>2, <1>3, <1>4, <1>5

(* What is fetched is the server's present state.                          *)
LEMMA PastReceive ==
  ASSUME PastInv, FetchNew \/ GetChanges \/ GetVanished
  PROVE  PastInv'
<1>0. TypeOK /\ TypeOK'
  BY TypeReceive DEF PastInv
<1>n. /\ uidNext \in Nat /\ uidValidity \in Nat /\ highestModseq \in Nat
      /\ \A m \in mail \cup Known : m.uid \in Nat /\ m.mod \in Nat /\ m.uv \in Nat
  BY <1>0, PastTypes
<1>s. UNCHANGED <<server, rows>> /\ MailNumbered'
  BY DEF FetchNew, GetChanges, GetVanished, server, PastInv, MailNumbered
<1>m. \A k \in mail : /\ k.mod <= highestModseq /\ k.uv <= uidValidity
                      /\ k.uid < uidNext
                      /\ \A m \in mail : k.uid = m.uid => k.mod <= m.mod
  BY <1>n DEF PastInv, MailNumbered, UidsOnce, OncePerUid
<1>1. CASE FetchNew
  <2>1. /\ added' \subseteq mail /\ phase' = "changes"
        /\ updates' = {} /\ checked' = {}
    BY <1>1 DEF FetchNew, PastInv, RoundShape
  <2>2. RoundShape' /\ UidsOnce' /\ GoneIsGone'
    BY <1>s, <2>1 DEF PastInv, RoundShape, UidsOnce, OncePerUid, GoneIsGone, server
  <2>3. KnownIsPast'
    BY <1>m, <1>s, <2>1 DEF PastInv, KnownIsPast, Known, server
  <2>4. DeltaIsNewer'
    BY <1>s, <2>1 DEF PastInv, KnownIsPast, Known, DeltaIsNewer
  <2> QED BY <1>0, <1>s, <2>2, <2>3, <2>4 DEF PastInv
<1>2. CASE GetChanges
  <2>1. /\ updates' \subseteq mail /\ phase' = "expunge" /\ phase = "changes"
        /\ added' = added /\ checked' = {}
    BY <1>2 DEF GetChanges, PastInv, RoundShape
  <2>2. RoundShape' /\ UidsOnce' /\ GoneIsGone'
    BY <1>s, <2>1 DEF PastInv, RoundShape, UidsOnce, OncePerUid, GoneIsGone, server
  <2>3. KnownIsPast'
    BY <1>m, <1>s, <2>1 DEF PastInv, KnownIsPast, Known, server
  <2>4. DeltaIsNewer'
    BY <1>s, <2>1 DEF PastInv, KnownIsPast, Known, DeltaIsNewer
  <2> QED BY <1>0, <1>s, <2>2, <2>3, <2>4 DEF PastInv
<1>3. CASE GetVanished
  <2>1. /\ phase' = "upsert" /\ phase = "expunge"
        /\ UNCHANGED <<added, updates, checked>>
        /\ \A u \in vanished' : u \notin Uids(mail)
    BY <1>3 DEF GetVanished, NoneVanished
  <2>2. RoundShape' /\ UidsOnce' /\ KnownIsPast' /\ DeltaIsNewer'
    BY <1>s, <2>1 DEF PastInv, RoundShape, UidsOnce, OncePerUid, KnownIsPast,
                      Known, DeltaIsNewer, server
  <2>3. GoneIsGone'
    BY <1>s, <2>1 DEF GoneIsGone, Uids, server
  <2> QED BY <1>0, <1>s, <2>2, <2>3 DEF PastInv
<1> QED BY <1>1, <1>2, <1>3

(* Storing a delta replaces rows by states that are at least as new.       *)
LEMMA PastApply ==
  ASSUME PastInv, ApplyUpsert \/ \E m \in checked : WriteFlags(m)
  PROVE  PastInv'
<1>0. TypeOK /\ TypeOK'
  BY TypeApply DEF PastInv
<1>n. /\ uidNext \in Nat /\ uidValidity \in Nat /\ highestModseq \in Nat
      /\ \A m \in mail \cup Known : /\ m \in Message /\ m.uid \in Nat
                                    /\ m.mod \in Nat /\ m.uv \in Nat
  BY <1>0, PastTypes
<1>1. CASE ApplyUpsert
  <2>1. PICK written \in SUBSET added :
          rows' = {r \in rows : r.uid \notin Uids(written)} \cup written
    BY <1>1 DEF ApplyUpsert
  <2>2. /\ UNCHANGED <<server, added, updates, checked, vanished>>
        /\ phase = "upsert" /\ phase' = "vanish"
    BY <1>1 DEF ApplyUpsert
  <2>3. OncePerUid(rows)'
    BY <2>1 DEF PastInv, UidsOnce, OncePerUid, Uids
  <2>4. RoundShape' /\ UidsOnce' /\ MailNumbered'
    BY <2>2, <2>3 DEF PastInv, RoundShape, UidsOnce, OncePerUid, MailNumbered, server
  <2>5. KnownIsPast'
    BY <2>1, <2>2 DEF PastInv, KnownIsPast, Known, server
  <2>6. DeltaIsNewer' /\ GoneIsGone'
    BY <2>1, <2>2 DEF PastInv, DeltaIsNewer, GoneIsGone, server
  <2> QED BY <1>0, <2>4, <2>5, <2>6 DEF PastInv
<1>2. ASSUME NEW m \in checked, WriteFlags(m) PROVE PastInv'
  <2> DEFINE flagged(r) == IF r.uid = m.uid THEN [r EXCEPT !.seen = m.seen, !.mod = m.mod]
                           ELSE r
  <2>1. /\ rows' = {flagged(r) : r \in rows} /\ checked' = {}
        /\ UNCHANGED <<server, added, updates, vanished, phase>> /\ phase = "flags"
    BY <1>2 DEF WriteFlags
  <2>2. ASSUME NEW r \in rows
        PROVE  /\ flagged(r).uid = r.uid /\ flagged(r).uv = r.uv
               /\ flagged(r).mod = IF r.uid = m.uid THEN m.mod ELSE r.mod
    BY <1>n DEF Message, Known
  <2> HIDE DEF flagged
  <2>3. RoundShape' /\ UidsOnce' /\ MailNumbered' /\ GoneIsGone'
    BY <2>1, <2>2 DEF PastInv, RoundShape, UidsOnce, OncePerUid, MailNumbered,
                      GoneIsGone, server
  <2>4. KnownIsPast'
    BY <1>n, <2>1, <2>2 DEF PastInv, KnownIsPast, Known, server
  <2>5. DeltaIsNewer'
    <3>1. ASSUME NEW r \in rows, NEW d \in updates, r.uid = d.uid
          PROVE  flagged(r).mod <= d.mod
      <4>1. CASE r.uid = m.uid
        <5>1. d = m
          BY <3>1, <4>1 DEF PastInv, UidsOnce, OncePerUid
        <5>2. m.mod \in Nat
          BY <1>n DEF Known
        <5> QED BY <2>2, <4>1, <5>1, <5>2
      <4>2. CASE r.uid # m.uid
        BY <2>2, <3>1, <4>2 DEF PastInv, DeltaIsNewer
      <4> QED BY <4>1, <4>2
    <3> QED BY <2>1, <2>2, <3>1 DEF PastInv, DeltaIsNewer
  <2> QED BY <1>0, <2>3, <2>4, <2>5 DEF PastInv
<1> QED BY <1>1, <1>2

(* PastInv is inductive.                                                   *)
LEMMA PastStep == PastInv /\ [Next]_vars => PastInv'
<1> SUFFICES ASSUME PastInv, [Next]_vars PROVE PastInv'
  OBVIOUS
<1>1. CASE Server
  BY <1>1, PastServer
<1>2. CASE User
  BY <1>2, PastUser
<1>3. CASE BeginPoll \/ BeginReplay \/ BeginPush \/ Failure
  BY <1>3, PastRound
<1>4. CASE Worker
  BY <1>4, PastReplay, PastRound, PastReceive, PastApply DEF Worker, Sync
<1>5. CASE UNCHANGED vars
  <2>1. TypeOK'
    BY <1>5, TypeStep DEF PastInv
  <2>2. RoundShape'
    BY <1>5 DEF vars, round, PastInv, RoundShape
  <2> QED BY <1>5, <2>1, <2>2, PastQuiet DEF vars, round
<1> QED BY <1>1, <1>2, <1>3, <1>4, <1>5 DEF Next

(* Between the search that misses a UID and the deletion of its row no     *)
(* message of the present numbering can have taken that UID, however many  *)
(* arrive; so a round costs the user no mail.                              *)
THEOREM OnlyExpungedMailIsDropped == Spec => OnlyExpungedMailVanishes
<1>1. PastInv /\ [Next]_vars =>
        [phase # "wipe" /\ editing' = editing =>
           \A r \in rows : r.uid \in Uids(rows') \/ r.uv # uidValidity
                           \/ r.uid \notin Uids(mail)]_vars
  <2> SUFFICES ASSUME PastInv, Next, phase # "wipe", editing' = editing,
                      NEW r \in rows
               PROVE  r.uid \in Uids(rows') \/ r.uv # uidValidity
                      \/ r.uid \notin Uids(mail)
    BY DEF vars, Uids
  <2>0. TypeOK
    BY DEF PastInv
  <2>1. CASE rows' = rows
    BY <2>1 DEF Uids
  <2>2. ASSUME NEW p \in rows, NEW op \in EditKind, UserWrites(p, op) PROVE FALSE
    BY <2>2 DEF UserWrites
  <2>3. ASSUME NEW e \in due, rows' = {Acknowledged(q, e) : q \in rows}
        PROVE  r.uid \in Uids(rows')
    BY <2>0, <2>3, AcknowledgedType DEF TypeOK, Uids
  <2>4. CASE ApplyUpsert
    BY <2>4 DEF ApplyUpsert, Uids
  <2>5. CASE ApplyVanished
    BY <2>5 DEF ApplyVanished, PastInv, GoneIsGone, Uids
  <2>6. ASSUME NEW m \in checked, WriteFlags(m) PROVE r.uid \in Uids(rows')
    <3>1. [r EXCEPT !.seen = m.seen, !.mod = m.mod].uid = r.uid
      BY <2>0 DEF TypeOK, Message
    <3> QED BY <2>6, <3>1 DEF WriteFlags, Uids
  <2> QED BY <2>1, <2>2, <2>3, <2>4, <2>5, <2>6
          DEF Next, Server, Deliver, OtherClientFlags, OtherClientExpunges,
              Rebuild, User, UserEnqueues, BeginPoll, BeginReplay, BeginPush,
              Worker, Sync, ReplayOp, EndReplayRound, Load, StatusWipe,
              StatusSkip, StatusGoOn, SearchNew, FetchNew, GetChanges,
              GetVanished, ApplyWipe, CheckLock, FlagsApplied, AdvanceCursor,
              Failure, Reconnect, AbortRound, EnqueueFails, Crash
<1> QED BY <1>1, PastInit, PastStep, PTL DEF Spec, OnlyExpungedMailVanishes

(* A delta in memory is never overtaken by the row it will overwrite: an   *)
(* acknowledged edit, which makes a row newer, comes before the round's    *)
(* fetches or after its writes.                                            *)
THEOREM RowsKeepUp == Spec => RowsNeverGetOlder
<1>1. PastInv /\ [Next]_vars =>
        [\A r \in rows, q \in rows' :
           r.uid = q.uid /\ r.uv = q.uv => q.mod >= r.mod]_vars
  <2> SUFFICES ASSUME PastInv, Next, NEW r \in rows, NEW q \in rows', r.uid = q.uid
               PROVE  r.mod <= q.mod
    OBVIOUS
  <2>0. /\ TypeOK /\ r \in Message /\ r.mod \in Nat
        /\ \A p \in rows : p.uid = r.uid => p = r
    BY PastTypes DEF PastInv, UidsOnce, OncePerUid, Known
  <2>1. CASE rows' \subseteq rows
    BY <2>0, <2>1
  <2>2. ASSUME NEW p \in rows, NEW op \in EditKind, UserWrites(p, op)
        PROVE  r.mod <= q.mod
    <3>1. /\ [p EXCEPT !.seen = (op = "seen")].uid = p.uid
          /\ [p EXCEPT !.seen = (op = "seen")].mod = p.mod
      BY <2>0 DEF TypeOK, Message
    <3>2. q \in rows \/ q = [p EXCEPT !.seen = (op = "seen")]
      BY <2>2 DEF UserWrites, EditRow
    <3>3. CASE q \in rows
      BY <2>0, <3>3
    <3>4. CASE q = [p EXCEPT !.seen = (op = "seen")]
      <4>1. p = r
        BY <2>0, <3>1, <3>4
      <4> QED BY <2>0, <3>1, <3>4, <4>1
    <3> QED BY <3>2, <3>3, <3>4
  <2>3. ASSUME NEW e \in due, rows' = {Acknowledged(p, e) : p \in rows}
        PROVE  r.mod <= q.mod
    <3>1. e \in Edit
      BY <2>0 DEF TypeOK
    <3>2. PICK p \in rows : q = Acknowledged(p, e)
      BY <2>3
    <3> QED BY <2>0, <3>1, <3>2, AcknowledgedNewer
  <2>4. CASE ApplyUpsert
    <3>1. q \in rows \/ q \in added
      BY <2>4 DEF ApplyUpsert
    <3> QED BY <2>0, <2>4, <3>1 DEF ApplyUpsert, PastInv, DeltaIsNewer
  <2>5. ASSUME NEW m \in checked, WriteFlags(m) PROVE r.mod <= q.mod
    <3>1. PICK p \in rows : q = IF p.uid = m.uid
                                THEN [p EXCEPT !.seen = m.seen, !.mod = m.mod] ELSE p
      BY <2>5 DEF WriteFlags
    <3>2. [p EXCEPT !.seen = m.seen, !.mod = m.mod].uid = p.uid
          /\ [p EXCEPT !.seen = m.seen, !.mod = m.mod].mod = m.mod
      BY <2>0 DEF TypeOK, Message
    <3>3. q.uid = p.uid /\ p = r
      BY <2>0, <3>1, <3>2
    <3> QED BY <2>0, <3>1, <3>2, <3>3 DEF PastInv, DeltaIsNewer
  <2> QED BY <2>1, <2>2, <2>3, <2>4, <2>5
          DEF Next, Server, Deliver, OtherClientFlags, OtherClientExpunges,
              Rebuild, User, UserEnqueues, BeginPoll, BeginReplay, BeginPush,
              Worker, Sync, ReplayOp, EndReplayRound, Load, StatusWipe,
              StatusSkip, StatusGoOn, SearchNew, FetchNew, GetChanges,
              GetVanished, ApplyWipe, ApplyVanished, CheckLock, FlagsApplied,
              AdvanceCursor, Failure, Reconnect, AbortRound, EnqueueFails, Crash
<1> QED BY <1>1, PastInit, PastStep, PTL DEF Spec, RowsNeverGetOlder

---------------------------------------------------------------------------
(* The folder's sync implements what Mirror promises of a source. To what   *)
(* is known of a round two facts are to be added: what it fetched again of *)
(* the messages that the stored cursor vouches for is held or accounted    *)
(* for, and while it works from a numbering that is over the store has     *)
(* nothing of the new one yet.                                             *)

RefetchedCovered ==
    phase \in {"changes", "expunge", "upsert"} /\ cursor.uv = uidValidity =>
        \A m \in added : m.uv = uidValidity /\ m.uid <= cursor.high => Covered(m.uid)

NothingNewer ==
    phase \in {"search", "fetch", "changes", "expunge", "upsert"} /\ ~Current =>
        \A r \in rows : r.uv # uidValidity

MirrorInv == CoverInv /\ PastInv /\ RefetchedCovered /\ NothingNewer

LEMMA RefetchedStep ==
  ASSUME CoverInv, RefetchedCovered, [Next]_vars
  PROVE  RefetchedCovered'
<1> DEFINE working == {"changes", "expunge", "upsert"}
<1>0. TypeOK /\ CoverInv'
  BY CoverStep DEF CoverInv
<1>1. ASSUME UNCHANGED <<uidValidity, cursor, added>>, phase' \in working => phase \in working,
             waived \subseteq waived', missed \subseteq missed',
             Numbered(rows) \subseteq Numbered(rows)' \cup waived'
      PROVE  RefetchedCovered'
  BY <1>1 DEF RefetchedCovered, Covered
<1>2. CASE phase' \notin working
  BY <1>2 DEF RefetchedCovered
<1>3. CASE FetchNew
  <2>1. added' \subseteq mail /\ UNCHANGED mail
    BY <1>3 DEF FetchNew, server
  <2> QED BY <1>0, <2>1 DEF CoverInv, CursorCovers, RefetchedCovered
<1>4. CASE \E n \in Uid : Rebuild(n)
  <2>1. uidValidity' = uidValidity + 1 /\ UNCHANGED cursor
    BY <1>4 DEF Rebuild
  <2>2. cursor.uv # uidValidity'
    BY <1>0, <2>1 DEF CoverInv, CursorsKnown, TypeOK, Cursor
  <2> QED BY <2>1, <2>2 DEF RefetchedCovered
<1>5. CASE User
  <2>1. UNCHANGED <<uidValidity, cursor, added, phase, missed>> /\ waived \subseteq waived'
    BY <1>5 DEF User, UserWrites, UserEnqueues, server, round
  <2>2. Numbered(rows) \subseteq Numbered(rows)' \cup waived'
    <3>1. CASE UNCHANGED rows
      BY <2>1, <3>1 DEF Numbered
    <3> QED BY <1>0, <1>5, <3>1, UserUncoversNone DEF User, UserEnqueues
  <2> QED BY <1>1, <2>1, <2>2
<1>6. CASE \/ Deliver
           \/ \E m \in mail, value \in BOOLEAN : OtherClientFlags(m, value)
           \/ \E m \in mail : OtherClientExpunges(m)
           \/ EnqueueFails \/ UNCHANGED vars
  <2>1. UNCHANGED <<uidValidity, rows, cursor, added, phase, waived, missed>>
    BY <1>6 DEF Deliver, OtherClientFlags, OtherClientExpunges, EnqueueFails, vars, server,
                round
  <2>2. Numbered(rows)' = Numbered(rows)
    BY <2>1 DEF Numbered
  <2> QED BY <1>1, <2>1, <2>2
<1>7. CASE GetChanges \/ GetVanished
  <2>1. UNCHANGED <<uidValidity, rows, cursor, added, waived, missed>> /\ phase \in working
    BY <1>7 DEF GetChanges, GetVanished, server
  <2>2. Numbered(rows)' = Numbered(rows)
    BY <2>1 DEF Numbered
  <2> QED BY <1>1, <2>1, <2>2
<1>8. CASE (\E e \in due : ReplayOp(e)) \/ BeginPoll \/ BeginReplay \/ BeginPush
  BY <1>0, <1>2, <1>8 DEF ReplayOp, BeginPoll, BeginReplay, BeginPush, TypeOK
<1>9. CASE EndReplayRound \/ Load \/ StatusWipe \/ StatusSkip \/ StatusGoOn \/ SearchNew
  BY <1>2, <1>9 DEF EndReplayRound, Load, StatusWipe, StatusSkip, StatusGoOn, SearchNew
<1>10. CASE \/ ApplyWipe \/ ApplyUpsert \/ ApplyVanished \/ FlagsApplied
            \/ \E m \in updates : CheckLock(m)
            \/ \E m \in checked : WriteFlags(m)
  BY <1>2, <1>10
     DEF ApplyWipe, ApplyUpsert, ApplyVanished, FlagsApplied, CheckLock, WriteFlags
<1>11. CASE AdvanceCursor \/ Reconnect \/ AbortRound \/ Crash
  BY <1>2, <1>11 DEF AdvanceCursor, Reconnect, AbortRound, Crash, RoundOver
<1> QED BY <1>3, <1>4, <1>5, <1>6, <1>7, <1>8, <1>9, <1>10, <1>11
        DEF Next, Server, Worker, Sync, Failure

LEMMA NothingNewerStep ==
  ASSUME PastInv, NothingNewer, [Next]_vars
  PROVE  NothingNewer'
<1> DEFINE working == {"search", "fetch", "changes", "expunge", "upsert"}
<1>0. TypeOK /\ \A r \in rows : r \in Message /\ r.uv \in Nat /\ r.uv <= uidValidity
  BY PastTypes DEF PastInv, KnownIsPast, Known
<1>1. CASE /\ uidValidity' = uidValidity /\ \A q \in rows' : \E r \in rows : r.uv = q.uv
           /\ phase' \in working => phase \in working /\ next'.uv = next.uv
  BY <1>1 DEF NothingNewer, Current
<1>2. CASE phase' \notin working
  BY <1>2 DEF NothingNewer
<1>3. CASE Server
  <2>1. CASE \E n \in Uid : Rebuild(n)
    <3>1. uidValidity' = uidValidity + 1 /\ uidValidity \in Nat /\ rows' = rows
      BY <1>0, <2>1 DEF Rebuild, TypeOK
    <3> QED BY <1>0, <3>1 DEF NothingNewer
  <2> QED BY <1>1, <1>3, <2>1
          DEF Server, Deliver, OtherClientFlags, OtherClientExpunges, round
<1>4. CASE User
  <2>1. ASSUME NEW r \in rows, NEW op \in EditKind, UserWrites(r, op)
        PROVE  NothingNewer'
    <3>1. [r EXCEPT !.seen = (op = "seen")].uv = r.uv
      BY <1>0 DEF Message
    <3>2. \A q \in rows' : \E s \in rows : s.uv = q.uv
      BY <2>1, <3>1 DEF UserWrites, EditRow
    <3> QED BY <1>1, <2>1, <3>2 DEF UserWrites, server, round
  <2>2. CASE \E e \in editing : UserEnqueues(e)
    BY <1>1, <2>2 DEF UserEnqueues, server, round
  <2> QED BY <1>4, <2>1, <2>2 DEF User
<1>5. ASSUME NEW e \in due, ReplayOp(e) PROVE NothingNewer'
  <2>1. \A r \in rows : Acknowledged(r, e).uv = r.uv
    BY <1>0, AcknowledgedType DEF TypeOK
  <2>2. \A q \in rows' : \E r \in rows : r.uv = q.uv
    BY <1>5, <2>1 DEF ReplayOp
  <2> QED BY <1>1, <1>5, <2>2 DEF ReplayOp
<1>6. CASE BeginPoll \/ BeginReplay \/ BeginPush \/ EndReplayRound \/ Load
           \/ StatusWipe \/ StatusSkip
  BY <1>2, <1>6
     DEF BeginPoll, BeginReplay, BeginPush, EndReplayRound, Load, StatusWipe, StatusSkip
<1>7. CASE StatusGoOn
  <2>1. Current'
    BY <1>0, <1>7 DEF StatusGoOn, Current, server
  <2> QED BY <2>1 DEF NothingNewer
<1>8. CASE SearchNew \/ GetVanished
  BY <1>1, <1>8 DEF SearchNew, GetVanished, server
<1>9. CASE FetchNew \/ GetChanges
  <2>1. next'.uv = next.uv
    BY <1>0, <1>9 DEF FetchNew, GetChanges, TypeOK, Cursor
  <2> QED BY <1>1, <1>9, <2>1 DEF FetchNew, GetChanges, server
<1>10. CASE \/ ApplyWipe \/ ApplyUpsert \/ ApplyVanished \/ FlagsApplied \/ AdvanceCursor
            \/ \E m \in updates : CheckLock(m)
            \/ \E m \in checked : WriteFlags(m)
  <2>1. \A m : CheckLock(m) \/ WriteFlags(m) => phase' = "flags"
    BY DEF CheckLock, WriteFlags
  <2> QED BY <1>2, <1>10, <2>1
          DEF ApplyWipe, ApplyUpsert, ApplyVanished, FlagsApplied, AdvanceCursor, RoundOver
<1>11. CASE Reconnect \/ AbortRound \/ Crash
  BY <1>2, <1>11 DEF Reconnect, AbortRound, Crash, RoundOver
<1>12. CASE EnqueueFails \/ UNCHANGED vars
  BY <1>1, <1>12 DEF EnqueueFails, vars, server, round
<1> QED BY <1>3, <1>4, <1>5, <1>6, <1>7, <1>8, <1>9, <1>10, <1>11, <1>12
        DEF Next, Worker, Sync, Failure

(* The names that Mirror goes by: of the server's messages all are of the   *)
(* present numbering.                                                      *)
LEMMA Names ==
  ASSUME CoverInv
  PROVE  /\ \A S, n : n \in Named(S) <=> \E m \in S : n = <<m.uv, m.uid>>
         /\ \A n : n \in Named(mail) => n[1] = uidValidity /\ \E m \in mail : n[2] = m.uid
         /\ \A n : n \in Claimed <=> cursor.uv = uidValidity
                                     /\ \E u \in 1..cursor.high : n = <<uidValidity, u>>
<1>1. \A S, n : n \in Named(S) <=> \E m \in S : n = <<m.uv, m.uid>>
  BY DEF Named
<1>2. \A n : n \in Named(mail) => n[1] = uidValidity /\ \E m \in mail : n[2] = m.uid
  BY <1>1 DEF CoverInv, UidsAssigned
<1>3. \A n : n \in Claimed <=> cursor.uv = uidValidity
                               /\ \E u \in 1..cursor.high : n = <<uidValidity, u>>
  BY DEF Claimed
<1> QED BY <1>1, <1>2, <1>3

(* Rows whose names stay, whatever else is written in them.                *)
LEMMA SameNames ==
  ASSUME NEW S, NEW T,
         \A m \in S : \E n \in T : n.uid = m.uid /\ n.uv = m.uv,
         \A n \in T : \E m \in S : n.uid = m.uid /\ n.uv = m.uv
  PROVE  Named(S) = Named(T)
BY DEF Named

(* What happens on the server: nothing comes that the cursor has seen.     *)
LEMMA MirrorServer ==
  ASSUME CoverInv, Server
  PROVE  FolderMirror!ServerMoves
<1>0. TypeOK /\ cursor.uv \in Nat /\ cursor.high \in Nat /\ uidValidity \in Nat
      /\ uidNext \in Nat
  BY DEF CoverInv, TypeOK, Cursor
<1>1. ASSUME UNCHANGED <<uidValidity, rows, cursor, waived, missed>>,
             Named(mail)' \subseteq Named(mail)
      PROVE  FolderMirror!ServerMoves
  <2>1. UNCHANGED <<Named(rows), Claimed, Excused>>
    BY <1>1 DEF Named, Claimed, Excused
  <2> QED BY <1>1, <2>1 DEF FolderMirror!ServerMoves
<1>2. CASE Deliver
  <2>1. UNCHANGED <<Named(rows), Claimed, Excused>>
    BY <1>2 DEF Deliver, Named, Claimed, Excused
  <2>2. ASSUME NEW n \in Named(mail)', n \notin Named(mail), n \in Claimed PROVE FALSE
    <3>1. PICK m \in mail' : n = <<m.uv, m.uid>>
      BY <2>2 DEF Named
    <3>2. m.uid = uidNext
      BY <1>2, <2>2, <3>1 DEF Deliver, Named
    <3>3. cursor.uv = uidValidity /\ n[2] <= cursor.high
      BY <2>2, <1>0, Names
    <3> QED BY <1>0, <3>1, <3>2, <3>3 DEF CoverInv, CursorsKnown
  <2> QED BY <2>1, <2>2 DEF FolderMirror!ServerMoves
<1>3. ASSUME NEW m \in mail, NEW value \in BOOLEAN, OtherClientFlags(m, value)
      PROVE  FolderMirror!ServerMoves
  <2>1. Stored(m, value).uid = m.uid /\ Stored(m, value).uv = m.uv
    BY <1>0, StoredType DEF TypeOK
  <2>2. mail' = (mail \ {m}) \cup {Stored(m, value)}
    BY <1>3 DEF OtherClientFlags
  <2>3. Named(mail)' \subseteq Named(mail)
    BY <2>1, <2>2 DEF Named
  <2> QED BY <1>1, <1>3, <2>3 DEF OtherClientFlags
<1>4. ASSUME NEW m \in mail, OtherClientExpunges(m) PROVE FolderMirror!ServerMoves
  <2>1. Named(mail)' \subseteq Named(mail)
    BY <1>4 DEF OtherClientExpunges, Named
  <2> QED BY <1>1, <1>4, <2>1 DEF OtherClientExpunges
<1>5. ASSUME NEW n \in Uid, Rebuild(n) PROVE FolderMirror!ServerMoves
  <2>1. uidValidity' = uidValidity + 1 /\ UNCHANGED <<rows, cursor>>
        /\ waived' = {} /\ missed' = {}
        /\ \A m \in mail' : m.uv = uidValidity + 1
    BY <1>5 DEF Rebuild
  <2>2. Claimed' = {}
    BY <1>0, <2>1 DEF Claimed, CoverInv, CursorsKnown
  <2>3. Excused' = {} /\ UNCHANGED Named(rows)
    BY <2>1 DEF Excused, Named
  <2>4. Excused \cap Named(mail)' = {}
    <3> SUFFICES ASSUME NEW x \in Excused, x \in Named(mail)' PROVE FALSE
      OBVIOUS
    <3>1. x[1] = uidValidity
      BY DEF Excused
    <3>2. x[1] = uidValidity + 1
      BY <2>1 DEF Named
    <3> QED BY <1>0, <3>1, <3>2
  <2> QED BY <2>2, <2>3, <2>4 DEF FolderMirror!ServerMoves
<1> QED BY <1>2, <1>3, <1>4, <1>5 DEF Server

(* A deletion takes one row, and excuses it if it is of this numbering.    *)
LEMMA MirrorUser ==
  ASSUME CoverInv, PastInv, User
  PROVE  [FolderMirror!MirrorNext]_(FolderMirror!mirrorVars)
<1>0. TypeOK /\ OncePerUid(rows)
  BY DEF PastInv, UidsOnce
<1>1. ASSUME NEW r \in rows, NEW op \in EditKind, UserWrites(r, op)
      PROVE  [FolderMirror!MirrorNext]_(FolderMirror!mirrorVars)
  <2>1. UNCHANGED <<mail, uidValidity, cursor, missed>>
        /\ rows' = (rows \ {r}) \cup EditRow(r, op)
        /\ waived' = IF op = "delete" /\ r.uv = uidValidity
                     THEN waived \cup {r.uid} ELSE waived
    BY <1>1 DEF UserWrites, server
  <2>2. UNCHANGED <<Named(mail), Claimed>>
    BY <2>1 DEF Named, Claimed
  <2>3. CASE op = "delete"
    <3> DEFINE n == <<r.uv, r.uid>>
    <3>1. n \in Named(rows) /\ Named(rows)' = Named(rows) \ {n}
      <4>1. rows' = rows \ {r}
        BY <2>1, <2>3 DEF EditRow
      <4>2. \A q \in rows : <<q.uv, q.uid>> = n => q = r
        BY <1>0 DEF OncePerUid
      <4> QED BY <4>1, <4>2 DEF Named
    <3>2. Excused \subseteq Excused' /\ Excused' \subseteq Excused \cup {n}
      BY <2>1 DEF Excused
    <3>3. n \in Named(mail) => n \in Excused'
      <4>1. n \in Named(mail) => r.uv = uidValidity
        BY Names
      <4> QED BY <2>1, <2>3, <4>1 DEF Excused
    <3> QED BY <2>2, <3>1, <3>2, <3>3 DEF FolderMirror!MirrorNext, FolderMirror!UserDeletes
  <2>4. CASE op # "delete"
    <3> DEFINE q == [r EXCEPT !.seen = (op = "seen")]
    <3>1. q.uid = r.uid /\ q.uv = r.uv
      BY <1>0 DEF TypeOK, Message
    <3>2. rows' = (rows \ {r}) \cup {q}
      BY <2>1, <2>4 DEF EditRow
    <3> HIDE DEF q
    <3>3. Named(rows)' = Named(rows)
      BY <3>1, <3>2 DEF Named
    <3>4. Excused' = Excused
      BY <2>1, <2>4 DEF Excused
    <3> QED BY <2>2, <3>3, <3>4 DEF FolderMirror!mirrorVars
  <2> QED BY <2>3, <2>4
<1>2. ASSUME NEW e \in editing, UserEnqueues(e)
      PROVE  UNCHANGED FolderMirror!mirrorVars
  BY <1>2 DEF UserEnqueues, server, FolderMirror!mirrorVars, Named, Claimed, Excused
<1> QED BY <1>1, <1>2 DEF User

(* A replayed operation may take messages from the server.                 *)
LEMMA MirrorReplay ==
  ASSUME CoverInv, NEW e \in due, ReplayOp(e)
  PROVE  FolderMirror!ServerMoves
<1>0. TypeOK /\ e \in Edit
  BY DEF CoverInv, TypeOK
<1>1. \A r \in rows : Acknowledged(r, e).uid = r.uid /\ Acknowledged(r, e).uv = r.uv
  BY <1>0, AcknowledgedType
<1>2. \A n \in mail' : \E m \in mail : n.uid = m.uid /\ n.uv = m.uv
  BY <1>0, ServerAfterType DEF ReplayOp
<1>3. Named(mail)' \subseteq Named(mail)
  BY <1>2 DEF Named
<1>4. Named(rows)' = Named(rows)
  <2>1. CASE rows' = rows
    BY <2>1 DEF Named
  <2>2. CASE rows' = {Acknowledged(r, e) : r \in rows}
    BY <1>1, <2>2 DEF Named
  <2> QED BY <2>1, <2>2 DEF ReplayOp
<1>5. UNCHANGED <<Claimed, Excused>>
  BY DEF ReplayOp, Claimed, Excused
<1> QED BY <1>3, <1>4, <1>5 DEF FolderMirror!ServerMoves

(* Whatever leaves the folder, the rows and the cursor alone stutters.     *)
LEMMA MirrorStutters ==
  ASSUME UNCHANGED <<mail, uidValidity, rows, cursor, waived, missed>>
  PROVE  UNCHANGED FolderMirror!mirrorVars
BY DEF FolderMirror!mirrorVars, Named, Claimed, Excused

(* What the search does not return, what the fetch drops and what a        *)
(* write-lock keeps out is not for the first time given up, or the stored  *)
(* cursor does not vouch for it.                                           *)
LEMMA NoClaimGivenUp ==
  ASSUME NEW S \in SUBSET Uid,
         cursor.uv = uidValidity =>
           \A u \in S : u <= cursor.high => u \in waived \cup missed,
         UNCHANGED <<mail, uidValidity, cursor>>,
         waived \subseteq waived', missed \subseteq missed',
         waived' \cup missed' \subseteq waived \cup missed \cup S,
         (Named(rows) \ Named(rows)') \cap Named(mail) = {}
  PROVE  FolderMirror!Store
<1>1. UNCHANGED <<Named(mail), Claimed>>
  BY DEF Named, Claimed
<1>2. Excused \subseteq Excused'
  BY DEF Excused
<1>3. ASSUME NEW n \in Excused', n \in Claimed PROVE n \in Excused
  <2>1. n = <<uidValidity, n[2]>> /\ n[2] \in waived \cup missed \cup S
    BY <1>3 DEF Excused
  <2>2. cursor.uv = uidValidity /\ n[2] <= cursor.high
    BY <1>3 DEF Claimed
  <2> QED BY <2>1, <2>2 DEF Excused
<1> QED BY <1>1, <1>2, <1>3 DEF FolderMirror!Store

(* Asked from the first message on, the search returns all of them.        *)
LEMMA SearchFromStart ==
  ASSUME TypeOK
  PROVE  SearchResult(0) = Uids(mail)
<1> SUFFICES ASSUME NEW u \in Uids(mail) PROVE u > 0 /\ SeqNum(u) > 0
  BY DEF SearchResult
<1>1. Uids(mail) \subseteq 1..MaxUid /\ MaxUid \in Nat
  BY FolderSyncAssumption DEF TypeOK, Uids, Message, Uid
<1> DEFINE S == {v \in Uids(mail) : v <= u}
<1>2. u \in S /\ S \subseteq 1..MaxUid
  BY <1>1
<1>3. IsFiniteSet(S)
  BY <1>1, <1>2, FS_Interval, FS_Subset
<1> HIDE DEF S
<1>4. Cardinality(S) \in Nat /\ Cardinality(S) # 0
  BY <1>2, <1>3, FS_CardinalityType, FS_EmptySet
<1> QED BY <1>1, <1>4 DEF SeqNum, S

(* The search and the fetch give up some messages.                         *)
LEMMA MirrorReceive ==
  ASSUME MirrorInv, SearchNew \/ FetchNew
  PROVE  FolderMirror!Store
<1>0. TypeOK /\ CoverInv /\ \A m \in mail : m.uv = uidValidity
  BY DEF MirrorInv, CoverInv, UidsAssigned
<1>1. Named(rows)' = Named(rows)
  BY DEF SearchNew, FetchNew, Named
<1>2. CASE SearchNew
  <2> DEFINE S == {u \in Uids(mail) : u > since.high /\ u \notin toFetch'}
  <2>1. S \subseteq Uid /\ since.high \in Nat /\ cursor.high \in Nat
    BY <1>0 DEF TypeOK, Uids, Message, Cursor
  <2>2. /\ phase = "search" /\ missed' = missed \cup S
        /\ toFetch' = SearchResult(since.high)
        /\ UNCHANGED <<mail, uidValidity, cursor, waived>>
    BY <1>2 DEF SearchNew, server
  <2>3. ASSUME NEW u \in S PROVE ~(u <= cursor.high)
    <3>1. CASE since = cursor
      BY <2>1, <2>3, <3>1 DEF Uid
    <3>2. CASE since = NoCursor
      <4>1. toFetch' = Uids(mail)
        BY <1>0, <2>2, <3>2, SearchFromStart DEF NoCursor
      <4> QED BY <2>3, <4>1
    <3> QED BY <1>0, <2>2, <3>1, <3>2 DEF CoverInv, CursorsKnown
  <2> HIDE DEF S
  <2> QED BY <1>1, <2>1, <2>2, <2>3, NoClaimGivenUp
<1>3. CASE FetchNew
  <2>1. PICK dropped \in SUBSET {m \in mail : m.uid \in toFetch} :
          waived' = waived \cup Uids({m \in dropped : m.uid < next'.high /\ ~HasRow(m)})
    BY <1>3 DEF FetchNew
  <2> DEFINE lost == {m \in dropped : m.uid < next'.high /\ ~HasRow(m)}
  <2>2. Uids(lost) \subseteq Uid
    BY <1>0 DEF TypeOK, Uids, Message
  <2>3. UNCHANGED <<mail, uidValidity, cursor, missed>>
    BY <1>3 DEF FetchNew, server
  <2>4. ASSUME cursor.uv = uidValidity, NEW m \in lost, m.uid <= cursor.high
        PROVE  m.uid \in waived \cup missed
    <3>1. Covered(m.uid)
      BY <1>0, <2>4 DEF CoverInv, CursorCovers
    <3>2. m.uid \notin Numbered(rows)
      BY <1>0, <2>4 DEF HasRow, Numbered
    <3> QED BY <3>1, <3>2 DEF Covered
  <2>5. cursor.uv = uidValidity =>
          \A u \in Uids(lost) : u <= cursor.high => u \in waived \cup missed
    BY <2>4 DEF Uids
  <2>6. waived' = waived \cup Uids(lost)
    BY <2>1
  <2> HIDE DEF lost
  <2> QED BY <1>1, <2>2, <2>3, <2>5, <2>6, NoClaimGivenUp
<1> QED BY <1>2, <1>3

(* The upsert replaces rows by rows of the same messages, or rows of a      *)
(* numbering that is past.                                                 *)
LEMMA MirrorUpsert ==
  ASSUME MirrorInv, ApplyUpsert
  PROVE  FolderMirror!Store
<1> DEFINE written == {m \in added : ~Locked(m.uid)}
           skipped == {m \in added \ written :
                         /\ m.uv = uidValidity
                         /\ \A r \in rows : r.uid = m.uid => r.uv # m.uv}
<1>1. /\ rows' = {r \in rows : r.uid \notin Uids(written)} \cup written
      /\ waived' = waived \cup Uids(skipped)
      /\ phase = "upsert"
      /\ UNCHANGED <<mail, uidValidity, cursor, missed>>
  BY DEF ApplyUpsert, server
<1>2. /\ Uids(skipped) \subseteq Uid
      /\ cursor.uv = uidValidity =>
           \A u \in Uids(skipped) : u <= cursor.high => u \in waived \cup missed
  <2>1. ASSUME cursor.uv = uidValidity, NEW m \in skipped, m.uid <= cursor.high
        PROVE  m.uid \in waived \cup missed
    <3>1. Covered(m.uid)
      BY <1>1, <2>1 DEF MirrorInv, RefetchedCovered
    <3>2. m.uid \notin Numbered(rows)
      BY <2>1 DEF Numbered
    <3> QED BY <3>1, <3>2 DEF Covered
  <2>2. Uids(skipped) \subseteq Uid
    BY DEF MirrorInv, PastInv, TypeOK, Uids, Message
  <2> QED BY <2>1, <2>2 DEF Uids
<1>3. (Named(rows) \ Named(rows)') \cap Named(mail) = {}
  <2> SUFFICES ASSUME NEW r \in rows, <<r.uv, r.uid>> \in Named(mail)
               PROVE  <<r.uv, r.uid>> \in Named(rows)'
    BY DEF Named
  <2>1. r.uv = uidValidity
    BY Names DEF MirrorInv
  <2>2. Current
    BY <1>1, <2>1 DEF MirrorInv, NothingNewer
  <2>3. \A m \in written : m.uv = uidValidity
    BY <1>1, <2>2 DEF MirrorInv, CoverInv, FetchCovers
  <2>4. CASE r.uid \in Uids(written)
    <3>1. PICK m \in written : m.uid = r.uid
      BY <2>4 DEF Uids
    <3>2. m \in rows' /\ m.uv = r.uv
      BY <1>1, <2>1, <2>3
    <3> QED BY <3>1, <3>2 DEF Named
  <2>5. CASE r.uid \notin Uids(written)
    BY <1>1, <2>5 DEF Named
  <2> QED BY <2>4, <2>5
<1> HIDE DEF written, skipped
<1> QED BY <1>1, <1>2, <1>3, NoClaimGivenUp

(* What a round deletes is gone from the server, and a wipe comes when the *)
(* cursor claims nothing.                                                  *)
LEMMA MirrorDeletes ==
  ASSUME MirrorInv, ApplyWipe \/ ApplyVanished
  PROVE  FolderMirror!MirrorNext
<1>1. CASE ApplyWipe
  <2>1. rows' = {} /\ phase = "wipe" /\ UNCHANGED <<mail, uidValidity, cursor, waived, missed>>
    BY <1>1 DEF ApplyWipe, server
  <2>2. Claimed' = {}
    BY <2>1 DEF Claimed, MirrorInv, CoverInv, WipeStartsOver
  <2>3. Named(rows)' = {} /\ UNCHANGED <<Named(mail), Excused>>
    BY <2>1 DEF Named, Excused
  <2> QED BY <2>2, <2>3 DEF FolderMirror!MirrorNext, FolderMirror!StartOver
<1>2. CASE ApplyVanished
  <2>1. rows' = {r \in rows : r.uid \notin vanished} /\ phase = "vanish"
        /\ UNCHANGED <<mail, uidValidity, cursor, waived, missed>>
    BY <1>2 DEF ApplyVanished, server
  <2>2. UNCHANGED <<Named(mail), Claimed, Excused>>
    BY <2>1 DEF Named, Claimed, Excused
  <2>3. ASSUME NEW r \in rows, <<r.uv, r.uid>> \in Named(mail) PROVE r \in rows'
    <3>1. r.uv = uidValidity /\ r.uid \in Uids(mail)
      BY <2>3 DEF MirrorInv, CoverInv, UidsAssigned, Named, Uids
    <3> QED BY <2>1, <3>1 DEF MirrorInv, PastInv, GoneIsGone
  <2>4. (Named(rows) \ Named(rows)') \cap Named(mail) = {}
    BY <2>3 DEF Named
  <2> QED BY <2>2, <2>4 DEF FolderMirror!MirrorNext, FolderMirror!Store
<1> QED BY <1>1, <1>2

(* Flags are written into rows that keep their names.                      *)
LEMMA MirrorFlags ==
  ASSUME MirrorInv, NEW d \in checked, WriteFlags(d)
  PROVE  UNCHANGED FolderMirror!mirrorVars
<1> DEFINE flagged(r) == IF r.uid = d.uid THEN [r EXCEPT !.seen = d.seen, !.mod = d.mod]
                         ELSE r
<1>1. rows' = {flagged(r) : r \in rows}
      /\ UNCHANGED <<mail, uidValidity, cursor, waived, missed>>
  BY DEF WriteFlags, server
<1>2. \A r \in rows : flagged(r).uid = r.uid /\ flagged(r).uv = r.uv
  BY DEF MirrorInv, PastInv, TypeOK, Message
<1> HIDE DEF flagged
<1>3. Named(rows') = Named(rows)
  BY <1>1, <1>2, SameNames
<1>4. Named(rows)' = Named(rows')
  BY DEF Named
<1> QED BY <1>1, <1>3, <1>4 DEF FolderMirror!mirrorVars, Named, Claimed, Excused

(* The cursor that is written vouches for more, and for what is held.      *)
LEMMA MirrorAdvance ==
  ASSUME MirrorInv, AdvanceCursor, cursor' # cursor
  PROVE  FolderMirror!Vouch
<1>0. /\ cursor \in Cursor /\ next \in Cursor /\ uidValidity \in Nat
      /\ cursor.high \in Nat /\ next.high \in Nat /\ cursor.uv \in Nat /\ next.uv \in Nat
      /\ \A m \in mail : m.uid \in Nat \ {0} /\ m.uv = uidValidity
  BY DEF MirrorInv, CoverInv, UidsAssigned, TypeOK, Cursor, Message, Uid
<1>1. /\ cursor' = CursorMerged(cursor, next) /\ phase = "advance"
      /\ UNCHANGED <<mail, uidValidity, rows, waived, missed>>
  BY DEF AdvanceCursor, server
<1>2. UNCHANGED <<Named(mail), Named(rows), Excused>>
  BY <1>1 DEF Named, Excused
<1>3. cursor'.uv = next.uv
      /\ cursor'.high = IF cursor.uv = next.uv THEN Larger(next.high, cursor.high)
                        ELSE next.high
  BY <1>0, <1>1, CursorMergedType
<1>4. cursor.uv <= next.uv /\ next.uv <= uidValidity
  BY <1>1 DEF MirrorInv, CoverInv, CursorsKnown
<1>5. cursor.uv = uidValidity => cursor'.uv = uidValidity /\ cursor.high <= cursor'.high
  BY <1>0, <1>3, <1>4 DEF Larger
<1>6. Claimed \subseteq Claimed'
  <2>1. cursor'.high \in Nat
    BY <1>0, <1>3 DEF Larger
  <2> QED BY <1>0, <1>1, <1>5, <2>1 DEF Claimed
<1>7. ASSUME NEW m \in mail, <<m.uv, m.uid>> \in Claimed'
      PROVE  <<m.uv, m.uid>> \in Named(rows) \cup Excused
  <2>1. cursor'.uv = uidValidity /\ m.uid <= cursor'.high
    BY <1>1, <1>7 DEF Claimed
  <2>2. CursorCovers'
    BY CoverApply DEF MirrorInv, CoverInv
  <2>3. m.uid \in Numbered(rows) \cup waived \cup missed
    BY <1>1, <2>1, <2>2 DEF CursorCovers, Covered, Numbered
  <2> QED BY <1>0, <2>3 DEF Numbered, Named, Excused
<1> QED BY <1>2, <1>6, <1>7 DEF FolderMirror!Vouch, Named

(* Every step of the folder is one of Mirror's, or none.                   *)
LEMMA MirrorStep ==
  ASSUME MirrorInv, [Next]_vars
  PROVE  [FolderMirror!MirrorNext]_(FolderMirror!mirrorVars)
<1>1. CASE Server
  BY <1>1, MirrorServer DEF MirrorInv, FolderMirror!MirrorNext
<1>2. CASE User
  BY <1>2, MirrorUser DEF MirrorInv
<1>3. CASE \E e \in due : ReplayOp(e)
  BY <1>3, MirrorReplay DEF MirrorInv, FolderMirror!MirrorNext
<1>4. CASE SearchNew \/ FetchNew \/ ApplyUpsert
  BY <1>4, MirrorReceive, MirrorUpsert DEF FolderMirror!MirrorNext
<1>5. CASE ApplyWipe \/ ApplyVanished
  BY <1>5, MirrorDeletes
<1>6. CASE \E m \in checked : WriteFlags(m)
  BY <1>6, MirrorFlags
<1>7. CASE AdvanceCursor
  <2>1. CASE cursor' = cursor
    BY <1>7, <2>1, MirrorStutters DEF AdvanceCursor, server
  <2> QED BY <1>7, <2>1, MirrorAdvance DEF FolderMirror!MirrorNext
<1>8. CASE BeginPoll \/ BeginReplay \/ BeginPush \/ EndReplayRound \/ Load
  BY <1>8, MirrorStutters
     DEF BeginPoll, BeginReplay, BeginPush, EndReplayRound, Load, server
<1>9. CASE \/ StatusWipe \/ StatusSkip \/ StatusGoOn \/ GetChanges \/ GetVanished
           \/ FlagsApplied \/ \E m \in updates : CheckLock(m)
  BY <1>9, MirrorStutters
     DEF StatusWipe, StatusSkip, StatusGoOn, GetChanges, GetVanished, FlagsApplied,
         CheckLock, server
<1>10. CASE Failure \/ UNCHANGED vars
  BY <1>10, MirrorStutters
     DEF Failure, Reconnect, AbortRound, EnqueueFails, Crash, vars, server
<1> QED BY <1>1, <1>2, <1>3, <1>4, <1>5, <1>6, <1>7, <1>8, <1>9, <1>10
        DEF Next, Worker, Sync

LEMMA MirrorInvHolds == Spec => []MirrorInv
<1>1. Init => MirrorInv
  <2> SUFFICES ASSUME Init PROVE RefetchedCovered /\ NothingNewer
    BY CoverInit, PastInit DEF MirrorInv
  <2> QED BY DEF Init, RefetchedCovered, NothingNewer
<1>2. MirrorInv /\ [Next]_vars => MirrorInv'
  BY CoverStep, PastStep, RefetchedStep, NothingNewerStep DEF MirrorInv
<1> QED BY <1>1, <1>2, PTL DEF Spec

(* Deliveries, renumberings, edits, interrupted rounds and lost answers:   *)
(* seen from outside, the folder's copy only ever does what a mirror may.  *)
THEOREM FolderImplementsMirror == Spec => FolderMirrored
<1>1. Init => FolderMirror!MirrorInit
  BY DEF Init, FolderMirror!MirrorInit, Named, Claimed, Excused, NoCursor
<1>2. MirrorInv /\ [Next]_vars => [FolderMirror!MirrorNext]_(FolderMirror!mirrorVars)
  BY MirrorStep
<1> QED BY <1>1, <1>2, MirrorInvHolds, PTL
        DEF Spec, FolderMirrored, FolderMirror!MirrorSpec

(* And a mirror's claims hold, whoever makes the steps.                    *)
THEOREM MirrorClaimsHold == FolderMirrored => []FolderMirror!ClaimsHold
<1>1. FolderMirror!MirrorInit => FolderMirror!ClaimsHold
  BY DEF FolderMirror!MirrorInit, FolderMirror!ClaimsHold
<1>2. ASSUME FolderMirror!ClaimsHold,
             [FolderMirror!MirrorNext]_(FolderMirror!mirrorVars)
      PROVE  FolderMirror!ClaimsHold'
  <2>1. CASE FolderMirror!ServerMoves
    BY <1>2, <2>1 DEF FolderMirror!ServerMoves, FolderMirror!ClaimsHold
  <2>2. CASE FolderMirror!UserDeletes
    BY <1>2, <2>2 DEF FolderMirror!UserDeletes, FolderMirror!ClaimsHold
  <2>3. CASE FolderMirror!Store \/ FolderMirror!StartOver \/ FolderMirror!Vouch
    BY <1>2, <2>3 DEF FolderMirror!Store, FolderMirror!StartOver, FolderMirror!Vouch,
                      FolderMirror!ClaimsHold
  <2>4. CASE UNCHANGED FolderMirror!mirrorVars
    BY <1>2, <2>4 DEF FolderMirror!mirrorVars, FolderMirror!ClaimsHold
  <2> QED BY <1>2, <2>1, <2>2, <2>3, <2>4 DEF FolderMirror!MirrorNext
<1> QED BY <1>1, <1>2, PTL DEF FolderMirrored, FolderMirror!MirrorSpec

---------------------------------------------------------------------------
(* NoMailSkipped fails for one reason: UID SEARCH n:* counts messages, not *)
(* UIDs. Where the two agree whenever a round searches, it holds.          *)
NoHoles == Uids(mail) = 1..(uidNext - 1)

LEMMA SearchCounts ==
  ASSUME TypeOK, NoHoles, NEW u \in Uids(mail)
  PROVE  SeqNum(u) = u
<1>1. u \in Nat \ {0} /\ u < uidNext /\ uidNext \in Nat
  BY DEF TypeOK, NoHoles
<1>2. {v \in Uids(mail) : v <= u} = 1..u
  BY <1>1 DEF NoHoles
<1>3. Cardinality(1..u) = u
  BY <1>1, FS_Interval
<1> QED BY <1>2, <1>3 DEF SeqNum

LEMMA SearchMissesNone ==
  ASSUME TypeOK, phase = "search" => NoHoles, missed = {}, [Next]_vars
  PROVE  missed' = {}
<1>1. CASE SearchNew
  <2>1. SearchResult(since.high) = {u \in Uids(mail) : u > since.high}
    <3>1. NoHoles
      BY <1>1 DEF SearchNew
    <3> QED BY <3>1, SearchCounts DEF SearchResult
  <2> QED BY <1>1, <2>1 DEF SearchNew
<1>2. CASE Server \/ User \/ BeginPoll \/ BeginReplay \/ BeginPush \/ UNCHANGED vars
  BY <1>2 DEF Server, Deliver, OtherClientFlags, OtherClientExpunges, Rebuild, User,
              UserWrites, UserEnqueues, BeginPoll, BeginReplay, BeginPush, vars
<1>3. CASE Worker /\ ~SearchNew
  BY <1>3 DEF Worker, Sync, ReplayOp, EndReplayRound, Load, StatusWipe, StatusSkip,
              StatusGoOn, FetchNew, GetChanges, GetVanished, ApplyWipe, ApplyUpsert,
              ApplyVanished, CheckLock, WriteFlags, FlagsApplied, AdvanceCursor
<1>4. CASE Failure
  BY <1>4 DEF Failure, Reconnect, AbortRound, EnqueueFails, Crash
<1> QED BY <1>1, <1>2, <1>3, <1>4 DEF Next, Worker, Sync

(* In a folder from which nothing was expunged before a search, as in one  *)
(* that mail only arrives in, the cursor jumps over no message.            *)
THEOREM NothingSkippedWithoutHoles ==
  Spec /\ [](phase = "search" => NoHoles) => []NoMailSkipped
<1>1. Init => missed = {}
  BY DEF Init
<1>2. TypeOK /\ (phase = "search" => NoHoles) /\ missed = {} /\ [Next]_vars => (missed = {})'
  BY SearchMissesNone
<1>3. missed = {} /\ CursorCoversFolder => NoMailSkipped
  BY DEF CursorCoversFolder, NoMailSkipped
<1> QED BY <1>1, <1>2, <1>3, FolderSyncTypeCorrect, CursorSound, PTL DEF Spec

=============================================================================

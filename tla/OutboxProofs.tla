---------------------------- MODULE OutboxProofs ----------------------------
(***************************************************************************)
(* Proofs about OutboxReplay, for every value of its constants: its safety *)
(* invariants, and that it implements Outbox.                              *)
(*                                                                         *)
(* The invariants follow from an account of each operation: how often it   *)
(* was executed and accepted is what its row, the history of lost outcomes *)
(* and the outcome that waits for its mark explain, no more and no less.   *)
(* That edits arrive follows from their order: the edits of a message that *)
(* are still to come lead, each changing the flag, from what the server    *)
(* shows to what the user sees, through compaction, replay and marks.      *)
(***************************************************************************)
EXTENDS OutboxReplay, FiniteSetTheorems, WellFoundedInduction, TLAPS

InQueue(o) == \E r \in rows : r.at = o

(* Rows and the batch name operations that exist, and send mail only for   *)
(* those that are mail; a pair to cancel never does.                       *)
RowsAreCreated ==
    /\ mailed \subseteq 1..created
    /\ \A r \in rows \cup batch :
          r.at \in 1..created /\ (r.kind = "send" <=> r.at \in mailed)
    /\ \A p \in pairs : /\ p[1].at \in 1..created /\ p[1].at \notin mailed
                        /\ p[2].at \in 1..created /\ p[2].at \notin mailed

(* The batch belongs to the loop over it, and a result to its first row.   *)
RoundShape ==
    /\ phase \in {"replay", "mark"} \/ batch = {}
    /\ phase = "mark" <=> result # "none"
    /\ \A r, q \in batch : r.at = q.at => r = q

(* What is pending has a try left.                                         *)
PendingHasTries == \A r \in rows : Pending(r) => r.retries < MaxRetries

(* What is not queued yet has no history.                                  *)
NoHistoryYet ==
    \A o \in Op : o > created => sent[o] = 0 /\ unsure[o] = 0 /\ runs[o] = 0

Accepted(o) == Unrecorded(o) /\ result = "ok"

(* Every copy of a mail is one whose acceptance remained unknown, or the   *)
(* one that is about to be recorded, or the one that ended it.             *)
CopiesExplained ==
    \A o \in Op :
        /\ o \notin mailed => sent[o] = 0
        /\ o \in mailed /\ InQueue(o) /\ ~Accepted(o) => sent[o] = unsure[o]
        /\ o \in mailed /\ (~InQueue(o) \/ Accepted(o)) => sent[o] = unsure[o] + 1

(* Every run is a recorded failure, a lost outcome, or the one in hand.    *)
RunsExplained ==
    /\ \A r \in rows :
          /\ Unrecorded(r.at) => runs[r.at] <= r.retries + lost[r.at] + 1
          /\ ~Unrecorded(r.at) => runs[r.at] <= r.retries + lost[r.at]
    /\ \A o \in Op : ~InQueue(o) => runs[o] <= MaxRetries + lost[o]

Account ==
    /\ TypeOK /\ RowsAreCreated /\ RoundShape /\ PendingHasTries
    /\ NoHistoryYet /\ CopiesExplained /\ RunsExplained

-----------------------------------------------------------------------------
(* The empty queue.                                                        *)
LEMMA AccountInit == Init => Account
<1> SUFFICES ASSUME Init PROVE Account
  OBVIOUS
<1> USE OutboxAssumption
<1>1. TypeOK
  BY DEF Init, TypeOK, Row, Phase, Op
<1>2. RowsAreCreated /\ RoundShape /\ PendingHasTries
  BY DEF Init, RowsAreCreated, RoundShape, PendingHasTries, First
<1>3. NoHistoryYet /\ CopiesExplained /\ RunsExplained
  BY DEF Init, NoHistoryYet, CopiesExplained, RunsExplained, InQueue, Accepted,
         Unrecorded, Op
<1> QED BY <1>1, <1>2, <1>3 DEF Account

(* A new row adds an operation without a history.                          *)
LEMMA AccountInsert ==
  ASSUME Account, NEW kind, NEW m \in Messages \cup {Nothing}, Insert(kind, m),
         local' \in [Messages -> BOOLEAN]
  PROVE  Account'
<1> USE OutboxAssumption DEF Account
<1>1. created \in 0..MaxOps /\ created + 1 \in Op
  BY DEF Insert, TypeOK, Op
<1>2. PICK n \in Op : n = created + 1
  BY <1>1
<1> DEFINE new == [at |-> created + 1, kind |-> kind, msg |-> m,
                   status |-> "pending", retries |-> 0, waiting |-> FALSE]
<1>3. /\ created' = n /\ created' \in 0..MaxOps /\ n > created
      /\ n \notin 1..created /\ 1..n = 1..created \cup {n}
      /\ mailed' = IF kind = "send" THEN mailed \cup {n} ELSE mailed
      /\ rows' = rows \cup {new} /\ kind \in Kinds
  <2>1. created \in Nat /\ n \in 0..MaxOps
    BY <1>1, <1>2 DEF Op
  <2>2. n \notin 1..created /\ 1..n = 1..created \cup {n}
    BY <2>1, <1>2
  <2> QED BY <1>2, <2>1, <2>2 DEF Insert
<1>4. /\ new \in Row /\ new.at = n /\ new.kind = kind
      /\ new.status = "pending" /\ new.retries = 0
  BY <1>2, <1>3 DEF Row
<1> HIDE DEF new
<1>5. \A r \in rows : r.at # n
  BY <1>2, <1>3 DEF RowsAreCreated
<1>6. \A r \in batch : r.at # n
  BY <1>2, <1>3 DEF RowsAreCreated
<1>7. TypeOK'
  <2>1. \A r, q \in rows' : r.at = q.at => r = q
    BY <1>2, <1>3, <1>4, <1>5 DEF TypeOK
  <2>2. \A r \in batch' : \E q \in rows' : q.at = r.at /\ Pending(q)
    BY <1>2, <1>3 DEF TypeOK, Insert, roundVars
  <2>3. mailed' \subseteq Op /\ rows' \subseteq Row
    BY <1>2, <1>3, <1>4 DEF TypeOK, Insert
  <2> QED BY <1>2, <1>3, <2>1, <2>2, <2>3 DEF TypeOK, Insert, roundVars, history
<1>8. RowsAreCreated'
  <2>1. mailed' \subseteq 1..created'
    BY <1>2, <1>3 DEF RowsAreCreated, Insert
  <2>2. \A o \in 1..created : o \in mailed' <=> o \in mailed
    BY <1>3
  <2>3. n \in mailed' <=> kind = "send"
    BY <1>3 DEF RowsAreCreated
  <2>4. \A r \in rows' \cup batch' :
           r.at \in 1..created' /\ (r.kind = "send" <=> r.at \in mailed')
    <3>1. \A r \in rows \cup batch :
             r.at \in 1..created' /\ (r.kind = "send" <=> r.at \in mailed')
      BY <1>3, <2>2 DEF RowsAreCreated
    <3>2. new.at \in 1..created' /\ (new.kind = "send" <=> new.at \in mailed')
      BY <1>3, <1>4, <2>3
    <3> QED BY <1>3, <3>1, <3>2 DEF Insert, roundVars
  <2>5. \A p \in pairs' : /\ p[1].at \in 1..created' /\ p[1].at \notin mailed'
                          /\ p[2].at \in 1..created' /\ p[2].at \notin mailed'
    BY <1>2, <1>3, <2>2 DEF RowsAreCreated, Insert, roundVars
  <2> QED BY <2>1, <2>4, <2>5 DEF RowsAreCreated
<1>9. RoundShape'
  BY DEF RoundShape, Insert, roundVars
<1>10. PendingHasTries'
  BY <1>2, <1>3, <1>4 DEF PendingHasTries, Pending
<1>11. NoHistoryYet'
  BY <1>2, <1>3 DEF NoHistoryYet, Insert, history, TypeOK, Op
<1>12. \A o \in Op : /\ Unrecorded(o)' = Unrecorded(o) /\ Accepted(o)' = Accepted(o)
                     /\ o # n => InQueue(o)' = InQueue(o)
  BY <1>2, <1>3, <1>4 DEF Unrecorded, Accepted, InQueue, First, Insert, roundVars
<1>13. ~Unrecorded(n) /\ InQueue(n)'
  BY <1>2, <1>3, <1>4, <1>6 DEF Unrecorded, InQueue
<1>14. CopiesExplained'
  <2> SUFFICES ASSUME NEW o \in Op
               PROVE  /\ o \notin mailed' => sent'[o] = 0
                      /\ o \in mailed' /\ InQueue(o)' /\ ~Accepted(o)' =>
                             sent'[o] = unsure'[o]
                      /\ o \in mailed' /\ (~InQueue(o)' \/ Accepted(o)') =>
                             sent'[o] = unsure'[o] + 1
    BY DEF CopiesExplained
  <2>1. sent' = sent /\ unsure' = unsure
    BY DEF Insert, history
  <2>2. CASE o = n
    <3>1. sent[o] = 0 /\ unsure[o] = 0
      BY <2>2, <1>3 DEF NoHistoryYet, TypeOK
    <3>2. InQueue(o)' /\ ~Accepted(o)'
      BY <2>2, <1>3, <1>12, <1>13 DEF Accepted
    <3> QED BY <2>1, <3>1, <3>2
  <2>3. CASE o # n
    BY <2>1, <2>3, <1>3, <1>12 DEF CopiesExplained, Insert
  <2> QED BY <2>2, <2>3
<1>15. RunsExplained'
  <2>1. runs' = runs /\ lost' = lost
    BY DEF Insert, history
  <2>2. runs[n] = 0 /\ lost[n] \in Nat
    BY <1>2, <1>3 DEF NoHistoryYet, TypeOK, Op
  <2>3. \A r \in rows : r.at \in Op
    BY DEF TypeOK, Row
  <2>4. \A r \in rows' :
          /\ Unrecorded(r.at)' => runs'[r.at] <= r.retries + lost'[r.at] + 1
          /\ ~Unrecorded(r.at)' => runs'[r.at] <= r.retries + lost'[r.at]
    <3> SUFFICES ASSUME NEW r \in rows'
                 PROVE  /\ Unrecorded(r.at)' => runs[r.at] <= r.retries + lost[r.at] + 1
                        /\ ~Unrecorded(r.at)' => runs[r.at] <= r.retries + lost[r.at]
      BY <2>1
    <3>1. CASE r = new
      BY <3>1, <1>4, <1>12, <1>13, <2>2
    <3>2. CASE r \in rows
      BY <3>2, <1>12, <2>3 DEF RunsExplained
    <3> QED BY <1>3, <3>1, <3>2
  <2>5. \A o \in Op : ~InQueue(o)' => runs'[o] <= MaxRetries + lost'[o]
    <3> SUFFICES ASSUME NEW o \in Op, ~InQueue(o)'
                 PROVE  runs[o] <= MaxRetries + lost[o]
      BY <2>1
    <3>1. o # n
      BY <1>13
    <3> QED BY <3>1, <1>12 DEF RunsExplained
  <2> QED BY <2>4, <2>5 DEF RunsExplained
<1> QED BY <1>7, <1>8, <1>9, <1>10, <1>11, <1>14, <1>15 DEF Account

(* A step between executions that leaves rows and history alone.           *)
LEMMA AccountQuiet ==
  ASSUME Account, TypeOK', RowsAreCreated', RoundShape',
         UNCHANGED <<queueVars, rows, sent, history>>,
         phase # "mark", phase' # "mark"
  PROVE  Account'
<1> USE DEF Account, queueVars, history
<1>1. \A o : /\ ~Unrecorded(o) /\ ~Unrecorded(o)' /\ ~Accepted(o) /\ ~Accepted(o)'
            /\ InQueue(o)' = InQueue(o)
  BY DEF Unrecorded, Accepted, InQueue
<1>2. PendingHasTries' /\ NoHistoryYet'
  BY DEF PendingHasTries, NoHistoryYet, Pending
<1>3. CopiesExplained'
  BY <1>1 DEF CopiesExplained
<1>4. RunsExplained'
  BY <1>1 DEF RunsExplained
<1> QED BY <1>2, <1>3, <1>4

LEMMA AccountStartRound ==
  ASSUME Account, StartRound
  PROVE  Account'
<1> USE DEF Account
<1>1. /\ phase = "idle" /\ batch = {} /\ result = "none"
      /\ phase' \in {"dequeue", "dropReads"} /\ batch' = {} /\ result' = "none"
      /\ UNCHANGED <<queueVars, rows, local, seen, sent, history>>
      /\ fails' \in 0..MaxFails /\ pairs' \subseteq CancelPairs
  <2>1. phase = "idle" /\ batch = {} /\ result = "none"
    BY DEF StartRound, RoundShape
  <2>2. fails' \in 0..MaxFails /\ pairs' \subseteq CancelPairs
    BY OutboxAssumption DEF StartRound, TypeOK
  <2> QED BY <2>1, <2>2 DEF StartRound
<1>2. TypeOK'
  BY <1>1 DEF TypeOK, Phase, CancelPairs, queueVars, history
<1>3. RowsAreCreated'
  BY <1>1 DEF RowsAreCreated, CancelPairs, queueVars
<1>4. RoundShape'
  BY <1>1 DEF RoundShape
<1> QED BY <1>1, <1>2, <1>3, <1>4, AccountQuiet

LEMMA AccountDequeue ==
  ASSUME Account, Dequeue
  PROVE  Account'
<1> USE DEF Account
<1>1. /\ phase = "dequeue" /\ batch = {} /\ result = "none"
      /\ phase' \in {"replay", "idle"} /\ result' = "none" /\ pairs' = pairs
      /\ UNCHANGED <<queueVars, rows, local, seen, sent, history>>
      /\ fails' \in 0..MaxFails
      /\ batch' \subseteq Due /\ (phase' = "idle" => batch' = {})
  <2>1. phase = "dequeue" /\ batch = {} /\ result = "none"
    BY DEF Dequeue, RoundShape
  <2>2. fails' \in 0..MaxFails
    BY OutboxAssumption DEF Dequeue, TypeOK
  <2>3. batch' \subseteq Due /\ (phase' = "idle" => batch' = {})
    BY <2>1 DEF Dequeue, Oldest
  <2> QED BY <2>1, <2>2, <2>3 DEF Dequeue
<1>2. TypeOK'
  BY <1>1 DEF TypeOK, Phase, Due, Pending, queueVars, history
<1>3. RowsAreCreated'
  BY <1>1 DEF RowsAreCreated, Due, queueVars
<1>4. RoundShape'
  BY <1>1 DEF RoundShape, Due, TypeOK
<1> QED BY <1>1, <1>2, <1>3, <1>4, AccountQuiet

LEMMA AccountSkip ==
  ASSUME Account, NEW r \in batch, SkipUndecodable(r)
  PROVE  Account'
<1> USE DEF Account
<1>1. /\ phase = "replay" /\ phase' = "replay" /\ batch' \subseteq batch
      /\ UNCHANGED <<queueVars, rows, local, seen, sent, pairs, result, fails, history>>
  BY DEF SkipUndecodable, Continue
<1>2. TypeOK'
  BY <1>1 DEF TypeOK, Pending, queueVars, history
<1>3. RowsAreCreated'
  BY <1>1 DEF RowsAreCreated, queueVars
<1>4. RoundShape'
  BY <1>1 DEF RoundShape
<1> QED BY <1>1, <1>2, <1>3, <1>4, AccountQuiet

LEMMA AccountFinishRound ==
  ASSUME Account, FinishRound
  PROVE  Account'
<1> USE DEF Account
<1>1. /\ phase = "replay" /\ phase' = "idle" /\ batch = {} /\ batch' = {}
      /\ UNCHANGED <<queueVars, rows, local, seen, sent, pairs, result, fails, history>>
  BY DEF FinishRound
<1>2. TypeOK'
  BY <1>1 DEF TypeOK, Phase, Pending, queueVars, history
<1>3. RowsAreCreated'
  BY <1>1 DEF RowsAreCreated, queueVars
<1>4. RoundShape'
  BY <1>1 DEF RoundShape
<1> QED BY <1>1, <1>2, <1>3, <1>4, AccountQuiet

(* Dropping rows of edits leaves the accounts of mail alone.               *)
LEMMA AccountDrop ==
  ASSUME Account, NEW S, \A x \in S : x.at \notin mailed,
         phase # "mark", phase' \in {"dropUnreads", "dequeue"},
         result' = result, rows' = Without(S), pairs' \subseteq pairs,
         batch = {}, batch' = {}, fails' \in 0..MaxFails,
         UNCHANGED <<queueVars, local, seen, sent, history>>
  PROVE  Account'
<1> USE DEF Account, queueVars, history
<1>1. rows' \subseteq rows /\ \A r \in rows : r.at \in mailed => r \in rows'
  BY DEF Without
<1>2. \A o \in Op : /\ ~Unrecorded(o) /\ ~Unrecorded(o)'
                   /\ ~Accepted(o) /\ ~Accepted(o)'
  BY DEF Unrecorded, Accepted
<1>3. TypeOK'
  BY <1>1 DEF TypeOK, Phase
<1>4. RowsAreCreated' /\ RoundShape' /\ PendingHasTries' /\ NoHistoryYet'
  BY <1>1 DEF RowsAreCreated, RoundShape, PendingHasTries, NoHistoryYet, Pending
<1>5. CopiesExplained'
  <2> SUFFICES ASSUME NEW o \in Op
               PROVE  /\ o \notin mailed' => sent'[o] = 0
                      /\ o \in mailed' /\ InQueue(o)' /\ ~Accepted(o)' =>
                             sent'[o] = unsure'[o]
                      /\ o \in mailed' /\ (~InQueue(o)' \/ Accepted(o)') =>
                             sent'[o] = unsure'[o] + 1
    BY DEF CopiesExplained
  <2>1. UNCHANGED <<mailed, sent, unsure>> /\ ~Accepted(o) /\ ~Accepted(o)'
    BY <1>2
  <2>2. CASE o \in mailed
    <3>1. InQueue(o)' = InQueue(o)
      BY <1>1, <2>2 DEF InQueue
    <3>2. /\ InQueue(o) => sent[o] = unsure[o]
          /\ ~InQueue(o) => sent[o] = unsure[o] + 1
      BY <2>1, <2>2 DEF CopiesExplained
    <3> QED BY <2>1, <2>2, <3>1, <3>2
  <2>3. CASE o \notin mailed
    BY <2>1, <2>3 DEF CopiesExplained
  <2> QED BY <2>2, <2>3
<1>6. RunsExplained'
  <2>1. ASSUME NEW r \in rows'
        PROVE  runs[r.at] <= r.retries + lost[r.at] /\ ~Unrecorded(r.at)'
    <3>1. r \in rows /\ r.at \in Op
      BY <1>1 DEF TypeOK, Row
    <3> QED BY <3>1, <1>2 DEF RunsExplained
  <2>2. ASSUME NEW o \in Op, ~InQueue(o)' PROVE runs[o] <= MaxRetries + lost[o]
    <3>1. CASE InQueue(o)
      <4>1. PICK r \in rows : r.at = o
        BY <3>1 DEF InQueue
      <4>2. runs[o] <= r.retries + lost[o]
        BY <4>1, <1>2 DEF RunsExplained
      <4>3. r.retries \in 0..MaxRetries /\ runs[o] \in Nat /\ lost[o] \in Nat
        BY <4>1 DEF TypeOK, Row
      <4> QED BY <4>2, <4>3, OutboxAssumption
    <3>2. CASE ~InQueue(o)
      BY <3>2 DEF RunsExplained
    <3> QED BY <3>1, <3>2
  <2>3. \A r \in rows' : runs[r.at] <= r.retries + lost[r.at] /\ ~Unrecorded(r.at)'
    BY <2>1
  <2>4. \A o \in Op : ~InQueue(o)' => runs[o] <= MaxRetries + lost[o]
    BY <2>2
  <2> QED BY <2>3, <2>4 DEF RunsExplained
<1> QED BY <1>3, <1>4, <1>5, <1>6

LEMMA AccountDropReads ==
  ASSUME Account, DropReads
  PROVE  Account'
<1>1. phase = "dropReads" /\ batch = {} /\ batch' = {} /\ result' = result
  BY DEF DropReads, Account, RoundShape
<1>2. CASE /\ rows' = Without({p[1] : p \in pairs}) /\ phase' = "dropUnreads"
           /\ UNCHANGED <<pairs, fails>>
  <2>1. \A x \in {p[1] : p \in pairs} : x.at \notin mailed
    BY DEF Account, RowsAreCreated
  <2>2. fails' \in 0..MaxFails
    BY <1>2 DEF Account, TypeOK
  <2> QED BY <1>1, <1>2, <2>1, <2>2, AccountDrop DEF DropReads
<1>3. CASE /\ fails < MaxFails /\ fails' = fails + 1
           /\ phase' = "dequeue" /\ pairs' = {} /\ UNCHANGED rows
  <2>1. rows' = Without({})
    BY <1>3 DEF Without
  <2>2. fails' \in 0..MaxFails
    BY <1>3, OutboxAssumption DEF Account, TypeOK
  <2> QED BY <1>1, <1>3, <2>1, <2>2, AccountDrop DEF DropReads
<1> QED BY <1>2, <1>3 DEF DropReads

LEMMA AccountDropUnreads ==
  ASSUME Account, DropUnreads
  PROVE  Account'
<1>1. /\ phase = "dropUnreads" /\ batch = {} /\ batch' = {} /\ result' = result
      /\ phase' = "dequeue" /\ pairs' = {}
  BY DEF DropUnreads, Account, RoundShape
<1>2. CASE rows' = Without({p[2] : p \in pairs}) /\ UNCHANGED fails
  <2>1. \A x \in {p[2] : p \in pairs} : x.at \notin mailed
    BY DEF Account, RowsAreCreated
  <2>2. fails' \in 0..MaxFails
    BY <1>2 DEF Account, TypeOK
  <2> QED BY <1>1, <1>2, <2>1, <2>2, AccountDrop DEF DropUnreads
<1>3. CASE fails < MaxFails /\ fails' = fails + 1 /\ UNCHANGED rows
  <2>1. rows' = Without({})
    BY <1>3 DEF Without
  <2>2. fails' \in 0..MaxFails
    BY <1>3, OutboxAssumption DEF Account, TypeOK
  <2> QED BY <1>1, <1>3, <2>1, <2>2, AccountDrop DEF DropUnreads
<1> QED BY <1>2, <1>3 DEF DropUnreads

(* A row that comes to be due stays where it is.                           *)
LEMMA AccountBackoffOver ==
  ASSUME Account, NEW r \in rows, BackoffOver(r)
  PROVE  Account'
<1> USE DEF Account, queueVars, roundVars, history, BackoffOver
<1> DEFINE due == [r EXCEPT !.waiting = FALSE]
<1>1. /\ due \in Row /\ due.at = r.at /\ due.kind = r.kind
      /\ due.status = r.status /\ due.retries = r.retries
  BY DEF TypeOK, Row
<1>2. rows' = {q \in rows : q.at # r.at} \cup {due}
  BY DEF Without
<1> HIDE DEF due
<1>3. TypeOK'
  <2>1. \A a, b \in rows' : a.at = b.at => a = b
    BY <1>1, <1>2 DEF TypeOK
  <2>2. ASSUME NEW b \in batch PROVE \E q \in rows' : q.at = b.at /\ Pending(q)
    <3>1. PICK q \in rows : q.at = b.at /\ Pending(q)
      BY DEF TypeOK
    <3>2. CASE q.at = r.at
      BY <3>1, <3>2, <1>1, <1>2 DEF Pending
    <3>3. CASE q.at # r.at
      BY <3>1, <3>3, <1>2
    <3> QED BY <3>2, <3>3
  <2>3. rows' \subseteq Row
    BY <1>1, <1>2 DEF TypeOK
  <2>4. UNCHANGED <<rank, created, mailed, batch, local, seen, phase, pairs, result, fails,
                    sent, runs, lost, unsure>>
    OBVIOUS
  <2>5. TypeOK
    OBVIOUS
  <2> HIDE DEF Account, BackoffOver
  <2>6. (/\ rank \in [Op -> Op] /\ created \in 0..MaxOps /\ mailed \subseteq Op
         /\ batch \subseteq Row /\ local \in [Messages -> BOOLEAN]
         /\ seen \in [Messages -> BOOLEAN] /\ phase \in Phase /\ pairs \subseteq Row \X Row
         /\ result \in {"none", "ok", "err"} /\ fails \in 0..MaxFails
         /\ sent \in [Op -> Nat] /\ runs \in [Op -> Nat]
         /\ lost \in [Op -> Nat] /\ unsure \in [Op -> Nat])'
    BY ONLY <2>4, <2>5 DEF TypeOK
  <2>7. (\A b \in batch : \E q \in rows : q.at = b.at /\ Pending(q))'
    BY ONLY <2>2, <2>4 DEF Pending
  <2>8. (rows \subseteq Row /\ \A a, b \in rows : a.at = b.at => a = b)'
    BY ONLY <2>1, <2>3
  <2> QED BY ONLY <2>6, <2>7, <2>8 DEF TypeOK
<1>4. RowsAreCreated'
  <2>1. RowsAreCreated /\ UNCHANGED <<created, mailed, batch, pairs>>
    OBVIOUS
  <2>2. \A q \in rows' : q = due \/ q \in rows
    BY <1>2
  <2> HIDE DEF Account, BackoffOver
  <2> QED BY ONLY <1>1, <2>1, <2>2, r \in rows DEF RowsAreCreated
<1>5. RoundShape' /\ PendingHasTries' /\ NoHistoryYet'
  BY <1>1, <1>2 DEF RoundShape, PendingHasTries, NoHistoryYet, Pending
<1>6. \A o \in Op : /\ Unrecorded(o)' = Unrecorded(o) /\ Accepted(o)' = Accepted(o)
                   /\ InQueue(o)' = InQueue(o)
  BY <1>1, <1>2 DEF Unrecorded, Accepted, InQueue, First
<1>7. CopiesExplained'
  BY <1>6 DEF CopiesExplained
<1>8. RunsExplained'
  <2>1. ASSUME NEW q \in rows'
        PROVE  /\ Unrecorded(q.at)' => runs[q.at] <= q.retries + lost[q.at] + 1
               /\ ~Unrecorded(q.at)' => runs[q.at] <= q.retries + lost[q.at]
    <3>1. r.at \in Op /\ (q \in rows => q.at \in Op)
      BY DEF TypeOK, Row
    <3>2. CASE q = due
      BY <3>1, <3>2, <1>1, <1>6 DEF RunsExplained
    <3>3. CASE q \in rows
      BY <3>1, <3>3, <1>6 DEF RunsExplained
    <3> QED BY <3>2, <3>3, <1>2
  <2>2. \A o \in Op : ~InQueue(o)' => runs[o] <= MaxRetries + lost[o]
    BY <1>6 DEF RunsExplained
  <2> QED BY <2>1, <2>2 DEF RunsExplained
<1> QED BY <1>3, <1>4, <1>5, <1>7, <1>8

(* The first row of the batch is the one whose outcome is unrecorded.      *)
LEMMA FirstIsUnrecorded ==
  ASSUME Account, NEW r \in batch, First(r)
  PROVE  /\ r.at \in Op /\ r.at \in 1..created /\ InQueue(r.at)
         /\ (r.kind = "send" <=> r.at \in mailed)
         /\ \E q \in rows : q.at = r.at /\ Pending(q)
         /\ \A s \in batch : First(s) => s.at = r.at
         /\ \A o \in Op : Unrecorded(o) <=> phase = "mark" /\ o = r.at
<1>1. r.at \in Op /\ \A s \in batch : s.at \in Op
  BY DEF Account, TypeOK, Row
<1>2. \A s \in batch : First(s) => s.at = r.at
  BY <1>1, OutboxAssumption DEF First, Op
<1> QED BY <1>1, <1>2 DEF Account, TypeOK, RowsAreCreated, InQueue, Unrecorded

LEMMA AccountExecute ==
  ASSUME Account, NEW r \in batch, Execute(r)
  PROVE  Account'
<1> USE DEF Account, queueVars
<1>1. /\ phase = "replay" /\ phase' = "mark" /\ First(r) /\ result' \in {"ok", "err"}
      /\ UNCHANGED <<queueVars, rows, local, pairs, batch, lost>>
      /\ runs' = [runs EXCEPT ![r.at] = @ + 1] /\ fails' \in 0..MaxFails
  BY OutboxAssumption DEF Execute, AppendIgnored, Surfaced, TypeOK
<1>2. /\ r.at \in Op /\ r.at \in 1..created /\ InQueue(r.at)
      /\ (r.kind = "send" <=> r.at \in mailed)
      /\ \A o \in Op : ~Unrecorded(o)
  BY <1>1, FirstIsUnrecorded
<1>3. \A o \in Op : (Unrecorded(o)' <=> o = r.at) /\ InQueue(o)' = InQueue(o)
  <2>1. First(r)'
    BY <1>1 DEF First
  <2>2. \A s \in batch : First(s)' => s.at = r.at
    BY <1>1, FirstIsUnrecorded DEF First
  <2> QED BY <1>1, <2>1, <2>2 DEF Unrecorded, InQueue
(* What may have happened: nothing; or acceptance, to be recorded or not.  *)
<1>4. \/ sent' = sent /\ unsure' = unsure /\ result' = "err"
      \/ /\ sent' = IF r.kind = "send" THEN [sent EXCEPT ![r.at] = @ + 1] ELSE sent
         /\ unsure' = IF result' = "ok" THEN unsure ELSE [unsure EXCEPT ![r.at] = @ + 1]
  BY DEF Execute, TakesEffect, AppendIgnored, Surfaced
<1>5. TypeOK'
  <2>1. seen' \in [Messages -> BOOLEAN]
    <3>1. \E value \in BOOLEAN :
             seen' = seen \/ seen' = [seen EXCEPT ![r.msg] = value]
      <4>1. (r.kind = "read") \in BOOLEAN
        OBVIOUS
      <4> QED BY <4>1 DEF Execute, TakesEffect
    <3>2. PICK value \in BOOLEAN :
             seen' = seen \/ seen' = [seen EXCEPT ![r.msg] = value]
      BY <3>1
    <3>3. seen \in [Messages -> BOOLEAN]
      BY DEF TypeOK
    <3> QED BY <3>2, <3>3
  <2>2. sent' \in [Op -> Nat] /\ unsure' \in [Op -> Nat]
    BY <1>4 DEF TypeOK
  <2>3. runs' \in [Op -> Nat]
    <3>1. /\ runs \in [Op -> Nat] /\ runs[r.at] + 1 \in Nat
          /\ runs' = [runs EXCEPT ![r.at] = runs[r.at] + 1]
      BY <1>1, <1>2 DEF TypeOK
    <3> QED BY <3>1
  <2> QED BY <1>1, <2>1, <2>2, <2>3 DEF TypeOK, Phase, Pending
<1>6. RowsAreCreated' /\ RoundShape' /\ PendingHasTries'
  BY <1>1 DEF RowsAreCreated, RoundShape, PendingHasTries, Pending
<1>7. /\ sent \in [Op -> Nat] /\ unsure \in [Op -> Nat] /\ runs \in [Op -> Nat]
      /\ lost \in [Op -> Nat] /\ mailed \subseteq Op /\ created \in Nat
  BY DEF TypeOK
<1>8. \A o \in Op : o # r.at =>
          sent'[o] = sent[o] /\ unsure'[o] = unsure[o] /\ runs'[o] = runs[o]
  BY <1>1, <1>4, <1>7
<1>9. NoHistoryYet'
  BY <1>1, <1>2, <1>7, <1>8 DEF NoHistoryYet
<1>10. CopiesExplained'
  <2> SUFFICES ASSUME NEW o \in Op
               PROVE  /\ o \notin mailed' => sent'[o] = 0
                      /\ o \in mailed' /\ InQueue(o)' /\ ~Accepted(o)' =>
                             sent'[o] = unsure'[o]
                      /\ o \in mailed' /\ (~InQueue(o)' \/ Accepted(o)') =>
                             sent'[o] = unsure'[o] + 1
    BY DEF CopiesExplained
  <2>1. ~Accepted(o) /\ (Accepted(o)' <=> o = r.at /\ result' = "ok")
    BY <1>2, <1>3 DEF Accepted
  <2>2. InQueue(o)' = InQueue(o) /\ mailed' = mailed
    BY <1>1, <1>3
  <2>3. CASE o # r.at
    BY <2>1, <2>2, <2>3, <1>8 DEF CopiesExplained
  <2>4. CASE o = r.at /\ o \notin mailed
    <3>1. sent[o] = 0
      BY <2>4 DEF CopiesExplained
    <3> QED BY <2>2, <2>4, <3>1, <1>2, <1>4
  <2>5. CASE o = r.at /\ o \in mailed
    <3>1. sent[o] = unsure[o] /\ InQueue(o)'
      BY <2>1, <2>2, <2>5, <1>2 DEF CopiesExplained
    <3> QED BY <2>1, <2>2, <2>5, <3>1, <1>1, <1>2, <1>4, <1>7
  <2> QED BY <2>3, <2>4, <2>5
<1>11. RunsExplained'
  <2>1. ASSUME NEW q \in rows
        PROVE  /\ Unrecorded(q.at)' => runs'[q.at] <= q.retries + lost[q.at] + 1
               /\ ~Unrecorded(q.at)' => runs'[q.at] <= q.retries + lost[q.at]
    <3>1. q.at \in Op /\ q.retries \in Nat
      BY OutboxAssumption DEF TypeOK, Row
    <3>2. runs[q.at] <= q.retries + lost[q.at]
      BY <3>1, <1>2 DEF RunsExplained
    <3>3. CASE q.at = r.at
      BY <3>1, <3>2, <3>3, <1>1, <1>3, <1>7
    <3>4. CASE q.at # r.at
      BY <3>1, <3>2, <3>4, <1>3, <1>8
    <3> QED BY <3>3, <3>4
  <2>2. ASSUME NEW o \in Op, ~InQueue(o)' PROVE runs'[o] <= MaxRetries + lost[o]
    <3>1. ~InQueue(o) /\ o # r.at
      BY <2>2, <1>2, <1>3
    <3> QED BY <3>1, <1>8 DEF RunsExplained
  <2>3. rows' = rows /\ lost' = lost
    BY <1>1
  <2> QED BY <2>1, <2>2, <2>3 DEF RunsExplained
<1> QED BY <1>5, <1>6, <1>9, <1>10, <1>11

(* A mark done with the first row of the batch: the row is gone, or        *)
(* retried, or left as it was with its outcome lost.                       *)
LEMMA AccountMarkCompleted ==
  ASSUME Account, NEW r \in batch, MarkCompleted(r)
  PROVE  Account'
<1> USE DEF Account, queueVars
<1>1. /\ phase = "mark" /\ phase' = "replay" /\ First(r)
      /\ result = "ok" /\ result' = "none" /\ batch' = batch \ {r}
      /\ UNCHANGED <<queueVars, local, seen, sent, pairs, runs>>
      /\ fails' \in 0..MaxFails
  BY OutboxAssumption DEF MarkCompleted, Done, TypeOK
<1>2. /\ r.at \in Op /\ r.at \in 1..created /\ InQueue(r.at)
      /\ (r.kind = "send" <=> r.at \in mailed)
      /\ \E q \in rows : q.at = r.at /\ Pending(q)
      /\ \A o \in Op : Unrecorded(o) <=> o = r.at
  BY <1>1, FirstIsUnrecorded
<1>3. \/ /\ rows' = {q \in rows : q.at # r.at} /\ lost' = lost /\ unsure' = unsure
      \/ /\ rows' = rows /\ lost' = [lost EXCEPT ![r.at] = @ + 1]
         /\ unsure' = [unsure EXCEPT ![r.at] = @ + 1]
  BY DEF MarkCompleted, Without
<1>4. rows' \subseteq rows /\ \A q \in rows : q.at # r.at => q \in rows'
  BY <1>3
<1>5. /\ sent \in [Op -> Nat] /\ unsure \in [Op -> Nat] /\ runs \in [Op -> Nat]
      /\ lost \in [Op -> Nat] /\ mailed \subseteq Op /\ created \in Nat
      /\ unsure' \in [Op -> Nat] /\ lost' \in [Op -> Nat]
  BY <1>3 DEF TypeOK
<1>6. TypeOK'
  <2>1. ASSUME NEW b \in batch' PROVE \E q \in rows' : q.at = b.at /\ Pending(q)
    <3>1. b \in batch /\ b.at # r.at
      BY <1>1 DEF RoundShape
    <3> QED BY <3>1, <1>4 DEF TypeOK
  <2> QED BY <1>1, <1>4, <1>5, <2>1 DEF TypeOK, Phase
<1>7. RowsAreCreated' /\ RoundShape' /\ PendingHasTries'
  BY <1>1, <1>4 DEF RowsAreCreated, RoundShape, PendingHasTries, Pending
<1>8. \A o \in Op : o # r.at => unsure'[o] = unsure[o] /\ lost'[o] = lost[o]
  BY <1>3, <1>5
<1>9. \A o \in Op : ~Unrecorded(o)' /\ ~Accepted(o)'
  BY <1>1 DEF Unrecorded, Accepted
<1>10. \A o \in Op : o # r.at => InQueue(o)' = InQueue(o)
  BY <1>4 DEF InQueue
<1>11. NoHistoryYet'
  BY <1>1, <1>2, <1>5, <1>8 DEF NoHistoryYet
<1>12. CopiesExplained'
  <2> SUFFICES ASSUME NEW o \in Op
               PROVE  /\ o \notin mailed' => sent'[o] = 0
                      /\ o \in mailed' /\ InQueue(o)' /\ ~Accepted(o)' =>
                             sent'[o] = unsure'[o]
                      /\ o \in mailed' /\ (~InQueue(o)' \/ Accepted(o)') =>
                             sent'[o] = unsure'[o] + 1
    BY DEF CopiesExplained
  <2>1. ~Accepted(o)' /\ (Accepted(o) <=> o = r.at) /\ mailed' = mailed /\ sent' = sent
    BY <1>1, <1>2, <1>9 DEF Accepted
  <2>2. CASE o # r.at
    BY <2>1, <2>2, <1>8, <1>10 DEF CopiesExplained
  <2>3. CASE o \notin mailed
    BY <2>1, <2>3 DEF CopiesExplained
  <2>4. CASE o = r.at /\ o \in mailed
    <3>1. sent[o] = unsure[o] + 1
      BY <2>1, <2>4 DEF CopiesExplained
    <3>2. CASE rows' = {q \in rows : q.at # r.at} /\ unsure' = unsure
      BY <2>1, <2>4, <3>1, <3>2 DEF InQueue
    <3>3. CASE rows' = rows /\ unsure' = [unsure EXCEPT ![r.at] = @ + 1]
      <4>1. InQueue(o)'
        BY <2>4, <3>3, <1>2 DEF InQueue
      <4> QED BY <2>1, <2>4, <3>1, <3>3, <4>1, <1>5
    <3> QED BY <3>2, <3>3, <1>3
  <2> QED BY <2>2, <2>3, <2>4
<1>13. RunsExplained'
  <2>1. \A q \in rows : /\ q.at \in Op /\ q.retries \in Nat
                        /\ Pending(q) => q.retries + 1 <= MaxRetries
    BY OutboxAssumption DEF TypeOK, Row, PendingHasTries
  <2>2. ASSUME NEW q \in rows' PROVE runs[q.at] <= q.retries + lost'[q.at]
    <3>1. q \in rows
      BY <1>4
    <3>2. CASE q.at = r.at
      <4>1. lost'[q.at] = lost[q.at] + 1
        BY <3>2, <1>3, <1>5, <2>1, <3>1
      <4>2. runs[q.at] <= q.retries + lost[q.at] + 1
        BY <3>1, <3>2, <1>2 DEF RunsExplained
      <4> QED BY <4>1, <4>2, <2>1, <3>1, <1>5
    <3>3. CASE q.at # r.at
      BY <3>1, <3>3, <1>2, <1>8, <2>1 DEF RunsExplained
    <3> QED BY <3>2, <3>3
  <2>3. ASSUME NEW o \in Op, ~InQueue(o)' PROVE runs[o] <= MaxRetries + lost'[o]
    <3>1. CASE o # r.at
      BY <3>1, <2>3, <1>8, <1>10 DEF RunsExplained
    <3>2. CASE o = r.at
      <4>1. PICK q \in rows : q.at = r.at /\ Pending(q)
        BY <1>2
      <4>2. runs[o] <= q.retries + lost[o] + 1 /\ q.retries + 1 <= MaxRetries
        BY <4>1, <3>2, <1>2, <2>1 DEF RunsExplained
      <4>3. lost'[o] = lost[o] \/ lost'[o] = lost[o] + 1
        BY <3>2, <1>3, <1>5
      <4> QED BY <4>1, <4>2, <4>3, <2>1, <1>5, OutboxAssumption
    <3> QED BY <3>1, <3>2
  <2> QED BY <2>2, <2>3, <1>1, <1>9, <2>1, <1>4 DEF RunsExplained
<1> QED BY <1>6, <1>7, <1>11, <1>12, <1>13

LEMMA AccountMarkFailed ==
  ASSUME Account, NEW r \in batch, MarkFailed(r)
  PROVE  Account'
<1> USE DEF Account, queueVars
<1>1. /\ phase = "mark" /\ phase' = "replay" /\ First(r)
      /\ result = "err" /\ result' = "none" /\ batch' = batch \ {r}
      /\ UNCHANGED <<queueVars, local, seen, sent, pairs, runs, unsure>>
      /\ fails' \in 0..MaxFails
  BY OutboxAssumption DEF MarkFailed, Done, TypeOK
<1>2. /\ r.at \in Op /\ r.at \in 1..created /\ InQueue(r.at)
      /\ (r.kind = "send" <=> r.at \in mailed)
      /\ \A o \in Op : Unrecorded(o) <=> o = r.at
  BY <1>1, FirstIsUnrecorded
<1>3. PICK old \in rows : old.at = r.at /\ Pending(old)
  BY <1>1, FirstIsUnrecorded
<1>4. /\ old \in Row /\ old.retries + 1 <= MaxRetries /\ old.retries \in Nat
      /\ \A q \in rows : q.at \in Op /\ q.retries \in Nat
      /\ \A q \in rows : q.at = r.at => q = old
  BY <1>3, OutboxAssumption DEF TypeOK, Row, PendingHasTries
<1>5. /\ Retried(old) \in Row /\ Retried(old).at = r.at
      /\ Retried(old).kind = old.kind /\ Retried(old).retries = old.retries + 1
      /\ Pending(Retried(old)) => old.retries + 1 < MaxRetries
  <2>1. old.retries + 1 \in 0..MaxRetries
    BY <1>4, OutboxAssumption
  <2>2. PICK status \in {"pending", "failed"} :
           /\ Retried(old) = [old EXCEPT !.retries = @ + 1, !.waiting = TRUE,
                                         !.status = status]
           /\ status = "pending" => ~(old.retries + 1 >= MaxRetries)
    BY DEF Retried, GivesUp
  <2>3. Retried(old) \in Row /\ Retried(old).status = status
    BY <1>4, <2>1, <2>2 DEF Row
  <2>4. /\ Retried(old).at = r.at /\ Retried(old).kind = old.kind
        /\ Retried(old).retries = old.retries + 1
    BY <1>3, <1>4, <2>2 DEF Row
  <2> QED BY <2>2, <2>3, <2>4, <1>4, OutboxAssumption DEF Pending
<1>6. \/ rows' = {q \in rows : q.at # r.at} \cup {Retried(old)} /\ lost' = lost
      \/ rows' = rows /\ lost' = [lost EXCEPT ![r.at] = @ + 1]
  <2>1. {IF q.at = r.at THEN Retried(q) ELSE q : q \in rows}
          = {q \in rows : q.at # r.at} \cup {Retried(old)}
    BY <1>3, <1>4
  <2> QED BY <2>1 DEF MarkFailed
<1>7. /\ \A q \in rows : q.at # r.at => q \in rows'
      /\ \A q \in rows' : q.at # r.at => q \in rows
      /\ \A q \in rows' : q.at = r.at => q \in {old, Retried(old)}
      /\ rows' \subseteq Row /\ \E q \in rows' : q.at = r.at
  BY <1>3, <1>4, <1>5, <1>6 DEF TypeOK
<1>8. /\ sent \in [Op -> Nat] /\ unsure \in [Op -> Nat] /\ runs \in [Op -> Nat]
      /\ lost \in [Op -> Nat] /\ lost' \in [Op -> Nat] /\ created \in Nat
  BY <1>6 DEF TypeOK
<1>9. TypeOK'
  <2>1. ASSUME NEW b \in batch' PROVE \E q \in rows' : q.at = b.at /\ Pending(q)
    <3>1. b \in batch /\ b.at # r.at
      BY <1>1 DEF RoundShape
    <3> QED BY <3>1, <1>7 DEF TypeOK
  <2>2. \A a, b \in rows' : a.at = b.at => a = b
    BY <1>4, <1>5, <1>6 DEF TypeOK
  <2> QED BY <1>1, <1>7, <1>8, <2>1, <2>2 DEF TypeOK, Phase
<1>10. RowsAreCreated' /\ RoundShape' /\ PendingHasTries'
  <2>1. RowsAreCreated'
    BY <1>1, <1>3, <1>5, <1>6 DEF RowsAreCreated
  <2>2. PendingHasTries'
    BY <1>4, <1>5, <1>6 DEF PendingHasTries, Pending
  <2>3. RoundShape'
    BY <1>1 DEF RoundShape
  <2> QED BY <2>1, <2>2, <2>3
<1>11. NoHistoryYet'
  BY <1>1, <1>2, <1>8 DEF NoHistoryYet
<1>12. \A o \in Op : /\ ~Unrecorded(o)' /\ ~Accepted(o)' /\ ~Accepted(o)
                    /\ InQueue(o)' = InQueue(o)
  <2>1. ASSUME NEW o \in Op PROVE InQueue(o)' = InQueue(o)
    <3>1. CASE o = r.at
      BY <3>1, <1>3, <1>7 DEF InQueue
    <3>2. CASE o # r.at
      BY <3>2, <1>7 DEF InQueue
    <3> QED BY <3>1, <3>2
  <2> QED BY <2>1, <1>1 DEF Unrecorded, Accepted
<1>13. CopiesExplained'
  BY <1>1, <1>12 DEF CopiesExplained
<1>14. RunsExplained'
  <2>1. \A o \in Op : o # r.at => lost'[o] = lost[o]
    BY <1>6, <1>8
  <2>2. runs[r.at] <= old.retries + lost[r.at] + 1
    BY <1>2, <1>3 DEF RunsExplained
  <2>3. ASSUME NEW q \in rows' PROVE runs[q.at] <= q.retries + lost'[q.at]
    <3>1. CASE q.at # r.at
      BY <3>1, <1>2, <1>4, <1>7, <2>1 DEF RunsExplained
    <3>2. CASE q.at = r.at /\ lost' = lost
      <4>1. q = Retried(old)
        BY <3>2, <1>2, <1>5, <1>6, <1>8
      <4> QED BY <4>1, <3>2, <1>2, <1>4, <1>5, <1>8, <2>2
    <3>3. CASE q.at = r.at /\ rows' = rows /\ lost' = [lost EXCEPT ![r.at] = @ + 1]
      <4>1. q = old /\ lost'[r.at] = lost[r.at] + 1
        BY <3>3, <1>2, <1>4, <1>8
      <4> QED BY <4>1, <3>3, <1>2, <1>4, <1>8, <2>2
    <3> QED BY <3>1, <3>2, <3>3, <1>6
  <2>4. ASSUME NEW o \in Op, ~InQueue(o)' PROVE runs[o] <= MaxRetries + lost'[o]
    <3>1. ~InQueue(o) /\ o # r.at
      BY <2>4, <1>2, <1>12
    <3> QED BY <3>1, <2>1 DEF RunsExplained
  <2>5. \A q \in rows' : q.at \in Op
    BY <1>7 DEF Row
  <2> QED BY <2>3, <2>4, <2>5, <1>1, <1>12 DEF RunsExplained
<1> QED BY <1>9, <1>10, <1>11, <1>13, <1>14

LEMMA AccountCrash ==
  ASSUME Account, Crash
  PROVE  Account'
<1> USE DEF Account, queueVars
<1>1. /\ phase' = "idle" /\ result' = "none" /\ batch' = {} /\ pairs' = {}
      /\ UNCHANGED <<queueVars, rows, local, seen, sent, runs>>
      /\ fails' \in 0..MaxFails
  BY OutboxAssumption DEF Crash, TypeOK
<1>2. \A o \in Op :
        /\ lost'[o] = IF Unrecorded(o) THEN lost[o] + 1 ELSE lost[o]
        /\ unsure'[o] = IF Accepted(o) THEN unsure[o] + 1 ELSE unsure[o]
  BY DEF Crash, Accepted
<1>3. /\ sent \in [Op -> Nat] /\ unsure \in [Op -> Nat] /\ runs \in [Op -> Nat]
      /\ lost \in [Op -> Nat] /\ created \in Nat
  BY DEF TypeOK
<1>4. lost' \in [Op -> Nat] /\ unsure' \in [Op -> Nat]
  BY <1>3 DEF Crash
<1>5. \A o \in Op : Unrecorded(o) => InQueue(o) /\ o \in 1..created
  BY DEF Unrecorded, InQueue, TypeOK, RowsAreCreated
<1>6. \A o \in Op : /\ ~Unrecorded(o)' /\ ~Accepted(o)'
                   /\ InQueue(o)' = InQueue(o)
  BY <1>1 DEF Unrecorded, Accepted, InQueue
<1>7. TypeOK'
  BY <1>1, <1>4 DEF TypeOK, Phase
<1>8. RowsAreCreated' /\ RoundShape' /\ PendingHasTries'
  BY <1>1 DEF RowsAreCreated, RoundShape, PendingHasTries, Pending
<1>9. NoHistoryYet'
  BY <1>1, <1>2, <1>3, <1>5 DEF NoHistoryYet, Accepted
<1>10. CopiesExplained'
  <2> SUFFICES ASSUME NEW o \in Op
               PROVE  /\ o \notin mailed' => sent'[o] = 0
                      /\ o \in mailed' /\ InQueue(o)' /\ ~Accepted(o)' =>
                             sent'[o] = unsure'[o]
                      /\ o \in mailed' /\ (~InQueue(o)' \/ Accepted(o)') =>
                             sent'[o] = unsure'[o] + 1
    BY DEF CopiesExplained
  <2>1. mailed' = mailed /\ sent' = sent /\ InQueue(o)' = InQueue(o) /\ ~Accepted(o)'
    BY <1>1, <1>6
  <2>2. CASE Accepted(o)
    <3>1. InQueue(o) /\ unsure'[o] = unsure[o] + 1
      BY <2>2, <1>2, <1>5 DEF Accepted
    <3> QED BY <2>1, <2>2, <3>1 DEF CopiesExplained
  <2>3. CASE ~Accepted(o)
    <3>1. unsure'[o] = unsure[o]
      BY <2>3, <1>2
    <3> QED BY <2>1, <2>3, <3>1 DEF CopiesExplained
  <2> QED BY <2>2, <2>3
<1>11. RunsExplained'
  <2>1. ASSUME NEW q \in rows
        PROVE  q.at \in Op /\ runs[q.at] <= q.retries + lost'[q.at] /\ ~Unrecorded(q.at)'
    <3>1. q.at \in Op /\ q.retries \in Nat
      BY OutboxAssumption DEF TypeOK, Row
    <3>2. CASE Unrecorded(q.at)
      BY <3>1, <3>2, <1>2, <1>3, <1>6 DEF RunsExplained
    <3>3. CASE ~Unrecorded(q.at)
      BY <3>1, <3>3, <1>2, <1>3, <1>6 DEF RunsExplained
    <3> QED BY <3>2, <3>3
  <2>2. ASSUME NEW o \in Op, ~InQueue(o)' PROVE runs[o] <= MaxRetries + lost'[o]
    <3>1. ~InQueue(o) /\ ~Unrecorded(o)
      BY <2>2, <1>5, <1>6
    <3> QED BY <3>1, <1>2 DEF RunsExplained
  <2> QED BY <2>1, <2>2, <1>1 DEF RunsExplained
<1> QED BY <1>7, <1>8, <1>9, <1>10, <1>11

-----------------------------------------------------------------------------
LEMMA AccountToggle ==
  ASSUME Account, NEW m \in Messages, Toggle(m)
  PROVE  Account'
<1>1. local' \in [Messages -> BOOLEAN]
  <2>1. local \in [Messages -> BOOLEAN] /\ (~local[m]) \in BOOLEAN
    BY DEF Account, TypeOK
  <2>2. local' = [local EXCEPT ![m] = ~local[m]]
    BY DEF Toggle
  <2> QED BY <2>1, <2>2
<1>2. PICK kind : Insert(kind, m)
  BY DEF Toggle
<1> QED BY <1>1, <1>2, AccountInsert

LEMMA AccountEnqueueOther ==
  ASSUME Account, NEW kind, EnqueueOther(kind)
  PROVE  Account'
<1>1. local' \in [Messages -> BOOLEAN] /\ Insert(kind, Nothing)
  BY DEF EnqueueOther, Account, TypeOK
<1> QED BY <1>1, AccountInsert

(* Every step keeps the account.                                           *)
LEMMA AccountStep == Account /\ [Next]_vars => Account'
<1> SUFFICES ASSUME Account, [Next]_vars PROVE Account'
  OBVIOUS
<1>1. CASE \E m \in Messages : Toggle(m)
  BY <1>1, AccountToggle
<1>2. CASE \E kind \in {"send", "unknown"} : EnqueueOther(kind)
  BY <1>2, AccountEnqueueOther
<1>3. CASE StartRound
  BY <1>3, AccountStartRound
<1>4. CASE DropReads
  BY <1>4, AccountDropReads
<1>5. CASE DropUnreads
  BY <1>5, AccountDropUnreads
<1>6. CASE Dequeue
  BY <1>6, AccountDequeue
<1>7. CASE FinishRound
  BY <1>7, AccountFinishRound
<1>8. ASSUME NEW r \in batch, SkipUndecodable(r) PROVE Account'
  BY <1>8, AccountSkip
<1>9. ASSUME NEW r \in batch, Execute(r) PROVE Account'
  BY <1>9, AccountExecute
<1>10. ASSUME NEW r \in batch, MarkCompleted(r) PROVE Account'
  BY <1>10, AccountMarkCompleted
<1>11. ASSUME NEW r \in batch, MarkFailed(r) PROVE Account'
  BY <1>11, AccountMarkFailed
<1>12. ASSUME NEW r \in rows, BackoffOver(r) PROVE Account'
  BY <1>12, AccountBackoffOver
<1>13. CASE Crash
  BY <1>13, AccountCrash
<1>14. CASE UNCHANGED vars
  BY <1>14 DEF vars, queueVars, roundVars, history, Account, TypeOK, RowsAreCreated,
     RoundShape, PendingHasTries, NoHistoryYet, CopiesExplained, RunsExplained,
     InQueue, Accepted, Unrecorded, First, Pending
<1> QED BY <1>1, <1>2, <1>3, <1>4, <1>5, <1>6, <1>7, <1>8, <1>9, <1>10, <1>11,
           <1>12, <1>13, <1>14 DEF Next, User, Worker, Time

LEMMA AccountHolds == Spec => []Account
  BY AccountInit, AccountStep, PTL DEF Spec

(* The variables keep their types, a row's place stays its own, and the    *)
(* batch names pending rows only, through compaction, marks and crashes.   *)
THEOREM QueueTypes == Spec => []TypeOK
<1>1. Account => TypeOK
  BY DEF Account
<1> QED BY <1>1, AccountHolds, PTL

(* No mail is sent again unless its acceptance remained unknown.           *)
THEOREM NothingSentNeedlessly == Spec => []NoNeedlessResend
<1>1. Account => NoNeedlessResend
  <2> SUFFICES ASSUME Account, NEW o \in Op PROVE sent[o] <= 1 + unsure[o]
    BY DEF NoNeedlessResend
  <2>1. sent[o] \in Nat /\ unsure[o] \in Nat
    BY DEF Account, TypeOK
  <2>2. sent[o] \in {0, unsure[o], unsure[o] + 1}
    BY DEF Account, CopiesExplained
  <2> QED BY <2>1, <2>2
<1> QED BY <1>1, AccountHolds, PTL

(* An operation is not tried more than max_retries times, plus once for    *)
(* each outcome that was lost.                                             *)
THEOREM TriesAreBounded == Spec => []AttemptsBounded
<1>1. Account => AttemptsBounded
  <2> SUFFICES ASSUME Account, NEW o \in Op PROVE runs[o] <= MaxRetries + lost[o]
    BY DEF AttemptsBounded
  <2>1. runs[o] \in Nat /\ lost[o] \in Nat /\ MaxRetries \in Nat
    BY OutboxAssumption DEF Account, TypeOK
  <2>2. CASE ~InQueue(o)
    BY <2>2 DEF Account, RunsExplained
  <2>3. CASE InQueue(o)
    <3>1. PICK r \in rows : r.at = o
      BY <2>3 DEF InQueue
    <3>2. r.retries \in 0..MaxRetries
      BY DEF Account, TypeOK, Row
    <3>3. CASE Unrecorded(o)
      <4>1. PICK q \in rows : q.at = o /\ Pending(q)
        BY <3>3 DEF Unrecorded, Account, TypeOK
      <4>2. q = r /\ r.retries < MaxRetries
        BY <3>1, <4>1 DEF Account, TypeOK, PendingHasTries
      <4>3. runs[o] <= r.retries + lost[o] + 1
        BY <3>1, <3>3 DEF Account, RunsExplained
      <4> QED BY <2>1, <3>2, <4>2, <4>3
    <3>4. CASE ~Unrecorded(o)
      BY <2>1, <3>1, <3>2, <3>4 DEF Account, RunsExplained
    <3> QED BY <3>3, <3>4
  <2> QED BY <2>2, <2>3
<1> QED BY <1>1, AccountHolds, PTL

(* A mail that was not accepted is in the queue, pending or failed.        *)
THEOREM MailIsNeverLost == Spec => []NoMailLost
<1>1. Account => NoMailLost
  <2> SUFFICES ASSUME Account, NEW o \in mailed, sent[o] = 0 PROVE InQueue(o)
    BY DEF NoMailLost, InQueue
  <2>1. o \in Op /\ unsure[o] \in Nat
    BY DEF Account, TypeOK
  <2> QED BY <2>1 DEF Account, CopiesExplained
<1> QED BY <1>1, AccountHolds, PTL

-----------------------------------------------------------------------------
(* The refinement. What a mail's row says of it.                           *)
LEMMA OnlyRow ==
  ASSUME NEW S, NEW r \in S, \A p, q \in S : p.at = q.at => p = q
  PROVE  (CHOOSE q \in S : q.at = r.at) = r
  OBVIOUS

LEMMA RowSays ==
  ASSUME Account, NEW r \in rows, r.at \in mailed
  PROVE  Standing(r.at) = r.status /\ Tries(r.at) = r.retries
<1>1. (CHOOSE q \in rows : q.at = r.at) = r
  BY OnlyRow DEF Account, TypeOK
<1> QED BY <1>1 DEF Standing, Tries

LEMMA RowWillSay ==
  ASSUME Account', NEW r \in rows', r.at \in mailed'
  PROVE  Standing(r.at)' = r.status /\ Tries(r.at)' = r.retries
<1>1. (CHOOSE q \in rows' : q.at = r.at) = r
  BY OnlyRow DEF Account, TypeOK
<1> QED BY <1>1 DEF Standing, Tries

(* A mail whose row keeps its status and its tries stands as it did.       *)
KeepsRow(o) ==
    \/ ~InQueue(o) /\ ~InQueue(o)'
    \/ \E r \in rows, q \in rows' :
          r.at = o /\ q.at = o /\ q.status = r.status /\ q.retries = r.retries

LEMMA Unmoved ==
  ASSUME Account, Account', NEW o \in Op, o \in mailed <=> o \in mailed',
         o \in mailed => KeepsRow(o)
  PROVE  Standing(o)' = Standing(o) /\ Tries(o)' = Tries(o)
<1>1. CASE o \notin mailed
  BY <1>1 DEF Standing, Tries
<1>2. CASE o \in mailed /\ ~InQueue(o) /\ ~InQueue(o)'
  BY <1>2 DEF Standing, Tries, InQueue
<1>3. CASE o \in mailed /\ ~(~InQueue(o) /\ ~InQueue(o)')
  <2>1. PICK r \in rows, q \in rows' :
           r.at = o /\ q.at = o /\ q.status = r.status /\ q.retries = r.retries
    BY <1>3 DEF KeepsRow
  <2>2. Standing(o) = r.status /\ Tries(o) = r.retries
    BY <1>3, <2>1, RowSays
  <2>3. Standing(o)' = q.status /\ Tries(o)' = q.retries
    BY <1>3, <2>1, RowWillSay
  <2> QED BY <2>1, <2>2, <2>3
<1> QED BY <1>1, <1>2, <1>3

(* A step that moves no mail, copies none and adds no doubt is a stutter.  *)
LEMMA NothingPromised ==
  ASSUME Account, Account', mailed' = mailed, sent' = sent,
         \A o \in mailed : KeepsRow(o) /\ unsure'[o] = unsure[o]
  PROVE  UNCHANGED Promised!mailVars
<1>1. \A o \in Op : Standing(o)' = Standing(o) /\ Tries(o)' = Tries(o)
  BY Unmoved
<1>2. [o \in Op |-> Standing(o)]' = [o \in Op |-> Standing(o)]
  BY <1>1
<1>3. [o \in Op |-> Tries(o)]' = [o \in Op |-> Tries(o)]
  BY <1>1
<1>4. [o \in Op |-> IF o \in mailed THEN unsure[o] ELSE 0]'
        = [o \in Op |-> IF o \in mailed THEN unsure[o] ELSE 0]
  OBVIOUS
<1> QED BY <1>2, <1>3, <1>4 DEF Promised!mailVars

(* Rows that stay what they are keep every mail where it is.               *)
LEMMA RowsKept ==
  ASSUME Account, Account', rows' = rows, mailed' = mailed, sent' = sent,
         \A o \in mailed : unsure'[o] = unsure[o]
  PROVE  UNCHANGED Promised!mailVars
<1>1. \A o \in mailed : KeepsRow(o)
  BY DEF KeepsRow, InQueue
<1> QED BY <1>1, NothingPromised
LEMMA PromisedInit == Init => Promised!OutboxInit
<1> SUFFICES ASSUME Init PROVE Promised!OutboxInit
  OBVIOUS
<1>1. \A o \in Op : Standing(o) = "none" /\ Tries(o) = 0 /\ o \notin mailed
  BY DEF Init, Standing, Tries
<1>2. sent = [o \in Op |-> 0]
  BY DEF Init
<1> QED BY <1>1, <1>2 DEF Promised!OutboxInit

(* Queueing mail submits it; queueing anything else promises nothing.      *)
LEMMA PromisedInsert ==
  ASSUME Account, Account', NEW kind, NEW m \in Messages \cup {Nothing},
         Insert(kind, m)
  PROVE  [Promised!OutboxNext]_(Promised!mailVars)
<1>1. created + 1 \in Op /\ created + 1 \notin 1..created
  BY OutboxAssumption DEF Account, TypeOK, Insert, Op
<1>2. PICK n \in Op : n = created + 1
  BY <1>1
<1>3. n \notin mailed /\ ~InQueue(n)
  BY <1>1, <1>2 DEF Account, RowsAreCreated, InQueue
<1> DEFINE new == [at |-> created + 1, kind |-> kind, msg |-> m,
                   status |-> "pending", retries |-> 0, waiting |-> FALSE]
<1>4. /\ rows' = rows \cup {new} /\ new.at = n
      /\ new.status = "pending" /\ new.retries = 0
  BY <1>2 DEF Insert
<1> HIDE DEF new
<1>5. \A o \in mailed : o \in Op /\ o # n /\ KeepsRow(o)
  BY <1>3, <1>4 DEF KeepsRow, InQueue, Account, TypeOK
<1>6. sent' = sent /\ unsure' = unsure
  BY DEF Insert, history
<1>7. CASE kind # "send"
  BY <1>5, <1>6, <1>7, NothingPromised DEF Insert
<1>8. CASE kind = "send"
  <2>1. mailed' = mailed \cup {n} /\ new \in rows'
    BY <1>2, <1>4, <1>8 DEF Insert
  <2>2. Standing(n) = "none" /\ Tries(n) = 0
    BY <1>3 DEF Standing, Tries
  <2>3. Standing(n)' = "pending" /\ Tries(n)' = 0
    BY <1>4, <2>1, RowWillSay
  <2>4. \A o \in Op \ {n} : Standing(o)' = Standing(o) /\ Tries(o)' = Tries(o)
    BY <1>5, <2>1, Unmoved
  <2>5. unsure[n] = 0
    BY <1>1, <1>2 DEF Account, NoHistoryYet, TypeOK, Op
  <2>6. [o \in Op |-> Standing(o)]'
          = [[o \in Op |-> Standing(o)] EXCEPT ![n] = "pending"]
    BY <2>3, <2>4
  <2>7. [o \in Op |-> Tries(o)]' = [o \in Op |-> Tries(o)]
    BY <2>2, <2>3, <2>4
  <2>8. [o \in Op |-> IF o \in mailed THEN unsure[o] ELSE 0]'
          = [o \in Op |-> IF o \in mailed THEN unsure[o] ELSE 0]
    BY <1>3, <1>6, <2>1, <2>5
  <2>9. Promised!Submit(n)
    BY <1>6, <2>2, <2>6, <2>7, <2>8 DEF Promised!Submit
  <2> QED BY <2>9 DEF Promised!OutboxNext
<1> QED BY <1>7, <1>8

(* What the batch holds is pending, and stands so if it is mail.           *)
LEMMA InHand ==
  ASSUME Account, NEW r \in batch
  PROVE  \E q \in rows : /\ q.at = r.at /\ Pending(q) /\ r.at \in Op
                         /\ q.retries \in Nat /\ q.retries < MaxRetries
                         /\ r.at \in mailed => /\ Standing(r.at) = "pending"
                                               /\ Tries(r.at) = q.retries
<1>1. PICK q \in rows : q.at = r.at /\ Pending(q)
  BY DEF Account, TypeOK
<1>2. q.at \in Op /\ q.retries \in Nat /\ q.retries < MaxRetries
  BY <1>1, OutboxAssumption DEF Account, TypeOK, Row, PendingHasTries
<1>3. r.at \in mailed => Standing(r.at) = "pending" /\ Tries(r.at) = q.retries
  BY <1>1, RowSays DEF Pending
<1> QED BY <1>1, <1>2, <1>3

(* Sending is accepting, whether the answer arrives or not.                *)
LEMMA PromisedExecute ==
  ASSUME Account, Account', NEW r \in batch, Execute(r)
  PROVE  [Promised!OutboxNext]_(Promised!mailVars)
<1>1. rows' = rows /\ mailed' = mailed /\ r.at \in Op
  BY InHand DEF Execute, queueVars
<1>2. r.kind = "send" <=> r.at \in mailed
  BY DEF Account, RowsAreCreated
<1>3. unsure' = unsure \/ unsure' = [unsure EXCEPT ![r.at] = @ + 1]
  BY DEF Execute
<1>4. CASE sent' = sent /\ (r.kind = "send" => unsure' = unsure)
  <2>1. \A o \in mailed : unsure'[o] = unsure[o]
    BY <1>2, <1>3, <1>4 DEF Account, TypeOK
  <2> QED BY <1>1, <1>4, <2>1, RowsKept
<1>5. CASE r.kind = "send" /\ TakesEffect(r)
  <2>1. r.at \in mailed /\ Standing(r.at) = "pending"
    BY <1>2, <1>5, InHand
  <2>2. sent[r.at] = unsure[r.at] /\ unsure[r.at] \in Nat
    <3>1. InQueue(r.at) /\ ~Accepted(r.at)
      BY InHand DEF InQueue, Accepted, Unrecorded, Execute
    <3> QED BY <1>1, <2>1, <3>1 DEF Account, CopiesExplained, TypeOK
  <2>3. \A o \in Op : Standing(o)' = Standing(o) /\ Tries(o)' = Tries(o)
    BY <1>1 DEF Standing, Tries
  <2>4. sent' = [sent EXCEPT ![r.at] = @ + 1]
    BY <1>5 DEF TakesEffect
  <2> DEFINE doubt == [o \in Op |-> IF o \in mailed THEN unsure[o] ELSE 0]
  <2>5. doubt' \in {doubt, [doubt EXCEPT ![r.at] = @ + 1]}
    <3>1. CASE unsure' = unsure
      BY <3>1, <1>1
    <3>2. CASE unsure' = [unsure EXCEPT ![r.at] = @ + 1]
      BY <3>2, <1>1, <2>1 DEF Account, TypeOK
    <3> QED BY <3>1, <3>2, <1>3
  <2>6. [o \in Op |-> Standing(o)]' = [o \in Op |-> Standing(o)]
    BY <2>3
  <2>7. [o \in Op |-> Tries(o)]' = [o \in Op |-> Tries(o)]
    BY <2>3
  <2>8. Promised!Accept(r.at)
    BY <1>1, <2>1, <2>2, <2>4, <2>5, <2>6, <2>7 DEF Promised!Accept, Promised!Known
  <2> QED BY <1>1, <2>8 DEF Promised!OutboxNext
<1> QED BY <1>4, <1>5 DEF Execute, TakesEffect
(* A mark that is made completes the mail; one that fails forgets it.      *)
LEMMA PromisedMarkCompleted ==
  ASSUME Account, Account', NEW r \in batch, MarkCompleted(r)
  PROVE  [Promised!OutboxNext]_(Promised!mailVars)
<1>1. /\ r.at \in Op /\ mailed' = mailed /\ sent' = sent
      /\ rows' = Without({r}) \/ rows' = rows
  BY InHand DEF MarkCompleted, queueVars
<1>2. \A q \in rows : q.at # r.at => q \in Without({r})
  BY DEF Without
<1>3. \A o \in mailed : o # r.at => KeepsRow(o)
  BY <1>1, <1>2 DEF KeepsRow, InQueue, Without
<1>4. /\ unsure[r.at] \in Nat /\ unsure' \in [Op -> Nat]
      /\ \A o \in Op : o # r.at => unsure'[o] = unsure[o]
  BY <1>1 DEF Account, TypeOK, MarkCompleted
<1>5. CASE r.at \notin mailed
  BY <1>1, <1>3, <1>4, <1>5, NothingPromised DEF Account, TypeOK
<1>6. CASE r.at \in mailed
  <2>1. Standing(r.at) = "pending" /\ InQueue(r.at)
    BY <1>6, InHand DEF InQueue
  <2>2. sent[r.at] > unsure[r.at]
    <3>1. Accepted(r.at)
      BY DEF Accepted, Unrecorded, MarkCompleted
    <3>2. sent[r.at] = unsure[r.at] + 1
      BY <1>1, <1>6, <3>1 DEF Account, CopiesExplained
    <3> QED BY <1>4, <3>2
  <2>3. \A o \in Op : o # r.at =>
          Standing(o)' = Standing(o) /\ Tries(o)' = Tries(o)
    BY <1>1, <1>3, Unmoved
  <2> DEFINE doubt == [o \in Op |-> IF o \in mailed THEN unsure[o] ELSE 0]
  <2>4. CASE rows' = Without({r}) /\ unsure' = unsure
    <3>1. Standing(r.at)' = "accepted" /\ Tries(r.at)' = 0
      BY <1>1, <1>6, <2>4 DEF Standing, Tries, Without
    <3>2. [o \in Op |-> Standing(o)]'
            = [[o \in Op |-> Standing(o)] EXCEPT ![r.at] = "accepted"]
      BY <2>3, <3>1
    <3>3. [o \in Op |-> Tries(o)]' = [[o \in Op |-> Tries(o)] EXCEPT ![r.at] = 0]
      BY <2>3, <3>1
    <3>4. doubt' = doubt
      BY <1>1, <2>4
    <3>5. Promised!Complete(r.at)
      BY <1>1, <1>6, <2>1, <2>2, <3>2, <3>3, <3>4
         DEF Promised!Complete, Promised!Known
    <3> QED BY <1>1, <3>5 DEF Promised!OutboxNext
  <2>5. CASE rows' = rows /\ unsure' = [unsure EXCEPT ![r.at] = @ + 1]
    <3>1. Standing(r.at)' = Standing(r.at) /\ Tries(r.at)' = Tries(r.at)
      BY <1>1, <2>5 DEF Standing, Tries
    <3>2. [o \in Op |-> Standing(o)]' = [o \in Op |-> Standing(o)]
      BY <2>3, <3>1
    <3>3. [o \in Op |-> Tries(o)]' = [o \in Op |-> Tries(o)]
      BY <2>3, <3>1
    <3>4. doubt' = [doubt EXCEPT ![r.at] = @ + 1]
      BY <1>1, <1>6, <2>5 DEF Account, TypeOK
    <3>5. Promised!Forget(r.at)
      BY <1>1, <1>6, <2>1, <2>2, <3>2, <3>3, <3>4
         DEF Promised!Forget, Promised!Known
    <3> QED BY <1>1, <3>5 DEF Promised!OutboxNext
  <2> QED BY <2>4, <2>5 DEF MarkCompleted
<1> QED BY <1>5, <1>6

(* A recorded failure is a retry; one whose mark fails changes nothing.    *)
LEMMA PromisedMarkFailed ==
  ASSUME Account, Account', NEW r \in batch, MarkFailed(r)
  PROVE  [Promised!OutboxNext]_(Promised!mailVars)
<1>1. r.at \in Op /\ mailed' = mailed /\ sent' = sent /\ unsure' = unsure
  BY InHand DEF MarkFailed, queueVars
<1>2. CASE rows' = rows
  BY <1>1, <1>2, RowsKept
<1>3. CASE rows' = {IF q.at = r.at THEN Retried(q) ELSE q : q \in rows}
  <2>1. PICK q \in rows :
          /\ q.at = r.at /\ Pending(q) /\ q.retries \in Nat /\ q.retries < MaxRetries
          /\ r.at \in mailed => Standing(r.at) = "pending" /\ Tries(r.at) = q.retries
    BY InHand
  <2>2. \A p \in rows : p.at # r.at => p \in rows'
    BY <1>3
  <2>3. \A o \in mailed : o # r.at => KeepsRow(o)
    <3> SUFFICES ASSUME NEW o \in mailed, o # r.at PROVE KeepsRow(o)
      OBVIOUS
    <3>1. CASE InQueue(o)
      BY <2>2, <3>1 DEF KeepsRow, InQueue
    <3>2. CASE ~InQueue(o)
      <4>1. \A p \in rows' : p.at # o
        <5>1. \A p \in rows : Retried(p).at = p.at
          BY DEF Retried, Account, TypeOK, Row
        <5> QED BY <1>3, <3>2, <5>1 DEF InQueue
      <4> QED BY <3>2, <4>1 DEF KeepsRow, InQueue
    <3> QED BY <3>1, <3>2
  <2>4. Retried(q) \in rows' /\ Retried(q).at = r.at
    <3>1. Retried(q) \in rows'
      BY <1>3, <2>1
    <3>2. Retried(q).at = q.at
      BY DEF Retried, Account, TypeOK, Row
    <3> QED BY <2>1, <3>1, <3>2
  <2>5. /\ Retried(q).retries = q.retries + 1
        /\ Retried(q).status = IF q.retries + 1 = MaxRetries THEN "failed" ELSE "pending"
    BY <2>1, OutboxAssumption DEF Retried, GivesUp, Account, TypeOK, Row
  <2>6. CASE r.at \notin mailed
    BY <1>1, <2>3, <2>6, NothingPromised
  <2>7. CASE r.at \in mailed
    <3>1. sent[r.at] = unsure[r.at] /\ unsure[r.at] \in Nat
      <4>1. InQueue(r.at) /\ ~Accepted(r.at)
        BY <2>1 DEF InQueue, Accepted, MarkFailed
      <4> QED BY <1>1, <2>7, <4>1 DEF Account, CopiesExplained, TypeOK
    <3>2. Standing(r.at)' = Retried(q).status /\ Tries(r.at)' = Retried(q).retries
      BY <1>1, <2>4, <2>7, RowWillSay
    <3>3. \A o \in Op : o # r.at =>
            Standing(o)' = Standing(o) /\ Tries(o)' = Tries(o)
      BY <1>1, <2>3, Unmoved
    <3>4. [o \in Op |-> Tries(o)]'
            = [[o \in Op |-> Tries(o)] EXCEPT ![r.at] = @ + 1]
      BY <2>1, <2>5, <2>7, <3>2, <3>3
    <3>5. [o \in Op |-> Standing(o)]'
            = [[o \in Op |-> Standing(o)] EXCEPT ![r.at] =
                 IF [o \in Op |-> Tries(o)]'[r.at] = MaxRetries
                 THEN "failed" ELSE "pending"]
      BY <1>1, <2>5, <3>2, <3>3
    <3>6. [o \in Op |-> IF o \in mailed THEN unsure[o] ELSE 0]'
            = [o \in Op |-> IF o \in mailed THEN unsure[o] ELSE 0]
      BY <1>1
    <3>7. Promised!Retry(r.at)
      BY <1>1, <2>1, <2>7, <3>1, <3>4, <3>5, <3>6
         DEF Promised!Retry, Promised!Known
    <3> QED BY <1>1, <3>7 DEF Promised!OutboxNext
  <2> QED BY <2>6, <2>7
<1> QED BY <1>2, <1>3 DEF MarkFailed

(* A crash forgets the acceptance that waits for its mark, if there is one. *)
LEMMA PromisedCrash ==
  ASSUME Account, Account', Crash
  PROVE  [Promised!OutboxNext]_(Promised!mailVars)
<1>1. rows' = rows /\ mailed' = mailed /\ sent' = sent /\ mailed \subseteq Op
  BY DEF Crash, queueVars, Account, TypeOK
<1>2. \A o \in Op : unsure'[o] = IF Accepted(o) THEN unsure[o] + 1 ELSE unsure[o]
  BY DEF Crash, Accepted
<1>3. CASE \A o \in mailed : ~Accepted(o)
  BY <1>1, <1>2, <1>3, RowsKept
<1>4. CASE \E o \in mailed : Accepted(o)
  <2>1. PICK o \in mailed : Accepted(o)
    BY <1>4
  <2>2. PICK r \in batch : First(r) /\ r.at = o
    BY <2>1 DEF Accepted, Unrecorded
  <2>3. \A p \in Op : Accepted(p) => p = o
    <3> SUFFICES ASSUME NEW p \in Op, Accepted(p) PROVE p = o
      OBVIOUS
    <3>1. PICK q \in batch : First(q) /\ q.at = p
      BY DEF Accepted, Unrecorded
    <3>2. q.at <= r.at /\ r.at <= q.at
      BY <2>2, <3>1 DEF First
    <3>3. q.at \in Nat /\ r.at \in Nat
      BY InHand, OutboxAssumption DEF Op
    <3> QED BY <2>2, <3>1, <3>2, <3>3
  <2>4. InQueue(o) /\ Standing(o) = "pending"
    BY <2>2, InHand DEF InQueue
  <2>5. sent[o] > unsure[o]
    <3>1. sent[o] = unsure[o] + 1 /\ unsure[o] \in Nat
      BY <1>1, <2>1 DEF Account, CopiesExplained, TypeOK
    <3> QED BY <3>1
  <2>6. \A p \in Op : Standing(p)' = Standing(p) /\ Tries(p)' = Tries(p)
    BY <1>1 DEF Standing, Tries
  <2>7. [p \in Op |-> Standing(p)]' = [p \in Op |-> Standing(p)]
    BY <2>6
  <2>8. [p \in Op |-> Tries(p)]' = [p \in Op |-> Tries(p)]
    BY <2>6
  <2>9. [p \in Op |-> IF p \in mailed THEN unsure[p] ELSE 0]'
          = [[p \in Op |-> IF p \in mailed THEN unsure[p] ELSE 0] EXCEPT ![o] = @ + 1]
    BY <1>1, <1>2, <2>1, <2>3
  <2>10. Promised!Forget(o)
    BY <1>1, <2>1, <2>4, <2>5, <2>7, <2>8, <2>9 DEF Promised!Forget, Promised!Known
  <2> QED BY <1>1, <2>10 DEF Promised!OutboxNext
<1> QED BY <1>3, <1>4

(* Compaction removes the rows of flags only.                              *)
LEMMA PromisedDrop ==
  ASSUME Account, Account', NEW S, rows' = Without(S),
         \A s \in S : s.at \notin mailed,
         mailed' = mailed, sent' = sent, unsure' = unsure
  PROVE  UNCHANGED Promised!mailVars
<1>1. \A r \in rows : r.at \in mailed => r \in rows'
  BY DEF Without
<1>2. \A o \in mailed : KeepsRow(o)
  BY <1>1 DEF KeepsRow, InQueue, Without
<1> QED BY <1>2, NothingPromised

(* A backoff that is over changes neither status nor tries.                *)
LEMMA PromisedBackoffOver ==
  ASSUME Account, Account', NEW r \in rows, BackoffOver(r)
  PROVE  UNCHANGED Promised!mailVars
<1> DEFINE again == [r EXCEPT !.waiting = FALSE]
<1>1. /\ again.at = r.at /\ again.status = r.status /\ again.retries = r.retries
      /\ rows' = Without({r}) \cup {again}
  BY DEF BackoffOver, Account, TypeOK, Row
<1> HIDE DEF again
<1>2. \A o \in mailed : KeepsRow(o)
  <2> SUFFICES ASSUME NEW o \in mailed PROVE KeepsRow(o)
    OBVIOUS
  <2>1. CASE o = r.at
    BY <1>1, <2>1 DEF KeepsRow
  <2>2. CASE o # r.at
    BY <1>1, <2>2 DEF KeepsRow, InQueue, Without
  <2> QED BY <2>1, <2>2
<1> QED BY <1>2, NothingPromised DEF BackoffOver, queueVars, history

(* Every step of the queue is one of Outbox, or changes nothing it sees.   *)
LEMMA PromisedStep ==
  ASSUME Account, Account', [Next]_vars
  PROVE  [Promised!OutboxNext]_(Promised!mailVars)
<1>1. ASSUME NEW m \in Messages, Toggle(m)
      PROVE  [Promised!OutboxNext]_(Promised!mailVars)
  BY <1>1, PromisedInsert DEF Toggle
<1>2. ASSUME NEW kind \in {"send", "unknown"}, EnqueueOther(kind)
      PROVE  [Promised!OutboxNext]_(Promised!mailVars)
  BY <1>2, PromisedInsert DEF EnqueueOther
<1>3. CASE StartRound
  BY <1>3, RowsKept DEF StartRound, queueVars, history
<1>4. CASE DropReads
  <2>1. \A s \in {p[1] : p \in pairs} : s.at \notin mailed
    BY DEF Account, RowsAreCreated
  <2>2. rows' = Without({p[1] : p \in pairs}) \/ rows' = rows
    BY <1>4 DEF DropReads
  <2> QED BY <1>4, <2>1, <2>2, PromisedDrop, RowsKept
          DEF DropReads, queueVars, history
<1>5. CASE DropUnreads
  <2>1. \A s \in {p[2] : p \in pairs} : s.at \notin mailed
    BY DEF Account, RowsAreCreated
  <2>2. rows' = Without({p[2] : p \in pairs}) \/ rows' = rows
    BY <1>5 DEF DropUnreads
  <2> QED BY <1>5, <2>1, <2>2, PromisedDrop, RowsKept
          DEF DropUnreads, queueVars, history
<1>6. CASE Dequeue
  BY <1>6, RowsKept DEF Dequeue, queueVars, history
<1>7. CASE FinishRound
  BY <1>7, RowsKept DEF FinishRound, queueVars, history
<1>8. ASSUME NEW r \in batch, SkipUndecodable(r) PROVE UNCHANGED Promised!mailVars
  BY <1>8, RowsKept DEF SkipUndecodable, queueVars, history
<1>9. ASSUME NEW r \in batch, Execute(r)
      PROVE  [Promised!OutboxNext]_(Promised!mailVars)
  BY <1>9, PromisedExecute
<1>10. ASSUME NEW r \in batch, MarkCompleted(r)
       PROVE  [Promised!OutboxNext]_(Promised!mailVars)
  BY <1>10, PromisedMarkCompleted
<1>11. ASSUME NEW r \in batch, MarkFailed(r)
       PROVE  [Promised!OutboxNext]_(Promised!mailVars)
  BY <1>11, PromisedMarkFailed
<1>12. ASSUME NEW r \in rows, BackoffOver(r) PROVE UNCHANGED Promised!mailVars
  BY <1>12, PromisedBackoffOver
<1>13. CASE Crash
  BY <1>13, PromisedCrash
<1>14. CASE UNCHANGED vars
  BY <1>14, RowsKept DEF vars, queueVars, history
<1> QED BY <1>1, <1>2, <1>3, <1>4, <1>5, <1>6, <1>7, <1>8, <1>9, <1>10, <1>11,
           <1>12, <1>13, <1>14 DEF Next, User, Worker, Time

(* The queue implements the outbox.                                        *)
THEOREM QueueImplementsOutbox == Spec => MailIsKeptAndSent
<1>1. Spec => []Account
  BY AccountHolds
<1>2. Init => Promised!OutboxInit
  BY PromisedInit
<1>3. Account /\ Account' /\ [Next]_vars => [Promised!OutboxNext]_(Promised!mailVars)
  BY PromisedStep
<1> QED BY <1>1, <1>2, <1>3, PTL
        DEF Spec, MailIsKeptAndSent, Promised!OutboxSpec

-----------------------------------------------------------------------------
(* The edits: rows that set one flag in turn. From where it stands each    *)
(* row changes it, and the last leaves it as the user has it.              *)

IsEdit(r) == r.kind \in {"read", "unread"}
SetsTo(r) == r.kind = "read"
FirstOf(S, r) == r \in S /\ \A q \in S : r.at <= q.at
LastOf(S, r) == r \in S /\ \A q \in S : q.at <= r.at

EditsApart(S) ==
    /\ \A r \in S : r.at \in Nat /\ IsEdit(r)
    /\ \A r, q \in S : r.at = q.at => r = q

Leads(S, from, to) ==
    /\ S = {} => from = to
    /\ S # {} => \E r \in S : FirstOf(S, r) /\ SetsTo(r) # from
    /\ S # {} => \E r \in S : LastOf(S, r) /\ SetsTo(r) = to
    /\ \A r, q \in S : r.at < q.at /\ r.kind = q.kind =>
          \E s \in S : r.at < s.at /\ s.at < q.at /\ s.kind # r.kind

LEMMA LeastExists ==
    ASSUME NEW S \in SUBSET Nat, S # {}
    PROVE  \E n \in S : \A k \in S : n <= k
<1>1. \E n \in S : \A k \in S : <<k, n>> \notin OpToRel(<, Nat)
  BY NatLessThanWellFounded, WFMin
<1>2. PICK n \in S : \A k \in S : <<k, n>> \notin OpToRel(<, Nat)
  BY <1>1
<1>3. \A k \in S : ~(k < n)
  BY <1>2 DEF OpToRel
<1> QED BY <1>3

(* Another edit follows.                                                   *)
LEMMA LeadsOn ==
    ASSUME NEW S, NEW from \in BOOLEAN, NEW to \in BOOLEAN, NEW r,
           EditsApart(S \cup {r}), Leads(S, from, to),
           \A q \in S : q.at < r.at, SetsTo(r) # to
    PROVE  Leads(S \cup {r}, from, SetsTo(r))
<1> DEFINE T == S \cup {r}
<1>1. \A q \in T : q.at \in Nat /\ q.at <= r.at
  BY DEF EditsApart
<1>2. LastOf(T, r)
  BY <1>1 DEF LastOf
<1>3. \E q \in T : FirstOf(T, q) /\ SetsTo(q) # from
  <2>1. CASE S = {}
    <3>1. FirstOf(T, r) /\ SetsTo(r) # from
      BY <1>1, <2>1 DEF FirstOf, Leads
    <3> QED BY <3>1
  <2>2. CASE S # {}
    <3>1. PICK q \in S : FirstOf(S, q) /\ SetsTo(q) # from
      BY <2>2 DEF Leads
    <3>2. FirstOf(T, q)
      BY <1>1, <3>1 DEF FirstOf
    <3> QED BY <3>1, <3>2
  <2> QED BY <2>1, <2>2
<1>4. ASSUME NEW p \in T, NEW q \in T, p.at < q.at, p.kind = q.kind
      PROVE  \E s \in T : p.at < s.at /\ s.at < q.at /\ s.kind # p.kind
  <2>1. p \in S
    BY <1>1, <1>4
  <2>2. CASE q \in S
    BY <1>4, <2>1, <2>2 DEF Leads
  <2>3. CASE q = r
    <3>1. PICK l \in S : LastOf(S, l) /\ SetsTo(l) = to
      BY <2>1 DEF Leads
    <3>2. SetsTo(p) = SetsTo(r) /\ p.kind # l.kind
      BY <1>4, <2>3, <3>1 DEF SetsTo
    <3>3. p.at <= l.at /\ p.at # l.at
      BY <2>1, <3>1, <3>2 DEF LastOf, EditsApart
    <3>4. p.at < l.at /\ l.at < q.at
      BY <1>1, <2>1, <2>3, <3>1, <3>3
    <3> QED BY <3>1, <3>2, <3>4
  <2> QED BY <2>2, <2>3
<1> QED BY <1>2, <1>3, <1>4 DEF Leads

(* The first edit is made.                                                 *)
LEMMA LeadsAfter ==
    ASSUME NEW S, NEW from \in BOOLEAN, NEW to \in BOOLEAN, NEW r \in S,
           EditsApart(S), Leads(S, from, to), FirstOf(S, r)
    PROVE  Leads(S \ {r}, SetsTo(r), to)
<1> DEFINE T == S \ {r}
<1>1. /\ \A q \in S : q.at \in Nat /\ IsEdit(q)
      /\ \A p, q \in S : p.at = q.at => p = q
  BY DEF EditsApart
<1>2. \A q \in T : r.at < q.at
  BY <1>1 DEF FirstOf
<1>3. PICK l \in S : LastOf(S, l) /\ SetsTo(l) = to
  BY DEF Leads
<1>4. CASE T = {}
  <2>1. l = r
    BY <1>4
  <2> QED BY <1>3, <1>4, <2>1 DEF Leads
<1>5. CASE T # {}
  <2>1. l \in T /\ LastOf(T, l)
    BY <1>1, <1>2, <1>3, <1>5 DEF LastOf
  <2>2. PICK f \in T : \A q \in T : f.at <= q.at
    <3> DEFINE places == {q.at : q \in T}
    <3>1. places \in SUBSET Nat /\ places # {}
      BY <1>1, <1>5
    <3>2. \E n \in places : \A k \in places : n <= k
      <4> HIDE DEF places
      <4> QED BY <3>1, LeastExists
    <3> QED BY <3>2
  <2>3. FirstOf(T, f)
    BY <2>2 DEF FirstOf
  <2>4. SetsTo(f) # SetsTo(r)
    <3> SUFFICES ASSUME SetsTo(f) = SetsTo(r) PROVE FALSE
      OBVIOUS
    <3>1. f.kind = r.kind /\ r.at < f.at
      BY <1>1, <1>2, <2>2 DEF SetsTo, IsEdit
    <3>2. PICK s \in S : r.at < s.at /\ s.at < f.at
      BY <3>1, <2>2 DEF Leads
    <3>3. s \in T /\ f.at <= s.at
      BY <1>1, <2>2, <3>2
    <3> QED BY <1>1, <2>2, <3>2, <3>3
  <2>5. ASSUME NEW p \in T, NEW q \in T, p.at < q.at, p.kind = q.kind
        PROVE  \E s \in T : p.at < s.at /\ s.at < q.at /\ s.kind # p.kind
    <3>1. PICK s \in S : p.at < s.at /\ s.at < q.at /\ s.kind # p.kind
      BY <2>5 DEF Leads
    <3>2. s # r
      BY <1>1, <1>2, <3>1
    <3> QED BY <3>1, <3>2
  <2> QED BY <1>3, <1>5, <2>1, <2>3, <2>4, <2>5 DEF Leads
<1> QED BY <1>4, <1>5

(* What compaction leaves of them: a read after which there is no unread,  *)
(* and an unread before which there is no read. No more than the first and *)
(* the last are such.                                                      *)
Uncancelled(S) ==
    {r \in S : /\ r.kind = "read" => \A q \in S : q.kind = "unread" => ~(r.at < q.at)
               /\ r.kind = "unread" => \A q \in S : q.kind = "read" => ~(q.at < r.at)}

LEMMA LeadsCompacted ==
    ASSUME NEW S, NEW from \in BOOLEAN, NEW to \in BOOLEAN,
           EditsApart(S), Leads(S, from, to)
    PROVE  Leads(Uncancelled(S), from, to)
<1> DEFINE T == Uncancelled(S)
<1>1. /\ \A q \in S : q.at \in Nat /\ q.kind \in {"read", "unread"}
      /\ \A p, q \in S : p.at = q.at => p = q
  BY DEF EditsApart, IsEdit
<1>2. T \subseteq S
  BY DEF Uncancelled
<1>3. CASE S = {}
  BY <1>2, <1>3 DEF Leads
<1>4. CASE S # {}
  <2>1. PICK f \in S : FirstOf(S, f) /\ SetsTo(f) # from
    BY <1>4 DEF Leads
  <2>2. PICK l \in S : LastOf(S, l) /\ SetsTo(l) = to
    BY <1>4 DEF Leads
  <2>3. /\ \A q \in S : ~(q.at < f.at) /\ (q # f => f.at < q.at)
        /\ \A q \in S : ~(l.at < q.at) /\ (q # l => q.at < l.at)
    BY <1>1, <2>1, <2>2 DEF FirstOf, LastOf
  <2>4. ASSUME NEW r \in T, r.kind = "read" PROVE r = l
    <3> SUFFICES ASSUME r # l PROVE FALSE
      OBVIOUS
    <3>1. r.at < l.at /\ r \in S
      BY <1>2, <2>3
    <3>2. l.kind = "read"
      BY <1>1, <2>4, <3>1 DEF Uncancelled
    <3>3. PICK s \in S : r.at < s.at /\ s.kind # r.kind
      BY <2>4, <3>1, <3>2 DEF Leads
    <3> QED BY <1>1, <2>4, <3>3 DEF Uncancelled
  <2>5. ASSUME NEW r \in T, r.kind = "unread" PROVE r = f
    <3> SUFFICES ASSUME r # f PROVE FALSE
      OBVIOUS
    <3>1. f.at < r.at /\ r \in S
      BY <1>2, <2>3
    <3>2. f.kind = "unread"
      BY <1>1, <2>5, <3>1 DEF Uncancelled
    <3>3. PICK s \in S : s.at < r.at /\ s.kind # r.kind
      BY <2>5, <3>1, <3>2 DEF Leads
    <3> QED BY <1>1, <2>5, <3>3 DEF Uncancelled
  <2>6. \A r \in T : (r = f /\ f.kind = "unread") \/ (r = l /\ l.kind = "read")
    BY <1>1, <1>2, <2>4, <2>5
  <2>7. f.kind = "unread" => f \in T
    BY <2>3 DEF Uncancelled
  <2>8. l.kind = "read" => l \in T
    BY <2>3 DEF Uncancelled
  <2>9. CASE f.kind = "unread" /\ l.kind = "read"
    <3>1. FirstOf(T, f) /\ LastOf(T, l)
      BY <1>1, <1>2, <2>1, <2>2, <2>7, <2>8, <2>9 DEF FirstOf, LastOf
    <3>2. \A p, q \in T : p.at < q.at => p.kind # q.kind
      BY <1>1, <2>6, <2>9
    <3> QED BY <2>1, <2>2, <2>7, <2>8, <2>9, <3>1, <3>2 DEF Leads
  <2>10. CASE f.kind = "unread" /\ l.kind # "read"
    <3>1. T = {f}
      BY <2>6, <2>7, <2>10
    <3>2. SetsTo(f) = to
      BY <2>2, <2>10 DEF SetsTo
    <3>3. FirstOf(T, f) /\ LastOf(T, f)
      BY <1>1, <3>1 DEF FirstOf, LastOf
    <3>4. \A p, q \in T : ~(p.at < q.at)
      BY <1>1, <3>1
    <3> QED BY <2>1, <3>1, <3>2, <3>3, <3>4 DEF Leads
  <2>11. CASE f.kind # "unread" /\ l.kind = "read"
    <3>1. T = {l}
      BY <2>6, <2>8, <2>11
    <3>2. SetsTo(l) # from
      BY <1>1, <2>1, <2>11 DEF SetsTo
    <3>3. FirstOf(T, l) /\ LastOf(T, l)
      BY <1>1, <3>1 DEF FirstOf, LastOf
    <3>4. \A p, q \in T : ~(p.at < q.at)
      BY <1>1, <3>1
    <3> QED BY <2>2, <3>1, <3>2, <3>3, <3>4 DEF Leads
  <2>12. CASE f.kind # "unread" /\ l.kind # "read"
    <3>1. T = {}
      BY <2>6, <2>12
    <3>2. from = to
      BY <1>1, <2>1, <2>2, <2>12 DEF SetsTo
    <3> QED BY <3>1, <3>2 DEF Leads
  <2> QED BY <2>9, <2>10, <2>11, <2>12
<1> QED BY <1>3, <1>4


-----------------------------------------------------------------------------
(* The edits of a message that are still to reach the server: not those a  *)
(* compaction under way cancels, nor the one whose mark is due.            *)
Doomed == {p[1].at : p \in pairs} \cup {p[2].at : p \in pairs}
ToCome(m) ==
    {r \in rows : IsEdit(r) /\ r.msg = m /\ r.at \notin Doomed /\ ~Unrecorded(r.at)}

(* Without failures every row is due, and the batch is a part of the       *)
(* queue that nothing older has been left out of.                          *)
NothingFailed ==
    /\ \A r \in rows : Pending(r) /\ ~r.waiting
    /\ batch \subseteq rows /\ IsFiniteSet(rows)
    /\ \A r \in batch, q \in rows : q.at < r.at /\ q.kind # "unknown" => q \in batch
    /\ result # "err"

PairsFit ==
    /\ pairs # {} => phase \in {"dropReads", "dropUnreads"}
    /\ phase = "dropUnreads" => \A p \in pairs : ~InQueue(p[1].at)

EditsLead(m) == Leads(ToCome(m), seen[m], local[m])

(* What no failure has disturbed yet, and the ids in order.                *)
EditInv ==
    fails = 0 => /\ NothingFailed /\ PairsFit
                 /\ IdsInOrder => \A m \in Messages : EditsLead(m)

(* What a step has to show of it.                                          *)
EditsKept ==
    NothingFailed' /\ PairsFit'
    /\ \A m \in Messages : IdsInOrder /\ EditsLead(m) => EditsLead(m)'

LEMMA PlacesApart ==
    ASSUME Account
    PROVE  /\ created \in Nat
           /\ \A r \in rows : r.at \in Nat /\ r.at \in Op /\ r.at \in 1..created
           /\ \A r, q \in rows : r.at = q.at => r = q
           /\ \A m : EditsApart(ToCome(m))
           /\ \A m \in Messages : seen[m] \in BOOLEAN /\ local[m] \in BOOLEAN
<1>1. /\ created \in Nat /\ Op \subseteq Nat
      /\ \A r \in rows : r.at \in Op /\ r.at \in 1..created
      /\ \A r, q \in rows : r.at = q.at => r = q
      /\ \A m \in Messages : seen[m] \in BOOLEAN /\ local[m] \in BOOLEAN
  BY DEF Account, TypeOK, RowsAreCreated, Row, Op
<1> QED BY <1>1 DEF EditsApart, ToCome

(* The same edits are still to come.                                       *)
LEMMA SameEdits ==
    ASSUME NEW m, ToCome(m)' = ToCome(m), seen'[m] = seen[m], local'[m] = local[m]
    PROVE  EditsLead(m) => EditsLead(m)'
<1> DEFINE S == ToCome(m)
           a == seen[m]
           b == local[m]
<1>1. EditsLead(m)' <=> Leads(ToCome(m)', seen'[m], local'[m])
  BY DEF EditsLead, Leads, FirstOf, LastOf
<1> QED BY <1>1 DEF EditsLead

LEMMA InsertKeepsEdits ==
    ASSUME Account, NothingFailed, PairsFit, NEW kind, NEW m, Insert(kind, m)
    PROVE  /\ NothingFailed' /\ PairsFit'
           /\ \E r : /\ r.kind = kind /\ \A q \in rows : q.at < r.at
                     /\ r.at \in Nat
                     /\ \A x : ToCome(x)' = ToCome(x) \cup
                                 (IF IsEdit(r) /\ x = m THEN {r} ELSE {})
<1> DEFINE new == [at |-> created + 1, kind |-> kind, msg |-> m,
                   status |-> "pending", retries |-> 0, waiting |-> FALSE]
<1>1. /\ rows' = rows \cup {new}
      /\ UNCHANGED <<seen, sent, phase, pairs, batch, result, fails>>
  BY DEF Insert, roundVars
<1>2. /\ new.at = created + 1 /\ new.kind = kind /\ new.msg = m
      /\ new.status = "pending" /\ new.waiting = FALSE
  OBVIOUS
<1> HIDE DEF new
<1>3. created \in Nat /\ new.at \in Nat /\ \A q \in rows : q.at < new.at /\ q.at \in Nat
  BY <1>2, PlacesApart
<1>4. \A q \in batch : q \in rows /\ q.at < new.at
  BY <1>3 DEF NothingFailed
<1>5. NothingFailed'
  <2>1. IsFiniteSet(rows')
    BY <1>1, FS_AddElement DEF NothingFailed
  <2>2. \A r \in rows' : Pending(r) /\ ~r.waiting
    BY <1>1, <1>2 DEF NothingFailed, Pending
  <2>3. \A r \in batch', q \in rows' : q.at < r.at /\ q.kind # "unknown" => q \in batch'
    BY <1>1, <1>3, <1>4 DEF NothingFailed
  <2> QED BY <1>1, <2>1, <2>2, <2>3 DEF NothingFailed
<1>6. \A p \in pairs : p[1].at < new.at /\ p[2].at < new.at
                      /\ p[1].at \in Nat /\ p[2].at \in Nat
  BY <1>2, <1>3 DEF Account, RowsAreCreated
<1>7. PairsFit'
  BY <1>1, <1>3, <1>6 DEF PairsFit, InQueue
<1>8. Doomed' = Doomed /\ new.at \notin Doomed
  BY <1>1, <1>3, <1>6 DEF Doomed
<1>9. (\A o : Unrecorded(o)' <=> Unrecorded(o)) /\ ~Unrecorded(new.at)
  BY <1>1, <1>3, <1>4 DEF Unrecorded, First
<1>10. ASSUME NEW x
       PROVE  ToCome(x)' = ToCome(x) \cup (IF IsEdit(new) /\ x = m THEN {new} ELSE {})
  BY <1>1, <1>2, <1>8, <1>9 DEF ToCome
<1> QED BY <1>2, <1>3, <1>5, <1>7, <1>10

LEMMA ToggleKeepsEdits ==
    ASSUME Account, Account', NothingFailed, PairsFit, NEW m \in Messages, Toggle(m)
    PROVE  EditsKept
<1> DEFINE kind == IF local[m] THEN "unread" ELSE "read"
<1>1. Insert(kind, m) /\ local' = [local EXCEPT ![m] = ~local[m]] /\ seen' = seen
  BY DEF Toggle, Insert
<1>2. local[m] \in BOOLEAN /\ seen[m] \in BOOLEAN /\ local \in [Messages -> BOOLEAN]
  BY DEF Account, TypeOK
<1>3. /\ NothingFailed' /\ PairsFit'
      /\ \E r : /\ r.kind = kind /\ \A q \in rows : q.at < r.at
                /\ r.at \in Nat
                /\ \A x : ToCome(x)' = ToCome(x) \cup
                            (IF IsEdit(r) /\ x = m THEN {r} ELSE {})
  <2> HIDE DEF kind
  <2> QED BY <1>1, InsertKeepsEdits
<1>4. PICK r : /\ r.kind = kind /\ \A q \in rows : q.at < r.at
               /\ \A x : ToCome(x)' = ToCome(x) \cup
                           (IF IsEdit(r) /\ x = m THEN {r} ELSE {})
  BY <1>3
<1>5. /\ IsEdit(r) /\ SetsTo(r) # local[m] /\ SetsTo(r) = local'[m]
      /\ ToCome(m)' = ToCome(m) \cup {r}
  BY <1>1, <1>2, <1>4 DEF IsEdit, SetsTo
<1>6. EditsLead(m) => EditsLead(m)'
  <2> SUFFICES ASSUME EditsLead(m) PROVE EditsLead(m)'
    OBVIOUS
  <2>1. EditsApart(ToCome(m) \cup {r})
    <3>1. EditsApart(ToCome(m))'
      BY PlacesApart DEF Account, TypeOK, RowsAreCreated, EditsApart, ToCome, Row, Op
    <3> QED BY <1>5, <3>1 DEF EditsApart
  <2>2. \A q \in ToCome(m) : q.at < r.at
    BY <1>4 DEF ToCome
  <2>3. Leads(ToCome(m) \cup {r}, seen[m], SetsTo(r))
    BY <1>2, <1>5, <2>1, <2>2, LeadsOn DEF EditsLead
  <2> QED BY <1>1, <1>5, <2>3 DEF EditsLead, Leads, FirstOf, LastOf
<1>7. ASSUME NEW x \in Messages, x # m PROVE EditsLead(x) => EditsLead(x)'
  <2>1. ToCome(x)' = ToCome(x) /\ seen'[x] = seen[x] /\ local'[x] = local[x]
    BY <1>1, <1>2, <1>4, <1>7
  <2> QED BY <2>1, SameEdits
<1> QED BY <1>3, <1>6, <1>7 DEF EditsKept

LEMMA EnqueueKeepsEdits ==
    ASSUME Account, NothingFailed, PairsFit, NEW kind \in {"send", "unknown"},
           EnqueueOther(kind)
    PROVE  EditsKept
<1>1. Insert(kind, Nothing) /\ local' = local /\ seen' = seen
  BY DEF EnqueueOther, Insert
<1>2. /\ NothingFailed' /\ PairsFit'
      /\ \E r : /\ r.kind = kind /\ \A q \in rows : q.at < r.at
                /\ r.at \in Nat
                /\ \A x : ToCome(x)' = ToCome(x) \cup
                            (IF IsEdit(r) /\ x = Nothing THEN {r} ELSE {})
  BY <1>1, InsertKeepsEdits
<1>3. \A x : ToCome(x)' = ToCome(x)
  BY <1>2 DEF IsEdit
<1> QED BY <1>1, <1>2, <1>3, SameEdits DEF EditsKept


(* Nothing is marked: every edit that is not cancelled is still to come.   *)
LEMMA NothingInHand ==
    ASSUME phase # "mark"
    PROVE  \A m : ToCome(m) = {r \in rows : IsEdit(r) /\ r.msg = m /\ r.at \notin Doomed}
BY DEF ToCome, Unrecorded

LEMMA StartRoundKeepsEdits ==
    ASSUME Account, Account', NothingFailed, PairsFit, StartRound, fails' = fails
    PROVE  EditsKept
<1>1. /\ phase = "idle" /\ pairs' = CancelPairs
      /\ phase' = IF pairs' = {} THEN "dequeue" ELSE "dropReads"
      /\ UNCHANGED <<queueVars, rows, local, seen, sent, batch, result, history>>
  <2>1. fails \in Nat
    BY OutboxAssumption DEF Account, TypeOK
  <2> QED BY <2>1 DEF StartRound
<1>2. NothingFailed'
  BY <1>1 DEF NothingFailed, Pending
<1>3. PairsFit'
  BY <1>1 DEF PairsFit
<1>4. ASSUME NEW m \in Messages, IdsInOrder, EditsLead(m) PROVE EditsLead(m)'
  <2> DEFINE S == ToCome(m)
  <2>1. S = {r \in rows : IsEdit(r) /\ r.msg = m}
    BY <1>1, NothingInHand DEF PairsFit, Doomed
  <2>2. S' = {r \in S : r.at \notin Doomed'}
    <3>1. phase' # "mark"
      BY <1>1
    <3>2. S' = {r \in rows : IsEdit(r) /\ r.msg = m /\ r.at \notin Doomed'}
      BY <1>1, <3>1 DEF ToCome, Unrecorded
    <3> QED BY <2>1, <3>2
  <2>3. \A a, b \in 1..created : rank[a] < rank[b] <=> a < b
    <3>1. \A a \in 1..created : a \in Nat /\ rank[a] \in Nat
      <4>1. created \in 0..MaxOps /\ MaxOps \in Nat /\ rank \in [Op -> Op]
        BY OutboxAssumption DEF Account, TypeOK
      <4>2. \A a \in 1..created : a \in Nat /\ a \in Op
        BY <4>1 DEF Op
      <4>3. Op \subseteq Nat
        BY DEF Op
      <4> QED BY <4>1, <4>2, <4>3
    <3>2. \A a, b \in 1..created : (a < b => rank[a] < rank[b]) /\ (b < a => rank[b] < rank[a])
      BY <1>4 DEF IdsInOrder
    <3> QED BY <3>1, <3>2
  <2>4. \A p : p \in CancelPairs <=>
           \E r, u \in rows : /\ p = <<r, u>> /\ r.kind = "read" /\ u.kind = "unread"
                              /\ r.msg = u.msg /\ r.at < u.at
    <3>1. \A r, u \in rows : IdPrecedes(r, u) <=> r.at < u.at
      BY <2>3, PlacesApart DEF IdPrecedes
    <3>2. \A r \in rows : Pending(r)
      BY DEF NothingFailed
    <3> QED BY <3>1, <3>2 DEF CancelPairs
  <2>5. ASSUME NEW r \in S
        PROVE  r.at \in Doomed' <=>
                 \/ r.kind = "read" /\ \E q \in S : q.kind = "unread" /\ r.at < q.at
                 \/ r.kind = "unread" /\ \E q \in S : q.kind = "read" /\ q.at < r.at
    <3>1. ASSUME r.at \in Doomed'
          PROVE  \/ r.kind = "read" /\ \E q \in S : q.kind = "unread" /\ r.at < q.at
                 \/ r.kind = "unread" /\ \E q \in S : q.kind = "read" /\ q.at < r.at
      <4>1. PICK p \in CancelPairs : r.at = p[1].at \/ r.at = p[2].at
        BY <1>1, <3>1 DEF Doomed
      <4>2. PICK a, u \in rows : /\ p = <<a, u>> /\ a.kind = "read" /\ u.kind = "unread"
                                 /\ a.msg = u.msg /\ a.at < u.at
        BY <2>4, <4>1
      <4>3. r = a \/ r = u
        BY <2>1, <4>1, <4>2, PlacesApart
      <4>4. a \in S /\ u \in S
        BY <2>1, <4>2, <4>3 DEF IsEdit
      <4> QED BY <4>2, <4>3, <4>4
    <3>2. ASSUME NEW q \in S, r.kind = "read", q.kind = "unread", r.at < q.at
          PROVE  r.at \in Doomed'
      <4>1. <<r, q>> \in CancelPairs
        BY <2>1, <2>4, <3>2
      <4> QED BY <1>1, <4>1 DEF Doomed
    <3>3. ASSUME NEW q \in S, r.kind = "unread", q.kind = "read", q.at < r.at
          PROVE  r.at \in Doomed'
      <4>1. <<q, r>> \in CancelPairs
        BY <2>1, <2>4, <3>3
      <4> QED BY <1>1, <4>1 DEF Doomed
    <3> QED BY <3>1, <3>2, <3>3
  <2>6. S' = Uncancelled(S)
    <3> HIDE DEF S
    <3>1. \A r \in S : r.at \notin Doomed' <=>
             /\ r.kind = "read" => \A q \in S : q.kind = "unread" => ~(r.at < q.at)
             /\ r.kind = "unread" => \A q \in S : q.kind = "read" => ~(q.at < r.at)
      BY <2>5
    <3> QED BY <2>2, <3>1 DEF Uncancelled
  <2>7. EditsApart(S) /\ seen[m] \in BOOLEAN /\ local[m] \in BOOLEAN
    BY PlacesApart
  <2>8. Leads(Uncancelled(S), seen[m], local[m])
    <3>1. Leads(S, seen[m], local[m])
      BY <1>4 DEF EditsLead
    <3> HIDE DEF S
    <3> QED BY <2>7, <3>1, LeadsCompacted
  <2> QED BY <1>1, <2>6, <2>8 DEF EditsLead, Leads, FirstOf, LastOf
<1> QED BY <1>2, <1>3, <1>4 DEF EditsKept

(* Half of what is cancelled is deleted: no other edit goes.               *)
LEMMA DropReadsKeepsEdits ==
    ASSUME Account, NothingFailed, PairsFit, DropReads, fails' = fails
    PROVE  EditsKept
<1>1. /\ phase = "dropReads" /\ rows' = Without({p[1] : p \in pairs})
      /\ phase' = "dropUnreads"
      /\ UNCHANGED <<queueVars, pairs, local, seen, sent, batch, result, history>>
  <2>1. fails \in Nat
    BY OutboxAssumption DEF Account, TypeOK
  <2> QED BY <2>1 DEF DropReads
<1>2. rows' \subseteq rows /\ \A r \in rows : r \in rows' <=> \A p \in pairs : r.at # p[1].at
  BY <1>1 DEF Without
<1>3. batch = {}
  BY <1>1 DEF Account, RoundShape
<1>4. NothingFailed'
  <2>1. IsFiniteSet(rows')
    BY <1>2, FS_Subset DEF NothingFailed
  <2> QED BY <1>1, <1>2, <1>3, <2>1 DEF NothingFailed, Pending
<1>5. PairsFit'
  BY <1>1, <1>2 DEF PairsFit, InQueue
<1>6. \A m : ToCome(m)' = ToCome(m)
  BY <1>1, <1>2 DEF ToCome, Unrecorded, Doomed
<1> QED BY <1>1, <1>4, <1>5, <1>6, SameEdits DEF EditsKept

LEMMA DropUnreadsKeepsEdits ==
    ASSUME Account, NothingFailed, PairsFit, DropUnreads, fails' = fails
    PROVE  EditsKept
<1>1. /\ phase = "dropUnreads" /\ rows' = Without({p[2] : p \in pairs})
      /\ phase' = "dequeue" /\ pairs' = {}
      /\ UNCHANGED <<queueVars, local, seen, sent, batch, result, history>>
  <2>1. fails \in Nat
    BY OutboxAssumption DEF Account, TypeOK
  <2> QED BY <2>1 DEF DropUnreads
<1>2. rows' \subseteq rows /\ \A r \in rows : r \in rows' <=> \A p \in pairs : r.at # p[2].at
  BY <1>1 DEF Without
<1>3. batch = {}
  BY <1>1 DEF Account, RoundShape
<1>4. NothingFailed'
  <2>1. IsFiniteSet(rows')
    BY <1>2, FS_Subset DEF NothingFailed
  <2> QED BY <1>1, <1>2, <1>3, <2>1 DEF NothingFailed, Pending
<1>5. PairsFit'
  BY <1>1 DEF PairsFit
<1>6. \A r \in rows : r.at \notin Doomed <=> r \in rows'
  BY <1>1, <1>2 DEF Doomed, PairsFit, InQueue
<1>7. ASSUME NEW m PROVE ToCome(m)' = ToCome(m)
  <2>1. Doomed' = {}
    BY <1>1 DEF Doomed
  <2> QED BY <1>1, <1>2, <1>6, <2>1 DEF ToCome, Unrecorded
<1> QED BY <1>1, <1>4, <1>5, <1>7, SameEdits DEF EditsKept

(* The oldest rows leave nothing older out.                                *)
LEMMA OldestFirst ==
    ASSUME NEW S, IsFiniteSet(S), \A r \in S : r.at \in Nat,
           NEW r \in Oldest(S), NEW q \in S, q.at < r.at
    PROVE  q \in Oldest(S)
<1> DEFINE A == {s \in S : s.at < q.at}
           B == {s \in S : s.at < r.at}
<1>1. r \in S /\ Cardinality(B) < Limit
  BY DEF Oldest
<1>2. A \subseteq B /\ B \subseteq S
  BY <1>1
<1>3. Cardinality(A) \in Nat /\ Cardinality(B) \in Nat /\ Cardinality(A) <= Cardinality(B)
  <2> HIDE DEF A, B
  <2> QED BY <1>2, FS_Subset, FS_CardinalityType
<1>4. Cardinality(A) < Limit
  BY <1>1, <1>3, OutboxAssumption
<1> QED BY <1>4 DEF Oldest

LEMMA DequeueKeepsEdits ==
    ASSUME Account, NothingFailed, PairsFit, Dequeue, fails' = fails
    PROVE  EditsKept
<1>1. /\ phase = "dequeue" /\ batch' = Oldest(Due) /\ phase' = "replay"
      /\ UNCHANGED <<queueVars, rows, local, seen, sent, pairs, result, history>>
  <2>1. fails \in Nat
    BY OutboxAssumption DEF Account, TypeOK
  <2> QED BY <2>1 DEF Dequeue
<1>2. Due = rows
  BY DEF Due, NothingFailed
<1>3. NothingFailed'
  <2>1. batch' \subseteq rows
    BY <1>1, <1>2 DEF Oldest
  <2>2. \A r \in batch', q \in rows : q.at < r.at => q \in batch'
    BY <1>1, <1>2, OldestFirst, PlacesApart DEF NothingFailed
  <2> QED BY <1>1, <2>1, <2>2 DEF NothingFailed, Pending
<1>4. PairsFit'
  BY <1>1 DEF PairsFit
<1>5. \A m : ToCome(m)' = ToCome(m)
  BY <1>1 DEF ToCome, Unrecorded, Doomed
<1> QED BY <1>1, <1>3, <1>4, <1>5, SameEdits DEF EditsKept

LEMMA LoopKeepsEdits ==
    ASSUME Account, NothingFailed, PairsFit,
           FinishRound \/ \E r \in batch : SkipUndecodable(r)
    PROVE  EditsKept
<1>1. /\ phase = "replay" /\ phase' \in {"idle", "replay"} /\ batch' \subseteq batch
      /\ \A q \in batch : q.kind # "unknown" => q \in batch'
      /\ UNCHANGED <<queueVars, rows, local, seen, sent, pairs, result, history>>
  BY DEF FinishRound, SkipUndecodable, Continue
<1>2. NothingFailed'
  BY <1>1 DEF NothingFailed, Pending
<1>3. PairsFit'
  BY <1>1 DEF PairsFit
<1>4. \A m : ToCome(m)' = ToCome(m)
  BY <1>1 DEF ToCome, Unrecorded, Doomed
<1> QED BY <1>1, <1>2, <1>3, <1>4, SameEdits DEF EditsKept


(* What is executed is the oldest of its message's edits.                  *)
LEMMA ExecuteKeepsEdits ==
    ASSUME Account, NothingFailed, PairsFit, NEW r \in batch, Execute(r), fails' = fails
    PROVE  EditsKept
<1>1. /\ phase = "replay" /\ phase' = "mark" /\ First(r) /\ result' = "ok"
      /\ r.kind # "unknown" /\ TakesEffect(r)
      /\ UNCHANGED <<queueVars, rows, local, pairs, batch>>
  <2>1. fails \in Nat
    BY OutboxAssumption DEF Account, TypeOK
  <2> QED BY <2>1 DEF Execute, AppendIgnored
<1>2. r \in rows /\ r \in Row /\ r.at \in Op
  BY DEF NothingFailed, Account, TypeOK, Row
<1>3. \A o \in Op : ~Unrecorded(o) /\ (Unrecorded(o)' <=> o = r.at)
  <2>1. First(r)' /\ \A s \in batch : First(s)' => s.at = r.at
    BY <1>1, FirstIsUnrecorded DEF First
  <2> QED BY <1>1, <2>1 DEF Unrecorded
<1>4. NothingFailed' /\ PairsFit'
  BY <1>1 DEF NothingFailed, PairsFit, Pending
<1>5. Doomed = {} /\ Doomed' = {}
  BY <1>1 DEF PairsFit, Doomed
<1>6. \A m : /\ ToCome(m) = {q \in rows : IsEdit(q) /\ q.msg = m}
             /\ ToCome(m)' = ToCome(m) \ {r}
  BY <1>1, <1>2, <1>3, <1>5, PlacesApart DEF ToCome
<1>7. CASE r.kind = "send"
  <2>1. seen' = seen /\ ~IsEdit(r)
    BY <1>1, <1>7 DEF TakesEffect, IsEdit
  <2>2. \A m : ToCome(m)' = ToCome(m)
    BY <1>6, <2>1
  <2> QED BY <1>1, <1>4, <2>1, <2>2, SameEdits DEF EditsKept
<1>8. CASE r.kind # "send"
  <2>1. IsEdit(r) /\ seen' = [seen EXCEPT ![r.msg] = SetsTo(r)]
    <3>1. r.kind \in {"read", "unread"}
      BY <1>1, <1>2, <1>8, OutboxAssumption DEF Row
    <3> QED BY <1>1, <1>8, <3>1 DEF TakesEffect, IsEdit, SetsTo
  <2>2. seen \in [Messages -> BOOLEAN]
    BY DEF Account, TypeOK
  <2>3. ASSUME NEW m \in Messages, EditsLead(m), m = r.msg PROVE EditsLead(m)'
    <3>1. r \in ToCome(m) /\ seen'[m] = SetsTo(r)
      BY <1>2, <1>6, <2>1, <2>2, <2>3
    <3>2. FirstOf(ToCome(m), r)
      <4> SUFFICES ASSUME NEW q \in ToCome(m), ~(r.at <= q.at) PROVE FALSE
        BY <3>1 DEF FirstOf
      <4>1. q \in rows /\ q.kind # "unknown" /\ q.at < r.at
        BY <1>2, <1>6, PlacesApart DEF IsEdit
      <4>2. q \in batch
        BY <4>1 DEF NothingFailed
      <4> QED BY <1>1, <4>2 DEF First
    <3>3. EditsApart(ToCome(m)) /\ seen[m] \in BOOLEAN /\ local[m] \in BOOLEAN
      BY PlacesApart
    <3>4. Leads(ToCome(m) \ {r}, SetsTo(r), local[m])
      BY <2>3, <3>1, <3>2, <3>3, LeadsAfter DEF EditsLead
    <3> QED BY <1>1, <1>6, <3>1, <3>4 DEF EditsLead, Leads, FirstOf, LastOf
  <2>4. ASSUME NEW m \in Messages, m # r.msg PROVE EditsLead(m) => EditsLead(m)'
    <3>1. ToCome(m)' = ToCome(m) /\ seen'[m] = seen[m] /\ local'[m] = local[m]
      BY <1>1, <1>6, <2>1, <2>2, <2>4
    <3> QED BY <3>1, SameEdits
  <2> QED BY <1>4, <2>3, <2>4 DEF EditsKept
<1> QED BY <1>7, <1>8

LEMMA MarkKeepsEdits ==
    ASSUME Account, NothingFailed, PairsFit, NEW r \in batch, MarkCompleted(r), fails' = fails
    PROVE  EditsKept
<1>1. /\ phase = "mark" /\ phase' = "replay" /\ First(r) /\ result' = "none"
      /\ rows' = Without({r}) /\ batch' = batch \ {r}
      /\ UNCHANGED <<queueVars, local, seen, sent, pairs>>
  <2>1. fails \in Nat
    BY OutboxAssumption DEF Account, TypeOK
  <2> QED BY <2>1 DEF MarkCompleted, Done
<1>2. r \in rows /\ \A q \in rows : q \in rows' <=> q # r
  <2>1. r \in rows
    BY DEF NothingFailed
  <2>2. \A q \in rows : q.at = r.at => q = r
    BY <2>1, PlacesApart
  <2> QED BY <1>1, <2>1, <2>2 DEF Without
<1>3. rows' \subseteq rows
  BY <1>1 DEF Without
<1>4. NothingFailed'
  <2>1. IsFiniteSet(rows')
    BY <1>3, FS_Subset DEF NothingFailed
  <2>2. batch' \subseteq rows'
    BY <1>1, <1>2 DEF NothingFailed
  <2>3. \A p \in batch', q \in rows' : q.at < p.at /\ q.kind # "unknown" => q \in batch'
    BY <1>1, <1>2, <1>3 DEF NothingFailed
  <2> QED BY <1>1, <1>3, <2>1, <2>2, <2>3 DEF NothingFailed, Pending
<1>5. PairsFit'
  BY <1>1 DEF PairsFit
<1>6. ASSUME NEW m PROVE ToCome(m)' = ToCome(m)
  <2>1. \A q \in rows : Unrecorded(q.at) <=> q = r
    <3>1. \A q \in rows : Unrecorded(q.at) <=> q.at = r.at
      BY <1>1, FirstIsUnrecorded, PlacesApart
    <3> QED BY <1>2, <3>1, PlacesApart
  <2>2. \A q : ~Unrecorded(q)'
    BY <1>1 DEF Unrecorded
  <2>3. Doomed' = Doomed
    BY <1>1 DEF Doomed
  <2> QED BY <1>2, <1>3, <2>1, <2>2, <2>3 DEF ToCome
<1> QED BY <1>1, <1>4, <1>5, <1>6, SameEdits DEF EditsKept

-----------------------------------------------------------------------------
LEMMA EditInvInit == Init => EditInv
<1> SUFFICES ASSUME Init PROVE EditInv
  OBVIOUS
<1>1. rows = {} /\ batch = {} /\ pairs = {} /\ result = "none" /\ seen = local
      /\ phase = "idle"
  BY DEF Init
<1>2. NothingFailed /\ PairsFit
  BY <1>1, FS_EmptySet DEF NothingFailed, PairsFit
<1>3. \A m : EditsLead(m)
  BY <1>1 DEF EditsLead, Leads, ToCome
<1> QED BY <1>2, <1>3 DEF EditInv

LEMMA EditInvStep == Account /\ Account' /\ EditInv /\ [Next]_vars => EditInv'
<1> SUFFICES ASSUME Account, Account', EditInv, [Next]_vars, fails' = 0 PROVE EditInv'
  BY DEF EditInv
<1>1. /\ fails \in Nat /\ fails' \in {fails, fails + 1}
      /\ created \in Nat /\ created' \in {created, created + 1} /\ rank' = rank
  <2>1. fails \in Nat /\ created \in Nat
    BY OutboxAssumption DEF Account, TypeOK
  <2>2. CASE User
    BY <2>1, <2>2 DEF User, Toggle, EnqueueOther, Insert, queueVars
  <2>3. CASE Worker
    <3>1. CASE StartRound \/ DropReads \/ DropUnreads \/ Dequeue \/ FinishRound
      BY <2>1, <3>1 DEF StartRound, DropReads, DropUnreads, Dequeue, FinishRound, queueVars
    <3>2. ASSUME NEW r \in batch, SkipUndecodable(r) \/ MarkCompleted(r) \/ MarkFailed(r)
          PROVE  /\ fails' \in {fails, fails + 1} /\ created' = created /\ rank' = rank
      BY <3>2 DEF SkipUndecodable, MarkCompleted, MarkFailed, queueVars
    <3>3. ASSUME NEW r \in batch, Execute(r)
          PROVE  /\ fails' \in {fails, fails + 1} /\ created' = created /\ rank' = rank
      BY <3>3 DEF Execute, queueVars
    <3> QED BY <2>1, <2>3, <3>1, <3>2, <3>3 DEF Worker
  <2>4. CASE Crash \/ \E o \in Op : Time(o)
    BY <2>1, <2>4 DEF Crash, Time, BackoffOver, queueVars
  <2>5. CASE UNCHANGED vars
    BY <2>1, <2>5 DEF vars, queueVars
  <2> QED BY <2>1, <2>2, <2>3, <2>4, <2>5 DEF Next
<1>2. fails = 0 /\ fails' = fails
  BY <1>1
<1>3. NothingFailed /\ PairsFit /\ (IdsInOrder => \A m \in Messages : EditsLead(m))
  BY <1>2 DEF EditInv
<1>4. IdsInOrder' => IdsInOrder
  BY <1>1 DEF IdsInOrder
<1>5. CASE EditsKept
  BY <1>2, <1>3, <1>4, <1>5 DEF EditsKept, EditInv
<1>6. User => EditsKept
  BY <1>3, ToggleKeepsEdits, EnqueueKeepsEdits DEF User
<1>7. Worker => EditsKept
  <2>1. ASSUME NEW r \in batch PROVE ~MarkFailed(r)
    BY <1>3 DEF MarkFailed, NothingFailed
  <2> QED BY <1>2, <1>3, <2>1, StartRoundKeepsEdits, DropReadsKeepsEdits, DropUnreadsKeepsEdits,
             DequeueKeepsEdits, LoopKeepsEdits, ExecuteKeepsEdits, MarkKeepsEdits DEF Worker
<1>8. ~Crash /\ ~\E o \in Op : Time(o)
  <2>1. ~Crash
    BY <1>1, <1>2 DEF Crash
  <2>2. ~\E o \in Op : Time(o)
    BY <1>3 DEF Time, BackoffOver, NothingFailed
  <2> QED BY <2>1, <2>2
<1>9. CASE UNCHANGED vars
  <2>1. UNCHANGED <<rank, created, rows, local, seen, phase, pairs, batch, result>>
    BY <1>9 DEF vars, queueVars, roundVars
  <2>2. NothingFailed' /\ PairsFit'
    BY <1>3, <2>1 DEF NothingFailed, PairsFit, Pending, InQueue
  <2>3. \A m : ToCome(m)' = ToCome(m)
    BY <2>1 DEF ToCome, Doomed, Unrecorded, First
  <2> QED BY <1>5, <2>1, <2>2, <2>3, SameEdits DEF EditsKept
<1> QED BY <1>5, <1>6, <1>7, <1>8, <1>9 DEF Next

(* A drained queue leaves the server with the user's last edit, if nothing *)
(* failed and the ids are in creation order (compact_queue and the replay  *)
(* of engine.rs).                                                          *)
THEOREM EditsDoArrive == Spec => []EditsArrive
<1>1. Account /\ EditInv => EditsArrive
  <2> SUFFICES ASSUME EditInv, fails = 0, IdsInOrder, NEW m \in Messages, Drained(m)
               PROVE  seen[m] = local[m]
    BY DEF EditsArrive
  <2>1. EditsLead(m)
    BY DEF EditInv
  <2>2. ToCome(m) = {}
    BY DEF ToCome, Drained
  <2> QED BY <2>1, <2>2 DEF EditsLead, Leads
<1> QED BY <1>1, AccountHolds, EditInvInit, EditInvStep, PTL DEF Spec
=============================================================================

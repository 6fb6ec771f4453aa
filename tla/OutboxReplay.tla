--------------------------- MODULE OutboxReplay ---------------------------
(***************************************************************************)
(* The durable queue of mutations, table pending_operations, and its       *)
(* replay by the account's worker: compaction, dequeue, execution through  *)
(* the MailSource, and the mark that follows, with a failure or a crash    *)
(* between any two of the statements.                                      *)
(*                                                                         *)
(* Operations are named by their place in creation order, by which they    *)
(* are dequeued. "read" and "unread" stand for markRead (and setFlag) with *)
(* read = 1 and read = 0; "unknown" for a row from_pending cannot decode.  *)
(***************************************************************************)
EXTENDS Naturals, FiniteSets

CONSTANTS
    Messages,   \* the messages whose flag the user toggles
    Kinds,      \* the kinds of operation enqueued
    Limit,      \* how many rows a round dequeues (50)
    MaxRetries, \* max_retries of every row (10)
    MaxOps,     \* bound: operations enqueued
    MaxFails    \* bound: failures of the network, the store or the process

ASSUME OutboxAssumption ==
    /\ Kinds \subseteq {"read", "unread", "send", "unknown"}
    /\ Limit \in Nat \ {0} /\ MaxRetries \in Nat \ {0}
    /\ MaxOps \in Nat /\ MaxFails \in Nat

Op == 1..MaxOps
Nothing == "nothing"
Row == [at : Op, kind : Kinds, msg : Messages \cup {Nothing},
        status : {"pending", "failed"}, retries : 0..MaxRetries,
        waiting : BOOLEAN]

VARIABLES
    rank,    \* rank[o]: place of o's random id among the ids
    created, \* how many operations have been enqueued
    mailed,  \* which of them are sends
    rows,    \* pending_operations; waiting: next_retry_at is in the future
    local,   \* the flag of each message in the local store
    seen,    \* the flag of each message on the server
    sent,    \* sent[o]: copies of o that reached its recipients
    phase,   \* what the worker's replay round does next
    pairs,   \* compact_queue's snapshot of the rows to cancel
    batch,   \* the dequeued rows not yet done with
    result,  \* what executing the first of them returned
    fails,   \* failures so far
    runs,    \* runs[o]: times o was executed
    lost,    \* lost[o]: times the outcome of o was not recorded
    unsure   \* unsure[o]: times o took effect and the queue did not learn it

queueVars == <<rank, created, mailed>>
roundVars == <<phase, pairs, batch, result>>
history   == <<runs, lost, unsure>>
vars == <<queueVars, rows, local, seen, sent, roundVars, fails, history>>

Phase == {"idle", "dropReads", "dropUnreads", "dequeue", "replay", "mark"}

Init ==
    /\ rank \in {f \in [Op -> Op] : \A o, p \in Op : f[o] = f[p] => o = p}
    /\ created = 0 /\ mailed = {} /\ rows = {}
    /\ local \in [Messages -> BOOLEAN] /\ seen = local
    /\ sent = [o \in Op |-> 0]
    /\ phase = "idle" /\ pairs = {} /\ batch = {} /\ result = "none"
    /\ fails = 0
    /\ runs = sent /\ lost = sent /\ unsure = sent

---------------------------------------------------------------------------
(* apply_mutation_inner: the local write and the row. What lies between    *)
(* the two is FolderSync's subject.                                        *)

Insert(kind, m) ==
    /\ created < MaxOps /\ kind \in Kinds
    /\ created' = created + 1
    /\ mailed' = IF kind = "send" THEN mailed \cup {created + 1} ELSE mailed
    /\ rows' = rows \cup {[at |-> created + 1, kind |-> kind, msg |-> m,
                           status |-> "pending", retries |-> 0,
                           waiting |-> FALSE]}
    /\ UNCHANGED <<rank, seen, sent, roundVars, fails, history>>

(* The list view toggles what it shows: markThreadsRead leaves out the     *)
(* threads that have the value already.                                    *)
Toggle(m) ==
    /\ Insert(IF local[m] THEN "unread" ELSE "read", m)
    /\ local' = [local EXCEPT ![m] = ~local[m]]

EnqueueOther(kind) ==
    /\ Insert(kind, Nothing)
    /\ UNCHANGED local

---------------------------------------------------------------------------
(* compact_queue: a SELECT of the pairs, a DELETE of their read sides and  *)
(* one of their unread sides. The order inside a pair is that of the ids.  *)

Pending(r) == r.status = "pending"
AnyOrder(a, b) == TRUE
IdPrecedes(a, b) == rank[a.at] < rank[b.at]

CancelPairs ==
    {p \in rows \X rows :
        /\ p[1].kind = "read" /\ p[2].kind = "unread" /\ p[1].msg = p[2].msg
        /\ Pending(p[1]) /\ Pending(p[2])
        /\ IdPrecedes(p[1], p[2])}

Without(S) == {r \in rows : r.at \notin {s.at : s \in S}}

(* A round: a poll tick, a SyncNow or a ReplayNow nudge. A failed SELECT   *)
(* is logged and the round goes on.                                        *)
StartRound ==
    /\ phase = "idle"
    /\ \/ pairs' = CancelPairs /\ UNCHANGED fails
       \/ fails < MaxFails /\ fails' = fails + 1 /\ pairs' = {}
    /\ phase' = IF pairs' = {} THEN "dequeue" ELSE "dropReads"
    /\ UNCHANGED <<queueVars, rows, local, seen, sent, batch, result, history>>

DropReads ==
    /\ phase = "dropReads"
    /\ \/ /\ rows' = Without({p[1] : p \in pairs})
          /\ phase' = "dropUnreads"
          /\ UNCHANGED <<pairs, fails>>
       \/ /\ fails < MaxFails /\ fails' = fails + 1
          /\ phase' = "dequeue" /\ pairs' = {}
          /\ UNCHANGED rows
    /\ UNCHANGED <<queueVars, local, seen, sent, batch, result, history>>

DropUnreads ==
    /\ phase = "dropUnreads"
    /\ phase' = "dequeue" /\ pairs' = {}
    /\ \/ rows' = Without({p[2] : p \in pairs}) /\ UNCHANGED fails
       \/ fails < MaxFails /\ fails' = fails + 1 /\ UNCHANGED rows
    /\ UNCHANGED <<queueVars, local, seen, sent, batch, result, history>>

---------------------------------------------------------------------------
(* dequeue_pending_for_account: the oldest Limit rows that are due.        *)

AllOfThem == rows
Due == {r \in rows : Pending(r) /\ ~r.waiting}
Oldest(S) == {r \in S : Cardinality({s \in S : s.at < r.at}) < Limit}

Dequeue ==
    /\ phase = "dequeue"
    /\ \/ batch' = Oldest(Due) /\ phase' = "replay" /\ UNCHANGED fails
       \/ /\ fails < MaxFails /\ fails' = fails + 1
          /\ phase' = "idle" /\ UNCHANGED batch
    /\ UNCHANGED <<queueVars, rows, local, seen, sent, pairs, result, history>>

(* The loop over the batch, oldest first.                                  *)
First(r) == \A s \in batch : r.at <= s.at
NotDone(r) == UNCHANGED batch
Done(r) == batch' = batch \ {r}

(* continue: an operation that cannot be decoded is left as it is.         *)
Break(r) == {}
Continue(r) == batch \ {r}

SkipUndecodable(r) ==
    /\ phase = "replay" /\ First(r) /\ r.kind = "unknown"
    /\ batch' = Continue(r)
    /\ UNCHANGED <<queueVars, rows, local, seen, sent, phase, pairs, result,
                   fails, history>>

(* What the operation does when it reaches the server.                     *)
TakesEffect(r) ==
    IF r.kind = "send"
    THEN sent' = [sent EXCEPT ![r.at] = @ + 1] /\ UNCHANGED seen
    ELSE seen' = [seen EXCEPT ![r.msg] = (r.kind = "read")] /\ UNCHANGED sent

(* After an accepted send the Sent copy is appended at best effort: its    *)
(* failure is logged and send_op still returns Ok.                         *)
AppendDecides(appended) == IF appended THEN "ok" ELSE "err"
AppendIgnored(appended) == "ok"

(* Whatever keeps send_op from being accepted surfaces as an error.        *)
Swallowed == "ok"
Surfaced == "err"

Execute(r) ==
    /\ phase = "replay" /\ First(r) /\ r.kind # "unknown"
    /\ phase' = "mark"
    /\ runs' = [runs EXCEPT ![r.at] = @ + 1]
    /\ \/ \* accepted
          /\ TakesEffect(r) /\ UNCHANGED unsure
          /\ \E appended \in BOOLEAN :
               /\ result' = AppendIgnored(appended)
               /\ IF appended THEN UNCHANGED fails
                  ELSE r.kind = "send" /\ fails < MaxFails /\ fails' = fails + 1
       \/ \* accepted, but the answer is an error or is lost
          /\ fails < MaxFails /\ fails' = fails + 1
          /\ TakesEffect(r) /\ result' = "err"
          /\ unsure' = [unsure EXCEPT ![r.at] = @ + 1]
       \/ \* refused, unreachable, or not to be built, signed or encrypted
          /\ fails < MaxFails /\ fails' = fails + 1
          /\ result' = Surfaced /\ UNCHANGED <<seen, sent, unsure>>
    /\ UNCHANGED <<queueVars, rows, local, pairs, batch, lost>>

MarkCompleted(r) ==
    /\ phase = "mark" /\ First(r) /\ result = "ok"
    /\ \/ /\ rows' = Without({r})
          /\ UNCHANGED <<fails, lost, unsure>>
       \/ /\ fails < MaxFails /\ fails' = fails + 1
          /\ lost' = [lost EXCEPT ![r.at] = @ + 1]
          /\ unsure' = [unsure EXCEPT ![r.at] = @ + 1]
          /\ UNCHANGED rows
    /\ Done(r) /\ phase' = "replay" /\ result' = "none"
    /\ UNCHANGED <<queueVars, local, seen, sent, pairs, runs>>

(* retry_count + 1 >= max_retries gives the operation up. *)
OneTooMany(r) == r.retries + 1 > MaxRetries
GivesUp(r) == r.retries + 1 >= MaxRetries
Retried(r) ==
    [r EXCEPT !.retries = @ + 1, !.waiting = TRUE,
              !.status = IF GivesUp(r) THEN "failed" ELSE "pending"]

MarkFailed(r) ==
    /\ phase = "mark" /\ First(r) /\ result = "err"
    /\ \/ /\ rows' = {IF q.at = r.at THEN Retried(q) ELSE q : q \in rows}
          /\ UNCHANGED <<fails, lost>>
       \/ /\ fails < MaxFails /\ fails' = fails + 1
          /\ lost' = [lost EXCEPT ![r.at] = @ + 1]
          /\ UNCHANGED rows
    /\ Done(r) /\ phase' = "replay" /\ result' = "none"
    /\ UNCHANGED <<queueVars, local, seen, sent, pairs, runs, unsure>>

FinishRound ==
    /\ phase = "replay" /\ batch = {}
    /\ phase' = "idle"
    /\ UNCHANGED <<queueVars, rows, local, seen, sent, pairs, batch, result,
                   fails, history>>

(* The backoff of a row has passed.                                        *)
BackoffOver(r) ==
    /\ r.waiting /\ Pending(r)
    /\ rows' = Without({r}) \cup {[r EXCEPT !.waiting = FALSE]}
    /\ UNCHANGED <<queueVars, local, seen, sent, roundVars, fails, history>>

(* The process stops at any point of the round; the tables survive.        *)
Unrecorded(o) == phase = "mark" /\ \E r \in batch : First(r) /\ r.at = o
Crash ==
    /\ phase # "idle" /\ fails < MaxFails /\ fails' = fails + 1
    /\ phase' = "idle" /\ pairs' = {} /\ batch' = {} /\ result' = "none"
    /\ lost' = [o \in Op |-> IF Unrecorded(o) THEN lost[o] + 1 ELSE lost[o]]
    /\ unsure' = [o \in Op |-> IF Unrecorded(o) /\ result = "ok"
                               THEN unsure[o] + 1 ELSE unsure[o]]
    /\ UNCHANGED <<queueVars, rows, local, seen, sent, runs>>

---------------------------------------------------------------------------
User == (\E m \in Messages : Toggle(m))
        \/ (\E kind \in {"send", "unknown"} : EnqueueOther(kind))

Worker ==
    \/ StartRound \/ DropReads \/ DropUnreads \/ Dequeue \/ FinishRound
    \/ \E r \in batch : \/ SkipUndecodable(r) \/ Execute(r)
                        \/ MarkCompleted(r) \/ MarkFailed(r)

Time(o) == \E r \in rows : r.at = o /\ BackoffOver(r)

Next == User \/ Worker \/ (\E o \in Op : Time(o)) \/ Crash

Spec == Init /\ [][Next]_vars

(* The worker's loop wakes for ever, and runs a round it began to its end; *)
(* time passes.                                                            *)
FairSpec == Spec /\ WF_vars(Worker) /\ \A o \in Op : WF_vars(Time(o))

---------------------------------------------------------------------------
(* The variables' types. A row's place is its own, and the batch holds no  *)
(* operation that has left the queue or was given up.                      *)
TypeOK ==
    /\ rank \in [Op -> Op] /\ created \in 0..MaxOps
    /\ mailed \subseteq Op
    /\ rows \subseteq Row /\ batch \subseteq Row
    /\ \A r, q \in rows : r.at = q.at => r = q
    /\ \A r \in batch : \E q \in rows : q.at = r.at /\ Pending(q)
    /\ local \in [Messages -> BOOLEAN] /\ seen \in [Messages -> BOOLEAN]
    /\ phase \in Phase /\ pairs \subseteq Row \X Row
    /\ result \in {"none", "ok", "err"} /\ fails \in 0..MaxFails
    /\ sent \in [Op -> Nat] /\ runs \in [Op -> Nat]
    /\ lost \in [Op -> Nat] /\ unsure \in [Op -> Nat]

(* Nobody receives a message twice without an uncertainty that the code    *)
(* cannot resolve: every extra copy is due to an error after the server's  *)
(* acceptance, a failed mark_completed, or a crash before it. Failing to   *)
(* store the Sent copy, above all, is not a reason to send again.          *)
NoNeedlessResend ==
    \A o \in Op : sent[o] <= 1 + unsure[o]

(* An operation is tried at most max_retries times, as long as outcomes    *)
(* are recorded; an operation given up is never tried again.               *)
AttemptsBounded ==
    \A o \in Op : runs[o] <= MaxRetries + lost[o]

(* Mail leaves the outbox only by being accepted: while it was not, it is  *)
(* pending, or kept as failed, through compaction, retries and crashes.    *)
NoMailLost ==
    \A o \in mailed : sent[o] = 0 => \E r \in rows : r.at = o

IdsInOrder ==
    \A o, p \in 1..created : o < p => rank[o] < rank[p]
Drained(m) == \A r \in rows : r.msg # m

(* A drained queue leaves the server with the user's last edit, as long as *)
(* nothing failed (a retry overtakes nothing, but is overtaken by later    *)
(* operations while it waits) and the ids happen to be in creation order,  *)
(* on which compact_queue relies.                                          *)
EditsArrive ==
    fails = 0 /\ IdsInOrder =>
        \A m \in Messages : Drained(m) => seen[m] = local[m]

(* The same for the ids the code really draws.                             *)
CompactionKeepsIntent ==
    fails = 0 => \A m \in Messages : Drained(m) => seen[m] = local[m]

Waiting(o) == \E r \in rows : r.at = o /\ Pending(r) /\ r.kind # "unknown"
Starved == Cardinality({r \in rows : r.kind = "unknown"}) >= Limit

(* Every operation is executed or given up in the end, whatever fails, an  *)
(* undecodable row among the older ones included; only Limit such rows,    *)
(* which are dequeued again and again, block the queue.                    *)
EveryOpSettles ==
    \A o \in Op : Waiting(o) ~> (~Waiting(o) \/ Starved)

---------------------------------------------------------------------------
(* The outbox that the sends make up: a send is what its row says, or was  *)
(* accepted once it has none.                                              *)
Standing(o) ==
    IF o \notin mailed THEN "none"
    ELSE IF \E r \in rows : r.at = o
         THEN (CHOOSE r \in rows : r.at = o).status
         ELSE "accepted"

Tries(o) ==
    IF o \in mailed /\ \E r \in rows : r.at = o
    THEN (CHOOSE r \in rows : r.at = o).retries ELSE 0

Promised == INSTANCE Outbox WITH
    Mail <- Op,
    standing <- [o \in Op |-> Standing(o)],
    copies <- sent,
    doubts <- [o \in Op |-> IF o \in mailed THEN unsure[o] ELSE 0],
    tries <- [o \in Op |-> Tries(o)]

(* The queue keeps what Outbox promises for mail, with compaction, rounds  *)
(* cut short anywhere, marks that fail and answers that are lost.          *)
MailIsKeptAndSent == Promised!OutboxSpec

=============================================================================

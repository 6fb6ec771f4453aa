-------------------------- MODULE WorkerLifecycle --------------------------
(***************************************************************************)
(* The workers of SyncEngine: how ensure_worker spawns one per account     *)
(* under concurrent callers, how callers nudge it over its bounded         *)
(* channel, how stop_all ends it, and its select loop.                     *)
(*                                                                         *)
(* A critical section without an await inside is one step. Two mutexes     *)
(* stay held across an await: workers_starting while its holder waits for  *)
(* workers, and workers while stop_all sends.                              *)
(***************************************************************************)
EXTENDS Naturals, Sequences

CONSTANTS
    Accounts,
    Callers,   \* tasks that call sync_start, sync_account_now, sync_replay_now
    Capacity,  \* of a worker's channel (16)
    MaxCalls,  \* bound: calls made
    MaxStops,  \* bound: calls of stop_all
    MaxFails   \* bound: failed look-ups, failed or hung rounds and panics

ASSUME LifecycleAssumption ==
    /\ Capacity \in Nat \ {0}
    /\ MaxCalls \in Nat /\ MaxStops \in Nat /\ MaxFails \in Nat

Worker == 1..MaxCalls  \* a call spawns at most one
None == 0
NoOne == "no one"
ASSUME NoOneAssumption == NoOne \notin Callers
Call == {"start", "SyncNow", "ReplayNow"}
Message == {"SyncNow", "ReplayNow", "Shutdown"}
InRound == {"poll", "replay", "ops", "sync", "push"}
Dead == {"exited", "panicked"}

VARIABLES
    workers,  \* workers[a]: the worker whose handle is in the map, or None
    starting, \* the accounts in workers_starting
    holder,   \* the caller that holds the mutex of workers_starting
    toStop,   \* handles stop_all has drained and not yet told
    stopping, \* stop_all is running and holds the mutex of workers
    pc,       \* what each caller does next
    job,      \* the account and the operation it was called for
    tx,       \* the worker whose sender it has cloned
    task,     \* the state of each worker's task
    account,  \* the account it was spawned for
    channel,  \* what is in its channel
    spawned,  \* how many workers have been spawned
    hung,     \* those whose round awaits an answer that does not come
    owed,     \* an operation was enqueued and no replay has dequeued since
    skipped,  \* the last round dequeued nothing as it failed before
    calls, stops, fails

callVars == <<pc, job, tx>>
taskVars == <<task, account, channel, spawned, hung>>
bounds == <<calls, stops, fails>>
vars == <<workers, starting, holder, toStop, stopping, callVars, taskVars,
          owed, skipped, bounds>>

Init ==
    /\ workers = [a \in Accounts |-> None]
    /\ starting = {} /\ holder = NoOne /\ toStop = {} /\ stopping = FALSE
    /\ pc = [c \in Callers |-> "idle"]
    /\ job \in [Callers -> [acct : Accounts, op : {"start"}]]
    /\ tx = [c \in Callers |-> None]
    /\ task = [w \in Worker |-> "unborn"]
    /\ account \in [Worker -> Accounts]
    /\ channel = [w \in Worker |-> <<>>] /\ spawned = 0 /\ hung = {}
    /\ owed = [a \in Accounts |-> FALSE] /\ skipped = owed
    /\ calls = 0 /\ stops = 0 /\ fails = 0

Fails == fails < MaxFails /\ fails' = fails + 1 /\ UNCHANGED <<calls, stops>>

---------------------------------------------------------------------------
(* A caller: ensure_worker, then nudge_worker unless it is sync_start.     *)

(* A call that has returned leaves no trace of its operation. *)
GoesTo(c, next) ==
    /\ pc' = [pc EXCEPT ![c] = next]
    /\ job' = IF next = "idle" THEN [job EXCEPT ![c].op = "start"] ELSE job
AfterEnsure(c) == IF job[c].op = "start" THEN "idle" ELSE "nudge"

(* sync_replay_now follows the enqueue of an operation. *)
Begin(c, a, op) ==
    /\ pc[c] = "idle" /\ calls < MaxCalls
    /\ calls' = calls + 1
    /\ job' = [job EXCEPT ![c] = [acct |-> a, op |-> op]]
    /\ owed' = IF op = "ReplayNow" THEN [owed EXCEPT ![a] = TRUE] ELSE owed
    /\ pc' = [pc EXCEPT ![c] = "fast"]
    /\ UNCHANGED <<workers, starting, holder, toStop, stopping, tx, taskVars,
                   skipped, stops, fails>>

FastPath(c) ==
    /\ pc[c] = "fast" /\ ~stopping
    /\ GoesTo(c, IF workers[job[c].acct] # None THEN AfterEnsure(c) ELSE "reserve")
    /\ UNCHANGED <<workers, starting, holder, toStop, stopping, tx,
                   taskVars, owed, skipped, bounds>>

LockStarting(c) ==
    /\ pc[c] = "reserve" /\ holder = NoOne
    /\ holder' = c
    /\ GoesTo(c, "check")
    /\ UNCHANGED <<workers, starting, toStop, stopping, tx, taskVars, owed,
                   skipped, bounds>>

NotTracked(a) == FALSE
AlreadyStarting(a) == a \in starting

Reserve(c) ==
    LET a == job[c].acct
        taken == workers[a] # None \/ AlreadyStarting(a)
    IN  /\ pc[c] = "check" /\ ~stopping
        /\ holder' = NoOne
        /\ starting' = IF taken THEN starting ELSE starting \cup {a}
        /\ GoesTo(c, IF taken THEN AfterEnsure(c) ELSE "lookup")
        /\ UNCHANGED <<workers, toStop, stopping, tx, taskVars, owed,
                       skipped, bounds>>

(* spawn_worker: without the account's row there is no worker.             *)
LookUp(c) ==
    /\ pc[c] = "lookup"
    /\ \/ GoesTo(c, "insert") /\ UNCHANGED bounds
       \/ GoesTo(c, "release") /\ Fails
    /\ UNCHANGED <<workers, starting, holder, toStop, stopping, tx,
                   taskVars, owed, skipped>>

(* The task starts with a round, before its select loop. *)
StraightToSelect == "select"
FirstState == "poll"

Insert(c) ==
    LET w == spawned + 1
    IN  /\ pc[c] = "insert" /\ ~stopping
        /\ spawned < MaxCalls \* never false: a call spawns at most one
        /\ spawned' = w
        /\ workers' = [workers EXCEPT ![job[c].acct] = w]
        /\ task' = [task EXCEPT ![w] = FirstState]
        /\ account' = [account EXCEPT ![w] = job[c].acct]
        /\ GoesTo(c, "release")
        /\ UNCHANGED <<starting, holder, toStop, stopping, tx, channel,
                       hung, owed, skipped, bounds>>

(* Drop of the StartingGuard: try_lock, and no second attempt.             *)
Release(c) ==
    /\ pc[c] = "release"
    /\ starting' = IF holder = NoOne THEN starting \ {job[c].acct} ELSE starting
    /\ GoesTo(c, AfterEnsure(c))
    /\ UNCHANGED <<workers, holder, toStop, stopping, tx, taskVars, owed,
                   skipped, bounds>>

Nudge(c) ==
    /\ pc[c] = "nudge" /\ ~stopping
    /\ tx' = [tx EXCEPT ![c] = workers[job[c].acct]]
    /\ GoesTo(c, IF tx'[c] = None THEN "idle" ELSE "send")
    /\ UNCHANGED <<workers, starting, holder, toStop, stopping, taskVars,
                   owed, skipped, bounds>>

(* Sending waits while the channel is full, and fails without a receiver.  *)
SentWithoutWaiting(w, op) ==
    IF task[w] \in Dead THEN UNCHANGED channel
    ELSE channel' = [channel EXCEPT ![w] = Append(@, op)]
Sent(w, op) ==
    IF task[w] \in Dead THEN UNCHANGED channel
    ELSE /\ Len(channel[w]) < Capacity
         /\ channel' = [channel EXCEPT ![w] = Append(@, op)]

Send(c) ==
    /\ pc[c] = "send"
    /\ Sent(tx[c], job[c].op)
    /\ tx' = [tx EXCEPT ![c] = None]
    /\ GoesTo(c, "idle")
    /\ UNCHANGED <<workers, starting, holder, toStop, stopping, task,
                   account, spawned, hung, owed, skipped, bounds>>

---------------------------------------------------------------------------
(* stop_all drains the map and sends Shutdown to each worker.              *)

HandlesKept == workers
HandlesDrained == [a \in Accounts |-> None]

StopAll ==
    /\ ~stopping /\ stops < MaxStops /\ stops' = stops + 1
    /\ stopping' = TRUE
    /\ toStop' = {workers[a] : a \in Accounts} \ {None}
    /\ workers' = HandlesDrained
    /\ UNCHANGED <<starting, holder, callVars, taskVars, owed, skipped, calls,
                   fails>>

TellWorker(w) ==
    /\ Sent(w, "Shutdown")
    /\ toStop' = toStop \ {w}
    /\ UNCHANGED <<workers, starting, holder, stopping, callVars, task, account,
                   spawned, hung, owed, skipped, bounds>>

Stopped ==
    /\ stopping /\ toStop = {}
    /\ stopping' = FALSE
    /\ UNCHANGED <<workers, starting, holder, toStop, callVars, taskVars, owed,
                   skipped, bounds>>

---------------------------------------------------------------------------
(* A worker. A round of kind "poll" replays and then syncs, "replay" only  *)
(* replays ("ops": what it dequeued), "push" only syncs the inbox.         *)

Becomes(w, state) == task' = [task EXCEPT ![w] = state]

(* Rounds never wait for the map of workers. *)
RoundLocksWorkers == ~stopping
RoundRunsFreely == TRUE

Replay(w) ==
    LET a == account[w]
        poll == task[w] = "poll"
    IN  /\ task[w] \in {"poll", "replay"} /\ w \notin hung /\ RoundRunsFreely
        /\ \/ /\ owed' = [owed EXCEPT ![a] = FALSE]
              /\ skipped' = [skipped EXCEPT ![a] = FALSE]
              /\ Becomes(w, IF poll THEN "sync" ELSE "ops")
              /\ UNCHANGED bounds
           \/ \* the source cannot be resolved, or the queue cannot be read
              /\ Fails
              /\ skipped' = [skipped EXCEPT ![a] = TRUE]
              /\ \/ Becomes(w, "select")
                 \/ poll /\ Becomes(w, "sync")
              /\ UNCHANGED owed
        /\ UNCHANGED <<workers, starting, holder, toStop, stopping, callVars,
                       account, channel, spawned, hung>>

EndRound(w) ==
    /\ task[w] \in {"ops", "sync", "push"} /\ w \notin hung /\ RoundRunsFreely
    /\ Becomes(w, "select")
    /\ UNCHANGED <<workers, starting, holder, toStop, stopping, callVars,
                   account, channel, spawned, hung, owed, skipped, bounds>>

(* execute awaits the actor's answer without a timeout, and the actor      *)
(* awaits the answers to IDLE and DONE, and room for a push, without one.  *)
Hang(w) ==
    /\ task[w] \in InRound /\ w \notin hung /\ Fails
    /\ hung' = hung \cup {w}
    /\ UNCHANGED <<workers, starting, holder, toStop, stopping, callVars, task,
                   account, channel, spawned, owed, skipped>>

(* The answer comes after all, or the actor's end is the answer.           *)
Resume(w) ==
    /\ w \in hung
    /\ hung' = hung \ {w}
    /\ UNCHANGED <<workers, starting, holder, toStop, stopping, callVars, task,
                   account, channel, spawned, owed, skipped, bounds>>

Tick(w) ==
    /\ task[w] = "select"
    /\ Becomes(w, "poll")
    /\ UNCHANGED <<workers, starting, holder, toStop, stopping, callVars,
                   account, channel, spawned, hung, owed, skipped, bounds>>

Push(w) ==
    /\ task[w] = "select"
    /\ Becomes(w, "push")
    /\ UNCHANGED <<workers, starting, holder, toStop, stopping, callVars,
                   account, channel, spawned, hung, owed, skipped, bounds>>

Receive(w) ==
    /\ task[w] = "select" /\ channel[w] # <<>>
    /\ channel' = [channel EXCEPT ![w] = Tail(@)]
    /\ Becomes(w, CASE Head(channel[w]) = "SyncNow"   -> "poll"
                    [] Head(channel[w]) = "ReplayNow" -> "replay"
                    [] Head(channel[w]) = "Shutdown"  -> "exited")
    /\ UNCHANGED <<workers, starting, holder, toStop, stopping, callVars,
                   account, spawned, hung, owed, skipped, bounds>>

(* A panic inside a round ends the task: the supervisor only logs it.      *)
Panic(w) ==
    /\ task[w] \in InRound /\ w \notin hung /\ Fails
    /\ Becomes(w, "panicked")
    /\ UNCHANGED <<workers, starting, holder, toStop, stopping, callVars,
                   account, channel, spawned, hung, owed, skipped>>

---------------------------------------------------------------------------
Caller(c) ==
    \/ FastPath(c) \/ LockStarting(c) \/ Reserve(c) \/ LookUp(c) \/ Insert(c)
    \/ Release(c) \/ Nudge(c) \/ Send(c)

Stop == Stopped \/ \E w \in toStop : TellWorker(w)

Round(w) == Replay(w) \/ EndRound(w)

Next ==
    \/ \E c \in Callers, a \in Accounts, op \in Call : Begin(c, a, op)
    \/ \E c \in Callers : Caller(c)
    \/ StopAll \/ Stop
    \/ \E w \in Worker :
         \/ Round(w) \/ Hang(w) \/ Resume(w) \/ Panic(w)
         \/ Tick(w) \/ Push(w) \/ Receive(w)

Spec == Init /\ [][Next]_vars

(* Tasks run; tokio's mutexes and channels serve their waiters in order;   *)
(* the commands of a round have timeouts, so it ends unless it hangs, and  *)
(* nothing says that what hangs goes on; and select! polls its branches in *)
(* random order, so a message that waits is received however often the     *)
(* ticker and the pushes win.                                              *)
FairSpec ==
    /\ Spec
    /\ \A c \in Callers : WF_vars(Caller(c))
    /\ WF_vars(Stop)
    /\ \A w \in Worker : WF_vars(Round(w)) /\ SF_vars(Receive(w))

---------------------------------------------------------------------------
(* The variables' types; the mutex of workers_starting is held exactly     *)
(* while its holder is inside the check.                                   *)
TypeOK ==
    /\ workers \in [Accounts -> Worker \cup {None}]
    /\ starting \subseteq Accounts /\ holder \in Callers \cup {NoOne}
    /\ toStop \subseteq Worker /\ stopping \in BOOLEAN
    /\ job \in [Callers -> [acct : Accounts, op : Call]]
    /\ tx \in [Callers -> Worker \cup {None}]
    /\ \A c \in Callers : pc[c] = "check" <=> holder = c
    /\ task \in [Worker -> {"unborn", "select"} \cup InRound \cup Dead]
    /\ account \in [Worker -> Accounts]
    /\ \A w \in Worker : /\ channel[w] \in Seq(Message)
                         /\ Len(channel[w]) <= Capacity
    /\ spawned \in 0..MaxCalls
    /\ hung \subseteq {w \in Worker : task[w] \in InRound}
    /\ owed \in [Accounts -> BOOLEAN] /\ skipped \in [Accounts -> BOOLEAN]

ToldToStop(w) ==
    w \in toStop \/ \E i \in 1..Len(channel[w]) : channel[w][i] = "Shutdown"

(* However calls interleave, an account never has two workers, or one that *)
(* is not in the map, other than those stop_all has told to stop and that  *)
(* finish what they are doing. Two would replay one queue twice.           *)
OneWorkerPerAccount ==
    \A w \in Worker :
        task[w] \in InRound \cup {"select"} =>
            workers[account[w]] = w \/ ToldToStop(w)

(* A handle whose task is gone blocks the account for good, as             *)
(* ensure_worker trusts the map: only a panic leaves one.                  *)
HandlesLive ==
    \A a \in Accounts : workers[a] # None =>
        task[workers[a]] \in InRound \cup {"select", "panicked"}

Quiet(a) ==
    /\ workers[a] # None
    /\ task[workers[a]] = "select" /\ channel[workers[a]] = <<>>
    /\ \A c \in Callers : pc[c] # "idle" => job[c].acct # a

(* No lost wake-up: a worker that waits with an empty channel has replayed *)
(* everything whose mutation command has returned, although a nudge finds  *)
(* no worker, a stopped one or a starting one, unless its last round could *)
(* not replay.                                                             *)
NoLostWakeUp ==
    \A a \in Accounts : Quiet(a) /\ owed[a] => skipped[a]

(* Every command returns and so does stop_all, although callers wait for   *)
(* mutexes and for room in a channel whose worker is in a long round;      *)
(* unless the caller, or stop_all with the map of workers locked, waits    *)
(* for room in the channel of a worker that hangs.                         *)
Jams(w) == w \in hung /\ Len(channel[w]) = Capacity
StopJammed == stopping /\ \E w \in toStop : Jams(w)
NobodyWaitsForEver ==
    /\ \A c \in Callers :
         (pc[c] # "idle" ~> pc[c] = "idle" \/ Jams(tx[c]) \/ StopJammed)
    /\ (stopping ~> ~stopping \/ StopJammed)

(* What ensure_worker says of its reservation: it ends with the spawn.     *)
ReservationsEnd ==
    \A a \in starting : \E c \in Callers :
        job[c].acct = a /\ pc[c] \in {"lookup", "insert", "release"}

=============================================================================

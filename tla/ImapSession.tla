---------------------------- MODULE ImapSession ----------------------------
(***************************************************************************)
(* ImapSessionManager: one actor task per account owns the account's only  *)
(* IMAP connection, IDLEs on the inbox when nothing else is to be done and *)
(* runs the commands it is sent; the account's worker drains its pushes    *)
(* and syncs; other tasks fetch bodies and attachments; stop_all ends      *)
(* workers and actors, and a worker may start again in between.            *)
(*                                                                         *)
(* One account. A client works through the calls of its plan: a worker's   *)
(* round, or the one call of a body fetch. The command channel (64) never  *)
(* fills: every client waits for its answer. The operators and variables   *)
(* carry names of their own so that this module and its siblings can be    *)
(* checked side by side.                                                   *)
(***************************************************************************)
EXTENDS Naturals, Sequences

CONSTANTS
    MaxWorkers, \* bound: workers spawned for the account
    Readers,    \* tasks of the user interface that fetch
    Fetches,    \* what they fetch from: folders, or "raw"
    MaxActors,  \* bound: actors spawned
    PushCap,    \* capacity of a push channel (16)
    MaxReads,   \* bound: calls the readers make
    MaxStops,   \* bound: calls of stop_all
    MaxDrops    \* bound: failures of the network or the server

ASSUME SessionAssumption ==
    /\ MaxWorkers \in Nat /\ MaxActors \in Nat /\ PushCap \in Nat \ {0}
    /\ MaxReads \in Nat /\ MaxStops \in Nat /\ MaxDrops \in Nat
    /\ Readers \cap Nat = {} /\ Fetches \subseteq {"INBOX", "Archive", "raw"}

Actor == 1..MaxActors
SyncWorker == 1..MaxWorkers
Client == SyncWorker \cup Readers
NoActor == 0
NoWorker == 0
Folder == {"INBOX", "Archive"}

(* "list" names no folder, "raw" yields the session for a connection of    *)
(* the caller's own, "watch" is start_idle.                                *)
SessCall == Folder \cup {"list", "raw", "watch"}

(* A poll round; the second is that of a folder whose typed fetch comes    *)
(* back empty.                                                             *)
PollRounds == {<<"list", "INBOX", "Archive">>, <<"list", "INBOX", "raw", "INBOX">>}

VARIABLES
    handle,   \* the actor in the manager's map, or NoActor
    actorAt,  \* what each actor does
    session,  \* session[g]: the actor holds a connection
    selected, \* the folder the actor believes selected, "none" if none
    mailbox,  \* the folder the server has selected, "refused" after a NO
    watching, \* the worker whose push channel the actor was given
    inbox,    \* the actor's command channel
    try,      \* attempt of the command it runs
    pushes,   \* pushes[w]: notices in the push channel of worker w
    clientAt, \* what each client does
    plan,     \* the calls of its round not yet finished
    via,      \* the actor it has a handle of
    told,     \* the workers stop_all has told to shut down
    halting,  \* stop_all has told the workers and not yet ended the actors
    reads, halts, drops

actorVars == <<actorAt, session, selected, mailbox, watching, inbox, try>>
clientVars == <<clientAt, plan, via>>
sessBounds == <<reads, halts, drops>>
sessVars == <<handle, actorVars, pushes, clientVars, told, halting,
              sessBounds>>

SessInit ==
    /\ handle = NoActor
    /\ actorAt = [g \in Actor |-> "unborn"]
    /\ session = [g \in Actor |-> FALSE]
    /\ selected = [g \in Actor |-> "none"] /\ mailbox = selected
    /\ watching = [g \in Actor |-> NoWorker]
    /\ inbox = [g \in Actor |-> <<>>] /\ try = [g \in Actor |-> 1]
    /\ pushes = [w \in SyncWorker |-> 0]
    /\ clientAt = [c \in Client |-> IF c \in Readers THEN "free" ELSE "unborn"]
    /\ plan = [c \in Client |-> <<>>]
    /\ via = [c \in Client |-> NoActor]
    /\ told = {} /\ halting = FALSE
    /\ reads = 0 /\ halts = 0 /\ drops = 0

Drop1 == drops < MaxDrops /\ drops' = drops + 1 /\ UNCHANGED <<reads, halts>>

Living == {w \in SyncWorker : clientAt[w] \notin {"unborn", "off"}}
Running(g) == actorAt[g] \in {"top", "idle", "mute", "notify", "busy"}

---------------------------------------------------------------------------
(* A client calls execute, disconnect_account or start_idle.               *)

Doing(c) == Head(plan[c])

BeginRead(c, call) ==
    /\ clientAt[c] = "free" /\ plan[c] = <<>> /\ reads < MaxReads
    /\ call \in Fetches
    /\ reads' = reads + 1
    /\ plan' = [plan EXCEPT ![c] = <<call>>]
    /\ UNCHANGED <<handle, actorVars, pushes, clientAt, via,
                   told, halting, halts, drops>>

(* handle_for's first look at the map; disconnect_account looks only once  *)
(* and has nothing to yield when there is no actor.                        *)
FindActor(c) ==
    /\ clientAt[c] = "free" /\ plan[c] # <<>>
    /\ via' = [via EXCEPT ![c] = handle]
    /\ clientAt' = [clientAt EXCEPT ![c] =
                        CASE handle # NoActor                    -> "send"
                          [] handle = NoActor /\ Doing(c) = "raw" -> "raw"
                          [] OTHER                               -> "spawn"]
    /\ UNCHANGED <<handle, actorVars, pushes, plan, told,
                   halting, sessBounds>>

(* ... and the second, under the lock it spawns under.                     *)
FirstLookWins == TRUE
StillNone == handle = NoActor

SpawnActor(c) ==
    /\ clientAt[c] = "spawn"
    /\ clientAt' = [clientAt EXCEPT ![c] = "send"]
    /\ \/ /\ ~StillNone
          /\ via' = [via EXCEPT ![c] = handle]
          /\ UNCHANGED <<handle, actorAt>>
       \/ /\ StillNone
          /\ \E g \in Actor :
                /\ actorAt[g] = "unborn"
                /\ \A h \in Actor : actorAt[h] = "unborn" => g <= h
                /\ actorAt' = [actorAt EXCEPT ![g] = "top"]
                /\ handle' = g /\ via' = [via EXCEPT ![c] = g]
    /\ UNCHANGED <<session, selected, mailbox, watching, inbox, try, pushes,
                   plan, told, halting, sessBounds>>

(* The calls of S are over: the next of the plan, whatever they returned.  *)
Returned(S) ==
    /\ clientAt' = [c \in Client |-> IF c \in S THEN "free" ELSE clientAt[c]]
    /\ plan' = [c \in Client |-> IF c \in S THEN Tail(plan[c]) ELSE plan[c]]
    /\ via' = [c \in Client |-> IF c \in S THEN NoActor ELSE via[c]]
GoesRaw(S) ==
    /\ clientAt' = [c \in Client |-> IF c \in S THEN "raw" ELSE clientAt[c]]
    /\ via' = [c \in Client |-> IF c \in S THEN NoActor ELSE via[c]]
    /\ UNCHANGED plan

(* A send fails at once when the actor is gone. start_idle does not wait   *)
(* for an answer, the channel is its result.                               *)
SendCommand(c) ==
    LET g == via[c]
    IN  /\ clientAt[c] = "send"
        /\ inbox' = IF Running(g)
                    THEN [inbox EXCEPT ![g] = Append(@, [from |-> c, call |-> Doing(c)])]
                    ELSE inbox
        /\ IF Doing(c) = "watch"
           THEN Returned({c})
           ELSE CASE Running(g) -> /\ clientAt' = [clientAt EXCEPT ![c] = "wait"]
                                   /\ UNCHANGED <<plan, via>>
                  [] ~Running(g) /\ Doing(c) = "raw" -> GoesRaw({c})
                  [] OTHER -> Returned({c})
        /\ UNCHANGED <<handle, actorAt, session, selected, mailbox, watching, try,
                       pushes, told, halting, sessBounds>>

RawDone(c) ==
    /\ clientAt[c] = "raw"
    /\ Returned({c})
    /\ UNCHANGED <<handle, actorVars, pushes, told, halting,
                   sessBounds>>

---------------------------------------------------------------------------
(* The actor's loop and handle_msg.                                        *)

Drained(g) == inbox[g] = <<>>

(* Commands break IDLE.                                                    *)
DeafInIdle(g) == actorAt[g] = "top"
Listening(g) == actorAt[g] \in {"top", "idle"}

Disconnect(g) ==
    /\ session' = [session EXCEPT ![g] = FALSE]
    /\ mailbox' = [mailbox EXCEPT ![g] = "none"]
    /\ selected' = [selected EXCEPT ![g] = "none"]

HasSession(g) == UNCHANGED <<session, selected, mailbox>>
(* idle.done() gives the session back, or fails. *)
Recover(g) ==
    \/ HasSession(g) /\ UNCHANGED sessBounds
    \/ actorAt[g] = "idle" /\ Disconnect(g) /\ Drop1

ActorGoes(g, where) == actorAt' = [actorAt EXCEPT ![g] = where]

(* disconnect_account: the answer comes once the session is gone.          *)
Yield(g) ==
    LET m == Head(inbox[g])
    IN  /\ Listening(g) /\ ~Drained(g) /\ m.call = "raw"
        /\ inbox' = [inbox EXCEPT ![g] = Tail(@)]
        /\ ActorGoes(g, "top") /\ Disconnect(g)
        /\ GoesRaw({m.from})
        /\ UNCHANGED <<handle, watching, try, pushes, told, halting, sessBounds>>

SetIdleFolder(g) ==
    LET m == Head(inbox[g])
    IN  /\ Listening(g) /\ ~Drained(g) /\ m.call = "watch"
        /\ inbox' = [inbox EXCEPT ![g] = Tail(@)]
        /\ watching' = [watching EXCEPT ![g] = m.from]
        /\ ActorGoes(g, "top") /\ Recover(g)
        /\ UNCHANGED <<handle, try, pushes, clientVars, told, halting>>

TakeCommand(g) ==
    /\ Listening(g) /\ ~Drained(g)
    /\ Head(inbox[g]).call \in Folder \cup {"list"}
    /\ ActorGoes(g, "busy") /\ Recover(g)
    /\ UNCHANGED <<handle, watching, inbox, try, pushes, clientVars, told,
                   halting>>

OnlyIfNone(current, requested) == current = "none"
should_reselect(current, requested) == current # requested

(* With nothing to do for 100 ms: SELECT the inbox if it is not the folder *)
(* believed selected, then IDLE. Either may fail, and costs the session.   *)
EnterIdle(g) ==
    /\ actorAt[g] = "top" /\ Drained(g) /\ session[g] /\ watching[g] # NoWorker
    /\ \/ /\ ActorGoes(g, "idle") /\ UNCHANGED <<session, sessBounds>>
          /\ IF should_reselect(selected[g], "INBOX")
             THEN /\ selected' = [selected EXCEPT ![g] = "INBOX"]
                  /\ mailbox' = [mailbox EXCEPT ![g] = "INBOX"]
             ELSE UNCHANGED <<selected, mailbox>>
       \/ Disconnect(g) /\ Drop1 /\ UNCHANGED actorAt
    /\ UNCHANGED <<handle, watching, inbox, try, pushes, clientVars, told,
                   halting>>

(* The keepalive, an interrupt or a failed wait.                           *)
LeaveIdle(g) ==
    /\ actorAt[g] = "idle" /\ Drained(g)
    /\ ActorGoes(g, "top") /\ Recover(g)
    /\ UNCHANGED <<handle, watching, inbox, try, pushes, clientVars, told,
                   halting>>

(* Neither IDLE nor DONE is given a time to be answered in: the actor may  *)
(* wait for a server that never answers, a command in hand or not, and is  *)
(* deaf until it does.                                                     *)
Unanswered(g) ==
    /\ actorAt[g] = "idle" /\ Drop1
    /\ ActorGoes(g, "mute") /\ HasSession(g)
    /\ UNCHANGED <<handle, watching, inbox, try, pushes, clientVars, told,
                   halting>>

Answered(g) ==
    /\ actorAt[g] = "mute"
    /\ ActorGoes(g, "idle") /\ HasSession(g)
    /\ UNCHANGED <<handle, watching, inbox, try, pushes, clientVars, told,
                   halting, sessBounds>>

(* Mail arrives. It is pushed only to an actor that IDLEs on the inbox and *)
(* has no command waiting: the select is biased, and what DONE drains is   *)
(* thrown away.                                                            *)
Arrive ==
    /\ \/ \E g \in Actor :
            /\ actorAt[g] = "idle" /\ Drained(g) /\ mailbox[g] = "INBOX"
            /\ ActorGoes(g, "notify") /\ Recover(g)
       \/ /\ \A g \in Actor :
                actorAt[g] = "idle" => ~Drained(g) \/ mailbox[g] # "INBOX"
          /\ UNCHANGED <<actorAt, session, selected, mailbox, sessBounds>>
    /\ UNCHANGED <<handle, watching, inbox, try, pushes, clientVars, told, halting>>

NoticeDropped(w) == pushes
Notified(w) == [pushes EXCEPT ![w] = @ + 1]
AlwaysRoom(w) == TRUE
HasRoom(w) == pushes[w] < PushCap

(* The send waits for room, unless its receiver is gone.                   *)
Notify(g) ==
    LET w == watching[g]
    IN  /\ actorAt[g] = "notify"
        /\ IF w \in Living
           THEN HasRoom(w) /\ pushes' = Notified(w)
           ELSE UNCHANGED pushes
        /\ ActorGoes(g, "top")
        /\ UNCHANGED <<handle, session, selected, mailbox, watching, inbox, try,
                       clientVars, told, halting, sessBounds>>

---------------------------------------------------------------------------
(* run_command. An attempt connects if there is no session, SELECTs if the *)
(* folder differs from the one believed selected, and runs the operation.  *)

Conn == [session : BOOLEAN, selected : Folder \cup {"none"},
         mailbox : Folder \cup {"none", "refused"}]
Fresh == [session |-> TRUE, selected |-> "none", mailbox |-> "none"]
Gone == [session |-> FALSE, selected |-> "none", mailbox |-> "none"]

(* The SELECT if need be, and that of the operation itself.                *)
Opened(s, f) == IF f = "list" THEN s
                ELSE [s EXCEPT !.selected = f, !.mailbox = f]

(* What an attempt may come to: [conn, how]. A transient failure may come  *)
(* before or after its effect. A refused SELECT leaves the server without  *)
(* a mailbox and the actor with its belief.                                *)
Attempts(s0, f) ==
    LET s == IF s0.session THEN s0 ELSE Fresh
    IN  {[conn |-> Opened(s, f), how |-> how] : how \in {"ok", "other", "transient"}}
        \cup {[conn |-> s, how |-> "transient"]}
        \cup (IF f = "list" THEN {}
              ELSE {[conn |-> [s EXCEPT !.mailbox = "refused"], how |-> "other"]})
        \cup (IF s0.session THEN {} ELSE {[conn |-> Gone, how |-> "other"]})

retry_decision(how, attempt) == how = "transient" /\ attempt = 1

Attempt(g) ==
    LET m == Head(inbox[g])
        s0 == [session |-> session[g], selected |-> selected[g], mailbox |-> mailbox[g]]
    IN  /\ actorAt[g] = "busy"
        /\ \E r \in Attempts(s0, m.call) :
             /\ IF r.how = "ok" THEN UNCHANGED sessBounds ELSE Drop1
             /\ IF retry_decision(r.how, try[g])
                THEN /\ Disconnect(g) /\ try' = [try EXCEPT ![g] = 2]
                     /\ UNCHANGED <<actorAt, inbox, clientAt, plan, via>>
                ELSE /\ session' = [session EXCEPT ![g] = r.conn.session]
                     /\ selected' = [selected EXCEPT ![g] = r.conn.selected]
                     /\ mailbox' = [mailbox EXCEPT ![g] = r.conn.mailbox]
                     /\ inbox' = [inbox EXCEPT ![g] = Tail(@)]
                     /\ ActorGoes(g, "top") /\ try' = [try EXCEPT ![g] = 1]
                     /\ Returned({m.from})
        /\ UNCHANGED <<handle, watching, pushes, told, halting>>

---------------------------------------------------------------------------
(* The worker: a poll round, then start_idle if the server can IDLE, then  *)
(* its select loop. Its rounds end with whatever their calls returned.     *)

SpawnWorker(w) ==
    /\ clientAt[w] = "unborn" /\ Living \subseteq told
    /\ \A v \in SyncWorker : v < w => clientAt[v] # "unborn"
    /\ clientAt' = [clientAt EXCEPT ![w] = "free"]
    /\ \E round \in PollRounds, watch \in {<<>>, <<"watch">>} :
          plan' = [plan EXCEPT ![w] = round \o watch]
    /\ UNCHANGED <<handle, actorVars, pushes, via, told, halting, sessBounds>>

RoundEnds(w) ==
    /\ \/ clientAt[w] = "free" /\ plan[w] = <<>>
       \/ clientAt[w] = "unserved"
    /\ clientAt' = [clientAt EXCEPT ![w] = "select"]
    /\ UNCHANGED <<handle, actorVars, pushes, plan, via, told,
                   halting, sessBounds>>

PollTick(w) ==
    /\ clientAt[w] = "select"
    /\ clientAt' = [clientAt EXCEPT ![w] = "free"]
    /\ \E round \in PollRounds : plan' = [plan EXCEPT ![w] = round]
    /\ UNCHANGED <<handle, actorVars, pushes, via, told, halting, sessBounds>>

(* The round of a push ends before its sync when the row of the inbox or   *)
(* the account's source cannot be read.                                    *)
TakePush(w) ==
    /\ clientAt[w] = "select" /\ pushes[w] > 0
    /\ pushes' = [pushes EXCEPT ![w] = @ - 1]
    /\ \/ /\ clientAt' = [clientAt EXCEPT ![w] = "free"]
          /\ plan' = [plan EXCEPT ![w] = <<"INBOX">>]
          /\ UNCHANGED sessBounds
       \/ /\ clientAt' = [clientAt EXCEPT ![w] = "unserved"]
          /\ Drop1 /\ UNCHANGED plan
    /\ UNCHANGED <<handle, actorVars, via, told, halting>>

WorkerExits(w) ==
    /\ clientAt[w] = "select" /\ w \in told
    /\ clientAt' = [clientAt EXCEPT ![w] = "off"]
    /\ pushes' = [pushes EXCEPT ![w] = 0]
    /\ UNCHANGED <<handle, actorVars, plan, via, told, halting,
                   sessBounds>>

(* stop_all tells the workers and lets go of their map, then has shutdown  *)
(* drain the map of actors and abort each: whoever waits for one gets an   *)
(* error.                                                                  *)
TellWorkers ==
    /\ ~halting /\ halts < MaxStops /\ halts' = halts + 1
    /\ told' = told \cup Living /\ halting' = TRUE
    /\ UNCHANGED <<handle, actorVars, pushes, clientVars, reads, drops>>

Abandoned(g) == {c \in Client : clientAt[c] = "wait" /\ via[c] = g}

ShutdownActors ==
    /\ halting /\ halting' = FALSE
    /\ handle' = NoActor
    /\ IF handle = NoActor THEN UNCHANGED <<actorVars, clientVars>>
       ELSE LET raw == {c \in Abandoned(handle) : Doing(c) = "raw"}
            IN  /\ ActorGoes(handle, "gone") /\ Disconnect(handle)
                /\ inbox' = [inbox EXCEPT ![handle] = <<>>]
                /\ try' = [try EXCEPT ![handle] = 1]
                /\ watching' = [watching EXCEPT ![handle] = NoWorker]
                /\ clientAt' = [c \in Client |->
                        CASE c \in raw -> "raw"
                          [] c \in Abandoned(handle) \ raw -> "free"
                          [] OTHER -> clientAt[c]]
                /\ plan' = [c \in Client |-> IF c \in Abandoned(handle) \ raw
                                             THEN Tail(plan[c]) ELSE plan[c]]
                /\ via' = [c \in Client |-> IF c \in Abandoned(handle)
                                            THEN NoActor ELSE via[c]]
    /\ UNCHANGED <<pushes, told, sessBounds>>

---------------------------------------------------------------------------
ClientStep(c) == FindActor(c) \/ SpawnActor(c) \/ SendCommand(c) \/ RawDone(c)

ActorStep(g) ==
    \/ Yield(g) \/ SetIdleFolder(g) \/ TakeCommand(g) \/ Attempt(g) \/ Notify(g)

SessNext ==
    \/ \E c \in Readers, call \in Fetches : BeginRead(c, call)
    \/ \E c \in Client : ClientStep(c)
    \/ \E g \in Actor :
         \/ ActorStep(g) \/ EnterIdle(g) \/ LeaveIdle(g)
         \/ Unanswered(g) \/ Answered(g)
    \/ \E w \in SyncWorker :
         \/ SpawnWorker(w) \/ RoundEnds(w) \/ PollTick(w) \/ TakePush(w)
         \/ WorkerExits(w)
    \/ Arrive \/ TellWorkers \/ ShutdownActors

SessSpec == SessInit /\ [][SessNext]_sessVars

(* Tasks run, the calls of a command end by their timeouts, tokio's        *)
(* channels and mutexes serve in order, and the worker's select! polls at  *)
(* random, so a push and the shutdown are taken however often another      *)
(* branch wins. Nothing says that the server answers an IDLE or a DONE, or *)
(* that stop_all gets past the channel of a worker to end the actors.      *)
SessFairness ==
    /\ \A c \in Client : WF_sessVars(ClientStep(c))
    /\ \A g \in Actor : WF_sessVars(ActorStep(g))
    /\ \A w \in SyncWorker :
         /\ WF_sessVars(RoundEnds(w))
         /\ SF_sessVars(TakePush(w)) /\ SF_sessVars(WorkerExits(w))

SessFairSpec == SessSpec /\ SessFairness

---------------------------------------------------------------------------
(* The variables' types.                                                   *)
SessTypeOK ==
    /\ handle \in Actor \cup {NoActor}
    /\ actorAt \in [Actor -> {"unborn", "top", "idle", "mute", "notify", "busy",
                            "gone"}]
    /\ session \in [Actor -> BOOLEAN]
    /\ selected \in [Actor -> Folder \cup {"none"}]
    /\ mailbox \in [Actor -> Folder \cup {"none", "refused"}]
    /\ watching \in [Actor -> SyncWorker \cup {NoWorker}]
    /\ inbox \in [Actor -> Seq([from : Client, call : SessCall])]
    /\ try \in [Actor -> 1..2]
    /\ pushes \in [SyncWorker -> 0..PushCap]
    /\ clientAt \in [Client -> {"unborn", "free", "spawn", "send", "wait", "raw",
                                "select", "unserved", "off"}]
    /\ plan \in [Client -> Seq(SessCall)]
    /\ via \in [Client -> Actor \cup {NoActor}]
    /\ told \subseteq SyncWorker /\ halting \in BOOLEAN
    /\ reads \in 0..MaxReads /\ halts \in 0..MaxStops /\ drops \in 0..MaxDrops

(* However many tasks find no actor at once, and whenever stop_all drains  *)
(* the map, one actor at most runs for the account and it is the one in    *)
(* the map: the account has one connection, which shutdown can end.        *)
OneActorPerAccount ==
    \A g \in Actor : Running(g) => handle = g

(* An actor that IDLEs has the inbox selected on the server, whatever      *)
(* commands, reconnections and failures came before, so that its mail is   *)
(* pushed; or the server refused the last SELECT, which the actor's        *)
(* bookkeeping does not survive.                                           *)
IdleWatchesInbox ==
    \A g \in Actor :
        actorAt[g] = "idle" => session[g] /\ mailbox[g] \in {"INBOX", "refused"}

(* The actor waits for room in the push channel of a worker that waits for *)
(* the actor.                                                              *)
Jammed ==
    \E g \in Actor :
        /\ actorAt[g] = "notify" /\ watching[g] \in Living
        /\ pushes[watching[g]] = PushCap
        /\ clientAt[watching[g]] = "wait" /\ via[watching[g]] = g

(* Every execute and disconnect_account returns, across reconnections,     *)
(* retries, yields and shutdowns, unless actor and worker wait for each    *)
(* other, or the actor for a server that does not answer IDLE or DONE.     *)
Mute(g) == actorAt[g] = "mute"
CallsReturnUnlessStuck ==
    \A c \in Client :
        (clientAt[c] = "wait" ~>
            clientAt[c] # "wait" \/ Jammed \/ \E g \in Actor : via[c] = g /\ Mute(g))

(* A push makes the worker sync the inbox, without waiting for the poll,   *)
(* unless stop_all ends one of the two, the round cannot begin its sync,   *)
(* or the actor is stuck.                                                  *)
SyncingInbox(w) == clientAt[w] = "wait" /\ Doing(w) = "INBOX"
PushIsFollowedBySync ==
    \A g \in Actor, w \in SyncWorker :
        (actorAt[g] = "notify" /\ watching[g] = w
            ~> \/ SyncingInbox(w) \/ clientAt[w] = "unserved"
               \/ Jammed \/ Mute(g) \/ w \in told \/ ~Running(g))

=============================================================================

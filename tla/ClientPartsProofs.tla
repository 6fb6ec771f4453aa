-------------------------- MODULE ClientPartsProofs --------------------------
(***************************************************************************)
(* What is proved of the parts of ClientParts other than the drafts and    *)
(* the moves, which have modules of their own: the IMAP session, the       *)
(* attachments' files, and that a part composed with the others behaves as *)
(* it does alone.                                                          *)
(***************************************************************************)
EXTENDS ClientParts, DraftAutosaveProofs, MailMovesProofs, SequenceTheorems

-----------------------------------------------------------------------------
(***************************************************************************)
(* ImapSession: one actor per account, and no IDLE away from the inbox,    *)
(* for any workers, readers, actors, stops and failures.                   *)
(*                                                                         *)
(* The first needs no more than that an actor is spawned into an empty map *)
(* and taken out of it as it ends. For the second, what an actor believes  *)
(* selected is what the server has selected, or the server has refused a   *)
(* SELECT since; and who holds no connection believes nothing.             *)
(***************************************************************************)

Doings == {"unborn", "top", "idle", "mute", "notify", "busy", "gone"}

ActorTypes ==
    /\ handle \in Actor \cup {NoActor}
    /\ actorAt \in [Actor -> Doings]
    /\ session \in [Actor -> BOOLEAN]
    /\ DOMAIN selected = Actor /\ selected = [g \in Actor |-> selected[g]]
    /\ DOMAIN mailbox = Actor /\ mailbox = [g \in Actor |-> mailbox[g]]

(* The bookkeeping of the selected folder.                                 *)
BeliefIsSound ==
    \A g \in Actor :
        /\ selected[g] # "none" => session[g] /\ mailbox[g] \in {selected[g], "refused"}
        /\ actorAt[g] \in {"idle", "mute"} => selected[g] = "INBOX"

ActorInv == ActorTypes /\ OneActorPerAccount /\ BeliefIsSound

LEMMA ActorsBegin == SessInit => ActorInv
  BY DEF SessInit, ActorInv, ActorTypes, OneActorPerAccount, BeliefIsSound, Running, Doings

(* Spawning, under the lock of the map.                                    *)
LEMMA SpawnKeeps ==
    ASSUME ActorInv, NEW c \in Client, SpawnActor(c)
    PROVE  ActorInv'
<1> USE DEF ActorInv
<1>1. CASE ~StillNone
  BY <1>1 DEF SpawnActor, ActorTypes, OneActorPerAccount, BeliefIsSound, Running
<1>2. CASE StillNone
  <2>1. PICK g \in Actor : /\ actorAt[g] = "unborn" /\ handle' = g
                           /\ actorAt' = [actorAt EXCEPT ![g] = "top"]
    BY <1>2 DEF SpawnActor
  <2>2. handle = NoActor /\ UNCHANGED <<session, selected, mailbox>>
    BY <1>2 DEF SpawnActor, StillNone
  <2>3. ActorTypes'
    BY <2>1, <2>2 DEF ActorTypes, Doings
  <2>4. \A h \in Actor : ~Running(h)
    BY <2>2 DEF OneActorPerAccount, Actor, NoActor
  <2>5. OneActorPerAccount'
    BY <2>1, <2>4 DEF ActorTypes, OneActorPerAccount, Running
  <2>6. BeliefIsSound'
    BY <2>1, <2>2 DEF ActorTypes, BeliefIsSound
  <2> QED BY <2>3, <2>5, <2>6
<1> QED BY <1>1, <1>2

(* A running actor goes on to another of its doings than IDLE, with its    *)
(* connection or without.                                                  *)
LEMMA GoingKeeps ==
    ASSUME ActorInv, NEW g \in Actor, Running(g), UNCHANGED handle,
           actorAt' = actorAt \/ \E d \in {"top", "notify", "busy"} : ActorGoes(g, d),
           HasSession(g) \/ Disconnect(g),
           actorAt' = actorAt => HasSession(g) \/ actorAt[g] \notin {"idle", "mute"}
    PROVE  ActorInv'
<1> USE DEF ActorInv
<1>1. ActorTypes'
  <2>1. actorAt' \in [Actor -> Doings]
    BY DEF ActorTypes, ActorGoes, Doings
  <2>2. CASE HasSession(g)
    BY <2>1, <2>2 DEF ActorTypes, HasSession
  <2>3. CASE Disconnect(g)
    BY <2>1, <2>3 DEF ActorTypes, Disconnect
  <2> QED BY <2>2, <2>3
<1>2. OneActorPerAccount'
  BY DEF ActorTypes, ActorGoes, OneActorPerAccount, Running
<1>3. BeliefIsSound'
  BY DEF ActorTypes, ActorGoes, BeliefIsSound, HasSession, Disconnect
<1> QED BY <1>1, <1>2, <1>3

LEMMA IdleKeeps ==
    ASSUME ActorInv, NEW g \in Actor, EnterIdle(g)
    PROVE  ActorInv'
<1> USE DEF ActorInv
<1>1. CASE Disconnect(g) /\ UNCHANGED actorAt
  BY <1>1, GoingKeeps DEF EnterIdle, Running
<1>2. CASE ActorGoes(g, "idle") /\ UNCHANGED session
  <2>1. ActorTypes'
    BY <1>2 DEF EnterIdle, ActorTypes, ActorGoes, Doings, Disconnect
  <2>2. OneActorPerAccount'
    BY <1>2 DEF EnterIdle, ActorTypes, ActorGoes, OneActorPerAccount, Running
  <2>3. BeliefIsSound'
    BY <1>2 DEF EnterIdle, ActorTypes, ActorGoes, BeliefIsSound, should_reselect, Disconnect
  <2> QED BY <2>1, <2>2, <2>3
<1> QED BY <1>1, <1>2 DEF EnterIdle

(* While the server's answer is awaited IDLE goes on.                      *)
LEMMA MuteKeeps ==
    ASSUME ActorInv, NEW g \in Actor, Unanswered(g) \/ Answered(g)
    PROVE  ActorInv'
<1> USE DEF ActorInv
<1>1. /\ actorAt[g] \in {"idle", "mute"} /\ UNCHANGED <<handle, session, selected, mailbox>>
      /\ \E d \in {"idle", "mute"} : ActorGoes(g, d)
  BY DEF Unanswered, Answered, HasSession
<1>2. ActorTypes'
  BY <1>1 DEF ActorTypes, ActorGoes, Doings
<1>3. OneActorPerAccount'
  BY <1>1 DEF ActorTypes, ActorGoes, OneActorPerAccount, Running
<1>4. BeliefIsSound'
  BY <1>1 DEF ActorTypes, ActorGoes, BeliefIsSound
<1> QED BY <1>2, <1>3, <1>4

(* What an attempt leaves of the connection: a folder is believed selected   *)
(* only where the server has it, or has just refused one.                   *)
ConnIsSound(conn) ==
    /\ conn.session \in BOOLEAN
    /\ conn.selected # "none" => conn.session /\ conn.mailbox \in {conn.selected, "refused"}

LEMMA AttemptConn ==
    ASSUME NEW a \in BOOLEAN, NEW b, NEW c, NEW f,
           b # "none" => a /\ c \in {b, "refused"},
           NEW r \in Attempts([session |-> a, selected |-> b, mailbox |-> c], f)
    PROVE  ConnIsSound(r.conn)
<1> DEFINE s0 == [session |-> a, selected |-> b, mailbox |-> c]
           s == IF s0.session THEN s0 ELSE Fresh
<1>1. /\ s.session = TRUE
      /\ s.selected # "none" => s.mailbox \in {s.selected, "refused"}
  BY DEF Fresh
<1>2. /\ DOMAIN s = {"session", "selected", "mailbox"}
      /\ s = [session |-> s.session, selected |-> s.selected, mailbox |-> s.mailbox]
  BY DEF Fresh
<1>3. r.conn \in {Opened(s, f), s, [s EXCEPT !.mailbox = "refused"], Gone}
  BY DEF Attempts
<1> HIDE DEF s
<1>4. ConnIsSound(s)
  BY <1>1 DEF ConnIsSound
<1>5. ConnIsSound([s EXCEPT !.mailbox = "refused"])
  <2>1. [s EXCEPT !.mailbox = "refused"]
          = [session |-> s.session, selected |-> s.selected, mailbox |-> "refused"]
    BY <1>2
  <2>2. ConnIsSound([session |-> s.session, selected |-> s.selected, mailbox |-> "refused"])
    BY <1>1 DEF ConnIsSound
  <2> QED BY <2>1, <2>2
<1>6. ConnIsSound(Opened(s, f))
  <2>1. CASE f = "list"
    BY <1>4, <2>1 DEF Opened
  <2>2. CASE f # "list"
    <3>1. Opened(s, f) = [session |-> s.session, selected |-> f, mailbox |-> f]
      BY <1>2, <2>2 DEF Opened
    <3>2. ConnIsSound([session |-> s.session, selected |-> f, mailbox |-> f])
      BY <1>1 DEF ConnIsSound
    <3> QED BY <3>1, <3>2
  <2> QED BY <2>1, <2>2
<1>7. ConnIsSound(Gone)
  BY DEF Gone, ConnIsSound
<1> QED BY <1>3, <1>4, <1>5, <1>6, <1>7

(* A command: the folder it selects, or fails to.                          *)
LEMMA AttemptKeeps ==
    ASSUME ActorInv, NEW g \in Actor, Attempt(g)
    PROVE  ActorInv'
<1> USE DEF ActorInv
<1> DEFINE f == Head(inbox[g]).call
           a == session[g]
           b == selected[g]
           c == mailbox[g]
           s0 == [session |-> a, selected |-> b, mailbox |-> c]
<1>0. actorAt[g] = "busy" /\ UNCHANGED handle
  BY DEF Attempt
<1>1. PICK r \in Attempts(s0, f) :
         IF retry_decision(r.how, try[g])
         THEN Disconnect(g) /\ UNCHANGED actorAt
         ELSE /\ session' = [session EXCEPT ![g] = r.conn.session]
              /\ selected' = [selected EXCEPT ![g] = r.conn.selected]
              /\ mailbox' = [mailbox EXCEPT ![g] = r.conn.mailbox]
              /\ ActorGoes(g, "top")
  BY DEF Attempt
<1>2. CASE Disconnect(g) /\ UNCHANGED actorAt
  BY <1>0, <1>2, GoingKeeps DEF Running
<1>3. ConnIsSound(r.conn)
  <2>1. a \in BOOLEAN /\ (b # "none" => a /\ c \in {b, "refused"})
    BY DEF BeliefIsSound, ActorTypes
  <2> HIDE DEF f, a, b, c, ActorInv
  <2> QED BY ONLY <1>1, <2>1, AttemptConn
<1> DEFINE x == r.conn.session
           y == r.conn.selected
           z == r.conn.mailbox
<1>4. x \in BOOLEAN /\ (y # "none" => x /\ z \in {y, "refused"})
  BY <1>3 DEF ConnIsSound
<1>5. CASE ~retry_decision(r.how, try[g])
  <2>1. /\ session' = [session EXCEPT ![g] = x]
        /\ selected' = [selected EXCEPT ![g] = y]
        /\ mailbox' = [mailbox EXCEPT ![g] = z]
        /\ ActorGoes(g, "top")
    BY <1>1, <1>5
  <2> HIDE DEF x, y, z
  <2>2. ActorTypes'
    BY <1>0, <1>4, <2>1 DEF ActorTypes, ActorGoes, Doings
  <2>3. OneActorPerAccount'
    <3>1. \A h \in Actor : Running(h)' => Running(h)
      BY <1>0, <2>1 DEF ActorTypes, ActorGoes, Running
    <3> QED BY <1>0, <3>1 DEF OneActorPerAccount
  <2>4. BeliefIsSound'
    <3>1. \A h \in Actor :
            /\ session'[h] = IF h = g THEN x ELSE session[h]
            /\ selected'[h] = IF h = g THEN y ELSE selected[h]
            /\ mailbox'[h] = IF h = g THEN z ELSE mailbox[h]
            /\ actorAt'[h] = IF h = g THEN "top" ELSE actorAt[h]
      BY <2>1 DEF ActorTypes, ActorGoes
    <3> QED BY <1>4, <3>1 DEF BeliefIsSound
  <2> QED BY <2>2, <2>3, <2>4
<1> QED BY <1>1, <1>2, <1>5

LEMMA ShutdownKeeps ==
    ASSUME ActorInv, ShutdownActors
    PROVE  ActorInv'
<1> USE DEF ActorInv
<1>1. CASE handle = NoActor
  BY <1>1 DEF ShutdownActors, actorVars, ActorTypes, OneActorPerAccount, BeliefIsSound, Running
<1>2. CASE handle # NoActor
  <2>1. /\ handle' = NoActor /\ ActorGoes(handle, "gone") /\ Disconnect(handle)
        /\ handle \in Actor
    BY <1>2 DEF ShutdownActors, ActorTypes
  <2>2. ActorTypes'
    BY <2>1 DEF ActorTypes, ActorGoes, Disconnect, Doings
  <2>3. OneActorPerAccount'
    BY <2>1 DEF ActorTypes, ActorGoes, OneActorPerAccount, Running
  <2>4. BeliefIsSound'
    BY <2>1 DEF ActorTypes, ActorGoes, Disconnect, BeliefIsSound
  <2> QED BY <2>2, <2>3, <2>4
<1> QED BY <1>1, <1>2

(* What leaves the actors where they are.                                  *)
LEMMA OthersKeep ==
    ASSUME ActorInv, UNCHANGED <<handle, actorAt, session, selected, mailbox>>
    PROVE  ActorInv'
  BY DEF ActorInv, ActorTypes, OneActorPerAccount, BeliefIsSound, Running

LEMMA ActorsGoOn == ActorInv /\ [SessNext]_sessVars => ActorInv'
<1> SUFFICES ASSUME ActorInv, [SessNext]_sessVars PROVE ActorInv'
  OBVIOUS
<1>1. ASSUME NEW c \in Client, ClientStep(c) PROVE ActorInv'
  BY <1>1, SpawnKeeps, OthersKeep
     DEF ClientStep, FindActor, SendCommand, RawDone, actorVars
<1>2. ASSUME NEW g \in Actor,
             \/ ActorStep(g) \/ EnterIdle(g) \/ LeaveIdle(g)
             \/ Unanswered(g) \/ Answered(g)
      PROVE  ActorInv'
  <2>1. CASE Yield(g) \/ SetIdleFolder(g) \/ TakeCommand(g) \/ LeaveIdle(g)
    <3>1. /\ Running(g) /\ UNCHANGED handle /\ (HasSession(g) \/ Disconnect(g))
          /\ \E d \in {"top", "notify", "busy"} : ActorGoes(g, d)
      BY <2>1 DEF Yield, SetIdleFolder, TakeCommand, LeaveIdle, Listening, Running, Recover
    <3>2. actorAt' = actorAt => actorAt[g] \notin {"idle", "mute"}
      BY <3>1 DEF ActorInv, ActorTypes, ActorGoes
    <3>3. actorAt' = actorAt => HasSession(g) \/ actorAt[g] \notin {"idle", "mute"}
      BY <3>2
    <3> QED BY <3>1, <3>3, GoingKeeps
  <2>2. CASE Notify(g)
    BY <2>2, GoingKeeps DEF Notify, Running, HasSession
  <2> QED BY <1>2, <2>1, <2>2, AttemptKeeps, IdleKeeps, MuteKeeps DEF ActorStep
<1>3. CASE Arrive
  <2>1. CASE UNCHANGED <<actorAt, session, selected, mailbox>>
    BY <1>3, <2>1, OthersKeep DEF Arrive
  <2>2. CASE ~UNCHANGED <<actorAt, session, selected, mailbox>>
    <3>1. PICK g \in Actor : actorAt[g] = "idle" /\ ActorGoes(g, "notify") /\ Recover(g)
      BY <1>3, <2>2 DEF Arrive
    <3>2. HasSession(g) \/ Disconnect(g)
      BY <3>1 DEF Recover
    <3>3. actorAt' # actorAt
      BY <3>1 DEF ActorInv, ActorTypes, ActorGoes
    <3>4. UNCHANGED handle /\ Running(g)
      BY <1>3, <3>1 DEF Arrive, Running
    <3> QED BY <3>1, <3>2, <3>3, <3>4, GoingKeeps
  <2> QED BY <2>1, <2>2
<1>4. ASSUME NEW w \in SyncWorker,
             SpawnWorker(w) \/ RoundEnds(w) \/ PollTick(w) \/ TakePush(w) \/ WorkerExits(w)
      PROVE  ActorInv'
  BY <1>4, OthersKeep DEF SpawnWorker, RoundEnds, PollTick, TakePush, WorkerExits, actorVars
<1>5. CASE TellWorkers \/ UNCHANGED sessVars
  BY <1>5, OthersKeep DEF TellWorkers, sessVars, actorVars
<1>6. ASSUME NEW c \in Readers, NEW call \in Fetches, BeginRead(c, call) PROVE ActorInv'
  BY <1>6, OthersKeep DEF BeginRead, actorVars
<1> QED BY <1>1, <1>2, <1>3, <1>4, <1>5, <1>6, ShutdownKeeps DEF SessNext

LEMMA ActorsHold == SessSpec => []ActorInv
  BY ActorsBegin, ActorsGoOn, PTL DEF SessSpec

(* However many tasks find no actor at once and whenever stop_all drains   *)
(* the map, at most one actor runs and it is the one in the map.           *)
THEOREM OneConnection == SessSpec => []OneActorPerAccount
<1>1. ActorInv => OneActorPerAccount
  BY DEF ActorInv
<1> QED BY <1>1, ActorsHold, PTL

(* An actor that IDLEs has the inbox selected on the server, unless the    *)
(* server has refused a SELECT since.                                      *)
THEOREM IdleIsOnInbox == SessSpec => []IdleWatchesInbox
<1>1. ActorInv => IdleWatchesInbox
  BY DEF ActorInv, BeliefIsSound, IdleWatchesInbox
<1> QED BY <1>1, ActorsHold, PTL

-----------------------------------------------------------------------------
(* The session's types.                                                    *)

(* Of the readers none watches.                                            *)
Calls(c) == IF c \in Readers THEN SessCall \ {"watch"} ELSE SessCall
Call == [from : Client, call : SessCall]
Asks(m) == m.call # "watch"

(* Who has begun a call has it at the head of its plan.                    *)
PlansFit ==
    \A c \in Client :
        /\ plan[c] \in Seq(Calls(c))
        /\ clientAt[c] \in {"spawn", "send", "wait", "raw"} => plan[c] # <<>>
        /\ clientAt[c] = "send" => via[c] \in Actor

(* A command in a channel is one that its sender waits for, and the only   *)
(* one of its sender; start_idle's, which nobody waits for, is a worker's. *)
InboxFits(g) ==
    \A i \in 1..Len(inbox[g]) :
        /\ ~Asks(inbox[g][i]) => inbox[g][i].from \in SyncWorker
        /\ Asks(inbox[g][i]) =>
             /\ clientAt[inbox[g][i].from] = "wait" /\ via[inbox[g][i].from] = g
             /\ \A j \in 1..Len(inbox[g]) :
                  Asks(inbox[g][j]) /\ inbox[g][j].from = inbox[g][i].from => i = j
InboxesFit == \A g \in Actor : InboxFits(g)

(* A busy actor runs the command at the head of its channel.               *)
BusyFit ==
    \A g \in Actor : actorAt[g] = "busy" =>
        inbox[g] # <<>> /\ Head(inbox[g]).call \in Folder \cup {"list"}

SessInv == SessTypeOK /\ PlansFit /\ InboxesFit /\ BusyFit

ActorSide ==
    /\ handle \in Actor \cup {NoActor}
    /\ actorAt \in [Actor -> Doings]
    /\ session \in [Actor -> BOOLEAN]
    /\ selected \in [Actor -> Folder \cup {"none"}]
    /\ mailbox \in [Actor -> Folder \cup {"none", "refused"}]
ChannelSide ==
    /\ watching \in [Actor -> SyncWorker \cup {NoWorker}]
    /\ inbox \in [Actor -> Seq(Call)]
    /\ try \in [Actor -> 1..2]
    /\ pushes \in [SyncWorker -> 0..PushCap]
ClientSide ==
    /\ clientAt \in [Client -> {"unborn", "free", "spawn", "send", "wait", "raw",
                                "select", "unserved", "off"}]
    /\ plan \in [Client -> Seq(SessCall)]
    /\ via \in [Client -> Actor \cup {NoActor}]
BoundSide ==
    /\ told \subseteq SyncWorker /\ halting \in BOOLEAN
    /\ reads \in 0..MaxReads /\ halts \in 0..MaxStops /\ drops \in 0..MaxDrops

LEMMA FourSides == SessTypeOK <=> ActorSide /\ ChannelSide /\ ClientSide /\ BoundSide
  BY DEF SessTypeOK, ActorSide, ChannelSide, ClientSide, BoundSide, Call, Doings

LEMMA NoReaderWorks == \A w \in SyncWorker : w \notin Readers /\ Calls(w) = SessCall
  BY SessionAssumption DEF SyncWorker, Calls

LEMMA Shorter ==
    ASSUME NEW S, NEW s \in Seq(S), s # <<>>
    PROVE  /\ Head(s) \in S /\ Head(s) = s[1] /\ Len(s) \in Nat /\ Len(s) > 0
           /\ Tail(s) \in Seq(S) /\ Len(Tail(s)) = Len(s) - 1
           /\ \A i \in 1..Len(Tail(s)) : i + 1 \in 1..Len(s) /\ Tail(s)[i] = s[i + 1]
<1>1. Len(s) \in Nat /\ Len(s) > 0
  BY EmptySeq, LenProperties
<1>2. /\ Head(s) \in S /\ Head(s) = s[1] /\ Tail(s) \in Seq(S)
      /\ Len(Tail(s)) = Len(s) - 1
  BY HeadTailProperties, <1>1
<1>3. \A i \in 1..Len(Tail(s)) : i + 1 \in 1..Len(s) /\ Tail(s)[i] = s[i + 1]
  BY HeadTailProperties, <1>1, <1>2
<1> QED BY <1>1, <1>2, <1>3

LEMMA Longer ==
    ASSUME NEW S, NEW s \in Seq(S), NEW m \in S
    PROVE  /\ Append(s, m) \in Seq(S) /\ Append(s, m) # <<>>
           /\ Len(s) \in Nat /\ Len(Append(s, m)) = Len(s) + 1
           /\ \A i \in 1..Len(s) + 1 :
                Append(s, m)[i] = IF i = Len(s) + 1 THEN m ELSE s[i]
           /\ s # <<>> => Head(Append(s, m)) = Head(s)
<1>1. Len(s) \in Nat
  BY LenProperties
<1>2. /\ Append(s, m) \in Seq(S) /\ Append(s, m) # <<>>
      /\ Len(Append(s, m)) = Len(s) + 1
      /\ \A i \in 1..Len(s) + 1 :
                Append(s, m)[i] = IF i = Len(s) + 1 THEN m ELSE s[i]
  BY AppendProperties, <1>1
<1>3. ASSUME s # <<>> PROVE Head(Append(s, m)) = Head(s)
  <2>1. Head(s) = s[1] /\ Len(s) > 0
    BY <1>3, Shorter
  <2>2. Head(Append(s, m)) = Append(s, m)[1]
    BY <1>2, Shorter
  <2> QED BY <1>1, <1>2, <2>1, <2>2
<1> QED BY <1>1, <1>2, <1>3

LEMMA ReturnedFits ==
    ASSUME PlansFit, ClientSide, NEW S \in SUBSET Client, \A c \in S : plan[c] # <<>>,
           Returned(S)
    PROVE  PlansFit' /\ ClientSide'
<1>1. \A c \in S : Tail(plan[c]) \in Seq(Calls(c)) /\ Tail(plan[c]) \in Seq(SessCall)
  BY Shorter DEF PlansFit, ClientSide
<1>2. PlansFit'
  BY <1>1 DEF Returned, PlansFit, ClientSide
<1>3. ClientSide'
  BY <1>1 DEF Returned, ClientSide
<1> QED BY <1>2, <1>3

LEMMA RawFits ==
    ASSUME PlansFit, ClientSide, NEW S \in SUBSET Client, \A c \in S : plan[c] # <<>>,
           GoesRaw(S)
    PROVE  PlansFit' /\ ClientSide'
<1>1. PlansFit'
  BY DEF GoesRaw, PlansFit, ClientSide
<1>2. ClientSide'
  BY DEF GoesRaw, ClientSide
<1> QED BY <1>1, <1>2

(* The clients that wait go on waiting.                                    *)
StillWaits(c) == clientAt[c] = "wait" => clientAt'[c] = "wait" /\ via'[c] = via[c]

LEMMA InboxesKept ==
    ASSUME InboxesFit, ChannelSide, inbox' = inbox, \A c \in Client : StillWaits(c)
    PROVE  InboxesFit'
<1> SUFFICES ASSUME NEW g \in Actor, NEW i \in 1..Len(inbox[g])
             PROVE  /\ ~Asks(inbox[g][i]) => inbox[g][i].from \in SyncWorker
                    /\ Asks(inbox[g][i]) =>
                         /\ clientAt'[inbox[g][i].from] = "wait"
                         /\ via'[inbox[g][i].from] = g
                         /\ \A j \in 1..Len(inbox[g]) :
                              Asks(inbox[g][j]) /\ inbox[g][j].from = inbox[g][i].from
                                => i = j
  BY DEF InboxesFit, InboxFits, Asks
<1>1. inbox[g][i] \in Call
  BY ElementOfSeq DEF ChannelSide
<1>2. inbox[g][i].from \in Client
  BY <1>1 DEF Call
<1> QED BY <1>2 DEF InboxesFit, InboxFits, StillWaits

(* A channel whose contents are known.                                     *)
LEMMA ChannelHolds ==
    ASSUME NEW g \in Actor, NEW u, inbox'[g] = u,
           \A i \in 1..Len(u) :
             /\ ~Asks(u[i]) => u[i].from \in SyncWorker
             /\ Asks(u[i]) =>
                  /\ clientAt'[u[i].from] = "wait" /\ via'[u[i].from] = g
                  /\ \A j \in 1..Len(u) :
                       Asks(u[j]) /\ u[j].from = u[i].from => i = j
    PROVE  InboxFits(g)'
  BY DEF InboxFits, Asks

(* The head of a channel is taken, and if its sender waits it is answered. *)
LEMMA HeadTaken ==
    ASSUME InboxesFit, ChannelSide, NEW g \in Actor, inbox[g] # <<>>,
           inbox' = [inbox EXCEPT ![g] = Tail(@)],
           \A c \in Client : \/ StillWaits(c)
                             \/ Asks(Head(inbox[g])) /\ c = Head(inbox[g]).from
    PROVE  InboxesFit' /\ inbox' \in [Actor -> Seq(Call)]
<1> DEFINE s == inbox[g]
           u == Tail(s)
<1>1. s \in Seq(Call) /\ inbox \in [Actor -> Seq(Call)]
  BY DEF ChannelSide
<1>2. /\ Head(s) \in Call /\ Head(s) = s[1] /\ Len(s) \in Nat /\ Len(s) > 0
      /\ u \in Seq(Call) /\ Len(u) = Len(s) - 1
      /\ \A i \in 1..Len(u) : i + 1 \in 1..Len(s) /\ u[i] = s[i + 1]
  BY <1>1, Shorter
<1>3. /\ inbox'[g] = u /\ \A h \in Actor \ {g} : inbox'[h] = inbox[h]
      /\ inbox' \in [Actor -> Seq(Call)]
  BY <1>1, <1>2
<1> HIDE DEF u
<1>4. Asks(s[1]) => clientAt[s[1].from] = "wait" /\ via[s[1].from] = g
  BY <1>2 DEF InboxesFit, InboxFits
<1>5. ASSUME NEW h \in Actor, h # g PROVE InboxFits(h)'
  <2> SUFFICES ASSUME NEW i \in 1..Len(inbox[h])
               PROVE  /\ ~Asks(inbox[h][i]) => inbox[h][i].from \in SyncWorker
                      /\ Asks(inbox[h][i]) =>
                           /\ clientAt'[inbox[h][i].from] = "wait"
                           /\ via'[inbox[h][i].from] = h
                           /\ \A j \in 1..Len(inbox[h]) :
                                Asks(inbox[h][j]) /\ inbox[h][j].from = inbox[h][i].from
                                  => i = j
    BY <1>3, <1>5 DEF InboxFits, Asks
  <2>1. inbox[h][i] \in Call
    BY ElementOfSeq, <1>1
  <2>2. inbox[h][i].from \in Client
    BY <2>1 DEF Call
  <2>3. Asks(inbox[h][i]) => via[inbox[h][i].from] = h
    BY DEF InboxesFit, InboxFits
  <2>4. Asks(inbox[h][i]) => StillWaits(inbox[h][i].from)
    BY <1>2, <1>4, <1>5, <2>2, <2>3
  <2> QED BY <2>4 DEF InboxesFit, InboxFits, StillWaits
<1>6. InboxFits(g)'
  <2>0. inbox'[g] = u
    BY <1>3
  <2> SUFFICES ASSUME NEW i \in 1..Len(u)
               PROVE  /\ ~Asks(u[i]) => u[i].from \in SyncWorker
                      /\ Asks(u[i]) =>
                           /\ clientAt'[u[i].from] = "wait"
                           /\ via'[u[i].from] = g
                           /\ \A j \in 1..Len(u) :
                                Asks(u[j]) /\ u[j].from = u[i].from
                                  => i = j
    BY <2>0, ChannelHolds
  <2>1. i + 1 \in 1..Len(s) /\ u[i] = s[i + 1] /\ 1 \in 1..Len(s) /\ i + 1 # 1
    BY <1>2
  <2>2. s[i + 1] \in Call
    BY <2>1, ElementOfSeq, <1>1
  <2>3. s[i + 1].from \in Client
    BY <2>2 DEF Call
  <2>4. Asks(s[i + 1]) => ~(Asks(s[1]) /\ s[i + 1].from = s[1].from)
    BY <2>1 DEF InboxesFit, InboxFits
  <2>5. Asks(s[i + 1]) => StillWaits(s[i + 1].from)
    BY <1>2, <2>3, <2>4
  <2>6. \A j \in 1..Len(u) :
            /\ j \in Nat /\ i \in Nat /\ j + 1 \in 1..Len(s) /\ u[j] = s[j + 1]
            /\ i + 1 = j + 1 => i = j
    BY <1>2
  <2>7. ASSUME Asks(s[i + 1]), NEW j \in 1..Len(u), Asks(s[j + 1]),
               s[j + 1].from = s[i + 1].from
        PROVE  i = j
    BY <2>1, <2>6, <2>7 DEF InboxesFit, InboxFits
  <2>8. ~Asks(s[i + 1]) => s[i + 1].from \in SyncWorker
    BY <2>1 DEF InboxesFit, InboxFits
  <2>9. Asks(s[i + 1]) => clientAt'[s[i + 1].from] = "wait" /\ via'[s[i + 1].from] = g
    BY <2>1, <2>5 DEF InboxesFit, InboxFits, StillWaits
  <2> QED BY <2>1, <2>6, <2>7, <2>8, <2>9
<1> QED BY <1>3, <1>5, <1>6 DEF InboxesFit

(* Actors and channels are left alone, and so is who waits.                *)
LEMMA ClientMoves ==
    ASSUME SessInv, UNCHANGED <<handle, actorVars>>, pushes' \in [SyncWorker -> 0..PushCap],
           PlansFit', ClientSide', BoundSide', \A c \in Client : StillWaits(c)
    PROVE  SessInv'
<1>1. ActorSide' /\ ChannelSide'
  BY FourSides DEF SessInv, ActorSide, ChannelSide, actorVars
<1>2. InboxesFit'
  BY FourSides, InboxesKept DEF SessInv, actorVars
<1>3. BusyFit'
  BY DEF SessInv, BusyFit, actorVars
<1>4. SessTypeOK'
  BY <1>1, FourSides DEF SessTypeOK, ActorSide, ChannelSide, ClientSide, BoundSide, Call, Doings
<1> QED BY <1>2, <1>3, <1>4 DEF SessInv

LEMMA BeginReadStep ==
    ASSUME SessInv, NEW c \in Readers, NEW call \in Fetches, BeginRead(c, call)
    PROVE  SessInv'
<1>1. c \in Client /\ call \in Calls(c) /\ call \in SessCall
  BY SessionAssumption DEF Client, Calls, SessCall, Folder
<1>2. ActorSide /\ ChannelSide /\ ClientSide /\ BoundSide
  BY FourSides DEF SessInv
<1>3. <<call>> \in Seq(Calls(c)) /\ <<call>> \in Seq(SessCall) /\ <<call>> # <<>>
  BY <1>1
<1>4. PlansFit'
  BY <1>1, <1>2, <1>3 DEF BeginRead, SessInv, PlansFit, ClientSide
<1>5. ClientSide'
  BY <1>1, <1>2, <1>3 DEF BeginRead, ClientSide
<1>6. BoundSide'
  BY <1>2, SessionAssumption DEF BeginRead, BoundSide
<1>7. pushes' \in [SyncWorker -> 0..PushCap] /\ \A d \in Client : StillWaits(d)
  BY <1>2 DEF BeginRead, ChannelSide, StillWaits
<1> QED BY <1>4, <1>5, <1>6, <1>7, ClientMoves DEF BeginRead

LEMMA FindActorStep ==
    ASSUME SessInv, NEW c \in Client, FindActor(c)
    PROVE  SessInv'
<1>1. ActorSide /\ ChannelSide /\ ClientSide /\ BoundSide
  BY FourSides DEF SessInv
<1>2. /\ clientAt[c] = "free" /\ plan[c] # <<>> /\ plan' = plan
      /\ via' = [via EXCEPT ![c] = handle]
      /\ \E at \in {"send", "raw", "spawn"} :
           /\ clientAt' = [clientAt EXCEPT ![c] = at]
           /\ at = "send" => handle \in Actor
  <2>1. CASE handle # NoActor
    <3>1. clientAt' = [clientAt EXCEPT ![c] = "send"] /\ handle \in Actor
      BY <1>1, <2>1 DEF FindActor, ActorSide
    <3> QED BY <3>1 DEF FindActor
  <2>2. CASE handle = NoActor
    <3>1. clientAt' = [clientAt EXCEPT ![c] = IF Doing(c) = "raw" THEN "raw" ELSE "spawn"]
      BY <2>2 DEF FindActor
    <3>2. (IF Doing(c) = "raw" THEN "raw" ELSE "spawn") \in {"raw", "spawn"}
      OBVIOUS
    <3> QED BY <3>1, <3>2 DEF FindActor
  <2> QED BY <2>1, <2>2
<1>3. PlansFit'
  BY <1>1, <1>2 DEF SessInv, PlansFit, ClientSide
<1>4. ClientSide'
  BY <1>1, <1>2 DEF ClientSide, ActorSide
<1>5. BoundSide' /\ pushes' \in [SyncWorker -> 0..PushCap]
  BY <1>1 DEF FindActor, BoundSide, sessBounds, ChannelSide
<1>6. \A d \in Client : StillWaits(d)
  BY <1>1, <1>2 DEF ClientSide, StillWaits
<1> QED BY <1>3, <1>4, <1>5, <1>6, ClientMoves DEF FindActor

LEMMA SpawnActorStep ==
    ASSUME SessInv, NEW c \in Client, SpawnActor(c)
    PROVE  SessInv'
<1>1. ActorSide /\ ChannelSide /\ ClientSide /\ BoundSide
  BY FourSides DEF SessInv
<1>2. /\ clientAt[c] = "spawn" /\ clientAt' = [clientAt EXCEPT ![c] = "send"]
      /\ UNCHANGED <<session, selected, mailbox, watching, inbox, try, pushes,
                     plan, told, halting, sessBounds>>
  BY DEF SpawnActor
<1>3. PICK g \in Actor : /\ via' = [via EXCEPT ![c] = g] /\ handle' = g
                         /\ actorAt' = actorAt \/ actorAt' = [actorAt EXCEPT ![g] = "top"]
  BY <1>1 DEF SpawnActor, StillNone, ActorSide
<1>4. ActorSide'
  BY <1>1, <1>2, <1>3 DEF ActorSide, Doings
<1>5. ChannelSide' /\ BoundSide'
  BY <1>1, <1>2 DEF ChannelSide, BoundSide, sessBounds
<1>6. ClientSide'
  BY <1>1, <1>2, <1>3 DEF ClientSide
<1>7. PlansFit'
  BY <1>1, <1>2, <1>3 DEF SessInv, PlansFit, ClientSide
<1>8. \A d \in Client : StillWaits(d)
  BY <1>1, <1>2, <1>3 DEF ClientSide, StillWaits
<1>9. InboxesFit'
  BY <1>1, <1>2, <1>8, InboxesKept DEF SessInv
<1>10. BusyFit'
  BY <1>1, <1>2, <1>3 DEF SessInv, BusyFit, ActorSide
<1>11. SessTypeOK'
  BY <1>4, <1>5, <1>6 DEF SessTypeOK, ActorSide, ChannelSide, ClientSide, BoundSide, Call, Doings
<1> QED BY <1>7, <1>9, <1>10, <1>11 DEF SessInv

LEMMA RawDoneStep ==
    ASSUME SessInv, NEW c \in Client, RawDone(c)
    PROVE  SessInv'
<1>1. ActorSide /\ ChannelSide /\ ClientSide /\ BoundSide
  BY FourSides DEF SessInv
<1>2. plan[c] # <<>> /\ Returned({c}) /\ clientAt[c] = "raw"
  BY DEF RawDone, SessInv, PlansFit
<1>3. PlansFit' /\ ClientSide'
  <2>1. {c} \in SUBSET Client /\ \A d \in {c} : plan[d] # <<>>
    BY <1>2
  <2> QED BY <1>1, <1>2, <2>1, ReturnedFits DEF SessInv
<1>4. BoundSide' /\ pushes' \in [SyncWorker -> 0..PushCap]
  BY <1>1 DEF RawDone, BoundSide, sessBounds, ChannelSide
<1>5. \A d \in Client : StillWaits(d)
  BY <1>2 DEF Returned, StillWaits
<1> QED BY <1>3, <1>4, <1>5, ClientMoves DEF RawDone

(* Every failure counts.                                                   *)
LEMMA DropsBounded ==
    ASSUME BoundSide, UNCHANGED <<told, halting>>, Drop1 \/ UNCHANGED sessBounds
    PROVE  BoundSide'
<1>1. MaxDrops \in Nat
  BY SessionAssumption
<1> QED BY <1>1 DEF BoundSide, Drop1, sessBounds

(* The worker's own steps, which begin a round or end one.                 *)
LEMMA WorkerStep ==
    ASSUME SessInv, NEW w \in SyncWorker,
           \/ SpawnWorker(w) \/ RoundEnds(w) \/ PollTick(w) \/ TakePush(w)
           \/ WorkerExits(w)
    PROVE  SessInv'
<1>1. ActorSide /\ ChannelSide /\ ClientSide /\ BoundSide
  BY FourSides DEF SessInv
<1>2. w \in Client /\ Calls(w) = SessCall
  BY NoReaderWorks DEF Client
<1>3. /\ UNCHANGED <<handle, actorVars, via, told, halting>>
      /\ Drop1 \/ UNCHANGED sessBounds
      /\ clientAt[w] # "wait"
      /\ \E at \in {"free", "select", "unserved", "off"} : clientAt' = [clientAt EXCEPT ![w] = at]
  BY DEF SpawnWorker, RoundEnds, PollTick, TakePush, WorkerExits
<1>4. plan' = plan \/ \E p \in Seq(SessCall) : plan' = [plan EXCEPT ![w] = p]
  <2>1. \A round \in PollRounds, watch \in {<<>>, <<"watch">>} :
            round \in Seq(SessCall) /\ round \o watch \in Seq(SessCall)
    <3> DEFINE S == SessCall
    <3>0. {"list", "INBOX", "Archive", "raw", "watch"} \subseteq S
      BY DEF SessCall, Folder
    <3> HIDE DEF S
    <3>1. /\ <<"list", "INBOX", "Archive">> \in Seq(S)
          /\ <<"list", "INBOX", "raw", "INBOX">> \in Seq(S)
      BY <3>0
    <3>2. <<>> \in Seq(S) /\ <<"watch">> \in Seq(S)
      BY <3>0
    <3>3. \A round \in PollRounds : round \in Seq(S)
      BY <3>1 DEF PollRounds
    <3>4. \A watch \in {<<>>, <<"watch">>} : watch \in Seq(S)
      BY <3>2
    <3>5. \A round \in PollRounds, watch \in {<<>>, <<"watch">>} :
            round \in Seq(S) /\ round \o watch \in Seq(S)
      BY <3>3, <3>4, ConcatProperties
    <3> QED BY <3>5 DEF S
  <2>2. <<"INBOX">> \in Seq(SessCall)
    BY DEF SessCall, Folder
  <2>3. CASE SpawnWorker(w)
    BY <2>1, <2>3 DEF SpawnWorker
  <2>4. CASE PollTick(w)
    BY <2>1, <2>4 DEF PollTick
  <2>5. CASE TakePush(w)
    BY <2>2, <2>5 DEF TakePush
  <2>6. CASE RoundEnds(w) \/ WorkerExits(w)
    BY <2>6 DEF RoundEnds, WorkerExits
  <2> QED BY <2>3, <2>4, <2>5, <2>6
<1>5. pushes' \in [SyncWorker -> 0..PushCap]
  <2>1. pushes \in [SyncWorker -> 0..PushCap] /\ PushCap \in Nat
    BY <1>1, SessionAssumption DEF ChannelSide
  <2>2. CASE TakePush(w)
    <3>1. pushes[w] \in 0..PushCap /\ pushes[w] > 0
      BY <2>1, <2>2 DEF TakePush
    <3>2. pushes[w] - 1 \in 0..PushCap
      BY <2>1, <3>1
    <3> QED BY <2>1, <2>2, <3>2 DEF TakePush
  <2>3. CASE WorkerExits(w)
    BY <2>1, <2>3 DEF WorkerExits
  <2>4. CASE SpawnWorker(w) \/ RoundEnds(w) \/ PollTick(w)
    BY <2>1, <2>4 DEF SpawnWorker, RoundEnds, PollTick
  <2> QED BY <2>2, <2>3, <2>4
<1>6. PlansFit'
  BY <1>1, <1>2, <1>3, <1>4 DEF SessInv, PlansFit, ClientSide
<1>7. ClientSide'
  BY <1>1, <1>2, <1>3, <1>4 DEF ClientSide
<1>8. BoundSide'
  BY <1>1, <1>3, DropsBounded
<1>9. \A d \in Client : StillWaits(d)
  BY <1>1, <1>3 DEF ClientSide, StillWaits
<1> QED BY <1>3, <1>5, <1>6, <1>7, <1>8, <1>9, ClientMoves

(* A command reaches a running actor's channel.                            *)
LEMMA SendCommandStep ==
    ASSUME SessInv, NEW c \in Client, SendCommand(c)
    PROVE  SessInv'
<1> DEFINE m == [from |-> c, call |-> Doing(c)]
<1>1. ActorSide /\ ChannelSide /\ ClientSide /\ BoundSide
  BY FourSides DEF SessInv
<1>0. via[c] \in Actor
  BY DEF SendCommand, SessInv, PlansFit
<1> PICK g \in Actor : g = via[c]
  BY <1>0
<1>2. /\ clientAt[c] = "send" /\ plan[c] # <<>> /\ g = via[c]
      /\ UNCHANGED <<handle, actorAt, session, selected, mailbox, watching, try,
                     pushes, told, halting, sessBounds>>
  BY DEF SendCommand, SessInv, PlansFit
<1>3. m \in Call /\ (Doing(c) = "watch" => c \in SyncWorker)
  <2>1. plan[c] \in Seq(Calls(c)) /\ plan[c] \in Seq(SessCall)
    BY <1>1 DEF SessInv, PlansFit, ClientSide
  <2>2. Doing(c) \in Calls(c) /\ Doing(c) \in SessCall
    BY <1>2, <2>1, Shorter DEF Doing
  <2> QED BY <2>2 DEF Call, Calls, Client
<1>4. \/ /\ inbox' = inbox /\ (Returned({c}) \/ GoesRaw({c}))
      \/ /\ inbox' = [inbox EXCEPT ![g] = Append(@, m)]
         /\ \/ Doing(c) = "watch" /\ Returned({c})
            \/ /\ Doing(c) # "watch" /\ clientAt' = [clientAt EXCEPT ![c] = "wait"]
               /\ UNCHANGED <<plan, via>>
  <2>1. CASE Running(g)
    BY <2>1 DEF SendCommand
  <2>2. CASE ~Running(g) /\ Doing(c) = "raw"
    <3>1. GoesRaw({c})
      BY <2>2 DEF SendCommand
    <3> QED BY <2>2, <3>1 DEF SendCommand
  <2>3. CASE ~Running(g) /\ Doing(c) # "raw"
    <3>1. Returned({c})
      BY <2>3 DEF SendCommand
    <3> QED BY <2>3, <3>1 DEF SendCommand
  <2> QED BY <2>1, <2>2, <2>3
<1>5. \A d \in Client : StillWaits(d)
  BY <1>1, <1>2, <1>4 DEF Returned, GoesRaw, ClientSide, StillWaits
<1>6. PlansFit' /\ ClientSide'
  <2>1. {c} \in SUBSET Client /\ \A d \in {c} : plan[d] # <<>>
    BY <1>2
  <2>2. CASE Returned({c})
    BY <1>1, <2>1, <2>2, ReturnedFits DEF SessInv
  <2>3. CASE GoesRaw({c})
    BY <1>1, <2>1, <2>3, RawFits DEF SessInv
  <2>4. CASE clientAt' = [clientAt EXCEPT ![c] = "wait"] /\ UNCHANGED <<plan, via>>
    BY <1>1, <1>2, <2>4 DEF SessInv, PlansFit, ClientSide
  <2> QED BY <1>4, <2>2, <2>3, <2>4
<1>7. ActorSide' /\ BoundSide' /\ BusyFit' /\ InboxesFit' /\ inbox' \in [Actor -> Seq(Call)]
  <2>1. ActorSide' /\ BoundSide'
    BY <1>1, <1>2 DEF ActorSide, BoundSide, sessBounds
  <2>2. CASE inbox' = inbox
    <3>1. InboxesFit' /\ inbox' \in [Actor -> Seq(Call)]
      BY <1>1, <1>5, <2>2, InboxesKept DEF SessInv, ChannelSide
    <3> QED BY <1>2, <2>1, <2>2, <3>1 DEF SessInv, BusyFit
  <2>3. CASE /\ inbox' = [inbox EXCEPT ![g] = Append(@, m)]
             /\ \/ Doing(c) = "watch" /\ Returned({c})
                \/ /\ Doing(c) # "watch" /\ clientAt' = [clientAt EXCEPT ![c] = "wait"]
                   /\ UNCHANGED <<plan, via>>
    <3> DEFINE s == inbox[g]
               e == Append(s, m)
    <3>1. s \in Seq(Call) /\ inbox \in [Actor -> Seq(Call)]
      BY <1>1, <1>2 DEF ChannelSide
    <3>2. /\ e \in Seq(Call) /\ e # <<>>
          /\ Len(s) \in Nat /\ Len(e) = Len(s) + 1
          /\ \A i \in 1..Len(s) + 1 : e[i] = IF i = Len(s) + 1 THEN m ELSE s[i]
          /\ s # <<>> => Head(e) = Head(s)
      BY <1>3, <3>1, Longer
    <3>3. /\ inbox'[g] = e /\ \A h \in Actor \ {g} : inbox'[h] = inbox[h]
          /\ inbox' \in [Actor -> Seq(Call)]
      BY <1>2, <2>3, <3>1, <3>2
    <3> HIDE DEF e
    <3>4. BusyFit'
      BY <1>2, <3>2, <3>3 DEF SessInv, BusyFit
    <3>5. \A h \in Actor : \A i \in 1..Len(inbox[h]) :
            inbox[h][i].from \in Client /\ (Asks(inbox[h][i]) => inbox[h][i].from # c)
      <4> TAKE h \in Actor
      <4> TAKE i \in 1..Len(inbox[h])
      <4>1. inbox[h][i] \in Call
        BY <3>1, ElementOfSeq
      <4> QED BY <1>2, <4>1 DEF Call, SessInv, InboxesFit, InboxFits
    <3>6. ASSUME NEW h \in Actor, h # g PROVE InboxFits(h)'
      <4>1. inbox'[h] = inbox[h]
        BY <3>3, <3>6
      <4>2. \A i \in 1..Len(inbox[h]) : StillWaits(inbox[h][i].from)
        BY <1>5, <3>5
      <4> QED BY <4>1, <4>2 DEF SessInv, InboxesFit, InboxFits, Asks, StillWaits
    <3>7. InboxFits(g)'
      <4> SUFFICES ASSUME NEW i \in 1..Len(s) + 1
                   PROVE  /\ ~Asks(e[i]) => e[i].from \in SyncWorker
                          /\ Asks(e[i]) =>
                               /\ clientAt'[e[i].from] = "wait" /\ via'[e[i].from] = g
                               /\ \A j \in 1..Len(s) + 1 :
                                    Asks(e[j]) /\ e[j].from = e[i].from => i = j
        <5>1. inbox'[g] = e /\ Len(e) = Len(s) + 1
          BY <3>2, <3>3
        <5> HIDE DEF s
        <5> QED BY <5>1, ChannelHolds
      <4>1. \A j \in 1..Len(s) + 1 :
              \/ j \in 1..Len(s) /\ e[j] = s[j]
              \/ j = Len(s) + 1 /\ e[j] = m
        BY <3>2
      <4>2. m.from = c /\ (Asks(m) <=> Doing(c) # "watch")
        BY DEF Asks
      <4>3. CASE i \in 1..Len(s) /\ e[i] = s[i]
        <5>1. StillWaits(s[i].from)
          BY <1>5, <3>5, <4>3, <1>2
        <5>2. ~Asks(s[i]) => s[i].from \in SyncWorker
          BY <1>2, <4>3 DEF SessInv, InboxesFit, InboxFits
        <5>3. Asks(s[i]) => clientAt'[s[i].from] = "wait" /\ via'[s[i].from] = g
          BY <1>2, <4>3, <5>1 DEF SessInv, InboxesFit, InboxFits, StillWaits
        <5>4. ASSUME NEW j \in 1..Len(s) + 1, Asks(s[i]), Asks(e[j]), e[j].from = s[i].from
              PROVE  i = j
          <6>1. s[i].from # c
            BY <1>2, <3>5, <4>3, <5>4
          <6>2. j \in 1..Len(s) /\ e[j] = s[j]
            BY <4>1, <4>2, <5>4, <6>1
          <6> QED BY <1>2, <4>3, <5>4, <6>2 DEF SessInv, InboxesFit, InboxFits
        <5> QED BY <4>3, <5>2, <5>3, <5>4
      <4>4. CASE i = Len(s) + 1 /\ e[i] = m
        <5>1. ~Asks(m) => m.from \in SyncWorker
          BY <1>3, <4>2
        <5>2. Asks(m) => clientAt'[m.from] = "wait" /\ via'[m.from] = g
          BY <1>1, <2>3, <4>2 DEF ClientSide
        <5>3. ASSUME NEW j \in 1..Len(s) + 1, Asks(e[j]), e[j].from = m.from
              PROVE  i = j
          <6>1. ~(j \in 1..Len(s) /\ e[j] = s[j])
            BY <1>2, <3>5, <4>2, <5>3
          <6> QED BY <4>1, <4>4, <6>1
        <5> QED BY <4>4, <5>1, <5>2, <5>3
      <4> QED BY <4>1, <4>3, <4>4
    <3>8. InboxesFit'
      BY <3>6, <3>7 DEF InboxesFit
    <3> QED BY <2>1, <3>3, <3>4, <3>8
  <2> QED BY <1>4, <2>2, <2>3
<1>8. ChannelSide'
  BY <1>1, <1>2, <1>7 DEF ChannelSide
<1>9. SessTypeOK'
  BY <1>6, <1>7, <1>8 DEF SessTypeOK, ActorSide, ChannelSide, ClientSide, BoundSide, Call, Doings
<1> QED BY <1>6, <1>7, <1>9 DEF SessInv

Belief(g) == HasSession(g) \/ Disconnect(g)

LEMMA ActorsTyped ==
    ASSUME ActorSide, NEW g \in Actor, UNCHANGED handle, Belief(g),
           \/ actorAt' = actorAt
           \/ \E d \in {"top", "idle", "mute", "notify", "busy"} : ActorGoes(g, d)
    PROVE  ActorSide'
<1>1. /\ session' \in [Actor -> BOOLEAN]
      /\ selected' \in [Actor -> Folder \cup {"none"}]
      /\ mailbox' \in [Actor -> Folder \cup {"none", "refused"}]
  <2>1. CASE HasSession(g)
    BY <2>1 DEF HasSession, ActorSide
  <2>2. CASE Disconnect(g)
    BY <2>2 DEF Disconnect, ActorSide
  <2> QED BY <2>1, <2>2 DEF Belief
<1>2. actorAt' \in [Actor -> Doings]
  BY DEF ActorSide, ActorGoes, Doings
<1> QED BY <1>1, <1>2 DEF ActorSide

(* What an actor does by itself with its connection.                       *)
LEMMA ActorAlone ==
    ASSUME SessInv, NEW g \in Actor,
           \/ TakeCommand(g) \/ EnterIdle(g) \/ LeaveIdle(g) \/ Notify(g)
           \/ Unanswered(g) \/ Answered(g)
           \/ Arrive /\ ActorGoes(g, "notify") /\ Recover(g)
    PROVE  SessInv'
<1>1. ActorSide /\ ChannelSide /\ ClientSide /\ BoundSide
  BY FourSides DEF SessInv
<1>2. /\ UNCHANGED <<handle, watching, inbox, try, clientVars, told, halting>>
      /\ Drop1 \/ UNCHANGED sessBounds
  BY DEF TakeCommand, EnterIdle, LeaveIdle, Notify, Unanswered, Answered, Arrive, Recover
<1>3. ActorSide'
  <2>0. CASE Unanswered(g) \/ Answered(g)
    BY <1>1, <1>2, <2>0, ActorsTyped DEF Unanswered, Answered, Belief
  <2> SUFFICES ASSUME \/ TakeCommand(g) \/ EnterIdle(g) \/ LeaveIdle(g) \/ Notify(g)
                      \/ Arrive /\ ActorGoes(g, "notify") /\ Recover(g)
               PROVE  ActorSide'
    BY <2>0
  <2>1. CASE ActorGoes(g, "idle")
    <3>1. /\ actorAt' \in [Actor -> Doings]
          /\ UNCHANGED handle
      BY <1>1, <1>2, <2>1 DEF ActorSide, ActorGoes, Doings
    <3>2. ASSUME ~EnterIdle(g) PROVE FALSE
      <4>1. \E d \in {"top", "notify", "busy"} : ActorGoes(g, d)
        BY <3>2 DEF TakeCommand, LeaveIdle, Notify
      <4> QED BY <1>1, <2>1, <4>1 DEF ActorSide, ActorGoes
    <3>3. /\ ActorGoes(g, "idle") /\ UNCHANGED session
          /\ \/ UNCHANGED <<selected, mailbox>>
             \/ /\ selected' = [selected EXCEPT ![g] = "INBOX"]
                /\ mailbox' = [mailbox EXCEPT ![g] = "INBOX"]
         \/ Disconnect(g)
      BY <3>2 DEF EnterIdle
    <3>4. CASE Disconnect(g)
      BY <1>1, <3>1, <3>4 DEF ActorSide, Disconnect
    <3> QED BY <1>1, <3>1, <3>3, <3>4 DEF ActorSide, Folder
  <2>2. CASE ~ActorGoes(g, "idle")
    <3>1. /\ Belief(g)
          /\ \/ actorAt' = actorAt
             \/ \E d \in {"top", "idle", "notify", "busy"} : ActorGoes(g, d)
      <4>1. CASE \/ TakeCommand(g) \/ LeaveIdle(g)
                 \/ Arrive /\ ActorGoes(g, "notify") /\ Recover(g)
        BY <4>1 DEF TakeCommand, LeaveIdle, Recover, Belief
      <4>2. CASE EnterIdle(g)
        BY <2>2, <4>2 DEF EnterIdle, Belief
      <4>3. CASE Notify(g)
        BY <4>3 DEF Notify, HasSession, Belief
      <4> QED BY <4>1, <4>2, <4>3
    <3> QED BY <1>1, <1>2, <3>1, ActorsTyped
  <2> QED BY <2>1, <2>2
<1>4. pushes' \in [SyncWorker -> 0..PushCap]
  <2>1. pushes \in [SyncWorker -> 0..PushCap] /\ PushCap \in Nat
    BY <1>1, SessionAssumption DEF ChannelSide
  <2>2. CASE pushes' = pushes
    BY <2>1, <2>2
  <2>3. CASE Notify(g) /\ pushes' # pushes
    <3>1. /\ watching[g] \in SyncWorker /\ pushes[watching[g]] < PushCap
          /\ pushes' = [pushes EXCEPT ![watching[g]] = @ + 1]
      BY <2>3 DEF Notify, HasRoom, Notified, Living
    <3>2. pushes[watching[g]] + 1 \in 0..PushCap
      BY <2>1, <3>1
    <3> QED BY <2>1, <3>1, <3>2
  <2> QED BY <2>2, <2>3 DEF TakeCommand, EnterIdle, LeaveIdle, Unanswered, Answered, Arrive
<1>5. ChannelSide' /\ ClientSide' /\ BoundSide' /\ PlansFit'
  <2>1. ChannelSide' /\ ClientSide'
    BY <1>1, <1>2, <1>4 DEF ChannelSide, ClientSide, clientVars
  <2>2. BoundSide'
    BY <1>1, <1>2, DropsBounded
  <2>3. PlansFit'
    BY <1>2 DEF SessInv, PlansFit, clientVars
  <2> QED BY <2>1, <2>2, <2>3
<1>6. InboxesFit'
  <2>1. \A c \in Client : StillWaits(c)
    BY <1>2 DEF StillWaits, clientVars
  <2> QED BY <1>1, <1>2, <2>1, InboxesKept DEF SessInv
<1>7. BusyFit'
  <2>1. CASE TakeCommand(g)
    <3>1. /\ inbox[g] # <<>> /\ Head(inbox[g]).call \in Folder \cup {"list"}
          /\ actorAt' = [actorAt EXCEPT ![g] = "busy"]
      BY <2>1 DEF TakeCommand, Drained, ActorGoes
    <3> QED BY <1>1, <1>2, <3>1 DEF SessInv, BusyFit, ActorSide
  <2>2. CASE ~TakeCommand(g)
    <3>1. \/ actorAt' = actorAt
          \/ \E d \in {"top", "idle", "mute", "notify"} :
               actorAt' = [actorAt EXCEPT ![g] = d]
      BY <2>2 DEF EnterIdle, LeaveIdle, Notify, Unanswered, Answered, ActorGoes
    <3> QED BY <1>1, <1>2, <3>1 DEF SessInv, BusyFit, ActorSide
  <2> QED BY <2>1, <2>2
<1>8. SessTypeOK'
  BY <1>3, <1>5, FourSides DEF SessTypeOK, ActorSide, ChannelSide, ClientSide, BoundSide, Call, Doings
<1> QED BY <1>5, <1>6, <1>7, <1>8 DEF SessInv

(* A command is taken from the channel, and answered or carried out.       *)
LEMMA ActorAnswers ==
    ASSUME SessInv, NEW g \in Actor, Yield(g) \/ SetIdleFolder(g)
    PROVE  SessInv'
<1> DEFINE m == Head(inbox[g])
<1>1. ActorSide /\ ChannelSide /\ ClientSide /\ BoundSide
  BY FourSides DEF SessInv
<1>2. /\ inbox[g] # <<>> /\ inbox[g] \in Seq(Call)
      /\ inbox' = [inbox EXCEPT ![g] = Tail(@)]
      /\ UNCHANGED <<handle, try, pushes, told, halting>>
      /\ ActorGoes(g, "top") /\ Belief(g) /\ (Drop1 \/ UNCHANGED sessBounds)
  BY <1>1 DEF Yield, SetIdleFolder, Drained, ChannelSide, Recover, Belief
<1>3. /\ m \in Call /\ m = inbox[g][1] /\ 1 \in 1..Len(inbox[g])
  BY <1>2, Shorter
<1>4. m.from \in Client
  BY <1>3 DEF Call
<1>5. Asks(m) => clientAt[m.from] = "wait" /\ plan[m.from] # <<>>
  BY <1>3, <1>4 DEF SessInv, InboxesFit, InboxFits, PlansFit
<1>6. \/ Asks(m) /\ GoesRaw({m.from}) /\ UNCHANGED watching
      \/ ~Asks(m) /\ UNCHANGED clientVars /\ watching' = [watching EXCEPT ![g] = m.from]
  BY DEF Yield, SetIdleFolder, Asks
<1>7. PlansFit' /\ ClientSide'
  <2>1. CASE GoesRaw({m.from}) /\ Asks(m)
    <3>1. {m.from} \in SUBSET Client /\ \A c \in {m.from} : plan[c] # <<>>
      BY <1>4, <1>5, <2>1
    <3> QED BY <1>1, <2>1, <3>1, RawFits DEF SessInv
  <2>2. CASE UNCHANGED clientVars
    BY <1>1, <2>2 DEF SessInv, PlansFit, ClientSide, clientVars
  <2> QED BY <1>6, <2>1, <2>2
<1>8. InboxesFit' /\ inbox' \in [Actor -> Seq(Call)]
  <2>1. \A c \in Client : StillWaits(c) \/ (Asks(m) /\ c = m.from)
    BY <1>6 DEF StillWaits, GoesRaw, clientVars
  <2> QED BY <1>1, <1>2, <2>1, HeadTaken DEF SessInv
<1>9. ActorSide' /\ BoundSide'
  BY <1>1, <1>2, ActorsTyped, DropsBounded
<1>10. ChannelSide'
  <2>1. watching' \in [Actor -> SyncWorker \cup {NoWorker}]
    <3>1. ~Asks(m) => m.from \in SyncWorker
      BY <1>3 DEF SessInv, InboxesFit, InboxFits
    <3> QED BY <1>1, <1>6, <3>1 DEF ChannelSide
  <2> QED BY <1>1, <1>2, <1>8, <2>1 DEF ChannelSide
<1>11. BusyFit'
  BY <1>1, <1>2 DEF SessInv, BusyFit, ActorGoes, ActorSide, ChannelSide
<1>12. SessTypeOK'
  BY <1>7, <1>9, <1>10 DEF SessTypeOK, ActorSide, ChannelSide, ClientSide, BoundSide, Call, Doings
<1> QED BY <1>7, <1>8, <1>11, <1>12 DEF SessInv

LEMMA AttemptTypes ==
    ASSUME NEW s0 \in Conn, NEW f \in Folder \cup {"list"}, NEW r \in Attempts(s0, f)
    PROVE  r.conn \in Conn
<1> DEFINE s == IF s0.session THEN s0 ELSE Fresh
<1>1. Fresh \in Conn /\ Gone \in Conn
  BY DEF Fresh, Gone, Conn
<1>2. s \in Conn
  BY <1>1
<1>3. [s EXCEPT !.mailbox = "refused"] \in Conn
  BY <1>2 DEF Conn
<1>4. Opened(s, f) \in Conn
  <2>1. CASE f = "list"
    BY <1>2, <2>1 DEF Opened
  <2>2. CASE f # "list"
    <3>1. f \in Folder
      BY <2>2
    <3>2. PICK a \in BOOLEAN, b \in Folder \cup {"none"},
               c \in Folder \cup {"none", "refused"} :
                 s = [session |-> a, selected |-> b, mailbox |-> c]
      BY <1>2 DEF Conn
    <3>3. [s EXCEPT !.selected = f, !.mailbox = f]
              = [session |-> a, selected |-> f, mailbox |-> f]
      <4>1. [s EXCEPT !.selected = f] = [session |-> a, selected |-> f, mailbox |-> c]
        BY <3>2
      <4>2. [[session |-> a, selected |-> f, mailbox |-> c] EXCEPT !.mailbox = f]
              = [session |-> a, selected |-> f, mailbox |-> f]
        OBVIOUS
      <4> QED BY <3>2, <4>1, <4>2
    <3>4. Opened(s, f) = [session |-> a, selected |-> f, mailbox |-> f]
      BY <2>2, <3>3 DEF Opened
    <3> QED BY <3>1, <3>4 DEF Conn
  <2> QED BY <2>1, <2>2
<1> QED BY <1>1, <1>2, <1>3, <1>4 DEF Attempts

LEMMA AttemptStep ==
    ASSUME SessInv, NEW g \in Actor, Attempt(g)
    PROVE  SessInv'
<1> DEFINE m == Head(inbox[g])
           s0 == [session |-> session[g], selected |-> selected[g], mailbox |-> mailbox[g]]
<1>1. ActorSide /\ ChannelSide /\ ClientSide /\ BoundSide
  BY FourSides DEF SessInv
<1>2. /\ actorAt[g] = "busy" /\ inbox[g] # <<>> /\ inbox[g] \in Seq(Call)
      /\ m.call \in Folder \cup {"list"}
      /\ UNCHANGED <<handle, watching, pushes, told, halting>>
  BY <1>1 DEF Attempt, SessInv, BusyFit, ChannelSide
<1>3. m \in Call /\ m = inbox[g][1] /\ 1 \in 1..Len(inbox[g])
  BY <1>2, Shorter
<1>4. m.from \in Client /\ Asks(m)
  BY <1>2, <1>3 DEF Call, Asks, Folder
<1>5. clientAt[m.from] = "wait" /\ plan[m.from] # <<>>
  BY <1>2, <1>3, <1>4 DEF SessInv, InboxesFit, InboxFits, PlansFit
<1>6. PICK r \in Attempts(s0, m.call) :
         /\ IF r.how = "ok" THEN UNCHANGED sessBounds ELSE Drop1
         /\ IF retry_decision(r.how, try[g])
            THEN /\ Disconnect(g) /\ try' = [try EXCEPT ![g] = 2]
                 /\ UNCHANGED <<actorAt, inbox, clientAt, plan, via>>
            ELSE /\ session' = [session EXCEPT ![g] = r.conn.session]
                 /\ selected' = [selected EXCEPT ![g] = r.conn.selected]
                 /\ mailbox' = [mailbox EXCEPT ![g] = r.conn.mailbox]
                 /\ inbox' = [inbox EXCEPT ![g] = Tail(@)]
                 /\ ActorGoes(g, "top") /\ try' = [try EXCEPT ![g] = 1]
                 /\ Returned({m.from})
  BY DEF Attempt
<1>7. r.conn \in Conn
  <2>1. s0 \in Conn
    BY <1>1 DEF ActorSide, Conn
  <2> QED BY <1>2, <2>1, AttemptTypes
<1>8. BoundSide'
  BY <1>1, <1>2, <1>6, DropsBounded
<1>9. CASE retry_decision(r.how, try[g])
  <2>1. ActorSide'
    BY <1>1, <1>2, <1>6, <1>9, ActorsTyped DEF Belief
  <2>2. ChannelSide' /\ ClientSide'
    <3>1. inbox' = inbox /\ try' = [try EXCEPT ![g] = 2] /\ UNCHANGED <<clientAt, plan, via>>
      BY <1>6, <1>9
    <3> QED BY <1>1, <1>2, <3>1 DEF ChannelSide, ClientSide
  <2>3. PlansFit' /\ BusyFit'
    BY <1>6, <1>9 DEF SessInv, PlansFit, BusyFit
  <2>4. \A c \in Client : StillWaits(c)
    BY <1>6, <1>9 DEF StillWaits
  <2>5. InboxesFit'
    BY <1>1, <1>6, <1>9, <2>4, InboxesKept DEF SessInv
  <2>6. SessTypeOK'
    BY <1>8, <2>1, <2>2 DEF SessTypeOK, ActorSide, ChannelSide, ClientSide, BoundSide, Call, Doings
  <2> QED BY <2>3, <2>5, <2>6 DEF SessInv
<1>10. CASE ~retry_decision(r.how, try[g])
  <2>1. ActorSide'
    <3> DEFINE x == r.conn.session
               y == r.conn.selected
               z == r.conn.mailbox
    <3>1. x \in BOOLEAN /\ y \in Folder \cup {"none"} /\ z \in Folder \cup {"none", "refused"}
      BY <1>7 DEF Conn
    <3>2. /\ session' = [session EXCEPT ![g] = x]
          /\ selected' = [selected EXCEPT ![g] = y]
          /\ mailbox' = [mailbox EXCEPT ![g] = z]
          /\ actorAt' = [actorAt EXCEPT ![g] = "top"]
      BY <1>6, <1>10 DEF ActorGoes
    <3> HIDE DEF x, y, z
    <3> QED BY <1>1, <1>2, <3>1, <3>2 DEF ActorSide, Doings
  <2>2. PlansFit' /\ ClientSide'
    <3>1. {m.from} \in SUBSET Client /\ \A c \in {m.from} : plan[c] # <<>>
      BY <1>4, <1>5
    <3> QED BY <1>1, <1>6, <1>10, <3>1, ReturnedFits DEF SessInv
  <2>3. InboxesFit' /\ inbox' \in [Actor -> Seq(Call)]
    <3>1. \A c \in Client : StillWaits(c) \/ (Asks(m) /\ c = m.from)
      BY <1>4, <1>6, <1>10 DEF StillWaits, Returned
    <3> QED BY <1>1, <1>2, <1>6, <1>10, <3>1, HeadTaken DEF SessInv
  <2>4. ChannelSide'
    BY <1>1, <1>2, <1>6, <1>10, <2>3 DEF ChannelSide
  <2>5. BusyFit'
    BY <1>1, <1>6, <1>10 DEF SessInv, BusyFit, ActorGoes, ActorSide, ChannelSide
  <2>6. SessTypeOK'
    BY <1>8, <2>1, <2>2, <2>4 DEF SessTypeOK, ActorSide, ChannelSide, ClientSide, BoundSide, Call, Doings
  <2> QED BY <2>2, <2>3, <2>5, <2>6 DEF SessInv
<1> QED BY <1>9, <1>10

(* stop_all ends the actor of the map: its channel is dropped, and who     *)
(* waited for it waits no longer.                                          *)
LEMMA ShutdownStep ==
    ASSUME SessInv, ShutdownActors
    PROVE  SessInv'
<1>1. ActorSide /\ ChannelSide /\ ClientSide /\ BoundSide
  BY FourSides DEF SessInv
<1>2. halting' = FALSE /\ handle' = NoActor /\ UNCHANGED <<pushes, told, sessBounds>>
  BY DEF ShutdownActors
<1>3. BoundSide'
  BY <1>1, <1>2 DEF BoundSide, sessBounds
<1>4. CASE handle = NoActor
  <2>1. UNCHANGED <<actorVars, clientVars>>
    BY <1>4 DEF ShutdownActors
  <2>2. ActorSide' /\ ChannelSide' /\ ClientSide' /\ PlansFit' /\ BusyFit'
    BY <1>1, <1>2, <2>1 DEF ActorSide, ChannelSide, ClientSide, SessInv, PlansFit, BusyFit,
         actorVars, clientVars
  <2>3. InboxesFit'
    <3>1. inbox' = inbox /\ \A c \in Client : StillWaits(c)
      BY <2>1 DEF StillWaits, actorVars, clientVars
    <3> QED BY <1>1, <3>1, InboxesKept DEF SessInv
  <2>4. SessTypeOK'
    BY <1>3, <2>2 DEF SessTypeOK, ActorSide, ChannelSide, ClientSide, BoundSide, Call, Doings
  <2> QED BY <2>2, <2>3, <2>4 DEF SessInv
<1>5. CASE handle # NoActor
  <2> PICK g \in Actor : g = handle
    BY <1>1, <1>5 DEF ActorSide
  <2> DEFINE left == Abandoned(g)
             raw == {c \in left : Doing(c) = "raw"}
  <2>1. /\ ActorGoes(g, "gone") /\ Disconnect(g)
        /\ inbox' = [inbox EXCEPT ![g] = <<>>]
        /\ try' = [try EXCEPT ![g] = 1]
        /\ watching' = [watching EXCEPT ![g] = NoWorker]
        /\ clientAt' = [c \in Client |-> CASE c \in raw -> "raw"
                                           [] c \in left \ raw -> "free"
                                           [] OTHER -> clientAt[c]]
        /\ plan' = [c \in Client |-> IF c \in left \ raw THEN Tail(plan[c]) ELSE plan[c]]
        /\ via' = [c \in Client |-> IF c \in left THEN NoActor ELSE via[c]]
    BY <1>5 DEF ShutdownActors
  <2>2. ASSUME NEW c \in Client
        PROVE  \/ /\ c \in left /\ clientAt'[c] = "raw" /\ plan'[c] = plan[c]
                  /\ via'[c] = NoActor
               \/ /\ c \in left /\ clientAt'[c] = "free" /\ plan'[c] = Tail(plan[c])
                  /\ via'[c] = NoActor
               \/ /\ c \notin left
                  /\ clientAt'[c] = clientAt[c] /\ plan'[c] = plan[c] /\ via'[c] = via[c]
    <3> HIDE DEF raw, left
    <3>0. raw \subseteq left
      BY DEF raw
    <3>1. CASE c \in raw
      BY <2>1, <3>0, <3>1
    <3>2. CASE c \in left \ raw
      BY <2>1, <3>2
    <3>3. CASE c \notin left
      BY <2>1, <3>0, <3>3
    <3> QED BY <3>1, <3>2, <3>3
  <2>3. \A c \in left : plan[c] # <<>> /\ c \in Client
    BY DEF Abandoned, SessInv, PlansFit
  <2>4. \A c \in left : Tail(plan[c]) \in Seq(Calls(c)) /\ Tail(plan[c]) \in Seq(SessCall)
    BY <1>1, <2>3, Shorter DEF SessInv, PlansFit, ClientSide
  <2>5. PlansFit'
    BY <1>1, <2>2, <2>3, <2>4 DEF SessInv, PlansFit, ClientSide
  <2>6. ClientSide'
    <3>1. \A c \in Client : /\ clientAt'[c] \in {"unborn", "free", "spawn", "send", "wait",
                                                "raw", "select", "unserved", "off"}
                            /\ plan'[c] \in Seq(SessCall)
                            /\ via'[c] \in Actor \cup {NoActor}
      BY <1>1, <2>2, <2>4 DEF ClientSide
    <3>2. /\ DOMAIN clientAt' = Client /\ clientAt' = [c \in Client |-> clientAt'[c]]
          /\ DOMAIN plan' = Client /\ plan' = [c \in Client |-> plan'[c]]
          /\ DOMAIN via' = Client /\ via' = [c \in Client |-> via'[c]]
      BY <2>1
    <3> QED BY <3>1, <3>2 DEF ClientSide
  <2>7. ActorSide' /\ ChannelSide'
    <3>1. ActorSide'
      BY <1>1, <1>2, <2>1 DEF ActorSide, ActorGoes, Disconnect, Doings
    <3>2. <<>> \in Seq(Call)
      OBVIOUS
    <3> QED BY <1>1, <1>2, <2>1, <3>1, <3>2 DEF ChannelSide
  <2>8. BusyFit'
    BY <1>1, <2>1 DEF SessInv, BusyFit, ActorGoes, ActorSide, ChannelSide
  <2>9. InboxesFit'
    <3>1. inbox'[g] = <<>> /\ \A h \in Actor \ {g} : inbox'[h] = inbox[h]
      BY <1>1, <2>1 DEF ChannelSide
    <3>2. InboxFits(g)'
      BY <3>1 DEF InboxFits
    <3>3. ASSUME NEW h \in Actor, h # g PROVE InboxFits(h)'
      <4>1. \A i \in 1..Len(inbox[h]) : inbox[h][i].from \in Client
        <5> TAKE i \in 1..Len(inbox[h])
        <5>1. inbox[h][i] \in Call
          BY <1>1, ElementOfSeq DEF ChannelSide
        <5> QED BY <5>1 DEF Call
      <4>2. \A i \in 1..Len(inbox[h]) : Asks(inbox[h][i]) => StillWaits(inbox[h][i].from)
        <5> TAKE i \in 1..Len(inbox[h])
        <5> HAVE Asks(inbox[h][i])
        <5>1. via[inbox[h][i].from] = h
          BY DEF SessInv, InboxesFit, InboxFits
        <5>2. inbox[h][i].from \notin left
          BY <3>3, <5>1 DEF Abandoned
        <5> QED BY <2>2, <4>1, <5>2 DEF StillWaits
      <4>3. inbox'[h] = inbox[h]
        BY <3>1, <3>3
      <4> QED BY <4>2, <4>3 DEF SessInv, InboxesFit, InboxFits, Asks, StillWaits
    <3> QED BY <3>2, <3>3 DEF InboxesFit
  <2>10. SessTypeOK'
    BY <1>3, <2>6, <2>7 DEF SessTypeOK, ActorSide, ChannelSide, ClientSide, BoundSide, Call, Doings
  <2> QED BY <2>5, <2>8, <2>9, <2>10 DEF SessInv
<1> QED BY <1>4, <1>5

LEMMA TellStep ==
    ASSUME SessInv, TellWorkers
    PROVE  SessInv'
<1>1. ActorSide /\ ChannelSide /\ ClientSide /\ BoundSide
  BY FourSides DEF SessInv
<1>2. BoundSide'
  <2>1. Living \subseteq SyncWorker /\ MaxStops \in Nat
    BY SessionAssumption DEF Living
  <2> QED BY <1>1, <2>1 DEF TellWorkers, BoundSide
<1>3. /\ PlansFit' /\ ClientSide' /\ pushes' \in [SyncWorker -> 0..PushCap]
      /\ UNCHANGED <<handle, actorVars>>
  BY <1>1 DEF TellWorkers, SessInv, PlansFit, ClientSide, ChannelSide, clientVars
<1>4. \A c \in Client : StillWaits(c)
  BY DEF TellWorkers, StillWaits, clientVars
<1> QED BY <1>2, <1>3, <1>4, ClientMoves

LEMMA SessBegins == SessInit => SessInv
<1> SUFFICES ASSUME SessInit PROVE SessInv
  OBVIOUS
<1>1. <<>> \in Seq(Call) /\ <<>> \in Seq(SessCall) /\ \A c \in Client : <<>> \in Seq(Calls(c))
  OBVIOUS
<1>2. ActorSide
  BY DEF SessInit, ActorSide, Doings
<1>3. ChannelSide
  BY <1>1, SessionAssumption DEF SessInit, ChannelSide
<1>4. ClientSide
  BY <1>1 DEF SessInit, ClientSide
<1>5. BoundSide
  <2>1. 0 \in 0..MaxReads /\ 0 \in 0..MaxStops /\ 0 \in 0..MaxDrops
    BY SessionAssumption
  <2> QED BY <2>1 DEF SessInit, BoundSide
<1>6. PlansFit
  BY <1>1 DEF SessInit, PlansFit
<1>7. InboxesFit
  BY DEF SessInit, InboxesFit, InboxFits
<1>8. BusyFit
  BY DEF SessInit, BusyFit
<1> QED BY <1>2, <1>3, <1>4, <1>5, <1>6, <1>7, <1>8, FourSides DEF SessInv

LEMMA SessGoesOn == SessInv /\ [SessNext]_sessVars => SessInv'
<1> SUFFICES ASSUME SessInv, [SessNext]_sessVars PROVE SessInv'
  OBVIOUS
<1>1. ASSUME NEW c \in Client, ClientStep(c) PROVE SessInv'
  BY <1>1, FindActorStep, SpawnActorStep, SendCommandStep, RawDoneStep DEF ClientStep
<1>2. ASSUME NEW g \in Actor,
             \/ ActorStep(g) \/ EnterIdle(g) \/ LeaveIdle(g)
             \/ Unanswered(g) \/ Answered(g)
      PROVE  SessInv'
  BY <1>2, ActorAlone, ActorAnswers, AttemptStep DEF ActorStep
<1>3. CASE Arrive
  <2>1. CASE \E g \in Actor : ActorGoes(g, "notify") /\ Recover(g)
    BY <1>3, <2>1, ActorAlone
  <2>2. CASE UNCHANGED <<actorAt, session, selected, mailbox, sessBounds>>
    <3>1. UNCHANGED <<handle, actorVars, pushes, clientVars, told, halting, sessBounds>>
      BY <1>3, <2>2 DEF Arrive, actorVars
    <3>2. /\ PlansFit' /\ ClientSide' /\ BoundSide' /\ pushes' \in [SyncWorker -> 0..PushCap]
          /\ \A c \in Client : StillWaits(c)
      BY <3>1, FourSides DEF SessInv, PlansFit, ClientSide, BoundSide, ChannelSide,
           StillWaits, clientVars, sessBounds
    <3> QED BY <3>1, <3>2, ClientMoves
  <2> QED BY <1>3, <2>1, <2>2 DEF Arrive
<1>4. CASE UNCHANGED sessVars
  <2>1. UNCHANGED <<handle, actorVars, pushes, clientVars, told, halting, sessBounds>>
    BY <1>4 DEF sessVars
  <2>2. /\ PlansFit' /\ ClientSide' /\ BoundSide' /\ pushes' \in [SyncWorker -> 0..PushCap]
        /\ \A c \in Client : StillWaits(c)
    BY <2>1, FourSides DEF SessInv, PlansFit, ClientSide, BoundSide, ChannelSide,
         StillWaits, clientVars, sessBounds
  <2> QED BY <2>1, <2>2, ClientMoves
<1>5. ASSUME NEW w \in SyncWorker,
             SpawnWorker(w) \/ RoundEnds(w) \/ PollTick(w) \/ TakePush(w) \/ WorkerExits(w)
      PROVE  SessInv'
  BY <1>5, WorkerStep
<1> QED BY <1>1, <1>2, <1>3, <1>4, <1>5, BeginReadStep, TellStep, ShutdownStep DEF SessNext

(* The variables of the session, its clients and their channels have their *)
(* types: who is answered has a call at the head of its plan, and a busy   *)
(* actor a command at the head of its channel.                             *)
THEOREM SessTypeCorrect == SessSpec => []SessTypeOK
<1>1. SessInv => SessTypeOK
  BY DEF SessInv
<1> QED BY <1>1, SessBegins, SessGoesOn, PTL DEF SessSpec

-----------------------------------------------------------------------------
(***************************************************************************)
(* AttachmentCache: what a row names is what the mail holds, for any parts *)
(* and commands. The invariant says what each writer's file holds while it *)
(* is being written and until its row is told.                             *)
(***************************************************************************)

WholeOf(p, mail) == cached[p] = [whole |-> TRUE, of |-> {mail}]
OneFile(c) == \E p \in Parts : fetching[c].now = {p}

(* A command that stores stores one part, and knows whose bytes it has.     *)
StoresOne ==
    \A c \in Getters :
        /\ getterAt[c] \in {"writing", "record"} => OneFile(c)
        /\ getterAt[c] \in {"store", "writing", "record"} => fetching[c].of \in 1 .. MaxMails

(* Without a message there are no rows.                                    *)
RowsOfMessage == stands = NoRow => listed = {}

(* Two commands that store the same part make it hazy.                     *)
AloneUnlessHazy ==
    \A c, d \in Getters : \A p \in Parts :
        Stores(c, p) /\ Stores(d, p) /\ c # d => p \in hazy

(* One that stores a recorded part has the bytes of the mail of the row.   *)
RenewsSameMail ==
    \A c \in Getters : \A p \in localPath \ hazy :
        Stores(c, p) => fetching[c].of = stands

(* What the file holds while it is written, and after that.                *)
WritesItsBytes ==
    \A c \in Getters : \A p \in Parts \ hazy :
        getterAt[c] = "writing" /\ p \in fetching[c].now =>
            IF fetching[c].keeps THEN cached[p].of = {fetching[c].of}
            ELSE cached[p] = NoFile
HasWritten ==
    \A c \in Getters : \A p \in Parts \ hazy :
        getterAt[c] = "record" /\ p \in fetching[c].now =>
            ~IsThere(cached[p]) \/ WholeOf(p, fetching[c].of)

FilesInv ==
    /\ CacheTypeOK /\ StoresOne /\ RowsOfMessage /\ AloneUnlessHazy
    /\ RenewsSameMail /\ WritesItsBytes /\ HasWritten /\ CachedFileIsThePart

GetterState == {"free", "look", "check", "resolve", "fetch", "store", "writing", "record"}
Fetch == [parts : SUBSET Parts, now : SUBSET Parts,
          of : {NoRow} \cup 1 .. MaxMails, keeps : BOOLEAN]
File == [whole : BOOLEAN, of : SUBSET (1 .. MaxMails)]

-----------------------------------------------------------------------------
(* Types.                                                                  *)

LEMMA MovedTypes ==
    ASSUME CacheTypeOK, NEW c \in Getters, NEW at \in GetterState,
           GetterGoes(c, at) \/ UNCHANGED getterAt,
           NEW f \in Fetch, fetching' = [fetching EXCEPT ![c] = f]
    PROVE  /\ getterAt' \in [Getters -> GetterState]
           /\ fetching' \in [Getters -> Fetch]
<1>1. fetching \in [Getters -> Fetch] /\ getterAt \in [Getters -> GetterState]
  BY DEF CacheTypeOK, Fetch, GetterState
<1> QED BY <1>1 DEF GetterGoes

LEMMA GivenUpTypes ==
    ASSUME CacheTypeOK, NEW c \in Getters, GivesUpGet(c)
    PROVE  /\ getterAt' \in [Getters -> GetterState]
           /\ fetching' \in [Getters -> Fetch]
<1>1. Nothing \in Fetch /\ "free" \in GetterState
  BY DEF Nothing, Fetch, GetterState
<1> QED BY <1>1, MovedTypes DEF GivesUpGet

LEMMA BoundTypes ==
    ASSUME CacheTypeOK, Breaks \/ GoesWell
    PROVE  gets' \in 0 .. MaxGets /\ sweeps' \in 0 .. MaxSweeps /\ breaks' \in 0 .. MaxBreaks
BY AttachmentAssumption DEF CacheTypeOK, Breaks, GoesWell, acBounds

LEMMA DirectoryTypes ==
    ASSUME CacheTypeOK, DirectoryGoes
    PROVE  cached' \in [Parts -> File] /\ fetching' \in [Getters -> Fetch]
<1>1. fetching \in [Getters -> Fetch]
  BY DEF CacheTypeOK, Fetch
<1>2. ASSUME NEW c \in Getters PROVE [fetching[c] EXCEPT !.keeps = FALSE] \in Fetch
  BY <1>1 DEF Fetch
<1>3. NoFile \in File
  BY DEF NoFile, File
<1> QED BY <1>1, <1>2, <1>3 DEF DirectoryGoes

(* A command's step keeps the types: its own fields, then the rest.        *)
LEMMA GetterTypes ==
    ASSUME CacheTypeOK, StoresOne, NEW c \in Getters,
           \/ \E wanted \in Wants : AskFor(c, wanted)
           \/ LookUpRows(c) \/ CheckFiles(c) \/ Resolve(c) \/ FetchParts(c)
           \/ \E p \in Parts : WriteBegins(c, p)
           \/ WriteEnds(c) \/ RecordPath(c)
    PROVE  CacheTypeOK'
<1>0. fetching[c] \in Fetch /\ serverHas \in 1 .. MaxMails
  BY DEF CacheTypeOK, Fetch
<1>1. ASSUME NEW wanted \in Wants, AskFor(c, wanted) PROVE CacheTypeOK'
  <2>1. wanted \subseteq Parts
    BY AttachmentAssumption DEF Wants
  <2>2. [fetching[c] EXCEPT !.parts = wanted] \in Fetch
    BY <1>0, <2>1 DEF Fetch
  <2>3. gets' \in 0 .. MaxGets
    BY <1>1, AttachmentAssumption DEF AskFor, CacheTypeOK
  <2>4. getterAt' \in [Getters -> GetterState] /\ fetching' \in [Getters -> Fetch]
    BY <1>1, <2>2, MovedTypes DEF AskFor, GetterState
  <2> QED BY <1>1, <2>3, <2>4 DEF AskFor, CacheTypeOK, Fetch, GetterState, acTables, acSweeper
<1>2. ASSUME LookUpRows(c) PROVE CacheTypeOK'
  <2>1. getterAt' \in [Getters -> GetterState]
    BY <1>2 DEF LookUpRows, GetterGoes, GetterState, CacheTypeOK
  <2> QED BY <1>2, <2>1 DEF LookUpRows, CacheTypeOK, GetterState, acTables, acSweeper, acBounds
<1>3. ASSUME CheckFiles(c) \/ Resolve(c) PROVE CacheTypeOK'
  <2>1. getterAt' \in [Getters -> GetterState] /\ fetching' \in [Getters -> Fetch]
    <3>1. CASE GivesUpGet(c)
      BY <3>1, GivenUpTypes
    <3>2. CASE UNCHANGED fetching
      BY <1>3, <3>2 DEF CheckFiles, Resolve, GivesUpGet, GetterGoes, GetterState, CacheTypeOK, Fetch
    <3> QED BY <1>3, <3>1, <3>2 DEF CheckFiles, Resolve
  <2> QED BY <1>3, <2>1 DEF CheckFiles, Resolve, CacheTypeOK, Fetch, GetterState,
                            acTables, acSweeper, acBounds
<1>4. ASSUME FetchParts(c) PROVE CacheTypeOK'
  <2>1. [fetching[c] EXCEPT !.of = serverHas] \in Fetch
    BY <1>0 DEF Fetch
  <2>2. getterAt' \in [Getters -> GetterState] /\ fetching' \in [Getters -> Fetch]
    BY <1>4, <2>1, MovedTypes, GivenUpTypes DEF FetchParts, GetterState
  <2>3. gets' \in 0 .. MaxGets /\ sweeps' \in 0 .. MaxSweeps /\ breaks' \in 0 .. MaxBreaks
    BY <1>4, BoundTypes DEF FetchParts
  <2> QED BY <1>4, <2>2, <2>3 DEF FetchParts, CacheTypeOK, Fetch, GetterState, acTables, acSweeper
<1>5. ASSUME NEW p \in Parts, WriteBegins(c, p) PROVE CacheTypeOK'
  <2>1. [fetching[c] EXCEPT !.parts = fetching[c].parts \ {p}, !.now = {p}, !.keeps = TRUE] \in Fetch
    BY <1>0 DEF Fetch
  <2>2. getterAt' \in [Getters -> GetterState] /\ fetching' \in [Getters -> Fetch]
    <3>1. /\ GetterGoes(c, "writing") /\ "writing" \in GetterState
          /\ fetching' = [fetching EXCEPT ![c] =
                [fetching[c] EXCEPT !.parts = fetching[c].parts \ {p}, !.now = {p}, !.keeps = TRUE]]
      BY <1>0, <1>5 DEF WriteBegins, GetterState, Fetch
    <3> QED BY <2>1, <3>1, MovedTypes
  <2>3. fetching[c].of \in 1 .. MaxMails
    BY <1>5 DEF WriteBegins, StoresOne
  <2>4. cached' \in [Parts -> File]
    BY <1>5, <2>3 DEF WriteBegins, CacheTypeOK, File
  <2>5. hazy' \subseteq Parts
    BY <1>5 DEF WriteBegins, CacheTypeOK
  <2> QED BY <1>5, <2>2, <2>4, <2>5 DEF WriteBegins, CacheTypeOK, Fetch, GetterState, File,
                                   acTables, acSweeper, acBounds
<1>6. ASSUME WriteEnds(c) PROVE CacheTypeOK'
  <2>1. getterAt' \in [Getters -> GetterState] /\ fetching' \in [Getters -> Fetch]
    <3>1. CASE GivesUpGet(c)
      BY <3>1, GivenUpTypes
    <3>2. CASE GetterGoes(c, "record") /\ UNCHANGED fetching
      BY <3>2 DEF GetterGoes, GetterState, CacheTypeOK, Fetch
    <3> QED BY <1>6, <3>1, <3>2 DEF WriteEnds
  <2>2. OneFile(c)
    BY <1>6 DEF WriteEnds, StoresOne
  <2>3. PICK p \in Parts : fetching[c].now = {p}
    BY <2>2 DEF OneFile
  <2>4. (CHOOSE q \in Parts : q \in fetching[c].now) = p
    BY <2>3
  <2>5. hazy' \subseteq Parts
    BY <1>6, <2>4 DEF WriteEnds, CacheTypeOK
  <2>6. ASSUME NEW b \in BOOLEAN PROVE [cached EXCEPT ![p].whole = b] \in [Parts -> File]
    BY DEF CacheTypeOK, File
  <2>7. (~(\E d \in Getters \ {c} : Writing(d, p))) \in BOOLEAN
    OBVIOUS
  <2>8. \/ UNCHANGED cached
        \/ cached' = [cached EXCEPT ![p].whole = ~(\E d \in Getters \ {c} : Writing(d, p))]
    BY <1>6, <2>4 DEF WriteEnds
  <2>9. cached' \in [Parts -> File]
    BY <2>6, <2>7, <2>8 DEF CacheTypeOK, File
  <2>10. gets' \in 0 .. MaxGets /\ sweeps' \in 0 .. MaxSweeps /\ breaks' \in 0 .. MaxBreaks
    BY <1>6, BoundTypes DEF WriteEnds
  <2> QED BY <1>6, <2>1, <2>5, <2>9, <2>10 DEF WriteEnds, CacheTypeOK, Fetch, GetterState, File,
                                   acTables, acSweeper
<1>7. ASSUME RecordPath(c) PROVE CacheTypeOK'
  <2>1. [fetching[c] EXCEPT !.now = {}] \in Fetch
    BY <1>0 DEF Fetch
  <2>2. getterAt' \in [Getters -> GetterState] /\ fetching' \in [Getters -> Fetch]
    <3>1. CASE GivesUpGet(c)
      BY <3>1, GivenUpTypes
    <3>2. CASE GetterGoes(c, "store") /\ fetching' = [fetching EXCEPT ![c].now = {}]
      BY <3>2, <2>1, MovedTypes DEF GetterState
    <3> QED BY <1>7, <3>1, <3>2 DEF RecordPath, GetsOn
  <2>3. localPath' \subseteq listed /\ hazy' \subseteq Parts
    BY <1>7, <1>0 DEF RecordPath, CacheTypeOK, Fetch
  <2>4. gets' \in 0 .. MaxGets /\ sweeps' \in 0 .. MaxSweeps /\ breaks' \in 0 .. MaxBreaks
    BY <1>7, BoundTypes DEF RecordPath
  <2> QED BY <1>7, <2>2, <2>3, <2>4 DEF RecordPath, CacheTypeOK, Fetch, GetterState, File, acSweeper
<1> QED BY <1>1, <1>2, <1>3, <1>4, <1>5, <1>6, <1>7

(* So does a step of the tables, the files' removals and a crash.          *)
LEMMA OtherTypes ==
    ASSUME CacheTypeOK,
           \/ ServerRenumbers \/ FolderWiped \/ MessageArrives \/ BodyStored
           \/ UserDeletes \/ CleanAfterDelete
           \/ SweepBegins \/ RemoveOrphan \/ ScanPaths \/ ClearStale \/ CacheCrash
    PROVE  CacheTypeOK'
<1> USE AttachmentAssumption
<1>1. CASE ServerRenumbers \/ MessageArrives
  BY <1>1 DEF ServerRenumbers, MessageArrives, CacheTypeOK, acTables, acGetters, acSweeper, acBounds
<1>2. CASE FolderWiped \/ BodyStored \/ UserDeletes
  BY <1>2 DEF FolderWiped, BodyStored, UserDeletes, MessageGoes, ForgetPaths, WithoutPaths,
              StillStored, CacheTypeOK, acGetters, acSweeper, acBounds
<1>3. CASE CleanAfterDelete \/ RemoveOrphan
  <2>1. cached' \in [Parts -> File] /\ fetching' \in [Getters -> Fetch]
    <3>1. CASE DirectoryGoes
      BY <3>1, DirectoryTypes
    <3>2. CASE UNCHANGED <<cached, fetching>>
      BY <3>2 DEF CacheTypeOK, Fetch, File
    <3> QED BY <1>3, <3>1, <3>2 DEF CleanAfterDelete, RemoveOrphan
  <2>2. gets' \in 0 .. MaxGets /\ sweeps' \in 0 .. MaxSweeps /\ breaks' \in 0 .. MaxBreaks
    BY <1>3, BoundTypes DEF CleanAfterDelete, RemoveOrphan
  <2> QED BY <1>3, <2>1, <2>2 DEF CleanAfterDelete, RemoveOrphan, CacheTypeOK, Fetch, File,
                                  acTables, acSweeper
<1>4. CASE SweepBegins \/ ScanPaths
  BY <1>4 DEF SweepBegins, ScanPaths, CacheTypeOK, acTables, acGetters, acBounds
<1>5. CASE ClearStale
  <2>1. gets' \in 0 .. MaxGets /\ sweeps' \in 0 .. MaxSweeps /\ breaks' \in 0 .. MaxBreaks
    BY <1>5, BoundTypes DEF ClearStale
  <2> QED BY <1>5, <2>1 DEF ClearStale, CacheTypeOK, acGetters
<1>6. CASE CacheCrash
  <2>1. gets' \in 0 .. MaxGets /\ sweeps' \in 0 .. MaxSweeps /\ breaks' \in 0 .. MaxBreaks
    BY <1>6, BoundTypes DEF CacheCrash
  <2>2. Nothing \in Fetch
    BY DEF Nothing, Fetch
  <2> QED BY <1>6, <2>1, <2>2 DEF CacheCrash, CacheTypeOK, Fetch, acTables
<1> QED BY <1>1, <1>2, <1>3, <1>4, <1>5, <1>6

-----------------------------------------------------------------------------
(* What the steps have in common.                                          *)

(* A command that does not store a part and will not touches no file.      *)
LEMMA GetterMovesOn ==
    ASSUME FilesInv, CacheTypeOK', NEW c \in Getters,
           getterAt[c] \notin {"writing", "record"},
           getterAt'[c] \notin {"writing", "record"},
           getterAt'[c] = "store" => fetching'[c].of \in 1 .. MaxMails,
           \A d \in Getters \ {c} : getterAt'[d] = getterAt[d] /\ fetching'[d] = fetching[d],
           UNCHANGED <<stands, listed, localPath, cached, hazy>>
    PROVE  FilesInv'
<1> USE DEF FilesInv
<1>1. \A d \in Getters : \A p \in Parts : Stores(d, p)' => d # c /\ Stores(d, p)
  BY DEF Stores
<1>2. \A d \in Getters : \A p \in Parts : Writing(d, p) => Writing(d, p)'
  BY DEF Writing
<1>3. StoresOne' /\ RowsOfMessage'
  BY DEF StoresOne, OneFile, RowsOfMessage
<1>4. AloneUnlessHazy'
  BY <1>1 DEF AloneUnlessHazy
<1>5. RenewsSameMail'
  BY <1>1 DEF RenewsSameMail, CacheTypeOK
<1>6. WritesItsBytes' /\ HasWritten'
  BY DEF WritesItsBytes, HasWritten, WholeOf, IsThere
<1>7. CachedFileIsThePart'
  BY <1>2 DEF CachedFileIsThePart, IsThere, CacheTypeOK
<1> QED BY <1>3, <1>4, <1>5, <1>6, <1>7

(* Paths are forgotten: only the parts that are being stored stay hazy.    *)
LEMMA PathsGo ==
    ASSUME FilesInv, CacheTypeOK', RowsOfMessage', localPath' = {},
           hazy' = StillStored(hazy), UNCHANGED <<cached, acGetters>>
    PROVE  FilesInv'
<1> USE DEF FilesInv, acGetters
<1>1. \A c \in Getters : \A p \in Parts :
        Stores(c, p)' => Stores(c, p) /\ (p \in hazy => p \in hazy')
  BY DEF Stores, StillStored
<1>2. StoresOne'
  BY DEF StoresOne, OneFile
<1>3. AloneUnlessHazy' /\ RenewsSameMail'
  BY <1>1 DEF AloneUnlessHazy, RenewsSameMail
<1>4. WritesItsBytes'
  BY <1>1 DEF WritesItsBytes, Stores
<1>5. HasWritten'
  BY <1>1 DEF HasWritten, Stores, WholeOf, IsThere
<1>6. CachedFileIsThePart'
  BY DEF CachedFileIsThePart
<1> QED BY <1>2, <1>3, <1>4, <1>5, <1>6

(* Nothing but paths changes, and the mail only under a row without paths. *)
LEMMA TablesMoveOn ==
    ASSUME FilesInv, CacheTypeOK', RowsOfMessage', localPath' \subseteq localPath,
           stands' = stands \/ localPath' = {}, UNCHANGED <<cached, acGetters, hazy>>
    PROVE  FilesInv'
<1> USE DEF FilesInv, acGetters
<1>1. StoresOne' /\ AloneUnlessHazy'
  BY DEF StoresOne, OneFile, AloneUnlessHazy, Stores
<1>2. RenewsSameMail'
  BY DEF RenewsSameMail, Stores
<1>3. WritesItsBytes' /\ HasWritten'
  BY DEF WritesItsBytes, HasWritten, WholeOf, IsThere
<1>4. CachedFileIsThePart'
  BY DEF CachedFileIsThePart, IsThere, Writing
<1> QED BY <1>1, <1>2, <1>3, <1>4

(* The directory's files are gone; those being written go nowhere.         *)
LEMMA FilesGo ==
    ASSUME FilesInv, CacheTypeOK', DirectoryGoes,
           UNCHANGED <<stands, listed, localPath, getterAt, hazy>>
    PROVE  FilesInv'
<1> USE DEF FilesInv
<1>1. \A c \in Getters : fetching'[c].now = fetching[c].now /\ fetching'[c].of = fetching[c].of
  BY DEF DirectoryGoes, CacheTypeOK
<1>2. \A c \in Getters : getterAt[c] = "writing" => ~fetching'[c].keeps
  BY DEF DirectoryGoes, CacheTypeOK
<1>3. \A p \in Parts : cached'[p] = NoFile /\ ~IsThere(cached'[p])
  BY DEF DirectoryGoes, NoFile, IsThere
<1>4. StoresOne' /\ RowsOfMessage'
  BY <1>1 DEF StoresOne, OneFile, RowsOfMessage
<1>5. AloneUnlessHazy' /\ RenewsSameMail'
  BY <1>1 DEF AloneUnlessHazy, RenewsSameMail, Stores
<1>6. WritesItsBytes'
  BY <1>2, <1>3 DEF WritesItsBytes
<1>7. HasWritten'
  BY <1>3 DEF HasWritten
<1>8. CachedFileIsThePart'
  BY <1>3 DEF CachedFileIsThePart, CacheTypeOK
<1> QED BY <1>4, <1>5, <1>6, <1>7, <1>8

-----------------------------------------------------------------------------
(* The steps of a command.                                                 *)

LEMMA BeforeStoring ==
    ASSUME FilesInv, NEW c \in Getters,
           \/ \E wanted \in Wants : AskFor(c, wanted)
           \/ LookUpRows(c) \/ CheckFiles(c) \/ Resolve(c) \/ FetchParts(c)
    PROVE  FilesInv'
<1>1. CacheTypeOK'
  BY GetterTypes DEF FilesInv
<1>2. fetching \in [Getters -> Fetch] /\ getterAt \in [Getters -> GetterState]
      /\ serverHas \in 1 .. MaxMails
  BY DEF FilesInv, CacheTypeOK, Fetch, GetterState
<1>3. /\ getterAt[c] \notin {"writing", "record"} /\ getterAt'[c] \notin {"writing", "record"}
      /\ \A d \in Getters \ {c} : getterAt'[d] = getterAt[d] /\ fetching'[d] = fetching[d]
      /\ UNCHANGED <<stands, listed, localPath, cached, hazy>>
  BY <1>2 DEF AskFor, LookUpRows, CheckFiles, Resolve, FetchParts, GetterGoes, GivesUpGet, acTables
<1>4. getterAt'[c] = "store" => fetching'[c].of \in 1 .. MaxMails
  BY <1>2 DEF AskFor, LookUpRows, CheckFiles, Resolve, FetchParts, GetterGoes, GivesUpGet, Fetch
<1> QED BY <1>1, <1>3, <1>4, GetterMovesOn

(* A write begins: whoever else stores the part makes it hazy, and so does *)
(* writing over a recorded file with another mail's bytes.                 *)
LEMMA WriteBeginsKeeps ==
    ASSUME FilesInv, NEW c \in Getters, NEW p \in Parts, WriteBegins(c, p)
    PROVE  FilesInv'
<1> DEFINE of == fetching[c].of
<1>1. CacheTypeOK'
  BY GetterTypes DEF FilesInv
<1>2. fetching \in [Getters -> Fetch] /\ getterAt \in [Getters -> GetterState]
      /\ cached \in [Parts -> File]
  BY DEF FilesInv, CacheTypeOK, Fetch, GetterState, File
<1>3. /\ getterAt[c] = "store" /\ getterAt'[c] = "writing"
      /\ fetching'[c].now = {p} /\ fetching'[c].of = of /\ fetching'[c].keeps
  BY <1>2 DEF WriteBegins, GetterGoes, Fetch
<1>4. \A d \in Getters \ {c} : getterAt'[d] = getterAt[d] /\ fetching'[d] = fetching[d]
  BY <1>2 DEF WriteBegins, GetterGoes
<1>5. UNCHANGED <<stands, listed, localPath>> /\ hazy \subseteq hazy'
  BY DEF WriteBegins, acTables
<1>6. \A q \in Parts \ {p} : cached'[q] = cached[q]
  BY <1>2 DEF WriteBegins
<1>7. p \notin hazy' => /\ \A d \in Getters \ {c} : ~Stores(d, p)
                        /\ p \in localPath => of = stands
  BY DEF WriteBegins, StoredByOther
<1>8. p \notin hazy' => cached'[p].of = {of}
  <2>1. p \notin hazy' => ~(\E d \in Getters : Writing(d, p))
    BY <1>3, <1>7 DEF Writing, Stores
  <2>2. cached'[p].of = {of} \cup (IF \E d \in Getters : Writing(d, p) THEN cached[p].of ELSE {})
    BY <1>2 DEF WriteBegins
  <2> QED BY <2>1, <2>2
<1> HIDE DEF of
<1>9. \A d \in Getters : \A q \in Parts :
        Stores(d, q)' => (d = c /\ q = p) \/ (d # c /\ Stores(d, q))
  BY <1>3, <1>4 DEF Stores
<1>10. StoresOne' /\ RowsOfMessage'
  BY <1>3, <1>4, <1>5 DEF FilesInv, StoresOne, OneFile, RowsOfMessage, of
<1>11. AloneUnlessHazy'
  BY <1>5, <1>7, <1>9 DEF FilesInv, AloneUnlessHazy
<1>12. RenewsSameMail'
  BY <1>1, <1>3, <1>4, <1>5, <1>7, <1>9 DEF FilesInv, RenewsSameMail, CacheTypeOK
<1>13. WritesItsBytes'
  <2> SUFFICES ASSUME NEW d \in Getters, NEW q \in Parts \ hazy',
                      getterAt'[d] = "writing", q \in fetching'[d].now
               PROVE  IF fetching'[d].keeps THEN cached'[q].of = {fetching'[d].of}
                      ELSE cached'[q] = NoFile
    BY DEF WritesItsBytes
  <2>1. CASE d = c
    BY <2>1, <1>3, <1>8
  <2>2. CASE d # c
    <3>1. Stores(d, q)
      BY <1>4, <2>2 DEF Stores
    <3>2. q # p
      BY <1>7, <2>2, <3>1
    <3> QED BY <1>4, <1>5, <1>6, <2>2, <3>2 DEF FilesInv, WritesItsBytes
  <2> QED BY <2>1, <2>2
<1>14. HasWritten'
  <2> SUFFICES ASSUME NEW d \in Getters, NEW q \in Parts \ hazy',
                      getterAt'[d] = "record", q \in fetching'[d].now
               PROVE  ~IsThere(cached'[q])
                      \/ cached'[q] = [whole |-> TRUE, of |-> {fetching'[d].of}]
    BY DEF HasWritten, WholeOf, IsThere
  <2>1. d # c
    BY <1>3
  <2>2. Stores(d, q) /\ q # p
    BY <1>4, <1>7, <2>1 DEF Stores
  <2> QED BY <1>4, <1>5, <1>6, <2>1, <2>2 DEF FilesInv, HasWritten, WholeOf
<1>15. CachedFileIsThePart'
  <2> SUFFICES ASSUME NEW q \in localPath' \ hazy'
               PROVE  \/ ~IsThere(cached'[q])
                      \/ \E d \in Getters : Writing(d, q)'
                      \/ cached'[q] = [whole |-> TRUE, of |-> {stands'}]
    BY DEF CachedFileIsThePart, IsThere
  <2>1. CASE q = p
    BY <1>3, <2>1 DEF Writing
  <2>2. CASE q # p
    <3>1. \A d \in Getters : Writing(d, q) => Writing(d, q)'
      BY <1>3, <1>4 DEF Writing
    <3>2. q \in Parts /\ q \in localPath \ hazy
      BY <1>5 DEF FilesInv, CacheTypeOK
    <3> QED BY <1>5, <1>6, <2>2, <3>1, <3>2 DEF FilesInv, CachedFileIsThePart
  <2> QED BY <2>1, <2>2
<1> QED BY <1>1, <1>10, <1>11, <1>12, <1>13, <1>14, <1>15 DEF FilesInv

(* A write ends. Whole or not, the command was alone or the part is hazy.  *)
LEMMA WriteEndsKeeps ==
    ASSUME FilesInv, NEW c \in Getters, WriteEnds(c)
    PROVE  FilesInv'
<1>1. CacheTypeOK'
  BY GetterTypes DEF FilesInv
<1>2. fetching \in [Getters -> Fetch] /\ getterAt \in [Getters -> GetterState]
      /\ cached \in [Parts -> File]
  BY DEF FilesInv, CacheTypeOK, Fetch, GetterState, File
<1>3. getterAt[c] = "writing" /\ UNCHANGED <<stands, listed, localPath>> /\ hazy \subseteq hazy'
  BY DEF WriteEnds, acTables
<1>4. PICK p \in Parts : fetching[c].now = {p}
  BY <1>3 DEF FilesInv, StoresOne, OneFile
<1>5. (CHOOSE q \in Parts : q \in fetching[c].now) = p
  BY <1>4
<1>6. Stores(c, p)
  BY <1>3, <1>4 DEF Stores
<1>7. \A d \in Getters \ {c} : getterAt'[d] = getterAt[d] /\ fetching'[d] = fetching[d]
  BY <1>2 DEF WriteEnds, GetterGoes, GivesUpGet
<1>8. \A d \in Getters : \A q \in Parts : Stores(d, q)' => Stores(d, q)
  <2>1. Stores(c, p) /\ \A q \in Parts : Stores(c, q)' => q = p
    BY <1>2, <1>4, <1>6 DEF WriteEnds, GetterGoes, GivesUpGet, Stores
  <2> QED BY <1>7, <2>1 DEF Stores
<1>9. AloneUnlessHazy'
  BY <1>3, <1>8 DEF FilesInv, AloneUnlessHazy
<1>10. RowsOfMessage'
  BY <1>3 DEF FilesInv, RowsOfMessage
<1>11. CASE GivesUpGet(c) /\ UNCHANGED cached /\ (p \in localPath => p \in hazy')
  <2>1. getterAt'[c] = "free"
    BY <1>2, <1>11 DEF GivesUpGet, GetterGoes
  <2>2. StoresOne'
    BY <1>7, <2>1 DEF FilesInv, StoresOne, OneFile
  <2>3. RenewsSameMail'
    BY <1>3, <1>7, <1>8, <2>1 DEF FilesInv, RenewsSameMail, CacheTypeOK, Stores
  <2>4. WritesItsBytes' /\ HasWritten'
    BY <1>3, <1>7, <1>11, <2>1 DEF FilesInv, WritesItsBytes, HasWritten, WholeOf, IsThere
  <2>5. CachedFileIsThePart'
    <3> SUFFICES ASSUME NEW q \in localPath' \ hazy'
                 PROVE  \/ ~IsThere(cached[q])
                        \/ \E d \in Getters : Writing(d, q)'
                        \/ cached[q] = [whole |-> TRUE, of |-> {stands}]
      BY <1>3, <1>11 DEF CachedFileIsThePart, IsThere
    <3>1. q # p /\ q \in localPath \ hazy
      BY <1>3, <1>11
    <3>2. \A d \in Getters : Writing(d, q) => Writing(d, q)'
      BY <1>4, <1>7, <3>1 DEF Writing
    <3> QED BY <3>1, <3>2 DEF FilesInv, CachedFileIsThePart
  <2> QED BY <1>1, <1>9, <1>10, <2>2, <2>3, <2>4, <2>5 DEF FilesInv
<1>12. CASE /\ GetterGoes(c, "record") /\ UNCHANGED <<fetching, hazy>>
            /\ cached' = IF fetching[c].keeps
                         THEN [cached EXCEPT ![p].whole = ~(\E d \in Getters \ {c} : Writing(d, p))]
                         ELSE cached
  <2>1. getterAt'[c] = "record" /\ \A d \in Getters : fetching'[d] = fetching[d]
    BY <1>2, <1>12 DEF GetterGoes
  <2>2. StoresOne'
    BY <1>3, <1>7, <2>1 DEF FilesInv, StoresOne, OneFile
  <2>3. RenewsSameMail'
    BY <1>3, <1>8, <1>12 DEF FilesInv, RenewsSameMail, CacheTypeOK
  <2>4. p \notin hazy => ~(\E d \in Getters \ {c} : Writing(d, p))
    BY <1>6 DEF FilesInv, AloneUnlessHazy, Stores, Writing
  <2>5. p \notin hazy =>
          IF fetching[c].keeps THEN cached'[p] = [whole |-> TRUE, of |-> {fetching[c].of}]
          ELSE cached'[p] = NoFile
    <3> SUFFICES ASSUME p \notin hazy
                 PROVE IF fetching[c].keeps
                       THEN cached'[p] = [whole |-> TRUE, of |-> {fetching[c].of}]
                       ELSE cached'[p] = NoFile
      OBVIOUS
    <3>1. IF fetching[c].keeps THEN cached[p].of = {fetching[c].of} ELSE cached[p] = NoFile
      BY <1>3, <1>4 DEF FilesInv, WritesItsBytes
    <3>2. CASE fetching[c].keeps
      <4>1. cached' = [cached EXCEPT ![p].whole = TRUE]
        BY <1>12, <2>4, <3>2
      <4> QED BY <1>2, <3>1, <3>2, <4>1 DEF File
    <3>3. CASE ~fetching[c].keeps
      BY <1>12, <3>1, <3>3
    <3> QED BY <3>2, <3>3
  <2>6. \A q \in Parts \ {p} : cached'[q] = cached[q]
    BY <1>2, <1>12
  <2>7. \A d \in Getters \ {c} : p \notin hazy => ~Stores(d, p)
    BY <1>6 DEF FilesInv, AloneUnlessHazy
  <2>8. WritesItsBytes'
    <3> SUFFICES ASSUME NEW d \in Getters, NEW q \in Parts \ hazy,
                        getterAt'[d] = "writing", q \in fetching[d].now
                 PROVE  IF fetching[d].keeps THEN cached'[q].of = {fetching[d].of}
                        ELSE cached'[q] = NoFile
      BY <1>12 DEF WritesItsBytes
    <3>1. d # c /\ getterAt[d] = "writing" /\ Stores(d, q)
      BY <1>7, <2>1 DEF Stores
    <3>2. q # p
      BY <2>7, <3>1
    <3> QED BY <2>6, <3>1, <3>2 DEF FilesInv, WritesItsBytes
  <2>9. HasWritten'
    <3> SUFFICES ASSUME NEW d \in Getters, NEW q \in Parts \ hazy,
                        getterAt'[d] = "record", q \in fetching[d].now
                 PROVE  \/ ~IsThere(cached'[q])
                        \/ cached'[q] = [whole |-> TRUE, of |-> {fetching[d].of}]
      BY <1>12 DEF HasWritten, WholeOf, IsThere
    <3>1. CASE d = c
      BY <1>4, <2>5, <3>1 DEF NoFile, IsThere
    <3>2. CASE d # c
      <4>1. getterAt[d] = "record" /\ Stores(d, q) /\ q # p
        BY <1>7, <2>7, <3>2 DEF Stores
      <4> QED BY <2>6, <4>1 DEF FilesInv, HasWritten, WholeOf
    <3> QED BY <3>1, <3>2
  <2>10. CachedFileIsThePart'
    <3> SUFFICES ASSUME NEW q \in localPath \ hazy
                 PROVE  \/ ~IsThere(cached'[q])
                        \/ \E d \in Getters : Writing(d, q)'
                        \/ cached'[q] = [whole |-> TRUE, of |-> {stands}]
      BY <1>3, <1>12 DEF CachedFileIsThePart, IsThere
    <3>1. CASE q = p
      <4>1. fetching[c].of = stands
        BY <1>6, <3>1 DEF FilesInv, RenewsSameMail
      <4> QED BY <2>5, <3>1, <4>1 DEF NoFile, IsThere
    <3>2. CASE q # p
      <4>1. \A d \in Getters : Writing(d, q) => Writing(d, q)'
        BY <1>4, <1>7, <1>12, <3>2 DEF Writing
      <4>2. q \in Parts
        BY DEF FilesInv, CacheTypeOK
      <4> QED BY <2>6, <3>2, <4>1, <4>2 DEF FilesInv, CachedFileIsThePart
    <3> QED BY <3>1, <3>2
  <2> QED BY <1>1, <1>9, <1>10, <2>2, <2>3, <2>8, <2>9, <2>10 DEF FilesInv
<1> QED BY <1>5, <1>11, <1>12 DEF WriteEnds

(* The row is told of the file, which is whole and of one mail by then, or *)
(* the part is hazy.                                                       *)
LEMMA RecordKeeps ==
    ASSUME FilesInv, NEW c \in Getters, RecordPath(c)
    PROVE  FilesInv'
<1>1. CacheTypeOK'
  BY GetterTypes DEF FilesInv
<1>2. fetching \in [Getters -> Fetch] /\ getterAt \in [Getters -> GetterState]
  BY DEF FilesInv, CacheTypeOK, Fetch, GetterState
<1>3. getterAt[c] = "record" /\ UNCHANGED <<stands, listed, cached>> /\ hazy \subseteq hazy'
  BY DEF RecordPath
<1>4. PICK p \in Parts : fetching[c].now = {p}
  BY <1>3 DEF FilesInv, StoresOne, OneFile
<1>5. Stores(c, p)
  BY <1>3, <1>4 DEF Stores
<1>6. /\ \A d \in Getters \ {c} : getterAt'[d] = getterAt[d] /\ fetching'[d] = fetching[d]
      /\ getterAt'[c] \in {"free", "store"}
      /\ getterAt'[c] = "store" => fetching'[c].of = fetching[c].of
  BY <1>2 DEF RecordPath, GetsOn, GivesUpGet, GetterGoes, Fetch
<1>7. \A d \in Getters : \A q \in Parts : Stores(d, q)' => d # c /\ Stores(d, q)
  BY <1>6 DEF Stores
<1>8. localPath' \subseteq localPath \cup {p}
  BY <1>4 DEF RecordPath
<1>9. p \in localPath' /\ p \notin hazy' => p \in localPath \/ fetching[c].of = stands
  BY <1>4 DEF RecordPath
<1>10. p \notin hazy => \A d \in Getters \ {c} : ~Stores(d, p)
  BY <1>5 DEF FilesInv, AloneUnlessHazy
<1>11. StoresOne' /\ RowsOfMessage'
  BY <1>3, <1>6 DEF FilesInv, StoresOne, OneFile, RowsOfMessage
<1>12. AloneUnlessHazy'
  BY <1>3, <1>7 DEF FilesInv, AloneUnlessHazy
<1>13. RenewsSameMail'
  <2> SUFFICES ASSUME NEW d \in Getters, NEW q \in localPath' \ hazy', Stores(d, q)'
               PROVE  fetching'[d].of = stands
    BY <1>3 DEF RenewsSameMail
  <2>1. d # c /\ Stores(d, q) /\ q \in Parts
    BY <1>1, <1>7 DEF CacheTypeOK
  <2>2. q # p
    BY <1>3, <1>10, <2>1
  <2> QED BY <1>3, <1>6, <1>8, <2>1, <2>2 DEF FilesInv, RenewsSameMail
<1>14. WritesItsBytes' /\ HasWritten'
  BY <1>3, <1>6 DEF FilesInv, WritesItsBytes, HasWritten, WholeOf, IsThere
<1>15. CachedFileIsThePart'
  <2> SUFFICES ASSUME NEW q \in localPath' \ hazy'
               PROVE  \/ ~IsThere(cached[q])
                      \/ \E d \in Getters : Writing(d, q)'
                      \/ cached[q] = [whole |-> TRUE, of |-> {stands}]
    BY <1>3 DEF CachedFileIsThePart, IsThere
  <2>1. \A d \in Getters : Writing(d, q) => Writing(d, q)'
    BY <1>3, <1>6 DEF Writing
  <2>2. CASE q \in localPath
    BY <1>3, <2>1, <2>2 DEF FilesInv, CachedFileIsThePart
  <2>3. CASE q \notin localPath
    <3>1. q = p /\ fetching[c].of = stands
      BY <1>8, <1>9, <2>3
    <3> QED BY <1>3, <1>4, <3>1 DEF FilesInv, HasWritten, WholeOf
  <2> QED BY <2>2, <2>3
<1> QED BY <1>1, <1>11, <1>12, <1>13, <1>14, <1>15 DEF FilesInv

-----------------------------------------------------------------------------
(* A crash forgets every command; a recorded file that was being written   *)
(* is torn, and its part hazy.                                             *)
LEMMA CrashKeeps ==
    ASSUME FilesInv, CacheCrash
    PROVE  FilesInv'
<1>1. CacheTypeOK'
  BY OtherTypes DEF FilesInv
<1>2. UNCHANGED <<stands, listed, localPath, cached>> /\ hazy \subseteq hazy'
  BY DEF CacheCrash, acTables
<1>3. \A c \in Getters : getterAt'[c] = "free"
  BY DEF CacheCrash
<1>4. StoresOne' /\ RowsOfMessage'
  BY <1>2, <1>3 DEF FilesInv, StoresOne, RowsOfMessage
<1>5. AloneUnlessHazy' /\ RenewsSameMail' /\ WritesItsBytes' /\ HasWritten'
  BY <1>3 DEF AloneUnlessHazy, RenewsSameMail, WritesItsBytes, HasWritten, Stores
<1>6. ASSUME NEW p \in localPath \ hazy'
      PROVE  ~IsThere(cached[p]) \/ WholeOf(p, stands)
  <2>1. p \notin hazy /\ ~(\E c \in Getters : Writing(c, p))
    BY DEF CacheCrash
  <2> QED BY <2>1 DEF FilesInv, CachedFileIsThePart, WholeOf
<1>7. CachedFileIsThePart'
  BY <1>2, <1>6 DEF CachedFileIsThePart, IsThere, WholeOf
<1> QED BY <1>1, <1>4, <1>5, <1>7 DEF FilesInv

LEMMA FilesInit == CacheInit => FilesInv
<1> SUFFICES ASSUME CacheInit PROVE FilesInv
  OBVIOUS
<1> USE AttachmentAssumption DEF CacheInit
<1>1. CacheTypeOK
  <2>1. Nothing \in Fetch /\ NoFile \in File
    BY DEF Nothing, Fetch, NoFile, File
  <2>2. cached \in [Parts -> File] /\ fetching \in [Getters -> Fetch]
        /\ getterAt \in [Getters -> GetterState]
    BY <2>1 DEF GetterState
  <2>3. serverHas \in 1 .. MaxMails /\ stands \in 1 .. MaxMails /\ gets \in 0 .. MaxGets
        /\ sweeps \in 0 .. MaxSweeps /\ breaks \in 0 .. MaxBreaks
    OBVIOUS
  <2> QED BY <2>2, <2>3 DEF CacheTypeOK, Fetch, File, GetterState
<1>2. StoresOne /\ RowsOfMessage
  BY DEF StoresOne, RowsOfMessage, NoRow
<1>3. AloneUnlessHazy /\ RenewsSameMail /\ WritesItsBytes /\ HasWritten
  BY DEF AloneUnlessHazy, RenewsSameMail, WritesItsBytes, HasWritten, Stores
<1>4. CachedFileIsThePart
  BY DEF CachedFileIsThePart
<1> QED BY <1>1, <1>2, <1>3, <1>4 DEF FilesInv

LEMMA FilesNext == FilesInv /\ [CacheNext]_acVars => FilesInv'
<1> SUFFICES ASSUME FilesInv, [CacheNext]_acVars PROVE FilesInv'
  OBVIOUS
<1>1. ASSUME NEW c \in Getters,
             \/ \E wanted \in Wants : AskFor(c, wanted)
             \/ LookUpRows(c) \/ CheckFiles(c) \/ Resolve(c) \/ FetchParts(c)
      PROVE  FilesInv'
  BY <1>1, BeforeStoring
<1>2. ASSUME NEW c \in Getters, NEW p \in Parts, WriteBegins(c, p) PROVE FilesInv'
  BY <1>2, WriteBeginsKeeps
<1>3. ASSUME NEW c \in Getters, WriteEnds(c) PROVE FilesInv'
  BY <1>3, WriteEndsKeeps
<1>4. ASSUME NEW c \in Getters, RecordPath(c) PROVE FilesInv'
  BY <1>4, RecordKeeps
<1>5. CASE ServerRenumbers \/ MessageArrives
  <2>1. CacheTypeOK' /\ (stands' = stands \/ localPath' = {})
    BY <1>5, OtherTypes DEF FilesInv, RowsOfMessage, CacheTypeOK, ServerRenumbers, MessageArrives,
                            acTables
  <2>2. RowsOfMessage'
    BY <1>5, AttachmentAssumption DEF FilesInv, RowsOfMessage, CacheTypeOK, ServerRenumbers,
                                      MessageArrives, acTables, NoRow
  <2> QED BY <1>5, <2>1, <2>2, TablesMoveOn DEF ServerRenumbers, MessageArrives, acTables
<1>6. CASE FolderWiped \/ BodyStored \/ UserDeletes
  <2>1. CacheTypeOK'
    BY <1>6, OtherTypes DEF FilesInv
  <2>2. RowsOfMessage'
    BY <1>6 DEF RowsOfMessage, FolderWiped, BodyStored, UserDeletes, MessageGoes
  <2> QED BY <1>6, <2>1, <2>2, PathsGo DEF FolderWiped, BodyStored, UserDeletes, MessageGoes,
                                          ForgetPaths, WithoutPaths
<1>7. CASE CleanAfterDelete \/ RemoveOrphan
  <2>1. CacheTypeOK'
    BY <1>7, OtherTypes DEF FilesInv
  <2>2. CASE DirectoryGoes
    BY <1>7, <2>1, <2>2, FilesGo DEF CleanAfterDelete, RemoveOrphan, acTables
  <2>3. CASE UNCHANGED <<cached, fetching>>
    <3>1. RowsOfMessage'
      BY <1>7 DEF FilesInv, RowsOfMessage, CleanAfterDelete, RemoveOrphan, acTables
    <3> QED BY <1>7, <2>1, <2>3, <3>1, TablesMoveOn
            DEF CleanAfterDelete, RemoveOrphan, acTables, acGetters
  <2> QED BY <1>7, <2>2, <2>3 DEF CleanAfterDelete, RemoveOrphan
<1>8. CASE SweepBegins \/ ScanPaths \/ ClearStale
  <2>1. CacheTypeOK'
    BY <1>8, OtherTypes DEF FilesInv
  <2>2. RowsOfMessage'
    BY <1>8 DEF FilesInv, RowsOfMessage, SweepBegins, ScanPaths, ClearStale, acTables
  <2> QED BY <1>8, <2>1, <2>2, TablesMoveOn DEF SweepBegins, ScanPaths, ClearStale, acTables
<1>9. CASE CacheCrash
  BY <1>9, CrashKeeps
<1>10. CASE UNCHANGED acVars
  BY <1>10 DEF acVars, acTables, acGetters, acSweeper, acBounds, FilesInv, CacheTypeOK, StoresOne,
       OneFile, RowsOfMessage, AloneUnlessHazy, RenewsSameMail, WritesItsBytes, HasWritten,
       WholeOf, CachedFileIsThePart, Stores, Writing, IsThere
<1> QED BY <1>1, <1>2, <1>3, <1>4, <1>5, <1>6, <1>7, <1>8, <1>9, <1>10 DEF CacheNext

(* Types, and what an opened attachment shows, whatever the parts, the     *)
(* commands at once, the renumberings, the crashes and the sweeps.         *)
THEOREM FilesTypeCorrect == CacheSpec => []CacheTypeOK
<1>1. FilesInv => CacheTypeOK
  BY DEF FilesInv
<1> QED BY FilesInit, FilesNext, <1>1, PTL DEF CacheSpec

(* A recorded file that exists is whole and the part of the row's own mail *)
(* unless it is being renewed or the part was written by two at once,      *)
(* across a renumbering, or torn by a failed renewal.                      *)
THEOREM RecordedFilesFit == CacheSpec => []CachedFileIsThePart
<1>1. FilesInv => CachedFileIsThePart
  BY DEF FilesInv
<1> QED BY FilesInit, FilesNext, <1>1, PTL DEF CacheSpec

-----------------------------------------------------------------------------
(***************************************************************************)
(* Side by side: what a behaviour of ClientParts lets a part do is a       *)
(* behaviour of that part alone, so that every theorem about a part is one *)
(* about ClientParts.                                                      *)
(***************************************************************************)

(* The session, the dock, the attachments' files and the moves each run as *)
(* they do alone: composing them adds no step to any.                      *)
THEOREM ClientPartsRunAlone ==
    ClientSpec => SessSpec /\ DraftSpec /\ CacheSpec /\ MovesSpec
<1>1. ClientInit => SessInit /\ DraftInit /\ CacheInit /\ MovesInit
  BY DEF ClientInit
<1>2. ASSUME [ClientNext]_clientPartsVars
      PROVE  /\ [SessNext]_sessVars /\ [DraftNext]_daVars
             /\ [CacheNext]_acVars /\ [MovesNext]_mmVars
  BY <1>2 DEF ClientNext, clientPartsVars
<1> QED BY <1>1, <1>2, PTL DEF ClientSpec, SessSpec, DraftSpec, CacheSpec, MovesSpec

(* All their variables have their types.                                   *)
THEOREM ClientTypesCorrect == ClientSpec => []ClientTypeOK
<1>1. SessTypeOK /\ DraftTypeOK /\ CacheTypeOK /\ MovesTypeOK => ClientTypeOK
  BY DEF ClientTypeOK
<1> QED BY <1>1, ClientPartsRunAlone, SessTypeCorrect, DraftsTypeCorrect, FilesTypeCorrect,
           MovesTypeCorrect, PTL
=============================================================================

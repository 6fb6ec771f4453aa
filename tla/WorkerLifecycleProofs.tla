----------------------- MODULE WorkerLifecycleProofs -----------------------
(***************************************************************************)
(* Proofs about WorkerLifecycle, for any number of accounts, callers,      *)
(* calls, stops and failures and any capacity of the channels: an account  *)
(* never has two workers, the map names no worker that has exited, and no  *)
(* wake-up is lost.                                                        *)
(*                                                                         *)
(* The argument: a handle enters the map only through a reservation, which *)
(* is exclusive and is given only for an account without a handle; it      *)
(* leaves only through stop_all, which owes its worker a Shutdown until    *)
(* that is in the channel; and a worker exits only on a Shutdown, which no *)
(* worker in the map has.                                                  *)
(***************************************************************************)
EXTENDS WorkerLifecycle, SequenceTheorems, TLAPS

Reserved == {"lookup", "insert", "release"}
CallerState == {"idle", "fast", "reserve", "check", "nudge", "send"} \cup Reserved
Running == InRound \cup {"select"}

(* The workers a Shutdown is under way to.                                 *)
Told == {w \in Worker : ToldToStop(w)}

(* What the types do not say of a caller's step and of a channel.          *)
Shapes ==
    /\ pc \in [Callers -> CallerState]
    /\ channel \in [Worker -> Seq(Message)]
    /\ \A c \in Callers : pc[c] = "send" => tx[c] # None
    /\ \A c \in Callers : pc[c] \in {"nudge", "send"} => job[c].op # "start"

(* A handle is that of a worker of its account, neither gone nor told.     *)
HandlesOwn ==
    \A a \in Accounts : workers[a] # None =>
        /\ workers[a] <= spawned
        /\ account[workers[a]] = a
        /\ task[workers[a]] \in Running \cup {"panicked"}
        /\ workers[a] \notin Told

(* Nobody has told a worker that is not spawned yet.                       *)
Unborn ==
    \A w \in Worker : w > spawned => task[w] = "unborn" /\ w \notin Told

(* A reservation is of one caller, and until the spawn there is no handle. *)
Reservations ==
    \A c \in Callers : pc[c] \in Reserved =>
        /\ job[c].acct \in starting
        /\ pc[c] # "release" => workers[job[c].acct] = None
        /\ \A d \in Callers : pc[d] \in Reserved /\ job[d].acct = job[c].acct
                                => d = c

(* Only stop_all itself has workers to tell.                               *)
ToldByStopAll == ~stopping => toStop = {}

Lives == HandlesOwn /\ Unborn /\ OneWorkerPerAccount

LifeInv == TypeOK /\ Shapes /\ Lives /\ Reservations /\ ToldByStopAll

---------------------------------------------------------------------------
(* Before the first call nothing runs.                                     *)
LEMMA LifeInit == Init => LifeInv
<1> SUFFICES ASSUME Init PROVE LifeInv
  OBVIOUS
<1> USE LifecycleAssumption DEF Init
<1>1. \A w \in Worker : channel[w] = <<>> /\ task[w] = "unborn"
  OBVIOUS
<1>2. ASSUME NEW w \in Worker
      PROVE  /\ ~ToldToStop(w)
             /\ channel[w] \in Seq(Message) /\ Len(channel[w]) <= Capacity
  <2>1. w \notin toStop
    OBVIOUS
  <2> HIDE DEF Init
  <2>2. channel[w] \in Seq(Message) /\ Len(channel[w]) = 0
    BY <1>1, EmptySeq
  <2>3. 1..Len(channel[w]) = {}
    BY <2>2
  <2> QED BY <2>1, <2>2, <2>3 DEF ToldToStop
<1>3. TypeOK
  <2>1. NoOne \notin Callers
    BY NoOneAssumption
  <2>2. /\ job \in [Callers -> [acct : Accounts, op : Call]]
        /\ tx \in [Callers -> Worker \cup {None}]
        /\ workers \in [Accounts -> Worker \cup {None}]
    BY DEF Call
  <2>3. /\ task \in [Worker -> {"unborn", "select"} \cup InRound \cup Dead]
        /\ account \in [Worker -> Accounts]
        /\ owed \in [Accounts -> BOOLEAN] /\ skipped \in [Accounts -> BOOLEAN]
    OBVIOUS
  <2>4. \A w \in Worker : /\ channel[w] \in Seq(Message)
                          /\ Len(channel[w]) <= Capacity
    BY <1>2 DEF Message
  <2>5. ASSUME NEW c \in Callers PROVE pc[c] = "check" <=> holder = c
    <3>1. pc[c] = "idle" /\ holder = NoOne
      OBVIOUS
    <3> QED BY <2>1, <3>1
  <2>6. /\ starting \subseteq Accounts /\ holder \in Callers \cup {NoOne}
        /\ toStop \subseteq Worker /\ stopping \in BOOLEAN
        /\ spawned \in 0..MaxCalls /\ hung = {}
    BY 0 \in 0..MaxCalls
  <2> HIDE DEF Init
  <2> QED BY <2>2, <2>3, <2>4, <2>5, <2>6 DEF TypeOK
<1>4. Shapes
  <2>1. "idle" \in CallerState
    BY DEF CallerState
  <2>2. pc \in [Callers -> CallerState] /\ \A c \in Callers : pc[c] = "idle"
    BY <2>1
  <2>3. channel \in [Worker -> Seq(Message)]
    BY <1>2
  <2> QED BY <2>2, <2>3 DEF Shapes
<1>5. HandlesOwn /\ Unborn /\ OneWorkerPerAccount
  BY <1>1, <1>2 DEF Told, HandlesOwn, Unborn, OneWorkerPerAccount, None, InRound
<1>6. Reservations /\ ToldByStopAll
  BY DEF Reservations, Reserved, ToldByStopAll
<1> QED BY <1>3, <1>4, <1>5, <1>6 DEF LifeInv, Lives

---------------------------------------------------------------------------
(* Callers.                                                                *)

(* A caller that goes on keeps its account, and no other moves.            *)
LEMMA GoesOn ==
  ASSUME LifeInv, NEW c \in Callers, NEW next \in CallerState, GoesTo(c, next)
  PROVE  /\ pc' \in [Callers -> CallerState]
         /\ pc'[c] = next
         /\ \A d \in Callers : d # c => pc'[d] = pc[d]
         /\ job' \in [Callers -> [acct : Accounts, op : Call]]
         /\ \A d \in Callers : job'[d].acct = job[d].acct
  BY DEF GoesTo, LifeInv, Shapes, TypeOK, Call

(* After ensure_worker it returns, or nudges when it has a message.        *)
LEMMA AfterEnsureIs ==
  ASSUME NEW c
  PROVE  /\ AfterEnsure(c) \in {"idle", "nudge"}
         /\ AfterEnsure(c) = "nudge" => job[c].op # "start"
  BY DEF AfterEnsure

(* A step that moves neither handles nor workers keeps what is said of them. *)
LEMMA NothingMoves ==
  ASSUME LifeInv, UNCHANGED <<workers, toStop, taskVars>>
  PROVE  Lives'
  BY DEF LifeInv, Lives, HandlesOwn, Unborn, OneWorkerPerAccount, Told,
         ToldToStop, taskVars

(* A caller outside a reservation leaves those of the others as they are.  *)
LEMMA ReservesNothing ==
  ASSUME LifeInv, NEW c \in Callers, UNCHANGED <<workers, starting>>,
         pc'[c] \notin Reserved,
         \A d \in Callers : d # c => pc'[d] = pc[d] /\ job'[d] = job[d]
  PROVE  Reservations'
  BY DEF LifeInv, Reservations

(* A call that begins asks for an account and waits for the map.           *)
LEMMA LifeBegin ==
  ASSUME LifeInv, NEW c \in Callers, NEW a \in Accounts, NEW op \in Call,
         Begin(c, a, op)
  PROVE  LifeInv'
<1> USE DEF Begin
<1>1. /\ pc' \in [Callers -> CallerState] /\ pc'[c] = "fast"
      /\ \A d \in Callers : d # c => pc'[d] = pc[d] /\ job'[d] = job[d]
  BY DEF LifeInv, Shapes, TypeOK, CallerState
<1>2. job' \in [Callers -> [acct : Accounts, op : Call]]
  BY DEF LifeInv, TypeOK
<1>3. TypeOK'
  <2>1. \A d \in Callers : pc'[d] = "check" <=> holder' = d
    BY <1>1 DEF LifeInv, TypeOK
  <2>2. owed' \in [Accounts -> BOOLEAN]
    BY DEF LifeInv, TypeOK
  <2> QED BY <1>2, <2>1, <2>2 DEF LifeInv, TypeOK, taskVars
<1>4. Shapes'
  BY <1>1 DEF LifeInv, Shapes, taskVars
<1>5. Lives'
  BY NothingMoves
<1>6. Reservations'
  BY <1>1, ReservesNothing DEF Reserved
<1> QED BY <1>3, <1>4, <1>5, <1>6 DEF LifeInv, ToldByStopAll

(* The look at the map, the wait for workers_starting, and the nudge that  *)
(* clones a sender reserve nothing.                                        *)
LEMMA LifeLook ==
  ASSUME LifeInv, NEW c \in Callers, FastPath(c) \/ LockStarting(c) \/ Nudge(c)
  PROVE  LifeInv'
<1> USE DEF LifeInv
<1>1. PICK next \in CallerState \ Reserved : GoesTo(c, next)
  <2>1. CASE FastPath(c)
    BY <2>1, AfterEnsureIs DEF FastPath, CallerState, Reserved
  <2>2. CASE LockStarting(c)
    BY <2>2 DEF LockStarting, CallerState, Reserved
  <2>3. CASE Nudge(c)
    BY <2>3 DEF Nudge, CallerState, Reserved
  <2> QED BY <2>1, <2>2, <2>3
<1>2. UNCHANGED <<workers, starting, toStop, stopping, taskVars, owed, skipped>>
  BY DEF FastPath, LockStarting, Nudge
<1>3. /\ pc' \in [Callers -> CallerState] /\ pc'[c] = next
      /\ \A d \in Callers : d # c => pc'[d] = pc[d]
      /\ job' \in [Callers -> [acct : Accounts, op : Call]]
      /\ \A d \in Callers : d # c => job'[d] = job[d]
  <2>1. \A d \in Callers : d # c => job'[d] = job[d]
    BY <1>1 DEF GoesTo, TypeOK
  <2> QED BY <1>1, <2>1, GoesOn
<1>4. /\ tx' \in [Callers -> Worker \cup {None}]
      /\ \A d \in Callers : pc'[d] = "send" => tx'[d] # None
  <2>1. CASE FastPath(c)
    BY <2>1, <1>3, AfterEnsureIs, GoesOn DEF FastPath, TypeOK, Shapes, GoesTo
  <2>2. CASE LockStarting(c)
    BY <2>2, <1>3 DEF LockStarting, TypeOK, Shapes, GoesTo
  <2>3. CASE Nudge(c)
    <3>1. workers[job[c].acct] \in Worker \cup {None}
      BY DEF TypeOK
    <3>2. tx' \in [Callers -> Worker \cup {None}]
      BY <2>3, <3>1 DEF Nudge, TypeOK
    <3>3. pc'[c] = "send" => tx'[c] # None
      BY <2>3 DEF Nudge, GoesTo, TypeOK, Shapes
    <3>4. \A d \in Callers : d # c => tx'[d] = tx[d]
      BY <2>3 DEF Nudge, TypeOK
    <3> QED BY <1>3, <3>2, <3>3, <3>4 DEF Shapes
  <2> QED BY <2>1, <2>2, <2>3
<1>5. /\ holder' \in Callers \cup {NoOne}
      /\ \A d \in Callers : pc'[d] = "check" <=> holder' = d
  <2>1. CASE FastPath(c)
    BY <2>1, <1>3, AfterEnsureIs DEF FastPath, TypeOK, Shapes, GoesTo
  <2>2. CASE LockStarting(c)
    BY <2>2, <1>3, NoOneAssumption DEF LockStarting, TypeOK, Shapes, GoesTo
  <2>3. CASE Nudge(c)
    BY <2>3, <1>3 DEF Nudge, TypeOK, Shapes, GoesTo
  <2> QED BY <2>1, <2>2, <2>3
<1>6. TypeOK'
  BY <1>2, <1>3, <1>4, <1>5 DEF TypeOK, taskVars
<1>7. Shapes'
  <2>1. ASSUME next \in {"nudge", "send"}
        PROVE  job'[c].op # "start"
    <3>1. job[c].op # "start"
      <4>1. CASE FastPath(c)
        BY <1>3, <2>1, <4>1, AfterEnsureIs DEF FastPath, GoesTo, Shapes
      <4>2. CASE LockStarting(c)
        BY <1>3, <2>1, <4>2 DEF LockStarting, GoesTo, Shapes
      <4>3. CASE Nudge(c)
        BY <4>3 DEF Nudge, Shapes
      <4> QED BY <4>1, <4>2, <4>3
    <3>2. job' = job
      BY <1>1, <2>1 DEF GoesTo
    <3> QED BY <3>1, <3>2
  <2> QED BY <1>2, <1>3, <1>4, <2>1 DEF Shapes, taskVars
<1>8. Lives'
  BY <1>2, NothingMoves
<1>9. Reservations'
  BY <1>2, <1>3, ReservesNothing
<1> QED BY <1>2, <1>6, <1>7, <1>8, <1>9 DEF ToldByStopAll

(* A caller that goes on without a sender and without the mutex is well    *)
(* shaped, provided it gave the mutex up if it had it.                     *)
LEMMA CallerShape ==
  ASSUME LifeInv, NEW c \in Callers, NEW next \in CallerState, GoesTo(c, next),
         next \notin {"check", "send"},
         next = "nudge" => job[c].op # "start",
         UNCHANGED <<tx, channel>>
  PROVE  /\ Shapes'
         /\ job' \in [Callers -> [acct : Accounts, op : Call]]
         /\ holder' = (IF pc[c] = "check" THEN NoOne ELSE holder)
              => /\ holder' \in Callers \cup {NoOne}
                 /\ \A d \in Callers : pc'[d] = "check" <=> holder' = d
<1>1. /\ pc' \in [Callers -> CallerState] /\ pc'[c] = next
      /\ \A d \in Callers : d # c => pc'[d] = pc[d]
      /\ job' \in [Callers -> [acct : Accounts, op : Call]]
  BY GoesOn
<1>2. Shapes'
  <2>1. next = "nudge" => job' = job
    BY DEF GoesTo
  <2>2. \A d \in Callers : d # c => job'[d] = job[d]
    BY DEF GoesTo, LifeInv, TypeOK
  <2> QED BY <1>1, <2>1, <2>2 DEF LifeInv, Shapes
<1>3. ASSUME holder' = (IF pc[c] = "check" THEN NoOne ELSE holder)
      PROVE  /\ holder' \in Callers \cup {NoOne}
             /\ \A d \in Callers : pc'[d] = "check" <=> holder' = d
  BY <1>1, <1>3, NoOneAssumption DEF LifeInv, TypeOK
<1> QED BY <1>1, <1>2, <1>3

(* A caller reserves the account only if nobody has, and there is no       *)
(* handle.                                                                 *)
LEMMA LifeReserve ==
  ASSUME LifeInv, NEW c \in Callers, Reserve(c)
  PROVE  LifeInv'
<1> DEFINE a == job[c].acct
           taken == workers[a] # None \/ AlreadyStarting(a)
           next == IF taken THEN AfterEnsure(c) ELSE "lookup"
<1> USE DEF LifeInv
<1>1. /\ pc[c] = "check" /\ GoesTo(c, next) /\ holder' = NoOne
      /\ starting' = IF taken THEN starting ELSE starting \cup {a}
      /\ UNCHANGED <<workers, toStop, stopping, tx, taskVars, owed, skipped>>
  BY DEF Reserve
<1>2. /\ next \in CallerState /\ next \notin {"check", "send"} /\ a \in Accounts
      /\ next = "nudge" => job[c].op # "start"
  BY AfterEnsureIs DEF CallerState, Reserved, TypeOK
<1>3. taken => next \notin Reserved
  BY AfterEnsureIs DEF Reserved
<1>4. next \in Reserved => ~taken
  BY <1>3
<1> HIDE DEF next
<1>5. /\ pc'[c] = next
      /\ \A d \in Callers : d # c => pc'[d] = pc[d]
      /\ \A d \in Callers : job'[d].acct = job[d].acct
  BY <1>1, <1>2, GoesOn
<1>6. /\ Shapes'
      /\ job' \in [Callers -> [acct : Accounts, op : Call]]
      /\ holder' \in Callers \cup {NoOne}
      /\ \A d \in Callers : pc'[d] = "check" <=> holder' = d
  BY <1>1, <1>2, CallerShape DEF taskVars
<1>7. TypeOK'
  BY <1>1, <1>2, <1>6 DEF TypeOK, taskVars
<1>8. Lives'
  BY <1>1, NothingMoves
<1>9. Reservations'
  <2>1. ASSUME NEW d \in Callers, pc'[d] \in Reserved
        PROVE  /\ job'[d].acct \in starting'
               /\ pc'[d] # "release" => workers'[job'[d].acct] = None
               /\ \A e \in Callers :
                     pc'[e] \in Reserved /\ job'[e].acct = job'[d].acct => e = d
    <3>1. CASE d = c
      <4>1. ~taken /\ a \notin starting /\ workers[a] = None
        BY <1>4, <1>5, <2>1, <3>1 DEF AlreadyStarting
      <4>2. a \in starting' /\ job'[d].acct = a /\ workers'[a] = None
        BY <1>1, <1>5, <3>1, <4>1
      <4>3. \A e \in Callers : e # c /\ pc[e] \in Reserved => job[e].acct \in starting
        BY DEF Reservations
      <4> QED BY <1>5, <3>1, <4>1, <4>2, <4>3
    <3>2. CASE d # c
      <4>1. /\ pc[d] \in Reserved /\ job[d].acct \in starting
            /\ pc[d] # "release" => workers[job[d].acct] = None
            /\ \A e \in Callers :
                  pc[e] \in Reserved /\ job[e].acct = job[d].acct => e = d
        BY <1>5, <2>1, <3>2 DEF Reservations
      <4>2. starting \subseteq starting'
        BY <1>1
      <4>3. pc'[c] \in Reserved => a # job[d].acct
        BY <1>4, <1>5, <4>1 DEF AlreadyStarting
      <4> QED BY <1>1, <1>5, <3>2, <4>1, <4>2, <4>3
    <3> QED BY <3>1, <3>2
  <2> QED BY <2>1 DEF Reservations
<1> QED BY <1>1, <1>6, <1>7, <1>8, <1>9 DEF ToldByStopAll

(* The look-up keeps the reservation, whichever way it ends.               *)
LEMMA LifeLookUp ==
  ASSUME LifeInv, NEW c \in Callers, LookUp(c)
  PROVE  LifeInv'
<1> USE DEF LifeInv
<1>1. PICK next \in {"insert", "release"} : GoesTo(c, next)
  BY DEF LookUp
<1>2. /\ pc[c] = "lookup"
      /\ UNCHANGED <<workers, starting, holder, toStop, stopping, tx,
                     taskVars, owed, skipped>>
  BY DEF LookUp
<1>3. next \in CallerState /\ next \notin {"check", "send"}
  BY DEF CallerState, Reserved
<1>4. /\ pc'[c] = next
      /\ \A d \in Callers : d # c => pc'[d] = pc[d]
      /\ \A d \in Callers : job'[d].acct = job[d].acct
  BY <1>1, <1>3, GoesOn
<1>5. /\ Shapes'
      /\ job' \in [Callers -> [acct : Accounts, op : Call]]
      /\ holder' \in Callers \cup {NoOne}
      /\ \A d \in Callers : pc'[d] = "check" <=> holder' = d
  BY <1>1, <1>2, <1>3, CallerShape DEF taskVars
<1>6. TypeOK'
  BY <1>2, <1>5 DEF TypeOK, taskVars
<1>7. Lives'
  BY <1>2, NothingMoves
<1>8. Reservations'
  <2>1. ASSUME NEW d \in Callers
        PROVE  /\ pc'[d] \in Reserved => pc[d] \in Reserved
               /\ pc'[d] \in Reserved \ {"release"} => pc[d] \in Reserved \ {"release"}
    BY <1>2, <1>4 DEF Reserved
  <2> QED BY <1>2, <1>4, <2>1 DEF Reservations
<1> QED BY <1>2, <1>5, <1>6, <1>7, <1>8 DEF ToldByStopAll

(* The guard's drop ends the reservation, or leaves the account reserved   *)
(* by nobody.                                                              *)
LEMMA LifeRelease ==
  ASSUME LifeInv, NEW c \in Callers, Release(c)
  PROVE  LifeInv'
<1> DEFINE next == AfterEnsure(c)
<1> USE DEF LifeInv
<1>1. /\ pc[c] = "release" /\ GoesTo(c, next)
      /\ starting' = IF holder = NoOne THEN starting \ {job[c].acct} ELSE starting
      /\ UNCHANGED <<workers, holder, toStop, stopping, tx, taskVars, owed,
                     skipped>>
  BY DEF Release
<1>2. /\ next \in CallerState /\ next \notin {"check", "send"}
      /\ next \notin Reserved
      /\ next = "nudge" => job[c].op # "start"
  BY AfterEnsureIs DEF CallerState, Reserved
<1> HIDE DEF next
<1>3. /\ pc'[c] = next
      /\ \A d \in Callers : d # c => pc'[d] = pc[d]
      /\ \A d \in Callers : job'[d].acct = job[d].acct
  BY <1>1, <1>2, GoesOn
<1>4. /\ Shapes'
      /\ job' \in [Callers -> [acct : Accounts, op : Call]]
      /\ holder' \in Callers \cup {NoOne}
      /\ \A d \in Callers : pc'[d] = "check" <=> holder' = d
  BY <1>1, <1>2, CallerShape DEF taskVars
<1>5. TypeOK'
  BY <1>1, <1>4 DEF TypeOK, taskVars
<1>6. Lives'
  BY <1>1, NothingMoves
<1>7. Reservations'
  <2>1. ASSUME NEW d \in Callers, pc'[d] \in Reserved
        PROVE  d # c /\ pc[d] \in Reserved /\ job[d].acct # job[c].acct
    BY <1>1, <1>2, <1>3, <2>1 DEF Reservations, Reserved
  <2>2. ASSUME NEW d \in Callers, pc'[d] \in Reserved
        PROVE  job[d].acct \in starting'
    BY <1>1, <2>1, <2>2 DEF Reservations
  <2> QED BY <1>1, <1>3, <2>1, <2>2 DEF Reservations
<1> QED BY <1>1, <1>4, <1>5, <1>6, <1>7 DEF ToldByStopAll

(* The spawn: the account has no handle, so whoever still works for it has *)
(* been told to stop; the new worker is in the map.                        *)
LEMMA LifeInsert ==
  ASSUME LifeInv, NEW c \in Callers, Insert(c)
  PROVE  LifeInv'
<1> DEFINE w == spawned + 1
           a == job[c].acct
<1> USE DEF LifeInv
<1>1. /\ pc[c] = "insert" /\ spawned < MaxCalls /\ spawned' = w
      /\ workers' = [workers EXCEPT ![a] = w]
      /\ task' = [task EXCEPT ![w] = "poll"]
      /\ account' = [account EXCEPT ![w] = a]
      /\ GoesTo(c, "release")
      /\ UNCHANGED <<starting, holder, toStop, stopping, tx, channel, hung,
                     owed, skipped>>
  BY DEF Insert, FirstState
<1>2. /\ spawned \in 0..MaxCalls /\ w \in 1..MaxCalls /\ w > spawned
      /\ w \in Worker /\ w # None /\ a \in Accounts
  BY <1>1, LifecycleAssumption DEF TypeOK, Worker, None
<1> HIDE DEF w
<1>3. "release" \in CallerState
  BY DEF CallerState, Reserved
<1>4. /\ pc'[c] = "release"
      /\ \A d \in Callers : d # c => pc'[d] = pc[d]
      /\ \A d \in Callers : job'[d].acct = job[d].acct
  BY <1>1, <1>3, GoesOn
<1>5. /\ Shapes'
      /\ job' \in [Callers -> [acct : Accounts, op : Call]]
      /\ holder' \in Callers \cup {NoOne}
      /\ \A d \in Callers : pc'[d] = "check" <=> holder' = d
  BY <1>1, <1>3, CallerShape
<1>6. TypeOK'
  <2>1. workers' \in [Accounts -> Worker \cup {None}]
    BY <1>1, <1>2 DEF TypeOK
  <2>2. task' \in [Worker -> {"unborn", "select"} \cup InRound \cup Dead]
    BY <1>1, <1>2 DEF TypeOK, InRound
  <2>3. account' \in [Worker -> Accounts] /\ spawned' \in 0..MaxCalls
    BY <1>1, <1>2 DEF TypeOK
  <2>4. \A v \in hung' : v \in Worker /\ task'[v] \in InRound
    BY <1>1, <1>2 DEF TypeOK, InRound
  <2> QED BY <1>1, <1>5, <2>1, <2>2, <2>3, <2>4 DEF TypeOK
<1>7. /\ task'[w] = "poll" /\ account'[w] = a /\ workers'[a] = w
      /\ \A v \in Worker : v # w => task'[v] = task[v] /\ account'[v] = account[v]
      /\ \A b \in Accounts : b # a => workers'[b] = workers[b]
  BY <1>1, <1>2 DEF TypeOK
<1>8. /\ workers[a] = None
      /\ \A d \in Callers : d # c /\ pc[d] \in Reserved => job[d].acct # a
  BY <1>1 DEF Reservations, Reserved
<1>9. Told' = Told /\ \A v \in Worker : ToldToStop(v)' <=> ToldToStop(v)
  BY <1>1 DEF Told, ToldToStop
<1>10. w \notin Told
  BY <1>2 DEF Lives, Unborn
<1>11. HandlesOwn'
  <2>1. ASSUME NEW b \in Accounts, workers'[b] # None
        PROVE  /\ workers'[b] <= spawned'
               /\ account'[workers'[b]] = b
               /\ task'[workers'[b]] \in Running \cup {"panicked"}
               /\ workers'[b] \notin Told'
    <3>1. CASE b = a
      <4>1. w <= spawned'
        BY <1>1, <1>2
      <4> QED BY <1>2, <1>7, <1>9, <1>10, <3>1, <4>1 DEF Running, InRound
    <3>2. CASE b # a
      <4>1. /\ workers'[b] = workers[b] /\ workers[b] # None /\ workers[b] \in Worker
            /\ workers[b] <= spawned /\ account[workers[b]] = b
            /\ task[workers[b]] \in Running \cup {"panicked"}
            /\ workers[b] \notin Told
        BY <1>7, <2>1, <3>2 DEF Lives, HandlesOwn, TypeOK
      <4>2. workers[b] # w /\ workers[b] <= spawned'
        BY <1>1, <1>2, <4>1 DEF Worker
      <4> QED BY <1>7, <1>9, <4>1, <4>2
    <3> QED BY <3>1, <3>2
  <2> QED BY <2>1 DEF HandlesOwn
<1>12. Unborn'
  <2>1. ASSUME NEW v \in Worker, v > spawned' PROVE v > spawned /\ v # w
    BY <1>1, <1>2, <2>1 DEF Worker
  <2> QED BY <1>7, <1>9, <2>1 DEF Lives, Unborn
<1>13. OneWorkerPerAccount'
  <2>1. ASSUME NEW v \in Worker, task'[v] \in InRound \cup {"select"}
        PROVE  workers'[account'[v]] = v \/ ToldToStop(v)'
    <3>1. CASE v = w
      BY <1>7, <3>1
    <3>2. CASE v # w
      <4>1. workers[account[v]] = v \/ ToldToStop(v)
        BY <1>7, <2>1, <3>2 DEF Lives, OneWorkerPerAccount
      <4>2. workers[account[v]] = v => account[v] # a
        BY <1>8 DEF Worker, None
      <4> QED BY <1>7, <1>9, <3>2, <4>1, <4>2 DEF TypeOK
    <3> QED BY <3>1, <3>2
  <2> QED BY <2>1 DEF OneWorkerPerAccount
<1>14. Reservations'
  <2>1. "release" \in Reserved
    BY DEF Reserved
  <2>2. ASSUME NEW d \in Callers, pc'[d] \in Reserved
        PROVE  /\ job'[d].acct \in starting'
               /\ pc'[d] # "release" => workers'[job'[d].acct] = None
               /\ \A e \in Callers :
                     pc'[e] \in Reserved /\ job'[e].acct = job'[d].acct => e = d
    <3>1. pc[d] \in Reserved /\ pc[c] \in Reserved
      BY <1>1, <1>4, <2>2 DEF Reserved
    <3>2. d # c => job[d].acct # a /\ job[d].acct \in Accounts
      BY <1>8, <3>1 DEF TypeOK
    <3>3. ASSUME NEW e \in Callers, pc'[e] \in Reserved, job'[e].acct = job'[d].acct
          PROVE  e = d
      <4>1. pc[e] \in Reserved
        BY <1>4, <3>1, <3>3
      <4> QED BY <1>4, <3>1, <3>3, <4>1 DEF Reservations
    <3>4. pc'[d] # "release" => workers'[job'[d].acct] = None
      BY <1>4, <1>7, <3>1, <3>2 DEF Reservations
    <3> QED BY <1>1, <1>4, <3>1, <3>3, <3>4 DEF Reservations
  <2> QED BY <2>2 DEF Reservations
<1> QED BY <1>1, <1>5, <1>6, <1>11, <1>12, <1>13, <1>14 DEF ToldByStopAll, Lives

(* A Shutdown waits in the worker's channel.                               *)
Announced(w) == \E i \in 1..Len(channel[w]) : channel[w][i] = "Shutdown"

(* A message that is sent waits behind the others, if there is a receiver. *)
LEMMA ChannelGrows ==
  ASSUME LifeInv, NEW w \in Worker, NEW op \in Message, Sent(w, op)
  PROVE  /\ channel' \in [Worker -> Seq(Message)]
         /\ \A v \in Worker : Len(channel'[v]) <= Capacity
         /\ \A v \in Worker : v # w => (Announced(v)' <=> Announced(v))
         /\ Announced(w) => Announced(w)'
         /\ op # "Shutdown" => (Announced(w)' <=> Announced(w))
         /\ op = "Shutdown" /\ task[w] \notin Dead => Announced(w)'
<1> USE DEF LifeInv
<1>0. /\ channel \in [Worker -> Seq(Message)] /\ Capacity \in Nat
      /\ \A v \in Worker : Len(channel[v]) <= Capacity
  BY LifecycleAssumption DEF TypeOK, Shapes
<1>1. CASE task[w] \in Dead
  <2>1. channel' = channel
    BY <1>1 DEF Sent
  <2> QED BY <1>0, <1>1, <2>1 DEF Announced
<1>2. CASE task[w] \notin Dead
  <2> DEFINE old == channel[w]
             new == Append(old, op)
  <2>1. Len(old) < Capacity /\ channel' = [channel EXCEPT ![w] = new]
    BY <1>2 DEF Sent
  <2>2. old \in Seq(Message)
    BY <1>0
  <2>3. /\ new \in Seq(Message) /\ Len(new) = Len(old) + 1 /\ Len(old) \in Nat
        /\ \A i \in 1..Len(old) : new[i] = old[i]
        /\ new[Len(old) + 1] = op
    BY <2>2, AppendProperties, LenProperties
  <2> HIDE DEF old, new
  <2>4. channel'[w] = new /\ \A v \in Worker : v # w => channel'[v] = channel[v]
    BY <1>0, <2>1
  <2>5. channel' \in [Worker -> Seq(Message)]
    BY <1>0, <2>1, <2>3
  <2>6. \A v \in Worker : Len(channel'[v]) <= Capacity
    BY <1>0, <2>1, <2>3, <2>4
  <2>7. \A v \in Worker : v # w => (Announced(v)' <=> Announced(v))
    BY <2>4 DEF Announced
  <2>8. Announced(w)' <=> \E i \in 1..Len(old) + 1 : new[i] = "Shutdown"
    BY <2>3, <2>4 DEF Announced
  <2>9. Announced(w) <=> \E i \in 1..Len(old) : old[i] = "Shutdown"
    BY DEF Announced, old
  <2>10. Announced(w) => Announced(w)'
    BY <2>3, <2>8, <2>9
  <2>11. op # "Shutdown" => (Announced(w)' <=> Announced(w))
    BY <2>3, <2>8, <2>9
  <2>12. op = "Shutdown" => Announced(w)'
    BY <2>3, <2>8
  <2> QED BY <2>5, <2>6, <2>7, <2>10, <2>11, <2>12
<1> QED BY <1>1, <1>2

(* A nudge tells nobody to stop.                                           *)
LEMMA LifeSend ==
  ASSUME LifeInv, NEW c \in Callers, Send(c)
  PROVE  LifeInv'
<1> USE DEF LifeInv
<1>1. /\ pc[c] = "send" /\ Sent(tx[c], job[c].op)
      /\ tx' = [tx EXCEPT ![c] = None] /\ GoesTo(c, "idle")
      /\ UNCHANGED <<workers, starting, holder, toStop, stopping, task,
                     account, spawned, hung, owed, skipped>>
  BY DEF Send
<1>2. /\ tx[c] \in Worker /\ job[c].op \in Message /\ job[c].op # "Shutdown"
      /\ "idle" \in CallerState
  BY <1>1 DEF TypeOK, Shapes, Call, Message, CallerState
<1>3. /\ channel' \in [Worker -> Seq(Message)]
      /\ \A v \in Worker : Len(channel'[v]) <= Capacity
      /\ \A v \in Worker : Announced(v)' <=> Announced(v)
  BY <1>1, <1>2, ChannelGrows
<1>4. /\ pc' \in [Callers -> CallerState] /\ pc'[c] = "idle"
      /\ \A d \in Callers : d # c => pc'[d] = pc[d]
      /\ job' \in [Callers -> [acct : Accounts, op : Call]]
      /\ \A d \in Callers : d # c => job'[d] = job[d]
  <2>1. \A d \in Callers : d # c => job'[d] = job[d]
    BY <1>1 DEF GoesTo, TypeOK
  <2> QED BY <1>1, <1>2, <2>1, GoesOn
<1>5. /\ tx' \in [Callers -> Worker \cup {None}]
      /\ \A d \in Callers : d # c => tx'[d] = tx[d]
  BY <1>1 DEF TypeOK
<1>6. TypeOK'
  <2>1. \A d \in Callers : pc'[d] = "check" <=> holder' = d
    BY <1>1, <1>4 DEF TypeOK
  <2>2. \A v \in Worker : channel'[v] \in Seq(Message)
    BY <1>3 DEF Message
  <2> QED BY <1>1, <1>3, <1>4, <1>5, <2>1, <2>2 DEF TypeOK
<1>7. Shapes'
  BY <1>3, <1>4, <1>5 DEF Shapes
<1>8. Told' = Told /\ \A v \in Worker : ToldToStop(v)' <=> ToldToStop(v)
  BY <1>1, <1>3 DEF Told, ToldToStop, Announced
<1>9. Lives'
  BY <1>1, <1>8 DEF Lives, HandlesOwn, Unborn, OneWorkerPerAccount
<1>10. Reservations'
  BY <1>1, <1>4, ReservesNothing DEF Reserved
<1> QED BY <1>1, <1>6, <1>7, <1>9, <1>10 DEF ToldByStopAll

---------------------------------------------------------------------------
(* stop_all.                                                               *)

(* What concerns callers only stays when none of them moves.               *)
LEMMA CallersStay ==
  ASSUME LifeInv, UNCHANGED <<starting, callVars>>,
         \A a \in Accounts : workers'[a] \in {workers[a], None}
  PROVE  Reservations'
<1>1. \A c \in Callers : job[c].acct \in Accounts
  BY DEF LifeInv, TypeOK
<1> QED BY <1>1 DEF LifeInv, Reservations, callVars

(* Draining the map turns every handle into a worker to be told.           *)
LEMMA LifeStopAll ==
  ASSUME LifeInv, StopAll
  PROVE  LifeInv'
<1> USE DEF LifeInv
<1>1. /\ ~stopping /\ stopping' = TRUE
      /\ toStop' = {workers[a] : a \in Accounts} \ {None}
      /\ workers' = [a \in Accounts |-> None]
      /\ UNCHANGED <<starting, holder, pc, job, tx, task, account, channel,
                     spawned, hung, owed, skipped>>
  BY DEF StopAll, HandlesDrained, callVars, taskVars
<1>2. toStop = {}
  BY <1>1 DEF ToldByStopAll
<1>3. toStop' \subseteq Worker /\ workers' \in [Accounts -> Worker \cup {None}]
  BY <1>1 DEF TypeOK
<1>4. TypeOK'
  BY <1>1, <1>3 DEF TypeOK
<1>5. Shapes'
  BY <1>1 DEF Shapes
<1>6. HandlesOwn'
  BY <1>1 DEF HandlesOwn
<1>7. \A v \in Worker : ToldToStop(v)' <=> v \in toStop' \/ ToldToStop(v)
  BY <1>1, <1>2 DEF ToldToStop
<1>8. Unborn'
  <2>1. ASSUME NEW v \in Worker, v > spawned' PROVE v \notin toStop'
    <3>1. \A a \in Accounts : workers[a] # None => workers[a] <= spawned
      BY DEF Lives, HandlesOwn
    <3>2. v > spawned /\ v \in Nat /\ spawned \in Nat
      BY <1>1, <2>1, LifecycleAssumption DEF Worker, TypeOK
    <3> QED BY <1>1, <3>1, <3>2
  <2> QED BY <1>1, <1>7, <2>1 DEF Lives, Unborn, Told
<1>9. OneWorkerPerAccount'
  <2>1. ASSUME NEW v \in Worker, task[v] \in InRound \cup {"select"}
        PROVE  ToldToStop(v)'
    <3>1. workers[account[v]] = v \/ ToldToStop(v)
      BY <2>1 DEF Lives, OneWorkerPerAccount
    <3>2. account[v] \in Accounts /\ v # None
      BY DEF TypeOK, Worker, None
    <3> QED BY <1>1, <1>7, <3>1, <3>2
  <2> QED BY <1>1, <2>1 DEF OneWorkerPerAccount
<1>10. Reservations'
  BY <1>1, CallersStay DEF callVars
<1> QED BY <1>1, <1>4, <1>5, <1>6, <1>8, <1>9, <1>10 DEF Lives, ToldByStopAll

(* A worker that is told has left the map, and hears of it, or is gone.    *)
LEMMA LifeTellWorker ==
  ASSUME LifeInv, NEW w \in toStop, TellWorker(w)
  PROVE  LifeInv'
<1> USE DEF LifeInv
<1>1. /\ Sent(w, "Shutdown") /\ toStop' = toStop \ {w}
      /\ UNCHANGED <<workers, starting, holder, stopping, pc, job, tx, task,
                     account, spawned, hung, owed, skipped>>
  BY DEF TellWorker, callVars
<1>2. w \in Worker /\ "Shutdown" \in Message
  BY DEF TypeOK, Message
<1>3. /\ channel' \in [Worker -> Seq(Message)]
      /\ \A v \in Worker : Len(channel'[v]) <= Capacity
      /\ \A v \in Worker : v # w => (Announced(v)' <=> Announced(v))
      /\ Announced(w) => Announced(w)'
      /\ task[w] \notin Dead => Announced(w)'
  BY <1>1, <1>2, ChannelGrows
<1>4. TypeOK'
  <2>1. \A v \in Worker : channel'[v] \in Seq(Message)
    BY <1>3 DEF Message
  <2> QED BY <1>1, <1>3, <2>1 DEF TypeOK
<1>5. Shapes'
  BY <1>1, <1>3 DEF Shapes
<1>6. /\ \A v \in Worker : v # w => (ToldToStop(v)' <=> ToldToStop(v))
      /\ task[w] \notin Dead => ToldToStop(w)'
      /\ ToldToStop(w)
  BY <1>1, <1>3 DEF ToldToStop, Announced
<1>7. Told' \subseteq Told
  BY <1>2, <1>6 DEF Told
<1>8. HandlesOwn' /\ Unborn'
  BY <1>1, <1>7 DEF Lives, HandlesOwn, Unborn
<1>9. OneWorkerPerAccount'
  <2>1. ASSUME NEW v \in Worker, task[v] \in InRound \cup {"select"}
        PROVE  workers[account[v]] = v \/ ToldToStop(v)'
    <3>1. task[v] \notin Dead
      BY <2>1 DEF InRound, Dead
    <3> QED BY <1>6, <2>1, <3>1 DEF Lives, OneWorkerPerAccount
  <2> QED BY <1>1, <2>1 DEF OneWorkerPerAccount
<1>10. Reservations'
  BY <1>1, CallersStay DEF callVars
<1>11. ToldByStopAll'
  BY <1>1 DEF ToldByStopAll
<1> QED BY <1>4, <1>5, <1>8, <1>9, <1>10, <1>11 DEF Lives

(* stop_all returns.                                                       *)
LEMMA LifeStopped ==
  ASSUME LifeInv, Stopped
  PROVE  LifeInv'
<1> USE DEF LifeInv, Stopped
<1>1. TypeOK'
  BY DEF TypeOK, callVars, taskVars
<1>2. Shapes'
  BY DEF Shapes, callVars, taskVars
<1>3. Lives'
  BY NothingMoves
<1>4. Reservations'
  BY CallersStay
<1> QED BY <1>1, <1>2, <1>3, <1>4 DEF ToldByStopAll

---------------------------------------------------------------------------
(* The worker's own steps.                                                 *)

(* Only a round hangs.                                                     *)
LEMMA WaitingNotHung ==
  ASSUME LifeInv, NEW w \in Worker, task[w] = "select"
  PROVE  w \notin hung
  BY DEF LifeInv, TypeOK, InRound

(* A round that goes on, and what begins or ends one, leave the worker     *)
(* alive, or panicked, which the map may name.                             *)
LEMMA WorkerMoves ==
  ASSUME LifeInv, NEW w \in Worker, task[w] \in Running, w \notin hung,
         NEW state \in Running \cup {"panicked"}, Becomes(w, state),
         UNCHANGED <<workers, starting, holder, toStop, stopping, pc, job, tx,
                     account, channel, spawned, hung>>,
         owed' \in [Accounts -> BOOLEAN], skipped' \in [Accounts -> BOOLEAN]
  PROVE  LifeInv'
<1> USE DEF LifeInv
<1>1. /\ task' \in [Worker -> {"unborn", "select"} \cup InRound \cup Dead]
      /\ task'[w] = state
      /\ \A v \in Worker : v # w => task'[v] = task[v]
  BY DEF Becomes, TypeOK, Running, InRound, Dead
<1>2. TypeOK'
  <2>1. \A v \in hung' : v \in Worker /\ task'[v] \in InRound
    BY <1>1 DEF TypeOK
  <2> QED BY <1>1, <2>1 DEF TypeOK
<1>3. Shapes'
  BY DEF Shapes
<1>4. Told' = Told /\ \A v \in Worker : ToldToStop(v)' <=> ToldToStop(v)
  BY DEF Told, ToldToStop
<1>5. HandlesOwn'
  BY <1>1, <1>4 DEF Lives, HandlesOwn, TypeOK
<1>6. Unborn'
  <2>1. task[w] # "unborn"
    BY DEF Running, InRound
  <2> QED BY <1>1, <1>4, <2>1 DEF Lives, Unborn
<1>7. OneWorkerPerAccount'
  BY <1>1, <1>4 DEF Lives, OneWorkerPerAccount, Running
<1>8. Reservations'
  BY CallersStay DEF callVars
<1> QED BY <1>2, <1>3, <1>5, <1>6, <1>7, <1>8 DEF Lives, ToldByStopAll

(* A worker exits only on a Shutdown, and one in the map has none.         *)
LEMMA LifeReceive ==
  ASSUME LifeInv, NEW w \in Worker, Receive(w)
  PROVE  LifeInv'
<1> DEFINE old == channel[w]
           state == CASE Head(old) = "SyncNow"   -> "poll"
                      [] Head(old) = "ReplayNow" -> "replay"
                      [] Head(old) = "Shutdown"  -> "exited"
<1> USE DEF LifeInv
<1>1. /\ task[w] = "select" /\ old # <<>>
      /\ channel' = [channel EXCEPT ![w] = Tail(old)]
      /\ task' = [task EXCEPT ![w] = state]
      /\ UNCHANGED <<workers, starting, holder, toStop, stopping, pc, job, tx,
                     account, spawned, hung, owed, skipped>>
  BY DEF Receive, Becomes, callVars
<1>2. old \in Seq(Message) /\ channel \in [Worker -> Seq(Message)]
  BY DEF Shapes
<1>3. /\ Head(old) \in Message /\ Head(old) = old[1]
      /\ Tail(old) \in Seq(Message) /\ Len(old) \in Nat \ {0}
      /\ Len(Tail(old)) = Len(old) - 1
      /\ \A i \in 1..Len(Tail(old)) : Tail(old)[i] = old[i + 1]
  BY <1>1, <1>2, EmptySeq, HeadTailProperties
<1> DEFINE new == Tail(old)
<1>4. new = Tail(old)
  OBVIOUS
<1> HIDE DEF old, state, new
<1>5. /\ channel' \in [Worker -> Seq(Message)] /\ channel'[w] = new
      /\ \A v \in Worker : v # w => channel'[v] = channel[v]
  BY <1>1, <1>2, <1>3, <1>4
<1>6. /\ state \in {"poll", "replay", "exited"}
      /\ state = "exited" <=> old[1] = "Shutdown"
  BY <1>3 DEF state, Message
<1>7. /\ task' \in [Worker -> {"unborn", "select"} \cup InRound \cup Dead]
      /\ task'[w] = state /\ \A v \in Worker : v # w => task'[v] = task[v]
  BY <1>1, <1>6 DEF TypeOK, InRound, Dead
<1>8. TypeOK'
  <2>1. /\ \A v \in Worker : channel'[v] \in Seq(Message)
        /\ \A v \in Worker : v # w => Len(channel'[v]) <= Capacity
    BY <1>5 DEF Message, TypeOK
  <2>2. Len(channel'[w]) <= Capacity
    <3>1. Len(old) <= Capacity
      BY DEF old, TypeOK
    <3> QED BY <1>3, <1>4, <1>5, <3>1, LifecycleAssumption
  <2>3. \A v \in hung' : v \in Worker /\ task'[v] \in InRound
    BY <1>1, <1>7, WaitingNotHung DEF TypeOK
  <2> QED BY <1>1, <1>7, <2>1, <2>2, <2>3 DEF TypeOK
<1>9. Shapes'
  BY <1>1, <1>5 DEF Shapes
<1>10. \A v \in Worker : v # w => (ToldToStop(v)' <=> ToldToStop(v))
  BY <1>1, <1>5 DEF ToldToStop
<1>11. Announced(w)' => Announced(w)
  <2>1. Announced(w)' <=> \E i \in 1..Len(new) : new[i] = "Shutdown"
    BY <1>5 DEF Announced
  <2>2. Announced(w) <=> \E i \in 1..Len(old) : old[i] = "Shutdown"
    BY DEF Announced, old
  <2>3. \A i \in 1..Len(new) : new[i] = old[i + 1] /\ i + 1 \in 1..Len(old)
    BY <1>3, <1>4
  <2> QED BY <2>1, <2>2, <2>3
<1>12. Announced(w) => old[1] = "Shutdown" \/ Announced(w)'
  <2>1. ASSUME NEW i \in 1..Len(old), old[i] = "Shutdown", i # 1
        PROVE  i - 1 \in 1..Len(new) /\ new[i - 1] = "Shutdown"
    <3>1. i - 1 \in 1..Len(new) /\ (i - 1) + 1 = i
      BY <1>3, <1>4, <2>1
    <3> QED BY <1>3, <1>4, <2>1, <3>1
  <2>2. Announced(w) <=> \E i \in 1..Len(old) : old[i] = "Shutdown"
    BY DEF Announced, old
  <2>3. Announced(w)' <=> \E i \in 1..Len(new) : new[i] = "Shutdown"
    BY <1>5 DEF Announced
  <2> QED BY <2>1, <2>2, <2>3
<1>13. old[1] = "Shutdown" => w \in Told
  <2>1. 1 \in 1..Len(old)
    BY <1>3
  <2> QED BY <2>1 DEF Told, ToldToStop, old
<1>14. Told' \subseteq Told
  BY <1>1, <1>10, <1>11 DEF Told, ToldToStop, Announced
<1>15. HandlesOwn'
  <2>1. ASSUME NEW a \in Accounts, workers[a] = w PROVE state # "exited"
    BY <1>6, <1>13, <2>1 DEF Lives, HandlesOwn, Worker, None
  <2>2. ASSUME NEW a \in Accounts, workers[a] # None
        PROVE  task'[workers[a]] \in Running \cup {"panicked"}
    <3>1. workers[a] \in Worker
      BY <2>2 DEF TypeOK
    <3> QED BY <1>6, <1>7, <2>1, <2>2, <3>1
            DEF Lives, HandlesOwn, Running, InRound
  <2> QED BY <1>1, <1>14, <2>2 DEF Lives, HandlesOwn
<1>16. Unborn'
  BY <1>1, <1>7, <1>14 DEF Lives, Unborn
<1>17. OneWorkerPerAccount'
  <2>1. ASSUME NEW v \in Worker, task'[v] \in InRound \cup {"select"}
        PROVE  workers[account[v]] = v \/ ToldToStop(v)'
    <3>1. CASE v = w
      <4>1. old[1] # "Shutdown"
        BY <1>6, <1>7, <2>1, <3>1 DEF InRound
      <4>2. workers[account[w]] = w \/ ToldToStop(w)
        BY <1>1 DEF Lives, OneWorkerPerAccount
      <4>3. ToldToStop(w) => ToldToStop(w)'
        BY <1>1, <1>12, <4>1 DEF ToldToStop, Announced
      <4> QED BY <3>1, <4>2, <4>3
    <3>2. CASE v # w
      BY <1>7, <1>10, <2>1, <3>2 DEF Lives, OneWorkerPerAccount
    <3> QED BY <3>1, <3>2
  <2> QED BY <1>1, <2>1 DEF OneWorkerPerAccount
<1>18. Reservations'
  BY <1>1, CallersStay DEF callVars
<1> QED BY <1>1, <1>8, <1>9, <1>15, <1>16, <1>17, <1>18 DEF Lives, ToldByStopAll

(* Every other step of a worker is a move within its life.                 *)
LEMMA LifeWorker ==
  ASSUME LifeInv, NEW w \in Worker,
         \/ Round(w) \/ Hang(w) \/ Resume(w) \/ Panic(w)
         \/ Tick(w) \/ Push(w) \/ Receive(w)
  PROVE  LifeInv'
<1>1. account[w] \in Accounts
  BY DEF LifeInv, TypeOK
<1>2. CASE Replay(w)
  <2>1. PICK state \in Running : Becomes(w, state)
    BY <1>2 DEF Replay, Running, InRound
  <2>2. owed' \in [Accounts -> BOOLEAN] /\ skipped' \in [Accounts -> BOOLEAN]
    BY <1>1, <1>2 DEF Replay, LifeInv, TypeOK
  <2> QED BY <1>2, <2>1, <2>2, WorkerMoves DEF Replay, Running, InRound, callVars
<1>3. CASE EndRound(w) \/ Tick(w) \/ Push(w) \/ Panic(w)
  <2>1. PICK state \in Running \cup {"panicked"} : Becomes(w, state)
    BY <1>3 DEF EndRound, Tick, Push, Panic, Running, InRound
  <2>2. owed' \in [Accounts -> BOOLEAN] /\ skipped' \in [Accounts -> BOOLEAN]
    BY <1>3 DEF EndRound, Tick, Push, Panic, LifeInv, TypeOK
  <2>3. w \notin hung
    BY <1>3, WaitingNotHung DEF EndRound, Tick, Push, Panic
  <2> QED BY <1>3, <2>1, <2>2, <2>3, WorkerMoves
          DEF EndRound, Tick, Push, Panic, Running, InRound, callVars
<1>4. CASE Receive(w)
  BY <1>4, LifeReceive
<1>5. CASE Hang(w) \/ Resume(w)
  <2>1. /\ hung' \subseteq {v \in Worker : task[v] \in InRound}
        /\ UNCHANGED <<workers, starting, holder, toStop, stopping, callVars,
                       task, account, channel, spawned, owed, skipped>>
    BY <1>5 DEF Hang, Resume, LifeInv, TypeOK
  <2>2. TypeOK' /\ Shapes'
    BY <2>1 DEF LifeInv, TypeOK, Shapes, callVars
  <2>3. Lives'
    BY <2>1 DEF LifeInv, Lives, HandlesOwn, Unborn, OneWorkerPerAccount, Told,
                ToldToStop
  <2>4. Reservations' /\ ToldByStopAll'
    BY <2>1, CallersStay DEF LifeInv, ToldByStopAll
  <2> QED BY <2>2, <2>3, <2>4 DEF LifeInv
<1> QED BY <1>2, <1>3, <1>4, <1>5 DEF Round

---------------------------------------------------------------------------
(* Every step keeps the invariant.                                         *)
LEMMA LifeStep == LifeInv /\ [Next]_vars => LifeInv'
<1> SUFFICES ASSUME LifeInv, [Next]_vars PROVE LifeInv'
  OBVIOUS
<1>1. ASSUME NEW c \in Callers, Caller(c) PROVE LifeInv'
  BY <1>1, LifeLook, LifeReserve, LifeLookUp, LifeInsert, LifeRelease, LifeSend
     DEF Caller
<1>2. CASE Stop
  BY <1>2, LifeTellWorker, LifeStopped DEF Stop
<1>3. CASE UNCHANGED vars
  <2> USE <1>3 DEF vars, callVars, taskVars
  <2>1. TypeOK' /\ Shapes'
    BY DEF LifeInv, TypeOK, Shapes
  <2>2. Lives'
    BY NothingMoves
  <2>3. Reservations' /\ ToldByStopAll'
    BY DEF LifeInv, Reservations, ToldByStopAll
  <2> QED BY <2>1, <2>2, <2>3 DEF LifeInv
<1> QED BY <1>1, <1>2, <1>3, LifeBegin, LifeStopAll, LifeWorker DEF Next

(* The invariant holds of every behaviour.                                 *)
LEMMA LifeAlways == Spec => []LifeInv
  BY LifeInit, LifeStep, PTL DEF Spec

(* The maps, tasks and channels keep their types, a channel its capacity,  *)
(* and the mutex of workers_starting is held exactly inside the check.     *)
THEOREM LifecycleTypeCorrect == Spec => []TypeOK
<1>1. LifeInv => TypeOK
  BY DEF LifeInv
<1> QED BY <1>1, LifeAlways, PTL

(* However ensure_worker's callers, stop_all and the workers interleave,   *)
(* an account has at most one worker that nobody has told to stop.         *)
THEOREM AtMostOneWorker == Spec => []OneWorkerPerAccount
<1>1. LifeInv => OneWorkerPerAccount
  BY DEF LifeInv, Lives
<1> QED BY <1>1, LifeAlways, PTL

(* The map of workers, which ensure_worker trusts, names no task that has  *)
(* exited: only a panic leaves a dead handle in it.                        *)
THEOREM HandlesNeverExit == Spec => []HandlesLive
<1>1. LifeInv => HandlesLive
  BY DEF LifeInv, Lives, HandlesOwn, HandlesLive, Running
<1> QED BY <1>1, LifeAlways, PTL

---------------------------------------------------------------------------
(* Wake-ups. An operation that is owed a replay has a caller on its way to *)
(* the worker of the map, or that worker has something to receive or is    *)
(* before a replay already, or there is none.                              *)

OnItsWay(c, a) ==
    /\ pc[c] # "idle" /\ job[c] = [acct |-> a, op |-> "ReplayNow"]
    /\ pc[c] = "send" => tx[c] = workers[a]

Woken(a) ==
    /\ workers[a] # None
    /\ channel[workers[a]] # <<>> \/ task[workers[a]] \in {"poll", "replay"}

WakeUps ==
    \A a \in Accounts : owed[a] =>
        \/ skipped[a] \/ workers[a] = None
        \/ task[workers[a]] = "panicked"
        \/ Woken(a)
        \/ \E c \in Callers : OnItsWay(c, a)

(* A caller that goes on, unless it returns while there is a worker, is    *)
(* still on its way.                                                       *)
LEMMA WakeGoesOn ==
  ASSUME LifeInv, WakeUps, NEW c \in Callers, NEW next \in CallerState,
         GoesTo(c, next),
         UNCHANGED <<workers, owed, skipped, task, channel>>,
         \A d \in Callers : d # c => tx'[d] = tx[d],
         next = "idle" /\ job[c].op = "ReplayNow" => workers[job[c].acct] = None,
         next = "send" => tx'[c] = workers[job[c].acct]
  PROVE  WakeUps'
<1>1. /\ pc'[c] = next /\ \A d \in Callers : d # c => pc'[d] = pc[d]
      /\ \A d \in Callers : d # c => job'[d] = job[d]
      /\ next # "idle" => job' = job
  BY GoesOn DEF GoesTo, LifeInv, TypeOK
<1>2. ASSUME NEW a \in Accounts, NEW d \in Callers, OnItsWay(d, a), workers[a] # None
      PROVE  OnItsWay(d, a)'
  <2>1. CASE d = c
    <3>1. next # "idle"
      BY <1>2, <2>1 DEF OnItsWay
    <3> QED BY <1>1, <1>2, <2>1, <3>1 DEF OnItsWay
  <2>2. CASE d # c
    BY <1>1, <1>2, <2>2 DEF OnItsWay
  <2> QED BY <2>1, <2>2
<1>3. ASSUME NEW a \in Accounts, owed[a], ~skipped[a], workers[a] # None,
             task[workers[a]] # "panicked"
      PROVE  Woken(a)' \/ \E d \in Callers : OnItsWay(d, a)'
  <2>1. Woken(a) => Woken(a)'
    BY DEF Woken
  <2> QED BY <1>2, <1>3, <2>1 DEF WakeUps
<1> QED BY <1>3 DEF WakeUps

(* The steps of a caller up to its send.                                   *)
LEMMA WakeCaller ==
  ASSUME LifeInv, WakeUps, NEW c \in Callers,
         FastPath(c) \/ LockStarting(c) \/ Reserve(c) \/ LookUp(c) \/ Release(c)
         \/ Nudge(c)
  PROVE  WakeUps'
<1>1. AfterEnsure(c) = "nudge" \/ job[c].op = "start"
  BY DEF AfterEnsure
<1>2. UNCHANGED <<workers, owed, skipped, task, channel>>
  BY DEF FastPath, LockStarting, Reserve, LookUp, Release, Nudge, taskVars
<1>3. CASE Nudge(c)
  <2> DEFINE next == IF tx'[c] = None THEN "idle" ELSE "send"
  <2>1. tx' = [tx EXCEPT ![c] = workers[job[c].acct]] /\ GoesTo(c, next)
    BY <1>3 DEF Nudge
  <2>2. /\ tx'[c] = workers[job[c].acct]
        /\ \A d \in Callers : d # c => tx'[d] = tx[d]
    BY <2>1 DEF LifeInv, TypeOK
  <2>3. next \in CallerState
    BY DEF CallerState
  <2> QED BY <1>2, <2>1, <2>2, <2>3, WakeGoesOn
<1>4. CASE FastPath(c) \/ LockStarting(c) \/ Reserve(c) \/ LookUp(c) \/ Release(c)
  <2>1. PICK next \in {AfterEnsure(c), "reserve", "check", "lookup", "insert",
                       "release"} : GoesTo(c, next)
    BY <1>4 DEF FastPath, LockStarting, Reserve, LookUp, Release
  <2>2. /\ next \in CallerState /\ next # "send"
        /\ next = "idle" => job[c].op = "start"
    BY <1>1, <2>1, AfterEnsureIs DEF CallerState, Reserved
  <2>3. tx' = tx
    BY <1>4 DEF FastPath, LockStarting, Reserve, LookUp, Release
  <2> QED BY <1>2, <2>1, <2>2, <2>3, WakeGoesOn
<1> QED BY <1>3, <1>4

(* A call that follows the enqueue of an operation is on its way.          *)
LEMMA WakeBegin ==
  ASSUME LifeInv, WakeUps, NEW c \in Callers, NEW a \in Accounts, NEW op \in Call,
         Begin(c, a, op)
  PROVE  WakeUps'
<1>1. /\ pc[c] = "idle" /\ pc'[c] = "fast" /\ job'[c] = [acct |-> a, op |-> op]
      /\ \A d \in Callers : d # c => pc'[d] = pc[d] /\ job'[d] = job[d]
      /\ UNCHANGED <<workers, tx, task, channel, skipped>>
  BY DEF Begin, LifeInv, Shapes, TypeOK, taskVars
<1>2. \A b \in Accounts : owed'[b] => owed[b] \/ (b = a /\ op = "ReplayNow")
  BY DEF Begin, LifeInv, TypeOK
<1>3. op = "ReplayNow" => OnItsWay(c, a)'
  BY <1>1 DEF OnItsWay
<1>4. ASSUME NEW b \in Accounts, NEW d \in Callers, OnItsWay(d, b)
      PROVE  OnItsWay(d, b)'
  BY <1>1, <1>4 DEF OnItsWay
<1>5. ASSUME NEW b \in Accounts PROVE Woken(b) => Woken(b)'
  BY <1>1 DEF Woken
<1> QED BY <1>1, <1>2, <1>3, <1>4, <1>5 DEF WakeUps

(* A spawned worker begins with a round that replays.                      *)
LEMMA WakeInsert ==
  ASSUME LifeInv, WakeUps, NEW c \in Callers, Insert(c)
  PROVE  WakeUps'
<1> DEFINE w == spawned + 1
<1>0. PICK a \in Accounts : a = job[c].acct
  BY DEF LifeInv, TypeOK
<1>1. /\ pc[c] = "insert" /\ w \in Worker /\ w # None
      /\ workers' = [workers EXCEPT ![a] = w] /\ task' = [task EXCEPT ![w] = "poll"]
      /\ GoesTo(c, "release") /\ UNCHANGED <<tx, channel, owed, skipped>>
      /\ spawned \in Nat
  BY <1>0, LifecycleAssumption DEF Insert, FirstState, LifeInv, TypeOK, Worker, None
<1>2. workers'[a] = w /\ task'[w] = "poll"
  BY <1>1 DEF LifeInv, TypeOK
<1>3. Woken(a)'
  BY <1>1, <1>2 DEF Woken
<1>4. ASSUME NEW b \in Accounts, b # a, workers[b] # None
      PROVE  workers'[b] = workers[b] /\ task'[workers[b]] = task[workers[b]]
  <2>1. workers[b] <= spawned /\ workers[b] \in Worker /\ workers'[b] = workers[b]
    BY <1>1, <1>4 DEF LifeInv, Lives, HandlesOwn, TypeOK
  <2>2. workers[b] # w
    BY <1>1, <2>1 DEF Worker
  <2> QED BY <1>1, <2>1, <2>2 DEF LifeInv, TypeOK
<1>5. ASSUME NEW b \in Accounts, b # a, NEW d \in Callers, OnItsWay(d, b)
      PROVE  OnItsWay(d, b)'
  <2>1. d # c /\ workers'[b] = workers[b]
    BY <1>0, <1>1, <1>5 DEF OnItsWay, LifeInv, TypeOK
  <2>2. pc'[d] = pc[d] /\ job'[d] = job[d]
    BY <1>1, <2>1, GoesOn DEF GoesTo, LifeInv, TypeOK, Shapes
  <2> QED BY <1>1, <1>5, <2>1, <2>2 DEF OnItsWay
<1>6. ASSUME NEW b \in Accounts, b # a, owed[b], ~skipped[b], workers[b] # None,
             task[workers[b]] # "panicked"
      PROVE  Woken(b)' \/ \E d \in Callers : OnItsWay(d, b)'
  <2>1. Woken(b) => Woken(b)'
    BY <1>1, <1>4, <1>6 DEF Woken
  <2> QED BY <1>5, <1>6, <2>1 DEF WakeUps
<1>7. ASSUME NEW b \in Accounts, b # a PROVE workers'[b] = workers[b]
  BY <1>1, <1>7 DEF LifeInv, TypeOK
<1> QED BY <1>1, <1>3, <1>4, <1>6, <1>7 DEF WakeUps

(* A message sent to a worker that has not gone is there to be received.   *)
LEMMA SentArrives ==
  ASSUME LifeInv, NEW w \in Worker, NEW op \in Message, Sent(w, op)
  PROVE  /\ \A v \in Worker : channel[v] # <<>> => channel'[v] # <<>>
         /\ task[w] \notin Dead => channel'[w] # <<>>
<1>1. channel \in [Worker -> Seq(Message)]
  BY DEF LifeInv, Shapes
<1>2. CASE task[w] \in Dead
  BY <1>2 DEF Sent
<1>3. CASE task[w] \notin Dead
  <2> DEFINE new == Append(channel[w], op)
  <2>1. channel' = [channel EXCEPT ![w] = new]
    BY <1>3 DEF Sent
  <2>2. new # <<>>
    BY <1>1, AppendProperties, EmptySeq
  <2> HIDE DEF new
  <2> QED BY <1>1, <1>3, <2>1, <2>2
<1> QED BY <1>2, <1>3

(* The send to the worker of the map wakes it; one to a worker that was    *)
(* drained meanwhile was no longer on its way.                             *)
LEMMA WakeSend ==
  ASSUME LifeInv, WakeUps, NEW c \in Callers, Send(c)
  PROVE  WakeUps'
<1>1. /\ pc[c] = "send" /\ Sent(tx[c], job[c].op) /\ GoesTo(c, "idle")
      /\ tx' = [tx EXCEPT ![c] = None]
      /\ UNCHANGED <<workers, task, owed, skipped>>
  BY DEF Send
<1>2. /\ tx[c] \in Worker /\ job[c].op \in Message /\ "idle" \in CallerState
      /\ \A d \in Callers : d # c => tx'[d] = tx[d]
  BY <1>1 DEF LifeInv, TypeOK, Shapes, Call, Message, CallerState
<1>3. /\ \A v \in Worker : channel[v] # <<>> => channel'[v] # <<>>
      /\ task[tx[c]] \notin Dead => channel'[tx[c]] # <<>>
  BY <1>1, <1>2, SentArrives
<1>4. /\ \A d \in Callers : d # c => pc'[d] = pc[d]
      /\ \A d \in Callers : d # c => job'[d] = job[d]
  BY <1>1, <1>2, GoesOn DEF GoesTo, LifeInv, TypeOK
<1>5. ASSUME NEW a \in Accounts, owed[a], ~skipped[a], workers[a] # None,
             task[workers[a]] # "panicked"
      PROVE  Woken(a)' \/ \E d \in Callers : OnItsWay(d, a)'
  <2>1. workers[a] \in Worker /\ task[workers[a]] \in Running
    BY <1>5 DEF LifeInv, TypeOK, Lives, HandlesOwn
  <2>2. CASE Woken(a)
    BY <1>1, <1>3, <2>1, <2>2 DEF Woken
  <2>3. CASE OnItsWay(c, a)
    <3>1. tx[c] = workers[a] /\ task[tx[c]] \notin Dead
      BY <1>1, <2>1, <2>3 DEF OnItsWay, Running, InRound, Dead
    <3> QED BY <1>1, <1>3, <1>5, <3>1 DEF Woken
  <2>4. ASSUME NEW d \in Callers, d # c, OnItsWay(d, a) PROVE OnItsWay(d, a)'
    BY <1>1, <1>2, <1>4, <2>4 DEF OnItsWay
  <2> QED BY <1>5, <2>2, <2>3, <2>4 DEF WakeUps
<1> QED BY <1>1, <1>5 DEF WakeUps

(* stop_all leaves no worker that a wake-up could be lost on.              *)
LEMMA WakeStop ==
  ASSUME LifeInv, WakeUps, StopAll \/ Stop
  PROVE  WakeUps'
<1>1. CASE StopAll
  <2>1. \A a \in Accounts : workers'[a] = None
    BY <1>1 DEF StopAll, HandlesDrained
  <2> QED BY <2>1 DEF WakeUps
<1>2. CASE Stopped
  BY <1>2 DEF Stopped, WakeUps, Woken, OnItsWay, callVars, taskVars
<1>3. ASSUME NEW w \in toStop, TellWorker(w) PROVE WakeUps'
  <2>1. /\ UNCHANGED <<workers, pc, job, tx, task, owed, skipped>>
        /\ \A v \in Worker : channel[v] # <<>> => channel'[v] # <<>>
    BY <1>3, SentArrives DEF TellWorker, callVars, Message, LifeInv, TypeOK
  <2>2. ASSUME NEW a \in Accounts PROVE Woken(a) => Woken(a)'
    BY <2>1 DEF Woken, LifeInv, TypeOK
  <2>3. ASSUME NEW a \in Accounts, NEW d \in Callers
        PROVE  OnItsWay(d, a) => OnItsWay(d, a)'
    BY <2>1 DEF OnItsWay
  <2> QED BY <2>1, <2>2, <2>3 DEF WakeUps
<1> QED BY <1>1, <1>2, <1>3 DEF Stop

(* A worker forgets a wake-up only by replaying, or by failing to.         *)
LEMMA WakeWorker ==
  ASSUME LifeInv, WakeUps, NEW w \in Worker,
         \/ Round(w) \/ Hang(w) \/ Resume(w) \/ Panic(w)
         \/ Tick(w) \/ Push(w) \/ Receive(w)
  PROVE  WakeUps'
<1>0. CASE Hang(w) \/ Resume(w)
  <2>1. UNCHANGED <<workers, callVars, task, channel, owed, skipped>>
    BY <1>0 DEF Hang, Resume
  <2> QED BY <2>1 DEF WakeUps, Woken, OnItsWay, callVars
<1> SUFFICES ASSUME \/ Round(w) \/ Panic(w)
                    \/ Tick(w) \/ Push(w) \/ Receive(w)
             PROVE  WakeUps'
  BY <1>0
<1>1. /\ UNCHANGED <<workers, pc, job, tx>> /\ account[w] \in Accounts
      /\ task \in [Worker -> {"unborn", "select"} \cup InRound \cup Dead]
      /\ channel \in [Worker -> Seq(Message)]
  BY DEF Round, Replay, EndRound, Tick, Push, Receive, Panic, callVars, LifeInv,
         TypeOK, Shapes
<1>2. /\ \A v \in Worker : v # w => task'[v] = task[v] /\ channel'[v] = channel[v]
      /\ \A a \in Accounts : a # account[w] =>
           owed'[a] = owed[a] /\ skipped'[a] = skipped[a]
  BY <1>1 DEF Round, Replay, EndRound, Tick, Push, Receive, Panic, Becomes,
              LifeInv, TypeOK
<1>3. \A a \in Accounts, d \in Callers : OnItsWay(d, a) => OnItsWay(d, a)'
  BY <1>1 DEF OnItsWay
<1>4. CASE Replay(w)
  <2> DEFINE a == account[w]
  <2>1. owed'[a] = FALSE \/ skipped'[a] = TRUE
    BY <1>1, <1>4 DEF Replay, LifeInv, TypeOK
  <2>2. ASSUME NEW b \in Accounts, b # a, workers[b] # None
        PROVE  /\ task'[workers[b]] = task[workers[b]]
               /\ channel'[workers[b]] = channel[workers[b]]
    <3>1. workers[b] # w /\ workers[b] \in Worker
      BY <2>2 DEF LifeInv, Lives, HandlesOwn, TypeOK
    <3> QED BY <1>2, <3>1
  <2>3. ASSUME NEW b \in Accounts, b # a, owed[b], ~skipped[b], workers[b] # None,
               task[workers[b]] # "panicked"
        PROVE  Woken(b)' \/ \E d \in Callers : OnItsWay(d, b)'
    <3>1. Woken(b) => Woken(b)'
      BY <1>1, <2>2, <2>3 DEF Woken
    <3> QED BY <1>3, <2>3, <3>1 DEF WakeUps
  <2> QED BY <1>1, <1>2, <2>1, <2>2, <2>3 DEF WakeUps
<1>5. CASE EndRound(w) \/ Tick(w) \/ Push(w) \/ Receive(w) \/ Panic(w)
  <2>1. UNCHANGED <<owed, skipped>>
    BY <1>5 DEF EndRound, Tick, Push, Receive, Panic
  <2>2. ASSUME NEW a \in Accounts, workers[a] = w, channel[w] # <<>>
                                                   \/ task[w] \in {"poll", "replay"}
        PROVE  channel'[w] # <<>> \/ task'[w] \in {"poll", "replay", "panicked"}
    <3>1. CASE Receive(w)
      <4>1. channel[w] # <<>> /\ w \notin Told
        BY <2>2, <3>1 DEF Receive, LifeInv, Lives, HandlesOwn, Worker, None
      <4>2. /\ Head(channel[w]) \in Message /\ Head(channel[w]) = channel[w][1]
            /\ 1 \in 1..Len(channel[w])
        BY <1>1, <4>1, EmptySeq, HeadTailProperties
      <4>3. Head(channel[w]) # "Shutdown"
        BY <4>1, <4>2 DEF Told, ToldToStop
      <4>4. Head(channel[w]) \in {"SyncNow", "ReplayNow"}
        BY <4>2, <4>3 DEF Message
      <4> QED BY <1>1, <3>1, <4>4 DEF Receive, Becomes
    <3>2. CASE EndRound(w) \/ Tick(w) \/ Push(w)
      <4>1. channel' = channel
        BY <3>2 DEF EndRound, Tick, Push
      <4>2. task[w] \notin {"poll", "replay"}
        BY <3>2 DEF EndRound, Tick, Push
      <4> QED BY <2>2, <4>1, <4>2
    <3>3. CASE Panic(w)
      BY <1>1, <3>3 DEF Panic, Becomes
    <3> QED BY <1>5, <3>1, <3>2, <3>3
  <2>3. ASSUME NEW a \in Accounts, owed[a], ~skipped[a], workers[a] # None
        PROVE  \/ task'[workers[a]] = "panicked" \/ Woken(a)'
               \/ \E d \in Callers : OnItsWay(d, a)'
    <3>1. workers[a] \in Worker
      BY <2>3 DEF LifeInv, TypeOK
    <3>2. task[workers[a]] = "panicked" => task'[workers[a]] = "panicked"
      <4>1. task[w] # "panicked"
        BY <1>5 DEF EndRound, Tick, Push, Receive, Panic, InRound
      <4> QED BY <1>2, <3>1, <4>1
    <3>3. Woken(a) => Woken(a)' \/ task'[workers[a]] = "panicked"
      <4>1. CASE workers[a] = w
        BY <1>1, <2>2, <2>3, <4>1 DEF Woken
      <4>2. CASE workers[a] # w
        BY <1>1, <1>2, <3>1, <4>2 DEF Woken
      <4> QED BY <4>1, <4>2
    <3> QED BY <1>3, <2>3, <3>2, <3>3 DEF WakeUps
  <2> QED BY <1>1, <2>1, <2>3 DEF WakeUps
<1> QED BY <1>4, <1>5 DEF Round

(* The invariant holds of every behaviour.                                 *)
LEMMA WakeAlways == Spec => [](LifeInv /\ WakeUps)
<1>1. Init => LifeInv /\ WakeUps
  BY LifeInit DEF Init, WakeUps
<1>2. LifeInv /\ WakeUps /\ [Next]_vars => (LifeInv /\ WakeUps)'
  <2> SUFFICES ASSUME LifeInv, WakeUps, [Next]_vars PROVE WakeUps'
    BY LifeStep
  <2>1. ASSUME NEW c \in Callers, Caller(c) PROVE WakeUps'
    BY <2>1, WakeCaller, WakeInsert, WakeSend DEF Caller
  <2>2. CASE UNCHANGED vars
    BY <2>2 DEF vars, callVars, taskVars, WakeUps, Woken, OnItsWay
  <2> QED BY <2>1, <2>2, WakeBegin, WakeStop, WakeWorker DEF Next
<1> QED BY <1>1, <1>2, PTL DEF Spec

(* Whatever callers, stop_all and worker do between the enqueue and the    *)
(* nudge, a worker at rest owes no replay that its last round did not fail *)
(* to make.                                                                *)
THEOREM NoWakeUpIsLost == Spec => []NoLostWakeUp
<1>1. LifeInv /\ WakeUps => NoLostWakeUp
  <2> SUFFICES ASSUME LifeInv, WakeUps, NEW a \in Accounts, Quiet(a), owed[a]
               PROVE  skipped[a]
    BY DEF NoLostWakeUp
  <2>1. /\ workers[a] # None /\ task[workers[a]] = "select"
        /\ channel[workers[a]] = <<>>
        /\ \A c \in Callers : pc[c] # "idle" => job[c].acct # a
    BY DEF Quiet
  <2>2. ~Woken(a) /\ \A c \in Callers : ~OnItsWay(c, a)
    BY <2>1 DEF Woken, OnItsWay
  <2>3. task[workers[a]] # "panicked"
    BY <2>1
  <2> QED BY <2>1, <2>2, <2>3, Zenon DEF WakeUps
<1> QED BY <1>1, WakeAlways, PTL

=============================================================================

------------------------------ MODULE SyncGate ------------------------------
(***************************************************************************)
(* What stands before an account's sync round: the queue is drained first, *)
(* then a live provider_rate_limit row ends the round, then the circuit    *)
(* breaker's cooldown; only then is the server asked for its folders. The  *)
(* answer is left open here: EasMail composes this module with a source.   *)
(*                                                                         *)
(* Time is relative: the row and the cooldown are the ticks they have left.*)
(* The worker's reservation (WorkerLifecycle) keeps rounds one at a time;  *)
(* rounds set off by a push skip the gates and are not modelled here.      *)
(***************************************************************************)
EXTENDS Integers

CONSTANTS
    Short, Long,         \* failures in a row that start each cooldown (3, 5)
    ShortCool, LongCool, \* ticks each cooldown lasts (15 s, 60 s)
    Waits,               \* waits a source reports, in ticks; 0 is in the past
    MaxSends,            \* bound: sends of the user
    MaxMishaps           \* bound: failures of the database, of the network or
                         \* the server, and restarts, taken together

ASSUME GateAssumption ==
    /\ Short \in Nat \ {0} /\ Long \in Nat /\ Short <= Long
    /\ ShortCool \in Nat \ {0} /\ LongCool \in Nat /\ ShortCool <= LongCool
    /\ Waits \subseteq Nat
    /\ MaxSends \in Nat /\ MaxMishaps \in Nat

NoRow == -1  \* no row in provider_rate_limit
Unset == -1  \* no entry in breakers, or cooldown_until = 0

GateAnswer == {"ok", "failed", "throttled"}

VARIABLES
    window,   \* ticks the rate-limit row has left, or NoRow
    failures, \* BreakerState.failures; above Long nothing changes
    cooldown, \* ticks until cooldown_until, 0 once past, or Unset
    round,    \* where the round stands
    unsent,   \* sends the queue holds and no round has attempted yet
    noted,    \* ticks left of the wait the source reported last and the row got
    sends, mishaps

gateBounds == <<sends, mishaps>>
gateVars == <<window, failures, cooldown, round, unsent, noted, gateBounds>>

GateInit ==
    /\ window = NoRow /\ failures = 0 /\ cooldown = Unset
    /\ round = "idle" /\ unsent = 0 /\ noted = 0
    /\ sends = 0 /\ mishaps = 0

(***************************************************************************)
(* The user's send is queued and nudges the worker.                        *)
(***************************************************************************)
Queue ==
    /\ sends < MaxSends
    /\ sends' = sends + 1 /\ unsent' = unsent + 1
    /\ UNCHANGED <<window, failures, cooldown, round, noted, mishaps>>

(* A poll tick or a nudge.                                                 *)
RoundWithoutReplay ==
    /\ round = "idle" /\ round' = "limit"
    /\ UNCHANGED <<window, failures, cooldown, unsent, noted, gateBounds>>

StartRound ==
    /\ round = "idle" /\ round' = "replay"
    /\ UNCHANGED <<window, failures, cooldown, unsent, noted, gateBounds>>

Mishaps(n) == mishaps + n <= MaxMishaps /\ mishaps' = mishaps + n
Blip == Mishaps(1)

(* run_replay_round comes before any gate: every operation that is due is  *)
(* attempted (OutboxReplay says with what result), unless the queue cannot *)
(* be read. cost: the mishaps of the source's part in a step.              *)
Drain(cost) ==
    /\ round = "replay" /\ round' = "limit"
    /\ \/ unsent' = 0 /\ Mishaps(cost)
       \/ Blip /\ UNCHANGED unsent
    /\ UNCHANGED <<window, failures, cooldown, noted, sends>>

(* get_rate_limit: a live row ends the round; a row that has passed is     *)
(* deleted, as far as the DELETE succeeds. A failed read lets the round go *)
(* on.                                                                     *)
Live(t) == t > 0

AskLimit ==
    /\ round = "limit"
    /\ \/ /\ Live(window) /\ round' = "idle"
          /\ UNCHANGED <<window, mishaps, noted>>
       \/ /\ ~Live(window) /\ round' = "breaker" /\ window' = NoRow
          /\ UNCHANGED <<mishaps, noted>>
       \/ /\ window = 0 /\ Blip /\ round' = "breaker"
          /\ UNCHANGED <<window, noted>>
       \/ /\ Blip /\ round' = "breaker" /\ noted' = 0
          /\ UNCHANGED window
    /\ UNCHANGED <<failures, cooldown, unsent, sends>>

(* breaker_record_failure: with the clock at 0 the deadline it sets is     *)
(* long past.                                                              *)
CooldownFor(n) == IF n >= Long THEN LongCool ELSE ShortCool

(* breaker_cooldown. When unix_now fails the clock reads 0, which is       *)
(* before every deadline: an entry that ever had one skips the round.      *)
BypassCoolsAgain ==
    /\ round = "breaker"
    /\ round' = IF cooldown > 0 THEN "idle" ELSE "list"
    /\ cooldown' = IF cooldown > 0 THEN CooldownFor(failures) ELSE cooldown
    /\ UNCHANGED <<window, failures, unsent, noted, gateBounds>>

AskBreaker ==
    /\ round = "breaker"
    /\ \/ /\ round' = IF cooldown > 0 THEN "idle" ELSE "list"
          /\ UNCHANGED mishaps
       \/ /\ Blip
          /\ round' = IF cooldown # Unset THEN "idle" ELSE "list"
    /\ UNCHANGED <<window, failures, cooldown, unsent, noted, sends>>

RecordFailure(cost) ==
    /\ failures' = IF failures < Long THEN failures + 1 ELSE Long
    /\ \/ /\ cooldown' = IF failures' < Short THEN cooldown
                         ELSE CooldownFor(failures')
          /\ Mishaps(cost)
       \/ /\ Mishaps(cost + 1)
          /\ cooldown' = IF failures' < Short THEN cooldown ELSE 0

(* set_rate_limit replaces the row: the last wait counts. The write may    *)
(* fail.                                                                   *)
SetRateLimit(wait, cost) ==
    \/ window' = wait /\ noted' = wait /\ Mishaps(cost)
    \/ Mishaps(cost + 1) /\ noted' = 0 /\ UNCHANGED window

(* The answer to list_folders.                                             *)
Listed(answer, wait, cost) ==
    /\ round = "list"
    /\ \/ /\ answer = "ok" /\ round' = "folders" /\ Mishaps(cost)
          /\ UNCHANGED <<window, failures, cooldown, noted>>
       \/ /\ answer = "throttled" /\ round' = "idle"
          /\ SetRateLimit(wait, cost)
          /\ UNCHANGED <<failures, cooldown>>
       \/ /\ answer = "failed" /\ round' = "idle"
          /\ RecordFailure(cost)
          /\ UNCHANGED <<window, noted>>
    /\ UNCHANGED <<unsent, sends>>

(* The folders are done, whatever came of each: breaker_record_success.    *)
FinishRound ==
    /\ round = "folders" /\ round' = "idle"
    /\ failures' = 0 /\ cooldown' = Unset
    /\ UNCHANGED <<window, unsent, noted, gateBounds>>

Less(t) == IF t > 0 THEN t - 1 ELSE t

(* Time passes between rounds: what a gate reads during one it would have  *)
(* read had the time passed before.                                        *)
Advance ==
    /\ round = "idle"
    /\ window' = Less(window) /\ cooldown' = Less(cooldown)
    /\ noted' = Less(noted)
    /\ UNCHANGED <<failures, round, unsent, gateBounds>>

(* The breaker lives in memory, the row and the queue in the database.     *)
GateRestart ==
    /\ Mishaps(1)
    /\ round' = "idle" /\ failures' = 0 /\ cooldown' = Unset
    /\ UNCHANGED <<window, unsent, noted, sends>>

(* A mishap in what the source does.                                       *)
GateElsewhere ==
    /\ Mishaps(1)
    /\ UNCHANGED <<window, failures, cooldown, round, unsent, noted, sends>>

GateNext ==
    \/ Queue \/ StartRound \/ AskLimit \/ AskBreaker \/ Advance
    \/ FinishRound \/ GateRestart \/ GateElsewhere
    \/ \E cost \in 0..2 :
          \/ Drain(cost)
          \/ \E answer \in GateAnswer, wait \in Waits \cup {0} : Listed(answer, wait, cost)

GateSpec == GateInit /\ [][GateNext]_gateVars
-----------------------------------------------------------------------------
GateTypeOK ==
    /\ window \in Nat \cup {NoRow}
    /\ failures \in 0..Long
    /\ cooldown \in Unset..LongCool
    /\ round \in {"idle", "replay", "limit", "breaker", "list", "folders"}
    /\ unsent \in 0..sends /\ noted \in Nat
    /\ sends \in 0..MaxSends /\ mishaps \in 0..MaxMishaps

(* A server that asked to be left alone is not asked for its folders until *)
(* the wait is over, unless the row could not be written or read: across   *)
(* restarts, leftover rows and waits that replace one another.             *)
WaitIsKept == [][round = "list" /\ round' # "list" => noted = 0]_gateVars

(* A send does not wait for the receive side: whatever the server does to  *)
(* list_folders, for ever, a queued send is attempted.                     *)
SendsPassTheGates == (unsent > 0) ~> (unsent = 0)

(* The gates shut no account out: a round is followed by one that reaches  *)
(* the server, even when every answer is a failure.                        *)
GatesReopen == (round = "replay") ~> (round = "list")
=============================================================================

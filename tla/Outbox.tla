------------------------------- MODULE Outbox -------------------------------
(***************************************************************************)
(* What the queue promises whoever sends a mail: it stays in the outbox    *)
(* until the queue knows that the server has accepted it, or has tried     *)
(* MaxRetries times; it is offered to the server again only when the last  *)
(* acceptance, if there was one, remained unknown; and a mail given up is  *)
(* kept, and never offered again.                                          *)
(*                                                                         *)
(* OutboxReplay implements this with its tables and its rounds.            *)
(***************************************************************************)
EXTENDS Naturals

CONSTANTS
    Mail,      \* the mails that can be queued
    MaxRetries \* recorded failures after which one is given up

VARIABLES
    standing, \* of each mail: "none", "pending", "failed" or "accepted"
    copies,   \* how often the server has accepted it
    doubts,   \* how often that remained unknown to the queue
    tries     \* failures recorded of a mail in the outbox

mailVars == <<standing, copies, doubts, tries>>

OutboxInit ==
    /\ standing = [m \in Mail |-> "none"]
    /\ copies = [m \in Mail |-> 0] /\ doubts = copies /\ tries = copies

(* What the queue knows of a mail: it was accepted and that will be known, *)
(* unless it comes to be in doubt.                                         *)
Known(m) == copies[m] > doubts[m]

Submit(m) ==
    /\ standing[m] = "none"
    /\ standing' = [standing EXCEPT ![m] = "pending"]
    /\ UNCHANGED <<copies, doubts, tries>>

Accept(m) ==
    /\ standing[m] = "pending" /\ ~Known(m)
    /\ copies' = [copies EXCEPT ![m] = @ + 1]
    /\ doubts' \in {doubts, [doubts EXCEPT ![m] = @ + 1]}
    /\ UNCHANGED <<standing, tries>>

Forget(m) ==
    /\ standing[m] = "pending" /\ Known(m)
    /\ doubts' = [doubts EXCEPT ![m] = @ + 1]
    /\ UNCHANGED <<standing, copies, tries>>

Complete(m) ==
    /\ standing[m] = "pending" /\ Known(m)
    /\ standing' = [standing EXCEPT ![m] = "accepted"]
    /\ tries' = [tries EXCEPT ![m] = 0]
    /\ UNCHANGED <<copies, doubts>>

Retry(m) ==
    /\ standing[m] = "pending" /\ ~Known(m) /\ tries[m] < MaxRetries
    /\ tries' = [tries EXCEPT ![m] = @ + 1]
    /\ standing' = [standing EXCEPT ![m] =
                        IF tries'[m] = MaxRetries THEN "failed" ELSE "pending"]
    /\ UNCHANGED <<copies, doubts>>

OutboxNext ==
    \E m \in Mail :
        Submit(m) \/ Accept(m) \/ Forget(m) \/ Complete(m) \/ Retry(m)

OutboxSpec == OutboxInit /\ [][OutboxNext]_mailVars
=============================================================================

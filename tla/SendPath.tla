------------------------------ MODULE SendPath ------------------------------
(***************************************************************************)
(* One queued mail on its way out (send_op): its MIME is built from the    *)
(* staged files, signed and encrypted as the draft asks, handed to the     *)
(* transport, copied to Sent, its files removed and its row marked. The    *)
(* user changes the account and its keys meanwhile and between attempts.   *)
(*                                                                         *)
(* When a round dequeues the row and how compaction treats the others is   *)
(* OutboxReplay's subject. A certificate stands for its standing: it       *)
(* chains to a trust anchor ("good") or does not ("bad"). Bytes, MIME      *)
(* layout and the granularity of encryption are left out.                  *)
(***************************************************************************)
EXTENDS Naturals, FiniteSets

CONSTANTS
    Me, Others,    \* the account's address, and those of To, Cc and Bcc
    Drafts,        \* the drafts considered
    MaxAttempts,   \* max_retries of the row (10)
    MaxChanges,    \* bound: changes of the user's
    MaxSlips       \* bound: failures of the database, the files, the network
                   \* or the process

Address == Others \cup {Me}
Standard == {"smime", "openpgp"}
Draft == [sign : BOOLEAN, encrypt : BOOLEAN, files : BOOLEAN]
Standing == {"none", "bad", "good"}
Forms == [sign : BOOLEAN, to : SUBSET Address]
Plain == [sign |-> FALSE, to |-> {}]

ASSUME SendAssumption ==
    /\ Drafts \subseteq Draft /\ Me \notin Others
    /\ MaxAttempts \in Nat \ {0} /\ MaxChanges \in Nat /\ MaxSlips \in Nat

VARIABLES
    asked,    \* the draft
    method,   \* accounts.crypto_method
    key,      \* key[s][a]: the first key of address a under standard s
    signer,   \* the standards with a default signing key
    staged,   \* the draft's files are in outbox-attachments
    saves,    \* the server files sent mail by itself (EAS)
    row,      \* the row of the queue: "pending", "failed" or "gone"
    attempts, \* its retry_count
    at,       \* where send_op stands
    std,      \* the standard it read from the account
    todo,     \* addresses it has still to look at
    signs,    \* the default signing key was there when it looked
    mime,     \* the message as far as it is built
    went,     \* the result the replay round gets
    wire,     \* the messages the server accepted
    copies,   \* those appended to Sent
    told,     \* the last sync:send-result
    doubt,    \* an acceptance the client did not learn of, or not record
    changes, slips

settings == <<method, key, signer>>
attempt == <<at, std, todo, signs, mime, went>>
outcome == <<wire, copies, told, doubt>>
spVars == <<asked, settings, staged, saves, row, attempts, attempt, outcome,
            changes, slips>>

SendInit ==
    /\ asked \in Drafts
    /\ method \in Standard \cup {"none"}
    /\ key = [s \in Standard |-> [a \in Address |-> "good"]]
    /\ signer = Standard
    /\ staged = asked.files /\ saves \in BOOLEAN
    /\ row = "pending" /\ attempts = 0
    /\ at = "idle" /\ std = "none" /\ todo = {} /\ signs = FALSE
    /\ mime = Plain /\ went = "none"
    /\ wire = {} /\ copies = {} /\ told = "none" /\ doubt = FALSE
    /\ changes = 0 /\ slips = 0

Slip == slips < MaxSlips /\ slips' = slips + 1
Fine == UNCHANGED slips
OnTheWay == UNCHANGED <<asked, settings, staged, saves, row, attempts, changes>>

(* Every failure before the transport accepts: the user is told, and the   *)
(* round gets an error.                                                    *)
Fails ==
    /\ at' = "mark" /\ went' = "err" /\ told' = "failure"
    /\ std' = "none" /\ todo' = {} /\ signs' = FALSE /\ mime' = Plain
    /\ UNCHANGED <<wire, copies, doubt>>

GoesOn(where) == at' = where /\ UNCHANGED <<went, outcome>>
---------------------------------------------------------------------------
(* get_crypto_granularity, for mail to be encrypted only.                  *)
BeginSend ==
    /\ at = "idle" /\ row = "pending"
    /\ \/ GoesOn("build") /\ Fine
       \/ asked.encrypt /\ Slip /\ Fails
    /\ UNCHANGED <<std, todo, signs, mime>> /\ OnTheWay

(* build_mime_with_granularity reads the staged files.                     *)
BuildMime ==
    /\ at = "build"
    /\ \/ /\ asked.files => staged
          /\ GoesOn(IF asked.sign \/ asked.encrypt THEN "account" ELSE "transport")
          /\ Fine
       \/ asked.files /\ ~staged /\ Fails /\ Fine
       \/ asked.files /\ staged /\ Slip /\ Fails
    /\ UNCHANGED <<std, todo, signs, mime>> /\ OnTheWay

(* The account's crypto_method as it is now. Without one, mail that asks   *)
(* for protection fails.                                                   *)
SentPlain ==
    /\ method = "none" /\ GoesOn("transport") /\ Fine
    /\ UNCHANGED <<std, todo, signs, mime>>
NoMethod == method = "none" /\ Fails /\ Fine

ReadAccount ==
    /\ at = "account"
    /\ \/ /\ method # "none" /\ GoesOn("signer") /\ Fine
          /\ std' = method /\ UNCHANGED <<todo, signs, mime>>
       \/ NoMethod
       \/ Slip /\ Fails
    /\ OnTheWay

(* get_default_signing_key, and the first step of apply_crypto.            *)
ReadSigner ==
    /\ at = "signer"
    /\ \/ /\ asked.sign => std \in signer
          /\ GoesOn(IF asked.encrypt THEN "lookup" ELSE "sign") /\ Fine
          /\ signs' = asked.sign
          /\ todo' = IF asked.encrypt THEN Address ELSE {}
          /\ UNCHANGED <<std, mime>>
       \/ asked.sign /\ std \notin signer /\ Fails /\ Fine
       \/ Slip /\ Fails
    /\ OnTheWay

(* find_by_email for the sender and every recipient.                       *)
FindKey(a) ==
    /\ at = "lookup" /\ a \in todo
    /\ \/ /\ key[std][a] # "none" /\ Fine
          /\ IF todo # {a}
             THEN todo' = todo \ {a} /\ GoesOn("lookup")
             ELSE /\ todo' = IF std = "smime" THEN Address ELSE {}
                  /\ GoesOn(IF std = "smime" THEN "export" ELSE "encrypt")
          /\ UNCHANGED <<std, signs, mime>>
       \/ key[std][a] = "none" /\ Fails /\ Fine
       \/ Slip /\ Fails
    /\ OnTheWay

(* export_public, which finds nothing when the key was deleted since.      *)
ExportKey(a) ==
    /\ at = "export" /\ a \in todo
    /\ \/ /\ key[std][a] # "none" /\ Fine
          /\ todo' = IF todo = {a} THEN Address ELSE todo \ {a}
          /\ GoesOn(IF todo = {a} THEN "validate" ELSE "export")
          /\ UNCHANGED <<std, signs, mime>>
       \/ key[std][a] = "none" /\ Fails /\ Fine
       \/ Slip /\ Fails
    /\ OnTheWay

(* list_trust_anchor_certs and validate_recipient_certs on the exported    *)
(* certificates. One deleted since chains or does not.                     *)
Chain(s) == \A a \in Address : key[s][a] # "bad"
Broken(s) == \E a \in Address : key[s][a] # "good"

ValidateRecipients ==
    /\ at = "validate"
    /\ \/ /\ Chain(std) /\ GoesOn("encrypt") /\ Fine
          /\ todo' = {} /\ UNCHANGED <<std, signs, mime>>
       \/ Broken(std) /\ Fails /\ Fine
       \/ Slip /\ Fails
    /\ OnTheWay

(* CryptoBackend::encrypt reads the keys again by their handles; signing   *)
(* and encrypting are one call.                                            *)
KeysAreThere == \A a \in Address : key[std][a] # "none"
CanSign == signs => std \in signer

Encrypt ==
    /\ at = "encrypt"
    /\ \/ /\ KeysAreThere /\ CanSign /\ GoesOn("transport") /\ Fine
          /\ mime' = [sign |-> signs, to |-> Address]
          /\ std' = "none" /\ signs' = FALSE /\ UNCHANGED todo
       \/ ~(KeysAreThere /\ CanSign) /\ Fails /\ Fine
       \/ Slip /\ Fails
    /\ OnTheWay

Sign ==
    /\ at = "sign"
    /\ \/ /\ CanSign /\ GoesOn("transport") /\ Fine
          /\ mime' = [sign |-> signs, to |-> {}]
          /\ std' = "none" /\ signs' = FALSE /\ UNCHANGED todo
       \/ ~CanSign /\ Fails /\ Fine
       \/ Slip /\ Fails
    /\ OnTheWay
---------------------------------------------------------------------------
(* src.send: accepted; refused; or accepted with the answer lost.          *)
Transport ==
    /\ at = "transport"
    /\ \/ /\ wire' = wire \cup {mime} /\ told' = "success" /\ Fine
          /\ at' = "append"
          /\ UNCHANGED <<std, todo, signs, mime, went, copies, doubt>>
       \/ Slip /\ Fails
       \/ /\ Slip /\ wire' = wire \cup {mime} /\ doubt' = TRUE
          /\ told' = "failure" /\ at' = "mark" /\ went' = "err" /\ mime' = Plain
          /\ UNCHANGED <<std, todo, signs, copies>>
    /\ OnTheWay

(* The copy for Sent, unless the server keeps one or the account wants     *)
(* none: at best effort.                                                   *)
AppendFails == Fails
AppendLogged ==
    at' = "cleanup" /\ UNCHANGED <<std, todo, signs, mime, went, outcome>>

AppendSent ==
    /\ at = "append"
    /\ \/ /\ at' = "cleanup" /\ Fine
          /\ copies' \in (IF saves THEN {copies} ELSE {copies, copies \cup {mime}})
          /\ UNCHANGED <<std, todo, signs, mime, went, wire, told, doubt>>
       \/ ~saves /\ Slip /\ AppendLogged
    /\ OnTheWay

(* cleanup_attachment_files, at best effort too.                           *)
CleanUp ==
    /\ at = "cleanup" /\ at' = "mark" /\ went' = "ok" /\ mime' = Plain
    /\ \/ staged' = FALSE /\ Fine
       \/ staged /\ Slip /\ UNCHANGED staged
    /\ UNCHANGED <<asked, settings, saves, row, attempts, changes, std, todo,
                   signs, outcome>>

(* mark_completed, or mark_failed with its limit.                          *)
Mark ==
    /\ at = "mark" /\ at' = "idle" /\ went' = "none"
    /\ \/ /\ went = "ok" /\ row' = "gone" /\ Fine
          /\ UNCHANGED <<attempts, doubt>>
       \/ /\ went = "err" /\ attempts' = attempts + 1 /\ Fine
          /\ row' = IF attempts + 1 >= MaxAttempts THEN "failed" ELSE "pending"
          /\ UNCHANGED doubt
       \/ /\ Slip /\ doubt' = (doubt \/ went = "ok")
          /\ UNCHANGED <<row, attempts>>
    /\ UNCHANGED <<asked, settings, staged, saves, changes, std, todo, signs,
                   mime, wire, copies, told>>

SendCrash ==
    /\ at # "idle" /\ Slip
    /\ at' = "idle" /\ std' = "none" /\ todo' = {} /\ signs' = FALSE
    /\ mime' = Plain /\ went' = "none"
    /\ doubt' = (doubt \/ at \in {"append", "cleanup"} \/ went = "ok")
    /\ UNCHANGED <<wire, copies, told>> /\ OnTheWay
---------------------------------------------------------------------------
(* The user's settings: the account's method, keys imported and deleted,   *)
(* trust anchors gained and lost, the default signing key.                 *)
Change ==
    /\ row = "pending" /\ changes < MaxChanges /\ changes' = changes + 1
    /\ \/ /\ method' \in (Standard \cup {"none"}) \ {method}
          /\ UNCHANGED <<key, signer>>
       \/ /\ \E s \in Standard, a \in Address, to \in Standing :
                key[s][a] # to /\ key' = [key EXCEPT ![s][a] = to]
          /\ UNCHANGED <<method, signer>>
       \/ /\ \E s \in Standard :
                signer' = IF s \in signer THEN signer \ {s} ELSE signer \cup {s}
          /\ UNCHANGED <<method, key>>
    /\ UNCHANGED <<asked, staged, saves, row, attempts, attempt, outcome, slips>>

SendStep ==
    \/ BeginSend \/ BuildMime \/ ReadAccount \/ ReadSigner \/ ValidateRecipients
    \/ Encrypt \/ Sign \/ Transport \/ AppendSent \/ CleanUp \/ Mark
    \/ \E a \in Address : FindKey(a) \/ ExportKey(a)

SendNext == SendStep \/ SendCrash \/ Change

SendSpec == SendInit /\ [][SendNext]_spVars
---------------------------------------------------------------------------
(* The variables' types.                                                   *)
SendTypeOK ==
    /\ asked \in Drafts /\ method \in Standard \cup {"none"}
    /\ key \in [Standard -> [Address -> Standing]] /\ signer \subseteq Standard
    /\ row \in {"pending", "failed", "gone"} /\ attempts \in 0..MaxAttempts
    /\ std \in Standard \cup {"none"} /\ todo \subseteq Address
    /\ mime \in Forms /\ wire \subseteq Forms /\ copies \subseteq Forms
    /\ went \in {"none", "ok", "err"} /\ told \in {"none", "success", "failure"}
    /\ changes \in 0..MaxChanges /\ slips \in 0..MaxSlips

(* What leaves, and what is kept in Sent, is signed and encrypted as the   *)
(* draft asked when it was queued, for everybody on it and the sender,     *)
(* whatever becomes of the account's method and keys before a retry.       *)
WireIsAsAsked ==
    \A form \in wire \cup copies :
        /\ form.sign = asked.sign
        /\ form.to = IF asked.encrypt THEN Address ELSE {}

(* A mail reported as failed or given up was not accepted, unless the      *)
(* client could not know: nothing that goes wrong after the transport's    *)
(* answer makes the user or the queue send it again.                       *)
FailureMeansUnsent ==
    ~doubt /\ wire # {} => told = "success" /\ row # "failed" /\ went # "err"
=============================================================================

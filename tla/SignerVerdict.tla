--------------------------- MODULE SignerVerdict ---------------------------
(***************************************************************************)
(* What an S/MIME signature is worth: openings of one signed message       *)
(* collect the trust anchors, the user's decision about the signer and the *)
(* revocation lists of the chain, one await after the other, and the last  *)
(* to finish stores its verdict. The lists come from distribution points   *)
(* through a cache that openings share and that keeps a list for a day.    *)
(*                                                                         *)
(* The CMS signature, path building and the use of a list for a signing    *)
(* time are inputs; a list stands for the time it was issued. Encrypted    *)
(* mail is decrypted first and then goes the same way.                     *)
(***************************************************************************)
EXTENDS Naturals

CONSTANTS
    Ttl,         \* CRL_CACHE_TTL_SECS (a day), in ticks
    Flight,      \* the HTTP client's timeout (30 s)
    LastPoint,   \* distribution points, the leaf's first
    MaxTime,     \* bound: ticks
    MaxOpenings, \* bound: openings
    MaxTroubles  \* bound: failures and changes of the user's mind

ASSUME VerdictAssumption ==
    /\ Ttl \in Nat \ {0} /\ Flight \in Nat /\ LastPoint \in Nat /\ MaxTime \in Nat
    /\ MaxOpenings \in Nat /\ MaxTroubles \in Nat

Time == 0..MaxTime
Never == MaxTime + 1
Point == 1..LastPoint
Opening == 1..MaxOpenings
NoList == MaxTime + 1     \* also: no row in crl_cache
NoStamp == MaxTime + 1

(* What a point serves: a list of the signer's issuer that can be used for *)
(* the signing time, one that cannot (expired, not yet valid, not signed   *)
(* by the issuer), that of another issuer, or what is no list.             *)
Serves == {"ours", "useless", "theirs", "garbage"}

(* The signature: it verifies and From is the signer's, or is not; it does *)
(* not verify; the certificate of the signer is not in the message.        *)
Signature == {"sound", "foreign", "broken", "orphan"}
Unopened == [at |-> "unborn", begun |-> 0, point |-> 1, asked |-> 0,
             anchored |-> FALSE, trusted |-> FALSE, list |-> [p \in Point |-> NoList]]

VARIABLES
    now,
    listedFrom, \* when the issuer's lists begin to name the certificate
    serves,     \* what each point serves
    signature,  \* the message's signature
    anchored,   \* an anchor of the chain is in crypto_keys
    trusted,    \* the latest trust decision is "verified"
    issued,     \* crl_cache.crl_der: when its list was issued
    stamped,    \* crl_cache.fetched_at
    opening,    \* what each opening does and has collected
    stored,     \* the row of message_crypto_results
    troubles

world == <<listedFrom, serves, signature>>
userKeys == <<anchored, trusted>>
crlCache == <<issued, stamped>>
svVars == <<now, world, userKeys, crlCache, opening, stored, troubles>>

NothingStored == [says |-> "none", begun |-> 0, heard |-> FALSE]

VerdictInit ==
    /\ now = 0 /\ listedFrom \in Time \cup {Never}
    /\ serves \in [Point -> Serves] /\ signature \in Signature
    /\ anchored = TRUE /\ trusted \in BOOLEAN
    /\ issued = [p \in Point |-> NoList] /\ stamped = [p \in Point |-> NoStamp]
    /\ opening = [o \in Opening |-> Unopened]
    /\ stored = NothingStored /\ troubles = 0

Trouble == troubles < MaxTroubles /\ troubles' = troubles + 1
NoTrouble == UNCHANGED troubles
-----------------------------------------------------------------------------
(* Time passes; a request ends by its timeout.                             *)
OnTheLine(o) == opening[o].at \in {"asked", "answered"}

Tick ==
    /\ now < MaxTime /\ now' = now + 1
    /\ \A o \in Opening : OnTheLine(o) => now < opening[o].asked + Flight
    /\ UNCHANGED <<world, userKeys, crlCache, opening, stored, troubles>>

(* The user trusts the signer or ceases to, imports or deletes an anchor.  *)
UserDecides ==
    /\ Trouble
    /\ \/ trusted' = ~trusted /\ UNCHANGED anchored
       \/ anchored' = ~anchored /\ UNCHANGED trusted
    /\ UNCHANGED <<now, world, crlCache, opening, stored>>

Becomes(o, step) == opening' = [opening EXCEPT ![o] = step]

(* Errors up the stack: nothing is stored.                                 *)
Aborts(o) == Trouble /\ Becomes(o, [Unopened EXCEPT !.at = "over"])

(* list_intermediate_certs and list_trust_anchor_certs; what comes before  *)
(* only reads the message.                                                 *)
ReadAnchors(o) ==
    /\ opening[o].at = "unborn" /\ \A n \in Opening : n < o => opening[n].at # "unborn"
    /\ \/ /\ Becomes(o, [opening[o] EXCEPT !.at = "trust", !.begun = now,
                               !.anchored = anchored])
          /\ NoTrouble
       \/ Aborts(o)
    /\ UNCHANGED <<now, world, userKeys, crlCache, stored>>

(* resolve_signer_trust, with the fingerprint of a first verification: a   *)
(* decision that cannot be read counts as undecided.                       *)
ResolveTrust(o) ==
    /\ opening[o].at = "trust"
    /\ \/ /\ Becomes(o, [opening[o] EXCEPT !.at = "lists",
                               !.trusted = trusted /\ signature # "orphan"])
          /\ NoTrouble
       \/ Trouble /\ Becomes(o, [opening[o] EXCEPT !.at = "lists"])
    /\ UNCHANGED <<now, world, userKeys, crlCache, stored>>
-----------------------------------------------------------------------------
(* resolve_crls: fetch_crl_cached for one point after the other.           *)
AnyStampWillDo(stamp) == stamp # NoStamp
is_fresh(stamp) == stamp # NoStamp /\ stamp + Ttl > now

TakeUp(o, list) ==
    Becomes(o, [opening[o] EXCEPT !.at = "lists", !.asked = 0,
                    !.list[opening[o].point] = list, !.point = @ + 1])

CacheHit(o) ==
    LET p == opening[o].point
    IN  /\ opening[o].at = "lists" /\ p \in Point /\ is_fresh(stamped[p])
        /\ TakeUp(o, issued[p])
        /\ UNCHANGED <<now, world, userKeys, crlCache, stored, troubles>>

AskPoint(o) ==
    LET p == opening[o].point
    IN  /\ opening[o].at = "lists" /\ p \in Point
        /\ \/ ~is_fresh(stamped[p]) /\ NoTrouble
           \/ Trouble
        /\ Becomes(o, [opening[o] EXCEPT !.at = "asked", !.asked = now])
        /\ UNCHANGED <<now, world, userKeys, crlCache, stored>>

(* The point sends what it has; or there is no answer, or no list in it:   *)
(* soft-fail.                                                              *)
Answered(o) ==
    LET p == opening[o].point
    IN  /\ opening[o].at = "asked"
        /\ \/ /\ serves[p] # "garbage" /\ NoTrouble
              /\ Becomes(o, [opening[o] EXCEPT !.at = "answered", !.list[p] = now])
           \/ serves[p] = "garbage" /\ TakeUp(o, NoList) /\ NoTrouble
           \/ Trouble /\ TakeUp(o, NoList)
        /\ UNCHANGED <<now, world, userKeys, crlCache, stored>>

(* upsert_crl, at best effort: the stamp is the time after the download.   *)
KeepList(o) ==
    LET p == opening[o].point
    IN  /\ opening[o].at = "answered"
        /\ TakeUp(o, opening[o].list[p])
        /\ \/ /\ issued' = [issued EXCEPT ![p] = opening[o].list[p]]
              /\ stamped' = [stamped EXCEPT ![p] = now]
              /\ NoTrouble
           \/ Trouble /\ UNCHANGED crlCache
        /\ UNCHANGED <<now, world, userKeys, stored>>
-----------------------------------------------------------------------------
(* KylinsCrlChecker: the first list of the issuer decides; one that cannot *)
(* be used lets the certificate pass, and the next is not looked at.       *)
Speaking(o) == {p \in Point : opening[o].list[p] # NoList /\ serves[p] \in {"ours", "useless"}}
Decides(o, p) == p \in Speaking(o) /\ \A q \in Speaking(o) : p <= q
Heard(o) == \E p \in Point : Decides(o, p) /\ serves[p] = "ours"
Revoked(o) == \E p \in Point : /\ Decides(o, p) /\ serves[p] = "ours"
                              /\ opening[o].list[p] >= listedFrom

(* verify_with_context.                                                    *)
SignatureState(o) ==
    CASE signature = "orphan" -> "unknown-key"
      [] signature = "broken" \/ (signature # "orphan"
             /\ (~opening[o].anchored \/ Revoked(o))) -> "invalid"
      [] signature = "foreign" /\ opening[o].anchored /\ ~Revoked(o) -> "mismatch"
      [] signature = "sound" /\ opening[o].anchored /\ ~Revoked(o) ->
             IF opening[o].trusted THEN "valid-verified" ELSE "valid-unverified"

(* finish_open_crypto replaces the row of the message.                     *)
StoreVerdict(o) ==
    /\ opening[o].at = "lists" /\ opening[o].point \notin Point
    /\ \/ /\ stored' = [says |-> SignatureState(o), begun |-> opening[o].begun,
                        heard |-> Heard(o)]
          /\ Becomes(o, [Unopened EXCEPT !.at = "over"]) /\ NoTrouble
       \/ Aborts(o) /\ UNCHANGED stored
    /\ UNCHANGED <<now, world, userKeys, crlCache>>

VerdictNext ==
    \/ Tick \/ UserDecides
    \/ \E o \in Opening :
          \/ ReadAnchors(o) \/ ResolveTrust(o) \/ CacheHit(o) \/ AskPoint(o)
          \/ Answered(o) \/ KeepList(o) \/ StoreVerdict(o)

VerdictSpec == VerdictInit /\ [][VerdictNext]_svVars
-----------------------------------------------------------------------------
(* The variables' types.                                                   *)
Steps == {"unborn", "trust", "lists", "asked", "answered", "over"}

VerdictTypeOK ==
    /\ now \in Time /\ listedFrom \in Time \cup {Never}
    /\ serves \in [Point -> Serves] /\ signature \in Signature
    /\ anchored \in BOOLEAN /\ trusted \in BOOLEAN
    /\ issued \in [Point -> Time \cup {NoList}]
    /\ stamped \in [Point -> Time \cup {NoStamp}]
    /\ opening \in [Opening -> [at : Steps, begun : Time, point : 1..(LastPoint + 1),
                                asked : Time, anchored : BOOLEAN, trusted : BOOLEAN,
                                list : [Point -> Time \cup {NoList}]]]
    /\ stored.begun \in Time /\ stored.heard \in BOOLEAN /\ troubles \in 0..MaxTroubles

(* A certificate that has been on its issuer's lists for longer than a     *)
(* list is kept and a request lasts does not get a valid verdict from an   *)
(* opening that got hold of a list it could use: however many openings     *)
(* share the cache, overtake one another's downloads, and write its rows.  *)
RevokedIsNotValid ==
    stored.heard /\ stored.says \in {"valid-verified", "valid-unverified", "mismatch"}
        => listedFrom + Ttl + Flight > stored.begun + 1
=============================================================================

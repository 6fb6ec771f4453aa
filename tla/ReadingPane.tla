---------------------------- MODULE ReadingPane ----------------------------
(***************************************************************************)
(* Opening a message. The viewport prefetch and the reading pane have the  *)
(* backend fetch bodies into a bounded cache; the pane shows what it finds *)
(* there or, for S/MIME mail, what opening the cached CMS blobs yields.    *)
(* Every call of the pane and of the prefetch is a task of its own, with   *)
(* an await between any two of its steps, while sync rounds drop messages  *)
(* and renumber the folder.                                                *)
(*                                                                         *)
(* A message's id is made of its folder and UID: after a UIDVALIDITY       *)
(* change it names another mail, one of the next generation. Left out:     *)
(* snippets, attachment rows, and EAS mail, which comes without blobs.     *)
(***************************************************************************)
EXTENDS Naturals, FiniteSets

CONSTANTS
    Mails,       \* message ids of one folder; a thread has one message
    Shapes,      \* what kind of mail each is, one function for each case
    CapRows,     \* BODY_CACHE_CAP_ROWS (2000)
    MaxTasks,    \* bound: tasks at once
    MaxOpens,    \* bound: clicks and list refreshes
    MaxPrefetch, \* bound: prefetches
    MaxGlitches  \* bound: failures, expunges and renumberings together

(* "clear": multipart/signed, a detached signature and the part it covers; *)
(* "cms": one blob, enveloped or opaquely signed.                          *)
Shape == {"plain", "clear", "cms"}
NoMail == "none"

ASSUME PaneAssumption ==
    /\ Shapes \subseteq [Mails -> Shape]
    /\ NoMail \notin Mails /\ IsFiniteSet(Mails)
    /\ CapRows \in Nat /\ MaxTasks \in Nat /\ MaxOpens \in Nat
    /\ MaxPrefetch \in Nat /\ MaxGlitches \in Nat

Tasks == 1..MaxTasks
Html == {"null", "blank", "text"}
Blob == {"ct", "part"}
NoBody == [of |-> 0, html |-> "null", blobs |-> {}]
NoVerdict == [of |-> 0, says |-> "none"]
EmptyPane == [msg |-> NoMail, html |-> "null", says |-> "none"]
Free == [at |-> "free", does |-> "none", no |-> 0, msg |-> NoMail, of |-> 0,
         todo |-> {}, surplus |-> 0, ct |-> FALSE, says |-> "none"]
NotListening == [msg |-> NoMail, held |-> EmptyPane]

VARIABLES
    shape,     \* what each mail is
    gen,       \* the generation the folder's ids stand for
    present,   \* ids with a row in messages
    flagged,   \* those with is_encrypted or is_signed
    cached,    \* those with body_cached = 1
    body,      \* body[m]: the row in message_bodies, or NoBody
    older,     \* pairs of ids with a body, that of the first written before
    verdict,   \* verdict[m]: the row of message_crypto_results
    decrypted, \* the session's plaintext cache
    selected,  \* selectedThreadId
    pane,      \* selectedMessage
    task,      \* what each task does
    listener,  \* the handler of a crypto-result event
    notices,   \* events emitted and not yet delivered
    lastSet,   \* the click or refresh that last set the pane
    overtaken, \* one had set the pane before, though it was later
    crossed,   \* ids renumbered under a call that had read them
    hasty,     \* ids opened while their blobs were not all there
    opens, prefetches, glitches

storeRows == <<shape, gen, present, flagged, cached, body, older, verdict>>
paneVars == <<decrypted, selected, pane, listener, notices>>
paneHistory == <<lastSet, overtaken, crossed, hasty>>
paneBounds == <<opens, prefetches, glitches>>
rpVars == <<storeRows, paneVars, task, paneHistory, paneBounds>>

(* Messages synced before the detection of S/MIME have no flag.            *)
PaneInit ==
    /\ shape \in Shapes
    /\ gen = 1 /\ present = Mails
    /\ flagged \in SUBSET {m \in Mails : shape[m] # "plain"}
    /\ cached = {} /\ body = [m \in Mails |-> NoBody] /\ older = {}
    /\ verdict = [m \in Mails |-> NoVerdict]
    /\ decrypted = [m \in Mails |-> "none"]
    /\ selected = NoMail /\ pane = EmptyPane
    /\ task = [t \in Tasks |-> Free]
    /\ listener = NotListening /\ notices = {}
    /\ lastSet = 0 /\ overtaken = FALSE /\ crossed = {} /\ hasty = {}
    /\ opens = 0 /\ prefetches = 0 /\ glitches = 0

Glitch == glitches < MaxGlitches /\ glitches' = glitches + 1
          /\ UNCHANGED <<opens, prefetches>>

Goes(t, where) == task' = [task EXCEPT ![t].at = where]
Ends(t) == task' = [task EXCEPT ![t] = Free]
Idle(t) == task[t] = Free
Spare(t) == Idle(t) /\ \A s \in 1..(t - 1) : ~Idle(s)
HasBody(m) == body[m] # NoBody
Rows == {m \in Mails : HasBody(m)}
Without(gone) == {p \in older : p[1] \notin gone /\ p[2] \notin gone}
Blobs(m) == CASE shape[m] = "plain" -> {}
              [] shape[m] = "clear" -> Blob
              [] shape[m] = "cms"   -> {"ct"}

---------------------------------------------------------------------------
(* request_bodies_inner, called by the prefetch for what is not cached and *)
(* by the pane for the one message it misses.                              *)

Prefetch(t) ==
    /\ Spare(t) /\ prefetches < MaxPrefetch
    /\ prefetches' = prefetches + 1
    /\ present \ cached # {}
    /\ task' = [task EXCEPT ![t] = [Free EXCEPT !.at = "fetch", !.does = "prefetch",
                                                !.todo = present \ cached]]
    /\ UNCHANGED <<storeRows, paneVars, paneHistory, opens, glitches>>

(* The rows are looked up and the batch comes back; or one of the two      *)
(* fails, and nothing is written.                                          *)
BatchFetched(t) ==
    /\ task[t].at = "fetch"
    /\ \/ task' = [task EXCEPT ![t].at = "next", ![t].todo = @ \cap present,
                               ![t].of = gen]
          /\ UNCHANGED paneBounds
       \/ Glitch /\ task' = [task EXCEPT ![t].at = "next", ![t].todo = {}]
    /\ UNCHANGED <<storeRows, paneVars, paneHistory>>

(* set_message_body: INSERT OR REPLACE, so that the blobs are null until   *)
(* the UPDATEs that follow, and body_cached in the same transaction. The   *)
(* foreign key refuses a body without its message.                         *)
Written(t, where, m, done) ==
    task' = [task EXCEPT ![t].at = where, ![t].todo = @ \ done,
                ![t].msg = IF where = "next" /\ task[t].does = "prefetch" THEN NoMail ELSE m]

SetBody(t, m) ==
    /\ task[t].at = "next" /\ m \in task[t].todo
    /\ \/ /\ m \in present
          /\ body' = [body EXCEPT ![m] =
                        [of |-> task[t].of, blobs |-> {},
                         html |-> IF shape[m] = "cms" THEN "blank" ELSE "text"]]
          /\ older' = Without({m}) \cup ((Rows \ {m}) \X {m})
          /\ cached' = cached \cup {m}
          /\ Written(t, IF shape[m] = "plain" THEN "next" ELSE "ct", m, {m})
          /\ UNCHANGED paneBounds
       \/ /\ task' = [task EXCEPT ![t].todo = @ \ {m}]
          /\ IF m \in present THEN Glitch ELSE UNCHANGED paneBounds
          /\ UNCHANGED <<body, older, cached>>
    /\ UNCHANGED <<shape, gen, present, flagged, verdict, paneVars, paneHistory>>

(* set_message_ciphertext and set_message_signed_part: UPDATEs, which find *)
(* no row after an eviction or an expunge; their errors are logged.        *)
SetBlob(t, blob) ==
    LET m == task[t].msg
    IN  /\ task[t].at = blob
        /\ Goes(t, IF blob = "ct" /\ "part" \in Blobs(m) THEN "part" ELSE "flags")
        /\ \/ /\ body' = IF HasBody(m) THEN [body EXCEPT ![m].blobs = @ \cup {blob}]
                         ELSE body
              /\ UNCHANGED paneBounds
           \/ Glitch /\ UNCHANGED body
        /\ UNCHANGED <<shape, gen, present, flagged, cached, older, verdict,
                       paneVars, paneHistory>>

(* set_message_crypto_flags turns flags on only.                           *)
SetFlags(t) ==
    LET m == task[t].msg
    IN  /\ task[t].at = "flags" /\ Written(t, "next", m, {})
        /\ flagged' = flagged \cup ({m} \cap present)
        /\ UNCHANGED <<shape, gen, present, cached, body, older, verdict,
                       paneVars, paneHistory, paneBounds>>

AfterFetch(t) ==
    IF task[t].does = "open"
    THEN task' = [task EXCEPT ![t].at = "again", ![t].of = 0, ![t].surplus = 0]
    ELSE Ends(t)

(* maybe_evict, after every batch: the count precedes the transaction.     *)
OneBehind(n) == IF n > CapRows + 1 THEN n - CapRows - 1 ELSE 0
Surplus(n) == IF n > CapRows THEN n - CapRows ELSE 0

CountRows(t) ==
    /\ task[t].at = "next" /\ task[t].todo = {}
    /\ LET n == Surplus(Cardinality(Rows))
       IN  IF n = 0 THEN AfterFetch(t)
           ELSE task' = [task EXCEPT ![t].at = "evict", ![t].surplus = n]
    /\ UNCHANGED <<storeRows, paneVars, paneHistory, paneBounds>>

Oldest(n) == {m \in Rows : Cardinality({k \in Rows : <<k, m>> \in older}) < n}
RowsOnly(gone) == cached
FlagsToo(gone) == cached \ gone

Evict(t) ==
    LET gone == Oldest(task[t].surplus)
    IN  /\ task[t].at = "evict" /\ AfterFetch(t)
        /\ \/ /\ body' = [m \in Mails |-> IF m \in gone THEN NoBody ELSE body[m]]
              /\ older' = Without(gone)
              /\ cached' = FlagsToo(gone)
              /\ UNCHANGED paneBounds
           \/ Glitch /\ UNCHANGED <<body, older, cached>>
        /\ UNCHANGED <<shape, gen, present, flagged, verdict, paneVars, paneHistory>>

---------------------------------------------------------------------------
(* openThreadBody, from a click in the list (selectThread, setSelection).  *)

Open(t, m) ==
    /\ Spare(t) /\ opens < MaxOpens /\ opens' = opens + 1
    /\ selected' = m
    /\ task' = [task EXCEPT ![t] = [Free EXCEPT !.at = "row", !.does = "open",
                                                !.no = opens + 1, !.msg = m]]
    /\ UNCHANGED <<storeRows, decrypted, pane, listener, notices, paneHistory,
                   prefetches, glitches>>

(* loadThreads: a new list selects nothing.                                *)
Refresh ==
    /\ opens < MaxOpens /\ opens' = opens + 1 /\ lastSet' = opens + 1
    /\ selected' = NoMail /\ pane' = EmptyPane
    /\ UNCHANGED <<storeRows, decrypted, listener, notices, task, overtaken,
                   crossed, hasty, prefetches, glitches>>

(* setSelectedMessage, whatever is selected by now.                        *)
Sets(t, shown) ==
    /\ Ends(t) /\ pane' = shown
    /\ lastSet' = task[t].no
    /\ overtaken' = (overtaken \/ lastSet > task[t].no)
    /\ UNCHANGED <<storeRows, selected, listener, notices, crossed, hasty, paneBounds>>

Shown(m, html, says) == [msg |-> m, html |-> html, says |-> says]

(* The message's row decides the way.                                      *)
RowGone(t) ==
    /\ task[t].at = "row" /\ task[t].msg \notin present
    /\ Sets(t, EmptyPane) /\ UNCHANGED decrypted

ReadRow(t) ==
    LET m == task[t].msg
    IN  /\ task[t].at = "row" /\ m \in present
        /\ Goes(t, CASE m \notin flagged       -> "peek"
                     [] m \in flagged /\ decrypted[m] = "none" -> "openCt"
                     [] OTHER                 -> "recall")
        /\ UNCHANGED <<storeRows, paneVars, paneHistory, paneBounds>>

(* The plain way: the cached body, or the body fetched and read again.     *)
Miss(t) ==
    /\ task[t].at = "peek" /\ body[task[t].msg].html = "null"
    /\ task' = [task EXCEPT ![t].at = "fetch", ![t].todo = {task[t].msg}]
    /\ UNCHANGED <<storeRows, paneVars, paneHistory, paneBounds>>

ShowBody(t) ==
    LET m == task[t].msg
    IN  /\ task[t].at = "again" \/ (task[t].at = "peek" /\ body[m].html # "null")
        /\ Sets(t, Shown(m, body[m].html, "none")) /\ UNCHANGED decrypted

(* The session has the plaintext: only the stored verdict is read.         *)
Recall(t) ==
    LET m == task[t].msg
    IN  /\ task[t].at = "recall"
        /\ Sets(t, Shown(m, decrypted[m], verdict[m].says)) /\ UNCHANGED decrypted

(* decrypt_message_with_outcome reads the two columns one after the other. *)
Missing(m) == IF Blobs(m) \subseteq body[m].blobs THEN {} ELSE {m}

OpenCt(t) ==
    LET m == task[t].msg
    IN  /\ task[t].at = "openCt"
        /\ task' = [task EXCEPT ![t].at = "openPart", ![t].ct = "ct" \in body[m].blobs,
                                ![t].of = gen]
        /\ hasty' = hasty \cup Missing(m)
        /\ UNCHANGED <<storeRows, paneVars, lastSet, overtaken, crossed, paneBounds>>

(* A detached signature without its part is verified as an opaque one and  *)
(* fails; without a blob the mail counts as encrypted and not decrypted.   *)
BlobOnly(m, ct, part) ==
    CASE ~ct -> "failed" [] ct /\ shape[m] = "clear" -> "invalid" [] OTHER -> "right"
OpeningYields(m, ct, part) ==
    CASE ~ct -> "failed"
      [] ct /\ shape[m] = "clear" /\ ~part -> "invalid"
      [] OTHER -> "right"

OpenPart(t) ==
    LET m == task[t].msg
    IN  /\ task[t].at = "openPart"
        /\ hasty' = hasty \cup Missing(m)
        /\ \/ task' = [task EXCEPT ![t].at = "record", ![t].ct = FALSE,
                          ![t].says = OpeningYields(m, task[t].ct, "part" \in body[m].blobs)]
              /\ UNCHANGED paneBounds
           \/ Glitch /\ task' = [task EXCEPT ![t].at = "show", ![t].says = "error",
                                       ![t].ct = FALSE, ![t].of = 0]
        /\ UNCHANGED <<storeRows, paneVars, lastSet, overtaken, crossed>>

(* upsert_message_crypto_result, under a foreign key, and the event.       *)
Record(t) ==
    LET m == task[t].msg
    IN  /\ task[t].at = "record"
        /\ \/ /\ m \in present /\ task' = [task EXCEPT ![t].at = "show", ![t].of = 0]
              /\ verdict' = [verdict EXCEPT ![m] = [of |-> task[t].of,
                                                    says |-> task[t].says]]
              /\ notices' = notices \cup {m}
              /\ UNCHANGED paneBounds
           \/ /\ task' = [task EXCEPT ![t].at = "show", ![t].says = "error", ![t].of = 0]
              /\ IF m \in present THEN Glitch ELSE UNCHANGED paneBounds
              /\ UNCHANGED <<verdict, notices>>
        /\ UNCHANGED <<shape, gen, present, flagged, cached, body, older,
                       decrypted, selected, pane, listener, paneHistory>>

(* The text goes to the session's cache, a missing one too; that of an     *)
(* error does not.                                                         *)
ShowOpened(t) ==
    LET m == task[t].msg
        html == IF task[t].says = "right" THEN "text" ELSE "blank"
    IN  /\ task[t].at = "show"
        /\ Sets(t, Shown(m, html, task[t].says))
        /\ decrypted' = IF task[t].says = "error" THEN decrypted
                        ELSE [decrypted EXCEPT ![m] = html]

(* applyCryptoResultToSelectedMessage: it keeps the message it saw and     *)
(* looks again after its read.                                             *)
Notice(m) ==
    /\ m \in notices /\ listener = NotListening
    /\ notices' = notices \ {m}
    /\ listener' = IF pane.msg = m THEN [msg |-> m, held |-> pane] ELSE listener
    /\ UNCHANGED <<storeRows, decrypted, selected, pane, task, paneHistory, paneBounds>>

NeverLeft(m) == TRUE
StillShown(m) == pane.msg = m

Refine ==
    LET m == listener.msg
    IN  /\ listener # NotListening /\ listener' = NotListening
        /\ pane' = IF verdict[m] # NoVerdict /\ StillShown(m)
                   THEN [listener.held EXCEPT !.says = verdict[m].says] ELSE pane
        /\ UNCHANGED <<storeRows, decrypted, selected, notices, task, paneHistory, paneBounds>>

---------------------------------------------------------------------------
(* Sync rounds. Bodies and verdicts go with their messages.                *)
CascadeStops(gone) == body
Cascade(gone) == [m \in Mails |-> IF m \in gone THEN NoBody ELSE body[m]]

DropRows(gone) ==
    /\ present' = present \ gone /\ cached' = cached \ gone
    /\ flagged' = flagged \ gone
    /\ body' = Cascade(gone)
    /\ older' = Without(gone)
    /\ verdict' = [m \in Mails |-> IF m \in gone THEN NoVerdict ELSE verdict[m]]
    /\ UNCHANGED <<shape, paneVars, task, lastSet, overtaken, hasty>>

Expunge(m) ==
    /\ m \in present /\ Glitch /\ DropRows({m})
    /\ UNCHANGED <<gen, crossed>>

(* A UIDVALIDITY change: the wipe, and the new mail under the old ids.     *)
Reading(t) == IF task[t].at \in {"next", "ct", "part", "flags", "openPart", "record"}
              THEN task[t].todo \cup {task[t].msg} ELSE {}
Renumber ==
    /\ Glitch /\ DropRows(Mails) /\ gen' = gen + 1
    /\ crossed' = crossed \cup (Mails \cap UNION {Reading(t) : t \in Tasks})

Refill ==
    /\ gen > 1 /\ present = {} /\ present' = Mails
    /\ flagged' = {m \in Mails : shape[m] # "plain"}
    /\ UNCHANGED <<shape, gen, cached, body, older, verdict, paneVars, task,
                   paneHistory, paneBounds>>

FetchStep(t) ==
    \/ BatchFetched(t) \/ CountRows(t) \/ Evict(t) \/ SetFlags(t)
    \/ \E m \in Mails : SetBody(t, m)
    \/ \E blob \in Blob : SetBlob(t, blob)
OpenStep(t) ==
    \/ RowGone(t) \/ ReadRow(t) \/ Miss(t) \/ ShowBody(t) \/ Recall(t)
    \/ OpenCt(t) \/ OpenPart(t) \/ Record(t) \/ ShowOpened(t)

PaneNext ==
    \/ \E t \in Tasks : \/ Prefetch(t) \/ FetchStep(t) \/ OpenStep(t)
                        \/ \E m \in Mails : Open(t, m)
    \/ \E m \in Mails : Notice(m) \/ Expunge(m)
    \/ Refresh \/ Refine \/ Renumber \/ Refill

PaneSpec == PaneInit /\ [][PaneNext]_rpVars
---------------------------------------------------------------------------
(* The variables' types.                                                   *)
PaneTypeOK ==
    /\ shape \in Shapes /\ gen \in 1..(MaxGlitches + 1)
    /\ present \subseteq Mails /\ flagged \subseteq present
    /\ body \in [Mails -> [of : 0..gen, html : Html, blobs : SUBSET Blob]]
    /\ older \subseteq Rows \X Rows
    /\ verdict \in [Mails -> [of : 0..gen, says : {"none", "right", "failed", "invalid"}]]
    /\ decrypted \in [Mails -> {"none", "blank", "text"}]
    /\ selected \in Mails \cup {NoMail}
    /\ pane.msg \in Mails \cup {NoMail} /\ pane.html \in Html
    /\ hasty \subseteq Mails /\ crossed \subseteq Mails
    /\ opens \in 0..MaxOpens /\ prefetches \in 0..MaxPrefetch
    /\ glitches \in 0..MaxGlitches

(* body_cached says what message_bodies holds, across concurrent fetches,  *)
(* evictions and expunges: a message marked without a body would never be  *)
(* prefetched again, one with a body and no mark for ever.                 *)
CachedMeansStored ==
    \A m \in Mails : (m \in cached) <=> HasBody(m)

(* A stored body or verdict is that of the mail its id names now, unless a *)
(* fetch or an opening ran across the renumbering.                         *)
RowsAreOfTheirMail ==
    \A m \in Mails \ crossed :
        /\ HasBody(m) => body[m].of = gen
        /\ verdict[m] # NoVerdict => verdict[m].of = gen

(* A mail whose blobs were there whenever it was opened has the right      *)
(* verdict: refetching it, evicting others and reading the two columns one *)
(* after the other do no harm except while the row is being rewritten.     *)
VerdictFitsMail ==
    \A m \in Mails \ hasty : verdict[m].says \in {"none", "right"}

(* When no opening is on its way the pane shows the selected thread, or    *)
(* nothing when it is gone, unless an opening finished after a later one.  *)
PaneFollowsSelection ==
    (\A t \in Tasks : task[t].does # "open") /\ ~overtaken =>
        pane.msg \in {selected, NoMail}
=============================================================================

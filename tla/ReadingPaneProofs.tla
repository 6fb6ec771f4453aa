-------------------------- MODULE ReadingPaneProofs --------------------------
(***************************************************************************)
(* Proofs about ReadingPane: body_cached says what is stored, a stored     *)
(* body or verdict belongs to the mail its id names, a verdict fits the    *)
(* mail it is about, and the pane follows the selection. PaneInv is the    *)
(* inductive invariant. To the types it adds what a call that is under way *)
(* has read: a fetch that has its batch read it under the present ids, a   *)
(* mail that is being opened is not a plain one, and of the clicks and     *)
(* refreshes the latest set the pane last or is still on its way.          *)
(***************************************************************************)
EXTENDS ReadingPane, FiniteSetTheorems, TLAPS

FetchSteps == {"fetch", "next", "ct", "part", "flags", "evict"}
OpenSteps == {"again", "row", "peek", "openCt", "openPart", "recall", "record", "show"}
Says == {"none", "right", "failed", "invalid", "error"}
Generation == 0..(MaxGlitches + 1)
TaskType ==
    [at : FetchSteps \cup OpenSteps \cup {"free"}, does : {"none", "prefetch", "open"},
     no : 0..MaxOpens, msg : Mails \cup {NoMail}, of : Generation,
     todo : SUBSET Mails, surplus : Nat, ct : BOOLEAN, says : Says]
PaneType == [msg : Mails \cup {NoMail}, html : Html, says : Says]

(* The types of the store's rows, and of the rest.                         *)
StoreTypes ==
    /\ present \subseteq Mails /\ flagged \subseteq present /\ cached \subseteq Mails
    /\ body \in [Mails -> [of : Generation, html : Html, blobs : SUBSET Blob]]
    /\ older \subseteq Rows \X Rows
    /\ verdict \in [Mails -> [of : Generation, says : Says \ {"error"}]]

PaneTypes ==
    /\ shape \in Shapes /\ shape \in [Mails -> Shape]
    /\ gen \in Nat /\ gen >= 1 /\ gen <= glitches + 1
    /\ decrypted \in [Mails -> {"none", "blank", "text"}]
    /\ selected \in Mails \cup {NoMail} /\ pane \in PaneType
    /\ listener \in [msg : Mails \cup {NoMail}, held : PaneType]
    /\ notices \subseteq Mails
    /\ task \in [Tasks -> TaskType]
    /\ lastSet \in 0..opens /\ overtaken \in BOOLEAN
    /\ hasty \subseteq Mails /\ crossed \subseteq Mails
    /\ opens \in 0..MaxOpens /\ prefetches \in 0..MaxPrefetch
    /\ glitches \in 0..MaxGlitches

(* What a step says of the task that is at it.                             *)
TaskFits(k) ==
    /\ k.of <= gen
    /\ k.at \in {"ct", "part", "flags"} \cup OpenSteps => k.msg \in Mails
    /\ k.at \in OpenSteps => k.does = "open"
    /\ k.does = "open" => k.msg \in Mails /\ k.todo \subseteq {k.msg}
    /\ k.at = "recall" => decrypted[k.msg] # "none"
    /\ k.at = "record" => k.says \in {"right", "failed", "invalid"}

GenerationsFit ==
    \A m \in Mails : body[m].of <= gen /\ verdict[m].of <= gen

StoredIsMarked ==
    \A m \in Mails : /\ HasBody(m) => body[m].html # "null"
                     /\ (m \in cached) <=> HasBody(m)

(* Of a call that has read the rows, what it read is of the present        *)
(* generation, unless it is in "crossed".                                  *)
ReadIsPresent(k) ==
    /\ k.at \in {"next", "ct", "part", "flags"} =>
          \A m \in k.todo \ crossed : k.of = gen
    /\ k.at \in {"openPart", "record"} /\ k.msg \notin crossed => k.of = gen

(* Plain mail is neither flagged nor opened, and an opening that found all *)
(* the blobs has the right verdict.                                        *)
OpenedFits(k) ==
    /\ k.at \in {"ct", "part", "flags", "openCt", "openPart"} => shape[k.msg] # "plain"
    /\ k.at = "openPart" /\ k.msg \notin hasty => k.ct
    /\ k.at = "record" /\ k.msg \notin hasty => k.says = "right"
NoPlainFlagged == \A m \in flagged : shape[m] # "plain"

(* The latest click or refresh has the number "opens".                     *)
LatestOnItsWay == \E t \in Tasks : task[t].does = "open" /\ task[t].no = opens
Following ==
    /\ \A t \in Tasks : task[t].does = "open" =>
          task[t].no \in 1..opens /\ (task[t].no = opens => task[t].msg = selected)
    /\ lastSet = opens => overtaken \/ pane.msg \in {selected, NoMail}
    /\ lastSet = opens \/ LatestOnItsWay \/ overtaken
    /\ listener # NotListening => listener.msg \in Mails /\ listener.held.msg = listener.msg

RowsInv ==
    /\ StoreTypes /\ GenerationsFit /\ StoredIsMarked /\ RowsAreOfTheirMail
    /\ VerdictFitsMail /\ NoPlainFlagged

PaneInv ==
    /\ PaneTypes /\ RowsInv /\ Following
    /\ \A t \in Tasks : TaskFits(task[t]) /\ ReadIsPresent(task[t]) /\ OpenedFits(task[t])

LEMMA InitHolds == PaneInit => PaneInv
<1> SUFFICES ASSUME PaneInit PROVE PaneInv
  OBVIOUS
<1> USE PaneAssumption DEF PaneInit
<1>1. Rows = {} /\ \A m \in Mails : ~HasBody(m)
  BY DEF Rows, HasBody
<1>2. PaneTypes /\ StoreTypes
  <2>1. Free \in TaskType
    BY DEF Free, TaskType, Says, Generation
  <2>2. EmptyPane \in PaneType /\ NotListening \in [msg : Mails \cup {NoMail}, held : PaneType]
    BY DEF PaneType, EmptyPane, NotListening, Html, Says
  <2>3. NoBody \in [of : Generation, html : Html, blobs : SUBSET Blob]
    BY DEF NoBody, Generation, Html
  <2>4. NoVerdict \in [of : Generation, says : Says \ {"error"}]
    BY DEF NoVerdict, Generation, Says
  <2>5. shape \in [Mails -> Shape] /\ gen \in Nat /\ gen >= 1 /\ gen <= glitches + 1 /\ lastSet \in 0..opens
        /\ opens \in 0..MaxOpens /\ prefetches \in 0..MaxPrefetch /\ glitches \in 0..MaxGlitches
    OBVIOUS
  <2> QED
    BY <1>1, <2>1, <2>2, <2>3, <2>4, <2>5 DEF PaneTypes, StoreTypes
<1>3. \A t \in Tasks : TaskFits(task[t]) /\ ReadIsPresent(task[t]) /\ OpenedFits(task[t])
  BY DEF Free, TaskFits, ReadIsPresent, OpenedFits, OpenSteps
<1>4. GenerationsFit /\ StoredIsMarked /\ RowsAreOfTheirMail /\ VerdictFitsMail
  BY <1>1 DEF GenerationsFit, StoredIsMarked, RowsAreOfTheirMail, VerdictFitsMail, HasBody,
     NoBody, NoVerdict
<1>5. NoPlainFlagged /\ Following
  BY DEF NoPlainFlagged, Following, Free, EmptyPane
<1> QED
  BY <1>2, <1>3, <1>4, <1>5 DEF PaneInv, RowsInv

LEMMA OneMore ==
  ASSUME NEW n \in Nat, NEW g \in Nat, NEW h \in Nat, n <= g + 1, g <= h
  PROVE  n <= h + 1
OBVIOUS

(* What the tasks have read stays so when one of them takes a step, or     *)
(* none, and the generation does not change.                               *)
LEMMA TasksKept ==
  ASSUME PaneInv, gen' = gen, shape' = shape, crossed' = crossed, hasty \subseteq hasty',
         \A m \in Mails : decrypted[m] # "none" => decrypted'[m] # "none",
         NEW t \in Tasks, NEW k \in TaskType, task' = [task EXCEPT ![t] = k],
         TaskFits(k)', ReadIsPresent(k), OpenedFits(k)'
  PROVE  /\ task' \in [Tasks -> TaskType]
         /\ \A s \in Tasks : (TaskFits(task[s]) /\ ReadIsPresent(task[s]) /\ OpenedFits(task[s]))'
<1>1. task \in [Tasks -> TaskType] /\ task' \in [Tasks -> TaskType]
  BY DEF PaneInv, PaneTypes
<1>2. SUFFICES ASSUME NEW s \in Tasks
               PROVE  (TaskFits(task[s]) /\ ReadIsPresent(task[s]) /\ OpenedFits(task[s]))'
  BY <1>1
<1>3. CASE s = t
  <2>1. task'[s] = k
    BY <1>1, <1>3
  <2>2. ReadIsPresent(k)'
    BY DEF ReadIsPresent
  <2> QED
    BY <2>1, <2>2 DEF TaskFits, ReadIsPresent, OpenedFits
<1>4. CASE s # t
  <2>1. task'[s] = task[s] /\ TaskFits(task[s]) /\ ReadIsPresent(task[s]) /\ OpenedFits(task[s])
    BY <1>1, <1>4 DEF PaneInv
  <2>2. task[s].at = "recall" => task[s].msg \in Mails
    BY <2>1 DEF TaskFits, OpenSteps
  <2> QED
    BY <2>1, <2>2 DEF TaskFits, ReadIsPresent, OpenedFits
<1> QED
  BY <1>3, <1>4

(* Nor does a step that is not the last of an opening change what the pane *)
(* follows.                                                                *)
LEMMA FollowingKept ==
  ASSUME PaneInv, UNCHANGED <<selected, pane, listener, lastSet, overtaken, opens>>,
         NEW t \in Tasks, NEW k \in TaskType, task' = [task EXCEPT ![t] = k],
         task[t].does = "open" => /\ k.does = "open" /\ k.no = task[t].no
                                  /\ k.msg = task[t].msg,
         k.does = "open" => task[t].does = "open"
  PROVE  Following'
BY DEF PaneInv, PaneTypes, Following, LatestOnItsWay

(* A step of one task that leaves the pane and the history as they are,    *)
(* whatever it writes to the store.                                        *)
LEMMA TaskStep ==
  ASSUME PaneInv, RowsInv', NEW t \in Tasks, NEW k \in TaskType, task' = [task EXCEPT ![t] = k],
         UNCHANGED <<shape, gen, decrypted, selected, pane, listener, lastSet, overtaken,
                     crossed, opens>>,
         notices' \subseteq Mails, hasty \subseteq hasty', hasty' \subseteq Mails,
         prefetches' \in 0..MaxPrefetch, glitches' \in 0..MaxGlitches, glitches <= glitches',
         TaskFits(k), ReadIsPresent(k), OpenedFits(k)',
         task[t].does = "open" => /\ k.does = "open" /\ k.no = task[t].no
                                  /\ k.msg = task[t].msg,
         k.does = "open" => task[t].does = "open"
  PROVE  PaneInv'
<1>1. \A m \in Mails : decrypted[m] # "none" => decrypted'[m] # "none"
  OBVIOUS
<1>2. TaskFits(k)'
  BY DEF TaskFits
<1>3. /\ task' \in [Tasks -> TaskType]
      /\ \A s \in Tasks : (TaskFits(task[s]) /\ ReadIsPresent(task[s]) /\ OpenedFits(task[s]))'
  BY <1>1, <1>2, TasksKept
<1>4. Following'
  BY FollowingKept
<1>5. PaneTypes'
  <2>1. gen \in Nat /\ gen >= 1 /\ gen <= glitches + 1 /\ glitches \in Nat /\ glitches' \in Nat
    BY PaneAssumption DEF PaneInv, PaneTypes
  <2>2. gen <= glitches' + 1
    BY <2>1, OneMore
  <2> QED
    BY <1>3, <2>1, <2>2 DEF PaneInv, PaneTypes
<1> QED
  BY <1>3, <1>4, <1>5 DEF PaneInv

(* The store's rows are as good as they were when they are not touched.    *)
LEMMA RowsKept ==
  ASSUME RowsInv, UNCHANGED <<storeRows, crossed>>, hasty \subseteq hasty'
  PROVE  RowsInv'
<1>1. Rows' = Rows /\ \A m \in Mails : HasBody(m)' = HasBody(m)
  BY DEF Rows, HasBody, storeRows
<1> QED
  BY <1>1 DEF RowsInv, StoreTypes, GenerationsFit, StoredIsMarked, RowsAreOfTheirMail,
     VerdictFitsMail, NoPlainFlagged, storeRows, HasBody

LEMMA ReadOnlyStep ==
  ASSUME PaneInv, NEW t \in Tasks, NEW k \in TaskType, task' = [task EXCEPT ![t] = k],
         UNCHANGED <<storeRows, paneVars, lastSet, overtaken, crossed>>,
         opens' = opens, hasty \subseteq hasty', hasty' \subseteq Mails,
         prefetches' \in 0..MaxPrefetch, glitches' \in 0..MaxGlitches, glitches <= glitches',
         TaskFits(k), ReadIsPresent(k), OpenedFits(k)',
         k.does = task[t].does, k.no = task[t].no, k.does = "open" => k.msg = task[t].msg
  PROVE  PaneInv'
<1>1. RowsInv'
  BY RowsKept DEF PaneInv
<1>2. notices' \subseteq Mails
  BY DEF PaneInv, PaneTypes, paneVars
<1>3. UNCHANGED <<shape, gen, decrypted, selected, pane, listener, lastSet, overtaken,
                  crossed, opens>>
  BY DEF paneVars, storeRows
<1> QED
  BY <1>1, <1>2, <1>3, TaskStep

(* The steps that only read: the lookup, the count, the message's row, the *)
(* body that is missing, the blobs.                                        *)
LEMMA ReadingStep ==
  ASSUME PaneInv, NEW t \in Tasks,
         \/ BatchFetched(t) \/ ReadRow(t) \/ Miss(t) \/ OpenCt(t) \/ OpenPart(t)
  PROVE  PaneInv'
<1> USE PaneAssumption
<1>0. /\ PaneTypes /\ task[t] \in TaskType /\ TaskFits(task[t])
      /\ ReadIsPresent(task[t]) /\ OpenedFits(task[t]) /\ gen \in Generation
      /\ RowsInv /\ NoPlainFlagged /\ glitches \in Nat /\ glitches \in 0..MaxGlitches /\ prefetches \in 0..MaxPrefetch
      /\ hasty \subseteq Mails
  BY DEF PaneInv, PaneTypes, RowsInv, Generation
<1>1. CASE BatchFetched(t)
  <2>1. PICK k : /\ task' = [task EXCEPT ![t] = k]
                 /\ \/ k = [task[t] EXCEPT !.at = "next", !.todo = @ \cap present, !.of = gen]
                    \/ k = [task[t] EXCEPT !.at = "next", !.todo = {}]
    BY <1>1, <1>0 DEF BatchFetched, PaneTypes, TaskType
  <2>2. \E td \in SUBSET task[t].todo, g \in {gen, task[t].of} :
          /\ g = gen \/ td = {}
          /\ k = [at |-> "next", does |-> task[t].does, no |-> task[t].no, msg |-> task[t].msg,
                  of |-> g, todo |-> td, surplus |-> task[t].surplus, ct |-> task[t].ct,
                  says |-> task[t].says]
    <3>1. CASE k = [task[t] EXCEPT !.at = "next", !.todo = @ \cap present, !.of = gen]
      BY <3>1, <1>0 DEF TaskType
    <3>2. CASE k = [task[t] EXCEPT !.at = "next", !.todo = {}]
      BY <3>2, <1>0 DEF TaskType
    <3> QED
      BY <2>1, <3>1, <3>2
  <2>3. /\ k \in TaskType /\ k.at = "next" /\ k.does = task[t].does /\ k.no = task[t].no
        /\ k.msg = task[t].msg /\ k.todo \subseteq task[t].todo
        /\ k.of = gen \/ (k.of = task[t].of /\ k.todo = {})
    BY <2>2, <1>0 DEF TaskType, FetchSteps
  <2>4. TaskFits(k) /\ ReadIsPresent(k) /\ OpenedFits(k)'
    BY <2>3, <1>0 DEF TaskFits, ReadIsPresent, OpenedFits, OpenSteps, PaneTypes
  <2>5. UNCHANGED <<storeRows, paneVars, lastSet, overtaken, crossed, opens, hasty>>
    BY <1>1 DEF BatchFetched, paneHistory, paneBounds, Glitch
  <2>6. prefetches' \in 0..MaxPrefetch /\ glitches' \in 0..MaxGlitches /\ glitches <= glitches'
        /\ hasty' \subseteq Mails
    BY <1>1, <1>0, <2>5 DEF BatchFetched, PaneTypes, Glitch, paneBounds
  <2> QED
    BY <2>1, <2>3, <2>4, <2>5, <2>6, ReadOnlyStep
<1>2. CASE ReadRow(t)
  <2>1. PICK a \in {"peek", "openCt", "recall"} :
          /\ task' = [task EXCEPT ![t].at = a] /\ task[t].at = "row"
          /\ a = "openCt" => task[t].msg \in flagged
          /\ a = "recall" => decrypted[task[t].msg] # "none"
    BY <1>2 DEF ReadRow, Goes
  <2>2. PICK k : k = [task[t] EXCEPT !.at = a] /\ task' = [task EXCEPT ![t] = k]
    BY <2>1, <1>0 DEF PaneTypes, TaskType
  <2>3. k = [at |-> a, does |-> task[t].does, no |-> task[t].no, msg |-> task[t].msg,
            of |-> task[t].of, todo |-> task[t].todo, surplus |-> task[t].surplus,
            ct |-> task[t].ct, says |-> task[t].says]
    BY <2>2, <1>0 DEF TaskType
  <2>4. k \in TaskType
    BY <2>3, <2>1, <1>0 DEF TaskType, OpenSteps
  <2>5. UNCHANGED <<storeRows, paneVars, paneHistory, paneBounds>>
    BY <1>2 DEF ReadRow
  <2>6. TaskFits(k) /\ ReadIsPresent(k) /\ OpenedFits(k)'
    BY <2>1, <2>3, <2>5, <1>0
    DEF TaskFits, ReadIsPresent, OpenedFits, OpenSteps, storeRows, NoPlainFlagged
  <2> QED
    <3>1. /\ UNCHANGED <<storeRows, paneVars, lastSet, overtaken, crossed, opens, hasty>>
          /\ prefetches' \in 0..MaxPrefetch /\ glitches' \in 0..MaxGlitches /\ glitches <= glitches'
      BY <2>5, <1>0 DEF paneHistory, paneBounds
    <3>2. k.does = task[t].does /\ k.no = task[t].no /\ k.msg = task[t].msg /\ hasty' \subseteq Mails
      BY <2>3, <3>1, <1>0
    <3> QED
      BY <2>2, <2>4, <2>6, <3>1, <3>2, ReadOnlyStep
<1>3. CASE Miss(t)
  <2>1. PICK k : /\ k = [task[t] EXCEPT !.at = "fetch", !.todo = {task[t].msg}]
                 /\ task' = [task EXCEPT ![t] = k]
    BY <1>3, <1>0 DEF Miss, PaneTypes, TaskType
  <2>2. k = [at |-> "fetch", does |-> task[t].does, no |-> task[t].no, msg |-> task[t].msg,
            of |-> task[t].of, todo |-> {task[t].msg}, surplus |-> task[t].surplus,
            ct |-> task[t].ct, says |-> task[t].says]
    BY <2>1, <1>0 DEF TaskType
  <2>3. task[t].at = "peek" /\ UNCHANGED <<storeRows, paneVars, paneHistory, paneBounds>>
    BY <1>3 DEF Miss
  <2>4. k \in TaskType
    BY <2>2, <2>3, <1>0 DEF TaskType, FetchSteps, TaskFits, OpenSteps
  <2>5. TaskFits(k) /\ ReadIsPresent(k) /\ OpenedFits(k)'
    BY <2>2, <2>3, <1>0 DEF TaskFits, ReadIsPresent, OpenedFits, OpenSteps
  <2> QED
    <3>1. /\ UNCHANGED <<storeRows, paneVars, lastSet, overtaken, crossed, opens, hasty>>
          /\ prefetches' \in 0..MaxPrefetch /\ glitches' \in 0..MaxGlitches /\ glitches <= glitches'
      BY <2>3, <1>0 DEF paneHistory, paneBounds
    <3>2. k.does = task[t].does /\ k.no = task[t].no /\ k.msg = task[t].msg /\ hasty' \subseteq Mails
      BY <2>2, <3>1, <1>0
    <3> QED
      BY <2>1, <2>4, <2>5, <3>1, <3>2, ReadOnlyStep
<1>4. CASE OpenCt(t)
  <2> DEFINE m == task[t].msg
  <2>1. PICK k : /\ k = [task[t] EXCEPT !.at = "openPart", !.ct = "ct" \in body[m].blobs,
                                        !.of = gen]
                 /\ task' = [task EXCEPT ![t] = k]
    BY <1>4, <1>0 DEF OpenCt, PaneTypes, TaskType
  <2>2. k = [at |-> "openPart", does |-> task[t].does, no |-> task[t].no, msg |-> task[t].msg,
            of |-> gen, todo |-> task[t].todo, surplus |-> task[t].surplus,
            ct |-> ("ct" \in body[m].blobs), says |-> task[t].says]
    BY <2>1, <1>0 DEF TaskType
  <2>3. /\ task[t].at = "openCt" /\ m \in Mails /\ hasty' = hasty \cup Missing(m)
        /\ UNCHANGED <<storeRows, paneVars, lastSet, overtaken, crossed, paneBounds>>
    BY <1>4, <1>0 DEF OpenCt, TaskFits, OpenSteps
  <2>4. k \in TaskType
    BY <2>2, <2>3, <1>0 DEF TaskType, OpenSteps
  <2>5. k.ct \/ m \in hasty'
    <3>1. shape[m] \in {"clear", "cms"}
      BY <2>3, <1>0 DEF OpenedFits, PaneTypes, Shape
    <3>2. "ct" \in Blobs(m)
      BY <3>1 DEF Blobs, Blob
    <3> QED
      BY <2>2, <2>3, <3>2 DEF Missing
  <2>6. TaskFits(k) /\ ReadIsPresent(k) /\ OpenedFits(k)'
    BY <2>2, <2>3, <2>5, <1>0 DEF TaskFits, ReadIsPresent, OpenedFits, OpenSteps, storeRows, PaneTypes
  <2>7. hasty' \subseteq Mails /\ hasty \subseteq hasty'
    BY <2>3, <1>0 DEF Missing, PaneTypes
  <2> QED
    <3>1. /\ UNCHANGED <<storeRows, paneVars, lastSet, overtaken, crossed, opens>>
          /\ prefetches' \in 0..MaxPrefetch /\ glitches' \in 0..MaxGlitches /\ glitches <= glitches'
      BY <2>3, <1>0 DEF paneBounds
    <3>2. k.does = task[t].does /\ k.no = task[t].no /\ k.msg = task[t].msg
      BY <2>2
    <3> QED
      BY <2>1, <2>4, <2>6, <2>7, <3>1, <3>2, ReadOnlyStep
<1>5. CASE OpenPart(t)
  <2> DEFINE m == task[t].msg
             part == "part" \in body[m].blobs
             y == OpeningYields(m, task[t].ct, part)
  <2>1. /\ task[t].at = "openPart" /\ m \in Mails /\ hasty' = hasty \cup Missing(m)
        /\ UNCHANGED <<storeRows, paneVars, lastSet, overtaken, crossed, opens, prefetches>>
        /\ glitches' \in 0..MaxGlitches /\ glitches <= glitches'
    BY <1>5, <1>0 DEF OpenPart, TaskFits, OpenSteps, Glitch, paneBounds, PaneTypes
  <2>2. y \in {"failed", "invalid", "right"} /\ (y = "right" \/ m \in hasty')
    <3>1. shape[m] \in {"clear", "cms"}
      BY <2>1, <1>0 DEF OpenedFits, PaneTypes, Shape
    <3>2. task[t].ct \/ m \in hasty
      BY <2>1, <1>0 DEF OpenedFits
    <3>3. shape[m] = "clear" => part \/ m \in hasty'
      BY <2>1 DEF Missing, Blobs, Blob
    <3> QED
      BY <2>1, <3>1, <3>2, <3>3 DEF OpeningYields
  <2>3. \/ task' = [task EXCEPT ![t].at = "record", ![t].ct = FALSE, ![t].says = y]
        \/ task' = [task EXCEPT ![t].at = "show", ![t].says = "error", ![t].ct = FALSE,
                               ![t].of = 0]
    BY <1>5 DEF OpenPart
  <2>4. PICK k : /\ \/ k = [task[t] EXCEPT !.at = "record", !.ct = FALSE, !.says = y]
                    \/ k = [task[t] EXCEPT !.at = "show", !.says = "error", !.ct = FALSE, !.of = 0]
                 /\ task' = [task EXCEPT ![t] = k]
    <3> HIDE DEF y
    <3>1. DOMAIN task = Tasks
      BY <1>0 DEF PaneTypes
    <3>2. CASE task' = [task EXCEPT ![t].at = "record", ![t].ct = FALSE, ![t].says = y]
      <4>1. task' = [task EXCEPT ![t] = [task[t] EXCEPT !.at = "record", !.ct = FALSE, !.says = y]]
        BY <3>2
      <4> QED BY <4>1
    <3>3. CASE task' = [task EXCEPT ![t].at = "show", ![t].says = "error", ![t].ct = FALSE,
                                   ![t].of = 0]
      <4>1. task' = [task EXCEPT ![t] = [task[t] EXCEPT !.at = "show", !.says = "error",
                                                      !.ct = FALSE, !.of = 0]]
        BY <3>3
      <4> QED BY <4>1
    <3> QED
      BY <2>3, <3>2, <3>3
  <2>5. \/ k = [at |-> "record", does |-> task[t].does, no |-> task[t].no, msg |-> task[t].msg,
                 of |-> task[t].of, todo |-> task[t].todo, surplus |-> task[t].surplus,
                 ct |-> FALSE, says |-> y]
        \/ k = [at |-> "show", does |-> task[t].does, no |-> task[t].no, msg |-> task[t].msg,
                 of |-> 0, todo |-> task[t].todo, surplus |-> task[t].surplus,
                 ct |-> FALSE, says |-> "error"]
    <3> HIDE DEF y
    <3>1. CASE k = [task[t] EXCEPT !.at = "record", !.ct = FALSE, !.says = y]
      BY <3>1, <1>0 DEF TaskType
    <3>2. CASE k = [task[t] EXCEPT !.at = "show", !.says = "error", !.ct = FALSE, !.of = 0]
      BY <3>2, <1>0 DEF TaskType
    <3> QED
      BY <2>4, <3>1, <3>2
  <2> HIDE DEF y, part
  <2>6. k \in TaskType /\ k.does = task[t].does /\ k.no = task[t].no /\ k.msg = m
    <3>1. "record" \in OpenSteps /\ "show" \in OpenSteps /\ y \in Says /\ "error" \in Says
          /\ 0 \in Generation
      BY <2>2 DEF OpenSteps, Says, Generation
    <3>2. task[t].does \in {"none", "prefetch", "open"} /\ task[t].no \in 0..MaxOpens
          /\ m \in Mails \cup {NoMail} /\ task[t].of \in Generation
          /\ task[t].todo \in SUBSET Mails /\ task[t].surplus \in Nat
      BY <1>0 DEF TaskType
    <3>3. CASE k = [at |-> "record", does |-> task[t].does, no |-> task[t].no, msg |-> task[t].msg,
               of |-> task[t].of, todo |-> task[t].todo, surplus |-> task[t].surplus,
               ct |-> FALSE, says |-> y]
      BY <3>1, <3>2, <3>3 DEF TaskType
    <3>4. CASE k = [at |-> "show", does |-> task[t].does, no |-> task[t].no, msg |-> task[t].msg,
               of |-> 0, todo |-> task[t].todo, surplus |-> task[t].surplus,
               ct |-> FALSE, says |-> "error"]
      BY <3>1, <3>2, <3>4 DEF TaskType
    <3> QED
      BY <3>3, <3>4, <2>5
  <2>7. TaskFits(k) /\ ReadIsPresent(k) /\ OpenedFits(k)'
    BY <2>1, <2>2, <2>5, <1>0
    DEF TaskFits, ReadIsPresent, OpenedFits, OpenSteps, storeRows, PaneTypes
  <2>8. hasty' \subseteq Mails /\ hasty \subseteq hasty' /\ prefetches' \in 0..MaxPrefetch
    BY <2>1, <1>0 DEF Missing, PaneTypes
  <2> QED
    BY <2>1, <2>4, <2>6, <2>7, <2>8, ReadOnlyStep
<1> QED
  BY <1>1, <1>2, <1>3, <1>4, <1>5

(* A body is written with its mark, and is the mail's that the batch was   *)
(* read for.                                                               *)
LEMMA SetBodyStep ==
  ASSUME PaneInv, NEW t \in Tasks, NEW m \in Mails, SetBody(t, m)
  PROVE  PaneInv'
<1> DEFINE where == IF shape[m] = "plain" THEN "next" ELSE "ct"
           named == IF where = "next" /\ task[t].does = "prefetch" THEN NoMail ELSE m
           new == [of |-> task[t].of, blobs |-> {},
                   html |-> IF shape[m] = "cms" THEN "blank" ELSE "text"]
<1>1. /\ PaneTypes /\ task[t] \in TaskType /\ TaskFits(task[t])
      /\ ReadIsPresent(task[t]) /\ OpenedFits(task[t]) /\ StoredIsMarked
      /\ GenerationsFit /\ RowsAreOfTheirMail /\ StoreTypes /\ VerdictFitsMail /\ NoPlainFlagged
  BY DEF PaneInv, PaneTypes, RowsInv
<1>2. /\ task[t].at = "next" /\ m \in task[t].todo
      /\ UNCHANGED <<shape, gen, present, flagged, verdict, paneVars, paneHistory>>
      /\ opens' = opens /\ prefetches' = prefetches /\ glitches <= glitches'
      /\ glitches' \in 0..MaxGlitches
  BY <1>1, PaneAssumption DEF SetBody, Glitch, paneBounds, PaneTypes
<1>3. PICK a \in {"next", "ct"}, mm \in {task[t].msg, named} :
        /\ task' = [task EXCEPT ![t].at = a, ![t].todo = @ \ {m}, ![t].msg = mm]
        /\ a = "ct" => mm = m /\ shape[m] # "plain"
        /\ task[t].does = "open" => mm = task[t].msg
  <2>1. task[t].does = "open" => m = task[t].msg
    BY <1>1, <1>2 DEF TaskFits
  <2>2. CASE task' = [task EXCEPT ![t].todo = @ \ {m}]
    <3>1. task' = [task EXCEPT ![t].at = "next", ![t].todo = @ \ {m}, ![t].msg = task[t].msg]
      BY <2>2, <1>1, <1>2 DEF PaneTypes, TaskType
    <3> QED
      BY <3>1
  <2>3. CASE Written(t, where, m, {m})
    <3>1. task' = [task EXCEPT ![t].at = where, ![t].todo = @ \ {m}, ![t].msg = named]
      BY <2>3 DEF Written
    <3>2. where \in {"next", "ct"} /\ (where = "ct" => named = m /\ shape[m] # "plain")
          /\ (task[t].does = "open" => named = task[t].msg)
      BY <2>1
    <3> HIDE DEF where, named
    <3> QED
      BY <3>1, <3>2
  <2> QED
    BY <2>2, <2>3 DEF SetBody
<1> HIDE DEF where
<1>4. PICK k :
        /\ task' = [task EXCEPT ![t] = k]
        /\ k = [at |-> a, does |-> task[t].does, no |-> task[t].no, msg |-> mm,
                of |-> task[t].of, todo |-> task[t].todo \ {m}, surplus |-> task[t].surplus,
                ct |-> task[t].ct, says |-> task[t].says]
  <2>1. PICK k : /\ task' = [task EXCEPT ![t] = k]
                 /\ k = [task[t] EXCEPT !.at = a, !.todo = @ \ {m}, !.msg = mm]
    BY <1>3, <1>1 DEF PaneTypes, TaskType
  <2>2. k = [at |-> a, does |-> task[t].does, no |-> task[t].no, msg |-> mm,
             of |-> task[t].of, todo |-> task[t].todo \ {m}, surplus |-> task[t].surplus,
             ct |-> task[t].ct, says |-> task[t].says]
    <3>1. task[t] \in TaskType /\ k = [task[t] EXCEPT !.at = a, !.todo = @ \ {m}, !.msg = mm]
      BY <1>1, <2>1
    <3> QED
      BY ONLY <3>1, Zenon DEF TaskType
  <2> QED
    BY <2>1, <2>2
<1>5. named \in Mails \cup {NoMail}
  OBVIOUS
<1>6. k \in TaskType
  BY <1>1, <1>3, <1>4, <1>5 DEF TaskType, FetchSteps
<1>7. TaskFits(k) /\ ReadIsPresent(k) /\ OpenedFits(k)'
  BY <1>1, <1>2, <1>3, <1>4 DEF TaskFits, ReadIsPresent, OpenedFits, OpenSteps, paneVars, paneHistory
<1>8. k.does = task[t].does /\ k.no = task[t].no /\ (k.does = "open" => k.msg = task[t].msg)
  BY <1>3, <1>4
<1>10. \/ UNCHANGED <<body, older, cached>>
       \/ /\ body' = [body EXCEPT ![m] = new] /\ cached' = cached \cup {m}
          /\ older' = Without({m}) \cup ((Rows \ {m}) \X {m})
  BY DEF SetBody
<1>11. new \in [of : Generation, html : Html, blobs : SUBSET Blob] /\ new.html # "null"
       /\ new # NoBody /\ new.of = task[t].of
  BY <1>1 DEF TaskType, Html, Blob, NoBody
<1> HIDE DEF new, named
<1>12. /\ body' \in [Mails -> [of : Generation, html : Html, blobs : SUBSET Blob]]
       /\ older' \subseteq Rows' \X Rows' /\ cached' \subseteq Mails
       /\ StoredIsMarked' /\ GenerationsFit' /\ RowsAreOfTheirMail'
  <2>1. CASE UNCHANGED <<body, older, cached>>
    BY <1>1, <1>2, <2>1 DEF StoreTypes, StoredIsMarked, GenerationsFit, RowsAreOfTheirMail,
       Rows, HasBody, paneHistory
  <2>2. CASE /\ body' = [body EXCEPT ![m] = new] /\ cached' = cached \cup {m}
             /\ older' = Without({m}) \cup ((Rows \ {m}) \X {m})
    <3>1. body' \in [Mails -> [of : Generation, html : Html, blobs : SUBSET Blob]]
          /\ body'[m] = new /\ \A n \in Mails \ {m} : body'[n] = body[n]
      BY <2>2, <1>1, <1>11 DEF StoreTypes
    <3>2. Rows' = Rows \cup {m}
      BY <3>1, <1>11 DEF Rows, HasBody
    <3>3. older' \subseteq Rows' \X Rows' /\ cached' \subseteq Mails
      BY <2>2, <3>2, <1>1 DEF StoreTypes, Without
    <3>4. StoredIsMarked'
      BY <2>2, <3>1, <1>1, <1>11 DEF StoredIsMarked, HasBody
    <3>5. task[t].of <= gen
      BY <1>1 DEF TaskFits
    <3>6. GenerationsFit'
      BY <3>1, <3>5, <1>1, <1>2, <1>11 DEF GenerationsFit
    <3>7. m \notin crossed => task[t].of = gen
      BY <1>1, <1>2 DEF ReadIsPresent
    <3>8. RowsAreOfTheirMail'
      BY <3>1, <3>7, <1>1, <1>2, <1>11 DEF RowsAreOfTheirMail, HasBody, paneHistory
    <3> QED
      BY <3>1, <3>3, <3>4, <3>6, <3>8
  <2> QED
    BY <1>10, <2>1, <2>2
<1>13. RowsInv'
  BY <1>1, <1>2, <1>12
  DEF RowsInv, StoreTypes, VerdictFitsMail, NoPlainFlagged, paneHistory
<1>14. /\ UNCHANGED <<gen, decrypted, selected, pane, listener, lastSet, overtaken, crossed>>
       /\ notices' \subseteq Mails /\ hasty' = hasty /\ hasty' \subseteq Mails
       /\ prefetches' \in 0..MaxPrefetch
  BY <1>1, <1>2 DEF paneVars, paneHistory, PaneTypes
<1> QED
  BY <1>2, <1>4, <1>6, <1>7, <1>8, <1>13, <1>14, TaskStep

(* The blobs are added to the body that is there.                          *)
LEMMA SetBlobStep ==
  ASSUME PaneInv, NEW t \in Tasks, NEW blob \in Blob, SetBlob(t, blob)
  PROVE  PaneInv'
<1> DEFINE m == task[t].msg
<1>1. /\ PaneTypes /\ task[t] \in TaskType /\ TaskFits(task[t])
      /\ ReadIsPresent(task[t]) /\ OpenedFits(task[t]) /\ RowsInv
      /\ glitches \in 0..MaxGlitches /\ glitches \in Nat /\ prefetches \in 0..MaxPrefetch
      /\ hasty \subseteq Mails /\ notices \subseteq Mails
  BY DEF PaneInv, PaneTypes
<1>2. /\ task[t].at = blob /\ task[t].at \in {"ct", "part"}
      /\ UNCHANGED <<shape, gen, present, flagged, cached, older, verdict, paneVars, paneHistory>>
      /\ opens' = opens /\ prefetches' = prefetches /\ glitches <= glitches'
      /\ glitches' \in 0..MaxGlitches
  BY <1>1, PaneAssumption DEF SetBlob, Glitch, paneBounds, Blob
<1>3. PICK a \in {"part", "flags"} : task' = [task EXCEPT ![t].at = a]
  BY DEF SetBlob, Goes
<1>4. PICK k : k = [task[t] EXCEPT !.at = a] /\ task' = [task EXCEPT ![t] = k]
  BY <1>1, <1>3 DEF PaneTypes, TaskType
<1>5. k = [at |-> a, does |-> task[t].does, no |-> task[t].no, msg |-> task[t].msg,
             of |-> task[t].of, todo |-> task[t].todo, surplus |-> task[t].surplus,
             ct |-> task[t].ct, says |-> task[t].says]
  BY <1>1, <1>4 DEF TaskType
<1>6. k \in TaskType
  BY <1>1, <1>3, <1>5 DEF TaskType, FetchSteps
<1>7. TaskFits(k) /\ ReadIsPresent(k) /\ OpenedFits(k)' /\ m \in Mails
  BY <1>1, <1>2, <1>3, <1>5 DEF TaskFits, ReadIsPresent, OpenedFits, OpenSteps
<1>8. RowsInv'
  <2>1. \/ body' = body
        \/ HasBody(m) /\ body' = [body EXCEPT ![m].blobs = @ \cup {blob}]
    BY DEF SetBlob
  <2>2. /\ body' \in [Mails -> [of : Generation, html : Html, blobs : SUBSET Blob]]
        /\ \A n \in Mails : body'[n].of = body[n].of /\ body'[n].html = body[n].html
        /\ \A n \in Mails : n # m => body'[n] = body[n]
    <3>1. CASE body' = body
      BY <3>1, <1>1 DEF RowsInv, StoreTypes
    <3>2. CASE body' = [body EXCEPT ![m].blobs = @ \cup {blob}]
      <4>1. PICK b : b = [body[m] EXCEPT !.blobs = @ \cup {blob}] /\ body' = [body EXCEPT ![m] = b]
        BY <3>2, <1>1, <1>7 DEF RowsInv, StoreTypes
      <4>2. b = [of |-> body[m].of, html |-> body[m].html, blobs |-> body[m].blobs \cup {blob}]
        BY <4>1, <1>1, <1>7 DEF RowsInv, StoreTypes
      <4> QED
        BY <4>1, <4>2, <1>1, <1>7 DEF RowsInv, StoreTypes
    <3> QED
      BY <2>1, <3>1, <3>2
  <2>3. \A n \in Mails : HasBody(n)' = HasBody(n)
    <3>1. HasBody(m) => body[m].html # "null"
      BY <1>1, <1>7 DEF RowsInv, StoredIsMarked
    <3>2. HasBody(m) => body'[m] # NoBody
      BY <3>1, <2>2, <1>7 DEF NoBody
    <3>3. ~HasBody(m) => body'[m] = NoBody
      BY <2>1 DEF HasBody
    <3> QED
      BY <2>2, <3>2, <3>3, <1>7 DEF HasBody
  <2>4. Rows' = Rows
    BY <2>3 DEF Rows
  <2> QED
    BY <1>1, <1>2, <2>2, <2>3, <2>4
    DEF RowsInv, StoreTypes, GenerationsFit, StoredIsMarked, RowsAreOfTheirMail,
        VerdictFitsMail, NoPlainFlagged, paneHistory
<1>9. /\ UNCHANGED <<decrypted, selected, pane, listener, lastSet, overtaken, crossed>>
      /\ notices' \subseteq Mails /\ hasty' = hasty /\ prefetches' \in 0..MaxPrefetch
  BY <1>1, <1>2 DEF paneVars, paneHistory
<1>10. k.does = task[t].does /\ k.no = task[t].no /\ k.msg = task[t].msg
  BY <1>5
<1> QED
  BY <1>1, <1>2, <1>4, <1>6, <1>7, <1>8, <1>9, <1>10, TaskStep

(* Only mail that is not plain gets a flag.                                *)
LEMMA SetFlagsStep ==
  ASSUME PaneInv, NEW t \in Tasks, SetFlags(t)
  PROVE  PaneInv'
<1> DEFINE m == task[t].msg
<1>1. /\ PaneTypes /\ task[t] \in TaskType /\ TaskFits(task[t])
      /\ ReadIsPresent(task[t]) /\ OpenedFits(task[t]) /\ RowsInv
      /\ glitches \in 0..MaxGlitches /\ glitches \in Nat /\ prefetches \in 0..MaxPrefetch
      /\ hasty \subseteq Mails /\ notices \subseteq Mails
  BY DEF PaneInv, PaneTypes
<1>2. /\ task[t].at = "flags" /\ flagged' = flagged \cup ({m} \cap present)
      /\ UNCHANGED <<shape, gen, present, cached, body, older, verdict,
                     paneVars, paneHistory, paneBounds>>
      /\ m \in Mails /\ shape[m] # "plain"
  BY <1>1 DEF SetFlags, TaskFits, OpenedFits
<1>3. PICK mm \in {m, NoMail} :
        /\ task' = [task EXCEPT ![t].at = "next", ![t].todo = @ \ {}, ![t].msg = mm]
        /\ task[t].does = "open" => mm = m
  BY DEF SetFlags, Written
<1>4. PICK k : /\ k = [task[t] EXCEPT !.at = "next", !.todo = @ \ {}, !.msg = mm]
               /\ task' = [task EXCEPT ![t] = k]
  BY <1>1, <1>3 DEF PaneTypes, TaskType
<1>5. k = [at |-> "next", does |-> task[t].does, no |-> task[t].no, msg |-> mm,
             of |-> task[t].of, todo |-> task[t].todo \ {}, surplus |-> task[t].surplus,
             ct |-> task[t].ct, says |-> task[t].says]
  <2>1. task[t] \in TaskType /\ k = [task[t] EXCEPT !.at = "next", !.todo = @ \ {}, !.msg = mm]
    BY <1>1, <1>4
  <2> QED
    BY ONLY <2>1, Zenon DEF TaskType
<1>6. k \in TaskType
  BY <1>1, <1>2, <1>3, <1>5 DEF TaskType, FetchSteps
<1>7. TaskFits(k) /\ ReadIsPresent(k) /\ OpenedFits(k)'
  BY <1>1, <1>2, <1>3, <1>5 DEF TaskFits, ReadIsPresent, OpenedFits, OpenSteps
<1>8. RowsInv'
  <2>1. Rows' = Rows /\ \A n \in Mails : HasBody(n)' = HasBody(n)
    BY <1>2 DEF Rows, HasBody
  <2> QED
    BY <1>1, <1>2, <2>1
    DEF RowsInv, StoreTypes, GenerationsFit, StoredIsMarked, RowsAreOfTheirMail,
        VerdictFitsMail, NoPlainFlagged, paneHistory
<1>9. /\ UNCHANGED <<decrypted, selected, pane, listener, lastSet, overtaken, crossed, opens>>
      /\ notices' \subseteq Mails /\ hasty' = hasty
      /\ prefetches' \in 0..MaxPrefetch /\ glitches' \in 0..MaxGlitches /\ glitches <= glitches'
  BY <1>1, <1>2 DEF paneVars, paneHistory, paneBounds
<1>10. k.does = task[t].does /\ k.no = task[t].no /\ (k.does = "open" => k.msg = task[t].msg)
  BY <1>3, <1>5
<1> QED
  BY <1>1, <1>2, <1>4, <1>6, <1>7, <1>8, <1>9, <1>10, TaskStep

(* A fetch ends, or goes on to read the body again for the pane.           *)
Follows(t, k) ==
    /\ k \in TaskType /\ task' = [task EXCEPT ![t] = k]
    /\ TaskFits(k) /\ ReadIsPresent(k)
    /\ k.at \in {"free", "again", "evict"}
    /\ task[t].does = "open" => k.does = "open" /\ k.no = task[t].no /\ k.msg = task[t].msg
    /\ k.does = "open" => task[t].does = "open"

LEMMA FetchFollowed ==
  ASSUME PaneInv, NEW t \in Tasks, AfterFetch(t)
  PROVE  \E k : Follows(t, k)
<1>1. /\ PaneTypes /\ task[t] \in TaskType /\ TaskFits(task[t])
      /\ ReadIsPresent(task[t]) /\ OpenedFits(task[t]) /\ RowsInv
      /\ glitches \in 0..MaxGlitches /\ glitches \in Nat /\ prefetches \in 0..MaxPrefetch
      /\ hasty \subseteq Mails /\ notices \subseteq Mails
  BY DEF PaneInv, PaneTypes
<1>2. CASE task[t].does = "open"
  <2>1. PICK k : /\ k = [task[t] EXCEPT !.at = "again", !.of = 0, !.surplus = 0]
                 /\ task' = [task EXCEPT ![t] = k]
    BY <1>1, <1>2 DEF AfterFetch, PaneTypes, TaskType
  <2>2. k = [at |-> "again", does |-> task[t].does, no |-> task[t].no, msg |-> task[t].msg,
             of |-> 0, todo |-> task[t].todo, surplus |-> 0,
             ct |-> task[t].ct, says |-> task[t].says]
    <3>1. task[t] \in TaskType /\ k = [task[t] EXCEPT !.at = "again", !.of = 0, !.surplus = 0]
      BY <1>1, <2>1
    <3> QED
      BY ONLY <3>1, Zenon DEF TaskType
  <2>3. 0 <= gen /\ 0 \in Generation /\ "again" \in OpenSteps
    BY <1>1, PaneAssumption DEF PaneTypes, Generation, OpenSteps
  <2>4. k \in TaskType
    BY <1>1, <2>2, <2>3 DEF TaskType
  <2>5. TaskFits(k) /\ ReadIsPresent(k)
    BY <1>1, <1>2, <2>2, <2>3 DEF TaskFits, ReadIsPresent
  <2> QED
    BY <1>2, <2>1, <2>2, <2>4, <2>5 DEF Follows
<1>3. CASE task[t].does # "open"
  <2>1. task' = [task EXCEPT ![t] = Free]
    BY <1>3 DEF AfterFetch, Ends
  <2>2. Free \in TaskType /\ 0 <= gen
    BY <1>1, PaneAssumption DEF Free, TaskType, Says, Generation, PaneTypes
  <2>3. TaskFits(Free) /\ ReadIsPresent(Free)
    BY <2>2 DEF TaskFits, ReadIsPresent, Free, OpenSteps
  <2>4. Free.at = "free" /\ Free.does = "none"
    BY DEF Free
  <2>5. Follows(t, Free)
    BY <1>3, <2>1, <2>2, <2>3, <2>4 DEF Follows
  <2> QED
    BY <2>5
<1> QED
  BY <1>2, <1>3

LEMMA CountRowsStep ==
  ASSUME PaneInv, NEW t \in Tasks, CountRows(t)
  PROVE  PaneInv'
<1>1. /\ PaneTypes /\ task[t] \in TaskType /\ TaskFits(task[t])
      /\ ReadIsPresent(task[t]) /\ OpenedFits(task[t]) /\ RowsInv
      /\ glitches \in 0..MaxGlitches /\ glitches \in Nat /\ prefetches \in 0..MaxPrefetch
      /\ hasty \subseteq Mails /\ notices \subseteq Mails
  BY DEF PaneInv, PaneTypes
<1>2. UNCHANGED <<storeRows, paneVars, paneHistory, paneBounds>> /\ task[t].at = "next"
  BY DEF CountRows
<1>3. PICK k : Follows(t, k)
  <2>1. CASE AfterFetch(t)
    BY <2>1, FetchFollowed
  <2>2. CASE ~AfterFetch(t)
    <3>1. Surplus(Cardinality(Rows)) \in Nat
      <4>1. IsFiniteSet(Rows)
        BY FS_Subset, PaneAssumption DEF Rows
      <4>2. Cardinality(Rows) \in Nat
        BY <4>1, FS_CardinalityType
      <4> QED
        BY <4>2, PaneAssumption DEF Surplus
    <3> DEFINE n == Surplus(Cardinality(Rows))
    <3>2. task' = [task EXCEPT ![t].at = "evict", ![t].surplus = n]
      BY <2>2 DEF CountRows
    <3> HIDE DEF n
    <3>3. PICK k : k = [task[t] EXCEPT !.at = "evict", !.surplus = n] /\ task' = [task EXCEPT ![t] = k]
      BY <1>1, <3>2 DEF PaneTypes, TaskType
    <3>4. k = [at |-> "evict", does |-> task[t].does, no |-> task[t].no, msg |-> task[t].msg,
             of |-> task[t].of, todo |-> task[t].todo, surplus |-> n,
             ct |-> task[t].ct, says |-> task[t].says]
      <4>1. task[t] \in TaskType /\ k = [task[t] EXCEPT !.at = "evict", !.surplus = n]
        BY <1>1, <3>3
      <4> QED
        BY ONLY <4>1, Zenon DEF TaskType
    <3>5. k \in TaskType
      BY <1>1, <3>1, <3>4 DEF TaskType, FetchSteps, n
    <3>6. TaskFits(k) /\ ReadIsPresent(k)
      BY <1>1, <3>4 DEF TaskFits, ReadIsPresent, OpenSteps
    <3>7. k.at = "evict" /\ k.does = task[t].does /\ k.no = task[t].no /\ k.msg = task[t].msg
      BY <3>4
    <3>8. Follows(t, k)
      BY <3>3, <3>5, <3>6, <3>7 DEF Follows
    <3> QED
      BY <3>8
  <2> QED
    BY <2>1, <2>2
<1>4. RowsInv'
  BY <1>1, <1>2, RowsKept DEF paneHistory
<1>5. /\ UNCHANGED <<shape, gen, decrypted, selected, pane, listener, lastSet, overtaken, crossed, opens>>
      /\ notices' \subseteq Mails /\ hasty' = hasty
      /\ prefetches' \in 0..MaxPrefetch /\ glitches' \in 0..MaxGlitches /\ glitches <= glitches'
  BY <1>1, <1>2 DEF storeRows, paneVars, paneHistory, paneBounds
<1>6. OpenedFits(k)'
  BY <1>3 DEF Follows, OpenedFits
<1> QED
  BY <1>1, <1>3, <1>4, <1>5, <1>6, TaskStep DEF Follows

(* What is evicted loses its mark with its body.                           *)
LEMMA EvictStep ==
  ASSUME PaneInv, NEW t \in Tasks, Evict(t)
  PROVE  PaneInv'
<1> DEFINE gone == Oldest(task[t].surplus)
<1>1. /\ PaneTypes /\ task[t] \in TaskType /\ TaskFits(task[t])
      /\ ReadIsPresent(task[t]) /\ OpenedFits(task[t]) /\ RowsInv
      /\ glitches \in 0..MaxGlitches /\ glitches \in Nat /\ prefetches \in 0..MaxPrefetch
      /\ hasty \subseteq Mails /\ notices \subseteq Mails
  BY DEF PaneInv, PaneTypes
<1>2. /\ UNCHANGED <<shape, gen, present, flagged, verdict, paneVars, paneHistory>>
      /\ opens' = opens /\ prefetches' = prefetches /\ glitches <= glitches'
      /\ glitches' \in 0..MaxGlitches
  BY <1>1, PaneAssumption DEF Evict, Glitch, paneBounds
<1>3. PICK k : Follows(t, k)
  BY FetchFollowed DEF Evict
<1>4. \/ UNCHANGED <<body, older, cached>>
      \/ /\ body' = [m \in Mails |-> IF m \in gone THEN NoBody ELSE body[m]]
         /\ older' = Without(gone) /\ cached' = cached \ gone
  BY DEF Evict, FlagsToo
<1> HIDE DEF gone
<1>5. RowsInv'
  <2>1. CASE UNCHANGED <<body, older, cached>>
    BY <1>1, <1>2, <2>1, RowsKept DEF storeRows, paneHistory
  <2>2. CASE /\ body' = [m \in Mails |-> IF m \in gone THEN NoBody ELSE body[m]]
             /\ older' = Without(gone) /\ cached' = cached \ gone
    <3>1. NoBody \in [of : Generation, html : Html, blobs : SUBSET Blob] /\ NoBody.of <= gen
      BY <1>1, PaneAssumption DEF NoBody, Generation, Html, PaneTypes
    <3>2. Rows' = Rows \ gone
      BY <2>2 DEF Rows, HasBody
    <3>3. StoreTypes'
      BY <1>1, <1>2, <2>2, <3>1, <3>2 DEF RowsInv, StoreTypes, Without
    <3> QED
      BY <1>1, <1>2, <2>2, <3>1, <3>3
      DEF RowsInv, GenerationsFit, StoredIsMarked, RowsAreOfTheirMail,
          VerdictFitsMail, NoPlainFlagged, HasBody, paneHistory
  <2> QED
    BY <1>4, <2>1, <2>2
<1>6. /\ UNCHANGED <<decrypted, selected, pane, listener, lastSet, overtaken, crossed>>
      /\ notices' \subseteq Mails /\ hasty' = hasty /\ prefetches' \in 0..MaxPrefetch
  BY <1>1, <1>2 DEF paneVars, paneHistory
<1>7. OpenedFits(k)'
  BY <1>3 DEF Follows, OpenedFits
<1> QED
  BY <1>1, <1>2, <1>3, <1>5, <1>6, <1>7, TaskStep DEF Follows

(* An opening ends: it shows its mail, or nothing. If it is the latest,    *)
(* that is the mail selected; if not, a later one is on its way or has set *)
(* the pane before.                                                        *)
LEMMA PaneSetStep ==
  ASSUME PaneInv, NEW t \in Tasks, task[t].at \in OpenSteps,
         RowGone(t) \/ ShowBody(t) \/ Recall(t) \/ ShowOpened(t)
  PROVE  PaneInv'
<1> DEFINE m == task[t].msg
<1>1. /\ PaneTypes /\ task[t] \in TaskType /\ TaskFits(task[t])
      /\ ReadIsPresent(task[t]) /\ OpenedFits(task[t]) /\ RowsInv
      /\ glitches \in 0..MaxGlitches /\ glitches \in Nat /\ prefetches \in 0..MaxPrefetch
      /\ hasty \subseteq Mails /\ notices \subseteq Mails
  BY DEF PaneInv, PaneTypes
<1>2. m \in Mails /\ task[t].does = "open" /\ task[t].no \in 1..opens /\ task[t].no \in Int
  BY <1>1 DEF TaskFits, PaneInv, Following, PaneTypes
<1>3. PICK shown :
        /\ Sets(t, shown) /\ shown \in PaneType /\ shown.msg \in {m, NoMail}
        /\ decrypted' \in [Mails -> {"none", "blank", "text"}]
        /\ \A n \in Mails : decrypted[n] # "none" => decrypted'[n] # "none"
  <2>1. CASE RowGone(t)
    <3>1. Sets(t, EmptyPane) /\ decrypted' = decrypted
      BY <2>1 DEF RowGone
    <3>2. EmptyPane \in PaneType /\ EmptyPane.msg = NoMail
      BY DEF EmptyPane, PaneType, Html, Says
    <3> QED
      BY <1>1, <3>1, <3>2 DEF PaneTypes
  <2>2. CASE ShowBody(t)
    <3>1. Sets(t, Shown(m, body[m].html, "none")) /\ decrypted' = decrypted
      BY <2>2 DEF ShowBody
    <3>2. Shown(m, body[m].html, "none") \in PaneType /\ Shown(m, body[m].html, "none").msg = m
      BY <1>1, <1>2 DEF Shown, PaneType, Says, RowsInv, StoreTypes
    <3> QED
      BY <1>1, <3>1, <3>2 DEF PaneTypes
  <2>3. CASE Recall(t)
    <3>1. Sets(t, Shown(m, decrypted[m], verdict[m].says)) /\ decrypted' = decrypted
          /\ decrypted[m] # "none"
      BY <1>1, <2>3 DEF Recall, TaskFits
    <3>2. decrypted[m] \in Html /\ verdict[m].says \in Says
      BY <1>1, <1>2, <3>1 DEF PaneTypes, RowsInv, StoreTypes, Html
    <3>3. /\ Shown(m, decrypted[m], verdict[m].says) \in PaneType
          /\ Shown(m, decrypted[m], verdict[m].says).msg = m
      BY <1>2, <3>2 DEF Shown, PaneType
    <3> QED
      BY <1>1, <3>1, <3>3 DEF PaneTypes
  <2>4. CASE ShowOpened(t)
    <3> DEFINE html == IF task[t].says = "right" THEN "text" ELSE "blank"
    <3>1. /\ Sets(t, Shown(m, html, task[t].says))
          /\ decrypted' = decrypted \/ decrypted' = [decrypted EXCEPT ![m] = html]
      BY <2>4 DEF ShowOpened
    <3>2. html \in {"blank", "text"} /\ html \in Html
      BY DEF Html
    <3> HIDE DEF html
    <3>3. /\ Shown(m, html, task[t].says) \in PaneType
          /\ Shown(m, html, task[t].says).msg = m
      BY <1>1, <1>2, <3>2 DEF Shown, PaneType, TaskType
    <3>4. /\ decrypted' \in [Mails -> {"none", "blank", "text"}]
          /\ \A n \in Mails : decrypted[n] # "none" => decrypted'[n] # "none"
      BY <1>1, <1>2, <3>1, <3>2 DEF PaneTypes
    <3> QED
      BY <3>1, <3>3, <3>4
  <2> QED
    BY <2>1, <2>2, <2>3, <2>4
<1>4. /\ task' = [task EXCEPT ![t] = Free] /\ pane' = shown /\ lastSet' = task[t].no
      /\ overtaken' = (overtaken \/ lastSet > task[t].no)
      /\ UNCHANGED <<storeRows, selected, listener, notices, crossed, hasty, paneBounds>>
  BY <1>3 DEF Sets, Ends
<1>5. Free \in TaskType /\ 0 <= gen /\ Free.at = "free" /\ Free.does = "none" /\ Free.of = 0
      /\ 0 <= gen'
  BY <1>1, <1>4, PaneAssumption DEF Free, TaskType, Says, Generation, PaneTypes, storeRows
<1>6. TaskFits(Free)' /\ ReadIsPresent(Free) /\ OpenedFits(Free)'
  BY <1>5 DEF TaskFits, ReadIsPresent, OpenedFits, OpenSteps
<1>7. /\ task' \in [Tasks -> TaskType]
      /\ \A s \in Tasks : (TaskFits(task[s]) /\ ReadIsPresent(task[s]) /\ OpenedFits(task[s]))'
  BY <1>3, <1>4, <1>5, <1>6, TasksKept DEF storeRows
<1>8. RowsInv'
  BY <1>1, <1>4, RowsKept
<1>9. Following'
  <2>1. \A s \in Tasks : s # t => task'[s] = task[s]
    BY <1>4
  <2>2. task'[t].does # "open"
    BY <1>1, <1>4, <1>5 DEF PaneTypes
  <2>3. \A s \in Tasks : task'[s].does = "open" =>
          task'[s].no \in 1..opens' /\ (task'[s].no = opens' => task'[s].msg = selected')
    BY <1>4, <2>1, <2>2 DEF PaneInv, Following, paneBounds
  <2>4. lastSet' = opens' => pane'.msg \in {selected', NoMail}
    <3>1. task[t].no = opens => m = selected
      BY <1>2 DEF PaneInv, Following
    <3> QED
      BY <3>1, <1>3, <1>4 DEF paneBounds
  <2>5. lastSet' = opens' \/ LatestOnItsWay' \/ overtaken'
    <3>1. CASE lastSet = opens /\ task[t].no # opens
      <4>1. lastSet > task[t].no
        BY <1>1, <1>2, <3>1 DEF PaneTypes
      <4> QED
        BY <4>1, <1>4
    <3>2. CASE LatestOnItsWay /\ task[t].no # opens
      <4>1. PICK s \in Tasks : task[s].does = "open" /\ task[s].no = opens
        BY <3>2 DEF LatestOnItsWay
      <4>2. task'[s] = task[s]
        BY <4>1, <3>2, <2>1
      <4> QED
        BY <4>1, <4>2, <1>4 DEF LatestOnItsWay, paneBounds
    <3>3. CASE task[t].no = opens
      BY <3>3, <1>4 DEF paneBounds
    <3>4. CASE overtaken
      BY <3>4, <1>4
    <3> QED
      BY <3>1, <3>2, <3>3, <3>4 DEF PaneInv, Following
  <2>6. listener' # NotListening => listener'.msg \in Mails /\ listener'.held.msg = listener'.msg
    BY <1>4 DEF PaneInv, Following
  <2> QED
    BY <2>3, <2>4, <2>5, <2>6 DEF Following
<1>10. PaneTypes'
  <2>1. lastSet' \in 0..opens' /\ overtaken' \in BOOLEAN
    BY <1>1, <1>2, <1>4 DEF PaneTypes, paneBounds
  <2> QED
    BY <1>1, <1>3, <1>4, <1>7, <2>1 DEF PaneTypes, storeRows, paneBounds
<1> QED
  BY <1>7, <1>8, <1>9, <1>10 DEF PaneInv

(* A verdict is recorded for the mail it was reached for.                  *)
LEMMA RecordStep ==
  ASSUME PaneInv, NEW t \in Tasks, Record(t)
  PROVE  PaneInv'
<1> DEFINE m == task[t].msg
           v == [of |-> task[t].of, says |-> task[t].says]
<1>1. /\ PaneTypes /\ task[t] \in TaskType /\ TaskFits(task[t])
      /\ ReadIsPresent(task[t]) /\ OpenedFits(task[t]) /\ RowsInv
      /\ glitches \in 0..MaxGlitches /\ glitches \in Nat /\ prefetches \in 0..MaxPrefetch
      /\ hasty \subseteq Mails /\ notices \subseteq Mails
  BY DEF PaneInv, PaneTypes
<1>2. /\ UNCHANGED <<shape, gen, present, flagged, cached, body, older,
                     decrypted, selected, pane, listener, paneHistory>>
      /\ task[t].at = "record" /\ opens' = opens /\ prefetches' = prefetches
      /\ glitches' \in 0..MaxGlitches /\ glitches <= glitches'
  BY <1>1, PaneAssumption DEF Record, Glitch, paneBounds
<1>3. m \in Mails /\ task[t].says \in {"right", "failed", "invalid"}
      /\ task[t].does = "open" /\ task[t].of <= gen
  BY <1>1, <1>2 DEF TaskFits, OpenSteps
<1>4. PICK k : /\ \/ k = [task[t] EXCEPT !.at = "show", !.of = 0]
                  \/ k = [task[t] EXCEPT !.at = "show", !.says = "error", !.of = 0]
               /\ task' = [task EXCEPT ![t] = k]
  <2>1. \/ task' = [task EXCEPT ![t].at = "show", ![t].of = 0]
        \/ task' = [task EXCEPT ![t].at = "show", ![t].says = "error", ![t].of = 0]
    BY DEF Record
  <2> QED
    BY <1>1, <2>1 DEF PaneTypes, TaskType
<1>5. PICK s \in Says : k = [at |-> "show", does |-> task[t].does, no |-> task[t].no, msg |-> task[t].msg,
             of |-> 0, todo |-> task[t].todo, surplus |-> task[t].surplus,
             ct |-> task[t].ct, says |-> s]
  <2>1. CASE k = [task[t] EXCEPT !.at = "show", !.of = 0]
    <3>1. k = [at |-> "show", does |-> task[t].does, no |-> task[t].no, msg |-> task[t].msg,
               of |-> 0, todo |-> task[t].todo, surplus |-> task[t].surplus,
               ct |-> task[t].ct, says |-> task[t].says]
      BY <1>1, <2>1 DEF TaskType
    <3> QED
      BY <1>1, <3>1 DEF TaskType
  <2>2. CASE k = [task[t] EXCEPT !.at = "show", !.says = "error", !.of = 0]
    <3>1. k = [at |-> "show", does |-> task[t].does, no |-> task[t].no, msg |-> task[t].msg,
               of |-> 0, todo |-> task[t].todo, surplus |-> task[t].surplus,
               ct |-> task[t].ct, says |-> "error"]
      <4>1. task[t] \in TaskType /\ k = [task[t] EXCEPT !.at = "show", !.says = "error", !.of = 0]
        BY <1>1, <2>2
      <4> QED
        BY ONLY <4>1, Zenon DEF TaskType
    <3> QED
      BY <3>1 DEF Says
  <2> QED
    BY <1>4, <2>1, <2>2
<1>6. 0 \in Generation /\ 0 <= gen
  BY <1>1, PaneAssumption DEF Generation, PaneTypes
<1>7. k \in TaskType
  BY <1>1, <1>5, <1>6 DEF TaskType, OpenSteps
<1>8. TaskFits(k) /\ ReadIsPresent(k) /\ OpenedFits(k)'
  BY <1>1, <1>3, <1>5, <1>6 DEF TaskFits, ReadIsPresent, OpenedFits
<1>9. RowsInv' /\ notices' \subseteq Mails
  <2>1. \/ UNCHANGED <<verdict, notices>>
        \/ verdict' = [verdict EXCEPT ![m] = v] /\ notices' = notices \cup {m}
    BY DEF Record
  <2>2. CASE UNCHANGED <<verdict, notices>>
    BY <1>1, <1>2, <2>2, RowsKept DEF storeRows, paneHistory
  <2>3. CASE verdict' = [verdict EXCEPT ![m] = v] /\ notices' = notices \cup {m}
    <3>1. v \in [of : Generation, says : Says \ {"error"}]
      BY <1>1, <1>3 DEF TaskType, Says
    <3>2. v.of = task[t].of /\ v.says = task[t].says
      OBVIOUS
    <3> HIDE DEF v
    <3>3. /\ verdict' \in [Mails -> [of : Generation, says : Says \ {"error"}]]
          /\ verdict'[m] = v /\ \A n \in Mails : n # m => verdict'[n] = verdict[n]
      BY <1>1, <1>3, <2>3, <3>1 DEF RowsInv, StoreTypes
    <3>4. m \notin crossed => task[t].of = gen
      BY <1>1, <1>2 DEF ReadIsPresent
    <3>5. m \notin hasty => task[t].says = "right"
      BY <1>1, <1>2 DEF OpenedFits
    <3>6. Rows' = Rows /\ \A n \in Mails : HasBody(n)' = HasBody(n)
      BY <1>2 DEF Rows, HasBody
    <3>7. StoreTypes' /\ StoredIsMarked' /\ NoPlainFlagged'
      BY <1>1, <1>2, <3>3, <3>6 DEF RowsInv, StoreTypes, StoredIsMarked, NoPlainFlagged
    <3>8. GenerationsFit' /\ RowsAreOfTheirMail'
      BY <1>1, <1>2, <1>3, <3>2, <3>3, <3>4, <3>6
      DEF RowsInv, GenerationsFit, RowsAreOfTheirMail, paneHistory
    <3>9. VerdictFitsMail'
      BY <1>1, <1>2, <1>3, <3>2, <3>3, <3>5 DEF RowsInv, VerdictFitsMail, paneHistory
    <3> QED
      BY <1>1, <1>3, <2>3, <3>7, <3>8, <3>9 DEF RowsInv
  <2> QED
    BY <2>1, <2>2, <2>3
<1>10. /\ UNCHANGED <<lastSet, overtaken, crossed>> /\ hasty' = hasty
       /\ prefetches' \in 0..MaxPrefetch
  BY <1>1, <1>2 DEF paneHistory
<1>11. k.does = task[t].does /\ k.no = task[t].no /\ k.msg = task[t].msg
  BY <1>5
<1> QED
  BY <1>1, <1>2, <1>4, <1>7, <1>8, <1>9, <1>10, <1>11, TaskStep

(* A task that was free begins.                                            *)
LEMMA BeginStep ==
  ASSUME PaneInv, NEW t \in Tasks, Prefetch(t) \/ \E m \in Mails : Open(t, m)
  PROVE  PaneInv'
<1>1. /\ PaneTypes /\ task[t] \in TaskType /\ TaskFits(task[t])
      /\ ReadIsPresent(task[t]) /\ OpenedFits(task[t]) /\ RowsInv
      /\ glitches \in 0..MaxGlitches /\ glitches \in Nat /\ prefetches \in 0..MaxPrefetch
      /\ hasty \subseteq Mails /\ notices \subseteq Mails
  BY DEF PaneInv, PaneTypes
<1>2. task[t].does # "open" /\ task[t] = Free
  <2>1. task[t] = Free
    BY DEF Prefetch, Open, Spare, Idle
  <2>2. Free.does = "none"
    BY DEF Free
  <2> QED
    BY <2>1, <2>2
<1>3. 0 \in Generation /\ 0 <= gen /\ 0 \in Nat
  BY <1>1, PaneAssumption DEF Generation, PaneTypes
<1>4. CASE Prefetch(t)
  <2>1. /\ UNCHANGED <<storeRows, paneVars, paneHistory, opens, glitches>>
        /\ prefetches' = prefetches + 1 /\ prefetches < MaxPrefetch
    BY <1>4 DEF Prefetch
  <2>2. PICK k : /\ task' = [task EXCEPT ![t] = k]
                 /\ k = [Free EXCEPT !.at = "fetch", !.does = "prefetch", !.todo = present \ cached]
    BY <1>4 DEF Prefetch
  <2>3. k = [at |-> "fetch", does |-> "prefetch", no |-> 0, msg |-> NoMail, of |-> 0,
             todo |-> present \ cached, surplus |-> 0, ct |-> FALSE, says |-> "none"]
    BY <2>2 DEF Free
  <2>4. k \in TaskType
    BY <1>1, <1>3, <2>3, PaneAssumption DEF TaskType, FetchSteps, Says, RowsInv, StoreTypes
  <2>5. TaskFits(k) /\ ReadIsPresent(k) /\ OpenedFits(k)' /\ k.does # "open"
    BY <1>3, <2>3 DEF TaskFits, ReadIsPresent, OpenedFits, OpenSteps
  <2>6. RowsInv'
    BY <1>1, <2>1, RowsKept DEF paneHistory
  <2>7. /\ UNCHANGED <<shape, gen, decrypted, selected, pane, listener, lastSet, overtaken,
                       crossed, opens>>
        /\ notices' \subseteq Mails /\ hasty' = hasty
        /\ glitches' \in 0..MaxGlitches /\ glitches <= glitches'
    BY <1>1, <2>1 DEF storeRows, paneVars, paneHistory
  <2>8. prefetches' \in 0..MaxPrefetch
    BY <1>1, <2>1, PaneAssumption
  <2> QED
    BY <1>1, <1>2, <2>2, <2>4, <2>5, <2>6, <2>7, <2>8, TaskStep
<1>5. ASSUME NEW m \in Mails, Open(t, m)
      PROVE  PaneInv'
  <2>1. /\ UNCHANGED <<storeRows, decrypted, pane, listener, notices, paneHistory,
                       prefetches, glitches>>
        /\ opens' = opens + 1 /\ opens < MaxOpens /\ selected' = m
    BY <1>5 DEF Open
  <2>2. opens \in Nat /\ opens' \in 0..MaxOpens /\ opens' \in 1..opens'
        /\ \A n \in 1..opens : n \in 1..opens' /\ n # opens'
    BY <1>1, <2>1, PaneAssumption DEF PaneTypes
  <2>3. PICK k : /\ task' = [task EXCEPT ![t] = k]
                 /\ k = [Free EXCEPT !.at = "row", !.does = "open", !.no = opens + 1, !.msg = m]
    BY <1>5 DEF Open
  <2>4. k = [at |-> "row", does |-> "open", no |-> opens', msg |-> m, of |-> 0,
             todo |-> {}, surplus |-> 0, ct |-> FALSE, says |-> "none"]
    BY <2>1, <2>3 DEF Free
  <2>5. k \in TaskType
    BY <1>3, <2>2, <2>4 DEF TaskType, OpenSteps, Says
  <2>6. TaskFits(k)' /\ ReadIsPresent(k) /\ OpenedFits(k)'
    BY <1>3, <2>1, <2>4 DEF TaskFits, ReadIsPresent, OpenedFits, OpenSteps, storeRows
  <2>7. RowsInv'
    BY <1>1, <2>1, RowsKept DEF paneHistory
  <2>8. /\ task' \in [Tasks -> TaskType]
        /\ \A s \in Tasks : (TaskFits(task[s]) /\ ReadIsPresent(task[s]) /\ OpenedFits(task[s]))'
    BY <2>1, <2>3, <2>5, <2>6, TasksKept DEF storeRows, paneHistory
  <2>9. Following'
    <3>1. task'[t] = k /\ \A s \in Tasks : s # t => task'[s] = task[s]
      BY <1>1, <2>3 DEF PaneTypes
    <3>2. lastSet \in 0..opens /\ lastSet # opens'
      BY <1>1, <2>1, <2>2 DEF PaneTypes
    <3>3. LatestOnItsWay'
      BY <3>1, <2>4 DEF LatestOnItsWay
    <3>4. \A s \in Tasks : task'[s].does = "open" =>
            task'[s].no \in 1..opens' /\ (task'[s].no = opens' => task'[s].msg = selected')
      BY <3>1, <2>1, <2>2, <2>4 DEF PaneInv, Following
    <3> QED
      BY <2>1, <3>2, <3>3, <3>4 DEF PaneInv, Following, paneHistory
  <2>10. PaneTypes'
    <3>1. lastSet' \in 0..opens'
      BY <1>1, <2>1, <2>2 DEF PaneTypes, paneHistory
    <3> QED
      BY <1>1, <2>1, <2>2, <2>8, <3>1 DEF PaneTypes, storeRows, paneHistory
  <2> QED
    BY <2>7, <2>8, <2>9, <2>10 DEF PaneInv
<1> QED
  BY <1>4, <1>5

(* The pane alone: a new list, an event and what comes of it.              *)
LEMMA PaneOnlyStep ==
  ASSUME PaneInv, Refresh \/ Refine \/ \E m \in Mails : Notice(m)
  PROVE  PaneInv'
<1>1. PaneTypes /\ RowsInv /\ Following
  BY DEF PaneInv
<1>2. /\ UNCHANGED <<storeRows, decrypted, task, overtaken, crossed, hasty, prefetches, glitches>>
      /\ notices' \subseteq notices
  BY DEF Refresh, Refine, Notice, paneHistory, paneBounds
<1>3. RowsInv'
  BY <1>1, <1>2, RowsKept
<1>4. \A s \in Tasks : (TaskFits(task[s]) /\ ReadIsPresent(task[s]) /\ OpenedFits(task[s]))'
  BY <1>2 DEF PaneInv, TaskFits, ReadIsPresent, OpenedFits, storeRows
<1>5. CASE Refresh
  <2>1. /\ opens' = opens + 1 /\ opens < MaxOpens /\ lastSet' = opens' /\ listener' = listener
        /\ selected' = NoMail /\ pane' = EmptyPane
    BY <1>5 DEF Refresh
  <2>2. opens \in Nat /\ opens' \in 0..MaxOpens /\ opens' \in 0..opens'
        /\ \A n \in 1..opens : n \in 1..opens' /\ n # opens'
    BY <1>1, <2>1, PaneAssumption DEF PaneTypes
  <2>3. EmptyPane \in PaneType /\ EmptyPane.msg = NoMail
    BY DEF EmptyPane, PaneType, Html, Says
  <2>4. Following'
    BY <1>1, <1>2, <2>1, <2>2, <2>3 DEF Following
  <2>5. PaneTypes'
    BY <1>1, <1>2, <2>1, <2>2, <2>3 DEF PaneTypes, storeRows
  <2> QED
    BY <1>3, <1>4, <2>4, <2>5 DEF PaneInv
<1>6. CASE Refine
  <2>1. /\ UNCHANGED <<selected, lastSet, opens>> /\ listener # NotListening
        /\ listener' = NotListening
        /\ \/ pane' = pane
           \/ /\ pane.msg = listener.msg
              /\ verdict[listener.msg] # NoVerdict
              /\ pane' = [listener.held EXCEPT !.says = verdict[listener.msg].says]
    BY <1>6 DEF Refine, StillShown, paneHistory, paneBounds
  <2>2. NotListening \in [msg : Mails \cup {NoMail}, held : PaneType]
    BY DEF NotListening, EmptyPane, PaneType, Html, Says
  <2>3. pane' \in PaneType /\ pane'.msg = pane.msg
    <3>1. CASE pane' = pane
      BY <3>1, <1>1 DEF PaneTypes
    <3>2. CASE /\ pane.msg = listener.msg
               /\ pane' = [listener.held EXCEPT !.says = verdict[listener.msg].says]
      <4>1. listener.held \in PaneType /\ listener.held.msg = listener.msg
            /\ listener.msg \in Mails
        BY <1>1, <2>1 DEF PaneTypes, Following
      <4>2. pane' = [msg |-> listener.msg, html |-> listener.held.html,
                     says |-> verdict[listener.msg].says]
        BY <3>2, <4>1 DEF PaneType
      <4>3. verdict[listener.msg].says \in Says
        BY <1>1, <4>1 DEF RowsInv, StoreTypes
      <4> QED
        BY <3>2, <4>1, <4>2, <4>3 DEF PaneType
    <3> QED
      BY <2>1, <3>1, <3>2
  <2>4. Following'
    BY <1>1, <1>2, <2>1, <2>3 DEF Following, LatestOnItsWay
  <2>5. PaneTypes'
    BY <1>1, <1>2, <2>1, <2>2, <2>3 DEF PaneTypes, storeRows
  <2> QED
    BY <1>3, <1>4, <2>4, <2>5 DEF PaneInv
<1>7. ASSUME NEW m \in Mails, Notice(m)
      PROVE  PaneInv'
  <2>1. /\ UNCHANGED <<selected, pane, lastSet, opens>>
        /\ listener' = listener \/ (listener' = [msg |-> m, held |-> pane] /\ pane.msg = m)
    BY <1>7 DEF Notice, paneHistory, paneBounds
  <2>2. /\ listener' \in [msg : Mails \cup {NoMail}, held : PaneType]
        /\ listener' # NotListening =>
              listener'.msg \in Mails /\ listener'.held.msg = listener'.msg
    BY <1>1, <2>1 DEF PaneTypes, Following
  <2>3. Following'
    BY <1>1, <1>2, <2>1, <2>2 DEF Following, LatestOnItsWay
  <2>4. PaneTypes'
    BY <1>1, <1>2, <2>1, <2>2 DEF PaneTypes, storeRows
  <2> QED
    BY <1>3, <1>4, <2>3, <2>4 DEF PaneInv
<1> QED
  BY <1>5, <1>6, <1>7

(* Sync: what is dropped leaves nothing behind, and after a renumbering no *)
(* row is there and what is under way is in "crossed".                     *)
LEMMA SyncStep ==
  ASSUME PaneInv, Renumber \/ Refill \/ \E m \in Mails : Expunge(m)
  PROVE  PaneInv'
<1>1. PaneTypes /\ RowsInv /\ Following
  BY DEF PaneInv
<1>2. /\ UNCHANGED <<shape, paneVars, task, lastSet, overtaken, hasty, opens, prefetches>>
      /\ glitches' \in 0..MaxGlitches /\ glitches <= glitches' /\ glitches \in Nat
      /\ glitches' = glitches \/ glitches' = glitches + 1
  <2>1. /\ UNCHANGED <<shape, paneVars, task, lastSet, overtaken, hasty, opens, prefetches>>
        /\ glitches' = glitches \/ (glitches < MaxGlitches /\ glitches' = glitches + 1)
    <3>1. CASE Renumber \/ \E m \in Mails : Expunge(m)
      BY <3>1 DEF Renumber, Expunge, DropRows, Glitch
    <3>2. CASE Refill
      BY <3>2 DEF Refill, paneHistory, paneBounds
    <3> QED
      BY <3>1, <3>2
  <2>2. glitches \in 0..MaxGlitches
    BY <1>1 DEF PaneTypes
  <2> QED
    BY <2>1, <2>2, PaneAssumption
<1>3. ASSUME NEW gone \in SUBSET Mails, DropRows(gone), gen <= gen', gen' \in Generation,
             gen' = gen \/ gone = Mails, crossed \subseteq crossed'
      PROVE  RowsInv'
  <2>1. /\ present' = present \ gone /\ cached' = cached \ gone /\ flagged' = flagged \ gone
        /\ body' = [m \in Mails |-> IF m \in gone THEN NoBody ELSE body[m]]
        /\ older' = Without(gone)
        /\ verdict' = [m \in Mails |-> IF m \in gone THEN NoVerdict ELSE verdict[m]]
    BY <1>3 DEF DropRows, Cascade
  <2>2. /\ NoBody \in [of : Generation, html : Html, blobs : SUBSET Blob]
        /\ NoVerdict \in [of : Generation, says : Says \ {"error"}]
        /\ NoBody.of = 0 /\ NoVerdict.of = 0 /\ NoVerdict.says = "none"
        /\ 0 <= gen' /\ gen \in Nat /\ gen' \in Nat
    BY <1>1, <1>3, PaneAssumption DEF NoBody, NoVerdict, Generation, Html, Says, PaneTypes
  <2>3. Rows' = Rows \ gone
    BY <2>1 DEF Rows, HasBody
  <2>4. StoreTypes'
    BY <1>1, <2>1, <2>2, <2>3 DEF RowsInv, StoreTypes, Without
  <2>5. StoredIsMarked' /\ NoPlainFlagged'
    BY <1>1, <1>2, <2>1 DEF RowsInv, StoredIsMarked, NoPlainFlagged, HasBody
  <2>6. GenerationsFit'
    <3>1. \A m \in Mails : /\ body[m].of \in Nat /\ body[m].of <= gen
                           /\ verdict[m].of \in Nat /\ verdict[m].of <= gen
      BY <1>1 DEF RowsInv, StoreTypes, GenerationsFit, Generation
    <3>2. \A n \in Nat : n <= gen => n <= gen'
      BY <1>3, <2>2
    <3> QED
      BY <2>1, <2>2, <3>1, <3>2 DEF GenerationsFit
  <2>7. RowsAreOfTheirMail'
    BY <1>1, <1>3, <2>1 DEF RowsInv, RowsAreOfTheirMail, HasBody
  <2>8. VerdictFitsMail'
    BY <1>1, <1>2, <2>1, <2>2 DEF RowsInv, VerdictFitsMail
  <2> QED
    BY <2>4, <2>5, <2>6, <2>7, <2>8 DEF RowsInv
<1>4. Following'
  BY <1>1, <1>2 DEF Following, LatestOnItsWay, paneVars
<1>5. ASSUME gen' \in Nat, gen <= gen', gen' <= glitches' + 1, crossed \subseteq crossed',
             crossed' \subseteq Mails, RowsInv',
             gen' = gen \/ (Mails \cap UNION {Reading(t) : t \in Tasks}) \subseteq crossed'
      PROVE  PaneInv'
  <2>1. PaneTypes'
    <3>1. gen' >= 1
      BY <1>1, <1>5 DEF PaneTypes
    <3> QED
      BY <1>1, <1>2, <1>5, <3>1 DEF PaneTypes, paneVars
  <2>2. ASSUME NEW s \in Tasks
        PROVE  (TaskFits(task[s]) /\ ReadIsPresent(task[s]) /\ OpenedFits(task[s]))'
    <3>1. task[s] \in TaskType /\ TaskFits(task[s]) /\ ReadIsPresent(task[s]) /\ OpenedFits(task[s])
      BY <1>1 DEF PaneInv, PaneTypes
    <3>2. TaskFits(task[s])'
      <4>1. task[s].of \in Nat /\ gen \in Nat /\ task[s].of <= gen
        BY <1>1, <3>1, PaneAssumption DEF TaskType, Generation, PaneTypes, TaskFits
      <4>2. task[s].of <= gen'
        BY <4>1, <1>5
      <4> QED
        BY <4>2, <1>2, <3>1 DEF TaskFits, paneVars
    <3>3. ReadIsPresent(task[s])'
      <4>1. CASE gen' = gen
        BY <4>1, <1>2, <1>5, <3>1 DEF ReadIsPresent
      <4>2. CASE (Mails \cap UNION {Reading(t) : t \in Tasks}) \subseteq crossed'
        <5>1. \A m \in Reading(s) : m \in Mails => m \in crossed'
          BY <4>2
        <5>2. task[s].at \in {"next", "ct", "part", "flags", "openPart", "record"} =>
                /\ task[s].todo \subseteq crossed'
                /\ task[s].msg \in Mails => task[s].msg \in crossed'
          BY <5>1, <3>1 DEF Reading, TaskType
        <5>3. task[s].at \in {"openPart", "record"} => task[s].msg \in Mails
          BY <3>1 DEF TaskFits, OpenSteps
        <5> QED
          BY <5>2, <5>3, <1>2 DEF ReadIsPresent
      <4> QED
        BY <4>1, <4>2, <1>5
    <3>4. OpenedFits(task[s])'
      BY <1>2, <3>1 DEF OpenedFits
    <3> QED
      BY <3>2, <3>3, <3>4
  <2> QED
    BY <1>4, <1>5, <2>1, <2>2 DEF PaneInv
<1>6. gen \in Nat /\ gen <= glitches + 1 /\ gen >= 1 /\ gen \in Generation /\ crossed \subseteq Mails
  BY <1>1, PaneAssumption DEF PaneTypes, Generation
<1>7. gen <= glitches' + 1
  <2>1. glitches' \in Nat
    BY <1>2, PaneAssumption
  <2> QED
    BY <1>2, <1>6, <2>1, OneMore
<1>8. ASSUME NEW m \in Mails, Expunge(m)
      PROVE  PaneInv'
  <2>1. DropRows({m}) /\ gen' = gen /\ crossed' = crossed
    BY <1>8 DEF Expunge
  <2>2. RowsInv'
    BY <1>3, <1>6, <2>1
  <2> QED
    BY <1>5, <1>6, <1>7, <2>1, <2>2
<1>9. CASE Renumber
  <2>1. /\ DropRows(Mails) /\ gen' = gen + 1 /\ glitches' = glitches + 1
        /\ crossed' = crossed \cup (Mails \cap UNION {Reading(t) : t \in Tasks})
    BY <1>9 DEF Renumber, Glitch
  <2>2. gen' \in Nat /\ gen <= gen' /\ gen' \in Generation /\ gen' <= glitches' + 1
    BY <1>2, <1>6, <2>1, PaneAssumption DEF Generation
  <2>3. crossed \subseteq crossed' /\ crossed' \subseteq Mails
        /\ (Mails \cap UNION {Reading(t) : t \in Tasks}) \subseteq crossed'
    BY <1>6, <2>1
  <2>4. RowsInv'
    BY <1>3, <2>1, <2>2, <2>3
  <2> QED
    BY <1>5, <2>2, <2>3, <2>4
<1>10. CASE Refill
  <2>1. /\ present' = Mails /\ flagged' = {m \in Mails : shape[m] # "plain"}
        /\ UNCHANGED <<gen, cached, body, older, verdict, crossed>>
    BY <1>10 DEF Refill, paneHistory
  <2>2. Rows' = Rows /\ \A m \in Mails : HasBody(m)' = HasBody(m)
    BY <2>1 DEF Rows, HasBody
  <2>3. RowsInv'
    BY <1>1, <1>2, <2>1, <2>2
    DEF RowsInv, StoreTypes, GenerationsFit, StoredIsMarked, RowsAreOfTheirMail,
        VerdictFitsMail, NoPlainFlagged
  <2> QED
    BY <1>5, <1>6, <1>7, <2>1, <2>3
<1> QED
  BY <1>8, <1>9, <1>10

---------------------------------------------------------------------------
LEMMA PaneInductive == PaneInv /\ [PaneNext]_rpVars => PaneInv'
<1> SUFFICES ASSUME PaneInv, [PaneNext]_rpVars PROVE PaneInv'
  OBVIOUS
<1>1. ASSUME NEW t \in Tasks, FetchStep(t)
      PROVE  PaneInv'
  BY <1>1, ReadingStep, SetBodyStep, SetBlobStep, SetFlagsStep, CountRowsStep, EvictStep
  DEF FetchStep
<1>2. ASSUME NEW t \in Tasks, OpenStep(t)
      PROVE  PaneInv'
  <2>1. RowGone(t) \/ ShowBody(t) \/ Recall(t) \/ ShowOpened(t) => task[t].at \in OpenSteps
    BY DEF RowGone, ShowBody, Recall, ShowOpened, OpenSteps
  <2> QED
    BY <1>2, <2>1, ReadingStep, PaneSetStep, RecordStep DEF OpenStep
<1>3. CASE UNCHANGED rpVars
  <2>1. RowsInv'
    BY <1>3, RowsKept DEF rpVars, paneHistory, PaneInv
  <2> QED
    BY <1>3, <2>1 DEF PaneInv, PaneTypes, Following, LatestOnItsWay, TaskFits, ReadIsPresent,
       OpenedFits, rpVars, storeRows, paneVars, paneHistory, paneBounds
<1> QED
  BY <1>1, <1>2, <1>3, BeginStep, PaneOnlyStep, SyncStep DEF PaneNext

LEMMA PaneInvariant == PaneSpec => []PaneInv
<1>1. PaneInit => PaneInv
  BY InitHolds
<1> QED
  BY <1>1, PaneInductive, PTL DEF PaneSpec

(* The variables' types, with the generations as bounds: no body or        *)
(* verdict is of a generation that is yet to come.                         *)
THEOREM PaneTypeCorrect == PaneSpec => []PaneTypeOK
<1>1. PaneInv => PaneTypeOK
  <2> SUFFICES ASSUME PaneInv PROVE PaneTypeOK
    OBVIOUS
  <2>1. PaneTypes /\ StoreTypes /\ GenerationsFit
    BY DEF PaneInv, RowsInv
  <2>2. gen \in 1..(MaxGlitches + 1)
    BY <2>1, PaneAssumption DEF PaneTypes
  <2>3. \A n \in Generation : n <= gen => n \in 0..gen
    BY <2>2, PaneAssumption DEF Generation
  <2>4. body \in [Mails -> [of : 0..gen, html : Html, blobs : SUBSET Blob]]
    <3>1. ASSUME NEW m \in Mails
          PROVE  body[m] \in [of : 0..gen, html : Html, blobs : SUBSET Blob]
      BY <2>1, <2>3 DEF StoreTypes, GenerationsFit
    <3> QED
      BY <2>1, <3>1 DEF StoreTypes
  <2>5. verdict \in [Mails -> [of : 0..gen, says : {"none", "right", "failed", "invalid"}]]
    <3>1. ASSUME NEW m \in Mails
          PROVE  verdict[m] \in [of : 0..gen, says : {"none", "right", "failed", "invalid"}]
      BY <2>1, <2>3 DEF StoreTypes, GenerationsFit, Says
    <3> QED
      BY <2>1, <3>1 DEF StoreTypes
  <2>6. shape \in Shapes
    BY DEF PaneInv, PaneTypes
  <2> QED
    BY <2>1, <2>2, <2>4, <2>5, <2>6 DEF StoreTypes, PaneTypes, PaneTypeOK, PaneType
<1> QED
  BY <1>1, PaneInvariant, PTL

(* Whatever fetches, evictions and sync rounds interleave, body_cached is  *)
(* set for the messages with a row in message_bodies and for no other.     *)
THEOREM BodyMarksFit == PaneSpec => []CachedMeansStored
<1>1. PaneInv => CachedMeansStored
  BY DEF PaneInv, RowsInv, StoredIsMarked, CachedMeansStored
<1> QED
  BY <1>1, PaneInvariant, PTL

(* A stored body or verdict belongs to the mail its id names, but for a    *)
(* call that ran across a UIDVALIDITY change.                              *)
THEOREM StoredRowsFit == PaneSpec => []RowsAreOfTheirMail
<1>1. PaneInv => RowsAreOfTheirMail
  BY DEF PaneInv, RowsInv
<1> QED
  BY <1>1, PaneInvariant, PTL

(* Opening a mail whose blobs are all stored never records a failure, or   *)
(* an invalid signature, for it.                                           *)
THEOREM VerdictsFit == PaneSpec => []VerdictFitsMail
<1>1. PaneInv => VerdictFitsMail
  BY DEF PaneInv, RowsInv
<1> QED
  BY <1>1, PaneInvariant, PTL

(* When every opening is done, none out of turn, the pane shows what is    *)
(* selected: the last click or refresh is the one that set it.             *)
THEOREM PaneShowsSelection == PaneSpec => []PaneFollowsSelection
<1>1. PaneInv => PaneFollowsSelection
  BY DEF PaneInv, Following, LatestOnItsWay, PaneFollowsSelection
<1> QED
  BY <1>1, PaneInvariant, PTL
=============================================================================

------------------------- MODULE DraftAutosaveProofs -------------------------
(***************************************************************************)
(* Proofs about DraftAutosave: its type invariant, and that a draft the    *)
(* user turned away from is stored once, as it was, while a draft that was *)
(* sent or discarded is not stored at all.                                 *)
(***************************************************************************)
EXTENDS DraftAutosave, FiniteSetTheorems, TLAPS

Steps == {"none", "look", "update", "create", "return", "undo"}
Fates == {"none", "open", "left", "ended", "unclear"}
Text == 0..MaxEdits
Session == [draft : SessionId \cup {0}, token : SessionId \cup {0},
            row : RowId \cup {Unsaved}, text : Text, pristine : BOOLEAN]
Save == [step : Steps, draft : SessionId \cup {0}, token : SessionId \cup {0},
         row : RowId \cup {Unsaved}, text : Text]
RowClick == [row : RowId \cup {Unsaved}, text : Text]
Turn == [waits : SaveSlot \cup {0}, row : RowId \cup {Unsaved}, text : Text,
         stale : BOOLEAN, draft : SessionId \cup {0}, wrote : Text, ok : BOOLEAN]

(* The types of the store's variables, of the database's and of the        *)
(* saver's.                                                                *)
DockTypes ==
    /\ attached \in BOOLEAN /\ armed \in BOOLEAN
    /\ dock \in Session /\ clicked \in RowClick
    /\ posting \in SessionId \cup {0} /\ posting <= sessions
RowTypes ==
    /\ deletes \subseteq RowId
    /\ localDrafts \in [RowId -> Text] /\ draftOf \in [RowId -> SessionId \cup {0}]
    /\ fate \in [SessionId -> Fates] /\ kept \in [SessionId -> Text]
SaverTypes ==
    /\ saving \in [SaveSlot -> Save]
    /\ \A f \in SaveSlot : saving[f].step \in {"look", "update", "return", "undo"} =>
                              saving[f].row \in RowId

(* Every turn under way has a session number left for it.                  *)
TurnTypes ==
    /\ turns \subseteq Turn /\ IsFiniteSet(turns)
    /\ sessions \in 1..MaxSessions /\ edits \in 1..MaxEdits
    /\ sessions + Cardinality(turns) <= MaxSessions

DraftTypes == DockTypes /\ RowTypes /\ SaverTypes /\ TurnTypes

Busy(f) == saving[f].step # "none"

(* A save in flight: what it is the save of, and that a token names one    *)
(* draft.                                                                  *)
SavesFit ==
    \A f \in SaveSlot :
       /\ ~Busy(f) => saving[f] = NoSave
       /\ Busy(f) =>
             /\ saving[f].draft \in 1..sessions /\ saving[f].token \in 1..sessions
             /\ saving[f].text # Untyped
             /\ saving[f].row # Unsaved => draftOf[saving[f].row] = saving[f].draft
             /\ attached => saving[f].token = saving[f].draft
             /\ saving[f].token = dock.token => saving[f].draft = dock.draft

(* The session: it has a draft, whose row it knows, and something in it if *)
(* it was edited.                                                          *)
DockFits ==
    /\ dock # NoSession => dock.draft \in 1..sessions /\ dock.token \in 1..sessions
    /\ dock.row # Unsaved => draftOf[dock.row] = dock.draft
    /\ ~dock.pristine => dock.text # Untyped
    /\ attached => dock.token = dock.draft

(* Rows are of drafts there have been, and only such rows are shown.       *)
RowsFit ==
    /\ \A r \in RowId : draftOf[r] \in 0..sessions
    /\ \A r \in RowId : draftOf[r] = 0 => localDrafts[r] = Erased
    /\ \A r \in deletes : draftOf[r] # 0
    /\ clicked.row # Unsaved => draftOf[clicked.row] # 0 /\ clicked.text # Erased
    /\ \A t \in turns : t.row # Unsaved => draftOf[t.row] # 0 /\ t.text # Erased

(* A turn waits for a save of its own, and only one is due.                *)
TurnsFit ==
    /\ \A t1, t2 \in turns : t1.waits = t2.waits => t1 = t2
    /\ \A t \in turns : t.waits # 0 =>
          /\ Busy(t.waits)
          /\ saving[t.waits].draft = t.draft /\ saving[t.waits].text = t.wrote

(* The draft of the dock is the open one.                                  *)
FatesFit ==
    /\ \A d \in SessionId : fate[d] = "open" => dock.draft = d
    /\ dock # NoSession => fate[dock.draft] \in {"open", "unclear"}
    /\ \A d \in SessionId : d > sessions => fate[d] = "none"
    /\ \A r \in RowId : draftOf[r] # 0 => fate[draftOf[r]] # "none"
    /\ \A f \in SaveSlot : Busy(f) => fate[saving[f].draft] # "none"

(* A draft the code answers for has one save in flight at most.            *)
OneSave ==
    \A f, g \in SaveSlot : Busy(f) /\ Busy(g) /\ saving[f].draft = saving[g].draft =>
       f = g \/ fate[saving[f].draft] = "unclear"

(* The open draft: its row, which is not to go, and the save in flight.    *)
RowStands(d) ==
    /\ dock.row # Unsaved => localDrafts[dock.row] # Erased /\ dock.row \notin deletes
    /\ \A r \in RowsOf(d) : r # dock.row =>
          /\ dock.row = Unsaved
          /\ \E f \in SaveSlot : saving[f].step = "return" /\ saving[f].row = r

AsStored(d) ==
    dock.pristine => /\ ~IsBeingSaved(d)
                     /\ dock.row # Unsaved => localDrafts[dock.row] = dock.text

SaveOfOpen(f) ==
    /\ saving[f].token = dock.token
    /\ saving[f].step \in {"create", "look", "update", "return"}
    /\ saving[f].step = "create" => dock.row = Unsaved
    /\ saving[f].step \in {"look", "update"} => saving[f].row = dock.row
    /\ saving[f].step = "return" => /\ localDrafts[saving[f].row] = saving[f].text
                                   /\ saving[f].row \notin deletes
                                   /\ dock.row \in {Unsaved, saving[f].row}

OpenFits ==
    \A d \in SessionId : fate[d] = "open" =>
       /\ RowStands(d) /\ AsStored(d)
       /\ \A f \in SaveSlot : Busy(f) /\ saving[f].draft = d => SaveOfOpen(f)

(* A turn that is due after a save: the draft in the dock is stored as it  *)
(* was written.                                                            *)
DueFits ==
    \A t \in turns : \A d \in SessionId :
       (t.waits = 0 /\ t.ok /\ t.draft = d /\ dock.draft = d /\ ~dock.pristine
          /\ fate[d] = "open") =>
          /\ dock.row # Unsaved /\ localDrafts[dock.row] = t.wrote
          /\ ~IsBeingSaved(d)

LeftFits ==
    \A d \in SessionId : fate[d] = "left" =>
       /\ ~IsBeingSaved(d)
       /\ \E r \in RowId : /\ RowsOf(d) = {r} /\ r \notin deletes
                           /\ localDrafts[r] = kept[d]

EndedFits ==
    \A d \in SessionId : fate[d] = "ended" =>
       \A r \in RowsOf(d) : r \in deletes \/ \E f \in SaveSlot :
                               /\ saving[f].step \in {"return", "undo"}
                               /\ saving[f].row = r

DraftInv ==
    /\ DraftTypes /\ SavesFit /\ DockFits /\ RowsFit /\ TurnsFit /\ FatesFit /\ OneSave
    /\ OpenFits /\ DueFits /\ LeftFits /\ EndedFits

-----------------------------------------------------------------------------
(* The steps of the saver.                                                 *)

LEMMA NoSaveFields ==
    /\ NoSave.step = "none" /\ NoSave.draft = 0 /\ NoSave.token = 0
    /\ NoSave.row = Unsaved /\ NoSave.text = Untyped
    /\ NoSave \in Save
  BY DraftAssumption DEF NoSave, Save, Steps, Text, Unsaved, Untyped

LEMMA NoSessionFields ==
    /\ NoSession.draft = 0 /\ NoSession.token = 0 /\ NoSession.row = Unsaved
    /\ NoSession.text = Untyped /\ NoSession.pristine = TRUE
    /\ NoSession \in Session
  BY DraftAssumption DEF NoSession, Session, Text, Unsaved, Untyped

(* A save that goes on stays the save it was.                              *)
LEMMA GoesOn ==
    ASSUME SaverTypes, NEW f \in SaveSlot, NEW step \in Steps \ {"none"},
           NEW r \in RowId \cup {Unsaved}, GoesOnTo(f, step, r)
    PROVE  /\ saving' \in [SaveSlot -> Save] /\ turns' = turns
           /\ \A g \in SaveSlot : g # f => saving'[g] = saving[g]
           /\ saving'[f].step = step /\ saving'[f].row = r
           /\ saving'[f].draft = saving[f].draft /\ saving'[f].token = saving[f].token
           /\ saving'[f].text = saving[f].text
<1>1. /\ saving' = [saving EXCEPT ![f].step = step, ![f].row = r] /\ turns' = turns
      /\ saving \in [SaveSlot -> Save]
  BY DEF GoesOnTo, SaverTypes
<1>2. /\ \A g \in SaveSlot : g # f => saving'[g] = saving[g]
      /\ saving'[f] = [saving[f] EXCEPT !.step = step, !.row = r]
      /\ saving' \in [SaveSlot -> {saving[g] : g \in SaveSlot} \cup {saving'[f]}]
  BY <1>1
<1>3. saving'[f] = [step |-> step, draft |-> saving[f].draft, token |-> saving[f].token,
                    row |-> r, text |-> saving[f].text]
  <2>1. PICK s \in Save : s = saving[f]
    BY <1>1
  <2>2. s = [step |-> s.step, draft |-> s.draft, token |-> s.token, row |-> s.row,
             text |-> s.text]
    BY DEF Save
  <2>3. [s EXCEPT !.step = step, !.row = r]
          = [step |-> step, draft |-> s.draft, token |-> s.token, row |-> r, text |-> s.text]
    <3>1. [s EXCEPT !.step = step]
            = [step |-> step, draft |-> s.draft, token |-> s.token, row |-> s.row,
               text |-> s.text]
      BY <2>2
    <3>2. [[step |-> step, draft |-> s.draft, token |-> s.token, row |-> s.row,
            text |-> s.text] EXCEPT !.row = r]
            = [step |-> step, draft |-> s.draft, token |-> s.token, row |-> r,
               text |-> s.text]
      OBVIOUS
    <3> QED  BY <3>1, <3>2
  <2> QED  BY <1>2, <2>1, <2>3
<1>4. saving'[f] \in Save
  BY <1>1, <1>3 DEF Save
<1> QED  BY <1>1, <1>2, <1>3, <1>4

(* A save that is over leaves its slot and makes due the turn that waited. *)
LEMMA SaveOver ==
    ASSUME SaverTypes, TurnTypes, TurnsFit, Calm, NEW f \in SaveSlot, NEW ok \in BOOLEAN,
           Over(f, ok), sessions' = sessions, edits' = edits
    PROVE  /\ saving' \in [SaveSlot -> Save] /\ saving'[f] = NoSave
           /\ \A g \in SaveSlot : g # f => saving'[g] = saving[g]
           /\ TurnTypes' /\ TurnsFit'
           /\ \A u \in turns' : u.waits = 0 =>
                 u.ok = ok /\ u.draft = saving[f].draft /\ u.wrote = saving[f].text
           /\ \A u \in turns' : \E t \in turns : u.row = t.row /\ u.text = t.text
<1> DEFINE Ended(t) == IF t.waits = f THEN [t EXCEPT !.waits = 0, !.ok = ok] ELSE t
<1>1. /\ saving' = [saving EXCEPT ![f] = NoSave] /\ saving \in [SaveSlot -> Save]
      /\ turns' = {Ended(t) : t \in turns} /\ turns \subseteq Turn /\ IsFiniteSet(turns)
      /\ \A g \in SaveSlot : g \in Nat \ {0}
  <2>1. \A g \in SaveSlot : g \in Nat \ {0}
    BY DraftAssumption DEF SaveSlot
  <2> QED  BY <2>1 DEF Over, SaverTypes, TurnTypes
<1>2. /\ saving' \in [SaveSlot -> Save] /\ saving'[f] = NoSave
      /\ \A g \in SaveSlot : g # f => saving'[g] = saving[g]
  BY <1>1, NoSaveFields
<1>3. ASSUME NEW t \in turns
      PROVE  /\ Ended(t) \in Turn
             /\ Ended(t).row = t.row /\ Ended(t).text = t.text
             /\ Ended(t).draft = t.draft /\ Ended(t).wrote = t.wrote
             /\ t.waits = f => Ended(t).waits = 0 /\ Ended(t).ok = ok
             /\ t.waits # f => Ended(t) = t
             /\ t.waits # 0
  <2>1. t \in Turn /\ t.waits # 0
    BY <1>1 DEF Calm
  <2>2. CASE t.waits = f
    <3>1. Ended(t) = [waits |-> 0, row |-> t.row, text |-> t.text, stale |-> t.stale,
                      draft |-> t.draft, wrote |-> t.wrote, ok |-> ok]
      BY <2>1, <2>2 DEF Turn
    <3>2. Ended(t) \in Turn
      BY <2>1, <3>1 DEF Turn
    <3> QED  BY <2>1, <2>2, <3>1, <3>2
  <2>3. CASE t.waits # f
    BY <2>1, <2>3
  <2> QED  BY <2>2, <2>3
<1>4. TurnTypes'
  <2>1. IsFiniteSet(turns') /\ Cardinality(turns') <= Cardinality(turns)
    <3> DEFINE end == [t \in turns |-> Ended(t)]
    <3>1. end \in [turns -> turns'] /\ \A u \in turns' : \E t \in turns : end[t] = u
      <4> HIDE DEF Ended
      <4> QED  BY <1>1
    <3>2. end \in Surjection(turns, turns')
      BY <3>1 DEF Surjection
    <3> QED
      <4> HIDE DEF end
      <4> QED  BY <1>1, <3>2, FS_Surjection
  <2>2. Cardinality(turns) \in Nat /\ Cardinality(turns') \in Nat
    BY <1>1, <2>1, FS_CardinalityType
  <2>3. turns' \subseteq Turn
    BY <1>1, <1>3
  <2>4. sessions \in Nat /\ MaxSessions \in Nat
    BY DraftAssumption DEF TurnTypes
  <2>5. sessions' + Cardinality(turns') <= MaxSessions
    BY <2>1, <2>2, <2>4 DEF TurnTypes
  <2> QED  BY <2>1, <2>3, <2>5 DEF TurnTypes
<1>5. TurnsFit'
  <2>1. ASSUME NEW u1 \in turns', NEW u2 \in turns', u1.waits = u2.waits
        PROVE  u1 = u2
    <3>1. PICK t1 \in turns, t2 \in turns : u1 = Ended(t1) /\ u2 = Ended(t2)
      BY <1>1
    <3>2. t1.waits = t2.waits
      BY <1>3, <2>1, <3>1
    <3> QED  BY <3>1, <3>2 DEF TurnsFit
  <2>2. ASSUME NEW u \in turns', u.waits # 0
        PROVE  /\ Busy(u.waits)'
               /\ saving'[u.waits].draft = u.draft /\ saving'[u.waits].text = u.wrote
    <3>1. PICK t \in turns : u = Ended(t)
      BY <1>1
    <3>2. t.waits # f /\ u = t /\ t.waits # 0 /\ t.waits \in SaveSlot
      BY <1>1, <1>3, <2>2, <3>1 DEF Turn
    <3> QED  BY <1>2, <3>2 DEF TurnsFit, Busy
  <2> QED  BY <2>1, <2>2 DEF TurnsFit
<1>6. ASSUME NEW u \in turns', u.waits = 0
      PROVE  u.ok = ok /\ u.draft = saving[f].draft /\ u.wrote = saving[f].text
  <2>1. PICK t \in turns : u = Ended(t)
    BY <1>1
  <2>2. t.waits = f /\ t.waits # 0
    BY <1>3, <1>6, <2>1
  <2>3. u.ok = ok /\ u.draft = t.draft /\ u.wrote = t.wrote
    BY <1>3, <2>1, <2>2
  <2> QED  BY <2>2, <2>3 DEF TurnsFit
<1>7. ASSUME NEW u \in turns'
      PROVE  \E t \in turns : u.row = t.row /\ u.text = t.text
  <2>1. PICK t \in turns : u = Ended(t)
    BY <1>1
  <2> QED  BY <1>3, <2>1
<1> QED  BY <1>2, <1>4, <1>5, <1>6, <1>7

(* What a save that is over leaves as it was.                              *)
LEMMA OverKept ==
    ASSUME DraftInv, Calm, NEW f \in SaveSlot, NEW ok \in BOOLEAN, Over(f, ok),
           UNCHANGED <<attached, draftOf, sessions, edits, clicked, deletes>>,
           dock'.token = dock.token, dock'.draft = dock.draft,
           \A d \in SessionId : fate[d] = "unclear" => fate'[d] = "unclear",
           \A r \in RowId : draftOf[r] = 0 => localDrafts'[r] = Erased
    PROVE  SaverTypes' /\ TurnTypes' /\ SavesFit' /\ TurnsFit' /\ OneSave' /\ RowsFit'
<1>1. /\ saving' \in [SaveSlot -> Save] /\ saving'[f] = NoSave
      /\ \A g \in SaveSlot : g # f => saving'[g] = saving[g]
      /\ TurnTypes' /\ TurnsFit'
      /\ \A u \in turns' : \E t \in turns : u.row = t.row /\ u.text = t.text
  BY SaveOver DEF DraftInv, DraftTypes
<1>2. ~Busy(f)'
  BY <1>1, NoSaveFields DEF Busy
<1>3. SaverTypes'
  BY <1>1, NoSaveFields DEF DraftInv, DraftTypes, SaverTypes
<1>4. SavesFit'
  BY <1>1, <1>2 DEF DraftInv, SavesFit, Busy
<1>5. OneSave'
  <2>1. ASSUME NEW g \in SaveSlot, NEW h \in SaveSlot, Busy(g)', Busy(h)',
               saving'[g].draft = saving'[h].draft
        PROVE  g = h \/ fate'[saving'[g].draft] = "unclear"
    <3>1. g # f /\ h # f
      BY <1>2, <2>1
    <3>2. saving'[g] = saving[g] /\ saving'[h] = saving[h]
      BY <1>1, <3>1
    <3>3. saving[g].draft \in SessionId
      BY <2>1, <3>2, DraftAssumption
      DEF DraftInv, DraftTypes, TurnTypes, SavesFit, Busy, SessionId
    <3>4. g = h \/ fate[saving[g].draft] = "unclear"
      BY <2>1, <3>2 DEF DraftInv, OneSave, Busy
    <3> QED  BY <3>2, <3>3, <3>4
  <2> QED  BY <2>1 DEF OneSave
<1>6. RowsFit'
  BY <1>1 DEF DraftInv, RowsFit
<1> QED  BY <1>1, <1>3, <1>4, <1>5, <1>6

LEMMA SaveFails ==
    ASSUME DraftInv, Calm, NEW f \in SaveSlot, Over(f, FALSE),
           saving[f].step \in {"look", "update", "create"},
           UNCHANGED <<attached, dock, armed, clicked, posting, deletes, localDrafts,
                       draftOf, fate, kept, sessions, edits>>
    PROVE  DraftInv'
<1>1. /\ saving' \in [SaveSlot -> Save] /\ saving'[f] = NoSave
      /\ \A g \in SaveSlot : g # f => saving'[g] = saving[g]
      /\ \A u \in turns' : u.waits = 0 => u.ok = FALSE
  BY SaveOver DEF DraftInv, DraftTypes
<1>2. SaverTypes' /\ TurnTypes' /\ SavesFit' /\ TurnsFit' /\ OneSave' /\ RowsFit'
  BY OverKept DEF DraftInv, RowsFit
<1>3. ~Busy(f)'
  BY <1>1, NoSaveFields DEF Busy
<1>4. \A g \in SaveSlot : Busy(g)' => g # f /\ Busy(g) /\ saving'[g] = saving[g]
  BY <1>1, <1>3 DEF Busy
<1>5. \A g \in SaveSlot : saving[g].step \in {"return", "undo"} => saving'[g] = saving[g]
  BY <1>1
<1>6. \A d \in SessionId : IsBeingSaved(d)' => IsBeingSaved(d)
  BY <1>4 DEF IsBeingSaved, Busy
<1>7. \A d \in SessionId : RowsOf(d)' = RowsOf(d)
  BY DEF RowsOf
<1>8. DockTypes' /\ RowTypes' /\ DockFits'
  BY DEF DraftInv, DraftTypes, DockTypes, RowTypes, DockFits
<1>9. FatesFit'
  BY <1>4 DEF DraftInv, FatesFit
<1>10. OpenFits'
  <2>1. ASSUME NEW d \in SessionId, fate[d] = "open"
        PROVE  RowStands(d)' /\ AsStored(d)'
    BY <1>5, <1>6, <1>7, <2>1 DEF DraftInv, OpenFits, RowStands, AsStored
  <2>2. ASSUME NEW d \in SessionId, fate[d] = "open", NEW g \in SaveSlot, Busy(g)',
               saving'[g].draft = d
        PROVE  SaveOfOpen(g)'
    BY <1>4, <2>2 DEF DraftInv, OpenFits, SaveOfOpen
  <2> QED  BY <2>1, <2>2 DEF OpenFits
<1>11. DueFits'
  BY <1>1 DEF DueFits
<1>12. LeftFits'
  BY <1>6, <1>7 DEF DraftInv, LeftFits
<1>13. EndedFits'
  BY <1>5, <1>7 DEF DraftInv, EndedFits
<1> QED
  BY <1>2, <1>8, <1>9, <1>10, <1>11, <1>12, <1>13 DEF DraftInv, DraftTypes

(* What a save that goes on leaves as it was; a row may become its draft's. *)
LEMMA GoesOnKept ==
    ASSUME DraftInv, Calm, NEW f \in SaveSlot, Busy(f), NEW step \in Steps \ {"none"},
           NEW r \in RowId \cup {Unsaved}, GoesOnTo(f, step, r),
           step # "create" => r \in RowId,
           UNCHANGED <<attached, dock, armed, clicked, posting, deletes, fate, kept,
                       sessions, edits>>,
           localDrafts' \in [RowId -> Text], draftOf' \in [RowId -> SessionId \cup {0}],
           \A q \in RowId : draftOf'[q] \in {draftOf[q], saving[f].draft},
           \A q \in RowId : draftOf[q] # 0 => draftOf'[q] = draftOf[q],
           \A q \in RowId : draftOf'[q] = 0 => localDrafts'[q] = Erased,
           r # Unsaved => draftOf'[r] = saving[f].draft
    PROVE  /\ DraftTypes' /\ SavesFit' /\ DockFits' /\ RowsFit' /\ TurnsFit' /\ FatesFit'
           /\ OneSave' /\ DueFits'
           /\ \A g \in SaveSlot : (Busy(g)' <=> Busy(g)) /\ saving'[g].draft = saving[g].draft
           /\ \A d \in SessionId : IsBeingSaved(d)' <=> IsBeingSaved(d)
<1>1. /\ saving' \in [SaveSlot -> Save] /\ turns' = turns
      /\ \A g \in SaveSlot : g # f => saving'[g] = saving[g]
      /\ saving'[f].step = step /\ saving'[f].row = r
      /\ saving'[f].draft = saving[f].draft /\ saving'[f].token = saving[f].token
      /\ saving'[f].text = saving[f].text
  BY GoesOn DEF DraftInv, DraftTypes
<1>2. \A g \in SaveSlot : /\ Busy(g)' <=> Busy(g)
                          /\ saving'[g].draft = saving[g].draft
                          /\ saving'[g].token = saving[g].token
                          /\ saving'[g].text = saving[g].text
  BY <1>1 DEF Busy
<1>3. DraftTypes'
  <2>1. SaverTypes'
    BY <1>1 DEF DraftInv, DraftTypes, SaverTypes
  <2>2. DockTypes' /\ TurnTypes'
    BY <1>1 DEF DraftInv, DraftTypes, DockTypes, TurnTypes
  <2>3. RowTypes'
    BY DEF DraftInv, DraftTypes, RowTypes
  <2> QED  BY <2>1, <2>2, <2>3 DEF DraftTypes
<1>4. saving[f].draft \in 1..sessions /\ sessions \in Nat
  BY DEF DraftInv, DraftTypes, TurnTypes, SavesFit
<1>5. SavesFit'
  <2>1. ASSUME NEW g \in SaveSlot, ~Busy(g)'
        PROVE  saving'[g] = NoSave
    BY <1>1, <1>2, <2>1 DEF DraftInv, SavesFit
  <2>2. ASSUME NEW g \in SaveSlot, Busy(g)'
        PROVE  /\ saving'[g].draft \in 1..sessions' /\ saving'[g].token \in 1..sessions'
               /\ saving'[g].text # Untyped
               /\ attached' => saving'[g].token = saving'[g].draft
               /\ saving'[g].token = dock'.token => saving'[g].draft = dock'.draft
    BY <1>2, <2>2 DEF DraftInv, SavesFit
  <2>3. ASSUME NEW g \in SaveSlot, Busy(g)', saving'[g].row # Unsaved
        PROVE  draftOf'[saving'[g].row] = saving'[g].draft
    <3>1. CASE g = f
      BY <1>1, <2>3, <3>1
    <3>2. CASE g # f
      <4>1. saving'[g] = saving[g] /\ Busy(g) /\ saving[g].row \in RowId
        BY <1>1, <1>2, <2>3, <3>2 DEF DraftInv, DraftTypes, SaverTypes, Save
      <4>2. draftOf[saving[g].row] = saving[g].draft /\ saving[g].draft \in 1..sessions
        BY <2>3, <4>1 DEF DraftInv, SavesFit
      <4> QED  BY <1>4, <4>1, <4>2
    <3> QED  BY <3>1, <3>2
  <2> QED  BY <2>1, <2>2, <2>3 DEF SavesFit
<1>6. DockFits'
  <2>1. dock.row # Unsaved => dock.row \in RowId /\ dock # NoSession
    BY NoSessionFields DEF DraftInv, DraftTypes, DockTypes, Session
  <2>2. dock # NoSession => dock.draft # 0
    BY <1>4 DEF DraftInv, DockFits
  <2> QED  BY <2>1, <2>2 DEF DraftInv, DockFits
<1>7. RowsFit'
  <2>1. \A q \in RowId : draftOf'[q] \in 0..sessions
    BY <1>4 DEF DraftInv, RowsFit
  <2>2. clicked.row \in RowId \cup {Unsaved} /\ deletes \subseteq RowId
        /\ \A t \in turns : t.row \in RowId \cup {Unsaved}
    BY DEF DraftInv, DraftTypes, DockTypes, RowTypes, TurnTypes, RowClick, Turn
  <2> QED  BY <1>1, <2>1, <2>2 DEF DraftInv, RowsFit
<1>8. TurnsFit'
  <2>1. \A t \in turns : t.waits # 0 => t.waits \in SaveSlot
    BY DEF DraftInv, DraftTypes, TurnTypes, Turn
  <2> QED  BY <1>1, <1>2, <2>1 DEF DraftInv, TurnsFit
<1>9. FatesFit'
  <2>1. fate[saving[f].draft] # "none"
    BY DEF DraftInv, FatesFit
  <2> QED  BY <1>2, <2>1 DEF DraftInv, FatesFit
<1>10. OneSave'
  BY <1>2 DEF DraftInv, OneSave
<1>11. DueFits'
  BY <1>1 DEF DueFits, Calm
<1>12. \A d \in SessionId : IsBeingSaved(d)' <=> IsBeingSaved(d)
  BY <1>2 DEF IsBeingSaved, Busy
<1> QED
  BY <1>2, <1>3, <1>5, <1>6, <1>7, <1>8, <1>9, <1>10, <1>11, <1>12

LEMMA SaveLooksStep ==
    ASSUME DraftInv, NEW f \in SaveSlot, SaveLooks(f)
    PROVE  DraftInv'
<1> DEFINE step == IF localDrafts[saving[f].row] # Erased THEN "update" ELSE "create"
<1>1. /\ Calm /\ saving[f].step = "look" /\ Busy(f)
      /\ UNCHANGED <<attached, dock, armed, clicked, posting, deletes, localDrafts,
                     draftOf, fate, kept, sessions>>
      /\ edits' = edits
  BY DEF SaveLooks, SaverOnly, NoFault, Fault, daBounds, Busy
<1>2. CASE Over(f, FALSE)
  BY <1>1, <1>2, SaveFails
<1>3. CASE GoesOnTo(f, step, saving[f].row)
  <2>1. saving[f].row \in RowId /\ step \in {"update", "create"}
    BY <1>1 DEF DraftInv, DraftTypes, SaverTypes
  <2>2. /\ saving'[f].step = step /\ saving'[f].row = saving[f].row
        /\ saving'[f].draft = saving[f].draft /\ saving'[f].token = saving[f].token
        /\ \A g \in SaveSlot : g # f => saving'[g] = saving[g]
    <3>1. SaverTypes /\ step \in Steps \ {"none"}
      BY <2>1 DEF DraftInv, DraftTypes, Steps
    <3> QED
      <4> HIDE DEF step
      <4> QED  BY <1>3, <2>1, <3>1, GoesOn
  <2>3. draftOf[saving[f].row] = saving[f].draft /\ saving[f].row # Unsaved
    BY <1>1, <2>1, DraftAssumption DEF DraftInv, SavesFit, RowId, Unsaved
  <2>4. /\ DraftTypes' /\ SavesFit' /\ DockFits' /\ RowsFit' /\ TurnsFit' /\ FatesFit'
        /\ OneSave' /\ DueFits'
        /\ \A g \in SaveSlot : (Busy(g)' <=> Busy(g)) /\ saving'[g].draft = saving[g].draft
        /\ \A d \in SessionId : IsBeingSaved(d)' <=> IsBeingSaved(d)
    <3>1. step \in Steps \ {"none"}
      BY <2>1 DEF Steps
    <3>2. /\ localDrafts' \in [RowId -> Text] /\ draftOf' \in [RowId -> SessionId \cup {0}]
          /\ \A q \in RowId : draftOf'[q] = 0 => localDrafts'[q] = Erased
      BY <1>1 DEF DraftInv, DraftTypes, RowTypes, RowsFit
    <3> HIDE DEF step
    <3> QED  BY <1>1, <1>3, <2>1, <2>3, <3>1, <3>2, GoesOnKept
  <2>5. \A g \in SaveSlot : saving[g].step \in {"return", "undo"} => saving'[g] = saving[g]
    BY <1>1, <2>2
  <2>6. \A d \in SessionId : RowsOf(d)' = RowsOf(d)
    BY <1>1 DEF RowsOf
  <2>7. OpenFits'
    <3>1. ASSUME NEW d \in SessionId, fate[d] = "open"
          PROVE  RowStands(d)' /\ AsStored(d)'
      BY <1>1, <2>4, <2>5, <2>6, <3>1 DEF DraftInv, OpenFits, RowStands, AsStored
    <3>2. ASSUME NEW d \in SessionId, fate[d] = "open", NEW g \in SaveSlot, Busy(g)',
                 saving'[g].draft = d
          PROVE  SaveOfOpen(g)'
      <4>1. SaveOfOpen(g) /\ RowStands(d)
        BY <2>4, <3>2 DEF DraftInv, OpenFits
      <4>2. CASE g # f
        BY <1>1, <2>2, <4>1, <4>2 DEF SaveOfOpen
      <4>3. CASE g = f
        <5>1. saving[f].row = dock.row /\ localDrafts[dock.row] # Erased
          BY <1>1, <2>3, <4>1, <4>3 DEF SaveOfOpen, RowStands
        <5>2. saving'[f].step = "update"
          BY <2>2, <5>1
        <5> QED  BY <1>1, <2>2, <4>1, <4>3, <5>1, <5>2 DEF SaveOfOpen
      <4> QED  BY <4>2, <4>3
    <3> QED  BY <1>1, <3>1, <3>2 DEF OpenFits
  <2>8. LeftFits'
    BY <1>1, <2>4, <2>6 DEF DraftInv, LeftFits
  <2>9. EndedFits'
    BY <1>1, <2>5, <2>6 DEF DraftInv, EndedFits
  <2> QED  BY <2>4, <2>7, <2>8, <2>9 DEF DraftInv
<1> QED  BY <1>2, <1>3 DEF SaveLooks

LEMMA SaveUpdatesStep ==
    ASSUME DraftInv, NEW f \in SaveSlot, SaveUpdates(f)
    PROVE  DraftInv'
<1> DEFINE row == saving[f].row
           own == saving[f].draft
<1>1. /\ Calm /\ saving[f].step = "update" /\ Busy(f)
      /\ UNCHANGED <<attached, dock, armed, clicked, posting, deletes, draftOf, fate,
                     kept, sessions>>
      /\ edits' = edits
  BY DEF SaveUpdates, SaverOnly, NoFault, Fault, daBounds, Busy
<1>2. CASE Over(f, FALSE) /\ UNCHANGED localDrafts
  BY <1>1, <1>2, SaveFails
<1>3. CASE /\ localDrafts' = [localDrafts EXCEPT ![row] =
                                IF @ = Erased THEN Erased ELSE saving[f].text]
           /\ GoesOnTo(f, "return", row)
  <2>1. /\ row \in RowId /\ row # Unsaved /\ draftOf[row] = own
        /\ saving[f].text # Erased /\ saving[f].text \in Text
        /\ localDrafts \in [RowId -> Text]
    <3>1. row \in RowId /\ row # Unsaved
      BY <1>1, DraftAssumption DEF DraftInv, DraftTypes, SaverTypes, RowId, Unsaved
    <3> QED
      BY <1>1, <3>1 DEF DraftInv, DraftTypes, SaverTypes, SavesFit, RowTypes, Save,
                        Untyped, Erased
  <2>2. /\ \A q \in RowId : q # row => localDrafts'[q] = localDrafts[q]
        /\ localDrafts[row] = Erased => localDrafts'[row] = Erased
        /\ localDrafts[row] # Erased => localDrafts'[row] = saving[f].text
        /\ localDrafts' \in [RowId -> Text]
    BY <1>3, <2>1
  <2>3. \A d \in SessionId : RowsOf(d)' = RowsOf(d)
    BY <1>1, <2>1, <2>2 DEF RowsOf
  <2>4. /\ saving'[f].step = "return" /\ saving'[f].row = row
        /\ saving'[f].draft = own /\ saving'[f].token = saving[f].token
        /\ saving'[f].text = saving[f].text
        /\ \A g \in SaveSlot : g # f => saving'[g] = saving[g]
    <3>1. SaverTypes /\ "return" \in Steps \ {"none"}
      BY DEF DraftInv, DraftTypes, Steps
    <3> QED  BY <1>3, <2>1, <3>1, GoesOn
  <2>5. /\ DraftTypes' /\ SavesFit' /\ DockFits' /\ RowsFit' /\ TurnsFit' /\ FatesFit'
        /\ OneSave' /\ DueFits'
        /\ \A g \in SaveSlot : (Busy(g)' <=> Busy(g)) /\ saving'[g].draft = saving[g].draft
        /\ \A d \in SessionId : IsBeingSaved(d)' <=> IsBeingSaved(d)
    <3>1. "return" \in Steps \ {"none"}
      BY DEF Steps
    <3>2. /\ draftOf' \in [RowId -> SessionId \cup {0}]
          /\ \A q \in RowId : draftOf'[q] = 0 => localDrafts'[q] = Erased
      BY <1>1, <2>2 DEF DraftInv, DraftTypes, RowTypes, RowsFit
    <3> QED  BY <1>1, <1>3, <2>1, <2>2, <3>1, <3>2, GoesOnKept
  <2>6. \A g \in SaveSlot : saving[g].step \in {"return", "undo"} => saving'[g] = saving[g]
    BY <1>1, <2>4
  <2>7. \A g \in SaveSlot : Busy(g) /\ saving[g].draft = own /\ fate[own] = "open" => g = f
    BY <1>1 DEF DraftInv, OneSave
  <2>8. OpenFits'
    <3>1. ASSUME NEW d \in SessionId, fate[d] = "open"
          PROVE  /\ dock.row # Unsaved => dock.row \in RowId /\ draftOf[dock.row] = d
                 /\ RowStands(d) /\ AsStored(d)
      BY <3>1 DEF DraftInv, DraftTypes, DockTypes, Session, DockFits, FatesFit, OpenFits
    <3>2. ASSUME NEW d \in SessionId, fate[d] = "open"
          PROVE  RowStands(d)'
      BY <1>1, <2>1, <2>2, <2>3, <2>6, <3>1, <3>2 DEF RowStands
    <3>3. ASSUME NEW d \in SessionId, fate[d] = "open"
          PROVE  AsStored(d)'
      <4>1. CASE own = d
        <5>1. IsBeingSaved(d)
          BY <1>1, <4>1 DEF IsBeingSaved
        <5> QED  BY <1>1, <3>1, <3>3, <5>1 DEF AsStored
      <4>2. CASE own # d
        BY <1>1, <2>1, <2>2, <2>5, <3>1, <3>3, <4>2 DEF AsStored
      <4> QED  BY <4>1, <4>2
    <3>4. ASSUME NEW d \in SessionId, fate[d] = "open", NEW g \in SaveSlot, Busy(g)',
                 saving'[g].draft = d
          PROVE  SaveOfOpen(g)'
      <4>1. SaveOfOpen(g) /\ Busy(g) /\ saving[g].draft = d
        BY <2>5, <3>4 DEF DraftInv, OpenFits
      <4>2. CASE g = f
        <5>1. row = dock.row
          BY <1>1, <4>1, <4>2 DEF SaveOfOpen
        <5>2. localDrafts'[row] = saving[f].text /\ row \notin deletes
          BY <2>1, <2>2, <3>1, <3>4, <5>1 DEF RowStands
        <5> QED  BY <1>1, <2>4, <4>1, <4>2, <5>1, <5>2 DEF SaveOfOpen
      <4>3. CASE g # f
        <5>1. saving'[g] = saving[g] /\ d # own
          BY <2>4, <2>7, <3>4, <4>1, <4>3
        <5>2. saving[g].step = "return" => saving[g].row \in RowId /\ saving[g].row # Unsaved
          BY DraftAssumption DEF DraftInv, DraftTypes, SaverTypes, RowId, Unsaved
        <5>3. saving[g].step = "return" => draftOf[saving[g].row] = d
          BY <4>1, <5>2 DEF DraftInv, SavesFit
        <5> QED  BY <1>1, <2>1, <2>2, <4>1, <5>1, <5>2, <5>3 DEF SaveOfOpen
      <4> QED  BY <4>2, <4>3
    <3> QED  BY <1>1, <3>2, <3>3, <3>4 DEF OpenFits
  <2>9. LeftFits'
    <3>1. ASSUME NEW d \in SessionId, fate[d] = "left"
          PROVE  \E r \in RowId : /\ RowsOf(d)' = {r} /\ r \notin deletes
                                  /\ localDrafts'[r] = kept[d]
      <4>1. PICK r \in RowId : RowsOf(d) = {r} /\ r \notin deletes /\ localDrafts[r] = kept[d]
        BY <3>1 DEF DraftInv, LeftFits
      <4>2. draftOf[r] = d /\ own # d
        BY <1>1, <3>1, <4>1 DEF DraftInv, LeftFits, RowsOf, IsBeingSaved, Busy
      <4> QED  BY <2>1, <2>2, <2>3, <4>1, <4>2
    <3> QED  BY <1>1, <2>5, <3>1 DEF DraftInv, LeftFits
  <2>10. EndedFits'
    BY <1>1, <2>3, <2>6 DEF DraftInv, EndedFits
  <2> QED  BY <2>5, <2>8, <2>9, <2>10 DEF DraftInv
<1> QED  BY <1>2, <1>3 DEF SaveUpdates

LEMMA SaveCreatesStep ==
    ASSUME DraftInv, NEW f \in SaveSlot, SaveCreates(f)
    PROVE  DraftInv'
<1> DEFINE own == saving[f].draft
<1>1. /\ Calm /\ saving[f].step = "create" /\ Busy(f)
      /\ UNCHANGED <<attached, dock, armed, clicked, posting, deletes, fate, kept,
                     sessions>>
      /\ edits' = edits
  BY DEF SaveCreates, SaverOnly, NoFault, Fault, daBounds, Busy
<1>2. CASE Over(f, FALSE) /\ UNCHANGED <<localDrafts, draftOf>>
  BY <1>1, <1>2, SaveFails
<1>3. ASSUME NEW r \in RowId, NextRow(r),
             localDrafts' = [localDrafts EXCEPT ![r] = saving[f].text],
             draftOf' = [draftOf EXCEPT ![r] = saving[f].draft],
             GoesOnTo(f, "return", r)
      PROVE  DraftInv'
  <2>1. /\ draftOf[r] = 0 /\ localDrafts[r] = Erased /\ r \notin deletes
        /\ own \in 1..sessions /\ own \in SessionId /\ own # 0
        /\ saving[f].text # Erased /\ saving[f].text \in Text
        /\ localDrafts \in [RowId -> Text] /\ draftOf \in [RowId -> SessionId \cup {0}]
        /\ r # Unsaved
    <3>1. own \in 1..sessions /\ saving[f].text # Untyped /\ saving[f].text \in Text
      BY <1>1 DEF DraftInv, DraftTypes, SaverTypes, Save, SavesFit
    <3>2. own \in SessionId /\ own # 0
      BY <3>1, DraftAssumption DEF DraftInv, DraftTypes, TurnTypes, SessionId
    <3>3. r # Unsaved
      BY DraftAssumption DEF RowId, Unsaved
    <3> QED
      BY <1>3, <3>1, <3>2, <3>3 DEF NextRow, DraftInv, DraftTypes, RowTypes, RowsFit,
                                    Untyped, Erased
  <2>2. /\ \A q \in RowId : q # r => localDrafts'[q] = localDrafts[q] /\ draftOf'[q] = draftOf[q]
        /\ localDrafts'[r] = saving[f].text /\ draftOf'[r] = own
        /\ localDrafts' \in [RowId -> Text] /\ draftOf' \in [RowId -> SessionId \cup {0}]
    BY <1>3, <2>1
  <2>3. /\ \A d \in SessionId : d # own => RowsOf(d)' = RowsOf(d)
        /\ \A d \in SessionId : d = own => RowsOf(d)' = RowsOf(d) \cup {r}
    <3>1. ASSUME NEW d \in SessionId, d # own
          PROVE  RowsOf(d)' = RowsOf(d)
      <4>1. \A q \in RowId : (draftOf'[q] = d /\ localDrafts'[q] # Erased)
                             <=> (draftOf[q] = d /\ localDrafts[q] # Erased)
        BY <2>1, <2>2, <3>1
      <4> QED  BY <4>1 DEF RowsOf
    <3>2. ASSUME NEW d \in SessionId, d = own
          PROVE  RowsOf(d)' = RowsOf(d) \cup {r}
      <4>1. \A q \in RowId : (draftOf'[q] = d /\ localDrafts'[q] # Erased)
                             <=> (draftOf[q] = d /\ localDrafts[q] # Erased) \/ q = r
        BY <2>1, <2>2, <3>2
      <4> QED  BY <4>1 DEF RowsOf
    <3> QED  BY <3>1, <3>2
  <2>4. /\ saving'[f].step = "return" /\ saving'[f].row = r
        /\ saving'[f].draft = own /\ saving'[f].token = saving[f].token
        /\ saving'[f].text = saving[f].text
        /\ \A g \in SaveSlot : g # f => saving'[g] = saving[g]
    <3>1. SaverTypes /\ "return" \in Steps \ {"none"}
      BY DEF DraftInv, DraftTypes, Steps
    <3> QED  BY <1>3, <3>1, GoesOn
  <2>5. /\ DraftTypes' /\ SavesFit' /\ DockFits' /\ RowsFit' /\ TurnsFit' /\ FatesFit'
        /\ OneSave' /\ DueFits'
        /\ \A g \in SaveSlot : (Busy(g)' <=> Busy(g)) /\ saving'[g].draft = saving[g].draft
        /\ \A d \in SessionId : IsBeingSaved(d)' <=> IsBeingSaved(d)
    <3>1. "return" \in Steps \ {"none"}
      BY DEF Steps
    <3>2. /\ \A q \in RowId : draftOf'[q] \in {draftOf[q], own}
          /\ \A q \in RowId : draftOf[q] # 0 => draftOf'[q] = draftOf[q]
          /\ \A q \in RowId : draftOf'[q] = 0 => localDrafts'[q] = Erased
      BY <2>1, <2>2 DEF DraftInv, RowsFit
    <3> QED  BY <1>1, <1>3, <2>1, <2>2, <3>1, <3>2, GoesOnKept
  <2>6. \A g \in SaveSlot : saving[g].step \in {"return", "undo"} => g # f /\ saving'[g] = saving[g]
    BY <1>1, <2>4
  <2>7. \A g \in SaveSlot : Busy(g) /\ saving[g].draft = own /\ fate[own] = "open" => g = f
    BY <1>1 DEF DraftInv, OneSave
  <2>8. OpenFits'
    <3>1. ASSUME NEW d \in SessionId, fate[d] = "open"
          PROVE  /\ dock.row # Unsaved => dock.row \in RowId /\ draftOf[dock.row] = d
                 /\ RowStands(d) /\ AsStored(d) /\ d # 0
      BY <3>1, DraftAssumption
      DEF DraftInv, DraftTypes, DockTypes, Session, DockFits, FatesFit, OpenFits, SessionId
    <3>2. ASSUME NEW d \in SessionId, fate[d] = "open"
          PROVE  own = d => dock.row = Unsaved
      BY <1>1, <3>2 DEF DraftInv, OpenFits, SaveOfOpen
    <3>3. ASSUME NEW d \in SessionId, fate[d] = "open"
          PROVE  RowStands(d)'
      <4>1. dock.row # Unsaved => dock.row # r
        BY <2>1, <3>1, <3>3
      <4>2. \A q \in RowsOf(d)' : q = r => own = d
        BY <2>1, <2>2 DEF RowsOf
      <4>3. \A q \in RowsOf(d)' : q # r => q \in RowsOf(d)
        BY <2>2 DEF RowsOf
      <4> QED
        BY <1>1, <2>2, <2>4, <2>6, <3>1, <3>2, <3>3, <4>1, <4>2, <4>3 DEF RowStands
    <3>4. ASSUME NEW d \in SessionId, fate[d] = "open"
          PROVE  AsStored(d)'
      <4>1. dock.row # Unsaved => dock.row # r
        BY <2>1, <3>1, <3>4
      <4> QED  BY <1>1, <2>2, <2>5, <3>1, <3>4, <4>1 DEF AsStored
    <3>5. ASSUME NEW d \in SessionId, fate[d] = "open", NEW g \in SaveSlot, Busy(g)',
                 saving'[g].draft = d
          PROVE  SaveOfOpen(g)'
      <4>1. SaveOfOpen(g) /\ Busy(g) /\ saving[g].draft = d
        BY <2>5, <3>5 DEF DraftInv, OpenFits
      <4>2. CASE g = f
        BY <1>1, <2>1, <2>2, <2>4, <3>2, <3>5, <4>1, <4>2 DEF SaveOfOpen
      <4>3. CASE g # f
        <5>1. saving'[g] = saving[g]
          BY <2>4, <4>3
        <5>2. saving[g].step = "return" => saving[g].row \in RowId /\ saving[g].row # Unsaved
          BY DraftAssumption DEF DraftInv, DraftTypes, SaverTypes, RowId, Unsaved
        <5>3. saving[g].step = "return" => saving[g].row # r
          BY <2>1, <3>1, <3>5, <4>1, <5>2 DEF DraftInv, SavesFit
        <5> QED  BY <1>1, <2>2, <4>1, <5>1, <5>2, <5>3 DEF SaveOfOpen
      <4> QED  BY <4>2, <4>3
    <3> QED  BY <1>1, <3>3, <3>4, <3>5 DEF OpenFits
  <2>9. LeftFits'
    <3>1. ASSUME NEW d \in SessionId, fate[d] = "left"
          PROVE  \E q \in RowId : /\ RowsOf(d)' = {q} /\ q \notin deletes
                                  /\ localDrafts'[q] = kept[d]
      <4>1. PICK q \in RowId : RowsOf(d) = {q} /\ q \notin deletes /\ localDrafts[q] = kept[d]
        BY <3>1 DEF DraftInv, LeftFits
      <4>2. own # d /\ q # r
        BY <1>1, <2>1, <3>1, <4>1 DEF DraftInv, LeftFits, RowsOf, IsBeingSaved, Busy
      <4> QED  BY <2>2, <2>3, <4>1, <4>2
    <3> QED  BY <1>1, <2>5, <3>1 DEF DraftInv, LeftFits
  <2>10. EndedFits'
    BY <1>1, <2>3, <2>4, <2>6 DEF DraftInv, EndedFits
  <2> QED  BY <2>5, <2>8, <2>9, <2>10 DEF DraftInv
<1> QED  BY <1>2, <1>3 DEF SaveCreates

(* Drafts the code cannot answer for from now on.                          *)
LEMMA Blur ==
    ASSUME DraftInv, NEW S \in SUBSET SessionId, \A d \in S : d <= sessions,
           fate' = Blurred(S), UNCHANGED <<dock, sessions, draftOf>>,
           \A f \in SaveSlot : Busy(f)' =>
              \/ Busy(f) /\ saving'[f].draft = saving[f].draft
              \/ saving'[f].draft = dock.draft /\ dock # NoSession
    PROVE  /\ fate' \in [SessionId -> Fates] /\ FatesFit'
           /\ \A d \in SessionId : fate[d] = "unclear" => fate'[d] = "unclear"
           /\ \A d \in SessionId : fate'[d] # "unclear" => fate'[d] = fate[d] /\ d \notin S
<1>1. \A d \in SessionId : fate'[d] = IF d \in S THEN "unclear" ELSE fate[d]
  BY DEF Blurred
<1>2. fate \in [SessionId -> Fates] /\ fate' \in [SessionId -> Fates]
  BY <1>1 DEF DraftInv, DraftTypes, RowTypes, Blurred, Fates
<1>3. \A d \in SessionId : fate'[d] # "unclear" => fate'[d] = fate[d] /\ d \notin S
  BY <1>1
<1>4. \A d \in 1..sessions : d \in SessionId
  BY DraftAssumption DEF DraftInv, DraftTypes, TurnTypes, SessionId
<1>5. FatesFit'
  <2>1. \A d \in SessionId : fate'[d] = "open" => dock'.draft = d
    BY <1>3 DEF DraftInv, FatesFit
  <2>2. dock # NoSession => fate'[dock.draft] \in {"open", "unclear"}
    BY <1>1, <1>4 DEF DraftInv, FatesFit, DockFits
  <2>3. ASSUME NEW d \in SessionId, d > sessions
        PROVE  fate'[d] = "none"
    <3>1. d \notin S
      BY <2>3, DraftAssumption DEF DraftInv, DraftTypes, TurnTypes, SessionId
    <3> QED  BY <1>1, <2>3, <3>1 DEF DraftInv, FatesFit
  <2>4. \A r \in RowId : draftOf[r] # 0 => fate'[draftOf[r]] # "none"
    BY <1>1 DEF DraftInv, DraftTypes, RowTypes, FatesFit
  <2>5. ASSUME NEW f \in SaveSlot, Busy(f)'
        PROVE  fate'[saving'[f].draft] # "none"
    <3>1. saving'[f].draft \in 1..sessions /\ fate[saving'[f].draft] # "none"
      BY <2>5 DEF DraftInv, FatesFit, SavesFit, DockFits
    <3> QED  BY <1>1, <1>4, <3>1
  <2> QED  BY <2>1, <2>2, <2>3, <2>4, <2>5 DEF FatesFit
<1> QED  BY <1>1, <1>2, <1>3, <1>5

(* The id is written back: the draft of the dock is stored as it was read. *)
LEMMA SaveReturnsToItsSession ==
    ASSUME DraftInv, NEW f \in SaveSlot, SaveReturns(f), dock.token = saving[f].token
    PROVE  DraftInv'
<1> DEFINE own == saving[f].draft
           row == saving[f].row
<1>1. /\ Calm /\ saving[f].step = "return" /\ Busy(f)
      /\ dock' = [dock EXCEPT !.row = row] /\ Over(f, TRUE)
      /\ UNCHANGED <<attached, armed, clicked, posting, deletes, localDrafts, draftOf,
                     fate, kept, sessions>>
      /\ edits' = edits
  BY DEF SaveReturns, SaverOnly, NoFault, daBounds, Busy
<1>2. /\ row \in RowId /\ row # Unsaved /\ draftOf[row] = own
      /\ saving[f].text # Erased /\ own \in 1..sessions /\ own \in SessionId
      /\ dock.draft = own
  <2>1. row \in RowId /\ row # Unsaved
    BY <1>1, DraftAssumption DEF DraftInv, DraftTypes, SaverTypes, RowId, Unsaved
  <2>2. own \in 1..sessions /\ own \in SessionId
    BY <1>1, DraftAssumption DEF DraftInv, DraftTypes, TurnTypes, SavesFit, SessionId
  <2> QED  BY <1>1, <2>1, <2>2 DEF DraftInv, SavesFit, Untyped, Erased
<1>3. /\ dock \in Session /\ dock' \in Session /\ dock'.row = row
      /\ dock'.draft = dock.draft /\ dock'.token = dock.token /\ dock'.text = dock.text
      /\ dock'.pristine = dock.pristine
  <2>1. dock \in Session
    BY DEF DraftInv, DraftTypes, DockTypes
  <2> QED  BY <1>1, <1>2, <2>1 DEF Session
<1>4. dock # NoSession /\ dock' # NoSession
  <2>1. own # 0
    BY <1>2, DraftAssumption DEF DraftInv, DraftTypes, TurnTypes
  <2> QED  BY <1>2, <1>3, <2>1, NoSessionFields
<1>5. /\ saving' \in [SaveSlot -> Save] /\ saving'[f] = NoSave
      /\ \A g \in SaveSlot : g # f => saving'[g] = saving[g]
      /\ \A u \in turns' : u.waits = 0 => u.draft = own /\ u.wrote = saving[f].text
  BY <1>1, SaveOver DEF DraftInv, DraftTypes
<1>6. SaverTypes' /\ TurnTypes' /\ SavesFit' /\ TurnsFit' /\ OneSave' /\ RowsFit'
  BY <1>1, <1>3, OverKept DEF DraftInv, RowsFit
<1>7. ~Busy(f)'
  BY <1>5, NoSaveFields DEF Busy
<1>8. \A g \in SaveSlot : Busy(g)' => g # f /\ Busy(g) /\ saving'[g] = saving[g]
  BY <1>5, <1>7 DEF Busy
<1>9. \A d \in SessionId : IsBeingSaved(d)' => IsBeingSaved(d)
  BY <1>8 DEF IsBeingSaved, Busy
<1>10. \A d \in SessionId : RowsOf(d)' = RowsOf(d)
  BY <1>1 DEF RowsOf
<1>11. DockTypes' /\ RowTypes'
  BY <1>1, <1>3 DEF DraftInv, DraftTypes, DockTypes, RowTypes
<1>12. DockFits'
  BY <1>1, <1>2, <1>3, <1>4 DEF DraftInv, DockFits
<1>13. FatesFit'
  BY <1>1, <1>3, <1>4, <1>8 DEF DraftInv, FatesFit
<1>14. ASSUME fate[own] = "open"
       PROVE  /\ localDrafts[row] = saving[f].text /\ row \notin deletes
              /\ dock.row \in {Unsaved, row} /\ ~dock.pristine
              /\ RowsOf(own) \subseteq {row}
  <2>1. SaveOfOpen(f) /\ RowStands(own) /\ AsStored(own)
    BY <1>1, <1>2, <1>14 DEF DraftInv, OpenFits
  <2>2. \A g \in SaveSlot : Busy(g) /\ saving[g].draft = own => g = f
    BY <1>1, <1>14 DEF DraftInv, OneSave
  <2>3. ~dock.pristine
    BY <1>1, <2>1 DEF AsStored, IsBeingSaved, Busy
  <2>4. ASSUME NEW r \in RowsOf(own)
        PROVE  r = row
    <3>1. r \in RowId /\ draftOf[r] = own
      BY DEF RowsOf
    <3>2. CASE r = dock.row
      BY <1>1, <1>2, <2>1, <3>1, <3>2, DraftAssumption DEF SaveOfOpen, RowId, Unsaved
    <3>3. CASE r # dock.row
      <4>1. PICK g \in SaveSlot : saving[g].step = "return" /\ saving[g].row = r
        BY <2>1, <3>3 DEF RowStands
      <4>2. saving[g].draft = own /\ Busy(g)
        BY <3>1, <4>1, DraftAssumption DEF DraftInv, SavesFit, Busy, RowId, Unsaved
      <4> QED  BY <2>2, <4>1, <4>2
    <3> QED  BY <3>2, <3>3
  <2> QED  BY <1>1, <2>1, <2>3, <2>4 DEF SaveOfOpen
<1>15. OpenFits'
  <2>1. ASSUME NEW d \in SessionId, fate'[d] = "open"
        PROVE  d = own /\ fate[own] = "open"
    BY <1>1, <1>2, <2>1 DEF DraftInv, FatesFit
  <2>2. ASSUME NEW d \in SessionId, fate'[d] = "open"
        PROVE  RowStands(d)' /\ AsStored(d)'
    BY <1>1, <1>2, <1>3, <1>10, <1>14, <2>1, <2>2 DEF RowStands, AsStored
  <2>3. ASSUME NEW d \in SessionId, fate'[d] = "open", NEW g \in SaveSlot, Busy(g)',
               saving'[g].draft = d
        PROVE  SaveOfOpen(g)'
    <3>1. g # f /\ Busy(g) /\ saving[g].draft = own /\ fate[own] = "open"
      BY <1>8, <2>1, <2>3
    <3> QED  BY <1>1, <3>1 DEF DraftInv, OneSave
  <2> QED  BY <2>2, <2>3 DEF OpenFits
<1>16. DueFits'
  <2>1. ASSUME NEW u \in turns', NEW d \in SessionId, u.waits = 0, u.draft = d,
               fate'[d] = "open"
        PROVE  /\ dock'.row # Unsaved /\ localDrafts'[dock'.row] = u.wrote
               /\ ~IsBeingSaved(d)'
    <3>1. d = own /\ u.wrote = saving[f].text /\ fate[own] = "open"
      BY <1>1, <1>5, <2>1
    <3>2. ~IsBeingSaved(d)'
      <4>1. \A g \in SaveSlot : Busy(g) /\ saving[g].draft = d => g = f
        BY <1>1, <3>1 DEF DraftInv, OneSave
      <4> QED  BY <1>8, <4>1 DEF IsBeingSaved, Busy
    <3> QED  BY <1>1, <1>2, <1>3, <1>14, <3>1, <3>2
  <2> QED  BY <2>1 DEF DueFits
<1>17. LeftFits'
  BY <1>1, <1>9, <1>10 DEF DraftInv, LeftFits
<1>18. EndedFits'
  <2>1. ASSUME NEW d \in SessionId, fate[d] = "ended", NEW r \in RowsOf(d)
        PROVE  r # row
    BY <1>2, <1>4, <2>1 DEF DraftInv, FatesFit, RowsOf
  <2>2. \A g \in SaveSlot : saving[g].step \in {"return", "undo"} /\ saving[g].row # row
           => saving'[g] = saving[g]
    BY <1>5
  <2> QED  BY <1>1, <1>10, <2>1, <2>2 DEF DraftInv, EndedFits
<1> QED
  BY <1>6, <1>11, <1>12, <1>13, <1>15, <1>16, <1>17, <1>18 DEF DraftInv, DraftTypes

(* The session is over: the save is going to undo itself.                  *)
LEMMA SaveReturnsTooLate ==
    ASSUME DraftInv, NEW f \in SaveSlot, SaveReturns(f), dock.token # saving[f].token
    PROVE  DraftInv'
<1> DEFINE row == saving[f].row
<1>1. /\ Calm /\ saving[f].step = "return" /\ Busy(f)
      /\ GoesOnTo(f, "undo", row)
      /\ UNCHANGED <<attached, dock, armed, clicked, posting, deletes, localDrafts,
                     draftOf, fate, kept, sessions>>
      /\ edits' = edits
  BY DEF SaveReturns, SaverOnly, NoFault, daBounds, Busy
<1>2. row \in RowId /\ row # Unsaved /\ draftOf[row] = saving[f].draft
  <2>1. row \in RowId /\ row # Unsaved
    BY <1>1, DraftAssumption DEF DraftInv, DraftTypes, SaverTypes, RowId, Unsaved
  <2> QED  BY <1>1, <2>1 DEF DraftInv, SavesFit
<1>3. "undo" \in Steps \ {"none"}
  BY DEF Steps
<1>4. /\ saving'[f].step = "undo" /\ saving'[f].row = row
      /\ \A g \in SaveSlot : g # f => saving'[g] = saving[g]
  BY <1>1, <1>2, <1>3, GoesOn DEF DraftInv, DraftTypes
<1>5. /\ DraftTypes' /\ SavesFit' /\ DockFits' /\ RowsFit' /\ TurnsFit' /\ FatesFit'
      /\ OneSave' /\ DueFits'
      /\ \A g \in SaveSlot : (Busy(g)' <=> Busy(g)) /\ saving'[g].draft = saving[g].draft
      /\ \A d \in SessionId : IsBeingSaved(d)' <=> IsBeingSaved(d)
  <2>1. /\ localDrafts' \in [RowId -> Text] /\ draftOf' \in [RowId -> SessionId \cup {0}]
        /\ \A q \in RowId : draftOf'[q] = 0 => localDrafts'[q] = Erased
    BY <1>1 DEF DraftInv, DraftTypes, RowTypes, RowsFit
  <2> QED  BY <1>1, <1>2, <1>3, <2>1, GoesOnKept
<1>6. \A d \in SessionId : RowsOf(d)' = RowsOf(d)
  BY <1>1 DEF RowsOf
<1>7. \A d \in SessionId : fate[d] = "open" => d # saving[f].draft
  BY <1>1 DEF DraftInv, OpenFits, SaveOfOpen
<1>8. OpenFits'
  <2>1. ASSUME NEW d \in SessionId, fate[d] = "open"
        PROVE  RowStands(d)'
    <3>1. \A r \in RowsOf(d) : r # row
      BY <1>2, <1>7, <2>1 DEF RowsOf
    <3> QED
      BY <1>1, <1>4, <1>6, <2>1, <3>1 DEF DraftInv, OpenFits, RowStands
  <2>2. ASSUME NEW d \in SessionId, fate[d] = "open"
        PROVE  AsStored(d)'
    BY <1>1, <1>5, <2>2 DEF DraftInv, OpenFits, AsStored
  <2>3. ASSUME NEW d \in SessionId, fate[d] = "open", NEW g \in SaveSlot, Busy(g)',
               saving'[g].draft = d
        PROVE  SaveOfOpen(g)'
    BY <1>1, <1>4, <1>5, <1>7, <2>3 DEF DraftInv, OpenFits, SaveOfOpen
  <2> QED  BY <1>1, <2>1, <2>2, <2>3 DEF OpenFits
<1>9. LeftFits'
  BY <1>1, <1>5, <1>6 DEF DraftInv, LeftFits
<1>10. EndedFits'
  <2>1. \A g \in SaveSlot : saving[g].step \in {"return", "undo"} =>
           saving'[g].step \in {"return", "undo"} /\ saving'[g].row = saving[g].row
    BY <1>4
  <2> QED  BY <1>1, <1>6, <2>1 DEF DraftInv, EndedFits
<1> QED  BY <1>5, <1>8, <1>9, <1>10 DEF DraftInv

LEMMA SaveUndoesStep ==
    ASSUME DraftInv, NEW f \in SaveSlot, SaveUndoes(f)
    PROVE  DraftInv'
<1> DEFINE own == saving[f].draft
           row == saving[f].row
<1>1. /\ Calm /\ saving[f].step = "undo" /\ Busy(f) /\ Over(f, TRUE)
      /\ UNCHANGED <<attached, dock, armed, clicked, posting, deletes, draftOf, kept,
                     sessions>>
      /\ edits' = edits
      /\ \/ localDrafts' = WithoutRow(row) /\ UNCHANGED fate
         \/ fate' = Blurred({own}) /\ UNCHANGED localDrafts
  BY DEF SaveUndoes, SaverOnly, NoFault, Fault, daBounds, Busy
<1>2. /\ row \in RowId /\ row # Unsaved /\ draftOf[row] = own
      /\ own \in 1..sessions /\ own \in SessionId
  <2>1. row \in RowId /\ row # Unsaved
    BY <1>1, DraftAssumption DEF DraftInv, DraftTypes, SaverTypes, RowId, Unsaved
  <2>2. own \in 1..sessions /\ own \in SessionId
    BY <1>1, DraftAssumption DEF DraftInv, DraftTypes, TurnTypes, SavesFit, SessionId
  <2> QED  BY <1>1, <2>1, <2>2 DEF DraftInv, SavesFit
<1>3. fate[own] # "open" /\ fate[own] # "left"
  BY <1>1, <1>2 DEF DraftInv, OpenFits, SaveOfOpen, LeftFits, IsBeingSaved, Busy
<1>4. /\ saving' \in [SaveSlot -> Save] /\ saving'[f] = NoSave
      /\ \A g \in SaveSlot : g # f => saving'[g] = saving[g]
      /\ \A u \in turns' : u.waits = 0 => u.draft = own
  BY <1>1, SaveOver DEF DraftInv, DraftTypes
<1>5. ~Busy(f)'
  BY <1>4, NoSaveFields DEF Busy
<1>6. \A g \in SaveSlot : Busy(g)' => g # f /\ Busy(g) /\ saving'[g] = saving[g]
  BY <1>4, <1>5 DEF Busy
<1>7. \A d \in SessionId : IsBeingSaved(d)' => IsBeingSaved(d)
  BY <1>6 DEF IsBeingSaved, Busy
<1>8. /\ \A q \in RowId : q # row => localDrafts'[q] = localDrafts[q]
      /\ localDrafts'[row] \in {Erased, localDrafts[row]}
      /\ localDrafts' \in [RowId -> Text]
  <2>1. Erased \in Text /\ localDrafts \in [RowId -> Text]
    BY DraftAssumption DEF DraftInv, DraftTypes, RowTypes, Text, Erased
  <2> QED  BY <1>1, <1>2, <2>1 DEF WithoutRow
<1>9. /\ fate' \in [SessionId -> Fates] /\ FatesFit'
      /\ \A d \in SessionId : fate[d] = "unclear" => fate'[d] = "unclear"
      /\ \A d \in SessionId : fate'[d] # "unclear" => fate'[d] = fate[d]
      /\ fate'[own] # "unclear" => localDrafts'[row] = Erased
  <2>1. CASE fate' = Blurred({own})
    <3>1. {own} \in SUBSET SessionId /\ \A d \in {own} : d <= sessions
      BY <1>2 DEF DraftInv, DraftTypes, TurnTypes
    <3>2. /\ fate' \in [SessionId -> Fates] /\ FatesFit'
          /\ \A d \in SessionId : fate[d] = "unclear" => fate'[d] = "unclear"
          /\ \A d \in SessionId : fate'[d] # "unclear" => fate'[d] = fate[d] /\ d \notin {own}
      <4>1. UNCHANGED <<dock, sessions, draftOf>>
        BY <1>1
      <4>2. \A g \in SaveSlot : Busy(g)' => Busy(g) /\ saving'[g].draft = saving[g].draft
        BY <1>6
      <4> HIDE DEF own
      <4> QED  BY <2>1, <3>1, <4>1, <4>2, Blur
    <3> QED  BY <1>2, <3>2
  <2>2. CASE localDrafts' = WithoutRow(row) /\ UNCHANGED fate
    <3>1. localDrafts'[row] = Erased
      BY <1>2, <2>2 DEF DraftInv, DraftTypes, RowTypes, WithoutRow
    <3>2. FatesFit'
      BY <1>1, <1>6, <2>2 DEF DraftInv, FatesFit
    <3> QED  BY <2>2, <3>1, <3>2 DEF DraftInv, DraftTypes, RowTypes
  <2> QED  BY <1>1, <2>1, <2>2
<1>10. SaverTypes' /\ TurnTypes' /\ SavesFit' /\ TurnsFit' /\ OneSave' /\ RowsFit'
  <2>1. \A r \in RowId : draftOf[r] = 0 => localDrafts'[r] = Erased
    BY <1>8 DEF DraftInv, RowsFit
  <2> QED  BY <1>1, <1>9, <2>1, OverKept
<1>11. DockTypes' /\ RowTypes' /\ DockFits'
  BY <1>1, <1>8, <1>9 DEF DraftInv, DraftTypes, DockTypes, RowTypes, DockFits
<1>12. \A d \in SessionId : d # own => RowsOf(d)' = RowsOf(d)
  BY <1>1, <1>2, <1>8 DEF RowsOf
<1>13. OpenFits'
  <2>1. ASSUME NEW d \in SessionId, fate'[d] = "open"
        PROVE  /\ fate[d] = "open" /\ d # own /\ RowStands(d) /\ AsStored(d)
               /\ dock.row # row
    <3>1. fate[d] = "open" /\ d # own /\ dock.draft = d
      BY <1>3, <1>9, <2>1 DEF DraftInv, FatesFit
    <3>2. dock.row # row
      BY <1>2, <3>1 DEF DraftInv, DockFits
    <3> QED  BY <3>1, <3>2 DEF DraftInv, OpenFits
  <2>2. \A g \in SaveSlot : saving[g].step = "return" => saving'[g] = saving[g]
    BY <1>1, <1>4
  <2>3. dock.row \in RowId \cup {Unsaved}
    BY DEF DraftInv, DraftTypes, DockTypes, Session
  <2>4. ASSUME NEW d \in SessionId, fate'[d] = "open"
        PROVE  RowStands(d)' /\ AsStored(d)'
    BY <1>1, <1>7, <1>8, <1>12, <2>1, <2>2, <2>3, <2>4 DEF RowStands, AsStored
  <2>5. ASSUME NEW d \in SessionId, fate'[d] = "open", NEW g \in SaveSlot, Busy(g)',
               saving'[g].draft = d
        PROVE  SaveOfOpen(g)'
    <3>1. /\ Busy(g) /\ saving'[g] = saving[g] /\ saving[g].draft = d
          /\ fate[d] = "open" /\ d # own
      BY <1>6, <2>1, <2>5
    <3>2. SaveOfOpen(g)
      BY <3>1 DEF DraftInv, OpenFits
    <3>3. saving[g].step = "return" => saving[g].row \in RowId /\ saving[g].row # Unsaved
      BY DraftAssumption DEF DraftInv, DraftTypes, SaverTypes, RowId, Unsaved
    <3>4. saving[g].step = "return" => saving[g].row # row
      BY <1>2, <3>1, <3>3 DEF DraftInv, SavesFit
    <3> QED  BY <1>1, <1>8, <3>1, <3>2, <3>3, <3>4 DEF SaveOfOpen
  <2> QED  BY <2>4, <2>5 DEF OpenFits
<1>14. DueFits'
  BY <1>3, <1>4, <1>9 DEF DueFits
<1>15. LeftFits'
  <2>1. ASSUME NEW d \in SessionId, fate'[d] = "left"
        PROVE  /\ ~IsBeingSaved(d)'
               /\ \E r \in RowId : /\ RowsOf(d)' = {r} /\ r \notin deletes
                                   /\ localDrafts'[r] = kept[d]
    <3>1. fate[d] = "left" /\ d # own
      BY <1>3, <1>9, <2>1
    <3>2. PICK r \in RowId : RowsOf(d) = {r} /\ r \notin deletes /\ localDrafts[r] = kept[d]
      BY <3>1 DEF DraftInv, LeftFits
    <3>3. r # row
      BY <1>2, <3>1, <3>2 DEF RowsOf
    <3> QED  BY <1>7, <1>8, <1>12, <3>1, <3>2, <3>3 DEF DraftInv, LeftFits
  <2> QED  BY <1>1, <2>1 DEF LeftFits
<1>16. EndedFits'
  <2>1. ASSUME NEW d \in SessionId, fate'[d] = "ended", NEW r \in RowsOf(d)'
        PROVE  r \in deletes \/ \E g \in SaveSlot : /\ saving'[g].step \in {"return", "undo"}
                                                    /\ saving'[g].row = r
    <3>1. r \in RowId /\ draftOf[r] = d /\ localDrafts'[r] # Erased
      BY <1>1 DEF RowsOf
    <3>2. r # row
      BY <1>2, <1>9, <2>1, <3>1
    <3>3. r \in RowsOf(d) /\ fate[d] = "ended"
      BY <1>8, <1>9, <2>1, <3>1, <3>2 DEF RowsOf
    <3> QED  BY <1>4, <3>2, <3>3 DEF DraftInv, EndedFits
  <2> QED  BY <1>1, <2>1 DEF EndedFits
<1> QED
  BY <1>9, <1>10, <1>11, <1>13, <1>14, <1>15, <1>16 DEF DraftInv, DraftTypes

LEMMA RowIsDeletedStep ==
    ASSUME DraftInv, NEW row \in RowId, RowIsDeleted(row)
    PROVE  DraftInv'
<1>1. /\ Calm /\ row \in deletes /\ deletes' = deletes \ {row}
      /\ UNCHANGED <<attached, dock, armed, saving, turns, clicked, posting, draftOf,
                     kept, sessions>>
      /\ edits' = edits
      /\ \/ localDrafts' = [localDrafts EXCEPT ![row] = Erased] /\ UNCHANGED fate
         \/ fate' = Blurred({draftOf[row]}) /\ UNCHANGED localDrafts
  BY DEF RowIsDeleted, SaverOnly, NoFault, Fault, daBounds
<1>2. PICK own \in SessionId : own = draftOf[row] /\ own \in 1..sessions
  BY <1>1, DraftAssumption DEF DraftInv, DraftTypes, RowTypes, TurnTypes, RowsFit
<1>3. /\ \A q \in RowId : q # row => localDrafts'[q] = localDrafts[q]
      /\ localDrafts'[row] \in {Erased, localDrafts[row]}
      /\ localDrafts' \in [RowId -> Text]
  <2>1. Erased \in Text /\ localDrafts \in [RowId -> Text]
    BY DraftAssumption DEF DraftInv, DraftTypes, RowTypes, Text, Erased
  <2> QED  BY <1>1, <2>1
<1>4. /\ fate' \in [SessionId -> Fates] /\ FatesFit'
      /\ \A d \in SessionId : fate[d] = "unclear" => fate'[d] = "unclear"
      /\ \A d \in SessionId : fate'[d] # "unclear" => fate'[d] = fate[d]
      /\ fate'[own] # "unclear" => localDrafts'[row] = Erased
  <2>1. CASE fate' = Blurred({draftOf[row]})
    <3>1. {own} \in SUBSET SessionId /\ \A d \in {own} : d <= sessions
      BY <1>2 DEF DraftInv, DraftTypes, TurnTypes
    <3>2. \A g \in SaveSlot : Busy(g)' => Busy(g) /\ saving'[g].draft = saving[g].draft
      BY <1>1 DEF Busy
    <3> QED  BY <1>1, <1>2, <2>1, <3>1, <3>2, Blur
  <2>2. CASE localDrafts' = [localDrafts EXCEPT ![row] = Erased] /\ UNCHANGED fate
    <3>1. localDrafts'[row] = Erased
      BY <2>2 DEF DraftInv, DraftTypes, RowTypes
    <3>2. FatesFit'
      BY <1>1, <2>2 DEF DraftInv, FatesFit, Busy
    <3> QED  BY <2>2, <3>1, <3>2 DEF DraftInv, DraftTypes, RowTypes
  <2> QED  BY <1>1, <2>1, <2>2
<1>5. DraftTypes'
  <2>1. DockTypes' /\ SaverTypes' /\ TurnTypes'
    BY <1>1 DEF DraftInv, DraftTypes, DockTypes, SaverTypes, TurnTypes
  <2>2. RowTypes'
    BY <1>1, <1>3, <1>4 DEF DraftInv, DraftTypes, RowTypes
  <2> QED  BY <2>1, <2>2 DEF DraftTypes
<1>6. SavesFit' /\ TurnsFit' /\ DockFits'
  BY <1>1 DEF DraftInv, SavesFit, TurnsFit, DockFits, Busy
<1>7. RowsFit'
  BY <1>1, <1>3 DEF DraftInv, RowsFit
<1>8. OneSave'
  <2>1. \A g \in SaveSlot : Busy(g) => saving[g].draft \in SessionId
    BY DraftAssumption DEF DraftInv, DraftTypes, TurnTypes, SavesFit, SessionId
  <2> QED  BY <1>1, <1>4, <2>1 DEF DraftInv, OneSave, Busy
<1>9. \A d \in SessionId : IsBeingSaved(d)' <=> IsBeingSaved(d)
  BY <1>1 DEF IsBeingSaved
<1>10. \A d \in SessionId : d # own => RowsOf(d)' = RowsOf(d)
  BY <1>1, <1>2, <1>3 DEF RowsOf
<1>11. \A d \in SessionId : RowsOf(d)' \subseteq RowsOf(d)
  BY <1>1, <1>3 DEF RowsOf
<1>12. OpenFits'
  <2>1. ASSUME NEW d \in SessionId, fate'[d] = "open"
        PROVE  fate[d] = "open" /\ RowStands(d) /\ AsStored(d)
    BY <1>4, <2>1 DEF DraftInv, OpenFits
  <2>2. dock.row \in RowId \cup {Unsaved}
    BY DEF DraftInv, DraftTypes, DockTypes, Session
  <2>3. ASSUME NEW d \in SessionId, fate'[d] = "open"
        PROVE  RowStands(d)' /\ AsStored(d)'
    BY <1>1, <1>3, <1>9, <1>11, <2>1, <2>2, <2>3 DEF RowStands, AsStored
  <2>4. ASSUME NEW d \in SessionId, fate'[d] = "open", NEW g \in SaveSlot, Busy(g)',
               saving'[g].draft = d
        PROVE  SaveOfOpen(g)'
    <3>1. SaveOfOpen(g)
      BY <1>1, <2>1, <2>4 DEF DraftInv, OpenFits, Busy
    <3>2. saving[g].step = "return" => saving[g].row \in RowId
      BY DEF DraftInv, DraftTypes, SaverTypes
    <3> QED  BY <1>1, <1>3, <3>1, <3>2 DEF SaveOfOpen
  <2> QED  BY <2>3, <2>4 DEF OpenFits
<1>13. DueFits'
  BY <1>1 DEF DueFits, Calm
<1>14. LeftFits'
  <2>1. ASSUME NEW d \in SessionId, fate'[d] = "left"
        PROVE  /\ ~IsBeingSaved(d)'
               /\ \E r \in RowId : /\ RowsOf(d)' = {r} /\ r \notin deletes'
                                   /\ localDrafts'[r] = kept'[d]
    <3>1. fate[d] = "left"
      BY <1>4, <2>1
    <3>2. PICK r \in RowId : RowsOf(d) = {r} /\ r \notin deletes /\ localDrafts[r] = kept[d]
      BY <3>1 DEF DraftInv, LeftFits
    <3>3. r # row /\ draftOf[r] = d
      BY <1>1, <3>2 DEF RowsOf
    <3>4. RowsOf(d)' = {r}
      BY <1>1, <1>3, <3>2, <3>3 DEF RowsOf
    <3> QED  BY <1>1, <1>3, <1>9, <3>1, <3>2, <3>3, <3>4 DEF DraftInv, LeftFits
  <2> QED  BY <2>1 DEF LeftFits
<1>15. EndedFits'
  <2>1. ASSUME NEW d \in SessionId, fate'[d] = "ended", NEW r \in RowsOf(d)'
        PROVE  r \in deletes' \/ \E g \in SaveSlot : /\ saving'[g].step \in {"return", "undo"}
                                                     /\ saving'[g].row = r
    <3>1. r \in RowId /\ draftOf[r] = d /\ localDrafts'[r] # Erased
      BY <1>1 DEF RowsOf
    <3>2. r # row
      BY <1>2, <1>4, <2>1, <3>1
    <3>3. r \in RowsOf(d) /\ fate[d] = "ended"
      BY <1>4, <1>11, <2>1
    <3> QED  BY <1>1, <3>2, <3>3 DEF DraftInv, EndedFits
  <2> QED  BY <2>1 DEF EndedFits
<1> QED
  BY <1>4, <1>5, <1>6, <1>7, <1>8, <1>12, <1>13, <1>14, <1>15 DEF DraftInv

-----------------------------------------------------------------------------
(* The steps of the user in the dock, and the saves they begin.            *)

LEMMA TypeStep ==
    ASSUME DraftInv, Type
    PROVE  DraftInv'
<1>1. /\ Calm /\ dock # NoSession /\ edits < MaxEdits /\ edits' = edits + 1
      /\ dock' = [dock EXCEPT !.text = edits + 1, !.pristine = FALSE] /\ armed' = TRUE
      /\ UNCHANGED <<attached, saving, turns, clicked, posting, deletes, localDrafts,
                     draftOf, fate, kept, sessions>>
  BY DEF Type
<1>2. edits \in 1..MaxEdits /\ edits' \in 1..MaxEdits /\ edits + 1 \in Text /\ edits + 1 # Untyped
  BY <1>1, DraftAssumption DEF DraftInv, DraftTypes, TurnTypes, Text, Untyped
<1>3. /\ dock \in Session /\ dock' \in Session
      /\ dock'.row = dock.row /\ dock'.draft = dock.draft /\ dock'.token = dock.token
      /\ dock'.text = edits + 1 /\ dock'.pristine = FALSE
  <2>1. dock \in Session
    BY DEF DraftInv, DraftTypes, DockTypes
  <2>2. dock' = [draft |-> dock.draft, token |-> dock.token, row |-> dock.row,
                 text |-> edits + 1, pristine |-> FALSE]
    BY <1>1, <2>1 DEF Session
  <2> QED  BY <1>2, <2>1, <2>2 DEF Session
<1>4. dock' # NoSession
  BY <1>3, NoSessionFields
<1>5. DraftTypes'
  <2>1. SaverTypes' /\ RowTypes' /\ TurnTypes'
    BY <1>1, <1>2 DEF DraftInv, DraftTypes, RowTypes, SaverTypes, TurnTypes
  <2>2. DockTypes'
    BY <1>1, <1>3 DEF DraftInv, DraftTypes, DockTypes
  <2> QED  BY <2>1, <2>2 DEF DraftTypes
<1>6. SavesFit' /\ TurnsFit' /\ RowsFit' /\ OneSave' /\ LeftFits' /\ EndedFits'
  BY <1>1, <1>3 DEF DraftInv, SavesFit, TurnsFit, RowsFit, OneSave, LeftFits, EndedFits,
                    Busy, RowsOf, IsBeingSaved
<1>7. DockFits'
  BY <1>1, <1>2, <1>3 DEF DraftInv, DockFits
<1>8. FatesFit'
  BY <1>1, <1>3 DEF DraftInv, FatesFit, Busy
<1>9. OpenFits'
  <2>1. \A d \in SessionId : RowStands(d) => RowStands(d)'
    BY <1>1, <1>3 DEF RowStands, RowsOf
  <2>2. \A d \in SessionId : AsStored(d)'
    BY <1>3 DEF AsStored
  <2>3. \A g \in SaveSlot : SaveOfOpen(g) => SaveOfOpen(g)'
    BY <1>1, <1>3 DEF SaveOfOpen
  <2> QED  BY <1>1, <2>1, <2>2, <2>3 DEF DraftInv, OpenFits, Busy
<1>10. DueFits'
  BY <1>1 DEF DueFits, Calm
<1> QED
  BY <1>5, <1>6, <1>7, <1>8, <1>9, <1>10 DEF DraftInv

(* A save of the dock's draft begins; a second one at once blurs it.       *)
LEMMA SaveBegins ==
    ASSUME DraftInv, NEW f \in SaveSlot, SaveNow(f), ~dock.pristine,
           UNCHANGED <<attached, dock, deletes, localDrafts, draftOf, kept>>
    PROVE  /\ ~Busy(f) /\ Busy(f)'
           /\ saving'[f].draft = dock.draft /\ saving'[f].text = dock.text
           /\ \A g \in SaveSlot : g # f => saving'[g] = saving[g]
           /\ UNCHANGED <<sessions, edits>>
           /\ RowTypes' /\ SaverTypes' /\ SavesFit' /\ DockFits' /\ FatesFit' /\ OneSave'
           /\ OpenFits' /\ LeftFits' /\ EndedFits'
<1> DEFINE new == [step  |-> IF dock.row = Unsaved THEN "create" ELSE "look",
                   draft |-> dock.draft, token |-> dock.token,
                   row   |-> dock.row, text |-> dock.text]
           blurred == IF IsBeingSaved(dock.draft) THEN {dock.draft} ELSE {}
<1>1. /\ saving[f] = NoSave /\ saving' = [saving EXCEPT ![f] = new]
      /\ fate' = Blurred(blurred) /\ UNCHANGED <<sessions, edits>>
  BY DEF SaveNow
<1>2. /\ dock \in Session /\ dock # NoSession /\ dock.text # Untyped
      /\ dock.draft \in 1..sessions /\ dock.token \in 1..sessions
      /\ dock.draft \in SessionId /\ dock.token \in SessionId
  <2>1. dock \in Session /\ dock # NoSession
    BY NoSessionFields DEF DraftInv, DraftTypes, DockTypes
  <2> QED
    BY <2>1, DraftAssumption DEF DraftInv, DockFits, DraftTypes, TurnTypes, SessionId
<1>3. new \in Save /\ new.step # "none"
  BY <1>2 DEF Session, Save, Steps
<1>4. /\ saving' \in [SaveSlot -> Save] /\ saving'[f] = new
      /\ \A g \in SaveSlot : g # f => saving'[g] = saving[g]
  BY <1>1, <1>3 DEF DraftInv, DraftTypes, SaverTypes
<1>5. ~Busy(f) /\ Busy(f)'
  BY <1>1, <1>3, <1>4, NoSaveFields DEF Busy
<1>6. \A g \in SaveSlot : g # f => (Busy(g)' <=> Busy(g))
  BY <1>4 DEF Busy
<1>7. /\ fate' \in [SessionId -> Fates] /\ FatesFit'
      /\ \A d \in SessionId : fate[d] = "unclear" => fate'[d] = "unclear"
      /\ \A d \in SessionId : fate'[d] # "unclear" => fate'[d] = fate[d] /\ d \notin blurred
  <2>1. blurred \in SUBSET SessionId /\ \A d \in blurred : d <= sessions
    BY <1>2 DEF DraftInv, DraftTypes, TurnTypes
  <2>2. UNCHANGED <<dock, sessions, draftOf>>
    BY <1>1
  <2>3. \A g \in SaveSlot : Busy(g)' => \/ Busy(g) /\ saving'[g].draft = saving[g].draft
                                        \/ saving'[g].draft = dock.draft /\ dock # NoSession
    BY <1>2, <1>4, <1>6
  <2> HIDE DEF blurred
  <2> QED  BY <1>1, <2>1, <2>2, <2>3, Blur
<1>8. \A d \in SessionId : fate[d] \in {"left", "ended"} => d # dock.draft
  BY <1>2 DEF DraftInv, FatesFit
<1>9. RowTypes' /\ DockFits'
  BY <1>1, <1>7 DEF DraftInv, DraftTypes, RowTypes, DockFits
<1>10. SaverTypes'
  <2>1. new.step \in {"look", "update", "return", "undo"} => new.row \in RowId
    BY <1>2 DEF Session
  <2> QED  BY <1>4, <2>1 DEF DraftInv, DraftTypes, SaverTypes
<1>11. SavesFit'
  <2>1. ASSUME NEW g \in SaveSlot, ~Busy(g)'
        PROVE  saving'[g] = NoSave
    BY <1>4, <1>5, <1>6, <2>1 DEF DraftInv, SavesFit
  <2>2. ASSUME NEW g \in SaveSlot, Busy(g)'
        PROVE  /\ saving'[g].draft \in 1..sessions /\ saving'[g].token \in 1..sessions
               /\ saving'[g].text # Untyped
               /\ saving'[g].row # Unsaved => draftOf[saving'[g].row] = saving'[g].draft
               /\ attached => saving'[g].token = saving'[g].draft
               /\ saving'[g].token = dock.token => saving'[g].draft = dock.draft
    <3>1. CASE g = f
      BY <1>2, <1>4, <3>1 DEF DraftInv, DockFits
    <3>2. CASE g # f
      BY <1>4, <1>6, <2>2, <3>2 DEF DraftInv, SavesFit
    <3> QED  BY <3>1, <3>2
  <2> QED  BY <1>1, <2>1, <2>2 DEF SavesFit
<1>12. ~IsBeingSaved(dock.draft) =>
          \A g \in SaveSlot : Busy(g)' /\ saving'[g].draft = dock.draft => g = f
  BY <1>4, <1>6 DEF IsBeingSaved, Busy
<1>13. fate'[dock.draft] # "unclear" => ~IsBeingSaved(dock.draft)
  BY <1>2, <1>7
<1>14. OneSave'
  <2>1. ASSUME NEW g \in SaveSlot, NEW h \in SaveSlot, Busy(g)', Busy(h)',
               saving'[g].draft = saving'[h].draft, g # h
        PROVE  fate'[saving'[g].draft] = "unclear"
    <3>1. CASE saving'[g].draft = dock.draft
      BY <1>12, <1>13, <2>1, <3>1
    <3>2. CASE saving'[g].draft # dock.draft
      <4>1. g # f /\ h # f
        BY <1>4, <2>1, <3>2
      <4>2. saving[g].draft \in SessionId
        BY <1>6, <2>1, <4>1, DraftAssumption
        DEF DraftInv, DraftTypes, TurnTypes, SavesFit, SessionId
      <4> QED  BY <1>4, <1>6, <1>7, <2>1, <4>1, <4>2 DEF DraftInv, OneSave
    <3> QED  BY <3>1, <3>2
  <2> QED  BY <2>1 DEF OneSave
<1>15. \A d \in SessionId : RowsOf(d)' = RowsOf(d)
  BY DEF RowsOf
<1>16. \A g \in SaveSlot : saving[g].step \in {"return", "undo"} => saving'[g] = saving[g]
  BY <1>1, <1>4, NoSaveFields
<1>17. OpenFits'
  <2>1. ASSUME NEW d \in SessionId, fate'[d] = "open"
        PROVE  fate[d] = "open" /\ d = dock.draft /\ RowStands(d)
    BY <1>7, <2>1 DEF DraftInv, FatesFit, OpenFits
  <2>2. ASSUME NEW d \in SessionId, fate'[d] = "open"
        PROVE  RowStands(d)' /\ AsStored(d)'
    BY <1>15, <1>16, <2>1, <2>2 DEF RowStands, AsStored
  <2>3. ASSUME NEW d \in SessionId, fate'[d] = "open", NEW g \in SaveSlot, Busy(g)',
               saving'[g].draft = d
        PROVE  SaveOfOpen(g)'
    <3>1. g = f
      BY <1>12, <1>13, <2>1, <2>3
    <3> QED  BY <1>4, <3>1 DEF SaveOfOpen
  <2> QED  BY <2>2, <2>3 DEF OpenFits
<1>18. LeftFits'
  <2>1. ASSUME NEW d \in SessionId, fate'[d] = "left"
        PROVE  fate[d] = "left" /\ ~IsBeingSaved(d)'
    <3>1. fate[d] = "left" /\ d # dock.draft
      BY <1>7, <1>8, <2>1
    <3>2. ~IsBeingSaved(d)
      BY <3>1 DEF DraftInv, LeftFits
    <3> QED  BY <1>4, <1>6, <3>1, <3>2 DEF IsBeingSaved, Busy
  <2> QED  BY <1>15, <2>1 DEF DraftInv, LeftFits
<1>19. EndedFits'
  BY <1>7, <1>15, <1>16 DEF DraftInv, EndedFits
<1> QED
  BY <1>1, <1>4, <1>5, <1>7, <1>9, <1>10, <1>11, <1>14, <1>17, <1>18, <1>19

LEMMA TimerFiresStep ==
    ASSUME DraftInv, TimerFires
    PROVE  DraftInv'
<1>1. /\ Calm /\ armed' = FALSE
      /\ UNCHANGED <<attached, dock, turns, clicked, posting, deletes, localDrafts,
                     draftOf, kept>>
  BY DEF TimerFires
<1>2. CASE NoSaveBegins
  <2>1. UNCHANGED <<saving, fate, sessions, edits>>
    BY <1>2 DEF NoSaveBegins, daBounds
  <2>2. DraftTypes'
    BY <1>1, <2>1 DEF DraftInv, DraftTypes, DockTypes, RowTypes, SaverTypes, TurnTypes
  <2>3. /\ SavesFit' /\ DockFits' /\ RowsFit' /\ TurnsFit' /\ FatesFit' /\ OneSave'
        /\ DueFits' /\ LeftFits' /\ EndedFits'
    BY <1>1, <2>1 DEF DraftInv, SavesFit, DockFits, RowsFit, TurnsFit, FatesFit, OneSave,
                      DueFits, LeftFits, EndedFits, Busy, RowsOf, IsBeingSaved
  <2>4. OpenFits'
    BY <1>1, <2>1 DEF DraftInv, OpenFits, RowStands, AsStored, SaveOfOpen, Busy, RowsOf,
                      IsBeingSaved
  <2> QED  BY <2>2, <2>3, <2>4 DEF DraftInv
<1>3. ASSUME ShouldSave(dock), NEW f \in SaveSlot, SaveNow(f)
      PROVE  DraftInv'
  <2>1. /\ ~Busy(f) /\ \A g \in SaveSlot : g # f => saving'[g] = saving[g]
        /\ UNCHANGED <<sessions, edits>>
        /\ RowTypes' /\ SaverTypes' /\ SavesFit' /\ DockFits' /\ FatesFit' /\ OneSave'
        /\ OpenFits' /\ LeftFits' /\ EndedFits'
    BY <1>1, <1>3, SaveBegins DEF ShouldSave
  <2>2. DockTypes' /\ TurnTypes' /\ RowsFit'
    BY <1>1, <2>1 DEF DraftInv, DraftTypes, DockTypes, TurnTypes, RowsFit
  <2>3. TurnsFit'
    <3>1. ASSUME NEW t \in turns, t.waits # 0
          PROVE  t.waits \in SaveSlot /\ t.waits # f /\ Busy(t.waits)
      BY <2>1, <3>1 DEF DraftInv, DraftTypes, TurnTypes, Turn, TurnsFit
    <3> QED  BY <1>1, <2>1, <3>1 DEF DraftInv, TurnsFit, Busy
  <2>4. DueFits'
    BY <1>1 DEF DueFits, Calm
  <2> QED  BY <2>1, <2>2, <2>3, <2>4 DEF DraftInv, DraftTypes
<1> QED  BY <1>2, <1>3 DEF TimerFires

(* The turns that were under way when another begins.                      *)
SameTurn(e, t) == e.waits = t.waits /\ e.draft = t.draft /\ e.wrote = t.wrote
                  /\ e.row = t.row /\ e.text = t.text
EarlierTurns(earlier) ==
    /\ earlier \subseteq Turn /\ IsFiniteSet(earlier)
    /\ Cardinality(earlier) <= Cardinality(turns)
    /\ \A e \in earlier : \E t \in turns : SameTurn(e, t)
    /\ \A e1, e2 \in earlier : e1.waits = e2.waits => e1 = e2

LEMMA TurnAdded ==
    ASSUME DraftInv, Calm, NEW earlier, EarlierTurns(earlier), NEW new \in Turn,
           new.row # Unsaved => draftOf[new.row] # 0 /\ new.text # Erased,
           turns' = earlier \cup {new},
           new.waits # 0 =>
              /\ ~Busy(new.waits) /\ Busy(new.waits)'
              /\ saving'[new.waits].draft = new.draft /\ saving'[new.waits].text = new.wrote,
           \A g \in SaveSlot : g # new.waits => saving'[g] = saving[g],
           sessions + Cardinality(turns) < MaxSessions,
           UNCHANGED <<sessions, edits, deletes, localDrafts, draftOf>>,
           clicked' = clicked \/ clicked'.row = Unsaved
    PROVE  TurnTypes' /\ TurnsFit' /\ RowsFit'
<1>1. TurnTypes'
  <2>1. IsFiniteSet(turns') /\ Cardinality(turns') <= Cardinality(earlier) + 1
    <3>1. IsFiniteSet(earlier)
      BY DEF EarlierTurns
    <3>2. IsFiniteSet(earlier \cup {new})
          /\ Cardinality(earlier \cup {new})
               = IF new \in earlier THEN Cardinality(earlier) ELSE Cardinality(earlier) + 1
      BY <3>1, FS_AddElement
    <3>3. Cardinality(earlier) \in Nat
      BY <3>1, FS_CardinalityType
    <3> QED  BY <3>2, <3>3
  <2>2. Cardinality(earlier) \in Nat /\ Cardinality(turns) \in Nat /\ Cardinality(turns') \in Nat
    BY <2>1, FS_CardinalityType DEF EarlierTurns, DraftInv, DraftTypes, TurnTypes
  <2>3. sessions \in Nat /\ MaxSessions \in Nat /\ Cardinality(earlier) <= Cardinality(turns)
    BY DraftAssumption DEF EarlierTurns, DraftInv, DraftTypes, TurnTypes
  <2>4. sessions' + Cardinality(turns') <= MaxSessions
    BY <2>1, <2>2, <2>3
  <2> QED  BY <2>1, <2>4 DEF EarlierTurns, DraftInv, DraftTypes, TurnTypes
<1>2. ASSUME NEW e \in earlier
      PROVE  /\ e.waits # 0 /\ e.waits # new.waits /\ e.waits \in SaveSlot
             /\ saving'[e.waits] = saving[e.waits] /\ Busy(e.waits)
             /\ saving[e.waits].draft = e.draft /\ saving[e.waits].text = e.wrote
  <2>1. PICK t \in turns : SameTurn(e, t)
    BY DEF EarlierTurns
  <2>2. t.waits # 0 /\ t.waits \in SaveSlot
    BY DEF Calm, DraftInv, DraftTypes, TurnTypes, Turn
  <2>3. Busy(t.waits) /\ saving[t.waits].draft = t.draft /\ saving[t.waits].text = t.wrote
    BY <2>2 DEF DraftInv, TurnsFit
  <2>4. t.waits # new.waits
    BY <2>2, <2>3
  <2> QED  BY <2>1, <2>2, <2>3, <2>4 DEF SameTurn
<1>3. TurnsFit'
  <2>1. ASSUME NEW t1 \in turns', NEW t2 \in turns', t1.waits = t2.waits
        PROVE  t1 = t2
    BY <1>2, <2>1 DEF EarlierTurns
  <2>2. ASSUME NEW t \in turns', t.waits # 0
        PROVE  /\ Busy(t.waits)' /\ saving'[t.waits].draft = t.draft
               /\ saving'[t.waits].text = t.wrote
    BY <1>2, <2>2 DEF Busy
  <2> QED  BY <2>1, <2>2 DEF TurnsFit
<1>4. RowsFit'
  <2>1. \A t \in turns' : t.row # Unsaved => draftOf[t.row] # 0 /\ t.text # Erased
    BY DEF EarlierTurns, SameTurn, DraftInv, RowsFit
  <2> QED  BY <2>1 DEF DraftInv, RowsFit
<1> QED  BY <1>1, <1>3, <1>4

LEMMA TurnBegins ==
    ASSUME DraftInv, Calm, NEW earlier, EarlierTurns(earlier),
           NEW r \in RowId \cup {Unsaved}, NEW text \in Text,
           r # Unsaved => draftOf[r] # 0 /\ text # Erased,
           TurnTo(r, text, earlier), clicked' \in {clicked, NoClick}
    PROVE  DraftInv'
<1> DEFINE turn(f) == [waits |-> f, row |-> r, text |-> text, stale |-> FALSE,
                       draft |-> dock.draft, wrote |-> dock.text, ok |-> TRUE]
<1>1. /\ sessions + Cardinality(turns) < MaxSessions
      /\ UNCHANGED <<attached, dock, posting, deletes, localDrafts, draftOf, kept>>
      /\ \/ /\ ~dock.pristine /\ armed' = FALSE
            /\ \E f \in SaveSlot : SaveNow(f) /\ turns' = earlier \cup {turn(f)}
         \/ /\ dock.pristine /\ turns' = earlier \cup {turn(0)} /\ NoSaveBegins
            /\ armed' = armed
  BY DEF TurnTo, FlushedFirst
<1>2. /\ clicked' \in RowClick /\ (clicked' = clicked \/ clicked'.row = Unsaved)
      /\ clicked \in RowClick
  BY DraftAssumption DEF NoClick, RowClick, DraftInv, DraftTypes, DockTypes, Text, Unsaved, Untyped
<1>3. dock \in Session
  BY DEF DraftInv, DraftTypes, DockTypes
<1>4. ASSUME NEW f \in SaveSlot \cup {0}
      PROVE  turn(f) \in Turn
  BY <1>3, <1>4 DEF Turn, Session
<1>5. CASE dock.pristine /\ turns' = earlier \cup {turn(0)} /\ NoSaveBegins /\ armed' = armed
  <2>1. UNCHANGED <<saving, fate, sessions, edits>>
    BY <1>5 DEF NoSaveBegins, daBounds
  <2>2. TurnTypes' /\ TurnsFit' /\ RowsFit'
    <3>1. PICK new \in Turn : new = turn(0)
      BY <1>4
    <3>2. new.waits = 0 /\ new.row = r /\ new.text = text
      BY <3>1
    <3>3. \A g \in SaveSlot : g # new.waits => saving'[g] = saving[g]
      BY <2>1
    <3>4. turns' = earlier \cup {new}
      BY <1>5, <3>1
    <3> HIDE DEF turn
    <3> QED  BY <1>1, <1>2, <2>1, <3>2, <3>3, <3>4, TurnAdded
  <2>3. DockTypes' /\ RowTypes' /\ SaverTypes'
    BY <1>1, <1>2, <1>5, <2>1 DEF DraftInv, DraftTypes, DockTypes, RowTypes, SaverTypes
  <2>4. SavesFit' /\ DockFits' /\ FatesFit' /\ OneSave' /\ LeftFits' /\ EndedFits'
    BY <1>1, <2>1 DEF DraftInv, SavesFit, DockFits, FatesFit, OneSave, LeftFits, EndedFits,
                      Busy, RowsOf, IsBeingSaved
  <2>5. OpenFits'
    BY <1>1, <2>1 DEF DraftInv, OpenFits, RowStands, AsStored, SaveOfOpen, Busy, RowsOf,
                      IsBeingSaved
  <2>6. DueFits'
    BY <1>1, <1>5 DEF DueFits
  <2> QED  BY <2>2, <2>3, <2>4, <2>5, <2>6 DEF DraftInv, DraftTypes
<1>6. ASSUME ~dock.pristine, armed' = FALSE, NEW f \in SaveSlot, SaveNow(f),
             turns' = earlier \cup {turn(f)}
      PROVE  DraftInv'
  <2>1. /\ ~Busy(f) /\ Busy(f)'
        /\ saving'[f].draft = dock.draft /\ saving'[f].text = dock.text
        /\ \A g \in SaveSlot : g # f => saving'[g] = saving[g]
        /\ UNCHANGED <<sessions, edits>>
        /\ RowTypes' /\ SaverTypes' /\ SavesFit' /\ DockFits' /\ FatesFit' /\ OneSave'
        /\ OpenFits' /\ LeftFits' /\ EndedFits'
    BY <1>1, <1>6, SaveBegins
  <2>2. TurnTypes' /\ TurnsFit' /\ RowsFit'
    <3>1. PICK new \in Turn : new = turn(f)
      BY <1>4
    <3>2. /\ new.waits = f /\ new.row = r /\ new.text = text
          /\ new.draft = dock.draft /\ new.wrote = dock.text
      BY <3>1
    <3>3. turns' = earlier \cup {new}
      BY <1>6, <3>1
    <3> HIDE DEF turn
    <3> QED  BY <1>1, <1>2, <2>1, <3>2, <3>3, TurnAdded
  <2>3. DockTypes'
    BY <1>1, <1>2, <1>6, <2>1 DEF DraftInv, DraftTypes, DockTypes
  <2>4. DueFits'
    <3>1. ASSUME NEW u \in turns'
          PROVE  u.waits # 0
      <4>1. f # 0
        BY DraftAssumption DEF SaveSlot
      <4>2. CASE u \in earlier
        <5>1. PICK t \in turns : SameTurn(u, t)
          BY <4>2 DEF EarlierTurns
        <5> QED  BY <5>1 DEF SameTurn, Calm
      <4>3. CASE u = turn(f)
        BY <4>1, <4>3
      <4> QED  BY <1>6, <4>2, <4>3
    <3> QED  BY <3>1 DEF DueFits
  <2> QED  BY <2>1, <2>2, <2>3, <2>4 DEF DraftInv, DraftTypes
<1> QED  BY <1>1, <1>5, <1>6

LEMMA OpenReplyStep ==
    ASSUME DraftInv, OpenReply
    PROVE  DraftInv'
<1> DEFINE giveUp(t) == [t EXCEPT !.stale = (t.row = Unsaved)]
           earlier == {giveUp(t) : t \in turns}
<1>1. Calm /\ TurnTo(Unsaved, Untyped, earlier) /\ clicked' = clicked
  BY DEF OpenReply
<1>2. ASSUME NEW t \in turns
      PROVE  giveUp(t) \in Turn /\ SameTurn(giveUp(t), t)
  <2>1. t \in Turn
    BY DEF DraftInv, DraftTypes, TurnTypes
  <2>2. giveUp(t) = [waits |-> t.waits, row |-> t.row, text |-> t.text,
                     stale |-> (t.row = Unsaved), draft |-> t.draft, wrote |-> t.wrote,
                     ok |-> t.ok]
    BY <2>1 DEF Turn
  <2>3. (t.row = Unsaved) \in BOOLEAN
    OBVIOUS
  <2> QED  BY <2>1, <2>2, <2>3 DEF Turn, SameTurn
<1>3. EarlierTurns(earlier)
  <2>1. IsFiniteSet(earlier) /\ Cardinality(earlier) <= Cardinality(turns)
    <3> DEFINE give == [t \in turns |-> giveUp(t)]
    <3>1. give \in [turns -> earlier] /\ \A e \in earlier : \E t \in turns : give[t] = e
      <4> HIDE DEF giveUp
      <4> QED  OBVIOUS
    <3>2. give \in Surjection(turns, earlier)
      BY <3>1 DEF Surjection
    <3>3. IsFiniteSet(turns)
      BY DEF DraftInv, DraftTypes, TurnTypes
    <3> HIDE DEF give, earlier
    <3> QED  BY <3>2, <3>3, FS_Surjection
  <2>2. ASSUME NEW e1 \in earlier, NEW e2 \in earlier, e1.waits = e2.waits
        PROVE  e1 = e2
    <3>1. PICK t1 \in turns, t2 \in turns : e1 = giveUp(t1) /\ e2 = giveUp(t2)
      OBVIOUS
    <3>2. t1.waits = t2.waits
      BY <1>2, <2>2, <3>1 DEF SameTurn
    <3> QED  BY <3>1, <3>2 DEF DraftInv, TurnsFit
  <2> HIDE DEF giveUp
  <2> QED  BY <1>2, <2>1, <2>2 DEF EarlierTurns
<1>4. Unsaved \in RowId \cup {Unsaved} /\ Untyped \in Text
  BY DraftAssumption DEF Untyped, Text
<1> HIDE DEF earlier
<1> QED  BY <1>1, <1>3, <1>4, TurnBegins

LEMMA ResumeDraftStep ==
    ASSUME DraftInv, ResumeDraft
    PROVE  DraftInv'
<1>1. Calm /\ clicked # NoClick /\ clicked' = NoClick
  BY DEF ResumeDraft
<1>2. CASE UNCHANGED <<attached, dock, armed, saving, turns, posting, deletes,
                       localDrafts, draftOf, fate, kept, daBounds>>
  <2>1. UNCHANGED <<attached, dock, armed, saving, turns, posting, deletes, localDrafts,
                    draftOf, fate, kept, sessions, edits>>
    BY <1>2 DEF daBounds
  <2>2. clicked' \in RowClick /\ clicked'.row = Unsaved
    BY <1>1, DraftAssumption DEF NoClick, RowClick, Text, Unsaved, Untyped
  <2>3. DraftTypes'
    BY <2>1, <2>2 DEF DraftInv, DraftTypes, DockTypes, RowTypes, SaverTypes, TurnTypes
  <2>4. /\ SavesFit' /\ DockFits' /\ RowsFit' /\ TurnsFit' /\ FatesFit' /\ OneSave'
        /\ DueFits' /\ LeftFits' /\ EndedFits'
    BY <2>1, <2>2 DEF DraftInv, SavesFit, DockFits, RowsFit, TurnsFit, FatesFit, OneSave,
                      DueFits, LeftFits, EndedFits, Busy, RowsOf, IsBeingSaved
  <2>5. OpenFits'
    BY <2>1 DEF DraftInv, OpenFits, RowStands, AsStored, SaveOfOpen, Busy, RowsOf,
                IsBeingSaved
  <2> QED  BY <2>3, <2>4, <2>5 DEF DraftInv
<1>3. CASE TurnTo(clicked.row, clicked.text, turns)
  <2>1. /\ clicked.row \in RowId \cup {Unsaved} /\ clicked.text \in Text
        /\ clicked.row # Unsaved => draftOf[clicked.row] # 0 /\ clicked.text # Erased
    BY DEF DraftInv, DraftTypes, DockTypes, RowsFit, RowClick
  <2>2. EarlierTurns(turns)
    <3>1. Cardinality(turns) \in Nat
      BY FS_CardinalityType DEF DraftInv, DraftTypes, TurnTypes
    <3> QED  BY <3>1 DEF EarlierTurns, SameTurn, DraftInv, DraftTypes, TurnTypes, TurnsFit
  <2> QED  BY <1>1, <1>3, <2>1, <2>2, TurnBegins
<1> QED  BY <1>2, <1>3 DEF ResumeDraft

LEMMA ClickDraftStep ==
    ASSUME DraftInv, NEW r \in RowId, ClickDraft(r)
    PROVE  DraftInv'
<1>1. /\ localDrafts[r] # Erased /\ clicked' = [row |-> r, text |-> localDrafts[r]]
      /\ UNCHANGED <<attached, dock, armed, saving, turns, posting, deletes, localDrafts,
                     draftOf, fate, kept, sessions, edits>>
  BY DEF ClickDraft, daBounds
<1>2. /\ clicked' \in RowClick /\ clicked'.row = r /\ clicked'.text # Erased
      /\ draftOf[r] # 0
  BY <1>1 DEF RowClick, DraftInv, DraftTypes, RowTypes, RowsFit
<1>3. DraftTypes'
  BY <1>1, <1>2 DEF DraftInv, DraftTypes, DockTypes, RowTypes, SaverTypes, TurnTypes
<1>4. /\ SavesFit' /\ DockFits' /\ RowsFit' /\ TurnsFit' /\ FatesFit' /\ OneSave'
      /\ DueFits' /\ LeftFits' /\ EndedFits'
  BY <1>1, <1>2 DEF DraftInv, SavesFit, DockFits, RowsFit, TurnsFit, FatesFit, OneSave,
                    DueFits, LeftFits, EndedFits, Busy, RowsOf, IsBeingSaved
<1>5. OpenFits'
  BY <1>1 DEF DraftInv, OpenFits, RowStands, AsStored, SaveOfOpen, Busy, RowsOf,
              IsBeingSaved
<1> QED  BY <1>3, <1>4, <1>5 DEF DraftInv

-----------------------------------------------------------------------------
(* The session or a draft ends, and rows are to be deleted.                *)

LEMMA DraftsEnd ==
    ASSUME DraftInv, Calm, dock' \in {dock, NoSession}, NEW gone \in SUBSET RowId,
           deletes' = deletes \cup gone, \A r \in gone : draftOf[r] # 0,
           UNCHANGED <<attached, armed, saving, turns, clicked, localDrafts, draftOf,
                       kept, sessions, edits>>,
           posting' \in SessionId \cup {0}, posting' <= sessions, fate' \in [SessionId -> Fates],
           \A d \in SessionId :
              /\ fate'[d] = fate[d] \/ fate'[d] \in {"ended", "unclear"}
              /\ fate[d] = "unclear" => fate'[d] = "unclear"
              /\ d > sessions => fate'[d] = fate[d]
              /\ fate'[d] = "open" => dock' = dock
              /\ fate'[d] \in {"open", "left"} => \A r \in gone : draftOf[r] # d
              /\ (fate'[d] = "ended" /\ fate[d] # "ended") =>
                    \/ fate[d] = "open" /\ dock.row \in gone \cup {Unsaved}
                    \/ fate[d] = "left" /\ \E r \in gone : r \in RowsOf(d),
           (dock' = dock /\ dock # NoSession) => fate'[dock.draft] \in {"open", "unclear"}
    PROVE  DraftInv'
<1>1. DraftTypes'
  <2>1. dock' \in Session
    BY NoSessionFields DEF DraftInv, DraftTypes, DockTypes
  <2>2. DockTypes'
    BY <2>1 DEF DraftInv, DraftTypes, DockTypes
  <2>3. RowTypes' /\ SaverTypes' /\ TurnTypes'
    BY DEF DraftInv, DraftTypes, RowTypes, SaverTypes, TurnTypes
  <2> QED  BY <2>2, <2>3 DEF DraftTypes
<1>2. SavesFit'
  <2>1. ASSUME NEW g \in SaveSlot, Busy(g), saving[g].token = dock'.token
        PROVE  saving[g].draft = dock'.draft
    <3>1. saving[g].token # 0
      BY <2>1 DEF DraftInv, DraftTypes, TurnTypes, SavesFit
    <3> QED  BY <2>1, <3>1, NoSessionFields DEF DraftInv, SavesFit
  <2> QED  BY <2>1 DEF DraftInv, SavesFit, Busy
<1>3. DockFits'
  BY NoSessionFields DEF DraftInv, DockFits
<1>4. RowsFit' /\ TurnsFit'
  BY DEF DraftInv, RowsFit, TurnsFit, Busy
<1>5. \A g \in SaveSlot : Busy(g) => saving[g].draft \in SessionId
  BY DraftAssumption DEF DraftInv, DraftTypes, TurnTypes, SavesFit, SessionId
<1>6. FatesFit'
  <2>1. \A d \in SessionId : fate'[d] = "open" => dock'.draft = d
    BY DEF DraftInv, FatesFit
  <2>2. dock' # NoSession => fate'[dock'.draft] \in {"open", "unclear"}
    OBVIOUS
  <2>3. \A d \in SessionId : fate'[d] = "none" => fate[d] = "none"
    OBVIOUS
  <2>4. \A r \in RowId : draftOf[r] # 0 => draftOf[r] \in SessionId
    BY DEF DraftInv, DraftTypes, RowTypes
  <2> QED  BY <1>5, <2>1, <2>2, <2>3, <2>4 DEF DraftInv, FatesFit, Busy
<1>7. OneSave'
  BY <1>5 DEF DraftInv, OneSave, Busy
<1>8. \A d \in SessionId : RowsOf(d)' = RowsOf(d)
  BY DEF RowsOf
<1>9. \A d \in SessionId : IsBeingSaved(d)' <=> IsBeingSaved(d)
  BY DEF IsBeingSaved
<1>10. OpenFits'
  <2>1. ASSUME NEW d \in SessionId, fate'[d] = "open"
        PROVE  fate[d] = "open" /\ dock' = dock /\ RowStands(d) /\ AsStored(d) /\ dock.draft = d
    BY <2>1 DEF DraftInv, OpenFits, FatesFit
  <2>2. ASSUME NEW d \in SessionId, fate'[d] = "open"
        PROVE  RowStands(d)' /\ AsStored(d)'
    <3>1. dock.row # Unsaved => dock.row \notin gone
      BY <2>1, <2>2 DEF DraftInv, DockFits
    <3> QED  BY <1>8, <1>9, <2>1, <2>2, <3>1 DEF RowStands, AsStored
  <2>3. ASSUME NEW d \in SessionId, fate'[d] = "open", NEW g \in SaveSlot, Busy(g)',
               saving'[g].draft = d
        PROVE  SaveOfOpen(g)'
    <3>1. SaveOfOpen(g) /\ dock' = dock /\ Busy(g)
      BY <2>1, <2>3 DEF DraftInv, OpenFits, Busy
    <3>2. saving[g].step = "return" => saving[g].row \notin gone
      <4>1. saving[g].step = "return" => saving[g].row \in RowId /\ saving[g].row # Unsaved
        BY DraftAssumption DEF DraftInv, DraftTypes, SaverTypes, RowId, Unsaved
      <4> QED  BY <2>3, <3>1, <4>1 DEF DraftInv, SavesFit
    <3> QED  BY <3>1, <3>2 DEF SaveOfOpen
  <2> QED  BY <2>2, <2>3 DEF OpenFits
<1>11. DueFits'
  BY DEF DueFits, Calm
<1>12. LeftFits'
  <2>1. ASSUME NEW d \in SessionId, fate'[d] = "left"
        PROVE  /\ ~IsBeingSaved(d)'
               /\ \E r \in RowId : /\ RowsOf(d)' = {r} /\ r \notin deletes'
                                   /\ localDrafts'[r] = kept'[d]
    <3>1. fate[d] = "left"
      BY <2>1
    <3>2. PICK r \in RowId : RowsOf(d) = {r} /\ r \notin deletes /\ localDrafts[r] = kept[d]
      BY <3>1 DEF DraftInv, LeftFits
    <3>3. r \notin gone
      BY <2>1, <3>2 DEF RowsOf
    <3> QED  BY <1>8, <1>9, <3>1, <3>2, <3>3 DEF DraftInv, LeftFits
  <2> QED  BY <2>1 DEF LeftFits
<1>13. EndedFits'
  <2>1. ASSUME NEW d \in SessionId, fate'[d] = "ended", NEW r \in RowsOf(d)'
        PROVE  r \in deletes' \/ \E g \in SaveSlot : /\ saving'[g].step \in {"return", "undo"}
                                                     /\ saving'[g].row = r
    <3>1. r \in RowsOf(d)
      BY <1>8, <2>1
    <3>2. CASE fate[d] = "ended"
      BY <3>1, <3>2 DEF DraftInv, EndedFits
    <3>3. CASE fate[d] = "open" /\ dock.row \in gone \cup {Unsaved}
      <4>1. RowStands(d) /\ r \in RowId
        BY <3>1, <3>3 DEF DraftInv, OpenFits, RowsOf
      <4>2. r # Unsaved
        BY <4>1, DraftAssumption DEF RowId, Unsaved
      <4> QED  BY <3>1, <3>3, <4>1, <4>2 DEF RowStands
    <3>4. CASE fate[d] = "left" /\ \E q \in gone : q \in RowsOf(d)
      BY <3>1, <3>4 DEF DraftInv, LeftFits
    <3> QED  BY <2>1, <3>2, <3>3, <3>4
  <2> QED  BY <2>1 DEF EndedFits
<1> QED
  BY <1>1, <1>2, <1>3, <1>4, <1>6, <1>7, <1>10, <1>11, <1>12, <1>13 DEF DraftInv

(* What the fate of one draft becomes.                                     *)
LEMMA FatedIs ==
    ASSUME fate \in [SessionId -> Fates], NEW own \in SessionId, fate' = Fated(own, "ended")
    PROVE  /\ fate' \in [SessionId -> Fates]
           /\ \A d \in SessionId : d # own => fate'[d] = fate[d]
           /\ fate'[own] = IF fate[own] = "unclear" THEN "unclear" ELSE "ended"
  BY DEF Fated, Fates

LEMMA BlurredIs ==
    ASSUME fate \in [SessionId -> Fates], NEW drafts, fate' = Blurred(drafts)
    PROVE  /\ fate' \in [SessionId -> Fates]
           /\ \A d \in SessionId : fate'[d] = IF d \in drafts THEN "unclear" ELSE fate[d]
  BY DEF Blurred, Fates

(* The draft of the dock, and its row.                                     *)
LEMMA DockDraft ==
    ASSUME DraftInv
    PROVE  /\ fate \in [SessionId -> Fates]
           /\ dock # NoSession => /\ dock.draft \in SessionId /\ dock.draft \in 1..sessions
                                  /\ fate[dock.draft] \in {"open", "unclear"}
           /\ dock = NoSession => dock.row = Unsaved
           /\ dock.row \in RowId \cup {Unsaved} /\ Unsaved \notin RowId
           /\ dock.row # Unsaved => draftOf[dock.row] = dock.draft /\ dock # NoSession
           /\ \A d \in SessionId : fate[d] = "open" => d = dock.draft /\ dock # NoSession
           /\ 0 \notin SessionId /\ sessions \in Nat
<1>1. 0 \notin SessionId /\ sessions \in Nat /\ Unsaved \notin RowId
  BY DraftAssumption DEF DraftInv, DraftTypes, TurnTypes, SessionId, RowId, Unsaved
<1>2. dock \in Session /\ fate \in [SessionId -> Fates]
  BY DEF DraftInv, DraftTypes, DockTypes, RowTypes
<1>3. dock # NoSession => dock.draft \in SessionId /\ dock.draft \in 1..sessions
  BY DraftAssumption DEF DraftInv, DraftTypes, TurnTypes, DockFits, SessionId
<1> QED
  BY <1>1, <1>2, <1>3, NoSessionFields DEF Session, DraftInv, DockFits, FatesFit

LEMMA DiscardStep ==
    ASSUME DraftInv, Discard
    PROVE  DraftInv'
<1>1. /\ Calm /\ dock # NoSession /\ dock' = NoSession
      /\ deletes' = deletes \cup ({dock.row} \ {Unsaved})
      /\ fate' = Fated(dock.draft, "ended")
      /\ UNCHANGED <<attached, armed, saving, turns, clicked, posting, localDrafts,
                     draftOf, kept, sessions, edits>>
  BY DEF Discard, EndSession, daBounds
<1>2. PICK own \in SessionId : own = dock.draft
  BY <1>1, DockDraft
<1>3. PICK gone \in SUBSET RowId : gone = {dock.row} \ {Unsaved}
  BY DockDraft
<1>4. /\ fate' \in [SessionId -> Fates]
      /\ \A d \in SessionId : d # own => fate'[d] = fate[d]
      /\ fate'[own] = IF fate[own] = "unclear" THEN "unclear" ELSE "ended"
  BY <1>1, <1>2, FatedIs, DockDraft
<1>5. \A d \in SessionId :
         /\ fate'[d] = fate[d] \/ fate'[d] \in {"ended", "unclear"}
         /\ fate[d] = "unclear" => fate'[d] = "unclear"
         /\ d > sessions => fate'[d] = fate[d]
         /\ fate'[d] # "open"
         /\ fate'[d] = "left" => \A r \in gone : draftOf[r] # d
         /\ fate'[d] = "ended" /\ fate[d] # "ended" =>
               fate[d] = "open" /\ dock.row \in gone \cup {Unsaved}
  BY <1>1, <1>2, <1>3, <1>4, DockDraft
<1>6. \A r \in gone : draftOf[r] # 0
  BY <1>2, <1>3, DockDraft
<1>7. posting' \in SessionId \cup {0} /\ posting' <= sessions
  BY <1>1 DEF DraftInv, DraftTypes, DockTypes
<1> QED  BY <1>1, <1>3, <1>4, <1>5, <1>6, <1>7, DraftsEnd

LEMMA DeleteDraftStep ==
    ASSUME DraftInv, NEW row \in RowId, DeleteDraft(row)
    PROVE  DraftInv'
<1>1. /\ Calm /\ localDrafts[row] # Erased /\ deletes' = deletes \cup {row}
      /\ dock' = IF dock.row = row THEN NoSession ELSE dock
      /\ fate' = IF dock.row # row /\ dock.draft = draftOf[row]
                 THEN Blurred({draftOf[row]}) ELSE Fated(draftOf[row], "ended")
      /\ UNCHANGED <<attached, armed, saving, turns, clicked, posting, localDrafts,
                     draftOf, kept, sessions, edits>>
  BY DEF DeleteDraft, daBounds
<1>2. PICK own \in SessionId : /\ own = draftOf[row] /\ own \in 1..sessions
                               /\ fate[own] # "none" /\ row \in RowsOf(own)
  BY <1>1, DraftAssumption
  DEF DraftInv, DraftTypes, RowTypes, TurnTypes, RowsFit, FatesFit, RowsOf
<1>3. PICK gone \in SUBSET RowId : gone = {row}
  OBVIOUS
<1>4. /\ fate' \in [SessionId -> Fates]
      /\ \A d \in SessionId : d # own => fate'[d] = fate[d]
      /\ fate'[own] \in {"ended", "unclear"}
      /\ fate[own] = "unclear" => fate'[own] = "unclear"
      /\ (dock.row # row /\ dock.draft = own) => fate'[own] = "unclear"
  <2>1. CASE dock.row # row /\ dock.draft = draftOf[row]
    <3>1. fate' = Blurred({own})
      BY <1>1, <1>2, <2>1
    <3> QED  BY <3>1, BlurredIs, DockDraft
  <2>2. CASE ~(dock.row # row /\ dock.draft = draftOf[row])
    <3>1. fate' = Fated(own, "ended")
      BY <1>1, <1>2, <2>2
    <3> QED  BY <1>2, <2>2, <3>1, FatedIs, DockDraft
  <2> QED  BY <2>1, <2>2
<1>5. dock.row = row => dock.draft = own /\ dock # NoSession
  BY <1>2, DockDraft
<1>6. fate[own] = "open" => dock.draft = own
  BY DockDraft
<1>7. fate[own] \in {"open", "left", "ended", "unclear"}
  BY <1>2, DockDraft DEF Fates
<1>8. \A d \in SessionId :
         /\ fate'[d] = fate[d] \/ fate'[d] \in {"ended", "unclear"}
         /\ fate[d] = "unclear" => fate'[d] = "unclear"
         /\ d > sessions => fate'[d] = fate[d]
         /\ fate'[d] = "open" => dock' = dock
         /\ fate'[d] \in {"open", "left"} => \A r \in gone : draftOf[r] # d
         /\ (fate'[d] = "ended" /\ fate[d] # "ended") =>
               \/ fate[d] = "open" /\ dock.row \in gone \cup {Unsaved}
               \/ fate[d] = "left" /\ \E r \in gone : r \in RowsOf(d)
  <2>1. ASSUME NEW d \in SessionId, d # own
        PROVE  fate'[d] = fate[d] /\ (fate[d] = "open" => dock' = dock)
    BY <1>1, <1>4, <1>5, <2>1, DockDraft
  <2>2. ~(own > sessions)
    BY <1>2, DockDraft
  <2>3. fate'[own] = "ended" /\ fate[own] # "ended" =>
           \/ fate[own] = "open" /\ dock.row = row
           \/ fate[own] = "left"
    BY <1>4, <1>6, <1>7
  <2> QED  BY <1>2, <1>3, <1>4, <2>1, <2>2, <2>3
<1>9. (dock' = dock /\ dock # NoSession) => fate'[dock.draft] \in {"open", "unclear"}
  BY <1>1, <1>4, <1>5, DockDraft
<1>10. \A r \in gone : draftOf[r] # 0
  BY <1>2, <1>3, DockDraft
<1>11. posting' \in SessionId \cup {0} /\ posting' <= sessions
  BY <1>1 DEF DraftInv, DraftTypes, DockTypes
<1> QED  BY <1>1, <1>3, <1>4, <1>8, <1>9, <1>10, <1>11, DraftsEnd

LEMMA PostStep ==
    ASSUME DraftInv, Post
    PROVE  DraftInv'
<1>1. /\ dock # NoSession /\ posting' = dock.draft
      /\ UNCHANGED <<attached, dock, armed, saving, turns, clicked, deletes, localDrafts,
                     draftOf, fate, kept, sessions, edits>>
  BY DEF Post, daBounds
<1>2. posting' \in SessionId /\ posting' <= sessions
  BY <1>1, DockDraft
<1>3. DraftTypes'
  BY <1>1, <1>2 DEF DraftInv, DraftTypes, DockTypes, RowTypes, SaverTypes, TurnTypes
<1>4. /\ SavesFit' /\ DockFits' /\ RowsFit' /\ TurnsFit' /\ FatesFit' /\ OneSave'
      /\ DueFits' /\ LeftFits' /\ EndedFits'
  BY <1>1 DEF DraftInv, SavesFit, DockFits, RowsFit, TurnsFit, FatesFit, OneSave,
              DueFits, LeftFits, EndedFits, Busy, RowsOf, IsBeingSaved
<1>5. OpenFits'
  BY <1>1 DEF DraftInv, OpenFits, RowStands, AsStored, SaveOfOpen, Busy, RowsOf,
              IsBeingSaved
<1> QED  BY <1>3, <1>4, <1>5 DEF DraftInv

LEMMA PostEndsStep ==
    ASSUME DraftInv, PostEnds
    PROVE  DraftInv'
<1>1. /\ Calm /\ posting # 0 /\ posting' = 0
      /\ UNCHANGED <<attached, armed, saving, turns, clicked, localDrafts, draftOf, kept,
                     sessions, edits>>
  BY DEF PostEnds, NoFault, Fault, daBounds
<1>2. CASE UNCHANGED <<dock, deletes, fate>>
  <2>1. DraftTypes'
    BY <1>1, <1>2 DEF DraftInv, DraftTypes, DockTypes, RowTypes, SaverTypes, TurnTypes
  <2>2. /\ SavesFit' /\ DockFits' /\ RowsFit' /\ TurnsFit' /\ FatesFit' /\ OneSave'
        /\ DueFits' /\ LeftFits' /\ EndedFits'
    BY <1>1, <1>2 DEF DraftInv, SavesFit, DockFits, RowsFit, TurnsFit, FatesFit, OneSave,
                      DueFits, LeftFits, EndedFits, Busy, RowsOf, IsBeingSaved
  <2>3. OpenFits'
    BY <1>1, <1>2 DEF DraftInv, OpenFits, RowStands, AsStored, SaveOfOpen, Busy, RowsOf,
                      IsBeingSaved
  <2> QED  BY <2>1, <2>2, <2>3 DEF DraftInv
<1>3. CASE /\ EndSession
           /\ fate' = IF dock.draft = posting THEN Fated(posting, "ended")
                      ELSE IF dock = NoSession /\ fate[posting] = "ended" THEN fate
                      ELSE Blurred({posting, dock.draft} \ {0})
  <2>1. PICK sent \in SessionId : sent = posting
    BY <1>1 DEF DraftInv, DraftTypes, DockTypes
  <2>2. dock' = NoSession /\ deletes' = deletes \cup ({dock.row} \ {Unsaved})
    BY <1>3 DEF EndSession
  <2>3. PICK gone \in SUBSET RowId : gone = {dock.row} \ {Unsaved}
    BY DockDraft
  <2>4. sent <= sessions /\ sent # 0
    BY <1>1, <2>1 DEF DraftInv, DraftTypes, DockTypes
  <2>5. /\ fate' \in [SessionId -> Fates]
        /\ \A d \in SessionId : fate'[d] = fate[d] \/ d \in {sent, dock.draft}
        /\ \A d \in SessionId : fate[d] = "unclear" => fate'[d] = "unclear"
        /\ \A d \in SessionId : d \in {sent, dock.draft} =>
              \/ fate'[d] = "unclear"
              \/ fate'[d] = "ended" /\ (d = dock.draft \/ fate[d] = "ended")
    <3>1. CASE dock.draft = posting
      <4>1. fate' = Fated(sent, "ended")
        BY <1>3, <2>1, <3>1
      <4> QED  BY <2>1, <3>1, <4>1, FatedIs, DockDraft
    <3>2. CASE dock.draft # posting /\ dock = NoSession /\ fate[posting] = "ended"
      BY <1>3, <2>1, <2>4, <3>2, DockDraft, NoSessionFields
    <3>3. CASE dock.draft # posting /\ ~(dock = NoSession /\ fate[posting] = "ended")
      <4>1. fate' = Blurred({sent, dock.draft} \ {0})
        BY <1>3, <2>1, <3>3
      <4>2. /\ fate' \in [SessionId -> Fates]
            /\ \A d \in SessionId : fate'[d] = IF d \in {sent, dock.draft} \ {0}
                                               THEN "unclear" ELSE fate[d]
        BY <4>1, BlurredIs, DockDraft
      <4> QED  BY <4>2, DockDraft
    <3> QED  BY <3>1, <3>2, <3>3
  <2>6. \A d \in SessionId :
           /\ fate'[d] = fate[d] \/ fate'[d] \in {"ended", "unclear"}
           /\ fate[d] = "unclear" => fate'[d] = "unclear"
           /\ d > sessions => fate'[d] = fate[d]
           /\ fate'[d] # "open"
           /\ fate'[d] = "left" => \A r \in gone : draftOf[r] # d
           /\ (fate'[d] = "ended" /\ fate[d] # "ended") =>
                 fate[d] = "open" /\ dock.row \in gone \cup {Unsaved}
    <3>1. ASSUME NEW d \in SessionId, d = dock.draft
          PROVE  dock # NoSession /\ ~(d > sessions) /\ fate[d] \in {"open", "unclear"}
      BY <3>1, DockDraft, NoSessionFields
    <3>2. ASSUME NEW d \in SessionId, d > sessions
          PROVE  d \notin {sent, dock.draft}
      BY <2>4, <3>1, <3>2, DockDraft DEF SessionId
    <3>3. \A d \in SessionId : fate[d] = "open" => d = dock.draft
      BY DockDraft
    <3>4. \A d \in SessionId : d # dock.draft => \A r \in gone : draftOf[r] # d
      BY <2>3, DockDraft
    <3> QED  BY <2>3, <2>5, <3>1, <3>2, <3>3, <3>4
  <2>7. \A r \in gone : draftOf[r] # 0
    BY <2>3, DockDraft, NoSessionFields
  <2>8. posting' \in SessionId \cup {0} /\ posting' <= sessions
    BY <1>1, DockDraft
  <2>9. ~(dock' = dock /\ dock # NoSession)
    BY <2>2
  <2>10. dock' \in {dock, NoSession} /\ deletes' = deletes \cup gone
    BY <2>2, <2>3
  <2>11. \A d \in SessionId :
            /\ fate'[d] = fate[d] \/ fate'[d] \in {"ended", "unclear"}
            /\ fate[d] = "unclear" => fate'[d] = "unclear"
            /\ d > sessions => fate'[d] = fate[d]
            /\ fate'[d] = "open" => dock' = dock
            /\ fate'[d] \in {"open", "left"} => \A r \in gone : draftOf[r] # d
            /\ (fate'[d] = "ended" /\ fate[d] # "ended") =>
                  \/ fate[d] = "open" /\ dock.row \in gone \cup {Unsaved}
                  \/ fate[d] = "left" /\ \E r \in gone : r \in RowsOf(d)
    BY <2>6
  <2> QED  BY <1>1, <2>5, <2>7, <2>8, <2>9, <2>10, <2>11, DraftsEnd
<1> QED  BY <1>2, <1>3 DEF PostEnds

-----------------------------------------------------------------------------
(* A turn that is due: the session is replaced.                            *)

LEMMA TurnGoes ==
    ASSUME DraftInv, NEW t \in turns, turns' = turns \ {t}, t.waits = 0
    PROVE  /\ IsFiniteSet(turns') /\ Cardinality(turns') = Cardinality(turns) - 1
           /\ Cardinality(turns) \in Nat /\ Cardinality(turns) >= 1
           /\ sessions + 1 \in SessionId /\ sessions + 1 <= MaxSessions
           /\ sessions \in Nat /\ sessions >= 1
           /\ \A u \in turns' : u.waits # 0
<1>1. IsFiniteSet(turns)
  BY DEF DraftInv, DraftTypes, TurnTypes
<1>2. IsFiniteSet(turns') /\ Cardinality(turns') = Cardinality(turns) - 1
  BY <1>1, FS_RemoveElement
<1>3. Cardinality(turns) \in Nat /\ Cardinality(turns') \in Nat
  BY <1>1, <1>2, FS_CardinalityType
<1>4. sessions \in Nat /\ sessions >= 1 /\ MaxSessions \in Nat
  BY DraftAssumption DEF DraftInv, DraftTypes, TurnTypes
<1>5. Cardinality(turns) >= 1
  BY <1>2, <1>3
<1>6. sessions + 1 <= MaxSessions
  BY <1>3, <1>4, <1>5 DEF DraftInv, DraftTypes, TurnTypes
<1>7. sessions + 1 \in SessionId
  BY <1>4, <1>6 DEF SessionId
<1>8. \A u \in turns' : u.waits # 0
  BY DEF DraftInv, TurnsFit
<1> QED  BY <1>2, <1>3, <1>4, <1>5, <1>6, <1>7, <1>8

LEMMA TurnGoesKept ==
    ASSUME DraftInv, NEW t \in turns, turns' = turns \ {t}, t.waits = 0,
           UNCHANGED <<saving, clicked, deletes, localDrafts, draftOf, edits>>,
           sessions' \in {sessions, sessions + 1}
    PROVE  TurnTypes' /\ SaverTypes' /\ TurnsFit' /\ RowsFit' /\ DueFits'
<1>1. /\ IsFiniteSet(turns') /\ Cardinality(turns') = Cardinality(turns) - 1
      /\ Cardinality(turns) \in Nat /\ Cardinality(turns) >= 1
      /\ sessions \in Nat /\ sessions >= 1 /\ sessions + 1 <= MaxSessions
      /\ \A u \in turns' : u.waits # 0
  BY TurnGoes
<1>2. sessions' + Cardinality(turns') <= MaxSessions
  <2>1. sessions + Cardinality(turns) <= MaxSessions /\ MaxSessions \in Nat
    BY DraftAssumption DEF DraftInv, DraftTypes, TurnTypes
  <2> QED  BY <1>1, <2>1
<1>3. sessions' \in 1..MaxSessions
  BY <1>1, DraftAssumption DEF DraftInv, DraftTypes, TurnTypes
<1>4. TurnTypes'
  BY <1>1, <1>2, <1>3 DEF DraftInv, DraftTypes, TurnTypes
<1>5. SaverTypes' /\ TurnsFit'
  BY DEF DraftInv, DraftTypes, SaverTypes, TurnsFit, Busy
<1>6. RowsFit'
  <2>1. \A r \in RowId : draftOf[r] \in 0..sessions'
    BY <1>1 DEF DraftInv, RowsFit
  <2> QED  BY <2>1 DEF DraftInv, RowsFit
<1>7. DueFits'
  BY <1>1 DEF DueFits
<1> QED  BY <1>4, <1>5, <1>6, <1>7

(* What becomes of the draft that is left.                                 *)
LEMMA LeavingIs ==
    ASSUME DraftInv, NEW t \in turns
    PROVE  /\ Leaving(t) \in [SessionId -> Fates]
           /\ \A d \in SessionId : d # dock.draft => Leaving(t)[d] = fate[d]
           /\ \A d \in SessionId : Leaving(t)[d] # "open"
           /\ \A d \in SessionId : Leaving(t)[d] = "none" => fate[d] = "none"
           /\ \A d \in SessionId : fate[d] = "unclear" => Leaving(t)[d] = "unclear"
           /\ \A d \in SessionId : d = dock.draft =>
                 \/ Leaving(t)[d] = "unclear"
                 \/ /\ Leaving(t)[d] = "ended" /\ fate[d] = "open"
                    /\ dock.pristine /\ dock.row = Unsaved
                 \/ /\ Leaving(t)[d] = "left" /\ fate[d] = "open"
                    /\ dock.pristine /\ dock.row # Unsaved
                 \/ /\ Leaving(t)[d] = "left" /\ fate[d] = "open"
                    /\ ~dock.pristine /\ t.draft = d /\ t.ok
<1>1. CASE dock = NoSession
  <2>1. Leaving(t) = fate /\ dock.draft = 0
    BY <1>1, NoSessionFields DEF Leaving
  <2> QED  BY <1>1, <2>1, DockDraft
<1>2. CASE dock # NoSession
  <2>1. PICK own \in SessionId : own = dock.draft /\ fate[own] \in {"open", "unclear"}
    BY <1>2, DockDraft
  <2>2. fate \in [SessionId -> Fates] /\ \A d \in SessionId : fate[d] = "open" => d = own
    BY <2>1, DockDraft
  <2>3. CASE dock.pristine
    <3>1. Leaving(t) = [fate EXCEPT ![own] =
                          IF @ = "unclear" THEN @
                          ELSE IF dock.row = Unsaved THEN "ended" ELSE "left"]
      BY <1>2, <2>1, <2>3 DEF Leaving, Fated
    <3> QED  BY <2>1, <2>2, <2>3, <3>1 DEF Fates
  <2>4. CASE ~dock.pristine /\ t.draft = dock.draft /\ t.ok
    <3>1. Leaving(t) = [fate EXCEPT ![own] = IF @ = "unclear" THEN @ ELSE "left"]
      BY <1>2, <2>1, <2>4 DEF Leaving, Fated
    <3> QED  BY <2>1, <2>2, <2>4, <3>1 DEF Fates
  <2>5. CASE ~dock.pristine /\ ~(t.draft = dock.draft /\ t.ok)
    <3>1. Leaving(t) = [d \in SessionId |-> IF d \in {own} THEN "unclear" ELSE fate[d]]
      BY <1>2, <2>1, <2>5 DEF Leaving, Blurred
    <3> QED  BY <2>1, <2>2, <3>1 DEF Fates
  <2> QED  BY <2>3, <2>4, <2>5
<1> QED  BY <1>1, <1>2

LEMMA LeavingFits ==
    ASSUME DraftInv, NEW t \in turns, t.waits = 0,
           kept' = IF dock = NoSession THEN kept
                   ELSE [kept EXCEPT ![dock.draft] =
                           IF dock.pristine THEN dock.text ELSE t.wrote]
    PROVE  /\ kept' \in [SessionId -> Text]
           /\ \A d \in SessionId : Leaving(t)[d] = "left" =>
                 /\ ~IsBeingSaved(d)
                 /\ \E r \in RowId : /\ RowsOf(d) = {r} /\ r \notin deletes
                                     /\ localDrafts[r] = kept'[d]
           /\ \A d \in SessionId : Leaving(t)[d] = "ended" =>
                 \A r \in RowsOf(d) : r \in deletes \/ \E f \in SaveSlot :
                                         /\ saving[f].step \in {"return", "undo"}
                                         /\ saving[f].row = r
<1>1. kept \in [SessionId -> Text] /\ dock.text \in Text /\ t.wrote \in Text
  BY DEF DraftInv, DraftTypes, RowTypes, DockTypes, TurnTypes, Session, Turn
<1>2. kept' \in [SessionId -> Text]
  BY <1>1, DockDraft
<1>3. \A d \in SessionId : d # dock.draft => kept'[d] = kept[d]
  BY <1>1, DockDraft
<1>4. ASSUME NEW d \in SessionId, d = dock.draft
      PROVE  dock # NoSession /\ kept'[d] = IF dock.pristine THEN dock.text ELSE t.wrote
  BY <1>1, <1>4, DockDraft, NoSessionFields
<1>5. ASSUME NEW d \in SessionId, Leaving(t)[d] = "left"
      PROVE  /\ ~IsBeingSaved(d)
             /\ \E r \in RowId : /\ RowsOf(d) = {r} /\ r \notin deletes
                                 /\ localDrafts[r] = kept'[d]
  <2>1. CASE d # dock.draft
    BY <1>3, <1>5, <2>1, LeavingIs DEF DraftInv, LeftFits
  <2>2. CASE d = dock.draft
    <3>1. /\ fate[d] = "open"
          /\ (dock.pristine /\ dock.row # Unsaved) \/ (~dock.pristine /\ t.draft = d /\ t.ok)
      BY <1>5, <2>2, LeavingIs
    <3>2. RowStands(d) /\ AsStored(d)
      BY <3>1 DEF DraftInv, OpenFits
    <3>3. dock.row # Unsaved /\ localDrafts[dock.row] = kept'[d] /\ ~IsBeingSaved(d)
      <4>1. CASE dock.pristine
        BY <1>4, <2>2, <3>1, <3>2, <4>1 DEF AsStored
      <4>2. CASE ~dock.pristine
        BY <1>4, <2>2, <3>1, <4>2 DEF DraftInv, DueFits
      <4> QED  BY <4>1, <4>2
    <3>4. RowsOf(d) = {dock.row} /\ dock.row \notin deletes /\ dock.row \in RowId
      <4>1. dock.row \in RowId /\ draftOf[dock.row] = d
        BY <2>2, <3>3, DockDraft
      <4>2. dock.row \in RowsOf(d) /\ dock.row \notin deletes
        BY <3>2, <3>3, <4>1 DEF RowStands, RowsOf
      <4>3. \A r \in RowsOf(d) : r = dock.row
        BY <3>2, <3>3 DEF RowStands
      <4> QED  BY <4>1, <4>2, <4>3
    <3> QED  BY <3>3, <3>4
  <2> QED  BY <2>1, <2>2
<1>6. ASSUME NEW d \in SessionId, Leaving(t)[d] = "ended", NEW r \in RowsOf(d)
      PROVE  r \in deletes \/ \E f \in SaveSlot : /\ saving[f].step \in {"return", "undo"}
                                                  /\ saving[f].row = r
  <2>1. CASE d # dock.draft
    BY <1>6, <2>1, LeavingIs DEF DraftInv, EndedFits
  <2>2. CASE d = dock.draft
    <3>1. fate[d] = "open" /\ dock.pristine /\ dock.row = Unsaved
      BY <1>6, <2>2, LeavingIs
    <3>2. RowStands(d) /\ r # Unsaved
      BY <3>1, DockDraft DEF DraftInv, OpenFits, RowsOf
    <3> QED  BY <3>1, <3>2 DEF RowStands
  <2> QED  BY <2>1, <2>2
<1> QED  BY <1>2, <1>5, <1>6

LEMMA TurnIsStale ==
    ASSUME DraftInv, NEW t \in turns, TurnComes(t), t.stale
    PROVE  DraftInv'
<1>1. /\ t.waits = 0 /\ turns' = turns \ {t}
      /\ UNCHANGED <<attached, dock, armed, saving, clicked, posting, deletes,
                     localDrafts, draftOf, fate, kept, sessions, edits>>
  BY DEF TurnComes
<1>2. TurnTypes' /\ SaverTypes' /\ TurnsFit' /\ RowsFit' /\ DueFits'
  BY <1>1, TurnGoesKept
<1>3. DockTypes' /\ RowTypes'
  BY <1>1 DEF DraftInv, DraftTypes, DockTypes, RowTypes
<1>4. SavesFit' /\ DockFits' /\ FatesFit' /\ OneSave' /\ LeftFits' /\ EndedFits'
  BY <1>1 DEF DraftInv, SavesFit, DockFits, FatesFit, OneSave, LeftFits, EndedFits, Busy,
              RowsOf, IsBeingSaved
<1>5. OpenFits'
  BY <1>1 DEF DraftInv, OpenFits, RowStands, AsStored, SaveOfOpen, Busy, RowsOf,
              IsBeingSaved
<1> QED  BY <1>2, <1>3, <1>4, <1>5 DEF DraftInv, DraftTypes

(* The new session is that of one draft, which is open from now on or not  *)
(* the code's to answer for; the others are as they were left.             *)
LEMMA DockTakes ==
    ASSUME DraftInv, NEW t \in turns, t.waits = 0, turns' = turns \ {t},
           UNCHANGED <<attached, armed, saving, clicked, posting, deletes, localDrafts,
                       draftOf, edits>>,
           sessions' = sessions + 1,
           kept' = IF dock = NoSession THEN kept
                   ELSE [kept EXCEPT ![dock.draft] =
                           IF dock.pristine THEN dock.text ELSE t.wrote],
           NEW own \in SessionId, own <= sessions + 1,
           dock' \in Session, dock'.draft = own, dock'.pristine = TRUE,
           dock'.token = IF attached THEN own ELSE sessions + 1,
           dock'.row # Unsaved => draftOf[dock'.row] = own,
           NEW then \in {"open", "unclear"}, fate' = [Leaving(t) EXCEPT ![own] = then],
           Leaving(t)[own] = "unclear" => then = "unclear",
           then = "open" => /\ ~IsBeingSaved(own)
                            /\ RowsOf(own) = {dock'.row} \ {Unsaved}
                            /\ dock'.row # Unsaved =>
                                  /\ localDrafts[dock'.row] = dock'.text
                                  /\ localDrafts[dock'.row] # Erased
                                  /\ dock'.row \notin deletes
    PROVE  DraftInv'
<1>1. TurnTypes' /\ SaverTypes' /\ TurnsFit' /\ RowsFit' /\ DueFits'
  BY TurnGoesKept
<1>2. /\ sessions + 1 \in SessionId /\ sessions \in Nat /\ sessions >= 1
      /\ 0 \notin SessionId /\ own # 0 /\ own \in 1..sessions + 1
  <2>1. /\ sessions + 1 \in SessionId /\ sessions \in Nat /\ sessions >= 1
        /\ 0 \notin SessionId
    BY TurnGoes, DockDraft
  <2> QED  BY <2>1 DEF SessionId
<1>3. /\ fate' \in [SessionId -> Fates] /\ fate'[own] = then
      /\ \A d \in SessionId : d # own => fate'[d] = Leaving(t)[d]
  BY LeavingIs DEF Fates
<1>4. /\ kept' \in [SessionId -> Text]
      /\ \A d \in SessionId : Leaving(t)[d] = "left" =>
            /\ ~IsBeingSaved(d)
            /\ \E r \in RowId : /\ RowsOf(d) = {r} /\ r \notin deletes
                                /\ localDrafts[r] = kept'[d]
      /\ \A d \in SessionId : Leaving(t)[d] = "ended" =>
            \A r \in RowsOf(d) : r \in deletes \/ \E f \in SaveSlot :
                                    /\ saving[f].step \in {"return", "undo"}
                                    /\ saving[f].row = r
  BY LeavingFits
<1>5. DockTypes' /\ RowTypes'
  BY <1>2, <1>3, <1>4 DEF DraftInv, DraftTypes, DockTypes, RowTypes
<1>6. dock' # NoSession
  BY <1>2, NoSessionFields
<1>7. SavesFit'
  <2>1. ASSUME NEW g \in SaveSlot, Busy(g)
        PROVE  /\ saving[g].draft \in 1..sessions + 1 /\ saving[g].token \in 1..sessions + 1
               /\ saving[g].token = dock'.token => saving[g].draft = own
    <3>1. /\ saving[g].draft \in 1..sessions /\ saving[g].token \in 1..sessions
          /\ attached => saving[g].token = saving[g].draft
      BY <2>1 DEF DraftInv, SavesFit
    <3> QED  BY <1>2, <3>1
  <2> QED  BY <2>1 DEF DraftInv, SavesFit, Busy
<1>8. DockFits'
  BY <1>2, <1>6 DEF DockFits
<1>9. \A d \in SessionId : /\ fate'[d] = "none" => fate[d] = "none"
                           /\ fate[d] = "unclear" => fate'[d] = "unclear"
  BY <1>3, LeavingIs
<1>10. \A g \in SaveSlot : Busy(g) => saving[g].draft \in SessionId
  BY DraftAssumption DEF DraftInv, DraftTypes, TurnTypes, SavesFit, SessionId
<1>11. FatesFit'
  <2>1. \A d \in SessionId : fate'[d] = "open" => dock'.draft = d
    BY <1>3, LeavingIs
  <2>2. dock' # NoSession => fate'[dock'.draft] \in {"open", "unclear"}
    BY <1>3
  <2>3. ASSUME NEW d \in SessionId, d > sessions + 1
        PROVE  fate'[d] = "none"
    <3>1. d # own /\ d > sessions /\ ~(d <= sessions)
      BY <1>2, <2>3 DEF SessionId
    <3>2. d # dock.draft
      BY <3>1, DockDraft, NoSessionFields
    <3> QED  BY <1>3, <3>1, <3>2, LeavingIs DEF DraftInv, FatesFit
  <2>4. \A r \in RowId : draftOf[r] # 0 => fate'[draftOf[r]] # "none"
    BY <1>9 DEF DraftInv, DraftTypes, RowTypes, FatesFit
  <2>5. \A g \in SaveSlot : Busy(g)' => fate'[saving'[g].draft] # "none"
    BY <1>9, <1>10 DEF DraftInv, FatesFit, Busy
  <2> QED  BY <2>1, <2>2, <2>3, <2>4, <2>5 DEF FatesFit
<1>12. OneSave'
  BY <1>9, <1>10 DEF DraftInv, OneSave, Busy
<1>13. \A d \in SessionId : RowsOf(d)' = RowsOf(d)
  BY DEF RowsOf
<1>14. \A d \in SessionId : IsBeingSaved(d)' <=> IsBeingSaved(d)
  BY DEF IsBeingSaved
<1>15. OpenFits'
  <2>1. ASSUME NEW d \in SessionId, fate'[d] = "open"
        PROVE  d = own /\ then = "open"
    BY <1>3, <2>1, LeavingIs
  <2>2. ASSUME NEW d \in SessionId, fate'[d] = "open"
        PROVE  RowStands(d)' /\ AsStored(d)'
    BY <1>13, <1>14, <2>1, <2>2 DEF RowStands, AsStored
  <2>3. ASSUME NEW d \in SessionId, fate'[d] = "open", NEW g \in SaveSlot, Busy(g)',
               saving'[g].draft = d
        PROVE  FALSE
    BY <2>1, <2>3 DEF IsBeingSaved, Busy
  <2> QED  BY <2>2, <2>3 DEF OpenFits
<1>16. LeftFits'
  BY <1>3, <1>4, <1>13, <1>14 DEF LeftFits
<1>17. EndedFits'
  BY <1>3, <1>4, <1>13 DEF EndedFits
<1> QED
  BY <1>1, <1>5, <1>7, <1>8, <1>11, <1>12, <1>15, <1>16, <1>17 DEF DraftInv, DraftTypes

LEMMA TurnComesStep ==
    ASSUME DraftInv, NEW t \in turns, TurnComes(t)
    PROVE  DraftInv'
<1> DEFINE new == sessions + 1
<1>1. CASE t.stale
  BY <1>1, TurnIsStale
<1>2. CASE ~t.stale
  <2>1. /\ t.waits = 0 /\ turns' = turns \ {t} /\ sessions' = sessions + 1
        /\ kept' = IF dock = NoSession THEN kept
                   ELSE [kept EXCEPT ![dock.draft] =
                           IF dock.pristine THEN dock.text ELSE t.wrote]
        /\ UNCHANGED <<attached, armed, saving, clicked, posting, deletes, localDrafts,
                       draftOf, edits>>
    BY <1>2 DEF TurnComes
  <2>2. /\ new \in SessionId /\ sessions \in Nat /\ new > sessions /\ new # 0
        /\ t \in Turn /\ Untyped \in Text
    BY <2>1, TurnGoes, DraftAssumption DEF DraftInv, DraftTypes, TurnTypes, Text, Untyped
  <2>3. CASE t.row = Unsaved
    <3>1. /\ dock' = [NoSession EXCEPT !.draft = new, !.token = new]
          /\ fate' = [Leaving(t) EXCEPT ![new] = "open"]
      BY <1>2, <2>3 DEF TurnComes
    <3>2. dock' = [draft |-> new, token |-> new, row |-> Unsaved, text |-> Untyped,
                   pristine |-> TRUE]
      BY <3>1 DEF NoSession
    <3>3. dock' \in Session
      BY <2>2, <3>2 DEF Session
    <3>4. ~IsBeingSaved(new) /\ RowsOf(new) = {}
      <4>1. \A g \in SaveSlot : Busy(g) => saving[g].draft # new
        BY <2>2 DEF DraftInv, SavesFit
      <4>2. \A r \in RowId : draftOf[r] # new
        BY <2>2 DEF DraftInv, RowsFit
      <4> QED  BY <4>1, <4>2 DEF IsBeingSaved, Busy, RowsOf
    <3>5. Leaving(t)[new] # "unclear"
      <4>1. new # dock.draft /\ fate[new] = "none"
        BY <2>2, DockDraft, NoSessionFields DEF DraftInv, FatesFit
      <4> QED  BY <2>2, <4>1, LeavingIs
    <3>6. /\ dock'.draft = new /\ dock'.pristine = TRUE /\ dock'.row = Unsaved
          /\ dock'.token = IF attached THEN new ELSE sessions + 1
          /\ new <= sessions + 1 /\ RowsOf(new) = {dock'.row} \ {Unsaved}
      BY <2>2, <3>2, <3>4
    <3>7. "open" \in {"open", "unclear"}
      OBVIOUS
    <3> HIDE DEF new
    <3> QED  BY <2>1, <2>2, <3>1, <3>3, <3>4, <3>5, <3>6, <3>7, DockTakes
  <2>4. CASE t.row # Unsaved
    <3>1. t.row \in RowId /\ t.text \in Text /\ draftOf[t.row] # 0 /\ t.text # Erased
      BY <2>2, <2>4 DEF Turn, DraftInv, RowsFit
    <3>2. PICK own \in SessionId : own = draftOf[t.row] /\ own <= sessions /\ fate[own] # "none"
      BY <2>2, <3>1 DEF DraftInv, DraftTypes, RowTypes, RowsFit, FatesFit
    <3>3. PICK then \in {"open", "unclear"} :
             then = IF Leaving(t)[own] = "unclear" \/ ReadsOldRow(t) \/ IsBeingSaved(own)
                    THEN "unclear" ELSE "open"
      OBVIOUS
    <3>4. /\ dock' = [draft |-> own, token |-> IF attached THEN own ELSE new,
                      row |-> t.row, text |-> t.text, pristine |-> TRUE]
          /\ fate' = [Leaving(t) EXCEPT ![own] = then]
      <4>1. /\ dock' = [draft |-> own, token |-> IF attached THEN own ELSE new,
                        row |-> t.row, text |-> t.text, pristine |-> TRUE]
            /\ fate' = [Leaving(t) EXCEPT ![own] =
                          IF @ = "unclear" \/ ReadsOldRow(t) \/ IsBeingSaved(own)
                          THEN "unclear" ELSE "open"]
        BY <1>2, <2>4, <3>2 DEF TurnComes
      <4> QED  BY <3>3, <4>1, LeavingIs
    <3>5. dock' \in Session
      BY <2>2, <3>1, <3>4 DEF Session
    <3>6. ASSUME then = "open"
          PROVE  /\ ~IsBeingSaved(own) /\ RowsOf(own) = {t.row}
                 /\ localDrafts[t.row] = t.text /\ t.row \notin deletes
      <4>1. /\ Leaving(t)[own] # "unclear" /\ ~IsBeingSaved(own)
            /\ localDrafts[t.row] = t.text /\ t.row \notin deletes
        BY <3>3, <3>6 DEF ReadsOldRow
      <4>2. t.row \in RowsOf(own)
        BY <3>1, <3>2, <4>1 DEF RowsOf
      <4>3. Leaving(t)[own] \in {"left", "ended"}
        BY <3>2, <4>1, LeavingIs DEF Fates
      <4>4. Leaving(t)[own] # "ended"
        <5>1. ASSUME NEW f \in SaveSlot, saving[f].step \in {"return", "undo"},
                     saving[f].row = t.row
              PROVE  FALSE
          BY <2>4, <3>2, <4>1, <5>1 DEF DraftInv, SavesFit, IsBeingSaved, Busy
        <5> QED  BY <2>1, <4>1, <4>2, <5>1, LeavingFits
      <4>5. \E r \in RowId : RowsOf(own) = {r}
        BY <2>1, <4>3, <4>4, LeavingFits
      <4> QED  BY <4>1, <4>2, <4>5
    <3>7. /\ dock'.draft = own /\ dock'.pristine = TRUE /\ dock'.row = t.row
          /\ dock'.text = t.text /\ dock'.token = IF attached THEN own ELSE sessions + 1
          /\ own <= sessions + 1
      BY <2>2, <3>2, <3>4 DEF SessionId
    <3>8. then = "open" => /\ ~IsBeingSaved(own)
                           /\ RowsOf(own) = {dock'.row} \ {Unsaved}
                           /\ dock'.row # Unsaved =>
                                 /\ localDrafts[dock'.row] = dock'.text
                                 /\ localDrafts[dock'.row] # Erased
                                 /\ dock'.row \notin deletes
      BY <2>4, <3>1, <3>6, <3>7
    <3>9. Leaving(t)[own] = "unclear" => then = "unclear"
      BY <3>3
    <3>10. dock'.row # Unsaved => draftOf[dock'.row] = own
      BY <3>2, <3>7
    <3> QED  BY <2>1, <3>4, <3>5, <3>7, <3>8, <3>9, <3>10, DockTakes
  <2> QED  BY <2>3, <2>4
<1> QED  BY <1>1, <1>2

-----------------------------------------------------------------------------
(* The invariant, and what it says.                                        *)

LEMMA DraftInit_Inv == DraftInit => DraftInv
<1> SUFFICES ASSUME DraftInit PROVE DraftInv
  OBVIOUS
<1>1. /\ attached \in BOOLEAN /\ dock = NoSession /\ armed = FALSE
      /\ saving = [f \in SaveSlot |-> NoSave] /\ turns = {} /\ clicked = NoClick
      /\ posting = 0 /\ deletes = {}
      /\ localDrafts = [r \in RowId |-> IF r = 1 THEN 1 ELSE Erased]
      /\ draftOf = [r \in RowId |-> IF r = 1 THEN 1 ELSE 0]
      /\ fate = [d \in SessionId |-> IF d = 1 THEN "left" ELSE "none"]
      /\ kept = [d \in SessionId |-> IF d = 1 THEN 1 ELSE Untyped]
      /\ sessions = 1 /\ edits = 1
  BY DEF DraftInit
<1>2. /\ 1 \in SessionId /\ 1 \in RowId /\ 1 \in Text /\ 0 \in Text
      /\ 0 \notin RowId /\ 0 \notin SessionId /\ MaxSessions >= 1 /\ MaxEdits >= 1
      /\ MaxSessions \in Nat /\ MaxEdits \in Nat
  BY DraftAssumption DEF SessionId, RowId, Text
<1>3. \A f \in SaveSlot : ~Busy(f) /\ saving[f] = NoSave
  BY <1>1, NoSaveFields DEF Busy
<1>4. DraftTypes
  <2>1. DockTypes
    <3>1. clicked \in RowClick
      BY <1>1, <1>2 DEF NoClick, RowClick, Unsaved, Untyped
    <3>2. armed \in BOOLEAN
      BY <1>1
    <3>3. posting \in SessionId \cup {0} /\ posting <= sessions
      BY <1>1
    <3> QED  BY <1>1, <3>1, <3>2, <3>3, NoSessionFields DEF DockTypes
  <2>2. RowTypes
    BY <1>1, <1>2 DEF RowTypes, Fates, Erased, Untyped
  <2>3. SaverTypes
    BY <1>1, <1>3, NoSaveFields DEF SaverTypes
  <2>4. TurnTypes
    <3>1. IsFiniteSet(turns) /\ Cardinality(turns) = 0
      BY <1>1, FS_EmptySet
    <3> QED  BY <1>1, <1>2, <3>1 DEF TurnTypes
  <2> QED  BY <2>1, <2>2, <2>3, <2>4 DEF DraftTypes
<1>5. SavesFit /\ OneSave
  BY <1>3 DEF SavesFit, OneSave
<1>6. DockFits
  BY <1>1, NoSessionFields DEF DockFits
<1>7. RowsFit
  BY <1>1, <1>2 DEF RowsFit, NoClick
<1>8. TurnsFit /\ DueFits
  BY <1>1 DEF TurnsFit, DueFits
<1>9. FatesFit
  BY <1>1, <1>2, <1>3 DEF FatesFit, SessionId
<1>10. OpenFits
  BY <1>1 DEF OpenFits
<1>11. LeftFits
  <2>1. RowsOf(1) = {1}
    BY <1>1, <1>2 DEF RowsOf, Erased
  <2>2. ~IsBeingSaved(1)
    BY <1>3 DEF IsBeingSaved, Busy
  <2> QED  BY <1>1, <1>2, <2>1, <2>2 DEF LeftFits
<1>12. EndedFits
  BY <1>1 DEF EndedFits
<1> QED
  BY <1>4, <1>5, <1>6, <1>7, <1>8, <1>9, <1>10, <1>11, <1>12 DEF DraftInv

LEMMA DraftStep_Inv == DraftInv /\ [DraftNext]_daVars => DraftInv'
<1> SUFFICES ASSUME DraftInv, [DraftNext]_daVars PROVE DraftInv'
  OBVIOUS
<1>1. CASE Type
  BY <1>1, TypeStep
<1>2. CASE TimerFires
  BY <1>2, TimerFiresStep
<1>3. CASE OpenReply
  BY <1>3, OpenReplyStep
<1>4. CASE ResumeDraft
  BY <1>4, ResumeDraftStep
<1>5. CASE Discard
  BY <1>5, DiscardStep
<1>6. CASE Post
  BY <1>6, PostStep
<1>7. CASE PostEnds
  BY <1>7, PostEndsStep
<1>8. ASSUME NEW f \in SaveSlot,
             \/ SaveLooks(f) \/ SaveUpdates(f) \/ SaveCreates(f)
             \/ SaveReturns(f) \/ SaveUndoes(f)
      PROVE  DraftInv'
  BY <1>8, SaveLooksStep, SaveUpdatesStep, SaveCreatesStep, SaveReturnsToItsSession,
     SaveReturnsTooLate, SaveUndoesStep
<1>9. ASSUME NEW r \in RowId, RowIsDeleted(r) \/ ClickDraft(r) \/ DeleteDraft(r)
      PROVE  DraftInv'
  BY <1>9, RowIsDeletedStep, ClickDraftStep, DeleteDraftStep
<1>10. ASSUME NEW t \in turns, TurnComes(t)
       PROVE  DraftInv'
  BY <1>10, TurnComesStep
<1>11. CASE UNCHANGED daVars
  <2>1. UNCHANGED <<attached, dock, armed, saving, turns, clicked, posting, deletes,
                    localDrafts, draftOf, fate, kept, sessions, edits>>
    BY <1>11 DEF daVars, daBounds
  <2>2. DraftTypes'
    BY <2>1 DEF DraftInv, DraftTypes, DockTypes, RowTypes, SaverTypes, TurnTypes
  <2>3. /\ SavesFit' /\ DockFits' /\ RowsFit' /\ TurnsFit' /\ FatesFit' /\ OneSave'
        /\ DueFits' /\ LeftFits' /\ EndedFits'
    BY <2>1 DEF DraftInv, SavesFit, DockFits, RowsFit, TurnsFit, FatesFit, OneSave,
                DueFits, LeftFits, EndedFits, Busy, RowsOf, IsBeingSaved
  <2>4. OpenFits'
    BY <2>1 DEF DraftInv, OpenFits, RowStands, AsStored, SaveOfOpen, Busy, RowsOf,
                IsBeingSaved
  <2> QED  BY <2>2, <2>3, <2>4 DEF DraftInv
<1> QED
  BY <1>1, <1>2, <1>3, <1>4, <1>5, <1>6, <1>7, <1>8, <1>9, <1>10, <1>11 DEF DraftNext

LEMMA DraftInvariant == DraftSpec => []DraftInv
<1> QED  BY DraftInit_Inv, DraftStep_Inv, PTL DEF DraftSpec

(* The variables of the dock's drafts keep their types: a save that is     *)
(* past its look at the table has a row, and a turn always finds a session *)
(* number.                                                                 *)
THEOREM DraftsTypeCorrect == DraftSpec => []DraftTypeOK
<1>1. DraftInv => DraftTypeOK
  <2> SUFFICES ASSUME DraftInv PROVE DraftTypeOK
    OBVIOUS
  <2>1. DockTypes /\ RowTypes /\ SaverTypes /\ TurnTypes
    BY DEF DraftInv, DraftTypes
  <2>2. \A t \in turns : t.waits \in SaveSlot \cup {0} /\ t.row \in RowId \cup {Unsaved}
    BY <2>1 DEF TurnTypes, Turn
  <2>3. \A f \in SaveSlot : saving[f].step \in Steps
    BY <2>1 DEF SaverTypes, Save
  <2>4. dock \in [draft : SessionId \cup {0}, token : SessionId \cup {0},
                  row : RowId \cup {Unsaved}, text : 0..MaxEdits, pristine : BOOLEAN]
    BY <2>1 DEF DockTypes, Session, Text
  <2> QED
    BY <2>1, <2>2, <2>3, <2>4
    DEF DraftTypeOK, DockTypes, RowTypes, SaverTypes, Steps, Fates, Text
<1> QED  BY <1>1, DraftInvariant, PTL

(* Once nothing is under way, a draft the user turned away from has one    *)
(* row, which says what the draft said, and a draft that was sent or       *)
(* discarded has none, however saves, turns and deletes were interleaved   *)
(* (inlineComposerStore.ts 228-240, draftAutoSaveEngine.ts 66-71).         *)
THEOREM DraftsStayAsLeft == DraftSpec => []DraftsAreAsLeft
<1>1. DraftInv => DraftsAreAsLeft
  <2> SUFFICES ASSUME DraftInv, AtRest, NEW d \in SessionId
               PROVE  /\ fate[d] = "ended" => RowsOf(d) = {}
                      /\ fate[d] = "left" => \E r \in RowId : /\ RowsOf(d) = {r}
                                                              /\ localDrafts[r] = kept[d]
    BY DEF DraftsAreAsLeft
  <2>1. ASSUME fate[d] = "ended", NEW r \in RowsOf(d)
        PROVE  FALSE
    BY <2>1, NoSaveFields DEF AtRest, DraftInv, EndedFits
  <2>2. ASSUME fate[d] = "left"
        PROVE  \E r \in RowId : RowsOf(d) = {r} /\ localDrafts[r] = kept[d]
    BY <2>2 DEF DraftInv, LeftFits
  <2> QED  BY <2>1, <2>2
<1> QED  BY <1>1, DraftInvariant, PTL
=============================================================================

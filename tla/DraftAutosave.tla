---------------------------- MODULE DraftAutosave ----------------------------
(***************************************************************************)
(* The drafts of the reading pane's composer (the dock): the debounced     *)
(* saver of draftAutoSaveEngine, the session of inlineComposerStore, which *)
(* is replaced when the user turns to another mail or draft, and the rows  *)
(* of local_drafts.                                                        *)
(*                                                                         *)
(* A step ends where the JavaScript awaits: a command of the database, a   *)
(* send, the debounce. What a draft says is the number of the user's last  *)
(* edit. A session's seed is taken to be there before the user types.      *)
(***************************************************************************)
EXTENDS Naturals, FiniteSets

CONSTANTS
    MaxFlight,   \* bound: saves in flight at once
    MaxSaves,    \* bound: saves begun
    MaxSessions, \* bound: sessions
    MaxEdits,    \* bound: edits
    MaxFaults    \* bound: failed commands, failed sends and failed saves

ASSUME DraftAssumption ==
    /\ MaxFlight \in Nat \ {0} /\ MaxSaves \in Nat \ {0} /\ MaxSessions \in Nat \ {0}
    /\ MaxEdits \in Nat \ {0} /\ MaxFaults \in Nat

RowId == 1..MaxSaves + 1
SessionId == 1..MaxSessions + 1
SaveSlot == 1..MaxFlight
Untyped == 0  \* a text: nothing typed; the stored draft of the start says 1
Unsaved == 0  \* no row
Erased == 0     \* a row that is not in local_drafts
NoSession == [draft |-> 0, token |-> 0, row |-> Unsaved, text |-> Untyped,
              pristine |-> TRUE]
NoSave == [step |-> "none", draft |-> 0, token |-> 0, row |-> Unsaved,
           text |-> Untyped]
NoClick == [row |-> Unsaved, text |-> Untyped]

VARIABLES
    attached,  \* drafts have attachments: a resumed session keeps its token
    dock,      \* the store's session
    armed,     \* the saver's debounce timer runs
    saving,    \* the saves in flight
    turns,     \* replacements of the session that await the flush of the old
    clicked,   \* a draft that was clicked, while its mail is looked up
    posting,   \* the draft that is being sent, or 0
    deletes,   \* rows whose delete nobody waits for
    localDrafts, \* local_drafts: what each row says
    draftOf,   \* the draft a row was created for
    fate,      \* what the user did with each draft
    kept,      \* what it said when the user left it
    sessions, savesBegun, edits, faults

daBounds == <<sessions, savesBegun, edits, faults>>
daVars == <<attached, dock, armed, saving, turns, clicked, posting, deletes,
            localDrafts, draftOf, fate, kept, daBounds>>

(* One draft was left by an earlier run of the program.                    *)
DraftInit ==
    /\ attached \in BOOLEAN
    /\ dock = NoSession /\ armed = FALSE
    /\ saving = [f \in SaveSlot |-> NoSave] /\ turns = {} /\ clicked = NoClick
    /\ posting = 0 /\ deletes = {}
    /\ localDrafts = [r \in RowId |-> IF r = 1 THEN 1 ELSE Erased]
    /\ draftOf = [r \in RowId |-> IF r = 1 THEN 1 ELSE 0]
    /\ fate = [d \in SessionId |-> IF d = 1 THEN "left" ELSE "none"]
    /\ kept = [d \in SessionId |-> IF d = 1 THEN 1 ELSE Untyped]
    /\ sessions = 1 /\ savesBegun = 1 /\ edits = 1 /\ faults = 0

Fault == faults < MaxFaults /\ faults' = faults + 1 /\ UNCHANGED <<sessions, savesBegun, edits>>
NoFault == UNCHANGED daBounds

(* A continuation that is due runs before anything else does.              *)
Calm == \A t \in turns : t.waits # 0

IsBeingSaved(d) == \E f \in SaveSlot : saving[f].step # "none" /\ saving[f].draft = d

(* The fate of a draft, which stays unclear once the code can no longer    *)
(* answer for it.                                                          *)
Fated(d, what) == [fate EXCEPT ![d] = IF @ = "unclear" THEN @ ELSE what]
Blurred(drafts) == [d \in SessionId |-> IF d \in drafts THEN "unclear" ELSE fate[d]]

-----------------------------------------------------------------------------
(* The saver.                                                              *)

ShouldSave(s) == s # NoSession /\ ~s.pristine

(* saveNow reads the session and issues the first command. Two saves of a  *)
(* draft at once may create two rows or write an older text last.          *)
SaveNow(f) ==
    /\ savesBegun < MaxSaves /\ savesBegun' = savesBegun + 1
    /\ saving[f] = NoSave
    /\ saving' = [saving EXCEPT ![f] =
                    [step  |-> IF dock.row = Unsaved THEN "create" ELSE "look",
                     draft |-> dock.draft, token |-> dock.token,
                     row   |-> dock.row, text |-> dock.text]]
    /\ fate' = Blurred(IF IsBeingSaved(dock.draft) THEN {dock.draft} ELSE {})
    /\ UNCHANGED <<sessions, edits, faults>>

NoSaveBegins == UNCHANGED <<saving, fate, daBounds>>

Type ==
    /\ Calm /\ dock # NoSession /\ edits < MaxEdits
    /\ edits' = edits + 1
    /\ dock' = [dock EXCEPT !.text = edits + 1, !.pristine = FALSE]
    /\ armed' = TRUE
    /\ UNCHANGED <<attached, saving, turns, clicked, posting, deletes,
                   localDrafts, draftOf, fate, kept, sessions, savesBegun, faults>>

TimerFires ==
    /\ Calm /\ armed /\ armed' = FALSE
    /\ IF ShouldSave(dock) THEN \E f \in SaveSlot : SaveNow(f) ELSE NoSaveBegins
    /\ UNCHANGED <<attached, dock, turns, clicked, posting, deletes,
                   localDrafts, draftOf, kept>>

(* A save is over; the turn that flushed it goes on.                       *)
Over(f, ok) ==
    /\ saving' = [saving EXCEPT ![f] = NoSave]
    /\ turns' = {IF t.waits = f THEN [t EXCEPT !.waits = 0, !.ok = ok] ELSE t
                   : t \in turns}
GoesOnTo(f, step, r) ==
    /\ saving' = [saving EXCEPT ![f].step = step, ![f].row = r]
    /\ UNCHANGED turns
SaverOnly == UNCHANGED <<attached, armed, clicked, posting>>

(* saveDraft: the row is updated if it is still there.                     *)
SaveLooks(f) ==
    /\ Calm /\ saving[f].step = "look"
    /\ \/ /\ GoesOnTo(f, IF localDrafts[saving[f].row] # Erased THEN "update" ELSE "create",
                      saving[f].row)
          /\ NoFault
       \/ Over(f, FALSE) /\ Fault
    /\ UNCHANGED <<dock, deletes, localDrafts, draftOf, fate, kept>> /\ SaverOnly

SaveUpdates(f) ==
    /\ Calm /\ saving[f].step = "update"
    /\ \/ /\ localDrafts' = [localDrafts EXCEPT ![saving[f].row] =
                               IF @ = Erased THEN Erased ELSE saving[f].text]
          /\ GoesOnTo(f, "return", saving[f].row) /\ NoFault
       \/ Over(f, FALSE) /\ Fault /\ UNCHANGED localDrafts
    /\ UNCHANGED <<dock, deletes, draftOf, fate, kept>> /\ SaverOnly

(* A row that is inserted has an id of its own. *)
NextRow(r) == draftOf[r] = 0 /\ \A q \in 1..r - 1 : draftOf[q] # 0

SaveCreates(f) ==
    /\ Calm /\ saving[f].step = "create"
    /\ \/ \E r \in RowId :
             /\ NextRow(r)
             /\ localDrafts' = [localDrafts EXCEPT ![r] = saving[f].text]
             /\ draftOf' = [draftOf EXCEPT ![r] = saving[f].draft]
             /\ GoesOnTo(f, "return", r) /\ NoFault
       \/ Over(f, FALSE) /\ Fault /\ UNCHANGED <<localDrafts, draftOf>>
    /\ UNCHANGED <<dock, deletes, fate, kept>> /\ SaverOnly

(* The row's id is written back to the session the save was for. If that   *)
(* is over, the save undoes itself.                                        *)
SaveReturns(f) ==
    /\ Calm /\ saving[f].step = "return"
    /\ IF dock.token = saving[f].token
       THEN /\ dock' = [dock EXCEPT !.row = saving[f].row]
            /\ Over(f, TRUE)
       ELSE GoesOnTo(f, "undo", saving[f].row) /\ UNCHANGED dock
    /\ NoFault
    /\ UNCHANGED <<deletes, localDrafts, draftOf, fate, kept>> /\ SaverOnly

KeepsTheRow(r) == localDrafts
WithoutRow(r) == [localDrafts EXCEPT ![r] = Erased]

(* A failed undo, like a failed delete, is only logged.                    *)
SaveUndoes(f) ==
    /\ Calm /\ saving[f].step = "undo" /\ Over(f, TRUE)
    /\ \/ localDrafts' = WithoutRow(saving[f].row) /\ NoFault /\ UNCHANGED fate
       \/ Fault /\ fate' = Blurred({saving[f].draft}) /\ UNCHANGED localDrafts
    /\ UNCHANGED <<dock, deletes, draftOf, kept>> /\ SaverOnly

RowIsDeleted(r) ==
    /\ Calm /\ r \in deletes /\ deletes' = deletes \ {r}
    /\ \/ localDrafts' = [localDrafts EXCEPT ![r] = Erased] /\ NoFault /\ UNCHANGED fate
       \/ Fault /\ fate' = Blurred({draftOf[r]}) /\ UNCHANGED localDrafts
    /\ UNCHANGED <<dock, saving, turns, draftOf, kept>> /\ SaverOnly

-----------------------------------------------------------------------------
(* The dock's session.                                                     *)

(* preserveSessionDraft: what was edited is saved before it is replaced.   *)
NeverFlushed(s) == FALSE
FlushedFirst(s) == ~s.pristine

(* The session is to be replaced by a reply (row 0) or by a stored draft.  *)
(* "earlier" are the turns under way.                                      *)
TurnTo(r, text, earlier) ==
    LET turn(f) == [waits |-> f, row |-> r, text |-> text, stale |-> FALSE,
                    draft |-> dock.draft, wrote |-> dock.text, ok |-> TRUE]
    IN  /\ sessions + Cardinality(turns) < MaxSessions
        /\ IF FlushedFirst(dock)
           THEN /\ armed' = FALSE
                /\ \E f \in SaveSlot : SaveNow(f) /\ turns' = earlier \cup {turn(f)}
           ELSE turns' = earlier \cup {turn(0)} /\ NoSaveBegins /\ UNCHANGED armed
        /\ UNCHANGED <<attached, dock, posting, deletes, localDrafts, draftOf, kept>>

(* open: a reply to another mail; an earlier open that still waits gives   *)
(* up.                                                                     *)
OpenReply ==
    /\ Calm
    /\ TurnTo(Unsaved, Untyped, {[t EXCEPT !.stale = (t.row = Unsaved)] : t \in turns})
    /\ UNCHANGED clicked

(* A row of the Drafts folder, or the draft of the mail that is shown, is  *)
(* clicked; its mail is looked up, and the latest click wins.              *)
ClickDraft(r) ==
    /\ Calm /\ localDrafts[r] # Erased
    /\ clicked' = [row |-> r, text |-> localDrafts[r]] /\ clicked' # clicked
    /\ UNCHANGED <<attached, dock, armed, saving, turns, posting, deletes,
                   localDrafts, draftOf, fate, kept, daBounds>>

(* resumeDraft: nothing to do for the draft that is open.                  *)
ResumeDraft ==
    /\ Calm /\ clicked # NoClick /\ clicked' = NoClick
    /\ IF dock.row = clicked.row
       THEN UNCHANGED <<attached, dock, armed, saving, turns, posting, deletes,
                        localDrafts, draftOf, fate, kept, daBounds>>
       ELSE TurnTo(clicked.row, clicked.text, turns)

(* The draft that is being replaced is left as its flush wrote it; an      *)
(* untouched reply is dropped. What was typed into another draft while the *)
(* flush was awaited, or could not be written, is lost.                    *)
Leaving(t) ==
    IF dock = NoSession THEN fate
    ELSE IF dock.pristine
         THEN Fated(dock.draft, IF dock.row = Unsaved THEN "ended" ELSE "left")
    ELSE IF t.draft = dock.draft /\ t.ok THEN Fated(dock.draft, "left")
    ELSE Blurred({dock.draft})

(* The stored draft was read when it was clicked. A save of an earlier     *)
(* session of the draft, still under way, ends by erasing the row that is  *)
(* resumed here: neither can the code answer for.                          *)
ReadsOldRow(t) == localDrafts[t.row] # t.text \/ t.row \in deletes

TurnComes(t) ==
    LET new  == sessions + 1
        left == IF dock = NoSession THEN kept
                ELSE [kept EXCEPT ![dock.draft] =
                        IF dock.pristine THEN dock.text ELSE t.wrote]
    IN  /\ t.waits = 0 /\ turns' = turns \ {t}
        /\ IF t.stale THEN UNCHANGED <<dock, fate, kept, sessions>>
           ELSE /\ sessions' = new /\ kept' = left
                /\ IF t.row = Unsaved
                   THEN /\ dock' = [NoSession EXCEPT !.draft = new, !.token = new]
                        /\ fate' = [Leaving(t) EXCEPT ![new] = "open"]
                   ELSE LET d == draftOf[t.row]
                        IN  /\ dock' = [draft |-> d, token |-> IF attached THEN d ELSE new,
                                           row |-> t.row, text |-> t.text, pristine |-> TRUE]
                            /\ fate' = [Leaving(t) EXCEPT ![d] =
                                          IF @ = "unclear" \/ ReadsOldRow(t) \/ IsBeingSaved(d)
                                          THEN "unclear" ELSE "open"]
        /\ UNCHANGED <<attached, armed, saving, clicked, posting, deletes, localDrafts,
                       draftOf, savesBegun, edits, faults>>

(* The session ends and its row, if it has one, is deleted.                *)
EndSession ==
    /\ dock' = NoSession
    /\ deletes' = deletes \cup ({dock.row} \ {Unsaved})

(* discard, and popOut, which hands the text to a window.                  *)
Discard ==
    /\ Calm /\ dock # NoSession
    /\ EndSession /\ fate' = Fated(dock.draft, "ended")
    /\ UNCHANGED <<attached, armed, saving, turns, clicked, posting, localDrafts,
                   draftOf, kept, daBounds>>

(* Delete Draft in the list: a draft that is open is discarded first.      *)
DeleteDraft(r) ==
    /\ Calm /\ localDrafts[r] # Erased /\ r \notin deletes
    /\ deletes' = deletes \cup {r}
    /\ dock' = IF dock.row = r THEN NoSession ELSE dock
    /\ fate' = IF dock.row # r /\ dock.draft = draftOf[r]
               THEN Blurred({draftOf[r]}) ELSE Fated(draftOf[r], "ended")
    /\ UNCHANGED <<attached, armed, saving, turns, clicked, posting, localDrafts,
                   draftOf, kept, daBounds>>

Post ==
    /\ Calm /\ dock # NoSession /\ posting = 0
    /\ posting' = dock.draft
    /\ UNCHANGED <<attached, dock, armed, saving, turns, clicked, deletes,
                   localDrafts, draftOf, fate, kept, daBounds>>

(* clearAfterSend ends whatever session is there by now.                   *)
PostEnds ==
    /\ Calm /\ posting # 0 /\ posting' = 0
    /\ \/ /\ EndSession /\ NoFault
          /\ fate' = IF dock.draft = posting THEN Fated(posting, "ended")
                     ELSE IF dock = NoSession /\ fate[posting] = "ended" THEN fate
                     ELSE Blurred({posting, dock.draft} \ {0})
       \/ Fault /\ UNCHANGED <<dock, deletes, fate>>
    /\ UNCHANGED <<attached, armed, saving, turns, clicked, localDrafts, draftOf, kept>>

DraftNext ==
    \/ Type \/ TimerFires \/ OpenReply \/ ResumeDraft \/ Discard \/ Post \/ PostEnds
    \/ \E f \in SaveSlot : SaveLooks(f) \/ SaveUpdates(f) \/ SaveCreates(f)
                           \/ SaveReturns(f) \/ SaveUndoes(f)
    \/ \E r \in RowId : RowIsDeleted(r) \/ ClickDraft(r) \/ DeleteDraft(r)
    \/ \E t \in turns : TurnComes(t)

DraftSpec == DraftInit /\ [][DraftNext]_daVars

-----------------------------------------------------------------------------

(* The variables' types.                                                   *)
DraftTypeOK ==
    /\ attached \in BOOLEAN /\ armed \in BOOLEAN
    /\ dock \in [draft : SessionId \cup {0}, token : SessionId \cup {0},
                    row : RowId \cup {Unsaved}, text : 0..MaxEdits, pristine : BOOLEAN]
    /\ \A f \in SaveSlot :
          /\ saving[f].step \in {"none", "look", "update", "create", "return", "undo"}
          /\ saving[f].step \in {"look", "update", "return", "undo"} =>
                saving[f].row \in RowId
    /\ \A t \in turns : t.waits \in SaveSlot \cup {0} /\ t.row \in RowId \cup {Unsaved}
    /\ posting \in SessionId \cup {0} /\ deletes \subseteq RowId
    /\ localDrafts \in [RowId -> 0..MaxEdits]
    /\ fate \in [SessionId -> {"none", "open", "left", "ended", "unclear"}]

AtRest == turns = {} /\ deletes = {} /\ \A f \in SaveSlot : saving[f] = NoSave

RowsOf(d) == {r \in RowId : draftOf[r] = d /\ localDrafts[r] # Erased}

(* Once nothing is under way, a draft the user turned away from has one    *)
(* row, which says what the draft said, and a draft that was sent or       *)
(* discarded has none: neither is a draft lost when another takes the dock *)
(* nor does a save that was under way bring back what was discarded        *)
(* (inlineComposerStore.ts 228-240, draftAutoSaveEngine.ts 66-71).         *)
DraftsAreAsLeft ==
    AtRest => \A d \in SessionId :
                 /\ fate[d] = "ended" => RowsOf(d) = {}
                 /\ fate[d] = "left" => \E r \in RowId : /\ RowsOf(d) = {r}
                                                         /\ localDrafts[r] = kept[d]
=============================================================================

------------------------------ MODULE ListView ------------------------------
(***************************************************************************)
(* The message list: threadStore shows the threads of one folder, loaded a *)
(* page at a time from a database that sync rounds and the user's own      *)
(* moves and deletions change meanwhile. A round announces its changes     *)
(* with an event, which sets off a debounced reload; a move or deletion is *)
(* shown before it is written, and not announced.                          *)
(*                                                                         *)
(* A thread is its place in the order of the list, by date and id, the     *)
(* latest first. What a row of the list says, the selection, and the pane  *)
(* (ReadingPane) are left out.                                             *)
(***************************************************************************)
EXTENDS Naturals, FiniteSets, Sequences

CONSTANTS
    Labels,     \* the account's folders
    LastThread, \* bound: threads
    PageSize,   \* limit of get_threads (50)
    MaxLoads,   \* bound: loads at once
    MaxTurns    \* bound: folders selected, removals, deltas and failures

NoLabel == "none"

ASSUME ListAssumption ==
    /\ NoLabel \notin Labels
    /\ LastThread \in Nat \ {0} /\ PageSize \in Nat \ {0} /\ MaxLoads \in Nat \ {0}
    /\ MaxTurns \in Nat

Thread == 1..LastThread
NullCursor == 0  \* no more pages, or none asked for
Load == 1..MaxLoads
NoLoad == [at |-> "free", more |-> FALSE, of |-> NoLabel, from |-> NullCursor,
           page |-> <<>>, next |-> NullCursor]
NoNewMail == [of |-> NoLabel, wipe |-> FALSE, added |-> {}, gone |-> {},
              deleted |-> 0, changed |-> FALSE]

VARIABLES
    inList,     \* thread_labels: the threads of each folder
    shown,      \* threadStore.threads
    pageCursor, \* threadStore.cursor
    query,      \* threadStore.currentQuery, which follows the folder selected
    isLoading,
    loads,      \* calls of loadThreads and loadMore under way
    debounce,   \* the reload's timer runs
    announced,  \* an event sync:delta is on its way
    applying,   \* where apply_folder_and_emit stands
    incoming,   \* the delta it applies and what it counted
    removals,   \* moves and deletions shown and not yet written
    unsure,     \* history: the list may differ from the database until it is
                \* loaded with nothing else under way
    turns

listStore == <<shown, pageCursor, query, isLoading>>
lvVars == <<inList, listStore, loads, debounce, announced, applying, incoming,
            removals, unsure, turns>>

ListInit ==
    /\ inList \in [Labels -> SUBSET Thread]
    /\ \A f, g \in Labels : f # g => inList[f] \cap inList[g] = {}
    /\ shown = <<>> /\ pageCursor = NullCursor /\ query = NoLabel
    /\ isLoading = FALSE /\ loads = [l \in Load |-> NoLoad]
    /\ debounce = FALSE /\ announced = FALSE
    /\ applying = "rest" /\ incoming = NoNewMail /\ removals = {}
    /\ unsure = FALSE
    /\ turns = 0

Turn == turns < MaxTurns /\ turns' = turns + 1

---------------------------------------------------------------------------
(* The store's loads.                                                      *)

FreeLoad(l) ==
    loads[l].at = "free" /\ \A k \in Load : k < l => loads[k].at # "free"
NoneUnderWay == \A l \in Load : loads[l].at = "free"

(* loadThreads empties the list at once. Neither a load that is out nor a  *)
(* removal that is not yet written is waited for.                          *)
LoadThreads(l, f) ==
    /\ FreeLoad(l)
    /\ loads' = [loads EXCEPT ![l] = [NoLoad EXCEPT !.at = "asked", !.of = f]]
    /\ isLoading' = TRUE /\ query' = f /\ shown' = <<>> /\ pageCursor' = NullCursor
    /\ unsure' = ~(NoneUnderWay /\ removals = {})

SelectFolder(l, f) ==
    /\ Turn
    /\ LoadThreads(l, f)
    /\ UNCHANGED <<inList, debounce, announced, applying, incoming, removals>>

CloseFolder ==
    /\ query # NoLabel /\ Turn
    /\ shown' = <<>> /\ query' = NoLabel /\ pageCursor' = NullCursor
    /\ UNCHANGED <<inList, isLoading, loads, debounce, announced, applying,
                   incoming, removals, unsure>>

MayLoadMore == query # NoLabel /\ pageCursor # NullCursor /\ ~isLoading

(* The list is scrolled to its end.                                        *)
LoadMore(l) ==
    /\ MayLoadMore /\ FreeLoad(l)
    /\ loads' = [loads EXCEPT ![l] = [NoLoad EXCEPT !.at = "asked", !.more = TRUE,
                                        !.of = query, !.from = pageCursor]]
    /\ isLoading' = TRUE /\ unsure' = (unsure \/ ~NoneUnderWay)
    /\ UNCHANGED <<inList, shown, pageCursor, query, debounce, announced, applying,
                   incoming, removals, turns>>

(* A set of numbers in ascending order: the i-th is the one with i of them *)
(* up to it.                                                               *)
UpTo(S, n) == {k \in S : k <= n}
InOrder(S) ==
    [i \in 1..Cardinality(S) |-> CHOOSE n \in S : Cardinality(UpTo(S, n)) = i]

(* get_threads, by keyset: what lies beyond the last row of the page       *)
(* before.                                                                 *)
AtOrBeyond(from, t) == t >= from
Beyond(from, t) == t > from

ReadPage(l) ==
    /\ loads[l].at = "asked"
    /\ LET rest == InOrder({t \in inList[loads[l].of] : Beyond(loads[l].from, t)})
           full == Len(rest) >= PageSize
       IN  loads' = [loads EXCEPT
                       ![l].at = "read",
                       ![l].page = IF full THEN SubSeq(rest, 1, PageSize) ELSE rest,
                       ![l].next = IF full THEN rest[PageSize] ELSE NullCursor]
    /\ UNCHANGED <<inList, listStore, debounce, announced, applying, incoming,
                   removals, unsure, turns>>

(* The answer is taken whatever the current query is.                      *)
TakePage(l) ==
    /\ loads[l].at = "read"
    /\ shown' = (IF loads[l].more THEN shown ELSE <<>>) \o loads[l].page
    /\ pageCursor' = loads[l].next /\ isLoading' = FALSE
    /\ loads' = [loads EXCEPT ![l] = NoLoad]
    /\ UNCHANGED <<inList, query, debounce, announced, applying, incoming,
                   removals, unsure, turns>>

LoadFails(l) ==
    /\ loads[l].at = "asked" /\ Turn
    /\ isLoading' = FALSE /\ loads' = [loads EXCEPT ![l] = NoLoad]
    /\ unsure' = (unsure \/ ~loads[l].more)
    /\ UNCHANGED <<inList, shown, pageCursor, query, debounce, announced, applying,
                   incoming, removals>>

---------------------------------------------------------------------------
(* The events.                                                             *)

HearDelta ==
    /\ announced /\ announced' = FALSE
    /\ debounce' = (debounce \/ query # NoLabel)
    /\ UNCHANGED <<inList, listStore, loads, applying, incoming, removals, unsure,
                   turns>>

DebounceOver ==
    /\ debounce /\ debounce' = FALSE
    /\ IF query = NoLabel
       THEN UNCHANGED <<listStore, loads, unsure>>
       ELSE \E l \in Load : LoadThreads(l, query)
    /\ UNCHANGED <<inList, announced, applying, incoming, removals, turns>>

---------------------------------------------------------------------------
(* Moves and deletions: the row goes at once, the command follows after    *)
(* awaits. A move's source is the folder selected when it is sent.         *)

RowsLeft(s, t) ==
    LET kept == InOrder({i \in 1..Len(s) : s[i] # t})
    IN  [k \in 1..Len(kept) |-> s[kept[k]]]
RowsShown == {shown[i] : i \in 1..Len(shown)}

RemoveRow(t, to) ==
    /\ Turn
    /\ t \in RowsShown /\ to \in (Labels \cup {NoLabel}) \ {query}
    /\ shown' = RowsLeft(shown, t)
    /\ removals' = removals \cup {[thread |-> t, to |-> to]}
    /\ UNCHANGED <<inList, pageCursor, query, isLoading, loads, debounce, announced,
                   applying, incoming, unsure>>

IsThread(t) == \E f \in Labels : t \in inList[f]

(* With no folder selected it is that of the message.                      *)
MovedFrom(f) == query \in {f, NoLabel}

WriteRemoval(r) ==
    /\ r \in removals /\ removals' = removals \ {r}
    /\ inList' = IF r.to = NoLabel \/ ~IsThread(r.thread)
                 THEN [f \in Labels |-> inList[f] \ {r.thread}]
                 ELSE [f \in Labels |->
                        {t \in inList[f] : t = r.thread => ~MovedFrom(f)}
                        \cup (IF f = r.to THEN {r.thread} ELSE {})]
    /\ UNCHANGED <<listStore, loads, debounce, announced, applying, incoming,
                   unsure, turns>>

RemovalFails(r) ==
    /\ r \in removals /\ removals' = removals \ {r} /\ Turn
    /\ unsure' = TRUE
    /\ UNCHANGED <<inList, listStore, loads, debounce, announced, applying,
                   incoming>>

---------------------------------------------------------------------------
(* apply_folder_and_emit: the wipe, the upserts and the deletions commit   *)
(* one after the other, and the event follows the last.                    *)

ViewStands == UNCHANGED <<listStore, loads, debounce, removals>>
Commits(ts) ==
    /\ inList' = [inList EXCEPT ![incoming.of] = ts]
    /\ incoming' = [incoming EXCEPT !.changed = @ \/ ts # inList[incoming.of]]

PullDelta(f, wipe, added, gone) ==
    /\ applying = "rest" /\ Turn
    /\ \A t \in added : ~IsThread(t) \/ (wipe /\ t \in inList[f])
    /\ gone \subseteq inList[f] /\ (wipe => gone = {})
    /\ wipe \/ added # {} \/ gone # {}
    /\ incoming' = [NoNewMail EXCEPT !.of = f, !.wipe = wipe, !.added = added,
                                     !.gone = gone]
    /\ applying' = IF wipe THEN "wipe" ELSE "upsert"
    /\ UNCHANGED <<inList, announced, unsure>> /\ ViewStands

ApplyWiped ==
    /\ applying = "wipe" /\ applying' = "upsert" /\ Commits({})
    /\ UNCHANGED <<announced, unsure, turns>> /\ ViewStands

ApplyNew ==
    /\ applying = "upsert" /\ applying' = "vanish"
    /\ Commits(inList[incoming.of] \cup incoming.added)
    /\ UNCHANGED <<announced, unsure, turns>> /\ ViewStands

Deleted == Cardinality(incoming.gone \cap inList[incoming.of])

ApplyVanish ==
    /\ applying = "vanish" /\ applying' = "emit"
    /\ inList' = [inList EXCEPT ![incoming.of] = @ \ incoming.gone]
    /\ incoming' = [incoming EXCEPT !.deleted = Deleted,
                                    !.changed = @ \/ Deleted > 0]
    /\ UNCHANGED <<announced, unsure, turns>> /\ ViewStands

(* A wipe is not counted: with nothing to refill it goes unannounced.      *)
Counted == incoming.added # {} \/ incoming.deleted > 0

EmitDelta ==
    /\ applying = "emit" /\ applying' = "rest" /\ incoming' = NoNewMail
    /\ announced' = (announced \/ Counted)
    /\ unsure' = (unsure \/ (incoming.changed /\ ~Counted))
    /\ UNCHANGED <<inList, turns>> /\ ViewStands

(* What a transaction committed before stays, and is not announced.        *)
ApplyFails ==
    /\ applying \in {"wipe", "upsert", "vanish"} /\ Turn
    /\ applying' = "rest" /\ incoming' = NoNewMail
    /\ unsure' = (unsure \/ incoming.changed)
    /\ UNCHANGED <<inList, announced>> /\ ViewStands

(* The folder is no longer on the server's LIST: an event of the table     *)
(* labels, which does not reload the list.                                 *)
PruneList(f) ==
    /\ applying = "rest" /\ Turn
    /\ inList' = [inList EXCEPT ![f] = {}] /\ unsure' = TRUE
    /\ UNCHANGED <<announced, applying, incoming>>
    /\ ViewStands

---------------------------------------------------------------------------
LoadStep ==
    \/ \E l \in Load, f \in Labels : SelectFolder(l, f)
    \/ CloseFolder
    \/ \E l \in Load : LoadMore(l) \/ ReadPage(l) \/ TakePage(l) \/ LoadFails(l)
    \/ HearDelta \/ DebounceOver

RemovalStep ==
    \/ \E t \in Thread, to \in Labels \cup {NoLabel} : RemoveRow(t, to)
    \/ \E r \in removals : WriteRemoval(r) \/ RemovalFails(r)

DeltaStep ==
    \/ \E f \in Labels, wipe \in BOOLEAN, added, gone \in SUBSET Thread :
         PullDelta(f, wipe, added, gone)
    \/ ApplyWiped \/ ApplyNew \/ ApplyVanish \/ EmitDelta \/ ApplyFails
    \/ \E f \in Labels : PruneList(f)

ListNext == LoadStep \/ RemovalStep \/ DeltaStep
ListSpec == ListInit /\ [][ListNext]_lvVars

---------------------------------------------------------------------------
(* The variables' types.                                                   *)
ListTypeOK ==
    /\ inList \in [Labels -> SUBSET Thread]
    /\ shown \in Seq(Thread) /\ pageCursor \in Thread \cup {NullCursor}
    /\ query \in Labels \cup {NoLabel}
    /\ isLoading \in BOOLEAN /\ debounce \in BOOLEAN /\ announced \in BOOLEAN
    /\ loads \in [Load -> [at : {"free", "asked", "read"}, more : BOOLEAN,
                           of : Labels \cup {NoLabel}, from : Thread \cup {NullCursor},
                           page : Seq(Thread), next : Thread \cup {NullCursor}]]
    /\ applying \in {"rest", "wipe", "upsert", "vanish", "emit"}
    /\ incoming \in [of : Labels \cup {NoLabel}, wipe : BOOLEAN,
                     added : SUBSET Thread, gone : SUBSET Thread,
                     deleted : 0..LastThread, changed : BOOLEAN]
    /\ removals \subseteq [thread : Thread, to : Labels \cup {NoLabel}]
    /\ unsure \in BOOLEAN
    /\ turns \in 0..MaxTurns

Settled ==
    /\ NoneUnderWay /\ ~debounce /\ ~announced /\ applying = "rest"
    /\ removals = {}

(* When nothing is under way the list shows, in order and once each, the   *)
(* folder's threads down to the end of the last page loaded, whatever was  *)
(* stored, deleted or moved between two pages, between a read and its      *)
(* answer, or between a commit and its event; unless loads overlapped, one *)
(* ran before a removal was written, or a change went unannounced.         *)
ListIsFresh ==
    Settled /\ query # NoLabel /\ ~unsure =>
        shown = InOrder({t \in inList[query] : pageCursor = NullCursor \/ t <= pageCursor})
=============================================================================

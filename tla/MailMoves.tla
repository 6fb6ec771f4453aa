----------------------------- MODULE MailMoves -----------------------------
(***************************************************************************)
(* The lists of an account's folders (thread_labels), and the moves and    *)
(* deletions that a user makes in them: the optimistic write, the queued   *)
(* operation, its replay as COPY, STORE and EXPUNGE, and the sync rounds   *)
(* that list the folders, prune labels and apply deltas.                   *)
(*                                                                         *)
(* One mail. The server gives it a new UID in each folder it is put in, so *)
(* it is a succession of copies, numbered as they are made; a row, with    *)
(* its thread of one message, is a copy's. FolderSync has the steps of a   *)
(* folder's sync and OutboxReplay the queue's order and backoff: here the  *)
(* first is one step, and a failed operation may wait or be tried again.   *)
(***************************************************************************)
EXTENDS Naturals, FiniteSets, FiniteSetsExt

CONSTANTS
    MailFolder,  \* the account's folders, each with its label
    Inbox,       \* the one the mail arrives in
    MaxCopies,   \* bound: copies made
    MaxGestures, \* bound: moves and deletions of the user's
    MaxRefusals, \* max_retries of a row (10)
    MaxLapses    \* bound: failures of the network, the server, the database
                 \* or the process

Nowhere == "nowhere"

ASSUME MovesAssumption ==
    /\ Inbox \in MailFolder /\ IsFiniteSet(MailFolder) /\ Nowhere \notin MailFolder
    /\ MaxCopies \in Nat \ {0} /\ MaxGestures \in Nat
    /\ MaxRefusals \in Nat \ {0} /\ MaxLapses \in Nat

Copy == 1..MaxCopies
NoCopy == 0
Place == MailFolder \cup {Nowhere}
Mutation == [no : 1..MaxGestures, kind : {"move", "delete", "void"},
             copy : Copy \cup {NoCopy}, to : Place, tries : 0..MaxRefusals]
NoGesture == [at |-> "none", kind |-> "void", copy |-> NoCopy,
              shown |-> Nowhere, to |-> Nowhere]
NoNews == [added |-> {}, gone |-> {}]

VARIABLES
    \* the server
    homeOf,       \* the folder each copy was put in, Nowhere before it is made
    onServer,     \* copies it has
    marked,       \* those with \Deleted
    \* the database
    stored,       \* copies with a row in messages
    threads,      \* copies with a row in threads
    threadLabels, \* pairs <<copy, folder>>: what the lists show
    labels,       \* folders with a label
    lastUid,      \* the cursor of each folder
    mutations,    \* pending rows of pending_operations
    \* the command of the user's that is on its way
    gesture,
    \* the worker
    mover,        \* the step it is at
    polling,      \* its round syncs when the queue is done
    due,          \* operations of the batch still to be replayed
    secondTry,    \* the actor has reconnected for this operation
    replyOk,      \* what the operation returned
    toSync,       \* folders of this round still to be synced
    syncing,      \* the folder being applied
    news,         \* its FolderDelta
    \* history
    wish,         \* where the user last put the mail, Nowhere once deleted
    touched,      \* copies the user has acted on
    quiet,        \* "no", "round": nothing changed since this poll round
                  \* began; "yes": nor since it ended
    again,        \* the user acted on a copy that was acted on before
    doubtful,     \* a move stopped between its three commands
    dropped,      \* an operation was given up, refused or never queued
    unlinked,     \* pairs that pruning by a partial LIST removed
    haunted,      \* threads whose sweep was lost
    gestures, lapses

serverSide == <<homeOf, onServer, marked>>
tables == <<stored, threads, threadLabels, labels, lastUid>>
worker == <<mover, polling, due, secondTry, replyOk, toSync, syncing, news>>
memory == <<wish, touched, again, doubtful, dropped, unlinked, haunted, gestures>>
mmVars == <<serverSide, tables, mutations, gesture, worker, memory, quiet, lapses>>

MovesInit ==
    /\ homeOf = [c \in Copy |-> IF c = 1 THEN Inbox ELSE Nowhere]
    /\ onServer = {1} /\ marked = {}
    /\ stored = {} /\ threads = {} /\ threadLabels = {} /\ labels = {}
    /\ lastUid = [f \in MailFolder |-> 0] /\ mutations = {}
    /\ gesture = NoGesture
    /\ mover = "rest" /\ polling = FALSE /\ due = {} /\ secondTry = FALSE
    /\ replyOk = FALSE /\ toSync = {} /\ syncing = Nowhere /\ news = NoNews
    /\ wish = Inbox /\ touched = {} /\ quiet = "no" /\ again = FALSE
    /\ doubtful = FALSE /\ dropped = FALSE /\ unlinked = {} /\ haunted = {}
    /\ gestures = 0 /\ lapses = 0

Lapse == lapses < MaxLapses /\ lapses' = lapses + 1 /\ quiet' = "no"
NoLapse == UNCHANGED <<lapses, quiet>>
Changed == quiet' = "no" /\ UNCHANGED lapses
Locked(c) == \E o \in mutations : o.copy = c

---------------------------------------------------------------------------
(* The user, in the list of a folder.                                      *)

Click(kind, c, f, to) ==
    /\ gesture = NoGesture /\ gestures < MaxGestures
    /\ f \in labels /\ <<c, f>> \in threadLabels
    /\ IF kind = "delete" THEN to = Nowhere ELSE to \in labels \ {f}
    /\ gesture' = [at |-> "clicked", kind |-> kind, copy |-> c, shown |-> f, to |-> to]
    /\ wish' = (IF wish = Nowhere THEN Nowhere ELSE to) /\ touched' = touched \cup {c}
    /\ again' = (again \/ c \in touched \/ homeOf[c] # f)
    /\ gestures' = gestures + 1 /\ Changed
    /\ UNCHANGED <<serverSide, tables, mutations, worker, doubtful, dropped,
                   unlinked, haunted>>

(* The orphan sweep, with the cascade from threads to thread_labels.       *)
Kept(ts) == {p \in threadLabels : p[1] \in ts}
Swept(rows) ==
    threads' = threads \cap rows /\ threadLabels' = Kept(threads \cap rows)

(* resolveMoveSource names the folder selected now, which after the await  *)
(* need not be the one that was clicked in. A thread whose row is gone has *)
(* no messages: the operation then names none.                             *)
LocalWrites(src) ==
    LET c == gesture.copy
        missing == c \notin stored
    IN  /\ gesture.at = "clicked"
        /\ gesture' = [gesture EXCEPT !.at = "written",
                           !.kind = IF missing THEN "void" ELSE @,
                           !.copy = IF missing THEN NoCopy ELSE @]
        /\ IF gesture.kind = "delete"
           THEN stored' = stored \ {c} /\ Swept(stored')
           ELSE /\ threadLabels' = IF missing THEN threadLabels
                                   ELSE (threadLabels \ {<<c, src>>}) \cup {<<c, gesture.to>>}
                /\ UNCHANGED <<stored, threads>>
        /\ unlinked' = unlinked \ threadLabels' /\ Changed
        /\ UNCHANGED <<serverSide, labels, lastUid, mutations, worker, wish,
                       touched, again, doubtful, dropped, haunted, gestures>>

Enqueue ==
    /\ gesture.at = "written"
    /\ mutations' = mutations \cup
           {[no |-> gestures, kind |-> gesture.kind, copy |-> gesture.copy,
             to |-> gesture.to, tries |-> 0]}
    /\ gesture' = NoGesture /\ Changed
    /\ UNCHANGED <<serverSide, tables, worker, memory>>

(* The command returns its error, which the frontend logs.                 *)
CommandFails ==
    /\ gesture # NoGesture /\ Lapse
    /\ gesture' = NoGesture /\ dropped' = TRUE
    /\ UNCHANGED <<serverSide, tables, mutations, worker, wish, touched, again,
                   doubtful, unlinked, haunted, gestures>>

---------------------------------------------------------------------------
(* The worker replays the queue. A row that failed waits for its backoff.  *)

Goes(step) == mover' = step
OnlyStep == UNCHANGED <<polling, due, secondTry, replyOk, toSync, syncing, news>>

StartReplay(poll, waiting) ==
    /\ mover = "rest" /\ Goes("replay") /\ polling' = poll
    /\ waiting \subseteq {o \in mutations : o.tries > 0}
    /\ due' = {o.no : o \in mutations \ waiting}
    /\ quiet' = IF poll THEN "round" ELSE "no"
    /\ UNCHANGED <<serverSide, tables, mutations, gesture, memory, lapses,
                   secondTry, replyOk, toSync, syncing, news>>

Oldest(o) == o.no = Min(due)

(* Each round builds its source anew and replays before it has asked for   *)
(* capabilities: use_move is false and a move always has three commands.   *)
CopyTakenAsDone(o) ==
    IF o.kind = "delete" \/ secondTry' THEN "store" ELSE "copy"
FirstCommand(o) == IF o.kind = "delete" THEN "store" ELSE "copy"
NextCommand == [copy |-> "store", store |-> "expunge", expunge |-> "mark"]

(* SELECT of the folder "" is refused.                                     *)
Execute(o) ==
    /\ mover = "replay" /\ due # {} /\ Oldest(o)
    /\ secondTry' = FALSE /\ replyOk' = FALSE
    /\ \/ Goes(IF o.kind = "void" THEN "mark" ELSE FirstCommand(o)) /\ Changed
       \/ Goes("mark") /\ Lapse
    /\ UNCHANGED <<serverSide, tables, mutations, gesture, memory, polling, due,
                   toSync, syncing, news>>

NewCopy == Cardinality({c \in Copy : homeOf[c] # Nowhere}) + 1
PutInto(f) ==
    NewCopy \in Copy /\ homeOf' = [homeOf EXCEPT ![NewCopy] = f]

(* What a command does on the server; it answers OK to a UID it has not.   *)
(* A copy has the flags of the message it is made of, \Deleted too.        *)
CopyTo(o) ==
    IF o.copy \in onServer
    THEN /\ PutInto(o.to) /\ onServer' = onServer \cup {NewCopy}
         /\ marked' = IF o.copy \in marked THEN marked \cup {NewCopy} ELSE marked
    ELSE UNCHANGED serverSide
StoreDeleted(o) ==
    /\ marked' = marked \cup ({o.copy} \cap onServer) /\ UNCHANGED <<homeOf, onServer>>
Expunge(o) ==
    LET gone == {c \in marked : homeOf[c] = homeOf[o.copy]}
    IN  /\ onServer' = onServer \ gone /\ marked' = marked \ gone
        /\ UNCHANGED homeOf
Effect(o) ==
    CASE mover = "copy" -> CopyTo(o)
      [] mover = "store" -> StoreDeleted(o)
      [] mover = "expunge" -> Expunge(o)

Talking == mover \in DOMAIN NextCommand
CommandOnly ==
    UNCHANGED <<tables, mutations, gesture, polling, due, toSync, syncing, news,
                wish, touched, again, unlinked, haunted, gestures>>

CommandDone(o) ==
    /\ Talking /\ Oldest(o) /\ Effect(o)
    /\ Goes(NextCommand[mover]) /\ replyOk' = TRUE /\ Changed
    /\ CommandOnly /\ UNCHANGED <<secondTry, doubtful, dropped>>

(* The connection breaks before or after the effect: the actor reconnects  *)
(* and runs the whole operation once more, or the error comes back.        *)
CommandLost(o) ==
    /\ Talking /\ Oldest(o) /\ Lapse
    /\ Effect(o) \/ UNCHANGED serverSide
    /\ \/ ~secondTry /\ secondTry' = TRUE /\ Goes(FirstCommand(o)) /\ UNCHANGED replyOk
       \/ UNCHANGED secondTry /\ Goes("mark") /\ replyOk' = FALSE
    /\ doubtful' = (doubtful \/ o.kind = "move")
    /\ CommandOnly /\ UNCHANGED dropped

(* The answers to STORE and to EXPUNGE are collected and not looked at: a   *)
(* refusal, or an error in their stream, passes for success.               *)
RefusalIgnored(o) ==
    /\ mover \in {"store", "expunge"} /\ Oldest(o) /\ Lapse
    /\ Goes(NextCommand[mover]) /\ replyOk' = TRUE /\ dropped' = TRUE
    /\ CommandOnly /\ UNCHANGED <<serverSide, secondTry, doubtful>>

DoneWhatever(o) == mutations \ {o}
Recorded(o) ==
    IF replyOk THEN mutations \ {o}
    ELSE IF o.tries + 1 >= MaxRefusals THEN mutations \ {o}
    ELSE (mutations \ {o}) \cup {[o EXCEPT !.tries = @ + 1]}

MarkReplayed(o) ==
    /\ mover = "mark" /\ Oldest(o)
    /\ due' = due \ {o.no} /\ Goes("replay")
    /\ \/ /\ mutations' = Recorded(o) /\ Changed
          /\ dropped' = (dropped \/ (~replyOk /\ o.tries + 1 >= MaxRefusals))
       \/ UNCHANGED <<mutations, dropped>> /\ Lapse
    /\ UNCHANGED <<serverSide, tables, gesture, polling, secondTry, replyOk,
                   toSync, syncing, news, wish, touched, again, doubtful, unlinked,
                   haunted, gestures>>

ReplayOver ==
    /\ mover = "replay" /\ due = {}
    /\ Goes(IF polling THEN "list" ELSE "rest") /\ NoLapse /\ OnlyStep
    /\ UNCHANGED <<serverSide, tables, mutations, gesture, memory>>

---------------------------------------------------------------------------
(* The round goes on with the list of folders. Rows of LIST that do not    *)
(* parse are left out of it.                                               *)

ListFolders(found) ==
    /\ mover = "list"
    /\ IF found = MailFolder THEN NoLapse ELSE Lapse
    /\ labels' = labels \cup found
    /\ Goes("prune") /\ toSync' = found
    /\ UNCHANGED <<serverSide, stored, threads, threadLabels, lastUid, mutations,
                   gesture, memory, polling, due, secondTry, replyOk, syncing, news>>

ListFails ==
    /\ mover = "list" /\ Lapse /\ Goes("rest") /\ OnlyStep
    /\ UNCHANGED <<serverSide, tables, mutations, gesture, memory>>

WhatIsNotFound(found) == labels \ found
Stale(found) == IF found = {} THEN {} ELSE labels \ found

PruneLabels ==
    /\ mover = "prune" /\ Goes("folders")
    /\ LET stale == Stale(toSync)
           cut == {p \in threadLabels : p[2] \in stale}
       IN  \/ /\ labels' = labels \ stale /\ threadLabels' = threadLabels \ cut
              /\ unlinked' = (IF toSync = {} THEN unlinked ELSE unlinked \cup cut)
              /\ NoLapse
           \/ UNCHANGED <<labels, threadLabels, unlinked>> /\ Lapse
    /\ OnlyStep
    /\ UNCHANGED <<serverSide, stored, threads, lastUid, mutations, gesture, wish,
                   touched, again, doubtful, dropped, haunted, gestures>>

---------------------------------------------------------------------------
(* Each folder: its delta, the upsert, the deletions with their sweep in a *)
(* transaction of its own, and the cursor.                                 *)

Of(copies, f) == {c \in copies : homeOf[c] = f}

SyncFolder(f) ==
    /\ mover = "folders" /\ f \in toSync
    /\ Goes("upsert") /\ syncing' = f /\ NoLapse
    /\ news' = [added |-> {c \in Of(onServer, f) : c > lastUid[f]},
                gone |-> Of(stored, f) \ onServer]
    /\ UNCHANGED <<serverSide, tables, mutations, gesture, memory, polling, due,
                   secondTry, replyOk, toSync>>

SyncFails(f) ==
    /\ mover = "folders" /\ f \in toSync /\ Lapse
    /\ toSync' = toSync \ {f}
    /\ UNCHANGED <<serverSide, tables, mutations, gesture, memory, mover, polling,
                   due, secondTry, replyOk, syncing, news>>

FolderDone ==
    /\ Goes("folders") /\ toSync' = toSync \ {syncing}
    /\ syncing' = Nowhere /\ news' = NoNews
    /\ UNCHANGED <<polling, due, secondTry, replyOk>>

FolderFails ==
    /\ mover \in {"upsert", "vanish", "sweep"} /\ Lapse /\ FolderDone
    /\ haunted' = haunted \cup (threads \ stored)
    /\ UNCHANGED <<serverSide, tables, mutations, gesture, wish, touched, again,
                   doubtful, dropped, unlinked, gestures>>

ApplyAdded ==
    LET written == {c \in news.added : ~Locked(c)}
    IN  /\ mover = "upsert" /\ Goes("vanish") /\ NoLapse
        /\ stored' = stored \cup written /\ threads' = threads \cup written
        /\ threadLabels' = threadLabels \cup {<<c, syncing>> : c \in written}
        /\ unlinked' = unlinked \ {<<c, syncing>> : c \in written} /\ OnlyStep
        /\ UNCHANGED <<serverSide, labels, lastUid, mutations, gesture, wish,
                       touched, again, doubtful, dropped, haunted, gestures>>

NeedsSweep(gone) == gone # {}

ApplyGone ==
    /\ mover = "vanish" /\ NoLapse
    /\ Goes(IF NeedsSweep(news.gone) THEN "sweep" ELSE "cursor")
    /\ stored' = stored \ news.gone /\ OnlyStep
    /\ UNCHANGED <<serverSide, threads, threadLabels, labels, lastUid, mutations,
                   gesture, memory>>

SweepOrphans ==
    /\ mover = "sweep" /\ Goes("cursor") /\ NoLapse
    /\ Swept(stored) /\ OnlyStep
    /\ UNCHANGED <<serverSide, stored, labels, lastUid, mutations, gesture, memory>>

AdvanceLastUid ==
    /\ mover = "cursor" /\ FolderDone
    /\ \/ /\ lastUid' = [lastUid EXCEPT ![syncing] = Max(news.added \cup {@})]
          /\ NoLapse
       \/ UNCHANGED lastUid /\ Lapse
    /\ UNCHANGED <<serverSide, stored, threads, threadLabels, labels, mutations,
                   gesture, memory>>

RoundOver ==
    /\ mover = "folders" /\ toSync = {} /\ Goes("rest")
    /\ quiet' = (IF quiet = "round" THEN "yes" ELSE quiet) /\ UNCHANGED lapses /\ OnlyStep
    /\ UNCHANGED <<serverSide, tables, mutations, gesture, memory>>

(* The process ends; what had been written but not queued is not queued.   *)
MoverCrash ==
    /\ mover # "rest" \/ gesture # NoGesture
    /\ Lapse /\ Goes("rest") /\ gesture' = NoGesture
    /\ due' = {} /\ secondTry' = FALSE /\ replyOk' = FALSE
    /\ toSync' = {} /\ syncing' = Nowhere /\ news' = NoNews
    /\ dropped' = (dropped \/ gesture # NoGesture)
    /\ doubtful' = (doubtful \/ (mover \in {"copy", "store", "expunge"}))
    /\ haunted' = haunted \cup (threads \ stored)
    /\ UNCHANGED <<serverSide, tables, mutations, polling, wish, touched, again,
                   unlinked, gestures>>

---------------------------------------------------------------------------
UserStep ==
    \/ \E kind \in {"move", "delete"}, c \in Copy, f \in MailFolder, to \in Place :
         Click(kind, c, f, to)
    \/ \E src \in MailFolder : LocalWrites(src)
    \/ Enqueue \/ CommandFails

ReplayStep ==
    \/ \E poll \in BOOLEAN, waiting \in SUBSET mutations : StartReplay(poll, waiting)
    \/ \E o \in mutations :
         Execute(o) \/ CommandDone(o) \/ CommandLost(o) \/ RefusalIgnored(o) \/ MarkReplayed(o)
    \/ ReplayOver

SyncStep ==
    \/ \E found \in SUBSET MailFolder : ListFolders(found)
    \/ ListFails \/ PruneLabels
    \/ \E f \in MailFolder : SyncFolder(f) \/ SyncFails(f)
    \/ FolderFails \/ ApplyAdded \/ ApplyGone \/ SweepOrphans \/ AdvanceLastUid
    \/ RoundOver

MovesNext == UserStep \/ ReplayStep \/ SyncStep \/ MoverCrash
MovesSpec == MovesInit /\ [][MovesNext]_mmVars

---------------------------------------------------------------------------
MovesTypeOK ==
    /\ homeOf \in [Copy -> Place]
    /\ onServer \subseteq Copy /\ marked \subseteq onServer
    /\ stored \subseteq Copy /\ threads \subseteq Copy
    /\ threadLabels \subseteq threads \X MailFolder
    /\ labels \subseteq MailFolder /\ lastUid \in [MailFolder -> 0..MaxCopies]
    /\ mutations \subseteq Mutation
    /\ polling \in BOOLEAN /\ due \subseteq 1..MaxGestures
    /\ secondTry \in BOOLEAN /\ replyOk \in BOOLEAN
    /\ toSync \subseteq MailFolder /\ syncing \in Place
    /\ news.added \subseteq Copy /\ news.gone \subseteq Copy
    /\ wish \in Place /\ quiet \in {"no", "round", "yes"}
    /\ gestures \in 0..MaxGestures /\ lapses \in 0..MaxLapses

Rested ==
    quiet = "yes" /\ mover = "rest" /\ gesture = NoGesture /\ mutations = {}

(* A mail the user has not deleted is never without a copy on the server,  *)
(* whichever command of a move is lost, repeated or overtaken.             *)
MoveKeepsMail == wish # Nowhere => onServer # {}

(* Once the queue is empty and a whole round went well, the mail is in the *)
(* folder the user last put it in, and there only, or gone if deleted.     *)
MovesArrive ==
    Rested /\ ~again /\ ~doubtful /\ ~dropped =>
        /\ Cardinality(onServer) <= 1
        /\ {homeOf[c] : c \in onServer} = {wish} \ {Nowhere}

(* Then, too, each folder's list shows the mail the server has in it.      *)
ListsShowServer ==
    Rested /\ ~dropped =>
        \A f \in MailFolder :
            {c \in Copy \ haunted : <<c, f>> \in threadLabels}
            = {c \in Of(onServer, f) : <<c, f>> \notin unlinked}
=============================================================================

-------------------------- MODULE MailMovesProofs --------------------------
(***************************************************************************)
(* Proofs about MailMoves: a mail that is not deleted keeps a copy on the  *)
(* server, the moves arrive, and the lists show what the server has.       *)
(* MovesInv is the inductive invariant, in parts: the types, with the      *)
(* copies numbered from one to the newest; what a row of the queue and the *)
(* gesture of the moment may be; an unmarked copy that no STORE is about   *)
(* to mark; what is pending for a copy the user has acted on; where the    *)
(* newest copy is, as long as nothing went wrong; and what the tables owe  *)
(* to a round's progress.                                                  *)
(***************************************************************************)
EXTENDS MailMoves, FiniteSetTheorems, WellFoundedInduction, TLAPS

Commands == {"copy", "store", "expunge"}
Applying == {"upsert", "vanish", "sweep", "cursor"}
MoverStep == {"rest", "replay", "mark", "list", "prune", "folders"} \cup Commands \cup Applying
Gesture == [at : {"none", "clicked", "written"}, kind : {"move", "delete", "void"},
            copy : Copy \cup {NoCopy}, shown : Place, to : Place]

Made == {c \in Copy : homeOf[c] # Nowhere}
Newest == NewCopy - 1
Current(o) == o \in mutations /\ Oldest(o)

ServerTypes ==
    /\ homeOf \in [Copy -> Place] /\ Newest \in Copy /\ Made = 1..Newest
    /\ onServer \subseteq Made /\ marked \subseteq onServer
TableTypes ==
    /\ stored \subseteq threads /\ threads \subseteq Made
    /\ threadLabels \subseteq threads \X MailFolder /\ labels \subseteq MailFolder
    /\ lastUid \in [MailFolder -> 0..Newest]
QueueTypes ==
    /\ mutations \subseteq Mutation /\ gesture \in Gesture
    /\ wish \in Place /\ touched \subseteq Made /\ gestures \in 0..MaxGestures
WorkerTypes ==
    /\ mover \in MoverStep /\ polling \in BOOLEAN /\ due \subseteq 1..MaxGestures
    /\ secondTry \in BOOLEAN /\ replyOk \in BOOLEAN
    /\ toSync \subseteq MailFolder /\ syncing \in Place
    /\ news \in [added : SUBSET Copy, gone : SUBSET Copy]
    /\ quiet \in {"no", "round", "yes"} /\ lapses \in 0..MaxLapses

(* Operations have numbers of their own, and a deletion is for good.       *)
QueueFits ==
    /\ \A o, p \in mutations : o.no = p.no => o = p
    /\ \A o \in mutations :
         /\ o.no <= gestures /\ (gesture # NoGesture => o.no < gestures)
         /\ o.copy \in touched \cup {NoCopy} /\ (o.kind # "void" => o.copy \in touched)
         /\ o.kind = "move" => o.to \in MailFolder
         /\ o.kind = "delete" => wish = Nowhere
    /\ gesture # NoGesture =>
         /\ gestures >= 1 /\ gesture.at \in {"clicked", "written"}
         /\ gesture.at = "clicked" => gesture.kind # "void"
         /\ gesture.copy \in touched \cup {NoCopy}
         /\ gesture.kind # "void" => gesture.copy \in touched
         /\ gesture.kind = "move" => gesture.to \in MailFolder
         /\ gesture.kind = "delete" => wish = Nowhere
    /\ mover \in Commands \cup {"mark"} => \E o \in mutations : Oldest(o)
    /\ mover \in Commands => \A o \in mutations : Oldest(o) => o.kind # "void"
    /\ mover = "copy" => \A o \in mutations : Oldest(o) => o.kind = "move"

(* A copy that is not marked, nor about to be.                             *)
MailKept ==
    wish # Nowhere =>
        /\ \E c \in onServer : c \notin marked
        /\ mover = "store" => \A o \in mutations :
             Oldest(o) => \E c \in onServer : c \notin marked /\ c # o.copy

(* What is done to a copy is pending as long as the server has it, unless  *)
(* an operation was dropped; and what is gone stays gone.                  *)
Pending(c) == gesture.copy = c \/ \E o \in mutations : o.copy = c
CopiesPend ==
    /\ threads \cap onServer \subseteq stored /\ news.gone \cap onServer = {}
    /\ news.gone \subseteq Made
    /\ haunted \subseteq Made /\ haunted \cap onServer = {}
    /\ gesture.at = "clicked" => gesture.copy \in threads \/ gesture.copy \notin onServer
    /\ ~dropped =>
         /\ \A c \in onServer \cap touched : Pending(c)
         /\ mover = "expunge" => \A o \in mutations :
              Oldest(o) /\ o.copy \in onServer => o.copy \in marked
         /\ mover = "mark" /\ replyOk => \A o \in mutations :
              Oldest(o) => o.copy \notin onServer

(* As long as nothing went wrong only the newest copy is there, but for    *)
(* the one that a move is about to remove.                                 *)
NothingWrong == ~again /\ ~doubtful /\ ~dropped
OnePending ==
    /\ \A o, p \in mutations : o.copy = p.copy => o = p
    /\ \A o \in mutations : o.kind # "void"
    /\ gesture # NoGesture =>
         /\ gesture.copy = Newest /\ gesture.kind # "void" /\ gesture.to = wish
         /\ \A o \in mutations : o.copy # Newest
OneCopy ==
    /\ \A c \in Made : c # Newest => c \in touched
    /\ \A c \in onServer : c # Newest =>
         /\ mover \in {"store", "expunge"}
         /\ \E o \in mutations : Oldest(o) /\ o.kind = "move" /\ o.copy = c
    /\ mover \in {"store", "expunge"} =>
         \A o \in mutations : Oldest(o) /\ o.kind = "move" => o.copy # Newest
    /\ \A c \in marked : \E o \in mutations :
         o.copy = c /\ (c = Newest => o.kind = "delete")
NewestFits ==
    /\ Newest \notin touched => Newest \in onServer /\ homeOf[Newest] = wish
    /\ Newest \in onServer \cap touched =>
         gesture.copy = Newest \/ \E o \in mutations : o.copy = Newest /\ o.to = wish
    /\ Newest \notin onServer =>
         /\ wish = Nowhere /\ gesture = NoGesture
         /\ \A o \in mutations : o.copy = Newest => o.kind = "delete"
CopiesFit == NothingWrong => OnePending /\ OneCopy /\ NewestFits

(* The rows and labels of the copies that the user has not acted on.       *)
LabelsFit ==
    /\ threadLabels \cap unlinked = {}
    /\ \A c \in Copy, f \in MailFolder :
         c \notin touched /\ <<c, f>> \in threadLabels => homeOf[c] = f
    /\ \A c \in (stored \cap onServer) \ touched :
         <<c, homeOf[c]>> \in threadLabels \cup unlinked
    /\ \A f \in MailFolder : \A c \in Of(onServer, f) \ touched :
         c <= lastUid[f] => c \in stored
    /\ mover # "sweep" => threads \subseteq stored \cup haunted

(* What a folder's delta has found, and the folders a quiet round has done.*)
NewsFit ==
    /\ mover \in Applying =>
         /\ syncing \in toSync /\ news.added \subseteq Of(onServer, syncing)
         /\ \A c \in Of(onServer, syncing) : c > lastUid[syncing] => c \in news.added
    /\ mover \in {"vanish", "sweep", "cursor"} => news.added \subseteq stored \cup touched
InSync(f) == \A c \in Made :
    homeOf[c] = f => /\ c \in stored => c \in onServer
                     /\ c \in onServer => c \in stored \cup touched
RoundFits ==
    /\ quiet = "round" =>
         /\ mover = "prune" => toSync = MailFolder
         /\ mover \in Applying \cup {"folders"} => \A f \in MailFolder \ toSync : InSync(f)
         /\ mover \in {"upsert", "vanish"} => Of(stored, syncing) \ onServer \subseteq news.gone
         /\ mover \in {"sweep", "cursor"} => Of(stored, syncing) \subseteq onServer
    /\ quiet = "yes" => mover = "rest" /\ \A f \in MailFolder : InSync(f)

MovesInv ==
    /\ ServerTypes /\ TableTypes /\ QueueTypes /\ WorkerTypes
    /\ QueueFits /\ MailKept /\ CopiesPend /\ CopiesFit
    /\ LabelsFit /\ NewsFit /\ RoundFits

---------------------------------------------------------------------------
(* The copies that were made are numbered without a gap.                   *)
LEMMA NewestIs ==
  ASSUME NEW n \in Nat, Made = 1..n
  PROVE  Newest = n
<1>1. Cardinality(1..n) = n
  BY FS_Interval
<1>2. Cardinality(Made) = n
  BY <1>1
<1>3. NewCopy = n + 1
  BY <1>2 DEF NewCopy, Made
<1> QED
  BY <1>3 DEF Newest

LEMMA FirstCopy ==
  ASSUME ServerTypes
  PROVE  Newest \in Nat /\ Newest >= 1 /\ Newest <= MaxCopies /\ NewCopy = Newest + 1
<1>1. Newest \in Nat /\ Newest >= 1 /\ Newest <= MaxCopies /\ Made = 1..Newest
  BY MovesAssumption DEF ServerTypes, Copy
<1>2. Cardinality(1..Newest) = Newest
  BY <1>1, FS_Interval
<1>3. NewCopy = Newest + 1
  BY <1>1, <1>2 DEF NewCopy, Made
<1> QED
  BY <1>1, <1>3

(* COPY gives the next number to the copy it makes.                        *)
LEMMA CopyMade ==
  ASSUME ServerTypes, NEW f \in MailFolder, PutInto(f)
  PROVE  /\ NewCopy \in Copy /\ NewCopy \notin Made /\ NewCopy = Newest + 1
         /\ Newest' = NewCopy /\ Made' = Made \cup {NewCopy} /\ Made' = 1..Newest'
         /\ homeOf' \in [Copy -> Place] /\ homeOf'[NewCopy] = f
         /\ \A c \in Made : homeOf'[c] = homeOf[c]
<1>1. Newest \in Nat /\ Newest >= 1 /\ NewCopy = Newest + 1 /\ Made = 1..Newest
  BY FirstCopy DEF ServerTypes
<1>2. NewCopy \in Copy /\ NewCopy \notin Made /\ NewCopy \in Nat
  BY <1>1 DEF PutInto
<1>3. PICK n : n = NewCopy
  OBVIOUS
<1>4. homeOf' = [homeOf EXCEPT ![n] = f] /\ homeOf \in [Copy -> Place] /\ f \in Place
  BY <1>3 DEF PutInto, ServerTypes, Place
<1>5. homeOf'[n] = f /\ \A c \in Copy : c # n => homeOf'[c] = homeOf[c]
  BY <1>2, <1>3, <1>4
<1>6. Made' = Made \cup {n}
  BY <1>2, <1>3, <1>5, MovesAssumption DEF Made
<1>7. Made' = 1..n
  BY <1>1, <1>3, <1>6
<1>8. Cardinality(1..n) = n /\ n \in Nat
  BY <1>2, <1>3, FS_Interval
<1>9. Newest' = n
  <2>1. Cardinality(Made') = n
    BY <1>7, <1>8
  <2>2. NewCopy' = n + 1
    BY <2>1 DEF NewCopy, Made
  <2> QED
    BY <2>2, <1>8 DEF Newest
<1>10. homeOf' \in [Copy -> Place]
  BY <1>4
<1>11. \A c \in Made : homeOf'[c] = homeOf[c]
  BY <1>2, <1>3, <1>5 DEF Made
<1> QED
  BY <1>1, <1>2, <1>3, <1>5, <1>6, <1>7, <1>9, <1>10, <1>11

(* A finite set of naturals has a maximum: here, of those below a bound.   *)
LEMMA MaxIn ==
  ASSUME NEW n \in Nat, NEW S \in SUBSET (0..n), S # {}
  PROVE  Max(S) \in S
<1> DEFINE Upper == {k \in Nat : \A y \in S : y <= k}
<1>1. n \in Upper
  OBVIOUS
<1>2. PICK k \in Upper : \A j \in Upper : ~(<<j, k>> \in OpToRel(<, Nat))
  <2> HIDE DEF Upper
  <2>1. Upper \subseteq Nat
    BY DEF Upper
  <2> QED
    BY <1>1, <2>1, WFMin, NatLessThanWellFounded
<1>3. \A j \in Upper : ~(j < k)
  BY <1>2 DEF OpToRel
<1>4. k \in S
  <2> SUFFICES ASSUME k \notin S PROVE FALSE
    OBVIOUS
  <2>1. k # 0
    <3>1. PICK y \in S : TRUE
      OBVIOUS
    <3>2. y \in Nat /\ y <= k /\ y # k
      BY <3>1
    <3> QED
      BY <3>2
  <2>2. k - 1 \in Upper
    <3>1. \A y \in S : y \in Nat /\ y <= k /\ y # k
      OBVIOUS
    <3> QED
      BY <2>1, <3>1
  <2> QED
    BY <2>2, <1>3
<1>5. \A y \in S : k >= y
  OBVIOUS
<1> QED
  BY <1>4, <1>5 DEF Max

---------------------------------------------------------------------------
LEMMA MovesBegin == MovesInit => MovesInv
<1> SUFFICES ASSUME MovesInit PROVE MovesInv
  OBVIOUS
<1> USE MovesAssumption DEF MovesInit
<1>1. ServerTypes
  <2>1. homeOf \in [Copy -> Place] /\ Made = 1..1 /\ 1 \in Copy
    BY DEF Made, Copy, Place
  <2>2. Newest = 1
    BY <2>1, NewestIs
  <2> QED
    BY <2>1, <2>2 DEF ServerTypes
<1>2. Newest \in Nat /\ Made = 1..Newest
  BY <1>1, FirstCopy DEF ServerTypes
<1>3. TableTypes
  BY <1>2 DEF TableTypes
<1>4. QueueTypes /\ WorkerTypes
  <2>1. NoGesture \in Gesture /\ NoNews \in [added : SUBSET Copy, gone : SUBSET Copy]
    BY DEF Gesture, NoGesture, Place, NoNews
  <2>2. 0 \in 0..MaxGestures /\ 0 \in 0..MaxLapses
    OBVIOUS
  <2>3. QueueTypes
    BY <2>1, <2>2 DEF QueueTypes, Place
  <2>4. WorkerTypes
    BY <2>1, <2>2 DEF WorkerTypes, MoverStep, Place
  <2> QED
    BY <2>3, <2>4
<1>5. QueueFits /\ MailKept
  BY DEF QueueFits, MailKept, Commands
<1>6. CopiesPend
  BY DEF CopiesPend, NoGesture, NoNews
<1>7. CopiesFit
  <2>1. 1 \in Copy
    BY DEF Copy
  <2>2. homeOf[1] = Inbox /\ \A c \in Made : c = 1
    BY <2>1 DEF Made
  <2>3. Newest \in Made /\ Newest = 1
    BY <1>1, <1>2, FirstCopy, <2>2
  <2> QED
    BY <2>2, <2>3 DEF CopiesFit, OnePending, OneCopy, NewestFits
<1>8. LabelsFit /\ NewsFit /\ RoundFits
  BY <1>1, <1>2 DEF LabelsFit, NewsFit, RoundFits, Applying, Of, ServerTypes, Copy
<1> QED
  BY <1>1, <1>3, <1>4, <1>5, <1>6, <1>7, <1>8 DEF MovesInv

---------------------------------------------------------------------------
(* A step that leaves the server, the queue and the user's part alone, and *)
(* is not at an operation, keeps what is said of them.                     *)
LEMMA QueueSideKept ==
  ASSUME MovesInv, UNCHANGED <<serverSide, mutations, gesture, wish, touched, again,
                               doubtful, dropped, gestures>>,
         mover \notin Commands \cup {"mark"}, mover' \notin Commands \cup {"mark"}
  PROVE  /\ ServerTypes' /\ QueueTypes' /\ QueueFits' /\ MailKept' /\ CopiesFit'
         /\ Newest' = Newest /\ Made' = Made
<1>1. UNCHANGED <<homeOf, onServer, marked>>
  BY DEF serverSide
<1>2. Newest' = Newest /\ Made' = Made
  BY <1>1 DEF Newest, NewCopy, Made
<1>3. ServerTypes'
  BY <1>1, <1>2 DEF MovesInv, ServerTypes
<1>4. QueueTypes'
  BY <1>2 DEF MovesInv, QueueTypes
<1>5. QueueFits'
  BY DEF MovesInv, QueueFits, Commands
<1>6. MailKept'
  BY <1>1 DEF MovesInv, MailKept, Commands
<1>7. CopiesFit'
  <2>1. NothingWrong' = NothingWrong
    BY DEF NothingWrong
  <2>2. OnePending => OnePending'
    BY <1>2 DEF OnePending
  <2>3. OneCopy => OneCopy'
    BY <1>1, <1>2 DEF OneCopy, Commands
  <2>4. NewestFits => NewestFits'
    BY <1>1, <1>2 DEF NewestFits
  <2> QED
    BY <2>1, <2>2, <2>3, <2>4 DEF MovesInv, CopiesFit
<1> QED
  BY <1>2, <1>3, <1>4, <1>5, <1>6, <1>7

LEMMA PendKept ==
  ASSUME CopiesPend,
         UNCHANGED <<serverSide, mutations, gesture, touched, dropped>>,
         mover' \notin Commands \cup {"mark"},
         threads' \cap onServer \subseteq stored', news'.gone \cap onServer = {},
         news'.gone \subseteq Made, haunted' \subseteq haunted \cup (threads \ stored),
         threads \subseteq Made,
         gesture.copy \in threads \cap onServer => gesture.copy \in threads'
  PROVE  CopiesPend'
<1>1. UNCHANGED <<homeOf, onServer, marked>>
  BY DEF serverSide
<1>2. Made' = Made
  BY <1>1 DEF Made
<1>3. haunted' \cap onServer = {} /\ haunted' \subseteq Made
  BY DEF CopiesPend
<1>4. ~dropped => \A c \in onServer \cap touched : Pending(c)'
  BY DEF CopiesPend, Pending
<1> QED
  BY <1>1, <1>2, <1>3, <1>4 DEF CopiesPend, Commands

(* The round before and after its folders.                                 *)
LEMMA RoundKept ==
  ASSUME MovesInv, UNCHANGED <<serverSide, mutations, gesture, memory, stored, threads,
                               threadLabels, lastUid, news, syncing>>,
         labels \subseteq labels' /\ labels' \subseteq MailFolder, WorkerTypes',
         mover \notin Commands \cup Applying \cup {"mark"},
         mover' \notin Commands \cup Applying \cup {"mark"}, RoundFits'
  PROVE  MovesInv'
<1>1. UNCHANGED <<wish, touched, again, doubtful, dropped, unlinked, haunted, gestures>>
  BY DEF memory
<1>2. /\ ServerTypes' /\ QueueTypes' /\ QueueFits' /\ MailKept' /\ CopiesFit'
      /\ Newest' = Newest /\ Made' = Made
  BY <1>1, QueueSideKept
<1>3. UNCHANGED <<homeOf, onServer, marked>>
  BY DEF serverSide
<1>4. TableTypes'
  BY <1>2 DEF MovesInv, TableTypes
<1>5. CopiesPend'
  <2>1. threads \subseteq Made /\ CopiesPend
    BY DEF MovesInv, TableTypes
  <2>2. /\ threads' \cap onServer \subseteq stored' /\ news'.gone \cap onServer = {}
        /\ news'.gone \subseteq Made
    BY <2>1 DEF CopiesPend
  <2> QED
    BY <1>1, <2>1, <2>2, PendKept
<1>6. LabelsFit' /\ NewsFit'
  BY <1>1, <1>3 DEF MovesInv, LabelsFit, NewsFit, Of, Applying
<1> QED
  BY <1>2, <1>4, <1>5, <1>6 DEF MovesInv

LEMMA RoundStep ==
  ASSUME MovesInv,
         \/ ReplayOver \/ ListFails \/ RoundOver
         \/ \E poll \in BOOLEAN, waiting \in SUBSET mutations : StartReplay(poll, waiting)
         \/ \E found \in SUBSET MailFolder : ListFolders(found)
         \/ \E f \in MailFolder : SyncFails(f)
  PROVE  MovesInv'
<1> USE DEF Commands, Applying
<1>1. WorkerTypes /\ RoundFits /\ mutations \subseteq Mutation
  BY DEF MovesInv, QueueTypes
<1>2. CASE ReplayOver
  <2>1. /\ UNCHANGED <<serverSide, tables, mutations, gesture, memory, lapses, quiet,
                       polling, due, secondTry, replyOk, toSync, syncing, news>>
        /\ mover = "replay" /\ mover' \in {"list", "rest"}
    BY <1>2 DEF ReplayOver, Goes, NoLapse, OnlyStep
  <2>2. WorkerTypes'
    BY <1>1, <2>1 DEF WorkerTypes, MoverStep
  <2>3. RoundFits'
    BY <1>1, <2>1 DEF RoundFits
  <2> QED
    BY <2>1, <2>2, <2>3, RoundKept DEF tables, MovesInv, TableTypes
<1>3. CASE ListFails
  <2>1. /\ UNCHANGED <<serverSide, tables, mutations, gesture, memory,
                       polling, due, secondTry, replyOk, toSync, syncing, news>>
        /\ mover = "list" /\ mover' = "rest" /\ quiet' = "no"
        /\ lapses < MaxLapses /\ lapses' = lapses + 1
    BY <1>3 DEF ListFails, Goes, Lapse, OnlyStep
  <2>2. WorkerTypes'
    BY <1>1, <2>1, MovesAssumption DEF WorkerTypes, MoverStep
  <2>3. RoundFits'
    BY <2>1 DEF RoundFits
  <2> QED
    BY <2>1, <2>2, <2>3, RoundKept DEF tables, MovesInv, TableTypes
<1>4. CASE RoundOver
  <2>1. /\ UNCHANGED <<serverSide, tables, mutations, gesture, memory, lapses,
                       polling, due, secondTry, replyOk, toSync, syncing, news>>
        /\ mover = "folders" /\ mover' = "rest" /\ toSync = {}
        /\ quiet' = IF quiet = "round" THEN "yes" ELSE quiet
    BY <1>4 DEF RoundOver, Goes, OnlyStep
  <2>2. WorkerTypes'
    BY <1>1, <2>1 DEF WorkerTypes, MoverStep
  <2>3. RoundFits'
    <3>1. UNCHANGED <<homeOf, onServer, stored, touched>>
      BY <2>1 DEF serverSide, tables, memory
    <3>2. \A f \in MailFolder : InSync(f)' = InSync(f)
      BY <3>1 DEF InSync, Made
    <3> QED
      BY <1>1, <2>1, <3>2 DEF RoundFits
  <2> QED
    BY <2>1, <2>2, <2>3, RoundKept DEF tables, MovesInv, TableTypes
<1>5. ASSUME NEW poll \in BOOLEAN, NEW waiting \in SUBSET mutations, StartReplay(poll, waiting)
      PROVE  MovesInv'
  <2>1. /\ UNCHANGED <<serverSide, tables, mutations, gesture, memory, lapses,
                       secondTry, replyOk, toSync, syncing, news>>
        /\ mover = "rest" /\ mover' = "replay" /\ polling' = poll
        /\ due' = {o.no : o \in mutations \ waiting} /\ quiet' \in {"no", "round"}
    BY <1>5 DEF StartReplay, Goes
  <2>2. due' \subseteq 1..MaxGestures
    BY <1>1, <2>1 DEF Mutation
  <2>3. WorkerTypes'
    BY <1>1, <2>1, <2>2 DEF WorkerTypes, MoverStep
  <2>4. RoundFits'
    BY <2>1 DEF RoundFits
  <2> QED
    BY <2>1, <2>3, <2>4, RoundKept DEF tables, MovesInv, TableTypes
<1>6. ASSUME NEW found \in SUBSET MailFolder, ListFolders(found)
      PROVE  MovesInv'
  <2>1. /\ UNCHANGED <<serverSide, stored, threads, threadLabels, lastUid, mutations,
                       gesture, memory, polling, due, secondTry, replyOk, syncing, news>>
        /\ labels' = labels \cup found /\ toSync' = found
        /\ mover = "list" /\ mover' = "prune"
        /\ \/ lapses' = lapses /\ quiet' = quiet /\ found = MailFolder
           \/ lapses < MaxLapses /\ lapses' = lapses + 1 /\ quiet' = "no"
    BY <1>6 DEF ListFolders, Goes, Lapse, NoLapse
  <2>2. lapses' \in 0..MaxLapses
    BY <1>1, <2>1, MovesAssumption DEF WorkerTypes
  <2>3. WorkerTypes'
    BY <1>1, <2>1, <2>2 DEF WorkerTypes, MoverStep
  <2>4. RoundFits'
    BY <1>1, <2>1 DEF RoundFits
  <2>5. labels \subseteq labels' /\ labels' \subseteq MailFolder
    BY <2>1 DEF MovesInv, TableTypes
  <2> QED
    BY <2>1, <2>3, <2>4, <2>5, RoundKept
<1>7. ASSUME NEW f \in MailFolder, SyncFails(f)
      PROVE  MovesInv'
  <2>1. /\ UNCHANGED <<serverSide, tables, mutations, gesture, memory, mover, polling,
                       due, secondTry, replyOk, syncing, news>>
        /\ mover = "folders" /\ toSync' = toSync \ {f} /\ quiet' = "no"
        /\ lapses < MaxLapses /\ lapses' = lapses + 1
    BY <1>7 DEF SyncFails, Lapse
  <2>2. WorkerTypes'
    BY <1>1, <2>1, MovesAssumption DEF WorkerTypes
  <2>3. RoundFits'
    BY <2>1 DEF RoundFits
  <2> QED
    BY <2>1, <2>2, <2>3, RoundKept DEF tables, MovesInv, TableTypes
<1> QED
  BY <1>2, <1>3, <1>4, <1>5, <1>6, <1>7

(* The labels of folders that LIST did not show.                           *)
LEMMA PruneStep ==
  ASSUME MovesInv, PruneLabels
  PROVE  MovesInv'
<1> USE DEF Commands, Applying
<1>1. PICK cut \in SUBSET threadLabels :
        /\ UNCHANGED <<serverSide, stored, threads, lastUid, mutations, gesture, wish,
                       touched, again, doubtful, dropped, haunted, gestures,
                       polling, due, secondTry, replyOk, toSync, syncing, news>>
        /\ mover = "prune" /\ mover' = "folders" /\ labels' \subseteq labels
        /\ threadLabels' = threadLabels \ cut
        /\ unlinked' = unlinked \cup cut
        /\ \/ lapses' = lapses /\ quiet' = quiet
           \/ lapses < MaxLapses /\ lapses' = lapses + 1 /\ quiet' = "no"
  <2> DEFINE all == {p \in threadLabels : p[2] \in Stale(toSync)}
  <2>1. toSync = {} => all = {}
    BY DEF Stale
  <2>2. CASE /\ labels' = labels \ Stale(toSync) /\ threadLabels' = threadLabels \ all
             /\ unlinked' = (IF toSync = {} THEN unlinked ELSE unlinked \cup all)
             /\ NoLapse
    <3>1. unlinked' = unlinked \cup all
      BY <2>1, <2>2
    <3>2. WITNESS all \in SUBSET threadLabels
    <3> QED
      BY <2>2, <3>1 DEF PruneLabels, Goes, NoLapse, OnlyStep
  <2>3. CASE UNCHANGED <<labels, threadLabels, unlinked>> /\ Lapse
    <3>1. WITNESS {} \in SUBSET threadLabels
    <3> QED
      BY <2>3 DEF PruneLabels, Goes, Lapse, OnlyStep
  <2> QED
    BY <2>2, <2>3 DEF PruneLabels
<1>2. TableTypes /\ WorkerTypes /\ CopiesPend /\ LabelsFit /\ NewsFit /\ RoundFits
  BY DEF MovesInv
<1>3. /\ ServerTypes' /\ QueueTypes' /\ QueueFits' /\ MailKept' /\ CopiesFit'
      /\ Newest' = Newest /\ Made' = Made
  BY <1>1, QueueSideKept
<1>4. UNCHANGED <<homeOf, onServer, marked>>
  BY <1>1 DEF serverSide
<1>5. TableTypes'
  BY <1>1, <1>2, <1>3 DEF TableTypes
<1>6. WorkerTypes'
  <2>1. lapses' \in 0..MaxLapses
    BY <1>1, <1>2, MovesAssumption DEF WorkerTypes
  <2> QED
    BY <1>1, <1>2, <2>1 DEF WorkerTypes, MoverStep
<1>7. CopiesPend'
  <2>1. /\ threads' \cap onServer \subseteq stored' /\ news'.gone \cap onServer = {}
        /\ news'.gone \subseteq Made /\ threads \subseteq Made
    BY <1>1, <1>2 DEF CopiesPend, TableTypes
  <2> QED
    BY <1>1, <1>2, <2>1, PendKept
<1>8. LabelsFit'
  <2>1. threadLabels' \cap unlinked' = {}
    BY <1>1, <1>2 DEF LabelsFit
  <2>2. \A c \in (stored' \cap onServer') \ touched' :
          <<c, homeOf'[c]>> \in threadLabels' \cup unlinked'
    BY <1>1, <1>2, <1>4 DEF LabelsFit
  <2> QED
    BY <1>1, <1>2, <1>4, <2>1, <2>2 DEF LabelsFit, Of
<1>9. NewsFit'
  BY <1>1 DEF NewsFit
<1>10. RoundFits'
  BY <1>1, <1>2 DEF RoundFits
<1> QED
  BY <1>3, <1>5, <1>6, <1>7, <1>8, <1>9, <1>10 DEF MovesInv

(* A folder's delta, as computed.                                          *)
LEMMA DeltaStep ==
  ASSUME MovesInv, NEW f \in MailFolder, SyncFolder(f)
  PROVE  MovesInv'
<1> USE DEF Commands, Applying
<1>1. /\ UNCHANGED <<serverSide, tables, mutations, gesture, memory, polling, due,
                     secondTry, replyOk, toSync, lapses, quiet>>
      /\ mover = "folders" /\ mover' = "upsert" /\ f \in toSync /\ syncing' = f
      /\ news' = [added |-> {c \in Of(onServer, f) : c > lastUid[f]},
                  gone |-> Of(stored, f) \ onServer]
  BY DEF SyncFolder, Goes, NoLapse
<1>2. /\ UNCHANGED <<homeOf, onServer, marked, stored, threads, threadLabels, labels,
                     lastUid, touched, again, wish, doubtful, dropped, gestures, haunted,
                     unlinked>>
  BY <1>1 DEF serverSide, tables, memory
<1>3. /\ TableTypes /\ WorkerTypes /\ CopiesPend /\ LabelsFit /\ NewsFit /\ RoundFits
      /\ ServerTypes
  BY DEF MovesInv
<1>4. /\ ServerTypes' /\ QueueTypes' /\ QueueFits' /\ MailKept' /\ CopiesFit'
      /\ Newest' = Newest /\ Made' = Made
  BY <1>1, <1>2, QueueSideKept
<1>5. TableTypes'
  BY <1>2, <1>3, <1>4 DEF TableTypes
<1>6. news'.added \subseteq Copy /\ news'.gone \subseteq Made /\ Made \subseteq Copy
  BY <1>1, <1>3 DEF Of, ServerTypes, TableTypes, Made
<1>7. WorkerTypes'
  BY <1>1, <1>3, <1>6 DEF WorkerTypes, MoverStep, Place
<1>8. CopiesPend'
  <2>1. /\ threads' \cap onServer \subseteq stored' /\ news'.gone \cap onServer = {}
        /\ threads \subseteq Made
    BY <1>1, <1>2, <1>3 DEF CopiesPend, TableTypes
  <2> QED
    BY <1>1, <1>2, <1>3, <1>6, <2>1, PendKept
<1>9. LabelsFit'
  BY <1>1, <1>2, <1>3 DEF LabelsFit, Of
<1>10. NewsFit'
  BY <1>1, <1>2 DEF NewsFit, Of
<1>11. RoundFits'
  BY <1>1, <1>2, <1>3, <1>4 DEF RoundFits, InSync, Of
<1> QED
  BY <1>4, <1>5, <1>7, <1>8, <1>9, <1>10, <1>11 DEF MovesInv

(* The folder is given up; what the sweep would have removed is haunted.   *)
LEMMA FailStep ==
  ASSUME MovesInv, FolderFails
  PROVE  MovesInv'
<1> USE DEF Commands, Applying
<1>1. /\ UNCHANGED <<serverSide, tables, mutations, gesture, wish, touched, again,
                     doubtful, dropped, unlinked, gestures, polling, due, secondTry, replyOk>>
      /\ mover \in Applying /\ mover' = "folders" /\ quiet' = "no"
      /\ lapses < MaxLapses /\ lapses' = lapses + 1
      /\ haunted' = haunted \cup (threads \ stored)
      /\ toSync' = toSync \ {syncing} /\ syncing' = Nowhere /\ news' = NoNews
  BY DEF FolderFails, FolderDone, Goes, Lapse
<1>2. /\ UNCHANGED <<homeOf, onServer, marked, stored, threads, threadLabels, labels, lastUid>>
  BY <1>1 DEF serverSide, tables
<1>3. /\ TableTypes /\ WorkerTypes /\ CopiesPend /\ LabelsFit
  BY DEF MovesInv
<1>4. /\ ServerTypes' /\ QueueTypes' /\ QueueFits' /\ MailKept' /\ CopiesFit'
      /\ Newest' = Newest /\ Made' = Made
  BY <1>1, QueueSideKept
<1>5. TableTypes'
  BY <1>2, <1>3, <1>4 DEF TableTypes
<1>6. WorkerTypes'
  <2>1. lapses' \in 0..MaxLapses
    BY <1>1, <1>3, MovesAssumption DEF WorkerTypes
  <2> QED
    BY <1>1, <1>3, <2>1 DEF WorkerTypes, MoverStep, Place, NoNews
<1>7. CopiesPend'
  <2>1. /\ threads' \cap onServer \subseteq stored' /\ news'.gone = {} /\ threads \subseteq Made
    BY <1>1, <1>2, <1>3 DEF CopiesPend, TableTypes, NoNews
  <2> QED
    BY <1>1, <1>2, <1>3, <2>1, PendKept
<1>8. LabelsFit'
  BY <1>1, <1>2, <1>3 DEF LabelsFit, Of
<1>9. NewsFit' /\ RoundFits'
  BY <1>1 DEF NewsFit, RoundFits
<1> QED
  BY <1>4, <1>5, <1>6, <1>7, <1>8, <1>9 DEF MovesInv

(* The upsert: what no queued operation has locked.                        *)
LEMMA UpsertStep ==
  ASSUME MovesInv, ApplyAdded
  PROVE  MovesInv'
<1> USE DEF Commands, Applying
<1> DEFINE written == {c \in news.added : ~Locked(c)}
<1>1. /\ UNCHANGED <<serverSide, labels, lastUid, mutations, gesture, wish, touched, again,
                     doubtful, dropped, haunted, gestures, polling, due, secondTry,
                     replyOk, toSync, syncing, news, lapses, quiet>>
      /\ mover = "upsert" /\ mover' = "vanish"
      /\ stored' = stored \cup written /\ threads' = threads \cup written
      /\ threadLabels' = threadLabels \cup {<<c, syncing>> : c \in written}
      /\ unlinked' = unlinked \ {<<c, syncing>> : c \in written}
  BY DEF ApplyAdded, Goes, NoLapse, OnlyStep
<1>2. UNCHANGED <<homeOf, onServer, marked>>
  BY <1>1 DEF serverSide
<1>3. /\ TableTypes /\ WorkerTypes /\ CopiesPend /\ LabelsFit /\ NewsFit /\ RoundFits
      /\ ServerTypes /\ QueueFits
  BY DEF MovesInv
<1>4. /\ ServerTypes' /\ QueueTypes' /\ QueueFits' /\ MailKept' /\ CopiesFit'
      /\ Newest' = Newest /\ Made' = Made
  BY <1>1, QueueSideKept
<1>5. /\ \A c \in written : c \in onServer /\ homeOf[c] = syncing /\ c \in Made
      /\ syncing \in MailFolder /\ \A c \in news.added : c \in written \/ c \in touched
  <2>1. /\ \A c \in news.added : c \in onServer /\ homeOf[c] = syncing /\ c \in Made
        /\ syncing \in MailFolder
    BY <1>1, <1>3 DEF NewsFit, Of, WorkerTypes, ServerTypes
  <2>2. \A c \in news.added : Locked(c) => c \in touched \cup {NoCopy}
    BY <1>3 DEF QueueFits, Locked
  <2>3. NoCopy \notin Made
    BY DEF Made, Copy, NoCopy
  <2> QED
    BY <2>1, <2>2, <2>3
<1>6. TableTypes'
  BY <1>1, <1>3, <1>4, <1>5 DEF TableTypes
<1>7. WorkerTypes'
  BY <1>1, <1>3 DEF WorkerTypes, MoverStep
<1>8. CopiesPend'
  <2>1. /\ threads' \cap onServer \subseteq stored' /\ news'.gone \cap onServer = {}
        /\ news'.gone \subseteq Made /\ threads \subseteq Made
    BY <1>1, <1>3 DEF CopiesPend, TableTypes
  <2> QED
    BY <1>1, <1>3, <2>1, PendKept
<1>9. LabelsFit'
  <2>1. threadLabels' \cap unlinked' = {}
    BY <1>1, <1>3 DEF LabelsFit
  <2>2. \A c \in Copy, f \in MailFolder :
          c \notin touched' /\ <<c, f>> \in threadLabels' => homeOf'[c] = f
    BY <1>1, <1>2, <1>3, <1>5 DEF LabelsFit
  <2>3. ASSUME NEW c \in (stored' \cap onServer') \ touched'
        PROVE  <<c, homeOf'[c]>> \in threadLabels' \cup unlinked'
    <3>1. CASE c \in written
      BY <3>1, <1>1, <1>2, <1>5
    <3>2. CASE c \notin written
      <4>1. <<c, homeOf[c]>> \in threadLabels \cup unlinked
        BY <3>2, <1>1, <1>2, <1>3, <2>3 DEF LabelsFit
      <4>2. <<c, homeOf[c]>> \notin {<<d, syncing>> : d \in written}
        BY <3>2
      <4> QED
        BY <4>1, <4>2, <1>1, <1>2
    <3> QED
      BY <3>1, <3>2
  <2>4. \A f \in MailFolder : \A c \in Of(onServer, f)' \ touched' :
          c <= lastUid'[f] => c \in stored'
    BY <1>1, <1>2, <1>3 DEF LabelsFit, Of
  <2>5. threads' \subseteq stored' \cup haunted'
    BY <1>1, <1>3 DEF LabelsFit
  <2> QED
    BY <1>2, <2>1, <2>2, <2>3, <2>4, <2>5 DEF LabelsFit
<1>10. NewsFit'
  BY <1>1, <1>2, <1>3, <1>5 DEF NewsFit, Of
<1>11. RoundFits'
  BY <1>1, <1>2, <1>3, <1>4, <1>5 DEF RoundFits, InSync, Of
<1> QED
  BY <1>4, <1>6, <1>7, <1>8, <1>9, <1>10, <1>11 DEF MovesInv

(* The rows of what the folder has no more.                                *)
LEMMA VanishStep ==
  ASSUME MovesInv, ApplyGone
  PROVE  MovesInv'
<1> USE DEF Commands, Applying
<1>1. /\ UNCHANGED <<serverSide, threads, threadLabels, labels, lastUid, mutations, gesture,
                     memory, polling, due, secondTry, replyOk, toSync, syncing, news,
                     lapses, quiet>>
      /\ mover = "vanish" /\ mover' = IF news.gone = {} THEN "cursor" ELSE "sweep"
      /\ stored' = stored \ news.gone
  BY DEF ApplyGone, Goes, NoLapse, OnlyStep, NeedsSweep
<1>2. UNCHANGED <<homeOf, onServer, marked, wish, touched, again, doubtful, dropped, unlinked,
                  haunted, gestures>>
  BY <1>1 DEF serverSide, memory
<1>3. /\ TableTypes /\ WorkerTypes /\ CopiesPend /\ LabelsFit /\ NewsFit /\ RoundFits
      /\ ServerTypes
  BY DEF MovesInv
<1>4. /\ ServerTypes' /\ QueueTypes' /\ QueueFits' /\ MailKept' /\ CopiesFit'
      /\ Newest' = Newest /\ Made' = Made
  BY <1>1, <1>2, QueueSideKept
<1>5. \A c \in onServer : c \in stored => c \in stored'
  BY <1>1, <1>3 DEF CopiesPend
<1>6. TableTypes'
  BY <1>1, <1>3, <1>4 DEF TableTypes
<1>7. WorkerTypes'
  BY <1>1, <1>3 DEF WorkerTypes, MoverStep
<1>8. CopiesPend'
  <2>1. /\ threads' \cap onServer \subseteq stored' /\ news'.gone \cap onServer = {}
        /\ news'.gone \subseteq Made /\ threads \subseteq Made
    BY <1>1, <1>3, <1>5 DEF CopiesPend, TableTypes
  <2> QED
    BY <1>1, <1>2, <1>3, <2>1, PendKept
<1>9. LabelsFit'
  BY <1>1, <1>2, <1>3, <1>5 DEF LabelsFit, Of
<1>10. NewsFit'
  BY <1>1, <1>2, <1>3, <1>5 DEF NewsFit, Of
<1>11. RoundFits'
  BY <1>1, <1>2, <1>3, <1>4, <1>5 DEF RoundFits, InSync, Of
<1> QED
  BY <1>4, <1>6, <1>7, <1>8, <1>9, <1>10, <1>11 DEF MovesInv

LEMMA SweepStep ==
  ASSUME MovesInv, SweepOrphans
  PROVE  MovesInv'
<1> USE DEF Commands, Applying
<1>1. /\ UNCHANGED <<serverSide, stored, labels, lastUid, mutations, gesture, memory,
                     polling, due, secondTry, replyOk, toSync, syncing, news, lapses, quiet>>
      /\ mover = "sweep" /\ mover' = "cursor"
      /\ threads' = threads \cap stored
      /\ threadLabels' = {p \in threadLabels : p[1] \in threads'}
  BY DEF SweepOrphans, Goes, NoLapse, OnlyStep, Swept, Kept
<1>2. UNCHANGED <<homeOf, onServer, marked, wish, touched, again, doubtful, dropped, unlinked,
                  haunted, gestures>>
  BY <1>1 DEF serverSide, memory
<1>3. /\ TableTypes /\ WorkerTypes /\ CopiesPend /\ LabelsFit /\ NewsFit /\ RoundFits
      /\ ServerTypes
  BY DEF MovesInv
<1>4. /\ ServerTypes' /\ QueueTypes' /\ QueueFits' /\ MailKept' /\ CopiesFit'
      /\ Newest' = Newest /\ Made' = Made
  BY <1>1, <1>2, QueueSideKept
<1>5. stored' \subseteq threads'
  BY <1>1, <1>3 DEF TableTypes
<1>6. TableTypes'
  <2>1. threadLabels' \subseteq threads' \X MailFolder
    BY <1>1, <1>3 DEF TableTypes
  <2> QED
    BY <1>1, <1>3, <1>4, <1>5, <2>1 DEF TableTypes
<1>7. WorkerTypes'
  BY <1>1, <1>3 DEF WorkerTypes, MoverStep
<1>8. CopiesPend'
  <2>1. /\ threads' \cap onServer \subseteq stored' /\ news'.gone \cap onServer = {}
        /\ news'.gone \subseteq Made /\ threads \subseteq Made
        /\ gesture.copy \in threads \cap onServer => gesture.copy \in threads'
    BY <1>1, <1>3 DEF CopiesPend, TableTypes
  <2> QED
    BY <1>1, <1>2, <1>3, <2>1, PendKept
<1>9. LabelsFit'
  <2>1. \A c \in stored, f \in MailFolder :
          <<c, f>> \in threadLabels => <<c, f>> \in threadLabels'
    BY <1>1, <1>5
  <2>2. \A c \in (stored' \cap onServer') \ touched' :
          <<c, homeOf'[c]>> \in threadLabels' \cup unlinked'
    BY <1>1, <1>2, <1>3, <1>5 DEF LabelsFit
  <2>3. threads' \subseteq stored' \cup haunted'
    BY <1>1
  <2>4. threadLabels' \subseteq threadLabels
    BY <1>1
  <2> QED
    BY <1>1, <1>2, <1>3, <2>2, <2>3, <2>4 DEF LabelsFit, Of
<1>10. NewsFit'
  BY <1>1, <1>2, <1>3 DEF NewsFit, Of
<1>11. RoundFits'
  BY <1>1, <1>2, <1>3, <1>4 DEF RoundFits, InSync, Of
<1> QED
  BY <1>4, <1>6, <1>7, <1>8, <1>9, <1>10, <1>11 DEF MovesInv

(* The cursor goes to the highest UID that came, or stays.                 *)
LEMMA CursorStep ==
  ASSUME MovesInv, AdvanceLastUid
  PROVE  MovesInv'
<1> USE DEF Commands, Applying
<1>1. /\ UNCHANGED <<serverSide, stored, threads, threadLabels, labels, mutations, gesture,
                     memory, polling, due, secondTry, replyOk>>
      /\ mover = "cursor" /\ mover' = "folders"
      /\ toSync' = toSync \ {syncing} /\ syncing' = Nowhere /\ news' = NoNews
      /\ \/ /\ lastUid' = [lastUid EXCEPT ![syncing] = Max(news.added \cup {@})]
            /\ lapses' = lapses /\ quiet' = quiet
         \/ /\ lastUid' = lastUid /\ lapses < MaxLapses /\ lapses' = lapses + 1
            /\ quiet' = "no"
  BY DEF AdvanceLastUid, FolderDone, Goes, NoLapse, Lapse
<1>2. UNCHANGED <<homeOf, onServer, marked, wish, touched, again, doubtful, dropped, unlinked,
                  haunted, gestures>>
  BY <1>1 DEF serverSide, memory
<1>3. /\ TableTypes /\ WorkerTypes /\ CopiesPend /\ LabelsFit /\ NewsFit /\ RoundFits
      /\ ServerTypes
  BY DEF MovesInv
<1>4. /\ ServerTypes' /\ QueueTypes' /\ QueueFits' /\ MailKept' /\ CopiesFit'
      /\ Newest' = Newest /\ Made' = Made
  BY <1>1, <1>2, QueueSideKept
<1>5. /\ syncing \in MailFolder /\ syncing \in toSync /\ Newest \in Nat /\ Made = 1..Newest
      /\ lastUid[syncing] \in 0..Newest /\ news.added \subseteq Made
  BY <1>1, <1>3, FirstCopy DEF NewsFit, WorkerTypes, ServerTypes, TableTypes, Of
<1>6. Max(news.added \cup {lastUid[syncing]}) \in 0..Newest
  <2>1. news.added \cup {lastUid[syncing]} \in SUBSET (0..Newest)
    BY <1>5
  <2> QED
    BY <1>5, <2>1, MaxIn
<1>7. /\ lastUid' \in [MailFolder -> 0..Newest]
      /\ \A f \in MailFolder : f # syncing => lastUid'[f] = lastUid[f]
  BY <1>1, <1>3, <1>6 DEF TableTypes
<1>8. TableTypes'
  BY <1>1, <1>3, <1>4, <1>7 DEF TableTypes
<1>9. WorkerTypes'
  <2>1. lapses' \in 0..MaxLapses /\ quiet' \in {"no", "round", "yes"}
    BY <1>1, <1>3, MovesAssumption DEF WorkerTypes
  <2> QED
    BY <1>1, <1>3, <2>1 DEF WorkerTypes, MoverStep, Place, NoNews
<1>10. CopiesPend'
  <2>1. /\ threads' \cap onServer \subseteq stored' /\ news'.gone = {} /\ threads \subseteq Made
    BY <1>1, <1>2, <1>3 DEF CopiesPend, TableTypes, NoNews
  <2> QED
    BY <1>1, <1>2, <1>3, <2>1, PendKept
<1>11. LabelsFit'
  <2>1. ASSUME NEW f \in MailFolder, NEW c \in Of(onServer, f)' \ touched', c <= lastUid'[f]
        PROVE  c \in stored'
    <3>1. c \in Of(onServer, f) \ touched /\ c \in Made
      BY <1>2, <1>3, <2>1 DEF Of, ServerTypes
    <3>2. CASE f # syncing
      BY <3>1, <3>2, <1>1, <1>3, <1>7, <2>1 DEF LabelsFit
    <3>3. CASE f = syncing
      <4>1. c \in Nat /\ lastUid[f] \in Nat
        BY <1>5, <3>1, <3>3
      <4>2. CASE c <= lastUid[f]
        BY <4>2, <3>1, <1>1, <1>3 DEF LabelsFit
      <4>3. CASE c > lastUid[f]
        BY <4>3, <3>1, <3>3, <1>1, <1>3 DEF NewsFit
      <4> QED
        BY <4>1, <4>2, <4>3
    <3> QED
      BY <3>2, <3>3
  <2> QED
    BY <1>1, <1>2, <1>3, <2>1 DEF LabelsFit
<1>12. NewsFit'
  BY <1>1 DEF NewsFit
<1>13. RoundFits'
  <2>1. CASE quiet' = "round"
    <3>1. quiet = "round"
      BY <2>1, <1>1
    <3>2. InSync(syncing)
      <4>1. Of(stored, syncing) \subseteq onServer
        BY <3>1, <1>1, <1>3 DEF RoundFits
      <4>2. ASSUME NEW c \in Made, homeOf[c] = syncing, c \in onServer
            PROVE  c \in stored \cup touched
        <5>1. c \in Of(onServer, syncing) /\ c \in Nat /\ lastUid[syncing] \in Nat
          BY <1>5, <4>2 DEF Of
        <5>2. CASE c <= lastUid[syncing]
          BY <5>1, <5>2, <1>3, <1>5 DEF LabelsFit
        <5>3. CASE c > lastUid[syncing]
          BY <5>1, <5>3, <1>1, <1>3 DEF NewsFit
        <5> QED
          BY <5>1, <5>2, <5>3
      <4> QED
        BY <4>1, <4>2 DEF InSync, Of
    <3>3. \A f \in MailFolder \ toSync' : InSync(f)
      BY <3>1, <3>2, <1>1, <1>3 DEF RoundFits
    <3>4. \A f \in MailFolder : InSync(f)' = InSync(f)
      BY <1>1, <1>2, <1>4 DEF InSync
    <3> QED
      BY <2>1, <3>3, <3>4, <1>1 DEF RoundFits
  <2>2. CASE quiet' # "round"
    BY <2>2, <1>1, <1>3 DEF RoundFits
  <2> QED
    BY <2>1, <2>2
<1> QED
  BY <1>4, <1>8, <1>9, <1>10, <1>11, <1>12, <1>13 DEF MovesInv

(* The process ends: what is lost was not queued, or runs once more.       *)
LEMMA CrashStep ==
  ASSUME MovesInv, MoverCrash
  PROVE  MovesInv'
<1> USE DEF Commands, Applying
<1>1. /\ UNCHANGED <<serverSide, tables, mutations, polling, wish, touched, again, unlinked,
                     gestures>>
      /\ mover' = "rest" /\ gesture' = NoGesture /\ due' = {} /\ secondTry' = FALSE
      /\ replyOk' = FALSE /\ toSync' = {} /\ syncing' = Nowhere /\ news' = NoNews
      /\ dropped' = (dropped \/ gesture # NoGesture)
      /\ doubtful' = (doubtful \/ (mover \in {"copy", "store", "expunge"}))
      /\ haunted' = haunted \cup (threads \ stored)
      /\ quiet' = "no" /\ lapses < MaxLapses /\ lapses' = lapses + 1
  BY DEF MoverCrash, Goes, Lapse
<1>2. UNCHANGED <<homeOf, onServer, marked, stored, threads, threadLabels, labels, lastUid>>
  BY <1>1 DEF serverSide, tables
<1>3. /\ TableTypes /\ WorkerTypes /\ CopiesPend /\ LabelsFit /\ NewsFit /\ RoundFits
      /\ ServerTypes /\ QueueTypes /\ QueueFits /\ MailKept /\ CopiesFit
  BY DEF MovesInv
<1>4. Newest' = Newest /\ Made' = Made
  BY <1>2 DEF Newest, NewCopy, Made
<1>5. ServerTypes' /\ TableTypes'
  BY <1>2, <1>3, <1>4 DEF ServerTypes, TableTypes
<1>6. QueueTypes'
  <2>1. NoGesture \in Gesture
    BY DEF Gesture, NoGesture, Place
  <2> QED
    BY <1>1, <1>3, <1>4, <2>1 DEF QueueTypes
<1>7. WorkerTypes'
  <2>1. lapses' \in 0..MaxLapses
    BY <1>1, <1>3, MovesAssumption DEF WorkerTypes
  <2> QED
    BY <1>1, <1>3, <2>1 DEF WorkerTypes, MoverStep, Place, NoNews
<1>8. QueueFits'
  BY <1>1, <1>3 DEF QueueFits
<1>9. MailKept'
  BY <1>1, <1>2, <1>3 DEF MailKept
<1>10. CopiesPend'
  <2>1. threads \subseteq Made /\ NoNews.gone = {} /\ NoGesture.at = "none"
    BY <1>3 DEF TableTypes, NoNews, NoGesture
  <2>2. haunted' \subseteq Made /\ haunted' \cap onServer = {}
    BY <2>1, <1>1, <1>3 DEF CopiesPend
  <2>3. ~dropped' => \A c \in onServer \cap touched : Pending(c)'
    BY <1>1, <1>3 DEF CopiesPend, Pending
  <2> QED
    BY <1>1, <1>2, <1>3, <1>4, <2>1, <2>2, <2>3 DEF CopiesPend
<1>11. CopiesFit'
  <2>1. SUFFICES ASSUME NothingWrong' PROVE OnePending' /\ OneCopy' /\ NewestFits'
    BY DEF CopiesFit
  <2>2. NothingWrong /\ gesture = NoGesture /\ mover \notin {"copy", "store", "expunge"}
    BY <1>1, <2>1 DEF NothingWrong
  <2>3. OnePending /\ OneCopy /\ NewestFits
    BY <1>3, <2>2 DEF CopiesFit
  <2>4. OnePending'
    BY <1>1, <1>4, <2>2, <2>3 DEF OnePending
  <2>5. OneCopy'
    BY <1>1, <1>2, <1>4, <2>2, <2>3 DEF OneCopy
  <2>6. NewestFits'
    BY <1>1, <1>2, <1>4, <2>2, <2>3 DEF NewestFits
  <2> QED
    BY <2>4, <2>5, <2>6
<1>12. LabelsFit'
  BY <1>1, <1>2, <1>3 DEF LabelsFit, Of
<1>13. NewsFit' /\ RoundFits'
  BY <1>1 DEF NewsFit, RoundFits
<1> QED
  BY <1>5, <1>6, <1>7, <1>8, <1>9, <1>10, <1>11, <1>12, <1>13 DEF MovesInv

---------------------------------------------------------------------------
(* What the user does leaves the server and the worker alone.              *)
LEMMA UserKept ==
  ASSUME MovesInv, UNCHANGED <<serverSide, worker>>, quiet' = "no",
         lapses' = lapses \/ (lapses < MaxLapses /\ lapses' = lapses + 1)
  PROVE  /\ ServerTypes' /\ WorkerTypes' /\ RoundFits'
         /\ Newest' = Newest /\ Made' = Made
         /\ UNCHANGED <<homeOf, onServer, marked, mover, due, replyOk, news, syncing, toSync>>
<1>1. UNCHANGED <<homeOf, onServer, marked, mover, polling, due, secondTry, replyOk, toSync,
                  syncing, news>>
  BY DEF serverSide, worker
<1>2. Newest' = Newest /\ Made' = Made
  BY <1>1 DEF Newest, NewCopy, Made
<1>3. ServerTypes'
  BY <1>1, <1>2 DEF MovesInv, ServerTypes
<1>4. WorkerTypes'
  <2>1. lapses' \in 0..MaxLapses
    BY MovesAssumption DEF MovesInv, WorkerTypes
  <2> QED
    BY <1>1, <2>1 DEF MovesInv, WorkerTypes
<1>5. RoundFits'
  BY DEF RoundFits
<1> QED
  BY <1>1, <1>2, <1>3, <1>4, <1>5

LEMMA ClickStep ==
  ASSUME MovesInv, NEW kind \in {"move", "delete"}, NEW c \in Copy, NEW f \in MailFolder,
         NEW to \in Place, Click(kind, c, f, to)
  PROVE  MovesInv'
<1>1. /\ UNCHANGED <<serverSide, tables, mutations, worker, doubtful, dropped, unlinked,
                     haunted, lapses>>
      /\ gesture = NoGesture /\ gestures < MaxGestures /\ gestures' = gestures + 1
      /\ <<c, f>> \in threadLabels
      /\ IF kind = "delete" THEN to = Nowhere ELSE to \in labels \ {f}
      /\ gesture' = [at |-> "clicked", kind |-> kind, copy |-> c, shown |-> f, to |-> to]
      /\ wish' = IF wish = Nowhere THEN Nowhere ELSE to
      /\ touched' = touched \cup {c}
      /\ again' = (again \/ c \in touched \/ homeOf[c] # f) /\ quiet' = "no"
  BY DEF Click, Changed
<1>2. /\ ServerTypes' /\ WorkerTypes' /\ RoundFits' /\ Newest' = Newest /\ Made' = Made
      /\ UNCHANGED <<homeOf, onServer, marked, mover, due, replyOk, news, syncing, toSync>>
  BY <1>1, UserKept
<1>3. UNCHANGED <<stored, threads, threadLabels, labels, lastUid>>
  BY <1>1 DEF tables
<1>4. /\ ServerTypes /\ TableTypes /\ QueueTypes /\ QueueFits /\ MailKept /\ CopiesPend
      /\ CopiesFit /\ LabelsFit /\ NewsFit
  BY DEF MovesInv
<1>5. /\ c \in threads /\ c \in Made /\ gesture' # NoGesture /\ f \in Place
      /\ gestures \in Nat /\ gestures' \in 0..MaxGestures
      /\ \A n \in Nat : n <= gestures => n <= gestures' /\ n < gestures'
      /\ gesture'.copy = c /\ gesture'.kind = kind /\ gesture'.to = to
      /\ gesture'.at = "clicked" /\ c # NoCopy
      /\ kind = "move" => to \in MailFolder
      /\ kind = "delete" => wish' = Nowhere
  BY <1>1, <1>4, MovesAssumption DEF NoGesture, TableTypes, QueueTypes, Copy, NoCopy, Place
<1>6. TableTypes'
  BY <1>2, <1>3, <1>4 DEF TableTypes
<1>7. QueueTypes'
  BY <1>1, <1>2, <1>4, <1>5 DEF QueueTypes, Gesture
<1>8. QueueFits'
  <2>1. \A o \in mutations : o.no \in Nat
    BY <1>4 DEF QueueTypes, Mutation
  <2>2. wish = Nowhere => wish' = Nowhere
    BY <1>1
  <2>3. \A o \in mutations :
         /\ o.no <= gestures' /\ o.no < gestures'
         /\ o.copy \in touched' \cup {NoCopy} /\ (o.kind # "void" => o.copy \in touched')
         /\ o.kind = "move" => o.to \in MailFolder
         /\ o.kind = "delete" => wish' = Nowhere
    BY <1>1, <1>4, <1>5, <2>1, <2>2 DEF QueueFits
  <2>4. /\ gestures' >= 1 /\ gesture'.at \in {"clicked", "written"} /\ gesture'.kind # "void"
        /\ gesture'.copy \in touched'
    BY <1>1, <1>5
  <2>5. /\ \A o, p \in mutations : o.no = p.no => o = p
        /\ mover \in Commands \cup {"mark"} => \E o \in mutations : Oldest(o)
        /\ mover \in Commands => \A o \in mutations : Oldest(o) => o.kind # "void"
        /\ mover = "copy" => \A o \in mutations : Oldest(o) => o.kind = "move"
    BY <1>4 DEF QueueFits
  <2>6. \A o : Oldest(o)' = Oldest(o)
    BY <1>2 DEF Oldest
  <2> QED
    BY <1>1, <1>2, <1>5, <2>3, <2>4, <2>5, <2>6 DEF QueueFits
<1>9. MailKept'
  <2>1. wish' # Nowhere => wish # Nowhere
    BY <1>1
  <2> QED
    BY <1>1, <1>2, <1>4, <2>1 DEF MailKept, Oldest
<1>10. CopiesPend'
  <2>1. ~dropped => \A d \in onServer \cap touched' : Pending(d)'
    BY <1>1, <1>4, <1>5 DEF CopiesPend, Pending, NoGesture, ServerTypes, Made, Copy, NoCopy
  <2> QED
    BY <1>1, <1>2, <1>3, <1>4, <1>5, <2>1 DEF CopiesPend, Oldest
<1>11. CopiesFit'
  <2>1. SUFFICES ASSUME NothingWrong' PROVE OnePending' /\ OneCopy' /\ NewestFits'
    BY DEF CopiesFit
  <2>2. NothingWrong /\ c \notin touched /\ homeOf[c] = f
    BY <1>1, <2>1 DEF NothingWrong
  <2>3. OnePending /\ OneCopy /\ NewestFits
    BY <1>4, <2>2 DEF CopiesFit
  <2>4. c = Newest /\ Newest \in onServer /\ homeOf[c] = wish
    BY <1>5, <2>2, <2>3 DEF OneCopy, NewestFits
  <2>5. wish' = to
    BY <1>1, <2>2, <2>4, MovesAssumption
  <2>6. \A o \in mutations : o.copy # c
    BY <1>4, <1>5, <2>2 DEF QueueFits
  <2>7. OnePending'
    BY <1>1, <1>2, <1>5, <2>3, <2>4, <2>5, <2>6 DEF OnePending
  <2>8. OneCopy'
    BY <1>1, <1>2, <2>3 DEF OneCopy, Oldest
  <2>9. NewestFits'
    BY <1>1, <1>2, <1>5, <2>4 DEF NewestFits
  <2> QED
    BY <2>7, <2>8, <2>9
<1>12. LabelsFit'
  BY <1>1, <1>2, <1>3, <1>4 DEF LabelsFit, Of
<1>13. NewsFit'
  BY <1>1, <1>2, <1>3, <1>4 DEF NewsFit, Of
<1> QED
  BY <1>2, <1>6, <1>7, <1>8, <1>9, <1>10, <1>11, <1>12, <1>13 DEF MovesInv

(* A message whose row is gone is gone from the server too, or was deleted *)
(* by an operation that is pending: the void one that is queued instead    *)
(* loses nothing.                                                          *)
LEMMA WritesStep ==
  ASSUME MovesInv, NEW src \in MailFolder, LocalWrites(src)
  PROVE  MovesInv'
<1> DEFINE c == gesture.copy
           missing == c \notin stored
<1>1. /\ UNCHANGED <<serverSide, labels, lastUid, mutations, worker, wish, touched, again,
                     doubtful, dropped, haunted, gestures, lapses>>
      /\ gesture.at = "clicked" /\ quiet' = "no" /\ unlinked' = unlinked \ threadLabels'
      /\ gesture' = [gesture EXCEPT !.at = "written",
                       !.kind = IF missing THEN "void" ELSE gesture.kind,
                       !.copy = IF missing THEN NoCopy ELSE gesture.copy]
  BY DEF LocalWrites, Changed
<1>2. /\ ServerTypes' /\ WorkerTypes' /\ RoundFits' /\ Newest' = Newest /\ Made' = Made
      /\ UNCHANGED <<homeOf, onServer, marked, mover, due, replyOk, news, syncing, toSync>>
  BY <1>1, UserKept
<1>3. /\ ServerTypes /\ TableTypes /\ QueueTypes /\ QueueFits /\ MailKept /\ CopiesPend
      /\ CopiesFit /\ LabelsFit /\ NewsFit
  BY DEF MovesInv
<1>4. /\ gesture \in Gesture /\ gesture # NoGesture
      /\ gesture.kind # "void" /\ c \in touched /\ c \in Made /\ c # NoCopy
      /\ gesture.kind = "move" => gesture.to \in MailFolder
  BY <1>1, <1>3 DEF QueueTypes, NoGesture, QueueFits, Made, Copy, NoCopy
<1>5. gesture' = [at |-> "written", kind |-> IF missing THEN "void" ELSE gesture.kind,
                  copy |-> IF missing THEN NoCopy ELSE c, shown |-> gesture.shown,
                  to |-> gesture.to]
  BY <1>1, <1>4 DEF Gesture
<1>6. /\ gesture' # NoGesture /\ gesture'.at = "written" /\ gesture'.to = gesture.to
      /\ missing => gesture'.kind = "void" /\ gesture'.copy = NoCopy /\ c \notin onServer
      /\ ~missing => gesture'.kind = gesture.kind /\ gesture'.copy = c
  BY <1>1, <1>3, <1>5 DEF NoGesture, CopiesPend
<1>7. /\ stored' \subseteq stored /\ stored \subseteq stored' \cup {c}
      /\ stored' \subseteq threads' /\ threads' \subseteq threads
      /\ (threads' = threads /\ stored' = stored) \/ threads' \subseteq stored'
      /\ threadLabels' \subseteq threads' \X MailFolder
      /\ \A d \in Copy, f \in MailFolder : d # c =>
           /\ <<d, f>> \in threadLabels' => <<d, f>> \in threadLabels
           /\ <<d, f>> \in threadLabels /\ d \in threads' => <<d, f>> \in threadLabels'
  <2>1. CASE gesture.kind = "delete"
    <3>1. /\ stored' = stored \ {c} /\ threads' = threads \cap stored'
          /\ threadLabels' = {p \in threadLabels : p[1] \in threads'}
      BY <2>1 DEF LocalWrites, Swept, Kept
    <3> QED
      BY <3>1, <1>3 DEF TableTypes
  <2>2. CASE gesture.kind # "delete"
    <3>1. /\ stored' = stored /\ threads' = threads
          /\ threadLabels' = IF missing THEN threadLabels
                             ELSE (threadLabels \ {<<c, src>>}) \cup {<<c, gesture.to>>}
      BY <2>2 DEF LocalWrites
    <3>2. gesture.to \in MailFolder
      BY <2>2, <1>4 DEF Gesture
    <3> QED
      BY <3>1, <3>2, <1>3 DEF TableTypes
  <2> QED
    BY <2>1, <2>2
<1>8. TableTypes'
  BY <1>1, <1>2, <1>3, <1>7 DEF TableTypes
<1>9. QueueTypes'
  <2>1. gesture' \in Gesture
    BY <1>4, <1>5 DEF Gesture
  <2> QED
    BY <1>1, <1>2, <1>3, <2>1 DEF QueueTypes
<1>10. QueueFits'
  <2>1. \A o : Oldest(o)' = Oldest(o)
    BY <1>2 DEF Oldest
  <2> QED
    BY <1>1, <1>2, <1>3, <1>4, <1>6, <2>1 DEF QueueFits
<1>11. MailKept'
  BY <1>1, <1>2, <1>3 DEF MailKept, Oldest
<1>12. CopiesPend'
  <2>1. ~dropped => \A d \in onServer \cap touched : Pending(d)'
    BY <1>1, <1>3, <1>6 DEF CopiesPend, Pending
  <2>2. threads' \cap onServer \subseteq stored'
    BY <1>3, <1>7 DEF CopiesPend
  <2> QED
    BY <1>1, <1>2, <1>3, <1>6, <2>1, <2>2 DEF CopiesPend, Oldest
<1>13. CopiesFit'
  <2>1. SUFFICES ASSUME NothingWrong' PROVE OnePending' /\ OneCopy' /\ NewestFits'
    BY DEF CopiesFit
  <2>2. OnePending /\ OneCopy /\ NewestFits
    BY <1>1, <1>3, <2>1 DEF CopiesFit, NothingWrong
  <2>3. ~missing
    BY <1>4, <1>6, <2>2 DEF OnePending, NewestFits
  <2>4. OnePending'
    BY <1>1, <1>2, <1>4, <1>6, <2>2, <2>3 DEF OnePending
  <2>5. OneCopy'
    BY <1>1, <1>2, <2>2 DEF OneCopy, Oldest
  <2>6. NewestFits'
    BY <1>1, <1>2, <1>4, <1>6, <2>2, <2>3 DEF NewestFits
  <2> QED
    BY <2>4, <2>5, <2>6
<1>14. LabelsFit'
  <2>1. threadLabels' \cap unlinked' = {}
    BY <1>1
  <2>2. \A d \in Copy, f \in MailFolder :
          d \notin touched /\ <<d, f>> \in threadLabels' => homeOf[d] = f
    BY <1>3, <1>4, <1>7 DEF LabelsFit
  <2>3. ASSUME NEW d \in (stored' \cap onServer) \ touched
        PROVE  <<d, homeOf[d]>> \in threadLabels' \cup unlinked'
    <3>1. <<d, homeOf[d]>> \in threadLabels \cup unlinked
      BY <1>3, <1>7, <2>3 DEF LabelsFit
    <3>2. d # c /\ d \in threads' /\ d \in Copy /\ homeOf[d] \in MailFolder
      BY <1>3, <1>4, <1>7, <2>3 DEF ServerTypes, Made, Place
    <3> QED
      BY <3>1, <3>2, <1>1, <1>7
  <2>4. ASSUME NEW f \in MailFolder, NEW d \in Of(onServer, f) \ touched, d <= lastUid[f]
        PROVE  d \in stored'
    BY <1>3, <1>4, <1>7, <2>4 DEF LabelsFit
  <2>5. mover # "sweep" => threads' \subseteq stored' \cup haunted
    <3>1. \A d \in stored : d \in threads' => d \in stored'
      BY <1>7
    <3> QED
      BY <1>3, <1>7, <3>1 DEF LabelsFit
  <2> QED
    BY <1>1, <1>2, <2>1, <2>2, <2>3, <2>4, <2>5 DEF LabelsFit, Of
<1>15. NewsFit'
  BY <1>1, <1>2, <1>3, <1>4, <1>7 DEF NewsFit, Of
<1> QED
  BY <1>2, <1>8, <1>9, <1>10, <1>11, <1>12, <1>13, <1>14, <1>15 DEF MovesInv

LEMMA QueuedStep ==
  ASSUME MovesInv, Enqueue \/ CommandFails
  PROVE  MovesInv'
<1>1. /\ UNCHANGED <<serverSide, tables, worker, wish, touched, again, doubtful, unlinked,
                     haunted, gestures>>
      /\ gesture # NoGesture /\ gesture' = NoGesture /\ quiet' = "no"
      /\ lapses' = lapses \/ (lapses < MaxLapses /\ lapses' = lapses + 1)
      /\ \/ /\ gesture.at = "written" /\ dropped' = dropped
            /\ mutations' = mutations \cup
                 {[no |-> gestures, kind |-> gesture.kind, copy |-> gesture.copy,
                   to |-> gesture.to, tries |-> 0]}
         \/ mutations' = mutations /\ dropped' = TRUE
  BY DEF Enqueue, CommandFails, Changed, Lapse, memory, NoGesture
<1>2. /\ ServerTypes' /\ WorkerTypes' /\ RoundFits' /\ Newest' = Newest /\ Made' = Made
      /\ UNCHANGED <<homeOf, onServer, marked, mover, due, replyOk, news, syncing, toSync>>
  BY <1>1, UserKept
<1>3. UNCHANGED <<stored, threads, threadLabels, labels, lastUid>>
  BY <1>1 DEF tables
<1>4. /\ ServerTypes /\ TableTypes /\ QueueTypes /\ QueueFits /\ MailKept /\ CopiesPend
      /\ CopiesFit /\ LabelsFit /\ NewsFit
  BY DEF MovesInv
<1>5. TableTypes' /\ LabelsFit' /\ NewsFit'
  BY <1>1, <1>2, <1>3, <1>4 DEF TableTypes, LabelsFit, NewsFit, Of
<1>6. NoGesture \in Gesture /\ NoGesture.at = "none" /\ NoGesture.copy = NoCopy
  BY DEF NoGesture, Gesture, Place
<1>7. \A o : Oldest(o)' = Oldest(o)
  BY <1>2 DEF Oldest
<1>8. CASE mutations' = mutations /\ dropped' = TRUE
  <2>1. QueueTypes' /\ QueueFits' /\ MailKept' /\ CopiesPend' /\ CopiesFit'
    BY <1>1, <1>2, <1>3, <1>4, <1>6, <1>7, <1>8
    DEF QueueTypes, QueueFits, MailKept, CopiesPend, CopiesFit, NothingWrong
  <2> QED
    BY <1>2, <1>5, <2>1 DEF MovesInv
<1>9. ASSUME NEW k, gesture.at = "written", dropped' = dropped,
             k = [no |-> gestures, kind |-> gesture.kind, copy |-> gesture.copy,
                  to |-> gesture.to, tries |-> 0],
             mutations' = mutations \cup {k}
      PROVE  MovesInv'
  <2>1. k \in Mutation
    <3>1. gestures \in 1..MaxGestures /\ 0 \in 0..MaxRefusals
      BY <1>1, <1>4, MovesAssumption DEF QueueTypes, QueueFits
    <3> QED
      BY <1>4, <1>9, <3>1 DEF QueueTypes, Gesture, Mutation
  <2>2. \A o \in mutations : o.no \in Nat /\ o.no < gestures /\ o.no # gestures
    <3>1. \A o \in mutations : o.no \in Nat
      BY <1>4 DEF QueueTypes, Mutation
    <3>2. gestures \in Nat
      BY <1>4, MovesAssumption DEF QueueTypes
    <3> QED
      BY <1>1, <1>4, <3>1, <3>2 DEF QueueFits
  <2>3. k.no = gestures /\ k.kind = gesture.kind /\ k.copy = gesture.copy /\ k.to = gesture.to
        /\ gestures \in Nat /\ gestures <= gestures
    BY <1>4, <1>9, MovesAssumption DEF QueueTypes
  <2>4. mover \in Commands \cup {"mark"} => \E o \in mutations : Oldest(o)
    BY <1>4 DEF QueueFits
  <2>5. mover \in Commands \cup {"mark"} => ~Oldest(k)
    BY <2>2, <2>3, <2>4 DEF Oldest
  <2>6. QueueTypes'
    BY <1>1, <1>2, <1>4, <1>6, <1>9, <2>1 DEF QueueTypes
  <2>7. QueueFits'
    <3>1. \A o, p \in mutations' : o.no = p.no => o = p
      BY <1>4, <1>9, <2>2, <2>3 DEF QueueFits
    <3>2. \A o \in mutations' :
             /\ o.no <= gestures
             /\ o.copy \in touched \cup {NoCopy} /\ (o.kind # "void" => o.copy \in touched)
             /\ o.kind = "move" => o.to \in MailFolder
             /\ o.kind = "delete" => wish = Nowhere
      BY <1>1, <1>4, <1>9, <2>2, <2>3 DEF QueueFits
    <3>3. /\ mover \in Commands \cup {"mark"} => \E o \in mutations' : Oldest(o)
          /\ mover \in Commands => \A o \in mutations' : Oldest(o) => o.kind # "void"
          /\ mover = "copy" => \A o \in mutations' : Oldest(o) => o.kind = "move"
      BY <1>4, <1>9, <2>4, <2>5 DEF QueueFits, Commands
    <3> QED
      BY <1>1, <1>2, <1>7, <3>1, <3>2, <3>3 DEF QueueFits
  <2>8. MailKept'
    BY <1>1, <1>2, <1>4, <1>7, <1>9, <2>5 DEF MailKept, Commands
  <2>9. CopiesPend'
    <3>1. ~dropped => \A d \in onServer \cap touched : Pending(d)'
      BY <1>1, <1>4, <1>9, <2>3 DEF CopiesPend, Pending
    <3> QED
      BY <1>1, <1>2, <1>3, <1>4, <1>6, <1>7, <1>9, <2>5, <3>1 DEF CopiesPend, Commands
  <2>10. CopiesFit'
    <3>1. SUFFICES ASSUME NothingWrong' PROVE OnePending' /\ OneCopy' /\ NewestFits'
      BY DEF CopiesFit
    <3>2. OnePending /\ OneCopy /\ NewestFits
      BY <1>1, <1>4, <1>9, <3>1 DEF CopiesFit, NothingWrong
    <3>3. /\ k.copy = Newest /\ k.kind # "void" /\ k.to = wish
          /\ \A o \in mutations : o.copy # k.copy
      BY <1>1, <2>3, <3>2 DEF OnePending
    <3>4. OnePending'
      BY <1>1, <1>9, <3>2, <3>3 DEF OnePending
    <3>5. OneCopy'
      BY <1>1, <1>2, <1>7, <1>9, <2>5, <3>2, <3>3 DEF OneCopy, Commands
    <3>6. NewestFits'
      BY <1>1, <1>2, <1>9, <2>3, <3>2, <3>3 DEF NewestFits
    <3> QED
      BY <3>4, <3>5, <3>6
  <2> QED
    BY <1>2, <1>5, <2>6, <2>7, <2>8, <2>9, <2>10 DEF MovesInv
<1> QED
  BY <1>1, <1>8, <1>9

---------------------------------------------------------------------------
(* The replay. What it may do on the server is to make copies and to       *)
(* remove some: the tables, which it leaves alone, fit afterwards too.     *)
LEMMA OneCurrent ==
  ASSUME QueueFits, NEW o \in mutations, NEW p \in mutations, Oldest(o), Oldest(p)
  PROVE  o = p
BY DEF QueueFits, Oldest

LEMMA ReplayKept ==
  ASSUME MovesInv,
         UNCHANGED <<tables, gesture, toSync, syncing, news, wish, touched, again, unlinked,
                     haunted, gestures>>, quiet' = "no",
         mover \in Commands \cup {"mark", "replay"}, mover' \in Commands \cup {"mark", "replay"},
         ServerTypes', Made \subseteq Made', Newest <= Newest',
         onServer' \subseteq onServer \cup (Made' \ Made),
         \A c \in Made : homeOf'[c] = homeOf[c]
  PROVE  /\ TableTypes' /\ LabelsFit' /\ NewsFit' /\ RoundFits'
         /\ threads' \cap onServer' \subseteq stored' /\ news'.gone \cap onServer' = {}
         /\ news'.gone \subseteq Made' /\ haunted' \subseteq Made' /\ haunted' \cap onServer' = {}
         /\ touched' \subseteq Made' /\ touched' \cap onServer' \subseteq onServer
<1>1. UNCHANGED <<stored, threads, threadLabels, labels, lastUid>>
  BY DEF tables
<1>2. /\ ServerTypes /\ TableTypes /\ CopiesPend /\ LabelsFit /\ touched \subseteq Made
      /\ stored \subseteq Made
  BY DEF MovesInv, QueueTypes, TableTypes
<1>3. Newest \in Nat /\ Newest' \in Nat /\ Made = 1..Newest /\ Made' = 1..Newest'
  <2>1. Newest \in Nat /\ Made = 1..Newest
    BY <1>2, FirstCopy DEF ServerTypes
  <2>2. Newest' \in Nat /\ Made' = 1..Newest'
    BY MovesAssumption DEF ServerTypes, Copy
  <2> QED
    BY <2>1, <2>2
<1>4. \A f \in MailFolder : lastUid[f] \in 0..Newest /\ lastUid[f] \in 0..Newest'
  BY <1>2, <1>3 DEF TableTypes
<1>5. TableTypes'
  BY <1>1, <1>2, <1>4 DEF TableTypes
<1>6. LabelsFit'
  <2>1. \A c \in Copy, f \in MailFolder :
          c \notin touched' /\ <<c, f>> \in threadLabels' => homeOf'[c] = f
    BY <1>1, <1>2 DEF LabelsFit, TableTypes
  <2>2. \A c \in (stored' \cap onServer') \ touched' :
          c \in Made /\ c \in (stored \cap onServer) \ touched
    BY <1>1, <1>2
  <2>3. \A c \in (stored' \cap onServer') \ touched' :
          <<c, homeOf'[c]>> \in threadLabels' \cup unlinked'
    BY <1>1, <1>2, <2>2 DEF LabelsFit
  <2>4. ASSUME NEW f \in MailFolder, NEW c \in Of(onServer, f)' \ touched', c <= lastUid'[f]
        PROVE  c \in stored'
    <3>1. c \in onServer' /\ homeOf'[c] = f /\ c \in Made'
      BY <2>4 DEF Of, ServerTypes
    <3>2. CASE c \in Made
      <4>1. c \in Of(onServer, f) \ touched
        BY <3>1, <3>2, <2>4 DEF Of
      <4> QED
        BY <4>1, <1>1, <1>2, <2>4 DEF LabelsFit
    <3>3. CASE c \notin Made
      BY <3>1, <3>3, <1>1, <1>3, <1>4, <2>4
    <3> QED
      BY <3>2, <3>3
  <2>5. mover # "sweep" /\ mover' # "sweep"
    BY DEF Commands
  <2> QED
    BY <1>1, <1>2, <2>1, <2>3, <2>4, <2>5 DEF LabelsFit
<1>7. NewsFit' /\ RoundFits'
  BY DEF NewsFit, RoundFits, Commands, Applying
<1>8. /\ threads' \cap onServer' \subseteq stored' /\ news'.gone \cap onServer' = {}
      /\ news'.gone \subseteq Made' /\ haunted' \subseteq Made' /\ haunted' \cap onServer' = {}
      /\ touched' \subseteq Made' /\ touched' \cap onServer' \subseteq onServer
  BY <1>1, <1>2 DEF CopiesPend, TableTypes
<1> QED
  BY <1>5, <1>6, <1>7, <1>8

(* The operation at hand is picked, and its folder selected or not.        *)
LEMMA ExecuteStep ==
  ASSUME MovesInv, NEW o \in mutations, Execute(o)
  PROVE  MovesInv'
<1>1. /\ UNCHANGED <<serverSide, tables, mutations, gesture, memory, polling, due, toSync,
                     syncing, news>>
      /\ mover = "replay" /\ Oldest(o) /\ secondTry' = FALSE /\ replyOk' = FALSE
      /\ quiet' = "no"
      /\ lapses' = lapses \/ (lapses < MaxLapses /\ lapses' = lapses + 1)
      /\ \/ mover' = "mark"
         \/ mover' = "store" /\ o.kind = "delete"
         \/ mover' = "copy" /\ o.kind = "move"
  <2>1. o.kind \in {"move", "delete", "void"}
    BY DEF MovesInv, QueueTypes, Mutation
  <2> QED
    BY <2>1 DEF Execute, Goes, FirstCommand, Changed, Lapse
<1>2. /\ ServerTypes /\ QueueTypes /\ WorkerTypes /\ QueueFits /\ MailKept /\ CopiesPend
      /\ CopiesFit
  BY DEF MovesInv
<1>3. UNCHANGED <<homeOf, onServer, marked, wish, touched, again, doubtful, dropped, unlinked,
                  haunted, gestures>>
  BY <1>1 DEF serverSide, memory
<1>4. Newest' = Newest /\ Made' = Made /\ ServerTypes' /\ Newest \in Nat
  BY <1>2, <1>3, FirstCopy DEF Newest, NewCopy, Made, ServerTypes
<1>5. /\ TableTypes' /\ LabelsFit' /\ NewsFit' /\ RoundFits'
      /\ threads' \cap onServer' \subseteq stored' /\ news'.gone \cap onServer' = {}
      /\ news'.gone \subseteq Made' /\ haunted' \subseteq Made' /\ haunted' \cap onServer' = {}
  <2>1. mover \in Commands \cup {"mark", "replay"} /\ mover' \in Commands \cup {"mark", "replay"}
    BY <1>1 DEF Commands
  <2>2. /\ Newest <= Newest' /\ Made \subseteq Made' /\ onServer' \subseteq onServer \cup (Made' \ Made)
        /\ \A c \in Made : homeOf'[c] = homeOf[c]
    BY <1>3, <1>4
  <2> QED
    BY <1>1, <1>3, <1>4, <2>1, <2>2, ReplayKept
<1>6. \A p : Oldest(p)' = Oldest(p)
  BY <1>1 DEF Oldest
<1>7. \A p \in mutations : Oldest(p) => p = o
  BY <1>1, <1>2, OneCurrent
<1>8. QueueTypes' /\ WorkerTypes'
  <2>1. lapses' \in 0..MaxLapses
    BY <1>1, <1>2, MovesAssumption DEF WorkerTypes
  <2>2. QueueTypes'
    BY <1>1, <1>2, <1>3, <1>4 DEF QueueTypes
  <2>3. mover' \in MoverStep
    BY <1>1 DEF MoverStep, Commands
  <2> QED
    BY <1>1, <1>2, <2>1, <2>2, <2>3 DEF WorkerTypes
<1>9. QueueFits'
  BY <1>1, <1>2, <1>3, <1>6, <1>7 DEF QueueFits, Commands
<1>10. MailKept'
  <2>1. mover' = "store" => wish = Nowhere
    BY <1>1, <1>2 DEF QueueFits
  <2> QED
    BY <1>2, <1>3, <2>1 DEF MailKept
<1>11. CopiesPend'
  <2>1. ~dropped => \A d \in onServer \cap touched : Pending(d)'
    BY <1>1, <1>2 DEF CopiesPend, Pending
  <2>2. gesture.at = "clicked" => gesture.copy \in threads' \/ gesture.copy \notin onServer
    BY <1>1, <1>2 DEF CopiesPend, tables
  <2> QED
    BY <1>1, <1>3, <1>4, <1>5, <2>1, <2>2 DEF CopiesPend
<1>12. CopiesFit'
  <2>1. SUFFICES ASSUME NothingWrong' PROVE OnePending' /\ OneCopy' /\ NewestFits'
    BY DEF CopiesFit
  <2>2. OnePending /\ OneCopy /\ NewestFits
    BY <1>2, <1>3, <2>1 DEF CopiesFit, NothingWrong
  <2>3. OnePending' /\ NewestFits'
    BY <1>1, <1>3, <1>4, <2>2 DEF OnePending, NewestFits
  <2>4. OneCopy'
    BY <1>1, <1>3, <1>4, <1>6, <1>7, <2>2 DEF OneCopy
  <2> QED
    BY <2>3, <2>4
<1> QED
  BY <1>4, <1>5, <1>8, <1>9, <1>10, <1>11, <1>12 DEF MovesInv

(* What a command does on the server. An unmarked copy remains, and after  *)
(* COPY one that is not the operation's own.                               *)
LEMMA EffectFits ==
  ASSUME MovesInv, NEW o \in mutations, Oldest(o), mover \in Commands, Effect(o)
  PROVE  /\ ServerTypes' /\ Newest <= Newest' /\ Made \subseteq Made'
         /\ onServer' \subseteq onServer \cup (Made' \ Made)
         /\ \A c \in Made : homeOf'[c] = homeOf[c]
         /\ wish # Nowhere => \E c \in onServer' : c \notin marked'
         /\ wish # Nowhere /\ mover = "copy" =>
              \E c \in onServer' : c \notin marked' /\ c # o.copy
<1>1. /\ ServerTypes /\ QueueTypes /\ QueueFits /\ MailKept
  BY DEF MovesInv
<1>2. o.kind # "void" /\ o.copy \in touched /\ o.copy \in Made /\ (mover = "copy" => o.kind = "move")
  BY <1>1 DEF QueueFits, QueueTypes
<1>3. Newest \in Nat /\ NewCopy = Newest + 1
  BY <1>1, FirstCopy
<1>4. wish # Nowhere => \E c \in onServer : c \notin marked
  BY <1>1 DEF MailKept
<1>5. ASSUME homeOf' = homeOf
      PROVE  Newest' = Newest /\ Made' = Made /\ \A c \in Made : homeOf'[c] = homeOf[c]
  BY <1>5 DEF Newest, NewCopy, Made
<1>6. CASE mover = "copy" /\ o.copy \in onServer
  <2>1. /\ PutInto(o.to) /\ onServer' = onServer \cup {NewCopy}
        /\ marked' = IF o.copy \in marked THEN marked \cup {NewCopy} ELSE marked
    BY <1>6 DEF Effect, CopyTo
  <2>2. o.to \in MailFolder
    BY <1>1, <1>2, <1>6 DEF QueueFits
  <2>3. /\ NewCopy \in Copy /\ NewCopy \notin Made
        /\ Newest' = NewCopy /\ Made' = Made \cup {NewCopy} /\ Made' = 1..Newest'
        /\ homeOf' \in [Copy -> Place] /\ \A c \in Made : homeOf'[c] = homeOf[c]
    BY <1>1, <2>1, <2>2, CopyMade
  <2>4. ServerTypes'
    BY <1>1, <2>1, <2>3 DEF ServerTypes
  <2>5. wish # Nowhere => \E c \in onServer' : c \notin marked' /\ c # o.copy
    <3>1. CASE o.copy \in marked
      BY <3>1, <1>1, <1>4, <2>1, <2>3 DEF ServerTypes
    <3>2. CASE o.copy \notin marked
      BY <3>2, <1>1, <1>2, <2>1, <2>3 DEF ServerTypes
    <3> QED
      BY <3>1, <3>2
  <2>6. Newest <= Newest'
    BY <1>3, <2>3
  <2> QED
    BY <2>1, <2>3, <2>4, <2>5, <2>6
<1>7. CASE mover = "copy" /\ o.copy \notin onServer
  <2>1. UNCHANGED <<homeOf, onServer, marked>>
    BY <1>7 DEF Effect, CopyTo, serverSide
  <2>2. ServerTypes'
    BY <1>1, <1>5, <2>1 DEF ServerTypes
  <2> QED
    BY <1>3, <1>4, <1>5, <1>7, <2>1, <2>2
<1>8. CASE mover = "store"
  <2>1. marked' = marked \cup ({o.copy} \cap onServer) /\ UNCHANGED <<homeOf, onServer>>
    BY <1>8 DEF Effect, StoreDeleted
  <2>2. ServerTypes'
    BY <1>1, <1>5, <2>1 DEF ServerTypes
  <2>3. wish # Nowhere => \E c \in onServer' : c \notin marked'
    BY <1>1, <1>8, <2>1 DEF MailKept
  <2> QED
    BY <1>3, <1>5, <1>8, <2>1, <2>2, <2>3
<1>9. CASE mover = "expunge"
  <2>1. PICK gone \in SUBSET marked :
          onServer' = onServer \ gone /\ marked' = marked \ gone /\ homeOf' = homeOf
    BY <1>9 DEF Effect, Expunge
  <2>2. ServerTypes'
    BY <1>1, <1>5, <2>1 DEF ServerTypes
  <2> QED
    BY <1>3, <1>4, <1>5, <1>9, <2>1, <2>2
<1> QED
  BY <1>6, <1>7, <1>8, <1>9 DEF Commands

(* While nothing goes wrong COPY makes the newest copy out of the one that *)
(* was, in the folder that the user wished.                                *)
LEMMA CleanCopy ==
  ASSUME MovesInv, NothingWrong, NEW o \in mutations, Oldest(o), mover = "copy", Effect(o),
         UNCHANGED <<mutations, gesture, wish, touched, due>>, mover' = "store"
  PROVE  OnePending' /\ OneCopy' /\ NewestFits'
<1>1. /\ ServerTypes /\ QueueTypes /\ QueueFits /\ OnePending /\ OneCopy /\ NewestFits
  BY DEF MovesInv, CopiesFit
<1>2. /\ o.kind = "move" /\ o.copy \in touched /\ o.copy \in Made /\ o.to \in MailFolder
  BY <1>1 DEF QueueFits, QueueTypes
<1>3. \A p : Oldest(p)' = Oldest(p)
  BY DEF Oldest
<1>4. \A p \in mutations : Oldest(p) => p = o
  BY <1>1, OneCurrent
<1>5. onServer \subseteq {Newest}
  BY <1>1 DEF OneCopy
<1>6. CASE o.copy \in onServer
  <2>1. /\ PutInto(o.to) /\ onServer' = onServer \cup {NewCopy}
        /\ marked' = IF o.copy \in marked THEN marked \cup {NewCopy} ELSE marked
    BY <1>6 DEF Effect, CopyTo
  <2>2. /\ NewCopy \in Copy /\ NewCopy \notin Made
        /\ Newest' = NewCopy /\ Made' = Made \cup {NewCopy}
        /\ homeOf'[NewCopy] = o.to
    BY <1>1, <1>2, <2>1, CopyMade
  <2>3. o.copy = Newest
    BY <1>5, <1>6
  <2>4. gesture = NoGesture
    BY <1>1, <2>3 DEF OnePending
  <2>5. \A p \in mutations : p.copy \in Made \cup {NoCopy} /\ p.copy # NewCopy
    BY <1>1, <2>2 DEF QueueFits, QueueTypes, NoCopy, Copy
  <2>6. o.copy \notin marked
    <3>1. o.copy \in marked => \E p \in mutations : p.copy = o.copy /\ p.kind = "delete"
      BY <1>1, <2>3 DEF OneCopy
    <3> QED
      BY <3>1, <1>1, <1>2 DEF OnePending
  <2>7. o.to = wish
    <3>1. \E p \in mutations : p.copy = Newest /\ p.to = wish
      BY <1>1, <1>2, <1>6, <2>3, <2>4 DEF NewestFits, NoGesture, ServerTypes, Copy, NoCopy
    <3> QED
      BY <3>1, <1>1, <2>3 DEF OnePending
  <2>8. OnePending'
    BY <1>1, <2>4 DEF OnePending
  <2>9. OneCopy'
    <3>1. \A c \in Made' : c # Newest' => c \in touched'
      BY <1>1, <1>2, <2>2, <2>3 DEF OneCopy
    <3>2. \A c \in onServer' : c # Newest' =>
            \E p \in mutations' : Oldest(p)' /\ p.kind = "move" /\ p.copy = c
      BY <1>2, <1>3, <1>5, <2>1, <2>2, <2>3
    <3>3. \A p \in mutations' : Oldest(p)' /\ p.kind = "move" => p.copy # Newest'
      BY <2>2, <2>5
    <3>4. \A c \in marked' : \E p \in mutations' :
            p.copy = c /\ (c = Newest' => p.kind = "delete")
      BY <1>1, <2>1, <2>2, <2>6 DEF OneCopy, ServerTypes
    <3> QED
      BY <3>1, <3>2, <3>3, <3>4 DEF OneCopy
  <2>10. NewestFits'
    <3>1. Newest' \notin touched' /\ Newest' \in onServer'
      BY <1>1, <2>1, <2>2 DEF QueueTypes
    <3> QED
      BY <3>1, <2>2, <2>7 DEF NewestFits
  <2> QED
    BY <2>8, <2>9, <2>10
<1>7. CASE o.copy \notin onServer
  <2>1. UNCHANGED <<homeOf, onServer, marked>>
    BY <1>7 DEF Effect, CopyTo, serverSide
  <2>2. Newest' = Newest /\ Made' = Made
    BY <2>1 DEF Newest, NewCopy, Made
  <2>3. o.copy # Newest
    BY <1>1, <1>2, <1>7 DEF NewestFits
  <2> QED
    BY <1>1, <1>3, <1>4, <1>5, <2>1, <2>2, <2>3 DEF OnePending, OneCopy, NewestFits
<1> QED
  BY <1>6, <1>7

(* STORE and EXPUNGE take away the operation's copy, and the newest one    *)
(* only for a deletion.                                                    *)
LEMMA CleanRemoval ==
  ASSUME MovesInv, NothingWrong, NEW o \in mutations, Oldest(o),
         mover \in {"store", "expunge"}, Effect(o),
         UNCHANGED <<mutations, gesture, wish, touched, due>>,
         \/ mover = "store" /\ mover' = "expunge"
         \/ mover = "expunge" /\ mover' = "mark" /\ o.copy \notin onServer'
         \/ o.kind = "delete" /\ mover' \in {"store", "mark"}
  PROVE  OnePending' /\ OneCopy' /\ NewestFits'
<1>1. /\ ServerTypes /\ QueueTypes /\ QueueFits /\ OnePending /\ OneCopy /\ NewestFits
  BY DEF MovesInv, CopiesFit
<1>2. o.copy \in touched /\ o.copy \in Made /\ o.kind \in {"move", "delete"}
  BY <1>1 DEF QueueFits, QueueTypes, Mutation, Commands
<1>3. \A p : Oldest(p)' = Oldest(p)
  BY DEF Oldest
<1>4. \A p \in mutations : Oldest(p) => p = o
  BY <1>1, OneCurrent
<1>5. /\ homeOf' = homeOf /\ onServer' \subseteq onServer
      /\ \A c \in onServer \ onServer' : c \in marked
      /\ marked' \subseteq marked \cup {o.copy}
  BY DEF Effect, StoreDeleted, Expunge
<1>6. Newest' = Newest /\ Made' = Made
  BY <1>5 DEF Newest, NewCopy, Made
<1>7. OnePending'
  BY <1>1, <1>6 DEF OnePending
<1>8. NewestFits'
  <2>1. CASE Newest \in onServer \ onServer'
    <3>1. PICK p \in mutations : p.copy = Newest /\ p.kind = "delete"
      BY <1>1, <1>5, <2>1 DEF OneCopy
    <3>2. wish = Nowhere /\ gesture = NoGesture /\ Newest \in touched
      BY <1>1, <3>1 DEF QueueFits, OnePending
    <3>3. \A q \in mutations : q.copy = Newest => q.kind = "delete"
      BY <1>1, <3>1 DEF OnePending
    <3> QED
      BY <1>6, <2>1, <3>2, <3>3 DEF NewestFits
  <2>2. CASE Newest \notin onServer \ onServer'
    <3>1. Newest \in onServer' <=> Newest \in onServer
      BY <1>5, <2>2
    <3> QED
      BY <1>1, <1>5, <1>6, <3>1 DEF NewestFits
  <2> QED
    BY <2>1, <2>2
<1>9. OneCopy'
  <2>1. \A c \in marked' : \E p \in mutations' : p.copy = c /\ (c = Newest' => p.kind = "delete")
    <3>1. o.copy = Newest => o.kind = "delete"
      BY <1>1, <1>2 DEF OneCopy
    <3> QED
      BY <1>1, <1>5, <1>6, <3>1 DEF OneCopy
  <2>2. \A c \in onServer' : c # Newest' =>
          /\ mover' \in {"store", "expunge"}
          /\ \E p \in mutations' : Oldest(p)' /\ p.kind = "move" /\ p.copy = c
    BY <1>1, <1>3, <1>4, <1>5, <1>6 DEF OneCopy
  <2>3. mover' \in {"store", "expunge"} =>
          \A p \in mutations' : Oldest(p)' /\ p.kind = "move" => p.copy # Newest'
    BY <1>1, <1>3, <1>6 DEF OneCopy
  <2> QED
    BY <1>1, <1>6, <2>1, <2>2, <2>3 DEF OneCopy
<1> QED
  BY <1>7, <1>8, <1>9

(* A command of the operation at hand: done, lost, or refused.             *)
LEMMA CommandStep ==
  ASSUME MovesInv, NEW o \in mutations, CommandDone(o) \/ CommandLost(o) \/ RefusalIgnored(o)
  PROVE  MovesInv'
<1>1. /\ UNCHANGED <<tables, mutations, gesture, polling, due, toSync, syncing, news,
                     wish, touched, again, unlinked, haunted, gestures>>
      /\ mover \in Commands /\ Oldest(o) /\ quiet' = "no"
      /\ lapses' = lapses \/ (lapses < MaxLapses /\ lapses' = lapses + 1)
  BY DEF CommandDone, CommandLost, RefusalIgnored, CommandOnly, Talking, NextCommand, Commands,
     Changed, Lapse
<1>2. /\ ServerTypes /\ QueueTypes /\ WorkerTypes /\ QueueFits /\ MailKept /\ CopiesPend
      /\ CopiesFit
  BY DEF MovesInv
<1>3. /\ o.kind \in {"move", "delete"} /\ o.copy \in touched /\ o.copy \in Made
      /\ mover = "copy" => o.kind = "move"
      /\ o.kind = "delete" => wish = Nowhere
  BY <1>1, <1>2 DEF QueueFits, QueueTypes, Mutation
<1>4. \A p : Oldest(p)' = Oldest(p)
  BY <1>1 DEF Oldest
<1>5. \A p \in mutations : Oldest(p) => p = o
  BY <1>1, <1>2, OneCurrent
<1>6. /\ secondTry' \in BOOLEAN /\ replyOk' \in BOOLEAN
      /\ mover' \in {"copy", "store", "expunge", "mark"}
      /\ mover' = "copy" => o.kind = "move"
  <2>1. secondTry \in BOOLEAN /\ replyOk \in BOOLEAN
    BY <1>2 DEF WorkerTypes
  <2>2. CASE CommandDone(o)
    BY <1>1, <2>1, <2>2 DEF CommandDone, Goes, NextCommand, Commands
  <2>3. CASE CommandLost(o)
    BY <1>3, <2>1, <2>3 DEF CommandLost, Goes, FirstCommand
  <2>4. CASE RefusalIgnored(o)
    BY <1>1, <2>1, <2>4 DEF RefusalIgnored, Goes, NextCommand
  <2> QED
    BY <2>2, <2>3, <2>4
<1>7. Effect(o) \/ UNCHANGED serverSide
  BY DEF CommandDone, CommandLost, RefusalIgnored
<1>8. /\ ServerTypes' /\ Newest <= Newest' /\ Made \subseteq Made'
      /\ onServer' \subseteq onServer \cup (Made' \ Made)
      /\ \A c \in Made : homeOf'[c] = homeOf[c]
      /\ wish # Nowhere => \E c \in onServer' : c \notin marked'
  <2>1. CASE Effect(o)
    BY <1>1, <2>1, EffectFits
  <2>2. CASE UNCHANGED serverSide
    <3>1. UNCHANGED <<homeOf, onServer, marked>>
      BY <2>2 DEF serverSide
    <3>2. Newest' = Newest /\ Made' = Made /\ Newest \in Nat
      BY <1>2, <3>1, FirstCopy DEF Newest, NewCopy, Made
    <3>3. ServerTypes'
      BY <1>2, <3>1, <3>2 DEF ServerTypes
    <3> QED
      BY <1>2, <3>1, <3>2, <3>3 DEF MailKept
  <2> QED
    BY <1>7, <2>1, <2>2
<1>9. /\ TableTypes' /\ LabelsFit' /\ NewsFit' /\ RoundFits'
      /\ threads' \cap onServer' \subseteq stored' /\ news'.gone \cap onServer' = {}
      /\ news'.gone \subseteq Made' /\ haunted' \subseteq Made' /\ haunted' \cap onServer' = {}
      /\ touched' \subseteq Made' /\ touched' \cap onServer' \subseteq onServer
  <2>1. mover \in Commands \cup {"mark", "replay"} /\ mover' \in Commands \cup {"mark", "replay"}
    BY <1>1, <1>6 DEF Commands
  <2> QED
    BY <1>1, <1>8, <2>1, ReplayKept
<1>10. QueueTypes' /\ WorkerTypes'
  <2>1. lapses' \in 0..MaxLapses
    BY <1>1, <1>2, MovesAssumption DEF WorkerTypes
  <2>2. QueueTypes'
    BY <1>1, <1>2, <1>9 DEF QueueTypes
  <2>3. mover' \in MoverStep
    BY <1>6 DEF MoverStep, Commands
  <2> QED
    BY <1>1, <1>2, <1>6, <2>1, <2>2, <2>3 DEF WorkerTypes
<1>11. QueueFits'
  BY <1>1, <1>2, <1>3, <1>4, <1>5, <1>6 DEF QueueFits
<1>12. MailKept'
  <2>1. ASSUME mover' = "store", wish # Nowhere
        PROVE  \E c \in onServer' : c \notin marked' /\ c # o.copy
    <3>1. mover = "copy" /\ Effect(o)
      BY <1>1, <1>3, <2>1 DEF CommandDone, CommandLost, RefusalIgnored, Goes, NextCommand,
         FirstCommand, Commands
    <3> QED
      BY <1>1, <2>1, <3>1, EffectFits
  <2> QED
    BY <1>1, <1>4, <1>5, <1>8, <2>1 DEF MailKept
<1>13. CopiesPend'
  <2>1. ~dropped' => ~dropped
    BY <1>1 DEF CommandDone, CommandLost, RefusalIgnored
  <2>2. ~dropped' => \A d \in onServer' \cap touched' : Pending(d)'
    BY <1>1, <1>2, <1>9, <2>1 DEF CopiesPend, Pending
  <2>3. ASSUME ~dropped', mover' = "expunge", o.copy \in onServer'
        PROVE  o.copy \in marked'
    <3>1. mover = "store" /\ Effect(o)
      BY <1>1, <1>3, <2>3 DEF CommandDone, CommandLost, RefusalIgnored, Goes, NextCommand,
         FirstCommand, Commands
    <3> QED
      BY <2>3, <3>1 DEF Effect, StoreDeleted
  <2>4. ASSUME ~dropped', mover' = "mark", replyOk'
        PROVE  o.copy \notin onServer'
    <3>1. mover = "expunge" /\ Effect(o)
      BY <1>1, <2>4 DEF CommandDone, CommandLost, RefusalIgnored, Goes, NextCommand,
         FirstCommand, Commands
    <3>2. o.copy \in onServer => o.copy \in marked
      BY <1>1, <1>2, <2>1, <2>4, <3>1 DEF CopiesPend
    <3> QED
      BY <3>1, <3>2 DEF Effect, Expunge
  <2>5. gesture'.at = "clicked" => gesture'.copy \in threads' \/ gesture'.copy \notin onServer'
    <3>1. gesture.at = "clicked" => gesture # NoGesture /\ gesture.kind # "void"
      BY <1>2 DEF QueueFits, NoGesture
    <3>2. gesture.at = "clicked" => gesture.copy \in touched
      BY <1>2, <3>1 DEF QueueFits
    <3> QED
      BY <1>1, <1>2, <1>9, <3>2 DEF CopiesPend, tables
  <2> QED
    BY <1>1, <1>4, <1>5, <1>9, <2>2, <2>3, <2>4, <2>5 DEF CopiesPend
<1>14. CopiesFit'
  <2>1. SUFFICES ASSUME NothingWrong' PROVE OnePending' /\ OneCopy' /\ NewestFits'
    BY DEF CopiesFit
  <2>2. NothingWrong /\ ~dropped /\ ~dropped' /\ ~doubtful'
    <3>1. CASE CommandDone(o)
      BY <1>1, <2>1, <3>1 DEF NothingWrong, CommandDone
    <3>2. CASE CommandLost(o)
      BY <1>1, <2>1, <3>2 DEF NothingWrong, CommandLost
    <3>3. CASE RefusalIgnored(o)
      BY <2>1, <3>3 DEF NothingWrong, RefusalIgnored
    <3> QED
      BY <3>1, <3>2, <3>3
  <2>3. OnePending /\ OneCopy /\ NewestFits
    BY <1>2, <2>2 DEF CopiesFit
  <2>4. CASE CommandDone(o)
    <3>1. Effect(o) /\ mover' = NextCommand[mover] /\ replyOk' = TRUE
      BY <2>4 DEF CommandDone, Goes
    <3>2. CASE mover = "copy"
      <4>1. mover' = "store"
        BY <3>1, <3>2 DEF NextCommand
      <4> QED
        BY <1>1, <2>2, <3>1, <3>2, <4>1, CleanCopy
    <3>3. CASE mover = "store"
      <4>1. mover' = "expunge"
        BY <3>1, <3>3 DEF NextCommand
      <4> QED
        BY <1>1, <2>2, <3>1, <3>3, <4>1, CleanRemoval
    <3>4. CASE mover = "expunge"
      <4>1. mover' = "mark"
        BY <3>1, <3>4 DEF NextCommand
      <4>2. o.copy \notin onServer'
        BY <1>1, <1>4, <1>13, <2>2, <3>1, <4>1 DEF CopiesPend
      <4> QED
        BY <1>1, <2>2, <3>1, <3>4, <4>1, <4>2, CleanRemoval
    <3> QED
      BY <1>1, <3>2, <3>3, <3>4 DEF Commands
  <2>5. CASE CommandLost(o)
    <3>1. o.kind = "delete" /\ mover \in {"store", "expunge"}
      BY <1>1, <1>3, <2>2, <2>5 DEF CommandLost, Commands
    <3>2. mover' \in {"store", "mark"}
      BY <3>1, <2>5 DEF CommandLost, Goes, FirstCommand
    <3>3. CASE Effect(o)
      BY <1>1, <2>2, <3>1, <3>2, <3>3, CleanRemoval
    <3>4. CASE UNCHANGED serverSide
      <4>1. UNCHANGED <<homeOf, onServer, marked>>
        BY <3>4 DEF serverSide
      <4>2. Newest' = Newest /\ Made' = Made
        BY <4>1 DEF Newest, NewCopy, Made
      <4>3. OnePending' /\ NewestFits'
        BY <1>1, <2>3, <4>1, <4>2 DEF OnePending, NewestFits
      <4>4. OneCopy'
        BY <1>1, <1>4, <1>5, <2>3, <3>1, <3>2, <4>1, <4>2 DEF OneCopy
      <4> QED
        BY <4>3, <4>4
    <3> QED
      BY <1>7, <3>3, <3>4
  <2>6. ~RefusalIgnored(o)
    BY <2>2 DEF RefusalIgnored
  <2> QED
    BY <2>4, <2>5, <2>6
<1> QED
  BY <1>8, <1>9, <1>10, <1>11, <1>12, <1>13, <1>14 DEF MovesInv

(* The operation's outcome is recorded: its row goes, counts one more try, *)
(* or stays as it was when the database fails.                             *)
LEMMA MarkStep ==
  ASSUME MovesInv, NEW o \in mutations, MarkReplayed(o)
  PROVE  MovesInv'
<1> DEFINE Same(p, q) == p.no = q.no /\ p.kind = q.kind /\ p.copy = q.copy /\ p.to = q.to
<1>1. /\ UNCHANGED <<serverSide, tables, gesture, polling, secondTry, replyOk, toSync, syncing,
                     news, wish, touched, again, doubtful, unlinked, haunted, gestures>>
      /\ mover = "mark" /\ mover' = "replay" /\ Oldest(o) /\ due' = due \ {o.no}
      /\ quiet' = "no"
      /\ lapses' = lapses \/ (lapses < MaxLapses /\ lapses' = lapses + 1)
      /\ \/ /\ mutations' = Recorded(o)
            /\ dropped' = (dropped \/ (~replyOk /\ o.tries + 1 >= MaxRefusals))
         \/ UNCHANGED <<mutations, dropped>>
  BY DEF MarkReplayed, Goes, Changed, Lapse
<1>2. /\ ServerTypes /\ QueueTypes /\ WorkerTypes /\ QueueFits /\ MailKept /\ CopiesPend
      /\ CopiesFit
  BY DEF MovesInv
<1>3. o \in Mutation
  BY <1>2 DEF QueueTypes
<1>4. dropped => dropped'
  BY <1>1
<1>5. /\ mutations' \subseteq Mutation
      /\ \A p, q \in mutations' : p.no = q.no => p = q
      /\ \A p \in mutations' : \E q \in mutations : Same(p, q)
      /\ \A q \in mutations :
           \/ \E p \in mutations' : Same(p, q)
           \/ q = o /\ (replyOk \/ dropped')
  <2>1. CASE mutations' = mutations
    BY <1>2, <2>1 DEF QueueTypes, QueueFits
  <2>2. CASE mutations' = mutations \ {o} /\ (replyOk \/ dropped')
    BY <1>2, <2>2 DEF QueueTypes, QueueFits
  <2>3. ASSUME NEW k, k = [o EXCEPT !.tries = o.tries + 1], ~(o.tries + 1 >= MaxRefusals),
               mutations' = (mutations \ {o}) \cup {k}
        PROVE  <1>5!:
    <3>1. o.tries + 1 \in 0..MaxRefusals
      BY <1>3, <2>3, MovesAssumption DEF Mutation
    <3>2. k = [no |-> o.no, kind |-> o.kind, copy |-> o.copy, to |-> o.to,
               tries |-> o.tries + 1]
      BY <1>3, <2>3 DEF Mutation
    <3>3. k \in Mutation
      BY <1>3, <3>1, <3>2 DEF Mutation
    <3>4. Same(k, o)
      BY <3>2
    <3>5. \A p, q \in mutations' : p.no = q.no => p = q
      <4>1. k.no = o.no
        BY <3>2
      <4>2. \A p \in mutations \ {o} : p.no # k.no
        BY <1>2, <4>1 DEF QueueFits
      <4>3. \A p, q \in mutations \ {o} : p.no = q.no => p = q
        BY <1>2 DEF QueueFits
      <4> QED
        BY <2>3, <4>2, <4>3
    <3> QED
      BY <1>2, <2>3, <3>3, <3>4, <3>5 DEF QueueTypes
  <2>4. \/ mutations' = mutations
        \/ mutations' = mutations \ {o} /\ (replyOk \/ dropped')
        \/ /\ mutations' = (mutations \ {o}) \cup {[o EXCEPT !.tries = o.tries + 1]}
           /\ ~(o.tries + 1 >= MaxRefusals)
    BY <1>1 DEF Recorded
  <2> QED
    BY <2>1, <2>2, <2>3, <2>4
<1>6. UNCHANGED <<homeOf, onServer, marked>> /\ Newest' = Newest /\ Made' = Made
      /\ Newest \in Nat /\ ServerTypes'
  BY <1>1, <1>2, FirstCopy DEF serverSide, Newest, NewCopy, Made, ServerTypes
<1>7. /\ TableTypes' /\ LabelsFit' /\ NewsFit' /\ RoundFits'
      /\ threads' \cap onServer' \subseteq stored' /\ news'.gone \cap onServer' = {}
      /\ news'.gone \subseteq Made' /\ haunted' \subseteq Made' /\ haunted' \cap onServer' = {}
      /\ touched' \subseteq Made' /\ touched' \cap onServer' \subseteq onServer
  <2>1. mover \in Commands \cup {"mark", "replay"} /\ mover' \in Commands \cup {"mark", "replay"}
    BY <1>1
  <2>2. /\ Newest <= Newest' /\ Made \subseteq Made' /\ onServer' \subseteq onServer \cup (Made' \ Made)
        /\ \A c \in Made : homeOf'[c] = homeOf[c]
    BY <1>6
  <2> QED
    BY <1>1, <1>6, <2>1, <2>2, ReplayKept
<1>8. QueueTypes' /\ WorkerTypes'
  <2>1. lapses' \in 0..MaxLapses
    BY <1>1, <1>2, MovesAssumption DEF WorkerTypes
  <2>2. QueueTypes'
    BY <1>1, <1>2, <1>5, <1>7 DEF QueueTypes
  <2>3. mover' \in MoverStep
    BY <1>1 DEF MoverStep
  <2> QED
    BY <1>1, <1>2, <2>1, <2>2, <2>3 DEF WorkerTypes
<1>9. QueueFits'
  <2>1. mover' \notin Commands \cup {"mark"} /\ mover' # "copy"
    BY <1>1 DEF Commands
  <2>2. \A p \in mutations' :
         /\ p.no <= gestures /\ (gesture # NoGesture => p.no < gestures)
         /\ p.copy \in touched \cup {NoCopy} /\ (p.kind # "void" => p.copy \in touched)
         /\ p.kind = "move" => p.to \in MailFolder
         /\ p.kind = "delete" => wish = Nowhere
    BY <1>2, <1>5 DEF QueueFits
  <2> QED
    BY <1>1, <1>2, <1>5, <2>1, <2>2 DEF QueueFits
<1>10. MailKept'
  BY <1>1, <1>2, <1>6 DEF MailKept
<1>11. replyOk /\ ~dropped => o.copy \notin onServer
  BY <1>1, <1>2 DEF CopiesPend
<1>12. CopiesPend'
  <2>1. ASSUME ~dropped', NEW d \in onServer \cap touched PROVE Pending(d)'
    <3>1. CASE gesture.copy = d
      BY <3>1, <1>1 DEF Pending
    <3>2. ASSUME NEW q \in mutations, q.copy = d PROVE Pending(d)'
      BY <1>4, <1>5, <1>11, <2>1, <3>2 DEF Pending
    <3> QED
      BY <1>2, <1>4, <2>1, <3>1, <3>2 DEF CopiesPend, Pending
  <2>2. gesture.at = "clicked" => gesture.copy \in threads' \/ gesture.copy \notin onServer
    BY <1>1, <1>2 DEF CopiesPend, tables
  <2> QED
    BY <1>1, <1>6, <1>7, <2>1, <2>2 DEF CopiesPend
<1>13. CopiesFit'
  <2>1. SUFFICES ASSUME NothingWrong' PROVE OnePending' /\ OneCopy' /\ NewestFits'
    BY DEF CopiesFit
  <2>2. NothingWrong /\ ~dropped /\ ~dropped'
    BY <1>1, <1>4, <2>1 DEF NothingWrong
  <2>3. OnePending /\ OneCopy /\ NewestFits
    BY <1>2, <2>2 DEF CopiesFit
  <2>4. \A c \in onServer, q \in mutations : q.copy = c => \E p \in mutations' : Same(p, q)
    BY <1>5, <1>11, <2>2
  <2>5. OnePending'
    <3>1. \A p, q \in mutations' : p.copy = q.copy => p = q
      BY <1>5, <2>3 DEF OnePending
    <3>2. /\ \A p \in mutations' : p.kind # "void"
          /\ gesture # NoGesture => \A p \in mutations' : p.copy # Newest
      BY <1>5, <2>3 DEF OnePending
    <3> QED
      BY <1>1, <1>6, <2>3, <3>1, <3>2 DEF OnePending
  <2>6. OneCopy'
    <3>1. \A c \in onServer : c = Newest
      BY <1>1, <2>3 DEF OneCopy
    <3>2. \A c \in marked : \E p \in mutations' :
            p.copy = c /\ (c = Newest => p.kind = "delete")
      BY <1>2, <2>3, <2>4 DEF OneCopy, ServerTypes
    <3> QED
      BY <1>1, <1>6, <2>3, <3>1, <3>2 DEF OneCopy
  <2>7. NewestFits'
    <3>1. Newest \in onServer \cap touched =>
            gesture.copy = Newest \/ \E p \in mutations' : p.copy = Newest /\ p.to = wish
      BY <2>3, <2>4 DEF NewestFits
    <3>2. Newest \notin onServer =>
            \A p \in mutations' : p.copy = Newest => p.kind = "delete"
      BY <1>5, <2>3 DEF NewestFits
    <3> QED
      BY <1>1, <1>6, <2>3, <3>1, <3>2 DEF NewestFits
  <2> QED
    BY <2>5, <2>6, <2>7
<1> QED
  BY <1>6, <1>7, <1>8, <1>9, <1>10, <1>12, <1>13 DEF MovesInv

---------------------------------------------------------------------------
LEMMA MovesInductive == MovesInv /\ [MovesNext]_mmVars => MovesInv'
<1> SUFFICES ASSUME MovesInv, [MovesNext]_mmVars PROVE MovesInv'
  OBVIOUS
<1>1. CASE UserStep
  BY <1>1, ClickStep, WritesStep, QueuedStep DEF UserStep
<1>2. CASE ReplayStep
  BY <1>2, RoundStep, ExecuteStep, CommandStep, MarkStep DEF ReplayStep
<1>3. CASE SyncStep
  BY <1>3, RoundStep, PruneStep, DeltaStep, FailStep, UpsertStep, VanishStep, SweepStep,
     CursorStep DEF SyncStep
<1>4. CASE MoverCrash
  BY <1>4, CrashStep
<1>5. CASE UNCHANGED mmVars
  <2>1. /\ UNCHANGED <<homeOf, onServer, marked, stored, threads, threadLabels, labels, lastUid,
                       mutations, gesture, mover, polling, due, secondTry, replyOk, toSync,
                       syncing, news, wish, touched, again, doubtful, dropped, unlinked,
                       haunted, gestures, quiet, lapses>>
    BY <1>5 DEF mmVars, serverSide, tables, worker, memory
  <2>2. Newest' = Newest /\ Made' = Made
    BY <2>1 DEF Newest, NewCopy, Made
  <2>3. ServerTypes' /\ TableTypes' /\ QueueTypes' /\ WorkerTypes'
    BY <2>1, <2>2 DEF MovesInv, ServerTypes, TableTypes, QueueTypes, WorkerTypes
  <2>4. QueueFits' /\ MailKept' /\ CopiesPend'
    BY <2>1, <2>2 DEF MovesInv, QueueFits, MailKept, CopiesPend, Pending, Oldest
  <2>5. CopiesFit'
    BY <2>1, <2>2 DEF MovesInv, CopiesFit, NothingWrong, OnePending, OneCopy, NewestFits, Oldest
  <2>6. LabelsFit' /\ NewsFit' /\ RoundFits'
    BY <2>1, <2>2 DEF MovesInv, LabelsFit, NewsFit, RoundFits, InSync, Of
  <2> QED
    BY <2>3, <2>4, <2>5, <2>6 DEF MovesInv
<1> QED
  BY <1>1, <1>2, <1>3, <1>4, <1>5 DEF MovesNext

LEMMA MovesInvariant == MovesSpec => []MovesInv
<1> QED
  BY MovesBegin, MovesInductive, PTL DEF MovesSpec

(* Of every variable of the moves, its type; a label is a thread's, and a  *)
(* cursor never passes the newest UID.                                     *)
THEOREM MovesTypeCorrect == MovesSpec => []MovesTypeOK
<1>1. MovesInv => MovesTypeOK
  <2> SUFFICES ASSUME MovesInv PROVE MovesTypeOK
    OBVIOUS
  <2>1. ServerTypes /\ TableTypes /\ QueueTypes /\ WorkerTypes
    BY DEF MovesInv
  <2>2. Newest \in Nat /\ Newest <= MaxCopies /\ Made \subseteq Copy
    BY <2>1, FirstCopy DEF Made
  <2>3. lastUid \in [MailFolder -> 0..MaxCopies]
    BY <2>1, <2>2, MovesAssumption DEF TableTypes
  <2> QED
    BY <2>1, <2>2, <2>3
    DEF ServerTypes, TableTypes, QueueTypes, WorkerTypes, MovesTypeOK
<1> QED
  BY <1>1, MovesInvariant, PTL

(* A mail that the user has not deleted keeps a copy on the server that    *)
(* is not about to be expunged, whichever command of a move is lost,       *)
(* repeated or overtaken.                                                  *)
THEOREM MailIsKept == MovesSpec => []MoveKeepsMail
<1>1. MovesInv => MoveKeepsMail
  BY DEF MovesInv, MailKept, MoveKeepsMail
<1> QED
  BY <1>1, MovesInvariant, PTL

(* When the queue is empty the mail is where the user last put it and      *)
(* nowhere else, unless something went wrong that the model names.         *)
THEOREM MovesDoArrive == MovesSpec => []MovesArrive
<1>1. MovesInv => MovesArrive
  <2> SUFFICES ASSUME MovesInv, Rested, ~again, ~doubtful, ~dropped
               PROVE  /\ Cardinality(onServer) <= 1
                      /\ {homeOf[c] : c \in onServer} = {wish} \ {Nowhere}
    BY DEF MovesArrive
  <2>1. /\ OneCopy /\ NewestFits /\ ServerTypes /\ mover = "rest" /\ gesture = NoGesture
        /\ mutations = {}
    BY DEF MovesInv, CopiesFit, NothingWrong, Rested
  <2>2. onServer \subseteq {Newest}
    BY <2>1 DEF OneCopy
  <2>3. Newest # NoCopy
    BY <2>1 DEF ServerTypes, Copy, NoCopy
  <2>4. CASE Newest \in onServer
    <3>1. onServer = {Newest} /\ Cardinality({Newest}) = 1
      BY <2>2, <2>4, FS_Singleton
    <3>2. homeOf[Newest] = wish
      BY <2>1, <2>3, <2>4 DEF NewestFits, NoGesture
    <3>3. wish # Nowhere
      BY <2>1, <2>4, <3>2 DEF ServerTypes, Made
    <3> QED
      BY <3>1, <3>2, <3>3
  <2>5. CASE Newest \notin onServer
    <3>1. onServer = {} /\ Cardinality({}) = 0 /\ wish = Nowhere
      BY <2>1, <2>2, <2>5, FS_EmptySet DEF NewestFits
    <3> QED
      BY <3>1
  <2> QED
    BY <2>4, <2>5
<1> QED
  BY <1>1, MovesInvariant, PTL

(* After a whole quiet round each folder's list shows what the server has  *)
(* in the folder, but for a sweep or a label that was lost on the way.     *)
THEOREM ListsAreRight == MovesSpec => []ListsShowServer
<1>1. MovesInv => ListsShowServer
  <2> SUFFICES ASSUME MovesInv, Rested, ~dropped, NEW f \in MailFolder
               PROVE  {c \in Copy \ haunted : <<c, f>> \in threadLabels}
                      = {c \in Of(onServer, f) : <<c, f>> \notin unlinked}
    BY DEF ListsShowServer
  <2>1. /\ ServerTypes /\ TableTypes /\ CopiesPend /\ LabelsFit /\ RoundFits
        /\ quiet = "yes" /\ mover = "rest" /\ gesture = NoGesture /\ mutations = {}
    BY DEF MovesInv, Rested
  <2>2. \A c \in onServer : c \in Made /\ c \in Copy /\ c # NoCopy
    BY <2>1 DEF ServerTypes, Made, Copy, NoCopy
  <2>3. \A c \in onServer : c \notin touched
    BY <2>1, <2>2 DEF CopiesPend, Pending, NoGesture
  <2>4. \A g \in MailFolder : InSync(g)
    BY <2>1 DEF RoundFits
  <2>5. ASSUME NEW c \in Copy \ haunted, <<c, f>> \in threadLabels
        PROVE  c \in Of(onServer, f) /\ <<c, f>> \notin unlinked
    <3>1. c \in stored /\ c \in Made /\ homeOf[c] \in MailFolder
      BY <2>1, <2>5 DEF TableTypes, LabelsFit, ServerTypes, Made, Place
    <3>2. c \in onServer
      BY <2>4, <3>1 DEF InSync
    <3> QED
      BY <2>1, <2>3, <2>5, <3>2 DEF LabelsFit, Of
  <2>6. ASSUME NEW c \in Of(onServer, f), <<c, f>> \notin unlinked
        PROVE  c \in Copy \ haunted /\ <<c, f>> \in threadLabels
    <3>1. c \in onServer /\ homeOf[c] = f /\ c \notin touched /\ c \in Made /\ c \in Copy
      BY <2>2, <2>3 DEF Of
    <3>2. c \in stored
      BY <2>4, <3>1 DEF InSync
    <3> QED
      BY <2>1, <2>6, <3>1, <3>2 DEF LabelsFit, CopiesPend
  <2> QED
    BY <2>5, <2>6 DEF Of
<1> QED
  BY <1>1, MovesInvariant, PTL
=============================================================================

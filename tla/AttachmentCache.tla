--------------------------- MODULE AttachmentCache ---------------------------
(***************************************************************************)
(* The files that hold the attachments and inline images of one message    *)
(* id: fetched from the server on demand, written under the directory of   *)
(* the message, and found again by attachments.local_path. A renumbering   *)
(* gives the id to another mail; mails are numbered in that order.         *)
(*                                                                         *)
(* A step ends where the Rust awaits, and a file is written in two steps,  *)
(* since other threads and a crash see it half written. Files of decrypted *)
(* mail, which no row points to, are left out.                             *)
(***************************************************************************)
EXTENDS Naturals

CONSTANTS
    Getters,    \* commands that fetch
    Parts,      \* the parts of the message
    Inline,     \* those a body refers to by cid:
    MaxMails,   \* bound: mails that have the id in turn
    MaxGets,    \* bound: commands
    MaxSweeps,  \* bound: runs of reconcile_attachment_cache
    MaxBreaks   \* bound: failed steps and crashes

ASSUME AttachmentAssumption ==
    /\ Inline \subseteq Parts
    /\ MaxMails \in Nat \ {0} /\ MaxGets \in Nat /\ MaxSweeps \in Nat
    /\ MaxBreaks \in Nat

Wants == {{p} : p \in Parts} \cup {Inline}
NoRow == 0
Nothing == [parts |-> {}, now |-> {}, of |-> NoRow, keeps |-> TRUE]
NoFile == [whole |-> FALSE, of |-> {}]
IsThere(file) == file.of # {}

VARIABLES
    serverHas, \* the mail that has the UID on the server (external)
    stands,    \* the mail the row of messages stands for, or NoRow
    listed,    \* the parts that have a row in attachments
    localPath, \* those of them whose local_path is set
    cached,    \* the file of each part: whole or not, and whose bytes
    getterAt,  \* what each command does
    fetching,  \* the parts it has yet to store, the one it stores now, whose
               \* bytes they are, and whether the file is still in the directory
    cleaning,  \* a user's delete has yet to remove the directory
    sweeperAt, \* what reconcile does
    stale,     \* the part whose missing file it has noticed
    hazy,      \* parts written by two at once or across a renumbering, and
               \* those recorded whose file a failed rewrite left torn
    gets, sweeps, breaks

acTables == <<stands, listed, localPath>>
acGetters == <<getterAt, fetching>>
acSweeper == <<sweeperAt, stale>>
acBounds == <<gets, sweeps, breaks>>
acVars == <<serverHas, acTables, cached, acGetters, cleaning, acSweeper, hazy,
            acBounds>>

CacheInit ==
    /\ serverHas = 1 /\ stands = 1 /\ listed = Parts /\ localPath = {}
    /\ cached = [p \in Parts |-> NoFile]
    /\ getterAt = [c \in Getters |-> "free"]
    /\ fetching = [c \in Getters |-> Nothing]
    /\ cleaning = FALSE /\ sweeperAt = "off" /\ stale = {} /\ hazy = {}
    /\ gets = 0 /\ sweeps = 0 /\ breaks = 0

Breaks == breaks < MaxBreaks /\ breaks' = breaks + 1 /\ UNCHANGED <<gets, sweeps>>
GoesWell == UNCHANGED acBounds

-----------------------------------------------------------------------------
(* sync_fetch_attachment and sync_fetch_inline_images.                     *)

GetterGoes(c, at) == getterAt' = [getterAt EXCEPT ![c] = at]
GivesUpGet(c) ==
    /\ GetterGoes(c, "free") /\ fetching' = [fetching EXCEPT ![c] = Nothing]

AskFor(c, wanted) ==
    /\ getterAt[c] = "free" /\ gets < MaxGets /\ gets' = gets + 1
    /\ GetterGoes(c, "look")
    /\ fetching' = [fetching EXCEPT ![c].parts = wanted]
    /\ UNCHANGED <<serverHas, acTables, cached, cleaning, acSweeper, hazy, sweeps, breaks>>

(* The rows are read; a hit needs a path for each. *)
LookUpRows(c) ==
    LET rows == fetching[c].parts \cap listed
    IN  /\ getterAt[c] = "look"
        /\ GetterGoes(c, IF rows # {} /\ rows \subseteq localPath THEN "check" ELSE "resolve")
        /\ UNCHANGED <<serverHas, acTables, cached, fetching, cleaning, acSweeper,
                       hazy, acBounds>>

(* The files must be there too; whether they are whole is not looked at.   *)
CheckFiles(c) ==
    /\ getterAt[c] = "check"
    /\ IF \A p \in fetching[c].parts \cap listed : IsThere(cached[p])
       THEN GivesUpGet(c)
       ELSE GetterGoes(c, "resolve") /\ UNCHANGED fetching
    /\ UNCHANGED <<serverHas, acTables, cached, cleaning, acSweeper, hazy, acBounds>>

Resolve(c) ==
    /\ getterAt[c] = "resolve"
    /\ IF stands = NoRow THEN GivesUpGet(c)
       ELSE GetterGoes(c, "fetch") /\ UNCHANGED fetching
    /\ UNCHANGED <<serverHas, acTables, cached, cleaning, acSweeper, hazy, acBounds>>

FetchParts(c) ==
    /\ getterAt[c] = "fetch"
    /\ \/ /\ serverHas # NoRow /\ GetterGoes(c, "store")
          /\ fetching' = [fetching EXCEPT ![c].of = serverHas]
          /\ GoesWell
       \/ GivesUpGet(c) /\ Breaks
    /\ UNCHANGED <<serverHas, acTables, cached, cleaning, acSweeper, hazy>>

Stores(c, p) == getterAt[c] \in {"writing", "record"} /\ p \in fetching[c].now
Writing(c, p) == getterAt[c] = "writing" /\ p \in fetching[c].now /\ fetching[c].keeps
StoredByOther(c, p) == \E d \in Getters \ {c} : Stores(d, p)

(* write_cache_file truncates the file, whoever else writes or uses it.     *)
WriteBegins(c, p) ==
    /\ getterAt[c] = "store" /\ p \in fetching[c].parts
    /\ GetterGoes(c, "writing")
    /\ fetching' = [fetching EXCEPT ![c].parts = @ \ {p}, ![c].now = {p}, ![c].keeps = TRUE]
    /\ cached' = [cached EXCEPT ![p] =
            [whole |-> FALSE,
             of |-> {fetching[c].of} \cup
                    (IF \E d \in Getters : Writing(d, p) THEN @.of ELSE {})]]
    /\ hazy' = IF StoredByOther(c, p) \/ (p \in localPath /\ fetching[c].of # stands)
               THEN hazy \cup {p} ELSE hazy
    /\ UNCHANGED <<serverHas, acTables, cleaning, acSweeper, acBounds>>

(* An error of the write ends the command: what was written stays.         *)
WriteEnds(c) ==
    LET p == CHOOSE q \in Parts : q \in fetching[c].now
        others == \E d \in Getters \ {c} : Writing(d, p)
    IN  /\ getterAt[c] = "writing"
        /\ \/ /\ cached' = IF fetching[c].keeps
                            THEN [cached EXCEPT ![p].whole = ~others] ELSE cached
              /\ GetterGoes(c, "record")
              /\ UNCHANGED <<fetching, hazy>> /\ GoesWell
           \/ /\ GivesUpGet(c) /\ Breaks
              /\ hazy' = IF p \in localPath THEN hazy \cup {p} ELSE hazy
              /\ UNCHANGED cached
        /\ UNCHANGED <<serverHas, acTables, cleaning, acSweeper>>

GetsOn(c) ==
    IF fetching[c].parts = {} THEN GivesUpGet(c)
    ELSE GetterGoes(c, "store") /\ fetching' = [fetching EXCEPT ![c].now = {}]

(* set_cached_path updates the row that has the id now, if any; its failure *)
(* is only logged.                                                         *)
RecordPath(c) ==
    LET now == fetching[c].now
    IN  /\ getterAt[c] = "record"
        /\ \/ /\ localPath' = localPath \cup (now \cap listed)
              /\ hazy' = IF fetching[c].of # stands THEN hazy \cup now ELSE hazy
              /\ GoesWell
           \/ Breaks /\ UNCHANGED <<localPath, hazy>>
        /\ GetsOn(c)
        /\ UNCHANGED <<serverHas, stands, listed, cached, cleaning, acSweeper>>

-----------------------------------------------------------------------------
(* The message's rows: a wipe and a delete take the attachments' rows with *)
(* them and leave the files, a renewed body replaces those rows.           *)

StillStored(ps) == {p \in ps : \E c \in Getters : Stores(c, p)}
WithoutPaths == /\ localPath' = {} /\ hazy' = StillStored(hazy)
PathsSurvive == UNCHANGED <<localPath, hazy>>
ForgetPaths == WithoutPaths
MessageGoes == stands # NoRow /\ stands' = NoRow /\ listed' = {} /\ ForgetPaths

ServerRenumbers ==
    /\ serverHas < MaxMails /\ serverHas' = serverHas + 1
    /\ UNCHANGED <<acTables, cached, acGetters, cleaning, acSweeper, hazy, acBounds>>

FolderWiped ==
    /\ stands # serverHas /\ MessageGoes
    /\ UNCHANGED <<serverHas, cached, acGetters, cleaning, acSweeper, acBounds>>

MessageArrives ==
    /\ stands = NoRow /\ stands' = serverHas
    /\ UNCHANGED <<serverHas, listed, localPath, cached, acGetters, cleaning,
                   acSweeper, hazy, acBounds>>

BodyStored ==
    /\ stands # NoRow /\ listed' = Parts /\ ForgetPaths
    /\ UNCHANGED <<serverHas, stands, cached, acGetters, cleaning, acSweeper, acBounds>>

UserDeletes ==
    /\ ~cleaning /\ cleaning' = TRUE /\ MessageGoes
    /\ UNCHANGED <<serverHas, cached, acGetters, acSweeper, acBounds>>

(* Removing the directory unlinks also the files that are being written.   *)
DirectoryGoes ==
    /\ cached' = [p \in Parts |-> NoFile]
    /\ fetching' = [c \in Getters |->
            IF getterAt[c] = "writing" THEN [fetching[c] EXCEPT !.keeps = FALSE]
            ELSE fetching[c]]

CleanAfterDelete ==
    /\ cleaning /\ cleaning' = FALSE
    /\ \/ DirectoryGoes /\ GoesWell
       \/ Breaks /\ UNCHANGED <<cached, fetching>>
    /\ UNCHANGED <<serverHas, acTables, getterAt, acSweeper, hazy>>

-----------------------------------------------------------------------------
(* reconcile_cache: the directory goes when the message has no row; then   *)
(* the paths without a file are cleared.                                   *)

SweepBegins ==
    /\ sweeperAt = "off" /\ sweeps < MaxSweeps /\ sweeps' = sweeps + 1
    /\ sweeperAt' = IF stands = NoRow THEN "remove" ELSE "scan"
    /\ UNCHANGED <<serverHas, acTables, cached, acGetters, cleaning, stale, hazy, gets, breaks>>

RemoveOrphan ==
    /\ sweeperAt = "remove" /\ sweeperAt' = "scan"
    /\ \/ DirectoryGoes /\ GoesWell
       \/ Breaks /\ UNCHANGED <<cached, fetching>>
    /\ UNCHANGED <<serverHas, acTables, getterAt, cleaning, stale, hazy>>

ScanPaths ==
    /\ sweeperAt = "scan" /\ sweeperAt' = "clear"
    /\ stale' = {p \in localPath : ~IsThere(cached[p])}
    /\ UNCHANGED <<serverHas, acTables, cached, acGetters, cleaning, hazy, acBounds>>

ClearStale ==
    /\ sweeperAt = "clear" /\ sweeperAt' = "off" /\ stale' = {}
    /\ \/ localPath' = localPath \ stale /\ GoesWell
       \/ stale # {} /\ Breaks /\ UNCHANGED localPath
    /\ UNCHANGED <<serverHas, stands, listed, cached, acGetters, cleaning, hazy>>

(* The process ends: files and tables stay.                                *)
CacheCrash ==
    /\ Breaks
    /\ getterAt' = [c \in Getters |-> "free"] /\ fetching' = [c \in Getters |-> Nothing]
    /\ cleaning' = FALSE /\ sweeperAt' = "off" /\ stale' = {}
    /\ hazy' = hazy \cup {p \in localPath : \E c \in Getters : Writing(c, p)}
    /\ UNCHANGED <<serverHas, acTables, cached>>

CacheNext ==
    \/ \E c \in Getters :
          \/ \E wanted \in Wants : AskFor(c, wanted)
          \/ LookUpRows(c) \/ CheckFiles(c) \/ Resolve(c) \/ FetchParts(c)
          \/ \E p \in Parts : WriteBegins(c, p)
          \/ WriteEnds(c) \/ RecordPath(c)
    \/ ServerRenumbers \/ FolderWiped \/ MessageArrives \/ BodyStored
    \/ UserDeletes \/ CleanAfterDelete
    \/ SweepBegins \/ RemoveOrphan \/ ScanPaths \/ ClearStale \/ CacheCrash

CacheSpec == CacheInit /\ [][CacheNext]_acVars

-----------------------------------------------------------------------------
(* The variables' types.                                                   *)
CacheTypeOK ==
    /\ serverHas \in 1 .. MaxMails /\ stands \in {NoRow} \cup 1 .. MaxMails
    /\ listed \in {{}, Parts} /\ localPath \subseteq listed
    /\ cached \in [Parts -> [whole : BOOLEAN, of : SUBSET (1 .. MaxMails)]]
    /\ getterAt \in [Getters -> {"free", "look", "check", "resolve", "fetch",
                                 "store", "writing", "record"}]
    /\ fetching \in [Getters -> [parts : SUBSET Parts, now : SUBSET Parts,
                                 of : {NoRow} \cup 1 .. MaxMails, keeps : BOOLEAN]]
    /\ cleaning \in BOOLEAN /\ sweeperAt \in {"off", "remove", "scan", "clear"}
    /\ stale \subseteq Parts /\ hazy \subseteq Parts
    /\ gets \in 0 .. MaxGets /\ sweeps \in 0 .. MaxSweeps /\ breaks \in 0 .. MaxBreaks

(* The next click on an attachment is served the file its row names after  *)
(* a look at its existence alone. So unless the part is hazy or is being   *)
(* written again, a recorded file that exists is whole and holds the bytes *)
(* of the mail the row stands for, through failed writes, crashes,         *)
(* deletions, renumberings, renewed bodies and reconcile passes.           *)
CachedFileIsThePart ==
    \A p \in localPath \ hazy :
        \/ ~IsThere(cached[p])
        \/ \E c \in Getters : Writing(c, p)
        \/ cached[p] = [whole |-> TRUE, of |-> {stands}]
=============================================================================

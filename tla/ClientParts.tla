---------------------------- MODULE ClientParts ----------------------------
(***************************************************************************)
(* The IMAP session with its clients, the dock's drafts, the files of a    *)
(* message's attachments, and the moves of mail between folders: they      *)
(* share no state. A behaviour is that of one of them, drawn at the start, *)
(* while the others stay as they begin.                                    *)
(***************************************************************************)
EXTENDS ImapSession, DraftAutosave, AttachmentCache, MailMoves

VARIABLE side

clientPartsVars == <<side, sessVars, daVars, acVars, mmVars>>

ClientInit ==
    /\ side \in {"session", "drafts", "files", "moves"}
    /\ SessInit /\ DraftInit /\ CacheInit /\ MovesInit
    /\ side # "drafts" => ~attached

ClientNext ==
    /\ side' = side
    /\ \/ side = "session" /\ SessNext /\ UNCHANGED <<daVars, acVars, mmVars>>
       \/ side = "drafts" /\ DraftNext /\ UNCHANGED <<sessVars, acVars, mmVars>>
       \/ side = "files" /\ CacheNext /\ UNCHANGED <<sessVars, daVars, mmVars>>
       \/ side = "moves" /\ MovesNext /\ UNCHANGED <<sessVars, daVars, acVars>>

ClientSpec ==
    /\ ClientInit /\ [][ClientNext]_clientPartsVars
    /\ side = "session" => SessFairness

(* The variables' types, side by side.                                     *)
ClientTypeOK == SessTypeOK /\ DraftTypeOK /\ CacheTypeOK /\ MovesTypeOK
=============================================================================

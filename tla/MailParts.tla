----------------------------- MODULE MailParts -----------------------------
(***************************************************************************)
(* The components that share no state with one another, side by side: a    *)
(* behaviour is that of one of them, drawn at the start, while the others  *)
(* stay as they begin. One run of TLC then checks each on its own.         *)
(***************************************************************************)
EXTENDS EasMail, ReadingPane, SendPath, SignerVerdict, ListView, TLC

CONSTANTS i1, i2, m1, m2

Parts == {"eas", "pane", "send", "verdict", "list"}
VARIABLE part

allVars == <<part, easVars, rpVars, spVars, svVars, lvVars>>

(* Two messages whose ServerIds hash to two values, or to one. *)
TwoHashes == {i1 :> 1 @@ i2 :> 2, i1 :> 1 @@ i2 :> 1}
OneConcernEach == {{"account"}, {"collection"}, {"send"}}

(* Clear-signed mail beside plain mail. *)
SignedAndPlain == {m1 :> "clear" @@ m2 :> "plain"}

(* A part that is not drawn has one initial state. The signed mail was     *)
(* stored before signatures were looked for. The signer's certificate is   *)
(* listed from the second tick on, and the first point has no list. The    *)
(* message list begins with one folder, in which one thread is still to    *)
(* come.                                                                   *)
PartsInit ==
    /\ part \in Parts
    /\ EasInit
    /\ part # "eas" => /\ scenario = {"send"} /\ oauth = FALSE
                       /\ uidOf = i1 :> 1 @@ i2 :> 1
    /\ PaneInit
    /\ flagged = {}
    /\ SendInit
    /\ part # "send" => asked = CHOOSE d \in Drafts : TRUE
    /\ part # "send" => method = "none" /\ ~saves
    /\ VerdictInit
    /\ signature = "sound" /\ trusted /\ listedFrom = 1
    /\ serves = [p \in Point |-> IF p = LastPoint THEN "ours" ELSE "garbage"]
    /\ inList = [f \in Labels |-> IF f = "INBOX" THEN Thread \ {2} ELSE {}]
    /\ ListInit

PartsNext ==
    /\ part' = part
    /\ \/ part = "eas" /\ EasNext /\ UNCHANGED <<rpVars, spVars, svVars, lvVars>>
       \/ part = "pane" /\ PaneNext /\ UNCHANGED <<easVars, spVars, svVars, lvVars>>
       \/ part = "send" /\ SendNext /\ UNCHANGED <<easVars, rpVars, svVars, lvVars>>
       \/ part = "verdict" /\ VerdictNext /\ UNCHANGED <<easVars, rpVars, spVars, lvVars>>
       \/ part = "list" /\ ListNext /\ UNCHANGED <<easVars, rpVars, spVars, svVars>>

PartsSpec ==
    /\ PartsInit /\ [][PartsNext]_allVars
    /\ part = "eas" => EasFairness

(* The variables' types, part by part. *)
PartsTypeOK ==
    EasTypeOK /\ PaneTypeOK /\ SendTypeOK /\ VerdictTypeOK /\ ListTypeOK
=============================================================================

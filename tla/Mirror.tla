------------------------------- MODULE Mirror -------------------------------
(***************************************************************************)
(* What every MailSource owes the folder it mirrors, whatever protocol it  *)
(* speaks and however its rounds are cut short: the stored cursor vouches  *)
(* only for messages that are held, or that the user deleted or a round    *)
(* could not bring; it takes no such claim back but all of them at once;   *)
(* and nothing that is still on the server is dropped, unless the cursor's *)
(* claims are dropped with it.                                             *)
(*                                                                         *)
(* FolderSync implements this with UIDs, EasMail with sync keys.           *)
(***************************************************************************)
VARIABLES
    here,    \* the messages of the server's folder
    held,    \* those that have a row
    vouched, \* those the stored cursor claims to have seen
    excused  \* those that no round will bring any more

mirrorVars == <<here, held, vouched, excused>>

MirrorInit == held = {} /\ vouched = {} /\ excused = {}

(* A message that comes is one that no cursor has seen. The server may     *)
(* disown its cursors all together.                                        *)
ServerMoves ==
    /\ vouched' \in {vouched, {}} /\ (here' \ here) \cap vouched' = {}
    /\ excused' \subseteq excused /\ excused \cap here' \subseteq excused'
    /\ UNCHANGED held

(* A deleted message need not come back, if it is one of the folder still. *)
UserDeletes ==
    /\ \E m \in held : /\ held' = held \ {m}
                       /\ excused \subseteq excused' /\ excused' \subseteq excused \cup {m}
                       /\ m \in here => m \in excused'
    /\ UNCHANGED <<here, vouched>>

(* The cursor is not yet to speak for what a round gives up.               *)
Store ==
    /\ (held \ held') \cap here = {}
    /\ excused \subseteq excused' /\ (excused' \ excused) \cap vouched = {}
    /\ UNCHANGED <<here, vouched>>

StartOver ==
    /\ held' \in {held, {}} /\ vouched' = {}
    /\ UNCHANGED <<here, excused>>

Vouch ==
    /\ vouched \cap here \subseteq vouched'
    /\ vouched' \cap here \subseteq held \cup excused
    /\ UNCHANGED <<here, held, excused>>

MirrorNext == ServerMoves \/ UserDeletes \/ Store \/ StartOver \/ Vouch

MirrorSpec == MirrorInit /\ [][MirrorNext]_mirrorVars

(* What the steps keep between them.                                       *)
ClaimsHold == vouched \cap here \subseteq held \cup excused
=============================================================================

-------------------------------- MODULE Browser --------------------------------
(***************************************************************************)
(* What the browser keeps, side by side: the messages of the chat panel    *)
(* and the sign-in of the application.                                     *)
(*                                                                         *)
(* As in Processes a behaviour follows one of them, the one in focus.      *)
(***************************************************************************)
EXTENDS ChatPanel, BrowserSession

VARIABLE focus

browserAppVars == <<focus, panelVars, browserVars>>

BrowserInit ==
    /\ focus \in {"panel", "sign_in"}
    /\ ChatPanelInit
    /\ BrowserSessionInit

\* A step of the part in focus leaves the other at rest.
Step(part, Next) == focus = part /\ Next /\ UNCHANGED focus

BrowserNext ==
    \/ Step("panel", ChatPanelNext) /\ UNCHANGED browserVars
    \/ Step("sign_in", BrowserSessionNext) /\ UNCHANGED panelVars

BrowserSpec == BrowserInit /\ [][BrowserNext]_browserAppVars

-----------------------------------------------------------------------------
\* The variables of both parts keep their types, and no stored message bears the
\* number of another.
BrowserTypeOK == PanelTypeOK /\ BrowserSessionTypeOK
=============================================================================

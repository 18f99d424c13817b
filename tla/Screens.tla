------------------------------ MODULE Screens ------------------------------
(***************************************************************************)
(* The screens of the application that change records over a connection    *)
(* which can fail, each with the handlers that answer it.  A behaviour is  *)
(* that of one screen: they share no record, so the parts are independent  *)
(* and the others keep still.                                              *)
(***************************************************************************)
EXTENDS ActionCreation, BulkWorkflow, SavedViews

VARIABLE screen    \* the screen that is open

vars == <<creationVars, bulkVars, viewsVars, screen>>

Init ==
    /\ CreationInit
    /\ BulkInit
    /\ ViewsInit
    /\ screen \in {"maintenance", "services", "views"}
    /\ screen # "views" => stored = {} /\ rows = {}    \* nobody would look

Next ==
    /\ UNCHANGED screen
    /\ \/ screen = "maintenance" /\ CreationNext /\ UNCHANGED <<bulkVars, viewsVars>>
       \/ screen = "services" /\ BulkNext /\ UNCHANGED <<creationVars, viewsVars>>
       \/ screen = "views" /\ ViewsNext /\ UNCHANGED <<creationVars, bulkVars>>

Spec == Init /\ [][Next]_vars

\* The types of the three parts.
ScreensTypeOK == CreationTypeOK /\ BulkTypeOK /\ ViewsTypeOK
=============================================================================

--------------------------- MODULE Screens_proofs ---------------------------
(***************************************************************************)
(* The composition of the screens: each part of it behaves as the part     *)
(* alone does, so what is proved of the parts holds of the whole.          *)
(***************************************************************************)
EXTENDS Screens, ActionCreation_proofs, BulkWorkflow_proofs, SavedViews_proofs, TLAPS

\* Every step of the screens is a step or a stutter of each part.
THEOREM ScreensImplementTheirParts == Spec => CreationSpec /\ BulkSpec /\ ViewsSpec
  <1>1. Init => CreationInit /\ BulkInit /\ ViewsInit
    BY DEF Init
  <1>2. [Next]_vars => /\ [CreationNext]_creationVars
                       /\ [BulkNext]_bulkVars
                       /\ [ViewsNext]_viewsVars
    <2>1. Next => /\ [CreationNext]_creationVars
                  /\ [BulkNext]_bulkVars
                  /\ [ViewsNext]_viewsVars
      BY DEF Next
    <2>2. UNCHANGED vars => UNCHANGED <<creationVars, bulkVars, viewsVars>>
      BY DEF vars
    <2>. QED BY <2>1, <2>2
  <1>. QED BY <1>1, <1>2, PTL DEF Spec, CreationSpec, BulkSpec, ViewsSpec

\* The types of the three parts.
THEOREM ScreensTypes == Spec => []ScreensTypeOK
  <1>1. CreationTypeOK /\ BulkTypeOK /\ ViewsTypeOK => ScreensTypeOK
    BY DEF ScreensTypeOK
  <1>. QED BY <1>1, ScreensImplementTheirParts, CreationTypes, BulkTypes, ViewsTypes, PTL

\* Creating maintenance, with every user of the form and of the windows.
THEOREM ScreensPlanMaintenance ==
    Spec => []OneRowPerKey /\ []PlanKeepsWindow /\ []SavedIsRecorded
  BY ScreensImplementTheirParts, KeysMakeOneRow, PlansKeepWindows, SavedFormsAreRecorded, PTL

\* Bulk commands, with every other editor and the tab's tenant.
THEOREM ScreensRunBulkCommands ==
    Spec => /\ []NoEditLost /\ []RefusalIsTrue /\ []LatestPreviewShown /\ []WritesStayInTenant
            /\ UndoTakesBackItsOwn /\ ImplementsReviewedStore
  BY ScreensImplementTheirParts, EditsAreKept, RefusalsAreTrue, DialogIsCurrent, WritesStay,
     UndoIsOwn, RowsAreReviewed, PTL

\* Saved views, with every tab of the browser.
THEOREM ScreensKeepViews == Spec => []MovedAtMostOnce /\ ListingsInOrder
  BY ScreensImplementTheirParts, ViewsMoveOnce, ListingsGoForward, PTL
=============================================================================

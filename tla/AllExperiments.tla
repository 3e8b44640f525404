--------------------------- MODULE AllExperiments --------------------------
(***************************************************************************)
(* The frozen experiments side by side: a behaviour runs one of them, over *)
(* the checkout, the files and the tracked runs of CaseRuns.               *)
(***************************************************************************)
EXTENDS HeldoutRun, StartupRun, BaselineRun, ActionSemantics, RewardAblation, SimToReal,
        SelectionRun

Next == UserChanges \/ HeldoutNext \/ StartupNext \/ BaselineNext \/ ActionNextStep
        \/ RewardNext \/ SimNext \/ SelectionNext

Spec == Init /\ [][Next]_vars

\* Of whichever experiment the result is.
FrozenWell ==
    /\ frozen.experiment = "heldout" => HeldoutFrozenWell
    /\ frozen.experiment = "startup" => StartupFrozenWell
    /\ frozen.experiment = "baseline" => BaselineFrozenWell
    /\ frozen.experiment = "action" => ActionFrozenWell
    /\ frozen.experiment = "reward" => RewardFrozenWell
    /\ frozen.experiment = "sim-to-real" => SimFrozenWell
    /\ frozen.experiment = "selection" => SelectionFrozenWell
=============================================================================

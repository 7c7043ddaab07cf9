----------------------------- MODULE MCCaptures -----------------------------
(***************************************************************************)
(* The instance of Recorder and of Heatmap for TLC.  The two captures of a *)
(* page share nothing but the configuration, which has one of them enabled *)
(* here: each behaviour is one of a single module.                         *)
(***************************************************************************)
EXTENDS Recorder, Heatmap, TLC

CONSTANTS left, right, early, later, none, home, shop

VARIABLE enabled

TabSymmetry == Permutations(Tabs) \cup Permutations(Visits) \cup Permutations(Urls)

\* Where the page stands matters to the heatmap only.
Init ==
  /\ RecorderInit
  /\ HeatmapInit
  /\ \/ enabled = "replay" /\ depth = 20
     \/ enabled = "heatmap"

Next ==
  \/ enabled = "replay" /\ RecorderNext /\ UNCHANGED <<heatmapVars, enabled>>
  \/ enabled = "heatmap" /\ HeatmapNext /\ UNCHANGED <<recorderVars, enabled>>

Spec == Init /\ [][Next]_<<recorderVars, heatmapVars, enabled>>
=============================================================================

------------------------------- MODULE Plans -------------------------------
(***************************************************************************)
(* What the plan of a reveal tree must be for those who write it: no path  *)
(* serves twice, and directories can be made before what they contain.     *)
(* PathPlan shows it of the plans NewTree accepts; Tree relies on it       *)
(* (treePlan and NewTree of internal/publication/tree.go).                 *)
(***************************************************************************)

\* The paths of the artifacts of these kinds of the candidates.
Artifacts(candidates, kinds, pathOf) == {pathOf[s][k] : s \in candidates, k \in kinds}

\* pathOf[s][k] is the path of artifact k of candidate s, closing the files written
\* last, above[n] the directories that contain n, at any depth.
SoundPlan(sources, candidates, kinds, pathOf, closing, dirs, above) ==
    LET artifacts == Artifacts(candidates, kinds, pathOf)
        nodes == artifacts \cup closing \cup dirs
    IN  /\ candidates \subseteq sources
        /\ pathOf \in [candidates -> [kinds -> artifacts]]
        /\ \A s, t \in candidates : \A k, l \in kinds :
              pathOf[s][k] = pathOf[t][l] => s = t /\ k = l
        /\ (artifacts \cup closing) \cap dirs = {} /\ artifacts \cap closing = {}
        /\ above \in [nodes -> SUBSET dirs]
        /\ \A n \in closing : above[n] = {}
        /\ \A n \in nodes : \A d \in above[n] : above[d] \subseteq above[n] \ {d}
=============================================================================

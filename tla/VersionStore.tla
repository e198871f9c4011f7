---------------------------- MODULE VersionStore ----------------------------
(***************************************************************************)
(* What the backend promises about versions, without handlers, files or    *)
(* saves: a version stands for one file from the upload that registers it  *)
(* to the delete that removes it.  A save that is cut off loses every      *)
(* version at once, never one of them and never in exchange for another.   *)
(***************************************************************************)
CONSTANTS Versions, Files, None

VARIABLE versions  \* the file each version stands for, or None

Nothing == [v \in Versions |-> None]

Init == versions = Nothing

Add(v, f) ==
    /\ versions[v] = None
    /\ versions' = [versions EXCEPT ![v] = f]

Remove(v) ==
    /\ versions[v] # None
    /\ versions' = [versions EXCEPT ![v] = None]

LoseAll == versions' = Nothing

Next ==
    \/ \E v \in Versions : Remove(v) \/ \E f \in Files : Add(v, f)
    \/ LoseAll

Spec == Init /\ [][Next]_versions
=============================================================================

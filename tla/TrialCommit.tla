---------------------------- MODULE TrialCommit ----------------------------
(***************************************************************************)
(* What A/B updating promises, without slots, boots or tasks: a device has *)
(* one confirmed image and at most one candidate.  A candidate is either   *)
(* confirmed, which an image that cannot reach the broker never is, or     *)
(* dropped; until it is confirmed, the confirmed image stays what it was.  *)
(***************************************************************************)
CONSTANTS Bootable, Broken, Factory, NoCandidate

VARIABLES confirmed, candidate

vars == <<confirmed, candidate>>

Init == confirmed = Factory /\ candidate = NoCandidate

Stage(i) ==
    /\ candidate = NoCandidate
    /\ candidate' = i
    /\ UNCHANGED confirmed

Confirm ==
    /\ candidate \in Bootable \ Broken
    /\ confirmed' = candidate
    /\ candidate' = NoCandidate

Drop ==
    /\ candidate # NoCandidate
    /\ candidate' = NoCandidate
    /\ UNCHANGED confirmed

Next == Confirm \/ Drop \/ \E i \in Bootable : Stage(i)

\* Every candidate is decided.
Spec == Init /\ [][Next]_vars /\ WF_vars(Confirm \/ Drop)
============================================================================

---------------------------- MODULE MCOtaSystem ----------------------------
(***************************************************************************)
(* A small instance of OtaSystem: one version uploaded with one image,      *)
(* deleted, and uploaded again with another one, by handlers that overlap.  *)
(***************************************************************************)
EXTENDS OtaSystem, FiniteSets, TLC

CONSTANTS a, b, v1

UnitSize == [i \in Images |-> 1]

Upload(v, i) == [version |-> v, image |-> i, size |-> 1]

MCUploads == {Upload(v1, a), Upload(v1, b)}

Symmetry == Permutations(Handlers)

\* Bound: announcements at once with the publisher, the broker and the device.
FewUnderWay ==
    Cardinality(outbox) + Len(inbox) + Cardinality({queued, job} \ {None}) <= 2

\* Bound: up to the device's first restart into an update.
FirstUpdate == latest = 0 \/ workerPc = "reboot"

\* What is left out is written and never read: the last report, and how far
\* app_main is once it has started MQTT, when all that remains is to report.
\* States that differ in nothing else behave alike.
View ==
    <<image, otaState, latest, rebootCnt, running, pendingVerify, rebootCount,
      waitCount, mqttConnected, queued, workerPc, job, download, trialBoots,
      IF mainPc \in {"announce", "announcing"} THEN "idle" ELSE mainPc,
      backend, inbox, late>>
=============================================================================

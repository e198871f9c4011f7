--------------------------- MODULE MCDeviceUpdate ---------------------------
(***************************************************************************)
(* A small instance of DeviceUpdate: a factory image, a good one of two    *)
(* chunks, one that never reaches the broker, and a file that is not an    *)
(* application; a command for each and one that announces a wrong size.    *)
(***************************************************************************)
EXTENDS DeviceUpdate

CONSTANTS f, good, bad, junk

MCSize == [i \in {f, good, bad, junk} |-> IF i = good THEN 2 ELSE 1]

MCCommands ==
    {[image |-> i, size |-> MCSize[i]] : i \in {good, bad, junk}}
        \cup {[image |-> good, size |-> 1]}

\* The instance of the liveness run: every image is one chunk.
UnitSize == [i \in {f, good, bad} |-> 1]

UnitCommands == {[image |-> i, size |-> 1] : i \in {good, bad}}
=============================================================================

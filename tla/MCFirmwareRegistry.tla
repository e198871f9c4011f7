------------------------- MODULE MCFirmwareRegistry -------------------------
(***************************************************************************)
(* A small instance of FirmwareRegistry: two versions, two files, and the  *)
(* requests that let them meet.                                            *)
(***************************************************************************)
EXTENDS FirmwareRegistry, TLC

CONSTANTS v1, v2, f1, f2

Upload(v, f, b) == [op |-> "upload", version |-> v, file |-> f, body |-> b]
Delete(v) == [op |-> "delete", version |-> v]
Download(v) == [op |-> "download", version |-> v]

\* Good uploads, one with the wrong bytes, one cut off, deletes, downloads.
AllRequests ==
    {Upload(v1, f1, f1), Upload(v1, f2, f2), Upload(v2, f1, f1),
     Upload(v2, f1, f2), Upload(v1, f1, Short)}
        \cup {Delete(v) : v \in {v1, v2}} \cup {Download(v) : v \in {v1, v2}}

TwoFiles    == {Upload(v1, f1, f1), Upload(v1, f2, f2)}

ClientSymmetry == Permutations(Clients)

Distinct == [v \in {v1, v2} |-> v]
=============================================================================

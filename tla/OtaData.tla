------------------------------ MODULE OtaData ------------------------------
(***************************************************************************)
(* The A/B boot bookkeeping of ESP-IDF as the firmware uses it: the two    *)
(* otadata entries (one per OTA slot), the entry written last, and what    *)
(* the bootloader and the esp_ota_* library do with them.  This code is    *)
(* not in the repository; it is modelled from the calls in ota_handler.c   *)
(* and main.c and from what their comments rely on.                        *)
(*                                                                         *)
(* An entry table st maps each slot to the state of its entry; latest is   *)
(* the slot whose entry has the highest sequence number.                   *)
(***************************************************************************)
EXTENDS Integers

Slots == {0, 1}

Other(s) == 1 - s

\* "Empty" is an entry never written, or lost in a torn write.  "Undefined"
\* is what a new entry gets when the bootloader is built without rollback.
EntryStates ==
    {"Empty", "New", "Pending", "Valid", "Invalid", "Aborted", "Undefined"}

\* The bootloader ignores entries that are blank, invalid or aborted.
Selectable(st, s) == st[s] \notin {"Empty", "Invalid", "Aborted"}

\* The slot the bootloader chooses: the newest selectable entry, and slot 0
\* when there is none (partition.csv has no factory partition).
Selected(st, latest) ==
    CASE Selectable(st, latest)                                     -> latest
      [] ~Selectable(st, latest) /\ Selectable(st, Other(latest))   -> Other(latest)
      [] ~Selectable(st, latest) /\ ~Selectable(st, Other(latest))  -> 0

\* A reset ends a trial that was not confirmed (rollback builds only).
AbortPending(st) ==
    [s \in Slots |-> IF st[s] = "Pending" THEN "Aborted" ELSE st[s]]

\* The first boot of a new entry starts its trial (rollback builds only).
StartTrial(st, s) ==
    IF st[s] = "New" THEN [st EXCEPT ![s] = "Pending"] ELSE st

\* esp_ota_check_rollback_is_possible: the entry that is not selected could
\* still be booted, and its image verifies.
RollbackPossible(st, latest, image, bootable) ==
    LET fallback == Other(Selected(st, latest))
    IN  Selectable(st, fallback) /\ image[fallback] \in bootable
============================================================================

--------------------------- MODULE Announcements ---------------------------
(***************************************************************************)
(* What the backend's MQTT publisher promises: an announcement it answers  *)
(* for (mqtt_published) is kept until the broker has it, and a kept one    *)
(* may reach the broker more than once.  A restart of the backend loses    *)
(* what is kept.                                                           *)
(***************************************************************************)
CONSTANT Messages

VARIABLES
    outbox,   \* announcements kept for the broker
    sent,     \* those the broker has received
    promised  \* those the backend answered for

vars == <<outbox, sent, promised>>

Init == outbox = {} /\ sent = {} /\ promised = {}

Keep(m) ==
    /\ outbox' = outbox \cup {m}
    /\ UNCHANGED <<sent, promised>>

Promise(m) ==
    /\ m \in outbox \cup sent
    /\ promised' = promised \cup {m}
    /\ UNCHANGED <<outbox, sent>>

Send(m) ==
    /\ m \in outbox
    /\ sent' = sent \cup {m}
    /\ UNCHANGED <<outbox, promised>>

\* The broker's acknowledgement ends the retransmissions.
Settle(m) ==
    /\ m \in outbox \cap sent
    /\ outbox' = outbox \ {m}
    /\ UNCHANGED <<sent, promised>>

LoseAll ==
    /\ outbox' = {}
    /\ UNCHANGED <<sent, promised>>

Next ==
    \/ \E m \in Messages : Keep(m) \/ Promise(m) \/ Send(m) \/ Settle(m)
    \/ LoseAll

Spec == Init /\ [][Next]_vars
=============================================================================

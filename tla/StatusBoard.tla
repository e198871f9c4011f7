---------------------------- MODULE StatusBoard ----------------------------
(***************************************************************************)
(* The dashboard (streamlit/app.py) and what a device tells it.  Browser   *)
(* sessions run the same script and share one store and one cached MQTT    *)
(* listener; a listener's network thread writes the store while a session  *)
(* replaces the listener with the Reconnect button.  What arrives are the  *)
(* heartbeats of a device (main.c:95-118), each a number here; its         *)
(* statuses go to firmware/status, which the dashboard does not subscribe  *)
(* to.                                                                     *)
(*                                                                         *)
(* paho and Streamlit's cache are external: a client reconnects by itself, *)
(* in a clean session and without its subscriptions; a cached function is  *)
(* computed by one session at a time.                                      *)
(***************************************************************************)
EXTENDS Integers, Sequences, FiniteSets

CONSTANTS
    Sessions,   \* browser tabs
    Listeners,  \* bound: clients alive at once
    None,
    MaxBeats    \* bound: heartbeats of a behaviour

ASSUME StatusBoardAssumption == None \notin Listeners /\ MaxBeats \in Nat

VARIABLES
    netUp,   \* the dashboard reaches the broker
    cache,   \* what start_mqtt_listener is cached to return
    client,  \* the paho clients
    pc,      \* where each session's script is
    held,    \* the script's variable listener
    row,     \* the device's row of the store: the heartbeat it shows
    beat,    \* heartbeats published so far
    leaked   \* ghost: a listener was cleared that nobody had stopped

script == <<pc, held>>
vars   == <<netUp, cache, client, script, row, beat, leaked>>

\* A client that was stopped, and one that connected and subscribed.
Dead  == [thread |-> FALSE, up |-> FALSE, subscribed |-> FALSE, inbox |-> <<>>]
Fresh == [thread |-> TRUE, up |-> TRUE, subscribed |-> TRUE, inbox |-> <<>>]

Init ==
    /\ netUp \in BOOLEAN
    /\ cache = None
    /\ client = [l \in Listeners |-> Dead]
    /\ pc = [s \in Sessions |-> "idle"]
    /\ held = [s \in Sessions |-> None]
    /\ row = 0 /\ beat = 0
    /\ leaked = FALSE

\* The cached listener receives what the device publishes.
Listening ==
    /\ cache # None
    /\ client[cache].thread /\ client[cache].up /\ client[cache].subscribed

(***************************************************************************)
(* The device and the broker                                               *)
(***************************************************************************)

\* publish_heartbeat, with QoS 0 to device/id/status: who is subscribed at the
\* moment gets it.  Without a connection it returns at once.
PublishHeartbeat ==
    /\ beat < MaxBeats
    /\ beat' = beat + 1
    /\ client' = [l \in Listeners |->
                    IF client[l].subscribed
                    THEN [client[l] EXCEPT !.inbox = Append(@, beat')] ELSE client[l]]
    /\ UNCHANGED <<netUp, cache, script, row, leaked>>

\* Bug: the session, but not its subscription, outlives the connection.
NetChangesKeeps ==
    /\ netUp' = ~netUp
    /\ client' = IF netUp
                 THEN [l \in Listeners |->
                         [client[l] EXCEPT !.up = FALSE, !.subscribed = FALSE]]
                 ELSE client
    /\ UNCHANGED <<cache, script, row, beat, leaked>>

\* A lost connection loses what it carried.
NetChanges ==
    /\ netUp' = ~netUp
    /\ client' = IF netUp
                 THEN [l \in Listeners |->
                         [client[l] EXCEPT !.up = FALSE, !.subscribed = FALSE,
                                           !.inbox = <<>>]]
                 ELSE client
    /\ UNCHANGED <<cache, script, row, beat, leaked>>

(***************************************************************************)
(* The network thread of a listener                                        *)
(***************************************************************************)

\* There is no on_connect to subscribe again.
Reconnect(l) ==
    /\ client[l].thread /\ ~client[l].up /\ netUp
    /\ client' = [client EXCEPT ![l].up = TRUE]
    /\ UNCHANGED <<netUp, cache, script, row, beat, leaked>>

\* on_message, DeviceStatusStore.update: the last message handled is the row,
\* whatever its age.
Handle(l) ==
    /\ client[l].thread /\ client[l].inbox # <<>>
    /\ row' = Head(client[l].inbox)
    /\ client' = [client EXCEPT ![l].inbox = Tail(@)]
    /\ UNCHANGED <<netUp, cache, script, beat, leaked>>

Network(l) == Reconnect(l) \/ Handle(l)

(***************************************************************************)
(* A session                                                               *)
(***************************************************************************)
Goto(s, to) == pc' = [pc EXCEPT ![s] = to]

Free == {l \in Listeners :
           client[l] = Dead /\ l # cache /\ \A s \in Sessions : held[s] # l}

\* Bug: the new client does not subscribe.
CreateDeaf(l) ==
    /\ client' = [client EXCEPT ![l] = [Fresh EXCEPT !.subscribed = FALSE]]
    /\ cache' = l

\* connect, subscribe, loop_start; the result is cached.
Create(l) ==
    /\ client' = [client EXCEPT ![l] = Fresh]
    /\ cache' = l

\* start_mqtt_listener: a failure to connect is not cached.
Listener(s) ==
    \/ /\ cache # None
       /\ held' = [held EXCEPT ![s] = cache]
       /\ UNCHANGED <<client, cache>>
    \/ /\ cache = None /\ netUp
       /\ \E l \in Free : held' = [held EXCEPT ![s] = l] /\ Create(l)
    \/ /\ cache = None /\ ~netUp
       /\ held' = [held EXCEPT ![s] = None]
       /\ UNCHANGED <<client, cache>>

\* The script runs from its top, when the page is loaded or the button clicked.
Run(s, clicked) ==
    /\ pc[s] = "idle"
    /\ Listener(s)
    /\ Goto(s, IF clicked THEN "clicked" ELSE "done")
    /\ UNCHANGED <<netUp, row, beat, leaked>>

\* Bug: the old listener is not stopped.
LoopStopSkipped(s) ==
    /\ pc[s] = "clicked"
    /\ Goto(s, "disconnected")
    /\ UNCHANGED <<netUp, cache, client, held, row, beat, leaked>>

\* listener.loop_stop() joins the network thread.
LoopStop(s) ==
    /\ pc[s] = "clicked"
    /\ client' = IF held[s] = None THEN client
                 ELSE [client EXCEPT ![held[s]].thread = FALSE]
    /\ Goto(s, "stopped")
    /\ UNCHANGED <<netUp, cache, held, row, beat, leaked>>

Disconnect(s) ==
    /\ pc[s] = "stopped"
    /\ client' = IF held[s] = None THEN client ELSE [client EXCEPT ![held[s]] = Dead]
    /\ Goto(s, "disconnected")
    /\ UNCHANGED <<netUp, cache, held, row, beat, leaked>>

\* Bug: the listener stays cached.
ClearForgotten(s) ==
    /\ pc[s] = "disconnected"
    /\ Goto(s, "cleared")
    /\ UNCHANGED <<netUp, cache, client, held, row, beat, leaked>>

\* start_mqtt_listener.clear() forgets the cached listener, whosever it is.
Clear(s) ==
    /\ pc[s] = "disconnected"
    /\ cache' = None
    /\ leaked' = (leaked \/ cache \notin {None, held[s]})
    /\ Goto(s, "cleared")
    /\ UNCHANGED <<netUp, client, held, row, beat>>

Start(s) ==
    /\ pc[s] = "cleared"
    /\ Listener(s)
    /\ Goto(s, "done")
    /\ UNCHANGED <<netUp, row, beat, leaked>>

\* The script ends: its variables are gone.
End(s) ==
    /\ pc[s] = "done"
    /\ Goto(s, "idle")
    /\ held' = [held EXCEPT ![s] = None]
    /\ UNCHANGED <<netUp, cache, client, row, beat, leaked>>

Script(s) == LoopStop(s) \/ Disconnect(s) \/ Clear(s) \/ Start(s) \/ End(s)

Busy == {s \in Sessions : pc[s] \notin {"idle", "done"}}

\* Bound: a session begins only while no script can run out of clients.
Begins(s, clicked) ==
    /\ Cardinality(Free) >= Cardinality(Busy) + (IF cache = None THEN 1 ELSE 0)
                               + (IF clicked THEN 1 ELSE 0)
    /\ Run(s, clicked)

Next ==
    \/ PublishHeartbeat \/ NetChanges
    \/ \E l \in Listeners : Network(l)
    \/ \E s \in Sessions : Script(s) \/ \E clicked \in BOOLEAN : Begins(s, clicked)

Spec == Init /\ [][Next]_vars

\* A script runs to its end and paho's threads run.  Nothing is assumed of
\* the network, of the device or of what users do.
FairSpec ==
    /\ Spec
    /\ \A s \in Sessions : WF_vars(Script(s))
    /\ \A l \in Listeners : WF_vars(Handle(l)) /\ WF_vars(Reconnect(l))

(***************************************************************************)
(* Properties                                                              *)
(***************************************************************************)

\* Every variable keeps its type; what a client holds was published, and it
\* holds nothing and is subscribed to nothing without a connection.
TypeOK ==
    /\ {netUp, leaked} \subseteq BOOLEAN
    /\ beat \in 0..MaxBeats /\ row \in 0..beat
    /\ cache \in Listeners \cup {None}
    /\ pc \in [Sessions -> {"idle", "clicked", "stopped", "disconnected",
                            "cleared", "done"}]
    /\ held \in [Sessions -> Listeners \cup {None}]
    /\ client \in [Listeners -> [thread : BOOLEAN, up : BOOLEAN,
                                 subscribed : BOOLEAN, inbox : Seq(1..beat)]]
    /\ \A l \in Listeners :
         /\ client[l].subscribed => client[l].up
         /\ client[l].inbox # <<>> => client[l].subscribed

\* A stopped listener is handed to other sessions only until the session that
\* stopped it has cleared it, however many replace it at once (app.py:158-165).
CachedAlive ==
    cache # None /\ ~client[cache].thread =>
        \E s \in Sessions : held[s] = cache /\ pc[s] \in {"stopped", "disconnected"}

\* The store takes the last message handled for the newest: a row never goes
\* back to an older heartbeat unless two sessions pressed Reconnect at once and
\* one of them cleared a listener that nobody has stopped.
RowsAdvance == [][row' < row => leaked]_vars

\* After a lost connection the dashboard is deaf until Reconnect is pressed;
\* pressed while the broker can be reached, it makes the dashboard listen.
ReconnectHeals ==
    \A s \in Sessions : [](pc[s] = "clicked" /\ []netUp => <>Listening)
=============================================================================

--------------------------- MODULE MqttPublisher ---------------------------
(***************************************************************************)
(* MQTTPublisher of main.py over the paho client it wraps.  Three kinds of *)
(* thread meet: the server's main thread (lifespan: connect, disconnect),  *)
(* paho's network thread (on_disconnect, reconnection, sending), and one   *)
(* worker thread per upload (publish, through asyncio.to_thread).  They    *)
(* share the flag _connected without a lock.                               *)
(*                                                                         *)
(* paho is external: a QoS 1 message given to it stays in its outbox until *)
(* the broker acknowledges it, and the network thread reconnects by itself.*)
(***************************************************************************)
EXTENDS FiniteSets

CONSTANT Messages  \* the announcements of the uploads, one each

ASSUME MessagesAssumption == IsFiniteSet(Messages)

VARIABLES
    netUp,      \* the broker can be reached
    main,       \* the main thread; "down" is a server that is not running
    connected,  \* _connected
    loop,       \* paho's network thread runs
    link,       \* paho's connection: "up", "broken" (not noticed yet), "down"
    callback,   \* on_disconnect is due in the network thread
    outbox,     \* messages paho keeps
    sent,       \* messages the broker has received
    pc,         \* the thread of each message
    answer      \* mqtt_published in the answer to its upload

paho    == <<loop, link, callback, outbox>>
threads == <<pc, answer>>
vars    == <<netUp, main, connected, paho, sent, threads>>

MainPcs == {"down", "connect", "loopStart", "setFlag", "serving",
            "loopStop", "disconnect", "clearFlag"}

Init ==
    /\ netUp \in BOOLEAN
    /\ main = "down" /\ connected = FALSE
    /\ loop = FALSE /\ link = "down" /\ callback = FALSE
    /\ outbox = {} /\ sent = {}
    /\ pc = [m \in Messages |-> "new"]
    /\ answer = [m \in Messages |-> "none"]

(***************************************************************************)
(* The network and paho's network thread                                   *)
(***************************************************************************)
NetChanges ==
    /\ netUp' = ~netUp
    /\ link' = IF netUp /\ link = "up" THEN "broken" ELSE link
    /\ UNCHANGED <<main, connected, loop, callback, outbox, sent, threads>>

\* Bug: the callback runs while the socket is still in use.
DetectLate ==
    /\ loop /\ link = "broken" /\ ~callback
    /\ callback' = TRUE
    /\ UNCHANGED <<netUp, main, connected, loop, link, outbox, sent, threads>>

\* A read or write fails, or the keepalive expires: the socket is closed.
Detect ==
    /\ loop /\ link = "broken"
    /\ link' = "down" /\ callback' = TRUE
    /\ UNCHANGED <<netUp, main, connected, loop, outbox, sent, threads>>

\* Bug: the callback gives the connection up.
OnDisconnectStops ==
    /\ callback
    /\ callback' = FALSE /\ connected' = FALSE /\ loop' = FALSE
    /\ UNCHANGED <<netUp, main, link, outbox, sent, threads>>

OnDisconnect ==
    /\ callback
    /\ callback' = FALSE /\ connected' = FALSE
    /\ UNCHANGED <<netUp, main, loop, link, outbox, sent, threads>>

\* There is no on_connect: nobody is told.
Reconnect ==
    /\ loop /\ link = "down" /\ ~callback /\ netUp
    /\ link' = "up"
    /\ UNCHANGED <<netUp, main, connected, loop, callback, outbox, sent, threads>>

Transmit(m) ==
    /\ loop /\ link = "up" /\ m \in outbox
    /\ sent' = sent \cup {m}
    /\ UNCHANGED <<netUp, main, connected, paho, threads>>

Acknowledged(m) ==
    /\ loop /\ link = "up" /\ m \in outbox \cap sent
    /\ outbox' = outbox \ {m}
    /\ UNCHANGED <<netUp, main, connected, loop, link, callback, sent, threads>>

NetworkThread ==
    \/ Detect \/ OnDisconnect \/ Reconnect
    \/ \E m \in Messages : Transmit(m) \/ Acknowledged(m)

(***************************************************************************)
(* The main thread: lifespan                                               *)
(***************************************************************************)
MainGoto(from, to) ==
    /\ main = from
    /\ main' = to
    /\ UNCHANGED <<netUp, sent, threads>>

Start == MainGoto("down", "connect") /\ UNCHANGED <<connected, paho>>

\* client.connect(): a failure is logged and never tried again.
Connect ==
    /\ MainGoto("connect", IF netUp THEN "loopStart" ELSE "serving")
    /\ link' = IF netUp THEN "up" ELSE link
    /\ connected' = IF netUp THEN connected ELSE FALSE
    /\ UNCHANGED <<loop, callback, outbox>>

LoopStart ==
    /\ MainGoto("loopStart", "setFlag")
    /\ loop' = TRUE
    /\ UNCHANGED <<connected, link, callback, outbox>>

\* The network thread is already running when the flag is set.
SetFlag ==
    /\ MainGoto("setFlag", "serving")
    /\ connected' = TRUE
    /\ UNCHANGED paho

\* The process ends, and with it paho's outbox and every open request.
ProcessEnds ==
    /\ main' = "down" /\ connected' = FALSE
    /\ loop' = FALSE /\ link' = "down" /\ callback' = FALSE /\ outbox' = {}
    /\ pc' = [m \in Messages |-> IF pc[m] = "new" THEN "new" ELSE "done"]
    /\ UNCHANGED <<netUp, sent, answer>>

\* disconnect(), once every request has been answered: without the flag the
\* network thread is left running until the process exits.
Shutdown ==
    /\ main = "serving"
    /\ \A m \in Messages : pc[m] \in {"new", "done"}
    /\ IF connected
       THEN main' = "loopStop" /\ UNCHANGED <<netUp, connected, paho, sent, threads>>
       ELSE ProcessEnds

\* loop_stop() joins the network thread, which ends its callback first.
LoopStop ==
    /\ ~callback
    /\ MainGoto("loopStop", "disconnect")
    /\ loop' = FALSE
    /\ UNCHANGED <<connected, link, callback, outbox>>

Disconnect ==
    /\ MainGoto("disconnect", "clearFlag")
    /\ link' = "down"
    /\ UNCHANGED <<connected, loop, callback, outbox>>

ClearFlag == main = "clearFlag" /\ ProcessEnds

Crash == main # "down" /\ ProcessEnds

MainThread ==
    \/ Connect \/ LoopStart \/ SetFlag
    \/ LoopStop \/ Disconnect \/ ClearFlag

(***************************************************************************)
(* The thread of an upload: publish, _publish_sync                         *)
(***************************************************************************)
Upload(m) ==
    /\ main = "serving" /\ pc[m] = "new"
    /\ pc' = [pc EXCEPT ![m] = "check"]
    /\ UNCHANGED <<netUp, main, connected, paho, sent, answer>>

Answer(m, a) ==
    /\ pc' = [pc EXCEPT ![m] = "done"]
    /\ answer' = [answer EXCEPT ![m] = a]
    /\ UNCHANGED <<netUp, main, connected, loop, link, callback, sent>>

ThreadGoto(m, to) ==
    /\ pc' = [pc EXCEPT ![m] = to]
    /\ UNCHANGED <<netUp, main, connected, loop, link, callback, sent, answer>>

\* Bug: a skipped announcement is reported as published.
SkipUnnoticed(m) ==
    /\ pc[m] = "check"
    /\ IF connected THEN ThreadGoto(m, "publish") ELSE Answer(m, "published")
    /\ UNCHANGED outbox

CheckConnected(m) ==
    /\ pc[m] = "check"
    /\ IF connected THEN ThreadGoto(m, "publish") ELSE Answer(m, "notPublished")
    /\ UNCHANGED outbox

\* client.publish(): without a socket the message is kept, but
\* wait_for_publish raises and False is returned.
Publish(m) ==
    /\ pc[m] = "publish"
    /\ outbox' = outbox \cup {m}
    /\ IF link = "down" THEN Answer(m, "notPublished") ELSE ThreadGoto(m, "wait")

\* Bug: wait_for_publish without a timeout.
WaitForever(m) ==
    /\ pc[m] = "wait" /\ m \notin outbox
    /\ Answer(m, "published")
    /\ UNCHANGED outbox

\* wait_for_publish returns: acknowledged, or after five seconds.
Waited(m) ==
    /\ pc[m] = "wait"
    /\ Answer(m, "published")
    /\ UNCHANGED outbox

UploadThread(m) == CheckConnected(m) \/ Publish(m) \/ Waited(m)

Next ==
    \/ NetChanges \/ NetworkThread
    \/ Start \/ MainThread \/ Shutdown \/ Crash
    \/ \E m \in Messages : Upload(m) \/ UploadThread(m)

Spec == Init /\ [][Next]_vars

\* Threads run and calls return (connect and wait_for_publish have time
\* limits); paho sends what it keeps while it is connected.  Nothing is
\* assumed of the network or of uploads, nor that a server that stopped is
\* started again.
Fairness ==
    /\ WF_vars(MainThread)
    /\ WF_vars(Detect) /\ WF_vars(OnDisconnect) /\ WF_vars(Reconnect)
    /\ \A m \in Messages :
         WF_vars(UploadThread(m)) /\ WF_vars(Transmit(m)) /\ WF_vars(Acknowledged(m))

FairSpec == Spec /\ Fairness

(***************************************************************************)
(* Properties                                                              *)
(***************************************************************************)

\* Every variable keeps its type; when on_disconnect runs the socket is
\* closed, so a publish that races it is refused and not written to it.
TypeOK ==
    /\ {netUp, connected, loop, callback} \subseteq BOOLEAN
    /\ main \in MainPcs
    /\ link \in {"up", "broken", "down"}
    /\ outbox \subseteq Messages /\ sent \subseteq Messages
    /\ pc \in [Messages -> {"new", "check", "publish", "wait", "done"}]
    /\ answer \in [Messages -> {"none", "published", "notPublished"}]
    /\ callback => link = "down" /\ loop

Promised == {m \in Messages : answer[m] = "published"}

Abstract == INSTANCE Announcements WITH promised <- Promised

\* mqtt_published is only said of a message the broker has or paho keeps,
\* and paho drops none but by a restart, whatever the flag, the network
\* thread and the timeout do to each other (main.py:259-295).
ImplementsAnnouncements == Abstract!Spec

\* Once the network stays up and the server runs, the broker has everything
\* paho keeps, even if its upload was told False or timed out.
KeptDelivered ==
    (<>[](netUp /\ main = "serving")) => <>[](outbox \subseteq sent)

\* Every upload gets its answer, with the broker away for as long as it likes,
\* unless the server is killed first.
UploadsAnswered ==
    \A m \in Messages :
        pc[m] \in {"check", "publish", "wait"} ~> (answer[m] # "none" \/ main = "down")

(***************************************************************************)
(* What a document says and the code does not do                           *)
(***************************************************************************)

\* README.md:304, QoS 1 guaranteed delivery: once the network stays up, the
\* announcement of an upload reaches the broker, if paho runs and the server
\* is not stopped.
GuaranteedDelivery ==
    (<>[]netUp) =>
        \A m \in Messages :
            (pc[m] = "check" /\ loop) ~> (m \in sent \/ main = "down")
=============================================================================

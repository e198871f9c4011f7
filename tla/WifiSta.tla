------------------------------ MODULE WifiSta ------------------------------
(***************************************************************************)
(* wifi.c: the event handler that reconnects the station, and              *)
(* wifi_init_sta, which blocks the main task until one of two event bits   *)
(* is set.  The radio and the access point are external: they post events  *)
(* to the default event loop, which calls the handler later, one at a      *)
(* time.                                                                   *)
(***************************************************************************)
EXTENDS Integers, Sequences

CONSTANTS
    MaxRetry,    \* WIFI_MAXIMUM_RETRY
    DhcpAnswers  \* whether a joined access point ever hands out an address

ASSUME RetryAssumption == MaxRetry \in Nat /\ DhcpAnswers \in BOOLEAN

VARIABLES
    apUp,    \* the access point can be joined
    link,    \* the radio: "idle", "connecting", "joined" or "online"
    events,  \* events posted and not handled yet
    retry,   \* s_retry_num
    bits,    \* s_wifi_event_group
    initPc   \* wifi_init_sta: "start", "waiting", "ok" or "failed"

vars == <<apUp, link, events, retry, bits, initPc>>

Events == {"STA_START", "DISCONNECTED", "GOT_IP"}

Init ==
    /\ apUp \in BOOLEAN
    /\ link = "idle"
    /\ events = <<>>
    /\ retry = 0
    /\ bits = {}
    /\ initPc = "start"

Post(e) == events' = Append(events, e)

(***************************************************************************)
(* The radio and the access point                                          *)
(***************************************************************************)
ApChanges ==
    /\ apUp' = ~apUp
    /\ UNCHANGED <<link, events, retry, bits, initPc>>

\* WIFI_EVENT_STA_CONNECTED is not handled by anyone.
Joins ==
    /\ link = "connecting" /\ apUp
    /\ link' = "joined"
    /\ UNCHANGED <<apUp, events, retry, bits, initPc>>

\* The connection attempt fails, or the access point is lost.
Drops ==
    /\ link # "idle" /\ ~apUp
    /\ link' = "idle"
    /\ Post("DISCONNECTED")
    /\ UNCHANGED <<apUp, retry, bits, initPc>>

GetsAddress ==
    /\ DhcpAnswers
    /\ link = "joined"
    /\ link' = "online"
    /\ Post("GOT_IP")
    /\ UNCHANGED <<apUp, retry, bits, initPc>>

(***************************************************************************)
(* wifi_event_handler                                                      *)
(***************************************************************************)
Handle(e) ==
    /\ events # <<>> /\ Head(events) = e
    /\ events' = Tail(events)
    /\ UNCHANGED <<apUp, initPc>>

\* esp_wifi_connect
Connect == link' = IF link = "idle" THEN "connecting" ELSE link

HandleStart ==
    /\ Handle("STA_START")
    /\ Connect
    /\ UNCHANGED <<retry, bits>>

\* Bug: one retry too many.
DisconnectedOffByOne ==
    /\ Handle("DISCONNECTED")
    /\ IF retry <= MaxRetry
       THEN Connect /\ retry' = retry + 1 /\ UNCHANGED bits
       ELSE bits' = bits \cup {"FAIL"} /\ UNCHANGED <<link, retry>>

\* Bug: giving up is not signalled.
DisconnectedSilent ==
    /\ Handle("DISCONNECTED")
    /\ IF retry < MaxRetry
       THEN Connect /\ retry' = retry + 1 /\ UNCHANGED bits
       ELSE UNCHANGED <<link, retry, bits>>

\* Bug: a connection is only repeated until it first succeeded.
DisconnectedOnce ==
    /\ Handle("DISCONNECTED")
    /\ IF retry < MaxRetry /\ "CONNECTED" \notin bits
       THEN Connect /\ retry' = retry + 1 /\ UNCHANGED bits
       ELSE /\ bits' = IF retry < MaxRetry THEN bits ELSE bits \cup {"FAIL"}
            /\ UNCHANGED <<link, retry>>

HandleDisconnected ==
    /\ Handle("DISCONNECTED")
    /\ IF retry < MaxRetry
       THEN Connect /\ retry' = retry + 1 /\ UNCHANGED bits
       ELSE bits' = bits \cup {"FAIL"} /\ UNCHANGED <<link, retry>>

HandleGotIp ==
    /\ Handle("GOT_IP")
    /\ retry' = 0
    /\ bits' = bits \cup {"CONNECTED"}
    /\ UNCHANGED link

(***************************************************************************)
(* wifi_init_sta                                                           *)
(***************************************************************************)
StartStation ==
    /\ initPc = "start"
    /\ initPc' = "waiting"
    /\ Post("STA_START")
    /\ UNCHANGED <<apUp, link, retry, bits>>

\* Bug: the failure bit is looked at first.
ReturnFailFirst ==
    /\ initPc = "waiting" /\ bits # {}
    /\ initPc' = IF "FAIL" \in bits THEN "failed" ELSE "ok"
    /\ UNCHANGED <<apUp, link, events, retry, bits>>

\* xEventGroupWaitBits returns; the connected bit is looked at first.
Return ==
    /\ initPc = "waiting" /\ bits # {}
    /\ initPc' = IF "CONNECTED" \in bits THEN "ok" ELSE "failed"
    /\ UNCHANGED <<apUp, link, events, retry, bits>>

Radio == Joins \/ Drops \/ GetsAddress
Handler == HandleStart \/ HandleDisconnected \/ HandleGotIp
InitSta == StartStation \/ Return

Next == ApChanges \/ Radio \/ Handler \/ InitSta

Spec == Init /\ [][Next]_vars

\* The radio reports the outcome of what it was asked, the event loop calls
\* the handler, FreeRTOS wakes the main task.  The access point may do as it
\* likes.
FairSpec == Spec /\ WF_vars(Radio) /\ WF_vars(Handler) /\ WF_vars(InitSta)

(***************************************************************************)
(* Properties                                                              *)
(***************************************************************************)

\* Every variable keeps its type; at most two events wait, because after a
\* disconnection the radio is idle until the handler has run.
TypeOK ==
    /\ apUp \in BOOLEAN
    /\ link \in {"idle", "connecting", "joined", "online"}
    /\ events \in Seq(Events) /\ Len(events) <= 2
    /\ retry \in 0..MaxRetry
    /\ bits \subseteq {"CONNECTED", "FAIL"}
    /\ initPc \in {"start", "waiting", "ok", "failed"}

GivenUp == retry = MaxRetry /\ "FAIL" \in bits

\* The radio is never left idle with nothing to wake it unless every retry
\* was used: no order of losses, addresses and handler calls makes wifi.c
\* forget to reconnect.
NeverForgotten ==
    link = "idle" /\ events = <<>> /\ initPc # "start" => GivenUp

\* When wifi_init_sta fails the station is off the air for good: app_main may
\* return (main.c:322) without a connection coming up behind its back.
FailedIsFinal ==
    initPc = "failed" => link = "idle" /\ events = <<>> /\ bits = {"FAIL"}

\* wifi_init_sta returns.
InitReturns == <>(initPc \in {"ok", "failed"})

\* An access point that stays up is joined, unless the retries were used up
\* before it came.
JoinsSteadyAp == (<>[]apUp) => <>[](link = "online" \/ GivenUp)

\* PLAN.md:69, wifi.h:1: the station reconnects when the router reboots.
ReconnectsAfterOutage == (<>[]apUp) => <>[](link = "online")
=============================================================================

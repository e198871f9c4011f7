---------------------------- MODULE WifiStaProofs ----------------------------
(***************************************************************************)
(* The safety of wifi.c for every retry limit, whether or not the access   *)
(* point hands out addresses.  What makes it inductive is the shape of the *)
(* event queue: the radio posts nothing more after a disconnection until   *)
(* the handler has connected again, so the queue, the state of the link    *)
(* and the bits determine each other.                                      *)
(***************************************************************************)
EXTENDS WifiSta, SequenceTheorems, TLAPS

\* The queues that can occur.
Started   == <<"STA_START">>
Lost      == <<"DISCONNECTED">>
Addressed == <<"GOT_IP">>
Both      == <<"GOT_IP", "DISCONNECTED">>

QueueOK ==
    /\ events \in {<<>>, Started, Lost, Addressed, Both}
    /\ link = "idle" => \/ events \in {Started, Lost, Both}
                        \/ events = <<>> /\ (initPc = "start" \/ GivenUp)
    /\ link \in {"connecting", "joined"} => events = <<>>
    /\ link = "online" => events \in {<<>>, Addressed}

\* The failure bit is set last: nothing is under way and nothing follows.
FailLast ==
    /\ "FAIL" \in bits => link = "idle" /\ events = <<>>
    /\ initPc = "failed" => bits = {"FAIL"}
    /\ initPc = "start" => link = "idle" /\ events = <<>> /\ bits = {}

Domains ==
    /\ apUp \in BOOLEAN
    /\ link \in {"idle", "connecting", "joined", "online"}
    /\ retry \in 0..MaxRetry
    /\ bits \subseteq {"CONNECTED", "FAIL"}
    /\ initPc \in {"start", "waiting", "ok", "failed"}

IInv == Domains /\ QueueOK /\ FailLast

(***************************************************************************)
(* The queues                                                              *)
(***************************************************************************)
LEMMA AppendToOne ==
  ASSUME NEW S, NEW q \in Seq(S), NEW e \in S, Len(q) = 1
  PROVE  Append(q, e) = <<q[1], e>>
<1>1. /\ Append(q, e) \in Seq(S)
      /\ Len(Append(q, e)) = 2
      /\ Append(q, e)[2] = e
      /\ \A i \in 1..1 : Append(q, e)[i] = q[i]
  <2>1. Append(q, e) \in Seq(S)
    BY AppendProperties
  <2>2. Len(Append(q, e)) = 2
    <3>1. Len(Append(q, e)) = Len(q) + 1
      BY AppendProperties, Zenon
    <3> QED
      BY <3>1
  <2>3. Append(q, e)[2] = e
    BY AppendProperties
  <2>4. \A i \in 1..1 : Append(q, e)[i] = q[i]
    <3>1. Append(q, e)[1] = q[1]
      OBVIOUS
    <3> QED
      BY <3>1
  <2> QED
    BY <2>1, <2>2, <2>3, <2>4
<1>2. q[1] \in S
  BY ElementOfSeq
<1>3. /\ <<q[1], e>> \in Seq(S)
      /\ Len(<<q[1], e>>) = 2
      /\ <<q[1], e>>[1] = q[1] /\ <<q[1], e>>[2] = e
  BY <1>2
<1>4. \A i \in 1..2 : Append(q, e)[i] = <<q[1], e>>[i]
  BY <1>1, <1>3
<1> QED
  BY <1>1, <1>3, <1>4, SeqEqual

LEMMA Queues ==
  /\ Started # <<>> /\ Head(Started) = "STA_START" /\ Tail(Started) = <<>>
  /\ Lost # <<>> /\ Head(Lost) = "DISCONNECTED" /\ Tail(Lost) = <<>>
  /\ Addressed # <<>> /\ Head(Addressed) = "GOT_IP" /\ Tail(Addressed) = <<>>
  /\ Both # <<>> /\ Head(Both) = "GOT_IP" /\ Tail(Both) = Lost
  /\ Append(<<>>, "STA_START") = Started
  /\ Append(<<>>, "DISCONNECTED") = Lost
  /\ Append(<<>>, "GOT_IP") = Addressed
  /\ Append(Addressed, "DISCONNECTED") = Both
<1>1. Started # <<>> /\ Lost # <<>> /\ Addressed # <<>> /\ Both # <<>>
  BY DEF Started, Lost, Addressed, Both
<1>2. /\ Head(Started) = "STA_START" /\ Head(Lost) = "DISCONNECTED"
      /\ Head(Addressed) = "GOT_IP" /\ Head(Both) = "GOT_IP"
  BY DEF Started, Lost, Addressed, Both
<1>3. Tail(Started) = <<>> /\ Tail(Lost) = <<>> /\ Tail(Addressed) = <<>>
  BY DEF Started, Lost, Addressed
<1>4. Tail(Both) = Lost
  BY DEF Lost, Both
<1>5. /\ Append(<<>>, "STA_START") = Started
      /\ Append(<<>>, "DISCONNECTED") = Lost
      /\ Append(<<>>, "GOT_IP") = Addressed
  BY DEF Started, Lost, Addressed
<1>6. Append(Addressed, "DISCONNECTED") = Both
  <2>1. Addressed \in Seq(Events) /\ Len(Addressed) = 1 /\ Addressed[1] = "GOT_IP"
    BY DEF Addressed, Events
  <2>2. Append(Addressed, "DISCONNECTED") = <<Addressed[1], "DISCONNECTED">>
    BY <2>1, AppendToOne DEF Events
  <2> QED
    BY <2>1, <2>2 DEF Both
<1> QED
  BY <1>1, <1>2, <1>3, <1>4, <1>5, <1>6

\* The handler is called with the first event of one of these queues.
LEMMA Handled ==
  ASSUME QueueOK, NEW e, Handle(e)
  PROVE  \/ e = "STA_START" /\ events = Started /\ events' = <<>>
         \/ e = "DISCONNECTED" /\ events = Lost /\ events' = <<>>
         \/ e = "GOT_IP" /\ events = Addressed /\ events' = <<>>
         \/ e = "GOT_IP" /\ events = Both /\ events' = Lost
  BY Queues DEF QueueOK, Handle

(***************************************************************************)
(* The invariant                                                           *)
(***************************************************************************)
LEMMA InitIInv == Init => IInv
  BY RetryAssumption DEF Init, IInv, Domains, QueueOK, FailLast

LEMMA RadioIInv ==
  ASSUME IInv, ApChanges \/ Radio
  PROVE  IInv'
<1> USE DEF IInv, Domains, QueueOK, FailLast, GivenUp
<1>1. CASE ApChanges
  BY <1>1 DEF ApChanges
<1>2. CASE Joins
  BY <1>2 DEF Joins
<1>3. CASE Drops
  BY <1>3, Queues DEF Drops, Post
<1>4. CASE GetsAddress
  BY <1>4, Queues DEF GetsAddress, Post
<1> QED
  BY <1>1, <1>2, <1>3, <1>4 DEF Radio

LEMMA HandlerIInv ==
  ASSUME IInv, Handler
  PROVE  IInv'
<1> USE DEF IInv, Domains, QueueOK, FailLast, GivenUp
<1>1. CASE HandleStart
  <2>1. events = Started /\ events' = <<>>
    BY <1>1, Handled DEF HandleStart
  <2> QED
    BY <1>1, <2>1, Queues DEF HandleStart, Handle, Connect
<1>2. CASE HandleDisconnected
  <2>1. events = Lost /\ events' = <<>> /\ link = "idle"
    BY <1>2, Handled, Queues DEF HandleDisconnected
  <2>2. CASE retry < MaxRetry
    <3>1. link' = "connecting" /\ retry' = retry + 1 /\ UNCHANGED <<apUp, initPc, bits>>
      BY <1>2, <2>1, <2>2 DEF HandleDisconnected, Handle, Connect
    <3>2. "FAIL" \notin bits /\ initPc # "start" /\ initPc # "failed"
      BY <2>1, Queues
    <3> QED
      BY <2>1, <2>2, <3>1, <3>2, RetryAssumption
  <2>3. CASE ~(retry < MaxRetry)
    <3>1. bits' = bits \cup {"FAIL"} /\ UNCHANGED <<apUp, initPc, link, retry>>
      BY <1>2, <2>3 DEF HandleDisconnected, Handle
    <3>2. "FAIL" \notin bits /\ initPc # "start" /\ initPc # "failed"
      BY <2>1, Queues
    <3>3. retry = MaxRetry
      BY <2>3, RetryAssumption
    <3> QED
      BY <2>1, <3>1, <3>2, <3>3
  <2> QED
    BY <2>2, <2>3
<1>3. CASE HandleGotIp
  <2>1. \/ events = Addressed /\ events' = <<>> /\ link = "online"
        \/ events = Both /\ events' = Lost /\ link = "idle"
    BY <1>3, Handled, Queues DEF HandleGotIp, Started, Lost, Addressed, Both
  <2> QED
    BY <1>3, <2>1, Queues, RetryAssumption DEF HandleGotIp, Handle
<1> QED
  BY <1>1, <1>2, <1>3 DEF Handler

LEMMA InitStaIInv ==
  ASSUME IInv, InitSta
  PROVE  IInv'
<1> USE DEF IInv, Domains, QueueOK, FailLast, GivenUp
<1>1. CASE StartStation
  BY <1>1, Queues DEF StartStation, Post
<1>2. CASE Return
  BY <1>2 DEF Return
<1> QED
  BY <1>1, <1>2 DEF InitSta

LEMMA NextIInv == IInv /\ [Next]_vars => IInv'
<1> SUFFICES ASSUME IInv, [Next]_vars PROVE IInv'
  OBVIOUS
<1>1. CASE UNCHANGED vars
  BY <1>1 DEF IInv, Domains, QueueOK, FailLast, GivenUp, vars
<1>2. CASE Next
  BY <1>2, RadioIInv, HandlerIInv, InitStaIInv DEF Next
<1> QED
  BY <1>1, <1>2

THEOREM Invariance == Spec => []IInv
  BY InitIInv, NextIInv, PTL DEF Spec

(***************************************************************************)
(* What follows from it                                                    *)
(***************************************************************************)

\* Every variable keeps its type and at most two events ever wait.
THEOREM WifiTypeCorrect == Spec => []TypeOK
<1>1. /\ <<>> \in Seq(Events) /\ Len(<<>>) <= 2
      /\ Started \in Seq(Events) /\ Len(Started) <= 2
      /\ Lost \in Seq(Events) /\ Len(Lost) <= 2
      /\ Addressed \in Seq(Events) /\ Len(Addressed) <= 2
      /\ Both \in Seq(Events) /\ Len(Both) <= 2
  <2>1. <<>> \in Seq(Events) /\ Len(<<>>) <= 2
    OBVIOUS
  <2>2. Started \in Seq(Events) /\ Len(Started) <= 2
    BY DEF Started, Events
  <2>3. Lost \in Seq(Events) /\ Len(Lost) <= 2
    BY DEF Lost, Events
  <2>4. Addressed \in Seq(Events) /\ Len(Addressed) <= 2
    BY DEF Addressed, Events
  <2>5. Both \in Seq(Events) /\ Len(Both) <= 2
    BY DEF Both, Events
  <2> QED
    BY <2>1, <2>2, <2>3, <2>4, <2>5, Zenon
<1>2. IInv => events \in Seq(Events) /\ Len(events) <= 2
  <2> SUFFICES ASSUME IInv PROVE events \in Seq(Events) /\ Len(events) <= 2
    OBVIOUS
  <2>1. CASE events = <<>>
    BY <1>1, <2>1, Zenon
  <2>2. CASE events = Started
    BY <1>1, <2>2, Zenon
  <2>3. CASE events = Lost
    BY <1>1, <2>3, Zenon
  <2>4. CASE events = Addressed
    BY <1>1, <2>4, Zenon
  <2>5. CASE events = Both
    BY <1>1, <2>5, Zenon
  <2>6. \/ events = <<>> \/ events = Started \/ events = Lost
        \/ events = Addressed \/ events = Both
    BY DEF IInv, QueueOK
  <2> QED
    BY <2>1, <2>2, <2>3, <2>4, <2>5, <2>6, Zenon
<1>3. IInv => TypeOK
  BY <1>2 DEF IInv, Domains, TypeOK
<1> QED
  BY <1>3, Invariance, PTL

\* The radio is never left idle and unwoken before every retry was used
\* (wifi.c:26-34), for every retry limit.
THEOREM WifiNeverForgotten == Spec => []NeverForgotten
<1>1. IInv => NeverForgotten
  BY Queues DEF IInv, QueueOK, NeverForgotten
<1> QED
  BY <1>1, Invariance, PTL

\* A failed wifi_init_sta is final: no connection comes up after it returned.
THEOREM WifiFailedIsFinal == Spec => []FailedIsFinal
<1>1. IInv => FailedIsFinal
  BY DEF IInv, FailLast, FailedIsFinal
<1> QED
  BY <1>1, Invariance, PTL
=============================================================================

-------------------------- MODULE StatusBoardProofs --------------------------
(***************************************************************************)
(* For any number of sessions and listeners, the dashboard never keeps a   *)
(* stopped listener cached, and its rows advance while no listener was     *)
(* cleared that nobody had stopped.                                        *)
(***************************************************************************)
EXTENDS StatusBoard, SequenceTheorems, TLAPS

\* What a client is while heartbeats up to n were published.
Client(n) == [thread : BOOLEAN, up : BOOLEAN, subscribed : BOOLEAN, inbox : Seq(1..n)]

LEMMA NewClients == \A n \in Nat : Dead \in Client(n) /\ Fresh \in Client(n)
  BY DEF Dead, Fresh, Client

(***************************************************************************)
(* Type correctness                                                        *)
(***************************************************************************)
LEMMA InitTypeOK == Init => TypeOK
<1> SUFFICES ASSUME Init PROVE TypeOK
  OBVIOUS
<1>1. Dead \in Client(beat)
  BY NewClients DEF Init
<1>2. client \in [Listeners -> Client(beat)]
  BY <1>1 DEF Init
<1>3. beat \in 0..MaxBeats /\ row \in 0..beat
  <2>1. beat = 0 /\ row = 0
    BY DEF Init
  <2> QED
    BY <2>1, StatusBoardAssumption
<1>4. {netUp, leaked} \subseteq BOOLEAN
  BY DEF Init
<1>5. /\ cache \in Listeners \cup {None}
      /\ pc \in [Sessions -> {"idle", "clicked", "stopped", "disconnected",
                              "cleared", "done"}]
      /\ held \in [Sessions -> Listeners \cup {None}]
  BY DEF Init
<1>6. \A l \in Listeners : client[l] = Dead
  BY DEF Init
<1> QED
  BY <1>2, <1>3, <1>4, <1>5, <1>6 DEF TypeOK, Dead, Client

LEMMA HeartbeatTypeOK == TypeOK /\ PublishHeartbeat => TypeOK'
<1> SUFFICES ASSUME TypeOK, PublishHeartbeat
             PROVE  TypeOK'
  OBVIOUS
<1> USE DEF TypeOK, PublishHeartbeat
<1>1. beat' \in 0..MaxBeats /\ row' \in 0..beat'
  BY StatusBoardAssumption
<1>2. ASSUME NEW l \in Listeners
      PROVE  client'[l] \in [thread : BOOLEAN, up : BOOLEAN,
                             subscribed : BOOLEAN, inbox : Seq(1..beat')]
  <2>1. client[l].inbox \in Seq(1..beat')
    BY 1..beat \subseteq 1..beat'
  <2>2. Append(client[l].inbox, beat') \in Seq(1..beat')
    BY <2>1
  <2> QED
    BY <2>1, <2>2
<1> QED
  BY <1>1, <1>2 DEF script

LEMMA NetTypeOK == TypeOK /\ (NetChanges \/ \E l \in Listeners : Network(l)) => TypeOK'
<1> SUFFICES ASSUME TypeOK, NetChanges \/ \E l \in Listeners : Network(l)
             PROVE  TypeOK'
  OBVIOUS
<1> USE DEF TypeOK, script
<1>1. CASE NetChanges
  <2>1. ASSUME NEW l \in Listeners
        PROVE  /\ client'[l] \in Client(beat)
               /\ client'[l].subscribed => client'[l].up
               /\ client'[l].inbox # <<>> => client'[l].subscribed
    <3>1. client[l] \in Client(beat) /\ <<>> \in Seq(1..beat)
      BY DEF Client
    <3>2. CASE netUp
      <4>1. client'[l] = [thread |-> client[l].thread, up |-> FALSE,
                          subscribed |-> FALSE, inbox |-> <<>>]
        BY <1>1, <3>1, <3>2 DEF NetChanges, Client
      <4> QED
        BY <3>1, <4>1 DEF Client
    <3>3. CASE ~netUp
      BY <1>1, <3>1, <3>3 DEF NetChanges
    <3> QED
      BY <3>2, <3>3
  <2>2. client' \in [Listeners -> Client(beat)]
    <3>1. client' = [l \in Listeners |-> client'[l]]
      BY <1>1 DEF NetChanges
    <3> QED
      BY <2>1, <3>1
  <2> QED
    BY <1>1, <2>1, <2>2 DEF NetChanges, Client
<1>2. ASSUME NEW l \in Listeners, Reconnect(l)
      PROVE  TypeOK'
  BY <1>2 DEF Reconnect
<1>3. ASSUME NEW l \in Listeners, Handle(l)
      PROVE  TypeOK'
  <2>1. Head(client[l].inbox) \in 1..beat /\ Tail(client[l].inbox) \in Seq(1..beat)
    BY <1>3, HeadTailProperties DEF Handle
  <2>2. [client[l] EXCEPT !.inbox = Tail(@)] \in Client(beat)
    BY <2>1 DEF Client
  <2>3. /\ client' = [client EXCEPT ![l] = [client[l] EXCEPT !.inbox = Tail(@)]]
        /\ row' = Head(client[l].inbox)
        /\ UNCHANGED <<netUp, cache, pc, held, beat, leaked>>
    BY <1>3 DEF Handle
  <2>4. client' \in [Listeners -> Client(beat)]
    BY <2>2, <2>3 DEF Client
  <2>5. ASSUME NEW k \in Listeners
        PROVE  /\ client'[k].subscribed => client'[k].up
               /\ client'[k].inbox # <<>> => client'[k].subscribed
    BY <1>3, <2>3 DEF Handle
  <2>6. row' \in 0..beat
    BY <2>1, <2>3
  <2> QED
    BY <2>3, <2>4, <2>5, <2>6 DEF Client
<1> QED
  BY <1>1, <1>2, <1>3 DEF Network

LEMMA ListenerTypeOK ==
  ASSUME TypeOK, NEW s \in Sessions, NEW to \in {"clicked", "done"},
         Listener(s), Goto(s, to), UNCHANGED <<netUp, row, beat, leaked>>
  PROVE  TypeOK'
<1> USE DEF TypeOK, Goto
<1>1. CASE UNCHANGED <<client, cache>> /\ held' = [held EXCEPT ![s] = cache]
  BY <1>1
<1>2. CASE UNCHANGED <<client, cache>> /\ held' = [held EXCEPT ![s] = None]
  BY <1>2
<1>3. ASSUME NEW l \in Free, held' = [held EXCEPT ![s] = l], Create(l)
      PROVE  TypeOK'
  <2>1. client' = [client EXCEPT ![l] = Fresh] /\ Fresh \in Client(beat)
    BY <1>3, NewClients, StatusBoardAssumption DEF Create
  <2>2. client' \in [Listeners -> Client(beat)]
    BY <2>1 DEF Client
  <2> QED
    BY <1>3, <2>1, <2>2 DEF Create, Fresh, Free, Client
<1> QED
  BY <1>1, <1>2, <1>3 DEF Listener

LEMMA ScriptTypeOK ==
  ASSUME TypeOK, NEW s \in Sessions,
         Script(s) \/ \E clicked \in BOOLEAN : Begins(s, clicked)
  PROVE  TypeOK'
<1>1. CASE LoopStop(s)
  <2>1. CASE held[s] = None
    BY <1>1, <2>1 DEF TypeOK, LoopStop, Goto
  <2>2. CASE held[s] # None
    <3> DEFINE stopped == [client[held[s]] EXCEPT !.thread = FALSE]
    <3>1. held[s] \in Listeners
      BY <2>2 DEF TypeOK
    <3>2. stopped \in Client(beat)
      BY <3>1 DEF TypeOK, Client
    <3>3. client' = [client EXCEPT ![held[s]] = stopped]
      BY <1>1, <2>2 DEF LoopStop
    <3>4. client' \in [Listeners -> Client(beat)]
      BY <3>2, <3>3 DEF TypeOK, Client
    <3>5. ASSUME NEW l \in Listeners
          PROVE  /\ client'[l].subscribed => client'[l].up
                 /\ client'[l].inbox # <<>> => client'[l].subscribed
      BY <3>1, <3>3 DEF TypeOK
    <3> QED
      BY <1>1, <3>4, <3>5 DEF TypeOK, LoopStop, Goto, Client
  <2> QED
    BY <2>1, <2>2
<1>2. CASE Disconnect(s)
  <2>1. <<>> \in Seq(1..beat)
    OBVIOUS
  <2> QED
    BY <1>2, <2>1 DEF TypeOK, Disconnect, Goto, Dead
<1>3. CASE Clear(s)
  BY <1>3 DEF TypeOK, Clear, Goto
<1>4. CASE Start(s)
  BY <1>4, ListenerTypeOK DEF Start
<1>5. CASE End(s)
  BY <1>5 DEF TypeOK, End, Goto
<1>6. ASSUME NEW clicked \in BOOLEAN, Run(s, clicked)
      PROVE  TypeOK'
  BY <1>6, ListenerTypeOK DEF Run
<1> QED
  BY <1>1, <1>2, <1>3, <1>4, <1>5, <1>6 DEF Script, Begins

LEMMA NextTypeOK == TypeOK /\ [Next]_vars => TypeOK'
<1> SUFFICES ASSUME TypeOK, [Next]_vars PROVE TypeOK'
  OBVIOUS
<1>1. CASE UNCHANGED vars
  BY <1>1 DEF TypeOK, vars, script
<1>2. CASE Next
  BY <1>2, HeartbeatTypeOK, NetTypeOK, ScriptTypeOK DEF Next
<1> QED
  BY <1>1, <1>2

\* Every variable keeps its type: the row is a published heartbeat, and no
\* client is subscribed or holds a message without a connection.
THEOREM BoardTypeCorrect == Spec => []TypeOK
  BY InitTypeOK, NextTypeOK, PTL DEF Spec

(***************************************************************************)
(* The cached listener                                                     *)
(***************************************************************************)
LEMMA ListenerCachedAlive ==
  ASSUME TypeOK, CachedAlive, NEW s \in Sessions, NEW to \in {"clicked", "done"},
         pc[s] \in {"idle", "cleared"}, Listener(s), Goto(s, to)
  PROVE  CachedAlive'
<1> USE DEF TypeOK, CachedAlive, Goto
<1>1. CASE UNCHANGED <<client, cache>>
  <2>1. \A t \in Sessions : pc[t] \in {"stopped", "disconnected"} =>
           pc'[t] = pc[t] /\ held'[t] = held[t]
    BY DEF Listener
  <2> QED
    BY <1>1, <2>1
<1>2. ASSUME NEW l \in Free, Create(l)
      PROVE  CachedAlive'
  BY <1>2 DEF Create, Fresh, Free
<1> QED
  BY <1>1, <1>2 DEF Listener

LEMMA NextCachedAlive == TypeOK /\ CachedAlive /\ [Next]_vars => CachedAlive'
<1> SUFFICES ASSUME TypeOK, CachedAlive, [Next]_vars PROVE CachedAlive'
  OBVIOUS
<1> USE DEF TypeOK, CachedAlive
<1>1. CASE UNCHANGED vars
  BY <1>1 DEF vars, script
<1>2. CASE PublishHeartbeat
  BY <1>2 DEF PublishHeartbeat, script
<1>3. CASE NetChanges
  BY <1>3 DEF NetChanges, script
<1>4. ASSUME NEW l \in Listeners, Network(l)
      PROVE  CachedAlive'
  BY <1>4 DEF Network, Reconnect, Handle, script
<1>5. ASSUME NEW s \in Sessions, Script(s)
      PROVE  CachedAlive'
  <2>1. CASE LoopStop(s)
    BY <2>1 DEF LoopStop, Goto
  <2>2. CASE Disconnect(s)
    BY <2>2 DEF Disconnect, Goto, Dead
  <2>3. CASE Clear(s)
    BY <2>3 DEF Clear
  <2>4. CASE Start(s)
    BY <2>4, ListenerCachedAlive DEF Start
  <2>5. CASE End(s)
    BY <2>5 DEF End, Goto
  <2> QED
    BY <1>5, <2>1, <2>2, <2>3, <2>4, <2>5 DEF Script
<1>6. ASSUME NEW s \in Sessions, NEW clicked \in BOOLEAN, Begins(s, clicked)
      PROVE  CachedAlive'
  BY <1>6, ListenerCachedAlive DEF Begins, Run
<1> QED
  BY <1>1, <1>2, <1>3, <1>4, <1>5, <1>6 DEF Next

\* However many sessions press Reconnect at once, a stopped listener stays
\* cached only until the session that stopped it clears it (app.py:158-165).
THEOREM BoardCachedAlive == Spec => []CachedAlive
<1>1. Init => CachedAlive
  BY DEF Init, CachedAlive
<1> QED
  BY <1>1, InitTypeOK, NextTypeOK, NextCachedAlive, PTL DEF Spec

(***************************************************************************)
(* The order of the heartbeats shown.  Until a listener is cleared that    *)
(* nobody has stopped, one client at most has a network thread; its inbox  *)
(* is in the order of publication and no older than the row.               *)
(***************************************************************************)
OneLive == ~leaked => \A l \in Listeners : client[l].thread => l = cache

StoppedStay ==
    \A s \in Sessions :
        pc[s] \in {"stopped", "disconnected"} /\ held[s] # None =>
            ~client[held[s]].thread

InOrder ==
    \A l \in Listeners : \A j, k \in DOMAIN client[l].inbox :
        j <= k => client[l].inbox[j] <= client[l].inbox[k]

NewerThanRow ==
    ~leaked => \A l \in Listeners : client[l].thread =>
                  \A k \in DOMAIN client[l].inbox : row <= client[l].inbox[k]

IInv == TypeOK /\ OneLive /\ StoppedStay /\ InOrder /\ NewerThanRow

\* Losing threads or what they would handle keeps the order.
LEMMA Fewer ==
    ASSUME IInv, UNCHANGED <<cache, row, leaked>>,
           \A l \in Listeners :
               /\ client'[l].thread => client[l].thread
               /\ client'[l].inbox \in {client[l].inbox, <<>>}
    PROVE  OneLive' /\ InOrder' /\ NewerThanRow'
<1>1. \A l \in Listeners : \A k \in DOMAIN client'[l].inbox :
         k \in DOMAIN client[l].inbox /\ client'[l].inbox[k] = client[l].inbox[k]
  OBVIOUS
<1> QED
  BY <1>1 DEF IInv, OneLive, InOrder, NewerThanRow

\* A heartbeat is newer than all before it.
LEMMA HeartbeatInOrder == IInv /\ PublishHeartbeat => IInv'
<1> SUFFICES ASSUME IInv, PublishHeartbeat PROVE IInv'
  OBVIOUS
<1>1. TypeOK'
  BY HeartbeatTypeOK DEF IInv
<1>2. UNCHANGED <<cache, pc, held, row, leaked>> /\ beat' = beat + 1
      /\ beat \in Nat /\ row <= beat
  BY DEF PublishHeartbeat, IInv, TypeOK, script
<1>3. ASSUME NEW l \in Listeners
      PROVE  /\ client'[l].thread = client[l].thread
             /\ client'[l].inbox \in {client[l].inbox, Append(client[l].inbox, beat')}
             /\ client[l].inbox \in Seq(1..beat)
  BY DEF PublishHeartbeat, IInv, TypeOK
<1>4. ASSUME NEW l \in Listeners, NEW k \in DOMAIN client'[l].inbox
      PROVE  \/ k \in DOMAIN client[l].inbox /\ client'[l].inbox[k] = client[l].inbox[k]
             \/ /\ client'[l].inbox[k] = beat'
                /\ \A j \in DOMAIN client[l].inbox : j < k
  BY <1>3
<1>5. ASSUME NEW l \in Listeners, NEW k \in DOMAIN client[l].inbox
      PROVE  client[l].inbox[k] \in 1..beat
  BY <1>3, LenProperties, ElementOfSeq
<1>6. OneLive' /\ StoppedStay'
  BY <1>2, <1>3 DEF IInv, TypeOK, OneLive, StoppedStay
<1>7. InOrder'
  <2> SUFFICES ASSUME NEW l \in Listeners, NEW j \in DOMAIN client'[l].inbox,
                      NEW k \in DOMAIN client'[l].inbox, j <= k
               PROVE  client'[l].inbox[j] <= client'[l].inbox[k]
    BY DEF InOrder
  <2>1. j \in Nat /\ k \in Nat
    BY <1>3
  <2> QED
    BY <1>2, <1>4, <1>5, <2>1 DEF IInv, InOrder
<1>8. NewerThanRow'
  <2> SUFFICES ASSUME ~leaked, NEW l \in Listeners, client[l].thread,
                      NEW k \in DOMAIN client'[l].inbox
               PROVE  row <= client'[l].inbox[k]
    BY <1>2, <1>3 DEF NewerThanRow
  <2>1. CASE k \in DOMAIN client[l].inbox /\ client'[l].inbox[k] = client[l].inbox[k]
    BY <2>1 DEF IInv, NewerThanRow
  <2>2. CASE client'[l].inbox[k] = beat'
    <3>1. row \in Int /\ row <= beat + 1
      BY <1>2 DEF IInv, TypeOK
    <3> QED
      BY <1>2, <2>2, <3>1
  <2> QED
    BY <1>4, <2>1, <2>2
<1> QED
  BY <1>1, <1>6, <1>7, <1>8 DEF IInv

\* The only thread there is takes the oldest message of its inbox.
LEMMA HandleInOrder ==
    ASSUME IInv, NEW l \in Listeners, Handle(l)
    PROVE  IInv' /\ (row' < row => leaked)
<1>1. TypeOK'
  BY NetTypeOK DEF IInv, Network
<1>2. /\ client' = [client EXCEPT ![l].inbox = Tail(client[l].inbox)]
      /\ row' = Head(client[l].inbox) /\ client[l].inbox # <<>> /\ client[l].thread
      /\ client[l].inbox \in Seq(1..beat)
      /\ UNCHANGED <<cache, pc, held, beat, leaked>>
  BY DEF Handle, IInv, TypeOK, script
<1>3. /\ 1 \in DOMAIN client[l].inbox /\ row' = client[l].inbox[1]
      /\ \A k \in DOMAIN Tail(client[l].inbox) :
           /\ k \in Nat /\ k + 1 \in DOMAIN client[l].inbox /\ 1 <= k + 1
           /\ Tail(client[l].inbox)[k] = client[l].inbox[k + 1]
  BY <1>2
<1>4. \A m \in Listeners :
         /\ client'[m].thread = client[m].thread
         /\ client'[m].inbox = IF m = l THEN Tail(client[l].inbox) ELSE client[m].inbox
  BY <1>2 DEF IInv, TypeOK
<1>5. OneLive' /\ StoppedStay'
  BY <1>2, <1>4 DEF IInv, TypeOK, OneLive, StoppedStay
<1>6. InOrder'
  <2> SUFFICES ASSUME NEW m \in Listeners, NEW j \in DOMAIN client'[m].inbox,
                      NEW k \in DOMAIN client'[m].inbox, j <= k
               PROVE  client'[m].inbox[j] <= client'[m].inbox[k]
    BY DEF InOrder
  <2>1. CASE m = l
    <3>1. j \in DOMAIN Tail(client[l].inbox) /\ k \in DOMAIN Tail(client[l].inbox)
      BY <1>4, <2>1
    <3>2. j \in Nat /\ k \in Nat
      BY <1>3, <3>1
    <3>3. j + 1 <= k + 1
      BY <3>2
    <3>4. client[l].inbox[j + 1] <= client[l].inbox[k + 1]
      BY <1>3, <3>1, <3>3 DEF IInv, InOrder
    <3>5. /\ client'[m].inbox[j] = client[l].inbox[j + 1]
          /\ client'[m].inbox[k] = client[l].inbox[k + 1]
      BY <1>3, <1>4, <2>1, <3>1
    <3> QED
      BY <3>4, <3>5
  <2>2. CASE m # l
    BY <1>4, <2>2 DEF IInv, InOrder
  <2> QED
    BY <2>1, <2>2
<1>7. NewerThanRow'
  <2> SUFFICES ASSUME ~leaked, NEW m \in Listeners, client[m].thread,
                      NEW k \in DOMAIN client'[m].inbox
               PROVE  row' <= client'[m].inbox[k]
    BY <1>2, <1>4 DEF NewerThanRow
  <2>1. m = l
    BY <1>2 DEF IInv, OneLive
  <2> QED
    BY <1>3, <1>4, <2>1 DEF IInv, InOrder
<1>8. ~leaked => row <= row'
  BY <1>2, <1>3 DEF IInv, NewerThanRow
<1>9. row \in Int /\ row' \in Int
  BY <1>1 DEF IInv, TypeOK
<1> QED
  BY <1>1, <1>5, <1>6, <1>7, <1>8, <1>9 DEF IInv

\* A connection that comes or goes adds nothing.
LEMMA NetInOrder ==
    ASSUME IInv, NetChanges \/ UNCHANGED vars \/ \E l \in Listeners : Reconnect(l)
    PROVE  OneLive' /\ StoppedStay' /\ InOrder' /\ NewerThanRow' /\ row' = row
<1> USE DEF IInv, TypeOK
<1>1. CASE NetChanges
  <2>1. \A l \in Listeners : /\ client'[l].thread = client[l].thread
                             /\ client'[l].inbox \in {client[l].inbox, <<>>}
    BY <1>1 DEF NetChanges
  <2> QED
    BY <1>1, <2>1, Fewer DEF NetChanges, script, StoppedStay
<1>2. CASE UNCHANGED vars
  BY <1>2, Fewer DEF vars, script, StoppedStay
<1>3. ASSUME NEW l \in Listeners, Reconnect(l)
      PROVE  OneLive' /\ StoppedStay' /\ InOrder' /\ NewerThanRow' /\ row' = row
  <2>1. \A m \in Listeners : /\ client'[m].thread = client[m].thread
                             /\ client'[m].inbox = client[m].inbox
    BY <1>3 DEF Reconnect
  <2> QED
    BY <1>3, <2>1, Fewer DEF Reconnect, script, StoppedStay
<1> QED
  BY <1>1, <1>2, <1>3

\* A thread that is stopped and a client that is disconnected handle no more.
LEMMA StopInOrder ==
    ASSUME IInv, NEW s \in Sessions, LoopStop(s) \/ Disconnect(s) \/ End(s)
    PROVE  OneLive' /\ StoppedStay' /\ InOrder' /\ NewerThanRow' /\ row' = row
<1> USE DEF IInv, TypeOK
<1>1. CASE LoopStop(s)
  <2>1. \A l \in Listeners : /\ client'[l].thread => client[l].thread
                             /\ client'[l].inbox = client[l].inbox
                             /\ l = held[s] => ~client'[l].thread
    BY <1>1, StatusBoardAssumption DEF LoopStop
  <2>2. StoppedStay'
    BY <1>1, <2>1 DEF LoopStop, Goto, StoppedStay
  <2> QED
    BY <1>1, <2>1, <2>2, Fewer DEF LoopStop
<1>2. CASE Disconnect(s)
  <2>1. \A l \in Listeners : client'[l] = client[l] \/ client'[l] = Dead
    BY <1>2 DEF Disconnect
  <2>2. ~Dead.thread /\ Dead.inbox = <<>>
    BY DEF Dead
  <2>3. StoppedStay'
    BY <1>2, <2>1, <2>2 DEF Disconnect, Goto, StoppedStay
  <2>4. UNCHANGED <<cache, row, leaked>>
    BY <1>2 DEF Disconnect
  <2> QED
    BY <2>1, <2>2, <2>3, <2>4, Fewer
<1>3. CASE End(s)
  BY <1>3, Fewer DEF End, Goto, StoppedStay
<1> QED
  BY <1>1, <1>2, <1>3

\* A new client is the cached one, and has received nothing yet.
LEMMA ListenerInOrder ==
    ASSUME IInv, NEW s \in Sessions, pc[s] \in {"idle", "cleared"},
           NEW to \in {"clicked", "done"},
           Listener(s), Goto(s, to), UNCHANGED <<row, leaked>>
    PROVE  OneLive' /\ StoppedStay' /\ InOrder' /\ NewerThanRow'
<1> USE DEF IInv, TypeOK, Goto
<1>1. CASE UNCHANGED <<client, cache>>
  <2>1. StoppedStay'
    BY <1>1 DEF Listener, StoppedStay
  <2> QED
    BY <1>1, <2>1, Fewer
<1>2. ASSUME NEW l \in Free, cache = None, held' = [held EXCEPT ![s] = l], Create(l)
      PROVE  OneLive' /\ StoppedStay' /\ InOrder' /\ NewerThanRow'
  <2>1. \A m \in Listeners : client'[m] = IF m = l THEN Fresh ELSE client[m]
    BY <1>2 DEF Create, Free
  <2>2. ~leaked => \A m \in Listeners : ~client[m].thread
    BY <1>2, StatusBoardAssumption DEF OneLive
  <2>3. Fresh.inbox = <<>> /\ cache' = l
    BY <1>2 DEF Fresh, Create
  <2>4. OneLive' /\ NewerThanRow'
    BY <2>1, <2>2, <2>3 DEF OneLive, NewerThanRow
  <2>5. InOrder'
    BY <2>1, <2>3 DEF InOrder
  <2>6. StoppedStay'
    BY <1>2, <2>1 DEF StoppedStay, Free
  <2> QED
    BY <2>4, <2>5, <2>6
<1> QED
  BY <1>1, <1>2 DEF Listener

LEMMA ClearInOrder ==
    ASSUME IInv, NEW s \in Sessions, Clear(s)
    PROVE  OneLive' /\ StoppedStay' /\ InOrder' /\ NewerThanRow'
<1>1. /\ cache' = None /\ UNCHANGED <<client, held, row>>
      /\ ~leaked' => ~leaked /\ cache \in {None, held[s]}
      /\ pc[s] = "disconnected" /\ pc' = [pc EXCEPT ![s] = "cleared"]
  BY DEF Clear, Goto, IInv, TypeOK
<1>2. ~leaked' => \A l \in Listeners : ~client[l].thread
  BY <1>1, StatusBoardAssumption DEF IInv, OneLive, StoppedStay
<1>3. StoppedStay'
  BY <1>1 DEF IInv, TypeOK, StoppedStay
<1> QED
  BY <1>1, <1>2, <1>3 DEF IInv, OneLive, InOrder, NewerThanRow

LEMMA NextInOrder == IInv /\ [Next]_vars => IInv' /\ (row' < row => leaked)
<1> SUFFICES ASSUME IInv, [Next]_vars PROVE IInv' /\ (row' < row => leaked)
  OBVIOUS
<1>1. TypeOK' /\ (row' = row => ~(row' < row))
  BY NextTypeOK DEF IInv, TypeOK
<1>2. CASE PublishHeartbeat
  BY <1>1, <1>2, HeartbeatInOrder DEF PublishHeartbeat
<1>3. CASE NetChanges
  BY <1>1, <1>3, NetInOrder DEF IInv
<1>4. ASSUME NEW l \in Listeners, Network(l)
      PROVE  IInv' /\ (row' < row => leaked)
  BY <1>1, <1>4, NetInOrder, HandleInOrder DEF Network, IInv
<1>5. ASSUME NEW s \in Sessions, Script(s)
      PROVE  IInv' /\ (row' < row => leaked)
  <2>1. CASE LoopStop(s) \/ Disconnect(s) \/ End(s)
    BY <1>1, <2>1, StopInOrder DEF IInv
  <2>2. CASE Clear(s)
    BY <1>1, <2>2, ClearInOrder DEF IInv, Clear
  <2>3. CASE Start(s)
    BY <1>1, <2>3, ListenerInOrder DEF IInv, Start
  <2> QED
    BY <1>5, <2>1, <2>2, <2>3 DEF Script
<1>6. ASSUME NEW s \in Sessions, NEW clicked \in BOOLEAN, Begins(s, clicked)
      PROVE  IInv' /\ (row' < row => leaked)
  BY <1>1, <1>6, ListenerInOrder DEF IInv, Begins, Run
<1>7. CASE UNCHANGED vars
  BY <1>1, <1>7, NetInOrder DEF IInv
<1> QED
  BY <1>2, <1>3, <1>4, <1>5, <1>6, <1>7 DEF Next

\* A row never goes back to an older heartbeat unless two sessions pressed
\* Reconnect at once and one of them cleared a listener that nobody has
\* stopped: on_message takes the last message for the newest (app.py).
THEOREM BoardRowsAdvance == Spec => RowsAdvance
<1>1. Init => IInv
  <2>1. ASSUME Init PROVE OneLive /\ StoppedStay /\ InOrder /\ NewerThanRow
    BY <2>1 DEF Init, Dead, OneLive, StoppedStay, InOrder, NewerThanRow
  <2> QED
    BY <2>1, InitTypeOK DEF IInv
<1> DEFINE Advances == row' < row => leaked
<1>2. IInv /\ [Next]_vars => IInv' /\ [Advances]_vars
  BY NextInOrder
<1>3. Spec => [][Advances]_vars
  BY <1>1, <1>2, PTL DEF Spec
<1> QED
  BY <1>3 DEF RowsAdvance
=============================================================================

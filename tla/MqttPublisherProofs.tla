------------------------- MODULE MqttPublisherProofs -------------------------
(***************************************************************************)
(* MqttPublisher keeps its types and implements Announcements, for any     *)
(* finite set of messages.                                                 *)
(***************************************************************************)
EXTENDS MqttPublisher, TLAPS

\* Until lifespan has called loop_start there is no network thread, so no
\* callback is due when connect opens the socket.
NoThreadYet == main \in {"down", "connect", "loopStart"} => ~loop

\* A thread that waits has handed its message to paho, which has it still or
\* has sent it, and only a thread that is done has answered.
WaitingKept ==
    \A m \in Messages :
        /\ pc[m] = "wait" => m \in outbox \cup sent
        /\ pc[m] # "done" => answer[m] = "none"

IInv == TypeOK /\ NoThreadYet /\ WaitingKept

(***************************************************************************)
(* Each group of actions preserves the invariant.                          *)
(***************************************************************************)
LEMMA InitIInv == Init => IInv
  BY DEF Init, IInv, TypeOK, NoThreadYet, WaitingKept, MainPcs

LEMMA NetworkIInv ==
  ASSUME IInv, NetChanges \/ NetworkThread
  PROVE  IInv'
<1> USE DEF IInv, TypeOK, NoThreadYet, WaitingKept
<1>1. CASE NetChanges
  BY <1>1 DEF NetChanges, threads
<1>2. CASE Detect
  BY <1>2 DEF Detect, threads
<1>3. CASE OnDisconnect
  BY <1>3 DEF OnDisconnect, threads
<1>4. CASE Reconnect
  BY <1>4 DEF Reconnect, threads
<1>5. ASSUME NEW m \in Messages, Transmit(m)
      PROVE  IInv'
  BY <1>5 DEF Transmit, paho, threads
<1>6. ASSUME NEW m \in Messages, Acknowledged(m)
      PROVE  IInv'
  BY <1>6 DEF Acknowledged, threads
<1> QED
  BY <1>1, <1>2, <1>3, <1>4, <1>5, <1>6 DEF NetworkThread

LEMMA MainIInv ==
  ASSUME IInv, Start \/ MainThread \/ Shutdown \/ Crash
  PROVE  IInv'
<1> USE DEF IInv, TypeOK, NoThreadYet, WaitingKept, MainPcs
<1>1. CASE Start
  BY <1>1 DEF Start, MainGoto, paho, threads
<1>2. CASE Connect
  <2>1. ~loop /\ ~callback
    BY <1>2 DEF Connect, MainGoto
  <2> QED
    BY <1>2, <2>1 DEF Connect, MainGoto, threads
<1>3. CASE LoopStart
  BY <1>3 DEF LoopStart, MainGoto, threads
<1>4. CASE SetFlag
  BY <1>4 DEF SetFlag, MainGoto, paho, threads
<1>5. CASE LoopStop
  BY <1>5 DEF LoopStop, MainGoto, threads
<1>6. CASE Disconnect
  BY <1>6 DEF Disconnect, MainGoto, threads
<1>7. ASSUME ProcessEnds
      PROVE  IInv'
  BY <1>7 DEF ProcessEnds
<1>8. CASE Shutdown
  BY <1>7, <1>8 DEF Shutdown, paho, threads
<1> QED
  BY <1>1, <1>2, <1>3, <1>4, <1>5, <1>6, <1>7, <1>8
     DEF MainThread, ClearFlag, Crash

LEMMA UploadIInv ==
  ASSUME IInv, NEW m \in Messages, Upload(m) \/ UploadThread(m)
  PROVE  IInv'
<1> USE DEF IInv, TypeOK, NoThreadYet, WaitingKept
<1>1. CASE Upload(m)
  BY <1>1 DEF Upload, paho
<1>2. CASE CheckConnected(m)
  BY <1>2 DEF CheckConnected, ThreadGoto, Answer
<1>3. CASE Publish(m)
  BY <1>3 DEF Publish, ThreadGoto, Answer
<1>4. CASE Waited(m)
  BY <1>4 DEF Waited, Answer
<1> QED
  BY <1>1, <1>2, <1>3, <1>4 DEF UploadThread

LEMMA NextIInv == IInv /\ [Next]_vars => IInv'
<1> SUFFICES ASSUME IInv, [Next]_vars PROVE IInv'
  OBVIOUS
<1>1. CASE UNCHANGED vars
  BY <1>1 DEF IInv, TypeOK, NoThreadYet, WaitingKept, vars, paho, threads
<1>2. CASE Next
  BY <1>2, NetworkIInv, MainIInv, UploadIInv DEF Next
<1> QED
  BY <1>1, <1>2

\* Every variable keeps its type, and on_disconnect runs only while the
\* socket is closed and the network thread runs (main.py:259-267).
THEOREM PublisherTypeCorrect == Spec => []TypeOK
<1>1. IInv => TypeOK
  BY DEF IInv
<1> QED
  BY <1>1, InitIInv, NextIInv, PTL DEF Spec

(***************************************************************************)
(* Refinement: each group of actions is a step of Announcements, or none.  *)
(***************************************************************************)
LEMMA NetworkRefines ==
  ASSUME IInv, NetChanges \/ NetworkThread
  PROVE  [Abstract!Next]_(Abstract!vars)
<1> USE DEF Abstract!vars, Promised
<1>1. CASE NetChanges \/ Detect \/ OnDisconnect \/ Reconnect
  BY <1>1 DEF NetChanges, Detect, OnDisconnect, Reconnect, threads
<1>2. ASSUME NEW m \in Messages, Transmit(m)
      PROVE  Abstract!Send(m)
  BY <1>2 DEF Transmit, Abstract!Send, paho, threads
<1>3. ASSUME NEW m \in Messages, Acknowledged(m)
      PROVE  Abstract!Settle(m)
  BY <1>3 DEF Acknowledged, Abstract!Settle, threads
<1> QED
  BY <1>1, <1>2, <1>3 DEF NetworkThread, Abstract!Next

LEMMA MainRefines ==
  ASSUME IInv, Start \/ MainThread \/ Shutdown \/ Crash
  PROVE  [Abstract!Next]_(Abstract!vars)
<1>1. ASSUME ProcessEnds
      PROVE  Abstract!LoseAll
  BY <1>1 DEF ProcessEnds, Abstract!LoseAll, Promised
<1>2. CASE Start \/ Connect \/ LoopStart \/ SetFlag \/ LoopStop \/ Disconnect
  BY <1>2 DEF Start, Connect, LoopStart, SetFlag, LoopStop, Disconnect, MainGoto,
              paho, threads, Abstract!vars, Promised
<1>3. CASE Shutdown
  BY <1>1, <1>3 DEF Shutdown, paho, threads, Abstract!vars, Abstract!Next, Promised
<1>4. CASE ClearFlag \/ Crash
  BY <1>1, <1>4 DEF ClearFlag, Crash, Abstract!Next
<1> QED
  BY <1>2, <1>3, <1>4 DEF MainThread

\* An answer other than "published" leaves the promises as they are.
LEMMA AnswerNothing ==
  ASSUME IInv, NEW m \in Messages, pc[m] # "done", Answer(m, "notPublished")
  PROVE  Promised' = Promised
  BY DEF IInv, TypeOK, WaitingKept, Answer, Promised

LEMMA AnswerPromises ==
  ASSUME IInv, NEW m \in Messages, Answer(m, "published")
  PROVE  Promised' = Promised \cup {m}
  BY DEF IInv, TypeOK, Answer, Promised

LEMMA UploadRefines ==
  ASSUME IInv, NEW m \in Messages, Upload(m) \/ UploadThread(m)
  PROVE  [Abstract!Next]_(Abstract!vars)
<1>1. CASE Upload(m)
  BY <1>1 DEF Upload, paho, Abstract!vars, Promised
<1>2. CASE CheckConnected(m)
  <2>1. UNCHANGED Promised
    BY <1>2, AnswerNothing DEF CheckConnected, ThreadGoto, Promised
  <2> QED
    BY <1>2, <2>1 DEF CheckConnected, ThreadGoto, Answer, Abstract!vars
<1>3. CASE Publish(m)
  <2>1. UNCHANGED Promised
    BY <1>3, AnswerNothing DEF Publish, ThreadGoto, Promised
  <2>2. Abstract!Keep(m)
    BY <1>3, <2>1 DEF Publish, ThreadGoto, Answer, Abstract!Keep
  <2> QED
    BY <2>2 DEF Abstract!Next
<1>4. CASE Waited(m)
  <2>1. Promised' = Promised \cup {m}
    BY <1>4, AnswerPromises DEF Waited
  <2>2. m \in outbox \cup sent
    BY <1>4 DEF Waited, IInv, WaitingKept
  <2>3. Abstract!Promise(m)
    BY <1>4, <2>1, <2>2 DEF Waited, Answer, Abstract!Promise
  <2> QED
    BY <2>3 DEF Abstract!Next
<1> QED
  BY <1>1, <1>2, <1>3, <1>4 DEF UploadThread

LEMMA NextRefines == IInv /\ [Next]_vars => [Abstract!Next]_(Abstract!vars)
<1> SUFFICES ASSUME IInv, [Next]_vars
             PROVE  [Abstract!Next]_(Abstract!vars)
  OBVIOUS
<1>1. CASE UNCHANGED vars
  BY <1>1 DEF vars, paho, threads, Abstract!vars, Promised
<1>2. CASE Next
  BY <1>2, NetworkRefines, MainRefines, UploadRefines DEF Next
<1> QED
  BY <1>1, <1>2

\* mqtt_published is only said of a message the broker has or paho keeps, and
\* only a restart drops a kept one (main.py:259-295), for any messages.
THEOREM PublisherImplements == Spec => ImplementsAnnouncements
<1>1. Init => Abstract!Init
  BY DEF Init, Abstract!Init, Promised
<1> QED
  BY <1>1, InitIInv, NextIInv, NextRefines, PTL
     DEF Spec, ImplementsAnnouncements, Abstract!Spec
=============================================================================

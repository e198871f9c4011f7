------------------------- MODULE DeviceUpdateProofs -------------------------
(***************************************************************************)
(* Theorems of DeviceUpdate for every set of images and commands, every    *)
(* bound and both settings of RollbackEnabled, and with failing flash.     *)
(*                                                                         *)
(* NeverBricked is not inductive: that the inactive slot may be written    *)
(* depends on which entry the running application was booted from, on the  *)
(* worker being past esp_ota_begin only when no trial is open, and on the  *)
(* main task judging the entry it runs from.  IInv says so.                *)
(***************************************************************************)
EXTENDS DeviceUpdate, TLAPS

On == mainPc # "off"

\* The otadata entries: one is selectable, only the newest is undecided, and
\* the trial states exist in rollback builds only.
EntriesOK ==
    /\ \A s \in Slots : Undecided(s) => s = latest
    /\ Selectable(otaState, Active)
    /\ \A s \in Slots : IF RollbackEnabled
                        THEN otaState[s] # "Undefined"
                        ELSE otaState[s] \in {"Empty", "Undefined"}

\* The images behind the entries that count.
ImagesOK ==
    /\ image[Active] \in Bootable
    /\ otaState[Active] = "Valid" => image[Active] \notin Broken
    /\ Undecided(Active) => /\ otaState[Other(Active)] = "Valid"
                            /\ image[Other(Active)] \in Bootable \ Broken

\* The running application is the selected one until a newer one is staged.
RunningOK ==
    On => IF workerPc = "reboot"
          THEN running # Active
          ELSE running = Active /\ otaState[running] # "New"

Trying ==
    \/ mainPc \in {"judge", "selfTest", "verdict", "commit", "failed",
                   "restart", "wifiRestart"}
    \/ mainPc = "wifi" /\ pendingVerify

\* The main task knows whether the image it runs is on trial.
MainOK ==
    /\ ~On => workerPc = "idle" /\ ~mqttConnected
    /\ mainPc \in {"off", "check"} => ~pendingVerify
    /\ Trying => otaState[running] = "Pending"
    /\ mqttConnected \/ mainPc = "commit" => image[running] \notin Broken

\* The worker writes only when no trial is open, and stages what it verified.
WorkerOK ==
    /\ On /\ otaState[running] = "Pending"
         => workerPc \in {"idle", "open", "begin", "failed"}
    /\ workerPc # "idle" => job \in Commands
    /\ workerPc = "begin" => download.got = 0
    /\ workerPc \in {"read", "validate"} =>
         (download.got = Size[download.image] => image[Target] = download.image)
    /\ workerPc \in {"end", "setBoot"}
         => image[Target] = job.image /\ Size[job.image] = job.size
    /\ workerPc = "setBoot" => image[Target] \in Bootable

IInv == TypeOK /\ EntriesOK /\ ImagesOK /\ RunningOK /\ MainOK /\ WorkerOK

(***************************************************************************)
(* Facts about OtaData                                                     *)
(***************************************************************************)

\* There are two slots, and Other exchanges them.
LEMMA OtherSlot ==
    \A s \in Slots : Other(s) \in Slots /\ Other(s) # s /\ Other(Other(s)) = s
BY DEF Slots, Other

\* The bootloader chooses a slot: the newest entry if it is selectable, and
\* otherwise the other one if that is.
LEMMA SelectedSlot ==
    ASSUME NEW st \in [Slots -> EntryStates], NEW l \in Slots
    PROVE  /\ Selected(st, l) \in Slots
           /\ Selectable(st, l) => Selected(st, l) = l
           /\ ~Selectable(st, l) /\ Selectable(st, Other(l))
                => Selected(st, l) = Other(l)
BY OtherSlot DEF Selected, Slots

\* The bootloader's rewriting of the entries keeps them entries.
LEMMA BootEntries ==
    ASSUME NEW st \in [Slots -> EntryStates], NEW s \in Slots
    PROVE  /\ AbortPending(st) \in [Slots -> EntryStates]
           /\ StartTrial(AbortPending(st), s) \in [Slots -> EntryStates]
BY DEF AbortPending, StartTrial, EntryStates

(***************************************************************************)
(* Type correctness                                                        *)
(***************************************************************************)

LEMMA CappedType == \A n \in Nat : Capped(n) \in 0..MaxReboots
BY BoundsAssumption DEF Capped

LEMMA TargetType == TypeOK => Target \in Slots /\ Active \in Slots
BY OtherSlot, SelectedSlot DEF TypeOK, Target, Active

LEMMA NoDownloadType == NoDownload \in [image : Images, len : Nat, got : Nat]
BY ImagesAssumption DEF NoDownload

\* The initial state is well typed.
LEMMA TypeInit == Init => TypeOK
<1> SUFFICES ASSUME Init PROVE TypeOK
  OBVIOUS
<1>1. image \in [Slots -> Contents] /\ otaState \in [Slots -> EntryStates]
  BY ImagesAssumption DEF Init, Contents, EntryStates
<1>2. 0 \in 0..MaxReboots /\ 0 \in 0..Polls
  BY BoundsAssumption
<1>3. latest \in Slots /\ running \in Slots
  BY DEF Init, Slots
<1>4. download \in [image : Images, len : Nat, got : Nat]
  BY NoDownloadType DEF Init
<1> QED
  BY <1>1, <1>2, <1>3, <1>4, Zenon
  DEF Init, TypeOK, MainPcs, Reports, WorkerPcs

\* Emptying RAM keeps its types.
LEMMA TypeReset ==
    ASSUME TypeOK, Reset
    PROVE  /\ mainPc' \in MainPcs /\ running' \in Slots
           /\ pendingVerify' \in BOOLEAN /\ rebootCount' \in 0..MaxReboots
           /\ waitCount' \in 0..Polls /\ mqttConnected' \in BOOLEAN
           /\ queued' \in Commands \cup {None} /\ report' \in Reports
           /\ workerPc' \in WorkerPcs /\ job' \in Commands \cup {None}
           /\ download' \in [image : Images, len : Nat, got : Nat]
<1>1. 0 \in 0..MaxReboots /\ 0 \in 0..Polls
  BY BoundsAssumption
<1>2. download' \in [image : Images, len : Nat, got : Nat]
  BY NoDownloadType DEF Reset
<1> QED
  BY <1>1, <1>2, Zenon DEF Reset, TypeOK, MainPcs, Reports, WorkerPcs

\* No step of the power supply or the bootloader breaks a type.
LEMMA TypePower == TypeOK /\ Power => TypeOK'
<1> SUFFICES ASSUME TypeOK, Power PROVE TypeOK'
  OBVIOUS
<1>1. CASE PowerLoss
  BY <1>1, TypeReset DEF PowerLoss, TypeOK, flash
<1>2. ASSUME NEW s \in Slots, TornWrite(s) PROVE TypeOK'
  <2>1. otaState' \in [Slots -> EntryStates]
    BY <1>2 DEF TornWrite, TypeOK, EntryStates
  <2> QED
    BY <1>2, <2>1, TypeReset DEF TornWrite, TypeOK
<1>3. CASE Boot
  <2>1. NextBoot \in Slots
    BY SelectedSlot, BootEntries DEF NextBoot, TypeOK
  <2>2. otaState' \in [Slots -> EntryStates]
    BY <1>3, <2>1, BootEntries DEF Boot, TypeOK
  <2>3. trialBoots' \in 0..MaxReboots
    BY <1>3, CappedType DEF Boot, TypeOK
  <2>4. mainPc' \in MainPcs /\ running' \in Slots
    BY <1>3 DEF Boot, MainPcs
  <2> QED
    BY <1>3, <2>2, <2>3, <2>4 DEF Boot, TypeOK, trial, worker
<1> QED
  BY <1>1, <1>2, <1>3 DEF Power

\* No step of app_main breaks a type.
LEMMA TypeMain == TypeOK /\ Main => TypeOK'
<1> SUFFICES ASSUME TypeOK, Main PROVE TypeOK'
  OBVIOUS
<1>1. CASE CheckTrial
  <2>1. rebootCount' \in 0..MaxReboots /\ rebootCnt' \in 0..MaxReboots
    BY <1>1, CappedType, BoundsAssumption DEF CheckTrial, CountTrial, NoTrial, StoredCounts, TypeOK
  <2> QED
    BY <1>1, <2>1 DEF CheckTrial, CountTrial, NoTrial, TypeOK, MainPcs, worker
<1>2. CASE JudgeTrial
  <2>1. otaState' \in [Slots -> EntryStates]
    BY <1>2 DEF JudgeTrial, RollBack, NoRollBack, TypeOK, EntryStates
  <2>2. CASE Reset
    BY <1>2, <2>1, <2>2, TypeReset DEF JudgeTrial, RollBack, NoRollBack, TypeOK
  <2>3. CASE ~Reset
    BY <1>2, <2>1, <2>3 DEF JudgeTrial, RollBack, NoRollBack, TypeOK, MainPcs, trial, worker
  <2> QED
    BY <2>2, <2>3
<1>3. CASE Restart
  BY <1>3, TypeReset DEF Restart, TypeOK, flash
<1>4. CASE Commit
  <2>1. otaState' \in [Slots -> EntryStates]
    BY <1>4 DEF Commit, TypeOK, EntryStates
  <2> QED
    BY <1>4, <2>1 DEF Commit, MainStep, TypeOK, MainPcs, worker
<1>5. CASE SelfTestPoll
  BY <1>5, BoundsAssumption DEF SelfTestPoll, MainStep, TypeOK, MainPcs, worker
<1>6. CASE ResetCount
  BY <1>6, BoundsAssumption DEF ResetCount, MainStep, TypeOK, MainPcs, worker
<1>7. CASE WifiConnected \/ WifiFailed \/ SelfTestOver \/ Verdict \/ Announce
  BY <1>7
  DEF WifiConnected, WifiFailed, SelfTestOver, Verdict, Announce,
      MainStep, TypeOK, MainPcs, worker
<1>8. CASE ReportCommitted \/ ReportSelfTestFailed \/ ReportRunning
  BY <1>8
  DEF ReportCommitted, ReportSelfTestFailed, ReportRunning, Publish,
      MainStep, TypeOK, MainPcs, Reports, worker
<1> QED
  BY <1>1, <1>2, <1>3, <1>4, <1>5, <1>6, <1>7, <1>8 DEF Main

\* No event of the MQTT client breaks a type.
LEMMA TypeMqtt == TypeOK /\ Mqtt => TypeOK'
BY DEF Mqtt, MqttConnected, MqttDisconnected, MqttData, TypeOK, flash, trial, worker

\* No step of the worker breaks a type.
LEMMA TypeWorker == TypeOK /\ Worker => TypeOK'
<1> SUFFICES ASSUME TypeOK, Worker PROVE TypeOK'
  OBVIOUS
<1> USE TargetType, OtherSlot DEF WorkerStep, trial
<1>1. CASE Receive
  BY <1>1 DEF Receive, Publish, TypeOK, WorkerPcs, Reports
<1>2. ASSUME NEW i \in Images, NEW n \in 0..Size[i], Open(i, n) PROVE TypeOK'
  <2>1. n \in Nat
    BY ImagesAssumption
  <2> QED
    BY <1>2, <2>1 DEF Open, TypeOK, WorkerPcs
<1>3. CASE ReadChunk
  <2>1. image' \in [Slots -> Contents]
    BY <1>3 DEF ReadChunk, TypeOK, Contents
  <2>2. download' \in [image : Images, len : Nat, got : Nat]
    BY <1>3 DEF ReadChunk, TypeOK
  <2> QED
    BY <1>3, <2>1, <2>2 DEF ReadChunk, TypeOK, WorkerPcs
<1>4. CASE SetBoot
  <2>1. otaState' \in [Slots -> EntryStates]
    BY <1>4 DEF SetBoot, TypeOK, EntryStates
  <2> QED
    BY <1>4, <2>1, BoundsAssumption DEF SetBoot, TypeOK, WorkerPcs
<1>5. CASE Begin \/ ReadComplete \/ End
  BY <1>5 DEF Begin, ReadComplete, End, TypeOK, WorkerPcs
<1>6. CASE Validate \/ CallFailed
  BY <1>6, NoDownloadType DEF Validate, CallFailed, TypeOK, WorkerPcs
<1>7. CASE RestartIntoUpdate
  BY <1>7, TypeReset DEF RestartIntoUpdate, TypeOK, flash
<1>8. CASE ReportFailed
  BY <1>8 DEF ReportFailed, Publish, TypeOK, WorkerPcs, Reports
<1> QED
  BY <1>1, <1>2, <1>3, <1>4, <1>5, <1>6, <1>7, <1>8 DEF Worker

\* Every variable always has its type.
THEOREM TypeCorrect == Spec => []TypeOK
<1>1. TypeOK /\ UNCHANGED vars => TypeOK'
  BY DEF TypeOK, vars, flash, trial, worker
<1>2. TypeOK /\ [Next]_vars => TypeOK'
  BY <1>1, TypePower, TypeMain, TypeMqtt, TypeWorker DEF Next
<1> QED
  BY <1>2, TypeInit, PTL DEF Spec

(***************************************************************************)
(* The entries and the images behind them                                  *)
(***************************************************************************)

FlashOK == TypeOK /\ EntriesOK /\ ImagesOK

\* An undecided entry is the selected one, in a rollback build.
LEMMA UndecidedIsActive ==
    ASSUME FlashOK, NEW s \in Slots, Undecided(s)
    PROVE  s = latest /\ s = Active /\ RollbackEnabled
<1>1. s = latest
  BY DEF FlashOK, EntriesOK
<1>2. Selectable(otaState, s)
  BY DEF Undecided, Selectable
<1>3. RollbackEnabled
  BY DEF FlashOK, EntriesOK, Undecided
<1> QED
  BY <1>1, <1>2, <1>3, SelectedSlot DEF FlashOK, TypeOK, Active

\* What a reset boots: the selected slot, or its fallback if that was on trial.
LEMMA NextBootIs ==
    ASSUME FlashOK
    PROVE  /\ otaState[Active] # "Pending" => /\ NextBoot = Active
                                              /\ AbortPending(otaState) = otaState
           /\ otaState[Active] = "Pending" =>
                /\ NextBoot = Other(Active)
                /\ AbortPending(otaState) = [otaState EXCEPT ![Active] = "Aborted"]
<1>0. Active \in Slots /\ otaState \in [Slots -> EntryStates] /\ latest \in Slots
  BY TargetType DEF FlashOK, TypeOK
<1>1. ASSUME otaState[Active] # "Pending"
      PROVE  NextBoot = Active /\ AbortPending(otaState) = otaState
  <2>1. \A s \in Slots : otaState[s] # "Pending"
    BY <1>1, UndecidedIsActive DEF Undecided
  <2>2. AbortPending(otaState) = otaState
    BY <1>0, <2>1 DEF AbortPending
  <2> QED
    BY <2>2 DEF NextBoot, Active
<1>2. ASSUME otaState[Active] = "Pending"
      PROVE  /\ NextBoot = Other(Active)
             /\ AbortPending(otaState) = [otaState EXCEPT ![Active] = "Aborted"]
  <2>1. Active = latest /\ RollbackEnabled
    BY <1>0, <1>2, UndecidedIsActive DEF Undecided
  <2>2. AbortPending(otaState) = [otaState EXCEPT ![Active] = "Aborted"]
    <3>1. \A s \in Slots : s # Active => otaState[s] # "Pending"
      BY UndecidedIsActive DEF Undecided
    <3> QED
      BY <1>0, <1>2, <3>1 DEF AbortPending
  <2>3. otaState[Other(Active)] = "Valid"
    BY <1>2 DEF FlashOK, ImagesOK, Undecided
  <2>4. /\ AbortPending(otaState)[latest] = "Aborted"
        /\ AbortPending(otaState)[Other(latest)] = "Valid"
    BY <1>0, <2>1, <2>2, <2>3, OtherSlot
  <2>5. /\ ~Selectable(AbortPending(otaState), latest)
        /\ Selectable(AbortPending(otaState), Other(latest))
    BY <2>4 DEF Selectable
  <2>6. Selected(AbortPending(otaState), latest) = Other(latest)
    BY <1>0, <2>5, BootEntries, SelectedSlot
  <2> QED
    BY <2>1, <2>2, <2>6 DEF NextBoot
<1> QED
  BY <1>1, <1>2

\* The invariant of flash is what NeverBricked asks for.
LEMMA FlashNeverBricked == FlashOK => NeverBricked
<1> SUFFICES ASSUME FlashOK PROVE NeverBricked
  OBVIOUS
<1>1. BootableNext
  BY NextBootIs DEF FlashOK, ImagesOK, BootableNext, Undecided
<1>2. FallbackIntact
  BY DEF FlashOK, ImagesOK, FallbackIntact
<1> QED
  BY <1>1, <1>2 DEF NeverBricked

\* Flash that does not change stays in order.
LEMMA FlashSame ==
    ASSUME FlashOK, UNCHANGED <<image, otaState, latest>>
    PROVE  EntriesOK' /\ ImagesOK' /\ Active' = Active
BY DEF FlashOK, EntriesOK, ImagesOK, Undecided, Active

\* So does flash when the slot that is not selected is written, unless it is
\* the fallback of a trial.
LEMMA FlashWritten ==
    ASSUME FlashOK, ~Undecided(Active), NEW x,
           image' = [image EXCEPT ![Other(Active)] = x],
           UNCHANGED <<otaState, latest>>
    PROVE  EntriesOK' /\ ImagesOK' /\ Active' = Active
<1>1. Active' = Active /\ Active \in Slots
  BY TargetType DEF Active, FlashOK
<1>2. image'[Active] = image[Active]
  BY <1>1, OtherSlot DEF FlashOK, TypeOK
<1> QED
  BY <1>1, <1>2 DEF FlashOK, EntriesOK, ImagesOK, Undecided

\* An entry on trial, or one not selected, can be given up or lost.
LEMMA EntryDropped ==
    ASSUME FlashOK, NEW s \in Slots, NEW x \in {"Empty", "Invalid", "Aborted"},
           (s # Active /\ ~Undecided(Active)) \/ otaState[s] = "Pending",
           x = "Empty" \/ RollbackEnabled,
           otaState' = [otaState EXCEPT ![s] = x],
           UNCHANGED <<image, latest>>, TypeOK'
    PROVE  EntriesOK' /\ ImagesOK' /\ s # Active'
<1>0. /\ Active \in Slots /\ latest \in Slots /\ latest' = latest
      /\ otaState \in [Slots -> EntryStates]
      /\ otaState' \in [Slots -> EntryStates]
      /\ otaState'[s] = x /\ \A t \in Slots : t # s => otaState'[t] = otaState[t]
  BY TargetType DEF FlashOK, TypeOK
<1>1. ~Selectable(otaState', s)
  BY <1>0 DEF Selectable
<1>2. \A t \in Slots : t # s => t = Other(s)
  BY DEF Slots, Other
<1>3. Selectable(otaState, Other(s)) /\ Other(s) # s /\ Other(s) \in Slots
      /\ image[Other(s)] \in Bootable
      /\ (otaState[Other(s)] = "Valid" => image[Other(s)] \notin Broken)
      /\ (Undecided(Other(s)) => Other(s) = latest)
  <2>1. CASE s # Active /\ ~Undecided(Active)
    <3>1. Active = Other(s)
      BY <1>0, <1>2, <2>1
    <3> QED
      BY <1>0, <2>1, <3>1, OtherSlot DEF FlashOK, EntriesOK, ImagesOK
  <2>2. CASE otaState[s] = "Pending"
    <3>1. s = Active
      BY <2>2, UndecidedIsActive DEF Undecided
    <3>2. otaState[Other(s)] = "Valid"
      BY <2>2, <3>1 DEF FlashOK, ImagesOK, Undecided
    <3> QED
      BY <1>0, <2>2, <3>1, <3>2, OtherSlot
      DEF FlashOK, ImagesOK, EntriesOK, Undecided, Selectable
  <2> QED
    BY <2>1, <2>2
<1>4. otaState'[Other(s)] = otaState[Other(s)] /\ Selectable(otaState', Other(s))
  BY <1>0, <1>3 DEF Selectable
<1>5. Active' = Other(s)
  <2>1. Selected(otaState', latest) = Other(s)
    <3>1. CASE latest = s
      BY <1>0, <1>1, <1>4, <3>1, SelectedSlot
    <3>2. CASE latest = Other(s)
      BY <1>0, <1>4, <3>2, SelectedSlot
    <3> QED
      BY <1>0, <1>2, <3>1, <3>2
  <2> QED
    BY <1>0, <2>1 DEF Active
<1>6. ~Undecided(Other(s))
  <2>1. Undecided(Other(s)) => Other(s) = Active
    BY <1>3, UndecidedIsActive
  <2>2. CASE ~Undecided(Active)
    BY <2>1, <2>2
  <2>3. CASE otaState[s] = "Pending"
    BY <1>3, <2>1, <2>3, UndecidedIsActive DEF Undecided
  <2> QED
    BY <2>2, <2>3
<1>7. EntriesOK'
  <2>1. \A t \in Slots : ~Undecided(t)'
    BY <1>0, <1>2, <1>4, <1>6 DEF Undecided
  <2>2. Selectable(otaState', Active')
    BY <1>4, <1>5
  <2>3. \A t \in Slots : IF RollbackEnabled THEN otaState'[t] # "Undefined"
                         ELSE otaState'[t] \in {"Empty", "Undefined"}
    BY <1>0 DEF FlashOK, EntriesOK
  <2> QED
    BY <2>1, <2>2, <2>3 DEF EntriesOK
<1>8. ImagesOK'
  BY <1>3, <1>4, <1>5, <1>6 DEF ImagesOK, Undecided
<1> QED
  BY <1>3, <1>5, <1>7, <1>8

(***************************************************************************)
(* The inductive invariant                                                 *)
(***************************************************************************)

\* The device as it leaves the bench.
LEMMA InvInit == Init => IInv
<1> SUFFICES ASSUME Init PROVE IInv
  OBVIOUS
<1>1. TypeOK
  BY TypeInit
<1>2. otaState[0] \in {"Valid", "Undefined"} /\ otaState[1] = "Empty"
      /\ (RollbackEnabled <=> otaState[0] = "Valid")
      /\ image[0] = Factory /\ latest = 0 /\ 0 \in Slots
  BY DEF Init, Slots
<1>3. Active = 0
  BY <1>1, <1>2, SelectedSlot DEF TypeOK, Active, Selectable
<1>4. EntriesOK
  BY <1>2, <1>3 DEF EntriesOK, Undecided, Selectable, Slots
<1>5. ImagesOK
  BY <1>2, <1>3, ImagesAssumption DEF ImagesOK, Undecided
<1>6. RunningOK /\ MainOK /\ WorkerOK
  BY DEF Init, RunningOK, MainOK, WorkerOK, On, Trying
<1> QED
  BY <1>1, <1>4, <1>5, <1>6 DEF IInv

\* After a reset only flash matters.
LEMMA InvReset ==
    ASSUME Reset, TypeOK', EntriesOK', ImagesOK'
    PROVE  IInv'
<1>1. RunningOK' /\ MainOK' /\ WorkerOK'
  BY DEF Reset, RunningOK, MainOK, WorkerOK, On, Trying
<1> QED
  BY <1>1 DEF IInv

\* A running application that is on trial is the selected one.
LEMMA TrialIsActive ==
    ASSUME IInv, otaState[running] = "Pending"
    PROVE  running = Active /\ RollbackEnabled /\ Undecided(running)
BY UndecidedIsActive DEF IInv, FlashOK, TypeOK, Undecided

\* The slot the worker writes is not selected, and no trial depends on it.
LEMMA WritingIsSafe ==
    ASSUME IInv, On, workerPc \in {"read", "validate", "end", "setBoot"}
    PROVE  /\ running = Active /\ Target = Other(Active)
           /\ ~Undecided(Active)
           /\ (RollbackEnabled => otaState[Active] = "Valid")
<1>1. running = Active /\ otaState[running] \notin {"New", "Pending"}
  BY DEF IInv, RunningOK, WorkerOK
<1>2. RollbackEnabled => otaState[Active] = "Valid"
  BY <1>1, TargetType DEF IInv, TypeOK, EntriesOK, Selectable, EntryStates
<1> QED
  BY <1>1, <1>2 DEF Target, Undecided

\* Losing power is safe, also in the middle of an otadata write.
LEMMA InvPowerLoss == IInv /\ PowerLoss => IInv'
BY TypePower, FlashSame, InvReset DEF IInv, FlashOK, PowerLoss, Power, flash

LEMMA InvTornWrite ==
    ASSUME IInv, NEW s \in Slots, TornWrite(s)
    PROVE  IInv'
<1>1. TypeOK'
  BY TypePower DEF IInv, Power
<1>2. (s # Active /\ ~Undecided(Active)) \/ otaState[s] = "Pending"
  <2>1. CASE mainPc \in {"commit", "judge"} /\ s = Active
    BY <2>1, TrialIsActive DEF IInv, MainOK, Trying
  <2>2. CASE workerPc = "setBoot" /\ s = Target
    <3>1. On
      BY <2>2 DEF IInv, MainOK, On
    <3> QED
      BY <2>2, <3>1, WritingIsSafe, OtherSlot, TargetType DEF IInv
  <2> QED
    BY <2>1, <2>2 DEF TornWrite, Rewriting
<1>3. EntriesOK' /\ ImagesOK'
  BY <1>1, <1>2, EntryDropped DEF IInv, FlashOK, TornWrite
<1> QED
  BY <1>1, <1>3, InvReset DEF TornWrite

\* The bootloader's rewriting of the entries leaves flash in order and
\* selects the slot it boots.
LEMMA BootFlash ==
    ASSUME IInv, Boot, TypeOK'
    PROVE  /\ EntriesOK' /\ ImagesOK'
           /\ running' = Active' /\ otaState'[running'] # "New"
<1> USE DEF FlashOK, IInv
<1>0. Active \in Slots /\ latest' = latest /\ image' = image
      /\ otaState \in [Slots -> EntryStates] /\ latest \in Slots
  BY TargetType DEF Boot, TypeOK
<1>1. running' = NextBoot
  BY FlashNeverBricked DEF Boot, NeverBricked, BootableNext
<1>2. CASE otaState[Active] = "Pending"
  <2>1. RollbackEnabled /\ otaState[Other(Active)] = "Valid"
    BY <1>0, <1>2, UndecidedIsActive DEF ImagesOK, Undecided
  <2>2. NextBoot = Other(Active)
        /\ AbortPending(otaState) = [otaState EXCEPT ![Active] = "Aborted"]
    BY <1>2, NextBootIs
  <2>3. otaState' = [otaState EXCEPT ![Active] = "Aborted"]
    BY <1>0, <2>1, <2>2, OtherSlot DEF Boot, StartTrial
  <2>4. EntriesOK' /\ ImagesOK' /\ Active # Active'
    BY <1>0, <1>2, <2>1, <2>3, EntryDropped
  <2>5. Active' \in Slots
    BY SelectedSlot DEF TypeOK, Active
  <2>6. Active' = NextBoot
    BY <1>0, <2>2, <2>4, <2>5 DEF Slots, Other
  <2> QED
    BY <1>0, <1>1, <2>1, <2>2, <2>3, <2>4, <2>6, OtherSlot
<1>3. CASE otaState[Active] = "New"
  <2>1. RollbackEnabled /\ Active = latest
    BY <1>0, <1>3, UndecidedIsActive DEF Undecided
  <2>2. NextBoot = Active /\ AbortPending(otaState) = otaState
    BY <1>3, NextBootIs
  <2>3. otaState' = [otaState EXCEPT ![Active] = "Pending"]
    BY <1>3, <2>1, <2>2 DEF Boot, StartTrial
  <2>4. /\ otaState'[latest] = "Pending"
        /\ otaState'[Other(latest)] = otaState[Other(latest)]
        /\ \A t \in Slots : t # latest => otaState'[t] = otaState[t]
    BY <1>0, <2>1, <2>3, OtherSlot
  <2>5. Active' = latest
    <3>1. Selectable(otaState', latest)
      BY <2>4 DEF Selectable
    <3>2. otaState' \in [Slots -> EntryStates]
      BY DEF TypeOK
    <3> QED
      BY <1>0, <3>1, <3>2, SelectedSlot DEF Active
  <2>6. EntriesOK'
    BY <1>0, <2>1, <2>4, <2>5 DEF EntriesOK, Undecided, Selectable
  <2>7. ImagesOK'
    BY <1>0, <1>3, <2>1, <2>4, <2>5 DEF ImagesOK, Undecided
  <2> QED
    BY <1>1, <2>1, <2>2, <2>4, <2>5, <2>6, <2>7
<1>4. CASE otaState[Active] \notin {"New", "Pending"}
  <2>1. NextBoot = Active /\ AbortPending(otaState) = otaState
    BY <1>4, NextBootIs
  <2>2. otaState' = otaState
    BY <1>4, <2>1 DEF Boot, StartTrial
  <2> QED
    BY <1>0, <1>1, <1>4, <2>1, <2>2, FlashSame
<1> QED
  BY <1>2, <1>3, <1>4

LEMMA InvBoot == IInv /\ Boot => IInv'
<1> SUFFICES ASSUME IInv, Boot PROVE IInv'
  OBVIOUS
<1>1. TypeOK'
  BY TypePower DEF IInv, Power
<1>2. EntriesOK' /\ ImagesOK' /\ running' = Active' /\ otaState'[running'] # "New"
  BY <1>1, BootFlash
<1>3. workerPc' = "idle" /\ mainPc' = "check" /\ ~mqttConnected' /\ ~pendingVerify'
  BY DEF IInv, MainOK, Boot, On, worker, trial
<1>4. RunningOK' /\ MainOK' /\ WorkerOK'
  BY <1>2, <1>3 DEF RunningOK, MainOK, WorkerOK, On, Trying
<1> QED
  BY <1>1, <1>2, <1>4 DEF IInv

(***************************************************************************)
(* The main task                                                           *)
(***************************************************************************)

\* A step of app_main that leaves otadata alone and moves to a place that is
\* only reached on trial when a trial is open.
LEMMA InvMainQuiet ==
    ASSUME IInv, Main,
           UNCHANGED <<image, otaState, latest, running, mqttConnected, worker>>,
           mainPc # "off", mainPc' \notin {"off", "check"},
           Trying' => otaState[running] = "Pending",
           mainPc' = "commit" => mqttConnected
    PROVE  IInv'
<1>1. TypeOK'
  BY TypeMain DEF IInv
<1>2. EntriesOK' /\ ImagesOK' /\ Active' = Active
  BY FlashSame DEF IInv, FlashOK
<1>3. RunningOK'
  BY <1>2 DEF IInv, RunningOK, On, worker
<1>4. MainOK'
  BY DEF IInv, MainOK, On
<1>5. WorkerOK'
  BY DEF IInv, WorkerOK, On, worker, Target
<1> QED
  BY <1>1, <1>2, <1>3, <1>4, <1>5 DEF IInv

\* Confirming or losing the confirmation of a trial.
LEMMA InvCommit == IInv /\ Commit => IInv'
<1> SUFFICES ASSUME IInv, Commit PROVE IInv'
  OBVIOUS
<1>0. /\ running = Active /\ RollbackEnabled /\ Active \in Slots /\ latest = Active
      /\ otaState[Active] = "Pending" /\ image[Active] \notin Broken
      /\ workerPc \in {"idle", "open", "begin", "failed"}
  BY TrialIsActive, TargetType, UndecidedIsActive
  DEF IInv, FlashOK, Commit, MainStep, MainOK, WorkerOK, Trying, On, TypeOK
<1>1. TypeOK'
  BY TypeMain DEF IInv, Main
<1>2. /\ mainPc' = "resetCount"
      /\ UNCHANGED <<image, latest, running, worker, mqttConnected>>
  BY DEF Commit, MainStep
<1>3. CASE otaState' = [otaState EXCEPT ![Active] = "Valid"]
  <2>1. otaState'[Active] = "Valid"
        /\ \A t \in Slots : t # Active => otaState'[t] = otaState[t]
    BY <1>0, <1>3 DEF IInv, TypeOK
  <2>2. Active' = Active
    <3>1. Selectable(otaState', latest) /\ otaState' \in [Slots -> EntryStates]
      BY <1>0, <1>1, <2>1 DEF Selectable, TypeOK
    <3> QED
      BY <1>0, <1>2, <3>1, SelectedSlot DEF Active
  <2>3. EntriesOK'
    BY <1>0, <1>2, <2>1, <2>2 DEF IInv, EntriesOK, Undecided, Selectable
  <2>4. ImagesOK'
    BY <1>0, <1>2, <2>1, <2>2 DEF IInv, ImagesOK, Undecided
  <2>5. RunningOK' /\ MainOK' /\ WorkerOK'
    BY <1>0, <1>2, <2>1, <2>2
    DEF IInv, RunningOK, MainOK, WorkerOK, On, Trying, worker, Target
  <2> QED
    BY <1>1, <2>3, <2>4, <2>5 DEF IInv
<1>4. CASE UNCHANGED otaState
  <2>1. Main /\ ~Trying' /\ mainPc # "off"
    BY <1>2 DEF Commit, MainStep, Main, Trying
  <2> QED
    BY <1>2, <1>4, <2>1, InvMainQuiet
<1> QED
  BY <1>3, <1>4 DEF Commit

LEMMA InvMain == IInv /\ Main => IInv'
<1> SUFFICES ASSUME IInv, Main PROVE IInv'
  OBVIOUS
<1>1. CASE CheckTrial
  <2>1. Trying' => otaState[running] = "Pending"
    BY <1>1 DEF CheckTrial, CountTrial, NoTrial, Trying, IInv, MainOK
  <2>2. UNCHANGED <<image, otaState, latest, running, mqttConnected, worker>>
        /\ mainPc = "check" /\ mainPc' \in {"judge", "wifi"}
    BY <1>1 DEF CheckTrial, CountTrial, NoTrial
  <2> QED
    BY <2>1, <2>2, InvMainQuiet
<1>2. CASE JudgeTrial
  <2>1. CASE UNCHANGED otaState /\ mainPc' = "wifi"
    <3>1. UNCHANGED <<image, otaState, latest, running, mqttConnected, worker>>
          /\ mainPc = "judge" /\ mainPc' = "wifi"
      BY <1>2, <2>1 DEF JudgeTrial, RollBack, NoRollBack, Reset
    <3>2. otaState[running] = "Pending"
      BY <3>1 DEF IInv, MainOK, Trying
    <3> QED
      BY <3>1, <3>2, InvMainQuiet
  <2>2. CASE Reset /\ otaState' = [otaState EXCEPT ![Active] = "Invalid"]
    <3>1. TypeOK'
      BY TypeMain DEF IInv
    <3>2. otaState[Active] = "Pending" /\ RollbackEnabled
      BY <1>2, TrialIsActive DEF JudgeTrial, RollBack, NoRollBack, IInv, MainOK, Trying
    <3>3. EntriesOK' /\ ImagesOK'
      BY <1>2, <2>2, <3>1, <3>2, EntryDropped, TargetType
      DEF IInv, FlashOK, JudgeTrial, RollBack, NoRollBack
    <3> QED
      BY <2>2, <3>1, <3>3, InvReset
  <2> QED
    BY <1>2, <2>1, <2>2 DEF JudgeTrial, RollBack, NoRollBack
<1>3. CASE Restart
  BY <1>3, TypeMain, FlashSame, InvReset DEF Restart, IInv, FlashOK, flash
<1>4. CASE Commit
  BY <1>4, InvCommit
<1>5. CASE WifiConnected \/ WifiFailed
  BY <1>5, InvMainQuiet
  DEF WifiConnected, WifiFailed, MainStep, Trying, IInv, MainOK
<1>6. CASE SelfTestPoll \/ SelfTestOver \/ Verdict
  BY <1>6, InvMainQuiet
  DEF SelfTestPoll, SelfTestOver, Verdict, MainStep, Trying, IInv, MainOK
<1>7. CASE ResetCount \/ ReportCommitted \/ ReportSelfTestFailed
  BY <1>7, InvMainQuiet
  DEF ResetCount, ReportCommitted, ReportSelfTestFailed, MainStep, Trying,
      IInv, MainOK
<1>8. CASE Announce \/ ReportRunning
  BY <1>8, InvMainQuiet DEF Announce, ReportRunning, MainStep, Trying
<1> QED
  BY <1>1, <1>2, <1>3, <1>4, <1>5, <1>6, <1>7, <1>8 DEF Main

(***************************************************************************)
(* The MQTT client task and the worker                                     *)
(***************************************************************************)

LEMMA InvMqtt == IInv /\ Mqtt => IInv'
<1> SUFFICES ASSUME IInv, Mqtt PROVE IInv'
  OBVIOUS
<1>1. TypeOK'
  BY TypeMqtt DEF IInv
<1>2. UNCHANGED <<image, otaState, latest, mainPc, running, pendingVerify, worker>>
  BY DEF Mqtt, MqttConnected, MqttDisconnected, MqttData, flash, trial
<1>3. EntriesOK' /\ ImagesOK' /\ Active' = Active
  BY <1>2, FlashSame DEF IInv, FlashOK
<1>4. RunningOK' /\ WorkerOK'
  BY <1>2, <1>3 DEF IInv, RunningOK, WorkerOK, On, worker, Target
<1>5. mqttConnected' => mqttConnected \/ (MqttStarted /\ image[running] \notin Broken)
  BY DEF Mqtt, MqttConnected, MqttDisconnected, MqttData
<1>6. MainOK'
  BY <1>2, <1>5 DEF IInv, MainOK, Trying, On, worker, MqttStarted
<1> QED
  BY <1>1, <1>3, <1>4, <1>6 DEF IInv

\* A worker step that leaves flash alone.
LEMMA InvWorkerQuiet ==
    ASSUME IInv, Worker, On,
           UNCHANGED <<image, otaState, latest, mainPc, running, pendingVerify,
                       mqttConnected>>,
           workerPc # "reboot", workerPc' # "reboot", WorkerOK'
    PROVE  IInv'
<1>1. TypeOK'
  BY TypeWorker DEF IInv
<1>2. EntriesOK' /\ ImagesOK' /\ Active' = Active
  BY FlashSame DEF IInv, FlashOK
<1>3. RunningOK' /\ MainOK'
  BY <1>2 DEF IInv, RunningOK, MainOK, On, Trying
<1> QED
  BY <1>1, <1>2, <1>3 DEF IInv

\* Writing a chunk.
LEMMA InvReadChunk == IInv /\ ReadChunk => IInv'
<1> SUFFICES ASSUME IInv, ReadChunk PROVE IInv'
  OBVIOUS
<1>1. TypeOK'
  BY TypeWorker DEF IInv, Worker
<1>2. /\ On /\ workerPc = "read" /\ workerPc' = "read"
      /\ UNCHANGED <<otaState, latest, mainPc, running, pendingVerify, mqttConnected, job>>
  BY DEF ReadChunk, WorkerStep, On, trial
<1>3. /\ running = Active /\ Target = Other(Active) /\ ~Undecided(Active)
      /\ Target \in Slots /\ running \in Slots /\ running # Target
  BY <1>2, WritingIsSafe, TargetType, OtherSlot DEF IInv, TypeOK
<1>4. EntriesOK' /\ ImagesOK' /\ Active' = Active
  <2> DEFINE x == IF download.got + 1 = Size[download.image]
                  THEN download.image ELSE Blank
  <2>1. image' = [image EXCEPT ![Other(Active)] = x]
    BY <1>3 DEF ReadChunk
  <2> QED
    BY <1>2, <1>3, <2>1, FlashWritten DEF IInv, FlashOK
<1>5. /\ image'[running] = image[running]
      /\ Target' = Target
      /\ download'.image = download.image /\ download'.got = download.got + 1
      /\ download'.got = Size[download'.image] => image'[Target] = download'.image
  BY <1>2, <1>3 DEF ReadChunk, IInv, TypeOK, Target
<1>6. RunningOK' /\ MainOK'
  BY <1>2, <1>4, <1>5 DEF IInv, RunningOK, MainOK, On, Trying
<1>7. WorkerOK'
  BY <1>2, <1>5 DEF IInv, WorkerOK, On
<1> QED
  BY <1>1, <1>4, <1>6, <1>7 DEF IInv

\* Staging: the running image, confirmed, becomes the fallback of the new one.
LEMMA InvSetBoot == IInv /\ SetBoot => IInv'
<1> SUFFICES ASSUME IInv, SetBoot PROVE IInv'
  OBVIOUS
<1>1. TypeOK'
  BY TypeWorker DEF IInv, Worker
<1>2. /\ On /\ workerPc = "setBoot" /\ workerPc' = "reboot" /\ latest' = Target
      /\ UNCHANGED <<image, mainPc, running, pendingVerify, mqttConnected, job>>
  BY DEF SetBoot, WorkerStep, On, trial
<1>3. /\ running = Active /\ Target = Other(Active) /\ ~Undecided(Active)
      /\ (RollbackEnabled => otaState[Active] = "Valid")
      /\ Target \in Slots /\ Active \in Slots /\ Other(Target) = Active
      /\ Target # Active /\ Selectable(otaState, Active)
  BY <1>2, WritingIsSafe, TargetType, OtherSlot DEF IInv, TypeOK, EntriesOK
<1>4. /\ otaState'[Target] = IF RollbackEnabled THEN "New" ELSE "Undefined"
      /\ \A t \in Slots : t # Target => otaState'[t] = otaState[t]
  BY <1>3 DEF SetBoot, IInv, TypeOK
<1>5. Active' = Target
  <2>1. Selectable(otaState', Target)
    BY <1>4 DEF Selectable
  <2>2. otaState' \in [Slots -> EntryStates]
    BY <1>1 DEF TypeOK
  <2> QED
    BY <1>2, <1>3, <2>1, <2>2, SelectedSlot DEF Active
<1>6. EntriesOK'
  <2>1. \A t \in Slots : Undecided(t)' => t = Target
    <3>1. \A t \in Slots : t # Target => ~Undecided(t)
      BY <1>3, UndecidedIsActive DEF IInv, FlashOK
    <3> QED
      BY <1>4, <3>1 DEF Undecided
  <2>2. Selectable(otaState', Target)
    BY <1>4 DEF Selectable
  <2> QED
    BY <1>2, <1>3, <1>4, <1>5, <2>1, <2>2 DEF IInv, EntriesOK
<1>7. ImagesOK'
  <2>1. image[Target] \in Bootable
    BY <1>2 DEF IInv, WorkerOK
  <2>2. /\ image[Active] \in Bootable
        /\ otaState[Active] = "Valid" => image[Active] \notin Broken
    BY DEF IInv, ImagesOK
  <2> QED
    BY <1>2, <1>3, <1>4, <1>5, <2>1, <2>2 DEF ImagesOK, Undecided
<1>8. RunningOK' /\ MainOK' /\ WorkerOK'
  BY <1>2, <1>3, <1>4, <1>5
  DEF IInv, RunningOK, MainOK, WorkerOK, On, Trying
<1> QED
  BY <1>1, <1>6, <1>7, <1>8 DEF IInv

LEMMA InvWorker == IInv /\ Worker => IInv'
<1> SUFFICES ASSUME IInv, Worker PROVE IInv'
  OBVIOUS
<1>1. CASE Receive
  <2>1. job' \in Commands /\ workerPc' = "open"
    BY <1>1 DEF Receive, WorkerStep, IInv, TypeOK
  <2>2. WorkerOK'
    BY <1>1, <2>1 DEF Receive, WorkerStep, WorkerOK
  <2> QED
    BY <1>1, <2>2, InvWorkerQuiet DEF Receive, WorkerStep, On, trial
<1>2. ASSUME NEW i \in Images, NEW n \in 0..Size[i], Open(i, n) PROVE IInv'
  <2>1. WorkerOK'
    BY <1>2 DEF Open, WorkerStep, IInv, WorkerOK
  <2> QED
    BY <1>2, <2>1, InvWorkerQuiet DEF Open, WorkerStep, On, trial
<1>3. CASE Begin
  <2>1. otaState[running] # "Pending"
    BY <1>3, TrialIsActive DEF Begin
  <2>2. download.got = 0 /\ Size[download.image] # 0
    BY <1>3, ImagesAssumption DEF Begin, WorkerStep, IInv, WorkerOK, TypeOK
  <2>3. WorkerOK'
    BY <1>3, <2>1, <2>2 DEF Begin, WorkerStep, IInv, WorkerOK, On
  <2> QED
    BY <1>3, <2>3, InvWorkerQuiet DEF Begin, WorkerStep, On, trial
<1>4. CASE ReadChunk
  BY <1>4, InvReadChunk
<1>5. CASE ReadComplete
  <2>1. WorkerOK'
    BY <1>5 DEF ReadComplete, WorkerStep, IInv, WorkerOK, On, Target, trial
  <2> QED
    BY <1>5, <2>1, InvWorkerQuiet DEF ReadComplete, WorkerStep, On, trial
<1>6. CASE Validate
  <2>1. WorkerOK'
    BY <1>6 DEF Validate, Matches, WorkerStep, IInv, WorkerOK, On, Target, trial
  <2> QED
    BY <1>6, <2>1, InvWorkerQuiet DEF Validate, WorkerStep, On, trial
<1>7. CASE End
  <2>1. WorkerOK'
    BY <1>7 DEF End, WorkerStep, IInv, WorkerOK, On, Target, trial
  <2> QED
    BY <1>7, <2>1, InvWorkerQuiet DEF End, WorkerStep, On, trial
<1>8. CASE SetBoot
  BY <1>8, InvSetBoot
<1>9. CASE CallFailed
  <2>1. WorkerOK'
    BY <1>9 DEF CallFailed, WorkerStep, IInv, WorkerOK, On
  <2> QED
    BY <1>9, <2>1, InvWorkerQuiet DEF CallFailed, WorkerStep, On, trial
<1>10. CASE RestartIntoUpdate
  BY <1>10, TypeWorker, FlashSame, InvReset
  DEF RestartIntoUpdate, IInv, FlashOK, flash
<1>11. CASE ReportFailed
  <2>1. WorkerOK'
    BY <1>11 DEF ReportFailed, WorkerStep, WorkerOK
  <2> QED
    BY <1>11, <2>1, InvWorkerQuiet DEF ReportFailed, WorkerStep, On, trial
<1> QED
  BY <1>1, <1>2, <1>3, <1>4, <1>5, <1>6, <1>7, <1>8, <1>9, <1>10, <1>11 DEF Worker

(***************************************************************************)
(* Safety                                                                  *)
(***************************************************************************)

\* IInv is an invariant of the device.
THEOREM Invariance == Spec => []IInv
<1>1. IInv /\ UNCHANGED vars => IInv'
  <2> SUFFICES ASSUME IInv, UNCHANGED vars PROVE IInv'
    OBVIOUS
  <2>1. TypeOK'
    BY DEF IInv, TypeOK, vars, flash, trial, worker
  <2>2. EntriesOK' /\ ImagesOK' /\ Active' = Active
    BY FlashSame DEF IInv, FlashOK, vars, flash
  <2>3. RunningOK' /\ MainOK' /\ WorkerOK'
    BY <2>2 DEF IInv, RunningOK, MainOK, WorkerOK, On, Trying, Target,
                vars, flash, trial, worker
  <2> QED
    BY <2>1, <2>2, <2>3 DEF IInv
<1>2. IInv /\ [Next]_vars => IInv'
  BY <1>1, InvMain, InvMqtt, InvWorker, InvBoot, InvPowerLoss, InvTornWrite
  DEF Next, Power
<1> QED
  BY <1>2, InvInit, PTL DEF Spec

\* Whatever is interrupted, the bootloader finds a whole image, and a trial
\* has a confirmed one to fall back to.
THEOREM DeviceNeverBricked == Spec => []NeverBricked
<1>1. IInv => NeverBricked
  BY FlashNeverBricked DEF IInv, FlashOK
<1> QED
  BY <1>1, Invariance, PTL

\* An image that cannot reach the broker is never confirmed.
THEOREM DeviceBrokenNeverConfirmed == Spec => []BrokenNeverConfirmed
<1>1. IInv => BrokenNeverConfirmed
  BY DEF IInv, ImagesOK, BrokenNeverConfirmed
<1> QED
  BY <1>1, Invariance, PTL

\* What is staged has the size and the digest of the command being served.
THEOREM DeviceOnlyVerifiedStaged == Spec => OnlyVerifiedStaged
<1> DEFINE Staged ==
      \A s \in Slots :
        otaState'[s] # otaState[s] /\ otaState'[s] \in {"New", "Undefined"} =>
          /\ job # None
          /\ image[s] = job.image
          /\ Size[job.image] = job.size
<1>1. IInv /\ [Next]_vars => [Staged]_vars
  <2> SUFFICES ASSUME IInv, Next, NEW s \in Slots,
                      otaState'[s] # otaState[s],
                      otaState'[s] \in {"New", "Undefined"}
               PROVE  job # None /\ image[s] = job.image /\ Size[job.image] = job.size
    OBVIOUS
  <2>0. otaState \in [Slots -> EntryStates] /\ Active \in Slots /\ Target \in Slots
    BY TargetType DEF IInv, TypeOK
  <2>1. CASE SetBoot
    <3>1. s = Target /\ workerPc = "setBoot"
      BY <2>0, <2>1 DEF SetBoot, WorkerStep
    <3>2. job \in Commands /\ image[Target] = job.image /\ Size[job.image] = job.size
      BY <3>1 DEF IInv, WorkerOK
    <3> QED
      BY <3>1, <3>2, CommandsAssumption
  <2>2. CASE Worker /\ ~SetBoot
    BY <2>2 DEF Worker, Receive, Open, Begin, ReadChunk, ReadComplete, Validate,
                End, CallFailed, RestartIntoUpdate, ReportFailed, flash
  <2>3. CASE Main
    <3>1. CASE JudgeTrial
      BY <2>0, <3>1 DEF JudgeTrial, RollBack, NoRollBack
    <3>2. CASE Commit
      BY <2>0, <3>2 DEF Commit
    <3> QED
      BY <2>3, <3>1, <3>2
      DEF Main, CheckTrial, CountTrial, NoTrial, WifiConnected, WifiFailed,
          SelfTestPoll, SelfTestOver,
          Verdict, ResetCount, ReportCommitted, ReportSelfTestFailed, Restart,
          Announce, ReportRunning, flash
  <2>4. CASE Mqtt
    BY <2>4 DEF Mqtt, MqttConnected, MqttDisconnected, MqttData, flash
  <2>5. CASE Boot
    <3>1. NextBoot \in Slots
      BY <2>0, NextBootIs, OtherSlot DEF IInv, FlashOK
    <3> QED
      BY <2>0, <2>5, <3>1 DEF Boot, StartTrial, AbortPending
  <2>6. CASE PowerLoss
    BY <2>6 DEF PowerLoss, flash
  <2>7. ASSUME NEW t \in Slots, TornWrite(t) PROVE FALSE
    BY <2>0, <2>7 DEF TornWrite
  <2> QED
    BY <2>1, <2>2, <2>3, <2>4, <2>5, <2>6, <2>7 DEF Next, Power
<1>2. Spec => [][Staged]_vars
  BY <1>1, Invariance, PTL DEF Spec
<1> QED
  BY <1>2 DEF OnlyVerifiedStaged
=============================================================================

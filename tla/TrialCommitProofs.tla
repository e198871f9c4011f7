-------------------------- MODULE TrialCommitProofs --------------------------
(***************************************************************************)
(* The safety part of "DeviceUpdate implements TrialCommit": in a build    *)
(* with rollback, every step of the main task, the worker, the MQTT client,*)
(* the bootloader and the power supply stages, confirms or drops one       *)
(* candidate, or changes neither image.  Then what the device may report.  *)
(***************************************************************************)
EXTENDS DeviceUpdateProofs

(***************************************************************************)
(* What the mapping reads                                                  *)
(***************************************************************************)
Mapped == <<ConfirmedImage, CandidateImage>>

\* The mapping reads the entries and the images.
LEMMA MappedSame ==
    ASSUME UNCHANGED <<image, otaState, latest>>
    PROVE  Mapped' = Mapped
BY DEF Mapped, ConfirmedImage, CandidateImage, Undecided, Active

\* Giving up or losing an entry drops the candidate, or does not show.
LEMMA DroppedMaps ==
    ASSUME FlashOK, NEW s \in Slots, NEW x \in {"Empty", "Invalid", "Aborted"},
           (s # Active /\ ~Undecided(Active)) \/ otaState[s] = "Pending",
           x = "Empty" \/ RollbackEnabled,
           otaState' = [otaState EXCEPT ![s] = x],
           UNCHANGED <<image, latest>>, TypeOK'
    PROVE  [Abstract!Next]_Mapped
<1>1. EntriesOK' /\ s # Active'
  BY EntryDropped
<1>2. Active \in Slots /\ Active' \in Slots
  <2>1. Active \in Slots
    BY TargetType DEF FlashOK
  <2>2. Active' \in Slots
    BY SelectedSlot DEF TypeOK, Active
  <2> QED
    BY <2>1, <2>2
<1>3. Active' = Other(s)
  BY <1>1, <1>2 DEF Slots, Other
<1>4. \A t \in Slots : t # s => otaState'[t] = otaState[t]
  BY DEF FlashOK, TypeOK
<1>5. CASE s # Active /\ ~Undecided(Active)
  <2>1. Active' = Active
    BY <1>2, <1>3, <1>5 DEF Slots, Other
  <2>2. ~Undecided(Active)'
    BY <1>2, <1>4, <1>5, <2>1 DEF Undecided
  <2> QED
    BY <1>5, <2>1, <2>2 DEF Mapped, ConfirmedImage, CandidateImage
<1>6. CASE otaState[s] = "Pending"
  <2>1. s = Active /\ Undecided(Active)
    BY <1>6, UndecidedIsActive DEF Undecided
  <2>2. otaState[Other(s)] = "Valid" /\ image[Active] \in Bootable
    BY <2>1 DEF FlashOK, ImagesOK
  <2>3. ~Undecided(Active)'
    BY <1>3, <1>4, <2>2, OtherSlot DEF Undecided
  <2>4. CandidateImage = image[Active] /\ CandidateImage' = None
        /\ ConfirmedImage = image[Other(s)] /\ ConfirmedImage' = image[Other(s)]
    BY <1>3, <2>1, <2>3 DEF CandidateImage, ConfirmedImage
  <2>5. Abstract!Drop
    BY <2>2, <2>4, ImagesAssumption DEF Abstract!Drop
  <2> QED
    BY <2>5 DEF Abstract!Next
<1> QED
  BY <1>5, <1>6

(***************************************************************************)
(* One lemma for each step that can be seen                                *)
(***************************************************************************)

\* A torn write of otadata loses a trial or an entry nobody relies on.
LEMMA TornWriteMaps ==
    ASSUME IInv, NEW s \in Slots, TornWrite(s)
    PROVE  [Abstract!Next]_Mapped
<1>1. TypeOK'
  BY TypePower DEF IInv, Power
<1>2. (s # Active /\ ~Undecided(Active)) \/ otaState[s] = "Pending"
  <2>1. CASE mainPc \in {"commit", "judge"} /\ s = Active
    BY <2>1, TrialIsActive DEF IInv, MainOK, Trying
  <2>2. CASE workerPc = "setBoot" /\ s = Target
    <3>1. On
      BY <2>2 DEF IInv, MainOK, On
    <3> QED
      BY <2>2, <3>1, WritingIsSafe, OtherSlot, TargetType DEF IInv
  <2> QED
    BY <2>1, <2>2 DEF TornWrite, Rewriting
<1> QED
  BY <1>1, <1>2, DroppedMaps DEF IInv, FlashOK, TornWrite

\* The bootloader drops a trial that was not confirmed; starting one is not
\* seen.
LEMMA BootMaps ==
    ASSUME IInv, Boot
    PROVE  [Abstract!Next]_Mapped
<1>0. /\ FlashOK /\ TypeOK' /\ Active \in Slots /\ latest' = latest /\ image' = image
      /\ otaState \in [Slots -> EntryStates] /\ latest \in Slots
  BY TypePower, TargetType DEF IInv, FlashOK, Power, Boot, TypeOK
<1>1. CASE otaState[Active] = "Pending"
  <2>1. RollbackEnabled /\ otaState[Other(Active)] = "Valid"
    BY <1>0, <1>1, UndecidedIsActive DEF FlashOK, ImagesOK, Undecided
  <2>2. NextBoot = Other(Active)
        /\ AbortPending(otaState) = [otaState EXCEPT ![Active] = "Aborted"]
    BY <1>0, <1>1, NextBootIs
  <2>3. otaState' = [otaState EXCEPT ![Active] = "Aborted"]
    BY <1>0, <2>1, <2>2, OtherSlot DEF Boot, StartTrial
  <2> QED
    BY <1>0, <1>1, <2>1, <2>3, DroppedMaps
<1>2. CASE otaState[Active] = "New"
  <2>1. Active = latest /\ RollbackEnabled
    BY <1>0, <1>2, UndecidedIsActive DEF Undecided
  <2>2. NextBoot = Active /\ AbortPending(otaState) = otaState
    BY <1>0, <1>2, NextBootIs
  <2>3. otaState'[latest] = "Pending"
    BY <1>0, <1>2, <2>1, <2>2 DEF Boot, StartTrial
  <2>4. Active' = latest
    <3>1. Selectable(otaState', latest)
      BY <2>3 DEF Selectable
    <3>2. otaState' \in [Slots -> EntryStates]
      BY <1>0 DEF TypeOK
    <3> QED
      BY <1>0, <3>1, <3>2, SelectedSlot DEF Active
  <2>5. Undecided(Active) /\ Undecided(Active)'
    BY <1>2, <2>3, <2>4 DEF Undecided
  <2> QED
    BY <1>0, <2>1, <2>4, <2>5 DEF Mapped, ConfirmedImage, CandidateImage
<1>3. CASE otaState[Active] \notin {"New", "Pending"}
  <2>1. NextBoot = Active /\ AbortPending(otaState) = otaState
    BY <1>0, <1>3, NextBootIs
  <2>2. otaState' = otaState
    BY <1>3, <2>1 DEF Boot, StartTrial
  <2> QED
    BY <1>0, <2>2, MappedSame
<1> QED
  BY <1>1, <1>2, <1>3

\* Too many boots drop the candidate.
LEMMA JudgeMaps ==
    ASSUME IInv, JudgeTrial
    PROVE  [Abstract!Next]_Mapped
<1>1. CASE UNCHANGED otaState
  BY <1>1, MappedSame DEF JudgeTrial, RollBack, NoRollBack
<1>2. CASE otaState' = [otaState EXCEPT ![Active] = "Invalid"]
  <2>1. otaState[Active] = "Pending" /\ RollbackEnabled
    BY TrialIsActive DEF JudgeTrial, RollBack, NoRollBack, IInv, MainOK, Trying
  <2>2. TypeOK'
    BY TypeMain DEF IInv, Main
  <2> QED
    BY <1>2, <2>1, <2>2, DroppedMaps, TargetType DEF IInv, FlashOK, JudgeTrial, RollBack, NoRollBack
<1> QED
  BY <1>1, <1>2 DEF JudgeTrial, RollBack, NoRollBack

\* A commit confirms the candidate, which has reached the broker.
LEMMA CommitMaps ==
    ASSUME IInv, Commit
    PROVE  [Abstract!Next]_Mapped
<1>0. /\ running = Active /\ RollbackEnabled /\ Active \in Slots /\ latest = Active
      /\ Undecided(Active) /\ image[Active] \notin Broken
  BY TrialIsActive, TargetType, UndecidedIsActive
  DEF IInv, FlashOK, Commit, MainStep, MainOK, Trying, On, TypeOK, Undecided
<1>1. UNCHANGED <<image, latest>>
  BY DEF Commit, MainStep
<1>2. CASE UNCHANGED otaState
  BY <1>1, <1>2, MappedSame
<1>3. CASE otaState' = [otaState EXCEPT ![Active] = "Valid"]
  <2>1. otaState'[Active] = "Valid" /\ otaState' \in [Slots -> EntryStates]
    BY <1>0, <1>3 DEF IInv, TypeOK, EntryStates
  <2>2. Active' = Active
    <3>1. Selectable(otaState', latest)
      BY <1>0, <2>1 DEF Selectable
    <3> QED
      BY <1>0, <1>1, <2>1, <3>1, SelectedSlot DEF Active
  <2>3. ~Undecided(Active)'
    BY <2>1, <2>2 DEF Undecided
  <2>4. image[Active] \in Bootable
    BY DEF IInv, ImagesOK
  <2>5. CandidateImage = image[Active] /\ CandidateImage' = None
        /\ ConfirmedImage' = image[Active]
    BY <1>0, <1>1, <2>2, <2>3 DEF CandidateImage, ConfirmedImage
  <2>6. Abstract!Confirm
    BY <1>0, <2>4, <2>5 DEF Abstract!Confirm
  <2> QED
    BY <2>6 DEF Abstract!Next
<1> QED
  BY <1>2, <1>3 DEF Commit

\* Writing the inactive slot is not seen.
LEMMA ReadChunkMaps ==
    ASSUME IInv, ReadChunk
    PROVE  Mapped' = Mapped
<1>1. /\ On /\ workerPc = "read"
      /\ UNCHANGED <<otaState, latest>>
  BY DEF ReadChunk, WorkerStep, On
<1>2. /\ Target = Other(Active) /\ ~Undecided(Active)
      /\ Active \in Slots /\ Target # Active
  BY <1>1, WritingIsSafe, TargetType, OtherSlot DEF IInv, TypeOK
<1>3. image'[Active] = image[Active]
  BY <1>2 DEF ReadChunk, IInv, TypeOK
<1>4. Active' = Active /\ ~Undecided(Active)'
  BY <1>1, <1>2 DEF Active, Undecided
<1> QED
  BY <1>2, <1>3, <1>4 DEF Mapped, ConfirmedImage, CandidateImage

\* esp_ota_set_boot_partition stages the image that was verified.
LEMMA SetBootMaps ==
    ASSUME IInv, SetBoot, RollbackEnabled
    PROVE  Abstract!Next
<1>1. /\ On /\ workerPc = "setBoot" /\ latest' = Target /\ UNCHANGED image
  BY DEF SetBoot, WorkerStep, On
<1>2. /\ Target = Other(Active) /\ ~Undecided(Active)
      /\ Target \in Slots /\ Active \in Slots /\ Other(Target) = Active
  BY <1>1, WritingIsSafe, TargetType, OtherSlot DEF IInv, TypeOK
<1>3. otaState'[Target] = "New" /\ otaState' \in [Slots -> EntryStates]
  BY <1>2 DEF SetBoot, IInv, TypeOK, EntryStates
<1>4. Active' = Target
  <2>1. Selectable(otaState', Target)
    BY <1>3 DEF Selectable
  <2> QED
    BY <1>1, <1>2, <1>3, <2>1, SelectedSlot DEF Active
<1>5. Undecided(Active)'
  BY <1>3, <1>4 DEF Undecided
<1>6. /\ CandidateImage = None /\ CandidateImage' = image[Target]
      /\ ConfirmedImage = image[Active] /\ ConfirmedImage' = image[Active]
  BY <1>1, <1>2, <1>4, <1>5 DEF CandidateImage, ConfirmedImage
<1>7. image[Target] \in Bootable
  BY <1>1 DEF IInv, WorkerOK
<1>8. Abstract!Stage(image[Target])
  BY <1>6 DEF Abstract!Stage
<1> QED
  BY <1>7, <1>8 DEF Abstract!Next

(***************************************************************************)
(* The refinement                                                          *)
(***************************************************************************)
LEMMA NextMaps ==
    ASSUME IInv, [Next]_vars, RollbackEnabled
    PROVE  [Abstract!Next]_Mapped
<1>1. CASE Main
  <2>1. CASE JudgeTrial
    BY <2>1, JudgeMaps
  <2>2. CASE Commit
    BY <2>2, CommitMaps
  <2>3. CASE ~JudgeTrial /\ ~Commit
    <3>1. UNCHANGED <<image, otaState, latest>>
      BY <1>1, <2>3
      DEF Main, CheckTrial, CountTrial, NoTrial, WifiConnected, WifiFailed,
          SelfTestPoll, SelfTestOver,
          Verdict, ResetCount, ReportCommitted, ReportSelfTestFailed, Restart,
          Announce, ReportRunning, MainStep, flash
    <3> QED
      BY <3>1, MappedSame
  <2> QED
    BY <2>1, <2>2, <2>3
<1>2. CASE Worker
  <2>1. CASE ReadChunk
    BY <2>1, ReadChunkMaps
  <2>2. CASE SetBoot
    BY <2>2, SetBootMaps
  <2>3. CASE ~ReadChunk /\ ~SetBoot
    <3>1. UNCHANGED <<image, otaState, latest>>
      BY <1>2, <2>3
      DEF Worker, Receive, Open, Begin, ReadComplete, Validate, End, CallFailed,
          RestartIntoUpdate, ReportFailed, flash
    <3> QED
      BY <3>1, MappedSame
  <2> QED
    BY <2>1, <2>2, <2>3
<1>3. CASE Mqtt \/ PowerLoss \/ UNCHANGED vars
  <2>1. UNCHANGED <<image, otaState, latest>>
    BY <1>3 DEF Mqtt, MqttConnected, MqttDisconnected, MqttData, PowerLoss, vars, flash
  <2> QED
    BY <2>1, MappedSame
<1> QED
  BY <1>1, <1>2, <1>3, BootMaps, TornWriteMaps DEF Next, Power

\* In a build with rollback, whatever power cuts, torn writes, failing calls
\* and lost connections come in between, ota_start_update and app_main only
\* ever stage a whole image beside the confirmed one, confirm it, or drop it.
\* (That every candidate is decided, the fairness of TrialCommit, is left to
\* the model checker.)
THEOREM DeviceImplementsTrialCommit ==
    ASSUME RollbackEnabled
    PROVE  Spec => Abstract!Init /\ [][Abstract!Next]_(Abstract!vars)
<1>1. Init => Abstract!Init
  <2> SUFFICES ASSUME Init PROVE Abstract!Init
    OBVIOUS
  <2>1. /\ otaState[0] = "Valid" /\ image[0] = Factory /\ latest = 0 /\ 0 \in Slots
        /\ otaState \in [Slots -> EntryStates]
    BY TypeInit DEF Init, Slots, TypeOK
  <2>2. Active = 0
    BY <2>1, SelectedSlot DEF Active, Selectable
  <2> QED
    BY <2>1, <2>2 DEF Abstract!Init, ConfirmedImage, CandidateImage, Undecided
<1>2. IInv /\ [Next]_vars => [Abstract!Next]_(Abstract!vars)
  BY NextMaps DEF Abstract!vars, Mapped
<1> QED
  BY <1>1, <1>2, Invariance, PTL DEF Spec

(***************************************************************************)
(* What the device reports                                                 *)
(***************************************************************************)

\* Only three steps say COMMITTED, SELF_TEST_FAILED or OTA_FAILED.
LEMMA WhoReports ==
    ASSUME IInv, Next, NEW status \in {"COMMITTED", "SELF_TEST_FAILED", "OTA_FAILED"},
           Reported(status)
    PROVE  \/ status = "COMMITTED" /\ mainPc = "committed"
           \/ status = "SELF_TEST_FAILED" /\ mainPc = "failed"
           \/ status = "OTA_FAILED" /\ On /\ workerPc = "failed"
<1>1. report' # report /\ report' = status
  BY DEF Reported
<1>2. CASE Main
  BY <1>1, <1>2
  DEF Main, CheckTrial, CountTrial, NoTrial, JudgeTrial, RollBack, NoRollBack,
      WifiConnected, WifiFailed, SelfTestPoll, SelfTestOver,
      Verdict, Commit, ResetCount, ReportCommitted, ReportSelfTestFailed, Restart,
      Announce, ReportRunning, MainStep, Publish, Reset
<1>3. CASE Worker
  BY <1>1, <1>3
  DEF Worker, Receive, Open, Begin, ReadChunk, ReadComplete, Validate, End, SetBoot,
      CallFailed, RestartIntoUpdate, ReportFailed, WorkerStep, Publish, Reset, On
<1>4. CASE Mqtt \/ Power
  BY <1>1, <1>4
  DEF Mqtt, MqttConnected, MqttDisconnected, MqttData, Power, Boot, PowerLoss,
      TornWrite, Reset
<1> QED
  BY <1>2, <1>3, <1>4 DEF Next

\* A failure report is true when it leaves: the image that failed its
\* self-test is the one the next reset drops, and a failed update has left
\* the running image selected ("device remains on", main.c), in builds with
\* and without rollback.
THEOREM DeviceFailureReportsTruthful == Spec => FailureReportsTruthful
<1> DEFINE Truthful ==
      /\ Reported("SELF_TEST_FAILED") => NextBoot # running
      /\ Reported("OTA_FAILED") => Active = running
<1>1. IInv /\ [Next]_vars => [Truthful]_vars
  <2> SUFFICES ASSUME IInv, Next PROVE Truthful
    OBVIOUS
  <2>1. ASSUME Reported("SELF_TEST_FAILED") PROVE NextBoot # running
    <3>1. mainPc = "failed"
      BY <2>1, WhoReports
    <3>2. otaState[running] = "Pending" /\ running = Active
      BY <3>1, TrialIsActive DEF IInv, MainOK, Trying
    <3>3. NextBoot = Other(Active) /\ Active \in Slots
      BY <3>2, NextBootIs, TargetType DEF IInv, FlashOK
    <3> QED
      BY <3>2, <3>3, OtherSlot
  <2>2. ASSUME Reported("OTA_FAILED") PROVE Active = running
    BY <2>2, WhoReports DEF IInv, RunningOK
  <2> QED
    BY <2>1, <2>2
<1>2. Spec => [][Truthful]_vars
  BY <1>1, Invariance, PTL DEF Spec
<1> QED
  BY <1>2 DEF FailureReportsTruthful

\* Between esp_ota_mark_app_valid_cancel_rollback and the report the entry of
\* the running image stays confirmed: the worker writes the other one.
CommitOK == mainPc \in {"resetCount", "committed"} => otaState[running] = "Valid"

LEMMA CommitKept ==
    ASSUME "otadata" \notin Faults, IInv, CommitOK, [Next]_vars
    PROVE  CommitOK'
<1> SUFFICES ASSUME mainPc' \in {"resetCount", "committed"}
             PROVE  otaState'[running'] = "Valid"
  BY DEF CommitOK
<1>1. CASE Commit
  <2>1. running = Active /\ Active \in Slots
    BY <1>1, TrialIsActive, TargetType DEF IInv, Commit, MainStep, MainOK, Trying
  <2> QED
    BY <1>1, <2>1 DEF Commit, MainStep, IInv, TypeOK
<1>2. CASE Main /\ ~Commit
  BY <1>2
  DEF Main, CheckTrial, CountTrial, NoTrial, JudgeTrial, RollBack, NoRollBack,
      WifiConnected, WifiFailed, SelfTestPoll, SelfTestOver,
      Verdict, ResetCount, ReportCommitted, ReportSelfTestFailed, Restart,
      Announce, ReportRunning, MainStep, Reset, CommitOK
<1>3. CASE SetBoot
  <2>1. Target # running /\ running \in Slots
    BY OtherSlot DEF Target, IInv, TypeOK
  <2> QED
    BY <1>3, <2>1 DEF SetBoot, WorkerStep, CommitOK, IInv, TypeOK
<1>4. CASE Worker /\ ~SetBoot
  BY <1>4
  DEF Worker, Receive, Open, Begin, ReadChunk, ReadComplete, Validate, End, CallFailed,
      RestartIntoUpdate, ReportFailed, WorkerStep, Reset, CommitOK
<1>5. CASE Mqtt \/ Power \/ UNCHANGED vars
  BY <1>5
  DEF Mqtt, MqttConnected, MqttDisconnected, MqttData, Power, Boot, PowerLoss,
      TornWrite, Reset, CommitOK, vars, flash
<1> QED
  BY <1>1, <1>2, <1>3, <1>4, <1>5 DEF Next

\* COMMITTED is only said of an image that will not be rolled back (main.c:339),
\* as long as esp_ota_mark_app_valid_cancel_rollback does not fail to write
\* otadata: app_main ignores what it returns and reports COMMITTED all the same.
THEOREM DeviceCommittedIsFinal ==
    ASSUME "otadata" \notin Faults
    PROVE  Spec => CommittedIsFinal
<1>1. Init => CommitOK
  BY DEF Init, CommitOK
<1>2. Spec => [](IInv /\ CommitOK)
  <2>1. IInv /\ CommitOK /\ [Next]_vars => CommitOK'
    BY CommitKept
  <2> QED
    BY <1>1, <2>1, Invariance, PTL DEF Spec
<1>3. IInv /\ CommitOK /\ [Next]_vars
        => [Reported("COMMITTED") => otaState[running] = "Valid"]_vars
  BY WhoReports DEF CommitOK
<1>4. Spec => [][Reported("COMMITTED") => otaState[running] = "Valid"]_vars
  BY <1>2, <1>3, PTL DEF Spec
<1> QED
  BY <1>4 DEF CommittedIsFinal
=============================================================================

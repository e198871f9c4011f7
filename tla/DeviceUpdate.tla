---------------------------- MODULE DeviceUpdate ----------------------------
(***************************************************************************)
(* The firmware of one device: app_main and the MQTT event handler of      *)
(* main.c, the OTA worker task of main.c and ota_handler.c, over the       *)
(* ESP-IDF boot bookkeeping of OtaData.  Three actors interleave: the main *)
(* task (boot, trial, self-test), the worker task (download, validate,     *)
(* stage) and the MQTT client task (connection events and commands); power *)
(* can be lost between any two of their steps.                             *)
(*                                                                         *)
(* An image stands for the bytes of a firmware file and for their SHA-256  *)
(* digest; its length is counted in read() chunks.                         *)
(***************************************************************************)
EXTENDS OtaData

CONSTANTS
    Images,          \* the files the server may send
    Bootable,        \* those that esp_image_verify accepts
    Broken,          \* those that boot but never reach the MQTT broker
    Factory,         \* the image flashed at the bench
    Size,            \* Size[i]: the length of image i
    Commands,        \* the updates a firmware/update message may ask for:
                     \* records with the image (the digest) and the size
    Blank,           \* a slot being written, or never written
    None,            \* no command
    MaxReboots,      \* MAX_REBOOT_COUNT
    Polls,           \* polls of mqtt_connected before the self-test gives up
    RollbackEnabled, \* CONFIG_BOOTLOADER_APP_ROLLBACK_ENABLE
    Faults           \* flash areas that may fail: "nvs", "otadata"

ASSUME ImagesAssumption ==
    /\ Bootable \subseteq Images
    /\ Broken \subseteq Bootable
    /\ Factory \in Bootable \ Broken
    /\ Size \in [Images -> Nat \ {0}]
    /\ Blank \notin Images /\ None \notin Images
ASSUME CommandsAssumption ==
    /\ \A c \in Commands : c.image \in Images /\ c.size \in Nat
    /\ None \notin Commands
ASSUME BoundsAssumption ==
    /\ MaxReboots \in Nat \ {0}
    /\ Polls \in Nat
    /\ RollbackEnabled \in BOOLEAN
    /\ Faults \subseteq {"nvs", "otadata"}

VARIABLES
    \* flash
    image,          \* content of each OTA slot
    otaState,       \* state of the otadata entry of each slot
    latest,         \* slot of the newest otadata entry
    rebootCnt,      \* NVS key reboot_cnt, saturating at MaxReboots
    \* RAM of the main task
    mainPc,         \* where app_main stands; "off" is a device without power
    running,        \* esp_ota_get_running_partition()
    pendingVerify,  \* local pending_verify
    rebootCount,    \* local reboot_count, saturating at MaxReboots
    waitCount,      \* local wait_count
    \* RAM shared between tasks
    mqttConnected,  \* mqtt_connected
    queued,         \* the content of ota_queue, whose depth is 1
    report,         \* the last status this boot published
    \* RAM of the worker task
    workerPc, job, download,
    \* ghost: how often the entry staged last has been booted on trial
    trialBoots

flash  == <<image, otaState, latest, rebootCnt>>
trial  == <<pendingVerify, rebootCount, waitCount>>
worker == <<workerPc, job, download>>
vars   == <<flash, mainPc, running, trial, mqttConnected, queued, report,
            worker, trialBoots>>

Contents == Images \cup {Blank}
Reports  == {"none", "OTA_STARTING", "OTA_FAILED", "COMMITTED",
             "SELF_TEST_FAILED", "RUNNING"}
MainPcs  == {"off", "check", "judge", "wifi", "wifiRestart", "stopped",
             "selfTest", "verdict", "commit", "resetCount", "committed",
             "failed", "restart", "announce", "announcing", "idle"}
WorkerPcs == {"idle", "open", "begin", "read", "validate", "end",
              "setBoot", "reboot", "failed"}

\* esp_ota_get_next_update_partition(NULL)
Target == Other(running)

\* The slot the bootloader would pick if the device were reset now.
NextBoot ==
    Selected(IF RollbackEnabled THEN AbortPending(otaState) ELSE otaState, latest)

\* The entry the running application is judged by.
Active == Selected(otaState, latest)

NoDownload == [image |-> Factory, len |-> 0, got |-> 0]

Capped(n) == IF n < MaxReboots THEN n ELSE MaxReboots

MqttStarted == mainPc \notin {"off", "check", "judge", "wifi", "wifiRestart", "stopped"}

\* publish_status: nothing is sent without a connection.
Publish(status) == report' = IF mqttConnected THEN status ELSE report

Init ==
    /\ image = [s \in Slots |-> IF s = 0 THEN Factory ELSE Blank]
    /\ otaState = [s \in Slots |->
                     IF s = 1 THEN "Empty"
                     ELSE IF RollbackEnabled THEN "Valid" ELSE "Undefined"]
    /\ latest = 0
    /\ rebootCnt = 0
    /\ mainPc = "off" /\ running = 0
    /\ pendingVerify = FALSE /\ rebootCount = 0 /\ waitCount = 0
    /\ mqttConnected = FALSE /\ queued = None /\ report = "none"
    /\ workerPc = "idle" /\ job = None /\ download = NoDownload
    /\ trialBoots = 0

(***************************************************************************)
(* Power and the bootloader                                                *)
(***************************************************************************)

\* A reset, commanded or not, empties RAM; flash is what the caller says.
Reset ==
    /\ mainPc' = "off"
    /\ pendingVerify' = FALSE /\ rebootCount' = 0 /\ waitCount' = 0
    /\ mqttConnected' = FALSE /\ queued' = None /\ report' = "none"
    /\ workerPc' = "idle" /\ job' = None /\ download' = NoDownload
    /\ UNCHANGED running

PowerLoss ==
    /\ mainPc # "off"
    /\ Reset
    /\ UNCHANGED <<flash, trialBoots>>

\* Power is lost while an otadata entry is being rewritten: the entry's
\* sector is erased before it is written.
Rewriting(s) ==
    \/ mainPc = "commit" /\ s = Active
    \/ mainPc = "judge" /\ rebootCount >= MaxReboots /\ s = Active
    \/ workerPc = "setBoot" /\ s = Target

TornWrite(s) ==
    /\ Rewriting(s)
    /\ otaState' = [otaState EXCEPT ![s] = "Empty"]
    /\ Reset
    /\ UNCHANGED <<image, latest, rebootCnt, trialBoots>>

\* The bootloader: end an unconfirmed trial, choose a slot, start a trial if
\* its entry is new, and load its image, or the other one if it is damaged.
Boot ==
    /\ mainPc = "off"
    /\ \E s \in Slots :
         /\ image[s] \in Bootable
         /\ s = NextBoot \/ image[NextBoot] \notin Bootable
         /\ running' = s
    /\ otaState' = IF RollbackEnabled
                   THEN StartTrial(AbortPending(otaState), NextBoot)
                   ELSE otaState
    /\ trialBoots' = IF otaState'[NextBoot] = "Pending"
                     THEN Capped(trialBoots + 1) ELSE trialBoots
    /\ mainPc' = "check"
    /\ UNCHANGED <<image, latest, rebootCnt, trial, mqttConnected, queued,
                   report, worker>>

(***************************************************************************)
(* The main task: app_main                                                 *)
(***************************************************************************)

\* What nvs_flash_init leaves of reboot_cnt: it may have to erase NVS.
StoredCounts == {rebootCnt} \cup (IF "nvs" \in Faults THEN {0} ELSE {})

\* Only an image pending verification is counted.  get_reboot_count and
\* set_reboot_count ignore every NVS error: a failed read counts as 0.
CountTrial(stored) ==
    /\ otaState[running] = "Pending"
    /\ \E lost \in SUBSET ({"read", "write"}) :
         /\ lost # {} => "nvs" \in Faults
         /\ rebootCount' = Capped((IF "read" \in lost THEN 0 ELSE stored) + 1)
         /\ rebootCnt' = IF "write" \in lost THEN stored ELSE rebootCount'
    /\ pendingVerify' = TRUE
    /\ mainPc' = "judge"

\* If the state of the running image cannot be read, it is not on trial.
NoTrial(stored) ==
    /\ otaState[running] # "Pending" \/ "otadata" \in Faults
    /\ rebootCnt' = stored
    /\ mainPc' = "wifi"
    /\ UNCHANGED <<rebootCount, pendingVerify>>

CheckTrial ==
    /\ mainPc = "check"
    /\ \E stored \in StoredCounts : CountTrial(stored) \/ NoTrial(stored)
    /\ UNCHANGED <<image, otaState, latest, running, waitCount, mqttConnected,
                   queued, report, worker, trialBoots>>

\* Too many boots: esp_ota_mark_app_invalid_rollback_and_reboot.
RollBack ==
    /\ rebootCount >= MaxReboots
    /\ RollbackPossible(otaState, latest, image, Bootable)
    /\ otaState' = [otaState EXCEPT ![Active] = "Invalid"]
    /\ Reset

\* It returns if there is nothing to roll back to or otadata is not written,
\* and app_main goes on.
NoRollBack ==
    /\ \/ rebootCount < MaxReboots
       \/ ~RollbackPossible(otaState, latest, image, Bootable)
       \/ "otadata" \in Faults
    /\ mainPc' = "wifi"
    /\ UNCHANGED <<otaState, running, trial, mqttConnected, queued, report, worker>>

JudgeTrial ==
    /\ mainPc = "judge"
    /\ RollBack \/ NoRollBack
    /\ UNCHANGED <<image, latest, rebootCnt, trialBoots>>

MainStep(from, to) ==
    /\ mainPc = from
    /\ mainPc' = to
    /\ UNCHANGED <<image, latest, running, worker, mqttConnected, queued,
                   pendingVerify, rebootCount, trialBoots>>

WifiConnected ==
    /\ MainStep("wifi", IF pendingVerify THEN "selfTest" ELSE "announce")
    /\ UNCHANGED <<otaState, rebootCnt, waitCount, report>>

\* Without WiFi a trial restarts the device; otherwise app_main returns.
WifiFailed ==
    /\ MainStep("wifi", IF pendingVerify THEN "wifiRestart" ELSE "stopped")
    /\ UNCHANGED <<otaState, rebootCnt, waitCount, report>>

\* Bug: the poll count is not bounded.
PollForever ==
    /\ ~mqttConnected
    /\ MainStep("selfTest", "selfTest")
    /\ waitCount' = waitCount + 1
    /\ UNCHANGED <<otaState, rebootCnt, report>>

SelfTestPoll ==
    /\ ~mqttConnected /\ waitCount < Polls
    /\ MainStep("selfTest", "selfTest")
    /\ waitCount' = waitCount + 1
    /\ UNCHANGED <<otaState, rebootCnt, report>>

\* Bug: the loop waits for the connection without a limit.
SelfTestWaits ==
    /\ mqttConnected
    /\ MainStep("selfTest", "verdict")
    /\ UNCHANGED <<otaState, rebootCnt, waitCount, report>>

\* Bug: the image is marked valid before the verdict.
SelfTestCommits ==
    /\ mqttConnected \/ waitCount >= Polls
    /\ MainStep("selfTest", "verdict")
    /\ otaState' = [otaState EXCEPT ![Active] = "Valid"]
    /\ UNCHANGED <<rebootCnt, waitCount, report>>

SelfTestOver ==
    /\ mqttConnected \/ waitCount >= Polls
    /\ MainStep("selfTest", "verdict")
    /\ UNCHANGED <<otaState, rebootCnt, waitCount, report>>

\* Bug: every self-test passes.
VerdictAlwaysCommits ==
    /\ MainStep("verdict", "commit")
    /\ UNCHANGED <<otaState, rebootCnt, waitCount, report>>

\* Bug: the success path forgets to mark the image valid.
VerdictForgetsCommit ==
    /\ MainStep("verdict", IF mqttConnected THEN "resetCount" ELSE "failed")
    /\ UNCHANGED <<otaState, rebootCnt, waitCount, report>>

\* mqtt_connected is read again after the loop.
Verdict ==
    /\ MainStep("verdict", IF mqttConnected THEN "commit" ELSE "failed")
    /\ UNCHANGED <<otaState, rebootCnt, waitCount, report>>

\* esp_ota_mark_app_valid_cancel_rollback, whose result is ignored.  Where a
\* write of otadata fails and power stays on, the entry is taken to be as it
\* was: the error comes before the erase.
Commit ==
    /\ MainStep("commit", "resetCount")
    /\ \/ otaState' = [otaState EXCEPT ![Active] = "Valid"]
       \/ "otadata" \in Faults /\ UNCHANGED otaState
    /\ UNCHANGED <<rebootCnt, waitCount, report>>

ResetCount ==
    /\ MainStep("resetCount", "committed")
    /\ \/ rebootCnt' = 0
       \/ "nvs" \in Faults /\ UNCHANGED rebootCnt
    /\ UNCHANGED <<otaState, waitCount, report>>

ReportCommitted ==
    /\ MainStep("committed", "idle")
    /\ Publish("COMMITTED")
    /\ UNCHANGED <<otaState, rebootCnt, waitCount>>

\* Bug: a failed self-test does not restart the device.
SelfTestFailureStays ==
    /\ MainStep("failed", "idle")
    /\ Publish("SELF_TEST_FAILED")
    /\ UNCHANGED <<otaState, rebootCnt, waitCount>>

ReportSelfTestFailed ==
    /\ MainStep("failed", "restart")
    /\ Publish("SELF_TEST_FAILED")
    /\ UNCHANGED <<otaState, rebootCnt, waitCount>>

Restart ==
    /\ mainPc \in {"wifiRestart", "restart"}
    /\ Reset
    /\ UNCHANGED <<flash, trialBoots>>

\* The connection is tested once, right after the client was started, and
\* again by publish_status one second later.
Announce ==
    /\ MainStep("announce", IF mqttConnected THEN "announcing" ELSE "idle")
    /\ UNCHANGED <<otaState, rebootCnt, waitCount, report>>

ReportRunning ==
    /\ MainStep("announcing", "idle")
    /\ Publish("RUNNING")
    /\ UNCHANGED <<otaState, rebootCnt, waitCount>>

Main ==
    \/ CheckTrial \/ JudgeTrial
    \/ WifiConnected \/ WifiFailed
    \/ SelfTestPoll \/ SelfTestOver \/ Verdict
    \/ Commit \/ ResetCount \/ ReportCommitted
    \/ ReportSelfTestFailed \/ Restart
    \/ Announce \/ ReportRunning

(***************************************************************************)
(* The MQTT client task: mqtt_event_handler                                *)
(***************************************************************************)

MqttConnected ==
    /\ MqttStarted /\ ~mqttConnected
    /\ image[running] \notin Broken
    /\ mqttConnected' = TRUE
    /\ UNCHANGED <<flash, mainPc, running, trial, queued, report, worker, trialBoots>>

MqttDisconnected ==
    /\ mqttConnected
    /\ mqttConnected' = FALSE
    /\ UNCHANGED <<flash, mainPc, running, trial, queued, report, worker, trialBoots>>

\* A well-formed command is queued, or dropped if the queue is full.
MqttData(c) ==
    /\ mqttConnected
    /\ queued' = IF queued = None THEN c ELSE queued
    /\ UNCHANGED <<flash, mainPc, running, trial, mqttConnected, report, worker, trialBoots>>

Mqtt == MqttConnected \/ MqttDisconnected \/ \E c \in Commands : MqttData(c)

(***************************************************************************)
(* The worker task: ota_worker_task and ota_start_update                   *)
(***************************************************************************)

WorkerStep(from, to) ==
    /\ mainPc # "off"
    /\ workerPc = from
    /\ workerPc' = to
    /\ UNCHANGED <<rebootCnt, mainPc, running, trial, mqttConnected>>

Receive ==
    /\ queued # None
    /\ WorkerStep("idle", "open")
    /\ job' = queued
    /\ queued' = None
    /\ Publish("OTA_STARTING")
    /\ UNCHANGED <<image, otaState, latest, download, trialBoots>>

\* The server answers 200 with n chunks of image i, or none (a file being
\* replaced, or served under another name, need not be the one the command
\* announced).
Open(i, n) ==
    /\ WorkerStep("open", "begin")
    /\ download' = [image |-> i, len |-> n, got |-> 0]
    /\ UNCHANGED <<image, otaState, latest, queued, report, job, trialBoots>>

\* Bug: an update may begin while the running image is on trial.
BeginDuringTrial ==
    /\ WorkerStep("begin", "read")
    /\ UNCHANGED <<image, otaState, latest, queued, report, job, download, trialBoots>>

\* esp_ota_begin refuses while the running image is on trial.  Nothing is
\* erased yet: OTA_WITH_SEQUENTIAL_WRITES erases as it writes.
Begin ==
    /\ RollbackEnabled => otaState[running] # "Pending"
    /\ WorkerStep("begin", "read")
    /\ UNCHANGED <<image, otaState, latest, queued, report, job, download, trialBoots>>

\* One turn of the read loop that writes data: the slot is damaged until the
\* last chunk of a whole image is in it.
ReadChunk ==
    /\ download.got < download.len
    /\ WorkerStep("read", "read")
    /\ download' = [download EXCEPT !.got = @ + 1]
    /\ image' = [image EXCEPT ![Target] =
                   IF download.got + 1 = Size[download.image]
                   THEN download.image ELSE Blank]
    /\ UNCHANGED <<otaState, latest, queued, report, job, trialBoots>>

ReadComplete ==
    /\ download.got = download.len
    /\ WorkerStep("read", "validate")
    /\ UNCHANGED <<image, otaState, latest, queued, report, job, download, trialBoots>>

\* Bug: only the size is compared.
SizeMatches(d, c) == d.got = c.size

\* The size check, then the comparison with the digest of what was read.
Matches(d, c) ==
    /\ d.got = c.size
    /\ d.image = c.image /\ d.got = Size[d.image]

Validate ==
    /\ WorkerStep("validate", IF Matches(download, job) THEN "end" ELSE "failed")
    /\ download' = NoDownload
    /\ UNCHANGED <<image, otaState, latest, queued, report, job, trialBoots>>

\* esp_ota_end verifies the image that was written.
End ==
    /\ image[Target] \in Bootable
    /\ WorkerStep("end", "setBoot")
    /\ UNCHANGED <<image, otaState, latest, queued, report, job, download, trialBoots>>

\* Bug: the new entry needs no trial.
SetBootConfirmed ==
    /\ WorkerStep("setBoot", "reboot")
    /\ otaState' = [otaState EXCEPT ![Target] = "Valid"]
    /\ latest' = Target
    /\ trialBoots' = 0
    /\ UNCHANGED <<image, queued, report, job, download>>

SetBoot ==
    /\ WorkerStep("setBoot", "reboot")
    /\ otaState' = [otaState EXCEPT ![Target] =
                      IF RollbackEnabled THEN "New" ELSE "Undefined"]
    /\ latest' = Target
    /\ trialBoots' = 0
    /\ UNCHANGED <<image, queued, report, job, download>>

\* Any call of the update path may return an error.
CallFailed ==
    /\ \E from \in {"open", "begin", "read", "end", "setBoot"} :
         WorkerStep(from, "failed")
    /\ download' = NoDownload
    /\ UNCHANGED <<image, otaState, latest, queued, report, job, trialBoots>>

RestartIntoUpdate ==
    /\ mainPc # "off" /\ workerPc = "reboot"
    /\ Reset
    /\ UNCHANGED <<flash, trialBoots>>

\* Bug: a failed update is tried again at once.
RetryUpdate ==
    /\ WorkerStep("failed", "open")
    /\ Publish("OTA_FAILED")
    /\ UNCHANGED <<image, otaState, latest, queued, job, download, trialBoots>>

ReportFailed ==
    /\ WorkerStep("failed", "idle")
    /\ Publish("OTA_FAILED")
    /\ job' = None
    /\ UNCHANGED <<image, otaState, latest, queued, download, trialBoots>>

Worker ==
    \/ Receive
    \/ \E i \in Images : \E n \in 0..Size[i] : Open(i, n)
    \/ Begin \/ ReadChunk \/ ReadComplete \/ Validate \/ End \/ SetBoot
    \/ CallFailed \/ RestartIntoUpdate \/ ReportFailed

Power == Boot \/ PowerLoss \/ \E s \in Slots : TornWrite(s)

Next == Main \/ Mqtt \/ Worker \/ Power

Spec == Init /\ [][Next]_vars

\* FreeRTOS schedules every ready task, the bootloader runs after a reset,
\* and every blocking call returns (WiFi after its retries, HTTP after its
\* 30 s timeout).  Nothing is assumed of the broker or of the power supply.
Fairness == WF_vars(Boot) /\ WF_vars(Main) /\ WF_vars(Worker)

FairSpec == Spec /\ Fairness

(***************************************************************************)
(* Properties                                                              *)
(***************************************************************************)

\* Every variable of the model of main.c and ota_handler.c keeps its type.
TypeOK ==
    /\ image \in [Slots -> Contents]
    /\ otaState \in [Slots -> EntryStates]
    /\ latest \in Slots
    /\ rebootCnt \in 0..MaxReboots
    /\ mainPc \in MainPcs
    /\ running \in Slots
    /\ pendingVerify \in BOOLEAN
    /\ rebootCount \in 0..MaxReboots
    /\ waitCount \in 0..Polls
    /\ mqttConnected \in BOOLEAN
    /\ queued \in Commands \cup {None}
    /\ report \in Reports
    /\ workerPc \in WorkerPcs
    /\ job \in Commands \cup {None}
    /\ download \in [image : Images, len : Nat, got : Nat]
    /\ trialBoots \in 0..MaxReboots

Undecided(s) == otaState[s] \in {"New", "Pending"}

\* The slot a reset would boot holds a whole, valid image.
BootableNext == image[NextBoot] \in Bootable

\* While the selected image is not confirmed, the other slot holds a whole
\* image that is.
FallbackIntact ==
    LET fallback == Other(Active)
    IN  Undecided(Active) => /\ otaState[fallback] = "Valid"
                             /\ image[fallback] \in Bootable

\* Bad firmware never bricks the device: wherever power is lost, in a
\* download, a trial, a commit or a torn otadata write, the bootloader finds
\* a whole image, and an unconfirmed one has a confirmed one to fall back to
\* (ota_handler.c writes the inactive slot only, main.c confirms last).
NeverBricked == BootableNext /\ FallbackIntact

\* An image that cannot reach the broker is never the confirmed one: main.c
\* confirms only after the self-test.
BrokenNeverConfirmed ==
    RollbackEnabled /\ otaState[Active] = "Valid" => image[Active] \notin Broken

\* ota_start_update stages exactly what the command it serves asked for:
\* the bytes in the slot have the announced size and digest, whatever the
\* server sent and however the download ended.
OnlyVerifiedStaged ==
    [][\A s \in Slots :
         otaState'[s] # otaState[s] /\ otaState'[s] \in {"New", "Undefined"} =>
           /\ job # None
           /\ image[s] = job.image
           /\ Size[job.image] = job.size]_vars

Reported(status) == report # status /\ report' = status

\* A failure report is true of flash when it leaves: SELF_TEST_FAILED of an
\* image the next reset drops, OTA_FAILED of a device whose selected image is
\* still the running one ("device remains on", main.c).
FailureReportsTruthful ==
    [][/\ Reported("SELF_TEST_FAILED") => NextBoot # running
       /\ Reported("OTA_FAILED") => Active = running]_vars

\* COMMITTED is only said of an image whose entry is confirmed: "bootloader
\* will no longer roll back" (main.c:339).
CommittedIsFinal ==
    [][Reported("COMMITTED") => otaState[running] = "Valid"]_vars

\* Every staged image is confirmed or dropped, whatever crashes, lost
\* connections and commands come in between: a trial never stays open.
TrialDecided == \A s \in Slots : Undecided(s) ~> ~Undecided(s)

\* A device that boots an image that cannot reach the broker returns to one
\* that can.
BrokenRecovered ==
    (mainPc # "off" /\ image[running] \in Broken)
        ~> (mainPc # "off" /\ image[running] \notin Broken)

\* The worker always gets back to its queue (or the device reboots): no
\* answer of the server leaves an update running for ever.
WorkerReturns == workerPc # "idle" ~> workerPc = "idle"

(***************************************************************************)
(* The device implements TrialCommit.  The confirmed image is the selected *)
(* one, or its fallback while the selected one is undecided.               *)
(***************************************************************************)
ConfirmedImage == IF Undecided(Active) THEN image[Other(Active)] ELSE image[Active]
CandidateImage == IF Undecided(Active) THEN image[Active] ELSE None

Abstract == INSTANCE TrialCommit
                WITH confirmed <- ConfirmedImage, candidate <- CandidateImage,
                     NoCandidate <- None

\* Staging, booting, committing and rolling back never do more to the
\* confirmed and the candidate image than TrialCommit allows, and always
\* decide the candidate.
ImplementsTrialCommit == Abstract!Spec

(***************************************************************************)
(* What a comment says and the code does not do                            *)
(***************************************************************************)

\* main.c:298-302: a trial is invalidated after MAX_REBOOT_COUNT failures of
\* the image being tried.
CountBelongsToTrial == mainPc = "judge" => rebootCount <= trialBoots
=============================================================================

# Verification of Three-Body OTA

Three-Body OTA updates ESP32 devices over the air: a FastAPI backend stores
signed firmware and announces it over MQTT; the device downloads the announced
version over HTTP into its inactive slot, verifies size and SHA-256, boots it
on trial, and confirms it once it reaches the broker or falls back to the old
slot. This directory holds the TLA+ models of that system, the TLC
configurations that check them and the proofs TLAPS checks.

Paths without a directory (`main.c:336`) are under `src/firmware/main/`, or are
`src/backend-and-dash/main.py`.

## Inventory

| component | source | state | operations | talks to |
|---|---|---|---|---|
| Boot, trial, self-test | `main.c` `app_main` | NVS `reboot_cnt`; locals `pending_verify`, `reboot_count`, `wait_count` | check trial, judge it, WiFi, self-test, commit or restart, announce | bootloader and otadata (flash), WiFi (call), MQTT task (`mqtt_connected`) |
| MQTT event handler | `main.c` `mqtt_event_handler` | `mqtt_connected`, `ota_queue` (depth 1) | connected, disconnected, command | broker (events), worker (queue), main task (flag) |
| OTA worker | `main.c` `ota_worker_task`, `ota_handler.c` | the command, the download, the inactive slot, otadata | request, `esp_ota_begin`, read and write, validate, `esp_ota_end`, set boot, restart, or fail | backend (HTTP), flash, broker (status) |
| Bootloader and otadata | ESP-IDF (external); `partition.csv`, `sdkconfig` | one otadata entry per slot | select a slot, start a trial, abort one | device flash |
| WiFi station | `wifi.c` | `s_retry_num`, two event bits | event handler, blocking initialisation | radio (events), main task (event group) |
| Firmware registry | `main.py` | `registry.json`, firmware files | upload, delete, download, list | clients (HTTP), publisher (call) |
| Upload validation | `main.py` | none | schema, file name, token, Ed25519 | registry |
| MQTT publisher | `main.py` `MQTTPublisher` | `_connected`, paho client and its thread | connect, publish, disconnect | broker |
| Firmware signer | `cli-tool/src/main.rs` | key and metadata files | metadata, sign, verify, keygen | files the backend is sent |
| Dashboard | `streamlit/app.py` | status rows under a lock, a cached listener | message, reconnect, render | broker |
| Broker and ACL | `mosquitto/config` | sessions, access rules | publish, deliver with QoS 1 | everyone |
| Deployment, tests, docs | compose files, `test_ota.sh`, `tests/`, `*.md` | | | |

What makes each correct, and what is hard about it:

- **Device.** Three tasks interleave over two slots, two otadata entries, a
  counter and a flag, and power may fail between any two flash writes or in
  the middle of one. It must always boot something whole, keep a confirmed
  fallback while it tries a new image, never confirm one that cannot connect,
  stage only what was verified, tell the truth in its status reports, and end
  every trial.
- **WiFi.** Events are handled later than they happen and one retry counter
  serves both the first connection and every later one. No disconnection may
  be forgotten, and the blocking initialisation must return.
- **Registry.** Every file operation is awaited, so handlers interleave on
  copies of the registry, and a restart may cut any of them. Registry, files
  and answers must agree.
- **Publisher.** The main thread, paho's network thread and one worker thread
  per upload share `_connected` without a lock. The answer to an upload must not
  claim more than paho keeps, nothing kept may be dropped, every upload must be
  answered.
- **Dashboard.** Every browser session runs one script over one shared store and
  one cached listener, which any of them may replace. The cached listener must
  live, rows must not go back, Reconnect must help.
- **The whole.** Announcements are lost, delayed and repeated; versions are
  deleted and uploaded again meanwhile. What is announced must be there, what
  was withdrawn must not be installed.
- **Signer, validation.** Signer and backend must agree on the canonical
  payload; keygen writes two files.

`PROJECT.json` lists the same components, and every hazard at its line with
the properties that cover it.

## Modules

| module | what it is |
|---|---|
| `OtaData` | external: how the bootloader and `esp_ota_*` read and rewrite otadata |
| `DeviceUpdate` | the device: `main.c`, `ota_handler.c`, power and bootloader |
| `TrialCommit` | what A/B updating promises, without slots, boots or tasks |
| `MCDeviceUpdate` | images and commands of the device runs |
| `DeviceUpdateProofs` | theorems about `DeviceUpdate` |
| `TrialCommitProofs` | that `DeviceUpdate` implements `TrialCommit`, and what it reports |
| `WifiSta` | `wifi.c`; small enough to be run as it is |
| `WifiStaProofs` | theorems about `WifiSta` |
| `FirmwareRegistry` | the handlers of `main.py` over registry and files |
| `VersionStore` | what the registry promises, without handlers, files or saves |
| `MCFirmwareRegistry` | versions, files and requests of the registry runs |
| `FirmwareRegistryProofs` | theorems about `FirmwareRegistry` and `VersionStore` |
| `MqttPublisher` | `MQTTPublisher` of `main.py` over paho; run as it is |
| `Announcements` | what the publisher promises of an announcement |
| `MqttPublisherProofs` | theorems about `MqttPublisher` |
| `StatusBoard` | `streamlit/app.py` and the device's heartbeats; run as it is |
| `StatusBoardProofs` | theorems about `StatusBoard` |
| `OtaSystem` | backend, broker and device together |
| `MCOtaSystem` | the uploads of the composition's run |
| `OtaSystemProofs` | theorems about `OtaSystem`, with those of its device |

How they fit: `DeviceUpdate` implements `TrialCommit`, `FirmwareRegistry`
implements `VersionStore`, `MqttPublisher` implements `Announcements`, each
checked as a PROPERTY. `OtaSystem` composes `DeviceUpdate` itself (its actions,
by INSTANCE) with handlers of the backend that overlap and an outbox that behaves
as the one of `Announcements`. It does not use `VersionStore`, which only serial
writers implement.

### DeviceUpdate

State: flash (`image`, `otaState`, `latest`, `rebootCnt`), the main task
(`mainPc` and `app_main`'s locals), what the tasks share (`mqttConnected`,
`queued`, the last `report`), the worker (`workerPc`, `job`, `download`), and
the ghost `trialBoots`. One action is one stretch of code between two points
where another task, or a power cut, can be noticed: `CheckTrial`, `JudgeTrial`,
... , `ReportRunning` follow `app_main` line by line; `Receive` to
`ReportFailed` follow `ota_worker_task` and `ota_start_update`, `CallFailed`
being every error return; `MqttConnected`, `MqttDisconnected`, `MqttData` are
the cases of the event handler. `PowerLoss` may strike at any moment,
`TornWrite` in the three places that rewrite an otadata entry, whose sector is
erased first. `Faults` says which flash areas may fail. With `"nvs"`, the count
may be unreadable or unwritable (`get_reboot_count`, `set_reboot_count`), or gone
because `app_main` had to erase NVS (`StoredCounts`). With `"otadata"`, the state
of the running image may be unreadable (`NoTrial`), the invalidation of
`main.c:309` may return and `app_main` go on (`NoRollBack`), and the commit may
write nothing; all of that is ignored, as in the code. A write that fails while
power is on is taken to leave its entry as it was, an error before the sector is
erased; an erase without the write that follows it is `TornWrite`, with power
lost. That matters: had a commit erased the entry of the running image and
then failed with power on, the device would go on from a slot that is no longer
selected, and the next update would erase the one that is.

An image stands for the bytes of a file and for their digest; a slot holds a
whole image or `Blank`. The server may send any image, whole, cut or empty,
whatever was announced. `Broken` images boot but never get `MQTT_EVENT_CONNECTED`.
`RollbackEnabled` is `CONFIG_BOOTLOADER_APP_ROLLBACK_ENABLE`. Left out: the
heartbeat loop, which changes nothing on the device (`StatusBoard` has it); JSON
parsing (a malformed payload changes nothing); the time constants, which appear as the bound `Polls` and as fairness.
`WifiConnected` and `WifiFailed` stand for `wifi_init_sta`, which `WifiSta`
models.

### WifiSta

The event queue, the handler and `wifi_init_sta`, against a radio and access
point that may change at any moment. `DhcpAnswers` says whether a joined access
point hands out addresses; `InitReturns` holds only if it does.

### FirmwareRegistry

Each client's handler is a program counter over the awaits of `upload_firmware`,
`delete_firmware` and `download_firmware`, with its own `snapshot` of the
registry. `SaveOpen` truncates `registry.json` and `SaveWrite` writes it later:
in between, `_load_registry` finds text that does not parse and returns `{}`.
Two saves that overlap write from the start of the same file; what is left
depends on their lengths (`Overwrites`, `LeavesTail`). An unlinked file that a
handler still has open is an orphan (`lost`). The ghost `acked` holds what
clients were told, and `interrupted` remembers that a restart or a failed save cut
a handler off; from then on only `NeverCorrupt` and the refinement are claimed.
Reading the registry or a file is assumed not to fail. The body of an upload
reaches the disk in one step (`Stream`): until then its file is short, as it is
while the code writes it in pieces, and nobody tells one short file from another.

A behaviour has one of two settings: `serial`, where writers wait for each
other but anything may be cut off, and `overlapping`, where they overlap freely
and run to their end.

`ImplementsVersionStore` maps the store to one function from versions to
files (`Registered`): while `registry.json` is being saved it is the copy of the
handler that saves it. So the six or more steps of an upload or a delete are one
step of `VersionStore`, and a restart in the middle of a save is `LoseAll`.

### MqttPublisher

Program counters for the main thread (`lifespan`: `connect`, then `disconnect`),
and for the worker thread of each upload (`_publish_sync`); paho's thread is
`Detect`, `OnDisconnect`, `Reconnect`, `Transmit`, `Acknowledged`. A broken
connection is noticed later than it breaks (`link = "broken"`), the flag
later than that. paho keeps a QoS 1 message until it is acknowledged, across
reconnections; `publish` without a socket keeps the message too, but its
`wait_for_publish` raises, so the upload is told `False` of an announcement that
is sent later. `Waited` is both ways `wait_for_publish` returns, since the code
does not tell them apart. A stop without the flag leaves the network thread
running until the process ends, as in `disconnect()`.

### StatusBoard

A session is a program counter over the script of `app.py` and its variable
`listener`; `Listener` is the cached `start_mqtt_listener`, whose failure is
not cached; the button is `Run(s, TRUE)`, then `LoopStop`, `Disconnect`,
`Clear`, `Start`. Clearing the cache forgets whatever is cached, also what
another session has just put there; the ghost `leaked` remembers that. A
heartbeat is a number; a row is the number it shows. Streamlit may also
stop a script between two statements; that is not modelled.

### OtaSystem

An upload is a record of version, image and size, and its announcement carries
the same. The backend works on as many uploads and deletes at once as there are
`Handlers`. Of each there remain the steps others can notice: it takes its copy
of the registry (`LoadUpload`, `LoadDelete`), and much later opens the registry
(`SaveUpload`; `Unlink` before `SaveDelete`) and writes that copy (`SaveWrite`),
whatever others have saved in between; an upload is announced last (`Announce`).
`LoadOther` and `SaveOther` are a handler of a version that is not in `Uploads`:
its save, too, is of the copy it took. There is no lock in the code and none here.

`truncated` is the registry between `open(..., "w")` and the write: downloads and
other handlers find it empty. `stale` marks a copy that is older than another
handler's save. The ghost `withdrawn` holds what the clients can no longer get: an
upload whose delete has begun, and what a save took from the registry without
meaning to, because it was cut off, met another write in the file
(`LosesRegistry`), or wrote a stale copy. The last is the limitation the
repository's README:315 names: two uploads that overlap may remove an announced
version for good. A save of a copy that is not stale withdraws nothing, and if it
did, `AnnouncedDownloadable` would not hold. An upload is brought to its save once.

The broker forwards what the publisher keeps at least once, to the device only
while it is connected, and the session ends with the connection. The device is
the whole of `DeviceUpdate`, torn writes included, with `Open` restricted to what
the backend serves at that moment.

## Runs that pass

| run | question | instance |
|---|---|---|
| `DeviceUpdateSafety` | safety of the device with rollback, failing flash | 4 images (factory, good, broken, not an application), 4 commands, one with a wrong size; a trial count up to 2; 3.8 M states |
| `DeviceUpdateLiveness` | trials end, broken images are left, the worker returns; implements `TrialCommit` | 3 images of one chunk, 2 commands, 2 boots, flash that works; 261 k states |
| `WifiSta` | no disconnection forgotten, initialisation returns | the real limit of 10 retries; 330 states |
| `Registry` | registry, files and answers agree, implement `VersionStore`; no restart, full disk or overlap puts other bytes behind a version | 2 clients (symmetric), 2 versions, 2 files, readers at any moment, both settings; 1.5 M states |
| `MqttPublisher` | implements `Announcements`, delivers what it keeps, answers every upload of a server that is not killed | 2 uploads, network, stops, kills and starts without bound; 7 k states |
| `StatusBoard` | the cached listener lives, rows advance, Reconnect heals | 2 sessions, 3 clients, 2 heartbeats, network without bound; 60 k states |
| `OtaSystem` | what is announced can be downloaded until it is withdrawn, what is withdrawn is not installed | one version uploaded with one image, deleted, uploaded with another, by 2 handlers that overlap (symmetric), among saves of other versions; restarts, power cuts and torn writes without bound; 1.3 M states |

Why the bounds are enough. Two slots are all the device has. One image per
kind, and a second good one (`f`), is enough because actions tell images apart
only by equality, size, `Bootable` and `Broken`; two chunks are the least that
leave a slot half written; the trial counter saturates at `MaxReboots`, where
the code only compares it, and a limit of 2 already has a boot before it and one
at it (`StaleRebootCount` uses the real 3); one poll separates the loop from its
exit; the proofs remove these bounds for safety. The liveness run gives every
image one chunk, because its question is which trials end and not how many bytes
they took. In the registry two clients meet in every pair of
steps, and no handler looks at a third one's state; two versions and two files
give every case of equal or different version and content.

Two uploads let the publisher's threads meet; they share only the flag and
paho. Two sessions let one clear what the other holds, stops or has just
created, and two heartbeats are the least that can arrive in the wrong order; a
third client is needed while two sessions each hold one, and `Begins` starts a
script only while the clients suffice.

In `OtaSystem` two uploads of one version are the case where a stale announcement
meets other bytes under its name, and where one upload's save removes the other
from the registry. Two handlers make every pair of steps meet: an upload with an
upload, a delete, or an upload or delete of another version (`op` "other", whose
stale copy withdraws what it does not have). A copy is stale after one save or
after ten. One message between broker and device suffices, since a second one
waits in the outbox and is sent again from there. `FewUnderWay` keeps at most two
announcements under way at once, one for each upload; `FirstUpdate` follows the
device to its first restart into an update, from where it goes on with an empty
queue and no session in the other slot; `View` leaves out the last report and how far `app_main` is when
only reports remain, which nothing reads. The device has one chunk per image, no
trials and working flash: those are questions of the device's own runs. The
proofs have none of these bounds.

### Fairness

`DeviceUpdate!Fairness` asks weak fairness of the bootloader, of the main task
and of the worker: FreeRTOS runs every ready task, and each blocking call
returns (`wifi_init_sta` after its retries, the HTTP client after its 30 s
timeout). Nothing is asked of the broker, the server's content or the power
supply, so the device may lose power for ever; `TrialDecided` and
`BrokenRecovered` hold nevertheless because a reset itself ends a trial.
`WifiSta` asks it of the radio (it reports the outcome of what it was asked), the
event loop and the main task, never of the access point.
`MqttPublisher` asks it of each thread (`connect` and `wait_for_publish` have
time limits) and of paho's steps while it is connected; nothing of the network,
of uploads, of stops and kills, nor that a server which stopped is started again
(`Start`); so `UploadsAnswered` is about servers that are not killed.
`StatusBoard` asks that a script which runs goes on and that paho's threads run; nothing of the network, the device or the users.
`FirmwareRegistry` and `OtaSystem` have safety properties only.

That `wifi_init_sta` returns is an assumption of `DeviceUpdate` which `WifiSta`
discharges only when the access point hands out addresses.

## Disagreements found

Each of these runs checks one statement of a comment, document or test, and
TLC shows the code doing otherwise. `PROJECT.json` quotes both sides.

| run | what happens |
|---|---|
| `CommittedBuildStuck` | the committed `sdkconfig` has rollback off: a device stays on an image that cannot connect |
| `StaleRebootCount` | the reboot counter is not reset when a trial is dropped; after enough failed updates a good image is rejected at its first boot |
| `WifiOutage` | after 10 failed retries the station never tries again |
| `AnnouncementSkipped` | after one lost connection `_connected` stays false and no upload is announced until the server restarts |
| `TwoWinners` | overlapping uploads of one version are both acknowledged |

Others were met while modelling and have no run of their own.

- Device: an unconfirmed image is rolled back at its next reset and not at its
  third boot (`TEST_EDGE_CASES.md`, Test 5.1). `COMMITTED` is published even if the
  otadata write of the commit failed (`main.c:340`; `CommittedIsFinal` holds with
  flash that works). A command that arrives during an update is queued, not
  dropped (`main.c:197-199` says dropped). `RUNNING` is reported only if MQTT
  connects before `esp_mqtt_client_start` has returned and been tested
  (`main.c:353`); `test_ota.sh:261-264` waits for it. Without an address
  `wifi_init_sta` never returns (`wifi.c:86`; `InitReturns` with
  `DhcpAnswers = FALSE`).
- Backend: overlapping uploads or deletes lose an acknowledged and announced
  version for good, even of different versions (a limitation the repository's
  README:315 names; `OtaSystem` has it as a withdrawal). An upload cut off by a
  restart or a full disk while
  another of the same version and file was just registered leaves that version
  with other bytes; devices reject them by digest. A download during another
  version's save gets 404, and the device does not ask again. Versions whose
  sanitised names collide (`1.0+1`, `1.0_1`) share a file.
- Dashboard: statuses go to `firmware/status` (`main.c:88`), the dashboard
  subscribes to `device/+/status` only (`app.py:29`), so `COMMITTED` and its
  colours are never shown. Two sessions that press Reconnect at once may leave a
  listener running that nobody can stop (`leaked`), and rows may then go back.
- Signer: `json.dumps` escapes non-ASCII text and `serde_json` does not, so the
  "identical canonical bytes" of the repository's README:171 differ for a version
  string that has any.

## Proofs

`DeviceUpdateProofs` proves, for any images, commands, bounds and fault sets and
for both builds, under the named assumptions of `DeviceUpdate`
(`ImagesAssumption`, `CommandsAssumption`, `BoundsAssumption`):

- `TypeCorrect`: `Spec => []TypeOK`
- `DeviceNeverBricked`: `Spec => []NeverBricked`
- `DeviceBrokenNeverConfirmed`: `Spec => []BrokenNeverConfirmed`
- `DeviceOnlyVerifiedStaged`: `Spec => OnlyVerifiedStaged`

`NeverBricked` speaks of flash alone and is not inductive: whether the inactive
slot may be written depends on the tasks. The invariant `IInv` adds

- `EntriesOK`: only the newest entry can be undecided and one entry is
  selectable, so the slot a reset boots is known;
- `ImagesOK`: what lies behind the selected entry and, in a trial, behind its
  fallback;
- `RunningOK`: the running image is the selected one until a newer one is staged,
  so the slot the worker writes is never the selected one;
- `MainOK`: wherever `app_main` judges, confirms or restarts a trial, the
  running image is on trial, and an image that connected is not broken;
- `WorkerOK`: while the running image is on trial the worker stands before
  `esp_ota_begin`, which refuses; what it has written is what it claims.

Each action is a lemma; flash is handled once, by lemmas for an entry dropped,
a slot written, and the bootloader's rewriting of the entries, which the actions
cite. `IInv` was checked with TLC for both builds before it was proved. The proofs are
also what covers the safety of the build without rollback, which is the one
`sdkconfig` makes.

`WifiStaProofs` proves, for every retry limit and with or without addresses
(`RetryAssumption`), `WifiTypeCorrect`, `WifiNeverForgotten` and
`WifiFailedIsFinal`: `TypeOK`, `NeverForgotten`, `FailedIsFinal` always hold.
None is inductive: the event queue could hold anything. `QueueOK` lists the five
queues that occur and what each says of the link; `FailLast` says that once the
failure bit is set nothing is under way.

`MqttPublisherProofs` proves, for any finite set of uploads, `PublisherTypeCorrect`
(`Spec => []TypeOK`) and `PublisherImplements` (`Spec => ImplementsAnnouncements`).
The invariant adds to `TypeOK` that there is no network thread before
`loop_start` (`NoThreadYet`) and that a thread which waits has its message with
paho or the broker and only a finished one has answered (`WaitingKept`). Each
group of actions is then a step of `Announcements` or leaves its variables.

`TrialCommitProofs` builds on `IInv`:

- `DeviceImplementsTrialCommit` (assuming `RollbackEnabled`):
  `Spec => Abstract!Init /\ [][Abstract!Next]_(Abstract!vars)`, the safety part of
  `ImplementsTrialCommit`. Without rollback there is no candidate to speak of: a
  staged image is the confirmed one at once. Each way of rewriting an entry has a
  lemma that says which step of `TrialCommit` it is; a torn otadata write drops
  the candidate or does not show.
- `DeviceFailureReportsTruthful`: `Spec => FailureReportsTruthful`, all faults and
  both builds included.
- `DeviceCommittedIsFinal` (assuming `"otadata" \notin Faults`): `Spec =>
  CommittedIsFinal`. Between `esp_ota_mark_app_valid_cancel_rollback` and the
  report nothing may take the confirmation back (`CommitOK`). The hypothesis is
  needed: `app_main` ignores what that call returns.

`FirmwareRegistryProofs` proves, for any clients, versions, files, requests, and
either setting or both (`NamesAssumption`, `RequestsAssumption`):

- `RegistryTypeCorrect`, `AckedVersionsRegistered`: `TypeOK`, `AckedRegistered`
- `RegistryImplementsVersionStore`: `Spec => ImplementsVersionStore`
- `SeriallyOneFilePerVersion` (no overlapping writers): `OneFilePerVersion`, which the run
  `TwoWinners` refutes for writers that do overlap
- with `NamesDistinct`: `RegisteredVersionsDownloadable`, `RegisteredNeverCorrupt`,
  `DownloadsServedAsRegistered`: `RegisteredDownloadable`, `NeverCorrupt` and
  `ServedAsRegistered`; `NeverCorrupt` of overlapping writers needs no such hypothesis

None of these is inductive: they speak of a store nobody is writing. `IInv` says
what holds while a handler is at work. With serial writers there is one of them
(`OneWriter`), its `snapshot` is the registry (`CopyOK`), `registry.json` is in
pieces only while it is saved (`RegistryOK`), and what clients were told differs
from it by the change being saved at most (`AckedOK`). With overlapping writers,
a file that is not what its name says still has an upload at work on it that
will find out (`BrokenOwned`). `FilesOK` adds the files: that of a registered version
is whole, or missing because a delete is, or was cut off, on its way. `Registered`
is a CHOOSE over the handlers that save; `RegisteredReads` says once what it reads.
`NamesDistinct` (no two versions have one sanitised name) is a hypothesis about
the versions in use, not a fact about the code: `main.py:161` maps `1.0+1` and
`1.0_1` to one name. `Registry.cfg` makes the same choice (`SafeVersion <- Distinct`).

`StatusBoardProofs` proves, for any sessions and listeners, `BoardTypeCorrect`,
`BoardCachedAlive` and `BoardRowsAdvance`. `CachedAlive` is inductive with
`TypeOK`: who stops a listener holds it, and no other session's creation or
clearing can put it back. `RowsAdvance` needs more: until a running listener is
cleared, only the cached one has a network thread (`OneLive`); a listener that was
stopped stays stopped (`StoppedStay`); messages are handled in the order they
were published (`InOrder`) and none that waits is older than the row
(`NewerThanRow`).

`OtaSystemProofs` proves of the whole system, for any images, any uploads and any
number of announcements in flight (`UploadsAssumption`; `DeviceAssumption`, which
restates the assumptions of `DeviceUpdate`):

- `SystemTypeCorrect`, `SystemAnnouncedDownloadable`, `SystemWithdrawnNotInstalled`:
  `TypeOK`, `AnnouncedDownloadable`, `WithdrawnNotInstalled`
- `SystemDevice`: `Spec => Device!Spec`. What the broker delivers was announced and
  what the backend serves was uploaded, so every step of the system is one of
  `DeviceUpdate` or leaves the device alone.
- `SystemNeverBricked`: `Spec => []Device!NeverBricked`. The theorems of
  `DeviceUpdateProofs` are instantiated (`Facts`), not proved again;
  `DeviceUpdateAssumptions` discharges what they assume.

The last two properties are about handlers that overlap without any order.
`StoreOK` is what remains true of registry, files and copies: an upload that
reached its save is known for ever, by its file or as withdrawn (`Known`);
registry and copies name only such uploads (`Entries`); the registry agrees with
the files that are not withdrawn, or is empty and being saved (`RegistryOK`,
`Agrees`); a copy that is not stale is the registry, and what is saved of it agrees
with the files (`CopyOK`); its handler saves alone, and an upload has one handler
(`Apart`). So a save can take from the registry what is announced only if its
copy is stale, and then it withdraws it. `AnnouncedOK` says that nobody announces an
upload before its save has been written, so a registry that is empty just now is
being saved for something else (`AnnouncedFound`). `SessionOK` is the broker's
session; a device step adds nothing to what is under way (`UnderWayShrinks`).
`LateOK` follows a download that was asked for too late: the registry serves
another image for that version, which cannot pass the digest check. All of these
were checked with TLC before they were proved. `HandlingAssumption` says that
`None` is no record.

An assumption that says `None` is no image, no command and no upload is about the
models, not the code: `None` stands for a null pointer, an empty queue or a missing
registry entry.

Only model-checked, because the prover has no rule for it: liveness under
fairness and what rests on ENABLED, that is `TrialDecided`, `BrokenRecovered`,
`WorkerReturns`, the fairness part of `ImplementsTrialCommit`, `KeptDelivered`,
`UploadsAnswered`, `InitReturns`, `JoinsSteadyAp` and `ReconnectHeals`.

## Not modelled, and the plan

- **Firmware signer** (`cli-tool/src/main.rs`): a one-shot, sequential command
  whose only state are the files it reads and writes; what could be wrong with it
  is formatting and cryptography. `keygen`'s two writes are listed as a hazard.
- **Upload validation**: schema, file name, token and Ed25519 are checks of one
  request before it touches the store; the requests of `FirmwareRegistry` are
  those that pass.
- **Access control, TLS, deployment**: configuration, without behaviour over time.
- The list handlers only read; rendering, formatting and logging change nothing
  another part sees.

Next: the remaining theorems about the device (`BrokenNeverConfirmed`,
`OnlyVerifiedStaged`, `DeviceImplementsTrialCommit`) for the device of `OtaSystem`, as
`SystemNeverBricked` does; the outbox of `OtaSystem` against `Announcements`.

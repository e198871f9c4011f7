----------------------------- MODULE OtaSystem -----------------------------
(***************************************************************************)
(* An update from upload to restart: the backend's handlers over registry  *)
(* and files, its publisher (Announcements, which MqttPublisher            *)
(* implements), the broker's session of one device, and that device        *)
(* (DeviceUpdate, as it is).  The backend restarts, its handlers overlap,  *)
(* the device loses power and connection, versions are deleted and         *)
(* uploaded again while their announcements are under way.                 *)
(*                                                                         *)
(* An upload is a record of version, image and size; its announcement      *)
(* carries the same three (main.py:410-414), so one record stands for both.*)
(* Of a handler there remain the steps the rest of the system can notice:  *)
(* it takes its copy of the registry, and saves that copy much later,      *)
(* whatever other handlers have saved in between.                          *)
(***************************************************************************)
EXTENDS Integers, Sequences

CONSTANTS
    Images, Bootable, Broken, Factory, Size, Blank, None,
    MaxReboots, Polls, RollbackEnabled, Faults,
    Uploads,     \* the uploads of a behaviour, each brought to its save once
    Handlers,    \* bound: uploads and deletes the backend works on at once
    MaxInFlight  \* bound: announcements between broker and device

\* An upload is its version and its image: the size is that of the image.
ASSUME UploadsAssumption ==
    /\ \A u \in Uploads : u.image \in Images /\ u.size = Size[u.image]
    /\ \A u, w \in Uploads : u.version = w.version /\ u.image = w.image => u = w
    /\ None \notin Uploads
    /\ MaxInFlight \in Nat \ {0}

\* The assumptions of DeviceUpdate.
ASSUME DeviceAssumption ==
    /\ Bootable \subseteq Images /\ Broken \subseteq Bootable
    /\ Factory \in Bootable \ Broken
    /\ Size \in [Images -> Nat \ {0}]
    /\ Blank \notin Images /\ None \notin Images
    /\ MaxReboots \in Nat \ {0} /\ Polls \in Nat
    /\ RollbackEnabled \in BOOLEAN /\ Faults \subseteq {"nvs", "otadata"}

Versions == {u.version : u \in Uploads}

VARIABLES
    \* the device, as in DeviceUpdate
    image, otaState, latest, rebootCnt, mainPc, running, pendingVerify,
    rebootCount, waitCount, mqttConnected, queued, report, workerPc, job,
    download, trialBoots,
    \* the backend
    versions,   \* registry.json as _load_registry reads it
    truncated,  \* registry.json was opened to be saved, and not written since
    files,      \* uploads whose firmware file exists
    handler,    \* the upload or delete each handler is at, with its locals
    outbox,     \* announcements the publisher keeps
    \* the broker
    inbox,      \* announcements on their way to the device
    \* ghosts
    withdrawn,  \* uploads taken from the clients, on purpose or not: see below
    late        \* the worker asked for its file only after it was withdrawn

device  == <<image, otaState, latest, rebootCnt, mainPc, running,
             pendingVerify, rebootCount, waitCount, mqttConnected, queued,
             report, workerPc, job, download, trialBoots>>
store   == <<versions, truncated, files, withdrawn>>
backend == <<store, handler, outbox>>
vars    == <<device, backend, inbox, late>>

Device == INSTANCE DeviceUpdate WITH Commands <- Uploads

Nothing    == [v \in Versions |-> None]
Registries == [Versions -> Uploads \cup {None}]

Init ==
    /\ Device!Init
    /\ versions = Nothing /\ truncated = FALSE /\ files = {}
    /\ handler = [h \in Handlers |-> None]
    /\ outbox = {} /\ inbox = <<>>
    /\ withdrawn = {} /\ late = FALSE

(***************************************************************************)
(* The backend: uploads and deletes, as many at once as there are handlers *)
(*                                                                         *)
(* op "other" is an upload or a delete of a version that is not in         *)
(* Uploads.  stale: another handler has opened the registry to save it     *)
(* since this one took its copy, or was saving it then.                    *)
(***************************************************************************)
Handling ==
    [op : {"upload", "delete", "other"}, upload : Uploads \cup {None},
     at : {"loaded", "unlinked", "saving", "saved"}, copy : Registries, stale : BOOLEAN]

\* None is no record.
ASSUME HandlingAssumption == None \notin Handling

Idle(h) == handler[h] = None
At(h, op, pc) == ~Idle(h) /\ handler[h].op = op /\ handler[h].at = pc
Saving == {h \in Handlers : ~Idle(h) /\ handler[h].at = "saving"}
Uploading(u) == \E h \in Handlers : ~Idle(h) /\ handler[h].op = "upload" /\ handler[h].upload = u

Goto(h, pc) == handler' = [handler EXCEPT ![h].at = pc]
Ends(h) == handler' = [handler EXCEPT ![h] = None]

BackendStep == UNCHANGED <<device, inbox, late>>

\* The handler takes its copy of the registry, and works on that.
Load(h, op, u) ==
    /\ Idle(h)
    /\ handler' = [handler EXCEPT ![h] =
                     [op |-> op, upload |-> u, at |-> "loaded",
                      copy |-> versions, stale |-> Saving # {}]]
    /\ UNCHANGED <<store, outbox>>
    /\ BackendStep

\* The version is not in the registry.
LoadUpload(h, u) ==
    /\ versions[u.version] = None
    /\ u \notin files \cup withdrawn /\ ~Uploading(u)
    /\ Load(h, "upload", u)

LoadDelete(h, v) == versions[v] # None /\ Load(h, "delete", versions[v])

LoadOther(h) == Load(h, "other", None)

\* The body is cut off, or fails its checks.
Rejected(h) ==
    /\ At(h, "upload", "loaded") \/ At(h, "other", "loaded")
    /\ Ends(h)
    /\ UNCHANGED <<store, outbox>>
    /\ BackendStep

\* delete_firmware unlinks the file, then saves the registry without it.
Unlink(h) ==
    /\ At(h, "delete", "loaded")
    /\ files' = files \ {handler[h].upload}
    /\ withdrawn' = withdrawn \cup {handler[h].upload}
    /\ Goto(h, "unlinked")
    /\ UNCHANGED <<versions, truncated, outbox>>
    /\ BackendStep

\* open(REGISTRY_PATH, "w") truncates: who loads the registry now finds
\* nothing, and every other copy of it is stale.
OpenRegistry(h, new) ==
    /\ versions' = Nothing /\ truncated' = TRUE
    /\ handler' = [g \in Handlers |->
                     IF g = h THEN [handler[h] EXCEPT !.at = "saving", !.copy = new]
                     ELSE IF Idle(g) THEN None
                     ELSE [handler[g] EXCEPT !.stale = TRUE]]
    /\ BackendStep

WithEntry(h, entry) ==
    [handler[h].copy EXCEPT ![handler[h].upload.version] = entry]

\* Bug: the upload is announced before its registry is saved.
SaveUploadAnnounced(h) ==
    /\ At(h, "upload", "loaded")
    /\ files' = files \cup {handler[h].upload}
    /\ OpenRegistry(h, WithEntry(h, handler[h].upload))
    /\ outbox' = outbox \cup {handler[h].upload}
    /\ UNCHANGED withdrawn

\* The file is written and verified: its entry is added to the copy.
SaveUpload(h) ==
    /\ At(h, "upload", "loaded")
    /\ files' = files \cup {handler[h].upload}
    /\ OpenRegistry(h, WithEntry(h, handler[h].upload))
    /\ UNCHANGED <<withdrawn, outbox>>

SaveDelete(h) ==
    /\ At(h, "delete", "unlinked")
    /\ OpenRegistry(h, WithEntry(h, None))
    /\ UNCHANGED <<files, withdrawn, outbox>>

SaveOther(h) ==
    /\ At(h, "other", "loaded")
    /\ OpenRegistry(h, handler[h].copy)
    /\ UNCHANGED <<files, withdrawn, outbox>>

\* What a registry that has come to this withdraws: every file it has no
\* entry for.  An older copy may also bring an entry back.
Withdraws(new) ==
    LET kept == {u \in files : new[u.version] = u}
    IN  withdrawn' = (withdrawn \cup files) \ kept

\* A save withdraws only what a stale copy does not have.
Saves(h) ==
    /\ versions' = handler[h].copy /\ truncated' = FALSE
    /\ IF handler[h].stale THEN Withdraws(handler[h].copy) ELSE UNCHANGED withdrawn

\* What is left in the file does not parse.
LosesRegistry ==
    /\ versions' = Nothing /\ truncated' = FALSE
    /\ Withdraws(Nothing)

\* The copy is written from the start of the file.  If another handler has
\* written there since it was opened, the tail of a longer text may be left.
SaveWrite(h) ==
    /\ h \in Saving
    /\ Saves(h) \/ (~truncated /\ LosesRegistry)
    /\ IF handler[h].op = "upload" THEN Goto(h, "saved") ELSE Ends(h)
    /\ UNCHANGED <<files, outbox>>
    /\ BackendStep

\* Nothing, or not all of it, gets to the disk: 500.
SaveFails(h) ==
    /\ h \in Saving
    /\ \/ /\ truncated => Saving # {h}
          /\ UNCHANGED <<versions, truncated, withdrawn>>
       \/ LosesRegistry
    /\ Ends(h)
    /\ UNCHANGED <<files, outbox>>
    /\ BackendStep

\* The announcement is kept by the publisher, or skipped without a connection.
Announce(h) ==
    /\ At(h, "upload", "saved")
    /\ outbox' \in {outbox, outbox \cup {handler[h].upload}}
    /\ Ends(h)
    /\ UNCHANGED store
    /\ BackendStep

\* A restart ends every handler and loses the publisher's outbox, and the
\* registry if it was being saved; files stay.
BackendRestarts ==
    /\ outbox # {} \/ \E h \in Handlers : ~Idle(h)
    /\ \/ ~truncated /\ UNCHANGED <<versions, truncated, withdrawn>>
       \/ Saving # {} /\ LosesRegistry
    /\ handler' = [h \in Handlers |-> None]
    /\ outbox' = {}
    /\ UNCHANGED files
    /\ BackendStep

Backend ==
    \/ \E h \in Handlers :
         \/ \E u \in Uploads : LoadUpload(h, u)
         \/ \E v \in Versions : LoadDelete(h, v)
         \/ LoadOther(h) \/ Rejected(h) \/ Unlink(h)
         \/ SaveUpload(h) \/ SaveDelete(h) \/ SaveOther(h)
         \/ SaveWrite(h) \/ SaveFails(h) \/ Announce(h)
    \/ BackendRestarts

(***************************************************************************)
(* The broker: QoS 1, clean session, nothing retained                      *)
(***************************************************************************)

\* The publisher sends what it keeps at least once; the broker has no one to
\* pass it to unless the device is connected.
Forward(u) ==
    /\ u \in outbox /\ Len(inbox) < MaxInFlight
    /\ outbox' \in {outbox, outbox \ {u}}
    /\ inbox' = IF mqttConnected THEN Append(inbox, u) ELSE inbox
    /\ UNCHANGED <<device, store, handler, late>>

\* Bug: the session outlives the connection.
DeviceStepPersistent == UNCHANGED <<backend, inbox, late>>

\* A lost connection ends the session, and what is in flight with it.
DeviceStep ==
    /\ inbox' = IF mqttConnected' THEN inbox ELSE <<>>
    /\ UNCHANGED <<backend, late>>

Deliver ==
    /\ inbox # <<>>
    /\ Device!MqttData(Head(inbox))
    /\ inbox' = Tail(inbox)
    /\ UNCHANGED <<backend, late>>

Broker == Deliver \/ \E u \in Uploads : Forward(u)

(***************************************************************************)
(* The device and its download                                             *)
(***************************************************************************)

\* download_firmware finds the version and its file.
Served(v) == versions[v] \in files

\* The answer is the file now registered, whole or cut by the network.
Download ==
    /\ workerPc = "open" /\ Served(job.version)
    /\ LET i == versions[job.version].image
       IN  \E n \in 0..Size[i] : Device!Open(i, n)
    /\ late' = (job \in withdrawn)
    /\ UNCHANGED <<backend, inbox>>

\* 404, or any other failure of the update path.
Failed == Device!CallFailed /\ DeviceStep

Worker ==
    \/ Device!Receive \/ Device!Begin \/ Device!ReadChunk
    \/ Device!ReadComplete \/ Device!Validate \/ Device!End
    \/ Device!SetBoot \/ Device!RestartIntoUpdate \/ Device!ReportFailed

DeviceActs ==
    \/ Download \/ Failed
    \/ /\ \/ Device!Main \/ Worker
          \/ Device!MqttConnected \/ Device!MqttDisconnected
          \/ Device!Power
       /\ DeviceStep

Next == Backend \/ Broker \/ DeviceActs

Spec == Init /\ [][Next]_vars

(***************************************************************************)
(* Properties                                                              *)
(***************************************************************************)

\* Every variable keeps its type, a registered upload has its file unless it was
\* withdrawn, and a device that is away has no session.
TypeOK ==
    /\ Device!TypeOK
    /\ versions \in Registries
    /\ truncated \in BOOLEAN
    /\ \A s \in {files, outbox, withdrawn} : s \subseteq Uploads
    /\ handler \in [Handlers -> Handling \cup {None}]
    /\ inbox \in Seq(Uploads) /\ Len(inbox) <= MaxInFlight
    /\ ~mqttConnected => inbox = <<>>
    /\ late \in BOOLEAN
    /\ \A v \in Versions : versions[v] \in files \cup withdrawn \cup {None}

\* Announcements that may still lead to a download.
UnderWay ==
    outbox \cup {inbox[k] : k \in DOMAIN inbox} \cup {queued}
        \cup (IF workerPc = "open" THEN {job} ELSE {})

\* The registry is being saved on behalf of another upload or delete.
HiddenBySave(u) ==
    /\ truncated
    /\ \E h \in Saving : handler[h].upload # u

\* Wherever an announcement is, its version can be downloaded and is the
\* announced one, hidden at most while the registry is saved for another
\* version, until it is withdrawn: by a delete, by a save that a restart, a
\* full disk or an overlapping write cut off, or by the save of a copy that
\* was taken before another save (main.py:358 and 406; README.md:315 says
\* that registry.json is not safe for concurrent writes).  A save that
\* overlaps no other withdraws nothing, and the backend announces last
\* (main.py:406-415).
AnnouncedDownloadable ==
    \A u \in UnderWay \cap Uploads :
        u \notin withdrawn =>
            u \in files /\ (versions[u.version] = u \/ HiddenBySave(u))

\* A version withdrawn before the device asks for its file is not installed,
\* even if other bytes were uploaded under its name since, by handlers that
\* overlap or not: registry, download and digest check together see to it.
WithdrawnNotInstalled ==
    [][workerPc = "setBoot" /\ workerPc' = "reboot" => ~late]_vars
============================================================================

--------------------------- MODULE OtaSystemProofs ---------------------------
(***************************************************************************)
(* What holds from upload to restart, for any uploads, any images and any  *)
(* number of announcements in flight.  The device of OtaSystem takes only  *)
(* steps of DeviceUpdate, so the theorems about that module hold of it     *)
(* here; the rest is about the registry, the announcements under way and   *)
(* the file a download got.                                                *)
(***************************************************************************)
EXTENDS OtaSystem, TLAPS

\* Uploads that have reached their save: their files are there or withdrawn,
\* or both, when a stale save has left a file without an entry.
Known == files \cup withdrawn

\* A registry names only such uploads, each under its version.
Entries(c) ==
    \A v \in Versions : c[v] # None => c[v].version = v /\ c[v] \in Known

\* A registry that agrees with the files: it has every file that is not
\* withdrawn, and no withdrawn upload whose file is there.
Agrees(c) ==
    /\ \A u \in files \ withdrawn : c[u.version] = u
    /\ \A v \in Versions : c[v] \in files => c[v] \notin withdrawn

\* Until its registry is opened to be saved, an upload is news to everyone.
UploadOK(h) ==
    handler[h].op = "upload" =>
      /\ handler[h].at # "unlinked"
      /\ IF handler[h].at = "loaded"
         THEN /\ handler[h].upload \notin Known
              /\ handler[h].copy[handler[h].upload.version] = None
         ELSE handler[h].upload \in Known

\* A delete unlinks the file of the entry it takes out.
DeleteOK(h) ==
    handler[h].op = "delete" =>
      /\ handler[h].at # "saved"
      /\ handler[h].at # "saving" =>
           handler[h].copy[handler[h].upload.version] = handler[h].upload
      /\ handler[h].at # "loaded" => handler[h].upload \in withdrawn \ files

\* A copy that is not stale is the registry, and what is saved of it agrees
\* with the files.
CopyOK(h) ==
    /\ Entries(handler[h].copy)
    /\ ~handler[h].stale =>
         IF handler[h].at \in {"loaded", "unlinked"} THEN handler[h].copy = versions
         ELSE handler[h].at = "saving" => Agrees(handler[h].copy)

HandlerOK(h) ==
    /\ IF handler[h].op = "other"
       THEN handler[h].upload = None /\ handler[h].at \in {"loaded", "saving"}
       ELSE handler[h].upload \in Uploads
    /\ UploadOK(h) /\ DeleteOK(h) /\ CopyOK(h)

\* A handler whose copy is not stale saves alone, and an upload has one handler.
Apart ==
    \A g, h \in Handlers : g # h /\ ~Idle(g) /\ ~Idle(h) =>
      /\ h \in Saving => handler[g].stale
      /\ handler[g].op = "upload" /\ handler[h].op = "upload" =>
           handler[g].upload # handler[h].upload

\* The registry agrees with the files, or is being saved.
RegistryOK ==
    /\ versions \in Registries /\ truncated \in BOOLEAN
    /\ files \subseteq Uploads /\ outbox \subseteq Uploads /\ withdrawn \subseteq Uploads
    /\ Entries(versions)
    /\ IF truncated THEN versions = Nothing /\ Saving # {} ELSE Agrees(versions)

StoreOK ==
    /\ RegistryOK
    /\ handler \in [Handlers -> Handling \cup {None}]
    /\ Apart
    /\ \A h \in Handlers : ~Idle(h) => HandlerOK(h)

\* What is announced has reached its save, and is announced last.
AnnouncedOK ==
    /\ UnderWay \cap Uploads \subseteq Known
    /\ \A h \in Handlers : At(h, "upload", "saving") => handler[h].upload \notin UnderWay

\* The session of the device at the broker.
SessionOK ==
    /\ inbox \in Seq(Uploads) /\ Len(inbox) <= MaxInFlight
    /\ ~mqttConnected => inbox = <<>>

\* A late download got other bytes than its command announced, so it cannot
\* pass the digest check.
LateOK ==
    /\ late \in BOOLEAN
    /\ late /\ workerPc \in {"begin", "read", "validate"} => download.image # job.image
    /\ late => workerPc \notin {"end", "setBoot"}

(***************************************************************************)
(* The device takes steps of DeviceUpdate only                             *)
(***************************************************************************)
LEMMA BackendLeavesDevice == Backend => UNCHANGED <<device, inbox, late>>
  BY DEF Backend, LoadUpload, LoadDelete, LoadOther, Load, Rejected, Unlink, SaveUpload,
         SaveDelete, SaveOther, OpenRegistry, SaveWrite, SaveFails, Announce,
         BackendRestarts, BackendStep

LEMMA DeviceSteps ==
    ASSUME StoreOK, SessionOK, [Next]_vars
    PROVE  [Device!Next]_(Device!vars)
<1> USE DEF Device!vars, Device!flash, Device!trial, Device!worker
<1>1. CASE Backend
  BY <1>1, BackendLeavesDevice DEF device
<1>2. CASE Deliver
  <2>1. Head(inbox) \in Uploads
    BY <1>2 DEF Deliver, SessionOK
  <2> QED
    BY <1>2, <2>1 DEF Deliver, Device!Next, Device!Mqtt
<1>3. ASSUME NEW u \in Uploads, Forward(u)
      PROVE  UNCHANGED Device!vars
  BY <1>3 DEF Forward, device
<1>4. CASE Download
  <2>1. versions[job.version] \in Uploads
    BY <1>4 DEF Download, Served, StoreOK, RegistryOK
  <2>2. versions[job.version].image \in Images
    BY <2>1, UploadsAssumption
  <2> QED
    BY <1>4, <2>2 DEF Download, Device!Next, Device!Worker
<1>5. CASE Failed
  BY <1>5 DEF Failed, Device!Next, Device!Worker
<1>6. CASE Device!Main \/ Worker \/ Device!MqttConnected \/ Device!MqttDisconnected
           \/ Device!Power
  BY <1>6 DEF Worker, Device!Next, Device!Worker, Device!Mqtt
<1>7. CASE UNCHANGED vars
  BY <1>7 DEF vars, device
<1> QED
  BY <1>1, <1>2, <1>3, <1>4, <1>5, <1>6, <1>7 DEF Next, Broker, DeviceActs

(***************************************************************************)
(* The registry                                                            *)
(***************************************************************************)
LEMMA UploadVersion == \A u \in Uploads : u.version \in Versions /\ u # None
BY UploadsAssumption DEF Versions

\* Only the backend touches the registry, and its publisher the outbox.
LEMMA OthersLeaveStore ==
    ASSUME StoreOK, Broker \/ DeviceActs \/ UNCHANGED vars
    PROVE  StoreOK' /\ UNCHANGED <<store, handler>>
<1>1. UNCHANGED <<store, handler>> /\ outbox' \subseteq outbox
  BY DEF Broker, Deliver, Forward, DeviceActs, Download, Failed, DeviceStep, backend, vars
<1>2. UNCHANGED <<versions, truncated, files, withdrawn, handler>>
  BY <1>1 DEF store
<1> QED
  BY <1>1, <1>2
  DEF StoreOK, RegistryOK, Apart, HandlerOK, UploadOK, DeleteOK, CopyOK, Agrees, Entries,
      Known, Saving, Idle

\* What another handler does keeps g in order, if it makes its copy stale or
\* changes nothing g relies on.
LEMMA HandlerKept ==
    ASSUME StoreOK, NEW g \in Handlers, ~Idle(g),
           handler'[g] \in {handler[g], [handler[g] EXCEPT !.stale = TRUE]},
           Known \subseteq Known',
           At(g, "upload", "loaded") => handler[g].upload \notin Known',
           withdrawn \ files \subseteq withdrawn' \ files',
           \/ handler'[g].stale
           \/ /\ UNCHANGED versions
              /\ files' \subseteq files /\ withdrawn \subseteq withdrawn'
              /\ files' \cap withdrawn' \subseteq withdrawn
    PROVE  HandlerOK(g)'
<1>1. HandlerOK(g) /\ handler[g] \in Handling
  BY DEF StoreOK, Idle
<1>2. /\ handler'[g].op = handler[g].op /\ handler'[g].at = handler[g].at
      /\ handler'[g].upload = handler[g].upload /\ handler'[g].copy = handler[g].copy
      /\ ~handler'[g].stale => ~handler[g].stale
  BY <1>1 DEF Handling
<1>3. UploadOK(g)'
  BY <1>1, <1>2 DEF UploadOK, HandlerOK, At
<1>4. DeleteOK(g)'
  BY <1>1, <1>2 DEF DeleteOK, HandlerOK
<1>5. CopyOK(g)'
  <2>1. Entries(handler[g].copy)'
    BY <1>1, <1>2 DEF HandlerOK, CopyOK, Entries
  <2>2. ASSUME ~handler'[g].stale, Agrees(handler[g].copy)
        PROVE  Agrees(handler[g].copy)'
    BY <1>2, <2>2 DEF Agrees
  <2> QED
    BY <1>1, <1>2, <2>1, <2>2 DEF HandlerOK, CopyOK, Entries, Agrees
<1> QED
  BY <1>1, <1>2, <1>3, <1>4, <1>5 DEF HandlerOK

\* The steps of a handler that leave the registry and the files alone.
LEMMA LoadStore ==
    ASSUME StoreOK, NEW h \in Handlers, NEW op \in {"upload", "delete", "other"},
           NEW u \in Uploads \cup {None}, Load(h, op, u),
           (op = "other") <=> (u = None),
           op = "upload" => u \notin Known /\ versions[u.version] = None /\ ~Uploading(u),
           op = "delete" => versions[u.version] = u
    PROVE  StoreOK'
<1> DEFINE r == [op |-> op, upload |-> u, at |-> "loaded",
                 copy |-> versions, stale |-> Saving # {}]
<1>1. r \in Handling /\ r # None
  <2>1. versions \in Registries /\ (Saving # {}) \in BOOLEAN
    BY DEF StoreOK, RegistryOK
  <2>2. r \in Handling
    BY <2>1 DEF Handling
  <2> QED
    BY <2>2, HandlingAssumption
<1>2. /\ Idle(h) /\ handler' = [handler EXCEPT ![h] = r] /\ handler'[h] = r
      /\ UNCHANGED <<versions, truncated, files, withdrawn, outbox>>
  BY DEF Load, StoreOK, store
<1>3. handler' \in [Handlers -> Handling \cup {None}]
  BY <1>1, <1>2 DEF StoreOK
<1>4. \A g \in Handlers : g # h => handler'[g] = handler[g]
  BY <1>2 DEF StoreOK
<1>5. Saving' = Saving /\ h \notin Saving
  BY <1>1, <1>2, <1>4 DEF Saving, Idle
<1>6. RegistryOK'
  BY <1>2, <1>5 DEF StoreOK, RegistryOK, Entries, Agrees, Known
<1>7. Apart'
  BY <1>2, <1>4, <1>5 DEF StoreOK, Apart, Idle, Uploading
<1>8. ASSUME NEW g \in Handlers, ~Idle(g)'
      PROVE  HandlerOK(g)'
  <2>1. CASE g = h
    <3>1. UploadOK(h)'
      BY <1>2 DEF UploadOK, Known
    <3>2. DeleteOK(h)'
      BY <1>2 DEF DeleteOK
    <3>3. CopyOK(h)'
      BY <1>2 DEF CopyOK, StoreOK, RegistryOK, Entries, Known
    <3> QED
      BY <1>2, <2>1, <3>1, <3>2, <3>3 DEF HandlerOK
  <2>2. CASE g # h
    BY <1>2, <1>4, <1>8, <2>2, HandlerKept
    DEF Known, Idle, StoreOK, HandlerOK, UploadOK, At
  <2> QED
    BY <2>1, <2>2
<1> QED
  BY <1>3, <1>6, <1>7, <1>8 DEF StoreOK

LEMMA EndsStore ==
    ASSUME StoreOK, NEW h \in Handlers, Ends(h),
           UNCHANGED <<versions, truncated, files, withdrawn>>, outbox' \subseteq Uploads,
           truncated => Saving \ {h} # {}
    PROVE  StoreOK'
<1>1. handler' \in [Handlers -> Handling \cup {None}]
      /\ \A g \in Handlers : handler'[g] = IF g = h THEN None ELSE handler[g]
  BY DEF Ends, StoreOK
<1>2. Saving' = Saving \ {h}
  BY <1>1 DEF Saving, Idle
<1>3. RegistryOK'
  BY <1>2 DEF StoreOK, RegistryOK, Entries, Agrees, Known
<1>4. Apart'
  BY <1>1, <1>2 DEF StoreOK, Apart, Idle
<1>5. ASSUME NEW g \in Handlers, ~Idle(g)'
      PROVE  HandlerOK(g)'
  BY <1>1, <1>5, HandlerKept DEF Known, Idle, StoreOK, HandlerOK, UploadOK, At
<1> QED
  BY <1>1, <1>3, <1>4, <1>5 DEF StoreOK

LEMMA UnlinkStore ==
    ASSUME StoreOK, NEW h \in Handlers, Unlink(h)
    PROVE  StoreOK'
<1> DEFINE u == handler[h].upload
<1>1. /\ At(h, "delete", "loaded") /\ HandlerOK(h) /\ handler[h] \in Handling
      /\ u \in Uploads /\ u.version \in Versions
      /\ handler[h].copy[u.version] = u
  BY UploadVersion DEF Unlink, StoreOK, At, Idle, HandlerOK, DeleteOK
<1>2. /\ files' = files \ {u} /\ withdrawn' = withdrawn \cup {u}
      /\ UNCHANGED <<versions, truncated, outbox>>
  BY DEF Unlink
<1>3. /\ handler' = [handler EXCEPT ![h] = [handler[h] EXCEPT !.at = "unlinked"]]
      /\ \A g \in Handlers : g # h => handler'[g] = handler[g]
      /\ handler'[h] = [handler[h] EXCEPT !.at = "unlinked"]
  BY DEF Unlink, Goto, StoreOK
<1>4. /\ handler'[h] \in Handling /\ handler'[h] # None
      /\ handler'[h].op = "delete" /\ handler'[h].upload = u
      /\ handler'[h].at = "unlinked" /\ handler'[h].copy = handler[h].copy
      /\ handler'[h].stale = handler[h].stale
  <2>1. handler'[h] \in Handling
    BY <1>1, <1>3 DEF Handling
  <2> QED
    BY <1>1, <1>3, <2>1, HandlingAssumption DEF Handling, At
<1>5. handler' \in [Handlers -> Handling \cup {None}]
  BY <1>3, <1>4 DEF StoreOK
<1>6. Saving' = Saving
  BY <1>1, <1>3, <1>4 DEF Saving, Idle, At
<1>7. u \in Known /\ Known' = Known
  <2>1. u \in Known
    BY <1>1, UploadVersion DEF HandlerOK, CopyOK, Entries
  <2> QED
    BY <1>2, <2>1 DEF Known
<1>8. RegistryOK'
  BY <1>1, <1>2, <1>6, <1>7 DEF StoreOK, RegistryOK, Entries, Agrees
<1>9. Apart'
  BY <1>1, <1>3, <1>4, <1>6 DEF StoreOK, Apart, Idle, At
<1>10. ASSUME NEW g \in Handlers, ~Idle(g)'
       PROVE  HandlerOK(g)'
  <2>1. CASE g = h
    <3>1. UploadOK(h)' /\ DeleteOK(h)'
      BY <1>1, <1>2, <1>4 DEF UploadOK, DeleteOK
    <3>2. CopyOK(h)'
      BY <1>1, <1>2, <1>4, <1>7 DEF HandlerOK, CopyOK, Entries, At
    <3> QED
      BY <1>1, <1>4, <2>1, <3>1, <3>2 DEF HandlerOK
  <2>2. CASE g # h
    BY <1>2, <1>3, <1>7, <1>10, <2>2, HandlerKept
    DEF Idle, StoreOK, HandlerOK, UploadOK, At
  <2> QED
    BY <2>1, <2>2
<1> QED
  BY <1>5, <1>8, <1>9, <1>10 DEF StoreOK

\* Opening the registry to save it makes every other copy stale.
Opens(h) ==
    /\ OpenRegistry(h, handler'[h].copy)
    /\ handler'[h].copy \in Registries
    /\ UNCHANGED <<withdrawn, outbox>>

LEMMA OpenHandler ==
    ASSUME StoreOK, NEW h \in Handlers, ~Idle(h), Opens(h)
    PROVE  /\ handler' \in [Handlers -> Handling \cup {None}]
           /\ handler'[h] \in Handling /\ handler'[h] # None
           /\ handler'[h].op = handler[h].op /\ handler'[h].upload = handler[h].upload
           /\ handler'[h].at = "saving" /\ handler'[h].stale = handler[h].stale
           /\ \A g \in Handlers : g # h =>
                /\ Idle(g)' <=> Idle(g)
                /\ ~Idle(g) => /\ handler'[g] = [handler[g] EXCEPT !.stale = TRUE]
                               /\ handler'[g] \in Handling
<1>1. \A g \in Handlers : ~Idle(g) => handler[g] \in Handling
  BY DEF StoreOK, Idle
<1>2. handler'[h] = [handler[h] EXCEPT !.at = "saving", !.copy = handler'[h].copy]
  BY DEF Opens, OpenRegistry
<1>3. /\ handler'[h] \in Handling
      /\ handler'[h].op = handler[h].op /\ handler'[h].upload = handler[h].upload
      /\ handler'[h].at = "saving" /\ handler'[h].stale = handler[h].stale
  BY <1>1, <1>2 DEF Opens, Handling
<1>4. ASSUME NEW g \in Handlers, g # h
      PROVE  /\ Idle(g) => handler'[g] = None
             /\ ~Idle(g) => /\ handler'[g] = [handler[g] EXCEPT !.stale = TRUE]
                            /\ handler'[g] \in Handling
  <2>1. handler'[g] = IF Idle(g) THEN None ELSE [handler[g] EXCEPT !.stale = TRUE]
    BY <1>4 DEF Opens, OpenRegistry
  <2>2. ~Idle(g) => [handler[g] EXCEPT !.stale = TRUE] \in Handling
    BY <1>1 DEF Handling
  <2> QED
    BY <2>1, <2>2
<1>5. \A g \in Handlers : handler'[g] \in Handling \cup {None}
  BY <1>3, <1>4
<1>6. handler' = [g \in Handlers |-> handler'[g]]
  BY DEF Opens, OpenRegistry
<1>7. handler' \in [Handlers -> Handling \cup {None}]
  BY <1>5, <1>6
<1> QED
  BY <1>3, <1>4, <1>7, HandlingAssumption DEF Idle

LEMMA OpenStore ==
    ASSUME StoreOK, NEW h \in Handlers, ~Idle(h), Opens(h),
           files \subseteq files', files' \subseteq files \cup {handler[h].upload}, files' \subseteq Uploads,
           handler[h].op # "upload" => files' = files,
           handler[h].op = "upload" => handler[h].upload \notin Known,
           HandlerOK(h)'
    PROVE  StoreOK'
<1>1. /\ versions' = Nothing /\ truncated' = TRUE
      /\ UNCHANGED <<withdrawn, outbox>>
  BY DEF Opens, OpenRegistry
<1>a. \A g \in Handlers : ~Idle(g) => handler[g] \in Handling
  BY DEF StoreOK, Idle
<1>b. /\ handler'[h].op = handler[h].op /\ handler'[h].upload = handler[h].upload
      /\ handler'[h].at = "saving" /\ handler'[h].stale = handler[h].stale
      /\ ~Idle(h)'
  BY OpenHandler DEF Idle
<1>c. \A g \in Handlers : g # h =>
        /\ Idle(g)' <=> Idle(g)
        /\ ~Idle(g) => handler'[g] = [handler[g] EXCEPT !.stale = TRUE]
  BY OpenHandler
<1>d. \A g \in Handlers : g # h /\ ~Idle(g) =>
        /\ handler'[g].op = handler[g].op /\ handler'[g].upload = handler[g].upload
        /\ handler'[g].at = handler[g].at /\ handler'[g].stale
  BY <1>a, <1>c DEF Handling
<1>2. Saving' = Saving \cup {h}
  BY <1>b, <1>c, <1>d DEF Saving
<1>3. RegistryOK'
  BY <1>1, <1>2 DEF StoreOK, RegistryOK, Entries, Nothing, Registries
<1>4. Apart'
  <2>1. \A g \in Handlers : ~Idle(g)' => /\ ~Idle(g)
                                         /\ handler'[g].op = handler[g].op
                                         /\ handler'[g].upload = handler[g].upload
                                         /\ g # h => handler'[g].stale
    BY <1>b, <1>c, <1>d
  <2>2. ASSUME NEW g \in Handlers, g \in Saving, g # h
        PROVE  handler'[h].stale
    BY <2>2, OpenHandler DEF StoreOK, Apart, Saving
  <2> QED
    BY <1>2, <2>1, <2>2 DEF StoreOK, Apart
<1>5. ASSUME NEW g \in Handlers, ~Idle(g)', g # h
      PROVE  HandlerOK(g)'
  <2>1. ~Idle(g) /\ handler'[g] = [handler[g] EXCEPT !.stale = TRUE] /\ handler'[g].stale
    BY <1>5, OpenHandler DEF StoreOK, Idle, Handling
  <2>2. At(g, "upload", "loaded") => handler[g].upload \notin Known'
    BY <1>1, <1>5, <2>1 DEF StoreOK, Apart, HandlerOK, UploadOK, At, Known
  <2>3. Known \subseteq Known' /\ withdrawn \ files \subseteq withdrawn' \ files'
    BY <1>1 DEF Known
  <2> QED
    BY <2>1, <2>2, <2>3, HandlerKept
<1> QED
  BY <1>3, <1>4, <1>5, OpenHandler DEF StoreOK

\* The entry of a handler's upload in the copy it saves.
LEMMA WithEntryIs ==
    ASSUME StoreOK, NEW h \in Handlers, ~Idle(h), handler[h].upload \in Uploads,
           NEW e \in Uploads \cup {None}
    PROVE  /\ WithEntry(h, e) \in Registries
           /\ WithEntry(h, e)[handler[h].upload.version] = e
           /\ \A v \in Versions : v # handler[h].upload.version =>
                WithEntry(h, e)[v] = handler[h].copy[v]
<1>1. handler[h].copy \in Registries /\ handler[h].upload.version \in Versions
  BY UploadVersion DEF StoreOK, Idle, Handling
<1> QED
  BY <1>1 DEF WithEntry, Registries

LEMMA SaveUploadStore ==
    ASSUME StoreOK, NEW h \in Handlers, SaveUpload(h)
    PROVE  StoreOK'
<1> DEFINE u == handler[h].upload
<1>1. /\ ~Idle(h) /\ handler[h].op = "upload" /\ handler[h].at = "loaded"
      /\ HandlerOK(h) /\ u \in Uploads /\ u \notin Known /\ u.version \in Versions
      /\ handler[h].copy \in Registries /\ handler[h].copy[u.version] = None
  BY UploadVersion DEF SaveUpload, At, StoreOK, HandlerOK, UploadOK, Idle, Handling
<1>2. files' = files \cup {u} /\ UNCHANGED <<withdrawn, outbox>>
      /\ OpenRegistry(h, WithEntry(h, u))
  BY DEF SaveUpload
<1>3. handler'[h].copy = WithEntry(h, u)
  BY <1>1, <1>2 DEF OpenRegistry, StoreOK, Idle, Handling
<1>4. /\ handler'[h].copy \in Registries /\ handler'[h].copy[u.version] = u
      /\ \A v \in Versions : v # u.version => handler'[h].copy[v] = handler[h].copy[v]
  BY <1>1, <1>3, WithEntryIs
<1>5. Opens(h)
  BY <1>2, <1>3, <1>4 DEF Opens
<1>6. /\ handler'[h].op = "upload" /\ handler'[h].upload = u
      /\ handler'[h].at = "saving" /\ handler'[h].stale = handler[h].stale
  BY <1>1, <1>5, OpenHandler
<1>7. Entries(handler[h].copy)'
  BY <1>1, <1>2, <1>4 DEF Entries, HandlerOK, CopyOK, Known
<1>8. ASSUME ~handler[h].stale
      PROVE  Agrees(handler[h].copy)'
  <2>1. handler[h].copy = versions /\ ~truncated
    BY <1>1, <1>8 DEF HandlerOK, CopyOK, StoreOK, RegistryOK, Apart, Saving
  <2>2. Agrees(handler[h].copy)
    BY <2>1 DEF StoreOK, RegistryOK
  <2>3. ASSUME NEW w \in (files \ withdrawn)'
        PROVE  handler'[h].copy[w.version] = w
    BY <1>1, <1>2, <1>4, <2>2, <2>3, UploadVersion DEF Agrees, StoreOK, RegistryOK
  <2>4. ASSUME NEW v \in Versions, handler'[h].copy[v] \in files'
        PROVE  handler'[h].copy[v] \notin withdrawn'
    BY <1>1, <1>2, <1>4, <2>2, <2>4 DEF Agrees, Known
  <2> QED
    BY <2>3, <2>4 DEF Agrees
<1>9. HandlerOK(h)'
  BY <1>1, <1>2, <1>6, <1>7, <1>8 DEF HandlerOK, UploadOK, DeleteOK, CopyOK, Known
<1> QED
  BY <1>1, <1>2, <1>5, <1>9, OpenStore DEF StoreOK, RegistryOK

LEMMA SaveDeleteStore ==
    ASSUME StoreOK, NEW h \in Handlers, SaveDelete(h)
    PROVE  StoreOK'
<1> DEFINE u == handler[h].upload
<1>1. /\ ~Idle(h) /\ handler[h].op = "delete" /\ handler[h].at = "unlinked"
      /\ HandlerOK(h) /\ u \in Uploads /\ u \in withdrawn \ files /\ u.version \in Versions
      /\ handler[h].copy \in Registries /\ handler[h].copy[u.version] = u
  BY UploadVersion DEF SaveDelete, At, StoreOK, HandlerOK, DeleteOK, Idle, Handling
<1>2. UNCHANGED <<files, withdrawn, outbox>> /\ OpenRegistry(h, WithEntry(h, None))
  BY DEF SaveDelete
<1>3. handler'[h].copy = WithEntry(h, None)
  BY <1>1, <1>2 DEF OpenRegistry, StoreOK, Idle, Handling
<1>4. /\ handler'[h].copy \in Registries /\ handler'[h].copy[u.version] = None
      /\ \A v \in Versions : v # u.version => handler'[h].copy[v] = handler[h].copy[v]
  BY <1>1, <1>3, WithEntryIs
<1>5. Opens(h)
  BY <1>2, <1>3, <1>4 DEF Opens
<1>6. /\ handler'[h].op = "delete" /\ handler'[h].upload = u
      /\ handler'[h].at = "saving" /\ handler'[h].stale = handler[h].stale
  BY <1>1, <1>5, OpenHandler
<1>7. Entries(handler[h].copy)'
  BY <1>1, <1>2, <1>4 DEF Entries, HandlerOK, CopyOK, Known
<1>8. ASSUME ~handler[h].stale
      PROVE  Agrees(handler[h].copy)'
  <2>1. handler[h].copy = versions /\ ~truncated
    BY <1>1, <1>8 DEF HandlerOK, CopyOK, StoreOK, RegistryOK, Apart, Saving
  <2>2. Agrees(handler[h].copy)
    BY <2>1 DEF StoreOK, RegistryOK
  <2>3. ASSUME NEW w \in (files \ withdrawn)'
        PROVE  handler'[h].copy[w.version] = w
    BY <1>1, <1>2, <1>4, <2>2, <2>3, UploadVersion DEF Agrees, StoreOK, RegistryOK
  <2>4. ASSUME NEW v \in Versions, handler'[h].copy[v] \in files'
        PROVE  handler'[h].copy[v] \notin withdrawn'
    BY <1>2, <1>4, <2>2, <2>4, UploadsAssumption DEF Agrees, StoreOK, RegistryOK
  <2> QED
    BY <2>3, <2>4 DEF Agrees
<1>9. HandlerOK(h)'
  BY <1>1, <1>2, <1>6, <1>7, <1>8 DEF HandlerOK, UploadOK, DeleteOK, CopyOK, Known
<1> QED
  BY <1>1, <1>2, <1>5, <1>9, OpenStore DEF StoreOK, RegistryOK

LEMMA SaveOtherStore ==
    ASSUME StoreOK, NEW h \in Handlers, SaveOther(h)
    PROVE  StoreOK'
<1>1. /\ ~Idle(h) /\ handler[h].op = "other" /\ handler[h].at = "loaded"
      /\ HandlerOK(h) /\ handler[h].copy \in Registries
  BY DEF SaveOther, At, StoreOK, Idle, Handling
<1>2. UNCHANGED <<files, withdrawn, outbox>> /\ OpenRegistry(h, handler[h].copy)
  BY DEF SaveOther
<1>3. handler'[h].copy = handler[h].copy
  BY <1>1, <1>2 DEF OpenRegistry, StoreOK, Idle, Handling
<1>4. Opens(h)
  BY <1>1, <1>2, <1>3 DEF Opens
<1>5. /\ handler'[h].op = "other" /\ handler'[h].upload = handler[h].upload
      /\ handler'[h].at = "saving" /\ handler'[h].stale = handler[h].stale
  BY <1>1, <1>4, OpenHandler
<1>6. Entries(handler[h].copy)'
  BY <1>1, <1>2, <1>3 DEF Entries, HandlerOK, CopyOK, Known
<1>7. ASSUME ~handler[h].stale
      PROVE  Agrees(handler[h].copy)'
  <2>1. handler[h].copy = versions /\ ~truncated
    BY <1>1, <1>7 DEF HandlerOK, CopyOK, StoreOK, RegistryOK, Apart, Saving
  <2> QED
    BY <1>2, <1>3, <2>1 DEF StoreOK, RegistryOK, Agrees
<1>8. HandlerOK(h)'
  BY <1>1, <1>5, <1>6, <1>7 DEF HandlerOK, UploadOK, DeleteOK, CopyOK
<1> QED
  BY <1>1, <1>2, <1>4, <1>8, OpenStore DEF StoreOK, RegistryOK

\* A registry that comes to agree with the files: they stay, and so do the
\* uploads that have been saved, registered or withdrawn.
Comes ==
    /\ UNCHANGED <<files, outbox>>
    /\ versions' \in Registries /\ truncated' = FALSE /\ withdrawn' \subseteq Uploads
    /\ Known' = Known /\ withdrawn \ files \subseteq withdrawn'
    /\ Entries(versions)' /\ Agrees(versions)'

LEMMA WithdrawsComes ==
    ASSUME StoreOK, versions' \in Registries, Entries(versions'), Withdraws(versions'),
           truncated' = FALSE, UNCHANGED <<files, outbox>>
    PROVE  Comes
<1>1. withdrawn' = (withdrawn \cup files) \ {u \in files : versions'[u.version] = u}
  BY DEF Withdraws
<1>2. Known' = Known /\ withdrawn \ files \subseteq withdrawn' /\ withdrawn' \subseteq Uploads
  BY <1>1 DEF Known, StoreOK, RegistryOK
<1>3. Entries(versions)'
  BY <1>2 DEF Entries
<1>4. Agrees(versions)'
  BY <1>1, UploadsAssumption DEF Agrees, Entries, StoreOK, RegistryOK
<1> QED
  BY <1>2, <1>3, <1>4 DEF Comes

LEMMA LosesComes == StoreOK /\ LosesRegistry /\ UNCHANGED <<files, outbox>> => Comes
<1> SUFFICES ASSUME StoreOK, LosesRegistry, UNCHANGED <<files, outbox>> PROVE Comes
  OBVIOUS
<1>1. versions' = Nothing /\ truncated' = FALSE /\ Withdraws(versions')
  BY DEF LosesRegistry, Withdraws
<1>2. versions' \in Registries /\ Entries(versions')
  BY <1>1 DEF Nothing, Registries, Entries
<1> QED
  BY <1>1, <1>2, WithdrawsComes

LEMMA SavesComes ==
    ASSUME StoreOK, NEW h \in Saving, Saves(h), UNCHANGED <<files, outbox>>
    PROVE  Comes
<1>1. /\ HandlerOK(h) /\ handler[h].at = "saving"
      /\ versions' = handler[h].copy /\ truncated' = FALSE
  BY DEF Saving, StoreOK, Saves
<1>2. versions' \in Registries /\ Entries(versions')
  BY <1>1 DEF Saving, Idle, StoreOK, HandlerOK, CopyOK, Entries, Handling
<1>3. CASE handler[h].stale
  <2>1. Withdraws(versions')
    BY <1>1, <1>3 DEF Saves, Withdraws
  <2> QED
    BY <1>1, <1>2, <2>1, WithdrawsComes
<1>4. CASE ~handler[h].stale
  <2>1. withdrawn' = withdrawn /\ Agrees(handler[h].copy)
    BY <1>1, <1>4 DEF Saves, HandlerOK, CopyOK
  <2> QED
    BY <1>1, <1>2, <2>1 DEF Comes, Agrees, Entries, Known, StoreOK, RegistryOK
<1> QED
  BY <1>3, <1>4

\* The handler that saved goes on or ends, and every other copy is stale.
LEMMA ComesStore ==
    ASSUME StoreOK, NEW h \in Saving, Comes,
           \/ Ends(h)
           \/ handler[h].op = "upload" /\ Goto(h, "saved")
    PROVE  StoreOK'
<1>1. h \in Handlers /\ HandlerOK(h) /\ handler[h] \in Handling /\ handler[h] # None
  BY DEF Saving, Idle, StoreOK
<1>2. /\ handler' \in [Handlers -> Handling \cup {None}]
      /\ \A g \in Handlers : g # h => handler'[g] = handler[g]
      /\ handler'[h] # None =>
           /\ handler'[h].op = "upload" /\ handler[h].op = "upload"
           /\ handler'[h].upload = handler[h].upload /\ handler'[h].at = "saved"
           /\ handler'[h].copy = handler[h].copy /\ handler'[h].stale = handler[h].stale
  BY <1>1 DEF Ends, Goto, StoreOK, Handling
<1>3. \A g \in Handlers : g # h /\ ~Idle(g) => handler[g].stale
  BY DEF StoreOK, Apart, Saving
<1>4. Saving' \subseteq Saving \ {h}
  BY <1>2 DEF Saving, Idle
<1>5. RegistryOK'
  BY DEF Comes, RegistryOK, StoreOK
<1>6. Apart'
  BY <1>1, <1>2, <1>3, <1>4 DEF StoreOK, Apart, Idle
<1>7. ASSUME NEW g \in Handlers, ~Idle(g)'
      PROVE  HandlerOK(g)'
  <2>1. CASE g = h
    <3>1. /\ handler'[h].op = "upload" /\ handler[h].op = "upload"
          /\ handler'[h].upload = handler[h].upload /\ handler'[h].at = "saved"
          /\ handler'[h].copy = handler[h].copy
      BY <1>2, <1>7, <2>1 DEF Idle
    <3>2. UploadOK(h)' /\ DeleteOK(h)'
      BY <1>1, <3>1 DEF HandlerOK, UploadOK, DeleteOK, Comes, Saving
    <3>3. CopyOK(h)'
      BY <1>1, <3>1 DEF HandlerOK, CopyOK, Entries, Comes
    <3> QED
      BY <1>1, <2>1, <3>1, <3>2, <3>3 DEF HandlerOK
  <2>2. CASE g # h
    <3>1. At(g, "upload", "loaded") => handler[g].upload \notin Known'
      BY <1>2, <1>7, <2>2 DEF At, StoreOK, HandlerOK, UploadOK, Comes
    <3> QED
      BY <1>2, <1>3, <1>7, <2>2, <3>1, HandlerKept DEF Comes, Idle
  <2> QED
    BY <2>1, <2>2
<1> QED
  BY <1>2, <1>5, <1>6, <1>7 DEF StoreOK

LEMMA RestartStore == StoreOK /\ BackendRestarts => StoreOK'
<1> SUFFICES ASSUME StoreOK, BackendRestarts PROVE StoreOK'
  OBVIOUS
<1>1. /\ handler' = [h \in Handlers |-> None] /\ outbox' = {} /\ files' = files
      /\ \A h \in Handlers : Idle(h)'
  BY DEF BackendRestarts, Idle
<1>2. RegistryOK'
  <2>1. CASE ~truncated /\ UNCHANGED <<versions, truncated, withdrawn>>
    BY <1>1, <2>1 DEF StoreOK, RegistryOK, Entries, Agrees, Known
  <2>2. CASE LosesRegistry
    <3>1. /\ withdrawn' = (withdrawn \cup files) \ {u \in files : Nothing[u.version] = u}
          /\ versions' = Nothing /\ truncated' = FALSE
      BY <2>2 DEF LosesRegistry, Withdraws
    <3>2. \A u \in files : Nothing[u.version] # u
      BY UploadVersion DEF Nothing, StoreOK, RegistryOK
    <3>3. \A v \in Versions : Nothing[v] \notin files
      BY UploadsAssumption DEF Nothing, StoreOK, RegistryOK
    <3> QED
      BY <1>1, <3>1, <3>2, <3>3
      DEF StoreOK, RegistryOK, Entries, Agrees, Registries, Nothing
  <2> QED
    BY <2>1, <2>2 DEF BackendRestarts
<1> QED
  BY <1>1, <1>2 DEF StoreOK, Apart

LEMMA StoreBackend == StoreOK /\ Backend => StoreOK'
<1> SUFFICES ASSUME StoreOK, Backend PROVE StoreOK'
  OBVIOUS
<1>1. ASSUME NEW h \in Handlers, NEW u \in Uploads, LoadUpload(h, u) PROVE StoreOK'
  BY <1>1, LoadStore, UploadVersion DEF LoadUpload, Known
<1>2. ASSUME NEW h \in Handlers, NEW v \in Versions, LoadDelete(h, v) PROVE StoreOK'
  <2>1. versions[v] \in Uploads /\ versions[versions[v].version] = versions[v]
        /\ versions[v] # None
    BY <1>2 DEF LoadDelete, StoreOK, RegistryOK, Registries, Entries
  <2> QED
    BY <1>2, <2>1, LoadStore DEF LoadDelete
<1>3. ASSUME NEW h \in Handlers, LoadOther(h) PROVE StoreOK'
  BY <1>3, LoadStore DEF LoadOther
<1>4. ASSUME NEW h \in Handlers, Rejected(h) PROVE StoreOK'
  BY <1>4, EndsStore DEF Rejected, store, At, Saving, StoreOK, RegistryOK
<1>5. ASSUME NEW h \in Handlers, SaveWrite(h) PROVE StoreOK'
  <2>1. h \in Saving /\ Comes
    BY <1>5, SavesComes, LosesComes DEF SaveWrite
  <2> QED
    BY <1>5, <2>1, ComesStore DEF SaveWrite
<1>6. ASSUME NEW h \in Handlers, SaveFails(h) PROVE StoreOK'
  <2>1. h \in Saving /\ Ends(h) /\ UNCHANGED <<files, outbox>>
    BY <1>6 DEF SaveFails
  <2>2. CASE LosesRegistry
    BY <2>1, <2>2, LosesComes, ComesStore
  <2>3. CASE (truncated => Saving # {h}) /\ UNCHANGED <<versions, truncated, withdrawn>>
    BY <2>1, <2>3, EndsStore DEF StoreOK, RegistryOK
  <2> QED
    BY <1>6, <2>2, <2>3 DEF SaveFails
<1>7. ASSUME NEW h \in Handlers, Announce(h) PROVE StoreOK'
  <2>1. handler[h].upload \in Uploads /\ h \notin Saving /\ Ends(h)
        /\ UNCHANGED store /\ outbox' \subseteq outbox \cup {handler[h].upload}
    BY <1>7 DEF Announce, At, Saving, StoreOK, HandlerOK
  <2> QED
    BY <2>1, EndsStore DEF store, StoreOK, RegistryOK
<1> QED
  BY <1>1, <1>2, <1>3, <1>4, <1>5, <1>6, <1>7, UnlinkStore, SaveUploadStore,
     SaveDeleteStore, SaveOtherStore, RestartStore DEF Backend

\* What has reached its save is never forgotten.
LEMMA BackendKnown ==
    ASSUME StoreOK, Backend
    PROVE  Known \subseteq Known'
<1>1. ASSUME NEW h \in Handlers, SaveWrite(h) \/ SaveFails(h)
      PROVE  Known \subseteq Known'
  BY <1>1 DEF SaveWrite, SaveFails, Saves, LosesRegistry, Withdraws, Known
<1>2. CASE BackendRestarts
  BY <1>2 DEF BackendRestarts, LosesRegistry, Withdraws, Known
<1>3. ASSUME NEW h \in Handlers,
             \/ \E u \in Uploads : LoadUpload(h, u)
             \/ \E v \in Versions : LoadDelete(h, v)
             \/ LoadOther(h) \/ Rejected(h) \/ Unlink(h)
             \/ SaveUpload(h) \/ SaveDelete(h) \/ SaveOther(h) \/ Announce(h)
      PROVE  Known \subseteq Known'
  BY <1>3
  DEF LoadUpload, LoadDelete, LoadOther, Load, Rejected, Unlink, SaveUpload, SaveDelete,
      SaveOther, Announce, Known, store
<1> QED
  BY <1>1, <1>2, <1>3 DEF Backend

LEMMA StoreNext == StoreOK /\ [Next]_vars => StoreOK'
  BY StoreBackend, OthersLeaveStore DEF Next

(***************************************************************************)
(* The session of the device at the broker                                 *)
(***************************************************************************)
LEMMA SessionNext == SessionOK /\ [Next]_vars => SessionOK'
<1> SUFFICES ASSUME SessionOK, [Next]_vars PROVE SessionOK'
  OBVIOUS
<1>1. CASE Backend \/ UNCHANGED vars
  BY <1>1, BackendLeavesDevice DEF SessionOK, vars, device
<1>2. CASE Deliver
  <2>1. Tail(inbox) \in Seq(Uploads) /\ Len(Tail(inbox)) = Len(inbox) - 1
    BY <1>2 DEF Deliver, SessionOK
  <2>2. Len(inbox) \in Nat /\ MaxInFlight \in Nat
    BY UploadsAssumption DEF SessionOK
  <2>3. mqttConnected /\ mqttConnected' = mqttConnected
    BY <1>2 DEF Deliver, Device!MqttData
  <2> QED
    BY <1>2, <2>1, <2>2, <2>3 DEF Deliver, SessionOK
<1>3. ASSUME NEW u \in Uploads, Forward(u) PROVE SessionOK'
  <2>1. mqttConnected' = mqttConnected /\ Len(inbox) < MaxInFlight
    BY <1>3 DEF Forward, device
  <2>2. CASE mqttConnected
    <3>1. inbox' = Append(inbox, u)
      BY <1>3, <2>2 DEF Forward
    <3>2. inbox' \in Seq(Uploads) /\ Len(inbox') = Len(inbox) + 1
      BY <3>1 DEF SessionOK
    <3>3. Len(inbox) \in Nat /\ MaxInFlight \in Nat
      BY UploadsAssumption DEF SessionOK
    <3> QED
      BY <2>1, <2>2, <3>2, <3>3 DEF SessionOK
  <2>3. CASE ~mqttConnected
    BY <1>3, <2>1, <2>3 DEF Forward, SessionOK
  <2> QED
    BY <2>2, <2>3
<1>4. CASE Download
  BY <1>4 DEF Download, Device!Open, Device!WorkerStep, SessionOK
<1>5. CASE DeviceStep
  <2>1. <<>> \in Seq(Uploads) /\ Len(<<>>) <= MaxInFlight
    BY UploadsAssumption
  <2> QED
    BY <1>5, <2>1 DEF DeviceStep, SessionOK
<1> QED
  BY <1>1, <1>2, <1>3, <1>4, <1>5 DEF Next, Broker, DeviceActs, Failed

(***************************************************************************)
(* Announcements under way                                                 *)
(***************************************************************************)

\* The steps of the device that OtaSystem takes as they are.
OwnStep ==
    \/ Device!Main \/ Worker \/ Device!CallFailed
    \/ Device!MqttConnected \/ Device!MqttDisconnected
    \/ Device!Power

\* None of them makes up a command: a job was queued, a queued command is the
\* one that was there.
LEMMA OwnCommands ==
    ASSUME OwnStep
    PROVE  /\ queued' \in {queued, None}
           /\ workerPc' = "open" => (workerPc = "open" /\ job' = job) \/ job' = queued
<1> USE DEF Device!Reset
<1>1. CASE Device!Main
  BY <1>1
  DEF Device!Main, Device!CheckTrial, Device!CountTrial, Device!NoTrial,
      Device!JudgeTrial, Device!RollBack, Device!NoRollBack, Device!WifiConnected,
      Device!WifiFailed, Device!SelfTestPoll, Device!SelfTestOver, Device!Verdict,
      Device!Commit, Device!ResetCount, Device!ReportCommitted,
      Device!ReportSelfTestFailed, Device!Restart, Device!Announce,
      Device!ReportRunning, Device!MainStep, Device!worker
<1>2. CASE Worker \/ Device!CallFailed
  BY <1>2
  DEF Worker, Device!CallFailed, Device!Receive, Device!Begin, Device!ReadChunk,
      Device!ReadComplete, Device!Validate, Device!End, Device!SetBoot,
      Device!RestartIntoUpdate, Device!ReportFailed, Device!WorkerStep
<1>3. CASE Device!MqttConnected \/ Device!MqttDisconnected \/ Device!Power
  BY <1>3
  DEF Device!MqttConnected, Device!MqttDisconnected, Device!Power, Device!Boot,
      Device!PowerLoss, Device!TornWrite, Device!worker
<1> QED
  BY <1>1, <1>2, <1>3 DEF OwnStep

\* Nothing new is under way unless the backend announces it.
LEMMA UnderWayShrinks ==
    ASSUME StoreOK, SessionOK, Broker \/ DeviceActs \/ UNCHANGED vars
    PROVE  UnderWay' \cap Uploads \subseteq UnderWay
<1>0. None \notin Uploads
  BY UploadsAssumption
<1>1. CASE Deliver
  <2>1. Head(inbox) = inbox[1] /\ 1 \in DOMAIN inbox
    BY <1>1 DEF Deliver, SessionOK
  <2>2. \A k \in DOMAIN Tail(inbox) : k + 1 \in DOMAIN inbox /\ Tail(inbox)[k] = inbox[k + 1]
    BY <1>1 DEF Deliver, SessionOK
  <2>3. UNCHANGED <<outbox, workerPc, job>> /\ inbox' = Tail(inbox)
        /\ queued' \in {queued, Head(inbox)}
    BY <1>1 DEF Deliver, backend, Device!MqttData, Device!worker
  <2> QED
    BY <2>1, <2>2, <2>3 DEF UnderWay
<1>2. ASSUME NEW u \in Uploads, Forward(u)
      PROVE  UnderWay' \cap Uploads \subseteq UnderWay
  <2>1. u \in outbox /\ outbox' \subseteq outbox /\ inbox' \in {inbox, Append(inbox, u)}
        /\ UNCHANGED <<queued, workerPc, job>>
    BY <1>2 DEF Forward, device
  <2>2. CASE inbox' = Append(inbox, u)
    <3>1. \A k \in DOMAIN inbox' : inbox'[k] = u \/ (k \in DOMAIN inbox /\ inbox'[k] = inbox[k])
      BY <2>2 DEF SessionOK
    <3> QED
      BY <2>1, <3>1 DEF UnderWay
  <2>3. CASE inbox' = inbox
    BY <2>1, <2>3 DEF UnderWay
  <2> QED
    BY <2>1, <2>2, <2>3
<1>3. CASE Download
  BY <1>3 DEF Download, Device!Open, Device!WorkerStep, backend, UnderWay
<1>4. CASE OwnStep /\ DeviceStep
  <2>1. outbox' = outbox /\ inbox' \in {inbox, <<>>}
    BY <1>4 DEF DeviceStep, backend
  <2>2. {inbox'[k] : k \in DOMAIN inbox'} \subseteq {inbox[k] : k \in DOMAIN inbox}
    BY <2>1
  <2> QED
    BY <1>0, <1>4, <2>1, <2>2, OwnCommands DEF UnderWay
<1>5. CASE UNCHANGED vars
  BY <1>5 DEF vars, device, backend, UnderWay
<1> QED
  BY <1>1, <1>2, <1>3, <1>4, <1>5 DEF Broker, DeviceActs, Failed, OwnStep

LEMMA AnnouncedOthers ==
    ASSUME StoreOK, SessionOK, AnnouncedOK, Broker \/ DeviceActs \/ UNCHANGED vars
    PROVE  AnnouncedOK'
<1>1. UNCHANGED <<files, withdrawn, handler>> /\ UnderWay' \cap Uploads \subseteq UnderWay
  BY OthersLeaveStore, UnderWayShrinks DEF store
<1>2. \A h \in Handlers : At(h, "upload", "saving") => handler[h].upload \in Uploads
  BY DEF StoreOK, HandlerOK, At
<1> QED
  BY <1>1, <1>2 DEF AnnouncedOK, Known, At, Idle

\* A backend step adds at most the upload it announces, which no other handler
\* is at.
LEMMA AnnouncedBackend ==
    ASSUME StoreOK, AnnouncedOK, Backend
    PROVE  AnnouncedOK'
<1>1. UNCHANGED <<inbox, queued, workerPc, job>>
  BY BackendLeavesDevice DEF device
<1>2. outbox' \subseteq outbox => UnderWay' \subseteq UnderWay
  BY <1>1 DEF UnderWay
<1>3. Known \subseteq Known'
  BY BackendKnown
<1> DEFINE StillSaving(g) == At(g, "upload", "saving") /\ handler'[g].upload = handler[g].upload
<1>4. ASSUME outbox' \subseteq outbox,
             \A g \in Handlers : At(g, "upload", "saving")' => StillSaving(g)
      PROVE  AnnouncedOK'
  BY <1>2, <1>3, <1>4 DEF AnnouncedOK
<1>5. ASSUME NEW h \in Handlers,
             \/ \E u \in Uploads : LoadUpload(h, u)
             \/ \E v \in Versions : LoadDelete(h, v)
             \/ LoadOther(h) \/ Rejected(h) \/ Unlink(h)
             \/ SaveWrite(h) \/ SaveFails(h)
      PROVE  AnnouncedOK'
  <2>1. outbox' = outbox
    BY <1>5 DEF LoadUpload, LoadDelete, LoadOther, Load, Rejected, Unlink, SaveWrite, SaveFails
  <2>2. ASSUME NEW g \in Handlers, At(g, "upload", "saving")'
        PROVE  StillSaving(g)
    <3>1. ASSUME NEW op, NEW u, Load(h, op, u)
          PROVE  StillSaving(g)
      BY <2>2, <3>1 DEF Load, At, Idle, StoreOK
    <3>2. CASE Ends(h)
      BY <2>2, <3>2 DEF Ends, At, Idle, StoreOK
    <3>3. ASSUME NEW pc \in {"unlinked", "saved"}, Goto(h, pc), ~Idle(h)
          PROVE  StillSaving(g)
      <4>1. g # h
        BY <2>2, <3>3 DEF Goto, At, Idle, StoreOK, Handling
      <4> QED
        BY <2>2, <3>3, <4>1 DEF Goto, At, Idle, StoreOK
    <3>4. CASE \/ \E u \in Uploads : LoadUpload(h, u)
               \/ \E v \in Versions : LoadDelete(h, v)
               \/ LoadOther(h)
      BY <3>1, <3>4 DEF LoadUpload, LoadDelete, LoadOther
    <3> QED
      BY <1>5, <3>2, <3>3, <3>4 DEF Rejected, Unlink, SaveWrite, SaveFails, At, Saving
  <2> QED
    BY <1>4, <2>1, <2>2
<1>6. ASSUME NEW h \in Handlers, SaveDelete(h) \/ SaveOther(h)
      PROVE  AnnouncedOK'
  <2>1. ASSUME NEW g \in Handlers, At(g, "upload", "saving")'
        PROVE  StillSaving(g)
    <3>1. handler'[h].op # "upload"
      BY <1>6 DEF SaveDelete, SaveOther, OpenRegistry, At, Idle, StoreOK, Handling
    <3> QED
      BY <1>6, <2>1, <3>1 DEF SaveDelete, SaveOther, OpenRegistry, At, Idle, StoreOK, Handling
  <2> QED
    BY <1>4, <1>6, <2>1 DEF SaveDelete, SaveOther
<1>7. ASSUME NEW h \in Handlers, SaveUpload(h)
      PROVE  AnnouncedOK'
  <2>1. handler[h].upload \in Uploads \ Known
    BY <1>7 DEF SaveUpload, StoreOK, HandlerOK, UploadOK, At
  <2>2. outbox' = outbox /\ handler'[h].upload = handler[h].upload
    BY <1>7 DEF SaveUpload, OpenRegistry, StoreOK, At, Idle, Handling
  <2>3. ASSUME NEW g \in Handlers, g # h, At(g, "upload", "saving")'
        PROVE  StillSaving(g)
    BY <1>7, <2>3 DEF SaveUpload, OpenRegistry, At, Idle, StoreOK, Handling
  <2> QED
    BY <1>2, <1>3, <2>1, <2>2, <2>3 DEF AnnouncedOK
<1>8. ASSUME NEW h \in Handlers, Announce(h)
      PROVE  AnnouncedOK'
  <2>1. /\ handler[h].upload \in Known /\ At(h, "upload", "saved")
        /\ UnderWay' \subseteq UnderWay \cup {handler[h].upload}
    BY <1>1, <1>8 DEF Announce, StoreOK, HandlerOK, UploadOK, At, UnderWay
  <2>2. ASSUME NEW g \in Handlers, At(g, "upload", "saving")'
        PROVE  StillSaving(g) /\ g # h
    BY <1>8, <2>2 DEF Announce, Ends, At, Idle, StoreOK
  <2>3. ASSUME NEW g \in Handlers, StillSaving(g), g # h
        PROVE  handler[g].upload # handler[h].upload
    BY <2>1, <2>3 DEF StoreOK, Apart, At
  <2> QED
    BY <1>3, <2>1, <2>2, <2>3 DEF AnnouncedOK
<1>9. CASE BackendRestarts
  <2>1. outbox' \subseteq outbox /\ \A g \in Handlers : Idle(g)'
    BY <1>9 DEF BackendRestarts, Idle
  <2> QED
    BY <1>4, <2>1 DEF At
<1> QED
  BY <1>5, <1>6, <1>7, <1>8, <1>9 DEF Backend

LEMMA AnnouncedNext == StoreOK /\ SessionOK /\ AnnouncedOK /\ [Next]_vars => AnnouncedOK'
  BY AnnouncedOthers, AnnouncedBackend DEF Next

LEMMA InitAnnounced == Init => StoreOK /\ SessionOK /\ AnnouncedOK
<1> SUFFICES ASSUME Init PROVE StoreOK /\ SessionOK /\ AnnouncedOK
  OBVIOUS
<1>1. <<>> \in Seq(Uploads) /\ Len(<<>>) <= MaxInFlight
  BY UploadsAssumption
<1>2. \A h \in Handlers : Idle(h)
  BY DEF Init, Idle
<1>3. RegistryOK
  BY DEF Init, RegistryOK, Registries, Nothing, Entries, Agrees
<1>4. StoreOK
  BY <1>2, <1>3 DEF Init, StoreOK, Apart
<1>5. UnderWay \cap Uploads = {}
  BY UploadsAssumption DEF Init, Device!Init, UnderWay
<1> QED
  BY <1>1, <1>2, <1>4, <1>5 DEF Init, SessionOK, AnnouncedOK, At

LEMMA AnnouncedInvariance == Spec => [](StoreOK /\ SessionOK /\ AnnouncedOK)
  BY InitAnnounced, StoreNext, SessionNext, AnnouncedNext, PTL DEF Spec

\* Whatever is under way has its file; it is in the registry too, unless that
\* is being saved, and then on behalf of something else.
LEMMA AnnouncedFound == StoreOK /\ AnnouncedOK => AnnouncedDownloadable
<1> SUFFICES ASSUME StoreOK, AnnouncedOK, NEW u \in UnderWay \cap Uploads, u \notin withdrawn
             PROVE  u \in files /\ (versions[u.version] = u \/ HiddenBySave(u))
  BY DEF AnnouncedDownloadable
<1>1. u \in files
  BY DEF AnnouncedOK, Known
<1>2. CASE ~truncated
  BY <1>1, <1>2 DEF StoreOK, RegistryOK, Agrees
<1>3. CASE truncated
  <2>1. PICK h \in Saving : TRUE
    BY <1>3 DEF StoreOK, RegistryOK
  <2>2. h \in Handlers /\ HandlerOK(h) /\ handler[h].at = "saving" /\ ~Idle(h)
    BY <2>1 DEF Saving, StoreOK
  <2>3. handler[h].upload # u
    BY <2>2, UploadVersion DEF StoreOK, Idle, Handling, HandlerOK, DeleteOK, AnnouncedOK, At
  <2> QED
    BY <1>1, <1>3, <2>1, <2>3 DEF HiddenBySave
<1> QED
  BY <1>2, <1>3

\* An announcement promises a download: wherever it is between the publisher
\* and the worker, its version is registered, with the announced file, or
\* hidden while the registry is saved for another version, until it is
\* withdrawn.  Handlers overlap as they like: what a delete, a save that was
\* cut off and the save of an older copy take away is withdrawn, and nothing
\* else is (main.py:358-415, ota_handler.c).
THEOREM SystemAnnouncedDownloadable == Spec => []AnnouncedDownloadable
  BY AnnouncedFound, AnnouncedInvariance, PTL

\* The device of the whole system behaves as DeviceUpdate says: the broker
\* delivers to it only commands that were announced, and its downloads are
\* files that were uploaded.
THEOREM SystemDevice == Spec => Device!Spec
<1>1. Init => Device!Init
  BY DEF Init
<1> QED
  BY <1>1, DeviceSteps, AnnouncedInvariance, PTL DEF Spec, Device!Spec

(***************************************************************************)
(* What is proved of DeviceUpdate holds of the device of the system.  The  *)
(* assumptions of DeviceUpdate are among those of OtaSystem.               *)
(***************************************************************************)
Facts == INSTANCE DeviceUpdateProofs WITH Commands <- Uploads

LEMMA DeviceUpdateAssumptions ==
    /\ Bootable \subseteq Images /\ Broken \subseteq Bootable
    /\ Factory \in Bootable \ Broken
    /\ Size \in [Images -> Nat \ {0}]
    /\ Blank \notin Images /\ None \notin Images
    /\ \A c \in Uploads : c.image \in Images /\ c.size \in Nat
    /\ None \notin Uploads
    /\ MaxReboots \in Nat \ {0} /\ Polls \in Nat
    /\ RollbackEnabled \in BOOLEAN /\ Faults \subseteq {"nvs", "otadata"}
  BY UploadsAssumption, DeviceAssumption

\* Device and Facts are two instances of the same specification.
LEMMA SameDevice == Device!Spec => Facts!Spec
<1>1. Device!Init => Facts!Init
  BY DEF Device!Init, Facts!Init, Device!Slots, Facts!Slots, Device!NoDownload,
         Facts!NoDownload
<1>2. [Device!Next]_(Device!vars) => [Facts!Next]_(Facts!vars)
  BY DEF
      Device!Next, Facts!Next, Device!Main, Facts!Main, Device!CheckTrial,
      Facts!CheckTrial, Device!CountTrial, Facts!CountTrial, Device!NoTrial,
      Facts!NoTrial, Device!StoredCounts, Facts!StoredCounts, Device!RollBack,
      Facts!RollBack, Device!NoRollBack, Facts!NoRollBack, Device!JudgeTrial, Facts!JudgeTrial, Device!WifiConnected,
      Facts!WifiConnected, Device!WifiFailed, Facts!WifiFailed, Device!SelfTestPoll,
      Facts!SelfTestPoll, Device!SelfTestOver, Facts!SelfTestOver, Device!Verdict,
      Facts!Verdict, Device!Commit, Facts!Commit, Device!ResetCount,
      Facts!ResetCount, Device!ReportCommitted, Facts!ReportCommitted,
      Device!ReportSelfTestFailed, Facts!ReportSelfTestFailed, Device!Restart,
      Facts!Restart, Device!Announce, Facts!Announce, Device!ReportRunning,
      Facts!ReportRunning, Device!Mqtt, Facts!Mqtt, Device!MqttConnected,
      Facts!MqttConnected, Device!MqttDisconnected, Facts!MqttDisconnected,
      Device!MqttData, Facts!MqttData, Device!Worker, Facts!Worker, Device!Receive,
      Facts!Receive, Device!Open, Facts!Open, Device!Begin, Facts!Begin,
      Device!ReadChunk, Facts!ReadChunk, Device!ReadComplete, Facts!ReadComplete,
      Device!Validate, Facts!Validate, Device!End, Facts!End, Device!SetBoot,
      Facts!SetBoot, Device!CallFailed, Facts!CallFailed, Device!RestartIntoUpdate,
      Facts!RestartIntoUpdate, Device!ReportFailed, Facts!ReportFailed,
      Device!Power, Facts!Power, Device!Boot, Facts!Boot, Device!PowerLoss,
      Facts!PowerLoss, Device!TornWrite, Facts!TornWrite, Device!Rewriting,
      Facts!Rewriting, Device!Reset, Facts!Reset, Device!MainStep, Facts!MainStep,
      Device!WorkerStep, Facts!WorkerStep, Device!Publish, Facts!Publish,
      Device!Matches, Facts!Matches, Device!Target, Facts!Target, Device!NextBoot,
      Facts!NextBoot, Device!Active, Facts!Active, Device!NoDownload,
      Facts!NoDownload, Device!Capped, Facts!Capped, Device!MqttStarted,
      Facts!MqttStarted, Device!vars, Facts!vars, Device!flash, Facts!flash,
      Device!trial, Facts!trial, Device!worker, Facts!worker, Device!Slots,
      Facts!Slots, Device!Other, Facts!Other, Device!Selectable, Facts!Selectable,
      Device!Selected, Facts!Selected, Device!AbortPending, Facts!AbortPending,
      Device!StartTrial, Facts!StartTrial, Device!RollbackPossible,
      Facts!RollbackPossible
<1> QED
  BY <1>1, <1>2, PTL DEF Device!Spec, Facts!Spec

\* Bad firmware, a cut-off download or a lost connection never brick a device
\* of the system, whatever the backend does meanwhile.
THEOREM SystemNeverBricked == Spec => []Device!NeverBricked
<1>1. Facts!NeverBricked => Device!NeverBricked
  BY DEF
      Device!NeverBricked, Facts!NeverBricked, Device!BootableNext,
      Facts!BootableNext, Device!FallbackIntact, Facts!FallbackIntact,
      Device!Undecided, Facts!Undecided, Device!NextBoot, Facts!NextBoot,
      Device!Active, Facts!Active, Device!Slots, Facts!Slots, Device!Other,
      Facts!Other, Device!Selectable, Facts!Selectable, Device!Selected,
      Facts!Selected, Device!AbortPending, Facts!AbortPending
<1>2. Facts!Spec => []Facts!NeverBricked
  BY Facts!DeviceNeverBricked, DeviceUpdateAssumptions DEF Facts!DeviceNeverBricked
<1> QED
  BY <1>1, <1>2, SystemDevice, SameDevice, PTL

\* The variables of the device keep their types.
LEMMA DeviceTypes == Spec => []Device!TypeOK
<1>1. Facts!TypeOK => Device!TypeOK
  BY DEF
      Device!TypeOK, Facts!TypeOK, Device!Slots, Facts!Slots, Device!EntryStates,
      Facts!EntryStates, Device!Contents, Facts!Contents, Device!MainPcs,
      Facts!MainPcs, Device!WorkerPcs, Facts!WorkerPcs, Device!Reports,
      Facts!Reports
<1>2. Facts!Spec => []Facts!TypeOK
  BY Facts!TypeCorrect, DeviceUpdateAssumptions DEF Facts!TypeCorrect
<1> QED
  BY <1>1, <1>2, SystemDevice, SameDevice, PTL

(***************************************************************************)
(* What a late download got                                                *)
(***************************************************************************)

\* The file registered for a version after an upload of that version was
\* withdrawn is another one, of another image.
LEMMA ServedAfterWithdrawal ==
    ASSUME StoreOK, job \in withdrawn, versions[job.version] \in files
    PROVE  versions[job.version].image # job.image
<1>1. job \in Uploads /\ job.version \in Versions
  BY UploadVersion DEF StoreOK, RegistryOK
<1>2. versions[job.version] \in Uploads /\ versions[job.version].version = job.version
  BY <1>1, UploadVersion DEF StoreOK, RegistryOK, Entries
<1>3. versions[job.version] # job
  BY <1>1, <1>2, UploadVersion DEF StoreOK, RegistryOK, Agrees, Nothing
<1> QED
  BY <1>1, <1>2, <1>3, UploadsAssumption

\* The device's own steps keep what the download is of, until it is checked
\* against the command.
LEMMA OwnLate ==
    ASSUME LateOK, Device!TypeOK, OwnStep, late' = late
    PROVE  LateOK'
<1> USE DEF LateOK, Device!Reset
<1>1. CASE Device!Main
  BY <1>1
  DEF Device!Main, Device!CheckTrial, Device!CountTrial, Device!NoTrial,
      Device!JudgeTrial, Device!RollBack, Device!NoRollBack, Device!WifiConnected,
      Device!WifiFailed, Device!SelfTestPoll, Device!SelfTestOver, Device!Verdict,
      Device!Commit, Device!ResetCount, Device!ReportCommitted,
      Device!ReportSelfTestFailed, Device!Restart, Device!Announce,
      Device!ReportRunning, Device!MainStep, Device!worker
<1>2. CASE Device!ReadChunk
  <2>1. download'.image = download.image
    BY <1>2 DEF Device!ReadChunk, Device!TypeOK
  <2> QED
    BY <1>2, <2>1 DEF Device!ReadChunk, Device!WorkerStep
<1>3. CASE Device!Validate
  BY <1>3 DEF Device!Validate, Device!WorkerStep, Device!Matches
<1>4. CASE \/ Device!Receive \/ Device!Begin \/ Device!ReadComplete \/ Device!End
           \/ Device!SetBoot \/ Device!RestartIntoUpdate \/ Device!ReportFailed
           \/ Device!CallFailed
  BY <1>4
  DEF Device!CallFailed, Device!Receive, Device!Begin, Device!ReadComplete,
      Device!End, Device!SetBoot, Device!RestartIntoUpdate, Device!ReportFailed,
      Device!WorkerStep
<1>5. CASE Device!MqttConnected \/ Device!MqttDisconnected \/ Device!Power
  BY <1>5
  DEF Device!MqttConnected, Device!MqttDisconnected, Device!Power, Device!Boot,
      Device!PowerLoss, Device!TornWrite, Device!worker
<1> QED
  BY <1>1, <1>2, <1>3, <1>4, <1>5 DEF OwnStep, Worker

LEMMA LateNext == StoreOK /\ Device!TypeOK /\ LateOK /\ [Next]_vars => LateOK'
<1> SUFFICES ASSUME StoreOK, Device!TypeOK, LateOK, [Next]_vars PROVE LateOK'
  OBVIOUS
<1>1. CASE Download
  <2>1. workerPc' = "begin" /\ job' = job
        /\ download'.image = versions[job.version].image
    BY <1>1 DEF Download, Device!Open, Device!WorkerStep
  <2>2. versions[job.version] \in files
    BY <1>1 DEF Download, Served
  <2>3. late' = (job \in withdrawn)
    BY <1>1 DEF Download
  <2>4. (job \in withdrawn) \in BOOLEAN
    OBVIOUS
  <2>5. late' \in BOOLEAN
    BY <2>3, <2>4, Zenon
  <2>6. late' => download'.image # job'.image
    BY <2>1, <2>2, <2>3, ServedAfterWithdrawal
  <2> QED
    BY <2>1, <2>5, <2>6 DEF LateOK
<1>2. CASE OwnStep /\ DeviceStep
  BY <1>2, OwnLate DEF DeviceStep
<1>3. CASE Backend \/ Broker \/ UNCHANGED vars
  <2>1. UNCHANGED <<late, workerPc, job, download>>
    BY <1>3, BackendLeavesDevice
    DEF Broker, Deliver, Forward, Device!MqttData, Device!worker, vars, device
  <2> QED
    BY <2>1 DEF LateOK
<1> QED
  BY <1>1, <1>2, <1>3 DEF Next, DeviceActs, Failed, OwnStep

LEMMA LateInvariance == Spec => []LateOK
<1>1. Init => LateOK
  BY DEF Init, LateOK
<1> QED
  BY <1>1, LateNext, DeviceTypes, AnnouncedInvariance, PTL DEF Spec

\* Every variable always has its type, a registered upload has its file unless
\* it was withdrawn, and a device that is away has no session.
THEOREM SystemTypeCorrect == Spec => []TypeOK
<1>1. Device!TypeOK /\ StoreOK /\ SessionOK /\ LateOK => TypeOK
  <2> SUFFICES ASSUME Device!TypeOK, StoreOK, SessionOK, LateOK PROVE TypeOK
    OBVIOUS
  <2>1. \A v \in Versions : versions[v] \in files \cup withdrawn \cup {None}
    BY DEF StoreOK, RegistryOK, Entries, Known
  <2>2. \A s \in {files, outbox, withdrawn} : s \subseteq Uploads
    BY DEF StoreOK, RegistryOK
  <2>3. versions \in Registries /\ truncated \in BOOLEAN
        /\ handler \in [Handlers -> Handling \cup {None}]
    BY DEF StoreOK, RegistryOK
  <2> QED
    BY <2>1, <2>2, <2>3 DEF TypeOK, SessionOK, LateOK
<1> QED
  BY <1>1, DeviceTypes, AnnouncedInvariance, LateInvariance, PTL

\* A version withdrawn before the device asks for its file is not installed,
\* even if other bytes were uploaded under its name since: the registry serves
\* those bytes, and their digest is not the announced one (main.py:401-433,
\* ota_handler.c).
THEOREM SystemWithdrawnNotInstalled == Spec => WithdrawnNotInstalled
<1> DEFINE Installs == workerPc = "setBoot" /\ workerPc' = "reboot" => ~late
<1>1. LateOK /\ [Next]_vars => [Installs]_vars
  BY DEF LateOK
<1>2. Spec => [][Installs]_vars
  BY <1>1, LateInvariance, PTL DEF Spec
<1> QED
  BY <1>2 DEF WithdrawnNotInstalled
=============================================================================

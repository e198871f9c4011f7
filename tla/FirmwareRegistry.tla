-------------------------- MODULE FirmwareRegistry --------------------------
(***************************************************************************)
(* The version store of main.py: registry.json and the firmware files, and *)
(* the handlers that upload, delete and download a version.  A handler     *)
(* runs without interruption between two awaits and every file operation   *)
(* is awaited, so the handlers of several clients interleave there; each   *)
(* works on its own copy of the registry, loaded at its start.             *)
(*                                                                         *)
(* A file stands for its bytes and for their digest.  Authentication, the  *)
(* schema and the signature are checked before a handler touches the       *)
(* store: the requests of this module are those that passed.               *)
(***************************************************************************)
EXTENDS Integers, FiniteSets

CONSTANTS
    Clients,        \* connections, each with at most one request
    Versions,
    Files,
    Short,          \* content of the wrong size: cut off, or still being written
    None,
    Requests,       \* the requests clients make
    SafeVersion,    \* SafeVersion[v]: v as it appears in a file name
    Settings        \* the settings a behaviour may be in, of the two below

\* "serial": clients wait for each other's uploads and deletes, but the server
\* may be restarted and writing a file may fail.  "overlapping": uploads and
\* deletes overlap freely, and nothing is cut off.
AllSettings == {"serial", "overlapping"}

Contents == Files \cup {Short}

Uploads   == [op : {"upload"}, version : Versions, file : Files, body : Contents]
Deletes   == [op : {"delete"}, version : Versions]
Downloads == [op : {"download"}, version : Versions]

ASSUME RequestsAssumption ==
    /\ Requests \subseteq Uploads \cup Deletes \cup Downloads
    /\ None \notin Requests \cup Contents /\ Short \notin Files
    /\ Settings \subseteq AllSettings
ASSUME NamesAssumption == IsFiniteSet(Versions) /\ DOMAIN SafeVersion = Versions

VARIABLES
    setting,   \* how clients and disk behave; never changes
    registry,  \* registry.json: the digest of each version, or None
    regState,  \* "whole", "truncated" (opened to be written) or "garbage"
    blobs,     \* the firmware files by storage name
    pc, request, \* the handler of each client and what it serves
    snapshot,  \* its copy of the registry
    lost,      \* the file it is writing was unlinked
    reply,     \* the last answer each client got
    acked,     \* ghost: the versions clients were told of and not deleted since
    interrupted \* ghost: a restart or a full disk has cut a handler off

store    == <<setting, registry, regState, blobs>>
handlers == <<pc, request, snapshot, lost, reply>>
ghosts   == <<acked, interrupted>>
vars     == <<store, handlers, ghosts>>

\* _storage_filename
StorageName(v, f) == <<SafeVersion[v], f>>
StorageNames == {StorageName(v, f) : v \in Versions, f \in Files}

Empty == [v \in Versions |-> None]
Registries == [Versions -> Files \cup {None}]

Replies == {"none", "created", "deleted", "served", "notFound", "conflict",
            "badRequest", "serverError"}
Pcs == {"free", "load", "loaded", "stream", "hash", "accepted", "rejected",
        "unlinked", "saving", "saved", "serving"}

Init ==
    /\ setting \in Settings
    /\ registry = Empty /\ regState = "whole"
    /\ blobs = [n \in StorageNames |-> None]
    /\ pc = [c \in Clients |-> "free"]
    /\ request = [c \in Clients |-> None]
    /\ snapshot = [c \in Clients |-> Empty]
    /\ lost = [c \in Clients |-> FALSE]
    /\ reply = [c \in Clients |-> "none"]
    /\ acked = Empty
    /\ interrupted = FALSE

\* The storage name of the file an upload writes.
Dest(c) == StorageName(request[c].version, request[c].file)

Writing(c) == pc[c] # "free" /\ request[c].op # "download"

Goto(c, p) == pc' = [pc EXCEPT ![c] = p]

\* The handler returns: its locals are gone.
Finish(c, answer) ==
    /\ Goto(c, "free")
    /\ request' = [request EXCEPT ![c] = None]
    /\ snapshot' = [snapshot EXCEPT ![c] = Empty]
    /\ lost' = [lost EXCEPT ![c] = FALSE]
    /\ reply' = [reply EXCEPT ![c] = answer]

\* The file is gone; a handler that has it open writes to nowhere.
UnlinkedBlobs(n) == [blobs EXCEPT ![n] = None]
Orphans(n) ==
    [d \in Clients |-> lost[d] \/ (pc[d] = "stream" /\ Dest(d) = n)]

(***************************************************************************)
(* Every handler: arrival and _load_registry                               *)
(***************************************************************************)
Arrive(c, r) ==
    /\ pc[c] = "free"
    /\ setting = "serial" /\ r.op # "download" => \A d \in Clients : ~Writing(d)
    /\ Goto(c, "load")
    /\ request' = [request EXCEPT ![c] = r]
    /\ reply' = [reply EXCEPT ![c] = "none"]
    /\ UNCHANGED <<store, snapshot, lost, ghosts>>

\* Bug: what is left of a registry being written is taken for its content.
LoadTorn(c) ==
    /\ pc[c] = "load"
    /\ Goto(c, "loaded")
    /\ snapshot' = [snapshot EXCEPT ![c] =
                      IF regState = "whole" THEN registry
                      ELSE [v \in Versions |-> Short]]
    /\ UNCHANGED <<store, request, lost, reply, ghosts>>

\* A registry that does not parse is taken for an empty one.
LoadRegistry(c) ==
    /\ pc[c] = "load"
    /\ Goto(c, "loaded")
    /\ snapshot' = [snapshot EXCEPT ![c] =
                      IF regState = "whole" THEN registry ELSE Empty]
    /\ UNCHANGED <<store, request, lost, reply, ghosts>>

Loaded(c, op) == pc[c] = "loaded" /\ request[c].op = op
Found(c) == snapshot[c][request[c].version]

(***************************************************************************)
(* upload_firmware                                                         *)
(***************************************************************************)
RejectDuplicate(c) ==
    /\ Loaded(c, "upload") /\ Found(c) # None
    /\ Finish(c, "conflict")
    /\ UNCHANGED <<store, ghosts>>

\* Bug: the version is not looked up.
OpenUnchecked(c) ==
    /\ Loaded(c, "upload")
    /\ blobs' = [blobs EXCEPT ![Dest(c)] = Short]
    /\ Goto(c, "stream")
    /\ UNCHANGED <<setting, registry, regState, request, snapshot, lost, reply, ghosts>>

\* Bug: the version is registered before its file was verified.
OpenRegisters(c) ==
    /\ Loaded(c, "upload") /\ Found(c) = None
    /\ blobs' = [blobs EXCEPT ![Dest(c)] = Short]
    /\ registry' = [registry EXCEPT ![request[c].version] = request[c].file]
    /\ Goto(c, "stream")
    /\ UNCHANGED <<setting, regState, request, snapshot, lost, reply, ghosts>>

\* open(dest_path, "wb") truncates.
OpenBlob(c) ==
    /\ Loaded(c, "upload") /\ Found(c) = None
    /\ blobs' = [blobs EXCEPT ![Dest(c)] = Short]
    /\ Goto(c, "stream")
    /\ UNCHANGED <<setting, registry, regState, request, snapshot, lost, reply, ghosts>>

\* The body is written; its size is compared first.
Stream(c) ==
    /\ pc[c] = "stream"
    /\ blobs' = IF lost[c] THEN blobs ELSE [blobs EXCEPT ![Dest(c)] = request[c].body]
    /\ Goto(c, IF request[c].body = Short THEN "rejected" ELSE "hash")
    /\ UNCHANGED <<setting, registry, regState, request, snapshot, lost, reply, ghosts>>

\* An OSError while writing: 500, and what was written stays.
StreamFails(c) ==
    /\ setting = "serial"
    /\ pc[c] = "stream"
    /\ Finish(c, "serverError")
    /\ UNCHANGED <<store, ghosts>>

\* Bug: the digest is not compared.
HashAccepts(c) ==
    /\ pc[c] = "hash"
    /\ Goto(c, "accepted")
    /\ UNCHANGED <<store, request, snapshot, lost, reply, ghosts>>

\* _compute_sha256 reads the file back, whoever wrote it last.
Hash(c) ==
    /\ pc[c] = "hash"
    /\ IF blobs[Dest(c)] = None
       THEN Finish(c, "serverError")
       ELSE /\ Goto(c, IF blobs[Dest(c)] = request[c].file
                       THEN "accepted" ELSE "rejected")
            /\ UNCHANGED <<request, snapshot, lost, reply>>
    /\ UNCHANGED <<store, ghosts>>

RejectUpload(c) ==
    /\ pc[c] = "rejected"
    /\ blobs' = UnlinkedBlobs(Dest(c))
    /\ Goto(c, "free")
    /\ request' = [request EXCEPT ![c] = None]
    /\ snapshot' = [snapshot EXCEPT ![c] = Empty]
    /\ lost' = [Orphans(Dest(c)) EXCEPT ![c] = FALSE]
    /\ reply' = [reply EXCEPT ![c] = "badRequest"]
    /\ UNCHANGED <<setting, registry, regState, ghosts>>

(***************************************************************************)
(* _save_registry, for uploads and deletes                                 *)
(***************************************************************************)

\* Bug: the change is not made to the handler's copy.
SaveUnchanged(c) ==
    /\ pc[c] \in {"accepted", "unlinked"}
    /\ registry' = Empty /\ regState' = "truncated"
    /\ Goto(c, "saving")
    /\ UNCHANGED <<setting, blobs, request, snapshot, lost, reply, ghosts>>

\* The handler's copy with its change; open(REGISTRY_PATH, "w") truncates.
SaveOpen(c) ==
    /\ pc[c] \in {"accepted", "unlinked"}
    /\ snapshot' = [snapshot EXCEPT ![c][request[c].version] =
                      IF pc[c] = "accepted" THEN request[c].file ELSE None]
    /\ registry' = Empty /\ regState' = "truncated"
    /\ Goto(c, "saving")
    /\ UNCHANGED <<setting, blobs, request, lost, reply, ghosts>>

\* How many versions a registry has; the longer one has the longer text.
Count(r) == Cardinality({v \in Versions : r[v] # None})

\* Writing from the start over what another handler wrote since this one
\* opened the file leaves the tail of a longer text behind.
Overwrites(new) ==
    \/ regState = "truncated"
    \/ regState = "whole" /\ Count(new) >= Count(registry)
    \/ regState = "garbage"
LeavesTail(new) ==
    \/ regState = "whole" /\ Count(new) <= Count(registry)
    \/ regState = "garbage"

SaveWrite(c) ==
    /\ pc[c] = "saving"
    /\ \/ Overwrites(snapshot[c]) /\ registry' = snapshot[c] /\ regState' = "whole"
       \/ LeavesTail(snapshot[c]) /\ registry' = Empty /\ regState' = "garbage"
    /\ Goto(c, "saved")
    /\ UNCHANGED <<setting, blobs, request, snapshot, lost, reply, ghosts>>

\* An OSError while writing is not caught: 500, and the registry is lost.
SaveFails(c) ==
    /\ setting = "serial"
    /\ pc[c] = "saving"
    /\ Finish(c, "serverError")
    /\ interrupted' = TRUE
    /\ UNCHANGED <<store, acked>>

\* The MQTT announcement (whatever comes of it) and the answer.
Answer(c) ==
    /\ pc[c] = "saved"
    /\ LET upload == request[c].op = "upload"
       IN  /\ Finish(c, IF upload THEN "created" ELSE "deleted")
           /\ acked' = [acked EXCEPT ![request[c].version] =
                          IF upload THEN request[c].file ELSE None]
    /\ UNCHANGED <<store, interrupted>>

(***************************************************************************)
(* delete_firmware and download_firmware                                   *)
(***************************************************************************)
NotFound(c) ==
    /\ Loaded(c, "delete") \/ Loaded(c, "download")
    /\ Found(c) = None
    /\ Finish(c, "notFound")
    /\ UNCHANGED <<store, ghosts>>

DeleteBlob(c) ==
    /\ Loaded(c, "delete") /\ Found(c) # None
    /\ LET n == StorageName(request[c].version, Found(c))
       IN  blobs' = UnlinkedBlobs(n) /\ lost' = Orphans(n)
    /\ Goto(c, "unlinked")
    /\ UNCHANGED <<setting, registry, regState, request, snapshot, reply, ghosts>>

FindBlob(c) ==
    /\ Loaded(c, "download") /\ Found(c) # None
    /\ IF blobs[StorageName(request[c].version, Found(c))] = None
       THEN Finish(c, "notFound")
       ELSE Goto(c, "serving") /\ UNCHANGED <<request, snapshot, lost, reply>>
    /\ UNCHANGED <<store, ghosts>>

\* FileResponse sends what the file holds by then.
Serve(c) ==
    /\ pc[c] = "serving"
    /\ Finish(c, IF blobs[StorageName(request[c].version, Found(c))] = None
                 THEN "serverError" ELSE "served")
    /\ UNCHANGED <<store, ghosts>>

(***************************************************************************)
(* A restart of the server ends every handler; the files stay.             *)
(***************************************************************************)
Crash ==
    /\ setting = "serial"
    /\ \E c \in Clients : pc[c] # "free"
    /\ pc' = [c \in Clients |-> "free"]
    /\ request' = [c \in Clients |-> None]
    /\ snapshot' = [c \in Clients |-> Empty]
    /\ lost' = [c \in Clients |-> FALSE]
    /\ reply' = [c \in Clients |-> "none"]
    /\ interrupted' = TRUE
    /\ UNCHANGED <<store, acked>>

Handler(c) ==
    \/ LoadRegistry(c)
    \/ RejectDuplicate(c) \/ OpenBlob(c) \/ Stream(c) \/ StreamFails(c)
    \/ Hash(c) \/ RejectUpload(c)
    \/ SaveOpen(c) \/ SaveWrite(c) \/ SaveFails(c) \/ Answer(c)
    \/ NotFound(c) \/ DeleteBlob(c) \/ FindBlob(c) \/ Serve(c)

Next ==
    \/ \E c \in Clients : Handler(c) \/ \E r \in Requests : Arrive(c, r)
    \/ Crash

Spec == Init /\ [][Next]_vars

(***************************************************************************)
(* Properties                                                              *)
(***************************************************************************)

\* Every variable keeps its type.
TypeOK ==
    /\ setting \in Settings
    /\ registry \in Registries
    /\ regState \in {"whole", "truncated", "garbage"}
    /\ blobs \in [StorageNames -> Contents \cup {None}]
    /\ pc \in [Clients -> Pcs]
    /\ request \in [Clients -> Requests \cup {None}]
    /\ snapshot \in [Clients -> Registries]
    /\ lost \in [Clients -> BOOLEAN]
    /\ reply \in [Clients -> Replies]
    /\ acked \in Registries
    /\ interrupted \in BOOLEAN

\* No upload or delete is being handled.
Quiet == \A c \in Clients : ~Writing(c)

Blob(v) == blobs[StorageName(v, registry[v])]

\* Uploads and deletes came one after the other and none was cut off.
Undisturbed == setting = "serial" /\ ~interrupted

\* When nobody writes, every registered version can be downloaded, with the
\* bytes that were verified, as long as no delete was cut off.
RegisteredDownloadable ==
    Quiet /\ Undisturbed => \A v \in Versions : registry[v] # None => Blob(v) = registry[v]

\* When nobody writes, the registry holds what clients were told: every 201
\* not followed by a delete, and nothing that was deleted, as long as no
\* upload or delete was cut off.
AckedRegistered == Quiet /\ Undisturbed => regState = "whole" /\ registry = acked

\* README.md:182: a version never changes its file, a second upload is refused
\* until the version was deleted, or the registry lost.
OneFilePerVersion ==
    [][~interrupted => \A v \in Versions :
         acked[v] # None /\ acked'[v] # None => acked'[v] = acked[v]]_vars

\* A registered version is whole or missing, never other bytes: whatever step
\* of an upload or a delete a restart or a full disk cut off, and however
\* uploads and deletes that all run to their end overlap.
NeverCorrupt ==
    Quiet => \A v \in Versions :
               registry[v] # None => Blob(v) \in {registry[v], None}

(***************************************************************************)
(* With one writer at a time the store implements VersionStore.            *)
(***************************************************************************)

\* What the registry stands for: while it is being saved, the copy of the
\* handler that saves it.  Nothing is claimed of writers that overlap.
Registered ==
    IF setting # "serial" THEN Empty
    ELSE IF regState = "whole" THEN registry
    ELSE LET saving == {c \in Clients : pc[c] = "saving"}
         IN  IF saving = {} THEN Empty
             ELSE snapshot[CHOOSE c \in saving : TRUE]

Abstract == INSTANCE VersionStore WITH versions <- Registered

\* The many awaits of upload_firmware, delete_firmware and _save_registry are,
\* from outside, one step that adds an absent version or removes a present
\* one; a restart or a full disk in the middle of a save empties the store.
ImplementsVersionStore == Abstract!Spec

\* A download checks the version, then the file, and opens the file later
\* (main.py:457-471): what it sends is the registered file nevertheless,
\* unless the version was withdrawn in between.
ServedAsRegistered ==
    [][\A c \in Clients :
         setting = "serial" /\ pc[c] = "serving" /\ reply'[c] = "served" =>
           LET v == request[c].version
           IN  \/ blobs[StorageName(v, Found(c))] = Found(c)
               \/ Registered[v] # Found(c)]_vars
=============================================================================

----------------------- MODULE FirmwareRegistryProofs -----------------------
(***************************************************************************)
(* What FirmwareRegistry keeps, for any clients, versions, files and       *)
(* requests.  The two settings rest on different invariants: with one      *)
(* writer at a time, that the writer's copy is the registry; with writers  *)
(* that overlap, that whoever left a file in pieces is still at work on it.*)
(***************************************************************************)
EXTENDS FirmwareRegistry, TLAPS

\* No two versions get the same storage name.  _storage_filename replaces
\* every character outside a-zA-Z0-9._- by _ (main.py:161), so this is a
\* hypothesis about the versions in use, not a fact about the code.
NamesDistinct ==
    \A v, w \in Versions : SafeVersion[v] = SafeVersion[w] => v = w

Uploading == {"stream", "hash", "accepted", "rejected"}
Saving == {"saving", "saved"}

\* A handler serves a request of its kind, and has not answered it.
HandlersOK ==
    \A c \in Clients :
        /\ (pc[c] = "free") <=> (request[c] = None)
        /\ pc[c] # "free" => reply[c] = "none"
        /\ pc[c] \in Uploading => request[c].op = "upload"
        /\ pc[c] = "unlinked" => request[c].op = "delete"
        /\ pc[c] \in Saving => request[c].op # "download"
        /\ pc[c] = "serving" => request[c].op = "download" /\ Found(c) # None

AtWork(c) == pc[c] \in {"stream", "hash", "rejected"}

\* Overlapping: a file that is not what its name says is still being worked
\* on, by an upload that will find out.
BrokenOwned ==
    setting = "overlapping" =>
        \A n \in StorageNames :
            \/ blobs[n] \in {n[2], None}
            \/ \E c \in Clients : AtWork(c) /\ Dest(c) = n

OneWriter == \A c, d \in Clients : Writing(c) /\ Writing(d) => c = d

\* The registry is whole unless it is being saved or a save was cut off.
RegistryOK ==
    /\ regState \in {"whole", "truncated"}
    /\ regState = "truncated" =>
         registry = Empty /\ (interrupted \/ \E c \in Clients : pc[c] = "saving")
    /\ \A c \in Clients : pc[c] = "saving" => regState = "truncated"

\* The writer's copy is the registry, whatever it is about to do to it.
CopyOK ==
    \A c \in Clients :
        /\ Writing(c) /\ pc[c] # "load" => snapshot[c] = Registered
        /\ pc[c] \in Uploading => Found(c) = None
        /\ pc[c] = "unlinked" => Found(c) # None
        /\ pc[c] = "accepted" => blobs[Dest(c)] = request[c].file

Removing(v) == \E c \in Clients : pc[c] = "unlinked" /\ request[c].version = v

\* The file of a registered version is whole, or missing: only while the
\* version is being deleted, unless a delete was cut off.
FilesOK ==
    \A v \in Versions :
        Registered[v] # None =>
            \/ blobs[StorageName(v, Registered[v])] = Registered[v]
            \/ /\ blobs[StorageName(v, Registered[v])] = None
               /\ interrupted \/ Removing(v)

\* What clients were told is the registry, but for the change being saved,
\* which adds only versions that clients were not told of.
AckedOK ==
    ~interrupted =>
        /\ (\A c \in Clients : pc[c] \notin Saving) => registry = acked
        /\ \A c \in Clients :
             pc[c] \in Saving =>
                 /\ snapshot[c] = [acked EXCEPT ![request[c].version] =
                      IF request[c].op = "upload" THEN request[c].file ELSE None]
                 /\ request[c].op = "upload" => acked[request[c].version] = None

Serially == OneWriter /\ RegistryOK /\ CopyOK /\ AckedOK

IInv == TypeOK /\ HandlersOK /\ BrokenOwned /\ (setting = "serial" => Serially)

\* With distinct names, files too.
FInv == IInv /\ (NamesDistinct /\ setting = "serial" => FilesOK)

(***************************************************************************)
(* What a handler serves.                                                  *)
(***************************************************************************)
LEMMA Serving ==
  ASSUME TypeOK, HandlersOK, NEW c \in Clients, pc[c] # "free"
  PROVE  /\ request[c] \in Requests /\ request[c] \in Uploads \cup Deletes \cup Downloads
         /\ request[c].version \in Versions
         /\ Found(c) \in Files \cup {None}
         /\ None \notin Files
<1>1. request[c] \in Requests
  BY DEF TypeOK, HandlersOK
<1>2. request[c] \in Uploads \cup Deletes \cup Downloads /\ None \notin Files
  BY <1>1, RequestsAssumption DEF Contents
<1>3. request[c].version \in Versions
  BY <1>2 DEF Uploads, Deletes, Downloads
<1> QED
  BY <1>1, <1>2, <1>3 DEF TypeOK, Found, Registries

LEMMA ServingUpload ==
  ASSUME TypeOK, HandlersOK, NEW c \in Clients, pc[c] # "free", request[c].op = "upload"
  PROVE  /\ request[c].file \in Files /\ request[c].body \in Contents
         /\ Dest(c) \in StorageNames
         /\ Dest(c)[2] = request[c].file
<1>1. request[c] \in Uploads
  BY Serving DEF Uploads, Deletes, Downloads
<1>2. request[c].version \in Versions /\ request[c].file \in Files
      /\ request[c].body \in Contents
  BY <1>1 DEF Uploads
<1> QED
  BY <1>2 DEF Dest, StorageNames, StorageName

LEMMA ServingDelete ==
  ASSUME TypeOK, HandlersOK, NEW c \in Clients, pc[c] # "free", Found(c) # None
  PROVE  StorageName(request[c].version, Found(c)) \in StorageNames
  BY Serving DEF StorageNames

(***************************************************************************)
(* Types and handlers                                                      *)
(***************************************************************************)
LEMMA FinishTypes ==
  ASSUME TypeOK, HandlersOK, NEW c \in Clients, NEW a \in Replies, Finish(c, a),
         UNCHANGED <<setting, registry, regState, blobs>>, acked' \in Registries,
         interrupted' \in BOOLEAN
  PROVE  TypeOK' /\ HandlersOK'
<1>1. Empty \in Registries
  BY DEF Empty, Registries
<1>2. TypeOK'
  BY <1>1 DEF TypeOK, Finish, Goto, Pcs
<1>3. HandlersOK'
  BY DEF TypeOK, HandlersOK, Finish, Goto, Found, Uploading, Saving
<1> QED
  BY <1>2, <1>3

LEMMA TypesHandler ==
  ASSUME TypeOK, HandlersOK, NEW c \in Clients, Handler(c)
  PROVE  TypeOK' /\ HandlersOK'
<1>1. CASE LoadRegistry(c)
  <2>1. (IF regState = "whole" THEN registry ELSE Empty) \in Registries
    BY DEF TypeOK, Empty, Registries
  <2>2. TypeOK'
    BY <1>1, <2>1 DEF TypeOK, LoadRegistry, Goto, Pcs, store, ghosts
  <2>3. HandlersOK'
    BY <1>1 DEF TypeOK, HandlersOK, LoadRegistry, Goto, Found, Uploading, Saving, store, ghosts
  <2> QED
    BY <2>2, <2>3
<1>2. CASE RejectDuplicate(c)
  BY <1>2, FinishTypes DEF RejectDuplicate, store, ghosts, Replies, TypeOK
<1>3. CASE OpenBlob(c)
  <2>1. Dest(c) \in StorageNames
    BY <1>3, ServingUpload DEF OpenBlob, Loaded
  <2>2. TypeOK'
    BY <1>3, <2>1 DEF TypeOK, OpenBlob, Goto, Pcs, Contents, ghosts
  <2>3. HandlersOK'
    BY <1>3 DEF TypeOK, HandlersOK, OpenBlob, Loaded, Goto, Found, Uploading, Saving
  <2> QED
    BY <2>2, <2>3
<1>4. CASE Stream(c)
  <2>1. request[c].op = "upload" /\ pc[c] # "free"
    BY <1>4 DEF Stream, HandlersOK, Uploading
  <2>2. request[c].body \in Contents
    BY <2>1, ServingUpload
  <2>3. TypeOK'
    BY <1>4, <2>2 DEF TypeOK, Stream, Goto, Pcs, ghosts
  <2>4. HandlersOK'
    BY <1>4 DEF TypeOK, HandlersOK, Stream, Goto, Found, Uploading, Saving
  <2> QED
    BY <2>3, <2>4
<1>5. CASE StreamFails(c)
  BY <1>5, FinishTypes DEF StreamFails, store, ghosts, Replies, TypeOK
<1>6. CASE Hash(c)
  <2>1. CASE blobs[Dest(c)] = None
    BY <1>6, <2>1, FinishTypes DEF Hash, store, ghosts, Replies, TypeOK
  <2>2. CASE blobs[Dest(c)] # None
    <3>1. TypeOK'
      BY <1>6, <2>2 DEF TypeOK, Hash, Goto, Pcs, store, ghosts
    <3>2. HandlersOK'
      BY <1>6, <2>2 DEF TypeOK, HandlersOK, Hash, Goto, Found, Uploading, Saving, store, ghosts
    <3> QED
      BY <3>1, <3>2
  <2> QED
    BY <2>1, <2>2
<1>7. CASE RejectUpload(c)
  <2>1. Empty \in Registries /\ Orphans(Dest(c)) \in [Clients -> BOOLEAN]
    BY DEF Empty, Registries, Orphans, TypeOK
  <2>2. TypeOK'
    BY <1>7, <2>1 DEF TypeOK, RejectUpload, UnlinkedBlobs, Goto, Pcs, Replies, ghosts
  <2>3. HandlersOK'
    BY <1>7 DEF TypeOK, HandlersOK, RejectUpload, Goto, Found, Uploading, Saving
  <2> QED
    BY <2>2, <2>3
<1>8. CASE SaveOpen(c)
  <2>1. request[c].version \in Versions /\ pc[c] # "free"
    BY <1>8, Serving DEF SaveOpen
  <2>2. (IF pc[c] = "accepted" THEN request[c].file ELSE None) \in Files \cup {None}
    BY <2>1, ServingUpload DEF HandlersOK, Uploading
  <2>3. Empty \in Registries
    BY DEF Empty, Registries
  <2>4. snapshot' \in [Clients -> Registries]
    BY <1>8, <2>1, <2>2 DEF SaveOpen, TypeOK, Registries
  <2>5. TypeOK'
    BY <1>8, <2>3, <2>4 DEF TypeOK, SaveOpen, Goto, Pcs, ghosts
  <2>6. HandlersOK'
    BY <1>8 DEF TypeOK, HandlersOK, SaveOpen, Goto, Found, Uploading, Saving
  <2> QED
    BY <2>5, <2>6
<1>9. CASE SaveWrite(c)
  <2>1. Empty \in Registries
    BY DEF Empty, Registries
  <2>2. TypeOK'
    BY <1>9, <2>1 DEF TypeOK, SaveWrite, Goto, Pcs, ghosts
  <2>3. HandlersOK'
    BY <1>9 DEF TypeOK, HandlersOK, SaveWrite, Goto, Found, Uploading, Saving
  <2> QED
    BY <2>2, <2>3
<1>10. CASE SaveFails(c)
  BY <1>10, FinishTypes DEF SaveFails, store, Replies, TypeOK
<1>11. CASE Answer(c)
  <2>1. request[c].version \in Versions /\ pc[c] # "free"
    BY <1>11, Serving DEF Answer
  <2>2. (IF request[c].op = "upload" THEN request[c].file ELSE None) \in Files \cup {None}
    BY <2>1, ServingUpload
  <2>3. acked' \in Registries
    BY <1>11, <2>1, <2>2 DEF Answer, TypeOK, Registries
  <2>4. \E a \in Replies : Finish(c, a)
    BY <1>11 DEF Answer, Replies
  <2> QED
    BY <1>11, <2>3, <2>4, FinishTypes DEF Answer, store, TypeOK
<1>12. CASE NotFound(c)
  BY <1>12, FinishTypes DEF NotFound, store, ghosts, Replies, TypeOK
<1>13. CASE DeleteBlob(c)
  <2> DEFINE n == StorageName(request[c].version, Found(c))
  <2>1. Orphans(n) \in [Clients -> BOOLEAN]
    BY DEF Orphans, TypeOK
  <2>2. TypeOK'
    BY <1>13, <2>1 DEF TypeOK, DeleteBlob, UnlinkedBlobs, Goto, Pcs, ghosts
  <2>3. HandlersOK'
    BY <1>13 DEF TypeOK, HandlersOK, DeleteBlob, Loaded, Goto, Found, Uploading, Saving
  <2> QED
    BY <2>2, <2>3
<1>14. CASE FindBlob(c)
  <2>1. CASE blobs[StorageName(request[c].version, Found(c))] = None
    BY <1>14, <2>1, FinishTypes DEF FindBlob, store, ghosts, Replies, TypeOK
  <2>2. CASE blobs[StorageName(request[c].version, Found(c))] # None
    <3>1. TypeOK'
      BY <1>14, <2>2 DEF TypeOK, FindBlob, Goto, Pcs, store, ghosts
    <3>2. HandlersOK'
      BY <1>14, <2>2
         DEF TypeOK, HandlersOK, FindBlob, Loaded, Goto, Found, Uploading, Saving, store, ghosts
    <3> QED
      BY <3>1, <3>2
  <2> QED
    BY <2>1, <2>2
<1>15. CASE Serve(c)
  <2>1. \E a \in Replies : Finish(c, a)
    BY <1>15 DEF Serve, Replies
  <2> QED
    BY <1>15, <2>1, FinishTypes DEF Serve, store, ghosts, TypeOK
<1> QED
  BY <1>1, <1>2, <1>3, <1>4, <1>5, <1>6, <1>7, <1>8, <1>9, <1>10, <1>11, <1>12,
     <1>13, <1>14, <1>15 DEF Handler

LEMMA TypesNext ==
  ASSUME TypeOK, HandlersOK, [Next]_vars
  PROVE  TypeOK' /\ HandlersOK'
<1>1. ASSUME NEW c \in Clients, NEW r \in Requests, Arrive(c, r)
      PROVE  TypeOK' /\ HandlersOK'
  <2>1. TypeOK'
    BY <1>1 DEF TypeOK, Arrive, Goto, Pcs, Replies, store, ghosts
  <2>2. HandlersOK'
    BY <1>1, RequestsAssumption
       DEF TypeOK, HandlersOK, Arrive, Goto, Found, Uploading, Saving
  <2> QED
    BY <2>1, <2>2
<1>2. CASE Crash
  <2>1. Empty \in Registries
    BY DEF Empty, Registries
  <2>2. TypeOK'
    BY <1>2, <2>1 DEF TypeOK, Crash, Pcs, Replies, store
  <2>3. HandlersOK'
    BY <1>2 DEF HandlersOK, Crash, Uploading, Saving
  <2> QED
    BY <2>2, <2>3
<1>3. CASE UNCHANGED vars
  <2>1. TypeOK'
    BY <1>3 DEF TypeOK, vars, store, handlers, ghosts
  <2>2. HandlersOK'
    BY <1>3 DEF HandlersOK, Found, vars, store, handlers, ghosts
  <2> QED
    BY <2>1, <2>2
<1> QED
  BY <1>1, <1>2, <1>3, TypesHandler DEF Next

(***************************************************************************)
(* Overlapping writers                                                     *)
(***************************************************************************)
\* A file in pieces stays somebody's: of the handlers at work only c moves,
\* and c leaves no file in pieces behind.
LEMMA BrokenFrame ==
  ASSUME BrokenOwned, setting = "overlapping", NEW c \in Clients,
         \A d \in Clients \ {c} : pc'[d] = pc[d] /\ request'[d] = request[d],
         \A n \in StorageNames :
             \/ blobs'[n] = blobs[n] /\ ~(AtWork(c) /\ Dest(c) = n)
             \/ blobs'[n] \in {n[2], None}
             \/ AtWork(c)' /\ Dest(c)' = n
  PROVE  BrokenOwned'
<1> SUFFICES ASSUME NEW n \in StorageNames, blobs'[n] \notin {n[2], None}
             PROVE  \E d \in Clients : AtWork(d)' /\ Dest(d)' = n
  BY DEF BrokenOwned, AtWork, Dest
<1>1. CASE blobs'[n] = blobs[n] /\ ~(AtWork(c) /\ Dest(c) = n)
  <2>1. PICK d \in Clients : AtWork(d) /\ Dest(d) = n
    BY <1>1 DEF BrokenOwned, AtWork
  <2>2. d # c
    BY <1>1, <2>1
  <2> QED
    BY <2>1, <2>2 DEF AtWork, Dest
<1>2. CASE AtWork(c)' /\ Dest(c)' = n
  BY <1>2
<1> QED
  BY <1>1, <1>2

LEMMA BrokenHandler ==
  ASSUME TypeOK, HandlersOK, BrokenOwned, setting = "overlapping",
         NEW c \in Clients, Handler(c)
  PROVE  BrokenOwned'
<1>1. CASE LoadRegistry(c) \/ RejectDuplicate(c) \/ SaveOpen(c) \/ SaveWrite(c)
           \/ Answer(c) \/ NotFound(c) \/ FindBlob(c) \/ Serve(c)
  <2>1. ~AtWork(c) /\ blobs' = blobs
    BY <1>1 DEF LoadRegistry, RejectDuplicate, SaveOpen, SaveWrite, Answer, NotFound,
                FindBlob, Serve, Loaded, AtWork, store
  <2>2. \A d \in Clients \ {c} : pc'[d] = pc[d] /\ request'[d] = request[d]
    BY <1>1 DEF LoadRegistry, RejectDuplicate, SaveOpen, SaveWrite, Answer, NotFound,
                FindBlob, Serve, Finish, Goto, TypeOK
  <2> QED
    BY <2>1, <2>2, BrokenFrame
<1>2. CASE OpenBlob(c) \/ Stream(c) \/ Hash(c) \/ RejectUpload(c)
  <2>1. pc[c] # "free" /\ request[c].op = "upload"
    BY <1>2 DEF OpenBlob, Stream, Hash, RejectUpload, Loaded, HandlersOK, Uploading
  <2>2. Dest(c) \in StorageNames /\ Dest(c)[2] = request[c].file
    BY <2>1, ServingUpload
  <2>3. \A d \in Clients \ {c} : pc'[d] = pc[d] /\ request'[d] = request[d]
    BY <1>2 DEF OpenBlob, Stream, Hash, RejectUpload, Finish, Goto, TypeOK
  <2>4. ASSUME NEW n \in StorageNames
        PROVE  \/ blobs'[n] = blobs[n] /\ ~(AtWork(c) /\ Dest(c) = n)
               \/ blobs'[n] \in {n[2], None}
               \/ AtWork(c)' /\ Dest(c)' = n
    <3>1. CASE OpenBlob(c)
      BY <2>2, <3>1 DEF OpenBlob, Loaded, Goto, AtWork, Dest, TypeOK
    <3>2. CASE Stream(c)
      BY <2>2, <3>2 DEF Stream, Goto, AtWork, Dest, TypeOK
    <3>3. CASE Hash(c)
      BY <2>2, <3>3 DEF Hash, Finish, Goto, AtWork, Dest, TypeOK, store
    <3>4. CASE RejectUpload(c)
      BY <2>2, <3>4 DEF RejectUpload, UnlinkedBlobs, Goto, AtWork, Dest, TypeOK
    <3> QED
      BY <1>2, <3>1, <3>2, <3>3, <3>4
  <2> QED
    BY <2>3, <2>4, BrokenFrame
<1>3. CASE DeleteBlob(c)
  <2>1. ~AtWork(c) /\ \A n \in StorageNames : blobs'[n] \in {blobs[n], None}
    BY <1>3 DEF DeleteBlob, UnlinkedBlobs, Loaded, AtWork, TypeOK
  <2>2. \A d \in Clients \ {c} : pc'[d] = pc[d] /\ request'[d] = request[d]
    BY <1>3 DEF DeleteBlob, Goto, TypeOK
  <2> QED
    BY <2>1, <2>2, BrokenFrame
<1> QED
  BY <1>1, <1>2, <1>3 DEF Handler, StreamFails, SaveFails

LEMMA BrokenNext ==
  ASSUME TypeOK, HandlersOK, BrokenOwned, [Next]_vars
  PROVE  BrokenOwned'
<1>1. CASE setting # "overlapping"
  <2>1. setting' = setting
    BY DEF Next, Handler, Arrive, Crash, LoadRegistry, RejectDuplicate, OpenBlob,
           Stream, StreamFails, Hash, RejectUpload, SaveOpen, SaveWrite, SaveFails,
           Answer, NotFound, DeleteBlob, FindBlob, Serve, vars, store
  <2> QED
    BY <1>1, <2>1 DEF BrokenOwned
<1>2. CASE setting = "overlapping"
  <2>1. ASSUME NEW c \in Clients, NEW r \in Requests, Arrive(c, r)
        PROVE  BrokenOwned'
    <3>1. ~AtWork(c) /\ blobs' = blobs
      BY <2>1 DEF Arrive, AtWork, store
    <3>2. \A d \in Clients \ {c} : pc'[d] = pc[d] /\ request'[d] = request[d]
      BY <2>1 DEF Arrive, Goto, TypeOK
    <3> QED
      BY <1>2, <3>1, <3>2, BrokenFrame
  <2>2. CASE UNCHANGED vars
    BY <2>2 DEF BrokenOwned, AtWork, Dest, vars, store, handlers, ghosts
  <2> QED
    BY <1>2, <2>1, <2>2, BrokenHandler DEF Next, Crash
<1> QED
  BY <1>1, <1>2

(***************************************************************************)
(* One writer at a time: the writer and the registry it saves              *)
(***************************************************************************)
LEMMA HandlerMoves ==
  ASSUME TypeOK, NEW c \in Clients, Handler(c)
  PROVE  /\ pc[c] # "free" /\ setting' = setting
         /\ \A d \in Clients \ {c} :
              pc'[d] = pc[d] /\ request'[d] = request[d] /\ snapshot'[d] = snapshot[d]
         /\ pc'[c] # "free" => request'[c] = request[c]
<1>1. CASE RejectDuplicate(c) \/ StreamFails(c) \/ RejectUpload(c) \/ SaveFails(c)
           \/ Answer(c) \/ NotFound(c) \/ Serve(c)
  BY <1>1 DEF RejectDuplicate, StreamFails, RejectUpload, SaveFails, Answer, NotFound,
              Serve, Finish, Goto, Loaded, TypeOK, store
<1>2. CASE LoadRegistry(c) \/ OpenBlob(c) \/ Stream(c) \/ SaveOpen(c) \/ SaveWrite(c)
           \/ DeleteBlob(c)
  BY <1>2 DEF LoadRegistry, OpenBlob, Stream, SaveOpen, SaveWrite, DeleteBlob, Goto,
              Loaded, TypeOK, store
<1>3. CASE Hash(c) \/ FindBlob(c)
  BY <1>3 DEF Hash, FindBlob, Finish, Goto, Loaded, TypeOK, store
<1> QED
  BY <1>1, <1>2, <1>3 DEF Handler

\* A handler that writes was writing before, unless it arrives.
LEMMA WritersHandler ==
  ASSUME TypeOK, NEW c \in Clients, Handler(c)
  PROVE  \A d \in Clients : Writing(d)' => Writing(d)
  BY HandlerMoves DEF Writing

LEMMA OneWriterNext ==
  ASSUME TypeOK, HandlersOK, setting = "serial", OneWriter, [Next]_vars
  PROVE  OneWriter' /\ setting' = "serial"
<1>1. ASSUME NEW c \in Clients, Handler(c)
      PROVE  OneWriter' /\ setting' = "serial"
  BY <1>1, WritersHandler, HandlerMoves DEF OneWriter
<1>2. ASSUME NEW c \in Clients, NEW r \in Requests, Arrive(c, r)
      PROVE  OneWriter' /\ setting' = "serial"
  <2>1. setting' = "serial" /\ \A d \in Clients \ {c} : Writing(d)' <=> Writing(d)
    BY <1>2 DEF Arrive, Writing, Goto, TypeOK, store
  <2>2. Writing(c)' => \A d \in Clients : ~Writing(d)
    BY <1>2 DEF Arrive, Writing, Goto, TypeOK
  <2> QED
    BY <2>1, <2>2 DEF OneWriter
<1>3. CASE Crash
  BY <1>3 DEF Crash, OneWriter, Writing, store
<1>4. CASE UNCHANGED vars
  BY <1>4 DEF OneWriter, Writing, vars, store, handlers, ghosts
<1> QED
  BY <1>1, <1>2, <1>3, <1>4 DEF Next

\* Who saves writes.
LEMMA SavingWrites ==
  ASSUME HandlersOK, NEW c \in Clients,
         pc[c] \in Uploading \cup {"unlinked"} \cup Saving
  PROVE  Writing(c)
  BY DEF HandlersOK, Writing, Uploading, Saving

LEMMA RegistryNext ==
  ASSUME TypeOK, HandlersOK, setting = "serial", OneWriter, RegistryOK, [Next]_vars
  PROVE  RegistryOK'
<1>1. ASSUME NEW c \in Clients, Handler(c)
      PROVE  RegistryOK'
  <2>1. CASE SaveOpen(c)
    <3>1. \A d \in Clients : pc'[d] = "saving" => d = c
      BY <2>1, SavingWrites DEF SaveOpen, Goto, OneWriter, Uploading, Saving, TypeOK
    <3> QED
      BY <2>1, <3>1 DEF SaveOpen, RegistryOK, Goto, Empty, TypeOK
  <2>2. CASE SaveWrite(c)
    <3>1. regState = "truncated"
      BY <2>2 DEF SaveWrite, RegistryOK
    <3>2. regState' = "whole"
      BY <2>2, <3>1 DEF SaveWrite, LeavesTail
    <3>3. \A d \in Clients : pc'[d] # "saving"
      BY <2>2, SavingWrites DEF SaveWrite, Goto, OneWriter, Saving, TypeOK
    <3> QED
      BY <3>2, <3>3 DEF RegistryOK
  <2>3. CASE SaveFails(c)
    BY <2>3 DEF SaveFails, RegistryOK, Finish, Goto, store, Empty, TypeOK
  <2>4. CASE RejectDuplicate(c) \/ StreamFails(c) \/ RejectUpload(c)
           \/ Answer(c) \/ NotFound(c) \/ Serve(c) \/ LoadRegistry(c) \/ OpenBlob(c)
           \/ Stream(c) \/ DeleteBlob(c) \/ Hash(c) \/ FindBlob(c)
    <3>1. pc[c] # "saving" /\ pc'[c] # "saving"
      BY <2>4 DEF RejectDuplicate, StreamFails, RejectUpload, Answer, NotFound, Serve,
                  LoadRegistry, OpenBlob, Stream, DeleteBlob, Hash, FindBlob, Finish,
                  Goto, Loaded, TypeOK
    <3>2. registry' = registry /\ regState' = regState /\ interrupted' = interrupted
      BY <2>4 DEF RejectDuplicate, StreamFails, RejectUpload, Answer, NotFound, Serve,
                  LoadRegistry, OpenBlob, Stream, DeleteBlob, Hash, FindBlob, store,
                  ghosts
    <3> QED
      BY <1>1, <3>1, <3>2, HandlerMoves DEF RegistryOK, Empty
  <2> QED
    BY <1>1, <2>1, <2>2, <2>3, <2>4 DEF Handler
<1>2. ASSUME NEW c \in Clients, NEW r \in Requests, Arrive(c, r)
      PROVE  RegistryOK'
  BY <1>2 DEF Arrive, RegistryOK, Goto, TypeOK, store, ghosts, Empty
<1>3. CASE Crash
  BY <1>3 DEF Crash, RegistryOK, store, Empty
<1>4. CASE UNCHANGED vars
  BY <1>4 DEF RegistryOK, vars, store, handlers, ghosts, Empty
<1> QED
  BY <1>1, <1>2, <1>3, <1>4 DEF Next

(***************************************************************************)
(* What the registry stands for, and who changes it                        *)
(***************************************************************************)
LEMMA RegisteredReads ==
  HandlersOK /\ setting = "serial" /\ OneWriter /\ RegistryOK =>
      /\ regState = "whole" => Registered = registry
      /\ \A c \in Clients : pc[c] = "saving" => Registered = snapshot[c]
      /\ regState # "whole" /\ (\A c \in Clients : pc[c] # "saving") => Registered = Empty
<1> SUFFICES ASSUME HandlersOK, setting = "serial", OneWriter, RegistryOK
             PROVE  /\ regState = "whole" => Registered = registry
                    /\ \A c \in Clients : pc[c] = "saving" => Registered = snapshot[c]
                    /\ regState # "whole" /\ (\A c \in Clients : pc[c] # "saving")
                         => Registered = Empty
  OBVIOUS
<1>1. regState = "whole" => Registered = registry
  BY DEF Registered
<1>2. ASSUME NEW c \in Clients, pc[c] = "saving"
      PROVE  Registered = snapshot[c]
  <2>1. \A d \in Clients : pc[d] = "saving" => d = c
    BY <1>2, SavingWrites DEF OneWriter, Saving
  <2>2. {d \in Clients : pc[d] = "saving"} = {c}
    BY <1>2, <2>1
  <2>3. regState # "whole"
    BY <1>2 DEF RegistryOK
  <2> QED
    BY <2>2, <2>3 DEF Registered
<1>3. ASSUME regState # "whole", \A c \in Clients : pc[c] # "saving"
      PROVE  Registered = Empty
  <2>1. {d \in Clients : pc[d] = "saving"} = {}
    BY <1>3
  <2> QED
    BY <1>3, <2>1 DEF Registered
<1> QED
  BY <1>1, <1>2, <1>3

LEMMA RegisteredReadsNext ==
  (HandlersOK /\ setting = "serial" /\ OneWriter /\ RegistryOK =>
      /\ regState = "whole" => Registered = registry
      /\ \A c \in Clients : pc[c] = "saving" => Registered = snapshot[c]
      /\ regState # "whole" /\ (\A c \in Clients : pc[c] # "saving") => Registered = Empty)'
  BY RegisteredReads, PTL

\* What the serial lemmas below start from.
Writer == TypeOK /\ HandlersOK /\ setting = "serial" /\ OneWriter /\ RegistryOK

LEMMA WriterNext == Writer /\ [Next]_vars => Writer'
  BY TypesNext, OneWriterNext, RegistryNext DEF Writer

\* A save changes one version as the request says, one that fails or a
\* restart empties the registry, and no other step changes it.
Change(c) == IF pc[c] = "accepted" THEN request[c].file ELSE None

LEMMA RegisteredSaveOpen ==
  ASSUME Writer, Writer', CopyOK, NEW c \in Clients, SaveOpen(c)
  PROVE  /\ Registered' = [Registered EXCEPT ![request[c].version] = Change(c)]
         /\ snapshot'[c] = Registered'
<1>1. snapshot[c] = Registered /\ pc'[c] = "saving"
  BY SavingWrites DEF SaveOpen, CopyOK, Goto, Uploading, Writer, TypeOK
<1>2. snapshot'[c] = [snapshot[c] EXCEPT ![request[c].version] = Change(c)]
  BY DEF SaveOpen, Writer, TypeOK, Change
<1>3. Registered' = snapshot'[c]
  BY <1>1, RegisteredReadsNext DEF Writer
<1> QED
  BY <1>1, <1>2, <1>3

LEMMA RegisteredSaveWrite ==
  ASSUME Writer, Writer', NEW c \in Clients, SaveWrite(c)
  PROVE  Registered' = Registered /\ snapshot'[c] = Registered' /\ registry' = Registered'
<1>1. Registered = snapshot[c]
  BY RegisteredReads DEF SaveWrite, Writer
<1>2. regState = "truncated"
  BY DEF SaveWrite, RegistryOK, Writer
<1>3. regState' = "whole" /\ registry' = snapshot[c] /\ snapshot' = snapshot
  BY <1>2 DEF SaveWrite, LeavesTail
<1> QED
  BY <1>1, <1>3, RegisteredReadsNext DEF Writer

LEMMA RegisteredSaveFails ==
  ASSUME Writer, Writer', NEW c \in Clients, SaveFails(c)
  PROVE  Registered' = Empty
<1>1. regState' # "whole"
  BY DEF SaveFails, RegistryOK, Writer, store
<1>2. \A d \in Clients : pc'[d] # "saving"
  BY SavingWrites DEF SaveFails, Finish, Goto, OneWriter, Saving, Writer, TypeOK
<1> QED
  BY <1>1, <1>2, RegisteredReadsNext DEF Writer, Empty

\* The steps that leave the registry and whoever saves it alone.
LEMMA RegisteredKept ==
  ASSUME Writer, Writer', UNCHANGED <<registry, regState>>,
         \A d \in Clients : (pc[d] = "saving" \/ pc'[d] = "saving") =>
                                pc'[d] = pc[d] /\ snapshot'[d] = snapshot[d]
  PROVE  Registered' = Registered
<1>1. CASE regState = "whole"
  BY <1>1, RegisteredReads, RegisteredReadsNext DEF Writer
<1>2. CASE \E d \in Clients : pc[d] = "saving"
  BY <1>2, RegisteredReads, RegisteredReadsNext DEF Writer
<1>3. CASE regState # "whole" /\ \A d \in Clients : pc[d] # "saving"
  BY <1>3, RegisteredReads, RegisteredReadsNext DEF Writer, Empty
<1> QED
  BY <1>1, <1>2, <1>3

Saves(c) == SaveOpen(c) \/ SaveWrite(c) \/ SaveFails(c)

LEMMA RegisteredHandler ==
  ASSUME Writer, Writer', NEW c \in Clients, Handler(c), ~Saves(c)
  PROVE  Registered' = Registered /\ UNCHANGED <<registry, regState, interrupted>>
<1>1. \/ RejectDuplicate(c) \/ StreamFails(c) \/ RejectUpload(c) \/ Answer(c) \/ NotFound(c)
      \/ Serve(c) \/ LoadRegistry(c) \/ OpenBlob(c) \/ Stream(c) \/ DeleteBlob(c) \/ Hash(c)
      \/ FindBlob(c)
  BY DEF Handler, Saves
<1>2. pc[c] # "saving" /\ pc'[c] # "saving"
  BY <1>1 DEF RejectDuplicate, StreamFails, RejectUpload, Answer, NotFound, Serve,
              LoadRegistry, OpenBlob, Stream, DeleteBlob, Hash, FindBlob, Finish,
              Goto, Loaded, Writer, TypeOK
<1>3. UNCHANGED <<registry, regState, interrupted>>
  BY <1>1 DEF RejectDuplicate, StreamFails, RejectUpload, Answer, NotFound, Serve,
              LoadRegistry, OpenBlob, Stream, DeleteBlob, Hash, FindBlob, store, ghosts
<1>4. Registered' = Registered
  BY <1>2, <1>3, HandlerMoves, RegisteredKept DEF Writer
<1> QED
  BY <1>3, <1>4

LEMMA RegisteredArrive ==
  ASSUME Writer, Writer', NEW c \in Clients, NEW r \in Requests, Arrive(c, r)
  PROVE  Registered' = Registered
<1>1. UNCHANGED <<registry, regState, snapshot>> /\ pc[c] = "free"
  BY DEF Arrive, store
<1>2. pc' = [pc EXCEPT ![c] = "load"]
  BY DEF Arrive, Goto
<1> QED
  BY <1>1, <1>2, RegisteredKept DEF Writer, TypeOK

LEMMA RegisteredCrash ==
  ASSUME Writer, Writer', Crash
  PROVE  Registered' \in {Registered, Empty}
<1>1. UNCHANGED <<registry, regState>> /\ \A d \in Clients : pc'[d] # "saving"
  BY DEF Crash, store
<1> QED
  BY <1>1, RegisteredReads, RegisteredReadsNext DEF Writer, Empty

(***************************************************************************)
(* The writer's copy                                                       *)
(***************************************************************************)
LEMMA ReadersLeaveFiles ==
  ASSUME TypeOK, HandlersOK, NEW c \in Clients, Handler(c), ~Writing(c)
  PROVE  blobs' = blobs
<1>1. ~OpenBlob(c) /\ ~Stream(c) /\ ~RejectUpload(c) /\ ~DeleteBlob(c)
  BY DEF OpenBlob, Stream, RejectUpload, DeleteBlob, Loaded, Writing, HandlersOK, Uploading
<1> QED
  BY <1>1 DEF Handler, LoadRegistry, RejectDuplicate, StreamFails, Hash, SaveOpen,
              SaveWrite, SaveFails, Answer, NotFound, FindBlob, Serve, store

LEMMA CopyOthers ==
  ASSUME Writer, Writer', CopyOK, NEW c \in Clients, Handler(c), NEW d \in Clients \ {c}
  PROVE  /\ Writing(d)' /\ pc'[d] # "load" => snapshot'[d] = Registered'
         /\ pc'[d] \in Uploading => Found(d)' = None
         /\ pc'[d] = "unlinked" => Found(d)' # None
         /\ pc'[d] = "accepted" => blobs'[Dest(d)'] = request'[d].file
<1>1. pc'[d] = pc[d] /\ request'[d] = request[d] /\ snapshot'[d] = snapshot[d]
  BY HandlerMoves DEF Writer
<1>2. Writing(d)' <=> Writing(d)
  BY <1>1 DEF Writing
<1>3. ASSUME Writing(d)
      PROVE  ~Writing(c) /\ blobs' = blobs /\ Registered' = Registered
  <2>1. ~Writing(c)
    BY <1>3 DEF Writer, OneWriter
  <2>2. ~Saves(c)
    BY <2>1, SavingWrites
       DEF Saves, SaveOpen, SaveWrite, SaveFails, Writer, Uploading, Saving
  <2> QED
    BY <2>1, <2>2, ReadersLeaveFiles, RegisteredHandler DEF Writer
<1>4. Found(d)' = Found(d) /\ Dest(d)' = Dest(d)
  BY <1>1 DEF Found, Dest
<1>5. Writing(d)' /\ pc'[d] # "load" => snapshot'[d] = Registered'
  BY <1>1, <1>2, <1>3 DEF CopyOK
<1>6. pc'[d] \in Uploading => Found(d)' = None
  BY <1>1, <1>4 DEF CopyOK
<1>7. pc'[d] = "unlinked" => Found(d)' # None
  BY <1>1, <1>4 DEF CopyOK
<1>8. pc'[d] = "accepted" => blobs'[Dest(d)'] = request'[d].file
  <2> SUFFICES ASSUME pc[d] = "accepted"
               PROVE  blobs'[Dest(d)] = request[d].file
    BY <1>1, <1>4
  <2>1. Writing(d)
    BY SavingWrites DEF Writer, Uploading
  <2> QED
    BY <1>3, <2>1 DEF CopyOK
<1> QED
  BY <1>5, <1>6, <1>7, <1>8

LEMMA CopySelf ==
  ASSUME Writer, Writer', CopyOK, NEW c \in Clients, Handler(c)
  PROVE  /\ Writing(c)' /\ pc'[c] # "load" => snapshot'[c] = Registered'
         /\ pc'[c] \in Uploading => Found(c)' = None
         /\ pc'[c] = "unlinked" => Found(c)' # None
         /\ pc'[c] = "accepted" => blobs'[Dest(c)'] = request'[c].file
<1>1. CASE LoadRegistry(c)
  <2>1. pc'[c] = "loaded" /\ request' = request
        /\ snapshot'[c] = IF regState = "whole" THEN registry ELSE Empty
    BY <1>1 DEF LoadRegistry, Goto, Writer, TypeOK
  <2>2. Registered' = Registered
    BY <1>1, RegisteredHandler DEF LoadRegistry, Saves, SaveOpen, SaveWrite, SaveFails
  <2>3. ASSUME Writing(c)
        PROVE  snapshot'[c] = Registered
    <3>1. \A d \in Clients : pc[d] # "saving"
      BY <1>1, <2>3, SavingWrites DEF LoadRegistry, Writer, OneWriter, Saving
    <3> QED
      BY <2>1, <3>1, RegisteredReads DEF Writer
  <2>4. Writing(c)' => Writing(c)
    BY <1>1, WritersHandler DEF Writer
  <2> QED
    BY <2>1, <2>2, <2>3, <2>4 DEF Uploading
<1>2. CASE OpenBlob(c) \/ Stream(c) \/ Hash(c) \/ DeleteBlob(c)
  <2>1. Registered' = Registered
    BY <1>2, RegisteredHandler
       DEF OpenBlob, Stream, Hash, DeleteBlob, Loaded, Saves, SaveOpen, SaveWrite, SaveFails
  <2>2. Writing(c) /\ pc[c] # "load"
    BY <1>2 DEF OpenBlob, Stream, Hash, DeleteBlob, Loaded, Writing, Writer, HandlersOK, Uploading
  <2>3. pc'[c] = "free" \/ UNCHANGED <<request, snapshot>>
    BY <1>2 DEF OpenBlob, Stream, Hash, DeleteBlob, Finish, Goto, Writer, TypeOK
  <2>4. pc'[c] \in Uploading => Found(c) = None
    BY <1>2 DEF OpenBlob, Stream, Hash, DeleteBlob, Finish, Goto, Writer, TypeOK,
                CopyOK, Uploading
  <2>5. pc'[c] = "unlinked" => Found(c) # None
    BY <1>2 DEF OpenBlob, Stream, Hash, DeleteBlob, Finish, Goto, Writer, TypeOK
  <2>6. pc'[c] = "accepted" => blobs'[Dest(c)] = request[c].file
    BY <1>2 DEF OpenBlob, Stream, Hash, DeleteBlob, Finish, Goto, Writer, TypeOK, store
  <2>7. (Found(c)' = Found(c) /\ Dest(c)' = Dest(c)) \/ pc'[c] = "free"
    BY <2>3 DEF Found, Dest
  <2>8. Writing(c)' => snapshot'[c] = Registered'
    BY <2>1, <2>2, <2>3 DEF CopyOK, Writing
  <2> QED
    BY <2>3, <2>4, <2>5, <2>6, <2>7, <2>8 DEF Uploading
<1>3. CASE SaveOpen(c)
  <2>1. pc'[c] = "saving"
    BY <1>3 DEF SaveOpen, Goto, Writer, TypeOK
  <2> QED
    BY <1>3, <2>1, RegisteredSaveOpen DEF Uploading
<1>4. CASE SaveWrite(c)
  <2>1. pc'[c] = "saved"
    BY <1>4 DEF SaveWrite, Goto, Writer, TypeOK
  <2> QED
    BY <1>4, <2>1, RegisteredSaveWrite DEF Uploading
<1>5. CASE FindBlob(c)
  <2>1. pc'[c] \in {"free", "serving"} /\ request[c].op = "download"
    BY <1>5 DEF FindBlob, Loaded, Finish, Goto, Writer, TypeOK
  <2>2. Writing(c)' => Writing(c)
    BY <1>5, WritersHandler DEF Writer
  <2> QED
    BY <2>1, <2>2 DEF Writing, Uploading
<1>6. CASE \/ RejectDuplicate(c) \/ StreamFails(c) \/ RejectUpload(c) \/ SaveFails(c)
           \/ Answer(c) \/ NotFound(c) \/ Serve(c)
  <2>1. pc'[c] = "free"
    BY <1>6 DEF RejectDuplicate, StreamFails, RejectUpload, SaveFails, Answer, NotFound,
                Serve, Finish, Goto, Writer, TypeOK
  <2> QED
    BY <2>1 DEF Writing, Uploading
<1> QED
  BY <1>1, <1>2, <1>3, <1>4, <1>5, <1>6 DEF Handler

LEMMA CopyNext ==
  ASSUME Writer, Writer', CopyOK, [Next]_vars
  PROVE  CopyOK'
<1>1. ASSUME NEW c \in Clients, Handler(c)
      PROVE  CopyOK'
  <2> SUFFICES ASSUME NEW d \in Clients
               PROVE  /\ Writing(d)' /\ pc'[d] # "load" => snapshot'[d] = Registered'
                      /\ pc'[d] \in Uploading => Found(d)' = None
                      /\ pc'[d] = "unlinked" => Found(d)' # None
                      /\ pc'[d] = "accepted" => blobs'[Dest(d)'] = request'[d].file
    BY DEF CopyOK
  <2>1. CASE d = c
    BY <1>1, <2>1, CopySelf
  <2>2. CASE d # c
    BY <1>1, <2>2, CopyOthers
  <2> QED
    BY <2>1, <2>2
<1>2. ASSUME NEW c \in Clients, NEW r \in Requests, Arrive(c, r)
      PROVE  CopyOK'
  <2>1. Registered' = Registered /\ blobs' = blobs /\ snapshot' = snapshot /\ pc'[c] = "load"
    BY <1>2, RegisteredArrive DEF Arrive, Goto, store, Writer, TypeOK
  <2>2. \A d \in Clients \ {c} : pc'[d] = pc[d] /\ request'[d] = request[d]
    BY <1>2 DEF Arrive, Goto, Writer, TypeOK
  <2> QED
    BY <2>1, <2>2 DEF CopyOK, Writing, Found, Dest, Uploading
<1>3. CASE Crash
  BY <1>3 DEF Crash, CopyOK, Writing, Uploading
<1>4. CASE UNCHANGED vars
  <2>1. Registered' = Registered
    BY <1>4, RegisteredKept DEF vars, store, handlers
  <2> QED
    BY <1>4, <2>1 DEF CopyOK, Writing, Found, Dest, vars, store, handlers, ghosts
<1> QED
  BY <1>1, <1>2, <1>3, <1>4 DEF Next

(***************************************************************************)
(* What clients were told                                                  *)
(***************************************************************************)
LEMMA OnlySaver ==
  ASSUME Writer, NEW c \in Clients, pc[c] \in Uploading \cup {"unlinked"} \cup Saving,
         NEW d \in Clients, pc[d] \in Saving
  PROVE  d = c
  BY SavingWrites DEF Writer, OneWriter

LEMMA AckedHandler ==
  ASSUME Writer, Writer', CopyOK, AckedOK, NEW c \in Clients, Handler(c)
  PROVE  AckedOK'
<1>1. CASE SaveFails(c)
  BY <1>1 DEF SaveFails, AckedOK
<1>2. CASE SaveOpen(c)
  <2>1. \A d \in Clients : pc[d] \notin Saving
    BY <1>2, OnlySaver DEF SaveOpen, Uploading, Saving
  <2>2. \A d \in Clients : pc'[d] \in Saving => d = c
    BY <1>2, <2>1 DEF SaveOpen, Goto, Writer, TypeOK
  <2>3. ~interrupted => regState = "whole" /\ registry = acked
    BY <2>1 DEF AckedOK, Writer, RegistryOK, Saving
  <2>4. ~interrupted => snapshot[c] = acked
    <3>1. snapshot[c] = Registered
      BY <1>2, SavingWrites DEF SaveOpen, CopyOK, Uploading, Writer
    <3> QED
      BY <2>3, <3>1, RegisteredReads DEF Writer
  <2>5. snapshot'[c] = [snapshot[c] EXCEPT ![request[c].version] =
                          IF request[c].op = "upload" THEN request[c].file ELSE None]
    BY <1>2 DEF SaveOpen, Writer, TypeOK, HandlersOK, Uploading
  <2>6. interrupted' = interrupted /\ acked' = acked /\ request' = request /\ pc'[c] \in Saving
    BY <1>2 DEF SaveOpen, ghosts, Goto, Saving, Writer, TypeOK
  <2>7. request[c].op = "upload" => snapshot[c][request[c].version] = None
    BY <1>2, RequestsAssumption, Serving
       DEF SaveOpen, CopyOK, Found, Uploading, Writer, HandlersOK, Deletes, Uploads
  <2> QED
    BY <2>2, <2>4, <2>5, <2>6, <2>7 DEF AckedOK
<1>3. CASE SaveWrite(c)
  <2>1. /\ interrupted' = interrupted /\ acked' = acked /\ request' = request
        /\ snapshot' = snapshot /\ pc[c] \in Saving /\ pc'[c] \in Saving
    BY <1>3 DEF SaveWrite, ghosts, Goto, Saving, Writer, TypeOK
  <2>2. \A d \in Clients \ {c} : pc'[d] = pc[d]
    BY <1>3, HandlerMoves DEF Writer
  <2> QED
    BY <2>1, <2>2 DEF AckedOK
<1>4. CASE Answer(c)
  <2>1. \A d \in Clients : pc[d] \in Saving => d = c
    BY <1>4, OnlySaver DEF Answer, Saving
  <2>2. \A d \in Clients : pc'[d] \notin Saving
    BY <1>4, <2>1, HandlerMoves DEF Answer, Finish, Goto, Saving, Writer, TypeOK
  <2>3. registry' = registry /\ interrupted' = interrupted
    BY <1>4 DEF Answer, store
  <2>4. ~interrupted => regState = "whole"
    BY <1>4, <2>1 DEF Answer, Writer, RegistryOK, Saving
  <2>5. ~interrupted => registry = snapshot[c]
    <3>1. snapshot[c] = Registered
      BY <1>4, SavingWrites DEF Answer, CopyOK, Saving, Writer
    <3> QED
      BY <2>4, <3>1, RegisteredReads DEF Writer
  <2>6. acked' = [acked EXCEPT ![request[c].version] =
                    IF request[c].op = "upload" THEN request[c].file ELSE None]
    BY <1>4 DEF Answer
  <2>7. ~interrupted => acked' = snapshot[c]
    BY <1>4, <2>6 DEF Answer, AckedOK, Saving
  <2> QED
    BY <2>2, <2>3, <2>5, <2>7 DEF AckedOK
<1>5. CASE ~Saves(c) /\ ~Answer(c)
  <2>1. UNCHANGED <<registry, interrupted>>
    BY <1>5, RegisteredHandler
  <2>2. \/ RejectDuplicate(c) \/ StreamFails(c) \/ RejectUpload(c) \/ NotFound(c) \/ Serve(c)
        \/ LoadRegistry(c) \/ OpenBlob(c) \/ Stream(c) \/ DeleteBlob(c) \/ Hash(c) \/ FindBlob(c)
    BY <1>5 DEF Handler, Saves
  <2>3. pc[c] \notin Saving /\ pc'[c] \notin Saving /\ acked' = acked
    BY <2>2 DEF RejectDuplicate, StreamFails, RejectUpload, NotFound, Serve, LoadRegistry,
                OpenBlob, Stream, DeleteBlob, Hash, FindBlob, Finish, Goto, Loaded, Saving,
                ghosts, Writer, TypeOK
  <2>4. \A d \in Clients \ {c} :
          pc'[d] = pc[d] /\ request'[d] = request[d] /\ snapshot'[d] = snapshot[d]
    BY HandlerMoves DEF Writer
  <2> QED
    BY <2>1, <2>3, <2>4 DEF AckedOK
<1> QED
  BY <1>1, <1>2, <1>3, <1>4, <1>5 DEF Saves

LEMMA AckedNext ==
  ASSUME Writer, Writer', CopyOK, AckedOK, [Next]_vars
  PROVE  AckedOK'
<1>1. ASSUME NEW c \in Clients, NEW r \in Requests, Arrive(c, r)
      PROVE  AckedOK'
  <2>1. /\ UNCHANGED <<registry, interrupted, acked, snapshot>>
        /\ pc[c] \notin Saving /\ pc'[c] \notin Saving
    BY <1>1 DEF Arrive, Goto, Saving, store, ghosts, Writer, TypeOK
  <2>2. \A d \in Clients \ {c} : pc'[d] = pc[d] /\ request'[d] = request[d]
    BY <1>1 DEF Arrive, Goto, Writer, TypeOK
  <2> QED
    BY <2>1, <2>2 DEF AckedOK
<1>2. CASE Crash
  BY <1>2 DEF Crash, AckedOK
<1>3. CASE UNCHANGED vars
  BY <1>3 DEF AckedOK, vars, store, handlers, ghosts
<1> QED
  BY <1>1, <1>2, <1>3, AckedHandler DEF Next

(***************************************************************************)
(* The inductive invariant, and what follows from it alone                 *)
(***************************************************************************)
LEMMA InitIInv == Init => FInv
<1> SUFFICES ASSUME Init PROVE FInv
  OBVIOUS
<1>1. Empty \in Registries
  BY DEF Empty, Registries
<1>2. TypeOK
  BY <1>1 DEF Init, TypeOK, Pcs, Replies
<1>3. HandlersOK
  BY RequestsAssumption DEF Init, HandlersOK, Uploading, Saving
<1>4. BrokenOwned
  BY DEF Init, BrokenOwned
<1>5. OneWriter /\ RegistryOK
  BY DEF Init, OneWriter, RegistryOK, Writing
<1>6. CopyOK /\ AckedOK
  BY DEF Init, CopyOK, AckedOK, Writing, Uploading, Saving
<1>7. setting = "serial" => Registered = Empty
  BY DEF Init, Registered
<1>8. setting = "serial" => FilesOK
  BY <1>7 DEF FilesOK, Empty
<1> QED
  BY <1>2, <1>3, <1>4, <1>5, <1>6, <1>8 DEF FInv, IInv, Serially

LEMMA SeriallyNext ==
  ASSUME TypeOK, HandlersOK, setting = "serial", Serially, [Next]_vars
  PROVE  Writer /\ Writer' /\ Serially'
<1>1. Writer
  BY DEF Writer, Serially
<1>2. Writer'
  BY <1>1, WriterNext
<1>3. CopyOK' /\ AckedOK'
  BY <1>1, <1>2, CopyNext, AckedNext DEF Serially
<1> QED
  BY <1>1, <1>2, <1>3 DEF Serially, Writer

\* How clients and disk behave never changes.
LEMMA SettingNext ==
  ASSUME TypeOK, [Next]_vars
  PROVE  setting' = setting
  BY HandlerMoves DEF Next, Arrive, Crash, vars, store

LEMMA NextIInv == IInv /\ [Next]_vars => IInv'
<1> SUFFICES ASSUME IInv, [Next]_vars PROVE IInv'
  OBVIOUS
<1>1. TypeOK' /\ HandlersOK' /\ BrokenOwned'
  BY TypesNext, BrokenNext DEF IInv
<1>2. (setting = "serial" => Serially)'
  BY SettingNext, SeriallyNext DEF IInv
<1> QED
  BY <1>1, <1>2 DEF IInv

LEMMA Invariance == Spec => []IInv
<1>1. Init => IInv
  BY InitIInv DEF FInv
<1> QED
  BY <1>1, NextIInv, PTL DEF Spec

\* Every variable keeps its type: a handler reads a version of its request
\* only while it has one (main.py:331-492).
THEOREM RegistryTypeCorrect == Spec => []TypeOK
<1>1. IInv => TypeOK
  BY DEF IInv
<1> QED
  BY <1>1, Invariance, PTL

\* When nobody writes, the registry is what clients were told, as long as no
\* upload or delete was cut off: _save_registry (main.py:212-214) writes the
\* handler's own copy, which is the registry when writers take turns.
THEOREM AckedVersionsRegistered == Spec => []AckedRegistered
<1>1. IInv => AckedRegistered
  <2> SUFFICES ASSUME IInv, Quiet, Undisturbed
               PROVE  regState = "whole" /\ registry = acked
    BY DEF AckedRegistered
  <2>1. \A c \in Clients : pc[c] \notin Saving
    BY SavingWrites DEF Quiet, IInv
  <2> QED
    BY <2>1 DEF Undisturbed, IInv, Serially, RegistryOK, AckedOK, Saving
<1> QED
  BY <1>1, Invariance, PTL

\* With one writer at a time and nothing cut off, README.md:182 is right: a
\* version never changes its file.  (The run TwoWinners shows that it may when
\* uploads overlap.)
THEOREM SeriallyOneFilePerVersion ==
  ASSUME "overlapping" \notin Settings
  PROVE  Spec => OneFilePerVersion
<1> DEFINE Kept ==
      ~interrupted => \A v \in Versions :
         acked[v] # None /\ acked'[v] # None => acked'[v] = acked[v]
<1>1. IInv /\ [Next]_vars => [Kept]_vars
  <2> SUFFICES ASSUME IInv, Next, ~interrupted, NEW v \in Versions,
                      acked[v] # None, acked'[v] # None
               PROVE  acked'[v] = acked[v]
    OBVIOUS
  <2>1. setting = "serial"
    BY RequestsAssumption DEF IInv, TypeOK, AllSettings
  <2>2. ASSUME NEW c \in Clients, Answer(c)
        PROVE  acked'[v] = acked[v]
    BY <2>1, <2>2 DEF Answer, IInv, TypeOK, Registries, Serially, AckedOK, Saving
  <2>3. ASSUME NEW c \in Clients, Handler(c), ~Answer(c)
        PROVE  acked' = acked
    BY <2>3 DEF Handler, LoadRegistry, RejectDuplicate, OpenBlob, Stream, StreamFails,
                Hash, RejectUpload, SaveOpen, SaveWrite, SaveFails, NotFound, DeleteBlob,
                FindBlob, Serve, ghosts
  <2> QED
    BY <2>2, <2>3 DEF Next, Arrive, Crash, ghosts
<1>2. Spec => [][Kept]_vars
  BY <1>1, Invariance, PTL DEF Spec
<1> QED
  BY <1>2 DEF OneFilePerVersion

(***************************************************************************)
(* The files, when no two versions share a name                            *)
(***************************************************************************)

LEMMA RegisteredType ==
  ASSUME Writer
  PROVE  /\ Registered \in Registries
         /\ \A v \in Versions : Registered[v] # None =>
                StorageName(v, Registered[v]) \in StorageNames
<1>1. Registered \in Registries
  <2>1. Empty \in Registries
    BY DEF Empty, Registries
  <2> QED
    BY <2>1, RegisteredReads DEF Writer, TypeOK
<1> QED
  BY <1>1 DEF Registries, StorageNames

\* A step that leaves the registry alone and touches no file but the one
\* named n keeps the other files.
LEMMA FilesFrame ==
  ASSUME Writer, FilesOK, Registered' = Registered, interrupted' = interrupted,
         NEW n,
         \A m \in StorageNames \ {n} : blobs'[m] = blobs[m],
         \A v \in Versions : Removing(v) => Removing(v)',
         \A v \in Versions : Registered[v] # None /\ StorageName(v, Registered[v]) = n =>
             \/ blobs'[n] = blobs[n]
             \/ blobs'[n] = None /\ Removing(v)'
  PROVE  FilesOK'
<1> SUFFICES ASSUME NEW v \in Versions, Registered[v] # None
             PROVE  \/ blobs'[StorageName(v, Registered[v])] = Registered[v]
                    \/ /\ blobs'[StorageName(v, Registered[v])] = None
                       /\ interrupted \/ Removing(v)'
  BY DEF FilesOK, StorageName
<1>1. CASE StorageName(v, Registered[v]) = n
  BY <1>1 DEF FilesOK
<1>2. CASE StorageName(v, Registered[v]) # n
  BY <1>2, RegisteredType DEF FilesOK
<1> QED
  BY <1>1, <1>2

LEMMA RemovingKept ==
  ASSUME Writer, NEW c \in Clients, Handler(c), pc[c] # "unlinked"
  PROVE  \A v \in Versions : Removing(v) => Removing(v)'
  BY HandlerMoves DEF Removing, Writer

LEMMA FilesHandler ==
  ASSUME NamesDistinct, Writer, Writer', CopyOK, FilesOK, NEW c \in Clients, Handler(c)
  PROVE  FilesOK'
<1>1. CASE \/ LoadRegistry(c) \/ RejectDuplicate(c) \/ StreamFails(c) \/ Hash(c)
           \/ Answer(c) \/ NotFound(c) \/ FindBlob(c) \/ Serve(c)
  <2>1. pc[c] # "unlinked" /\ blobs' = blobs /\ ~Saves(c)
    BY <1>1 DEF LoadRegistry, RejectDuplicate, StreamFails, Hash, Answer, NotFound,
                FindBlob, Serve, Loaded, Saves, SaveOpen, SaveWrite, SaveFails, store
  <2>2. Registered' = Registered /\ interrupted' = interrupted
    BY <2>1, RegisteredHandler
  <2> QED
    BY <2>1, <2>2, RemovingKept DEF FilesOK, StorageName
<1>2. CASE OpenBlob(c) \/ Stream(c) \/ RejectUpload(c)
  <2>1. pc[c] # "unlinked" /\ ~Saves(c) /\ Writing(c) /\ pc[c] # "load"
    BY <1>2 DEF OpenBlob, Stream, RejectUpload, Loaded, Saves, SaveOpen, SaveWrite,
                SaveFails, Writing, Writer, HandlersOK, Uploading
  <2>2. Registered' = Registered /\ interrupted' = interrupted
    BY <2>1, RegisteredHandler
  <2>3. Registered[request[c].version] = None
    BY <1>2, <2>1 DEF OpenBlob, Stream, RejectUpload, CopyOK, Uploading, Found
  <2>4. request[c].version \in Versions
    BY <2>1, Serving DEF Writing, Writer
  <2>5. \A m \in StorageNames \ {Dest(c)} : blobs'[m] = blobs[m]
    BY <1>2 DEF OpenBlob, Stream, RejectUpload, UnlinkedBlobs, Writer, TypeOK
  <2>6. \A v \in Versions : Registered[v] # None => StorageName(v, Registered[v]) # Dest(c)
    BY <2>3, <2>4 DEF NamesDistinct, StorageName, Dest
  <2> QED
    BY <2>1, <2>2, <2>5, <2>6, RemovingKept, FilesFrame
<1>3. CASE DeleteBlob(c)
  <2> DEFINE u == request[c].version
             n == StorageName(u, Found(c))
  <2>1. pc[c] # "unlinked" /\ ~Saves(c) /\ Writing(c) /\ pc[c] # "load"
    BY <1>3 DEF DeleteBlob, Loaded, Saves, SaveOpen, SaveWrite, SaveFails, Writing
  <2>2. Registered' = Registered /\ interrupted' = interrupted
    BY <2>1, RegisteredHandler
  <2>3. Registered[u] = Found(c) /\ u \in Versions
    BY <2>1, Serving DEF CopyOK, Found, Writing, Writer
  <2>4. \A m \in StorageNames \ {n} : blobs'[m] = blobs[m]
    BY <1>3 DEF DeleteBlob, UnlinkedBlobs, Writer, TypeOK
  <2>5. n \in StorageNames
    BY <1>3, <2>1, ServingDelete DEF DeleteBlob, Writing, Writer
  <2>6. blobs'[n] = None
    BY <1>3, <2>5 DEF DeleteBlob, UnlinkedBlobs, Writer, TypeOK
  <2>7. \A v \in Versions : v = u => Removing(v)'
    BY <1>3 DEF DeleteBlob, Removing, Goto, Writer, TypeOK
  <2>8. \A v \in Versions : StorageName(v, Registered[v]) = n => v = u
    BY <2>3 DEF NamesDistinct, StorageName
  <2> QED
    BY <2>1, <2>2, <2>4, <2>6, <2>7, <2>8, RemovingKept, FilesFrame
<1>4. CASE SaveOpen(c)
  <2> DEFINE u == request[c].version
  <2>1. Registered' = [Registered EXCEPT ![u] = Change(c)]
    BY <1>4, RegisteredSaveOpen
  <2>2. blobs' = blobs /\ interrupted' = interrupted
    BY <1>4 DEF SaveOpen, ghosts
  <2>3. Registered \in Registries
    BY RegisteredType
  <2>4. \A v \in Versions : Removing(v) => v = u
    BY <1>4, SavingWrites
       DEF SaveOpen, Removing, Writer, OneWriter, Uploading
  <2>5. u \in Versions
    BY <1>4, Serving DEF SaveOpen, Writer
  <2>6. ASSUME NEW v \in Versions, v # u
        PROVE  Registered'[v] = Registered[v] /\ ~Removing(v)
    BY <2>1, <2>3, <2>4, <2>6 DEF Registries
  <2>7. Registered'[u] = Change(c)
    BY <2>1, <2>3, <2>5 DEF Registries
  <2>8. Change(c) # None => blobs[StorageName(u, Change(c))] = Change(c)
    BY <1>4 DEF SaveOpen, Change, CopyOK, Dest
  <2> QED
    BY <2>2, <2>6, <2>7, <2>8 DEF FilesOK, StorageName
<1>5. CASE SaveWrite(c)
  <2>1. Registered' = Registered /\ blobs' = blobs /\ interrupted' = interrupted
    BY <1>5, RegisteredSaveWrite DEF SaveWrite, ghosts
  <2>2. pc[c] # "unlinked"
    BY <1>5 DEF SaveWrite
  <2> QED
    BY <2>1, <2>2, RemovingKept DEF FilesOK, StorageName
<1>6. CASE SaveFails(c)
  BY <1>6, RegisteredSaveFails DEF FilesOK, Empty
<1> QED
  BY <1>1, <1>2, <1>3, <1>4, <1>5, <1>6 DEF Handler

LEMMA FilesNext ==
  ASSUME NamesDistinct, Writer, Writer', CopyOK, FilesOK, [Next]_vars
  PROVE  FilesOK'
<1>1. ASSUME NEW c \in Clients, NEW r \in Requests, Arrive(c, r)
      PROVE  FilesOK'
  <2>1. Registered' = Registered /\ blobs' = blobs /\ interrupted' = interrupted
    BY <1>1, RegisteredArrive DEF Arrive, store, ghosts
  <2>2. \A v \in Versions : Removing(v) => Removing(v)'
    BY <1>1 DEF Arrive, Removing, Goto, Writer, TypeOK
  <2> QED
    BY <2>1, <2>2 DEF FilesOK, StorageName
<1>2. CASE Crash
  <2>1. Registered' \in {Registered, Empty} /\ blobs' = blobs /\ interrupted'
    BY <1>2, RegisteredCrash DEF Crash, store
  <2> QED
    BY <2>1 DEF FilesOK, StorageName, Empty
<1>3. CASE UNCHANGED vars
  <2>1. Registered' = Registered
    BY <1>3, RegisteredKept DEF vars, store, handlers
  <2> QED
    BY <1>3, <2>1 DEF FilesOK, StorageName, Removing, vars, store, handlers, ghosts
<1> QED
  BY <1>1, <1>2, <1>3, FilesHandler DEF Next

LEMMA NextFInv == FInv /\ [Next]_vars => FInv'
<1> SUFFICES ASSUME FInv, [Next]_vars PROVE FInv'
  OBVIOUS
<1>1. IInv'
  BY NextIInv DEF FInv
<1>2. ASSUME NamesDistinct, setting' = "serial"
      PROVE  FilesOK'
  <2>1. setting = "serial"
    BY <1>2, SettingNext DEF FInv, IInv
  <2>2. Writer /\ Writer' /\ CopyOK
    BY <2>1, SeriallyNext DEF FInv, IInv, Serially
  <2> QED
    BY <1>2, <2>1, <2>2, FilesNext DEF FInv
<1> QED
  BY <1>1, <1>2 DEF FInv, NamesDistinct

LEMMA FilesInvariance == Spec => []FInv
  BY InitIInv, NextFInv, PTL DEF Spec

\* When nobody writes, the registry is what it stands for.
LEMMA QuietRegistered ==
  ASSUME IInv, Quiet, setting = "serial"
  PROVE  \A v \in Versions : registry[v] # None => registry[v] = Registered[v]
<1>1. \A c \in Clients : pc[c] # "saving"
  BY SavingWrites DEF Quiet, IInv, Saving
<1> QED
  BY <1>1, RegisteredReads DEF IInv, Serially, RegistryOK, Empty

\* When nobody writes, every registered version can be downloaded with the
\* bytes that were verified, as long as nothing was cut off: upload_firmware
\* opens the file of another version for writing, or delete_firmware unlinks
\* it, only if the two have the same storage name (main.py:365, 486).
THEOREM RegisteredVersionsDownloadable ==
  ASSUME NamesDistinct
  PROVE  Spec => []RegisteredDownloadable
<1>1. FInv => RegisteredDownloadable
  <2> SUFFICES ASSUME FInv, Quiet, Undisturbed, NEW v \in Versions, registry[v] # None
               PROVE  Blob(v) = registry[v]
    BY DEF RegisteredDownloadable
  <2>1. registry[v] = Registered[v]
    BY QuietRegistered DEF FInv, Undisturbed
  <2>2. ~Removing(v)
    BY SavingWrites DEF Removing, Quiet, FInv, IInv
  <2> QED
    BY <2>1, <2>2, NamesDistinct DEF FInv, FilesOK, Undisturbed, Blob
<1> QED
  BY <1>1, FilesInvariance, PTL

\* A registered version is whole or missing, never other bytes, whatever a
\* restart or a full disk cuts off and however writers overlap: a file is
\* verified from the disk (main.py:387) and not from what was received.  With
\* overlapping writers not even distinct names are needed.
THEOREM RegisteredNeverCorrupt ==
  ASSUME NamesDistinct \/ "serial" \notin Settings
  PROVE  Spec => []NeverCorrupt
<1>1. FInv => NeverCorrupt
  <2> SUFFICES ASSUME FInv, Quiet, NEW v \in Versions, registry[v] # None
               PROVE  Blob(v) \in {registry[v], None}
    BY DEF NeverCorrupt
  <2>1. CASE setting = "serial"
    <3>1. NamesDistinct
      BY <2>1 DEF FInv, IInv, TypeOK
    <3>2. registry[v] = Registered[v]
      BY <2>1, QuietRegistered DEF FInv
    <3> QED
      BY <2>1, <3>1, <3>2 DEF FInv, FilesOK, Blob
  <2>2. CASE setting = "overlapping"
    <3>1. StorageName(v, registry[v]) \in StorageNames
          /\ StorageName(v, registry[v])[2] = registry[v]
      BY DEF FInv, IInv, TypeOK, Registries, StorageNames, StorageName
    <3>2. \A c \in Clients : ~AtWork(c)
      BY SavingWrites DEF AtWork, Uploading, Quiet, FInv, IInv
    <3> QED
      BY <2>2, <3>1, <3>2 DEF FInv, IInv, BrokenOwned, Blob
  <2> QED
    BY <2>1, <2>2, RequestsAssumption DEF FInv, IInv, TypeOK, AllSettings
<1> QED
  BY <1>1, FilesInvariance, PTL

(***************************************************************************)
(* Refinement: one step of a save is a step of VersionStore, the others    *)
(* are none.                                                               *)
(***************************************************************************)
LEMMA SaveOpenRefines ==
  ASSUME Writer, Writer', CopyOK, NEW c \in Clients, SaveOpen(c)
  PROVE  Abstract!Next
<1> DEFINE u == request[c].version
<1>1. Registered' = [Registered EXCEPT ![u] = Change(c)]
  BY RegisteredSaveOpen
<1>2. snapshot[c] = Registered
  BY SavingWrites DEF SaveOpen, CopyOK, Uploading, Writer
<1>3. u \in Versions /\ pc[c] # "free"
  BY Serving DEF SaveOpen, Writer
<1>4. CASE pc[c] = "accepted"
  <2>1. request[c].file \in Files
    BY <1>4, ServingUpload DEF Writer, HandlersOK, Uploading
  <2>2. Registered[u] = None
    BY <1>2, <1>4 DEF CopyOK, Found, Uploading
  <2>3. Abstract!Add(u, request[c].file)
    BY <1>1, <1>4, <2>2 DEF Abstract!Add, Change
  <2> QED
    BY <1>3, <2>1, <2>3 DEF Abstract!Next
<1>5. CASE pc[c] = "unlinked"
  <2>1. Registered[u] # None
    BY <1>2, <1>5 DEF CopyOK, Found
  <2>2. Abstract!Remove(u)
    BY <1>1, <1>5, <2>1 DEF Abstract!Remove, Change
  <2> QED
    BY <1>3, <2>2 DEF Abstract!Next
<1> QED
  BY <1>4, <1>5 DEF SaveOpen

LEMMA SerialRefines ==
  ASSUME Writer, Writer', CopyOK, [Next]_vars
  PROVE  Abstract!Next \/ Registered' = Registered
<1>1. Registered' = Empty => Abstract!Next
  BY DEF Abstract!Next, Abstract!LoseAll, Abstract!Nothing, Empty
<1>2. ASSUME NEW c \in Clients, Handler(c)
      PROVE  Abstract!Next \/ Registered' = Registered
  BY <1>1, <1>2, SaveOpenRefines, RegisteredSaveWrite, RegisteredSaveFails,
     RegisteredHandler DEF Saves
<1>3. ASSUME NEW c \in Clients, NEW r \in Requests, Arrive(c, r)
      PROVE  Registered' = Registered
  BY <1>3, RegisteredArrive
<1>4. CASE Crash
  BY <1>1, <1>4, RegisteredCrash
<1>5. CASE UNCHANGED vars
  BY <1>5, RegisteredKept DEF vars, store, handlers
<1> QED
  BY <1>2, <1>3, <1>4, <1>5 DEF Next

LEMMA NextRefines == IInv /\ [Next]_vars => [Abstract!Next]_Registered
<1> SUFFICES ASSUME IInv, [Next]_vars
             PROVE  Abstract!Next \/ Registered' = Registered
  OBVIOUS
<1>1. CASE setting = "serial"
  <2>1. Writer /\ Writer' /\ CopyOK
    BY <1>1, SeriallyNext DEF IInv, Serially
  <2> QED
    BY <2>1, SerialRefines
<1>2. CASE setting # "serial"
  <2>1. setting' = setting
    BY SettingNext DEF IInv
  <2> QED
    BY <1>2, <2>1 DEF Registered, Empty
<1> QED
  BY <1>1, <1>2

\* With one writer at a time, an upload and a delete each take effect in one
\* step, on a version that is absent and on one that is there, and a save
\* that is cut off loses everything and not one version (main.py:202-214).
THEOREM RegistryImplementsVersionStore == Spec => ImplementsVersionStore
<1>1. Init => Abstract!Init
  BY DEF Init, Abstract!Init, Abstract!Nothing, Registered, Empty
<1> QED
  BY <1>1, Invariance, NextRefines, PTL DEF Spec, ImplementsVersionStore, Abstract!Spec

\* A download sends the registered file or the version was withdrawn since:
\* between the look-up and FileResponse (main.py:457-471) nobody can have put
\* other bytes under that name.
THEOREM DownloadsServedAsRegistered ==
  ASSUME NamesDistinct
  PROVE  Spec => ServedAsRegistered
<1>1. FInv /\ [Next]_vars =>
        [\A c \in Clients :
           setting = "serial" /\ pc[c] = "serving" /\ reply'[c] = "served" =>
             LET v == request[c].version
             IN  \/ blobs[StorageName(v, Found(c))] = Found(c)
                 \/ Registered[v] # Found(c)]_vars
  <2> SUFFICES ASSUME FInv, Next, NEW c \in Clients, setting = "serial",
                      pc[c] = "serving", reply'[c] = "served",
                      Registered[request[c].version] = Found(c)
               PROVE  blobs[StorageName(request[c].version, Found(c))] = Found(c)
    BY DEF vars, store, handlers
  <2>1. TypeOK /\ HandlersOK /\ FilesOK
    BY NamesDistinct DEF FInv, IInv
  <2>2. reply[c] = "none" /\ Found(c) # None /\ request[c].version \in Versions
    BY <2>1, Serving DEF HandlersOK
  <2>3. Serve(c)
    <3>1. ASSUME NEW d \in Clients, d # c, Handler(d)
          PROVE  reply'[c] = reply[c]
      BY <2>1, <3>1
         DEF Handler, LoadRegistry, RejectDuplicate, OpenBlob, Stream, StreamFails, Hash,
             RejectUpload, SaveOpen, SaveWrite, SaveFails, Answer, NotFound, DeleteBlob,
             FindBlob, Serve, Finish, TypeOK
    <3>2. Handler(c) => Serve(c)
      BY DEF Handler, LoadRegistry, RejectDuplicate, OpenBlob, Stream, StreamFails, Hash,
             RejectUpload, SaveOpen, SaveWrite, SaveFails, Answer, NotFound, DeleteBlob,
             FindBlob, Loaded
    <3>3. ASSUME NEW d \in Clients, NEW r \in Requests, Arrive(d, r)
          PROVE  reply'[c] = "none"
      BY <2>1, <2>2, <3>3 DEF Arrive, TypeOK
    <3> QED
      BY <2>2, <3>1, <3>2, <3>3 DEF Next, Crash
  <2>4. blobs[StorageName(request[c].version, Found(c))] # None
    BY <2>1, <2>3 DEF Serve, Finish, TypeOK
  <2> QED
    BY <2>1, <2>2, <2>4 DEF FilesOK
<1> QED
  BY <1>1, FilesInvariance, PTL DEF Spec, ServedAsRegistered
=============================================================================

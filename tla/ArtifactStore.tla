---------------------------- MODULE ArtifactStore ----------------------------
(***************************************************************************)
(* The artifact stores of shared_kernel/artifacts.py: files under a root,  *)
(* or blobs of an Azure container.  The mlops service writes training      *)
(* artifacts, model cards and registered packages, never with overwrite;   *)
(* it and the scoring processes read what a row names, and a row is        *)
(* written after write_bytes has returned its URI.                         *)
(*                                                                         *)
(* write_bytes looks, opens and writes a file in steps between which a     *)
(* reader of another process may come, or the process may die; a blob is   *)
(* created by one request whose answer may be lost.                        *)
(***************************************************************************)
EXTENDS Naturals

CONSTANTS
  Names,       \* <directory>/<stem>.json
  BadNames,    \* those _validated_component or the root check refuse
  Payloads,
  Writers,     \* writer processes; a write blocks the event loop of its own
  FileWriters, \* those that share a file system
  Torn,        \* the bytes of a file that is opened and not yet written
  Nothing

Backends == {"filesystem", "azure_blob"}
URI == [backend : Backends, name : Names]
Call == [pc : {"called", "absent", "open", "stored", "exists"},
         name : Names, payload : Payloads]

\* The kinds of ArtifactStoreError that read_bytes ends with.
ReadErrors == {"invalid_uri", "not_found"}

ASSUME StoreAssumption ==
  /\ BadNames \subseteq Names
  /\ FileWriters \subseteq Writers
  /\ Torn \notin Payloads /\ Nothing \notin Payloads /\ Torn # Nothing
  /\ Payloads \intersect ReadErrors = {} /\ Torn \notin ReadErrors
  /\ Nothing \notin Call

\* One process writes to a file system: only the mlops service writes artifacts,
\* and run_service.py starts one worker unless UVICORN_WORKERS asks for more.
ASSUME OneFileWriter == \A v, w \in FileWriters : v = w

VARIABLES
  backend,   \* artifact_storage_backend
  stored,    \* the bytes under each name
  writing,   \* the write_bytes call of each process
  returned   \* URIs that write_bytes has returned, with the bytes meant

storeVars == <<backend, stored, writing, returned>>

StoreInit ==
  /\ backend \in Backends
  /\ stored = [n \in Names |-> Nothing]
  /\ writing = [w \in Writers |-> Nothing]
  /\ returned = {}

-----------------------------------------------------------------------------
\* read_bytes: an error kind or the bytes that are there.
ReadBytes(uri) ==
  IF uri.backend # backend \/ uri.name \in BadNames THEN "invalid_uri"
  ELSE IF stored[uri.name] = Nothing THEN "not_found"
  ELSE stored[uri.name]

At(w, pc) == writing[w] # Nothing /\ writing[w].pc = pc
Goto(w, pc) == writing' = [writing EXCEPT ![w].pc = pc]
PutBytes(w, bytes) == stored' = [stored EXCEPT ![writing[w].name] = bytes]
Target(w) == [backend |-> backend, name |-> writing[w].name]

\* The URI goes with the bytes that are there before the call is done.
ReturnStored(w) ==
  /\ writing' = [writing EXCEPT ![w] = Nothing]
  /\ returned' = returned \union {[uri |-> Target(w), payload |-> stored[writing[w].name]]}

\* The call ends with its URI.
Return(w) ==
  /\ writing' = [writing EXCEPT ![w] = Nothing]
  /\ returned' = returned \union {[uri |-> Target(w), payload |-> writing[w].payload]}

\* The call ends with an ArtifactStoreError.
Error(w) ==
  /\ writing' = [writing EXCEPT ![w] = Nothing]
  /\ UNCHANGED returned

WriteBytes(w, n, p) ==
  /\ writing[w] = Nothing
  /\ n \notin BadNames
  /\ backend = "filesystem" => w \in FileWriters
  /\ writing' = [writing EXCEPT ![w] = [pc |-> "called", name |-> n, payload |-> p]]
  /\ UNCHANGED <<backend, stored, returned>>

-----------------------------------------------------------------------------
(***************************************************************************)
(* FileSystemArtifactStore.write_bytes                                     *)
(***************************************************************************)
\* Equal bytes written again.
FileLooksAlways(w) ==
  /\ At(w, "called") /\ backend = "filesystem"
  /\ IF ReadBytes(Target(w)) \in {"not_found", writing[w].payload}
     THEN Goto(w, "absent") /\ UNCHANGED returned
     ELSE Error(w)
  /\ UNCHANGED <<backend, stored>>

\* exists, read_bytes and the comparison
FileLooks(w) ==
  /\ At(w, "called") /\ backend = "filesystem"
  /\ \/ /\ ReadBytes(Target(w)) = "not_found"
        /\ Goto(w, "absent")
        /\ UNCHANGED returned
     \/ ReadBytes(Target(w)) = writing[w].payload /\ Return(w)
     \/ ReadBytes(Target(w)) \notin {"not_found", writing[w].payload} /\ Error(w)
  /\ UNCHANGED <<backend, stored>>

\* target_path.write_bytes opens (and empties) the file, then fills it.
FileOpens(w) ==
  /\ At(w, "absent")
  /\ Goto(w, "open")
  /\ PutBytes(w, Torn)
  /\ UNCHANGED <<backend, returned>>

FileWritten(w) ==
  /\ At(w, "open")
  /\ PutBytes(w, writing[w].payload)
  /\ Return(w)
  /\ UNCHANGED backend

-----------------------------------------------------------------------------
(***************************************************************************)
(* AzureBlobArtifactStore.write_bytes                                      *)
(***************************************************************************)
\* upload_blob with overwrite.
UploadOver(w) ==
  /\ At(w, "called") /\ backend = "azure_blob"
  /\ Goto(w, "stored")
  /\ PutBytes(w, writing[w].payload)
  /\ UNCHANGED <<backend, returned>>

\* upload_blob: the blob is created, or ResourceExistsError is on its way.
Upload(w) ==
  /\ At(w, "called") /\ backend = "azure_blob"
  /\ \/ /\ stored[writing[w].name] = Nothing
        /\ Goto(w, "stored")
        /\ PutBytes(w, writing[w].payload)
     \/ /\ stored[writing[w].name] # Nothing
        /\ Goto(w, "exists")
        /\ UNCHANGED stored
  /\ UNCHANGED <<backend, returned>>

UploadAnswered(w) ==
  /\ At(w, "stored")
  /\ Return(w)
  /\ UNCHANGED <<backend, stored>>

\* The blob that exists is read and compared.
CompareExisting(w) ==
  /\ At(w, "exists")
  /\ IF ReadBytes(Target(w)) = writing[w].payload THEN Return(w) ELSE Error(w)
  /\ UNCHANGED <<backend, stored>>

-----------------------------------------------------------------------------
\* The process dies, the disk is full, the request or its answer is lost:
\* what was stored stays as it is.
Fail(w) ==
  /\ writing[w] # Nothing
  /\ Error(w)
  /\ UNCHANGED <<backend, stored>>

Step(w) ==
  \/ \E n \in Names, p \in Payloads : WriteBytes(w, n, p)
  \/ FileLooks(w)
  \/ FileOpens(w)
  \/ FileWritten(w)
  \/ Upload(w)
  \/ UploadAnswered(w)
  \/ CompareExisting(w)
  \/ Fail(w)

StoreNext == \E w \in Writers : Step(w)

StoreSpec == StoreInit /\ [][StoreNext]_storeVars

-----------------------------------------------------------------------------
(***************************************************************************)
(* Properties.                                                             *)
(***************************************************************************)
\* Every variable keeps its type.
StoreTypeOK ==
  /\ backend \in Backends
  /\ stored \in [Names -> Payloads \union {Torn, Nothing}]
  /\ writing \in [Writers -> Call \union {Nothing}]
  /\ returned \subseteq [uri : URI, payload : Payloads]

\* Whatever a row names can be read, from now on and at any moment, with the
\* very bytes its writer meant: no later write of the same name, equal or
\* different, complete or broken off, ever shows through.
ReturnedReadsBack == \A r \in returned : ReadBytes(r.uri) = r.payload

\* The store is write-once; a torn file counts as never written.
Abstract == INSTANCE WriteOnceStore WITH
  None <- Nothing,
  content <- [n \in Names |-> IF stored[n] = Torn THEN Nothing ELSE stored[n]],
  promised <- {<<r.uri.name, r.payload>> : r \in returned}

ImplementsWriteOnce == Abstract!Spec

-----------------------------------------------------------------------------
(***************************************************************************)
(* The inductive invariant.                                                *)
(***************************************************************************)
\* What a call knows at each step: a file that was absent is absent until the
\* call opens it, and torn until the call has filled it; a blob that was
\* created, or found, is there with whole bytes.
CallBacked(w) ==
  LET call == writing[w]
      bytes == stored[call.name]
  IN /\ call.name \notin BadNames
     /\ backend = "filesystem" => w \in FileWriters
     /\ call.pc \in {"absent", "open"} => backend = "filesystem"
     /\ call.pc \in {"stored", "exists"} => backend = "azure_blob"
     /\ call.pc = "absent" => bytes = Nothing
     /\ call.pc = "open" => bytes = Torn
     /\ call.pc = "stored" => bytes = call.payload

CallsBacked == \A w \in Writers : writing[w] # Nothing => CallBacked(w)

\* A returned URI is one read_bytes accepts, with the bytes in their place.
ReturnedStored ==
  \A r \in returned :
    /\ r.uri.backend = backend
    /\ r.uri.name \notin BadNames
    /\ stored[r.uri.name] = r.payload

StoreIInv == StoreTypeOK /\ CallsBacked /\ ReturnedStored
=============================================================================

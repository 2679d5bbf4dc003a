---------------------------- MODULE BlobStorage ----------------------------
(***************************************************************************)
(* The content-addressed store of uploaded files, the table file_blobs     *)
(* that registers its contents, and the cleanup command that removes stale *)
(* temporary files and contents nobody registered.                         *)
(*                                                                         *)
(* A source file, an image of a dashboard and a quality report all enter   *)
(* the same way: LocalContentAddressedStorage.store writes a temporary     *)
(* file, gives it the name of its digest, and a database transaction then  *)
(* registers it.  The file system and the database share no transaction,   *)
(* so uploads, crashes and the cleanup interleave between all these steps. *)
(*                                                                         *)
(* Ages count relative to the cutoff of the next cleanup, or of the one    *)
(* that runs: older_than is fixed when the command starts.                 *)
(***************************************************************************)
EXTENDS Naturals, FiniteSets

(* As in ImportBatches, a definition named after the one that follows it,  *)
(* with a suffix, is that one with a plausible bug.                        *)

CONSTANTS
  Uploads,     \* requests to store a file, each made at most once
  Contents,    \* what the files hold; equal contents have one digest
  Images,      \* the contents that are images, the others are CSV or XLSX
  MaxFaults    \* bound on crashes and on database errors

ASSUME BlobAssumption == Images \subseteq Contents /\ MaxFaults \in Nat

(* Source files and images have a table with a unique constraint over      *)
(* workspace and blob.  A report has none: the column of its batch that    *)
(* refers to it is overwritten by the next report.                         *)
UniqueKinds == {"source_file", "dashboard_asset"}
Kinds == UniqueKinds \cup {"quality_report"}

VARIABLES
  upload,      \* the state of each request
  temp,        \* temp[u]: its file below .tmp
  disk,        \* disk[c]: the file sha256/../c
  blobs,       \* the contents registered in file_blobs
  references,  \* the rows of source_files and dashboard_assets: <<kind, content>>
  cleaner,     \* the cleanup command
  faults       \* how many faults have happened, at most MaxFaults

vars == <<upload, temp, disk, blobs, references, cleaner, faults>>

Ages == {"none", "young", "old"}

(* created: the file was put in place by this request; known, owned: what  *)
(* the registration found in the database.                                 *)
UploadState ==
  [pc : {"new", "writing", "complete", "verify", "move", "stored",
         "registering", "registered", "failed", "crashed"},
   kind : Kinds, content : Contents,
   created : BOOLEAN, known : BOOLEAN, owned : BOOLEAN]

CleanerState ==
  [pc : {"idle", "temps", "blobs"}, listed : SUBSET Uploads,
   referenced : SUBSET Contents]

NoCleanup == [pc |-> "idle", listed |-> {}, referenced |-> {}]

Init ==
  /\ upload \in [Uploads -> {s \in UploadState :
                   /\ s.pc = "new" /\ ~s.created /\ ~s.known /\ ~s.owned
                   /\ s.kind = "dashboard_asset" <=> s.content \in Images}]
  /\ temp = [u \in Uploads |-> "none"]
  /\ disk = [c \in Contents |-> "none"]
  /\ blobs = {}
  /\ references = {}
  /\ cleaner = NoCleanup
  /\ faults = 0

Content(u) == upload[u].content
Reference(u) == <<upload[u].kind, Content(u)>>
InFlight(u) == upload[u].pc \notin {"new", "registered", "failed", "crashed"}

At(u, pc) == upload[u].pc = pc
Goto(u, pc) == upload' = [upload EXCEPT ![u].pc = pc]

-----------------------------------------------------------------------------
(* LocalContentAddressedStorage.store.                                     *)

OpenTemporaryFile(u) ==
  /\ At(u, "new")
  /\ Goto(u, "writing")
  /\ temp' = [temp EXCEPT ![u] = "young"]
  /\ UNCHANGED <<disk, blobs, references, cleaner, faults>>

TemporaryAfterRejectionKept(u) == temp[u]

TemporaryAfterRejection(u) == "none"

(* The upload is empty or too large: the finally clause removes the file.  *)
RejectUpload(u) ==
  /\ At(u, "writing")
  /\ Goto(u, "failed")
  /\ temp' = [temp EXCEPT ![u] = TemporaryAfterRejection(u)]
  /\ UNCHANGED <<disk, blobs, references, cleaner, faults>>

FinishTemporaryFile(u) ==
  /\ At(u, "writing")
  /\ Goto(u, "complete")
  /\ UNCHANGED <<temp, disk, blobs, references, cleaner, faults>>

(* final_path.exists(), and what it decides.                               *)
LookForContent(u) ==
  /\ At(u, "complete")
  /\ Goto(u, IF disk[Content(u)] # "none" THEN "verify" ELSE "move")
  /\ UNCHANGED <<temp, disk, blobs, references, cleaner, faults>>

(* The present file is read and compared; its age does not change.  When   *)
(* it is gone by now, stat raises FileNotFoundError.                       *)
ReuseContent(u) ==
  /\ At(u, "verify")
  /\ Goto(u, IF disk[Content(u)] # "none" THEN "stored" ELSE "failed")
  /\ temp' = [temp EXCEPT ![u] = "none"]
  /\ UNCHANGED <<disk, blobs, references, cleaner, faults>>

(* os.replace: the temporary file takes the name of the content.           *)
MoveIntoPlace(u) ==
  /\ At(u, "move")
  /\ temp[u] # "none"
  /\ upload' = [upload EXCEPT ![u].pc = "stored", ![u].created = TRUE]
  /\ disk' = [disk EXCEPT ![Content(u)] = temp[u]]
  /\ temp' = [temp EXCEPT ![u] = "none"]
  /\ UNCHANGED <<blobs, references, cleaner, faults>>

-----------------------------------------------------------------------------
(* The registration: register_source_file, register_dashboard_asset,       *)
(* attach_quality_report.                                                  *)

ReadRegistration(u) ==
  /\ At(u, "stored")
  /\ upload' = [upload EXCEPT ![u].pc = "registering",
                  ![u].known = Content(u) \in blobs,
                  ![u].owned = Reference(u) \in references]
  /\ UNCHANGED <<temp, disk, blobs, references, cleaner, faults>>

(* Another transaction has inserted the row this one is about to insert.   *)
UniqueViolation(u) ==
  \/ ~upload[u].known /\ Content(u) \in blobs
  \/ /\ upload[u].kind \in UniqueKinds
     /\ ~upload[u].owned /\ Reference(u) \in references

CommitRegistration(u) ==
  /\ At(u, "registering")
  /\ ~UniqueViolation(u)
  /\ Goto(u, "registered")
  /\ blobs' = blobs \cup {Content(u)}
  /\ references' = references \cup ({Reference(u)} \cap (UniqueKinds \X Contents))
  /\ UNCHANGED <<temp, disk, cleaner, faults>>

(* The IntegrityError is not caught: the request fails.                    *)
ConflictingRegistration(u) ==
  /\ At(u, "registering")
  /\ UniqueViolation(u)
  /\ Goto(u, "failed")
  /\ UNCHANGED <<temp, disk, blobs, references, cleaner, faults>>

-----------------------------------------------------------------------------
(* Faults.                                                                 *)

(* The database refuses the transaction for a reason of its own.           *)
RegistrationFails(u) ==
  /\ upload[u].pc \in {"stored", "registering"}
  /\ faults < MaxFaults
  /\ faults' = faults + 1
  /\ Goto(u, "failed")
  /\ UNCHANGED <<temp, disk, blobs, references, cleaner>>

(* The server process dies: no finally clause runs.                        *)
ServerCrashes(u) ==
  /\ InFlight(u)
  /\ faults < MaxFaults
  /\ faults' = faults + 1
  /\ Goto(u, "crashed")
  /\ UNCHANGED <<temp, disk, blobs, references, cleaner>>

-----------------------------------------------------------------------------
(* cleanup_ingestion_storage.                                              *)

Aged(age) == IF age = "young" THEN "old" ELSE age

(* The next cleanup will have a later cutoff: by default 24 hours back, so *)
(* that no request in flight is as old.                                    *)
TimePasses ==
  /\ cleaner.pc = "idle"
  /\ \A u \in Uploads : ~InFlight(u)
  /\ temp' = [u \in Uploads |-> Aged(temp[u])]
  /\ disk' = [c \in Contents |-> Aged(disk[c])]
  /\ UNCHANGED <<upload, blobs, references, cleaner, faults>>

ListTemporaryFiles ==
  /\ cleaner.pc = "idle"
  /\ cleaner' = [cleaner EXCEPT !.pc = "temps",
                   !.listed = {u \in Uploads : temp[u] # "none"}]
  /\ UNCHANGED <<upload, temp, disk, blobs, references, faults>>

StaleWhateverAge(age) == age # "none"

(* st_mtime < cutoff                                                       *)
Stale(age) == age = "old"

(* A listed file that its upload has moved or removed in the meantime      *)
(* makes stat raise, which ends the command.                               *)
VisitTemporaryFile(u) ==
  /\ cleaner.pc = "temps"
  /\ u \in cleaner.listed
  /\ temp[u] # "none"
  /\ temp' = [temp EXCEPT ![u] = IF Stale(@) THEN "none" ELSE @]
  /\ cleaner' = [cleaner EXCEPT !.listed = @ \ {u}]
  /\ UNCHANGED <<upload, disk, blobs, references, faults>>

AbortCleanup(u) ==
  /\ cleaner.pc = "temps"
  /\ u \in cleaner.listed
  /\ temp[u] = "none"
  /\ cleaner' = NoCleanup
  /\ UNCHANGED <<upload, temp, disk, blobs, references, faults>>

ReferencedBlobs == blobs

ReadReferences ==
  /\ cleaner.pc = "temps"
  /\ cleaner.listed = {}
  /\ cleaner' = [cleaner EXCEPT !.pc = "blobs", !.referenced = ReferencedBlobs]
  /\ UNCHANGED <<upload, temp, disk, blobs, references, faults>>

(* The reference set is not read again.                                    *)
RemoveOrphan(c) ==
  /\ cleaner.pc = "blobs"
  /\ c \notin cleaner.referenced
  /\ Stale(disk[c])
  /\ disk' = [disk EXCEPT ![c] = "none"]
  /\ UNCHANGED <<upload, temp, blobs, references, cleaner, faults>>

FinishCleanup ==
  /\ cleaner.pc = "blobs"
  /\ \A c \in Contents \ cleaner.referenced : ~Stale(disk[c])
  /\ cleaner' = NoCleanup
  /\ UNCHANGED <<upload, temp, disk, blobs, references, faults>>

-----------------------------------------------------------------------------
Store(u) ==
  \/ OpenTemporaryFile(u)
  \/ RejectUpload(u)
  \/ FinishTemporaryFile(u)
  \/ LookForContent(u)
  \/ ReuseContent(u)
  \/ MoveIntoPlace(u)

Register(u) ==
  \/ ReadRegistration(u)
  \/ CommitRegistration(u)
  \/ ConflictingRegistration(u)

Cleanup ==
  \/ ListTemporaryFiles
  \/ \E u \in Uploads : VisitTemporaryFile(u) \/ AbortCleanup(u)
  \/ ReadReferences
  \/ \E c \in Contents : RemoveOrphan(c)
  \/ FinishCleanup

Next ==
  \/ \E u \in Uploads : Store(u) \/ Register(u)
  \/ \E u \in Uploads : RegistrationFails(u) \/ ServerCrashes(u)
  \/ TimePasses
  \/ Cleanup

Spec == Init /\ [][Next]_vars

-----------------------------------------------------------------------------
(* Properties.                                                             *)

(* Every variable keeps its shape.                                         *)
TypeOK ==
  /\ upload \in [Uploads -> UploadState]
  /\ temp \in [Uploads -> Ages]
  /\ disk \in [Contents -> Ages]
  /\ blobs \subseteq Contents
  /\ references \subseteq UniqueKinds \X Contents
  /\ cleaner \in CleanerState
  /\ faults \in Nat

(* README.md: "the command does not delete source files or quality reports *)
(* that the database has registered".                                      *)
RegisteredIsStored == \A c \in blobs : disk[c] # "none"

(* The grace period does its work: a cleanup that read the references      *)
(* before a new content was registered, and walks the files after that,    *)
(* leaves the new file alone.  A registered content whose file this        *)
(* request created is on the disk, whatever cleanups ran since.            *)
NewContentIsKept ==
  \A u \in Uploads :
    At(u, "registered") /\ upload[u].created => disk[Content(u)] # "none"

(* The cleanup never takes away the temporary file an upload still writes. *)
UsesTemporaryFile == {"writing", "complete", "verify", "move"}

TemporaryFileIsKept ==
  \A u \in Uploads : upload[u].pc \in UsesTemporaryFile => temp[u] = "young"

(* Only a crash leaves a temporary file behind.                            *)
OnlyCrashesLitter ==
  \A u \in Uploads :
    temp[u] # "none" => InFlight(u) \/ At(u, "crashed")

-----------------------------------------------------------------------------
(* The inductive invariant: a content put in place by a request is younger *)
(* than the cutoff until the request ends; when it has grown old it is     *)
(* registered, and a running cleanup has seen that.                        *)

CreatedIsSafe(u) ==
  LET c == Content(u) IN
  upload[u].created =>
    /\ upload[u].pc \notin UsesTemporaryFile \cup {"new"}
    /\ upload[u].pc \in {"stored", "registering"} => disk[c] = "young"
    /\ At(u, "registered") =>
         /\ c \in blobs
         /\ disk[c] # "none"
         /\ cleaner.pc = "blobs" /\ disk[c] = "old" => c \in cleaner.referenced

BlobInv ==
  /\ TypeOK
  /\ TemporaryFileIsKept
  /\ \A u \in Uploads :
       temp[u] # "none" => upload[u].pc \in UsesTemporaryFile \cup {"crashed"}
  /\ \A u \in Uploads : CreatedIsSafe(u)
=============================================================================

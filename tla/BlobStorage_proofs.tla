------------------------- MODULE BlobStorage_proofs -------------------------
(***************************************************************************)
(* What the grace period of the cleanup promises, for any number of        *)
(* uploads, contents and faults: BlobInv is inductive, and the properties  *)
(* of BlobStorage but RegisteredIsStored, which does not hold, follow.     *)
(***************************************************************************)
EXTENDS BlobStorage, TLAPS

(* Every case below expands a few of these.                                *)
USE DEF At, Content

LEMMA InitBlobInv == Init => BlobInv
  BY BlobAssumption
  DEF Init, BlobInv, TypeOK, UploadState, CleanerState, NoCleanup, Ages,
      TemporaryFileIsKept, UsesTemporaryFile, CreatedIsSafe

(* A request that moves on is still a request.                             *)
LEMMA GotoType ==
  ASSUME upload \in [Uploads -> UploadState], NEW u \in Uploads,
         NEW pc \in {"writing", "complete", "verify", "move", "stored", "registering",
                    "registered", "failed", "crashed"},
         upload' = [upload EXCEPT ![u].pc = pc]
  PROVE  upload' \in [Uploads -> UploadState]
<1>1. upload[u] \in UploadState
  OBVIOUS
<1>2. [upload[u] EXCEPT !.pc = pc] \in UploadState
  BY <1>1 DEF UploadState
<1>3. QED
  BY <1>2

(* The steps of store: only the request itself and its own files change.   *)
LEMMA StoreKeepsBlobInv ==
  ASSUME BlobInv, NEW u \in Uploads, Store(u)
  PROVE  BlobInv'
<1> USE DEF Goto
<1>1. CASE OpenTemporaryFile(u)
  <2>1. TypeOK'
    BY <1>1 DEF OpenTemporaryFile, BlobInv, TypeOK, UploadState, Ages
  <2>2. QED
    BY <1>1, <2>1
    DEF OpenTemporaryFile, BlobInv, TypeOK, UploadState, TemporaryFileIsKept,
        UsesTemporaryFile, CreatedIsSafe
<1>2. CASE RejectUpload(u)
  <2>1. TypeOK'
    BY <1>2 DEF RejectUpload, TemporaryAfterRejection, BlobInv, TypeOK, UploadState, Ages
  <2>2. QED
    BY <1>2, <2>1
    DEF RejectUpload, TemporaryAfterRejection, BlobInv, TypeOK, UploadState,
        TemporaryFileIsKept, UsesTemporaryFile, CreatedIsSafe
<1>3. CASE FinishTemporaryFile(u)
  <2>1. TypeOK'
    BY <1>3 DEF FinishTemporaryFile, BlobInv, TypeOK, UploadState
  <2>2. QED
    BY <1>3, <2>1
    DEF FinishTemporaryFile, BlobInv, TypeOK, UploadState, TemporaryFileIsKept,
        UsesTemporaryFile, CreatedIsSafe
<1>4. CASE LookForContent(u)
  <2>1. PICK pc \in {"verify", "move"} : Goto(u, pc)
    BY <1>4 DEF LookForContent
  <2>2. TypeOK'
    BY <1>4, <2>1, GotoType DEF LookForContent, BlobInv, TypeOK
  <2>3. QED
    BY <1>4, <2>1, <2>2
    DEF LookForContent, BlobInv, TypeOK, UploadState, TemporaryFileIsKept,
        UsesTemporaryFile, CreatedIsSafe
<1>5. CASE ReuseContent(u)
  <2>1. PICK pc \in {"stored", "failed"} :
          Goto(u, pc) /\ (pc = "stored" => disk[Content(u)] # "none")
    BY <1>5 DEF ReuseContent
  <2>2. TypeOK'
    BY <1>5, <2>1, GotoType DEF ReuseContent, BlobInv, TypeOK, Ages
  <2>3. ~upload[u].created
    BY <1>5 DEF ReuseContent, BlobInv, CreatedIsSafe, UsesTemporaryFile
  <2>4. QED
    BY <1>5, <2>1, <2>2, <2>3
    DEF ReuseContent, BlobInv, TypeOK, UploadState, TemporaryFileIsKept,
        UsesTemporaryFile, CreatedIsSafe
<1>6. CASE MoveIntoPlace(u)
  <2>0. upload' \in [Uploads -> UploadState]
    <3>1. [upload[u] EXCEPT !.pc = "stored", !.created = TRUE] \in UploadState
      BY DEF BlobInv, TypeOK, UploadState
    <3>2. upload' = [upload EXCEPT ![u] = [upload[u] EXCEPT !.pc = "stored", !.created = TRUE]]
      BY <1>6 DEF MoveIntoPlace, BlobInv, TypeOK
    <3>3. QED
      BY <3>1, <3>2 DEF BlobInv, TypeOK
  <2>1. TypeOK'
    BY <1>6, <2>0 DEF MoveIntoPlace, BlobInv, TypeOK, Ages
  <2>2. disk' = [disk EXCEPT ![Content(u)] = "young"]
    BY <1>6 DEF MoveIntoPlace, BlobInv, TemporaryFileIsKept, UsesTemporaryFile
  <2>3. QED
    BY <1>6, <2>1, <2>2
    DEF MoveIntoPlace, BlobInv, TypeOK, UploadState, TemporaryFileIsKept,
        UsesTemporaryFile, CreatedIsSafe
<1>7. QED
  BY <1>1, <1>2, <1>3, <1>4, <1>5, <1>6 DEF Store

(* A registration leaves the files alone; when it commits, the content is  *)
(* young: no running cleanup can want it.                                  *)
LEMMA RegisterKeepsBlobInv ==
  ASSUME BlobInv, NEW u \in Uploads, Register(u)
  PROVE  BlobInv'
<1> USE DEF Goto
<1>1. CASE ReadRegistration(u)
  <2>0. upload' \in [Uploads -> UploadState]
    <3> DEFINE known == Content(u) \in blobs
               owned == Reference(u) \in references
               next == [upload[u] EXCEPT !.pc = "registering", !.known = known,
                                         !.owned = owned]
    <3>1. known \in BOOLEAN /\ owned \in BOOLEAN
      OBVIOUS
    <3>2. upload' = [upload EXCEPT ![u] = next]
      BY <1>1 DEF ReadRegistration, BlobInv, TypeOK
    <3>3. next \in UploadState
      <4> HIDE DEF known, owned
      <4> QED
        BY <3>1 DEF BlobInv, TypeOK, UploadState
    <3> HIDE DEF next
    <3>4. QED
      BY <3>2, <3>3 DEF BlobInv, TypeOK
  <2>1. TypeOK'
    BY <1>1, <2>0 DEF ReadRegistration, BlobInv, TypeOK
  <2>2. QED
    BY <1>1, <2>1
    DEF ReadRegistration, BlobInv, TypeOK, UploadState, TemporaryFileIsKept,
        UsesTemporaryFile, CreatedIsSafe
<1>2. CASE CommitRegistration(u)
  <2>1. TypeOK'
    BY <1>2 DEF CommitRegistration, BlobInv, TypeOK, UploadState, Reference
  <2>2. QED
    BY <1>2, <2>1
    DEF CommitRegistration, BlobInv, TypeOK, UploadState, TemporaryFileIsKept,
        UsesTemporaryFile, CreatedIsSafe
<1>3. CASE ConflictingRegistration(u)
  <2>1. TypeOK'
    BY <1>3 DEF ConflictingRegistration, BlobInv, TypeOK, UploadState
  <2>2. QED
    BY <1>3, <2>1
    DEF ConflictingRegistration, BlobInv, TypeOK, UploadState, TemporaryFileIsKept,
        UsesTemporaryFile, CreatedIsSafe
<1>4. QED
  BY <1>1, <1>2, <1>3 DEF Register

LEMMA FaultsKeepBlobInv ==
  ASSUME BlobInv, NEW u \in Uploads, RegistrationFails(u) \/ ServerCrashes(u)
  PROVE  BlobInv'
<1> USE DEF Goto
<1>1. CASE RegistrationFails(u)
  <2>0. upload' \in [Uploads -> UploadState]
    <3>1. upload' = [upload EXCEPT ![u].pc = "failed"]
      BY <1>1 DEF RegistrationFails
    <3>2. QED
      BY <3>1, GotoType DEF BlobInv, TypeOK
  <2>1. TypeOK'
    BY <1>1, <2>0 DEF RegistrationFails, BlobInv, TypeOK
  <2>2. QED
    BY <1>1, <2>1
    DEF RegistrationFails, BlobInv, TypeOK, UploadState, TemporaryFileIsKept,
        UsesTemporaryFile, CreatedIsSafe
<1>2. CASE ServerCrashes(u)
  <2>0. upload' \in [Uploads -> UploadState]
    <3>1. upload' = [upload EXCEPT ![u].pc = "crashed"]
      BY <1>2 DEF ServerCrashes
    <3>2. QED
      BY <3>1, GotoType DEF BlobInv, TypeOK
  <2>1. TypeOK'
    BY <1>2, <2>0 DEF ServerCrashes, BlobInv, TypeOK
  <2>2. QED
    BY <1>2, <2>1
    DEF ServerCrashes, InFlight, BlobInv, TypeOK, UploadState, TemporaryFileIsKept,
        UsesTemporaryFile, CreatedIsSafe
<1>3. QED
  BY <1>1, <1>2

(* No request is in flight and no cleanup runs when the cutoff moves on.   *)
LEMMA TimeKeepsBlobInv ==
  ASSUME BlobInv, TimePasses
  PROVE  BlobInv'
<1>1. TypeOK'
  BY DEF TimePasses, BlobInv, TypeOK, Ages, Aged
<1>2. QED
  BY <1>1
  DEF TimePasses, Aged, InFlight, BlobInv, TypeOK, UploadState, CleanerState, Ages,
      TemporaryFileIsKept, UsesTemporaryFile, CreatedIsSafe

LEMMA CleanupKeepsBlobInv ==
  ASSUME BlobInv, Cleanup
  PROVE  BlobInv'
<1>1. CASE ListTemporaryFiles
  <2>1. TypeOK'
    BY <1>1 DEF ListTemporaryFiles, BlobInv, TypeOK, CleanerState
  <2>2. QED
    BY <1>1, <2>1
    DEF ListTemporaryFiles, BlobInv, TypeOK, CleanerState, TemporaryFileIsKept,
        UsesTemporaryFile, CreatedIsSafe
<1>2. ASSUME NEW u \in Uploads, VisitTemporaryFile(u)
      PROVE  BlobInv'
  <2>1. TypeOK'
    BY <1>2 DEF VisitTemporaryFile, BlobInv, TypeOK, CleanerState, Ages
  <2>2. TemporaryFileIsKept'
    BY <1>2 DEF VisitTemporaryFile, Stale, BlobInv, TypeOK, TemporaryFileIsKept
  <2>3. QED
    BY <1>2, <2>1, <2>2
    DEF VisitTemporaryFile, BlobInv, TypeOK, CleanerState, CreatedIsSafe
<1>3. ASSUME NEW u \in Uploads, AbortCleanup(u)
      PROVE  BlobInv'
  <2>1. TypeOK'
    BY <1>3 DEF AbortCleanup, NoCleanup, BlobInv, TypeOK, CleanerState
  <2>2. QED
    BY <1>3, <2>1 DEF AbortCleanup, NoCleanup, BlobInv, TemporaryFileIsKept,
        UsesTemporaryFile, CreatedIsSafe
<1>4. CASE ReadReferences
  <2>1. TypeOK'
    BY <1>4 DEF ReadReferences, ReferencedBlobs, BlobInv, TypeOK, CleanerState
  <2>2. QED
    BY <1>4, <2>1
    DEF ReadReferences, ReferencedBlobs, BlobInv, TypeOK, CleanerState,
        TemporaryFileIsKept,
        UsesTemporaryFile, CreatedIsSafe
<1>5. ASSUME NEW c \in Contents, RemoveOrphan(c)
      PROVE  BlobInv'
  <2>1. TypeOK'
    BY <1>5 DEF RemoveOrphan, BlobInv, TypeOK, Ages
  <2>2. ASSUME NEW u \in Uploads PROVE CreatedIsSafe(u)'
    BY <1>5, <2>2 DEF RemoveOrphan, Stale, BlobInv, TypeOK, CreatedIsSafe
  <2>3. QED
    BY <1>5, <2>1, <2>2 DEF RemoveOrphan, BlobInv, TemporaryFileIsKept
<1>6. CASE FinishCleanup
  <2>1. TypeOK'
    BY <1>6 DEF FinishCleanup, NoCleanup, BlobInv, TypeOK, CleanerState
  <2>2. QED
    BY <1>6, <2>1 DEF FinishCleanup, NoCleanup, BlobInv, TemporaryFileIsKept,
        UsesTemporaryFile, CreatedIsSafe
<1>7. QED
  BY <1>1, <1>2, <1>3, <1>4, <1>5, <1>6 DEF Cleanup

(* BlobInv holds in every reachable state.                                 *)
THEOREM StorageInvariant == Spec => []BlobInv
<1>1. BlobInv /\ [Next]_vars => BlobInv'
  <2> SUFFICES ASSUME BlobInv, [Next]_vars PROVE BlobInv'
    OBVIOUS
  <2>1. CASE Next
    BY <2>1, StoreKeepsBlobInv, RegisterKeepsBlobInv, FaultsKeepBlobInv,
       TimeKeepsBlobInv, CleanupKeepsBlobInv DEF Next
  <2>2. CASE UNCHANGED vars
    BY <2>2
    DEF vars, BlobInv, TypeOK, TemporaryFileIsKept,
        UsesTemporaryFile, CreatedIsSafe
  <2>3. QED
    BY <2>1, <2>2
<1>2. QED
  BY InitBlobInv, <1>1, PTL DEF Spec

(* A new content that was registered keeps its file: the grace period      *)
(* covers the gap between the file and its registration.                   *)
THEOREM GracePeriodSuffices == Spec => []NewContentIsKept
<1>1. BlobInv => NewContentIsKept
  BY DEF BlobInv, NewContentIsKept, CreatedIsSafe
<1>2. QED
  BY <1>1, StorageInvariant, PTL

(* The temporary file of a running upload is never removed.                *)
THEOREM UploadsKeepTheirFiles == Spec => []TemporaryFileIsKept
<1>1. BlobInv => TemporaryFileIsKept
  BY DEF BlobInv
<1>2. QED
  BY <1>1, StorageInvariant, PTL

(* Rejected, failed and registered uploads leave no temporary file.        *)
THEOREM NoLitter == Spec => []OnlyCrashesLitter
<1>1. BlobInv => OnlyCrashesLitter
  BY DEF BlobInv, OnlyCrashesLitter, UsesTemporaryFile, InFlight
<1>2. QED
  BY <1>1, StorageInvariant, PTL
=============================================================================

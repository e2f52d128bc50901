------------------------------ MODULE Verifier ------------------------------
(***************************************************************************)
(* The verifier (concent_api/verifier): blender_verification_order() with  *)
(* the directory it works in, one order from the moment the core has the   *)
(* files to the verdict that the core gets.                                *)
(*                                                                         *)
(* An archive, a scene or an image is taken by what its reader finds out   *)
(* about it.  The process has VERIFIER_STORAGE_PATH for itself, and earlier*)
(* orders may have left files there.  Blender, OpenCV, scikit-image and    *)
(* nginx are external: a rendering that ends without an error is right for *)
(* the scene that was there, and a request to the storage is answered.     *)
(***************************************************************************)
EXTENDS FileTransfer, FiniteSetsExt

CONSTANTS
  FrameCount,   \* bound: the frames of the subtask
  Deliveries    \* what may be uploaded, and be there before, see Delivery

ASSUME FrameAssumption == FrameCount \in Nat \ {0}

VARIABLES
  stage,        \* where the verifier is
  tokenExpires, \* its token for both downloads
  delivery,     \* what was uploaded for this order
  directory,    \* VERIFIER_STORAGE_PATH: what each file holds
  frame,        \* how many frames are rendered, or uploaded
  verdict,      \* the verification_result() that was sent
  atFault       \* history: what was found when the verdict became MISMATCH

verifierVars == <<stage, tokenExpires, delivery, directory, frame, verdict, atFault>>

allVars == <<transferVars, verifierVars>>

-----------------------------------------------------------------------------
Frame == 1..FrameCount
Archive(path) == <<path, 0>>
Scene == <<"scene", 0>>
Image(f) == <<"image", f>>
Output(f) == <<"output", f>>
Name == {Archive("source"), Archive("result"), Scene}
        \union {Image(f) : f \in Frame} \union {Output(f) : f \in Frame}

\* An archive is broken if it is no zip file, and torn if it is one that cannot be unpacked.
SourceKind == {"project", "no scene", "broken", "torn"}
ImageKind == {"right", "wrong", "smaller", "unreadable"}
ResultKind == ImageKind \union {"missing", "broken", "torn"}

\* The kind of the result is that of the last frame's image; the other images are right.
\* Then the names that are in directories of their archives; the names after the first
\* UNPACK_CHUNK_SIZE of an archive; and the files of earlier orders that are still there,
\* being in directories, or because unlink() fails.
Delivery == [source : SourceKind, result : ResultKind, nested : SUBSET Name,
             beyond : SUBSET Name, old : SUBSET Name]

ASSUME DeliveryAssumption == Deliveries \subseteq Delivery

None == "none"
Content == {None, "page", "own", "old"} \union SourceKind \union ResultKind

NoDelivery ==
  [source |-> "project", result |-> "right", nested |-> {}, beyond |-> {}, old |-> {}]

IsZip(content) == content \notin {"page", "broken"}

IsTopLevel(name) == name \notin delivery.nested

Empty == [name \in Name |-> None]

VerifierInit ==
  /\ TransferInit
  /\ stage = "idle"
  /\ tokenExpires = NULL
  /\ delivery = NoDelivery
  /\ directory = Empty
  /\ frame = 0
  /\ verdict = None
  /\ atFault = None

Goto(s) == stage' = s
At(s) == stage = s /\ UNCHANGED transferVars

Continue(s) ==
  /\ Goto(s)
  /\ UNCHANGED <<tokenExpires, delivery, directory, frame, verdict, atFault>>

\* What clean_directory() does not remove, or a crash leaves, is there when the next order
\* is taken (see Delivery): files in directories, and files that unlink() fails for.
Leave(s) ==
  /\ Goto(s)
  /\ directory' = Empty
  /\ tokenExpires' = NULL
  /\ frame' = 0
  /\ UNCHANGED delivery

\* handle_verification_results(), and the verdict of the last stage.
Send(v, found) ==
  /\ verdict' = v
  /\ atFault' = found
  /\ Leave("done")

\* Mutant: an error is a mismatch.
Blame == Send("MISMATCH", None)

Fail == Send("ERROR", None)

Mismatch(found) == Send("MISMATCH", found)

-----------------------------------------------------------------------------
(* Downloading. *)

\* Mutant: the order of another subtask, which is not there yet, is taken.
AnyTime == state = "VERIFICATION_FILE_TRANSFER"

IsOrdered == ordered

\* The order is taken, the token is made and the directory cleaned.
TakeOrder ==
  /\ stage = "idle"
  /\ IsOrdered
  /\ Goto("download source")
  /\ tokenExpires' = now + ResultTime
  /\ delivery' \in Deliveries
  /\ directory' = [name \in Name |-> IF name \in delivery'.old THEN "old" ELSE None]
  /\ UNCHANGED <<transferVars, frame, verdict, atFault>>

ConcentToken == CreateFileTransferToken("concent", "download", Sizes, tokenExpires)

IsServed(path) == IsGranted(ProperRequest("concent", "download", ConcentToken, path), now)

\* The status of the response is not looked at: a refusal is a page to store.
Received(path) ==
  IF ~IsServed(path) THEN "page"
  ELSE IF path = "source" THEN delivery.source ELSE delivery.result

\* The file must not be there yet.
Download(path, next) ==
  IF directory[Archive(path)] # None
    THEN Fail
    ELSE /\ directory' = [directory EXCEPT ![Archive(path)] = Received(path)]
         /\ Goto(next)
         /\ UNCHANGED <<tokenExpires, delivery, frame, verdict, atFault>>

DownloadSource == At("download source") /\ Download("source", "download result")
DownloadResult == At("download result") /\ Download("result", "validate")

\* Any exception of a request.
DownloadFails == stage \in {"download source", "download result"} /\ At(stage) /\ Fail

SourceArchive == directory[Archive("source")]
ResultArchive == directory[Archive("result")]

-----------------------------------------------------------------------------
(* Looking at the archives. *)

ImageOf(name) == IF name = Image(FrameCount) THEN ResultArchive ELSE "right"

\* namelist() of both.
Entries ==
  {name \in Name :
     \/ name = Scene /\ SourceArchive \in {"project", "torn"}
     \/ name[1] = "image" /\ IsZip(ResultArchive) /\ ImageOf(name) # "missing"}

\* Mutant: the names that are there already are not looked for.
NeverThere == FALSE

\* os.listdir() does not look into directories.
IsThereAlready == \E name \in Entries : IsTopLevel(name) /\ directory[name] # None

ValidateDownloadedArchives ==
  /\ At("validate")
  /\ IF ~IsZip(SourceArchive) THEN Mismatch(SourceArchive)
     ELSE IF ~IsZip(ResultArchive) THEN Mismatch(ResultArchive)
     ELSE IF IsThereAlready THEN Fail
     ELSE IF Scene \notin Entries THEN Mismatch(SourceArchive)
     ELSE Continue("unpack")

\* unpack_archive() of both archives; what is there is written over.
UnpackArchives ==
  /\ At("unpack")
  /\ IF "torn" \in {SourceArchive, ResultArchive}
       THEN Fail
       ELSE /\ directory' = [name \in Name |->
                               IF name \notin Entries \ delivery.beyond THEN directory[name]
                               ELSE IF name = Scene THEN "own" ELSE ImageOf(name)]
            /\ Goto("frames")
            /\ UNCHANGED <<tokenExpires, delivery, frame, verdict, atFault>>

\* ensure_enough_result_files_provided(), parse_result_files_with_frames() and
\* ensure_frames_have_related_files_to_compare(): all of them look at the list of names.
MatchFrames ==
  /\ At("frames")
  /\ IF {Image(f) : f \in Frame} \subseteq Entries
       THEN Continue("render")
       ELSE Mismatch(ResultArchive)

-----------------------------------------------------------------------------
(* Rendering. *)

\* render_image(), for a frame that Blender ends before the deadline.
RenderFrame ==
  /\ At("render")
  /\ now <= blenderDeadline
  /\ directory[Scene] # None
  /\ frame' = frame + 1
  /\ directory' = [directory EXCEPT ![Output(frame + 1)] = directory[Scene]]
  /\ Goto(IF frame + 1 = FrameCount THEN "delete" ELSE "render")
  /\ UNCHANGED <<tokenExpires, delivery, verdict, atFault>>

RenderFails == At("render") /\ Fail

\* Mutant: Blender may take as long as it likes.
NoTimeout == FALSE

\* The timeout of run_blender().
RenderTimesOut == now >= blenderDeadline /\ RenderFails

\* delete_source_files()
DeleteSource ==
  /\ At("delete")
  /\ directory' = [directory EXCEPT ![Archive("source")] = None, ![Scene] = None]
  /\ frame' = 0
  /\ Goto("upload")
  /\ UNCHANGED <<tokenExpires, delivery, verdict, atFault>>

\* try_to_upload_blender_output_file(): the token is made for this request, its answer is
\* not looked at, and only a MemoryError ends the verification.
UploadOutput ==
  /\ At("upload")
  /\ frame' = frame + 1
  /\ Goto(IF frame + 1 = FrameCount THEN "compare" ELSE "upload")
  /\ UNCHANGED <<tokenExpires, delivery, directory, verdict, atFault>>

UploadFails == At("upload") /\ Fail

-----------------------------------------------------------------------------
(* Comparing. *)

\* cv2.imread() returns None for what it cannot read.
IsLoaded(f) == directory[Image(f)] \notin {None, "unreadable"}

\* Whether the similarity of an image and its rendering is above VERIFIER_MIN_SSIM; an image
\* of an earlier order, or a rendering of its scene, may be like anything.
Similar(f) ==
  IF "old" \in {directory[Image(f)], directory[Output(f)]} THEN BOOLEAN
  ELSE {directory[Image(f)] = "right"}

\* compare_all_rendered_images_with_user_results_files(), compare_minimum_ssim_with_results():
\* the first image that is not loaded or differs in size decides, then the least similar.
Compare ==
  LET bad == {f \in Frame : ~IsLoaded(f) \/ directory[Image(f)] = "smaller"}
  IN
  /\ At("compare")
  /\ IF bad # {}
       THEN IF IsLoaded(Min(bad)) THEN Mismatch("smaller") ELSE Fail
       ELSE \E similar \in [Frame -> BOOLEAN] :
              /\ \A f \in Frame : similar[f] \in Similar(f)
              /\ IF \A f \in Frame : similar[f] THEN Send("MATCH", None) ELSE Mismatch("wrong")

\* A MemoryError, or a ValueError of compare_ssim().
CompareFails == At("compare") /\ Fail

-----------------------------------------------------------------------------
(* What ends an order without a verdict. *)

IsRunning == stage \notin {"idle", "done", "lost"}

\* Any other exception, after which the directory is cleaned; or the process dies.
Abandon ==
  /\ IsRunning
  /\ Leave("lost")
  /\ UNCHANGED <<transferVars, verdict, atFault>>

-----------------------------------------------------------------------------
\* What the process does by itself if nothing fails.
Work ==
  \/ TakeOrder
  \/ DownloadSource
  \/ DownloadResult
  \/ ValidateDownloadedArchives
  \/ UnpackArchives
  \/ MatchFrames
  \/ DeleteSource
  \/ UploadOutput
  \/ Compare

Failure == DownloadFails \/ RenderFails \/ UploadFails \/ CompareFails

\* The core gets the verdict that was sent.
Report == verdict # None /\ VerificationResult(verdict)

VerifierNext ==
  \/ TransferStep /\ UNCHANGED verifierVars
  \/ Report /\ UNCHANGED verifierVars
  \/ Work
  \/ RenderFrame
  \/ Failure
  \/ Abandon

VerifierSpec == VerifierInit /\ [][VerifierNext]_allVars

\* Time passes and the process goes on; Blender may not end by itself.
FairVerifierSpec ==
  /\ VerifierSpec
  /\ WF_allVars(Tick /\ UNCHANGED verifierVars)
  /\ WF_allVars(Work)
  /\ WF_allVars(RenderTimesOut)

-----------------------------------------------------------------------------
(* Properties. *)

Stage == {"idle", "download source", "download result", "validate", "unpack", "frames",
          "render", "delete", "upload", "compare", "done", "lost"}

\* The types of the variables; there is a verdict when the order is done, and only then.
VerifierTypeOK ==
  /\ TransferTypeOK
  /\ stage \in Stage
  /\ IsInstant(tokenExpires)
  /\ delivery \in Delivery
  /\ directory \in [Name -> Content]
  /\ frame \in 0..FrameCount
  /\ verdict \in Verdict \union {None}
  /\ atFault \in Content
  /\ stage = "done" <=> verdict # None

\* Files of an earlier order that this order's archives hold but do not write over, being in
\* directories and beyond the first UNPACK_CHUNK_SIZE names.
Relics == delivery.old \intersect delivery.beyond \intersect delivery.nested

\* A match means that the provider has uploaded the project and images that are like its
\* rendering, unless relics are taken for them: whatever else earlier orders have left is
\* found by validate_downloaded_archives().
MatchIsDeserved ==
  verdict = "MATCH" /\ Relics = {} =>
    /\ delivery.source = "project"
    /\ delivery.result = "right"

\* A provider that has uploaded what it should is not told MISMATCH, if the storage has not
\* refused the verifier a file: not for a stage that fails, for a deadline that passes, nor
\* for archives that are not unpacked to the end.
MismatchIsDeserved ==
  verdict = "MISMATCH" /\ atFault # "page" /\ Relics = {} =>
    delivery.source # "project" \/ delivery.result # "right"

\* "If archive is broken, it means that Provider must have intentionally uploaded damaged
\* zip file" (verifier/utils.py, validate_downloaded_archives()).
BrokenArchiveWasUploaded ==
  verdict = "MISMATCH" => atFault \in SourceKind \union ResultKind

\* After an order the core fails the subtask only on a MISMATCH that was sent; errors, lost
\* orders and verdicts that are late are for the provider.
FailureIsByVerdict == ordered /\ state = "FAILED" => verdict = "MISMATCH"

OrderStatus ==
  CASE stage = "idle" -> IF ordered THEN "ordered" ELSE "none"
    [] stage = "done" -> verdict
    [] stage = "lost" -> "lost"
    [] OTHER -> "taken"

Promise == INSTANCE VerificationOrder WITH status <- OrderStatus

\* The verifier implements VerificationOrder: an order is taken once the core has the files,
\* and has one verdict at most.
ImplementsOrder == Promise!Spec

\* An order ends even if Blender does not: with a verdict, or with an exception or the
\* process (here, if its deadline comes before the clock stops).
OrderEnds == ordered /\ blenderDeadline <= MaxTime ~> stage \in {"done", "lost"}
=============================================================================

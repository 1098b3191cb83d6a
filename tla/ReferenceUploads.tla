--------------------------- MODULE ReferenceUploads ---------------------------
(***************************************************************************)
(* The input images a browser stages for a generation (reference-upload.ts,     *)
(* generate-ui-store.ts, the dialog and the console): files are decoded, get an   *)
(* upload row from the API, are posted to storage and verified, while the user     *)
(* removes, retries, clears and submits.  Every await is a task of its own, and     *)
(* what it does afterwards it does to the list as it is then.                       *)
(***************************************************************************)
EXTENDS Naturals, Sequences, SequencesExt, FiniteSets

CONSTANTS
    Capacities,   \* what the models on offer take
    GalleryAssets,\* assets the picker offers that may be inputs
    MaxStagings,  \* bound: files picked
    MaxUploadRows,\* bound: uploads asked of the API
    RetryClicks   \* bound: clicks on one retry button before the first is answered

ASSUME ReferenceAssumption ==
    /\ Capacities \subseteq Nat /\ MaxStagings \in Nat /\ MaxUploadRows \in Nat /\ RetryClicks \in 1 .. 2
    /\ GalleryAssets \cap Nat = {}

VARIABLES
    staged,      \* stagedImages
    picked,      \* files staged so far: their local ids are 1 .. picked
    uploadRows,  \* the upload rows at the API, in the order they were asked for
    tasks,       \* what waits for an answer
    inflight,    \* local id -> the row its XMLHttpRequest in `inflight` posts to, or none
    request,     \* the submission that holds isGenerating
    capacity     \* of the selected model

referenceVars == <<staged, picked, uploadRows, tasks, inflight, request, capacity>>

LocalIds == 1 .. MaxStagings
NoUpload == 0
UploadIds == 1 .. MaxUploadRows

Item == [ id : LocalIds \cup GalleryAssets, status : {"pending", "uploading", "processing", "ready", "error"},
          upload : NoUpload .. MaxUploadRows ]
UploadRow == [ item : LocalIds, status : {"pending", "ready", "deleted", "attached"},
               known : BOOLEAN, kept : BOOLEAN, verified : BOOLEAN ]
Submission == [kind : {"none", "generate", "edit"}, inputs : Seq(UploadIds \cup GalleryAssets)]
NoRequest_ == [kind |-> "none", inputs |-> <<>>]

\* `n` tells apart two tasks that are alike: a second click on the same button.
Task == [ kind : {"decode", "presign", "post", "complete", "delete"}, item : LocalIds,
          upload : NoUpload .. MaxUploadRows, then : {"end", "upload", "clear"},
          rest : Seq(Item), n : 1 .. 2 ]

ReferenceTypeOK ==
    /\ staged \in Seq(Item) /\ picked \in 0 .. MaxStagings
    /\ uploadRows \in Seq(UploadRow) /\ Len(uploadRows) <= MaxUploadRows
    /\ tasks \subseteq Task
    /\ inflight \in [LocalIds -> NoUpload .. MaxUploadRows]
    /\ request \in Submission /\ capacity \in Capacities
-----------------------------------------------------------------------------
isStaged(id) == \E i \in DOMAIN staged : staged[i].id = id

\* updateStagedImage: nothing happens to an image that is not staged any more.
updateStagedImage(list, id, status, upload) ==
    [i \in DOMAIN list |->
        IF list[i].id = id THEN [list[i] EXCEPT !.status = status, !.upload = upload] ELSE list[i]]
patch(id, status) ==
    staged' = [i \in DOMAIN staged |->
                  IF staged[i].id = id THEN [staged[i] EXCEPT !.status = status] ELSE staged[i]]

Waiting(kind, item, upload) ==
    [kind |-> kind, item |-> item, upload |-> upload, then |-> "end", rest |-> <<>>, n |-> 1]
Deleting(item, upload, then) == [Waiting("delete", item, upload) EXCEPT !.then = then]
Proceeds(t, kind) == tasks' = (tasks \ {t}) \cup {[t EXCEPT !.kind = kind]}
Ends(t) == tasks' = tasks \ {t}

Preparing == \E t \in tasks : t.kind = "decode"
Idle_     == request.kind = "none"     \* mutateInputs, handleFiles, handleGallerySelect
-----------------------------------------------------------------------------
\* One file of addReferenceFiles, which stages files one after the other; it is decoded later.
addReferenceFiles ==
    /\ Idle_ /\ Len(staged) < capacity /\ picked < MaxStagings
    /\ staged' = Append(staged, [id |-> picked + 1, status |-> "pending", upload |-> NoUpload])
    /\ picked' = picked + 1
    /\ tasks' = tasks \cup {Waiting("decode", picked + 1, NoUpload)}
    /\ UNCHANGED <<uploadRows, inflight, request, capacity>>

addGalleryImage(a) ==
    /\ Idle_ /\ Len(staged) < capacity /\ ~isStaged(a)
    /\ staged' = Append(staged, [id |-> a, status |-> "ready", upload |-> NoUpload])
    /\ UNCHANGED <<picked, uploadRows, tasks, inflight, request, capacity>>

\* The image has loaded, or could not be: a wrong geometry takes it off the list again.
checkImageDimensions(t) ==
    /\ t.kind = "decode"
    /\ \/ \E i \in DOMAIN staged :
             staged[i].id = t.item /\ staged' = RemoveAt(staged, i) /\ Ends(t)
       \/ /\ isStaged(t.item)
          /\ patch(t.item, "uploading") /\ Proceeds(t, "presign")
       \/ ~isStaged(t.item) /\ Ends(t) /\ UNCHANGED staged
    /\ UNCHANGED <<picked, uploadRows, inflight, request, capacity>>

\* startUpload once createGenerationUpload has answered.
startUpload(t) ==
    /\ t.kind = "presign" /\ UNCHANGED <<picked, request, capacity>>
    /\ \/ /\ Len(uploadRows) < MaxUploadRows
          /\ LET id == Len(uploadRows) + 1 IN
             \E answered \in BOOLEAN :
               /\ uploadRows' = Append(uploadRows,
                      [item |-> t.item, status |-> "pending", known |-> answered, kept |-> FALSE,
                       verified |-> FALSE])
               /\ IF ~answered
                    THEN patch(t.item, "error") /\ Ends(t) /\ UNCHANGED inflight
                    ELSE IF isStaged(t.item)
                    THEN /\ staged' = [i \in DOMAIN staged |->
                              IF staged[i].id = t.item THEN [staged[i] EXCEPT !.upload = id] ELSE staged[i]]
                         /\ inflight' = [inflight EXCEPT ![t.item] = id]
                         /\ tasks' = (tasks \ {t}) \cup {[t EXCEPT !.kind = "post", !.upload = id]}
                    ELSE /\ tasks' = (tasks \ {t}) \cup {Deleting(t.item, id, "end")}
                         /\ UNCHANGED <<staged, inflight>>
       \/ patch(t.item, "error") /\ Ends(t) /\ UNCHANGED <<uploadRows, inflight>>

\* xhr.onload, and xhr.onerror: the bytes may be stored although the browser cannot read so.
PostSettles(t) ==
    /\ t.kind = "post"
    /\ inflight' = [inflight EXCEPT ![t.item] = NoUpload]
    /\ \/ isStaged(t.item) /\ patch(t.item, "processing") /\ Proceeds(t, "complete")
       \/ patch(t.item, "error") /\ Ends(t)
    /\ UNCHANGED <<picked, uploadRows, request, capacity>>

\* The API verifies what was stored, or rejects it.
completeGenerationUpload(row) ==
    IF row.status # "pending" THEN {row}
    ELSE {[row EXCEPT !.status = "ready", !.verified = TRUE], [row EXCEPT !.status = "deleted"]}

CompleteSettles(t) ==
    /\ t.kind = "complete" /\ Ends(t)
    /\ \/ /\ \E row \in completeGenerationUpload(uploadRows[t.upload]) :
                 uploadRows' = [uploadRows EXCEPT ![t.upload] = row]
          /\ \/ uploadRows'[t.upload].status \in {"ready", "attached"} /\ patch(t.item, "ready")
             \/ patch(t.item, "error")     \* refused, or the answer is lost
       \/ patch(t.item, "error") /\ UNCHANGED uploadRows
    /\ UNCHANGED <<picked, inflight, request, capacity>>
-----------------------------------------------------------------------------
\* The post of an image that is taken off the list is aborted; it may have been stored.
Aborted(list) == {t \in tasks : t.kind = "post" /\ \E i \in DOMAIN list :
                                    list[i].id = t.item /\ inflight[t.item] = t.upload}
ForgetPosts(list) ==
    inflight' = [id \in LocalIds |-> IF \E i \in DOMAIN list : list[i].id = id THEN NoUpload ELSE inflight[id]]

\* Mutant: only an upload that was verified is deleted.
DeletionIfReady(item) ==
    IF item.status = "ready" /\ item.upload # NoUpload THEN {Deleting(item.id, item.upload, "end")} ELSE {}

DeletionOf(item) == IF item.upload = NoUpload THEN {} ELSE {Deleting(item.id, item.upload, "end")}

removeReferenceImage(i) ==
    /\ Idle_
    /\ LET item == staged[i] IN
       /\ staged' = RemoveAt(staged, i)
       /\ ForgetPosts(<<item>>)
       /\ tasks' = (tasks \ Aborted(<<item>>)) \cup DeletionOf(item)
    /\ UNCHANGED <<picked, uploadRows, request, capacity>>

\* clearReferenceImages deletes one image after the other and aborts each when its turn comes.
ClearNext(list, others) ==
    LET uploaded == {i \in DOMAIN list : list[i].upload # NoUpload} IN
    \/ /\ uploaded = {}
       /\ ForgetPosts(list) /\ tasks' = others \ Aborted(list)
    \/ \E upto \in uploaded :
         LET first == SubSeq(list, 1, upto) IN
         /\ \A i \in uploaded : upto <= i
         /\ ForgetPosts(first)
         /\ tasks' = (others \ Aborted(first))
                     \cup {[Deleting(list[upto].id, list[upto].upload, "clear") EXCEPT
                              !.rest = SubSeq(list, upto + 1, Len(list))]}

clearReferenceImages ==
    /\ staged # <<>> /\ staged' = <<>>
    /\ ClearNext(staged, tasks)
    /\ UNCHANGED <<picked, uploadRows, request, capacity>>

\* The button that deletes all is there when the model takes none; taking over an old job's
\* configuration waits for uploads that are under way.
ClearAll == Idle_ /\ capacity = 0 /\ clearReferenceImages
confirmReuse ==
    /\ Idle_ /\ ~Preparing /\ \A i \in DOMAIN staged : staged[i].status \in {"ready", "error"}
    /\ clearReferenceImages

\* The first await of retryReferenceUpload: only an upload the image names is deleted.
retryReferenceUpload(i) ==
    /\ Idle_ /\ staged[i].status = "error" /\ staged[i].id \in LocalIds
    /\ LET item == staged[i]
           again == {t \in tasks : t.kind = "delete" /\ t.item = item.id /\ t.then = "upload"} IN
       IF item.upload = NoUpload
         THEN /\ tasks' = tasks \cup {Waiting("presign", item.id, NoUpload)}
              /\ staged' = updateStagedImage(staged, item.id, "uploading", NoUpload)
         ELSE /\ Cardinality(again) < RetryClicks
              /\ tasks' = tasks \cup {[Deleting(item.id, item.upload, "upload") EXCEPT !.n = Cardinality(again) + 1]}
              /\ UNCHANGED staged
    /\ UNCHANGED <<picked, uploadRows, inflight, request, capacity>>

\* deleteGenerationUpload, and how its caller goes on whatever the answer.
deleteGenerationUpload(t) ==
    /\ t.kind = "delete"
    /\ \/ /\ uploadRows[t.upload].status \in {"pending", "ready"}
          /\ uploadRows' = [uploadRows EXCEPT ![t.upload].status = "deleted"]
       \/ uploadRows[t.upload].status \in {"deleted", "attached"} /\ UNCHANGED uploadRows
       \/ uploadRows' = [uploadRows EXCEPT ![t.upload].kept = TRUE]     \* not received, or refused
    /\ \/ t.then = "end" /\ Ends(t) /\ UNCHANGED <<staged, inflight>>
       \/ t.then = "clear" /\ ClearNext(t.rest, tasks \ {t}) /\ UNCHANGED staged
       \/ /\ t.then = "upload" /\ UNCHANGED inflight
          /\ IF isStaged(t.item)
               THEN /\ staged' = updateStagedImage(staged, t.item, "uploading", NoUpload)
                    /\ tasks' = (tasks \ {t}) \cup {[Waiting("presign", t.item, NoUpload) EXCEPT !.n = t.n]}
               ELSE Ends(t) /\ UNCHANGED staged
    /\ UNCHANGED <<picked, request, capacity>>

reorderReferenceImages(i) ==
    /\ Idle_ /\ i < Len(staged)
    /\ staged' = [staged EXCEPT ![i] = staged[i + 1], ![i + 1] = staged[i]]
    /\ UNCHANGED <<picked, uploadRows, tasks, inflight, request, capacity>>

setSelectedModelId ==
    /\ Idle_ /\ capacity' \in Capacities
    /\ UNCHANGED <<staged, picked, uploadRows, tasks, inflight, request>>
-----------------------------------------------------------------------------
\* What a request carries: images that are ready and can be named.
buildGenerationInputs ==
    LET usable == {i \in DOMAIN staged :
                      /\ staged[i].status = "ready"
                      /\ staged[i].upload # NoUpload \/ staged[i].id \in GalleryAssets}
    IN  [position \in 1 .. Cardinality(usable) |->
            LET i == CHOOSE i \in usable : Cardinality({j \in usable : j <= i}) = position
            IN  IF staged[i].upload # NoUpload THEN staged[i].upload ELSE staged[i].id]

\* handleGenerate takes the lock, performGenerate looks at the list as it is then.
performGenerate ==
    /\ Idle_ /\ ~Preparing
    /\ \A i \in DOMAIN staged : staged[i].status = "ready"
    /\ staged # <<>> => buildGenerationInputs # <<>>
    /\ Len(staged) <= capacity
    /\ request' = [kind |-> "generate", inputs |-> buildGenerationInputs]
    /\ UNCHANGED <<staged, picked, uploadRows, tasks, inflight, capacity>>

\* An edit of a region has the same lock and leaves the list alone.
handleSubmitEdit ==
    /\ Idle_ /\ request' = [kind |-> "edit", inputs |-> <<>>]
    /\ UNCHANGED <<staged, picked, uploadRows, tasks, inflight, capacity>>

\* The API takes all inputs or none; the answer may be lost.
SubmissionSettles ==
    /\ ~Idle_ /\ request' = NoRequest_
    /\ LET named == {request.inputs[i] : i \in DOMAIN request.inputs} \cap UploadIds
           taken == \A u \in named : uploadRows[u].status = "ready" IN
       \/ /\ request.kind = "generate" /\ taken
          /\ uploadRows' = [u \in DOMAIN uploadRows |->
                 IF u \in named THEN [uploadRows[u] EXCEPT !.status = "attached"] ELSE uploadRows[u]]
          /\ \/ /\ staged' = <<>> /\ ForgetPosts(staged)
                /\ tasks' = tasks \ Aborted(staged)
             \/ UNCHANGED <<staged, tasks, inflight>>
       \/ UNCHANGED <<staged, uploadRows, tasks, inflight>>
    /\ UNCHANGED <<picked, capacity>>

\* The worker's sweep removes what was not used in time.
UploadExpires(u) ==
    /\ uploadRows[u].status \in {"pending", "ready"}
    /\ uploadRows' = [uploadRows EXCEPT ![u].status = "deleted"]
    /\ UNCHANGED <<staged, picked, tasks, inflight, request, capacity>>
-----------------------------------------------------------------------------
ReferenceInit ==
    /\ staged = <<>> /\ picked = 0 /\ uploadRows = <<>> /\ tasks = {}
    /\ inflight = [id \in LocalIds |-> NoUpload]
    /\ request = NoRequest_ /\ capacity \in Capacities

ReferenceNext ==
    \/ addReferenceFiles \/ \E a \in GalleryAssets : addGalleryImage(a)
    \/ \E t \in tasks : checkImageDimensions(t) \/ startUpload(t) \/ PostSettles(t)
                        \/ CompleteSettles(t) \/ deleteGenerationUpload(t)
    \/ \E i \in DOMAIN staged : removeReferenceImage(i) \/ retryReferenceUpload(i) \/ reorderReferenceImages(i)
    \/ ClearAll \/ confirmReuse \/ setSelectedModelId
    \/ performGenerate \/ handleSubmitEdit \/ SubmissionSettles
    \/ \E u \in DOMAIN uploadRows : UploadExpires(u)

ReferenceSpec == ReferenceInit /\ [][ReferenceNext]_referenceVars
-----------------------------------------------------------------------------
Handled(u) ==
    \/ \E i \in DOMAIN staged : staged[i].upload = u
    \/ \E t \in tasks : t.kind = "delete" /\ (t.upload = u \/ \E i \in DOMAIN t.rest : t.rest[i].upload = u)

\* reference-upload.ts: an image shown as ready was verified by the API; an upload row the
\* browser was told of is named by an image, or about to be deleted, until a job has it; and a
\* request under way carries every staged image, with no deletion on its way for one of them.
UploadsAccounted ==
    /\ \A i \in DOMAIN staged :
           staged[i].status = "ready" /\ staged[i].id \in LocalIds
               => staged[i].upload # NoUpload /\ uploadRows[staged[i].upload].verified
    /\ \A u \in DOMAIN uploadRows :
           uploadRows[u].known /\ uploadRows[u].status \in {"pending", "ready"} /\ ~uploadRows[u].kept
               => Handled(u)
    /\ request.kind = "generate" =>
           /\ Len(request.inputs) = Len(staged)
           /\ \A t \in tasks : t.kind = "delete" => \A i \in DOMAIN request.inputs : request.inputs[i] # t.upload
=============================================================================

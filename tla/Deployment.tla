----------------------------- MODULE Deployment -----------------------------
(***************************************************************************)
(* A deployment in detail: SandboxEngine with what is on the disk and in   *)
(* the image store.  SaveSubmission of sandbox-engine/store/storage.go     *)
(* writes the upload; DeploySubmission of sandbox-engine/docker/runner.go, *)
(* there one step that succeeds or fails, extracts it, builds an image,    *)
(* runs it, and cleans up behind itself.  What an archive holds and which  *)
(* of its paths are refused is left out.                                   *)
(***************************************************************************)
EXTENDS SandboxEngine

VARIABLES
    uploads,    \* uploads[s]: the file ./uploads/<s>_<name>
    scratch,    \* scratch[s]: the directory sandbox-<s> that the archive is extracted to
    images,     \* the submissions with an image submission-<s>
    stage       \* stage[s]: what DeploySubmission does next, or "none"

disk       == <<uploads, scratch, images>>
deployment == <<vars, disk, stage>>

DiskOK ==
    /\ uploads \in [Submissions -> {"none", "whole", "trimmed", "cut"}]
    /\ scratch \in [Submissions -> {"none", "whole", "partial"}]
    /\ images \subseteq Submissions
    /\ stage \in [Submissions -> {"none", "extract", "dockerfile", "image", "port", "run", "rmi",
                                  "clean"}]
    \* DeploySubmission is called between COMPILING and the next status
    /\ \A s \in Submissions : /\ deploy[s] \in {"build", "run"} => stage[s] # "none"
                              /\ stage[s] # "none" => deploy[s] \in {"build", "run", "running", "failed"}
                              /\ deploy[s] # "none" => uploads[s] # "none"

DeployInit ==
    /\ Init
    /\ uploads = [s \in Submissions |-> "none"]
    /\ scratch = [s \in Submissions |-> "none"]
    /\ images = {}
    /\ stage = [s \in Submissions |-> "none"]

(***************************************************************************)
(* SaveSubmission                                                          *)
(***************************************************************************)
\* mutant: the record is made before the file
SaveRecordFirst(s) ==
    /\ uploads[s] = "none"
    /\ Submit(s)
    /\ \E file \in {"none", "whole", "trimmed", "cut"} : uploads' = [uploads EXCEPT ![s] = file]
    /\ UNCHANGED <<scratch, images, stage>>

\* A read error ends the loop as the end of the file does.  What is missing then
\* may be no more than the trailer behind the archive's end mark ("trimmed").
Save(s) ==
    /\ uploads[s] = "none"
    /\ Submit(s)
    /\ \E file \in {"whole", "trimmed", "cut"} : uploads' = [uploads EXCEPT ![s] = file]
    /\ UNCHANGED <<scratch, images, stage>>

\* The file cannot be written to the end: 500, no record, and what was written stays.
SaveFails(s) ==
    /\ up /\ uploads[s] = "none"
    /\ uploads' = [uploads EXCEPT ![s] = "cut"]
    /\ UNCHANGED <<vars, scratch, images, stage>>

(***************************************************************************)
(* DeploySubmission                                                        *)
(***************************************************************************)
Enter(s) ==
    /\ SetCompiling(s)
    /\ stage' = [stage EXCEPT ![s] = "extract"]
    /\ UNCHANGED disk

Stage(s, from, to) == stage[s] = from /\ stage' = [stage EXCEPT ![s] = to]

\* extractZip, or extractTarGz.  A truncated archive lacks its end, unless it is a
\* .tar.gz that lost only what the reader does not look at; an error while a file
\* is copied out of the archive is not looked at either.
Extract(s) ==
    /\ Stage(s, "extract", "dockerfile")
    /\ uploads[s] # "cut"
    /\ \E dir \in {"whole", "partial"} : scratch' = [scratch EXCEPT ![s] = dir]
    /\ UNCHANGED <<vars, uploads, images>>

\* The directory is made first, and RemoveAll is deferred only later.
ExtractFails(s) ==
    /\ Stage(s, "extract", "none")
    /\ BuildFails(s)
    /\ \E dir \in {"none", "partial"} : scratch' = [scratch EXCEPT ![s] = dir]
    /\ UNCHANGED <<uploads, images>>

CopyDockerfile(s) ==
    /\ Stage(s, "dockerfile", "image") \/ Stage(s, "dockerfile", "clean")
    /\ UNCHANGED <<vars, disk>>

BuildImage(s) ==
    /\ Stage(s, "image", "port")
    /\ images' = images \cup {s}
    /\ UNCHANGED <<vars, uploads, scratch>>

\* The build fails or takes too long, perhaps when the image is there.
BuildImageFails(s) ==
    /\ Stage(s, "image", "rmi")
    /\ images' \in {images, images \cup {s}}
    /\ UNCHANGED <<vars, uploads, scratch>>

TakePort(s) ==
    /\ Stage(s, "port", "run")
    /\ Build(s)
    /\ UNCHANGED disk

\* mutant: the image of a container that did not start is kept
RunImageOnly(s) ==
    /\ Stage(s, "run", "clean") /\ (RunContainer(s) \/ RunFails(s))
    /\ UNCHANGED disk

RunImage(s) ==
    /\ \/ Stage(s, "run", "clean") /\ RunContainer(s)
       \/ Stage(s, "run", "rmi") /\ RunFails(s)
    /\ UNCHANGED disk

\* removeImage; its error is logged.
RemoveImage(s) ==
    /\ Stage(s, "rmi", "clean")
    /\ images' \in {images \ {s}} \cup (IF DockerErrors THEN {images} ELSE {})
    /\ UNCHANGED <<vars, uploads, scratch>>

\* The deferred RemoveAll; an error from before docker run is returned now.
RemoveScratch(s) ==
    /\ Stage(s, "clean", "none")
    /\ scratch' = [scratch EXCEPT ![s] = "none"]
    /\ IF deploy[s] = "build" THEN BuildFails(s) ELSE UNCHANGED vars
    /\ UNCHANGED <<uploads, images>>

\* handleSubmit goes on when DeploySubmission has returned.
Return(s) ==
    /\ stage[s] = "none"
    /\ SetRunning(s) \/ SetEndpoint(s) \/ Publish(s) \/ SetFailed(s) \/ ClearEndpoint(s)
    /\ UNCHANGED <<disk, stage>>

\* The engine dies: files and images stay, and nothing looks for them later.  So a
\* docker build or rmi on its way may as well have its effect at once, or never.
Die ==
    /\ Crash
    /\ stage' = [s \in Submissions |-> "none"]
    /\ \E built   \in SUBSET {s \in Submissions : stage[s] = "image"},
          removed \in SUBSET {s \in Submissions : stage[s] = "rmi"} :
          images' = (images \cup built) \ removed
    /\ UNCHANGED <<uploads, scratch>>

(***************************************************************************)
(* Specification                                                           *)
(***************************************************************************)
DeploySubmission(s) ==
    \/ Extract(s) \/ ExtractFails(s) \/ CopyDockerfile(s) \/ BuildImage(s) \/ BuildImageFails(s)
    \/ TakePort(s) \/ RunImage(s) \/ RemoveImage(s) \/ RemoveScratch(s)

Elsewhere ==
    /\ \/ \E s \in Submissions : ContainerExits(s) \/ RunLate(s)
       \/ \E h \in Deleters : Deleting(h)
       \/ \E q \in Orders : Ordering(q)
       \/ Start
    /\ UNCHANGED <<disk, stage>>

\* The goroutine that handleSubmit starts.
Goroutine(s) == Enter(s) \/ DeploySubmission(s) \/ Return(s)

DeployNext ==
    \/ \E s \in Submissions : Save(s) \/ SaveFails(s) \/ Goroutine(s)
    \/ Die \/ Elsewhere

Fairness(s) == WF_deployment(Goroutine(s))

DeploySpec ==
    /\ DeployInit /\ [][DeployNext]_deployment
    /\ \A s \in Submissions : Fairness(s)

(***************************************************************************)
(* Properties                                                              *)
(***************************************************************************)
\* A deployment that is over has left no build context behind, except that of an
\* archive that could not be extracted, and an image only if it succeeded: then
\* the image stays for good, the container's DELETE included.
OnlyImagesStay ==
    \A s \in Submissions :
        StatusOf(s) \in {"RUNNING", "FAILED", "COMPLETED"} =>
            /\ scratch[s] # "none" => StatusOf(s) = "FAILED" /\ scratch[s] = "partial"
            /\ s \in images <=> StatusOf(s) # "FAILED"

\* A deployment waits for nobody: each stage that can succeed can fail, and no
\* failure waits.  Every action is written so, because the code is (each docker
\* command is assumed to return): it is a hypothesis of the liveness proof, which
\* cannot expand ENABLED, and no property of its own.
GoroutineCanGoOn ==
    \A s \in Submissions :
        deploy[s] \notin {"none", "done"} => ENABLED <<Goroutine(s)>>_deployment
=============================================================================

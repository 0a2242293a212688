-------------------------- MODULE DeploymentProofs --------------------------
(***************************************************************************)
(* Deployment, for any number of submissions and requests: it is a         *)
(* behaviour of the engine, and if Docker does what it is asked to, what a *)
(* deployment leaves on the disk and in the image store is known from its  *)
(* status.                                                                 *)
(***************************************************************************)
EXTENDS Deployment, SandboxProofs

\* What there is of s while DeploySubmission is under way, and before it.
StageOK(s) ==
    /\ deploy[s] \in {"none", "compiling"} => stage[s] = "none"
    /\ deploy[s] \in {"none", "compiling"} \/ stage[s] = "extract" =>
          scratch[s] = "none" /\ s \notin images
    /\ stage[s] \in {"extract", "dockerfile", "image", "port"} => deploy[s] = "build"
    /\ stage[s] = "run" => deploy[s] = "run"
    /\ stage[s] = "rmi" => deploy[s] \in {"build", "failed"}
    /\ stage[s] = "clean" => deploy[s] \in {"build", "running", "failed"}
    /\ stage[s] \in {"dockerfile", "image"} => s \notin images
    /\ stage[s] \in {"port", "run"} => s \in images
    /\ stage[s] = "clean" => IF deploy[s] = "running" THEN s \in images
                                                    ELSE DockerErrors \/ s \notin images

Runs(s)   == deploy[s] \in {"running", "endpoint", "publish"} \/ StatusOf(s) \in {"RUNNING", "COMPLETED"}
Broken(s) == deploy[s] \in {"failed", "clear"} \/ StatusOf(s) = "FAILED"

\* DeploySubmission has returned: what it extracted is gone, if it got so far,
\* and so is the image, if it failed.
Cleaned(s) ==
    stage[s] = "none" => /\ Runs(s)   => scratch[s] = "none" /\ s \in images
                         /\ Broken(s) => scratch[s] # "whole" /\ (DockerErrors \/ s \notin images)

LeftOK(s) == StageOK(s) /\ Cleaned(s)
LeftInv   == \A s \in Submissions : LeftOK(s)

(***************************************************************************)
(* A deployment is a behaviour of the engine                               *)
(***************************************************************************)
LEMMA DeploySubmissionSteps ==
    ASSUME NEW s \in Submissions, DeploySubmission(s) \/ Enter(s) \/ Return(s)
    PROVE  Deploying(s) \/ UNCHANGED vars
<1>1. CASE Enter(s) \/ Return(s)
  BY <1>1 DEF Enter, Return, Deploying
<1>2. CASE ExtractFails(s) \/ TakePort(s) \/ RunImage(s) \/ RemoveScratch(s)
  BY <1>2 DEF ExtractFails, TakePort, RunImage, RemoveScratch, Deploying
<1>3. CASE Extract(s) \/ CopyDockerfile(s) \/ BuildImage(s) \/ BuildImageFails(s) \/ RemoveImage(s)
  BY <1>3 DEF Extract, CopyDockerfile, BuildImage, BuildImageFails, RemoveImage
<1> QED
  BY <1>1, <1>2, <1>3 DEF DeploySubmission

LEMMA EngineSteps == [DeployNext]_deployment => [Next]_vars
<1> SUFFICES ASSUME [DeployNext]_deployment PROVE [Next]_vars
  OBVIOUS
<1>1. ASSUME NEW s \in Submissions, Save(s) \/ SaveFails(s) PROVE [Next]_vars
  BY <1>1 DEF Save, SaveFails, Next
<1>2. ASSUME NEW s \in Submissions, DeploySubmission(s) \/ Enter(s) \/ Return(s) PROVE [Next]_vars
  BY <1>2, DeploySubmissionSteps DEF Next
<1>3. CASE Die \/ Elsewhere
  BY <1>3 DEF Die, Elsewhere, Next
<1>4. CASE UNCHANGED deployment
  BY <1>4 DEF deployment
<1> QED
  BY <1>1, <1>2, <1>3, <1>4 DEF DeployNext, Goroutine

\* What is on the disk adds detail to the engine and takes nothing from it.
THEOREM DeploymentIsSandbox == DeploySpec => Spec
<1>1. DeployInit => Init
  BY DEF DeployInit
<1> QED
  BY <1>1, EngineSteps, PTL DEF DeploySpec, Spec

\* The lifecycle of a submission survives the detail.
THEOREM DeploymentImplementsLifecycle == DeploySpec => ImplementsLifecycle
BY DeploymentIsSandbox, EngineImplementsLifecycle

\* So does the engine's knowledge of what runs, but for the containers that a
\* docker run starts after its engine died: RunImage's error path removes the image
\* only, and the container it may leave does not run.
THEOREM DeployedIsOwned == ~DockerErrors /\ DeploySpec => []RunningIsOwned
BY DeploymentIsSandbox, RunningOwned

LEMMA EngineInvariance == DeploySpec => []IInv
BY DeploymentIsSandbox, Invariance

(***************************************************************************)
(* Types                                                                   *)
(***************************************************************************)
\* A step for one submission leaves the entries of the other submissions alone.
LEMMA DeployedOthers ==
    ASSUME DiskOK, IInv, NEW s \in Submissions,
           Save(s) \/ SaveFails(s) \/ Enter(s) \/ DeploySubmission(s) \/ Return(s),
           NEW t \in Submissions \ {s}
    PROVE  /\ deploy'[t] = deploy[t] /\ stage'[t] = stage[t]
           /\ uploads'[t] = uploads[t] /\ scratch'[t] = scratch[t]
           /\ t \in images' <=> t \in images
<1> USE DEF DiskOK, Stage, disk
<1>1. CASE Save(s) \/ SaveFails(s)
  BY <1>1 DEF Save, SaveFails, Submit, vars, IInv, TypeOK
<1>2. CASE Enter(s) \/ DeploySubmission(s) \/ Return(s)
  <2>1. deploy'[t] = deploy[t]
    BY <1>2, DeploySubmissionSteps, DeployOthers DEF IInv, vars
  <2>2. CASE Enter(s) \/ Return(s) \/ TakePort(s) \/ CopyDockerfile(s) \/ RunImage(s)
    BY <2>1, <2>2 DEF Enter, Return, TakePort, CopyDockerfile, RunImage
  <2>3. CASE Extract(s) \/ ExtractFails(s) \/ RemoveScratch(s)
    BY <2>1, <2>3 DEF Extract, ExtractFails, RemoveScratch
  <2>4. CASE BuildImage(s) \/ BuildImageFails(s) \/ RemoveImage(s)
    BY <2>1, <2>4 DEF BuildImage, BuildImageFails, RemoveImage
  <2> QED
    BY <1>2, <2>2, <2>3, <2>4 DEF DeploySubmission
<1> QED
  BY <1>1, <1>2

LEMMA DiskStep ==
    ASSUME DiskOK, IInv, LeftInv, [DeployNext]_deployment PROVE DiskOK'
<1> DEFINE StageNames == {"none", "extract", "dockerfile", "image", "port", "run", "rmi", "clean"}
           Types == /\ uploads \in [Submissions -> {"none", "whole", "trimmed", "cut"}]
                    /\ scratch \in [Submissions -> {"none", "whole", "partial"}]
                    /\ images \subseteq Submissions
                    /\ stage \in [Submissions -> StageNames]
           Goes(s) == /\ deploy[s] \in {"build", "run"} => stage[s] # "none"
                      /\ stage[s] # "none" => deploy[s] \in {"build", "run", "running", "failed"}
                      /\ deploy[s] # "none" => uploads[s] # "none"
<1>1. Types /\ (\A s \in Submissions : Goes(s)) /\ deploy \in [Submissions -> Deploy]
  BY DEF DiskOK, IInv, TypeOK
<1>2. Types' /\ (\A s \in Submissions : Goes(s)') => DiskOK'
  BY DEF DiskOK
<1>3. ASSUME NEW s \in Submissions,
             Save(s) \/ SaveFails(s) \/ Enter(s) \/ DeploySubmission(s) \/ Return(s),
             Types', Goes(s)'
      PROVE  DiskOK'
  <2>1. \A t \in Submissions \ {s} : Goes(t)'
    BY <1>1, <1>3, DeployedOthers
  <2> QED
    BY <1>2, <1>3, <2>1
<1>4. ASSUME NEW s \in Submissions, Save(s) \/ SaveFails(s) PROVE DiskOK'
  <2>1. Types' /\ Goes(s)'
    BY <1>1, <1>4 DEF Save, SaveFails, Submit, vars
  <2> QED
    BY <1>3, <1>4, <2>1
<1>5. ASSUME NEW s \in Submissions, Enter(s) PROVE DiskOK'
  <2>1. Types' /\ Goes(s)'
    BY <1>1, <1>5 DEF Enter, SetCompiling, Goto, disk
  <2> QED
    BY <1>3, <1>5, <2>1
<1>6. ASSUME NEW s \in Submissions, Return(s) PROVE DiskOK'
  <2>1. Types' /\ Goes(s)'
    BY <1>1, <1>6 DEF Return, SetRunning, SetEndpoint, Publish, SetFailed, ClearEndpoint, Goto, disk
  <2> QED
    BY <1>3, <1>6, <2>1
<1>7. ASSUME NEW s \in Submissions, DeploySubmission(s) PROVE DiskOK'
  <2> USE DEF Stage, disk, vars
  <2>1. Types'
    <3>1. CASE Extract(s) \/ ExtractFails(s) \/ CopyDockerfile(s)
      BY <1>1, <3>1 DEF Extract, ExtractFails, CopyDockerfile
    <3>2. CASE BuildImage(s) \/ BuildImageFails(s) \/ TakePort(s)
      BY <1>1, <3>2 DEF BuildImage, BuildImageFails, TakePort
    <3>3. CASE RunImage(s) \/ RemoveImage(s) \/ RemoveScratch(s)
      BY <1>1, <3>3 DEF RunImage, RemoveImage, RemoveScratch
    <3> QED
      BY <1>7, <3>1, <3>2, <3>3 DEF DeploySubmission
  <2>2. Goes(s)'
    <3>1. StageOK(s)
      BY DEF LeftInv, LeftOK
    <3>2. CASE Extract(s) \/ CopyDockerfile(s) \/ BuildImage(s) \/ BuildImageFails(s) \/ RemoveImage(s)
      BY <1>1, <3>2 DEF Extract, CopyDockerfile, BuildImage, BuildImageFails, RemoveImage
    <3>3. CASE ExtractFails(s) \/ TakePort(s)
      BY <1>1, <3>3 DEF ExtractFails, TakePort, BuildFails, Build, Goto
    <3>4. CASE RunImage(s)
      BY <1>1, <3>4 DEF RunImage, RunContainer, RunFails, Goto
    <3>5. CASE RemoveScratch(s)
      BY <1>1, <3>1, <3>5 DEF RemoveScratch, StageOK, BuildFails, Goto
    <3> QED
      BY <1>7, <3>2, <3>3, <3>4, <3>5 DEF DeploySubmission
  <2> QED
    BY <1>3, <1>7, <2>1, <2>2
<1>8. CASE Die
  BY <1>1, <1>2, <1>8 DEF Die, Crash, disk, Deploy
<1>9. CASE Elsewhere
  <2>1. UNCHANGED deploy
    BY <1>9 DEF Elsewhere, ContainerExits, RunLate, Deleting, StopSubmission, DeleteContainer,
       EvictProxy, DockerStop, DockerRm, DockerFails, SetCompleted, Ordering, ReadEndpoint, GetOrCreateProxy,
       Serve, Start
  <2> QED
    BY <1>1, <1>2, <1>9, <2>1 DEF Elsewhere, disk
<1>10. CASE UNCHANGED deployment
  BY <1>1, <1>2, <1>10 DEF deployment, disk, vars
<1> QED
  BY <1>4, <1>5, <1>6, <1>7, <1>8, <1>9, <1>10 DEF DeployNext, Goroutine

(***************************************************************************)
(* What is left                                                            *)
(***************************************************************************)
\* The status that goes with each stage of the goroutine.
StatusFits(s) ==
    /\ deploy[s] \in {"none", "compiling", "build", "run"}
          => StatusOf(s) \in {None, "RECEIVED", "COMPILING"}
    /\ deploy[s] \in {"running", "failed"} => StatusOf(s) = "COMPILING"
    /\ deploy[s] \in {"endpoint", "publish"} => StatusOf(s) \in {"RUNNING", "COMPLETED"}
    /\ deploy[s] = "clear" => StatusOf(s) = "FAILED"
    /\ deploy[s] = "done" => StatusOf(s) \in {None, "RUNNING", "COMPLETED", "FAILED"}

StatusesFit == \A s \in Submissions : StatusFits(s)

LEMMA StatusAt == IInv => StatusesFit
<1> SUFFICES ASSUME IInv, NEW s \in Submissions PROVE StatusFits(s)
  BY DEF StatusesFit
<1> USE DEF StatusFits
<1>1. RecordOK(s)
  BY DEF IInv, RecordInv
<1>2. CASE ~Known(s)
  BY <1>1, <1>2 DEF RecordOK, StatusOf
<1>3. CASE Linked(s)
  BY <1>3, LinkedKnown DEF Linked, StatusOf
<1>4. CASE Known(s) /\ Fresh(s)
  <2>1. PICK st \in Status : submissions[s] = Rec(st, NoURL, NoURL) /\ <<deploy[s], st>> \in Stages
    BY <1>4 DEF Fresh
  <2>2. StatusOf(s) = st
    BY <1>4, <2>1, FreshRec DEF StatusOf
  <2> QED
    BY <2>1, <2>2 DEF Stages
<1> QED
  BY <1>1, <1>2, <1>3, <1>4 DEF RecordOK

LEMMA StatusNext == IInv' => StatusesFit'
BY StatusAt, PTL

\* Nobody but the goroutine of s makes it run or fail.
LEMMA OutcomeStays ==
    ASSUME IInv, [Next]_vars, NEW s \in Submissions, deploy'[s] = deploy[s]
    PROVE  (Runs(s)' => Runs(s)) /\ (Broken(s)' => Broken(s))
<1>1. /\ StatusOf(s)' \in {"RUNNING", "COMPLETED"} =>
            deploy[s] \in {"endpoint", "publish", "done"}
      /\ StatusOf(s)' = "FAILED" => deploy[s] \in {"clear", "done"}
  <2>1. IInv'
    BY InvStep
  <2>2. deploy'[s] \in Deploy
    BY <2>1 DEF IInv, TypeOK
  <2> QED
    BY <2>1, <2>2, StatusNext, NamesAssumption DEF Deploy, Status, StatusFits, StatusesFit
<1>2. \/ StatusOf(s)' = StatusOf(s) \/ StatusOf(s)' = None
      \/ StatusOf(s)' \in {"RECEIVED", "COMPILING"}
      \/ StatusOf(s) = "COMPILING"
      \/ StatusOf(s) \in {"RUNNING", "COMPLETED"} /\ StatusOf(s)' = "COMPLETED"
  BY StatusesStep DEF IInv, MovesTo
<1>3. deploy[s] = "done" => StatusOf(s) # "COMPILING"
  BY StatusAt, NamesAssumption DEF Status, StatusFits, StatusesFit
<1> QED
  BY <1>1, <1>2, <1>3, NamesAssumption DEF Runs, Broken, Status

LEMMA SameLeft ==
    ASSUME IInv, [Next]_vars, NEW s \in Submissions, LeftOK(s),
           deploy'[s] = deploy[s], stage'[s] = stage[s],
           uploads'[s] = uploads[s], scratch'[s] = scratch[s], s \in images' <=> s \in images
    PROVE  LeftOK(s)'
BY OutcomeStays DEF LeftOK, StageOK, Cleaned

LEMMA LeftStep ==
    ASSUME DiskOK, IInv, LeftInv, [DeployNext]_deployment PROVE LeftInv'
<1>1. [Next]_vars /\ IInv'
  BY EngineSteps, InvStep
<1>2. ASSUME NEW s \in Submissions,
             Save(s) \/ SaveFails(s) \/ Enter(s) \/ DeploySubmission(s) \/ Return(s),
             LeftOK(s)'
      PROVE  LeftInv'
  <2>1. \A t \in Submissions \ {s} : LeftOK(t)'
    BY <1>1, <1>2, DeployedOthers, SameLeft DEF LeftInv
  <2> QED
    BY <1>2, <2>1 DEF LeftInv
<1>3. /\ deploy \in [Submissions -> Deploy]
      /\ uploads \in [Submissions -> {"none", "whole", "trimmed", "cut"}]
      /\ scratch \in [Submissions -> {"none", "whole", "partial"}]
      /\ stage \in [Submissions -> {"none", "extract", "dockerfile", "image", "port", "run",
                                    "rmi", "clean"}]
  BY DEF DiskOK, IInv, TypeOK
<1>4. \A s \in Submissions : LeftOK(s)
  BY DEF LeftInv
<1> USE DEF LeftOK, StageOK, Stage, disk
\* A deployment that has neither succeeded nor failed has no outcome.
<1>5. ASSUME NEW s \in Submissions, deploy'[s] \in {"compiling", "build", "run"}
      PROVE  Cleaned(s)'
  BY <1>1, <1>5, StatusNext, NamesAssumption DEF Cleaned, Runs, Broken, Status, StatusFits, StatusesFit
<1>6. ASSUME NEW s \in Submissions, stage'[s] # "none" PROVE Cleaned(s)'
  BY <1>6 DEF Cleaned
<1>7. ASSUME NEW s \in Submissions, Save(s) \/ SaveFails(s) PROVE LeftInv'
  <2>1. CASE Save(s)
    <3>1. deploy[s] = "none" /\ deploy'[s] = "compiling"
          /\ stage' = stage /\ scratch' = scratch /\ images' = images
      BY <1>3, <2>1 DEF Save, Submit
    <3> QED
      BY <1>2, <1>4, <1>5, <2>1, <3>1
  <2>2. CASE SaveFails(s)
    <3>1. deploy' = deploy /\ stage' = stage /\ scratch' = scratch /\ images' = images
          /\ uploads[s] = "none"
      BY <2>2 DEF SaveFails, vars
    <3>2. deploy[s] = "none"
      BY <3>1 DEF DiskOK
    <3>3. Cleaned(s)'
      BY <1>1, <1>4, <3>1, OutcomeStays DEF Cleaned
    <3> QED
      BY <1>2, <1>4, <2>2, <3>1, <3>2, <3>3
  <2> QED
    BY <1>7, <2>1, <2>2
<1>8. ASSUME NEW s \in Submissions, Enter(s) PROVE LeftInv'
  <2>1. /\ deploy[s] = "compiling" /\ deploy'[s] = "build" /\ stage'[s] = "extract"
        /\ uploads' = uploads /\ scratch' = scratch /\ images' = images
    BY <1>3, <1>8 DEF Enter, SetCompiling, Goto
  <2> QED
    BY <1>2, <1>4, <1>5, <1>8, <2>1
<1>9. ASSUME NEW s \in Submissions, DeploySubmission(s) PROVE LeftInv'
  <2>1. CASE Extract(s)
    <3>1. /\ stage[s] = "extract" /\ stage'[s] = "dockerfile" /\ deploy' = deploy
          /\ uploads' = uploads /\ images' = images
      BY <1>3, <2>1 DEF Extract, vars
    <3> QED
      BY <1>2, <1>4, <1>6, <1>9, <3>1
  <2>2. CASE ExtractFails(s)
    <3>1. /\ stage[s] = "extract" /\ stage'[s] = "none" /\ deploy'[s] = "failed"
          /\ uploads' = uploads /\ images' = images /\ scratch'[s] # "whole"
      BY <1>3, <2>2 DEF ExtractFails, BuildFails, Goto
    <3>2. Cleaned(s)'
      BY <1>1, <1>4, <3>1, StatusNext DEF Cleaned, Runs, StatusFits, StatusesFit
    <3> QED
      BY <1>2, <1>4, <1>9, <3>1, <3>2
  <2>3. CASE CopyDockerfile(s)
    <3>1. /\ stage[s] = "dockerfile" /\ stage'[s] \in {"image", "clean"} /\ deploy' = deploy
          /\ uploads' = uploads /\ images' = images
      BY <1>3, <2>3 DEF CopyDockerfile, vars
    <3> QED
      BY <1>2, <1>4, <1>6, <1>9, <3>1
  <2>4. CASE BuildImage(s) \/ BuildImageFails(s)
    <3>1. /\ stage[s] = "image" /\ stage'[s] \in {"port", "rmi"} /\ deploy' = deploy
          /\ uploads' = uploads /\ (stage'[s] = "port" => s \in images')
      BY <1>3, <2>4 DEF BuildImage, BuildImageFails, vars
    <3> QED
      BY <1>2, <1>4, <1>6, <1>9, <3>1
  <2>5. CASE TakePort(s)
    <3>1. /\ stage[s] = "port" /\ stage'[s] = "run" /\ deploy'[s] = "run"
          /\ uploads' = uploads /\ images' = images
      BY <1>3, <2>5 DEF TakePort, Build, Goto
    <3> QED
      BY <1>2, <1>4, <1>6, <1>9, <3>1
  <2>6. CASE RunImage(s)
    <3>1. /\ stage[s] = "run" /\ uploads' = uploads /\ images' = images
          /\ \/ stage'[s] = "clean" /\ deploy'[s] = "running"
             \/ stage'[s] = "rmi" /\ deploy'[s] = "failed"
      BY <1>3, <2>6 DEF RunImage, RunContainer, RunFails, Goto
    <3> QED
      BY <1>2, <1>4, <1>6, <1>9, <3>1
  <2>7. CASE RemoveImage(s)
    <3>1. /\ stage[s] = "rmi" /\ stage'[s] = "clean" /\ deploy' = deploy
          /\ uploads' = uploads /\ (DockerErrors \/ s \notin images')
      BY <1>3, <2>7 DEF RemoveImage, vars
    <3> QED
      BY <1>2, <1>4, <1>6, <1>9, <3>1
  <2>8. CASE RemoveScratch(s)
    <3>1. /\ stage[s] = "clean" /\ stage'[s] = "none" /\ scratch'[s] = "none"
          /\ uploads' = uploads /\ images' = images
          /\ deploy'[s] = IF deploy[s] = "build" THEN "failed" ELSE deploy[s]
      BY <1>3, <2>8 DEF RemoveScratch, BuildFails, Goto, vars
    <3>2. deploy'[s] \in {"running", "failed"}
      BY <1>4, <3>1
    <3>3. Cleaned(s)'
      BY <1>1, <1>4, <3>1, <3>2, StatusNext, NamesAssumption
         DEF Cleaned, Runs, Broken, Status, StatusFits, StatusesFit
    <3> QED
      BY <1>2, <1>4, <1>9, <3>1, <3>2, <3>3
  <2> QED
    BY <1>9, <2>1, <2>2, <2>3, <2>4, <2>5, <2>6, <2>7, <2>8 DEF DeploySubmission
<1>10. ASSUME NEW s \in Submissions, Return(s) PROVE LeftInv'
  <2>1. stage[s] = "none" /\ stage' = stage /\ UNCHANGED disk
    BY <1>10 DEF Return
  <2>2. /\ Deploying(s)
        /\ \/ deploy[s] = "running" /\ deploy'[s] = "endpoint"
           \/ deploy[s] = "endpoint" /\ deploy'[s] = "publish"
           \/ deploy[s] = "publish" /\ deploy'[s] = "done" /\ submissions' = submissions
           \/ deploy[s] = "failed" /\ deploy'[s] = "clear"
           \/ deploy[s] = "clear" /\ deploy'[s] = "done"
    BY <1>3, <1>10 DEF Return, Deploying, SetRunning, SetEndpoint, Publish, SetFailed,
       ClearEndpoint, Goto
  <2>3. (Runs(s)' => Runs(s)) /\ (Broken(s)' => Broken(s))
    <3>1. CASE deploy'[s] \in {"endpoint", "publish", "clear"}
      BY <1>1, <2>2, <3>1, StatusNext DEF Runs, Broken, StatusFits, StatusesFit
    <3>2. CASE deploy[s] = "publish" /\ deploy'[s] = "done" /\ submissions' = submissions
      BY <3>2, StatusAt DEF Runs, Broken, StatusOf, Known, StatusFits, StatusesFit
    <3>3. CASE deploy[s] = "clear" /\ deploy'[s] = "done"
      <4>1. StatusOf(s) = "FAILED"
        BY <3>3, StatusAt DEF StatusFits, StatusesFit
      <4>2. StatusOf(s)' = "FAILED"
        BY <2>2, <4>1, StatusesDeploying DEF IInv, MovesTo
      <4> QED
        BY <3>3, <4>1, <4>2 DEF Runs, Broken
    <3> QED
      BY <2>2, <3>1, <3>2, <3>3
  <2>4. LeftOK(s)'
    BY <1>4, <2>1, <2>2, <2>3 DEF Cleaned
  <2> QED
    BY <1>2, <1>10, <2>4
<1>11. CASE Die
  <2>1. ASSUME NEW s \in Submissions PROVE LeftOK(s)'
    <3>1. /\ stage'[s] = "none" /\ UNCHANGED scratch /\ StatusOf(s)' = None
          /\ deploy'[s] = IF deploy[s] = "none" THEN "none" ELSE "done"
      BY <1>11 DEF Die, Crash, StatusOf, Known
    <3>2. deploy[s] = "none" => stage[s] = "none"
      BY <1>4
    <3>3. stage[s] = "none" => (s \in images' <=> s \in images)
      BY <1>11 DEF Die
    <3>4. StageOK(s)'
      BY <1>4, <3>1, <3>2, <3>3
    <3>5. Cleaned(s)'
      BY <3>1, NamesAssumption DEF Cleaned, Runs, Broken, Status
    <3> QED
      BY <3>4, <3>5
  <2> QED
    BY <2>1 DEF LeftInv
<1>12. CASE Elsewhere \/ UNCHANGED deployment
  <2>1. UNCHANGED <<deploy, disk, stage>>
    BY <1>12 DEF deployment, vars, Elsewhere, ContainerExits, RunLate, Deleting, StopSubmission,
       DeleteContainer, EvictProxy, DockerStop, DockerRm, DockerFails, SetCompleted, Ordering,
       ReadEndpoint, GetOrCreateProxy, Serve, Start
  <2> QED
    BY <1>1, <1>4, <2>1, SameLeft DEF LeftInv
<1> QED
  BY <1>7, <1>8, <1>9, <1>10, <1>11, <1>12 DEF DeployNext, Goroutine

LEMMA LeftInvariance == DeploySpec => [](IInv /\ DiskOK /\ LeftInv)
<1>1. DeployInit => IInv /\ DiskOK /\ LeftInv
  <2> SUFFICES ASSUME DeployInit PROVE IInv /\ DiskOK /\ LeftInv
    OBVIOUS
  <2>1. IInv
    BY InvInit DEF DeployInit
  <2>2. DiskOK
    BY DEF DeployInit, Init, DiskOK
  <2>3. \A s \in Submissions : /\ deploy[s] = "none" /\ stage[s] = "none" /\ StatusOf(s) = None
                               /\ uploads[s] = "none" /\ scratch[s] = "none" /\ s \notin images
    BY DEF DeployInit, Init, StatusOf, Known
  <2>4. LeftInv
    BY <2>3, NamesAssumption DEF LeftInv, LeftOK, StageOK, Cleaned, Runs, Broken, Status
  <2> QED
    BY <2>1, <2>2, <2>4
<1>2. IInv /\ DiskOK /\ LeftInv /\ [DeployNext]_deployment => (IInv /\ DiskOK /\ LeftInv)'
  BY EngineSteps, InvStep, DiskStep, LeftStep
<1> QED
  BY <1>1, <1>2, PTL DEF DeploySpec

\* What is on the disk, and when DeploySubmission is under way.
THEOREM DiskTypeCorrect == DeploySpec => []DiskOK
BY LeftInvariance, PTL

\* A deployment that is over left an image if it succeeded and none if it failed,
\* and no build context but that of an archive that could not be extracted, if
\* docker image rm removes the image.
THEOREM OnlyImages == ~DockerErrors /\ DeploySpec => []OnlyImagesStay
<1>1. ASSUME ~DockerErrors, IInv, DiskOK, LeftInv PROVE OnlyImagesStay
  <2> SUFFICES ASSUME NEW s \in Submissions
               PROVE  StatusOf(s) \in {"RUNNING", "FAILED", "COMPLETED"} =>
                        /\ scratch[s] # "none" =>
                              StatusOf(s) = "FAILED" /\ scratch[s] = "partial"
                        /\ s \in images <=> StatusOf(s) # "FAILED"
    BY DEF OnlyImagesStay
  <2>1. LeftOK(s) /\ StatusFits(s)
    BY <1>1, StatusAt DEF LeftInv, StatusesFit
  <2>2. /\ deploy[s] \in Deploy /\ scratch[s] \in {"none", "whole", "partial"}
        /\ stage[s] # "none" => deploy[s] \in {"build", "run", "running", "failed"}
    BY <1>1 DEF IInv, TypeOK, DiskOK
  <2>3. StatusOf(s) \in {"RUNNING", "FAILED", "COMPLETED"} => stage[s] = "none"
    BY <2>1, <2>2, NamesAssumption DEF StatusFits, Status
  <2> QED
    BY <1>1, <2>1, <2>2, <2>3 DEF LeftOK, Cleaned, Runs, Broken
<1>2. CASE ~DockerErrors
  <2>1. IInv /\ DiskOK /\ LeftInv => OnlyImagesStay
    BY <1>1, <1>2
  <2> QED
    BY <2>1, LeftInvariance, PTL
<1>3. CASE DockerErrors
  BY <1>3
<1> QED
  BY <1>2, <1>3, NamesAssumption

(***************************************************************************)
(* Every deployment ends                                                   *)
(***************************************************************************)
\* The most steps that the goroutine of s still takes.
StepsLeft(s) ==
    CASE deploy[s] = "compiling"                         -> 11
      [] stage[s] = "extract"                            -> 10
      [] stage[s] = "dockerfile"                         -> 9
      [] stage[s] = "image"                              -> 8
      [] stage[s] = "port"                               -> 7
      [] stage[s] = "run"                                -> 6
      [] stage[s] = "rmi"                                -> 5
      [] stage[s] = "clean"                              -> 4
      [] deploy[s] = "running" /\ stage[s] = "none"      -> 3
      [] deploy[s] \in {"endpoint", "failed"} /\ stage[s] = "none" -> 2
      [] deploy[s] \in {"publish", "clear"}              -> 1
      [] OTHER                                           -> 0

\* Where the goroutine of s can stand.
PlaceOK(s) ==
    /\ deploy[s] \in Deploy
    /\ stage[s] \in {"none", "extract", "dockerfile", "image", "port", "run", "rmi", "clean"}
    /\ deploy[s] \in {"build", "run"} => stage[s] # "none"
    /\ stage[s] # "none" => deploy[s] \in {"build", "run", "running", "failed"}
    /\ stage[s] = "run" <=> deploy[s] = "run"
    /\ stage[s] \in {"extract", "dockerfile", "image", "port"} => deploy[s] = "build"
    /\ stage[s] = "rmi" => deploy[s] \in {"build", "failed"}

LEMMA Places == ASSUME IInv, DiskOK, LeftInv, NEW s \in Submissions PROVE PlaceOK(s)
<1>1. LeftOK(s) /\ deploy[s] \in Deploy
  BY DEF LeftInv, IInv, TypeOK
<1>2. deploy[s] = "run" => stage[s] = "run"
  BY <1>1 DEF DiskOK, LeftOK, StageOK
<1> QED
  BY <1>1, <1>2 DEF DiskOK, PlaceOK, LeftOK, StageOK

LEMMA StepsLeftNat ==
    ASSUME NEW s \in Submissions, PlaceOK(s)
    PROVE  StepsLeft(s) \in 0..11 /\ (StepsLeft(s) = 0 <=> deploy[s] \in {"none", "done"})
BY DEF PlaceOK, Deploy, StepsLeft

LEMMA StepsLeftTyped ==
    IInv /\ DiskOK /\ LeftInv => \A s \in Submissions : StepsLeft(s) \in 0..11
BY Places, StepsLeftNat

LEMMA StepsLeftNext ==
    (IInv /\ DiskOK /\ LeftInv)' => (\A s \in Submissions : StepsLeft(s) \in 0..11)'
BY StepsLeftTyped, PTL

\* Each step of the goroutine brings it nearer to its end.
LEMMA GoroutineAdvances ==
    ASSUME IInv, DiskOK, LeftInv, NEW s \in Submissions, Goroutine(s)
    PROVE  StepsLeft(s)' < StepsLeft(s)
<1> USE DEF Stage, Goto
<1>1. PlaceOK(s) /\ deploy \in [Submissions -> Deploy] /\ DOMAIN stage = Submissions
  BY Places DEF IInv, TypeOK, DiskOK
<1>2. CASE Enter(s)
  BY <1>1, <1>2 DEF Enter, SetCompiling, StepsLeft, PlaceOK
<1>3. CASE Extract(s) \/ CopyDockerfile(s) \/ BuildImage(s) \/ BuildImageFails(s) \/ RemoveImage(s)
  <2>1. deploy' = deploy
    BY <1>3 DEF Extract, CopyDockerfile, BuildImage, BuildImageFails, RemoveImage, vars
  <2>2. \/ stage[s] = "extract" /\ stage'[s] = "dockerfile"
        \/ stage[s] = "dockerfile" /\ stage'[s] \in {"image", "clean"}
        \/ stage[s] = "image" /\ stage'[s] \in {"port", "rmi"}
        \/ stage[s] = "rmi" /\ stage'[s] = "clean"
    BY <1>1, <1>3 DEF Extract, CopyDockerfile, BuildImage, BuildImageFails, RemoveImage
  <2> QED
    BY <1>1, <2>1, <2>2 DEF StepsLeft, PlaceOK
<1>4. CASE ExtractFails(s)
  BY <1>1, <1>4 DEF ExtractFails, BuildFails, StepsLeft, PlaceOK
<1>5. CASE TakePort(s)
  BY <1>1, <1>5 DEF TakePort, Build, StepsLeft, PlaceOK
<1>6. CASE RunImage(s)
  BY <1>1, <1>6 DEF RunImage, RunContainer, RunFails, StepsLeft, PlaceOK
<1>7. CASE RemoveScratch(s)
  BY <1>1, <1>7 DEF RemoveScratch, BuildFails, StepsLeft, PlaceOK, vars
<1>8. CASE Return(s)
  BY <1>1, <1>8
     DEF Return, SetRunning, SetEndpoint, Publish, SetFailed, ClearEndpoint, StepsLeft, PlaceOK
<1> QED
  BY <1>2, <1>3, <1>4, <1>5, <1>6, <1>7, <1>8 DEF Goroutine, DeploySubmission

\* Nobody else takes it back; a crash ends it.
LEMMA GoroutineUndisturbed ==
    ASSUME IInv, DiskOK, LeftInv, NEW s \in Submissions, deploy[s] \notin {"none", "done"},
           [DeployNext]_deployment
    PROVE  StepsLeft(s)' <= StepsLeft(s)
<1>1. PlaceOK(s) /\ DOMAIN stage = Submissions /\ DOMAIN deploy = Submissions
  BY Places DEF DiskOK, IInv, TypeOK
<1>2. StepsLeft(s) \in 0..11
  BY <1>1, StepsLeftNat
<1>3. CASE UNCHANGED <<deploy[s], stage[s]>>
  <2>1. StepsLeft(s)' = StepsLeft(s)
    BY <1>3 DEF StepsLeft
  <2> QED
    BY <1>2, <2>1
<1>4. CASE Goroutine(s)
  <2>1. StepsLeft(s)' \in 0..11
    BY EngineSteps, InvStep, DiskStep, LeftStep, StepsLeftNext
  <2>2. StepsLeft(s)' < StepsLeft(s)
    BY <1>4, GoroutineAdvances
  <2> QED
    BY <1>2, <2>1, <2>2
<1>5. ASSUME NEW t \in Submissions, Save(t) \/ SaveFails(t) \/ Goroutine(t), t # s
      PROVE  StepsLeft(s)' <= StepsLeft(s)
  BY <1>3, <1>5, DeployedOthers DEF Goroutine
<1>6. CASE Save(s) \/ SaveFails(s)
  BY <1>3, <1>6 DEF Save, SaveFails, Submit, vars
<1>7. CASE Die
  <2>1. deploy'[s] = "done" /\ stage'[s] = "none"
    BY <1>7 DEF Die, Crash
  <2>2. StepsLeft(s)' = 0
    BY <2>1 DEF StepsLeft
  <2> QED
    BY <1>2, <2>2
<1>8. CASE Elsewhere \/ UNCHANGED deployment
  <2>1. UNCHANGED <<deploy, stage>>
    BY <1>8 DEF deployment, vars, Elsewhere, ContainerExits, RunLate, Deleting, StopSubmission,
       DeleteContainer, EvictProxy, DockerStop, DockerRm, DockerFails, SetCompleted, Ordering,
       ReadEndpoint, GetOrCreateProxy, Serve, Start
  <2> QED
    BY <1>3, <2>1
<1> QED
  BY <1>4, <1>5, <1>6, <1>7, <1>8 DEF DeployNext

\* As long as it can go on, a goroutine with n steps left comes to have fewer.
LEMMA OneStepNearer ==
    ASSUME NEW s \in Submissions, NEW n \in 1..11
    PROVE  DeploySpec /\ []GoroutineCanGoOn => (StepsLeft(s) = n) ~> (StepsLeft(s) < n)
<1> DEFINE Inv == IInv /\ DiskOK /\ LeftInv
<1>1. Inv /\ StepsLeft(s) = n /\ [DeployNext]_deployment
         => (StepsLeft(s) = n)' \/ (StepsLeft(s) < n)'
  <2> SUFFICES ASSUME Inv, StepsLeft(s) = n, [DeployNext]_deployment
               PROVE  StepsLeft(s)' = n \/ StepsLeft(s)' < n
    OBVIOUS
  <2>1. Inv'
    BY EngineSteps, InvStep, DiskStep, LeftStep
  <2>2. deploy[s] \notin {"none", "done"}
    BY Places, StepsLeftNat
  <2>3. StepsLeft(s)' <= n
    BY <2>2, GoroutineUndisturbed
  <2>4. StepsLeft(s)' \in 0..11
    BY <2>1, StepsLeftNext
  <2> QED
    BY <2>3, <2>4
<1>2. Inv /\ StepsLeft(s) = n /\ <<Goroutine(s)>>_deployment => (StepsLeft(s) < n)'
  BY GoroutineAdvances
<1>3. Inv /\ GoroutineCanGoOn /\ StepsLeft(s) = n => ENABLED <<Goroutine(s)>>_deployment
  BY Places, StepsLeftNat DEF GoroutineCanGoOn
<1>4. DeploySpec => Fairness(s)
  BY DEF DeploySpec
<1> HIDE DEF Inv
<1>5. DeploySpec => []Inv
  BY LeftInvariance DEF Inv
<1> QED
  BY <1>1, <1>2, <1>3, <1>4, <1>5, PTL DEF DeploySpec, Fairness


\* At most eleven steps, whatever happens in between.
LEMMA GoroutineEnds ==
    ASSUME NEW s \in Submissions
    PROVE  DeploySpec /\ []GoroutineCanGoOn => []<>(deploy[s] \in {"none", "done"})
<1> DEFINE P == DeploySpec /\ []GoroutineCanGoOn
           Within(n) == StepsLeft(s) <= n
           LeadsTo(n, m) == P => (Within(n) ~> Within(m))
           Ended == deploy[s] \in {"none", "done"}
<1>1. ASSUME NEW n \in 1..11, NEW m \in 0..10, m = n - 1 PROVE LeadsTo(n, m)
  <2>1. IInv /\ DiskOK /\ LeftInv =>
           /\ Within(n) => StepsLeft(s) = n \/ Within(m)
           /\ StepsLeft(s) < n => Within(m)
    BY <1>1, StepsLeftTyped
  <2>2. DeploySpec /\ []GoroutineCanGoOn => (StepsLeft(s) = n) ~> (StepsLeft(s) < n)
    BY OneStepNearer
  <2> HIDE DEF Within
  <2> QED
    BY <2>1, <2>2, LeftInvariance, PTL
<1>2. IInv /\ DiskOK /\ LeftInv => Within(11) /\ (Within(0) => Ended)
  BY Places, StepsLeftNat
<1> HIDE DEF LeadsTo
<1>3. /\ LeadsTo(11, 10) /\ LeadsTo(10, 9) /\ LeadsTo(9, 8) /\ LeadsTo(8, 7)
      /\ LeadsTo(7, 6) /\ LeadsTo(6, 5) /\ LeadsTo(5, 4) /\ LeadsTo(4, 3)
      /\ LeadsTo(3, 2) /\ LeadsTo(2, 1) /\ LeadsTo(1, 0)
  BY <1>1
<1> HIDE DEF Within, P, Ended
<1>4. P => [](IInv /\ DiskOK /\ LeftInv)
  BY LeftInvariance DEF P
<1>5. P => []<>Ended
  BY <1>2, <1>3, <1>4, PTL DEF LeadsTo
<1> QED
  BY <1>5 DEF P, Ended


\* Every submission comes to run, to fail or to be forgotten, for any number of
\* deployments at a time, if the scheduler runs each goroutine that can go on
\* (DeploySpec).  That each of them can is the shape of the actions, in which every
\* docker command returns; it is a hypothesis here, for ENABLED is not expanded.
THEOREM SubmissionsAreDeployed == DeploySpec /\ []GoroutineCanGoOn => EverySubmissionDeployed
<1> DEFINE P == DeploySpec /\ []GoroutineCanGoOn
           Outcome(s) == StatusOf(s) \in {"RUNNING", "FAILED", "COMPLETED", None}
           Deployed(s) == (StatusOf(s) = "RECEIVED") ~> Outcome(s)
<1>1. ASSUME NEW s \in Submissions PROVE P => Deployed(s)
  <2>1. IInv /\ deploy[s] \in {"none", "done"} => Outcome(s)
    <3> SUFFICES ASSUME IInv, deploy[s] \in {"none", "done"} PROVE Outcome(s)
      OBVIOUS
    <3>1. deploy[s] = "none" => ~Known(s)
      BY LinkedKnown DEF IInv, RecordInv, RecordOK, Fresh, Stages, Linked
    <3> QED
      BY <3>1, StatusAt DEF StatusesFit, StatusFits, StatusOf
  <2> HIDE DEF Outcome
  <2> QED
    BY <2>1, GoroutineEnds, LeftInvariance, PTL
<1> HIDE DEF Deployed, P
<1>2. P => \A s \in Submissions : Deployed(s)
  BY <1>1
<1>3. (\A s \in Submissions : Deployed(s)) => EverySubmissionDeployed
  BY DEF Deployed, EverySubmissionDeployed
<1> QED
  BY <1>2, <1>3 DEF P

=============================================================================

-------------------------- MODULE RecordedRunsProofs --------------------------
(***************************************************************************)
(* What stays on record of a run: the official runs with all that is made  *)
(* of them, and the observations of one evaluation.  The last section      *)
(* carries this, and what ScoringLatticeProofs says of one row, over to    *)
(* the specification that joins them.                                      *)
(***************************************************************************)
EXTENDS MCMeasurements, ScoringLatticeProofs

-----------------------------------------------------------------------------
(* The official runs, for any number of runs, retries and pins.  A stage   *)
(* that was taken over was verified by the run that measured it, so that   *)
(* everything an earlier run left behind, finished or not, has to be       *)
(* verified: this is why the invariant speaks of every directory, and of   *)
(* `kept` only once it was compared with the pins of the run.              *)

Steady(a) == a # NoOutput => a.steady
Fits(a) == a # NoOutput => SameIdentity(a, want)

(* A stage receipt stands for a finished stage.                            *)
Finished(d) == d.receipt # NoOutput =>
                  d.artifact = d.receipt /\ d.record = d.receipt /\ ~d.marker
Sound(d) == Steady(d.artifact) /\ Steady(d.record) /\ Finished(d)

(* From where the artifact was accepted to where its stage is uploaded.    *)
Accepting == {"verified", "copied", "recorded", "complete", "receipted"}

JobIsPinned == progress # "idle" => runNumber \in WorkflowRuns /\ want \in Wants

KeptIsVerified ==
    /\ progress \in {"kept", "marked"} \cup Accepting => kept # NoOutput
    /\ kept # NoOutput /\ kept.run # runNumber => kept.steady
    /\ progress \in Accepting => kept.steady /\ SameIdentity(kept, want)

WorkspaceIsVerified ==
    /\ \A s \in Stages : /\ Sound(workspace[s])
                         /\ Fits(workspace[s].artifact) /\ Fits(workspace[s].record)
    /\ measuring = "plain" => workspace["methods"] = EmptyDir
    /\ progress \in {"trying", "kept", "marked", "verified", "copied", "recorded", "complete"} =>
          workspace[measuring].receipt = NoOutput
    /\ progress \in {"copied", "recorded", "complete"} => workspace[measuring].artifact = kept
    /\ progress \in {"recorded", "complete"} => workspace[measuring].record = kept
    /\ progress = "complete" => ~workspace[measuring].marker

OfferedIsVerified ==
    /\ \A s \in Stages : \A i \in DOMAIN offered[s] : Sound(offered[s][i])
    /\ \A i \in DOMAIN offered[measuring] :
          progress = "trying" /\ i <= tried => ~Usable(offered[measuring][i], measuring)

UploadsAreVerified ==
    \A q \in WorkflowRuns :
        /\ \A s \in Stages : Sound(uploads[q].staged[s]) /\ Sound(uploads[q].final[s])
        /\ OneIdentity(FinalArtifacts(q))

RegistryIsVerified ==
    /\ \A s \in Stages : Steady(recordedRuns[s]) /\ Steady(archive[s]) /\ Steady(view[s])
    /\ \A a \in historicalRuns : a.steady
    /\ OneIdentity(archive) /\ OneIdentity(view)

OfficialInv ==
    /\ OfficialTypeOK /\ JobIsPinned /\ KeptIsVerified /\ WorkspaceIsVerified
    /\ OfferedIsVerified /\ UploadsAreVerified /\ RegistryIsVerified

-----------------------------------------------------------------------------
(* Types.  A run keeps what it is about from its dispatch to its end.      *)

JobTypes ==
    /\ runNumber \in 0..MaxOfficialRuns /\ want \in Perhaps(Wants)
    /\ offered \in [Stages -> Seq(StageDirs)] /\ tried \in Nat
    /\ measuring \in Stages /\ progress \in Progress
    /\ kept \in Perhaps(RunArtifacts)
    /\ workspace \in [Stages -> StageDirs]
    /\ JobIsPinned

RegistryTypes ==
    /\ pins \in Pins /\ repins \in 0..MaxRepins
    /\ recordedRuns \in [Stages -> Perhaps(RunArtifacts)]
    /\ historicalRuns \subseteq RunArtifacts
    /\ archive \in [Stages -> Perhaps(RunArtifacts)]

LEMMA OfficialTypesSplit ==
    OfficialTypeOK /\ JobIsPinned <=>
        /\ JobTypes /\ RegistryTypes
        /\ uploads \in [WorkflowRuns -> Upload]
        /\ view \in [Stages -> Perhaps(RunArtifacts)]
  BY DEF OfficialTypeOK, JobTypes, RegistryTypes

LEMMA EmptyTypes ==
    /\ EmptyDir \in StageDirs /\ EmptyDirs \in [Stages -> StageDirs]
    /\ NoUpload \in Upload
    /\ NoArtifacts \in [Stages -> Perhaps(RunArtifacts)]
  BY DEF EmptyDir, EmptyDirs, StageDirs, NoUpload, Upload, NoArtifacts, Perhaps

LEMMA EndJobTypes ==
    ASSUME EndJob, runNumber' = runNumber, runNumber \in 0..MaxOfficialRuns PROVE JobTypes'
  BY EmptyTypes DEF EndJob, JobTypes, JobIsPinned, Perhaps, Stages, Progress

LEMMA OfferedTypes ==
    ASSUME uploads \in [WorkflowRuns -> Upload], NEW q \in WorkflowRuns, NEW s \in Stages, NEW got
    PROVE  OfferedBy(q, s, got) \in Seq(StageDirs)
<1>1. ASSUME NEW d \in StageDirs, NEW available PROVE Downloaded(d, available) \in Seq(StageDirs)
  BY DEF Downloaded
<1>2. uploads[q].staged[s] \in StageDirs /\ uploads[q].final[s] \in StageDirs
  BY DEF Upload
<1> QED
  BY <1>1, <1>2 DEF OfferedBy

LEMMA FinalTypes ==
    ASSUME uploads \in [WorkflowRuns -> Upload], NEW q \in WorkflowRuns
    PROVE  /\ FinalArtifacts(q) \in [Stages -> Perhaps(RunArtifacts)]
           /\ \A s \in Stages : uploads[q].final[s].record \in Perhaps(RunArtifacts)
  BY DEF FinalArtifacts, Upload, StageDirs

LEMMA OfficialTypesStart == OfficialInit => OfficialTypeOK /\ JobIsPinned
<1>1. (CHOOSE p \in Pins : TRUE) \in Pins
  <2>1. PICK g \in EnginePins, e \in EvidencePins : TRUE
    BY OfficialAssumption
  <2>2. [engine |-> g, evidence |-> e] \in Pins
    BY DEF Pins
  <2>3. \E p : p \in Pins /\ TRUE
    BY <2>2
  <2> QED
    BY <2>3, Zenon
<1> QED
  BY <1>1, EmptyTypes, OfficialAssumption
     DEF OfficialInit, NoJob, OfficialTypeOK, JobIsPinned, Perhaps, Stages, Progress

LEMMA WriteTypes ==
    ASSUME JobTypes, NEW from, NEW to \in Progress \ {"idle"}, from # "idle",
           NEW dir \in StageDirs, Write(from, to, dir)
    PROVE  JobTypes'
  BY DEF Write, JobTypes, JobIsPinned, registryVars

LEMMA OfficialTypesKept ==
    ASSUME OfficialTypeOK, JobIsPinned, [OfficialNext]_officialVars
    PROVE  OfficialTypeOK' /\ JobIsPinned'
<1>T. /\ JobTypes /\ RegistryTypes
      /\ uploads \in [WorkflowRuns -> Upload]
      /\ view \in [Stages -> Perhaps(RunArtifacts)]
  BY OfficialTypesSplit
<1> SUFFICES /\ JobTypes' /\ RegistryTypes'
             /\ uploads' \in [WorkflowRuns -> Upload]
             /\ view' \in [Stages -> Perhaps(RunArtifacts)]
  BY OfficialTypesSplit DEF OfficialTypeOK, JobTypes, RegistryTypes
<1>R. UNCHANGED registryVars => RegistryTypes'
  BY <1>T DEF registryVars, RegistryTypes
<1>J. UNCHANGED jobVars => JobTypes'
  BY <1>T DEF jobVars, JobTypes, JobIsPinned
<1>W. Here \in StageDirs
  BY <1>T DEF Here, JobTypes
<1>1. ASSUME NEW optional \in BOOLEAN, DispatchRun(optional)
      PROVE  /\ JobTypes' /\ RegistryTypes'
             /\ uploads' \in [WorkflowRuns -> Upload]
             /\ view' \in [Stages -> Perhaps(RunArtifacts)]
  <2>1. runNumber' \in WorkflowRuns /\ runNumber' \in 0..MaxOfficialRuns
    BY <1>1, <1>T, OfficialAssumption DEF DispatchRun, JobTypes, WorkflowRuns
  <2>2. want' \in Wants
    BY <1>1, <1>T DEF DispatchRun, RegistryTypes, Pins, Wants
  <2>3. offered' \in [Stages -> Seq(StageDirs)]
    <3>1. CASE offered' = [s \in Stages |-> <<>>]
      BY <3>1
    <3>2. ASSUME NEW q \in 1..runNumber, NEW got, offered' = [s \in Stages |-> OfferedBy(q, s, got)]
          PROVE  offered' \in [Stages -> Seq(StageDirs)]
      <4>1. q \in WorkflowRuns
        BY <3>2, <1>T, OfficialAssumption DEF JobTypes, WorkflowRuns
      <4> QED
        BY <3>2, <4>1, <1>T, OfferedTypes
    <3> QED
      BY <1>1, <3>1, <3>2 DEF DispatchRun
  <2>4. JobTypes'
    BY <1>1, <2>1, <2>2, <2>3, EmptyTypes
       DEF DispatchRun, JobTypes, JobIsPinned, Perhaps, Stages, Progress
  <2> QED
    BY <1>1, <1>T, <1>R, <2>4 DEF DispatchRun
<1>2. CASE RejectSource
  BY <1>2, <1>T, <1>R DEF RejectSource, JobTypes, JobIsPinned
<1>3. CASE ReuseStage
  <2>1. offered[measuring][tried + 1] \in StageDirs
    BY <1>3, <1>T DEF ReuseStage, Untried, JobTypes
  <2>2. kept' \in RunArtifacts
    BY <1>3, <2>1 DEF ReuseStage, Usable, Artifact, StageDirs, Perhaps
  <2> QED
    BY <1>3, <1>T, <1>R, <2>2 DEF ReuseStage, JobTypes, JobIsPinned, Perhaps, Progress
<1>4. CASE MeasureStage
  <2>1. runNumber \in WorkflowRuns /\ want \in Wants
    BY <1>4, <1>T DEF MeasureStage, JobTypes, JobIsPinned
  <2>2. kept' \in RunArtifacts
    BY <1>4, <1>T, <2>1 DEF MeasureStage, RunArtifacts, Wants, JobTypes
  <2> QED
    BY <1>4, <1>T, <1>R, <2>2 DEF MeasureStage, JobTypes, JobIsPinned, Perhaps, Progress
<1>5. CASE MarkIncomplete
  <2>1. [Here EXCEPT !.marker = TRUE] \in StageDirs
    BY <1>W DEF StageDirs
  <2> QED
    BY <1>5, <1>T, <1>R, <2>1, WriteTypes DEF MarkIncomplete, Write, Progress
<1>6. CASE VerifyStage
  BY <1>6, <1>T, <1>R DEF VerifyStage, JobTypes, JobIsPinned, Progress
<1>7. CASE CopyArtifact
  <2>1. [Here EXCEPT !.artifact = kept] \in StageDirs
    BY <1>W, <1>T DEF StageDirs, JobTypes
  <2> QED
    BY <1>7, <1>T, <1>R, <2>1, WriteTypes DEF CopyArtifact, Write, Progress
<1>8. CASE WriteRunRecord
  <2>1. [Here EXCEPT !.record = kept] \in StageDirs
    BY <1>W, <1>T DEF StageDirs, JobTypes
  <2> QED
    BY <1>8, <1>T, <1>R, <2>1, WriteTypes DEF WriteRunRecord, Write, Progress
<1>9. CASE RemoveMarker
  <2>1. [Here EXCEPT !.marker = FALSE] \in StageDirs
    BY <1>W DEF StageDirs
  <2> QED
    BY <1>9, <1>T, <1>R, <2>1, WriteTypes DEF RemoveMarker, Write, Progress
<1>10. CASE WriteStageReceipt
  <2>1. [Here EXCEPT !.receipt = Here.record] \in StageDirs
    BY <1>W DEF StageDirs
  <2> QED
    BY <1>10, <1>T, <1>R, <2>1, WriteTypes DEF WriteStageReceipt, Write, Progress
<1>11. CASE UploadStage
  <2>1. runNumber \in WorkflowRuns
    BY <1>11, <1>T DEF UploadStage, JobTypes, JobIsPinned
  <2>2. uploads' \in [WorkflowRuns -> Upload]
    BY <1>11, <1>T, <1>W, <2>1 DEF UploadStage, Upload, Here
  <2>3. JobTypes'
    BY <1>11, <1>T DEF UploadStage, JobTypes, JobIsPinned, Perhaps, Stages, Progress
  <2> QED
    BY <1>11, <1>T, <1>R, <2>2, <2>3 DEF UploadStage
<1>12. CASE FailRun
  BY <1>12, <1>T, <1>R DEF FailRun, JobTypes, JobIsPinned, Progress
<1>13. CASE UploadFinal
  <2>1. runNumber \in WorkflowRuns
    BY <1>13, <1>T DEF UploadFinal, JobTypes, JobIsPinned
  <2>2. uploads' \in [WorkflowRuns -> Upload]
    BY <1>13, <1>T, <2>1 DEF UploadFinal, Upload, JobTypes
  <2>3. CASE progress = "finished"
    BY <1>13, <1>T, <1>R, <2>2, <2>3 DEF UploadFinal, JobTypes, JobIsPinned, Progress
  <2>4. CASE progress # "finished"
    BY <1>13, <1>T, <1>R, <2>2, <2>4, EndJobTypes DEF UploadFinal, JobTypes
  <2> QED
    BY <2>3, <2>4
<1>14. CASE ViewOfRun
  <2>1. runNumber \in WorkflowRuns
    BY <1>14, <1>T DEF ViewOfRun, JobTypes, JobIsPinned
  <2> QED
    BY <1>14, <1>T, <1>R, <2>1, FinalTypes, EndJobTypes DEF ViewOfRun, BuildView, JobTypes
<1>15. CASE LoseRunner
  BY <1>15, <1>T, <1>R, EndJobTypes DEF LoseRunner, JobTypes
<1>16. CASE ViewOfEarlierRun
  <2>1. 1..runNumber \subseteq WorkflowRuns
    BY <1>T, OfficialAssumption DEF JobTypes, WorkflowRuns
  <2> QED
    BY <1>16, <1>T, <1>R, <1>J, <2>1, FinalTypes DEF ViewOfEarlierRun, BuildView
<1>17. CASE PublishArchive
  BY <1>17, <1>T, <1>R, <1>J DEF PublishArchive, RegistryTypes
<1>18. ASSUME NEW q \in 1..runNumber, PackArchive(q) \/ \E s \in Stages : RecordRun(q, s)
       PROVE  /\ JobTypes' /\ RegistryTypes'
              /\ uploads' \in [WorkflowRuns -> Upload]
              /\ view' \in [Stages -> Perhaps(RunArtifacts)]
  <2>1. q \in WorkflowRuns
    BY <1>T, OfficialAssumption DEF JobTypes, WorkflowRuns
  <2>2. CASE PackArchive(q)
    BY <1>T, <1>J, <2>1, <2>2, FinalTypes DEF PackArchive, RegistryTypes
  <2>3. ASSUME NEW s \in Stages, RecordRun(q, s)
        PROVE  /\ JobTypes' /\ RegistryTypes'
               /\ uploads' \in [WorkflowRuns -> Upload]
               /\ view' \in [Stages -> Perhaps(RunArtifacts)]
    BY <1>T, <1>J, <2>1, <2>3, FinalTypes DEF RecordRun, RegistryTypes
  <2> QED
    BY <1>18, <2>2, <2>3
<1>19. ASSUME NEW e \in EvidencePins, RepinEvidence(e)
       PROVE  /\ JobTypes' /\ RegistryTypes'
              /\ uploads' \in [WorkflowRuns -> Upload]
              /\ view' \in [Stages -> Perhaps(RunArtifacts)]
  <2>1. Recorded \subseteq RunArtifacts
    BY <1>T DEF Recorded, RegistryTypes, Perhaps
  <2>2. repins' \in 0..MaxRepins /\ pins' \in Pins
    BY <1>19, <1>T, OfficialAssumption DEF RepinEvidence, RegistryTypes, Pins
  <2> QED
    BY <1>19, <1>T, <1>J, <2>1, <2>2, EmptyTypes DEF RepinEvidence, RegistryTypes
<1>20. ASSUME NEW g \in EnginePins, RepinEngine(g)
       PROVE  /\ JobTypes' /\ RegistryTypes'
              /\ uploads' \in [WorkflowRuns -> Upload]
              /\ view' \in [Stages -> Perhaps(RunArtifacts)]
  <2>1. repins' \in 0..MaxRepins /\ pins' \in Pins
    BY <1>20, <1>T, OfficialAssumption DEF RepinEngine, RegistryTypes, Pins
  <2> QED
    BY <1>20, <1>T, <1>J, <2>1, EmptyTypes DEF RepinEngine, RegistryTypes
<1>21. CASE UNCHANGED officialVars
  BY <1>21, <1>T, <1>R, <1>J DEF officialVars, registryVars, jobVars
<1> QED
  BY <1>1, <1>2, <1>3, <1>4, <1>5, <1>6, <1>7, <1>8, <1>9, <1>10, <1>11, <1>12, <1>13, <1>14,
     <1>15, <1>16, <1>17, <1>18, <1>19, <1>20, <1>21 DEF OfficialNext, RunStep

(* The registry, the uploads and the runner keep their types.              *)
THEOREM OfficialTypes == OfficialSpec => []OfficialTypeOK
<1>1. OfficialTypeOK /\ JobIsPinned /\ [OfficialNext]_officialVars => OfficialTypeOK' /\ JobIsPinned'
  BY OfficialTypesKept
<1> QED
  BY <1>1, OfficialTypesStart, PTL DEF OfficialSpec

-----------------------------------------------------------------------------
(* What is verified stays verified.                                        *)

JobInv == KeptIsVerified /\ WorkspaceIsVerified /\ OfferedIsVerified

LEMMA EmptyIsSound == Sound(EmptyDir) /\ (\A s \in Stages : Sound(EmptyDirs[s]))
  BY DEF EmptyDir, EmptyDirs, Sound, Steady, Finished

LEMMA EndJobInv == ASSUME EndJob PROVE JobInv'
<1>1. Stages = {"plain", "methods"}
  BY DEF Stages
<1>2. KeptIsVerified'
  BY DEF EndJob, KeptIsVerified, Accepting
<1>3. WorkspaceIsVerified'
  BY <1>1, EmptyIsSound DEF EndJob, WorkspaceIsVerified, EmptyDirs, EmptyDir, Fits, Sound, Steady, Finished
<1>4. OfferedIsVerified'
  BY <1>1 DEF EndJob, OfferedIsVerified
<1> QED
  BY <1>2, <1>3, <1>4 DEF JobInv

LEMMA JobInvStays == ASSUME JobInv, UNCHANGED jobVars PROVE JobInv'
  BY DEF JobInv, KeptIsVerified, WorkspaceIsVerified, OfferedIsVerified, jobVars, Fits, Sound,
     Steady, Finished, SameIdentity, Usable, Identical

(* A directory with a stage receipt of what the run measures is usable.    *)
LEMMA FinishedIsUsable ==
    ASSUME NEW d \in StageDirs, NEW s \in Stages, Sound(d), HasFinished(d, s)
    PROVE  Usable(d, s)
  BY DEF Sound, Finished, HasFinished, Usable, Identical, Artifact, StageDirs

LEMMA OfficialInvStarts == OfficialInit => OfficialInv
<1> SUFFICES ASSUME OfficialInit PROVE OfficialInv
  OBVIOUS
<1>1. OfficialTypeOK /\ JobIsPinned
  BY OfficialTypesStart
<1>2. Stages = {"plain", "methods"}
  BY DEF Stages
<1>3. KeptIsVerified /\ OfferedIsVerified
  BY <1>2 DEF OfficialInit, NoJob, KeptIsVerified, OfferedIsVerified, Accepting
<1>4. WorkspaceIsVerified
  BY <1>2 DEF OfficialInit, NoJob, WorkspaceIsVerified, EmptyDirs, EmptyDir, Fits, Sound, Steady, Finished
<1>5. UploadsAreVerified
  BY <1>2 DEF OfficialInit, UploadsAreVerified, NoUpload, EmptyDirs, EmptyDir, Sound, Steady,
     Finished, OneIdentity, ArtifactsIn, FinalArtifacts
<1>6. RegistryIsVerified
  BY <1>2 DEF OfficialInit, RegistryIsVerified, NoArtifacts, Steady, OneIdentity, ArtifactsIn
<1> QED
  BY <1>1, <1>3, <1>4, <1>5, <1>6 DEF OfficialInv

(* The steps of a stage in its directory.                                  *)
LEMMA WriteJobInv ==
    ASSUME OfficialInv, NEW from, NEW to, NEW dir \in StageDirs, Write(from, to, dir),
           from \in {"kept", "verified", "copied", "recorded", "complete"},
           to \in {"marked", "copied", "recorded", "complete", "receipted"},
           to # "marked" => from \in Accepting,
           Sound(dir), Fits(dir.artifact), Fits(dir.record),
           to # "receipted" => dir.receipt = NoOutput,
           to \in {"copied", "recorded", "complete"} => dir.artifact = kept,
           to \in {"recorded", "complete"} => dir.record = kept,
           to = "complete" => ~dir.marker
    PROVE  JobInv'
<1>1. /\ workspace \in [Stages -> StageDirs] /\ measuring \in Stages
      /\ workspace' = [workspace EXCEPT ![measuring] = dir]
      /\ UNCHANGED <<runNumber, want, offered, tried, measuring, kept>>
      /\ progress = from /\ progress' = to
  BY DEF OfficialInv, OfficialTypeOK, Write
<1>2. KeptIsVerified'
  BY <1>1 DEF OfficialInv, KeptIsVerified, Accepting, SameIdentity
<1>3. WorkspaceIsVerified'
  <2>1. workspace'[measuring] = dir /\ \A s \in Stages \ {measuring} : workspace'[s] = workspace[s]
    BY <1>1
  <2>2. \A a : Fits(a)' <=> Fits(a)
    BY <1>1 DEF Fits, SameIdentity
  <2>3. \A s \in Stages : /\ Sound(workspace'[s])
                          /\ Fits(workspace'[s].artifact) /\ Fits(workspace'[s].record)
    BY <2>1 DEF OfficialInv, WorkspaceIsVerified
  <2>4. measuring = "plain" => workspace'["methods"] = EmptyDir
    BY <2>1 DEF OfficialInv, WorkspaceIsVerified, Stages
  <2> QED
    BY <1>1, <2>1, <2>2, <2>3, <2>4 DEF WorkspaceIsVerified, Fits, Sound, Steady, Finished, SameIdentity
<1>4. OfferedIsVerified'
  BY <1>1 DEF OfficialInv, OfferedIsVerified, Sound, Steady, Finished
<1> QED
  BY <1>2, <1>3, <1>4 DEF JobInv

LEMMA HereIsSound ==
    ASSUME OfficialInv
    PROVE  /\ Here \in StageDirs /\ Sound(Here) /\ Fits(Here.artifact) /\ Fits(Here.record)
           /\ measuring \in Stages /\ Here = workspace[measuring]
  BY DEF OfficialInv, OfficialTypeOK, WorkspaceIsVerified, Here

(* The job's part of the invariant, over every step.                       *)
LEMMA JobInvKept == ASSUME OfficialInv, [OfficialNext]_officialVars PROVE JobInv'
<1>T. OfficialTypeOK /\ JobIsPinned /\ OfficialTypeOK' /\ JobIsPinned'
  BY OfficialTypesKept DEF OfficialInv
<1>I. JobInv
  BY DEF OfficialInv, JobInv
<1>S. Stages = {"plain", "methods"}
  BY DEF Stages
<1>H. /\ Here \in StageDirs /\ Sound(Here) /\ Fits(Here.artifact) /\ Fits(Here.record)
      /\ measuring \in Stages /\ Here = workspace[measuring]
  BY HereIsSound
<1>1. ASSUME NEW optional \in BOOLEAN, DispatchRun(optional) PROVE JobInv'
  <2>1. KeptIsVerified'
    BY <1>1 DEF DispatchRun, KeptIsVerified, Accepting
  <2>2. WorkspaceIsVerified'
    BY <1>1, <1>S, EmptyIsSound
       DEF DispatchRun, WorkspaceIsVerified, EmptyDirs, EmptyDir, Fits, Sound, Steady, Finished
  <2>3. \A s \in Stages : \A i \in DOMAIN offered'[s] : Sound(offered'[s][i])
    <3>1. CASE offered' = [s \in Stages |-> <<>>]
      BY <3>1
    <3>2. ASSUME NEW q \in 1..runNumber, NEW got, offered' = [s \in Stages |-> OfferedBy(q, s, got)],
                 NEW s \in Stages, NEW i \in DOMAIN offered'[s]
          PROVE  Sound(offered'[s][i])
      <4>1. q \in WorkflowRuns
        BY <1>T, OfficialAssumption DEF OfficialTypeOK, WorkflowRuns
      <4>2. Sound(uploads[q].staged[s]) /\ Sound(uploads[q].final[s])
        BY <4>1 DEF OfficialInv, UploadsAreVerified
      <4>3. uploads[q].staged[s] \in StageDirs /\ uploads[q].final[s] \in StageDirs
        BY <4>1, <1>T DEF OfficialTypeOK, Upload
      <4>4. ASSUME NEW d \in StageDirs, NEW available
            PROVE  Downloaded(d, available) = <<>> \/ Downloaded(d, available) = <<d>>
        BY DEF Downloaded
      <4>5. offered'[s] = Downloaded(uploads[q].staged[s], s \in got)
                             \o Downloaded(uploads[q].final[s], "final" \in got)
        BY <3>2 DEF OfferedBy
      <4>6. offered'[s][i] \in {uploads[q].staged[s], uploads[q].final[s]}
        BY <3>2, <4>3, <4>4, <4>5
      <4> QED
        BY <4>2, <4>6
    <3> QED
      BY <1>1, <3>1, <3>2 DEF DispatchRun
  <2>4. \A i \in DOMAIN offered'[measuring'] : ~(i <= tried')
    <3>1. tried' = 0 /\ measuring' = "plain" /\ offered'["plain"] \in Seq(StageDirs)
      BY <1>1, <1>T, <1>S DEF DispatchRun, OfficialTypeOK
    <3> QED
      BY <3>1
  <2>5. OfferedIsVerified'
    BY <2>3, <2>4 DEF OfferedIsVerified, Sound, Steady, Finished
  <2> QED
    BY <2>1, <2>2, <2>5 DEF JobInv
<1>2. CASE RejectSource
  <2>1. UNCHANGED <<runNumber, want, offered, measuring, progress, kept, workspace>> /\ tried' = tried + 1
    BY <1>2 DEF RejectSource
  <2>2. KeptIsVerified' /\ WorkspaceIsVerified'
    BY <1>I, <2>1 DEF JobInv, KeptIsVerified, WorkspaceIsVerified, Fits, Sound, Steady, Finished, SameIdentity
  <2>3. ASSUME NEW i \in DOMAIN offered[measuring], i <= tried + 1, progress = "trying"
        PROVE  ~Usable(offered[measuring][i], measuring)
    <3>1. i \in Nat /\ tried \in Nat
      BY <1>T, <1>H DEF OfficialTypeOK
    <3>2. CASE i <= tried
      BY <1>I, <2>3, <3>2 DEF JobInv, OfferedIsVerified
    <3>3. CASE i = tried + 1
      BY <1>2, <3>3 DEF RejectSource
    <3> QED
      BY <2>3, <3>1, <3>2, <3>3
  <2>4. OfferedIsVerified'
    BY <1>I, <2>1, <2>3 DEF JobInv, OfferedIsVerified, Sound, Steady, Finished, Usable, Identical
  <2> QED
    BY <2>2, <2>4 DEF JobInv
<1>3. CASE ReuseStage
  <2> DEFINE d == offered[measuring][tried + 1]
  <2>1. /\ UNCHANGED <<runNumber, want, offered, tried, measuring, workspace>>
        /\ progress = "trying" /\ progress' = "kept" /\ kept' = d.artifact /\ Usable(d, measuring)
    BY <1>3 DEF ReuseStage
  <2>2. tried + 1 \in DOMAIN offered[measuring]
    BY <1>3, <1>T, <1>H DEF ReuseStage, Untried, OfficialTypeOK
  <2>3. kept' # NoOutput /\ kept'.steady
    BY <1>I, <1>H, <2>1, <2>2 DEF JobInv, OfferedIsVerified, Sound, Steady, Usable, Artifact
  <2>4. KeptIsVerified'
    BY <2>1, <2>3 DEF KeptIsVerified, Accepting
  <2>5. WorkspaceIsVerified'
    BY <1>I, <2>1 DEF JobInv, WorkspaceIsVerified, Fits, Sound, Steady, Finished, SameIdentity
  <2>6. OfferedIsVerified'
    BY <1>I, <2>1 DEF JobInv, OfferedIsVerified, Sound, Steady, Finished
  <2> QED
    BY <2>4, <2>5, <2>6 DEF JobInv
<1>4. CASE MeasureStage
  <2>1. /\ UNCHANGED <<runNumber, want, offered, tried, measuring, workspace>>
        /\ progress = "trying" /\ progress' = "kept"
    BY <1>4 DEF MeasureStage
  <2>2. kept' # NoOutput /\ kept'.run = runNumber
    BY <1>4, <1>T, <2>1, OfficialAssumption
       DEF MeasureStage, RunArtifacts, JobIsPinned, Wants, OfficialTypeOK
  <2>4. KeptIsVerified'
    BY <2>1, <2>2 DEF KeptIsVerified, Accepting
  <2>5. WorkspaceIsVerified'
    BY <1>I, <2>1 DEF JobInv, WorkspaceIsVerified, Fits, Sound, Steady, Finished, SameIdentity
  <2>6. OfferedIsVerified'
    BY <1>I, <2>1 DEF JobInv, OfferedIsVerified, Sound, Steady, Finished
  <2> QED
    BY <2>4, <2>5, <2>6 DEF JobInv
<1>5. CASE MarkIncomplete
  <2> DEFINE dir == [Here EXCEPT !.marker = TRUE]
  <2>1. Write("kept", "marked", dir) /\ progress = "kept"
    BY <1>5 DEF MarkIncomplete, Write
  <2>2. Here.receipt = NoOutput
    BY <1>I, <1>H, <2>1 DEF JobInv, WorkspaceIsVerified
  <2>3. /\ dir \in StageDirs /\ dir.artifact = Here.artifact /\ dir.record = Here.record
        /\ dir.receipt = NoOutput
    BY <1>H, <2>2 DEF StageDirs
  <2>4. Sound(dir) /\ Fits(dir.artifact) /\ Fits(dir.record)
    BY <1>H, <2>3 DEF Sound, Finished
  <2> QED
    BY <2>1, <2>3, <2>4, WriteJobInv
<1>6. CASE VerifyStage
  <2>1. /\ UNCHANGED <<runNumber, want, offered, tried, measuring, kept, workspace>>
        /\ progress = "marked" /\ progress' \in {"verified", "failed"}
    BY <1>6 DEF VerifyStage
  <2>2. progress' = "verified" => Accepted /\ (kept.run = runNumber => kept.steady)
    BY <1>6 DEF VerifyStage
  <2>3. progress' = "verified" => kept.steady /\ SameIdentity(kept, want)
    BY <1>I, <2>1, <2>2 DEF JobInv, KeptIsVerified, Accepted, Binds, SameIdentity
  <2>4. KeptIsVerified'
    BY <1>I, <2>1, <2>3 DEF JobInv, KeptIsVerified, Accepting, SameIdentity
  <2>5. WorkspaceIsVerified'
    BY <1>I, <2>1 DEF JobInv, WorkspaceIsVerified, Fits, Sound, Steady, Finished, SameIdentity
  <2>6. OfferedIsVerified'
    BY <1>I, <2>1 DEF JobInv, OfferedIsVerified, Sound, Steady, Finished
  <2> QED
    BY <2>4, <2>5, <2>6 DEF JobInv
<1>7. CASE CopyArtifact
  <2> DEFINE dir == [Here EXCEPT !.artifact = kept]
  <2>1. Write("verified", "copied", dir) /\ progress = "verified"
    BY <1>7 DEF CopyArtifact, Write
  <2>2. Here.receipt = NoOutput /\ Steady(kept) /\ Fits(kept)
    BY <1>I, <1>H, <2>1 DEF JobInv, WorkspaceIsVerified, KeptIsVerified, Accepting, Steady, Fits
  <2>3. /\ dir \in StageDirs /\ dir.artifact = kept /\ dir.record = Here.record
        /\ dir.receipt = NoOutput
    BY <1>H, <1>T, <2>2 DEF StageDirs, OfficialTypeOK
  <2>4. Sound(dir) /\ Fits(dir.artifact) /\ Fits(dir.record)
    BY <1>H, <2>2, <2>3 DEF Sound, Finished
  <2> QED
    BY <2>1, <2>3, <2>4, WriteJobInv DEF Accepting
<1>8. CASE WriteRunRecord
  <2> DEFINE dir == [Here EXCEPT !.record = kept]
  <2>1. Write("copied", "recorded", dir) /\ progress = "copied"
    BY <1>8 DEF WriteRunRecord, Write
  <2>2. Here.receipt = NoOutput /\ Here.artifact = kept /\ Steady(kept) /\ Fits(kept)
    BY <1>I, <1>H, <2>1 DEF JobInv, WorkspaceIsVerified, KeptIsVerified, Accepting, Steady, Fits
  <2>3. /\ dir \in StageDirs /\ dir.artifact = kept /\ dir.record = kept
        /\ dir.receipt = NoOutput
    BY <1>H, <1>T, <2>2 DEF StageDirs, OfficialTypeOK
  <2>4. Sound(dir) /\ Fits(dir.artifact) /\ Fits(dir.record)
    BY <1>H, <2>2, <2>3 DEF Sound, Finished
  <2> QED
    BY <2>1, <2>3, <2>4, WriteJobInv DEF Accepting
<1>9. CASE RemoveMarker
  <2> DEFINE dir == [Here EXCEPT !.marker = FALSE]
  <2>1. Write("recorded", "complete", dir) /\ progress = "recorded"
    BY <1>9 DEF RemoveMarker, Write
  <2>2. Here.receipt = NoOutput /\ Here.artifact = kept /\ Here.record = kept
    BY <1>I, <1>H, <2>1 DEF JobInv, WorkspaceIsVerified
  <2>3. /\ dir \in StageDirs /\ dir.artifact = Here.artifact /\ dir.record = Here.record
        /\ dir.receipt = NoOutput /\ ~dir.marker
    BY <1>H, <2>2 DEF StageDirs
  <2>4. Sound(dir) /\ Fits(dir.artifact) /\ Fits(dir.record)
    BY <1>H, <2>3 DEF Sound, Finished
  <2> QED
    BY <2>1, <2>2, <2>3, <2>4, WriteJobInv DEF Accepting
<1>10. CASE WriteStageReceipt
  <2> DEFINE dir == [Here EXCEPT !.receipt = Here.record]
  <2>1. Write("complete", "receipted", dir) /\ progress = "complete"
    BY <1>10 DEF WriteStageReceipt, Write
  <2>2. Here.artifact = kept /\ Here.record = kept /\ ~Here.marker
    BY <1>I, <1>H, <2>1 DEF JobInv, WorkspaceIsVerified
  <2>3. /\ dir \in StageDirs /\ dir.artifact = Here.artifact /\ dir.record = Here.record
        /\ dir.receipt = Here.record /\ dir.marker = Here.marker
    BY <1>H DEF StageDirs
  <2>4. Sound(dir) /\ Fits(dir.artifact) /\ Fits(dir.record)
    BY <1>H, <2>2, <2>3 DEF Sound, Finished
  <2> QED
    BY <2>1, <2>3, <2>4, WriteJobInv DEF Accepting
<1>11. CASE UploadStage
  <2>1. UNCHANGED <<runNumber, want, offered, workspace>> /\ progress = "receipted"
    BY <1>11 DEF UploadStage
  <2>2. CASE measuring = "plain"
    <3>1. progress' = "trying" /\ measuring' = "methods" /\ tried' = 0 /\ kept' = NoOutput
      BY <1>11, <2>2 DEF UploadStage
    <3>2. workspace["methods"] = EmptyDir
      BY <1>I, <2>2 DEF JobInv, WorkspaceIsVerified
    <3>3. WorkspaceIsVerified'
      BY <1>I, <2>1, <3>1, <3>2
         DEF JobInv, WorkspaceIsVerified, Fits, Sound, Steady, Finished, SameIdentity, EmptyDir
    <3>4. KeptIsVerified'
      BY <3>1 DEF KeptIsVerified, Accepting
    <3>5. offered["methods"] \in Seq(StageDirs)
      BY <1>T, <1>S DEF OfficialTypeOK
    <3>6. OfferedIsVerified'
      BY <1>I, <2>1, <3>1, <3>5 DEF JobInv, OfferedIsVerified, Sound, Steady, Finished
    <3> QED
      BY <3>3, <3>4, <3>6 DEF JobInv
  <2>3. CASE measuring # "plain"
    <3>1. progress' = "finished" /\ UNCHANGED <<measuring, tried, kept>>
      BY <1>11, <2>3 DEF UploadStage
    <3>2. KeptIsVerified'
      BY <1>I, <2>1, <3>1 DEF JobInv, KeptIsVerified, Accepting
    <3>3. WorkspaceIsVerified'
      BY <1>I, <2>1, <3>1 DEF JobInv, WorkspaceIsVerified, Fits, Sound, Steady, Finished, SameIdentity
    <3>4. OfferedIsVerified'
      BY <1>I, <2>1, <3>1 DEF JobInv, OfferedIsVerified, Sound, Steady, Finished
    <3> QED
      BY <3>2, <3>3, <3>4 DEF JobInv
  <2> QED
    BY <2>2, <2>3
<1>12. ASSUME UNCHANGED <<runNumber, want, offered, tried, measuring, kept, workspace>>,
              progress' \in {"failed", "viewing"}
       PROVE  JobInv'
  <2>1. KeptIsVerified'
    BY <1>I, <1>12 DEF JobInv, KeptIsVerified, Accepting
  <2>2. WorkspaceIsVerified'
    BY <1>I, <1>12 DEF JobInv, WorkspaceIsVerified, Fits, Sound, Steady, Finished, SameIdentity
  <2>3. OfferedIsVerified'
    BY <1>I, <1>12 DEF JobInv, OfferedIsVerified, Sound, Steady, Finished
  <2> QED
    BY <2>1, <2>2, <2>3 DEF JobInv
<1>13. CASE FailRun
  BY <1>12, <1>13 DEF FailRun
<1>14. CASE UploadFinal
  BY <1>12, <1>14, EndJobInv DEF UploadFinal
<1>15. CASE ViewOfRun \/ LoseRunner
  BY <1>15, EndJobInv DEF ViewOfRun, LoseRunner
<1>16. ASSUME UNCHANGED jobVars PROVE JobInv'
  BY <1>I, <1>16, JobInvStays
<1>17. ViewOfEarlierRun \/ PublishArchive \/ UNCHANGED officialVars => UNCHANGED jobVars
  BY DEF ViewOfEarlierRun, PublishArchive, officialVars, jobVars
<1>18. \A q, s : PackArchive(q) \/ RecordRun(q, s) => UNCHANGED jobVars
  BY DEF PackArchive, RecordRun
<1>19. \A p : RepinEvidence(p) \/ RepinEngine(p) => UNCHANGED jobVars
  BY DEF RepinEvidence, RepinEngine
<1> QED
  BY <1>1, <1>2, <1>3, <1>4, <1>5, <1>6, <1>7, <1>8, <1>9, <1>10, <1>11, <1>13, <1>14, <1>15,
     <1>16, <1>17, <1>18, <1>19 DEF OfficialNext, RunStep

(* What a run uploads is its directory, whatever state it is in.           *)
LEMMA UploadsKept == ASSUME OfficialInv, [OfficialNext]_officialVars PROVE UploadsAreVerified'
<1>T. OfficialTypeOK /\ JobIsPinned
  BY DEF OfficialInv
<1>1. CASE uploads' = uploads
  BY <1>1 DEF OfficialInv, UploadsAreVerified, FinalArtifacts, Sound, Steady, Finished, OneIdentity,
     ArtifactsIn, SameIdentity
<1>2. CASE UploadStage
  <2>1. runNumber \in WorkflowRuns /\ measuring \in Stages
    BY <1>2, <1>T DEF UploadStage, JobIsPinned, OfficialTypeOK
  <2>2. uploads' = [uploads EXCEPT ![runNumber].staged[measuring] = workspace[measuring]]
    BY <1>2 DEF UploadStage
  <2>3. Sound(workspace[measuring])
    BY <2>1 DEF OfficialInv, WorkspaceIsVerified
  <2>4. ASSUME NEW q \in WorkflowRuns
        PROVE  /\ \A s \in Stages : uploads'[q].staged[s] \in {uploads[q].staged[s], workspace[measuring]}
               /\ uploads'[q].final = uploads[q].final
    BY <1>T, <2>1, <2>2 DEF OfficialTypeOK, Upload
  <2>5. ASSUME NEW q \in WorkflowRuns PROVE FinalArtifacts(q)' = FinalArtifacts(q)
    BY <2>4 DEF FinalArtifacts
  <2> QED
    BY <2>3, <2>4, <2>5 DEF OfficialInv, UploadsAreVerified, Sound, Steady, Finished, OneIdentity,
       ArtifactsIn, SameIdentity
<1>3. CASE UploadFinal
  <2>1. runNumber \in WorkflowRuns
    BY <1>3, <1>T DEF UploadFinal, JobIsPinned
  <2>2. uploads' = [uploads EXCEPT ![runNumber].final = workspace]
    BY <1>3 DEF UploadFinal
  <2>3. ASSUME NEW q \in WorkflowRuns
        PROVE  /\ uploads'[q].staged = uploads[q].staged
               /\ uploads'[q].final = IF q = runNumber THEN workspace ELSE uploads[q].final
    BY <1>T, <2>1, <2>2 DEF OfficialTypeOK, Upload
  <2>4. \A s \in Stages : Sound(workspace[s]) /\ Fits(workspace[s].artifact)
    BY DEF OfficialInv, WorkspaceIsVerified
  <2>5. ASSUME NEW q \in WorkflowRuns PROVE OneIdentity(FinalArtifacts(q)')
    <3>1. CASE q = runNumber
      <4>1. FinalArtifacts(q)' = [s \in Stages |-> workspace[s].artifact]
        BY <2>3, <3>1 DEF FinalArtifacts
      <4>2. \A a \in ArtifactsIn(FinalArtifacts(q)') : SameIdentity(a, want)
        BY <4>1, <2>4 DEF ArtifactsIn, Fits
      <4> QED
        BY <4>2 DEF OneIdentity, SameIdentity
    <3>2. CASE q # runNumber
      <4>1. FinalArtifacts(q)' = FinalArtifacts(q)
        BY <2>3, <3>2 DEF FinalArtifacts
      <4> QED
        BY <4>1 DEF OfficialInv, UploadsAreVerified
    <3> QED
      BY <3>1, <3>2
  <2>6. ASSUME NEW q \in WorkflowRuns, NEW s \in Stages
        PROVE  Sound(uploads'[q].staged[s]) /\ Sound(uploads'[q].final[s])
    BY <2>3, <2>4 DEF OfficialInv, UploadsAreVerified
  <2>7. \A q \in WorkflowRuns : OneIdentity(FinalArtifacts(q))'
    BY <2>5 DEF OneIdentity, ArtifactsIn, SameIdentity
  <2> QED
    BY <2>6, <2>7 DEF UploadsAreVerified, Sound, Steady, Finished
<1>4. uploads' = uploads \/ UploadStage \/ UploadFinal
  BY DEF OfficialNext, RunStep, DispatchRun, RejectSource, ReuseStage, MeasureStage, MarkIncomplete,
     VerifyStage, CopyArtifact, WriteRunRecord, RemoveMarker, WriteStageReceipt, Write, FailRun,
     ViewOfRun, LoseRunner, ViewOfEarlierRun, PublishArchive, PackArchive, RecordRun,
     RepinEvidence, RepinEngine, officialVars
<1> QED
  BY <1>1, <1>2, <1>3, <1>4

(* The artifacts of a run as a pair of verified artifacts of one identity. *)
LEMMA FinalIsVerified ==
    ASSUME OfficialInv, NEW q \in WorkflowRuns
    PROVE  /\ \A s \in Stages : Steady(FinalArtifacts(q)[s]) /\ Steady(uploads[q].final[s].record)
           /\ OneIdentity(FinalArtifacts(q))
  BY DEF OfficialInv, UploadsAreVerified, FinalArtifacts, Sound

(* What is recorded, archived and shown comes from what runs uploaded.     *)
LEMMA RegistryKept == ASSUME OfficialInv, [OfficialNext]_officialVars PROVE RegistryIsVerified'
<1>T. OfficialTypeOK /\ JobIsPinned /\ RegistryIsVerified
  BY DEF OfficialInv
<1>R. 1..runNumber \subseteq WorkflowRuns
  BY <1>T, OfficialAssumption DEF OfficialTypeOK, WorkflowRuns
<1>P. ASSUME NEW q, q \in WorkflowRuns, NEW pair, pair = FinalArtifacts(q)
      PROVE  (\A s \in Stages : Steady(pair[s])) /\ OneIdentity(pair)
  BY <1>P, FinalIsVerified
<1>V. ASSUME NEW q \in WorkflowRuns, NEW w, BuildView(q, w), UNCHANGED registryVars
      PROVE  RegistryIsVerified'
  <2>1. view' = FinalArtifacts(q)
    BY <1>V DEF BuildView
  <2>2. (\A s \in Stages : Steady(view'[s])) /\ OneIdentity(view')
    BY <1>P, <2>1
  <2> QED
    BY <1>T, <1>V, <2>2 DEF RegistryIsVerified, registryVars, Steady, OneIdentity, ArtifactsIn, SameIdentity
<1>1. CASE UNCHANGED <<registryVars, view>>
  BY <1>T, <1>1 DEF RegistryIsVerified, registryVars, Steady, OneIdentity, ArtifactsIn, SameIdentity
<1>2. CASE ViewOfRun
  <2>1. runNumber \in WorkflowRuns
    BY <1>2, <1>T DEF ViewOfRun, JobIsPinned
  <2> QED
    BY <1>2, <1>V, <2>1 DEF ViewOfRun
<1>3. CASE ViewOfEarlierRun
  BY <1>3, <1>V, <1>R DEF ViewOfEarlierRun
<1>4. CASE PublishArchive
  BY <1>4, <1>T DEF PublishArchive, RegistryIsVerified, registryVars, Steady, OneIdentity, ArtifactsIn, SameIdentity
<1>5. ASSUME NEW q \in 1..runNumber, PackArchive(q) PROVE RegistryIsVerified'
  <2>1. archive' = FinalArtifacts(q) /\ UNCHANGED <<recordedRuns, historicalRuns, view>>
    BY <1>5 DEF PackArchive
  <2>2. (\A s \in Stages : Steady(archive'[s])) /\ OneIdentity(archive')
    BY <1>P, <1>R, <2>1
  <2> QED
    BY <1>T, <2>1, <2>2 DEF RegistryIsVerified, Steady, OneIdentity, ArtifactsIn, SameIdentity
<1>6. ASSUME NEW q \in 1..runNumber, NEW s \in Stages, RecordRun(q, s) PROVE RegistryIsVerified'
  <2>1. /\ recordedRuns' = [recordedRuns EXCEPT ![s] = uploads[q].final[s].record]
        /\ UNCHANGED <<historicalRuns, archive, view>>
    BY <1>6 DEF RecordRun
  <2>2. Steady(uploads[q].final[s].record)
    BY <1>R, FinalIsVerified
  <2>3. \A t \in Stages : Steady(recordedRuns'[t])
    BY <1>T, <2>1, <2>2 DEF OfficialTypeOK, RegistryIsVerified
  <2> QED
    BY <1>T, <2>1, <2>3 DEF RegistryIsVerified, Steady, OneIdentity, ArtifactsIn, SameIdentity
<1>7. ASSUME NEW e \in EvidencePins, RepinEvidence(e) PROVE RegistryIsVerified'
  <2>1. \A a \in Recorded : a.steady
    BY <1>T DEF Recorded, RegistryIsVerified, Steady
  <2> QED
    BY <1>T, <1>7, <2>1 DEF RepinEvidence, RegistryIsVerified, NoArtifacts, Steady, OneIdentity,
       ArtifactsIn, SameIdentity
<1>8. ASSUME NEW g \in EnginePins, RepinEngine(g) PROVE RegistryIsVerified'
  BY <1>T, <1>8 DEF RepinEngine, RegistryIsVerified, NoArtifacts, Steady, OneIdentity,
     ArtifactsIn, SameIdentity
<1>9. \/ UNCHANGED <<registryVars, view>> \/ ViewOfRun \/ ViewOfEarlierRun \/ PublishArchive
      \/ \E q \in 1..runNumber : PackArchive(q) \/ \E s \in Stages : RecordRun(q, s)
      \/ \E e \in EvidencePins : RepinEvidence(e)
      \/ \E g \in EnginePins : RepinEngine(g)
  BY DEF OfficialNext, RunStep, DispatchRun, RejectSource, ReuseStage, MeasureStage, MarkIncomplete,
     VerifyStage, CopyArtifact, WriteRunRecord, RemoveMarker, WriteStageReceipt, Write, UploadStage,
     UploadFinal, FailRun, LoseRunner, officialVars, registryVars
<1> QED
  BY <1>1, <1>2, <1>3, <1>4, <1>5, <1>6, <1>7, <1>8, <1>9

LEMMA OfficialInvKept == OfficialInv /\ [OfficialNext]_officialVars => OfficialInv'
  BY OfficialTypesKept, JobInvKept, UploadsKept, RegistryKept DEF OfficialInv, JobInv

LEMMA OfficialInvHolds == OfficialSpec => []OfficialInv
  BY OfficialInvStarts, OfficialInvKept, PTL DEF OfficialSpec

(* However many runs are retried, fail or lose their runner, and however   *)
(* often the pins move, what carries the name of an artifact and what is   *)
(* recorded, archived or shown was measured twice with one result, and no  *)
(* run, archive or view has stages of two identities.                      *)
THEOREM OfficialSoundness == OfficialSpec => []OfficialRunsAreSound
<1>1. OfficialInv => OfficialRunsAreSound
  <2> SUFFICES ASSUME OfficialInv PROVE VerifiedOnly /\ NeverMixed
    BY DEF OfficialRunsAreSound
  <2>1. ASSUME NEW dirs, \A s \in Stages : Sound(dirs[s]), NEW a \in ArtifactsOf(dirs)
        PROVE  Verified(a)
    BY <2>1 DEF ArtifactsOf, Sound, Steady, Verified
  <2>2. ASSUME NEW pair, \A s \in Stages : Steady(pair[s]), NEW a \in ArtifactsIn(pair)
        PROVE  Verified(a)
    BY <2>2 DEF ArtifactsIn, Steady, Verified
  <2>3. \A a \in ArtifactsOf(workspace) : Verified(a)
    BY <2>1 DEF OfficialInv, WorkspaceIsVerified
  <2>4. \A q \in WorkflowRuns : \A a \in ArtifactsOf(uploads[q].staged)
                                           \cup ArtifactsOf(uploads[q].final) : Verified(a)
    BY <2>1 DEF OfficialInv, UploadsAreVerified
  <2>5. Recorded = ArtifactsIn(recordedRuns)
    BY DEF Recorded, ArtifactsIn
  <2>6. \A a \in Recorded \cup historicalRuns \cup ArtifactsIn(archive) \cup ArtifactsIn(view) : Verified(a)
    BY <2>2, <2>5 DEF OfficialInv, RegistryIsVerified, Verified
  <2>7. NeverMixed
    BY DEF OfficialInv, RegistryIsVerified, UploadsAreVerified, NeverMixed
  <2> QED
    BY <2>3, <2>4, <2>6, <2>7 DEF VerifiedOnly
<1> QED
  BY <1>1, OfficialInvHolds, PTL

(* A stage is measured only when every directory that was offered was      *)
(* tried, and a finished stage of what the run measures is never refused.  *)
THEOREM FinishedOnce == OfficialSpec => FinishedIsNotRepeated
<1>1. OfficialInv /\ [OfficialNext]_officialVars
        => \A i \in DOMAIN offered[measuring] :
              /\ kept = NoOutput /\ kept' # NoOutput
              /\ HasFinished(offered[measuring][i], measuring)
              => Offers(kept')
  <2> SUFFICES ASSUME OfficialInv, [OfficialNext]_officialVars,
                      kept = NoOutput, kept' # NoOutput,
                      NEW i \in DOMAIN offered[measuring],
                      HasFinished(offered[measuring][i], measuring)
               PROVE  Offers(kept')
    OBVIOUS
  <2>T. /\ measuring \in Stages /\ offered \in [Stages -> Seq(StageDirs)] /\ tried \in Nat
        /\ i \in 1..Len(offered[measuring])
    BY DEF OfficialInv, OfficialTypeOK
  <2>1. MeasureStage \/ ReuseStage
    BY DEF OfficialNext, RunStep, DispatchRun, RejectSource, MarkIncomplete, VerifyStage,
       CopyArtifact, WriteRunRecord, RemoveMarker, WriteStageReceipt, Write, UploadStage,
       UploadFinal, EndJob, FailRun, ViewOfRun, LoseRunner, ViewOfEarlierRun, PublishArchive,
       PackArchive, RecordRun, RepinEvidence, RepinEngine, officialVars, jobVars
  <2>2. CASE MeasureStage
    <3>1. progress = "trying" /\ i <= tried
      BY <2>T, <2>2 DEF MeasureStage, Untried
    <3>2. ~Usable(offered[measuring][i], measuring)
      BY <3>1 DEF OfficialInv, OfferedIsVerified
    <3>3. offered[measuring][i] \in StageDirs /\ Sound(offered[measuring][i])
      BY <2>T DEF OfficialInv, OfferedIsVerified
    <3> QED
      BY <2>T, <3>2, <3>3, FinishedIsUsable
  <2>3. CASE ReuseStage
    <3>1. tried + 1 \in DOMAIN offered[measuring] /\ kept' = offered[measuring][tried + 1].artifact
      BY <2>T, <2>3 DEF ReuseStage, Untried
    <3> QED
      BY <3>1 DEF Offers
  <2> QED
    BY <2>1, <2>2, <2>3
<1> QED
  BY <1>1, OfficialInvHolds, PTL DEF OfficialSpec, FinishedIsNotRepeated

-----------------------------------------------------------------------------
(* One evaluation.  What makes the findings it keeps those of all replays  *)
(* is that observation i is scanner i's until the reused ones are added,   *)
(* so that no replay changes what an observation was made of.              *)

(* What a scanner has replayed when the evaluation is at it, and before.   *)
ReplaysOfOne ==
    /\ \A s \in Scanner :
          s > scanner \/ (s = scanner /\ at \in {"prepare", "write", "version"})
              => replayed[s] = << >>
    /\ at = "scan" => scanner \in Scanner /\ Len(replayed[scanner]) < Replays
    /\ at = "compare" => scanner \in Scanner /\ Len(replayed[scanner]) = Replays

(* Until the reused ones are added, observation i is scanner i's.          *)
ObservedInOrder ==
    at \in {"prepare", "write", "version", "scan", "compare"} =>
        /\ Len(observed) = scanner - 1
        /\ \A i \in 1..scanner - 1 : observed[i].by = i

Authors == [i \in DOMAIN observed |-> observed[i].by]
Everybody == [s \in Scanner |-> s] \o Peers

(* From there on everybody is in, unless the evaluation was thrown.        *)
EverybodyObserved ==
    /\ at = "capture" \/ (at \in {"clean", "over"} /\ outcome = "returned")
          => Authors = Everybody
    /\ at = "over" /\ outcome = "returned" => ~scratchTree

RuntimeInv ==
    /\ RuntimeTypeOK
    /\ KeptIsReplayed
    /\ ReplaysOfOne
    /\ ObservedInOrder
    /\ EverybodyObserved

(* Before anything ran there is nothing to keep.                           *)
LEMMA InitialEvaluation == RuntimeInit => RuntimeInv
<1> SUFFICES ASSUME RuntimeInit PROVE RuntimeInv
  OBVIOUS
<1> USE RuntimeAssumption DEF RuntimeInit
<1>1. RuntimeTypeOK
  <2>1. << >> \in Seq(Found) /\ << >> \in Seq([by : Nat, status : Statuses, findings : Found])
    OBVIOUS
  <2>2. scanner \in 1..LastScanner + 1
    OBVIOUS
  <2>3. replayed \in [Scanner -> Seq(Found)]
    BY <2>1
  <2> QED
    BY <2>1, <2>2, <2>3 DEF RuntimeTypeOK
<1>2. KeptIsReplayed
  BY DEF KeptIsReplayed
<1>3. ReplaysOfOne /\ ObservedInOrder /\ EverybodyObserved
  BY DEF ReplaysOfOne, ObservedInOrder, EverybodyObserved, Scanner
<1> QED
  BY <1>1, <1>2, <1>3 DEF RuntimeInv

(* Appending the observation of the scanner the evaluation is at.          *)
LEMMA ObservingOne ==
    ASSUME RuntimeInv, NEW status \in Statuses, NEW findings \in Found,
           at \in {"version", "scan", "compare"}, scanner \in Scanner,
           Observe(status, findings),
           UNCHANGED <<replayed, scratchTree, outcome>>,
           status = "complete" =>
               /\ Len(replayed[scanner]) = Replays
               /\ findings = replayed[scanner][1]
               /\ \A j \in 1..Replays : Reports(replayed[scanner][j]) = Reports(findings),
           status # "complete" => findings = None
    PROVE  RuntimeInv'
<1> DEFINE one == [by |-> scanner, status |-> status, findings |-> findings]
<1> USE RuntimeAssumption
<1>1. /\ observed' = Append(observed, one) /\ scanner' = scanner + 1
      /\ at' = "version" /\ replayed' = replayed
      /\ scratchTree' = scratchTree /\ outcome' = outcome
  BY DEF Observe
<1>2. one \in [by : Nat, status : Statuses, findings : Found]
  BY DEF Scanner
<1>3. RuntimeTypeOK'
  BY <1>1, <1>2 DEF RuntimeInv, RuntimeTypeOK, Scanner
<1>4. /\ Len(observed') = Len(observed) + 1
      /\ \A i \in 1..Len(observed) : observed'[i] = observed[i]
      /\ observed'[Len(observed) + 1] = one
  BY <1>1, <1>2 DEF RuntimeInv, RuntimeTypeOK
<1>5. DOMAIN observed = 1..Len(observed) /\ DOMAIN observed' = 1..Len(observed')
      /\ Len(observed) \in Nat
  BY <1>3 DEF RuntimeInv, RuntimeTypeOK
<1>6. KeptIsReplayed'
  <2>1. SUFFICES ASSUME NEW i \in DOMAIN observed'
                 PROVE  IF observed'[i].status = "complete"
                        THEN /\ Len(replayed[observed'[i].by]) = Replays
                             /\ observed'[i].findings = replayed[observed'[i].by][1]
                             /\ \A j \in 1..Replays :
                                   Reports(replayed[observed'[i].by][j])
                                       = Reports(observed'[i].findings)
                        ELSE observed'[i].findings = None
    <3>1. replayed' = replayed
      BY <1>1
    <3> QED
      BY <3>1 DEF KeptIsReplayed, Reports, None
  <2>2. CASE i \in DOMAIN observed
    <3>1. observed'[i] = observed[i]
      BY <2>2, <1>4, <1>5
    <3> QED
      BY <2>2, <3>1 DEF RuntimeInv, KeptIsReplayed
  <2>3. CASE i = Len(observed) + 1
    BY <2>3, <1>4
  <2> QED
    BY <2>1, <2>2, <2>3, <1>4, <1>5
<1>7. ReplaysOfOne'
  BY <1>1 DEF RuntimeInv, RuntimeTypeOK, ReplaysOfOne, Scanner
<1>8. ObservedInOrder'
  <2>1. scanner \in 1..LastScanner /\ Len(observed) = scanner - 1
        /\ \A i \in 1..scanner - 1 : observed[i].by = i
    BY DEF RuntimeInv, ObservedInOrder, Scanner
  <2>2. Len(observed') = scanner' - 1
    BY <2>1, <1>1, <1>4
  <2>3. ASSUME NEW i \in 1..scanner' - 1 PROVE observed'[i].by = i
    <3>1. CASE i \in 1..scanner - 1
      BY <3>1, <2>1, <1>4
    <3>2. CASE i = scanner
      BY <3>2, <2>1, <1>4
    <3> QED
      BY <3>1, <3>2, <2>1, <1>1
  <2> QED
    BY <2>2, <2>3 DEF ObservedInOrder
<1>9. EverybodyObserved'
  BY <1>1 DEF EverybodyObserved
<1> QED
  BY <1>3, <1>6, <1>7, <1>8, <1>9 DEF RuntimeInv

(* Steps that change neither observations nor replays.                     *)
LEMMA KeptStays ==
    ASSUME KeptIsReplayed, UNCHANGED <<observed, replayed>> PROVE KeptIsReplayed'
BY DEF KeptIsReplayed, Reports, None

(* Nothing is observed while the tree is made, an observation captured or   *)
(* the tree removed, and when the process dies.                             *)
LEMMA EvaluationPreparing ==
    ASSUME RuntimeInv,
           Prepare \/ WriteInputs \/ AskVersion \/ CaptureObservations \/ RemoveScratch
             \/ RuntimeDies \/ UNCHANGED runtimeVars
    PROVE  RuntimeInv'
<1> USE RuntimeAssumption DEF RuntimeInv
<1>1. UNCHANGED <<observed, replayed, scanner>>
  BY DEF Prepare, WriteInputs, AskVersion, CaptureObservations, RemoveScratch, RuntimeDies, runtimeVars
<1>2. KeptIsReplayed' /\ Authors' = Authors
  BY <1>1, KeptStays DEF Authors
<1>3. RuntimeTypeOK'
  BY <1>1 DEF RuntimeTypeOK, Prepare, WriteInputs, AskVersion, CaptureObservations, RemoveScratch, RuntimeDies, runtimeVars
<1>4. ReplaysOfOne'
  BY <1>1 DEF RuntimeTypeOK, ReplaysOfOne, Scanner, Prepare, WriteInputs, AskVersion, CaptureObservations, RemoveScratch, RuntimeDies, runtimeVars
<1>5. ObservedInOrder'
  BY <1>1 DEF ObservedInOrder, Prepare, WriteInputs, AskVersion, CaptureObservations, RemoveScratch, RuntimeDies, runtimeVars
<1>6. EverybodyObserved'
  <2>1. Everybody' = Everybody
    BY DEF Everybody, Scanner
  <2>2. CASE Prepare \/ WriteInputs \/ AskVersion \/ RuntimeDies
    BY <2>2 DEF EverybodyObserved, Prepare, WriteInputs, AskVersion, RuntimeDies
  <2>3. CASE CaptureObservations \/ RemoveScratch
    BY <2>1, <2>3, <1>2 DEF EverybodyObserved, CaptureObservations, RemoveScratch
  <2>4. CASE UNCHANGED runtimeVars
    BY <2>1, <2>4, <1>2 DEF EverybodyObserved, runtimeVars
  <2> QED
    BY <2>2, <2>3, <2>4
<1> QED
  BY <1>2, <1>3, <1>4, <1>5, <1>6

(* A replay changes only what its own scanner returned, of which nothing is *)
(* observed yet.                                                           *)
LEMMA EvaluationReplaying ==
    ASSUME RuntimeInv, Replay PROVE RuntimeInv'
<1> USE RuntimeAssumption DEF RuntimeInv
<1>1. PICK found \in Found :
          replayed' = [replayed EXCEPT ![scanner] = Append(@, found)]
  BY DEF Replay
<1>2. /\ at = "scan" /\ scanner \in Scanner
      /\ at' = IF Len(replayed[scanner]) + 1 = Replays THEN "compare" ELSE "scan"
      /\ UNCHANGED <<scanner, observed, scratchTree, outcome>>
  BY DEF Replay, ReplaysOfOne
<1>3. replayed[scanner] \in Seq(Found)
  BY <1>2 DEF RuntimeTypeOK
<1>4. /\ Append(replayed[scanner], found) \in Seq(Found)
      /\ Len(Append(replayed[scanner], found)) = Len(replayed[scanner]) + 1
      /\ Len(replayed[scanner]) \in Nat
  BY <1>3
<1>5. RuntimeTypeOK'
  BY <1>1, <1>2, <1>4 DEF RuntimeTypeOK
<1>6. ReplaysOfOne'
  <2>1. replayed'[scanner] = Append(replayed[scanner], found)
    BY <1>1, <1>2 DEF RuntimeTypeOK
  <2>2. \A s \in Scanner : s > scanner => replayed'[s] = << >>
    BY <1>1, <1>2 DEF RuntimeTypeOK, ReplaysOfOne, Scanner
  <2> QED
    <3>1. /\ at' = "scan" => scanner' \in Scanner /\ Len(replayed'[scanner']) < Replays
          /\ at' = "compare" => scanner' \in Scanner /\ Len(replayed'[scanner']) = Replays
      <4>1. Len(replayed[scanner]) < Replays
        BY <1>2 DEF ReplaysOfOne
      <4>2. scanner' = scanner /\ Len(replayed'[scanner]) = Len(replayed[scanner]) + 1
        BY <1>2, <1>4, <2>1
      <4> QED
        BY <4>1, <4>2, <1>2, <1>4
    <3>2. at' \notin {"prepare", "write", "version"} /\ scanner' = scanner
      BY <1>2
    <3> QED
      BY <3>1, <3>2, <2>2 DEF ReplaysOfOne, Scanner
<1>7. ObservedInOrder' /\ EverybodyObserved'
  BY <1>2 DEF ObservedInOrder, EverybodyObserved, Authors
<1>8. KeptIsReplayed'
  <2>1. \A i \in DOMAIN observed : observed[i].by # scanner
    BY <1>2 DEF ObservedInOrder, RuntimeTypeOK, Scanner
  <2>2. \A i \in DOMAIN observed : replayed'[observed[i].by] = replayed[observed[i].by]
    BY <2>1, <1>1 DEF RuntimeTypeOK
  <2> QED
    BY <2>2, <1>2 DEF KeptIsReplayed, Reports, None
<1> QED
  BY <1>5, <1>6, <1>7, <1>8

(* A scanner that is skipped, fails or is compared gets one observation.    *)
LEMMA EvaluationObserving ==
    ASSUME RuntimeInv, SkipUnranged \/ ScannerFails \/ CompareReplays PROVE RuntimeInv'
<1> USE RuntimeAssumption
<1>1. None \in Found
  BY DEF None, Found
<1>2. CASE SkipUnranged
  BY <1>1, <1>2, ObservingOne DEF SkipUnranged, Statuses, Scanner
<1>3. CASE ScannerFails
  <2>1. PICK status \in {"unavailable", "error"} : Observe(status, None)
    BY <1>3 DEF ScannerFails
  <2> QED
    BY <1>1, <1>3, <2>1, ObservingOne DEF ScannerFails, Statuses
<1>4. CASE CompareReplays
  <2>1. at = "compare" /\ scanner \in Scanner /\ Len(replayed[scanner]) = Replays
        /\ UNCHANGED <<replayed, scratchTree, outcome>>
    BY <1>4 DEF CompareReplays, RuntimeInv, ReplaysOfOne
  <2>2. CASE Agree(replayed[scanner])
    <3>1. replayed[scanner] \in Seq(Found)
      BY <2>1 DEF RuntimeInv, RuntimeTypeOK
    <3>2. replayed[scanner][1] \in Found
      BY <2>1, <3>1
    <3>3. \A j \in 1..Replays : Reports(replayed[scanner][j]) = Reports(replayed[scanner][1])
      BY <2>1, <2>2 DEF Agree
    <3>4. Observe("complete", replayed[scanner][1])
      BY <1>4, <2>2 DEF CompareReplays
    <3> QED
      BY <2>1, <3>2, <3>3, <3>4, ObservingOne DEF Statuses
  <2>3. CASE ~Agree(replayed[scanner])
    <3>1. Observe("unstable", None)
      BY <1>4, <2>3 DEF CompareReplays
    <3> QED
      BY <1>1, <2>1, <3>1, ObservingOne DEF Statuses
  <2> QED
    BY <2>2, <2>3
<1> QED
  BY <1>2, <1>3, <1>4

(* A function on 1..n is a sequence of length n.                            *)
LEMMA Built ==
    ASSUME NEW S, NEW n \in Nat, NEW f \in [1..n -> S] PROVE f \in Seq(S) /\ Len(f) = n
OBVIOUS

(* What a concatenation has at each place.                                  *)
LEMMA Joined ==
    ASSUME NEW S, NEW a \in Seq(S), NEW b \in Seq(S)
    PROVE  /\ a \o b \in Seq(S)
           /\ Len(a \o b) = Len(a) + Len(b)
           /\ \A i \in 1..Len(a) + Len(b) :
                 (a \o b)[i] = IF i <= Len(a) THEN a[i] ELSE b[i - Len(a)]
OBVIOUS

(* The reused observations follow those of the scanners.                    *)
LEMMA EvaluationReusing ==
    ASSUME RuntimeInv, AddReused PROVE RuntimeInv'
<1> DEFINE reused == [i \in DOMAIN Peers |->
                         [by |-> Peers[i], status |-> "reused", findings |-> None]]
<1> USE RuntimeAssumption
<1>1. /\ observed' = observed \o reused /\ at = "version" /\ at' = "capture"
      /\ scanner = LastScanner + 1
      /\ UNCHANGED <<scanner, replayed, scratchTree, outcome>>
  BY DEF AddReused
<1>2. reused \in Seq([by : Nat, status : Statuses, findings : Found]) /\ Len(reused) = Len(Peers)
  <2>1. None \in Found
    BY DEF None, Found
  <2>2. \A i \in 1..Len(Peers) :
           [by |-> Peers[i], status |-> "reused", findings |-> None]
               \in [by : Nat, status : Statuses, findings : Found]
    BY <2>1 DEF Statuses
  <2>3. DOMAIN Peers = 1..Len(Peers) /\ Len(Peers) \in Nat
    OBVIOUS
  <2>4. reused \in [1..Len(Peers) -> [by : Nat, status : Statuses, findings : Found]]
    BY <2>2, <2>3
  <2> HIDE DEF reused
  <2> QED
    BY <2>3, <2>4, Built
<1>11. \A i \in 1..Len(Peers) :
         reused[i] = [by |-> Peers[i], status |-> "reused", findings |-> None]
  OBVIOUS
<1> HIDE DEF reused
<1>3. observed \in Seq([by : Nat, status : Statuses, findings : Found])
  BY DEF RuntimeInv, RuntimeTypeOK
<1>4. Len(observed) = LastScanner /\ \A i \in 1..LastScanner : observed[i].by = i
  BY <1>1 DEF RuntimeInv, ObservedInOrder
<1>5. /\ observed' \in Seq([by : Nat, status : Statuses, findings : Found])
      /\ Len(observed') = LastScanner + Len(Peers)
      /\ \A i \in 1..LastScanner : observed'[i] = observed[i]
      /\ \A i \in LastScanner + 1 .. LastScanner + Len(Peers) :
            observed'[i] = [by |-> Peers[i - LastScanner], status |-> "reused", findings |-> None]
  <2>1. /\ observed \o reused \in Seq([by : Nat, status : Statuses, findings : Found])
        /\ Len(observed \o reused) = Len(observed) + Len(reused)
        /\ \A i \in 1..Len(observed) + Len(reused) :
              (observed \o reused)[i] =
                  IF i <= Len(observed) THEN observed[i] ELSE reused[i - Len(observed)]
    BY <1>2, <1>3, Joined
  <2>2. \A i \in LastScanner + 1 .. LastScanner + Len(Peers) :
            i - LastScanner \in 1..Len(Peers) /\ ~(i <= LastScanner)
    OBVIOUS
  <2> QED
    <3>1. Len(observed') = LastScanner + Len(Peers)
      BY <1>1, <1>2, <1>4, <2>1
    <3>2. ASSUME NEW i \in 1..LastScanner PROVE observed'[i] = observed[i]
      BY <1>1, <1>2, <1>4, <2>1
    <3>3. ASSUME NEW i \in LastScanner + 1 .. LastScanner + Len(Peers)
          PROVE  observed'[i] = [by |-> Peers[i - LastScanner], status |-> "reused", findings |-> None]
      <4>1. observed'[i] = reused[i - LastScanner]
        BY <1>1, <1>2, <1>4, <2>1, <2>2
      <4> QED
        BY <4>1, <1>11, <2>2
    <3> QED
      BY <1>1, <2>1, <3>1, <3>2, <3>3
<1>6. RuntimeTypeOK'
  BY <1>1, <1>5 DEF RuntimeInv, RuntimeTypeOK
<1>7. KeptIsReplayed'
  <2>1. SUFFICES ASSUME NEW i \in 1..LastScanner + Len(Peers)
                 PROVE  IF observed'[i].status = "complete"
                        THEN /\ Len(replayed[observed'[i].by]) = Replays
                             /\ observed'[i].findings = replayed[observed'[i].by][1]
                             /\ \A j \in 1..Replays :
                                   Reports(replayed[observed'[i].by][j])
                                       = Reports(observed'[i].findings)
                        ELSE observed'[i].findings = None
    <3>1. replayed' = replayed /\ DOMAIN observed' = 1..LastScanner + Len(Peers)
      BY <1>1, <1>5
    <3> QED
      BY <3>1 DEF KeptIsReplayed, Reports, None
  <2>2. CASE i \in 1..LastScanner
    <3>1. i \in DOMAIN observed /\ observed'[i] = observed[i]
      BY <2>2, <1>3, <1>4, <1>5
    <3> QED
      BY <3>1 DEF RuntimeInv, KeptIsReplayed
  <2>3. CASE i \in LastScanner + 1 .. LastScanner + Len(Peers)
    <3>1. observed'[i] = [by |-> Peers[i - LastScanner], status |-> "reused", findings |-> None]
      BY <2>3, <1>5
    <3> QED
      BY <3>1
  <2> QED
    BY <2>2, <2>3
<1>8. ReplaysOfOne' /\ ObservedInOrder'
  BY <1>1 DEF RuntimeInv, ReplaysOfOne, ObservedInOrder, Scanner
<1>9. Authors' = Everybody
  <2>1. Authors' = [i \in 1..LastScanner + Len(Peers) |-> observed'[i].by]
    BY <1>5 DEF Authors
  <2>2. Everybody = [i \in 1..LastScanner + Len(Peers) |->
                        IF i <= LastScanner THEN i ELSE Peers[i - LastScanner]]
    <3> DEFINE own == [s \in Scanner |-> s]
    <3>1. /\ own \in Seq(Nat) /\ Len(own) = LastScanner
          /\ \A s \in 1..LastScanner : own[s] = s
      <4>1. own \in [1..LastScanner -> Nat] /\ \A s \in 1..LastScanner : own[s] = s
        BY DEF Scanner
      <4> HIDE DEF own
      <4> QED
        BY <4>1, Built
    <3>2. Everybody = own \o Peers
      BY DEF Everybody
    <3> HIDE DEF own
    <3>3. /\ own \o Peers \in Seq(Nat)
          /\ Len(own \o Peers) = LastScanner + Len(Peers)
          /\ \A i \in 1..LastScanner + Len(Peers) :
                (own \o Peers)[i] = IF i <= LastScanner THEN own[i] ELSE Peers[i - LastScanner]
      <4>1. /\ own \o Peers \in Seq(Nat)
            /\ Len(own \o Peers) = Len(own) + Len(Peers)
            /\ \A i \in 1..Len(own) + Len(Peers) :
                  (own \o Peers)[i] = IF i <= Len(own) THEN own[i] ELSE Peers[i - Len(own)]
        <5>1. own \in Seq(Nat) /\ Peers \in Seq(Nat)
          BY <3>1
        <5> QED
          BY <5>1, Joined
      <4> QED
        BY <3>1, <4>1
    <3> QED
      <4>1. \A i \in 1..LastScanner + Len(Peers) :
               Everybody[i] = IF i <= LastScanner THEN i ELSE Peers[i - LastScanner]
        BY <3>1, <3>2, <3>3
      <4>2. Everybody \in Seq(Nat) /\ DOMAIN Everybody = 1..LastScanner + Len(Peers)
        BY <3>2, <3>3
      <4>3. Everybody = [i \in 1..LastScanner + Len(Peers) |-> Everybody[i]]
        BY <4>2
      <4> QED
        BY <4>1, <4>3
  <2>3. \A i \in 1..LastScanner + Len(Peers) :
            observed'[i].by = IF i <= LastScanner THEN i ELSE Peers[i - LastScanner]
    <3>1. ASSUME NEW i \in 1..LastScanner PROVE observed'[i].by = i
      BY <1>4, <1>5
    <3>2. ASSUME NEW i \in LastScanner + 1 .. LastScanner + Len(Peers)
          PROVE  observed'[i].by = Peers[i - LastScanner] /\ ~(i <= LastScanner)
      <4>1. observed'[i] = [by |-> Peers[i - LastScanner], status |-> "reused", findings |-> None]
        BY <1>5
      <4> QED
        BY <4>1
    <3> QED
      BY <3>1, <3>2
  <2> QED
    BY <2>1, <2>2, <2>3
<1>10. EverybodyObserved'
  BY <1>1, <1>9 DEF EverybodyObserved, Everybody
<1> QED
  BY <1>6, <1>7, <1>8, <1>10 DEF RuntimeInv

(* Every step keeps the invariant.                                         *)
LEMMA EvaluationKept == RuntimeInv /\ [RuntimeNext]_runtimeVars => RuntimeInv'
BY EvaluationPreparing, EvaluationReplaying, EvaluationObserving, EvaluationReusing
   DEF RuntimeNext

(* The observations, replays and the tree keep their types.                *)
THEOREM EvaluationTypes == RuntimeSpec => []RuntimeTypeOK
<1>1. RuntimeInv => RuntimeTypeOK
  BY DEF RuntimeInv
<1> QED
  BY <1>1, InitialEvaluation, EvaluationKept, PTL DEF RuntimeSpec

(* For any scanners and any number of replays, an evaluation that returns  *)
(* speaks of everybody and keeps the findings of the stable ones only.     *)
THEOREM EvaluationIsHonest == RuntimeSpec => []RuntimeIsHonest
<1>1. RuntimeInv => RuntimeIsHonest
  BY DEF RuntimeInv, RuntimeIsHonest, NobodyIsLost, EverybodyObserved, Authors, Everybody
<1> QED
  BY <1>1, InitialEvaluation, EvaluationKept, PTL DEF RuntimeSpec


-----------------------------------------------------------------------------
(* The whole: an initial state chooses the part that acts.                *)

(* In the whole, every part behaves as it does alone.                      *)
THEOREM MeasurementPartsBehave == MeasurementsSpec => Spec /\ RuntimeSpec /\ OfficialSpec
<1>1. MeasurementsInit => Init /\ RuntimeInit /\ OfficialInit
  BY DEF MeasurementsInit
<1>2. [MeasurementsNext]_partVars =>
          [Next]_vars /\ [RuntimeNext]_runtimeVars /\ [OfficialNext]_officialVars
  BY DEF MeasurementsNext, partVars
<1> QED
  BY <1>1, <1>2, PTL DEF MeasurementsSpec, Spec, RuntimeSpec, OfficialSpec

(* The variables of all parts keep their types in the whole.               *)
THEOREM MeasurementsTypes == MeasurementsSpec => []MeasurementsTypeOK
<1>1. TypeOK /\ RuntimeTypeOK /\ OfficialTypeOK => MeasurementsTypeOK
  BY DEF MeasurementsTypeOK
<1> QED
  BY <1>1, MeasurementPartsBehave, TypeCorrect, EvaluationTypes, OfficialTypes, PTL

(* In the whole, every part keeps its promises: what the run measurements  *)
(* checks on small instances holds for every value of the constants.       *)
THEOREM MeasurementsAreSound ==
    MeasurementsSpec =>
        /\ [](BytesAreCounted /\ NothingIsHidden /\ RuntimeIsHonest /\ OfficialRunsAreSound)
        /\ OutcomesImprove /\ FinishedIsNotRepeated
  BY MeasurementPartsBehave, CountsBytes, NothingHidden, EvaluationIsHonest, OfficialSoundness,
     Monotone, FinishedOnce, PTL

===============================================================================

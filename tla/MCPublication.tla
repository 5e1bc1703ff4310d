---------------------------- MODULE MCPublication ----------------------------
(***************************************************************************)
(* The ways this repository puts files, packs and aggregates where others  *)
(* read them.  They work on different files and share no state, so an      *)
(* initial state chooses the one that acts, and TLC checks the union of    *)
(* the nine state graphs and not their product.                            *)
(***************************************************************************)
EXTENDS ReportCommit, SiteDeployment, DiscoveryStore, StagedMeasurement,
        HoldoutSeal, GeneratedPublication, ArtifactIndex, AdversarialIntake,
        BlindAggregate

VARIABLE acting

allVars == <<acting, commitVars, deployVars, storeVars, measurementVars, sealVars,
             generatedVars, indexVars, intakeVars, aggregateVars>>

(* Fixtures with one span, and with two.                                   *)
MCSpanOutcomes == {<<"EXACT">>, <<"MISS", "COVERED">>}

PublicationInit ==
    /\ acting \in {"report", "site", "store", "measurement", "seal", "generated",
                  "index", "intake", "aggregate"}
    /\ CommitInit /\ DeployInit /\ StoreInit /\ MeasurementInit
    /\ SealInit /\ GeneratedInit /\ IndexInit /\ IntakeInit /\ AggregateInit
    /\ acting # "index" => credential = CHOOSE e \in Evidence : TRUE
    /\ acting # "intake" => record = CHOOSE r \in Submitted : TRUE

(* A step of one part leaves the variables of the others alone.            *)
Only(part, action) ==
    /\ acting = part
    /\ action
    /\ UNCHANGED acting
    /\ part # "report" => UNCHANGED commitVars
    /\ part # "site" => UNCHANGED deployVars
    /\ part # "store" => UNCHANGED storeVars
    /\ part # "measurement" => UNCHANGED measurementVars
    /\ part # "seal" => UNCHANGED sealVars
    /\ part # "generated" => UNCHANGED generatedVars
    /\ part # "index" => UNCHANGED indexVars
    /\ part # "intake" => UNCHANGED intakeVars
    /\ part # "aggregate" => UNCHANGED aggregateVars

PublicationNext ==
    \/ Only("report", CommitNext)
    \/ Only("site", DeployNext)
    \/ Only("store", StoreNext)
    \/ Only("measurement", MeasurementNext)
    \/ Only("seal", SealNext)
    \/ Only("generated", GeneratedNext)
    \/ Only("index", IndexNext)
    \/ Only("intake", IntakeNext)
    \/ Only("aggregate", AggregateNext)

(* CommitFairness, DeployFairness and MeasurementFairness, each owed only  *)
(* where its component acts.                                               *)
PublicationFairness ==
    /\ SF_commitVars(acting = "report" /\ StartCommand /\ command' = "recover")
    /\ SF_commitVars(acting = "report" /\ FinishCheck)
    /\ SF_commitVars(acting = "report" /\ RenameTarget)
    /\ SF_commitVars(acting = "report" /\ DropJournal)
    /\ SF_commitVars(acting = "report" /\ Resolve)
    /\ WF_deployVars(acting = "site" /\ (JobStep \/ RollBackIndex))
    /\ SF_deployVars(acting = "site" /\ Dispatch)
    /\ \A w \in Writers : WF_measurementVars(acting = "measurement" /\ MeasurementStep(w))
    /\ WF_measurementVars(acting = "measurement" /\ RemoveDeadLock)

PublicationSpec == PublicationInit /\ [][PublicationNext]_allVars /\ PublicationFairness

-----------------------------------------------------------------------------
(* The variables of every component keep their types.                      *)
PublicationTypeOK ==
    /\ CommitTypeOK
    /\ DeployTypeOK
    /\ StoreTypeOK
    /\ MeasurementTypeOK
    /\ SealTypeOK
    /\ GeneratedTypeOK
    /\ IndexTypeOK
    /\ IntakeTypeOK
    /\ AggregateTypeOK
=============================================================================

------------------------------- MODULE MCServer -------------------------------
(* The server's bookkeeping for TLC: the components keep their state apart, *)
(* so one run checks them one at a time: a behaviour is one of the          *)
(* component named by part; the others stay where they start.               *)
(* The move is played twice: two records with few disturbances, and one     *)
(* record that is moved, deleted and recreated through several attempts.    *)
EXTENDS CalculationJobs, ForecastBackup, LegacyMigration, LocalRuntime

CONSTANTS s1, s2, s3, r1, r2, b1, b2, l1, l2, x1, x2,
  d1, d2, d3, d4, d5  \* model values

VARIABLE part

Again == INSTANCE LegacyMigration WITH MaxLegacyEdits <- 3, MaxMigrationFaults <- 3

serverVars == <<jobVars, backupVars, migVars, runtimeVars, part>>

ServerInit == /\ JobsInit /\ BackupInit /\ MigrationInit /\ RuntimeInit
              /\ part \in {"jobs", "backup", "migration", "again", "delivery"}
              \* the parts that are not played start in one way only
              /\ part = "again" => legacy[l2] = NoDoc
              /\ part \notin {"migration", "again"} => legacy = [id \in Records |-> NoDoc]
              /\ part # "backup" => issued = [r \in Requests |-> 0]

ServerNext ==
  \/ part = "jobs" /\ JobsNext /\ UNCHANGED <<backupVars, migVars, runtimeVars, part>>
  \/ part = "backup" /\ BackupNext /\ UNCHANGED <<jobVars, migVars, runtimeVars, part>>
  \/ part = "migration" /\ MigrationNext /\ UNCHANGED <<jobVars, backupVars, runtimeVars, part>>
  \* bound: nobody makes the second record
  \/ /\ part = "again" /\ Again!MigrationNext /\ legacy'[l2] = NoDoc /\ remote'[l2] = NoDoc
     /\ UNCHANGED <<jobVars, backupVars, runtimeVars, part>>
  \/ part = "delivery" /\ RuntimeNext /\ UNCHANGED <<jobVars, backupVars, migVars, part>>

\* The fairness of each component, asked for only where its part is played.
ServerFairness ==
  /\ WF_jobVars(part = "jobs" /\ StartJob)
  /\ \A id \in JobIds : /\ WF_jobVars(part = "jobs" /\ HandOver(id))
                        /\ WF_jobVars(part = "jobs" /\ EndJob(id))
                        /\ WF_jobVars(part = "jobs" /\ ReleasePermit(id))
  /\ WF_backupVars(part = "backup" /\ Tick)
  /\ \A r \in Requests : WF_backupVars(part = "backup" /\ Poll(r))
  /\ WF_migVars(part = "migration" /\ Begin)
  /\ WF_migVars(part = "migration" /\ StepEnter)
  /\ WF_migVars(part = "migration" /\ MigrationWork)
  /\ WF_migVars(part = "migration" /\ LegacyLeave)
  /\ WF_migVars(part = "again" /\ Again!Begin)
  /\ WF_migVars(part = "again" /\ Again!StepEnter)
  /\ WF_migVars(part = "again" /\ Again!MigrationWork)
  /\ WF_migVars(part = "again" /\ Again!LegacyLeave)
  /\ WF_runtimeVars(part = "delivery" /\ UpdaterStep)
  /\ WF_runtimeVars(part = "delivery" /\ Serve)
  /\ WF_runtimeVars(part = "delivery" /\ ClockRunsOut("main"))

ServerSpec == ServerInit /\ [][ServerNext]_serverVars /\ ServerFairness
===============================================================================

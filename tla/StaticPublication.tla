--------------------------- MODULE StaticPublication --------------------------
(***************************************************************************)
(* The publication of the static site (src/scripts/static_ops): an         *)
(* operator publishes an application release by hand, the app workflow     *)
(* publishes a stable GitHub Release unattended, the feed workflow renews  *)
(* the weather of the approved application.  All three replace one Pages   *)
(* deployment.  The two workflows share the static-production concurrency  *)
(* group; the operator's machine does not, it pauses automation, disables  *)
(* the feed workflow and checks that both are idle.  A command on the      *)
(* network can raise although its effect took place, or will; a process    *)
(* can die.  A build is its commit and the newest MSM Run of its feed; the *)
(* content checks of a build decide whether it is intact.                  *)
(***************************************************************************)
EXTENDS Naturals, FiniteSets

CONSTANTS Commits,        \* application commits on a release branch
          Version,        \* [Commits -> Nat]: version_tuple(VERSION)
          Contract,       \* [Commits -> contracts]: its [rules, schema]
          Reviewed,       \* triples <<kind, current, sha>>: the reviewed transition records
          MaxUpstream,    \* bound: MSM Runs
          MaxDeployments, \* bound: Pages deployments
          MaxAttempts,    \* bound: app releases prepared
          MaxSiteFaults,  \* bound: failures and deaths
          Absent          \* no plan, no deployment in flight, nobody in the lease

ASSUME PublicationAssumption ==
  /\ Version \in [Commits -> Nat] /\ Commits \subseteq DOMAIN Contract
  /\ Reviewed \subseteq {"rules", "schema"} \X Commits \X Commits
  /\ {MaxUpstream, MaxDeployments, MaxAttempts, MaxSiteFaults} \subseteq Nat /\ MaxUpstream # 0
  /\ Absent \notin Commits \cup {"feed"} /\ "feed" \notin Commits

VARIABLES site,      \* the canonical deployment: [id, commit, run, intact]
          landing,   \* an upload whose command raised before Pages finished it
          approved, automation, workflow, \* STATIC_APPROVED_SHA, ..._AUTOMATION_ENABLED, feed workflow
          rules,     \* the Rules deployed at Firebase
          reviewed,  \* the transition records whose evidence stands
          upstream,  \* newest complete MSM Run
          releases,  \* published stable GitHub Releases
          waiting,   \* workflow runs queued for the lease: "feed" or a selected release
          holder,    \* the workflow run that holds it
          feed,      \* the feed run in progress
          work,      \* the app publisher of each kind: "manual" or "app"
          deployed, attempts, siteFaults

pubVars == <<site, landing, approved, automation, workflow, rules, reviewed, upstream, releases,
             waiting, holder, feed, work, deployed, attempts, siteFaults>>
remote == <<site, landing, approved, automation, workflow, deployed>>
world == <<rules, reviewed, upstream, releases>>
lease == <<waiting, holder, feed>>

Publishers == {"manual", "app"}
Switches == {"automation", "workflow", "production", "approved_sha"}
Deployment == [id : 0 .. MaxDeployments, commit : Commits, run : 1 .. MaxUpstream,
               intact : BOOLEAN]
Stages == {"none", "preflight", "build-test", "planned", "pause", "disable", "quiescence",
           "fresh-build-test", "pre-upload", "upload", "canonical-verification", "approved-sha",
           "verify-approved", "resume", "automate", "OK", "BLOCKED"}
Running == Stages \ {"none", "planned", "OK", "BLOCKED"}

NoWork == [stage |-> "none", sha |-> Absent, current |-> Absent, seen |-> Absent,
           built |-> Absent, changes |-> [s \in Switches |-> "UNCHANGED"], touched |-> {}]
NoFeed == [stage |-> "none", sha |-> Absent, run |-> 0, intact |-> TRUE]

PublicationTypeOK ==
  /\ site \in Deployment /\ landing \in Deployment \cup {Absent}
  /\ approved \in Commits /\ {automation, workflow} \subseteq BOOLEAN
  /\ reviewed \subseteq Reviewed /\ releases \subseteq Commits /\ waiting \subseteq Commits \cup {"feed"}
  /\ holder \in Commits \cup {"feed", Absent}
  /\ \A p \in Publishers : /\ work[p].stage \in Stages
                           /\ work[p].changes \in [Switches -> {"UNCHANGED", "UNKNOWN", "CONFIRMED"}]
                           /\ work[p].touched \subseteq Switches

PublicationInit ==
  /\ approved \in Commits /\ site = [id |-> 0, commit |-> approved, run |-> 1, intact |-> TRUE]
  /\ landing = Absent /\ workflow = TRUE /\ reviewed = Reviewed /\ upstream = 1 /\ releases = {approved}
  /\ \/ automation = TRUE /\ rules = Contract[approved].rules
     \* or paused, with the Rules of the release to come deployed
     \/ \E record \in Reviewed : /\ record[2] = approved /\ automation = FALSE
                                /\ rules = Contract[record[3]].rules
  /\ waiting = {} /\ holder = Absent /\ feed = NoFeed
  /\ work = [p \in Publishers |-> NoWork]
  /\ deployed = 0 /\ attempts = 0 /\ siteFaults = 0

(* transition: a reviewed change of Rules, which only an operator can name. The  *)
(* record and its evidence are read again at every gate.                        *)
RulesTransition(p, sha, current) ==
  p = "manual" /\ ~automation /\ <<"rules", current, sha>> \in reviewed

(* reviewed_schema: one way, from a schema to the one that fences old writers. *)
SchemaTransition(p, sha, current) ==
  p = "manual" /\ ~automation /\ <<"schema", current, sha>> \in reviewed

(* Operator.compatibility: the candidate's Rules are deployed before it, and  *)
(* what changes of the contract was reviewed.                                 *)
Compatible(p, sha, current) ==
  /\ rules = Contract[sha].rules
  /\ Contract[sha].rules = Contract[current].rules \/ RulesTransition(p, sha, current)
  /\ Contract[sha].schema = Contract[current].schema \/ SchemaTransition(p, sha, current)

\* (broken) nobody looks at the workflow runs
QuietForNobody(p) == p \in Publishers

(* Operator.idle sees every run of both workflows; ActionsOperator.idle    *)
(* only that its own run is in progress.                                   *)
QuietFor(p) == p = "manual" => holder = Absent /\ waiting = {}

(* target: the canonical deployment is whole and no other is in flight. *)
TargetSafe == landing = Absent

(* select_release, candidate, disposition of an unattended publication. *)
Newer(sha, current) == Version[sha] > Version[current]
Selected(p, sha, current) == p = "app" => sha \in releases /\ Newer(sha, current)

(* snapshot: everything it requires, and what it returns. *)
SnapshotOK(p, paused) ==
  LET w == work[p] IN
  /\ approved = w.current /\ site.commit = w.current
  /\ workflow = ~paused /\ (paused => ~automation)
  /\ QuietFor(p) /\ TargetSafe
  /\ Compatible(p, w.sha, w.current) /\ Selected(p, w.sha, w.current)
Snapshot == [automation |-> automation, id |-> site.id, rules |-> rules]

(* unchanged *)
Unchanged(before, paused, deployment) ==
  /\ Snapshot.automation = (before.automation /\ ~paused)
  /\ Snapshot.rules = before.rules
  /\ deployment => Snapshot.id = before.id

(* A publisher's checks raise Blocked when they do not hold; nothing is    *)
(* tried again, rolled back or restarted.                                  *)
At(p, stage) == work[p].stage = stage
Released(p) == IF p = "app" THEN holder' = Absent ELSE UNCHANGED holder
Over(p, w) == /\ work' = [work EXCEPT ![p] = w]
              /\ Released(p) /\ UNCHANGED <<waiting, feed>>
Gate(p, stage, guard, next) ==
  /\ At(p, stage)
  /\ IF guard THEN work' = [work EXCEPT ![p] = next] /\ UNCHANGED lease
              ELSE Over(p, [work[p] EXCEPT !.stage = "BLOCKED"])
  /\ UNCHANGED <<remote, world, attempts, siteFaults>>

(* --- prepare ----------------------------------------------------------- *)
OperatorPrepares(sha) ==
  /\ work["manual"].stage \notin Running /\ attempts < MaxAttempts
  /\ attempts' = attempts + 1
  /\ work' = [work EXCEPT !["manual"] =
                [NoWork EXCEPT !.stage = "preflight", !.sha = sha, !.current = approved]]
  /\ UNCHANGED <<remote, world, lease, siteFaults>>

(* main of release_automation, in the run that got the lease. *)
ReleaseRunStarts(sha) ==
  /\ holder = Absent /\ sha \in waiting \ {"feed"} /\ attempts < MaxAttempts
  /\ waiting' = waiting \ {sha}
  /\ IF sha \in releases /\ automation /\ site.commit = approved /\ Newer(sha, approved)
     THEN /\ holder' = sha /\ attempts' = attempts + 1
          /\ work' = [work EXCEPT !["app"] =
                        [NoWork EXCEPT !.stage = "preflight", !.sha = sha, !.current = approved]]
     ELSE UNCHANGED <<holder, attempts, work>>
  /\ UNCHANGED <<remote, world, feed, siteFaults>>

PrepareSnapshot(p) ==
  Gate(p, "preflight", SnapshotOK(p, FALSE),
       [work[p] EXCEPT !.stage = "build-test", !.seen = Snapshot])

(* The build of prepare is never uploaded; its plan is what is reviewed. *)
PreparePlan(p) ==
  Gate(p, "build-test", SnapshotOK(p, FALSE) /\ Unchanged(work[p].seen, FALSE, FALSE),
       [work[p] EXCEPT !.stage = "planned"])

(* --- publish ----------------------------------------------------------- *)
PublishPlan(p) ==
  Gate(p, "planned", SnapshotOK(p, FALSE) /\ Unchanged(work[p].seen, FALSE, FALSE),
       [work[p] EXCEPT !.stage = "pause", !.seen = Snapshot])

(* Journal.mutation: UNKNOWN is on disk before the action starts. *)
Confirmed(w, switch, next) ==
  [w EXCEPT !.changes[switch] = "CONFIRMED", !.touched = @ \cup {switch}, !.stage = next]
Raised(w, switch, effect) ==
  [w EXCEPT !.changes[switch] = "UNKNOWN", !.stage = "BLOCKED",
            !.touched = IF effect THEN @ \cup {switch} ELSE @]
SiteFault == siteFaults < MaxSiteFaults /\ siteFaults' = siteFaults + 1

(* set_variable, set_workflow: from before to after, confirmed by a read. *)
Mutation(p, stage, switch, before, after, next) ==
  /\ At(p, stage)
  /\ \/ /\ after
        /\ IF next = "OK" THEN Over(p, Confirmed(work[p], switch, next))
           ELSE work' = [work EXCEPT ![p] = Confirmed(@, switch, next)] /\ UNCHANGED lease
        /\ UNCHANGED siteFaults
     \/ SiteFault /\ after /\ Over(p, Raised(work[p], switch, TRUE))
     \/ SiteFault /\ before /\ Over(p, Raised(work[p], switch, FALSE))
  /\ UNCHANGED <<site, landing, deployed, world, attempts>>

Pause(p) ==
  /\ Mutation(p, "pause", "automation", UNCHANGED automation, automation' = FALSE, "disable")
  /\ UNCHANGED <<approved, workflow>>
Disable(p) ==
  /\ Mutation(p, "disable", "workflow", UNCHANGED workflow, workflow' = FALSE, "quiescence")
  /\ UNCHANGED <<approved, automation>>

Quiesce(p) ==
  Gate(p, "quiescence", SnapshotOK(p, TRUE) /\ Unchanged(work[p].seen, TRUE, FALSE),
       [work[p] EXCEPT !.stage = "fresh-build-test", !.seen.id = site.id])

(* build: a clean clone with the retained feed and the newest complete     *)
(* Run; a candidate that brings more than static files is not intact.      *)
FreshBuild(p, intact) ==
  Gate(p, "fresh-build-test", TRUE,
       [work[p] EXCEPT !.stage = "pre-upload",
                       !.built = [commit |-> work[p].sha, run |-> upstream, intact |-> intact]])

(* The comparison after the build and those of prepare_upload. *)
PreUpload(p) ==
  Gate(p, "pre-upload",
       SnapshotOK(p, TRUE) /\ Unchanged(work[p].seen, TRUE, TRUE) /\ work[p].built.intact,
       [work[p] EXCEPT !.stage = "upload"])

(* wrangler pages deploy: Pages finishes it now, later or never. *)
NewDeployment(built) ==
  [id |-> deployed + 1, commit |-> built.commit, run |-> built.run, intact |-> built.intact]
Outcomes == {"done", "later", "never"}
Deploys(built, outcome) ==
  /\ deployed < MaxDeployments
  /\ deployed' = IF outcome = "never" THEN deployed ELSE deployed + 1
  /\ site' = IF outcome = "done" THEN NewDeployment(built) ELSE site
  /\ landing' = IF outcome = "later" THEN NewDeployment(built) ELSE landing

Upload(p) ==
  /\ At(p, "upload")
  /\ \/ /\ Deploys(work[p].built, "done")
        /\ work' = [work EXCEPT ![p] = Confirmed(@, "production", "canonical-verification")]
        /\ UNCHANGED <<siteFaults, lease>>
     \/ /\ SiteFault
        /\ \E outcome \in Outcomes :
             /\ Deploys(work[p].built, outcome)
             /\ Over(p, Raised(work[p], "production", outcome # "never"))
  /\ UNCHANGED <<approved, automation, workflow, world, attempts>>

(* verify: the canonical site is the upload. *)
Serves(p) == site.commit = work[p].sha /\ site.run = work[p].built.run /\ TargetSafe

VerifyPublished(p) ==
  Gate(p, "canonical-verification",
       /\ Serves(p) /\ approved = work[p].current /\ ~automation /\ ~workflow
       /\ Compatible(p, work[p].sha, work[p].current) /\ rules = work[p].seen.rules
       /\ QuietFor(p),
       [work[p] EXCEPT !.stage = "approved-sha"])

Approve(p) ==
  /\ Mutation(p, "approved-sha", "approved_sha", UNCHANGED approved, approved' = work[p].sha,
              "verify-approved")
  /\ UNCHANGED <<automation, workflow>>

VerifyApproved(p) ==
  Gate(p, "verify-approved", Serves(p) /\ approved = work[p].sha /\ ~automation,
       [work[p] EXCEPT !.stage = "resume"])

\* Automation comes back only if it was on when the publication began.
Resume(p) ==
  /\ Mutation(p, "resume", "workflow", UNCHANGED workflow, workflow' = TRUE,
              IF work[p].seen.automation THEN "automate" ELSE "OK")
  /\ UNCHANGED <<approved, automation>>
Automate(p) ==
  /\ Mutation(p, "automate", "automation", UNCHANGED automation, automation' = TRUE, "OK")
  /\ UNCHANGED <<approved, workflow>>

(* Any step may meet an error and any process may die. *)
Stop(p) ==
  /\ work[p].stage \in Running \cup {"planned"} /\ SiteFault
  /\ Over(p, [work[p] EXCEPT !.stage = "BLOCKED"])
  /\ UNCHANGED <<remote, world, attempts>>

PublisherStep(p) ==
  \/ PrepareSnapshot(p) \/ PreparePlan(p) \/ PublishPlan(p) \/ Pause(p) \/ Disable(p) \/ Quiesce(p)
  \/ \E intact \in BOOLEAN : FreshBuild(p, intact)
  \/ PreUpload(p) \/ Upload(p) \/ VerifyPublished(p) \/ Approve(p) \/ VerifyApproved(p)
  \/ Resume(p) \/ Automate(p) \/ Stop(p)

(* --- feed renewal ------------------------------------------------------ *)
FeedIdle == UNCHANGED <<approved, automation, workflow, world, work, attempts>>
FeedOver == feed' = NoFeed /\ holder' = Absent
FeedGo(stage, guard, next) ==
  /\ feed.stage = stage
  /\ IF guard THEN feed' = next /\ UNCHANGED holder ELSE FeedOver
  /\ UNCHANGED <<waiting, site, landing, deployed, siteFaults>> /\ FeedIdle

(* identity: the canonical site is the approved application. *)
Identified(sha) == sha = approved /\ site.commit = sha

FeedQueued ==
  /\ workflow /\ waiting' = waiting \cup {"feed"}
  /\ UNCHANGED <<holder, feed, work, remote, world, attempts, siteFaults>>

(* A dispatched run does not look at STATIC_AUTOMATION_ENABLED. *)
FeedStarts(dispatched) ==
  /\ holder = Absent /\ "feed" \in waiting
  /\ waiting' = waiting \ {"feed"}
  /\ IF (automation \/ dispatched) /\ Identified(approved)
     THEN holder' = "feed" /\ feed' = [NoFeed EXCEPT !.stage = "preflight", !.sha = approved]
     ELSE UNCHANGED <<holder, feed>>
  /\ UNCHANGED <<site, landing, deployed, siteFaults>> /\ FeedIdle

FeedPreflight == FeedGo("preflight", upstream > site.run,
                        [feed EXCEPT !.stage = "produce", !.run = upstream])

(* produce, under a second job that reads the variables again.  A build    *)
(* takes longer than Pages needs to settle an upload made before it.       *)
FeedProduce(intact) == TargetSafe /\ FeedGo("produce", Identified(feed.sha) /\ upstream = feed.run,
                              [feed EXCEPT !.stage = "gate", !.intact = intact])

(* upload_context, then require_newer_candidate just before the upload. *)
FeedGate == FeedGo("gate", feed.intact /\ site.commit = feed.sha /\ feed.run > site.run,
                   [feed EXCEPT !.stage = "upload"])

FeedUpload ==
  /\ feed.stage = "upload"
  /\ LET built == [commit |-> feed.sha, run |-> feed.run, intact |-> feed.intact] IN
       \/ Deploys(built, "done") /\ UNCHANGED siteFaults
       \/ SiteFault /\ \E outcome \in Outcomes : Deploys(built, outcome)
  /\ FeedOver /\ UNCHANGED waiting /\ FeedIdle

FeedFails == /\ feed.stage # "none" /\ SiteFault /\ FeedOver
             /\ UNCHANGED <<waiting, site, landing, deployed>> /\ FeedIdle

FeedStep == \/ FeedQueued \/ \E dispatched \in BOOLEAN : FeedStarts(dispatched)
            \/ FeedPreflight \/ \E intact \in BOOLEAN : FeedProduce(intact)
            \/ FeedGate \/ FeedUpload \/ FeedFails

(* --- everybody else ---------------------------------------------------- *)
(* publish of publish_github_release: a stable Release of an ancestor of   *)
(* the branch; its workflow and its event both ask for the app workflow.   *)
PublishRelease(sha) ==
  /\ \A other \in releases : Version[other] = Version[sha] => other = sha
  /\ releases' = releases \cup {sha} /\ waiting' = waiting \cup {sha}
  /\ UNCHANGED <<remote, rules, reviewed, upstream, holder, feed, work, attempts, siteFaults>>

WithdrawRelease(sha) ==
  /\ sha \in releases /\ SiteFault /\ releases' = releases \ {sha}
  /\ UNCHANGED <<remote, rules, reviewed, upstream, lease, work, attempts>>

NewRun == /\ upstream < MaxUpstream /\ upstream' = upstream + 1
          /\ UNCHANGED <<remote, rules, reviewed, releases, lease, work, attempts, siteFaults>>

(* Pages finishes or drops an upload, and serves the newest it finished. *)
Land == /\ landing # Absent
        /\ \/ site' = IF landing.id > site.id THEN landing ELSE site
           \/ UNCHANGED site
        /\ landing' = Absent
        /\ UNCHANGED <<approved, automation, workflow, deployed, world, lease, work, attempts,
                       siteFaults>>

OwnerActs == UNCHANGED <<site, landing, deployed, upstream, releases, lease, work, attempts>>
OwnerDeploysRules(sha) ==
  /\ rules' = Contract[sha].rules /\ rules' # rules /\ SiteFault
  /\ UNCHANGED <<approved, automation, workflow, reviewed>> /\ OwnerActs
OwnerWithdrawsReview ==
  /\ SiteFault /\ \E record \in reviewed : reviewed' = reviewed \ {record}
  /\ UNCHANGED <<approved, automation, workflow, rules>> /\ OwnerActs
OwnerPauses == /\ automation /\ SiteFault /\ automation' = FALSE
               /\ UNCHANGED <<approved, workflow, rules, reviewed>> /\ OwnerActs

(* What finish asks of the owner after a failure: verify the canonical     *)
(* inventory and the approved SHA, then resume.                            *)
OwnerReconciles ==
  /\ ~automation \/ ~workflow
  /\ work["manual"].stage \notin Running /\ holder = Absent /\ landing = Absent
  /\ approved' = site.commit /\ automation' = TRUE /\ workflow' = TRUE
  /\ UNCHANGED <<rules, reviewed, siteFaults>> /\ OwnerActs

PublicationNext ==
  \/ \E p \in Publishers : PublisherStep(p)
  \/ \E sha \in Commits : \/ OperatorPrepares(sha) \/ ReleaseRunStarts(sha) \/ PublishRelease(sha)
                          \/ WithdrawRelease(sha) \/ OwnerDeploysRules(sha)
  \/ FeedStep \/ NewRun \/ Land \/ OwnerPauses \/ OwnerReconciles
  \/ OwnerWithdrawsReview

PublicationSpec == PublicationInit /\ [][PublicationNext]_pubVars
-----------------------------------------------------------------------------
(* Recurring publication is open only on a site that serves what is        *)
(* approved, whatever was interrupted, failed or landed late.              *)
OpenMeansApproved ==
  /\ PublicationTypeOK
  /\ automation /\ workflow => site.commit = approved

(* An app upload replaces the very deployment its last snapshot saw: the   *)
(* operator's machine takes no lease and still nobody published between.   *)
NoBlindUpload(p) ==
  At(p, "upload") /\ ~At(p, "upload")' /\ deployed' # deployed
    => site.id = work[p].seen.id /\ landing = Absent

(* At the moment of an unattended upload its version is still newer than   *)
(* the one served: other publications came and went since it was decided.  *)
NoUnattendedDowngrade ==
  At("app", "upload") /\ ~At("app", "upload")' /\ deployed' # deployed
    => Newer(work["app"].sha, site.commit)

(* A feed renewal never changes the application that is served, and no     *)
(* publication serves an older Run than before.                            *)
FeedKeepsApplication ==
  /\ feed.stage = "upload" /\ deployed' # deployed => feed.sha = site.commit
  /\ site'.run >= site.run

(* Whatever was decided before an upload still holds at the moment of it.  *)
UploadsAreCurrent ==
  [][(\A p \in Publishers : NoBlindUpload(p)) /\ NoUnattendedDowngrade
       /\ FeedKeepsApplication]_pubVars
===============================================================================

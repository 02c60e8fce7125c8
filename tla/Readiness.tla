------------------------------ MODULE Readiness ------------------------------
(****************************************************************************)
(* Whether a NAV LOG may be copied: application/readiness.py and            *)
(* readiness_service.py over the fingerprints of project_fingerprints.py,   *)
(* for one Project and its last outcome.  A fingerprint is the record of    *)
(* the fields it covers.  A section's altitude is all that the draft has of *)
(* the values the pilot reviews; 0 is the default altitude.  The crew names *)
(* and the arrival plan stand for every issue that the project itself       *)
(* raises, the data of a release for its performance tables and its         *)
(* verified airports.  The service is built with two switches: the program  *)
(* asks neither for the names nor for a review of the defaults              *)
(* (web/facade.py:279-280), the constructor's defaults are to ask for both. *)
(****************************************************************************)
EXTENDS Integers, FiniteSets

CONSTANTS Altitudes,     \* the altitudes a section may have, 0 is the default
          MaxRelease,    \* bound: releases of the application and its tables
          Unverified,    \* the releases whose data are not validated
          MaxAcks,       \* bound: acknowledgements a plan holds
          RequireCrewIdentification, RequireDefaultsReview,  \* the switches
          NoOutcome, NotYet

ASSUME ReadinessAssumption ==
  /\ 0 \in Altitudes /\ MaxRelease \in Nat
  /\ RequireCrewIdentification \in BOOLEAN /\ RequireDefaultsReview \in BOOLEAN

VARIABLES plan,      \* altitude, arrival plan, crew named, acknowledged keys,
                     \* the two persisted fingerprints, the materialised status
          outcome,   \* the last outcome: issues and its table version
          release,   \* the release that runs
          origin     \* observed: what the outcome was computed from

readinessVars == <<plan, outcome, release, origin>>

\* The arrival plan: there is none, it cannot be flown as it is, or it can.
Arrivals == {"none", "unfit", "fit"}

(* What a calculation may raise: a warning to acknowledge for one of two
   reasons, a remark, a weather blocker, another blocker. *)
Findings == {[code |-> "wind", severity |-> "warning", ack |-> TRUE, cause |-> 1],
             [code |-> "wind", severity |-> "warning", ack |-> TRUE, cause |-> 2],
             [code |-> "update", severity |-> "warning", ack |-> FALSE, cause |-> 0],
             [code |-> "weather", severity |-> "blocker", ack |-> FALSE, cause |-> 0],
             [code |-> "fuel", severity |-> "blocker", ack |-> FALSE, cause |-> 0]}

\* Nothing recorded is not a record.
ASSUME NothingAssumption ==
  /\ NoOutcome \notin [issues : SUBSET Findings, version : 0 .. MaxRelease]
  /\ NotYet \notin [altitude : Altitudes, arrival : Arrivals, release : 0 .. MaxRelease, issues : SUBSET Findings]

TableVersion == IF outcome = NoOutcome THEN release ELSE outcome.version

\* (broken) the release is not part of what was computed
CalculationInputOnly(p, version, running) ==
  [altitude |-> p.altitude, arrival |-> p.arrival, version |-> version, release |-> 0]

(* current_calculation_input_fingerprint and defaults_review_fingerprint *)
CalculationInput(p, version, running) ==
  [altitude |-> p.altitude, arrival |-> p.arrival, version |-> version, release |-> running]

DefaultsReview(altitude, version) == [default |-> altitude = 0, version |-> version]

(* create_effective_issue: the cause decides the key of the acknowledgement. *)
Effective(issue, cause) ==
  [code |-> issue.code, severity |-> issue.severity, ack |-> issue.ack,
   key |-> [code |-> issue.code, cause |-> cause]]
Blocker(code) == [code |-> code, severity |-> "blocker", ack |-> FALSE]

(* _validation_issues: what the project and the data lack, computed or not *)
Validation(p, running) ==
  {lack \in {"crew", "arrival", "data"} :
     \/ lack = "crew" /\ RequireCrewIdentification /\ ~p.crew
     \/ lack = "arrival" /\ p.arrival # "fit"
     \/ lack = "data" /\ running \in Unverified}

(* collect_effective_issues for a plan p and an outcome o in a release *)
Collected(p, o, running) ==
  LET version == IF o = NoOutcome THEN running ELSE o.version
      current == CalculationInput(p, version, running)
      computed == IF o = NoOutcome THEN {}
                  ELSE {Effective(i, [against |-> p.calculated, metadata |-> i.cause]) :
                          i \in o.issues}
      stale == IF o # NoOutcome /\ p.calculated # current
               THEN {Effective(Blocker("stale"), [against |-> p.calculated, now |-> current])}
               ELSE {}
      review == IF RequireDefaultsReview /\ p.reviewed # DefaultsReview(p.altitude, version)
                THEN {Effective(Blocker("defaults"), p.reviewed)} ELSE {}
      validation == {Effective(Blocker(code), NotYet) : code \in Validation(p, running)}
  IN computed \cup stale \cup review \cup validation

(* derive_project_status *)
StatusOf(p, o, running) ==
  LET issues == Collected(p, o, running)
      blockers == {i \in issues : i.severity = "blocker"}
  IN IF \E i \in blockers : i.code = "weather" THEN "WEATHER_PENDING"
     ELSE IF blockers # {} THEN "MANUAL_INPUT_REQUIRED"
     ELSE IF o = NoOutcome THEN "DRAFT"
     ELSE IF \E i \in issues : i.ack /\ i.key \notin p.acks THEN "CALCULATION_WARNING"
     ELSE "READY_FOR_COPY"

(* evaluate: the status is materialised with every change. *)
Evaluated(p, o, running) == [p EXCEPT !.status = StatusOf(p, o, running)]

ReadinessInit ==
  /\ release = 0 /\ outcome = NoOutcome /\ origin = NotYet
  /\ plan = [altitude |-> 0, arrival |-> "none", crew |-> FALSE, acks |-> {}, calculated |-> NotYet,
             reviewed |-> NotYet, status |-> "MANUAL_INPUT_REQUIRED"]

Become(p) == plan' = Evaluated(p, outcome, release) /\ UNCHANGED <<outcome, release, origin>>

(* update_project: the values, the names, the arrival plan, which is not taken
   away again, and the confirmation of defaults, which is of the values just
   sent. *)
UpdatePlan ==
  \E a \in Altitudes, arrival \in Arrivals, crew, confirmed \in BOOLEAN :
    LET p == [plan EXCEPT !.altitude = a, !.arrival = arrival, !.crew = crew]
    IN /\ arrival = "none" => plan.arrival = "none"
       /\ Become(IF confirmed
                 THEN [p EXCEPT !.reviewed = DefaultsReview(a, TableVersion)] ELSE p)

(* confirm_route of a Project that has a route: legs and arrival plan may be
   others, or the latter be gone; the last outcome stays. *)
EditRoute ==
  \E a \in Altitudes, arrival \in Arrivals :
    Become([plan EXCEPT !.altitude = a, !.arrival = arrival])

(* acknowledge: only what is shown and asks for it. *)
AcknowledgeIssue ==
  \E i \in Collected(plan, outcome, release), checked \in BOOLEAN :
    /\ i.ack
    /\ checked => Cardinality(plan.acks) < MaxAcks
    /\ Become([plan EXCEPT !.acks = IF checked THEN @ \cup {i.key} ELSE @ \ {i.key}])

(* record_calculation: the outcome of the running release, blocked or not;
   without an arrival plan nothing is calculated. *)
Record ==
  /\ plan.arrival # "none"
  /\ \E issues \in SUBSET Findings :
       LET o == [issues |-> issues, version |-> release]
           p == [plan EXCEPT !.calculated = CalculationInput(plan, release, release)]
       IN /\ Cardinality(issues) <= 2
          /\ outcome' = o
          /\ plan' = Evaluated(p, o, release)
          /\ origin' = [altitude |-> plan.altitude, arrival |-> plan.arrival,
                        release |-> release, issues |-> issues]
          /\ UNCHANGED release

(* A new release reads what the old one stored, and evaluates it again. *)
Upgrade ==
  /\ release < MaxRelease
  /\ release' = release + 1
  /\ plan' = Evaluated(plan, outcome, release + 1)
  /\ UNCHANGED <<outcome, origin>>

ReadinessNext == UpdatePlan \/ EditRoute \/ AcknowledgeIssue \/ Record \/ Upgrade

ReadinessSpec == ReadinessInit /\ [][ReadinessNext]_readinessVars

(****************************************************************************)
(* Properties.                                                              *)
(****************************************************************************)

ReadinessTypeOK ==
  /\ plan.altitude \in Altitudes /\ plan.arrival \in Arrivals /\ plan.crew \in BOOLEAN
  /\ plan.status \in {"DRAFT", "MANUAL_INPUT_REQUIRED", "WEATHER_PENDING",
                      "CALCULATION_WARNING", "READY_FOR_COPY"}
  /\ release \in 0 .. MaxRelease

(* A NAV LOG that may be copied was computed without a blocker by the running
   release, whose data are validated, from the values and the arrival plan the
   draft has now. *)
ReadyIsComputed ==
  plan.status = "READY_FOR_COPY"
    => /\ origin # NotYet /\ release \notin Unverified
       /\ origin.altitude = plan.altitude /\ origin.arrival = plan.arrival
       /\ origin.release = release /\ plan.arrival = "fit"
       /\ \A i \in origin.issues : i.severity # "blocker"

(* What it warns of was acknowledged for the very cause and computation that is
   shown: no acknowledgement of an earlier one lets the NAV LOG through. *)
ReadyIsAcknowledged ==
  plan.status = "READY_FOR_COPY"
    => \A i \in origin.issues : i.ack =>
         [code |-> i.code,
          cause |-> [against |-> CalculationInput(origin, origin.release, origin.release),
                     metadata |-> i.cause]] \in plan.acks

(* A NAV LOG that may be copied is the one that was computed, and its warnings
   were acknowledged.  The program asks for no more: with its switches a NAV LOG
   without the crew's names and without a review is READY_FOR_COPY. *)
ReadyIsJustified == ReadyIsComputed /\ ReadyIsAcknowledged

(* A service that asks for names and a review lets nothing through on the
   strength of a review of other defaults: going to or from the default altitude,
   or to other tables, asks for another.  The program's service asks for neither. *)
ReadyIsReviewed ==
  plan.status = "READY_FOR_COPY"
    => /\ RequireCrewIdentification => plan.crew
       /\ RequireDefaultsReview =>
            plan.reviewed = [default |-> origin.altitude = 0, version |-> origin.release]
=============================================================================

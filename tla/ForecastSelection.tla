-------------------------- MODULE ForecastSelection --------------------------
(****************************************************************************)
(* The choice of a forecast model and Run for a flight:                     *)
(* application/forecast_selection.py over the two providers, and the way    *)
(* calculation_service.py applies it, first to the times the route is       *)
(* expected to take (level 1) and again to those it was computed to take    *)
(* (level 2 when they reach further).  A Run is its number within its       *)
(* model, a larger number is newer.  What the providers know is evidence:   *)
(* the catalog of each model and the payloads that were acquired.  A check  *)
(* that lacks evidence suspends the calculation with a request for it       *)
(* (weather/local_forecast.py); an exclusion is what the evidence says of   *)
(* coverage, an error anything else.                                        *)
(****************************************************************************)
EXTENDS Integers, FiniteSets

CONSTANTS MaxForecastRun,  \* forecast Runs of a model are 1 .. MaxForecastRun
          Unread,          \* a catalog that was not acquired
          NoRun            \* no forecast Run

ASSUME SelectionAssumption == MaxForecastRun \in Nat \ {0}

Models == {"MSM", "GSM"}
RunNumbers == 1 .. MaxForecastRun
ModelRuns == [model : Models, run : RunNumbers]

(* What is true of the forecasts: how far the coverage of a Run reaches, how
   far a flight computed with a model does, whether the route is outside a
   model's domain, which is known without any evidence. *)
Worlds == [reach : [ModelRuns -> 0 .. 2], flight : [Models -> 1 .. 2],
           outside : SUBSET {"MSM"}]

NoEvidenceYet == [catalog |-> [m \in Models |-> Unread], payloads |-> {}]

Need(m, r) == [kind |-> "need", model |-> m, run |-> r]
Found(m, r) == [kind |-> "run", model |-> m, run |-> r]
NoneFound == [kind |-> "none"]
WeatherFailure == [kind |-> "error"]

(* check, with check_run and the acquisition it depends on *)
Check(w, e, m, r, level) ==
  IF m \in w.outside THEN NoneFound
  ELSE IF e.catalog[m] = Unread THEN Need(m, 0)
  ELSE IF r \notin e.catalog[m] THEN WeatherFailure
  ELSE IF [model |-> m, run |-> r] \notin e.payloads THEN Need(m, r)
  ELSE IF w.reach[[model |-> m, run |-> r]] >= level THEN Found(m, r) ELSE NoneFound

\* (broken) the newest Run among those that were acquired
LatestAcquired(w, e, m, level) ==
  LET found == {r \in RunNumbers : Check(w, e, m, r, level).kind = "run"}
  IN IF m \in w.outside THEN NoneFound
     ELSE IF e.catalog[m] = Unread THEN Need(m, 0)
     ELSE IF e.catalog[m] = {} THEN WeatherFailure
     ELSE IF found # {} THEN Found(m, CHOOSE r \in found : \A q \in found : q <= r)
     ELSE LET open == {r \in e.catalog[m] : Check(w, e, m, r, level).kind # "none"}
          IN IF open = {} THEN NoneFound ELSE Need(m, CHOOSE r \in open : TRUE)

(* latest: the newest Run that is not excluded; each is checked in turn. *)
Latest(w, e, m, level) ==
  IF m \in w.outside THEN NoneFound
  ELSE IF e.catalog[m] = Unread THEN Need(m, 0)
  ELSE IF e.catalog[m] = {} THEN WeatherFailure
  ELSE LET open == {r \in e.catalog[m] : Check(w, e, m, r, level).kind # "none"}
       IN IF open = {} THEN NoneFound
          ELSE Check(w, e, m, CHOOSE r \in open : \A q \in open : q <= r, level)

Selected(found, update) ==
  IF found.kind = "run"
  THEN [kind |-> "selected", choice |-> [model |-> found.model, run |-> found.run],
        update |-> update]
  ELSE found

Unavailable == [kind |-> "unavailable"]
UpdateRequired == [kind |-> "required"]

OrElse(found, other) == IF found.kind = "none" THEN other ELSE Selected(found, FALSE)
OtherModel(w, e, level) == OrElse(Latest(w, e, "GSM", level), Unavailable)

(* preferred *)
Preferred(w, e, level) == OrElse(Latest(w, e, "MSM", level), OtherModel(w, e, level))

Pending(found) == found.kind \in {"need", "error"}

PinnedMsm(fixed, msm, other) ==
  IF Pending(fixed) THEN fixed
  ELSE IF Pending(msm) THEN msm
  ELSE IF fixed.kind = "run" THEN Selected(fixed, msm.kind = "run" /\ msm.run > fixed.run)
  ELSE IF msm.kind = "run" THEN UpdateRequired
  ELSE other
SelectPinnedMsm(w, e, level, pinned) ==
  PinnedMsm(Check(w, e, "MSM", pinned.run, level), Latest(w, e, "MSM", level),
            OtherModel(w, e, level))

\* (broken) a pinned GSM is given up for an MSM that covers the flight
SelectPinnedGsmBack(w, e, level, pinned) ==
  LET msm == Latest(w, e, "MSM", level)
  IN IF Pending(msm) THEN msm
     ELSE IF msm.kind = "run" THEN Selected(msm, FALSE)
     ELSE Check(w, e, "GSM", pinned.run, level)

(* A pinned GSM never silently returns to MSM, even when it no longer covers. *)
PinnedGsm(fixed, msm, gsm, run) ==
  LET keep(newer) == IF fixed.kind = "none" THEN UpdateRequired
                     ELSE Selected(Found("GSM", run), newer)
  IN IF Pending(fixed) THEN fixed
     ELSE IF Pending(msm) THEN msm
     ELSE IF msm.kind = "run" THEN keep(TRUE)
     ELSE IF Pending(gsm) THEN gsm
     ELSE IF fixed.kind = "none" /\ gsm.kind = "none" THEN Unavailable
     ELSE keep(gsm.kind = "run" /\ gsm.run > run)
SelectPinnedGsm(w, e, level, pinned) ==
  PinnedGsm(Check(w, e, "GSM", pinned.run, level), Latest(w, e, "MSM", level),
            Latest(w, e, "GSM", level), pinned.run)

(* select_forecast *)
Select(w, e, level, pinned, refresh) ==
  IF pinned = NoRun \/ refresh THEN Preferred(w, e, level)
  ELSE IF pinned.model = "MSM" THEN SelectPinnedMsm(w, e, level, pinned)
  ELSE SelectPinnedGsm(w, e, level, pinned)

Blocked(choice, announced) ==
  [kind |-> "outcome", choice |-> choice, blocked |-> TRUE, announced |-> announced]

(* An outcome blocked before a Run was chosen keeps the pinned one. *)
Refused(selection, choice) == Blocked(choice, selection.kind = "required")

Completed(choice, announced) ==
  [kind |-> "outcome", choice |-> choice, blocked |-> FALSE, announced |-> announced]

(* calculate: a Run chosen for the expected times may not cover the computed
   ones.  The choice is then made again for both; another Run or model than the
   first one discards everything and starts over with both. *)
Decided(w, first, second, pinned) ==
  IF Pending(first) THEN first
  ELSE IF first.kind # "selected" THEN Refused(first, pinned)
  ELSE IF w.flight[first.choice.model] = 1 THEN Completed(first.choice, first.update)
  ELSE IF Pending(second) THEN second
  ELSE IF second.kind # "selected"
  THEN Blocked(first.choice, first.update \/ second.kind = "required")
  ELSE Completed(second.choice,
                 second.update \/ (second.choice = first.choice /\ first.update))
Calculation(w, e, pinned, refresh) ==
  Decided(w, Select(w, e, 1, pinned, refresh), Select(w, e, 2, pinned, refresh), pinned)

(* MSM is affirmatively excluded for a flight that reaches level. *)
MsmExcluded(w, runs, level) ==
  \/ "MSM" \in w.outside
  \/ /\ runs # {}
     /\ \A r \in runs : w.reach[[model |-> "MSM", run |-> r]] < level

=============================================================================

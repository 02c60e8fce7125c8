-------------------------- MODULE LocalCalculation --------------------------
(****************************************************************************)
(* A forecast calculation in the browser.  The adapter (localApplication.ts)*)
(* runs the user's operations one at a time; the worker (local.worker.ts)   *)
(* repeats the Python calculation (local.py) until it asks for no further   *)
(* catalog or payload; when the weather cannot be had, the forecast backup  *)
(* server is asked for the result, which local.py adopts only if it is for  *)
(* the unchanged input.  Any operation that arrives meanwhile overtakes the *)
(* one in progress.  The durable record is the account repository's; a lost *)
(* tab or worker is not modelled.                                           *)
(****************************************************************************)
EXTENDS ForecastSelection, Sequences

CONSTANTS Drafts,         \* the inputs a draft may have
          MaxIssued,      \* bound: operations the user issues
          NoResult, NoIntent, NoContext, NoAction

VARIABLES world,    \* what is true of the forecasts, fixed
          feed,     \* the Runs a model's published catalog lists
          cached,   \* the browser's copy of a model's catalog
          work,     \* the session: input, pinned Run, last good result, intent
          action,   \* the operation being executed, or NoAction
          queue,    \* operations queued behind it
          generation,  \* how many operations were issued
          context   \* _backup_context

localVars == <<world, feed, cached, work, action, queue, generation, context>>

Operations == [kind : {"calculate", "save"}, number : 1 .. MaxIssued]
                \cup [kind : {"update", "recalculate"}, input : Drafts,
                      number : 1 .. MaxIssued]
Results == [input : Drafts, choice : ModelRuns]
Works == [input : Drafts, pinned : ModelRuns \cup {NoRun},
          last : Results \cup {NoResult}, intent : Drafts \cup {NoIntent}]
Evidence == [catalog : [Models -> (SUBSET RunNumbers) \cup {Unread}], payloads : SUBSET ModelRuns]

ASSUME LocalAssumption ==
  /\ MaxIssued \in Nat
  /\ NoIntent \notin Drafts
  /\ NoAction \notin [number : 1 .. MaxIssued, before : Works, stage : {"adopted"}, previous : Works]
  /\ NoAction \notin [number : 1 .. MaxIssued, before : Works, stage : {"acquire", "failed"},
                      evidence : Evidence]

(* forecast_refresh_requested *)
Refreshing(w) == w.intent = w.input

(* An intent does not outlive the input it was announced for. *)
Observed(w) == IF Refreshing(w) THEN w ELSE [w EXCEPT !.intent = NoIntent]

(* A Project that was opened may be pinned to a Run, offered any longer or not. *)
LocalInit ==
  /\ world \in Worlds
  /\ \A c \in ModelRuns : c.model \in world.outside => world.reach[c] = 0
  /\ feed \in [Models -> {{}, {1}}]
  /\ cached = [m \in Models |-> Unread]
  /\ \E d \in Drafts, p \in {NoRun} \cup [model : Models, run : {1}] :
       work = [input |-> d, pinned |-> p, last |-> NoResult, intent |-> NoIntent]
  /\ action = NoAction /\ queue = <<>> /\ generation = 0 /\ context = NoContext

(* The producer publishes the next Run of a model, or drops its oldest one. *)
PublishForecast(m) ==
  /\ \E r \in RunNumbers : (\A q \in feed[m] : q < r) /\ feed' = [feed EXCEPT ![m] = @ \cup {r}]
  /\ UNCHANGED <<world, cached, work, action, queue, generation, context>>

RetireForecast(m) ==
  /\ Cardinality(feed[m]) > 1
  /\ feed' = [feed EXCEPT ![m] = {r \in @ : \E q \in @ : q < r}]
  /\ UNCHANGED <<world, cached, work, action, queue, generation, context>>

Overtaken == generation # action.number

(* execute and saveProject, when the user asks: whatever is in progress is
   overtaken at once, the operation itself waits for its turn. *)
Issue ==
  /\ generation < MaxIssued
  /\ generation' = generation + 1
  /\ \E o \in Operations : o.number = generation' /\ queue' = Append(queue, o)
  /\ UNCHANGED <<world, feed, cached, work, action, context>>

(* The next operation's turn.  An update is committed before the calculation
   that may follow it; a calculation forgets the evidence of earlier ones. *)
Take ==
  /\ action = NoAction /\ queue # <<>>
  /\ LET o == Head(queue)
         updated == IF o.kind \in {"update", "recalculate"}
                    THEN Observed([work EXCEPT !.input = o.input]) ELSE work
     IN /\ work' = updated
        /\ action' = IF o.kind \in {"calculate", "recalculate"}
                     THEN [number |-> o.number, stage |-> "replay", before |-> updated,
                           evidence |-> NoEvidenceYet]
                     ELSE NoAction
  /\ queue' = Tail(queue) /\ context' = NoContext
  /\ UNCHANGED <<world, feed, cached, generation>>

Stage(s) == action # NoAction /\ action.stage = s

Replayed == Calculation(world, action.evidence, work.pinned, Refreshing(work))

Calculated(w, c) ==
  [input |-> w.input, pinned |-> c.choice,
   last |-> IF c.blocked THEN w.last ELSE [input |-> w.input, choice |-> c.choice],
   intent |-> IF c.announced THEN w.input ELSE NoIntent]

(* dispatch "calculate": it suspends for evidence, or ends with a weather
   failure and the session as it was, or with an outcome. *)
Replay ==
  /\ Stage("replay")
  /\ CASE Replayed.kind = "need" ->
            /\ action' = [action EXCEPT !.stage = "acquire"]
            /\ work' = Observed(work)
       [] Replayed.kind = "error" ->
            /\ action' = [action EXCEPT !.stage = "failed"]
            /\ UNCHANGED work
       [] OTHER -> action' = NoAction /\ work' = Calculated(work, Replayed)
  /\ UNCHANGED <<world, feed, cached, queue, generation, context>>

(* acquireWeather: the catalog, new or from the cache; the payload of the Run
   that was asked for, for as long as it can be had. *)
AcquireCatalog ==
  /\ Stage("acquire") /\ Replayed.run = 0
  /\ \E catalog \in {feed[Replayed.model], cached[Replayed.model]} \ {Unread} :
       /\ action' = [action EXCEPT !.stage = "replay",
                                   !.evidence.catalog[Replayed.model] = catalog]
       /\ cached' = [cached EXCEPT ![Replayed.model] = catalog]
  /\ UNCHANGED <<world, feed, work, queue, generation, context>>

AcquirePayload ==
  /\ Stage("acquire") /\ Replayed.run # 0
  /\ action' = [action EXCEPT !.stage = "replay",
                  !.evidence.payloads = @ \cup {[model |-> Replayed.model,
                                                 run |-> Replayed.run]}]
  /\ UNCHANGED <<world, feed, cached, work, queue, generation, context>>

AcquisitionFails ==
  /\ Stage("acquire")
  /\ action' = [action EXCEPT !.stage = "failed"]
  /\ UNCHANGED <<world, feed, cached, work, queue, generation, context>>

GiveUp == action' = NoAction /\ UNCHANGED work

(* The failed calculation asks the backup server, unless it was overtaken. *)
PrepareBackup ==
  /\ Stage("failed")
  /\ IF Overtaken THEN GiveUp /\ UNCHANGED context
     ELSE /\ work' = Observed(work)
          /\ context' = [input |-> work.input, pinned |-> work.pinned,
                         refresh |-> Refreshing(work)]
          /\ action' = [number |-> action.number, before |-> action.before,
                        stage |-> "backup"]
  /\ UNCHANGED <<world, feed, cached, queue, generation>>

(* The backup server knows MSM only: it takes the newest Run that covers the
   expected times, or the pinned Run whatever its model, and returns a result
   if that covers the computed times too. *)
Answer(c) ==
  LET covering(l) == {r \in feed["MSM"] : Check(world, [catalog |-> feed, payloads |-> ModelRuns],
                                                "MSM", r, l).kind = "run"}
      newest == {r \in covering(1) : \A q \in covering(1) : q <= r}
      taken == IF c.pinned = NoRun \/ c.refresh THEN newest ELSE {c.pinned.run} \cap covering(1)
  IN {[input |-> c.input, choice |-> [model |-> "MSM", run |-> r],
       announced |-> taken # newest] : r \in taken \cap covering(world.flight["MSM"])}

ServerAnswers ==
  /\ Stage("backup") /\ ~Overtaken
  /\ \E a \in Answer(context) :
       action' = [number |-> action.number, before |-> action.before,
                  stage |-> "answered", answer |-> a]
  /\ UNCHANGED <<world, feed, cached, work, queue, generation, context>>

(* The server refuses, fails or is out of reach, or the wait is aborted. *)
BackupFails ==
  /\ Stage("backup")
  /\ GiveUp
  /\ UNCHANGED <<world, feed, cached, queue, generation, context>>

(* The conditions of adopt_forecast_backup. *)
Fixed(a, c) == c.refresh \/ c.pinned = NoRun \/ a.choice = c.pinned
Adoptable(a) ==
  /\ context # NoContext
  /\ [input |-> work.input, pinned |-> work.pinned] = [input |-> context.input,
                                                       pinned |-> context.pinned]
  /\ a.input = context.input
  /\ Fixed(a, context)

Adopt ==
  /\ Stage("answered")
  /\ LET a == action.answer
     IN IF Overtaken \/ ~Adoptable(a) THEN GiveUp /\ UNCHANGED context
        ELSE /\ work' = [input |-> work.input, pinned |-> a.choice,
                         last |-> [input |-> a.input, choice |-> a.choice],
                         intent |-> IF a.announced THEN a.input ELSE NoIntent]
             /\ context' = NoContext
             /\ action' = [number |-> action.number, before |-> action.before,
                           stage |-> "adopted", previous |-> work]
  /\ UNCHANGED <<world, feed, cached, queue, generation>>

\* (broken) what was adopted stays although the user went on
SettleAsAdopted ==
  /\ Stage("adopted")
  /\ action' = NoAction
  /\ UNCHANGED <<world, feed, cached, work, queue, generation, context>>

(* Overtaken while the worker adopted: the previous state is put back before
   the operation that overtook it runs.  A restored session has no intent. *)
Settle ==
  /\ Stage("adopted")
  /\ work' = IF Overtaken THEN [action.previous EXCEPT !.intent = NoIntent] ELSE work
  /\ context' = IF Overtaken THEN NoContext ELSE context
  /\ action' = NoAction
  /\ UNCHANGED <<world, feed, cached, queue, generation>>

LocalStep == \/ Take \/ Replay \/ AcquireCatalog \/ AcquirePayload \/ AcquisitionFails
             \/ PrepareBackup \/ ServerAnswers \/ BackupFails \/ Adopt \/ Settle

LocalNext == \/ Issue \/ LocalStep
             \/ \E m \in Models : PublishForecast(m) \/ RetireForecast(m)

LocalSpec == LocalInit /\ [][LocalNext]_localVars

(****************************************************************************)
(* Properties.                                                              *)
(****************************************************************************)

ActionStages == {"replay", "acquire", "failed", "backup", "answered", "adopted"}

LocalTypeOK ==
  /\ world \in Worlds /\ feed \in [Models -> SUBSET RunNumbers]
  /\ cached \in [Models -> (SUBSET RunNumbers) \cup {Unread}]
  /\ work \in Works
  /\ action # NoAction => action.stage \in ActionStages /\ action.before \in Works
  /\ generation \in 0 .. MaxIssued /\ Len(queue) <= generation
  /\ context # NoContext => context.pinned \in ModelRuns \cup {NoRun}

(* A replay with part of the evidence may ask for more but never decides other
   than all of it would: the outcome is that of every catalog and payload. *)
EvidenceSuffices ==
  /\ LocalTypeOK
  /\ Stage("replay") /\ Replayed.kind = "outcome"
    => LET e == action.evidence
           catalog == [m \in Models |-> IF e.catalog[m] = Unread THEN RunNumbers
                                        ELSE e.catalog[m]]
       IN Replayed = Calculation(world, [catalog |-> catalog, payloads |-> ModelRuns],
                                 work.pinned, Refreshing(work))

(* The pinned Run of a Project is replaced only by the first choice, by the
   second click on unchanged input, by GSM where every MSM Run of the catalog
   is excluded for the flight, or by putting back what it was. *)
PinnedKept ==
  [][work'.pinned # work.pinned
       => \/ work.pinned = NoRun
          \/ Refreshing(work)
          \/ /\ Stage("replay")
             /\ work.pinned.model = "MSM" /\ work'.pinned.model = "GSM"
             /\ MsmExcluded(world, action.evidence.catalog["MSM"], world.flight["MSM"])
          \/ Stage("adopted") /\ work'.pinned = action.before.pinned]_localVars

(* The session is the one the calculation began with, but for the intent. *)
Untouched == work' = [action.before EXCEPT !.intent = work'.intent]

(* The last good result is that of its input with the Run that is pinned. *)
Whole == /\ work'.input = action.before.input
         /\ work'.last = [input |-> action.before.input, choice |-> work'.pinned]

EndOfCalculation ==
  /\ Stage("replay") =>
       IF Replayed.blocked
       THEN work'.input = action.before.input /\ work'.last = action.before.last
       ELSE Whole
  /\ Stage("adopted") /\ ~Overtaken => Whole
  /\ ~Stage("replay") /\ (Overtaken \/ ~Stage("adopted")) => Untouched

(* However a calculation ends, it leaves no half of a result: its own outcome is
   taken whole, and a failure, or a result of the backup server that is not
   adopted or adopted too late, leaves input, pinned Run and last good result as
   they were.  Only the latter asks whether the user went on: an outcome of the
   calculation itself is kept (and saved) even if another operation overtook it
   while it replayed or acquired (localApplication.ts:125, 178). *)
EndsWholeOrUntouched ==
  [][action # NoAction /\ action' = NoAction => EndOfCalculation]_localVars
=============================================================================

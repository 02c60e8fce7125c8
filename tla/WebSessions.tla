----------------------------- MODULE WebSessions ------------------------------
(***************************************************************************)
(* The working sessions of the web application                             *)
(* (src/src/autonavlog/web/facade.py) over the durable Projects of one     *)
(* owner.  A request holds its session's lock to the end; the table of     *)
(* sessions has a lock of its own, so a session can be evicted or          *)
(* invalidated while its calculation runs, and several sessions work on    *)
(* one Project.  A calculation is two steps, for the requests of other     *)
(* sessions and the arrival of a forecast come between them.  Inputs stand *)
(* for everything the two fingerprints of a Project cover; a forecast Run  *)
(* is its number.  The files behind the store are those of OwnerStorage.   *)
(***************************************************************************)
EXTENDS Naturals, FiniteSets, Sequences, SequencesExt

CONSTANTS WebProjects,      \* Project ids
          Inputs,           \* values of a Project's editable inputs
          FtdInputs,        \* those in fixed-weather (FTD) mode
          MaximumSessions,  \* maximum_sessions
          MaxTokens,        \* bound: sessions ever created
          MaxRun,           \* bound: forecast Runs ever published
          MaxSaves,         \* bound: checkpoint revisions of a Project
          MaxRequests,      \* bound: edits, calculations, loads and saves
          MaxWriteFaults,   \* bound: writes of the store that raise
          Nothing           \* no Project, outcome, Run or fingerprint

VARIABLES table,     \* tokens in _sessions
          order,     \* _session_order
          mem,       \* token -> WebSession; an evicted one lives on in its threads
          running,   \* token -> the calculation that holds the session's lock
          store,     \* what project_service keeps
          newest,    \* the newest forecast Run
          told,      \* history: token -> the rounding mode a newer Run was announced in, until
                     \*   the inputs change
          requests, writeFaults

webVars == <<table, order, mem, running, store, newest, told, requests, writeFaults>>

Tokens == 1 .. MaxTokens
Runs == (1 .. MaxRun) \cup {Nothing}
Fingerprints == (Inputs \X Runs) \cup {Nothing}
WebProject == [id : WebProjects, input : Inputs, run : Runs, revision : 0 .. MaxSaves,
               calculatedAgainst : Fingerprints]
Outcome == [of : Inputs \X Runs, run : Runs, rounded : BOOLEAN, blocked : BOOLEAN]
Working == [project : WebProject, outcome : Outcome]
WebSession == [project : WebProject \cup {Nothing}, outcome : Outcome \cup {Nothing},
               last : Working \cup {Nothing},
               intent : (WebProjects \X Inputs \X BOOLEAN) \cup {Nothing},
               rounding : BOOLEAN, persist : BOOLEAN]

ASSUME WebAssumption == /\ FtdInputs \subseteq Inputs
                        /\ {MaximumSessions, MaxRun} \subseteq Nat \ {0}
                        /\ {MaxTokens, MaxSaves, MaxRequests, MaxWriteFaults} \subseteq Nat
                        /\ Nothing \notin Nat \cup WebProjects \cup Inputs \cup WebProject
                                     \cup (WebProjects \X Inputs \X BOOLEAN)

Blank(persist) == [project |-> Nothing, outcome |-> Nothing, last |-> Nothing,
                   intent |-> Nothing, rounding |-> FALSE, persist |-> persist]
NoStore == [draft |-> [p \in WebProjects |-> Nothing], saved |-> [p \in WebProjects |-> Nothing],
            record |-> [p \in WebProjects |-> Nothing], opened |-> Nothing, latest |-> Nothing]

WebTypeOK ==
  /\ table \subseteq Tokens /\ order \in Seq(Tokens)
  /\ DOMAIN mem \subseteq Tokens /\ \A t \in DOMAIN mem : mem[t] \in WebSession
  /\ DOMAIN running \subseteq DOMAIN mem
  /\ \A p \in WebProjects : /\ store.draft[p] \in WebProject \cup {Nothing}
                            /\ store.saved[p] \in WebProject \cup {Nothing}
                            /\ store.record[p] \in Working \cup {Nothing}
  /\ {store.opened, store.latest} \subseteq WebProjects \cup {Nothing}
  /\ newest \in 1 .. MaxRun
  /\ requests \in 0 .. MaxRequests /\ writeFaults \in 0 .. MaxWriteFaults

(* The server starts with nothing, or with a calculated draft to resume. *)
CalculatedDraft(p, input) ==
  LET run == IF input \in FtdInputs THEN Nothing ELSE 1
      project == [id |-> p, input |-> input, run |-> run, revision |-> 0,
                  calculatedAgainst |-> <<input, run>>]
      outcome == [of |-> <<input, run>>, run |-> run, rounded |-> FALSE, blocked |-> FALSE]
  IN [NoStore EXCEPT !.draft[p] = project, !.opened = p, !.latest = p,
                     !.record[p] = [project |-> project, outcome |-> outcome]]

WebInit ==
  /\ table = {} /\ order = <<>> /\ mem = <<>> /\ running = <<>>
  /\ \/ store = NoStore
     \/ \E p \in WebProjects, input \in Inputs : store = CalculatedDraft(p, input)
  /\ newest = 1 /\ told = <<>>
  /\ requests = 0 /\ writeFaults = 0

(* --- fingerprints ------------------------------------------------------ *)
Ftd(project) == project.input \in FtdInputs
CalculationFingerprint(project) == <<project.input, project.run>>
ForecastFingerprint(project, rounding) == <<project.id, project.input, rounding>>

(* evaluate_readiness: calculation_is_current *)
IsCurrent(project, outcome) ==
  outcome # Nothing /\ project.calculatedAgainst = CalculationFingerprint(project)

(* forecast_refresh_requested *)
RefreshRequested(session, rounding) ==
  /\ session.project # Nothing
  /\ ~Ftd(session.project)
  /\ session.intent = ForecastFingerprint(session.project, rounding)

\* (broken) an announcement is forgotten only when it is used
PresentedAsIs(session) == session

(* _present_unlocked ends every request: it observes each change of inputs. *)
Presented(session) ==
  IF RefreshRequested(session, session.rounding) THEN session
  ELSE [session EXCEPT !.intent = Nothing]

(* --- the durable store ------------------------------------------------- *)
Loadable(s, p) ==
  IF s.draft[p] = Nothing THEN s.saved[p]
  ELSE IF s.saved[p] = Nothing THEN s.draft[p]
  ELSE IF s.saved[p].revision > s.draft[p].revision THEN s.saved[p] ELSE s.draft[p]

Forget(s, p) == [s EXCEPT !.draft[p] = Nothing, !.saved[p] = Nothing, !.record[p] = Nothing]

(* LocalProjectRepository.autosave *)
Autosaved(s, project, setOpened) ==
  LET p == project.id
      written == [s EXCEPT !.draft[p] = project]
      selected == [written EXCEPT !.opened = p,
                                  !.latest = IF s.saved[p] = Nothing THEN p ELSE Nothing]
      superseded == s.latest # Nothing /\ s.latest # p
  IN IF ~setOpened /\ s.opened # p THEN written
     ELSE IF superseded /\ s.saved[s.latest] = Nothing THEN Forget(selected, s.latest)
     ELSE selected

(* _persist_draft *)
Persisted(session, project, setOpened) ==
  IF session.persist THEN Autosaved(store, project, setOpened) ELSE store

WriteFault == writeFaults < MaxWriteFaults /\ writeFaults' = writeFaults + 1
Request(t) == /\ t \in table /\ t \notin DOMAIN running
              /\ requests < MaxRequests /\ requests' = requests + 1

(* session(): every request makes its session the most recently used. *)
Touched(t) == order' = Append(RemoveFirst(order, t), t)

(* The inputs seen by the owner of the session are no longer those the     *)
(* announcement of a newer Run was made for.                               *)
Disturbed(t, session) ==
  IF mem[t].project # Nothing /\ session.project # Nothing
     /\ ForecastFingerprint(mem[t].project, mem[t].rounding)
          = ForecastFingerprint(session.project, session.rounding)
  THEN told ELSE [told EXCEPT ![t] = Nothing]

Announcement(t, update) ==
  [told EXCEPT ![t] = IF update THEN running[t].rounding ELSE Nothing]

Commit(t, session) ==
  /\ mem' = [mem EXCEPT ![t] = Presented(session)]
  /\ told' = Disturbed(t, session)

(* --- the table of sessions --------------------------------------------- *)
(* _reset_rounding_mode: a restored result is not a saved preference. *)
ResetRounding(session) ==
  IF \/ session.outcome # Nothing /\ session.outcome.rounded
     \/ session.last # Nothing /\ session.last.outcome.rounded
  THEN [session EXCEPT !.rounding = FALSE, !.outcome = Nothing, !.last = Nothing]
  ELSE [session EXCEPT !.rounding = FALSE]

(* _restore_project *)
Restored(session, s, p) ==
  LET record == s.record[p]
  IN ResetRounding([session EXCEPT
       !.project = Loadable(s, p),
       !.outcome = IF record = Nothing THEN Nothing ELSE record.outcome,
       !.last = record])

Evicted == IF Len(order) < MaximumSessions THEN order
           ELSE SubSeq(order, Len(order) - MaximumSessions + 2, Len(order))

Install(session) ==
  LET t == Cardinality(DOMAIN mem) + 1
      kept == Evicted
  IN /\ t \in Tokens
     /\ order' = Append(kept, t)
     /\ table' = {kept[i] : i \in 1 .. Len(kept)} \cup {t}
     /\ mem' = [u \in DOMAIN mem \cup {t} |-> IF u = t THEN Presented(session) ELSE mem[u]]
     /\ told' = [u \in DOMAIN mem \cup {t} |-> IF u = t THEN Nothing ELSE told[u]]
     /\ UNCHANGED <<running, store, newest, requests, writeFaults>>

(* create_session for a cookie: it autosaves, and resumes what was opened. *)
CreateCookieSession ==
  LET p == store.opened
  IN Install(IF p # Nothing /\ Loadable(store, p) # Nothing
             THEN Restored(Blank(TRUE), store, p) ELSE Blank(TRUE))

(* create_session for a tab: blank, or hydrated by restore_working with the *)
(* working copy a session has presented before.                             *)
CreateTabSession(source, keepRounding) ==
  LET from == mem[source]
      hydrated == [from EXCEPT !.intent = Nothing, !.persist = FALSE]
  IN IF source \in DOMAIN mem
     THEN Install(IF keepRounding THEN hydrated ELSE ResetRounding(hydrated))
     ELSE Install(Blank(FALSE))

(* invalidate_session; ending the cookie session clears the marker too. *)
Invalidate(t, clearLastOpened) ==
  /\ t \in table
  /\ table' = table \ {t}
  /\ order' = RemoveFirst(order, t)
  /\ store' = IF clearLastOpened THEN [store EXCEPT !.opened = Nothing] ELSE store
  /\ UNCHANGED <<mem, running, newest, told, requests, writeFaults>>

Restart ==
  /\ table # {} \/ running # <<>>
  /\ table' = {} /\ order' = <<>> /\ running' = <<>>
  /\ UNCHANGED <<mem, store, newest, told, requests, writeFaults>>

(* --- requests that change the working Project -------------------------- *)
AcceptImport(t) ==
  /\ Request(t) /\ Touched(t)
  /\ Commit(t, [mem[t] EXCEPT !.project = Nothing, !.outcome = Nothing, !.rounding = FALSE])
  /\ UNCHANGED <<table, running, store, newest, writeFaults>>

(* confirm_route creates the Project and makes it the one to resume. *)
ConfirmRoute(t, p, input) ==
  LET project == [id |-> p, input |-> input, run |-> Nothing, revision |-> 0,
                  calculatedAgainst |-> Nothing]
  IN /\ Request(t) /\ Touched(t)
     /\ \A u \in DOMAIN mem : mem[u].project # Nothing => mem[u].project.id # p
     /\ Loadable(store, p) = Nothing
     /\ store' = Persisted(mem[t], project, TRUE)
     /\ Commit(t, [mem[t] EXCEPT !.project = project, !.outcome = Nothing])
     /\ UNCHANGED <<table, running, newest, writeFaults>>

(* _updated_project: changing the weather mode drops the selected Run. *)
Updated(project, input) ==
  [project EXCEPT !.input = input,
                  !.run = IF Ftd(project) = (input \in FtdInputs) THEN @ ELSE Nothing]

\* (broken) the session has the edit before it is durable
EditedFirst(t, project) ==
  /\ Commit(t, [mem[t] EXCEPT !.project = project])
  /\ \/ store' = Persisted(mem[t], project, FALSE) /\ UNCHANGED writeFaults
     \/ WriteFault /\ mem[t].persist /\ UNCHANGED store

(* An edited draft is durable before the session has it: the end of        *)
(* update_project, replace_check_points and _confirm_route_edit.           *)
Edited(t, project) ==
  \/ /\ store' = Persisted(mem[t], project, FALSE)
     /\ Commit(t, [mem[t] EXCEPT !.project = project])
     /\ UNCHANGED writeFaults
  \/ WriteFault /\ mem[t].persist /\ UNCHANGED <<store, mem, told>>

Update(t, input) ==
  /\ Request(t) /\ Touched(t)
  /\ mem[t].project # Nothing
  /\ Edited(t, Updated(mem[t].project, input))
  /\ UNCHANGED <<table, running, newest>>

(* _confirm_route_edit: in the mode it has; an unchanged route is shown as  *)
(* it is and not written.                                                  *)
EditRoute(t, input) ==
  LET project == mem[t].project
  IN /\ Request(t) /\ Touched(t)
     /\ project # Nothing /\ Ftd(project) = (input \in FtdInputs)
     /\ IF input = project.input
        THEN Commit(t, mem[t]) /\ UNCHANGED <<store, writeFaults>>
        ELSE Edited(t, [project EXCEPT !.input = input])
     /\ UNCHANGED <<table, running, newest>>

(* --- calculation ------------------------------------------------------- *)
(* calculate, and update_and_calculate after its edit: the session's lock  *)
(* is taken and _calculate_outcome decides whether to refresh.             *)
StartCalculation(t, kind, rounding, session, s) ==
  /\ Request(t) /\ Touched(t)
  /\ session.project # Nothing
  /\ store' = s
  /\ LET refresh == RefreshRequested(session, rounding)
         asked == [session EXCEPT !.intent = IF refresh THEN @ ELSE Nothing]
     IN /\ running' = [u \in DOMAIN running \cup {t} |->
                         IF u = t THEN [kind |-> kind, rounding |-> rounding, refresh |-> refresh]
                         ELSE running[u]]
        /\ mem' = [mem EXCEPT ![t] = asked]
        /\ told' = Disturbed(t, session)
  /\ UNCHANGED <<table, newest, writeFaults>>

Calculate(t, rounding) ==
  t \in DOMAIN mem /\ StartCalculation(t, "calculate", rounding, mem[t], store)

UpdateAndCalculate(t, input) ==
  /\ t \in DOMAIN mem /\ mem[t].project # Nothing
  /\ LET session == [mem[t] EXCEPT !.project = Updated(@, input)]
     IN StartCalculation(t, "update", session.rounding, session,
                         Persisted(session, session.project, FALSE))

Ends(t) == running' = [u \in DOMAIN running \ {t} |-> running[u]]

(* An exception in the calculation leaves the session as it was. *)
CalculationRaises(t) ==
  /\ t \in DOMAIN running
  /\ Ends(t)
  /\ UNCHANGED <<table, order, mem, store, newest, told, requests, writeFaults>>

(* The Run a calculation selects and whether it announces a newer one.     *)
(* When no Run can be used the outcome is blocked and keeps the pinned one. *)
Selections(project, refresh) ==
  LET pinned == project.run
      free == refresh \/ pinned = Nothing
  IN IF Ftd(project) THEN [run : {Nothing}, update : {FALSE}, blocked : BOOLEAN]
     ELSE [run : {IF free THEN newest ELSE pinned},
           update : {~free /\ newest > pinned}, blocked : BOOLEAN]
          \cup [run : {pinned}, update : {FALSE, ~free}, blocked : {TRUE}]

\* (broken) a blocked outcome is recorded too
RecordedAny(session, project, outcome) ==
  [session EXCEPT !.last = [project |-> project, outcome |-> outcome]]

(* record_calculation keeps the last calculation that is not blocked. *)
Recorded(session, project, outcome) ==
  IF outcome.blocked THEN session
  ELSE [session EXCEPT !.last = [project |-> project, outcome |-> outcome]]

(* _calculate_outcome's last effect, record_calculation and                *)
(* _persist_calculation: the draft, then the last good calculation.        *)
FinishCalculation(t) ==
  /\ t \in DOMAIN running
  /\ \E selection \in Selections(mem[t].project, running[t].refresh) :
       LET job == running[t]
           run == selection.run
           blocked == selection.blocked
           project == [mem[t].project EXCEPT
                         !.run = run, !.calculatedAgainst = <<mem[t].project.input, run>>]
           outcome == [of |-> <<mem[t].project.input, run>>, run |-> run,
                       rounded |-> job.rounding, blocked |-> blocked]
           announced == [mem[t] EXCEPT
                           !.intent = IF selection.update
                                      THEN ForecastFingerprint(project, job.rounding) ELSE Nothing]
           good == Recorded(announced, project, outcome)
           drafted == Persisted(mem[t], project, FALSE)
           done == Presented([good EXCEPT !.project = project, !.outcome = outcome,
                                          !.rounding = job.rounding])
       IN \/ (* the mode changed and the outcome is blocked: raise *)
             /\ blocked /\ job.rounding # mem[t].rounding
             /\ mem' = [mem EXCEPT ![t] = announced]
             /\ UNCHANGED <<store, writeFaults>>
             /\ told' = Announcement(t, selection.update)
          \/ /\ ~(blocked /\ job.rounding # mem[t].rounding)
             /\ mem' = [mem EXCEPT ![t] = done]
             /\ store' = IF blocked \/ ~mem[t].persist THEN drafted
                         ELSE [drafted EXCEPT !.record[project.id] = good.last]
             /\ told' = Announcement(t, selection.update)
             /\ UNCHANGED writeFaults
          \/ (* a write raises *)
             /\ ~(blocked /\ job.rounding # mem[t].rounding)
             /\ mem[t].persist /\ WriteFault
             /\ \/ /\ mem' = [mem EXCEPT ![t] = announced]
                   /\ UNCHANGED store
                \/ /\ ~blocked
                   /\ mem' = [mem EXCEPT ![t] = IF job.kind = "calculate" THEN announced ELSE good]
                   /\ store' = drafted
             /\ told' = Announcement(t, selection.update)
  /\ Ends(t)
  /\ UNCHANGED <<table, order, newest, requests>>

(* --- the saved Projects ------------------------------------------------ *)
Revise(s, project) ==
  [s EXCEPT !.saved[project.id] = project,
            !.latest = IF @ = project.id THEN Nothing ELSE @]

(* save: draft, checkpoint, refreshed draft; a tab's session also makes    *)
(* its last good calculation durable and selects the Project.              *)
SaveProject(t) ==
  LET session == mem[t]
      project == session.project
      current == store.saved[project.id]
      conflict == IF current = Nothing THEN project.revision # 0
                  ELSE current.revision # project.revision
      drafted == Persisted(session, project, FALSE)
      revised == [project EXCEPT !.revision = @ + 1]
      last == session.last
      mine == last # Nothing /\ last.project.id = project.id
      recorded(s) == IF session.persist THEN s
                     ELSE [s EXCEPT !.record[project.id] = IF mine THEN last ELSE @,
                                    !.opened = project.id]
  IN /\ Request(t) /\ Touched(t)
     /\ session.project # Nothing
     /\ project.revision < MaxSaves
     /\ \/ conflict /\ store' = drafted /\ UNCHANGED <<mem, told, writeFaults>>
        \/ /\ ~conflict
           /\ LET checkpoint == Revise(drafted, revised)
                  full == Autosaved(checkpoint, revised, FALSE)
              IN \/ /\ store' = recorded(full) /\ UNCHANGED writeFaults
                 \/ WriteFault /\ store' \in {recorded(checkpoint), full}
           /\ Commit(t, [session EXCEPT !.project = revised])
     /\ UNCHANGED <<table, running, newest>>

(* load: the last calculation is taken over before the selection is made   *)
(* durable, and stays when that raises.                                    *)
LoadProject(t, p) ==
  /\ Request(t) /\ Touched(t)
  /\ Loadable(store, p) # Nothing
  /\ \/ /\ store' = IF mem[t].persist THEN [store EXCEPT !.opened = p] ELSE store
        /\ mem' = [mem EXCEPT ![t] =
                     Presented([Restored(mem[t], store, p) EXCEPT !.intent = Nothing])]
        /\ told' = [told EXCEPT ![t] = Nothing]
        /\ UNCHANGED writeFaults
     \/ /\ mem[t].persist /\ WriteFault
        /\ mem' = [mem EXCEPT ![t].last = store.record[p]]
        /\ UNCHANGED <<store, told>>
  /\ UNCHANGED <<table, running, newest>>

DeleteProject(t, p) ==
  /\ Request(t) /\ Touched(t)
  /\ Loadable(store, p) # Nothing
  /\ store' = [Forget(store, p) EXCEPT !.opened = IF @ = p THEN Nothing ELSE @,
                                       !.latest = IF @ = p THEN Nothing ELSE @]
  /\ IF mem[t].project # Nothing /\ mem[t].project.id = p
     THEN Commit(t, [mem[t] EXCEPT !.project = Nothing, !.outcome = Nothing])
     ELSE UNCHANGED <<mem, told>>
  /\ UNCHANGED <<table, running, newest, writeFaults>>

PublishRun ==
  /\ newest < MaxRun
  /\ newest' = newest + 1
  /\ UNCHANGED <<table, order, mem, running, store, told, requests, writeFaults>>

WebNext ==
  \/ CreateCookieSession
  \/ \E source \in 0 .. MaxTokens, keepRounding \in BOOLEAN : CreateTabSession(source, keepRounding)
  \/ \E t \in Tokens :
       \/ \E clear \in BOOLEAN : Invalidate(t, clear)
       \/ AcceptImport(t) \/ SaveProject(t)
       \/ \E p \in WebProjects, input \in Inputs : ConfirmRoute(t, p, input)
       \/ \E input \in Inputs : Update(t, input) \/ EditRoute(t, input) \/ UpdateAndCalculate(t, input)
       \/ \E rounding \in BOOLEAN : Calculate(t, rounding)
       \/ CalculationRaises(t) \/ FinishCalculation(t)
       \/ \E p \in WebProjects : LoadProject(t, p) \/ DeleteProject(t, p)
  \/ Restart \/ PublishRun

WebSpec == WebInit /\ [][WebNext]_webVars
-----------------------------------------------------------------------------
(* The table of sessions and the order of their use never part, whatever   *)
(* evictions, logouts and requests come together: neither session() nor    *)
(* the eviction loop meets a token the other has dropped.                  *)
TableInOrder ==
  /\ table = {order[i] : i \in 1 .. Len(order)}
  /\ Len(order) = Cardinality(table)
  /\ Len(order) <= MaximumSessions

(* A last good calculation is an unblocked outcome with the very inputs it *)
(* was computed from.                                                      *)
Paired(record) ==
  record # Nothing =>
    /\ ~record.outcome.blocked
    /\ record.outcome.of = CalculationFingerprint(record.project)
    /\ record.project.calculatedAgainst = record.outcome.of

(* A rounded result is never shown in a session whose rounding is off.     *)
RoundedOnlyInMode ==
  \A t \in DOMAIN mem :
    mem[t].outcome # Nothing /\ mem[t].outcome.rounded => mem[t].rounding

(* What is kept of calculations, in memory or durable, is what it says it  *)
(* is, also when the draft was edited, saved, reloaded, hydrated in a tab  *)
(* or failed to be written in between.                                     *)
WebConsistent ==
  /\ WebTypeOK /\ TableInOrder /\ RoundedOnlyInMode
  /\ \A t \in DOMAIN mem : Paired(mem[t].last)
  /\ \A p \in WebProjects : /\ Paired(store.record[p])
                            /\ store.record[p] # Nothing => store.record[p].project.id = p

(* A calculation replaces the pinned forecast Run only as the second click *)
(* in the same rounding mode on inputs that nobody changed since an update *)
(* was announced for them.                                                 *)
RefreshIsSecondClick ==
  [][\A t \in DOMAIN running' \ DOMAIN running : running'[t].refresh => told'[t] = running'[t].rounding]_webVars

(* What an autosaving session works on is durable first: a reload in its   *)
(* place would find the Project the session has just committed, unless     *)
(* another session has saved a newer revision of it.                       *)
DurableFirst ==
  [][\A t \in DOMAIN mem \cap DOMAIN mem' :
       LET project == mem'[t].project
       IN mem'[t].persist /\ project # Nothing /\ project # mem[t].project
            => \/ Loadable(store', project.id) = project
               \/ Loadable(store', project.id).revision > project.revision]_webVars

=============================================================================

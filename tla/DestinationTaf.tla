---------------------------- MODULE DestinationTaf ----------------------------
(* The wind at the destination: calculations that run at the same time ask  *)
(* for the TAF of an airport at their arrival time.  They share one download *)
(* per airport and a small number of downloads in all; a calculation waits   *)
(* for a limited time while the download may end whenever it likes, and is   *)
(* repeated until the wind it was made with is the wind at its arrival.      *)
(*                                                                           *)
(* A wind is "north" or "south" (a direction and a speed), "variable" or     *)
(* "unreadable".  Gusts, texts, issue times and the reason why there is no   *)
(* wind are left out.                                                        *)
EXTENDS Naturals, Sequences, FiniteSets

CONSTANTS
  Callers,        \* calculations, each in a thread
  TafAirports,
  Responses,      \* of each airport the answers of the service, in the order they appear
  Arrivals,       \* arrival times a calculation may find
  MaxSlots,       \* maximum_concurrent_fetches
  CacheTtl,
  MaxFetches,     \* bound: downloads ever started
  MaxTafClock,    \* bound: the clock
  NoTime, NoWind, NoFetch

ASSUME TafAssumption == /\ {MaxSlots, CacheTtl, MaxFetches, MaxTafClock} \subseteq Nat \ {0}
                        /\ Arrivals \subseteq Nat /\ NoFetch \notin Nat

Rounds == 3

VARIABLES
  tafClock, upstream,  \* the time; how many answers the service has changed to
  cache,      \* _cache: of each airport when its records came, and the records
  inflight,   \* _inflight: of each airport its download
  fetches,    \* every download that was begun
  slots,      \* _fetch_slots
  caller      \* the calculation of each thread

tafVars == <<tafClock, upstream, cache, inflight, fetches, slots, caller>>

Unavailable == [available |-> FALSE, wind |-> NoWind]

(* _select: the airport's most recent TAF, else its first; of its groups the last
   that prevails at the time, the end of the TAF included.                      *)
Select(records, airport, time) ==
  LET mine == SelectSeq(records, LAMBDA r : r.airport = airport)
      recent == SelectSeq(mine, LAMBDA r : r.recent)
      taf == IF recent = <<>> THEN mine[1] ELSE recent[1]
      prevails(g) == /\ g.change \notin {"TEMPO", "PROB"}
                     /\ \/ g.from <= time /\ time < g.to
                        \/ time = taf.to /\ time = g.to
      groups == SelectSeq(taf.groups, prevails)
      wind == groups[Len(groups)].wind
  IN IF mine = <<>> THEN Unavailable
     ELSE IF ~(taf.from <= time /\ time <= taf.to) THEN Unavailable
     ELSE IF groups = <<>> \/ wind = "unreadable" THEN Unavailable
     ELSE [available |-> TRUE, wind |-> wind]

(* _destination_wind_signature: what a calculation tells apart. *)
Signature(forecast) ==
  IF forecast = NoWind THEN NoWind
  ELSE IF forecast.available /\ forecast.wind # "variable" THEN forecast.wind
  ELSE "CALM_FALLBACK"

Resting == [at |-> "idle", airport |-> NoTime, arrival |-> NoTime, round |-> 0, fetch |-> NoFetch,
            shown |-> NoWind, made |-> NoWind]

TafInit ==
  /\ tafClock = 0 /\ upstream = 1
  /\ cache = [a \in TafAirports |-> [at |-> 0, records |-> NoFetch]]
  /\ inflight = [a \in TafAirports |-> NoFetch]
  /\ fetches = <<>> /\ slots = MaxSlots
  /\ caller = [c \in Callers |-> Resting]

(* calculate: made with a wind, it finds an arrival time or none; blocked by its
   weather, or repeated three times, it is the last.                             *)
Calculated(k, wind, round) ==
  LET made == [k EXCEPT !.made = Signature(wind), !.round = round, !.fetch = NoFetch]
  IN {[made EXCEPT !.at = "done"]}
     \cup {[made EXCEPT !.at = "ask", !.arrival = time] :
              time \in {t \in Arrivals \cup {NoTime} : round < Rounds}}

BeginCalculation(c, airport) ==
  /\ caller[c].at = "idle"
  /\ \E k \in Calculated([Resting EXCEPT !.airport = airport], NoWind, 0) :
        caller' = [caller EXCEPT ![c] = k]
  /\ UNCHANGED <<tafClock, upstream, cache, inflight, fetches, slots>>

(* The calculation goes on with an answer: it is repeated unless the answer is the
   same wind as before.                                                           *)
Used(c, forecast) ==
  LET k == [caller[c] EXCEPT !.shown = forecast, !.fetch = NoFetch]
  IN IF Signature(forecast) = Signature(caller[c].shown)
     THEN caller' = [caller EXCEPT ![c] = [k EXCEPT !.at = "done"]]
     ELSE \E n \in Calculated(k, forecast, k.round + 1) : caller' = [caller EXCEPT ![c] = n]

Fresh(airport) ==
  cache[airport].records # NoFetch /\ tafClock - cache[airport].at < CacheTtl

NewFetch(airport) == [airport |-> airport, state |-> "starting", late |-> FALSE,
                      records |-> NoFetch, at |-> 0]

(* _destination_wind of a result without an arrival time *)
NoArrival(c) ==
  /\ caller[c].at = "ask" /\ caller[c].arrival = NoTime
  /\ Used(c, Unavailable)
  /\ UNCHANGED <<tafClock, upstream, cache, inflight, fetches, slots>>

(* forecast and the first half of _records_with_deadline, under the lock. *)
Consult(c) ==
  LET airport == caller[c].airport
      pending == inflight[airport]
      answer(forecast) == Used(c, forecast) /\ UNCHANGED <<inflight, fetches, slots>>
  IN /\ caller[c].at = "ask" /\ caller[c].arrival # NoTime
     /\ \/ /\ Fresh(airport)
           /\ answer(Select(cache[airport].records, airport, caller[c].arrival))
        \/ /\ ~Fresh(airport)
           /\ \/ /\ pending # NoFetch /\ fetches[pending].late
                 /\ answer(Unavailable)
              \/ /\ pending # NoFetch /\ ~fetches[pending].late
                 /\ caller' = [caller EXCEPT ![c].at = "wait", ![c].fetch = pending]
                 /\ UNCHANGED <<inflight, fetches, slots>>
              \/ /\ pending = NoFetch /\ slots = 0
                 /\ answer(Unavailable)
              \/ /\ pending = NoFetch /\ slots > 0 /\ Len(fetches) < MaxFetches
                 /\ slots' = slots - 1
                 /\ fetches' = Append(fetches, NewFetch(airport))
                 /\ inflight' = [inflight EXCEPT ![airport] = Len(fetches) + 1]
                 /\ caller' = [caller EXCEPT ![c].at = "start", ![c].fetch = Len(fetches) + 1]
     /\ UNCHANGED <<tafClock, upstream, cache>>

(* The thread of the download starts, or cannot be started. *)
WorkerStarts(c) ==
  /\ caller[c].at = "start"
  /\ fetches' = [fetches EXCEPT ![caller[c].fetch].state = "running"]
  /\ caller' = [caller EXCEPT ![c].at = "wait"]
  /\ UNCHANGED <<tafClock, upstream, cache, inflight, slots>>

\* (broken) the slot of a thread that did not start is kept
WorkerKeepsSlot(c) ==
  /\ caller[c].at = "start"
  /\ fetches' = [fetches EXCEPT ![caller[c].fetch].state = "released"]
  /\ inflight' = [inflight EXCEPT ![caller[c].airport] = NoFetch]
  /\ caller' = [caller EXCEPT ![c].at = "raise"]
  /\ UNCHANGED <<tafClock, upstream, cache, slots>>

WorkerCannotStart(c) ==
  /\ caller[c].at = "start"
  /\ fetches' = [fetches EXCEPT ![caller[c].fetch].state = "stored"]
  /\ inflight' = [inflight EXCEPT ![caller[c].airport] = NoFetch]
  /\ caller' = [caller EXCEPT ![c].at = "raise"]
  /\ UNCHANGED <<tafClock, upstream, cache, slots>>

(* It has freed the slot and woken those that joined it. *)
StartRaises(c) ==
  /\ caller[c].at = "raise" /\ fetches[caller[c].fetch].state = "completed"
  /\ Used(c, Unavailable)
  /\ UNCHANGED <<tafClock, upstream, cache, inflight, fetches, slots>>

(* The second half: the download has ended, or the wait has. *)
WaitEnds(c) ==
  LET fetch == fetches[caller[c].fetch]
  IN /\ caller[c].at = "wait" /\ fetch.state = "completed"
     /\ Used(c, IF fetch.records = NoFetch THEN Unavailable
                ELSE Select(fetch.records, caller[c].airport, caller[c].arrival))
     /\ UNCHANGED <<tafClock, upstream, cache, inflight, fetches, slots>>

WaitTimesOut(c) ==
  /\ caller[c].at = "wait" /\ fetches[caller[c].fetch].state # "completed"
  /\ caller' = [caller EXCEPT ![c].at = "late"]
  /\ UNCHANGED <<tafClock, upstream, cache, inflight, fetches, slots>>

MarkLate(c) ==
  /\ caller[c].at = "late"
  /\ fetches' = [fetches EXCEPT ![caller[c].fetch].late = TRUE]
  /\ Used(c, Unavailable)
  /\ UNCHANGED <<tafClock, upstream, cache, inflight, slots>>

(* _complete_fetch: the answer of the service or an error, what is kept of it, and
   the ends of the slot and of the wait.                                          *)
Advance(f, from, to) == fetches[f].state = from /\ fetches' = [fetches EXCEPT ![f].state = to]

Download(f) ==
  /\ fetches[f].state = "running"
  /\ \E records \in {Responses[fetches[f].airport][upstream], NoFetch} :
        fetches' = [fetches EXCEPT ![f].state = "downloaded", ![f].records = records,
                                     ![f].at = tafClock]
  /\ UNCHANGED <<tafClock, upstream, cache, inflight, slots, caller>>

Store(f) ==
  LET airport == fetches[f].airport
  IN /\ Advance(f, "downloaded", "stored")
     /\ cache' = IF fetches[f].records = NoFetch THEN cache
                 ELSE [cache EXCEPT ![airport] = [at |-> fetches[f].at, records |-> fetches[f].records]]
     /\ inflight' = IF inflight[airport] = f THEN [inflight EXCEPT ![airport] = NoFetch] ELSE inflight
     /\ UNCHANGED <<tafClock, upstream, slots, caller>>

Release(f) ==
  /\ Advance(f, "stored", "released")
  /\ slots' = slots + 1
  /\ UNCHANGED <<tafClock, upstream, cache, inflight, caller>>

Complete(f) ==
  /\ Advance(f, "released", "completed")
  /\ UNCHANGED <<tafClock, upstream, cache, inflight, slots, caller>>

Publish == /\ \A a \in TafAirports : upstream < Len(Responses[a])
           /\ upstream' = upstream + 1
           /\ UNCHANGED <<tafClock, cache, inflight, fetches, slots, caller>>

TafTick == /\ tafClock < MaxTafClock /\ tafClock' = tafClock + 1
           /\ UNCHANGED <<upstream, cache, inflight, fetches, slots, caller>>

TafNext ==
  \/ \E c \in Callers : \/ \E a \in TafAirports : BeginCalculation(c, a)
                        \/ NoArrival(c) \/ Consult(c)
                        \/ WorkerStarts(c) \/ WorkerCannotStart(c) \/ StartRaises(c)
                        \/ WaitEnds(c) \/ WaitTimesOut(c) \/ MarkLate(c)
  \/ \E f \in DOMAIN fetches : Download(f) \/ Store(f) \/ Release(f) \/ Complete(f)
  \/ Publish \/ TafTick

TafSpec == TafInit /\ [][TafNext]_tafVars

-----------------------------------------------------------------------------
(* What must hold. *)

Holding == {f \in DOMAIN fetches : fetches[f].state \in {"starting", "running", "downloaded", "stored"}}
Downloading == {f \in Holding : fetches[f].state # "stored"}

\* Downloads are shared and never lost: the free slots are those no working download
\* holds; an airport has one download at a time and is kept from a new one, after a
\* wait that ended without it, only while that download still works; a download that
\* works has a thread, and a calculation waits only for a download that works or ended
\* (weather/destination_taf.py, _records_with_deadline and _complete_fetch).
DownloadsShared ==
  /\ slots + Cardinality(Holding) = MaxSlots
  /\ \A f, g \in Downloading : fetches[f].airport = fetches[g].airport => f = g
  /\ \A a \in TafAirports : inflight[a] # NoFetch =>
        inflight[a] \in Downloading /\ fetches[inflight[a]].airport = a
  /\ \A f \in DOMAIN fetches : fetches[f].state = "starting" =>
        \E c \in Callers : caller[c].at = "start" /\ caller[c].fetch = f

\* The wind kept with a finished calculation, however it finished, is the wind it was
\* made with, and an available one prevails, at the time it is shown for, in an answer
\* the service gave for its airport (web/facade.py, _calculate_outcome and
\* _destination_wind; weather/destination_taf.py, forecast).
WindIsItsOwn ==
  \A c \in Callers :
    LET k == caller[c]
        given == {Responses[k.airport][i] : i \in 1 .. upstream}
    IN k.at = "done" =>
         /\ Signature(k.shown) = k.made
         /\ k.shown # NoWind /\ k.shown.available =>
              \E r \in given : Select(r, k.airport, k.arrival) = k.shown

\* Destination winds can be trusted: both of the above.
DestinationWindSound == DownloadsShared /\ WindIsItsOwn
===============================================================================

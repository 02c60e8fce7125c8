---------------------------- MODULE LocalRuntime -----------------------------
(****************************************************************************)
(* The container that serves AutoNavLog on one machine,                     *)
(* scripts/static_ops/local_runtime.py: one updater builds the commit that  *)
(* Git synchronisation delivers, renews the forecast of the commit in use,  *)
(* and switches a symbolic link; a web process reads the link once for each *)
(* connection.  The updater is sequential, but the source moves while it    *)
(* builds, connections outlive a switch, and the container may be stopped   *)
(* or killed between any two writes.  Release directories, the source       *)
(* archives and the two links are on disk; the clocks of the next attempt   *)
(* become due at any time.                                                  *)
(****************************************************************************)
EXTENDS Integers, FiniteSets

CONSTANTS
  Releases,      \* names of release directories (r-<random>)
  Heads,         \* commits the synchronised repository goes through: 1..MaxHead
  NoRelease,     \* no such links, or no candidate
  MaxFailures,   \* bound on failing builds
  MaxKills       \* bound on restarts of the updater

ASSUME RuntimeAssumption ==
  /\ NoRelease \notin Releases
  /\ Heads \subseteq Nat /\ 1 \in Heads
  /\ MaxFailures \in Nat /\ MaxKills \in Nat

VARIABLES
  head,       \* the commit of the synchronised worktree
  disk,       \* release directories: name -> commit
  links,       \* the links current and previous
  archives,   \* commits with a source archive
  updater,    \* what the updater is doing
  rejected,   \* failed_main_sha of status.json, 0 when none
  due,        \* the clocks that have run out: subset of {"weather", "main"}
  reader,     \* the root of a connection and how many links moved since
  spent       \* failures and kills so far

runtimeVars == <<head, disk, links, archives, updater, rejected, due, reader, spent>>

Used == DOMAIN disk
Current == links.current
CommitOf(release) == disk[release]
Idle == [at |-> "idle", kind |-> "none", sha |-> 0, target |-> NoRelease]

RuntimeTypeOK ==
  /\ head \in Heads
  /\ Used \subseteq Releases /\ \A r \in Used : disk[r] \in Heads
  /\ links \in [current : Releases \cup {NoRelease}, previous : Releases \cup {NoRelease}]
  /\ archives \subseteq Heads
  /\ updater \in [at : {"off", "idle", "mainCheck", "build", "archive", "promote",
                        "copied", "previousSet", "collect"},
                  kind : {"none", "weather", "main"}, sha : Heads \cup {0},
                  target : Releases \cup {NoRelease}]
  /\ rejected \in Heads \cup {0}
  /\ due \subseteq {"weather", "main"}
  /\ reader \in [root : Releases \cup {NoRelease}, moves : 0 .. 2, broken : BOOLEAN]
  /\ spent \in [failures : 0 .. MaxFailures, kills : 0 .. MaxKills]

RuntimeInit ==
  /\ head = 1
  /\ disk = [r \in {} |-> 1]
  /\ links = [current |-> NoRelease, previous |-> NoRelease]
  /\ archives = {}
  /\ updater = [Idle EXCEPT !.at = "off"]
  /\ rejected = 0
  /\ due = {"weather"}
  /\ reader = [root |-> NoRelease, moves |-> 0, broken |-> FALSE]
  /\ spent = [failures |-> 0, kills |-> 0]

----------------------------------------------------------------------------
(* The outside: Git synchronisation, the clocks, connections, the container. *)

Synchronise ==
  /\ head + 1 \in Heads /\ head' = head + 1
  /\ UNCHANGED <<disk, links, archives, updater, rejected, due, reader, spent>>

ClockRunsOut(kind) ==
  /\ kind \notin due /\ due' = due \cup {kind}
  /\ UNCHANGED <<head, disk, links, archives, updater, rejected, reader, spent>>

(* StaticHandler: the root of a connection is what current named when it opened. *)
Connect ==
  /\ Current # NoRelease
  /\ reader' = [root |-> Current, moves |-> 0, broken |-> FALSE]
  /\ UNCHANGED <<head, disk, links, archives, updater, rejected, due, spent>>

Kill ==
  /\ updater.at # "off" /\ spent.kills < MaxKills
  /\ updater' = [Idle EXCEPT !.at = "off"]
  /\ spent' = [spent EXCEPT !.kills = @ + 1]
  /\ UNCHANGED <<head, disk, links, archives, rejected, due, reader>>

(* serve: the lock is the volume's, so one updater runs; a restart always
   checks the weather and keeps the clock of a rejected commit. *)
Serve ==
  /\ updater.at = "off"
  /\ updater' = Idle
  /\ due' = due \cup {"weather"}
  /\ UNCHANGED <<head, disk, links, archives, rejected, reader, spent>>

----------------------------------------------------------------------------
(* tick                                                                     *)

StartWeather ==
  /\ updater.at = "idle" /\ Current # NoRelease /\ "weather" \in due
  /\ updater' = [at |-> "build", kind |-> "weather", sha |-> CommitOf(Current),
                 target |-> NoRelease]
  /\ UNCHANGED <<head, disk, links, archives, rejected, due, reader, spent>>

WeatherNotDue ==
  /\ updater.at = "idle" /\ (Current = NoRelease \/ "weather" \notin due)
  /\ updater' = [updater EXCEPT !.at = "mainCheck"]
  /\ UNCHANGED <<head, disk, links, archives, rejected, due, reader, spent>>

\* (broken) a commit that failed once is never tried again
StartMainOnce ==
  /\ updater.at = "mainCheck"
  /\ updater' = IF rejected = head \/ (Current # NoRelease /\ CommitOf(Current) = head) THEN Idle
                ELSE [at |-> "build", kind |-> "main", sha |-> head, target |-> NoRelease]
  /\ UNCHANGED <<head, disk, links, archives, rejected, due, reader, spent>>

StartMain ==
  /\ updater.at = "mainCheck"
  /\ IF \/ Current # NoRelease /\ CommitOf(Current) = head
        \/ rejected = head /\ "main" \notin due
     THEN updater' = Idle
     ELSE updater' = [at |-> "build", kind |-> "main", sha |-> head, target |-> NoRelease]
  /\ UNCHANGED <<head, disk, links, archives, rejected, due, reader, spent>>

----------------------------------------------------------------------------
(* build and promote                                                        *)

(* The weather job clones the archive of the commit in use; the main job checks
   at the end that the source did not move.  A weather job that finds no newer
   Run ends successfully here. *)
Build ==
  /\ updater.at = "build"
  /\ updater.kind = "weather" => updater.sha \in archives
  /\ updater' = [updater EXCEPT !.at =
       IF updater.kind = "main" /\ head # updater.sha THEN "collect" ELSE "archive"]
  /\ UNCHANGED <<head, disk, links, archives, rejected, due, reader, spent>>

NothingNewer ==
  /\ updater.at = "build" /\ updater.kind = "weather"
  /\ updater' = [updater EXCEPT !.at = "collect"]
  /\ UNCHANGED <<head, disk, links, archives, rejected, due, reader, spent>>

Archive ==
  /\ updater.at = "archive"
  /\ archives' = archives \cup {updater.sha}
  /\ updater' = [updater EXCEPT !.at = "promote"]
  /\ UNCHANGED <<head, disk, links, rejected, due, reader, spent>>

Outdated ==
  \/ updater.kind = "main" /\ head # updater.sha
  \/ updater.kind = "weather" /\ (Current = NoRelease \/ CommitOf(Current) # updater.sha)

Superseded ==
  /\ updater.at = "promote" /\ Outdated
  /\ updater' = [updater EXCEPT !.at = "collect"]
  /\ UNCHANGED <<head, disk, links, archives, rejected, due, reader, spent>>

(* Names that no directory has and no connection knows. *)
FreshNames == Releases \ (Used \cup {reader.root})
NewName == CHOOSE r \in FreshNames : TRUE

Copy ==
  /\ updater.at = "promote" /\ ~Outdated
  /\ FreshNames # {}  \* bound: the names of Releases
  /\ disk' = [x \in Used \cup {NewName} |-> IF x = NewName THEN updater.sha ELSE disk[x]]
  /\ updater' = [updater EXCEPT !.at = "copied", !.target = NewName]
  /\ UNCHANGED <<head, links, archives, rejected, due, reader, spent>>

LinkMoved == IF links' = links \/ reader.moves = 2 THEN reader
             ELSE [reader EXCEPT !.moves = @ + 1]

(* The second check, after the copy, and the link previous. *)
SetPrevious ==
  /\ updater.at = "copied"
  /\ IF updater.kind = "main" /\ head # updater.sha
     THEN /\ disk' = [x \in Used \ {updater.target} |-> disk[x]]
          /\ updater' = [updater EXCEPT !.at = "collect"]
          /\ UNCHANGED links
     ELSE /\ updater' = [updater EXCEPT !.at = "previousSet"]
          /\ links' = IF Current = NoRelease THEN links ELSE [links EXCEPT !.previous = Current]
          /\ UNCHANGED disk
  /\ reader' = LinkMoved
  /\ UNCHANGED <<head, archives, rejected, due, spent>>

SetCurrent ==
  /\ updater.at = "previousSet"
  /\ links' = [links EXCEPT !.current = updater.target]
  /\ reader' = LinkMoved
  /\ updater' = [updater EXCEPT !.at = "collect"]
  /\ UNCHANGED <<head, disk, archives, rejected, due, spent>>

----------------------------------------------------------------------------
(* collect, and the end of an attempt.                                      *)

Kept == {links.current, links.previous} \ {NoRelease}

\* (broken) only the archive of the attempt's own commit is kept
AfterCollectOwn(at) ==
  /\ disk' = [r \in Used \cap Kept |-> disk[r]]
  /\ archives' = archives \cap {updater.sha}
  /\ reader' = [reader EXCEPT !.broken = @ \/ (reader.root # NoRelease
                                                /\ reader.root \notin Kept)]
  /\ updater' = at

AfterCollect(at) ==
  /\ disk' = [r \in Used \cap Kept |-> disk[r]]
  /\ archives' = archives \cap {CommitOf(r) : r \in Kept}
  /\ reader' = [reader EXCEPT !.broken = @ \/ (reader.root # NoRelease
                                                /\ reader.root \notin Kept)]
  /\ updater' = at

(* The tick goes on to the main job after a weather job; a main job ends it. *)
Finished ==
  IF updater.kind = "weather" THEN [Idle EXCEPT !.at = "mainCheck"] ELSE Idle

Collect ==
  /\ updater.at = "collect"
  /\ AfterCollect(Finished)
  /\ due' = due \ {updater.kind}
  /\ rejected' = IF updater.kind = "main" THEN 0 ELSE rejected
  /\ UNCHANGED <<head, links, spent>>

(* A step of the build, or of the promotion, fails: the error is kept, the
   rest of the attempt is skipped, the generated directories are collected. *)
Fail ==
  /\ updater.at \in {"build", "archive", "promote", "copied", "previousSet"}
  /\ spent.failures < MaxFailures
  /\ spent' = [spent EXCEPT !.failures = @ + 1]
  /\ AfterCollect(Finished)
  /\ due' = due \ {updater.kind}
  /\ rejected' = IF updater.kind = "main" THEN updater.sha ELSE rejected
  /\ UNCHANGED <<head, links>>

(* A stop signal ends a child process and the attempt, which still collects. *)
Stop ==
  /\ updater.at \in {"build", "archive"} /\ spent.kills < MaxKills
  /\ spent' = [spent EXCEPT !.kills = @ + 1]
  /\ AfterCollect([Idle EXCEPT !.at = "off"])
  /\ UNCHANGED <<head, links, rejected, due>>

UpdaterStep == \/ StartWeather \/ WeatherNotDue \/ StartMain
               \/ Build \/ NothingNewer \/ Archive \/ Superseded
               \/ Copy \/ SetPrevious \/ SetCurrent \/ Collect

RuntimeNext == \/ Synchronise \/ Connect
               \/ \E kind \in {"weather", "main"} : ClockRunsOut(kind)
               \/ Kill \/ Stop \/ Serve \/ UpdaterStep \/ Fail

(* The supervisor restarts the container, time passes and a build that does
   not fail ends; nothing obliges the source to stop moving. *)
RuntimeFairness ==
  /\ WF_runtimeVars(UpdaterStep) /\ WF_runtimeVars(Serve)
  /\ WF_runtimeVars(ClockRunsOut("main"))

RuntimeSpec == RuntimeInit /\ [][RuntimeNext]_runtimeVars /\ RuntimeFairness

----------------------------------------------------------------------------
(* What the links name is complete on disk: a kill between the copy, the two
   links and the collection leaves no link to a missing or partial release. *)
LinksAreComplete == Kept \subseteq Used

(* The commit in use always has its source archive, or no forecast could be
   renewed for it: the archive is made before the link moves, and collected
   only when neither link needs it. *)
ActiveHasSource == Current # NoRelease => CommitOf(Current) \in archives

(* A connection keeps its files through the switch that replaces its release:
   they go only after a second link has moved, be it that of a promotion that
   was cut short. *)
ConnectionOutlivesSwitch == reader.broken => reader.moves >= 2

(* Killed, failed and superseded attempts leave what is served usable. *)
ServedIsUsable == RuntimeTypeOK /\ LinksAreComplete /\ ActiveHasSource /\ ConnectionOutlivesSwitch

(* Whatever fails or is killed on the way, once the container has started the
   last commit delivered is served in the end. *)
NotStarted == updater.at = "off" /\ Current = NoRelease /\ spent.kills = 0
LastHeadServed == <>[](NotStarted \/ (Current # NoRelease /\ CommitOf(Current) = head))

=============================================================================

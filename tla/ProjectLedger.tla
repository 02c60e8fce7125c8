---------------------------- MODULE ProjectLedger ---------------------------
(***************************************************************************)
(* What the synced store promises, whoever writes to it: each Project has  *)
(* at most one current entry; entries of one Project are numbered          *)
(* 1, 2, 3, ... without gaps; several may change in one step; an entry     *)
(* past its deletion deadline is a tombstone and is only ever followed by  *)
(* tombstones; a running deadline may be lifted but not moved.             *)
(***************************************************************************)
EXTENDS Naturals

CONSTANTS Projects, None

VARIABLES entry,   \* [Projects -> entry or None]
          clock

\* ends is the deletion deadline, None for a live entry; 0 is long past.
Tombstone(e) == e # None /\ e.ends # None /\ clock >= e.ends

Follows(old, new) ==
    /\ new # None
    /\ new.revision = 1 + (IF old = None THEN 0 ELSE old.revision)
    /\ old # None => new.version # old.version
    /\ Tombstone(old) => new.ends = 0
    /\ old # None =>
         \/ old.ends = None \/ old.ends = 0
         \/ new.ends = None \/ new.ends = 0 \/ new.ends = old.ends

Init == clock = 0 /\ entry \in [Projects -> {None} \cup
                         [version : {1}, revision : {1}, ends : {None}]]

Publish ==
    /\ \A p \in Projects : entry'[p] # entry[p] => Follows(entry[p], entry'[p])
    /\ DOMAIN entry' = Projects
    /\ UNCHANGED clock

Pass == clock' = clock + 1 /\ UNCHANGED entry

Spec == Init /\ [][Publish \/ Pass]_<<entry, clock>>
=============================================================================

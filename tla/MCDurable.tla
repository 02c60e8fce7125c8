------------------------------ MODULE MCDurable ------------------------------
(* What outlives a process, for TLC: the owner's file storage, the published *)
(* static site and the budget of refresh requests.  The three share nothing, *)
(* so one run checks them one at a time: a behaviour is one of the component *)
(* named by part; the others stay where they start.                          *)
EXTENDS OwnerStorage, StaticPublication, ExternalTriggerGate

CONSTANTS p1, p2, c1, c2, c3, k1, k2, q1  \* model values

PubVersion == [c \in Commits |-> IF c = c1 THEN 1 ELSE IF c = c2 THEN 2 ELSE 3]
PubContract == [c \in Commits |-> IF c = c3 THEN [rules |-> k2, schema |-> k2] ELSE [rules |-> k1, schema |-> k1]]
PubReviewed == {<<"rules", c1, c3>>, <<"schema", c1, c3>>}

VARIABLE part

durableVars == <<storageVars, pubVars, gateVars, part>>

DurableInit == /\ StorageInit /\ PublicationInit /\ GateInit
               /\ part \in {"storage", "publication", "gate"}
               \* the parts that are not played start in one way only
               /\ part # "storage" => known = {}
               /\ approved = c1
               /\ part # "publication" => automation

DurableNext ==
  \/ part = "storage" /\ StorageNext /\ UNCHANGED <<pubVars, gateVars, part>>
  \* bound: the release that is there is not published again
  \/ part = "publication" /\ PublicationNext /\ c1 \notin waiting' /\ UNCHANGED <<storageVars, gateVars, part>>
  \/ part = "gate" /\ GateNext /\ UNCHANGED <<storageVars, pubVars, part>>

DurableSpec == DurableInit /\ [][DurableNext]_durableVars
==============================================================================

------------------------------- MODULE MCSync -------------------------------
(* Instances of AccountSync for TLC. *)
EXTENDS AccountSync, TLC

CONSTANTS p1, p2, p3, d1, d2, t1, t2, t3

\* Who holds which tab.
OneTab      == t1 :> d1
OneTabEach  == t1 :> d1 @@ t2 :> d2
TwoTabs     == t1 :> d1 @@ t2 :> d1
TwoTabsAndOne == t1 :> d1 @@ t2 :> d1 @@ t3 :> d2

\* What is synced at the start.
SavedA      == p1 :> None
LatestA     == p1 :> d1

NoImport    == [d \in Devices |-> {}]
ImportB     == [d \in Devices |-> IF d = d1 THEN {p2} ELSE {}]

\* Versions per Project.
Three       == [p \in Projects |-> 3]
CopyOnly    == p1 :> 4 @@ p2 :> 1
TwoTwo      == p1 :> 2 @@ p2 :> 2

\* The devices swap roles together with their tabs.
Swaps       == {f \in Permutations(Devices \cup Tabs) :
                   \A t \in Tabs : f[t] \in Tabs /\ DeviceOf[f[t]] = f[DeviceOf[t]]}
=============================================================================

---------------------------- MODULE MCLifecycle ----------------------------
(* Instances of AccountLifecycle for TLC. *)
EXTENDS AccountLifecycle, TLC

CONSTANTS d1, d2, t1, t2, x1, x2

OneTabEach == t1 :> d1 @@ t2 :> d2
TwoTabs    == t1 :> d1 @@ t2 :> d1
OneTab     == t1 :> d1

\* Exchanging the devices together with their tabs changes nothing.
Swaps      == {f \in Permutations(Devices \cup Tabs) :
                   \A t \in Tabs : f[t] \in Tabs /\ DeviceOf[f[t]] = f[DeviceOf[t]]}
=============================================================================

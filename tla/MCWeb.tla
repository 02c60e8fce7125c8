-------------------------------- MODULE MCWeb --------------------------------
(* The server facade for TLC: its sessions and, while it calculates, its wind *)
(* at the destination.  A behaviour is one of the component named by part; the *)
(* other stays where it starts.                                               *)
EXTENDS WebSessions, DestinationTaf

CONSTANTS p1, p2, k1, k2  \* model values

VARIABLE part

webAndTafVars == <<webVars, tafVars, part>>

\* Nothing but its identity tells a Project or a thread from another.
Alike == {f @@ g : f \in Permutations(WebProjects), g \in Permutations(Callers)}

\* Records of the service: a TAF is valid from 1 to 3, one of them to 2.
MCGroup(change, from, to, wind) == [change |-> change, from |-> from, to |-> to, wind |-> wind]
MCTaf(airport, recent, groups) ==
  [airport |-> airport, recent |-> recent, from |-> 1, to |-> 3, groups |-> groups]

MCBase == MCTaf("RJFM", TRUE,
  <<MCGroup("BASE", 1, 3, "north"), MCGroup("BECMG", 2, 3, "south"), MCGroup("TEMPO", 1, 3, "variable")>>)
MCAmended == MCTaf("RJFM", TRUE, <<MCGroup("BASE", 1, 2, "variable"), MCGroup("FM", 2, 3, "north")>>)
MCFaded == MCTaf("RJFM", FALSE, <<MCGroup("BASE", 1, 2, "unreadable"), MCGroup("PROB", 2, 3, "south")>>)
MCOther == [MCTaf("RJOM", TRUE, <<MCGroup("BASE", 1, 2, "south")>>) EXCEPT !.to = 2]

MCResponses == [RJFM |-> <<<<MCOther, MCFaded, MCBase>>, <<MCAmended, MCBase>>>>,
                RJOM |-> <<<<MCFaded, MCOther>>, <<MCFaded>>>>]

MCInit == /\ part \in {"sessions", "taf"}
          /\ IF part = "sessions" THEN WebInit
             ELSE /\ table = {} /\ order = <<>> /\ mem = <<>> /\ running = <<>>
                  /\ store = NoStore /\ newest = 1 /\ told = <<>>
                  /\ requests = 0 /\ writeFaults = 0
          /\ TafInit

MCNext == /\ UNCHANGED part
          /\ \/ part = "sessions" /\ WebNext /\ UNCHANGED tafVars
             \/ part = "taf" /\ TafNext /\ UNCHANGED webVars

MCSpec == MCInit /\ [][MCNext]_webAndTafVars
===============================================================================

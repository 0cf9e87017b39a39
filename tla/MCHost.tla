------------------------------- MODULE MCHost -------------------------------
(* Instances of Host for TLC: containers named by strings, mostly two.     *)
EXTENDS Host

MCContainers == {"c1", "c2"}
MCPorts      == [c \in MCContainers |-> IF c = "c1" THEN 81 ELSE 82]
MCSamePort   == [c \in MCContainers |-> 80]
MCThree      == {"c1", "c2", "c3"}
MCThreePorts == [c \in MCThree |-> IF c = "c1" THEN 81 ELSE IF c = "c2" THEN 82 ELSE 83]
MCNoNeeds    == [c \in MCThree |-> {}]
MCNeeds      == [c \in MCContainers |-> IF c = "c1" THEN {"memory", "pids"} ELSE {}]
MCDefault    == [c \in Container |-> DEFAULT_BRIDGE]
MCTwoBridges == [c \in Container |-> IF c = "c1" THEN DEFAULT_BRIDGE
                                                 ELSE CHOOSE b \in Bridge : b # DEFAULT_BRIDGE]

Scenario(l, f, k, g, d) ==
  [launches |-> l, failures |-> f, crashes |-> k, gcs |-> g, gcWaits |-> l > 1,
   cgroup2 |-> TRUE, delegated |-> d]
All          == {"memory", "pids", "cpu"}
MCOverlap    == {Scenario(2, 0, 0, 1, All)}
MCFailure    == {Scenario(1, 1, 0, 1, All)}
MCCrash      == {Scenario(1, 0, 1, 1, All)}
MCRace       == {Scenario(1, 0, 0, 1, All)}
MCNoPids     == {Scenario(1, 0, 0, 1, {"memory"})}
MCNoCgroups  == {[Scenario(1, 0, 0, 1, {}) EXCEPT !.cgroup2 = FALSE]}
MCScenarios  == MCOverlap \cup MCFailure \cup MCCrash \cup MCNoPids \cup MCNoCgroups
=============================================================================

----------------------------- MODULE MCBootstrap -----------------------------
(* Instances of Bootstrap for TLC. *)
EXTENDS Bootstrap

CONSTANTS c1, c2, main, human, nMain, nHuman,
          docker, proxy, dashboard, moved

Entry(c, a, role) == [cid |-> c, agent |-> a, role |-> role]

(* Two channels of the dashboard's topology, that share their owner. *)
MCPlan ==
    <<Entry(c1, NoAgent, "none"), Entry(c1, main, "owner"), Entry(c1, human, "member"),
      Entry(c2, NoAgent, "none"), Entry(c2, main, "member")>>

MCPlanName == [a \in {main, human} |-> IF a = main THEN nMain ELSE nHuman]

MCEnvironments == {<<docker, dashboard>>, <<proxy, moved>>, <<docker, NoUrl>>}
=============================================================================

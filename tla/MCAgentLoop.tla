----------------------------- MODULE MCAgentLoop -----------------------------
(* Bounded instances of AgentLoop.                                         *)
EXTENDS AgentLoop

MCQueryText == <<"q1", "q2">>

(* A daemon tool alone, which the loop itself answers, or two client       *)
(* tools, whose results arrive one by one.                                 *)
MCPlans  == {<<"daemon">>, <<"client", "client">>}

(* One call, to a client tool or to the daemon's own after a client tool.  *)
MCClient == {<<"client">>}
MCMixed  == {<<"client", "daemon">>}
=============================================================================

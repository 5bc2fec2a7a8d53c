---------------------------- MODULE MCAgentLoop ----------------------------
(***************************************************************************)
(* Pipelines of up to three agents: a lead that lists the aide, and an     *)
(* aide that may list the scout.                                           *)
(***************************************************************************)
EXTENDS AgentLoop

MCEffectOf == [t \in Tools |->
  CASE t = "Read" -> {}
    [] t = "SetState" -> {"context_writes"}
    [] t = "Fetch" -> {"network"}
    [] t = "Issue" -> {"mutations", "network"}]

Base == [max_iterations |-> 2, max_total_tokens |-> 3, max_tool_calls |-> 3,
         max_subagent_depth |-> 1, allow |-> {"network"}, retry_once |-> TRUE,
         jailed |-> FALSE, allowed_tools |-> {"aide", "Fetch"}]

Leaf == [Base EXCEPT !.max_iterations = 1, !.max_total_tokens = 2, !.max_subagent_depth = 0,
                     !.max_tool_calls = 0, !.allowed_tools = {"Fetch"}]

\* One level of delegation: budgets with and without a cap, both answers to
\* a parse error, and policies the loop refuses.
Shallow ==
  {[lead |-> l, aide |-> a, scout |-> Leaf] :
     l \in {Base, [Base EXCEPT !.max_total_tokens = 0, !.max_tool_calls = 0, !.allow = {}],
            [Base EXCEPT !.allowed_tools = {"Read", "Issue"}, !.jailed = TRUE, !.retry_once = FALSE]},
     a \in {Leaf, [Leaf EXCEPT !.max_iterations = 2, !.allow = {}],
            [Leaf EXCEPT !.max_iterations = 0], [Leaf EXCEPT !.allowed_tools = {"Read"}],
            [Leaf EXCEPT !.allowed_tools = {"Nope"}]}}

\* Two levels: every choice of depth caps, delegations and effects the loader
\* may be given; it refuses the most of them.
Deep ==
  {[lead |-> l, aide |-> a, scout |-> s] :
     l \in {[Base EXCEPT !.max_subagent_depth = d, !.allow = x] :
              d \in 1 .. 4, x \in {Effects, {"mutations"}}},
     a \in {[Base EXCEPT !.max_subagent_depth = d, !.max_iterations = 1, !.allow = x,
                         !.allowed_tools = {b, "scout", "Issue"}] :
              d \in 1 .. 3, x \in {Effects, {"mutations"}}, b \in {"SetState", "aide"}},
     s \in {[Leaf EXCEPT !.allow = x, !.allowed_tools = {"Issue", "SetState"}] :
              x \in {Effects, {"mutations"}}}}
=============================================================================

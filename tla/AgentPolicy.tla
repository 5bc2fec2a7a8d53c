---------------------------- MODULE AgentPolicy ----------------------------
(***************************************************************************)
(* The agents of a pipeline: their policies, the tools they list, and the  *)
(* compose-down rules the loader imposes on an agent that lists another as *)
(* a subagent (pipeline/load.rs).  Names of tools are model values; an     *)
(* agent's name stands for the tool `subagent.<name>`.                     *)
(***************************************************************************)
EXTENDS Integers, Sequences, FiniteSets, Functions

CONSTANTS Agents,        \* the agents declared in the pipeline
          Tools,         \* built-in and MCP tools with a registered handler
          FileTools,     \* the tools that require a root jail
          Unregistered,  \* names without a handler
          EffectOf,      \* the effects of every tool
          U32Max         \* the largest u32

Effects == {"mutations", "network", "context_writes"}

Names == Tools \cup Agents \cup Unregistered

ASSUME NamesAssumption ==
  /\ Agents \cap Tools = {} /\ (Agents \cup Tools) \cap Unregistered = {}
  /\ FileTools \subseteq Tools
  /\ EffectOf \in [Tools -> SUBSET Effects]
  /\ U32Max \in Nat \ {0}

u32 == 0 .. U32Max

\* AgentPolicy and the tool list of its agent.  allow holds the effects
\* whose allow_* flag is set, jailed says that roots is not empty.
Policy == [max_iterations : u32, max_total_tokens : Nat, max_tool_calls : u32,
           max_subagent_depth : u32, allow : SUBSET Effects, retry_once : BOOLEAN,
           jailed : BOOLEAN, allowed_tools : SUBSET Names]

SaturatingSucc(n) == IF n = U32Max THEN n ELSE n + 1

\* Mutant: the child may have all of the parent's depth.
MayDelegateLevel(p, c) ==
  /\ c.allow \subseteq p.allow
  /\ c.max_subagent_depth <= p.max_subagent_depth

\* The compose-down rules between an agent and one it lists.
MayDelegate(p, c) ==
  /\ c.allow \subseteq p.allow
  /\ SaturatingSucc(c.max_subagent_depth) <= p.max_subagent_depth

Validated(agents) ==
  \A a \in Agents : \A c \in Agents \cap agents[a].allowed_tools :
    MayDelegate(agents[a], agents[c])

\* The effect the policy gate sees for a name: a handler's own, or for a
\* subagent the one derived from its policy, which has no context writes.
Effect(agents, t) ==
  IF t \in Agents THEN agents[t].allow \cap {"mutations", "network"} ELSE EffectOf[t]
=============================================================================

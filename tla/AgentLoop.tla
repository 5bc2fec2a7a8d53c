----------------------------- MODULE AgentLoop -----------------------------
(***************************************************************************)
(* LoopAgent::run (agent/loop_agent) and the subagents it enters through   *)
(* SubagentHandler: a stack of loops, of which only the innermost moves.   *)
(* The model behind the transport may answer anything; a node timeout or   *)
(* Ctrl-C drops the whole stack where it awaits the transport or a tool.   *)
(***************************************************************************)
EXTENDS AgentPolicy

CONSTANTS Pipelines,  \* the agents of each pipeline considered
          Strays,     \* names a response may call without being offered them
          CallIds,    \* ids a response may give its calls, repeats included
          MaxCalls,   \* bound: tool calls in one response
          Usages      \* total_tokens a response reports, 0 for no usage block

ASSUME LoopAssumption ==
  /\ Pipelines \subseteq [Agents -> Policy]
  /\ Strays \subseteq Names
  /\ MaxCalls \in Nat
  /\ Usages \subseteq Nat /\ Usages # {}

VARIABLES agents,   \* the pipeline's agents, fixed
          stack,    \* the loops in progress, the node's own first
          open,     \* the *Started events not yet matched, outermost first
          outcome   \* of the node's own loop

vars == <<agents, stack, open, outcome>>

Call == [id : CallIds, name : Names]

\* A loop: where it is, its iteration, the tool calls it counted, its token
\* counter, the calls of the last response still to handle, the ids whose
\* parse error it forgave in this iteration.  spent is not in the code: the
\* tokens of every response to this loop or to one it is waiting for.
Loop == [agent : Agents, pc : {"enter", "iterate", "llm", "calls", "tool", "child"},
         iteration : Nat, calls : Nat, tokens : Nat, batch : Seq(Call),
         retried : SUBSET CallIds, spent : Nat]

Entered(a) == [agent |-> a, pc |-> "enter", iteration |-> 0, calls |-> 0, tokens |-> 0,
               batch |-> <<>>, retried |-> {}, spent |-> 0]

Errors == {"invalid_policy", "unknown_tool", "iteration_limit", "tokens", "tool_calls",
           "parse_failed", "tool_error", "llm_error"}

TypeOK ==
  /\ agents \in Pipelines
  /\ stack \in Seq(Loop) /\ stack # <<>>
  /\ \A i \in DOMAIN stack : stack[i].iteration <= agents[stack[i].agent].max_iterations
  /\ open \in Seq({"llm", "subagent"})
  /\ outcome \in {"running", "ok", "dropped"} \cup Errors

Init ==
  /\ agents \in Pipelines /\ Validated(agents)
  /\ \E root \in Agents : stack = <<Entered(root)>>
  /\ open = <<>>
  /\ outcome = "running"

Popped(s) == SubSeq(s, 1, Len(s) - 1)

Top(s) == s[Len(s)]

top == Top(stack)

Depth == Len(stack) - 1

mine == agents[top.agent]

WithTop(s, f) == [s EXCEPT ![Len(s)] = f]

At(pc) == outcome = "running" /\ top.pc = pc

-----------------------------------------------------------------------------
\* The call at hand has its result: ToolCallRecorded, ToolResult pushed.
Recorded(f) == [f EXCEPT !.pc = "calls", !.batch = Tail(f.batch)]

\* The innermost loop of s returns r.  A child's result, an error included,
\* is the result of the call its parent waits on (SubagentCompleted or
\* SubagentFailed closes its SubagentStarted).
Return(s, o, r) ==
  \/ /\ Len(s) = 1
     /\ outcome' = r /\ stack' = s /\ open' = o
  \/ /\ Len(s) > 1
     /\ stack' = WithTop(Popped(s), Recorded(Top(Popped(s)))) /\ open' = Popped(o)
     /\ UNCHANGED outcome

GoOn(s, o) == stack' = s /\ open' = o /\ UNCHANGED outcome

\* The checks before the first iteration.
Enter ==
  /\ At("enter")
  /\ LET unjailed == mine.allowed_tools \cap FileTools # {} /\ ~ mine.jailed
         unknown == mine.allowed_tools \cap Unregistered # {}
     IN  \/ /\ mine.max_iterations = 0 \/ unjailed
            /\ Return(stack, open, "invalid_policy")
         \/ /\ mine.max_iterations > 0 /\ ~ unjailed /\ unknown
            /\ Return(stack, open, "unknown_tool")
         \/ /\ mine.max_iterations > 0 /\ ~ unjailed /\ ~ unknown
            /\ GoOn(WithTop(stack, [top EXCEPT !.pc = "iterate"]), open)
  /\ UNCHANGED agents

\* Mutant: an off-by-one in the test of the remaining budget.
BudgetOverrun == mine.max_total_tokens > 0 /\ top.tokens > mine.max_total_tokens

BudgetUsedUp == mine.max_total_tokens > 0 /\ top.tokens >= mine.max_total_tokens

\* Mutant: the limit is noticed one iteration late.
ExhaustedLate ==
  /\ At("iterate") /\ top.iteration > mine.max_iterations
  /\ Return(stack, open, "iteration_limit")
  /\ UNCHANGED agents

\* The head of the for loop: out of iterations or tokens, or a request.
Exhausted ==
  /\ At("iterate") /\ top.iteration = mine.max_iterations
  /\ Return(stack, open, "iteration_limit")
  /\ UNCHANGED agents

OutOfTokens ==
  /\ At("iterate") /\ top.iteration < mine.max_iterations
  /\ BudgetUsedUp
  /\ Return(stack, open, "tokens")
  /\ UNCHANGED agents

Request ==
  /\ At("iterate") /\ top.iteration < mine.max_iterations
  /\ ~ BudgetUsedUp
  /\ GoOn(WithTop(stack, [top EXCEPT !.pc = "llm", !.retried = {}]), Append(open, "llm"))
  /\ UNCHANGED agents

LlmFails ==
  /\ At("llm")
  /\ Return(stack, Popped(open), "llm_error")
  /\ UNCHANGED agents

\* Mutant: a child's tokens do not reach its parent.
ChargedOwn(s, u) ==
  [i \in DOMAIN s |->
     [s[i] EXCEPT !.tokens = IF i = Len(s) THEN @ + u ELSE @, !.spent = @ + u]]

\* A response's tokens go to the loop's counter and to its parent's.
Charged(s, u) ==
  [i \in DOMAIN s |->
     [s[i] EXCEPT !.tokens = IF i >= Len(s) - 1 THEN @ + u ELSE @, !.spent = @ + u]]

\* The calls a response to the loop may make: what the loop offered, or not.
Batches == UNION {[1 .. k -> [id : CallIds, name : mine.allowed_tools \cup Strays]] :
                    k \in 0 .. MaxCalls}

\* Mutant: the budget is checked before the response is reported.
LlmAnswersUnreported(u, batch) ==
  /\ At("llm")
  /\ LET s == Charged(stack, u)
         over == mine.max_total_tokens > 0 /\ Top(s).tokens > mine.max_total_tokens
     IN  \/ over /\ Return(s, open, "tokens")
         \/ ~ over /\ batch = <<>> /\ Return(s, Popped(open), "ok")
         \/ /\ ~ over /\ batch # <<>>
            /\ GoOn(WithTop(s, [Top(s) EXCEPT !.pc = "calls", !.batch = batch]), Popped(open))
  /\ UNCHANGED agents

LlmAnswers(u, batch) ==
  /\ At("llm")
  /\ LET s == Charged(stack, u)
         over == mine.max_total_tokens > 0 /\ Top(s).tokens > mine.max_total_tokens
     IN  \/ over /\ Return(s, Popped(open), "tokens")
         \/ ~ over /\ batch = <<>> /\ Return(s, Popped(open), "ok")
         \/ /\ ~ over /\ batch # <<>>
            /\ GoOn(WithTop(s, [Top(s) EXCEPT !.pc = "calls", !.batch = batch]), Popped(open))
  /\ UNCHANGED agents

NextIteration ==
  /\ At("calls") /\ top.batch = <<>>
  /\ GoOn(WithTop(stack, [top EXCEPT !.pc = "iterate", !.iteration = @ + 1]), open)
  /\ UNCHANGED agents

-----------------------------------------------------------------------------
\* Handling one tool call.  The next call is counted first.
Counted == [top EXCEPT !.calls = @ + 1]

CallsLeft == mine.max_tool_calls > 0 => Counted.calls <= mine.max_tool_calls

Handling(name) == At("calls") /\ top.batch # <<>> /\ CallsLeft /\ name = Head(top.batch).name

OutOfCalls ==
  /\ At("calls") /\ top.batch # <<>> /\ ~ CallsLeft
  /\ Return(WithTop(stack, Counted), open, "tool_calls")
  /\ UNCHANGED agents

\* Mutant: the gate compares the depth of the caller.
TooDeepCaller(name) == name \in Agents /\ Depth > mine.max_subagent_depth

\* The recursion gate compares the depth of the child with the cap of the
\* agent that calls it.
TooDeep(name) == name \in Agents /\ Depth + 1 > mine.max_subagent_depth

DepthDenied(name) ==
  /\ Handling(name) /\ TooDeep(name)
  /\ GoOn(WithTop(stack, Recorded(Counted)), open)
  /\ UNCHANGED agents

UnknownTool(name) ==
  /\ Handling(name) /\ name \in Unregistered
  /\ Return(WithTop(stack, Counted), open, "unknown_tool")
  /\ UNCHANGED agents

Registered(name) == name \in Tools \cup Agents /\ ~ TooDeep(name)

\* Mutant: one of the flags of a tool with two effects is enough.
PermittedInPart(name) == Effect(agents, name) # {} => Effect(agents, name) \cap mine.allow # {}

Permitted(name) == Effect(agents, name) \subseteq mine.allow

\* ToolDenied: the policy forbids the effect, or for a tool that only needs
\* the network a URL in the arguments is refused.
Denied(name) ==
  /\ Handling(name) /\ Registered(name)
  /\ ~ Permitted(name) \/ Effect(agents, name) = {"network"}
  /\ GoOn(WithTop(stack, Recorded(Counted)), open)
  /\ UNCHANGED agents

\* invoke_with_parse_retry, when the arguments did not parse.
ParseError(f) ==
  LET id == Head(f.batch).id
      forgiven == mine.retry_once /\ id \notin f.retried
  IN  \/ /\ forgiven
         /\ GoOn(WithTop(stack, Recorded([f EXCEPT !.retried = @ \cup {id}])), open)
      \/ /\ ~ forgiven
         /\ Return(WithTop(stack, f), open, "parse_failed")

\* A subagent call without a prompt.
NoPrompt(name) ==
  /\ Handling(name) /\ Registered(name) /\ Permitted(name) /\ name \in Agents
  /\ ParseError(Counted)
  /\ UNCHANGED agents

EnterChild(name) ==
  /\ Handling(name) /\ Registered(name) /\ Permitted(name) /\ name \in Agents
  /\ GoOn(Append(WithTop(stack, [Counted EXCEPT !.pc = "child"]), Entered(name)),
          Append(open, "subagent"))
  /\ UNCHANGED agents

Invoke(name) ==
  /\ Handling(name) /\ Registered(name) /\ Permitted(name) /\ name \in Tools
  /\ GoOn(WithTop(stack, [Counted EXCEPT !.pc = "tool"]), open)
  /\ UNCHANGED agents

\* The handler's answer: output, or an error fed back (not implemented) ...
ToolOk ==
  /\ At("tool")
  /\ GoOn(WithTop(stack, Recorded(top)), open)
  /\ UNCHANGED agents

\* ... or one that ends the loop, or arguments that do not parse.
ToolFails ==
  /\ At("tool")
  /\ Return(stack, open, "tool_error") \/ ParseError(top)
  /\ UNCHANGED agents

\* The host of a URL is being resolved before the policy gate decides.
Resolving ==
  \E name \in Names :
    Handling(name) /\ Registered(name) /\ Permitted(name) /\ Effect(agents, name) = {"network"}

\* The node's timeout, or Ctrl-C, drops the future at an await.
Drop ==
  /\ At("llm") \/ At("tool") \/ Resolving
  /\ outcome' = "dropped"
  /\ UNCHANGED <<agents, stack, open>>

Ended == outcome # "running" /\ UNCHANGED vars

LoopStep ==
  \/ Enter \/ Exhausted \/ OutOfTokens \/ Request \/ NextIteration \/ OutOfCalls
  \/ \E name \in Names :
       \/ DepthDenied(name) \/ UnknownTool(name) \/ Denied(name)
       \/ NoPrompt(name) \/ EnterChild(name) \/ Invoke(name)

External ==
  \/ LlmFails \/ ToolOk \/ ToolFails
  \/ At("llm") /\ \E u \in Usages, batch \in Batches : LlmAnswers(u, batch)

Next == LoopStep \/ External \/ Drop \/ Ended

Safety == Init /\ [][Next]_vars

\* The runtime polls the loop; the transport and the tools owe no answer.
Spec == Safety /\ WF_vars(LoopStep)

-----------------------------------------------------------------------------
\* The stream tells which loops are in progress: a SubagentStarted is open
\* for every loop but the node's own, an LlmRequestStarted exactly while the
\* innermost loop awaits the transport, and nothing once the node's loop has
\* returned, whichever budget, tool or transport error ended the others.
StreamTellsLoops ==
  open = IF outcome \in {"running", "dropped"}
         THEN [i \in 1 .. Depth |-> "subagent"] \o (IF top.pc = "llm" THEN <<"llm">> ELSE <<>>)
         ELSE <<>>

\* The counter a loop checks against its budget covers every response that
\* it or a subagent it waits for has had.
BudgetCoversSubtree == \A i \in DOMAIN stack : stack[i].tokens = stack[i].spent

\* A loop that delegates nothing passes its token budget by less than one
\* response: the one that the last token of the budget was asked for.
OneResponseOver ==
  \A i \in DOMAIN stack :
    LET p == agents[stack[i].agent] IN
      (p.max_total_tokens > 0 /\ (p.allowed_tools \cup Strays) \cap Agents = {}) =>
        \E u \in Usages : stack[i].tokens < p.max_total_tokens + u

\* Every loop from i up to the one below j waits for an agent it lists.  The
\* code does not see to it: it registers a handler for every agent, and looks
\* at allowed_tools when it offers the tools and not when one is called.
Listed(i, j) ==
  \A k \in i .. j - 1 : stack[k + 1].agent \in agents[stack[k].agent].allowed_tools

\* Between the two, compose-down takes a level of depth at each step, unless
\* the cap is the largest u32, from which its saturating sum takes nothing.
Composed(i, j) ==
  i < j /\ Listed(i, j) /\ agents[stack[i].agent].max_subagent_depth < U32Max

\* Through listed agents no agent is entered from inside itself.  (An agent
\* that is not listed may be, as often as the caller's depth cap allows.)
LoopsDistinct ==
  \A i, j \in DOMAIN stack : Composed(i, j) => stack[i].agent # stack[j].agent

\* The gate compares an absolute depth with a cap that compose-down has made
\* smaller at every level: through listed agents a cap of k on the node's own
\* loop allows depths up to (k + 1) / 2, and less on a loop further in.
DepthHalved ==
  \A i, j \in DOMAIN stack :
    Composed(i, j) => 2 * (j - 1) - i <= agents[stack[i].agent].max_subagent_depth

\* Whatever tool runs, a loop that waits for it through listed agents allows
\* all of its effects: delegating to them never widens what a policy forbids.
\* (An agent that is not listed is judged by the effects its own policy allows
\* only where it is called, not by the loops further out.)
EffectsContained ==
  top.pc = "tool" =>
    \A i \in DOMAIN stack :
      Listed(i, Len(stack)) =>
        EffectOf[Head(top.batch).name] \subseteq agents[stack[i].agent].allow

\* If the transport and the tools always answer, the node's loop returns,
\* whatever the answers are.
LoopSettles ==
  []<>(top.pc \notin {"llm", "tool"}) => <>(outcome # "running")
=============================================================================

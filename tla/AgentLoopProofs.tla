-------------------------- MODULE AgentLoopProofs --------------------------
(***************************************************************************)
(* Proofs about the agent loop.  The inductive invariant says of every     *)
(* stack of loops what the code relies on from loop to loop: a waiting     *)
(* loop waits on a call it was allowed to make, and each loop inherits     *)
(* fewer rights and less depth than the one that entered it.               *)
(***************************************************************************)
EXTENDS AgentLoop, TLAPS

Delegates(a, x) == (a[x].allowed_tools \cup Strays) \cap Agents # {}

\* One loop by itself.
LoopOK(a, f) ==
  /\ f.iteration <= a[f.agent].max_iterations
  /\ f.pc \in {"llm", "calls", "tool", "child"} => f.iteration < a[f.agent].max_iterations
  /\ f.pc \in {"tool", "child"} => f.batch # <<>>
  /\ \A k \in DOMAIN f.batch : f.batch[k].name \in a[f.agent].allowed_tools \cup Strays
  /\ f.pc = "tool" => /\ f.batch[1].name \in Tools
                      /\ EffectOf[f.batch[1].name] \subseteq a[f.agent].allow
  /\ f.pc = "child" => f.batch[1].name \in Agents
  /\ (a[f.agent].max_total_tokens > 0 /\ ~ Delegates(a, f.agent)) =>
       \E u \in Usages : f.tokens < a[f.agent].max_total_tokens + u

\* A loop of agent y, entered d levels below one of agent x through agents
\* each of which the one above lists.
Inherits(a, x, y, d) ==
  /\ a[y].allow \subseteq a[x].allow
  /\ a[x].max_subagent_depth < U32Max =>
       a[y].max_subagent_depth <= a[x].max_subagent_depth - d

Linked(a, s, i, j) == \A k \in i .. j - 1 : s[k + 1].agent \in a[s[k].agent].allowed_tools

StackOK(a, s) ==
  /\ s \in Seq(Loop) /\ s # <<>>
  /\ \A i \in DOMAIN s : LoopOK(a, s[i])
  /\ \A i \in DOMAIN s : i < Len(s) => s[i].pc = "child"
  /\ \A i, j \in DOMAIN s :
       (i < j /\ Linked(a, s, i, j)) => Inherits(a, s[i].agent, s[j].agent, j - i)
  /\ \A i \in DOMAIN s : i < Len(s) => i <= a[s[i].agent].max_subagent_depth

Asking ==
  (outcome = "running" /\ top.pc = "llm" /\ mine.max_total_tokens > 0) =>
    top.tokens < mine.max_total_tokens

AInv ==
  /\ agents \in Pipelines /\ Validated(agents)
  /\ open \in Seq({"llm", "subagent"})
  /\ outcome \in {"running", "ok", "dropped"} \cup Errors
  /\ StackOK(agents, stack)
  /\ Asking

-----------------------------------------------------------------------------
\* Who lists whom depends on the agents of the loops alone.
LEMMA LinkedAlike ==
  ASSUME NEW a, NEW s, NEW t, NEW i \in Nat, NEW j \in Nat,
         \A k \in i .. j : t[k].agent = s[k].agent, Linked(a, t, i, j)
  PROVE  Linked(a, s, i, j)
<1> SUFFICES ASSUME NEW k \in i .. j - 1 PROVE s[k + 1].agent \in a[s[k].agent].allowed_tools
  BY DEF Linked
<1>1. k \in i .. j /\ k + 1 \in i .. j OBVIOUS
<1>2. t[k + 1].agent \in a[t[k].agent].allowed_tools BY DEF Linked
<1> QED BY <1>1, <1>2

\* Two stacks of as many loops, of the same agents and all but the last waiting.
LEMMA StackAlike ==
  ASSUME NEW a, NEW s, NEW t, StackOK(a, s), t \in Seq(Loop), Len(t) <= Len(s), t # <<>>,
         \A i \in DOMAIN t : t[i].agent = s[i].agent
  PROVE  /\ \A i, j \in DOMAIN t :
              (i < j /\ Linked(a, t, i, j)) => Inherits(a, t[i].agent, t[j].agent, j - i)
         /\ \A i \in DOMAIN t : i < Len(t) => i <= a[t[i].agent].max_subagent_depth
<1>1. s \in Seq(Loop) BY DEF StackOK
<1>2. /\ Len(s) \in Nat /\ DOMAIN s = 1 .. Len(s)
      /\ Len(t) \in Nat /\ DOMAIN t = 1 .. Len(t)
  BY <1>1
<1>3. ASSUME NEW i \in DOMAIN t, NEW j \in DOMAIN t, i < j, Linked(a, t, i, j)
      PROVE  Inherits(a, t[i].agent, t[j].agent, j - i)
  <2>1. i \in DOMAIN s /\ j \in DOMAIN s /\ i \in Nat /\ j \in Nat BY <1>2
  <2>2. \A k \in i .. j : k \in DOMAIN t BY <1>2
  <2>3. \A k \in i .. j : t[k].agent = s[k].agent BY <2>2
  <2>4. Linked(a, s, i, j) BY <1>3, <2>1, <2>3, LinkedAlike
  <2>5. Inherits(a, s[i].agent, s[j].agent, j - i) BY <1>3, <2>1, <2>4 DEF StackOK
  <2> QED BY <2>5
<1>4. ASSUME NEW i \in DOMAIN t, i < Len(t) PROVE i <= a[t[i].agent].max_subagent_depth
  <2>1. i \in DOMAIN s /\ i < Len(s) BY <1>2, <1>4
  <2> QED BY <2>1 DEF StackOK
<1> QED BY <1>3, <1>4

\* Replacing the innermost loop by another of the same agent.
LEMMA WithTopOK ==
  ASSUME NEW a \in Pipelines, NEW s, StackOK(a, s), NEW f \in Loop,
         f.agent = Top(s).agent, LoopOK(a, f)
  PROVE  /\ StackOK(a, WithTop(s, f))
         /\ Len(WithTop(s, f)) = Len(s)
         /\ Top(WithTop(s, f)) = f
         /\ \A i \in DOMAIN s : i < Len(s) => WithTop(s, f)[i] = s[i]
<1> DEFINE t == WithTop(s, f)
<1>1. Len(s) \in Nat \ {0} /\ DOMAIN s = 1 .. Len(s) /\ Len(s) \in DOMAIN s BY DEF StackOK
<1>2. t \in Seq(Loop) /\ t # <<>> /\ Len(t) = Len(s) /\ DOMAIN t = DOMAIN s BY <1>1 DEF StackOK, WithTop
<1>3. t[Len(s)] = f /\ \A i \in DOMAIN s : i # Len(s) => t[i] = s[i] BY <1>1 DEF StackOK, WithTop
<1>4. \A i \in DOMAIN s : t[i].agent = s[i].agent BY <1>3 DEF Top
<1>5. \A i \in DOMAIN t : LoopOK(a, t[i]) BY <1>2, <1>3 DEF StackOK
<1>6. \A i \in DOMAIN t : i < Len(t) => t[i].pc = "child" BY <1>1, <1>2, <1>3 DEF StackOK
<1>7. t \in Seq(Loop) /\ t # <<>> /\ Len(t) <= Len(s) /\ \A i \in DOMAIN t : t[i].agent = s[i].agent
  BY <1>1, <1>2, <1>4
<1> HIDE DEF t
<1>9. StackOK(a, t) BY <1>2, <1>5, <1>6, <1>7, StackAlike DEF StackOK
<1> USE DEF t
<1>10. \A i \in DOMAIN s : i < Len(s) => t[i] = s[i] BY <1>1, <1>3
<1> QED BY <1>2, <1>3, <1>9, <1>10 DEF Top

\* Leaving the innermost of several loops.
LEMMA PoppedOK ==
  ASSUME NEW a \in Pipelines, NEW s, StackOK(a, s), Len(s) > 1
  PROVE  /\ StackOK(a, Popped(s)) /\ Len(Popped(s)) = Len(s) - 1
         /\ Top(Popped(s)) = s[Len(s) - 1] /\ Top(Popped(s)).pc = "child"
<1> DEFINE t == Popped(s)
<1>1. Len(s) \in Nat /\ DOMAIN s = 1 .. Len(s) BY DEF StackOK
<1>2. t \in Seq(Loop) /\ Len(t) = Len(s) - 1 /\ DOMAIN t = 1 .. Len(s) - 1 BY <1>1 DEF StackOK, Popped
<1>3. \A i \in DOMAIN t : t[i] = s[i] BY <1>1, <1>2 DEF StackOK, Popped
<1>4. t # <<>> BY <1>1, <1>2
<1>5. \A i \in DOMAIN t : i \in DOMAIN s /\ i < Len(s) BY <1>1, <1>2
<1>6. 1 \in DOMAIN t /\ Len(t) \in DOMAIN t BY <1>1, <1>2
<1>7. \A i \in DOMAIN t : LoopOK(a, t[i]) BY <1>3, <1>5 DEF StackOK
<1>8. \A i \in DOMAIN t : t[i].pc = "child" BY <1>3, <1>5 DEF StackOK
<1>9. Len(t) <= Len(s) /\ \A i \in DOMAIN t : t[i].agent = s[i].agent BY <1>1, <1>2, <1>3
<1> HIDE DEF t
<1>10. StackOK(a, t) BY <1>2, <1>4, <1>7, <1>8, <1>9, StackAlike DEF StackOK
<1> USE DEF t
<1> QED BY <1>2, <1>3, <1>6, <1>8, <1>10 DEF Top

\* A recorded call: the loop goes on with the rest of its calls.
LEMMA RecordedOK ==
  ASSUME NEW a \in Pipelines, NEW f \in Loop, LoopOK(a, f),
         f.batch # <<>>, f.iteration < a[f.agent].max_iterations
  PROVE  Recorded(f) \in Loop /\ LoopOK(a, Recorded(f)) /\ Recorded(f).agent = f.agent
         /\ Recorded(f).pc = "calls"
<1> DEFINE g == Recorded(f)
<1>1. f.batch \in Seq(Call) BY DEF Loop
<1>2. Tail(f.batch) \in Seq(Call) /\ DOMAIN Tail(f.batch) = 1 .. Len(f.batch) - 1
      /\ \A k \in DOMAIN Tail(f.batch) : k + 1 \in DOMAIN f.batch /\ Tail(f.batch)[k] = f.batch[k + 1]
  BY <1>1
<1>3. g \in Loop BY <1>2 DEF Loop, Recorded
<1>4. /\ g.agent = f.agent /\ g.pc = "calls" /\ g.batch = Tail(f.batch)
      /\ g.iteration = f.iteration /\ g.tokens = f.tokens
  BY DEF Loop, Recorded
<1>5. \A k \in DOMAIN g.batch : g.batch[k].name \in a[g.agent].allowed_tools \cup Strays
  BY <1>2, <1>4 DEF LoopOK
<1>6. LoopOK(a, g) BY <1>4, <1>5 DEF LoopOK
<1> QED BY <1>3, <1>4, <1>6

\* The caller's loop once a child has returned.
LEMMA CallerOK ==
  ASSUME NEW a \in Pipelines, NEW s, StackOK(a, s), Len(s) > 1
  PROVE  /\ StackOK(a, WithTop(Popped(s), Recorded(Top(Popped(s)))))
         /\ Top(WithTop(Popped(s), Recorded(Top(Popped(s))))).pc = "calls"
<1> DEFINE t == Popped(s)
           f == Top(t)
<1>2. StackOK(a, t) /\ f.pc = "child" BY PoppedOK
<1>3. Len(t) \in DOMAIN t BY <1>2 DEF StackOK
<1>4. f \in Loop /\ LoopOK(a, f) BY <1>2, <1>3 DEF StackOK, Top
<1>5. f.batch # <<>> /\ f.iteration < a[f.agent].max_iterations BY <1>2, <1>4 DEF LoopOK
<1>6. /\ Recorded(f) \in Loop /\ LoopOK(a, Recorded(f)) /\ Recorded(f).agent = f.agent
      /\ Recorded(f).pc = "calls"
  BY <1>4, <1>5, RecordedOK
<1> QED BY <1>2, <1>6, WithTopOK

LEMMA StackLen ==
  ASSUME NEW a, NEW s, StackOK(a, s)
  PROVE  Len(s) \in Nat \ {0} /\ DOMAIN s = 1 .. Len(s) /\ Len(s) \in DOMAIN s
<1>1. s \in Seq(Loop) /\ s # <<>> BY DEF StackOK
<1> QED BY <1>1

LEMMA PoppedSeq ==
  ASSUME NEW o \in Seq({"llm", "subagent"})
  PROVE  Popped(o) \in Seq({"llm", "subagent"})
BY DEF Popped

\* A loop that returns leaves a stack as good as the one it returned from.
LEMMA ReturnOK ==
  ASSUME NEW a \in Pipelines, NEW s, StackOK(a, s), NEW o \in Seq({"llm", "subagent"}),
         NEW r \in {"ok"} \cup Errors
  PROVE  (outcome = "running" /\ Return(s, o, r)) =>
           /\ StackOK(a, stack')
           /\ open' \in Seq({"llm", "subagent"})
           /\ outcome' \in {"running", "ok"} \cup Errors
           /\ outcome' = "running" => Top(stack').pc = "calls"
<1>1. Len(s) = 1 \/ Len(s) > 1
  <2>1. Len(s) \in Nat \ {0} BY StackLen
  <2>2. \A n \in Nat \ {0} : n = 1 \/ n > 1 OBVIOUS
  <2> QED BY <2>1, <2>2, Zenon
<1>2. Popped(o) \in Seq({"llm", "subagent"}) BY PoppedSeq
<1>3. r # "running" BY DEF Errors
<1>4. Len(s) > 1 => /\ StackOK(a, WithTop(Popped(s), Recorded(Top(Popped(s)))))
                    /\ Top(WithTop(Popped(s), Recorded(Top(Popped(s))))).pc = "calls"
  BY CallerOK
<1>5. Return(s, o, r) =>
        \/ outcome' = r /\ stack' = s /\ open' = o
        \/ /\ Len(s) > 1
           /\ stack' = WithTop(Popped(s), Recorded(Top(Popped(s)))) /\ open' = Popped(o)
           /\ outcome' = outcome
  BY Zenon DEF Return
<1> QED BY <1>1, <1>2, <1>3, <1>4, <1>5

-----------------------------------------------------------------------------
\* The innermost loop, and the policy it runs under.
LEMMA TopFacts ==
  ASSUME AInv
  PROVE  /\ top \in Loop /\ LoopOK(agents, top) /\ top = Top(stack)
         /\ top.agent \in Agents /\ mine = agents[top.agent] /\ mine \in Policy
         /\ agents \in Pipelines /\ StackOK(agents, stack) /\ open \in Seq({"llm", "subagent"})
<1>1. StackOK(agents, stack) /\ agents \in Pipelines BY DEF AInv
<1>2. Len(stack) \in DOMAIN stack BY <1>1, StackLen
<1>3. top \in Loop /\ LoopOK(agents, top) BY <1>1, <1>2 DEF StackOK, top, Top
<1>4. top.agent \in Agents BY <1>3 DEF Loop
<1>5. agents \in [Agents -> Policy] BY <1>1, LoopAssumption
<1> QED BY <1>1, <1>3, <1>4, <1>5 DEF AInv, top, mine

\* A step that leaves no loop waiting for the transport.
LEMMA KeepInv ==
  ASSUME AInv, agents' = agents, StackOK(agents, stack'), open' \in Seq({"llm", "subagent"}),
         outcome' \in {"running", "ok", "dropped"} \cup Errors,
         outcome' = "running" => Top(stack').pc # "llm"
  PROVE  AInv'
<1>1. (agents \in Pipelines /\ Validated(agents))' BY DEF AInv, Validated
<1>2. StackOK(agents, stack)' BY DEF StackOK, LoopOK, Inherits, Linked, Delegates
<1>3. Asking' BY DEF Asking, top
<1> QED BY <1>1, <1>2, <1>3 DEF AInv

LEMMA ReturnInv ==
  ASSUME NEW s, NEW o \in Seq({"llm", "subagent"}), NEW r \in {"ok"} \cup Errors,
         AInv, outcome = "running", StackOK(agents, s), agents \in Pipelines
  PROVE  (Return(s, o, r) /\ agents' = agents) => AInv'
<1>1. Return(s, o, r) =>
           /\ StackOK(agents, stack')
           /\ open' \in Seq({"llm", "subagent"})
           /\ outcome' \in {"running", "ok"} \cup Errors
           /\ outcome' = "running" => Top(stack').pc = "calls"
  BY ReturnOK
<1> QED BY <1>1, KeepInv

LEMMA GoOnInv ==
  ASSUME NEW s, NEW o \in Seq({"llm", "subagent"}),
         AInv, outcome = "running", StackOK(agents, s), Top(s).pc # "llm"
  PROVE  (GoOn(s, o) /\ agents' = agents) => AInv'
<1>1. GoOn(s, o) => stack' = s /\ open' = o /\ outcome' = "running" BY DEF GoOn
<1> QED BY <1>1, KeepInv

-----------------------------------------------------------------------------
\* One lemma per kind of step.
LEMMA EnterInv == ASSUME AInv, Enter PROVE AInv'
<1> DEFINE f == [top EXCEPT !.pc = "iterate"]
<1>1. outcome = "running" /\ top.pc = "enter" /\ agents' = agents BY DEF Enter, At
<1>2. \/ Return(stack, open, "invalid_policy")
      \/ Return(stack, open, "unknown_tool")
      \/ GoOn(WithTop(stack, f), open)
  BY Zenon DEF Enter
<1>3. f \in Loop /\ f.agent = Top(stack).agent /\ LoopOK(agents, f) /\ f.pc = "iterate"
  BY TopFacts DEF Loop, LoopOK
<1> HIDE DEF f
<1>4. StackOK(agents, WithTop(stack, f)) /\ Top(WithTop(stack, f)) = f
  BY <1>3, TopFacts, WithTopOK
<1>5. "invalid_policy" \in Errors /\ "unknown_tool" \in Errors BY DEF Errors
<1>6. GoOn(WithTop(stack, f), open) => AInv' BY <1>1, <1>3, <1>4, TopFacts, GoOnInv
<1>7. Return(stack, open, "invalid_policy") => AInv' BY <1>1, <1>5, TopFacts, ReturnInv
<1>8. Return(stack, open, "unknown_tool") => AInv' BY <1>1, <1>5, TopFacts, ReturnInv
<1> QED BY <1>2, <1>6, <1>7, <1>8

LEMMA LimitInv == ASSUME AInv, Exhausted \/ OutOfTokens PROVE AInv'
<1>1. outcome = "running" /\ agents' = agents BY DEF Exhausted, OutOfTokens, At
<1>2. Return(stack, open, "iteration_limit") \/ Return(stack, open, "tokens")
  BY DEF Exhausted, OutOfTokens
<1>3. "iteration_limit" \in Errors /\ "tokens" \in Errors BY DEF Errors
<1>4. Return(stack, open, "iteration_limit") => AInv' BY <1>1, <1>3, TopFacts, ReturnInv
<1>5. Return(stack, open, "tokens") => AInv' BY <1>1, <1>3, TopFacts, ReturnInv
<1> QED BY <1>2, <1>4, <1>5

LEMMA RequestInv == ASSUME AInv, Request PROVE AInv'
<1> DEFINE f == [top EXCEPT !.pc = "llm", !.retried = {}]
<1>1. /\ outcome = "running" /\ top.pc = "iterate" /\ agents' = agents
      /\ top.iteration < mine.max_iterations /\ ~ BudgetUsedUp
  BY DEF Request, At
<1>2. stack' = WithTop(stack, f) /\ open' = Append(open, "llm") /\ outcome' = outcome
  BY Zenon DEF Request, GoOn
<1>3. f \in Loop /\ f.agent = Top(stack).agent /\ LoopOK(agents, f) /\ f.tokens = top.tokens
  BY <1>1, TopFacts DEF Loop, LoopOK
<1> HIDE DEF f
<1>4. StackOK(agents, stack') /\ Top(stack') = f
  BY <1>2, <1>3, TopFacts, WithTopOK
<1>5. mine' = mine /\ top' = f BY <1>1, <1>3, <1>4, TopFacts DEF mine, top
<1>6. mine.max_total_tokens \in Nat /\ top.tokens \in Nat BY TopFacts DEF Policy, Loop
<1>7. mine.max_total_tokens > 0 => f.tokens < mine.max_total_tokens
  BY <1>1, <1>3, <1>6 DEF BudgetUsedUp
<1>8. Asking' BY <1>5, <1>7 DEF Asking
<1>9. (agents \in Pipelines /\ Validated(agents))' BY <1>1 DEF AInv, Validated
<1>10. StackOK(agents, stack)' BY <1>1, <1>4 DEF StackOK, LoopOK, Inherits, Linked, Delegates
<1>11. open' \in Seq({"llm", "subagent"}) BY <1>2, TopFacts
<1>12. outcome' \in {"running", "ok", "dropped"} \cup Errors BY <1>1, <1>2
<1> QED BY <1>8, <1>9, <1>10, <1>11, <1>12 DEF AInv

\* A response's tokens.  A parent is not bound by OneResponseOver.
LEMMA ChargedOK ==
  ASSUME NEW a \in Pipelines, NEW s, StackOK(a, s), NEW u \in Usages, Top(s).pc = "llm",
         a[Top(s).agent].max_total_tokens > 0 =>
           Top(s).tokens < a[Top(s).agent].max_total_tokens
  PROVE  /\ StackOK(a, Charged(s, u))
         /\ Top(Charged(s, u)).agent = Top(s).agent
         /\ Top(Charged(s, u)).pc = "llm"
<1> DEFINE t == Charged(s, u)
<1>1. Len(s) \in Nat \ {0} /\ DOMAIN s = 1 .. Len(s) /\ Len(s) \in DOMAIN s BY StackLen
<1>2. s \in Seq(Loop) /\ s # <<>> /\ u \in Nat BY LoopAssumption DEF StackOK
<1>a. \A i \in DOMAIN s :
        t[i] = [s[i] EXCEPT !.tokens = IF i >= Len(s) - 1 THEN @ + u ELSE @, !.spent = @ + u]
  BY Zenon DEF Charged
<1>b. \A i \in DOMAIN s : s[i] \in Loop BY <1>2
<1>3. DOMAIN t = DOMAIN s BY DEF Charged
<1> HIDE DEF t
<1>4. ASSUME NEW i \in DOMAIN s
      PROVE  /\ t[i] \in Loop /\ t[i].agent = s[i].agent /\ t[i].pc = s[i].pc
             /\ t[i].iteration = s[i].iteration /\ t[i].batch = s[i].batch
             /\ t[i].tokens = IF i >= Len(s) - 1 THEN s[i].tokens + u ELSE s[i].tokens
  <2> DEFINE v == IF i >= Len(s) - 1 THEN s[i].tokens + u ELSE s[i].tokens
             w == s[i].spent + u
  <2>1. s[i].tokens \in Nat /\ s[i].spent \in Nat BY <1>b DEF Loop
  <2>2. v \in Nat /\ w \in Nat BY <1>2, <2>1
  <2>3. t[i] = [s[i] EXCEPT !.tokens = v, !.spent = w] BY <1>a, Zenon
  <2> HIDE DEF v, w
  <2>4. /\ t[i] \in Loop /\ t[i].agent = s[i].agent /\ t[i].pc = s[i].pc
        /\ t[i].iteration = s[i].iteration /\ t[i].batch = s[i].batch /\ t[i].tokens = v
    BY <1>b, <2>2, <2>3 DEF Loop
  <2> QED BY <2>4 DEF v
<1>5. t \in Seq(Loop) /\ DOMAIN t = DOMAIN s /\ Len(t) = Len(s) /\ t # <<>>
  <2>1. t \in [1 .. Len(s) -> Loop] BY <1>1, <1>3, <1>4 DEF t, Charged
  <2> QED BY <1>1, <2>1
<1>6. ASSUME NEW i \in DOMAIN s PROVE LoopOK(a, t[i])
  <2>1. LoopOK(a, s[i]) BY DEF StackOK
  <2>2. CASE i < Len(s)
    <3>1. s[i].pc = "child" BY <2>2 DEF StackOK
    <3>2. s[i].batch # <<>> /\ s[i].batch \in Seq(Call) BY <2>1, <3>1, <1>b DEF LoopOK, Loop
    <3>3. 1 \in DOMAIN s[i].batch BY <3>2
    <3>4. Delegates(a, s[i].agent) BY <2>1, <3>1, <3>3 DEF LoopOK, Delegates
    <3> QED BY <1>4, <2>1, <3>1, <3>4 DEF LoopOK
  <2>3. CASE i = Len(s)
    <3>1. s[i] = Top(s) /\ s[i].tokens \in Nat BY <2>3, <1>b DEF Top, Loop
    <3>2. t[i].tokens = s[i].tokens + u BY <1>1, <1>4, <2>3
    <3>3. a[s[i].agent] \in Policy BY <1>b, LoopAssumption DEF Loop
    <3>4. a[s[i].agent].max_total_tokens \in Nat BY <3>3 DEF Policy
    <3>5. a[s[i].agent].max_total_tokens > 0 => t[i].tokens < a[s[i].agent].max_total_tokens + u
      BY <3>1, <3>2, <3>4, <1>2
    <3> QED BY <1>4, <2>1, <3>1, <3>5 DEF LoopOK
  <2> QED BY <1>1, <2>2, <2>3
<1>7. 1 \in DOMAIN s BY <1>1
<1>8. \A i \in DOMAIN t : i < Len(t) => t[i].pc = "child" BY <1>4, <1>5 DEF StackOK
<1>9. Len(t) <= Len(s) /\ \A i \in DOMAIN t : t[i].agent = s[i].agent BY <1>1, <1>4, <1>5
<1>10. StackOK(a, t) BY <1>5, <1>6, <1>8, <1>9, StackAlike DEF StackOK
<1> QED BY <1>1, <1>4, <1>5, <1>10 DEF t, Top

LEMMA LlmFailsInv == ASSUME AInv, LlmFails PROVE AInv'
<1>1. outcome = "running" /\ agents' = agents /\ Return(stack, Popped(open), "llm_error")
  BY DEF LlmFails, At
<1>2. Popped(open) \in Seq({"llm", "subagent"}) BY TopFacts, PoppedSeq
<1>3. "llm_error" \in Errors BY DEF Errors
<1> QED BY <1>1, <1>2, <1>3, TopFacts, ReturnInv

\* What a response calls is what the loop offers, or a stray name.
LEMMA BatchesOK ==
  ASSUME AInv, NEW batch \in Batches
  PROVE  /\ batch \in Seq(Call)
         /\ \A k \in DOMAIN batch : batch[k].name \in agents[top.agent].allowed_tools \cup Strays
<1>1. PICK k \in 0 .. MaxCalls :
        batch \in [1 .. k -> [id : CallIds, name : mine.allowed_tools \cup Strays]]
  BY DEF Batches
<1>2. mine.allowed_tools \cup Strays \subseteq Names BY TopFacts, LoopAssumption DEF Policy
<1>3. batch \in [1 .. k -> Call] BY <1>1, <1>2 DEF Call
<1>4. k \in Nat BY LoopAssumption
<1>5. batch \in Seq(Call) BY <1>3, <1>4
<1> QED BY <1>1, <1>5, TopFacts

LEMMA LlmAnswersInv ==
  ASSUME AInv, NEW u \in Usages, NEW batch \in Batches, LlmAnswers(u, batch)
  PROVE  AInv'
<1> DEFINE s == Charged(stack, u)
           f == [Top(s) EXCEPT !.pc = "calls", !.batch = batch]
           o == Popped(open)
<1>1. outcome = "running" /\ top.pc = "llm" /\ agents' = agents BY DEF LlmAnswers, At
<1>2. \/ Return(s, o, "tokens")
      \/ Return(s, o, "ok")
      \/ GoOn(WithTop(s, f), o)
  BY Zenon DEF LlmAnswers
<1>3. o \in Seq({"llm", "subagent"}) BY TopFacts, PoppedSeq
<1>4. mine.max_total_tokens > 0 => top.tokens < mine.max_total_tokens
  BY <1>1 DEF AInv, Asking
<1>5. /\ StackOK(agents, s) /\ Top(s).agent = top.agent /\ Top(s).pc = "llm"
  BY <1>1, <1>4, TopFacts, ChargedOK
<1>6. Top(s) \in Loop /\ LoopOK(agents, Top(s))
  <2>1. Len(s) \in DOMAIN s BY <1>5, StackLen
  <2> QED BY <1>5, <2>1 DEF StackOK, Top
<1> HIDE DEF s, o
<1>7. f \in Loop /\ f.agent = Top(s).agent /\ LoopOK(agents, f) /\ f.pc = "calls"
  <2>1. /\ batch \in Seq(Call)
        /\ \A k \in DOMAIN batch : batch[k].name \in agents[top.agent].allowed_tools \cup Strays
    BY BatchesOK
  <2>2. f \in Loop BY <1>6, <2>1 DEF Loop
  <2>3. /\ f.agent = Top(s).agent /\ f.pc = "calls" /\ f.batch = batch
        /\ f.iteration = Top(s).iteration /\ f.tokens = Top(s).tokens
    BY <1>6 DEF Loop
  <2>4. LoopOK(agents, f) BY <1>5, <1>6, <2>1, <2>3 DEF LoopOK
  <2> QED BY <2>2, <2>3, <2>4
<1> HIDE DEF f
<1>8. StackOK(agents, WithTop(s, f)) /\ Top(WithTop(s, f)) = f
  BY <1>5, <1>7, TopFacts, WithTopOK
<1>9. "tokens" \in Errors BY DEF Errors
<1>10. GoOn(WithTop(s, f), o) => AInv' BY <1>1, <1>3, <1>7, <1>8, GoOnInv
<1>11. Return(s, o, "tokens") => AInv' BY <1>1, <1>3, <1>5, <1>9, TopFacts, ReturnInv
<1>12. Return(s, o, "ok") => AInv' BY <1>1, <1>3, <1>5, TopFacts, ReturnInv
<1> QED BY <1>2, <1>10, <1>11, <1>12 DEF s, f, o

LEMMA NextIterationInv == ASSUME AInv, NextIteration PROVE AInv'
<1> DEFINE f == [top EXCEPT !.pc = "iterate", !.iteration = @ + 1]
<1>1. outcome = "running" /\ top.pc = "calls" /\ agents' = agents BY DEF NextIteration, At
<1>2. GoOn(WithTop(stack, f), open) BY Zenon DEF NextIteration
<1>3. top.iteration \in Nat /\ mine.max_iterations \in Nat
      /\ top.iteration < mine.max_iterations
  BY <1>1, TopFacts DEF Loop, LoopOK, Policy, u32
<1>4. /\ f \in Loop /\ f.agent = Top(stack).agent /\ f.pc = "iterate"
      /\ f.iteration = top.iteration + 1 /\ f.batch = top.batch /\ f.tokens = top.tokens
  <2> DEFINE w == top.iteration + 1
  <2>1. w \in Nat BY <1>3
  <2>2. f = [top EXCEPT !.pc = "iterate", !.iteration = w] BY Zenon
  <2> HIDE DEF f, w
  <2>3. /\ f \in Loop /\ f.agent = Top(stack).agent /\ f.pc = "iterate"
        /\ f.iteration = w /\ f.batch = top.batch /\ f.tokens = top.tokens
    BY <2>1, <2>2, TopFacts DEF Loop
  <2> QED BY <2>3 DEF w
<1>5. f.iteration <= mine.max_iterations BY <1>3, <1>4
<1>6. LoopOK(agents, f) BY <1>4, <1>5, TopFacts DEF LoopOK
<1> HIDE DEF f
<1>7. StackOK(agents, WithTop(stack, f)) /\ Top(WithTop(stack, f)) = f
  BY <1>4, <1>6, TopFacts, WithTopOK
<1> QED BY <1>1, <1>2, <1>4, <1>7, TopFacts, GoOnInv

\* Counting a call changes nothing the invariant speaks of.
LEMMA CountedOK ==
  ASSUME AInv
  PROVE  /\ Counted \in Loop /\ LoopOK(agents, Counted) /\ Counted.agent = top.agent
         /\ Counted.pc = top.pc /\ Counted.batch = top.batch
         /\ Counted.iteration = top.iteration /\ Counted.tokens = top.tokens
<1>1. /\ Counted \in Loop /\ Counted.agent = top.agent
      /\ Counted.pc = top.pc /\ Counted.batch = top.batch
      /\ Counted.iteration = top.iteration /\ Counted.tokens = top.tokens
  BY TopFacts, SMTT(60) DEF Counted, Loop
<1>2. LoopOK(agents, Counted) BY <1>1, TopFacts DEF LoopOK
<1> QED BY <1>1, <1>2

\* The call at hand, of a loop that may handle it.
LEMMA HandlingOK ==
  ASSUME AInv, NEW name \in Names, Handling(name)
  PROVE  /\ outcome = "running" /\ top.pc = "calls" /\ top.batch # <<>>
         /\ top.iteration < agents[top.agent].max_iterations
         /\ top.batch[1].name = name
         /\ name \in mine.allowed_tools \cup Strays
<1>1. outcome = "running" /\ top.pc = "calls" /\ top.batch # <<>> /\ name = Head(top.batch).name
  BY DEF Handling, At
<1>2. top.batch \in Seq(Call) BY TopFacts DEF Loop
<1>3. Head(top.batch) = top.batch[1] /\ 1 \in DOMAIN top.batch BY <1>1, <1>2
<1> QED BY <1>1, <1>3, TopFacts DEF LoopOK

\* Recording the call at hand, by a loop like the innermost one.
LEMMA RecordInv ==
  ASSUME AInv, NEW f \in Loop, LoopOK(agents, f), f.agent = top.agent,
         f.batch # <<>>, f.iteration < agents[f.agent].max_iterations, outcome = "running"
  PROVE  (GoOn(WithTop(stack, Recorded(f)), open) /\ agents' = agents) => AInv'
<1>1. /\ Recorded(f) \in Loop /\ LoopOK(agents, Recorded(f))
      /\ Recorded(f).agent = Top(stack).agent /\ Recorded(f).pc = "calls"
  BY TopFacts, RecordedOK
<1>2. /\ StackOK(agents, WithTop(stack, Recorded(f)))
      /\ Top(WithTop(stack, Recorded(f))) = Recorded(f)
  BY <1>1, TopFacts, WithTopOK
<1> QED BY <1>1, <1>2, TopFacts, GoOnInv

\* Returning an error with the innermost loop as f.
LEMMA FailInv ==
  ASSUME AInv, NEW f \in Loop, LoopOK(agents, f), f.agent = top.agent, outcome = "running",
         NEW r \in Errors
  PROVE  (Return(WithTop(stack, f), open, r) /\ agents' = agents) => AInv'
<1>1. StackOK(agents, WithTop(stack, f)) BY TopFacts, WithTopOK
<1> QED BY <1>1, TopFacts, ReturnInv

LEMMA ParseErrorInv ==
  ASSUME AInv, NEW f \in Loop, LoopOK(agents, f), f.agent = top.agent,
         f.batch # <<>>, f.iteration < agents[f.agent].max_iterations, outcome = "running"
  PROVE  (ParseError(f) /\ agents' = agents) => AInv'
<1> DEFINE g == [f EXCEPT !.retried = @ \cup {Head(f.batch).id}]
<1>1. ParseError(f) => \/ GoOn(WithTop(stack, Recorded(g)), open)
                       \/ Return(WithTop(stack, f), open, "parse_failed")
  BY Zenon DEF ParseError
<1>2. f.batch \in Seq(Call) /\ f.retried \in SUBSET CallIds BY DEF Loop
<1>3. Head(f.batch).id \in CallIds
  <2>1. Head(f.batch) \in Call BY <1>2
  <2> QED BY <2>1 DEF Call
<1>4. /\ g \in Loop /\ g.agent = top.agent /\ g.batch = f.batch /\ g.iteration = f.iteration
      /\ g.pc = f.pc /\ g.tokens = f.tokens
  BY <1>2, <1>3 DEF Loop
<1>5. LoopOK(agents, g) BY <1>4 DEF LoopOK
<1>6. "parse_failed" \in Errors BY DEF Errors
<1> HIDE DEF g
<1>7. (GoOn(WithTop(stack, Recorded(g)), open) /\ agents' = agents) => AInv'
  BY <1>4, <1>5, RecordInv
<1>8. (Return(WithTop(stack, f), open, "parse_failed") /\ agents' = agents) => AInv'
  BY <1>6, FailInv
<1> QED BY <1>1, <1>7, <1>8

-----------------------------------------------------------------------------
\* The steps that handle a call without entering a loop.
LEMMA RefusedInv ==
  ASSUME AInv, NEW name \in Names,
         DepthDenied(name) \/ Denied(name) \/ UnknownTool(name) \/ NoPrompt(name)
  PROVE  AInv'
<1>1. Handling(name) /\ agents' = agents BY DEF DepthDenied, Denied, UnknownTool, NoPrompt
<1>2. /\ outcome = "running" /\ top.batch # <<>>
      /\ top.iteration < agents[top.agent].max_iterations
  BY <1>1, HandlingOK
<1>3. \/ GoOn(WithTop(stack, Recorded(Counted)), open)
      \/ Return(WithTop(stack, Counted), open, "unknown_tool")
      \/ ParseError(Counted)
  BY DEF DepthDenied, Denied, UnknownTool, NoPrompt
<1>4. "unknown_tool" \in Errors BY DEF Errors
<1>5. /\ Counted \in Loop /\ LoopOK(agents, Counted) /\ Counted.agent = top.agent
      /\ Counted.batch # <<>> /\ Counted.iteration < agents[Counted.agent].max_iterations
  BY <1>2, CountedOK
<1>6. GoOn(WithTop(stack, Recorded(Counted)), open) => AInv' BY <1>1, <1>2, <1>5, RecordInv
<1>7. Return(WithTop(stack, Counted), open, "unknown_tool") => AInv'
  BY <1>1, <1>2, <1>4, <1>5, FailInv
<1>8. ParseError(Counted) => AInv' BY <1>1, <1>2, <1>5, ParseErrorInv
<1> QED BY <1>3, <1>6, <1>7, <1>8

LEMMA OutOfCallsInv == ASSUME AInv, OutOfCalls PROVE AInv'
<1>1. outcome = "running" /\ agents' = agents
      /\ Return(WithTop(stack, Counted), open, "tool_calls")
  BY DEF OutOfCalls, At
<1>2. "tool_calls" \in Errors BY DEF Errors
<1> QED BY <1>1, <1>2, CountedOK, FailInv

\* A permitted tool of the loop's own: its effects are allowed.
LEMMA InvokeInv == ASSUME AInv, NEW name \in Names, Invoke(name) PROVE AInv'
<1> DEFINE f == [Counted EXCEPT !.pc = "tool"]
<1>1. /\ Handling(name) /\ Permitted(name) /\ name \in Tools /\ agents' = agents
      /\ GoOn(WithTop(stack, f), open)
  BY Zenon DEF Invoke
<1>2. /\ outcome = "running" /\ top.batch # <<>> /\ top.batch[1].name = name
      /\ top.iteration < agents[top.agent].max_iterations
  BY <1>1, HandlingOK
<1>3. EffectOf[name] \subseteq agents[top.agent].allow
  BY <1>1, TopFacts, NamesAssumption DEF Permitted, Effect
<1>4. /\ f \in Loop /\ f.agent = top.agent /\ f.pc = "tool" /\ f.batch = top.batch
      /\ f.iteration = top.iteration /\ f.tokens = top.tokens
  BY CountedOK DEF Loop
<1>5. LoopOK(agents, f) BY <1>1, <1>2, <1>3, <1>4, TopFacts DEF LoopOK
<1> HIDE DEF f
<1>6. StackOK(agents, WithTop(stack, f)) /\ Top(WithTop(stack, f)) = f
  BY <1>4, <1>5, TopFacts, WithTopOK
<1> QED BY <1>1, <1>2, <1>4, <1>6, TopFacts, GoOnInv

LEMMA ToolInv == ASSUME AInv, ToolOk \/ ToolFails PROVE AInv'
<1>1. outcome = "running" /\ top.pc = "tool" /\ agents' = agents BY DEF ToolOk, ToolFails, At
<1>2. \/ GoOn(WithTop(stack, Recorded(top)), open)
      \/ Return(stack, open, "tool_error")
      \/ ParseError(top)
  BY DEF ToolOk, ToolFails
<1>3. top.batch # <<>> /\ top.iteration < agents[top.agent].max_iterations
  BY <1>1, TopFacts DEF LoopOK
<1>4. "tool_error" \in Errors BY DEF Errors
<1>5. GoOn(WithTop(stack, Recorded(top)), open) => AInv' BY <1>1, <1>3, TopFacts, RecordInv
<1>6. Return(stack, open, "tool_error") => AInv' BY <1>1, <1>4, TopFacts, ReturnInv
<1>7. ParseError(top) => AInv' BY <1>1, <1>3, TopFacts, ParseErrorInv
<1> QED BY <1>2, <1>5, <1>6, <1>7

LEMMA DropInv == ASSUME AInv, Drop \/ UNCHANGED vars PROVE AInv'
<1>1. agents' = agents /\ stack' = stack /\ open' = open
      /\ (outcome' = outcome \/ outcome' = "dropped")
  BY DEF Drop, vars
<1>2. (agents \in Pipelines /\ Validated(agents))' BY <1>1 DEF AInv, Validated
<1>3. StackOK(agents, stack)' BY <1>1, TopFacts DEF StackOK, LoopOK, Inherits, Linked, Delegates
<1>4. top' = top /\ mine' = mine BY <1>1 DEF top, mine
<1>5. Asking' BY <1>1, <1>4 DEF AInv, Asking
<1>6. outcome' \in {"running", "ok", "dropped"} \cup Errors BY <1>1 DEF AInv
<1>7. open' \in Seq({"llm", "subagent"}) BY <1>1, TopFacts
<1> QED BY <1>2, <1>3, <1>5, <1>6, <1>7 DEF AInv

-----------------------------------------------------------------------------
\* Entering a child: the gate on the depth, and what compose-down took away.
LEMMA InheritsStep ==
  ASSUME NEW a \in Pipelines, Validated(a), NEW x \in Agents, NEW y \in Agents,
         y \in a[x].allowed_tools, NEW z \in Agents, NEW d \in Nat, Inherits(a, z, x, d)
  PROVE  Inherits(a, z, y, d + 1)
<1>2. MayDelegate(a[x], a[y]) BY DEF Validated
<1>3. a[y].allow \subseteq a[z].allow BY <1>2 DEF MayDelegate, Inherits
<1>4. a[x] \in Policy /\ a[y] \in Policy /\ a[z] \in Policy BY LoopAssumption
<1>5. ASSUME a[z].max_subagent_depth < U32Max
      PROVE  a[y].max_subagent_depth <= a[z].max_subagent_depth - (d + 1)
  <2> DEFINE X == a[x].max_subagent_depth
             Y == a[y].max_subagent_depth
             Z == a[z].max_subagent_depth
  <2>1. X \in Nat /\ Y \in Nat /\ Z \in Nat /\ U32Max \in Nat
    BY <1>4, NamesAssumption DEF Policy, u32
  <2>2. (IF Y = U32Max THEN Y ELSE Y + 1) <= X BY <1>2, Zenon DEF MayDelegate, SaturatingSucc
  <2>3. X <= Z - d BY <1>5 DEF Inherits
  <2>4. Z < U32Max BY <1>5
  <2> HIDE DEF X, Y, Z
  <2>5. Y <= Z - (d + 1) BY <2>1, <2>2, <2>3, <2>4
  <2> QED BY <2>5 DEF Y, Z
<1> QED BY <1>3, <1>5 DEF Inherits

LEMMA CapsOK ==
  ASSUME NEW a \in Pipelines, NEW x \in Agents
  PROVE  /\ a[x].max_subagent_depth \in Nat /\ a[x].max_iterations \in Nat
         /\ a[x].max_total_tokens \in Nat
<1>1. a[x] \in Policy BY LoopAssumption
<1> QED BY <1>1 DEF Policy, u32

LEMMA PushOK ==
  ASSUME NEW a \in Pipelines, Validated(a), NEW s, StackOK(a, s), Top(s).pc = "child",
         NEW y \in Agents, y = Top(s).batch[1].name,
         Len(s) <= a[Top(s).agent].max_subagent_depth
  PROVE  StackOK(a, Append(s, Entered(y))) /\ Top(Append(s, Entered(y))) = Entered(y)
<1> DEFINE n == Len(s)
           x == Top(s).agent
           t == Append(s, Entered(y))
<1>1. n \in Nat \ {0} /\ DOMAIN s = 1 .. n /\ n \in DOMAIN s /\ 1 \in DOMAIN s BY StackLen
<1>2. s \in Seq(Loop) /\ Top(s) = s[n] /\ Top(s) \in Loop /\ LoopOK(a, Top(s))
  BY <1>1 DEF StackOK, Top
<1>3. x \in Agents /\ Top(s).batch \in Seq(Call) /\ Top(s).batch # <<>>
  BY <1>2 DEF Loop, LoopOK
<1>6. Entered(y) \in Loop /\ Entered(y).agent = y /\ Entered(y).pc = "enter"
  <2>1. <<>> \in Seq(Call) OBVIOUS
  <2> QED BY <2>1 DEF Entered, Loop
<1>7. LoopOK(a, Entered(y))
  <2>1. PICK u \in Usages : TRUE BY LoopAssumption
  <2>2. u \in Nat BY LoopAssumption
  <2>3. a[y].max_iterations \in Nat /\ a[y].max_total_tokens \in Nat BY CapsOK
  <2>4. a[y].max_total_tokens > 0 => 0 < a[y].max_total_tokens + u BY <2>2, <2>3
  <2>5. 0 <= a[y].max_iterations BY <2>3
  <2> QED BY <1>6, <2>4, <2>5 DEF LoopOK, Entered
<1>8. t \in Seq(Loop) /\ Len(t) = n + 1 /\ DOMAIN t = 1 .. n + 1 BY <1>1, <1>2, <1>6
<1>9. t[n + 1] = Entered(y) /\ \A i \in DOMAIN s : t[i] = s[i] BY <1>1, <1>2, <1>6
<1> HIDE DEF t
<1>10. \A i \in DOMAIN t : i = n + 1 \/ (i \in DOMAIN s /\ i < n + 1) BY <1>1, <1>8
<1>11. \A i \in DOMAIN t : LoopOK(a, t[i]) BY <1>7, <1>9, <1>10 DEF StackOK
<1>12. \A i \in DOMAIN t : i < Len(t) => t[i].pc = "child"
  <2>1. \A i \in DOMAIN s : i < n \/ i = n BY <1>1
  <2>2. \A i \in DOMAIN s : s[i].pc = "child" BY <1>2, <2>1 DEF StackOK
  <2> QED BY <1>8, <1>9, <1>10, <2>2
<1>13. \A i \in DOMAIN s : s[i].agent \in Agents
  <2> TAKE i \in DOMAIN s
  <2>1. s[i] \in Loop BY <1>2
  <2> QED BY <2>1 DEF Loop
<1>4. ASSUME NEW i \in DOMAIN s, Linked(a, s, i, n) PROVE Inherits(a, s[i].agent, x, n - i)
  <2>1. CASE i < n BY <1>1, <1>2, <1>4, <2>1 DEF StackOK
  <2>2. CASE i = n
    <3>1. s[i].agent = x /\ n - i = 0 BY <1>1, <1>2, <2>2
    <3>2. a[x].max_subagent_depth <= a[x].max_subagent_depth - 0
      <4>1. \A k \in Nat : k <= k - 0 OBVIOUS
      <4> QED BY <1>3, <4>1, CapsOK
    <3> QED BY <3>1, <3>2 DEF Inherits
  <2> QED BY <1>1, <2>1, <2>2
<1>14. ASSUME NEW i \in DOMAIN s, Linked(a, t, i, n + 1)
       PROVE  Inherits(a, s[i].agent, y, (n + 1) - i)
  <2>1. n - i \in Nat /\ (n - i) + 1 = (n + 1) - i /\ i \in Nat BY <1>1
  <2>2. n \in i .. (n + 1) - 1 BY <1>1
  <2>3. y \in a[x].allowed_tools
    <3>1. t[n + 1].agent \in a[t[n].agent].allowed_tools BY <1>14, <2>2 DEF Linked
    <3> QED BY <1>1, <1>2, <1>6, <1>9, <3>1
  <2>4. \A k \in i .. n : k \in DOMAIN s BY <1>1
  <2>5. \A k \in i .. n : t[k].agent = s[k].agent BY <1>9, <2>4
  <2>6. Linked(a, t, i, n)
    <3>1. \A k \in i .. n - 1 : k \in i .. (n + 1) - 1 BY <1>1
    <3> QED BY <1>14, <3>1 DEF Linked
  <2>7. Linked(a, s, i, n) BY <1>1, <2>1, <2>5, <2>6, LinkedAlike
  <2>8. Inherits(a, s[i].agent, y, (n - i) + 1) BY <1>3, <1>4, <1>13, <2>1, <2>3, <2>7, InheritsStep
  <2> QED BY <2>1, <2>8
<1>15. ASSUME NEW i \in DOMAIN t, NEW j \in DOMAIN t, i < j, Linked(a, t, i, j)
       PROVE  Inherits(a, t[i].agent, t[j].agent, j - i)
  <2>1. i \in DOMAIN s BY <1>1, <1>8, <1>10, <1>15
  <2>2. CASE j \in DOMAIN s
    <3>1. i \in Nat /\ j \in Nat BY <1>1, <2>1, <2>2
    <3>2. \A k \in i .. j : k \in DOMAIN s BY <1>1, <2>1, <2>2
    <3>3. \A k \in i .. j : t[k].agent = s[k].agent BY <1>9, <3>2
    <3>4. Linked(a, s, i, j) BY <1>15, <3>1, <3>3, LinkedAlike
    <3> QED BY <1>9, <1>15, <2>1, <2>2, <3>4 DEF StackOK
  <2>3. CASE j = n + 1 BY <1>6, <1>9, <1>14, <1>15, <2>1, <2>3
  <2> QED BY <1>10, <2>2, <2>3
<1>16. ASSUME NEW i \in DOMAIN t, i < Len(t) PROVE i <= a[t[i].agent].max_subagent_depth
  <2>1. i \in DOMAIN s /\ (i < n \/ i = n) BY <1>1, <1>8, <1>10, <1>16
  <2>2. t[i].agent = s[i].agent BY <1>9, <2>1
  <2>3. CASE i < n BY <2>1, <2>2, <2>3 DEF StackOK
  <2>4. CASE i = n BY <1>2, <2>2, <2>4
  <2> QED BY <2>1, <2>3, <2>4
<1>17. t # <<>> BY <1>1, <1>8
<1>18. StackOK(a, t) BY <1>8, <1>11, <1>12, <1>15, <1>16, <1>17 DEF StackOK
<1> QED BY <1>8, <1>9, <1>18 DEF t, Top

LEMMA EnterChildInv == ASSUME AInv, NEW name \in Names, EnterChild(name) PROVE AInv'
<1> DEFINE f == [Counted EXCEPT !.pc = "child"]
           s == WithTop(stack, f)
           o == Append(open, "subagent")
<1>1. /\ Handling(name) /\ Registered(name) /\ name \in Agents /\ agents' = agents
      /\ GoOn(Append(s, Entered(name)), o)
  BY Zenon DEF EnterChild
<1>2. /\ outcome = "running" /\ top.batch # <<>> /\ top.batch[1].name = name
      /\ top.iteration < agents[top.agent].max_iterations
  BY <1>1, HandlingOK
<1>3. /\ f \in Loop /\ f.agent = top.agent /\ f.pc = "child" /\ f.batch = top.batch
      /\ f.iteration = top.iteration /\ f.tokens = top.tokens
  BY CountedOK DEF Loop
<1>4. LoopOK(agents, f) BY <1>1, <1>2, <1>3, TopFacts DEF LoopOK
<1> HIDE DEF f
<1>5. StackOK(agents, s) /\ Top(s) = f /\ Len(s) = Len(stack)
  BY <1>3, <1>4, TopFacts, WithTopOK
<1>6. Len(stack) <= agents[top.agent].max_subagent_depth
  <2>1. ~ (Depth + 1 > mine.max_subagent_depth) BY <1>1 DEF Registered, TooDeep
  <2>2. Len(stack) \in Nat BY TopFacts, StackLen
  <2>3. mine.max_subagent_depth \in Nat BY TopFacts DEF Policy, u32
  <2>4. Depth + 1 = Len(stack) BY <2>2 DEF Depth
  <2>5. Len(stack) <= mine.max_subagent_depth BY <2>1, <2>2, <2>3, <2>4
  <2> QED BY <2>5, TopFacts
<1> HIDE DEF s
<1>7. /\ StackOK(agents, Append(s, Entered(name)))
      /\ Top(Append(s, Entered(name))) = Entered(name)
  BY <1>1, <1>2, <1>3, <1>5, <1>6, TopFacts, PushOK DEF AInv
<1>8. Entered(name).pc = "enter" BY DEF Entered
<1>9. o \in Seq({"llm", "subagent"}) BY TopFacts
<1> HIDE DEF o
<1> QED BY <1>1, <1>2, <1>7, <1>8, <1>9, GoOnInv

-----------------------------------------------------------------------------
LEMMA InitAInv == ASSUME Init PROVE AInv
<1>1. PICK root \in Agents : stack = <<Entered(root)>> BY DEF Init
<1>2. agents \in Pipelines /\ Validated(agents) /\ open = <<>> /\ outcome = "running"
  BY DEF Init
<1>3. Entered(root) \in Loop /\ Entered(root).agent = root /\ Entered(root).pc = "enter"
  <2>1. <<>> \in Seq(Call) OBVIOUS
  <2> QED BY <2>1 DEF Entered, Loop
<1>4. LoopOK(agents, Entered(root))
  <2>1. PICK u \in Usages : TRUE BY LoopAssumption
  <2>2. u \in Nat BY LoopAssumption
  <2>3. agents[root].max_iterations \in Nat /\ agents[root].max_total_tokens \in Nat
    BY <1>2, CapsOK
  <2>4. agents[root].max_total_tokens > 0 => 0 < agents[root].max_total_tokens + u
    BY <2>2, <2>3
  <2>5. 0 <= agents[root].max_iterations BY <2>3
  <2> QED BY <1>3, <2>4, <2>5 DEF LoopOK, Entered
<1> DEFINE e == Entered(root)
<1> HIDE DEF e
<1>5. /\ stack \in Seq(Loop) /\ Len(stack) = 1 /\ DOMAIN stack = 1 .. 1 /\ stack[1] = e
      /\ stack # <<>>
  BY <1>1, <1>3 DEF e
<1>6. \A i \in DOMAIN stack : i = 1 BY <1>5
<1>7. \A i \in DOMAIN stack : LoopOK(agents, stack[i]) BY <1>4, <1>5, <1>6 DEF e
<1>8. \A i \in DOMAIN stack : ~ (i < Len(stack)) /\ ~ (i > 1) BY <1>5, <1>6
<1>9. \A i, j \in DOMAIN stack : ~ (i < j)
  <2> TAKE i, j \in DOMAIN stack
  <2>1. i = 1 /\ j = 1 BY <1>6
  <2> QED BY <2>1
<1>10. StackOK(agents, stack) BY <1>5, <1>7, <1>8, <1>9 DEF StackOK
<1>11. top = e BY <1>5 DEF top, Top
<1>12. Asking BY <1>3, <1>11 DEF Asking, e
<1>13. open \in Seq({"llm", "subagent"}) BY <1>2
<1> QED BY <1>2, <1>10, <1>12, <1>13 DEF AInv

LEMMA StepAInv == ASSUME AInv, [Next]_vars PROVE AInv'
<1>1. CASE Enter BY <1>1, EnterInv
<1>2. CASE Exhausted \/ OutOfTokens BY <1>2, LimitInv
<1>3. CASE Request BY <1>3, RequestInv
<1>4. CASE NextIteration BY <1>4, NextIterationInv
<1>5. CASE OutOfCalls BY <1>5, OutOfCallsInv
<1>6. ASSUME NEW name \in Names,
             DepthDenied(name) \/ Denied(name) \/ UnknownTool(name) \/ NoPrompt(name)
      PROVE  AInv'
  BY <1>6, RefusedInv
<1>7. ASSUME NEW name \in Names, EnterChild(name) PROVE AInv' BY <1>7, EnterChildInv
<1>8. ASSUME NEW name \in Names, Invoke(name) PROVE AInv' BY <1>8, InvokeInv
<1>9. CASE LlmFails BY <1>9, LlmFailsInv
<1>10. CASE ToolOk \/ ToolFails BY <1>10, ToolInv
<1>11. ASSUME NEW u \in Usages, NEW batch \in Batches, LlmAnswers(u, batch) PROVE AInv'
  BY <1>11, LlmAnswersInv
<1>12. CASE Drop \/ UNCHANGED vars BY <1>12, DropInv
<1>13. CASE LoopStep BY <1>1, <1>2, <1>3, <1>4, <1>5, <1>6, <1>7, <1>8, <1>13, Zenon DEF LoopStep
<1>14. CASE External BY <1>9, <1>10, <1>11, <1>14, Zenon DEF External
<1> QED BY <1>12, <1>13, <1>14, Zenon DEF Next, Ended

\* The invariant, from which the theorems below follow.
THEOREM AgentInvariant == Safety => []AInv
<1>1. Init => AInv BY InitAInv
<1>2. AInv /\ [Next]_vars => AInv' BY StepAInv
<1> QED BY <1>1, <1>2, PTL DEF Safety

\* The state is well-formed, and no loop of the stack is past its iterations,
\* however the loops nest (run.rs: the head of the for loop).
THEOREM AgentTypes == Safety => []TypeOK
<1>1. AInv => TypeOK BY DEF AInv, TypeOK, StackOK, LoopOK
<1> QED BY <1>1, AgentInvariant, PTL

\* What OneResponseOver says of the gates before and after each request: a
\* loop that delegates nothing never passes its budget by a whole response.
THEOREM AgentOvershoot == Safety => []OneResponseOver
<1>1. AInv => OneResponseOver
  <2> SUFFICES ASSUME AInv, NEW i \in DOMAIN stack,
                      agents[stack[i].agent].max_total_tokens > 0,
                      (agents[stack[i].agent].allowed_tools \cup Strays) \cap Agents = {}
               PROVE  \E u \in Usages :
                        stack[i].tokens < agents[stack[i].agent].max_total_tokens + u
    BY Zenon DEF OneResponseOver
  <2>1. LoopOK(agents, stack[i]) BY DEF AInv, StackOK
  <2> QED BY <2>1 DEF LoopOK, Delegates
<1> QED BY <1>1, AgentInvariant, PTL

\* Whatever the model calls, the tool that runs has no effect that a loop
\* waiting for it through listed agents forbids: compose-down and the gates
\* of the loops together, whatever the depth of the stack.
THEOREM AgentEffects == Safety => []EffectsContained
<1>1. AInv => EffectsContained
  <2> SUFFICES ASSUME AInv, top.pc = "tool", NEW i \in DOMAIN stack, Listed(i, Len(stack))
               PROVE  EffectOf[Head(top.batch).name] \subseteq agents[stack[i].agent].allow
    BY DEF EffectsContained
  <2>1. StackOK(agents, stack) /\ LoopOK(agents, top) /\ top \in Loop BY TopFacts
  <2>2. Len(stack) \in Nat /\ DOMAIN stack = 1 .. Len(stack) /\ top = stack[Len(stack)]
        /\ Len(stack) \in DOMAIN stack
    BY <2>1, StackLen DEF top, Top
  <2>3. top.batch \in Seq(Call) /\ top.batch # <<>> BY <2>1 DEF Loop, LoopOK
  <2>4. Head(top.batch) = top.batch[1] BY <2>3
  <2>5. EffectOf[Head(top.batch).name] \subseteq agents[top.agent].allow
    BY <2>1, <2>4 DEF LoopOK
  <2>6. CASE i = Len(stack) BY <2>2, <2>5, <2>6
  <2>7. CASE i < Len(stack)
    <3>1. Linked(agents, stack, i, Len(stack)) BY DEF Listed, Linked
    <3>2. Inherits(agents, stack[i].agent, top.agent, Len(stack) - i)
      BY <2>1, <2>2, <2>7, <3>1 DEF StackOK
    <3> QED BY <2>5, <3>2 DEF Inherits
  <2> QED BY <2>2, <2>6, <2>7
<1> QED BY <1>1, AgentInvariant, PTL

LEMMA ComposedFacts ==
  ASSUME AInv, NEW i \in DOMAIN stack, NEW j \in DOMAIN stack, Composed(i, j)
  PROVE  /\ i \in Nat \ {0} /\ j \in Nat \ {0} /\ i < j /\ j <= Len(stack) /\ Len(stack) \in Nat
         /\ \A k \in DOMAIN stack : agents[stack[k].agent].max_subagent_depth \in Nat
         /\ DOMAIN stack = 1 .. Len(stack)
         /\ \A k \in i + 1 .. j :
              agents[stack[k].agent].max_subagent_depth <=
                agents[stack[i].agent].max_subagent_depth - (k - i)
<1>1. StackOK(agents, stack) /\ agents \in Pipelines BY TopFacts
<1>2. DOMAIN stack = 1 .. Len(stack) /\ Len(stack) \in Nat \ {0} BY <1>1, StackLen
<1>3. i \in Nat \ {0} /\ j \in Nat \ {0} /\ i < j /\ j <= Len(stack) BY <1>2 DEF Composed
<1>4. \A k \in DOMAIN stack : agents[stack[k].agent].max_subagent_depth \in Nat
  <2> TAKE k \in DOMAIN stack
  <2>1. stack[k] \in Loop BY <1>1 DEF StackOK
  <2>2. stack[k].agent \in Agents BY <2>1 DEF Loop
  <2> QED BY <1>1, <2>2, CapsOK
<1>5. ASSUME NEW k \in i + 1 .. j
      PROVE  agents[stack[k].agent].max_subagent_depth <=
               agents[stack[i].agent].max_subagent_depth - (k - i)
  <2>1. k \in DOMAIN stack /\ i < k BY <1>2, <1>3
  <2>2. \A l \in i .. k - 1 : l \in i .. j - 1 BY <1>3
  <2>3. Linked(agents, stack, i, k) BY <2>2 DEF Composed, Listed, Linked
  <2>4. Inherits(agents, stack[i].agent, stack[k].agent, k - i) BY <1>1, <2>1, <2>3 DEF StackOK
  <2> QED BY <2>4 DEF Inherits, Composed
<1> QED BY <1>2, <1>3, <1>4, <1>5

\* Whatever the model calls, loops that wait for each other through listed
\* agents nest half as deep as the cap of the outermost of them.
THEOREM AgentDepth == Safety => []DepthHalved
<1>1. AInv => DepthHalved
  <2> SUFFICES ASSUME AInv, NEW i \in DOMAIN stack, NEW j \in DOMAIN stack, Composed(i, j)
               PROVE  2 * (j - 1) - i <= agents[stack[i].agent].max_subagent_depth
    BY DEF DepthHalved
  <2> DEFINE Cap(k) == agents[stack[k].agent].max_subagent_depth
  <2>1. StackOK(agents, stack) BY TopFacts
  <2>2. /\ i \in Nat \ {0} /\ j \in Nat \ {0} /\ i < j /\ j <= Len(stack) /\ Len(stack) \in Nat
        /\ j - 1 \in DOMAIN stack /\ j - 1 < Len(stack)
    BY ComposedFacts
  <2>3. j - 1 <= Cap(j - 1) BY <2>1, <2>2 DEF StackOK
  <2>4. Cap(i) \in Nat /\ Cap(j - 1) \in Nat BY <2>2, ComposedFacts
  <2>5. CASE i = j - 1
    <3>1. i <= Cap(i) BY <2>3, <2>5
    <3> HIDE DEF Cap
    <3>2. 2 * (j - 1) - i <= Cap(i) BY <2>2, <2>4, <2>5, <3>1
    <3> QED BY <3>2 DEF Cap
  <2>6. CASE i < j - 1
    <3>1. j - 1 \in i + 1 .. j BY <2>2, <2>6
    <3>2. Cap(j - 1) <= Cap(i) - ((j - 1) - i) BY <3>1, ComposedFacts
    <3>3. \A x, y, k, l \in Nat : (l <= y /\ y <= x - (l - k)) => 2 * l - k <= x OBVIOUS
    <3>4. j - 1 \in Nat BY <2>2
    <3>5. 2 * (j - 1) - i <= Cap(i) BY <2>2, <2>3, <2>4, <3>2, <3>3, <3>4, Zenon
    <3> QED BY <3>5
  <2> QED BY <2>2, <2>5, <2>6
<1> QED BY <1>1, AgentInvariant, PTL

\* Whatever the model calls, no agent is entered from inside itself through
\* listed agents: each has a smaller cap than those above it.
THEOREM AgentRecursion == Safety => []LoopsDistinct
<1>1. AInv => LoopsDistinct
  <2> SUFFICES ASSUME AInv, NEW i \in DOMAIN stack, NEW j \in DOMAIN stack, Composed(i, j)
               PROVE  stack[i].agent # stack[j].agent
    BY DEF LoopsDistinct
  <2> DEFINE Cap(k) == agents[stack[k].agent].max_subagent_depth
  <2>1. i \in Nat /\ j \in Nat /\ i < j /\ Cap(i) \in Nat /\ Cap(j) \in Nat BY ComposedFacts
  <2>2. j \in i + 1 .. j BY <2>1
  <2>3. Cap(j) <= Cap(i) - (j - i) BY <2>2, ComposedFacts
  <2> HIDE DEF Cap
  <2>4. Cap(j) # Cap(i) BY <2>1, <2>3
  <2> QED BY <2>4 DEF Cap
<1> QED BY <1>1, AgentInvariant, PTL

-----------------------------------------------------------------------------
\* The stream and the budgets.  Seen from both, a step is one of a few: the
\* innermost loop goes on, asks, has its answer, enters a child or returns.
Subs(n) == [i \in 1 .. n |-> "subagent"]

LEMMA SubsGrow ==
  ASSUME NEW n \in Nat
  PROVE  /\ Subs(n) \in Seq({"llm", "subagent"}) /\ Len(Subs(n)) = n
         /\ Append(Subs(n), "subagent") = Subs(n + 1)
         /\ n > 0 => Popped(Subs(n)) = Subs(n - 1)
         /\ Popped(Append(Subs(n), "llm")) = Subs(n)
         /\ Subs(n) \o <<>> = Subs(n) /\ Subs(n) \o <<"llm">> = Append(Subs(n), "llm")
         /\ Subs(0) = <<>>
<1>1. Subs(n) \in Seq({"llm", "subagent"}) /\ Len(Subs(n)) = n BY DEF Subs
<1>2. Append(Subs(n), "subagent") = Subs(n + 1)
  <2> DEFINE a == Append(Subs(n), "subagent")
  <2>1. a \in Seq({"llm", "subagent"}) /\ Len(a) = n + 1 /\ \A i \in 1 .. n + 1 : a[i] = "subagent"
    BY <1>1 DEF Subs
  <2>2. Subs(n + 1) \in Seq({"llm", "subagent"}) /\ Len(Subs(n + 1)) = n + 1
        /\ \A i \in 1 .. n + 1 : Subs(n + 1)[i] = "subagent"
    BY DEF Subs
  <2> HIDE DEF a
  <2> QED BY <2>1, <2>2 DEF a
<1>3. n > 0 => Popped(Subs(n)) = Subs(n - 1)
  <2> SUFFICES ASSUME n > 0 PROVE Popped(Subs(n)) = Subs(n - 1) OBVIOUS
  <2>1. /\ Popped(Subs(n)) \in Seq({"llm", "subagent"}) /\ Len(Popped(Subs(n))) = n - 1
        /\ \A i \in 1 .. n - 1 : Popped(Subs(n))[i] = "subagent"
    BY <1>1 DEF Popped, Subs
  <2>2. Subs(n - 1) \in Seq({"llm", "subagent"}) /\ Len(Subs(n - 1)) = n - 1
        /\ \A i \in 1 .. n - 1 : Subs(n - 1)[i] = "subagent"
    BY DEF Subs
  <2> QED BY <2>1, <2>2
<1>4. Popped(Append(Subs(n), "llm")) = Subs(n) BY <1>1 DEF Popped
<1>5. Subs(n) \o <<>> = Subs(n) /\ Subs(n) \o <<"llm">> = Append(Subs(n), "llm") BY <1>1
<1>6. Subs(0) = <<>> BY DEF Subs
<1> QED BY <1>1, <1>2, <1>3, <1>4, <1>5, <1>6

\* A stack as deep as the one at hand, with the same counters; paid u more.
Like(s, u) ==
  /\ s \in Seq(Loop) /\ Len(s) = Len(stack)
  /\ \A i \in DOMAIN stack :
       /\ s[i].tokens = IF i >= Len(stack) - 1 THEN stack[i].tokens + u ELSE stack[i].tokens
       /\ s[i].spent = stack[i].spent + u

\* The innermost loop of s goes on or returns, and awaits no transport.
Moves(s, o) ==
  \/ GoOn(s, o) /\ Top(s).pc # "llm"
  \/ \E r \in {"ok"} \cup Errors : Return(s, o, r)

GoesOn == top.pc # "llm" /\ \E s : Like(s, 0) /\ Moves(s, open)

Asks == top.pc # "llm" /\ \E s : Like(s, 0) /\ GoOn(s, Append(open, "llm")) /\ Top(s).pc = "llm"

Hears == top.pc = "llm" /\ \E s : \E u \in Nat : Like(s, u) /\ Moves(s, Popped(open))

Nests ==
  /\ top.pc # "llm"
  /\ \E s : \E a \in Agents : Like(s, 0) /\ GoOn(Append(s, Entered(a)), Append(open, "subagent"))

Stays == UNCHANGED <<stack, open>> /\ (outcome' = outcome \/ (outcome = "running" /\ outcome' = "dropped"))

LEMMA LikeItself == ASSUME AInv PROVE Like(stack, 0)
<1>1. stack \in Seq(Loop) BY DEF AInv, StackOK
<1>a. \A i \in DOMAIN stack : stack[i] \in Loop BY <1>1
<1>2. \A i \in DOMAIN stack : stack[i].tokens \in Nat /\ stack[i].spent \in Nat BY <1>a DEF Loop
<1> QED BY <1>1, <1>2 DEF Like

LEMMA LikeWithTop ==
  ASSUME AInv, NEW f \in Loop, f.tokens = top.tokens, f.spent = top.spent
  PROVE  Like(WithTop(stack, f), 0) /\ Top(WithTop(stack, f)) = f
<1>1. stack \in Seq(Loop) /\ Len(stack) \in Nat \ {0} /\ DOMAIN stack = 1 .. Len(stack) /\ Len(stack) \in DOMAIN stack
  BY StackLen DEF AInv, StackOK
<1>a. \A i \in DOMAIN stack : stack[i] \in Loop BY <1>1
<1>2. \A i \in DOMAIN stack : stack[i].tokens \in Nat /\ stack[i].spent \in Nat BY <1>a DEF Loop
<1>3. WithTop(stack, f) \in Seq(Loop) /\ Len(WithTop(stack, f)) = Len(stack) BY <1>1 DEF WithTop
<1>4. WithTop(stack, f)[Len(stack)] = f
      /\ \A i \in DOMAIN stack : i # Len(stack) => WithTop(stack, f)[i] = stack[i]
  BY <1>1 DEF WithTop
<1>5. f.tokens = stack[Len(stack)].tokens /\ f.spent = stack[Len(stack)].spent BY DEF top, Top
<1> QED BY <1>1, <1>2, <1>3, <1>4, <1>5 DEF Like, Top

LEMMA LikeCharged ==
  ASSUME AInv, NEW u \in Nat
  PROVE  Like(Charged(stack, u), u)
<1>1. stack \in Seq(Loop) /\ DOMAIN stack = 1 .. Len(stack) /\ Len(stack) \in Nat BY StackLen DEF AInv, StackOK
<1> DEFINE t == Charged(stack, u)
<1>2. DOMAIN t = DOMAIN stack
      /\ \A i \in DOMAIN stack :
           t[i] = [stack[i] EXCEPT !.tokens = IF i >= Len(stack) - 1 THEN @ + u ELSE @, !.spent = @ + u]
  BY Zenon DEF Charged
<1>a. t = [i \in DOMAIN stack |-> t[i]] BY DEF Charged
<1> HIDE DEF t
<1>3. ASSUME NEW i \in DOMAIN stack
      PROVE  /\ t[i] \in Loop /\ t[i].spent = stack[i].spent + u
             /\ t[i].tokens = IF i >= Len(stack) - 1 THEN stack[i].tokens + u ELSE stack[i].tokens
  <2> DEFINE v == IF i >= Len(stack) - 1 THEN stack[i].tokens + u ELSE stack[i].tokens
             w == stack[i].spent + u
  <2>0. stack[i] \in Loop BY <1>1
  <2>1. stack[i].tokens \in Nat /\ stack[i].spent \in Nat BY <2>0 DEF Loop
  <2>2. v \in Nat /\ w \in Nat BY <2>1
  <2>3. t[i] = [stack[i] EXCEPT !.tokens = v, !.spent = w] BY <1>2, Zenon
  <2> HIDE DEF v, w
  <2>4. t[i] \in Loop /\ t[i].tokens = v /\ t[i].spent = w BY <2>0, <2>2, <2>3 DEF Loop
  <2> QED BY <2>4 DEF v, w
<1>4. t \in Seq(Loop) /\ Len(t) = Len(stack)
  <2>1. t \in [1 .. Len(stack) -> Loop] BY <1>1, <1>2, <1>3, <1>a
  <2> QED BY <1>1, <2>1
<1> QED BY <1>3, <1>4 DEF Like, t

\* What may become of the innermost loop, as f, at one call.
LEMMA CountedLike ==
  ASSUME AInv
  PROVE  Counted \in Loop /\ Counted.tokens = top.tokens /\ Counted.spent = top.spent /\ Counted.pc = top.pc
         /\ Counted.batch = top.batch
BY TopFacts, SMTT(60) DEF Counted, Loop

LEMMA RecordedLike ==
  ASSUME NEW f \in Loop, f.batch # <<>>
  PROVE  Recorded(f) \in Loop /\ Recorded(f).tokens = f.tokens /\ Recorded(f).spent = f.spent
         /\ Recorded(f).pc = "calls"
<1>1. f.batch \in Seq(Call) BY DEF Loop
<1>2. Tail(f.batch) \in Seq(Call) BY <1>1
<1> QED BY <1>2 DEF Recorded, Loop

LEMMA ParseLike ==
  ASSUME AInv, NEW f \in Loop, f.tokens = top.tokens, f.spent = top.spent, f.batch # <<>>, top.pc # "llm",
         ParseError(f)
  PROVE  GoesOn
<1> DEFINE g == [f EXCEPT !.retried = @ \cup {Head(f.batch).id}]
<1>1. \/ GoOn(WithTop(stack, Recorded(g)), open)
      \/ Return(WithTop(stack, f), open, "parse_failed")
  BY Zenon DEF ParseError
<1>2. f.batch \in Seq(Call) /\ f.retried \in SUBSET CallIds BY DEF Loop
<1>3. Head(f.batch).id \in CallIds
  <2>1. Head(f.batch) \in Call BY <1>2
  <2> QED BY <2>1 DEF Call
<1>4. g \in Loop /\ g.tokens = f.tokens /\ g.spent = f.spent /\ g.batch = f.batch BY <1>2, <1>3 DEF Loop
<1> HIDE DEF g
<1>5. /\ Recorded(g) \in Loop /\ Recorded(g).tokens = top.tokens /\ Recorded(g).spent = top.spent
      /\ Recorded(g).pc = "calls"
  BY <1>4, RecordedLike
<1>6. Like(WithTop(stack, Recorded(g)), 0) /\ Top(WithTop(stack, Recorded(g))).pc # "llm"
  BY <1>5, LikeWithTop
<1>7. Like(WithTop(stack, f), 0) BY LikeWithTop
<1>8. "parse_failed" \in Errors BY DEF Errors
<1> QED BY <1>1, <1>6, <1>7, <1>8 DEF GoesOn, Moves

LEMMA StepShapes ==
  ASSUME AInv, [Next]_vars
  PROVE  \/ outcome = "running" /\ (GoesOn \/ Asks \/ Hears \/ Nests)
         \/ Stays
<1> DEFINE G == outcome = "running" /\ (GoesOn \/ Asks \/ Hears \/ Nests)
<1>0. top \in Loop /\ Like(stack, 0) /\ stack \in Seq(Loop)
  BY TopFacts, LikeItself DEF AInv, StackOK
<1>1. CASE Enter
  <2> DEFINE f == [top EXCEPT !.pc = "iterate"]
  <2>1. \/ Return(stack, open, "invalid_policy")
        \/ Return(stack, open, "unknown_tool")
        \/ GoOn(WithTop(stack, f), open)
    BY <1>1, Zenon DEF Enter
  <2>2. f \in Loop /\ f.tokens = top.tokens /\ f.spent = top.spent /\ f.pc = "iterate" BY <1>0 DEF Loop
  <2>3. outcome = "running" /\ top.pc = "enter" BY <1>1 DEF Enter, At
  <2>4. "invalid_policy" \in Errors /\ "unknown_tool" \in Errors BY DEF Errors
  <2> HIDE DEF f
  <2>5. Like(WithTop(stack, f), 0) /\ Top(WithTop(stack, f)).pc # "llm" BY <2>2, LikeWithTop
  <2>6. GoesOn BY <1>0, <2>1, <2>3, <2>4, <2>5 DEF GoesOn, Moves
  <2> QED BY <2>3, <2>6
<1>2. CASE Exhausted \/ OutOfTokens
  <2>1. outcome = "running" /\ top.pc = "iterate" /\ \E r \in {"iteration_limit", "tokens"} : Return(stack, open, r)
    BY <1>2 DEF Exhausted, OutOfTokens, At
  <2>2. {"iteration_limit", "tokens"} \subseteq Errors BY DEF Errors
  <2>3. GoesOn BY <1>0, <2>1, <2>2 DEF GoesOn, Moves
  <2> QED BY <2>1, <2>3
<1>3. CASE Request
  <2> DEFINE f == [top EXCEPT !.pc = "llm", !.retried = {}]
  <2>1. outcome = "running" /\ top.pc = "iterate" BY <1>3 DEF Request, At
  <2>2. GoOn(WithTop(stack, f), Append(open, "llm")) BY <1>3, Zenon DEF Request
  <2>3. f \in Loop /\ f.tokens = top.tokens /\ f.spent = top.spent /\ f.pc = "llm" BY <1>0 DEF Loop
  <2> HIDE DEF f
  <2>4. Like(WithTop(stack, f), 0) /\ Top(WithTop(stack, f)).pc = "llm" BY <2>3, LikeWithTop
  <2>5. Asks BY <2>1, <2>2, <2>4 DEF Asks
  <2> QED BY <2>1, <2>5
<1>4. CASE NextIteration
  <2> DEFINE f == [top EXCEPT !.pc = "iterate", !.iteration = @ + 1]
  <2>1. outcome = "running" /\ top.pc = "calls" BY <1>4 DEF NextIteration, At
  <2>2. GoOn(WithTop(stack, f), open) BY <1>4, Zenon DEF NextIteration
  <2>a. top.iteration + 1 \in Nat BY <1>0 DEF Loop
  <2>3. f \in Loop /\ f.tokens = top.tokens /\ f.spent = top.spent /\ f.pc = "iterate" BY <1>0, <2>a DEF Loop
  <2> HIDE DEF f
  <2>4. Like(WithTop(stack, f), 0) /\ Top(WithTop(stack, f)).pc # "llm" BY <2>3, LikeWithTop
  <2>5. GoesOn BY <2>1, <2>2, <2>4 DEF GoesOn, Moves
  <2> QED BY <2>1, <2>5
<1>5. CASE OutOfCalls
  <2>1. outcome = "running" /\ top.pc = "calls" /\ Return(WithTop(stack, Counted), open, "tool_calls")
    BY <1>5 DEF OutOfCalls, At
  <2>2. "tool_calls" \in Errors BY DEF Errors
  <2>3. GoesOn BY <2>1, <2>2, CountedLike, LikeWithTop DEF GoesOn, Moves
  <2> QED BY <2>1, <2>3
<1>6. ASSUME NEW name \in Names, DepthDenied(name) \/ Denied(name) \/ UnknownTool(name) \/ NoPrompt(name)
      PROVE  G
  <2>1. Handling(name) BY <1>6 DEF DepthDenied, Denied, UnknownTool, NoPrompt
  <2>2. outcome = "running" /\ top.pc = "calls" /\ top.batch # <<>> BY <2>1 DEF Handling, At
  <2>3. CASE DepthDenied(name) \/ Denied(name)
    <3>1. GoOn(WithTop(stack, Recorded(Counted)), open) BY <2>3 DEF DepthDenied, Denied
    <3>2. /\ Recorded(Counted) \in Loop /\ Recorded(Counted).tokens = top.tokens
          /\ Recorded(Counted).spent = top.spent /\ Recorded(Counted).pc = "calls"
      BY <2>2, CountedLike, RecordedLike
    <3>3. Like(WithTop(stack, Recorded(Counted)), 0) /\ Top(WithTop(stack, Recorded(Counted))).pc # "llm"
      BY <3>2, LikeWithTop
    <3>4. GoesOn BY <2>2, <3>1, <3>3 DEF GoesOn, Moves
    <3> QED BY <2>2, <3>4
  <2>4. CASE UnknownTool(name)
    <3>1. Return(WithTop(stack, Counted), open, "unknown_tool") BY <2>4 DEF UnknownTool
    <3>2. "unknown_tool" \in Errors BY DEF Errors
    <3>3. GoesOn BY <2>2, <3>1, <3>2, CountedLike, LikeWithTop DEF GoesOn, Moves
    <3> QED BY <2>2, <3>3
  <2>5. CASE NoPrompt(name)
    <3>1. ParseError(Counted) BY <2>5 DEF NoPrompt
    <3>2. GoesOn BY <2>2, <3>1, CountedLike, ParseLike
    <3> QED BY <2>2, <3>2
  <2> QED BY <1>6, <2>3, <2>4, <2>5
<1>7. ASSUME NEW name \in Names, EnterChild(name) PROVE G
  <2> DEFINE f == [Counted EXCEPT !.pc = "child"]
  <2>1. /\ Handling(name) /\ name \in Agents
        /\ GoOn(Append(WithTop(stack, f), Entered(name)), Append(open, "subagent"))
    BY <1>7, Zenon DEF EnterChild
  <2>2. outcome = "running" /\ top.pc = "calls" BY <2>1 DEF Handling, At
  <2>3. f \in Loop /\ f.tokens = top.tokens /\ f.spent = top.spent BY CountedLike DEF Loop
  <2> HIDE DEF f
  <2>4. Like(WithTop(stack, f), 0) BY <2>3, LikeWithTop
  <2>5. Nests BY <2>1, <2>2, <2>4 DEF Nests
  <2> QED BY <2>2, <2>5
<1>8. ASSUME NEW name \in Names, Invoke(name) PROVE G
  <2> DEFINE f == [Counted EXCEPT !.pc = "tool"]
  <2>1. Handling(name) /\ GoOn(WithTop(stack, f), open) BY <1>8, Zenon DEF Invoke
  <2>2. outcome = "running" /\ top.pc = "calls" BY <2>1 DEF Handling, At
  <2>3. f \in Loop /\ f.tokens = top.tokens /\ f.spent = top.spent /\ f.pc = "tool" BY CountedLike DEF Loop
  <2> HIDE DEF f
  <2>4. Like(WithTop(stack, f), 0) /\ Top(WithTop(stack, f)).pc # "llm" BY <2>3, LikeWithTop
  <2>5. GoesOn BY <2>1, <2>2, <2>4 DEF GoesOn, Moves
  <2> QED BY <2>2, <2>5
<1>9. CASE LlmFails
  <2>1. outcome = "running" /\ top.pc = "llm" /\ Return(stack, Popped(open), "llm_error")
    BY <1>9 DEF LlmFails, At
  <2>2. "llm_error" \in Errors BY DEF Errors
  <2>3. Hears BY <1>0, <2>1, <2>2 DEF Hears, Moves
  <2> QED BY <2>1, <2>3
<1>10. CASE ToolOk \/ ToolFails
  <2>1. outcome = "running" /\ top.pc = "tool" /\ top.batch # <<>>
    BY <1>10, TopFacts DEF ToolOk, ToolFails, At, LoopOK
  <2>2. \/ GoOn(WithTop(stack, Recorded(top)), open) \/ Return(stack, open, "tool_error") \/ ParseError(top)
    BY <1>10 DEF ToolOk, ToolFails
  <2>3. Like(WithTop(stack, Recorded(top)), 0) /\ Top(WithTop(stack, Recorded(top))).pc # "llm"
    BY <1>0, <2>1, RecordedLike, LikeWithTop
  <2>4. "tool_error" \in Errors BY DEF Errors
  <2>5. ParseError(top) => GoesOn BY <1>0, <2>1, ParseLike
  <2>6. GoesOn BY <1>0, <2>1, <2>2, <2>3, <2>4, <2>5 DEF GoesOn, Moves
  <2> QED BY <2>1, <2>6
<1>11. ASSUME NEW u \in Usages, NEW batch \in Batches, LlmAnswers(u, batch) PROVE G
  <2> DEFINE s == Charged(stack, u)
             f == [Top(s) EXCEPT !.pc = "calls", !.batch = batch]
  <2>1. outcome = "running" /\ top.pc = "llm" BY <1>11 DEF LlmAnswers, At
  <2>2. \/ Return(s, Popped(open), "tokens") \/ Return(s, Popped(open), "ok")
        \/ GoOn(WithTop(s, f), Popped(open))
    BY <1>11, Zenon DEF LlmAnswers
  <2>3. u \in Nat /\ batch \in Seq(Call) BY BatchesOK, LoopAssumption
  <2>4. Like(s, u) BY <2>3, LikeCharged
  <2>5. Len(stack) \in Nat \ {0} /\ DOMAIN stack = 1 .. Len(stack) BY TopFacts, StackLen
  <2> HIDE DEF s
  <2>6. s \in Seq(Loop) /\ Len(s) = Len(stack) BY <2>4 DEF Like
  <2>7. Top(s) \in Loop /\ Top(s) = s[Len(s)] BY <2>5, <2>6 DEF Top
  <2>8. f \in Loop /\ f.tokens = Top(s).tokens /\ f.spent = Top(s).spent /\ f.pc = "calls" BY <2>3, <2>7 DEF Loop
  <2> HIDE DEF f
  <2>9. /\ WithTop(s, f) \in Seq(Loop) /\ Len(WithTop(s, f)) = Len(s) /\ WithTop(s, f)[Len(s)] = f
        /\ \A i \in 1 .. Len(s) : i # Len(s) => WithTop(s, f)[i] = s[i]
    BY <2>5, <2>6, <2>8 DEF WithTop
  <2>10. \A i \in 1 .. Len(s) : WithTop(s, f)[i].tokens = s[i].tokens /\ WithTop(s, f)[i].spent = s[i].spent
    BY <2>7, <2>8, <2>9
  <2>11. Like(WithTop(s, f), u) /\ Top(WithTop(s, f)).pc # "llm"
    BY <2>4, <2>5, <2>6, <2>8, <2>9, <2>10 DEF Like, Top
  <2>12. "tokens" \in Errors BY DEF Errors
  <2>13. Hears BY <2>1, <2>2, <2>3, <2>4, <2>11, <2>12 DEF Hears, Moves
  <2> QED BY <2>1, <2>13
<1>12. CASE Drop \/ UNCHANGED vars
  BY <1>12 DEF Drop, At, Resolving, Handling, Stays, vars
<1>13. CASE LoopStep BY <1>1, <1>2, <1>3, <1>4, <1>5, <1>6, <1>7, <1>8, <1>13, Zenon DEF LoopStep
<1>14. CASE External BY <1>9, <1>10, <1>11, <1>14, Zenon DEF External
<1> QED BY <1>12, <1>13, <1>14, Zenon DEF Next, Ended

\* The stack once the innermost loop of s has moved.
LEMMA Moved ==
  ASSUME NEW s \in Seq(Loop), s # <<>>, NEW o, outcome = "running", Moves(s, o)
  PROVE  \/ stack' = s /\ open' = o /\ Top(s).pc # "llm" /\ outcome' = "running"
         \/ stack' = s /\ open' = o /\ Len(s) = 1 /\ outcome' \in {"ok"} \cup Errors
         \/ /\ Len(s) > 1 /\ open' = Popped(o) /\ outcome' = "running"
            /\ DOMAIN stack' = 1 .. Len(s) - 1 /\ stack'[Len(s) - 1].pc = "calls"
            /\ \A i \in 1 .. Len(s) - 1 : stack'[i].tokens = s[i].tokens /\ stack'[i].spent = s[i].spent
<1>1. CASE GoOn(s, o) /\ Top(s).pc # "llm"
  BY <1>1 DEF GoOn
<1>2. ASSUME NEW r \in {"ok"} \cup Errors, Return(s, o, r)
      PROVE  \/ stack' = s /\ open' = o /\ Len(s) = 1 /\ outcome' \in {"ok"} \cup Errors
             \/ /\ Len(s) > 1 /\ open' = Popped(o) /\ outcome' = "running"
                /\ DOMAIN stack' = 1 .. Len(s) - 1 /\ stack'[Len(s) - 1].pc = "calls"
                /\ \A i \in 1 .. Len(s) - 1 : stack'[i].tokens = s[i].tokens /\ stack'[i].spent = s[i].spent
  <2> DEFINE t == Popped(s)
             g == Recorded(Top(t))
  <2>1. \/ Len(s) = 1 /\ outcome' = r /\ stack' = s /\ open' = o
        \/ Len(s) > 1 /\ stack' = WithTop(t, g) /\ open' = Popped(o) /\ outcome' = outcome
    BY <1>2, Zenon DEF Return
  <2>2. CASE Len(s) > 1
    <3>1. /\ Len(s) \in Nat /\ t \in Seq(Loop) /\ Len(t) = Len(s) - 1 /\ Len(t) \in 1 .. Len(t)
          /\ \A i \in 1 .. Len(t) : t[i] = s[i]
      BY <2>2 DEF Popped
    <3> HIDE DEF t
    <3>2. Top(t) \in Loop /\ Top(t) = s[Len(s) - 1] BY <3>1 DEF Top
    <3>3. g.tokens = Top(t).tokens /\ g.spent = Top(t).spent /\ g.pc = "calls" BY <3>2 DEF Recorded, Loop
    <3> HIDE DEF g
    <3> DEFINE w == WithTop(t, g)
    <3>4. DOMAIN w = 1 .. Len(t) /\ w[Len(t)] = g /\ \A i \in 1 .. Len(t) : i # Len(t) => w[i] = t[i]
      BY <3>1 DEF WithTop
    <3>5. \A i \in 1 .. Len(t) : w[i].tokens = s[i].tokens /\ w[i].spent = s[i].spent
      BY <3>1, <3>2, <3>3, <3>4
    <3> HIDE DEF w
    <3>6. stack' = w /\ open' = Popped(o) /\ outcome' = "running" BY <2>1, <2>2, <3>1 DEF w
    <3> QED BY <2>2, <3>1, <3>3, <3>4, <3>5, <3>6
  <2> QED
    BY <2>1, <2>2
<1> QED
  BY <1>1, <1>2 DEF Moves

\* The events open when a loop awaits the transport, and when none does.
Tells(o, r, pc, d) ==
  o = IF r \in {"running", "dropped"}
      THEN [i \in 1 .. d |-> "subagent"] \o (IF pc = "llm" THEN <<"llm">> ELSE <<>>)
      ELSE <<>>

LEMMA OpenEvents ==
  ASSUME NEW o, NEW r, NEW pc, NEW d \in Nat
  PROVE  Tells(o, r, pc, d) <=>
           /\ r \in {"running", "dropped"} /\ pc = "llm" => o = Append(Subs(d), "llm")
           /\ r \in {"running", "dropped"} /\ pc # "llm" => o = Subs(d)
           /\ r \notin {"running", "dropped"} => o = <<>>
<1>1. Subs(d) \o <<>> = Subs(d) /\ Subs(d) \o <<"llm">> = Append(Subs(d), "llm") BY SubsGrow
<1>2. [i \in 1 .. d |-> "subagent"] = Subs(d) BY DEF Subs
<1> QED BY <1>1, <1>2, Zenon DEF Tells

\* The innermost loop of the stack, before and after a step.
LEMMA Depths ==
  /\ AInv => Depth = Len(stack) - 1 /\ Len(stack) \in Nat \ {0} /\ Depth \in Nat /\ top = stack[Len(stack)]
             /\ DOMAIN stack = 1 .. Len(stack)
  /\ AInv' => Depth' = Len(stack') - 1 /\ Len(stack') \in Nat \ {0} /\ Depth' \in Nat
              /\ top' = stack'[Len(stack')]
<1>1. ASSUME AInv
      PROVE  Depth = Len(stack) - 1 /\ Len(stack) \in Nat \ {0} /\ top = stack[Len(stack)]
             /\ DOMAIN stack = 1 .. Len(stack)
  BY <1>1 DEF AInv, StackOK, Depth, top, Top
<1>2. ASSUME AInv'
      PROVE  Depth' = Len(stack') - 1 /\ Len(stack') \in Nat \ {0} /\ top' = stack'[Len(stack')]
  BY <1>2 DEF AInv, StackOK, Depth, top, Top
<1> QED BY <1>1, <1>2

LEMMA StreamIs ==
  /\ AInv /\ StreamTellsLoops /\ outcome \in {"running", "dropped"} =>
       /\ top.pc = "llm" => open = Append(Subs(Depth), "llm")
       /\ top.pc # "llm" => open = Subs(Depth)
  /\ AInv' /\ outcome' = "running" /\ top'.pc = "llm" /\ open' = Append(Subs(Depth'), "llm")
       => StreamTellsLoops'
  /\ AInv' /\ outcome' = "running" /\ top'.pc # "llm" /\ open' = Subs(Depth') => StreamTellsLoops'
  /\ AInv' /\ outcome' \notin {"running", "dropped"} /\ open' = <<>> => StreamTellsLoops'
<1>1. AInv => (StreamTellsLoops <=>
           /\ outcome \in {"running", "dropped"} /\ top.pc = "llm" => open = Append(Subs(Depth), "llm")
           /\ outcome \in {"running", "dropped"} /\ top.pc # "llm" => open = Subs(Depth)
           /\ outcome \notin {"running", "dropped"} => open = <<>>)
  <2> SUFFICES ASSUME Depth \in Nat
               PROVE  StreamTellsLoops <=>
           /\ outcome \in {"running", "dropped"} /\ top.pc = "llm" => open = Append(Subs(Depth), "llm")
           /\ outcome \in {"running", "dropped"} /\ top.pc # "llm" => open = Subs(Depth)
           /\ outcome \notin {"running", "dropped"} => open = <<>>
    BY Depths
  <2>1. StreamTellsLoops <=> Tells(open, outcome, top.pc, Depth) BY DEF StreamTellsLoops, Tells
  <2> QED BY <2>1, OpenEvents, Zenon
<1>2. AInv' => (StreamTellsLoops' <=>
           /\ outcome' \in {"running", "dropped"} /\ top'.pc = "llm" => open' = Append(Subs(Depth'), "llm")
           /\ outcome' \in {"running", "dropped"} /\ top'.pc # "llm" => open' = Subs(Depth')
           /\ outcome' \notin {"running", "dropped"} => open' = <<>>)
  <2> SUFFICES ASSUME Depth' \in Nat
               PROVE  StreamTellsLoops' <=>
           /\ outcome' \in {"running", "dropped"} /\ top'.pc = "llm" => open' = Append(Subs(Depth'), "llm")
           /\ outcome' \in {"running", "dropped"} /\ top'.pc # "llm" => open' = Subs(Depth')
           /\ outcome' \notin {"running", "dropped"} => open' = <<>>
    BY Depths
  <2>1. StreamTellsLoops' <=> Tells(open', outcome', top'.pc, Depth') BY DEF StreamTellsLoops, Tells
  <2> QED BY <2>1, OpenEvents, Zenon
<1> QED BY <1>1, <1>2

LEMMA MovedStream ==
  ASSUME AInv, AInv', outcome = "running", NEW s, NEW u, Like(s, u), Moves(s, Subs(Depth))
  PROVE  StreamTellsLoops'
<1> DEFINE n == Len(stack)
<1>1. n \in Nat \ {0} BY Depths
<1>2. s \in Seq(Loop) /\ Len(s) = n /\ s # <<>> BY <1>1 DEF Like
<1>3. stack' \in Seq(Loop) /\ stack' # <<>> BY DEF AInv, StackOK
<1>4. Depth = n - 1 /\ Depth' = Len(stack') - 1 /\ Depth' \in Nat BY Depths
<1>5. "running" \notin {"ok"} \cup Errors /\ "dropped" \notin {"ok"} \cup Errors BY DEF Errors
<1>6. top' = Top(stack') BY Depths DEF Top
<1> HIDE DEF n
<1>7. CASE stack' = s /\ open' = Subs(Depth) /\ Top(s).pc # "llm" /\ outcome' = "running"
  <2>1. Depth' = Depth BY <1>2, <1>4, <1>7
  <2>2. open' = Subs(Depth') /\ top'.pc # "llm" BY <1>6, <1>7, <2>1
  <2> QED BY <1>7, <2>2, StreamIs
<1>8. CASE stack' = s /\ open' = Subs(Depth) /\ Len(s) = 1 /\ outcome' \in {"ok"} \cup Errors
  <2>1. open' = <<>> BY <1>2, <1>4, <1>8, SubsGrow
  <2> QED BY <1>5, <1>8, <2>1, StreamIs
<1>9. CASE /\ Len(s) > 1 /\ open' = Popped(Subs(Depth)) /\ outcome' = "running"
           /\ DOMAIN stack' = 1 .. Len(s) - 1 /\ stack'[Len(s) - 1].pc = "calls"
  <2>1. Len(stack') = n - 1 /\ n - 1 > 0 BY <1>1, <1>2, <1>3, <1>9
  <2>2. Depth' = Depth - 1 /\ Depth > 0 /\ Depth \in Nat BY <1>1, <1>4, <2>1
  <2>3. open' = Subs(Depth') BY <1>9, <2>2, SubsGrow
  <2>4. top'.pc = "calls" BY <1>2, <1>6, <1>9, <2>1 DEF Top
  <2> QED BY <1>9, <2>3, <2>4, StreamIs
<1> QED BY <1>2, <1>7, <1>8, <1>9, Moved

\* The events open are those of the loops in progress, whatever ends a loop:
\* every return path of run.rs closes what it opened, in order.
THEOREM AgentStream == Safety => []StreamTellsLoops
<1>1. Init => StreamTellsLoops
  <2> SUFFICES ASSUME Init PROVE StreamTellsLoops OBVIOUS
  <2>1. AInv BY InitAInv
  <2>2. PICK root \in Agents : stack = <<Entered(root)>> BY DEF Init
  <2>3. Depth = 0 /\ top.pc = "enter" BY <2>2 DEF Depth, top, Top, Entered
  <2>4. open = <<>> /\ outcome = "running" BY DEF Init
  <2>5. StreamTellsLoops <=> Tells(open, outcome, top.pc, Depth) BY DEF StreamTellsLoops, Tells
  <2>6. open = Subs(0) BY <2>4, SubsGrow
  <2> QED BY <2>3, <2>4, <2>5, <2>6, OpenEvents
<1>2. AInv /\ StreamTellsLoops /\ [Next]_vars => StreamTellsLoops'
  <2> SUFFICES ASSUME AInv, StreamTellsLoops, [Next]_vars PROVE StreamTellsLoops' OBVIOUS
  <2>1. AInv' BY StepAInv
  <2>2. Len(stack) \in Nat \ {0} /\ Depth = Len(stack) - 1 /\ Depth \in Nat /\ Depth' \in Nat
    BY <2>1, Depths
  <2>3. CASE Stays
    <3>1. top' = top /\ Depth' = Depth /\ open' = open BY <2>3 DEF Stays, top, Top, Depth
    <3>2. (outcome' \in {"running", "dropped"}) <=> (outcome \in {"running", "dropped"}) BY <2>3 DEF Stays
    <3> QED BY <3>1, <3>2 DEF StreamTellsLoops
  <2>4. CASE outcome = "running" /\ GoesOn
    <3>1. PICK s : Like(s, 0) /\ Moves(s, open) BY <2>4 DEF GoesOn
    <3>2. open = Subs(Depth) BY <2>4, StreamIs DEF GoesOn
    <3> QED BY <2>1, <2>4, <3>1, <3>2, MovedStream
  <2>5. CASE outcome = "running" /\ Hears
    <3>1. PICK s : \E u \in Nat : Like(s, u) /\ Moves(s, Popped(open)) BY <2>5 DEF Hears
    <3>2. open = Append(Subs(Depth), "llm") BY <2>5, StreamIs DEF Hears
    <3>3. Popped(open) = Subs(Depth) BY <2>2, <3>2, SubsGrow
    <3>4. PICK u \in Nat : Like(s, u) /\ Moves(s, Popped(open)) BY <3>1
    <3> QED BY <2>1, <2>5, <3>3, <3>4, MovedStream
  <2>6. CASE outcome = "running" /\ Asks
    <3>1. PICK s : Like(s, 0) /\ GoOn(s, Append(open, "llm")) /\ Top(s).pc = "llm" BY <2>6 DEF Asks
    <3>2. open = Subs(Depth) BY <2>6, StreamIs DEF Asks
    <3>3. Depth' = Depth /\ top'.pc = "llm" /\ outcome' = "running" /\ open' = Append(Subs(Depth), "llm")
      BY <2>2, <2>6, <3>1, <3>2 DEF Like, GoOn, Depth, top
    <3> QED BY <2>1, <2>2, <3>3, StreamIs
  <2>7. CASE outcome = "running" /\ Nests
    <3>1. PICK s : \E a \in Agents : Like(s, 0) /\ GoOn(Append(s, Entered(a)), Append(open, "subagent"))
      BY <2>7 DEF Nests
    <3>2. open = Subs(Depth) BY <2>7, StreamIs DEF Nests
    <3>a. PICK a \in Agents : Like(s, 0) /\ GoOn(Append(s, Entered(a)), Append(open, "subagent")) BY <3>1
    <3>3. s \in Seq(Loop) /\ Len(s) = Len(stack) /\ outcome' = "running"
          /\ stack' = Append(s, Entered(a)) /\ open' = Append(open, "subagent")
      BY <2>7, <3>a DEF Like, GoOn
    <3>4. Len(stack') = Len(stack) + 1 /\ stack'[Len(stack) + 1] = Entered(a) BY <2>2, <3>3
    <3>5. Depth' = Depth + 1 /\ top'.pc = "enter" BY <2>2, <3>4 DEF Depth, top, Top, Entered
    <3>6. open' = Subs(Depth') BY <2>2, <3>2, <3>3, <3>5, SubsGrow
    <3> QED BY <2>1, <2>2, <3>3, <3>5, <3>6, StreamIs
  <2> QED BY <2>3, <2>4, <2>5, <2>6, <2>7, StepShapes
<1> QED BY <1>1, <1>2, AgentInvariant, PTL DEF Safety

\* As long as no subagent delegates, the counter of each loop is all that it
\* and the loop it waits for have spent: the tokens of a response are added to
\* the loop's own counter and to its parent's, no further.
THEOREM AgentBudget == Safety /\ [](Depth <= 1) => []BudgetCoversSubtree
<1>1. Init => BudgetCoversSubtree
  <2> SUFFICES ASSUME Init PROVE BudgetCoversSubtree OBVIOUS
  <2>1. PICK root \in Agents : stack = <<Entered(root)>> BY DEF Init
  <2> QED BY <2>1 DEF BudgetCoversSubtree, Entered
<1>2. AInv /\ Depth <= 1 /\ BudgetCoversSubtree /\ [Next]_vars => BudgetCoversSubtree'
  <2> SUFFICES ASSUME AInv, Depth <= 1, BudgetCoversSubtree, [Next]_vars PROVE BudgetCoversSubtree' OBVIOUS
  <2>1. Len(stack) \in {1, 2} /\ DOMAIN stack = 1 .. Len(stack)
    <3>1. Depth = Len(stack) - 1 /\ Len(stack) \in Nat \ {0} /\ DOMAIN stack = 1 .. Len(stack) BY Depths
    <3> QED BY <3>1
  <2>2. ASSUME NEW s, NEW u \in Nat, Like(s, u)
        PROVE  \A i \in DOMAIN s : s[i].tokens = s[i].spent
    <3>1. DOMAIN s = DOMAIN stack BY <2>1, <2>2 DEF Like
    <3>2. \A i \in DOMAIN stack : i >= Len(stack) - 1 BY <2>1
    <3> QED BY <2>2, <3>1, <3>2 DEF Like, BudgetCoversSubtree
  <2>3. ASSUME NEW s, NEW u \in Nat, Like(s, u), NEW o, Moves(s, o), outcome = "running"
        PROVE  BudgetCoversSubtree'
    <3>1. \A i \in DOMAIN s : s[i].tokens = s[i].spent BY <2>2, <2>3
    <3>2. s \in Seq(Loop) /\ s # <<>> /\ DOMAIN s = 1 .. Len(s) /\ Len(s) \in Nat BY <2>1, <2>3 DEF Like
    <3>3. CASE stack' = s BY <3>1, <3>3 DEF BudgetCoversSubtree
    <3>4. CASE /\ DOMAIN stack' = 1 .. Len(s) - 1
               /\ \A i \in 1 .. Len(s) - 1 : stack'[i].tokens = s[i].tokens /\ stack'[i].spent = s[i].spent
      <4>1. \A i \in 1 .. Len(s) - 1 : i \in DOMAIN s BY <3>2
      <4> QED BY <3>1, <3>4, <4>1 DEF BudgetCoversSubtree
    <3> QED BY <2>3, <3>2, <3>3, <3>4, Moved
  <2>4. CASE Stays BY <2>4 DEF Stays, BudgetCoversSubtree
  <2>5. CASE outcome = "running" /\ GoesOn BY <2>3, <2>5 DEF GoesOn
  <2>6. CASE outcome = "running" /\ Hears BY <2>3, <2>6 DEF Hears
  <2>7. CASE outcome = "running" /\ Asks
    <3>1. PICK s : Like(s, 0) /\ stack' = s BY <2>7 DEF Asks, GoOn
    <3> QED BY <2>2, <3>1 DEF BudgetCoversSubtree
  <2>8. CASE outcome = "running" /\ Nests
    <3>1. PICK s : \E a \in Agents : Like(s, 0) /\ stack' = Append(s, Entered(a)) BY <2>8 DEF Nests, GoOn
    <3>a. PICK a \in Agents : Like(s, 0) /\ stack' = Append(s, Entered(a)) BY <3>1
    <3>2. s \in Seq(Loop) /\ \A i \in DOMAIN s : s[i].tokens = s[i].spent BY <2>2, <3>1 DEF Like
    <3>3. \A i \in DOMAIN stack' : stack'[i] = IF i \in DOMAIN s THEN s[i] ELSE Entered(a)
      BY <3>a, <3>2
    <3>4. Entered(a).tokens = 0 /\ Entered(a).spent = 0 BY DEF Entered
    <3> QED BY <3>2, <3>3, <3>4 DEF BudgetCoversSubtree
  <2> QED BY <2>4, <2>5, <2>6, <2>7, <2>8, StepShapes
<1> QED BY <1>1, <1>2, AgentInvariant, PTL DEF Safety

\* A depth cap of one on every agent is enough for that, whatever the model
\* calls: the gate lets no subagent call another.
THEOREM AgentBudgetCapped ==
  ASSUME \A a \in Pipelines : \A x \in Agents : a[x].max_subagent_depth <= 1
  PROVE  Safety => []BudgetCoversSubtree
<1>1. AInv => Depth <= 1
  <2> SUFFICES ASSUME AInv, Len(stack) > 2 PROVE FALSE
    <3>1. AInv => Len(stack) \in Nat BY StackLen DEF AInv
    <3> QED BY <3>1 DEF Depth
  <2>1. StackOK(agents, stack) /\ agents \in Pipelines BY DEF AInv
  <2>2. Len(stack) \in Nat /\ 2 \in DOMAIN stack BY <2>1, StackLen
  <2>3. stack[2] \in Loop BY <2>1, <2>2 DEF StackOK
  <2>4. stack[2].agent \in Agents BY <2>3 DEF Loop
  <2>5. 2 <= agents[stack[2].agent].max_subagent_depth BY <2>1, <2>2 DEF StackOK
  <2>6. agents[stack[2].agent].max_subagent_depth <= 1 BY <2>1, <2>4
  <2>7. agents[stack[2].agent].max_subagent_depth \in Nat BY <2>1, <2>4, CapsOK
  <2> QED BY <2>5, <2>6, <2>7
<1> QED BY <1>1, AgentInvariant, AgentBudget, PTL

-----------------------------------------------------------------------------
\* Where a loop is in its iteration, and when it is further than it was: a
\* later iteration, a later stage of the same one, fewer calls left to handle,
\* or the call at hand begun.
Stage == [enter |-> 0, iterate |-> 1, llm |-> 2, calls |-> 3, tool |-> 3, child |-> 3]

Alike(g, f) == g.agent = f.agent /\ g.pc = f.pc /\ g.iteration = f.iteration /\ g.batch = f.batch

Further(g, f) ==
  /\ g.agent = f.agent
  /\ \/ g.iteration > f.iteration
     \/ /\ g.iteration = f.iteration
        /\ \/ Stage[g.pc] > Stage[f.pc]
           \/ Stage[g.pc] = Stage[f.pc] /\ Len(g.batch) < Len(f.batch)
           \/ f.pc = "calls" /\ g.pc \in {"tool", "child"} /\ g.batch = f.batch

\* A loop gets further and those it works for stay where they are, whatever
\* becomes of those it entered; one it enters is within its own depth cap.
LoopAdvances ==
  \/ outcome = "running" /\ outcome' # "running"
  \/ /\ \E i \in DOMAIN stack \cap DOMAIN stack' :
          /\ Further(stack'[i], stack[i])
          /\ \A j \in 1 .. i - 1 : Alike(stack'[j], stack[j])
     /\ Len(stack') > Len(stack) => Depth' <= mine.max_subagent_depth

\* A stack like the present one below its innermost loop.
Below(s) == /\ s \in Seq(Loop) /\ Len(s) = Len(stack)
            /\ \A j \in 1 .. Len(stack) - 1 : Alike(s[j], stack[j])

LEMMA BelowItself == ASSUME AInv PROVE Below(stack)
<1>1. stack \in Seq(Loop) BY DEF AInv, StackOK
<1> QED BY <1>1 DEF Below, Alike

LEMMA BelowWithTop ==
  ASSUME AInv, NEW s, Below(s), NEW f \in Loop
  PROVE  Below(WithTop(s, f)) /\ Top(WithTop(s, f)) = f
<1>1. Len(stack) \in Nat \ {0} BY TopFacts, StackLen
<1>2. s \in Seq(Loop) /\ Len(s) = Len(stack) /\ DOMAIN s = 1 .. Len(stack) BY DEF Below
<1>3. WithTop(s, f) \in Seq(Loop) /\ Len(WithTop(s, f)) = Len(s) BY <1>1, <1>2 DEF WithTop
<1>4. WithTop(s, f)[Len(s)] = f /\ \A j \in 1 .. Len(stack) - 1 : WithTop(s, f)[j] = s[j]
  BY <1>1, <1>2 DEF WithTop
<1>5. \A j \in 1 .. Len(stack) - 1 : Alike(WithTop(s, f)[j], stack[j]) BY <1>4 DEF Below
<1> QED BY <1>2, <1>3, <1>4, <1>5 DEF Below, Top

LEMMA BelowCharged ==
  ASSUME AInv, NEW u \in Nat
  PROVE  Below(Charged(stack, u)) /\ Alike(Top(Charged(stack, u)), top)
<1> DEFINE t == Charged(stack, u)
<1>1. Len(stack) \in Nat \ {0} /\ DOMAIN stack = 1 .. Len(stack) /\ Len(stack) \in DOMAIN stack BY TopFacts, StackLen
<1>2. t \in Seq(Loop) /\ Len(t) = Len(stack) BY LikeCharged DEF Like
<1>3. ASSUME NEW i \in DOMAIN stack PROVE Alike(t[i], stack[i])
  <2> DEFINE v == IF i >= Len(stack) - 1 THEN stack[i].tokens + u ELSE stack[i].tokens
             w == stack[i].spent + u
  <2>0. stack[i] \in Loop BY TopFacts DEF StackOK
  <2>1. t[i] = [stack[i] EXCEPT !.tokens = v, !.spent = w] BY Zenon DEF Charged
  <2> HIDE DEF v, w, t
  <2> QED BY <2>0, <2>1 DEF Alike, Loop
<1> HIDE DEF t
<1>4. \A j \in 1 .. Len(stack) - 1 : j \in DOMAIN stack BY <1>1
<1>5. Below(t) BY <1>2, <1>3, <1>4 DEF Below
<1>6. Alike(Top(t), top) BY <1>1, <1>2, <1>3 DEF Top, top
<1> QED BY <1>5, <1>6 DEF t

\* The three ways on: the innermost loop itself gets further, it enters
\* another, or it returns and the one that waits for it has a call less.
LEMMA GoesFurther ==
  ASSUME AInv, NEW s, NEW o, Below(s), Further(Top(s), top), GoOn(s, o)
  PROVE  LoopAdvances
<1>1. Len(stack) \in Nat \ {0} BY TopFacts, StackLen
<1>2. stack' = s /\ Len(s) = Len(stack) /\ s \in Seq(Loop) BY DEF GoOn, Below
<1> DEFINE i == Len(stack)
<1>3. i \in DOMAIN stack /\ i \in DOMAIN stack' BY <1>1, <1>2, TopFacts, StackLen
<1>4. Further(stack'[i], stack[i]) BY <1>2 DEF Top, top
<1>5. \A j \in 1 .. i - 1 : Alike(stack'[j], stack[j]) BY <1>2 DEF Below
<1>6. ~ (Len(stack') > Len(stack)) BY <1>1, <1>2
<1> HIDE DEF i
<1> QED BY <1>3, <1>4, <1>5, <1>6 DEF LoopAdvances

LEMMA EntersWithin ==
  ASSUME AInv, NEW s, NEW o, NEW e \in Loop, Below(s), Further(Top(s), top),
         GoOn(Append(s, e), o), Len(stack) <= mine.max_subagent_depth
  PROVE  LoopAdvances
<1>1. Len(stack) \in Nat \ {0} BY TopFacts, StackLen
<1>2. stack' = Append(s, e) /\ Len(s) = Len(stack) /\ s \in Seq(Loop) BY DEF GoOn, Below
<1>3. Len(stack') = Len(stack) + 1 /\ DOMAIN stack' = 1 .. Len(stack) + 1
      /\ \A j \in 1 .. Len(stack) : stack'[j] = s[j]
  BY <1>1, <1>2
<1> DEFINE i == Len(stack)
<1>4. i \in DOMAIN stack /\ i \in DOMAIN stack' BY <1>1, <1>3, TopFacts, StackLen
<1>5. Further(stack'[i], stack[i]) BY <1>1, <1>2, <1>3 DEF Top, top
<1>6. \A j \in 1 .. i - 1 : Alike(stack'[j], stack[j]) BY <1>1, <1>3 DEF Below
<1>7. Depth' <= mine.max_subagent_depth BY <1>1, <1>3 DEF Depth
<1> HIDE DEF i
<1> QED BY <1>4, <1>5, <1>6, <1>7 DEF LoopAdvances

LEMMA RecordedFurther ==
  ASSUME NEW f \in Loop, NEW g \in Loop, Alike(g, f), f.batch # <<>>, f.pc \in {"calls", "tool", "child"}
  PROVE  Recorded(g) \in Loop /\ Further(Recorded(g), f)
<1>1. f.batch \in Seq(Call) /\ g.batch = f.batch BY DEF Loop, Alike
<1>2. Tail(f.batch) \in Seq(Call) /\ Len(Tail(f.batch)) < Len(f.batch) BY <1>1
<1> DEFINE r == Recorded(g)
<1>3. r \in Loop BY <1>1, <1>2 DEF Loop, Recorded
<1>4. r.agent = g.agent /\ r.pc = "calls" /\ r.iteration = g.iteration /\ r.batch = Tail(g.batch)
  BY DEF Recorded, Loop
<1>5. r.agent = f.agent /\ r.iteration = f.iteration /\ Len(r.batch) < Len(f.batch)
  BY <1>1, <1>2, <1>4 DEF Alike
<1>6. Stage[r.pc] = Stage[f.pc] BY <1>4 DEF Stage
<1> QED BY <1>3, <1>5, <1>6 DEF Further

LEMMA ReturnsFurther ==
  ASSUME AInv, outcome = "running", NEW s, NEW o, NEW r, r # "running", Below(s), Return(s, o, r)
  PROVE  LoopAdvances
<1>1. Len(stack) \in Nat \ {0} /\ DOMAIN stack = 1 .. Len(stack) BY TopFacts, StackLen
<1>2. Len(s) = Len(stack) /\ s \in Seq(Loop) BY DEF Below
<1>3. CASE outcome' = r BY <1>3 DEF LoopAdvances
<1>4. CASE outcome' # r
  <2> DEFINE i == Len(stack) - 1
             t == Popped(s)
  <2>1. Len(s) > 1 /\ stack' = WithTop(t, Recorded(Top(t))) BY <1>4, Zenon DEF Return
  <2>2. i \in Nat \ {0} /\ i \in DOMAIN stack BY <1>1, <1>2, <2>1
  <2>3. t \in Seq(Loop) /\ Len(t) = i /\ \A j \in 1 .. i : t[j] = s[j] BY <1>1, <1>2, <2>1 DEF Popped
  <2> HIDE DEF t
  <2>4. stack[i] \in Loop /\ LoopOK(agents, stack[i]) /\ stack[i].pc = "child"
    BY <1>1, <2>2, TopFacts DEF StackOK
  <2>5. t[i] \in Loop /\ Alike(t[i], stack[i]) BY <2>2, <2>3 DEF Below
  <2>6. stack[i].batch # <<>> BY <2>4 DEF LoopOK
  <2> DEFINE f == Recorded(t[i])
  <2>7. f \in Loop /\ Further(f, stack[i]) BY <2>4, <2>5, <2>6, RecordedFurther
  <2>8. stack' = WithTop(t, f) BY <2>1, <2>3 DEF Top
  <2> HIDE DEF f
  <2>9. Len(stack') = i /\ DOMAIN stack' = 1 .. i /\ stack'[i] = f
        /\ \A j \in 1 .. i - 1 : stack'[j] = t[j]
    BY <2>2, <2>3, <2>8 DEF WithTop
  <2>10. \A j \in 1 .. i - 1 : Alike(stack'[j], stack[j]) BY <2>2, <2>3, <2>9 DEF Below
  <2>11. i \in DOMAIN stack' /\ ~ (Len(stack') > Len(stack)) BY <1>1, <2>2, <2>9
  <2> HIDE DEF i
  <2> QED BY <2>2, <2>7, <2>9, <2>10, <2>11 DEF LoopAdvances
<1> QED BY <1>3, <1>4

\* One call, as the loop handles it.
LEMMA CountedFurther ==
  ASSUME AInv
  PROVE  Counted \in Loop /\ Alike(Counted, top)
BY TopFacts, SMTT(60) DEF Counted, Loop, Alike

LEMMA ParseAdvances ==
  ASSUME AInv, outcome = "running", NEW f \in Loop, Alike(f, top), top.pc \in {"calls", "tool"},
         top.batch # <<>>, ParseError(f)
  PROVE  LoopAdvances
<1> DEFINE g == [f EXCEPT !.retried = @ \cup {Head(f.batch).id}]
<1>1. \/ GoOn(WithTop(stack, Recorded(g)), open)
      \/ Return(WithTop(stack, f), open, "parse_failed")
  BY Zenon DEF ParseError
<1>2. f.batch \in Seq(Call) /\ f.retried \in SUBSET CallIds /\ f.batch # <<>> BY DEF Loop, Alike
<1>3. Head(f.batch).id \in CallIds
  <2>1. Head(f.batch) \in Call BY <1>2
  <2> QED BY <2>1 DEF Call
<1>4. g \in Loop /\ Alike(g, top) BY <1>2, <1>3 DEF Loop, Alike
<1> HIDE DEF g
<1>5. Recorded(g) \in Loop /\ Further(Recorded(g), top) BY <1>4, TopFacts, RecordedFurther
<1>6. Below(WithTop(stack, Recorded(g))) /\ Further(Top(WithTop(stack, Recorded(g))), top)
  BY <1>5, BelowItself, BelowWithTop
<1>7. Below(WithTop(stack, f)) BY BelowItself, BelowWithTop
<1> QED BY <1>1, <1>6, <1>7, GoesFurther, ReturnsFurther

LEMMA CallAdvances ==
  ASSUME AInv, NEW name \in Names,
         DepthDenied(name) \/ Denied(name) \/ UnknownTool(name) \/ NoPrompt(name)
         \/ EnterChild(name) \/ Invoke(name)
  PROVE  LoopAdvances
<1>1. Handling(name)
  BY Zenon DEF DepthDenied, Denied, UnknownTool, NoPrompt, EnterChild, Invoke
<1>2. outcome = "running" /\ top.pc = "calls" /\ top.batch # <<>> /\ top \in Loop
  BY <1>1, TopFacts DEF Handling, At
<1>3. Counted \in Loop /\ Alike(Counted, top) BY CountedFurther
<1>4. CASE DepthDenied(name) \/ Denied(name)
  <2>1. GoOn(WithTop(stack, Recorded(Counted)), open) BY <1>4 DEF DepthDenied, Denied
  <2>2. Recorded(Counted) \in Loop /\ Further(Recorded(Counted), top) BY <1>2, <1>3, RecordedFurther
  <2>3. Below(WithTop(stack, Recorded(Counted))) /\ Further(Top(WithTop(stack, Recorded(Counted))), top)
    BY <2>2, BelowItself, BelowWithTop
  <2> QED BY <2>1, <2>3, GoesFurther
<1>5. CASE UnknownTool(name)
  <2>1. Return(WithTop(stack, Counted), open, "unknown_tool") BY <1>5 DEF UnknownTool
  <2>2. Below(WithTop(stack, Counted)) BY <1>3, BelowItself, BelowWithTop
  <2> QED BY <1>2, <2>1, <2>2, ReturnsFurther
<1>6. CASE NoPrompt(name)
  <2>1. ParseError(Counted) BY <1>6 DEF NoPrompt
  <2> QED BY <1>2, <1>3, <2>1, ParseAdvances
<1>7. CASE EnterChild(name) \/ Invoke(name)
  <2>1. \A pc \in {"child", "tool"} :
          LET f == [Counted EXCEPT !.pc = pc]
          IN  Below(WithTop(stack, f)) /\ Further(Top(WithTop(stack, f)), top)
    <3> SUFFICES ASSUME NEW pc \in {"child", "tool"}
                 PROVE  /\ Below(WithTop(stack, [Counted EXCEPT !.pc = pc]))
                        /\ Further(Top(WithTop(stack, [Counted EXCEPT !.pc = pc])), top)
      BY Zenon
    <3> DEFINE f == [Counted EXCEPT !.pc = pc]
    <3>1. f \in Loop /\ f.agent = Counted.agent /\ f.pc = pc /\ f.iteration = Counted.iteration
          /\ f.batch = Counted.batch
      BY <1>3 DEF Loop
    <3> HIDE DEF f
    <3>2. Further(f, top) BY <1>2, <1>3, <3>1 DEF Further, Alike
    <3>3. Below(WithTop(stack, f)) /\ Further(Top(WithTop(stack, f)), top)
      BY <3>1, <3>2, BelowItself, BelowWithTop
    <3> QED BY <3>3 DEF f
  <2>2. CASE EnterChild(name)
    <3> DEFINE s == WithTop(stack, [Counted EXCEPT !.pc = "child"])
    <3>1. /\ name \in Agents /\ Registered(name)
          /\ GoOn(Append(s, Entered(name)), Append(open, "subagent"))
      BY <2>2, Zenon DEF EnterChild
    <3>2. Below(s) /\ Further(Top(s), top) BY <2>1
    <3> HIDE DEF s
    <3>3. Entered(name) \in Loop BY <3>1 DEF Entered, Loop
    <3>4. ~ TooDeep(name) BY <3>1 DEF Registered
    <3>5. Len(stack) \in Nat BY TopFacts, StackLen
    <3>6. mine.max_subagent_depth \in Nat BY TopFacts, CapsOK
    <3>7. Len(stack) <= mine.max_subagent_depth BY <3>1, <3>4, <3>5, <3>6 DEF TooDeep, Depth
    <3> QED BY <3>1, <3>2, <3>3, <3>7, EntersWithin
  <2>3. CASE Invoke(name)
    <3> DEFINE s == WithTop(stack, [Counted EXCEPT !.pc = "tool"])
    <3>1. GoOn(s, open) BY <2>3, Zenon DEF Invoke
    <3>2. Below(s) /\ Further(Top(s), top) BY <2>1
    <3> HIDE DEF s
    <3> QED BY <3>1, <3>2, GoesFurther
  <2> QED BY <1>7, <2>2, <2>3
<1> QED BY <1>4, <1>5, <1>6, <1>7

LEMMA LlmAdvances ==
  ASSUME AInv, NEW u \in Usages, NEW batch \in Batches, LlmAnswers(u, batch)
  PROVE  LoopAdvances
<1> DEFINE s == Charged(stack, u)
           f == [Top(s) EXCEPT !.pc = "calls", !.batch = batch]
<1>1. outcome = "running" /\ top.pc = "llm" BY DEF LlmAnswers, At
<1>2. \/ Return(s, Popped(open), "tokens") \/ Return(s, Popped(open), "ok")
      \/ GoOn(WithTop(s, f), Popped(open))
  BY Zenon DEF LlmAnswers
<1>3. u \in Nat /\ batch \in Seq(Call) BY BatchesOK, LoopAssumption
<1>4. Below(s) /\ Alike(Top(s), top) BY <1>3, BelowCharged
<1> HIDE DEF s
<1>5. Top(s) \in Loop
  <2>1. Len(stack) \in Nat \ {0} BY TopFacts, StackLen
  <2> QED BY <1>4, <2>1 DEF Below, Top
<1>6. f \in Loop /\ f.agent = Top(s).agent /\ f.pc = "calls" /\ f.iteration = Top(s).iteration
  BY <1>3, <1>5 DEF Loop
<1> HIDE DEF f
<1>7. Further(f, top) BY <1>1, <1>4, <1>6 DEF Further, Alike, Stage
<1>8. Below(WithTop(s, f)) /\ Further(Top(WithTop(s, f)), top) BY <1>4, <1>6, <1>7, BelowWithTop
<1> QED BY <1>1, <1>2, <1>4, <1>8, GoesFurther, ReturnsFurther

LEMMA StepLoopAdvances == ASSUME AInv, [Next]_vars PROVE [LoopAdvances]_vars
<1>0. top \in Loop /\ Below(stack) BY TopFacts, BelowItself
<1>a. ASSUME NEW f \in Loop PROVE Below(WithTop(stack, f)) /\ Top(WithTop(stack, f)) = f
  BY <1>0, BelowWithTop
<1>1. CASE Enter
  <2> DEFINE f == [top EXCEPT !.pc = "iterate"]
  <2>1. \/ Return(stack, open, "invalid_policy")
        \/ Return(stack, open, "unknown_tool")
        \/ GoOn(WithTop(stack, f), open)
    BY <1>1, Zenon DEF Enter
  <2>2. outcome = "running" /\ top.pc = "enter" BY <1>1 DEF Enter, At
  <2>3. f \in Loop /\ f.agent = top.agent /\ f.pc = "iterate" /\ f.iteration = top.iteration
    BY <1>0 DEF Loop
  <2> HIDE DEF f
  <2>4. Further(f, top) BY <2>2, <2>3 DEF Further, Stage
  <2> QED BY <1>0, <1>a, <2>1, <2>2, <2>3, <2>4, GoesFurther, ReturnsFurther
<1>2. CASE Exhausted \/ OutOfTokens
  <2>1. outcome = "running" /\ \E r \in {"iteration_limit", "tokens"} : Return(stack, open, r)
    BY <1>2 DEF Exhausted, OutOfTokens, At
  <2> QED BY <1>0, <2>1, ReturnsFurther
<1>3. CASE Request
  <2> DEFINE f == [top EXCEPT !.pc = "llm", !.retried = {}]
  <2>1. top.pc = "iterate" /\ GoOn(WithTop(stack, f), Append(open, "llm"))
    BY <1>3, Zenon DEF Request, At
  <2>2. f \in Loop /\ f.agent = top.agent /\ f.pc = "llm" /\ f.iteration = top.iteration
    BY <1>0 DEF Loop
  <2> HIDE DEF f
  <2>3. Further(f, top) BY <2>1, <2>2 DEF Further, Stage
  <2> QED BY <1>a, <2>1, <2>2, <2>3, GoesFurther
<1>4. CASE NextIteration
  <2> DEFINE f == [top EXCEPT !.pc = "iterate", !.iteration = @ + 1]
  <2>1. GoOn(WithTop(stack, f), open) BY <1>4, Zenon DEF NextIteration
  <2>2. top.iteration \in Nat /\ top.iteration + 1 \in Nat BY <1>0 DEF Loop
  <2>3. f \in Loop /\ f.agent = top.agent /\ f.iteration = top.iteration + 1
    BY <1>0, <2>2 DEF Loop
  <2> HIDE DEF f
  <2>4. Further(f, top) BY <2>2, <2>3 DEF Further
  <2> QED BY <1>a, <2>1, <2>3, <2>4, GoesFurther
<1>5. CASE OutOfCalls
  <2>1. outcome = "running" /\ Return(WithTop(stack, Counted), open, "tool_calls")
    BY <1>5 DEF OutOfCalls, At
  <2> QED BY <1>a, <2>1, CountedFurther, ReturnsFurther
<1>6. CASE LlmFails
  <2>1. outcome = "running" /\ Return(stack, Popped(open), "llm_error") BY <1>6 DEF LlmFails, At
  <2> QED BY <1>0, <2>1, ReturnsFurther
<1>7. CASE ToolOk \/ ToolFails
  <2>1. outcome = "running" /\ top.pc = "tool" /\ top.batch # <<>>
    BY <1>7, TopFacts DEF ToolOk, ToolFails, At, LoopOK
  <2>2. \/ GoOn(WithTop(stack, Recorded(top)), open) \/ Return(stack, open, "tool_error") \/ ParseError(top)
    BY <1>7 DEF ToolOk, ToolFails
  <2>3. Alike(top, top) BY DEF Alike
  <2>4. Recorded(top) \in Loop /\ Further(Recorded(top), top) BY <1>0, <2>1, <2>3, RecordedFurther
  <2> QED BY <1>0, <1>a, <2>1, <2>2, <2>3, <2>4, GoesFurther, ReturnsFurther, ParseAdvances
<1>8. CASE Drop BY <1>8 DEF Drop, At, Resolving, Handling, LoopAdvances
<1>9. CASE Ended \/ UNCHANGED vars BY <1>9 DEF Ended
<1> QED BY <1>1, <1>2, <1>3, <1>4, <1>5, <1>6, <1>7, <1>8, <1>9, CallAdvances, LlmAdvances
        DEF Next, LoopStep, External

\* Whatever the model and the tools answer, every step of LoopAgent::run ends
\* the node's loop or gets one of its loops further, and a loop is only entered
\* within its caller's depth cap.  Iterations are bounded (AgentTypes) and so
\* is a response's batch, so no sequence of answers keeps the loops going.
THEOREM AgentAdvances == Safety => [][LoopAdvances]_vars
<1>1. AInv /\ [Next]_vars => [LoopAdvances]_vars BY StepLoopAdvances
<1> QED BY <1>1, AgentInvariant, PTL DEF Safety
=============================================================================

---------------------------- MODULE RecordReplay ----------------------------
(* A run that records and the replay of its bundle.  RecordingTransport and
   RecordingToolHandler write what the transport and the tools answer on two
   tapes; flush_and_assemble copies them into a bundle; orno replay runs the
   same agents again with ReplayTransport and ReplayToolHandler, which answer
   from the tapes.  Both runs are the same machine: only who answers differs.

   A text is a model string; "secret" holds the value of a secret, which the
   redactor turns into "masked" on its way to a tape.  Tapes are consumed as
   they are replayed, so one variable stands for what was recorded, what the
   bundle file holds and what is left of it.                                *)
EXTENDS Naturals, Sequences, SequencesExt

CONSTANTS
  Plans,          \* pipelines: sequences of [prompt, allow] of agent nodes
  Reading,        \* tools without effects
  Mutating,       \* tools with Mutations or MutationsAndNetwork (Write, Bash)
  Networked,      \* tools with Network or MutationsAndNetwork (WebFetch, Bash)
  Answers,        \* responses: [role, text], a final text or a tool's arguments
  Outputs,        \* texts of a tool's output
  MaxIterations,  \* requests a loop may issue
  MaxCalls        \* bound: tool calls in the recorded run

ASSUME IterationsPositive == MaxIterations \in Nat \ {0}

\* What the template of a prompt reads.
Prompts == {"fixed", "literal", "var", "inputs", "output", "state"}

\* The allow_* flags of a policy that replay clears.  allow_context_writes is
\* the same in both runs; a SetState it denies is denied in both alike.
Flags == {"mutations", "network"}

ASSUME PlansAssumption ==
  \A p \in Plans : p \in Seq([prompt : Prompts, allow : SUBSET Flags]) /\ p # <<>>

ASSUME FirstNodeStandsAlone == \A p \in Plans : p[1].prompt \notin {"output", "state"}

Effectful == Mutating \cup Networked

\* The texts of a tool's denial: which flag is off, or what is wrong with the
\* scheme or the host of its URL.
Denials == {"mutations_off", "network_off", "host_refused"}

\* A conversation and a tape tag what they hold: no tool has the name of a
\* speaker, and no text of a tool is the mark of a failure or of a denial.
ASSUME TagsAssumption ==
  /\ (Reading \cup Effectful) \cap {"user", "result", "final", "error"} = {}
  /\ Outputs \cap (Denials \cup {"invalid", "error"}) = {}
  /\ \A a \in Answers :
       /\ a = [role |-> a.role, text |-> a.text]
       /\ a.role \in Reading \cup Effectful \cup {"SetState", "final"}
       /\ a.role = "SetState" => a.text \notin Denials \cup {"invalid", "error"}

VARIABLES
  plan,     \* the pipeline
  bearer,   \* one of its HTTP servers has a bearer token spelt out
  phase,    \* record, written, replay or refused
  live,     \* the run that is recorded
  tape,     \* LLM entries and tool entries, oldest first
  cut,      \* the bundle lost its tail
  replay    \* the run from the tapes

vars == <<plan, bearer, phase, live, tape, cut, replay>>

Mask(t) == IF t = "secret" THEN "masked" ELSE t

Masked(h) == [i \in DOMAIN h |-> [h[i] EXCEPT !.text = Mask(@)]]

Tools == Reading \cup Effectful \cup {"SetState"}

Says(role, t) == [role |-> role, text |-> t]

-----------------------------------------------------------------------------
\* The run: agent nodes one after another, each with its own conversation.
Machine == [node |-> 1, pc |-> "open", history |-> <<>>, state |-> "none", done |-> <<>>]

\* The node at hand is over: how, what was said, its output and state.
Ended(m, end, out) ==
  [node    |-> m.node + 1,
   pc      |-> IF m.node = Len(plan) THEN "stop" ELSE "open",
   history |-> <<>>,
   state   |-> "none",
   done    |-> Append(m.done, [end |-> end, history |-> m.history, output |-> out,
                               state |-> m.state])]

Failed(m, end) == Ended(m, end, "none")

\* scrub_pipeline_secrets: the YAML of a pipeline with a token spelt out loses
\* every text under a key that looks like a credential, of vars as of servers.
Scrubbed(t) == IF bearer THEN "scrubbed" ELSE t

\* Rendering a node's prompt.  literal: the YAML spells out a value that is
\* also a secret; var: a template over a var named like a credential; inputs:
\* one over secrets.* or env.*; output and state: over the node before.
Opened(m, inputs) ==
  LET kind == plan[m.node].prompt
      fed  == kind \in {"output", "state"}
      text == CASE fed -> Last(m.done)[kind]
                [] kind = "fixed" -> "plain"
                [] kind = "var" -> IF inputs THEN "plain" ELSE Scrubbed("plain")
                [] OTHER -> "secret"
  IN  IF fed /\ Last(m.done).end # "ok" THEN Failed(m, "skipped")
      ELSE IF text = "none" \/ (kind = "inputs" /\ ~ inputs) THEN Failed(m, "template")
      ELSE [m EXCEPT !.pc = "llm", !.history = <<Says("user", text)>>]

\* A response: the final text ends the loop, a call asks for a tool.
Answered(m, a) ==
  LET n == [m EXCEPT !.pc = "tool", !.history = Append(@, a)]
  IN  IF a.role = "final" THEN Ended(n, "ok", a.text) ELSE n

\* A tool's result goes into the history; then the next request, if any is left.
Resulted(m, t) ==
  LET n == [m EXCEPT !.pc = "llm", !.history = Append(@, Says("result", t))]
  IN  IF Len(n.history) > 2 * MaxIterations THEN Failed(n, "limit") ELSE n

Call(m) == Last(m.history)

\* The gate looks at allow_mutations before allow_network, and its denial
\* names the one that is off.
Denial(role, allow) ==
  IF role \in Mutating /\ "mutations" \notin allow THEN "mutations_off"
  ELSE IF role \in Networked /\ "network" \notin allow THEN "network_off"
  ELSE "none"

\* Replay clears both flags of every agent.
DenialOnReplay(role) == Denial(role, {})

Permitted(m) == Denial(Call(m).role, plan[m.node].allow) = "none"

\* check_policy_and_invoke judges the URL of a tool that only needs the network.
HostJudged(m) == Call(m).role \in Networked \ Mutating

-----------------------------------------------------------------------------
Init ==
  /\ plan \in Plans
  /\ bearer \in {b \in BOOLEAN : b => \E n \in DOMAIN plan : plan[n].prompt = "var"}
  /\ phase = "record"
  /\ live = Machine /\ replay = Machine
  /\ tape = [llm |-> <<>>, tool |-> <<>>]
  /\ cut = FALSE

Recording(pc) == phase = "record" /\ live.pc = pc /\ UNCHANGED <<plan, bearer, phase, cut, replay>>

Open == Recording("open") /\ live' = Opened(live, TRUE) /\ UNCHANGED tape

\* The entry of a request: redacted as a whole, request and response.
Wrote(res) ==
  [tape EXCEPT !.llm = Append(@, [key |-> Masked(live.history),
                                  res |-> Says(res.role, Mask(res.text))])]

\* The calls of the run so far.
Calls(m) ==
  LET Of(h) == Len(SelectSeq(h, LAMBDA x : x.role \in Tools))
  IN  Of(m.history) + FoldSeq(LAMBDA d, n : n + Of(d.history), 0, m.done)

Complete(a) ==
  /\ Recording("llm")
  /\ a.role \in Tools => Calls(live) < MaxCalls
  /\ live' = Answered(live, a) /\ tape' = Wrote(a)

TransportFails ==
  Recording("llm") /\ live' = Failed(live, "llm_error") /\ tape' = Wrote(Says("error", "none"))

\* The node's timeout drops a pending call before its entry, or the entry
\* cannot be written and its error takes the place of the answer.
Lost ==
  /\ \/ Recording("llm")
     \/ Recording("tool") /\ Permitted(live)
  /\ live' = Failed(live, "lost") /\ UNCHANGED tape

Deny ==
  /\ Recording("tool") /\ ~ Permitted(live)
  /\ live' = Resulted(live, Denial(Call(live).role, plan[live.node].allow))
  /\ UNCHANGED tape

\* A URL that is not http, a host that is blocked, not allowed, private, or
\* does not resolve.
RefuseHost ==
  /\ Recording("tool") /\ Permitted(live) /\ HostJudged(live)
  /\ live' = Resulted(live, "host_refused") /\ UNCHANGED tape

\* The entry of a tool call: the key is made of the arguments as they came,
\* the output is redacted, an error is kept as its text.
Noted(res) == [tape EXCEPT !.tool = Append(@, [key |-> Call(live), res |-> res])]

\* A tool's output; SetState stores its argument in the node's state and
\* echoes it.
Invoke(out) ==
  /\ Recording("tool") /\ Permitted(live)
  /\ LET t == IF Call(live).role = "SetState" THEN Mask(Call(live).text) ELSE Mask(out)
         n == IF Call(live).role = "SetState" THEN [live EXCEPT !.state = t] ELSE live
     IN  live' = Resulted(n, t) /\ tape' = Noted(t)

\* Arguments that do not parse, or a tool that is not implemented: an error on
\* the tape, a message to the model.
Forgiven ==
  /\ Recording("tool") /\ Permitted(live)
  /\ live' = Resulted(live, "invalid") /\ tape' = Noted("error")

ToolFails ==
  /\ Recording("tool") /\ Permitted(live)
  /\ live' = Failed(live, "tool_error") /\ tape' = Noted("error")

\* flush_and_assemble and write_bundle, after the last node.
WriteBundle ==
  /\ phase = "record" /\ live.pc = "stop"
  /\ phase' = "written"
  /\ UNCHANGED <<plan, bearer, live, tape, cut, replay>>

\* The file ends early (a crash, a full disk): LLM entries come first, the
\* trailer last.  With k lines left read_bundle has no trailer to verify.
Cut(k) ==
  /\ phase = "written" /\ ~ cut
  /\ LET l == Len(tape.llm)
     IN  tape' = IF k <= l THEN [llm |-> SubSeq(tape.llm, 1, k), tool |-> <<>>]
                 ELSE [tape EXCEPT !.tool = SubSeq(@, 1, k - l)]
  /\ cut' = TRUE
  /\ UNCHANGED <<plan, bearer, phase, live, replay>>

\* A line cut in the middle does not parse; a bundle with no pipeline line
\* is refused too.
RefuseBundle ==
  /\ phase = "written" /\ cut
  /\ phase' = "refused"
  /\ UNCHANGED <<plan, bearer, live, tape, cut, replay>>

ReadBundle ==
  /\ phase = "written"
  /\ phase' = "replay"
  /\ UNCHANGED <<plan, bearer, live, tape, cut, replay>>

-----------------------------------------------------------------------------
Replaying(pc) == phase = "replay" /\ replay.pc = pc /\ UNCHANGED <<plan, bearer, phase, live, cut>>

\* Replay reads the YAML of the bundle and resolves neither secrets nor
\* environment.
Reopen == Replaying("open") /\ replay' = Opened(replay, FALSE) /\ UNCHANGED tape

\* Mutant: the newest entry of a key is taken.
FoundLast(s, key) == SelectLastInSeq(s, LAMBDA e : e.key = key)

\* The oldest entry that is left of a key, 0 for a miss.
Found(s, key) == SelectInSeq(s, LAMBDA e : e.key = key)

Left(s, i) == RemoveAt(s, i)

\* Mutant: a miss falls back to a live answer.
ReanswerLive ==
  /\ Replaying("llm")
  /\ LET i == Found(tape.llm, replay.history)
     IN  \/ /\ i = 0
            /\ \E a \in Answers : replay' = Answered(replay, a)
            /\ UNCHANGED tape
         \/ /\ i # 0
            /\ replay' = IF tape.llm[i].res.role = "error" THEN Failed(replay, "llm_error")
                         ELSE Answered(replay, tape.llm[i].res)
            /\ tape' = [tape EXCEPT !.llm = Left(@, i)]

Reanswer ==
  /\ Replaying("llm")
  /\ LET i == Found(tape.llm, replay.history)
     IN  \/ i = 0 /\ replay' = Failed(replay, "replay_miss") /\ UNCHANGED tape
         \/ /\ i # 0
            /\ replay' = IF tape.llm[i].res.role = "error" THEN Failed(replay, "llm_error")
                         ELSE Answered(replay, tape.llm[i].res)
            /\ tape' = [tape EXCEPT !.llm = Left(@, i)]

Redeny ==
  /\ Replaying("tool") /\ DenialOnReplay(Call(replay).role) # "none"
  /\ replay' = Resulted(replay, DenialOnReplay(Call(replay).role)) /\ UNCHANGED tape

\* The tool itself never runs: a recorded output is returned, a recorded
\* error is always one that ends the loop.
Retool ==
  /\ Replaying("tool") /\ DenialOnReplay(Call(replay).role) = "none"
  /\ LET i == Found(tape.tool, Call(replay))
     IN  \/ i = 0 /\ replay' = Failed(replay, "tool_error") /\ UNCHANGED tape
         \/ /\ i # 0
            /\ replay' = IF tape.tool[i].res = "error" THEN Failed(replay, "tool_error")
                         ELSE Resulted(replay, tape.tool[i].res)
            /\ tape' = [tape EXCEPT !.tool = Left(@, i)]

\* RunFinished: the exit code says whether every node was ok.
Finished ==
  /\ phase = "refused" \/ (phase = "replay" /\ replay.pc = "stop")
  /\ UNCHANGED vars

Next ==
  \/ Open \/ TransportFails \/ Lost \/ Deny \/ RefuseHost \/ Forgiven \/ ToolFails
  \/ \E a \in Answers : Complete(a)
  \/ \E t \in Outputs : Invoke(t)
  \/ WriteBundle \/ RefuseBundle \/ ReadBundle
  \/ \E k \in 0 .. Len(tape.llm) + Len(tape.tool) : Cut(k)
  \/ Reopen \/ Reanswer \/ Redeny \/ Retool
  \/ Finished

Spec == Init /\ [][Next]_vars

-----------------------------------------------------------------------------
AllOk(m) == m.pc = "stop" /\ \A n \in DOMAIN m.done : m.done[n].end = "ok"

\* Node n replayed what was recorded of it, up to redaction.
Reproduced(n) ==
  LET l == live.done[n]
      r == replay.done[n]
  IN  r.end = l.end /\ r.history = Masked(l.history) /\ r.output = Mask(l.output)

\* "The replay either reproduces the original run or fails loudly": a replay
\* that ends ok had, node by node, the recorded conversation.  Timeouts that
\* leave no entry, identical requests of two nodes, denials and a bundle that
\* lost its tail must not let one node take another's answers unnoticed.
\* Nothing of the bundle is left over, and nothing was used twice.
SameOrFails ==
  AllOk(replay) => tape = [llm |-> <<>>, tool |-> <<>>] /\ \A n \in DOMAIN plan : Reproduced(n)

\* What a node's recording must be for its replay to follow: every call is on
\* the tape, no text held a secret or was scrubbed, no tool ran that replay
\* denies, one that was denied was so by the flag that replay names, no error
\* was forgiven, and the prompt needs nothing that replay does not have.
Replayable(n) ==
  LET l == live.done[n]
  IN  /\ l.end \in {"ok", "llm_error", "tool_error", "limit", "skipped"}
      /\ l.history = Masked(l.history)
      /\ plan[n].prompt \notin {"inputs", "state"}
      /\ ~ (bearer /\ plan[n].prompt = "var")
      /\ \A i \in DOMAIN l.history :
           /\ l.history[i].text # "invalid"
           /\ l.history[i].role \in Effectful =>
                /\ Denial(l.history[i].role, plan[n].allow) = DenialOnReplay(l.history[i].role)
                /\ i < Len(l.history)

\* Up to the first node with one of these marks, the replay of an uncut bundle
\* is the recorded run, failures included.
ReplayFollows ==
  phase = "replay" /\ ~ cut =>
    \A n \in DOMAIN replay.done : (\A j \in 1 .. n : Replayable(j)) => Reproduced(n)

\* The node's state is part of its output (nodes.<id>.state).
StateReproduced ==
  AllOk(replay) => \A n \in DOMAIN plan : replay.done[n].state = live.done[n].state
=============================================================================

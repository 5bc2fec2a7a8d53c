------------------------------- MODULE Engine -------------------------------
(***************************************************************************)
(* Engine::run (execution/scheduler): the serial loop that drives the      *)
(* walker, dispatches each node, records its output and reports on the     *)
(* event stream.  Its only awaits that yield are the executors'; there the *)
(* CLI may drop the whole run (Ctrl-C).                                    *)
(***************************************************************************)
EXTENDS DagWalker

CONSTANTS Shell,      \* nodes of kind shell; the others are agent nodes
          Registries, \* sets of kinds that may have an executor
          Timed,      \* nodes with a `timeout:`
          Reads       \* per node, the outputs its templates evaluate

ASSUME EngineAssumption ==
  /\ Shell \subseteq Node /\ Timed \subseteq Node /\ Registries \subseteq SUBSET {"shell", "agent"}
  /\ Reads \in [Node -> SUBSET Node]

VARIABLES registry, \* the kinds that have an executor, fixed
          pc,       \* where Engine::run is
          current,  \* the node being run, 0 before the first
          reply,    \* the DispatchOutcome of current
          outputs,  \* nodes whose output the Context holds
          failed,   \* failed_nodes
          skipped,  \* skipped_nodes
          runOk,    \* run_ok
          stream    \* the events recorded so far

engineVars == <<registry, pc, current, reply, outputs, failed, skipped, runOk, stream>>

vars == <<walkerVars, engineVars>>

KindStr(n) == IF n \in Shell THEN "shell" ELSE "agent"

\* A DispatchOutcome: ok has no failure, and only what ran has an output.
Outcome(f, out) == [failure |-> f, output |-> out]

Ok == Outcome("none", TRUE)

PayloadFailure == Outcome("payload", TRUE)

Failures == {Outcome(f, FALSE) : f \in {"no_executor", "template", "executor", "timed_out"}}

Running == {"dispatch", "executing", "settle"}

Ended == {"finished", "aborted", "dropped"}

Emit(event) == stream' = Append(stream, event)

Started(n) == [event |-> "node_started", node |-> n]
TimedOut(n) == [event |-> "node_timed_out", node |-> n]
Finished(n, f) == [event |-> "node_finished", node |-> n, failure |-> f]
Skipped(n) == [event |-> "node_skipped", node |-> n, upstream |-> upstream[n]]
RunStarted == [event |-> "run_started"]
RunFinished == [event |-> "run_finished", ok |-> runOk, failed |-> failed, skipped |-> skipped]

EngineInit ==
  /\ Init /\ registry \in Registries
  /\ pc = "start" /\ current = 0 /\ reply = Ok
  /\ outputs = {} /\ failed = <<>> /\ skipped = <<>> /\ runOk = TRUE
  /\ stream = <<>>

Begin ==
  /\ pc = "start" /\ pc' = "setup"
  /\ Emit(RunStarted)
  /\ UNCHANGED <<registry, walkerVars, current, reply, outputs, failed, skipped, runOk>>

\* DagWalker::new accepts the graph and `vars:` render.
SetUp ==
  /\ pc = "setup" /\ Acyclic(needs) /\ pc' = "loop"
  /\ UNCHANGED <<registry, walkerVars, current, reply, outputs, failed, skipped, runOk, stream>>

\* One of them does not: run returns Err on the spot.
Abort ==
  /\ pc = "setup" /\ pc' = "aborted"
  /\ UNCHANGED <<registry, walkerVars, current, reply, outputs, failed, skipped, runOk, stream>>

\* while let Some(node) = walker.next_ready()
Pull(n) ==
  /\ pc = "loop" /\ pc' = "dispatch"
  /\ NextReady(n)
  /\ current' = n
  /\ Emit(Started(n))
  /\ UNCHANGED <<registry, reply, outputs, failed, skipped, runOk>>

\* dispatch_node up to the executor: it needs an executor, then every
\* template field must render; undefined values are errors.
NoExecutor ==
  /\ pc = "dispatch" /\ KindStr(current) \notin registry
  /\ reply' = Outcome("no_executor", FALSE) /\ pc' = "settle"
  /\ UNCHANGED <<registry, walkerVars, current, outputs, failed, skipped, runOk, stream>>

RenderFails ==
  /\ pc = "dispatch" /\ KindStr(current) \in registry
  /\ reply' = Outcome("template", FALSE) /\ pc' = "settle"
  /\ UNCHANGED <<registry, walkerVars, current, outputs, failed, skipped, runOk, stream>>

Execute ==
  /\ pc = "dispatch" /\ KindStr(current) \in registry
  /\ Reads[current] \subseteq outputs
  /\ pc' = "executing"
  /\ UNCHANGED <<registry, walkerVars, current, reply, outputs, failed, skipped, runOk, stream>>

\* The executor answers.  Only a shell node can fail in its payload.
Returns(r) ==
  /\ pc = "executing" /\ pc' = "settle"
  /\ r = PayloadFailure => current \in Shell
  /\ reply' = r
  /\ UNCHANGED <<registry, walkerVars, current, outputs, failed, skipped, runOk, stream>>

\* Mutant: the timeout is not applied to shell nodes.
TimeOutAgentsOnly ==
  /\ pc = "executing" /\ current \in Timed \ Shell /\ pc' = "settle"
  /\ reply' = Outcome("timed_out", FALSE)
  /\ Emit(TimedOut(current))
  /\ UNCHANGED <<registry, walkerVars, current, outputs, failed, skipped, runOk>>

\* tokio::time::timeout elapses and drops the executor's future.
TimeOut ==
  /\ pc = "executing" /\ current \in Timed /\ pc' = "settle"
  /\ reply' = Outcome("timed_out", FALSE)
  /\ Emit(TimedOut(current))
  /\ UNCHANGED <<registry, walkerVars, current, outputs, failed, skipped, runOk>>

\* Mutant: only shell outputs are recorded.
SettleOkShellOnly ==
  /\ pc = "settle" /\ reply = Ok /\ pc' = "loop"
  /\ outputs' = outputs \cup ({current} \cap Shell)
  /\ Emit(Finished(current, "none"))
  /\ CompleteOk(current)
  /\ UNCHANGED <<registry, current, reply, failed, skipped, runOk>>

\* Record the output, failed or not; report; complete(id, true) ...
SettleOk ==
  /\ pc = "settle" /\ reply = Ok /\ pc' = "loop"
  /\ outputs' = outputs \cup {current}
  /\ Emit(Finished(current, "none"))
  /\ CompleteOk(current)
  /\ UNCHANGED <<registry, current, reply, failed, skipped, runOk>>

\* ... or complete(id, false), whose cascade follows.
SettleFailed ==
  /\ pc = "settle" /\ reply # Ok /\ pc' = "cascade"
  /\ outputs' = IF reply.output THEN outputs \cup {current} ELSE outputs
  /\ failed' = Append(failed, current) /\ runOk' = FALSE
  /\ Emit(Finished(current, reply.failure))
  /\ CompleteFailed(current)
  /\ UNCHANGED <<registry, current, reply, skipped>>

CascadeStep ==
  /\ pc = "cascade"
  /\ CascadePast \/ \E n \in Node : CascadeSkip(n)
  /\ UNCHANGED engineVars

\* Mutant: only the first skip of a cascade is reported.
ReportFirstSkip ==
  /\ pc = "cascade" /\ CascadeEnd /\ pc' = "loop"
  /\ skipped' = skipped \o skips
  /\ stream' = IF skips = <<>> THEN stream ELSE Append(stream, Skipped(skips[1]))
  /\ UNCHANGED <<registry, current, reply, outputs, failed, runOk>>

\* Mutant: the skips are reported last first.
ReportSkipsReversed ==
  /\ pc = "cascade" /\ CascadeEnd /\ pc' = "loop"
  /\ skipped' = skipped \o Reversed(skips)
  /\ stream' = stream \o [i \in DOMAIN skips |-> Skipped(Reversed(skips)[i])]
  /\ UNCHANGED <<registry, current, reply, outputs, failed, runOk>>

\* complete returned: one NodeSkipped per skip, in the walker's order.
ReportSkips ==
  /\ pc = "cascade" /\ CascadeEnd /\ pc' = "loop"
  /\ skipped' = skipped \o skips
  /\ stream' = stream \o [i \in DOMAIN skips |-> Skipped(skips[i])]
  /\ UNCHANGED <<registry, current, reply, outputs, failed, runOk>>

\* Mutant: the run stops at the first failure.
FinishAtFirstFailure ==
  /\ pc = "loop" /\ (readyQueue = <<>> \/ ~ runOk) /\ pc' = "finished"
  /\ Emit(RunFinished)
  /\ UNCHANGED <<registry, walkerVars, current, reply, outputs, failed, skipped, runOk>>

\* next_ready answered None.
Finish ==
  /\ pc = "loop" /\ readyQueue = <<>> /\ pc' = "finished"
  /\ Emit(RunFinished)
  /\ UNCHANGED <<registry, walkerVars, current, reply, outputs, failed, skipped, runOk>>

\* SIGINT wins the select!: the run's future is dropped at an await.
Drop ==
  /\ pc \in {"start", "executing"} /\ pc' = "dropped"
  /\ UNCHANGED <<registry, walkerVars, current, reply, outputs, failed, skipped, runOk, stream>>

Stopped == pc \in Ended /\ UNCHANGED vars

\* What the engine does by itself, as long as it is polled.
EngineStep ==
  \/ Begin \/ SetUp \/ Abort
  \/ \E n \in Node : Pull(n)
  \/ NoExecutor \/ RenderFails \/ Execute
  \/ SettleOk \/ SettleFailed \/ CascadeStep \/ ReportSkips
  \/ Finish

Answer == \E r \in {Ok, PayloadFailure, Outcome("executor", FALSE)} : Returns(r)

EngineNext == EngineStep \/ Answer \/ TimeOut \/ Drop \/ Stopped

EngineSafety == EngineInit /\ [][EngineNext]_vars

\* The runtime polls the engine and fires its timers; an executor owes no
\* answer, and Ctrl-C may never come.
EngineSpec == EngineSafety /\ WF_vars(EngineStep) /\ WF_vars(TimeOut)

-----------------------------------------------------------------------------
\* q lists what f maps a set of positions to, in their order.
Lists(q, f) ==
  \E at \in [DOMAIN q -> DOMAIN f] :
    /\ Range(at) = DOMAIN f
    /\ \A i, j \in DOMAIN q : i < j => at[i] < at[j]
    /\ \A i \in DOMAIN q : q[i] = f[at[i]]

Selected(s, I) == [i \in I |-> s[i]]

AboutNode(s, n) == {i \in DOMAIN s : "node" \in DOMAIN s[i] /\ s[i].node = n}

FailedAt(s) == {i \in DOMAIN s : s[i].event = "node_finished" /\ s[i].failure # "none"}

SkippedAt(s) == {i \in DOMAIN s : s[i].event = "node_skipped"}

NodesAt(s, I) == [i \in I |-> s[i].node]

\* The events of n, in the order of the stream s, are es.
EventsAre(s, n, es) == Lists(es, Selected(s, AboutNode(s, n)))

\* The events of n tell a reader of the stream s that n is st.
Told(s, n, st) ==
  \/ st = "waiting" /\ EventsAre(s, n, <<>>)
  \/ /\ st = "running"
     /\ EventsAre(s, n, <<Started(n)>>) \/ EventsAre(s, n, <<Started(n), TimedOut(n)>>)
  \/ st = "ok" /\ EventsAre(s, n, <<Started(n), Finished(n, "none")>>)
  \/ /\ st = "failed"
     /\ \/ \E f \in {"no_executor", "template", "executor", "payload"} :
             EventsAre(s, n, <<Started(n), Finished(n, f)>>)
        \/ EventsAre(s, n, <<Started(n), TimedOut(n), Finished(n, "timed_out")>>)
  \/ /\ st = "skipped"
     /\ \E u \in Node : EventsAre(s, n, <<[event |-> "node_skipped", node |-> n, upstream |-> u]>>)

\* Whenever the engine is not inside a cascade, the event stream alone gives
\* the walker's state: no node is reported twice, none is forgotten.  What
\* RunFinished sums up is what a reader of the stream would: the failed and
\* the skipped nodes in the order of their events, and ok if there is none.
StreamTellsState ==
  pc # "cascade" =>
    /\ \A n \in Node : Told(stream, n, statusOf(state[n]))
    /\ Lists(failed, NodesAt(stream, FailedAt(stream)))
    /\ Lists(skipped, NodesAt(stream, SkippedAt(stream)))
    /\ runOk <=> failed = <<>> /\ skipped = <<>>

\* When a node's templates are rendered, the outputs of all it needs are in
\* the Context, directly or through another need.
NeededOutputsPresent ==
  pc = "dispatch" =>
    \A a \in Node : Ancestor(needs, a, current) => a \in outputs

\* Every NodeSkipped comes after the event that explains it, a need of the
\* node that failed or was skipped before, and the upstream it names is the
\* first failure of the run that the node transitively needs.
SkipsExplained ==
  \A i \in DOMAIN stream : stream[i].event = "node_skipped" =>
    /\ \E j \in 1 .. i - 1 :
         /\ "node" \in DOMAIN stream[j] /\ stream[j].node \in Needs(needs, stream[i].node)
         /\ \/ stream[j].event = "node_skipped"
            \/ stream[j].event = "node_finished" /\ stream[j].failure # "none"
    /\ \E k \in DOMAIN failed :
         /\ failed[k] = stream[i].upstream
         /\ Ancestor(needs, failed[k], stream[i].node)
         /\ \A h \in 1 .. k - 1 : ~ Ancestor(needs, failed[h], stream[i].node)

\* RunFinished is emitted only when every node has settled.
NothingStranded == pc = "finished" => IsDone

\* The engine runs one node at a time, and it is current.
OneAtATime == In("Running") = IF pc \in Running \/ (pc = "dropped" /\ current # 0)
                              THEN {current} ELSE {}

\* A run that is not dropped ends unless an executor without a timeout
\* never answers.
RunSettles ==
  (\A n \in Node \ Timed : (pc = "executing" /\ current = n) ~> pc # "executing")
    => <>(pc \in Ended)
=============================================================================

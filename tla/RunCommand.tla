----------------------------- MODULE RunCommand -----------------------------
(* orno run around the engine: MCP servers are spawned one by one, the engine
   runs against Ctrl-C, the tapes are flushed and assembled into a bundle, the
   servers are drained, the exit code is decided.  Every step may fail, the
   consumer of the event stream may leave, or stop reading for a while or for
   good, a server may die or hang.
   The engine is reduced to its first and last event, its outcome and the
   calls it makes to MCP servers.                                           *)
EXTENDS Naturals, Sequences, SequencesExt

CONSTANTS
  Count,        \* MCP servers of the pipeline
  MaxCalls      \* bound: MCP calls of the run

ASSUME CountAssumption == Count \in Nat

VARIABLES
  pc,        \* where run() is
  client,    \* RmcpClient::state per server, "none" before it is built
  child,     \* the server's process: none, up, dead, stopped, dropped
  call,      \* the server that a call in flight waits for, 0 for none
  ok,        \* RunOutcome.ok
  tape,      \* [llm, tool]: open or flushed
  bundle,    \* the bundle file was written
  stdout,    \* of the event stream: writes succeed (up), the pipe is full
             \* (stalled), how often writes began to fail (faults)
  log,       \* the events recorded: position is seq, lost ones included
  broken,    \* StreamingSink::broken
  exit       \* how run() returned

vars == <<pc, client, child, call, ok, tape, bundle, stdout, log, broken, exit>>

\* In the order of their names: mcp_servers is a BTreeMap.
Servers == 1 .. Count

\* Mutant: a failed write is only logged.
RecordUnlatched(type, s) ==
  /\ ~ stdout.stalled
  /\ log' = Append(log, [type |-> type, server |-> s, written |-> stdout.up])
  /\ UNCHANGED broken

\* StreamingSink::record writes and flushes on the spot, so a full pipe holds
\* up run() itself; seq is used up whether or not the write succeeds; a failure
\* is latched.
Record(type, s) ==
  /\ ~ stdout.stalled
  /\ log' = Append(log, [type |-> type, server |-> s, written |-> stdout.up])
  /\ broken' = (broken \/ ~ stdout.up)

Quiet == UNCHANGED <<log, broken>>

Said(type) == \E i \in DOMAIN log : log[i].type = type

Goto(p) == pc' = p /\ UNCHANGED <<exit, stdout>>

\* Returning drops the clients, and with them the children that are left.
Exit(how) ==
  /\ exit' = how /\ pc' = "exit"
  /\ child' = [s \in Servers |-> IF child[s] = "up" THEN "dropped" ELSE child[s]]
  /\ UNCHANGED stdout

Init ==
  /\ pc = "setup" /\ exit = "none"
  /\ client = [s \in Servers |-> "none"] /\ child = [s \in Servers |-> "none"]
  /\ call = 0 /\ ok = TRUE
  /\ tape = [llm |-> "open", tool |-> "open"] /\ bundle = FALSE
  /\ stdout = [up |-> TRUE, stalled |-> FALSE, faults |-> 0]
  /\ log = <<>> /\ broken = FALSE

-----------------------------------------------------------------------------
\* Spawning.  The next server is the first one without a client.
Fresh == {s \in Servers : client[s] = "none"}

Pending == {s \in Servers : client[s] = "pending"}

SetupFails ==
  /\ pc = "setup" /\ Exit("error") /\ Quiet
  /\ UNCHANGED <<client, call, ok, tape, bundle>>

Setup ==
  /\ pc = "setup" /\ Goto("spawn") /\ Quiet
  /\ UNCHANGED <<client, child, call, ok, tape, bundle>>

StartServer(s) ==
  /\ pc = "spawn" /\ Pending = {} /\ s \in Fresh /\ \A r \in Fresh : s <= r
  /\ Record("starting", s)
  /\ client' = [client EXCEPT ![s] = "pending"] /\ Goto("spawn")
  /\ UNCHANGED <<child, call, ok, tape, bundle>>

SpawnChild(s) ==
  /\ pc = "spawn" /\ s \in Pending /\ child[s] = "none"
  /\ child' = [child EXCEPT ![s] = "up"]
  /\ Quiet /\ Goto("spawn")
  /\ UNCHANGED <<client, call, ok, tape, bundle>>

Handshake(s) ==
  /\ pc = "spawn" /\ s \in Pending /\ child[s] = "up"
  /\ Record("ready", s)
  /\ client' = [client EXCEPT ![s] = "connected"] /\ Goto("spawn")
  /\ UNCHANGED <<child, call, ok, tape, bundle>>

\* Spawn, handshake or tools/list fails or times out: the client is dropped
\* with its child, what is connected will be drained.
InitFails(s) ==
  /\ pc = "spawn" /\ s \in Pending
  /\ Record("crashed", s)
  /\ client' = [client EXCEPT ![s] = "discarded"]
  /\ child' = [child EXCEPT ![s] = IF @ = "up" THEN "dropped" ELSE @]
  /\ Goto("drain_init")
  /\ UNCHANGED <<call, ok, tape, bundle>>

Spawned ==
  /\ pc = "spawn" /\ Pending = {} /\ Fresh = {}
  /\ Quiet /\ Goto("engine")
  /\ UNCHANGED <<client, child, call, ok, tape, bundle>>

\* A wildcard that names no server, or a tool tape that cannot be created:
\* "?" leaves run() with the servers connected.
ExpandFails ==
  /\ pc = "spawn" /\ Pending = {} /\ Fresh = {}
  /\ Quiet /\ Exit("error")
  /\ UNCHANGED <<client, call, ok, tape, bundle>>

-----------------------------------------------------------------------------
\* The engine.
RunStarted ==
  /\ pc = "engine" /\ ~ Said("run_started")
  /\ Record("run_started", 0) /\ Goto("engine")
  /\ UNCHANGED <<client, child, call, ok, tape, bundle>>

InEngine == pc = "engine" /\ Said("run_started")

Calls == Len(SelectSeq(log, LAMBDA e : e.type = "call_sent"))

CallTool(s) ==
  /\ InEngine /\ call = 0 /\ Calls < MaxCalls
  /\ Record("call_sent", s)
  /\ call' = s /\ Goto("engine")
  /\ UNCHANGED <<client, child, ok, tape, bundle>>

\* An answer, with is_error or not, or an error of the transport.
CallReturns(s) ==
  /\ InEngine /\ call = s /\ (child[s] = "up" \/ child[s] = "dead")
  /\ \/ child[s] = "up" /\ UNCHANGED ok
     \/ ok' = FALSE
  /\ Record("call_completed", s)
  /\ call' = 0 /\ Goto("engine")
  /\ UNCHANGED <<client, child, tape, bundle>>

\* Mutant: a call has no timeout of its own.
CallHangs(s) == FALSE /\ s = call /\ UNCHANGED vars

\* MCP_CALL_TIMEOUT_SECS have passed.
CallTimesOut(s) ==
  /\ InEngine /\ call = s
  /\ Record("call_completed", s)
  /\ call' = 0 /\ ok' = FALSE /\ Goto("engine")
  /\ UNCHANGED <<client, child, tape, bundle>>

\* The node's own timeout drops the call in flight and its lock.
NodeTimesOut ==
  /\ InEngine /\ call # 0
  /\ Quiet /\ call' = 0 /\ ok' = FALSE /\ Goto("engine")
  /\ UNCHANGED <<client, child, tape, bundle>>

EngineReturns(outcome) ==
  /\ InEngine /\ call = 0
  /\ Record("run_finished", 0)
  /\ ok' = outcome /\ (outcome => ok) /\ Goto("flush_llm")
  /\ UNCHANGED <<client, child, call, tape, bundle>>

\* An error of Engine::run is passed on at once.
EngineFails ==
  /\ InEngine /\ call = 0
  /\ Quiet /\ Exit("error")
  /\ UNCHANGED <<client, call, ok, tape, bundle>>

\* Mutant: the run that is interrupted goes on as if it had returned.
InterruptedAssembles ==
  /\ InEngine
  /\ Record("run_finished", 0)
  /\ call' = 0 /\ ok' = FALSE /\ Goto("assemble")
  /\ UNCHANGED <<client, child, tape, bundle>>

\* Mutant: Ctrl-C says nothing on the stream.
InterruptedSilent ==
  /\ InEngine
  /\ Quiet
  /\ call' = 0 /\ ok' = FALSE /\ Goto("flush_sigint")
  /\ UNCHANGED <<client, child, tape, bundle>>

\* Ctrl-C while the engine runs: its future is dropped, with a call in flight.
Interrupted ==
  /\ InEngine
  /\ Record("run_finished", 0)
  /\ call' = 0 /\ ok' = FALSE /\ Goto("flush_sigint")
  /\ UNCHANGED <<client, child, tape, bundle>>

\* Before ctrl_c() is first polled, ahead of the engine, the signal's default
\* action kills orno.
Killed ==
  /\ pc \in {"setup", "spawn", "drain_init"} \/ (pc = "engine" /\ ~ Said("run_started"))
  /\ pc' = "exit" /\ exit' = "killed"
  /\ Quiet /\ UNCHANGED <<client, child, call, ok, tape, bundle, stdout>>

-----------------------------------------------------------------------------
\* flush_and_assemble, whose errors leave run() before the drain ...
FlushLlm ==
  /\ pc = "flush_llm" /\ Quiet
  /\ tape' = [tape EXCEPT !.llm = "flushed"] /\ Goto("flush_tool")
  /\ UNCHANGED <<client, child, call, ok, bundle>>

FlushTool ==
  /\ pc = "flush_tool" /\ Quiet
  /\ tape' = [tape EXCEPT !.tool = "flushed"] /\ Goto("assemble")
  /\ UNCHANGED <<client, child, call, ok, bundle>>

Assemble ==
  /\ pc = "assemble" /\ Quiet
  /\ bundle' = TRUE /\ Goto("drain")
  /\ UNCHANGED <<client, child, call, ok, tape>>

FlushFails ==
  /\ pc \in {"flush_llm", "flush_tool", "assemble"} /\ Quiet /\ Exit("error")
  /\ UNCHANGED <<client, call, ok, tape, bundle>>

\* ... and handle_sigint, where a failed flush is only logged.
FlushSigint ==
  /\ pc = "flush_sigint" /\ Quiet
  /\ tape' \in [llm : {"open", "flushed"}, tool : {"open", "flushed"}]
  /\ Goto("drain_sigint")
  /\ UNCHANGED <<client, child, call, ok, bundle>>

-----------------------------------------------------------------------------
\* shutdown_mcp_servers, on all three paths.
Drains == {"drain", "drain_init", "drain_sigint"}

\* Mutant: the servers are drained in the order they answer.
NextToDrainAny == {s \in Servers : client[s] = "connected"}

NextToDrain ==
  {s \in Servers : client[s] = "connected" /\ \A r \in 1 .. s - 1 : client[r] # "connected"}

Draining == {s \in Servers : client[s] = "draining"}

Shutdown(s) ==
  /\ pc \in Drains /\ Draining = {} /\ s \in NextToDrain
  /\ Record("draining", s)
  /\ client' = [client EXCEPT ![s] = "draining"] /\ Goto(pc)
  /\ UNCHANGED <<child, call, ok, tape, bundle>>

\* cancel() returns, or is given up after its timeout and the child dropped.
\* shutdown takes the lock that a call holds.
ShutDown(s) ==
  /\ pc \in Drains /\ s \in Draining /\ call # s
  /\ Record("gone", s)
  /\ client' = [client EXCEPT ![s] = "disconnected"]
  /\ \E how \in {"stopped", "dropped"} :
       child' = [child EXCEPT ![s] = IF @ = "up" THEN how ELSE @]
  /\ Goto(pc)
  /\ UNCHANGED <<call, ok, tape, bundle>>

Drained == \A s \in Servers : client[s] \notin {"connected", "draining"}

\* Mutant: the state of the stream is looked at before the servers drain.
FinalizeEarly ==
  /\ pc = "drain"
  /\ Exit(IF broken THEN "broken" ELSE IF ok THEN "ok" ELSE "failed")
  /\ Quiet /\ UNCHANGED <<client, call, ok, tape, bundle>>

\* finalize_run.
Finalize ==
  /\ pc = "drain" /\ Drained
  /\ Exit(IF broken THEN "broken" ELSE IF ok THEN "ok" ELSE "failed")
  /\ Quiet /\ UNCHANGED <<client, call, ok, tape, bundle>>

\* MCP_SHUTDOWN_TIMEOUT bounds the drain after Ctrl-C.
InterruptedExit ==
  /\ pc = "drain_sigint"
  /\ Quiet /\ Exit("interrupted") /\ UNCHANGED <<client, call, ok, tape, bundle>>

\* emit_run_lifecycle_failure.
InitFailure ==
  /\ pc = "drain_init" /\ Drained /\ ~ Said("run_finished")
  /\ Record(IF Said("run_started") THEN "run_finished" ELSE "run_started", 0) /\ Goto(pc)
  /\ UNCHANGED <<client, child, call, ok, tape, bundle>>

InitExit ==
  /\ pc = "drain_init" /\ Said("run_finished")
  /\ Quiet /\ Exit("init_failed") /\ UNCHANGED <<client, call, ok, tape, bundle>>

-----------------------------------------------------------------------------
\* The outside: a server dies; the stream's consumer leaves, which ends a stall
\* too, or is replaced; it stops reading, or reads again.  Bound: the writes
\* begin to fail once, and stall before that only.
ServerDies(s) ==
  /\ pc # "exit" /\ child[s] = "up"
  /\ child' = [child EXCEPT ![s] = "dead"]
  /\ UNCHANGED <<pc, client, call, ok, tape, bundle, stdout, log, broken, exit>>

StdoutFails ==
  /\ pc # "exit" /\ stdout.faults = 0
  /\ stdout' = [up |-> FALSE, stalled |-> FALSE, faults |-> 1]
  /\ UNCHANGED <<pc, client, child, call, ok, tape, bundle, log, broken, exit>>

StdoutRecovers ==
  /\ pc # "exit" /\ ~ stdout.up
  /\ stdout' = [stdout EXCEPT !.up = TRUE]
  /\ UNCHANGED <<pc, client, child, call, ok, tape, bundle, log, broken, exit>>

StdoutStalls ==
  /\ pc # "exit" /\ stdout.faults = 0 /\ ~ stdout.stalled
  /\ stdout' = [stdout EXCEPT !.stalled = TRUE]
  /\ UNCHANGED <<pc, client, child, call, ok, tape, bundle, log, broken, exit>>

StdoutResumes ==
  /\ pc # "exit" /\ stdout.stalled
  /\ stdout' = [stdout EXCEPT !.stalled = FALSE]
  /\ UNCHANGED <<pc, client, child, call, ok, tape, bundle, log, broken, exit>>

Returned == pc = "exit" /\ UNCHANGED vars

\* What orno does by itself, without an answer from anyone.  That the engine returns
\* is among it: Engine!RunSettles says so of runs where no node hangs without a timeout.
Program ==
  \/ Setup \/ Spawned \/ RunStarted
  \/ \E s \in Servers : StartServer(s) \/ SpawnChild(s) \/ InitFails(s) \/ CallTimesOut(s)
                          \/ Shutdown(s) \/ ShutDown(s)
  \/ \E outcome \in BOOLEAN : EngineReturns(outcome)
  \/ FlushLlm \/ FlushTool \/ Assemble \/ FlushSigint
  \/ Finalize \/ InterruptedExit \/ InitFailure \/ InitExit

Outside ==
  \/ SetupFails \/ ExpandFails \/ EngineFails \/ FlushFails
  \/ Interrupted \/ Killed \/ NodeTimesOut
  \/ \E s \in Servers : Handshake(s) \/ CallTool(s) \/ CallReturns(s) \/ ServerDies(s)
  \/ StdoutFails \/ StdoutRecovers \/ StdoutStalls \/ StdoutResumes
  \/ Returned

Next == Program \/ Outside

\* Every wait of run() has a timeout of orno's own, but for a write to a full
\* pipe, which goes on as soon as the pipe is read: however often it fills up
\* again, a reader that comes back gets what is written.
Spec == Init /\ [][Next]_vars /\ SF_vars(Program)

-----------------------------------------------------------------------------
\* Exit code 0 is the last word on everything that can fail on the way: the
\* run was ok, every event reached the stream, those of the drain included,
\* the tapes are flushed, the bundle is written.
ExitZeroMeansAll ==
  exit = "ok" =>
    /\ ok /\ bundle /\ tape = [llm |-> "flushed", tool |-> "flushed"]
    /\ \A i \in DOMAIN log : log[i].written

\* A bundle is assembled from flushed tapes of an engine that returned, never
\* of a run that was interrupted.
BundleOfWholeRun ==
  bundle => tape = [llm |-> "flushed", tool |-> "flushed"] /\ exit # "interrupted"

Orderly == {"ok", "failed", "broken", "init_failed", "interrupted"}

\* On every path that run() handles, the crash of a server and Ctrl-C
\* included, the stream has one RunStarted and one RunFinished in this order,
\* with all calls between them, and RunFinished is there when run() returns.
RunIsFramed ==
  /\ \A i, j \in DOMAIN log :
       log[i].type = log[j].type /\ log[i].type \in {"run_started", "run_finished"} => i = j
  /\ exit \in Orderly => Said("run_finished")
  /\ \A i, j \in DOMAIN log : i < j =>
       /\ ~ (log[i].type = "run_finished" /\ log[j].type \in {"run_started", "call_sent", "call_completed"})
       /\ ~ (log[i].type \in {"call_sent", "call_completed"} /\ log[j].type = "run_started")

\* Whoever was connected has been shut down when run() returns on its own
\* terms; a drain after Ctrl-C may run out of time.
NothingLeftConnected ==
  exit \in Orderly \ {"interrupted"} =>
    \A s \in Servers : client[s] \in {"none", "discarded", "disconnected"}

\* The event stream tells the life of the servers as McpServers has it.
StatusIn(stream, s) ==
  LET i == SelectLastInSeq(stream, LAMBDA e : e.server = s /\ e.type \notin {"call_sent", "call_completed"})
  IN  IF i = 0 THEN "declared" ELSE stream[i].type

Lives == INSTANCE McpServers WITH status <- [s \in Servers |-> StatusIn(log, s)]

ServersLiveInOrder == Lives!Spec

\* run() returns, whatever the servers do, unless a node hangs the engine or the
\* consumer of the stream stops reading for good without closing it.
RunReturns == []<>(~ stdout.stalled) => <>(pc = "exit")
=============================================================================

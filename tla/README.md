# orno in TLA+

orno runs a *pipeline*: a YAML file of nodes (`kind: shell` and `kind: agent`)
with `needs:` edges between them.  This directory models the program's own
logic in TLA+, model-checks it with TLC on small instances and proves the
results that matter most with TLAPS for every instance.

Everything is translated from the Rust code under `src/crates`
(`orno-core`, `orno-cli`); `PROJECT.json` maps every definition to the lines it
stands for.  CORE below is `src/crates/orno-core/src`, CLI is
`src/crates/orno-cli/src`.

## 1. Inventory: the system's parts

| Part | Code | State it keeps | Operations |
| --- | --- | --- | --- |
| Loader and validation | CORE/pipeline/load.rs, schema.rs, CLI/commands/validate.rs | none after loading; Kahn's scratch array while it runs | `validate`, `expand_mcp_wildcards`, `orno validate` |
| DAG walker | CORE/execution/walker.rs | lifecycle state per node, unmet-need counters, stack of ready nodes | `new`, `next_ready`, `complete`, `is_done` |
| Engine | CORE/execution/scheduler/ | walker, context, `ok`, `failed_nodes`, `skipped_nodes` | `run`, `dispatch_node`, `on_payload_failure` |
| Context and templates | CORE/execution/context.rs, pipeline/template.rs | outputs of nodes, vars; LRU of compiled templates and their environment | `record`, `render` |
| Node executors | CORE/node/ | shell: the child, its pipes, three tasks | `execute` |
| Agent loop | CORE/agent/loop_agent/, tool/subagent.rs | iteration, tool-call count, token counter, history, state buffer, retried call ids; one loop per subagent in progress | `run`, `check_policy_and_invoke`, `invoke_with_parse_retry`, `SubagentHandler::invoke` |
| Built-in tools | CORE/tool/ | files; SetState: the loop's buffer; WebFetch: the hop at hand | `invoke` |
| Transport | CORE/llm/genai/ | a client per provider | `complete` with its retries |
| Record and replay | CORE/llm/{recording,replay,bundle}.rs, tool/{record,replay}.rs | two tapes, per-key queues | `complete`, `invoke`, `write_bundle`, `read_bundle` |
| MCP | CORE/mcp/, tool/mcp_handler.rs | connection: pending, connected, disconnected; the child process | `initialize`, `call_tool`, `shutdown` |
| Event sinks and redaction | CORE/events/ | sequence number, broken latch | `record`, `redact` |
| Run command | CLI/commands/run/ | the engine's future, MCP clients, tapes, exit verdict | `run`, `handle_sigint`, `finalize_run` |
| Secrets | CLI/commands/run/secrets.rs | two namespaces of variables | resolution |

How they interact.  `orno run` resolves variables, loads a pipeline, starts the
MCP servers one by one, and polls `Engine::run` in a `select!` against SIGINT.
The engine asks the walker for a ready node, renders its request from the
context, awaits its executor (under the node's `timeout:`), records the output,
tells the walker, and reports everything to the sink.  An agent node's executor
runs an agent loop: it asks a transport for a response, gates and invokes the
tools the response calls, and may enter itself again for a subagent.  Transport
and tools may be wrapped by recorders, or replaced by replayers.  Afterwards the
tapes are flushed, a bundle is assembled, the servers are drained.  Nothing runs
in parallel inside one engine; the interleavings are those of awaits with
timers, SIGINT, child processes and their pipes, servers that die, other
processes on the same files, and a model that may answer anything.

What makes each part correct, and what is hard about it:

- **walker**: it offers a node only when all its needs succeeded, offers it
  once, skips exactly what is behind a failure (whatever earlier failures
  already skipped), and never leaves a node waiting.  Hard: duplicate `needs:`
  entries, the order in which a stack, two cascades and the counters meet.
- **engine**: its event stream tells the walker's state; whatever a template may
  read is there; a timeout, a payload failure or a missing executor settles the
  node and nothing else; the run ends.
- **agent loop**: every budget bounds what it says it bounds, across subagents
  and whatever the model answers; along the delegations
  the loader checked no effect escapes the policy of any loop on the stack; history
  and state stay what they should under their caps.
- **loader**: what it accepts has the shape the others rely on (acyclic,
  delegations that only lose rights and depth, names that can be told apart).
- **tapes**: a replay is the recorded run, or it fails.  Hard: two nodes may ask
  the same, timeouts leave holes, redaction changes texts and so their keys.
- **run command and MCP**: on every way out the stream is framed, servers are
  drained in order, and exit code 0 says that nothing went wrong anywhere.
- **children, files, fetches, requests**: no deadlock on pipes, no torn file, no
  host that was not judged, no retry too many.

The hazards, each at its line and with the properties aimed at it, are in
`PROJECT.json` under `hazards`.

## 2. Modules

| Module | Models | Notes |
| --- | --- | --- |
| `PipelineGraph` | `needs:` as the code sees it: a sequence of entries per node, duplicates included | nodes are numbered in YAML order |
| `PipelineRun` | abstract: what running a pipeline promises | refined by `DagWalker`, checked and proved |
| `CycleCheck` | Kahn's algorithm, the same in load.rs and walker.rs, one step per popped node | |
| `DagWalker` | walker.rs: `NextReady`, `CompleteOk`, `CompleteFailed` and the turns of its cascade | any number of nodes may run at once |
| `Engine` | scheduler/mod.rs and dispatch.rs; EXTENDS `DagWalker`, its steps conjoin the walker's | `pc` is the place in `Engine::run` |
| `AgentPolicy` | policies of agents and the compose-down rules of load.rs | an agent's name is its tool `subagent.<name>` |
| `AgentLoop` | agent/loop_agent and tool/subagent.rs; EXTENDS `AgentPolicy` | a stack of loops, of which only the innermost moves |
| `ToolNames` | dotted and wire names of MCP tools, and the way back | operators only |
| `Loader` | load.rs check by check, `orno validate`, wildcard expansion, what each loop is offered, live and on replay; EXTENDS `CycleCheck`, `AgentPolicy`, `ToolNames` | |
| `TemplateCache` | the two stores of pipeline/template.rs | operators only |
| `NodeMemory` | rendering, histories of nested loops, SetState, what later nodes read; EXTENDS `TemplateCache` | |
| `RecordReplay` | a recorded run, its bundle and the replay side by side | one machine twice: only who answers differs |
| `McpServers` | abstract: what the event stream says of servers' lives | refined by `RunCommand`, checked and proved |
| `RunCommand` | CLI/commands/run around an engine reduced to its first and last event and its MCP calls; CORE/mcp/rmcp_client.rs, events/streaming_sink.rs | |
| `CappedCapture`, `ChildProcess` | shell.rs and bash.rs: the child, two output pipes, stdin, reader and writer tasks, timeout, a helper process that keeps pipes open | |
| `FileTools` | read.rs, write.rs, edit.rs, path_guard.rs: one action per system call | |
| `WebFetch` | web_fetch.rs with the policy gate before it | |
| `Transport` | llm/genai: clients, authentication, retries, classification, and what a tape keeps of an answer | |
| `RunInputs` | secrets.rs, and the patterns of the redactor | one step: the resolution is a function |
| `SideEffects` | the last five: they share no state, so one works while the others rest | |
| `GraphProofs`, `LoaderProofs`, `EngineProofs`, `AgentLoopProofs`, `NodeMemoryProofs`, `RecordReplayProofs`, `RunCommandProofs`, `SideEffectsProofs` | lemmas and theorems (section 5) | each EXTENDS its component; `LoaderProofs` and `EngineProofs` also hold those of `CycleCheck` and `DagWalker` |
| `MC*` | constants for TLC | |

Correspondence.

*Walker and engine.*  `state`, `waitingOn`, `readyQueue` are the walker's fields
of the same names; `origin`, `bfs`, `skips` are the locals of `complete(id,
false)` while it runs (its breadth-first loop is unrolled, one step per turn; the
engine cannot interleave with it because `complete` does not await).
`upstream[n]` is the node the `SkipReason` of n names.  In `Engine`, `registry` is
the set of kinds with an executor (fixed for a run), `current` is the loop's
node, `reply` the `DispatchOutcome`, `outputs` the ids recorded in `Context`,
`failed`, `skipped`, `runOk` the aggregates of `RunFinished`, and `stream` the
events handed to the sink.  A node's output is only its presence.  What an
executor answers is arbitrary, except that only a shell node fails in its
payload.  Durations are left out: a timeout may fire whenever a node with a
`timeout:` is executing.

*Agent loop.*  An entry of `stack` is one activation of `LoopAgent::run`: `pc` is
the await or the branch it is at, `iteration`, `calls`, `tokens`, `retried` its
locals, `batch` the calls of the last response it has still to handle.
`SubagentHandler::invoke` awaits the child's `run`, so a parent sits at
`pc = "child"` and only the top of the stack moves.  `open` is the subsequence of
opening events (LlmRequestStarted, SubagentStarted) that no closing event has
matched.  `spent` is the one history variable.  What the model answers is
arbitrary: any number of calls up to `MaxCalls`, any usage in `Usages`, ids that
may repeat, and tools and agents it was not offered (`Strays`): the loop looks at
`allowed_tools` when it makes its requests, and not when a call comes back, so what
is registered is run.  Counters are naturals: the
u64 and u32 ones saturate at values no run reaches.  The one saturating addition
that matters, in the compose-down rule, is modelled (`SaturatingSucc`).

*Loader.*  A run is recorded or not (`pc`): RecordingToolHandler does not pass
`requires_jail` on, so the check that file tools have roots is made by an unrecorded
loop only.

*NodeMemory.*  A size stands for a text.  `said` and `acked` are history
variables: all messages of a loop so far, and what its SetState calls were told
they wrote; `told` is `acked` of a node that ended well.  `loops` is the stack of
`AgentLoop` again, seen from the side of what it stores; budgets are reduced to
`MaxIterations`, and a call may fail for any reason.

*RecordReplay.*  A text is a model value; `"secret"` is one the redactor turns into
`"masked"`.  A tape key is the whole request (what the SHA-256 is made of), so
equal requests share one.  The text of a denial names the flag that is off, and the
gate looks at `allow_mutations` first: that decides whether a call denied in the
recording is denied by the same text on replay, where both flags are off
(`Denial`, `DenialOnReplay`).  `allow_context_writes` is the same in both runs, and
left out.  Tapes are consumed by the replay.  `Cut(k)` is a file
that ends early, after k lines; without a trailer the bundle is read unverified,
as in the code.

*RunCommand.*  `pc` is the place in `run()`; `log` holds the events as the sink
recorded them with whether the write succeeded, `broken` is the sink's latch.
The sink writes and flushes on the spot, so nothing that records an event moves
while the pipe to the consumer is full (`stdout.stalled`).  Servers are numbered in
the order of their names, the order of the map they are in (schema.rs:41).
`EngineFails` stands for every `?` after the servers are up: run() returns at
once, and the clients are dropped with their children undrained.

*SideEffects.*  A byte is its place in a UTF-8 sequence; a file's text a sequence
of words; a host is an address or a name, a URL a scheme and a host; a provider's
failure is its kind, status and the size of its body.  A place is a directory and a
name; directories may be reached through symbolic links (`Links`), inside the root
or elsewhere, which do not change during a run, files are no links themselves, and
a relative path is a bare name.  The jail follows links where the path exists and
judges the path as it is written where it does not (`UnderRoot`).  `Crash` in `FileTools` is
the death of the process or of the machine: a text that was not synced may be
cut short.

## 3. Runs

| Run | Instance | Question |
| --- | --- | --- |
| `loader` | every graph over 3 nodes with up to two `needs:` entries; files that differ in servers, tool lists, delegations, roots, or have one fault | the cycle check is right; delegation narrows rights along whole chains; wire names lead back; what `orno validate` accepts starts; a replay offers the same tools |
| `dag_walker` | every acyclic graph over 4 nodes, an only entry perhaps written twice; any number of nodes running | counters, stack and cascade, and that the walker implements `PipelineRun` |
| `engine` | every acyclic graph over 4 nodes and a cycle; shell and agent nodes, with and without `timeout:`, with and without an executor for agents, a template that reads an output it may not need | stream and walker agree, skips are explained, outputs are there, the run settles, whatever executors answer and wherever Ctrl-C falls |
| `agent_loop` | an agent and its subagent, 15 pairs of policies, two calls per response | budgets, event pairing, termination |
| `agent_delegation` | three agents, depth caps 0..4, two sets of effects, a model that calls agents whether offered or not | how deep loops nest, which effects run, through listed agents |
| `node_memory` | 4 nodes, 6 sources, a cache of 2, nested loops, caps that one more message or value exceeds | the cache is exact, the history recent, the state acknowledged |
| `record_replay` | two agent nodes with prompts of every kind and any of the two flags, a tool of each effect, two iterations, secrets in texts, timeouts, lost entries, a bundle cut anywhere | the replay is the recording or fails; where nothing stands against it, it follows |
| `run_command` | two servers that may die at any time, two calls, Ctrl-C once or twice, a stream that stalls, fails and recovers | framing, drain order (refinement of `McpServers`), meaning of exit code 0, bundles, termination |
| `side_effects` | children with output beyond a pipe and the cap; 2 or 3 file calls racing with a crash, some through a link that leads out of the root; fetches along two redirects; requests with two retries, replayed; names given by several sources | no deadlock and nothing lost; no torn file; refused calls leave nothing; every hop judged; retries spent; answers replayed in order; precedence of inputs |
| `grandchild_tokens`, `replay_state`, `replay_order` | as above | each shows one sentence of the repository that the code contradicts (section 6) |

Why the bounds are enough.  Four nodes is the least number with a diamond whose
arms fail at different times, that is two cascades meeting at one node, and a
fourth node independent of one of them; all graphs over four nodes are tried, in
every source order.  The cycle check needs only three: a cycle, a node behind
it, and an entry written twice.  For the agent loop two levels show every
interaction of a parent with a child; three are needed where a rule is meant to
be transitive.  Two calls per response is the least number with a call before
and one after the call that matters, and two ids tell a repeated id from a fresh
one.  Usages 0, 1, 2 against a budget of 2 or 3 land below, on and above it.
`U32Max` is 9 in `agent_loop` and 4 in `agent_delegation`, in place of 2^32 - 1: only the
largest value is special, and in the second run it is the cap of some agents.  There
two of the three agents are strays too, so that an agent comes back inside itself by
a call that is not listed.  A cache of
two with six sources evicts, refreshes and re-enters; a history cap of 4 against
messages of 1 to 3 evicts none, some, and down to the last two.  Two nodes are
the least that can share a tape key.  The stream begins to fail once and recovers; until then it may stall any
number of times.  Two servers show a crash of the first and
of the second, and an order of drains.  Capture cap 3 and pipe size 2 with
characters of one to three bytes put every kind of character on the edge.  Two
redirects against `MaxRedirects = 2` end by an answer and by the limit.

The longest runs take about two minutes with two workers.  No run turns off the
deadlock check: the end of a run is a state with an explicit stutter.

## 4. Fairness

- `CycleCheck`: weak fairness of its steps; a sequential algorithm runs until it
  returns.  `DagWalker`: weak fairness of `Next`; whoever owns the walker drives it.
- `Engine`: weak fairness of `EngineStep` (the future is polled) and of `TimeOut`
  (a tokio timer fires).  An executor owes no answer: `RunSettles` says that the
  run ends if no node hangs without a `timeout:`.  Ctrl-C owes nothing either.
- `AgentLoop`: weak fairness of `LoopStep`, the loop's own code.  Neither the
  transport nor a tool owes an answer, so `LoopSettles` is conditional on their
  giving one: the budgets end the loop, not the goodwill of the model.
- `RunCommand`: strong fairness of `Program`, the steps orno takes by itself, among
  them its timers (handshake, call and shutdown timeouts) and the return of the
  engine, which is what `RunSettles` of `Engine` says under its own condition on
  nodes that hang.  It is strong because a consumer may let the pipe fill up again and
again: whenever it reads, a write that waits for it goes on.  Servers, the stream's
consumer and Ctrl-C owe nothing; `RunReturns` is about a consumer that does not stop
reading for good with the pipe left open, which would hold up run() for ever.
- `ChildProcess` (and `SideEffects` for it): weak fairness of `Work`, the tasks of
  the runtime, the child's own script and the timer.  A helper process may stay
  for ever, so `ChildReturns` asks for a timeout or no helper.
- `Loader`, `NodeMemory`, `RecordReplay` and the other side effects: none; only
  safety is claimed.

## 5. Proofs

Assumptions on the constants, all evaluated by TLC in the runs: `NAssumption`,
`GraphsAssumption`, `EngineAssumption`, `NamesAssumption`, `LoopAssumption` (shapes of
graphs and policies; a response reports some usage), `InputsAssumption` (names
are sequences over `Words`, entries of tool lists have a kind and a name; server
names are keys of a map, so each stands for one server, and the servers start in
some order of all of them), `AgentOrderAssumption` (the agents in the order of
their map, each once), `InputsAreSequences` (files, their lines and the flags are
lists), `CountAssumption`, `FilesAssumption`
(texts are sequences over `Words`, links lead to directories), `FetchAssumption`, `TransportAssumption` (sizes
and sets; in particular a failure is not a reply), `CapacityAssumption` (a cache has room for
one), `MemoryAssumption` (sizes and caps; the empty state is within its cap),
`PlansAssumption` (a pipeline has a node), `TagsAssumption` (a conversation and a
tape tag what they hold: no tool has a speaker's name, and no tool returns the
text of a denial), `FirstNodeStandsAlone` (the first prompt reads no node), and
the well-formedness of the children's scripts.

| Theorem | Says |
| --- | --- |
| `VerdictIsCorrect`, `ResidualAlwaysExists` | the cycle check is right on every graph |
| `LoaderDecides`, `AcceptedIsAcyclic` | so it is inside the loader, and what `orno validate` accepts is acyclic |
| `DelegationsNarrow` | along every chain of delegations of an accepted file, of any length, rights only shrink |
| `NamesRouteBack` | with server names as documented that `orno validate` accepts, a wire name leads back to the one server and the wire form of the tool it was made of |
| `ValidatedRun` | of a file that passes `orno validate`, no loop refuses to start, but for tools a server turns out to lack, and file tools without roots when the run is not recorded |
| `ReplayOffers` | a replay offers each agent of the tape the tools it was offered in the recording, whatever agents ran and in whatever order |
| `WalkerTypes`, `WalkerOffers`, `WalkerCascades`, `WalkerBlames`, `WalkerDrains` | the walker's safety invariants, on every graph |
| `WalkerImplementsRun` | the walker refines `PipelineRun` |
| `EngineImplementsRun` | a run of the engine is a run as `PipelineRun` has it |
| `EngineIsSerial`, `EngineStrandsNothing`, `EngineSuppliesOutputs` | what the engine adds |
| `EngineTells` | the event stream alone gives every node's state, and RunFinished sums it up |
| `EngineExplains` | a NodeSkipped comes after the event that explains it and blames the first failure the node depends on |
| `EngineAdvances` | every step of a run leaves less to do, whatever executors answer: no schedule keeps a run going, on any graph |
| `AgentTypes`, `AgentOvershoot` | iterations and tokens of every loop of the stack are bounded |
| `AgentEffects`, `AgentDepth`, `AgentRecursion` | what compose-down and the gates achieve together along listed delegations, at any depth, whatever the model calls |
| `AgentStream` | opening and closing events nest and match, over all loops of the stack |
| `AgentBudget`, `AgentBudgetCapped` | a loop's tokens cover its whole subtree, as long as a subagent has none of its own; depth caps of at most one see to that |
| `AgentAdvances` | every step ends the node's loop or gets one loop of the stack further, whatever the model and the tools answer |
| `CacheIsExact`, `HistoryStaysRecent`, `StateIsAcked` | the three properties of `NodeMemory`, for any caps, sources and nesting |
| `ServersAsPromised` | `RunCommand` refines `McpServers`, for any number of servers |
| `RunsAreFramed`, `NobodyLeftConnected`, `BundlesAreWhole`, `ZeroMeansAll` | the safety properties of `RunCommand` |
| `HopsAreJudged`, `RetriesSpent`, `RefusalsLeaveNothing` | WebFetch, the transport's retries and the file tools, in the composition |
| `NothingIsTorn` | a reader sees, and a crash leaves, a text given for this place or edits of one, never half a file |
| `OutputIsComplete` | what a child wrote before it ended is captured, up to the cap |
| `ReplayIsFaithful` | a replay whose every node ends well is the recorded run node by node, and uses up the bundle: for pipelines of any length, and a bundle cut anywhere |
| `RecordingIsFollowed` | up to the first node that replay cannot repeat, an uncut bundle replays as it was recorded, failures included |
| `ReplayAnswers` | the transport's tape gives back the answers in the order they came |
| `InputsResolved` | every variable has the value of the source that goes first, for any files, lines and flags, and what is read under the name of a secret is masked |

The arguments:

- **cycle check** (`CInv`): the counter of a node not yet visited is the number of
  its entries whose node is not visited.  When the stack is empty, the unvisited
  nodes each have an unvisited need, so they hold a cycle; the graph lemmas say
  what that means without induction on paths (a set closed under "some need of
  mine is in the set").
- **loader** (`LInv`): each check that was passed says what it checked of the file,
  so an accepted one has every check's fact.  Chains of delegations need no
  induction on their length: the agents allowed no more than the first are a set
  closed under delegation, so it holds the whole chain.  Of two server names
  that both begin a wire name one begins the other, and such pairs `orno validate`
  refuses.
- **loader, the run and its replay** (`RunInv`): while agents begin, an agent's list
  holds what its file names and what its wildcards stand for, the handlers are
  all tools of all servers, and an entry of the tape holds the wire form of every
  MCP tool of its agent (`Running`).  A replay knows the tape only: it derives a
  server's tools from wire names, and since those lead back, a wildcard stands
  for the same wire names again.  What a list holds after flattening and the
  removal of duplicates is proved by the least position at which it would fail
  (`FlattenMeans`, `KeptMeans`, `DistinctMeans`).  `NamesRouteBack` and `ReplayOffers` need
  `NamedAsDocumented`, no dot in a server's name, which the documentation asks for
  ("lowercase with underscores", docs/reference/pipeline-yaml.md:191) and no code
  checks.  Without it they are false: with servers `fs` and `fs.x` a tool of
  `fs.x` has a wire name that is read as one of `fs`, so that on replay `mcp.fs.x.*`
  expands to nothing.
- **walker** (`WInv`): counters as above for waiting nodes; the stack holds exactly
  the ready ones; during a cascade the frontier (`bfs`) holds the skipped nodes
  whose dependents are still to be looked at, so that "every dependent of a
  failed or skipped node is settled" holds of all nodes outside it.  None of the
  properties is inductive without that frontier.
- **engine** (`EInv`): the place in the loop fixes what the walker may be doing
  (idle, one node running, in a cascade), and a node succeeded exactly when its
  output is recorded; hence the outputs of all transitive needs are there.
- **engine's stream** (`StreamInv`, `SkipInv`): the stream tells the state of every
  node but the one at hand and those of the cascade in progress that are not yet
  reported (`NodesTold`, `CurrentTold`, `SkipsFresh`); the lists of RunFinished are the
  stream's, in order (`RunTold`).  A skipped node not yet reported has a need that
  is reported or stands before it in the list (`SkipsExplicable`, `EarlierReached`):
  breadth-first order is what makes `EngineExplains` true.
- **agent loop** (`AInv`): each loop by itself (`LoopOK`) and every pair of loops with
  listed delegations between them (`Inherits`: the inner one allows no effect the
  outer one does not, and its depth cap is smaller by at least the distance).  The
  pairs are needed because the gates only see the innermost policy.  Nothing is
  assumed of what the model calls: an agent that is not listed is entered all the
  same, so the properties say what holds through listed ones (`Listed`), from each
  loop of the stack on.  `AgentDepth` and `AgentRecursion` need a depth cap below the
  largest u32 (`Composed`).
- **node memory** (`StoreInv`, `LoopsInv`): the LRU list holds no source twice, or
  the one pushed out could still be in it (`Distinct`); a history is a tail of what
  was said, counted from the end (`Tails`), and the least cut that fits exists
  because a set of naturals has a least element, and by its minimality it keeps
  two messages; a loop's record is in order by itself (`Loop`), and every action
  touches at most the last two loops.
- **run command** (`ServerInv`, `BundleInv`, `FrameInv`): what the place in `run()`
  implies for the clients (`ClientsFitPc`) and their order (`InOrder`); the latest
  event about a server tells its client's state (`Told`); the latch is up if any
  event was lost (`LatchTells`); what was said so far fits the place (`SaidFits`).
  No list is reasoned about by induction: appending one event keeps each.
- **side effects** (`FetchInv`, `TransportInv`, `FilesInv`): a host about to be asked
  was judged, and one that waits has passed the earlier parts (`NextJudged`);
  a request under way has failed transiently only, with an attempt left
  (`InFlight`); a call past the jail works on a place of the root, or on one behind
  a link of the root where nothing was before the run, and a file
  differs from the start only by an answered call (`CallsInOrder`, `ChangedByOk`).
  Each is proved of its own actions and carried over to the composition.

- **agent loop's stream and budget** (`StepShapes`): every
  action is one of a few moves of the stack: the top changes in place, a loop is
  pushed, or one is popped.  The open events are those the loops' places imply,
  outermost first; the tokens of a loop are what it and the loop it waits for have
  spent.  `AgentBudget` asks that loops nest at most two deep (`Depth <= 1`), and
  `AgentBudgetCapped` derives that from depth caps of at most one; without it the property is
  false (`grandchild_tokens`, section 6).
- **progress** (`Advances`, `LoopAdvances`): both loops decrease a variant, compared
  lexicographically.  For a run it is the number of nodes not settled, then the
  places of Engine::run still ahead, then the queue of the cascade.  For a stack of
  loops it is a word with one letter per loop, outermost first: the iterations left,
  the stage within the iteration, the calls of the batch left, and whether the first of
  them has begun.  A child that
  returns takes a call from its parent's batch, so whatever the child did, a letter
  further out has decreased.  Letters are bounded (`AgentTypes`: no iteration beyond
  `max_iterations`), and words grow only within the depth cap of the loop that calls.
- **variables of a run** (`InputsInv`): what a name is bound to changes with each line
  that binds it in the namespace the line goes to, so after a list of lines, and
  after a list of files, the last one that gives a value decides (`LastWins`,
  `LinesGive`, `FilesGive`).
- **side effects, over time** (`TextsInv`, `ChildInv`, `TapeInv`): a file, and what a call
  has staged or read, is in every set of texts that holds the given ones and is
  closed under the edits of the calls; the bytes a child
  wrote are those captured, dropped beyond the cap and still in the pipe, in this
  order; the tape is a list of the answers and the replay has consumed a prefix.

- **record and replay** (`Inv` of `RecordReplayProofs`): a conversation has a place
  for every request and every call, ordered by node and position, and a tape
  lists what was logged at these places from a cursor on, without its end if the
  bundle was cut (`Lists`).  A replay is on its track, its conversations the
  recorded ones masked and the cursor where it stands, or it has left the track at
  a node that is not `Replayable`; then it has failed, or its next request begins
  with a text that no tape holds, or the recording itself was not `Clean`
  (`Track`, `Off`).  That gives `RecordingIsFollowed`.  It is not enough for
  `ReplayIsFaithful`: off its track a replay takes entries in any order, and could
  end well on other nodes' answers.  So the invariant also counts (`Paid`, `Served`):
  each entry is taken once, each node of the replay that ended well took the last
  entry of a recorded node that did, and each of its calls a recorded call.  When
  all ended well the two runs have as many nodes and calls, everything recorded
  was used, and the recording was `Clean`, which contradicts leaving the track.
  Counting compares finite sets by an injection, so no induction is needed.
  The theorem has the hypothesis `Plain`: no model answers with the placeholder
  that `scrub_pipeline_secrets` writes (`<REDACTED>`).  Without it the property is
  false: let node 1 ask by a scrubbed var and be answered `<REDACTED>`, and let node
  2 ask by node 1's output and be answered the text of the var; in the replay each
  takes the other's entry, and all end well.

An absolute depth is compared with a cap that becomes smaller at every
level, so a cap of k on the node's agent lets listed subagents nest (k + 1) / 2 deep:
`AgentDepth` proves it, of every loop of the stack as the outermost.

Only model-checked: liveness (`RunSettles`, `LoopSettles`, `RunReturns`,
`ChildReturns`), out of the prover's reach, though of the first two the safety half
is proved: the variants decrease (`EngineAdvances`, `AgentAdvances`), so what TLC
adds is that a step is always possible, and taken, until the end.  So is
`BudgetCoversSubtree` beyond depth one, where it is false.  Every other property of
a passing run is stated by a theorem.

## 6. Where code and documentation disagree

Each of these is a run that TLC must find violated, and a finding in
`PROJECT.json` with the quoted line.

| Run | The code | What it contradicts |
| --- | --- | --- |
| `grandchild_tokens` | charges tokens one level up and no further | the comment that calls the chain recursive |
| `replay_state` | answers SetState from the tape, so that the node's state stays empty on a replay that ends ok | docs/explanation/strict-agentic-loops.md: reproduces or fails loudly |
| `replay_order` | registers a replay's MCP stubs agent by agent, the recording its handlers server by server: the request holds the tools in another order, and its key is not on the tape | the comment that the tools byte-equal what was recorded |

Read while modelling, without a run of their own:

- When a character ends exactly at the cap of a captured output, its lead byte is
  kept and the rest dropped (shell.rs:344), against the comment on read_capped
  (shell.rs:312); `OutputComplete` allows for the lost bytes.
- A server's name may hold a dot, against docs/reference/pipeline-yaml.md:191, and
  then its wire names are read as another server's (section 5).
- Siblings that become ready together run last first (walker.rs:192), against the
  comments on ties; the cycle error may name a node only behind a cycle
  (walker.rs:132); the context records the output of a node whose payload failed,
  against context.rs:73-75, and every node that could read it is skipped, against
  dispatch.rs:181-183.
- A stream ends without RunFinished when `vars:` do not render, when the engine
  or the expansion of tool lists returns an error, or when a flush fails; then the MCP
  servers are not drained either.  McpServer* events come before RunStarted and
  after RunFinished, and `seq` starts at 1, against docs/reference/events.md.
- A tool or a subagent that is registered runs though its agent does not list it:
  handlers are registered for every agent (run/agent.rs:166-174), and the loop only
  refuses names without a handler (run.rs:446-479, 504).  docs/security.md:26,
  docs/reference/tools.md:22 and :182 and docs/explanation/strict-agentic-loops.md:33 say
  that such a call is terminal.  So a subagent may have effects that a loop waiting
  for it forbids, more depth than was left, or be the agent that calls it: the
  properties of `agent_delegation` and their theorems are about listed agents only.
- The process exits with an error when a node failed (`ExitZeroMeansAll`), against
  docs/reference/exit-codes.md:12-14, where it exits 0, and the reference to it in
  docs/reference/events.md:481.
- MCP servers start and drain in the order of their names, `mcp_servers` being a
  BTreeMap (schema.rs:41), against the comments on declaration order
  (run/mod.rs:62, 327, 589).  A server that dies during the run causes no
  McpServerCrashed, which is emitted for a server that fails to start only
  (run/mod.rs:390), against docs/reference/events.md:400 and :406-408 and
  docs/reference/errors.md:100; its calls fail, and it is drained like the others
  (`ServersLiveInOrder`).
- Events are written to stdout on the spot (streaming_sink.rs:112-116): a consumer
  that stops reading and leaves the pipe open holds up the whole run, its timeouts
  and its Ctrl-C, and no document says so (`RunReturns` excepts it).
- Host names are resolved by the gate before a fetch (policy.rs:292) and by the handler
  before every redirect, and refused where an address is private (`EveryHopJudged`).
  docs/security.md:124 and :129 say that names which resolve to a private address are not
  blocked and that there is no check when names are resolved; docs/reference/tools.md:100
  says that redirects are those of reqwest's default.
- For `secrets.*` a `--secrets-file` goes before the process environment
  (`InputsByPrecedence`, and secrets.rs:19-20), against docs/reference/pipeline-yaml.md:81-86,
  where the environment has the highest precedence.
- The jail does not follow links for a path that does not exist yet
  (path_guard.rs:66-91): Write makes a file, and its directories, behind a
  link of the root that leads out of it (write.rs:75-104), against
  path_guard.rs:10-13 ("symlink-safe").  `RefusedLeavesNothing` allows for new places
  behind such a link, and for nothing else outside of the root.
- An agent that lists an MCP tool its server does not have is accepted by
  `orno validate`, which starts no server, against docs/reference/pipeline-yaml.md:166; its loop
  refuses to start (`ValidatedStarts`).
- A SetState that makes the state too large ends the loop (StateTooLarge is terminal),
  against docs/how-to/scope-state-across-nodes.md:149 and :213; its rollback is as the
  documents have it (`StateIsWhatWasAcked`).
- A recorded handler does not say that it needs roots (tool/mod.rs:200-202, not passed on
  by tool/record.rs and tool/replay.rs), so with `--record` an agent with file tools and
  no roots starts, and each call is denied by the jail instead.
- A timeout leaves a request without a terminal event, against the comment on
  pairing (run.rs:340-345).  A parse error is forgiven per call id, against the docs.  A cap of
  u32::MAX is accepted under one of u32::MAX.  A subagent's token cap is not cut
  to what its parent has left.  Evicting history may leave a tool result whose
  call is gone.
- Replay denies Write, Bash, WebFetch, shell nodes and MCP tools with effects that
  ran in the recording; a soft tool error is terminal on replay; templates over
  secrets and env do not render; a bearer token spelt out scrubs every
  credential-like literal of the bundle; a tool call's key is made of unredacted
  arguments.  A bundle cut at a line boundary is accepted.  The bundle takes the
  YAML as it is after the run.
- WebFetch's handler is built with empty domain lists by `orno run`, so that an
  agent's lists apply to the first URL only.  The jail tests whether a path
  exists from the working directory and only uses the first root.
- failure.rs:119 and error.rs:172 say that v0.1 does not retry; it does.  A status
  code inside a web-layer error becomes a transport failure, against failure.rs.
  Usage without a total charges nothing.
- secrets.rs:2-3 speaks of disjoint namespaces; a name in both `pass_env` and
  `secrets` is in both, and unredacted where a file shadows it.
- `orno run` does not run the checks of `orno validate`; `mcp.a.b.*` passes them and
  expands to nothing; `orno plan` calls sums a ceiling that leave out subagents.

## 7. Not modelled

- `plan`, `schema` and `completions`: read-only projections of a loaded pipeline,
  without state.  Configuration, telemetry and argument parsing: constants and
  set-up.
- Libraries, modelled by how they are used: YAML, minijinja (a rendering succeeds
  or fails), the genai client (replies and failures), rmcp (a handshake or a
  call returns, fails or hangs), reqwest, the dotenv dialect, SHA-256 (equal texts
  have equal keys).
- In modelled parts: JSON shapes of requests, events and template contexts, the
  matching inside the redactor, MCP over HTTP and its headers, argv and
  environment of children, the in-memory sink and the dummy transport of the
  tests, `Context::merge`, which has no caller.
- The file that changes between load and bundle: `RunCommand` has no file system.

## 8. Plan

1. Graph, cycle check, abstract run, walker, engine, agent policy and loop, with
   proofs: done.
2. Loader, template cache, node memory, tapes, run command and MCP, children,
   files, fetches, requests, inputs: done, model-checked.
3. Proofs of node memory, run command, side effects, loader, the streams of engine
   and agent loop, record and replay, tool lists of a run and its replay, variables
   of a run, progress of engine and agent loop: done.
4. What remains: the same variant for `RunCommand`, whose servers and consumer make
   it longer; `AgentBudget` for nesting of any depth in the form the code does give (a
   loop's tokens cover its own responses and its children's), and the parts
   of the scheduler and the shell executor that the map covers least.

----------------------------- MODULE NodeMemory -----------------------------
(***************************************************************************)
(* What a node reads and what it leaves behind: its templates rendered     *)
(* against the outputs of earlier nodes, the message history its loop and  *)
(* the subagents' loops send with every request, cut to a byte cap, the    *)
(* state buffer SetState writes, and the output recorded at the end.       *)
(* Sizes stand for bytes; what a message says is left out.                 *)
(***************************************************************************)
EXTENDS TemplateCache

CONSTANTS Nodes,        \* number of agent nodes, run in order
          Sources,      \* the templates of the vars (0) and of every node
          Reads,        \* the state keys of earlier nodes each source reads
          Keys,         \* keys SetState accepts
          BadKeys,      \* keys it refuses
          Sizes,        \* sizes of tool outputs and of state values
          StateCap,     \* max_bytes of SetState
          ToolCap,      \* max_tool_output_bytes
          HistoryCap,   \* max_message_history_bytes
          MaxIterations, MaxCalls, MaxDepth   \* bounds of the policies

NoState == [k \in Keys |-> 0]

StateSize(b) == FoldLeft(LAMBDA sum, k : sum + b[k], 0, SetToSeq(Keys))

ASSUME MemoryAssumption ==
  /\ Nodes \in Nat /\ Sources \in [0 .. Nodes -> Seq(DOMAIN Reads)]
  /\ StateSize(NoState) <= StateCap
  /\ Sizes \subseteq Nat \ {0}
  /\ {StateCap, ToolCap, HistoryCap, MaxIterations, MaxCalls, MaxDepth} \subseteq Nat

VARIABLES node,      \* 0 while the vars are rendered, then the node at hand
          todo,      \* the sources still to render
          store,     \* the template engine
          loops,     \* the loops in progress, the node's own first
          context,   \* the state recorded for each node, if any
          told       \* for each node, what its loop was told it had written

memory == <<node, todo, store, loops, context, told>>

\* A loop: the history it sends, how many results it waits for, its turn and
\* its state buffer, 0 for a key it does not hold.  said and acked are not
\* in the code: all the messages so far, and what the calls answered `ok` wrote.
Fresh == [messages |-> <<>>, said |-> <<>>, awaits |-> 0, turn |-> 0,
          buffer |-> NoState, acked |-> NoState]

MemoryInit ==
  /\ node = 0 /\ todo = Sources[0]
  /\ store = EmptyStore
  /\ loops = <<>>
  /\ context = [n \in 1 .. Nodes |-> {}]
  /\ told = [n \in 1 .. Nodes |-> {}]

Rendering == node <= Nodes /\ loops = <<>>

Sized(ms) == FoldLeft(LAMBDA sum, m : sum + m.size, 0, ms)

-----------------------------------------------------------------------------
\* Templates.  The vars see no node; a node's templates see what is recorded.
Defined(s) == \A r \in Reads[s] : \E b \in context[r.node] : b[r.key] > 0

GoTo(n) == node' = n /\ todo' = IF n <= Nodes THEN Sources[n] ELSE <<>>

\* A source renders, or the node fails (for the vars, the run does).
RenderNext ==
  /\ Rendering /\ todo # <<>>
  /\ LET s == Head(todo) IN
       /\ store' = Looked(store, s)
       /\ IF Compiles(s) /\ Defined(s) THEN todo' = Tail(todo) /\ UNCHANGED node
          ELSE GoTo(IF node = 0 THEN Nodes + 1 ELSE node + 1)
  /\ UNCHANGED <<loops, context, told>>

VarsRendered ==
  /\ Rendering /\ todo = <<>> /\ node = 0
  /\ GoTo(1)
  /\ UNCHANGED <<store, loops, context, told>>

\* The request is complete: the executor enters the node's loop at depth 0.
Execute ==
  /\ Rendering /\ todo = <<>> /\ node > 0
  /\ loops' = <<Fresh>>
  /\ UNCHANGED <<node, todo, store, context, told>>

-----------------------------------------------------------------------------
top == Last(loops)

WithTop(l) == [loops EXCEPT ![Len(loops)] = l]

\* Mutant: messages go while the total is over the cap, down to the last one.
CappedToOne(ms) ==
  IF Sized(ms) <= HistoryCap THEN ms
  ELSE LET k == Min({i \in 0 .. Len(ms) :
                       Len(ms) - i <= 1 \/ Sized(SubSeq(ms, i + 1, Len(ms))) <= HistoryCap})
       IN  SubSeq(ms, k + 1, Len(ms))

\* enforce_message_history_cap: the oldest messages go until the total fits,
\* but the last two stay.
Capped(ms) ==
  IF Sized(ms) <= HistoryCap THEN ms
  ELSE LET k == Min({i \in 0 .. Len(ms) :
                       Len(ms) - i <= 2 \/ Sized(SubSeq(ms, i + 1, Len(ms))) <= HistoryCap})
       IN  SubSeq(ms, k + 1, Len(ms))

Pushed(l, m) == [l EXCEPT !.messages = Capped(Append(@, m)), !.said = Append(@, m)]

\* truncate_tool_output: cut at a character boundary at or below the cap.
Truncations(size) == IF size <= ToolCap THEN {size} ELSE {ToolCap, ToolCap + 1}

\* The result of the call at hand is pushed.
Answered(l, size) ==
  Pushed([l EXCEPT !.awaits = @ - 1], [kind |-> "result", turn |-> l.turn, size |-> size])

\* The loop on top ends: a child's answer is its parent's result; the node's
\* own leaves an output, with a state if a call wrote one, or the node fails.
Leave(ok, size) ==
  IF Len(loops) > 1
  THEN /\ loops' = [i \in 1 .. Len(loops) - 1 |->
                      IF i = Len(loops) - 1 THEN Answered(loops[i], size) ELSE loops[i]]
       /\ UNCHANGED <<node, todo, context, told>>
  ELSE /\ loops' = <<>>
       /\ GoTo(node + 1)
       /\ IF ok /\ top.buffer # NoState THEN context' = [context EXCEPT ![node] = {top.buffer}]
                                        ELSE UNCHANGED context
       /\ IF ok /\ top.acked # NoState THEN told' = [told EXCEPT ![node] = {top.acked}]
                                       ELSE UNCHANGED told

Waiting == loops # <<>> /\ top.awaits = 0

\* The model answers with calls ...
CallTools(n) ==
  /\ Waiting /\ top.turn < MaxIterations
  /\ loops' = WithTop(Pushed([top EXCEPT !.awaits = n, !.turn = @ + 1],
                             [kind |-> "calls", turn |-> top.turn + 1, size |-> n]))
  /\ UNCHANGED <<node, todo, store, context, told>>

\* ... or with its final text, or the request fails, or no turn is left.
Finish(ok) ==
  /\ Waiting
  /\ ok => top.turn < MaxIterations
  /\ \E size \in Sizes : Leave(ok, size)
  /\ UNCHANGED store

Handling == loops # <<>> /\ top.awaits > 0

OtherTool(size) ==
  /\ Handling
  /\ \E s \in Truncations(size) : loops' = WithTop(Answered(top, s))
  /\ UNCHANGED <<node, todo, store, context, told>>

\* A subagent starts with a history and a buffer of its own.
Delegate ==
  /\ Handling /\ Len(loops) <= MaxDepth
  /\ loops' = Append(loops, Fresh)
  /\ UNCHANGED <<node, todo, store, context, told>>

\* Mutant: the rollback forgets the value that was there.
RolledBackRemoves(before, key) == [before EXCEPT ![key] = 0]

\* The rollback after the whole tree was measured.
RolledBack(before, key) == before

\* SetStateHandler::invoke: a key of the wrong form is a parse error, answered
\* when it is forgiven (CallFails when it is not); a tree over the cap is
\* restored, and its error leaves the loop nothing but to fail.
SetState(key, size) ==
  /\ Handling
  /\ LET next == [top.buffer EXCEPT ![key] = size] IN
       loops' = WithTop(
         IF key \in BadKeys THEN Answered(top, 1)
         ELSE IF StateSize(next) <= StateCap
         THEN Answered([top EXCEPT !.buffer = next, !.acked[key] = size], 1)
         ELSE [top EXCEPT !.buffer = RolledBack(@, key), !.awaits = 0, !.turn = MaxIterations])
  /\ UNCHANGED <<node, todo, store, context, told>>

\* A call ends the loop with an error: a tool's own, a budget, an unknown name.
CallFails ==
  /\ Handling
  /\ \E size \in Sizes : Leave(FALSE, size)
  /\ UNCHANGED store

RunOver == node > Nodes /\ UNCHANGED memory

MemoryStep ==
  \/ RenderNext \/ VarsRendered \/ Execute \/ Delegate \/ CallFails
  \/ \E n \in 1 .. MaxCalls : CallTools(n)
  \/ \E ok \in BOOLEAN : Finish(ok)
  \/ \E size \in Sizes : OtherTool(size)
  \/ \E key \in Keys \cup BadKeys, size \in Sizes : SetState(key, size)

MemoryNext == MemoryStep \/ RunOver

MemorySpec == MemoryInit /\ [][MemoryNext]_memory

-----------------------------------------------------------------------------
\* The environment holds exactly the cached templates, and no more of them
\* than the cache has room for, however many sources come and go.
CompiledIsCached ==
  /\ store.compiled = ToSet(store.lru)
  /\ Len(store.lru) <= Capacity

\* What a loop sends is the end of what was said, and holds the two latest
\* messages; more than those only as long as they fit the cap.
HistoryIsRecent ==
  \A i \in DOMAIN loops :
    LET l == loops[i] IN
      /\ IsSuffix(l.messages, l.said)
      /\ Len(l.messages) >= 2 \/ l.messages = l.said
      /\ Len(l.messages) > 2 => Sized(l.messages) <= HistoryCap

\* A buffer never holds more than its cap, and holds what its own loop was
\* told it wrote: no less after a write was undone, nothing a subagent wrote.
\* What later nodes read of a node is what its loop was told, too; a node
\* that failed, or wrote nothing, leaves nothing.
StateIsWhatWasAcked ==
  /\ \A i \in DOMAIN loops :
       loops[i].buffer = loops[i].acked /\ StateSize(loops[i].buffer) <= StateCap
  /\ context = told
=============================================================================

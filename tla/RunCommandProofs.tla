--------------------------- MODULE RunCommandProofs ---------------------------
(***************************************************************************)
(* The safety properties of orno run for any number of servers and calls.  *)
(* One invariant says what the control point implies for the clients, one  *)
(* what the event stream tells of them, one how the stream is framed, one  *)
(* what is flushed, assembled and written when run() returns.              *)
(***************************************************************************)
EXTENDS RunCommand, TLAPS

CallTypes == {"call_sent", "call_completed"}

EventTypes == CallTypes \cup
  {"starting", "ready", "crashed", "draining", "gone", "run_started", "run_finished"}

Event == [type : EventTypes, server : Nat, written : BOOLEAN]

ClientStates == {"none", "pending", "connected", "draining", "disconnected", "discarded"}

Streams == [up : BOOLEAN, stalled : BOOLEAN, faults : {0, 1}]

Types ==
  /\ client \in [Servers -> ClientStates]
  /\ log \in Seq(Event)
  /\ stdout \in Streams
  /\ broken \in BOOLEAN /\ ok \in BOOLEAN /\ bundle \in BOOLEAN
  /\ tape \in [llm : {"open", "flushed"}, tool : {"open", "flushed"}]

LEMMA InitTypes == Init => Types
<1> SUFFICES ASSUME Init PROVE Types
  OBVIOUS
<1>1. client \in [Servers -> ClientStates] /\ log \in Seq(Event)
  BY DEF Init, ClientStates
<1>2. stdout \in Streams /\ tape \in [llm : {"open", "flushed"}, tool : {"open", "flushed"}]
  BY DEF Init, Streams
<1>3. broken \in BOOLEAN /\ ok \in BOOLEAN /\ bundle \in BOOLEAN
  BY DEF Init
<1> QED
  BY <1>1, <1>2, <1>3 DEF Types

LEMMA RecordTypes ==
  ASSUME Types, NEW type \in EventTypes, NEW s \in Nat, Record(type, s)
  PROVE  log' \in Seq(Event) /\ broken' \in BOOLEAN
BY DEF Types, Record, Event, Streams

LEMMA ServersAreNat == \A s \in Servers : s \in Nat
BY DEF Servers

\* What a step of the clients does: one client changes, one event is said.
LEMMA ClientStepTypes ==
  ASSUME Types, NEW s \in Servers,
         StartServer(s) \/ Handshake(s) \/ InitFails(s) \/ Shutdown(s) \/ ShutDown(s)
  PROVE  Types'
<1>1. s \in Nat
  BY ServersAreNat
<1>2. /\ client' \in [Servers -> ClientStates]
      /\ UNCHANGED <<stdout, ok, bundle, tape>>
  BY DEF Types, ClientStates, StartServer, Handshake, InitFails, Shutdown, ShutDown, Goto
<1>3. \E type \in EventTypes : Record(type, s)
  <2>1. {"starting", "ready", "crashed", "draining", "gone"} \subseteq EventTypes
    BY DEF EventTypes
  <2>2. Record("starting", s) \/ Record("ready", s) \/ Record("crashed", s) \/ Record("draining", s) \/ Record("gone", s)
    BY Zenon DEF StartServer, Handshake, InitFails, Shutdown, ShutDown
  <2> QED
    BY <2>1, <2>2, Zenon
<1>4. log' \in Seq(Event) /\ broken' \in BOOLEAN
  BY <1>1, <1>3, RecordTypes
<1> QED
  BY <1>2, <1>4 DEF Types

\* The other steps that say something.
Says(s) == CallTool(s) \/ CallReturns(s) \/ CallTimesOut(s)

Tells == RunStarted \/ (\E outcome \in BOOLEAN : EngineReturns(outcome)) \/ Interrupted \/ InitFailure

\* The consumer of the stream does something.
StdoutTurns == StdoutFails \/ StdoutRecovers \/ StdoutStalls \/ StdoutResumes

\* The steps that say nothing.
Silent ==
  \/ Setup \/ SetupFails \/ Spawned \/ ExpandFails \/ EngineFails \/ NodeTimesOut \/ Killed
  \/ FlushLlm \/ FlushTool \/ Assemble \/ FlushFails \/ FlushSigint
  \/ Finalize \/ InterruptedExit \/ InitExit
  \/ StdoutTurns \/ Returned
  \/ \E s \in Servers : SpawnChild(s) \/ ServerDies(s)

ClientStep ==
  \E s \in Servers : StartServer(s) \/ Handshake(s) \/ InitFails(s) \/ Shutdown(s) \/ ShutDown(s)

LEMMA StepKinds ==
  [Next]_vars => ClientStep \/ (\E s \in Servers : Says(s)) \/ Tells \/ Silent \/ UNCHANGED vars
BY DEF Next, Program, Outside, ClientStep, Says, Tells, Silent, StdoutTurns

LEMMA SayingTypes ==
  ASSUME Types, (\E s \in Servers : Says(s)) \/ Tells
  PROVE  Types' /\ client' = client
<1>1. log' \in Seq(Event) /\ broken' \in BOOLEAN
  <2>0. {"call_sent", "call_completed", "run_started", "run_finished"} \subseteq EventTypes
    BY DEF EventTypes, CallTypes
  <2>1. ASSUME NEW s \in Servers, Says(s) PROVE \E type \in EventTypes : Record(type, s)
    <3>1. Record("call_sent", s) \/ Record("call_completed", s)
      BY <2>1, Zenon DEF Says, CallTool, CallReturns, CallTimesOut
    <3> QED
      BY <2>0, <3>1, Zenon
  <2>2. CASE Tells
    <3>1. \E type \in {"run_started", "run_finished"} : Record(type, 0)
      BY <2>2, Zenon DEF Tells, RunStarted, EngineReturns, Interrupted, InitFailure
    <3>2. 0 \in Nat
      OBVIOUS
    <3> QED
      BY <2>0, <3>1, <3>2, RecordTypes
  <2> QED
    BY <2>1, <2>2, ServersAreNat, RecordTypes
<1>2. UNCHANGED <<client, stdout, bundle, tape>> /\ ok' \in BOOLEAN
  BY DEF Types, Says, CallTool, CallReturns, CallTimesOut,
         Tells, RunStarted, EngineReturns, Interrupted, InitFailure, Goto
<1> QED
  BY <1>1, <1>2 DEF Types

LEMMA SilentTypes ==
  ASSUME Types, Silent \/ UNCHANGED vars
  PROVE  Types' /\ client' = client /\ log' = log /\ broken' = broken
<1> USE DEF Types
<1>1. CASE Setup \/ SetupFails \/ Spawned \/ ExpandFails \/ EngineFails \/ NodeTimesOut \/ Killed
  BY <1>1 DEF Setup, SetupFails, Spawned, ExpandFails, EngineFails, NodeTimesOut, Killed, Goto, Exit, Quiet
<1>2. CASE FlushLlm \/ FlushTool \/ Assemble \/ FlushFails \/ FlushSigint
  BY <1>2 DEF FlushLlm, FlushTool, Assemble, FlushFails, FlushSigint, Goto, Exit, Quiet
<1>3. CASE Finalize \/ InterruptedExit \/ InitExit \/ Returned \/ UNCHANGED vars
  BY <1>3 DEF Finalize, InterruptedExit, InitExit, Returned, Exit, Quiet, vars
<1>4. CASE StdoutTurns \/ \E s \in Servers : SpawnChild(s) \/ ServerDies(s)
  <2>2. CASE StdoutTurns
    <3>1. stdout' \in Streams
      <4>1. CASE StdoutFails
        BY <4>1 DEF StdoutFails, Streams
      <4>2. CASE StdoutRecovers \/ StdoutStalls \/ StdoutResumes
        BY <4>2 DEF StdoutRecovers, StdoutStalls, StdoutResumes, Streams
      <4> QED
        BY <2>2, <4>1, <4>2 DEF StdoutTurns
    <3> QED
      BY <2>2, <3>1 DEF StdoutTurns, StdoutFails, StdoutRecovers, StdoutStalls, StdoutResumes
  <2>3. CASE \E s \in Servers : SpawnChild(s) \/ ServerDies(s)
    BY <2>3 DEF SpawnChild, ServerDies, Goto, Quiet
  <2> QED
    BY <1>4, <2>2, <2>3
<1> QED
  BY <1>1, <1>2, <1>3, <1>4 DEF Silent

-----------------------------------------------------------------------------
(* The clients.                                                            *)

ClientsFitPc ==
  /\ pc = "setup" => \A s \in Servers : client[s] = "none"
  /\ pc = "spawn" => \A s \in Servers : client[s] \in {"none", "pending", "connected"}
  /\ pc \notin {"spawn", "exit"} => \A s \in Servers : client[s] # "pending"

\* Servers start one after another: whoever is under way has only servers that
\* were connected before it.
InOrder ==
  \A s \in Servers : client[s] \in {"pending", "connected", "draining"} =>
    \A r \in 1 .. s - 1 : client[r] \in {"connected", "draining", "disconnected"}

Clients == ClientsFitPc /\ InOrder

LEMMA InitClients == Init => Clients
BY DEF Init, Clients, ClientsFitPc, InOrder

LEMMA EarlierAreServers == \A s \in Servers : 1 .. s - 1 \subseteq Servers /\ s \in Nat
BY CountAssumption DEF Servers

LEMMA ClientStepClients ==
  ASSUME Types, Clients, NEW s \in Servers,
         StartServer(s) \/ Handshake(s) \/ InitFails(s) \/ Shutdown(s) \/ ShutDown(s)
  PROVE  Clients'
<1> USE EarlierAreServers DEF Types, Clients, ClientsFitPc, InOrder
<1>1. CASE StartServer(s)
  <2>1. \A r \in 1 .. s - 1 : client[r] = "connected"
    BY <1>1 DEF StartServer, Fresh, Pending
  <2>2. \A t \in Servers : s \in 1 .. t - 1 => client[t] \notin {"pending", "connected", "draining"}
    BY <1>1 DEF StartServer, Fresh
  <2> QED
    BY <1>1, <2>1, <2>2 DEF StartServer, Goto
<1>2. CASE Handshake(s)
  BY <1>2 DEF Handshake, Pending, Goto
<1>3. CASE InitFails(s)
  <2>1. \A t \in Servers : s \in 1 .. t - 1 => client[t] \notin {"pending", "connected", "draining"}
    BY <1>3 DEF InitFails, Pending
  <2>2. \A r \in 1 .. s - 1 : client[r] # "pending"
    BY <1>3 DEF InitFails, Pending
  <2>3. \A t \in Servers : t = s \/ t \in 1 .. s - 1 \/ s \in 1 .. t - 1
    BY DEF Servers
  <2>4. \A t \in Servers : t # s => client[t] # "pending"
    BY <2>1, <2>2, <2>3
  <2> QED
    BY <1>3, <2>1, <2>4 DEF InitFails, Pending, Goto
<1>4. CASE Shutdown(s) \/ ShutDown(s)
  BY <1>4 DEF Shutdown, ShutDown, NextToDrain, Draining, Drains, Goto
<1> QED
  BY <1>1, <1>2, <1>3, <1>4

LEMMA OtherStepClients ==
  ASSUME Types, Clients, (\E s \in Servers : Says(s)) \/ Tells \/ Silent \/ UNCHANGED vars
  PROVE  Clients'
<1>1. client' = client
  BY SayingTypes, SilentTypes
<1>2. InOrder'
  BY <1>1 DEF Clients, InOrder
<1>3. ClientsFitPc'
  <2> USE <1>1 DEF Clients, ClientsFitPc
  <2>1. CASE (\E s \in Servers : Says(s)) \/ Tells
    BY <2>1 DEF Says, CallTool, CallReturns, CallTimesOut, InEngine,
                Tells, RunStarted, EngineReturns, Interrupted, InitFailure, Goto
  <2>2. CASE Setup \/ SetupFails \/ Spawned \/ ExpandFails \/ EngineFails \/ NodeTimesOut \/ Killed
    BY <2>2 DEF Setup, SetupFails, Spawned, ExpandFails, EngineFails, NodeTimesOut, Killed, InEngine,
                Pending, Fresh, Goto, Exit
  <2>3. CASE FlushLlm \/ FlushTool \/ Assemble \/ FlushFails \/ FlushSigint
    BY <2>3 DEF FlushLlm, FlushTool, Assemble, FlushFails, FlushSigint, Goto, Exit
  <2>4. CASE Finalize \/ InterruptedExit \/ InitExit \/ Returned \/ UNCHANGED vars
    BY <2>4 DEF Finalize, InterruptedExit, InitExit, Returned, Exit, vars
  <2>5. CASE StdoutTurns \/ \E s \in Servers : SpawnChild(s) \/ ServerDies(s)
    BY <2>5 DEF StdoutTurns, StdoutFails, StdoutRecovers, StdoutStalls, StdoutResumes, SpawnChild, ServerDies, Goto
  <2> QED
    BY <2>1, <2>2, <2>3, <2>4, <2>5 DEF Silent
<1> QED
  BY <1>2, <1>3 DEF Clients

-----------------------------------------------------------------------------
(* The event stream and the servers' lives.                                *)

Status == [none |-> "declared", pending |-> "starting", connected |-> "ready",
           draining |-> "draining", disconnected |-> "gone", discarded |-> "crashed"]

\* The events of a stream that StatusIn looks at, and the last of them.
About(stream, s) == {i \in 1 .. Len(stream) : stream[i].server = s /\ stream[i].type \notin CallTypes}

Latest(stream, s) ==
  About(stream, s) # {} => \E i \in About(stream, s) : \A j \in About(stream, s) : i >= j

LEMMA StatusInIs ==
  ASSUME NEW stream \in Seq(Event), NEW s, Latest(stream, s)
  PROVE  /\ About(stream, s) = {} => StatusIn(stream, s) = "declared"
         /\ \A i \in About(stream, s) :
              (\A j \in About(stream, s) : i >= j) => StatusIn(stream, s) = stream[i].type
<1> DEFINE k == SelectLastInSeq(stream, LAMBDA e : e.server = s /\ e.type \notin {"call_sent", "call_completed"})
<1>1. k = IF About(stream, s) # {} THEN Max(About(stream, s)) ELSE 0
  BY DEF SelectLastInSeq, About, CallTypes
<1>2. StatusIn(stream, s) = IF k = 0 THEN "declared" ELSE stream[k].type
  BY DEF StatusIn
<1> HIDE DEF k
<1>3. CASE About(stream, s) = {}
  BY <1>1, <1>2, <1>3
<1>4. ASSUME NEW i \in About(stream, s), \A j \in About(stream, s) : i >= j
      PROVE  StatusIn(stream, s) = stream[i].type
  <2>1. /\ Max(About(stream, s)) \in About(stream, s)
        /\ \A j \in About(stream, s) : Max(About(stream, s)) >= j
    BY <1>4 DEF Max
  <2>2. About(stream, s) \subseteq Nat \ {0}
    BY DEF About
  <2>3. k = i /\ k # 0
    BY <1>1, <1>4, <2>1, <2>2
  <2> QED
    BY <1>2, <2>3
<1> QED
  BY <1>3, <1>4

\* One event more.
LEMMA StatusInAppended ==
  ASSUME NEW stream \in Seq(Event), NEW e \in Event, NEW s, Latest(stream, s)
  PROVE  /\ Latest(Append(stream, e), s)
         /\ StatusIn(Append(stream, e), s) =
              IF e.server = s /\ e.type \notin CallTypes THEN e.type ELSE StatusIn(stream, s)
<1> DEFINE more == Append(stream, e)
<1>1. /\ more \in Seq(Event) /\ Len(more) = Len(stream) + 1 /\ Len(stream) \in Nat
      /\ more[Len(stream) + 1] = e
      /\ \A i \in 1 .. Len(stream) : more[i] = stream[i]
  OBVIOUS
<1> HIDE DEF more
<1>2. CASE e.server = s /\ e.type \notin CallTypes
  <2>1. /\ Len(stream) + 1 \in About(more, s)
        /\ \A j \in About(more, s) : Len(stream) + 1 >= j
    BY <1>1, <1>2 DEF About
  <2>2. Latest(more, s)
    BY <2>1 DEF Latest
  <2>3. StatusIn(more, s) = more[Len(stream) + 1].type
    BY <1>1, <2>1, <2>2, StatusInIs
  <2> QED
    BY <1>1, <1>2, <2>2, <2>3 DEF more
<1>3. CASE ~ (e.server = s /\ e.type \notin CallTypes)
  <2>1. About(more, s) = About(stream, s)
    <3>1. ASSUME NEW i \in About(more, s) PROVE i \in About(stream, s)
      <4>1. i # Len(stream) + 1
        BY <1>1, <1>3 DEF About
      <4>2. i \in 1 .. Len(stream)
        BY <1>1, <4>1 DEF About
      <4> QED
        BY <1>1, <4>2 DEF About
    <3>2. ASSUME NEW i \in About(stream, s) PROVE i \in About(more, s)
      BY <1>1 DEF About
    <3> QED
      BY <3>1, <3>2
  <2>2. Latest(more, s)
    BY <2>1 DEF Latest
  <2>3. CASE About(stream, s) = {}
    BY <1>1, <1>3, <2>1, <2>2, <2>3, StatusInIs DEF more
  <2>4. CASE About(stream, s) # {}
    <3>1. PICK i \in About(stream, s) : \A j \in About(stream, s) : i >= j
      BY <2>4 DEF Latest
    <3>2. StatusIn(stream, s) = stream[i].type
      BY <3>1, StatusInIs
    <3>3. StatusIn(more, s) = more[i].type
      BY <1>1, <2>1, <2>2, <3>1, StatusInIs
    <3>4. more[i] = stream[i]
      BY <1>1 DEF About
    <3> QED
      BY <1>3, <2>2, <3>2, <3>3, <3>4 DEF more
  <2> QED
    BY <2>3, <2>4
<1> QED
  BY <1>2, <1>3

\* The stream tells the state of every client.
Told == \A s \in Servers : Latest(log, s) /\ StatusIn(log, s) = Status[client[s]]

LEMMA InitTold == Init => Told
<1>0. SUFFICES ASSUME Init PROVE Told
  OBVIOUS
<1> SUFFICES ASSUME NEW s \in Servers PROVE Latest(log, s) /\ StatusIn(log, s) = "declared"
  <2>1. ASSUME NEW s \in Servers PROVE Status[client[s]] = "declared"
    <3>1. client[s] = "none"
      BY <1>0 DEF Init
    <3> QED
      BY <3>1 DEF Status
  <2> QED
    BY <2>1 DEF Told
<1>1. log = <<>> /\ log \in Seq(Event)
  BY <1>0 DEF Init
<1>2. About(log, s) = {}
  BY <1>1 DEF About
<1>3. Latest(log, s)
  BY <1>2 DEF Latest
<1> QED
  BY <1>1, <1>2, <1>3, StatusInIs

\* A step of a client says the state the client is in after it.
LEMMA ClientStepTold ==
  ASSUME Types, Told, NEW s \in Servers,
         StartServer(s) \/ Handshake(s) \/ InitFails(s) \/ Shutdown(s) \/ ShutDown(s)
  PROVE  Told'
<1>1. PICK c \in ClientStates \ {"none"} : client' = [client EXCEPT ![s] = c] /\ Record(Status[c], s)
  <2>1. CASE StartServer(s)
    <3>1. "pending" \in ClientStates \ {"none"} /\ Status["pending"] = "starting"
      BY DEF ClientStates, Status
    <3> QED
      BY <2>1, <3>1 DEF StartServer
  <2>2. CASE Handshake(s)
    <3>1. "connected" \in ClientStates \ {"none"} /\ Status["connected"] = "ready"
      BY DEF ClientStates, Status
    <3> QED
      BY <2>2, <3>1 DEF Handshake
  <2>3. CASE InitFails(s)
    <3>1. "discarded" \in ClientStates \ {"none"} /\ Status["discarded"] = "crashed"
      BY DEF ClientStates, Status
    <3> QED
      BY <2>3, <3>1 DEF InitFails
  <2>4. CASE Shutdown(s)
    <3>1. "draining" \in ClientStates \ {"none"} /\ Status["draining"] = "draining"
      BY DEF ClientStates, Status
    <3> QED
      BY <2>4, <3>1 DEF Shutdown
  <2>5. CASE ShutDown(s)
    <3>1. "disconnected" \in ClientStates \ {"none"} /\ Status["disconnected"] = "gone"
      BY DEF ClientStates, Status
    <3> QED
      BY <2>5, <3>1 DEF ShutDown
  <2> QED
    BY <2>1, <2>2, <2>3, <2>4, <2>5
<1>2. Status[c] \in EventTypes \ CallTypes
  BY DEF ClientStates, Status, EventTypes, CallTypes
<1> DEFINE e == [type |-> Status[c], server |-> s, written |-> stdout.up]
<1>3. log' = Append(log, e) /\ log \in Seq(Event) /\ client \in [Servers -> ClientStates]
  BY <1>1 DEF Record, Types
<1>4. e \in Event /\ e.server = s /\ e.type = Status[c]
  BY <1>2, ServersAreNat DEF Types, Event, Streams
<1> HIDE DEF e
<1> SUFFICES ASSUME NEW r \in Servers
             PROVE  Latest(log', r) /\ StatusIn(log', r) = Status[client'[r]]
  BY DEF Told
<1>5. Latest(log, r) /\ StatusIn(log, r) = Status[client[r]]
  BY DEF Told
<1>6. /\ Latest(log', r)
      /\ StatusIn(log', r) = IF e.server = r /\ e.type \notin CallTypes THEN e.type ELSE StatusIn(log, r)
  BY <1>3, <1>4, <1>5, StatusInAppended
<1>7. client'[r] = IF r = s THEN c ELSE client[r]
  BY <1>1, <1>3
<1> QED
  BY <1>2, <1>4, <1>5, <1>6, <1>7

\* The other events are of no server, or of calls.
LEMMA OtherStepTold ==
  ASSUME Types, Told, (\E s \in Servers : Says(s)) \/ Tells \/ Silent \/ UNCHANGED vars
  PROVE  Told' /\ \A r \in Servers : StatusIn(log', r) = StatusIn(log, r)
<1>1. client' = client
  BY SayingTypes, SilentTypes
<1>2. CASE Silent \/ UNCHANGED vars
  <2>1. log' = log
    BY <1>2, SilentTypes
  <2> QED
    BY <1>1, <2>1 DEF Told
<1>3. CASE (\E s \in Servers : Says(s)) \/ Tells
  <2>1. PICK t \in EventTypes, s \in Nat : Record(t, s) /\ (s = 0 \/ t \in CallTypes)
    <3>0. {"call_sent", "call_completed"} \subseteq EventTypes \cap CallTypes /\ {"run_started", "run_finished"} \subseteq EventTypes
      BY DEF EventTypes, CallTypes
    <3>1. ASSUME NEW s \in Servers, Says(s) PROVE \E t \in EventTypes : Record(t, s) /\ t \in CallTypes
      <4>1. Record("call_sent", s) \/ Record("call_completed", s)
        BY <3>1, Zenon DEF Says, CallTool, CallReturns, CallTimesOut
      <4> QED
        BY <3>0, <4>1
    <3>2. CASE Tells
      <4>1. \E t \in {"run_started", "run_finished"} : Record(t, 0)
        BY <3>2, Zenon DEF Tells, RunStarted, EngineReturns, Interrupted, InitFailure
      <4>2. \E t \in EventTypes : Record(t, 0)
        BY <3>0, <4>1
      <4>3. 0 \in Nat
        OBVIOUS
      <4> QED
        BY <4>2, <4>3
    <3> QED
      BY <1>3, <3>1, <3>2, ServersAreNat
  <2> DEFINE e == [type |-> t, server |-> s, written |-> stdout.up]
  <2>2. log' = Append(log, e) /\ log \in Seq(Event)
    BY <2>1 DEF Record, Types
  <2>3. e \in Event /\ e.server = s /\ e.type = t
    BY DEF Types, Event, Streams
  <2> HIDE DEF e
  <2>4. \A r \in Servers : r # 0
    BY DEF Servers
  <2>5. ASSUME NEW r \in Servers
        PROVE  Latest(log', r) /\ StatusIn(log', r) = Status[client'[r]] /\ StatusIn(log', r) = StatusIn(log, r)
    <3>1. Latest(log, r) /\ StatusIn(log, r) = Status[client[r]]
      BY DEF Told
    <3>2. /\ Latest(log', r)
          /\ StatusIn(log', r) = IF e.server = r /\ e.type \notin CallTypes THEN e.type ELSE StatusIn(log, r)
      BY <2>2, <2>3, <3>1, StatusInAppended
    <3> QED
      BY <1>1, <2>1, <2>3, <2>4, <3>1, <3>2
  <2> QED
    BY <2>5 DEF Told
<1> QED
  BY <1>2, <1>3

ServerInv == Types /\ Clients /\ Told

LEMMA InitServerInv == Init => ServerInv
BY InitTypes, InitClients, InitTold DEF ServerInv

LEMMA StepServerInv == ServerInv /\ [Next]_vars => ServerInv'
<1> SUFFICES ASSUME ServerInv, [Next]_vars PROVE ServerInv'
  OBVIOUS
<1>1. CASE ClientStep
  BY <1>1, ClientStepTypes, ClientStepClients, ClientStepTold DEF ClientStep, ServerInv
<1>2. CASE ~ ClientStep
  <2>1. (\E s \in Servers : Says(s)) \/ Tells \/ Silent \/ UNCHANGED vars
    BY <1>2, StepKinds
  <2>2. Types'
    BY <2>1, SayingTypes, SilentTypes DEF ServerInv
  <2> QED
    BY <2>1, <2>2, OtherStepClients, OtherStepTold DEF ServerInv
<1> QED
  BY <1>1, <1>2

-----------------------------------------------------------------------------
(* Every step of the run is one of the servers' lives, or none.            *)

TheStatus == [s \in Servers |-> StatusIn(log, s)]

LEMMA StatusIs ==
  /\ TheStatus = [s \in Servers |-> StatusIn(log, s)]
  /\ TheStatus' = [s \in Servers |-> StatusIn(log', s)]
BY DEF TheStatus

LEMMA ClientStepLives ==
  ASSUME ServerInv, NEW s \in Servers,
         StartServer(s) \/ Handshake(s) \/ InitFails(s) \/ Shutdown(s) \/ ShutDown(s)
  PROVE  Lives!Next
<1> DEFINE st == [r \in Servers |-> StatusIn(log, r)]
           st2 == [r \in Servers |-> StatusIn(log', r)]
<1>1. Told'
  BY ClientStepTold DEF ServerInv
<1>2. \A r \in Servers : st[r] = Status[client[r]] /\ st2[r] = Status[client'[r]]
  BY <1>1 DEF Told, ServerInv
<1>3. client \in [Servers -> ClientStates] /\ Clients
  BY DEF ServerInv, Types
<1>4. ASSUME NEW c \in ClientStates, client' = [client EXCEPT ![s] = c]
      PROVE  st2 = [st EXCEPT ![s] = Status[c]]
  <2>1. \A r \in Servers : st2[r] = IF r = s THEN Status[c] ELSE st[r]
    BY <1>2, <1>3, <1>4
  <2> QED
    BY <2>1
<1>5. TheStatus = st /\ TheStatus' = st2
  BY StatusIs
<1> HIDE DEF st, st2
<1>6. \A r \in Servers : TheStatus[r] = Status[client[r]]
  BY <1>2, <1>5
<1>7. \A c \in ClientStates : client' = [client EXCEPT ![s] = c] => TheStatus' = [TheStatus EXCEPT ![s] = Status[c]]
  BY <1>4, <1>5
<1>8. CASE StartServer(s)
  <2>1. \A r \in 1 .. s - 1 : client[r] = "connected"
    BY <1>3, <1>8, EarlierAreServers DEF StartServer, Fresh, Pending, Clients, ClientsFitPc
  <2>2. client[s] = "none" /\ client' = [client EXCEPT ![s] = "pending"]
    BY <1>8 DEF StartServer, Fresh
  <2>3. /\ TheStatus[s] = "declared" /\ TheStatus' = [TheStatus EXCEPT ![s] = "starting"]
        /\ \A r \in 1 .. s - 1 : TheStatus[r] = "ready"
    BY <1>6, <1>7, <2>1, <2>2, EarlierAreServers DEF Status, ClientStates
  <2>4. Lives!Start(s)
    BY <2>3 DEF Lives!Start, Lives!Says, TheStatus
  <2> QED
    BY <2>4 DEF Lives!Next, Lives!Servers, Servers
<1>9. CASE Handshake(s)
  <2>1. client[s] = "pending" /\ client' = [client EXCEPT ![s] = "connected"]
    BY <1>9 DEF Handshake, Pending
  <2>2. TheStatus[s] = "starting" /\ TheStatus' = [TheStatus EXCEPT ![s] = "ready"]
    BY <1>6, <1>7, <2>1 DEF Status, ClientStates
  <2>3. Lives!Ready(s)
    BY <2>2 DEF Lives!Ready, Lives!Says, TheStatus
  <2> QED
    BY <2>3 DEF Lives!Next, Lives!Servers, Servers
<1>10. CASE InitFails(s)
  <2>1. client[s] = "pending" /\ client' = [client EXCEPT ![s] = "discarded"]
    BY <1>10 DEF InitFails, Pending
  <2>2. TheStatus[s] = "starting" /\ TheStatus' = [TheStatus EXCEPT ![s] = "crashed"]
    BY <1>6, <1>7, <2>1 DEF Status, ClientStates
  <2>3. Lives!Crash(s)
    BY <2>2 DEF Lives!Crash, Lives!Says, TheStatus
  <2> QED
    BY <2>3 DEF Lives!Next, Lives!Servers, Servers
<1>11. CASE Shutdown(s)
  <2>1. /\ client[s] = "connected" /\ client' = [client EXCEPT ![s] = "draining"]
        /\ \A r \in 1 .. s - 1 : client[r] # "connected"
        /\ \A r \in Servers : client[r] # "draining"
        /\ pc \in {"drain", "drain_init", "drain_sigint"}
    BY <1>11 DEF Shutdown, NextToDrain, Draining, Drains
  <2>2. /\ \A r \in 1 .. s - 1 : client[r] = "disconnected"
        /\ \A r \in Servers : client[r] # "pending"
    BY <1>3, <2>1, EarlierAreServers DEF Clients, ClientsFitPc, InOrder
  <2>3. /\ TheStatus[s] = "ready" /\ TheStatus' = [TheStatus EXCEPT ![s] = "draining"]
        /\ \A r \in 1 .. s - 1 : TheStatus[r] = "gone"
    BY <1>6, <1>7, <2>1, <2>2, EarlierAreServers DEF Status, ClientStates
  <2>4. \A r \in Servers : TheStatus[r] # "starting"
    <3> SUFFICES ASSUME NEW r \in Servers PROVE Status[client[r]] # "starting"
      BY <1>6
    <3>1. client[r] \in ClientStates \ {"pending"}
      BY <1>3, <2>2
    <3> QED
      BY <3>1 DEF ClientStates, Status
  <2>5. Lives!Drain(s)
    BY <2>3, <2>4 DEF Lives!Drain, Lives!Says, Lives!Servers, Servers, TheStatus
  <2> QED
    BY <2>5 DEF Lives!Next, Lives!Servers, Servers
<1>12. CASE ShutDown(s)
  <2>1. client[s] = "draining" /\ client' = [client EXCEPT ![s] = "disconnected"]
    BY <1>12 DEF ShutDown, Draining
  <2>2. TheStatus[s] = "draining" /\ TheStatus' = [TheStatus EXCEPT ![s] = "gone"]
    BY <1>6, <1>7, <2>1 DEF Status, ClientStates
  <2>3. Lives!Leave(s)
    BY <2>2 DEF Lives!Leave, Lives!Says, TheStatus
  <2> QED
    BY <2>3 DEF Lives!Next, Lives!Servers, Servers
<1> QED
  BY <1>8, <1>9, <1>10, <1>11, <1>12

LEMMA StepLives == ServerInv /\ [Next]_vars => [Lives!Next]_TheStatus
<1> SUFFICES ASSUME ServerInv, [Next]_vars PROVE [Lives!Next]_TheStatus
  OBVIOUS
<1>1. CASE ClientStep
  BY <1>1, ClientStepLives DEF ClientStep
<1>2. CASE ~ ClientStep
  <2>1. (\E s \in Servers : Says(s)) \/ Tells \/ Silent \/ UNCHANGED vars
    BY <1>2, StepKinds
  <2>2. \A r \in Servers : StatusIn(log', r) = StatusIn(log, r)
    BY <2>1, OtherStepTold DEF ServerInv
  <2>3. TheStatus' = TheStatus
    BY <2>2, StatusIs
  <2> QED
    BY <2>3
<1> QED
  BY <1>1, <1>2

LEMMA InitLives == Init => Lives!Init
<1> SUFFICES ASSUME Init PROVE Lives!Init
  OBVIOUS
<1>1. Told
  BY InitTold
<1>2. \A s \in Servers : StatusIn(log, s) = "declared"
  BY <1>1 DEF Init, Told, Status
<1>3. TheStatus = [s \in Servers |-> "declared"]
  BY <1>2, StatusIs
<1> QED
  BY <1>3 DEF Lives!Init, Lives!Servers, Servers, TheStatus

\* Whatever fails or is interrupted, and however many servers there are, the
\* stream tells of them a life that McpServers allows.
THEOREM ServersAsPromised == Spec => ServersLiveInOrder
<1>1. Init => ServerInv /\ Lives!Init
  BY InitServerInv, InitLives
<1>2. ServerInv /\ [Next]_vars => ServerInv' /\ [Lives!Next]_TheStatus
  BY StepServerInv, StepLives
<1> QED
  BY <1>1, <1>2, PTL DEF Spec, ServersLiveInOrder, Lives!Spec, TheStatus

-----------------------------------------------------------------------------
(* What is flushed, assembled and written.                                 *)

Flushed == tape = [llm |-> "flushed", tool |-> "flushed"]

BundleFits ==
  /\ bundle => Flushed /\ pc \in {"drain", "exit"} /\ exit # "interrupted"
  /\ pc = "flush_tool" => tape.llm = "flushed"
  /\ pc = "assemble" => Flushed
  /\ pc = "drain" => bundle
  /\ pc # "exit" <=> exit = "none"

LatchTells == ~ broken => \A i \in DOMAIN log : log[i].written

OkFits == exit = "ok" => ok /\ bundle /\ ~ broken

LEMMA InitBundle == Init => BundleFits /\ LatchTells /\ OkFits
BY DEF Init, BundleFits, LatchTells, OkFits

LEMMA StepBundle ==
  ASSUME Types, BundleFits, [Next]_vars
  PROVE  BundleFits'
<1> USE DEF BundleFits, Flushed
<1>1. CASE ClientStep
  BY <1>1 DEF ClientStep, StartServer, Handshake, InitFails, Shutdown, ShutDown, Drains, Goto
<1>2. CASE (\E s \in Servers : Says(s)) \/ Tells
  BY <1>2 DEF Says, CallTool, CallReturns, CallTimesOut, InEngine,
              Tells, RunStarted, EngineReturns, Interrupted, InitFailure, Goto
<1>3. CASE Setup \/ SetupFails \/ Spawned \/ ExpandFails \/ EngineFails \/ NodeTimesOut \/ Killed
  BY <1>3 DEF Setup, SetupFails, Spawned, ExpandFails, EngineFails, NodeTimesOut, Killed, InEngine, Goto, Exit
<1>4. CASE FlushLlm \/ FlushTool
  <2>1. pc = "flush_llm" => tape' = [llm |-> "flushed", tool |-> tape.tool]
    BY <1>4 DEF FlushLlm, FlushTool, Types
  <2>2. pc = "flush_tool" => tape' = [llm |-> "flushed", tool |-> "flushed"]
    BY <1>4 DEF FlushLlm, FlushTool, Types
  <2> QED
    BY <1>4, <2>1, <2>2 DEF FlushLlm, FlushTool, Goto
<1>5. CASE Assemble \/ FlushFails \/ FlushSigint
  BY <1>5 DEF Assemble, FlushFails, FlushSigint, Goto, Exit
<1>6. CASE Finalize \/ InterruptedExit \/ InitExit \/ Returned \/ UNCHANGED vars
  BY <1>6 DEF Finalize, InterruptedExit, InitExit, Returned, Exit, vars
<1>7. CASE StdoutTurns \/ \E s \in Servers : SpawnChild(s) \/ ServerDies(s)
  BY <1>7 DEF StdoutTurns, StdoutFails, StdoutRecovers, StdoutStalls, StdoutResumes, SpawnChild, ServerDies, Goto
<1> QED
  BY <1>1, <1>2, <1>3, <1>4, <1>5, <1>6, <1>7, StepKinds DEF Silent

\* A step says nothing, or one thing through Record.
LEMMA StepRecords ==
  ASSUME Types, [Next]_vars
  PROVE  UNCHANGED <<log, broken>> \/ \E t \in EventTypes, s \in Nat : Record(t, s)
<1>0. {"starting", "ready", "crashed", "draining", "gone", "call_sent", "call_completed",
       "run_started", "run_finished"} \subseteq EventTypes
  BY DEF EventTypes, CallTypes
<1>1. ASSUME NEW s \in Servers, StartServer(s) \/ Handshake(s) \/ InitFails(s) \/ Shutdown(s) \/ ShutDown(s) \/ Says(s)
      PROVE  \E t \in EventTypes : Record(t, s)
  <2>1. \/ Record("starting", s) \/ Record("ready", s) \/ Record("crashed", s) \/ Record("draining", s)
        \/ Record("gone", s) \/ Record("call_sent", s) \/ Record("call_completed", s)
    BY <1>1, Zenon DEF StartServer, Handshake, InitFails, Shutdown, ShutDown, Says, CallTool, CallReturns, CallTimesOut
  <2> QED
    BY <1>0, <2>1, Zenon
<1>2. CASE Tells
  <2>1. \E t \in {"run_started", "run_finished"} : Record(t, 0)
    BY <1>2, Zenon DEF Tells, RunStarted, EngineReturns, Interrupted, InitFailure
  <2>2. \E t \in EventTypes : Record(t, 0)
    BY <1>0, <2>1
  <2>3. 0 \in Nat
    OBVIOUS
  <2> QED
    BY <2>2, <2>3
<1>3. CASE Silent \/ UNCHANGED vars
  BY <1>3, SilentTypes
<1> QED
  BY <1>1, <1>2, <1>3, StepKinds, ServersAreNat DEF ClientStep

LEMMA StepLatch ==
  ASSUME Types, LatchTells, [Next]_vars
  PROVE  LatchTells'
<1>1. CASE UNCHANGED <<log, broken>>
  BY <1>1 DEF LatchTells
<1>2. ASSUME NEW t \in EventTypes, NEW s \in Nat, Record(t, s) PROVE LatchTells'
  <2> DEFINE e == [type |-> t, server |-> s, written |-> stdout.up]
  <2>1. log' = Append(log, e) /\ log \in Seq(Event) /\ broken' = (broken \/ ~ stdout.up)
    BY <1>2 DEF Record, Types
  <2>2. e \in Event /\ e.written = stdout.up
    BY DEF Event, Types, Streams
  <2> HIDE DEF e
  <2>3. /\ DOMAIN log' = 1 .. Len(log) + 1 /\ DOMAIN log = 1 .. Len(log) /\ Len(log) \in Nat
        /\ log'[Len(log) + 1] = e /\ \A i \in DOMAIN log : log'[i] = log[i]
    BY <2>1, <2>2
  <2> SUFFICES ASSUME ~ broken', NEW i \in DOMAIN log' PROVE log'[i].written
    BY DEF LatchTells
  <2>4. ~ broken /\ stdout.up
    BY <2>1
  <2>5. CASE i = Len(log) + 1
    BY <2>2, <2>3, <2>4, <2>5
  <2>6. CASE i # Len(log) + 1
    <3>1. i \in DOMAIN log
      BY <2>3, <2>6
    <3> QED
      BY <2>3, <2>4, <3>1 DEF LatchTells
  <2> QED
    BY <2>5, <2>6
<1> QED
  BY <1>1, <1>2, StepRecords

LEMMA StepOk ==
  ASSUME Types, BundleFits, OkFits, [Next]_vars
  PROVE  OkFits'
<1> USE DEF BundleFits, OkFits
<1>1. CASE Finalize
  BY <1>1 DEF Finalize, Exit, Quiet
<1>2. CASE UNCHANGED vars \/ Returned
  BY <1>2 DEF Returned, vars
<1>3. CASE exit' # "ok"
  BY <1>3
<1>4. ~ Finalize /\ ~ (UNCHANGED vars \/ Returned) => exit' # "ok"
  <2>1. CASE ClientStep
    BY <2>1 DEF ClientStep, StartServer, Handshake, InitFails, Shutdown, ShutDown, Drains, Goto
  <2>2. CASE (\E s \in Servers : Says(s)) \/ Tells
    BY <2>2 DEF Says, CallTool, CallReturns, CallTimesOut, InEngine,
                Tells, RunStarted, EngineReturns, Interrupted, InitFailure, Goto
  <2>3. CASE Setup \/ SetupFails \/ Spawned \/ ExpandFails \/ EngineFails \/ NodeTimesOut \/ Killed
    BY <2>3 DEF Setup, SetupFails, Spawned, ExpandFails, EngineFails, NodeTimesOut, Killed, InEngine, Goto, Exit
  <2>4. CASE FlushLlm \/ FlushTool \/ Assemble \/ FlushFails \/ FlushSigint
    BY <2>4 DEF FlushLlm, FlushTool, Assemble, FlushFails, FlushSigint, Goto, Exit
  <2>5. CASE InterruptedExit \/ InitExit
    BY <2>5 DEF InterruptedExit, InitExit, Exit
  <2>6. CASE StdoutTurns \/ \E s \in Servers : SpawnChild(s) \/ ServerDies(s)
    BY <2>6 DEF StdoutTurns, StdoutFails, StdoutRecovers, StdoutStalls, StdoutResumes, SpawnChild, ServerDies, Goto
  <2> QED
    BY <2>1, <2>2, <2>3, <2>4, <2>5, <2>6, StepKinds DEF Silent
<1> QED
  BY <1>1, <1>2, <1>3, <1>4

BundleInv == Types /\ BundleFits /\ LatchTells /\ OkFits

LEMMA StepTypes == Types /\ [Next]_vars => Types'
BY StepKinds, ClientStepTypes, SayingTypes, SilentTypes DEF ClientStep

LEMMA BundleAlways == Spec => []BundleInv
<1>1. Init => BundleInv
  BY InitTypes, InitBundle DEF BundleInv
<1>2. BundleInv /\ [Next]_vars => BundleInv'
  BY StepTypes, StepBundle, StepLatch, StepOk DEF BundleInv
<1> QED
  BY <1>1, <1>2, PTL DEF Spec

\* A bundle is only ever assembled from flushed tapes of a whole run.
THEOREM BundlesAreWhole == Spec => []BundleOfWholeRun
<1>1. BundleInv => BundleOfWholeRun
  BY DEF BundleInv, BundleFits, Flushed, BundleOfWholeRun
<1> QED
  BY <1>1, BundleAlways, PTL

\* Exit code 0 vouches for the run, its stream, its tapes and its bundle.
THEOREM ZeroMeansAll == Spec => []ExitZeroMeansAll
<1>1. BundleInv => ExitZeroMeansAll
  BY DEF BundleInv, BundleFits, LatchTells, OkFits, Flushed, ExitZeroMeansAll
<1> QED
  BY <1>1, BundleAlways, PTL

-----------------------------------------------------------------------------
(* How the stream is framed.                                               *)

In(stream, t) == \E i \in DOMAIN stream : stream[i].type = t

Once(stream) ==
  \A i, j \in DOMAIN stream :
    stream[i].type = stream[j].type /\ stream[i].type \in {"run_started", "run_finished"} => i = j

Between(stream) ==
  \A i, j \in DOMAIN stream : i < j =>
    /\ ~ (stream[i].type = "run_finished" /\ stream[j].type \in {"run_started", "call_sent", "call_completed"})
    /\ ~ (stream[i].type \in {"call_sent", "call_completed"} /\ stream[j].type = "run_started")

CallsAfterStart(stream) == In(stream, "call_sent") \/ In(stream, "call_completed") => In(stream, "run_started")

Framed(stream) == Once(stream) /\ Between(stream) /\ CallsAfterStart(stream)

\* Where an event may be said without breaking the frame.
Fits(stream, t) ==
  /\ t = "run_started" => ~ In(stream, "run_started") /\ ~ In(stream, "run_finished")
  /\ t = "run_finished" => ~ In(stream, "run_finished")
  /\ t \in CallTypes => In(stream, "run_started") /\ ~ In(stream, "run_finished")

LEMMA FramedAppended ==
  ASSUME NEW stream \in Seq(Event), NEW e \in Event, Framed(stream), Fits(stream, e.type)
  PROVE  /\ Framed(Append(stream, e))
         /\ \A t : In(Append(stream, e), t) <=> In(stream, t) \/ t = e.type
<1> DEFINE more == Append(stream, e)
           n == Len(stream) + 1
<1>1. /\ DOMAIN more = 1 .. n /\ DOMAIN stream = 1 .. n - 1 /\ n \in Nat \ {0}
      /\ more[n] = e /\ \A i \in 1 .. n - 1 : more[i] = stream[i]
  OBVIOUS
<1> HIDE DEF more, n
<1>2. \A i \in DOMAIN more : i = n \/ (i \in DOMAIN stream /\ i < n)
  BY <1>1
<1>3. ASSUME NEW t PROVE In(more, t) <=> In(stream, t) \/ t = e.type
  <2>1. In(stream, t) \/ t = e.type => In(more, t)
    BY <1>1 DEF In
  <2>2. In(more, t) => In(stream, t) \/ t = e.type
    BY <1>1, <1>2 DEF In
  <2> QED
    BY <2>1, <2>2
<1>4. Once(more)
  <2> SUFFICES ASSUME NEW i \in DOMAIN more, NEW j \in DOMAIN more,
                      more[i].type = more[j].type, more[i].type \in {"run_started", "run_finished"}
               PROVE  i = j
    BY DEF Once
  <2>1. CASE i = n \/ j = n
    BY <1>1, <1>2, <2>1 DEF Fits, In
  <2>2. CASE i # n /\ j # n
    BY <1>1, <1>2, <2>2 DEF Framed, Once
  <2> QED
    BY <2>1, <2>2
<1>5. Between(more)
  <2> SUFFICES ASSUME NEW i \in DOMAIN more, NEW j \in DOMAIN more, i < j
               PROVE  /\ ~ (more[i].type = "run_finished" /\ more[j].type \in {"run_started", "call_sent", "call_completed"})
                      /\ ~ (more[i].type \in {"call_sent", "call_completed"} /\ more[j].type = "run_started")
    BY DEF Between
  <2>0. i \in DOMAIN stream /\ more[i] = stream[i]
    BY <1>1, <1>2
  <2>1. CASE j = n
    <3>1. CallsAfterStart(stream)
      BY DEF Framed
    <3>2. ~ (stream[i].type = "run_finished" /\ e.type \in {"run_started", "call_sent", "call_completed"})
      BY <2>0 DEF Fits, In, CallTypes
    <3>3. ~ (stream[i].type \in {"call_sent", "call_completed"} /\ e.type = "run_started")
      BY <2>0, <3>1 DEF Fits, In, CallsAfterStart
    <3> QED
      BY <1>1, <2>0, <2>1, <3>2, <3>3
  <2>2. CASE j # n
    BY <1>1, <1>2, <2>0, <2>2 DEF Framed, Between
  <2> QED
    BY <2>1, <2>2
<1>6. CallsAfterStart(more)
  BY <1>3 DEF CallsAfterStart, Framed, Fits, CallTypes
<1> QED
  BY <1>3, <1>4, <1>5, <1>6 DEF Framed, more

\* What has been said, at each point of the control.
SaidFits ==
  /\ In(log, "run_finished") => pc \notin {"setup", "spawn", "engine"}
  /\ In(log, "run_finished") /\ pc = "drain_init" =>
       \A s \in Servers : client[s] \notin {"connected", "draining"}
  /\ pc \in {"flush_llm", "flush_tool", "assemble", "drain", "flush_sigint", "drain_sigint"} => In(log, "run_finished")
  /\ exit \in Orderly => In(log, "run_finished")
  /\ pc # "exit" <=> exit = "none"

FrameInv == Types /\ Framed(log) /\ SaidFits

LEMMA SaidIsIn == \A t : (Said(t) <=> In(log, t))
BY DEF Said, In

LEMMA InitFrame == Init => FrameInv
<1> SUFFICES ASSUME Init PROVE FrameInv
  OBVIOUS
<1>1. log = <<>> /\ pc = "setup" /\ exit = "none" /\ Types
  BY InitTypes DEF Init
<1> QED
  BY <1>1 DEF FrameInv, Framed, Once, Between, CallsAfterStart, In, SaidFits, Orderly

\* One event more, where it fits.
LEMMA SaidOne ==
  ASSUME Types, Framed(log), NEW t \in EventTypes, NEW s \in Nat, Record(t, s), Fits(log, t)
  PROVE  Framed(log)' /\ \A u : In(log', u) <=> In(log, u) \/ u = t
<1> DEFINE e == [type |-> t, server |-> s, written |-> stdout.up]
<1>1. log' = Append(log, e) /\ log \in Seq(Event)
  BY DEF Record, Types
<1>2. e \in Event /\ e.type = t
  BY DEF Event, Types, Streams
<1> HIDE DEF e
<1> QED
  BY <1>1, <1>2, FramedAppended

LEMMA ClientStepFrame ==
  ASSUME FrameInv, NEW s \in Servers,
         StartServer(s) \/ Handshake(s) \/ InitFails(s) \/ Shutdown(s) \/ ShutDown(s)
  PROVE  Framed(log)' /\ SaidFits'
<1>1. PICK t \in {"starting", "ready", "crashed", "draining", "gone"} : Record(t, s)
  BY Zenon DEF StartServer, Handshake, InitFails, Shutdown, ShutDown
<1>2. t \in EventTypes /\ t \notin {"run_started", "run_finished"} /\ Fits(log, t)
  BY DEF EventTypes, Fits, CallTypes
<1>3. Framed(log)' /\ (In(log', "run_finished") <=> In(log, "run_finished"))
  BY <1>1, <1>2, SaidOne, ServersAreNat DEF FrameInv
<1>4. client \in [Servers -> ClientStates]
  BY DEF FrameInv, Types
<1>5. SaidFits'
  <2> USE <1>3, <1>4 DEF FrameInv, SaidFits
  <2>1. CASE StartServer(s) \/ Handshake(s) \/ InitFails(s)
    BY <2>1 DEF StartServer, Handshake, InitFails, Goto
  <2>2. CASE Shutdown(s)
    <3>1. client[s] = "connected" /\ pc \in Drains /\ pc' = pc /\ exit' = exit
      BY <2>2 DEF Shutdown, NextToDrain, Goto
    <3>2. pc = "drain_init" => ~ In(log, "run_finished")
      BY <3>1
    <3> QED
      BY <3>1, <3>2 DEF Drains
  <2>3. CASE ShutDown(s)
    <3>1. client[s] = "draining" /\ pc \in Drains /\ pc' = pc /\ exit' = exit
      BY <2>3 DEF ShutDown, Draining, Goto
    <3>2. pc = "drain_init" => ~ In(log, "run_finished")
      BY <3>1
    <3> QED
      BY <3>1, <3>2 DEF Drains
  <2> QED
    BY <2>1, <2>2, <2>3
<1> QED
  BY <1>3, <1>5

LEMMA SayingFrame ==
  ASSUME FrameInv, (\E s \in Servers : Says(s)) \/ Tells
  PROVE  Framed(log)' /\ SaidFits'
<1> USE SaidIsIn
<1>0. client' = client
  BY SayingTypes DEF FrameInv
<1>1. CASE \E s \in Servers : Says(s)
  <2>1. PICK s \in Servers : Says(s)
    BY <1>1
  <2>2. pc = "engine" /\ pc' = "engine" /\ exit' = exit /\ In(log, "run_started")
    BY <2>1 DEF Says, CallTool, CallReturns, CallTimesOut, InEngine, Goto
  <2>3. PICK t \in CallTypes : Record(t, s)
    <3>1. Record("call_sent", s) \/ Record("call_completed", s)
      BY <2>1, Zenon DEF Says, CallTool, CallReturns, CallTimesOut
    <3> QED
      BY <3>1 DEF CallTypes
  <2>4. t \in EventTypes /\ t \notin {"run_started", "run_finished"} /\ Fits(log, t)
    BY <2>2 DEF EventTypes, CallTypes, Fits, FrameInv, SaidFits
  <2>5. Framed(log)' /\ (In(log', "run_finished") <=> In(log, "run_finished"))
    BY <2>3, <2>4, SaidOne, ServersAreNat DEF FrameInv
  <2> QED
    BY <2>2, <2>5 DEF FrameInv, SaidFits
<1>2. CASE RunStarted
  <2>1. /\ pc = "engine" /\ pc' = "engine" /\ exit' = exit /\ ~ In(log, "run_started")
        /\ Record("run_started", 0)
    BY <1>2 DEF RunStarted, Goto
  <2>2. "run_started" \in EventTypes /\ Fits(log, "run_started")
    BY <2>1 DEF EventTypes, CallTypes, Fits, FrameInv, SaidFits
  <2>3. Framed(log)' /\ (In(log', "run_finished") <=> In(log, "run_finished"))
    BY <2>1, <2>2, SaidOne DEF FrameInv
  <2> QED
    BY <2>1, <2>3 DEF FrameInv, SaidFits
<1>3. CASE Interrupted \/ \E outcome \in BOOLEAN : EngineReturns(outcome)
  <2>1. /\ pc = "engine" /\ pc' \in {"flush_sigint", "flush_llm"} /\ exit' = exit
        /\ Record("run_finished", 0)
    BY <1>3 DEF Interrupted, EngineReturns, InEngine, Goto
  <2>2. "run_finished" \in EventTypes /\ Fits(log, "run_finished")
    BY <2>1 DEF EventTypes, CallTypes, Fits, FrameInv, SaidFits
  <2>3. Framed(log)' /\ In(log', "run_finished")
    BY <2>1, <2>2, SaidOne DEF FrameInv
  <2> QED
    BY <2>1, <2>3 DEF FrameInv, SaidFits
<1>4. CASE InitFailure
  <2>1. /\ pc = "drain_init" /\ pc' = "drain_init" /\ exit' = exit /\ ~ In(log, "run_finished")
        /\ \A s \in Servers : client[s] \notin {"connected", "draining"}
    BY <1>4 DEF InitFailure, Drained, Goto
  <2>2. PICK t \in {"run_started", "run_finished"} :
          Record(t, 0) /\ (t = "run_started" => ~ In(log, "run_started"))
    BY <1>4 DEF InitFailure
  <2>3. t \in EventTypes /\ Fits(log, t)
    BY <2>1, <2>2 DEF EventTypes, CallTypes, Fits
  <2>4. Framed(log)'
    BY <2>2, <2>3, SaidOne DEF FrameInv
  <2> QED
    BY <1>0, <2>1, <2>4 DEF FrameInv, SaidFits
<1> QED
  BY <1>1, <1>2, <1>3, <1>4 DEF Tells

LEMMA SilentFrame ==
  ASSUME FrameInv, Silent \/ UNCHANGED vars
  PROVE  Framed(log)' /\ SaidFits'
<1>1. UNCHANGED <<client, log>>
  BY SilentTypes DEF FrameInv
<1>2. Framed(log)'
  BY <1>1 DEF FrameInv
<1>3. In(log', "run_finished") <=> In(log, "run_finished")
  BY <1>1
<1>4. SaidFits'
  <2> USE <1>1, <1>3 DEF FrameInv, SaidFits, Orderly
  <2>1. CASE Setup \/ SetupFails \/ Spawned \/ ExpandFails \/ EngineFails \/ NodeTimesOut \/ Killed
    BY <2>1 DEF Setup, SetupFails, Spawned, ExpandFails, EngineFails, NodeTimesOut, Killed, InEngine, Goto, Exit
  <2>2. CASE FlushLlm \/ FlushTool \/ Assemble \/ FlushFails \/ FlushSigint
    BY <2>2 DEF FlushLlm, FlushTool, Assemble, FlushFails, FlushSigint, Goto, Exit
  <2>3. CASE Finalize \/ InterruptedExit \/ Returned \/ UNCHANGED vars
    BY <2>3 DEF Finalize, InterruptedExit, Returned, Exit, vars
  <2>4. CASE InitExit
    BY <2>4, SaidIsIn DEF InitExit, Exit
  <2>5. CASE StdoutTurns \/ \E s \in Servers : SpawnChild(s) \/ ServerDies(s)
    BY <2>5 DEF StdoutTurns, StdoutFails, StdoutRecovers, StdoutStalls, StdoutResumes, SpawnChild, ServerDies, Goto
  <2> QED
    BY <2>1, <2>2, <2>3, <2>4, <2>5 DEF Silent
<1> QED
  BY <1>2, <1>4

LEMMA FrameAlways == Spec => []FrameInv
<1>1. FrameInv /\ [Next]_vars => FrameInv'
  <2> SUFFICES ASSUME FrameInv, [Next]_vars PROVE FrameInv'
    OBVIOUS
  <2>1. Types'
    BY StepTypes DEF FrameInv
  <2>2. Framed(log)' /\ SaidFits'
    BY StepKinds, ClientStepFrame, SayingFrame, SilentFrame DEF ClientStep
  <2> QED
    BY <2>1, <2>2 DEF FrameInv
<1> QED
  BY <1>1, InitFrame, PTL DEF Spec

\* One RunStarted, one RunFinished, the calls between them, on every path.
THEOREM RunsAreFramed == Spec => []RunIsFramed
<1>1. FrameInv => RunIsFramed
  BY SaidIsIn DEF FrameInv, Framed, Once, Between, SaidFits, RunIsFramed
<1> QED
  BY <1>1, FrameAlways, PTL

-----------------------------------------------------------------------------
(* Who is left when run() returns.                                         *)

LEMMA StepLeft ==
  ASSUME FrameInv, Clients, NothingLeftConnected, [Next]_vars
  PROVE  NothingLeftConnected'
<1> USE DEF NothingLeftConnected, Orderly, FrameInv, SaidFits
<1>1. CASE ClientStep
  BY <1>1 DEF ClientStep, StartServer, Handshake, InitFails, Shutdown, ShutDown, Drains, Goto
<1>2. CASE ~ ClientStep
  <2>0. client' = client
    BY <1>2, StepKinds, SayingTypes, SilentTypes
  <2> USE <2>0
  <2>1. CASE (\E s \in Servers : Says(s)) \/ Tells
    BY <2>1 DEF Says, CallTool, CallReturns, CallTimesOut, Tells, RunStarted, EngineReturns, Interrupted,
                InitFailure, Goto
  <2>2. CASE Setup \/ SetupFails \/ Spawned \/ ExpandFails \/ EngineFails \/ NodeTimesOut \/ Killed
    BY <2>2 DEF Setup, SetupFails, Spawned, ExpandFails, EngineFails, NodeTimesOut, Killed, Goto, Exit
  <2>3. CASE FlushLlm \/ FlushTool \/ Assemble \/ FlushFails \/ FlushSigint
    BY <2>3 DEF FlushLlm, FlushTool, Assemble, FlushFails, FlushSigint, Goto, Exit
  <2>4. CASE InterruptedExit \/ Returned \/ UNCHANGED vars
    BY <2>4 DEF InterruptedExit, Returned, Exit, vars
  <2>5. CASE Finalize \/ InitExit
    <3>1. \A s \in Servers : client[s] \in ClientStates \ {"connected", "draining", "pending"}
      BY <2>5, SaidIsIn DEF Finalize, InitExit, Drained, Types, Clients, ClientsFitPc
    <3> QED
      BY <3>1 DEF ClientStates
  <2>6. CASE StdoutTurns \/ \E s \in Servers : SpawnChild(s) \/ ServerDies(s)
    BY <2>6 DEF StdoutTurns, StdoutFails, StdoutRecovers, StdoutStalls, StdoutResumes, SpawnChild, ServerDies, Goto
  <2> QED
    BY <1>2, <2>1, <2>2, <2>3, <2>4, <2>5, <2>6, StepKinds DEF Silent
<1> QED
  BY <1>1, <1>2

\* Whoever was connected has been shut down when run() returns on its own.
THEOREM NobodyLeftConnected == Spec => []NothingLeftConnected
<1>1. Init => ServerInv /\ NothingLeftConnected
  BY InitServerInv DEF Init, NothingLeftConnected, Orderly
<1>2. ServerInv /\ FrameInv /\ NothingLeftConnected /\ [Next]_vars => ServerInv' /\ NothingLeftConnected'
  BY StepServerInv, StepLeft DEF ServerInv
<1> QED
  BY <1>1, <1>2, FrameAlways, PTL DEF Spec
=============================================================================

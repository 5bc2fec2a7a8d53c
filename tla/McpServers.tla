----------------------------- MODULE McpServers -----------------------------
(* What a run promises about its MCP servers, as the event stream tells it:
   servers start one after another in the order of their names (mcp_servers is
   a BTreeMap), the first one that does not come up is the last one that
   starts, and what was ready is drained in the same order, one server at a
   time.  Of a server that dies later on the stream says nothing: it is still
   drained.                                                                 *)
EXTENDS Naturals

CONSTANT Count      \* servers of the pipeline, 1 .. Count in the order of their names

VARIABLE status     \* what was last said of each server

Servers == 1 .. Count

Init == status = [s \in Servers |-> "declared"]

Says(s, from, to) == status[s] = from /\ status' = [status EXCEPT ![s] = to]

Start(s) == Says(s, "declared", "starting") /\ \A r \in 1 .. s - 1 : status[r] = "ready"

Ready(s) == Says(s, "starting", "ready")

Crash(s) == Says(s, "starting", "crashed")

Drain(s) ==
  /\ Says(s, "ready", "draining")
  /\ \A r \in Servers : status[r] # "starting"
  /\ \A r \in 1 .. s - 1 : status[r] = "gone"

Leave(s) == Says(s, "draining", "gone")

Next == \E s \in Servers : Start(s) \/ Ready(s) \/ Crash(s) \/ Drain(s) \/ Leave(s)

Spec == Init /\ [][Next]_status
=============================================================================

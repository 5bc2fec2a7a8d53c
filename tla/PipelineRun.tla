---------------------------- MODULE PipelineRun ----------------------------
(***************************************************************************)
(* What running a pipeline promises, whatever order the scheduler picks: a *)
(* node starts only when everything it needs succeeded, and a node is      *)
(* skipped exactly when something it needs failed or was skipped.  The     *)
(* walker (module DagWalker) is shown to implement this specification.     *)
(***************************************************************************)
EXTENDS PipelineGraph

VARIABLES needs,    \* the graph being run
          status    \* what became of each node: waiting, running or an end

vars == <<needs, status>>

Ended == {"ok", "failed", "skipped"}

Having(st) == {n \in Node : status[n] = st}

Init ==
  /\ needs \in Graphs
  /\ status = [n \in Node |-> "waiting"]

Start(n) ==
  /\ status[n] = "waiting"
  /\ Needs(needs, n) \subseteq Having("ok")
  /\ status' = [status EXCEPT ![n] = "running"]
  /\ UNCHANGED needs

Finish(n) ==
  /\ status[n] = "running"
  /\ \E r \in {"ok", "failed"} : status' = [status EXCEPT ![n] = r]
  /\ UNCHANGED needs

Skip(n) ==
  /\ status[n] = "waiting"
  /\ \E d \in Needs(needs, n) : status[d] \in {"failed", "skipped"}
  /\ status' = [status EXCEPT ![n] = "skipped"]
  /\ UNCHANGED needs

Next == \E n \in Node : Start(n) \/ Finish(n) \/ Skip(n)

Safety == Init /\ [][Next]_vars

=============================================================================

----------------------------- MODULE SideEffects -----------------------------
(***************************************************************************)
(* The operations that reach outside of the program: the child of a shell  *)
(* node or of Bash, the file tools, WebFetch, the requests to a provider,  *)
(* and the variables a run is given.  They share no state, so one of them  *)
(* is at work and the others wait in an initial state.                     *)
(***************************************************************************)
EXTENDS ChildProcess, FileTools, WebFetch, Transport, RunInputs

VARIABLE working     \* the operation at work, fixed

sideVars == <<vars, fileVars, fetchVars, transport, inputVars, working>>

\* An operation that is not at work waits in one of its initial states.
SideInit ==
  /\ working \in {"child", "files", "fetch", "request", "inputs"}
  /\ IF working = "child" THEN TRUE ELSE job = CHOOSE j \in Jobs : TRUE
  /\ IF working = "files" THEN TRUE ELSE scene = CHOOSE s \in Scenes : TRUE
  /\ IF working = "fetch" THEN TRUE ELSE
       /\ policy = CHOOSE p \in Policies : TRUE
       /\ url = [scheme |-> "http", host |-> CHOOSE h \in Hosts : TRUE]
  /\ IF working = "request" THEN TRUE ELSE
       providers = (CHOOSE r \in Required : TRUE) /\ keys = CHOOSE k \in KeyStates : TRUE
  /\ IF working = "inputs" THEN TRUE ELSE declared = CHOOSE d \in Declarations : TRUE
  /\ Init /\ FilesInit /\ FetchInit /\ TransportInit /\ InputsInit

SideNext ==
  \/ /\ working = "child" /\ Next
     /\ UNCHANGED <<fileVars, fetchVars, transport, inputVars, working>>
  \/ /\ working = "files" /\ FilesNext
     /\ UNCHANGED <<vars, fetchVars, transport, inputVars, working>>
  \/ /\ working = "fetch" /\ FetchNext
     /\ UNCHANGED <<vars, fileVars, transport, inputVars, working>>
  \/ /\ working = "request" /\ TransportNext
     /\ UNCHANGED <<vars, fileVars, fetchVars, inputVars, working>>
  \/ /\ working = "inputs" /\ Resolve
     /\ UNCHANGED <<vars, fileVars, fetchVars, transport, working>>
  \/ /\ FilesOver \/ at = "over" \/ stage \in {"refused", "replay"} \/ phase # "start"
     /\ UNCHANGED sideVars

\* The fairness of ChildProcess: its tasks run and its timeout fires.  Nothing
\* is owed by the disk, and nothing else is promised to end.
SideSpec ==
  /\ SideInit /\ [][SideNext]_sideVars
  /\ WF_sideVars(working = "child" /\ Work /\ UNCHANGED <<fileVars, fetchVars, transport, inputVars, working>>)

-----------------------------------------------------------------------------
\* A child and the tasks that feed and drain it never wait for each other for
\* ever: without a helper, or with a timeout, every call returns.
ChildReturns == working = "child" => Returns
=============================================================================

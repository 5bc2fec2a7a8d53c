---------------------------- MODULE ChildProcess ----------------------------
(* A child process of orno and the tasks around it.  A shell node writes stdin
   and drains stdout and stderr in tasks of their own while it waits for the
   child; the Bash tool drains both pipes, then waits, under a timeout of its
   own.  Pipes are bounded, the child is a script of blocking operations, a
   helper it forks holds its pipes open.                                    *)
EXTENDS CappedCapture

CONSTANTS
  PipeSize,     \* bytes a pipe holds
  Jobs          \* [kind, timed, feed, text, script] of the children tried

ASSUME PipeSizePositive == PipeSize \in Nat \ {0}

ASSUME JobsWellFormed ==
  \A j \in Jobs :
    /\ j.kind = "bash" => j.timed /\ j.feed = 0
    /\ Len(SelectSeq(j.script, LAMBDA op : op = "out")) = Len(j.text)

VARIABLES
  job,       \* the child at hand, fixed
  script,    \* what the child has left to do
  child,     \* up, exited or killed
  helper,    \* none, up or gone
  pipe,      \* bytes in each output pipe
  put,       \* bytes the child wrote to each
  got,       \* bytes each reader holds
  total,     \* bytes each reader counted
  reader,    \* reading or done
  stdin,     \* [left, pipe, writer]
  pc         \* where the executor or the tool is

vars == <<job, script, child, helper, pipe, put, got, total, reader, stdin, pc>>

Streams == {"stdout", "stderr"}

Each(x) == [s \in Streams |-> x]

Init ==
  /\ job \in Jobs /\ script = job.script
  /\ child = "up" /\ helper = "none"
  /\ pipe = Each(<<>>) /\ put = Each(<<>>) /\ got = Each(<<>>) /\ total = Each(0)
  /\ reader = Each("reading")
  /\ stdin = [left |-> job.feed, pipe |-> 0, writer |-> IF job.feed = 0 THEN "none" ELSE "writing"]
  /\ pc = IF job.kind = "shell" THEN "wait" ELSE "drain"

Held == child = "up" \/ helper = "up"

-----------------------------------------------------------------------------
\* The child.
Op(op) == child = "up" /\ script # <<>> /\ Head(script) = op /\ script' = Tail(script)

Writes(s, byte) ==
  /\ Len(pipe[s]) < PipeSize
  /\ pipe' = [pipe EXCEPT ![s] = Append(@, byte)]
  /\ put' = [put EXCEPT ![s] = Append(@, byte)]
  /\ UNCHANGED <<job, child, helper, got, total, reader, stdin, pc>>

ChildWrites ==
  \/ Op("out") /\ Writes("stdout", job.text[Len(put["stdout"]) + 1])
  \/ Op("err") /\ Writes("stderr", 1)

\* A read takes a byte, or sees the end of a stdin that is closed.
ChildReads ==
  /\ Op("in")
  /\ \/ stdin.pipe > 0 /\ stdin' = [stdin EXCEPT !.pipe = @ - 1]
     \/ stdin.pipe = 0 /\ stdin.writer # "writing" /\ UNCHANGED stdin
  /\ UNCHANGED <<job, child, helper, pipe, put, got, total, reader, pc>>

ChildForks ==
  /\ Op("fork") /\ helper' = "up"
  /\ UNCHANGED <<job, child, pipe, put, got, total, reader, stdin, pc>>

\* The end of the script, or a signal before it.
ChildExits ==
  /\ child = "up" /\ child' = "exited"
  /\ UNCHANGED <<job, script, helper, pipe, put, got, total, reader, stdin, pc>>

HelperExits ==
  /\ helper = "up" /\ helper' = "gone"
  /\ UNCHANGED <<job, script, child, pipe, put, got, total, reader, stdin, pc>>

-----------------------------------------------------------------------------
\* The tasks.  Bash's readers are part of its own future and end with it.
Running(s) == reader[s] = "reading" /\ (job.kind = "bash" => pc = "drain")

\* Mutant: a reader that has enough stops draining.
ReaderReadsToCap(s) ==
  /\ Running(s) /\ Len(got[s]) < Cap
  /\ \E k \in 1 .. Len(pipe[s]) :
       /\ got' = [got EXCEPT ![s] = Kept(@, SubSeq(pipe[s], 1, k))]
       /\ total' = [total EXCEPT ![s] = @ + k]
       /\ pipe' = [pipe EXCEPT ![s] = SubSeq(@, k + 1, Len(@))]
  /\ UNCHANGED <<job, script, child, helper, put, reader, stdin, pc>>

\* A chunk is kept up to the cap and counted.
ReaderReads(s) ==
  /\ Running(s)
  /\ \E k \in 1 .. Len(pipe[s]) :
       /\ got' = [got EXCEPT ![s] = Kept(@, SubSeq(pipe[s], 1, k))]
       /\ total' = [total EXCEPT ![s] = @ + k]
       /\ pipe' = [pipe EXCEPT ![s] = SubSeq(@, k + 1, Len(@))]
  /\ UNCHANGED <<job, script, child, helper, put, reader, stdin, pc>>

\* The end of the pipe: nobody holds its other end.
ReaderEnds(s) ==
  /\ Running(s) /\ pipe[s] = <<>> /\ ~ Held
  /\ got' = [got EXCEPT ![s] = Captured(@)]
  /\ reader' = [reader EXCEPT ![s] = "done"]
  /\ UNCHANGED <<job, script, child, helper, pipe, put, total, stdin, pc>>

WriterWrites ==
  /\ stdin.writer = "writing" /\ stdin.left > 0 /\ stdin.pipe < PipeSize /\ Held
  /\ stdin' = [stdin EXCEPT !.left = @ - 1, !.pipe = @ + 1]
  /\ UNCHANGED <<job, script, child, helper, pipe, put, got, total, reader, pc>>

\* The payload is written and stdin closed, or the pipe is broken.
WriterEnds ==
  /\ stdin.writer = "writing" /\ (stdin.left = 0 \/ ~ Held)
  /\ stdin' = [stdin EXCEPT !.writer = "done"]
  /\ UNCHANGED <<job, script, child, helper, pipe, put, got, total, reader, pc>>

-----------------------------------------------------------------------------
Goto(p) == pc' = p /\ UNCHANGED <<job, script, helper, pipe, put, got, total, reader, stdin>>

\* Mutant: a shell node returns once the child has exited.
WaitedOnly ==
  pc = "wait" /\ child # "up" /\ Goto("done") /\ UNCHANGED child

\* child.wait(): then the readers are joined, or (Bash) all is there.
Waited ==
  pc = "wait" /\ child # "up" /\ Goto(IF job.kind = "shell" THEN "join" ELSE "done") /\ UNCHANGED child

\* join! of Bash's readers.
BothDrained ==
  pc = "drain" /\ (\A s \in Streams : reader[s] = "done") /\ Goto("wait") /\ UNCHANGED child

\* The join handles of a shell node: stdout, stderr, the writer.
Joined ==
  /\ pc = "join" /\ (\A s \in Streams : reader[s] = "done") /\ stdin.writer # "writing"
  /\ Goto("done") /\ UNCHANGED child

\* The future is dropped: kill_on_drop kills the child itself; a shell node's
\* tasks are detached and go on.
TimesOut ==
  /\ job.timed /\ pc \in {"wait", "drain", "join"}
  /\ child' = IF child = "up" THEN "killed" ELSE child
  /\ Goto("timeout")

Over == pc \in {"done", "timeout"}

Stays == Over /\ UNCHANGED vars

Work ==
  \/ ChildWrites \/ ChildReads \/ ChildForks
  \/ script = <<>> /\ ChildExits
  \/ \E s \in Streams : ReaderReads(s) \/ ReaderEnds(s)
  \/ WriterWrites \/ WriterEnds
  \/ Waited \/ BothDrained \/ Joined \/ TimesOut

Next == Work \/ ChildExits \/ HelperExits \/ Stays

\* The tasks and the child run, a timeout fires; a helper may stay for ever.
Spec == Init /\ [][Next]_vars /\ WF_vars(Work)

-----------------------------------------------------------------------------
\* What is kept of w written bytes: less than a character short of the cap.
Captures(w, g, n) ==
  /\ n = Len(w)
  /\ IsPrefix(g, w)
  /\ n < Cap => g = w
  /\ Utf8(w) => Len(g) + 3 >= IF n < Cap THEN n ELSE Cap

\* A result holds all the child wrote before it exited, up to the cap: the
\* exit is seen before the pipes are empty, and nothing is lost between.
OutputComplete == pc = "done" => \A s \in Streams : Captures(put[s], got[s], total[s])

\* A child that waits for its reader and a reader that waits for its child
\* must not wait for each other: without a helper, or with a timeout, every
\* call returns.
Returns == (job.timed \/ "fork" \notin Range(job.script)) => <>Over
=============================================================================

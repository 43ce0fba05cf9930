---------------------------- MODULE JobExecution ----------------------------
(***************************************************************************)
(* One job inside a worker: the executor, in a thread of its own, unpacks  *)
(* the bundle and the inputs, runs the container and pushes the lines of   *)
(* its log into an asyncio.Queue; in the event loop a task drains the      *)
(* queue to the gateway, and the agent waits for the executor, stops the   *)
(* log, uploads the outputs to MinIO one by one and reports them.          *)
(*                                                                         *)
(* The queue is made for the tasks of one loop and is pushed to from a     *)
(* thread.  Here a push from the thread is what it is in CPython: the item *)
(* is appended, then the first waiting getter is made ready, and the loop  *)
(* may run between the two; so may the thread between the two steps of a   *)
(* get, which finds the queue empty and then registers its getter.  Making *)
(* a task ready from a thread (call_soon) does not wake a loop that sleeps *)
(* in its selector: that takes another event, as the heartbeat's timer.    *)
(***************************************************************************)
EXTENDS Naturals, Sequences, FiniteSets

CONSTANTS
  File,      \* names of files the script may leave in /out
  Nested,    \* those with a slash: they are in a subdirectory of /out
  Input,     \* staged inputs, as <<kind, slug>>
  MaxLines,  \* bound on the lines of the log
  Failures,  \* whether requests to gateway, MinIO and docker may fail
  OutputsOutlive  \* whether an executor's output files outlive its run: FALSE
                  \* of DockerExecutor; the agent is written for any Executor

\* A kind is competitions or datasets; a slug has no slash (service.py).
ASSUME ExecutionAssumption ==
  /\ IsFiniteSet(File) /\ Nested \subseteq File
  /\ \A i \in Input : i \in STRING \X STRING /\ i[1] # "data"
  /\ MaxLines \in Nat /\ Failures \in BOOLEAN /\ OutputsOutlive \in BOOLEAN

VARIABLES
  thread,     \* the executor thread in _run_sync
  unpacked,   \* the directories in data_dir that hold an input
  lines,      \* the lines the container has logged
  container,  \* the docker container
  tmpdir,     \* whether the temporary directory exists
  out, files, \* what is in /out, result.output_files
  ok,         \* result.exit_code = 0
  queue,      \* LogReporter._queue
  drain, seq, \* LogReporter._drain: where it is, _seq
  asleep,     \* whether the loop sleeps in its selector with the drain task
              \* waiting for a line
  chunks,     \* the log as the gateway received it
  tried,      \* history: the lines taken from the queue
  gaveUp,     \* history: the chunks whose client gave up
  agent,      \* Agent.run
  left,       \* the files _upload_artifacts has not come to
  putting,    \* the file that has an upload URL, if one has
  stored,     \* MinIO: the artifacts of the job
  artifacts, verdict  \* the report

executor == <<thread, unpacked, lines, container, tmpdir, out, files, ok>>
log == <<drain, seq, asleep, chunks, tried, gaveUp>>
report == <<left, putting, stored, artifacts, verdict>>
vars == <<executor, queue, log, agent, report>>

Line == 1..MaxLines
Chunk == [seq: Nat, line: Line]
Stop == 0   \* the None that stop() puts

\* Paths are sequences of names.  str.lstrip takes the leading slash off
\* local_path ...
Relative(path) == [path EXCEPT !.absolute = FALSE]

\* ... and str.replace("/data/", "", 1) takes out a name `data` at the front,
\* if a slash stands before it.
WithoutData(path) ==
  IF path.absolute /\ Head(path.names) = "data"
  THEN [absolute |-> FALSE, names |-> Tail(path.names)]
  ELSE path

LocalPath(i) == [absolute |-> TRUE, names |-> <<"data">> \o i]

\* dest, below data_dir.
Destination(i) == WithoutData(Relative(LocalPath(i))).names

\* data_dir is mounted at /data.
InContainer(dir) == [absolute |-> TRUE, names |-> <<"data">> \o dir]

TypeOK ==
  /\ thread \in {"bundle", "inputs", "logs", "push", "wait", "return", "over"}
  /\ unpacked \subseteq {Destination(i) : i \in Input}
  /\ lines \in 0..MaxLines
  /\ container \in {"none", "running", "exited", "removed"}
  /\ tmpdir \in BOOLEAN /\ ok \in BOOLEAN
  /\ out \subseteq File /\ files \subseteq File
  /\ left \subseteq File /\ putting \subseteq File
  /\ stored \subseteq File /\ artifacts \subseteq File
  /\ queue \in Seq(Line \cup {Stop})
  /\ drain \in {"get", "register", "waiting", "woken", "send", "ended"}
  /\ seq \in Nat
  /\ asleep \in BOOLEAN
  /\ chunks \in Seq(Chunk) /\ gaveUp \subseteq Chunk
  /\ tried \in Seq(Line)
  /\ agent \in {"execute", "drain", "upload", "reported"}
  /\ verdict \in {"none", "succeeded", "failed"}

Init ==
  /\ thread = "bundle" /\ unpacked = {} /\ lines = 0 /\ container = "none"
  /\ tmpdir = TRUE /\ out = {} /\ files = {} /\ ok = FALSE
  /\ queue = <<>> /\ drain = "get" /\ seq = 0 /\ asleep = FALSE
  /\ chunks = <<>> /\ tried = <<>> /\ gaveUp = {}
  /\ agent = "execute" /\ left = {} /\ putting = {}
  /\ stored = {} /\ artifacts = {} /\ verdict = "none"

-----------------------------------------------------------------------------
(* The executor thread.                                                    *)

\* The bundle is fetched and unpacked.
FetchBundle ==
  /\ thread = "bundle"
  /\ thread' = "inputs"
  /\ UNCHANGED <<unpacked, lines, container, tmpdir, out, files, ok, queue, log,
                 agent, report>>

UnpackInput(i) ==
  /\ thread = "inputs"
  /\ Destination(i) \notin unpacked
  /\ unpacked' = unpacked \cup {Destination(i)}
  /\ UNCHANGED <<thread, lines, container, tmpdir, out, files, ok, queue, log,
                 agent, report>>

\* When every input is unpacked the container is started.
StartContainer ==
  /\ thread = "inputs"
  /\ \A i \in Input : Destination(i) \in unpacked
  /\ thread' = "logs" /\ container' = "running"
  /\ UNCHANGED <<unpacked, lines, tmpdir, out, files, ok, queue, log, agent, report>>

\* The container logs a line, and on_log appends it to the queue ...
PushAppend ==
  /\ thread = "logs" /\ container = "running"
  /\ lines < MaxLines
  /\ lines' = lines + 1
  /\ queue' = Append(queue, lines + 1)
  /\ thread' = "push"
  /\ UNCHANGED <<unpacked, container, tmpdir, out, files, ok, log, agent, report>>

Wake(d) == IF d = "waiting" THEN "woken" ELSE d

\* Defective: the item is appended and no getter woken.
PushSilently ==
  /\ thread = "push"
  /\ thread' = "logs"
  /\ UNCHANGED <<unpacked, lines, container, tmpdir, out, files, ok, queue, log,
                 agent, report>>

\* ... and makes the getter ready that waits, if one does.
PushWake ==
  /\ thread = "push"
  /\ thread' = "logs"
  /\ drain' = Wake(drain)
  /\ UNCHANGED <<unpacked, lines, container, tmpdir, out, files, ok, queue, seq,
                 asleep, chunks, tried, gaveUp, agent, report>>

\* The script ends, leaving files in /out: the log is over.
ContainerExits ==
  /\ thread = "logs" /\ container = "running"
  /\ container' = "exited"
  /\ out' \in SUBSET File
  /\ thread' = "wait"
  /\ UNCHANGED <<unpacked, lines, tmpdir, files, ok, queue, log, agent, report>>

\* The container is removed and, when its exit code is 0, the outputs are
\* collected.
Collect ==
  /\ thread = "wait"
  /\ container' = "removed"
  /\ ok' \in BOOLEAN
  /\ files' = IF ok' THEN out ELSE {}
  /\ thread' = "return"
  /\ UNCHANGED <<unpacked, lines, tmpdir, out, queue, log, agent, report>>

\* A fetch fails, or docker does; the exception becomes a result, and a
\* container that was started is left as it is.
ExecutorRaises ==
  /\ Failures
  /\ thread \in {"bundle", "inputs", "logs", "wait"}
  /\ thread' = "return"
  /\ UNCHANGED <<unpacked, lines, container, tmpdir, out, files, ok, queue, log,
                 agent, report>>

\* _run_sync returns out of `with TemporaryDirectory()`.  When the directory
\* cannot be removed this raises, and the agent has a failure for a result.
\* The end of the thread does wake the loop (call_soon_threadsafe).
Return ==
  /\ thread = "return"
  /\ thread' = "over"
  /\ \/ tmpdir' = FALSE /\ out' = {} /\ UNCHANGED <<files, ok>>
     \/ Failures /\ files' = {} /\ ok' = FALSE /\ UNCHANGED <<tmpdir, out>>
  /\ asleep' = FALSE
  /\ UNCHANGED <<unpacked, lines, container, queue, drain, seq, chunks, tried, gaveUp,
                 agent, report>>

-----------------------------------------------------------------------------
(* The event loop: the drain task.                                         *)

\* No task is ready, and the loop enters its selector.  (What any other await
\* waits for is an event that wakes it.)
LoopSleeps ==
  /\ ~asleep /\ drain = "waiting" /\ thread # "over"
  /\ asleep' = TRUE
  /\ UNCHANGED <<executor, queue, drain, seq, chunks, tried, gaveUp, agent, report>>

\* The heartbeat task's sleep is over, or its request.
LoopWakes ==
  /\ asleep
  /\ asleep' = FALSE
  /\ UNCHANGED <<executor, queue, drain, seq, chunks, tried, gaveUp, agent, report>>

\* Defective: the end of the log is sent like a line of it.
TakeAndSend ==
  /\ drain \in {"get", "woken"} /\ ~asleep
  /\ queue # <<>>
  /\ queue' = Tail(queue)
  /\ drain' = IF Head(queue) = Stop THEN "ended" ELSE "send"
  /\ tried' = Append(tried, Head(queue))
  /\ UNCHANGED <<executor, seq, asleep, chunks, gaveUp, agent, report>>

\* Queue.get with something in the queue, and what the task does with it.
Take ==
  /\ drain \in {"get", "woken"} /\ ~asleep
  /\ queue # <<>>
  /\ queue' = Tail(queue)
  /\ IF Head(queue) = Stop
     THEN drain' = "ended" /\ UNCHANGED tried
     ELSE drain' = "send" /\ tried' = Append(tried, Head(queue))
  /\ UNCHANGED <<executor, seq, asleep, chunks, gaveUp, agent, report>>

\* Queue.get with nothing in it: empty() is true, then the getter waits.
FindEmpty ==
  /\ drain \in {"get", "woken"} /\ ~asleep
  /\ queue = <<>>
  /\ drain' = "register"
  /\ UNCHANGED <<executor, queue, seq, asleep, chunks, tried, gaveUp, agent, report>>

Register ==
  /\ drain = "register"
  /\ drain' = "waiting"
  /\ UNCHANGED <<executor, queue, seq, asleep, chunks, tried, gaveUp, agent, report>>

\* The chunk of the line in hand.
InHand == [seq |-> seq, line |-> tried[Len(tried)]]

\* The gateway's handler of a chunk, which does not look at what came before.
AppendLogs(c) == chunks' = Append(chunks, c)

\* Defective: a number is used up by the chunks that fail.
SendLogUncounted ==
  /\ drain = "send"
  /\ AppendLogs(InHand)
  /\ drain' = "get"
  /\ UNCHANGED <<executor, queue, seq, asleep, tried, gaveUp, agent, report>>

\* send_log: the gateway takes the chunk and its answer arrives.
SendLog ==
  /\ drain = "send"
  /\ AppendLogs(InHand)
  /\ seq' = seq + 1
  /\ drain' = "get"
  /\ UNCHANGED <<executor, queue, asleep, tried, gaveUp, agent, report>>

\* Defective: a chunk that was not answered goes back into the queue.
GiveUpAndRequeue ==
  /\ Failures
  /\ drain = "send"
  /\ Len(tried) < 2 * MaxLines
  /\ gaveUp' = gaveUp \cup {InHand}
  /\ queue' = Append(queue, tried[Len(tried)])
  /\ drain' = "get"
  /\ UNCHANGED <<executor, seq, asleep, chunks, tried, agent, report>>

\* No answer arrives in 35 seconds, or an error.  The exception is dropped and
\* the number used for the next line.
GiveUp ==
  /\ Failures
  /\ drain = "send"
  /\ gaveUp' = gaveUp \cup {InHand}
  /\ drain' = "get"
  /\ UNCHANGED <<executor, queue, seq, asleep, chunks, tried, agent, report>>

Arrived(c) == \E i \in 1..Len(chunks) : chunks[i] = c

\* Every chunk has a connection of its own: one whose client gave up may have
\* arrived, get there behind later ones, or never.
LateChunk(c) ==
  /\ c \in gaveUp /\ ~Arrived(c)
  /\ AppendLogs(c)
  /\ UNCHANGED <<executor, queue, drain, seq, asleep, tried, gaveUp, agent, report>>

-----------------------------------------------------------------------------
(* The event loop: the agent.  It runs while the drain task awaits.        *)

LoopIsFree == drain # "register"

\* Defective: the end is put in front of the lines that wait.
StopReporterAtOnce ==
  /\ agent = "execute" /\ thread = "over" /\ LoopIsFree
  /\ queue' = <<Stop>> \o queue
  /\ drain' = Wake(drain)
  /\ agent' = "drain"
  /\ UNCHANGED <<executor, seq, asleep, chunks, tried, gaveUp, report>>

\* Defective: the end is put without waking the getter.
StopReporterSilently ==
  /\ agent = "execute" /\ thread = "over" /\ LoopIsFree
  /\ queue' = Append(queue, Stop)
  /\ agent' = "drain"
  /\ UNCHANGED <<executor, log, report>>

\* executor.run is over: the heartbeat is cancelled and stop() puts None.
StopReporter ==
  /\ agent = "execute" /\ thread = "over" /\ LoopIsFree
  /\ queue' = Append(queue, Stop)
  /\ drain' = Wake(drain)
  /\ agent' = "drain"
  /\ UNCHANGED <<executor, seq, asleep, chunks, tried, gaveUp, report>>

\* stop() has awaited the task; a success goes on to _upload_artifacts.
Drained ==
  /\ agent = "drain" /\ drain = "ended"
  /\ agent' = "upload" /\ left' = files
  /\ UNCHANGED <<executor, queue, log, putting, stored, artifacts, verdict>>

\* path.read_bytes: not when the file is gone.
Readable(f) == OutputsOutlive \/ tmpdir

\* The path of the route has one segment for the name: others are answered 404.
Routed(f) == f \notin Nested

\* The next file is read and the gateway asked for an upload URL.  An error is
\* logged and the file passed over.
UploadUrl(f) ==
  /\ agent = "upload" /\ putting = {} /\ f \in left
  /\ left' = left \ {f}
  /\ \/ Readable(f) /\ Routed(f) /\ putting' = {f}
     \/ (~ Readable(f) \/ ~ Routed(f) \/ Failures) /\ UNCHANGED putting
  /\ UNCHANGED <<executor, queue, log, agent, stored, artifacts, verdict>>

\* Defective: the status of MinIO's answer is not looked at.
PutUnchecked(f, taken, answered) ==
  /\ f \in putting
  /\ Failures \/ taken
  /\ stored' = IF taken THEN stored \cup {f} ELSE stored
  /\ artifacts' = IF answered THEN artifacts \cup {f} ELSE artifacts
  /\ putting' = {}
  /\ UNCHANGED <<executor, queue, log, agent, left, verdict>>

\* The file is put into MinIO, which takes it and its answer may be lost, or
\* does not.  It is reported when the answer arrives.
Put(f, taken, answered) ==
  /\ f \in putting
  /\ answered => taken
  /\ Failures \/ answered
  /\ stored' = IF taken THEN stored \cup {f} ELSE stored
  /\ artifacts' = IF answered THEN artifacts \cup {f} ELSE artifacts
  /\ putting' = {}
  /\ UNCHANGED <<executor, queue, log, agent, left, verdict>>

\* The report is sent; what becomes of it is JobQueue's.
Report ==
  /\ agent = "upload" /\ left = {} /\ putting = {}
  /\ agent' = "reported"
  /\ verdict' = IF ok THEN "succeeded" ELSE "failed"
  /\ UNCHANGED <<executor, queue, log, left, putting, stored, artifacts>>

-----------------------------------------------------------------------------
Executor ==
  \/ FetchBundle \/ (\E i \in Input : UnpackInput(i)) \/ StartContainer
  \/ PushAppend \/ PushWake \/ ContainerExits \/ Collect
  \/ ExecutorRaises \/ Return

DrainTask == Take \/ FindEmpty \/ Register \/ SendLog \/ GiveUp

Upload ==
  \E f \in File :
    UploadUrl(f) \/ \E taken, answered \in BOOLEAN : Put(f, taken, answered)

AgentTask == StopReporter \/ Drained \/ Upload \/ Report

Next ==
  \/ Executor \/ DrainTask \/ AgentTask
  \/ LoopSleeps \/ LoopWakes
  \/ \E c \in gaveUp : LateChunk(c)

Spec == Init /\ [][Next]_vars

\* The loop, when awake, runs what is ready, and the heartbeat's timer wakes it;
\* the thread runs, but the script need not log another line, nor end.
LoopFairness ==
  /\ WF_vars(DrainTask) /\ WF_vars(AgentTask) /\ WF_vars(LoopWakes)
  /\ WF_vars(PushWake) /\ WF_vars(Collect) /\ WF_vars(Return)

LoopSpec == Spec /\ LoopFairness

-----------------------------------------------------------------------------
(* Properties.                                                             *)

\* Whatever the thread and the loop do to the queue at a time, lines are not
\* lost in it, repeated or taken out of order, and none is left when the
\* agent goes on to the report.
NoLineIsLost ==
  /\ tried = [i \in 1..Len(tried) |-> i]
  /\ agent \in {"upload", "reported"} => Len(tried) = lines

\* The gateway receives a line once at most, and behind a later one only if the
\* worker had given it up.
LogIsInOrder ==
  \A i, j \in 1..Len(chunks) : i < j =>
    \/ chunks[i].line < chunks[j].line
    \/ chunks[i].line # chunks[j].line /\ chunks[j] \in gaveUp

\* The numbers tell the order of the lines, late ones included: two lines have
\* the same only if the worker had given up the first of them.
NumbersTellTheOrder ==
  \A i, j \in 1..Len(chunks) : chunks[i].line < chunks[j].line =>
    \/ chunks[i].seq < chunks[j].seq
    \/ chunks[i].seq = chunks[j].seq /\ chunks[i] \in gaveUp

\* A getter that waits is not woken twice and misses no end: once the executor
\* is over, the job is reported.
JobIsReported == thread = "over" ~> agent = "reported"

\* The agent does not wait in stop() for a task that waits for it: once the end
\* is put, the drain task finds something in the queue whenever it looks.
NoWakeupIsLost == agent # "execute" => drain \notin {"register", "waiting"}

\* How many steps of the loop are left at most when the executor is over: to
\* take and send what is in the queue, to wait for the end and be woken, to
\* ask for the URLs of the files, to put them, and to report.
DrainSteps == [get |-> 3, woken |-> 3, send |-> 4, register |-> 2, waiting |-> 1,
               ended |-> 0]
AgentSteps == [execute |-> 7, drain |-> 2, upload |-> 1, reported |-> 0]
ToUpload == IF agent \in {"execute", "drain"} THEN files ELSE left

StepsLeft ==
  2 * Len(queue) + DrainSteps[drain] + AgentSteps[agent]
    + 2 * Cardinality(ToUpload) + Cardinality(putting)

worker == <<executor, queue, drain, seq, asleep, tried, agent, report>>

\* Nothing is tried again once the executor is over: whatever fails, every step
\* of the worker brings the report nearer.
ReportGetsNearer ==
  [][thread = "over" => StepsLeft' \in Nat /\ StepsLeft' < StepsLeft]_worker

\* A push is seen by the reader unless it falls between the reader's look at
\* the queue and its registration: a line pushed at another time is sent though
\* the script logs no other one and runs on, and though the push may leave the
\* loop asleep.
PushedLineIsTaken ==
  \A n \in Line :
    thread = "push" /\ lines = n /\ drain # "register" ~> Len(tried) >= n

\* The report names no artifact that is not in MinIO: the gateway submits what
\* it names to Kaggle.
ReportedArtifactsExist == artifacts \subseteq stored

\* docs/implementation.md: "competitions: [titanic]  # -> /data/competitions/
\* titanic/".  A script finds every input at its local_path.
InputsAreMounted ==
  container = "running" =>
    \A i \in Input : \E dir \in unpacked : InContainer(dir) = LocalPath(i)

\* docs/implementation.md: outputs are "collected from /out/ on success".
\* When nothing fails, a success report lists the files of the script.
OutputsAreReported ==
  verdict = "succeeded" => artifacts = files

-----------------------------------------------------------------------------
(* The abstract specification: the log task is a LogStream.  A line is     *)
(* passed when the answer to its chunk has come, or the client gave up.    *)

Passed == IF drain = "send" THEN Len(tried) - 1 ELSE Len(tried)

Received == [i \in 1..Len(chunks) |-> chunks[i].line]

Adrift == {c.line : c \in {d \in gaveUp : ~Arrived(d)}}

Closed == agent \in {"upload", "reported"}

Stream == INSTANCE LogStream WITH
  logged <- lines, passed <- Passed, adrift <- Adrift, received <- Received,
  closed <- Closed

\* For the gateway the thread, the queue, the tasks and the requests that are
\* lost or late are such a stream.
ImplementsStream == Stream!Spec
=============================================================================

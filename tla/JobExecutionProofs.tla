------------------------- MODULE JobExecutionProofs -------------------------
(***************************************************************************)
(* Theorems about JobExecution: for a log of any length and any files, the *)
(* queue between the executor's thread and the event loop passes on what   *)
(* was pushed, line by line, and its end after all of them.                *)
(***************************************************************************)
EXTENDS JobExecution, FiniteSetTheorems, TLAPS

\* The agent goes on from one part to the next when the part is over.
Phases ==
  /\ agent # "execute" => thread = "over"
  /\ agent = "execute" => drain # "ended"
  /\ agent \in {"upload", "reported"} => drain = "ended"
  /\ drain = "send" => Len(tried) > 0
  /\ asleep => thread # "over" /\ drain \in {"waiting", "woken"}

\* The queue holds the lines that were logged and not taken, in order, and
\* then the end, once it is put and until it is taken.
EndIsIn == agent # "execute" /\ drain # "ended"

Pipe ==
  /\ Len(tried) <= lines
  /\ \A i \in 1..Len(tried) : tried[i] = i
  /\ Len(queue) = (lines - Len(tried)) + (IF EndIsIn THEN 1 ELSE 0)
  /\ \A i \in 1..Len(queue) :
       queue[i] = IF i <= lines - Len(tried) THEN Len(tried) + i ELSE Stop
  /\ drain = "ended" => Len(tried) = lines

\* The chunks that were sent: those the gateway has, and those that may come.
Known == gaveUp \cup {chunks[i] : i \in 1..Len(chunks)}

\* They are of lines that were taken before the one in hand, a chunk for each
\* line, with numbers that rise except behind one that was given up.
Numbered ==
  /\ \A c \in Known :
       /\ c.line <= Len(tried) /\ (drain = "send" => c.line < Len(tried))
       /\ c.seq <= seq /\ (c.seq = seq => c \in gaveUp)
  /\ \A c, d \in Known :
       /\ c.line = d.line => c = d
       /\ c.line < d.line => c.seq < d.seq \/ (c.seq = d.seq /\ c \in gaveUp)

\* The gateway has each of its chunks once, in order as far as they were not
\* given up.
Ordered ==
  \A i, j \in 1..Len(chunks) : i < j =>
    /\ chunks[i] # chunks[j]
    /\ chunks[i].line < chunks[j].line \/ chunks[j] \in gaveUp

Sent == Numbered /\ Ordered

IInv ==
  TypeOK /\ Phases /\ Pipe /\ NoWakeupIsLost /\ Sent /\ ReportedArtifactsExist

\* Initially.
LEMMA InitIInv == Init => IInv
<1> SUFFICES ASSUME Init PROVE IInv
  OBVIOUS
<1>1. queue = <<>> /\ tried = <<>> /\ chunks = <<>>
  BY DEF Init
<1>2. /\ queue \in Seq(Line \cup {Stop}) /\ tried \in Seq(Line)
      /\ chunks \in Seq(Chunk)
      /\ Len(queue) = 0 /\ Len(tried) = 0 /\ Len(chunks) = 0
  BY <1>1
<1>3. /\ thread = "bundle" /\ unpacked = {} /\ lines = 0 /\ container = "none"
      /\ tmpdir = TRUE /\ out = {} /\ files = {} /\ ok = FALSE
      /\ drain = "get" /\ seq = 0 /\ asleep = FALSE /\ gaveUp = {}
      /\ agent = "execute" /\ left = {}
      /\ putting = {} /\ stored = {} /\ artifacts = {} /\ verdict = "none"
  BY Zenon DEF Init
<1>4. TypeOK
  <2>1. lines \in 0..MaxLines /\ seq \in Nat
    BY <1>3, ExecutionAssumption DEF ExecutionAssumption
  <2>2. /\ unpacked \subseteq {Destination(i) : i \in Input}
        /\ out \subseteq File /\ files \subseteq File /\ left \subseteq File
        /\ putting \subseteq File /\ stored \subseteq File /\ artifacts \subseteq File
    BY <1>3, Zenon
  <2>3. tmpdir \in BOOLEAN /\ ok \in BOOLEAN
    BY <1>3
  <2> QED
    BY <1>2, <1>3, <2>1, <2>2, <2>3, Zenon DEF TypeOK
<1>5. Phases /\ Pipe /\ NoWakeupIsLost /\ Sent /\ ReportedArtifactsExist
  BY <1>2, <1>3 DEF Phases, EndIsIn, Pipe, NoWakeupIsLost, Sent, Known, Numbered,
     Ordered, ReportedArtifactsExist
<1> QED
  BY <1>4, <1>5 DEF IInv

\* What most steps leave alone.
LEMMA SentIsKept ==
  /\ Sent /\ UNCHANGED <<seq, chunks, tried, gaveUp>>
  /\ drain' = "send" => drain = "send"
  => Sent'
BY DEF Sent, Known, Numbered, Ordered

\* What a chunk more is.
LEMMA ChunkArrives ==
  ASSUME TypeOK, NEW c \in Chunk, AppendLogs(c)
  PROVE  /\ chunks' \in Seq(Chunk)
         /\ Len(chunks) \in Nat /\ Len(chunks') = Len(chunks) + 1
         /\ \A i \in 1..Len(chunks) : chunks'[i] = chunks[i]
         /\ chunks'[Len(chunks) + 1] = c
         /\ gaveUp' \in {gaveUp, gaveUp \cup {c}} => Known' \subseteq Known \cup {c}
         /\ \A d : Arrived(d)' <=> Arrived(d) \/ d = c
<1>1. chunks \in Seq(Chunk) /\ chunks' = Append(chunks, c)
  BY DEF TypeOK, AppendLogs
<1>2. /\ chunks' \in Seq(Chunk)
      /\ Len(chunks) \in Nat /\ Len(chunks') = Len(chunks) + 1
      /\ \A i \in 1..Len(chunks) : chunks'[i] = chunks[i]
      /\ chunks'[Len(chunks) + 1] = c
  BY <1>1
<1>3. \A i : i \in 1..Len(chunks') <=> i \in 1..Len(chunks) \/ i = Len(chunks) + 1
  BY <1>2
<1>4. gaveUp' \in {gaveUp, gaveUp \cup {c}} => Known' \subseteq Known \cup {c}
  BY <1>2, <1>3 DEF Known
<1>5. \A d : Arrived(d)' <=> Arrived(d) \/ d = c
  BY <1>2, <1>3 DEF Arrived
<1> QED
  BY <1>2, <1>4, <1>5

\* A chunk goes behind those the gateway has.
LEMMA OrderedWithIt ==
  ASSUME TypeOK, Ordered, NEW c \in Chunk, AppendLogs(c), ~Arrived(c),
         gaveUp \subseteq gaveUp',
         \A i \in 1..Len(chunks) : chunks[i].line < c.line \/ c \in gaveUp'
  PROVE  Ordered'
<1> SUFFICES ASSUME NEW i \in 1..Len(chunks'), NEW j \in 1..Len(chunks'), i < j
             PROVE  /\ chunks'[i] # chunks'[j]
                    /\ \/ chunks'[i].line < chunks'[j].line
                       \/ chunks'[j] \in gaveUp'
  BY DEF Ordered
<1>1. i \in 1..Len(chunks) /\ chunks'[i] = chunks[i]
  BY ChunkArrives
<1>2. CASE j \in 1..Len(chunks)
  <2>1. chunks'[j] = chunks[j]
    BY <1>2, ChunkArrives
  <2> QED
    BY <1>1, <1>2, <2>1 DEF Ordered
<1>3. CASE j = Len(chunks) + 1
  <2>1. chunks'[j] = c
    BY <1>3, ChunkArrives
  <2> QED
    BY <1>1, <2>1 DEF Arrived
<1> QED
  BY <1>2, <1>3, ChunkArrives

\* The executor: it runs while the agent waits for it, appends the next line
\* and wakes a getter that waits.
LEMMA ExecutorKeepsIInv == IInv /\ Executor => IInv'
<1> SUFFICES ASSUME IInv, Executor PROVE IInv'
  OBVIOUS
<1> USE DEF IInv, Phases, NoWakeupIsLost, log, report
<1>0. Sent'
  BY SentIsKept DEF Executor, FetchBundle, UnpackInput, StartContainer, PushAppend,
     PushWake, Wake, ContainerExits, Collect, ExecutorRaises, Return
<1>1. ASSUME NEW i \in Input, UnpackInput(i) PROVE IInv'
  BY <1>0, <1>1 DEF UnpackInput, TypeOK, EndIsIn, Pipe, ReportedArtifactsExist
<1>2. CASE PushAppend
  <2>1. /\ lines \in Nat /\ lines' = lines + 1 /\ lines' \in Line
        /\ queue \in Seq(Line \cup {Stop}) /\ queue' = Append(queue, lines + 1)
        /\ Len(tried) \in Nat /\ agent = "execute" /\ drain # "ended"
    BY <1>2, ExecutionAssumption DEF ExecutionAssumption, PushAppend, TypeOK, Line
  <2>2. /\ queue' \in Seq(Line \cup {Stop})
        /\ Len(queue) \in Nat /\ Len(queue') = Len(queue) + 1
        /\ \A i \in 1..Len(queue) : queue'[i] = queue[i]
        /\ queue'[Len(queue) + 1] = lines + 1
    BY <2>1
  <2>3. TypeOK'
    BY <1>2, <2>1, <2>2 DEF PushAppend, TypeOK, Line
  <2>4. Pipe'
    <3>1. Len(queue) = lines - Len(tried)
      BY <2>1 DEF Pipe, EndIsIn
    <3>2. Len(queue') = lines' - Len(tried)
      BY <2>1, <2>2, <3>1
    <3>3. ASSUME NEW i \in 1..Len(queue') PROVE queue'[i] = Len(tried) + i
      <4>1. CASE i \in 1..Len(queue)
        BY <2>1, <2>2, <3>1, <4>1 DEF Pipe
      <4>2. CASE i = Len(queue) + 1
        BY <2>1, <2>2, <3>1, <4>2
      <4> QED
        BY <2>2, <4>1, <4>2
    <3> QED
      BY <1>2, <2>1, <3>2, <3>3 DEF PushAppend, Pipe, EndIsIn
  <2> QED
    BY <1>0, <1>2, <2>3, <2>4 DEF PushAppend, ReportedArtifactsExist
<1>3. CASE PushWake
  BY <1>0, <1>3 DEF PushWake, Wake, TypeOK, EndIsIn, Pipe, ReportedArtifactsExist
<1>4. CASE FetchBundle \/ StartContainer \/ ExecutorRaises
  BY <1>0, <1>4 DEF FetchBundle, StartContainer, ExecutorRaises, TypeOK, EndIsIn,
     Pipe, ReportedArtifactsExist
<1>5. CASE ContainerExits \/ Collect \/ Return
  <2>1. TypeOK'
    BY <1>5 DEF ContainerExits, Collect, Return, TypeOK
  <2> QED
    BY <1>0, <1>5, <2>1 DEF ContainerExits, Collect, Return, EndIsIn, Pipe,
       ReportedArtifactsExist
<1> QED
  BY <1>1, <1>2, <1>3, <1>4, <1>5 DEF Executor

\* The drain task: it takes the next line or, after all of them, the end, and
\* sends what it took before it takes another.
LEMMA DrainKeepsIInv == IInv /\ DrainTask => IInv'
<1> SUFFICES ASSUME IInv, DrainTask PROVE IInv'
  OBVIOUS
<1> USE DEF IInv, executor, report
<1>1. CASE Take
  <2>1. /\ queue \in Seq(Line \cup {Stop}) /\ queue # <<>>
        /\ queue' = Tail(queue)
        /\ tried \in Seq(Line) /\ Len(tried) \in Nat /\ lines \in Nat
        /\ drain # "ended" /\ drain # "send" /\ lines' = lines /\ agent' = agent
    BY <1>1 DEF Take, TypeOK
  <2>2. /\ queue' \in Seq(Line \cup {Stop})
        /\ Len(queue) \in Nat /\ Len(queue) > 0 /\ Len(queue') = Len(queue) - 1
        /\ \A i \in 1..Len(queue') : queue'[i] = queue[i + 1]
        /\ Head(queue) = queue[1]
    BY <2>1
  <2>3. CASE Head(queue) = Stop
    <3>1. drain' = "ended" /\ tried' = tried
      BY <1>1, <2>3 DEF Take
    <3>2. Len(tried) = lines
      <4>1. ~ (1 <= lines - Len(tried))
        BY <2>1, <2>2, <2>3 DEF Pipe, Stop
      <4> QED
        BY <2>1, <4>1 DEF Pipe
    <3>3. agent # "execute" /\ Len(queue') = 0
      BY <2>1, <2>2, <3>2 DEF Pipe, EndIsIn
    <3>4. TypeOK'
      BY <1>1, <2>2, <3>1 DEF Take, TypeOK
    <3>5. Pipe'
      BY <2>1, <2>2, <3>1, <3>2, <3>3 DEF Pipe, EndIsIn
    <3> QED
      BY <1>1, <2>1, <3>1, <3>3, <3>4, <3>5, SentIsKept DEF Take, Phases,
         NoWakeupIsLost, ReportedArtifactsExist
  <2>4. CASE Head(queue) # Stop
    <3>1. drain' = "send" /\ tried' = Append(tried, Head(queue))
      BY <1>1, <2>4 DEF Take
    <3>2. Head(queue) \in Line /\ 1 <= lines - Len(tried)
          /\ Head(queue) = Len(tried) + 1
      BY <2>1, <2>2, <2>4 DEF Pipe, Stop, Line
    <3>3. /\ tried' \in Seq(Line) /\ Len(tried') = Len(tried) + 1
          /\ \A i \in 1..Len(tried) : tried'[i] = tried[i]
          /\ tried'[Len(tried) + 1] = Len(tried) + 1
      BY <2>1, <3>1, <3>2
    <3>4. TypeOK'
      BY <1>1, <2>2, <3>1, <3>3 DEF Take, TypeOK
    <3>5. ASSUME NEW i \in 1..Len(tried') PROVE tried'[i] = i
      <4>1. CASE i \in 1..Len(tried)
        BY <3>3, <4>1 DEF Pipe
      <4>2. CASE i = Len(tried) + 1
        BY <3>3, <4>2
      <4> QED
        BY <2>1, <3>3, <4>1, <4>2
    <3>6. Len(queue') = (lines' - Len(tried')) + (IF EndIsIn' THEN 1 ELSE 0)
      <4>1. EndIsIn' <=> EndIsIn
        BY <2>1, <3>1 DEF EndIsIn
      <4>2. Len(queue) = (lines - Len(tried)) + (IF EndIsIn THEN 1 ELSE 0)
        BY DEF Pipe
      <4> QED
        BY <2>1, <2>2, <3>3, <4>1, <4>2
    <3>7. ASSUME NEW i \in 1..Len(queue')
          PROVE  queue'[i] = IF i <= lines' - Len(tried')
                             THEN Len(tried') + i ELSE Stop
      <4>1. i + 1 \in 1..Len(queue) /\ queue'[i] = queue[i + 1]
        BY <2>2
      <4>2. queue[i + 1] = IF i + 1 <= lines - Len(tried)
                           THEN Len(tried) + (i + 1) ELSE Stop
        BY <4>1 DEF Pipe
      <4> QED
        BY <2>1, <3>3, <4>1, <4>2
    <3>8. Pipe'
      BY <2>1, <3>1, <3>2, <3>3, <3>5, <3>6, <3>7 DEF Pipe
    <3>9. UNCHANGED <<seq, chunks, gaveUp>> /\ Known \subseteq Chunk
      BY <1>1 DEF Take, TypeOK, Known
    <3>10. Sent'
      <4>1. Known' = Known
        BY <3>9 DEF Known
      <4>2. \A c \in Known : c.line \in Nat /\ c.line <= Len(tried)
        BY <3>9 DEF Sent, Numbered, Chunk, Line
      <4>3. \A c \in Known : c.line <= Len(tried') /\ c.line < Len(tried')
        BY <2>1, <3>3, <4>2
      <4> QED
        BY <3>9, <4>1, <4>3 DEF Sent, Numbered, Ordered
    <3>11. Phases' /\ NoWakeupIsLost'
      BY <1>1, <2>1, <3>1, <3>3 DEF Take, Phases, NoWakeupIsLost
    <3> QED
      BY <1>1, <3>4, <3>8, <3>10, <3>11 DEF Take, ReportedArtifactsExist
  <2> QED
    BY <2>3, <2>4
<1>2. CASE FindEmpty
  <2>1. agent = "execute"
    <3>1. Len(queue) = 0 /\ drain # "ended" /\ lines - Len(tried) \in Nat
      BY <1>2 DEF FindEmpty, Pipe, TypeOK
    <3> QED
      BY <3>1 DEF Pipe, EndIsIn
  <2> QED
    BY <1>2, <2>1, SentIsKept DEF FindEmpty, Phases, NoWakeupIsLost, TypeOK, EndIsIn,
       Pipe, ReportedArtifactsExist
<1>3. CASE Register
  BY <1>3, SentIsKept DEF Register, Phases, NoWakeupIsLost, TypeOK, EndIsIn, Pipe,
     ReportedArtifactsExist
<1> DEFINE n == Len(tried)
<1>4. ASSUME drain = "send"
      PROVE  /\ n \in Line /\ InHand = [seq |-> seq, line |-> n] /\ InHand \in Chunk
             /\ Known \subseteq Chunk /\ gaveUp \subseteq Known
             /\ \A c \in Known : /\ c.line < n /\ c.seq <= seq
                                 /\ c.seq = seq => c \in gaveUp
             /\ InHand \notin gaveUp /\ ~Arrived(InHand)
  <2>1. n \in Nat /\ n > 0 /\ tried \in Seq(Line) /\ seq \in Nat
    BY <1>4 DEF Phases, TypeOK
  <2>2. n \in Line /\ InHand = [seq |-> seq, line |-> n]
    BY <2>1 DEF Pipe, InHand
  <2>3. InHand \in Chunk /\ InHand.line = n
    BY <2>1, <2>2 DEF Chunk
  <2>4. Known \subseteq Chunk /\ gaveUp \subseteq Known
    BY DEF TypeOK, Known
  <2>5. \A c \in Known : c.line < n /\ c.seq <= seq /\ (c.seq = seq => c \in gaveUp)
    BY <1>4 DEF Sent, Numbered
  <2>6. InHand \notin Known
    BY <2>1, <2>3, <2>5
  <2> QED
    BY <2>2, <2>3, <2>4, <2>5, <2>6 DEF Known, Arrived
<1>5. ASSUME drain = "send", drain' = "get", UNCHANGED tried,
             Known' \subseteq Known \cup {InHand},
             gaveUp \subseteq gaveUp', seq' \in Nat, seq' >= seq,
             seq' = seq => InHand \in gaveUp'
      PROVE  Numbered'
  <2>1. n \in Nat /\ seq \in Nat /\ InHand.seq = seq /\ InHand.line = n
    BY <1>4, <1>5 DEF TypeOK
  <2>2. ASSUME NEW c \in Known
        PROVE  c.line \in Nat /\ c.seq \in Nat
    BY <1>4, <1>5, <2>2 DEF Chunk, Line
  <2>3. ASSUME NEW c \in Known'
        PROVE  c.line <= n /\ c.seq <= seq' /\ (c.seq = seq' => c \in gaveUp')
    BY <1>4, <1>5, <2>1, <2>2
  <2>4. ASSUME NEW c \in Known', NEW d \in Known'
        PROVE  /\ c.line = d.line => c = d
               /\ c.line < d.line => c.seq < d.seq \/ (c.seq = d.seq /\ c \in gaveUp')
    <3>1. CASE c \in Known /\ d \in Known
      BY <1>5, <3>1 DEF Sent, Numbered
    <3>2. CASE c = InHand
      BY <1>4, <1>5, <2>1, <2>2, <3>2
    <3>3. CASE c \in Known /\ d = InHand
      BY <1>4, <1>5, <2>1, <2>2, <3>3
    <3> QED
      BY <1>5, <3>1, <3>2, <3>3
  <2> QED
    BY <1>5, <2>3, <2>4 DEF Numbered
<1>6. CASE SendLog
  <2>1. /\ drain = "send" /\ drain' = "get" /\ AppendLogs(InHand)
        /\ seq' = seq + 1 /\ UNCHANGED <<tried, gaveUp>>
    BY <1>6 DEF SendLog
  <2>2. chunks' \in Seq(Chunk) /\ Known' \subseteq Known \cup {InHand}
    BY <1>4, <2>1, ChunkArrives
  <2>3. Numbered'
    BY <1>5, <2>1, <2>2 DEF TypeOK
  <2>4. \A i \in 1..Len(chunks) : chunks[i].line < InHand.line
    BY <1>4, <2>1 DEF Known
  <2>5. Ordered'
    BY <1>4, <2>1, <2>4, OrderedWithIt DEF Sent
  <2> QED
    BY <1>6, <2>1, <2>2, <2>3, <2>5 DEF SendLog, Sent, Phases, EndIsIn, Pipe, TypeOK,
       NoWakeupIsLost, ReportedArtifactsExist
<1>7. CASE GiveUp
  <2>1. /\ drain = "send" /\ drain' = "get" /\ UNCHANGED <<chunks, seq, tried>>
        /\ gaveUp' = gaveUp \cup {InHand}
    BY <1>7 DEF GiveUp
  <2>2. Known' \subseteq Known \cup {InHand}
    BY <2>1 DEF Known
  <2>3. Numbered'
    BY <1>5, <2>1, <2>2 DEF TypeOK
  <2>4. Ordered'
    BY <2>1 DEF Sent, Ordered
  <2> QED
    BY <1>4, <1>7, <2>1, <2>3, <2>4 DEF GiveUp, Sent, Phases, EndIsIn, Pipe, TypeOK,
       NoWakeupIsLost, ReportedArtifactsExist
<1> QED
  BY <1>1, <1>2, <1>3, <1>6, <1>7 DEF DrainTask

\* The loop sleeps and wakes, and a chunk that was given up arrives.
LEMMA OthersKeepIInv ==
  IInv /\ (LoopSleeps \/ LoopWakes \/ \E c \in gaveUp : LateChunk(c)) => IInv'
<1> SUFFICES ASSUME IInv, LoopSleeps \/ LoopWakes \/ \E c \in gaveUp : LateChunk(c)
             PROVE  IInv'
  OBVIOUS
<1> USE DEF IInv, executor, report
<1>1. CASE LoopSleeps \/ LoopWakes
  <2>1. TypeOK'
    BY <1>1 DEF LoopSleeps, LoopWakes, TypeOK
  <2>2. Sent'
    BY <1>1, SentIsKept DEF LoopSleeps, LoopWakes
  <2> QED
    BY <1>1, <2>1, <2>2 DEF LoopSleeps, LoopWakes, Phases, EndIsIn, Pipe,
       NoWakeupIsLost, ReportedArtifactsExist
<1>2. ASSUME NEW c \in gaveUp, LateChunk(c) PROVE IInv'
  <2>1. /\ c \in Chunk /\ ~Arrived(c) /\ AppendLogs(c)
        /\ UNCHANGED <<drain, seq, tried, gaveUp>>
    BY <1>2 DEF LateChunk, TypeOK
  <2>2. chunks' \in Seq(Chunk) /\ Known' \subseteq Known
    BY <2>1, ChunkArrives DEF Known
  <2>3. Numbered'
    BY <2>1, <2>2 DEF Sent, Numbered
  <2>4. Ordered'
    BY <2>1, OrderedWithIt DEF Sent
  <2> QED
    BY <1>2, <2>1, <2>2, <2>3, <2>4 DEF LateChunk, Sent, Phases, EndIsIn, Pipe, TypeOK,
       NoWakeupIsLost, ReportedArtifactsExist
<1> QED
  BY <1>1, <1>2

\* The agent: the end is put behind the lines, when no more can come, and an
\* artifact is reported when MinIO has taken it.
LEMMA AgentKeepsIInv == IInv /\ AgentTask => IInv'
<1> SUFFICES ASSUME IInv, AgentTask PROVE IInv'
  OBVIOUS
<1> USE DEF IInv, Phases, NoWakeupIsLost, executor, log, report
<1>0. Sent'
  BY SentIsKept DEF AgentTask, StopReporter, Wake, Drained, Upload, UploadUrl, Put,
     Report
<1>1. CASE StopReporter
  <2>1. /\ queue \in Seq(Line \cup {Stop}) /\ queue' = Append(queue, Stop)
        /\ Len(tried) \in Nat /\ lines \in Nat
        /\ agent = "execute" /\ agent' = "drain" /\ thread = "over"
        /\ drain # "ended" /\ drain' # "ended" /\ (drain' = "send" <=> drain = "send")
    BY <1>1 DEF StopReporter, Wake, TypeOK
  <2>2. /\ queue' \in Seq(Line \cup {Stop})
        /\ Len(queue) \in Nat /\ Len(queue') = Len(queue) + 1
        /\ \A i \in 1..Len(queue) : queue'[i] = queue[i]
        /\ queue'[Len(queue) + 1] = Stop
    BY <2>1
  <2>3. TypeOK'
    BY <1>1, <2>2 DEF StopReporter, Wake, TypeOK
  <2>4. Pipe'
    <3>1. Len(queue) = lines - Len(tried)
      BY <2>1 DEF Pipe, EndIsIn
    <3>2. ASSUME NEW i \in 1..Len(queue')
          PROVE  queue'[i] = IF i <= lines - Len(tried)
                             THEN Len(tried) + i ELSE Stop
      <4>1. CASE i \in 1..Len(queue)
        BY <2>1, <2>2, <3>1, <4>1 DEF Pipe
      <4>2. CASE i = Len(queue) + 1
        BY <2>1, <2>2, <3>1, <4>2
      <4> QED
        BY <2>2, <4>1, <4>2
    <3> QED
      BY <1>1, <2>1, <2>2, <3>1, <3>2 DEF StopReporter, Pipe, EndIsIn
  <2> QED
    BY <1>0, <1>1, <2>1, <2>3, <2>4 DEF StopReporter, LoopIsFree, Wake, ReportedArtifactsExist
<1>2. CASE Drained \/ Report
  BY <1>0, <1>2 DEF Drained, Report, TypeOK, EndIsIn, Pipe, ReportedArtifactsExist
<1>3. ASSUME NEW f \in File, UploadUrl(f) PROVE IInv'
  BY <1>0, <1>3 DEF UploadUrl, TypeOK, EndIsIn, Pipe, ReportedArtifactsExist
<1>4. ASSUME NEW f \in File, NEW taken \in BOOLEAN, NEW answered \in BOOLEAN,
             Put(f, taken, answered)
      PROVE  IInv'
  BY <1>0, <1>4 DEF Put, TypeOK, EndIsIn, Pipe, ReportedArtifactsExist
<1> QED
  BY <1>1, <1>2, <1>3, <1>4 DEF AgentTask, Upload

\* So it always holds.
LEMMA SpecHasIInv == Spec => []IInv
<1>1. Init => IInv
  BY InitIInv
<1>2. IInv /\ [Next]_vars => IInv'
  <2>1. IInv /\ UNCHANGED vars => IInv'
    BY SentIsKept DEF vars, executor, log, report, IInv, TypeOK, Phases, EndIsIn, Pipe,
       NoWakeupIsLost, ReportedArtifactsExist
  <2> QED
    BY <2>1, ExecutorKeepsIInv, DrainKeepsIInv, AgentKeepsIInv, OthersKeepIInv
    DEF Next
<1> QED
  BY <1>1, <1>2, PTL DEF Spec

-----------------------------------------------------------------------------
(* The end of the job: what is left to do when the executor is over.       *)

\* The numbers of which StepsLeft is the sum.
LEMMA StepsLeftType ==
  TypeOK =>
    /\ Len(queue) \in Nat
    /\ DrainSteps[drain] \in Nat /\ AgentSteps[agent] \in Nat
    /\ IsFiniteSet(ToUpload) /\ Cardinality(ToUpload) \in Nat
    /\ IsFiniteSet(putting) /\ Cardinality(putting) \in Nat
    /\ StepsLeft \in Nat
<1> SUFFICES ASSUME TypeOK
             PROVE  /\ Len(queue) \in Nat
                    /\ DrainSteps[drain] \in Nat /\ AgentSteps[agent] \in Nat
                    /\ IsFiniteSet(ToUpload) /\ Cardinality(ToUpload) \in Nat
                    /\ IsFiniteSet(putting) /\ Cardinality(putting) \in Nat
                    /\ StepsLeft \in Nat
  OBVIOUS
<1>1. Len(queue) \in Nat
  BY DEF TypeOK
<1>2. DrainSteps[drain] \in Nat /\ AgentSteps[agent] \in Nat
  BY DEF TypeOK, DrainSteps, AgentSteps
<1>3. ASSUME NEW S \in SUBSET File
      PROVE  IsFiniteSet(S) /\ Cardinality(S) \in Nat
  BY ExecutionAssumption, FS_Subset, FS_CardinalityType DEF ExecutionAssumption
<1>4. ToUpload \in SUBSET File /\ putting \in SUBSET File
  BY DEF TypeOK, ToUpload
<1>5. /\ IsFiniteSet(ToUpload) /\ Cardinality(ToUpload) \in Nat
      /\ IsFiniteSet(putting) /\ Cardinality(putting) \in Nat
  BY <1>3, <1>4
<1>6. StepsLeft \in Nat
  BY <1>1, <1>2, <1>5 DEF StepsLeft
<1> QED
  BY <1>1, <1>2, <1>5, <1>6

\* A step after the end of the executor is one of the two tasks, and each of
\* theirs uses up more than it adds.
LEMMA StepsCountDown ==
  /\ TypeOK /\ Phases /\ TypeOK' /\ thread = "over"
  /\ Next /\ worker' # worker
  => StepsLeft' < StepsLeft
<1> SUFFICES ASSUME TypeOK, Phases, TypeOK', thread = "over", Next, worker' # worker
             PROVE  StepsLeft' < StepsLeft
  OBVIOUS
<1>1. DrainTask \/ AgentTask
  <2>1. ~Executor
    BY DEF Executor, FetchBundle, UnpackInput, StartContainer, PushAppend,
       PushWake, ContainerExits, Collect, ExecutorRaises, Return
  <2>2. ~LoopSleeps /\ ~LoopWakes
    BY DEF LoopSleeps, LoopWakes, Phases
  <2>3. ASSUME NEW c \in gaveUp PROVE ~LateChunk(c)
    BY DEF LateChunk, worker
  <2> QED
    BY <2>1, <2>2, <2>3 DEF Next
<1>2. /\ Len(queue) \in Nat
      /\ DrainSteps[drain] \in Nat /\ AgentSteps[agent] \in Nat
      /\ IsFiniteSet(ToUpload) /\ Cardinality(ToUpload) \in Nat
      /\ IsFiniteSet(putting) /\ Cardinality(putting) \in Nat
  BY StepsLeftType
<1>3. /\ Len(queue') \in Nat
      /\ DrainSteps[drain'] \in Nat /\ AgentSteps[agent'] \in Nat
      /\ Cardinality(ToUpload') \in Nat /\ Cardinality(putting') \in Nat
  <2>1. TypeOK' => (/\ Len(queue) \in Nat
                    /\ DrainSteps[drain] \in Nat /\ AgentSteps[agent] \in Nat
                    /\ Cardinality(ToUpload) \in Nat
                    /\ Cardinality(putting) \in Nat)'
    BY StepsLeftType, PTL
  <2> QED
    BY <2>1
<1> DEFINE tasks == DrainSteps[drain] + AgentSteps[agent]
           uploads == 2 * Cardinality(ToUpload) + Cardinality(putting)
<1>4. /\ StepsLeft = 2 * Len(queue) + tasks + uploads
      /\ StepsLeft' = 2 * Len(queue') + tasks' + uploads'
      /\ tasks \in Nat /\ tasks' \in Nat /\ uploads \in Nat /\ uploads' \in Nat
  <2>1. tasks \in Nat /\ uploads \in Nat
    BY <1>2
  <2>2. tasks' \in Nat
    BY <1>3
  <2>3. uploads' \in Nat
    BY <1>3
  <2>4. StepsLeft = 2 * Len(queue) + tasks + uploads
    BY <1>2 DEF StepsLeft
  <2>5. StepsLeft' = 2 * Len(queue') + tasks' + uploads'
    BY <1>3 DEF StepsLeft
  <2> QED
    BY <2>1, <2>2, <2>3, <2>4, <2>5
<1> HIDE DEF tasks, uploads
<1>5. CASE DrainTask \/ StopReporter
  <2>1. uploads' = uploads
    BY <1>5 DEF DrainTask, Take, FindEmpty, Register, SendLog, GiveUp, StopReporter,
       executor, report, ToUpload, uploads
  <2>2. CASE Take
    <3>1. /\ queue \in Seq(Line \cup {Stop}) /\ queue # <<>>
          /\ queue' = Tail(queue)
      BY <2>2 DEF Take, TypeOK
    <3>2. Len(queue') = Len(queue) - 1
      BY <3>1
    <3>3. tasks' <= tasks + 1
      BY <2>2 DEF Take, DrainSteps, AgentSteps, TypeOK, tasks
    <3> QED
      BY <1>2, <1>4, <2>1, <3>2, <3>3
  <2>3. CASE FindEmpty \/ Register \/ SendLog \/ GiveUp
    <3>1. queue' = queue
      BY <2>3 DEF FindEmpty, Register, SendLog, GiveUp
    <3>2. tasks' < tasks
      BY <2>3 DEF FindEmpty, Register, SendLog, GiveUp, DrainSteps, AgentSteps,
         TypeOK, tasks
    <3> QED
      BY <1>2, <1>4, <2>1, <3>1, <3>2
  <2>4. CASE StopReporter
    <3>1. queue \in Seq(Line \cup {Stop}) /\ queue' = Append(queue, Stop)
      BY <2>4 DEF StopReporter, TypeOK
    <3>2. Len(queue') = Len(queue) + 1
      BY <3>1
    <3>3. tasks' <= tasks - 3
      BY <2>4 DEF StopReporter, Wake, DrainSteps, AgentSteps, TypeOK, tasks
    <3> QED
      BY <1>2, <1>4, <2>1, <3>2, <3>3
  <2> QED
    BY <1>5, <2>2, <2>3, <2>4 DEF DrainTask
<1>6. CASE Drained \/ Report
  <2>1. queue' = queue /\ uploads' = uploads
    BY <1>6 DEF Drained, Report, executor, ToUpload, uploads
  <2>2. tasks' < tasks
    BY <1>6 DEF Drained, Report, log, DrainSteps, AgentSteps, TypeOK, tasks
  <2> QED
    BY <1>2, <1>4, <2>1, <2>2
<1>7. CASE Upload
  <2>1. queue' = queue /\ tasks' = tasks
    BY <1>7 DEF Upload, UploadUrl, Put, log, tasks
  <2>2. uploads' < uploads
    <3>1. ASSUME NEW f \in File, UploadUrl(f) PROVE uploads' < uploads
      <4>1. /\ f \in ToUpload /\ ToUpload' = ToUpload \ {f}
            /\ putting = {} /\ (putting' = {f} \/ putting' = {})
        BY <3>1 DEF UploadUrl, executor, ToUpload
      <4>2. Cardinality(ToUpload') = Cardinality(ToUpload) - 1
        BY <1>2, <4>1, FS_RemoveElement
      <4>3. Cardinality(putting') <= 1
        <5>1. Cardinality({f}) = 1 /\ Cardinality({}) = 0
          BY FS_EmptySet, FS_Singleton
        <5> QED
          BY <4>1, <5>1
      <4> QED
        BY <1>2, <1>3, <4>2, <4>3 DEF uploads
    <3>2. ASSUME NEW f \in File, NEW taken \in BOOLEAN, NEW answered \in BOOLEAN,
                 Put(f, taken, answered)
          PROVE  uploads' < uploads
      <4>1. ToUpload' = ToUpload /\ putting # {} /\ putting' = {}
        BY <3>2 DEF Put, executor, ToUpload
      <4>2. Cardinality(putting') = 0 /\ Cardinality(putting) # 0
        BY <1>2, <4>1, FS_EmptySet
      <4> QED
        BY <1>2, <4>1, <4>2 DEF uploads
    <3> QED
      BY <1>7, <3>1, <3>2 DEF Upload
  <2> QED
    BY <1>2, <1>4, <2>1, <2>2
<1> QED
  BY <1>1, <1>5, <1>6, <1>7 DEF AgentTask

-----------------------------------------------------------------------------
(* The theorems.                                                           *)

\* The queue, the tasks, the files and the report are what their declarations
\* say.
THEOREM ExecutionTypeCorrect == Spec => []TypeOK
<1>1. IInv => TypeOK
  BY DEF IInv
<1> QED
  BY SpecHasIInv, <1>1, PTL

\* Thread and loop lose no line in the queue, repeat none and take them in
\* order, and all are taken before the agent goes on to its report.
THEOREM NoLineGetsLost == Spec => []NoLineIsLost
<1>1. IInv => NoLineIsLost
  <2> SUFFICES ASSUME IInv PROVE NoLineIsLost
    OBVIOUS
  <2>1. tried \in Seq(Line) /\ \A i \in 1..Len(tried) : tried[i] = i
    BY DEF IInv, TypeOK, Pipe
  <2>2. tried = [i \in 1..Len(tried) |-> i]
    BY <2>1
  <2> QED
    BY <2>2 DEF IInv, Phases, Pipe, NoLineIsLost
<1> QED
  BY SpecHasIInv, <1>1, PTL

\* What is true of two chunks that the gateway has.
LEMMA TwoChunks ==
  ASSUME IInv, NEW i \in 1..Len(chunks), NEW j \in 1..Len(chunks)
  PROVE  /\ chunks[i] \in Known /\ chunks[j] \in Known
         /\ chunks[i].line \in Nat /\ chunks[j].line \in Nat
<1>1. chunks[i] \in Chunk /\ chunks[j] \in Chunk
  BY DEF IInv, TypeOK
<1> QED
  BY <1>1 DEF Known, Chunk, Line

\* The gateway receives each line once at most, whichever requests and answers
\* are lost or late, and none behind a later one but those that were given up.
THEOREM LogArrivesInOrder == Spec => []LogIsInOrder
<1>1. IInv => LogIsInOrder
  <2> SUFFICES ASSUME IInv, NEW i \in 1..Len(chunks), NEW j \in 1..Len(chunks), i < j
               PROVE  \/ chunks[i].line < chunks[j].line
                      \/ chunks[i].line # chunks[j].line /\ chunks[j] \in gaveUp
    BY DEF LogIsInOrder
  <2>1. /\ chunks[i] # chunks[j]
        /\ chunks[i].line < chunks[j].line \/ chunks[j] \in gaveUp
    BY DEF IInv, Sent, Ordered
  <2>2. chunks[i].line # chunks[j].line
    BY <2>1, TwoChunks DEF IInv, Sent, Numbered
  <2> QED
    BY <2>1, <2>2
<1> QED
  BY SpecHasIInv, <1>1, PTL

\* The numbers of the chunks tell the order of their lines in whichever order
\* they arrive, but for the lines whose number was used again.
THEOREM NumbersAreInOrder == Spec => []NumbersTellTheOrder
<1>1. IInv => NumbersTellTheOrder
  BY TwoChunks DEF IInv, Sent, Numbered, NumbersTellTheOrder
<1> QED
  BY SpecHasIInv, <1>1, PTL

\* A report names no artifact that MinIO does not have.
THEOREM ArtifactsExist == Spec => []ReportedArtifactsExist
<1>1. IInv => ReportedArtifactsExist
  BY DEF IInv
<1> QED
  BY SpecHasIInv, <1>1, PTL

-----------------------------------------------------------------------------
(* The refinement of LogStream.                                            *)

\* What a chunk more is for the lines received.
LEMMA ReceivedAppend ==
  ASSUME TypeOK, NEW c \in Chunk, AppendLogs(c)
  PROVE  Received' = Append(Received, c.line)
<1>1. /\ Len(chunks) \in Nat /\ Len(chunks') = Len(chunks) + 1
      /\ \A i \in 1..Len(chunks) : chunks'[i] = chunks[i]
      /\ chunks'[Len(chunks) + 1] = c
  BY ChunkArrives
<1>2. Received \in Seq(Line) /\ Len(Received) = Len(chunks)
  <2>1. chunks \in Seq(Chunk)
    BY DEF TypeOK
  <2>2. \A i \in 1..Len(chunks) : chunks[i] \in Chunk
    BY <2>1
  <2>3. \A i \in 1..Len(chunks) : chunks[i].line \in Line
    BY <2>2 DEF Chunk
  <2> QED
    BY <1>1, <2>3 DEF Received
<1> DEFINE s == Append(Received, c.line)
<1>3. /\ s \in Seq(Line) /\ Len(s) = Len(chunks) + 1
      /\ \A i \in 1..Len(chunks) : s[i] = Received[i]
      /\ s[Len(chunks) + 1] = c.line
  BY <1>1, <1>2 DEF Chunk
<1> HIDE DEF s
<1>4. ASSUME NEW i \in 1..Len(chunks') PROVE chunks'[i].line = s[i]
  <2>1. CASE i \in 1..Len(chunks)
    BY <1>1, <1>3, <2>1 DEF Received
  <2>2. CASE i = Len(chunks) + 1
    BY <1>1, <1>3, <2>2
  <2> QED
    BY <1>1, <2>1, <2>2
<1>5. s = [i \in 1..Len(s) |-> s[i]]
  BY <1>3
<1>6. Received' = s
  BY <1>1, <1>3, <1>4, <1>5 DEF Received
<1> QED
  BY <1>6 DEF s

\* The steps of the stream, and its stutters.
LEMMA StreamStep ==
  IInv /\ [Next]_vars => [Stream!Next]_(Stream!vars)
<1> SUFFICES ASSUME IInv, [Next]_vars
             PROVE  Stream!Next \/ UNCHANGED Stream!vars
  OBVIOUS
<1> USE DEF Stream!vars
<1>0. /\ lines \in Nat /\ Len(tried) \in Nat /\ tried \in Seq(Line)
      /\ TypeOK /\ seq \in Nat /\ gaveUp \subseteq Chunk
      /\ (agent # "execute" => thread = "over")
      /\ (drain = "send" => Len(tried) > 0)
      /\ Len(tried) <= lines /\ \A i \in 1..Len(tried) : tried[i] = i
  BY DEF IInv, TypeOK, Phases, Pipe
<1>1. CASE PushAppend
  <2>1. /\ ~Closed /\ lines' = lines + 1
        /\ UNCHANGED <<tried, drain, chunks, gaveUp, agent>>
    BY <1>0, <1>1 DEF PushAppend, log, Closed
  <2>2. Stream!Log
    BY <2>1 DEF Stream!Log, Passed, Received, Adrift, Arrived, Closed
  <2> QED
    BY <2>2 DEF Stream!Next
<1>2. CASE \/ FetchBundle \/ StartContainer \/ ContainerExits \/ Collect
           \/ ExecutorRaises \/ Return \/ PushWake
           \/ \E i \in Input : UnpackInput(i)
  BY <1>2 DEF FetchBundle, StartContainer, ContainerExits, Collect,
     ExecutorRaises, Return, PushWake, Wake, UnpackInput, log, Passed, Received, Adrift,
     Arrived, Closed
<1>3. CASE Take
  <2>1. Passed' = Passed
    <3>1. CASE Head(queue) = Stop
      BY <1>3, <3>1 DEF Take, Passed
    <3>2. CASE Head(queue) # Stop
      <4>1. /\ drain # "send" /\ drain' = "send"
            /\ tried' = Append(tried, Head(queue))
        BY <1>3, <3>2 DEF Take
      <4>2. Len(tried') = Len(tried) + 1
        BY <1>0, <4>1
      <4> QED
        BY <1>0, <4>1, <4>2 DEF Passed
    <3> QED
      BY <3>1, <3>2
  <2> QED
    BY <1>3, <2>1 DEF Take, executor, Received, Adrift, Arrived, Closed
<1>4. CASE FindEmpty \/ Register \/ LoopSleeps \/ LoopWakes
  BY <1>4 DEF FindEmpty, Register, LoopSleeps, LoopWakes, executor, Passed, Received,
     Adrift, Arrived, Closed
<1> DEFINE n == Len(tried)
<1>5. ASSUME drain = "send", drain' = "get", UNCHANGED tried
      PROVE  /\ n > 0 /\ Passed = n - 1 /\ Passed' = n /\ n = Passed + 1 /\ n <= lines
             /\ InHand \in Chunk /\ InHand.line = n
             /\ \A c \in Known : c.line < n
             /\ InHand \notin gaveUp /\ ~Arrived(InHand)
  <2>1. n \in Nat /\ n > 0 /\ n <= lines /\ tried[n] = n /\ n \in Line
    BY <1>0, <1>5
  <2>2. InHand \in Chunk /\ InHand.line = n
    BY <1>0, <2>1 DEF InHand, Chunk
  <2>3. \A c \in Known : c.line < n
    BY <1>5 DEF IInv, Sent, Numbered
  <2>4. InHand \notin Known
    BY <2>1, <2>2, <2>3
  <2> QED
    BY <1>5, <2>1, <2>2, <2>3, <2>4 DEF Passed, Known, Arrived
<1>6. ASSUME SendLog PROVE Stream!Next
  <2>1. /\ drain = "send" /\ drain' = "get" /\ AppendLogs(InHand)
        /\ UNCHANGED <<lines, tried, agent, gaveUp>>
    BY <1>6 DEF SendLog, executor
  <2>2. Received' = Append(Received, n)
    BY <1>0, <1>5, <2>1, ReceivedAppend
  <2>3. Adrift' = Adrift
    <3>1. \A d \in gaveUp : Arrived(d)' <=> Arrived(d)
      BY <1>0, <1>5, <2>1, ChunkArrives
    <3> QED
      BY <2>1, <3>1 DEF Adrift
  <2>4. Stream!Pass
    BY <1>0, <1>5, <2>1, <2>2, <2>3 DEF Stream!Pass, Closed
  <2> QED
    BY <2>4 DEF Stream!Next
<1>7. ASSUME GiveUp PROVE Stream!Next
  <2>1. /\ drain = "send" /\ drain' = "get" /\ gaveUp' = gaveUp \cup {InHand}
        /\ UNCHANGED <<lines, tried, agent, chunks>>
    BY <1>7 DEF GiveUp, executor
  <2>2. Received' = Received /\ \A d : Arrived(d)' <=> Arrived(d)
    BY <2>1 DEF Received, Arrived
  <2>3. Adrift' = Adrift \cup {n}
    BY <1>5, <2>1, <2>2 DEF Adrift
  <2>4. Stream!Pass
    BY <1>0, <1>5, <2>1, <2>2, <2>3 DEF Stream!Pass, Closed
  <2> QED
    BY <2>4 DEF Stream!Next
<1>8. ASSUME NEW c \in gaveUp, LateChunk(c) PROVE Stream!Next
  <2>1. /\ ~Arrived(c) /\ AppendLogs(c) /\ c \in Chunk
        /\ UNCHANGED <<lines, drain, tried, agent, gaveUp>>
    BY <1>0, <1>8 DEF LateChunk, executor
  <2>2. Received' = Append(Received, c.line)
    BY <1>0, <2>1, ReceivedAppend
  <2>3. \A d \in gaveUp : d.line = c.line => d = c
    BY DEF IInv, Sent, Numbered, Known
  <2>4. \A d \in gaveUp : Arrived(d)' <=> Arrived(d) \/ d = c
    BY <1>0, <2>1, ChunkArrives
  <2>5. c.line \in Adrift /\ Adrift' = Adrift \ {c.line}
    BY <2>1, <2>3, <2>4 DEF Adrift
  <2>6. Stream!Arrive(c.line)
    BY <2>1, <2>2, <2>5 DEF Stream!Arrive, Passed, Closed
  <2> QED
    BY <2>5, <2>6 DEF Stream!Next
<1>9. CASE Drained
  <2>1. ~Closed /\ Closed' /\ UNCHANGED <<lines, tried, drain, chunks, gaveUp>>
    BY <1>9 DEF Drained, executor, log, Closed
  <2>2. Passed = lines
    BY <1>9 DEF Drained, IInv, Pipe, Passed
  <2>3. Stream!Close
    BY <2>1, <2>2 DEF Stream!Close, Passed, Received, Adrift, Arrived
  <2> QED
    BY <2>3 DEF Stream!Next
<1>10. CASE StopReporter \/ Upload \/ Report
  BY <1>10 DEF StopReporter, Wake, Upload, UploadUrl, Put, Report, executor, log,
     Passed, Received, Adrift, Arrived, Closed
<1>11. CASE UNCHANGED vars
  BY <1>11 DEF vars, executor, log, Passed, Received, Adrift, Arrived, Closed
<1> QED
  BY <1>1, <1>2, <1>3, <1>4, <1>6, <1>7, <1>8, <1>9, <1>10, <1>11
  DEF Next, Executor, DrainTask, AgentTask

\* The log of a job is a stream, for a script that logs any number of lines:
\* thread and queue lose nothing, and requests that fail can only lose or delay
\* a line.
THEOREM LogIsAStream == Spec => ImplementsStream
<1>1. Init => Stream!Init
  BY DEF Init, Stream!Init, Passed, Received, Adrift, Closed
<1> QED
  BY <1>1, StreamStep, SpecHasIInv, PTL DEF Spec, ImplementsStream, Stream!Spec

-----------------------------------------------------------------------------
(* The end of stop() and of the job.                                       *)

\* The agent never awaits a drain task that waits for a line.
THEOREM WakeupsAreKept == Spec => []NoWakeupIsLost
<1>1. IInv => NoWakeupIsLost
  BY DEF IInv
<1> QED
  BY SpecHasIInv, <1>1, PTL

\* When the executor is over every step of the loop brings the report nearer,
\* whatever fails.  With WakeupsAreKept and the loop's fairness this is why the
\* job is reported.
THEOREM ReportIsNeared == Spec => ReportGetsNearer
<1>1. IInv /\ IInv' /\ [Next]_vars =>
        [thread = "over" => StepsLeft' \in Nat /\ StepsLeft' < StepsLeft]_worker
  <2>1. TypeOK' => (StepsLeft \in Nat)'
    <3>1. TypeOK => StepsLeft \in Nat
      BY StepsLeftType
    <3> QED
      BY <3>1, PTL
  <2>2. UNCHANGED vars => UNCHANGED worker
    BY DEF vars, log, worker
  <2> QED
    BY <2>1, <2>2, StepsCountDown DEF IInv
<1> QED
  BY <1>1, SpecHasIInv, PTL DEF Spec, ReportGetsNearer

-----------------------------------------------------------------------------
(* What the counterexamples of the runs show, for every job.               *)

\* A path with a name before it.
LEMMA NameFirst ==
  ASSUME NEW S, NEW n \in S, NEW path \in Seq(S)
  PROVE  /\ <<n>> \o path \in Seq(S) /\ <<n>> \o path # <<>>
         /\ (<<n>> \o path)[1] = n
         /\ path # <<>> => (<<n>> \o path)[2] = path[1]
OBVIOUS

\* Where an input is unpacked: replace finds nothing to take out.
LEMMA DestinationIs ==
  ASSUME NEW i \in Input
  PROVE  Destination(i) = <<"data">> \o i
<1>1. ~Relative(LocalPath(i)).absolute /\ Relative(LocalPath(i)).names = <<"data">> \o i
  BY DEF LocalPath, Relative
<1> QED
  BY <1>1 DEF Destination, WithoutData

\* No script finds any input where its local_path says: everything that is
\* unpacked is one directory deeper.
THEOREM InputsAreMisplaced ==
  Spec => [](\A i \in Input, dir \in unpacked : InContainer(dir) # LocalPath(i))
<1>1. TypeOK => \A i \in Input, dir \in unpacked : InContainer(dir) # LocalPath(i)
  <2> SUFFICES ASSUME TypeOK, NEW i \in Input, NEW dir \in unpacked
               PROVE  InContainer(dir) # LocalPath(i)
    OBVIOUS
  <2>1. PICK j \in Input : dir = Destination(j)
    BY DEF TypeOK
  <2> DEFINE Name == STRING \cup {"data"}
  <2>2. "data" \in Name
    OBVIOUS
  <2>3. ASSUME NEW k \in Input
        PROVE  k \in Seq(Name) /\ k # <<>> /\ k[1] # "data"
    <3>1. k \in STRING \X STRING /\ k[1] # "data"
      BY ExecutionAssumption DEF ExecutionAssumption
    <3>2. k = <<k[1], k[2]>> /\ k[1] \in Name /\ k[2] \in Name
      BY <3>1
    <3> HIDE DEF Name
    <3>3. <<k[1], k[2]>> \in Seq(Name)
      BY <3>2
    <3>4. k # <<>>
      BY <3>1
    <3> QED
      BY <3>1, <3>2, <3>3, <3>4, Zenon
  <2> HIDE DEF Name
  <2>4. dir \in Seq(Name) /\ dir # <<>> /\ dir[1] = "data"
    <3>1. dir = <<"data">> \o j /\ j \in Seq(Name)
      BY <2>1, <2>3, DestinationIs
    <3> QED
      BY <2>2, <3>1, NameFirst
  <2>5. InContainer(dir).names[2] = "data"
    BY <2>2, <2>4, NameFirst DEF InContainer
  <2>6. LocalPath(i).names[2] # "data"
    BY <2>2, <2>3, NameFirst DEF LocalPath
  <2> QED
    BY <2>5, <2>6
<1> QED
  BY <1>1, ExecutionTypeCorrect, PTL

\* DockerExecutor's outputs: while the agent uploads them, those there were are
\* gone with the directory.
Gone ==
  /\ artifacts = {} /\ putting = {}
  /\ thread # "over" => left = {}
  /\ thread = "over" => left \subseteq files /\ (tmpdir => files = {})

\* No job reports any output of an executor whose files do not outlive its run,
\* whatever fails or does not.
THEOREM OutputsGetLost ==
  ASSUME ~OutputsOutlive
  PROVE  Spec => [](artifacts = {})
<1>1. Init => Gone
  BY DEF Init, Gone
<1>2. IInv /\ Gone /\ [Next]_vars => Gone'
  <2> SUFFICES ASSUME IInv, Gone, [Next]_vars PROVE Gone'
    OBVIOUS
  <2>1. agent # "execute" => thread = "over"
    BY DEF IInv, Phases
  <2>2. CASE Executor
    BY <2>2, <2>1 DEF Executor, FetchBundle, UnpackInput, StartContainer, PushAppend,
       PushWake, ContainerExits, Collect, ExecutorRaises, Return, report, Gone
  <2>3. CASE DrainTask
    BY <2>3 DEF DrainTask, Take, FindEmpty, Register, SendLog, GiveUp, executor,
       report, Gone
  <2>4. CASE StopReporter \/ Drained \/ Report
    BY <2>4, <2>1 DEF StopReporter, Drained, Report, executor, report, Gone
  <2>5. CASE Upload
    BY <2>5, <2>1 DEF Upload, UploadUrl, Put, Readable, executor, Gone
  <2>6. CASE UNCHANGED vars
    BY <2>6 DEF vars, executor, report, Gone
  <2>7. CASE LoopSleeps \/ LoopWakes \/ \E c \in gaveUp : LateChunk(c)
    BY <2>7 DEF LoopSleeps, LoopWakes, LateChunk, executor, report, Gone
  <2> QED
    BY <2>2, <2>3, <2>4, <2>5, <2>6, <2>7 DEF Next, AgentTask
<1>3. Gone => artifacts = {}
  BY DEF Gone
<1> QED
  BY <1>1, <1>2, <1>3, SpecHasIInv, PTL DEF Spec

\* Where the uploads are: what the script left beside its subdirectories is
\* reported, in hand or still to be uploaded, when nothing else can keep a file
\* from it.
Uploads ==
  /\ agent \in {"execute", "drain"} => left = {} /\ putting = {} /\ artifacts = {}
  /\ agent \in {"upload", "reported"} =>
       (left \ Nested) \cup putting \cup artifacts = files \ Nested
  /\ agent = "reported" => left = {} /\ putting = {}
  /\ verdict # "none" => agent = "reported"
  /\ \A f, g \in putting : f = g

\* Of an executor whose files do outlive its run, when no request fails, a success
\* reports every output but those in a subdirectory of /out, and none of these.
THEOREM OutputsWouldBeReported ==
  ASSUME OutputsOutlive, ~Failures
  PROVE  Spec => [](verdict = "succeeded" => artifacts = files \ Nested)
<1>1. Init => Uploads
  BY DEF Init, Uploads
<1>2. IInv /\ Uploads /\ [Next]_vars => Uploads'
  <2> SUFFICES ASSUME IInv, Uploads, [Next]_vars PROVE Uploads'
    OBVIOUS
  <2>1. agent # "execute" => thread = "over"
    BY DEF IInv, Phases
  <2>2. CASE Executor
    BY <2>2, <2>1 DEF Executor, FetchBundle, UnpackInput, StartContainer, PushAppend,
       PushWake, ContainerExits, Collect, ExecutorRaises, Return, report, Uploads
  <2>3. CASE DrainTask
    BY <2>3 DEF DrainTask, Take, FindEmpty, Register, SendLog, GiveUp, executor,
       report, Uploads
  <2>4. CASE StopReporter \/ Drained \/ Report
    BY <2>4 DEF StopReporter, Drained, Report, executor, report, Uploads
  <2>5. ASSUME NEW f \in File, UploadUrl(f) PROVE Uploads'
    <3>1. /\ putting = {} /\ f \in left /\ left' = left \ {f}
          /\ (f \notin Nested /\ putting' = {f}) \/ (f \in Nested /\ putting' = {})
      BY <2>5 DEF UploadUrl, Readable, Routed
    <3> QED
      BY <2>5, <3>1 DEF UploadUrl, executor, Uploads
  <2>6. ASSUME NEW f \in File, NEW taken \in BOOLEAN, NEW answered \in BOOLEAN,
               Put(f, taken, answered)
        PROVE  Uploads'
    <3>1. putting = {f} /\ putting' = {} /\ artifacts' = artifacts \cup {f}
      BY <2>6 DEF Put, Uploads
    <3> QED
      BY <2>6, <3>1 DEF Put, executor, Uploads
  <2>7. CASE UNCHANGED vars
    BY <2>7 DEF vars, executor, report, Uploads
  <2>8. CASE LoopSleeps \/ LoopWakes \/ \E c \in gaveUp : LateChunk(c)
    BY <2>8 DEF LoopSleeps, LoopWakes, LateChunk, executor, report, Uploads
  <2> QED
    BY <2>2, <2>3, <2>4, <2>5, <2>6, <2>7, <2>8 DEF Next, AgentTask, Upload
<1>3. Uploads => (verdict = "succeeded" => artifacts = files \ Nested)
  BY DEF Uploads
<1> QED
  BY <1>1, <1>2, <1>3, SpecHasIInv, PTL DEF Spec
=============================================================================

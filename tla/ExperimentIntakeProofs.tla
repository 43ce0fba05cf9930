----------------------- MODULE ExperimentIntakeProofs -----------------------
(* Theorems about ExperimentIntake.                                        *)
EXTENDS ExperimentIntake, TLAPS

\* Where a request is tells what it has left in MinIO, MLflow and Postgres.
\* An input counts as staged once the request saw it in the store or put it
\* there: nothing is ever deleted.
Behind(u) ==
  /\ pc[u] \notin {"parse"} \cup Answer => u \in bundles
  /\ pc[u] \in {"download", "put"} => \E s \in Slug : slug[u] = {s}
  /\ pc[u] = "put" => got[u] # 0
  /\ pc[u] \in {"exists", "download", "put"} =>
       \A s \in ToStage(u) :
         \/ s \in left[u] \/ Stored(s)
         \/ pc[u] \in {"download", "put"} /\ s \in slug[u]

\* From the run on.
Complete(u) ==
  /\ u \in bundles
  /\ \A s \in ToStage(u) : Stored(s)
  /\ "tracker" \in services /\ u \in Tracked => u \in run

Recorded(u) == u \in experiment /\ staged_inputs[u] = ToStage(u)

Ahead(u) ==
  /\ pc[u] \in {"row", "enqueue", "respond"} \/ u \in jobs => Complete(u)
  /\ pc[u] \in {"enqueue", "respond"} \/ u \in jobs => Recorded(u)
  /\ pc[u] \in {"respond", "created"} => u \in jobs
  /\ u \in jobs => pc[u] \in {"respond", "created", "error"}

IInv == TypeOK /\ \A u \in Upload : Behind(u) /\ Ahead(u)

LEMMA InitIInv == Init => IInv
BY IntakeAssumption DEF Init, IInv, TypeOK, Pc, Version, Behind, Ahead

\* A step of one request leaves what the others rely on.
LEMMA StepKeepsIInv == IInv /\ [Next]_vars => IInv'
<1> SUFFICES ASSUME IInv, [Next]_vars PROVE IInv'
  OBVIOUS
<1> USE IntakeAssumption DEF IntakeAssumption, IInv
<1>1. ASSUME NEW u \in Upload, ParseFails(u) PROVE IInv'
  <2>1. TypeOK'
    BY <1>1 DEF ParseFails, TypeOK, Pc, Answer, minio, postgres
  <2>2. ASSUME NEW v \in Upload PROVE Behind(v)'
    BY <1>1, <2>1 DEF ParseFails, TypeOK, Pc, minio, Behind, ToStage, Stored
  <2>3. ASSUME NEW v \in Upload PROVE Ahead(v)'
    BY <1>1 DEF ParseFails, minio, postgres, Ahead, Complete, Recorded, ToStage,
       Stored
  <2> QED
    BY <2>1, <2>2, <2>3
<1>2. ASSUME NEW u \in Upload, Accept(u) PROVE IInv'
  <2>1. TypeOK'
    BY <1>2 DEF Accept, TypeOK, Pc, postgres, ToStage
  <2>2. ASSUME NEW v \in Upload PROVE Behind(v)'
    BY <1>2, <2>1 DEF Accept, TypeOK, Behind, ToStage, Stored
  <2>3. ASSUME NEW v \in Upload PROVE Ahead(v)'
    BY <1>2 DEF Accept, postgres, Ahead, Complete, Recorded, ToStage, Stored
  <2> QED
    BY <2>1, <2>2, <2>3
<1>3. ASSUME NEW u \in Upload, NEW s \in Slug, NEW hit \in BOOLEAN, Exists(u, s, hit)
      PROVE IInv'
  <2>1. /\ pc[u] = "exists" /\ s \in left[u]
        /\ left' = [left EXCEPT ![u] = left[u] \ {s}]
        /\ UNCHANGED <<got, bundles, staged, latest, run, experiment,
                       staged_inputs, jobs, arrived, services>>
    BY <1>3 DEF Exists, minio, postgres
  <2>2. \/ Stored(s) /\ UNCHANGED <<pc, slug>>
        \/ pc' = [pc EXCEPT ![u] = "download"] /\ slug' = [slug EXCEPT ![u] = {s}]
    BY <1>3, Zenon DEF Exists
  <2>3. TypeOK'
    <3>1. CASE Stored(s) /\ UNCHANGED <<pc, slug>>
      BY <2>1, <3>1 DEF TypeOK
    <3>2. CASE /\ pc' = [pc EXCEPT ![u] = "download"]
               /\ slug' = [slug EXCEPT ![u] = {s}]
      BY <2>1, <3>2 DEF TypeOK, Pc
    <3> QED
      BY <2>2, <3>1, <3>2
  <2>4. ASSUME NEW v \in Upload PROVE Behind(v)'
    <3>1. CASE v # u
      BY <2>1, <2>2, <3>1 DEF TypeOK, Behind, ToStage, Stored
    <3>2. CASE v = u /\ Stored(s) /\ UNCHANGED <<pc, slug>>
      BY <2>1, <3>2 DEF Behind, ToStage, Stored
    <3>3. CASE /\ v = u /\ pc' = [pc EXCEPT ![u] = "download"]
               /\ slug' = [slug EXCEPT ![u] = {s}]
      BY <2>1, <3>3 DEF TypeOK, Answer, Behind, ToStage, Stored
    <3> QED
      BY <2>2, <3>1, <3>2, <3>3
  <2>5. ASSUME NEW v \in Upload PROVE Ahead(v)'
    BY <2>1, <2>2 DEF TypeOK, Ahead, Complete, Recorded, ToStage, Stored
  <2> QED
    BY <2>3, <2>4, <2>5
<1>4. ASSUME NEW u \in Upload, Download(u) PROVE IInv'
  <2>1. TypeOK'
    BY <1>4 DEF Download, TypeOK, Pc, minio, postgres, Served
  <2>2. ASSUME NEW v \in Upload PROVE Behind(v)'
    BY <1>4, <2>1 DEF Download, TypeOK, Answer, minio, Behind, ToStage, Stored,
       Served
  <2>3. ASSUME NEW v \in Upload PROVE Ahead(v)'
    BY <1>4 DEF Download, minio, postgres, Ahead, Complete, Recorded, ToStage,
       Stored
  <2> QED
    BY <2>1, <2>2, <2>3
<1>5. ASSUME NEW u \in Upload, Put(u) PROVE IInv'
  <2>1. TypeOK'
    BY <1>5 DEF Put, TypeOK, Pc, postgres, Store
  <2>2. ASSUME NEW v \in Upload PROVE Behind(v)'
    BY <1>5, <2>1 DEF Put, TypeOK, Answer, Behind, ToStage, Stored, Store
  <2>3. ASSUME NEW v \in Upload PROVE Ahead(v)'
    BY <1>5 DEF Put, postgres, Behind, Ahead, Complete, Recorded, ToStage,
       Stored, Store
  <2> QED
    BY <2>1, <2>2, <2>3
<1>6. ASSUME NEW u \in Upload, CreateRun(u) PROVE IInv'
  <2>1. TypeOK'
    BY <1>6 DEF CreateRun, TypeOK, Pc, minio, postgres
  <2>2. ASSUME NEW v \in Upload PROVE Behind(v)'
    BY <1>6, <2>1 DEF CreateRun, Answer, minio, Behind, ToStage, Stored
  <2>3. ASSUME NEW v \in Upload PROVE Ahead(v)'
    BY <1>6 DEF CreateRun, Answer, minio, postgres, Behind, Ahead, Complete,
       Recorded, ToStage, Stored
  <2> QED
    BY <2>1, <2>2, <2>3
<1>7. ASSUME NEW u \in Upload, CommitExperiment(u) PROVE IInv'
  <2>1. TypeOK'
    BY <1>7 DEF CommitExperiment, TypeOK, Pc, minio, ToStage
  <2>2. ASSUME NEW v \in Upload PROVE Behind(v)'
    BY <1>7, <2>1 DEF CommitExperiment, Answer, minio, Behind, ToStage, Stored
  <2>3. ASSUME NEW v \in Upload PROVE Ahead(v)'
    BY <1>7 DEF CommitExperiment, TypeOK, minio, Ahead, Complete, Recorded,
       ToStage, Stored
  <2> QED
    BY <2>1, <2>2, <2>3
<1>8. ASSUME NEW u \in Upload, Enqueue(u) PROVE IInv'
  <2>1. TypeOK'
    BY <1>8 DEF Enqueue, TypeOK, Pc, minio
  <2>2. ASSUME NEW v \in Upload PROVE Behind(v)'
    BY <1>8, <2>1 DEF Enqueue, Answer, minio, Behind, ToStage, Stored
  <2>3. ASSUME NEW v \in Upload PROVE Ahead(v)'
    BY <1>8 DEF Enqueue, TypeOK, minio, Ahead, Complete, Recorded, ToStage,
       Stored
  <2> QED
    BY <2>1, <2>2, <2>3
<1>9. ASSUME NEW u \in Upload, Reject(u) PROVE IInv'
  <2>1. TypeOK'
    BY <1>9 DEF Reject, TypeOK, Pc, Answer, minio, postgres
  <2>2. ASSUME NEW v \in Upload PROVE Behind(v)'
    BY <1>9, <2>1 DEF Reject, TypeOK, Pc, minio, Behind, ToStage, Stored
  <2>3. ASSUME NEW v \in Upload PROVE Ahead(v)'
    BY <1>9 DEF Reject, minio, postgres, Ahead, Complete, Recorded, ToStage,
       Stored
  <2> QED
    BY <2>1, <2>2, <2>3
<1>10. ASSUME NEW u \in Upload, Respond(u) PROVE IInv'
  <2>1. TypeOK'
    BY <1>10 DEF Respond, TypeOK, Pc, Answer, minio, postgres
  <2>2. ASSUME NEW v \in Upload PROVE Behind(v)'
    BY <1>10, <2>1 DEF Respond, TypeOK, Pc, minio, Behind, ToStage, Stored
  <2>3. ASSUME NEW v \in Upload PROVE Ahead(v)'
    BY <1>10 DEF Respond, minio, postgres, Ahead, Complete, Recorded, ToStage,
       Stored
  <2> QED
    BY <2>1, <2>2, <2>3
<1>11. ASSUME NEW u \in Upload, RequestFails(u) PROVE IInv'
  <2>1. TypeOK'
    BY <1>11 DEF RequestFails, TypeOK, Pc, Answer, minio, postgres
  <2>2. ASSUME NEW v \in Upload PROVE Behind(v)'
    BY <1>11, <2>1 DEF RequestFails, TypeOK, Pc, minio, Behind, ToStage, Stored
  <2>3. ASSUME NEW v \in Upload PROVE Ahead(v)'
    BY <1>11 DEF RequestFails, TypeOK, minio, postgres, Ahead, Complete,
       Recorded, ToStage, Stored
  <2> QED
    BY <2>1, <2>2, <2>3
<1>12. ASSUME NEW s \in Slug, Publish(s) PROVE IInv'
  BY <1>12 DEF Publish, TypeOK, Version, request, minio, postgres, Behind,
     Ahead, Complete, Recorded, ToStage, Stored
<1>13. CASE UNCHANGED vars
  BY <1>13 DEF vars, request, minio, postgres, TypeOK, Behind, Ahead, Complete,
     Recorded, ToStage, Stored
<1> QED
  BY <1>1, <1>2, <1>3, <1>4, <1>5, <1>6, <1>7, <1>8, <1>9, <1>10, <1>11, <1>12,
     <1>13 DEF Next

LEMMA IInvHolds == Spec => []IInv
<1>1. Init => IInv
  BY InitIInv
<1>2. IInv /\ [Next]_vars => IInv'
  BY StepKeepsIInv
<1> QED
  BY <1>1, <1>2, PTL DEF Spec

\* The types, for any uploads, inputs and number of versions.
THEOREM IntakeTypeCorrect == Spec => []TypeOK
<1>1. IInv => TypeOK
  BY DEF IInv
<1> QED
  BY <1>1, IInvHolds, PTL

\* However many requests stage the same inputs, and whichever of them fail
\* where, a queued job has all it needs.
THEOREM QueuedIsComplete == Spec => []QueuedJobIsComplete
<1>1. IInv => QueuedJobIsComplete
  BY DEF IInv, TypeOK, QueuedJobIsComplete, Ahead, Complete, Recorded, ToStage
<1> QED
  BY <1>1, IInvHolds, PTL

\* A 201 and a 400 are the truth.
THEOREM AnswersAreHonest == Spec => []AnswersAreTrue
<1>1. IInv => AnswersAreTrue
  BY DEF IInv, AnswersAreTrue, Ahead
<1> QED
  BY <1>1, IInvHolds, PTL

\* A copy of the slug's files is in the store, or about to be put there.
Cached(s) == Stored(s) \/ \E u \in Upload : pc[u] = "put" /\ s \in slug[u]

\* What is stored and in hand is what Kaggle serves.
UpToDate ==
  /\ \A s \in Slug : Stored(s) => staged[s] = latest[s]
  /\ \A u \in Upload, s \in Slug : pc[u] = "put" /\ s \in slug[u] => got[u] = latest[s]
  /\ \A u \in Upload, s \in Slug : arrived[u][s] <= latest[s]

\* Versions that are published of what is not cached do no harm.
LEMMA StepKeepsUpToDate ==
  /\ IInv /\ UpToDate /\ [Next]_vars
  /\ [\A s \in Slug : Publish(s) => ~Cached(s)]_vars
  => UpToDate'
<1> SUFFICES ASSUME IInv, UpToDate, [Next]_vars,
                    [\A s \in Slug : Publish(s) => ~Cached(s)]_vars
             PROVE  UpToDate'
  OBVIOUS
<1> USE DEF IInv, UpToDate
<1>1. CASE \E u \in Upload : Accept(u)
  <2>1. \A s \in Slug : latest[s] \in Nat
    BY IntakeAssumption DEF TypeOK, Version
  <2> QED
    BY <1>1, <2>1 DEF Accept, TypeOK, Stored
<1>2. ASSUME NEW u \in Upload, Download(u) PROVE UpToDate'
  <2>1. PICK s \in Slug : slug[u] = {s}
    BY <1>2 DEF Download, Behind
  <2>2. /\ got' = [got EXCEPT ![u] = latest[s]] /\ pc' = [pc EXCEPT ![u] = "put"]
        /\ UNCHANGED <<slug, staged, latest, arrived>>
    BY <1>2, <2>1 DEF Download, Served, minio
  <2> QED
    BY <2>1, <2>2 DEF TypeOK, Stored
<1>3. ASSUME NEW u \in Upload, Put(u) PROVE UpToDate'
  <2>1. PICK s \in Slug : slug[u] = {s}
    BY <1>3 DEF Put, Behind
  <2>2. /\ staged' = [staged EXCEPT ![s] = got[u]] /\ got[u] = latest[s]
        /\ pc' = [pc EXCEPT ![u] = "exists"]
        /\ UNCHANGED <<slug, got, latest, arrived>>
    BY <1>3, <2>1 DEF Put, Store
  <2> QED
    BY <2>1, <2>2 DEF TypeOK, Stored
<1>4. ASSUME NEW s \in Slug, Publish(s) PROVE UpToDate'
  <2>1. latest[s] \in Nat /\ latest' = [latest EXCEPT ![s] = latest[s] + 1]
        /\ UNCHANGED <<pc, slug, got, staged, arrived>>
    BY <1>4, IntakeAssumption DEF Publish, TypeOK, Version, request, minio
  <2>2. latest'[s] # latest[s]
    BY <2>1 DEF TypeOK
  <2>3. ~Cached(s)
    BY <1>4, <2>2 DEF vars
  <2>4. \A u \in Upload, t \in Slug : arrived[u][t] \in Nat /\ latest[t] \in Nat
    BY IntakeAssumption DEF TypeOK, Version
  <2> QED
    BY <2>1, <2>3, <2>4 DEF TypeOK, Cached, Stored
<1>5. ASSUME NEW u \in Upload, NEW s \in Slug, NEW hit \in BOOLEAN, Exists(u, s, hit)
      PROVE  UpToDate'
  <2>1. /\ UNCHANGED <<got, staged, latest, arrived>>
        /\ \A v \in Upload : pc'[v] = "put" => pc[v] = "put" /\ slug'[v] = slug[v]
    BY <1>5 DEF Exists, TypeOK, minio
  <2> QED
    BY <2>1 DEF Stored
<1>6. CASE \E u \in Upload :
             \/ ParseFails(u) \/ CreateRun(u) \/ CommitExperiment(u) \/ Enqueue(u)
             \/ Reject(u) \/ Respond(u) \/ RequestFails(u)
  <2>1. UNCHANGED <<slug, got, staged, latest, arrived>>
    BY <1>6 DEF ParseFails, CreateRun, CommitExperiment, Enqueue, Reject, Respond,
       RequestFails, minio
  <2>2. \A v \in Upload : pc'[v] = "put" => pc[v] = "put"
    BY <1>6 DEF ParseFails, CreateRun, CommitExperiment, Enqueue, Reject, Respond,
       RequestFails, TypeOK, Answer
  <2> QED
    BY <2>1, <2>2 DEF Stored
<1>7. CASE UNCHANGED vars
  BY <1>7 DEF vars, request, minio, Stored
<1> QED
  BY <1>1, <1>2, <1>3, <1>4, <1>5, <1>6, <1>7 DEF Next

\* The other side of the finding: however many versions Kaggle publishes, a job
\* has inputs no older than when it was submitted, whichever requests staged
\* them, if no version is published of a slug while a copy of it is stored or
\* about to be.
THEOREM InputsAreCurrent ==
  Spec /\ [][\A s \in Slug : Publish(s) => ~Cached(s)]_vars
    => []InputsAreOfTheVersion
<1>1. Init => UpToDate
  BY DEF Init, UpToDate, Stored
<1>2. IInv /\ UpToDate => InputsAreOfTheVersion
  <2> SUFFICES ASSUME IInv, UpToDate, NEW u \in jobs, NEW s \in staged_inputs[u]
               PROVE  staged[s] >= arrived[u][s]
    BY DEF InputsAreOfTheVersion
  <2>1. u \in Upload /\ s \in Slug
    BY DEF IInv, TypeOK
  <2>2. staged[s] = latest[s]
    BY <2>1 DEF IInv, Ahead, Complete, Recorded, UpToDate
  <2>3. latest[s] \in Nat /\ arrived[u][s] \in Nat
    BY <2>1, IntakeAssumption DEF IInv, TypeOK, Version
  <2> QED
    BY <2>1, <2>2, <2>3 DEF UpToDate
<1> QED
  BY IInvHolds, StepKeepsUpToDate, <1>1, <1>2, PTL DEF Spec
=============================================================================

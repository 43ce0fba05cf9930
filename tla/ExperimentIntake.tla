-------------------------- MODULE ExperimentIntake --------------------------
(***************************************************************************)
(* POST /experiments: the gateway stores the uploaded bundle, stages the   *)
(* inputs the manifest names from Kaggle into MinIO, creates the MLflow    *)
(* run, commits the experiment row, enqueues its job and answers.  Nothing *)
(* spans these steps but the request: each await is a step, any of them    *)
(* may raise, and several requests stage the same inputs at a time.  What  *)
(* the gateway could not reach when it started, Kaggle or MLflow, it does  *)
(* without.                                                                *)
(***************************************************************************)
EXTENDS Naturals

CONSTANTS
  Upload,      \* the requests; each makes one experiment
  Slug,        \* competitions and datasets
  Inputs,      \* Inputs[u]: the slugs in the manifest of u
  Tracked,     \* the uploads whose manifest has an `mlflow:` section
  MaxVersion,  \* bound on the versions Kaggle publishes of a slug
  Failures     \* whether steps may raise for reasons outside the code

ASSUME IntakeAssumption ==
  /\ Inputs \in [Upload -> SUBSET Slug]
  /\ Tracked \subseteq Upload
  /\ MaxVersion \in Nat \ {0}
  /\ Failures \in BOOLEAN

VARIABLES
  services,             \* app.state: what of inputs_stager, tracker is there
  pc, left, slug, got,  \* a request: where it is, the slugs still to stage,
                        \* the one in hand, the version downloaded of it
  bundles,              \* MinIO: the bundles stored
  staged,               \* MinIO: the version under the slug's key, 0 if none
  latest,               \* Kaggle: the version it serves
  run,                  \* MLflow: the runs created
  experiment, staged_inputs, \* Postgres: the rows, the inputs they list,
  jobs,                 \* and the jobs queued
  arrived               \* history: latest, when the request arrived

request == <<pc, left, slug, got>>
minio == <<bundles, staged>>
postgres == <<experiment, staged_inputs, jobs>>
vars == <<services, request, minio, latest, run, postgres, arrived>>

Version == 0..MaxVersion

\* A request ends with 201, 400 or 500.
Answer == {"created", "bad_request", "error"}
Pc == {"parse", "exists", "download", "put", "row", "enqueue", "respond"} \cup Answer

TypeOK ==
  /\ services \subseteq {"stager", "tracker"}
  /\ pc \in [Upload -> Pc]
  /\ left \in [Upload -> SUBSET Slug]
  /\ slug \in [Upload -> SUBSET Slug]
  /\ got \in [Upload -> Version]
  /\ bundles \subseteq Upload
  /\ staged \in [Slug -> Version]
  /\ latest \in [Slug -> Version \ {0}]
  /\ run \subseteq Tracked
  /\ experiment \subseteq Upload
  /\ staged_inputs \in [Upload -> SUBSET Slug]
  /\ jobs \subseteq Upload
  /\ arrived \in [Upload -> [Slug -> Version]]

Init ==
  /\ services \in SUBSET {"stager", "tracker"}
  /\ pc = [u \in Upload |-> "parse"]
  /\ left = [u \in Upload |-> {}]
  /\ staged_inputs = [u \in Upload |-> {}]
  /\ slug = [u \in Upload |-> {}]
  /\ got = [u \in Upload |-> 0]
  /\ bundles = {} /\ run = {} /\ experiment = {} /\ jobs = {}
  /\ staged = [s \in Slug |-> 0]
  /\ latest = [s \in Slug |-> 1]
  /\ arrived = [u \in Upload |-> [s \in Slug |-> 0]]

\* The upload is no bundle.  Not a zip, or not YAML, is a 500; no
\* experiment.yaml at the root, or one that does not validate, a 400.
ParseFails(u) ==
  /\ pc[u] = "parse"
  /\ \E a \in {"bad_request", "error"} : pc' = [pc EXCEPT ![u] = a]
  /\ UNCHANGED <<left, slug, got, minio, latest, run, postgres, arrived, services>>

\* What there is to stage: nothing without an InputsStager.
ToStage(u) == IF "stager" \in services THEN Inputs[u] ELSE {}

\* The bundle is parsed and stored.
Accept(u) ==
  /\ pc[u] = "parse"
  /\ left' = [left EXCEPT ![u] = ToStage(u)]
  /\ bundles' = bundles \cup {u}
  /\ arrived' = [arrived EXCEPT ![u] = latest]
  /\ pc' = [pc EXCEPT ![u] = "exists"]
  /\ UNCHANGED <<slug, got, staged, latest, run, postgres, services>>

\* The store has something under the key of s.
Stored(s) == staged[s] # 0

\* Defective: an exception counts as yes.
ExistsOnError(u, s, hit) ==
  /\ pc[u] = "exists" /\ s \in left[u]
  /\ Stored(s) /\ ~Failures => hit
  /\ left' = [left EXCEPT ![u] = @ \ {s}]
  /\ IF hit
     THEN UNCHANGED <<pc, slug>>
     ELSE /\ pc' = [pc EXCEPT ![u] = "download"]
          /\ slug' = [slug EXCEPT ![u] = {s}]
  /\ UNCHANGED <<got, minio, latest, run, postgres, arrived, services>>

\* Whether the key of s is in the store; an exception counts as no.
Exists(u, s, hit) ==
  /\ pc[u] = "exists" /\ s \in left[u]
  /\ hit => Stored(s)
  /\ Stored(s) /\ ~Failures => hit
  /\ left' = [left EXCEPT ![u] = @ \ {s}]
  /\ IF hit
     THEN UNCHANGED <<pc, slug>>
     ELSE /\ pc' = [pc EXCEPT ![u] = "download"]
          /\ slug' = [slug EXCEPT ![u] = {s}]
  /\ UNCHANGED <<got, minio, latest, run, postgres, arrived, services>>

\* The Kaggle client downloads the files as they are served now.
Served(s) == latest[s]

\* They are downloaded and zipped.
Download(u) ==
  /\ pc[u] = "download"
  /\ \E s \in slug[u] : got' = [got EXCEPT ![u] = Served(s)]
  /\ pc' = [pc EXCEPT ![u] = "put"]
  /\ UNCHANGED <<left, slug, minio, latest, run, postgres, arrived, services>>

\* A put replaces what is there.
Store(s, v) == staged' = [staged EXCEPT ![s] = v]

Put(u) ==
  /\ pc[u] = "put"
  /\ \E s \in slug[u] : Store(s, got[u])
  /\ pc' = [pc EXCEPT ![u] = "exists"]
  /\ UNCHANGED <<left, slug, got, bundles, latest, run, postgres, arrived, services>>

\* Defective: a run is created whether the manifest has the section or not.
CreateRunAlways(u) ==
  /\ pc[u] = "exists" /\ left[u] = {}
  /\ run' = run \cup {u}
  /\ pc' = [pc EXCEPT ![u] = "row"]
  /\ UNCHANGED <<left, slug, got, minio, latest, postgres, arrived, services>>

\* All inputs are staged; the MLflow run is created when there is to be one
\* and MLflow was there.
CreateRun(u) ==
  /\ pc[u] = "exists" /\ left[u] = {}
  /\ run' = IF "tracker" \in services THEN run \cup ({u} \cap Tracked) ELSE run
  /\ pc' = [pc EXCEPT ![u] = "row"]
  /\ UNCHANGED <<left, slug, got, minio, latest, postgres, arrived, services>>

CommitExperiment(u) ==
  /\ pc[u] = "row"
  /\ experiment' = experiment \cup {u}
  /\ staged_inputs' = [staged_inputs EXCEPT ![u] = ToStage(u)]
  /\ pc' = [pc EXCEPT ![u] = "enqueue"]
  /\ UNCHANGED <<left, slug, got, minio, latest, run, jobs, arrived, services>>

\* Defective: the memory limit is parsed after the job is committed.
EnqueueUnparsed(u) ==
  /\ pc[u] = "enqueue"
  /\ jobs' = jobs \cup {u}
  /\ \E a \in {"bad_request", "respond"} : pc' = [pc EXCEPT ![u] = a]
  /\ UNCHANGED <<left, slug, got, minio, latest, run, experiment, staged_inputs,
                 arrived, services>>

\* The run is tagged, the job is built, with memory_mb, and committed.
Enqueue(u) ==
  /\ pc[u] = "enqueue"
  /\ jobs' = jobs \cup {u}
  /\ pc' = [pc EXCEPT ![u] = "respond"]
  /\ UNCHANGED <<left, slug, got, minio, latest, run, experiment, staged_inputs,
                 arrived, services>>

\* memory_mb raises a ValueError for the limit of this manifest; the client is
\* answered 400.
Reject(u) ==
  /\ pc[u] = "enqueue"
  /\ pc' = [pc EXCEPT ![u] = "bad_request"]
  /\ UNCHANGED <<left, slug, got, minio, latest, run, postgres, arrived, services>>

\* The jobs of the experiment are read and the client is answered 201.
Respond(u) ==
  /\ pc[u] = "respond"
  /\ pc' = [pc EXCEPT ![u] = "created"]
  /\ UNCHANGED <<left, slug, got, minio, latest, run, postgres, arrived, services>>

\* MinIO, Kaggle, MLflow or Postgres fails the request, before it is answered;
\* the Kaggle library has ValueErrors for what it does not find.
RequestFails(u) ==
  /\ Failures
  /\ pc[u] \notin Answer
  /\ \/ pc' = [pc EXCEPT ![u] = "error"]
     \/ pc[u] = "download" /\ pc' = [pc EXCEPT ![u] = "bad_request"]
  /\ UNCHANGED <<left, slug, got, minio, latest, run, postgres, arrived, services>>

\* The owner of a dataset publishes a new version.
Publish(s) ==
  /\ latest[s] < MaxVersion
  /\ latest' = [latest EXCEPT ![s] = @ + 1]
  /\ UNCHANGED <<request, minio, run, postgres, arrived, services>>

Next ==
  \/ \E u \in Upload :
       \/ ParseFails(u) \/ Accept(u) \/ Download(u) \/ Put(u) \/ CreateRun(u)
       \/ CommitExperiment(u) \/ Enqueue(u) \/ Reject(u) \/ Respond(u)
       \/ RequestFails(u)
       \/ \E s \in Slug, hit \in BOOLEAN : Exists(u, s, hit)
  \/ \E s \in Slug : Publish(s)

Spec == Init /\ [][Next]_vars

-----------------------------------------------------------------------------
(* Properties.                                                             *)

\* What the claim handler and the worker rely on: the experiment of a queued
\* job has its row, its bundle, the run and every input the row lists in the
\* store, whoever staged it, and the row lists those of the manifest if the
\* gateway had a stager.
QueuedJobIsComplete ==
  \A u \in jobs :
    /\ u \in experiment /\ u \in bundles
    /\ "tracker" \in services /\ u \in Tracked => u \in run
    /\ \A s \in staged_inputs[u] : Stored(s)
    /\ "stager" \in services => staged_inputs[u] = Inputs[u]

\* The client may believe a 201 and a 400: a job is queued, or none is and none
\* will be.  (After a 500 there may be one.)
AnswersAreTrue ==
  \A u \in Upload :
    /\ pc[u] = "created" => u \in jobs
    /\ pc[u] = "bad_request" => u \notin jobs

\* docs/implementation.md: "Cache key on (slug, version)".  A job does not
\* run on inputs older than what Kaggle served when it was submitted.
InputsAreOfTheVersion ==
  \A u \in jobs : \A s \in staged_inputs[u] : staged[s] >= arrived[u][s]
=============================================================================

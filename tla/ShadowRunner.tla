---------------------------- MODULE ShadowRunner ----------------------------
(***************************************************************************)
(* ThreadedShadowAnswerRunner: request threads hand evidence to one worker *)
(* thread that lets a model rewrite the approved answer and records the    *)
(* result for review.  A lock guards the set of known evidence, a bounded  *)
(* semaphore the number of pending jobs, the executor owns the queue, and  *)
(* a done callback returns the permit.                                     *)
(*                                                                         *)
(* The request thread leaves the lock between taking the permit and        *)
(* queueing the job, and again before it attaches the callback: a shutdown *)
(* and the end of the job can fall in between.  The callback runs on the   *)
(* worker, or at once on the request thread when the job has ended.        *)
(*                                                                         *)
(* A restart empties everything but the review table.  Rejections          *)
(* (shadow_cached, shadow_queue_full) change nothing and are left out.     *)
(***************************************************************************)
EXTENDS ShadowReview, Sequences, FiniteSets

CONSTANTS MaxPending,   \* permits of the semaphore
          MaxJobs,      \* bound: jobs accepted by one process
          MaxRestarts   \* bound: processes after the first

ASSUME RunnerAssumption ==
  MaxPending \in Nat \ {0} /\ MaxJobs \in Nat /\ MaxRestarts \in Nat

VARIABLES known,     \* _known_evidence
          free,      \* permits left in _capacity
          jobs,      \* every job of this process, in the order of its permit
          queue,     \* the executor's work queue, job numbers
          closing,   \* executor.shutdown has been called
          model,     \* the model this process is configured with
          restarts

runnerVars == <<known, free, jobs, queue, closing, model, restarts>>
vars == <<reviewVars, runnerVars>>

Stages == {"reserved", "refused", "queued", "running", "done",
           "releasing", "returning", "released"}

\* attached: the callback is registered.  ok: what _run returned.
\* onWorker: the callback runs on the worker thread, which is busy until it ends.
Job == [evidence : Evidence, stage : Stages,
        attached : BOOLEAN, ok : BOOLEAN, onWorker : BOOLEAN]

TypeOK ==
  /\ ReviewTypeOK
  /\ known \subseteq Evidence
  /\ free \in 0 .. MaxPending
  /\ jobs \in Seq(Job)
  /\ queue \in Seq(1 .. Len(jobs))
  /\ closing \in BOOLEAN
  /\ model \in Models
  /\ restarts \in 0 .. MaxRestarts

JobIds == 1 .. Len(jobs)

\* Mutant: the permit is taken before the evidence is looked up.
SubmitTakesPermitFirst(e) ==
  /\ free > 0
  /\ Len(jobs) < MaxJobs
  /\ free' = free - 1
  /\ IF e \in known
     THEN UNCHANGED <<known, jobs>>
     ELSE /\ known' = known \cup {e}
          /\ jobs' = Append(jobs, [evidence |-> e, stage |-> "reserved", attached |-> FALSE,
                                   ok |-> FALSE, onWorker |-> FALSE])
  /\ UNCHANGED <<reviewVars, queue, closing, model, restarts>>

\* The locked section of submit, when it does not reject.
Submit(e) ==
  /\ e \notin known
  /\ free > 0
  /\ Len(jobs) < MaxJobs
  /\ free' = free - 1
  /\ known' = known \cup {e}
  /\ jobs' = Append(jobs, [evidence |-> e, stage |-> "reserved", attached |-> FALSE,
                           ok |-> FALSE, onWorker |-> FALSE])
  /\ UNCHANGED <<reviewVars, queue, closing, model, restarts>>

\* executor.submit; after shutdown it raises, the request fails with it, and the
\* permit and the evidence taken under the lock are not given back.
Enqueue(i) ==
  /\ jobs[i].stage = "reserved"
  /\ jobs' = [jobs EXCEPT ![i].stage = IF closing THEN "refused" ELSE "queued"]
  /\ queue' = IF closing THEN queue ELSE Append(queue, i)
  /\ UNCHANGED <<reviewVars, known, free, closing, model, restarts>>

\* add_done_callback: registered, or run at once when the job has ended.
Attach(i) ==
  /\ jobs[i].stage \in {"queued", "running", "done"}
  /\ ~ jobs[i].attached
  /\ jobs' = [jobs EXCEPT ![i].attached = TRUE,
                          ![i].stage = IF @ = "done" THEN "releasing" ELSE @]
  /\ UNCHANGED <<reviewVars, known, free, queue, closing, model, restarts>>

WorkerBusy ==
  \E i \in JobIds :
    \/ jobs[i].stage = "running"
    \/ jobs[i].onWorker /\ jobs[i].stage \in {"releasing", "returning"}

\* Mutant: shutdown cancels what is still queued.
StartUnlessClosing ==
  /\ ~ closing
  /\ ~ WorkerBusy
  /\ queue # <<>>
  /\ jobs' = [jobs EXCEPT ![Head(queue)].stage = "running"]
  /\ queue' = Tail(queue)
  /\ UNCHANGED <<reviewVars, known, free, closing, model, restarts>>

\* Mutant: the evidence is forgotten as soon as its job starts.
StartForgets ==
  /\ ~ WorkerBusy
  /\ queue # <<>>
  /\ jobs' = [jobs EXCEPT ![Head(queue)].stage = "running"]
  /\ queue' = Tail(queue)
  /\ known' = known \ {jobs[Head(queue)].evidence}
  /\ UNCHANGED <<reviewVars, free, closing, model, restarts>>

Start ==
  /\ ~ WorkerBusy
  /\ queue # <<>>
  /\ jobs' = [jobs EXCEPT ![Head(queue)].stage = "running"]
  /\ queue' = Tail(queue)
  /\ UNCHANGED <<reviewVars, known, free, closing, model, restarts>>

\* The future's result is set; its callback follows on the worker if there is one.
Finish(i, ok) ==
  /\ jobs[i].stage = "running"
  /\ jobs' = [jobs EXCEPT ![i].stage = IF jobs[i].attached THEN "releasing" ELSE "done",
                          ![i].onWorker = jobs[i].attached, ![i].ok = ok]
  /\ UNCHANGED <<pages, known, free, queue, closing, model, restarts>>

\* _run with a generated answer that is recorded, guard-safe or not.
FinishGenerated(i) ==
  /\ Finish(i, TRUE)
  /\ \E text \in Texts : rows' = Recorded(<<jobs[i].evidence, model>>, text)

\* _run after an AnswerGenerationError: recorded as not reviewable, to be retried.
FinishFailed(i) ==
  /\ Finish(i, FALSE)
  /\ rows' = Recorded(<<jobs[i].evidence, NoModel>>, NoText)

\* The record could not be written, or _run raised.
FinishUnrecorded(i) ==
  /\ Finish(i, FALSE)
  /\ UNCHANGED rows

\* Mutant: only a job that succeeded is forgotten.
ForgetSwapped(i) ==
  /\ jobs[i].stage = "releasing"
  /\ known' = IF jobs[i].ok THEN known \ {jobs[i].evidence} ELSE known
  /\ jobs' = [jobs EXCEPT ![i].stage = "returning"]
  /\ UNCHANGED <<reviewVars, free, queue, closing, model, restarts>>

\* _release, first half: evidence that did not succeed may be tried again.
Forget(i) ==
  /\ jobs[i].stage = "releasing"
  /\ known' = IF jobs[i].ok THEN known ELSE known \ {jobs[i].evidence}
  /\ jobs' = [jobs EXCEPT ![i].stage = "returning"]
  /\ UNCHANGED <<reviewVars, free, queue, closing, model, restarts>>

\* _release, second half.
ReturnPermit(i) ==
  /\ jobs[i].stage = "returning"
  /\ free' = free + 1
  /\ jobs' = [jobs EXCEPT ![i].stage = "released"]
  /\ UNCHANGED <<reviewVars, known, queue, closing, model, restarts>>

\* close: executor.shutdown(wait=True, cancel_futures=False) begins.
Close ==
  /\ ~ closing
  /\ closing' = TRUE
  /\ UNCHANGED <<reviewVars, known, free, jobs, queue, model, restarts>>

\* Mutant: the queue outlives the jobs it numbers.
RestartKeepsQueue ==
  /\ restarts < MaxRestarts
  /\ restarts' = restarts + 1
  /\ known' = {}
  /\ free' = MaxPending
  /\ jobs' = <<>>
  /\ closing' = FALSE
  /\ model' \in Models
  /\ UNCHANGED <<reviewVars, queue>>

\* The process dies or is replaced at any moment, with the same or another model.
Restart ==
  /\ restarts < MaxRestarts
  /\ restarts' = restarts + 1
  /\ known' = {}
  /\ free' = MaxPending
  /\ jobs' = <<>>
  /\ queue' = <<>>
  /\ closing' = FALSE
  /\ model' \in Models
  /\ UNCHANGED reviewVars

-----------------------------------------------------------------------------
Init ==
  /\ ReviewInit
  /\ known = {}
  /\ free = MaxPending
  /\ jobs = <<>>
  /\ queue = <<>>
  /\ closing = FALSE
  /\ model \in Models
  /\ restarts = 0

RequestStep(i) == Enqueue(i) \/ Attach(i)
WorkerStep(i) == FinishGenerated(i) \/ FinishFailed(i) \/ FinishUnrecorded(i)
CallbackStep(i) == Forget(i) \/ ReturnPermit(i)

Next ==
  \/ \E e \in Evidence : Submit(e)
  \/ \E i \in JobIds : RequestStep(i) \/ WorkerStep(i) \/ CallbackStep(i)
  \/ Start
  \/ Close
  \/ Restart
  \/ ReviewNext /\ UNCHANGED runnerVars

\* A request thread past the lock keeps running, the worker takes jobs while
\* there are any, and a generation ends (the model client has a timeout).
Fairness ==
  /\ WF_vars(Start)
  /\ \A i \in 1 .. MaxJobs :
       /\ WF_vars(i \in JobIds /\ RequestStep(i))
       /\ WF_vars(i \in JobIds /\ WorkerStep(i))
       /\ WF_vars(i \in JobIds /\ CallbackStep(i))

Spec == Init /\ [][Next]_vars
FairSpec == Spec /\ Fairness
-----------------------------------------------------------------------------
(* What the runner promises *)

\* Accepted jobs whose permit is not back, and submissions a shutdown refused.
Holding == {i \in JobIds : jobs[i].stage \notin {"refused", "released"}}
Refused == {i \in JobIds : jobs[i].stage = "refused"}
Outstanding == {i \in Holding : jobs[i].stage # "returning"}

(***************************************************************************)
(* Every permit of the semaphore is free, held by one accepted job or gone *)
(* with one submission the shutdown refused: executor.submit raises after  *)
(* the permit was taken, and no callback is there to return it.  While the *)
(* runner is open no permit is lost on a path of submit, _run or _release, *)
(* and at no time is one returned twice, which a BoundedSemaphore would    *)
(* answer with ValueError.                                                 *)
(***************************************************************************)
PermitsLostOnlyToShutdown ==
  /\ free + Cardinality(Holding) + Cardinality(Refused) = MaxPending
  /\ Refused # {} => closing

(***************************************************************************)
(* The same evidence is never in two jobs at once, queued or running, so   *)
(* it occupies the local model once at a time (README, single worker).     *)
(***************************************************************************)
OneJobPerEvidence ==
  \A i, j \in Outstanding : jobs[i].evidence = jobs[j].evidence => i = j

(***************************************************************************)
(* ADR 0005: a failed generation can be retried by the next hit.  Evidence *)
(* is reported cached only while its job is under way, after its candidate *)
(* was recorded, or when the shutdown refused its job.                     *)
(***************************************************************************)
CachedOnlyWithReason ==
  \A e \in known :
    \/ \E i \in Outstanding : jobs[i].evidence = e
    \/ rows[<<e, model>>].status # "none"
    \/ \E i \in JobIds : jobs[i].evidence = e /\ jobs[i].stage = "refused"

(***************************************************************************)
(* ADR 0005: shutdown waits for the accepted work.  A queued job ends and  *)
(* gives its permit back, whether or not the runner is being closed in the *)
(* meantime, unless the process itself dies.                               *)
(***************************************************************************)
AcceptedJobSettles ==
  \A i \in 1 .. MaxJobs :
    (i \in JobIds /\ jobs[i].stage = "queued") ~>
      (i \notin JobIds \/ jobs[i].stage = "released")
=============================================================================

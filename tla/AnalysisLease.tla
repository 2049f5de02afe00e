--------------------------- MODULE AnalysisLease ---------------------------
(***************************************************************************)
(* One analysis job, the daily checkpoint claim that points at it, and     *)
(* everybody who writes the two rows: the scheduler tick, the worker       *)
(* threads that run the job, their heartbeats, and the cancel and retry    *)
(* requests of the user.  The database is SQLite: a transaction that has   *)
(* executed its first UPDATE or INSERT holds the write lock until it       *)
(* commits, so it is one step here, while rows read before the first write *)
(* are remembered by the reader and may be stale when it writes.           *)
(*                                                                         *)
(* Wall clock time is abstracted twice.  A microsecond timestamp           *)
(* (started_at, finished_at, completed_at) is the next value of the        *)
(* counter stamp; 0 is NULL.  lease_expires_at is "live" until the step    *)
(* LeaseExpires makes it "expired"; "none" is NULL.                        *)
(***************************************************************************)
EXTENDS Naturals, FiniteSets

CONSTANTS
    Workers,        \* slots for worker threads: bounds the threads alive at once
    Clients,        \* slots for HTTP requests: bounds the requests in flight
    NoWorker,       \* value of the registry when no thread is registered
    UnclaimedJobs,  \* TRUE if jobs are also created outside the checkpoint tick
    MaxRequests,    \* bound on cancel and retry requests of a behaviour
    MaxCrashes,     \* bound on process crashes of a behaviour
    MaxAttempts     \* bound on the generations a claim reaches by reclaim

ASSUME ConstantsAssumption ==
    /\ NoWorker \notin Workers
    /\ UnclaimedJobs \in BOOLEAN
    /\ MaxRequests \in Nat /\ MaxCrashes \in Nat /\ MaxAttempts \in Nat

VARIABLES
    job,         \* the AnalysisJob row
    claim,       \* the DailyOperationalCheckpoint row
    projection,  \* DailyOperationalRun.checkpoint_state_json[key].status
    observed,    \* what a tick that does not own the claim is about to merge
    admission,   \* how far the tick is that inserted the claim
    worker,      \* the worker threads
    registry,    \* system.workers._WORKERS[("analysis", job.id)]
    request,     \* the cancel and retry requests in flight
    stamp,       \* last timestamp handed out
    requests,    \* requests made so far
    crashes      \* crashes so far

vars == <<job, claim, projection, observed, admission, worker, registry, request, stamp,
          requests, crashes>>

-----------------------------------------------------------------------------
Startable == {"queued", "retrying"}
ActiveJob == {"queued", "running", "retrying"}
TerminalJob == {"succeeded", "failed", "cancelled"}
JobStatus == ActiveJob \cup TerminalJob

ActiveClaim == {"CLAIMED", "RUNNING"}
TerminalClaim == {"SUCCESS", "FAILED", "SKIPPED", "MISSED", "BLOCKED", "REUSED", "DEGRADED"}
ClaimStatus == ActiveClaim \cup TerminalClaim

\* Mutant: a cancelled job gets a status that checkpoints do not have.
StatusOfCancelled == [s \in JobStatus |->
    CASE s = "succeeded" -> "SUCCESS"
      [] s = "failed"    -> "FAILED"
      [] s = "cancelled" -> "CANCELLED"
      [] OTHER           -> "RUNNING"]

\* JOB_STATUS_MAP
StatusOf == [s \in JobStatus |->
    CASE s = "succeeded" -> "SUCCESS"
      [] s = "failed"    -> "FAILED"
      [] s = "cancelled" -> "SKIPPED"
      [] OTHER           -> "RUNNING"]

JobRow == [status: JobStatus \cup {"none"}, started: Nat, finished: Nat, retry: Nat]
NoJob == [status |-> "none", started |-> 0, finished |-> 0, retry |-> 0]

ClaimRow == [status: ClaimStatus \cup {"none"}, linked: BOOLEAN, attempt: Nat,
             lease: {"none", "live", "expired"}, completed: Nat]
NoClaim == [status |-> "none", linked |-> FALSE, attempt |-> 0,
            lease |-> "none", completed |-> 0]

\* pc: "spawned" about to read the job row, "capturing" about to read the
\* claim, "starting" about to execute the start CAS, "finalizing" and
\* "closing" the same two points for a job found cancelled, "started" running
\* but not yet registered, "working" executing the workflow, "failing" in the
\* exception handler, "exiting" in the finally block.
Worker == [pc: {"idle", "spawned", "capturing", "starting", "finalizing", "closing",
                "started", "working", "failing", "exiting"},
           retry: Nat, attempt: Nat, started: Nat,
           heartbeat: Nat, lost: BOOLEAN, stop: BOOLEAN]
Idle == [pc |-> "idle", retry |-> 0, attempt |-> 0, started |-> 0,
         heartbeat |-> 0, lost |-> FALSE, stop |-> FALSE]
Spawned == [Idle EXCEPT !.pc = "spawned"]

Request == [pc: {"idle", "cancelling", "signalling", "retrying"}, seen: JobRow]
NoRequest == [pc |-> "idle", seen |-> NoJob]

-----------------------------------------------------------------------------
(* Conditions of the UPDATE statements.                                    *)

Finished(j) == j.status \in TerminalJob /\ j.finished # 0

Held(c) == c.linked /\ c.status \in ActiveClaim

\* AnalysisWorkerOwnership._conditions: the job generation and, if one was
\* captured, the claim generation.
SameGeneration(w) ==
    /\ job.retry = worker[w].retry
    /\ worker[w].attempt # 0 => Held(claim) /\ claim.attempt = worker[w].attempt

\* Mutant: any write to an unfinished job passes, whoever started it.
FenceByStatus(w) == job.status \in {"running", "cancelled"} /\ job.finished = 0

\* AnalysisWorkerOwnership.lock succeeds.
Fence(w) ==
    /\ SameGeneration(w)
    /\ job.started = worker[w].started
    /\ job.status \in {"running", "cancelled"}
    /\ job.finished = 0

-----------------------------------------------------------------------------
(* The two rows after reconciliation, and the merged projection.           *)

\* Mutant: claims renewed by a heartbeat are not among those reconciled.
ReconciledIfClaimed(j, c) ==
    IF c.linked /\ c.status = "CLAIMED" /\ Finished(j)
    THEN [c EXCEPT !.status = StatusOf[j.status], !.completed = j.finished, !.lease = "none"]
    ELSE c

\* Mutant: terminal claims are rewritten as well.
ReconciledAlways(j, c) ==
    IF c.linked /\ Finished(j)
    THEN [c EXCEPT !.status = StatusOf[j.status], !.completed = j.finished, !.lease = "none"]
    ELSE c

\* _reconcile_operational_checkpoints: a finished job closes its active claim.
Reconciled(j, c) ==
    IF Held(c) /\ Finished(j)
    THEN [c EXCEPT !.status = StatusOf[j.status], !.completed = j.finished, !.lease = "none"]
    ELSE c

\* The claim states what the finished job states.
Trusted(j, c) ==
    /\ c.linked /\ Finished(j)
    /\ c.status = StatusOf[j.status] /\ c.completed = j.finished

\* Mutant: a running job does not override what the tick observed.
MergedUnlessFinished(j, c, p) == IF Trusted(j, c) THEN c.status ELSE p

\* merge_operational_checkpoint_state: the facts override p.
Merged(j, c, p) ==
    IF Trusted(j, c) THEN c.status
    ELSE IF Held(c) /\ j.status \in ActiveJob THEN "RUNNING"
    ELSE p

\* Mutant: the status of a finished job is projected without asking the claim.
RepairedFromJob(j, c, p) == IF Finished(j) THEN StatusOf[j.status] ELSE p

\* Reconciliation only merges trusted terminal facts.
Repaired(j, c, p) == IF Trusted(j, c) THEN c.status ELSE p

\* finish_analysis_job_checkpoints in the transaction that leaves the job as j
FinishCheckpoint(j) ==
    /\ job' = j
    /\ claim' = Reconciled(j, claim)
    /\ projection' = Repaired(j, claim', projection)

\* After its commit the caller starts a thread that runs the job.
Spawn(w) ==
    /\ worker[w].pc = "idle"
    /\ worker' = [worker EXCEPT ![w] = Spawned]

-----------------------------------------------------------------------------
Init ==
    /\ job = NoJob
    /\ claim = NoClaim
    /\ projection = "none"
    /\ observed = "none"
    /\ admission = "none"
    /\ worker = [w \in Workers |-> Idle]
    /\ registry = NoWorker
    /\ request = [c \in Clients |-> NoRequest]
    /\ stamp = 0
    /\ requests = 0
    /\ crashes = 0

-----------------------------------------------------------------------------
(* The scheduler tick: run_due_checkpoints for the one analysis checkpoint *)

\* reconcile_operational_checkpoints, with which every tick and every start of
\* the process begins: a claim left active by a finished job is closed, and the
\* projection follows.  The rest of such a tick finds the checkpoint terminal.
TickReconcile ==
    /\ claim' = Reconciled(job, claim)
    /\ projection' = Repaired(job, claim', projection)
    /\ claim' # claim \/ projection' # projection
    /\ UNCHANGED <<job, observed, admission, worker, registry, request, stamp, requests,
                   crashes>>

\* create_scheduled_job for the legacy schedule of the same checkpoint: a job no
\* claim points at yet.  A checkpoint that was missed is not created.
CreateUnclaimedJob(w) ==
    /\ UnclaimedJobs
    /\ job.status = "none"
    /\ claim.status # "MISSED"
    /\ job' = [NoJob EXCEPT !.status = "queued"]
    /\ Spawn(w)
    /\ UNCHANGED <<claim, projection, observed, admission, registry, request, stamp, requests,
                   crashes>>

\* Mutant: closing a claim leaves its lease running.
ClaimLeased(status, linked, attempt, completed) ==
    [status |-> status, linked |-> linked, attempt |-> attempt, completed |-> completed,
     lease |-> "live"]

\* Mutant: the claim does not record the job admitted for it.
ClaimUnlinked(status, linked, attempt, completed) ==
    [status |-> status, linked |-> FALSE, attempt |-> attempt, completed |-> completed,
     lease |-> IF status \in TerminalClaim THEN "none" ELSE "live"]

\* _claim_checkpoint takes the row as its next generation and
\* _finish_checkpoint_claim settles it.
ClaimAs(status, linked, attempt, completed) ==
    [status |-> status, linked |-> linked, attempt |-> attempt, completed |-> completed,
     lease |-> IF status \in TerminalClaim THEN "none" ELSE "live"]

\* The claim is inserted.  Unless the tick has written before, the savepoint
\* around the INSERT is the outermost transaction of the connection, and its
\* release commits.
TickInsert ==
    /\ claim.status = "none"
    /\ claim' = ClaimAs("CLAIMED", FALSE, 1, 0)
    /\ admission' = "inserted"
    /\ UNCHANGED <<job, projection, observed, worker, registry, request, stamp, requests,
                   crashes>>

\* _admit_checkpoint_job looks for a job of the checkpoint, and sees one of the
\* legacy schedule only if it was created before the tick began.
TickAdmit ==
    /\ admission = "inserted"
    /\ admission' \in {"absent"} \cup ({job.status} \cap JobStatus)
    /\ UNCHANGED <<job, claim, projection, observed, worker, registry, request, stamp, requests,
                   crashes>>

\* None was found: it is inserted, and claim and projection follow in the same
\* transaction.  (A second job, beside one the legacy schedule created since the
\* lookup, is beyond this module.)
TickCreateJob(w) ==
    /\ admission = "absent"
    /\ job.status = "none"
    /\ job' = [NoJob EXCEPT !.status = "queued"]
    /\ claim' = ClaimAs("RUNNING", TRUE, claim.attempt, 0)
    /\ projection' = "RUNNING"
    /\ admission' = "none"
    /\ Spawn(w)
    /\ UNCHANGED <<observed, registry, request, stamp, requests, crashes>>

\* The job of the legacy schedule was found (admission source
\* "existing_schedule"): the claim takes the status it had when it was read.
TickAdoptJob ==
    /\ admission \in JobStatus
    /\ LET status == StatusOf[admission]
           done == status \in TerminalClaim
       IN /\ stamp' = IF done THEN stamp + 1 ELSE stamp
          /\ claim' = ClaimAs(status, TRUE, claim.attempt, IF done THEN stamp' ELSE 0)
          /\ projection' = Merged(job, claim', status)
    /\ admission' = "none"
    /\ UNCHANGED <<job, observed, worker, registry, request, requests, crashes>>

\* The claim is closed without a job of its own: catch-up window over, no
\* confirmed snapshot or runtime not ready, an analysis of the portfolio active
\* (be it the job of this very tick's legacy schedule), or an exception.
TickCloseClaim ==
    /\ \E status \in {"MISSED", "BLOCKED", "REUSED", "DEGRADED"} :
          /\ status = "MISSED" => admission = "inserted"
          /\ status \in {"BLOCKED", "REUSED"} => admission = "absent"
          /\ status = "DEGRADED" => admission # "none"
          /\ claim' = ClaimAs(status, FALSE, claim.attempt, stamp + 1)
          /\ projection' = status
    /\ stamp' = stamp + 1
    /\ admission' = "none"
    /\ UNCHANGED <<job, observed, worker, registry, request, requests, crashes>>

\* The transaction fails, for instance because another writer holds the lock
\* longer than busy_timeout: the tick is rolled back, the inserted row stays.
TickAbandon ==
    /\ admission # "none"
    /\ admission' = "none"
    /\ UNCHANGED <<job, claim, projection, observed, worker, registry, request, stamp, requests,
                   crashes>>

\* The claim belongs to somebody else: the tick reads its visible status ...
TickObserve ==
    /\ observed = "none"
    /\ projection \notin TerminalClaim
    /\ ~(Held(claim) /\ Finished(job))
    /\ \/ /\ claim.status \in TerminalClaim
          /\ observed' = claim.status
       \/ /\ claim.status \in ActiveClaim /\ claim.lease = "live"
          /\ observed' = IF claim.linked THEN StatusOf[job.status] ELSE "RUNNING"
    /\ UNCHANGED <<job, claim, projection, admission, worker, registry, request, stamp,
                   requests, crashes>>

\* ... and merges it later, over whatever was committed in between.
TickMerge ==
    /\ observed # "none"
    /\ projection' = Merged(job, claim, observed)
    /\ observed' = "none"
    /\ UNCHANGED <<job, claim, admission, worker, registry, request, stamp, requests, crashes>>

\* Mutant: only claims no heartbeat has touched are reclaimed.
ReclaimableIfClaimed ==
    /\ projection \notin TerminalClaim
    /\ claim.status = "CLAIMED"
    /\ claim.lease = "expired"

\* Mutant: the lease is not part of the reclaim condition.
ReclaimableAnyTime ==
    /\ projection \notin TerminalClaim
    /\ claim.status \in ActiveClaim
    /\ ~(claim.linked /\ Finished(job))

\* The claim CAS of _claim_checkpoint on a row whose lease is over.
Reclaimable ==
    /\ projection \notin TerminalClaim
    /\ claim.status \in ActiveClaim
    /\ claim.lease = "expired"
    /\ ~(claim.linked /\ Finished(job))

\* The claim is taken over.  A running job is moved to retrying, one that never
\* started is left as it is, a missing one is inserted; it is dispatched under the
\* next claim generation.
TickReclaim(w) ==
    /\ Reclaimable
    /\ claim.attempt < MaxAttempts
    /\ \/ /\ job.status = "running"
          /\ job' = [status |-> "retrying", started |-> 0, finished |-> 0, retry |-> job.retry + 1]
       \/ /\ job.status \in Startable
          /\ job' = job
       \/ /\ job.status = "none"
          /\ job' = [NoJob EXCEPT !.status = "queued"]
    /\ claim' = ClaimAs("RUNNING", TRUE, claim.attempt + 1, 0)
    /\ projection' = "RUNNING"
    /\ Spawn(w)
    /\ UNCHANGED <<observed, admission, registry, request, stamp, requests, crashes>>

\* The claim is taken over and closed: its job was cancelled and nobody finalized
\* it, the legacy job has ended, or no job can be admitted.
TickReclaimClosed ==
    /\ Reclaimable
    /\ claim.attempt < MaxAttempts
    /\ \E status \in TerminalClaim :
          /\ \/ job.status \in TerminalJob /\ status = StatusOf[job.status]
             \/ job.status = "none" /\ status \in {"BLOCKED", "REUSED", "DEGRADED"}
          /\ claim' = ClaimAs(status, job.status # "none", claim.attempt + 1, stamp + 1)
          /\ projection' = status
    /\ stamp' = stamp + 1
    /\ UNCHANGED <<job, observed, admission, worker, registry, request, requests, crashes>>

\* The tick that inserted the claim goes on.
AdmissionStep ==
    \/ TickAdmit \/ TickAdoptJob \/ TickCloseClaim \/ TickAbandon
    \/ \E w \in Workers : TickCreateJob(w)

Tick ==
    \/ TickReconcile \/ TickInsert \/ AdmissionStep
    \/ TickObserve \/ TickMerge
    \/ TickReclaimClosed \/ \E w \in Workers : TickReclaim(w)

\* Time passes beyond lease_expires_at, which is ten minutes away when a tick
\* inserts the claim it is about to admit a job for.
LeaseExpires ==
    /\ claim.lease = "live"
    /\ admission = "none"
    /\ claim' = [claim EXCEPT !.lease = "expired"]
    /\ UNCHANGED <<job, projection, observed, admission, worker, registry, request, stamp,
                   requests, crashes>>

-----------------------------------------------------------------------------
(* run_analysis_job                                                        *)

\* The thread reads the job row and decides what to do with it.  Only a job
\* cancelled before it ever started is finalized here; any other cancelled
\* job merely has its checkpoint reconciled.
ReadJob(w) ==
    /\ worker[w].pc = "spawned"
    /\ LET goTo(pc) == worker' = [worker EXCEPT ![w] = [Idle EXCEPT !.pc = pc, !.retry = job.retry]]
       IN \/ /\ job.status \in Startable
             /\ goTo("capturing")
             /\ UNCHANGED <<job, claim, projection>>
          \/ /\ job.status = "cancelled" /\ job.finished = 0 /\ job.started = 0
             /\ goTo("finalizing")
             /\ UNCHANGED <<job, claim, projection>>
          \/ /\ job.status = "cancelled" /\ (job.finished # 0 \/ job.started # 0)
             /\ worker' = [worker EXCEPT ![w] = Idle]
             /\ FinishCheckpoint(job)
          \/ /\ job.status \in {"running", "succeeded", "failed"}
             /\ worker' = [worker EXCEPT ![w] = Idle]
             /\ UNCHANGED <<job, claim, projection>>
    /\ UNCHANGED <<observed, admission, registry, request, stamp, requests, crashes>>

\* AnalysisWorkerOwnership.capture: read the claim generation.
Capture(w) ==
    /\ worker[w].pc \in {"capturing", "finalizing"}
    /\ worker' = [worker EXCEPT ![w] = [@ EXCEPT
          !.pc = IF @ = "capturing" THEN "starting" ELSE "closing",
          !.attempt = IF Held(claim) THEN claim.attempt ELSE 0]]
    /\ UNCHANGED <<job, claim, projection, observed, admission, registry, request, stamp,
                   requests, crashes>>

\* The cancelled job is locked with started_at NULL and finished.
FinalizeCancelled(w) ==
    /\ worker[w].pc = "closing"
    /\ worker' = [worker EXCEPT ![w] = Idle]
    /\ IF Fence(w)
       THEN /\ stamp' = stamp + 1
            /\ FinishCheckpoint([job EXCEPT !.finished = stamp'])
       ELSE UNCHANGED <<job, claim, projection, stamp>>
    /\ UNCHANGED <<observed, admission, registry, request, requests, crashes>>

\* AnalysisWorkerOwnership.start: the CAS that makes this thread the owner.
\* finished_at is not among the columns it writes.
Start(w) ==
    /\ worker[w].pc = "starting"
    /\ IF SameGeneration(w) /\ job.status \in Startable
       THEN /\ stamp' = stamp + 1
            /\ job' = [job EXCEPT !.status = "running", !.started = stamp']
            /\ worker' = [worker EXCEPT ![w] = [@ EXCEPT !.pc = "started", !.started = stamp']]
       ELSE /\ worker' = [worker EXCEPT ![w] = Idle]
            /\ UNCHANGED <<job, stamp>>
    /\ UNCHANGED <<claim, projection, observed, admission, registry, request, requests,
                   crashes>>

\* register_worker overwrites the entry of the job; the heartbeat is bound to
\* the captured generation, or to the one read now if none was captured.
Register(w) ==
    /\ worker[w].pc = "started"
    /\ registry' = w
    /\ worker' = [worker EXCEPT ![w] = [@ EXCEPT
          !.pc = "working",
          !.heartbeat = IF worker[w].attempt # 0 THEN worker[w].attempt
                        ELSE IF Held(claim) THEN claim.attempt ELSE 0]]
    /\ UNCHANGED <<job, claim, projection, observed, admission, request, stamp, requests,
                   crashes>>

\* A stage, node, artifact or context write executes the fence first and finds
\* that the generation was replaced: the thread exits without writing.
LoseOwnership(w) ==
    /\ worker[w].pc = "working"
    /\ ~Fence(w)
    /\ worker' = [worker EXCEPT ![w].pc = "exiting"]
    /\ UNCHANGED <<job, claim, projection, observed, admission, registry, request, stamp,
                   requests, crashes>>

\* Any exception of the workflow, among them the cancellation that _job_stage
\* or cancel_check notice, the stop event and a lost heartbeat.
Abort(w) ==
    /\ worker[w].pc = "working"
    /\ worker' = [worker EXCEPT ![w].pc = "failing"]
    /\ UNCHANGED <<job, claim, projection, observed, admission, registry, request, stamp,
                   requests, crashes>>

\* The terminal transaction of a successful analysis.
Succeed(w) ==
    /\ worker[w].pc = "working"
    /\ Fence(w)
    /\ job.status # "cancelled"
    /\ stamp' = stamp + 1
    /\ FinishCheckpoint([job EXCEPT !.status = "succeeded", !.finished = stamp'])
    /\ worker' = [worker EXCEPT ![w].pc = "exiting"]
    /\ UNCHANGED <<observed, admission, registry, request, requests, crashes>>

\* The exception handler: a cancelled job stays cancelled, any other fails.
Fail(w) ==
    /\ worker[w].pc = "failing"
    /\ worker' = [worker EXCEPT ![w].pc = "exiting"]
    /\ IF Fence(w)
       THEN /\ stamp' = stamp + 1
            /\ FinishCheckpoint([job EXCEPT
                  !.status = IF @ = "cancelled" THEN @ ELSE "failed", !.finished = stamp'])
       ELSE UNCHANGED <<job, claim, projection, stamp>>
    /\ UNCHANGED <<observed, admission, registry, request, requests, crashes>>

\* The finally block: the heartbeat stops and the registry entry is removed
\* if it still is this thread's.
Exit(w) ==
    /\ worker[w].pc = "exiting"
    /\ registry' = IF registry = w THEN NoWorker ELSE registry
    /\ worker' = [worker EXCEPT ![w] = Idle]
    /\ UNCHANGED <<job, claim, projection, observed, admission, request, stamp, requests,
                   crashes>>

Beating(w) ==
    /\ worker[w].pc \in {"working", "failing", "exiting"}
    /\ worker[w].heartbeat # 0
    /\ ~worker[w].lost /\ ~worker[w].stop

\* AnalysisLeaseHeartbeat.beat: renew the live lease of its own generation, or
\* learn that it is lost.
Beat(w) ==
    /\ Beating(w)
    /\ IF Held(claim) /\ claim.attempt = worker[w].heartbeat /\ claim.lease = "live"
       THEN /\ claim' = [claim EXCEPT !.status = "RUNNING"]
            /\ UNCHANGED worker
       ELSE /\ worker' = [worker EXCEPT ![w].lost = TRUE]
            /\ UNCHANGED claim
    /\ UNCHANGED <<job, projection, observed, admission, registry, request, stamp, requests,
                   crashes>>

WorkerStep(w) ==
    \/ ReadJob(w) \/ Capture(w) \/ FinalizeCancelled(w) \/ Start(w) \/ Register(w)
    \/ LoseOwnership(w) \/ Abort(w) \/ Succeed(w) \/ Fail(w) \/ Exit(w)

-----------------------------------------------------------------------------
(* The cancel and retry requests.  The row is read into the session, and   *)
(* the UPDATE issued later names only the columns whose value differs from *)
(* the one read.                                                           *)

CancelRead(c) ==
    /\ request[c].pc = "idle"
    /\ requests < MaxRequests
    /\ job.status \in ActiveJob
    /\ request' = [request EXCEPT ![c] = [pc |-> "cancelling", seen |-> job]]
    /\ requests' = requests + 1
    /\ UNCHANGED <<job, claim, projection, observed, admission, worker, registry, stamp,
                   crashes>>

CancelWrite(c) ==
    /\ request[c].pc = "cancelling"
    /\ job' = [job EXCEPT !.status = "cancelled"]
    /\ request' = [request EXCEPT ![c] = [NoRequest EXCEPT !.pc = "signalling"]]
    /\ UNCHANGED <<claim, projection, observed, admission, worker, registry, stamp, requests,
                   crashes>>

\* signal_worker, after the commit: it finds the thread by the job, whichever
\* thread is registered by now.
CancelSignal(c) ==
    /\ request[c].pc = "signalling"
    /\ worker' = IF registry = NoWorker THEN worker
                 ELSE [worker EXCEPT ![registry].stop = TRUE]
    /\ request' = [request EXCEPT ![c] = NoRequest]
    /\ UNCHANGED <<job, claim, projection, observed, admission, registry, stamp, requests,
                   crashes>>

RetryRead(c) ==
    /\ request[c].pc = "idle"
    /\ requests < MaxRequests
    /\ job.status \in {"failed", "cancelled"}
    /\ registry = NoWorker
    /\ request' = [request EXCEPT ![c] = [pc |-> "retrying", seen |-> job]]
    /\ requests' = requests + 1
    /\ UNCHANGED <<job, claim, projection, observed, admission, worker, registry, stamp,
                   crashes>>

\* Mutant: a successful claim is retried too.
RetryableOrSuccess == {"FAILED", "SKIPPED", "CLAIMED", "RUNNING", "SUCCESS"}

RetryableClaim == {"FAILED", "SKIPPED", "CLAIMED", "RUNNING"}

\* retry_job and retry_analysis_job_checkpoints in one transaction; a
\* background task then runs the job.
RetryWrite(c, w) ==
    /\ request[c].pc = "retrying"
    /\ LET seen == request[c].seen
       IN job' = [status |-> "retrying",
                  started |-> IF seen.started # 0 THEN 0 ELSE job.started,
                  finished |-> IF seen.finished # 0 THEN 0 ELSE job.finished,
                  retry |-> seen.retry + 1]
    /\ IF /\ claim.linked
          /\ claim.status \in RetryableClaim
          /\ job'.finished = 0
       THEN /\ claim' = ClaimAs("CLAIMED", TRUE, claim.attempt + 1, 0)
            /\ projection' = "RUNNING"
       ELSE UNCHANGED <<claim, projection>>
    /\ request' = [request EXCEPT ![c] = NoRequest]
    /\ Spawn(w)
    /\ UNCHANGED <<observed, admission, registry, stamp, requests, crashes>>

ClientStep(c) ==
    \/ CancelRead(c) \/ CancelWrite(c) \/ CancelSignal(c)
    \/ RetryRead(c) \/ \E w \in Workers : RetryWrite(c, w)

-----------------------------------------------------------------------------
\* The process dies: threads, registry and requests are gone, rows stay.
Crash ==
    /\ crashes < MaxCrashes
    /\ crashes' = crashes + 1
    /\ worker' = [w \in Workers |-> Idle]
    /\ registry' = NoWorker
    /\ request' = [c \in Clients |-> NoRequest]
    /\ observed' = "none"
    /\ admission' = "none"
    /\ UNCHANGED <<job, claim, projection, stamp, requests>>

Next ==
    \/ Tick
    \/ LeaseExpires
    \/ \E w \in Workers : CreateUnclaimedJob(w) \/ WorkerStep(w) \/ Beat(w)
    \/ \E c \in Clients : ClientStep(c)
    \/ Crash

Spec == Init /\ [][Next]_vars

-----------------------------------------------------------------------------
(* Safety                                                                  *)

TypeOK ==
    /\ job \in JobRow
    /\ claim \in ClaimRow
    /\ projection \in ClaimStatus \cup {"none"}
    /\ observed \in ClaimStatus \cup {"none"}
    /\ admission \in {"none", "inserted", "absent"} \cup JobStatus
    /\ worker \in [Workers -> Worker]
    /\ registry \in Workers \cup {NoWorker}
    /\ request \in [Clients -> Request]
    /\ stamp \in Nat /\ requests \in Nat /\ crashes \in Nat

Owns(w) == worker[w].started # 0 /\ Fence(w)

\* At most one thread can pass the fence of analysis_lease.lock, whatever
\* reclaims, lost-update retries, adoptions and restarts happened before.
SingleOwner ==
    \A v, w \in Workers : Owns(v) /\ Owns(w) => v = w

\* The transaction that finishes a job also closes its checkpoint, on every
\* path that finishes one: no claim stays active, and leased, for a finished job.
FinishedJobHoldsNoClaim == ~(Held(claim) /\ Finished(job))

\* completed_at and the end of the lease come with a terminal status and only
\* with it (docs/PHASE_H_ACCEPTANCE.md:44-45), through retry and reclaim.
CompletedIffTerminal ==
    claim.status # "none" =>
        /\ claim.completed # 0 <=> claim.status \in TerminalClaim
        /\ claim.lease = "none" <=> claim.status \in TerminalClaim

\* _checkpoint_status skips a checkpoint whose projected status is terminal, so
\* a stale observation merged by a tick must never hide the claim of a job that
\* can still run: its lease could expire and nobody would reclaim it.
ActiveClaimStaysVisible ==
    Held(claim) /\ job.status \in ActiveJob => projection \notin TerminalClaim

\* The projection announces success only for a claim that has it.
ProjectedSuccessIsReal == projection = "SUCCESS" => claim.status = "SUCCESS"

Alive(w) == worker[w].pc # "idle"

\* While its job can still run, no crash leaves it without both a thread and a
\* claim through which the tick can find it.
Recoverable ==
    job.status \in ActiveJob =>
        (\E w \in Workers : Alive(w)) \/ (Held(claim) /\ projection \notin TerminalClaim)

-----------------------------------------------------------------------------
(* The inductive invariant of the proofs.                                  *)

\* Timestamps of starts are handed out once, and only a start hands one out.
OwnershipInv ==
    /\ job.started <= stamp
    /\ \A w \in Workers :
          /\ worker[w].started <= stamp
          /\ worker[w].pc \in {"idle", "spawned", "capturing", "starting", "finalizing", "closing"}
                => worker[w].started = 0
    /\ \A v, w \in Workers :
          worker[v].started = worker[w].started /\ worker[v].started # 0 => v = w

\* An absent claim has left no trace, the tick that inserts a claim is its only
\* writer until it is linked, a linked claim names an existing job, and a status
\* comes with its timestamps.
ClaimInv ==
    /\ claim.status = "none" =>
          /\ ~claim.linked /\ claim.lease = "none"
          /\ projection = "none" /\ observed = "none" /\ admission = "none"
    /\ admission # "none" =>
          claim.status \in ActiveClaim /\ ~claim.linked /\ claim.lease = "live"
    /\ admission \in JobStatus \/ claim.linked => job.status \in JobStatus
    /\ job.status = "succeeded" => job.finished # 0
    /\ job.status = "running" => job.started # 0
    /\ CompletedIffTerminal

\* What the projection shows, and what a tick is about to merge into it.  The
\* second conjunct is why a stale observation cannot hide a job that a retry
\* revives: an observation made while a finished job held its claim is not
\* terminal.
ProjectionInv ==
    /\ claim.status \in ActiveClaim =>
          /\ job.status \in ActiveJob \/ job.finished # 0 \/ ~claim.linked
                => projection \notin TerminalClaim
          /\ job.finished # 0 \/ ~claim.linked => observed \notin TerminalClaim
    /\ observed = "SUCCESS" => claim.status = "SUCCESS"
    /\ ProjectedSuccessIsReal

IInv == TypeOK /\ OwnershipInv /\ ClaimInv /\ ProjectionInv

-----------------------------------------------------------------------------
(* Action properties                                                       *)

Retries(c) == request[c].pc = "retrying" /\ request'[c].pc = "idle" /\ crashes' = crashes

\* A terminal checkpoint keeps its verdict until the user retries the job: no
\* late worker, reconciliation or reclaim rewrites it.
VerdictKept ==
    [][claim.status \in TerminalClaim /\ claim' # claim => \E c \in Clients : Retries(c)]_vars

\* Not even a retry reopens a successful checkpoint.
SuccessKept == [][claim.status = "SUCCESS" => claim' = claim]_vars

\* A thread that runs under a claim and has lost the fence, by whatever cancel,
\* retry, reclaim or finish, never passes it again: no later write gives the rows
\* back the generation it holds, be it the write of a request that read them
\* before.  (A job without a claim has no generation that two retries of the same
\* failed row could not both write.)
LostForGood ==
    [][\A w \in Workers :
          /\ worker[w].attempt # 0 /\ worker[w].started # 0
          /\ worker'[w].started = worker[w].started
          /\ ~Owns(w)
          => ~Owns(w)']_vars

Reclaims == job.status = "running" /\ job'.status = "retrying" /\ UNCHANGED request

-----------------------------------------------------------------------------
(* Timing and fairness                                                     *)

\* The lease outlives the start of a thread and three heartbeat intervals, so
\* it runs out only when nobody who would renew it is alive.
Renewer(w) ==
    \/ worker[w].pc \in {"spawned", "capturing", "starting", "finalizing", "closing", "started"}
    \/ Beating(w) /\ worker[w].heartbeat = claim.attempt

TimelyNext ==
    \/ Tick
    \/ LeaseExpires /\ \A w \in Workers : ~Renewer(w)
    \/ \E w \in Workers : CreateUnclaimedJob(w) \/ WorkerStep(w) \/ Beat(w)
    \/ \E c \in Clients : ClientStep(c)
    \/ Crash

TimelySpec == Init /\ [][TimelyNext]_vars

\* Threads run, the scheduler keeps ticking, time passes; requests in flight
\* are answered.  Nobody has to make a request, and nothing has to crash.
Fairness ==
    /\ \A w \in Workers : WF_vars(WorkerStep(w))
    /\ WF_vars(Tick) /\ WF_vars(AdmissionStep)
    /\ WF_vars(LeaseExpires /\ \A w \in Workers : ~Renewer(w))
    /\ \A c \in Clients :
          /\ WF_vars(CancelWrite(c)) /\ WF_vars(CancelSignal(c))
          /\ WF_vars(\E w \in Workers : RetryWrite(c, w))

FairSpec == TimelySpec /\ Fairness

\* A running job is taken from its worker only when that worker is dead or its
\* heartbeat was stopped ("a live heartbeat prevents reclaim beyond the initial
\* lease", docs/PHASE_H_ACCEPTANCE.md:46).
LiveWorkerKeepsJob ==
    [][Reclaims => \A w \in Workers : Owns(w) => worker[w].stop \/ worker[w].lost]_vars

\* Every claimed checkpoint reaches a terminal status although the process may
\* crash between any two steps.
ClaimTerminates == claim.status \in ActiveClaim ~> claim.status \in TerminalClaim
=============================================================================

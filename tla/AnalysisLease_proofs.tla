----------------------- MODULE AnalysisLease_proofs -----------------------
(* The safety properties of AnalysisLease, for any number of threads,       *)
(* requests and crashes.                                                    *)
EXTENDS AnalysisLease, TLAPS

-----------------------------------------------------------------------------
(* What the row operators preserve.                                        *)

\* JOB_STATUS_MAP sends a finished status to a terminal checkpoint status, an
\* unfinished one to RUNNING, and only success to SUCCESS.
LEMMA StatusOfMaps ==
    ASSUME NEW s \in JobStatus
    PROVE  /\ StatusOf[s] \in ClaimStatus
           /\ s \in TerminalJob <=> StatusOf[s] \in TerminalClaim
           /\ s \in ActiveJob => StatusOf[s] = "RUNNING"
           /\ s = "succeeded" <=> StatusOf[s] = "SUCCESS"
  BY DEF StatusOf, JobStatus, ActiveJob, TerminalJob, ClaimStatus, ActiveClaim, TerminalClaim

\* Reconciliation keeps rows well typed and touches only active claims.
LEMMA ReconciledRow ==
    ASSUME NEW j \in JobRow, NEW c \in ClaimRow
    PROVE  /\ Reconciled(j, c) \in ClaimRow
           /\ Reconciled(j, c) # c => Held(c) /\ Finished(j)
           /\ Held(c) /\ Finished(j) =>
                 /\ Reconciled(j, c).status = StatusOf[j.status]
                 /\ Reconciled(j, c).status \in TerminalClaim
                 /\ Reconciled(j, c).linked = c.linked
                 /\ Reconciled(j, c).completed = j.finished
                 /\ Reconciled(j, c).lease = "none"
  <1>1. CASE Held(c) /\ Finished(j)
    <2>1. j.status \in JobStatus
      BY <1>1 DEF Finished, TerminalJob, JobStatus, ActiveJob
    <2>2. StatusOf[j.status] \in TerminalClaim /\ StatusOf[j.status] \in ClaimStatus
      BY <1>1, <2>1, StatusOfMaps DEF Finished
    <2>3. Reconciled(j, c) = [c EXCEPT !.status = StatusOf[j.status], !.completed = j.finished,
                                       !.lease = "none"]
      BY <1>1 DEF Reconciled
    <2> QED
      BY <1>1, <2>2, <2>3 DEF ClaimRow, JobRow
  <1>2. CASE ~(Held(c) /\ Finished(j))
    BY <1>2 DEF Reconciled
  <1> QED
    BY <1>1, <1>2

-----------------------------------------------------------------------------
(* Type correctness                                                        *)

\* The inductive invariant holds before the first tick.
LEMMA InitInv == Init => IInv
  BY ConstantsAssumption
     DEF Init, IInv, TypeOK, OwnershipInv, ClaimInv, ProjectionInv, CompletedIffTerminal,
         ProjectedSuccessIsReal, JobRow, NoJob, ClaimRow, NoClaim, Worker, Idle, Request,
         NoRequest, JobStatus, ClaimStatus, ActiveJob, TerminalJob, ActiveClaim, TerminalClaim,
         Held

\* A claim taken as its next generation is a claim.
LEMMA ClaimAsRow ==
    ASSUME NEW s \in ClaimStatus, NEW l \in BOOLEAN, NEW a \in Nat, NEW n \in Nat
    PROVE  ClaimAs(s, l, a, n) \in ClaimRow
  BY DEF ClaimAs, ClaimRow

\* The job updates of start, of the terminal transactions and of a cancel.
LEMMA JobUpdate ==
    ASSUME NEW j \in JobRow, NEW s \in JobStatus, NEW n \in Nat
    PROVE  /\ [j EXCEPT !.status = s] \in JobRow
           /\ [j EXCEPT !.finished = n] \in JobRow
           /\ [j EXCEPT !.status = s, !.started = n] \in JobRow
           /\ [j EXCEPT !.status = s, !.finished = n] \in JobRow
  <1>1. [j EXCEPT !.status = s] \in JobRow /\ [j EXCEPT !.finished = n] \in JobRow
    BY DEF JobRow
  <1>2. [j EXCEPT !.status = s, !.started = n] \in JobRow
    BY DEF JobRow
  <1>3. [j EXCEPT !.status = s, !.finished = n] \in JobRow
    BY DEF JobRow
  <1> QED
    BY <1>1, <1>2, <1>3

\* A thread that starts or ends, and one whose fields are updated, is a thread.
LEMMA WorkerRow ==
    /\ Idle \in Worker /\ Spawned \in Worker
    /\ \A r \in Worker, m \in Nat :
          /\ [r EXCEPT !.lost = TRUE] \in Worker /\ [r EXCEPT !.stop = TRUE] \in Worker
          /\ [r EXCEPT !.pc = "exiting"] \in Worker /\ [r EXCEPT !.pc = "failing"] \in Worker
          /\ [r EXCEPT !.pc = "started", !.started = m] \in Worker
          /\ [r EXCEPT !.pc = "working", !.heartbeat = m] \in Worker
          /\ \A pc \in {"starting", "closing"} : [r EXCEPT !.pc = pc, !.attempt = m] \in Worker
          /\ \A pc \in {"capturing", "finalizing"} : [Idle EXCEPT !.pc = pc, !.retry = m] \in Worker
  <1>1. Idle \in Worker
    BY DEF Worker, Idle
  <1>2. Spawned \in Worker
    BY DEF Worker, Idle, Spawned
  <1>3. ASSUME NEW r \in Worker
        PROVE  [r EXCEPT !.lost = TRUE] \in Worker /\ [r EXCEPT !.stop = TRUE] \in Worker
    BY DEF Worker
  <1>4. ASSUME NEW r \in Worker
        PROVE  [r EXCEPT !.pc = "exiting"] \in Worker /\ [r EXCEPT !.pc = "failing"] \in Worker
    BY DEF Worker
  <1>5. ASSUME NEW r \in Worker, NEW m \in Nat
        PROVE  [r EXCEPT !.pc = "started", !.started = m] \in Worker
    BY DEF Worker
  <1>6. ASSUME NEW r \in Worker, NEW m \in Nat
        PROVE  [r EXCEPT !.pc = "working", !.heartbeat = m] \in Worker
    BY DEF Worker
  <1>7. ASSUME NEW r \in Worker, NEW m \in Nat, NEW pc \in {"starting", "closing"}
        PROVE  [r EXCEPT !.pc = pc, !.attempt = m] \in Worker
    BY DEF Worker
  <1>8. ASSUME NEW m \in Nat, NEW pc \in {"capturing", "finalizing"}
        PROVE  [Idle EXCEPT !.pc = pc, !.retry = m] \in Worker
    BY DEF Worker, Idle
  <1> QED
    BY <1>1, <1>2, <1>3, <1>4, <1>5, <1>6, <1>7, <1>8

\* A step of a thread changes no other thread, and its own row well typed.
LEMMA WorkerStepRow ==
    ASSUME TypeOK, NEW w \in Workers, WorkerStep(w)
    PROVE  \E r \in Worker : worker' = [worker EXCEPT ![w] = r]
  <1> USE DEF TypeOK
  <1>1. CASE ReadJob(w)
    <2>1. job.retry \in Nat
      BY DEF JobRow
    <2>2. \A pc \in {"capturing", "finalizing"} : [Idle EXCEPT !.pc = pc, !.retry = job.retry] \in Worker
      BY <2>1, WorkerRow
    <2> QED
      BY <1>1, <2>2, WorkerRow DEF ReadJob
  <1>2. CASE Capture(w)
    <2> DEFINE m == IF Held(claim) THEN claim.attempt ELSE 0
    <2>1. m \in Nat
      BY DEF ClaimRow
    <2>2. \A pc \in {"starting", "closing"} : [worker[w] EXCEPT !.pc = pc, !.attempt = m] \in Worker
      BY <2>1, WorkerRow
    <2> HIDE DEF m
    <2>3. PICK pc \in {"starting", "closing"} :
             worker' = [worker EXCEPT ![w] = [worker[w] EXCEPT !.pc = pc, !.attempt = m]]
      BY <1>2 DEF Capture, m
    <2> QED
      BY <2>2, <2>3
  <1>3. CASE FinalizeCancelled(w) \/ Exit(w)
    BY <1>3, WorkerRow DEF FinalizeCancelled, Exit
  <1>4. CASE Start(w)
    <2>1. stamp + 1 \in Nat
      OBVIOUS
    <2>2. [worker[w] EXCEPT !.pc = "started", !.started = stamp + 1] \in Worker
      BY <2>1, WorkerRow
    <2> QED
      BY <1>4, <2>2, WorkerRow DEF Start
  <1>5. CASE Register(w)
    <2> DEFINE m == IF worker[w].attempt # 0 THEN worker[w].attempt
                    ELSE IF Held(claim) THEN claim.attempt ELSE 0
    <2>1. m \in Nat
      BY DEF ClaimRow, Worker
    <2>2. [worker[w] EXCEPT !.pc = "working", !.heartbeat = m] \in Worker
      BY <2>1, WorkerRow
    <2> QED
      BY <1>5, <2>2 DEF Register
  <1>6. CASE LoseOwnership(w) \/ Abort(w) \/ Succeed(w) \/ Fail(w)
    BY <1>6, WorkerRow DEF LoseOwnership, Abort, Succeed, Fail
  <1> QED
    BY WorkerStep(w), <1>1, <1>2, <1>3, <1>4, <1>5, <1>6 DEF WorkerStep

\* StatusOf is only ever applied to a row that exists.
LEMMA TypeStep == TypeOK /\ ClaimInv /\ [Next]_vars => TypeOK'
  <1> SUFFICES ASSUME TypeOK, ClaimInv, [Next]_vars PROVE TypeOK'
    OBVIOUS
  <1> USE ConstantsAssumption DEF TypeOK, JobRow, ClaimRow, Request
  <1>rows. ASSUME NEW j \in JobRow, FinishCheckpoint(j)
           PROVE  job' \in JobRow /\ claim' \in ClaimRow /\ projection' \in ClaimStatus \cup {"none"}
    <2>1. job' \in JobRow /\ claim' \in ClaimRow
      BY <1>rows, ReconciledRow DEF FinishCheckpoint
    <2>2. projection' \in {claim'.status, projection}
      BY <1>rows DEF FinishCheckpoint, Repaired
    <2>3. Trusted(j, claim') => claim'.status \in ClaimStatus
      BY StatusOfMaps DEF Trusted, Finished, JobStatus
    <2> QED
      BY <1>rows, <2>1, <2>2
  <1>1. CASE Tick
    <2>1. CASE TickReconcile
      <3>1. claim' \in ClaimRow
        BY <2>1, ReconciledRow DEF TickReconcile
      <3> QED
        BY <2>1, <3>1 DEF TickReconcile, Repaired
    <2>2. CASE TickAdoptJob
      <3>1. StatusOf[admission] \in ClaimStatus
        BY <2>2, StatusOfMaps DEF TickAdoptJob
      <3> QED
        BY <2>2, <3>1 DEF TickAdoptJob, ClaimAs, Merged, TerminalClaim, ClaimStatus, ActiveClaim
    <2>3. CASE TickCloseClaim
      BY <2>3 DEF TickCloseClaim, ClaimAs, ClaimStatus, TerminalClaim
    <2>4. CASE TickObserve
      <3>1. claim.linked => StatusOf[job.status] \in ClaimStatus
        BY StatusOfMaps DEF ClaimInv
      <3>2. observed' \in ClaimStatus
        BY <2>4, <3>1 DEF TickObserve, ClaimStatus, ActiveClaim
      <3> QED
        BY <2>4, <3>2 DEF TickObserve
    <2>5. CASE TickMerge
      BY <2>5 DEF TickMerge, Merged, ClaimStatus, ActiveClaim
    <2>6. CASE TickReclaimClosed
      <3>1. PICK status \in TerminalClaim :
               /\ claim' = ClaimAs(status, job.status # "none", claim.attempt + 1, stamp + 1)
               /\ projection' = status
        BY <2>6 DEF TickReclaimClosed
      <3>2. claim' \in ClaimRow /\ projection' \in ClaimStatus
        <4>1. status \in ClaimStatus /\ claim.attempt + 1 \in Nat /\ stamp + 1 \in Nat
          BY DEF ClaimStatus
        <4>2. (job.status # "none") \in BOOLEAN
          OBVIOUS
        <4> QED
          BY <3>1, <4>1, <4>2, ClaimAsRow
      <3> QED
        BY <2>6, <3>2 DEF TickReclaimClosed
    <2>7. ASSUME NEW w \in Workers, TickCreateJob(w) PROVE TypeOK'
      BY <2>7, WorkerRow DEF TickCreateJob, ClaimAs, NoJob, Spawn, JobStatus, ActiveJob,
                  ClaimStatus, ActiveClaim, TerminalClaim
    <2>8. ASSUME NEW w \in Workers, TickReclaim(w) PROVE TypeOK'
      <3>1. job' \in JobRow
        BY <2>8 DEF TickReclaim, JobStatus, ActiveJob, NoJob
      <3>2. claim' \in ClaimRow /\ projection' \in ClaimStatus
        BY <2>8 DEF TickReclaim, ClaimAs, ClaimStatus, ActiveClaim
      <3>3. worker' \in [Workers -> Worker]
        BY <2>8, WorkerRow DEF TickReclaim, Spawn
      <3> QED
        BY <2>8, <3>1, <3>2, <3>3 DEF TickReclaim
    <2>9. CASE TickInsert \/ TickAdmit \/ TickAbandon
      <3>1. CASE TickInsert
        <4>1. "CLAIMED" \in ClaimStatus
          BY DEF ClaimStatus, ActiveClaim
        <4>2. claim' \in ClaimRow
          BY <3>1, <4>1, ClaimAsRow DEF TickInsert
        <4> QED
          BY <3>1, <4>2 DEF TickInsert
      <3>2. CASE TickAdmit \/ TickAbandon
        BY <3>2 DEF TickAdmit, TickAbandon
      <3> QED
        BY <2>9, <3>1, <3>2
    <2> QED
      BY <1>1, <2>1, <2>2, <2>3, <2>4, <2>5, <2>6, <2>7, <2>8, <2>9 DEF Tick, AdmissionStep
  <1>2. CASE LeaseExpires
    BY <1>2 DEF LeaseExpires
  <1>3. ASSUME NEW w \in Workers, CreateUnclaimedJob(w) PROVE TypeOK'
    BY <1>3, WorkerRow DEF CreateUnclaimedJob, NoJob, Spawn, JobStatus, ActiveJob
  <1>4. ASSUME NEW w \in Workers, WorkerStep(w) PROVE TypeOK'
    <2>w. worker' \in [Workers -> Worker]
      BY <1>4, WorkerStepRow
    <2>1. CASE ReadJob(w)
      BY <2>1, <2>w, <1>rows DEF ReadJob
    <2>2. CASE Capture(w) \/ Register(w) \/ LoseOwnership(w) \/ Abort(w) \/ Exit(w)
      BY <2>2, <2>w DEF Capture, Register, LoseOwnership, Abort, Exit
    <2>3. CASE FinalizeCancelled(w)
      <3>1. stamp + 1 \in Nat /\ [job EXCEPT !.finished = stamp + 1] \in JobRow
        OBVIOUS
      <3> QED
        BY <2>3, <2>w, <3>1, <1>rows DEF FinalizeCancelled
    <2>4. CASE Start(w)
      <3>1. "running" \in JobStatus /\ stamp + 1 \in Nat
        BY DEF JobStatus, ActiveJob
      <3>2. [job EXCEPT !.status = "running", !.started = stamp + 1] \in JobRow
        BY <3>1, JobUpdate
      <3> QED
        BY <2>4, <2>w, <3>1, <3>2 DEF Start
    <2>5. CASE Succeed(w)
      <3>1. "succeeded" \in JobStatus /\ stamp + 1 \in Nat
        BY DEF JobStatus, TerminalJob
      <3>2. [job EXCEPT !.status = "succeeded", !.finished = stamp + 1] \in JobRow
        BY <3>1, JobUpdate
      <3> QED
        BY <2>5, <2>w, <3>1, <3>2, <1>rows DEF Succeed
    <2>6. CASE Fail(w)
      <3> DEFINE s == IF job.status = "cancelled" THEN job.status ELSE "failed"
      <3>1. s \in JobStatus /\ stamp + 1 \in Nat
        BY DEF JobStatus, TerminalJob
      <3>2. [job EXCEPT !.status = s, !.finished = stamp + 1] \in JobRow
        BY <3>1, JobUpdate
      <3> QED
        BY <2>6, <2>w, <3>1, <3>2, <1>rows DEF Fail
    <2> QED
      BY <1>4, <2>1, <2>2, <2>3, <2>4, <2>5, <2>6 DEF WorkerStep
  <1>5. ASSUME NEW w \in Workers, Beat(w) PROVE TypeOK'
    <2>1. CASE UNCHANGED worker
      BY <1>5, <2>1, WorkerRow DEF Beat, ClaimStatus, ActiveClaim
    <2>2. CASE UNCHANGED claim /\ worker' = [worker EXCEPT ![w].lost = TRUE]
      BY <1>5, <2>2, WorkerRow DEF Beat
    <2> QED
      BY <1>5, <2>1, <2>2 DEF Beat
  <1>6. ASSUME NEW c \in Clients, ClientStep(c) PROVE TypeOK'
    <2>1. CASE CancelRead(c) \/ RetryRead(c)
      BY <2>1 DEF CancelRead, RetryRead
    <2>2. CASE CancelWrite(c)
      BY <2>2 DEF CancelWrite, NoRequest, NoJob, JobStatus, TerminalJob
    <2>3. CASE CancelSignal(c)
      BY <2>3, WorkerRow DEF CancelSignal, NoRequest, NoJob
    <2>4. ASSUME NEW w \in Workers, RetryWrite(c, w) PROVE TypeOK'
      <3>1. job' \in JobRow
        BY <2>4 DEF RetryWrite, JobStatus, ActiveJob
      <3>2. claim' \in ClaimRow /\ projection' \in ClaimStatus \cup {"none"}
        <4>1. \/ UNCHANGED <<claim, projection>>
              \/ claim' = ClaimAs("CLAIMED", TRUE, claim.attempt + 1, 0) /\ projection' = "RUNNING"
          BY <2>4 DEF RetryWrite
        <4>2. "CLAIMED" \in ClaimStatus /\ "RUNNING" \in ClaimStatus /\ claim.attempt + 1 \in Nat
          BY DEF ClaimStatus, ActiveClaim
        <4>3. ClaimAs("CLAIMED", TRUE, claim.attempt + 1, 0) \in ClaimRow
          BY <4>2, ClaimAsRow
        <4> QED
          BY <4>1, <4>2, <4>3
      <3>3. worker' \in [Workers -> Worker]
        BY <2>4, WorkerRow DEF RetryWrite, Spawn
      <3>4. request' \in [Clients -> Request]
        BY <2>4 DEF RetryWrite, NoRequest, NoJob
      <3> QED
        BY <2>4, <3>1, <3>2, <3>3, <3>4 DEF RetryWrite
    <2> QED
      BY <1>6, <2>1, <2>2, <2>3, <2>4 DEF ClientStep
  <1>7. CASE Crash
    <2>1. worker' \in [Workers -> Worker] /\ request' \in [Clients -> Request]
      BY <1>7, WorkerRow DEF Crash, NoRequest, NoJob
    <2> QED
      BY <1>7, <2>1 DEF Crash
  <1>8. CASE UNCHANGED vars
    BY <1>8 DEF vars
  <1> QED
    BY <1>1, <1>2, <1>3, <1>4, <1>5, <1>6, <1>7, <1>8 DEF Next

-----------------------------------------------------------------------------
(* Ownership                                                               *)

NotStarted == {"idle", "spawned", "capturing", "starting", "finalizing", "closing"}

\* A step that hands out no start keeps OwnershipInv.
LEMMA NoStart ==
    ASSUME TypeOK, TypeOK', OwnershipInv,
           stamp <= stamp', job'.started \in {0, job.started},
           \A w \in Workers : /\ worker'[w].started \in {0, worker[w].started}
                              /\ worker'[w].pc \in NotStarted => worker'[w].started = 0
    PROVE  OwnershipInv'
  <1>1. job.started \in Nat /\ job'.started \in Nat /\ stamp \in Nat /\ stamp' \in Nat
    BY DEF TypeOK, JobRow
  <1>2. \A w \in Workers : worker[w].started \in Nat /\ worker'[w].started \in Nat
    BY DEF TypeOK, Worker
  <1>3. job'.started <= stamp'
    BY <1>1 DEF OwnershipInv
  <1>4. \A w \in Workers : worker'[w].started <= stamp'
    BY <1>1, <1>2 DEF OwnershipInv
  <1>5. ASSUME NEW v \in Workers, NEW w \in Workers,
               worker'[v].started = worker'[w].started, worker'[v].started # 0
        PROVE  v = w
    BY <1>5 DEF OwnershipInv
  <1> QED
    BY <1>3, <1>4, <1>5 DEF OwnershipInv, NotStarted

\* Only the start CAS hands out a start, and a new one.
LEMMA OwnershipStep == TypeOK /\ TypeOK' /\ OwnershipInv /\ [Next]_vars => OwnershipInv'
  <1> SUFFICES ASSUME TypeOK, TypeOK', OwnershipInv, [Next]_vars PROVE OwnershipInv'
    OBVIOUS
  <1>n. stamp \in Nat /\ stamp <= stamp + 1 /\ stamp <= stamp
    BY DEF TypeOK
  <1>p. \A w \in Workers : worker[w].pc \in NotStarted => worker[w].started = 0
    BY DEF OwnershipInv, NotStarted
  <1>r. Idle.started = 0 /\ Spawned.started = 0
    BY DEF Idle, Spawned
  <1> USE DEF TypeOK, JobRow
  <1>1. CASE Tick
    <2>1. CASE \/ TickReconcile \/ TickInsert \/ TickAdmit \/ TickAdoptJob \/ TickCloseClaim
               \/ TickAbandon \/ TickObserve \/ TickMerge \/ TickReclaimClosed
      BY <2>1, <1>n, <1>p, NoStart
         DEF TickReconcile, TickInsert, TickAdmit, TickAdoptJob, TickCloseClaim, TickAbandon,
             TickObserve, TickMerge, TickReclaimClosed
    <2>2. ASSUME NEW w \in Workers, TickCreateJob(w) PROVE OwnershipInv'
      BY <2>2, <1>n, <1>p, <1>r, NoStart DEF TickCreateJob, Spawn, NoJob
    <2>3. ASSUME NEW w \in Workers, TickReclaim(w) PROVE OwnershipInv'
      <3>1. job'.started \in {0, job.started}
        BY <2>3 DEF TickReclaim, NoJob
      <3> QED
        BY <2>3, <3>1, <1>n, <1>p, <1>r, NoStart DEF TickReclaim, Spawn
    <2> QED
      BY <1>1, <2>1, <2>2, <2>3 DEF Tick, AdmissionStep
  <1>2. CASE LeaseExpires
    BY <1>2, <1>n, <1>p, NoStart DEF LeaseExpires
  <1>3. ASSUME NEW w \in Workers, CreateUnclaimedJob(w) PROVE OwnershipInv'
    BY <1>3, <1>n, <1>p, <1>r, NoStart DEF CreateUnclaimedJob, Spawn, NoJob
  <1>4. ASSUME NEW w \in Workers, WorkerStep(w) PROVE OwnershipInv'
    <2>1. CASE ReadJob(w)
      <3>1. \A pc \in {"capturing", "finalizing"} :
               [Idle EXCEPT !.pc = pc, !.retry = job.retry].started = 0
        BY DEF Idle
      <3>2. PICK r : worker' = [worker EXCEPT ![w] = r] /\ r.started = 0
        BY <2>1, <3>1, <1>r DEF ReadJob
      <3>3. UNCHANGED <<job, stamp>>
        BY <2>1 DEF ReadJob, FinishCheckpoint
      <3> QED
        BY <3>2, <3>3, <1>n, <1>p, NoStart
    <2>2. CASE Capture(w)
      BY <2>2, <1>n, <1>p, NoStart DEF Capture, NotStarted, Worker
    <2>3. CASE FinalizeCancelled(w)
      BY <2>3, <1>n, <1>p, <1>r, NoStart DEF FinalizeCancelled, FinishCheckpoint
    <2>4. CASE Start(w)
      <3>1. CASE UNCHANGED <<job, stamp>> /\ worker' = [worker EXCEPT ![w] = Idle]
        BY <3>1, <1>n, <1>p, <1>r, NoStart
      <3>2. CASE /\ stamp' = stamp + 1
                 /\ job' = [job EXCEPT !.status = "running", !.started = stamp']
                 /\ worker' = [worker EXCEPT ![w] = [@ EXCEPT !.pc = "started", !.started = stamp']]
        <4>1. job'.started = stamp'
          BY <3>2
        <4>2. worker'[w].started = stamp' /\ worker'[w].pc = "started"
          BY <3>2 DEF Worker
        <4>3. \A v \in Workers \ {w} : worker'[v] = worker[v] /\ worker[v].started <= stamp
          BY <3>2 DEF OwnershipInv
        <4>4. \A v \in Workers : worker[v].started \in Nat
          BY DEF Worker
        <4> QED
          BY <3>2, <4>1, <4>2, <4>3, <4>4 DEF OwnershipInv
      <3> QED
        BY <2>4, <3>1, <3>2 DEF Start
    <2>5. CASE Register(w)
      BY <2>5, <1>n, <1>p, NoStart DEF Register, NotStarted, Worker
    <2>6. CASE LoseOwnership(w) \/ Abort(w)
      BY <2>6, <1>n, <1>p, NoStart DEF LoseOwnership, Abort, NotStarted, Worker
    <2>7. CASE Succeed(w)
      BY <2>7, <1>n, <1>p, NoStart DEF Succeed, FinishCheckpoint, NotStarted, Worker
    <2>8. CASE Fail(w)
      BY <2>8, <1>n, <1>p, NoStart DEF Fail, FinishCheckpoint, NotStarted, Worker
    <2>9. CASE Exit(w)
      BY <2>9, <1>n, <1>p, <1>r, NoStart DEF Exit
    <2> QED
      BY <1>4, <2>1, <2>2, <2>3, <2>4, <2>5, <2>6, <2>7, <2>8, <2>9 DEF WorkerStep
  <1>5. ASSUME NEW w \in Workers, Beat(w) PROVE OwnershipInv'
    BY <1>5, <1>n, <1>p, NoStart DEF Beat, Worker
  <1>6. ASSUME NEW c \in Clients, ClientStep(c) PROVE OwnershipInv'
    <2>1. CASE CancelRead(c) \/ RetryRead(c)
      BY <2>1, <1>n, <1>p, NoStart DEF CancelRead, RetryRead
    <2>2. CASE CancelWrite(c)
      BY <2>2, <1>n, <1>p, NoStart DEF CancelWrite
    <2>3. CASE CancelSignal(c)
      BY <2>3, <1>n, <1>p, NoStart DEF CancelSignal, Worker
    <2>4. ASSUME NEW w \in Workers, RetryWrite(c, w) PROVE OwnershipInv'
      BY <2>4, <1>n, <1>p, <1>r, NoStart DEF RetryWrite, Spawn
    <2> QED
      BY <1>6, <2>1, <2>2, <2>3, <2>4 DEF ClientStep
  <1>7. CASE Crash
    BY <1>7, <1>n, <1>r, NoStart DEF Crash
  <1>8. CASE UNCHANGED vars
    BY <1>8, <1>n, <1>p, NoStart DEF vars
  <1> QED
    BY <1>1, <1>2, <1>3, <1>4, <1>5, <1>6, <1>7, <1>8 DEF Next

-----------------------------------------------------------------------------
(* The rows                                                                *)

\* What a thread does to the rows: nothing, the start CAS, or a transaction
\* that leaves a finished job and closes its checkpoint.
LEMMA WorkerStepRows ==
    ASSUME TypeOK, OwnershipInv, ClaimInv, NEW w \in Workers, WorkerStep(w)
    PROVE  /\ UNCHANGED <<observed, admission>>
           /\ \/ UNCHANGED <<job, claim, projection>>
              \/ /\ job.status \in Startable
                 /\ job' = [job EXCEPT !.status = "running", !.started = stamp + 1]
                 /\ UNCHANGED <<claim, projection>>
              \/ \E j \in JobRow : /\ FinishCheckpoint(j) /\ job.status # "none"
                                   /\ j.status \in TerminalJob
                                   /\ j.status = "succeeded" => j.finished # 0
                                   /\ j = job \/ j.finished # 0
  <1> USE DEF TypeOK
  <1>n. stamp + 1 \in Nat /\ stamp + 1 # 0
    OBVIOUS
  <1>1. CASE ReadJob(w)
    BY <1>1 DEF ReadJob, TerminalJob
  <1>2. CASE Capture(w) \/ Register(w) \/ LoseOwnership(w) \/ Abort(w) \/ Exit(w)
    BY <1>2 DEF Capture, Register, LoseOwnership, Abort, Exit
  <1>3. CASE FinalizeCancelled(w)
    <2> DEFINE j == [job EXCEPT !.finished = stamp + 1]
    <2>1. CASE ~Fence(w)
      BY <1>3, <2>1 DEF FinalizeCancelled
    <2>2. CASE Fence(w)
      <3>1. job.started = 0 /\ job.status \in {"running", "cancelled"}
        BY <1>3, <2>2 DEF FinalizeCancelled, Fence, OwnershipInv
      <3>2. job.status = "cancelled"
        BY <3>1 DEF ClaimInv
      <3>3. j \in JobRow
        BY <1>n, <3>2, JobUpdate DEF JobStatus, TerminalJob
      <3>4. j.status = "cancelled" /\ j.finished # 0
        BY <1>n, <3>2 DEF JobRow
      <3>5. FinishCheckpoint(j) /\ UNCHANGED <<observed, admission>>
        BY <1>3, <2>2 DEF FinalizeCancelled
      <3> QED
        BY <3>2, <3>3, <3>4, <3>5 DEF TerminalJob
    <2> QED
      BY <2>1, <2>2
  <1>4. CASE Start(w)
    BY <1>4 DEF Start
  <1>5. CASE Succeed(w)
    <2> DEFINE j == [job EXCEPT !.status = "succeeded", !.finished = stamp + 1]
    <2>1. j \in JobRow
      BY <1>n, JobUpdate DEF JobStatus, TerminalJob
    <2>2. j.status = "succeeded" /\ j.finished # 0
      BY <1>n DEF JobRow
    <2>3. FinishCheckpoint(j) /\ UNCHANGED <<observed, admission>> /\ job.status # "none"
      BY <1>5 DEF Succeed, Fence
    <2> QED
      BY <2>1, <2>2, <2>3 DEF TerminalJob
  <1>6. CASE Fail(w)
    <2> DEFINE s == IF job.status = "cancelled" THEN job.status ELSE "failed"
               j == [job EXCEPT !.status = s, !.finished = stamp + 1]
    <2>1. s \in TerminalJob /\ s # "succeeded" /\ s \in JobStatus
      BY DEF JobStatus, TerminalJob
    <2>2. j \in JobRow
      BY <1>n, <2>1, JobUpdate
    <2>3. j.status = s /\ j.finished # 0
      BY <1>n DEF JobRow
    <2>4. /\ UNCHANGED <<observed, admission>>
          /\ \/ FinishCheckpoint(j) /\ job.status # "none"
             \/ UNCHANGED <<job, claim, projection>>
      BY <1>6 DEF Fail, Fence
    <2> QED
      BY <2>1, <2>2, <2>3, <2>4
  <1> QED
    BY WorkerStep(w), <1>1, <1>2, <1>3, <1>4, <1>5, <1>6 DEF WorkerStep

\* The transaction that finishes a job keeps the invariants of the rows.
LEMMA FinishRows ==
    ASSUME TypeOK, ClaimInv, ProjectionInv, UNCHANGED <<observed, admission>>,
           NEW j \in JobRow, FinishCheckpoint(j), j.status \in TerminalJob,
           j.status = "succeeded" => j.finished # 0, j = job \/ j.finished # 0
    PROVE  ClaimInv' /\ ProjectionInv'
  <1> USE DEF TypeOK
  <1>1. job' = j /\ claim' = Reconciled(j, claim) /\ projection' = Repaired(j, claim', projection)
    BY DEF FinishCheckpoint
  <1>2. j.status \in JobStatus /\ j.status # "running" /\ j.status \notin ActiveJob
    BY DEF JobStatus, TerminalJob, ActiveJob
  <1>3. TerminalClaim \cap ActiveClaim = {} /\ "none" \notin TerminalClaim \cup ActiveClaim
    BY DEF TerminalClaim, ActiveClaim
  <1>4. CASE Held(claim) /\ Finished(j)
    <2>1. /\ claim'.status \in TerminalClaim /\ claim'.completed # 0 /\ claim'.lease = "none"
          /\ claim.status \in ActiveClaim /\ claim.linked
      BY <1>1, <1>4, ReconciledRow DEF Finished, Held
    <2>2. ClaimInv'
      BY <1>1, <1>2, <1>3, <2>1 DEF ClaimInv, CompletedIffTerminal
    <2>3. ~Held(claim')
      BY <1>3, <2>1 DEF Held
    <2>4. claim.status # "SUCCESS"
      BY <2>1 DEF ActiveClaim
    <2>5. ProjectionInv'
      BY <1>1, <1>3, <2>1, <2>3, <2>4 DEF ProjectionInv, ProjectedSuccessIsReal, Repaired
    <2> QED
      BY <2>2, <2>5
  <1>5. CASE ~(Held(claim) /\ Finished(j))
    <2>1. claim' = claim
      BY <1>1, <1>5 DEF Reconciled
    <2>2. ClaimInv'
      <3>1. claim.status = "none" => projection' = projection
        BY <1>1, <2>1 DEF ClaimInv, Repaired, Trusted
      <3> QED
        BY <1>1, <1>2, <2>1, <3>1 DEF ClaimInv, CompletedIffTerminal
    <2>3. ~(Held(claim) /\ j.finished # 0)
      BY <1>5 DEF Finished
    <2>4. ProjectionInv'
      <3>1. CASE Trusted(j, claim)
        <4>1. claim.status \in TerminalClaim /\ projection' = claim.status
          BY <1>1, <2>1, <3>1, StatusOfMaps DEF Trusted, Finished, Repaired, JobStatus
        <4> QED
          BY <1>3, <2>1, <4>1 DEF ProjectionInv, ProjectedSuccessIsReal
      <3>2. CASE ~Trusted(j, claim)
        <4>1. projection' = projection
          BY <1>1, <2>1, <3>2 DEF Repaired
        <4> QED
          BY <1>1, <1>2, <2>1, <2>3, <4>1 DEF ProjectionInv, ProjectedSuccessIsReal, Held
      <3> QED
        BY <3>1, <3>2
    <2> QED
      BY <2>2, <2>4
  <1> QED
    BY <1>4, <1>5

\* Taking the claim anew while the job is not finished keeps them too.
LEMMA RenewRows ==
    ASSUME TypeOK, TypeOK', ClaimInv, ProjectionInv, observed' = observed, admission' = "none",
           claim'.status \in ActiveClaim, claim'.linked, claim'.lease # "none", claim'.completed = 0,
           projection' = "RUNNING", claim.status # "SUCCESS",
           job'.status \in ActiveJob, job'.status = "running" => job'.started # 0,
           job'.finished # 0 => claim.status \in ActiveClaim /\ job.finished # 0
    PROVE  ClaimInv' /\ ProjectionInv'
  <1>1. /\ claim'.status \notin TerminalClaim /\ claim'.status # "none" /\ claim'.status # "SUCCESS"
        /\ projection' \notin TerminalClaim
    BY DEF ActiveClaim, TerminalClaim
  <1>2. job'.status \in JobStatus /\ job'.status # "succeeded"
    BY DEF JobStatus, ActiveJob
  <1>3. ClaimInv'
    BY <1>1, <1>2 DEF ClaimInv, CompletedIffTerminal
  <1>4. ProjectionInv'
    BY <1>1 DEF ProjectionInv, ProjectedSuccessIsReal, TerminalClaim
  <1> QED
    BY <1>3, <1>4

\* No step of tick, thread or request breaks the invariants of the rows.
LEMMA RowsStep ==
    TypeOK /\ TypeOK' /\ OwnershipInv /\ ClaimInv /\ ProjectionInv /\ [Next]_vars
        => ClaimInv' /\ ProjectionInv'
  <1> SUFFICES ASSUME TypeOK, TypeOK', OwnershipInv, ClaimInv, ProjectionInv, [Next]_vars
               PROVE  ClaimInv' /\ ProjectionInv'
    OBVIOUS
  <1>d. /\ TerminalClaim \cap ActiveClaim = {} /\ "none" \notin TerminalClaim \cup ActiveClaim
        /\ TerminalJob \cap ActiveJob = {} /\ "RUNNING" \in ActiveClaim
        /\ {"none", "inserted", "absent"} \cap JobStatus = {}
    BY DEF TerminalClaim, ActiveClaim, TerminalJob, ActiveJob, JobStatus
  <1>same. ASSUME UNCHANGED <<job, claim, projection>>, observed' \in {observed, "none"},
                  admission' \in {admission, "none"}
           PROVE  ClaimInv' /\ ProjectionInv'
    BY <1>same, <1>d DEF ClaimInv, CompletedIffTerminal, ProjectionInv, ProjectedSuccessIsReal, Held
  <1>1. CASE Tick
    <2>1. CASE TickReconcile
      <3>1. CASE Held(claim) /\ Finished(job)
        <4>1. FinishCheckpoint(job) /\ UNCHANGED <<observed, admission>>
          BY <2>1 DEF TickReconcile, FinishCheckpoint
        <4>2. job \in JobRow /\ job.status \in TerminalJob /\ job.finished # 0
          BY <3>1 DEF TypeOK, Finished
        <4> QED
          BY <4>1, <4>2, FinishRows
      <3>2. CASE ~(Held(claim) /\ Finished(job))
        <4>1. /\ UNCHANGED <<job, claim, observed, admission>>
              /\ projection' = Repaired(job, claim, projection)
          BY <2>1, <3>2 DEF TickReconcile, Reconciled
        <4>2. CASE Trusted(job, claim)
          <5>1. claim.status \in TerminalClaim /\ projection' = claim.status
            BY <4>1, <4>2, StatusOfMaps DEF Trusted, Repaired, Finished, JobStatus
          <5> QED
            BY <4>1, <5>1, <1>d DEF ClaimInv, CompletedIffTerminal, ProjectionInv,
                                    ProjectedSuccessIsReal
        <4>3. CASE ~Trusted(job, claim)
          BY <4>1, <4>3, <1>same DEF Repaired
        <4> QED
          BY <4>2, <4>3
      <3> QED
        BY <3>1, <3>2
    <2>2. CASE TickAdoptJob
      <3> DEFINE status == StatusOf[admission]
      <3>1. /\ admission \in JobStatus /\ admission' = "none" /\ UNCHANGED <<job, observed>>
            /\ job.status \in JobStatus
        BY <2>2 DEF TickAdoptJob, ClaimInv
      <3>2. claim.status \in ActiveClaim /\ ~claim.linked
        BY <3>1 DEF ClaimInv, JobStatus, ActiveJob, TerminalJob
      <3>3. observed \notin TerminalClaim /\ observed # "SUCCESS"
        BY <3>2 DEF ProjectionInv, ActiveClaim
      <3>4. status \in TerminalClaim \/ status = "RUNNING"
        BY <3>1, StatusOfMaps DEF JobStatus
      <3> HIDE DEF status
      <3>5. CASE status \in TerminalClaim
        <4>1. claim' = ClaimAs(status, TRUE, claim.attempt, stamp + 1)
              /\ projection' = Merged(job, claim', status)
          BY <2>2, <3>5 DEF TickAdoptJob, status
        <4>2. /\ claim'.status = status /\ claim'.completed # 0 /\ claim'.lease = "none"
              /\ ~Held(claim')
          BY <3>5, <4>1, <1>d DEF ClaimAs, Held, TypeOK
        <4>3. projection' = status
          BY <4>1, <4>2 DEF Merged
        <4>4. ClaimInv'
          BY <3>1, <3>5, <4>2, <1>d DEF ClaimInv, CompletedIffTerminal
        <4>5. ProjectionInv'
          BY <3>1, <3>3, <3>5, <4>2, <4>3, <1>d DEF ProjectionInv, ProjectedSuccessIsReal
        <4> QED
          BY <4>4, <4>5
      <3>6. CASE status = "RUNNING"
        <4>1. claim' = ClaimAs(status, TRUE, claim.attempt, 0)
              /\ projection' = Merged(job, claim', status)
          BY <2>2, <3>6, <1>d DEF TickAdoptJob, status
        <4>2. /\ claim'.status = "RUNNING" /\ claim'.linked /\ claim'.lease = "live"
              /\ claim'.completed = 0
          BY <3>6, <4>1, <1>d DEF ClaimAs
        <4>3. ~Trusted(job, claim')
          <5>1. job.status \in TerminalJob => StatusOf[job.status] # "RUNNING"
            BY <1>d, StatusOfMaps DEF JobStatus
          <5> QED
            BY <4>2, <5>1 DEF Trusted, Finished
        <4>4. projection' = "RUNNING"
          BY <3>6, <4>1, <4>3 DEF Merged
        <4>5. ClaimInv'
          BY <3>1, <4>2, <1>d DEF ClaimInv, CompletedIffTerminal
        <4>6. ProjectionInv'
          BY <3>1, <3>3, <4>2, <4>4, <1>d DEF ProjectionInv, ProjectedSuccessIsReal
        <4> QED
          BY <4>5, <4>6
      <3> QED
        BY <3>4, <3>5, <3>6
    <2>3. CASE TickCloseClaim
      <3>1. PICK status \in {"MISSED", "BLOCKED", "REUSED", "DEGRADED"} :
               /\ claim' = ClaimAs(status, FALSE, claim.attempt, stamp + 1)
               /\ projection' = status /\ admission # "none"
        BY <2>3 DEF TickCloseClaim
      <3>2. claim.status \in ActiveClaim /\ UNCHANGED <<job, observed>> /\ admission' = "none"
        BY <2>3, <3>1 DEF TickCloseClaim, ClaimInv
      <3>3. status \in TerminalClaim /\ status # "SUCCESS" /\ observed # "SUCCESS"
        BY <3>2 DEF TerminalClaim, ProjectionInv, ActiveClaim
      <3>4. /\ claim'.status = status /\ claim'.completed # 0 /\ claim'.lease = "none"
            /\ ~claim'.linked
        BY <3>1, <3>3 DEF ClaimAs, TypeOK
      <3> QED
        BY <3>1, <3>2, <3>3, <3>4, <1>d DEF ClaimInv, CompletedIffTerminal, ProjectionInv,
                                          ProjectedSuccessIsReal
    <2>4. CASE TickObserve
      <3>1. /\ UNCHANGED <<job, claim, projection, admission>>
            /\ ~(Held(claim) /\ Finished(job)) /\ claim.status # "none"
        BY <2>4, <1>d DEF TickObserve
      <3>i. ClaimInv'
        BY <3>1 DEF ClaimInv, CompletedIffTerminal
      <3>2. CASE claim.status \in TerminalClaim /\ observed' = claim.status
        BY <3>i, <3>1, <3>2, <1>d DEF ProjectionInv, ProjectedSuccessIsReal
      <3>3. CASE claim.status \in ActiveClaim /\ claim.linked /\ observed' = StatusOf[job.status]
        <4>1. job.status \in JobStatus
          BY <3>3 DEF ClaimInv
        <4>2. job.status \notin TerminalJob \/ job.finished = 0
          BY <3>1, <3>3, <4>1 DEF Held, Finished
        <4>3. job.finished # 0 => observed' \notin TerminalClaim
          BY <3>3, <4>1, <4>2, StatusOfMaps
        <4>4. observed' # "SUCCESS"
          BY <3>3, <4>1, <4>2, StatusOfMaps DEF ClaimInv, TerminalJob
        <4> QED
          BY <3>i, <3>1, <3>3, <4>3, <4>4 DEF ProjectionInv, ProjectedSuccessIsReal
      <3>4. CASE claim.status \in ActiveClaim /\ ~claim.linked /\ observed' = "RUNNING"
        BY <3>i, <3>1, <3>4, <1>d DEF ProjectionInv, ProjectedSuccessIsReal
      <3> QED
        BY <2>4, <3>2, <3>3, <3>4 DEF TickObserve
    <2>5. CASE TickMerge
      <3>1. /\ UNCHANGED <<job, claim, admission>> /\ observed' = "none"
            /\ projection' = Merged(job, claim, observed) /\ claim.status # "none"
        BY <2>5 DEF TickMerge, ClaimInv
      <3>2. CASE Trusted(job, claim)
        <4>1. claim.status \in TerminalClaim /\ projection' = claim.status
          BY <3>1, <3>2, StatusOfMaps DEF Trusted, Merged, Finished, JobStatus
        <4> QED
          BY <3>1, <4>1, <1>d DEF ClaimInv, CompletedIffTerminal, ProjectionInv, ProjectedSuccessIsReal, Held
      <3>3. CASE ~Trusted(job, claim) /\ Held(claim) /\ job.status \in ActiveJob
        BY <3>1, <3>3, <1>d DEF ClaimInv, CompletedIffTerminal, ProjectionInv, ProjectedSuccessIsReal,
                                Merged, TerminalClaim
      <3>4. CASE ~Trusted(job, claim) /\ ~(Held(claim) /\ job.status \in ActiveJob)
        <4>1. projection' = observed
          BY <3>1, <3>4 DEF Merged
        <4> QED
          BY <3>1, <3>4, <4>1, <1>d DEF Held, ClaimInv, CompletedIffTerminal, ProjectionInv,
                                      ProjectedSuccessIsReal
      <3> QED
        BY <3>2, <3>3, <3>4
    <2>6. CASE TickReclaimClosed
      <3>1. PICK status \in TerminalClaim :
               /\ \/ job.status \in TerminalJob /\ status = StatusOf[job.status]
                  \/ job.status = "none" /\ status \in {"BLOCKED", "REUSED", "DEGRADED"}
               /\ claim' = ClaimAs(status, job.status # "none", claim.attempt + 1, stamp + 1)
               /\ projection' = status
        BY <2>6 DEF TickReclaimClosed
      <3>2. /\ UNCHANGED <<job, observed, admission>> /\ claim.status \in ActiveClaim
            /\ claim.lease = "expired"
        BY <2>6 DEF TickReclaimClosed, Reclaimable
      <3>3. /\ claim'.status = status /\ claim'.completed # 0 /\ claim'.lease = "none"
            /\ claim'.linked = (job.status # "none")
        <4>1. claim'.status = status /\ claim'.lease = "none" /\ claim'.linked = (job.status # "none")
          BY <3>1 DEF ClaimAs
        <4>2. claim'.completed = stamp + 1
          BY <3>1 DEF ClaimAs
        <4> QED
          BY <4>1, <4>2 DEF TypeOK
      <3>4. admission = "none" /\ observed # "SUCCESS"
        BY <3>2 DEF ClaimInv, ProjectionInv, ActiveClaim
      <3>5. job.status # "none" => job.status \in JobStatus
        BY DEF TypeOK, JobRow
      <3>6. ClaimInv'
        BY <3>2, <3>3, <3>4, <3>5, <1>d DEF ClaimInv, CompletedIffTerminal, JobStatus, ActiveJob,
                                            TerminalJob
      <3>7. ProjectionInv'
        BY <3>1, <3>2, <3>3, <3>4, <1>d DEF ProjectionInv, ProjectedSuccessIsReal
      <3> QED
        BY <3>6, <3>7
    <2>7. ASSUME NEW w \in Workers, TickCreateJob(w) PROVE ClaimInv' /\ ProjectionInv'
      <3>1. /\ job'.status = "queued" /\ job'.finished = 0 /\ observed' = observed
            /\ claim' = ClaimAs("RUNNING", TRUE, claim.attempt, 0) /\ projection' = "RUNNING"
            /\ admission = "absent" /\ admission' = "none"
        BY <2>7 DEF TickCreateJob, NoJob
      <3>s. claim.status # "SUCCESS"
        BY <3>1 DEF ClaimInv, ActiveClaim
      <3>2. /\ claim'.status \in ActiveClaim /\ claim'.linked /\ claim'.lease # "none"
            /\ claim'.completed = 0
        BY <3>1 DEF ClaimAs, ActiveClaim, TerminalClaim
      <3> QED
        BY <3>1, <3>s, <3>2, RenewRows DEF ActiveJob
    <2>8. ASSUME NEW w \in Workers, TickReclaim(w) PROVE ClaimInv' /\ ProjectionInv'
      <3>1. /\ claim' = ClaimAs("RUNNING", TRUE, claim.attempt + 1, 0)
            /\ projection' = "RUNNING" /\ UNCHANGED <<observed, admission>>
            /\ claim.status \in ActiveClaim /\ claim.lease = "expired"
        BY <2>8 DEF TickReclaim, Reclaimable
      <3>2. admission = "none" /\ claim.status # "SUCCESS"
        BY <3>1 DEF ClaimInv, ActiveClaim
      <3>3. /\ claim'.status \in ActiveClaim /\ claim'.linked /\ claim'.lease # "none"
            /\ claim'.completed = 0
        BY <3>1 DEF ClaimAs, ActiveClaim, TerminalClaim
      <3>4. /\ job'.status \in ActiveJob /\ job'.status # "running"
            /\ job'.finished # 0 => job'.finished = job.finished
        BY <2>8 DEF TickReclaim, ActiveJob, Startable, NoJob
      <3> QED
        BY <3>1, <3>2, <3>3, <3>4, RenewRows
    <2>9. CASE TickInsert
      <3>1. /\ UNCHANGED <<job, projection, observed>> /\ admission' = "inserted"
            /\ claim' = ClaimAs("CLAIMED", FALSE, 1, 0) /\ claim.status = "none"
        BY <2>9 DEF TickInsert
      <3>2. /\ claim'.status = "CLAIMED" /\ ~claim'.linked /\ claim'.lease = "live"
            /\ claim'.completed = 0
        BY <3>1 DEF ClaimAs, TerminalClaim
      <3>3. observed = "none" /\ projection = "none"
        BY <3>1 DEF ClaimInv
      <3>4. "CLAIMED" \in ActiveClaim /\ "CLAIMED" \notin TerminalClaim
        BY DEF ActiveClaim, TerminalClaim
      <3>5. ClaimInv'
        BY <3>1, <3>2, <3>4, <1>d DEF ClaimInv, CompletedIffTerminal
      <3>6. ProjectionInv'
        BY <3>1, <3>2, <3>3, <3>4, <1>d DEF ProjectionInv, ProjectedSuccessIsReal
      <3> QED
        BY <3>5, <3>6
    <2>10. CASE TickAdmit
      <3>1. /\ UNCHANGED <<job, claim, projection, observed>> /\ admission = "inserted"
            /\ admission' \in JobStatus => admission' = job.status
        BY <2>10 DEF TickAdmit, JobStatus, ActiveJob, TerminalJob
      <3> QED
        BY <3>1, <1>d DEF ClaimInv, CompletedIffTerminal, ProjectionInv, ProjectedSuccessIsReal
    <2>11. CASE TickAbandon
      BY <2>11, <1>same DEF TickAbandon
    <2> QED
      BY <1>1, <2>1, <2>2, <2>3, <2>4, <2>5, <2>6, <2>7, <2>8, <2>9, <2>10, <2>11
         DEF Tick, AdmissionStep
  <1>2. CASE LeaseExpires
    <2>1. /\ claim'.status = claim.status /\ claim'.linked = claim.linked
          /\ claim'.completed = claim.completed /\ claim.lease = "live" /\ claim'.lease = "expired"
      BY <1>2 DEF LeaseExpires, TypeOK, ClaimRow
    <2>2. UNCHANGED <<job, projection, observed, admission>> /\ admission = "none"
      BY <1>2 DEF LeaseExpires
    <2> QED
      BY <2>1, <2>2 DEF ClaimInv, CompletedIffTerminal, ProjectionInv, ProjectedSuccessIsReal, Held
  <1>3. ASSUME NEW w \in Workers, CreateUnclaimedJob(w) PROVE ClaimInv' /\ ProjectionInv'
    <2>1. /\ job.status = "none" /\ job'.status = "queued" /\ job'.finished = 0
          /\ UNCHANGED <<claim, projection, observed, admission>>
      BY <1>3 DEF CreateUnclaimedJob, NoJob
    <2>2. ~claim.linked /\ "queued" \in JobStatus
      BY <2>1 DEF ClaimInv, JobStatus, ActiveJob, TerminalJob
    <2> QED
      BY <2>1, <2>2 DEF ClaimInv, CompletedIffTerminal, ProjectionInv, ProjectedSuccessIsReal
  <1>4. ASSUME NEW w \in Workers, WorkerStep(w) PROVE ClaimInv' /\ ProjectionInv'
    <2>1. UNCHANGED <<observed, admission>>
      BY <1>4, WorkerStepRows
    <2>2. CASE UNCHANGED <<job, claim, projection>>
      BY <2>1, <2>2, <1>same
    <2>3. CASE /\ job.status \in Startable
               /\ job' = [job EXCEPT !.status = "running", !.started = stamp + 1]
               /\ UNCHANGED <<claim, projection>>
      <3>1. /\ job'.status = "running" /\ job'.started # 0 /\ job'.finished = job.finished
            /\ job.status \in ActiveJob /\ job'.status \in JobStatus
        BY <2>3 DEF TypeOK, JobRow, Startable, ActiveJob, JobStatus
      <3> QED
        BY <2>1, <2>3, <3>1
           DEF ClaimInv, CompletedIffTerminal, ProjectionInv, ProjectedSuccessIsReal, Held
    <2>4. CASE \E j \in JobRow : /\ FinishCheckpoint(j)
                                 /\ j.status \in TerminalJob
                                 /\ j.status = "succeeded" => j.finished # 0
                                 /\ j = job \/ j.finished # 0
      BY <2>1, <2>4, FinishRows
    <2> QED
      BY <1>4, <2>2, <2>3, <2>4, WorkerStepRows
  <1>5. ASSUME NEW w \in Workers, Beat(w) PROVE ClaimInv' /\ ProjectionInv'
    <2>1. CASE UNCHANGED claim
      BY <1>5, <2>1, <1>same DEF Beat
    <2>2. CASE Held(claim) /\ claim' = [claim EXCEPT !.status = "RUNNING"]
      <3>1. /\ claim'.status = "RUNNING" /\ claim'.linked = claim.linked
            /\ claim'.completed = claim.completed /\ claim'.lease = claim.lease
        BY <2>2 DEF TypeOK, ClaimRow
      <3>2. UNCHANGED <<job, projection, observed, admission>>
        BY <1>5 DEF Beat
      <3> QED
        BY <2>2, <3>1, <3>2, <1>d
           DEF ClaimInv, CompletedIffTerminal, ProjectionInv, ProjectedSuccessIsReal, Held, ActiveClaim
    <2> QED
      BY <1>5, <2>1, <2>2 DEF Beat
  <1>6. ASSUME NEW c \in Clients, ClientStep(c) PROVE ClaimInv' /\ ProjectionInv'
    <2>1. CASE CancelRead(c) \/ RetryRead(c) \/ CancelSignal(c)
      BY <2>1, <1>same DEF CancelRead, RetryRead, CancelSignal
    <2>2. CASE CancelWrite(c)
      <3>1. job'.status = "cancelled" /\ job'.finished = job.finished
        BY <2>2 DEF CancelWrite, TypeOK, JobRow
      <3>2. UNCHANGED <<claim, projection, observed, admission>>
        BY <2>2 DEF CancelWrite
      <3>3. job'.status \in JobStatus /\ job'.status \notin ActiveJob
        BY <3>1 DEF JobStatus, TerminalJob, ActiveJob
      <3> QED
        BY <3>1, <3>2, <3>3
           DEF ClaimInv, CompletedIffTerminal, ProjectionInv, ProjectedSuccessIsReal, Held
    <2>3. ASSUME NEW w \in Workers, RetryWrite(c, w) PROVE ClaimInv' /\ ProjectionInv'
      <3>1. /\ job'.status = "retrying" /\ job'.finished \in {0, job.finished}
            /\ UNCHANGED <<observed, admission>>
        BY <2>3 DEF RetryWrite
      <3>2. job'.status \in ActiveJob /\ job'.status \in JobStatus
        BY <3>1 DEF ActiveJob, JobStatus
      <3>3. CASE /\ claim.linked /\ claim.status \in RetryableClaim /\ job'.finished = 0
                 /\ claim' = ClaimAs("CLAIMED", TRUE, claim.attempt + 1, 0)
                 /\ projection' = "RUNNING"
        <4>1. /\ claim'.status \in ActiveClaim /\ claim'.linked /\ claim'.lease # "none"
              /\ claim'.completed = 0
          BY <3>3, <1>d DEF ClaimAs, ActiveClaim, TerminalClaim
        <4>2. claim.status # "SUCCESS" /\ admission = "none"
          BY <3>3 DEF RetryableClaim, ClaimInv
        <4> QED
          BY <3>1, <3>2, <3>3, <4>1, <4>2, RenewRows
      <3>4. CASE /\ ~(claim.linked /\ claim.status \in RetryableClaim /\ job'.finished = 0)
                 /\ UNCHANGED <<claim, projection>>
        <4>1. Held(claim) => job'.finished # 0 /\ job.finished # 0
          BY <3>1, <3>4 DEF Held, ActiveClaim, RetryableClaim
        <4> QED
          BY <3>1, <3>2, <3>4, <4>1
             DEF ClaimInv, CompletedIffTerminal, ProjectionInv, ProjectedSuccessIsReal, Held
      <3> QED
        BY <2>3, <3>3, <3>4 DEF RetryWrite
    <2> QED
      BY <1>6, <2>1, <2>2, <2>3 DEF ClientStep
  <1>7. CASE Crash
    BY <1>7, <1>same DEF Crash
  <1>8. CASE UNCHANGED vars
    BY <1>8, <1>same DEF vars
  <1> QED
    BY <1>1, <1>2, <1>3, <1>4, <1>5, <1>6, <1>7, <1>8 DEF Next

-----------------------------------------------------------------------------
(* The inductive invariant and what follows from it                        *)

\* The inductive invariant is inductive.
LEMMA InvStep == IInv /\ [Next]_vars => IInv'
  <1> SUFFICES ASSUME IInv, [Next]_vars PROVE IInv'
    OBVIOUS
  <1>1. TypeOK'
    BY TypeStep DEF IInv
  <1>2. OwnershipInv'
    BY <1>1, OwnershipStep DEF IInv
  <1>3. ClaimInv' /\ ProjectionInv'
    BY <1>1, RowsStep DEF IInv
  <1> QED
    BY <1>1, <1>2, <1>3 DEF IInv

\* The inductive invariant holds in every reachable state.
THEOREM Invariance == Spec => []IInv
  BY InitInv, InvStep, PTL DEF Spec

\* Rows, threads and requests stay well typed.
THEOREM TypeCorrect == Spec => []TypeOK
  <1>1. IInv => TypeOK
    BY DEF IInv
  <1> QED
    BY <1>1, Invariance, PTL

\* At most one thread passes the fence of analysis_lease.lock.
THEOREM OneOwner == Spec => []SingleOwner
  <1>1. IInv => SingleOwner
    BY DEF IInv, OwnershipInv, SingleOwner, Owns, Fence
  <1> QED
    BY <1>1, Invariance, PTL

\* completed_at and the end of the lease come with a terminal status.
THEOREM ClaimTimestamps == Spec => []CompletedIffTerminal
  <1>1. IInv => CompletedIffTerminal
    BY DEF IInv, ClaimInv
  <1> QED
    BY <1>1, Invariance, PTL

\* No stale observation hides the active claim of a job that can still run.
THEOREM ActiveClaimVisible == Spec => []ActiveClaimStaysVisible
  <1>1. IInv => ActiveClaimStaysVisible
    BY DEF IInv, ProjectionInv, ActiveClaimStaysVisible, Held
  <1> QED
    BY <1>1, Invariance, PTL

\* The projection never announces a success the claim does not have.
THEOREM ProjectedSuccess == Spec => []ProjectedSuccessIsReal
  <1>1. IInv => ProjectedSuccessIsReal
    BY DEF IInv, ProjectionInv
  <1> QED
    BY <1>1, Invariance, PTL

-----------------------------------------------------------------------------
(* Action properties                                                       *)

\* Only the transaction of a retry changes a terminal claim, and it leaves a
\* successful one alone.
LEMMA TerminalClaimStep ==
    ASSUME IInv, Next, claim.status \in TerminalClaim, claim' # claim
    PROVE  \E c \in Clients : Retries(c) /\ claim.status \in RetryableClaim
  <1>1. /\ claim.lease = "none" /\ claim.status # "none" /\ claim.status \notin ActiveClaim
        /\ ~Held(claim)
    BY DEF IInv, ClaimInv, CompletedIffTerminal, TerminalClaim, ActiveClaim, Held
  <1>2. \A j : Reconciled(j, claim) = claim
    BY <1>1 DEF Reconciled
  <1>a. admission = "none"
    BY <1>1 DEF IInv, ClaimInv
  <1>3. ~Tick
    <2>1. ~TickReconcile /\ ~TickInsert /\ ~TickObserve /\ ~TickMerge
      BY <1>1, <1>2 DEF TickReconcile, TickInsert, TickObserve, TickMerge
    <2>2. ~AdmissionStep
      BY <1>1, <1>a
         DEF JobStatus, ActiveJob, TerminalJob, AdmissionStep, TickAdmit, TickAdoptJob,
             TickCloseClaim, TickAbandon, TickCreateJob
    <2>3. ~TickReclaimClosed /\ \A w \in Workers : ~TickReclaim(w)
      BY <1>1 DEF TickReclaimClosed, TickReclaim, Reclaimable
    <2> QED
      BY <2>1, <2>2, <2>3 DEF Tick
  <1>4. ~LeaseExpires /\ ~Crash
    BY <1>1 DEF LeaseExpires, Crash
  <1>5. \A w \in Workers : ~CreateUnclaimedJob(w) /\ ~Beat(w)
    BY <1>1 DEF CreateUnclaimedJob, Beat
  <1>6. \A w \in Workers : ~WorkerStep(w)
    BY <1>2 DEF WorkerStep, ReadJob, Capture, FinalizeCancelled, Start, Register, LoseOwnership,
                Abort, Succeed, Fail, Exit, FinishCheckpoint
  <1>7. PICK c \in Clients, w \in Workers : RetryWrite(c, w)
    BY <1>3, <1>4, <1>5, <1>6
       DEF Next, ClientStep, CancelRead, CancelWrite, CancelSignal, RetryRead
  <1>8. Retries(c)
    BY <1>7 DEF RetryWrite, Retries, NoRequest, IInv, TypeOK
  <1>9. claim.status \in RetryableClaim
    BY <1>7 DEF RetryWrite
  <1> QED
    BY <1>8, <1>9

\* A terminal checkpoint keeps its verdict until the user retries the job.
THEOREM VerdictStable == Spec => VerdictKept
  <1>1. IInv /\ [Next]_vars =>
           [claim.status \in TerminalClaim /\ claim' # claim => \E c \in Clients : Retries(c)]_vars
    BY TerminalClaimStep
  <1> QED
    BY <1>1, Invariance, PTL DEF Spec, VerdictKept

\* A successful checkpoint is never touched again.
THEOREM SuccessStable == Spec => SuccessKept
  <1>1. IInv /\ [Next]_vars => [claim.status = "SUCCESS" => claim' = claim]_vars
    BY TerminalClaimStep DEF TerminalClaim, RetryableClaim
  <1> QED
    BY <1>1, Invariance, PTL DEF Spec, SuccessKept

-----------------------------------------------------------------------------
(* Jobs that only the checkpoint tick creates                              *)

\* A request in flight has seen a job, which is never deleted.
Requested == \A c \in Clients : request[c].pc \in {"cancelling", "retrying"} => job.status # "none"

\* A job that only the tick creates is linked in the transaction that creates
\* it, and its claim is given up when it is finished.
HeldUnfinished ==
    /\ Requested
    /\ job.status # "none" => claim.linked
    /\ Held(claim) => job.finished = 0

\* Jobs are never deleted, so Requested is kept.
LEMMA RequestedStep ==
    TypeOK /\ TypeOK' /\ OwnershipInv /\ ClaimInv /\ Requested /\ [Next]_vars => Requested'
  <1> SUFFICES ASSUME TypeOK, TypeOK', OwnershipInv, ClaimInv, Requested, [Next]_vars
               PROVE  Requested'
    OBVIOUS
  <1>1. CASE Tick
    <2>1. CASE UNCHANGED <<job, request>>
      BY <2>1 DEF Requested
    <2>2. ASSUME NEW w \in Workers, TickCreateJob(w) \/ TickReclaim(w) PROVE Requested'
      <3>1. job'.status \in ActiveJob
        <4>1. CASE TickCreateJob(w)
          BY <4>1 DEF TickCreateJob, NoJob, ActiveJob
        <4>2. CASE TickReclaim(w)
          BY <4>2 DEF TickReclaim, NoJob, Startable, ActiveJob
        <4> QED
          BY <2>2, <4>1, <4>2
      <3> QED
        BY <3>1 DEF ActiveJob, Requested
    <2> QED
      BY <1>1, <2>1, <2>2 DEF Tick, AdmissionStep, TickReconcile, TickInsert, TickAdmit,
                              TickAdoptJob, TickCloseClaim, TickAbandon, TickObserve, TickMerge,
                              TickReclaimClosed
  <1>2. CASE LeaseExpires \/ UNCHANGED vars
    BY <1>2 DEF LeaseExpires, vars, Requested
  <1>3. ASSUME NEW w \in Workers, CreateUnclaimedJob(w) \/ Beat(w) PROVE Requested'
    BY <1>3 DEF CreateUnclaimedJob, NoJob, Beat, Requested
  <1>4. ASSUME NEW w \in Workers, WorkerStep(w) PROVE Requested'
    <2>1. UNCHANGED request
      BY <1>4 DEF WorkerStep, ReadJob, Capture, FinalizeCancelled, Start, Register, LoseOwnership,
                  Abort, Succeed, Fail, Exit
    <2>2. job' = job \/ job'.status # "none"
      BY <1>4, WorkerStepRows DEF TypeOK, JobRow, FinishCheckpoint, TerminalJob
    <2> QED
      BY <2>1, <2>2 DEF Requested
  <1>5. ASSUME NEW c \in Clients, ClientStep(c) PROVE Requested'
    <2>1. CASE CancelRead(c) \/ RetryRead(c)
      BY <2>1 DEF CancelRead, RetryRead, Requested, ActiveJob, TypeOK
    <2>2. CASE CancelWrite(c)
      <3>1. job'.status = "cancelled"
        BY <2>2 DEF CancelWrite, TypeOK, JobRow
      <3> QED
        BY <3>1 DEF Requested
    <2>3. CASE CancelSignal(c)
      BY <2>3 DEF CancelSignal, NoRequest, Requested, TypeOK
    <2>4. ASSUME NEW w \in Workers, RetryWrite(c, w) PROVE Requested'
      BY <2>4 DEF RetryWrite, Requested
    <2> QED
      BY <1>5, <2>1, <2>2, <2>3, <2>4 DEF ClientStep
  <1>6. CASE Crash
    BY <1>6 DEF Crash, NoRequest, Requested, TypeOK
  <1> QED
    BY <1>1, <1>2, <1>3, <1>4, <1>5, <1>6 DEF Next

\* HeldUnfinished is kept as long as nobody else creates a job.
LEMMA HeldUnfinishedStep ==
    ASSUME ~UnclaimedJobs, IInv, IInv', HeldUnfinished, [Next]_vars
    PROVE  HeldUnfinished'
  <1>d. /\ TerminalClaim \cap ActiveClaim = {} /\ "none" \notin TerminalClaim \cup ActiveClaim
        /\ "RUNNING" \in ActiveClaim
    BY DEF TerminalClaim, ActiveClaim
  <1>t. TypeOK /\ TypeOK' /\ OwnershipInv /\ ClaimInv /\ ProjectionInv
    BY DEF IInv
  <1>r. Requested'
    BY <1>t, RequestedStep DEF HeldUnfinished
  <1>finish. ASSUME NEW j \in JobRow, FinishCheckpoint(j), j.status \in TerminalJob,
                    j = job \/ j.finished # 0, job.status # "none"
             PROVE  HeldUnfinished'
    <2>1. job' = j /\ claim' = Reconciled(j, claim)
      BY <1>finish DEF FinishCheckpoint
    <2>2. CASE Held(claim) /\ Finished(j)
      BY <1>r, <2>1, <2>2, <1>d, <1>t, ReconciledRow DEF HeldUnfinished, Held, TypeOK
    <2>3. CASE ~(Held(claim) /\ Finished(j))
      <3>1. claim' = claim
        BY <2>1, <2>3 DEF Reconciled
      <3> QED
        BY <1>r, <2>1, <2>3, <3>1, <1>finish DEF HeldUnfinished, Finished
    <2> QED
      BY <2>2, <2>3
  <1>same. ASSUME UNCHANGED <<job, claim>> PROVE HeldUnfinished'
    BY <1>r, <1>same DEF HeldUnfinished, Held
  <1>1. CASE Tick
    <2>1. CASE TickReconcile
      <3>1. CASE Held(claim) /\ Finished(job)
        <4>1. FinishCheckpoint(job)
          BY <2>1 DEF TickReconcile, FinishCheckpoint
        <4> QED
          BY <3>1, <4>1, <1>finish, <1>t DEF Finished, TypeOK, TerminalJob
      <3>2. CASE ~(Held(claim) /\ Finished(job))
        BY <2>1, <3>2, <1>same DEF TickReconcile, Reconciled
      <3> QED
        BY <3>1, <3>2
    <2>a. admission # "none" => job.status = "none"
      BY <1>t DEF ClaimInv, HeldUnfinished
    <2>2. CASE TickAdoptJob
      BY <2>2, <2>a, <1>t, <1>d DEF TickAdoptJob, ClaimInv, JobStatus, ActiveJob, TerminalJob
    <2>3. CASE TickCloseClaim
      <3>1. job' = job /\ job.status = "none" /\ ~claim'.linked
        BY <2>3, <2>a DEF TickCloseClaim, ClaimAs
      <3> QED
        BY <1>r, <3>1 DEF HeldUnfinished, Held
    <2>4. CASE TickObserve \/ TickMerge
      BY <2>4, <1>same DEF TickObserve, TickMerge
    <2>5. CASE TickReclaimClosed
      <3>1. PICK status \in TerminalClaim :
               claim' = ClaimAs(status, job.status # "none", claim.attempt + 1, stamp + 1)
        BY <2>5 DEF TickReclaimClosed
      <3>2. job' = job /\ ~Held(claim') /\ (claim'.linked <=> job.status # "none")
        BY <2>5, <3>1, <1>d DEF TickReclaimClosed, ClaimAs, Held
      <3> QED
        BY <1>r, <3>2 DEF HeldUnfinished
    <2>6. ASSUME NEW w \in Workers, TickCreateJob(w) PROVE HeldUnfinished'
      BY <1>r, <2>6, <1>d DEF TickCreateJob, NoJob, HeldUnfinished, ClaimAs, Held
    <2>7. ASSUME NEW w \in Workers, TickReclaim(w) PROVE HeldUnfinished'
      <3>1. claim'.linked
        BY <2>7 DEF TickReclaim, ClaimAs
      <3>2. job'.finished = 0
        <4>1. CASE job.status \in Startable /\ job' = job
          BY <2>7, <4>1 DEF TickReclaim, Reclaimable, Startable, HeldUnfinished, Held
        <4>2. CASE job'.finished = 0
          BY <4>2
        <4> QED
          BY <2>7, <4>1, <4>2 DEF TickReclaim, NoJob
      <3> QED
        BY <1>r, <3>1, <3>2 DEF HeldUnfinished
    <2>8. CASE TickInsert
      <3>1. job.status = "none" /\ job' = job /\ ~claim'.linked
        BY <2>8, <1>t DEF TickInsert, ClaimInv, HeldUnfinished, ClaimAs
      <3> QED
        BY <1>r, <3>1 DEF HeldUnfinished, Held
    <2>9. CASE TickAdmit \/ TickAbandon
      BY <2>9, <1>same DEF TickAdmit, TickAbandon
    <2> QED
      BY <1>1, <2>1, <2>2, <2>3, <2>4, <2>5, <2>6, <2>7, <2>8, <2>9 DEF Tick, AdmissionStep
  <1>2. CASE LeaseExpires
    BY <1>r, <1>2, <1>t DEF LeaseExpires, HeldUnfinished, Held, TypeOK, ClaimRow
  <1>3. \A w \in Workers : ~CreateUnclaimedJob(w)
    BY DEF CreateUnclaimedJob
  <1>4. ASSUME NEW w \in Workers, WorkerStep(w) PROVE HeldUnfinished'
    <2>1. CASE UNCHANGED <<job, claim, projection>>
      BY <2>1, <1>same
    <2>2. CASE /\ job.status \in Startable
               /\ job' = [job EXCEPT !.status = "running", !.started = stamp + 1]
               /\ UNCHANGED <<claim, projection>>
      BY <1>r, <2>2, <1>t DEF HeldUnfinished, Held, TypeOK, JobRow, Startable
    <2>3. CASE \E j \in JobRow : /\ FinishCheckpoint(j) /\ job.status # "none"
                                 /\ j.status \in TerminalJob
                                 /\ j = job \/ j.finished # 0
      BY <2>3, <1>finish
    <2> QED
      BY <1>4, <1>t, <2>1, <2>2, <2>3, WorkerStepRows
  <1>5. ASSUME NEW w \in Workers, Beat(w) PROVE HeldUnfinished'
    <2>1. CASE UNCHANGED claim
      BY <1>5, <2>1, <1>same DEF Beat
    <2>2. CASE Held(claim) /\ claim' = [claim EXCEPT !.status = "RUNNING"] /\ UNCHANGED job
      <3>1. claim'.status = "RUNNING"
        BY <2>2, <1>t DEF TypeOK, ClaimRow
      <3> QED
        BY <1>r, <2>2, <3>1, <1>d DEF HeldUnfinished
    <2> QED
      BY <1>5, <2>1, <2>2 DEF Beat
  <1>6. ASSUME NEW c \in Clients, ClientStep(c) PROVE HeldUnfinished'
    <2>1. CASE CancelRead(c) \/ RetryRead(c) \/ CancelSignal(c)
      BY <2>1, <1>same DEF CancelRead, RetryRead, CancelSignal
    <2>2. CASE CancelWrite(c)
      <3>1. job'.finished = job.finished /\ UNCHANGED claim
        BY <2>2, <1>t DEF CancelWrite, TypeOK, JobRow
      <3>2. claim.linked
        BY <2>2 DEF CancelWrite, HeldUnfinished, Requested
      <3> QED
        BY <1>r, <3>1, <3>2 DEF HeldUnfinished, Held
    <2>3. ASSUME NEW w \in Workers, RetryWrite(c, w) PROVE HeldUnfinished'
      <3>1. claim.linked /\ job'.finished \in {0, job.finished}
        BY <2>3 DEF RetryWrite, HeldUnfinished, Requested
      <3>2. CASE job'.finished = 0 /\ claim' = ClaimAs("CLAIMED", TRUE, claim.attempt + 1, 0)
        BY <1>r, <3>2 DEF ClaimAs, HeldUnfinished
      <3>3. CASE /\ ~(claim.linked /\ claim.status \in RetryableClaim /\ job'.finished = 0)
                 /\ UNCHANGED <<claim, projection>>
        BY <1>r, <3>1, <3>3 DEF HeldUnfinished, Held, ActiveClaim, RetryableClaim
      <3> QED
        BY <2>3, <3>2, <3>3 DEF RetryWrite
    <2> QED
      BY <1>6, <2>1, <2>2, <2>3 DEF ClientStep
  <1>7. CASE Crash
    BY <1>7, <1>same DEF Crash
  <1>8. CASE UNCHANGED vars
    BY <1>8, <1>same DEF vars
  <1> QED
    BY <1>1, <1>2, <1>3, <1>4, <1>5, <1>6, <1>7, <1>8 DEF Next

\* A finished job holds no active claim, if only the tick creates jobs.
THEOREM FinishedReleases ==
    ASSUME ~UnclaimedJobs
    PROVE  Spec => []FinishedJobHoldsNoClaim
  <1>1. Init => HeldUnfinished
    BY DEF Init, HeldUnfinished, Requested, NoJob, NoClaim, NoRequest, Held
  <1>2. IInv /\ IInv' /\ HeldUnfinished /\ [Next]_vars => HeldUnfinished'
    BY HeldUnfinishedStep
  <1>3. HeldUnfinished => FinishedJobHoldsNoClaim
    BY DEF HeldUnfinished, FinishedJobHoldsNoClaim, Finished
  <1> QED
    BY <1>1, <1>2, <1>3, Invariance, PTL DEF Spec

\* Without cancel and retry requests a job that can still run holds its claim,
\* whoever crashes.
LEMMA ActiveHeldStep ==
    ASSUME ~UnclaimedJobs, Clients = {}, IInv, HeldUnfinished,
           job.status \in ActiveJob => Held(claim), [Next]_vars
    PROVE  job'.status \in ActiveJob => Held(claim')
  <1>d. TerminalJob \cap ActiveJob = {} /\ "none" \notin ActiveJob /\ "RUNNING" \in ActiveClaim
    BY DEF TerminalJob, ActiveJob, ActiveClaim
  <1>t. TypeOK /\ OwnershipInv /\ ClaimInv
    BY DEF IInv
  <1>1. CASE Tick
    <2>1. CASE TickReconcile
      <3>1. CASE claim' = claim
        BY <2>1, <3>1 DEF TickReconcile
      <3>2. CASE claim' # claim
        BY <2>1, <3>2, <1>d, <1>t, ReconciledRow DEF TickReconcile, Finished, TypeOK
      <3> QED
        BY <3>1, <3>2
    <2>a. admission # "none" \/ claim.status = "none" => job.status = "none"
      BY <1>t DEF ClaimInv, HeldUnfinished
    <2>2. CASE TickInsert \/ TickAdoptJob \/ TickCloseClaim
      BY <2>2, <2>a, <1>d, <1>t
         DEF TickInsert, TickAdoptJob, TickCloseClaim, JobStatus, ActiveJob, TerminalJob
    <2>3. CASE TickAdmit \/ TickAbandon \/ TickObserve \/ TickMerge
      BY <2>3 DEF TickAdmit, TickAbandon, TickObserve, TickMerge
    <2>4. CASE TickReclaimClosed
      BY <2>4, <1>d DEF TickReclaimClosed
    <2>5. ASSUME NEW w \in Workers, TickCreateJob(w) PROVE Held(claim')
      BY <2>5, <1>d DEF TickCreateJob, ClaimAs, Held
    <2>6. ASSUME NEW w \in Workers, TickReclaim(w) PROVE Held(claim')
      BY <2>6, <1>d DEF TickReclaim, ClaimAs, Held
    <2> QED
      BY <1>1, <2>1, <2>2, <2>3, <2>4, <2>5, <2>6 DEF Tick, AdmissionStep
  <1>2. CASE LeaseExpires
    BY <1>2, <1>t DEF LeaseExpires, Held, TypeOK, ClaimRow
  <1>3. \A w \in Workers : ~CreateUnclaimedJob(w)
    BY DEF CreateUnclaimedJob
  <1>4. ASSUME NEW w \in Workers, WorkerStep(w) PROVE job'.status \in ActiveJob => Held(claim')
    <2>1. CASE UNCHANGED <<job, claim, projection>>
      BY <2>1
    <2>2. CASE job.status \in Startable /\ UNCHANGED <<claim, projection>>
      BY <2>2 DEF Startable, ActiveJob
    <2>3. CASE \E j \in JobRow : FinishCheckpoint(j) /\ j.status \in TerminalJob
      BY <2>3, <1>d DEF FinishCheckpoint
    <2> QED
      BY <1>4, <1>t, <2>1, <2>2, <2>3, WorkerStepRows
  <1>5. ASSUME NEW w \in Workers, Beat(w) PROVE job'.status \in ActiveJob => Held(claim')
    BY <1>5, <1>d, <1>t DEF Beat, Held, TypeOK, ClaimRow
  <1>6. CASE Crash \/ UNCHANGED vars
    BY <1>6 DEF Crash, vars
  <1> QED
    BY <1>1, <1>2, <1>3, <1>4, <1>5, <1>6 DEF Next

\* No number of crashes leaves a job that can still run without a claim
\* through which the next tick finds it.
THEOREM CrashRecovery ==
    ASSUME ~UnclaimedJobs, Clients = {}
    PROVE  Spec => []Recoverable
  <1> DEFINE ActiveHeld == job.status \in ActiveJob => Held(claim)
  <1>1. Init => HeldUnfinished /\ ActiveHeld
    BY DEF Init, HeldUnfinished, Requested, NoJob, NoClaim, NoRequest, Held, ActiveJob
  <1>2. IInv /\ IInv' /\ HeldUnfinished /\ ActiveHeld /\ [Next]_vars => HeldUnfinished' /\ ActiveHeld'
    BY HeldUnfinishedStep, ActiveHeldStep
  <1>3. IInv /\ ActiveHeld => Recoverable
    BY DEF IInv, ProjectionInv, Recoverable, Held
  <1> QED
    BY <1>1, <1>2, <1>3, Invariance, PTL DEF Spec

-----------------------------------------------------------------------------
(* A lease runs out only when nobody is there to renew it, and then nobody   *)
(* who owns the job has a heartbeat that is not stopped or lost.             *)

Starting == {"spawned", "capturing", "starting", "finalizing", "closing", "started"}
Registered == {"working", "failing", "exiting"}

\* The heartbeat of a thread renews the claim generation that the thread captured, or
\* else the one of the claim that the running job has.
Bound(w) ==
    IF worker[w].attempt # 0 THEN worker[w].heartbeat = worker[w].attempt
    ELSE job.status = "running" /\ worker[w].started = job.started /\ Held(claim)
            => worker[w].heartbeat = claim.attempt

RenewInv ==
    /\ claim.lease = "expired" => \A w \in Workers : ~Renewer(w)
    /\ claim.status # "none" => claim.attempt # 0
    /\ \A w \in Workers : worker[w].pc \in Registered => Bound(w)

\* The claim of a running job is renewed as it is or given up: what takes it as its next
\* generation moves the job out of running.
ClaimKept ==
    /\ claim'.lease = "expired" => claim'.attempt = claim.attempt
    /\ claim'.lease = "expired" =>
          claim.lease = "expired" \/ (UNCHANGED worker /\ \A w \in Workers : ~Renewer(w))
    /\ job'.status = "running" /\ Held(claim') => Held(claim) /\ claim'.attempt = claim.attempt
    /\ claim'.status # "none" =>
          \/ claim'.attempt = 1 \/ claim'.attempt = claim.attempt + 1
          \/ claim.status # "none" /\ claim'.attempt = claim.attempt
    /\ job'.status = "running" =>
          \/ job.status = "running" /\ job'.started = job.started
          \/ \E w \in Workers : Start(w) /\ job'.started = stamp + 1

\* A transaction that leaves the claim alone, or closes it, does so.
LEMMA ClaimKeptOrClosed ==
    ASSUME \/ claim' = claim
           \/ /\ claim'.status \notin ActiveClaim /\ claim'.lease = "none"
              /\ claim.status # "none" /\ claim'.attempt = claim.attempt,
           job'.status = "running" => job.status = "running" /\ job'.started = job.started
    PROVE  ClaimKept
  BY DEF ClaimKept, Held

\* A transaction that takes the claim does so while the job does not run.
LEMMA ClaimKeptOrTaken ==
    ASSUME claim'.lease # "expired", job'.status # "running",
           \/ claim'.attempt = 1 \/ claim'.attempt = claim.attempt + 1
           \/ claim.status # "none" /\ claim'.attempt = claim.attempt
    PROVE  ClaimKept
  BY DEF ClaimKept, Held

\* Every step of a system in which only the tick creates jobs.
LEMMA ClaimKeptStep ==
    ASSUME ~UnclaimedJobs, IInv, HeldUnfinished, [TimelyNext]_vars
    PROVE  ClaimKept
  <1>t. TypeOK /\ OwnershipInv /\ ClaimInv
    BY DEF IInv
  <1>d. /\ TerminalClaim \cap ActiveClaim = {} /\ "none" \notin TerminalClaim \cup ActiveClaim
        /\ "RUNNING" \notin TerminalClaim /\ "CLAIMED" \notin TerminalClaim
        /\ "running" \notin TerminalJob
    BY DEF TerminalClaim, ActiveClaim, TerminalJob
  <1>finish. ASSUME NEW j \in JobRow, FinishCheckpoint(j), j.status # "running"
             PROVE  ClaimKept
    <2>1. job'.status # "running" /\ claim' = Reconciled(j, claim)
      BY <1>finish DEF FinishCheckpoint
    <2>2. \/ claim' = claim
          \/ /\ claim'.status \notin ActiveClaim /\ claim'.lease = "none"
             /\ claim.status # "none" /\ claim'.attempt = claim.attempt
      <3>1. CASE Held(claim) /\ Finished(j)
        <4>1. claim'.attempt = claim.attempt
          BY <2>1, <3>1, <1>t DEF Reconciled, TypeOK, ClaimRow
        <4> QED
          BY <2>1, <3>1, <4>1, <1>d, <1>t, ReconciledRow DEF Held, TypeOK
      <3>2. CASE ~(Held(claim) /\ Finished(j))
        BY <2>1, <3>2 DEF Reconciled
      <3> QED
        BY <3>1, <3>2
    <2> QED
      BY <2>1, <2>2, ClaimKeptOrClosed
  <1>1. CASE Tick
    <2>a. admission # "none" => job.status = "none" /\ claim.status # "none"
      BY <1>t, <1>d DEF ClaimInv, HeldUnfinished
    <2>1. CASE TickReconcile
      <3>1. CASE Held(claim) /\ Finished(job)
        <4>1. FinishCheckpoint(job) /\ job.status # "running"
          BY <2>1, <3>1, <1>d DEF TickReconcile, FinishCheckpoint, Finished
        <4> QED
          BY <4>1, <1>finish, <1>t DEF TypeOK
      <3>2. CASE ~(Held(claim) /\ Finished(job))
        BY <2>1, <3>2, ClaimKeptOrClosed DEF TickReconcile, Reconciled
      <3> QED
        BY <3>1, <3>2
    <2>2. CASE TickInsert
      <3>1. job.status # "running"
        BY <2>2, <1>t DEF TickInsert, ClaimInv, HeldUnfinished
      <3>2. claim'.lease # "expired" /\ claim'.attempt = 1 /\ job' = job
        BY <2>2 DEF TickInsert, ClaimAs
      <3> QED
        BY <3>1, <3>2, ClaimKeptOrTaken
    <2>3. CASE TickAdmit \/ TickAbandon \/ TickObserve \/ TickMerge
      BY <2>3, ClaimKeptOrClosed DEF TickAdmit, TickAbandon, TickObserve, TickMerge
    <2>4. CASE TickAdoptJob
      BY <2>4, <2>a, <1>t DEF TickAdoptJob, JobStatus, ActiveJob, TerminalJob, ClaimInv, HeldUnfinished
    <2>5. CASE TickCloseClaim
      <3>1. PICK s : claim' = ClaimAs(s, FALSE, claim.attempt, stamp + 1)
        BY <2>5 DEF TickCloseClaim
      <3>2. admission # "none" /\ job' = job
        BY <2>5 DEF TickCloseClaim
      <3>3. claim'.lease # "expired" /\ claim'.attempt = claim.attempt
        BY <3>1 DEF ClaimAs
      <3>4. claim.status # "none" /\ job'.status # "running"
        BY <2>a, <2>5, <3>2 DEF TickCloseClaim
      <3> QED
        BY <3>3, <3>4, ClaimKeptOrTaken
    <2>6. CASE TickReclaimClosed
      <3>1. PICK s : claim' = ClaimAs(s, job.status # "none", claim.attempt + 1, stamp + 1)
        BY <2>6 DEF TickReclaimClosed
      <3>2. job' = job /\ job.status # "running"
        BY <2>6, <1>d DEF TickReclaimClosed
      <3>3. claim'.lease # "expired" /\ claim'.attempt = claim.attempt + 1
        BY <3>1 DEF ClaimAs
      <3> QED
        BY <3>2, <3>3, ClaimKeptOrTaken
    <2>7. ASSUME NEW w \in Workers, TickCreateJob(w) PROVE ClaimKept
      <3>1. job'.status # "running" /\ admission # "none"
        BY <2>7 DEF TickCreateJob, NoJob
      <3>2. claim'.lease # "expired" /\ claim'.attempt = claim.attempt
        BY <2>7 DEF TickCreateJob, ClaimAs
      <3> QED
        BY <2>a, <3>1, <3>2, ClaimKeptOrTaken
    <2>8. ASSUME NEW w \in Workers, TickReclaim(w) PROVE ClaimKept
      <3>1. job'.status # "running"
        BY <2>8 DEF TickReclaim, Startable, NoJob
      <3>2. claim'.lease # "expired" /\ claim'.attempt = claim.attempt + 1
        BY <2>8 DEF TickReclaim, ClaimAs
      <3> QED
        BY <3>1, <3>2, ClaimKeptOrTaken
    <2> QED
      BY <1>1, <2>1, <2>2, <2>3, <2>4, <2>5, <2>6, <2>7, <2>8 DEF Tick, AdmissionStep
  <1>2. CASE LeaseExpires /\ \A w \in Workers : ~Renewer(w)
    <2>1. claim'.attempt = claim.attempt /\ claim'.status = claim.status /\ claim'.linked = claim.linked
      BY <1>2, <1>t DEF LeaseExpires, TypeOK, ClaimRow
    <2>2. UNCHANGED <<job, worker>>
      BY <1>2 DEF LeaseExpires
    <2> QED
      BY <1>2, <2>1, <2>2 DEF ClaimKept, Held
  <1>3. \A w \in Workers : ~CreateUnclaimedJob(w)
    BY DEF CreateUnclaimedJob
  <1>4. ASSUME NEW w \in Workers, WorkerStep(w) PROVE ClaimKept
    <2>1. CASE UNCHANGED <<job, claim, projection>>
      BY <2>1, ClaimKeptOrClosed
    <2>2. CASE Start(w)
      <3>1. job' = job \/ job' = [job EXCEPT !.status = "running", !.started = stamp + 1]
        BY <2>2 DEF Start
      <3>2. job'.status = "running" =>
               \/ job.status = "running" /\ job'.started = job.started
               \/ job'.started = stamp + 1
        BY <3>1, <1>t DEF TypeOK, JobRow
      <3>3. claim' = claim
        BY <2>2 DEF Start
      <3> QED
        BY <2>2, <3>2, <3>3 DEF ClaimKept
    <2>3. CASE \E j \in JobRow : FinishCheckpoint(j) /\ j.status \in TerminalJob
      BY <2>3, <1>d, <1>finish
    <2>4. ASSUME ~UNCHANGED <<job, claim, projection>>, ~Start(w)
          PROVE  \E j \in JobRow : FinishCheckpoint(j) /\ j.status \in TerminalJob
      <3>1. ~(job.status \in Startable /\ job' = [job EXCEPT !.status = "running", !.started = stamp + 1])
        <4>1. CASE ReadJob(w) \/ FinalizeCancelled(w) \/ Succeed(w) \/ Fail(w)
          BY <4>1, <1>t, <2>4
             DEF ReadJob, FinalizeCancelled, Fence, Succeed, Fail, FinishCheckpoint, TypeOK, JobRow, Startable
        <4>2. CASE Capture(w) \/ Register(w) \/ LoseOwnership(w) \/ Abort(w) \/ Exit(w)
          BY <4>2, <2>4 DEF Capture, Register, LoseOwnership, Abort, Exit
        <4> QED
          BY <1>4, <2>4, <4>1, <4>2 DEF WorkerStep
      <3> QED
        BY <1>4, <1>t, <2>4, <3>1, WorkerStepRows
    <2> QED
      BY <2>1, <2>2, <2>3, <2>4
  <1>5. ASSUME NEW w \in Workers, Beat(w) PROVE ClaimKept
    <2>1. job' = job
      BY <1>5 DEF Beat
    <2>2. CASE claim' = claim
      BY <2>1, <2>2, ClaimKeptOrClosed
    <2>3. CASE Held(claim) /\ claim.lease = "live" /\ claim' = [claim EXCEPT !.status = "RUNNING"]
      <3>1. claim'.attempt = claim.attempt /\ claim'.lease = "live"
        BY <2>3, <1>t DEF TypeOK, ClaimRow
      <3>2. claim.status # "none"
        BY <2>3, <1>d DEF Held
      <3> QED
        BY <2>1, <2>3, <3>1, <3>2 DEF ClaimKept
    <2> QED
      BY <1>5, <2>2, <2>3 DEF Beat
  <1>6. ASSUME NEW c \in Clients, ClientStep(c) PROVE ClaimKept
    <2>1. CASE CancelRead(c) \/ RetryRead(c) \/ CancelSignal(c)
      BY <2>1, ClaimKeptOrClosed DEF CancelRead, RetryRead, CancelSignal
    <2>2. CASE CancelWrite(c)
      <3>1. job'.status # "running" /\ claim' = claim
        BY <2>2, <1>t DEF CancelWrite, TypeOK, JobRow
      <3> QED
        BY <3>1, ClaimKeptOrClosed
    <2>3. ASSUME NEW w \in Workers, RetryWrite(c, w) PROVE ClaimKept
      <3>1. job'.status # "running"
        BY <2>3 DEF RetryWrite
      <3>2. claim' = claim \/ claim' = ClaimAs("CLAIMED", TRUE, claim.attempt + 1, 0)
        BY <2>3 DEF RetryWrite
      <3>3. CASE claim' = claim
        BY <3>1, <3>3, ClaimKeptOrClosed
      <3>4. CASE claim' = ClaimAs("CLAIMED", TRUE, claim.attempt + 1, 0)
        <4>1. claim'.lease # "expired" /\ claim'.attempt = claim.attempt + 1
          BY <3>4 DEF ClaimAs
        <4> QED
          BY <3>1, <4>1, ClaimKeptOrTaken
      <3> QED
        BY <3>2, <3>3, <3>4
    <2> QED
      BY <1>6, <2>1, <2>2, <2>3 DEF ClientStep
  <1>7. CASE Crash \/ UNCHANGED vars
    BY <1>7, ClaimKeptOrClosed DEF Crash, vars
  <1> QED
    BY <1>1, <1>2, <1>3, <1>4, <1>5, <1>6, <1>7 DEF TimelyNext

\* What a step does to one thread: it ends, it goes on before or after registering,
\* it registers, or it is created, which the lease of its claim outlives.
Moves(w) ==
    \/ worker'[w].pc = "idle"
    \/ worker[w].pc = "idle" /\ worker'[w].pc = "spawned" /\ claim'.lease # "expired"
    \/ worker[w].pc \in Starting /\ worker'[w].pc \in Starting
    \/ /\ worker[w].pc = "started"
       /\ worker'[w] = [worker[w] EXCEPT
             !.pc = "working",
             !.heartbeat = IF worker[w].attempt # 0 THEN worker[w].attempt
                           ELSE IF Held(claim) THEN claim.attempt ELSE 0]
       /\ UNCHANGED <<job, claim>>
    \/ /\ worker[w].pc \in Registered /\ worker'[w].pc \in Registered
       /\ worker'[w].heartbeat = worker[w].heartbeat
       /\ worker'[w].attempt = worker[w].attempt /\ worker'[w].started = worker[w].started
       /\ worker[w].lost => worker'[w].lost
       /\ worker[w].stop => worker'[w].stop

\* A thread that is left alone moves.
LEMMA MovesKept ==
    ASSUME TypeOK, NEW w \in Workers, worker'[w] = worker[w]
    PROVE  Moves(w)
  BY DEF Moves, TypeOK, Worker, Starting, Registered

\* A step that only starts a thread, under a lease that is not over, moves every thread.
LEMMA MovesSpawned ==
    ASSUME TypeOK, NEW v \in Workers, Spawn(v), claim'.lease # "expired", NEW w \in Workers
    PROVE  Moves(w)
  <1>1. Spawned.pc = "spawned"
    BY DEF Spawned, Idle
  <1>2. CASE w = v
    BY <1>1, <1>2 DEF Spawn, Moves, TypeOK
  <1>3. CASE w # v
    BY <1>3, MovesKept DEF Spawn, TypeOK
  <1> QED
    BY <1>2, <1>3

\* So does a step of one thread.
LEMMA MovesStepped ==
    ASSUME TypeOK, NEW v \in Workers, WorkerStep(v), NEW w \in Workers
    PROVE  Moves(w)
  <1>1. CASE w # v
    <2>1. worker'[w] = worker[w]
      BY <1>1, WorkerStepRow DEF TypeOK
    <2> QED
      BY <2>1, MovesKept
  <1>2. CASE w = v
    <2> USE DEF TypeOK
    <2>i. Idle.pc = "idle"
      BY DEF Idle
    <2>1. CASE ReadJob(w)
      <3>1. \A pc : [Idle EXCEPT !.pc = pc, !.retry = job.retry].pc = pc
        BY DEF Idle
      <3>2. worker'[w].pc \in {"capturing", "finalizing", "idle"} /\ worker[w].pc = "spawned"
        BY <2>1, <2>i, <3>1 DEF ReadJob
      <3> QED
        BY <3>2 DEF Moves, Starting
    <2>2. CASE Capture(w)
      <3>1. worker'[w].pc \in {"starting", "closing"} /\ worker[w].pc \in {"capturing", "finalizing"}
        BY <2>2 DEF Capture, Worker
      <3> QED
        BY <3>1 DEF Moves, Starting
    <2>3. CASE FinalizeCancelled(w) \/ Exit(w)
      BY <2>3, <2>i DEF FinalizeCancelled, Exit, Moves
    <2>4. CASE Start(w)
      <3>1. worker'[w].pc \in {"started", "idle"} /\ worker[w].pc = "starting"
        BY <2>4, <2>i DEF Start, Worker
      <3> QED
        BY <3>1 DEF Moves, Starting
    <2>5. CASE Register(w)
      BY <2>5 DEF Register, Moves
    <2>6. CASE LoseOwnership(w) \/ Abort(w) \/ Succeed(w) \/ Fail(w)
      <3>1. PICK pc \in {"exiting", "failing"} : worker' = [worker EXCEPT ![w].pc = pc]
        BY <2>6 DEF LoseOwnership, Abort, Succeed, Fail
      <3>2. worker[w].pc \in {"working", "failing"}
        BY <2>6 DEF LoseOwnership, Abort, Succeed, Fail
      <3> QED
        BY <3>1, <3>2 DEF Moves, Registered, Worker
    <2> QED
      BY <1>2, <2>1, <2>2, <2>3, <2>4, <2>5, <2>6 DEF WorkerStep
  <1> QED
    BY <1>1, <1>2

\* Only a tick and a retry create threads, and both take the claim first.
LEMMA MovesStep ==
    ASSUME ~UnclaimedJobs, IInv, HeldUnfinished, [TimelyNext]_vars, NEW w \in Workers
    PROVE  Moves(w)
  <1>t. TypeOK /\ ClaimInv
    BY DEF IInv
  <1>same. ASSUME UNCHANGED worker PROVE Moves(w)
    BY <1>same, <1>t, MovesKept
  <1>1. CASE Tick
    <2>1. ASSUME NEW v \in Workers, TickCreateJob(v) \/ TickReclaim(v) PROVE Moves(w)
      <3>1. claim'.lease # "expired"
        BY <2>1 DEF TickCreateJob, TickReclaim, ClaimAs
      <3> QED
        BY <2>1, <3>1, <1>t, MovesSpawned DEF TickCreateJob, TickReclaim
    <2>2. CASE \/ TickReconcile \/ TickInsert \/ TickAdmit \/ TickAdoptJob \/ TickCloseClaim
               \/ TickAbandon \/ TickObserve \/ TickMerge \/ TickReclaimClosed
      BY <2>2, <1>same
         DEF TickReconcile, TickInsert, TickAdmit, TickAdoptJob, TickCloseClaim, TickAbandon,
             TickObserve, TickMerge, TickReclaimClosed
    <2> QED
      BY <1>1, <2>1, <2>2 DEF Tick, AdmissionStep
  <1>2. CASE LeaseExpires \/ UNCHANGED vars
    BY <1>2, <1>same DEF LeaseExpires, vars
  <1>3. \A v \in Workers : ~CreateUnclaimedJob(v)
    BY DEF CreateUnclaimedJob
  <1>4. ASSUME NEW v \in Workers, WorkerStep(v) PROVE Moves(w)
    BY <1>4, <1>t, MovesStepped
  <1>lost. ASSUME NEW v \in Workers, worker' = [worker EXCEPT ![v].lost = TRUE] PROVE Moves(w)
    BY <1>lost, <1>t DEF Moves, TypeOK, Worker, Starting, Registered
  <1>stop. ASSUME NEW v \in Workers, worker' = [worker EXCEPT ![v].stop = TRUE] PROVE Moves(w)
    BY <1>stop, <1>t DEF Moves, TypeOK, Worker, Starting, Registered
  <1>5. ASSUME NEW v \in Workers, Beat(v) PROVE Moves(w)
    BY <1>5, <1>same, <1>lost DEF Beat
  <1>6. ASSUME NEW c \in Clients, ClientStep(c) PROVE Moves(w)
    <2>1. CASE CancelRead(c) \/ CancelWrite(c) \/ RetryRead(c)
      BY <2>1, <1>same DEF CancelRead, CancelWrite, RetryRead
    <2>2. CASE CancelSignal(c)
      BY <2>2, <1>same, <1>stop, <1>t DEF CancelSignal, TypeOK
    <2>3. ASSUME NEW v \in Workers, RetryWrite(c, v) PROVE Moves(w)
      <3>1. claim.linked /\ job'.finished \in {0, job.finished}
        BY <2>3 DEF RetryWrite, HeldUnfinished, Requested
      <3>2. CASE claim' = ClaimAs("CLAIMED", TRUE, claim.attempt + 1, 0)
        BY <2>3, <3>2, <1>t, MovesSpawned DEF RetryWrite, ClaimAs
      <3>3. CASE /\ ~(claim.linked /\ claim.status \in RetryableClaim /\ job'.finished = 0)
                 /\ UNCHANGED claim
        <4>1. claim.lease = "expired" => claim.status \in ActiveClaim
          BY <1>t DEF ClaimInv, CompletedIffTerminal, TypeOK, ClaimRow, ClaimStatus
        <4>2. claim.lease # "expired"
          BY <3>1, <3>3, <4>1 DEF HeldUnfinished, Held, ActiveClaim, RetryableClaim
        <4> QED
          BY <2>3, <3>3, <4>2, <1>t, MovesSpawned DEF RetryWrite
      <3> QED
        BY <2>3, <3>2, <3>3 DEF RetryWrite
    <2> QED
      BY <1>6, <2>1, <2>2, <2>3 DEF ClientStep
  <1>7. CASE Crash
    BY <1>7, <1>t DEF Crash, Moves, Idle, TypeOK
  <1> QED
    BY <1>1, <1>2, <1>3, <1>4, <1>5, <1>6, <1>7 DEF TimelyNext

\* RenewInv is kept by every step of a system whose leases outlive their owners' starts.
LEMMA RenewStep ==
    ASSUME ~UnclaimedJobs, IInv, IInv', HeldUnfinished, RenewInv, [TimelyNext]_vars
    PROVE  RenewInv'
  <1>t. TypeOK /\ TypeOK' /\ OwnershipInv
    BY DEF IInv
  <1>k. ClaimKept /\ \A w \in Workers : Moves(w)
    BY ClaimKeptStep, MovesStep
  <1>n. claim.attempt \in Nat /\ stamp \in Nat /\ claim'.attempt \in Nat
    BY <1>t DEF TypeOK, ClaimRow
  <1>1. ASSUME claim'.lease = "expired", NEW w \in Workers PROVE ~Renewer(w)'
    <2>1. claim'.attempt = claim.attempt
      BY <1>1, <1>k DEF ClaimKept
    <2>2. CASE UNCHANGED worker /\ \A v \in Workers : ~Renewer(v)
      BY <2>1, <2>2 DEF Renewer, Beating
    <2>3. CASE claim.lease = "expired"
      <3>1. worker[w].pc \notin Starting /\ ~(Beating(w) /\ worker[w].heartbeat = claim.attempt)
        BY <2>3 DEF RenewInv, Renewer, Starting
      <3>2. worker'[w].pc \notin Starting
        BY <1>1, <1>k, <3>1 DEF Moves, Starting, Registered
      <3>3. ~(Beating(w)' /\ worker'[w].heartbeat = claim'.attempt)
        BY <1>1, <1>k, <2>1, <3>1 DEF Moves, Beating, Registered, Starting
      <3> QED
        BY <3>2, <3>3 DEF Renewer, Starting
    <2> QED
      BY <1>1, <1>k, <2>2, <2>3 DEF ClaimKept
  <1>2. claim'.status # "none" => claim'.attempt # 0
    BY <1>k, <1>n DEF ClaimKept, RenewInv
  <1>3. ASSUME NEW w \in Workers, worker'[w].pc \in Registered PROVE Bound(w)'
    <2>1. CASE /\ worker[w].pc = "started"
               /\ worker'[w] = [worker[w] EXCEPT
                     !.pc = "working",
                     !.heartbeat = IF worker[w].attempt # 0 THEN worker[w].attempt
                                   ELSE IF Held(claim) THEN claim.attempt ELSE 0]
               /\ UNCHANGED <<job, claim>>
      <3>1. /\ worker'[w].attempt = worker[w].attempt
            /\ worker'[w].heartbeat = IF worker[w].attempt # 0 THEN worker[w].attempt
                                      ELSE IF Held(claim) THEN claim.attempt ELSE 0
        BY <2>1, <1>t DEF TypeOK, Worker
      <3> QED
        BY <2>1, <3>1 DEF Bound, Held
    <2>2. CASE /\ worker[w].pc \in Registered
               /\ worker'[w].heartbeat = worker[w].heartbeat
               /\ worker'[w].attempt = worker[w].attempt
               /\ worker'[w].started = worker[w].started
      <3>1. Bound(w)
        BY <2>2 DEF RenewInv
      <3>2. CASE worker[w].attempt # 0
        BY <2>2, <3>1, <3>2 DEF Bound
      <3>3. ASSUME worker[w].attempt = 0, job'.status = "running", worker'[w].started = job'.started,
                   Held(claim')
            PROVE  worker'[w].heartbeat = claim'.attempt
        <4>1. worker[w].started <= stamp /\ worker[w].started \in Nat
          BY <1>t DEF OwnershipInv, TypeOK, Worker
        <4>2. job'.started # stamp + 1
          BY <1>n, <2>2, <3>3, <4>1
        <4>3. job.status = "running" /\ job'.started = job.started
          BY <1>k, <3>3, <4>2 DEF ClaimKept
        <4>4. Held(claim) /\ claim'.attempt = claim.attempt
          BY <1>k, <3>3 DEF ClaimKept
        <4> QED
          BY <2>2, <3>1, <3>3, <4>3, <4>4 DEF Bound
      <3> QED
        BY <2>2, <3>2, <3>3 DEF Bound
    <2> QED
      BY <1>3, <1>k, <2>1, <2>2 DEF Moves, Starting, Registered
  <1> QED
    BY <1>1, <1>2, <1>3 DEF RenewInv

\* Under an expired lease the thread that owns a running job is not renewing its claim.
LEMMA ReclaimedOwner ==
    ASSUME IInv, HeldUnfinished, RenewInv, TimelyNext, Reclaims,
           NEW w \in Workers, Owns(w)
    PROVE  worker[w].stop \/ worker[w].lost
  <1>t. TypeOK /\ OwnershipInv /\ ClaimInv
    BY DEF IInv
  <1>1. PICK v \in Workers : TickReclaim(v)
    <2>1. job' # job
      BY DEF Reclaims
    <2>2. \A v \in Workers : ~WorkerStep(v)
      <3>1. ASSUME NEW v \in Workers, WorkerStep(v) PROVE FALSE
        BY <1>t, <3>1, WorkerStepRows
           DEF Reclaims, Startable, FinishCheckpoint, TerminalJob, TypeOK, JobRow
      <3> QED
        BY <3>1
    <2>3. \A c \in Clients : ~ClientStep(c)
      <3>1. ASSUME NEW c \in Clients, CancelWrite(c) \/ \E v \in Workers : RetryWrite(c, v)
            PROVE  FALSE
        <4>1. NoRequest.pc = "idle" /\ [NoRequest EXCEPT !.pc = "signalling"].pc = "signalling"
          BY DEF NoRequest
        <4>2. request[c].pc # request'[c].pc
          BY <1>t, <3>1, <4>1 DEF CancelWrite, RetryWrite, TypeOK
        <4> QED
          BY <4>2 DEF Reclaims
      <3> QED
        BY <2>1, <3>1 DEF ClientStep, CancelRead, CancelSignal, RetryRead
    <2> QED
      BY <2>1, <2>2, <2>3
         DEF Reclaims, TimelyNext, Tick, AdmissionStep, TickReconcile, TickInsert, TickAdmit,
             TickAdoptJob, TickCloseClaim, TickAbandon, TickObserve, TickMerge, TickReclaimClosed,
             TickCreateJob, LeaseExpires, CreateUnclaimedJob, Beat, Crash
  <1>2. job.status = "running" /\ claim.lease = "expired" /\ claim.status \in ActiveClaim
    BY <1>1 DEF Reclaims, TickReclaim, Reclaimable
  <1>3. Held(claim) /\ claim.attempt # 0
    BY <1>2 DEF HeldUnfinished, RenewInv, Held, ActiveClaim
  <1>4. ~Renewer(w)
    BY <1>2 DEF RenewInv
  <1>5. worker[w].started = job.started /\ worker[w].started # 0
    BY DEF Owns, Fence
  <1>6. worker[w].pc \in Registered
    BY <1>4, <1>5, <1>t DEF OwnershipInv, Renewer, Registered, TypeOK, Worker
  <1>7. worker[w].heartbeat = claim.attempt
    BY <1>2, <1>3, <1>5, <1>6 DEF RenewInv, Bound, Owns, Fence, SameGeneration
  <1> QED
    BY <1>3, <1>4, <1>6, <1>7 DEF Renewer, Beating, Registered

\* A running job is taken only from a worker that is dead or whose heartbeat was stopped
\* or lost, if only the tick creates jobs.
THEOREM LiveWorkerSafe ==
    ASSUME ~UnclaimedJobs
    PROVE  TimelySpec => LiveWorkerKeepsJob
  <1> DEFINE RInv == IInv /\ HeldUnfinished /\ RenewInv
             Kept == Reclaims => \A w \in Workers : Owns(w) => worker[w].stop \/ worker[w].lost
  <1>1. Init => RInv
    <2>1. Init => HeldUnfinished
      BY DEF Init, HeldUnfinished, Requested, NoJob, NoClaim, NoRequest, Held
    <2>2. Init => RenewInv
      BY DEF Init, RenewInv, NoClaim, Idle, Registered
    <2> QED
      BY <2>1, <2>2, InitInv
  <1>2. RInv /\ [TimelyNext]_vars => RInv'
    <2>1. [TimelyNext]_vars => [Next]_vars
      BY DEF TimelyNext, Next
    <2> QED
      BY <2>1, InvStep, HeldUnfinishedStep, RenewStep
  <1>3. RInv /\ [TimelyNext]_vars => [Kept]_vars
    BY ReclaimedOwner
  <1> QED
    BY <1>1, <1>2, <1>3, PTL DEF TimelySpec, LiveWorkerKeepsJob


-----------------------------------------------------------------------------
(* A thread that lost the fence                                            *)

\* The rows are still those a thread started under, as far as its claim and the two
\* timestamps of the job tell.
Stands(w) ==
    /\ Held(claim) /\ claim.attempt = worker[w].attempt
    /\ job.started = worker[w].started /\ job.finished = 0

\* A captured generation is one the claim has had, and for a thread that captured one
\* this much already is the fence.
FenceInv ==
    \A w \in Workers : worker[w].attempt # 0 =>
        /\ claim.linked /\ worker[w].attempt <= claim.attempt
        /\ worker[w].started # 0 /\ Stands(w) => Fence(w)

\* A step keeps a linked claim linked; under the same generation it does not take up a claim
\* that was closed, nor a job that was finished or moved on.
TermKept ==
    /\ claim'.linked
    /\ claim'.attempt = claim.attempt \/ claim'.attempt = claim.attempt + 1
    /\ claim'.attempt = claim.attempt /\ Held(claim') =>
          /\ Held(claim)
          /\ job'.started = job.started \/ job'.started = 0 \/ job'.started = stamp + 1
          /\ job'.finished = 0 => job.finished = 0
          /\ job'.finished = 0 /\ job'.started = job.started =>
                /\ job'.retry = job.retry
                /\ job'.status = job.status \/ job'.status = "cancelled"
                                            \/ job'.started = stamp + 1

\* A step that leaves the rows alone does so.
LEMMA TermKeptSame ==
    ASSUME claim.linked, UNCHANGED <<job, claim>>
    PROVE  TermKept
  BY DEF TermKept, Held

\* So does one that takes the claim as its next generation.
LEMMA TermKeptTaken ==
    ASSUME TypeOK, claim'.linked, claim'.attempt = claim.attempt + 1
    PROVE  TermKept
  <1>1. claim.attempt \in Nat
    BY DEF TypeOK, ClaimRow
  <1> QED
    BY <1>1 DEF TermKept

\* So does one that closes it.
LEMMA TermKeptClosed ==
    ASSUME claim'.linked, claim'.attempt = claim.attempt, claim'.status \notin ActiveClaim
    PROVE  TermKept
  BY DEF TermKept, Held

\* Every step does.
LEMMA TermKeptStep ==
    ASSUME IInv, claim.linked, [Next]_vars
    PROVE  TermKept
  <1>t. TypeOK /\ OwnershipInv /\ ClaimInv
    BY DEF IInv
  <1>d. /\ TerminalClaim \cap ActiveClaim = {} /\ "none" \notin TerminalClaim \cup ActiveClaim
        /\ "none" \notin JobStatus
    BY DEF TerminalClaim, ActiveClaim, JobStatus, ActiveJob, TerminalJob
  <1>a. admission = "none" /\ claim.status # "none" /\ job.status # "none"
    BY <1>t, <1>d DEF ClaimInv
  <1>finish. ASSUME NEW j \in JobRow, FinishCheckpoint(j), j = job \/ Finished(j)
             PROVE  TermKept
    <2>1. claim' = Reconciled(j, claim) /\ job' = j
      BY <1>finish DEF FinishCheckpoint
    <2>2. CASE Held(claim) /\ Finished(j)
      <3>1. claim'.attempt = claim.attempt
        BY <2>1, <2>2, <1>t DEF Reconciled, TypeOK, ClaimRow
      <3>2. claim'.linked /\ claim'.status \notin ActiveClaim
        BY <2>1, <2>2, <1>d, <1>t, ReconciledRow DEF TypeOK
      <3> QED
        BY <3>1, <3>2, TermKeptClosed
    <2>3. CASE ~Held(claim)
      <3>1. claim' = claim
        BY <2>1, <2>3 DEF Reconciled
      <3>2. claim'.status \notin ActiveClaim
        BY <2>3, <3>1 DEF Held
      <3> QED
        BY <3>1, <3>2, TermKeptClosed
    <2>4. CASE ~Finished(j)
      <3>1. claim' = claim /\ job' = job
        BY <2>1, <2>4, <1>finish DEF Reconciled
      <3> QED
        BY <3>1, TermKeptSame
    <2> QED
      BY <2>2, <2>3, <2>4
  <1>1. CASE Tick
    <2>1. CASE TickReconcile
      <3>1. FinishCheckpoint(job)
        BY <2>1 DEF TickReconcile, FinishCheckpoint
      <3> QED
        BY <3>1, <1>finish, <1>t DEF TypeOK
    <2>2. CASE TickObserve \/ TickMerge
      BY <2>2, TermKeptSame DEF TickObserve, TickMerge
    <2>3. CASE TickReclaimClosed
      <3>1. PICK status : claim' = ClaimAs(status, job.status # "none", claim.attempt + 1, stamp + 1)
        BY <2>3 DEF TickReclaimClosed
      <3>2. claim'.linked /\ claim'.attempt = claim.attempt + 1
        BY <3>1, <1>a DEF ClaimAs
      <3> QED
        BY <3>2, <1>t, TermKeptTaken
    <2>4. ASSUME NEW w \in Workers, TickReclaim(w) PROVE TermKept
      <3>1. claim'.linked /\ claim'.attempt = claim.attempt + 1
        BY <2>4 DEF TickReclaim, ClaimAs
      <3> QED
        BY <3>1, <1>t, TermKeptTaken
    <2> QED
      BY <1>1, <1>a, <1>d, <2>1, <2>2, <2>3, <2>4
         DEF Tick, AdmissionStep, TickInsert, TickAdmit, TickCreateJob, TickAdoptJob,
             TickCloseClaim, TickAbandon
  <1>2. CASE LeaseExpires
    <2>1. /\ claim'.attempt = claim.attempt /\ claim'.status = claim.status
          /\ claim'.linked = claim.linked /\ job' = job
      BY <1>2, <1>t DEF LeaseExpires, TypeOK, ClaimRow
    <2> QED
      BY <2>1 DEF TermKept, Held
  <1>3. \A w \in Workers : ~CreateUnclaimedJob(w)
    BY <1>a DEF CreateUnclaimedJob
  <1>4. ASSUME NEW w \in Workers, WorkerStep(w) PROVE TermKept
    <2>1. CASE UNCHANGED <<job, claim, projection>>
      BY <2>1, TermKeptSame
    <2>2. CASE job' = [job EXCEPT !.status = "running", !.started = stamp + 1]
               /\ UNCHANGED <<claim, projection>>
      <3>1. /\ job'.started = stamp + 1 /\ job'.finished = job.finished
            /\ job'.retry = job.retry /\ claim' = claim
        BY <2>2, <1>t DEF TypeOK, JobRow
      <3> QED
        BY <3>1 DEF TermKept, Held
    <2>3. CASE \E j \in JobRow : /\ FinishCheckpoint(j) /\ j.status \in TerminalJob
                                 /\ j = job \/ j.finished # 0
      BY <2>3, <1>finish DEF Finished
    <2> QED
      BY <1>4, <1>t, <2>1, <2>2, <2>3, WorkerStepRows
  <1>5. ASSUME NEW w \in Workers, Beat(w) PROVE TermKept
    <2>1. CASE UNCHANGED claim
      BY <1>5, <2>1, TermKeptSame DEF Beat
    <2>2. CASE Held(claim) /\ claim' = [claim EXCEPT !.status = "RUNNING"]
      <3>1. claim'.attempt = claim.attempt /\ claim'.linked = claim.linked /\ job' = job
        BY <1>5, <2>2, <1>t DEF Beat, TypeOK, ClaimRow
      <3> QED
        BY <2>2, <3>1 DEF TermKept
    <2> QED
      BY <1>5, <2>1, <2>2 DEF Beat
  <1>6. ASSUME NEW c \in Clients, ClientStep(c) PROVE TermKept
    <2>1. CASE CancelRead(c) \/ RetryRead(c) \/ CancelSignal(c)
      BY <2>1, TermKeptSame DEF CancelRead, RetryRead, CancelSignal
    <2>2. CASE CancelWrite(c)
      <3>1. /\ job'.status = "cancelled" /\ job'.started = job.started
            /\ job'.finished = job.finished /\ job'.retry = job.retry /\ claim' = claim
        BY <2>2, <1>t DEF CancelWrite, TypeOK, JobRow
      <3> QED
        BY <3>1 DEF TermKept, Held
    <2>3. ASSUME NEW w \in Workers, RetryWrite(c, w) PROVE TermKept
      <3>1. CASE claim' = ClaimAs("CLAIMED", TRUE, claim.attempt + 1, 0)
        <4>1. claim'.linked /\ claim'.attempt = claim.attempt + 1
          BY <3>1 DEF ClaimAs
        <4> QED
          BY <4>1, <1>t, TermKeptTaken
      <3>2. CASE claim' = claim /\ claim.status \notin RetryableClaim
        BY <3>2, TermKeptClosed DEF RetryableClaim, ActiveClaim
      <3>3. CASE claim' = claim /\ job'.finished # 0
        <4>1. job'.started = job.started \/ job'.started = 0
          BY <2>3 DEF RetryWrite
        <4> QED
          BY <3>3, <4>1 DEF TermKept, Held
      <3> QED
        BY <2>3, <3>1, <3>2, <3>3 DEF RetryWrite
    <2> QED
      BY <1>6, <2>1, <2>2, <2>3 DEF ClientStep
  <1>7. CASE Crash \/ UNCHANGED vars
    BY <1>7, TermKeptSame DEF Crash, vars
  <1> QED
    BY <1>1, <1>2, <1>3, <1>4, <1>5, <1>6, <1>7 DEF Next

\* What a step does to the generations a thread holds: none, they are as they were, it
\* captures the one of the claim, or it starts the job under them.
Keeps(w) ==
    \/ worker'[w].attempt = 0 /\ worker'[w].started = 0
    \/ /\ worker'[w].attempt = worker[w].attempt /\ worker'[w].retry = worker[w].retry
       /\ worker'[w].started = worker[w].started
    \/ /\ worker'[w].started = 0 /\ UNCHANGED claim
       /\ Held(claim) /\ worker'[w].attempt = claim.attempt
    \/ /\ worker'[w].attempt = worker[w].attempt /\ worker'[w].retry = worker[w].retry
       /\ worker[w].started = 0 /\ worker'[w].started = stamp + 1 /\ UNCHANGED claim
       /\ job'.retry = worker[w].retry /\ job'.status = "running"

\* A step of one thread.
LEMMA KeepsStepped ==
    ASSUME TypeOK, OwnershipInv, NEW v \in Workers, WorkerStep(v), NEW w \in Workers
    PROVE  Keeps(w)
  <1> USE DEF TypeOK
  <1>i. Idle.attempt = 0 /\ Idle.started = 0
    BY DEF Idle
  <1>1. CASE w # v
    <2>1. worker'[w] = worker[w]
      BY <1>1, WorkerStepRow
    <2> QED
      BY <2>1 DEF Keeps
  <1>2. CASE w = v
    <2>1. CASE ReadJob(w)
      <3>1. \A pc \in {"capturing", "finalizing"} :
               /\ [Idle EXCEPT !.pc = pc, !.retry = job.retry].attempt = 0
               /\ [Idle EXCEPT !.pc = pc, !.retry = job.retry].started = 0
        BY DEF Idle
      <3>2. PICK r : worker' = [worker EXCEPT ![w] = r] /\ r.attempt = 0 /\ r.started = 0
        BY <2>1, <3>1, <1>i DEF ReadJob
      <3> QED
        BY <3>2 DEF Keeps
    <2>2. CASE Capture(w)
      <3>1. /\ worker'[w].attempt = IF Held(claim) THEN claim.attempt ELSE 0
            /\ worker'[w].started = worker[w].started /\ claim' = claim
        BY <2>2 DEF Capture, Worker
      <3>2. worker[w].started = 0
        BY <2>2 DEF Capture, OwnershipInv
      <3> QED
        BY <3>1, <3>2 DEF Keeps
    <2>3. CASE FinalizeCancelled(w) \/ Exit(w)
      BY <2>3, <1>i DEF FinalizeCancelled, Exit, Keeps
    <2>4. CASE Start(w)
      <3>1. CASE worker' = [worker EXCEPT ![w] = Idle]
        BY <3>1, <1>i DEF Keeps
      <3>2. CASE /\ SameGeneration(w)
                 /\ job' = [job EXCEPT !.status = "running", !.started = stamp + 1]
                 /\ worker' = [worker EXCEPT ![w] = [@ EXCEPT !.pc = "started",
                                                              !.started = stamp + 1]]
        <4>1. /\ worker'[w].attempt = worker[w].attempt /\ worker'[w].retry = worker[w].retry
              /\ worker'[w].started = stamp + 1
          BY <3>2 DEF Worker
        <4>2. job'.status = "running" /\ job'.retry = job.retry
          BY <3>2 DEF JobRow
        <4>3. worker[w].started = 0 /\ claim' = claim /\ job.retry = worker[w].retry
          BY <2>4, <3>2 DEF Start, OwnershipInv, SameGeneration
        <4> QED
          BY <4>1, <4>2, <4>3 DEF Keeps
      <3> QED
        BY <2>4, <3>1, <3>2 DEF Start
    <2>5. CASE Register(w)
      <3>1. /\ worker'[w].attempt = worker[w].attempt /\ worker'[w].retry = worker[w].retry
            /\ worker'[w].started = worker[w].started
        BY <2>5 DEF Register, Worker
      <3> QED
        BY <3>1 DEF Keeps
    <2>6. CASE LoseOwnership(w) \/ Abort(w) \/ Succeed(w) \/ Fail(w)
      <3>1. PICK pc \in {"exiting", "failing"} : worker' = [worker EXCEPT ![w].pc = pc]
        BY <2>6 DEF LoseOwnership, Abort, Succeed, Fail
      <3> QED
        BY <3>1 DEF Keeps, Worker
    <2> QED
      BY <1>2, <2>1, <2>2, <2>3, <2>4, <2>5, <2>6 DEF WorkerStep
  <1> QED
    BY <1>1, <1>2

\* Every step.
LEMMA KeepsStep ==
    ASSUME IInv, [Next]_vars, NEW w \in Workers
    PROVE  Keeps(w)
  <1>t. TypeOK /\ OwnershipInv
    BY DEF IInv
  <1>same. ASSUME worker'[w] = worker[w] PROVE Keeps(w)
    BY <1>same DEF Keeps
  <1>spawn. ASSUME NEW v \in Workers, Spawn(v) PROVE Keeps(w)
    <2>1. Spawned.attempt = 0 /\ Spawned.started = 0
      BY DEF Spawned, Idle
    <2> QED
      BY <1>spawn, <1>t, <2>1 DEF Spawn, Keeps, TypeOK
  <1>1. CASE Tick
    BY <1>1, <1>same, <1>spawn
       DEF Tick, AdmissionStep, TickReconcile, TickInsert, TickAdmit, TickAdoptJob, TickCloseClaim,
           TickAbandon, TickObserve, TickMerge, TickReclaimClosed, TickCreateJob, TickReclaim
  <1>2. CASE LeaseExpires \/ UNCHANGED vars
    BY <1>2, <1>same DEF LeaseExpires, vars
  <1>3. ASSUME NEW v \in Workers, CreateUnclaimedJob(v) PROVE Keeps(w)
    BY <1>3, <1>spawn DEF CreateUnclaimedJob
  <1>4. ASSUME NEW v \in Workers, WorkerStep(v) PROVE Keeps(w)
    BY <1>4, <1>t, KeepsStepped
  <1>lost. ASSUME NEW v \in Workers, worker' = [worker EXCEPT ![v].lost = TRUE] PROVE Keeps(w)
    BY <1>lost, <1>t DEF Keeps, TypeOK, Worker
  <1>stop. ASSUME NEW v \in Workers, worker' = [worker EXCEPT ![v].stop = TRUE] PROVE Keeps(w)
    BY <1>stop, <1>t DEF Keeps, TypeOK, Worker
  <1>5. ASSUME NEW v \in Workers, Beat(v) PROVE Keeps(w)
    BY <1>5, <1>same, <1>lost DEF Beat
  <1>6. ASSUME NEW c \in Clients, ClientStep(c) PROVE Keeps(w)
    BY <1>6, <1>same, <1>spawn, <1>stop, <1>t
       DEF ClientStep, CancelRead, CancelWrite, CancelSignal, RetryRead, RetryWrite, TypeOK
  <1>7. CASE Crash
    BY <1>7, <1>t DEF Crash, Keeps, Idle, TypeOK
  <1> QED
    BY <1>1, <1>2, <1>3, <1>4, <1>5, <1>6, <1>7 DEF Next

\* The rows go back to no generation that a thread started under.
LEMMA StandsBefore ==
    ASSUME IInv, FenceInv, [Next]_vars, NEW w \in Workers,
           worker[w].attempt # 0, worker[w].started # 0,
           worker'[w].attempt = worker[w].attempt, worker'[w].started = worker[w].started,
           Stands(w)'
    PROVE  /\ Stands(w)
           /\ job'.retry = job.retry
           /\ job'.status = job.status \/ job'.status = "cancelled"
  <1>1. claim.linked /\ worker[w].attempt <= claim.attempt
    BY DEF FenceInv
  <1>2. /\ claim.attempt \in Nat /\ worker[w].attempt \in Nat
        /\ worker[w].started \in Nat /\ stamp \in Nat /\ worker[w].started <= stamp
    BY DEF IInv, TypeOK, ClaimRow, Worker, OwnershipInv
  <1>3. TermKept
    BY <1>1, TermKeptStep
  <1>4. /\ claim'.status \in ActiveClaim /\ claim'.linked
        /\ claim'.attempt = worker[w].attempt
        /\ job'.started = worker[w].started /\ job'.finished = 0
    BY DEF Stands, Held
  <1>5. claim'.attempt = claim.attempt
    BY <1>1, <1>2, <1>3, <1>4 DEF TermKept
  <1>6. job'.started # 0 /\ job'.started # stamp + 1
    BY <1>2, <1>4
  <1>7. Held(claim) /\ job'.started = job.started /\ job.finished = 0
    BY <1>3, <1>4, <1>5, <1>6 DEF TermKept, Held
  <1> QED
    BY <1>3, <1>4, <1>5, <1>6, <1>7 DEF TermKept, Stands, Held

\* FenceInv is kept.
LEMMA FenceInvStep ==
    ASSUME IInv, FenceInv, [Next]_vars
    PROVE  FenceInv'
  <1> SUFFICES ASSUME NEW w \in Workers, worker'[w].attempt # 0
               PROVE  /\ claim'.linked /\ worker'[w].attempt <= claim'.attempt
                      /\ worker'[w].started # 0 /\ Stands(w)' => Fence(w)'
    BY DEF FenceInv
  <1>n. claim.attempt \in Nat /\ worker[w].attempt \in Nat
    BY DEF IInv, TypeOK, ClaimRow, Worker
  <1>1. CASE /\ worker'[w].attempt = worker[w].attempt /\ worker'[w].retry = worker[w].retry
             /\ worker'[w].started = worker[w].started
    <2>1. claim.linked /\ worker[w].attempt <= claim.attempt
      BY <1>1 DEF FenceInv
    <2>2. claim'.linked /\ worker'[w].attempt <= claim'.attempt
      BY <1>1, <1>n, <2>1, TermKeptStep DEF TermKept
    <2>3. ASSUME worker'[w].started # 0, Stands(w)' PROVE Fence(w)'
      <3>1. /\ Stands(w) /\ job'.retry = job.retry
            /\ job'.status = job.status \/ job'.status = "cancelled"
        BY <1>1, <2>3, StandsBefore
      <3>2. Fence(w)
        BY <1>1, <2>3, <3>1 DEF FenceInv
      <3> QED
        BY <1>1, <2>3, <3>1, <3>2 DEF Fence, SameGeneration, Stands
    <2> QED
      BY <2>2, <2>3
  <1>2. CASE /\ worker'[w].started = 0 /\ UNCHANGED claim
             /\ Held(claim) /\ worker'[w].attempt = claim.attempt
    BY <1>2, <1>n DEF Held
  <1>3. CASE /\ worker'[w].attempt = worker[w].attempt /\ worker'[w].retry = worker[w].retry
             /\ UNCHANGED claim
             /\ job'.retry = worker[w].retry /\ job'.status = "running"
    <2>1. claim'.linked /\ worker'[w].attempt <= claim'.attempt
      BY <1>3 DEF FenceInv
    <2> QED
      BY <1>3, <2>1 DEF Fence, SameGeneration, Stands
  <1> QED
    BY <1>1, <1>2, <1>3, KeepsStep DEF Keeps

\* A thread that runs under a claim and has lost the fence never passes it again.
THEOREM LostStaysLost == Spec => LostForGood
  <1> DEFINE Lost == \A w \in Workers :
                 /\ worker[w].attempt # 0 /\ worker[w].started # 0
                 /\ worker'[w].started = worker[w].started
                 /\ ~Owns(w)
                 => ~Owns(w)'
  <1>1. Init => FenceInv
    BY DEF Init, FenceInv, Idle
  <1>2. IInv /\ FenceInv /\ [Next]_vars => FenceInv'
    BY FenceInvStep
  <1>3. IInv /\ FenceInv /\ [Next]_vars => [Lost]_vars
    <2> SUFFICES ASSUME IInv, FenceInv, [Next]_vars, NEW w \in Workers,
                        worker[w].attempt # 0, worker[w].started # 0,
                        worker'[w].started = worker[w].started, Owns(w)'
                 PROVE  Owns(w)
      OBVIOUS
    <2>1. stamp \in Nat /\ worker[w].started \in Nat /\ worker[w].started <= stamp
      BY DEF IInv, TypeOK, Worker, OwnershipInv
    <2>2. CASE worker'[w].attempt = worker[w].attempt
      <3>1. Stands(w)'
        BY <2>2 DEF Owns, Fence, SameGeneration, Stands
      <3>2. Stands(w)
        BY <2>2, <3>1, StandsBefore
      <3> QED
        BY <3>2 DEF FenceInv, Owns
    <2> QED
      BY <2>1, <2>2, KeepsStep DEF Keeps
  <1> QED
    BY <1>1, <1>2, <1>3, Invariance, PTL DEF Spec, LostForGood


-----------------------------------------------------------------------------
(* What a crash can lose                                                   *)

EndedClaim == {"SUCCESS", "FAILED", "SKIPPED"}

\* A linked claim has ended as its job did, and one of a job that can run was given up
\* only in the two ways RetriesFound excepts.
RecoverInv ==
    /\ claim.linked => claim.status \in ActiveClaim \cup EndedClaim
    /\ job.status \in ActiveJob /\ job.finished = 0 /\ claim.status # "SUCCESS" => Held(claim)

\* A finished status is projected to an ended claim.
LEMMA StatusOfEnded == \A s \in TerminalJob : StatusOf[s] \in EndedClaim
  BY DEF StatusOf, JobStatus, TerminalJob, EndedClaim

\* RecoverInv is kept as long as nobody but the tick creates a job.
LEMMA RecoverStep ==
    ASSUME ~UnclaimedJobs, IInv, HeldUnfinished, RecoverInv, [Next]_vars
    PROVE  RecoverInv'
  <1>d. /\ TerminalJob \cap ActiveJob = {} /\ "none" \notin ActiveJob /\ "none" \notin JobStatus
        /\ "RUNNING" \in ActiveClaim /\ "CLAIMED" \in ActiveClaim
    BY DEF TerminalJob, ActiveJob, ActiveClaim, JobStatus
  <1>t. TypeOK /\ OwnershipInv /\ ClaimInv
    BY DEF IInv
  <1>same. ASSUME UNCHANGED <<job, claim>> PROVE RecoverInv'
    BY <1>same DEF RecoverInv, Held
  <1>held. ASSUME claim'.linked, claim'.status \in ActiveClaim PROVE RecoverInv'
    BY <1>held DEF RecoverInv, Held
  <1>closed. ASSUME job'.status \notin ActiveJob, claim'.linked => claim'.status \in EndedClaim
             PROVE  RecoverInv'
    BY <1>closed DEF RecoverInv
  <1>finish. ASSUME NEW j \in JobRow, FinishCheckpoint(j), j.status \in TerminalJob
             PROVE  RecoverInv'
    <2>1. claim' = Reconciled(j, claim) /\ job'.status \notin ActiveJob
      BY <1>finish, <1>d DEF FinishCheckpoint
    <2>2. CASE Held(claim) /\ Finished(j)
      <3>1. claim'.status \in EndedClaim
        BY <2>1, <2>2, <1>t, <1>finish, ReconciledRow, StatusOfEnded DEF TypeOK
      <3> QED
        BY <2>1, <3>1, <1>closed
    <2>3. CASE ~(Held(claim) /\ Finished(j))
      <3>1. claim' = claim
        BY <2>1, <2>3 DEF Reconciled
      <3> QED
        BY <2>1, <3>1 DEF RecoverInv
    <2> QED
      BY <2>2, <2>3
  <1>1. CASE Tick
    <2>a. admission # "none" \/ claim.status = "none" => job.status = "none"
      BY <1>t DEF ClaimInv, HeldUnfinished
    <2>1. CASE TickReconcile
      <3>1. CASE Finished(job)
        <4>1. FinishCheckpoint(job)
          BY <2>1 DEF TickReconcile, FinishCheckpoint
        <4> QED
          BY <3>1, <4>1, <1>finish, <1>t DEF Finished, TypeOK
      <3>2. CASE ~Finished(job)
        BY <2>1, <3>2, <1>same DEF TickReconcile, Reconciled
      <3> QED
        BY <3>1, <3>2
    <2>2. CASE TickInsert \/ TickCloseClaim
      <3>1. job' = job /\ job.status = "none" /\ ~claim'.linked
        BY <2>2, <2>a DEF TickInsert, TickCloseClaim, ClaimAs
      <3> QED
        BY <3>1, <1>d, <1>closed
    <2>3. CASE TickAdoptJob
      BY <2>3, <2>a, <1>d, <1>t DEF TickAdoptJob, ClaimInv
    <2>4. CASE TickAdmit \/ TickAbandon \/ TickObserve \/ TickMerge
      BY <2>4, <1>same DEF TickAdmit, TickAbandon, TickObserve, TickMerge
    <2>5. CASE TickReclaimClosed
      <3>1. PICK status \in TerminalClaim :
               /\ \/ job.status \in TerminalJob /\ status = StatusOf[job.status]
                  \/ job.status = "none"
               /\ claim' = ClaimAs(status, job.status # "none", claim.attempt + 1, stamp + 1)
        BY <2>5 DEF TickReclaimClosed
      <3>2. claim'.status = status /\ claim'.linked = (job.status # "none") /\ job' = job
        BY <2>5, <3>1 DEF TickReclaimClosed, ClaimAs
      <3>3. CASE job.status \in TerminalJob /\ status = StatusOf[job.status]
        BY <3>2, <3>3, <1>d, <1>closed, StatusOfEnded
      <3>4. CASE job.status = "none"
        BY <3>2, <3>4, <1>d, <1>closed
      <3> QED
        BY <3>1, <3>3, <3>4
    <2>6. ASSUME NEW w \in Workers, TickCreateJob(w) \/ TickReclaim(w) PROVE RecoverInv'
      <3>1. claim'.linked /\ claim'.status = "RUNNING"
        BY <2>6 DEF TickCreateJob, TickReclaim, ClaimAs
      <3> QED
        BY <3>1, <1>d, <1>held
    <2> QED
      BY <1>1, <2>1, <2>2, <2>3, <2>4, <2>5, <2>6 DEF Tick, AdmissionStep
  <1>2. CASE LeaseExpires
    <2>1. claim'.status = claim.status /\ claim'.linked = claim.linked /\ job' = job
      BY <1>2, <1>t DEF LeaseExpires, TypeOK, ClaimRow
    <2> QED
      BY <2>1 DEF RecoverInv, Held
  <1>3. \A w \in Workers : ~CreateUnclaimedJob(w)
    BY DEF CreateUnclaimedJob
  <1>4. ASSUME NEW w \in Workers, WorkerStep(w) PROVE RecoverInv'
    <2>1. CASE UNCHANGED <<job, claim, projection>>
      BY <2>1, <1>same
    <2>2. CASE /\ job.status \in Startable
               /\ job' = [job EXCEPT !.status = "running", !.started = stamp + 1]
               /\ UNCHANGED <<claim, projection>>
      <3>1. job.status \in ActiveJob /\ job'.finished = job.finished /\ claim' = claim
        BY <2>2, <1>t DEF Startable, ActiveJob, TypeOK, JobRow
      <3> QED
        BY <3>1 DEF RecoverInv, Held
    <2>3. CASE \E j \in JobRow : FinishCheckpoint(j) /\ j.status \in TerminalJob
      BY <2>3, <1>finish
    <2> QED
      BY <1>4, <1>t, <2>1, <2>2, <2>3, WorkerStepRows
  <1>5. ASSUME NEW w \in Workers, Beat(w) PROVE RecoverInv'
    <2>1. CASE UNCHANGED claim
      BY <1>5, <2>1, <1>same DEF Beat
    <2>2. CASE Held(claim) /\ claim' = [claim EXCEPT !.status = "RUNNING"]
      <3>1. claim'.status = "RUNNING" /\ claim'.linked
        BY <2>2, <1>t DEF Held, TypeOK, ClaimRow
      <3> QED
        BY <3>1, <1>d, <1>held
    <2> QED
      BY <1>5, <2>1, <2>2 DEF Beat
  <1>6. ASSUME NEW c \in Clients, ClientStep(c) PROVE RecoverInv'
    <2>1. CASE CancelRead(c) \/ RetryRead(c) \/ CancelSignal(c)
      BY <2>1, <1>same DEF CancelRead, RetryRead, CancelSignal
    <2>2. CASE CancelWrite(c)
      <3>1. job'.status = "cancelled" /\ claim' = claim
        BY <2>2, <1>t DEF CancelWrite, TypeOK, JobRow
      <3> QED
        BY <3>1 DEF RecoverInv, ActiveJob
    <2>3. ASSUME NEW w \in Workers, RetryWrite(c, w) PROVE RecoverInv'
      <3>1. claim.linked
        BY <2>3 DEF RetryWrite, HeldUnfinished, Requested
      <3>2. CASE claim' = ClaimAs("CLAIMED", TRUE, claim.attempt + 1, 0)
        <4>1. claim'.linked /\ claim'.status = "CLAIMED"
          BY <3>2 DEF ClaimAs
        <4> QED
          BY <4>1, <1>d, <1>held
      <3>3. CASE claim' = claim /\ job'.finished # 0
        BY <3>3 DEF RecoverInv
      <3>4. CASE claim' = claim /\ claim.status \notin RetryableClaim
        BY <3>1, <3>4 DEF RecoverInv, RetryableClaim, ActiveClaim, EndedClaim
      <3> QED
        BY <2>3, <3>1, <3>2, <3>3, <3>4 DEF RetryWrite
    <2> QED
      BY <1>6, <2>1, <2>2, <2>3 DEF ClientStep
  <1>7. CASE Crash \/ UNCHANGED vars
    BY <1>7, <1>same DEF Crash, vars
  <1> QED
    BY <1>1, <1>2, <1>3, <1>4, <1>5, <1>6, <1>7 DEF Next

\* The tick finds a job that can run, after any number of crashes, cancels and retries,
\* unless a retry overwrote the moment at which it was finished meanwhile, or retried a
\* job whose success a cancel had overwritten.
RetriesFound ==
    job.status \in ActiveJob /\ job.finished = 0 /\ claim.status # "SUCCESS" =>
        Held(claim) /\ projection \notin TerminalClaim

\* Crashes and requests together lose a job in these two ways only.
THEOREM RetryRecovery ==
    ASSUME ~UnclaimedJobs
    PROVE  Spec => []RetriesFound
  <1>1. Init => HeldUnfinished /\ RecoverInv
    BY DEF Init, HeldUnfinished, RecoverInv, Requested, NoJob, NoClaim, NoRequest, Held, ActiveJob
  <1>2. /\ IInv /\ IInv' /\ HeldUnfinished /\ RecoverInv /\ [Next]_vars
        => HeldUnfinished' /\ RecoverInv'
    BY HeldUnfinishedStep, RecoverStep
  <1>3. IInv /\ RecoverInv => RetriesFound
    BY DEF IInv, ProjectionInv, RecoverInv, RetriesFound, Held
  <1> QED
    BY <1>1, <1>2, <1>3, Invariance, PTL DEF Spec
=============================================================================

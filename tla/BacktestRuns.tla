---------------------------- MODULE BacktestRuns ----------------------------
(***************************************************************************)
(* The durable backtests.  A request leaves a QUEUED run; the scheduler's  *)
(* ticks and the requests reclaim what has lost its lease, claim what is   *)
(* queued and start a thread for it.  The thread works at whatever attempt *)
(* it finds when it reads the run, renews the lease at every stage and by  *)
(* a heartbeat, and writes only while the run is RUNNING at that attempt.  *)
(*                                                                         *)
(* Ten minutes of lease against heartbeats of thirty seconds: a lease that *)
(* ends although somebody is about to renew it is counted as a mishap, one *)
(* that nobody renews ends by itself.                                      *)
(***************************************************************************)
EXTENDS Integers

CONSTANTS
    Runs,       \* the calculation keys, at most one run each
    Threads,    \* the slots of worker threads
    MaxMishaps  \* bound on the crashes, threads that die and leases that lapse too early

ASSUME BacktestAssumption == Threads \subseteq Nat /\ MaxMishaps \in Nat

VARIABLES
    rows,       \* the BacktestRun of each key
    slices,     \* the attempts whose metric slices are stored
    threads,    \* what the worker of each slot is doing
    cancels,    \* the runs that a cancel request has read and not yet written, and whether
                \* it has read a lease
    mishaps

vars == <<rows, slices, threads, cancels, mishaps>>

-----------------------------------------------------------------------------
Ended == {"COMPLETED", "INSUFFICIENT_DATA", "FAILED", "INVALIDATED", "CANCELLED"}

\* The stages of a thread from DATA_AUDIT on: LOADING, REPLAY, OUTCOME and METRICS.  It
\* writes current_stage for the eye only: nothing ever asks for it.
Loading == 1
Metrics == 4
Stages == 0 .. Metrics

\* attempt_count: nothing in the code bounds it, the mishaps do here.
Attempts == Nat \ {0}

\* lease_expires_at is set while a run is RUNNING, and is in the past if "over".  It is
\* left over on a run that was claimed after a cancel had read it and before the cancel
\* was written.  A run that nobody has asked for has no row.
Row ==
    [status: {"none", "QUEUED"} \cup Ended, attempt: Attempts, lease: {"none"}]
    \cup [status: {"RUNNING", "CANCELLED"}, attempt: Attempts, lease: {"held", "over"}]

\* claimed is the attempt the thread was started for, gen the one it works at and
\* stop its stop_event.
Thread ==
    [step: {"idle"}]
    \cup [step: {"started", "requeued"}, run: Runs, claimed: Attempts]
    \cup [step: {"begin", "check", "work"}, run: Runs, claimed: Attempts,
          gen: Attempts, stage: Stages, stop: BOOLEAN]

Idle == [step |-> "idle"]

Init ==
    /\ rows = [r \in Runs |-> [status |-> "none", attempt |-> 1, lease |-> "none"]]
    /\ slices = [r \in Runs |-> {}]
    /\ threads = [t \in Threads |-> Idle]
    /\ cancels = {}
    /\ mishaps = 0

-----------------------------------------------------------------------------
\* create_backtest_run: the key is unique, and a second request gets the first one's run.
Enqueue(r) ==
    /\ rows[r].status = "none"
    /\ rows' = [rows EXCEPT ![r].status = "QUEUED"]
    /\ UNCHANGED <<slices, threads, cancels, mishaps>>

Stale(r) == rows[r].status = "RUNNING" /\ rows[r].lease = "over"

\* reclaim_stale_backtest_runs: one commit for all of them.
Reclaim ==
    /\ \E r \in Runs : Stale(r)
    /\ rows' = [r \in Runs |->
                   IF Stale(r) THEN [status |-> "QUEUED", attempt |-> rows[r].attempt + 1,
                                     lease |-> "none"]
                   ELSE rows[r]]
    /\ UNCHANGED <<slices, threads, cancels, mishaps>>

\* Mutant: the lease is left to the thread.
ClaimedUnleased(r) ==
    rows' = [rows EXCEPT ![r] = [status |-> "RUNNING", attempt |-> rows[r].attempt,
                                 lease |-> "none"]]

Claimed(r) ==
    rows' = [rows EXCEPT ![r] = [status |-> "RUNNING", attempt |-> rows[r].attempt,
                                 lease |-> "held"]]

\* A new thread; the slots are alike, so it takes the first.
Free(t) ==
    /\ threads[t].step = "idle"
    /\ \A u \in Threads : threads[u].step = "idle" => t <= u

\* Mutant: the UPDATE does not ask for a QUEUED run.
ClaimAny(r, t) ==
    /\ rows[r].status \in {"QUEUED", "RUNNING"} /\ Free(t)
    /\ Claimed(r)
    /\ threads' = [threads EXCEPT ![t] =
                      [step |-> "started", run |-> r, claimed |-> rows[r].attempt]]
    /\ UNCHANGED <<slices, cancels, mishaps>>

\* claim_queued_backtest_run and the start of the thread.  What became of the run since
\* it was listed makes no difference to the UPDATE.
Claim(r, t) ==
    /\ rows[r].status = "QUEUED" /\ Free(t)
    /\ Claimed(r)
    /\ threads' = [threads EXCEPT ![t] =
                      [step |-> "started", run |-> r, claimed |-> rows[r].attempt]]
    /\ UNCHANGED <<slices, cancels, mishaps>>

-----------------------------------------------------------------------------
\* run_backtest_worker.
Works(t) == threads[t].step \in {"begin", "check", "work"}

Exits(t) == threads' = [threads EXCEPT ![t] = Idle]

At(t, gen) ==
    [step |-> "begin", run |-> threads[t].run, claimed |-> threads[t].claimed,
     gen |-> gen, stage |-> 0, stop |-> FALSE]

\* The thread reads the run, whoever has claimed it by then.
Read(t) ==
    /\ threads[t].step = "started"
    /\ LET row == rows[threads[t].run] IN
          \/ /\ row.status = "RUNNING"
             /\ threads' = [threads EXCEPT ![t] = At(t, row.attempt)]
          \/ /\ row.status = "QUEUED"
             /\ threads' = [threads EXCEPT ![t].step = "requeued"]
          \/ row.status \in Ended /\ Exits(t)
    /\ UNCHANGED <<rows, slices, cancels, mishaps>>

\* It was reclaimed, so the thread claims it itself.
ClaimAgain(t) ==
    /\ threads[t].step = "requeued"
    /\ LET r == threads[t].run IN
          \/ /\ rows[r].status = "QUEUED"
             /\ Claimed(r)
             /\ threads' = [threads EXCEPT ![t] = At(t, rows[r].attempt)]
          \/ /\ rows[r].status # "QUEUED"
             /\ Exits(t)
             /\ UNCHANGED rows
    /\ UNCHANGED <<slices, cancels, mishaps>>

\* Mutant: only the attempt is compared.
OwnsAttempt(t) == rows[threads[t].run].attempt = threads[t].gen

\* _cas_worker_write: the UPDATE finds the run RUNNING at the attempt of the thread.
Owns(t) ==
    /\ rows[threads[t].run].status = "RUNNING"
    /\ rows[threads[t].run].attempt = threads[t].gen

\* The thread reaches a stage; with the lease gone it leaves everything as it is.
Reaches(t, stage, step) ==
    \/ /\ Owns(t)
       /\ rows' = [rows EXCEPT ![threads[t].run].lease = "held"]
       /\ threads' = [threads EXCEPT ![t].step = step, ![t].stage = stage]
    \/ ~Owns(t) /\ Exits(t) /\ UNCHANGED rows

\* The first heartbeat and the first write of execute_backtest_run.
Begin(t) ==
    /\ threads[t].step = "begin"
    /\ Reaches(t, 0, "work")
    /\ UNCHANGED <<slices, cancels, mishaps>>

Advance(t) ==
    /\ threads[t].step = "work" /\ threads[t].stage < Metrics
    /\ Reaches(t, threads[t].stage + 1, "check")
    /\ UNCHANGED <<slices, cancels, mishaps>>

\* _stop_if_cancelled and _worker_lost_lease, once the stage is committed.
Check(t) ==
    /\ threads[t].step = "check"
    /\ \/ /\ rows[threads[t].run].status = "CANCELLED" \/ threads[t].stop
          /\ Exits(t)
       \/ /\ rows[threads[t].run].status # "CANCELLED" /\ ~threads[t].stop
          /\ threads' = [threads EXCEPT ![t].step = "work"]
    /\ UNCHANGED <<rows, slices, cancels, mishaps>>

\* Mutant: the lease outlives the run.
EndsLeased(t, status) ==
    rows' = [rows EXCEPT ![threads[t].run].status = status]

EndsAs(t, status) ==
    rows' = [rows EXCEPT ![threads[t].run] =
                [status |-> status, attempt |-> rows[threads[t].run].attempt,
                 lease |-> "none"]]

\* Mutant: the slices are committed before the final state is.
FinishEarly(t) ==
    /\ threads[t].step = "work" /\ threads[t].stage = Metrics
    /\ \/ /\ Owns(t)
          /\ \E status \in {"COMPLETED", "INSUFFICIENT_DATA"} : EndsAs(t, status)
       \/ ~Owns(t) /\ UNCHANGED rows
    /\ slices' = [slices EXCEPT ![threads[t].run] = @ \cup {threads[t].gen}]
    /\ Exits(t)
    /\ UNCHANGED <<cancels, mishaps>>

\* The slices and the final state are one commit.
Finish(t) ==
    /\ threads[t].step = "work" /\ threads[t].stage = Metrics
    /\ \/ /\ Owns(t)
          /\ \E status \in {"COMPLETED", "INSUFFICIENT_DATA"} : EndsAs(t, status)
          /\ slices' = [slices EXCEPT ![threads[t].run] = @ \cup {threads[t].gen}]
       \/ ~Owns(t) /\ UNCHANGED <<rows, slices>>
    /\ Exits(t)
    /\ UNCHANGED <<cancels, mishaps>>

\* The sources have changed since the run was created, their quality is insufficient,
\* or an exception is recorded.
GiveUp(t) ==
    /\ threads[t].step = "work"
    /\ \/ /\ Owns(t)
          /\ \E status \in {"INVALIDATED", "INSUFFICIENT_DATA", "FAILED"} :
                /\ status # "FAILED" => threads[t].stage = Loading
                /\ EndsAs(t, status)
       \/ ~Owns(t) /\ UNCHANGED rows
    /\ Exits(t)
    /\ UNCHANGED <<slices, cancels, mishaps>>

\* _server_backtest_heartbeat, until stop_event is set.
Heartbeat(t) ==
    /\ threads[t].step \in {"check", "work"} /\ ~threads[t].stop
    /\ \/ /\ Owns(t)
          /\ rows' = [rows EXCEPT ![threads[t].run].lease = "held"]
          /\ UNCHANGED threads
       \/ /\ ~Owns(t)
          /\ threads' = [threads EXCEPT ![t].stop = TRUE]
          /\ UNCHANGED rows
    /\ UNCHANGED <<slices, cancels, mishaps>>

\* One exception ends the heartbeat, and the thread stops at its next check.
HeartbeatFails(t) ==
    /\ threads[t].step \in {"check", "work"} /\ ~threads[t].stop /\ mishaps < MaxMishaps
    /\ threads' = [threads EXCEPT ![t].stop = TRUE]
    /\ mishaps' = mishaps + 1
    /\ UNCHANGED <<rows, slices, cancels>>

\* An exception that cannot be recorded either.
Dies(t) ==
    /\ threads[t].step # "idle" /\ mishaps < MaxMishaps
    /\ Exits(t)
    /\ mishaps' = mishaps + 1
    /\ UNCHANGED <<rows, slices, cancels>>

-----------------------------------------------------------------------------
\* cancel_backtest_run.  INVALIDATED is not among the states it leaves alone.
CancelReads(r) ==
    /\ rows[r].status \in {"QUEUED", "RUNNING", "INVALIDATED"}
    /\ cancels' = cancels \cup {<<r, rows[r].lease # "none">>}
    /\ UNCHANGED <<rows, slices, threads, mishaps>>

\* The row was not locked, and it is written whatever it says by now; but the session
\* writes only what it has changed, and no lease over none is no change.
CancelWrites(r) ==
    /\ \E leased \in BOOLEAN :
          /\ <<r, leased>> \in cancels
          /\ rows' = [rows EXCEPT ![r] = [status |-> "CANCELLED", attempt |-> rows[r].attempt,
                                          lease |-> IF leased THEN "none" ELSE rows[r].lease]]
          /\ cancels' = cancels \ {<<r, leased>>}
    /\ UNCHANGED <<slices, threads, mishaps>>

\* Somebody is there to renew the lease.
Attended(r) ==
    /\ rows[r].status = "RUNNING"
    /\ \E t \in Threads :
          \/ threads[t].step \in {"started", "requeued"} /\ threads[t].run = r
          \/ Works(t) /\ threads[t].run = r /\ threads[t].gen = rows[r].attempt

\* The lease ends.
Lapse(r) ==
    /\ rows[r].lease = "held"
    /\ \/ ~Attended(r) /\ UNCHANGED mishaps
       \/ Attended(r) /\ mishaps < MaxMishaps /\ mishaps' = mishaps + 1
    /\ rows' = [rows EXCEPT ![r].lease = "over"]
    /\ UNCHANGED <<slices, threads, cancels>>

\* The process dies and starts again.
Crash ==
    /\ mishaps < MaxMishaps
    /\ threads' = [t \in Threads |-> Idle]
    /\ cancels' = {}
    /\ mishaps' = mishaps + 1
    /\ UNCHANGED <<rows, slices>>

Work(t) ==
    \/ Read(t) \/ ClaimAgain(t) \/ Begin(t) \/ Advance(t) \/ Check(t)
    \/ Finish(t) \/ GiveUp(t)

Next ==
    \/ \E t \in Threads : Work(t) \/ Heartbeat(t) \/ HeartbeatFails(t) \/ Dies(t)
    \/ \E r \in Runs :
          \/ Enqueue(r) \/ CancelReads(r) \/ CancelWrites(r) \/ Lapse(r)
          \/ \E t \in Threads : Claim(r, t)
    \/ Reclaim \/ Crash

Spec == Init /\ [][Next]_vars

\* The scheduler ticks, threads go on, and time passes.
FairSpec ==
    /\ Spec
    /\ WF_vars(Reclaim)
    /\ \A r \in Runs : WF_vars(\E t \in Threads : Claim(r, t)) /\ WF_vars(~Attended(r) /\ Lapse(r))
    /\ \A t \in Threads : WF_vars(Work(t))

-----------------------------------------------------------------------------
TypeOK ==
    /\ rows \in [Runs -> Row]
    /\ slices \in [Runs -> SUBSET Attempts]
    /\ threads \in [Threads -> Thread]
    /\ cancels \subseteq Runs \X BOOLEAN
    /\ mishaps \in 0 .. MaxMishaps

\* A thread started for an attempt that was lost before it read the run.
Late(t) == Works(t) /\ threads[t].claimed < threads[t].gen

\* The claim keeps two ticks from dispatching one attempt twice: two threads work at the
\* same attempt only if one of them was started for an earlier one, and was late.
OneWorkerPerAttempt ==
    \A t, u \in Threads :
        t # u /\ Works(t) /\ Works(u) /\ threads[t].run = threads[u].run
              /\ threads[t].gen = threads[u].gen => Late(t) \/ Late(u)

\* Only a cancel that has read the run before takes it out of a final state.
FinalUnlessCancelled ==
    [][\A r \in Runs :
          rows[r].status \in Ended /\ rows'[r].status # rows[r].status =>
              (\E leased \in BOOLEAN : <<r, leased>> \in cancels) /\ rows'[r].status = "CANCELLED"]_vars

\* The stored slices are those of one attempt, the last one.
Results == INSTANCE RunResults WITH
    attempt <- [r \in Runs |-> rows[r].attempt], result <- slices

ResultSpec == Results!Spec

\* A run that is queued comes to its end, after crashes and lost leases too.
Ends ==
    \A r \in Runs : rows[r].status = "QUEUED" ~> rows[r].status \in Ended
=============================================================================

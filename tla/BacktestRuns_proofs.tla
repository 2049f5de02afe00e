------------------------- MODULE BacktestRuns_proofs -------------------------
(* The safety properties of BacktestRuns, for any number of runs, threads    *)
(* and mishaps, and its refinement of RunResults.                            *)
EXTENDS BacktestRuns, TLAPS

-----------------------------------------------------------------------------
(* The inductive invariant.                                                  *)

\* A thread is started once per attempt, and never for an attempt still to come.
StartedOnce ==
    /\ \A t \in Threads : threads[t].step # "idle" =>
          threads[t].claimed <= rows[threads[t].run].attempt
    /\ \A t \in Threads : threads[t].step # "idle"
             /\ rows[threads[t].run].status \in {"none", "QUEUED"} =>
          threads[t].claimed < rows[threads[t].run].attempt
    /\ \A t, u \in Threads :
          t # u /\ threads[t].step # "idle" /\ threads[u].step # "idle"
              /\ threads[t].run = threads[u].run => threads[t].claimed # threads[u].claimed
    /\ \A t \in Threads : Works(t) =>
          /\ threads[t].claimed <= threads[t].gen
          /\ threads[t].gen <= rows[threads[t].run].attempt

\* Slices are those of the last attempt at a run that has ended.
ResultInv ==
    \A r \in Runs : slices[r] # {} => rows[r].status \in Ended /\ slices[r] = {rows[r].attempt}

IInv == TypeOK /\ StartedOnce /\ ResultInv

-----------------------------------------------------------------------------
(* What rows and threads are made of.                                        *)

\* The rows that the operations write.
LEMMA Rows ==
    /\ \A row \in Row : row.status \in {"none", "QUEUED", "RUNNING"} \cup Ended /\ row.attempt \in Attempts
          /\ row.lease \in {"none", "held", "over"}
    /\ \A row \in Row : row.lease # "none" => row.status \in {"RUNNING", "CANCELLED"}
    /\ \A s \in {"none", "QUEUED"} \cup Ended, n \in Attempts :
          [status |-> s, attempt |-> n, lease |-> "none"] \in Row
    /\ \A l \in {"held", "over"}, n \in Attempts :
          /\ [status |-> "RUNNING", attempt |-> n, lease |-> l] \in Row
          /\ [status |-> "CANCELLED", attempt |-> n, lease |-> l] \in Row
  BY DEF Row, Ended

\* DATA_AUDIT is a stage.
LEMMA FirstStage == 0 \in Stages
  BY DEF Stages, Metrics

\* A row whose lease is renewed or ends.
LEMMA LeasedRow ==
    ASSUME NEW row \in Row, row.status = "RUNNING" \/ row.lease = "held", NEW l \in {"held", "over"}
    PROVE  [row EXCEPT !.lease = l] \in Row
  BY DEF Row, Ended

\* A run that is asked for.
LEMMA QueuedRow ==
    ASSUME NEW row \in Row, row.status = "none"
    PROVE  /\ [row EXCEPT !.status = "QUEUED"] \in Row
           /\ [row EXCEPT !.status = "QUEUED"].attempt = row.attempt
           /\ [row EXCEPT !.status = "QUEUED"].status = "QUEUED"
  BY DEF Row, Ended

\* The fields of a thread at each step.
LEMMA ThreadFields ==
    ASSUME NEW thread \in Thread
    PROVE  /\ thread.step \in {"idle", "started", "requeued", "begin", "check", "work"}
           /\ thread.step # "idle" => thread.run \in Runs /\ thread.claimed \in Attempts
           /\ thread.step \in {"begin", "check", "work"} =>
                 thread.gen \in Attempts /\ thread.stage \in Stages /\ thread.stop \in BOOLEAN
  BY DEF Thread

\* The threads that the operations make.
LEMMA ThreadRows ==
    /\ Idle \in Thread /\ Idle.step = "idle"
    /\ \A r \in Runs, n \in Attempts : [step |-> "started", run |-> r, claimed |-> n] \in Thread
    /\ \A t \in Threads, n \in Attempts :
          threads \in [Threads -> Thread] /\ threads[t].step # "idle" => At(t, n) \in Thread
  BY DEF Thread, Idle, At, Stages, Metrics

\* A thread that goes on.
LEMMA ThreadSteps ==
    ASSUME NEW thread \in Thread
    PROVE  /\ thread.step = "started" => [thread EXCEPT !.step = "requeued"] \in Thread
           /\ thread.step \in {"begin", "check", "work"} =>
                 \A s \in {"check", "work"} :
                    /\ [thread EXCEPT !.step = s] \in Thread
                    /\ \A g \in Stages : [thread EXCEPT !.step = s, !.stage = g] \in Thread
           /\ thread.step \in {"begin", "check", "work"} => [thread EXCEPT !.stop = TRUE] \in Thread
  BY DEF Thread

-----------------------------------------------------------------------------
(* Type correctness.                                                         *)

\* The invariant holds initially.
LEMMA InitInv == Init => IInv
  <1> SUFFICES ASSUME Init PROVE IInv
    OBVIOUS
  <1>1. TypeOK
    <2>1. rows \in [Runs -> Row]
      <3>1. 1 \in Attempts
        BY DEF Attempts
      <3> QED
        BY <3>1, Rows DEF Init
    <2>2. threads \in [Threads -> Thread]
      BY ThreadRows DEF Init
    <2> QED
      BY <2>1, <2>2, BacktestAssumption DEF Init, TypeOK
  <1>2. StartedOnce
    BY ThreadRows DEF Init, StartedOnce, Works
  <1>3. ResultInv
    BY DEF Init, ResultInv
  <1> QED
    BY <1>1, <1>2, <1>3 DEF IInv

\* A thread that begins, goes on or exits is a thread, and no other one changes.
LEMMA ThreadTypes ==
    ASSUME TypeOK, NEW t \in Threads, NEW thread \in Thread,
           threads' = [threads EXCEPT ![t] = thread]
    PROVE  threads' \in [Threads -> Thread]
  BY DEF TypeOK

\* A row that is written is a row, and no other one changes.
LEMMA RowTypes ==
    ASSUME TypeOK, NEW r \in Runs, NEW row \in Row, rows' = [rows EXCEPT ![r] = row]
    PROVE  rows' \in [Runs -> Row]
  BY DEF TypeOK

\* Claiming a run writes a row.
LEMMA ClaimedTypes ==
    ASSUME TypeOK, NEW r \in Runs, Claimed(r)
    PROVE  rows' \in [Runs -> Row]
  <1>1. [status |-> "RUNNING", attempt |-> rows[r].attempt, lease |-> "held"] \in Row
    BY Rows DEF TypeOK
  <1> QED
    BY <1>1, RowTypes DEF Claimed

\* The run of a thread that is not idle is one of the runs.
LEMMA RunOf ==
    ASSUME TypeOK, NEW t \in Threads, threads[t].step # "idle"
    PROVE  threads[t].run \in Runs /\ rows[threads[t].run] \in Row /\ threads[t].claimed \in Attempts
  BY ThreadFields DEF TypeOK

\* Reaching a stage keeps the types.
LEMMA ReachesTypes ==
    ASSUME TypeOK, NEW t \in Threads, Works(t), NEW g \in Stages, NEW s \in {"check", "work"},
           Reaches(t, g, s)
    PROVE  rows' \in [Runs -> Row] /\ threads' \in [Threads -> Thread]
  <1>1. threads[t] \in Thread /\ threads[t].run \in Runs /\ rows[threads[t].run] \in Row
    BY RunOf DEF TypeOK, Works
  <1>2. CASE Owns(t) /\ rows' = [rows EXCEPT ![threads[t].run].lease = "held"]
                     /\ threads' = [threads EXCEPT ![t].step = s, ![t].stage = g]
    <2> DEFINE row == [rows[threads[t].run] EXCEPT !.lease = "held"]
               thread == [threads[t] EXCEPT !.step = s, !.stage = g]
    <2>1. row \in Row
      BY <1>1, <1>2, LeasedRow DEF Owns
    <2>2. thread \in Thread
      BY <1>1, ThreadSteps DEF Works
    <2>3. rows' = [rows EXCEPT ![threads[t].run] = row]
      BY <1>1, <1>2 DEF TypeOK
    <2>4. threads' = [threads EXCEPT ![t] = thread]
      BY <1>2 DEF TypeOK
    <2> HIDE DEF row, thread
    <2> QED
      BY <1>1, <2>1, <2>2, <2>3, <2>4, RowTypes, ThreadTypes
  <1>3. CASE Exits(t) /\ UNCHANGED rows
    BY <1>3, ThreadRows, ThreadTypes DEF Exits, TypeOK
  <1> QED
    BY <1>2, <1>3 DEF Reaches

\* Ending a run writes a row.
LEMMA EndsTypes ==
    ASSUME TypeOK, NEW t \in Threads, Works(t), NEW s \in Ended, EndsAs(t, s)
    PROVE  rows' \in [Runs -> Row]
  <1>1. threads[t].run \in Runs /\ rows[threads[t].run] \in Row
    BY RunOf DEF Works
  <1>2. [status |-> s, attempt |-> rows[threads[t].run].attempt, lease |-> "none"] \in Row
    BY <1>1, Rows
  <1> QED
    BY <1>1, <1>2, RowTypes DEF EndsAs

\* Leaving a thread's slot keeps the types of the threads.
LEMMA ExitsTypes ==
    ASSUME TypeOK, NEW t \in Threads, Exits(t)
    PROVE  threads' \in [Threads -> Thread]
  BY ThreadRows, ThreadTypes DEF Exits

\* Every step of a thread keeps the types.
LEMMA WorkTypes ==
    ASSUME TypeOK, NEW t \in Threads, Work(t)
    PROVE  TypeOK'
  <1> USE DEF Stages, Metrics
  <1>1. CASE Read(t)
    <2>1. threads[t] \in Thread /\ threads[t].run \in Runs /\ rows[threads[t].run] \in Row
      BY <1>1, RunOf DEF Read, TypeOK
    <2>2. At(t, rows[threads[t].run].attempt) \in Thread
      BY <1>1, <2>1, Rows, ThreadRows DEF Read, TypeOK
    <2>3. [threads[t] EXCEPT !.step = "requeued"] \in Thread
      BY <1>1, <2>1, ThreadSteps DEF Read
    <2>4. threads' \in [Threads -> Thread]
      BY <1>1, <2>2, <2>3, ThreadTypes, ExitsTypes DEF Read, TypeOK
    <2> QED
      BY <1>1, <2>4 DEF Read, TypeOK
  <1>2. CASE ClaimAgain(t)
    <2>1. threads[t].run \in Runs /\ rows[threads[t].run] \in Row
      BY <1>2, RunOf DEF ClaimAgain
    <2>2. At(t, rows[threads[t].run].attempt) \in Thread
      BY <1>2, <2>1, Rows, ThreadRows DEF ClaimAgain, TypeOK
    <2>3. rows' \in [Runs -> Row] /\ threads' \in [Threads -> Thread]
      BY <1>2, <2>1, <2>2, ThreadTypes, ExitsTypes, ClaimedTypes DEF ClaimAgain, TypeOK
    <2> QED
      BY <1>2, <2>3 DEF ClaimAgain, TypeOK
  <1>3. CASE Begin(t)
    <2>1. rows' \in [Runs -> Row] /\ threads' \in [Threads -> Thread]
      BY <1>3, ReachesTypes DEF Begin, Works
    <2> QED
      BY <1>3, <2>1 DEF Begin, TypeOK
  <1>4. CASE Advance(t)
    <2>1. threads[t].stage \in Stages
      BY <1>4, ThreadFields DEF Advance, TypeOK
    <2>2. threads[t].stage + 1 \in Stages
      BY <1>4, <2>1 DEF Advance
    <2>3. rows' \in [Runs -> Row] /\ threads' \in [Threads -> Thread]
      BY <1>4, <2>2, ReachesTypes DEF Advance, Works
    <2> QED
      BY <1>4, <2>3 DEF Advance, TypeOK
  <1>5. CASE Check(t)
    <2>1. [threads[t] EXCEPT !.step = "work"] \in Thread
      BY <1>5, ThreadSteps DEF Check, TypeOK
    <2>2. threads' \in [Threads -> Thread]
      BY <1>5, <2>1, ThreadTypes, ExitsTypes DEF Check, TypeOK
    <2> QED
      BY <1>5, <2>2 DEF Check, TypeOK
  <1>6. CASE Finish(t)
    <2>1. rows' \in [Runs -> Row] /\ threads' \in [Threads -> Thread]
      BY <1>6, EndsTypes, ExitsTypes DEF Finish, TypeOK, Works, Ended
    <2>2. slices' \in [Runs -> SUBSET Attempts]
      <3>1. threads[t].run \in Runs /\ threads[t].gen \in Attempts
        BY <1>6, ThreadFields DEF Finish, TypeOK
      <3>2. slices[threads[t].run] \cup {threads[t].gen} \in SUBSET Attempts
        BY <3>1 DEF TypeOK
      <3> QED
        BY <1>6, <3>1, <3>2 DEF Finish, TypeOK
    <2> QED
      BY <1>6, <2>1, <2>2 DEF Finish, TypeOK
  <1>7. CASE GiveUp(t)
    <2>1. rows' \in [Runs -> Row] /\ threads' \in [Threads -> Thread]
      BY <1>7, EndsTypes, ExitsTypes DEF GiveUp, TypeOK, Works, Ended
    <2> QED
      BY <1>7, <2>1 DEF GiveUp, TypeOK
  <1> QED
    BY <1>1, <1>2, <1>3, <1>4, <1>5, <1>6, <1>7 DEF Work

\* Every step keeps the types.
LEMMA TypeStep == TypeOK /\ [Next]_vars => TypeOK'
  <1> SUFFICES ASSUME TypeOK, [Next]_vars PROVE TypeOK'
    OBVIOUS
  <1> USE BacktestAssumption
  <1>1. ASSUME NEW t \in Threads, Work(t) PROVE TypeOK'
    BY <1>1, WorkTypes
  <1>2. ASSUME NEW t \in Threads, Heartbeat(t) PROVE TypeOK'
    <2>1. threads[t].run \in Runs /\ rows[threads[t].run] \in Row
      BY <1>2, RunOf DEF Heartbeat
    <2>2. CASE Owns(t) /\ rows' = [rows EXCEPT ![threads[t].run].lease = "held"] /\ UNCHANGED threads
      <3> DEFINE row == [rows[threads[t].run] EXCEPT !.lease = "held"]
      <3>1. row \in Row
        BY <2>1, <2>2, LeasedRow DEF Owns
      <3>2. rows' = [rows EXCEPT ![threads[t].run] = row]
        BY <2>1, <2>2 DEF TypeOK
      <3> HIDE DEF row
      <3> QED
        BY <1>2, <2>1, <2>2, <3>1, <3>2, RowTypes DEF Heartbeat, TypeOK
    <2>3. CASE threads' = [threads EXCEPT ![t].stop = TRUE] /\ UNCHANGED rows
      <3>1. [threads[t] EXCEPT !.stop = TRUE] \in Thread
        BY <1>2, ThreadSteps DEF Heartbeat, TypeOK
      <3> QED
        BY <1>2, <2>3, <3>1, ThreadTypes DEF Heartbeat, TypeOK
    <2> QED
      BY <1>2, <2>2, <2>3 DEF Heartbeat
  <1>3. ASSUME NEW t \in Threads, HeartbeatFails(t) PROVE TypeOK'
    <2>1. [threads[t] EXCEPT !.stop = TRUE] \in Thread
      BY <1>3, ThreadSteps DEF HeartbeatFails, TypeOK
    <2> QED
      BY <1>3, <2>1, ThreadTypes DEF HeartbeatFails, TypeOK
  <1>4. ASSUME NEW t \in Threads, Dies(t) PROVE TypeOK'
    BY <1>4, ExitsTypes DEF Dies, TypeOK
  <1>5. ASSUME NEW r \in Runs, Enqueue(r) PROVE TypeOK'
    <2> DEFINE row == [rows[r] EXCEPT !.status = "QUEUED"]
    <2>1. row \in Row
      BY <1>5, QueuedRow DEF Enqueue, TypeOK
    <2>2. rows' = [rows EXCEPT ![r] = row]
      BY <1>5 DEF Enqueue, TypeOK
    <2> HIDE DEF row
    <2> QED
      BY <1>5, <2>1, <2>2, RowTypes DEF Enqueue, TypeOK
  <1>6. ASSUME NEW r \in Runs, NEW t \in Threads, Claim(r, t) PROVE TypeOK'
    <2>1. [step |-> "started", run |-> r, claimed |-> rows[r].attempt] \in Thread
      BY ThreadRows, Rows DEF TypeOK
    <2> QED
      BY <1>6, <2>1, ThreadTypes, ClaimedTypes DEF Claim, TypeOK
  <1>7. ASSUME NEW r \in Runs, CancelReads(r) PROVE TypeOK'
    <2>1. <<r, rows[r].lease # "none">> \in Runs \X BOOLEAN
      OBVIOUS
    <2>2. cancels' \subseteq Runs \X BOOLEAN
      BY <1>7, <2>1, Zenon DEF CancelReads, TypeOK
    <2> QED
      BY <1>7, <2>2 DEF CancelReads, TypeOK
  <1>8. ASSUME NEW r \in Runs, CancelWrites(r) PROVE TypeOK'
    <2>1. PICK leased \in BOOLEAN :
             /\ rows' = [rows EXCEPT ![r] = [status |-> "CANCELLED", attempt |-> rows[r].attempt,
                                             lease |-> IF leased THEN "none" ELSE rows[r].lease]]
             /\ cancels' = cancels \ {<<r, leased>>}
      BY <1>8 DEF CancelWrites
    <2>2. [status |-> "CANCELLED", attempt |-> rows[r].attempt,
           lease |-> IF leased THEN "none" ELSE rows[r].lease] \in Row
      BY Rows DEF TypeOK, Ended
    <2>3. rows' \in [Runs -> Row]
      BY <2>1, <2>2, RowTypes
    <2> QED
      BY <1>8, <2>1, <2>3 DEF CancelWrites, TypeOK
  <1>9. ASSUME NEW r \in Runs, Lapse(r) PROVE TypeOK'
    <2> DEFINE row == [rows[r] EXCEPT !.lease = "over"]
    <2>1. row \in Row
      BY <1>9, LeasedRow DEF Lapse, TypeOK
    <2>2. rows' = [rows EXCEPT ![r] = row]
      BY <1>9 DEF Lapse, TypeOK
    <2> HIDE DEF row
    <2> QED
      BY <1>9, <2>1, <2>2, RowTypes DEF Lapse, TypeOK
  <1>10. ASSUME Reclaim PROVE TypeOK'
    <2>1. \A r \in Runs : [status |-> "QUEUED", attempt |-> rows[r].attempt + 1,
                           lease |-> "none"] \in Row
      <3>1. \A n \in Attempts : n + 1 \in Attempts
        BY DEF Attempts
      <3> QED
        BY <3>1, Rows DEF TypeOK
    <2> QED
      BY <1>10, <2>1 DEF Reclaim, TypeOK
  <1>11. ASSUME Crash PROVE TypeOK'
    BY <1>11, ThreadRows DEF Crash, TypeOK
  <1>12. CASE UNCHANGED vars
    BY <1>12 DEF vars, TypeOK
  <1> QED
    BY <1>1, <1>2, <1>3, <1>4, <1>5, <1>6, <1>7, <1>8, <1>9, <1>10, <1>11, <1>12 DEF Next

-----------------------------------------------------------------------------
(* No thread is started twice for an attempt.                                *)

\* What a step that starts no thread does: attempts only grow, a run is queued again
\* only at a new attempt, and a thread that goes on does so for the same run.
Continues ==
    /\ \A r \in Runs :
          /\ rows'[r].attempt >= rows[r].attempt
          /\ rows'[r].status \in {"none", "QUEUED"} =>
                rows[r].status \in {"none", "QUEUED"} \/ rows'[r].attempt > rows[r].attempt
    /\ \A t \in Threads : threads'[t].step # "idle" =>
          /\ threads[t].step # "idle"
          /\ threads'[t].run = threads[t].run
          /\ threads'[t].claimed = threads[t].claimed
          /\ threads'[t].step \in {"begin", "check", "work"} =>
                \/ Works(t) /\ threads'[t].gen = threads[t].gen
                \/ threads'[t].gen = rows'[threads[t].run].attempt

\* Such a step keeps the invariant.
LEMMA ContinuesStarted ==
    ASSUME TypeOK, TypeOK', StartedOnce, Continues
    PROVE  StartedOnce'
  <1> DEFINE Live(t) == threads'[t].step # "idle"
  <1>1. \A t \in Threads : Live(t) =>
           /\ threads[t].run \in Runs
           /\ rows[threads[t].run].attempt \in Nat /\ rows'[threads[t].run].attempt \in Nat
           /\ threads[t].claimed \in Nat
           /\ Works(t) => threads[t].gen \in Nat
    BY ThreadFields, Rows DEF Continues, TypeOK, Works, Attempts
  <1>2. \A t \in Threads : Live(t) =>
           /\ threads'[t].claimed <= rows'[threads'[t].run].attempt
           /\ rows'[threads'[t].run].status \in {"none", "QUEUED"} =>
                 threads'[t].claimed < rows'[threads'[t].run].attempt
    BY <1>1 DEF Continues, StartedOnce
  <1>3. \A t, u \in Threads : t # u /\ Live(t) /\ Live(u) /\ threads'[t].run = threads'[u].run =>
           threads'[t].claimed # threads'[u].claimed
    BY DEF Continues, StartedOnce
  <1>4. \A t \in Threads : threads'[t].step \in {"begin", "check", "work"} =>
           /\ threads'[t].claimed <= threads'[t].gen
           /\ threads'[t].gen <= rows'[threads'[t].run].attempt
    BY <1>1, <1>2 DEF Continues, StartedOnce, Works
  <1> QED
    BY <1>2, <1>3, <1>4 DEF StartedOnce, Works

\* A thread that exits continues nothing.
LEMMA ExitsContinues ==
    ASSUME TypeOK, NEW t \in Threads, Exits(t),
           \A r \in Runs : /\ rows'[r].attempt = rows[r].attempt
                           /\ rows'[r].status = rows[r].status \/ rows'[r].status \in Ended
    PROVE  Continues
  <1>1. \A u \in Threads : threads'[u].step # "idle" => threads'[u] = threads[u]
    BY ThreadRows DEF Exits, TypeOK
  <1>2. \A r \in Runs : rows[r].attempt \in Nat
    BY Rows DEF TypeOK, Attempts
  <1> QED
    BY <1>1, <1>2 DEF Continues, Works, Ended

\* Reaching a stage continues.
LEMMA ReachesContinues ==
    ASSUME TypeOK, NEW t \in Threads, Works(t), NEW g \in Stages, NEW s \in {"check", "work"},
           Reaches(t, g, s)
    PROVE  Continues
  <1>1. \A r \in Runs : rows[r].attempt \in Nat
    BY Rows DEF TypeOK, Attempts
  <1>2. CASE Owns(t) /\ rows' = [rows EXCEPT ![threads[t].run].lease = "held"]
                     /\ threads' = [threads EXCEPT ![t].step = s, ![t].stage = g]
    <2>1. \A r \in Runs : rows'[r].attempt = rows[r].attempt /\ rows'[r].status = rows[r].status
      BY <1>2, Rows DEF TypeOK
    <2>2. \A u \in Threads : /\ threads'[u].step # "idle" => threads[u].step # "idle"
                             /\ threads'[u].run = threads[u].run
                             /\ threads'[u].claimed = threads[u].claimed
                             /\ threads'[u].gen = threads[u].gen
                             /\ threads'[u].step \in {"begin", "check", "work"} => Works(u)
      BY <1>2 DEF TypeOK, Works
    <2> QED
      BY <1>1, <2>1, <2>2 DEF Continues
  <1>3. CASE Exits(t) /\ UNCHANGED rows
    BY <1>3, ExitsContinues
  <1> QED
    BY <1>2, <1>3 DEF Reaches

\* Claiming changes neither the attempt nor, of another run, the status.
LEMMA ClaimedContinues ==
    ASSUME TypeOK, NEW r \in Runs, Claimed(r), rows[r].status = "QUEUED"
    PROVE  \A q \in Runs : /\ rows'[q].attempt = rows[q].attempt
                           /\ rows'[q].status = IF q = r THEN "RUNNING" ELSE rows[q].status
  BY DEF Claimed, TypeOK

\* A thread that reads the run works at the attempt it has read.
LEMMA AtContinues ==
    ASSUME TypeOK, NEW t \in Threads, threads[t].step \in {"started", "requeued"},
           threads' = [threads EXCEPT ![t] = At(t, rows[threads[t].run].attempt)],
           \A r \in Runs : /\ rows'[r].attempt = rows[r].attempt
                           /\ rows'[r].status \in {rows[r].status, "RUNNING"}
    PROVE  Continues
  <1>1. \A r \in Runs : rows[r].attempt \in Nat
    BY Rows DEF TypeOK, Attempts
  <1>2. threads[t].run \in Runs
    BY RunOf
  <1>3. \A u \in Threads \ {t} : threads'[u] = threads[u]
    BY DEF TypeOK
  <1>4. threads'[t] = At(t, rows[threads[t].run].attempt)
    BY DEF TypeOK
  <1> QED
    BY <1>1, <1>2, <1>3, <1>4 DEF Continues, At, Works

\* Every step of a thread continues.
LEMMA WorkContinues ==
    ASSUME TypeOK, NEW t \in Threads, Work(t)
    PROVE  Continues
  <1>0. \A r \in Runs : rows[r].attempt \in Nat
    BY Rows DEF TypeOK, Attempts
  <1>1. CASE Read(t)
    <2>1. CASE threads' = [threads EXCEPT ![t] = At(t, rows[threads[t].run].attempt)]
      BY <1>1, <2>1, AtContinues DEF Read
    <2>2. CASE threads' = [threads EXCEPT ![t].step = "requeued"]
      BY <1>0, <1>1, <2>2 DEF Read, Continues, TypeOK, Works
    <2>3. CASE Exits(t)
      BY <1>1, <2>3, ExitsContinues DEF Read
    <2> QED
      BY <1>1, <2>1, <2>2, <2>3 DEF Read
  <1>2. CASE ClaimAgain(t)
    <2>1. threads[t].run \in Runs
      BY <1>2, RunOf DEF ClaimAgain
    <2>2. CASE /\ rows[threads[t].run].status = "QUEUED" /\ Claimed(threads[t].run)
               /\ threads' = [threads EXCEPT ![t] = At(t, rows[threads[t].run].attempt)]
      BY <1>2, <2>1, <2>2, ClaimedContinues, AtContinues DEF ClaimAgain
    <2>3. CASE Exits(t) /\ UNCHANGED rows
      BY <2>3, ExitsContinues
    <2> QED
      BY <1>2, <2>2, <2>3 DEF ClaimAgain
  <1>3. CASE Begin(t)
    BY <1>3, ReachesContinues, FirstStage DEF Begin, Works
  <1>4. CASE Advance(t)
    <2>1. threads[t].stage \in Stages
      BY <1>4, ThreadFields DEF Advance, TypeOK
    <2>2. threads[t].stage + 1 \in Stages
      BY <1>4, <2>1 DEF Advance, Stages, Metrics
    <2> QED
      BY <1>4, <2>2, ReachesContinues DEF Advance, Works
  <1>5. CASE Check(t)
    <2>1. CASE threads' = [threads EXCEPT ![t].step = "work"]
      BY <1>0, <1>5, <2>1 DEF Check, Continues, TypeOK, Works
    <2>2. CASE Exits(t)
      BY <1>5, <2>2, ExitsContinues DEF Check
    <2> QED
      BY <1>5, <2>1, <2>2 DEF Check
  <1>6. ASSUME Works(t), Exits(t), UNCHANGED rows \/ \E s \in Ended : EndsAs(t, s)
        PROVE  Continues
    <2>1. threads[t].run \in Runs
      BY <1>6, RunOf DEF Works
    <2>2. \A r \in Runs : /\ rows'[r].attempt = rows[r].attempt
                          /\ rows'[r].status = rows[r].status \/ rows'[r].status \in Ended
      <3>1. CASE UNCHANGED rows
        BY <3>1
      <3>2. ASSUME NEW s \in Ended, EndsAs(t, s)
            PROVE  \A r \in Runs : /\ rows'[r].attempt = rows[r].attempt
                                   /\ rows'[r].status = rows[r].status \/ rows'[r].status \in Ended
        BY <2>1, <3>2 DEF EndsAs, TypeOK
      <3> QED
        BY <1>6, <3>1, <3>2
    <2> QED
      BY <1>6, <2>2, ExitsContinues
  <1>7. CASE Finish(t)
    BY <1>6, <1>7 DEF Finish, Works, Ended
  <1>8. CASE GiveUp(t)
    BY <1>6, <1>8 DEF GiveUp, Works, Ended
  <1> QED
    BY <1>1, <1>2, <1>3, <1>4, <1>5, <1>7, <1>8 DEF Work

\* A claim is the first and the last one of its attempt.
LEMMA ClaimStarted ==
    ASSUME TypeOK, StartedOnce, NEW r \in Runs, NEW t \in Threads, Claim(r, t)
    PROVE  StartedOnce'
  <1>1. /\ \A u \in Threads \ {t} : threads'[u] = threads[u]
        /\ threads'[t] = [step |-> "started", run |-> r, claimed |-> rows[r].attempt]
    BY DEF Claim, TypeOK
  <1>2. \A q \in Runs : /\ rows'[q].attempt = rows[q].attempt
                        /\ rows'[q].status = IF q = r THEN "RUNNING" ELSE rows[q].status
    BY ClaimedContinues DEF Claim
  <1>3. rows[r].attempt \in Nat /\ rows[r].status = "QUEUED"
    BY Rows DEF Claim, TypeOK, Attempts
  <1>4. \A u \in Threads : threads[u].step # "idle" => threads[u].run \in Runs /\ threads[u].claimed \in Nat
    BY RunOf DEF Attempts
  <1>5. \A u \in Threads : threads[u].step # "idle" /\ threads[u].run = r => threads[u].claimed # rows[r].attempt
    BY <1>3, <1>4 DEF StartedOnce
  <1> QED
    BY <1>1, <1>2, <1>3, <1>4, <1>5 DEF StartedOnce, Works

\* Every step keeps the invariant.
LEMMA StartedStep == TypeOK /\ TypeOK' /\ StartedOnce /\ [Next]_vars => StartedOnce'
  <1> SUFFICES ASSUME TypeOK, TypeOK', StartedOnce, [Next]_vars PROVE StartedOnce'
    OBVIOUS
  <1>0. \A r \in Runs : rows[r].attempt \in Nat
    BY Rows DEF TypeOK, Attempts
  <1>1. ASSUME NEW t \in Threads, Work(t) PROVE StartedOnce'
    BY <1>1, WorkContinues, ContinuesStarted
  <1>2. ASSUME NEW t \in Threads, Heartbeat(t) PROVE Continues
    <2>1. CASE rows' = [rows EXCEPT ![threads[t].run].lease = "held"] /\ UNCHANGED threads
      <3>1. \A r \in Runs : rows'[r].attempt = rows[r].attempt /\ rows'[r].status = rows[r].status
        BY <2>1 DEF TypeOK
      <3> QED
        BY <1>0, <2>1, <3>1 DEF Continues, Works
    <2>2. CASE threads' = [threads EXCEPT ![t].stop = TRUE] /\ UNCHANGED rows
      <3>1. \A u \in Threads : /\ threads'[u].step = threads[u].step
                               /\ threads'[u].run = threads[u].run
                               /\ threads'[u].claimed = threads[u].claimed
                               /\ threads'[u].gen = threads[u].gen
        BY <2>2 DEF TypeOK
      <3> QED
        BY <1>0, <2>2, <3>1 DEF Continues, Works
    <2> QED
      BY <1>2, <2>1, <2>2 DEF Heartbeat
  <1>3. ASSUME NEW t \in Threads, HeartbeatFails(t) PROVE Continues
    <2>1. \A u \in Threads : /\ threads'[u].step = threads[u].step
                             /\ threads'[u].run = threads[u].run
                             /\ threads'[u].claimed = threads[u].claimed
                             /\ threads'[u].gen = threads[u].gen
      BY <1>3 DEF HeartbeatFails, TypeOK
    <2> QED
      BY <1>0, <1>3, <2>1 DEF HeartbeatFails, Continues, Works
  <1>4. ASSUME NEW t \in Threads, Dies(t) PROVE Continues
    BY <1>4, ExitsContinues DEF Dies
  <1>5. ASSUME NEW r \in Runs, Enqueue(r) PROVE Continues
    <2>1. \A q \in Runs : /\ rows'[q].attempt = rows[q].attempt
                          /\ rows'[q].status # rows[q].status => rows[q].status = "none"
      BY <1>5 DEF Enqueue, TypeOK
    <2> QED
      BY <1>0, <1>5, <2>1 DEF Enqueue, Continues, Works
  <1>6. ASSUME NEW r \in Runs, NEW t \in Threads, Claim(r, t) PROVE StartedOnce'
    BY <1>6, ClaimStarted
  <1>7. ASSUME NEW r \in Runs, CancelReads(r) PROVE Continues
    BY <1>0, <1>7 DEF CancelReads, Continues, Works
  <1>8. ASSUME NEW r \in Runs, CancelWrites(r) PROVE Continues
    <2>1. \A q \in Runs : /\ rows'[q].attempt = rows[q].attempt
                          /\ rows'[q].status # rows[q].status => rows'[q].status = "CANCELLED"
      BY <1>8 DEF CancelWrites, TypeOK
    <2> QED
      BY <1>0, <1>8, <2>1 DEF CancelWrites, Continues, Works
  <1>9. ASSUME NEW r \in Runs, Lapse(r) PROVE Continues
    <2>1. \A q \in Runs : rows'[q].attempt = rows[q].attempt /\ rows'[q].status = rows[q].status
      BY <1>9 DEF Lapse, TypeOK
    <2> QED
      BY <1>0, <1>9, <2>1 DEF Lapse, Continues, Works
  <1>10. ASSUME Reclaim PROVE Continues
    <2>1. \A r \in Runs : IF Stale(r) THEN rows'[r].attempt = rows[r].attempt + 1
                                      ELSE rows'[r] = rows[r]
      BY <1>10 DEF Reclaim
    <2> QED
      BY <1>0, <1>10, <2>1 DEF Reclaim, Continues, Works
  <1>11. ASSUME Crash PROVE Continues
    BY <1>0, <1>11, ThreadRows DEF Crash, Continues
  <1>12. CASE UNCHANGED vars
    BY <1>12 DEF vars, StartedOnce, Works
  <1> QED
    BY <1>1, <1>2, <1>3, <1>4, <1>5, <1>6, <1>7, <1>8, <1>9, <1>10, <1>11, <1>12, ContinuesStarted DEF Next

-----------------------------------------------------------------------------
(* Results are published once, and final states are final but for a cancel.  *)

\* A final state stays, or a cancel that has read the run overwrites it.
Final ==
    \A r \in Runs : rows[r].status \in Ended /\ rows'[r].status # rows[r].status =>
        (\E leased \in BOOLEAN : <<r, leased>> \in cancels) /\ rows'[r].status = "CANCELLED"

SameAttempts == \A r \in Runs : rows'[r].attempt = rows[r].attempt

\* A thread stores slices only of a run that it owns.
Publishes(t) == Finish(t) /\ Owns(t)

\* A row of a run that has not ended changes, and its attempt stays the same.
LEMMA OpenRow ==
    ASSUME TypeOK, NEW r \in Runs, NEW row, rows' = [rows EXCEPT ![r] = row],
           row.attempt = rows[r].attempt, row.status = rows[r].status \/ rows[r].status \notin Ended
    PROVE  Final /\ SameAttempts
  BY DEF Final, SameAttempts, TypeOK

\* Reaching a stage keeps attempts and final states.
LEMMA ReachesFinal ==
    ASSUME TypeOK, NEW t \in Threads, Works(t), NEW g \in Stages, NEW s \in {"check", "work"},
           Reaches(t, g, s)
    PROVE  Final /\ SameAttempts
  <1>1. threads[t].run \in Runs
    BY RunOf DEF Works
  <1>2. CASE rows' = [rows EXCEPT ![threads[t].run].lease = "held"]
    BY <1>1, <1>2 DEF Final, SameAttempts, TypeOK
  <1>3. CASE UNCHANGED rows
    BY <1>3 DEF Final, SameAttempts
  <1> QED
    BY <1>2, <1>3 DEF Reaches

\* So does ending a run that the thread owns.
LEMMA EndsFinal ==
    ASSUME TypeOK, NEW t \in Threads, Works(t), NEW s, Owns(t), EndsAs(t, s)
    PROVE  Final /\ SameAttempts
  <1>1. threads[t].run \in Runs
    BY RunOf DEF Works
  <1> QED
    BY <1>1 DEF Final, SameAttempts, TypeOK, EndsAs, Owns, Ended

\* What a step does to the results: it publishes one, it reclaims, or it does neither.
LEMMA ResultSteps ==
    ASSUME TypeOK, [Next]_vars
    PROVE  /\ Final
           /\ \/ Reclaim
              \/ \E t \in Threads : Publishes(t) /\ SameAttempts
              \/ UNCHANGED slices /\ SameAttempts
  <1> DEFINE Keeps == Final /\ SameAttempts /\ UNCHANGED slices
  <1>1. ASSUME NEW t \in Threads, Work(t)
        PROVE  Keeps \/ (Final /\ SameAttempts /\ Publishes(t))
    <2>1. CASE Read(t)
      BY <2>1 DEF Read, Final, SameAttempts
    <2>2. CASE ClaimAgain(t)
      <3>1. threads[t].run \in Runs
        BY <2>2, RunOf DEF ClaimAgain
      <3>2. CASE rows[threads[t].run].status = "QUEUED" /\ Claimed(threads[t].run)
        BY <2>2, <3>1, <3>2, ClaimedContinues DEF ClaimAgain, Final, SameAttempts, Ended
      <3>3. CASE UNCHANGED rows
        BY <2>2, <3>3 DEF ClaimAgain, Final, SameAttempts
      <3> QED
        BY <2>2, <3>2, <3>3 DEF ClaimAgain
    <2>3. CASE Begin(t)
      BY <2>3, ReachesFinal, FirstStage DEF Begin, Works
    <2>4. CASE Advance(t)
      <3>1. threads[t].stage \in Stages
        BY <2>4, ThreadFields DEF Advance, TypeOK
      <3>2. threads[t].stage + 1 \in Stages
        BY <2>4, <3>1 DEF Advance, Stages, Metrics
      <3> QED
        BY <2>4, <3>2, ReachesFinal DEF Advance, Works
    <2>5. CASE Check(t)
      BY <2>5 DEF Check, Final, SameAttempts
    <2>6. CASE Finish(t)
      <3>1. CASE Owns(t)
        BY <2>6, <3>1, EndsFinal DEF Finish, Publishes, Works
      <3>2. CASE ~Owns(t)
        BY <2>6, <3>2 DEF Finish, Final, SameAttempts
      <3> QED
        BY <3>1, <3>2
    <2>7. CASE GiveUp(t)
      <3>1. CASE Owns(t)
        BY <2>7, <3>1, EndsFinal DEF GiveUp, Works
      <3>2. CASE ~Owns(t)
        BY <2>7, <3>2 DEF GiveUp, Final, SameAttempts
      <3> QED
        BY <3>1, <3>2
    <2> QED
      BY <1>1, <2>1, <2>2, <2>3, <2>4, <2>5, <2>6, <2>7 DEF Work
  <1>2. ASSUME NEW t \in Threads, Heartbeat(t) \/ HeartbeatFails(t) \/ Dies(t) PROVE Keeps
    <2>1. CASE UNCHANGED rows
      BY <1>2, <2>1 DEF Heartbeat, HeartbeatFails, Dies, Final, SameAttempts
    <2>2. CASE rows' = [rows EXCEPT ![threads[t].run].lease = "held"]
      BY <1>2, <2>2 DEF Heartbeat, HeartbeatFails, Dies, Final, SameAttempts, TypeOK
    <2> QED
      BY <1>2, <2>1, <2>2 DEF Heartbeat, HeartbeatFails, Dies
  <1>3. ASSUME NEW r \in Runs, Enqueue(r) PROVE Keeps
    BY <1>3 DEF Enqueue, Final, SameAttempts, TypeOK, Ended
  <1>4. ASSUME NEW r \in Runs, CancelReads(r) PROVE Keeps
    BY <1>4 DEF CancelReads, Final, SameAttempts
  <1>5. ASSUME NEW r \in Runs, CancelWrites(r) PROVE Keeps
    BY <1>5 DEF CancelWrites, Final, SameAttempts, TypeOK
  <1>6. ASSUME NEW r \in Runs, Lapse(r) PROVE Keeps
    BY <1>6 DEF Lapse, Final, SameAttempts, TypeOK
  <1>7. ASSUME NEW r \in Runs, NEW t \in Threads, Claim(r, t) PROVE Keeps
    BY <1>7, ClaimedContinues DEF Claim, Final, SameAttempts, Ended
  <1>8. ASSUME Reclaim PROVE Final
    BY <1>8 DEF Reclaim, Stale, Final, TypeOK, Ended
  <1>9. ASSUME Crash \/ UNCHANGED vars PROVE Keeps
    BY <1>9 DEF Crash, vars, Final, SameAttempts
  <1> QED
    BY <1>1, <1>2, <1>3, <1>4, <1>5, <1>6, <1>7, <1>8, <1>9 DEF Next

\* What a thread publishes is the result of the attempt it owns.
LEMMA PublishedAttempt ==
    ASSUME TypeOK, ResultInv, NEW t \in Threads, Publishes(t)
    PROVE  \E r \in Runs :
              /\ slices[r] = {} /\ slices' = [slices EXCEPT ![r] = {rows[r].attempt}]
              /\ rows'[r].status \in Ended
  <1>1. threads[t].run \in Runs
    BY RunOf DEF Publishes, Finish
  <1>2. slices[threads[t].run] = {}
    BY <1>1 DEF Publishes, Owns, ResultInv, Ended
  <1>3. slices' = [slices EXCEPT ![threads[t].run] = {rows[threads[t].run].attempt}]
    BY <1>2 DEF Publishes, Finish, Owns
  <1>4. rows'[threads[t].run].status \in Ended
    BY <1>1 DEF Publishes, Finish, EndsAs, TypeOK, Ended
  <1> QED
    BY <1>1, <1>2, <1>3, <1>4

\* Every step keeps the invariant.
LEMMA ResultStep == TypeOK /\ ResultInv /\ [Next]_vars => ResultInv'
  <1> SUFFICES ASSUME TypeOK, ResultInv, [Next]_vars PROVE ResultInv'
    OBVIOUS
  <1>1. Final
    BY ResultSteps
  <1>2. \A r \in Runs : rows[r].status \in Ended => rows'[r].status \in Ended
    BY <1>1 DEF Final, Ended
  <1>3. CASE Reclaim
    <2>1. \A r \in Runs : Stale(r) => slices[r] = {}
      BY DEF Stale, ResultInv, Ended
    <2> QED
      BY <1>2, <1>3, <2>1 DEF Reclaim, ResultInv
  <1>4. ASSUME NEW t \in Threads, Publishes(t), SameAttempts PROVE ResultInv'
    <2>1. PICK r \in Runs : /\ slices[r] = {} /\ slices' = [slices EXCEPT ![r] = {rows[r].attempt}]
                            /\ rows'[r].status \in Ended
      BY <1>4, PublishedAttempt
    <2> QED
      BY <1>2, <1>4, <2>1 DEF ResultInv, SameAttempts, TypeOK
  <1>5. CASE UNCHANGED slices /\ SameAttempts
    BY <1>2, <1>5 DEF ResultInv, SameAttempts
  <1> QED
    BY <1>3, <1>4, <1>5, ResultSteps

-----------------------------------------------------------------------------
(* The theorems.                                                             *)

\* The inductive invariant.
LEMMA Invariance == Spec => []IInv
  <1>1. IInv /\ [Next]_vars => IInv'
    BY TypeStep, StartedStep, ResultStep DEF IInv
  <1> QED
    BY <1>1, InitInv, PTL DEF Spec

\* Every reachable state has its type: a RUNNING run has a lease, and so may have one that
\* was cancelled over a claim which the cancel had not seen; no other run has one.
THEOREM BacktestTypes == Spec => []TypeOK
  BY Invariance, PTL DEF IInv

\* claim_queued_backtest_run: two threads share an attempt only if one of them was late.
THEOREM BacktestWorkers == Spec => []OneWorkerPerAttempt
  <1>1. IInv => OneWorkerPerAttempt
    <2> SUFFICES ASSUME IInv, NEW t \in Threads, NEW u \in Threads, t # u, Works(t), Works(u),
                        threads[t].run = threads[u].run, threads[t].gen = threads[u].gen,
                        ~Late(t), ~Late(u)
                 PROVE  FALSE
      BY DEF OneWorkerPerAttempt
    <2>1. /\ threads[t].claimed \in Nat /\ threads[t].gen \in Nat
          /\ threads[u].claimed \in Nat /\ threads[u].gen \in Nat
      BY ThreadFields DEF IInv, TypeOK, Works, Attempts
    <2>2. threads[t].claimed = threads[u].claimed
      BY <2>1 DEF IInv, StartedOnce, Late
    <2> QED
      BY <2>2 DEF IInv, StartedOnce, Works
  <1> QED
    BY <1>1, Invariance, PTL

\* Only a cancel that has read the run before takes it out of a final state.
THEOREM BacktestFinal == Spec => FinalUnlessCancelled
  <1>1. IInv /\ [Next]_vars => Final
    BY ResultSteps DEF IInv
  <1>2. Final => [\A r \in Runs :
                     rows[r].status \in Ended /\ rows'[r].status # rows[r].status =>
                         (\E leased \in BOOLEAN : <<r, leased>> \in cancels)
                         /\ rows'[r].status = "CANCELLED"]_vars
    BY DEF Final
  <1> QED
    BY <1>1, <1>2, Invariance, PTL DEF Spec, FinalUnlessCancelled

\* The worker's compare-and-set writes implement the specification of the results: they
\* are published once, by the last attempt.
THEOREM BacktestResults == Spec => ResultSpec
  <1>1. Init => Results!Init
    BY DEF Init, Results!Init
  <1>2. IInv /\ [Next]_vars => [Results!Next]_(Results!published)
    <2> SUFFICES ASSUME IInv, [Next]_vars PROVE [Results!Next]_(Results!published)
      OBVIOUS
    <2>1. CASE Reclaim
      <3>0. PICK R \in SUBSET Runs : R = {r \in Runs : Stale(r)}
        OBVIOUS
      <3>1. \A r \in R : slices[r] = {}
        BY <3>0 DEF Stale, IInv, ResultInv, Ended
      <3>2. [r \in Runs |-> rows'[r].attempt] =
               [r \in Runs |-> IF r \in R THEN rows[r].attempt + 1 ELSE rows[r].attempt]
        BY <2>1, <3>0 DEF Reclaim
      <3>3. Results!Retry(R)
        BY <2>1, <3>1, <3>2 DEF Reclaim, Results!Retry
      <3> QED
        BY <3>3 DEF Results!Next
    <2>2. ASSUME NEW t \in Threads, Publishes(t), SameAttempts PROVE Results!Next
      <3>1. PICK r \in Runs : slices[r] = {} /\ slices' = [slices EXCEPT ![r] = {rows[r].attempt}]
        BY <2>2, PublishedAttempt DEF IInv
      <3>2. [q \in Runs |-> rows'[q].attempt] = [q \in Runs |-> rows[q].attempt]
        BY <2>2 DEF SameAttempts
      <3>3. Results!Publish(r)
        BY <3>1, <3>2 DEF Results!Publish
      <3> QED
        BY <3>3 DEF Results!Next
    <2>3. CASE UNCHANGED slices /\ SameAttempts
      <3>1. [q \in Runs |-> rows'[q].attempt] = [q \in Runs |-> rows[q].attempt]
        BY <2>3 DEF SameAttempts
      <3> QED
        BY <2>3, <3>1 DEF Results!published
    <2> QED
      BY <2>1, <2>2, <2>3, ResultSteps DEF IInv
  <1> QED
    BY <1>1, <1>2, Invariance, PTL DEF Spec, ResultSpec, Results!Spec
=============================================================================

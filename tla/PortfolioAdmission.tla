------------------------- MODULE PortfolioAdmission -------------------------
(***************************************************************************)
(* Who may create an analysis job of one portfolio on one trading day: the *)
(* scheduler tick, for the legacy schedule of a fixed checkpoint and then  *)
(* for the checkpoint itself; the requests "create job", "run schedule     *)
(* now", "reconcile today" and "retry"; and the realtime monitor, for a    *)
(* confirmed trigger.  All but the retry first look for an active job.     *)
(*                                                                         *)
(* What happens to one job and its claim afterwards is AnalysisLease.      *)
(* Here a job only starts and ends, a claim that follows its job is        *)
(* "RUNNING" for good, and nothing crashes.                                *)
(*                                                                         *)
(* A lookup and the INSERT it leads to are two steps, because a reader of  *)
(* SQLite holds no lock.  The monitor's are one: it has flushed the        *)
(* trigger event before and so holds the write lock.  Ids are handed out   *)
(* in the order of created_at, so "created before the tick began" is       *)
(* id <= born.                                                             *)
(***************************************************************************)
EXTENDS Naturals

CONSTANTS
    Scheduler,       \* the thread of the scheduler tick
    Requests,        \* slots for HTTP requests: bounds the requests in flight
    Kinds,           \* the kinds of requests that are made
    Monitored,       \* TRUE if the realtime monitor runs
    LastCheckpoint,  \* the fixed checkpoints of the day are 1..LastCheckpoint
    MaxJobs          \* bound on the jobs of a behaviour

RequestKinds == {"manual", "runnow", "reconcile", "retry"}

ASSUME ConstantsAssumption ==
    /\ Scheduler \notin Requests
    /\ Kinds \subseteq RequestKinds
    /\ Monitored \in BOOLEAN
    /\ LastCheckpoint \in Nat /\ MaxJobs \in Nat

VARIABLES
    jobs,     \* the AnalysisJob rows by id
    created,  \* the last id
    claim,    \* the DailyOperationalCheckpoint rows by checkpoint
    ran,      \* whether the legacy schedule of a checkpoint has last_run_at today;
              \* TRUE from the start if no such schedule is enabled
    window,   \* the checkpoint whose catch-up window is open; 0 before the first
    actor     \* the tick and the requests

vars == <<jobs, created, claim, ran, window, actor>>

-----------------------------------------------------------------------------
Checkpoints == 1 .. LastCheckpoint
Ids == 1 .. MaxJobs
Actors == Requests \cup {Scheduler}

Ended == {"succeeded", "failed"}

\* status: ACTIVE_ANALYSIS_STATUSES is one value, "active"; "failed" stands for
\* cancelled too.  origin: "manual", "legacy" (key schedule:<id>:<day>:<checkpoint>),
\* "checkpoint" (key of the portfolio, day and checkpoint) or "trigger".
JobRow == [origin: {"none", "manual", "legacy", "checkpoint", "trigger"},
           about: Checkpoints \cup {0},
           status: {"none", "active"} \cup Ended]
NoJob == [origin |-> "none", about |-> 0, status |-> "none"]

ClaimRow == [status: {"none", "CLAIMED", "RUNNING", "REUSED", "MISSED", "BLOCKED"},
             job: Ids \cup {0}]

\* pc: "schedules" before the legacy schedule, "checkpoints" before the fixed
\* checkpoint, "claimed" with a new claim, "admitting" after the lookup,
\* "inserting" after a lookup that found nothing, "retrying" after the read.
Actor == [pc: {"idle", "schedules", "checkpoints", "claimed", "admitting",
               "inserting", "retrying"},
          about: Checkpoints \cup {0},
          born: Ids \cup {0},
          found: Ids \cup {0},
          reuse: BOOLEAN,
          rekeyed: BOOLEAN]
Idle == [pc |-> "idle", about |-> 0, born |-> 0, found |-> 0, reuse |-> FALSE,
         rekeyed |-> FALSE]

\* active_portfolio_analysis: the candidates, of which it returns the newest.
ActiveJobs == {i \in Ids : jobs[i].status = "active"}

\* i is the newest of a set of jobs; 0 if there is none.
Newest(i, S) == IF S = {} THEN i = 0 ELSE i \in S /\ \A j \in S : j <= i

\* checkpoint_idempotency_key: a job with the key of the checkpoint.
Keyed(c) == {i \in Ids : jobs[i].origin = "checkpoint" /\ jobs[i].about = c}

\* A job with the key of the legacy schedule of the checkpoint.
ScheduleKeyed(c) == {i \in Ids : jobs[i].origin = "legacy" /\ jobs[i].about = c}

\* Any scheduled job of the checkpoint that was there at the given moment.
ScheduledBefore(c, born) == {i \in Keyed(c) \cup ScheduleKeyed(c) : i <= born}

Goes(a, pc) == actor' = [actor EXCEPT ![a].pc = pc]
Leaves(a) == actor' = [actor EXCEPT ![a] = Idle]

\* The INSERT of a job; its thread starts after the commit.
Insert(origin, c) ==
    /\ created < MaxJobs
    /\ created' = created + 1
    /\ jobs' = [jobs EXCEPT ![created + 1] =
                  [origin |-> origin, about |-> c, status |-> "active"]]

Init ==
    /\ jobs = [i \in Ids |-> NoJob]
    /\ created = 0
    /\ claim = [c \in Checkpoints |-> [status |-> "none", job |-> 0]]
    /\ ran \in [Checkpoints -> BOOLEAN]
    /\ window = 0
    /\ actor = [a \in Actors |-> Idle]

-----------------------------------------------------------------------------
(* The legacy schedule: create_scheduled_job, by the tick and by run-now   *)

\* What its lookups find: the job of the checkpoint, any earlier scheduled job
\* of it, its own job unless the run is forced, or an active analysis.
LegacyFinds(c, born, force) ==
    \/ Keyed(c) # {}
    \/ ScheduledBefore(c, born) # {}
    \/ ~force /\ ScheduleKeyed(c) # {}
    \/ ActiveJobs # {}

\* The tick goes on with the fixed checkpoint, run-now is over.
SchedulePassed(a) ==
    IF a = Scheduler
    THEN actor' = [actor EXCEPT ![a].pc = "checkpoints", ![a].rekeyed = FALSE]
    ELSE Leaves(a)

\* The tick passes over a schedule that has run.  Otherwise the job that is found
\* is reused, or one is to be inserted, with another key if a forced run finds
\* the key of the schedule taken; or that fails (no or a stale snapshot, not ready).
LookUpSchedule(a) ==
    LET c == actor[a].about
        force == a # Scheduler
    IN /\ actor[a].pc = "schedules"
       /\ \/ /\ a = Scheduler /\ ran[c]
             /\ SchedulePassed(a)
             /\ UNCHANGED ran
          \/ /\ force \/ ~ran[c]
             /\ LegacyFinds(c, actor[a].born, force)
             /\ SchedulePassed(a)
             /\ ran' = [ran EXCEPT ![c] = TRUE]
          \/ /\ force \/ ~ran[c]
             /\ ~LegacyFinds(c, actor[a].born, force)
             /\ \/ actor' = [actor EXCEPT ![a].pc = "inserting",
                                         ![a].rekeyed = ScheduleKeyed(c) # {}]
                \/ SchedulePassed(a)
             /\ UNCHANGED ran
       /\ UNCHANGED <<jobs, created, claim, window>>

\* A key that was taken between lookup and INSERT is an IntegrityError.  The tick
\* ends with it, because its handler goes on with the failed session.
InsertScheduled(a) ==
    LET c == actor[a].about
    IN /\ actor[a].pc = "inserting" /\ c # 0
       /\ IF actor[a].rekeyed \/ ScheduleKeyed(c) = {}
          THEN /\ Insert("legacy", c)
               /\ ran' = [ran EXCEPT ![c] = TRUE]
               /\ SchedulePassed(a)
          ELSE /\ Leaves(a)
               /\ UNCHANGED <<jobs, created, ran>>
       /\ UNCHANGED <<claim, window>>

ScheduleStep(a) == LookUpSchedule(a) \/ InsertScheduled(a)

-----------------------------------------------------------------------------
(* The fixed checkpoint: run_due_checkpoints, by the tick and by reconcile *)

\* Mutant: the unique row of the checkpoint is not respected.
NotDecided(c) == claim[c].status \in {"none", "CLAIMED"}

\* _claim_checkpoint inserts the row of the checkpoint.
Unclaimed(c) == claim[c].status = "none"

\* Mutant: a checkpoint whose window is over stays unclaimed.
NeverOverdue(c, w) == FALSE

\* _checkpoint_status: the catch-up window of the checkpoint is over.
Overdue(c, w) == c < w

\* Unclaimed checkpoints whose window is over are claimed as MISSED; the one
\* that is due is claimed, or left to whoever has claimed it.
ClaimCheckpoints(a) ==
    LET c == actor[a].about
    IN /\ actor[a].pc = "checkpoints"
       /\ claim' = [d \in Checkpoints |->
             IF Unclaimed(d) /\ Overdue(d, c) THEN [claim[d] EXCEPT !.status = "MISSED"]
             ELSE IF Unclaimed(d) /\ d = c THEN [claim[d] EXCEPT !.status = "CLAIMED"]
             ELSE claim[d]]
       /\ IF Unclaimed(c) THEN Goes(a, "claimed") ELSE Leaves(a)
       /\ UNCHANGED <<jobs, created, ran, window>>

\* _admit_checkpoint_job looks for the job with the key, for a scheduled job
\* created before this run of the checkpoints began, and for an active analysis.
LookUp(a) ==
    LET c == actor[a].about
        own == IF Keyed(c) # {} THEN Keyed(c) ELSE ScheduledBefore(c, actor[a].born)
    IN /\ actor[a].pc = "claimed"
       /\ \E i \in Ids \cup {0} :
             /\ Newest(i, IF own # {} THEN own ELSE ActiveJobs)
             /\ actor' = [actor EXCEPT ![a] =
                            [@ EXCEPT !.pc = "admitting", !.found = i, !.reuse = (own = {}),
                                        !.born = 0]]
       /\ UNCHANGED <<jobs, created, claim, ran, window>>

\* Mutant: the claim takes the status of the job as it is.
SettleByJob(c, status, job) ==
    claim' = [claim EXCEPT ![c] =
                [status |-> IF job = 0 THEN status ELSE jobs[job].status, job |-> job]]

\* _finish_checkpoint_claim
Settle(c, status, job) == claim' = [claim EXCEPT ![c] = [status |-> status, job |-> job]]

\* It takes the job it found, as its own or as the active analysis that covers
\* the checkpoint too, ...
Reuse(a) ==
    /\ actor[a].pc = "admitting"
    /\ actor[a].found # 0
    /\ Settle(actor[a].about, IF actor[a].reuse THEN "REUSED" ELSE "RUNNING", actor[a].found)
    /\ Leaves(a)
    /\ UNCHANGED <<jobs, created, ran, window>>

\* ... inserts one ...
Admit(a) ==
    /\ actor[a].pc = "admitting"
    /\ actor[a].found = 0
    /\ Insert("checkpoint", actor[a].about)
    /\ Settle(actor[a].about, "RUNNING", created + 1)
    /\ Leaves(a)
    /\ UNCHANGED <<ran, window>>

\* ... or fails: no confirmed snapshot, the runtime not ready, an exception.
Block(a) ==
    /\ actor[a].pc = "admitting"
    /\ Settle(actor[a].about, "BLOCKED", 0)
    /\ Leaves(a)
    /\ UNCHANGED <<jobs, created, ran, window>>

CheckpointStep(a) == ClaimCheckpoints(a) \/ LookUp(a) \/ Reuse(a) \/ Admit(a) \/ Block(a)

-----------------------------------------------------------------------------
(* The actors.                                                             *)

\* tick_schedules takes the time once and uses it to its end; the scheduler runs
\* one tick at a time.
TickBegin ==
    /\ actor[Scheduler].pc = "idle"
    /\ window # 0
    /\ actor' = [actor EXCEPT ![Scheduler] =
                   [Idle EXCEPT !.pc = "schedules", !.about = window,
                                !.born = created]]
    /\ UNCHANGED <<jobs, created, claim, ran, window>>

SchedulerStep ==
    TickBegin \/ ScheduleStep(Scheduler) \/ CheckpointStep(Scheduler)

\* create_job looks for an active analysis; if there is one, it is the answer.
ManualRead(r) ==
    /\ "manual" \in Kinds
    /\ actor[r].pc = "idle"
    /\ ActiveJobs = {}
    /\ actor' = [actor EXCEPT ![r] = [Idle EXCEPT !.pc = "inserting"]]
    /\ UNCHANGED <<jobs, created, claim, ran, window>>

ManualInsert(r) ==
    /\ actor[r].pc = "inserting" /\ actor[r].about = 0
    /\ Insert("manual", 0)
    /\ Leaves(r)
    /\ UNCHANGED <<claim, ran, window>>

\* run_schedule_now forces the legacy schedule of a checkpoint, at any time.
RunNow(r, c) ==
    /\ "runnow" \in Kinds
    /\ actor[r].pc = "idle"
    /\ actor' = [actor EXCEPT ![r] =
                   [Idle EXCEPT !.pc = "schedules", !.about = c,
                                !.born = created]]
    /\ UNCHANGED <<jobs, created, claim, ran, window>>

\* reconcile_today runs the due checkpoints with a moment of its own.
Reconcile(r) ==
    /\ "reconcile" \in Kinds
    /\ actor[r].pc = "idle"
    /\ window # 0
    /\ actor' = [actor EXCEPT ![r] =
                   [Idle EXCEPT !.pc = "checkpoints", !.about = window,
                                !.born = created]]
    /\ UNCHANGED <<jobs, created, claim, ran, window>>

\* retry_job checks the job itself and nothing else of the portfolio.
RetryRead(r, i) ==
    /\ "retry" \in Kinds
    /\ actor[r].pc = "idle"
    /\ jobs[i].status = "failed"
    /\ actor' = [actor EXCEPT ![r] =
                   [Idle EXCEPT !.pc = "retrying", !.found = i]]
    /\ UNCHANGED <<jobs, created, claim, ran, window>>

RetryWrite(r) ==
    /\ actor[r].pc = "retrying"
    /\ jobs' = [jobs EXCEPT ![actor[r].found].status = "active"]
    /\ Leaves(r)
    /\ UNCHANGED <<created, claim, ran, window>>

RequestStep(r) ==
    ManualInsert(r) \/ ScheduleStep(r) \/ CheckpointStep(r) \/ RetryWrite(r)

NewRequest(r) ==
    \/ ManualRead(r) \/ Reconcile(r)
    \/ \E c \in Checkpoints : RunNow(r, c)
    \/ \E i \in Ids : RetryRead(r, i)

\* create_trigger_analysis_job, with the write lock held since the event was
\* flushed; an active analysis takes the event in.
TriggerJob ==
    /\ Monitored
    /\ ActiveJobs = {}
    /\ Insert("trigger", 0)
    /\ UNCHANGED <<claim, ran, window, actor>>

-----------------------------------------------------------------------------
(* The jobs and the day.                                                   *)

JobEnds(i) ==
    /\ jobs[i].status = "active"
    /\ \E s \in Ended : jobs' = [jobs EXCEPT ![i].status = s]
    /\ UNCHANGED <<created, claim, ran, window, actor>>

\* The catch-up windows of the fixed checkpoints do not overlap.
WindowOpens ==
    /\ window < LastCheckpoint
    /\ window' = window + 1
    /\ UNCHANGED <<jobs, created, claim, ran, actor>>

Next ==
    \/ SchedulerStep
    \/ \E r \in Requests : NewRequest(r) \/ RequestStep(r)
    \/ TriggerJob
    \/ \E i \in Ids : JobEnds(i)
    \/ WindowOpens

Spec == Init /\ [][Next]_vars

\* The scheduler keeps ticking and requests in flight are answered.
FairSpec == Spec /\ WF_vars(SchedulerStep) /\ \A r \in Requests : WF_vars(RequestStep(r))

-----------------------------------------------------------------------------
(* Properties                                                              *)

TypeOK ==
    /\ jobs \in [Ids -> JobRow]
    /\ created \in Ids \cup {0}
    /\ claim \in [Checkpoints -> ClaimRow]
    /\ ran \in [Checkpoints -> BOOLEAN]
    /\ window \in Checkpoints \cup {0}
    /\ actor \in [Actors -> Actor]

\* The claim alone makes the job of a checkpoint unique: the INSERT of a job with
\* the key of a checkpoint never meets another one, whoever runs the checkpoints
\* at the same time.
OneJobPerKey == \A c \in Checkpoints : \A i, j \in Keyed(c) : i = j

\* A checkpoint that was closed without a job of its own has none, and one that
\* follows a job follows one of its own.
ClaimMatchesJobs ==
    \A c \in Checkpoints :
        /\ claim[c].status \in {"REUSED", "MISSED", "BLOCKED"} => Keyed(c) = {}
        /\ claim[c].status = "RUNNING" => claim[c].job \in Keyed(c) \cup ScheduleKeyed(c)

\* At most one analysis of the portfolio is active ("one full analysis per
\* portfolio", services/analysis_admission.py:1; "the single active full
\* analysis", :28).
OneAnalysisPerPortfolio ==
    \A i, j \in Ids : jobs[i].status = "active" /\ jobs[j].status = "active" => i = j

-----------------------------------------------------------------------------
(* The inductive invariants of the proofs.                                 *)

Holds(a, c) == actor[a].pc \in {"claimed", "admitting"} /\ actor[a].about = c

\* An actor that has found a job of the checkpoint itself.
Adopting(c) ==
    {x \in Actor : x.pc = "admitting" /\ x.about = c /\ x.found # 0 /\ ~x.reuse}

\* Ids are given in order, and what an actor has found exists.
RowsInv ==
    /\ \A i \in Ids : i > created => jobs[i] = NoJob
    /\ \A a \in Actors :
          /\ actor[a].pc \in {"schedules", "checkpoints", "claimed", "admitting"}
                => actor[a].about # 0
          /\ actor[a].pc = "retrying" => actor[a].found # 0 /\ actor[a].found <= created
    /\ \A a \in Actors : \A c \in Checkpoints :
          actor[a] \in Adopting(c) => actor[a].found \in Keyed(c) \cup ScheduleKeyed(c)

\* Only one actor at a time is between the claim of a checkpoint and its verdict,
\* and the job with the key comes with the verdict "RUNNING".
HolderInv ==
    /\ \A a \in Actors : \A c \in Checkpoints : Holds(a, c) => claim[c].status = "CLAIMED"
    /\ \A a, b \in Actors : \A c \in Checkpoints : Holds(a, c) /\ Holds(b, c) => a = b
    /\ \A c \in Checkpoints : claim[c].status # "RUNNING" => Keyed(c) = {}

IInv == TypeOK /\ RowsInv /\ HolderInv /\ OneJobPerKey /\ ClaimMatchesJobs

\* Without requests and monitor the tick acts on what it has just read.
QuietInv ==
    /\ \A r \in Requests : actor[r] = Idle
    /\ actor[Scheduler].pc = "inserting" => ActiveJobs = {}
    /\ actor[Scheduler].pc = "admitting" /\ actor[Scheduler].found = 0 => ActiveJobs = {}
    /\ OneAnalysisPerPortfolio

-----------------------------------------------------------------------------
\* Every checkpoint whose window opens is decided, whatever requests are made.
CheckpointDecided ==
    \A c \in Checkpoints :
        window >= c ~> claim[c].status \notin {"none", "CLAIMED"}
=============================================================================

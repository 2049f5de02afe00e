---------------------- MODULE PortfolioAdmission_proofs ----------------------
(* The safety of PortfolioAdmission for any number of requests, checkpoints  *)
(* and jobs, and what the scheduler alone guarantees.                        *)
EXTENDS PortfolioAdmission, FiniteSetTheorems, TLAPS

-----------------------------------------------------------------------------
(* What an INSERT does to the sets of jobs.                                 *)

Origins == {"manual", "legacy", "checkpoint", "trigger"}

\* A new job takes the next id; only one with the key of a checkpoint adds to
\* the jobs of that key.
LEMMA InsertRows ==
    ASSUME TypeOK, RowsInv,
           NEW o \in Origins, NEW n \in Checkpoints \cup {0}, Insert(o, n)
    PROVE  /\ created + 1 \in Ids /\ created' = created + 1
           /\ jobs' \in [Ids -> JobRow] /\ created' \in Ids \cup {0}
           /\ \A i \in Ids : i > created' => jobs'[i] = NoJob
           /\ \A c \in Checkpoints :
                 /\ o # "checkpoint" \/ n # c => Keyed(c)' = Keyed(c)
                 /\ o = "checkpoint" /\ n = c => Keyed(c)' = Keyed(c) \cup {created + 1}
                 /\ ScheduleKeyed(c) \subseteq ScheduleKeyed(c)'
  <1> DEFINE new == [origin |-> o, about |-> n, status |-> "active"]
  <1>1. created \in Nat /\ MaxJobs \in Nat /\ created + 1 \in Ids
    BY ConstantsAssumption DEF TypeOK, Insert, Ids
  <1>2. new \in JobRow
    BY DEF JobRow, Origins
  <1>3. jobs' = [jobs EXCEPT ![created + 1] = new] /\ created' = created + 1
    BY DEF Insert
  <1>4. jobs' \in [Ids -> JobRow]
    BY <1>2, <1>3 DEF TypeOK
  <1>5. \A i \in Ids : jobs'[i] = IF i = created + 1 THEN new ELSE jobs[i]
    BY <1>3 DEF TypeOK
  <1>6. jobs[created + 1] = NoJob
    BY <1>1 DEF RowsInv
  <1>7. \A i \in Ids : i > created' => jobs'[i] = NoJob
    BY <1>1, <1>3, <1>5 DEF RowsInv, Ids
  <1>8. ASSUME NEW c \in Checkpoints
        PROVE  /\ o # "checkpoint" \/ n # c => Keyed(c)' = Keyed(c)
               /\ o = "checkpoint" /\ n = c => Keyed(c)' = Keyed(c) \cup {created + 1}
               /\ ScheduleKeyed(c) \subseteq ScheduleKeyed(c)'
    BY <1>1, <1>5, <1>6 DEF Keyed, ScheduleKeyed, NoJob
  <1> QED
    BY <1>1, <1>3, <1>4, <1>7, <1>8

\* An update that keeps origin and key of every job keeps the sets of jobs.
LEMMA SameKeys ==
    ASSUME \A i \in Ids : jobs'[i].origin = jobs[i].origin /\ jobs'[i].about = jobs[i].about,
           NEW c \in Checkpoints
    PROVE  Keyed(c)' = Keyed(c) /\ ScheduleKeyed(c)' = ScheduleKeyed(c)
  BY DEF Keyed, ScheduleKeyed

-----------------------------------------------------------------------------
(* Steps that leave the claims alone.                                       *)

\* An idle actor is one.
LEMMA IdleActor == Idle \in Actor
  BY DEF Idle, Actor

\* The states an actor can be in away from a claim.
Elsewhere ==
    {x \in Actor :
        /\ x.pc \notin {"claimed", "admitting"}
        /\ x.pc \in {"schedules", "checkpoints"} => x.about # 0
        /\ x.pc = "retrying" => x.found # 0 /\ x.found <= created}

Moves(a) == actor' = actor \/ \E x \in Elsewhere : actor' = [actor EXCEPT ![a] = x]

\* Jobs may be added or change their status, but none gets the key of a checkpoint.
KeysKept ==
    /\ jobs' \in [Ids -> JobRow] /\ created' \in Ids \cup {0} /\ created <= created'
    /\ \A i \in Ids : i > created' => jobs'[i] = NoJob
    /\ \A c \in Checkpoints :
          Keyed(c)' = Keyed(c) /\ ScheduleKeyed(c) \subseteq ScheduleKeyed(c)'

\* A step that keeps the keys and the claims, and moves at most one actor, but not
\* to a claim, preserves the invariant.
LEMMA ClaimsAlone ==
    ASSUME IInv, UNCHANGED claim, KeysKept, NEW a \in Actors, Moves(a),
           ran' \in [Checkpoints -> BOOLEAN], window' \in Checkpoints \cup {0}
    PROVE  IInv'
  <1>1. TypeOK'
    BY DEF IInv, TypeOK, KeysKept, Moves, Elsewhere
  <1>2. \A b \in Actors : actor'[b] = actor[b] \/ actor'[b] \in Elsewhere
    BY DEF IInv, TypeOK, Moves
  <1>c. created \in Nat /\ created' \in Nat
    BY ConstantsAssumption DEF IInv, TypeOK, KeysKept, Ids
  <1>3. RowsInv'
    <2>1. ASSUME NEW b \in Actors
          PROVE  /\ actor'[b].pc \in {"schedules", "checkpoints", "claimed", "admitting"}
                       => actor'[b].about # 0
                 /\ actor'[b].pc = "retrying" => actor'[b].found # 0 /\ actor'[b].found <= created'
      <3>1. CASE actor'[b] \in Elsewhere
        BY <3>1, <1>c DEF Elsewhere, Actor, Ids, KeysKept
      <3>2. CASE actor'[b] = actor[b]
        BY <3>2, <1>c DEF IInv, RowsInv, TypeOK, Actor, Ids, KeysKept
      <3> QED
        BY <3>1, <3>2, <1>2
    <2>2. ASSUME NEW b \in Actors, NEW c \in Checkpoints, actor'[b] \in Adopting(c)
          PROVE  actor'[b].found \in Keyed(c)' \cup ScheduleKeyed(c)'
      <3>1. actor'[b] = actor[b]
        BY <2>2, <1>2 DEF Adopting, Elsewhere
      <3> QED
        BY <2>2, <3>1 DEF IInv, RowsInv, KeysKept
    <2>3. \A c \in Checkpoints : Adopting(c)' = Adopting(c)
      BY DEF Adopting, Actor, Ids, Checkpoints
    <2> QED
      BY <2>1, <2>2, <2>3 DEF RowsInv, KeysKept
  <1>4. \A b \in Actors : \A c \in Checkpoints : Holds(b, c)' => Holds(b, c)
    BY <1>2 DEF Holds, Elsewhere
  <1>5. HolderInv'
    BY <1>4 DEF IInv, HolderInv, KeysKept
  <1>6. OneJobPerKey' /\ ClaimMatchesJobs'
    BY DEF IInv, OneJobPerKey, ClaimMatchesJobs, KeysKept
  <1> QED
    BY <1>1, <1>3, <1>5, <1>6 DEF IInv

\* Leaving is such a move.
LEMMA ActorLeaves ==
    ASSUME IInv, NEW a \in Actors, Leaves(a)
    PROVE  Moves(a)
  <1>1. Idle \in Elsewhere
    BY DEF Idle, Elsewhere, Actor
  <1> QED
    BY <1>1 DEF Moves, Leaves

\* The tick goes on, a request of the same kind is over.
LEMMA ScheduleMoves ==
    ASSUME IInv, NEW a \in Actors, SchedulePassed(a), actor[a].about # 0
    PROVE  Moves(a)
  <1>1. CASE a = Scheduler
    <2> DEFINE x == [actor[a] EXCEPT !.pc = "checkpoints", !.rekeyed = FALSE]
    <2>1. x \in Elsewhere
      BY DEF IInv, TypeOK, Elsewhere, Actor
    <2>2. actor' = [actor EXCEPT ![a] = x]
      BY <1>1 DEF SchedulePassed, IInv, TypeOK
    <2> QED
      BY <2>1, <2>2 DEF Moves
  <1>2. CASE a # Scheduler
    BY <1>2, ActorLeaves DEF SchedulePassed
  <1> QED
    BY <1>1, <1>2

\* Steps that do not touch the jobs keep the keys.
LEMMA JobsUntouched ==
    ASSUME IInv, UNCHANGED <<jobs, created>>
    PROVE  KeysKept
  BY ConstantsAssumption DEF IInv, TypeOK, RowsInv, KeysKept, Keyed, ScheduleKeyed, Ids

\* So does the INSERT of any other job.
LEMMA OtherInsert ==
    ASSUME IInv, NEW o \in Origins \ {"checkpoint"}, NEW n \in Checkpoints \cup {0}, Insert(o, n)
    PROVE  KeysKept
  BY InsertRows, ConstantsAssumption DEF IInv, TypeOK, KeysKept, Ids

\* And a change of status of one existing job.
LEMMA StatusUpdate ==
    ASSUME IInv, NEW i \in Ids, i <= created, created' = created,
           NEW s \in {"active"} \cup Ended, jobs' = [jobs EXCEPT ![i].status = s]
    PROVE  KeysKept
  <1>1. [jobs[i] EXCEPT !.status = s] \in JobRow
    BY DEF IInv, TypeOK, JobRow
  <1>2. jobs' \in [Ids -> JobRow]
    BY <1>1 DEF IInv, TypeOK
  <1>3. \A j \in Ids : jobs'[j].origin = jobs[j].origin /\ jobs'[j].about = jobs[j].about
    BY DEF IInv, TypeOK, JobRow
  <1>4. \A j \in Ids : j > created => jobs'[j] = NoJob
    BY ConstantsAssumption DEF IInv, TypeOK, RowsInv, Ids
  <1> QED
    BY <1>2, <1>3, <1>4, SameKeys, ConstantsAssumption DEF KeysKept, IInv, TypeOK, Ids

\* Each action that touches neither claims nor jobs with the key of a checkpoint.
LEMMA OtherSteps ==
    ASSUME IInv, NEW a \in Actors,
           \/ ScheduleStep(a) \/ TickBegin \/ ManualInsert(a) \/ NewRequest(a)
           \/ RetryWrite(a) \/ TriggerJob \/ WindowOpens
           \/ \E i \in Ids : JobEnds(i)
    PROVE  IInv'
  <1>t. /\ created \in Nat /\ created \in Ids \cup {0} /\ window \in Checkpoints \cup {0}
        /\ ran \in [Checkpoints -> BOOLEAN]
        /\ actor \in [Actors -> Actor] /\ Scheduler \in Actors
        /\ jobs \in [Ids -> JobRow]
    BY ConstantsAssumption DEF IInv, TypeOK, Ids, Actors
  <1>k. \A i \in Ids : jobs[i].status # "none" => i <= created
    BY <1>t DEF IInv, RowsInv, NoJob, Ids
  <1>1. CASE LookUpSchedule(a)
    <2>1. KeysKept /\ UNCHANGED <<claim, window>>
      BY <1>1, JobsUntouched DEF LookUpSchedule
    <2>2. actor[a].about # 0 /\ actor[a].about \in Checkpoints
      BY <1>1, <1>t DEF LookUpSchedule, IInv, RowsInv, Actor
    <2>3. ran' \in [Checkpoints -> BOOLEAN]
      BY <1>1, <1>t DEF LookUpSchedule
    <2>4. CASE SchedulePassed(a)
      BY <2>1, <2>2, <2>3, <2>4, <1>t, ScheduleMoves, ClaimsAlone
    <2>5. CASE actor' = [actor EXCEPT ![a].pc = "inserting",
                                      ![a].rekeyed = ScheduleKeyed(actor[a].about) # {}]
      <3> DEFINE b == ScheduleKeyed(actor[a].about) # {}
                 x == [actor[a] EXCEPT !.pc = "inserting", !.rekeyed = b]
      <3>1. b \in BOOLEAN
        OBVIOUS
      <3> HIDE DEF b
      <3>2. x \in Elsewhere
        BY <3>1, <1>t DEF Elsewhere, Actor
      <3>3. actor' = [actor EXCEPT ![a] = x]
        BY <2>5, <1>t DEF b
      <3> QED
        BY <3>2, <3>3, <2>1, <2>3, <1>t, ClaimsAlone DEF Moves
    <2> QED
      BY <1>1, <2>4, <2>5 DEF LookUpSchedule
  <1>2. CASE InsertScheduled(a)
    <2>1. actor[a].about # 0 /\ actor[a].about \in Checkpoints
      BY <1>2, <1>t DEF InsertScheduled, Actor
    <2>2. KeysKept
      BY <1>2, <2>1, JobsUntouched, OtherInsert DEF InsertScheduled, Origins
    <2>3. Moves(a)
      BY <1>2, <2>1, ScheduleMoves, ActorLeaves DEF InsertScheduled
    <2> QED
      BY <1>2, <2>2, <2>3, <1>t, ClaimsAlone DEF InsertScheduled
  <1>3. CASE TickBegin
    <2> DEFINE x == [Idle EXCEPT !.pc = "schedules", !.about = window, !.born = created]
    <2>1. x \in Elsewhere
      BY <1>3, <1>t DEF TickBegin, Elsewhere, Actor, Idle
    <2> QED
      BY <1>3, <2>1, <1>t, JobsUntouched, ClaimsAlone DEF TickBegin, Moves
  <1>4. CASE ManualInsert(a)
    BY <1>4, <1>t, OtherInsert, ActorLeaves, ClaimsAlone DEF ManualInsert, Origins
  <1>5. CASE NewRequest(a)
    <2>1. ASSUME NEW x \in Elsewhere, actor' = [actor EXCEPT ![a] = x],
                 UNCHANGED <<jobs, created, claim, ran, window>>
          PROVE  IInv'
      BY <2>1, <1>t, JobsUntouched, ClaimsAlone DEF Moves
    <2>2. CASE ManualRead(a)
      <3>1. [Idle EXCEPT !.pc = "inserting"] \in Elsewhere
        BY DEF Elsewhere, Actor, Idle
      <3> QED
        BY <2>1, <2>2, <3>1 DEF ManualRead
    <2>3. CASE Reconcile(a)
      <3>1. [Idle EXCEPT !.pc = "checkpoints", !.about = window, !.born = created] \in Elsewhere
        BY <2>3, <1>t DEF Reconcile, Elsewhere, Actor, Idle
      <3> QED
        BY <2>1, <2>3, <3>1 DEF Reconcile
    <2>4. ASSUME NEW c \in Checkpoints, RunNow(a, c) PROVE IInv'
      <3>1. c # 0
        BY ConstantsAssumption DEF Checkpoints
      <3>2. [Idle EXCEPT !.pc = "schedules", !.about = c, !.born = created] \in Elsewhere
        BY <3>1, <1>t DEF Elsewhere, Actor, Idle
      <3> QED
        BY <2>1, <2>4, <3>2 DEF RunNow
    <2>5. ASSUME NEW i \in Ids, RetryRead(a, i) PROVE IInv'
      <3>1. i # 0 /\ i <= created
        BY <2>5, <1>k, ConstantsAssumption DEF RetryRead, Ids
      <3>2. [Idle EXCEPT !.pc = "retrying", !.found = i] \in Elsewhere
        <4>1. 0 \in Ids \cup {0} /\ 0 \in Checkpoints \cup {0}
          OBVIOUS
        <4> QED
          BY <3>1, <4>1 DEF Elsewhere, Actor, Idle
      <3> QED
        BY <2>1, <2>5, <3>2 DEF RetryRead
    <2> QED
      BY <1>5, <2>2, <2>3, <2>4, <2>5 DEF NewRequest
  <1>6. CASE RetryWrite(a)
    <2> DEFINE i == actor[a].found
    <2>1. i \in Ids /\ i <= created
      BY <1>6, <1>t DEF RetryWrite, IInv, RowsInv, Actor
    <2>2. jobs' = [jobs EXCEPT ![i].status = "active"] /\ created' = created
      BY <1>6 DEF RetryWrite
    <2> HIDE DEF i
    <2>3. KeysKept
      BY <2>1, <2>2, StatusUpdate
    <2> QED
      BY <1>6, <2>3, <1>t, ActorLeaves, ClaimsAlone DEF RetryWrite
  <1>7. CASE TriggerJob
    BY <1>7, <1>t, OtherInsert, ClaimsAlone DEF TriggerJob, Origins, Moves
  <1>8. CASE WindowOpens
    <2>1. window' \in Checkpoints \cup {0}
      BY <1>8, <1>t, ConstantsAssumption DEF WindowOpens, Checkpoints
    <2> QED
      BY <1>8, <2>1, <1>t, JobsUntouched, ClaimsAlone DEF WindowOpens, Moves
  <1>9. ASSUME NEW i \in Ids, JobEnds(i) PROVE IInv'
    <2>1. i <= created
      BY <1>9, <1>k DEF JobEnds
    <2>2. PICK s \in Ended : jobs' = [jobs EXCEPT ![i].status = s]
      BY <1>9 DEF JobEnds
    <2>3. KeysKept
      BY <2>1, <2>2, <1>9, StatusUpdate DEF JobEnds
    <2> QED
      BY <1>9, <2>3, <1>t, ClaimsAlone DEF JobEnds, Moves
  <1> QED
    BY <1>1, <1>2, <1>3, <1>4, <1>5, <1>6, <1>7, <1>8, <1>9 DEF ScheduleStep
-----------------------------------------------------------------------------
(* Steps at a claim.                                                        *)

\* Claiming: only an unclaimed checkpoint changes hands, and it has no job yet.
LEMMA ClaimCheckpointsInv ==
    ASSUME IInv, NEW a \in Actors, ClaimCheckpoints(a)
    PROVE  IInv'
  <1> DEFINE c == actor[a].about
  <1>t. /\ jobs \in [Ids -> JobRow] /\ created \in Ids \cup {0}
        /\ claim \in [Checkpoints -> ClaimRow] /\ actor \in [Actors -> Actor]
        /\ 0 \notin Checkpoints
    BY ConstantsAssumption DEF IInv, TypeOK, Checkpoints
  <1>1. /\ c \in Checkpoints /\ actor[a].pc = "checkpoints" /\ actor[a] \in Actor
        /\ jobs' = jobs /\ created' = created /\ ran' = ran /\ window' = window
    BY <1>t DEF ClaimCheckpoints, IInv, RowsInv, Actor
  <1>k. \A d \in Checkpoints : Keyed(d)' = Keyed(d) /\ ScheduleKeyed(d)' = ScheduleKeyed(d)
    BY <1>1 DEF Keyed, ScheduleKeyed
  <1>2. \A d \in Checkpoints :
           \/ claim'[d] = claim[d]
           \/ Unclaimed(d) /\ claim'[d] \in ClaimRow /\ claim'[d].status = "MISSED"
           \/ Unclaimed(d) /\ d = c /\ claim'[d] \in ClaimRow /\ claim'[d].status = "CLAIMED"
    BY <1>t DEF ClaimCheckpoints, ClaimRow
  <1>3. claim' \in [Checkpoints -> ClaimRow]
    <2>1. \A d \in Checkpoints : claim'[d] \in ClaimRow
      BY <1>2, <1>t
    <2>2. claim' = [d \in Checkpoints |-> claim'[d]]
      BY DEF ClaimCheckpoints
    <2> QED
      BY <2>1, <2>2
  <1>4. /\ actor' \in [Actors -> Actor]
        /\ \A b \in Actors : b # a => actor'[b] = actor[b]
        /\ \/ actor'[a] = Idle
           \/ /\ actor'[a].pc = "claimed" /\ actor'[a].about = c
              /\ Unclaimed(c) /\ claim'[c].status = "CLAIMED"
    <2>1. CASE Unclaimed(c)
      <3> DEFINE x == [actor[a] EXCEPT !.pc = "claimed"]
      <3>1. x \in Actor /\ x.pc = "claimed" /\ x.about = c
        BY <1>1 DEF Actor
      <3>2. actor' = [actor EXCEPT ![a] = x]
        BY <2>1, <1>t DEF ClaimCheckpoints, Goes
      <3>3. claim'[c].status = "CLAIMED"
        <4>1. ~Overdue(c, c)
          BY <1>1, ConstantsAssumption DEF Overdue, Checkpoints
        <4> QED
          BY <1>1, <1>t, <2>1, <4>1 DEF ClaimCheckpoints, ClaimRow
      <3> HIDE DEF x
      <3> QED
        BY <2>1, <3>1, <3>2, <3>3, <1>t
    <2>2. CASE ~Unclaimed(c)
      <3>1. actor' = [actor EXCEPT ![a] = Idle]
        BY <2>2, <1>1 DEF ClaimCheckpoints, Leaves
      <3> QED
        BY <3>1, <1>t, IdleActor
    <2> QED
      BY <2>1, <2>2
  <1> HIDE DEF c
  <1>5. TypeOK'
    BY <1>1, <1>3, <1>4 DEF IInv, TypeOK
  <1>6. RowsInv'
    <2>1. \A d \in Checkpoints : Adopting(d)' = Adopting(d)
      BY DEF Adopting, Actor, Ids, Checkpoints
    <2>2. ASSUME NEW b \in Actors
          PROVE  /\ actor'[b].pc \in {"schedules", "checkpoints", "claimed", "admitting"}
                       => actor'[b].about # 0
                 /\ actor'[b].pc = "retrying"
                       => actor'[b].found # 0 /\ actor'[b].found <= created'
      BY <1>1, <1>4, <1>t DEF IInv, RowsInv, Idle
    <2>3. ASSUME NEW b \in Actors, NEW d \in Checkpoints, actor'[b] \in Adopting(d)
          PROVE  actor'[b].found \in Keyed(d)' \cup ScheduleKeyed(d)'
      <3>1. b # a
        BY <2>3, <1>4 DEF Adopting, Idle
      <3> QED
        BY <2>3, <3>1, <1>4, <1>k DEF IInv, RowsInv
    <2> QED
      BY <1>1, <2>1, <2>2, <2>3 DEF IInv, RowsInv
  <1>7. HolderInv'
    <2>1. ASSUME NEW b \in Actors, NEW d \in Checkpoints, Holds(b, d)'
          PROVE  \/ b # a /\ Holds(b, d) /\ claim'[d] = claim[d]
                 \/ b = a /\ d = c /\ Unclaimed(c) /\ claim'[c].status = "CLAIMED"
      BY <2>1, <1>2, <1>4 DEF Holds, IInv, HolderInv, Unclaimed, Idle
    <2>2. ASSUME NEW b \in Actors, NEW d \in Checkpoints, Holds(b, d)'
          PROVE  claim'[d].status = "CLAIMED"
      BY <2>1, <2>2 DEF IInv, HolderInv
    <2>3. ASSUME NEW b \in Actors, NEW e \in Actors, NEW d \in Checkpoints,
                 Holds(b, d)', Holds(e, d)'
          PROVE  b = e
      BY <2>1, <2>3 DEF IInv, HolderInv, Unclaimed
    <2>4. ASSUME NEW d \in Checkpoints, claim'[d].status # "RUNNING"
          PROVE  Keyed(d)' = {}
      BY <2>4, <1>2, <1>k DEF IInv, HolderInv, Unclaimed
    <2> QED
      BY <2>2, <2>3, <2>4 DEF HolderInv
  <1>8. OneJobPerKey' /\ ClaimMatchesJobs'
    <2>1. OneJobPerKey'
      BY <1>k DEF IInv, OneJobPerKey
    <2>2. ASSUME NEW d \in Checkpoints
          PROVE  /\ claim'[d].status \in {"REUSED", "MISSED", "BLOCKED"} => Keyed(d)' = {}
                 /\ claim'[d].status = "RUNNING"
                       => claim'[d].job \in Keyed(d)' \cup ScheduleKeyed(d)'
      BY <1>2, <1>k DEF IInv, ClaimMatchesJobs, HolderInv, Unclaimed
    <2> QED
      BY <2>1, <2>2 DEF ClaimMatchesJobs
  <1> QED
    BY <1>5, <1>6, <1>7, <1>8 DEF IInv

\* The lookup keeps the claim in the same hands, and what it takes for a job of
\* the checkpoint is one.
LEMMA LookUpInv ==
    ASSUME IInv, NEW a \in Actors, LookUp(a)
    PROVE  IInv'
  <1> DEFINE c == actor[a].about
             own == IF Keyed(c) # {} THEN Keyed(c) ELSE ScheduledBefore(c, actor[a].born)
             r == (own = {})
  <1>t. /\ jobs \in [Ids -> JobRow] /\ created \in Ids \cup {0}
        /\ claim \in [Checkpoints -> ClaimRow] /\ actor \in [Actors -> Actor]
        /\ 0 \notin Checkpoints /\ 0 \notin Ids
    BY ConstantsAssumption DEF IInv, TypeOK, Checkpoints, Ids
  <1>1. /\ c \in Checkpoints /\ actor[a].pc = "claimed" /\ actor[a] \in Actor
        /\ jobs' = jobs /\ created' = created /\ ran' = ran /\ window' = window
        /\ claim' = claim
    BY <1>t DEF LookUp, IInv, RowsInv, Actor
  <1>2. own \subseteq Keyed(c) \cup ScheduleKeyed(c)
    BY DEF ScheduledBefore
  <1>3. PICK f \in Ids \cup {0} :
           /\ Newest(f, IF own # {} THEN own ELSE ActiveJobs)
           /\ actor' = [actor EXCEPT ![a] =
                 [@ EXCEPT !.pc = "admitting", !.found = f, !.reuse = r, !.born = 0]]
    BY DEF LookUp
  <1> DEFINE x == [actor[a] EXCEPT !.pc = "admitting", !.found = f, !.reuse = r, !.born = 0]
  <1>4. x \in Actor /\ x.pc = "admitting" /\ x.about = c /\ x.found = f /\ x.reuse = r
    <2>1. r \in BOOLEAN
      OBVIOUS
    <2> HIDE DEF r
    <2> QED
      BY <1>1, <2>1 DEF Actor
  <1>5. /\ actor' \in [Actors -> Actor] /\ actor'[a] = x
        /\ \A b \in Actors : b # a => actor'[b] = actor[b]
    <2>1. actor' = [actor EXCEPT ![a] = x]
      BY <1>3
    <2> HIDE DEF x
    <2> QED
      BY <1>4, <1>t, <2>1
  <1>6. ~r /\ f # 0 => f \in Keyed(c) \cup ScheduleKeyed(c)
    BY <1>2, <1>3 DEF Newest
  <1>k. \A d \in Checkpoints : Keyed(d)' = Keyed(d) /\ ScheduleKeyed(d)' = ScheduleKeyed(d)
    BY <1>1 DEF Keyed, ScheduleKeyed
  <1> HIDE DEF x, r, own
  <1>7. TypeOK'
    BY <1>1, <1>5 DEF IInv, TypeOK
  <1>8. RowsInv'
    <2>1. \A d \in Checkpoints : Adopting(d)' = Adopting(d)
      BY DEF Adopting, Actor, Ids, Checkpoints
    <2>2. ASSUME NEW b \in Actors
          PROVE  /\ actor'[b].pc \in {"schedules", "checkpoints", "claimed", "admitting"}
                       => actor'[b].about # 0
                 /\ actor'[b].pc = "retrying"
                       => actor'[b].found # 0 /\ actor'[b].found <= created'
      BY <1>1, <1>4, <1>5, <1>t DEF IInv, RowsInv
    <2>3. ASSUME NEW b \in Actors, NEW d \in Checkpoints, actor'[b] \in Adopting(d)
          PROVE  actor'[b].found \in Keyed(d)' \cup ScheduleKeyed(d)'
      <3>1. CASE b = a
        BY <2>3, <3>1, <1>4, <1>5, <1>6, <1>k DEF Adopting
      <3>2. CASE b # a
        BY <2>3, <3>2, <1>5, <1>k DEF IInv, RowsInv
      <3> QED
        BY <3>1, <3>2
    <2> QED
      BY <1>1, <2>1, <2>2, <2>3 DEF IInv, RowsInv
  <1>9. \A b \in Actors : \A d \in Checkpoints : Holds(b, d)' => Holds(b, d)
    BY <1>1, <1>4, <1>5 DEF Holds
  <1>10. HolderInv' /\ OneJobPerKey' /\ ClaimMatchesJobs'
    BY <1>1, <1>9, <1>k DEF IInv, HolderInv, OneJobPerKey, ClaimMatchesJobs
  <1> QED
    BY <1>7, <1>8, <1>10 DEF IInv

\* The verdict of the holder: it leaves, and the claim becomes "RUNNING" with a job
\* of the checkpoint, or is closed without one; no other claim changes.
LEMMA VerdictInv ==
    ASSUME IInv, NEW a \in Actors, NEW c \in Checkpoints, Holds(a, c),
           Leaves(a), UNCHANGED <<ran, window>>,
           NEW s \in {"RUNNING", "REUSED", "BLOCKED"}, NEW j \in Ids \cup {0}, Settle(c, s, j),
           jobs' \in [Ids -> JobRow], created' \in Ids \cup {0}, created <= created',
           \A i \in Ids : i > created' => jobs'[i] = NoJob,
           \A d \in Checkpoints : d # c => Keyed(d)' = Keyed(d),
           \A d \in Checkpoints : ScheduleKeyed(d) \subseteq ScheduleKeyed(d)',
           Keyed(c) \subseteq Keyed(c)', \A i, k \in Keyed(c)' : i = k,
           s # "RUNNING" => Keyed(c)' = {},
           s = "RUNNING" => j \in Keyed(c)' \cup ScheduleKeyed(c)'
    PROVE  IInv'
  <1>t. /\ created \in Nat /\ created' \in Nat
        /\ claim \in [Checkpoints -> ClaimRow] /\ actor \in [Actors -> Actor]
    BY ConstantsAssumption DEF IInv, TypeOK, Ids
  <1> DEFINE row == [status |-> s, job |-> j]
  <1>1. claim' = [claim EXCEPT ![c] = row] /\ row \in ClaimRow /\ row.status = s /\ row.job = j
    BY DEF Settle, ClaimRow
  <1> HIDE DEF row
  <1>2. /\ claim' \in [Checkpoints -> ClaimRow] /\ claim'[c] = row
        /\ \A d \in Checkpoints : d # c => claim'[d] = claim[d]
    BY <1>1, <1>t
  <1>3. /\ actor' \in [Actors -> Actor] /\ actor'[a] = Idle
        /\ \A b \in Actors : b # a => actor'[b] = actor[b]
    BY <1>t, IdleActor DEF Leaves
  <1>4. TypeOK'
    BY <1>2, <1>3 DEF IInv, TypeOK
  <1>5. RowsInv'
    <2>1. \A d \in Checkpoints : Adopting(d)' = Adopting(d)
      BY DEF Adopting, Actor, Ids, Checkpoints
    <2>2. ASSUME NEW b \in Actors
          PROVE  /\ actor'[b].pc \in {"schedules", "checkpoints", "claimed", "admitting"}
                       => actor'[b].about # 0
                 /\ actor'[b].pc = "retrying"
                       => actor'[b].found # 0 /\ actor'[b].found <= created'
      <3>1. CASE b = a
        BY <3>1, <1>3 DEF Idle
      <3>2. CASE b # a
        <4>1. actor[b].found \in Nat
          BY <1>t, ConstantsAssumption DEF Actor, Ids
        <4> QED
          BY <3>2, <4>1, <1>3, <1>t DEF IInv, RowsInv
      <3> QED
        BY <3>1, <3>2
    <2>3. ASSUME NEW b \in Actors, NEW d \in Checkpoints, actor'[b] \in Adopting(d)
          PROVE  actor'[b].found \in Keyed(d)' \cup ScheduleKeyed(d)'
      <3>1. b # a
        BY <2>3, <1>3 DEF Adopting, Idle
      <3>2. Keyed(d) \subseteq Keyed(d)'
        OBVIOUS
      <3> QED
        BY <2>3, <3>1, <3>2, <1>3 DEF IInv, RowsInv
    <2> QED
      BY <2>1, <2>2, <2>3 DEF RowsInv
  <1>6. \A b \in Actors : \A d \in Checkpoints : Holds(b, d)' => b # a /\ d # c /\ Holds(b, d)
    BY <1>3 DEF Holds, Idle, IInv, HolderInv
  <1>7. HolderInv'
    <2>1. \A d \in Checkpoints : claim'[d].status # "RUNNING" => Keyed(d)' = {}
      BY <1>1, <1>2 DEF IInv, HolderInv
    <2> QED
      BY <1>2, <1>6, <2>1 DEF IInv, HolderInv
  <1>8. OneJobPerKey'
    BY DEF IInv, OneJobPerKey
  <1>9. ClaimMatchesJobs'
    BY <1>1, <1>2 DEF IInv, ClaimMatchesJobs
  <1> QED
    BY <1>4, <1>5, <1>7, <1>8, <1>9 DEF IInv

\* The three verdicts.
LEMMA VerdictSteps ==
    ASSUME IInv, NEW a \in Actors, Reuse(a) \/ Admit(a) \/ Block(a)
    PROVE  IInv'
  <1>t. /\ jobs \in [Ids -> JobRow] /\ created \in Ids \cup {0} /\ created \in Nat
        /\ actor[a] \in Actor /\ 0 \notin Checkpoints
    BY ConstantsAssumption DEF IInv, TypeOK, Checkpoints, Ids
  <1>0. PICK c \in Checkpoints, f \in Ids \cup {0} :
           actor[a].about = c /\ actor[a].found = f
    BY <1>t DEF Reuse, Admit, Block, IInv, RowsInv, Actor
  <1>1. /\ actor[a].pc = "admitting" /\ Holds(a, c)
        /\ Leaves(a) /\ UNCHANGED <<ran, window>>
    BY <1>0 DEF Reuse, Admit, Block, Holds
  <1>2. Keyed(c) = {}
    BY <1>1 DEF IInv, HolderInv
  <1>3. \A i \in Ids : i > created => jobs[i] = NoJob
    BY DEF IInv, RowsInv
  <1>4. ASSUME UNCHANGED <<jobs, created>>
        PROVE  /\ jobs' \in [Ids -> JobRow] /\ created' \in Ids \cup {0} /\ created <= created'
               /\ \A i \in Ids : i > created' => jobs'[i] = NoJob
               /\ \A d \in Checkpoints : Keyed(d)' = Keyed(d) /\ ScheduleKeyed(d)' = ScheduleKeyed(d)
    BY <1>4, <1>3, <1>t DEF Keyed, ScheduleKeyed
  <1>5. CASE Reuse(a)
    <2>1. f # 0 /\ UNCHANGED <<jobs, created>>
      BY <1>0, <1>5 DEF Reuse
    <2>2. CASE actor[a].reuse
      <3>1. Settle(c, "REUSED", f)
        BY <1>0, <1>5, <2>2 DEF Reuse
      <3> QED
        BY <1>1, <1>2, <1>4, <2>1, <3>1, VerdictInv
    <2>3. CASE ~actor[a].reuse
      <3>1. Settle(c, "RUNNING", f)
        BY <1>0, <1>5, <2>3 DEF Reuse
      <3>2. f \in Keyed(c) \cup ScheduleKeyed(c)
        BY <1>0, <1>1, <1>t, <2>1, <2>3 DEF IInv, RowsInv, Adopting
      <3> QED
        BY <1>1, <1>2, <1>4, <2>1, <3>1, <3>2, VerdictInv
    <2> QED
      BY <2>2, <2>3
  <1>6. CASE Admit(a)
    <2>1. Insert("checkpoint", c) /\ Settle(c, "RUNNING", created + 1)
      BY <1>0, <1>6 DEF Admit
    <2>2. /\ created + 1 \in Ids /\ created' = created + 1
          /\ jobs' \in [Ids -> JobRow] /\ created' \in Ids \cup {0}
          /\ \A i \in Ids : i > created' => jobs'[i] = NoJob
          /\ Keyed(c)' = {created + 1}
          /\ \A d \in Checkpoints : d # c => Keyed(d)' = Keyed(d)
          /\ \A d \in Checkpoints : ScheduleKeyed(d) \subseteq ScheduleKeyed(d)'
      <3>1. TypeOK /\ RowsInv /\ "checkpoint" \in Origins /\ c \in Checkpoints \cup {0}
        BY DEF IInv, Origins
      <3>2. /\ created + 1 \in Ids /\ created' = created + 1
            /\ jobs' \in [Ids -> JobRow] /\ created' \in Ids \cup {0}
            /\ \A i \in Ids : i > created' => jobs'[i] = NoJob
            /\ \A d \in Checkpoints :
                  /\ c # d => Keyed(d)' = Keyed(d)
                  /\ c = d => Keyed(d)' = Keyed(d) \cup {created + 1}
                  /\ ScheduleKeyed(d) \subseteq ScheduleKeyed(d)'
        BY <2>1, <3>1, InsertRows
      <3> QED
        BY <1>1, <1>2, <3>2
    <2>3. created <= created'
      BY <2>2, <1>t
    <2>4. DEFINE j == created + 1
    <2>5. /\ j \in Ids \cup {0} /\ Settle(c, "RUNNING", j) /\ Keyed(c) \subseteq Keyed(c)'
          /\ j \in Keyed(c)' \cup ScheduleKeyed(c)' /\ \A i, k \in Keyed(c)' : i = k
      BY <1>2, <2>1, <2>2
    <2>6. \A d \in Checkpoints : d # c => Keyed(d)' = Keyed(d)
      BY <2>2
    <2> HIDE DEF j
    <2> QED
      BY <1>1, <2>2, <2>3, <2>5, <2>6, VerdictInv
  <1>7. CASE Block(a)
    <2>1. Settle(c, "BLOCKED", 0) /\ UNCHANGED <<jobs, created>>
      BY <1>0, <1>7 DEF Block
    <2> QED
      BY <1>1, <1>2, <1>4, <2>1, VerdictInv
  <1> QED
    BY <1>5, <1>6, <1>7

-----------------------------------------------------------------------------
(* The safety of the admission.                                             *)

\* Before the first tick there is no job and no claim.
LEMMA InitInv == Init => IInv
  <1> SUFFICES ASSUME Init PROVE IInv
    OBVIOUS
  <1>1. NoJob \in JobRow /\ [status |-> "none", job |-> 0] \in ClaimRow
    BY DEF NoJob, JobRow, ClaimRow
  <1>2. TypeOK
    BY <1>1, IdleActor DEF Init, TypeOK
  <1>3. RowsInv
    BY DEF Init, RowsInv, Idle, Adopting
  <1>4. \A c \in Checkpoints : Keyed(c) = {}
    BY DEF Init, Keyed, NoJob
  <1>5. HolderInv /\ OneJobPerKey /\ ClaimMatchesJobs
    BY <1>4 DEF Init, HolderInv, OneJobPerKey, ClaimMatchesJobs, Holds, Idle
  <1> QED
    BY <1>2, <1>3, <1>5 DEF IInv

\* Every step, of any actor, keeps the invariant.
LEMMA InvStep == IInv /\ [Next]_vars => IInv'
  <1> SUFFICES ASSUME IInv, [Next]_vars PROVE IInv'
    OBVIOUS
  <1>s. Scheduler \in Actors /\ Requests \subseteq Actors
    BY DEF Actors
  <1>1. CASE SchedulerStep
    BY <1>1, <1>s, OtherSteps, ClaimCheckpointsInv, LookUpInv, VerdictSteps
       DEF SchedulerStep, CheckpointStep
  <1>2. ASSUME NEW r \in Requests, NewRequest(r) \/ RequestStep(r) PROVE IInv'
    BY <1>2, <1>s, OtherSteps, ClaimCheckpointsInv, LookUpInv, VerdictSteps
       DEF RequestStep, CheckpointStep
  <1>3. CASE TriggerJob \/ (\E i \in Ids : JobEnds(i)) \/ WindowOpens
    BY <1>3, <1>s, OtherSteps
  <1>4. CASE UNCHANGED vars
    BY <1>4 DEF vars, IInv, TypeOK, RowsInv, HolderInv, OneJobPerKey, ClaimMatchesJobs,
                Holds, Adopting, Keyed, ScheduleKeyed
  <1> QED
    BY <1>1, <1>2, <1>3, <1>4 DEF Next

\* The invariant holds for any number of requests, checkpoints and jobs.
THEOREM AdmissionInvariance == Spec => []IInv
  BY InitInv, InvStep, PTL DEF Spec

\* Every reachable state is well typed.
THEOREM AdmissionTypes == Spec => []TypeOK
  <1>1. IInv => TypeOK
    BY DEF IInv
  <1> QED
    BY AdmissionInvariance, <1>1, PTL

\* No two jobs have the key of one checkpoint, whoever runs the checkpoints at the
\* same time: _admit_checkpoint_job never runs into the unique key.
THEOREM KeyUnique == Spec => []OneJobPerKey
  <1>1. IInv => OneJobPerKey
    BY DEF IInv
  <1> QED
    BY AdmissionInvariance, <1>1, PTL

\* A checkpoint closed as reused, missed or blocked has no job of its own, and a
\* running one follows a job of its own.
THEOREM ClaimsMatch == Spec => []ClaimMatchesJobs
  <1>1. IInv => ClaimMatchesJobs
    BY DEF IInv
  <1> QED
    BY AdmissionInvariance, <1>1, PTL

-----------------------------------------------------------------------------
(* The scheduler alone.                                                     *)

\* The conditions under which the lookup of active_portfolio_analysis suffices.
SchedulerAlone == Kinds = {} /\ Monitored = FALSE

\* A job that is inserted while none is active is the only active one.
LEMMA InsertQuiet ==
    ASSUME IInv, NEW o \in Origins, NEW n \in Checkpoints \cup {0}, Insert(o, n),
           ActiveJobs = {}
    PROVE  OneAnalysisPerPortfolio'
  <1>1. created + 1 \in Ids
    BY InsertRows DEF IInv
  <1>2. \A i \in Ids : i # created + 1 => jobs'[i] = jobs[i]
    BY <1>1 DEF Insert, IInv, TypeOK
  <1>3. \A i \in Ids : jobs'[i].status = "active" => i = created + 1
    BY <1>2 DEF ActiveJobs
  <1> QED
    BY <1>3 DEF OneAnalysisPerPortfolio, ActiveJobs

\* Where the tick or a request goes after its legacy schedule.
LEMMA PassedTo ==
    ASSUME IInv, NEW a \in Actors, SchedulePassed(a)
    PROVE  \E x \in Actor : /\ x.pc \in {"checkpoints", "idle"}
                            /\ actor' = [actor EXCEPT ![a] = x]
  <1>1. CASE a = Scheduler
    <2> DEFINE x == [actor[a] EXCEPT !.pc = "checkpoints", !.rekeyed = FALSE]
    <2>1. x \in Actor /\ x.pc = "checkpoints"
      BY DEF IInv, TypeOK, Actor
    <2>2. actor' = [actor EXCEPT ![a] = x]
      BY <1>1 DEF SchedulePassed, IInv, TypeOK
    <2> HIDE DEF x
    <2> QED
      BY <2>1, <2>2
  <1>2. CASE a # Scheduler
    BY <1>2, IdleActor DEF SchedulePassed, Leaves, Idle
  <1> QED
    BY <1>1, <1>2

\* A lookup that finds nothing has found no active analysis.
LEMMA LookUpFinds ==
    ASSUME IInv, NEW a \in Actors, LookUp(a)
    PROVE  \E x \in Actor : /\ actor' = [actor EXCEPT ![a] = x] /\ x.pc = "admitting"
                            /\ x.found = 0 => ActiveJobs = {}
  <1> DEFINE own == IF Keyed(actor[a].about) # {} THEN Keyed(actor[a].about)
                    ELSE ScheduledBefore(actor[a].about, actor[a].born)
             r == (own = {})
  <1>t. actor \in [Actors -> Actor] /\ 0 \notin Ids
    BY DEF IInv, TypeOK, Ids
  <1>1. PICK f \in Ids \cup {0} :
           /\ Newest(f, IF own # {} THEN own ELSE ActiveJobs)
           /\ actor' = [actor EXCEPT ![a] =
                 [@ EXCEPT !.pc = "admitting", !.found = f, !.reuse = r, !.born = 0]]
    BY DEF LookUp
  <1>2. f = 0 => ActiveJobs = {}
    <2>1. own \subseteq Ids /\ ActiveJobs \subseteq Ids
      BY DEF Keyed, ScheduledBefore, ScheduleKeyed, ActiveJobs
    <2> HIDE DEF own
    <2> QED
      BY <1>1, <2>1, <1>t DEF Newest
  <1> DEFINE x == [actor[a] EXCEPT !.pc = "admitting", !.found = f, !.reuse = r, !.born = 0]
  <1>3. r \in BOOLEAN
    OBVIOUS
  <1>4. actor' = [actor EXCEPT ![a] = x]
    BY <1>1, <1>t
  <1> HIDE DEF r
  <1>5. x \in Actor /\ x.pc = "admitting" /\ x.found = f
    BY <1>3, <1>t DEF Actor
  <1> HIDE DEF x
  <1> QED
    BY <1>2, <1>4, <1>5

\* The tick looks and inserts with nobody in between, so it keeps the portfolio at
\* one active analysis.
LEMMA QuietStep ==
    ASSUME SchedulerAlone, IInv, QuietInv, [Next]_vars
    PROVE  QuietInv'
  <1> DEFINE a == Scheduler
  <1>t. /\ actor \in [Actors -> Actor] /\ jobs \in [Ids -> JobRow] /\ Scheduler \in Actors
        /\ Requests \subseteq Actors /\ Scheduler \notin Requests /\ 0 \notin Ids
        /\ 0 \notin Checkpoints
    BY ConstantsAssumption DEF IInv, TypeOK, Actors, Ids, Checkpoints
  <1>f. \A r \in Requests : actor[r] = Idle
    BY DEF QuietInv
  <1>1. ASSUME NEW x \in Actor, actor' = [actor EXCEPT ![Scheduler] = x], UNCHANGED jobs,
               x.pc = "inserting" => ActiveJobs = {},
               x.pc = "admitting" /\ x.found = 0 => ActiveJobs = {}
        PROVE  QuietInv'
    BY <1>1, <1>t DEF QuietInv, OneAnalysisPerPortfolio, ActiveJobs
  <1>2. ASSUME NEW x \in Actor, actor' = [actor EXCEPT ![Scheduler] = x],
               OneAnalysisPerPortfolio', x.pc \notin {"inserting", "admitting"}
        PROVE  QuietInv'
    BY <1>2, <1>t DEF QuietInv
  <1>3. CASE TickBegin
    <2>1. [Idle EXCEPT !.pc = "schedules", !.about = window, !.born = created] \in Actor
      BY DEF IInv, TypeOK, Idle, Actor
    <2> QED
      BY <1>1, <1>3, <2>1 DEF TickBegin, Idle
  <1>p. ASSUME SchedulePassed(a)
        PROVE  \E x \in Actor : /\ x.pc \in {"checkpoints", "idle"}
                                /\ actor' = [actor EXCEPT ![a] = x]
    BY <1>p, <1>t, PassedTo
  <1>4. CASE LookUpSchedule(a)
    <2>1. CASE SchedulePassed(a)
      BY <1>1, <1>4, <1>p, <2>1 DEF LookUpSchedule
    <2>2. CASE /\ ActiveJobs = {} /\ UNCHANGED jobs
               /\ actor' = [actor EXCEPT ![a].pc = "inserting",
                                         ![a].rekeyed = ScheduleKeyed(actor[a].about) # {}]
      <3> DEFINE b == ScheduleKeyed(actor[a].about) # {}
                 x == [actor[a] EXCEPT !.pc = "inserting", !.rekeyed = b]
      <3>1. b \in BOOLEAN
        OBVIOUS
      <3> HIDE DEF b
      <3>2. x \in Actor /\ x.pc = "inserting"
        BY <3>1, <1>t DEF Actor
      <3>3. actor' = [actor EXCEPT ![a] = x]
        BY <2>2, <1>t DEF b
      <3> HIDE DEF x
      <3> QED
        BY <1>1, <2>2, <3>2, <3>3
    <2> QED
      BY <1>4, <2>1, <2>2 DEF LookUpSchedule, LegacyFinds
  <1>5. CASE InsertScheduled(a)
    <2>1. ActiveJobs = {}
      BY <1>5 DEF InsertScheduled, QuietInv
    <2>2. CASE Insert("legacy", actor[a].about) /\ SchedulePassed(a)
      <3>1. actor[a].about \in Checkpoints \cup {0} /\ "legacy" \in Origins
        BY <1>t DEF Actor, Origins
      <3>2. OneAnalysisPerPortfolio'
        BY <2>1, <2>2, <3>1, InsertQuiet
      <3> QED
        BY <1>2, <1>p, <2>2, <3>2
    <2>3. CASE Leaves(a) /\ UNCHANGED jobs
      BY <1>1, <2>3, IdleActor DEF Leaves, Idle
    <2> QED
      BY <1>5, <2>2, <2>3 DEF InsertScheduled
  <1>6. CASE ClaimCheckpoints(a)
    <2>1. CASE Goes(a, "claimed")
      <3> DEFINE x == [actor[a] EXCEPT !.pc = "claimed"]
      <3>1. x \in Actor /\ x.pc = "claimed" /\ actor' = [actor EXCEPT ![a] = x]
        BY <2>1, <1>t DEF Goes, Actor
      <3> HIDE DEF x
      <3> QED
        BY <1>1, <1>6, <3>1 DEF ClaimCheckpoints
    <2>2. CASE Leaves(a)
      BY <1>1, <1>6, <2>2, IdleActor DEF Leaves, Idle, ClaimCheckpoints
    <2> QED
      BY <1>6, <2>1, <2>2 DEF ClaimCheckpoints
  <1>7. CASE LookUp(a)
    BY <1>1, <1>7, <1>t, LookUpFinds DEF LookUp
  <1>8. CASE Reuse(a) \/ Block(a)
    BY <1>1, <1>8, IdleActor DEF Reuse, Block, Leaves, Idle
  <1>9. CASE Admit(a)
    <2>1. ActiveJobs = {} /\ Insert("checkpoint", actor[a].about) /\ Leaves(a)
      BY <1>9 DEF Admit, QuietInv
    <2>2. actor[a].about \in Checkpoints \cup {0} /\ "checkpoint" \in Origins
      BY <1>t DEF Actor, Origins
    <2>3. OneAnalysisPerPortfolio'
      BY <2>1, <2>2, InsertQuiet
    <2> QED
      BY <1>2, <2>1, <2>3, IdleActor DEF Leaves, Idle
  <1>10. ASSUME NEW r \in Requests, NewRequest(r) \/ RequestStep(r) PROVE QuietInv'
    <2>1. ~NewRequest(r)
      BY DEF SchedulerAlone, NewRequest, ManualRead, Reconcile, RunNow, RetryRead
    <2>2. ~RequestStep(r)
      <3>1. actor[r].pc = "idle"
        BY <1>f DEF Idle
      <3>2. ~ScheduleStep(r)
        BY <3>1 DEF ScheduleStep, LookUpSchedule, InsertScheduled
      <3>3. ~CheckpointStep(r)
        BY <3>1 DEF CheckpointStep, ClaimCheckpoints, LookUp, Reuse, Admit, Block
      <3> QED
        BY <3>1, <3>2, <3>3 DEF RequestStep, ManualInsert, RetryWrite
    <2> QED
      BY <1>10, <2>1, <2>2
  <1>11. CASE TriggerJob
    BY <1>11 DEF SchedulerAlone, TriggerJob
  <1>12. ASSUME NEW i \in Ids, JobEnds(i) PROVE QuietInv'
    <2>1. ActiveJobs' \subseteq ActiveJobs
      BY <1>12, <1>t DEF JobEnds, ActiveJobs, Ended, JobRow
    <2> QED
      BY <1>12, <2>1 DEF JobEnds, QuietInv, OneAnalysisPerPortfolio
  <1>13. CASE UNCHANGED <<jobs, actor>>
    BY <1>13 DEF QuietInv, OneAnalysisPerPortfolio, ActiveJobs
  <1> QED
    BY <1>3, <1>4, <1>5, <1>6, <1>7, <1>8, <1>9, <1>10, <1>11, <1>12, <1>13
       DEF Next, SchedulerStep, ScheduleStep, CheckpointStep, WindowOpens, vars

\* With no requests and no monitor, at most one analysis of the portfolio is active:
\* what the shared admission checks promise holds for the scheduler alone.
THEOREM OneAnalysisAlone == SchedulerAlone /\ Spec => []OneAnalysisPerPortfolio
  <1>1. Init => QuietInv
    BY DEF Init, QuietInv, Idle, NoJob, ActiveJobs, OneAnalysisPerPortfolio, Actors
  <1>2. SchedulerAlone /\ IInv /\ QuietInv /\ [Next]_vars => QuietInv'
    BY QuietStep
  <1>3. QuietInv => OneAnalysisPerPortfolio
    BY DEF QuietInv
  <1>4. SchedulerAlone => []SchedulerAlone
    <2>1. SchedulerAlone => SchedulerAlone'
      BY DEF SchedulerAlone
    <2> QED
      BY <2>1, PTL
  <1> QED
    BY <1>1, <1>2, <1>3, <1>4, AdmissionInvariance, PTL DEF Spec

-----------------------------------------------------------------------------
(* How many analyses can be active at once.                                 *)

\* The actors whose lookup found nothing, and which may still insert.
Pending ==
    {a \in Actors : \/ actor[a].pc = "inserting"
                    \/ actor[a].pc = "admitting" /\ actor[a].found = 0}

\* One for every actor that can have looked before the first INSERT, and one for
\* the monitor.
Limit == Cardinality(Actors) + (IF Monitored THEN 1 ELSE 0)

\* The conditions of the bound: a retry makes a job active without a lookup.
LookupsOnly == "retry" \notin Kinds /\ IsFiniteSet(Requests)

\* The sets that are counted are finite, and the limit leaves room for the actors.
LEMMA Counts ==
    ASSUME LookupsOnly
    PROVE  /\ IsFiniteSet(Actors) /\ IsFiniteSet(ActiveJobs) /\ IsFiniteSet(Pending)
           /\ Cardinality(ActiveJobs) \in Nat /\ Cardinality(Pending) \in Nat
           /\ Cardinality(Pending) <= Cardinality(Actors)
           /\ Cardinality(Actors) \in Nat /\ Limit \in Nat /\ Cardinality(Actors) <= Limit
           /\ Monitored => Limit = Cardinality(Actors) + 1
  <1>1. IsFiniteSet(Actors)
    BY FS_AddElement DEF LookupsOnly, Actors
  <1>2. IsFiniteSet(Ids)
    BY ConstantsAssumption, FS_Interval DEF Ids
  <1>3. IsFiniteSet(ActiveJobs)
    BY <1>2, FS_Subset DEF ActiveJobs
  <1>4. IsFiniteSet(Pending) /\ Cardinality(Pending) <= Cardinality(Actors)
    BY <1>1, FS_Subset DEF Pending
  <1>5. /\ Cardinality(Actors) \in Nat /\ Cardinality(ActiveJobs) \in Nat
        /\ Cardinality(Pending) \in Nat
    BY <1>1, <1>3, <1>4, FS_CardinalityType
  <1>6. Limit \in Nat /\ Cardinality(Actors) <= Limit
    BY <1>5 DEF Limit
  <1>7. Monitored => Limit = Cardinality(Actors) + 1
    BY DEF Limit
  <1> QED
    BY <1>1, <1>3, <1>4, <1>5, <1>6, <1>7

\* No actor is about to retry.
NoneRetries == \A a \in Actors : actor[a].pc # "retrying"

\* Whoever looks while an analysis is active inserts nothing, so from then on every
\* new active analysis uses up a pending insertion.
Within == ActiveJobs # {} => Cardinality(ActiveJobs) + Cardinality(Pending) <= Limit

\* A step that adds no active analysis adds no pending one, or leaves none active.
LEMMA NoMore ==
    ASSUME LookupsOnly, Within,
           \/ ActiveJobs' = {}
           \/ ActiveJobs' \subseteq ActiveJobs /\ Pending' \subseteq Pending
    PROVE  Within'
  <1>1. CASE ActiveJobs' = {}
    BY <1>1 DEF Within
  <1>2. CASE /\ ActiveJobs' # {} /\ ActiveJobs' \subseteq ActiveJobs
             /\ Pending' \subseteq Pending
    <2>1. /\ Cardinality(ActiveJobs') <= Cardinality(ActiveJobs)
          /\ Cardinality(Pending') <= Cardinality(Pending)
          /\ IsFiniteSet(ActiveJobs') /\ IsFiniteSet(Pending')
      BY <1>2, Counts, FS_Subset
    <2>2. Cardinality(ActiveJobs') \in Nat /\ Cardinality(Pending') \in Nat
      BY <2>1, FS_CardinalityType
    <2>3. Cardinality(ActiveJobs) + Cardinality(Pending) <= Limit
      BY <1>2 DEF Within
    <2>4. Cardinality(ActiveJobs') + Cardinality(Pending') <= Limit
      BY <2>1, <2>2, <2>3, Counts
    <2> QED
      BY <2>4 DEF Within, Limit
  <1> QED
    BY <1>1, <1>2

\* Only the row of the new id becomes active.
LEMMA InsertActive ==
    ASSUME IInv, NEW o \in Origins, NEW n \in Checkpoints \cup {0}, Insert(o, n)
    PROVE  ActiveJobs' = ActiveJobs \cup {created + 1} /\ created + 1 \notin ActiveJobs
  <1>1. created + 1 \in Ids /\ created \in Nat
    BY InsertRows, ConstantsAssumption DEF IInv, TypeOK, Ids
  <1>2. jobs[created + 1] = NoJob
    BY <1>1 DEF IInv, RowsInv
  <1>3. \A i \in Ids : jobs'[i] = IF i = created + 1
                                  THEN [origin |-> o, about |-> n, status |-> "active"]
                                  ELSE jobs[i]
    BY <1>1 DEF Insert, IInv, TypeOK
  <1> QED
    BY <1>1, <1>2, <1>3 DEF ActiveJobs, NoJob

\* An INSERT turns one pending insertion into one active analysis.
LEMMA PendingInserts ==
    ASSUME LookupsOnly, IInv, Within, NEW o \in Origins, NEW n \in Checkpoints \cup {0},
           Insert(o, n), NEW a \in Pending, Pending' = Pending \ {a}
    PROVE  Within'
  <1>1. /\ Cardinality(ActiveJobs') = Cardinality(ActiveJobs) + 1
    BY InsertActive, Counts, FS_AddElement
  <1>2. Cardinality(Pending') = Cardinality(Pending) - 1
    BY Counts, FS_RemoveElement
  <1>3. CASE ActiveJobs = {}
    <2>1. Cardinality(ActiveJobs) = 0
      BY <1>3, FS_EmptySet
    <2>2. Cardinality(ActiveJobs') + Cardinality(Pending') <= Limit
      BY <1>1, <1>2, <2>1, Counts
    <2> QED
      BY <2>2 DEF Within, Limit
  <1>4. CASE ActiveJobs # {}
    <2>1. Cardinality(ActiveJobs) + Cardinality(Pending) <= Limit
      BY <1>4 DEF Within
    <2>2. Cardinality(ActiveJobs') + Cardinality(Pending') <= Limit
      BY <1>1, <1>2, <2>1, Counts
    <2> QED
      BY <2>2 DEF Within, Limit
  <1> QED
    BY <1>3, <1>4

\* The monitor inserts with what it has just read.
LEMMA TriggerWithin ==
    ASSUME LookupsOnly, IInv, TriggerJob
    PROVE  Within'
  <1>1. Insert("trigger", 0) /\ ActiveJobs = {} /\ Monitored /\ UNCHANGED actor
    BY DEF TriggerJob
  <1>2. Cardinality(ActiveJobs') = 1
    BY <1>1, InsertActive, FS_Singleton DEF Origins
  <1>3. Pending' = Pending
    BY <1>1 DEF Pending
  <1>4. Cardinality(ActiveJobs') + Cardinality(Pending') <= Limit
    BY <1>1, <1>2, <1>3, Counts
  <1> QED
    BY <1>4 DEF Within, Limit

\* What a step of one actor does to the pending insertions.
LEMMA PendingMoves ==
    ASSUME IInv, NEW a \in Actors, NEW x \in Actor, actor' = [actor EXCEPT ![a] = x]
    PROVE  /\ x.pc \notin {"inserting", "admitting"} => Pending' = Pending \ {a}
           /\ x.pc = "admitting" /\ x.found # 0 => Pending' = Pending \ {a}
  <1>1. \A b \in Actors : actor'[b] = IF b = a THEN x ELSE actor[b]
    BY DEF IInv, TypeOK
  <1> QED
    BY <1>1 DEF Pending

\* A step of one actor that inserts nothing stays within the limit if its lookup, if
\* it made one, found nothing only while nothing was active.
LEMMA ActorWithin ==
    ASSUME LookupsOnly, IInv, Within, NEW a \in Actors, NEW x \in Actor,
           actor' = [actor EXCEPT ![a] = x], UNCHANGED jobs,
           x.pc = "inserting" => ActiveJobs = {},
           x.pc = "admitting" /\ x.found = 0 => ActiveJobs = {}
    PROVE  Within'
  <1>1. ActiveJobs' = ActiveJobs
    BY DEF ActiveJobs
  <1>2. CASE ActiveJobs = {}
    BY <1>1, <1>2 DEF Within
  <1>3. CASE ActiveJobs # {}
    <2>1. Pending' = Pending \ {a}
      BY <1>3, PendingMoves
    <2> QED
      BY <1>1, <2>1, NoMore
  <1> QED
    BY <1>2, <1>3

\* A step of one actor that inserts stays within the limit if it was pending before
\* and is not after.
LEMMA InsertWithin ==
    ASSUME LookupsOnly, IInv, Within, NEW a \in Actors, NEW x \in Actor,
           a \in Pending, actor' = [actor EXCEPT ![a] = x],
           x.pc \notin {"inserting", "admitting"},
           NEW o \in Origins, NEW n \in Checkpoints \cup {0}, Insert(o, n)
    PROVE  Within'
  BY PendingMoves, PendingInserts

\* The legacy schedule.
LEMMA ScheduleWithin ==
    ASSUME LookupsOnly, IInv, Within, NEW a \in Actors, ScheduleStep(a)
    PROVE  Within'
  <1>t. actor \in [Actors -> Actor] /\ 0 \notin Checkpoints
    BY DEF IInv, TypeOK, Checkpoints
  <1>1. CASE LookUpSchedule(a)
    <2>1. CASE SchedulePassed(a)
      BY <1>1, <2>1, PassedTo, ActorWithin DEF LookUpSchedule
    <2>2. CASE /\ ActiveJobs = {} /\ UNCHANGED jobs
               /\ actor' = [actor EXCEPT ![a].pc = "inserting",
                                         ![a].rekeyed = ScheduleKeyed(actor[a].about) # {}]
      <3>1. ActiveJobs' = {}
        BY <2>2 DEF ActiveJobs
      <3> QED
        BY <3>1 DEF Within
    <2> QED
      BY <1>1, <2>1, <2>2 DEF LookUpSchedule, LegacyFinds
  <1>2. CASE InsertScheduled(a)
    <2>1. a \in Pending
      BY <1>2 DEF InsertScheduled, Pending
    <2>2. CASE Insert("legacy", actor[a].about) /\ SchedulePassed(a)
      <3>1. actor[a].about \in Checkpoints \cup {0} /\ "legacy" \in Origins
        BY <1>t DEF Actor, Origins
      <3> QED
        BY <2>1, <2>2, <3>1, PassedTo, InsertWithin
    <2>3. CASE Leaves(a) /\ UNCHANGED jobs
      BY <2>3, IdleActor, ActorWithin DEF Leaves, Idle
    <2> QED
      BY <1>2, <2>2, <2>3 DEF InsertScheduled
  <1> QED
    BY <1>1, <1>2 DEF ScheduleStep

\* The fixed checkpoint.
LEMMA CheckpointWithin ==
    ASSUME LookupsOnly, IInv, Within, NEW a \in Actors, CheckpointStep(a)
    PROVE  Within'
  <1>t. actor \in [Actors -> Actor] /\ 0 \notin Ids
    BY DEF IInv, TypeOK, Ids
  <1>1. CASE ClaimCheckpoints(a)
    <2>1. CASE Goes(a, "claimed")
      <3> DEFINE x == [actor[a] EXCEPT !.pc = "claimed"]
      <3>1. x \in Actor /\ x.pc = "claimed" /\ actor' = [actor EXCEPT ![a] = x]
        BY <2>1, <1>t DEF Goes, Actor
      <3> HIDE DEF x
      <3> QED
        BY <1>1, <3>1, ActorWithin DEF ClaimCheckpoints
    <2>2. CASE Leaves(a)
      BY <1>1, <2>2, IdleActor, ActorWithin DEF Leaves, Idle, ClaimCheckpoints
    <2> QED
      BY <1>1, <2>1, <2>2 DEF ClaimCheckpoints
  <1>2. CASE LookUp(a)
    <2>1. PICK x \in Actor :
             /\ actor' = [actor EXCEPT ![a] = x] /\ x.pc = "admitting"
             /\ x.found = 0 => ActiveJobs = {}
      BY <1>2, LookUpFinds
    <2> QED
      BY <1>2, <2>1, ActorWithin DEF LookUp
  <1>3. CASE Reuse(a) \/ Block(a)
    BY <1>3, IdleActor, ActorWithin DEF Reuse, Block, Leaves, Idle
  <1>4. CASE Admit(a)
    <2>1. a \in Pending /\ Insert("checkpoint", actor[a].about) /\ Leaves(a)
      BY <1>4 DEF Admit, Pending
    <2>2. actor[a].about \in Checkpoints \cup {0} /\ "checkpoint" \in Origins
      BY <1>t DEF Actor, Origins
    <2> QED
      BY <2>1, <2>2, IdleActor, InsertWithin DEF Leaves, Idle
  <1> QED
    BY <1>1, <1>2, <1>3, <1>4 DEF CheckpointStep

\* The start of a tick or request.
LEMMA BeginWithin ==
    ASSUME LookupsOnly, IInv, Within,
           TickBegin \/ \E r \in Requests : NewRequest(r)
    PROVE  Within'
  <1>t. /\ window \in Checkpoints \cup {0} /\ created \in Ids \cup {0}
        /\ Scheduler \in Actors /\ Requests \subseteq Actors
    BY DEF IInv, TypeOK, Actors
  <1>1. ASSUME NEW a \in Actors, NEW pc \in {"schedules", "checkpoints"},
               NEW c \in Checkpoints \cup {0}, UNCHANGED jobs,
               actor' = [actor EXCEPT ![a] =
                           [Idle EXCEPT !.pc = pc, !.about = c, !.born = created]]
        PROVE  Within'
    <2>1. /\ [Idle EXCEPT !.pc = pc, !.about = c, !.born = created] \in Actor
          /\ [Idle EXCEPT !.pc = pc, !.about = c, !.born = created].pc = pc
      BY <1>t DEF Idle, Actor
    <2> QED
      BY <1>1, <2>1, ActorWithin
  <1>2. CASE TickBegin
    BY <1>1, <1>2, <1>t DEF TickBegin
  <1>3. ASSUME NEW r \in Requests, NewRequest(r) PROVE Within'
    <2>1. CASE ManualRead(r)
      <3>1. ActiveJobs' = {}
        BY <2>1 DEF ManualRead, ActiveJobs
      <3> QED
        BY <3>1 DEF Within
    <2>2. CASE Reconcile(r)
      BY <1>1, <2>2, <1>t DEF Reconcile
    <2>3. ASSUME NEW c \in Checkpoints, RunNow(r, c) PROVE Within'
      BY <1>1, <2>3, <1>t DEF RunNow
    <2>4. ~ \E i \in Ids : RetryRead(r, i)
      BY DEF RetryRead, LookupsOnly
    <2> QED
      BY <1>3, <2>1, <2>2, <2>3, <2>4 DEF NewRequest
  <1> QED
    BY <1>2, <1>3

\* No request ever retries.
LEMMA NoRetry ==
    ASSUME LookupsOnly, IInv, NoneRetries, [Next]_vars
    PROVE  NoneRetries'
  <1>t. actor \in [Actors -> Actor]
    BY DEF IInv, TypeOK
  <1>1. ASSUME NEW a \in Actors, SchedulePassed(a) PROVE NoneRetries'
    BY <1>1, <1>t, PassedTo DEF NoneRetries
  <1>2. ASSUME NEW a \in Actors, Leaves(a) PROVE NoneRetries'
    BY <1>2, <1>t DEF NoneRetries, Leaves, Idle
  <1>3. ASSUME NEW a \in Actors, ScheduleStep(a) PROVE NoneRetries'
    <2>1. CASE LookUpSchedule(a)
      BY <1>1, <1>t, <2>1 DEF LookUpSchedule, NoneRetries, Actor
    <2>2. CASE InsertScheduled(a)
      BY <1>1, <1>2, <2>2 DEF InsertScheduled
    <2> QED
      BY <1>3, <2>1, <2>2 DEF ScheduleStep
  <1>4. ASSUME NEW a \in Actors, CheckpointStep(a) PROVE NoneRetries'
    <2>1. CASE ClaimCheckpoints(a)
      BY <1>2, <1>t, <2>1 DEF ClaimCheckpoints, NoneRetries, Goes, Actor
    <2>2. CASE LookUp(a)
      BY <1>t, <2>2, LookUpFinds DEF NoneRetries
    <2>3. CASE Reuse(a) \/ Admit(a) \/ Block(a)
      BY <1>2, <2>3 DEF Reuse, Admit, Block
    <2> QED
      BY <1>4, <2>1, <2>2, <2>3 DEF CheckpointStep
  <1>5. CASE TickBegin
    BY <1>t, <1>5 DEF TickBegin, NoneRetries, Idle
  <1>6. ASSUME NEW r \in Requests, NewRequest(r) PROVE NoneRetries'
    BY <1>t, <1>6 DEF NewRequest, ManualRead, Reconcile, RunNow, RetryRead, LookupsOnly,
       NoneRetries, Idle
  <1>7. ASSUME NEW r \in Requests, ManualInsert(r) \/ RetryWrite(r) PROVE NoneRetries'
    BY <1>2, <1>7 DEF ManualInsert, RetryWrite, Actors
  <1>8. CASE UNCHANGED actor
    BY <1>8 DEF NoneRetries
  <1> QED
    BY <1>3, <1>4, <1>5, <1>6, <1>7, <1>8
       DEF Next, SchedulerStep, RequestStep, TriggerJob, JobEnds, WindowOpens, Actors, vars

\* Every step stays within the limit.
LEMMA WithinStep ==
    ASSUME LookupsOnly, IInv, NoneRetries, Within, [Next]_vars
    PROVE  Within'
  <1>t. /\ Scheduler \in Actors /\ Requests \subseteq Actors
        /\ actor \in [Actors -> Actor] /\ jobs \in [Ids -> JobRow]
    BY DEF Actors, IInv, TypeOK
  <1>1. CASE SchedulerStep
    BY <1>1, <1>t, BeginWithin, ScheduleWithin, CheckpointWithin DEF SchedulerStep
  <1>2. ASSUME NEW r \in Requests, RequestStep(r) PROVE Within'
    <2>1. CASE ManualInsert(r)
      <3>1. r \in Pending /\ Insert("manual", 0) /\ Leaves(r)
        BY <2>1, <1>t DEF ManualInsert, Pending
      <3> QED
        BY <3>1, <1>t, IdleActor, InsertWithin DEF Leaves, Idle, Origins
    <2>2. ~RetryWrite(r)
      BY <1>t DEF RetryWrite, NoneRetries
    <2> QED
      BY <1>2, <1>t, <2>1, <2>2, ScheduleWithin, CheckpointWithin DEF RequestStep
  <1>3. ASSUME NEW r \in Requests, NewRequest(r) PROVE Within'
    BY <1>3, BeginWithin
  <1>4. CASE TriggerJob
    BY <1>4, TriggerWithin
  <1>5. ASSUME NEW i \in Ids, JobEnds(i) PROVE Within'
    <2>1. ActiveJobs' \subseteq ActiveJobs /\ Pending' \subseteq Pending
      BY <1>5, <1>t DEF JobEnds, ActiveJobs, Ended, JobRow, Pending
    <2> QED
      BY <2>1, NoMore
  <1>6. CASE UNCHANGED <<jobs, actor>>
    <2>1. ActiveJobs' = ActiveJobs /\ Pending' = Pending
      BY <1>6 DEF ActiveJobs, Pending
    <2> QED
      BY <2>1, NoMore
  <1> QED
    BY <1>1, <1>2, <1>3, <1>4, <1>5, <1>6 DEF Next, WindowOpens, vars

\* Without retries there are never more active analyses than actors that look and
\* insert in two steps, and one more if the monitor runs: how far the shared lookup
\* lets the "one full analysis per portfolio" be exceeded, and no further.
THEOREM ActiveBounded == LookupsOnly /\ Spec => [](Cardinality(ActiveJobs) <= Limit)
  <1>1. LookupsOnly /\ Init => NoneRetries /\ Within
    <2>1. Init => NoneRetries /\ ActiveJobs = {}
      BY DEF Init, NoneRetries, Idle, NoJob, ActiveJobs
    <2> QED
      BY <2>1 DEF Within
  <1>2. LookupsOnly /\ IInv /\ NoneRetries /\ Within /\ [Next]_vars
           => NoneRetries' /\ Within'
    BY NoRetry, WithinStep
  <1>3. LookupsOnly /\ Within => Cardinality(ActiveJobs) <= Limit
    <2> SUFFICES ASSUME LookupsOnly, Within PROVE Cardinality(ActiveJobs) <= Limit
      OBVIOUS
    <2>1. ActiveJobs = {} => Cardinality(ActiveJobs) = 0
      BY FS_EmptySet
    <2> QED
      BY <2>1, Counts DEF Within
  <1>4. LookupsOnly => []LookupsOnly
    <2>1. LookupsOnly => LookupsOnly'
      BY DEF LookupsOnly
    <2> QED
      BY <2>1, PTL
  <1> QED
    BY <1>1, <1>2, <1>3, <1>4, AdmissionInvariance, PTL DEF Spec
=============================================================================

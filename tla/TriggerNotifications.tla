------------------------ MODULE TriggerNotifications ------------------------
(***************************************************************************)
(* The trigger events of one portfolio, from the first detection to the    *)
(* analysis that resolves them, and the notifications that tell the owner. *)
(* The monitor tick applies the detections, admits the analysis of what it *)
(* has confirmed, commits, dispatches the material events and only then    *)
(* starts the analysis it has created.  An analysis that succeeds resolves *)
(* the events of its context and dispatches too, as of when it began.      *)
(*                                                                         *)
(* Time is relative, as in the outbox: events keep ages.  All the rules    *)
(* are P0 or P1, and the portfolio has one active analysis at most.        *)
(***************************************************************************)
EXTENDS Integers, Sequences, FiniteSets, FiniteSetsExt

CONSTANTS
    Rules,          \* the dedupe keys of the detections
    Analysed,       \* the rules that ask for an analysis (all but DATA_QUALITY)
    Debounce,       \* debounce_cycles
    DebounceTime,   \* debounce_seconds, 0 when there is none
    Expiry,         \* TRIGGER_DETECTED_EXPIRY_SECONDS
    Suppression,    \* cooldown_seconds
    MaxEvents,      \* bound on the events of a rule
    MaxAge,         \* bound on the age of an analysis that ends; the code has none
    Channel,        \* whether the owner has an enabled channel
    Lease, Cooldown, MaxMoment, MaxMishaps

EventIds == Rules \X (1 .. MaxEvents)

\* A confirmed event and its resolution as NO_ACTION are announced separately.
Keys == {"confirmed", "no_action"} \X EventIds

\* CRITICAL and IMPORTANT are pushed, INFO is not.
Pushed == IF Channel THEN {"confirmed"} \X EventIds ELSE {}

\* The triggers are collected by their ids.
Rank == [k \in Keys |-> k[2][2]]

Sessions == {"monitor", "analysis"}

VARIABLES
    events,     \* the TriggerEvent rows of each rule
    job,        \* the analysis job of the portfolio
    starts,     \* whether the monitor tick is still to start the job it has created
    ending,     \* whether the thread of an analysis that succeeded is still to dispatch
    rows, ses, posted, mishaps, overruled

Outbox == INSTANCE NotificationOutbox WITH Keys <- Keys, Pushed <- Pushed, Rank <- Rank, Sessions <- Sessions

ASSUME TriggerAssumption ==
    /\ Analysed \subseteq Rules
    /\ Debounce \in Nat \ {0} /\ DebounceTime \in Nat /\ Expiry \in Nat \ {0}
    /\ Suppression \in Nat /\ Channel \in BOOLEAN /\ MaxEvents \in Nat /\ MaxAge \in 0 .. MaxMoment
    /\ Outbox!OutboxAssumption

facts == <<events, job, starts, ending>>
vars == <<events, job, starts, ending, rows, ses, posted, mishaps, overruled>>

-----------------------------------------------------------------------------
Statuses == {"DETECTED", "EXPIRED", "CONFIRMED", "ANALYZING", "RESOLVED"}

\* Beyond this age an event has expired and suppresses nothing.
Oldest == Max({Expiry, DebounceTime, Suppression + 1, MaxAge})
Older(a) == IF a < Oldest THEN a + 1 ELSE Oldest

\* first and confirmed are the ages of first_detected_at (while it is DETECTED) and of
\* confirmed_at; today is FALSE of an event detected before the day began.
Event == [status: Statuses, resolution: {"none", "NO_ACTION", "ACTION"},
          hits: 1 .. Debounce, first: 0 .. Oldest, confirmed: 0 .. Oldest, today: BOOLEAN]

\* The job is active while it is queued, runs or is retried; context holds the
\* trigger_event_ids, and a job without a thread is run by nobody.
Job == [active: BOOLEAN, context: SUBSET EventIds, thread: BOOLEAN]
NoJob == [active |-> FALSE, context |-> {}, thread |-> FALSE]

IdsOf(evs) == {e \in EventIds : e[2] \in DOMAIN evs[e[1]]}
Ids == IdsOf(events)
EventOf(e) == events[e[1]][e[2]]

Init ==
    /\ events = [r \in Rules |-> <<>>]
    /\ job = NoJob
    /\ starts = FALSE
    /\ ending = FALSE
    /\ Outbox!Init

-----------------------------------------------------------------------------
(***************************************************************************)
(* The monitor tick.                                                       *)
(***************************************************************************)
Open(r) == {i \in DOMAIN events[r] : events[r][i].status = "DETECTED"}

\* Mutant: an event that was resolved suppresses nothing.
SuppressedUnresolved(r) ==
    \E i \in DOMAIN events[r] :
        /\ events[r][i].status \in {"CONFIRMED", "ANALYZING"}
        /\ events[r][i].confirmed <= Suppression

\* A confirmation that is recent enough suppresses every detection.
Suppressed(r) ==
    \E i \in DOMAIN events[r] :
        /\ events[r][i].status \in {"CONFIRMED", "ANALYZING", "RESOLVED"}
        /\ events[r][i].confirmed <= Suppression

Expired(event) == event.first >= Expiry

\* By cycles or by time.
Confirms(hits, first) == hits >= Debounce \/ (DebounceTime > 0 /\ first >= DebounceTime)

\* Mutant: nothing is ever confirmed by its hits.
HitOnly(event) == [event EXCEPT !.hits = @ + 1, !.today = TRUE]

Hit(event) ==
    IF Confirms(event.hits + 1, event.first)
    THEN [event EXCEPT !.status = "CONFIRMED", !.hits = @ + 1, !.first = 0, !.today = TRUE]
    ELSE [event EXCEPT !.hits = @ + 1, !.today = TRUE]

Fresh ==
    [status |-> IF Confirms(1, 0) THEN "CONFIRMED" ELSE "DETECTED", resolution |-> "none",
     hits |-> 1, first |-> 0, confirmed |-> 0, today |-> TRUE]

\* Nothing but its status is ever read of an event that has expired.
Gone == [Fresh EXCEPT !.status = "EXPIRED", !.today = FALSE]

Close(seq, I) == [i \in DOMAIN seq |-> IF i \in I THEN Gone ELSE seq[i]]

\* Mutant: every detection opens an event of its own.
AppliedAnew(r) ==
    IF Suppressed(r) THEN events[r] ELSE Append(events[r], Fresh)

\* apply_detection of a rule that matches: the newest open event counts.
Applied(r) ==
    LET newest == {i \in Open(r) : \A j \in Open(r) : j <= i}
        live == {i \in newest : ~Expired(events[r][i])}
    IN IF Suppressed(r) THEN events[r]
       ELSE IF live # {}
       THEN [i \in DOMAIN events[r] |-> IF i \in live THEN Hit(events[r][i]) ELSE events[r][i]]
       ELSE Append(Close(events[r], newest), Fresh)

\* expire_unmatched_detections.
ExpireUnmatched(seq, matched) ==
    Close(seq, {i \in DOMAIN seq : seq[i].status = "DETECTED" /\ (~matched \/ Expired(seq[i]))})

AfterTick(r, matched) == ExpireUnmatched(IF matched THEN Applied(r) ELSE events[r], matched)

\* What the tick confirms and hands to an analysis.
Confirmed(after) ==
    {e \in EventIds :
        /\ e[1] \in Analysed /\ e[2] \in DOMAIN after[e[1]]
        /\ after[e[1]][e[2]].status = "CONFIRMED"
        /\ e \in Ids => EventOf(e).status = "DETECTED"}

Analysing(after, E) ==
    [r \in Rules |-> [i \in DOMAIN after[r] |->
        IF <<r, i>> \in E THEN [after[r][i] EXCEPT !.status = "ANALYZING"] ELSE after[r][i]]]

\* collect_material_events as of a moment of age a, of this day or of an earlier one.
Collected(evs, a, day) ==
    {<<"confirmed", e>> : e \in {x \in IdsOf(evs) :
        /\ evs[x[1]][x[2]].status \in {"CONFIRMED", "ANALYZING"}
        /\ evs[x[1]][x[2]].today = day /\ evs[x[1]][x[2]].confirmed >= a}}
    \cup {<<"no_action", e>> : e \in {x \in IdsOf(evs) :
        /\ evs[x[1]][x[2]].status = "RESOLVED" /\ evs[x[1]][x[2]].resolution = "NO_ACTION"
        /\ evs[x[1]][x[2]].today = day /\ evs[x[1]][x[2]].confirmed >= a}}

\* The detections of the tick in one transaction, with create_trigger_analysis_job; the
\* events to dispatch are collected after its commit.
MonitorTick ==
    /\ \E matched \in SUBSET Rules :
          LET after == [r \in Rules |-> AfterTick(r, r \in matched)]
              new == Confirmed(after)
              admits == new # {} /\ ~job.active
          IN /\ \A r \in Rules : Len(after[r]) <= MaxEvents
             /\ events' = Analysing(after, new)
             /\ job' = IF admits THEN [active |-> TRUE, context |-> new, thread |-> FALSE]
                       ELSE IF new # {} THEN [job EXCEPT !.context = @ \cup new]
                       ELSE job
             /\ starts' = admits
             /\ Outbox!Begin("monitor", Collected(events', 0, TRUE), 0)
    /\ UNCHANGED ending

\* The threads of the analyses are started when the dispatch is over, well or not.
StartsJob ==
    /\ job' = IF starts THEN [job EXCEPT !.thread = TRUE] ELSE job
    /\ starts' = FALSE
    /\ UNCHANGED <<events, ending>>

MonitorEnds == Outbox!End("monitor") /\ StartsJob
MonitorFails == Outbox!Fail("monitor") /\ StartsJob

-----------------------------------------------------------------------------
(***************************************************************************)
(* The analysis and the owner.                                             *)
(***************************************************************************)
\* A manual or scheduled analysis.
Request ==
    /\ ~job.active
    /\ job' = [NoJob EXCEPT !.active = TRUE, !.thread = TRUE]
    /\ UNCHANGED <<events, starts, ending, rows, ses, posted, mishaps, overruled>>

\* The job fails for good, or the owner cancels it.
JobFails ==
    /\ job.active
    /\ job' = NoJob
    /\ starts' = FALSE
    /\ UNCHANGED <<events, ending, rows, ses, posted, mishaps, overruled>>

Resolved(E, resolution) ==
    [r \in Rules |-> [i \in DOMAIN events[r] |->
        IF <<r, i>> \in E
        THEN [events[r][i] EXCEPT !.status = "RESOLVED", !.resolution = resolution]
        ELSE events[r][i]]]

\* The analysis succeeds, and resolve_trigger_event_from_analysis_run resolves the events
\* of the context as it is by then, unless it raises or the process dies before.
JobSucceeds ==
    /\ job.active /\ job.thread
    /\ ~ending /\ ses["analysis"].step = "idle"
    /\ \/ \E resolution \in {"NO_ACTION", "ACTION"} : events' = Resolved(job.context, resolution)
       \/ UNCHANGED events
    /\ ending' = TRUE
    /\ job' = NoJob
    /\ UNCHANGED <<starts, rows, ses, posted, mishaps, overruled>>

\* The moment of this dispatch is when the analysis began.
AnalysisDispatch ==
    /\ ending
    /\ \E a \in 0 .. MaxAge, day \in BOOLEAN :
          Outbox!Begin("analysis", Collected(events, a, day), a)
    /\ ending' = FALSE
    /\ UNCHANGED <<events, job, starts>>

AnalysisEnds == (Outbox!End("analysis") \/ Outbox!Fail("analysis")) /\ UNCHANGED facts

\* Mutant: the outbox is rebuilt after a restart.
CrashRebuilds ==
    /\ mishaps < MaxMishaps /\ mishaps' = mishaps + 1
    /\ ses' = [p \in Sessions |-> Outbox!Idle]
    /\ rows' = [k \in Keys |-> Outbox!NoRow]
    /\ job' = [job EXCEPT !.thread = FALSE]
    /\ starts' = FALSE /\ ending' = FALSE /\ overruled' = {}
    /\ UNCHANGED <<events, posted>>

\* The job rows stay as they are, and nobody runs them.
Crash ==
    /\ Outbox!Crash
    /\ job' = [job EXCEPT !.thread = FALSE]
    /\ starts' = FALSE
    /\ ending' = FALSE
    /\ UNCHANGED events

Aged(event) ==
    CASE event.status = "DETECTED" -> [event EXCEPT !.first = Older(@)]
      [] event.status = "EXPIRED" -> event
      [] OTHER -> [event EXCEPT !.confirmed = Older(@)]

Tick ==
    /\ Outbox!Tick
    /\ events' = [r \in Rules |-> [i \in DOMAIN events[r] |-> Aged(events[r][i])]]
    /\ UNCHANGED <<job, starts, ending>>

\* Midnight: what was detected before is not material any more.
NewDay ==
    /\ events' = [r \in Rules |-> [i \in DOMAIN events[r] |-> [events[r][i] EXCEPT !.today = FALSE]]]
    /\ UNCHANGED <<job, starts, ending, rows, ses, posted, mishaps, overruled>>

Deliver(p) ==
    /\ Outbox!Claim(p) \/ Outbox!Pass(p) \/ Outbox!Post(p) \/ Outbox!Record(p)
    /\ UNCHANGED facts

Next ==
    \/ MonitorTick \/ MonitorEnds \/ MonitorFails
    \/ Request \/ JobFails \/ JobSucceeds \/ AnalysisDispatch
    \/ AnalysisEnds
    \/ \E p \in Sessions : Deliver(p)
    \/ Crash \/ Tick \/ NewDay

Spec == Init /\ [][Next]_vars

\* The monitor loop goes on, a dispatch goes on once it has begun, and time passes.
\* Nobody has to ask for an analysis, and no analysis has to end.
Fairness ==
    /\ WF_vars(MonitorTick) /\ WF_vars(MonitorEnds)
    /\ WF_vars(Deliver("monitor")) /\ WF_vars(Deliver("analysis")) /\ WF_vars(AnalysisEnds)
    /\ WF_vars(Tick)

FairSpec == Spec /\ Fairness

-----------------------------------------------------------------------------
TypeOK ==
    /\ events \in [Rules -> Seq(Event)]
    /\ \A r \in Rules : Len(events[r]) <= MaxEvents
    /\ job \in Job
    /\ starts \in BOOLEAN
    /\ ending \in BOOLEAN
    /\ Outbox!TypeOK

\* A rule never has two open events.
OneOpenEvent == \A r \in Rules : \A i, j \in Open(r) : i = j

\* No two confirmations of one rule are closer than the cooldown, also when the first
\* one was resolved in between.
ConfirmationsApart ==
    \A r \in Rules : \A i, j \in DOMAIN events[r] :
        LET Was(k) == events[r][k].status \in {"CONFIRMED", "ANALYZING", "RESOLVED"}
        IN i < j /\ Was(i) /\ Was(j) /\ events[r][i].confirmed < Oldest =>
               events[r][i].confirmed - events[r][j].confirmed > Suppression

ClaimsApart == Outbox!ClaimsApart
SentIsPosted == Outbox!SentIsPosted
NeverForgotten == Outbox!NeverForgotten

\* What triggers, analyses and restarts do to the outbox is what its own
\* specification allows.
OutboxSpec == Outbox!Spec

Important(e) ==
    e \in Ids /\ EventOf(e).status \in {"CONFIRMED", "ANALYZING"} /\ EventOf(e).today

Announced(e) == rows[<<"confirmed", e>>].status \in {"SENT", "DASHBOARD_ONLY"}

\* A confirmed event is announced in the end, whatever crashes and fails, unless its
\* analysis or the end of the day comes first.
EventuallyAnnounced ==
    \A e \in EventIds : Important(e) ~> (Announced(e) \/ ~Important(e))
=============================================================================

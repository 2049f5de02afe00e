------------------------- MODULE NotificationOutbox -------------------------
(***************************************************************************)
(* The durable notifications of one portfolio.  A session that dispatches  *)
(* the material events (the monitor tick, the end of an analysis, a daily  *)
(* review, a candidate scan) claims the row of each event before it posts  *)
(* it to the channels, and records the outcome afterwards.  A claim that   *)
(* has expired is taken over, a failed delivery is repeated once it has    *)
(* cooled down.                                                            *)
(*                                                                         *)
(* A session dates everything it does by one moment, the time it began or  *)
(* the one it was asked for (as_of), and nothing is ever compared but two  *)
(* moments.  Time is therefore relative: the age of a moment is how long   *)
(* ago it was, and only ages are kept.                                     *)
(***************************************************************************)
EXTENDS Integers

CONSTANTS
    Keys,       \* the dedupe keys
    Pushed,     \* those severe enough to be posted, when there is a channel
    Rank,       \* the place of a key in the list that is collected
    Sessions,   \* the dispatching threads
    Lease,      \* NOTIFICATION_DISPATCH_LEASE
    Cooldown,   \* the cooldown of a failed delivery
    MaxMoment,  \* bound on the age of the moment of a session; the code has none
    MaxMishaps  \* bound on the deliveries and the sessions that fail, and on the crashes

\* What the instances assume of the constants.
OutboxAssumption ==
    /\ Pushed \subseteq Keys /\ Rank \in [Keys -> Nat]
    /\ Lease \in Nat \ {0} /\ Cooldown \in Nat /\ MaxMoment \in Nat /\ MaxMishaps \in Nat

VARIABLES
    rows,       \* the OperatingNotification of each key
    ses,        \* what each session is doing
    posted,     \* the keys a channel has accepted at least once
    mishaps,    \* how much has failed
    overruled   \* history: the sessions over whose claim another one has recorded a failure

outbox == <<rows, ses, posted, mishaps, overruled>>

-----------------------------------------------------------------------------
\* An age beyond this one makes no difference to a claim.
Oldest == MaxMoment + (IF Cooldown > Lease THEN Cooldown ELSE Lease)
Older(a) == IF a < Oldest THEN a + 1 ELSE Oldest

Outcomes == {"SENT", "DASHBOARD_ONLY", "FAILED"}

\* lease_expires_at is last_attempt_at and Lease of a DISPATCHING row, and NULL of
\* any other; age is that of last_attempt_at, as long as a claim can depend on it.
Row == [status: {"none", "DISPATCHING"} \cup Outcomes, age: 0 .. Oldest]

NoRow == [status |-> "none", age |-> 0]

\* todo are the events collected and not yet dispatched, and key is the event claimed.
Session ==
    [step: {"idle", "dispatch"}, age: 0 .. MaxMoment, todo: SUBSET Keys]
    \cup [step: {"deliver"}, age: 0 .. MaxMoment, todo: SUBSET Keys, key: Keys]
    \cup [step: {"record"}, age: 0 .. MaxMoment, todo: SUBSET Keys, key: Keys, out: Outcomes]

Idle == [step |-> "idle", age |-> 0, todo |-> {}]

Init ==
    /\ rows = [k \in Keys |-> NoRow]
    /\ ses = [p \in Sessions |-> Idle]
    /\ posted = {}
    /\ mishaps = 0
    /\ overruled = {}

-----------------------------------------------------------------------------
\* collect_material_events of a session whose moment is of age a finds K.
Begin(p, K, a) ==
    /\ ses[p].step = "idle"
    /\ ses' = [ses EXCEPT ![p] = [step |-> "dispatch", age |-> a, todo |-> K]]
    /\ UNCHANGED <<rows, posted, mishaps, overruled>>

\* Mutant: a claim that is not over is taken over too.
ClaimableAlways(p, k) ==
    \/ rows[k].status \in {"none", "DISPATCHING"}
    \/ rows[k].status = "FAILED" /\ rows[k].age - ses[p].age >= Cooldown

\* Mutant: what was sent or shown is dispatched again.
ClaimableAgain(p, k) ==
    \/ rows[k].status \in {"none", "SENT", "DASHBOARD_ONLY"}
    \/ rows[k].status = "DISPATCHING" /\ rows[k].age - ses[p].age >= Lease
    \/ rows[k].status = "FAILED" /\ rows[k].age - ses[p].age >= Cooldown

\* Mutant: a claim is never taken over.
ClaimableOnce(p, k) ==
    \/ rows[k].status = "none"
    \/ rows[k].status = "FAILED" /\ rows[k].age - ses[p].age >= Cooldown

\* The INSERT succeeds, or the UPDATE finds the condition true still.
Claimable(p, k) ==
    \/ rows[k].status = "none"
    \/ rows[k].status = "DISPATCHING" /\ rows[k].age - ses[p].age >= Lease
    \/ rows[k].status = "FAILED" /\ rows[k].age - ses[p].age >= Cooldown

\* The events are dispatched in the order in which they were collected.
Foremost(p) == {k \in ses[p].todo : \A other \in ses[p].todo : Rank[k] <= Rank[other]}

\* _claim_notification, committed before anything is posted.
Claim(p) ==
    /\ ses[p].step = "dispatch"
    /\ \E k \in Foremost(p) :
          /\ Claimable(p, k)
          /\ rows' = [rows EXCEPT ![k] = [status |-> "DISPATCHING", age |-> ses[p].age]]
          /\ ses' = [ses EXCEPT ![p] = [step |-> "deliver", age |-> ses[p].age,
                                        todo |-> ses[p].todo \ {k}, key |-> k]]
    /\ UNCHANGED <<posted, mishaps, overruled>>

\* DEDUPED, COOLDOWN or ALREADY_CLAIMED.
Pass(p) ==
    /\ ses[p].step = "dispatch"
    /\ \E k \in Foremost(p) :
          /\ ~Claimable(p, k)
          /\ ses' = [ses EXCEPT ![p].todo = @ \ {k}]
    /\ UNCHANGED <<rows, posted, mishaps, overruled>>

Answered(p, out) ==
    ses' = [ses EXCEPT ![p] = [step |-> "record", age |-> ses[p].age,
                               todo |-> ses[p].todo, key |-> ses[p].key, out |-> out]]

\* Mutant: a delivery counts as sent as soon as there is a channel.
PostUnchecked(p) ==
    /\ ses[p].step = "deliver"
    /\ \/ /\ ses[p].key \in Pushed
          /\ Answered(p, "SENT")
          /\ posted' = posted \cup {ses[p].key}
          /\ UNCHANGED mishaps
       \/ /\ ses[p].key \in Pushed /\ mishaps < MaxMishaps
          /\ Answered(p, "SENT")
          /\ mishaps' = mishaps + 1
          /\ UNCHANGED posted
       \/ /\ ses[p].key \notin Pushed
          /\ Answered(p, "DASHBOARD_ONLY")
          /\ UNCHANGED <<posted, mishaps>>
    /\ UNCHANGED <<rows, overruled>>

\* One channel at least accepts the event, or none does; or it is not posted.
Post(p) ==
    /\ ses[p].step = "deliver"
    /\ \/ /\ ses[p].key \in Pushed
          /\ Answered(p, "SENT")
          /\ posted' = posted \cup {ses[p].key}
          /\ UNCHANGED mishaps
       \/ /\ ses[p].key \in Pushed /\ mishaps < MaxMishaps
          /\ Answered(p, "FAILED")
          /\ mishaps' = mishaps + 1
          /\ UNCHANGED posted
       \/ /\ ses[p].key \notin Pushed
          /\ Answered(p, "DASHBOARD_ONLY")
          /\ UNCHANGED <<posted, mishaps>>
    /\ UNCHANGED <<rows, overruled>>

Delivers(p, k) == ses[p].step \in {"deliver", "record"} /\ ses[p].key = k

\* The outcome is written over whatever the row says by then.
Record(p) ==
    /\ ses[p].step = "record"
    /\ rows' = [rows EXCEPT ![ses[p].key] =
                   [status |-> ses[p].out, age |-> IF ses[p].out = "FAILED" THEN ses[p].age ELSE 0]]
    /\ ses' = [ses EXCEPT ![p] = [step |-> "dispatch", age |-> ses[p].age, todo |-> ses[p].todo]]
    /\ overruled' = (overruled \ {p}) \cup
                        {q \in Sessions \ {p} : ses[p].out = "FAILED" /\ Delivers(q, ses[p].key)}
    /\ UNCHANGED <<posted, mishaps>>

End(p) ==
    /\ ses[p].step = "dispatch" /\ ses[p].todo = {}
    /\ ses' = [ses EXCEPT ![p] = Idle]
    /\ UNCHANGED <<rows, posted, mishaps, overruled>>

\* An exception ends the dispatch of all events left; what was claimed stays claimed.
Fail(p) ==
    /\ ses[p].step # "idle" /\ mishaps < MaxMishaps
    /\ ses' = [ses EXCEPT ![p] = Idle]
    /\ mishaps' = mishaps + 1
    /\ overruled' = overruled \ {p}
    /\ UNCHANGED <<rows, posted>>

\* The process dies and starts again.
Crash ==
    /\ mishaps < MaxMishaps
    /\ ses' = [p \in Sessions |-> Idle]
    /\ mishaps' = mishaps + 1
    /\ overruled' = {}
    /\ UNCHANGED <<rows, posted>>

\* Time passes.
Tick ==
    /\ \A p \in Sessions : ses[p].step # "idle" => ses[p].age < MaxMoment
    /\ rows' = [k \in Keys |-> IF rows[k].status \in {"DISPATCHING", "FAILED"}
                               THEN [rows[k] EXCEPT !.age = Older(@)] ELSE rows[k]]
    /\ ses' = [p \in Sessions |-> IF ses[p].step = "idle" THEN ses[p]
                                  ELSE [ses[p] EXCEPT !.age = @ + 1]]
    /\ UNCHANGED <<posted, mishaps, overruled>>

Dispatch(p) == Claim(p) \/ Pass(p) \/ Post(p) \/ Record(p) \/ End(p)

Next ==
    \/ \E p \in Sessions : Dispatch(p) \/ Fail(p)
    \/ Crash \/ Tick
    \/ \E p \in Sessions :
          /\ ses[p].step = "idle"
          /\ \E K \in SUBSET Keys, a \in 0 .. MaxMoment : Begin(p, K, a)

Spec == Init /\ [][Next]_outbox

-----------------------------------------------------------------------------
TypeOK ==
    /\ rows \in [Keys -> Row]
    /\ ses \in [Sessions -> Session]
    /\ posted \subseteq Keys
    /\ mishaps \in 0 .. MaxMishaps
    /\ overruled \subseteq Sessions

\* Two sessions deliver one event at once only when the later one has found the claim of
\* the earlier one expired: their moments are a whole lease apart.  The exception is what
\* the unconditional record of an outcome costs: once a session that is late has recorded
\* its failure over the claim of its successor, a third one may claim the event as soon as
\* that failure has cooled down, and it is dated by the moment of the late session.
ClaimsApart ==
    \A p, q \in Sessions \ overruled : \A k \in Keys :
        p # q /\ Delivers(p, k) /\ Delivers(q, k) =>
            ses[p].age - ses[q].age >= Lease \/ ses[q].age - ses[p].age >= Lease

\* A row says SENT only of an event that a channel has accepted, whoever wrote it.
SentIsPosted ==
    \A k \in Keys : rows[k].status = "SENT" => k \in posted

\* Nothing makes the outbox forget a notification that was sent or shown, a restart
\* no more than time, unless a session that had claimed it before is still delivering.
Forgets(k) ==
    /\ rows[k].status \in {"SENT", "DASHBOARD_ONLY"}
    /\ \A p \in Sessions : ~Delivers(p, k)
    /\ rows'[k].status # rows[k].status

NeverForgotten == [][\A k \in Keys : ~Forgets(k)]_outbox
=============================================================================

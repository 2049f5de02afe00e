--------------------- MODULE TriggerNotifications_proofs ---------------------
(* TriggerNotifications implements the outbox, and so what is proved of the   *)
(* outbox holds of it.                                                        *)
EXTENDS TriggerNotifications, TLAPS

Proved == INSTANCE NotificationOutbox_proofs
          WITH Keys <- Keys, Pushed <- Pushed, Rank <- Rank, Sessions <- Sessions

\* The events that are collected have keys of the outbox.
LEMMA CollectedKeys ==
    ASSUME NEW evs, NEW a, NEW day
    PROVE  Collected(evs, a, day) \in SUBSET Keys
  BY DEF Collected, Keys, IdsOf

\* Every step is a step of the outbox or leaves it alone.
LEMMA OutboxStep ==
    ASSUME [Next]_vars
    PROVE  [Outbox!Next]_(Outbox!outbox)
  <1>0. MaxMoment \in Nat /\ MaxAge \in 0 .. MaxMoment
    BY TriggerAssumption DEF Outbox!OutboxAssumption
  <1>1. ASSUME NEW p \in Sessions, NEW K \in SUBSET Keys, NEW a \in 0 .. MaxMoment, Outbox!Begin(p, K, a)
        PROVE  Outbox!Next
    BY <1>1 DEF Outbox!Next, Outbox!Begin
  <1>2. CASE MonitorTick
    <2>1. PICK K \in SUBSET Keys : Outbox!Begin("monitor", K, 0)
      BY <1>2, CollectedKeys DEF MonitorTick
    <2> QED
      BY <1>0, <1>1, <2>1 DEF Sessions
  <1>3. CASE MonitorEnds \/ MonitorFails \/ AnalysisEnds
    BY <1>3 DEF MonitorEnds, MonitorFails, AnalysisEnds, Outbox!Next, Outbox!Dispatch, Sessions
  <1>4. CASE AnalysisDispatch
    <2>1. PICK a \in 0 .. MaxAge, day \in BOOLEAN :
             Outbox!Begin("analysis", Collected(events, a, day), a)
      BY <1>4 DEF AnalysisDispatch
    <2> QED
      BY <1>0, <1>1, <2>1, CollectedKeys DEF Sessions
  <1>5. CASE Request \/ JobFails \/ JobSucceeds \/ NewDay
    BY <1>5 DEF Request, JobFails, JobSucceeds, NewDay, Outbox!outbox
  <1>6. ASSUME NEW p \in Sessions, Deliver(p) PROVE Outbox!Next
    BY <1>6 DEF Deliver, Outbox!Next, Outbox!Dispatch
  <1>7. CASE Crash \/ Tick
    BY <1>7 DEF Crash, Tick, Outbox!Next
  <1>8. CASE UNCHANGED vars
    BY <1>8 DEF vars, Outbox!outbox
  <1> QED
    BY <1>2, <1>3, <1>4, <1>5, <1>6, <1>7, <1>8 DEF Next

\* What triggers, analyses and restarts do to the outbox is what its own specification
\* allows, in any instance.
THEOREM TriggerOutbox == Spec => OutboxSpec
  <1>1. Init => Outbox!Init
    BY DEF Init
  <1> QED
    BY <1>1, OutboxStep, PTL DEF Spec, OutboxSpec, Outbox!Spec

-----------------------------------------------------------------------------
(* The module of the outbox's proofs has the outbox's definitions.           *)

\* Its steps are the same.
LEMMA SameNext == [Proved!Next]_(Proved!outbox) <=> [Outbox!Next]_(Outbox!outbox)
  BY DEF Proved!Idle, Outbox!Idle, Proved!Begin, Outbox!Begin, Proved!Claimable,
           Outbox!Claimable, Proved!Foremost, Outbox!Foremost, Proved!Claim, Outbox!Claim,
           Proved!Delivers, Outbox!Delivers,
           Proved!Pass, Outbox!Pass, Proved!Answered, Outbox!Answered, Proved!Post,
           Outbox!Post, Proved!Record, Outbox!Record, Proved!End, Outbox!End,
           Proved!Fail, Outbox!Fail, Proved!Crash, Outbox!Crash, Proved!Older,
           Outbox!Older, Proved!Oldest, Outbox!Oldest, Proved!Tick, Outbox!Tick,
           Proved!Dispatch, Outbox!Dispatch, Proved!Next, Outbox!Next,
           Proved!outbox, Outbox!outbox

\* So are its behaviours.
LEMMA SameOutbox == Proved!Spec <=> Outbox!Spec
  <1>1. Proved!Init <=> Outbox!Init
    BY DEF Proved!Init, Outbox!Init, Proved!NoRow, Outbox!NoRow, Proved!Idle,
           Outbox!Idle
  <1> QED
    BY <1>1, SameNext, PTL DEF Proved!Spec, Outbox!Spec

\* The outbox's own theorems apply.
LEMMA ProvedAssumption == Proved!OutboxAssumption
  BY TriggerAssumption DEF Proved!OutboxAssumption, Outbox!OutboxAssumption

\* A row of the outbox says SENT only of an event that a channel has accepted, whatever
\* the monitor, the analyses and the crashes do.
THEOREM TriggerPosted == Spec => []SentIsPosted
  <1>1. Proved!Spec => []Proved!SentIsPosted
    BY ProvedAssumption, Proved!OutboxPosted
  <1>2. Proved!SentIsPosted => SentIsPosted
    BY DEF SentIsPosted, Proved!SentIsPosted, Outbox!SentIsPosted
  <1> QED
    BY <1>1, <1>2, TriggerOutbox, SameOutbox, PTL DEF OutboxSpec

\* What was sent or shown is never forgotten, unless a session that had claimed it before
\* is still delivering.
THEOREM TriggerForgetsNothing == Spec => NeverForgotten
  <1>1. Proved!Spec => Proved!NeverForgotten
    BY ProvedAssumption, Proved!OutboxForgetsNothing
  <1>2. Proved!NeverForgotten <=> NeverForgotten
    <2>1. [\A k \in Keys : ~Proved!Forgets(k)]_(Proved!outbox)
             <=> [\A k \in Keys : ~Outbox!Forgets(k)]_(Outbox!outbox)
      BY DEF Proved!Forgets, Outbox!Forgets, Proved!Delivers, Outbox!Delivers,
             Proved!outbox, Outbox!outbox
    <2> QED
      BY <2>1, PTL DEF Proved!NeverForgotten, NeverForgotten, Outbox!NeverForgotten
  <1> QED
    BY <1>1, <1>2, TriggerOutbox, SameOutbox, PTL DEF OutboxSpec

\* The monitor and an analysis deliver one event at once only a whole lease apart, unless
\* the one that is late has recorded its failure over the claim of the other.
THEOREM TriggerClaims == Spec => []ClaimsApart
  <1>1. Proved!Spec => []Proved!ClaimsApart
    BY ProvedAssumption, Proved!OutboxClaims
  <1>2. Proved!ClaimsApart => ClaimsApart
    BY DEF ClaimsApart, Proved!ClaimsApart, Outbox!ClaimsApart, Proved!Delivers, Outbox!Delivers
  <1> QED
    BY <1>1, <1>2, TriggerOutbox, SameOutbox, PTL DEF OutboxSpec

-----------------------------------------------------------------------------
(* The events: the invariant.                                                *)

\* The statuses an event has from its confirmation on.
WasConfirmed(event) == event.status \in {"CONFIRMED", "ANALYZING", "RESOLVED"}

\* The last event of a rule may be open, and its confirmation is still to come.
Opens(seq) ==
    \A i \in DOMAIN seq : seq[i].status = "DETECTED" =>
        i = Len(seq) /\ seq[i].hits < Debounce /\ seq[i].confirmed = 0

\* ConfirmationsApart of one rule.
Apart(seq) ==
    \A i, j \in DOMAIN seq :
        i < j /\ WasConfirmed(seq[i]) /\ WasConfirmed(seq[j]) /\ seq[i].confirmed < Oldest =>
            seq[i].confirmed - seq[j].confirmed > Suppression

SeqOk(seq) == seq \in Seq(Event) /\ Opens(seq) /\ Apart(seq)

\* The context of the job names confirmed events only.
ContextOk == \A e \in job.context : e \in Ids /\ WasConfirmed(EventOf(e))

EventInv ==
    /\ events \in [Rules -> Seq(Event)]
    /\ \A r \in Rules : SeqOk(events[r]) /\ Len(events[r]) <= MaxEvents
    /\ job \in Job /\ starts \in BOOLEAN /\ ending \in BOOLEAN
    /\ ContextOk

-----------------------------------------------------------------------------
(* What happens to the events of one rule.                                   *)

\* The greatest age.
LEMMA OldestType ==
    Oldest \in Nat /\ Suppression \in Nat /\ Debounce \in Nat \ {0} /\ Suppression < Oldest
  <1>1. {Expiry, DebounceTime, Suppression + 1, MaxAge} \subseteq Nat
        /\ Suppression \in Nat /\ Debounce \in Nat \ {0}
    BY TriggerAssumption DEF Outbox!OutboxAssumption
  <1>2. \E x \in {Expiry, DebounceTime, Suppression + 1, MaxAge} :
           \A y \in {Expiry, DebounceTime, Suppression + 1, MaxAge} : x >= y
    BY <1>1
  <1>3. Oldest \in {Expiry, DebounceTime, Suppression + 1, MaxAge} /\ Oldest >= Suppression + 1
    BY <1>2 DEF Oldest, Max
  <1> QED
    BY <1>1, <1>3

\* Ages that grow.
LEMMA OlderType ==
    ASSUME NEW a \in 0 .. Oldest
    PROVE  /\ Older(a) \in 0 .. Oldest
           /\ a <= Older(a) /\ Older(a) <= a + 1
           /\ Older(a) < Oldest => Older(a) = a + 1
  BY OldestType DEF Older

\* Events that are new or gone.
LEMMA NewEvents ==
    /\ Fresh \in Event /\ Gone \in Event
    /\ Gone.status = "EXPIRED" /\ Fresh.confirmed = 0 /\ Fresh.hits = 1
    /\ Fresh.status \in {"CONFIRMED", "DETECTED"}
    /\ Fresh.status = "DETECTED" => 1 < Debounce
  <1>1. 1 \in 1 .. Debounce /\ 0 \in 0 .. Oldest
    BY OldestType
  <1>2. Confirms(1, 0) \/ 1 < Debounce
    BY OldestType DEF Confirms
  <1>3. Fresh \in Event
    BY <1>1 DEF Fresh, Event, Statuses
  <1> QED
    BY <1>1, <1>2, <1>3 DEF Fresh, Gone, Event, Statuses

\* A hit counts, or it confirms.
LEMMA HitType ==
    ASSUME NEW event \in Event, event.status = "DETECTED", event.hits < Debounce
    PROVE  /\ Hit(event) \in Event /\ Hit(event).confirmed = event.confirmed
           /\ Hit(event).status \in {"CONFIRMED", "DETECTED"}
           /\ Hit(event).status = "DETECTED" => Hit(event).hits < Debounce
  <1>1. event.hits + 1 \in 1 .. Debounce /\ 0 \in 0 .. Oldest
    BY OldestType DEF Event
  <1>2. CASE Confirms(event.hits + 1, event.first)
    BY <1>1, <1>2 DEF Hit, Event, Statuses
  <1>3. CASE ~Confirms(event.hits + 1, event.first)
    <2>1. event.hits + 1 < Debounce
      BY <1>1, <1>3, OldestType DEF Confirms
    <2> QED
      BY <1>1, <1>3, <2>1 DEF Hit, Event, Statuses
  <1> QED
    BY <1>2, <1>3

\* Closing an open event.
LEMMA CloseOk ==
    ASSUME NEW seq, SeqOk(seq), NEW I
    PROVE  /\ SeqOk(Close(seq, I)) /\ Len(Close(seq, I)) = Len(seq)
           /\ DOMAIN Close(seq, I) = DOMAIN seq
           /\ \A i \in DOMAIN seq : Close(seq, I)[i] = IF i \in I THEN Gone ELSE seq[i]
  <1> DEFINE new == Close(seq, I)
  <1>1. Len(seq) \in Nat /\ DOMAIN seq = 1 .. Len(seq) /\ \A i \in DOMAIN seq : seq[i] \in Event
    BY DEF SeqOk
  <1>2. \A i \in DOMAIN seq : (IF i \in I THEN Gone ELSE seq[i]) \in Event
    BY <1>1, NewEvents
  <1>3. new \in [1 .. Len(seq) -> Event]
    BY <1>1, <1>2 DEF Close
  <1>4. new \in Seq(Event) /\ Len(new) = Len(seq) /\ DOMAIN new = DOMAIN seq
    BY <1>1, <1>3
  <1>5. \A i \in DOMAIN seq : new[i] = IF i \in I THEN Gone ELSE seq[i]
    BY DEF Close
  <1> HIDE DEF new
  <1>6. Opens(new)
    BY <1>4, <1>5, NewEvents DEF SeqOk, Opens
  <1>7. \A i \in DOMAIN seq : WasConfirmed(new[i]) => new[i] = seq[i]
    BY <1>5, NewEvents DEF WasConfirmed
  <1>8. Apart(new)
    BY <1>4, <1>7 DEF SeqOk, Apart
  <1> QED
    BY <1>4, <1>5, <1>6, <1>8 DEF SeqOk, new

\* Every confirmation is old enough.
Unsuppressed(seq) == \A i \in DOMAIN seq : WasConfirmed(seq[i]) => seq[i].confirmed > Suppression

\* A hit of the open event.
LEMMA HitOk ==
    ASSUME NEW seq, SeqOk(seq), Unsuppressed(seq),
           NEW L \in SUBSET {i \in DOMAIN seq : seq[i].status = "DETECTED"},
           NEW new, new = [i \in DOMAIN seq |-> IF i \in L THEN Hit(seq[i]) ELSE seq[i]]
    PROVE  SeqOk(new)
  <1>1. Len(seq) \in Nat /\ DOMAIN seq = 1 .. Len(seq) /\ \A i \in DOMAIN seq : seq[i] \in Event
    BY DEF SeqOk
  <1>2. \A i \in L : seq[i].hits < Debounce /\ seq[i].confirmed = 0 /\ i = Len(seq)
    BY DEF SeqOk, Opens
  <1>3. \A i \in DOMAIN seq : (IF i \in L THEN Hit(seq[i]) ELSE seq[i]) \in Event
    BY <1>1, <1>2, HitType
  <1>4. new \in [1 .. Len(seq) -> Event]
    BY <1>1, <1>3
  <1>5. new \in Seq(Event) /\ Len(new) = Len(seq) /\ DOMAIN new = DOMAIN seq
    BY <1>1, <1>4
  <1>6. \A i \in DOMAIN seq : i \notin L => new[i] = seq[i]
    OBVIOUS
  <1>7. \A i \in L : /\ new[i].confirmed = 0
                     /\ new[i].status = "DETECTED" => new[i].hits < Debounce
    BY <1>1, <1>2, HitType
  <1>8. Opens(new)
    BY <1>2, <1>5, <1>6, <1>7 DEF SeqOk, Opens
  <1>9. ASSUME NEW i \in DOMAIN seq, NEW j \in DOMAIN seq, i < j,
               WasConfirmed(new[i]), WasConfirmed(new[j]), new[i].confirmed < Oldest
        PROVE  new[i].confirmed - new[j].confirmed > Suppression
    <2>1. i \notin L
      BY <1>1, <1>2, <1>9
    <2>2. CASE j \in L
      <3>1. new[i].confirmed > Suppression /\ new[j].confirmed = 0 /\ new[i].confirmed \in 0 .. Oldest
        BY <1>1, <1>6, <1>7, <1>9, <2>1, <2>2 DEF Unsuppressed, Event
      <3> QED
        BY <3>1, OldestType
    <2>3. CASE j \notin L
      BY <1>6, <1>9, <2>1, <2>3 DEF SeqOk, Apart
    <2> QED
      BY <2>2, <2>3
  <1>10. Apart(new)
    BY <1>5, <1>9 DEF Apart
  <1> QED
    BY <1>5, <1>8, <1>10 DEF SeqOk

\* A new event, when none is open.
LEMMA AppendOk ==
    ASSUME NEW seq, SeqOk(seq), Unsuppressed(seq), \A i \in DOMAIN seq : seq[i].status # "DETECTED",
           NEW new, new = Append(seq, Fresh)
    PROVE  /\ SeqOk(new)
           /\ \A i \in DOMAIN seq : i \in DOMAIN new /\ new[i] = seq[i]
  <1>1. Len(seq) \in Nat /\ DOMAIN seq = 1 .. Len(seq) /\ \A i \in DOMAIN seq : seq[i] \in Event
    BY DEF SeqOk
  <1>2. /\ new \in Seq(Event) /\ Len(new) = Len(seq) + 1 /\ DOMAIN new = 1 .. Len(seq) + 1
        /\ new[Len(seq) + 1] = Fresh /\ \A i \in DOMAIN seq : new[i] = seq[i]
    BY <1>1, NewEvents DEF SeqOk
  <1>3. Opens(new)
    BY <1>1, <1>2, NewEvents DEF Opens
  <1>4. ASSUME NEW i \in DOMAIN new, NEW j \in DOMAIN new, i < j,
               WasConfirmed(new[i]), WasConfirmed(new[j]), new[i].confirmed < Oldest
        PROVE  new[i].confirmed - new[j].confirmed > Suppression
    <2>1. i \in DOMAIN seq /\ new[i] = seq[i]
      BY <1>1, <1>2, <1>4
    <2>2. CASE j \in DOMAIN seq
      BY <1>2, <1>4, <2>1, <2>2 DEF SeqOk, Apart
    <2>3. CASE j \notin DOMAIN seq
      <3>1. new[j].confirmed = 0 /\ new[i].confirmed > Suppression /\ new[i].confirmed \in 0 .. Oldest
        BY <1>1, <1>2, <1>4, <2>1, <2>3, NewEvents DEF Unsuppressed, Event
      <3> QED
        BY <3>1, OldestType
    <2> QED
      BY <2>2, <2>3
  <1>5. Apart(new)
    BY <1>4 DEF Apart
  <1> QED
    BY <1>1, <1>2, <1>3, <1>5 DEF SeqOk

\* What a detection does to the events of its rule.
LEMMA AppliedOk ==
    ASSUME NEW r \in Rules, SeqOk(events[r])
    PROVE  /\ SeqOk(Applied(r))
           /\ \A i \in DOMAIN events[r] :
                 /\ i \in DOMAIN Applied(r)
                 /\ WasConfirmed(events[r][i]) => Applied(r)[i] = events[r][i]
  <1> DEFINE newest == {i \in Open(r) : \A j \in Open(r) : j <= i}
             live == {i \in newest : ~Expired(events[r][i])}
  <1>1. PICK seq : seq = events[r]
    OBVIOUS
  <1>2. Open(r) = {i \in DOMAIN seq : seq[i].status = "DETECTED"}
    BY <1>1 DEF Open
  <1>3. Len(seq) \in Nat /\ DOMAIN seq = 1 .. Len(seq) /\ \A i \in DOMAIN seq : seq[i] \in Event
    BY <1>1 DEF SeqOk
  <1>4. newest = Open(r)
    BY <1>1, <1>2, <1>3 DEF SeqOk, Opens
  <1>5. Applied(r) = IF Suppressed(r) THEN seq
                     ELSE IF live # {}
                     THEN [i \in DOMAIN seq |-> IF i \in live THEN Hit(seq[i]) ELSE seq[i]]
                     ELSE Append(Close(seq, newest), Fresh)
    BY <1>1 DEF Applied
  <1>6. ASSUME ~Suppressed(r) PROVE Unsuppressed(seq)
    BY <1>1, <1>3, <1>6, OldestType DEF Suppressed, Unsuppressed, WasConfirmed, Event
  <1>7. PICK L : L = live
    OBVIOUS
  <1>8. PICK N : N = newest
    OBVIOUS
  <1>9. L \subseteq {i \in DOMAIN seq : seq[i].status = "DETECTED"}
        /\ N = {i \in DOMAIN seq : seq[i].status = "DETECTED"}
    BY <1>2, <1>4, <1>7, <1>8
  <1>10. SeqOk(seq)
    BY <1>1
  <1> HIDE DEF live, newest
  <1>11. PICK new : new = Applied(r)
    OBVIOUS
  <1>12. /\ SeqOk(new)
         /\ \A i \in DOMAIN seq :
               i \in DOMAIN new /\ (WasConfirmed(seq[i]) => new[i] = seq[i])
    <2>1. CASE Suppressed(r)
      BY <1>5, <1>10, <1>11, <2>1
    <2>2. CASE ~Suppressed(r) /\ L # {}
      <3>1. new = [i \in DOMAIN seq |-> IF i \in L THEN Hit(seq[i]) ELSE seq[i]]
        BY <1>5, <1>7, <1>11, <2>2
      <3>2. SeqOk(new)
        BY <1>6, <1>9, <1>10, <2>2, <3>1, HitOk
      <3>3. \A i \in DOMAIN seq : i \in DOMAIN new /\ (i \notin L => new[i] = seq[i])
        BY <3>1
      <3>4. \A i \in L : ~WasConfirmed(seq[i])
        BY <1>9 DEF WasConfirmed
      <3> QED
        BY <3>2, <3>3, <3>4
    <2>3. CASE ~Suppressed(r) /\ L = {}
      <3>1. new = Append(Close(seq, N), Fresh)
        BY <1>5, <1>7, <1>8, <1>11, <2>3
      <3>2. PICK closed : closed = Close(seq, N)
        OBVIOUS
      <3>3. /\ SeqOk(closed) /\ DOMAIN closed = DOMAIN seq
            /\ \A i \in DOMAIN seq : closed[i] = IF i \in N THEN Gone ELSE seq[i]
        BY <1>10, <3>2, CloseOk
      <3>4. \A i \in DOMAIN closed : closed[i].status # "DETECTED"
        BY <1>9, <3>3, NewEvents
      <3>5. Unsuppressed(closed)
        BY <1>6, <2>3, <3>3, NewEvents DEF Unsuppressed, WasConfirmed
      <3>6. new = Append(closed, Fresh) /\ SeqOk(closed)
        BY <3>1, <3>2, <3>3
      <3>8. SeqOk(new)
        BY <3>4, <3>5, <3>6, AppendOk
      <3>9. \A i \in DOMAIN closed : i \in DOMAIN new /\ new[i] = closed[i]
        BY <3>4, <3>5, <3>6, AppendOk
      <3>7. \A i \in N : ~WasConfirmed(seq[i])
        BY <1>9 DEF WasConfirmed
      <3> QED
        BY <3>3, <3>7, <3>8, <3>9
    <2> QED
      BY <2>1, <2>2, <2>3
  <1> QED
    BY <1>1, <1>11, <1>12

\* What a monitor tick does to the events of a rule.
LEMMA AfterTickOk ==
    ASSUME NEW r \in Rules, SeqOk(events[r]), NEW matched
    PROVE  /\ SeqOk(AfterTick(r, matched))
           /\ \A i \in DOMAIN events[r] :
                 /\ i \in DOMAIN AfterTick(r, matched)
                 /\ WasConfirmed(events[r][i]) => AfterTick(r, matched)[i] = events[r][i]
  <1>1. PICK seq : seq = IF matched THEN Applied(r) ELSE events[r]
    OBVIOUS
  <1>2. /\ SeqOk(seq)
        /\ \A i \in DOMAIN events[r] :
              i \in DOMAIN seq /\ (WasConfirmed(events[r][i]) => seq[i] = events[r][i])
    BY <1>1, AppliedOk
  <1> DEFINE I == {i \in DOMAIN seq : seq[i].status = "DETECTED" /\ (~matched \/ Expired(seq[i]))}
  <1>3. AfterTick(r, matched) = Close(seq, I)
    BY <1>1 DEF AfterTick, ExpireUnmatched
  <1>4. \A i \in I : ~WasConfirmed(seq[i])
    BY DEF WasConfirmed
  <1> HIDE DEF I
  <1> QED
    BY <1>2, <1>3, <1>4, CloseOk

\* Another status of events that are confirmed.
LEMMA RestatusOk ==
    ASSUME NEW seq, SeqOk(seq), NEW new, new = [i \in DOMAIN seq |-> new[i]],
           \A i \in DOMAIN seq :
              \/ new[i] = seq[i]
              \/ /\ WasConfirmed(seq[i]) /\ WasConfirmed(new[i]) /\ new[i] \in Event
                 /\ new[i].confirmed = seq[i].confirmed
    PROVE  SeqOk(new) /\ Len(new) = Len(seq) /\ DOMAIN new = DOMAIN seq
  <1>1. Len(seq) \in Nat /\ DOMAIN seq = 1 .. Len(seq) /\ \A i \in DOMAIN seq : seq[i] \in Event
    BY DEF SeqOk
  <1>2. new \in [1 .. Len(seq) -> Event]
    BY <1>1
  <1>3. new \in Seq(Event) /\ Len(new) = Len(seq) /\ DOMAIN new = DOMAIN seq
    BY <1>1, <1>2
  <1>4. \A i \in DOMAIN seq : new[i].status = "DETECTED" => new[i] = seq[i]
    BY DEF WasConfirmed
  <1>5. Opens(new)
    BY <1>3, <1>4 DEF SeqOk, Opens
  <1>6. \A i \in DOMAIN seq : /\ WasConfirmed(new[i]) => WasConfirmed(seq[i])
                             /\ new[i].confirmed = seq[i].confirmed
    OBVIOUS
  <1>7. Apart(new)
    BY <1>3, <1>6 DEF SeqOk, Apart
  <1> QED
    BY <1>3, <1>5, <1>7 DEF SeqOk

\* The analysis of a set of confirmed events.
LEMMA AnalysingOk ==
    ASSUME NEW after, NEW E, NEW r \in Rules, SeqOk(after[r]),
           \A i \in DOMAIN after[r] : <<r, i>> \in E => after[r][i].status = "CONFIRMED"
    PROVE  /\ SeqOk(Analysing(after, E)[r])
           /\ Len(Analysing(after, E)[r]) = Len(after[r])
           /\ DOMAIN Analysing(after, E)[r] = DOMAIN after[r]
           /\ \A i \in DOMAIN after[r] :
                 WasConfirmed(after[r][i]) => WasConfirmed(Analysing(after, E)[r][i])
  <1>1. PICK seq : seq = after[r]
    OBVIOUS
  <1>2. PICK new : new = Analysing(after, E)[r]
    OBVIOUS
  <1>3. new = [i \in DOMAIN seq |->
                 IF <<r, i>> \in E THEN [seq[i] EXCEPT !.status = "ANALYZING"] ELSE seq[i]]
    BY <1>1, <1>2 DEF Analysing
  <1>4. \A i \in DOMAIN seq : seq[i] \in Event
    BY <1>1 DEF SeqOk
  <1>5. ASSUME NEW i \in DOMAIN seq, <<r, i>> \in E
        PROVE  /\ WasConfirmed(seq[i]) /\ WasConfirmed(new[i]) /\ new[i] \in Event
               /\ new[i].confirmed = seq[i].confirmed
    <2>1. new[i] = [seq[i] EXCEPT !.status = "ANALYZING"]
      BY <1>3, <1>5
    <2>2. seq[i].status = "CONFIRMED"
      BY <1>1, <1>5
    <2> QED
      BY <1>4, <2>1, <2>2 DEF Event, Statuses, WasConfirmed
  <1>6. \A i \in DOMAIN seq : <<r, i>> \notin E => new[i] = seq[i]
    BY <1>3
  <1>7. new = [i \in DOMAIN seq |-> new[i]]
    BY <1>3
  <1>8. SeqOk(new) /\ Len(new) = Len(seq) /\ DOMAIN new = DOMAIN seq
    BY <1>1, <1>5, <1>6, <1>7, RestatusOk
  <1> QED
    BY <1>1, <1>2, <1>5, <1>6, <1>8

\* The resolution of confirmed events.
LEMMA ResolvedOk ==
    ASSUME NEW E, NEW resolution \in {"NO_ACTION", "ACTION"}, NEW r \in Rules, SeqOk(events[r]),
           \A i \in DOMAIN events[r] : <<r, i>> \in E => WasConfirmed(events[r][i])
    PROVE  /\ SeqOk(Resolved(E, resolution)[r])
           /\ Len(Resolved(E, resolution)[r]) = Len(events[r])
  <1>1. PICK seq : seq = events[r]
    OBVIOUS
  <1>2. PICK new : new = Resolved(E, resolution)[r]
    OBVIOUS
  <1>3. new = [i \in DOMAIN seq |->
                 IF <<r, i>> \in E
                 THEN [seq[i] EXCEPT !.status = "RESOLVED", !.resolution = resolution] ELSE seq[i]]
    BY <1>1, <1>2 DEF Resolved
  <1>4. \A i \in DOMAIN seq : seq[i] \in Event
    BY <1>1 DEF SeqOk
  <1>5. ASSUME NEW i \in DOMAIN seq, <<r, i>> \in E
        PROVE  /\ WasConfirmed(seq[i]) /\ WasConfirmed(new[i]) /\ new[i] \in Event
               /\ new[i].confirmed = seq[i].confirmed
    <2>1. new[i] = [seq[i] EXCEPT !.status = "RESOLVED", !.resolution = resolution]
      BY <1>3, <1>5
    <2>2. WasConfirmed(seq[i])
      BY <1>1, <1>5
    <2> QED
      BY <1>4, <2>1, <2>2 DEF Event, Statuses, WasConfirmed
  <1>6. \A i \in DOMAIN seq : <<r, i>> \notin E => new[i] = seq[i]
    BY <1>3
  <1>7. new = [i \in DOMAIN seq |-> new[i]]
    BY <1>3
  <1>8. \A i \in DOMAIN seq :
           \/ new[i] = seq[i]
           \/ /\ WasConfirmed(seq[i]) /\ WasConfirmed(new[i]) /\ new[i] \in Event
              /\ new[i].confirmed = seq[i].confirmed
    BY <1>5, <1>6
  <1>9. SeqOk(seq)
    BY <1>1
  <1>10. SeqOk(new) /\ Len(new) = Len(seq)
    BY <1>7, <1>8, <1>9, RestatusOk
  <1> QED
    BY <1>1, <1>2, <1>10

\* Time passes for an event.
LEMMA AgedType ==
    ASSUME NEW event \in Event
    PROVE  /\ Aged(event) \in Event /\ Aged(event).status = event.status
           /\ Aged(event).hits = event.hits
           /\ event.status = "DETECTED" => Aged(event).confirmed = event.confirmed
           /\ event.status \notin {"DETECTED", "EXPIRED"} => Aged(event).confirmed = Older(event.confirmed)
  <1>1. Older(event.first) \in 0 .. Oldest /\ Older(event.confirmed) \in 0 .. Oldest
    BY OlderType DEF Event
  <1>2. CASE event.status = "DETECTED"
    BY <1>1, <1>2 DEF Aged, Event
  <1>3. CASE event.status = "EXPIRED"
    BY <1>3 DEF Aged, Event
  <1>4. CASE event.status \notin {"DETECTED", "EXPIRED"}
    BY <1>1, <1>4 DEF Aged, Event
  <1> QED
    BY <1>2, <1>3, <1>4

\* Time passes for the events of a rule.
LEMMA AgedOk ==
    ASSUME NEW seq, SeqOk(seq), NEW new, new = [i \in DOMAIN seq |-> Aged(seq[i])]
    PROVE  /\ SeqOk(new) /\ Len(new) = Len(seq) /\ DOMAIN new = DOMAIN seq
           /\ \A i \in DOMAIN seq : new[i].status = seq[i].status
  <1>1. Len(seq) \in Nat /\ DOMAIN seq = 1 .. Len(seq) /\ \A i \in DOMAIN seq : seq[i] \in Event
    BY DEF SeqOk
  <1>2. new \in [1 .. Len(seq) -> Event]
    BY <1>1, AgedType
  <1>3. new \in Seq(Event) /\ Len(new) = Len(seq) /\ DOMAIN new = DOMAIN seq
    BY <1>1, <1>2
  <1>4. \A i \in DOMAIN seq : new[i] = Aged(seq[i])
    OBVIOUS
  <1>5. \A i \in DOMAIN seq : new[i].status = seq[i].status
    BY <1>1, <1>4, AgedType
  <1>6. \A i \in DOMAIN seq : seq[i].status = "DETECTED" =>
           new[i].hits = seq[i].hits /\ new[i].confirmed = seq[i].confirmed
    BY <1>1, <1>4, AgedType
  <1>7. \A i \in DOMAIN seq : WasConfirmed(seq[i]) => new[i].confirmed = Older(seq[i].confirmed)
    BY <1>1, <1>4, AgedType DEF WasConfirmed
  <1>8. Opens(new)
    <2>1. ASSUME NEW i \in DOMAIN seq, new[i].status = "DETECTED"
          PROVE  i = Len(seq) /\ new[i].hits < Debounce /\ new[i].confirmed = 0
      <3>1. seq[i].status = "DETECTED"
        BY <1>5, <2>1
      <3> QED
        BY <1>6, <2>1, <3>1 DEF SeqOk, Opens
    <2> QED
      BY <1>3, <2>1 DEF Opens
  <1>9. ASSUME NEW i \in DOMAIN seq, NEW j \in DOMAIN seq, i < j,
               WasConfirmed(new[i]), WasConfirmed(new[j]), new[i].confirmed < Oldest
        PROVE  new[i].confirmed - new[j].confirmed > Suppression
    <2>1. WasConfirmed(seq[i]) /\ WasConfirmed(seq[j])
      BY <1>5, <1>9 DEF WasConfirmed
    <2>2. PICK a, b : a = seq[i].confirmed /\ b = seq[j].confirmed
      OBVIOUS
    <2>3. a \in 0 .. Oldest /\ b \in 0 .. Oldest
      BY <1>1, <1>9, <2>2 DEF Event
    <2>4. new[i].confirmed = Older(a) /\ new[j].confirmed = Older(b)
      BY <1>9, <1>7, <2>1, <2>2
    <2>5. Older(a) = a + 1 /\ Older(b) <= b + 1 /\ a < Oldest /\ Older(b) \in 0 .. Oldest
      BY <1>9, <2>3, <2>4, OlderType, OldestType
    <2>6. a - b > Suppression
      BY <1>9, <2>1, <2>2, <2>5 DEF SeqOk, Apart
    <2> QED
      BY <2>3, <2>4, <2>5, <2>6, OldestType
  <1>10. Apart(new)
    BY <1>3, <1>9 DEF Apart
  <1> QED
    BY <1>3, <1>5, <1>10, <1>8 DEF SeqOk

-----------------------------------------------------------------------------
(* The events: every step keeps the invariant.                               *)

\* What follows of the events of a rule for all of them.
LEMMA EventsOk ==
    ASSUME NEW evs, evs = [r \in Rules |-> evs[r]],
           \A r \in Rules : SeqOk(evs[r]) /\ Len(evs[r]) <= MaxEvents
    PROVE  /\ evs \in [Rules -> Seq(Event)]
           /\ \A e \in IdsOf(evs) : e = <<e[1], e[2]>> /\ e[1] \in Rules /\ e[2] \in DOMAIN evs[e[1]]
           /\ \A r \in Rules : \A i \in DOMAIN evs[r] : <<r, i>> \in IdsOf(evs)
  <1>1. evs \in [Rules -> Seq(Event)]
    BY DEF SeqOk
  <1>2. \A e \in IdsOf(evs) : e = <<e[1], e[2]>> /\ e[1] \in Rules /\ e[2] \in DOMAIN evs[e[1]]
    BY DEF IdsOf, EventIds
  <1>3. ASSUME NEW r \in Rules, NEW i \in DOMAIN evs[r] PROVE <<r, i>> \in IdsOf(evs)
    <2>1. MaxEvents \in Nat
      BY TriggerAssumption
    <2>2. i \in 1 .. MaxEvents
      BY <1>3, <2>1 DEF SeqOk
    <2> QED
      BY <1>3, <2>2 DEF IdsOf, EventIds
  <1> QED
    BY <1>1, <1>2, <1>3

\* The monitor tick.
LEMMA MonitorTickOk ==
    ASSUME EventInv, MonitorTick
    PROVE  EventInv'
  <1>1. PICK matched \in SUBSET Rules :
           LET after == [r \in Rules |-> AfterTick(r, r \in matched)]
               new == Confirmed(after)
               admits == new # {} /\ ~job.active
           IN /\ \A r \in Rules : Len(after[r]) <= MaxEvents
              /\ events' = Analysing(after, new)
              /\ job' = IF admits THEN [active |-> TRUE, context |-> new, thread |-> FALSE]
                        ELSE IF new # {} THEN [job EXCEPT !.context = @ \cup new]
                        ELSE job
              /\ starts' = admits
    BY DEF MonitorTick
  <1>2. PICK after : after = [r \in Rules |-> AfterTick(r, r \in matched)]
    OBVIOUS
  <1>3. PICK E : E = Confirmed(after)
    OBVIOUS
  <1>4. /\ \A r \in Rules : Len(after[r]) <= MaxEvents
        /\ events' = Analysing(after, E)
        /\ job' = IF E # {} /\ ~job.active THEN [active |-> TRUE, context |-> E, thread |-> FALSE]
                  ELSE IF E # {} THEN [job EXCEPT !.context = @ \cup E] ELSE job
        /\ starts' = (E # {} /\ ~job.active)
    BY <1>1, <1>2, <1>3
  <1>5. ASSUME NEW r \in Rules
        PROVE  /\ SeqOk(after[r])
               /\ \A i \in DOMAIN events[r] :
                     /\ i \in DOMAIN after[r]
                     /\ WasConfirmed(events[r][i]) => after[r][i] = events[r][i]
    <2>1. after[r] = AfterTick(r, r \in matched) /\ SeqOk(events[r])
      BY <1>2 DEF EventInv
    <2> QED
      BY <2>1, AfterTickOk
  <1>6. \A e \in E : e \in EventIds /\ e[2] \in DOMAIN after[e[1]] /\ after[e[1]][e[2]].status = "CONFIRMED"
    BY <1>3 DEF Confirmed
  <1>7. ASSUME NEW r \in Rules
        PROVE  /\ SeqOk(events'[r]) /\ Len(events'[r]) <= MaxEvents
               /\ DOMAIN events'[r] = DOMAIN after[r]
               /\ \A i \in DOMAIN after[r] :
                     WasConfirmed(after[r][i]) => WasConfirmed(events'[r][i])
    <2>1. \A i \in DOMAIN after[r] : <<r, i>> \in E => after[r][i].status = "CONFIRMED"
      BY <1>6
    <2>2. SeqOk(after[r])
      BY <1>5
    <2> QED
      BY <1>4, <2>1, <2>2, AnalysingOk
  <1>8. events' = [r \in Rules |-> events'[r]]
    BY <1>4 DEF Analysing
  <1>9. events' \in [Rules -> Seq(Event)]
        /\ \A r \in Rules : \A i \in DOMAIN events'[r] : <<r, i>> \in IdsOf(events')
    BY <1>7, <1>8, EventsOk
  <1>10. \A e \in E : e \in IdsOf(events') /\ WasConfirmed(events'[e[1]][e[2]])
    BY <1>6, <1>7 DEF IdsOf, EventIds, WasConfirmed
  <1>11. ASSUME NEW e \in job.context
         PROVE  e \in IdsOf(events') /\ WasConfirmed(events'[e[1]][e[2]])
    <2>1. /\ e \in EventIds /\ e[1] \in Rules /\ e[2] \in DOMAIN events[e[1]]
          /\ WasConfirmed(events[e[1]][e[2]])
      BY <1>11 DEF EventInv, ContextOk, Ids, IdsOf, EventOf, EventIds
    <2>2. e[2] \in DOMAIN after[e[1]] /\ WasConfirmed(after[e[1]][e[2]])
      BY <1>5, <2>1
    <2> QED
      BY <1>7, <2>1, <2>2 DEF IdsOf
  <1>12. E \in SUBSET EventIds /\ job \in Job
    BY <1>6 DEF EventInv
  <1>13. job' \in Job /\ job'.context \subseteq job.context \cup E
    BY <1>4, <1>12 DEF Job
  <1>14. ContextOk'
    BY <1>10, <1>11, <1>13 DEF ContextOk, Ids, EventOf
  <1>15. starts' \in BOOLEAN /\ ending' \in BOOLEAN
    BY <1>4 DEF MonitorTick, EventInv
  <1> QED
    BY <1>7, <1>9, <1>13, <1>14, <1>15 DEF EventInv

\* The end of an analysis that succeeds.
LEMMA JobSucceedsOk ==
    ASSUME EventInv, JobSucceeds
    PROVE  EventInv'
  <1>1. NoJob \in Job /\ NoJob.context = {}
    BY DEF NoJob, Job
  <1>2. ASSUME NEW r \in Rules, NEW i \in DOMAIN events[r], <<r, i>> \in job.context
        PROVE  WasConfirmed(events[r][i])
    BY <1>2 DEF EventInv, ContextOk, EventOf
  <1>3. /\ events' \in [Rules -> Seq(Event)]
        /\ \A r \in Rules : SeqOk(events'[r]) /\ Len(events'[r]) <= MaxEvents
    <2>1. CASE \E resolution \in {"NO_ACTION", "ACTION"} : events' = Resolved(job.context, resolution)
      <3>1. PICK resolution \in {"NO_ACTION", "ACTION"} : events' = Resolved(job.context, resolution)
        BY <2>1
      <3>2. PICK E : E = job.context
        OBVIOUS
      <3>3. events' = Resolved(E, resolution)
        BY <3>1, <3>2
      <3>4. ASSUME NEW r \in Rules
            PROVE  SeqOk(events'[r]) /\ Len(events'[r]) = Len(events[r])
        <4>1. SeqOk(events[r]) /\ \A i \in DOMAIN events[r] : <<r, i>> \in E => WasConfirmed(events[r][i])
          BY <1>2, <3>2 DEF EventInv
        <4> QED
          BY <3>3, <4>1, ResolvedOk
      <3>5. events' = [r \in Rules |-> events'[r]]
        BY <3>3 DEF Resolved
      <3>6. \A r \in Rules : SeqOk(events'[r]) /\ Len(events'[r]) <= MaxEvents
        BY <3>4 DEF EventInv
      <3> QED
        BY <3>5, <3>6, EventsOk
    <2>2. CASE UNCHANGED events
      BY <2>2 DEF EventInv
    <2> QED
      BY <2>1, <2>2 DEF JobSucceeds
  <1>4. job' = NoJob /\ ending' \in BOOLEAN /\ starts' \in BOOLEAN
    BY DEF JobSucceeds, EventInv
  <1>5. ContextOk'
    BY <1>1, <1>4 DEF ContextOk
  <1> QED
    BY <1>1, <1>3, <1>4, <1>5 DEF EventInv

\* Events whose ages and days change stay the events they are.
LEMMA SameEventsOk ==
    ASSUME EventInv, NEW evs, evs = [r \in Rules |-> evs[r]], events' = evs, UNCHANGED <<job, starts, ending>>,
           \A r \in Rules : /\ SeqOk(evs[r]) /\ Len(evs[r]) = Len(events[r])
                            /\ DOMAIN evs[r] = DOMAIN events[r]
                            /\ \A i \in DOMAIN events[r] : evs[r][i].status = events[r][i].status
    PROVE  EventInv'
  <1>1. \A r \in Rules : SeqOk(evs[r]) /\ Len(evs[r]) <= MaxEvents
    BY DEF EventInv
  <1>2. evs \in [Rules -> Seq(Event)]
    BY <1>1, EventsOk
  <1>3. ASSUME NEW e \in job.context
        PROVE  e \in IdsOf(evs) /\ WasConfirmed(evs[e[1]][e[2]])
    <2>1. /\ e \in EventIds /\ e[1] \in Rules /\ e[2] \in DOMAIN events[e[1]]
          /\ WasConfirmed(events[e[1]][e[2]])
      BY <1>3 DEF EventInv, ContextOk, Ids, IdsOf, EventOf, EventIds
    <2> QED
      BY <2>1 DEF IdsOf, WasConfirmed
  <1>4. ContextOk'
    BY <1>3 DEF ContextOk, Ids, EventOf
  <1> QED
    BY <1>1, <1>2, <1>4 DEF EventInv

\* Time passes for all events.
LEMMA TickOk ==
    ASSUME EventInv, Tick
    PROVE  EventInv'
  <1>1. PICK evs : evs = [r \in Rules |-> [i \in DOMAIN events[r] |-> Aged(events[r][i])]]
    OBVIOUS
  <1>2. events' = evs /\ UNCHANGED <<job, starts, ending>>
    BY <1>1 DEF Tick
  <1>3. ASSUME NEW r \in Rules
        PROVE  /\ SeqOk(evs[r]) /\ Len(evs[r]) = Len(events[r])
               /\ DOMAIN evs[r] = DOMAIN events[r]
               /\ \A i \in DOMAIN events[r] : evs[r][i].status = events[r][i].status
    <2>1. evs[r] = [i \in DOMAIN events[r] |-> Aged(events[r][i])] /\ SeqOk(events[r])
      BY <1>1 DEF EventInv
    <2> QED
      BY <2>1, AgedOk
  <1>4. evs = [r \in Rules |-> evs[r]]
    BY <1>1
  <1> QED
    BY <1>2, <1>3, <1>4, SameEventsOk

\* A new day begins for the events of a rule.
LEMMA YesterdayOk ==
    ASSUME NEW seq, SeqOk(seq), NEW new, new = [i \in DOMAIN seq |-> [seq[i] EXCEPT !.today = FALSE]]
    PROVE  /\ SeqOk(new) /\ Len(new) = Len(seq) /\ DOMAIN new = DOMAIN seq
           /\ \A i \in DOMAIN seq : new[i].status = seq[i].status
  <1>1. Len(seq) \in Nat /\ DOMAIN seq = 1 .. Len(seq) /\ \A i \in DOMAIN seq : seq[i] \in Event
    BY DEF SeqOk
  <1>2. ASSUME NEW i \in DOMAIN seq
        PROVE  /\ new[i] \in Event /\ new[i].status = seq[i].status
               /\ new[i].hits = seq[i].hits /\ new[i].confirmed = seq[i].confirmed
    <2>1. seq[i] \in Event /\ new[i] = [seq[i] EXCEPT !.today = FALSE]
      BY <1>1, <1>2
    <2> QED
      BY <2>1 DEF Event
  <1>3. new \in [1 .. Len(seq) -> Event]
    BY <1>1, <1>2
  <1>4. new \in Seq(Event) /\ Len(new) = Len(seq) /\ DOMAIN new = DOMAIN seq
    BY <1>1, <1>3
  <1>5. Opens(new)
    BY <1>2, <1>4 DEF SeqOk, Opens
  <1>6. Apart(new)
    BY <1>2, <1>4 DEF SeqOk, Apart, WasConfirmed
  <1> QED
    BY <1>2, <1>4, <1>5, <1>6 DEF SeqOk

\* A new day begins for all events.
LEMMA NewDayOk ==
    ASSUME EventInv, NewDay
    PROVE  EventInv'
  <1>1. PICK evs : evs = [r \in Rules |->
                            [i \in DOMAIN events[r] |-> [events[r][i] EXCEPT !.today = FALSE]]]
    OBVIOUS
  <1>2. events' = evs /\ UNCHANGED <<job, starts, ending>>
    BY <1>1 DEF NewDay
  <1>3. ASSUME NEW r \in Rules
        PROVE  /\ SeqOk(evs[r]) /\ Len(evs[r]) = Len(events[r])
               /\ DOMAIN evs[r] = DOMAIN events[r]
               /\ \A i \in DOMAIN events[r] : evs[r][i].status = events[r][i].status
    <2>1. evs[r] = [i \in DOMAIN events[r] |-> [events[r][i] EXCEPT !.today = FALSE]] /\ SeqOk(events[r])
      BY <1>1 DEF EventInv
    <2> QED
      BY <2>1, YesterdayOk
  <1>4. evs = [r \in Rules |-> evs[r]]
    BY <1>1
  <1> QED
    BY <1>2, <1>3, <1>4, SameEventsOk

\* The steps that leave the events as they are.
LEMMA OtherStepsOk ==
    ASSUME EventInv, UNCHANGED events, job' \in Job, job'.context \subseteq job.context,
           starts' \in BOOLEAN, ending' \in BOOLEAN
    PROVE  EventInv'
  <1>1. ContextOk'
    BY DEF EventInv, ContextOk, Ids, EventOf
  <1> QED
    BY <1>1 DEF EventInv

\* Every step keeps the invariant.
LEMMA EventStep == EventInv /\ [Next]_vars => EventInv'
  <1> SUFFICES ASSUME EventInv, [Next]_vars PROVE EventInv'
    OBVIOUS
  <1>0. job \in Job /\ starts \in BOOLEAN /\ ending \in BOOLEAN /\ NoJob \in Job /\ NoJob.context = {}
    BY DEF EventInv, NoJob, Job
  <1>1. CASE MonitorTick \/ JobSucceeds \/ Tick \/ NewDay
    BY <1>1, MonitorTickOk, JobSucceedsOk, TickOk, NewDayOk
  <1>2. CASE MonitorEnds \/ MonitorFails
    BY <1>0, <1>2, OtherStepsOk DEF MonitorEnds, MonitorFails, StartsJob, Job
  <1>3. CASE Request
    <2>1. [NoJob EXCEPT !.active = TRUE, !.thread = TRUE] \in Job
          /\ [NoJob EXCEPT !.active = TRUE, !.thread = TRUE].context = {}
      BY DEF NoJob, Job
    <2> QED
      BY <1>0, <1>3, <2>1, OtherStepsOk DEF Request
  <1>4. CASE JobFails
    BY <1>0, <1>4, OtherStepsOk DEF JobFails
  <1>5. CASE AnalysisDispatch
    BY <1>0, <1>5, OtherStepsOk DEF AnalysisDispatch
  <1>6. CASE AnalysisEnds
    BY <1>0, <1>6, OtherStepsOk DEF AnalysisEnds, facts
  <1>7. ASSUME NEW p \in Sessions, Deliver(p) PROVE EventInv'
    BY <1>0, <1>7, OtherStepsOk DEF Deliver, facts
  <1>8. CASE Crash
    BY <1>0, <1>8, OtherStepsOk DEF Crash, Job
  <1>9. CASE UNCHANGED vars
    BY <1>0, <1>9, OtherStepsOk DEF vars
  <1> QED
    BY <1>1, <1>2, <1>3, <1>4, <1>5, <1>6, <1>7, <1>8, <1>9 DEF Next

\* The invariant holds at first.
LEMMA EventInit == Init => EventInv
  <1> SUFFICES ASSUME Init PROVE EventInv
    OBVIOUS
  <1>1. MaxEvents \in Nat
    BY TriggerAssumption
  <1>2. <<>> \in Seq(Event) /\ Len(<<>>) = 0 /\ DOMAIN <<>> = {}
    OBVIOUS
  <1>3. SeqOk(<<>>)
    BY <1>2 DEF SeqOk, Opens, Apart
  <1>4. events \in [Rules -> Seq(Event)] /\ \A r \in Rules : events[r] = <<>>
    BY <1>2 DEF Init
  <1>5. \A r \in Rules : SeqOk(events[r]) /\ Len(events[r]) <= MaxEvents
    BY <1>1, <1>2, <1>3, <1>4
  <1>6. job \in Job /\ job.context = {} /\ starts \in BOOLEAN /\ ending \in BOOLEAN
    BY DEF Init, NoJob, Job
  <1> QED
    BY <1>4, <1>5, <1>6 DEF EventInv, ContextOk

\* It holds always.
LEMMA EventsAlways == Spec => []EventInv
  BY EventInit, EventStep, PTL DEF Spec

\* The types hold in every reachable state, of any instance.
THEOREM TriggerTypes == Spec => []TypeOK
  <1>1. Proved!Spec => []Proved!TypeOK
    BY ProvedAssumption, Proved!OutboxTypes
  <1>2. Proved!TypeOK => Outbox!TypeOK
    BY DEF Proved!TypeOK, Outbox!TypeOK, Proved!Row, Outbox!Row, Proved!Session, Outbox!Session,
           Proved!Outcomes, Outbox!Outcomes, Proved!Oldest, Outbox!Oldest
  <1>3. EventInv /\ Outbox!TypeOK => TypeOK
    BY DEF EventInv, TypeOK
  <1> QED
    BY <1>1, <1>2, <1>3, EventsAlways, TriggerOutbox, SameOutbox, PTL DEF OutboxSpec

\* A rule never has two open events.
THEOREM TriggerOneOpen == Spec => []OneOpenEvent
  <1>1. EventInv => OneOpenEvent
    BY DEF EventInv, SeqOk, Opens, OneOpenEvent, Open
  <1> QED
    BY <1>1, EventsAlways, PTL

\* No two confirmations of one rule are closer than the cooldown.
THEOREM TriggerConfirmations == Spec => []ConfirmationsApart
  <1>1. EventInv => ConfirmationsApart
    BY DEF EventInv, SeqOk, Apart, ConfirmationsApart, WasConfirmed
  <1> QED
    BY <1>1, EventsAlways, PTL
=============================================================================

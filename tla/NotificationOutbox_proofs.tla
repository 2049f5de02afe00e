---------------------- MODULE NotificationOutbox_proofs ----------------------
(* The safety properties of NotificationOutbox, for any keys and sessions and *)
(* any bounds that satisfy its assumption.                                    *)
EXTENDS NotificationOutbox, TLAPS

-----------------------------------------------------------------------------
(* The inductive invariant.                                                   *)

\* A session that records SENT has been answered by a channel.
AnsweredInv ==
    \A p \in Sessions : ses[p].step = "record" /\ ses[p].out = "SENT" => ses[p].key \in posted

\* What a delivery that goes on says of the row, unless a failure was recorded over its
\* claim: there is one, it has not failed, and a claim is not dated before the delivery.
DeliveryInv ==
    \A p \in Sessions \ overruled : \A k \in Keys : Delivers(p, k) =>
        /\ rows[k].status \notin {"none", "FAILED"}
        /\ rows[k].status = "DISPATCHING" => rows[k].age <= ses[p].age

-----------------------------------------------------------------------------
(* What rows and sessions are made of.                                        *)

\* The fields of a row.
LEMMA RowFields ==
    ASSUME NEW row \in Row
    PROVE  /\ row.status \in {"none", "DISPATCHING", "SENT", "DASHBOARD_ONLY", "FAILED"}
           /\ row.age \in 0 .. Oldest
  BY DEF Row, Outcomes

\* The fields of a session at each step.
LEMMA SessionFields ==
    ASSUME NEW s \in Session
    PROVE  /\ s.step \in {"idle", "dispatch", "deliver", "record"}
           /\ s.age \in 0 .. MaxMoment /\ s.todo \in SUBSET Keys
           /\ s.step \in {"deliver", "record"} => s.key \in Keys
           /\ s.step = "record" => s.out \in Outcomes
  BY DEF Session

\* The sessions that the operations make.
LEMMA SessionRows ==
    ASSUME OutboxAssumption
    PROVE  /\ Idle \in Session /\ Idle.step = "idle"
           /\ \A a \in 0 .. MaxMoment, K \in SUBSET Keys :
                 /\ [step |-> "dispatch", age |-> a, todo |-> K] \in Session
                 /\ \A k \in Keys :
                       /\ [step |-> "deliver", age |-> a, todo |-> K, key |-> k] \in Session
                       /\ \A o \in Outcomes :
                             [step |-> "record", age |-> a, todo |-> K, key |-> k, out |-> o] \in Session
  BY DEF Session, Idle, OutboxAssumption

\* Taking an event off the list, and growing older.
LEMMA SessionSteps ==
    ASSUME OutboxAssumption, NEW s \in Session
    PROVE  /\ \A K \in SUBSET Keys : s.step = "dispatch" => [s EXCEPT !.todo = K] \in Session
           /\ s.age < MaxMoment => [s EXCEPT !.age = @ + 1] \in Session
  <1>1. \A K \in SUBSET Keys : s.step = "dispatch" => [s EXCEPT !.todo = K] \in Session
    BY DEF Session
  <1>2. ASSUME s.age < MaxMoment PROVE [s EXCEPT !.age = @ + 1] \in Session
    <2>1. s.age + 1 \in 0 .. MaxMoment
      BY <1>2, SessionFields DEF OutboxAssumption
    <2> QED
      BY <2>1 DEF Session
  <1> QED
    BY <1>1, <1>2

\* Ages are bounded.
LEMMA Ages ==
    ASSUME OutboxAssumption
    PROVE  /\ Oldest \in Nat /\ MaxMoment \in Nat /\ MaxMoment < Oldest
           /\ \A a \in 0 .. Oldest : Older(a) \in 0 .. Oldest /\ Older(a) <= a + 1
           /\ \A a \in 0 .. MaxMoment : a \in 0 .. Oldest
  BY DEF Oldest, Older, OutboxAssumption

-----------------------------------------------------------------------------
(* Type correctness.                                                          *)

\* A session that changes is a session, and no other one changes.
LEMMA SessionTypes ==
    ASSUME TypeOK, NEW p \in Sessions, NEW s \in Session, ses' = [ses EXCEPT ![p] = s]
    PROVE  ses' \in [Sessions -> Session]
  BY DEF TypeOK

\* A row that is written is a row, and no other one changes.
LEMMA WrittenTypes ==
    ASSUME TypeOK, NEW k \in Keys, NEW row \in Row, rows' = [rows EXCEPT ![k] = row]
    PROVE  rows' \in [Keys -> Row]
  BY DEF TypeOK

\* Every step keeps the types.
LEMMA TypeStep ==
    ASSUME OutboxAssumption, TypeOK, [Next]_outbox
    PROVE  TypeOK'
  <1> USE DEF OutboxAssumption
  <1>1. ASSUME NEW p \in Sessions, Claim(p) PROVE TypeOK'
    <2>1. PICK k \in Foremost(p) :
             /\ rows' = [rows EXCEPT ![k] = [status |-> "DISPATCHING", age |-> ses[p].age]]
             /\ ses' = [ses EXCEPT ![p] = [step |-> "deliver", age |-> ses[p].age,
                                           todo |-> ses[p].todo \ {k}, key |-> k]]
      BY <1>1 DEF Claim
    <2>2. ses[p].age \in 0 .. MaxMoment /\ ses[p].todo \in SUBSET Keys /\ k \in Keys
      BY SessionFields DEF TypeOK, Foremost
    <2>3. [status |-> "DISPATCHING", age |-> ses[p].age] \in Row
      BY <2>2, Ages DEF Row
    <2>4. ses[p].todo \ {k} \in SUBSET Keys
      BY <2>2
    <2>5. [step |-> "deliver", age |-> ses[p].age, todo |-> ses[p].todo \ {k}, key |-> k] \in Session
      BY <2>2, <2>4, SessionRows
    <2>6. rows' \in [Keys -> Row]
      BY <2>1, <2>2, <2>3, WrittenTypes
    <2>7. ses' \in [Sessions -> Session]
      BY <2>1, <2>5, SessionTypes
    <2> QED
      BY <1>1, <2>6, <2>7 DEF Claim, TypeOK
  <1>2. ASSUME NEW p \in Sessions, Pass(p) PROVE TypeOK'
    <2>1. PICK k \in Foremost(p) : ses' = [ses EXCEPT ![p].todo = @ \ {k}]
      BY <1>2 DEF Pass
    <2>2. ses[p].todo \ {k} \in SUBSET Keys
      BY SessionFields DEF TypeOK
    <2>3. [ses[p] EXCEPT !.todo = ses[p].todo \ {k}] \in Session
      BY <1>2, <2>2, SessionSteps DEF Pass, TypeOK
    <2>4. ses' = [ses EXCEPT ![p] = [ses[p] EXCEPT !.todo = ses[p].todo \ {k}]]
      BY <2>1 DEF TypeOK
    <2> QED
      BY <1>2, <2>3, <2>4, SessionTypes DEF Pass, TypeOK
  <1>3. ASSUME NEW p \in Sessions, Post(p) PROVE TypeOK'
    <2>1. ses[p].age \in 0 .. MaxMoment /\ ses[p].todo \in SUBSET Keys /\ ses[p].key \in Keys
      BY <1>3, SessionFields DEF Post, TypeOK
    <2>2. ASSUME NEW o \in Outcomes, Answered(p, o) PROVE ses' \in [Sessions -> Session]
      <3>1. [step |-> "record", age |-> ses[p].age, todo |-> ses[p].todo, key |-> ses[p].key,
             out |-> o] \in Session
        BY <2>1, SessionRows
      <3> QED
        BY <2>2, <3>1, SessionTypes DEF Answered
    <2>3. ses' \in [Sessions -> Session]
      BY <1>3, <2>2 DEF Post, Outcomes
    <2> QED
      BY <1>3, <2>1, <2>3 DEF Post, TypeOK
  <1>4. ASSUME NEW p \in Sessions, Record(p) PROVE TypeOK'
    <2>1. /\ ses[p].age \in 0 .. MaxMoment /\ ses[p].todo \in SUBSET Keys /\ ses[p].key \in Keys
          /\ ses[p].out \in Outcomes
      BY <1>4, SessionFields DEF Record, TypeOK
    <2> DEFINE row == [status |-> ses[p].out, age |-> IF ses[p].out = "FAILED" THEN ses[p].age ELSE 0]
    <2>2. row \in Row
      BY <2>1, Ages DEF Row
    <2>3. [step |-> "dispatch", age |-> ses[p].age, todo |-> ses[p].todo] \in Session
      BY <2>1, SessionRows
    <2>4. rows' = [rows EXCEPT ![ses[p].key] = row]
      BY <1>4 DEF Record
    <2> HIDE DEF row
    <2>5. rows' \in [Keys -> Row]
      BY <2>1, <2>2, <2>4, WrittenTypes
    <2>6. ses' \in [Sessions -> Session]
      BY <1>4, <2>3, SessionTypes DEF Record
    <2> QED
      BY <1>4, <2>5, <2>6 DEF Record, TypeOK
  <1>5. ASSUME NEW p \in Sessions, End(p) \/ Fail(p) PROVE TypeOK'
    <2>1. ses' \in [Sessions -> Session]
      BY <1>5, SessionRows, SessionTypes DEF End, Fail
    <2> QED
      BY <1>5, <2>1 DEF End, Fail, TypeOK
  <1>6. CASE Crash
    BY <1>6, SessionRows DEF Crash, TypeOK
  <1>7. CASE Tick
    <2>1. ASSUME NEW k \in Keys PROVE rows'[k] \in Row
      <3>1. rows[k] \in Row /\ Older(rows[k].age) \in 0 .. Oldest
        BY RowFields, Ages DEF TypeOK
      <3>2. [rows[k] EXCEPT !.age = Older(@)] \in Row
        BY <3>1 DEF Row
      <3> QED
        BY <1>7, <3>1, <3>2 DEF Tick
    <2>2. ASSUME NEW p \in Sessions PROVE ses'[p] \in Session
      BY <1>7, SessionSteps DEF Tick, TypeOK
    <2>3. rows' \in [Keys -> Row] /\ ses' \in [Sessions -> Session]
      BY <1>7, <2>1, <2>2 DEF Tick
    <2> QED
      BY <1>7, <2>3 DEF Tick, TypeOK
  <1>8. ASSUME NEW p \in Sessions, NEW K \in SUBSET Keys, NEW a \in 0 .. MaxMoment, Begin(p, K, a)
        PROVE  TypeOK'
    <2>1. [step |-> "dispatch", age |-> a, todo |-> K] \in Session
      BY SessionRows
    <2>2. ses' \in [Sessions -> Session]
      BY <1>8, <2>1, SessionTypes DEF Begin
    <2> QED
      BY <1>8, <2>2 DEF Begin, TypeOK
  <1>9. CASE UNCHANGED outbox
    BY <1>9 DEF outbox, TypeOK
  <1> QED
    BY <1>1, <1>2, <1>3, <1>4, <1>5, <1>6, <1>7, <1>8, <1>9 DEF Next, Dispatch

-----------------------------------------------------------------------------
(* What is recorded as sent was posted.                                       *)

\* Every step keeps the answers and the record of what was sent.
LEMMA PostedStep ==
    ASSUME OutboxAssumption, TypeOK, AnsweredInv, SentIsPosted, [Next]_outbox
    PROVE  AnsweredInv' /\ SentIsPosted'
  <1> USE DEF AnsweredInv, SentIsPosted
  <1>1. ASSUME NEW p \in Sessions, Claim(p) PROVE AnsweredInv' /\ SentIsPosted'
    <2>1. PICK k \in Foremost(p) :
             /\ rows' = [rows EXCEPT ![k] = [status |-> "DISPATCHING", age |-> ses[p].age]]
             /\ ses' = [ses EXCEPT ![p] = [step |-> "deliver", age |-> ses[p].age,
                                           todo |-> ses[p].todo \ {k}, key |-> k]]
      BY <1>1 DEF Claim
    <2> QED
      BY <1>1, <2>1 DEF Claim, TypeOK
  <1>2. ASSUME NEW p \in Sessions, Pass(p) PROVE AnsweredInv' /\ SentIsPosted'
    BY <1>2 DEF Pass, TypeOK
  <1>3. ASSUME NEW p \in Sessions, Post(p) PROVE AnsweredInv' /\ SentIsPosted'
    <2>1. PICK o \in Outcomes : /\ Answered(p, o)
                                /\ posted \subseteq posted'
                                /\ o = "SENT" => ses[p].key \in posted'
      BY <1>3 DEF Post, Outcomes
    <2>2. ses'[p] = [step |-> "record", age |-> ses[p].age, todo |-> ses[p].todo,
                     key |-> ses[p].key, out |-> o]
      BY <2>1 DEF Answered, TypeOK
    <2>3. \A q \in Sessions \ {p} : ses'[q] = ses[q]
      BY <2>1 DEF Answered, TypeOK
    <2>4. AnsweredInv'
      BY <2>1, <2>2, <2>3
    <2> QED
      BY <1>3, <2>1, <2>4 DEF Post
  <1>4. ASSUME NEW p \in Sessions, Record(p) PROVE AnsweredInv' /\ SentIsPosted'
    BY <1>4 DEF Record, TypeOK
  <1>5. ASSUME NEW p \in Sessions, End(p) \/ Fail(p) PROVE AnsweredInv' /\ SentIsPosted'
    BY <1>5, SessionRows DEF End, Fail, TypeOK
  <1>6. CASE Crash
    BY <1>6, SessionRows DEF Crash
  <1>7. CASE Tick
    <2>1. \A k \in Keys : rows'[k].status = rows[k].status
      BY <1>7, RowFields DEF Tick, TypeOK, Row
    <2>2. \A p \in Sessions : ses'[p].step = "record" =>
             ses[p].step = "record" /\ ses'[p].out = ses[p].out /\ ses'[p].key = ses[p].key
      BY <1>7 DEF Tick, TypeOK, Session
    <2> QED
      BY <1>7, <2>1, <2>2 DEF Tick
  <1>8. ASSUME NEW p \in Sessions, NEW K \in SUBSET Keys, NEW a \in 0 .. MaxMoment, Begin(p, K, a)
        PROVE  AnsweredInv' /\ SentIsPosted'
    BY <1>8 DEF Begin, TypeOK
  <1>9. CASE UNCHANGED outbox
    BY <1>9 DEF outbox
  <1> QED
    BY <1>1, <1>2, <1>3, <1>4, <1>5, <1>6, <1>7, <1>8, <1>9 DEF Next, Dispatch

-----------------------------------------------------------------------------
(* Claims of one event are a lease apart.                                     *)

\* A step after which nobody delivers what he did not deliver before, and no row changes
\* but by growing older with the sessions.
Calm(d) ==
    /\ \A k \in Keys : rows'[k].status = rows[k].status /\ rows'[k].age <= rows[k].age + d
    /\ \A p \in Sessions : ses'[p].step \in {"deliver", "record"} =>
          /\ ses[p].step \in {"deliver", "record"}
          /\ ses'[p].key = ses[p].key /\ ses'[p].age = ses[p].age + d
          /\ p \in overruled => p \in overruled'

\* Such a step keeps the invariants.
LEMMA CalmStep ==
    ASSUME OutboxAssumption, TypeOK, TypeOK', DeliveryInv, ClaimsApart, NEW d \in {0, 1}, Calm(d)
    PROVE  DeliveryInv' /\ ClaimsApart'
  <1>1. /\ \A k \in Keys : rows[k].age \in Int /\ rows'[k].age \in Int
        /\ \A p \in Sessions : ses[p].age \in Int /\ ses'[p].age \in Int
        /\ MaxMoment \in Nat /\ Lease \in Nat
    BY RowFields, SessionFields DEF TypeOK, OutboxAssumption
  <1>2. DeliveryInv'
    BY <1>1 DEF Calm, DeliveryInv, Delivers
  <1>3. ClaimsApart'
    BY <1>1 DEF Calm, ClaimsApart, Delivers
  <1> QED
    BY <1>2, <1>3

\* A claim is a lease apart from every delivery of the same event that is not overruled.
LEMMA ClaimApart ==
    ASSUME OutboxAssumption, TypeOK, DeliveryInv,
           NEW p \in Sessions, NEW q \in Sessions \ overruled, NEW k \in Keys, Claimable(p, k), Delivers(q, k)
    PROVE  ses[q].age - ses[p].age >= Lease
  <1>1. /\ rows[k].age \in Int /\ ses[p].age \in Int /\ ses[q].age \in Int
        /\ MaxMoment \in Nat /\ Lease \in Nat /\ Cooldown \in Nat
    BY RowFields, SessionFields DEF TypeOK, OutboxAssumption
  <1>2. CASE rows[k].status = "DISPATCHING" /\ rows[k].age - ses[p].age >= Lease
    BY <1>1, <1>2 DEF DeliveryInv
  <1>3. CASE rows[k].status = "FAILED" /\ rows[k].age - ses[p].age >= Cooldown
    BY <1>3 DEF DeliveryInv
  <1> QED
    BY <1>2, <1>3 DEF Claimable, DeliveryInv

\* Every step keeps the invariants.
LEMMA ClaimsStep ==
    ASSUME OutboxAssumption, TypeOK, TypeOK', DeliveryInv, ClaimsApart, [Next]_outbox
    PROVE  DeliveryInv' /\ ClaimsApart'
  <1>0. /\ \A k \in Keys : rows[k].age \in Int
        /\ \A p \in Sessions : ses[p].age \in 0 .. MaxMoment
        /\ MaxMoment \in Nat /\ Lease \in Nat
    BY RowFields, SessionFields DEF TypeOK, OutboxAssumption
  <1>1. ASSUME NEW p \in Sessions, Claim(p) PROVE DeliveryInv' /\ ClaimsApart'
    <2>1. PICK k \in Foremost(p) :
             /\ Claimable(p, k)
             /\ rows' = [rows EXCEPT ![k] = [status |-> "DISPATCHING", age |-> ses[p].age]]
             /\ ses' = [ses EXCEPT ![p] = [step |-> "deliver", age |-> ses[p].age,
                                           todo |-> ses[p].todo \ {k}, key |-> k]]
      BY <1>1 DEF Claim
    <2>2. k \in Keys
      BY SessionFields DEF TypeOK, Foremost
    <2>3. \A q \in Sessions \ overruled : Delivers(q, k) => ses[q].age - ses[p].age >= Lease
      BY <2>1, <2>2, ClaimApart
    <2>4. /\ rows'[k] = [status |-> "DISPATCHING", age |-> ses[p].age]
          /\ \A l \in Keys \ {k} : rows'[l] = rows[l]
          /\ ses'[p] = [step |-> "deliver", age |-> ses[p].age, todo |-> ses[p].todo \ {k}, key |-> k]
          /\ \A q \in Sessions \ {p} : ses'[q] = ses[q]
          /\ overruled' = overruled
      BY <1>1, <2>1, <2>2 DEF Claim, TypeOK
    <2>5. DeliveryInv'
      BY <1>0, <2>2, <2>3, <2>4 DEF DeliveryInv, Delivers
    <2>6. ClaimsApart'
      BY <1>0, <2>2, <2>3, <2>4 DEF ClaimsApart, Delivers
    <2> QED
      BY <2>5, <2>6
  <1>2. ASSUME NEW p \in Sessions, Pass(p) PROVE Calm(0)
    BY <1>0, <1>2 DEF Pass, Calm, TypeOK
  <1>3. ASSUME NEW p \in Sessions, Post(p) PROVE Calm(0)
    <2>1. PICK o \in Outcomes : Answered(p, o)
      BY <1>3 DEF Post, Outcomes
    <2>2. ses'[p] = [step |-> "record", age |-> ses[p].age, todo |-> ses[p].todo,
                     key |-> ses[p].key, out |-> o]
      BY <2>1 DEF Answered, TypeOK
    <2>3. \A q \in Sessions \ {p} : ses'[q] = ses[q]
      BY <2>1 DEF Answered, TypeOK
    <2> QED
      BY <1>0, <1>3, <2>2, <2>3 DEF Post, Calm
  <1>4. ASSUME NEW p \in Sessions, Record(p) PROVE DeliveryInv' /\ ClaimsApart'
    <2>1. ses[p].key \in Keys /\ ses[p].out \in Outcomes
      BY <1>4, SessionFields DEF Record, TypeOK
    <2> DEFINE row == [status |-> ses[p].out, age |-> IF ses[p].out = "FAILED" THEN ses[p].age ELSE 0]
    <2>2. /\ rows'[ses[p].key] = row
          /\ \A l \in Keys \ {ses[p].key} : rows'[l] = rows[l]
          /\ ses'[p] = [step |-> "dispatch", age |-> ses[p].age, todo |-> ses[p].todo]
          /\ \A q \in Sessions \ {p} : ses'[q] = ses[q]
      BY <1>4, <2>1 DEF Record, TypeOK
    <2>3. row.status = ses[p].out /\ row.status \notin {"none", "DISPATCHING"}
      BY <2>1 DEF Outcomes
    <2> HIDE DEF row
    <2>4. \A q \in Sessions \ overruled' : \A k \in Keys : Delivers(q, k)' =>
             /\ q # p /\ q \notin overruled /\ Delivers(q, k)
             /\ ses'[q] = ses[q] /\ (k = ses[p].key => ses[p].out # "FAILED")
      BY <1>4, <2>2 DEF Record, Delivers
    <2>5. DeliveryInv'
      BY <2>1, <2>2, <2>3, <2>4 DEF DeliveryInv
    <2>6. ClaimsApart'
      BY <2>4 DEF ClaimsApart
    <2> QED
      BY <2>5, <2>6
  <1>5. ASSUME NEW p \in Sessions, End(p) \/ Fail(p) PROVE Calm(0)
    BY <1>0, <1>5, SessionRows DEF End, Fail, Calm, TypeOK
  <1>6. ASSUME Crash PROVE Calm(0)
    BY <1>0, <1>6, SessionRows DEF Crash, Calm
  <1>7. ASSUME Tick PROVE Calm(1)
    <2>1. \A k \in Keys : rows'[k].status = rows[k].status /\ rows'[k].age <= rows[k].age + 1
      <3> SUFFICES ASSUME NEW k \in Keys
                   PROVE  rows'[k].status = rows[k].status /\ rows'[k].age <= rows[k].age + 1
        OBVIOUS
      <3>1. rows[k] \in Row /\ rows[k].age \in 0 .. Oldest /\ Older(rows[k].age) <= rows[k].age + 1
        BY RowFields, Ages DEF TypeOK
      <3>2. CASE rows'[k] = [rows[k] EXCEPT !.age = Older(@)]
        BY <3>1, <3>2 DEF Row
      <3>3. CASE rows'[k] = rows[k]
        BY <1>0, <3>3
      <3> QED
        BY <1>7, <3>2, <3>3 DEF Tick
    <2>2. \A p \in Sessions : ses[p].step # "idle" =>
             /\ ses'[p].step = ses[p].step /\ ses'[p].age = ses[p].age + 1
             /\ ses[p].step \in {"deliver", "record"} => ses'[p].key = ses[p].key
      <3> SUFFICES ASSUME NEW p \in Sessions, ses[p].step # "idle"
                   PROVE  /\ ses'[p].step = ses[p].step /\ ses'[p].age = ses[p].age + 1
                          /\ ses[p].step \in {"deliver", "record"} => ses'[p].key = ses[p].key
        OBVIOUS
      <3>1. ses'[p] = [ses[p] EXCEPT !.age = @ + 1]
        BY <1>7 DEF Tick
      <3> QED
        BY <3>1 DEF TypeOK, Session
    <2>3. \A p \in Sessions : ses[p].step = "idle" => ses'[p] = ses[p]
      BY <1>7 DEF Tick
    <2> QED
      BY <1>7, <2>1, <2>2, <2>3 DEF Tick, Calm
  <1>8. ASSUME NEW p \in Sessions, NEW K \in SUBSET Keys, NEW a \in 0 .. MaxMoment, Begin(p, K, a)
        PROVE  Calm(0)
    BY <1>0, <1>8 DEF Begin, Calm, TypeOK
  <1>9. ASSUME UNCHANGED outbox PROVE Calm(0)
    BY <1>0, <1>9 DEF outbox, Calm
  <1> QED
    BY <1>1, <1>2, <1>3, <1>4, <1>5, <1>6, <1>7, <1>8, <1>9, CalmStep DEF Next, Dispatch

-----------------------------------------------------------------------------
(* The theorems.                                                              *)

\* Nothing is claimed, delivered or recorded initially.
LEMMA InitInv ==
    ASSUME OutboxAssumption, Init
    PROVE  TypeOK /\ AnsweredInv /\ SentIsPosted /\ DeliveryInv /\ ClaimsApart
  <1>1. \A p \in Sessions : ses[p] = Idle /\ ses[p].step = "idle" /\ ses[p] \in Session
    BY SessionRows DEF Init
  <1>2. NoRow \in Row
    BY Ages DEF NoRow, Row
  <1>3. TypeOK
    BY <1>1, <1>2 DEF Init, TypeOK, OutboxAssumption
  <1> QED
    BY <1>1, <1>3 DEF Init, NoRow, AnsweredInv, SentIsPosted, DeliveryInv, ClaimsApart, Delivers

\* Rows and sessions keep their fields: an age never outgrows what a claim can depend on.
THEOREM OutboxTypes == OutboxAssumption => (Spec => []TypeOK)
  <1> SUFFICES ASSUME OutboxAssumption PROVE Spec => []TypeOK
    OBVIOUS
  <1>1. Init => TypeOK
    BY InitInv
  <1>2. TypeOK /\ [Next]_outbox => TypeOK'
    BY TypeStep
  <1> QED
    BY <1>1, <1>2, PTL DEF Spec

\* A row says SENT only of an event that a channel has accepted.
THEOREM OutboxPosted == OutboxAssumption => (Spec => []SentIsPosted)
  <1> SUFFICES ASSUME OutboxAssumption PROVE Spec => []SentIsPosted
    OBVIOUS
  <1>1. Init => TypeOK /\ AnsweredInv /\ SentIsPosted
    BY InitInv
  <1>2. TypeOK /\ AnsweredInv /\ SentIsPosted /\ [Next]_outbox
           => TypeOK' /\ AnsweredInv' /\ SentIsPosted'
    BY TypeStep, PostedStep
  <1> QED
    BY <1>1, <1>2, PTL DEF Spec

\* Two deliveries of one event at once are a whole lease apart, unless a late session has
\* recorded its failure over the claim of one of them: whatever the cooldown is, however
\* old the moments that sessions are dated by, and however long they take.
THEOREM OutboxClaims == OutboxAssumption => (Spec => []ClaimsApart)
  <1> SUFFICES ASSUME OutboxAssumption PROVE Spec => []ClaimsApart
    OBVIOUS
  <1>1. Init => TypeOK /\ DeliveryInv /\ ClaimsApart
    BY InitInv
  <1>2. TypeOK /\ DeliveryInv /\ ClaimsApart /\ [Next]_outbox
           => TypeOK' /\ DeliveryInv' /\ ClaimsApart'
    BY TypeStep, ClaimsStep
  <1> QED
    BY <1>1, <1>2, PTL DEF Spec

\* What was sent or shown is never forgotten, unless a session that had claimed it before
\* is still delivering.
THEOREM OutboxForgetsNothing == OutboxAssumption => (Spec => NeverForgotten)
  <1> SUFFICES ASSUME OutboxAssumption PROVE Spec => NeverForgotten
    OBVIOUS
  <1>1. TypeOK /\ [Next]_outbox => [\A k \in Keys : ~Forgets(k)]_outbox
    <2> SUFFICES ASSUME TypeOK, Next, NEW k \in Keys, rows[k].status \in {"SENT", "DASHBOARD_ONLY"},
                        \A p \in Sessions : ~Delivers(p, k)
                 PROVE  rows'[k].status = rows[k].status
      BY DEF Forgets
    <2>1. ASSUME NEW p \in Sessions, Claim(p) PROVE rows'[k].status = rows[k].status
      <3>1. PICK l \in Foremost(p) :
               /\ Claimable(p, l)
               /\ rows' = [rows EXCEPT ![l] = [status |-> "DISPATCHING", age |-> ses[p].age]]
        BY <2>1 DEF Claim
      <3>2. l # k
        BY <3>1 DEF Claimable
      <3> QED
        BY <3>1, <3>2 DEF TypeOK
    <2>2. ASSUME NEW p \in Sessions, Record(p) PROVE rows'[k].status = rows[k].status
      <3>1. ses[p].key # k
        BY <2>2 DEF Record, Delivers
      <3> QED
        BY <2>2, <3>1 DEF Record, TypeOK
    <2>3. CASE Tick
      BY <2>3 DEF Tick
    <2>4. CASE UNCHANGED rows
      BY <2>4
    <2> QED
      BY <2>1, <2>2, <2>3, <2>4 DEF Next, Dispatch, Pass, Post, End, Fail, Crash, Begin
  <1>2. Spec => []TypeOK
    BY OutboxTypes
  <1> QED
    BY <1>1, <1>2, PTL DEF Spec, NeverForgotten
=============================================================================

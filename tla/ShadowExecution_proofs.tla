----------------------- MODULE ShadowExecution_proofs -----------------------
(* Type correctness of ShadowExecution, what its intents and fills say of    *)
(* each other, and that a fill is at the first quote that decides its        *)
(* intent, for any instance.                                                 *)
EXTENDS ShadowExecution, TLAPS

-----------------------------------------------------------------------------
(* The inductive invariant.                                                  *)

\* A session works at intents that are there, and what it is about to fill is of the
\* generation that it has loaded.
SessionOk(p) ==
    /\ session[p].todo \subseteq DOMAIN intents
    /\ session[p].step = "flush" =>
          \A i \in Foremost(p) : intents[i].gen = session[p].gen
    /\ \A f \in session[p].made :
          f.intent \in DOMAIN intents /\ f.gen = intents[f.intent].gen
    /\ \A w \in session[p].wrote : w.status = "FILLED" =>
          \E f \in Seen(p) : f.intent = w.id

SessionInv == \A p \in Advancers : SessionOk(p)

\* A fill is of an intent that is there, and of its generation.
FillInv ==
    \A f \in fills : f.intent \in DOMAIN intents /\ f.gen = intents[f.intent].gen

IInv == TypeOK /\ SessionInv /\ FillInv /\ FilledHasItsFill

-----------------------------------------------------------------------------
(* What the session records and the verdicts are made of.                    *)

\* The domain of the intents.
LEMMA IntentIds ==
    ASSUME TypeOK
    PROVE  /\ DOMAIN intents \subseteq Ids
           /\ DOMAIN intents = 1 .. Len(intents)
           /\ \A i \in DOMAIN intents : intents[i] \in Intent
           /\ account.gen \in Generations
           /\ Pending \subseteq DOMAIN intents
  BY ConstantsAssumption DEF TypeOK, Ids, Pending

\* A session that is over, and one that has loaded the intents.
LEMMA EndedType ==
    ASSUME NEW t \in Times
    PROVE  Ended(t) \in Session
  <1>1. 1 \in Generations /\ 0 \in Times
    BY ConstantsAssumption DEF Generations, Times
  <1> QED
    BY <1>1 DEF Ended, Session

\* What a session has loaded is well typed.
LEMMA LoadedType ==
    ASSUME TypeOK, NEW t \in Times
    PROVE  Loaded(t) \in Session
  <1>1. Ended(t) \in Session /\ Pending \in SUBSET Ids /\ account.gen \in Generations
    BY EndedType, IntentIds
  <1>2. (account.status = "ACTIVE") \in BOOLEAN
    OBVIOUS
  <1> QED
    BY <1>1, <1>2 DEF Loaded, Session

\* The fields of a session.
LEMMA SessionFields ==
    ASSUME TypeOK, NEW p \in Advancers
    PROVE  /\ session[p] \in Session
           /\ session[p].at \in Times /\ session[p].pick \in Times /\ session[p].gen \in Generations
           /\ session[p].todo \in SUBSET Ids /\ session[p].made \in SUBSET Fill
           /\ session[p].wrote \in SUBSET [id: Ids, status: Closed]
           /\ session[p].book \in Book \cup {NoBook}
  BY DEF TypeOK, Session

\* The quote that decides an intent is one of the quotes.
LEMMA FirstQuoteType ==
    ASSUME TypeOK, NEW F, NEW row, NEW now
    PROVE  FirstQuote(F, row, now) \subseteq quotes
  BY DEF FirstQuote, Eligible

\* A verdict is PENDING or closes the intent, and only an intent of the generation that
\* the session has loaded is FILLED.
LEMMA VerdictType ==
    ASSUME NEW p \in Advancers, NEW i
    PROVE  /\ Verdict(p, i) \in {"PENDING"} \cup Closed
           /\ Verdict(p, i) = "FILLED" => intents[i].gen = session[p].gen
  <1>1. Outcome(Seen(p), intents[i], session[p].at) \in {"PENDING"} \cup Closed
    BY DEF Outcome, Closed
  <1> QED
    BY <1>1 DEF Verdict, Closed

-----------------------------------------------------------------------------
(* Type correctness.                                                         *)

\* A session that changes is a session, and the other one does not change.
LEMMA SessionTypes ==
    ASSUME TypeOK, NEW p \in Advancers, NEW s \in Session, session' = [session EXCEPT ![p] = s]
    PROVE  session' \in [Advancers -> Session]
  BY DEF TypeOK

\* A session that drops an intent, with a new status of it or without.
LEMMA SettledType ==
    ASSUME NEW s \in Session, NEW T \in SUBSET Ids, NEW W \in SUBSET [id: Ids, status: Closed]
    PROVE  [s EXCEPT !.todo = T, !.wrote = W] \in Session
  BY DEF Session

\* A session that has chosen a quote.
LEMMA ChosenType ==
    ASSUME NEW s \in Session, NEW t \in Times
    PROVE  [s EXCEPT !.step = "flush", !.pick = t] \in Session
  BY DEF Session

\* A session that has written a fill.
LEMMA WrittenType ==
    ASSUME NEW s \in Session, NEW T \in SUBSET Ids, NEW M \in SUBSET Fill,
           NEW W \in SUBSET [id: Ids, status: Closed], NEW b \in Book
    PROVE  [s EXCEPT !.step = "run", !.pick = 0, !.todo = T, !.made = M, !.wrote = W, !.book = b]
              \in Session
  <1>1. 0 \in Times
    BY ConstantsAssumption DEF Times
  <1> QED
    BY <1>1 DEF Session

\* The operations of the owner keep the types.
LEMMA OwnerTypes ==
    ASSUME TypeOK, Pause \/ Resume \/ Rebase \/ Capture
    PROVE  TypeOK'
  <1>1. CASE Pause \/ Resume
    BY <1>1 DEF Pause, Resume, TypeOK
  <1>2. CASE Rebase
    <2>1. account.gen + 1 \in Generations
      BY <1>2, ConstantsAssumption DEF Rebase, TypeOK, Generations
    <2>2. PICK s \in Snapshots : base' = Append(base, Seed(s, clock))
      BY <1>2 DEF Rebase
    <2>3. Seed(s, clock) \in Base
      BY ConstantsAssumption DEF Seed, Base, TypeOK
    <2>4. base' \in Seq(Base) /\ Len(base') = account.gen + 1
      BY <2>2, <2>3 DEF TypeOK
    <2>5. [gen |-> account.gen + 1, from |-> {}] \in Book
      BY <2>1 DEF Book
    <2>6. account' \in [status: {"ACTIVE", "PAUSED"}, gen: Generations, book: Book]
          /\ account'.gen = account.gen + 1
      BY <1>2, <2>1, <2>5 DEF Rebase
    <2> QED
      BY <1>2, <2>4, <2>6 DEF Rebase, TypeOK
  <1>3. CASE Capture
    <2>1. PICK order \in Orders : intents' = Append(intents, NewIntent(order))
      BY <1>3 DEF Capture
    <2>2. NewIntent(order) \in Intent
      BY DEF NewIntent, Intent, TypeOK
    <2>3. intents' \in Seq(Intent) /\ Len(intents') <= MaxIntents
      BY <1>3, <2>1, <2>2, ConstantsAssumption DEF Capture, TypeOK
    <2> QED
      BY <1>3, <2>3 DEF Capture, TypeOK
  <1> QED
    BY <1>1, <1>2, <1>3

\* So do the beginning of a session and the quotes.
LEMMA BeginTypes ==
    ASSUME TypeOK, BeginTick \/ BeginMonitor \/ PersistQuote \/ Observed
    PROVE  TypeOK'
  <1>0. clock \in Times /\ session["monitor"].at \in Times /\ session["monitor"] \in Session
    BY SessionFields DEF TypeOK, Advancers
  <1>1. CASE BeginTick
    BY <1>0, <1>1, LoadedType, SessionTypes DEF BeginTick, TypeOK, Advancers
  <1>2. CASE BeginMonitor
    <2>1. [Ended(clock) EXCEPT !.step = "persist"] \in Session
      BY <1>0, EndedType DEF Session
    <2> QED
      BY <1>2, <2>1, SessionTypes DEF BeginMonitor, TypeOK, Advancers
  <1>3. CASE PersistQuote
    <2>1. PICK c \in Codes, k \in Kinds :
             quotes' = quotes \cup {[code |-> c, at |-> session["monitor"].at, kind |-> k]}
      BY <1>3 DEF PersistQuote
    <2>2. [code |-> c, at |-> session["monitor"].at, kind |-> k] \in Quote
      BY <1>0, ConstantsAssumption DEF Quote
    <2> QED
      BY <1>3, <2>1, <2>2 DEF PersistQuote, TypeOK
  <1>4. CASE Observed
    <2>1. (IF Pending = {} THEN Ended(session["monitor"].at)
           ELSE Loaded(session["monitor"].at)) \in Session
      BY <1>0, EndedType, LoadedType
    <2> QED
      BY <1>4, <2>1, SessionTypes DEF Observed, TypeOK, Advancers
  <1> QED
    BY <1>1, <1>2, <1>3, <1>4

\* A session that settles an intent or chooses a quote keeps the types.
LEMMA SettleTypes ==
    ASSUME TypeOK, NEW p \in Advancers, Settle(p) \/ Choose(p)
    PROVE  TypeOK'
  <1>0. /\ session[p] \in Session /\ session[p].todo \in SUBSET Ids
        /\ session[p].wrote \in SUBSET [id: Ids, status: Closed]
    BY SessionFields
  <1>1. ASSUME Settle(p) PROVE session' \in [Advancers -> Session]
    <2>1. PICK i \in Foremost(p) :
             session' = [session EXCEPT
                 ![p].todo = @ \ {i},
                 ![p].wrote = IF Verdict(p, i) = "PENDING" THEN @
                              ELSE @ \cup {[id |-> i, status |-> Verdict(p, i)]}]
      BY <1>1 DEF Settle
    <2> DEFINE T == session[p].todo \ {i}
               W == IF Verdict(p, i) = "PENDING" THEN session[p].wrote
                    ELSE session[p].wrote \cup {[id |-> i, status |-> Verdict(p, i)]}
    <2>2. T \in SUBSET Ids
      BY <1>0
    <2>3. W \in SUBSET [id: Ids, status: Closed]
      BY <1>0, VerdictType DEF Foremost
    <2>4. session' = [session EXCEPT ![p] = [session[p] EXCEPT !.todo = T, !.wrote = W]]
      BY <2>1 DEF TypeOK
    <2> HIDE DEF T, W
    <2> QED
      BY <1>0, <2>2, <2>3, <2>4, SettledType, SessionTypes
  <1>2. ASSUME Choose(p) PROVE session' \in [Advancers -> Session]
    <2>1. PICK i \in Foremost(p), q \in quotes :
             session' = [session EXCEPT ![p].step = "flush", ![p].pick = q.at]
      BY <1>2, FirstQuoteType DEF Choose
    <2>2. q.at \in Times
      BY DEF TypeOK, Quote
    <2>3. session' = [session EXCEPT ![p] = [session[p] EXCEPT !.step = "flush", !.pick = q.at]]
      BY <2>1 DEF TypeOK
    <2> QED
      BY <1>0, <2>2, <2>3, ChosenType, SessionTypes
  <1> QED
    BY <1>1, <1>2 DEF Settle, Choose, TypeOK

\* A session that writes a fill keeps the types.
LEMMA WriteFillTypes ==
    ASSUME TypeOK, NEW p \in Advancers, WriteFill(p)
    PROVE  TypeOK'
  <1>0. /\ session[p] \in Session /\ session[p].todo \in SUBSET Ids /\ session[p].made \in SUBSET Fill
        /\ session[p].wrote \in SUBSET [id: Ids, status: Closed]
        /\ session[p].gen \in Generations /\ session[p].pick \in Times
    BY SessionFields
  <1>1. PICK i \in Foremost(p) : session' = [session EXCEPT ![p] = Filled(p, i)]
    BY DEF WriteFill
  <1>2. i \in Ids
    BY <1>0 DEF Foremost
  <1>3. FillOf(p, i) \in Fill
    BY <1>0, <1>2 DEF FillOf, Fill
  <1>4. \A f \in Fill : f.intent \in Ids
    BY DEF Fill
  <1>5. KnownFills(p, FillOf(p, i)) \in SUBSET Ids
    BY <1>0, <1>3, <1>4 DEF KnownFills, Seen, TypeOK
  <1>6. [gen |-> session[p].gen, from |-> KnownFills(p, FillOf(p, i))] \in Book
    BY <1>0, <1>5 DEF Book
  <1>7. /\ session[p].todo \ {i} \in SUBSET Ids
        /\ session[p].made \cup {FillOf(p, i)} \in SUBSET Fill
    BY <1>0, <1>3
  <1>8. session[p].wrote \cup {[id |-> i, status |-> "FILLED"]} \in SUBSET [id: Ids, status: Closed]
    BY <1>0, <1>2 DEF Closed
  <1>9. Filled(p, i) \in Session
    BY <1>0, <1>6, <1>7, <1>8, WrittenType DEF Filled
  <1>10. session' \in [Advancers -> Session]
    BY <1>1, <1>9, SessionTypes
  <1> QED
    BY <1>10 DEF WriteFill, TypeOK

\* The status that a session leaves of an intent.
LEMMA StatusAfterType ==
    ASSUME TypeOK, NEW p \in Advancers, NEW i \in DOMAIN intents
    PROVE  /\ StatusAfter(p, i) \in {"PENDING"} \cup Closed
           /\ StatusAfter(p, i) = "FILLED" =>
                 \/ intents[i].status = "FILLED"
                 \/ \E w \in session[p].wrote : w.id = i /\ w.status = "FILLED"
  <1>1. intents[i].status \in {"PENDING"} \cup Closed
    BY IntentIds DEF Intent
  <1>2. \A w \in session[p].wrote : w.status \in Closed
    BY SessionFields
  <1>3. CASE \E w \in session[p].wrote : w.id = i
    <2> DEFINE v == CHOOSE w \in session[p].wrote : w.id = i
    <2>1. v \in session[p].wrote /\ v.id = i
      BY <1>3
    <2>2. StatusAfter(p, i) = v.status
      BY <1>3 DEF StatusAfter
    <2> HIDE DEF v
    <2> QED
      BY <1>2, <2>1, <2>2
  <1>4. CASE ~ \E w \in session[p].wrote : w.id = i
    BY <1>1, <1>4 DEF StatusAfter
  <1> QED
    BY <1>3, <1>4

\* What is committed has the same intents with another status.
LEMMA RewrittenType ==
    ASSUME TypeOK, NEW p \in Advancers
    PROVE  /\ Rewritten(p) \in Seq(Intent) /\ Len(Rewritten(p)) = Len(intents)
           /\ DOMAIN Rewritten(p) = DOMAIN intents
           /\ \A i \in DOMAIN intents : /\ Rewritten(p)[i].gen = intents[i].gen
                                        /\ Rewritten(p)[i].status = StatusAfter(p, i)
  <1>1. ASSUME NEW i \in DOMAIN intents
        PROVE  [intents[i] EXCEPT !.status = StatusAfter(p, i)] \in Intent
    BY StatusAfterType, IntentIds DEF Intent
  <1>2. Len(intents) \in Nat /\ DOMAIN intents = 1 .. Len(intents)
    BY DEF TypeOK
  <1>3. Rewritten(p) \in [1 .. Len(intents) -> Intent]
    BY <1>1, <1>2 DEF Rewritten
  <1>4. Rewritten(p) \in Seq(Intent) /\ Len(Rewritten(p)) = Len(intents)
    BY <1>2, <1>3
  <1> QED
    BY <1>2, <1>4, IntentIds DEF Rewritten, Intent

\* The end of a session keeps the types.
LEMMA EndTypes ==
    ASSUME TypeOK, NEW p \in Advancers, Conflict(p) \/ Fail(p) \/ Commit(p)
    PROVE  TypeOK'
  <1>0. /\ Ended(session[p].at) \in Session
        /\ session[p].made \in SUBSET Fill /\ session[p].book \in Book \cup {NoBook}
    BY SessionFields, EndedType
  <1>1. session' \in [Advancers -> Session]
    BY <1>0, SessionTypes DEF Conflict, Fail, Commit, Abandon
  <1>2. writer' \in Advancers \cup {"none"}
    BY DEF Conflict, Fail, Commit, Abandon, TypeOK
  <1>3. CASE Conflict(p)
    BY <1>1, <1>2, <1>3 DEF Conflict, Abandon, TypeOK
  <1>4. CASE Fail(p)
    BY <1>1, <1>2, <1>4, ConstantsAssumption DEF Fail, Abandon, TypeOK
  <1>5. CASE Commit(p)
    <2>1. intents' \in Seq(Intent) /\ Len(intents') <= MaxIntents
      BY <1>5, RewrittenType DEF Commit, TypeOK
    <2>2. /\ account' \in [status: {"ACTIVE", "PAUSED"}, gen: Generations, book: Book]
          /\ account'.gen = account.gen
      <3>1. CASE session[p].book = NoBook
        BY <1>5, <3>1 DEF Commit, TypeOK
      <3>2. CASE session[p].book # NoBook
        <4>1. account' = [account EXCEPT !.book = session[p].book] /\ session[p].book \in Book
          BY <1>0, <1>5, <3>2 DEF Commit
        <4> QED
          BY <4>1 DEF TypeOK
      <3> QED
        BY <3>1, <3>2
    <2>3. fills' \subseteq Fill
      BY <1>0, <1>5 DEF Commit, TypeOK
    <2> QED
      BY <1>1, <1>2, <1>5, <2>1, <2>2, <2>3 DEF Commit, TypeOK
  <1> QED
    BY <1>3, <1>4, <1>5

\* Every step keeps the types.
LEMMA TypeStep == TypeOK /\ [Next]_vars => TypeOK'
  <1> SUFFICES ASSUME TypeOK, [Next]_vars PROVE TypeOK'
    OBVIOUS
  <1>1. CASE Pause \/ Resume \/ Rebase \/ Capture
    BY <1>1, OwnerTypes
  <1>2. CASE BeginTick \/ BeginMonitor \/ PersistQuote \/ Observed
    BY <1>2, BeginTypes
  <1>3. ASSUME NEW p \in Advancers, Advance(p) \/ Fail(p) PROVE TypeOK'
    BY <1>3, SettleTypes, WriteFillTypes, EndTypes DEF Advance
  <1>4. CASE Tick
    BY <1>4, ConstantsAssumption DEF Tick, TypeOK, Times
  <1>5. CASE UNCHANGED vars
    BY <1>5 DEF vars, TypeOK
  <1> QED
    BY <1>1, <1>2, <1>3, <1>4, <1>5 DEF Next

-----------------------------------------------------------------------------
(* What the intents and the fills say of each other.                         *)

\* No intent goes away or changes its generation, and no fill goes away.
Grown ==
    /\ DOMAIN intents \subseteq DOMAIN intents'
    /\ \A i \in DOMAIN intents : intents'[i].gen = intents[i].gen
    /\ fills \subseteq fills'

\* That suffices for a session that does not change itself.
LEMMA Kept ==
    ASSUME TypeOK, NEW p \in Advancers, SessionOk(p), Grown, session'[p] = session[p]
    PROVE  SessionOk(p)'
  <1>1. Foremost(p)' = Foremost(p)
    BY DEF Foremost
  <1>2. Foremost(p) \subseteq DOMAIN intents
    BY DEF Foremost, SessionOk
  <1>3. Seen(p) \subseteq Seen(p)'
    BY DEF Seen, Grown
  <1>4. (session[p].todo \subseteq DOMAIN intents)'
    BY DEF SessionOk, Grown
  <1>5. (session[p].step = "flush" => \A i \in Foremost(p) : intents[i].gen = session[p].gen)'
    BY <1>1, <1>2 DEF SessionOk, Grown
  <1>6. (\A f \in session[p].made : f.intent \in DOMAIN intents /\ f.gen = intents[f.intent].gen)'
    BY DEF SessionOk, Grown
  <1>7. (\A w \in session[p].wrote : w.status = "FILLED" => \E f \in Seen(p) : f.intent = w.id)'
    BY <1>3 DEF SessionOk
  <1> QED
    BY <1>4, <1>5, <1>6, <1>7 DEF SessionOk

\* A session that is over has nothing left to do.
LEMMA EndedOk ==
    ASSUME NEW p \in Advancers, NEW t, session'[p] = Ended(t) \/ session'[p] = [Ended(t) EXCEPT !.step = "persist"]
    PROVE  SessionOk(p)'
  <1>1. /\ session'[p].todo = {} /\ session'[p].made = {} /\ session'[p].wrote = {}
        /\ session'[p].step # "flush"
    BY DEF Ended
  <1> QED
    BY <1>1 DEF SessionOk

\* A session that has just loaded the intents has written nothing.
LEMMA LoadedOk ==
    ASSUME TypeOK, NEW p \in Advancers, NEW t, session'[p] = Loaded(t), UNCHANGED intents
    PROVE  SessionOk(p)'
  <1>1. /\ session'[p].todo = Pending /\ session'[p].made = {} /\ session'[p].wrote = {}
        /\ session'[p].step = "run"
    BY DEF Loaded, Ended
  <1> QED
    BY <1>1, IntentIds DEF SessionOk

\* The fills of unchanged intents, and the statuses, stay true.
LEMMA FillsKept ==
    ASSUME FillInv, FilledHasItsFill, UNCHANGED <<intents, fills>>
    PROVE  FillInv' /\ FilledHasItsFill'
  BY DEF FillInv, FilledHasItsFill

\* The owner, the analysis and the clock.
LEMMA OwnerStep ==
    ASSUME IInv, Pause \/ Resume \/ Rebase \/ Capture \/ Tick
    PROVE  SessionInv' /\ FillInv' /\ FilledHasItsFill'
  <1>0. UNCHANGED <<session, fills>>
    BY DEF Pause, Resume, Rebase, Capture, Tick
  <1>1. CASE ~Capture
    <2>1. UNCHANGED intents
      BY <1>1 DEF Pause, Resume, Rebase, Tick
    <2>2. Grown
      BY <1>0, <2>1 DEF Grown
    <2> QED
      BY <1>0, <2>1, <2>2, Kept, FillsKept DEF IInv, SessionInv
  <1>2. CASE Capture
    <2>1. PICK order \in Orders : intents' = Append(intents, NewIntent(order))
      BY <1>2 DEF Capture
    <2>2. /\ DOMAIN intents = 1 .. Len(intents) /\ Len(intents) \in Nat
          /\ DOMAIN intents' = 1 .. Len(intents) + 1
          /\ \A i \in DOMAIN intents : intents'[i] = intents[i]
          /\ intents'[Len(intents) + 1] = NewIntent(order)
      BY <2>1 DEF IInv, TypeOK
    <2>3. Grown
      BY <1>0, <2>2 DEF Grown
    <2>4. NewIntent(order).status # "FILLED"
      BY DEF NewIntent
    <2>5. FillInv' /\ FilledHasItsFill'
      BY <1>0, <2>2, <2>4 DEF IInv, FillInv, FilledHasItsFill
    <2> QED
      BY <1>0, <2>3, <2>5, Kept DEF IInv, SessionInv
  <1> QED
    BY <1>1, <1>2

\* The beginning of a session and its quotes.
LEMMA BeginStep ==
    ASSUME IInv, BeginTick \/ BeginMonitor \/ PersistQuote \/ Observed
    PROVE  SessionInv' /\ FillInv' /\ FilledHasItsFill'
  <1>0. UNCHANGED <<intents, fills>> /\ Grown
    BY DEF BeginTick, BeginMonitor, PersistQuote, Observed, Grown
  <1>1. ASSUME NEW p \in Advancers PROVE SessionOk(p)'
    <2>1. CASE session'[p] = session[p]
      BY <1>0, <2>1, Kept DEF IInv, SessionInv
    <2>2. CASE session'[p] # session[p]
      <3>1. \/ session'[p] = Loaded(clock)
            \/ session'[p] = [Ended(clock) EXCEPT !.step = "persist"]
            \/ session'[p] = Ended(session[p].at)
            \/ session'[p] = Loaded(session[p].at)
        BY <2>2 DEF BeginTick, BeginMonitor, PersistQuote, Observed, IInv, TypeOK, Advancers
      <3> QED
        BY <1>0, <3>1, EndedOk, LoadedOk DEF IInv
    <2> QED
      BY <2>1, <2>2
  <1> QED
    BY <1>0, <1>1, FillsKept DEF IInv, SessionInv

\* A session that settles an intent: what it writes as FILLED has a fill that it sees.
LEMMA SettleStep ==
    ASSUME IInv, NEW p \in Advancers, Settle(p)
    PROVE  SessionInv' /\ FillInv' /\ FilledHasItsFill'
  <1>0. UNCHANGED <<intents, fills>> /\ Grown
    BY DEF Settle, Grown
  <1>1. PICK i \in Foremost(p) :
           /\ Verdict(p, i) = "FILLED" =>
                 \E q \in FirstQuote(Seen(p), intents[i], session[p].at) : HasFill(Seen(p), i, q.at)
           /\ session' = [session EXCEPT
                 ![p].todo = @ \ {i},
                 ![p].wrote = IF Verdict(p, i) = "PENDING" THEN @
                              ELSE @ \cup {[id |-> i, status |-> Verdict(p, i)]}]
    BY DEF Settle
  <1>2. /\ session[p].step = "run" /\ session[p] \in Session
        /\ session \in [Advancers -> Session]
    BY SessionFields DEF Settle, IInv, TypeOK
  <1>3. /\ session'[p].step = "run"
        /\ session'[p].todo \subseteq session[p].todo
        /\ session'[p].made = session[p].made
        /\ session'[p].wrote = IF Verdict(p, i) = "PENDING" THEN session[p].wrote
                               ELSE session[p].wrote \cup {[id |-> i, status |-> Verdict(p, i)]}
    BY <1>1, <1>2 DEF Session
  <1>4. Seen(p)' = Seen(p)
    BY <1>0, <1>3 DEF Seen
  <1>5. ASSUME NEW w \in session'[p].wrote, w.status = "FILLED"
        PROVE  \E f \in Seen(p) : f.intent = w.id
    <2>1. CASE w \in session[p].wrote
      BY <1>5, <2>1 DEF IInv, SessionInv, SessionOk
    <2>2. CASE w \notin session[p].wrote
      <3>1. w.id = i /\ Verdict(p, i) = "FILLED"
        BY <1>3, <1>5, <2>2
      <3> QED
        BY <1>1, <3>1 DEF HasFill
    <2> QED
      BY <2>1, <2>2
  <1>6. SessionOk(p)'
    BY <1>0, <1>3, <1>4, <1>5 DEF IInv, SessionInv, SessionOk
  <1>7. ASSUME NEW o \in Advancers, o # p PROVE SessionOk(o)'
    BY <1>0, <1>1, <1>2, <1>7, Kept DEF IInv, SessionInv
  <1> QED
    BY <1>0, <1>6, <1>7, FillsKept DEF IInv, SessionInv

\* A session that chooses a quote does so for an intent of its generation.
LEMMA ChooseStep ==
    ASSUME IInv, NEW p \in Advancers, Choose(p)
    PROVE  SessionInv' /\ FillInv' /\ FilledHasItsFill'
  <1>0. UNCHANGED <<intents, fills>> /\ Grown
    BY DEF Choose, Grown
  <1>1. PICK i \in Foremost(p), q \in quotes :
           /\ Verdict(p, i) = "FILLED"
           /\ session' = [session EXCEPT ![p].step = "flush", ![p].pick = q.at]
    BY FirstQuoteType DEF Choose, IInv
  <1>2. session[p] \in Session /\ session \in [Advancers -> Session]
    BY SessionFields DEF IInv, TypeOK
  <1>3. /\ session'[p].todo = session[p].todo /\ session'[p].made = session[p].made
        /\ session'[p].wrote = session[p].wrote /\ session'[p].gen = session[p].gen
    BY <1>1, <1>2 DEF Session
  <1>4. Seen(p)' = Seen(p) /\ Foremost(p)' = Foremost(p)
    BY <1>0, <1>3 DEF Seen, Foremost
  <1>5. \A j \in Foremost(p) : j = i
    <2>1. session[p].todo \subseteq Ids
      BY SessionFields DEF IInv
    <2> QED
      BY <2>1, ConstantsAssumption DEF Foremost, Ids
  <1>6. intents[i].gen = session[p].gen
    BY <1>1, VerdictType
  <1>7. SessionOk(p)'
    BY <1>0, <1>3, <1>4, <1>5, <1>6 DEF IInv, SessionInv, SessionOk
  <1>8. ASSUME NEW o \in Advancers, o # p PROVE SessionOk(o)'
    BY <1>0, <1>1, <1>2, <1>8, Kept DEF IInv, SessionInv
  <1> QED
    BY <1>0, <1>7, <1>8, FillsKept DEF IInv, SessionInv

\* A fill that is written is of an intent that is there, and of its generation.
LEMMA WriteFillStep ==
    ASSUME IInv, NEW p \in Advancers, WriteFill(p)
    PROVE  SessionInv' /\ FillInv' /\ FilledHasItsFill'
  <1>0. UNCHANGED <<intents, fills>> /\ Grown
    BY DEF WriteFill, Grown
  <1>1. PICK i \in Foremost(p) : session' = [session EXCEPT ![p] = Filled(p, i)]
    BY DEF WriteFill
  <1>2. session[p] \in Session /\ session \in [Advancers -> Session]
    BY SessionFields DEF IInv, TypeOK
  <1>3. /\ session'[p].step = "run"
        /\ session'[p].todo \subseteq session[p].todo
        /\ session'[p].made = session[p].made \cup {FillOf(p, i)}
        /\ session'[p].wrote = session[p].wrote \cup {[id |-> i, status |-> "FILLED"]}
    BY <1>1, <1>2 DEF Filled, Session
  <1>4. Seen(p)' = Seen(p) \cup {FillOf(p, i)}
    BY <1>0, <1>3 DEF Seen
  <1>5. i \in DOMAIN intents /\ intents[i].gen = session[p].gen
    BY DEF WriteFill, IInv, SessionInv, SessionOk, Foremost
  <1>6. FillOf(p, i).intent = i /\ FillOf(p, i).gen = intents[i].gen
    BY <1>5 DEF FillOf
  <1>7. ASSUME NEW w \in session'[p].wrote, w.status = "FILLED"
        PROVE  \E f \in Seen(p)' : f.intent = w.id
    <2>1. CASE w \in session[p].wrote
      BY <1>4, <1>7, <2>1 DEF IInv, SessionInv, SessionOk
    <2>2. CASE w \notin session[p].wrote
      BY <1>3, <1>4, <1>6, <2>2
    <2> QED
      BY <2>1, <2>2
  <1>8. \A f \in session'[p].made : f.intent \in DOMAIN intents /\ f.gen = intents[f.intent].gen
    BY <1>3, <1>5, <1>6 DEF IInv, SessionInv, SessionOk
  <1>9. SessionOk(p)'
    BY <1>0, <1>3, <1>7, <1>8 DEF IInv, SessionInv, SessionOk
  <1>10. ASSUME NEW o \in Advancers, o # p PROVE SessionOk(o)'
    BY <1>0, <1>1, <1>2, <1>10, Kept DEF IInv, SessionInv
  <1> QED
    BY <1>0, <1>9, <1>10, FillsKept DEF IInv, SessionInv

\* The end of a session, which at its commit adds the fills of what it marks FILLED.
LEMMA EndStep ==
    ASSUME IInv, NEW p \in Advancers, Conflict(p) \/ Fail(p) \/ Commit(p)
    PROVE  SessionInv' /\ FillInv' /\ FilledHasItsFill'
  <1>0. session \in [Advancers -> Session]
        /\ session' = [session EXCEPT ![p] = Ended(session[p].at)]
    BY DEF IInv, TypeOK, Conflict, Fail, Commit, Abandon
  <1>1. Grown /\ FillInv' /\ FilledHasItsFill'
    <2>1. CASE Conflict(p) \/ Fail(p)
      <3>1. UNCHANGED <<intents, fills>>
        BY <2>1 DEF Conflict, Fail, Abandon
      <3> QED
        BY <3>1, FillsKept DEF IInv, Grown
    <2>2. CASE Commit(p)
      <3>1. intents' = Rewritten(p) /\ fills' = Seen(p)
        BY <2>2 DEF Commit, Seen
      <3>2. /\ DOMAIN intents' = DOMAIN intents
            /\ \A i \in DOMAIN intents : /\ intents'[i].gen = intents[i].gen
                                         /\ intents'[i].status = StatusAfter(p, i)
        BY <3>1, RewrittenType DEF IInv
      <3>3. Grown
        BY <3>1, <3>2 DEF Grown, Seen
      <3>4. \A f \in fills' : f.intent \in DOMAIN intents /\ f.gen = intents[f.intent].gen
        BY <3>1 DEF IInv, FillInv, SessionInv, SessionOk, Seen
      <3>5. FillInv'
        BY <3>2, <3>4 DEF FillInv
      <3>6. ASSUME NEW i \in DOMAIN intents, StatusAfter(p, i) = "FILLED"
            PROVE  \E f \in fills' : f.intent = i
        <4>1. \/ intents[i].status = "FILLED"
              \/ \E w \in session[p].wrote : w.id = i /\ w.status = "FILLED"
          BY <3>6, StatusAfterType DEF IInv
        <4>2. CASE intents[i].status = "FILLED"
          BY <3>3, <4>2 DEF IInv, FilledHasItsFill, Grown
        <4>3. CASE \E w \in session[p].wrote : w.id = i /\ w.status = "FILLED"
          BY <3>1, <4>3 DEF IInv, SessionInv, SessionOk
        <4> QED
          BY <4>1, <4>2, <4>3
      <3>7. FilledHasItsFill'
        BY <3>2, <3>5, <3>6 DEF FilledHasItsFill, FillInv
      <3> QED
        BY <3>3, <3>5, <3>7
    <2> QED
      BY <2>1, <2>2
  <1>2. SessionOk(p)'
    BY <1>0, EndedOk
  <1>3. ASSUME NEW o \in Advancers, o # p PROVE SessionOk(o)'
    BY <1>0, <1>1, <1>3, Kept DEF IInv, SessionInv
  <1> QED
    BY <1>1, <1>2, <1>3 DEF SessionInv

-----------------------------------------------------------------------------
(* The invariant and the theorems.                                           *)

\* The invariant holds at first.
LEMMA InitInv == Init => IInv
  <1> SUFFICES ASSUME Init PROVE IInv
    OBVIOUS
  <1>1. 1 \in Generations /\ Start \in Times /\ 0 \in Times
    BY ConstantsAssumption DEF Generations, Times
  <1>2. PICK s \in Snapshots : base = <<Seed(s, Start)>>
    BY DEF Init
  <1>3. Seed(s, Start) \in Base
    BY <1>1, ConstantsAssumption DEF Seed, Base
  <1>4. base \in Seq(Base) /\ Len(base) = 1
    BY <1>2, <1>3
  <1>5. account \in [status: {"ACTIVE", "PAUSED"}, gen: Generations, book: Book] /\ account.gen = 1
    BY <1>1 DEF Init, Book
  <1>6. intents \in Seq(Intent) /\ Len(intents) = 0 /\ DOMAIN intents = {}
    BY DEF Init
  <1>7. session \in [Advancers -> Session]
    BY <1>1, EndedType DEF Init
  <1>8. TypeOK
    BY <1>1, <1>4, <1>5, <1>6, <1>7, ConstantsAssumption DEF Init, TypeOK
  <1>9. ASSUME NEW p \in Advancers PROVE SessionOk(p)
    <2>1. session[p] = Ended(0)
      BY DEF Init
    <2>2. session[p].todo = {} /\ session[p].made = {} /\ session[p].wrote = {} /\ session[p].step = "idle"
      BY <2>1 DEF Ended
    <2> QED
      BY <2>2 DEF SessionOk
  <1>10. FillInv /\ FilledHasItsFill
    BY <1>6 DEF Init, FillInv, FilledHasItsFill
  <1> QED
    BY <1>8, <1>9, <1>10 DEF IInv, SessionInv

\* Every step keeps it.
LEMMA InvStep == IInv /\ [Next]_vars => IInv'
  <1> SUFFICES ASSUME IInv, [Next]_vars PROVE SessionInv' /\ FillInv' /\ FilledHasItsFill'
    BY TypeStep DEF IInv
  <1>1. CASE Pause \/ Resume \/ Rebase \/ Capture \/ Tick
    BY <1>1, OwnerStep
  <1>2. CASE BeginTick \/ BeginMonitor \/ PersistQuote \/ Observed
    BY <1>2, BeginStep
  <1>3. ASSUME NEW p \in Advancers, Advance(p) \/ Fail(p)
        PROVE  SessionInv' /\ FillInv' /\ FilledHasItsFill'
    BY <1>3, SettleStep, ChooseStep, WriteFillStep, EndStep DEF Advance
  <1>4. CASE UNCHANGED vars
    <2>1. UNCHANGED <<session, intents, fills>> /\ Grown
      BY <1>4 DEF vars, Grown
    <2> QED
      BY <2>1, Kept, FillsKept DEF IInv, SessionInv
  <1> QED
    BY <1>1, <1>2, <1>3, <1>4 DEF Next

\* The types hold in every reachable state, of any instance.
THEOREM ShadowTypes == Spec => []TypeOK
  <1>1. IInv => TypeOK
    BY DEF IInv
  <1> QED
    BY InitInv, InvStep, <1>1, PTL DEF Spec

\* An intent that is FILLED has its fill, and every fill is of the generation its intent
\* was made for: whatever two sessions, a pause, a rebase and failures do.
THEOREM ShadowFills == Spec => []FilledHasItsFill
  <1>1. IInv => FilledHasItsFill
    BY DEF IInv
  <1> QED
    BY InitInv, InvStep, <1>1, PTL DEF Spec
-----------------------------------------------------------------------------
(* Which quote decides an intent.                                            *)

\* The quotes at t are the first that decide the intent, for an account without fills.
FirstAt(row, t) ==
    /\ \E q \in Eligible(row, MaxTime) : q.at = t /\ Decides({}, row, q)
    /\ \A q \in Eligible(row, MaxTime) : Decides({}, row, q) => t <= q.at

\* Quotes are persisted in the order of their time, and in trading hours.
QuoteInv ==
    /\ \A q \in quotes : IsOpen(q.at) /\ q.at <= session["monitor"].at
    /\ session["monitor"].step = "persist" => IsOpen(session["monitor"].at)

\* An intent is of a generation that there is.
GenerationInv == \A i \in DOMAIN intents : intents[i].gen <= account.gen

\* A fill is at the first quotes that decide its intent, whether it is committed,
\* written by a session, or chosen.
FilledFirst(F) == \A f \in F : FirstAt(intents[f.intent], f.at)

ChoiceOk(p) ==
    /\ FilledFirst(session[p].made)
    /\ session[p].step = "flush" =>
          \A i \in Foremost(p) : FirstAt(intents[i], session[p].pick)

ChoiceInv == FilledFirst(fills) /\ \A p \in Advancers : ChoiceOk(p)

QInv == IInv /\ QuoteInv /\ GenerationInv /\ ChoiceInv

-----------------------------------------------------------------------------
(* A fill does not change which quote decides an intent: what it adds to a    *)
(* position has a mark, the quote it was made from.                          *)

\* What is held of a security that was not traded is what the account began with.
LEMMA HeldUntraded ==
    ASSUME NEW F, NEW g, NEW t, NEW c,
           \A f \in F : f.gen = g /\ f.at <= t => OrderOf(f).code # c
    PROVE  Held(F, g, t, c) = Held({}, g, t, c)
  <1> DEFINE Of(G, u, side) == {f \in Traded(G, g, t, side) : f.at = u /\ OrderOf(f).code = c}
  <1>1. \A u, side : Of(F, u, side) = {} /\ Of({}, u, side) = {}
    BY DEF Traded
  <1> QED
    BY <1>1 DEF Held, Position

\* What an account began with stays.
LEMMA HeldAtFirst ==
    ASSUME NEW g, NEW t, NEW c, base'[g] = base[g]
    PROVE  Held({}, g, t, c)' = Held({}, g, t, c)
  <1> DEFINE Of(u, side) == {f \in Traded({}, g, t, side) : f.at = u /\ OrderOf(f).code = c}
  <1>1. \A u, side : Of(u, side) = {} /\ Of(u, side)' = {}
    BY DEF Traded
  <1>2. Quantity({})' = Quantity({})
    <2>1. [f \in {} |-> OrderOf(f).qty]' = [f \in {} |-> OrderOf(f).qty]
      OBVIOUS
    <2> QED
      BY <2>1 DEF Quantity
  <1> QED
    BY <1>1, <1>2 DEF Held, Position

\* The quote that decides an intent is a mark of its security, then and later.
LEMMA MarkOfFirst ==
    ASSUME TypeOK, NEW row, NEW t \in Times, NEW u \in Times, FirstAt(row, t), t <= u
    PROVE  HasMark(row.order.code, u)
  <1>1. PICK q \in quotes : q.code = row.order.code /\ q.at = t /\ q.kind # "unfit"
    BY DEF FirstAt, Eligible, Decides
  <1> QED
    BY <1>1 DEF HasMark

\* So the fills have no say in whether the equity is known.
LEMMA EquityOfFills ==
    ASSUME TypeOK, NEW F \in SUBSET Fill, FilledFirst(F), NEW row, NEW t \in Times
    PROVE  HasEquity(F, row, t) <=> HasEquity({}, row, t)
  <1>1. ASSUME NEW c
        PROVE  HasMark(c, t) \/ Held(F, row.gen, t, c) = Held({}, row.gen, t, c)
    <2>1. CASE \E f \in F : f.at <= t /\ OrderOf(f).code = c
      <3>1. PICK f \in F : f.at <= t /\ OrderOf(f).code = c
        BY <2>1
      <3>2. FirstAt(intents[f.intent], f.at) /\ f.at \in Times
        BY DEF FilledFirst, Fill
      <3> QED
        BY <3>1, <3>2, MarkOfFirst DEF OrderOf
    <2>2. CASE \A f \in F : f.at <= t => OrderOf(f).code # c
      BY <2>2, HeldUntraded
    <2> QED
      BY <2>1, <2>2
  <1> QED
    BY <1>1 DEF HasEquity

\* The first quote that a session finds among those up to now is the first of all: one
\* that it does not see yet is later than now.
LEMMA FoundFirst ==
    ASSUME TypeOK, NEW F \in SUBSET Fill, FilledFirst(F), NEW row, NEW now \in Times,
           NEW q \in FirstQuote(F, row, now)
    PROVE  FirstAt(row, q.at)
  <1>1. ASSUME NEW x \in quotes PROVE Decides(F, row, x) <=> Decides({}, row, x)
    <2>1. x.at \in Times
      BY DEF TypeOK, Quote
    <2> QED
      BY <2>1, EquityOfFills DEF Decides
  <1>2. q \in quotes /\ q \in Eligible(row, now) /\ Decides({}, row, q)
    BY <1>1 DEF FirstQuote, Eligible
  <1>3. q.at \in Times /\ q.at <= now /\ now <= MaxTime /\ MaxTime \in Nat
    BY <1>2, ConstantsAssumption DEF TypeOK, Quote, Eligible, Times
  <1>4. q \in Eligible(row, MaxTime)
    BY <1>2, <1>3, ConstantsAssumption DEF Eligible, Times
  <1>5. ASSUME NEW x \in Eligible(row, MaxTime), Decides({}, row, x) PROVE q.at <= x.at
    <2>1. x \in quotes /\ x.at \in Times
      BY DEF Eligible, TypeOK, Quote
    <2>2. CASE x.at <= now
      <3>1. x \in Eligible(row, now)
        BY <2>2 DEF Eligible
      <3> QED
        BY <1>1, <1>5, <2>1, <3>1 DEF FirstQuote
    <2>3. CASE ~(x.at <= now)
      BY <1>3, <2>1, <2>3, ConstantsAssumption DEF Times
    <2> QED
      BY <2>2, <2>3
  <1> QED
    BY <1>2, <1>4, <1>5 DEF FirstAt

-----------------------------------------------------------------------------
(* What a step does to the intents, to what accounts began with and to the   *)
(* quotes: a quote is never dated before another that is there.              *)

Extended ==
    /\ \A i \in DOMAIN intents :
          /\ i \in DOMAIN intents'
          /\ intents'[i].order = intents[i].order
          /\ intents'[i].gen = intents[i].gen /\ intents'[i].final = intents[i].final
    /\ \A g \in 1 .. account.gen : base'[g] = base[g]
    /\ quotes \subseteq quotes'
    /\ \A new \in quotes' \ quotes : \A q \in quotes : q.at <= new.at

\* Thus the first quotes that decide an intent stay the first.
LEMMA FirstAtKept ==
    ASSUME TypeOK, TypeOK', GenerationInv, Extended, NEW i \in DOMAIN intents, NEW t \in Times,
           FirstAt(intents[i], t)
    PROVE  FirstAt(intents[i], t)'
  <1>1. intents[i].gen \in 1 .. account.gen /\ base'[intents[i].gen] = base[intents[i].gen]
    BY IntentIds, ConstantsAssumption DEF GenerationInv, Extended, Intent, Generations
  <1>2. /\ intents'[i].order = intents[i].order /\ intents'[i].gen = intents[i].gen
        /\ intents'[i].final = intents[i].final
    BY DEF Extended
  <1>3. \A c, u : Held({}, intents[i].gen, u, c)' = Held({}, intents[i].gen, u, c)
    BY <1>1, <1>2, HeldAtFirst
  <1>4. ASSUME NEW q \in quotes
        PROVE  /\ q \in quotes'
               /\ q \in Eligible(intents[i], MaxTime)' <=> q \in Eligible(intents[i], MaxTime)
               /\ AtLimit(intents[i], q)' <=> AtLimit(intents[i], q)
               /\ q.at \in Times
    BY <1>2 DEF Extended, Eligible, AtLimit, TypeOK, Quote
  <1>5. ASSUME NEW q \in quotes, Decides({}, intents[i], q)
        PROVE  Decides({}, intents[i], q)'
    <2>1. \A c : HasMark(c, q.at) => HasMark(c, q.at)'
      BY DEF HasMark, Extended
    <2>2. HasEquity({}, intents[i], q.at) => HasEquity({}, intents[i], q.at)'
      BY <1>2, <1>3, <2>1 DEF HasEquity
    <2> QED
      BY <1>4, <1>5, <2>2 DEF Decides
  <1>6. PICK first \in quotes :
           first \in Eligible(intents[i], MaxTime) /\ first.at = t /\ Decides({}, intents[i], first)
    BY DEF FirstAt, Eligible
  <1>7. first \in Eligible(intents[i], MaxTime)' /\ Decides({}, intents[i], first)'
    BY <1>4, <1>5, <1>6
  <1>8. ASSUME NEW q \in quotes', q \in Eligible(intents[i], MaxTime)', Decides({}, intents[i], q)',
               ~(t <= q.at)
        PROVE  FALSE
    <2>1. q \in quotes
      BY <1>6, <1>8 DEF Extended
    <2>2. \A new \in quotes' \ quotes : ~(new.at <= q.at)
      <3>1. \A new \in quotes' : new.at \in Times
        BY DEF TypeOK, Quote
      <3>2. q.at \in Times
        BY <1>4, <2>1
      <3> QED
        BY <1>6, <1>8, <3>1, <3>2, ConstantsAssumption DEF Extended, Times
    <2>3. \A c : HasMark(c, q.at)' => HasMark(c, q.at)
      BY <2>2 DEF HasMark
    <2>4. HasEquity({}, intents[i], q.at)' => HasEquity({}, intents[i], q.at)
      BY <1>2, <1>3, <2>3 DEF HasEquity
    <2>5. Decides({}, intents[i], q)
      BY <1>4, <1>8, <2>1, <2>4 DEF Decides
    <2> QED
      BY <1>4, <1>8, <2>1, <2>5 DEF FirstAt
  <1> QED
    BY <1>6, <1>7, <1>8 DEF FirstAt, Eligible

\* Every step is such a step: only the monitor persists quotes, and it never goes back.
LEMMA StepExtends ==
    ASSUME TypeOK, QuoteInv, [Next]_vars
    PROVE  Extended
  <1>1. CASE Rebase
    <2>1. PICK s \in Snapshots : base' = Append(base, Seed(s, clock))
      BY <1>1 DEF Rebase
    <2>2. Seed(s, clock) \in Base
      BY ConstantsAssumption DEF Seed, Base, TypeOK
    <2>3. \A g \in 1 .. account.gen : base'[g] = base[g]
      BY <2>1, <2>2 DEF TypeOK
    <2> QED
      BY <1>1, <2>3 DEF Rebase, Extended
  <1>2. CASE Capture
    <2>1. PICK order \in Orders : intents' = Append(intents, NewIntent(order))
      BY <1>2 DEF Capture
    <2>2. DOMAIN intents = 1 .. Len(intents) /\ DOMAIN intents' = 1 .. Len(intents) + 1
          /\ Len(intents) \in Nat /\ \A i \in DOMAIN intents : intents'[i] = intents[i]
      BY <2>1 DEF TypeOK
    <2> QED
      BY <1>2, <2>2 DEF Capture, Extended
  <1>3. CASE PersistQuote
    <2>1. PICK c \in Codes, k \in Kinds :
             quotes' = quotes \cup {[code |-> c, at |-> session["monitor"].at, kind |-> k]}
      BY <1>3 DEF PersistQuote
    <2>2. \A new \in quotes' \ quotes : new.at = session["monitor"].at
      BY <2>1
    <2> QED
      BY <1>3, <2>1, <2>2 DEF PersistQuote, QuoteInv, Extended
  <1>4. ASSUME NEW p \in Advancers, Commit(p) PROVE Extended
    <2>1. intents' = Rewritten(p)
      BY <1>4 DEF Commit
    <2>2. \A i \in DOMAIN intents : intents[i] \in Intent
      BY IntentIds
    <2>3. \A i \in DOMAIN intents :
             /\ i \in DOMAIN intents' /\ intents'[i].order = intents[i].order
             /\ intents'[i].gen = intents[i].gen /\ intents'[i].final = intents[i].final
      BY <2>1, <2>2 DEF Rewritten, Intent
    <2> QED
      BY <1>4, <2>3 DEF Commit, Extended
  <1>5. CASE UNCHANGED <<base, intents, quotes>>
    BY <1>5 DEF Extended
  <1>6. \/ Rebase \/ Capture \/ PersistQuote \/ \E p \in Advancers : Commit(p)
        \/ UNCHANGED <<base, intents, quotes>>
    BY DEF Next, vars, Pause, Resume, BeginTick, BeginMonitor, Observed, Advance, Settle, Choose,
           WriteFill, Conflict, Fail, Abandon, Tick
  <1> QED
    BY <1>1, <1>2, <1>3, <1>4, <1>5, <1>6

\* Every step keeps the quotes in order and in trading hours.
LEMMA QuoteStep ==
    ASSUME TypeOK, QuoteInv, [Next]_vars
    PROVE  QuoteInv'
  <1>0. /\ session \in [Advancers -> Session] /\ "monitor" \in Advancers
        /\ session["monitor"].at \in Times /\ clock \in Times
        /\ \A q \in quotes : q.at \in Times
    BY SessionFields DEF TypeOK, Advancers, Quote
  <1>1. CASE PersistQuote
    <2>1. PICK c \in Codes, k \in Kinds :
             quotes' = quotes \cup {[code |-> c, at |-> session["monitor"].at, kind |-> k]}
      BY <1>1 DEF PersistQuote
    <2>2. UNCHANGED session /\ IsOpen(session["monitor"].at)
      BY <1>1 DEF PersistQuote, QuoteInv
    <2> QED
      BY <1>0, <2>1, <2>2, ConstantsAssumption DEF QuoteInv, Times
  <1>2. CASE BeginMonitor
    <2>1. session'["monitor"] = [Ended(clock) EXCEPT !.step = "persist"]
      BY <1>0, <1>2 DEF BeginMonitor
    <2>2. session'["monitor"].at = clock /\ IsOpen(clock) /\ UNCHANGED quotes
      BY <1>2, <2>1 DEF BeginMonitor, Ended
    <2>3. session["monitor"].at <= clock
      BY <1>0, <1>2, ConstantsAssumption DEF BeginMonitor, Rested, Times
    <2> QED
      BY <1>0, <2>2, <2>3, ConstantsAssumption DEF QuoteInv, Times
  <1>3. CASE /\ UNCHANGED quotes /\ session'["monitor"].at = session["monitor"].at
             /\ session'["monitor"].step = "persist" => session["monitor"].step = "persist"
    BY <1>3 DEF QuoteInv
  <1>4. ASSUME UNCHANGED quotes,
               \/ session'["monitor"] = session["monitor"]
               \/ session'["monitor"] = Ended(session["monitor"].at)
               \/ session'["monitor"] = Loaded(session["monitor"].at)
        PROVE  QuoteInv'
    <2>1. CASE session'["monitor"] = session["monitor"]
      BY <1>3, <1>4, <2>1
    <2>2. CASE session'["monitor"] # session["monitor"]
      <3>1. \A t : Ended(t).at = t /\ Ended(t).step = "idle"
        BY DEF Ended
      <3>2. \A t : Loaded(t).at = t /\ Loaded(t).step = "run"
        BY DEF Ended, Loaded
      <3> QED
        BY <1>3, <1>4, <2>2, <3>1, <3>2
    <2> QED
      BY <2>1, <2>2
  <1>5. ASSUME NEW p \in Advancers, Settle(p) \/ Choose(p) \/ WriteFill(p) PROVE QuoteInv'
    <2>1. session[p] \in Session
      BY <1>0
    <2>2. ASSUME Settle(p) PROVE session'[p].at = session[p].at /\ session'[p].step = "run"
      BY <1>0, <2>1, <2>2 DEF Settle, Session
    <2>3. ASSUME Choose(p) PROVE session'[p].at = session[p].at /\ session'[p].step = "flush"
      BY <1>0, <2>1, <2>3 DEF Choose, Session
    <2>4. ASSUME WriteFill(p) PROVE session'[p].at = session[p].at /\ session'[p].step = "run"
      BY <1>0, <2>1, <2>4 DEF WriteFill, Filled, Session
    <2>5. p # "monitor" => session'["monitor"] = session["monitor"]
      BY <1>0, <1>5 DEF Settle, Choose, WriteFill
    <2>6. UNCHANGED quotes
      BY <1>5 DEF Settle, Choose, WriteFill
    <2> QED
      BY <1>3, <1>5, <2>2, <2>3, <2>4, <2>5, <2>6
  <1>6. ASSUME NEW p \in Advancers, Conflict(p) \/ Fail(p) \/ Commit(p) PROVE QuoteInv'
    BY <1>0, <1>4, <1>6 DEF Conflict, Fail, Commit, Abandon
  <1>7. CASE Observed
    BY <1>0, <1>4, <1>7 DEF Observed
  <1>8. CASE BeginTick
    BY <1>0, <1>4, <1>8 DEF BeginTick
  <1>9. CASE UNCHANGED <<session, quotes>>
    BY <1>4, <1>9
  <1>10. \/ PersistQuote \/ BeginMonitor \/ Observed \/ BeginTick \/ UNCHANGED <<session, quotes>>
         \/ \E p \in Advancers : \/ Settle(p) \/ Choose(p) \/ WriteFill(p)
                                 \/ Conflict(p) \/ Fail(p) \/ Commit(p)
    BY DEF Next, vars, Pause, Resume, Rebase, Capture, Advance, Tick
  <1> QED
    BY <1>1, <1>2, <1>5, <1>6, <1>7, <1>8, <1>9, <1>10

\* Every step keeps the intents within the generations that there are.
LEMMA GenerationStep ==
    ASSUME TypeOK, TypeOK', GenerationInv, [Next]_vars
    PROVE  GenerationInv'
  <1>1. /\ account.gen \in Nat /\ \A i \in DOMAIN intents : intents[i].gen \in Nat
        /\ DOMAIN intents = 1 .. Len(intents) /\ Len(intents) \in Nat
    BY IntentIds, ConstantsAssumption DEF Intent, Generations
  <1>2. CASE Rebase
    <2>1. account'.gen = account.gen + 1 /\ UNCHANGED intents
      BY <1>2 DEF Rebase
    <2> QED
      BY <1>1, <2>1 DEF GenerationInv
  <1>3. CASE Capture
    <2>1. PICK order \in Orders : intents' = Append(intents, NewIntent(order))
      BY <1>3 DEF Capture
    <2>2. /\ DOMAIN intents' = 1 .. Len(intents) + 1
          /\ \A i \in DOMAIN intents : intents'[i] = intents[i]
          /\ intents'[Len(intents) + 1].gen = account.gen
      BY <2>1 DEF NewIntent, TypeOK
    <2> QED
      BY <1>1, <1>3, <2>2 DEF Capture, GenerationInv
  <1>4. ASSUME NEW p \in Advancers, Commit(p) PROVE GenerationInv'
    <2>1. /\ DOMAIN intents' = DOMAIN intents
          /\ \A i \in DOMAIN intents : intents'[i].gen = intents[i].gen
      BY <1>4, RewrittenType DEF Commit
    <2>2. account'.gen = account.gen
      BY <1>4 DEF Commit, TypeOK
    <2> QED
      BY <2>1, <2>2 DEF GenerationInv
  <1>5. CASE Pause \/ Resume
    <2>1. account'.gen = account.gen /\ UNCHANGED intents
      BY <1>5 DEF Pause, Resume, TypeOK
    <2> QED
      BY <2>1 DEF GenerationInv
  <1>6. CASE UNCHANGED <<account, intents>>
    BY <1>6 DEF GenerationInv
  <1>7. \/ Rebase \/ Capture \/ Pause \/ Resume \/ UNCHANGED <<account, intents>>
        \/ \E p \in Advancers : Commit(p)
    BY DEF Next, vars, BeginTick, BeginMonitor, PersistQuote, Observed, Advance, Settle, Choose,
           WriteFill, Conflict, Fail, Abandon, Tick
  <1> QED
    BY <1>2, <1>3, <1>4, <1>5, <1>6, <1>7

-----------------------------------------------------------------------------
(* Every step keeps the fills at the first quotes.                           *)

\* The fills of a session that does not change itself, and what it has chosen, stay at
\* the first quotes.
LEMMA ChoiceKept ==
    ASSUME TypeOK, TypeOK', GenerationInv, Extended, NEW p \in Advancers,
           SessionOk(p), ChoiceOk(p), session'[p] = session[p]
    PROVE  ChoiceOk(p)'
  <1>1. FilledFirst(session[p].made)'
    <2>1. FilledFirst(session[p].made) /\ \A f \in session[p].made : f.intent \in DOMAIN intents
      BY DEF ChoiceOk, SessionOk
    <2>2. \A f \in session[p].made : FirstAt(intents[f.intent], f.at)'
      BY <2>1, SessionFields, FirstAtKept DEF FilledFirst, Fill
    <2> QED
      BY <2>2 DEF FilledFirst
  <1>2. Foremost(p)' = Foremost(p) /\ Foremost(p) \subseteq DOMAIN intents
    BY DEF Foremost, SessionOk
  <1>3. session[p].step = "flush" => \A i \in Foremost(p) : FirstAt(intents[i], session[p].pick)'
    <2>1. session[p].pick \in Times
      BY SessionFields
    <2>2. ASSUME NEW t \in Times, NEW i \in DOMAIN intents, FirstAt(intents[i], t), t = session[p].pick
          PROVE  FirstAt(intents[i], session[p].pick)'
      <3>1. FirstAt(intents[i], t)'
        BY <2>2, FirstAtKept
      <3>2. session'[p].pick = t
        BY <2>2
      <3> QED
        BY <3>1, <3>2
    <2> QED
      BY <1>2, <2>1, <2>2 DEF ChoiceOk
  <1> QED
    BY <1>1, <1>2, <1>3 DEF ChoiceOk

\* A session that has begun or ended has made and chosen nothing.
LEMMA ChoiceOfNone ==
    ASSUME NEW p \in Advancers, session'[p].made = {}, session'[p].step # "flush"
    PROVE  ChoiceOk(p)'
  BY DEF ChoiceOk, FilledFirst

\* What a session makes next: nothing, or a fill at the quote that it has chosen.
LEMMA ChoiceMade ==
    ASSUME QInv, TypeOK', Extended, NEW p \in Advancers, UNCHANGED intents,
           session'[p].step = "run",
           \A f \in session'[p].made :
              \/ f \in session[p].made
              \/ f.intent \in DOMAIN intents /\ f.at \in Times /\ FirstAt(intents[f.intent], f.at)
    PROVE  ChoiceOk(p)'
  <1>1. ASSUME NEW f \in session'[p].made PROVE FirstAt(intents[f.intent], f.at)'
    <2>1. f.intent \in DOMAIN intents /\ f.at \in Times /\ FirstAt(intents[f.intent], f.at)
      BY SessionFields DEF QInv, IInv, SessionInv, SessionOk, ChoiceInv, ChoiceOk, FilledFirst, Fill
    <2> QED
      BY <2>1, FirstAtKept DEF QInv, IInv
  <1> QED
    BY <1>1 DEF ChoiceOk, FilledFirst

\* A session finds the first quote of the intent that it is at.
LEMMA ChoiceFound ==
    ASSUME QInv, NEW p \in Advancers, NEW i \in DOMAIN intents,
           NEW q \in FirstQuote(Seen(p), intents[i], session[p].at)
    PROVE  q.at \in Times /\ FirstAt(intents[i], q.at)
  <1>1. Seen(p) \in SUBSET Fill /\ session[p].at \in Times
    BY SessionFields DEF QInv, IInv, TypeOK, Seen
  <1>2. FilledFirst(Seen(p))
    BY DEF QInv, ChoiceInv, ChoiceOk, FilledFirst, Seen
  <1>3. q \in quotes
    BY FirstQuoteType DEF QInv, IInv
  <1> QED
    BY <1>1, <1>2, <1>3, FoundFirst DEF QInv, IInv, TypeOK, Quote

\* The steps of a session that goes on.
LEMMA ChoiceAdvance ==
    ASSUME QInv, TypeOK', Extended, NEW p \in Advancers, Settle(p) \/ Choose(p) \/ WriteFill(p)
    PROVE  ChoiceOk(p)'
  <1>0. /\ session \in [Advancers -> Session] /\ session[p] \in Session
        /\ session[p].todo \subseteq Ids /\ session[p].pick \in Times
        /\ Foremost(p) \subseteq DOMAIN intents
    BY SessionFields DEF QInv, IInv, TypeOK, SessionInv, SessionOk, Foremost
  <1>1. CASE Settle(p)
    <2>1. PICK i \in Foremost(p) :
             session' = [session EXCEPT
                 ![p].todo = @ \ {i},
                 ![p].wrote = IF Verdict(p, i) = "PENDING" THEN @
                              ELSE @ \cup {[id |-> i, status |-> Verdict(p, i)]}]
      BY <1>1 DEF Settle
    <2>2. session'[p].step = "run" /\ session'[p].made = session[p].made
      BY <1>0, <1>1, <2>1 DEF Settle, Session
    <2>3. UNCHANGED intents
      BY <1>1 DEF Settle
    <2> QED
      BY <2>2, <2>3, ChoiceMade
  <1>2. CASE Choose(p)
    <2>1. PICK i \in Foremost(p) :
             \E q \in FirstQuote(Seen(p), intents[i], session[p].at) :
                session' = [session EXCEPT ![p].step = "flush", ![p].pick = q.at]
      BY <1>2 DEF Choose
    <2>2. PICK q \in FirstQuote(Seen(p), intents[i], session[p].at) :
                session' = [session EXCEPT ![p].step = "flush", ![p].pick = q.at]
      BY <2>1
    <2>3. /\ session'[p].made = session[p].made /\ session'[p].todo = session[p].todo
          /\ session'[p].pick = q.at
      BY <1>0, <2>2 DEF Session
    <2>4. \A j \in Foremost(p)' : j = i
      BY <1>0, <2>3, ConstantsAssumption DEF Foremost, Ids
    <2>5. q.at \in Times /\ FirstAt(intents[i], q.at)
      BY <1>0, ChoiceFound
    <2>6. ASSUME NEW t \in Times, FirstAt(intents[i], t), t = session'[p].pick
          PROVE  FirstAt(intents[i], session[p].pick)'
      <3>1. FirstAt(intents[i], t)'
        BY <1>0, <2>6, FirstAtKept DEF QInv, IInv
      <3> QED
        BY <2>6, <3>1
    <2>7. FirstAt(intents[i], session[p].pick)'
      BY <2>3, <2>5, <2>6
    <2>8. ASSUME NEW f \in session'[p].made PROVE FirstAt(intents[f.intent], f.at)'
      <3>1. f.intent \in DOMAIN intents /\ f.at \in Times /\ FirstAt(intents[f.intent], f.at)
        BY <2>3, SessionFields
           DEF QInv, IInv, SessionInv, SessionOk, ChoiceInv, ChoiceOk, FilledFirst, Fill
      <3> QED
        BY <3>1, FirstAtKept DEF QInv, IInv
    <2> QED
      BY <2>4, <2>7, <2>8 DEF ChoiceOk, FilledFirst
  <1>3. CASE WriteFill(p)
    <2>1. PICK i \in Foremost(p) : session' = [session EXCEPT ![p] = Filled(p, i)]
      BY <1>3 DEF WriteFill
    <2>2. session'[p].step = "run" /\ session'[p].made = session[p].made \cup {FillOf(p, i)}
      BY <1>0, <2>1 DEF Filled, Session
    <2>3. FirstAt(intents[i], session[p].pick)
      BY <1>3 DEF WriteFill, QInv, ChoiceInv, ChoiceOk
    <2>4. UNCHANGED intents /\ FillOf(p, i).intent = i /\ FillOf(p, i).at = session[p].pick
      BY <1>3 DEF WriteFill, FillOf
    <2> QED
      BY <1>0, <2>2, <2>3, <2>4, ChoiceMade
  <1> QED
    BY <1>1, <1>2, <1>3

\* All of it.
LEMMA ChoiceStep ==
    ASSUME QInv, TypeOK', [Next]_vars
    PROVE  ChoiceInv'
  <1>0. /\ Extended /\ session \in [Advancers -> Session]
        /\ TypeOK /\ GenerationInv /\ fills \in SUBSET Fill
    BY StepExtends DEF QInv, IInv, TypeOK
  <1>1. FilledFirst(fills)'
    <2>1. ASSUME NEW f \in fills' PROVE FirstAt(intents[f.intent], f.at)'
      <3>1. f \in fills \/ \E p \in Advancers : f \in session[p].made
        BY <2>1 DEF Next, vars, Pause, Resume, Rebase, Capture, BeginTick, BeginMonitor, PersistQuote,
               Observed, Advance, Settle, Choose, WriteFill, Conflict, Fail, Commit, Abandon, Tick
      <3>2. f.intent \in DOMAIN intents /\ f \in Fill /\ FirstAt(intents[f.intent], f.at)
        BY <1>0, <3>1, SessionFields
           DEF QInv, IInv, FillInv, SessionInv, SessionOk, ChoiceInv, ChoiceOk, FilledFirst
      <3> QED
        BY <1>0, <3>2, FirstAtKept DEF Fill
    <2> QED
      BY <2>1 DEF FilledFirst
  <1>2. ASSUME NEW p \in Advancers PROVE ChoiceOk(p)'
    <2>1. CASE session'[p] = session[p]
      BY <1>0, <2>1, ChoiceKept DEF QInv, IInv, SessionInv, ChoiceInv
    <2>2. CASE Settle(p) \/ Choose(p) \/ WriteFill(p)
      BY <1>0, <2>2, ChoiceAdvance
    <2>3. CASE session'[p].made = {} /\ session'[p].step # "flush"
      BY <2>3, ChoiceOfNone
    <2>4. \A t : /\ Ended(t).made = {} /\ Ended(t).step # "flush"
                 /\ Loaded(t).made = {} /\ Loaded(t).step # "flush"
                 /\ [Ended(t) EXCEPT !.step = "persist"].made = {}
                 /\ [Ended(t) EXCEPT !.step = "persist"].step # "flush"
      BY DEF Ended, Loaded
    <2>5. CASE BeginTick \/ BeginMonitor \/ Observed
      <3>1. \/ session'[p] = session[p] \/ session'[p] = Loaded(clock)
            \/ session'[p] = [Ended(clock) EXCEPT !.step = "persist"]
            \/ session'[p] = Ended(session[p].at) \/ session'[p] = Loaded(session[p].at)
        BY <1>0, <2>5 DEF BeginTick, BeginMonitor, Observed, Advancers
      <3> QED
        BY <2>1, <2>3, <2>4, <3>1
    <2>6. ASSUME NEW o \in Advancers, Conflict(o) \/ Fail(o) \/ Commit(o) PROVE ChoiceOk(p)'
      <3>1. session'[p] = session[p] \/ session'[p] = Ended(session[p].at)
        BY <1>0, <2>6 DEF Conflict, Fail, Commit, Abandon
      <3> QED
        BY <2>1, <2>3, <2>4, <3>1
    <2>7. ASSUME NEW o \in Advancers, o # p, Settle(o) \/ Choose(o) \/ WriteFill(o)
          PROVE  session'[p] = session[p]
      BY <1>0, <2>7 DEF Settle, Choose, WriteFill
    <2>8. CASE UNCHANGED session
      BY <2>1, <2>8
    <2>9. \/ BeginTick \/ BeginMonitor \/ Observed \/ UNCHANGED session
          \/ \E o \in Advancers : \/ Settle(o) \/ Choose(o) \/ WriteFill(o)
                                  \/ Conflict(o) \/ Fail(o) \/ Commit(o)
      BY DEF Next, vars, Pause, Resume, Rebase, Capture, PersistQuote, Advance, Tick
    <2> QED
      BY <2>1, <2>2, <2>5, <2>6, <2>7, <2>8, <2>9
  <1> QED
    BY <1>1, <1>2 DEF ChoiceInv

-----------------------------------------------------------------------------
(* The invariant of the quotes, and what follows from it.                    *)

\* It holds at first.
LEMMA QInvInit == Init => QInv
  <1> SUFFICES ASSUME Init PROVE QuoteInv /\ GenerationInv /\ ChoiceInv
    BY InitInv DEF QInv
  <1>1. /\ quotes = {} /\ fills = {} /\ intents = <<>>
        /\ \A p \in Advancers : session[p] = Ended(0)
    BY DEF Init
  <1>2. \A p \in Advancers : session[p].made = {} /\ session[p].step = "idle"
    BY <1>1 DEF Ended
  <1> QED
    BY <1>1, <1>2 DEF QuoteInv, GenerationInv, ChoiceInv, ChoiceOk, FilledFirst, Advancers

\* Every step keeps it.
LEMMA QInvStep == QInv /\ [Next]_vars => QInv'
  <1> SUFFICES ASSUME QInv, [Next]_vars PROVE QInv'
    OBVIOUS
  <1>1. IInv' /\ TypeOK'
    BY InvStep, TypeStep DEF QInv, IInv
  <1>2. QuoteInv' /\ GenerationInv'
    BY <1>1, QuoteStep, GenerationStep DEF QInv, IInv
  <1>3. ChoiceInv'
    BY <1>1, ChoiceStep
  <1> QED
    BY <1>1, <1>2, <1>3 DEF QInv

\* Two fills of an intent are at the first quotes of it, so they are the same fill.
LEMMA OneFill == QInv => OneFillPerIntent
  <1> SUFFICES ASSUME QInv, NEW f \in fills, NEW g \in fills, f.intent = g.intent PROVE f = g
    BY DEF OneFillPerIntent
  <1>1. f \in Fill /\ g \in Fill
    BY DEF QInv, IInv, TypeOK
  <1>2. f.gen = g.gen
    BY DEF QInv, IInv, FillInv
  <1>3. FirstAt(intents[f.intent], f.at) /\ FirstAt(intents[f.intent], g.at)
    BY DEF QInv, ChoiceInv, FilledFirst
  <1>4. f.at <= g.at /\ g.at <= f.at
    BY <1>3 DEF FirstAt
  <1>5. f.at = g.at
    BY <1>1, <1>4, ConstantsAssumption DEF Fill, Times
  <1> QED
    BY <1>1, <1>2, <1>5 DEF Fill

\* A quote before the fill of an intent did not decide it, with the fills of today either.
LEMMA FirstWins == QInv => FirstQuoteWins
  <1> SUFFICES ASSUME QInv, NEW f \in fills, NEW q \in quotes,
                      q \in Eligible(intents[f.intent], MaxTime), q.at < f.at,
                      q.kind \notin {"unfit", "halted"}, HasEquity(fills, intents[f.intent], q.at)
               PROVE  FALSE
    BY DEF FirstQuoteWins
  <1>1. q.at \in Times /\ f.at \in Times /\ fills \in SUBSET Fill
    BY DEF QInv, IInv, TypeOK, Quote, Fill
  <1>2. HasEquity({}, intents[f.intent], q.at)
    BY <1>1, EquityOfFills DEF QInv, IInv, ChoiceInv
  <1>3. Decides({}, intents[f.intent], q)
    BY <1>2 DEF Decides, QInv, QuoteInv
  <1>4. f.at <= q.at
    BY <1>3 DEF QInv, ChoiceInv, FilledFirst, FirstAt
  <1> QED
    BY <1>1, <1>4, ConstantsAssumption DEF Times

\* An intent is filled at most once, whichever sessions load it as PENDING: for any
\* orders and quotes.
THEOREM ShadowOneFill == Spec => []OneFillPerIntent
  BY QInvInit, QInvStep, OneFill, PTL DEF Spec

\* A fill is at the first quote that could have decided its intent, although a session
\* sees only some of the quotes and fills, and a pause or a failure lets it wait.
THEOREM ShadowFirstQuote == Spec => []FirstQuoteWins
  BY QInvInit, QInvStep, FirstWins, PTL DEF Spec
=============================================================================

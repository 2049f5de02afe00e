-------------------------- MODULE ShadowExecution --------------------------
(***************************************************************************)
(* The paper-only execution of the production decisions of one portfolio:  *)
(* a captured decision leaves order intents, quotes are persisted as they  *)
(* are observed, and an intent is filled from the first quote that fits.   *)
(* Two threads advance the intents, each in a session of its own: the      *)
(* scheduler tick (maintain_shadow) and the realtime monitor, which also   *)
(* persists the quotes.  The owner pauses, resumes and rebases the account *)
(* at any time.                                                            *)
(*                                                                         *)
(* A session reads what is committed and what it has written itself, and   *)
(* keeps the intents and the account as it first loaded them.  The first   *)
(* INSERT of a fill takes SQLite's write lock, which is held until the     *)
(* commit; a quote is committed by itself.                                 *)
(*                                                                         *)
(* Prices are 1.  An intent asks for a quantity, the calendar is complete, *)
(* every purchase settles at T+1 and the account already has the current   *)
(* execution contract version.                                             *)
(***************************************************************************)
EXTENDS Integers, FiniteSets, FiniteSetsExt, Sequences

CONSTANTS
    Codes,        \* the securities
    Capped,       \* those with a hard cap (stocks)
    CapShare,     \* the cap is 1/CapShare of the equity
    Fee,          \* commission and tax of a fill
    Snapshots,    \* the confirmed portfolio snapshots an account can start from
    Orders,       \* the executable actions of the decisions
    Kinds,        \* the kinds of quotes that are observed
    Start,        \* when the account is created
    MaxTime,      \* bound on the clock
    LastDecision, \* bound on the time of a decision
    MaxLag,       \* bound on how long a session lasts
    MaxIntents,   \* bound on the intents
    MaxQuotes,    \* bound on the quotes
    MaxRebases,   \* bound on the rebases
    MaxFailures   \* bound on the sessions that fail

\* "fair" can fill any intent, and "up" and "down" are at their limit; "halted" (suspended
\* or inactive) is skipped, and "unfit" (inexact time, bad quality or price) is no mark
\* either.
QuoteKinds == {"fair", "up", "down", "halted", "unfit"}

Sides == {"BUY", "SELL"}

ASSUME ConstantsAssumption ==
    /\ Capped \subseteq Codes /\ Kinds \subseteq QuoteKinds
    /\ CapShare \in Nat /\ Fee \in Nat
    /\ Snapshots \subseteq [cash: Nat, hold: [Codes -> Nat], known: BOOLEAN]
    /\ Orders \subseteq [code: Codes, side: Sides, qty: Nat]
    /\ MaxTime \in Nat /\ Start \in 1 .. MaxTime /\ LastDecision \in Nat /\ MaxLag \in Nat /\ MaxIntents \in Nat /\ MaxQuotes \in Nat
    /\ MaxRebases \in Nat /\ MaxFailures \in Nat

VARIABLES
    clock,     \* the time
    account,   \* the ShadowAccount row
    base,      \* INITIAL_CASH and INITIAL_POSITION entries by generation
    intents,   \* the ShadowOrderIntent rows by id
    fills,     \* the ShadowFill rows, each with its ShadowLedgerEntry
    quotes,    \* the LiveQuoteObservation rows
    session,   \* the sessions of the tick and of the monitor
    writer,    \* who holds the write lock
    failures   \* how many sessions have failed

vars == <<clock, account, base, intents, fills, quotes, session, writer, failures>>

-----------------------------------------------------------------------------
Times == 0 .. MaxTime
Ids == 1 .. MaxIntents
Generations == 1 .. MaxRebases + 1
Advancers == {"tick", "monitor"}

\* A day has two instants in trading hours and one after 15:00.
IsOpen(t) == t % 3 # 2
NextOpen(t) == 3 * (t \div 3 + 1)
NextClose(t) == NextOpen(t) + 1
Earliest(t) == IF t % 3 = 2 THEN NextOpen(t) ELSE t

Closed == {"FILLED", "BLOCKED", "EXPIRED", "SUPERSEDED"}

\* What current_cash and the positions were last computed from.
Book == [gen: Generations, from: SUBSET Ids]
NoBook == [gen |-> 0, from |-> {}]
Base == [cash: Nat, hold: [Codes -> Nat], known: BOOLEAN, at: Times]
Intent == [order: Orders, gen: Generations, final: Times, status: {"PENDING"} \cup Closed]
Fill == [intent: Ids, gen: Generations, at: Times]
Quote == [code: Codes, at: Times, kind: QuoteKinds]

Session == [step: {"idle", "persist", "run", "flush"},
            at: Times,
            todo: SUBSET Ids,
            active: BOOLEAN, gen: Generations,          \* the account as loaded
            wrote: SUBSET [id: Ids, status: Closed],    \* the intents it has changed
            made: SUBSET Fill,
            book: Book \cup {NoBook},                   \* the account's book, if it wrote it
            pick: Times]

Ended(t) ==
    [step |-> "idle", at |-> t, todo |-> {}, active |-> FALSE, gen |-> 1,
     wrote |-> {}, made |-> {}, book |-> NoBook, pick |-> 0]

-----------------------------------------------------------------------------
(***************************************************************************)
(* What the ledger says: F is a set of fills, g a generation, t the cutoff.*)
(***************************************************************************)
OrderOf(f) == intents[f.intent].order

Traded(F, g, t, side) == {f \in F : f.gen = g /\ f.at <= t /\ OrderOf(f).side = side}

Quantity(F) == SumFunction([f \in F |-> OrderOf(f).qty])

\* The initial entries are dated too: before them an account has nothing.
CashAt(F, g, t) ==
    LET bought == Traded(F, g, t, "BUY")
        sold == Traded(F, g, t, "SELL")
    IN (IF base[g].at <= t THEN base[g].cash ELSE 0)
       + Quantity(sold) - Quantity(bought) - Fee * Cardinality(bought \cup sold)

\* What is there at t if at every u up to then change[u] is added and nothing goes below 0.
Replayed(change, t) ==
    LET after[u \in 0 .. t] ==
            LET q == (IF u = 0 THEN 0 ELSE after[u - 1]) + change[u]
            IN IF q > 0 THEN q ELSE 0
    IN after[t]

\* The entries are replayed in the order of time.  With settled, a purchase counts from
\* the next open on.
Position(F, g, t, c, settled) ==
    LET Of(u, side) == Quantity({f \in Traded(F, g, t, side) : f.at = u /\ OrderOf(f).code = c})
        bought(u) == IF settled /\ NextOpen(u) > t THEN 0 ELSE Of(u, "BUY")
        initial(u) == IF base[g].at = u /\ (settled => base[g].known) THEN base[g].hold[c] ELSE 0
    IN Replayed([u \in 0 .. t |-> initial(u) + bought(u) - Of(u, "SELL")], t)

Held(F, g, t, c) == Position(F, g, t, c, FALSE)
Sellable(F, g, t, c) == Position(F, g, t, c, TRUE)

\* sellable_quantity_known, FALSE of a holding whose available quantity was not.
KnowsSellable(F, g, t, c) ==
    base[g].known \/ base[g].at > t \/ base[g].hold[c] = 0 \/ Held(F, g, t, c) = 0

Equity(F, g, t) == CashAt(F, g, t) + MapThenSumSet(LAMBDA c : Held(F, g, t, c), Codes)

\* _latest_mark: the last exact quote of a security; at its limit it is a price still.  All
\* quotes are taken to be of one price basis, RAW_QUOTE, the one a live quote has unless its
\* source says otherwise: the test of _basis_compatible is left out.
HasMark(c, t) == \E q \in quotes : q.code = c /\ q.at <= t /\ q.kind # "unfit"

-----------------------------------------------------------------------------
(***************************************************************************)
(* What becomes of an intent, from the quotes and the fills a session sees.*)
(***************************************************************************)
Eligible(row, now) ==
    {q \in quotes : /\ q.code = row.order.code
                    /\ q.at > row.final
                    /\ q.at >= Earliest(row.final)
                    /\ q.at <= NextClose(row.final)
                    /\ q.at <= now}

AtLimit(row, q) == q.kind = (IF row.order.side = "BUY" THEN "up" ELSE "down")

\* A purchase of a capped security needs a mark of everything else that is held.
HasEquity(F, row, t) ==
    row.order.side = "BUY" /\ row.order.code \in Capped =>
        \A c \in Codes \ {row.order.code} : Held(F, row.gen, t, c) > 0 => HasMark(c, t)

\* Mutant: a quote at its limit is skipped instead of blocking the intent.
DecidesUnlimited(F, row, q) ==
    /\ q.kind \notin {"unfit", "halted"} /\ IsOpen(q.at)
    /\ ~AtLimit(row, q) /\ HasEquity(F, row, q.at)

\* The quote ends the search: it blocks the intent or is the one to use.
Decides(F, row, q) ==
    /\ q.kind \notin {"unfit", "halted"} /\ IsOpen(q.at)
    /\ AtLimit(row, q) \/ HasEquity(F, row, q.at)

\* Mutant: the newest quote is used.
NewestQuote(F, row, now) ==
    LET found == {q \in Eligible(row, now) : Decides(F, row, q)}
    IN {q \in found : \A other \in found : other.at <= q.at}

FirstQuote(F, row, now) ==
    LET found == {q \in Eligible(row, now) : Decides(F, row, q)}
    IN {q \in found : \A other \in found : q.at <= other.at}

TooLarge(F, row, t) ==
    LET order == row.order
    IN \/ order.qty = 0
       \/ order.qty + Fee > CashAt(F, row.gen, t)
       \/ /\ order.code \in Capped
          /\ (Held(F, row.gen, t, order.code) + order.qty) * CapShare > Equity(F, row.gen, t)

Outcome(F, row, now) ==
    IF now > NextClose(row.final) THEN "EXPIRED"
    ELSE IF FirstQuote(F, row, now) = {} THEN "PENDING"
    ELSE LET q == CHOOSE q \in FirstQuote(F, row, now) : TRUE
             short == row.order.qty > Sellable(F, row.gen, q.at, row.order.code)
         IN IF AtLimit(row, q) \/ row.order.qty = 0 THEN "BLOCKED"
            ELSE IF row.order.side = "BUY"
            THEN IF TooLarge(F, row, q.at) THEN "BLOCKED" ELSE "FILLED"
            ELSE IF ~short THEN "FILLED"
            ELSE IF KnowsSellable(F, row.gen, q.at, row.order.code) THEN "BLOCKED" ELSE "PENDING"

-----------------------------------------------------------------------------
(***************************************************************************)
(* The owner and the analysis.                                             *)
(***************************************************************************)
\* INITIAL_CASH and the INITIAL_POSITIONs, from a snapshot whose facts are valid.
Seed(s, t) == [cash |-> s.cash, hold |-> s.hold, known |-> s.known, at |-> t]

\* create_shadow_account, from a trusted snapshot that is visible now.
Init ==
    /\ clock = Start
    /\ account = [status |-> "ACTIVE", gen |-> 1, book |-> [gen |-> 1, from |-> {}]]
    /\ base \in {<<Seed(s, Start)>> : s \in Snapshots}
    /\ intents = <<>> /\ fills = {} /\ quotes = {}
    /\ session = [p \in Advancers |-> Ended(0)]
    /\ writer = "none"
    /\ failures = 0

Pause ==
    /\ writer = "none"
    /\ account' = [account EXCEPT !.status = "PAUSED"]
    /\ UNCHANGED <<clock, base, intents, fills, quotes, session, writer, failures>>

Resume ==
    /\ writer = "none"
    /\ account' = [account EXCEPT !.status = "ACTIVE"]
    /\ UNCHANGED <<clock, base, intents, fills, quotes, session, writer, failures>>

\* Mutant: the new generation is announced before it is seeded.
RebaseUnseeded ==
    /\ writer = "none" /\ account.gen <= MaxRebases
    /\ account' = [status |-> "ACTIVE", gen |-> account.gen + 1,
                    book |-> [gen |-> account.gen + 1, from |-> {}]]
    /\ UNCHANGED <<clock, base, intents, fills, quotes, session, writer, failures>>

\* A new generation starts from a snapshot; what the old ones did stays.
Rebase ==
    /\ writer = "none" /\ account.gen <= MaxRebases
    /\ \E s \in Snapshots : base' = Append(base, Seed(s, clock))
    /\ account' = [status |-> "ACTIVE", gen |-> account.gen + 1,
                    book |-> [gen |-> account.gen + 1, from |-> {}]]
    /\ UNCHANGED <<clock, intents, fills, quotes, session, writer, failures>>

NewIntent(order) ==
    [order |-> order, gen |-> account.gen, final |-> clock, status |-> "PENDING"]

\* capture_live_decision_observation of a final decision with one action: the
\* outcome rows are flushed before the account is read, so the lock is held.
Capture ==
    /\ writer = "none" /\ account.status = "ACTIVE"
    /\ Len(intents) < MaxIntents /\ clock <= LastDecision
    /\ \E order \in Orders : intents' = Append(intents, NewIntent(order))
    /\ UNCHANGED <<clock, account, base, fills, quotes, session, writer, failures>>

-----------------------------------------------------------------------------
(***************************************************************************)
(* A session p that advances the intents.                                  *)
(***************************************************************************)
Pending == {i \in DOMAIN intents : intents[i].status = "PENDING"}

\* The PENDING intents and the account are read once and then kept.
Loaded(t) == [Ended(t) EXCEPT !.step = "run", !.todo = Pending,
                !.active = (account.status = "ACTIVE"), !.gen = account.gen]

\* A thread begins one session an instant, and as many as it likes at the last one.
Rested(p) ==
    /\ session[p].step = "idle"
    /\ session[p].at < clock \/ clock = MaxTime

\* A tick that finds no PENDING intent changes nothing.
BeginTick ==
    /\ Rested("tick") /\ Pending # {}
    /\ session' = [session EXCEPT !["tick"] = Loaded(clock)]
    /\ UNCHANGED <<clock, account, base, intents, fills, quotes, writer, failures>>

BeginMonitor ==
    /\ Rested("monitor") /\ IsOpen(clock) /\ Pending # {}
    /\ session' = [session EXCEPT !["monitor"] = [Ended(clock) EXCEPT !.step = "persist"]]
    /\ UNCHANGED <<clock, account, base, intents, fills, quotes, writer, failures>>

\* persist_live_quote_observation: dated when the monitor's tick began.
PersistQuote ==
    /\ session["monitor"].step = "persist" /\ writer = "none"
    /\ Cardinality(quotes) < MaxQuotes /\ Pending # {}
    /\ \E c \in Codes, k \in Kinds :
          /\ \A q \in quotes : ~(q.code = c /\ q.at = session["monitor"].at)
          /\ quotes' = quotes \cup {[code |-> c, at |-> session["monitor"].at, kind |-> k]}
    /\ UNCHANGED <<clock, account, base, intents, fills, session, writer, failures>>

Observed ==
    /\ session["monitor"].step = "persist"
    /\ session' = [session EXCEPT !["monitor"] =
                      IF Pending = {} THEN Ended(session["monitor"].at)
                      ELSE Loaded(session["monitor"].at)]
    /\ UNCHANGED <<clock, account, base, intents, fills, quotes, writer, failures>>

Seen(p) == fills \cup session[p].made

\* The intents are taken in the order of their ids.
Foremost(p) == {i \in session[p].todo : \A j \in session[p].todo : i <= j}

\* What p makes of intent i.
Verdict(p, i) ==
    IF ~session[p].active THEN "PENDING"
    ELSE IF intents[i].gen # session[p].gen THEN "SUPERSEDED"
    ELSE Outcome(Seen(p), intents[i], session[p].at)

HasFill(F, i, t) == \E f \in F : f.intent = i /\ f.at = t

\* The intent is dropped from the list, with a new status unless it stays PENDING.  A
\* fill that is there already is not made again.
Settle(p) ==
    /\ session[p].step = "run"
    /\ \E i \in Foremost(p) : LET v == Verdict(p, i) IN
          /\ v = "FILLED" => \E q \in FirstQuote(Seen(p), intents[i], session[p].at) :
                                HasFill(Seen(p), i, q.at)
          /\ session' = [session EXCEPT
                 ![p].todo = @ \ {i},
                 ![p].wrote = IF v = "PENDING" THEN @ ELSE @ \cup {[id |-> i, status |-> v]}]
    /\ UNCHANGED <<clock, account, base, intents, fills, quotes, writer, failures>>

Choose(p) ==
    /\ session[p].step = "run"
    /\ \E i \in Foremost(p) :
          /\ Verdict(p, i) = "FILLED"
          /\ \E q \in FirstQuote(Seen(p), intents[i], session[p].at) :
                /\ ~HasFill(Seen(p), i, q.at)
                /\ session' = [session EXCEPT ![p].step = "flush", ![p].pick = q.at]
    /\ UNCHANGED <<clock, account, base, intents, fills, quotes, writer, failures>>

\* Mutant: the generation is the one the account has by now.
FillOfAccount(p, i) == [intent |-> i, gen |-> account.gen, at |-> session[p].pick]

FillOf(p, i) == [intent |-> i, gen |-> session[p].gen, at |-> session[p].pick]

\* The intents that the materialised state of the account is recomputed from: those of
\* the generation the session loaded.
KnownFills(p, fill) ==
    {f.intent : f \in {x \in Seen(p) \cup {fill} : x.gen = session[p].gen}}

\* The fill with its ledger entry, the status and the state of the account.
Filled(p, i) ==
    [session[p] EXCEPT
        !.step = "run", !.pick = 0,
        !.todo = @ \ {i},
        !.made = @ \cup {FillOf(p, i)},
        !.wrote = @ \cup {[id |-> i, status |-> "FILLED"]},
        !.book = [gen |-> session[p].gen, from |-> KnownFills(p, FillOf(p, i))]]

WriteFill(p) ==
    /\ session[p].step = "flush" /\ writer \in {"none", p}
    /\ \E i \in Foremost(p) :
          /\ ~HasFill(fills, i, session[p].pick)
          /\ session' = [session EXCEPT ![p] = Filled(p, i)]
    /\ writer' = p
    /\ UNCHANGED <<clock, account, base, intents, fills, quotes, failures>>

Abandon(p) ==
    /\ session' = [session EXCEPT ![p] = Ended(session[p].at)]
    /\ writer' = IF writer = p THEN "none" ELSE writer
    /\ UNCHANGED <<clock, account, base, intents, fills, quotes>>

\* execution_key is unique: the other session was faster, everything is rolled back.
Conflict(p) ==
    /\ session[p].step = "flush" /\ writer \in {"none", p}
    /\ \E i \in Foremost(p) : HasFill(fills, i, session[p].pick)
    /\ Abandon(p) /\ UNCHANGED failures

\* Any other exception: "database is locked", say.
Fail(p) ==
    /\ session[p].step # "idle" /\ failures < MaxFailures
    /\ failures' = failures + 1
    /\ Abandon(p)

\* The rows the session has changed are written over what is there.
StatusAfter(p, i) ==
    IF \E w \in session[p].wrote : w.id = i
    THEN (CHOOSE w \in session[p].wrote : w.id = i).status
    ELSE intents[i].status

Rewritten(p) == [i \in DOMAIN intents |-> [intents[i] EXCEPT !.status = StatusAfter(p, i)]]

Commit(p) ==
    /\ session[p].step = "run" /\ session[p].todo = {}
    /\ writer \in {"none", p} \/ session[p].wrote = {}
    /\ intents' = Rewritten(p)
    /\ fills' = fills \cup session[p].made
    /\ account' = IF session[p].book = NoBook THEN account
                  ELSE [account EXCEPT !.book = session[p].book]
    /\ session' = [session EXCEPT ![p] = Ended(session[p].at)]
    /\ writer' = IF writer = p THEN "none" ELSE writer
    /\ UNCHANGED <<clock, base, quotes, failures>>

Advance(p) ==
    \/ Settle(p) \/ Choose(p)
    \/ WriteFill(p) \/ Conflict(p) \/ Commit(p)

Tick ==
    /\ clock < MaxTime
    /\ \A p \in Advancers : session[p].step # "idle" => clock < session[p].at + MaxLag
    /\ clock' = clock + 1
    /\ UNCHANGED <<account, base, intents, fills, quotes, session, writer, failures>>

Next ==
    \/ Pause \/ Resume \/ Rebase \/ Capture
    \/ BeginTick \/ BeginMonitor \/ PersistQuote \/ Observed
    \/ \E p \in Advancers : Advance(p) \/ Fail(p)
    \/ Tick

Spec == Init /\ [][Next]_vars

-----------------------------------------------------------------------------
TypeOK ==
    /\ clock \in Times
    /\ account \in [status: {"ACTIVE", "PAUSED"}, gen: Generations, book: Book]
    /\ base \in Seq(Base) /\ Len(base) = account.gen
    /\ intents \in Seq(Intent) /\ Len(intents) <= MaxIntents
    /\ fills \subseteq Fill
    /\ quotes \subseteq Quote
    /\ session \in [Advancers -> Session]
    /\ writer \in Advancers \cup {"none"}
    /\ failures \in 0 .. MaxFailures

\* An intent is filled once, whichever of the two threads gets there, also when both
\* have loaded it as PENDING: they agree on the quote, and its key is unique.
OneFillPerIntent ==
    \A f, g \in fills : f.intent = g.intent => f = g

\* A FILLED intent has its fill, in the generation it was made for, whatever is rolled
\* back or written over; and no fill moves shares of another generation.
FilledHasItsFill ==
    /\ \A i \in DOMAIN intents : intents[i].status = "FILLED" =>
           \E f \in fills : f.intent = i
    /\ \A f \in fills : f.gen = intents[f.intent].gen

\* A fill is at the first quote after the decision that could have decided the intent:
\* a later quote is never preferred, even if the intent waited while the account was
\* paused, a session failed or the quotes of a tick became visible one by one.
FirstQuoteWins ==
    \A f \in fills : \A q \in quotes :
        LET row == intents[f.intent]
        IN q \in Eligible(row, MaxTime) /\ q.at < f.at =>
               q.kind \in {"unfit", "halted"} \/ ~HasEquity(fills, row, q.at)

\* The contract's "a purchase uses only the available cash of the shadow account".
NoOverdraft ==
    \A g \in 1 .. account.gen : CashAt(fills, g, MaxTime) >= 0
=============================================================================

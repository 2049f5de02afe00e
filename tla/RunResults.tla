----------------------------- MODULE RunResults -----------------------------
(***************************************************************************)
(* What the generations of a durable run promise.  A run is attempted      *)
(* again and again until one attempt, the current one, publishes the       *)
(* result: once, for ever, and no attempt comes after it.                  *)
(***************************************************************************)
EXTENDS Integers

CONSTANT Runs

VARIABLES
    attempt,    \* the current attempt at each run
    result      \* the attempts whose result was published

published == <<attempt, result>>

Init ==
    /\ attempt = [r \in Runs |-> 1]
    /\ result = [r \in Runs |-> {}]

\* The attempt was lost, or was thought to be.
Retry(R) ==
    /\ \A r \in R : result[r] = {}
    /\ attempt' = [r \in Runs |-> IF r \in R THEN attempt[r] + 1 ELSE attempt[r]]
    /\ UNCHANGED result

Publish(r) ==
    /\ result[r] = {}
    /\ result' = [result EXCEPT ![r] = {attempt[r]}]
    /\ UNCHANGED attempt

Next ==
    \/ \E r \in Runs : Publish(r)
    \/ \E R \in SUBSET Runs : Retry(R)

Spec == Init /\ [][Next]_published
=============================================================================

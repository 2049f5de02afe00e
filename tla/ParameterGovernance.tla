------------------------ MODULE ParameterGovernance ------------------------
(***************************************************************************)
(* The production parameters: versions, the proposals that lead to them    *)
(* and the operator's requests that review, validate and activate them.    *)
(* Every request reads in a session that holds no lock and writes, by      *)
(* primary key, in one transaction that begins with its first write.       *)
(*                                                                         *)
(* A snapshot is known by its verdict, what validation says of it.  Ids    *)
(* are handed out in order, so a version's id is also its number.          *)
(***************************************************************************)
EXTENDS Naturals, Sequences

CONSTANTS
    Sessions,       \* slots for the requests in flight
    Topics,         \* owner, source and target of a proposal, its uniqueness key
    Rollback,       \* the topic of the rollbacks, __FULL_ROLLBACK__
    MaxProposals,   \* bound on the proposals
    MaxVersions     \* bound on the versions

ASSUME GovernanceAssumption ==
    Rollback \in Topics /\ MaxProposals \in Nat /\ MaxVersions \in Nat \ {0}

VARIABLES
    versions,   \* the ParameterSetVersion rows
    proposals,  \* the ParameterChangeProposal rows
    ses         \* what each request has read

vars == <<versions, proposals, ses>>

-----------------------------------------------------------------------------
\* What validate_parameter_snapshot returns; it never returns WARNING.
Verdicts == {"PASS", "BLOCKED"}
OpenStatuses == {"DRAFT", "PENDING_REVIEW", "APPROVED"}
ProposalStatuses == OpenStatuses \cup {"REJECTED", "ACTIVATED"}

\* verdict is what validation would say, checked the validation_status it has left in the
\* row; switched says whether the last activation read the active version under the write
\* lock ("LOCKED") or before it ("EARLY").
Version ==
    [status: {"APPROVED", "ACTIVE", "SUPERSEDED"}, base: Nat, proposal: Nat, verdict: Verdicts,
     checked: Verdicts \cup {"NONE"}, switched: {"NEVER", "LOCKED", "EARLY"}]

\* target is the version a rollback goes back to, version the approved_version_id.
Proposal == [status: ProposalStatuses, topic: Topics, base: Nat, target: Nat, version: Nat]

Idle == [at |-> "idle"]
Session ==
    {Idle}
    \cup [at: {"propose"}, topic: Topics, base: Nat, target: Nat]
    \cup [at: {"submit", "reject", "approve"}, proposal: Nat, version: Nat]
    \cup [at: {"based"}, proposal: Nat]
    \cup [at: {"number"}, proposal: Nat, number: Nat]
    \cup [at: {"activate"}, version: Nat, checked: Verdicts \cup {"NONE"}]
    \cup [at: {"replace"}, version: Nat, active: Nat]
    \cup [at: {"switch"}, version: Nat, active: Nat, seen: ProposalStatuses]

Active == {v \in DOMAIN versions : versions[v].status = "ACTIVE"}

\* get_active_parameter_set finds a, and neither none nor several.
ActiveIs(a) == Active = {a}

\* bootstrap_parameter_set: the defaults are active as version 1.
Bootstrapped ==
    [status |-> "ACTIVE", base |-> 0, proposal |-> 0, verdict |-> "PASS", checked |-> "NONE",
     switched |-> "LOCKED"]

Init ==
    /\ versions = <<Bootstrapped>>
    /\ proposals = <<>>
    /\ ses = [s \in Sessions |-> Idle]

Goes(s, next) == ses' = [ses EXCEPT ![s] = next]

-----------------------------------------------------------------------------
(***************************************************************************)
(* Proposals.                                                              *)
(***************************************************************************)
\* Mutant: any version is a base.
ProposeOnAny(s) ==
    /\ ses[s].at = "idle"
    /\ \E topic \in Topics, base, target \in {0} \cup DOMAIN versions :
          /\ base \in DOMAIN versions
          /\ IF topic = Rollback THEN target \notin {0, base} ELSE target = 0
          /\ Goes(s, [at |-> "propose", topic |-> topic, base |-> base, target |-> target])
    /\ UNCHANGED <<versions, proposals>>

\* create_proposal_from_calibration, create_manual_proposal and create_rollback_proposal up
\* to their INSERT: an open proposal of the same topic on the same base is returned as it is.
ProposeRead(s) ==
    /\ ses[s].at = "idle"
    /\ \E topic \in Topics, base, target \in {0} \cup DOMAIN versions :
          /\ ActiveIs(base)
          /\ IF topic = Rollback THEN target \notin {0, base} ELSE target = 0
          /\ \A p \in DOMAIN proposals :
                ~(/\ proposals[p].topic = topic /\ proposals[p].base = base
                  /\ proposals[p].status \in OpenStatuses)
          /\ Goes(s, [at |-> "propose", topic |-> topic, base |-> base, target |-> target])
    /\ UNCHANGED <<versions, proposals>>

ProposeInsert(s) ==
    /\ ses[s].at = "propose"
    /\ Len(proposals) < MaxProposals
    /\ proposals' = Append(proposals,
          [status |-> "DRAFT", topic |-> ses[s].topic, base |-> ses[s].base,
           target |-> ses[s].target, version |-> 0])
    /\ Goes(s, Idle)
    /\ UNCHANGED versions

\* The row as the request has read it, and the test of its status.
ReviewRead(s) ==
    /\ ses[s].at = "idle"
    /\ \E p \in DOMAIN proposals, verb \in {"submit", "reject", "approve"} :
          /\ proposals[p].status = IF verb = "submit" THEN "DRAFT" ELSE "PENDING_REVIEW"
          /\ Goes(s, [at |-> verb, proposal |-> p, version |-> proposals[p].version])
    /\ UNCHANGED <<versions, proposals>>

\* submit_proposal and reject_proposal write whatever the row has become.
SubmitOrReject(s) ==
    /\ ses[s].at \in {"submit", "reject"}
    /\ proposals' = [proposals EXCEPT ![ses[s].proposal].status =
          IF ses[s].at = "submit" THEN "PENDING_REVIEW" ELSE "REJECTED"]
    /\ Goes(s, Idle)
    /\ UNCHANGED versions

\* approve_proposal: the base must still be the active version.  A proposal that has a
\* version gets no other one.
ApproveRead(s) ==
    /\ ses[s].at = "approve"
    /\ ActiveIs(proposals[ses[s].proposal].base)
    /\ ses[s].version = 0
    /\ Goes(s, [at |-> "based", proposal |-> ses[s].proposal])
    /\ UNCHANGED <<versions, proposals>>

\* _next_version_number, a read of its own.
ApproveNumber(s) ==
    /\ ses[s].at = "based"
    /\ Goes(s, [at |-> "number", proposal |-> ses[s].proposal, number |-> Len(versions) + 1])
    /\ UNCHANGED <<versions, proposals>>

\* Mutant: the status is left to the default of its column.
ApprovedDraft(p, verdict) ==
    [status |-> "DRAFT", base |-> proposals[p].base, proposal |-> p, verdict |-> verdict,
     checked |-> "NONE", switched |-> "NEVER"]

\* The version of a rollback has the snapshot of its target, another one that of its base
\* with one change, of which validation may say anything.
Approved(p, verdict) ==
    [status |-> "APPROVED", base |-> proposals[p].base, proposal |-> p, verdict |-> verdict,
     checked |-> "NONE", switched |-> "NEVER"]

\* The number must still be free (uq_parameter_set_versions_version).
ApproveInsert(s) ==
    /\ ses[s].at = "number"
    /\ ses[s].number = Len(versions) + 1 /\ Len(versions) < MaxVersions
    /\ \E verdict \in Verdicts :
          LET p == ses[s].proposal
          IN /\ proposals[p].topic = Rollback => verdict = versions[proposals[p].target].verdict
             /\ versions' = Append(versions, Approved(p, verdict))
             /\ proposals' = [proposals EXCEPT ![p].status = "APPROVED", ![p].version = ses[s].number]
    /\ Goes(s, Idle)

-----------------------------------------------------------------------------
(***************************************************************************)
(* Versions.                                                               *)
(***************************************************************************)
\* validate_parameter_set_version as a request of its own.
Validate ==
    /\ \E v \in DOMAIN versions : versions' = [versions EXCEPT ![v].checked = versions[v].verdict]
    /\ UNCHANGED <<proposals, ses>>

\* The request reads its version.
ActivateRead(s) ==
    /\ ses[s].at = "idle"
    /\ \E v \in DOMAIN versions :
          /\ versions[v].status = "APPROVED"
          /\ Goes(s, [at |-> "activate", version |-> v, checked |-> versions[v].checked])
    /\ UNCHANGED <<versions, proposals>>

\* Mutant: whatever is active is superseded in the end.
SwitchLast(v, a, seen, checked, how) ==
    /\ versions' = [w \in DOMAIN versions |->
          IF versions[w].status = "ACTIVE" \/ w = v
          THEN [versions[w] EXCEPT !.status = "SUPERSEDED"] ELSE versions[w]]
    /\ proposals' = IF seen = "ACTIVATED" THEN proposals
                    ELSE [proposals EXCEPT ![versions[v].proposal].status = "ACTIVATED"]

\* The active version a is superseded, v takes its place, and the proposal is told unless
\* the request has read that it knows.
Switch(v, a, seen, checked, how) ==
    /\ versions' = [versions EXCEPT ![a].status = "SUPERSEDED",
                                    ![v].status = "ACTIVE", ![v].checked = checked, ![v].switched = how]
    /\ proposals' = IF seen = "ACTIVATED" THEN proposals
                    ELSE [proposals EXCEPT ![versions[v].proposal].status = "ACTIVATED"]

\* Mutant: the validation that has run is not asked for its result.
ActivateUnvalidated(s) ==
    /\ ses[s].at = "activate" /\ ses[s].checked # "PASS"
    /\ LET v == ses[s].version
       IN /\ ActiveIs(versions[v].base)
          /\ Switch(v, versions[v].base, proposals[versions[v].proposal].status,
                    versions[v].verdict, "LOCKED")
    /\ Goes(s, Idle)

\* Mutant: the version replaces its base, whatever is active.
ActivateOverBase(s) ==
    /\ ses[s].at = "activate" /\ ses[s].checked # "PASS"
    /\ LET v == ses[s].version
       IN /\ versions[v].verdict # "BLOCKED"
          /\ Switch(v, versions[v].base, proposals[versions[v].proposal].status,
                    versions[v].verdict, "LOCKED")
    /\ Goes(s, Idle)

\* Without a PASS in the row it validates first, which takes the write lock; the rest, the
\* reads of the active version and of the proposal included, is one transaction.
ActivateLocked(s) ==
    /\ ses[s].at = "activate" /\ ses[s].checked # "PASS"
    /\ LET v == ses[s].version
       IN /\ versions[v].verdict # "BLOCKED"
          /\ ActiveIs(versions[v].base)
          /\ Switch(v, versions[v].base, proposals[versions[v].proposal].status,
                    versions[v].verdict, "LOCKED")
    /\ Goes(s, Idle)

\* Mutant: the proposal is told in a transaction of its own, before the switch.
ActivateCheckTells(s) ==
    /\ ses[s].at = "activate" /\ ses[s].checked = "PASS"
    /\ LET v == ses[s].version
       IN /\ ActiveIs(versions[v].base)
          /\ Goes(s, [at |-> "replace", version |-> v, active |-> versions[v].base])
          /\ proposals' = [proposals EXCEPT ![versions[v].proposal].status = "ACTIVATED"]
    /\ UNCHANGED versions

\* Otherwise the active version is read before anything is written.
ActivateCheck(s) ==
    /\ ses[s].at = "activate" /\ ses[s].checked = "PASS"
    /\ LET v == ses[s].version
       IN /\ ActiveIs(versions[v].base)
          /\ Goes(s, [at |-> "replace", version |-> v, active |-> versions[v].base])
    /\ UNCHANGED <<versions, proposals>>

\* And then the proposal.  (The one the router has read for its owner is not kept.)
ActivateProposal(s) ==
    /\ ses[s].at = "replace"
    /\ Goes(s, [at |-> "switch", version |-> ses[s].version, active |-> ses[s].active,
                seen |-> proposals[versions[ses[s].version].proposal].status])
    /\ UNCHANGED <<versions, proposals>>

ActivateSwitch(s) ==
    /\ ses[s].at = "switch"
    /\ Switch(ses[s].version, ses[s].active, ses[s].seen, versions[ses[s].version].checked, "EARLY")
    /\ Goes(s, Idle)

\* A request is refused, by any other condition or because what it has read does not fit,
\* or the process dies: nothing is written.
Refused(s) ==
    /\ ses[s].at # "idle"
    /\ Goes(s, Idle)
    /\ UNCHANGED <<versions, proposals>>

Next ==
    \/ \E s \in Sessions :
          \/ ProposeRead(s) \/ ProposeInsert(s)
          \/ ReviewRead(s) \/ SubmitOrReject(s)
          \/ ApproveRead(s) \/ ApproveNumber(s) \/ ApproveInsert(s)
          \/ ActivateRead(s) \/ ActivateLocked(s)
          \/ ActivateCheck(s) \/ ActivateProposal(s) \/ ActivateSwitch(s)
          \/ Refused(s)
    \/ Validate

Spec == Init /\ [][Next]_vars

-----------------------------------------------------------------------------
TypeOK ==
    /\ versions \in Seq(Version) /\ Len(versions) \in 1 .. MaxVersions
    /\ proposals \in Seq(Proposal) /\ Len(proposals) <= MaxProposals
    /\ ses \in [Sessions -> Session]

\* Two versions are active together only if one of them had been validated ahead of its
\* activation, which then read the active version without a lock.
OneActiveUnlessEarly ==
    \A v, w \in Active : v # w => "EARLY" \in {versions[v].switched, versions[w].switched}

\* However activations overlap, the program is never left without parameters: history
\* without an active version blocks every analysis and every later activation.
SomeActive == Active # {}

Served(v) == versions[v].status # "APPROVED"

\* What validation blocks never was production.
BlockedNeverServed == \A v \in DOMAIN versions : Served(v) => versions[v].verdict # "BLOCKED"

\* Every proposal and every version builds on an earlier version that has been production,
\* although the active one changes between the reads and the writes of a request.
BaseWasServed ==
    /\ \A p \in DOMAIN proposals : proposals[p].base \in DOMAIN versions /\ Served(proposals[p].base)
    /\ \A v \in DOMAIN versions \ {1} : versions[v].base \in 1 .. v - 1 /\ Served(versions[v].base)

\* A proposal that says ACTIVATED has a version that has been production.
ActivatedWasServed ==
    \A p \in DOMAIN proposals :
        proposals[p].status = "ACTIVATED" =>
            \E v \in DOMAIN versions : versions[v].proposal = p /\ Served(v)

\* "One ACTIVE version at a time".
OneActive == \A v, w \in Active : v = w
=============================================================================

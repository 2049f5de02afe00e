--------------------- MODULE ParameterGovernance_proofs ---------------------
(* The safety properties of ParameterGovernance, for any number of requests, *)
(* proposals and versions.                                                   *)
EXTENDS ParameterGovernance, TLAPS

-----------------------------------------------------------------------------
(* The inductive invariant.                                                  *)

\* Rows name rows that exist, and a validation is what the snapshot deserves.
RowInv ==
    /\ Served(1)
    /\ \A v \in DOMAIN versions \ {1} : versions[v].proposal \in DOMAIN proposals
    /\ \A v \in DOMAIN versions : versions[v].checked \in {"NONE", versions[v].verdict}

\* What a request has read is still true of what cannot change.
Sound(x) ==
    /\ x.at = "propose" => x.base \in DOMAIN versions /\ Served(x.base)
    /\ x.at \in {"submit", "reject", "approve", "based", "number"} => x.proposal \in DOMAIN proposals
    /\ x.at \in {"activate", "replace", "switch"} => x.version \in DOMAIN versions \ {1}
    /\ x.at = "activate" => x.checked \in {"NONE", versions[x.version].verdict}
    /\ x.at \in {"replace", "switch"} =>
          x.active = versions[x.version].base /\ versions[x.version].verdict = "PASS"

RequestInv == \A s \in Sessions : Sound(ses[s])

Safe ==
    /\ OneActiveUnlessEarly /\ SomeActive /\ BlockedNeverServed
    /\ BaseWasServed /\ ActivatedWasServed

IInv == TypeOK /\ RowInv /\ RequestInv /\ Safe

-----------------------------------------------------------------------------
(* Rows and sessions.                                                        *)

\* What a request holds at each step.
LEMMA SessionFields ==
    ASSUME NEW x \in Session
    PROVE  /\ x.at = "propose" => x.topic \in Topics /\ x.base \in Nat /\ x.target \in Nat
           /\ x.at \in {"submit", "reject", "approve"} => x.proposal \in Nat /\ x.version \in Nat
           /\ x.at = "based" => x.proposal \in Nat
           /\ x.at = "number" => x.proposal \in Nat /\ x.number \in Nat
           /\ x.at = "activate" => x.version \in Nat /\ x.checked \in Verdicts \cup {"NONE"}
           /\ x.at = "replace" => x.version \in Nat /\ x.active \in Nat
           /\ x.at = "switch" => x.version \in Nat /\ x.active \in Nat /\ x.seen \in ProposalStatuses
  BY DEF Session, Idle

\* What the requests make of a session.
LEMMA SessionRows ==
    /\ Idle \in Session /\ Idle.at = "idle"
    /\ \A t \in Topics, b, g \in Nat : [at |-> "propose", topic |-> t, base |-> b, target |-> g] \in Session
    /\ \A verb \in {"submit", "reject", "approve"}, p, v \in Nat :
          [at |-> verb, proposal |-> p, version |-> v] \in Session
    /\ \A p \in Nat : [at |-> "based", proposal |-> p] \in Session
    /\ \A p, n \in Nat : [at |-> "number", proposal |-> p, number |-> n] \in Session
    /\ \A v \in Nat, c \in Verdicts \cup {"NONE"} :
          [at |-> "activate", version |-> v, checked |-> c] \in Session
    /\ \A v, a \in Nat : [at |-> "replace", version |-> v, active |-> a] \in Session
    /\ \A v, a \in Nat, q \in ProposalStatuses :
          [at |-> "switch", version |-> v, active |-> a, seen |-> q] \in Session
  BY DEF Session, Idle

\* The fields of the rows, and how many there are.
LEMMA RowFields ==
    ASSUME TypeOK
    PROVE  /\ Len(versions) \in Nat /\ DOMAIN versions = 1 .. Len(versions) /\ 1 \in DOMAIN versions
           /\ Len(proposals) \in Nat /\ DOMAIN proposals = 1 .. Len(proposals)
           /\ \A v \in DOMAIN versions : versions[v] \in Version
           /\ \A p \in DOMAIN proposals : proposals[p] \in Proposal
  BY GovernanceAssumption DEF TypeOK

\* A sequence whose elements are changed in place.
LEMMA InPlace ==
    ASSUME NEW S, NEW n \in Nat, NEW f, f = [i \in 1 .. n |-> f[i]], \A i \in 1 .. n : f[i] \in S
    PROVE  f \in Seq(S) /\ Len(f) = n
<1>1. f \in [1 .. n -> S]
  OBVIOUS
<1> QED
  BY <1>1

\* The bounds of the ids that are in use.
LEMMA IdsAreNumbers ==
    ASSUME TypeOK
    PROVE  DOMAIN versions \subseteq Nat /\ DOMAIN proposals \subseteq Nat
  BY RowFields

-----------------------------------------------------------------------------
(* Requests that only read.                                                  *)

\* A request goes on with something sound, and no row changes.
LEMMA ReadsOnly ==
    ASSUME IInv, NEW s \in Sessions, NEW next \in Session, Sound(next), Goes(s, next),
           UNCHANGED <<versions, proposals>>
    PROVE  IInv'
<1>1. ses' \in [Sessions -> Session]
  BY DEF IInv, TypeOK, Goes
<1>2. TypeOK'
  BY <1>1 DEF IInv, TypeOK
<1>3. \A r \in Sessions : Sound(ses'[r])
  BY DEF IInv, TypeOK, RequestInv, Goes
<1>4. RequestInv'
  BY <1>3 DEF RequestInv, Sound, Served
<1>5. RowInv' /\ Safe'
  BY DEF IInv, RowInv, Safe, OneActiveUnlessEarly, SomeActive, BlockedNeverServed, BaseWasServed,
         ActivatedWasServed, Active, Served
<1> QED
  BY <1>2, <1>4, <1>5 DEF IInv

\* A request that gives up.
LEMMA RefusedInv ==
    ASSUME IInv, NEW s \in Sessions, Refused(s)
    PROVE  IInv'
  BY ReadsOnly, SessionRows DEF Refused, Sound

\* A proposal is made on the active version.
LEMMA ProposeReadInv ==
    ASSUME IInv, NEW s \in Sessions, ProposeRead(s)
    PROVE  IInv'
<1>1. PICK topic \in Topics, base \in {0} \cup DOMAIN versions, target \in {0} \cup DOMAIN versions :
          /\ ActiveIs(base)
          /\ Goes(s, [at |-> "propose", topic |-> topic, base |-> base, target |-> target])
  BY DEF ProposeRead
<1> DEFINE next == [at |-> "propose", topic |-> topic, base |-> base, target |-> target]
<1>2. base \in DOMAIN versions /\ Served(base)
  BY <1>1 DEF ActiveIs, Active, Served
<1>3. next \in Session
  BY <1>1, SessionRows, IdsAreNumbers DEF IInv
<1>4. Sound(next)
  BY <1>2 DEF Sound
<1> QED
  BY <1>1, <1>3, <1>4, ReadsOnly DEF ProposeRead

\* A review reads its proposal.
LEMMA ReviewReadInv ==
    ASSUME IInv, NEW s \in Sessions, ReviewRead(s)
    PROVE  IInv'
<1>1. PICK p \in DOMAIN proposals, verb \in {"submit", "reject", "approve"} :
          Goes(s, [at |-> verb, proposal |-> p, version |-> proposals[p].version])
  BY DEF ReviewRead
<1> DEFINE next == [at |-> verb, proposal |-> p, version |-> proposals[p].version]
<1>2. proposals[p].version \in Nat
  BY RowFields DEF IInv, Proposal
<1>3. next \in Session
  BY <1>2, SessionRows, IdsAreNumbers DEF IInv
<1>4. Sound(next)
  BY DEF Sound
<1> QED
  BY <1>1, <1>3, <1>4, ReadsOnly DEF ReviewRead

\* An approval finds its base active.
LEMMA ApproveReadInv ==
    ASSUME IInv, NEW s \in Sessions, ApproveRead(s)
    PROVE  IInv'
<1> DEFINE next == [at |-> "based", proposal |-> ses[s].proposal]
<1>1. ses[s].proposal \in DOMAIN proposals
  BY DEF IInv, RequestInv, Sound, ApproveRead
<1>2. next \in Session
  BY <1>1, SessionRows, IdsAreNumbers DEF IInv
<1>3. Sound(next)
  BY <1>1 DEF Sound
<1> QED
  BY <1>2, <1>3, ReadsOnly DEF ApproveRead

\* And takes a number.
LEMMA ApproveNumberInv ==
    ASSUME IInv, NEW s \in Sessions, ApproveNumber(s)
    PROVE  IInv'
<1> DEFINE next == [at |-> "number", proposal |-> ses[s].proposal, number |-> Len(versions) + 1]
<1>1. ses[s].proposal \in DOMAIN proposals
  BY DEF IInv, RequestInv, Sound, ApproveNumber
<1>2. next \in Session
  BY <1>1, SessionRows, IdsAreNumbers, RowFields DEF IInv
<1>3. Sound(next)
  BY <1>1 DEF Sound
<1> QED
  BY <1>2, <1>3, ReadsOnly DEF ApproveNumber

\* An activation reads its version, which is not the one of the bootstrap.
LEMMA ActivateReadInv ==
    ASSUME IInv, NEW s \in Sessions, ActivateRead(s)
    PROVE  IInv'
<1>1. PICK v \in DOMAIN versions :
          /\ versions[v].status = "APPROVED"
          /\ Goes(s, [at |-> "activate", version |-> v, checked |-> versions[v].checked])
  BY DEF ActivateRead
<1> DEFINE next == [at |-> "activate", version |-> v, checked |-> versions[v].checked]
<1>2. v # 1
  BY <1>1 DEF IInv, RowInv, Served
<1>3. versions[v].checked \in {"NONE", versions[v].verdict}
  BY DEF IInv, RowInv
<1>4. versions[v].checked \in Verdicts \cup {"NONE"}
  BY RowFields DEF IInv, Version
<1>5. next \in Session
  BY <1>4, SessionRows, IdsAreNumbers DEF IInv
<1>6. Sound(next)
  BY <1>2, <1>3 DEF Sound
<1> QED
  BY <1>1, <1>5, <1>6, ReadsOnly DEF ActivateRead

\* An activation reads the active version, which is the base of its own.
LEMMA ActivateCheckInv ==
    ASSUME IInv, NEW s \in Sessions, ActivateCheck(s)
    PROVE  IInv'
<1> DEFINE v == ses[s].version
<1> DEFINE next == [at |-> "replace", version |-> v, active |-> versions[v].base]
<1>1. v \in DOMAIN versions \ {1} /\ "PASS" \in {"NONE", versions[v].verdict}
  BY DEF IInv, RequestInv, Sound, ActivateCheck
<1>2. v \in Nat /\ versions[v].base \in Nat
  BY <1>1, RowFields DEF IInv, Version
<1>3. next \in Session
  BY <1>2, SessionRows
<1>4. Sound(next)
  BY <1>1 DEF Sound
<1>5. Goes(s, next) /\ UNCHANGED <<versions, proposals>>
  BY DEF ActivateCheck
<1> QED
  BY <1>3, <1>4, <1>5, ReadsOnly

\* And then the proposal of its version.
LEMMA ActivateProposalInv ==
    ASSUME IInv, NEW s \in Sessions, ActivateProposal(s)
    PROVE  IInv'
<1> DEFINE v == ses[s].version
<1> DEFINE seen == proposals[versions[v].proposal].status
<1> DEFINE next == [at |-> "switch", version |-> v, active |-> ses[s].active, seen |-> seen]
<1>1. /\ v \in DOMAIN versions \ {1}
      /\ ses[s].active = versions[v].base /\ versions[v].verdict = "PASS"
  BY DEF IInv, RequestInv, Sound, ActivateProposal
<1>2. seen \in ProposalStatuses
  BY <1>1, RowFields DEF IInv, RowInv, Proposal
<1>3. v \in Nat /\ ses[s].active \in Nat
  BY <1>1, RowFields DEF IInv, Version
<1> HIDE DEF seen
<1>4. next \in Session
  BY <1>2, <1>3, SessionRows
<1>5. Sound(next)
  BY <1>1 DEF Sound
<1>6. Goes(s, next) /\ UNCHANGED <<versions, proposals>>
  BY DEF ActivateProposal, seen
<1> QED
  BY <1>4, <1>5, <1>6, ReadsOnly

-----------------------------------------------------------------------------
(* Requests that write proposals.                                            *)

\* The rows stay, but for the status and the version of proposals; no proposal becomes
\* ACTIVATED.
ProposalsGo ==
    /\ UNCHANGED versions
    /\ DOMAIN proposals \subseteq DOMAIN proposals'
    /\ \A p \in DOMAIN proposals :
          /\ proposals'[p].base = proposals[p].base
          /\ proposals'[p].status = "ACTIVATED" => proposals[p].status = "ACTIVATED"
    /\ \A p \in DOMAIN proposals' \ DOMAIN proposals :
          /\ proposals'[p].base \in DOMAIN versions /\ Served(proposals'[p].base)
          /\ proposals'[p].status # "ACTIVATED"

\* Such a step of a request that ends keeps what the invariant says.
LEMMA ProposalsGoInv ==
    ASSUME IInv, ProposalsGo, TypeOK', NEW s \in Sessions, Goes(s, Idle)
    PROVE  IInv'
<1>1. RowInv'
  BY DEF IInv, RowInv, ProposalsGo, Served
<1>2. RequestInv'
  <2> SUFFICES ASSUME NEW r \in Sessions PROVE Sound(ses[r])'
    BY DEF RequestInv
  <2>1. ses'[r] = ses[r] \/ ses'[r].at = "idle"
    BY SessionRows DEF IInv, TypeOK, Goes
  <2>2. Sound(ses[r])
    BY DEF IInv, RequestInv
  <2> QED
    BY <2>1, <2>2 DEF Sound, Served, ProposalsGo
<1>3. OneActiveUnlessEarly' /\ SomeActive' /\ BlockedNeverServed'
  BY DEF IInv, Safe, OneActiveUnlessEarly, SomeActive, BlockedNeverServed, Active, Served, ProposalsGo
<1>4. BaseWasServed'
  BY DEF IInv, Safe, BaseWasServed, Served, ProposalsGo
<1>5. ActivatedWasServed'
  BY DEF IInv, Safe, ActivatedWasServed, Served, ProposalsGo
<1> QED
  BY <1>1, <1>2, <1>3, <1>4, <1>5 DEF IInv, Safe

\* A new proposal is a draft.
LEMMA ProposeInsertInv ==
    ASSUME IInv, NEW s \in Sessions, ProposeInsert(s)
    PROVE  IInv'
<1> DEFINE row == [status |-> "DRAFT", topic |-> ses[s].topic, base |-> ses[s].base,
                   target |-> ses[s].target, version |-> 0]
<1>1. ses[s].base \in DOMAIN versions /\ Served(ses[s].base)
  BY DEF IInv, RequestInv, Sound, ProposeInsert
<1>2. row \in Proposal
  BY SessionFields DEF IInv, TypeOK, ProposeInsert, Proposal, ProposalStatuses, OpenStatuses
<1>3. proposals' = Append(proposals, row) /\ Len(proposals) < MaxProposals /\ UNCHANGED versions
  BY DEF ProposeInsert
<1>4. proposals' \in Seq(Proposal) /\ Len(proposals') = Len(proposals) + 1 /\ Len(proposals') <= MaxProposals
  BY <1>2, <1>3, GovernanceAssumption DEF IInv, TypeOK
<1>5. \A p \in DOMAIN proposals : p \in DOMAIN proposals' /\ proposals'[p] = proposals[p]
  BY <1>2, <1>3 DEF IInv, TypeOK
<1>6. \A p \in DOMAIN proposals' \ DOMAIN proposals : proposals'[p] = row
  BY <1>2, <1>3 DEF IInv, TypeOK
<1>7. ProposalsGo
  BY <1>1, <1>3, <1>5, <1>6 DEF ProposalsGo
<1>8. TypeOK'
  BY <1>3, <1>4, SessionRows DEF IInv, TypeOK, ProposeInsert, Goes
<1> QED
  BY <1>7, <1>8, ProposalsGoInv DEF ProposeInsert

\* A submission or a rejection.
LEMMA SubmitOrRejectInv ==
    ASSUME IInv, NEW s \in Sessions, SubmitOrReject(s)
    PROVE  IInv'
<1>1. PICK status \in {"PENDING_REVIEW", "REJECTED"} :
          proposals' = [proposals EXCEPT ![ses[s].proposal].status = status]
  BY DEF SubmitOrReject
<1>2. DOMAIN proposals' = DOMAIN proposals
  BY <1>1
<1>3. \A p \in DOMAIN proposals : proposals'[p] \in Proposal /\ proposals'[p].base = proposals[p].base
                                  /\ (proposals'[p].status = "ACTIVATED" => proposals[p].status = "ACTIVATED")
  BY <1>1, RowFields DEF IInv, Proposal, ProposalStatuses, OpenStatuses
<1>4. proposals' \in Seq(Proposal) /\ Len(proposals') = Len(proposals)
  <2>1. proposals' = [p \in 1 .. Len(proposals) |-> proposals'[p]]
    BY <1>1, RowFields DEF IInv
  <2> QED
    BY <2>1, <1>2, <1>3, RowFields, InPlace DEF IInv
<1>5. ProposalsGo
  BY <1>2, <1>3 DEF ProposalsGo, SubmitOrReject
<1>6. TypeOK'
  BY <1>4, SessionRows DEF IInv, TypeOK, SubmitOrReject, Goes
<1> QED
  BY <1>5, <1>6, ProposalsGoInv DEF SubmitOrReject

-----------------------------------------------------------------------------
(* Requests that write versions.                                             *)

\* What no step takes back: rows keep what they were made of, and what was served stays
\* served.
Grows ==
    /\ DOMAIN versions \subseteq DOMAIN versions' /\ DOMAIN proposals \subseteq DOMAIN proposals'
    /\ \A v \in DOMAIN versions :
          /\ versions'[v].base = versions[v].base /\ versions'[v].proposal = versions[v].proposal
          /\ versions'[v].verdict = versions[v].verdict
          /\ Served(v) => Served(v)'
    /\ \A p \in DOMAIN proposals : proposals'[p].base = proposals[p].base

\* Then what requests have read stays sound.
LEMMA SoundStays ==
    ASSUME IInv, Grows, NEW s \in Sessions, ses' = ses \/ Goes(s, Idle)
    PROVE  RequestInv'
<1> SUFFICES ASSUME NEW r \in Sessions PROVE Sound(ses[r])'
  BY DEF RequestInv
<1>1. ses'[r] = ses[r] \/ ses'[r].at = "idle"
  BY SessionRows DEF IInv, TypeOK, Goes
<1>2. Sound(ses[r])
  BY DEF IInv, RequestInv
<1> QED
  BY <1>1, <1>2 DEF Sound, Grows

\* And what is served before has its base served before.
LEMMA BasesStay ==
    ASSUME IInv, Grows, DOMAIN versions' = DOMAIN versions, DOMAIN proposals' = DOMAIN proposals
    PROVE  BaseWasServed'
<1>1. \A p \in DOMAIN proposals' : proposals'[p].base \in DOMAIN versions' /\ versions'[proposals'[p].base].status # "APPROVED"
  BY DEF IInv, Safe, BaseWasServed, Grows, Served
<1>2. \A v \in DOMAIN versions' \ {1} :
          versions'[v].base = versions[v].base /\ versions'[v].base \in 1 .. v - 1
  BY DEF IInv, Safe, BaseWasServed, Grows
<1>3. \A v \in DOMAIN versions' \ {1} : versions'[versions'[v].base].status # "APPROVED"
  <2> SUFFICES ASSUME NEW v \in DOMAIN versions \ {1} PROVE versions'[versions[v].base].status # "APPROVED"
    BY <1>2
  <2>1. versions[v].base \in 1 .. v - 1 /\ Served(versions[v].base)
    BY DEF IInv, Safe, BaseWasServed
  <2>2. versions[v].base \in DOMAIN versions
    BY <2>1, RowFields DEF IInv
  <2> QED
    BY <2>1, <2>2 DEF Grows, Served
<1> QED
  BY <1>1, <1>2, <1>3 DEF BaseWasServed, Served

\* Validation writes what it finds.
LEMMA ValidateInv ==
    ASSUME IInv, Validate
    PROVE  IInv'
<1>1. PICK v \in DOMAIN versions : versions' = [versions EXCEPT ![v].checked = versions[v].verdict]
  BY DEF Validate
<1>2. DOMAIN versions' = DOMAIN versions
  BY <1>1
<1>3. \A w \in DOMAIN versions :
          /\ versions'[w] \in Version
          /\ versions'[w].status = versions[w].status /\ versions'[w].switched = versions[w].switched
          /\ versions'[w].base = versions[w].base /\ versions'[w].proposal = versions[w].proposal
          /\ versions'[w].verdict = versions[w].verdict
          /\ versions'[w].checked \in {versions[w].checked, versions[w].verdict}
  BY <1>1, RowFields DEF IInv, Version
<1>4. versions' \in Seq(Version) /\ Len(versions') = Len(versions)
  <2>1. versions' = [w \in 1 .. Len(versions) |-> versions'[w]]
    BY <1>1, RowFields DEF IInv
  <2> QED
    BY <2>1, <1>3, RowFields, InPlace DEF IInv
<1>5. UNCHANGED <<proposals, ses>>
  BY DEF Validate
<1>6. TypeOK'
  BY <1>4, <1>5 DEF IInv, TypeOK
<1>7. RowInv'
  BY <1>2, <1>3, <1>5, RowFields DEF IInv, RowInv, Served
<1>8. Grows
  BY <1>2, <1>3, <1>5 DEF Grows, Served
<1>9. RequestInv'
  <2> SUFFICES ASSUME NEW r \in Sessions PROVE Sound(ses[r])'
    BY DEF RequestInv
  <2> QED
    BY <1>5, <1>8 DEF IInv, RequestInv, Sound, Grows
<1>10. Active' = Active
  BY <1>2, <1>3 DEF Active
<1>11. OneActiveUnlessEarly' /\ SomeActive'
  BY <1>3, <1>10 DEF IInv, Safe, OneActiveUnlessEarly, SomeActive, Active
<1>12. BlockedNeverServed' /\ ActivatedWasServed'
  BY <1>2, <1>3, <1>5 DEF IInv, Safe, BlockedNeverServed, ActivatedWasServed, Served
<1>13. BaseWasServed'
  BY <1>2, <1>5, <1>8, BasesStay
<1> QED
  BY <1>6, <1>7, <1>9, <1>11, <1>12, <1>13 DEF IInv, Safe

\* An approval appends a version on a base that was served.
LEMMA ApproveInsertInv ==
    ASSUME IInv, NEW s \in Sessions, ApproveInsert(s)
    PROVE  IInv'
<1> DEFINE p == ses[s].proposal
<1> DEFINE n == Len(versions) + 1
<1>1. PICK verdict \in Verdicts : versions' = Append(versions, Approved(p, verdict))
  BY DEF ApproveInsert
<1> DEFINE row == Approved(p, verdict)
<1>2. /\ ses[s].number = n /\ Len(versions) < MaxVersions /\ Goes(s, Idle)
      /\ proposals' = [proposals EXCEPT ![p].status = "APPROVED", ![p].version = n]
  BY DEF ApproveInsert
<1>3. p \in DOMAIN proposals /\ p \in Nat /\ proposals[p].base \in DOMAIN versions /\ Served(proposals[p].base)
  BY RowFields DEF IInv, RequestInv, Sound, Safe, BaseWasServed, ApproveInsert
<1>4. row \in Version /\ row.status = "APPROVED" /\ row.base = proposals[p].base /\ row.proposal = p
      /\ row.checked = "NONE"
  BY <1>3, RowFields DEF IInv, Approved, Version, Proposal
<1> HIDE DEF row
<1>5. versions' = Append(versions, row)
  BY <1>1 DEF row
<1>6. /\ versions' \in Seq(Version) /\ Len(versions') = n
      /\ \A v \in DOMAIN versions : v \in DOMAIN versions' /\ versions'[v] = versions[v]
      /\ DOMAIN versions' = DOMAIN versions \cup {n} /\ n \notin DOMAIN versions /\ versions'[n] = row
  BY <1>4, <1>5, RowFields DEF IInv, TypeOK
<1>7. /\ DOMAIN proposals' = DOMAIN proposals
      /\ \A q \in DOMAIN proposals :
            /\ proposals'[q] \in Proposal /\ proposals'[q].base = proposals[q].base
            /\ proposals'[q].status = "ACTIVATED" => proposals[q].status = "ACTIVATED"
  BY <1>2, RowFields DEF IInv, Proposal, ProposalStatuses, OpenStatuses
<1>8. proposals' \in Seq(Proposal) /\ Len(proposals') = Len(proposals)
  <2>1. proposals' = [q \in 1 .. Len(proposals) |-> proposals'[q]]
    BY <1>2, RowFields DEF IInv
  <2> QED
    BY <2>1, <1>7, RowFields, InPlace DEF IInv
<1>9. TypeOK'
  <2>1. ses' \in [Sessions -> Session]
    BY <1>2, SessionRows DEF IInv, TypeOK, Goes
  <2> QED
    BY <2>1, <1>2, <1>6, <1>8, RowFields, GovernanceAssumption DEF IInv, TypeOK
<1>10. n # 1 /\ n \in Nat
  BY RowFields DEF IInv
<1>11. RowInv'
  BY <1>3, <1>4, <1>6, <1>7, <1>10, RowFields DEF IInv, RowInv, Served
<1>12. Grows
  BY <1>6, <1>7 DEF Grows, Served
<1>13. RequestInv'
  BY <1>2, <1>12, SoundStays
<1>14. Active' = Active
  BY <1>4, <1>6 DEF Active
<1>15. OneActiveUnlessEarly' /\ SomeActive'
  BY <1>6, <1>14 DEF IInv, Safe, OneActiveUnlessEarly, SomeActive, Active
<1>16. BlockedNeverServed' /\ ActivatedWasServed'
  BY <1>4, <1>6, <1>7 DEF IInv, Safe, BlockedNeverServed, ActivatedWasServed, Served
<1>17. BaseWasServed'
  <2>1. \A q \in DOMAIN proposals' : proposals'[q].base \in DOMAIN versions' /\ versions'[proposals'[q].base].status # "APPROVED"
    BY <1>6, <1>7, <1>12 DEF IInv, Safe, BaseWasServed, Grows, Served
  <2>2. \A v \in DOMAIN versions \ {1} : versions'[v].base \in 1 .. v - 1 /\ versions'[versions'[v].base].status # "APPROVED"
    <3> SUFFICES ASSUME NEW v \in DOMAIN versions \ {1}
                 PROVE  versions[v].base \in 1 .. v - 1 /\ versions'[versions[v].base].status # "APPROVED"
      BY <1>6
    <3>1. versions[v].base \in 1 .. v - 1 /\ Served(versions[v].base)
      BY DEF IInv, Safe, BaseWasServed
    <3>2. versions[v].base \in DOMAIN versions
      BY <3>1, RowFields DEF IInv
    <3> QED
      BY <3>1, <3>2, <1>12 DEF Grows, Served
  <2>3. versions'[n].base \in 1 .. n - 1 /\ versions'[versions'[n].base].status # "APPROVED"
    BY <1>3, <1>4, <1>6, <1>12, RowFields DEF IInv, Grows, Served
  <2> QED
    BY <2>1, <2>2, <2>3, <1>6 DEF BaseWasServed, Served
<1> QED
  BY <1>9, <1>11, <1>13, <1>15, <1>16, <1>17 DEF IInv, Safe

\* A switch of a version to the place of its base, under the lock when that is the
\* active version.
LEMMA SwitchInv ==
    ASSUME IInv, NEW s \in Sessions, Goes(s, Idle), NEW v \in DOMAIN versions \ {1},
           NEW seen \in ProposalStatuses, NEW checked \in {versions[v].checked, versions[v].verdict},
           NEW how \in {"LOCKED", "EARLY"}, versions[v].verdict # "BLOCKED",
           how = "LOCKED" => ActiveIs(versions[v].base),
           Switch(v, versions[v].base, seen, checked, how)
    PROVE  IInv'
<1> DEFINE a == versions[v].base
<1>1. a \in DOMAIN versions /\ a # v /\ Served(a)
  BY RowFields DEF IInv, Safe, BaseWasServed
<1>2. versions' = [versions EXCEPT ![a].status = "SUPERSEDED",
                                   ![v].status = "ACTIVE", ![v].checked = checked, ![v].switched = how]
  BY DEF Switch
<1>3. DOMAIN versions' = DOMAIN versions
  BY <1>2
<1>5. versions'[a].status = "SUPERSEDED" /\ versions'[v].status = "ACTIVE" /\ versions'[v].switched = how
  BY <1>1, <1>2, RowFields DEF IInv, Version
<1>4. \A w \in DOMAIN versions :
          /\ versions'[w] \in Version
          /\ versions'[w].base = versions[w].base /\ versions'[w].proposal = versions[w].proposal
          /\ versions'[w].verdict = versions[w].verdict
          /\ versions'[w].checked \in {versions[w].checked, versions[w].verdict}
          /\ versions[w].status # "APPROVED" => versions'[w].status # "APPROVED"
          /\ w \notin {a, v} => versions'[w] = versions[w]
  <2> SUFFICES ASSUME NEW w \in DOMAIN versions
               PROVE  /\ versions'[w] \in Version
                      /\ versions'[w].base = versions[w].base /\ versions'[w].proposal = versions[w].proposal
                      /\ versions'[w].verdict = versions[w].verdict
                      /\ versions'[w].checked \in {versions[w].checked, versions[w].verdict}
                      /\ versions[w].status # "APPROVED" => versions'[w].status # "APPROVED"
                      /\ w \notin {a, v} => versions'[w] = versions[w]
    OBVIOUS
  <2>0. versions[w] \in Version /\ checked \in Verdicts \cup {"NONE"}
    BY RowFields DEF IInv, Version
  <2>1. CASE w = v
    <3>1. versions'[v] = [versions[v] EXCEPT !.status = "ACTIVE", !.checked = checked, !.switched = how]
      BY <1>1, <1>2
    <3> QED
      BY <2>0, <2>1, <3>1 DEF Version
  <2>2. CASE w = a
    <3>1. versions'[a] = [versions[a] EXCEPT !.status = "SUPERSEDED"]
      BY <1>1, <1>2
    <3>2. versions[a] \in Version
      BY <2>0, <2>2
    <3> HIDE DEF a
    <3> QED
      BY <2>2, <3>1, <3>2 DEF Version
  <2>3. CASE w \notin {a, v}
    BY <1>2, <2>0, <2>3
  <2> QED
    BY <2>1, <2>2, <2>3
<1> HIDE DEF a
<1>6. versions' \in Seq(Version) /\ Len(versions') = Len(versions)
  <2>1. versions' = [w \in 1 .. Len(versions) |-> versions'[w]]
    BY <1>2, RowFields DEF IInv
  <2> QED
    BY <2>1, <1>4, RowFields, InPlace DEF IInv
<1>7. /\ DOMAIN proposals' = DOMAIN proposals
      /\ \A q \in DOMAIN proposals :
            /\ proposals'[q] \in Proposal /\ proposals'[q].base = proposals[q].base
            /\ q # versions[v].proposal => proposals'[q] = proposals[q]
  BY RowFields DEF IInv, Switch, Proposal, ProposalStatuses
<1>8. proposals' \in Seq(Proposal) /\ Len(proposals') = Len(proposals)
  <2>1. proposals' = [q \in 1 .. Len(proposals) |-> proposals'[q]]
    <3>1. \/ proposals' = proposals
          \/ proposals' = [proposals EXCEPT ![versions[v].proposal].status = "ACTIVATED"]
      BY DEF Switch
    <3>2. proposals = [q \in 1 .. Len(proposals) |-> proposals[q]]
      BY RowFields DEF IInv, TypeOK
    <3> QED
      BY <3>1, <3>2
  <2> QED
    BY <2>1, <1>7, RowFields, InPlace DEF IInv
<1>9. TypeOK'
  <2>1. ses' \in [Sessions -> Session]
    BY SessionRows DEF IInv, TypeOK, Goes
  <2> QED
    BY <2>1, <1>6, <1>8 DEF IInv, TypeOK
<1>10. RowInv'
  BY <1>3, <1>4, <1>7, RowFields DEF IInv, RowInv, Served
<1>11. Grows
  BY <1>3, <1>4, <1>7 DEF Grows, Served
<1>12. RequestInv'
  BY <1>11, SoundStays
<1>13. SomeActive'
  BY <1>3, <1>5 DEF SomeActive, Active
<1>14. OneActiveUnlessEarly'
  <2>1. CASE how = "EARLY"
    <3> SUFFICES ASSUME NEW w \in Active', NEW x \in Active', w # x
                 PROVE  "EARLY" \in {versions'[w].switched, versions'[x].switched}
      BY DEF OneActiveUnlessEarly
    <3>1. CASE v \in {w, x}
      BY <2>1, <3>1, <1>5
    <3>2. CASE v \notin {w, x}
      <4>1. w \notin {a, v} /\ x \notin {a, v} /\ w \in DOMAIN versions /\ x \in DOMAIN versions
        BY <3>2, <1>3, <1>5 DEF Active
      <4>2. w \in Active /\ x \in Active
        BY <4>1, <1>4 DEF Active
      <4> QED
        BY <4>1, <4>2, <1>4 DEF IInv, Safe, OneActiveUnlessEarly
    <3> QED
      BY <3>1, <3>2
  <2>2. CASE how = "LOCKED"
    <3>1. \A w \in Active' : w = v
      BY <2>2, <1>3, <1>4, <1>5 DEF ActiveIs, Active, a
    <3> QED
      BY <3>1 DEF OneActiveUnlessEarly
  <2> QED
    BY <2>1, <2>2
<1>15. BlockedNeverServed'
  <2>1. \A w \in DOMAIN versions : w \notin {a, v} => (Served(w)' <=> Served(w))
    BY <1>4 DEF Served
  <2> QED
    BY <2>1, <1>1, <1>3, <1>4 DEF IInv, Safe, BlockedNeverServed
<1>16. ActivatedWasServed'
  <2> SUFFICES ASSUME NEW q \in DOMAIN proposals, proposals'[q].status = "ACTIVATED"
               PROVE  \E w \in DOMAIN versions : versions[w].proposal = q /\ Served(w)'
    BY <1>3, <1>4, <1>7 DEF ActivatedWasServed, Served
  <2>1. CASE q = versions[v].proposal
    BY <2>1, <1>5 DEF Served
  <2>2. CASE q # versions[v].proposal
    BY <2>2, <1>7, <1>11 DEF IInv, Safe, ActivatedWasServed, Grows
  <2> QED
    BY <2>1, <2>2
<1>17. BaseWasServed'
  BY <1>3, <1>7, <1>11, BasesStay
<1> QED
  BY <1>9, <1>10, <1>12, <1>13, <1>14, <1>15, <1>16, <1>17 DEF IInv, Safe

\* An activation that validates first.
LEMMA ActivateLockedInv ==
    ASSUME IInv, NEW s \in Sessions, ActivateLocked(s)
    PROVE  IInv'
<1> DEFINE v == ses[s].version
<1>1. v \in DOMAIN versions \ {1}
  BY DEF IInv, RequestInv, Sound, ActivateLocked
<1> DEFINE seen == proposals[versions[v].proposal].status
<1>2. seen \in ProposalStatuses
  BY <1>1, RowFields DEF IInv, RowInv, Proposal
<1>3. /\ versions[v].verdict # "BLOCKED" /\ ActiveIs(versions[v].base) /\ Goes(s, Idle)
      /\ Switch(v, versions[v].base, seen, versions[v].verdict, "LOCKED")
  BY DEF ActivateLocked
<1> QED
  BY <1>1, <1>2, <1>3, SwitchInv

\* An activation that has read the active version before.
LEMMA ActivateSwitchInv ==
    ASSUME IInv, NEW s \in Sessions, ActivateSwitch(s)
    PROVE  IInv'
<1> DEFINE v == ses[s].version
<1>1. v \in DOMAIN versions \ {1} /\ ses[s].active = versions[v].base /\ versions[v].verdict = "PASS"
  BY DEF IInv, RequestInv, Sound, ActivateSwitch
<1>2. ses[s].seen \in ProposalStatuses
  BY SessionFields DEF IInv, TypeOK, ActivateSwitch
<1>3. Goes(s, Idle) /\ Switch(v, versions[v].base, ses[s].seen, versions[v].checked, "EARLY")
  BY <1>1 DEF ActivateSwitch
<1> QED
  BY <1>1, <1>2, <1>3, SwitchInv

-----------------------------------------------------------------------------
(* The theorems.                                                             *)

\* The bootstrapped database satisfies the invariant.
LEMMA InitInv == Init => IInv
<1> SUFFICES ASSUME Init PROVE IInv
  OBVIOUS
<1>1. Bootstrapped \in Version /\ versions = <<Bootstrapped>> /\ proposals = <<>>
  BY DEF Init, Bootstrapped, Version, Verdicts
<1>2. versions \in Seq(Version) /\ Len(versions) = 1 /\ DOMAIN versions = {1} /\ versions[1] = Bootstrapped
  BY <1>1
<1>3. proposals \in Seq(Proposal) /\ Len(proposals) = 0 /\ DOMAIN proposals = {}
  BY <1>1
<1>4. ses \in [Sessions -> Session] /\ \A s \in Sessions : ses[s].at = "idle"
  BY SessionRows DEF Init
<1>5. TypeOK
  BY <1>2, <1>3, <1>4, GovernanceAssumption DEF TypeOK
<1>6. versions[1].status = "ACTIVE" /\ versions[1].checked = "NONE" /\ versions[1].verdict = "PASS"
  BY <1>2 DEF Bootstrapped
<1>7. RowInv
  BY <1>2, <1>6 DEF RowInv, Served
<1>8. RequestInv
  BY <1>4 DEF RequestInv, Sound
<1>9. Safe
  BY <1>2, <1>3, <1>6 DEF Safe, OneActiveUnlessEarly, SomeActive, BlockedNeverServed, BaseWasServed,
     ActivatedWasServed, Active, Served
<1> QED
  BY <1>5, <1>7, <1>8, <1>9 DEF IInv

\* Every step keeps it.
LEMMA StepInv == IInv /\ [Next]_vars => IInv'
<1> SUFFICES ASSUME IInv, [Next]_vars PROVE IInv'
  OBVIOUS
<1>1. ASSUME NEW s \in Sessions,
             \/ ProposeRead(s) \/ ProposeInsert(s)
             \/ ReviewRead(s) \/ SubmitOrReject(s)
             \/ ApproveRead(s) \/ ApproveNumber(s) \/ ApproveInsert(s)
             \/ ActivateRead(s) \/ ActivateLocked(s)
             \/ ActivateCheck(s) \/ ActivateProposal(s) \/ ActivateSwitch(s)
             \/ Refused(s)
      PROVE  IInv'
  BY <1>1, ProposeReadInv, ProposeInsertInv, ReviewReadInv, SubmitOrRejectInv, ApproveReadInv,
     ApproveNumberInv, ApproveInsertInv, ActivateReadInv, ActivateLockedInv, ActivateCheckInv,
     ActivateProposalInv, ActivateSwitchInv, RefusedInv
<1>2. CASE Validate
  BY <1>2, ValidateInv
<1>3. CASE UNCHANGED vars
  BY <1>3 DEF vars, IInv, TypeOK, RowInv, RequestInv, Sound, Safe, OneActiveUnlessEarly, SomeActive,
     BlockedNeverServed, BaseWasServed, ActivatedWasServed, Active, Served
<1> QED
  BY <1>1, <1>2, <1>3 DEF Next

\* The rows and what requests hold have their types.
THEOREM GovernanceTypes == Spec => []TypeOK
<1>1. IInv => TypeOK
  BY DEF IInv
<1> QED
  BY InitInv, StepInv, <1>1, PTL DEF Spec

\* Activations that read the active version under the write lock never leave two of them
\* active, whatever the others do.
THEOREM OneLockedActive == Spec => []OneActiveUnlessEarly
<1>1. IInv => OneActiveUnlessEarly
  BY DEF IInv, Safe
<1> QED
  BY InitInv, StepInv, <1>1, PTL DEF Spec

\* There always is an active version.
THEOREM AlwaysActive == Spec => []SomeActive
<1>1. IInv => SomeActive
  BY DEF IInv, Safe
<1> QED
  BY InitInv, StepInv, <1>1, PTL DEF Spec

\* A snapshot that validation blocks is never production.
THEOREM BlockedStaysOut == Spec => []BlockedNeverServed
<1>1. IInv => BlockedNeverServed
  BY DEF IInv, Safe
<1> QED
  BY InitInv, StepInv, <1>1, PTL DEF Spec

\* Versions and proposals build on versions that were production.
THEOREM Lineage == Spec => []BaseWasServed
<1>1. IInv => BaseWasServed
  BY DEF IInv, Safe
<1> QED
  BY InitInv, StepInv, <1>1, PTL DEF Spec

\* An activated proposal has a version that was production.
THEOREM ActivatedLineage == Spec => []ActivatedWasServed
<1>1. IInv => ActivatedWasServed
  BY DEF IInv, Safe
<1> QED
  BY InitInv, StepInv, <1>1, PTL DEF Spec
=============================================================================

----------------------------- MODULE Directory -----------------------------
(* The registrar (services/directory/src/registrar.ts) and the start of a     *)
(* mission's workflow: the operator approves a request, which freezes the     *)
(* provider ranking and the policy of the mission; the orchestrator reads the *)
(* ranking, proposes the policy it derives from it, and the registrar sends   *)
(* the policy it stored to every target (the signer and the lenders).         *)
(* Reputations are counted from the events of all missions, so they move      *)
(* between the approval and the workflow.                                     *)
EXTENDS Selection

CONSTANTS
    Registry,      \* the immutable records of the providers
    Capability,    \* "solidity-scan"
    Budgets,       \* budgets that a request may have
    Targets,       \* the services that policies are sent to
    MaxEvents,     \* bound: events of other missions that count
    MaxAttempts,   \* policyRegistrationMaxAttempts
    None

ASSUME RegistryAssumption ==
    /\ IsFiniteSet(Registry)
    /\ \A p \in Registry : p.id \in Int /\ p.price \in Nat /\ p.latency \in Nat
ASSUME LimitsAssumption == Budgets \subseteq Nat /\ MaxAttempts \in Nat \ {0}
ASSUME AnswersAssumption == None \notin {"ok", "refused", "lost"}

Ids == {p.id : p \in Registry}

VARIABLES
    successes, failures, \* events of a provider: reports, failed missions
    approval,    \* the row of registrar_approvals
    stage,       \* where the workflow is
    budget,      \* of the request the workflow was started with
    proposal,    \* the policy the workflow proposes
    policyAt,    \* the policy each target holds
    answer,      \* of each target to the provisioning under way
    attempts     \* registrations that the workflow has tried

directoryVars ==
    <<successes, failures, approval, stage, budget, proposal, policyAt, answer, attempts>>

InitDirectory ==
    /\ successes = [p \in Ids |-> 0] /\ failures = [p \in Ids |-> 0]
    /\ approval = None
    /\ stage = "created" /\ budget \in Budgets /\ proposal = None
    /\ policyAt = [t \in Targets |-> None]
    /\ answer = [t \in Targets |-> None]
    /\ attempts = 0

\* A mission with the provider ends, well or badly, as its event says.
RecordEvent(p) ==
    /\ MapThenSumSet(LAMBDA q : successes[q] + failures[q], Ids) < MaxEvents
    /\ \/ successes' = [successes EXCEPT ![p] = @ + 1] /\ UNCHANGED failures
       \/ failures' = [failures EXCEPT ![p] = @ + 1] /\ UNCHANGED successes
    /\ UNCHANGED <<approval, stage, budget, proposal, policyAt, answer, attempts>>

\* getProviderReputations.
Reputations == [p \in Ids |-> Reputation(successes[p], failures[p])]

\* The policy of a mission names its provider with the reputation it had.
Policy(cap, id) ==
    [cap |-> cap, id |-> id, reputation |-> Reputations[id],
     price |-> (CHOOSE p \in Registry : p.id = id).price]

\* A plausible bug: a later approval replaces the one that stands.
ApproveAgain(cap) ==
    LET ranked == RankProviders(Registry, Reputations, Capability, cap) IN
    /\ ranked # <<>> /\ Policy(cap, ranked[1]).price <= cap
    /\ approval' = Policy(cap, ranked[1])
    /\ UNCHANGED <<successes, failures, stage, budget, proposal, policyAt, answer, attempts>>

\* POST /missions/approve.  The best provider must be within the budget; an
\* approval that exists is never changed, whatever is asked for later.
Approve(cap) ==
    LET ranked == RankProviders(Registry, Reputations, Capability, cap) IN
    /\ approval = None
    /\ ranked # <<>> /\ Policy(cap, ranked[1]).price <= cap
    /\ approval' = Policy(cap, ranked[1])
    /\ UNCHANGED <<successes, failures, stage, budget, proposal, policyAt, answer, attempts>>

ApprovedFor(cap) == IF approval = None THEN FALSE ELSE approval.cap = cap

\* GET /providers/rank, and the policy the workflow makes of the first one: the
\* ranking is the stored one.  No approval, or one of another budget, ends it.
Rank ==
    /\ stage = "created"
    /\ IF ApprovedFor(budget)
         THEN stage' = "ranked" /\ proposal' = approval
         ELSE stage' = "refused" /\ UNCHANGED proposal
    /\ UNCHANGED <<successes, failures, approval, budget, policyAt, answer, attempts>>

\* POST /missions/provision: the stored policy goes to all targets at once.
Provision ==
    /\ stage = "ranked"
    /\ stage' = IF proposal = approval THEN "provisioning" ELSE "refused"
    /\ answer' = [t \in Targets |-> None]
    /\ attempts' = attempts + 1
    /\ UNCHANGED <<successes, failures, approval, budget, proposal, policyAt>>

\* A target's registerMissionPolicy inserts the policy, acknowledges the same
\* one again, and refuses another.
Register(t) ==
    /\ stage = "provisioning" /\ answer[t] = None
    /\ policyAt' = [policyAt EXCEPT ![t] = IF @ = None THEN approval ELSE @]
    /\ \/ answer' = [answer EXCEPT ![t] = IF policyAt'[t] = approval THEN "ok" ELSE "refused"]
       \/ answer' = [answer EXCEPT ![t] = "lost"]
    /\ UNCHANGED <<successes, failures, approval, stage, budget, proposal, attempts>>

\* The call to a target does not arrive.
Unreachable(t) ==
    /\ stage = "provisioning" /\ answer[t] = None
    /\ answer' = [answer EXCEPT ![t] = "lost"]
    /\ UNCHANGED <<successes, failures, approval, stage, budget, proposal, policyAt, attempts>>

\* Promise.allSettled: one refusal makes the answer 503, which registerPolicy
\* retries a number of times.
Settled ==
    /\ stage = "provisioning" /\ \A t \in Targets : answer[t] # None
    /\ stage' = CASE \A t \in Targets : answer[t] = "ok" -> "provisioned"
                  [] attempts < MaxAttempts -> "ranked"
                  [] OTHER -> "refused"
    /\ UNCHANGED <<successes, failures, approval, budget, proposal, policyAt, answer, attempts>>

DirectoryNext ==
    \/ \E p \in Ids : RecordEvent(p)
    \/ \E cap \in Budgets : Approve(cap)
    \/ Rank \/ Provision \/ Settled
    \/ \E t \in Targets : Register(t) \/ Unreachable(t)

-----------------------------------------------------------------------------
PolicyRecords == [cap : Budgets, id : Ids, reputation : Nat, price : Nat]

\* The shape of the registrar's rows, of its targets' and of the workflow.
DirectoryTypeOK ==
    /\ successes \in [Ids -> Nat] /\ failures \in [Ids -> Nat]
    /\ approval \in PolicyRecords \cup {None}
    /\ budget \in Budgets /\ proposal \in PolicyRecords \cup {None}
    /\ policyAt \in [Targets -> PolicyRecords \cup {None}]
    /\ answer \in [Targets -> {None, "ok", "refused", "lost"}]
    /\ attempts \in 0 .. MaxAttempts

\* "Operator approval freezes metadata, event-derived reputation and the
\* complete policy" (registrar.ts): whatever the other missions' events, later
\* approvals, lost answers and retries do, every target that holds a policy for
\* the mission, and the workflow once it goes on, holds the approved one, and
\* its provider can be paid within the budget of the workflow's request.
ApprovalStands ==
    /\ \A t \in Targets : policyAt[t] # None => policyAt[t] = approval
    /\ stage \notin {"created", "ranked", "provisioning", "refused"} =>
         /\ proposal = approval /\ \A t \in Targets : policyAt[t] = approval
         /\ approval.cap = budget /\ approval.price <= budget
=============================================================================

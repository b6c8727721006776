-------------------------------- MODULE Mission --------------------------------
(***************************************************************************)
(* One mission from its approval to its end: the workflow, which pays, and *)
(* the completion, which closes, move the same row; either process may     *)
(* crash between any two steps.                                            *)
(***************************************************************************)
EXTENDS MissionWorkflow, MissionCompletion

CONSTANT MaxCrashes   \* bound on the crashes of the orchestrator and of the provider

ASSUME MissionAssumption ==
  /\ MaxProvisionAttempts \in Nat \ {0} /\ MaxCrashes \in Nat
  /\ IsFiniteSet(Targets)

VARIABLE crashes

vars == <<shared, workflow, completing, crashes>>

Init == InitStore /\ InitWorkflow /\ InitCompletion /\ crashes = 0

\* The orchestrator stops and starts again.  It resumes no workflow; a callback
\* will be sent again.
OrchestratorCrash ==
  /\ crashes < MaxCrashes
  /\ step \notin {"new", "over"} \/ \E h \in Handlers : pc[h] # "idle"
  /\ step' = IF step = "new" THEN "new" ELSE "over"
  /\ pc' = [h \in Handlers |-> "idle"]
  /\ reply' = [h \in Handlers |-> None]
  /\ lock' = None
  /\ crashes' = crashes + 1
  /\ UNCHANGED <<shared, approved, provisioned, local, awaited, replays>>

\* The provider stops and starts again; its jobs stay.
ProviderCrash ==
  /\ crashes < MaxCrashes
  /\ awaited # None
  /\ awaited' = None
  /\ reply' = [h \in Handlers |-> None]
  /\ crashes' = crashes + 1
  /\ UNCHANGED <<shared, workflow, pc, lock, replays>>

Next ==
  \/ (Workflow \/ LenderFunds \/ ProviderSettles) /\ UNCHANGED <<completing, crashes>>
  \/ /\ \/ Enqueue \/ Worker \/ LeaseOver \/ ReplayCallback
        \/ \E h \in Handlers : Handle(h)
     /\ UNCHANGED <<workflow, crashes>>
  \/ OrchestratorCrash \/ ProviderCrash

(***************************************************************************)
(* Processes that run take their steps: the workflow, the worker and each  *)
(* handler; a lease ends; a confirmed settlement is enqueued (PaidScan).   *)
(***************************************************************************)
Fairness ==
  /\ WF_vars(Workflow /\ UNCHANGED <<completing, crashes>>)
  /\ WF_vars(Worker /\ UNCHANGED <<workflow, crashes>>)
  /\ WF_vars((Enqueue \/ LeaseOver) /\ UNCHANGED <<workflow, crashes>>)
  /\ \A h \in Handlers : WF_vars(Handle(h) /\ UNCHANGED <<workflow, crashes>>)

Spec == Init /\ [][Next]_vars /\ Fairness

--------------------------------------------------------------------------------
(***************************************************************************)
(* Properties.                                                             *)
(***************************************************************************)

Steps == {"new", "created", "selected", "provisioning", "preparing", "balance", "funding",
          "ready", "authorizing", "paying", "scanning", "paid", "failing", "over"}
HandlerSteps == {"idle", "received", "confirming", "signing", "committing", "closing",
                 "repaying", "settling", "repaid"}

\* Every variable keeps its type; the provider's job knows no other status.
TypeOK ==
  /\ mission \in States \cup {None} /\ state \in States \cup {None}
  /\ spent \in 0 .. 1 /\ blamed \in 0 .. 1
  /\ loan \in {None, "funded", "repaid"}
  /\ completion \in BOOLEAN /\ signerCompletion \in BOOLEAN /\ signerRepaid \in BOOLEAN
  /\ approved \in BOOLEAN /\ borrowed \in BOOLEAN
  /\ credit \in {"none", "asked", "funded"}
  /\ scan \in {"none", "requested", "settled"}
  /\ callback \in [status : {"none", "pending", "processing", "delivered", "failed", "repair"},
                   attempts : 0 .. MaxAttempts, refusal : {None, 400, 409}]
  /\ provisioned \subseteq Targets
  /\ step \in Steps
  /\ attempts \in 0 .. MaxProvisionAttempts
  /\ error \in {None, "other", "policy", "consumer"}
  /\ awaited \in Handlers \cup {None} /\ lock \in Handlers \cup {None}
  /\ pc \in [Handlers -> HandlerSteps]
  /\ reply \in [Handlers -> {None, 202, 400, 409, 503}]
  /\ replays \in 0 .. MaxReplays /\ crashes \in 0 .. MaxCrashes

Completed == {"completed", "repayment-pending", "repaid"}

\* A mission counts as completed only on the provider's evidence: its payment
\* was settled and counted once, and the signer has accepted the completion too
\* (docs/protocol.md: only then is delivery acknowledged and committed).
CompletedIsBacked ==
  (completion \/ mission \in Completed) =>
    completion /\ scan = "settled" /\ spent = 1 /\ signerCompletion

\* The rows of a mission that has ended agree with each other and with the
\* signer: closed without an open loan, defaulted with one that nobody repaid,
\* and a loan is repaid here only after it was there.
EndsAgree ==
  /\ mission = "closed" => loan \in {None, "repaid"}
  /\ mission = "defaulted" => loan = "funded" /\ ~signerRepaid
  /\ loan = "repaid" => signerRepaid /\ mission \in {"repaid", "closed"}
  /\ loan # None => credit = "funded"

\* The provider stops calling back only when the mission is closed and its loan,
\* if any, is repaid: the answer 202 waits for the repayment.
DeliveredIsClosed == callback.status = "delivered" => mission = "closed" /\ completion

\* Once the completion is accepted, the mission is closed, whatever crashes and
\* whichever answers are lost, unless the provider has given its callback up, or
\* the mirror or the signer refused the evidence and an operator has the job.  A
\* 409, the orchestrator's own refusal, is no way to end.
CompletedCloses ==
  completion ~> \/ mission = "closed"
                \/ callback.status = "failed"
                \/ callback.status = "repair" /\ callback.refusal = 400

\* Claimed by docs/protocol.md: the receipt can be reconstructed from callback
\* evidence if the HTTP response was lost, so a paid scan completes its mission.
PaidCompletes == (callback.status = "pending") ~> (completion \/ callback.status = "failed")
================================================================================

---------------------------- MODULE AuditOutbox ----------------------------
(* The audit trail of a service: events are committed to its database with a  *)
(* row of the outbox hcs_audit_outbox (packages/persistence/src/events.ts,    *)
(* audit-outbox.ts), and writers (packages/audit/src/writer.ts) publish them  *)
(* on a Hedera topic, through packages/hedera/src/topic.ts.  Two writers may  *)
(* drain one database: the service's own, and scripts/audit-flush.ts, which   *)
(* runs in a process of its own.                                              *)
(*                                                                            *)
(* A writer handles one job at a time; every network call it awaits is a      *)
(* point where its lease may run out, the other writer may take the row over, *)
(* or its process may stop.  Each of its mutations compares the lease token:  *)
(* a token stands here for the writer that made the latest claim, since a     *)
(* writer never holds two.  The delay before the next attempt only says when  *)
(* a row is due, so any pending row may be the one that is due.               *)
EXTENDS Naturals, Sequences, FiniteSets

CONSTANTS
    Writers,    \* the processes that drain the outbox
    MissionOf,  \* the mission of each event, in the order of events.seq
    MaxTx,      \* bound: topic transactions that are prepared
    MaxFaults,  \* bound: calls that fail or go unanswered, leases outlived
    MaxCrashes, \* bound: stops of a writer's process
    None

Events == 1 .. Len(MissionOf)
Txs == 1 .. MaxTx

ASSUME OutboxAssumption ==
    /\ {Len(MissionOf), MaxTx, MaxFaults, MaxCrashes} \subseteq Nat
    /\ None \notin Writers \cup Events \cup Txs

VARIABLES
    recorded, \* how many of the events are committed
    row,      \* hcs_audit_outbox, by event
    pc,       \* where a writer's publish() is awaiting
    job,      \* the AuditOutboxJob a writer claimed, as read then
    tx,       \* topic transactions that were prepared
    built,    \* how many there are
    topic,    \* the transactions that reached consensus, in that order
    faults,
    crashes

vars == <<recorded, row, pc, job, tx, built, topic, faults, crashes>>

NoJob == [event |-> None, tx |-> None, attempted |-> FALSE]

Init ==
    /\ recorded = 0
    /\ row = [e \in Events |-> [status |-> "absent", token |-> None,
                               leased |-> FALSE, tx |-> None, attempted |-> FALSE]]
    /\ pc = [w \in Writers |-> "idle"]
    /\ job = [w \in Writers |-> NoJob]
    /\ tx = [t \in Txs |-> [event |-> None, state |-> "none", age |-> "valid"]]
    /\ built = 0
    /\ topic = <<>>
    /\ faults = 0 /\ crashes = 0

Fault == faults < MaxFaults /\ faults' = faults + 1
NoFault == UNCHANGED faults

-----------------------------------------------------------------------------
(* The store *)

\* createEvent: the event and its outbox row are one transaction.
RecordEvent ==
    /\ recorded < Len(MissionOf)
    /\ recorded' = recorded + 1
    /\ row' = [row EXCEPT ![recorded + 1].status = "pending"]
    /\ UNCHANGED <<pc, job, tx, built, topic, faults, crashes>>

\* The condition of every UPDATE a job makes.
Holds(w) ==
    LET r == row[job[w].event] IN r.status = "processing" /\ r.token = w

\* A plausible bug: the reset drops the bytes and not the flag of the attempt.
ReleasedHalf(r, reset) ==
    [r EXCEPT !.status = "pending", !.token = None, !.leased = FALSE,
              !.tx = IF reset THEN None ELSE @]

Released(r, reset) ==
    [r EXCEPT !.status = "pending", !.token = None, !.leased = FALSE,
              !.tx = IF reset THEN None ELSE @,
              !.attempted = IF reset THEN FALSE ELSE @]

\* A plausible bug: a row left in processing is never claimed again.
ClaimablePending(e) ==
    /\ row[e].status = "pending"
    /\ \A d \in 1 .. e - 1 :
         MissionOf[d] = MissionOf[e] => row[d].status = "published"

\* claimDue's candidate: not published, due, free of a live lease, and with no
\* unpublished event of the same mission before it.
Claimable(e) ==
    /\ \/ row[e].status = "pending"
       \/ row[e].status = "processing" /\ ~row[e].leased
    /\ \A d \in 1 .. e - 1 :
         MissionOf[d] = MissionOf[e] => row[d].status = "published"

\* drainDue's claim, up to publish()'s first await: nothing is prepared yet, or
\* an earlier submission has to be reconciled, or stored bytes can be sent.
Claim(w, e) ==
    /\ pc[w] = "idle" /\ Claimable(e)
    /\ row' = [row EXCEPT ![e].status = "processing", ![e].token = w, ![e].leased = TRUE]
    /\ job' = [job EXCEPT ![w] = [event |-> e, tx |-> row[e].tx,
                                  attempted |-> row[e].attempted]]
    /\ pc' = [pc EXCEPT ![w] = CASE row[e].tx = None -> "preparing"
                                 [] row[e].attempted -> "reconciling"
                                 [] OTHER -> "prepared"]
    /\ UNCHANGED <<recorded, tx, built, topic, faults, crashes>>

Finish(w) ==
    /\ pc' = [pc EXCEPT ![w] = "idle"]
    /\ job' = [job EXCEPT ![w] = NoJob]

\* retry(): when the lease is gone it throws, and the drain ends there.
Retry(w, reset) ==
    /\ row' = IF Holds(w) THEN [row EXCEPT ![job[w].event] = Released(@, reset)] ELSE row
    /\ Finish(w)
    /\ UNCHANGED <<recorded, tx, built, topic, crashes>>

\* complete(), markPublished: the row and the event are one transaction.
Complete(w) ==
    /\ row' = IF Holds(w)
                THEN [row EXCEPT ![job[w].event] =
                        [@ EXCEPT !.status = "published", !.token = None,
                                  !.leased = FALSE, !.tx = job[w].tx]]
                ELSE row
    /\ Finish(w)
    /\ UNCHANGED <<recorded, tx, built, topic, crashes>>

-----------------------------------------------------------------------------
(* publish() *)

\* The message is signed with a new transaction identifier and stored.
SavePrepared(w) ==
    /\ pc[w] = "preparing" /\ Holds(w) /\ built < MaxTx
    /\ built' = built + 1
    /\ tx' = [tx EXCEPT ![built + 1] = [event |-> job[w].event, state |-> "built", age |-> "valid"]]
    /\ row' = [row EXCEPT ![job[w].event].tx = built + 1]
    /\ job' = [job EXCEPT ![w].tx = built + 1]
    /\ pc' = [pc EXCEPT ![w] = "prepared"]
    /\ UNCHANGED <<recorded, topic, faults, crashes>>

\* prepare() throws, or its result comes after the lease was taken over: the
\* catch block's retry keeps what is stored.
PrepareFails(w) ==
    /\ pc[w] = "preparing"
    /\ IF Holds(w) THEN Fault ELSE NoFault
    /\ Retry(w, FALSE)

\* markSubmissionAttempted, before the call that may reach a node.
MarkSubmissionAttempted(w) ==
    /\ pc[w] = "prepared"
    /\ IF Holds(w)
         THEN /\ row' = [row EXCEPT ![job[w].event].attempted = TRUE]
              /\ pc' = [pc EXCEPT ![w] = "submitting"]
              /\ UNCHANGED <<recorded, job, tx, built, topic, crashes>>
         ELSE Retry(w, FALSE)
    /\ NoFault

\* submitPreparedTopicMessage's answer: a receipt of success, a failure the
\* network or the node's precheck reports, or anything else.
SubmitConfirmed(w) ==
    /\ pc[w] = "submitting" /\ tx[job[w].tx].state = "executed"
    /\ Complete(w) /\ NoFault

SubmitFailed(w) ==
    /\ pc[w] = "submitting" /\ tx[job[w].tx].state = "failed"
    /\ Retry(w, TRUE) /\ NoFault

SubmitUncertain(w) ==
    /\ pc[w] = "submitting"
    /\ IF tx[job[w].tx].state = "inflight" /\ tx[job[w].tx].age # "valid"
         THEN NoFault ELSE Fault
    /\ Retry(w, FALSE)

\* reconcileTopicMessage asks for the receipt of the stored transaction only.
ReconcileConfirmed(w) ==
    /\ pc[w] = "reconciling" /\ tx[job[w].tx].state = "executed"
    /\ Complete(w) /\ NoFault

ReconcileFailed(w) ==
    /\ pc[w] = "reconciling" /\ tx[job[w].tx].state = "failed"
    /\ Retry(w, TRUE) /\ NoFault

\* A plausible bug: an unknown outcome is retried with new bytes at once.
ReconcileWithoutGrace(w) ==
    /\ pc[w] = "reconciling"
    /\ IF tx[job[w].tx].state \in {"executed", "failed"} THEN Fault ELSE NoFault
    /\ Retry(w, TRUE)

\* No receipt: the bytes are kept until the grace after their validity is over,
\* then dropped for new ones.  Receipts are also lost for what was decided.
ReconcileUncertain(w) ==
    /\ pc[w] = "reconciling"
    /\ IF tx[job[w].tx].state \in {"executed", "failed"} THEN Fault ELSE NoFault
    /\ Retry(w, tx[job[w].tx].age = "overdue")

-----------------------------------------------------------------------------
(* The network, clocks and processes *)

\* The bytes leave the process, as the SDK tries node after node.
Send(w) ==
    /\ pc[w] = "submitting" /\ tx[job[w].tx].state = "built"
    /\ \/ tx[job[w].tx].age = "valid" /\ NoFault
          /\ tx' = [tx EXCEPT ![job[w].tx].state = "inflight"]
       \/ (IF tx[job[w].tx].age = "valid" THEN Fault ELSE NoFault)
          /\ tx' = [tx EXCEPT ![job[w].tx].state = "failed"]
    /\ UNCHANGED <<recorded, row, pc, job, built, topic, crashes>>

\* Consensus on what was sent, never after its validity.
Execute(t) ==
    /\ tx[t].state = "inflight" /\ tx[t].age = "valid"
    /\ tx' = [tx EXCEPT ![t].state = "executed"]
    /\ topic' = Append(topic, t)
    /\ UNCHANGED <<recorded, row, pc, job, built, faults, crashes>>

\* Validity (180 s) and then the uncertainty grace (600 s) run out, for bytes
\* that an unpublished row still holds: no other age is read.  Outliving the
\* validity on the way to consensus is a fault: the message is lost.
Age(t) ==
    /\ tx[t].age # "overdue"
    /\ \E e \in Events : row[e].tx = t /\ row[e].status # "published"
    /\ tx' = [tx EXCEPT ![t].age = IF @ = "valid" THEN "expired" ELSE "overdue"]
    /\ IF tx[t].age = "valid" /\ (\/ tx[t].state = "inflight"
                                  \/ \E w \in Writers : job[w].tx = t /\ tx[t].state = "built"
                                                        /\ pc[w] # "reconciling")
         THEN Fault ELSE NoFault
    /\ UNCHANGED <<recorded, row, pc, job, built, topic, crashes>>

\* The 30 s lease of a row runs out; it is a fault when its holder still works.
LeaseOver(e) ==
    /\ row[e].leased
    /\ row' = [row EXCEPT ![e].leased = FALSE]
    /\ IF job[row[e].token].event = e THEN Fault ELSE NoFault
    /\ UNCHANGED <<recorded, pc, job, tx, built, topic, crashes>>

\* A writer's process stops between two steps and starts again.
Crash(w) ==
    /\ pc[w] # "idle" /\ crashes < MaxCrashes
    /\ crashes' = crashes + 1
    /\ Finish(w)
    /\ UNCHANGED <<recorded, row, tx, built, topic, faults>>

Publish(w) ==
    \/ SavePrepared(w) \/ PrepareFails(w) \/ MarkSubmissionAttempted(w)
    \/ SubmitConfirmed(w) \/ SubmitFailed(w) \/ SubmitUncertain(w)
    \/ ReconcileConfirmed(w) \/ ReconcileFailed(w) \/ ReconcileUncertain(w)

Next ==
    \/ RecordEvent
    \/ \E w \in Writers, e \in Events : Claim(w, e)
    \/ \E w \in Writers : Publish(w) \/ Send(w) \/ Crash(w)
    \/ \E t \in Txs : Execute(t) \/ Age(t)
    \/ \E e \in Events : LeaseOver(e)

\* A service drains its outbox on start and on a timer, awaits every call, and
\* clocks move; the ledger decides what it received; a receipt that exists is
\* read by one of the attempts.
Fairness ==
    /\ \A w \in Writers :
         /\ WF_vars(\E e \in Events : Claim(w, e))
         /\ WF_vars(Publish(w))
         /\ WF_vars(Send(w))
    /\ \A t \in Txs : WF_vars(Execute(t)) /\ WF_vars(Age(t))
    /\ \A e \in Events : WF_vars(LeaseOver(e))

Spec == Init /\ [][Next]_vars /\ Fairness

-----------------------------------------------------------------------------
(* Properties *)

Rows == [status: {"absent", "pending", "processing", "published"}, token: Writers \cup {None},
         leased: BOOLEAN, tx: Txs \cup {None}, attempted: BOOLEAN]
Jobs == [event: Events \cup {None}, tx: Txs \cup {None}, attempted: BOOLEAN]
Transactions == [event: Events \cup {None}, age: {"valid", "expired", "overdue"},
                 state: {"none", "built", "inflight", "executed", "failed"}]
Places == {"idle", "preparing", "prepared", "submitting", "reconciling"}

\* The shape of the rows, jobs and transactions; a row that is being processed
\* has a token, and only such a row; a submission was attempted with bytes that
\* are stored.
TypeOK ==
    /\ recorded \in 0 .. Len(MissionOf)
    /\ row \in [Events -> Rows]
    /\ pc \in [Writers -> Places]
    /\ job \in [Writers -> Jobs]
    /\ tx \in [Txs -> Transactions]
    /\ built \in 0 .. MaxTx
    /\ topic \in Seq(Txs) /\ Len(topic) <= built
    /\ \A e \in Events :
         /\ row[e].status = "processing" <=> row[e].token # None
         /\ row[e].attempted => row[e].tx # None
    /\ faults \in 0 .. MaxFaults /\ crashes \in 0 .. MaxCrashes

\* What audit-outbox.ts:37 promises: the topic carries a mission's events in the
\* order they were committed.  A copy of an event (a retry after a lost receipt)
\* never comes after a later event, even when a writer outlived its lease, a
\* process stopped around the call, or the outcome stayed unknown.
TopicInOrder ==
    \A i, j \in 1 .. Len(topic) :
      LET d == tx[topic[i]].event
          e == tx[topic[j]].event
      IN i < j /\ MissionOf[d] = MissionOf[e] => d <= e

\* A committed event is published in the end, and the transaction its row names
\* is one that the topic carries: the retries of one event, which block those
\* behind it, end.
EventsArePublished ==
    \A e \in Events :
      recorded >= e ~> /\ row[e].status = "published"
                       /\ \E i \in 1 .. Len(topic) : topic[i] = row[e].tx

=============================================================================

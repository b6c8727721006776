-------------------------- MODULE AuditOutboxProofs --------------------------
(* Proofs about AuditOutbox, for any number of writers, events, missions,     *)
(* transactions, faults and crashes.                                          *)
(*                                                                            *)
(* Why the topic is in order: a transaction that can still reach consensus is *)
(* the one that the row of its event names, and the event is not published;   *)
(* whatever was prepared, every earlier event of its mission is published,    *)
(* which is for ever.  So when a transaction is executed, nothing of a later  *)
(* event of the mission has been prepared.  The row can name no other         *)
(* transaction because a writer that still holds its row finds in it what its *)
(* job says, and drops only what cannot be executed any more.                 *)
EXTENDS AuditOutbox, FiniteSetTheorems, TLAPS

\* A transaction that may still reach consensus.
Live(t) == tx[t].state \in {"built", "inflight"} /\ tx[t].age = "valid"

EarlierPublished(e) ==
    \A d \in 1 .. e - 1 : MissionOf[d] = MissionOf[e] => row[d].status = "published"

\* The row of an event and the transaction it names.
RowOK(e) ==
    /\ row[e].status = "absent" <=> e > recorded
    /\ row[e].leased => row[e].status = "processing"
    /\ row[e].tx # None => tx[row[e].tx].event = e /\ tx[row[e].tx].state # "none"

\* A transaction that was prepared, and one that may still be executed.
TxOK(t) ==
    /\ tx[t].state = "none" <=> t > built
    /\ tx[t].state # "none" => tx[t].event \in Events /\ EarlierPublished(tx[t].event)
    /\ Live(t) => row[tx[t].event].tx = t /\ row[tx[t].event].status # "published"

\* What a writer's job says of its event, and of the row while it holds it.
JobOK(w) ==
    pc[w] # "idle" =>
      /\ job[w].event \in Events
      /\ EarlierPublished(job[w].event)
      /\ pc[w] = "preparing" <=> job[w].tx = None
      /\ job[w].tx # None => tx[job[w].tx].event = job[w].event /\ tx[job[w].tx].state # "none"
      /\ Holds(w) => row[job[w].event].tx = job[w].tx

Executed == {t \in Txs : tx[t].state = "executed"}

\* The topic carries what was executed, once.
TopicOK ==
    /\ \A i \in 1 .. Len(topic) : topic[i] \in Executed
    /\ Len(topic) = Cardinality(Executed)
    /\ TopicInOrder

IInv ==
    /\ TypeOK
    /\ \A e \in Events : RowOK(e)
    /\ \A t \in Txs : TxOK(t)
    /\ \A w \in Writers : JobOK(w)
    /\ TopicOK

\* The initial state satisfies every part of the invariant.
LEMMA InitInv == Init => IInv
<1> SUFFICES ASSUME Init PROVE IInv
  OBVIOUS
<1> USE OutboxAssumption DEF Init
<1>1. TypeOK
  <2>1. row \in [Events -> Rows]
    BY DEF Rows
  <2>2. job \in [Writers -> Jobs] /\ tx \in [Txs -> Transactions]
    BY DEF NoJob, Jobs, Transactions
  <2>3. pc \in [Writers -> Places]
    BY DEF Places
  <2>4. topic \in Seq(Txs) /\ Len(topic) = 0
    OBVIOUS
  <2>5. ASSUME NEW e \in Events
        PROVE  /\ row[e].status = "processing" <=> row[e].token # None
               /\ row[e].attempted => row[e].tx # None
    BY <2>5
  <2>6. /\ recorded \in 0 .. Len(MissionOf) /\ built \in 0 .. MaxTx
        /\ faults \in 0 .. MaxFaults /\ crashes \in 0 .. MaxCrashes
    OBVIOUS
  <2> HIDE DEF Init
  <2> QED BY <2>1, <2>2, <2>3, <2>4, <2>5, <2>6 DEF TypeOK
<1>2. ASSUME NEW e \in Events PROVE RowOK(e)
  BY <1>2 DEF RowOK, Events
<1>3. ASSUME NEW t \in Txs PROVE TxOK(t)
  BY <1>3 DEF TxOK, Live, Txs
<1>4. ASSUME NEW w \in Writers PROVE JobOK(w)
  BY <1>4 DEF JobOK
<1>5. TopicOK
  <2>1. Executed = {}
    BY DEF Executed
  <2>2. Cardinality({}) = 0
    BY FS_EmptySet
  <2> QED BY <2>1, <2>2 DEF TopicOK, TopicInOrder
<1> QED BY <1>1, <1>2, <1>3, <1>4, <1>5 DEF IInv

\* What is published stays so, hence what comes before an event.
LEMMA PublishedStays ==
  ASSUME NEW e \in Events, EarlierPublished(e),
         \A d \in Events : row[d].status = "published" => row'[d].status = "published"
  PROVE  EarlierPublished(e)'
  BY OutboxAssumption DEF EarlierPublished, Events

\* The topic stays as it is with what was executed.
LEMMA TopicUntouched ==
  ASSUME IInv, topic' = topic,
         \A t \in Txs : /\ tx'[t].state = "executed" <=> tx[t].state = "executed"
                        /\ tx[t].state # "none" => tx'[t].event = tx[t].event
  PROVE  TopicOK'
<1>1. Executed' = Executed
  BY DEF Executed
<1>2. \A i \in 1 .. Len(topic) : tx'[topic[i]].event = tx[topic[i]].event
  BY DEF IInv, TopicOK, Executed
<1> QED BY <1>1, <1>2 DEF IInv, TopicOK, TopicInOrder

\* The part of a transaction stays true while nothing makes it live, and its row
\* names it if it is.
LEMMA TxStays ==
  ASSUME IInv, NEW t \in Txs, tx'[t].event = tx[t].event,
         tx'[t].state = "none" <=> tx[t].state = "none", t > built' <=> t > built,
         \A e \in Events : row[e].status = "published" => row'[e].status = "published",
         Live(t)' => /\ Live(t)
                     /\ \A e \in Events :
                          /\ tx[t].event = e /\ row[e].tx = t /\ row[e].status # "published"
                          => row'[e].tx = t /\ row'[e].status # "published"
  PROVE  TxOK(t)'
<1> USE DEF IInv
<1>1. ASSUME tx[t].state # "none" PROVE tx[t].event \in Events /\ EarlierPublished(tx[t].event)'
  <2>1. PICK e \in Events : e = tx[t].event /\ EarlierPublished(e)
    BY <1>1 DEF TxOK
  <2>2. EarlierPublished(e)'
    BY <2>1, PublishedStays
  <2> QED BY <2>1, <2>2
<1>2. Live(t)' => row'[tx[t].event].tx = t /\ row'[tx[t].event].status # "published"
  BY DEF TxOK, Live
<1> QED BY <1>1, <1>2 DEF TxOK

\* The job of a writer that takes no step stays true while nobody else changes
\* the row that it holds.
LEMMA JobStays ==
  ASSUME IInv, NEW w \in Writers, pc'[w] = pc[w], job'[w] = job[w],
         \A e \in Events : row[e].status = "published" => row'[e].status = "published",
         \A t \in Txs : tx[t].state # "none" => /\ tx'[t].event = tx[t].event
                                              /\ tx'[t].state # "none",
         \A e \in Events :
            row'[e].status = "processing" /\ row'[e].token = w =>
              row[e].status = "processing" /\ row[e].token = w /\ row'[e].tx = row[e].tx
  PROVE  JobOK(w)'
<1> USE DEF IInv
<1>1. ASSUME pc[w] # "idle" PROVE job[w].event \in Events /\ EarlierPublished(job[w].event)'
  <2>1. PICK e \in Events : e = job[w].event /\ EarlierPublished(e)
    BY <1>1 DEF JobOK
  <2>2. EarlierPublished(e)'
    BY <2>1, PublishedStays
  <2> QED BY <2>1, <2>2
<1>2. job[w].tx # None => job[w].tx \in Txs
  BY DEF TypeOK, Jobs
<1> QED BY <1>1, <1>2 DEF JobOK, Holds

\* A writer finishes its job: it leaves the rows alone or, while it holds the
\* row of its event, gives it back; without a transaction or as published only
\* when the one it had cannot be executed any more.
LEMMA FinishInv ==
  ASSUME IInv, NEW w \in Writers, pc[w] # "idle", Finish(w),
         UNCHANGED <<recorded, tx, built, topic>>,
         faults' \in 0 .. MaxFaults, crashes' \in 0 .. MaxCrashes,
         \/ row' = row
         \/ /\ Holds(w)
            /\ \E r \in Rows :
                 /\ row' = [row EXCEPT ![job[w].event] = r]
                 /\ r.status \in {"pending", "published"} /\ r.token = None /\ ~r.leased
                 /\ r.tx \in {None, job[w].tx} /\ (r.attempted => r.tx # None)
                 /\ job[w].tx \in Txs /\ Live(job[w].tx) => r.status = "pending" /\ r.tx # None
  PROVE  IInv'
<1> USE OutboxAssumption DEF IInv
<1>1. /\ pc' = [pc EXCEPT ![w] = "idle"] /\ job' = [job EXCEPT ![w] = NoJob]
      /\ job[w].event \in Events /\ job[w].tx \in Txs \cup {None}
  BY DEF Finish, JobOK, TypeOK, Jobs
<1>2. \/ row' = row
      \/ /\ row[job[w].event].status = "processing" /\ row[job[w].event].tx = job[w].tx
         /\ row[job[w].event].token = w
         /\ row'[job[w].event].status \in {"pending", "published"}
         /\ row'[job[w].event].token = None /\ ~row'[job[w].event].leased
         /\ row'[job[w].event].tx \in {None, job[w].tx}
         /\ row'[job[w].event].attempted => row'[job[w].event].tx # None
         /\ job[w].tx \in Txs /\ Live(job[w].tx) =>
              row'[job[w].event].status = "pending" /\ row'[job[w].event].tx # None
  BY <1>1 DEF Holds, JobOK, TypeOK
<1>3. \A e \in Events : e # job[w].event => row'[e] = row[e]
  BY DEF TypeOK
<1>4. row' \in [Events -> Rows]
  BY <1>1 DEF TypeOK
<1>5. \A d \in Events : row[d].status = "published" => row'[d].status = "published"
  BY <1>2, <1>3
<1>6. TypeOK'
  <2>1. pc' \in [Writers -> Places] /\ job' \in [Writers -> Jobs]
    BY <1>1 DEF TypeOK, Places, Jobs, NoJob
  <2>2. ASSUME NEW e \in Events
        PROVE  /\ row'[e].status = "processing" <=> row'[e].token # None
               /\ row'[e].attempted => row'[e].tx # None
    BY <1>2, <1>3, <2>2 DEF TypeOK
  <2> QED BY <1>4, <2>1, <2>2 DEF TypeOK
<1>7. ASSUME NEW e \in Events PROVE RowOK(e)'
  BY <1>1, <1>2, <1>3, <1>7 DEF RowOK, JobOK, TypeOK
<1>8. ASSUME NEW t \in Txs PROVE TxOK(t)'
  BY <1>1, <1>2, <1>3, <1>5, <1>8, TxStays DEF TxOK, Live
<1>9. ASSUME NEW v \in Writers PROVE JobOK(v)'
  <2>1. CASE v = w
    BY <1>1, <2>1 DEF JobOK, TypeOK
  <2>2. CASE v # w
    <3>1. pc'[v] = pc[v] /\ job'[v] = job[v]
      BY <1>1, <2>2 DEF TypeOK
    <3> QED BY <1>2, <1>3, <1>5, <1>9, <2>2, <3>1, JobStays
  <2> QED BY <2>1, <2>2
<1>10. TopicOK'
  BY TopicUntouched
<1> QED BY <1>6, <1>7, <1>8, <1>9, <1>10

\* A step of the network or of the clocks: the jobs and rows stay, what was
\* prepared keeps its event and can at most become live no more.
LEMMA NetworkInv ==
  ASSUME IInv, TypeOK', TopicOK', UNCHANGED <<recorded, pc, job, built>>,
         \A e \in Events : /\ row'[e].status = row[e].status /\ row'[e].token = row[e].token
                           /\ row'[e].tx = row[e].tx /\ (row'[e].leased => row[e].leased),
         \A t \in Txs : /\ tx'[t].event = tx[t].event
                        /\ tx'[t].state = "none" <=> tx[t].state = "none"
                        /\ Live(t)' => Live(t)
  PROVE  IInv'
<1> USE OutboxAssumption DEF IInv
<1>2. \A d \in Events : row[d].status = "published" => row'[d].status = "published"
  OBVIOUS
<1>3. ASSUME NEW e \in Events PROVE RowOK(e)'
  BY <1>3 DEF RowOK, TypeOK, Rows
<1>4. ASSUME NEW t \in Txs PROVE TxOK(t)'
  BY <1>2, <1>4, TxStays
<1>5. ASSUME NEW w \in Writers PROVE JobOK(w)'
  BY <1>2, <1>5, JobStays
<1> QED BY <1>3, <1>4, <1>5

\* An event is committed with its row.
LEMMA RecordEventInv ==
  ASSUME IInv, RecordEvent
  PROVE  IInv'
<1> USE OutboxAssumption DEF IInv, RecordEvent
<1>1. PICK n \in Events : n = recorded + 1
  BY DEF TypeOK, Events
<1>2. /\ row[n].status = "absent" /\ row' = [row EXCEPT ![n].status = "pending"]
      /\ recorded' = n /\ UNCHANGED <<pc, job, tx, built, topic, faults, crashes>>
  BY <1>1 DEF RowOK, TypeOK
<1>3. /\ row'[n].status = "pending" /\ row'[n].token = row[n].token
      /\ row'[n].leased = row[n].leased /\ row'[n].tx = row[n].tx
      /\ row'[n].attempted = row[n].attempted
      /\ \A e \in Events \ {n} : row'[e] = row[e]
      /\ row' \in [Events -> Rows]
  BY <1>1, <1>2 DEF TypeOK, Rows
<1> HIDE DEF RecordEvent
<1>4. \A d \in Events : row[d].status = "published" => row'[d].status = "published"
  BY <1>2, <1>3
<1>5. TypeOK'
  <2>1. ASSUME NEW e \in Events
        PROVE  /\ row'[e].status = "processing" <=> row'[e].token # None
               /\ row'[e].attempted => row'[e].tx # None
    BY <1>2, <1>3, <2>1 DEF TypeOK
  <2> QED BY <1>1, <1>2, <1>3, <2>1 DEF TypeOK, Events
<1>6. ASSUME NEW e \in Events PROVE RowOK(e)'
  BY <1>1, <1>2, <1>3, <1>6 DEF RowOK, TypeOK, Events
<1>7. ASSUME NEW t \in Txs PROVE TxOK(t)'
  BY <1>2, <1>3, <1>4, <1>7, TxStays DEF Live
<1>8. ASSUME NEW w \in Writers PROVE JobOK(w)'
  BY <1>2, <1>3, <1>4, <1>8, JobStays
<1>9. TopicOK'
  BY <1>2, TopicUntouched
<1> QED BY <1>5, <1>6, <1>7, <1>8, <1>9

\* A row is claimed when everything before its event is published; the job is
\* what the row says.
LEMMA ClaimInv ==
  ASSUME IInv, NEW w \in Writers, NEW e \in Events, Claim(w, e)
  PROVE  IInv'
<1> USE OutboxAssumption DEF IInv
<1>1. /\ pc[w] = "idle" /\ row[e].status \in {"pending", "processing"} /\ EarlierPublished(e)
      /\ UNCHANGED <<recorded, tx, built, topic, faults, crashes>>
  BY DEF Claim, Claimable, EarlierPublished
<1>2. /\ pc' \in [Writers -> Places] /\ pc'[w] # "idle"
      /\ pc'[w] = "preparing" <=> row[e].tx = None
      /\ \A v \in Writers \ {w} : pc'[v] = pc[v]
  <2>1. row[e].attempted => row[e].tx # None
    BY DEF TypeOK
  <2>2. CASE row[e].tx = None
    <3>1. pc' = [pc EXCEPT ![w] = "preparing"]
      BY <2>1, <2>2 DEF Claim
    <3> QED BY <2>2, <3>1 DEF Places, TypeOK
  <2>3. CASE row[e].tx # None /\ row[e].attempted
    <3>1. pc' = [pc EXCEPT ![w] = "reconciling"]
      BY <2>3 DEF Claim
    <3> QED BY <2>3, <3>1 DEF Places, TypeOK
  <2>4. CASE row[e].tx # None /\ ~row[e].attempted
    <3>1. pc' = [pc EXCEPT ![w] = "prepared"]
      BY <2>4 DEF Claim
    <3> QED BY <2>4, <3>1 DEF Places, TypeOK
  <2> QED BY <2>2, <2>3, <2>4
<1>3. /\ row' \in [Events -> Rows]
      /\ row'[e].status = "processing" /\ row'[e].token = w /\ row'[e].leased
      /\ row'[e].tx = row[e].tx /\ row'[e].attempted = row[e].attempted
      /\ \A d \in Events \ {e} : row'[d] = row[d]
  <2>1. \A r \in Rows : [r EXCEPT !.status = "processing", !.token = w, !.leased = TRUE] \in Rows
    BY DEF Rows
  <2>2. row' = [row EXCEPT ![e] = [@ EXCEPT !.status = "processing", !.token = w, !.leased = TRUE]]
    BY DEF Claim, TypeOK, Rows
  <2>3. row \in [Events -> Rows]
    BY DEF TypeOK
  <2> QED BY <2>1, <2>2, <2>3 DEF Rows
<1>4. /\ job' \in [Writers -> Jobs]
      /\ job'[w].event = e /\ job'[w].tx = row[e].tx
      /\ \A v \in Writers \ {w} : job'[v] = job[v]
  BY DEF Claim, TypeOK, Jobs, Rows
<1>5. \A d \in Events : row[d].status = "published" => row'[d].status = "published"
  BY <1>1, <1>3
<1>6. TypeOK'
  <2>1. ASSUME NEW d \in Events
        PROVE  /\ row'[d].status = "processing" <=> row'[d].token # None
               /\ row'[d].attempted => row'[d].tx # None
    BY <1>3, <2>1 DEF TypeOK
  <2> QED BY <1>1, <1>2, <1>3, <1>4, <2>1 DEF TypeOK
<1>7. ASSUME NEW d \in Events PROVE RowOK(d)'
  BY <1>1, <1>3, <1>7 DEF RowOK, TypeOK
<1>8. ASSUME NEW t \in Txs PROVE TxOK(t)'
  BY <1>1, <1>3, <1>5, <1>8, TxStays DEF Live
<1>9. ASSUME NEW v \in Writers PROVE JobOK(v)'
  <2>1. CASE v = w
    <3>1. EarlierPublished(e)'
      BY <1>1, <1>5, PublishedStays
    <3> QED BY <1>1, <1>2, <1>3, <1>4, <2>1, <3>1 DEF JobOK, RowOK, Holds
  <2>2. CASE v # w
    <3>1. pc'[v] = pc[v] /\ job'[v] = job[v]
      BY <1>2, <1>4, <2>2 DEF TypeOK
    <3> QED BY <1>1, <1>3, <1>5, <1>9, <2>2, <3>1, JobStays
  <2> QED BY <2>1, <2>2
<1>10. TopicOK'
  BY <1>1, TopicUntouched
<1> QED BY <1>6, <1>7, <1>8, <1>9, <1>10

\* A new transaction: the writer holds the row, which names none, so none of the
\* event can be executed any more.
LEMMA SavePreparedInv ==
  ASSUME IInv, NEW w \in Writers, SavePrepared(w)
  PROVE  IInv'
<1> USE OutboxAssumption DEF IInv
<1>1. PICK e \in Events, n \in Txs :
        /\ e = job[w].event /\ n = built + 1 /\ pc[w] = "preparing" /\ Holds(w)
        /\ row[e].tx = None /\ EarlierPublished(e) /\ tx[n].state = "none"
  BY DEF SavePrepared, JobOK, TxOK, TypeOK, Txs
<1>2. /\ built' = n /\ tx' = [tx EXCEPT ![n] = [event |-> e, state |-> "built", age |-> "valid"]]
      /\ row' = [row EXCEPT ![e].tx = n] /\ job' = [job EXCEPT ![w].tx = n]
      /\ pc' = [pc EXCEPT ![w] = "prepared"]
      /\ UNCHANGED <<recorded, topic, faults, crashes>>
  BY <1>1 DEF SavePrepared
<1>3. /\ row' \in [Events -> Rows] /\ row'[e].tx = n
      /\ row'[e].status = row[e].status /\ row'[e].token = row[e].token
      /\ row'[e].leased = row[e].leased
      /\ \A d \in Events \ {e} : row'[d] = row[d]
  BY <1>2 DEF TypeOK, Rows
<1>4. /\ job' \in [Writers -> Jobs]
      /\ job'[w].event = e /\ job'[w].tx = n
      /\ \A v \in Writers \ {w} : job'[v] = job[v]
  BY <1>1, <1>2 DEF TypeOK, Jobs
<1>5. /\ tx' \in [Txs -> Transactions]
      /\ tx'[n].event = e /\ tx'[n].state = "built"
      /\ \A t \in Txs \ {n} : tx'[t] = tx[t]
  BY <1>2 DEF TypeOK, Transactions
<1>6. \A d \in Events : row[d].status = "published" => row'[d].status = "published"
  BY <1>3
<1>7. TypeOK'
  <2>1. ASSUME NEW d \in Events
        PROVE  /\ row'[d].status = "processing" <=> row'[d].token # None
               /\ row'[d].attempted => row'[d].tx # None
    BY <1>1, <1>3, <2>1 DEF TypeOK
  <2>2. pc' \in [Writers -> Places] /\ built' \in 0 .. MaxTx /\ Len(topic) <= built'
    BY <1>1, <1>2 DEF TypeOK, Places, Txs
  <2> QED BY <1>2, <1>3, <1>4, <1>5, <2>1, <2>2 DEF TypeOK
<1>8. ASSUME NEW d \in Events PROVE RowOK(d)'
  BY <1>1, <1>2, <1>3, <1>5, <1>8 DEF RowOK, TypeOK, Rows
<1>9. ASSUME NEW t \in Txs PROVE TxOK(t)'
  <2>1. EarlierPublished(e)'
    BY <1>1, <1>6, PublishedStays
  <2>2. CASE t = n
    BY <1>1, <1>2, <1>3, <1>5, <2>1, <2>2 DEF TxOK, Holds, Txs
  <2>3. CASE t # n
    <3>1. tx'[t] = tx[t]
      BY <1>1, <1>5, <1>9, <2>3 DEF TypeOK
    <3>2. built \in Nat /\ t \in Nat
      BY <1>9, OutboxAssumption DEF TypeOK, Txs
    <3>3. t > n <=> t > built
      BY <1>1, <2>3, <3>2
    <3> QED BY <1>1, <1>2, <1>3, <1>6, <1>9, <3>1, <3>3, TxStays DEF Live
  <2> QED BY <2>2, <2>3
<1>10. ASSUME NEW v \in Writers PROVE JobOK(v)'
  <2>1. CASE v = w
    <3>1. EarlierPublished(e)'
      BY <1>1, <1>6, PublishedStays
    <3> QED BY <1>2, <1>3, <1>4, <1>5, <2>1, <3>1 DEF JobOK, TypeOK
  <2>2. CASE v # w
    <3>1. pc'[v] = pc[v] /\ job'[v] = job[v]
      BY <1>2, <1>4, <2>2 DEF TypeOK
    <3> QED BY <1>1, <1>3, <1>5, <1>6, <1>10, <2>2, <3>1, JobStays DEF Holds
  <2> QED BY <2>1, <2>2
<1>11. TopicOK'
  BY <1>1, <1>2, <1>5, TopicUntouched
<1> QED BY <1>7, <1>8, <1>9, <1>10, <1>11

\* The attempt is recorded by the writer that holds the row.
LEMMA MarkAttemptedInv ==
  ASSUME IInv, NEW w \in Writers, MarkSubmissionAttempted(w), Holds(w)
  PROVE  IInv'
<1> USE OutboxAssumption DEF IInv
<1>1. PICK e \in Events : e = job[w].event /\ row[e].tx = job[w].tx /\ row[e].tx # None
  BY DEF MarkSubmissionAttempted, JobOK
<1>2. /\ pc[w] = "prepared" /\ row' = [row EXCEPT ![e].attempted = TRUE]
      /\ pc' = [pc EXCEPT ![w] = "submitting"]
      /\ UNCHANGED <<recorded, job, tx, built, topic, faults, crashes>>
  BY <1>1 DEF MarkSubmissionAttempted, NoFault
<1>3. /\ row' \in [Events -> Rows]
      /\ \A d \in Events : /\ row'[d].status = row[d].status /\ row'[d].token = row[d].token
                           /\ row'[d].leased = row[d].leased /\ row'[d].tx = row[d].tx
      /\ \A d \in Events \ {e} : row'[d] = row[d]
  <2>1. \A x \in Rows : [x EXCEPT !.attempted = TRUE] \in Rows
    BY DEF Rows
  <2>2. \A d \in Events : row'[d] = IF d = e THEN [row[d] EXCEPT !.attempted = TRUE] ELSE row[d]
    BY <1>2 DEF TypeOK
  <2>3. row' \in [Events -> Rows]
    BY <1>2, <2>1 DEF TypeOK
  <2>4. \A x \in Rows : LET y == [x EXCEPT !.attempted = TRUE]
                      IN y.status = x.status /\ y.token = x.token /\ y.leased = x.leased
                         /\ y.tx = x.tx
    BY DEF Rows
  <2> QED BY <2>2, <2>3, <2>4 DEF TypeOK
<1>4. TypeOK'
  <2>1. ASSUME NEW d \in Events
        PROVE  /\ row'[d].status = "processing" <=> row'[d].token # None
               /\ row'[d].attempted => row'[d].tx # None
    BY <1>1, <1>3, <2>1 DEF TypeOK
  <2> QED BY <1>2, <1>3, <2>1 DEF TypeOK, Places
<1>5. ASSUME NEW d \in Events PROVE RowOK(d)'
  BY <1>2, <1>3, <1>5 DEF RowOK
<1>6. ASSUME NEW t \in Txs PROVE TxOK(t)'
  BY <1>2, <1>3, <1>6, TxStays DEF Live
<1>7. ASSUME NEW v \in Writers PROVE JobOK(v)'
  <2>1. CASE v = w
    <3>1. EarlierPublished(e)'
      BY <1>1, <1>2, <1>3, PublishedStays DEF JobOK
    <3> QED BY <1>1, <1>2, <1>3, <1>7, <2>1, <3>1 DEF JobOK, Holds, TypeOK
  <2>2. CASE v # w
    BY <1>2, <1>3, <1>7, <2>2, JobStays DEF TypeOK
  <2> QED BY <2>1, <2>2
<1>8. TopicOK'
  BY <1>2, TopicUntouched
<1> QED BY <1>4, <1>5, <1>6, <1>7, <1>8

\* Every other end of a call of publish() finishes the job.
LEMMA PublishInv ==
  ASSUME IInv, NEW w \in Writers, Publish(w)
  PROVE  IInv'
<1> DEFINE e == job[w].event
<1>1. ASSUME pc[w] # "idle", NEW reset \in BOOLEAN, Retry(w, reset), Fault \/ NoFault,
             reset => job[w].tx \in Txs /\ ~Live(job[w].tx)
      PROVE  IInv'
  <2>1. faults' \in 0 .. MaxFaults /\ crashes' \in 0 .. MaxCrashes
    BY <1>1, OutboxAssumption DEF IInv, TypeOK, Fault, NoFault, Retry
  <2>2. CASE ~Holds(w)
    BY <1>1, <2>1, <2>2, FinishInv DEF Retry
  <2>3. CASE Holds(w)
    <3>1. /\ e \in Events /\ row[e] \in Rows /\ row[e].tx = job[w].tx
          /\ row[e].attempted => row[e].tx # None
      BY <1>1, <2>3 DEF IInv, TypeOK, JobOK
    <3>2. /\ Released(row[e], reset) \in Rows
          /\ row' = [row EXCEPT ![e] = Released(row[e], reset)]
      BY <1>1, <2>3, <3>1 DEF Retry, Released, Rows
    <3>3. /\ Released(row[e], reset).status = "pending" /\ Released(row[e], reset).token = None
          /\ ~Released(row[e], reset).leased
          /\ Released(row[e], reset).tx = IF reset THEN None ELSE job[w].tx
          /\ Released(row[e], reset).attempted => Released(row[e], reset).tx # None
      BY <3>1 DEF Released, Rows
    <3> QED BY <1>1, <2>1, <2>3, <3>2, <3>3, OutboxAssumption, FinishInv DEF Retry
  <2> QED BY <2>2, <2>3
<1>2. ASSUME pc[w] # "idle", Complete(w), NoFault, tx[job[w].tx].state = "executed",
             job[w].tx \in Txs
      PROVE  IInv'
  <2>1. faults' \in 0 .. MaxFaults /\ crashes' \in 0 .. MaxCrashes
    BY <1>2 DEF IInv, TypeOK, NoFault, Complete
  <2>2. CASE ~Holds(w)
    BY <1>2, <2>1, <2>2, FinishInv DEF Complete
  <2>3. CASE Holds(w)
    <3> DEFINE x == [row[e] EXCEPT !.status = "published", !.token = None, !.leased = FALSE,
                                   !.tx = job[w].tx]
    <3>1. row[e] \in Rows /\ row' = [row EXCEPT ![e] = x]
      BY <1>2, <2>3 DEF IInv, TypeOK, JobOK, Complete
    <3>2. /\ x \in Rows /\ x.status = "published" /\ x.token = None /\ ~x.leased
          /\ x.tx = job[w].tx /\ x.tx # None
      BY <1>2, <3>1, OutboxAssumption DEF Rows
    <3>3. ~Live(job[w].tx)
      BY <1>2 DEF Live
    <3> HIDE DEF x
    <3> QED BY <1>2, <2>1, <2>3, <3>1, <3>2, <3>3, FinishInv DEF Complete
  <2> QED BY <2>2, <2>3
<1>3. pc[w] \in {"submitting", "reconciling"} => job[w].tx \in Txs
  BY DEF IInv, JobOK, TypeOK, Jobs
<1>4. CASE SavePrepared(w)
  BY <1>4, SavePreparedInv
<1>5. CASE PrepareFails(w)
  BY <1>1, <1>5 DEF PrepareFails
<1>6. CASE MarkSubmissionAttempted(w)
  BY <1>1, <1>6, MarkAttemptedInv DEF MarkSubmissionAttempted
<1>7. CASE SubmitConfirmed(w) \/ ReconcileConfirmed(w)
  BY <1>2, <1>3, <1>7 DEF SubmitConfirmed, ReconcileConfirmed
<1>8. CASE SubmitFailed(w) \/ ReconcileFailed(w)
  BY <1>1, <1>3, <1>8 DEF SubmitFailed, ReconcileFailed, Live
<1>9. CASE SubmitUncertain(w)
  BY <1>1, <1>9 DEF SubmitUncertain
<1>10. CASE ReconcileUncertain(w)
  <2>1. (tx[job[w].tx].age = "overdue") \in BOOLEAN
    OBVIOUS
  <2>2. tx[job[w].tx].age = "overdue" => ~Live(job[w].tx)
    BY DEF Live
  <2> QED BY <1>1, <1>3, <1>10, <2>1, <2>2 DEF ReconcileUncertain
<1> QED BY <1>4, <1>5, <1>6, <1>7, <1>8, <1>9, <1>10 DEF Publish

\* The bytes leave the process, and the clocks move.
LEMMA SendInv ==
  ASSUME IInv, NEW w \in Writers, Send(w)
  PROVE  IInv'
<1> USE OutboxAssumption DEF IInv
<1>1. PICK t \in Txs : t = job[w].tx
  BY DEF Send, JobOK, TypeOK, Jobs
<1>2. /\ tx[t].state = "built" /\ faults' \in 0 .. MaxFaults
      /\ UNCHANGED <<recorded, row, pc, job, built, topic, crashes>>
  BY <1>1 DEF Send, Fault, NoFault, TypeOK
<1>3. /\ tx' \in [Txs -> Transactions] /\ \A u \in Txs \ {t} : tx'[u] = tx[u]
      /\ tx'[t].event = tx[t].event /\ tx'[t].age = tx[t].age
      /\ tx'[t].state \in {"inflight", "failed"}
  BY <1>1 DEF Send, TypeOK, Transactions
<1>4. TypeOK'
  BY <1>2, <1>3 DEF TypeOK
<1>5. TopicOK'
  BY <1>2, <1>3, TopicUntouched
<1> QED BY <1>2, <1>3, <1>4, <1>5, NetworkInv DEF Live

LEMMA AgeInv ==
  ASSUME IInv, NEW t \in Txs, Age(t)
  PROVE  IInv'
<1> USE OutboxAssumption DEF IInv
<1>1. /\ tx[t].age # "overdue" /\ faults' \in 0 .. MaxFaults
      /\ UNCHANGED <<recorded, row, pc, job, built, topic, crashes>>
  BY DEF Age, Fault, NoFault, TypeOK
<1>2. /\ tx' \in [Txs -> Transactions] /\ \A u \in Txs \ {t} : tx'[u] = tx[u]
      /\ tx'[t].event = tx[t].event /\ tx'[t].state = tx[t].state
      /\ tx'[t].age \in {"expired", "overdue"}
  BY DEF Age, TypeOK, Transactions
<1>3. TypeOK'
  BY <1>1, <1>2 DEF TypeOK
<1>4. TopicOK'
  BY <1>1, <1>2, TopicUntouched
<1> QED BY <1>1, <1>2, <1>3, <1>4, NetworkInv DEF Live

\* The lease of a row runs out.
LEMMA LeaseOverInv ==
  ASSUME IInv, NEW e \in Events, LeaseOver(e)
  PROVE  IInv'
<1> USE OutboxAssumption DEF IInv
<1>1. /\ row[e].leased /\ faults' \in 0 .. MaxFaults
      /\ UNCHANGED <<recorded, pc, job, tx, built, topic, crashes>>
  BY DEF LeaseOver, Fault, NoFault, TypeOK
<1>2. /\ row' \in [Events -> Rows]
      /\ \A d \in Events : /\ row'[d].status = row[d].status /\ row'[d].token = row[d].token
                           /\ row'[d].tx = row[d].tx /\ row'[d].attempted = row[d].attempted
                           /\ row'[d].leased => row[d].leased
  <2>1. \A x \in Rows : [x EXCEPT !.leased = FALSE] \in Rows
    BY DEF Rows
  <2>2. \A d \in Events : row'[d] = IF d = e THEN [row[d] EXCEPT !.leased = FALSE] ELSE row[d]
    BY DEF LeaseOver, TypeOK
  <2>3. row' \in [Events -> Rows]
    BY <2>1 DEF LeaseOver, TypeOK
  <2>4. ASSUME NEW d \in Events
        PROVE  /\ row'[d].status = row[d].status /\ row'[d].token = row[d].token
               /\ row'[d].tx = row[d].tx /\ row'[d].attempted = row[d].attempted
               /\ row'[d].leased => row[d].leased
    <3>1. CASE d = e
      <4>1. row[e] \in Rows /\ row'[e] = [row[e] EXCEPT !.leased = FALSE]
        BY <2>2 DEF TypeOK
      <4> QED BY <3>1, <4>1 DEF Rows
    <3>2. CASE d # e
      BY <2>2, <2>4, <3>2
    <3> QED BY <3>1, <3>2
  <2> QED BY <2>3, <2>4
<1>3. TypeOK'
  <2>1. ASSUME NEW d \in Events
        PROVE  /\ row'[d].status = "processing" <=> row'[d].token # None
               /\ row'[d].attempted => row'[d].tx # None
    BY <1>2, <2>1 DEF TypeOK
  <2> QED BY <1>1, <1>2, <2>1 DEF TypeOK
<1>4. TopicOK'
  BY <1>1, TopicUntouched
<1> QED BY <1>1, <1>2, <1>3, <1>4, NetworkInv DEF Live

\* What is executed is the newest of its mission on the topic: a later event
\* would have been prepared only after the event of this transaction was
\* published, which would be live no more.
LEMMA ExecuteInv ==
  ASSUME IInv, NEW t \in Txs, Execute(t)
  PROVE  IInv'
<1> USE OutboxAssumption DEF IInv
<1>1. /\ tx[t].state = "inflight" /\ Live(t) /\ topic' = Append(topic, t)
      /\ topic \in Seq(Txs)
      /\ UNCHANGED <<recorded, row, pc, job, built, faults, crashes>>
  BY DEF Execute, Live, TypeOK
<1>2. /\ tx' \in [Txs -> Transactions] /\ \A u \in Txs \ {t} : tx'[u] = tx[u]
      /\ tx'[t].event = tx[t].event /\ tx'[t].state = "executed"
  BY DEF Execute, TypeOK, Transactions
<1>3. /\ Len(topic') = Len(topic) + 1 /\ topic'[Len(topic) + 1] = t
      /\ \A i \in 1 .. Len(topic) : topic'[i] = topic[i]
      /\ topic' \in Seq(Txs)
  BY <1>1
<1>4. Executed' = Executed \cup {t} /\ t \notin Executed
  BY <1>1, <1>2 DEF Executed
<1>5. IsFiniteSet(Txs) /\ IsFiniteSet(Executed) /\ IsFiniteSet(1 .. built)
      /\ Cardinality(1 .. built) = built
  <2>1. built \in Nat
    BY DEF TypeOK
  <2>2. IsFiniteSet(Txs) /\ IsFiniteSet(1 .. built) /\ Cardinality(1 .. built) = built
    BY <2>1, FS_Interval DEF Txs
  <2> QED BY <2>2, FS_Subset DEF Executed
<1>6. Len(topic') = Cardinality(Executed')
  BY <1>3, <1>4, <1>5, FS_AddElement DEF TopicOK
<1>7. Len(topic') <= built
  <2>1. Executed' \subseteq 1 .. built
    <3>1. \A u \in Executed' : u \in Txs /\ tx[u].state # "none"
      BY <1>1, <1>4 DEF Executed
    <3>2. \A u \in Txs : tx[u].state # "none" => u <= built
      BY DEF TxOK, TypeOK, Txs
    <3> QED BY <3>1, <3>2 DEF TypeOK, Txs
  <2> QED BY <1>5, <1>6, <2>1, FS_Subset
<1>8. TypeOK'
  BY <1>1, <1>2, <1>3, <1>7 DEF TypeOK
<1>9. TopicInOrder'
  <2>1. ASSUME NEW i \in 1 .. Len(topic'), NEW j \in 1 .. Len(topic'), i < j,
               MissionOf[tx'[topic'[i]].event] = MissionOf[tx'[topic'[j]].event]
        PROVE  tx'[topic'[i]].event <= tx'[topic'[j]].event
    <3>1. i \in 1 .. Len(topic) /\ topic'[i] = topic[i]
      BY <1>1, <1>3, <2>1
    <3>2. \A k \in 1 .. Len(topic) : topic[k] \in Txs /\ tx'[topic[k]].event = tx[topic[k]].event
      BY <1>2 DEF TopicOK, Executed
    <3>3. CASE j \in 1 .. Len(topic)
      BY <1>3, <2>1, <3>1, <3>2, <3>3 DEF TopicOK, TopicInOrder
    <3>4. CASE j \notin 1 .. Len(topic)
      <4> DEFINE d == tx[topic[i]].event
                 e == tx[t].event
      <4>1. topic'[j] = t
        BY <1>1, <1>3, <2>1, <3>4
      <4>2. /\ d \in Events /\ EarlierPublished(d)
            /\ e \in Events /\ row[e].status # "published"
        BY <1>1, <3>1 DEF TopicOK, Executed, TxOK
      <4>3. MissionOf[d] = MissionOf[e]
        BY <1>2, <2>1, <3>1, <3>2, <4>1
      <4>4. d <= e
        BY <4>2, <4>3 DEF EarlierPublished, Events
      <4> QED BY <1>2, <3>1, <3>2, <4>1, <4>4
    <3> QED BY <3>3, <3>4
  <2> QED BY <2>1 DEF TopicInOrder
<1>10. TopicOK'
  <2>1. ASSUME NEW i \in 1 .. Len(topic') PROVE topic'[i] \in Executed'
    BY <1>1, <1>3, <1>4, <2>1 DEF TopicOK
  <2> QED BY <1>6, <1>9, <2>1 DEF TopicOK
<1> QED BY <1>1, <1>2, <1>8, <1>10, NetworkInv DEF Live

-----------------------------------------------------------------------------
(* The theorems *)

\* Every step keeps the invariant.
LEMMA NextInv == IInv /\ [Next]_vars => IInv'
<1> SUFFICES ASSUME IInv, [Next]_vars PROVE IInv'
  OBVIOUS
<1>1. ASSUME NEW w \in Writers, Crash(w) PROVE IInv'
  <2>1. faults' \in 0 .. MaxFaults /\ crashes' \in 0 .. MaxCrashes
    BY <1>1, OutboxAssumption DEF Crash, IInv, TypeOK
  <2> QED BY <1>1, <2>1, FinishInv DEF Crash
<1>2. CASE UNCHANGED vars
  <2>1. TypeOK'
    BY <1>2 DEF vars, IInv, TypeOK
  <2>2. TopicOK'
    BY <1>2, TopicUntouched DEF vars
  <2> QED BY <1>2, <2>1, <2>2, NetworkInv DEF vars, Live
<1> QED BY <1>1, <1>2, RecordEventInv, ClaimInv, PublishInv, SendInv, ExecuteInv, AgeInv,
           LeaseOverInv DEF Next

\* The inductive invariant holds in every state of every behaviour.
THEOREM Invariance == Spec => []IInv
<1>1. Init => IInv
  BY InitInv
<1>2. IInv /\ [Next]_vars => IInv'
  BY NextInv
<1> QED BY <1>1, <1>2, PTL DEF Spec

\* The rows, jobs and transactions keep their shape; only a row that is being
\* processed has a token, and a submission was attempted with stored bytes.
THEOREM TypeCorrect == Spec => []TypeOK
<1>1. IInv => TypeOK
  BY DEF IInv
<1> QED BY <1>1, Invariance, PTL

\* The topic carries the events of a mission in the order they were committed,
\* copies included.
THEOREM OrderIsKept == Spec => []TopicInOrder
<1>1. IInv => TopicInOrder
  BY DEF IInv, TopicOK
<1> QED BY <1>1, Invariance, PTL
=============================================================================

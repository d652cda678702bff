------------------------------- MODULE Outbox -------------------------------
(***************************************************************************)
(* The transactional outbox and its publisher workers.  A business         *)
(* transaction enqueues the next event of its aggregate; workers reclaim   *)
(* expired leases, claim a batch of events, send them to the broker one by *)
(* one outside of any transaction, and report each result in a transaction *)
(* of its own.  Workers crash at any step, sends fail with or without the  *)
(* broker having accepted the message, and a lease may expire while its    *)
(* worker is still sending.                                                *)
(*                                                                         *)
(* Time is two sets: the events whose lease has expired and the events     *)
(* that wait for their retry.  The UUID of a lease is the number of the    *)
(* claim that created it.                                                  *)
(***************************************************************************)
EXTENDS Integers, Sequences, FiniteSets, SequencesExt

CONSTANTS
  Aggregates,    \* aggregates (Orders) with events
  LastSequence,  \* events an aggregate may have: an Order has two versions
  Workers,       \* publisher workers, each a process
  BatchSize,     \* shopmind_outbox_batch_size
  MaxAttempts,   \* shopmind_outbox_max_attempts
  MaxRedrives    \* bound of the model on operator redrives of an event

ASSUME OutboxAssumption ==
  /\ {LastSequence, BatchSize, MaxAttempts} \subseteq Nat \ {0}
  /\ MaxRedrives \in Nat

VARIABLES
  outbox,      \* events in the order they were created
  status,      \* delivery status of each event
  attempts,    \* attempt_count
  redrives,    \* redrive_count
  owner,       \* lease_owner, 0 if there is none
  claims,      \* number of leases handed out for the event
  expired,     \* publishing events whose lease_until has passed
  waiting,     \* pending events whose available_at has not come
  worker,      \* what each worker is doing
  broker       \* sequence numbers the broker accepted, by aggregate

leaseVars == <<status, attempts, redrives, owner, claims, expired, waiting>>
vars == <<outbox, leaseVars, worker, broker>>

-----------------------------------------------------------------------------
Events == Aggregates \X (1 .. LastSequence)
MaxClaims == MaxAttempts * (MaxRedrives + 1)
Statuses == {"absent", "pending", "publishing", "published", "dead_letter"}
Idle == [stage |-> "idle"]

\* What claim_pending hands to the worker.
ClaimRecords == [event : Events, owner : 1 .. MaxClaims, attempt : 1 .. MaxAttempts]

WorkerStates ==
  {Idle, [stage |-> "claim"]}
    \cup [stage : {"send", "accepted", "failed"},
          batch : SeqOf(ClaimRecords, BatchSize) \ {<<>>}]

Init ==
  /\ outbox = <<>>
  /\ status = [e \in Events |-> "absent"]
  /\ attempts = [e \in Events |-> 0]
  /\ redrives = [e \in Events |-> 0]
  /\ owner = [e \in Events |-> 0]
  /\ claims = [e \in Events |-> 0]
  /\ expired = {}
  /\ waiting = {}
  /\ worker = [w \in Workers |-> Idle]
  /\ broker = [a \in Aggregates |-> <<>>]

-----------------------------------------------------------------------------
\* A business transaction enqueues the event of the aggregate's next version.
EnqueueEvent(a) ==
  \E n \in 1 .. LastSequence :
    /\ status[<<a, n>>] = "absent"
    /\ \A m \in 1 .. n - 1 : status[<<a, m>>] # "absent"
    /\ outbox' = Append(outbox, <<a, n>>)
    /\ status' = [status EXCEPT ![<<a, n>>] = "pending"]
    /\ UNCHANGED <<attempts, redrives, owner, claims, expired, waiting, worker, broker>>

\* The first transaction of a worker's round: every expired lease is taken
\* back, and an event that used its last attempt is dead-lettered.
ReclaimExpired(w) ==
  /\ worker[w] = Idle
  /\ status' = [e \in Events |->
                  IF e \notin expired THEN status[e]
                  ELSE IF attempts[e] >= MaxAttempts THEN "dead_letter" ELSE "pending"]
  /\ owner' = [e \in Events |-> IF e \in expired THEN 0 ELSE owner[e]]
  /\ expired' = {}
  /\ waiting' = waiting \ expired
  /\ worker' = [worker EXCEPT ![w] = [stage |-> "claim"]]
  /\ UNCHANGED <<outbox, attempts, redrives, claims, broker>>

\* Faulty: the earlier events of the aggregate are not looked at.
ClaimableInAnyOrder(e) == status[e] = "pending" /\ e \notin waiting

\* Faulty: an event is claimed for its first attempt only.
ClaimableOnce(e) ==
  /\ status[e] = "pending" /\ attempts[e] = 0
  /\ \A m \in 1 .. e[2] - 1 : status[<<e[1], m>>] = "published"

\* An event is claimed only after every earlier one of its aggregate is
\* published.
Claimable(e) ==
  /\ status[e] = "pending"
  /\ e \notin waiting
  /\ \A m \in 1 .. e[2] - 1 : status[<<e[1], m>>] = "published"

\* The places of the claimable events in the order of the outbox, cut at the size of a batch.
Ready == {i \in DOMAIN outbox : Claimable(outbox[i])}

OldestReady(places) ==
  /\ \A i, j \in DOMAIN places : i < j => places[i] < places[j]
  /\ \A later \in Ready \ ToSet(places) :
       Len(places) = BatchSize /\ \A i \in DOMAIN places : places[i] < later

\* The second transaction: lease the oldest claimable events.
ClaimPending(w) ==
  /\ worker[w] = [stage |-> "claim"]
  /\ \E places \in SeqOf(Ready, BatchSize) :
       LET taken == {outbox[places[i]] : i \in DOMAIN places}
           Claim(e) == [event |-> e, owner |-> claims[e] + 1, attempt |-> attempts[e] + 1]
       IN  /\ OldestReady(places)
           /\ status' = [e \in Events |-> IF e \in taken THEN "publishing" ELSE status[e]]
           /\ attempts' = [e \in Events |-> attempts[e] + (IF e \in taken THEN 1 ELSE 0)]
           /\ claims' = [e \in Events |-> claims[e] + (IF e \in taken THEN 1 ELSE 0)]
           /\ owner' = [e \in Events |-> IF e \in taken THEN claims[e] + 1 ELSE owner[e]]
           /\ worker' = [worker EXCEPT ![w] =
                IF taken = {} THEN Idle
                ELSE [stage |-> "send",
                      batch |-> [i \in DOMAIN places |-> Claim(outbox[places[i]])]]]
  /\ UNCHANGED <<outbox, redrives, expired, waiting, broker>>

\* The send outside of any transaction.  The broker accepts the message or
\* not; an exception may also hide that it did.
Send(w) ==
  /\ worker[w].stage = "send"
  /\ LET e == Head(worker[w].batch).event
     IN  \E accepted, raised \in BOOLEAN :
           /\ accepted \/ raised
           /\ broker' = [broker EXCEPT ![e[1]] =
                           IF accepted THEN Append(@, e[2]) ELSE @]
           /\ worker' = [worker EXCEPT ![w].stage = IF raised THEN "failed" ELSE "accepted"]
  /\ UNCHANGED <<outbox, leaseVars>>

\* The worker takes up the next claim of its batch.
NextClaim(w) ==
  worker' = [worker EXCEPT ![w] =
               IF Len(@.batch) = 1 THEN Idle
               ELSE [stage |-> "send", batch |-> Tail(@.batch)]]

\* Faulty: the reports do not compare the lease.
AnyLease(c) == status[c.event] # "absent"

\* The lease is still the one of the claim: the WHERE of both reports.
HoldsLease(c) == status[c.event] = "publishing" /\ owner[c.event] = c.owner

\* The claims a worker has not reported yet.
ClaimsOf(w) ==
  IF worker[w].stage \in {"send", "accepted", "failed"} THEN ToSet(worker[w].batch) ELSE {}

MarkPublished(w) ==
  /\ worker[w].stage = "accepted"
  /\ LET c == Head(worker[w].batch)
     IN  IF HoldsLease(c)
         THEN /\ status' = [status EXCEPT ![c.event] = "published"]
              /\ owner' = [owner EXCEPT ![c.event] = 0]
              /\ expired' = expired \ {c.event}
         ELSE UNCHANGED <<status, owner, expired>>
  /\ NextClaim(w)
  /\ UNCHANGED <<outbox, attempts, redrives, claims, waiting, broker>>

\* A failed send waits for its backoff, or is dead-lettered at the bound.
MarkFailure(w) ==
  /\ worker[w].stage = "failed"
  /\ LET c == Head(worker[w].batch)
         last == c.attempt >= MaxAttempts
     IN  IF HoldsLease(c)
         THEN /\ status' = [status EXCEPT ![c.event] =
                              IF last THEN "dead_letter" ELSE "pending"]
              /\ owner' = [owner EXCEPT ![c.event] = 0]
              /\ expired' = expired \ {c.event}
              /\ waiting' = IF last THEN waiting ELSE waiting \cup {c.event}
         ELSE UNCHANGED <<status, owner, expired, waiting>>
  /\ NextClaim(w)
  /\ UNCHANGED <<outbox, attempts, redrives, claims, broker>>

\* A worker dies, or the transaction of a report fails and ends its process.
CrashWorker(w) ==
  /\ worker[w] # Idle
  /\ worker' = [worker EXCEPT ![w] = Idle]
  /\ UNCHANGED <<outbox, leaseVars, broker>>

\* An operator sends a dead-lettered event back to the queue.
RedriveEvent(e) ==
  /\ status[e] = "dead_letter"
  /\ redrives[e] < MaxRedrives
  /\ status' = [status EXCEPT ![e] = "pending"]
  /\ attempts' = [attempts EXCEPT ![e] = 0]
  /\ redrives' = [redrives EXCEPT ![e] = @ + 1]
  /\ UNCHANGED <<outbox, owner, claims, expired, waiting, worker, broker>>

\* Time passes: a lease expires.
LeaseExpires(e) ==
  /\ status[e] = "publishing"
  /\ e \notin expired
  /\ expired' = expired \cup {e}
  /\ UNCHANGED <<outbox, status, attempts, redrives, owner, claims, waiting, worker, broker>>

\* Time passes: the retry of a failed event is due.
BackoffEnds(e) ==
  /\ e \in waiting
  /\ waiting' = waiting \ {e}
  /\ UNCHANGED <<outbox, status, attempts, redrives, owner, claims, expired, worker, broker>>

-----------------------------------------------------------------------------
Next ==
  \/ \E a \in Aggregates : EnqueueEvent(a)
  \/ \E w \in Workers : ReclaimExpired(w)
  \/ \E w \in Workers : ClaimPending(w)
  \/ \E w \in Workers : Send(w)
  \/ \E w \in Workers : MarkPublished(w)
  \/ \E w \in Workers : MarkFailure(w)
  \/ \E w \in Workers : CrashWorker(w)
  \/ \E e \in Events : RedriveEvent(e)
  \/ \E e \in Events : LeaseExpires(e)
  \/ \E e \in Events : BackoffEnds(e)

Spec == Init /\ [][Next]_vars

-----------------------------------------------------------------------------
(* Safety.                                                                 *)

TypeOK ==
  /\ outbox \in Seq(Events)
  /\ status \in [Events -> Statuses]
  /\ attempts \in [Events -> 0 .. MaxAttempts]
  /\ redrives \in [Events -> 0 .. MaxRedrives]
  /\ owner \in [Events -> 0 .. MaxClaims]
  /\ claims \in [Events -> 0 .. MaxClaims]
  /\ expired \subseteq Events
  /\ waiting \subseteq Events
  /\ worker \in [Workers -> WorkerStates]
  /\ broker \in [Aggregates -> Seq(1 .. LastSequence)]

\* The first time the broker accepts an event it has accepted every earlier
\* one of the aggregate, also when stale workers send again.
FirstDeliveryInOrder ==
  \A a \in Aggregates : \A i \in DOMAIN broker[a] :
    \A m \in 1 .. broker[a][i] - 1 : \E j \in 1 .. i - 1 : broker[a][j] = m

\* Only one event of an aggregate is in flight, and its lease belongs to the
\* newest claim: reclaim never hands the event to two workers.
OneLeasePerAggregate ==
  /\ \A e \in Events : (status[e] = "publishing") = (owner[e] # 0)
  /\ \A e \in Events : owner[e] \in {0, claims[e]}
  /\ \A a \in Aggregates, m, n \in 1 .. LastSequence :
       status[<<a, m>>] = "publishing" /\ status[<<a, n>>] = "publishing" => m = n
  /\ \A v, w \in Workers : v # w =>
       \A c \in {x \in ClaimsOf(v) : HoldsLease(x)} : c \notin ClaimsOf(w)

\* An event that may be sent again has an attempt left, and one that has used
\* them all is dead-lettered, however its last attempt ended.
AttemptsRespected ==
  \A e \in Events :
    /\ status[e] = "pending" => attempts[e] < MaxAttempts
    /\ status[e] = "dead_letter" => attempts[e] = MaxAttempts
    /\ attempts[e] + redrives[e] * MaxAttempts >= claims[e]

\* A published event stays published and keeps its place: neither a late
\* failure, nor a reclaim, nor a redrive sends it back.
PublishedIsFinal ==
  [][\A e \in Events : status[e] = "published" => status'[e] = "published"]_vars

-----------------------------------------------------------------------------
(* Liveness.                                                               *)

\* Workers poll for ever, time passes, and a worker that died is started again.
WorkerFairness ==
  /\ \A w \in Workers :
       /\ SF_vars(ReclaimExpired(w))
       /\ SF_vars(ClaimPending(w))
       /\ WF_vars(Send(w))
       /\ WF_vars(MarkPublished(w))
       /\ WF_vars(MarkFailure(w))
  /\ \A e \in Events : WF_vars(LeaseExpires(e)) /\ WF_vars(BackoffEnds(e))

FairSpec == Spec /\ WorkerFairness

\* Every event that is enqueued reaches the broker and is marked, unless it or an earlier event
\* of its aggregate ends in the dead letters: crashes alone lose no event.
EveryEventSettles ==
  \A e \in Events :
    status[e] # "absent" ~>
      \/ status[e] = "published" /\ e[2] \in ToSet(broker[e[1]])
      \/ \E m \in 1 .. e[2] : status[<<e[1], m>>] = "dead_letter"
=============================================================================

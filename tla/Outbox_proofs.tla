--------------------------- MODULE Outbox_proofs ---------------------------
(***************************************************************************)
(* What Outbox guarantees for every set of aggregates and workers, every   *)
(* batch size and every bound on attempts and redrives: the order of first *)
(* deliveries, the single lease of an aggregate, and that a published      *)
(* event stays published.                                                  *)
(***************************************************************************)
EXTENDS Outbox, SequenceTheorems, TLAPS

\* The sequence numbers before an event, and whether all of them are out.
Earlier(e) == 1 .. e[2] - 1
EarlierPublished(e) == \A m \in Earlier(e) : status[<<e[1], m>>] = "published"

\* A lease belongs to the newest claim of its event, and only a lease expires.
LeasesGrounded ==
  /\ \A e \in Events : status[e] = "publishing" <=> owner[e] # 0
  /\ \A e \in Events : owner[e] \in {0, claims[e]}
  /\ \A e \in expired : status[e] = "publishing"

\* Leases, deliveries and claims respect the order of an aggregate.  A claim
\* outlives its lease, so that it needs the fact for itself.
OrderRespected ==
  /\ \A e \in Events : status[e] \in {"publishing", "published"} => EarlierPublished(e)
  /\ \A w \in Workers : \A c \in ClaimsOf(w) : EarlierPublished(c.event)

\* No two workers have the same claim, and while the lease of a claim is in
\* force the attempt it counts is the event's.
ClaimsUnique ==
  /\ \A w \in Workers : \A c \in ClaimsOf(w) :
       /\ c.owner <= claims[c.event]
       /\ HoldsLease(c) => c.attempt = attempts[c.event]
  /\ \A v, w \in Workers : v # w =>
       \A c \in ClaimsOf(v), d \in ClaimsOf(w) : c.event = d.event => c.owner # d.owner

\* The broker has what is marked, and what is about to be marked.
Accepted(e) == \E i \in DOMAIN broker[e[1]] : broker[e[1]][i] = e[2]

PublishedAccepted ==
  /\ \A e \in Events : status[e] = "published" => Accepted(e)
  /\ \A w \in Workers : worker[w].stage = "accepted" => Accepted(Head(worker[w].batch).event)

\* The arithmetic of attempts starts with an event nobody has claimed.
NewHasNoAttempt == \A e \in Events : status[e] = "absent" => attempts[e] = 0

IInv ==
  /\ TypeOK
  /\ AttemptsRespected /\ NewHasNoAttempt
  /\ LeasesGrounded
  /\ OrderRespected
  /\ ClaimsUnique
  /\ PublishedAccepted
  /\ FirstDeliveryInOrder

-----------------------------------------------------------------------------
(* An event is an aggregate and a number, and so are the ones before it.   *)
LEMMA EventFacts ==
  ASSUME NEW e \in Events
  PROVE  /\ e[1] \in Aggregates /\ e[2] \in 1 .. LastSequence /\ e = <<e[1], e[2]>>
         /\ e[2] \in Nat
         /\ \A m \in Earlier(e) : <<e[1], m>> \in Events /\ m \in 1 .. LastSequence
<1>1. LastSequence \in Nat
  BY OutboxAssumption
<1> QED BY <1>1 DEF Events, Earlier

(* A worker that has claims has a batch of them.                           *)
Busy == {"send", "accepted", "failed"}

LEMMA BatchFacts ==
  ASSUME TypeOK, NEW w \in Workers, worker[w].stage \in Busy
  PROVE  /\ worker[w] = [stage |-> worker[w].stage, batch |-> worker[w].batch]
         /\ worker[w].batch \in SeqOf(ClaimRecords, BatchSize) \ {<<>>}
         /\ worker[w].batch \in Seq(ClaimRecords) /\ worker[w].batch # <<>>
         /\ ClaimsOf(w) = ToSet(worker[w].batch)
         /\ Head(worker[w].batch) \in ClaimsOf(w)
<1>1. worker[w] \in [stage : Busy, batch : SeqOf(ClaimRecords, BatchSize) \ {<<>>}]
  BY DEF TypeOK, WorkerStates, Idle, Busy
<1>2. PICK k \in 0 .. BatchSize : worker[w].batch \in [1 .. k -> ClaimRecords]
  BY <1>1 DEF SeqOf
<1>3. k \in Nat /\ worker[w].batch # <<>>
  BY <1>1, OutboxAssumption
<1>4. worker[w].batch \in Seq(ClaimRecords) /\ 1 \in DOMAIN worker[w].batch
  BY <1>2, <1>3
<1> QED BY <1>1, <1>3, <1>4 DEF ClaimsOf, ToSet, Busy

LEMMA ClaimFacts ==
  ASSUME TypeOK, NEW w \in Workers, NEW c \in ClaimsOf(w)
  PROVE  /\ worker[w].stage \in Busy
         /\ c \in ClaimRecords /\ c.event \in Events
         /\ c.owner \in Nat \ {0} /\ c.attempt \in 1 .. MaxAttempts
<1>1. worker[w].stage \in Busy
  BY DEF ClaimsOf, Busy
<1>2. c \in ClaimRecords
  <2>1. \A i \in DOMAIN worker[w].batch : worker[w].batch[i] \in ClaimRecords
    BY <1>1, BatchFacts, LenProperties
  <2>2. c \in ToSet(worker[w].batch)
    BY <1>1, BatchFacts
  <2> QED BY <2>1, <2>2 DEF ToSet
<1>3. MaxClaims \in Nat /\ MaxAttempts \in Nat
  BY OutboxAssumption DEF MaxClaims
<1> QED BY <1>1, <1>2, <1>3 DEF ClaimRecords

(* A worker whose state is given up or kept has no new claims; after a     *)
(* report it has the rest of its batch.                                    *)
LEMMA NextClaimFacts ==
  ASSUME TypeOK, NEW w \in Workers, worker[w].stage \in Busy, NextClaim(w)
  PROVE  /\ worker' \in [Workers -> WorkerStates]
         /\ worker'[w].stage # "accepted"
         /\ \A v \in Workers : v # w => worker'[v] = worker[v]
         /\ \A v \in Workers : ClaimsOf(v)' \subseteq ClaimsOf(v)
<1> DEFINE b == worker[w].batch
<1>1. worker \in [Workers -> WorkerStates]
  BY DEF TypeOK
<1>2. PICK k \in 1 .. BatchSize : b \in [1 .. k -> ClaimRecords]
  <2>1. PICK k \in 0 .. BatchSize : b \in [1 .. k -> ClaimRecords]
    BY BatchFacts DEF SeqOf
  <2>2. b # <<>> /\ BatchSize \in Nat
    BY BatchFacts, OutboxAssumption
  <2> QED BY <2>1, <2>2
<1>3. b \in Seq(ClaimRecords) /\ Len(b) = k /\ k \in Nat
  BY <1>2, OutboxAssumption
<1>4. CASE Len(b) = 1
  <2>1. worker' = [worker EXCEPT ![w] = Idle]
    BY <1>4, <1>1 DEF NextClaim
  <2>2. Idle \in WorkerStates /\ Idle.stage = "idle"
    BY DEF WorkerStates, Idle
  <2> QED BY <2>1, <2>2, <1>1 DEF ClaimsOf
<1>5. CASE Len(b) # 1
  <2> DEFINE next == [stage |-> "send", batch |-> Tail(b)]
  <2>1. worker' = [worker EXCEPT ![w] = next]
    BY <1>5, <1>1 DEF NextClaim
  <2>2. Tail(b) \in [1 .. k - 1 -> ClaimRecords] /\ k - 1 \in 0 .. BatchSize /\ k - 1 # 0
    <3>1. k - 1 \in 0 .. BatchSize /\ k - 1 # 0
      BY <1>3, <1>5, OutboxAssumption
    <3>2. Tail(b) \in Seq(ClaimRecords) /\ Len(Tail(b)) = k - 1
      BY <1>3, BatchFacts, HeadTailProperties
    <3> QED BY <3>1, <3>2, LenProperties
  <2>3. Tail(b) \in SeqOf(ClaimRecords, BatchSize) \ {<<>>}
    <3>1. Tail(b) # <<>>
      BY <2>2
    <3> QED BY <2>2, <3>1 DEF SeqOf
  <2>4. next \in WorkerStates
    BY <2>3 DEF WorkerStates
  <2>5. \A i \in DOMAIN Tail(b) : Tail(b)[i] = b[i + 1] /\ i + 1 \in DOMAIN b
    BY <1>2, <1>3, <2>2
  <2>6. ToSet(Tail(b)) \subseteq ToSet(b)
    BY <2>5 DEF ToSet
  <2>7. worker'[w] = next /\ \A v \in Workers : v # w => worker'[v] = worker[v]
    BY <2>1, <1>1
  <2>8. ClaimsOf(w)' \subseteq ClaimsOf(w)
    BY <2>6, <2>7 DEF ClaimsOf, Busy
  <2> QED BY <2>1, <2>4, <2>7, <2>8, <1>1 DEF ClaimsOf
<1> QED BY <1>4, <1>5

(* Steps that hand out no lease and send nothing back keep the order and   *)
(* the claims as they are.                                                 *)
LEMMA OrderKept ==
  ASSUME TypeOK, OrderRespected,
         \A e \in Events : status[e] = "published" => status'[e] = "published",
         \A e \in Events : status'[e] \in {"publishing", "published"}
                             => status[e] \in {"publishing", "published"},
         \A v \in Workers : ClaimsOf(v)' \subseteq ClaimsOf(v)
  PROVE  OrderRespected'
<1>1. \A e \in Events : EarlierPublished(e) => EarlierPublished(e)'
  BY EventFacts DEF EarlierPublished, Earlier
<1>2. \A e \in Events : status'[e] \in {"publishing", "published"} => EarlierPublished(e)'
  BY <1>1 DEF OrderRespected
<1>3. ASSUME NEW v \in Workers, NEW c \in ClaimsOf(v)'
      PROVE  EarlierPublished(c.event)'
  <2>1. c \in ClaimsOf(v)
    BY <1>3
  <2>2. c.event \in Events /\ EarlierPublished(c.event)
    BY <2>1, ClaimFacts DEF OrderRespected
  <2> QED BY <2>2, <1>1
<1> QED BY <1>2, <1>3 DEF OrderRespected

LEMMA ClaimsKept ==
  ASSUME TypeOK, ClaimsUnique, claims' = claims,
         \A e \in Events : status'[e] = "publishing" =>
           status[e] = "publishing" /\ owner'[e] = owner[e] /\ attempts'[e] = attempts[e],
         \A v \in Workers : ClaimsOf(v)' \subseteq ClaimsOf(v)
  PROVE  ClaimsUnique'
<1>1. ASSUME NEW v \in Workers, NEW c \in ClaimsOf(v)'
      PROVE  c.owner <= claims'[c.event] /\ (HoldsLease(c)' => c.attempt = attempts'[c.event])
  <2>1. c \in ClaimsOf(v)
    BY <1>1
  <2>2. c.event \in Events
    BY <2>1, ClaimFacts
  <2> QED BY <2>1, <2>2 DEF ClaimsUnique, HoldsLease
<1>2. ASSUME NEW v \in Workers, NEW x \in Workers, v # x,
             NEW c \in ClaimsOf(v)', NEW d \in ClaimsOf(x)', c.event = d.event
      PROVE  c.owner # d.owner
  BY <1>2 DEF ClaimsUnique
<1> QED BY <1>1, <1>2 DEF ClaimsUnique

(* What the broker has accepted stays accepted.                            *)
LEMMA AcceptedKept ==
  ASSUME PublishedAccepted, broker' = broker,
         \A e \in Events : status'[e] = "published" => status[e] = "published",
         \A v \in Workers : worker'[v].stage = "accepted" => worker'[v] = worker[v]
  PROVE  PublishedAccepted'
BY DEF PublishedAccepted, Accepted

(* Initially nothing has happened.                                         *)
LEMMA InitInvariant == Init => IInv
<1> SUFFICES ASSUME Init PROVE IInv
  OBVIOUS
<1> USE OutboxAssumption DEF Init
<1>1. MaxClaims \in Nat
  BY DEF MaxClaims
<1>2. TypeOK
  BY <1>1 DEF TypeOK, Statuses, WorkerStates, Idle
<1>3. AttemptsRespected /\ NewHasNoAttempt
  <2>1. 0 + 0 * MaxAttempts >= 0
    OBVIOUS
  <2> QED BY <2>1 DEF AttemptsRespected, NewHasNoAttempt
<1>4. LeasesGrounded
  BY DEF LeasesGrounded
<1>5. \A w \in Workers : worker[w] = Idle /\ ClaimsOf(w) = {}
  BY DEF ClaimsOf, Idle
<1>6. OrderRespected /\ ClaimsUnique /\ PublishedAccepted
  BY <1>5 DEF OrderRespected, ClaimsUnique, PublishedAccepted, Idle
<1>7. FirstDeliveryInOrder
  BY DEF FirstDeliveryInOrder
<1> QED BY <1>2, <1>3, <1>4, <1>6, <1>7 DEF IInv

-----------------------------------------------------------------------------
(* The actions, one lemma each.                                            *)
PublishedStays == \A e \in Events : status[e] = "published" => status'[e] = "published"

(* A first redrive more is worth a full set of attempts.                   *)
LEMMA RedriveBudget ==
  /\ \A r \in Nat : (r + 1) * MaxAttempts = r * MaxAttempts + MaxAttempts
  /\ \A r \in 0 .. MaxRedrives : r * MaxAttempts \in Nat
  /\ \A r \in 0 .. MaxRedrives : r * MaxAttempts + MaxAttempts <= MaxClaims
<1>1. MaxAttempts \in Nat /\ MaxRedrives \in Nat
  BY OutboxAssumption
<1> QED BY <1>1, SMTT(30) DEF MaxClaims

(* The next event of an aggregate enters the queue.                        *)
LEMMA EnqueueInvariant ==
  ASSUME IInv, NEW a \in Aggregates, EnqueueEvent(a)
  PROVE  IInv' /\ PublishedStays
<1>1. PICK n \in 1 .. LastSequence :
        /\ status[<<a, n>>] = "absent"
        /\ outbox' = Append(outbox, <<a, n>>)
        /\ status' = [status EXCEPT ![<<a, n>>] = "pending"]
  BY DEF EnqueueEvent
<1>2. UNCHANGED <<attempts, redrives, owner, claims, expired, waiting, worker, broker>>
  BY DEF EnqueueEvent
<1>3. <<a, n>> \in Events
  BY DEF Events
<1>4. TypeOK /\ TypeOK'
  <2>1. TypeOK
    BY DEF IInv
  <2>2. outbox' \in Seq(Events)
    BY <1>1, <1>3, <2>1, AppendProperties DEF TypeOK
  <2>3. status' \in [Events -> Statuses]
    BY <1>1, <2>1 DEF TypeOK, Statuses
  <2> QED BY <1>2, <2>1, <2>2, <2>3 DEF TypeOK
<1>5. \A e \in Events : e # <<a, n>> => status'[e] = status[e]
  BY <1>1, <1>4 DEF TypeOK
<1>6. status'[<<a, n>>] = "pending"
  BY <1>1, <1>3, <1>4 DEF TypeOK
<1>7. PublishedStays
  BY <1>1, <1>5 DEF PublishedStays
<1>8. AttemptsRespected' /\ NewHasNoAttempt'
  <2>1. attempts[<<a, n>>] < MaxAttempts
    BY <1>1, <1>3, OutboxAssumption DEF IInv, NewHasNoAttempt
  <2> QED BY <2>1, <1>2, <1>5, <1>6 DEF IInv, AttemptsRespected, NewHasNoAttempt
<1>9. LeasesGrounded'
  BY <1>1, <1>2, <1>5, <1>6 DEF IInv, LeasesGrounded
<1>10. \A v \in Workers : ClaimsOf(v)' = ClaimsOf(v)
  BY <1>2 DEF ClaimsOf
<1>11. OrderRespected'
  BY <1>4, <1>5, <1>6, <1>7, <1>10, OrderKept DEF IInv, PublishedStays
<1>12. ClaimsUnique'
  BY <1>2, <1>4, <1>5, <1>6, <1>10, ClaimsKept DEF IInv
<1>13. PublishedAccepted'
  BY <1>2, <1>5, <1>6, AcceptedKept DEF IInv
<1>14. FirstDeliveryInOrder'
  BY <1>2 DEF IInv, FirstDeliveryInOrder
<1> QED BY <1>4, <1>7, <1>8, <1>9, <1>11, <1>12, <1>13, <1>14 DEF IInv

(* Expired leases are taken back.                                          *)
LEMMA ReclaimInvariant ==
  ASSUME IInv, NEW w \in Workers, ReclaimExpired(w)
  PROVE  IInv' /\ PublishedStays
<1>1. TypeOK /\ LeasesGrounded /\ AttemptsRespected
  BY DEF IInv
<1>2. /\ status' = [e \in Events |->
                      IF e \notin expired THEN status[e]
                      ELSE IF attempts[e] >= MaxAttempts THEN "dead_letter" ELSE "pending"]
      /\ owner' = [e \in Events |-> IF e \in expired THEN 0 ELSE owner[e]]
      /\ expired' = {} /\ waiting' = waiting \ expired
      /\ worker' = [worker EXCEPT ![w] = [stage |-> "claim"]]
      /\ UNCHANGED <<outbox, attempts, redrives, claims, broker>>
  BY DEF ReclaimExpired
<1>3. \A e \in Events \ expired : status'[e] = status[e] /\ owner'[e] = owner[e]
  <2>1. ASSUME NEW e \in Events, e \notin expired
        PROVE  status'[e] = status[e] /\ owner'[e] = owner[e]
    BY <1>2, <2>1
  <2> QED BY <2>1
<1>4. ASSUME NEW e \in expired
      PROVE  /\ e \in Events /\ owner'[e] = 0 /\ status[e] = "publishing"
             /\ status'[e] = IF attempts[e] >= MaxAttempts THEN "dead_letter" ELSE "pending"
  BY <1>1, <1>2 DEF TypeOK, LeasesGrounded
<1>5. MaxClaims \in Nat /\ MaxAttempts \in Nat
  BY OutboxAssumption DEF MaxClaims
<1>6. \A e \in Events : status'[e] \in Statuses /\ owner'[e] \in 0 .. MaxClaims
  <2>1. ASSUME NEW e \in Events
        PROVE  status'[e] \in Statuses /\ owner'[e] \in 0 .. MaxClaims
    <3>1. CASE e \in expired
      BY <3>1, <1>4, <1>5 DEF Statuses
    <3>2. CASE e \notin expired
      BY <3>2, <1>1, <1>3 DEF TypeOK
    <3> QED BY <3>1, <3>2
  <2> QED BY <2>1
<1>7. TypeOK'
  <2>1. [stage |-> "claim"] \in WorkerStates
    BY DEF WorkerStates
  <2>2. status' \in [Events -> Statuses] /\ owner' \in [Events -> 0 .. MaxClaims]
    BY <1>2, <1>6
  <2> QED BY <1>1, <1>2, <2>1, <2>2 DEF TypeOK
<1>8. PublishedStays
  BY <1>3, <1>4 DEF PublishedStays
<1>9. AttemptsRespected' /\ NewHasNoAttempt'
  <2>1. \A e \in Events : attempts[e] \in 0 .. MaxAttempts
    BY <1>1 DEF TypeOK
  <2>2. ASSUME NEW e \in Events
        PROVE  /\ status'[e] = "pending" => attempts'[e] < MaxAttempts
               /\ status'[e] = "dead_letter" => attempts'[e] = MaxAttempts
               /\ status'[e] = "absent" => attempts'[e] = 0
    <3>1. CASE e \in expired
      BY <3>1, <2>1, <1>2, <1>4, <1>5
    <3>2. CASE e \notin expired
      BY <3>2, <1>1, <1>2, <1>3 DEF IInv, AttemptsRespected, NewHasNoAttempt
    <3> QED BY <3>1, <3>2
  <2> QED BY <1>1, <1>2, <2>2 DEF AttemptsRespected, NewHasNoAttempt
<1>10. LeasesGrounded'
  <2>1. ASSUME NEW e \in Events
        PROVE  (status'[e] = "publishing" <=> owner'[e] # 0) /\ owner'[e] \in {0, claims'[e]}
    <3>1. CASE e \in expired
      BY <3>1, <1>4
    <3>2. CASE e \notin expired
      BY <3>2, <1>1, <1>2, <1>3 DEF LeasesGrounded
    <3> QED BY <3>1, <3>2
  <2> QED BY <1>2, <2>1 DEF LeasesGrounded
<1>11. worker'[w] = [stage |-> "claim"] /\ \A v \in Workers : v # w => worker'[v] = worker[v]
  BY <1>1, <1>2 DEF TypeOK
<1>12. \A v \in Workers : ClaimsOf(v)' \subseteq ClaimsOf(v)
  BY <1>11 DEF ClaimsOf
<1>13. OrderRespected'
  BY <1>1, <1>3, <1>4, <1>8, <1>12, OrderKept DEF IInv, PublishedStays
<1>14. ClaimsUnique'
  BY <1>1, <1>2, <1>3, <1>4, <1>12, ClaimsKept DEF IInv
<1>15. PublishedAccepted'
  BY <1>2, <1>3, <1>4, <1>11, AcceptedKept DEF IInv
<1>16. FirstDeliveryInOrder'
  BY <1>2 DEF IInv, FirstDeliveryInOrder
<1> QED BY <1>7, <1>8, <1>9, <1>10, <1>13, <1>14, <1>15, <1>16 DEF IInv

(* A worker sends the event its claim names: every earlier one is marked,  *)
(* so that the broker has it.                                              *)
LEMMA SendInvariant ==
  ASSUME IInv, NEW w \in Workers, Send(w)
  PROVE  IInv' /\ PublishedStays
<1> DEFINE e == Head(worker[w].batch).event
<1>1. TypeOK /\ worker[w].stage \in Busy
  BY DEF IInv, Send, Busy
<1>2. PICK accepted \in BOOLEAN, raised \in BOOLEAN :
        /\ accepted \/ raised
        /\ broker' = [broker EXCEPT ![e[1]] = IF accepted THEN Append(@, e[2]) ELSE @]
        /\ worker' = [worker EXCEPT ![w].stage = IF raised THEN "failed" ELSE "accepted"]
  BY DEF Send
<1>3. UNCHANGED <<outbox, status, attempts, redrives, owner, claims, expired, waiting>>
  BY DEF Send, leaseVars
<1>4. Head(worker[w].batch) \in ClaimsOf(w)
  BY <1>1, BatchFacts
<1>5. PICK x \in Events : x = e /\ EarlierPublished(x)
  BY <1>1, <1>4, ClaimFacts DEF IInv, OrderRespected
<1>6. /\ x[1] \in Aggregates /\ x[2] \in 1 .. LastSequence /\ x[2] \in Nat
      /\ \A m \in Earlier(x) : <<x[1], m>> \in Events
  BY EventFacts
<1>7. \A a \in Aggregates : broker[a] \in Seq(1 .. LastSequence)
  BY <1>1 DEF TypeOK
<1>8. /\ \A a \in Aggregates : a # x[1] => broker'[a] = broker[a]
      /\ broker'[x[1]] = IF accepted THEN Append(broker[x[1]], x[2]) ELSE broker[x[1]]
  BY <1>1, <1>2, <1>5, <1>6 DEF TypeOK
<1>9. PICK s \in {"failed", "accepted"} :
        /\ s = "accepted" => accepted
        /\ worker' = [worker EXCEPT ![w].stage = s]
  BY <1>2
<1>10. /\ worker'[w] = [stage |-> s, batch |-> worker[w].batch]
       /\ \A v \in Workers : v # w => worker'[v] = worker[v]
  BY <1>1, <1>9, BatchFacts DEF TypeOK
<1>11. TypeOK'
  <2>1. worker'[w] \in WorkerStates
    <3>1. worker[w].batch \in SeqOf(ClaimRecords, BatchSize) \ {<<>>}
      BY <1>1, BatchFacts
    <3> QED BY <1>9, <1>10, <3>1 DEF WorkerStates
  <2>2. worker' \in [Workers -> WorkerStates]
    BY <1>1, <1>9, <1>10, <2>1 DEF TypeOK
  <2>3. broker' \in [Aggregates -> Seq(1 .. LastSequence)]
    <3>1. Append(broker[x[1]], x[2]) \in Seq(1 .. LastSequence)
      BY <1>6, <1>7, AppendProperties
    <3> QED BY <1>1, <1>2, <1>5, <1>7, <3>1 DEF TypeOK
  <2> QED BY <1>1, <1>3, <2>2, <2>3 DEF TypeOK
<1>12. \A v \in Workers : ClaimsOf(v)' \subseteq ClaimsOf(v)
  BY <1>1, <1>9, <1>10 DEF ClaimsOf, Busy
<1>13. PublishedStays
  BY <1>3 DEF PublishedStays
<1>14. AttemptsRespected' /\ NewHasNoAttempt' /\ LeasesGrounded'
  BY <1>3 DEF IInv, AttemptsRespected, NewHasNoAttempt, LeasesGrounded
<1>15. OrderRespected'
  BY <1>1, <1>3, <1>12, OrderKept DEF IInv
<1>16. ClaimsUnique'
  BY <1>1, <1>3, <1>12, ClaimsKept DEF IInv
<1>17. \A y \in Events : Accepted(y) => Accepted(y)'
  <2>1. SUFFICES ASSUME NEW y \in Events, NEW i \in DOMAIN broker[y[1]], broker[y[1]][i] = y[2]
                 PROVE  i \in DOMAIN broker'[y[1]] /\ broker'[y[1]][i] = y[2]
    BY DEF Accepted
  <2>2. y[1] \in Aggregates
    BY EventFacts
  <2>3. i \in 1 .. Len(broker[y[1]])
    BY <1>7, <2>1, <2>2, LenProperties
  <2>4. CASE broker'[y[1]] = broker[y[1]]
    BY <2>1, <2>4
  <2>5. CASE y[1] = x[1] /\ broker'[y[1]] = Append(broker[y[1]], x[2])
    <3>1. /\ broker'[y[1]] \in Seq(1 .. LastSequence)
          /\ Len(broker'[y[1]]) = Len(broker[y[1]]) + 1 /\ Len(broker[y[1]]) \in Nat
          /\ broker'[y[1]][i] = broker[y[1]][i]
      BY <1>6, <1>7, <2>2, <2>3, <2>5, AppendProperties, LenProperties
    <3>2. i \in DOMAIN broker'[y[1]]
      BY <2>3, <3>1, LenProperties
    <3> QED BY <2>1, <3>1, <3>2
  <2> QED BY <1>8, <2>2, <2>4, <2>5
<1>18. accepted => Accepted(x)'
  <2>1. SUFFICES ASSUME accepted PROVE Accepted(x)'
    OBVIOUS
  <2>2. /\ Len(broker[x[1]]) + 1 \in DOMAIN broker'[x[1]]
        /\ broker'[x[1]][Len(broker[x[1]]) + 1] = x[2]
    BY <1>6, <1>7, <1>8, <2>1, AppendProperties, LenProperties
  <2> QED BY <2>2 DEF Accepted
<1>19. PublishedAccepted'
  <2>1. ASSUME NEW v \in Workers, worker'[v].stage = "accepted"
        PROVE  Accepted(Head(worker[v].batch).event)'
    <3>1. CASE v = w
      BY <3>1, <2>1, <1>5, <1>9, <1>10, <1>18
    <3>2. CASE v # w
      <4>1. worker[v].stage \in Busy /\ worker'[v] = worker[v]
        BY <3>2, <2>1, <1>10 DEF Busy
      <4>2. Head(worker[v].batch).event \in Events
        BY <1>1, <4>1, BatchFacts, ClaimFacts
      <4> QED BY <2>1, <4>1, <4>2, <1>17 DEF IInv, PublishedAccepted
    <3> QED BY <3>1, <3>2
  <2> QED BY <1>3, <1>17, <2>1 DEF IInv, PublishedAccepted
<1>20. FirstDeliveryInOrder'
  <2>1. SUFFICES ASSUME NEW a \in Aggregates, NEW i \in DOMAIN broker'[a],
                        NEW m \in 1 .. broker'[a][i] - 1
                 PROVE  \E j \in 1 .. i - 1 : broker'[a][j] = m
    BY DEF FirstDeliveryInOrder
  <2>2. FirstDeliveryInOrder
    BY DEF IInv
  <2>3. CASE broker'[a] = broker[a]
    BY <2>1, <2>2, <2>3 DEF FirstDeliveryInOrder
  <2>4. CASE broker'[a] # broker[a]
    <3>1. a = x[1] /\ broker'[a] = Append(broker[a], x[2])
      BY <1>8, <2>4
    <3>2. /\ broker[a] \in Seq(1 .. LastSequence) /\ Len(broker[a]) \in Nat
          /\ DOMAIN broker[a] = 1 .. Len(broker[a])
      BY <1>7, LenProperties
    <3>3. /\ i \in 1 .. Len(broker[a]) + 1
          /\ broker'[a][Len(broker[a]) + 1] = x[2]
          /\ \A j \in 1 .. Len(broker[a]) : broker'[a][j] = broker[a][j]
      BY <1>6, <2>1, <3>1, <3>2, AppendProperties, LenProperties
    <3>4. CASE i \in 1 .. Len(broker[a])
      <4>1. PICK j \in 1 .. i - 1 : broker[a][j] = m
        BY <2>1, <2>2, <3>2, <3>3, <3>4 DEF FirstDeliveryInOrder
      <4> QED BY <3>2, <3>3, <3>4, <4>1
    <3>5. CASE i = Len(broker[a]) + 1
      <4>1. m \in Earlier(x) /\ status[<<x[1], m>>] = "published"
        BY <2>1, <3>3, <3>5, <1>5 DEF Earlier, EarlierPublished
      <4>2. Accepted(<<x[1], m>>)
        BY <4>1, <1>6 DEF IInv, PublishedAccepted
      <4>3. PICK j \in DOMAIN broker[a] : broker[a][j] = m
        BY <4>2, <3>1 DEF Accepted
      <4> QED BY <3>2, <3>3, <3>5, <4>3
    <3> QED BY <3>2, <3>3, <3>4, <3>5
  <2> QED BY <2>3, <2>4
<1> QED BY <1>11, <1>13, <1>14, <1>15, <1>16, <1>19, <1>20 DEF IInv

(* A successful send is reported: the event is marked if the lease is      *)
(* still the one of the claim.                                             *)
LEMMA PublishedInvariant ==
  ASSUME IInv, NEW w \in Workers, MarkPublished(w)
  PROVE  IInv' /\ PublishedStays
<1>1. TypeOK /\ LeasesGrounded /\ worker[w].stage \in Busy /\ NextClaim(w)
  BY DEF IInv, MarkPublished, Busy
<1>2. PICK c \in ClaimsOf(w) : c = Head(worker[w].batch)
  BY <1>1, BatchFacts
<1>3. c.event \in Events /\ EarlierPublished(c.event)
  BY <1>1, ClaimFacts DEF IInv, OrderRespected
<1>4. Accepted(c.event)
  BY <1>2 DEF IInv, MarkPublished, PublishedAccepted
<1>5. /\ worker' \in [Workers -> WorkerStates]
      /\ \A v \in Workers : worker'[v].stage = "accepted" => worker'[v] = worker[v]
      /\ \A v \in Workers : ClaimsOf(v)' \subseteq ClaimsOf(v)
  BY <1>1, NextClaimFacts
<1>6. UNCHANGED <<outbox, attempts, redrives, claims, waiting, broker>>
  BY DEF MarkPublished
<1>7. CASE ~HoldsLease(c)
  <2>1. UNCHANGED <<status, owner, expired>>
    BY <1>2, <1>7 DEF MarkPublished
  <2>2. TypeOK'
    BY <1>1, <1>5, <1>6, <2>1 DEF TypeOK
  <2>3. AttemptsRespected' /\ NewHasNoAttempt' /\ LeasesGrounded' /\ FirstDeliveryInOrder'
    BY <1>6, <2>1 DEF IInv, AttemptsRespected, NewHasNoAttempt, LeasesGrounded, FirstDeliveryInOrder
  <2>4. OrderRespected' /\ ClaimsUnique' /\ PublishedAccepted'
    BY <1>1, <1>5, <1>6, <2>1, OrderKept, ClaimsKept, AcceptedKept DEF IInv
  <2> QED BY <2>1, <2>2, <2>3, <2>4 DEF IInv, PublishedStays
<1>8. CASE HoldsLease(c)
  <2>1. /\ status' = [status EXCEPT ![c.event] = "published"]
        /\ owner' = [owner EXCEPT ![c.event] = 0]
        /\ expired' = expired \ {c.event}
    BY <1>2, <1>8 DEF MarkPublished
  <2>2. status[c.event] = "publishing"
    BY <1>8 DEF HoldsLease
  <2>3. /\ status'[c.event] = "published" /\ owner'[c.event] = 0
        /\ \A e \in Events : e # c.event => status'[e] = status[e] /\ owner'[e] = owner[e]
    BY <1>1, <1>3, <2>1 DEF TypeOK
  <2>4. TypeOK'
    <3>1. MaxClaims \in Nat
      BY OutboxAssumption DEF MaxClaims
    <3>2. status' \in [Events -> Statuses]
      BY <1>1, <2>1 DEF TypeOK, Statuses
    <3>3. owner' \in [Events -> 0 .. MaxClaims] /\ expired' \subseteq Events
      <4>1. 0 \in 0 .. MaxClaims
        BY <3>1
      <4> QED BY <1>1, <2>1, <4>1 DEF TypeOK
    <3> QED BY <1>1, <1>5, <1>6, <3>2, <3>3 DEF TypeOK
  <2>5. PublishedStays
    BY <2>3 DEF PublishedStays
  <2>6. AttemptsRespected' /\ NewHasNoAttempt' /\ FirstDeliveryInOrder'
    BY <1>6, <2>3 DEF IInv, AttemptsRespected, NewHasNoAttempt, FirstDeliveryInOrder
  <2>7. LeasesGrounded'
    BY <1>1, <1>6, <2>1, <2>3 DEF LeasesGrounded, TypeOK
  <2>8. OrderRespected' /\ ClaimsUnique'
    BY <1>1, <1>5, <1>6, <2>2, <2>3, <2>5, OrderKept, ClaimsKept DEF IInv, PublishedStays
  <2>9. PublishedAccepted'
    <3>1. \A y : Accepted(y)' <=> Accepted(y)
      BY <1>6 DEF Accepted
    <3>2. \A e \in Events : status'[e] = "published" => Accepted(e)'
      BY <1>4, <2>3, <3>1 DEF IInv, PublishedAccepted
    <3>3. \A v \in Workers : worker'[v].stage = "accepted" =>
            Accepted(Head(worker[v].batch).event)' /\ worker'[v] = worker[v]
      BY <1>5, <3>1 DEF IInv, PublishedAccepted
    <3> QED BY <3>2, <3>3 DEF PublishedAccepted
  <2> QED BY <2>4, <2>5, <2>6, <2>7, <2>8, <2>9 DEF IInv
<1> QED BY <1>7, <1>8

(* A failed send is reported: the event waits for its retry, or is         *)
(* dead-lettered after its last attempt.                                   *)
LEMMA FailureInvariant ==
  ASSUME IInv, NEW w \in Workers, MarkFailure(w)
  PROVE  IInv' /\ PublishedStays
<1>1. TypeOK /\ LeasesGrounded /\ worker[w].stage \in Busy /\ NextClaim(w)
  BY DEF IInv, MarkFailure, Busy
<1>2. PICK c \in ClaimsOf(w) : c = Head(worker[w].batch)
  BY <1>1, BatchFacts
<1>3. c.event \in Events /\ c.attempt \in 1 .. MaxAttempts
  BY <1>1, ClaimFacts
<1>4. /\ worker' \in [Workers -> WorkerStates]
      /\ \A v \in Workers : worker'[v].stage = "accepted" => worker'[v] = worker[v]
      /\ \A v \in Workers : ClaimsOf(v)' \subseteq ClaimsOf(v)
  BY <1>1, NextClaimFacts
<1>5. UNCHANGED <<outbox, attempts, redrives, claims, broker>>
  BY DEF MarkFailure
<1>6. CASE ~HoldsLease(c)
  <2>1. UNCHANGED <<status, owner, expired, waiting>>
    BY <1>2, <1>6 DEF MarkFailure
  <2>2. TypeOK'
    BY <1>1, <1>4, <1>5, <2>1 DEF TypeOK
  <2>3. AttemptsRespected' /\ NewHasNoAttempt' /\ LeasesGrounded' /\ FirstDeliveryInOrder'
    BY <1>5, <2>1 DEF IInv, AttemptsRespected, NewHasNoAttempt, LeasesGrounded, FirstDeliveryInOrder
  <2>4. OrderRespected' /\ ClaimsUnique' /\ PublishedAccepted'
    BY <1>1, <1>4, <1>5, <2>1, OrderKept, ClaimsKept, AcceptedKept DEF IInv
  <2> QED BY <2>1, <2>2, <2>3, <2>4 DEF IInv, PublishedStays
<1>7. CASE HoldsLease(c)
  <2>1. PICK next \in {"dead_letter", "pending"} :
          /\ next = "dead_letter" <=> c.attempt >= MaxAttempts
          /\ status' = [status EXCEPT ![c.event] = next]
          /\ owner' = [owner EXCEPT ![c.event] = 0]
          /\ expired' = expired \ {c.event}
          /\ waiting' \subseteq waiting \cup {c.event}
    <3>1. CASE c.attempt >= MaxAttempts
      BY <1>2, <1>7, <3>1 DEF MarkFailure
    <3>2. CASE ~(c.attempt >= MaxAttempts)
      BY <1>2, <1>7, <3>2 DEF MarkFailure
    <3> QED BY <3>1, <3>2
  <2>2. status[c.event] = "publishing" /\ c.attempt = attempts[c.event]
    BY <1>7 DEF HoldsLease, IInv, ClaimsUnique
  <2>3. /\ status'[c.event] = next /\ owner'[c.event] = 0
        /\ \A e \in Events : e # c.event => status'[e] = status[e] /\ owner'[e] = owner[e]
    BY <1>1, <1>3, <2>1 DEF TypeOK
  <2>4. TypeOK'
    <3>1. MaxClaims \in Nat
      BY OutboxAssumption DEF MaxClaims
    <3>2. status' \in [Events -> Statuses]
      BY <1>1, <2>1 DEF TypeOK, Statuses
    <3>3. /\ owner' \in [Events -> 0 .. MaxClaims]
          /\ expired' \subseteq Events /\ waiting' \subseteq Events
      BY <1>1, <1>3, <2>1, <3>1 DEF TypeOK
    <3> QED BY <1>1, <1>4, <1>5, <3>2, <3>3 DEF TypeOK
  <2>5. PublishedStays
    BY <2>2, <2>3 DEF PublishedStays
  <2>6. AttemptsRespected' /\ NewHasNoAttempt'
    <3>1. /\ next = "pending" => attempts[c.event] < MaxAttempts
          /\ next = "dead_letter" => attempts[c.event] = MaxAttempts
      BY <1>3, <2>1, <2>2, OutboxAssumption
    <3> QED BY <1>5, <2>3, <3>1 DEF IInv, AttemptsRespected, NewHasNoAttempt
  <2>7. LeasesGrounded'
    BY <1>1, <1>5, <2>1, <2>3 DEF LeasesGrounded, TypeOK
  <2>8. OrderRespected' /\ ClaimsUnique' /\ PublishedAccepted'
    BY <1>1, <1>4, <1>5, <2>2, <2>3, <2>5, OrderKept, ClaimsKept, AcceptedKept
    DEF IInv, PublishedStays
  <2>9. FirstDeliveryInOrder'
    BY <1>5 DEF IInv, FirstDeliveryInOrder
  <2> QED BY <2>4, <2>5, <2>6, <2>7, <2>8, <2>9 DEF IInv
<1> QED BY <1>6, <1>7

(* A worker dies.                                                          *)
LEMMA CrashInvariant ==
  ASSUME IInv, NEW w \in Workers, CrashWorker(w)
  PROVE  IInv' /\ PublishedStays
<1>1. /\ worker' = [worker EXCEPT ![w] = Idle]
      /\ UNCHANGED <<outbox, status, attempts, redrives, owner, claims, expired, waiting, broker>>
  BY DEF CrashWorker, leaseVars
<1>2. TypeOK /\ TypeOK'
  BY <1>1 DEF IInv, TypeOK, WorkerStates
<1>3. worker'[w] = Idle /\ \A v \in Workers : v # w => worker'[v] = worker[v]
  BY <1>1, <1>2 DEF TypeOK
<1>4. /\ \A v \in Workers : ClaimsOf(v)' \subseteq ClaimsOf(v)
      /\ \A v \in Workers : worker'[v].stage = "accepted" => worker'[v] = worker[v]
  BY <1>3 DEF ClaimsOf, Idle
<1>5. AttemptsRespected' /\ NewHasNoAttempt' /\ LeasesGrounded' /\ FirstDeliveryInOrder'
  BY <1>1 DEF IInv, AttemptsRespected, NewHasNoAttempt, LeasesGrounded, FirstDeliveryInOrder
<1>6. OrderRespected' /\ ClaimsUnique' /\ PublishedAccepted'
  BY <1>1, <1>2, <1>4, OrderKept, ClaimsKept, AcceptedKept DEF IInv
<1> QED BY <1>1, <1>2, <1>5, <1>6 DEF IInv, PublishedStays

(* An operator sends a dead-lettered event back.                           *)
LEMMA RedriveInvariant ==
  ASSUME IInv, NEW e \in Events, RedriveEvent(e)
  PROVE  IInv' /\ PublishedStays
<1>1. /\ status[e] = "dead_letter" /\ redrives[e] < MaxRedrives
      /\ status' = [status EXCEPT ![e] = "pending"]
      /\ attempts' = [attempts EXCEPT ![e] = 0]
      /\ redrives' = [redrives EXCEPT ![e] = @ + 1]
      /\ UNCHANGED <<outbox, owner, claims, expired, waiting, worker, broker>>
  BY DEF RedriveEvent
<1>2. MaxRedrives \in Nat /\ MaxAttempts \in Nat \ {0} /\ MaxClaims \in Nat
  BY OutboxAssumption DEF MaxClaims
<1>3. TypeOK /\ TypeOK'
  BY <1>1, <1>2, SMTT(60) DEF IInv, TypeOK, Statuses
<1>4. /\ status'[e] = "pending" /\ attempts'[e] = 0 /\ redrives'[e] = redrives[e] + 1
      /\ \A x \in Events : x # e => /\ status'[x] = status[x] /\ attempts'[x] = attempts[x]
                                    /\ redrives'[x] = redrives[x]
  BY <1>1, <1>3 DEF TypeOK
<1>5. PublishedStays
  BY <1>1, <1>4 DEF PublishedStays
<1>6. AttemptsRespected' /\ NewHasNoAttempt'
  <2>1. attempts[e] = MaxAttempts /\ attempts[e] + redrives[e] * MaxAttempts >= claims[e]
    BY <1>1 DEF IInv, AttemptsRespected
  <2>2. redrives[e] \in Nat /\ redrives[e] \in 0 .. MaxRedrives /\ claims[e] \in Nat
    BY <1>2, <1>3 DEF TypeOK
  <2>3. redrives'[e] * MaxAttempts = redrives[e] * MaxAttempts + MaxAttempts
    BY <1>4, <2>2, RedriveBudget
  <2>4. redrives[e] * MaxAttempts \in Nat
    BY <2>2, RedriveBudget
  <2>5. attempts'[e] + redrives'[e] * MaxAttempts >= claims'[e]
    BY <1>1, <1>2, <1>4, <2>1, <2>2, <2>3, <2>4
  <2> QED BY <1>1, <1>2, <1>4, <2>5 DEF IInv, AttemptsRespected, NewHasNoAttempt
<1>7. LeasesGrounded'
  BY <1>1, <1>4 DEF IInv, LeasesGrounded
<1>8. \A v \in Workers : ClaimsOf(v)' = ClaimsOf(v)
  BY <1>1 DEF ClaimsOf
<1>9. OrderRespected' /\ ClaimsUnique' /\ PublishedAccepted'
  BY <1>1, <1>3, <1>4, <1>5, <1>8, OrderKept, ClaimsKept, AcceptedKept DEF IInv, PublishedStays
<1>10. FirstDeliveryInOrder'
  BY <1>1 DEF IInv, FirstDeliveryInOrder
<1> QED BY <1>3, <1>5, <1>6, <1>7, <1>9, <1>10 DEF IInv

(* Time passes: leases expire and backoffs end.                            *)
LEMMA TimeInvariant ==
  ASSUME IInv, NEW e \in Events, LeaseExpires(e) \/ BackoffEnds(e)
  PROVE  IInv' /\ PublishedStays
<1>1. /\ UNCHANGED <<outbox, status, attempts, redrives, owner, claims, worker, broker>>
      /\ expired' \subseteq expired \cup {x \in Events : status[x] = "publishing"}
      /\ waiting' \subseteq waiting
  BY DEF LeaseExpires, BackoffEnds
<1>2. TypeOK /\ TypeOK'
  BY <1>1 DEF IInv, TypeOK
<1>3. \A v \in Workers : ClaimsOf(v)' = ClaimsOf(v)
  BY <1>1 DEF ClaimsOf
<1>4. AttemptsRespected' /\ NewHasNoAttempt' /\ LeasesGrounded' /\ FirstDeliveryInOrder'
  BY <1>1 DEF IInv, AttemptsRespected, NewHasNoAttempt, LeasesGrounded, FirstDeliveryInOrder
<1>5. OrderRespected' /\ ClaimsUnique' /\ PublishedAccepted'
  BY <1>1, <1>2, <1>3, OrderKept, ClaimsKept, AcceptedKept DEF IInv
<1> QED BY <1>1, <1>2, <1>4, <1>5 DEF IInv, PublishedStays

(* A worker leases a batch of claimable events: each gets a new lease, so  *)
(* that its claim is nobody else's, and follows published events.          *)
LEMMA ClaimInvariant ==
  ASSUME IInv, NEW w \in Workers, ClaimPending(w)
  PROVE  IInv' /\ PublishedStays
<1> DEFINE Claim(e) == [event |-> e, owner |-> claims[e] + 1, attempt |-> attempts[e] + 1]
<1>1. PICK places \in SeqOf(Ready, BatchSize) :
        LET taken == {outbox[places[i]] : i \in DOMAIN places}
        IN  /\ status' = [e \in Events |-> IF e \in taken THEN "publishing" ELSE status[e]]
            /\ attempts' = [e \in Events |-> attempts[e] + (IF e \in taken THEN 1 ELSE 0)]
            /\ claims' = [e \in Events |-> claims[e] + (IF e \in taken THEN 1 ELSE 0)]
            /\ owner' = [e \in Events |-> IF e \in taken THEN claims[e] + 1 ELSE owner[e]]
            /\ worker' = [worker EXCEPT ![w] =
                 IF taken = {} THEN Idle
                 ELSE [stage |-> "send",
                       batch |-> [i \in DOMAIN places |-> Claim(outbox[places[i]])]]]
  BY DEF ClaimPending
<1>2. PICK taken : taken = {outbox[places[i]] : i \in DOMAIN places}
  OBVIOUS
<1>3. /\ status' = [e \in Events |-> IF e \in taken THEN "publishing" ELSE status[e]]
      /\ attempts' = [e \in Events |-> attempts[e] + (IF e \in taken THEN 1 ELSE 0)]
      /\ claims' = [e \in Events |-> claims[e] + (IF e \in taken THEN 1 ELSE 0)]
      /\ owner' = [e \in Events |-> IF e \in taken THEN claims[e] + 1 ELSE owner[e]]
  BY <1>1, <1>2
<1>4. PICK batch : /\ batch = [i \in DOMAIN places |-> Claim(outbox[places[i]])]
                   /\ worker' = [worker EXCEPT ![w] = IF taken = {} THEN Idle
                                                      ELSE [stage |-> "send", batch |-> batch]]
  BY <1>1, <1>2
<1>5. /\ worker[w] = [stage |-> "claim"]
      /\ UNCHANGED <<outbox, redrives, expired, waiting, broker>>
  BY DEF ClaimPending
<1>6. PICK k \in 0 .. BatchSize : places \in [1 .. k -> Ready]
  BY DEF SeqOf
<1>7. TypeOK /\ LeasesGrounded /\ AttemptsRespected /\ MaxClaims \in Nat
  BY OutboxAssumption DEF IInv, MaxClaims
<1>8. \A i \in DOMAIN places : outbox[places[i]] \in Events /\ Claimable(outbox[places[i]])
  BY <1>6, <1>7, ElementOfSeq, LenProperties DEF Ready, TypeOK
<1>9. \A e \in taken : e \in Events /\ status[e] = "pending" /\ EarlierPublished(e)
  BY <1>2, <1>8 DEF Claimable, EarlierPublished, Earlier
<1>10. ASSUME NEW e \in Events
       PROVE  /\ attempts[e] \in 0 .. MaxAttempts /\ claims[e] \in 0 .. MaxClaims
              /\ redrives[e] \in 0 .. MaxRedrives /\ redrives[e] * MaxAttempts \in Nat
              /\ status[e] \in Statuses /\ owner[e] \in 0 .. MaxClaims
  BY <1>7, RedriveBudget DEF TypeOK
<1>11. ASSUME NEW e \in taken
       PROVE  /\ status'[e] = "publishing" /\ attempts'[e] = attempts[e] + 1
              /\ claims'[e] = claims[e] + 1 /\ owner'[e] = claims[e] + 1
              /\ attempts[e] + 1 \in 1 .. MaxAttempts
              /\ claims[e] + 1 \in 1 .. MaxClaims
              /\ attempts'[e] + redrives'[e] * MaxAttempts >= claims'[e]
  <2>1. e \in Events /\ attempts[e] < MaxAttempts
        /\ attempts[e] + redrives[e] * MaxAttempts >= claims[e]
    BY <1>7, <1>9 DEF AttemptsRespected
  <2>2. redrives[e] * MaxAttempts + MaxAttempts <= MaxClaims
    BY <1>10, <2>1, RedriveBudget
  <2>3. /\ status'[e] = "publishing" /\ attempts'[e] = attempts[e] + 1
        /\ claims'[e] = claims[e] + 1 /\ owner'[e] = claims[e] + 1
    BY <1>3, <2>1
  <2>4. MaxAttempts \in Nat
    BY OutboxAssumption
  <2> QED BY <1>5, <1>7, <1>10, <2>1, <2>2, <2>3, <2>4
<1>12. ASSUME NEW e \in Events, e \notin taken
       PROVE  /\ status'[e] = status[e] /\ attempts'[e] = attempts[e]
              /\ claims'[e] = claims[e] /\ owner'[e] = owner[e]
  BY <1>3, <1>10, <1>12
<1>13. taken # {} => /\ batch \in SeqOf(ClaimRecords, BatchSize) \ {<<>>}
                     /\ ToSet(batch) = {Claim(e) : e \in taken}
  <2>1. SUFFICES ASSUME taken # {} PROVE batch \in SeqOf(ClaimRecords, BatchSize) \ {<<>>}
                                         /\ ToSet(batch) = {Claim(e) : e \in taken}
    OBVIOUS
  <2>2. \A e \in taken : Claim(e) \in ClaimRecords
    BY <1>9, <1>11 DEF ClaimRecords
  <2>3. DOMAIN places = 1 .. k /\ k # 0
    BY <1>2, <1>6, <2>1
  <2>4. batch \in [1 .. k -> ClaimRecords]
    BY <1>2, <1>4, <2>2, <2>3
  <2>5. batch # <<>>
    BY <1>6, <2>3, <2>4, OutboxAssumption
  <2>6. ToSet(batch) = {Claim(e) : e \in taken}
    BY <1>2, <1>4, <2>3 DEF ToSet
  <2> QED BY <1>6, <2>4, <2>5, <2>6 DEF SeqOf
<1>14. /\ worker'[w] = IF taken = {} THEN Idle ELSE [stage |-> "send", batch |-> batch]
       /\ \A v \in Workers : v # w => worker'[v] = worker[v]
  BY <1>4, <1>7 DEF TypeOK
<1>15. TypeOK'
  <2>1. worker' \in [Workers -> WorkerStates]
    <3>1. worker'[w] \in WorkerStates
      BY <1>13, <1>14 DEF WorkerStates
    <3> QED BY <1>4, <1>7, <1>14, <3>1 DEF TypeOK
  <2>2. ASSUME NEW e \in Events
        PROVE  /\ status'[e] \in Statuses /\ attempts'[e] \in 0 .. MaxAttempts
               /\ claims'[e] \in 0 .. MaxClaims /\ owner'[e] \in 0 .. MaxClaims
    <3>1. CASE e \in taken
      BY <3>1, <1>7, <1>11 DEF Statuses
    <3>2. CASE e \notin taken
      BY <3>2, <1>10, <1>12
    <3> QED BY <3>1, <3>2
  <2>3. /\ status' \in [Events -> Statuses] /\ attempts' \in [Events -> 0 .. MaxAttempts]
        /\ claims' \in [Events -> 0 .. MaxClaims] /\ owner' \in [Events -> 0 .. MaxClaims]
    BY <1>3, <2>2
  <2> QED BY <1>5, <1>7, <2>1, <2>3 DEF TypeOK
<1>16. PublishedStays
  BY <1>9, <1>12 DEF PublishedStays
<1>17. AttemptsRespected' /\ NewHasNoAttempt'
  <2>1. ASSUME NEW e \in Events
        PROVE  /\ status'[e] = "pending" => attempts'[e] < MaxAttempts
               /\ status'[e] = "dead_letter" => attempts'[e] = MaxAttempts
               /\ status'[e] = "absent" => attempts'[e] = 0
               /\ attempts'[e] + redrives'[e] * MaxAttempts >= claims'[e]
    <3>1. CASE e \in taken
      BY <3>1, <1>11
    <3>2. CASE e \notin taken
      BY <3>2, <1>5, <1>7, <1>12 DEF IInv, AttemptsRespected, NewHasNoAttempt
    <3> QED BY <3>1, <3>2
  <2> QED BY <2>1 DEF AttemptsRespected, NewHasNoAttempt
<1>18. LeasesGrounded'
  <2>1. ASSUME NEW e \in Events
        PROVE  (status'[e] = "publishing" <=> owner'[e] # 0) /\ owner'[e] \in {0, claims'[e]}
    <3>1. CASE e \in taken
      BY <3>1, <1>7, <1>11
    <3>2. CASE e \notin taken
      BY <3>2, <1>7, <1>12 DEF LeasesGrounded
    <3> QED BY <3>1, <3>2
  <2>2. \A e \in expired : status'[e] = "publishing"
    BY <1>7, <1>9, <1>12 DEF LeasesGrounded, TypeOK
  <2> QED BY <1>5, <2>1, <2>2 DEF LeasesGrounded
<1>19. \A v \in Workers : ClaimsOf(v)' = IF v = w THEN {Claim(e) : e \in taken} ELSE ClaimsOf(v)
  <2>1. ASSUME NEW v \in Workers, v # w
        PROVE  ClaimsOf(v)' = ClaimsOf(v)
    BY <2>1, <1>14 DEF ClaimsOf
  <2>2. CASE taken = {}
    <3>1. ClaimsOf(w)' = {}
      BY <2>2, <1>14 DEF ClaimsOf, Idle
    <3> QED BY <2>1, <2>2, <3>1
  <2>3. CASE taken # {}
    <3>1. ClaimsOf(w)' = ToSet(batch)
      BY <2>3, <1>14 DEF ClaimsOf
    <3> QED BY <2>1, <2>3, <3>1, <1>13
  <2> QED BY <2>2, <2>3
<1>20. \A e \in Events : EarlierPublished(e) => EarlierPublished(e)'
  BY <1>16, EventFacts DEF PublishedStays, EarlierPublished, Earlier
<1>21. OrderRespected'
  <2>1. ASSUME NEW e \in Events, status'[e] \in {"publishing", "published"}
        PROVE  EarlierPublished(e)'
    <3>1. CASE e \in taken
      BY <3>1, <1>9, <1>20
    <3>2. CASE e \notin taken
      BY <3>2, <2>1, <1>12, <1>20 DEF IInv, OrderRespected
    <3> QED BY <3>1, <3>2
  <2>2. ASSUME NEW v \in Workers, NEW c \in ClaimsOf(v)'
        PROVE  EarlierPublished(c.event)'
    <3>1. CASE v = w
      BY <3>1, <2>2, <1>9, <1>19, <1>20
    <3>2. CASE v # w
      <4>1. c \in ClaimsOf(v)
        BY <3>2, <2>2, <1>19
      <4>2. c.event \in Events /\ EarlierPublished(c.event)
        BY <4>1, <1>7, ClaimFacts DEF IInv, OrderRespected
      <4> QED BY <4>2, <1>20
    <3> QED BY <3>1, <3>2
  <2> QED BY <2>1, <2>2 DEF OrderRespected
<1>22. ASSUME NEW v \in Workers, v # w, NEW c \in ClaimsOf(v)
       PROVE  /\ c.event \in Events /\ c.owner <= claims[c.event]
              /\ c.owner <= claims'[c.event]
              /\ HoldsLease(c)' => c.attempt = attempts'[c.event]
              /\ c.event \in taken => c.owner # claims[c.event] + 1
  <2>1. c.event \in Events /\ c.owner \in Nat
    BY <1>7, ClaimFacts
  <2>2. c.owner <= claims[c.event] /\ (HoldsLease(c) => c.attempt = attempts[c.event])
    BY DEF IInv, ClaimsUnique
  <2>3. claims[c.event] \in Nat
    BY <1>7, <1>10, <2>1
  <2>4. CASE c.event \in taken
    BY <2>1, <2>2, <2>3, <2>4, <1>11 DEF HoldsLease
  <2>5. CASE c.event \notin taken
    BY <2>1, <2>2, <2>5, <1>12 DEF HoldsLease
  <2> QED BY <2>1, <2>2, <2>4, <2>5
<1>23. ClaimsUnique'
  <2>1. ASSUME NEW v \in Workers, NEW c \in ClaimsOf(v)'
        PROVE  c.owner <= claims'[c.event] /\ (HoldsLease(c)' => c.attempt = attempts'[c.event])
    <3>1. CASE v = w
      <4>1. PICK e \in taken : c = Claim(e)
        BY <3>1, <2>1, <1>19
      <4>2. c.event = e /\ c.owner = claims[e] + 1 /\ c.attempt = attempts[e] + 1
        BY <4>1
      <4> QED BY <4>2, <1>11
    <3>2. CASE v # w
      BY <3>2, <2>1, <1>19, <1>22
    <3> QED BY <3>1, <3>2
  <2>2. ASSUME NEW v \in Workers, v # w, NEW c \in ClaimsOf(v), NEW e \in taken,
               c.event = e
        PROVE  c.owner # Claim(e).owner
    BY <2>2, <1>22
  <2>3. ASSUME NEW v \in Workers, NEW x \in Workers, v # x,
               NEW c \in ClaimsOf(v)', NEW d \in ClaimsOf(x)', c.event = d.event
        PROVE  c.owner # d.owner
    <3>1. CASE v # w /\ x # w
      BY <3>1, <2>3, <1>19 DEF IInv, ClaimsUnique
    <3>2. CASE v = w
      <4>1. PICK e \in taken : c = Claim(e)
        BY <3>2, <2>3, <1>19
      <4> QED BY <3>2, <4>1, <2>2, <2>3, <1>19
    <3>3. CASE x = w
      <4>1. PICK e \in taken : d = Claim(e)
        BY <3>3, <2>3, <1>19
      <4> QED BY <3>3, <4>1, <2>2, <2>3, <1>19
    <3> QED BY <3>1, <3>2, <3>3
  <2> QED BY <2>1, <2>3 DEF ClaimsUnique
<1>24. PublishedAccepted'
  <2>1. \A e \in Events : status'[e] = "published" => status[e] = "published"
    BY <1>11, <1>12
  <2>2. \A v \in Workers : worker'[v].stage = "accepted" => worker'[v] = worker[v]
    BY <1>14 DEF Idle
  <2> QED BY <1>5, <2>1, <2>2, AcceptedKept DEF IInv
<1>25. FirstDeliveryInOrder'
  BY <1>5 DEF IInv, FirstDeliveryInOrder
<1> QED BY <1>15, <1>16, <1>17, <1>18, <1>21, <1>23, <1>24, <1>25 DEF IInv

-----------------------------------------------------------------------------
(* The theorems.                                                           *)
LEMMA NextInvariant == IInv /\ [Next]_vars => IInv' /\ PublishedStays
<1> SUFFICES ASSUME IInv, [Next]_vars PROVE IInv' /\ PublishedStays
  OBVIOUS
<1>1. CASE Next
  BY <1>1, EnqueueInvariant, ReclaimInvariant, ClaimInvariant, SendInvariant, PublishedInvariant,
     FailureInvariant, CrashInvariant, RedriveInvariant, TimeInvariant DEF Next
<1>2. CASE UNCHANGED vars
  <2>1. UNCHANGED <<outbox, status, attempts, redrives, owner, claims, expired, waiting, worker,
                    broker>>
    BY <1>2 DEF vars, leaseVars
  <2>2. TypeOK' /\ AttemptsRespected' /\ NewHasNoAttempt' /\ LeasesGrounded' /\ FirstDeliveryInOrder'
    BY <2>1 DEF IInv, TypeOK, AttemptsRespected, NewHasNoAttempt, LeasesGrounded,
                FirstDeliveryInOrder
  <2>3. \A v \in Workers : ClaimsOf(v)' = ClaimsOf(v)
    BY <2>1 DEF ClaimsOf
  <2>4. OrderRespected' /\ ClaimsUnique' /\ PublishedAccepted'
    BY <2>1, <2>3, OrderKept, ClaimsKept, AcceptedKept DEF IInv
  <2> QED BY <2>1, <2>2, <2>4 DEF IInv, PublishedStays
<1> QED BY <1>1, <1>2

LEMMA Invariance == Spec => []IInv
<1>1. Init => IInv
  BY InitInvariant
<1>2. IInv /\ [Next]_vars => IInv'
  BY NextInvariant
<1> QED BY <1>1, <1>2, PTL DEF Spec

(* The variables keep their types; a worker never has more claims than a   *)
(* batch, and no event more leases than its attempts and redrives allow    *)
(* (claim_pending).                                                        *)
THEOREM TypeCorrect == Spec => []TypeOK
<1>1. IInv => TypeOK
  BY DEF IInv
<1> QED BY <1>1, Invariance, PTL

(* An event that may be claimed has an attempt left and a dead-lettered    *)
(* one has none, whether its last attempt was reported or its lease ran    *)
(* out (reclaim_expired, mark_failure).                                    *)
THEOREM AttemptsAreRespected == Spec => []AttemptsRespected
<1>1. IInv => AttemptsRespected
  BY DEF IInv
<1> QED BY <1>1, Invariance, PTL

(* The broker sees the events of an aggregate for the first time in their  *)
(* order, although workers crash, leases expire while their workers send,  *)
(* and stale workers send again (claim_pending, publish_once).             *)
THEOREM DeliveriesInOrder == Spec => []FirstDeliveryInOrder
<1>1. IInv => FirstDeliveryInOrder
  BY DEF IInv
<1> QED BY <1>1, Invariance, PTL

(* At most one event of an aggregate is leased, its lease belongs to the   *)
(* newest claim, and no two workers hold the same one (claim_pending,      *)
(* reclaim_expired).                                                       *)
THEOREM AggregatesHaveOneLease == Spec => []OneLeasePerAggregate
<1>1. IInv => OneLeasePerAggregate
  <2> SUFFICES ASSUME IInv PROVE OneLeasePerAggregate
    OBVIOUS
  <2>1. \A e \in Events : (status[e] = "publishing") = (owner[e] # 0)
    BY DEF IInv, LeasesGrounded
  <2>2. \A e \in Events : owner[e] \in {0, claims[e]}
    BY DEF IInv, LeasesGrounded
  <2>3. ASSUME NEW a \in Aggregates, NEW m \in 1 .. LastSequence, NEW n \in 1 .. LastSequence,
               status[<<a, m>>] = "publishing", status[<<a, n>>] = "publishing"
        PROVE  m = n
    <3>1. <<a, m>> \in Events /\ <<a, n>> \in Events /\ m \in Nat /\ n \in Nat
      BY OutboxAssumption DEF Events
    <3>2. EarlierPublished(<<a, m>>) /\ EarlierPublished(<<a, n>>)
      BY <2>3, <3>1 DEF IInv, OrderRespected
    <3>3. m \notin 1 .. n - 1 /\ n \notin 1 .. m - 1
      BY <2>3, <3>2 DEF EarlierPublished, Earlier
    <3> QED BY <3>1, <3>3
  <2>4. ASSUME NEW v \in Workers, NEW w \in Workers, v # w, NEW c \in ClaimsOf(v)
        PROVE  c \notin ClaimsOf(w)
    BY <2>4 DEF IInv, ClaimsUnique
  <2> QED BY <2>1, <2>2, <2>3, <2>4 DEF OneLeasePerAggregate
<1> QED BY <1>1, Invariance, PTL

(* A published event stays published: late failures, reclaims and redrives *)
(* pass it by (mark_failure, reclaim_expired, redrive).                    *)
THEOREM PublishedStaysPublished == Spec => PublishedIsFinal
<1>1. IInv /\ [Next]_vars =>
        [\A e \in Events : status[e] = "published" => status'[e] = "published"]_vars
  BY NextInvariant DEF PublishedStays
<1> QED BY <1>1, Invariance, PTL DEF Spec, PublishedIsFinal
=============================================================================

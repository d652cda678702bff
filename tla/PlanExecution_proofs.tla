------------------------ MODULE PlanExecution_proofs ------------------------
(***************************************************************************)
(* What PlanExecution guarantees for plans of every length, any number of  *)
(* workers and every budget.  That the records of the gateway are complete *)
(* and in order is proved at the end: the slots given out are those of the *)
(* records and those that steps hold, each once, so that a new record has  *)
(* one place among the sorted ones.                                        *)
(***************************************************************************)
EXTENDS PlanExecution, Totals, TLAPS

IInv == TypeOK /\ ToolBudgetHolds /\ DependenciesFirst

USE DEF Working, Ended

-----------------------------------------------------------------------------
(* Initially no step has begun.                                            *)
LEMMA InitInvariant == Init => IInv
<1> SUFFICES ASSUME Init PROVE IInv
  OBVIOUS
<1>1. /\ \A s \in Steps : step[s] = "pending" /\ attempts[s] = 0 /\ slot[s] = 0
      /\ step \in [Steps -> {"pending"} \cup Working \cup Ended]
      /\ slot \in [Steps -> Nat]
  BY DEF Init
<1>2. attempts \in [Steps -> 0 .. MaxAttempts]
  <2>1. 0 \in 0 .. MaxAttempts
    BY BudgetAssumption
  <2> QED BY <2>1 DEF Init
<1>3. mode \in {"sequential", "parallel"} /\ dependsOn \in [Steps -> SUBSET Steps]
  BY DEF Init
<1>4. TypeOK
  BY <1>1, <1>2, <1>3 DEF Init, TypeOK, Is
<1>5. ToolBudgetHolds
  BY BudgetAssumption DEF Init, ToolBudgetHolds
<1>6. DependenciesFirst
  BY <1>1 DEF DependenciesFirst
<1> QED BY <1>4, <1>5, <1>6 DEF IInv

(* A step that goes on, begins another attempt or ends changes nothing of  *)
(* the others; a completed one stays completed, and an attempt is begun    *)
(* only by a step whose dependencies have completed.                       *)
LEMMA StepInvariant ==
  ASSUME IInv, NEW s \in Steps, step[s] \notin Ended,
         NEW to \in Working \cup Ended, step' = [step EXCEPT ![s] = to],
         NEW n \in 0 .. MaxAttempts, attempts' = [attempts EXCEPT ![s] = n],
         to = "skipped" => n = 0,
         to \in Working => n > 0,
         n > 0 => attempts[s] > 0 \/ \A t \in dependsOn[s] : Is(t, {"completed"}),
         slot' \in [Steps -> Nat],
         \A t \in Steps \ {s} : slot'[t] = slot[t],
         slot'[s] # 0 <=> to \in {"reserved", "called"},
         calls' \in Nat, calls' <= MaxToolCalls,
         admitted' \subseteq Steps, usage' \in Nat, blocked' \in BOOLEAN,
         UNCHANGED plan, cancelled' \in BOOLEAN, noticed' \in BOOLEAN, overdue' \in BOOLEAN
  PROVE  IInv'
<1>1. /\ step \in [Steps -> {"pending"} \cup Working \cup Ended]
      /\ attempts \in [Steps -> 0 .. MaxAttempts]
  BY DEF IInv, TypeOK
<1>2. /\ \A t \in Steps : step'[t] = IF t = s THEN to ELSE step[t]
      /\ \A t \in Steps : attempts'[t] = IF t = s THEN n ELSE attempts[t]
  BY <1>1
<1>3. step' \in [Steps -> {"pending"} \cup Working \cup Ended]
      /\ attempts' \in [Steps -> 0 .. MaxAttempts]
  BY <1>1
<1>4. /\ \A t \in Steps : Is(t, {"pending", "skipped"})' => attempts'[t] = 0
      /\ \A t \in Steps : Is(t, Working)' => attempts'[t] > 0
      /\ \A t \in Steps : slot'[t] # 0 <=> Is(t, {"reserved", "called"})'
  BY <1>2 DEF IInv, TypeOK, Is
<1>5. TypeOK'
  BY <1>3, <1>4 DEF IInv, TypeOK, plan
<1>6. ToolBudgetHolds'
  BY DEF ToolBudgetHolds
<1>7. DependenciesFirst'
  <2>1. dependsOn' = dependsOn /\ dependsOn \in [Steps -> SUBSET Steps]
    BY DEF plan, IInv, TypeOK
  <2>2. \A t \in Steps : attempts'[t] > 0 => \A u \in dependsOn[t] : step[u] = "completed"
    BY <1>2 DEF IInv, DependenciesFirst, Is
  <2>3. \A t \in Steps : step[t] = "completed" => step'[t] = "completed"
    BY <1>2
  <2> QED BY <2>1, <2>2, <2>3 DEF DependenciesFirst, Is
<1> QED BY <1>5, <1>6, <1>7 DEF IInv

-----------------------------------------------------------------------------
(* The executor.                                                           *)
LEMMA ExecutorInvariant ==
  ASSUME IInv, NEW s \in Steps, Skip(s) \/ Begin(s)
  PROVE  IInv'
<1>1. /\ attempts \in [Steps -> 0 .. MaxAttempts] /\ slot \in [Steps -> Nat]
      /\ attempts[s] = 0 /\ slot[s] = 0 /\ step[s] = "pending"
      /\ attempts = [attempts EXCEPT ![s] = 0]
      /\ 0 \in 0 .. MaxAttempts /\ 1 \in 0 .. MaxAttempts
      /\ calls \in Nat /\ calls <= MaxToolCalls /\ noticed \in BOOLEAN /\ cancelled \in BOOLEAN
  BY BudgetAssumption DEF Skip, Begin, Turn, IInv, TypeOK, ToolBudgetHolds, Is
<1>2. CASE Skip(s)
  <2> DEFINE n == 0
             to == "skipped"
  <2>1. /\ step' = [step EXCEPT ![s] = to] /\ attempts' = [attempts EXCEPT ![s] = n]
        /\ UNCHANGED <<plan, guard, gateway, signals>>
    BY <1>1, <1>2 DEF Skip, Goes
  <2>2. /\ admitted' \subseteq Steps /\ usage' \in Nat /\ blocked' \in BOOLEAN
        /\ cancelled' \in BOOLEAN /\ noticed' \in BOOLEAN /\ overdue' \in BOOLEAN
        /\ calls' \in Nat /\ calls' <= MaxToolCalls /\ UNCHANGED plan
        /\ slot' \in [Steps -> Nat] /\ slot' = slot /\ slot'[s] = 0
    BY <1>1, <2>1 DEF IInv, TypeOK, guard, gateway, signals
  <2>3. n \in 0 .. MaxAttempts /\ ~(n > 0) /\ n = 0
    BY <1>1
  <2>4. to \in Working \cup Ended /\ to \notin Working /\ to \notin {"reserved", "called"}
    OBVIOUS
  <2>5. step[s] \notin Ended
    BY <1>1
  <2> HIDE DEF n, to
  <2> QED BY <2>1, <2>2, <2>3, <2>4, <2>5, StepInvariant
<1>3. CASE Begin(s) /\ noticed'
  BY <1>1, <1>3, StepInvariant
  DEF Begin, Goes, guard, gateway, IInv, TypeOK
<1>4. CASE Begin(s) /\ ~ noticed'
  BY <1>1, <1>4, StepInvariant
  DEF Begin, Goes, Unmet, guard, gateway, IInv, TypeOK
<1> QED BY <1>2, <1>3, <1>4

(* A working step that goes on without a new attempt and without a slot.   *)
LEMMA WorkInvariant ==
  ASSUME IInv, NEW s \in Steps, step[s] \in Working, attempts' = attempts,
         NEW to \in {"running", "checked", "completed", "cancelled", "failed"}, Goes(s, to),
         slot' = [slot EXCEPT ![s] = 0],
         UNCHANGED <<plan, calls, cancelled, overdue>>, noticed' \in BOOLEAN,
         admitted' \subseteq Steps, usage' \in Nat, blocked' \in BOOLEAN
  PROVE  IInv'
<1>1. /\ attempts \in [Steps -> 0 .. MaxAttempts] /\ slot \in [Steps -> Nat] /\ attempts[s] > 0
      /\ attempts = [attempts EXCEPT ![s] = attempts[s]] /\ attempts[s] \in 0 .. MaxAttempts
      /\ calls \in Nat /\ calls <= MaxToolCalls
  BY DEF IInv, TypeOK, ToolBudgetHolds, Is
<1>2. slot' \in [Steps -> Nat] /\ slot'[s] = 0 /\ \A t \in Steps \ {s} : slot'[t] = slot[t]
  BY <1>1
<1> QED BY <1>1, <1>2, StepInvariant DEF Goes, IInv, TypeOK

(* The guard and the answers of the specialist.                            *)
LEMMA GuardInvariant ==
  ASSUME IInv, NEW s \in Steps,
         Admit(s) \/ Answer(s) \/ TransportFails(s) \/ Fail(s)
  PROVE  IInv'
<1>1. /\ step[s] \in {"starting", "running"} /\ slot = [slot EXCEPT ![s] = 0]
      /\ admitted \subseteq Steps /\ usage \in Nat /\ blocked \in BOOLEAN
      /\ noticed \in BOOLEAN /\ cancelled \in BOOLEAN
  BY DEF Admit, Answer, TransportFails, Fail, IInv, TypeOK, Is
<1>2. ASSUME NEW known \in BOOLEAN, Reconciled(known)
      PROVE  usage' \in Nat /\ blocked' \in BOOLEAN
  BY <1>1, <1>2 DEF Reconciled
<1>3. CASE Admit(s)
  BY <1>1, <1>3, WorkInvariant DEF Admit, guard, gateway, signals
<1>4. CASE Answer(s)
  <2>1. PICK status \in {"completed", "cancelled", "failed"} :
          Goes(s, IF blocked' \/ overdue THEN "failed" ELSE status)
    BY <1>4 DEF Answer
  <2>2. usage' \in Nat /\ blocked' \in BOOLEAN
    BY <1>2, <1>4 DEF Answer
  <2> QED BY <1>1, <1>4, <2>1, <2>2, WorkInvariant DEF Answer, gateway, signals
<1>5. CASE TransportFails(s)
  <2>1. usage' \in Nat /\ blocked' \in BOOLEAN
    BY <1>2, <1>5 DEF TransportFails
  <2>2. CASE Goes(s, "failed") /\ UNCHANGED <<attempts, noticed>>
    BY <1>1, <1>5, <2>1, <2>2, WorkInvariant DEF TransportFails, gateway
  <2>3. CASE Retriable(s) /\ TryAgain(s)
    <3>1. noticed' \in BOOLEAN
      BY <1>1, <2>3 DEF TryAgain
    <3>2. CASE Goes(s, "cancelled") /\ UNCHANGED attempts
      BY <1>1, <1>5, <2>1, <3>1, <3>2, WorkInvariant DEF TransportFails, gateway
    <3>3. CASE Goes(s, "starting") /\ attempts' = [attempts EXCEPT ![s] = @ + 1]
      <4> DEFINE n == attempts[s] + 1
      <4>1. attempts[s] \in 0 .. MaxAttempts /\ attempts[s] > 0
        BY <1>1 DEF IInv, TypeOK, Is
      <4>2. n \in 0 .. MaxAttempts /\ n > 0 /\ attempts' = [attempts EXCEPT ![s] = n]
        BY <2>3, <3>3, <4>1, BudgetAssumption DEF Retriable
      <4>3. slot' \in [Steps -> Nat] /\ slot'[s] = 0 /\ UNCHANGED <<slot, calls>>
        BY <1>1, <1>5 DEF TransportFails, gateway, IInv, TypeOK, Is
      <4>4. /\ step' = [step EXCEPT ![s] = "starting"]
            /\ UNCHANGED <<plan, admitted, cancelled, overdue>>
        BY <1>5, <3>3 DEF TransportFails, Goes
      <4>5. /\ calls' \in Nat /\ calls' <= MaxToolCalls /\ admitted' \subseteq Steps
            /\ cancelled' \in BOOLEAN /\ overdue' \in BOOLEAN
        BY <4>3, <4>4 DEF IInv, TypeOK, ToolBudgetHolds
      <4>6. step[s] \notin Ended /\ "starting" \in Working \cup Ended
        BY <1>1
      <4> HIDE DEF n
      <4> QED BY <2>1, <3>1, <4>1, <4>2, <4>3, <4>4, <4>5, <4>6, StepInvariant
    <3> QED BY <2>3, <3>2, <3>3 DEF TryAgain
  <2> QED BY <1>5, <2>2, <2>3 DEF TransportFails
<1>6. CASE Fail(s)
  BY <1>1, <1>6, WorkInvariant DEF Fail, guard, gateway, signals
<1> QED BY <1>3, <1>4, <1>5, <1>6

(* The gateway.                                                            *)
LEMMA GatewayInvariant ==
  ASSUME IInv, NEW s \in Steps,
         Validate(s) \/ Reserve(s) \/ Invoke(s) \/ Return(s)
  PROVE  IInv'
<1>1. /\ step[s] \in Working
      /\ admitted \subseteq Steps /\ usage \in Nat /\ blocked \in BOOLEAN /\ noticed \in BOOLEAN
      /\ slot \in [Steps -> Nat] /\ calls \in Nat /\ calls <= MaxToolCalls
      /\ attempts \in [Steps -> 0 .. MaxAttempts] /\ attempts[s] > 0
      /\ attempts[s] \in 0 .. MaxAttempts /\ attempts = [attempts EXCEPT ![s] = attempts[s]]
      /\ slot[s] # 0 <=> step[s] \in {"reserved", "called"}
  BY DEF Validate, Reserve, Invoke, Return, IInv, TypeOK, ToolBudgetHolds, Is
<1>2. CASE Validate(s)
  <2>1. slot = [slot EXCEPT ![s] = 0]
    BY <1>1, <1>2 DEF Validate, Is
  <2> QED BY <1>1, <1>2, <2>1, WorkInvariant DEF Validate, guard, gateway, signals
<1>3. CASE Reserve(s)
  <2>1. CASE MayReserve
    <3>1. /\ calls' = calls + 1 /\ slot' = [slot EXCEPT ![s] = calls + 1]
          /\ step' = [step EXCEPT ![s] = "reserved"] /\ UNCHANGED <<plan, attempts, guard, signals>>
      BY <1>3, <2>1 DEF Reserve, NextSlot, Goes
    <3>2. calls' \in Nat /\ calls' <= MaxToolCalls
      BY <1>1, <2>1, <3>1, BudgetAssumption DEF MayReserve
    <3>3. slot' \in [Steps -> Nat] /\ slot'[s] # 0 /\ \A t \in Steps \ {s} : slot'[t] = slot[t]
      BY <1>1, <3>1
    <3> QED BY <1>1, <3>1, <3>2, <3>3, StepInvariant DEF guard, signals, IInv, TypeOK
  <2>2. CASE ~ MayReserve
    <3>1. slot = [slot EXCEPT ![s] = 0]
      BY <1>1, <1>3 DEF Reserve, Is
    <3> QED BY <1>1, <1>3, <2>2, <3>1, WorkInvariant DEF Reserve, guard, signals
  <2> QED BY <2>1, <2>2
<1>4. CASE Invoke(s)
  <2>1. CASE noticed \/ overdue
    BY <1>1, <1>4, <2>1, WorkInvariant DEF Invoke, guard, signals
  <2>2. CASE ~ (noticed \/ overdue)
    <3>1. /\ step' = [step EXCEPT ![s] = "called"] /\ step[s] = "reserved"
          /\ UNCHANGED <<plan, attempts, guard, calls, slot, signals>>
      BY <1>4, <2>2 DEF Invoke, Goes, Is
    <3> QED BY <1>1, <3>1, StepInvariant DEF guard, signals, IInv, TypeOK
  <2> QED BY <2>1, <2>2
<1>5. CASE Return(s)
  BY <1>1, <1>5, WorkInvariant DEF Return, guard, signals
<1> QED BY <1>2, <1>3, <1>4, <1>5

(* Every step keeps the invariant.                                         *)
LEMMA NextInvariant == IInv /\ [Next]_vars => IInv'
<1> SUFFICES ASSUME IInv, [Next]_vars PROVE IInv'
  OBVIOUS
<1>1. CASE Cancel \/ PassDeadline
  BY <1>1 DEF Cancel, PassDeadline, plan, guard, gateway, IInv, TypeOK, ToolBudgetHolds,
              DependenciesFirst, Is
<1>2. CASE UNCHANGED vars
  BY <1>2 DEF vars, plan, guard, gateway, signals, IInv, TypeOK, ToolBudgetHolds,
              DependenciesFirst, Is
<1> QED BY <1>1, <1>2, ExecutorInvariant, GuardInvariant, GatewayInvariant DEF Next, Finished

(* The invariant holds in every state of every behaviour.                  *)
LEMMA Invariance == Spec => []IInv
BY InitInvariant, NextInvariant, PTL DEF Spec

-----------------------------------------------------------------------------
(* The theorems.                                                           *)

(* Every variable keeps its type (the records: SlotsGiven, below), and no  *)
(* step is attempted more often than its policy allows.                    *)
THEOREM TypeCorrect == Spec => []TypeOK
<1>1. IInv => TypeOK
  BY DEF IInv
<1> QED BY <1>1, Invariance, PTL

(* However many steps share the gateway, no more tools are called than the *)
(* budget allows.                                                          *)
THEOREM ToolBudgetKept == Spec => []ToolBudgetHolds
<1>1. IInv => ToolBudgetHolds
  BY DEF IInv
<1> QED BY <1>1, Invariance, PTL

(* A step is attempted only after everything it depends on has completed.  *)
THEOREM DependenciesKept == Spec => []DependenciesFirst
<1>1. IInv => DependenciesFirst
  BY DEF IInv
<1> QED BY <1>1, Invariance, PTL

(* After a cancellation no step begins and none is tried again, and once   *)
(* it is noticed no tool is called.                                        *)
THEOREM CancellationFinal == Spec => CancelledRunStartsNothing
<1>1. ASSUME IInv, Next, cancelled, NEW s \in Steps
      PROVE  /\ attempts'[s] = attempts[s]
             /\ noticed /\ step'[s] = "called" => step[s] = "called"
  <2>1. step \in [Steps -> {"pending"} \cup Working \cup Ended]
    BY <1>1 DEF IInv, TypeOK
  <2>2. ASSUME NEW t \in Steps, NEW to \in ({"pending"} \cup Working \cup Ended) \ {"called"},
               Goes(t, to)
        PROVE  step'[s] = "called" => step[s] = "called"
    BY <2>1, <2>2 DEF Goes
  <2>3. ASSUME NEW t \in Steps, Skip(t) \/ Begin(t)
        PROVE  attempts' = attempts /\ (step'[s] = "called" => step[s] = "called")
    BY <1>1, <2>2, <2>3 DEF Skip, Begin
  <2>4. ASSUME NEW t \in Steps, Admit(t) \/ Fail(t) \/ Validate(t) \/ Reserve(t) \/ Return(t)
        PROVE  attempts' = attempts /\ (step'[s] = "called" => step[s] = "called")
    BY <2>2, <2>4 DEF Admit, Fail, Validate, Reserve, Return
  <2>5. ASSUME NEW t \in Steps, Answer(t)
        PROVE  attempts' = attempts /\ (step'[s] = "called" => step[s] = "called")
    <3>1. PICK status \in {"completed", "cancelled", "failed"} :
            Goes(t, IF blocked' \/ overdue THEN "failed" ELSE status)
      BY <2>5 DEF Answer
    <3> QED BY <2>2, <2>5, <3>1 DEF Answer
  <2>6. ASSUME NEW t \in Steps, TransportFails(t)
        PROVE  attempts' = attempts /\ (step'[s] = "called" => step[s] = "called")
    BY <1>1, <2>2, <2>6 DEF TransportFails, TryAgain
  <2>7. ASSUME NEW t \in Steps, Invoke(t), noticed
        PROVE  step'[s] = "called" => step[s] = "called"
    BY <2>2, <2>7 DEF Invoke
  <2>8. ASSUME NEW t \in Steps, Invoke(t)
        PROVE  attempts' = attempts
    BY <2>8 DEF Invoke
  <2> QED BY <1>1, <2>3, <2>4, <2>5, <2>6, <2>7, <2>8
          DEF Next, Cancel, PassDeadline, Finished, vars
<1>2. IInv /\ [Next]_vars =>
        [cancelled => \A s \in Steps :
           /\ attempts'[s] = attempts[s]
           /\ noticed /\ step'[s] = "called" => step[s] = "called"]_vars
  BY <1>1
<1> QED BY <1>2, Invariance, PTL DEF Spec, CancelledRunStartsNothing

(* After a refused usage no step completes any more.                       *)
THEOREM RefusalFinal == Spec => RefusedUsageIsFinal
<1>1. ASSUME IInv, Next, blocked, NEW s \in Steps, step'[s] = "completed"
      PROVE  step[s] = "completed"
  <2>1. step \in [Steps -> {"pending"} \cup Working \cup Ended]
    BY <1>1 DEF IInv, TypeOK
  <2>2. ASSUME NEW t \in Steps, NEW to \in ({"pending"} \cup Working \cup Ended) \ {"completed"},
               Goes(t, to)
        PROVE  step[s] = "completed"
    BY <1>1, <2>1, <2>2 DEF Goes
  <2>3. ASSUME NEW t \in Steps, Answer(t)
        PROVE  step[s] = "completed"
    <3>1. blocked'
      BY <1>1, <2>3 DEF Answer, Reconciled
    <3> QED BY <2>2, <2>3, <3>1 DEF Answer
  <2>4. ASSUME NEW t \in Steps, Skip(t) \/ Begin(t) \/ Admit(t) \/ Fail(t) \/ TransportFails(t)
        PROVE  step[s] = "completed"
    BY <2>2, <2>4 DEF Skip, Begin, Admit, Fail, TransportFails, TryAgain
  <2>5. ASSUME NEW t \in Steps, Validate(t) \/ Reserve(t) \/ Invoke(t) \/ Return(t)
        PROVE  step[s] = "completed"
    BY <2>2, <2>5 DEF Validate, Reserve, Invoke, Return
  <2> QED BY <1>1, <2>3, <2>4, <2>5 DEF Next, Cancel, PassDeadline, Finished, vars
<1>2. IInv /\ [Next]_vars =>
        [blocked => \A s \in Steps : step'[s] = "completed" => step[s] = "completed"]_vars
  BY <1>1
<1> QED BY <1>2, Invariance, PTL DEF Spec, RefusedUsageIsFinal

-----------------------------------------------------------------------------
(* The audit trail.                                                        *)

Records == [slot : Nat, status : {"completed", "failed", "skipped"}]

InOrder(t) == \A i, j \in DOMAIN t : i < j => t[i].slot < t[j].slot

Recorded(t, n) == \E i \in DOMAIN t : t[i].slot = n

\* The steps that hold a slot.
Holding == {s \in Steps : slot[s] # 0}

\* The slots given out are those of the records and those that are held, each
\* of them once.
SlotsGiven ==
  /\ records \in Seq(Records) /\ InOrder(records)
  /\ \A i \in DOMAIN records : records[i].slot \in 1 .. calls
  /\ \A s \in Holding : slot[s] \in 1 .. calls /\ ~ Recorded(records, slot[s])
  /\ \A s, t \in Holding : slot[s] = slot[t] => s = t
  /\ \A n \in 1 .. calls : Recorded(records, n) \/ \E s \in Holding : slot[s] = n
  /\ Len(records) + Cardinality(Holding) = calls

LEMMA SlotsOfRecords ==
  ASSUME NEW t \in Seq(Records)
  PROVE  /\ Len(t) \in Nat /\ DOMAIN t = 1 .. Len(t)
         /\ \A i \in DOMAIN t : t[i] \in Records /\ t[i].slot \in Nat
<1>1. Len(t) \in Nat /\ DOMAIN t = 1 .. Len(t) /\ \A i \in DOMAIN t : t[i] \in Records
  OBVIOUS
<1>2. \A x \in Records : x.slot \in Nat
  BY DEF Records
<1> QED BY <1>1, <1>2

LEMMA SlotsOfAppended ==
  ASSUME NEW t \in Seq(Records), NEW r \in Records
  PROVE  /\ Append(t, r) \in Seq(Records) /\ DOMAIN Append(t, r) = 1 .. Len(t) + 1
         /\ Append(t, r)[Len(t) + 1] = r
         /\ \A i \in 1 .. Len(t) : Append(t, r)[i] = t[i]
OBVIOUS

(* A record finds its place among those that are in order, ...             *)
LEMMA PlaceExists ==
  ASSUME NEW t \in Seq(Records), InOrder(t), NEW k \in Nat, ~ Recorded(t, k)
  PROVE  \E m \in 0 .. Len(t) : \A i \in DOMAIN t : IF i <= m THEN t[i].slot < k ELSE k < t[i].slot
<1> DEFINE S == {i \in 0 .. Len(t) : i = 0 \/ t[i].slot < k}
<1>1. Len(t) \in Nat /\ DOMAIN t = 1 .. Len(t) /\ \A i \in DOMAIN t : t[i].slot \in Nat
  BY SlotsOfRecords
<1>2. S \subseteq Nat /\ S # {} /\ IsFiniteSet(S)
  <2>1. IsFiniteSet(0 .. Len(t)) /\ S \subseteq 0 .. Len(t)
    BY <1>1, FS_Interval
  <2>2. 0 \in S
    BY <1>1
  <2>3. IsFiniteSet(S)
    BY <2>1, FS_Subset
  <2> QED BY <2>1, <2>2, <2>3
<1>3. PICK m \in S : \A x \in S : x <= m
  <2> HIDE DEF S
  <2> QED BY <1>2, FiniteHasMax
<1>4. ASSUME NEW i \in DOMAIN t, i <= m
      PROVE  t[i].slot < k
  <2>1. m \in DOMAIN t /\ t[m].slot < k
    BY <1>1, <1>3, <1>4
  <2> QED BY <1>1, <1>3, <1>4, <2>1 DEF InOrder
<1>5. ASSUME NEW i \in DOMAIN t, ~ (i <= m)
      PROVE  k < t[i].slot
  <2>1. i \notin S
    BY <1>3, <1>5
  <2>2. ~ (t[i].slot < k) /\ t[i].slot # k
    BY <1>1, <2>1 DEF Recorded
  <2> QED BY <1>1, <2>2
<1> QED BY <1>3, <1>4, <1>5

(* ... so that they can be sorted with it ...                              *)
LEMMA SortingExists ==
  ASSUME NEW t \in Seq(Records), InOrder(t), NEW r \in Records, ~ Recorded(t, r.slot)
  PROVE  \E p \in Bijection(DOMAIN Append(t, r), DOMAIN Append(t, r)) :
           \A i, j \in DOMAIN Append(t, r) :
             i < j => Append(t, r)[p[i]].slot <= Append(t, r)[p[j]].slot
<1> DEFINE n == Len(t)
           all == Append(t, r)
           D == 1 .. n + 1
<1>1. n \in Nat /\ DOMAIN all = D /\ DOMAIN t = 1 .. n /\ all[n + 1] = r
      /\ \A i \in 1 .. n : all[i] = t[i] /\ t[i].slot \in Nat
  BY SlotsOfRecords, SlotsOfAppended
<1>2. r.slot \in Nat
  BY DEF Records
<1>3. PICK m \in 0 .. n : \A i \in 1 .. n : IF i <= m THEN t[i].slot < r.slot ELSE r.slot < t[i].slot
  BY <1>1, <1>2, PlaceExists
<1> DEFINE p == [i \in D |-> IF i <= m THEN i ELSE IF i = m + 1 THEN n + 1 ELSE i - 1]
<1>4. p \in [D -> D]
  BY <1>1, <1>3
<1>5. \A i, j \in D : p[i] = p[j] => i = j
  BY <1>1, <1>3
<1>6. \A j \in D : \E i \in D : p[i] = j
  <2> SUFFICES ASSUME NEW j \in D PROVE \E i \in D : p[i] = j
    OBVIOUS
  <2>1. CASE j <= m
    <3>1. j \in D /\ p[j] = j
      BY <1>1, <1>3, <2>1
    <3> QED BY <3>1
  <2>2. CASE j = n + 1
    <3>1. m + 1 \in D /\ p[m + 1] = j
      BY <1>1, <1>3, <2>2
    <3> QED BY <3>1
  <2>3. CASE m < j /\ j # n + 1
    <3>1. j + 1 \in D /\ p[j + 1] = j
      BY <1>1, <1>3, <2>3
    <3> QED BY <3>1
  <2> QED BY <1>1, <1>3, <2>1, <2>2, <2>3
<1>7. p \in Bijection(D, D)
  <2> HIDE DEF p, D
  <2> QED BY <1>4, <1>5, <1>6 DEF Bijection, Injection, Surjection, IsInjective
<1>8. ASSUME NEW i \in D, NEW j \in D, i < j
      PROVE  all[p[i]].slot <= all[p[j]].slot
  <2>1. CASE i = m + 1
    <3>1. p[i] = n + 1 /\ p[j] = j - 1 /\ j - 1 \in 1 .. n /\ ~ (j - 1 <= m)
      BY <1>1, <1>3, <1>8, <2>1
    <3> QED BY <1>1, <1>2, <1>3, <3>1
  <2>2. CASE j = m + 1
    <3>1. p[j] = n + 1 /\ p[i] = i /\ i \in 1 .. n /\ i <= m
      BY <1>1, <1>3, <1>8, <2>2
    <3> QED BY <1>1, <1>2, <1>3, <3>1
  <2>3. CASE i # m + 1 /\ j # m + 1
    <3>1. p[i] \in 1 .. n /\ p[j] \in 1 .. n /\ p[i] < p[j]
      BY <1>1, <1>3, <1>8, <2>3
    <3>2. t[p[i]].slot < t[p[j]].slot
      BY <1>1, <3>1 DEF InOrder
    <3> QED BY <1>1, <3>1, <3>2
  <2> QED BY <2>1, <2>2, <2>3
<1> HIDE DEF p
<1> QED BY <1>1, <1>7, <1>8

(* ... and the result is in order again and holds the same and the new one. *)
LEMMA StoredInOrder ==
  ASSUME records \in Seq(Records), InOrder(records), NEW r \in Records, ~ Recorded(records, r.slot)
  PROVE  /\ Stored(r) \in Seq(Records) /\ InOrder(Stored(r)) /\ Len(Stored(r)) = Len(records) + 1
         /\ \A n : Recorded(Stored(r), n) <=> n = r.slot \/ Recorded(records, n)
<1> DEFINE all == Append(records, r)
           D == 1 .. Len(records) + 1
           Sorts(p) == \A i, j \in D : i < j => all[p[i]].slot <= all[p[j]].slot
           q == CHOOSE p \in Bijection(D, D) : Sorts(p)
           sorted == [i \in D |-> all[q[i]]]
<1>1. /\ Len(records) \in Nat /\ DOMAIN records = 1 .. Len(records)
      /\ DOMAIN all = D /\ all \in Seq(Records) /\ all[Len(records) + 1] = r
      /\ \A i \in 1 .. Len(records) : all[i] = records[i]
  BY SlotsOfRecords, SlotsOfAppended
<1>2. q \in Bijection(D, D) /\ Sorts(q)
  <2>1. \E p \in Bijection(D, D) : Sorts(p)
    BY <1>1, SortingExists
  <2> HIDE DEF D, Sorts
  <2> QED BY <2>1
<1>3. Stored(r) = sorted
  BY <1>1 DEF Stored
<1>4. /\ q \in [D -> D] /\ \A i, j \in D : q[i] = q[j] => i = j
      /\ \A j \in D : \E i \in D : q[i] = j
  <2> HIDE DEF q, D
  <2> QED BY <1>2 DEF Bijection, Injection, Surjection, IsInjective
<1>5. \A i, j \in D : all[i].slot = all[j].slot => i = j
  <2>1. \A i, j \in 1 .. Len(records) : records[i].slot = records[j].slot => i = j
    <3>1. \A i \in 1 .. Len(records) : records[i].slot \in Nat
      BY SlotsOfRecords
    <3> QED BY <1>1, <3>1 DEF InOrder
  <2>2. \A i \in 1 .. Len(records) : records[i].slot # r.slot
    BY <1>1 DEF Recorded
  <2>3. \A i \in D : i \in 1 .. Len(records) \/ i = Len(records) + 1
    BY <1>1
  <2> QED BY <1>1, <2>1, <2>2, <2>3
<1>6. \A i \in D : all[i] \in Records /\ all[i].slot \in Nat
  <2> HIDE DEF all, D
  <2> QED BY <1>1, SlotsOfRecords
<1> HIDE DEF q
<1>7. sorted \in Seq(Records) /\ DOMAIN sorted = D /\ Len(sorted) = Len(records) + 1
  <2>1. Len(records) + 1 \in Nat
    BY <1>1
  <2>2. sorted \in [D -> Records]
    <3> HIDE DEF all, D
    <3> QED BY <1>4, <1>6
  <2> HIDE DEF sorted
  <2> QED BY <2>1, <2>2
<1>8. InOrder(sorted)
  <2> SUFFICES ASSUME NEW i \in D, NEW j \in D, i < j PROVE sorted[i].slot < sorted[j].slot
    BY <1>7 DEF InOrder
  <2>1. all[q[i]].slot <= all[q[j]].slot
    BY <1>2
  <2>2. q[i] \in D /\ q[j] \in D /\ q[i] # q[j]
    <3>1. i # j
      BY <1>1
    <3> HIDE DEF D
    <3> QED BY <1>4, <3>1
  <2>3. all[q[i]].slot # all[q[j]].slot /\ all[q[i]].slot \in Nat /\ all[q[j]].slot \in Nat
    BY <1>5, <1>6, <2>2
  <2>4. sorted[i] = all[q[i]] /\ sorted[j] = all[q[j]]
    <3> HIDE DEF all, D
    <3> QED OBVIOUS
  <2> HIDE DEF sorted, all
  <2> QED BY <2>1, <2>3, <2>4
<1>9. ASSUME NEW n
      PROVE  Recorded(sorted, n) <=> n = r.slot \/ Recorded(records, n)
  <2>1. Recorded(sorted, n) <=> \E i \in D : all[i].slot = n
    <3>1. Recorded(sorted, n) <=> \E i \in D : all[q[i]].slot = n
      BY <1>7 DEF Recorded
    <3> HIDE DEF D, all
    <3> QED BY <1>4, <3>1
  <2>2. (\E i \in D : all[i].slot = n) <=> n = r.slot \/ \E i \in 1 .. Len(records) : records[i].slot = n
    <3>1. \A i \in D : i \in 1 .. Len(records) \/ i = Len(records) + 1
      BY <1>1
    <3>2. Len(records) + 1 \in D /\ \A i \in 1 .. Len(records) : i \in D
      BY <1>1
    <3> QED BY <1>1, <3>1, <3>2
  <2> QED BY <1>1, <2>1, <2>2 DEF Recorded
<1> QED BY <1>3, <1>7, <1>8, <1>9

\* The steps that hold a slot are finitely many.
LEMMA HoldingIsFinite ==
  ASSUME IInv
  PROVE  IsFiniteSet(Holding) /\ Cardinality(Holding) \in Nat
<1>1. IsFiniteSet(Steps) /\ Holding \subseteq Steps
  BY BudgetAssumption, FS_Interval DEF Steps, Holding
<1> QED BY <1>1, FS_Subset, FS_CardinalityType

(* A reservation gives out the next slot, ...                              *)
LEMMA ReserveKeepsSlots ==
  ASSUME IInv, SlotsGiven, NEW s \in Steps, Reserve(s)
  PROVE  SlotsGiven'
<1>1. calls \in Nat /\ slot \in [Steps -> Nat] /\ records' = records
  BY DEF Reserve, IInv, TypeOK
<1>2. CASE UNCHANGED <<calls, slot>>
  BY <1>1, <1>2 DEF SlotsGiven, Holding, Recorded, InOrder
<1>3. CASE calls' = calls + 1 /\ slot' = [slot EXCEPT ![s] = NextSlot]
  <2>1. /\ \A t \in Steps : slot'[t] = IF t = s THEN calls + 1 ELSE slot[t]
        /\ s \notin Holding
    BY <1>1, <1>3 DEF NextSlot, Holding, Reserve, IInv, TypeOK, Is
  <2>2. Holding' = Holding \cup {s}
    BY <1>1, <2>1 DEF Holding
  <2>3. Cardinality(Holding') = Cardinality(Holding) + 1
    BY <2>1, <2>2, HoldingIsFinite, FS_AddElement
  <2>4. /\ records \in Seq(Records) /\ InOrder(records)
        /\ \A i \in DOMAIN records : records[i].slot \in 1 .. calls + 1 /\ records[i].slot # calls + 1
    BY <1>1 DEF SlotsGiven
  <2>5. \A t \in Holding' : slot'[t] \in 1 .. calls + 1 /\ ~ Recorded(records, slot'[t])
    BY <1>1, <2>1, <2>2, <2>4 DEF SlotsGiven, Holding, Recorded
  <2>6. \A t, u \in Holding' : slot'[t] = slot'[u] => t = u
    BY <1>1, <2>1, <2>2 DEF SlotsGiven, Holding
  <2>7. ASSUME NEW n \in 1 .. calls + 1
        PROVE  Recorded(records, n) \/ \E t \in Holding' : slot'[t] = n
    <3>1. CASE n = calls + 1
      BY <2>1, <2>2, <3>1
    <3>2. CASE n # calls + 1
      <4>1. n \in 1 .. calls
        BY <1>1, <3>2
      <4>2. \A t \in Holding : t \in Holding' /\ slot'[t] = slot[t]
        BY <2>1, <2>2 DEF Holding
      <4> QED BY <4>1, <4>2 DEF SlotsGiven
    <3> QED BY <3>1, <3>2
  <2>8. Len(records) + Cardinality(Holding') = calls + 1
    BY <1>1, <2>3, <2>4, HoldingIsFinite, SlotsOfRecords DEF SlotsGiven
  <2>9. calls' = calls + 1 /\ records' = records
    BY <1>1, <1>3
  <2> QED BY <2>4, <2>5, <2>6, <2>7, <2>8, <2>9 DEF SlotsGiven, Recorded, InOrder
<1> QED BY <1>2, <1>3 DEF Reserve

(* ... which becomes that of a record when the invocation has ended.       *)
LEMMA RecordKeepsSlots ==
  ASSUME IInv, SlotsGiven, NEW s \in Holding, NEW status \in {"completed", "failed", "skipped"},
         records' = Stored([slot |-> slot[s], status |-> status]),
         slot' = [slot EXCEPT ![s] = 0], calls' = calls
  PROVE  SlotsGiven'
<1> DEFINE r == [slot |-> slot[s], status |-> status]
<1>1. /\ calls \in Nat /\ slot \in [Steps -> Nat] /\ s \in Steps /\ slot[s] \in 1 .. calls
      /\ ~ Recorded(records, slot[s]) /\ slot[s] # 0
  BY DEF SlotsGiven, Holding, IInv, TypeOK
<1>2. r \in Records /\ r.slot = slot[s]
  BY <1>1 DEF Records
<1>3. /\ records' \in Seq(Records) /\ InOrder(records') /\ Len(records') = Len(records) + 1
      /\ \A n : Recorded(records', n) <=> n = slot[s] \/ Recorded(records, n)
  <2>1. records \in Seq(Records) /\ InOrder(records)
    BY DEF SlotsGiven
  <2> HIDE DEF r
  <2> QED BY <1>1, <1>2, <2>1, StoredInOrder DEF r
<1>4. \A t \in Steps : slot'[t] = IF t = s THEN 0 ELSE slot[t]
  BY <1>1
<1>5. Holding' = Holding \ {s} /\ \A t \in Holding' : t \in Holding /\ t # s /\ slot'[t] = slot[t]
  BY <1>1, <1>4 DEF Holding
<1>6. Cardinality(Holding') = Cardinality(Holding) - 1
  BY <1>5, HoldingIsFinite, FS_RemoveElement
<1>7. \A i \in DOMAIN records' : records'[i].slot \in 1 .. calls
  <2> SUFFICES ASSUME NEW i \in DOMAIN records' PROVE records'[i].slot \in 1 .. calls
    OBVIOUS
  <2>1. Recorded(records', records'[i].slot)
    BY DEF Recorded
  <2>2. records'[i].slot = slot[s] \/ Recorded(records, records'[i].slot)
    BY <1>3, <2>1
  <2> QED BY <1>1, <2>2 DEF SlotsGiven, Recorded
<1>8. \A t \in Holding' : slot'[t] \in 1 .. calls /\ ~ Recorded(records', slot'[t])
  BY <1>3, <1>5 DEF SlotsGiven
<1>9. \A t, u \in Holding' : slot'[t] = slot'[u] => t = u
  BY <1>5 DEF SlotsGiven
<1>10. ASSUME NEW n \in 1 .. calls
       PROVE  Recorded(records', n) \/ \E t \in Holding' : slot'[t] = n
  <2>1. \A t \in Holding : t = s \/ (t \in Holding' /\ slot'[t] = slot[t])
    BY <1>4, <1>5 DEF Holding
  <2>2. Recorded(records, n) \/ \E t \in Holding : slot[t] = n
    BY DEF SlotsGiven
  <2> QED BY <1>3, <2>1, <2>2
<1>11. Len(records') + Cardinality(Holding') = calls
  BY <1>1, <1>3, <1>6, HoldingIsFinite, SlotsOfRecords DEF SlotsGiven
<1> QED BY <1>3, <1>7, <1>8, <1>9, <1>10, <1>11 DEF SlotsGiven, Recorded, InOrder

LEMMA SlotsPreserved ==
  ASSUME IInv, SlotsGiven, [Next]_vars
  PROVE  SlotsGiven'
<1>1. ASSUME UNCHANGED <<records, slot, calls>> PROVE SlotsGiven'
  BY <1>1 DEF SlotsGiven, Holding, Recorded, InOrder
<1>2. ASSUME NEW s \in Steps, Reserve(s) PROVE SlotsGiven'
  BY <1>2, ReserveKeepsSlots
<1>3. ASSUME NEW s \in Steps, Invoke(s) \/ Return(s) PROVE SlotsGiven'
  <2>1. CASE UNCHANGED <<records, slot, calls>>
    BY <1>1, <2>1
  <2>2. CASE \E status \in {"completed", "failed", "skipped"} :
               /\ records' = Stored([slot |-> slot[s], status |-> status])
               /\ slot' = [slot EXCEPT ![s] = 0] /\ calls' = calls
    <3>1. s \in Holding
      BY <1>3 DEF Holding, Invoke, Return, IInv, TypeOK, Is
    <3> QED BY <2>2, <3>1, RecordKeepsSlots
  <2> QED BY <1>3, <2>1, <2>2 DEF Invoke, Return
<1>4. \/ UNCHANGED <<records, slot, calls>>
      \/ \E s \in Steps : Reserve(s) \/ Invoke(s) \/ Return(s)
  BY DEF Next, Skip, Begin, Admit, Answer, TransportFails, Fail, Validate, Cancel, PassDeadline,
         Finished, vars, gateway
<1> QED BY <1>1, <1>2, <1>3, <1>4

(* Every call has one slot and, as soon as it has ended, a record; the     *)
(* records are in the order of the reservations, in whatever order the     *)
(* calls of the steps return.                                              *)
THEOREM AuditIsKept == Spec => []AuditIsComplete
<1>1. Init => SlotsGiven
  <2> SUFFICES ASSUME Init PROVE SlotsGiven
    OBVIOUS
  <2>1. records = <<>> /\ calls = 0 /\ Holding = {}
    BY DEF Init, Holding
  <2>2. Len(<<>>) = 0 /\ DOMAIN records = {} /\ records \in Seq(Records)
    BY <2>1
  <2> QED BY <2>1, <2>2, FS_EmptySet DEF SlotsGiven, Recorded, InOrder
<1>2. SlotsGiven => AuditIsComplete
  <2> SUFFICES ASSUME SlotsGiven PROVE AuditIsComplete
    OBVIOUS
  <2>1. DOMAIN records = 1 .. Len(records)
    BY SlotsOfRecords DEF SlotsGiven
  <2>2. ASSUME NEW n \in 1 .. calls
        PROVE  n \in {records[i].slot : i \in 1 .. Len(records)} \cup {slot[s] : s \in Steps}
    BY <2>1 DEF SlotsGiven, Recorded, Holding
  <2> QED BY <2>1, <2>2 DEF SlotsGiven, AuditIsComplete, InOrder, Holding
<1> QED BY <1>1, <1>2, Invariance, SlotsPreserved, PTL DEF Spec
=============================================================================

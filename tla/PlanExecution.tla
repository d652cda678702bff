---------------------------- MODULE PlanExecution ----------------------------
(***************************************************************************)
(* One run executes the plan of its supervisor: steps, one at a time in an *)
(* order their dependencies allow, or several at once by a bounded pool of *)
(* workers.  A step calls its specialist through the adapter that enforces *)
(* the delegation budget, and the specialist calls tools through the       *)
(* gateway that enforces the tool-call budget.  All steps share the two    *)
(* budgets, the cancellation of the run and its deadline.                  *)
(*                                                                         *)
(* Steps are numbered by their place in the plan.  A specialist is taken   *)
(* to do anything its contract allows: any number of tool calls, then a    *)
(* result, a transport failure or another error.                           *)
(***************************************************************************)
EXTENDS Naturals, Sequences, FiniteSets, Functions

CONSTANTS
  StepCount,     \* steps of the plan
  Parallelism,   \* max_parallelism of a parallel plan
  MaxAttempts,   \* max_attempts of a step that may be retried
  MaxSteps,      \* budget.max_steps
  MaxToolCalls,  \* budget.max_tool_calls
  MaxUsage       \* the usage budget; an attempt uses one unit, or cannot tell

ASSUME BudgetAssumption ==
  /\ {StepCount, Parallelism, MaxSteps, MaxToolCalls, MaxUsage} \subseteq Nat
  /\ MaxAttempts \in Nat \ {0}

VARIABLES
  mode,       \* "sequential" or "parallel"
  dependsOn,  \* the steps each step depends on
  retries,    \* the steps whose retry policy is owned by the executor
  step,       \* where each step is, or how it ended
  attempts,   \* attempts of each step
  admitted,   \* tasks the delegation guard has admitted
  usage,      \* usage it has recorded
  blocked,    \* it has refused a usage of this run
  calls,      \* tool calls reserved at the gateway
  slot,       \* the reservation each step holds, 0 for none
  records,    \* tool_call_records
  cancelled,  \* cancellation has been asked for
  noticed,    \* context.cancellation_requested
  overdue     \* the deadline has passed

plan == <<mode, dependsOn, retries>>
guard == <<admitted, usage, blocked>>
gateway == <<calls, slot, records>>
signals == <<cancelled, noticed, overdue>>
vars == <<plan, step, attempts, guard, gateway, signals>>

-----------------------------------------------------------------------------
Steps == 1 .. StepCount
Working == {"starting", "running", "checked", "reserved", "called"}
Ended == {"completed", "failed", "cancelled", "skipped"}

\* _topological_steps: round by round, every step whose dependencies have been
\* placed in an earlier round, in the order of the plan.
Placed(depends) ==
  LET P[n \in 0 .. StepCount] ==
        IF n = 0 THEN {} ELSE {s \in Steps : depends[s] \subseteq P[n - 1]}
  IN  P

Round(s) == CHOOSE n \in Steps :
              s \in Placed(dependsOn)[n] /\ s \notin Placed(dependsOn)[n - 1]

Precedes(s, t) == Round(s) < Round(t) \/ (Round(s) = Round(t) /\ s < t)

Acyclic(depends) == Placed(depends)[StepCount] = Steps
Independent == \A s \in Steps : dependsOn[s] = {}

Init ==
  /\ mode \in {"sequential", "parallel"}
  /\ dependsOn \in {d \in [Steps -> SUBSET Steps] : Acyclic(d)}
  /\ mode = "parallel" => Independent  \* the executor refuses other plans
  /\ retries \in SUBSET Steps
  /\ step = [s \in Steps |-> "pending"]
  /\ attempts = [s \in Steps |-> 0]
  /\ admitted = {} /\ usage = 0 /\ blocked = FALSE
  /\ calls = 0 /\ slot = [s \in Steps |-> 0] /\ records = <<>>
  /\ cancelled = FALSE /\ noticed = FALSE /\ overdue = FALSE

Is(s, where) == step[s] \in where
Goes(s, to) == step' = [step EXCEPT ![s] = to]
HasEnded(s) == Is(s, Ended)

-----------------------------------------------------------------------------
\* The executor.  Workers take the steps in order, as many as there are.
Turn(s) ==
  /\ Is(s, {"pending"})
  /\ IF mode = "sequential"
       THEN \A t \in Steps : Precedes(t, s) => HasEnded(t)
       ELSE /\ \A t \in Steps : t < s => ~Is(t, {"pending"})
            /\ Cardinality({t \in Steps : Is(t, Working)}) < Parallelism

Unmet(s) == \E t \in dependsOn[s] : ~Is(t, {"completed"})

Skip(s) ==
  /\ Turn(s) /\ Unmet(s)
  /\ Goes(s, "skipped")
  /\ UNCHANGED <<plan, attempts, guard, gateway, signals>>

\* A step looks for a cancellation before it begins; whoever looks and finds
\* one lets the tool gateway know.
Begin(s) ==
  /\ Turn(s) /\ ~Unmet(s)
  /\ noticed' = (noticed \/ cancelled)
  /\ IF noticed'
       THEN Goes(s, "cancelled") /\ UNCHANGED attempts
       ELSE Goes(s, "starting") /\ attempts' = [attempts EXCEPT ![s] = 1]
  /\ UNCHANGED <<plan, guard, gateway, cancelled, overdue>>

-----------------------------------------------------------------------------
\* The delegation guard, before the specialist is called and after it ended.
\* A task keeps its identity, and its admission, when it is tried again.
HasRoom(s) == s \in admitted \/ Cardinality(admitted) < MaxSteps

Admit(s) ==
  /\ Is(s, {"starting"})
  /\ IF ~overdue /\ HasRoom(s)
       THEN Goes(s, "running") /\ admitted' = admitted \cup {s}
       ELSE Goes(s, "failed") /\ UNCHANGED admitted
  /\ UNCHANGED <<plan, attempts, usage, blocked, gateway, signals>>

\* Reconciled(known) records the usage of an attempt, known or not.  After a
\* refusal nothing is recorded and everything is refused.

\* Faulty: a refusal does not last.
ReconciledAfresh(known) ==
  /\ usage' = usage + 1
  /\ blocked' = (~known \/ usage' > MaxUsage)

Reconciled(known) ==
  /\ usage' = IF blocked THEN usage ELSE usage + 1
  /\ blocked' = (blocked \/ ~known \/ usage' > MaxUsage)

\* The specialist answers; the handler's status is that of the step.
Answer(s) ==
  /\ Is(s, {"running"})
  /\ \E known \in BOOLEAN : Reconciled(known)
  /\ \E status \in {"completed", "cancelled", "failed"} :
       Goes(s, IF blocked' \/ overdue THEN "failed" ELSE status)
  /\ UNCHANGED <<plan, attempts, admitted, gateway, signals>>

\* The transport fails in a way that the policy lets the executor retry, unless
\* it finds a cancellation.
Retriable(s) == s \in retries /\ attempts[s] < MaxAttempts

\* Faulty: the retry does not look for a cancellation.
TryAgainAnyway(s) ==
  /\ Goes(s, "starting")
  /\ attempts' = [attempts EXCEPT ![s] = @ + 1]
  /\ UNCHANGED noticed

TryAgain(s) ==
  /\ noticed' = (noticed \/ cancelled)
  /\ IF noticed'
       THEN Goes(s, "cancelled") /\ UNCHANGED attempts
       ELSE Goes(s, "starting") /\ attempts' = [attempts EXCEPT ![s] = @ + 1]

TransportFails(s) ==
  /\ Is(s, {"running"})
  /\ \E known \in BOOLEAN : Reconciled(known)
  /\ IF ~blocked' /\ ~overdue /\ Retriable(s)
       THEN TryAgain(s)
       ELSE Goes(s, "failed") /\ UNCHANGED <<attempts, noticed>>
  /\ UNCHANGED <<plan, admitted, gateway, cancelled, overdue>>

\* Any other error, one of the gateway's included.
Fail(s) ==
  /\ Is(s, {"running"})
  /\ Goes(s, "failed")
  /\ UNCHANGED <<plan, attempts, guard, gateway, signals>>

-----------------------------------------------------------------------------
\* The tool gateway.  An invocation is validated, then reserved; its slot
\* numbers the record that is stored when it has ended.
Validate(s) ==
  /\ Is(s, {"running"})
  /\ calls < MaxToolCalls
  /\ Goes(s, "checked")
  /\ UNCHANGED <<plan, attempts, guard, gateway, signals>>

\* Faulty: what was validated is reserved.
MayReserveAfterCheck == TRUE

MayReserve == calls < MaxToolCalls

\* Faulty: a slot is the number of records there will be.
NextSlotByRecords == Len(records) + 1

NextSlot == calls + 1

Reserve(s) ==
  /\ Is(s, {"checked"})
  /\ IF MayReserve
       THEN /\ calls' = calls + 1
            /\ slot' = [slot EXCEPT ![s] = NextSlot]
            /\ Goes(s, "reserved")
       ELSE /\ Goes(s, "running")
            /\ UNCHANGED <<calls, slot>>
  /\ UNCHANGED <<plan, attempts, guard, records, signals>>

\* The records with the new one, sorted by their slots.
Stored(record) ==
  LET all == Append(records, record)
      sorting == CHOOSE p \in Bijection(DOMAIN all, DOMAIN all) :
                   \A i, j \in DOMAIN all : i < j => all[p[i]].slot <= all[p[j]].slot
  IN  [i \in DOMAIN all |-> all[sorting[i]]]

Invoke(s) ==
  /\ Is(s, {"reserved"})
  /\ IF noticed \/ overdue
       THEN /\ records' = Stored([slot |-> slot[s], status |-> "skipped"])
            /\ slot' = [slot EXCEPT ![s] = 0]
            /\ Goes(s, "running")
       ELSE /\ Goes(s, "called")
            /\ UNCHANGED <<records, slot>>
  /\ UNCHANGED <<plan, attempts, guard, calls, signals>>

Return(s) ==
  /\ Is(s, {"called"})
  /\ \E status \in {"completed", "failed"} :
       records' = Stored([slot |-> slot[s], status |-> status])
  /\ slot' = [slot EXCEPT ![s] = 0]
  /\ Goes(s, "running")
  /\ UNCHANGED <<plan, attempts, guard, calls, signals>>

-----------------------------------------------------------------------------
HasFinished == \A s \in Steps : HasEnded(s)

Cancel ==
  /\ ~HasFinished /\ ~cancelled
  /\ cancelled' = TRUE
  /\ UNCHANGED <<plan, step, attempts, guard, gateway, noticed, overdue>>

PassDeadline ==
  /\ ~HasFinished /\ ~overdue
  /\ overdue' = TRUE
  /\ UNCHANGED <<plan, step, attempts, guard, gateway, cancelled, noticed>>

Finished == HasFinished /\ UNCHANGED vars

Next ==
  \/ \E s \in Steps :
       \/ Skip(s) \/ Begin(s) \/ Admit(s)
       \/ Answer(s) \/ TransportFails(s) \/ Fail(s)
       \/ Validate(s) \/ Reserve(s) \/ Invoke(s) \/ Return(s)
  \/ Cancel \/ PassDeadline \/ Finished

Spec == Init /\ [][Next]_vars

-----------------------------------------------------------------------------
\* The values each variable takes; a step that works has been attempted, and
\* only one that is at the gateway holds a slot (_run_step, invoke).
TypeOK ==
  /\ step \in [Steps -> {"pending"} \cup Working \cup Ended]
  /\ attempts \in [Steps -> 0 .. MaxAttempts]
  /\ \A s \in Steps : Is(s, {"pending", "skipped"}) => attempts[s] = 0
  /\ \A s \in Steps : Is(s, Working) => attempts[s] > 0
  /\ \A s \in Steps : slot[s] # 0 <=> Is(s, {"reserved", "called"})
  /\ admitted \subseteq Steps /\ usage \in Nat /\ blocked \in BOOLEAN
  /\ calls \in Nat /\ slot \in [Steps -> Nat]
  /\ mode \in {"sequential", "parallel"} /\ dependsOn \in [Steps -> SUBSET Steps]
  /\ cancelled \in BOOLEAN /\ noticed \in BOOLEAN /\ overdue \in BOOLEAN

\* However the steps interleave, no more tools are called than the budget
\* allows (_validate_budget, _reserve_tool_call).
ToolBudgetHolds == calls <= MaxToolCalls

\* The audit trail is complete and in the order of the reservations: every call
\* has one slot, and a record as soon as it has ended (_store_record).
AuditIsComplete ==
  /\ \A i, j \in 1 .. Len(records) : i < j => records[i].slot < records[j].slot
  /\ Len(records) + Cardinality({s \in Steps : slot[s] # 0}) = calls
  /\ 1 .. calls \subseteq
       {records[i].slot : i \in 1 .. Len(records)} \cup {slot[s] : s \in Steps}

\* Once the run has noticed its cancellation, no step begins, none is tried
\* again and no tool is called (_execute_step, _run_step, _check_execution_controls).
CancelledRunStartsNothing ==
  [][cancelled => \A s \in Steps :
       /\ attempts'[s] = attempts[s]
       /\ noticed /\ step'[s] = "called" => step[s] = "called"]_vars

\* A step has been tried only when everything it depends on has completed
\* (_execute_sequential).
DependenciesFirst ==
  \A s \in Steps : attempts[s] > 0 => \A t \in dependsOn[s] : Is(t, {"completed"})

\* A step is skipped only when something it depends on has ended otherwise
\* (_execute_sequential).
SkippedForCause ==
  \A s \in Steps :
    Is(s, {"skipped"}) => \E t \in dependsOn[s] : Is(t, Ended \ {"completed"})

\* When a usage was refused, no step of the run completes any more, also none
\* that is already at work (reconcile_usage).
RefusedUsageIsFinal ==
  [][blocked => \A s \in Steps : step'[s] = "completed" => step[s] = "completed"]_vars
=============================================================================

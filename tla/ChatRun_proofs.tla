--------------------------- MODULE ChatRun_proofs ---------------------------
(***************************************************************************)
(* What ChatRun guarantees for every set of requests, keys and categories  *)
(* and every bound.                                                        *)
(*                                                                         *)
(* That a key is executed once and an answer stays true rests on the       *)
(* number of a run: whoever works on a run, has an answer of it or has     *)
(* erased it refers to it by its number, and numbers are not used again.   *)
(* That a shopping state is only replaced by its successor rests on the    *)
(* version, which every write raises (BasesBehind, at the end).            *)
(***************************************************************************)
EXTENDS ChatRun, Totals, TLAPS

\* The stages in which a request has started its run and not answered.
Working(r) == request[r].stage \in {"load", "execute", "append", "finish"}

\* The run of a request is still there.
HasRun(r) == run[request[r].key].id = request[r].id

\* A request that is not idle has a key, one that works has a run of its own,
\* and one that finishes has an outcome.
RequestsGrounded ==
  /\ \A r \in Requests : ~ At(r, "idle") => request[r].key \in Keys
  /\ \A r \in Requests : Working(r) => request[r].id \in 1 .. executions
  /\ \A r, s \in Requests :
       Working(r) /\ Working(s) /\ request[r].id = request[s].id => r = s
  /\ \A r \in Requests :
       request[r].stage \in {"append", "finish"} => request[r].outcome \in Outcomes

\* All numbers in the tables have been handed out.
NumbersGiven ==
  /\ \A k \in Keys : run[k].id \in 0 .. executions /\ record[k].id \in 0 .. executions
  /\ \A a \in answers : a.id \in 1 .. executions
  /\ erased \subseteq 1 .. executions /\ deletion.runs \subseteq 1 .. executions

\* A run with a request at work is started and fresh, has this request's key
\* and has not been answered.  The finish keeps its run.
WorkUnanswered ==
  /\ \A r \in Requests : Working(r) /\ HasRun(r) =>
       run[request[r].key].status = "started" /\ age[request[r].key] = Fresh
  /\ \A r \in Requests, k \in Keys :
       Working(r) /\ run[k].id = request[r].id => request[r].key = k
  /\ \A r \in Requests, a \in answers : Working(r) => a.id # request[r].id
  /\ \A r \in Requests : At(r, "finish") => HasRun(r)

\* A record says of its run what the run says of itself.
RecordsAgree ==
  \A k \in Keys : record[k].id # 0 /\ record[k].id = run[k].id =>
    record[k].status = run[k].status

IInv ==
  /\ TypeOK
  /\ RequestsGrounded
  /\ NumbersGiven
  /\ WorkUnanswered
  /\ RecordsAgree
  /\ ResultsAreStored
  /\ ErasedForGood

USE DEF TerminalStatuses, Ids, Fresh, RecordExpired, RunExpired

-----------------------------------------------------------------------------
(* Initially nothing is stored and no request is at work.                  *)
LEMMA InitInvariant == Init => IInv
<1> SUFFICES ASSUME Init PROVE IInv
  OBVIOUS
<1>1. TypeOK
  BY BoundsAssumption
  DEF Init, TypeOK, NoRecord, NoRun, Idle, EmptyConversation, NoDeletion, Conversations,
      Stages, Unclaimed
<1>2. RequestsGrounded /\ NumbersGiven /\ WorkUnanswered
  BY BoundsAssumption
  DEF Init, RequestsGrounded, NumbersGiven, WorkUnanswered, Working, HasRun, At, Idle, NoRun,
      NoRecord, NoDeletion
<1>3. RecordsAgree /\ ResultsAreStored /\ ErasedForGood
  BY DEF Init, RecordsAgree, ResultsAreStored, ErasedForGood, NoRun, NoRecord, At, Idle
<1> QED BY <1>1, <1>2, <1>3 DEF IInv

\* The rows, numbers and answers the invariant is about.
tables == <<record, run, age, executions, answers, erasure>>

\* Everything a request may be.
RequestStates == [stage : Stages, key : Keys \cup {"none"}, id : {0} \cup Ids,
                  base : Conversations, outcome : Outcomes \cup {NoOutcome},
                  sequence : Nat]

(* A request that moves on without writing keeps the invariant, if it      *)
(* becomes idle or stays with its key and its run, and finishes only a run *)
(* that is there.                                                          *)
LEMMA MoveInvariant ==
  ASSUME IInv, UNCHANGED tables,
         claim' \in [Keys -> Requests \cup {Unclaimed}], faults' \in 0 .. MaxFaults,
         conversation' \in Conversations,
         NEW r \in Requests, NEW q \in RequestStates,
         request' = [request EXCEPT ![r] = q],
         \/ q.stage = "idle"
         \/ /\ q.key \in Keys
            /\ q.stage \in {"resolve", "claim", "insert", "start"}
         \/ /\ Working(r) /\ q.key = request[r].key /\ q.id = request[r].id
            /\ q.stage \in {"load", "execute", "append", "finish"}
            /\ q.stage \in {"append", "finish"} => q.outcome \in Outcomes
            /\ q.stage = "finish" => HasRun(r)
  PROVE  IInv'
<1> USE DEF tables, erasure
<1>1. TypeOK'
  BY DEF IInv, TypeOK, RequestStates
<1>2. request \in [Requests -> RequestStates]
  BY DEF IInv, TypeOK, RequestStates
<1>3. RequestsGrounded'
  BY <1>2 DEF IInv, RequestsGrounded, Working, At
<1>4. NumbersGiven' /\ RecordsAgree' /\ ResultsAreStored'
  BY DEF IInv, NumbersGiven, RecordsAgree, ResultsAreStored
<1>5. WorkUnanswered'
  BY <1>2 DEF IInv, WorkUnanswered, Working, HasRun, At
<1>6. ErasedForGood'
  BY <1>2 DEF IInv, RequestsGrounded, WorkUnanswered, ErasedForGood, Working, HasRun, At
<1> QED BY <1>1, <1>3, <1>4, <1>5, <1>6 DEF IInv

(* A request that is idle again, or on its way to the start of its run.    *)
LEMMA EarlyStates ==
  ASSUME TypeOK, NEW r \in Requests
  PROVE  /\ Idle \in RequestStates
         /\ request[r] \in RequestStates
         /\ \A stage \in Stages : [request[r] EXCEPT !.stage = stage] \in RequestStates
         /\ \A k \in Keys : [Idle EXCEPT !.stage = "resolve", !.key = k] \in RequestStates
<1>1. Idle \in RequestStates
  BY DEF RequestStates, Idle, EmptyConversation, Conversations, Stages
<1>2. request[r] \in RequestStates
  BY DEF TypeOK, RequestStates
<1>3. \A q \in RequestStates, stage \in Stages : [q EXCEPT !.stage = stage] \in RequestStates
  BY DEF RequestStates
<1>4. \A k \in Keys : [Idle EXCEPT !.stage = "resolve", !.key = k] \in RequestStates
  BY <1>1 DEF RequestStates, Stages
<1> QED BY <1>1, <1>2, <1>3, <1>4

(* A request that only becomes idle keeps the invariant.                   *)
LEMMA AnswerInvariant ==
  ASSUME IInv, UNCHANGED tables, UNCHANGED conversation, faults' \in 0 .. MaxFaults,
         claim' \in [Keys -> Requests \cup {Unclaimed}],
         NEW r \in Requests, Answer(r)
  PROVE  IInv'
<1>1. TypeOK /\ Idle.stage = "idle"
  BY DEF IInv, Idle
<1>2. conversation' \in Conversations
  BY <1>1 DEF TypeOK
<1> QED BY <1>1, <1>2, EarlyStates, MoveInvariant DEF Answer

(* One that only goes on to the start of its run does.                     *)
LEMMA AdvanceInvariant ==
  ASSUME IInv, UNCHANGED tables, UNCHANGED <<conversation, faults>>,
         claim' \in [Keys -> Requests \cup {Unclaimed}],
         NEW r \in Requests, NEW stage \in {"claim", "insert", "start"},
         ~ At(r, "idle"), Advance(r, stage)
  PROVE  IInv'
<1>1. TypeOK /\ request[r].key \in Keys
  BY DEF IInv, RequestsGrounded
<1>2. conversation' \in Conversations /\ faults' \in 0 .. MaxFaults /\ stage \in Stages
  BY <1>1 DEF TypeOK, Stages
<1>3. /\ request' = [request EXCEPT ![r] = [request[r] EXCEPT !.stage = stage]]
      /\ [request[r] EXCEPT !.stage = stage] \in RequestStates
      /\ [request[r] EXCEPT !.stage = stage].stage = stage
      /\ [request[r] EXCEPT !.stage = stage].key = request[r].key
  BY <1>1, <1>2, EarlyStates DEF Advance, RequestStates
<1> QED BY <1>1, <1>2, <1>3, MoveInvariant

-----------------------------------------------------------------------------
(* The actions, in the order of the module.                                *)

(* An answer from a record tells of a run that has ended, so that nobody   *)
(* works on it.                                                            *)
LEMMA AnswerFromRecordInvariant ==
  ASSUME IInv, NEW r \in Requests, ~ At(r, "idle"), AnswerFromRecord(r)
  PROVE  IInv'
<1> DEFINE k == request[r].key
           a == [key |-> k, id |-> record[k].id, status |-> run[k].status]
<1>1. CASE answers' = answers
  <2>1. UNCHANGED tables /\ claim' = claim /\ faults' = faults /\ conversation' = conversation
    BY <1>1 DEF AnswerFromRecord, tables, erasure
  <2>2. claim' \in [Keys -> Requests \cup {Unclaimed}] /\ faults' \in 0 .. MaxFaults
    BY <2>1 DEF IInv, TypeOK
  <2> QED BY <2>1, <2>2, AnswerInvariant DEF AnswerFromRecord
<1>2. CASE answers' = answers \cup {a} /\ Ended(k)
  <2>1. UNCHANGED <<record, run, age, claim, conversation, executions, faults, deletion, cleanup,
                    erased>>
        /\ request' = [request EXCEPT ![r] = Idle]
    BY DEF AnswerFromRecord, Answer, erasure
  <2>2. k \in Keys /\ run[k] # NoRun /\ run[k].id \in Ids
    BY <1>2 DEF IInv, RequestsGrounded, TypeOK, Ended, NoRun
  <2>3. run[k].status \in TerminalStatuses /\ a.id = run[k].id
    BY <1>2, <2>2 DEF IInv, RecordsAgree, Ended
  <2>4. \A s \in Requests : Working(s) => a.id # request[s].id
    BY <2>2, <2>3 DEF IInv, WorkUnanswered, HasRun
  <2>5. TypeOK'
    <3>1. a \in [key : Keys, id : Ids, status : TerminalStatuses]
      BY <2>2, <2>3
    <3>2. request' \in [Requests -> RequestStates]
      BY <2>1, EarlyStates DEF IInv, TypeOK, RequestStates
    <3> QED BY <1>2, <2>1, <3>1, <3>2 DEF IInv, TypeOK, RequestStates
  <2>6. RequestsGrounded' /\ RecordsAgree' /\ ErasedForGood'
    BY <2>1 DEF IInv, RequestsGrounded, RecordsAgree, ErasedForGood, TypeOK, Working, At, Idle
  <2>7. NumbersGiven'
    BY <1>2, <2>1, <2>2, <2>3 DEF IInv, NumbersGiven
  <2>8. WorkUnanswered'
    BY <1>2, <2>1, <2>4 DEF IInv, WorkUnanswered, TypeOK, Working, HasRun, At, Idle
  <2>9. ResultsAreStored'
    BY <1>2, <2>1, <2>3 DEF IInv, ResultsAreStored
  <2> QED BY <2>5, <2>6, <2>7, <2>8, <2>9 DEF IInv
<1> QED BY <1>1, <1>2 DEF AnswerFromRecord

(* A new run has a number nobody refers to.                                *)
LEMMA CommitStartInvariant ==
  ASSUME IInv, NEW r \in Requests, CommitStart(r)
  PROVE  IInv'
<1> DEFINE k == request[r].key
           id == executions + 1
           row == [status |-> "started", id |-> id]
<1>1. /\ run' = [run EXCEPT ![k] = row] /\ record' = [record EXCEPT ![k] = row]
      /\ age' = [age EXCEPT ![k] = Fresh] /\ executions' = id
      /\ claim' = [claim EXCEPT ![k] = Unclaimed]
      /\ conversation' = [conversation EXCEPT !.messages = @ + 1]
      /\ request' = [request EXCEPT ![r].stage = "load", ![r].id = id]
      /\ UNCHANGED <<faults, answers, deletion, cleanup, erased>>
      /\ At(r, "start") /\ run[k] = NoRun
  BY DEF CommitStart, RunKeyFree, erasure
<1>2. k \in Keys /\ id \in Ids /\ executions \in Nat /\ executions < MaxExecutions
  BY <1>1, BoundsAssumption DEF IInv, RequestsGrounded, At, TypeOK, CommitStart
<1>3. TypeOK'
  <2>1. request' \in [Requests -> RequestStates]
    <3> DEFINE q == [request[r] EXCEPT !.stage = "load", !.id = id]
    <3>1. request[r] \in RequestStates /\ request \in [Requests -> RequestStates]
      BY DEF IInv, TypeOK, RequestStates
    <3>2. q \in RequestStates
      BY <1>2, <3>1 DEF RequestStates, Stages
    <3>3. request' = [request EXCEPT ![r] = q]
      BY <1>1, <3>1
    <3> QED BY <3>1, <3>2, <3>3
  <2>2. conversation' \in Conversations
    BY <1>1, SMTT(30) DEF IInv, TypeOK, Conversations
  <2>3. /\ row \in [status : {"started"} \cup TerminalStatuses, id : {0} \cup Ids]
        /\ row \in [status : {"started"} \cup TerminalStatuses, id : Ids]
    BY <1>2
  <2> QED BY <1>1, <1>2, <2>1, <2>2, <2>3 DEF IInv, TypeOK, RequestStates
<1>4. \A s \in Requests : /\ s # r => request'[s] = request[s]
                          /\ request'[s].key = request[s].key
                          /\ request'[s].outcome = request[s].outcome
  BY <1>1 DEF IInv, TypeOK
<1>5. request'[r].stage = "load" /\ request'[r].id = id
  BY <1>1 DEF IInv, TypeOK
<1>6. /\ \A j \in Keys \ {k} : run'[j] = run[j] /\ record'[j] = record[j] /\ age'[j] = age[j]
      /\ run'[k] = row /\ record'[k] = row /\ age'[k] = Fresh
  BY <1>1, <1>2 DEF IInv, TypeOK
<1>7. RequestsGrounded'
  <2>1. \A s \in Requests : ~ At(s, "idle")' => ~ At(s, "idle")
    BY <1>1, <1>4 DEF At
  <2>2. \A s \in Requests \ {r} : Working(s)' => Working(s) /\ request'[s].id \in 1 .. executions
    BY <1>4 DEF IInv, RequestsGrounded, Working
  <2>3. \A s \in Requests : Working(s)' => request'[s].id \in 1 .. executions'
    <3>1. executions' = executions + 1 /\ request'[r].id = executions + 1
      BY <1>1, <1>5
    <3>2. executions \in Nat
      BY <1>2
    <3>3. 1 .. executions \subseteq 1 .. executions' /\ request'[r].id \in 1 .. executions'
      BY <3>1, <3>2
    <3> QED BY <2>2, <3>3
  <2>4. \A s \in Requests \ {r} : Working(s)' => request'[s].id # request'[r].id
    BY <1>2, <1>5, <2>2
  <2>5. \A s, t \in Requests : Working(s)' /\ Working(t)' /\ request'[s].id = request'[t].id => s = t
    BY <1>4, <2>2, <2>4 DEF IInv, RequestsGrounded
  <2> QED BY <1>4, <1>5, <2>1, <2>3, <2>5 DEF IInv, RequestsGrounded
<1>8. NumbersGiven'
  BY <1>1, <1>2, <1>6 DEF IInv, NumbersGiven
<1>9. WorkUnanswered'
  <2>1. \A s \in Requests \ {r} : Working(s) => request[s].id # id
    BY <1>2 DEF IInv, RequestsGrounded
  <2>2. \A j \in Keys : run[j].id # id /\ \A a \in answers : a.id # id
    BY <1>2 DEF IInv, NumbersGiven
  <2>3. \A s \in Requests \ {r} : Working(s)' = Working(s) /\ At(s, "finish")' = At(s, "finish")
    BY <1>4 DEF Working, At
  <2>4. \A s \in Requests : Working(s) => request[s].key \in Keys
    BY DEF IInv, RequestsGrounded, Working, At
  <2>5. \A s \in Requests \ {r} : At(s, "finish") => HasRun(s) /\ request[s].key # k
    BY <1>1, <1>2 DEF IInv, RequestsGrounded, WorkUnanswered, HasRun, At, Working, NoRun
  <2>6. \A s \in Requests, j \in Keys : Working(s)' /\ run'[j].id = request'[s].id =>
                                           request'[s].key = j
    BY <1>2, <1>4, <1>5, <1>6, <2>1, <2>2, <2>3 DEF IInv, WorkUnanswered
  <2>7. \A s \in Requests : Working(s)' /\ HasRun(s)' =>
          run'[request'[s].key].status = "started" /\ age'[request'[s].key] = Fresh
    BY <1>2, <1>4, <1>5, <1>6, <2>1, <2>3, <2>4 DEF IInv, WorkUnanswered, HasRun
  <2>8. \A s \in Requests, a \in answers' : Working(s)' => a.id # request'[s].id
    <3>1. answers' = answers /\ \A s \in Requests, a \in answers : Working(s) => a.id # request[s].id
      BY <1>1 DEF IInv, WorkUnanswered
    <3>2. \A a \in answers : a.id # request'[r].id
      BY <1>2, <1>5, <2>2
    <3>3. \A s \in Requests \ {r}, a \in answers : Working(s)' => a.id # request'[s].id
      BY <1>4, <2>3, <3>1
    <3> QED BY <3>1, <3>2, <3>3
  <2>9. \A s \in Requests : At(s, "finish")' => HasRun(s)'
    BY <1>4, <1>5, <1>6, <2>3, <2>4, <2>5 DEF HasRun, At, Working
  <2> QED BY <2>6, <2>7, <2>8, <2>9 DEF WorkUnanswered
<1>10. RecordsAgree'
  BY <1>6 DEF IInv, RecordsAgree
<1>11. ResultsAreStored'
  <2>1. \A a \in answers : a.id # id
    BY <1>2 DEF IInv, NumbersGiven
  <2>2. \A a \in answers : a.key \in Keys
    BY DEF IInv, TypeOK
  <2> QED BY <1>1, <1>6, <2>1, <2>2 DEF IInv, ResultsAreStored
<1>12. ErasedForGood'
  <2>1. id \notin erased
    BY <1>2 DEF IInv, NumbersGiven
  <2>2. erased' = erased /\ \A j \in Keys : run'[j].id \notin erased /\ record'[j].id \notin erased
    BY <1>1, <1>6, <2>1 DEF IInv, ErasedForGood
  <2>3. \A s \in Requests : request'[s].stage = "finish" => request'[s] = request[s]
    BY <1>4, <1>5
  <2> QED BY <2>2, <2>3 DEF IInv, ErasedForGood, At
<1> QED BY <1>3, <1>7, <1>8, <1>9, <1>10, <1>11, <1>12 DEF IInv

(* The finish writes a run nobody has been told of.                        *)
LEMMA PersistFinishInvariant ==
  ASSUME IInv, NEW r \in Requests, PersistFinish(r)
  PROVE  IInv'
<1> DEFINE q == request[r]
           k == q.key
           status == q.outcome.status
           row == [status |-> status, id |-> q.id]
           a == [key |-> k, id |-> q.id, status |-> status]
<1>1. /\ run' = [run EXCEPT ![k].status = status] /\ record' = [record EXCEPT ![k] = row]
      /\ answers' = answers \cup {a} /\ request' = [request EXCEPT ![r] = Idle]
      /\ UNCHANGED <<age, claim, executions, faults, deletion, cleanup, erased>>
      /\ At(r, "finish")
  BY DEF PersistFinish, Answer, erasure
<1>2. /\ k \in Keys /\ Working(r) /\ HasRun(r) /\ q.outcome \in Outcomes
      /\ q.id \in Ids /\ q.id \in 1 .. executions /\ q.id \notin erased
      /\ run[k].id = q.id /\ run[k].status = "started"
  <2>1. At(r, "finish") /\ Working(r) /\ HasRun(r)
    BY <1>1 DEF IInv, WorkUnanswered, Working, At
  <2>2. k \in Keys /\ q.id \in 1 .. executions /\ q.outcome \in Outcomes
    BY <2>1 DEF IInv, RequestsGrounded, At
  <2>3. q.id \in Ids
    BY <2>2 DEF IInv, TypeOK
  <2> QED BY <2>1, <2>2, <2>3 DEF IInv, WorkUnanswered, ErasedForGood, HasRun
<1>3. status \in TerminalStatuses
  BY <1>2 DEF Outcomes
<1>4. /\ \A j \in Keys \ {k} : run'[j] = run[j] /\ record'[j] = record[j]
      /\ run'[k].id = q.id /\ run'[k].status = status /\ record'[k] = row
      /\ \A j \in Keys : run'[j].id = run[j].id
  <2>1. run[k] \in [status : {"started"} \cup TerminalStatuses, id : Ids]
    BY <1>2 DEF IInv, TypeOK, NoRun
  <2>2. run' = [run EXCEPT ![k] = [run[k] EXCEPT !.status = status]]
    BY <1>1
  <2>3. [run[k] EXCEPT !.status = status].status = status /\ [run[k] EXCEPT !.status = status].id = run[k].id
    BY <2>1
  <2> QED BY <1>1, <1>2, <2>2, <2>3 DEF IInv, TypeOK
<1>5. TypeOK'
  <2>1. run' \in [Keys -> [status : {"started"} \cup TerminalStatuses, id : Ids] \cup {NoRun}]
    <3>1. run[k] \in [status : {"started"} \cup TerminalStatuses, id : Ids]
      BY <1>2 DEF IInv, TypeOK, NoRun
    <3>2. [run[k] EXCEPT !.status = status]
            \in [status : {"started"} \cup TerminalStatuses, id : Ids]
      BY <1>3, <3>1
    <3> QED BY <1>1, <3>2 DEF IInv, TypeOK
  <2>2. request' \in [Requests -> RequestStates]
    BY <1>1, EarlyStates DEF IInv, TypeOK, RequestStates
  <2>3. conversation' \in Conversations
    <3>1. q \in RequestStates
      BY EarlyStates DEF IInv
    <3>2. q.base.states \in [Categories -> Nat] /\ conversation.messages \in Nat
          /\ conversation.states \in [Categories -> Nat]
      BY <3>1 DEF IInv, TypeOK, RequestStates, Conversations
    <3>3. conversation' =
            [messages |-> conversation.messages + (IF q.outcome.says THEN 1 ELSE 0),
             states |-> [c \in Categories |-> IF c \in q.outcome.writes
                                              THEN q.base.states[c] + 1
                                              ELSE conversation.states[c]]]
      BY DEF PersistFinish
    <3> QED BY <3>2, <3>3 DEF Conversations
  <2>4. /\ row \in [status : {"started"} \cup TerminalStatuses, id : {0} \cup Ids]
        /\ a \in [key : Keys, id : Ids, status : TerminalStatuses]
    BY <1>2, <1>3
  <2> QED BY <1>1, <2>1, <2>2, <2>3, <2>4 DEF IInv, TypeOK, RequestStates
<1>6. \A s \in Requests : /\ s # r => request'[s] = request[s]
                          /\ request'[r].stage = "idle"
  BY <1>1 DEF IInv, TypeOK, Idle
<1>7. \A s \in Requests : Working(s)' => s # r /\ Working(s) /\ request'[s] = request[s]
  BY <1>6 DEF Working
<1>8. RequestsGrounded'
  BY <1>1, <1>6, <1>7 DEF IInv, RequestsGrounded, At
<1>9. NumbersGiven'
  BY <1>1, <1>2, <1>4 DEF IInv, NumbersGiven
<1>10. WorkUnanswered'
  <2>1. \A s \in Requests : Working(s)' => request[s].id # q.id /\ request[s].key \in Keys
    BY <1>2, <1>7 DEF IInv, RequestsGrounded, Working, At
  <2>2. \A s \in Requests : Working(s)' =>
          /\ HasRun(s)' <=> HasRun(s)
          /\ HasRun(s) => request[s].key # k
    BY <1>2, <1>4, <1>7, <2>1 DEF HasRun
  <2>3. \A s \in Requests : Working(s)' /\ HasRun(s)' =>
          run'[request'[s].key].status = "started" /\ age'[request'[s].key] = Fresh
    BY <1>1, <1>4, <1>7, <2>1, <2>2 DEF IInv, WorkUnanswered
  <2>4. \A s \in Requests, j \in Keys : Working(s)' /\ run'[j].id = request'[s].id =>
                                           request'[s].key = j
    BY <1>4, <1>7 DEF IInv, WorkUnanswered
  <2>5. \A s \in Requests, b \in answers' : Working(s)' => b.id # request'[s].id
    BY <1>1, <1>7, <2>1 DEF IInv, WorkUnanswered
  <2>6. \A s \in Requests : At(s, "finish")' => HasRun(s)'
    BY <1>6, <1>7, <2>2 DEF IInv, WorkUnanswered, At, Working
  <2> QED BY <2>3, <2>4, <2>5, <2>6 DEF WorkUnanswered
<1>11. RecordsAgree'
  BY <1>4 DEF IInv, RecordsAgree
<1>12. ResultsAreStored'
  <2>1. \A b \in answers : b.id # q.id /\ b.key \in Keys
    BY <1>2 DEF IInv, WorkUnanswered, TypeOK
  <2> QED BY <1>1, <1>2, <1>4, <2>1 DEF IInv, ResultsAreStored
<1>13. ErasedForGood'
  BY <1>1, <1>2, <1>4, <1>6 DEF IInv, ErasedForGood, At
<1> QED BY <1>5, <1>8, <1>9, <1>10, <1>11, <1>12, <1>13 DEF IInv

(* Retention runs off only where nobody works.                             *)
LEMMA AgeInvariant ==
  ASSUME IInv, NEW k \in Keys, Age(k)
  PROVE  IInv'
<1>1. /\ age' = [age EXCEPT ![k] = @ + 1] /\ age[k] < RunExpired
      /\ UNCHANGED <<record, run, claim, conversation, request, executions, faults, answers,
                     deletion, cleanup, erased>>
      /\ \A r \in Requests : At(r, "idle") \/ request[r].id # run[k].id
  BY DEF Age, erasure
<1>2. TypeOK'
  BY <1>1 DEF IInv, TypeOK
<1>3. RequestsGrounded' /\ NumbersGiven' /\ RecordsAgree' /\ ResultsAreStored' /\ ErasedForGood'
  BY <1>1 DEF IInv, RequestsGrounded, NumbersGiven, RecordsAgree, ResultsAreStored,
              ErasedForGood, Working, At
<1>4. WorkUnanswered'
  <2>1. \A r \in Requests : Working(r) /\ HasRun(r) => request[r].key # k
    BY <1>1 DEF HasRun, Working, At
  <2>2. \A j \in Keys \ {k} : age'[j] = age[j]
    BY <1>1 DEF IInv, TypeOK
  <2>3. \A r \in Requests : Working(r) => request[r].key \in Keys
    BY DEF IInv, RequestsGrounded, Working, At
  <2> QED BY <1>1, <2>1, <2>2, <2>3 DEF IInv, WorkUnanswered, Working, HasRun, At
<1> QED BY <1>2, <1>3, <1>4 DEF IInv

(* A step that takes rows away, or the number from a record, and lets no   *)
(* retention run off, leaves the rest of the invariant.                    *)
LEMMA RowsGoInvariant ==
  ASSUME IInv, TypeOK', UNCHANGED <<request, executions, answers>>,
         \A k \in Keys : run'[k] \in {run[k], NoRun},
         \A k \in Keys : age'[k] \in {age[k], Fresh},
         \A k \in Keys : record'[k].id = 0 \/ record'[k] = record[k],
         \A r \in Requests : At(r, "finish") => run'[request[r].key] = run[request[r].key],
         erased' \subseteq 1 .. executions, deletion'.runs \subseteq 1 .. executions,
         ErasedForGood'
  PROVE  IInv'
<1>1. RequestsGrounded'
  BY DEF IInv, RequestsGrounded, Working, At
<1>2. NumbersGiven'
  BY DEF IInv, NumbersGiven, NoRun, TypeOK
<1>3. WorkUnanswered'
  <2>1. \A r \in Requests : Working(r) => request[r].key \in Keys /\ request[r].id # 0
    BY DEF IInv, RequestsGrounded, Working, At, TypeOK
  <2>2. \A r \in Requests : Working(r)' <=> Working(r)
    BY DEF Working
  <2>3. \A r \in Requests : Working(r) /\ HasRun(r)' =>
          HasRun(r) /\ run'[request[r].key] = run[request[r].key]
    BY <2>1 DEF HasRun, NoRun
  <2>4. \A r \in Requests : Working(r)' /\ HasRun(r)' =>
          run'[request'[r].key].status = "started" /\ age'[request'[r].key] = Fresh
    BY <2>1, <2>2, <2>3 DEF IInv, WorkUnanswered
  <2>5. \A r \in Requests, k \in Keys :
          Working(r)' /\ run'[k].id = request'[r].id => request'[r].key = k
    BY <2>1, <2>2 DEF IInv, WorkUnanswered, NoRun
  <2>6. \A r \in Requests : At(r, "finish")' => HasRun(r)'
    BY DEF IInv, WorkUnanswered, At, HasRun
  <2> QED BY <2>2, <2>4, <2>5, <2>6 DEF IInv, WorkUnanswered
<1>4. RecordsAgree'
  BY DEF IInv, RecordsAgree, NoRun
<1>5. ResultsAreStored'
  <2>1. \A a \in answers : a.key \in Keys /\ a.id # 0
    BY DEF IInv, TypeOK
  <2> QED BY <2>1 DEF IInv, ResultsAreStored, NoRun
<1> QED BY <1>1, <1>2, <1>3, <1>4, <1>5 DEF IInv

(* The cleanup job deletes no run with a request at its finish: it waits for *)
(* such a run if it deletes the thread, and otherwise the run is too fresh.  *)
LEMMA PruneInvariant ==
  ASSUME IInv, Prune
  PROVE  IInv'
<1>1. /\ UNCHANGED <<claim, request, executions, faults, answers, erased>>
      /\ deletion' = [deletion EXCEPT !.ofThread = @ /\ cleanup # "thread"]
      /\ cleanup' = "none"
  BY DEF Prune
<1>2. \A k \in Keys : /\ run'[k] = IF cleanup = "thread" \/ age[k] = RunExpired
                                   THEN NoRun ELSE run[k]
                      /\ record'[k] \in {record[k], NoRecord}
                      /\ age'[k] \in {age[k], Fresh}
  BY DEF Prune, ExpiredRuns
<1>3. TypeOK'
  <2>1. /\ record' \in [Keys -> [status : {"started"} \cup TerminalStatuses,
                                 id : {0} \cup Ids] \cup {NoRecord}]
        /\ run' \in [Keys -> [status : {"started"} \cup TerminalStatuses, id : Ids]
                             \cup {NoRun}]
        /\ age' \in [Keys -> Fresh .. RunExpired]
    BY DEF Prune, IInv, TypeOK
  <2>2. conversation' \in Conversations
    BY DEF Prune, IInv, TypeOK, Conversations, EmptyConversation
  <2>3. deletion' \in [stage : {"none", "records", "runs"}, ofThread : BOOLEAN,
                       records : SUBSET Keys, runs : SUBSET Ids]
    BY <1>1 DEF IInv, TypeOK
  <2> QED BY <1>1, <2>1, <2>2, <2>3 DEF IInv, TypeOK
<1>4. ASSUME NEW r \in Requests, At(r, "finish")
      PROVE  run'[request[r].key] = run[request[r].key]
  <2>1. request[r].key \in Keys /\ Working(r) /\ HasRun(r)
    BY <1>4 DEF IInv, RequestsGrounded, WorkUnanswered, At, Working
  <2>2. age[request[r].key] = Fresh
    BY <2>1 DEF IInv, WorkUnanswered
  <2>3. cleanup # "thread"
    BY <1>4 DEF Prune
  <2> QED BY <1>2, <2>1, <2>2, <2>3
<1>5. ErasedForGood'
  <2>1. 0 \notin erased
    BY DEF IInv, TypeOK
  <2> QED BY <1>1, <1>2, <2>1 DEF IInv, ErasedForGood, At, NoRun, NoRecord
<1>6. erased' \subseteq 1 .. executions /\ deletion'.runs \subseteq 1 .. executions
  BY <1>1 DEF IInv, NumbersGiven, TypeOK
<1> QED BY <1>1, <1>2, <1>3, <1>4, <1>5, <1>6, RowsGoInvariant DEF NoRecord

(* The steps of a deletion before its last, and its end without effect; the *)
(* same of a cleanup.                                                       *)
LEMMA DeletionInvariant ==
  ASSUME IInv, UNCHANGED <<record, run, age, claim, conversation, request, executions, answers,
                           erased>>,
         faults' \in 0 .. MaxFaults, cleanup' \in {"none", "rows", "thread"},
         deletion' \in [stage : {"none", "records", "runs"}, ofThread : BOOLEAN,
                        records : SUBSET Keys, runs : SUBSET Ids],
         deletion'.runs \subseteq 1 .. executions
  PROVE  IInv'
<1>1. TypeOK'
  BY DEF IInv, TypeOK
<1>2. RequestsGrounded' /\ NumbersGiven' /\ WorkUnanswered' /\ RecordsAgree'
  BY DEF IInv, RequestsGrounded, NumbersGiven, WorkUnanswered, RecordsAgree, Working, HasRun, At
<1>3. ResultsAreStored' /\ ErasedForGood'
  BY DEF IInv, ResultsAreStored, ErasedForGood, At
<1> QED BY <1>1, <1>2, <1>3 DEF IInv

(* A deletion looks up runs that are there.                                *)
LEMMA BeginDeletionInvariant ==
  ASSUME IInv, BeginDeletion
  PROVE  IInv'
<1> DEFINE runs == {run[k].id : k \in {j \in Keys : run[j] # NoRun}}
<1>1. runs \subseteq Ids /\ runs \subseteq 1 .. executions
  BY DEF IInv, TypeOK, NumbersGiven, NoRun
<1>2. deletion' = [stage |-> "records", ofThread |-> conversation # EmptyConversation,
                   records |-> {}, runs |-> runs]
  BY DEF BeginDeletion
<1>3. faults' \in 0 .. MaxFaults /\ cleanup' \in {"none", "rows", "thread"}
  BY BoundsAssumption DEF BeginDeletion, Fault, IInv, TypeOK
<1> HIDE DEF runs
<1>4. /\ deletion' \in [stage : {"none", "records", "runs"}, ofThread : BOOLEAN,
                        records : SUBSET Keys, runs : SUBSET Ids]
      /\ deletion'.runs = runs
  BY <1>1, <1>2
<1> QED BY <1>1, <1>3, <1>4, DeletionInvariant DEF BeginDeletion

(* A deletion that has locked the records knows the same runs.             *)
LEMMA DeleteRecordsInvariant ==
  ASSUME IInv, DeleteRecords
  PROVE  IInv'
<1>1. /\ faults' \in 0 .. MaxFaults /\ cleanup' \in {"none", "rows", "thread"}
      /\ UNCHANGED <<record, run, age, claim, conversation, request, executions, answers, erased>>
  BY DEF DeleteRecords, IInv, TypeOK
<1>2. /\ deletion' \in [stage : {"none", "records", "runs"}, ofThread : BOOLEAN,
                        records : SUBSET Keys, runs : SUBSET Ids]
      /\ deletion'.runs = deletion.runs
  BY DEF DeleteRecords, IInv, TypeOK
<1> QED BY <1>1, <1>2, DeletionInvariant DEF IInv, NumbersGiven

(* A deletion that is undone knows none.                                   *)
LEMMA RollBackDeletionInvariant ==
  ASSUME IInv, RollBackDeletion,
         UNCHANGED <<record, run, age, claim, conversation, request, executions, faults, answers>>
  PROVE  IInv'
<1>1. faults' \in 0 .. MaxFaults /\ cleanup' \in {"none", "rows", "thread"}
  BY DEF RollBackDeletion, IInv, TypeOK
<1>2. /\ deletion' \in [stage : {"none", "records", "runs"}, ofThread : BOOLEAN,
                        records : SUBSET Keys, runs : SUBSET Ids]
      /\ deletion'.runs = {} /\ erased' = erased
  BY DEF RollBackDeletion, NoDeletion
<1> QED BY <1>1, <1>2, DeletionInvariant

(* A cleanup that reads what there is, or ends without effect.             *)
LEMMA CleanupInvariant ==
  ASSUME IInv, BeginCleanup \/ CleanupFails
  PROVE  IInv'
<1>1. /\ faults' \in 0 .. MaxFaults /\ cleanup' \in {"none", "rows", "thread"}
      /\ UNCHANGED <<record, run, age, claim, conversation, request, executions, answers, deletion,
                     erased>>
  BY BoundsAssumption DEF BeginCleanup, CleanupFails, Fault, IInv, TypeOK
<1>2. deletion \in [stage : {"none", "records", "runs"}, ofThread : BOOLEAN,
                    records : SUBSET Keys, runs : SUBSET Ids]
  BY DEF IInv, TypeOK
<1> QED BY <1>1, <1>2, DeletionInvariant DEF IInv, NumbersGiven

(* A deletion that commits leaves no run, and no record with a number.     *)
LEMMA DeleteRunsInvariant ==
  ASSUME IInv, DeleteRuns
  PROVE  IInv'
<1>1. /\ UNCHANGED <<claim, request, executions, faults, answers>>
      /\ deletion' = NoDeletion /\ erased' = erased \cup deletion.runs
      /\ cleanup' \in {cleanup, "rows"}
      /\ \A r \in Requests : ~ At(r, "finish")
  BY DEF DeleteRuns
<1>2. \A k \in Keys : run'[k] = NoRun /\ age'[k] \in {age[k], Fresh} /\ record'[k] = RecordAfter(k)
  BY DEF DeleteRuns
<1>3. \A k \in Keys :
        /\ RecordAfter(k) \in [status : {"started"} \cup TerminalStatuses, id : {0} \cup Ids]
                              \cup {NoRecord}
        /\ RecordAfter(k).id = 0
  BY DEF RecordAfter, NoRecord, IInv, TypeOK
<1>4. TypeOK'
  <2>1. /\ record' \in [Keys -> [status : {"started"} \cup TerminalStatuses,
                                 id : {0} \cup Ids] \cup {NoRecord}]
        /\ run' \in [Keys -> [status : {"started"} \cup TerminalStatuses, id : Ids]
                             \cup {NoRun}]
        /\ age' \in [Keys -> Fresh .. RunExpired]
    BY <1>3 DEF DeleteRuns, IInv, TypeOK
  <2>2. conversation' \in Conversations
    <3>1. /\ EmptyConversation \in Conversations
          /\ [conversation EXCEPT !.messages = 0] \in Conversations
      BY DEF IInv, TypeOK, Conversations, EmptyConversation
    <3> QED BY <3>1 DEF DeleteRuns, IInv, TypeOK
  <2>3. NoDeletion \in [stage : {"none", "records", "runs"}, ofThread : BOOLEAN,
                        records : SUBSET Keys, runs : SUBSET Ids]
    BY DEF NoDeletion
  <2>4. erased' \subseteq Ids
    BY <1>1 DEF IInv, TypeOK
  <2> QED BY <1>1, <2>1, <2>2, <2>3, <2>4 DEF IInv, TypeOK
<1>5. erased' \subseteq 1 .. executions /\ deletion'.runs \subseteq 1 .. executions
  BY <1>1 DEF IInv, NumbersGiven, NoDeletion
<1>6. ErasedForGood'
  <2>1. 0 \notin erased'
    BY <1>5 DEF IInv, TypeOK
  <2> QED BY <1>1, <1>2, <1>3, <2>1 DEF ErasedForGood, At, NoRun
<1> QED BY <1>1, <1>2, <1>3, <1>4, <1>5, <1>6, RowsGoInvariant

-----------------------------------------------------------------------------
(* Every other step of a request moves it on and writes nothing.           *)
LEMMA RequestInvariant ==
  ASSUME IInv, NEW r \in Requests,
         \/ \E k \in Keys : Arrive(r, k)
         \/ ResolveIdempotency(r) \/ LookupClaim(r) \/ InsertClaim(r)
         \/ StartConflicts(r) \/ StartLosesThread(r) \/ StartFails(r)
         \/ LoadContext(r) \/ LoadFails(r) \/ \E o \in Outcomes : Execute(r, o)
         \/ ReadSequence(r) \/ FinishConflicts(r) \/ FinishOrphaned(r) \/ FinishFails(r)
         \/ Crash(r)
  PROVE  IInv'
<1>1. TypeOK /\ request[r] \in RequestStates
  BY EarlyStates DEF IInv
<1>2. /\ UNCHANGED claim => claim' \in [Keys -> Requests \cup {Unclaimed}]
      /\ UNCHANGED faults => faults' \in 0 .. MaxFaults
      /\ UNCHANGED conversation => conversation' \in Conversations
      /\ Fault => faults' \in 0 .. MaxFaults
      /\ [claim EXCEPT ![request[r].key] = Unclaimed] \in [Keys -> Requests \cup {Unclaimed}]
      /\ [k \in Keys |-> IF claim[k] = r THEN Unclaimed ELSE claim[k]]
            \in [Keys -> Requests \cup {Unclaimed}]
      /\ \A k \in Keys : [claim EXCEPT ![k] = r] \in [Keys -> Requests \cup {Unclaimed}]
  <2>1. claim \in [Keys -> Requests \cup {Unclaimed}] /\ conversation \in Conversations
    BY <1>1 DEF TypeOK
  <2>2. faults \in 0 .. MaxFaults /\ (Fault => faults' \in 0 .. MaxFaults)
    BY <1>1, BoundsAssumption DEF TypeOK, Fault
  <2>3. /\ [claim EXCEPT ![request[r].key] = Unclaimed] \in [Keys -> Requests \cup {Unclaimed}]
        /\ [k \in Keys |-> IF claim[k] = r THEN Unclaimed ELSE claim[k]]
              \in [Keys -> Requests \cup {Unclaimed}]
        /\ \A k \in Keys : [claim EXCEPT ![k] = r] \in [Keys -> Requests \cup {Unclaimed}]
    BY <2>1
  <2> QED BY <2>1, <2>2, <2>3
<1>3. ASSUME NEW k \in Keys, Arrive(r, k) PROVE IInv'
  <2> DEFINE q == [Idle EXCEPT !.stage = "resolve", !.key = k]
  <2>1. q \in RequestStates /\ q.stage = "resolve" /\ q.key = k
    BY <1>1, EarlyStates DEF Idle
  <2>2. request' = [request EXCEPT ![r] = q] /\ UNCHANGED tables
        /\ UNCHANGED <<claim, faults, conversation>>
    BY <1>3 DEF Arrive, tables, erasure
  <2> HIDE DEF q
  <2> QED BY <1>2, <2>1, <2>2, MoveInvariant
<1>4. CASE ResolveIdempotency(r)
  <2>1. CASE AnswerFromRecord(r)
    BY <1>4, <2>1, AnswerFromRecordInvariant DEF ResolveIdempotency, At
  <2>2. CASE Advance(r, "claim") /\ UNCHANGED <<record, run, age, claim, conversation,
                                               executions, faults, answers, erasure>>
    BY <1>2, <1>4, <2>2, AdvanceInvariant DEF ResolveIdempotency, At, tables, erasure
  <2> QED BY <1>4, <2>1, <2>2 DEF ResolveIdempotency
<1>5. CASE LookupClaim(r)
  <2>1. CASE AnswerFromRecord(r)
    BY <1>5, <2>1, AnswerFromRecordInvariant DEF LookupClaim, At
  <2>2. CASE Advance(r, "insert") /\ UNCHANGED <<record, run, age, claim, conversation,
                                                executions, faults, answers, erasure>>
    BY <1>2, <1>5, <2>2, AdvanceInvariant DEF LookupClaim, At, tables, erasure
  <2> QED BY <1>5, <2>1, <2>2 DEF LookupClaim
<1>6. CASE InsertClaim(r)
  <2>1. CASE AnswerFromRecord(r)
    BY <1>6, <2>1, AnswerFromRecordInvariant DEF InsertClaim, At
  <2>2. CASE /\ claim' = [claim EXCEPT ![request[r].key] = r] /\ Advance(r, "start")
             /\ UNCHANGED <<record, run, age, conversation, executions, faults, answers, erasure>>
    <3>1. request[r].key \in Keys /\ ~ At(r, "idle")
      BY <1>6 DEF InsertClaim, At, IInv, RequestsGrounded
    <3> QED BY <1>2, <2>2, <3>1, AdvanceInvariant DEF tables, erasure
  <2> QED BY <1>6, <2>1, <2>2 DEF InsertClaim
<1>7. CASE StartConflicts(r) \/ StartLosesThread(r) \/ StartFails(r)
  BY <1>2, <1>7, AnswerInvariant
  DEF StartConflicts, StartLosesThread, StartFails, RollBackStart, tables, erasure
<1>8. CASE FinishConflicts(r) \/ FinishOrphaned(r) \/ FinishFails(r)
  BY <1>2, <1>8, AnswerInvariant
  DEF FinishConflicts, FinishOrphaned, FinishFails, FailClosed, tables, erasure
<1>9. CASE Crash(r)
  BY <1>2, <1>9, AnswerInvariant DEF Crash, tables, erasure
<1>10. CASE LoadContext(r)
  <2> DEFINE q == [request[r] EXCEPT !.stage = "execute", !.base = conversation]
  <2>1. /\ q \in RequestStates /\ q.stage = "execute"
        /\ q.key = request[r].key /\ q.id = request[r].id
    BY <1>1 DEF RequestStates, TypeOK, Stages
  <2>2. request' = [request EXCEPT ![r] = q] /\ UNCHANGED tables /\ Working(r)
        /\ UNCHANGED <<claim, faults, conversation>>
    BY <1>1, <1>10 DEF LoadContext, At, Working, tables, erasure, TypeOK
  <2> HIDE DEF q
  <2> QED BY <1>2, <2>1, <2>2, MoveInvariant
<1>11. CASE LoadFails(r)
  <2> DEFINE q == [request[r] EXCEPT !.stage = "execute"]
  <2>1. /\ q \in RequestStates /\ q.stage = "execute"
        /\ q.key = request[r].key /\ q.id = request[r].id
    BY <1>1 DEF RequestStates, Stages
  <2>2. request' = [request EXCEPT ![r] = q] /\ UNCHANGED tables /\ Working(r)
        /\ UNCHANGED <<claim, conversation>> /\ Fault
    BY <1>1, <1>11 DEF LoadFails, Advance, At, Working, tables, erasure, TypeOK
  <2> HIDE DEF q
  <2> QED BY <1>2, <2>1, <2>2, MoveInvariant
<1>12. ASSUME NEW o \in Outcomes, Execute(r, o) PROVE IInv'
  <2> DEFINE q == [request[r] EXCEPT !.stage = "append", !.outcome = o]
  <2>1. /\ q \in RequestStates /\ q.stage = "append" /\ q.outcome \in Outcomes
        /\ q.key = request[r].key /\ q.id = request[r].id
    BY <1>1 DEF RequestStates, Stages
  <2>2. request' = [request EXCEPT ![r] = q] /\ UNCHANGED tables /\ Working(r)
        /\ UNCHANGED <<claim, faults, conversation>>
    BY <1>1, <1>12 DEF Execute, At, Working, tables, erasure, TypeOK
  <2> HIDE DEF q
  <2> QED BY <1>2, <2>1, <2>2, MoveInvariant
<1>13. CASE ReadSequence(r)
  <2> DEFINE q == [request[r] EXCEPT !.stage = "finish", !.sequence = conversation.messages + 1]
  <2>1. conversation.messages + 1 \in Nat
    BY <1>1 DEF TypeOK, Conversations
  <2>2. /\ q \in RequestStates /\ q.stage = "finish" /\ q.outcome = request[r].outcome
        /\ q.key = request[r].key /\ q.id = request[r].id
    BY <1>1, <2>1 DEF RequestStates, Stages
  <2>3. request' = [request EXCEPT ![r] = q] /\ UNCHANGED tables /\ Working(r) /\ HasRun(r)
        /\ UNCHANGED <<claim, faults, conversation>> /\ request[r].stage = "append"
    BY <1>1, <1>13 DEF ReadSequence, RunIsThere, HasRun, At, Working, tables, erasure, TypeOK
  <2>4. request[r].outcome \in Outcomes
    BY <2>3 DEF IInv, RequestsGrounded
  <2> HIDE DEF q
  <2> QED BY <1>2, <2>2, <2>3, <2>4, MoveInvariant
<1> QED BY <1>3, <1>4, <1>5, <1>6, <1>7, <1>8, <1>9, <1>10, <1>11, <1>12, <1>13

(* Every step keeps the invariant.                                         *)
LEMMA NextInvariant == IInv /\ [Next]_vars => IInv'
<1> SUFFICES ASSUME IInv, [Next]_vars PROVE IInv'
  OBVIOUS
<1>1. ASSUME NEW r \in Requests, Progress(r) PROVE IInv'
  BY <1>1, RequestInvariant, CommitStartInvariant, PersistFinishInvariant DEF Progress
<1>2. ASSUME NEW r \in Requests, BreakDeadlock(r) PROVE IInv'
  <2>1. CASE RollBackDeletion /\ UNCHANGED <<request, answers>>
    BY <1>2, <2>1, RollBackDeletionInvariant DEF BreakDeadlock
  <2>2. CASE FailClosed(r) /\ UNCHANGED erasure
    <3>1. faults' \in 0 .. MaxFaults /\ claim' \in [Keys -> Requests \cup {Unclaimed}]
      BY <1>2 DEF BreakDeadlock, IInv, TypeOK
    <3> QED BY <1>2, <2>2, <3>1, AnswerInvariant DEF BreakDeadlock, FailClosed, tables, erasure
  <2> QED BY <1>2, <2>1, <2>2 DEF BreakDeadlock
<1>3. CASE DeletionStep
  BY <1>2, <1>3, DeleteRecordsInvariant, DeleteRunsInvariant DEF DeletionStep
<1>4. CASE DeletionFails
  BY <1>4, RollBackDeletionInvariant DEF DeletionFails
<1>5. CASE UNCHANGED vars
  <2>1. faults' \in 0 .. MaxFaults /\ deletion' = deletion /\ cleanup' \in {"none", "rows", "thread"}
    BY <1>5 DEF vars, erasure, IInv, TypeOK
  <2>2. deletion \in [stage : {"none", "records", "runs"}, ofThread : BOOLEAN,
                      records : SUBSET Keys, runs : SUBSET Ids]
    BY DEF IInv, TypeOK
  <2> QED BY <1>5, <2>1, <2>2, DeletionInvariant DEF vars, erasure, IInv, NumbersGiven
<1> QED BY <1>1, <1>3, <1>4, <1>5, RequestInvariant, AgeInvariant, PruneInvariant,
           CleanupInvariant, BeginDeletionInvariant DEF Next

(* The invariant holds in every state of every behaviour.                  *)
LEMMA Invariance == Spec => []IInv
BY InitInvariant, NextInvariant, PTL DEF Spec

-----------------------------------------------------------------------------
(* The theorems.                                                           *)

(* Every variable keeps its type.                                          *)
THEOREM TypeCorrect == Spec => []TypeOK
<1>1. IInv => TypeOK
  BY DEF IInv
<1> QED BY <1>1, Invariance, PTL

(* A result somebody was given is the stored one as long as it is stored:  *)
(* no retry, late finish, crash or deletion makes it another.              *)
THEOREM AnswersStored == Spec => []ResultsAreStored
<1>1. IInv => ResultsAreStored
  BY DEF IInv
<1> QED BY <1>1, Invariance, PTL

(* Nothing that an owner had deleted comes back, however the deletion and  *)
(* the requests at work interleave.                                        *)
THEOREM DeletionFinal == Spec => []ErasedForGood
<1>1. IInv => ErasedForGood
  BY DEF IInv
<1> QED BY <1>1, Invariance, PTL

(* While a run is kept its key is not executed again, and a run that has   *)
(* ended is not written again.  It is kept until it expires, the owner     *)
(* deletes it, or a cleanup that found its thread expired before the run   *)
(* was started deletes the thread.                                         *)
THEOREM KeyExecutedOnce == Spec => ExecutedOnce
<1> DEFINE Kept(k) ==
      \/ /\ run'[k] = NoRun
         /\ age[k] = RunExpired \/ DeletionAt("runs") \/ cleanup = "thread"
      \/ run'[k].id = run[k].id /\ (run[k].status # "started" => run'[k] = run[k])
<1>1. ASSUME IInv, Next, NEW k \in Keys, run[k] # NoRun PROVE Kept(k)
  <2>1. CASE run' = run
    BY <2>1
  <2>2. ASSUME NEW r \in Requests, CommitStart(r) PROVE Kept(k)
    BY <1>1, <2>2 DEF CommitStart, RunKeyFree, IInv, TypeOK
  <2>3. ASSUME NEW r \in Requests, PersistFinish(r) PROVE Kept(k)
    <3>1. /\ run' = [run EXCEPT ![request[r].key] =
                       [run[request[r].key] EXCEPT !.status = request[r].outcome.status]]
          /\ At(r, "finish")
      BY <2>3 DEF PersistFinish
    <3>2. run[request[r].key].status = "started" /\ request[r].key \in Keys
      BY <1>1, <3>1 DEF IInv, WorkUnanswered, RequestsGrounded, Working, At
    <3>3. run[k] \in [status : {"started"} \cup TerminalStatuses, id : Ids]
      BY <1>1 DEF IInv, TypeOK
    <3> QED BY <1>1, <3>1, <3>2, <3>3 DEF IInv, TypeOK
  <2>4. CASE Prune
    BY <2>4 DEF Prune, ExpiredRuns
  <2>5. CASE DeleteRuns
    BY <2>5 DEF DeleteRuns
  <2>6. ASSUME NEW r \in Requests, Progress(r), ~ CommitStart(r), ~ PersistFinish(r)
        PROVE  run' = run
    BY <2>6 DEF Progress, ResolveIdempotency, LookupClaim, InsertClaim, AnswerFromRecord,
                StartConflicts, RollBackStart, LoadContext, Execute, ReadSequence,
                FinishConflicts, FinishOrphaned
  <2> QED BY <1>1, <2>1, <2>2, <2>3, <2>4, <2>5, <2>6
          DEF Next, Arrive, StartLosesThread, StartFails, RollBackStart, LoadFails, FinishFails,
              Crash, Age, BeginCleanup, CleanupFails, BeginDeletion, DeletionStep, DeleteRecords,
              BreakDeadlock, DeletionFails
<1>2. IInv /\ [Next]_vars => [\A k \in Keys : run[k] # NoRun => Kept(k)]_vars
  BY <1>1
<1> QED BY <1>2, Invariance, PTL DEF Spec, ExecutedOnce

-----------------------------------------------------------------------------
(* The shopping state.  What a request has loaded is the present state of  *)
(* the conversation, or one with a lower version: every write raises the   *)
(* version, and a conversation that starts anew has lost all its runs.     *)

\* The stages in which a request works on what it has loaded.
Late(r) == request[r].stage \in {"execute", "append", "finish"}

Behind(old, new) == old = new \/ Version(old) < Version(new)

BasesBehind ==
  /\ \A r \in Requests : ~ Late(r) => request[r].base = EmptyConversation
  /\ \A r \in Requests : Late(r) /\ HasRun(r) =>
       Behind(request[r].base.states, conversation.states)

(* The version is the greatest number of a category.                       *)
LEMMA VersionIsGreatest ==
  ASSUME NEW states \in [Categories -> Nat], NEW c \in Categories
  PROVE  /\ Version(states) \in Nat
         /\ \E d \in Categories : Version(states) = states[d]
         /\ \A d \in Categories : states[d] <= Version(states)
<1> DEFINE S == {states[d] : d \in Categories}
<1>1. S \subseteq Nat /\ S # {}
  OBVIOUS
<1>2. IsFiniteSet(S)
  <2>1. states \in Surjection(Categories, S)
    BY DEF Surjection
  <2> QED BY <2>1, CategoriesAssumption, FS_Surjection
<1>3. PICK m \in S : \A x \in S : x <= m
  <2> HIDE DEF S
  <2> QED BY <1>1, <1>2, FiniteHasMax
<1>4. Version(states) = CHOOSE x \in S : \A y \in S : x >= y
  BY DEF Version, Max
<1>5. Version(states) \in S /\ \A y \in S : Version(states) >= y
  <2>1. \A y \in S : m >= y
    BY <1>1, <1>3
  <2> HIDE DEF S
  <2> QED BY <1>3, <1>4, <2>1
<1> QED BY <1>1, <1>5

(* The empty context is behind everything.                                 *)
LEMMA EmptyIsBehind ==
  ASSUME NEW states \in [Categories -> Nat]
  PROVE  Behind(EmptyConversation.states, states)
<1> DEFINE none == [c \in Categories |-> 0]
<1>1. EmptyConversation.states = none /\ none \in [Categories -> Nat]
  BY DEF EmptyConversation
<1>2. CASE \A c \in Categories : states[c] = 0
  BY <1>1, <1>2 DEF Behind
<1>3. ASSUME NEW c \in Categories, states[c] # 0
      PROVE  Version(none) < Version(states)
  <2>1. Version(none) = 0
    BY <1>1, VersionIsGreatest
  <2>2. states[c] <= Version(states) /\ Version(states) \in Nat /\ states[c] \in Nat
    BY VersionIsGreatest
  <2> QED BY <1>3, <2>1, <2>2
<1> QED BY <1>1, <1>2, <1>3 DEF Behind

(* A step that does not write shopping state.                              *)
LEMMA BasesKept ==
  ASSUME IInv, BasesBehind, conversation'.states = conversation.states,
         \A k \in Keys : \/ run'[k].id = run[k].id
                         \/ run'[k].id \notin 1 .. executions,
         \A r \in Requests :
           \/ request'[r] = request[r]
           \/ request'[r] = Idle
           \/ ~ Late(r)' /\ request'[r].base = request[r].base /\ ~ Late(r)
           \/ Late(r)' /\ request'[r].base \in {conversation, EmptyConversation}
           \/ /\ Late(r) /\ Late(r)'
              /\ request'[r].base = request[r].base
              /\ request'[r].key = request[r].key /\ request'[r].id = request[r].id
  PROVE  BasesBehind'
<1>1. conversation.states \in [Categories -> Nat]
  BY DEF IInv, TypeOK, Conversations
<1>2. ASSUME NEW r \in Requests, ~ Late(r)'
      PROVE  request'[r].base = EmptyConversation
  BY <1>2 DEF BasesBehind, Late, Idle
<1>3. ASSUME NEW r \in Requests, Late(r)', HasRun(r)'
      PROVE  Behind(request'[r].base.states, conversation.states)
  <2>1. CASE request'[r].base \in {conversation, EmptyConversation}
    BY <1>1, <2>1, EmptyIsBehind DEF Behind
  <2>2. CASE /\ Late(r) /\ request'[r].base = request[r].base
             /\ request'[r].key = request[r].key /\ request'[r].id = request[r].id
    <3>1. request[r].key \in Keys /\ request[r].id \in 1 .. executions
      BY <2>2 DEF Late, IInv, RequestsGrounded, Working, At
    <3>2. HasRun(r)
      BY <1>3, <2>2, <3>1 DEF HasRun
    <3> QED BY <2>2, <3>2 DEF BasesBehind
  <2>3. request'[r] # Idle
    BY <1>3 DEF Late, Idle
  <2>4. request'[r] = request[r] => Late(r)
    BY <1>3 DEF Late
  <2> QED BY <1>3, <2>1, <2>2, <2>3, <2>4
<1> QED BY <1>2, <1>3 DEF BasesBehind, Behind, Version

(* A write is for a category, and raises the version by one.               *)
LEMMA WriteRaisesVersion ==
  ASSUME IInv, NEW r \in Requests, PersistFinish(r), request[r].outcome.writes # {}
  PROVE  /\ Version(conversation.states) < Version(conversation.states)'
         /\ \E c \in Categories : request[r].base.states[c] = Version(conversation.states)
<1> DEFINE q == request[r]
           old == conversation.states
           base == q.base.states
           new == conversation'.states
<1>1. /\ new = [c \in Categories |-> IF c \in q.outcome.writes THEN base[c] + 1 ELSE old[c]]
      /\ \A c \in q.outcome.writes : base[c] + 1 = Version(old) + 1
  BY DEF PersistFinish, StateFits
<1>2. old \in [Categories -> Nat] /\ base \in [Categories -> Nat]
  BY DEF IInv, TypeOK, Conversations
<1>3. PICK c \in Categories : c \in q.outcome.writes
  <2>1. q.outcome \in Outcomes
    BY DEF PersistFinish, At, IInv, RequestsGrounded
  <2> QED BY <2>1 DEF Outcomes
<1> HIDE DEF q, old, base, new
<1>4. new \in [Categories -> Nat] /\ new[c] = Version(old) + 1 /\ base[c] = Version(old)
      /\ Version(old) \in Nat
  <2>1. new \in [Categories -> Nat]
    BY <1>1, <1>2
  <2>2. Version(old) \in Nat
    BY <1>2, VersionIsGreatest
  <2> QED BY <1>1, <1>2, <1>3, <2>1, <2>2
<1>5. new[c] <= Version(new) /\ Version(new) \in Nat
  BY <1>4, VersionIsGreatest
<1>6. Version(old) < Version(new)
  BY <1>4, <1>5
<1> QED BY <1>4, <1>6 DEF q, old, base, new, Version

(* The result of a run is behind what is written with it, as is everything *)
(* that was behind what it replaces.                                       *)
LEMMA WriteKeepsBases ==
  ASSUME IInv, BasesBehind, NEW r \in Requests, PersistFinish(r)
  PROVE  BasesBehind'
<1>1. /\ conversation'.states = [c \in Categories |->
           IF c \in request[r].outcome.writes THEN request[r].base.states[c] + 1
                                              ELSE conversation.states[c]]
      /\ request' = [request EXCEPT ![r] = Idle]
      /\ run' = [run EXCEPT ![request[r].key].status = request[r].outcome.status]
  BY DEF PersistFinish, Answer
<1>2. /\ conversation.states \in [Categories -> Nat]
      /\ \A k \in Keys : run'[k].id = run[k].id
      /\ \A s \in Requests : request'[s] = IF s = r THEN Idle ELSE request[s]
  BY <1>1 DEF IInv, TypeOK, Conversations, NoRun
<1>3. CASE request[r].outcome.writes = {}
  <2>1. conversation'.states = conversation.states
    BY <1>1, <1>2, <1>3
  <2> QED BY <1>2, <2>1, BasesKept
<1>4. CASE request[r].outcome.writes # {}
  <2>1. PICK c \in Categories : request[r].base.states[c] = Version(conversation.states)
    BY <1>4, WriteRaisesVersion
  <2>2. ASSUME NEW s \in Requests, ~ Late(s)' PROVE request'[s].base = EmptyConversation
    BY <1>2, <2>2 DEF BasesBehind, Late, Idle
  <2>3. ASSUME NEW s \in Requests, Late(s)', HasRun(s)'
        PROVE  Behind(request'[s].base.states, conversation'.states)
    <3>1. request'[s] = request[s] /\ Late(s)
      BY <1>2, <2>3 DEF Late, Idle
    <3>2. request[s].key \in Keys
      BY <3>1 DEF Late, IInv, RequestsGrounded, At
    <3>3. Behind(request[s].base.states, conversation.states)
      BY <1>2, <2>3, <3>1, <3>2 DEF BasesBehind, HasRun
    <3>4. request[s].base.states \in [Categories -> Nat]
      BY DEF IInv, TypeOK, Conversations
    <3>5. /\ Version(request[s].base.states) \in Nat /\ Version(conversation.states) \in Nat
          /\ Version(conversation'.states) \in Nat
      <4>1. conversation'.states \in [Categories -> Nat]
        BY <1>1, PersistFinishInvariant DEF IInv, TypeOK, Conversations
      <4>2. c \in Categories
        OBVIOUS
      <4> QED BY <1>2, <3>4, <4>1, <4>2, VersionIsGreatest
    <3>6. Version(conversation.states) < Version(conversation'.states)
      BY <1>4, WriteRaisesVersion DEF Version
    <3>7. Version(request[s].base.states) < Version(conversation'.states)
      BY <3>3, <3>5, <3>6 DEF Behind
    <3> QED BY <3>1, <3>7 DEF Behind
  <2> QED BY <2>2, <2>3 DEF BasesBehind, Behind, Version
<1> QED BY <1>3, <1>4

LEMMA BasesPreserved ==
  ASSUME IInv, IInv', BasesBehind, [Next]_vars
  PROVE  BasesBehind'
<1> DEFINE Unwritten == conversation'.states = conversation.states
<1>1. request \in [Requests -> RequestStates] /\ run \in [Keys -> [status : {"started"} \cup
        TerminalStatuses, id : Ids] \cup {NoRun}] /\ executions \in Nat
  BY BoundsAssumption DEF IInv, TypeOK, RequestStates
<1>2. ASSUME NEW r \in Requests, CommitStart(r) PROVE BasesBehind'
  <2> DEFINE k == request[r].key
             id == executions + 1
  <2>1. /\ request' = [request EXCEPT ![r].stage = "load", ![r].id = id]
        /\ run' = [run EXCEPT ![k] = [status |-> "started", id |-> id]]
        /\ Unwritten /\ request[r].stage = "start"
    BY <1>2 DEF CommitStart, At, IInv, TypeOK, Conversations
  <2>2. \A s \in Requests : s # r => request'[s] = request[s]
    BY <1>1, <2>1
  <2>3. request'[r].stage = "load" /\ request'[r].base = request[r].base
    BY <1>1, <2>1 DEF RequestStates
  <2>4. \A j \in Keys : run'[j].id = run[j].id \/ run'[j].id \notin 1 .. executions
    BY <1>1, <2>1
  <2> QED BY <2>1, <2>2, <2>3, <2>4, BasesKept DEF Late
<1>3. ASSUME NEW r \in Requests, Answer(r), UNCHANGED <<run, conversation>>
      PROVE  BasesBehind'
  BY <1>1, <1>3, BasesKept DEF Answer
<1>4. ASSUME NEW r \in Requests, NEW stage \in {"claim", "insert", "start"},
             ~ Late(r), Advance(r, stage), UNCHANGED <<run, conversation>>
      PROVE  BasesBehind'
  <2>1. \A s \in Requests : s # r => request'[s] = request[s]
    BY <1>1, <1>4 DEF Advance
  <2>2. request'[r].stage = stage /\ request'[r].base = request[r].base
    BY <1>1, <1>4 DEF Advance, RequestStates
  <2> QED BY <1>4, <2>1, <2>2, BasesKept DEF Late
<1>5. ASSUME NEW r \in Requests, NEW k \in Keys, Arrive(r, k) PROVE BasesBehind'
  <2>1. \A s \in Requests : s # r => request'[s] = request[s]
    BY <1>1, <1>5 DEF Arrive
  <2>2. request[r].stage = "idle" /\ request'[r].stage = "resolve"
        /\ request'[r].base = EmptyConversation
    BY <1>1, <1>5 DEF Arrive, At, Idle
  <2>3. request[r].base = EmptyConversation
    BY <2>2 DEF BasesBehind, Late
  <2> QED BY <1>5, <2>1, <2>2, <2>3, BasesKept DEF Late, Arrive
<1>6. ASSUME NEW r \in Requests, ResolveIdempotency(r) \/ LookupClaim(r) \/ InsertClaim(r)
      PROVE  BasesBehind'
  BY <1>3, <1>4, <1>6
  DEF ResolveIdempotency, LookupClaim, InsertClaim, AnswerFromRecord, At, Late
<1>7. ASSUME NEW r \in Requests,
             \/ StartConflicts(r) \/ StartLosesThread(r) \/ StartFails(r) \/ FinishConflicts(r)
             \/ FinishOrphaned(r) \/ FinishFails(r) \/ Crash(r)
             \/ BreakDeadlock(r) /\ FailClosed(r)
      PROVE  BasesBehind'
  BY <1>3, <1>7
  DEF StartConflicts, StartLosesThread, StartFails, RollBackStart, FinishConflicts,
      FinishOrphaned, FinishFails, FailClosed, Crash, BreakDeadlock
<1>8. ASSUME NEW r \in Requests, LoadContext(r) \/ LoadFails(r) PROVE BasesBehind'
  <2>1. \A s \in Requests : s # r => request'[s] = request[s]
    BY <1>1, <1>8 DEF LoadContext, LoadFails, Advance
  <2>2. request'[r].stage = "execute" /\ request'[r].base \in {conversation, request[r].base}
    BY <1>1, <1>8 DEF LoadContext, LoadFails, Advance, RequestStates
  <2>3. request[r].base = EmptyConversation
    BY <1>8 DEF LoadContext, LoadFails, At, Late, BasesBehind
  <2>4. UNCHANGED <<run, conversation>>
    BY <1>8 DEF LoadContext, LoadFails
  <2> QED BY <2>1, <2>2, <2>3, <2>4, BasesKept DEF Late
<1>9. ASSUME NEW r \in Requests, ReadSequence(r) \/ \E o \in Outcomes : Execute(r, o)
      PROVE  BasesBehind'
  <2>1. \A s \in Requests : s # r => request'[s] = request[s]
    BY <1>1, <1>9 DEF ReadSequence, Execute
  <2>2. /\ Late(r) /\ Late(r)' /\ request'[r].base = request[r].base
        /\ request'[r].key = request[r].key /\ request'[r].id = request[r].id
    BY <1>1, <1>9 DEF ReadSequence, Execute, At, Late, RequestStates
  <2>3. UNCHANGED <<run, conversation>>
    BY <1>9 DEF ReadSequence, Execute
  <2> QED BY <2>1, <2>2, <2>3, BasesKept
<1>10. CASE Prune \/ DeleteRuns
  <2>1. request' = request /\ executions' = executions
    BY <1>10 DEF Prune, DeleteRuns
  <2>2. \A k \in Keys : run'[k] \in {run[k], NoRun}
    BY <1>10 DEF Prune, DeleteRuns
  <2>3. CASE \A k \in Keys : run'[k] = NoRun
    <3>1. \A r \in Requests : Late(r) => ~ HasRun(r)'
      BY <2>1, <2>3 DEF HasRun, Late, IInv, RequestsGrounded, Working, At, NoRun
    <3> QED BY <2>1, <3>1 DEF BasesBehind, Late
  <2>4. CASE Unwritten
    BY <2>1, <2>2, <2>4, BasesKept DEF NoRun
  <2>5. Unwritten \/ \A k \in Keys : run'[k] = NoRun
    BY <1>10 DEF Prune, DeleteRuns
  <2> QED BY <2>3, <2>4, <2>5
<1>11. ASSUME UNCHANGED <<run, request, conversation>> PROVE BasesBehind'
  BY <1>11, BasesKept
<1>12. \/ UNCHANGED <<run, request, conversation>>
       \/ Prune \/ DeleteRuns
       \/ \E r \in Requests :
            \/ CommitStart(r) \/ PersistFinish(r) \/ \E k \in Keys : Arrive(r, k)
            \/ ResolveIdempotency(r) \/ LookupClaim(r) \/ InsertClaim(r)
            \/ StartConflicts(r) \/ StartLosesThread(r) \/ StartFails(r) \/ FinishConflicts(r)
            \/ FinishOrphaned(r) \/ FinishFails(r) \/ Crash(r)
            \/ BreakDeadlock(r) /\ FailClosed(r)
            \/ LoadContext(r) \/ LoadFails(r)
            \/ ReadSequence(r) \/ \E o \in Outcomes : Execute(r, o)
  BY DEF Next, Progress, DeletionStep, vars, Age, BeginCleanup, CleanupFails, BeginDeletion,
         DeleteRecords, DeletionFails, BreakDeadlock
<1> QED BY <1>2, <1>5, <1>6, <1>7, <1>8, <1>9, <1>10, <1>11, <1>12, WriteKeepsBases

(* The shopping state of a conversation is only replaced by one that was   *)
(* derived from it: a run that loaded an older state, or none because the  *)
(* database failed, does not write, however runs, cleanup and deletion     *)
(* interleave.                                                             *)
THEOREM WritesAreDerived == Spec => WritesBuildOnLast
<1> DEFINE Derived(r) ==
      LET q == request[r] IN
      At(r, "finish") /\ q.outcome.writes # {} /\ run'[q.key] # run[q.key]
        => q.base.states = conversation.states
<1>1. ASSUME IInv, BasesBehind, Next, NEW r \in Requests, At(r, "finish"),
             request[r].outcome.writes # {}, run'[request[r].key] # run[request[r].key]
      PROVE  request[r].base.states = conversation.states
  <2>1. /\ request[r].key \in Keys /\ request[r].id \in 1 .. executions /\ HasRun(r)
        /\ age[request[r].key] = Fresh
    BY <1>1 DEF IInv, RequestsGrounded, WorkUnanswered, Working, At
  <2>2. PersistFinish(r)
    <3>1. ASSUME NEW s \in Requests, PersistFinish(s) PROVE s = r
      <4>1. At(s, "finish") /\ request[s].key = request[r].key
        BY <1>1, <2>1, <3>1 DEF PersistFinish, IInv, TypeOK
      <4>2. HasRun(s) /\ request[s].id = request[r].id
        BY <2>1, <4>1, <1>1 DEF IInv, WorkUnanswered, HasRun
      <4> QED BY <1>1, <4>1, <4>2 DEF IInv, RequestsGrounded, Working, At
    <3>2. ASSUME NEW s \in Requests, CommitStart(s) PROVE FALSE
      <4>1. request[s].key = request[r].key /\ run[request[s].key] = NoRun
        BY <1>1, <2>1, <3>2 DEF CommitStart, RunKeyFree, IInv, TypeOK
      <4> QED BY <2>1, <4>1 DEF HasRun, NoRun
    <3>3. ~ Prune
      <4>1. CASE cleanup = "thread"
        BY <1>1, <4>1 DEF Prune
      <4>2. CASE cleanup # "thread"
        BY <1>1, <2>1, <4>2 DEF Prune, ExpiredRuns
      <4> QED BY <4>1, <4>2
    <3>4. ~ DeleteRuns
      BY <1>1 DEF DeleteRuns
    <3>5. ASSUME NEW s \in Requests, Progress(s), ~ CommitStart(s), ~ PersistFinish(s)
          PROVE  run' = run
      BY <3>5 DEF Progress, ResolveIdempotency, LookupClaim, InsertClaim, AnswerFromRecord,
                  StartConflicts, RollBackStart, LoadContext, Execute, ReadSequence,
                  FinishConflicts, FinishOrphaned
    <3> QED BY <1>1, <3>1, <3>2, <3>3, <3>4, <3>5
            DEF Next, Arrive, StartLosesThread, StartFails, RollBackStart, LoadFails, FinishFails,
                Crash, Age, BeginCleanup, CleanupFails, BeginDeletion, DeletionStep,
                DeleteRecords, BreakDeadlock, DeletionFails
  <2>3. PICK c \in Categories : request[r].base.states[c] = Version(conversation.states)
    BY <1>1, <2>2, WriteRaisesVersion
  <2>4. Behind(request[r].base.states, conversation.states)
    BY <1>1, <2>1 DEF BasesBehind, Late, At
  <2>5. /\ request[r].base.states \in [Categories -> Nat]
        /\ conversation.states \in [Categories -> Nat]
    BY <1>1 DEF IInv, TypeOK, Conversations
  <2>6. /\ request[r].base.states[c] <= Version(request[r].base.states)
        /\ Version(request[r].base.states) \in Nat /\ Version(conversation.states) \in Nat
    BY <2>5, VersionIsGreatest
  <2> QED BY <2>3, <2>4, <2>6 DEF Behind
<1>2. IInv /\ BasesBehind /\ [Next]_vars => [\A r \in Requests : Derived(r)]_vars
  BY <1>1
<1>3. Init => BasesBehind
  BY DEF Init, BasesBehind, Late, Idle
<1> QED BY <1>2, <1>3, Invariance, BasesPreserved, PTL DEF Spec, WritesBuildOnLast
=============================================================================

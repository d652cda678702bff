------------------------------ MODULE ChatRun ------------------------------
(***************************************************************************)
(* Runs of the agent: how ShopMindRuntimeHarness ties an idempotency key   *)
(* to one execution, and what it stores of it.  A request is a process     *)
(* that resolves its key, claims it, stores the start of its run, loads    *)
(* the conversation, executes the agent and stores the result.  Each of    *)
(* these is a transaction of its own, and the process may die between any  *)
(* two.  All runs belong to one conversation, so that they also compete    *)
(* for its message numbers and for its shopping state.                     *)
(*                                                                         *)
(* Retries of the agent within a run leave nothing behind but its result   *)
(* and are part of Execute.  Whether a request has the body of the one     *)
(* that started the run is decided where their hashes are compared.  The   *)
(* ages of a key stand for its two retentions: Fresh, RecordExpired        *)
(* (7 days), RunExpired (30 days).                                         *)
(*                                                                         *)
(* The owner may have all data deleted while runs are at work.  A deletion *)
(* is one transaction of several statements, each of which sees what has   *)
(* been committed before it.  The cleanup job is another: it reads what    *)
(* there is, without locks, and deletes later what it found expired.  One  *)
(* deletion and one cleanup are at work at a time.                         *)
(***************************************************************************)
EXTENDS Integers, FiniteSets, FiniteSetsExt

CONSTANTS
  Requests,       \* request processes; one serves many requests in turn
  Keys,           \* idempotency keys, each of one logical message
  Categories,     \* categories a recommendation may be about
  MaxExecutions,  \* bound of the model: runs started
  MaxFaults       \* bound of the model: crashes, database failures, deletions

ASSUME BoundsAssumption == MaxExecutions \in Nat /\ MaxFaults \in Nat

ASSUME CategoriesAssumption == IsFiniteSet(Categories)

VARIABLES
  record,        \* committed rows of idempotency_records
  run,           \* committed rows of agent_runs that carry a key
  age,           \* how far the retention of a key has run off
  claim,         \* key -> the request whose inserted claim is not committed
  conversation,  \* messages stored, and the version of each category's state
  request,       \* the request processes
  executions,    \* runs started
  faults,        \* crashes, failures and deletions so far
  answers,       \* history: results that requests were given
  deletion,      \* the deletion of the owner's data, if one is at work
  cleanup,       \* what the cleanup job, if at work, has found expired
  erased         \* history: runs a deletion that has committed was to delete

erasure == <<deletion, cleanup, erased>>
vars == <<record, run, age, claim, conversation, request, executions, faults,
          answers, erasure>>

-----------------------------------------------------------------------------
\* A run that asks for a confirmation is stored like a completed one, and a
\* cancelled one like a failed one.
TerminalStatuses == {"completed", "failed"}

Ids == 1 .. MaxExecutions
NoRecord == [status |-> "none", id |-> 0]
NoRun == [status |-> "none", id |-> 0]

NoDeletion == [stage |-> "none", ofThread |-> FALSE, records |-> {}, runs |-> {}]

Fresh == 0
RecordExpired == 1
RunExpired == 2

Conversations == [messages : Nat, states : [Categories -> Nat]]
EmptyConversation == [messages |-> 0, states |-> [c \in Categories |-> 0]]

\* What the agent returned: the status, whether there is a text to append to
\* the conversation, and the category of the shopping state it wrote, if any.
Outcomes == {o \in [status : TerminalStatuses, says : BOOLEAN,
                    writes : {{}} \cup {{c} : c \in Categories}] :
               o.writes # {} => o.status = "completed" /\ o.says}
NoOutcome == [status |-> "none", says |-> FALSE, writes |-> {}]

Idle == [stage |-> "idle", key |-> "none", id |-> 0,
         base |-> EmptyConversation, outcome |-> NoOutcome, sequence |-> 0]

Unclaimed == "none"

\* The version of the shopping state in the thread's metadata.
Version(states) == Max({states[c] : c \in Categories})

Init ==
  /\ record = [k \in Keys |-> NoRecord]
  /\ run = [k \in Keys |-> NoRun]
  /\ age = [k \in Keys |-> Fresh]
  /\ claim = [k \in Keys |-> Unclaimed]
  /\ conversation = EmptyConversation
  /\ request = [r \in Requests |-> Idle]
  /\ executions = 0
  /\ faults = 0
  /\ answers = {}
  /\ deletion = NoDeletion
  /\ cleanup = "none"
  /\ erased = {}

-----------------------------------------------------------------------------
At(r, stage) == request[r].stage = stage

Advance(r, stage) == request' = [request EXCEPT ![r].stage = stage]

\* The request is answered and its process is free.
Answer(r) == request' = [request EXCEPT ![r] = Idle]

Fault == faults < MaxFaults /\ faults' = faults + 1

\* The bound on executions is kept here, so that no request gets stuck on it.
MayArrive(k) ==
  \/ run[k] # NoRun /\ age[k] < RunExpired
  \/ executions + Cardinality({r \in Requests : request[r] # Idle /\ request[r].id = 0})
       < MaxExecutions

Arrive(r, k) ==
  /\ At(r, "idle")
  /\ MayArrive(k)
  /\ request' = [request EXCEPT ![r] = [Idle EXCEPT !.stage = "resolve", !.key = k]]
  /\ UNCHANGED <<record, run, age, claim, conversation, executions, faults, answers, erasure>>

-----------------------------------------------------------------------------
(* Answers from a stored record.                                           *)

\* The record has ended and names a run that is there.
Ended(k) == /\ record[k].status \in TerminalStatuses /\ record[k].id # 0
            /\ run[k].id = record[k].id

\* A record that a deletion has deleted is locked until the deletion ends.
Locked(k) == k \in deletion.records

\* A terminal record is answered with its run.  A different body, a run that
\* has not ended and a run that is gone are answered with errors, which carry
\* no result.
AnswerFromRecord(r) ==
  LET k == request[r].key IN
  /\ Answer(r)
  /\ \E sameHash \in BOOLEAN :
       answers' = IF sameHash /\ Ended(k)
                  THEN answers \cup {[key |-> k, id |-> record[k].id,
                                      status |-> run[k].status]}
                  ELSE answers
  /\ UNCHANGED <<record, run, age, claim, conversation, executions, faults, erasure>>

\* A record that has expired counts as absent here, and only here.
ResolveIdempotency(r) ==
  /\ At(r, "resolve")
  /\ LET k == request[r].key IN
     IF record[k] = NoRecord \/ age[k] >= RecordExpired
     THEN /\ Advance(r, "claim")
          /\ UNCHANGED <<record, run, age, claim, conversation, executions, faults,
                         answers, erasure>>
     ELSE AnswerFromRecord(r)

\* SELECT ... FOR UPDATE of the record.
LookupClaim(r) ==
  /\ At(r, "claim")
  /\ ~ Locked(request[r].key)
  /\ IF record[request[r].key] # NoRecord
     THEN AnswerFromRecord(r)
     ELSE /\ Advance(r, "insert")
          /\ UNCHANGED <<record, run, age, claim, conversation, executions, faults,
                         answers, erasure>>

\* The insertion waits for another one that is not committed.  If that one
\* has committed, the savepoint is rolled back and the winner's record read.
InsertClaim(r) ==
  LET k == request[r].key IN
  /\ At(r, "insert")
  /\ claim[k] = Unclaimed /\ ~ Locked(k)
  /\ IF record[k] # NoRecord
     THEN AnswerFromRecord(r)
     ELSE /\ claim' = [claim EXCEPT ![k] = r]
          /\ Advance(r, "start")
          /\ UNCHANGED <<record, run, age, conversation, executions, faults, answers, erasure>>

-----------------------------------------------------------------------------
(* The start of a run.                                                     *)

\* Faulty: the key of a run that has ended may be used again.
RunEnded(k) == run[k].status # "started"

\* agent_runs admits one row for a key.
RunKeyFree(k) == run[k] = NoRun

\* The rest of the start's transaction: run, event and user message, whose
\* number is read after the row of the thread is locked.
CommitStart(r) ==
  LET k == request[r].key  id == executions + 1 IN
  /\ At(r, "start")
  /\ RunKeyFree(k)
  /\ executions < MaxExecutions
  /\ executions' = id
  /\ run' = [run EXCEPT ![k] = [status |-> "started", id |-> id]]
  /\ record' = [record EXCEPT ![k] = [status |-> "started", id |-> id]]
  /\ age' = [age EXCEPT ![k] = Fresh]
  /\ claim' = [claim EXCEPT ![k] = Unclaimed]
  /\ conversation' = [conversation EXCEPT !.messages = @ + 1]
  /\ request' = [request EXCEPT ![r].stage = "load", ![r].id = id]
  /\ UNCHANGED <<faults, answers, erasure>>

\* Nothing is stored and nothing executed.
RollBackStart(r) ==
  /\ claim' = [claim EXCEPT ![request[r].key] = Unclaimed]
  /\ Answer(r)
  /\ UNCHANGED <<record, run, age, conversation, executions, answers, erasure>>

StartConflicts(r) ==
  /\ At(r, "start") /\ ~ RunKeyFree(request[r].key)
  /\ RollBackStart(r)
  /\ UNCHANGED faults

\* The thread it found has been deleted before its update.
StartLosesThread(r) ==
  /\ At(r, "start")
  /\ (deletion.stage = "runs" /\ deletion.ofThread) \/ cleanup = "thread"
  /\ RollBackStart(r)
  /\ UNCHANGED faults

StartFails(r) ==
  /\ At(r, "start")
  /\ Fault
  /\ RollBackStart(r)

-----------------------------------------------------------------------------
(* Loading and executing.                                                  *)

LoadContext(r) ==
  /\ At(r, "load")
  /\ request' = [request EXCEPT ![r].stage = "execute", ![r].base = conversation]
  /\ UNCHANGED <<record, run, age, claim, conversation, executions, faults, answers, erasure>>

\* Without the database the agent works on an empty context.
LoadFails(r) ==
  /\ At(r, "load")
  /\ Fault
  /\ Advance(r, "execute")
  /\ UNCHANGED <<record, run, age, claim, conversation, executions, answers, erasure>>

Execute(r, outcome) ==
  /\ At(r, "execute")
  /\ request' = [request EXCEPT ![r].stage = "append", ![r].outcome = outcome]
  /\ UNCHANGED <<record, run, age, claim, conversation, executions, faults, answers, erasure>>

-----------------------------------------------------------------------------
(* The finish.                                                             *)

\* Faulty: nothing ties the events of a run to its row.
NotTied(r) == TRUE

\* The finish begins with the events of the run, whose foreign key asks for the
\* run and keeps it, and its thread, until the finish has ended.
RunIsThere(r) == run[request[r].key].id = request[r].id

\* The number of the assistant's message is read before the row of the thread
\* is locked.
ReadSequence(r) ==
  /\ At(r, "append")
  /\ RunIsThere(r)
  /\ request' = [request EXCEPT ![r].stage = "finish",
                                ![r].sequence = conversation.messages + 1]
  /\ UNCHANGED <<record, run, age, claim, conversation, executions, faults, answers, erasure>>

MessageFits(r) ==
  request[r].outcome.says => request[r].sequence = conversation.messages + 1

\* Faulty: any version that is not older is accepted.
NotOlder(r) ==
  \A c \in request[r].outcome.writes :
    request[r].base.states[c] + 1 >= Version(conversation.states)

\* The compare-and-swap.  The agent numbers its state after the last state of
\* the same category in its context.
StateFits(r) ==
  \A c \in request[r].outcome.writes :
    request[r].base.states[c] + 1 = Version(conversation.states) + 1

\* Messages, shopping state, run and record are stored together.
PersistFinish(r) ==
  LET q == request[r] IN
  /\ At(r, "finish") /\ ~ Locked(q.key)
  /\ MessageFits(r) /\ StateFits(r)
  /\ conversation' =
       [messages |-> conversation.messages + (IF q.outcome.says THEN 1 ELSE 0),
        states |-> [c \in Categories |-> IF c \in q.outcome.writes
                                         THEN q.base.states[c] + 1
                                         ELSE conversation.states[c]]]
  /\ run' = [run EXCEPT ![q.key].status = q.outcome.status]
  /\ record' = [record EXCEPT ![q.key] = [status |-> q.outcome.status, id |-> q.id]]
  /\ answers' = answers \cup {[key |-> q.key, id |-> q.id, status |-> q.outcome.status]}
  /\ Answer(r)
  /\ UNCHANGED <<age, claim, executions, faults, erasure>>

\* Faulty: the result is handed out although it could not be stored.
AnswerAnyway(r) ==
  /\ Answer(r)
  /\ answers' = answers \cup {[key |-> request[r].key, id |-> request[r].id,
                               status |-> request[r].outcome.status]}

\* The request is told that its result is not known; the run stays started.
FailClosed(r) ==
  /\ Answer(r)
  /\ UNCHANGED answers

\* Another message has the number, or another state the version.
FinishConflicts(r) ==
  /\ At(r, "finish")
  /\ ~ (MessageFits(r) /\ StateFits(r))
  /\ FailClosed(r)
  /\ UNCHANGED <<record, run, age, claim, conversation, executions, faults, erasure>>

\* The run has been deleted while it was at work.
FinishOrphaned(r) ==
  /\ At(r, "append")
  /\ ~ RunIsThere(r)
  /\ FailClosed(r)
  /\ UNCHANGED <<record, run, age, claim, conversation, executions, faults,
                 erasure>>

FinishFails(r) ==
  /\ At(r, "finish")
  /\ Fault
  /\ FailClosed(r)
  /\ UNCHANGED <<record, run, age, claim, conversation, executions, erasure>>

\* The process dies; an open transaction is undone.
Crash(r) ==
  /\ ~ At(r, "idle")
  /\ Fault
  /\ Answer(r)
  /\ claim' = [k \in Keys |-> IF claim[k] = r THEN Unclaimed ELSE claim[k]]
  /\ UNCHANGED <<record, run, age, conversation, executions, answers, erasure>>

-----------------------------------------------------------------------------
(* Retention.                                                              *)

\* Days pass, which no execution, deletion or cleanup lasts.  Runs that started
\* earlier expire earlier.
Age(k) ==
  /\ deletion.stage = "none" /\ cleanup = "none"
  /\ \A r \in Requests : At(r, "idle") \/ request[r].id # run[k].id
  /\ run[k] # NoRun \/ record[k] # NoRecord
  /\ age[k] < RunExpired
  /\ \A j \in Keys : run[j].id \in 1 .. (run[k].id - 1) => age[j] > age[k]
  /\ age' = [age EXCEPT ![k] = @ + 1]
  /\ UNCHANGED <<record, run, claim, conversation, request, executions, faults, answers, erasure>>

ExpiredRecords == {k \in Keys : age[k] >= RecordExpired /\ record[k] # NoRecord}

\* Faulty: only runs that have ended are deleted.
ExpiredEndedRuns == {k \in Keys : age[k] = RunExpired /\ run[k].status # "started"}

\* The runs whose retention has ended.
ExpiredRuns == {k \in Keys : age[k] = RunExpired}

\* The thread expires with the last run started in it.
ThreadExpired == ExpiredRuns # {} /\ \A k \in Keys : run[k] # NoRun => k \in ExpiredRuns

\* The cleanup job reads the rows, the thread last, and locks none of them.  A
\* row that has expired stays so; the thread may be prolonged by a start.  A job
\* that finds nothing is over.
BeginCleanup ==
  /\ cleanup = "none"
  /\ cleanup' = IF ThreadExpired THEN "thread"
                 ELSE IF ExpiredRecords \cup ExpiredRuns # {} THEN "rows" ELSE "none"
  /\ UNCHANGED <<record, run, age, claim, conversation, request, executions, faults, answers,
                 deletion, erased>>

\* The flush deletes by id what was found expired, and the thread, whatever has
\* become of it, takes with it all that belongs to it by now.  It waits for the
\* finishes that keep the thread, and for the rows of a deletion.
Prune ==
  /\ cleanup # "none"
  /\ deletion.stage # "runs"
  /\ cleanup = "thread" => \A r \in Requests : ~ At(r, "finish")
  /\ record' = [k \in Keys |-> IF cleanup = "thread" \/ k \in ExpiredRecords
                               THEN NoRecord ELSE record[k]]
  /\ run' = [k \in Keys |-> IF cleanup = "thread" \/ k \in ExpiredRuns
                            THEN NoRun ELSE run[k]]
  /\ age' = [k \in Keys |-> IF run'[k] = NoRun THEN Fresh ELSE age[k]]
  /\ conversation' = IF cleanup = "thread" THEN EmptyConversation ELSE conversation
  /\ deletion' = [deletion EXCEPT !.ofThread = @ /\ cleanup # "thread"]
  /\ cleanup' = "none"
  /\ UNCHANGED <<claim, request, executions, faults, answers, erased>>

\* The job dies, or the database undoes it where it and a deletion wait for each
\* other.
CleanupFails ==
  /\ cleanup # "none"
  /\ Fault \/ (deletion.stage = "runs" /\ UNCHANGED faults)
  /\ cleanup' = "none"
  /\ UNCHANGED <<record, run, age, claim, conversation, request, executions, answers, deletion,
                 erased>>

-----------------------------------------------------------------------------
(* The deletion of the owner's data.                                       *)

DeletionAt(stage) == deletion.stage = stage

\* The threads and runs of the owner are looked up first.  A thread without
\* messages and runs is as good as none.
BeginDeletion ==
  /\ DeletionAt("none")
  /\ Fault
  /\ deletion' = [stage |-> "records",
                   ofThread |-> conversation # EmptyConversation,
                   records |-> {},
                   runs |-> {run[k].id : k \in {j \in Keys : run[j] # NoRun}}]
  /\ UNCHANGED <<record, run, age, claim, conversation, request, executions, answers,
                 cleanup, erased>>

DeleteRecords ==
  /\ DeletionAt("records")
  /\ deletion' = [deletion EXCEPT !.stage = "runs",
                                  !.records = {k \in Keys : record[k] # NoRecord}]
  /\ UNCHANGED <<record, run, age, claim, conversation, request, executions, faults,
                 answers, cleanup, erased>>

\* A thread takes everything with it that has been added to it meanwhile.
\* Without one, a record that came after the others has lost its run.
RecordAfter(k) ==
  IF deletion.ofThread \/ Locked(k) \/ record[k] = NoRecord
  THEN NoRecord ELSE [record[k] EXCEPT !.id = 0]

\* Messages, runs, the thread, and the end of the transaction.  It waits for the
\* finishes that keep their runs.  Where there is no thread to delete, a message
\* may have come between the messages and the runs.  A cleanup knows the thread
\* by its id, which the next thread does not get.
DeleteRuns ==
  /\ DeletionAt("runs")
  /\ \A r \in Requests : ~ At(r, "finish")
  /\ record' = [k \in Keys |-> RecordAfter(k)]
  /\ run' = [k \in Keys |-> NoRun]
  /\ age' = [k \in Keys |-> IF record'[k] = NoRecord THEN Fresh ELSE age[k]]
  /\ conversation' \in IF deletion.ofThread THEN {EmptyConversation}
                        ELSE {conversation, [conversation EXCEPT !.messages = 0]}
  /\ deletion' = NoDeletion
  /\ cleanup' = IF deletion.ofThread /\ cleanup = "thread" THEN "rows" ELSE cleanup
  /\ erased' = erased \cup deletion.runs
  /\ UNCHANGED <<claim, request, executions, faults, answers>>

RollBackDeletion == deletion' = NoDeletion /\ UNCHANGED <<cleanup, erased>>

DeletionFails ==
  /\ ~ DeletionAt("none")
  /\ RollBackDeletion
  /\ UNCHANGED <<record, run, age, claim, conversation, request, executions, faults,
                 answers>>

\* A finish waits for the record the deletion has deleted, and the deletion for
\* the run the finish keeps: the database undoes one of the two.
BreakDeadlock(r) ==
  /\ DeletionAt("runs") /\ At(r, "finish") /\ Locked(request[r].key)
  /\ \/ RollBackDeletion /\ UNCHANGED <<request, answers>>
     \/ FailClosed(r) /\ UNCHANGED erasure
  /\ UNCHANGED <<record, run, age, claim, conversation, executions, faults>>

DeletionStep ==
  \/ DeleteRecords \/ DeleteRuns
  \/ \E r \in Requests : BreakDeadlock(r)

-----------------------------------------------------------------------------
Progress(r) ==
  \/ ResolveIdempotency(r)
  \/ LookupClaim(r)
  \/ InsertClaim(r)
  \/ CommitStart(r)
  \/ StartConflicts(r)
  \/ LoadContext(r)
  \/ \E o \in Outcomes : Execute(r, o)
  \/ ReadSequence(r)
  \/ PersistFinish(r)
  \/ FinishConflicts(r)
  \/ FinishOrphaned(r)

Next ==
  \/ \E r \in Requests :
       \/ \E k \in Keys : Arrive(r, k)
       \/ Progress(r)
       \/ StartLosesThread(r)
       \/ StartFails(r)
       \/ LoadFails(r)
       \/ FinishFails(r)
       \/ Crash(r)
  \/ \E k \in Keys : Age(k)
  \/ BeginCleanup
  \/ Prune
  \/ CleanupFails
  \/ BeginDeletion
  \/ DeletionStep
  \/ DeletionFails

Spec == Init /\ [][Next]_vars

\* A request that has a worker makes progress, as does a deletion; days pass;
\* the cleanup job is scheduled (preflight and readiness ask for it).
FairSpec ==
  /\ Spec
  /\ \A r \in Requests : WF_vars(Progress(r))
  /\ WF_vars(\E k \in Keys : Age(k))
  /\ WF_vars(BeginCleanup \/ Prune)
  /\ WF_vars(DeletionStep)

-----------------------------------------------------------------------------
(* Correctness.                                                            *)

Stages == {"idle", "resolve", "claim", "insert", "start", "load", "execute", "append",
           "finish"}

TypeOK ==
  /\ record \in [Keys -> [status : {"started"} \cup TerminalStatuses, id : {0} \cup Ids]
                          \cup {NoRecord}]
  /\ run \in [Keys -> [status : {"started"} \cup TerminalStatuses, id : Ids]
                       \cup {NoRun}]
  /\ age \in [Keys -> Fresh .. RunExpired]
  /\ claim \in [Keys -> Requests \cup {Unclaimed}]
  /\ conversation \in Conversations
  /\ request \in [Requests -> [stage : Stages, key : Keys \cup {"none"},
                               id : {0} \cup Ids, base : Conversations,
                               outcome : Outcomes \cup {NoOutcome},
                               sequence : Nat]]
  /\ executions \in 0 .. MaxExecutions
  /\ faults \in 0 .. MaxFaults
  /\ answers \subseteq [key : Keys, id : Ids, status : TerminalStatuses]
  /\ deletion \in [stage : {"none", "records", "runs"}, ofThread : BOOLEAN,
                   records : SUBSET Keys, runs : SUBSET Ids]
  /\ cleanup \in {"none", "rows", "thread"}
  /\ erased \subseteq Ids

\* While a run is kept, its key is not executed again, and a run that has
\* ended is not written again: not by retries that race with it, by a finish
\* that comes late, or after its idempotency record was pruned.  Three things end
\* its keeping: its retention, the owner's deletion, and a cleanup that had found
\* its thread expired before it was started, with which it goes however young it
\* is (claim_idempotency_record, create_agent_run, prune_runtime_persistence).
ExecutedOnce ==
  [][\A k \in Keys : run[k] # NoRun =>
       \/ /\ run'[k] = NoRun
          /\ age[k] = RunExpired \/ DeletionAt("runs") \/ cleanup = "thread"
       \/ run'[k].id = run[k].id /\ (run[k].status # "started" => run'[k] = run[k])]_vars

\* "Delete expired runtime rows according to retention" (runtime_maintenance.py:73):
\* the cleanup job ends the keeping of no run before its time.  This does not
\* hold.
OnlyExpiredPruned ==
  [][\A k \in Keys : Prune /\ run[k] # NoRun /\ run'[k] = NoRun => age[k] = RunExpired]_vars

\* A result that somebody was given is the stored one: it is never lost to a
\* crash or a failure, and the retries of its key get the same
\* (_persist_or_fail_closed, _claim_record_result).
ResultsAreStored ==
  \A a \in answers : run[a.key].id = a.id => run[a.key].status = a.status

\* The shopping state of a conversation is only replaced by one that was
\* derived from it (persist_shopping_session_state).
WritesBuildOnLast ==
  [][\A r \in Requests :
       LET q == request[r] IN
       At(r, "finish") /\ q.outcome.writes # {} /\ run'[q.key] # run[q.key]
         => q.base.states = conversation.states]_vars

\* A key whose run was lost does not stay in progress for ever: its retention
\* ends (prune_runtime_persistence).  The keys are alike: one stands for all.
LostRunsEnd ==
  LET k == CHOOSE j \in Keys : TRUE IN
  run[k].status = "started" ~> run[k].status # "started"

\* What the owner had deleted stays deleted: a run that was at work meanwhile,
\* or the finish it races with, brings nothing of it back
\* (delete_all_owner_data, _persist_finish).
ErasedForGood ==
  /\ \A k \in Keys : run[k].id \notin erased /\ record[k].id \notin erased
  /\ \A r \in Requests : At(r, "finish") => request[r].id \notin erased

\* "Each recommendation writes an owner-scoped ShoppingSessionState"
\* (docs/interview_guide.md:128): the finish of a run is refused only when
\* another run has written to its conversation since it was loaded.
EachRecommendationWritten ==
  [][\A r \in Requests : FinishConflicts(r) => conversation # request[r].base]_vars
=============================================================================

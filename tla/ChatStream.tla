----------------------------- MODULE ChatStream -----------------------------
(***************************************************************************)
(* POST /chat/stream: a stream is admitted by a lease, its run works in a  *)
(* thread that hands its events to the event loop, the loop puts them into *)
(* a bounded queue, and a generator takes them from the queue and sends    *)
(* them to the client.  The four go on independently: the run never waits  *)
(* for the client, and the client may be slow or go away.                  *)
(*                                                                         *)
(* A lease is kept by the coordination backend, which several processes    *)
(* share; each stream is served by a process of its own.  Time is left     *)
(* out: a lease may expire whenever its stream has not renewed it yet.     *)
(* Events are numbered from 1; those that are not for the client, and the  *)
(* closing events of the harness, are hidden.                              *)
(***************************************************************************)
EXTENDS Naturals, Sequences, FiniteSets, SequencesExt

CONSTANTS
  Streams,      \* requests for a stream
  Limit,        \* shopmind_stream_max_concurrency
  BufferSize,   \* shopmind_stream_event_buffer_size
  MaxEvents,    \* bound of the model: events of one run
  HiddenEvents  \* the events, by number, that are not for the client

ASSUME LimitsArePositive == Limit \in Nat \ {0} /\ BufferSize \in Nat \ {0}

ASSUME EventsAssumption == MaxEvents \in Nat /\ HiddenEvents \subseteq 1 .. MaxEvents

VARIABLES
  stage,       \* where the generator of a stream is
  runOf,         \* its run: "none", "running", "returned", "done" or "lost"
  lease,       \* its admission lease
  emitted,     \* history: the events the run has handed to its stream
  pending,     \* deliveries handed to the event loop and not yet made
  queue,       \* the event buffer
  detached,    \* streams whose delivery is detached
  cancelled,   \* streams whose run has been asked to stop
  sent,        \* history: what the client has received
  connected    \* streams whose client is there

streamVars == <<stage, runOf, lease, emitted, pending, queue, detached, cancelled,
          sent, connected>>

-----------------------------------------------------------------------------
Live == {"new", "open", "waiting", "sending"}
Over == {"rejected", "ended", "closed", "failed", "abandoned", "dead"}
Leases == {"none", "held", "expired"}

Events == 1 .. MaxEvents
Result == MaxEvents + 1
End == MaxEvents + 2
Items == Events \cup {Result, End}

ForClient(item) == item \notin HiddenEvents

StreamInit ==
  /\ stage = [s \in Streams |-> "idle"]
  /\ runOf = [s \in Streams |-> "none"]
  /\ lease = [s \in Streams |-> "none"]
  /\ emitted = [s \in Streams |-> <<>>]
  /\ pending = [s \in Streams |-> <<>>]
  /\ queue = [s \in Streams |-> <<>>]
  /\ detached = {}
  /\ cancelled = {}
  /\ sent = [s \in Streams |-> <<>>]
  /\ connected = Streams

-----------------------------------------------------------------------------
\* Admission.  A decision is one step of the backend: a lock, or a script.
Purged == [s \in Streams |-> IF lease[s] = "expired" THEN "none" ELSE lease[s]]

HasRoom == Cardinality({s \in Streams : Purged[s] = "held"}) < Limit

Admit(s) ==
  /\ stage[s] = "idle"
  /\ HasRoom
  /\ lease' = [Purged EXCEPT ![s] = "held"]
  /\ stage' = [stage EXCEPT ![s] = "new"]
  /\ runOf' = [runOf EXCEPT ![s] = "running"]
  /\ UNCHANGED <<emitted, pending, queue, detached, cancelled, sent, connected>>

Reject(s) ==
  /\ stage[s] = "idle"
  /\ ~HasRoom
  /\ lease' = Purged
  /\ stage' = [stage EXCEPT ![s] = "rejected"]
  /\ UNCHANGED <<runOf, emitted, pending, queue, detached, cancelled, sent, connected>>

ExpireLease(s) ==
  /\ lease[s] = "held"
  /\ lease' = [lease EXCEPT ![s] = "expired"]
  /\ UNCHANGED <<stage, runOf, emitted, pending, queue, detached, cancelled, sent,
                 connected>>

-----------------------------------------------------------------------------
\* The run, in its thread; once its stream is detached, its events go nowhere.
EmitEvent(s) ==
  /\ runOf[s] = "running" /\ s \notin detached
  /\ Len(emitted[s]) < MaxEvents
  /\ LET event == Len(emitted[s]) + 1
     IN  /\ emitted' = [emitted EXCEPT ![s] = Append(@, event)]
         /\ pending' = [pending EXCEPT ![s] = Append(@, event)]
  /\ UNCHANGED <<stage, runOf, lease, queue, detached, cancelled, sent, connected>>

RunReturns(s) ==
  /\ runOf[s] = "running"
  /\ runOf' = [runOf EXCEPT ![s] = "returned"]
  /\ UNCHANGED <<stage, lease, emitted, pending, queue, detached, cancelled, sent,
                 connected>>

\* The event loop.  An item for which the queue has no room is not put into it.
Put(q, item) == IF Len(q) < BufferSize THEN Append(q, item) ELSE q

\* Faulty: what does not fit is dropped and the stream goes on.
OfferedOrDropped(s, count, filled) ==
  /\ queue' = [queue EXCEPT ![s] = filled]
  /\ UNCHANGED detached

\* A number of items has been offered to the queue of a stream; the first that
\* does not fit detaches the stream.
Offered(s, count, filled) ==
  /\ queue' = [queue EXCEPT ![s] = filled]
  /\ detached' = IF Len(filled) = Len(queue[s]) + count THEN detached ELSE detached \cup {s}

Deliver(s) ==
  /\ pending[s] # <<>>
  /\ pending' = [pending EXCEPT ![s] = Tail(@)]
  /\ IF s \in detached
       THEN UNCHANGED <<queue, detached>>
       ELSE Offered(s, 1, Put(queue[s], Head(pending[s])))
  /\ UNCHANGED <<stage, runOf, lease, emitted, cancelled, sent, connected>>

\* Faulty: the result does not wait for the deliveries.
NotFlushed(s) == TRUE

IsFlushed(s) == pending[s] = <<>>

\* The result, or the failure an exception was turned into, and then the end
\* of the stream, follow the last delivery.
EndRun(s) ==
  /\ runOf[s] = "returned"
  /\ IsFlushed(s)
  /\ runOf' = [runOf EXCEPT ![s] = "done"]
  /\ IF s \in detached
       THEN UNCHANGED <<queue, detached>>
       ELSE Offered(s, 2, Put(Put(queue[s], Result), End))
  /\ UNCHANGED <<stage, lease, emitted, pending, cancelled, sent, connected>>

-----------------------------------------------------------------------------
\* The generator.  Whichever way it is left, it detaches a run that has not
\* ended and releases its lease; the backend may fail to do so, or to say so.
\* Nothing reads the queue afterwards.
DetachedOnLeaving(s) == IF runOf[s] = "done" THEN detached ELSE detached \cup {s}
Released(s) == [lease EXCEPT ![s] = "none"]

Leave(s, as) ==
  /\ queue' = [queue EXCEPT ![s] = <<>>]
  /\ \/ stage' = [stage EXCEPT ![s] = as] /\ lease' = Released(s)
     \/ stage' = [stage EXCEPT ![s] = "failed"] /\ lease' \in {lease, Released(s)}

\* A lease that is no longer there is not brought back: the run is asked to
\* stop.  One that is there is put off, which this model does not see.
Extended(held) == IF held = "held" THEN held ELSE "none"

Renew(s) ==
  /\ stage[s] = "open"
  /\ lease' = [lease EXCEPT ![s] = Extended(lease[s])]
  /\ cancelled' = IF lease'[s] = "held" THEN cancelled ELSE cancelled \cup {s}
  /\ UNCHANGED <<stage, runOf, emitted, pending, queue, detached, sent, connected>>

RenewalFails(s) ==
  /\ stage[s] = "open"
  /\ Leave(s, "failed")
  /\ detached' = DetachedOnLeaving(s)
  /\ UNCHANGED <<runOf, emitted, pending, cancelled, sent, connected>>

\* Faulty: a stream that is left cancels its run.
StopAndCancel(s) ==
  /\ stage[s] \in {"new", "open"}
  /\ s \notin connected \/ s \in detached
  /\ Leave(s, "closed")
  /\ detached' = detached \cup {s}
  /\ cancelled' = cancelled \cup {s}
  /\ UNCHANGED <<runOf, emitted, pending, sent, connected>>

\* The top of the loop: leave, or wait for an item.
Stop(s) ==
  /\ stage[s] \in {"new", "open"}
  /\ s \notin connected \/ s \in detached
  /\ Leave(s, "closed")
  /\ detached' = detached \cup {s}
  /\ UNCHANGED <<runOf, emitted, pending, cancelled, sent, connected>>

Await(s) ==
  /\ stage[s] \in {"new", "open"}
  /\ s \in connected /\ s \notin detached
  /\ stage' = [stage EXCEPT ![s] = "waiting"]
  /\ UNCHANGED <<runOf, lease, emitted, pending, queue, detached, cancelled, sent,
                 connected>>

WaitEnds(s) ==
  /\ stage[s] = "waiting"
  /\ queue[s] = <<>>
  /\ stage' = [stage EXCEPT ![s] = "open"]
  /\ UNCHANGED <<runOf, lease, emitted, pending, queue, detached, cancelled, sent,
                 connected>>

Take(s) ==
  /\ stage[s] = "waiting"
  /\ queue[s] # <<>>
  /\ Head(queue[s]) # End
  /\ queue' = [queue EXCEPT ![s] = Tail(@)]
  /\ IF ForClient(Head(queue[s]))
       THEN /\ stage' = [stage EXCEPT ![s] = "sending"]
            /\ sent' = [sent EXCEPT ![s] = Append(@, Head(queue[s]))]
       ELSE /\ stage' = [stage EXCEPT ![s] = "open"]
            /\ UNCHANGED sent
  /\ UNCHANGED <<runOf, lease, emitted, pending, detached, cancelled, connected>>

TakeEnd(s) ==
  /\ stage[s] = "waiting"
  /\ queue[s] # <<>>
  /\ Head(queue[s]) = End
  /\ Leave(s, "ended")
  /\ detached' = DetachedOnLeaving(s)
  /\ UNCHANGED <<runOf, emitted, pending, cancelled, sent, connected>>

\* The client has taken what was sent to it.
Sent(s) ==
  /\ stage[s] = "sending"
  /\ s \in connected
  /\ stage' = [stage EXCEPT ![s] = "open"]
  /\ UNCHANGED <<runOf, lease, emitted, pending, queue, detached, cancelled, sent,
                 connected>>

-----------------------------------------------------------------------------
\* The client goes away; the server ends a generator that waits or sends, and
\* never starts one that has not begun.
Disconnect(s) ==
  /\ stage[s] \in Live
  /\ s \in connected
  /\ connected' = connected \ {s}
  /\ UNCHANGED <<stage, runOf, lease, emitted, pending, queue, detached, cancelled,
                 sent>>

Interrupt(s) ==
  /\ stage[s] \in {"waiting", "sending"}
  /\ s \notin connected
  /\ Leave(s, "closed")
  /\ detached' = DetachedOnLeaving(s)
  /\ UNCHANGED <<runOf, emitted, pending, cancelled, sent, connected>>

Abandon(s) ==
  /\ stage[s] = "new"
  /\ s \notin connected
  /\ stage' = [stage EXCEPT ![s] = "abandoned"]
  /\ UNCHANGED <<runOf, lease, emitted, pending, queue, detached, cancelled, sent,
                 connected>>

\* The process of a stream dies; its lease stays with the backend.
Crash(s) ==
  /\ stage[s] \in Live \/ runOf[s] \in {"running", "returned"}
  /\ stage' = [stage EXCEPT ![s] = IF @ \in Live THEN "dead" ELSE @]
  /\ runOf' = [runOf EXCEPT ![s] = "lost"]
  /\ pending' = [pending EXCEPT ![s] = <<>>]
  /\ queue' = [queue EXCEPT ![s] = <<>>]
  /\ UNCHANGED <<lease, emitted, detached, cancelled, sent, connected>>

-----------------------------------------------------------------------------
StreamNext ==
  \E s \in Streams :
    \/ Admit(s) \/ Reject(s) \/ ExpireLease(s)
    \/ EmitEvent(s) \/ RunReturns(s) \/ Deliver(s) \/ EndRun(s)
    \/ Renew(s) \/ RenewalFails(s)
    \/ Stop(s) \/ Await(s) \/ WaitEnds(s) \/ Take(s) \/ TakeEnd(s) \/ Sent(s)
    \/ Disconnect(s) \/ Interrupt(s) \/ Abandon(s) \/ Crash(s)

StreamSpec == StreamInit /\ [][StreamNext]_streamVars

-----------------------------------------------------------------------------
\* The values each variable takes; the buffer is never exceeded, and a
\* rejected stream has no run (chat_stream, enqueue_event).
StreamTypeOK ==
  /\ stage \in [Streams -> {"idle"} \cup Live \cup Over]
  /\ runOf \in [Streams -> {"none", "running", "returned", "done", "lost"}]
  /\ \A s \in Streams : runOf[s] = "none" <=> stage[s] \in {"idle", "rejected"}
  /\ lease \in [Streams -> Leases]
  /\ emitted \in [Streams -> Seq(Events)] /\ pending \in [Streams -> Seq(Events)]
  /\ queue \in [Streams -> Seq(Items)] /\ sent \in [Streams -> Seq(Events \cup {Result})]
  /\ \A s \in Streams : Len(queue[s]) <= BufferSize
  /\ detached \subseteq Streams /\ cancelled \subseteq Streams
  /\ connected \subseteq Streams

\* However leases expire, are renewed and are released, never more than the
\* configured number of them is in force (try_acquire, renew_admission).
AdmittedWithinLimit == Cardinality({s \in Streams : lease[s] = "held"}) <= Limit

\* The events of a run its client may see.
Visible(s) == {event \in ToSet(emitted[s]) : ForClient(event)}

\* A client that is told less than the run reported misses only the end of
\* it: what it gets are the first of the events it may see, without a gap, and
\* the result after all of them (enqueue_event, flush_event_deliveries).
NoGaps ==
  \A s \in Streams :
    /\ \A i, j \in DOMAIN sent[s] : i < j => sent[s][i] < sent[s][j]
    /\ ToSet(sent[s]) \subseteq Visible(s) \cup {Result}
    /\ \A item \in ToSet(sent[s]), event \in Visible(s) : event < item => event \in ToSet(sent[s])

\* A stream that ends by itself has delivered everything, the result included
\* (run_agent, generate).
EndsWithResult ==
  \A s \in Streams : stage[s] = "ended" => ToSet(sent[s]) = Visible(s) \cup {Result}

\* Losing the client does not stop a run: only a stream whose lease is gone
\* asks its run to stop (generate).
OnlyLostLeaseCancels ==
  [][\A s \in Streams : s \in cancelled' \ cancelled => lease[s] # "held"]_streamVars

\* A generator never waits for an item that will not come: when its run has
\* ended, the end of the stream is in its buffer, unless the client or the
\* full buffer lets it stop (run_agent, generate).
EndWillCome ==
  \A s \in Streams :
    runOf[s] = "done" /\ stage[s] \in Live /\ s \in connected \ detached
      => queue[s] # <<>> /\ Last(queue[s]) = End
=============================================================================

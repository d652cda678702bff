-------------------------- MODULE ChatDelivery_proofs --------------------------
(***************************************************************************)
(* Proofs about the two ends of a chat answer: ChatClient, the page that   *)
(* reads it, for any number of exchanges, and ChatStream, the server that  *)
(* sends it, for any streams, buffer and events.                           *)
(*                                                                         *)
(* NewKeyExplained is not inductive: a retry says nothing of the exchange  *)
(* it was made from, nor the shared state of whose events it holds.  The   *)
(* invariant of the client, IInv, adds that a terminal retry belongs to a  *)
(* key with a concluded exchange, that a retry under way is not offered    *)
(* again, that every response shown is one the server has decided, and     *)
(* that the shared state belongs to a loop that has the page to itself, so *)
(* that what this loop shows is its own.                                   *)
(*                                                                         *)
(* What the client of a stream has received says nothing of what is on its *)
(* way.  The invariant of the stream, StreamInv, follows every event from  *)
(* the thread of the run over the deliveries and the buffer to the client. *)
(***************************************************************************)
EXTENDS ChatClient, ChatStream, FiniteSetTheorems, TLAPS

\* What the server replies when a run has ended, or goes on elsewhere.
Decided == Outcomes \cup {"in_progress"}

\* An exchange as NewKeyExplained asks for it, and a key with one.
Final(n) == Concluded(n) /\ (ByServer(n) \/ n \in overlapped)
Ended(k) == \E n \in Exchanges : Key(n) = k /\ Final(n)

\* Every exchange has the key and the message of the first one with its key.
KeysGrounded ==
  \A n \in Exchanges : n <= begun =>
    /\ Key(n) \in 1 .. n
    /\ Key(Key(n)) = Key(n)
    /\ exchange[n].message = MessageOf(Key(n))

\* What the page keeps for a retry is a key with its message.
RetryGrounded ==
  retry # NoRetry =>
    /\ retry.key \in 1 .. begun
    /\ Key(retry.key) = retry.key
    /\ MessageOf(retry.key) = retry.message

\* A retry with a new key is offered only after an outcome.
OffersExplained ==
  /\ retry.state = "terminal" => Ended(retry.key)
  /\ retry.state = "pending" => ~error

NewKeyEnded ==
  \A k \in Keys : k # MessageOf(k) =>
    \E j \in Keys : j < k /\ MessageOf(j) = MessageOf(k) /\ Ended(j)

\* A result that is or was on the wire, is in the shared state or has been shown
\* is one the server has decided.
Delivered == {"result", "answered", "closed"}

ResultsDecided ==
  /\ \A n \in Exchanges : wire[n] \in Delivered => reply[n] \in Decided
  /\ stream.response # 0 => reply[stream.response] \in Decided
  /\ \A n \in Exchanges : Responded(n) => reply[exchange[n].shown] \in Decided

\* A loop that has the page to itself finds its own events in the shared state,
\* shows its own response, and shows it when it reads its result.
Alone(n) ==
  /\ AtWork(n) => \A m \in Exchanges : AtWork(m) => m = n
  /\ AtWork(n) /\ IsStream(n) => stream.last \in {0, n} /\ stream.response \in {0, n}
  /\ Responded(n) => exchange[n].shown = n
  /\ IsStream(n) /\ wire[n] \in {"answered", "closed"} => Responded(n)

Undisturbed == \A n \in Exchanges : n \notin overlapped => Alone(n)

\* A JSON exchange is over once it shows its response.
ShownAtEnd == \A n \in Exchanges : AtWork(n) /\ ~IsStream(n) => ~Responded(n)

IInv ==
  /\ TypeOK /\ KeysGrounded /\ RetryGrounded /\ OffersExplained /\ NewKeyEnded
  /\ ResultsDecided /\ Undisturbed /\ ShownAtEnd

-----------------------------------------------------------------------------
Records == [transport : Transports, message : Exchanges, key : Exchanges,
            loop : {"reading", "loading", "over"}, shown : 0 .. MaxExchanges]
Retries == [message : Exchanges, key : Exchanges,
            state : {"pending", "interrupted", "terminal"}] \cup {NoRetry}
StreamStates == [status : StreamStatuses, response : 0 .. MaxExchanges,
            last : 0 .. MaxExchanges]
Wires == {"none", "waiting", "event", "result", "answered", "closed", "cut",
          "broken", "aborted"}

(* The exchanges that have begun are the first ones.                       *)
LEMMA BegunExchanges ==
  ASSUME TypeOK, NEW n \in Exchanges
  PROVE  /\ n <= begun => exchange[n] \in Records
         /\ exchange[n].loop # "none" => n <= begun
<1>1. exchange \in [Exchanges -> Records \cup {NoExchange}]
  BY DEF TypeOK, Records
<1>2. exchange[n] = NoExchange <=> n > begun
  BY DEF TypeOK
<1>3. n <= begun <=> ~(n > begun)
  BY ExchangesAssumption DEF TypeOK, Exchanges
<1>4. NoExchange.loop = "none"
  BY DEF NoExchange
<1> QED BY <1>1, <1>2, <1>3, <1>4

(* What has been shown is the response of an exchange.                     *)
LEMMA ShownExchange ==
  ASSUME IInv, NEW n \in Exchanges, Responded(n)
  PROVE  exchange[n].shown \in Exchanges /\ n <= begun
<1>1. exchange[n] # NoExchange
  BY DEF Responded, NoExchange
<1>2. exchange[n] \in Records
  BY <1>1 DEF IInv, TypeOK, Records
<1> QED BY <1>2, BegunExchanges, ExchangesAssumption DEF IInv, Records, Responded, Exchanges

(* No exchange has begun initially.                                        *)
LEMMA InitInvariant == Init => IInv
<1> SUFFICES ASSUME Init PROVE IInv
  OBVIOUS
<1>1. /\ begun = 0 /\ retry = NoRetry /\ answered = {} /\ error = FALSE
      /\ \A n \in Exchanges : exchange[n] = NoExchange /\ wire[n] = "none"
  BY DEF Init
<1>2. Exchanges \subseteq Nat \ {0} /\ 0 \in 0 .. MaxExchanges
  BY ExchangesAssumption DEF Exchanges
<1>3. TypeOK
  <2>1. stream \in StreamStates
    BY <1>2 DEF Init, StreamStates, Idle, StreamStatuses
  <2>2. \A n \in Exchanges : exchange[n] = NoExchange <=> n > begun
    BY <1>1, <1>2
  <2> QED BY <1>1, <1>2, <2>1, <2>2 DEF Init, TypeOK, StreamStates
<1>4. Keys = {}
  <2>1. \A n \in Exchanges : Key(n) = 0 /\ n # 0
    BY <1>1, <1>2 DEF Key, NoExchange
  <2> QED BY <2>1 DEF Keys
<1>5. KeysGrounded
  BY <1>1, <1>2 DEF KeysGrounded
<1>6. RetryGrounded /\ OffersExplained
  BY <1>1 DEF RetryGrounded, OffersExplained, NoRetry
<1>7. NewKeyEnded
  BY <1>4 DEF NewKeyEnded
<1>8. ResultsDecided /\ Undisturbed /\ ShownAtEnd
  BY <1>1 DEF Init, Idle, Delivered, ResultsDecided, Undisturbed, ShownAtEnd, Alone, AtWork, Responded, NoExchange
<1> QED BY <1>3, <1>5, <1>6, <1>7, <1>8 DEF IInv

-----------------------------------------------------------------------------
(* No step takes back how an exchange has been concluded.                  *)
LEMMA FinalKept ==
  ASSUME IInv, NEW n \in Exchanges, Final(n),
         \A m \in Exchanges : Key(m) # 0 => exchange'[m].key = Key(m),
         exchange[n].loop = "over" \/ Responded(n) =>
           exchange'[n].shown = exchange[n].shown,
         exchange[n].loop = "over" =>
           exchange'[n].loop = "over" /\ (wire[n] \in {"closed", "cut"} => wire'[n] = wire[n]),
         \A m \in Exchanges : reply[m] \in Decided => reply'[m] = reply[m],
         overlapped \subseteq overlapped'
  PROVE  Final(n)' /\ Key(n)' = Key(n) /\ exchange[n].loop # "none"
<1>1. Responded(n) \/ exchange[n].loop = "over"
  BY DEF Final, Concluded
<1>2. n <= begun /\ exchange[n] \in Records
  <2>1. exchange[n] # NoExchange
    BY <1>1 DEF NoExchange, Responded
  <2>2. exchange[n] \in Records
    BY <2>1 DEF IInv, TypeOK, Records
  <2> QED BY <2>2, BegunExchanges DEF IInv, Records
<1>3. Key(n) # 0 /\ Key(n)' = Key(n) /\ exchange'[n].shown = exchange[n].shown
      /\ exchange[n].shown \in 0 .. MaxExchanges
  <2>1. Key(n) \in Exchanges /\ 0 \notin Exchanges
    BY <1>2, ExchangesAssumption DEF Records, Key, Exchanges
  <2> QED BY <1>1, <1>2, <2>1 DEF Key, Records
<1>4. CASE Responded(n)
  <2> DEFINE s == exchange[n].shown
  <2>1. s \in Exchanges /\ Responded(n)'
    BY <1>3, <1>4, ExchangesAssumption DEF Responded, Exchanges
  <2>2. reply'[s] = reply[s] /\ reply[s] # "in_progress"
    BY <1>4, <2>1 DEF IInv, ResultsDecided, Final, Concluded
  <2>3. Key(s) = Key(n) => exchange'[s].key = Key(n)
    BY <1>3, <2>1
  <2>4. ByServer(n) => ByServer(n)'
    BY <1>3, <1>4, <2>1, <2>3 DEF ByServer, Key
  <2>5. Concluded(n)'
    BY <1>3, <2>1, <2>2 DEF Concluded
  <2> QED BY <1>2, <1>3, <2>4, <2>5 DEF Final, Records
<1>5. CASE ~Responded(n)
  <2>1. exchange[n].loop = "over" /\ wire[n] \in {"closed", "cut"} /\ ~Responded(n)'
    BY <1>3, <1>5 DEF Final, Concluded, Responded
  <2> QED BY <1>3, <1>5, <2>1 DEF Final, Concluded, ByServer
<1> QED BY <1>4, <1>5

(* As long as keys and messages stay and no outcome is taken back, the     *)
(* keys are grounded and the new ones explained.                           *)
LEMMA KeysKept ==
  ASSUME IInv, begun' = begun,
         \A n \in Exchanges : exchange'[n].key = exchange[n].key
                              /\ exchange'[n].message = exchange[n].message,
         \A k \in Exchanges : Ended(k) => Ended(k)'
  PROVE  KeysGrounded' /\ NewKeyEnded'
<1>1. \A n \in Exchanges : Key(n)' = Key(n) /\ MessageOf(n)' = MessageOf(n)
  BY DEF Key, MessageOf
<1>2. Keys' = Keys /\ Keys \subseteq Exchanges
  BY <1>1 DEF Keys
<1>3. NewKeyEnded'
  <2> SUFFICES ASSUME NEW k \in Keys, k # MessageOf(k)
               PROVE  \E j \in Keys : j < k /\ MessageOf(j) = MessageOf(k) /\ Ended(j)'
    BY <1>1, <1>2 DEF NewKeyEnded
  <2>1. PICK j \in Keys : j < k /\ MessageOf(j) = MessageOf(k) /\ Ended(j)
    BY DEF IInv, NewKeyEnded
  <2> QED BY <1>2, <2>1
<1>4. KeysGrounded'
  <2> SUFFICES ASSUME NEW n \in Exchanges, n <= begun
               PROVE  /\ Key(n)' \in 1 .. n
                      /\ exchange'[Key(n)'].key = Key(n)'
                      /\ exchange'[n].message = exchange'[Key(n)'].message
    BY DEF KeysGrounded, Key, MessageOf
  <2>1. /\ Key(n) \in 1 .. n
        /\ Key(Key(n)) = Key(n)
        /\ exchange[n].message = MessageOf(Key(n))
    BY DEF IInv, KeysGrounded
  <2>2. Key(n) \in Exchanges
    BY <2>1, ExchangesAssumption DEF Exchanges
  <2> QED BY <1>1, <2>1, <2>2 DEF Key, MessageOf
<1> QED BY <1>3, <1>4

(* A step of the server or of the network leaves the page alone, and what  *)
(* the page has read to its end.                                           *)
LEMMA ServerInvariant ==
  ASSUME IInv, UNCHANGED page,
         run' \in [Exchanges -> {"none", "running", "lost"} \cup Outcomes],
         reply' \in [Exchanges -> {"none", "executing", "in_progress", "lost"} \cup Outcomes],
         wire' \in [Exchanges -> Wires],
         \A m \in Exchanges : wire[m] \in {"closed", "cut"} /\ exchange[m].loop = "over" =>
           wire'[m] = wire[m],
         \A m \in Exchanges : reply[m] \in Decided => reply'[m] = reply[m],
         \A m \in Exchanges : wire'[m] \in Delivered => reply'[m] \in Decided,
         \A m \in Exchanges : IsStream(m) /\ wire'[m] \in {"answered", "closed"} =>
           wire[m] \in {"answered", "closed"}
  PROVE  IInv'
<1>1. /\ exchange' = exchange /\ begun' = begun /\ stream' = stream /\ retry' = retry
      /\ error' = error /\ abortable' = abortable /\ answered' = answered
      /\ overlapped' = overlapped
  BY DEF page
<1>2. TypeOK'
  BY <1>1 DEF IInv, TypeOK, Wires
<1>3. \A k \in Exchanges : Ended(k) => Ended(k)'
  <2>1. \A n \in Exchanges : Final(n) => Final(n)' /\ Key(n)' = Key(n)
    BY <1>1, FinalKept DEF Key
  <2> QED BY <2>1 DEF Ended
<1>4. KeysGrounded' /\ NewKeyEnded'
  BY <1>1, <1>3, KeysKept
<1>5. RetryGrounded'
  BY <1>1 DEF IInv, RetryGrounded, Key, MessageOf
<1>6. OffersExplained'
  <2>1. retry.state = "terminal" => retry.key \in Exchanges
    BY DEF IInv, TypeOK, NoRetry
  <2> QED BY <1>1, <1>3, <2>1 DEF IInv, OffersExplained
<1>7. ResultsDecided'
  <2>1. stream'.response # 0 => stream.response \in Exchanges /\ stream'.response = stream.response
    BY <1>1, ExchangesAssumption DEF IInv, TypeOK, Exchanges
  <2>2. \A n \in Exchanges : Responded(n) => exchange[n].shown \in Exchanges
    BY ShownExchange
  <2> QED BY <1>1, <2>1, <2>2 DEF IInv, ResultsDecided, Responded
<1>8. Undisturbed' /\ ShownAtEnd'
  BY <1>1 DEF IInv, Undisturbed, ShownAtEnd, Alone, AtWork, IsStream, Responded
<1> QED BY <1>2, <1>4, <1>5, <1>6, <1>7, <1>8 DEF IInv

(* A loop that is not over, or a JSON exchange, takes what has arrived.    *)
LEMMA PageInvariant ==
  ASSUME IInv, NEW n \in Exchanges, n <= begun, exchange[n].loop # "over",
         begun' = begun, run' = run, reply' = reply,
         exchange' \in [Exchanges -> Records \cup {NoExchange}],
         exchange'[n] \in Records,
         \A m \in Exchanges \ {n} : exchange'[m] = exchange[m],
         exchange'[n].key = Key(n), exchange'[n].message = exchange[n].message,
         exchange'[n].transport = exchange[n].transport,
         \/ exchange'[n].shown = exchange[n].shown
         \/ /\ ~Responded(n) /\ reply[exchange'[n].shown] \in Decided
            /\ exchange'[n].shown = n \/ n \in overlapped,
         exchange'[n].loop = "over" \/ IsStream(n) \/ exchange'[n].shown = exchange[n].shown,
         overlapped' = overlapped,
         wire' \in [Exchanges -> Wires],
         \A m \in Exchanges \ {n} : wire'[m] = wire[m],
         wire'[n] \in Delivered => wire[n] \in Delivered,
         stream' \in StreamStates, error' \in BOOLEAN, abortable' \in 0 .. MaxExchanges,
         stream'.response # 0 => reply[stream'.response] \in Decided,
         n \notin overlapped /\ IsStream(n) =>
           /\ stream'.last \in {0, n} /\ stream'.response \in {0, n}
           /\ wire'[n] \in {"answered", "closed"} => exchange'[n].shown # 0,
         answered \subseteq answered', answered' \subseteq Exchanges,
         retry' \in {retry, NoRetry, Keeps(n, "interrupted"), Keeps(n, "terminal")},
         retry' = Keeps(n, "terminal") => retry' = retry \/ Ended(Key(n))',
         retry'.state = "pending" /\ error' => error
  PROVE  IInv'
<1>1. exchange[n] \in Records
  BY BegunExchanges DEF IInv
<1>2. \A m \in Exchanges : exchange'[m].key = exchange[m].key
                           /\ exchange'[m].message = exchange[m].message
  BY DEF Key
<1>3. Keeps(n, "interrupted") \in Retries /\ Keeps(n, "terminal") \in Retries
  BY <1>1 DEF Keeps, Retries, Records, Key
<1>4. TypeOK'
  <2>1. retry' \in Retries
    BY <1>3 DEF IInv, TypeOK, Retries
  <2>2. \A m \in Exchanges : exchange'[m] = NoExchange <=> m > begun
    <3>1. ~(n > begun) /\ NoExchange \notin Records
      BY ExchangesAssumption DEF IInv, TypeOK, Exchanges, NoExchange, Records, Transports
    <3> QED BY <3>1 DEF IInv, TypeOK
  <2> QED BY <2>1, <2>2 DEF IInv, TypeOK, Retries, Records, StreamStates, Wires
<1>5. \A k \in Exchanges : Ended(k) => Ended(k)'
  <2>1. \A m \in Exchanges : Final(m) => Final(m)' /\ Key(m)' = Key(m)
    <3> SUFFICES ASSUME NEW m \in Exchanges, Final(m)
                 PROVE  Final(m)' /\ Key(m)' = Key(m)
      OBVIOUS
    <3>1. CASE m = n
      BY <1>2, <3>1, FinalKept DEF Key
    <3>2. CASE m # n
      BY <1>2, <3>2, FinalKept DEF Key
    <3> QED BY <3>1, <3>2
  <2> QED BY <2>1 DEF Ended
<1>6. KeysGrounded' /\ NewKeyEnded'
  BY <1>2, <1>5, KeysKept
<1>7. /\ Key(n) \in 1 .. begun /\ Key(n) \in Exchanges
      /\ Key(Key(n)) = Key(n) /\ exchange[n].message = MessageOf(Key(n))
  <2>1. Key(n) \in 1 .. n /\ Key(Key(n)) = Key(n) /\ exchange[n].message = MessageOf(Key(n))
    BY DEF IInv, KeysGrounded
  <2>2. begun \in Nat /\ n \in Nat /\ begun <= MaxExchanges
    BY ExchangesAssumption DEF IInv, TypeOK, Exchanges
  <2> QED BY <2>1, <2>2, ExchangesAssumption DEF Exchanges
<1>8. retry # NoRetry => retry.key \in Exchanges
  BY DEF IInv, TypeOK
<1>12. ResultsDecided'
  <2>1. \A m \in Exchanges \ {n} : Responded(m)' => reply[exchange'[m].shown] \in Decided
    BY DEF IInv, ResultsDecided, Responded
  <2>2. Responded(n)' => reply[exchange'[n].shown] \in Decided
    BY DEF IInv, ResultsDecided, Responded
  <2> QED BY <2>1, <2>2 DEF IInv, ResultsDecided
<1>13. Undisturbed'
  <2> SUFFICES ASSUME NEW m \in Exchanges, m \notin overlapped
               PROVE  Alone(m)'
    BY DEF Undisturbed
  <2>1. Alone(m) /\ AtWork(n)
    BY <1>1 DEF IInv, Undisturbed, AtWork, Records
  <2>2. CASE m # n
    <3>1. ~AtWork(m) /\ ~AtWork(m)'
      BY <2>1, <2>2 DEF Alone, AtWork
    <3> QED BY <2>1, <2>2, <3>1 DEF Alone, IsStream, Responded
  <2>3. CASE m = n
    <3>1. \A l \in Exchanges : AtWork(l)' => l = n
      BY <2>1, <2>3 DEF Alone, AtWork
    <3>2. Responded(n)' => exchange'[n].shown = n
      BY <2>1, <2>3 DEF Alone, Responded
    <3> QED BY <2>3, <3>1, <3>2 DEF Alone, IsStream, Responded
  <2> QED BY <2>2, <2>3
<1>14. ShownAtEnd'
  <2>1. AtWork(n)
    BY <1>1 DEF AtWork, Records
  <2> QED BY <2>1 DEF IInv, ShownAtEnd, AtWork, IsStream, Responded
<1>9. CASE retry' = retry
  <2>1. RetryGrounded'
    BY <1>2, <1>8, <1>9 DEF IInv, RetryGrounded, Key, MessageOf
  <2>2. retry.state = "terminal" => retry # NoRetry
    BY DEF NoRetry
  <2>3. OffersExplained'
    BY <1>5, <1>8, <1>9, <2>2 DEF IInv, OffersExplained
  <2> QED BY <1>4, <1>6, <1>12, <1>13, <1>14, <2>1, <2>3 DEF IInv
<1>10. CASE retry' = NoRetry
  <2>1. RetryGrounded' /\ OffersExplained'
    BY <1>10 DEF RetryGrounded, OffersExplained, NoRetry
  <2> QED BY <1>4, <1>6, <1>12, <1>13, <1>14, <2>1 DEF IInv
<1>11. CASE retry' \in {Keeps(n, "interrupted"), Keeps(n, "terminal")} /\ retry' # retry
  <2>1. retry'.key = Key(n) /\ retry'.message = exchange[n].message
        /\ retry'.state \in {"interrupted", "terminal"}
        /\ (retry'.state = "terminal" => retry' = Keeps(n, "terminal"))
    BY <1>11 DEF Keeps
  <2>2. RetryGrounded'
    BY <1>2, <1>7, <2>1 DEF RetryGrounded, Key, MessageOf
  <2>3. retry'.state = "terminal" => Ended(retry.key)'
    BY <1>11, <2>1 DEF Ended, Key
  <2>4. OffersExplained'
    BY <2>1, <2>3 DEF OffersExplained
  <2> QED BY <1>4, <1>6, <1>12, <1>13, <1>14, <2>2, <2>4 DEF IInv
<1> QED BY <1>9, <1>10, <1>11

(* A message is sent for the first time, again with its key, or again with *)
(* a new one after one of its keys has an outcome.                         *)
LEMMA SendInvariant ==
  ASSUME IInv, NEW n \in Exchanges, n = begun + 1,
         NEW message \in Exchanges, NEW key \in 1 .. n,
         NEW transport \in Transports, Send(message, key, transport),
         \/ key = n /\ message = n /\ retry' = NoRetry
         \/ /\ key = n
            /\ \E j \in Keys : MessageOf(j) = message /\ Ended(j)
            /\ retry' = [message |-> message, key |-> key, state |-> "pending"]
         \/ /\ key \in Keys /\ MessageOf(key) = message
            /\ retry' = [message |-> message, key |-> key, state |-> "pending"],
         error' = FALSE, UNCHANGED <<answered, run, reply>>
  PROVE  IInv'
<1> DEFINE new == [transport |-> transport, message |-> message, key |-> key,
                   loop |-> "reading", shown |-> 0]
<1>1. /\ n \in Exchanges /\ begun \in Nat /\ n > begun /\ message \in Exchanges /\ key \in Exchanges
      /\ Exchanges \subseteq Nat /\ n \in 0 .. MaxExchanges /\ 0 \in 0 .. MaxExchanges
  BY ExchangesAssumption DEF IInv, TypeOK, Exchanges
<1>2. /\ begun' = n
      /\ exchange' = [exchange EXCEPT ![n] = new]
      /\ wire' = [wire EXCEPT ![n] = "waiting"]
  BY DEF Send
<1>3. new \in Records /\ new # NoExchange
  BY <1>1 DEF Records, NoExchange, Transports
<1>4. /\ exchange \in [Exchanges -> Records \cup {NoExchange}]
      /\ wire \in [Exchanges -> Wires]
  BY DEF IInv, TypeOK, Records, Wires
<1>5. /\ exchange' \in [Exchanges -> Records \cup {NoExchange}]
      /\ exchange'[n] = new
      /\ \A m \in Exchanges \ {n} : exchange'[m] = exchange[m]
  BY <1>1, <1>2, <1>3, <1>4
<1>6. /\ wire' \in [Exchanges -> Wires]
      /\ wire'[n] = "waiting"
      /\ \A m \in Exchanges \ {n} : wire'[m] = wire[m]
  BY <1>1, <1>2, <1>4 DEF Wires
<1>7. Key(n)' = key /\ MessageOf(n)' = message
  BY <1>1, <1>2, <1>5 DEF Key, MessageOf
<1>8. \A m \in Exchanges \ {n} : Key(m)' = Key(m) /\ MessageOf(m)' = MessageOf(m)
  BY <1>5 DEF Key, MessageOf
<1>9. exchange[n] = NoExchange /\ n \notin Keys
  BY <1>1 DEF IInv, TypeOK, Keys, Key, NoExchange
<1>10. \A k \in Exchanges : Ended(k) => Ended(k)'
  <2>1. \A m \in Exchanges : Final(m) => Final(m)' /\ Key(m)' = Key(m)
    <3> SUFFICES ASSUME NEW m \in Exchanges, Final(m)
                 PROVE  Final(m)' /\ Key(m)' = Key(m)
      OBVIOUS
    <3>1. m # n
      BY <1>9 DEF Final, Concluded, Responded, NoExchange
    <3>2. \A l \in Exchanges : Key(l) # 0 => exchange'[l].key = Key(l)
      BY <1>5, <1>9 DEF Key, NoExchange
    <3>3. overlapped \subseteq overlapped'
      BY DEF Send
    <3> QED BY <1>5, <1>6, <3>1, <3>2, <3>3, FinalKept
  <2> QED BY <2>1 DEF Ended
<1>11. TypeOK'
  <2>1. begun' \in 0 .. MaxExchanges
    BY <1>1, <1>2
  <2>2. \A m \in Exchanges : exchange'[m] = NoExchange <=> m > begun'
    BY <1>1, <1>2, <1>3, <1>5 DEF IInv, TypeOK
  <2>3. stream' \in StreamStates /\ abortable' \in 0 .. MaxExchanges
    BY <1>1 DEF IInv, TypeOK, Send, Idle, StreamStates, StreamStatuses
  <2>4. retry' \in Retries
    BY <1>1 DEF Retries
  <2>5. overlapped' \subseteq Exchanges
    BY <1>1 DEF IInv, TypeOK, Send
  <2> QED BY <1>5, <1>6, <2>1, <2>2, <2>3, <2>4, <2>5
          DEF IInv, TypeOK, Records, Wires, StreamStates, Retries
<1>12. Keys \subseteq Keys' /\ Keys' \subseteq Keys \cup {n} /\ (n \in Keys' => key = n)
  BY <1>1, <1>7, <1>8, <1>9 DEF Keys
<1>13. NewKeyEnded'
  <2> SUFFICES ASSUME NEW k \in Keys', k # MessageOf(k)'
               PROVE  \E j \in Keys' : j < k /\ MessageOf(j)' = MessageOf(k)' /\ Ended(j)'
    BY DEF NewKeyEnded
  <2>1. Keys \subseteq Exchanges
    BY DEF Keys
  <2>2. CASE k \in Keys
    <3>1. k # n /\ k # MessageOf(k)
      BY <1>8, <1>9, <2>1, <2>2
    <3>2. PICK j \in Keys : j < k /\ MessageOf(j) = MessageOf(k) /\ Ended(j)
      BY <2>2, <3>1 DEF IInv, NewKeyEnded
    <3> QED BY <1>8, <1>9, <1>10, <1>12, <2>1, <2>2, <3>1, <3>2
  <2>3. CASE k = n
    <3>1. key = n /\ message # n
      BY <1>7, <1>12, <2>3
    <3>2. PICK j \in Keys : MessageOf(j) = message /\ Ended(j)
      BY <1>9, <3>1
    <3>3. j < n /\ j # n /\ j \in Exchanges
      <4>1. j \in Exchanges /\ Key(j) = j
        BY DEF Keys
      <4>2. exchange[j] # NoExchange
        <5>1. 0 \notin Exchanges /\ NoExchange.key = 0
          BY ExchangesAssumption DEF Exchanges, NoExchange
        <5> QED BY <4>1, <5>1 DEF Key
      <4>3. ~(j > begun)
        BY <4>1, <4>2 DEF IInv, TypeOK
      <4>4. j \in Nat /\ begun \in Nat
        BY <1>1, <4>1
      <4> HIDE DEF new
      <4> QED BY <4>1, <4>3, <4>4, SMTT(30)
    <3> QED BY <1>7, <1>8, <1>10, <1>12, <2>3, <3>2, <3>3
  <2> QED BY <1>12, <2>2, <2>3
<1>14. KeysGrounded'
  <2> SUFFICES ASSUME NEW m \in Exchanges, m <= n
               PROVE  /\ Key(m)' \in 1 .. m
                      /\ exchange'[Key(m)'].key = Key(m)'
                      /\ exchange'[m].message = exchange'[Key(m)'].message
    BY <1>2 DEF KeysGrounded, Key, MessageOf
  <2>1. \A k \in Keys : k <= begun /\ k # n /\ k \in Exchanges /\ Key(k) = k /\ k > 0
    BY <1>1, ExchangesAssumption DEF IInv, TypeOK, Keys, Key, NoExchange, Exchanges
  <2>2. CASE m = n
    <3>1. key = n \/ (key \in Keys /\ MessageOf(key) = message)
      OBVIOUS
    <3>2. key = n => MessageOf(n)' = message /\ exchange'[n].key = n
      BY <1>7 DEF Key
    <3>3. key \in Keys => exchange'[key].key = key /\ exchange'[key].message = MessageOf(key)
      BY <1>5, <2>1 DEF Key, MessageOf
    <3> QED BY <1>1, <1>5, <1>7, <2>2, <3>1, <3>2, <3>3 DEF Key, MessageOf
  <2>3. CASE m # n
    <3>1. m <= begun
      BY <1>1, <2>3
    <3>2. Key(m) \in 1 .. m /\ Key(Key(m)) = Key(m) /\ exchange[m].message = MessageOf(Key(m))
      BY <3>1 DEF IInv, KeysGrounded
    <3>3. Key(m) \in Exchanges \ {n}
      BY <1>1, <3>1, <3>2, ExchangesAssumption DEF Exchanges
    <3> QED BY <1>5, <1>8, <2>3, <3>2, <3>3 DEF Key, MessageOf
  <2> QED BY <2>2, <2>3
<1>15. RetryGrounded' /\ OffersExplained'
  <2>1. CASE retry' = NoRetry
    BY <2>1 DEF RetryGrounded, OffersExplained, NoRetry
  <2>2. CASE retry' = [message |-> message, key |-> key, state |-> "pending"]
    <3>1. Key(key)' = key /\ MessageOf(key)' = message
      <4>1. CASE key = n
        BY <1>7, <4>1
      <4>2. CASE key # n
        BY <1>1, <1>8, <4>2 DEF Keys
      <4> QED BY <4>1, <4>2
    <3> QED BY <1>1, <1>2, <2>2, <3>1 DEF RetryGrounded, OffersExplained, Key, MessageOf
  <2> QED BY <2>1, <2>2
<1>16. ResultsDecided'
  <2>1. stream'.response # 0 => stream'.response = stream.response
    BY DEF Send, Idle
  <2>2. ~Responded(n)' /\ \A m \in Exchanges \ {n} : exchange'[m].shown = exchange[m].shown
    BY <1>5 DEF Responded
  <2> QED BY <1>6, <2>1, <2>2 DEF IInv, Delivered, ResultsDecided, Responded
<1>17. Undisturbed'
  <2> DEFINE others == {m \in Exchanges : AtWork(m)}
  <2>1. overlapped' = overlapped \cup others \cup (IF others = {} THEN {} ELSE {n})
    BY <1>1 DEF Send
  <2> SUFFICES ASSUME NEW m \in Exchanges, m \notin overlapped'
               PROVE  Alone(m)'
    BY DEF Undisturbed
  <2>2. CASE m # n
    <3>1. Alone(m) /\ ~AtWork(m)
      BY <2>1 DEF IInv, Undisturbed
    <3>2. ~AtWork(m)'
      BY <1>5, <2>2, <3>1 DEF AtWork
    <3> QED BY <1>5, <1>6, <2>2, <3>1, <3>2 DEF Alone, IsStream, Responded
  <2>3. CASE m = n
    <3>1. others = {}
      BY <2>1, <2>3
    <3>2. \A l \in Exchanges : AtWork(l)' => l = n
      BY <1>5, <3>1 DEF AtWork
    <3>3. ~Responded(n)'
      BY <1>5 DEF Responded
    <3>4. IsStream(n)' => stream'.last = 0 /\ stream'.response = 0
      BY <1>5 DEF Send, IsStream, Idle
    <3> QED BY <1>6, <2>3, <3>2, <3>3, <3>4 DEF Alone
  <2> QED BY <2>2, <2>3
<1>18. ShownAtEnd'
  BY <1>5 DEF IInv, ShownAtEnd, AtWork, IsStream, Responded
<1> QED BY <1>11, <1>13, <1>14, <1>15, <1>16, <1>17, <1>18 DEF IInv

-----------------------------------------------------------------------------
(* Messages sent for the first time and again.                             *)
LEMMA SubmitInvariant == ASSUME IInv, SubmitMessage PROVE IInv'
<1>1. PICK n \in Exchanges : n = begun + 1 /\ n \in 1 .. n
  BY ExchangesAssumption DEF IInv, TypeOK, SubmitMessage, Exchanges
<1>2. PICK transport \in Transports : Send(n, n, transport)
  BY <1>1 DEF SubmitMessage
<1>3. retry' = NoRetry /\ error' = FALSE /\ UNCHANGED <<answered, run, reply>>
  BY DEF SubmitMessage
<1> QED BY <1>1, <1>2, <1>3, SendInvariant

LEMMA RetryInvariant == ASSUME IInv, RetryLastMessage PROVE IInv'
<1>1. PICK n \in Exchanges : n = begun + 1 /\ n \in 1 .. n /\ begun \in Nat
  BY ExchangesAssumption DEF IInv, TypeOK, RetryLastMessage, Exchanges
<1> DEFINE key == IF KeyReused THEN retry.key ELSE n
<1>2. PICK transport \in Transports : Send(retry.message, key, transport)
  BY <1>1 DEF RetryLastMessage
<1>3. /\ retry \in Retries /\ retry # NoRetry /\ error
      /\ retry' = [retry EXCEPT !.key = key, !.state = "pending"]
      /\ error' = FALSE /\ UNCHANGED <<answered, run, reply>>
  BY <1>1 DEF IInv, TypeOK, Retries, RetryLastMessage
<1>4. /\ retry' = [message |-> retry.message, key |-> key, state |-> "pending"]
      /\ retry.message \in Exchanges /\ retry.key \in Exchanges
      /\ retry.state \in {"pending", "interrupted", "terminal"}
  BY <1>3 DEF Retries
<1>5. /\ retry.key \in Keys /\ retry.key \in 1 .. n
      /\ MessageOf(retry.key) = retry.message
  BY <1>1, <1>3, <1>4 DEF IInv, RetryGrounded, Keys
<1>6. CASE KeyReused
  BY <1>1, <1>2, <1>3, <1>4, <1>5, <1>6, SendInvariant
<1>7. CASE ~KeyReused
  <2>1. Ended(retry.key)
    BY <1>3, <1>4, <1>7 DEF KeyReused, IInv, OffersExplained
  <2> QED BY <1>1, <1>2, <1>3, <1>4, <1>5, <1>7, <2>1, SendInvariant
<1> QED BY <1>6, <1>7

-----------------------------------------------------------------------------
(* The server replies, and the network delivers or fails.                  *)
LEMMA ServerTypes ==
  ASSUME IInv
  PROVE  /\ run \in [Exchanges -> {"none", "running", "lost"} \cup Outcomes]
         /\ reply \in [Exchanges -> {"none", "executing", "in_progress", "lost"} \cup Outcomes]
         /\ wire \in [Exchanges -> Wires]
         /\ \A n \in Exchanges : wire[n] \in Delivered => reply[n] \in Decided
BY DEF IInv, TypeOK, Wires, ResultsDecided

LEMMA ServedInvariant ==
  ASSUME IInv, NEW n \in Exchanges, Execute(n) \/ FailBeforeRun(n) \/ Replay(n)
  PROVE  IInv'
<1>1. /\ n <= begun /\ reply[n] = "none"
      /\ UNCHANGED page /\ wire' = wire
  BY DEF Execute, FailBeforeRun, Replay, Served
<1>2. Key(n) \in Exchanges
  BY <1>1, BegunExchanges DEF IInv, Records, Key
<1>3. /\ run' \in [Exchanges -> {"none", "running", "lost"} \cup Outcomes]
      /\ reply' \in [Exchanges -> {"none", "executing", "in_progress", "lost"} \cup Outcomes]
      /\ \A m \in Exchanges \ {n} : reply'[m] = reply[m]
  <2>1. CASE Execute(n)
    BY <1>2, <2>1, ServerTypes DEF Execute
  <2>2. CASE FailBeforeRun(n)
    BY <2>2, ServerTypes DEF FailBeforeRun, Outcomes
  <2>3. CASE Replay(n)
    BY <1>2, <2>3, ServerTypes DEF Replay
  <2> QED BY <2>1, <2>2, <2>3
<1>4. /\ \A m \in Exchanges : reply[m] \in Decided => reply'[m] = reply[m]
      /\ \A m \in Exchanges : wire'[m] \in Delivered => reply'[m] \in Decided
  BY <1>1, <1>3, ServerTypes DEF Decided, Outcomes
<1> QED BY <1>1, <1>3, <1>4, ServerTypes, ServerInvariant

LEMMA FinishInvariant ==
  ASSUME IInv, NEW n \in Exchanges, FinishRun(n) \/ LoseRun(n)
  PROVE  IInv'
<1>1. reply[n] = "executing" /\ UNCHANGED page
  BY DEF FinishRun, LoseRun, Executing
<1>2. /\ run' \in [Exchanges -> {"none", "running", "lost"} \cup Outcomes]
      /\ reply' \in [Exchanges -> {"none", "executing", "in_progress", "lost"} \cup Outcomes]
      /\ \A m \in Exchanges \ {n} : reply'[m] = reply[m]
  <2>1. CASE FinishRun(n)
    BY <2>1, ServerTypes DEF FinishRun
  <2>2. CASE LoseRun(n)
    BY <2>2, ServerTypes DEF LoseRun
  <2> QED BY <2>1, <2>2
<1>3. /\ wire' \in [Exchanges -> Wires]
      /\ \A m \in Exchanges : wire[m] \in {"closed", "cut"} => wire'[m] = wire[m]
      /\ \A m \in Exchanges : wire'[m] \in Delivered => wire'[m] = wire[m] /\ m # n
  <2>1. wire[n] \notin Delivered
    <3>1. "executing" \notin Decided
      BY DEF Outcomes, Decided
    <3> QED BY <1>1, <3>1, ServerTypes
  <2>2. \/ wire' = wire
        \/ wire' = [wire EXCEPT ![n] = IF @ \in {"cut", "aborted"} THEN @ ELSE "broken"]
    BY DEF FinishRun, LoseRun
  <2>3. wire \in [Exchanges -> Wires]
    BY ServerTypes
  <2> QED BY <2>1, <2>2, <2>3 DEF Wires, Delivered
<1>4. /\ \A m \in Exchanges : reply[m] \in Decided => reply'[m] = reply[m]
      /\ \A m \in Exchanges : wire'[m] \in Delivered => reply'[m] \in Decided
  BY <1>1, <1>2, <1>3, ServerTypes DEF Decided, Outcomes
<1>5. \A m \in Exchanges : wire'[m] \in {"answered", "closed"} => wire'[m] = wire[m]
  BY <1>3 DEF Delivered
<1> QED BY <1>1, <1>2, <1>3, <1>4, <1>5, ServerInvariant

LEMMA WireInvariant ==
  ASSUME IInv, NEW n \in Exchanges,
         SendEvent(n) \/ SendResult(n) \/ EndStream(n) \/ DetachDelivery(n)
           \/ BreakConnection(n) \/ CancelStream(n)
  PROVE  IInv'
<1>1. /\ UNCHANGED <<page, server>>
      /\ wire' \in [Exchanges -> Wires]
      /\ \A m \in Exchanges \ {n} : wire'[m] = wire[m]
      /\ wire'[n] \in Delivered => reply[n] \in Decided
      /\ wire[n] \in {"closed", "cut"} => exchange[n].loop # "over"
      /\ wire'[n] \in {"answered", "closed"} => wire[n] \in {"answered", "closed"}
  BY ServerTypes DEF SendEvent, SendResult, EndStream, DetachDelivery, BreakConnection,
                     CancelStream, OnWire, Wires, AtWork, Delivered, Decided
<1>2. run' = run /\ reply' = reply
  BY <1>1 DEF server
<1> QED BY <1>1, <1>2, ServerTypes, ServerInvariant

-----------------------------------------------------------------------------
(* The loop of an exchange that has begun, and what a step of it changes.  *)
LEMMA Loops ==
  ASSUME IInv, NEW n \in Exchanges, exchange[n].loop \in {"reading", "loading"}
  PROVE  /\ n <= begun /\ exchange[n] \in Records
         /\ exchange \in [Exchanges -> Records \cup {NoExchange}]
         /\ stream \in StreamStates /\ retry \in Retries /\ error \in BOOLEAN
         /\ abortable \in 0 .. MaxExchanges /\ 0 \in 0 .. MaxExchanges
         /\ answered \subseteq Exchanges
         /\ Key(n) \in Exchanges
         /\ stream.response # 0 => reply[stream.response] \in Decided
         /\ n \notin overlapped => Alone(n)
         /\ AtWork(n) /\ (~IsStream(n) => ~Responded(n))
BY BegunExchanges, ExchangesAssumption
   DEF IInv, TypeOK, Records, StreamStates, Retries, Key, ResultsDecided, Undisturbed,
       ShownAtEnd, AtWork

LEMMA OneExchange ==
  ASSUME exchange \in [Exchanges -> Records \cup {NoExchange}],
         NEW n \in Exchanges, exchange[n] \in Records,
         NEW loop \in {"reading", "loading", "over"}, NEW shown \in 0 .. MaxExchanges,
         \/ exchange' = [exchange EXCEPT ![n].loop = loop] /\ shown = exchange[n].shown
         \/ exchange' = [exchange EXCEPT ![n].shown = shown, ![n].loop = loop]
  PROVE  /\ exchange' \in [Exchanges -> Records \cup {NoExchange}]
         /\ exchange'[n] \in Records
         /\ \A m \in Exchanges \ {n} : exchange'[m] = exchange[m]
         /\ exchange'[n].key = Key(n) /\ exchange'[n].message = exchange[n].message
         /\ exchange'[n].transport = exchange[n].transport
         /\ exchange'[n].loop = loop /\ exchange'[n].shown = shown
<1> DEFINE new == [transport |-> exchange[n].transport, message |-> exchange[n].message,
                   key |-> exchange[n].key, loop |-> loop, shown |-> shown]
<1>1. new \in Records
  BY DEF Records
<1>2. exchange' = [exchange EXCEPT ![n] = new]
  BY DEF Records
<1> QED BY <1>1, <1>2 DEF Key

(* The answer to an exchange, over its stream or as JSON.                  *)
LEMMA HandledResponse ==
  ASSUME IInv, NEW n \in Exchanges, Key(n) \in Exchanges,
         NEW outcome, HandleResponse(n, outcome)
  PROVE  /\ retry' \in {NoRetry, Keeps(n, "interrupted"), Keeps(n, "terminal")}
         /\ retry' = Keeps(n, "terminal") => outcome # "in_progress"
         /\ answered \subseteq answered' /\ answered' \subseteq Exchanges
         /\ retry'.state # "pending"
<1>1. answered \subseteq Exchanges
  BY DEF IInv, TypeOK
<1>2. Keeps(n, "interrupted") # Keeps(n, "terminal")
  BY DEF Keeps
<1>3. CASE outcome = "in_progress"
  BY <1>1, <1>2, <1>3 DEF HandleResponse, Keeps
<1>4. CASE outcome # "in_progress"
  BY <1>1, <1>4 DEF HandleResponse, Keeps, NoRetry
<1> QED BY <1>3, <1>4

LEMMA LoadedInvariant ==
  ASSUME IInv, NEW n \in Exchanges, ActionLoaded(n)
  PROVE  IInv'
<1>1. /\ exchange[n].loop = "loading" /\ exchange' = [exchange EXCEPT ![n].loop = "reading"]
      /\ UNCHANGED <<begun, stream, abortable, answered, overlapped, run, reply, wire>>
      /\ retry' = retry /\ error' = error
  BY DEF ActionLoaded
<1>2. exchange[n].shown \in 0 .. MaxExchanges
  BY <1>1, Loops DEF Records
<1>3. /\ exchange' \in [Exchanges -> Records \cup {NoExchange}]
      /\ exchange'[n] \in Records
      /\ \A m \in Exchanges \ {n} : exchange'[m] = exchange[m]
      /\ exchange'[n].key = Key(n) /\ exchange'[n].message = exchange[n].message
      /\ exchange'[n].transport = exchange[n].transport
      /\ exchange'[n].shown = exchange[n].shown
  <2>1. exchange \in [Exchanges -> Records \cup {NoExchange}] /\ exchange[n] \in Records
    BY <1>1, Loops
  <2>2. exchange' = [exchange EXCEPT ![n].loop = "reading"]
    BY <1>1
  <2> QED BY <2>1, <2>2, <1>2, OneExchange, ZenonT(60)
<1>4. wire \in [Exchanges -> Wires]
  BY ServerTypes
<1>5. n \notin overlapped /\ IsStream(n) =>
        /\ stream.last \in {0, n} /\ stream.response \in {0, n}
        /\ wire[n] \in {"answered", "closed"} => exchange[n].shown # 0
  BY <1>1, Loops DEF Alone, Responded
<1> QED BY <1>1, <1>3, <1>4, <1>5, Loops, PageInvariant

(* A loop ends: its stream has ended, failed or been aborted.              *)
LEMMA EndInvariant ==
  ASSUME IInv, NEW n \in Exchanges, Reading(n),
         exchange' = [exchange EXCEPT ![n].loop = "over"],
         abortable' \in 0 .. MaxExchanges, stream' \in StreamStates, error' \in BOOLEAN,
         stream'.last = stream.last, stream'.response \in {0, stream.response},
         UNCHANGED <<begun, answered, overlapped, run, reply, wire>>,
         retry' \in {retry, Keeps(n, "interrupted"), Keeps(n, "terminal")},
         retry' = Keeps(n, "terminal") =>
           \/ retry' = retry
           \/ IsStream(n) /\ ~Responded(n) /\ wire[n] \in {"closed", "cut"},
         retry' = retry /\ retry.state = "pending" => error' = error \/ error' = FALSE
  PROVE  IInv'
<1>1. exchange[n].loop = "reading"
  BY DEF Reading
<1>2. exchange[n].shown \in 0 .. MaxExchanges
  BY <1>1, Loops DEF Records
<1>3. /\ exchange' \in [Exchanges -> Records \cup {NoExchange}]
      /\ exchange'[n] \in Records
      /\ \A m \in Exchanges \ {n} : exchange'[m] = exchange[m]
      /\ exchange'[n].key = Key(n) /\ exchange'[n].message = exchange[n].message
      /\ exchange'[n].transport = exchange[n].transport
      /\ exchange'[n].loop = "over" /\ exchange'[n].shown = exchange[n].shown
  BY <1>1, <1>2, Loops, OneExchange
<1>4. IsStream(n) /\ ~Responded(n) /\ wire[n] \in {"closed", "cut"} => Ended(Key(n))'
  <2> SUFFICES ASSUME IsStream(n), ~Responded(n), wire[n] \in {"closed", "cut"}
               PROVE  Ended(Key(n))'
    OBVIOUS
  <2>1. Concluded(n)' /\ Key(n)' = Key(n)
    BY <1>3 DEF Concluded, Responded, Key
  <2>2. wire[n] = "closed" => n \in overlapped
    BY <1>1, Loops DEF Alone
  <2>3. (ByServer(n) \/ n \in overlapped)'
    BY <1>3, <2>2 DEF ByServer, Responded
  <2> QED BY <2>1, <2>3 DEF Ended, Final
<1>5. retry'.state = "pending" /\ error' => error
  <2>1. Keeps(n, "interrupted").state # "pending" /\ Keeps(n, "terminal").state # "pending"
    BY DEF Keeps
  <2> QED BY <2>1
<1>6. wire \in [Exchanges -> Wires]
  BY ServerTypes
<1>7. /\ stream'.response # 0 => reply[stream'.response] \in Decided
      /\ n \notin overlapped /\ IsStream(n) =>
           /\ stream'.last \in {0, n} /\ stream'.response \in {0, n}
           /\ wire[n] \in {"answered", "closed"} => exchange'[n].shown # 0
  BY <1>1, <1>3, Loops DEF Alone, Responded
<1> QED BY <1>1, <1>3, <1>4, <1>5, <1>6, <1>7, Loops, PageInvariant

LEMMA Ends ==
  ASSUME IInv, NEW n \in Exchanges, ReadEnd(n) \/ ReadError(n) \/ ReadAborted(n)
  PROVE  IInv'
<1>1. /\ Reading(n)
      /\ exchange' = [exchange EXCEPT ![n].loop = "over"]
      /\ UNCHANGED <<begun, answered, overlapped, run, reply, wire>>
  BY DEF ReadEnd, ReadError, ReadAborted, LoopEnds
<1>2. /\ stream \in StreamStates /\ error \in BOOLEAN
      /\ abortable' \in 0 .. MaxExchanges /\ 0 \in 0 .. MaxExchanges
  BY <1>1, Loops DEF Reading, ReadEnd, ReadError, ReadAborted, LoopEnds
<1>3. \A status \in StreamStatuses :
        LET after == [stream EXCEPT !.status = status, !.response = 0]
        IN  after \in StreamStates /\ after.last = stream.last /\ after.response = 0
  BY <1>2 DEF StreamStates
<1>4. CASE ReadEnd(n)
  <2>1. stream' \in StreamStates /\ stream'.last = stream.last
        /\ stream'.response \in {0, stream.response}
    BY <1>2, <1>3, <1>4 DEF ReadEnd, AfterEnd, StreamStatuses
  <2>2. IsStream(n) /\ wire[n] \in {"closed", "cut"} /\ Keeps(n, "interrupted") # Keeps(n, "terminal")
    BY <1>4 DEF ReadEnd, Keeps
  <2>3. \/ retry' = Keeps(n, "interrupted") /\ error' = TRUE
        \/ ~Responded(n) /\ retry' = Keeps(n, "terminal") /\ error' = TRUE
        \/ UNCHANGED <<retry, error>>
        \/ retry' = retry /\ error' = FALSE
    BY <1>4 DEF ReadEnd
  <2>4. retry' = Keeps(n, "terminal") => retry' = retry \/ ~Responded(n)
    BY <2>2, <2>3
  <2>5. retry' = retry /\ retry.state = "pending" => error' = error \/ error' = FALSE
    BY <2>3 DEF Keeps
  <2> QED BY <1>1, <1>2, <2>1, <2>2, <2>3, <2>4, <2>5, EndInvariant
<1>5. CASE ReadError(n) \/ ReadAborted(n)
  <2>1. /\ stream' \in StreamStates /\ stream'.last = stream.last /\ stream'.response = 0
        /\ retry' = Keeps(n, "interrupted") /\ error' = TRUE
    BY <1>3, <1>5 DEF ReadError, ReadAborted, Interrupted, StreamStatuses
  <2>2. retry'.state = "interrupted" /\ retry' # Keeps(n, "terminal")
    BY <2>1 DEF Keeps
  <2> QED BY <1>1, <1>2, <2>1, <2>2, EndInvariant
<1> QED BY <1>4, <1>5

LEMMA JsonInvariant ==
  ASSUME IInv, NEW n \in Exchanges, JsonSucceeds(n) \/ JsonFails(n)
  PROVE  IInv'
<1>1. /\ Reading(n) /\ exchange[n].loop = "reading"
      /\ UNCHANGED <<begun, stream, abortable, overlapped, run, reply, wire>>
      /\ ~IsStream(n)
  BY DEF JsonSucceeds, JsonFails, Reading
<1>2. error' \in BOOLEAN
  <2>1. CASE JsonFails(n)
    BY <2>1 DEF JsonFails
  <2>2. CASE JsonSucceeds(n)
    <3> DEFINE unsettled == reply[n] \in {"in_progress", "failed"}
    <3>1. error' = unsettled
      BY <2>2 DEF JsonSucceeds
    <3>2. unsettled \in BOOLEAN
      OBVIOUS
    <3> HIDE DEF unsettled
    <3> QED BY <3>1, <3>2
  <2> QED BY <2>1, <2>2
<1>3. /\ stream \in StreamStates /\ abortable \in 0 .. MaxExchanges
      /\ Key(n) \in Exchanges
      /\ wire \in [Exchanges -> Wires]
  BY <1>1, Loops, ServerTypes
<1>4. CASE JsonFails(n)
  <2>1. retry' = Keeps(n, "interrupted")
    BY <1>4 DEF JsonFails, Interrupted
  <2>2. retry'.state = "interrupted" /\ retry' # Keeps(n, "terminal")
    BY <2>1 DEF Keeps
  <2>3. exchange' = [exchange EXCEPT ![n].loop = "over"] /\ answered' = answered
    BY <1>4 DEF JsonFails
  <2> QED BY <1>1, <1>2, <1>3, <2>1, <2>2, <2>3, EndInvariant
<1>5. CASE JsonSucceeds(n)
  <2>1. HandleResponse(n, reply[n])
    BY <1>5 DEF JsonSucceeds
  <2>2. /\ retry' \in {NoRetry, Keeps(n, "interrupted"), Keeps(n, "terminal")}
        /\ retry' = Keeps(n, "terminal") => reply[n] # "in_progress"
        /\ answered \subseteq answered' /\ answered' \subseteq Exchanges
        /\ retry'.state # "pending"
    BY <1>3, <2>1, HandledResponse
  <2>3. n \in 0 .. MaxExchanges /\ n # 0
    BY ExchangesAssumption DEF Exchanges
  <2>4. exchange' = [exchange EXCEPT ![n].shown = n, ![n].loop = "over"]
    BY <1>1, Loops, <1>5 DEF JsonSucceeds, Records
  <2>5. /\ exchange' \in [Exchanges -> Records \cup {NoExchange}]
        /\ exchange'[n] \in Records
        /\ \A m \in Exchanges \ {n} : exchange'[m] = exchange[m]
        /\ exchange'[n].key = Key(n) /\ exchange'[n].message = exchange[n].message
        /\ exchange'[n].transport = exchange[n].transport /\ exchange'[n].shown = n
        /\ exchange'[n].loop = "over"
    BY <1>1, <2>3, <2>4, Loops, OneExchange
  <2>6. reply[n] # "in_progress" => Ended(Key(n))'
    <3>1. Responded(n)' /\ Key(n)' = Key(n)
      BY <2>3, <2>5 DEF Responded, Key
    <3> QED BY <1>1, <2>5, <3>1 DEF Ended, Final, Concluded, ByServer, Key
  <2>7. reply[n] \in Decided
    BY <1>5, ServerTypes DEF JsonSucceeds, Delivered
  <2> QED BY <1>1, <1>2, <1>3, <2>2, <2>5, <2>6, <2>7, Loops, PageInvariant
<1> QED BY <1>4, <1>5

(* An event or a result is read, and the response in the shared state      *)
(* shown if the loop has shown none.                                       *)
LEMMA ItemInvariant ==
  ASSUME IInv, NEW n \in Exchanges, ReadItem(n)
  PROVE  IInv'
<1>1. /\ exchange[n].loop = "reading" /\ wire[n] \in {"event", "result"}
      /\ wire' = [wire EXCEPT ![n] = IF @ = "event" THEN "waiting" ELSE "answered"]
      /\ stream' \in Reduced(n, wire[n])
      /\ UNCHANGED <<begun, abortable, overlapped, run, reply>>
      /\ IsStream(n)
  BY DEF ReadItem, Reading
<1>2. /\ n \in 0 .. MaxExchanges /\ stream \in StreamStates /\ Key(n) \in Exchanges
      /\ abortable \in 0 .. MaxExchanges /\ error \in BOOLEAN
  BY <1>1, Loops, ExchangesAssumption DEF Exchanges
<1>3. /\ wire' \in [Exchanges -> Wires]
      /\ wire'[n] \in Delivered => wire[n] \in Delivered
      /\ \A m \in Exchanges \ {n} : wire'[m] = wire[m]
  BY <1>1, ServerTypes DEF Wires, Delivered
<1>4. stream' \in StreamStates
  <2>1. Accepted(n, wire[n]) \in StreamStates
    <3>1. CASE wire[n] = "result"
      <4>1. StatusOf(reply[n]) \in StreamStatuses
        <5>1. reply[n] \in Decided
          BY <3>1, ServerTypes DEF Delivered
        <5> QED BY <5>1 DEF StatusOf, Outcomes, Decided, StreamStatuses
      <4> QED BY <1>2, <3>1, <4>1 DEF Accepted, StreamStates
    <3>2. CASE wire[n] # "result"
      BY <1>2, <3>2 DEF Accepted, StreamStates, StreamStatuses
    <3> QED BY <3>1, <3>2
  <2> QED BY <1>1, <1>2, <2>1 DEF Reduced
<1>7. stream'.response # 0 => reply[stream'.response] \in Decided
  <2>1. stream'.response \in {stream.response, n}
        /\ (stream'.response = n => wire[n] = "result" \/ stream'.response = stream.response)
    <3>1. CASE stream' = stream
      BY <3>1
    <3>2. CASE stream' = Accepted(n, wire[n]) /\ wire[n] = "result"
      BY <3>2 DEF Accepted
    <3>3. CASE stream' = Accepted(n, wire[n]) /\ wire[n] # "result"
      BY <1>2, <3>3 DEF Accepted, StreamStates
    <3> QED BY <1>1, <3>1, <3>2, <3>3 DEF Reduced
  <2>2. wire[n] = "result" => reply[n] \in Decided
    BY ServerTypes DEF Delivered
  <2> QED BY <1>1, <2>1, <2>2, Loops
<1>8. n \notin overlapped =>
        /\ stream'.last \in {0, n} /\ stream'.response \in {0, n}
        /\ wire[n] = "result" => stream'.response # 0
  <2> SUFFICES ASSUME n \notin overlapped
               PROVE  /\ stream'.last \in {0, n} /\ stream'.response \in {0, n}
                      /\ wire[n] = "result" => stream'.response # 0
    OBVIOUS
  <2>1. stream.last \in {0, n} /\ stream.response \in {0, n}
    BY <1>1, Loops DEF Alone
  <2>2. stream' = Accepted(n, wire[n])
    BY <1>1, <2>1 DEF Reduced
  <2>3. n # 0
    BY ExchangesAssumption DEF Exchanges
  <2> QED BY <1>2, <2>1, <2>2, <2>3 DEF Accepted, StreamStates
<1>9. n \notin overlapped /\ wire'[n] \in {"answered", "closed"} => wire[n] = "result"
  BY <1>1, ServerTypes DEF Wires
<1>5. CASE ~(stream'.response # 0 /\ ~Responded(n))
  <2>1. UNCHANGED <<exchange, retry, error, answered>>
    BY <1>5 DEF ReadItem
  <2>2. n \notin overlapped =>
          /\ stream'.last \in {0, n} /\ stream'.response \in {0, n}
          /\ wire'[n] \in {"answered", "closed"} => exchange'[n].shown # 0
    BY <1>5, <1>8, <1>9, <2>1 DEF Responded
  <2> QED BY <1>1, <1>2, <1>3, <1>4, <1>7, <2>1, <2>2, Loops, PageInvariant DEF Key
<1>6. CASE stream'.response # 0 /\ ~Responded(n)
  <2> DEFINE outcome == reply[stream'.response]
             loop == IF outcome = "confirmation_required" THEN "loading" ELSE "reading"
  <2>1. /\ HandleResponse(n, outcome)
        /\ error' = (error \/ outcome = "in_progress")
    BY <1>6 DEF ReadItem, ShowResponse
  <2>2. error' \in BOOLEAN
    BY <2>1, Zenon
  <2>3. /\ retry' \in {NoRetry, Keeps(n, "interrupted"), Keeps(n, "terminal")}
        /\ retry' = Keeps(n, "terminal") => outcome # "in_progress"
        /\ answered \subseteq answered' /\ answered' \subseteq Exchanges
        /\ retry'.state # "pending"
    BY <1>2, <2>1, HandledResponse
  <2>4. exchange' = [exchange EXCEPT ![n].shown = stream'.response, ![n].loop = loop]
    BY <1>1, <1>6, Loops DEF ReadItem, ShowResponse, Records
  <2>5. loop \in {"reading", "loading", "over"} /\ stream'.response \in 0 .. MaxExchanges
    BY <1>4 DEF StreamStates
  <2>6. /\ exchange' \in [Exchanges -> Records \cup {NoExchange}]
        /\ exchange'[n] \in Records
        /\ \A m \in Exchanges \ {n} : exchange'[m] = exchange[m]
        /\ exchange'[n].key = Key(n) /\ exchange'[n].message = exchange[n].message
        /\ exchange'[n].transport = exchange[n].transport
        /\ exchange'[n].shown = stream'.response
    <3> HIDE DEF loop
    <3> SUFFICES ASSUME NEW shown \in 0 .. MaxExchanges, shown = stream'.response,
                        NEW l \in {"reading", "loading", "over"}, l = loop
                 PROVE  /\ exchange' \in [Exchanges -> Records \cup {NoExchange}]
                        /\ exchange'[n] \in Records
                        /\ \A m \in Exchanges \ {n} : exchange'[m] = exchange[m]
                        /\ exchange'[n].key = Key(n)
                        /\ exchange'[n].message = exchange[n].message
                        /\ exchange'[n].transport = exchange[n].transport
                        /\ exchange'[n].shown = shown
      BY <2>5
    <3>1. exchange' = [exchange EXCEPT ![n].shown = shown, ![n].loop = l]
      BY <2>4
    <3>2. exchange \in [Exchanges -> Records \cup {NoExchange}] /\ exchange[n] \in Records
      BY <1>1, Loops
    <3> QED BY <3>1, <3>2, OneExchange, ZenonT(60)
  <2>7. stream'.response = n \/ n \in overlapped
    BY <1>6, <1>8
  <2>8. outcome # "in_progress" => Ended(Key(n))'
    <3>1. Responded(n)' /\ Key(n)' = Key(n)
      BY <1>6, <2>6 DEF Responded, Key
    <3>2. outcome # "in_progress" => Concluded(n)'
      BY <1>1, <2>6, <3>1 DEF Concluded
    <3>3. (ByServer(n) \/ n \in overlapped)'
      BY <1>1, <2>6, <2>7, <3>1 DEF ByServer, Key
    <3> QED BY <3>1, <3>2, <3>3 DEF Ended, Final
  <2>9. n \notin overlapped /\ IsStream(n) =>
          /\ stream'.last \in {0, n} /\ stream'.response \in {0, n}
          /\ wire'[n] \in {"answered", "closed"} => exchange'[n].shown # 0
    BY <1>6, <1>8, <2>6
  <2>10. \/ exchange'[n].shown = exchange[n].shown
         \/ /\ ~Responded(n) /\ reply[exchange'[n].shown] \in Decided
            /\ exchange'[n].shown = n \/ n \in overlapped
    BY <1>6, <1>7, <2>6, <2>7
  <2>11. retry' = Keeps(n, "terminal") => retry' = retry \/ Ended(Key(n))'
    BY <2>3, <2>8
  <2> HIDE DEF loop
  <2> QED BY <1>1, <1>2, <1>3, <1>4, <1>7, <2>2, <2>3, <2>6, <2>9, <2>10, <2>11, Loops,
             PageInvariant
<1> QED BY <1>5, <1>6

-----------------------------------------------------------------------------
LEMMA StutterInvariant == ASSUME IInv, UNCHANGED vars PROVE IInv'
<1>1. UNCHANGED page /\ run' = run /\ reply' = reply /\ wire' = wire
  BY DEF vars, page
<1> QED BY <1>1, ServerTypes, ServerInvariant

LEMMA NextInvariant == IInv /\ [Next]_vars => IInv'
<1> SUFFICES ASSUME IInv, [Next]_vars PROVE IInv'
  OBVIOUS
<1>1. CASE SubmitMessage
  BY <1>1, SubmitInvariant
<1>2. CASE RetryLastMessage
  BY <1>2, RetryInvariant
<1>3. ASSUME NEW n \in Exchanges, Execute(n) \/ FailBeforeRun(n) \/ Replay(n)
      PROVE  IInv'
  BY <1>3, ServedInvariant
<1>4. ASSUME NEW n \in Exchanges, FinishRun(n) \/ LoseRun(n)
      PROVE  IInv'
  BY <1>4, FinishInvariant
<1>5. ASSUME NEW n \in Exchanges,
             SendEvent(n) \/ SendResult(n) \/ EndStream(n) \/ DetachDelivery(n)
               \/ BreakConnection(n) \/ CancelStream(n)
      PROVE  IInv'
  BY <1>5, WireInvariant
<1>6. ASSUME NEW n \in Exchanges, ReadItem(n)
      PROVE  IInv'
  BY <1>6, ItemInvariant
<1>7. ASSUME NEW n \in Exchanges, ActionLoaded(n)
      PROVE  IInv'
  BY <1>7, LoadedInvariant
<1>8. ASSUME NEW n \in Exchanges, ReadEnd(n) \/ ReadError(n) \/ ReadAborted(n)
      PROVE  IInv'
  BY <1>8, Ends
<1>9. ASSUME NEW n \in Exchanges, JsonSucceeds(n) \/ JsonFails(n)
      PROVE  IInv'
  BY <1>9, JsonInvariant
<1>10. CASE UNCHANGED vars
  BY <1>10, StutterInvariant
<1> QED BY <1>1, <1>2, <1>3, <1>4, <1>5, <1>6, <1>7, <1>8, <1>9, <1>10 DEF Next

(* The inductive invariant holds in every reachable state.                 *)
THEOREM Invariance == Spec => []IInv
<1> QED BY InitInvariant, NextInvariant, PTL DEF Spec

(* Every variable keeps its type; what the page keeps of a message belongs *)
(* to an exchange it has begun.                                            *)
THEOREM TypeCorrect == Spec => []TypeOK
<1>1. IInv => TypeOK
  BY DEF IInv
<1> QED BY <1>1, Invariance, PTL

(* However many exchanges the page begins, and however their loops, aborts *)
(* and retries mix, a message gets a new key only after an exchange with   *)
(* one of its earlier keys has been concluded, and if the loop of that     *)
(* exchange had the page to itself, by the answer to its key or by a       *)
(* stream that the server had cut off (retryLastMessage, runStream).       *)
THEOREM KeysExplained == Spec => []NewKeyExplained
<1>1. IInv => NewKeyExplained
  <2> SUFFICES ASSUME IInv, NEW k \in Keys, k # MessageOf(k)
               PROVE  \E n \in Exchanges : /\ Key(n) < k /\ exchange[n].message = MessageOf(k)
                                          /\ Final(n)
    BY DEF NewKeyExplained, Final
  <2>1. PICK j \in Keys : j < k /\ MessageOf(j) = MessageOf(k) /\ Ended(j)
    BY DEF IInv, NewKeyEnded
  <2>2. PICK n \in Exchanges : Key(n) = j /\ Final(n)
    BY <2>1 DEF Ended
  <2>3. n <= begun
    BY <2>2, BegunExchanges, ShownExchange DEF IInv, Final, Concluded
  <2> QED BY <2>1, <2>2, <2>3 DEF IInv, KeysGrounded
<1> QED BY <1>1, Invariance, PTL

-----------------------------------------------------------------------------
\* The stream.  Every event is numbered, so what lies before and after it is
\* a matter of numbers.
Ascending(q) == \A i, j \in DOMAIN q : i < j => q[i] < q[j]
Before(X, Y) == \A x \in X, y \in Y : x < y

\* What has been sent or is in the buffer.
Told(s) == ToSet(sent[s]) \cup ToSet(queue[s])

\* What has been sent comes before what is in the buffer, and that before what
\* is to be delivered.
InOrder(s) ==
  /\ Ascending(sent[s]) /\ Ascending(queue[s]) /\ Ascending(pending[s])
  /\ Before(ToSet(sent[s]), ToSet(queue[s]))
  /\ Before(Told(s), ToSet(pending[s]))

\* Nothing but the events of the run is on its way until the run has ended.
AsReported(s) ==
  /\ \A i \in DOMAIN emitted[s] : emitted[s][i] = i
  /\ \A item \in Told(s) \cup ToSet(pending[s]) : item > Len(emitted[s]) =>
       item \in {Result, End} /\ runOf[s] \in {"done", "lost"}
  /\ runOf[s] \in {"done", "lost"} => pending[s] = <<>>
  /\ Len(emitted[s]) <= MaxEvents
  /\ \A item \in ToSet(sent[s]) : ForClient(item)

\* All items of a stream.
Known(s) == 1 .. Len(emitted[s]) \cup {Result, End}

\* Whatever the client or the buffer has, it has all that comes before.
NothingSkipped(s) ==
  \A told \in Told(s), item \in Known(s) :
    item < told /\ ForClient(item) => item \in Told(s)

\* Nothing of an attached stream is lost: its events are somewhere on the way
\* and, once its run has ended, so are the result and the end of the stream.
Attached(s) ==
  s \notin detached /\ runOf[s] # "lost" /\ (runOf[s] = "done" => stage[s] \in Live)

NothingLost(s) ==
  Attached(s) =>
    /\ \A event \in 1 .. Len(emitted[s]) :
         ForClient(event) => event \in Told(s) \cup ToSet(pending[s])
    /\ runOf[s] = "done" => {Result, End} \subseteq Told(s)

CompleteWhenEnded(s) ==
  stage[s] = "ended" => runOf[s] = "done" /\ ToSet(sent[s]) = Visible(s) \cup {Result}

Flow(s) ==
  InOrder(s) /\ AsReported(s) /\ NothingSkipped(s) /\ NothingLost(s) /\ CompleteWhenEnded(s)

\* The generator of a stream whose process has died goes no further.
LostIsOver == \A s \in Streams : runOf[s] = "lost" => stage[s] \notin Live

StreamInv == StreamTypeOK /\ LostIsOver /\ \A s \in Streams : Flow(s)

-----------------------------------------------------------------------------
(* The numbers of the items.                                               *)
LEMMA ItemNumbers ==
  /\ MaxEvents \in Nat /\ Result = MaxEvents + 1 /\ End = MaxEvents + 2
  /\ Result \in Nat /\ End \in Nat
  /\ Events \subseteq Nat /\ Items \subseteq Nat /\ Result \in Items /\ End \in Items
  /\ Events \cup {Result} \subseteq Nat
  /\ ForClient(Result) /\ ForClient(End)
  /\ End \notin Events /\ Result \notin Events /\ Result # End
BY EventsAssumption DEF Events, Items, Result, End, ForClient

(* Sequences of numbers and the sets of their members.                     *)
LEMMA EmptyQueue ==
  ASSUME NEW q, q = <<>>
  PROVE  ToSet(q) = {} /\ Ascending(q) /\ Len(q) = 0 /\ DOMAIN q = {}
<1>1. Len(q) = 0 /\ DOMAIN q = {}
  OBVIOUS
<1>2. ToSet(q) = {}
  BY <1>1, Zenon DEF ToSet
<1>3. Ascending(q)
  BY <1>1, Zenon DEF Ascending
<1> QED BY <1>1, <1>2, <1>3

LEMMA SequenceMembers ==
  ASSUME NEW T, NEW q \in Seq(T)
  PROVE  ToSet(q) \subseteq T
BY DEF ToSet

LEMMA NextAppended ==
  ASSUME NEW T, T \subseteq Nat, NEW q \in Seq(T), Ascending(q), NEW x \in T,
         \A y \in ToSet(q) : y < x
  PROVE  /\ Append(q, x) \in Seq(T)
         /\ ToSet(Append(q, x)) = ToSet(q) \cup {x}
         /\ Ascending(Append(q, x))
<1>1. Len(Append(q, x)) = Len(q) + 1 /\ Append(q, x) \in Seq(T)
      /\ Append(q, x)[Len(q) + 1] = x /\ \A i \in 1 .. Len(q) : Append(q, x)[i] = q[i]
      /\ DOMAIN q = 1 .. Len(q) /\ DOMAIN Append(q, x) = 1 .. Len(q) + 1
      /\ Len(q) \in Nat
  OBVIOUS
<1>2. ToSet(Append(q, x)) = ToSet(q) \cup {x}
  <2>1. ASSUME NEW i \in 1 .. Len(q) + 1 PROVE Append(q, x)[i] \in ToSet(q) \cup {x}
    <3>1. CASE i = Len(q) + 1
      BY <1>1, <3>1
    <3>2. CASE i # Len(q) + 1
      <4>1. i \in 1 .. Len(q)
        BY <1>1, <3>2
      <4> QED BY <1>1, <4>1 DEF ToSet
    <3> QED BY <3>1, <3>2
  <2>2. ASSUME NEW i \in 1 .. Len(q) PROVE q[i] \in ToSet(Append(q, x))
    <3>1. i \in 1 .. Len(q) + 1
      BY <1>1
    <3> QED BY <1>1, <3>1 DEF ToSet
  <2>3. x \in ToSet(Append(q, x))
    <3>1. Len(q) + 1 \in 1 .. Len(q) + 1
      BY <1>1
    <3> QED BY <1>1, <3>1 DEF ToSet
  <2> QED BY <1>1, <2>1, <2>2, <2>3 DEF ToSet
<1>3. ASSUME NEW i \in 1 .. Len(q) + 1, NEW j \in 1 .. Len(q) + 1, i < j
      PROVE  Append(q, x)[i] < Append(q, x)[j]
  <2>1. i \in 1 .. Len(q)
    BY <1>1, <1>3
  <2>2. CASE j = Len(q) + 1
    BY <1>1, <1>3, <2>1, <2>2 DEF ToSet
  <2>3. CASE j # Len(q) + 1
    <3>1. j \in 1 .. Len(q)
      BY <1>1, <2>3
    <3> QED BY <1>1, <1>3, <2>1, <3>1 DEF Ascending
  <2> QED BY <2>2, <2>3
<1> QED BY <1>1, <1>2, <1>3 DEF Ascending

LEMMA FirstTaken ==
  ASSUME NEW T, T \subseteq Nat, NEW q \in Seq(T), q # <<>>
  PROVE  /\ Tail(q) \in Seq(T) /\ Head(q) \in T
         /\ Len(Tail(q)) < Len(q)
         /\ ToSet(q) = ToSet(Tail(q)) \cup {Head(q)}
         /\ Ascending(q) => Ascending(Tail(q)) /\ \A y \in ToSet(Tail(q)) : Head(q) < y
<1>1. /\ Tail(q) \in Seq(T) /\ Head(q) \in T /\ Head(q) = q[1] /\ Len(q) \in Nat /\ Len(q) >= 1
      /\ Len(Tail(q)) = Len(q) - 1
      /\ \A i \in 1 .. Len(q) - 1 : Tail(q)[i] = q[i + 1]
      /\ DOMAIN q = 1 .. Len(q) /\ DOMAIN Tail(q) = 1 .. Len(q) - 1
  OBVIOUS
<1>2. ToSet(q) = ToSet(Tail(q)) \cup {Head(q)}
  <2>1. ASSUME NEW i \in 1 .. Len(q) PROVE q[i] \in ToSet(Tail(q)) \cup {Head(q)}
    <3>1. CASE i = 1
      BY <1>1, <3>1
    <3>2. CASE i # 1
      <4>1. i - 1 \in 1 .. Len(q) - 1 /\ (i - 1) + 1 = i
        BY <1>1, <3>2
      <4> QED BY <1>1, <4>1 DEF ToSet
    <3> QED BY <3>1, <3>2
  <2>2. ASSUME NEW i \in 1 .. Len(q) - 1 PROVE Tail(q)[i] \in ToSet(q)
    <3>1. i + 1 \in 1 .. Len(q)
      BY <1>1
    <3> QED BY <1>1, <3>1 DEF ToSet
  <2>3. Head(q) \in ToSet(q)
    <3>1. 1 \in 1 .. Len(q)
      BY <1>1
    <3> QED BY <1>1, <3>1 DEF ToSet
  <2> QED BY <1>1, <2>1, <2>2, <2>3 DEF ToSet
<1>3. ASSUME Ascending(q)
      PROVE  Ascending(Tail(q)) /\ \A y \in ToSet(Tail(q)) : Head(q) < y
  <2>1. ASSUME NEW i \in 1 .. Len(q) - 1, NEW j \in 1 .. Len(q) - 1, i < j
        PROVE  Tail(q)[i] < Tail(q)[j]
    <3>1. i + 1 \in 1 .. Len(q) /\ j + 1 \in 1 .. Len(q) /\ i + 1 < j + 1
      BY <1>1, <2>1
    <3> QED BY <1>1, <1>3, <3>1 DEF Ascending
  <2>2. ASSUME NEW i \in 1 .. Len(q) - 1
        PROVE  Head(q) < Tail(q)[i]
    <3>1. i + 1 \in 1 .. Len(q) /\ 1 \in 1 .. Len(q) /\ 1 < i + 1
      BY <1>1
    <3> QED BY <1>1, <1>3, <3>1 DEF Ascending
  <2> QED BY <1>1, <2>1, <2>2 DEF Ascending, ToSet
<1> QED BY <1>1, <1>2, <1>3

(* The sets of numbers the sequences of a stream are made of.              *)
LEMMA StreamTypes ==
  ASSUME StreamTypeOK, NEW s \in Streams
  PROVE  /\ sent[s] \in Seq(Events \cup {Result}) /\ queue[s] \in Seq(Items)
         /\ pending[s] \in Seq(Events) /\ emitted[s] \in Seq(Events)
         /\ ToSet(sent[s]) \subseteq Nat /\ ToSet(queue[s]) \subseteq Items
         /\ ToSet(pending[s]) \subseteq Events /\ ToSet(sent[s]) \subseteq Events \cup {Result}
         /\ Told(s) \subseteq Items
         /\ Len(queue[s]) \in 0 .. BufferSize /\ Len(emitted[s]) \in Nat
         /\ DOMAIN emitted[s] = 1 .. Len(emitted[s])
<1>1. /\ sent[s] \in Seq(Events \cup {Result}) /\ queue[s] \in Seq(Items)
      /\ pending[s] \in Seq(Events) /\ emitted[s] \in Seq(Events)
      /\ Len(queue[s]) <= BufferSize
  BY DEF StreamTypeOK
<1>2. /\ ToSet(sent[s]) \subseteq Events \cup {Result} /\ ToSet(queue[s]) \subseteq Items
      /\ ToSet(pending[s]) \subseteq Events
  BY <1>1, SequenceMembers
<1>3. Events \cup {Result} \subseteq Items
  BY DEF Items
<1>4. Len(queue[s]) \in Nat /\ Len(emitted[s]) \in Nat /\ DOMAIN emitted[s] = 1 .. Len(emitted[s])
  BY <1>1
<1>5. Len(queue[s]) \in 0 .. BufferSize
  BY <1>1, <1>4, LimitsArePositive
<1> QED BY <1>1, <1>2, <1>3, <1>4, <1>5, ItemNumbers DEF Told

-----------------------------------------------------------------------------
LEMMA StreamInitInvariant == StreamInit => StreamInv
<1> SUFFICES ASSUME StreamInit PROVE StreamInv
  OBVIOUS
<1>1. StreamTypeOK
  BY LimitsArePositive DEF StreamInit, StreamTypeOK, Live, Over, Leases
<1>2. ASSUME NEW s \in Streams PROVE Flow(s)
  <2>1. /\ emitted[s] = <<>> /\ pending[s] = <<>> /\ queue[s] = <<>> /\ sent[s] = <<>>
        /\ runOf[s] = "none" /\ stage[s] = "idle"
    BY DEF StreamInit
  <2>2. Told(s) = {} /\ Len(emitted[s]) = 0 /\ DOMAIN emitted[s] = {}
    BY <2>1, EmptyQueue DEF Told
  <2>3. Len(emitted[s]) <= MaxEvents
    BY <2>2, ItemNumbers
  <2>4. InOrder(s)
    BY <2>1, <2>2, EmptyQueue DEF InOrder, Before
  <2>5. AsReported(s)
    BY <2>1, <2>2, <2>3, EmptyQueue DEF AsReported
  <2>6. NothingSkipped(s) /\ NothingLost(s) /\ CompleteWhenEnded(s)
    BY <2>1, <2>2 DEF NothingSkipped, NothingLost, CompleteWhenEnded
  <2> QED BY <2>4, <2>5, <2>6 DEF Flow
<1>3. LostIsOver
  BY DEF StreamInit, LostIsOver
<1> QED BY <1>1, <1>2, <1>3 DEF StreamInv

(* A step that hands nothing on.                                           *)
LEMMA NothingTold ==
  ASSUME NEW s \in Streams, Flow(s),
         UNCHANGED <<emitted[s], pending[s], queue[s], sent[s]>>,
         s \in detached => s \in detached',
         \/ runOf'[s] = runOf[s]
         \/ runOf[s] \in {"none", "running"} /\ runOf'[s] \in {"running", "returned"},
         stage'[s] \in Live => stage[s] \in Live \/ runOf[s] = "none",
         stage'[s] = "ended" => stage[s] = "ended"
  PROVE  Flow(s)'
<1>1. Told(s)' = Told(s) /\ Known(s)' = Known(s) /\ Visible(s)' = Visible(s)
  BY DEF Told, Known, Visible
<1>2. InOrder(s)' /\ NothingSkipped(s)'
  BY <1>1 DEF Flow, InOrder, NothingSkipped
<1>3. AsReported(s)'
  BY <1>1 DEF Flow, AsReported
<1>4. Attached(s)' => Attached(s)
  BY DEF Attached
<1>5. NothingLost(s)'
  <2>1. runOf'[s] = "done" => runOf[s] = "done"
    OBVIOUS
  <2> QED BY <1>1, <1>4, <2>1 DEF Flow, NothingLost
<1>6. CompleteWhenEnded(s)'
  BY <1>1 DEF Flow, CompleteWhenEnded
<1> QED BY <1>2, <1>3, <1>5, <1>6 DEF Flow

(* What has been sent is for the client and has been reported by the run.  *)
LEMMA SentIsVisible ==
  ASSUME StreamTypeOK, NEW s \in Streams, Flow(s)
  PROVE  ToSet(sent[s]) \subseteq Visible(s) \cup {Result}
<1> DEFINE n == Len(emitted[s])
<1>1. n \in Nat /\ ToSet(emitted[s]) = 1 .. n
  <2>1. n \in Nat /\ DOMAIN emitted[s] = 1 .. n
    BY StreamTypes
  <2>2. \A i \in 1 .. n : emitted[s][i] = i
    BY <2>1 DEF Flow, AsReported
  <2> HIDE DEF n
  <2> QED BY <2>1, <2>2 DEF ToSet
<1> SUFFICES ASSUME NEW item \in ToSet(sent[s]), item # Result
             PROVE  item \in Visible(s)
  OBVIOUS
<1>2. item \in Events /\ item \in Nat /\ item \in Told(s) /\ ForClient(item)
  BY StreamTypes, ItemNumbers DEF Told, Flow, AsReported
<1>3. ~ (item > n)
  BY <1>2, ItemNumbers DEF Flow, AsReported
<1>4. item \in 1 .. n
  BY <1>1, <1>2, <1>3, ItemNumbers DEF Events
<1> QED BY <1>1, <1>2, <1>4 DEF Visible

(* What comes before something that has been sent has been sent.           *)
LEMMA SentBefore ==
  ASSUME StreamTypeOK, NEW s \in Streams, Flow(s),
         NEW told \in ToSet(sent[s]), NEW item \in Known(s), item < told, ForClient(item)
  PROVE  item \in ToSet(sent[s])
<1>1. told \in Nat /\ ToSet(queue[s]) \subseteq Nat
  BY StreamTypes, ItemNumbers
<1>2. item \in Told(s)
  BY DEF Flow, NothingSkipped, Told
<1>3. item \notin ToSet(queue[s])
  <2>1. item \in ToSet(queue[s]) => told < item
    BY DEF Flow, InOrder, Before
  <2> QED BY <1>1, <2>1
<1> QED BY <1>2, <1>3 DEF Told

(* A stream is left, or its process dies.                                  *)
LEMMA StreamLeft ==
  ASSUME StreamTypeOK, NEW s \in Streams, Flow(s),
         UNCHANGED <<emitted[s], sent[s]>>, queue'[s] = <<>>,
         \/ runOf'[s] = runOf[s] /\ pending'[s] = pending[s]
         \/ runOf'[s] = "lost" /\ pending'[s] = <<>>,
         ~ Attached(s)',
         stage'[s] = "ended" => runOf'[s] = "done" /\ ToSet(sent[s]) = Visible(s) \cup {Result}
  PROVE  Flow(s)'
<1>1. Told(s)' = ToSet(sent[s]) /\ Told(s)' \subseteq Told(s)
  <2>1. Told(s)' = ToSet(sent'[s]) \cup ToSet(queue'[s])
    BY DEF Told
  <2> QED BY <2>1, EmptyQueue DEF Told
<1>2. InOrder(s)'
  BY <1>1, EmptyQueue DEF Flow, InOrder, Before
<1>3. AsReported(s)'
  <2>1. ToSet(pending'[s]) \subseteq ToSet(pending[s])
    BY EmptyQueue
  <2>2. runOf[s] \in {"done", "lost"} => runOf'[s] \in {"done", "lost"} /\ pending'[s] = <<>>
    BY DEF Flow, AsReported
  <2>3. \A item \in Told(s)' \cup ToSet(pending'[s]) : item \in Told(s) \cup ToSet(pending[s])
    BY <1>1, <2>1
  <2>4. runOf'[s] \in {"done", "lost"} => pending'[s] = <<>>
    BY <2>2
  <2> QED BY <2>2, <2>3, <2>4 DEF Flow, AsReported
<1>4. NothingSkipped(s)'
  <2> SUFFICES ASSUME NEW told \in ToSet(sent[s]), NEW item \in Known(s),
                      item < told, ForClient(item)
               PROVE  item \in ToSet(sent[s])
    BY <1>1 DEF NothingSkipped, Known
  <2> QED BY SentBefore
<1>5. NothingLost(s)' /\ CompleteWhenEnded(s)'
  BY DEF NothingLost, CompleteWhenEnded, Visible
<1> QED BY <1>2, <1>3, <1>4, <1>5 DEF Flow

(* The run hands an event to its stream, and it comes after all others.    *)
LEMMA EventEmitted ==
  ASSUME StreamTypeOK, NEW s \in Streams, Flow(s), EmitEvent(s)
  PROVE  Flow(s)'
<1> DEFINE n == Len(emitted[s])
           event == n + 1
<1>1. /\ runOf[s] = "running" /\ n < MaxEvents /\ n \in Nat /\ s \notin detached
      /\ emitted'[s] = Append(emitted[s], event) /\ pending'[s] = Append(pending[s], event)
      /\ UNCHANGED <<stage, runOf, lease, queue, detached, cancelled, sent, connected>>
  BY StreamTypes DEF EmitEvent, StreamTypeOK
<1>2. event \in Events /\ event \in Nat /\ event > n /\ event <= MaxEvents
  BY <1>1, ItemNumbers DEF Events
<1>3. Told(s)' = Told(s) /\ Told(s) \subseteq Nat /\ ToSet(pending[s]) \subseteq Nat
  BY <1>1, StreamTypes, ItemNumbers DEF Told
<1>4. \A item \in Told(s) \cup ToSet(pending[s]) : item <= n
  <2>1. \A item \in Told(s) \cup ToSet(pending[s]) : ~ (item > n)
    BY <1>1 DEF Flow, AsReported
  <2> QED BY <1>1, <1>3, <2>1
<1>5. /\ ToSet(pending[s])' = ToSet(pending[s]) \cup {event}
      /\ Ascending(pending[s])'
      /\ Len(emitted'[s]) = event
      /\ \A i \in DOMAIN emitted'[s] : emitted'[s][i] = i
  <2>1. pending[s] \in Seq(Events) /\ Events \subseteq Nat /\ emitted[s] \in Seq(Events)
    BY StreamTypes, ItemNumbers
  <2>2. Ascending(pending[s]) /\ \A y \in ToSet(pending[s]) : y < event
    BY <1>1, <1>2, <1>3, <1>4 DEF Flow, InOrder
  <2>3. \A i \in 1 .. n : emitted[s][i] = i
    BY StreamTypes DEF Flow, AsReported
  <2>4. ToSet(pending[s])' = ToSet(pending[s]) \cup {event} /\ Ascending(pending[s])'
    <3>1. pending'[s] = Append(pending[s], event)
      BY <1>1
    <3>2. /\ ToSet(Append(pending[s], event)) = ToSet(pending[s]) \cup {event}
          /\ Ascending(Append(pending[s], event))
      <4>1. event \in Events
        BY <1>2
      <4> HIDE DEF event, n
      <4> QED BY <4>1, <2>1, <2>2, NextAppended, ZenonT(60)
    <3> QED BY <3>1, <3>2
  <2>5. Len(emitted'[s]) = event /\ \A i \in DOMAIN emitted'[s] : emitted'[s][i] = i
    <3>1. emitted'[s] = Append(emitted[s], n + 1)
      BY <1>1
    <3>2. /\ Len(emitted'[s]) = n + 1 /\ DOMAIN emitted'[s] = 1 .. n + 1
          /\ emitted'[s][n + 1] = n + 1
          /\ \A i \in 1 .. n : emitted'[s][i] = emitted[s][i]
      <4>1. emitted[s] \in Seq(Events) /\ n + 1 \in Events /\ n = Len(emitted[s])
        BY <1>2, <2>1
      <4> HIDE DEF n
      <4> QED BY <4>1, <3>1
    <3>3. \A i \in 1 .. n + 1 : i = n + 1 \/ i \in 1 .. n
      BY <1>1
    <3> QED BY <2>3, <3>2, <3>3
  <2> QED BY <2>4, <2>5
<1> HIDE DEF event
<1>6. InOrder(s)'
  <2>1. Before(Told(s), ToSet(pending[s]) \cup {event})
    BY <1>1, <1>2, <1>3, <1>4 DEF Flow, InOrder, Before, event
  <2>2. UNCHANGED <<sent[s], queue[s]>>
    BY <1>1
  <2> QED BY <1>3, <1>5, <2>1, <2>2 DEF Flow, InOrder
<1>7. AsReported(s)'
  <2>1. \A item \in Told(s)' \cup ToSet(pending[s])' : ~ (item > Len(emitted[s])')
    BY <1>1, <1>2, <1>3, <1>4, <1>5 DEF event
  <2>2. \A item \in ToSet(sent'[s]) : ForClient(item)
    BY <1>1 DEF Flow, AsReported
  <2> QED BY <1>1, <1>2, <1>5, <2>1, <2>2 DEF AsReported
<1>8. NothingSkipped(s)'
  <2> SUFFICES ASSUME NEW told \in Told(s), NEW item \in Known(s)', item < told, ForClient(item)
               PROVE  item \in Told(s)
    BY <1>3 DEF NothingSkipped
  <2>1. told \in Nat /\ told <= n
    BY <1>3, <1>4
  <2>2. item # event
    BY <1>1, <1>2, <2>1
  <2>3. item \in Known(s)
    BY <1>1, <1>5, <2>2 DEF Known, event
  <2> QED BY <2>3 DEF Flow, NothingSkipped
<1>9. NothingLost(s)'
  <2>1. Attached(s) /\ runOf'[s] # "done"
    BY <1>1 DEF Attached
  <2>2. \A e \in 1 .. event : e = event \/ e \in 1 .. n
    BY <1>1 DEF event
  <2> QED BY <1>1, <1>3, <1>5, <2>1, <2>2 DEF Flow, NothingLost
<1>10. CompleteWhenEnded(s)'
  BY <1>1 DEF Flow, CompleteWhenEnded
<1> QED BY <1>6, <1>7, <1>8, <1>9, <1>10 DEF Flow

-----------------------------------------------------------------------------
(* The event loop.  An item that fits comes last in the buffer.            *)
LEMMA PutFacts ==
  ASSUME NEW q \in Seq(Items), Len(q) <= BufferSize, Ascending(q), NEW x \in Items,
         \A y \in ToSet(q) : y < x
  PROVE  /\ Put(q, x) \in Seq(Items) /\ Len(Put(q, x)) <= BufferSize /\ Ascending(Put(q, x))
         /\ \/ Len(Put(q, x)) = Len(q) + 1 /\ ToSet(Put(q, x)) = ToSet(q) \cup {x}
            \/ Put(q, x) = q
<1>1. Items \subseteq Nat
  BY ItemNumbers
<1>2. /\ Append(q, x) \in Seq(Items) /\ Ascending(Append(q, x))
      /\ ToSet(Append(q, x)) = ToSet(q) \cup {x}
  BY <1>1, NextAppended, ZenonT(60)
<1>3. Len(Append(q, x)) = Len(q) + 1 /\ Len(q) \in Nat
  OBVIOUS
<1>4. Len(q) < BufferSize => Len(q) + 1 <= BufferSize
  BY <1>3, LimitsArePositive
<1> QED BY <1>2, <1>3, <1>4 DEF Put

(* New items for the buffer, X, come next and leave nothing out.           *)
LEMMA ToldMore ==
  ASSUME StreamTypeOK, NEW s \in Streams, Flow(s), stage[s] # "ended", NEW X,
         UNCHANGED <<emitted[s], sent[s], stage[s]>>,
         Ascending(queue'[s]), ToSet(queue'[s]) = ToSet(queue[s]) \cup X,
         Before(Told(s), X),
         Ascending(pending'[s]), ToSet(pending'[s]) \subseteq ToSet(pending[s]),
         Before(X, ToSet(pending'[s])),
         runOf'[s] \in {"done", "lost"} => pending'[s] = <<>>,
         runOf[s] \in {"done", "lost"} => runOf'[s] \in {"done", "lost"},
         \A x \in X : x > Len(emitted[s]) => x \in {Result, End} /\ runOf'[s] \in {"done", "lost"},
         \A x \in X, item \in Known(s) :
           item < x /\ ForClient(item) => item \in Told(s) \cup X,
         Attached(s)' => /\ Attached(s)
                         /\ ToSet(pending[s]) \subseteq X \cup ToSet(pending'[s])
                         /\ runOf'[s] = "done" => {Result, End} \subseteq Told(s) \cup X
  PROVE  Flow(s)'
<1>1. Told(s)' = Told(s) \cup X /\ Known(s)' = Known(s)
  BY DEF Told, Known
<1>2. InOrder(s)'
  <2>1. Before(ToSet(sent[s]), ToSet(queue[s]) \cup X)
    BY DEF Flow, InOrder, Before, Told
  <2>2. Before(Told(s) \cup X, ToSet(pending'[s]))
    BY DEF Flow, InOrder, Before
  <2>3. Ascending(sent[s])
    BY DEF Flow, InOrder
  <2> QED BY <1>1, <2>1, <2>2, <2>3 DEF InOrder
<1>3. AsReported(s)'
  <2>1. \A item \in Told(s)' \cup ToSet(pending'[s]) :
          item \in Told(s) \cup ToSet(pending[s]) \/ item \in X
    BY <1>1
  <2>2. \A item \in Told(s)' \cup ToSet(pending'[s]) : item > Len(emitted[s]) =>
          item \in {Result, End} /\ runOf'[s] \in {"done", "lost"}
    BY <2>1 DEF Flow, AsReported
  <2> QED BY <2>2 DEF Flow, AsReported
<1>4. NothingSkipped(s)'
  BY <1>1 DEF Flow, NothingSkipped
<1>5. NothingLost(s)'
  <2> SUFFICES ASSUME Attached(s)' PROVE NothingLost(s)'
    BY DEF NothingLost
  <2>1. \A event \in 1 .. Len(emitted[s]) :
          ForClient(event) => event \in Told(s)' \cup ToSet(pending'[s])
    BY <1>1 DEF Flow, NothingLost
  <2> QED BY <1>1, <2>1 DEF NothingLost
<1>6. CompleteWhenEnded(s)'
  BY DEF CompleteWhenEnded
<1> QED BY <1>2, <1>3, <1>4, <1>5, <1>6 DEF Flow

(* The next event is delivered, or does not fit and detaches its stream.   *)
LEMMA EventDelivered ==
  ASSUME StreamTypeOK, NEW s \in Streams, Flow(s), Deliver(s)
  PROVE  Flow(s)'
<1> DEFINE x == Head(pending[s])
           n == Len(emitted[s])
<1>1. /\ pending[s] # <<>> /\ pending'[s] = Tail(pending[s])
      /\ UNCHANGED <<stage, runOf, lease, emitted, cancelled, sent, connected>>
  BY DEF Deliver, StreamTypeOK
<1>2. /\ x \in Events /\ x \in Items /\ pending[s] \in Seq(Events)
      /\ ToSet(pending[s]) = ToSet(pending'[s]) \cup {x}
      /\ Ascending(pending'[s]) /\ \A y \in ToSet(pending'[s]) : x < y
  <2>1. pending[s] \in Seq(Events) /\ Events \subseteq Nat /\ Ascending(pending[s])
    BY StreamTypes, ItemNumbers DEF Flow, InOrder
  <2>2. /\ Head(pending[s]) \in Events /\ Ascending(Tail(pending[s]))
        /\ ToSet(pending[s]) = ToSet(Tail(pending[s])) \cup {Head(pending[s])}
        /\ \A y \in ToSet(Tail(pending[s])) : Head(pending[s]) < y
    BY <1>1, <2>1, FirstTaken
  <2> QED BY <1>1, <2>1, <2>2 DEF Items
<1>3. runOf[s] \notin {"done", "lost"} /\ stage[s] # "ended"
  <2>1. runOf[s] \notin {"done", "lost"}
    BY <1>1 DEF Flow, AsReported
  <2> QED BY <2>1 DEF Flow, CompleteWhenEnded
<1>4. Before(Told(s), ToSet(pending'[s])) /\ Before(Told(s), {x})
  BY <1>2 DEF Flow, InOrder, Before
<1> HIDE DEF x
<1>5. x <= n /\ n \in Nat /\ x \in Nat
  <2>1. ~ (x > n)
    BY <1>2, <1>3 DEF Flow, AsReported
  <2>2. x \in Nat /\ n \in Nat
    BY <1>2, StreamTypes, ItemNumbers
  <2> QED BY <2>1, <2>2
<1>6. CASE s \in detached
  <2>1. queue'[s] = queue[s] /\ ~ Attached(s)' /\ ToSet(queue'[s]) = ToSet(queue[s]) \cup {}
    BY <1>6 DEF Deliver, Attached
  <2>2. Ascending(queue'[s]) /\ Before(Told(s), {}) /\ Before({}, ToSet(pending'[s]))
    BY <2>1 DEF Flow, InOrder, Before
  <2> QED BY <1>1, <1>2, <1>3, <2>1, <2>2, ToldMore
<1>7. CASE s \notin detached
  <2>1. Offered(s, 1, Put(queue[s], x))
    BY <1>7 DEF Deliver, x
  <2>2. /\ queue[s] \in Seq(Items) /\ Len(queue[s]) <= BufferSize /\ Ascending(queue[s])
        /\ \A y \in ToSet(queue[s]) : y < x
    BY <1>4, StreamTypes, LimitsArePositive DEF Flow, InOrder, Before, Told
  <2>3. /\ Ascending(Put(queue[s], x))
        /\ \/ /\ Len(Put(queue[s], x)) = Len(queue[s]) + 1
              /\ ToSet(Put(queue[s], x)) = ToSet(queue[s]) \cup {x}
           \/ Put(queue[s], x) = queue[s]
    BY <1>2, <2>2, PutFacts
  <2>4. queue'[s] = Put(queue[s], x)
    BY <2>1 DEF Offered, StreamTypeOK
  <2>5. CASE ToSet(queue'[s]) = ToSet(queue[s]) \cup {x}
    <3>1. Before({x}, ToSet(pending'[s]))
      BY <1>2 DEF Before
    <3>2. \A y \in {x} : ~ (y > n)
      BY <1>5
    <3>3. \A y \in {x}, item \in Known(s) :
            item < y /\ ForClient(item) => item \in Told(s) \cup {x}
      <4> SUFFICES ASSUME NEW item \in Known(s), item < x, ForClient(item)
                   PROVE  item \in Told(s)
        OBVIOUS
      <4>1. item \in 1 .. n
        BY <1>2, <1>5, ItemNumbers DEF Known, Events
      <4>2. item \in Told(s) \cup ToSet(pending[s])
        BY <1>3, <1>7, <4>1 DEF Flow, NothingLost, Attached
      <4>3. item \notin ToSet(pending'[s]) /\ item # x
        BY <1>2, <1>5, <4>1
      <4> QED BY <1>2, <4>2, <4>3
    <3>4. /\ Attached(s) /\ runOf'[s] # "done"
          /\ ToSet(pending[s]) \subseteq {x} \cup ToSet(pending'[s])
      BY <1>1, <1>2, <1>3, <1>7 DEF Attached
    <3>5. Ascending(queue'[s])
      BY <2>3, <2>4
    <3> HIDE DEF n
    <3> QED BY <1>1, <1>2, <1>3, <1>4, <2>5, <3>1, <3>2, <3>3, <3>4, <3>5, ToldMore DEF n
  <2>6. CASE Put(queue[s], x) = queue[s]
    <3>1. queue'[s] = queue[s] /\ ToSet(queue'[s]) = ToSet(queue[s]) \cup {}
      BY <2>4, <2>6
    <3>2. s \in detached'
      <4>1. Len(queue[s]) \in Nat
        BY StreamTypes
      <4> QED BY <2>1, <2>6, <4>1 DEF Offered
    <3>3. Ascending(queue'[s]) /\ Before(Told(s), {}) /\ Before({}, ToSet(pending'[s]))
      BY <3>1 DEF Flow, InOrder, Before
    <3>4. ~ Attached(s)'
      BY <3>2 DEF Attached
    <3> QED BY <1>1, <1>2, <1>3, <3>1, <3>3, <3>4, ToldMore
  <2> QED BY <2>3, <2>4, <2>5, <2>6
<1> QED BY <1>6, <1>7

(* After the last delivery the result and the end follow, as far as they   *)
(* fit: X is what does.                                                    *)
LEMMA RunFinished ==
  ASSUME StreamTypeOK, NEW s \in Streams, Flow(s), EndRun(s)
  PROVE  Flow(s)'
<1> DEFINE n == Len(emitted[s])
<1>1. /\ runOf[s] = "returned" /\ runOf'[s] = "done" /\ pending[s] = <<>>
      /\ UNCHANGED <<stage, lease, emitted, pending, cancelled, sent, connected>>
  BY DEF EndRun, IsFlushed, StreamTypeOK
<1>2. ToSet(pending'[s]) = {} /\ Ascending(pending'[s]) /\ ToSet(pending[s]) = {}
  BY <1>1, EmptyQueue
<1>3. stage[s] # "ended" /\ n \in Nat /\ n <= MaxEvents
  BY <1>1, StreamTypes DEF Flow, AsReported, CompleteWhenEnded
<1>4. \A y \in Told(s) : y < Result /\ y < End
  <2> SUFFICES ASSUME NEW y \in Told(s) PROVE y < Result /\ y < End
    OBVIOUS
  <2>1. ~ (y > n)
    BY <1>1 DEF Flow, AsReported
  <2>2. y \in Nat
    BY StreamTypes, ItemNumbers
  <2> QED BY <1>3, <2>1, <2>2, ItemNumbers
<1>5. /\ queue[s] \in Seq(Items) /\ Len(queue[s]) <= BufferSize /\ Ascending(queue[s])
      /\ Len(queue[s]) \in Nat
  BY StreamTypes, LimitsArePositive DEF Flow, InOrder
<1> DEFINE one == Put(queue[s], Result)
           two == Put(one, End)
<1>6. /\ one \in Seq(Items) /\ Len(one) <= BufferSize /\ Ascending(one)
      /\ \/ Len(one) = Len(queue[s]) + 1 /\ ToSet(one) = ToSet(queue[s]) \cup {Result}
         \/ one = queue[s]
  BY <1>4, <1>5, ItemNumbers, PutFacts DEF Told
<1>7. /\ Ascending(two)
      /\ \/ Len(two) = Len(one) + 1 /\ ToSet(two) = ToSet(one) \cup {End}
         \/ two = one
  <2>1. \A y \in ToSet(one) : y < End
    BY <1>4, <1>6, ItemNumbers DEF Told
  <2> HIDE DEF one
  <2> QED BY <1>6, <2>1, ItemNumbers, PutFacts
<1>8. one = queue[s] => two = one
  <2>1. Len(Append(queue[s], Result)) = Len(queue[s]) + 1
    BY <1>5, ItemNumbers
  <2>2. Len(queue[s]) < BufferSize => one # queue[s]
    BY <1>5, <2>1 DEF Put
  <2>3. ~ (Len(queue[s]) < BufferSize) => Put(queue[s], End) = queue[s]
    BY DEF Put
  <2> QED BY <2>2, <2>3
<1>9. \/ queue'[s] = queue[s] /\ s \in detached
      \/ queue'[s] = two /\ s \notin detached /\ s \in detached'
      \/ queue'[s] = two /\ s \notin detached /\ Len(two) = Len(queue[s]) + 2
  <2>1. s \in detached \/ (s \notin detached /\ Offered(s, 2, two))
    BY DEF EndRun
  <2> HIDE DEF two
  <2> QED BY <1>1, <2>1 DEF EndRun, Offered, StreamTypeOK
<1>10. PICK X \in SUBSET {Result, End} :
         /\ ToSet(queue'[s]) = ToSet(queue[s]) \cup X /\ Ascending(queue'[s])
         /\ End \in X => Result \in X
         /\ X = {Result, End} \/ s \in detached'
         /\ s \in detached => X = {}
  <2>0. s \in detached => s \in detached'
    BY DEF EndRun
  <2> HIDE DEF one, two
  <2>1. CASE queue'[s] = queue[s] /\ s \in detached
    <3>1. {} \in SUBSET {Result, End} /\ ToSet(queue'[s]) = ToSet(queue[s]) \cup {}
      BY <2>1
    <3> QED BY <1>5, <2>0, <2>1, <3>1
  <2>2. CASE s \notin detached /\ queue'[s] = two /\ two = queue[s]
    <3>1. {} \in SUBSET {Result, End} /\ ToSet(queue'[s]) = ToSet(queue[s]) \cup {}
      BY <2>2
    <3>2. s \in detached'
      BY <1>5, <1>9, <2>0, <2>2
    <3> QED BY <1>5, <2>2, <3>1, <3>2
  <2>3. CASE s \notin detached /\ queue'[s] = two /\ two = one /\ one # queue[s]
    <3>1. {Result} \in SUBSET {Result, End} /\ ToSet(queue'[s]) = ToSet(queue[s]) \cup {Result}
      BY <1>6, <2>3
    <3>2. s \in detached'
      BY <1>5, <1>6, <1>9, <2>0, <2>3
    <3>3. End \notin {Result}
      BY ItemNumbers
    <3> QED BY <1>6, <2>3, <3>1, <3>2, <3>3
  <2>4. CASE s \notin detached /\ queue'[s] = two /\ two # one /\ one # queue[s]
    <3>1. ToSet(queue'[s]) = ToSet(queue[s]) \cup {Result, End}
      BY <1>6, <1>7, <2>4
    <3> QED BY <1>7, <2>4, <3>1
  <2> QED BY <1>8, <1>9, <2>1, <2>2, <2>3, <2>4
<1>11. Before(Told(s), X) /\ Before(X, ToSet(pending'[s]))
  BY <1>2, <1>4 DEF Before
<1>12. ASSUME NEW x \in X, NEW item \in Known(s), item < x, ForClient(item)
       PROVE  item \in Told(s) \cup X
  <2>1. CASE item \in 1 .. n
    BY <1>1, <1>2, <1>10, <1>12, <2>1 DEF Flow, NothingLost, Attached
  <2>2. CASE item = Result
    BY <1>10, <1>12, <2>2, ItemNumbers
  <2>3. CASE item = End
    BY <1>10, <1>12, <2>3, ItemNumbers
  <2> QED BY <1>12, <2>1, <2>2, <2>3 DEF Known
<1>13. \A x \in X : x \in {Result, End} /\ runOf'[s] \in {"done", "lost"}
  BY <1>1, <1>10
<1>14. Attached(s)' => /\ Attached(s)
                       /\ ToSet(pending[s]) \subseteq X \cup ToSet(pending'[s])
                       /\ {Result, End} \subseteq Told(s) \cup X
  <2>1. s \in detached => s \in detached'
    BY DEF EndRun, Offered
  <2> QED BY <1>1, <1>2, <1>10, <2>1 DEF Attached
<1> HIDE DEF n, one, two
<1> QED BY <1>1, <1>2, <1>3, <1>10, <1>11, <1>12, <1>13, <1>14, ToldMore

-----------------------------------------------------------------------------
(* The generator takes an item.                                            *)
LEMMA ItemTaken ==
  ASSUME StreamTypeOK, NEW s \in Streams, Flow(s), Take(s)
  PROVE  Flow(s)'
<1> DEFINE x == Head(queue[s])
           n == Len(emitted[s])
<1>1. /\ queue[s] # <<>> /\ x # End /\ queue'[s] = Tail(queue[s]) /\ stage[s] = "waiting"
      /\ UNCHANGED <<runOf, lease, emitted, pending, detached, cancelled, connected>>
      /\ \/ ForClient(x) /\ stage'[s] = "sending" /\ sent'[s] = Append(sent[s], x)
         \/ ~ ForClient(x) /\ stage'[s] = "open" /\ sent'[s] = sent[s]
  BY DEF Take, StreamTypeOK
<1>2. /\ x \in Items /\ ToSet(queue[s]) = ToSet(queue'[s]) \cup {x}
      /\ Ascending(queue'[s]) /\ \A y \in ToSet(queue'[s]) : x < y
  <2>1. queue[s] \in Seq(Items) /\ Items \subseteq Nat /\ Ascending(queue[s])
    BY StreamTypes, ItemNumbers DEF Flow, InOrder
  <2>2. /\ Head(queue[s]) \in Items /\ Ascending(Tail(queue[s]))
        /\ ToSet(queue[s]) = ToSet(Tail(queue[s])) \cup {Head(queue[s])}
        /\ \A y \in ToSet(Tail(queue[s])) : Head(queue[s]) < y
    BY <1>1, <2>1, FirstTaken
  <2> QED BY <1>1, <2>2
<1>3. /\ Ascending(sent'[s])
      /\ ToSet(sent'[s]) = IF ForClient(x) THEN ToSet(sent[s]) \cup {x} ELSE ToSet(sent[s])
  <2>1. \A y \in ToSet(sent[s]) : y < x
    BY <1>2 DEF Flow, InOrder, Before
  <2>2. x \in Events \cup {Result} /\ sent[s] \in Seq(Events \cup {Result})
    BY <1>1, <1>2, StreamTypes DEF Items
  <2>3. Events \cup {Result} \subseteq Nat /\ Ascending(sent[s])
    BY ItemNumbers DEF Flow, InOrder
  <2>4. Ascending(Append(sent[s], x)) /\ ToSet(Append(sent[s], x)) = ToSet(sent[s]) \cup {x}
    <3> HIDE DEF x
    <3> QED BY <2>1, <2>2, <2>3, NextAppended
  <2> HIDE DEF x
  <2> QED BY <1>1, <2>3, <2>4
<1> HIDE DEF x
<1>4. Told(s)' \subseteq Told(s) /\ \A item \in Told(s) : ForClient(item) => item \in Told(s)'
  BY <1>2, <1>3 DEF Told
<1>5. InOrder(s)'
  <2>1. Before(ToSet(sent'[s]), ToSet(queue'[s])) /\ Before(Told(s)', ToSet(pending[s]))
    BY <1>2, <1>3, <1>4 DEF Flow, InOrder, Before
  <2> QED BY <1>1, <1>2, <1>3, <2>1 DEF Flow, InOrder
<1>6. AsReported(s)'
  <2>1. \A item \in ToSet(sent'[s]) : ForClient(item)
    BY <1>3 DEF Flow, AsReported
  <2> QED BY <1>1, <1>4, <2>1 DEF Flow, AsReported
<1>7. NothingSkipped(s)'
  <2>1. Known(s)' = Known(s)
    BY <1>1 DEF Known
  <2> QED BY <1>4, <2>1 DEF Flow, NothingSkipped
<1>8. NothingLost(s)'
  <2>1. Attached(s)' => Attached(s)
    BY <1>1 DEF Attached, Live
  <2>2. ASSUME Attached(s), NEW event \in 1 .. n, ForClient(event)
        PROVE  event \in Told(s)' \cup ToSet(pending'[s])
    BY <1>1, <1>4, <2>2 DEF Flow, NothingLost
  <2>3. Attached(s) /\ runOf'[s] = "done" => {Result, End} \subseteq Told(s)'
    BY <1>1, <1>4, ItemNumbers DEF Flow, NothingLost
  <2> QED BY <1>1, <2>1, <2>2, <2>3 DEF NothingLost
<1>9. CompleteWhenEnded(s)'
  BY <1>1 DEF CompleteWhenEnded
<1> QED BY <1>5, <1>6, <1>7, <1>8, <1>9 DEF Flow

(* When the end of the stream is next, all the rest has been sent.         *)
LEMMA EverythingSent ==
  ASSUME StreamTypeOK, NEW s \in Streams, Flow(s), queue[s] # <<>>, Head(queue[s]) = End
  PROVE  runOf[s] \in {"done", "lost"} /\ ToSet(sent[s]) = Visible(s) \cup {Result}
<1> DEFINE n == Len(emitted[s])
<1>1. /\ ToSet(queue[s]) = ToSet(Tail(queue[s])) \cup {End} /\ Tail(queue[s]) \in Seq(Items)
      /\ \A y \in ToSet(Tail(queue[s])) : End < y
  <2>1. queue[s] \in Seq(Items) /\ Items \subseteq Nat /\ Ascending(queue[s])
    BY StreamTypes, ItemNumbers DEF Flow, InOrder
  <2> QED BY <2>1, FirstTaken
<1>2. ToSet(queue[s]) = {End}
  <2>1. ToSet(Tail(queue[s])) \subseteq Items
    BY <1>1, SequenceMembers
  <2>2. \A y \in Items : ~ (End < y)
    BY EventsAssumption DEF Items, Events, Result, End
  <2> QED BY <1>1, <2>1, <2>2
<1>3. n \in Nat /\ n <= MaxEvents /\ ToSet(emitted[s]) = 1 .. n
  <2>1. n \in Nat /\ n <= MaxEvents /\ DOMAIN emitted[s] = 1 .. n
    BY StreamTypes DEF Flow, AsReported
  <2>2. \A i \in 1 .. n : emitted[s][i] = i
    BY <2>1 DEF Flow, AsReported
  <2> HIDE DEF n
  <2> QED BY <2>1, <2>2 DEF ToSet
<1>4. runOf[s] \in {"done", "lost"}
  <2>1. End \in Told(s) /\ End > n
    BY <1>2, <1>3, ItemNumbers DEF Told
  <2> QED BY <2>1 DEF Flow, AsReported
<1>5. ASSUME NEW item \in Visible(s) \cup {Result}
      PROVE  item \in ToSet(sent[s])
  <2>1. item \in Known(s) /\ ForClient(item) /\ item < End /\ item # End
    BY <1>3, ItemNumbers DEF Known, Visible
  <2>2. item \in Told(s)
    BY <1>2, <2>1 DEF Flow, NothingSkipped, Told
  <2> QED BY <1>2, <2>1, <2>2 DEF Told
<1>6. ToSet(sent[s]) \subseteq Visible(s) \cup {Result}
  BY SentIsVisible
<1> QED BY <1>4, <1>5, <1>6

-----------------------------------------------------------------------------
(* One entry of a function has been changed.                               *)
LEMMA EntryChanged ==
  ASSUME NEW D, NEW R, NEW f \in [D -> R], NEW d \in D, NEW v \in R, NEW g,
         g = [f EXCEPT ![d] = v]
  PROVE  g[d] = v /\ g = [f EXCEPT ![d] = g[d]]
OBVIOUS

(* A step of one stream, which leaves the others alone.                    *)
LEMMA OneStream ==
  ASSUME StreamInv, NEW s \in Streams,
         stage' = [stage EXCEPT ![s] = stage'[s]], stage'[s] \in {"idle"} \cup Live \cup Over,
         runOf' = [runOf EXCEPT ![s] = runOf'[s]],
         runOf'[s] \in {"none", "running", "returned", "done", "lost"},
         runOf'[s] = "none" <=> stage'[s] \in {"idle", "rejected"},
         runOf'[s] = "lost" => stage'[s] \notin Live,
         lease' \in [Streams -> Leases],
         emitted' = [emitted EXCEPT ![s] = emitted'[s]], emitted'[s] \in Seq(Events),
         pending' = [pending EXCEPT ![s] = pending'[s]], pending'[s] \in Seq(Events),
         queue' = [queue EXCEPT ![s] = queue'[s]], queue'[s] \in Seq(Items),
         Len(queue'[s]) <= BufferSize,
         sent' = [sent EXCEPT ![s] = sent'[s]], sent'[s] \in Seq(Events \cup {Result}),
         detached' \in {detached, detached \cup {s}},
         cancelled' \in {cancelled, cancelled \cup {s}},
         connected' \subseteq connected,
         Flow(s)'
  PROVE  StreamInv'
<1>0. StreamTypeOK /\ LostIsOver /\ \A r \in Streams : Flow(r)
  BY DEF StreamInv
<1> DEFINE Stages == {"idle"} \cup Live \cup Over
           Runs == {"none", "running", "returned", "done", "lost"}
<1>1. StreamTypeOK'
  <2>1. stage' \in [Streams -> Stages]
    <3>1. stage \in [Streams -> Stages] /\ stage'[s] \in Stages
      BY <1>0 DEF StreamTypeOK
    <3> HIDE DEF Stages
    <3> QED BY <3>1
  <2>2. runOf' \in [Streams -> Runs]
    <3>1. runOf \in [Streams -> Runs] /\ runOf'[s] \in Runs
      BY <1>0 DEF StreamTypeOK
    <3> HIDE DEF Runs
    <3> QED BY <3>1
  <2>3. \A r \in Streams : runOf'[r] = "none" <=> stage'[r] \in {"idle", "rejected"}
    BY <1>0 DEF StreamTypeOK
  <2>4. emitted' \in [Streams -> Seq(Events)] /\ pending' \in [Streams -> Seq(Events)]
    BY <1>0 DEF StreamTypeOK
  <2>5. queue' \in [Streams -> Seq(Items)] /\ sent' \in [Streams -> Seq(Events \cup {Result})]
    BY <1>0 DEF StreamTypeOK
  <2>6. \A r \in Streams : Len(queue'[r]) <= BufferSize
    BY <1>0 DEF StreamTypeOK
  <2>7. detached' \subseteq Streams /\ cancelled' \subseteq Streams /\ connected' \subseteq Streams
    BY <1>0 DEF StreamTypeOK
  <2> QED BY <2>1, <2>2, <2>3, <2>4, <2>5, <2>6, <2>7 DEF StreamTypeOK
<1>2. ASSUME NEW r \in Streams, r # s
      PROVE  Flow(r)'
  <2>1. /\ UNCHANGED <<emitted[r], pending[r], queue[r], sent[r], runOf[r], stage[r]>>
        /\ r \in detached => r \in detached'
    BY <1>0, <1>2 DEF StreamTypeOK
  <2> QED BY <1>0, <2>1, NothingTold
<1>3. LostIsOver'
  BY <1>0 DEF LostIsOver, StreamTypeOK
<1> QED BY <1>1, <1>2, <1>3 DEF StreamInv

(* What the invariant says of one stream.                                  *)
LEMMA OfStream ==
  ASSUME StreamInv, NEW s \in Streams
  PROVE  /\ StreamTypeOK /\ Flow(s)
         /\ stage[s] \in {"idle"} \cup Live \cup Over
         /\ runOf[s] \in {"none", "running", "returned", "done", "lost"}
         /\ runOf[s] = "none" <=> stage[s] \in {"idle", "rejected"}
         /\ runOf[s] = "lost" => stage[s] \notin Live
         /\ lease \in [Streams -> Leases]
         /\ emitted[s] \in Seq(Events) /\ pending[s] \in Seq(Events)
         /\ queue[s] \in Seq(Items) /\ Len(queue[s]) <= BufferSize
         /\ sent[s] \in Seq(Events \cup {Result})
         /\ <<>> \in Seq(Events) /\ <<>> \in Seq(Items) /\ Len(<<>>) <= BufferSize
         /\ stage = [stage EXCEPT ![s] = stage[s]] /\ runOf = [runOf EXCEPT ![s] = runOf[s]]
         /\ emitted = [emitted EXCEPT ![s] = emitted[s]]
         /\ pending = [pending EXCEPT ![s] = pending[s]]
         /\ queue = [queue EXCEPT ![s] = queue[s]] /\ sent = [sent EXCEPT ![s] = sent[s]]
<1>1. Len(<<>>) <= BufferSize
  BY LimitsArePositive
<1> QED BY <1>1 DEF StreamInv, StreamTypeOK, LostIsOver

(* The steps of admission, of the client, and of a generator that waits.   *)
LEMMA NothingToldInvariant ==
  ASSUME StreamInv, NEW s \in Streams,
         \/ Admit(s) \/ Reject(s) \/ ExpireLease(s) \/ RunReturns(s) \/ Renew(s)
         \/ Await(s) \/ WaitEnds(s) \/ Sent(s) \/ Disconnect(s) \/ Abandon(s)
  PROVE  StreamInv'
<1> USE DEF Live, Over
<1>1. StreamTypeOK
  BY DEF StreamInv
<1>2. /\ UNCHANGED <<emitted, pending, queue, sent, detached>>
      /\ cancelled' \in {cancelled, cancelled \cup {s}} /\ connected' \subseteq connected
  BY DEF Admit, Reject, ExpireLease, RunReturns, Renew, Await, WaitEnds, Sent, Disconnect, Abandon
<1>3. /\ stage' = [stage EXCEPT ![s] = stage'[s]] /\ runOf' = [runOf EXCEPT ![s] = runOf'[s]]
      /\ stage'[s] \in {"idle"} \cup Live \cup Over
      /\ runOf'[s] \in {"none", "running", "returned", "done", "lost"}
      /\ runOf'[s] = "none" <=> stage'[s] \in {"idle", "rejected"}
      /\ runOf'[s] = "lost" => stage'[s] \notin Live
      /\ \/ runOf'[s] = runOf[s]
         \/ runOf[s] \in {"none", "running"} /\ runOf'[s] \in {"running", "returned"}
      /\ stage'[s] \in Live => stage[s] \in Live \/ runOf[s] = "none"
      /\ stage'[s] = "ended" => stage[s] = "ended"
  BY <1>1, OfStream DEF StreamTypeOK, Admit, Reject, ExpireLease, RunReturns, Renew, Await,
     WaitEnds, Sent, Disconnect, Abandon
<1>4. lease' \in [Streams -> Leases]
  BY <1>1, ZenonT(60) DEF StreamTypeOK, Leases, Purged, Extended, Admit, Reject, ExpireLease, RunReturns, Renew,
     Await, WaitEnds, Sent, Disconnect, Abandon
<1>5. Flow(s)'
  BY <1>2, <1>3, NothingTold DEF StreamInv
<1>6. /\ emitted' = [emitted EXCEPT ![s] = emitted'[s]] /\ emitted'[s] \in Seq(Events)
      /\ pending' = [pending EXCEPT ![s] = pending'[s]] /\ pending'[s] \in Seq(Events)
      /\ queue' = [queue EXCEPT ![s] = queue'[s]] /\ queue'[s] \in Seq(Items)
      /\ Len(queue'[s]) <= BufferSize
      /\ sent' = [sent EXCEPT ![s] = sent'[s]] /\ sent'[s] \in Seq(Events \cup {Result})
  BY <1>2, OfStream
<1> QED BY <1>2, <1>3, <1>4, <1>5, <1>6, OneStream

(* The run hands an event to its stream.                                   *)
LEMMA EmitInvariant ==
  ASSUME StreamInv, NEW s \in Streams, EmitEvent(s)
  PROVE  StreamInv'
<1>1. /\ UNCHANGED <<stage, runOf, lease, queue, detached, cancelled, sent, connected>>
      /\ emitted' = [emitted EXCEPT ![s] = Append(@, Len(emitted[s]) + 1)]
      /\ pending' = [pending EXCEPT ![s] = Append(@, Len(emitted[s]) + 1)]
      /\ Len(emitted[s]) < MaxEvents
  BY DEF EmitEvent
<1>2. Len(emitted[s]) + 1 \in Events
  <2>1. Len(emitted[s]) \in Nat
    BY OfStream, StreamTypes
  <2> QED BY <1>1, <2>1, ItemNumbers DEF Events
<1>3. /\ emitted' = [emitted EXCEPT ![s] = emitted'[s]] /\ emitted'[s] \in Seq(Events)
      /\ pending' = [pending EXCEPT ![s] = pending'[s]] /\ pending'[s] \in Seq(Events)
  <2>1. emitted \in [Streams -> Seq(Events)] /\ pending \in [Streams -> Seq(Events)]
    BY OfStream DEF StreamTypeOK
  <2>2. /\ Append(emitted[s], Len(emitted[s]) + 1) \in Seq(Events)
        /\ Append(pending[s], Len(emitted[s]) + 1) \in Seq(Events)
    BY <1>2, OfStream
  <2>3. /\ emitted' = [emitted EXCEPT ![s] = Append(emitted[s], Len(emitted[s]) + 1)]
        /\ pending' = [pending EXCEPT ![s] = Append(pending[s], Len(emitted[s]) + 1)]
    BY <1>1
  <2>4. emitted' = [emitted EXCEPT ![s] = emitted'[s]] /\ emitted'[s] \in Seq(Events)
    BY <2>1, <2>2, <2>3, EntryChanged
  <2>5. pending' = [pending EXCEPT ![s] = pending'[s]] /\ pending'[s] \in Seq(Events)
    BY <2>1, <2>2, <2>3, EntryChanged
  <2> QED BY <2>4, <2>5
<1>4. Flow(s)'
  BY OfStream, EventEmitted
<1>5. connected' \subseteq connected /\ cancelled' \in {cancelled, cancelled \cup {s}}
      /\ detached' \in {detached, detached \cup {s}}
  BY <1>1
<1> QED BY <1>1, <1>3, <1>4, <1>5, OfStream, OneStream

(* What has been offered to the buffer of a stream.                        *)
LEMMA OfferedTypes ==
  ASSUME StreamInv, NEW s \in Streams,
         NEW count, NEW filled \in Seq(Items), Len(filled) <= BufferSize,
         Offered(s, count, filled)
  PROVE  /\ queue' = [queue EXCEPT ![s] = queue'[s]] /\ queue'[s] \in Seq(Items)
         /\ Len(queue'[s]) <= BufferSize
         /\ detached' \in {detached, detached \cup {s}}
BY OfStream, ZenonT(60) DEF Offered, StreamTypeOK

LEMMA PutTypes ==
  ASSUME NEW q \in Seq(Items), Len(q) <= BufferSize, NEW x \in Items
  PROVE  Put(q, x) \in Seq(Items) /\ Len(Put(q, x)) <= BufferSize
<1>1. Len(Append(q, x)) = Len(q) + 1 /\ Len(q) \in Nat /\ Append(q, x) \in Seq(Items)
  OBVIOUS
<1>2. Len(q) < BufferSize => Len(q) + 1 <= BufferSize
  BY <1>1, LimitsArePositive
<1> QED BY <1>1, <1>2 DEF Put

(* A delivery, or what follows the last of them.                           *)
LEMMA OfferInvariant ==
  ASSUME StreamInv, NEW s \in Streams, Deliver(s) \/ EndRun(s)
  PROVE  StreamInv'
<1>1. /\ UNCHANGED <<stage, lease, emitted, cancelled, sent, connected>>
      /\ runOf' = [runOf EXCEPT ![s] = runOf'[s]] /\ runOf'[s] \in {runOf[s], "done"}
      /\ runOf[s] = "none" => runOf'[s] = "none"
      /\ pending' = [pending EXCEPT ![s] = pending'[s]] /\ pending'[s] \in Seq(Events)
  <2>1. CASE Deliver(s)
    <3>1. pending[s] # <<>> /\ pending' = [pending EXCEPT ![s] = Tail(@)] /\ UNCHANGED runOf
          /\ UNCHANGED <<stage, lease, emitted, cancelled, sent, connected>>
      BY <2>1 DEF Deliver
    <3>2. Tail(pending[s]) \in Seq(Events)
      BY <3>1, OfStream
    <3> QED BY <3>1, <3>2, OfStream, ZenonT(60) DEF StreamTypeOK
  <2>2. CASE EndRun(s)
    BY <2>2, OfStream DEF EndRun, StreamTypeOK
  <2> QED BY <2>1, <2>2
<1>2. /\ queue' = [queue EXCEPT ![s] = queue'[s]] /\ queue'[s] \in Seq(Items)
      /\ Len(queue'[s]) <= BufferSize
      /\ detached' \in {detached, detached \cup {s}}
  <2>1. CASE s \in detached
    BY <2>1, OfStream DEF Deliver, EndRun
  <2>2. CASE s \notin detached /\ Deliver(s)
    <3>1. Head(pending[s]) \in Items
      <4>1. pending[s] # <<>> /\ pending[s] \in Seq(Events)
        BY <2>2, OfStream DEF Deliver
      <4>2. Head(pending[s]) \in Events
        BY <4>1
      <4> QED BY <4>2 DEF Items
    <3>2. Offered(s, 1, Put(queue[s], Head(pending[s])))
      BY <2>2 DEF Deliver
    <3>3. Put(queue[s], Head(pending[s])) \in Seq(Items)
          /\ Len(Put(queue[s], Head(pending[s]))) <= BufferSize
      BY <3>1, OfStream, PutTypes
    <3> QED BY <3>2, <3>3, OfferedTypes
  <2>3. CASE s \notin detached /\ EndRun(s)
    <3>1. Offered(s, 2, Put(Put(queue[s], Result), End))
      BY <2>3 DEF EndRun
    <3>2. Put(queue[s], Result) \in Seq(Items) /\ Len(Put(queue[s], Result)) <= BufferSize
      BY OfStream, PutTypes, ItemNumbers
    <3>3. /\ Put(Put(queue[s], Result), End) \in Seq(Items)
          /\ Len(Put(Put(queue[s], Result), End)) <= BufferSize
      BY <3>2, PutTypes, ItemNumbers
    <3> QED BY <3>1, <3>3, OfferedTypes
  <2> QED BY <2>1, <2>2, <2>3
<1>3. Flow(s)'
  BY OfStream, EventDelivered, RunFinished
<1>4. connected' \subseteq connected /\ cancelled' \in {cancelled, cancelled \cup {s}}
  BY <1>1
<1>5. /\ runOf'[s] \in {"none", "running", "returned", "done", "lost"}
      /\ runOf'[s] = "none" <=> stage'[s] \in {"idle", "rejected"}
      /\ runOf'[s] = "lost" => stage'[s] \notin Live
  <2>1. runOf'[s] = "none" <=> runOf[s] = "none"
    BY <1>1
  <2> QED BY <1>1, <2>1, OfStream
<1> QED BY <1>1, <1>2, <1>3, <1>4, <1>5, OfStream, OneStream

(* The generator takes an item, and sends it if it is for the client.      *)
LEMMA TakeInvariant ==
  ASSUME StreamInv, NEW s \in Streams, Take(s)
  PROVE  StreamInv'
<1>1. /\ UNCHANGED <<runOf, lease, emitted, pending, detached, cancelled, connected>>
      /\ queue[s] # <<>> /\ queue' = [queue EXCEPT ![s] = Tail(@)] /\ stage[s] = "waiting"
      /\ Head(queue[s]) # End
  BY DEF Take
<1>2. /\ Tail(queue[s]) \in Seq(Items) /\ Head(queue[s]) \in Items
      /\ Len(Tail(queue[s])) <= BufferSize
  <2>1. queue[s] \in Seq(Items) /\ Len(queue[s]) <= BufferSize /\ Items \subseteq Nat
    BY OfStream, ItemNumbers
  <2>2. /\ Tail(queue[s]) \in Seq(Items) /\ Head(queue[s]) \in Items
        /\ Len(Tail(queue[s])) < Len(queue[s])
    BY <1>1, <2>1, FirstTaken
  <2> QED BY <2>1, <2>2, LimitsArePositive
<1>3. /\ queue' = [queue EXCEPT ![s] = queue'[s]] /\ queue'[s] \in Seq(Items)
      /\ Len(queue'[s]) <= BufferSize
  BY <1>1, <1>2, OfStream DEF StreamTypeOK
<1>4. /\ stage' = [stage EXCEPT ![s] = stage'[s]] /\ stage'[s] \in {"sending", "open"}
  BY OfStream DEF Take, StreamTypeOK
<1>5. sent' = [sent EXCEPT ![s] = sent'[s]] /\ sent'[s] \in Seq(Events \cup {Result})
  <2>1. Head(queue[s]) \in Events \cup {Result}
    BY <1>1, <1>2 DEF Items
  <2>2. UNCHANGED sent \/ sent' = [sent EXCEPT ![s] = Append(@, Head(queue[s]))]
    BY DEF Take
  <2>3. CASE UNCHANGED sent
    BY <2>3, OfStream
  <2>4. CASE sent' = [sent EXCEPT ![s] = Append(sent[s], Head(queue[s]))]
    <3>1. /\ sent \in [Streams -> Seq(Events \cup {Result})]
          /\ Append(sent[s], Head(queue[s])) \in Seq(Events \cup {Result})
      BY <2>1, OfStream DEF StreamTypeOK
    <3> QED BY <2>4, <3>1, EntryChanged
  <2> QED BY <2>2, <2>3, <2>4
<1>6. Flow(s)'
  BY OfStream, ItemTaken
<1>7. /\ connected' \subseteq connected /\ cancelled' \in {cancelled, cancelled \cup {s}}
      /\ detached' \in {detached, detached \cup {s}}
  BY <1>1
<1>8. /\ stage'[s] \in {"idle"} \cup Live \cup Over
      /\ runOf'[s] = "none" <=> stage'[s] \in {"idle", "rejected"}
      /\ runOf'[s] = "lost" => stage'[s] \notin Live
  BY <1>1, <1>4, OfStream DEF Live
<1> QED BY <1>1, <1>3, <1>4, <1>5, <1>6, <1>7, <1>8, OfStream, OneStream

(* However a generator is left, nothing more is told to the client; it has *)
(* been told everything if the end of the stream made it leave.            *)
LEMMA LeaveInvariant ==
  ASSUME StreamInv, NEW s \in Streams,
         RenewalFails(s) \/ Stop(s) \/ TakeEnd(s) \/ Interrupt(s)
  PROVE  StreamInv'
<1>1. /\ UNCHANGED <<runOf, emitted, pending, cancelled, sent, connected>>
      /\ queue' = [queue EXCEPT ![s] = <<>>] /\ stage[s] \in Live
      /\ detached' = DetachedOnLeaving(s) \/ detached' = detached \cup {s}
  BY DEF RenewalFails, Stop, TakeEnd, Interrupt, Leave, Live
<1>2. /\ stage' = [stage EXCEPT ![s] = stage'[s]] /\ stage'[s] \in {"failed", "closed", "ended"}
      /\ stage'[s] = "ended" => TakeEnd(s)
      /\ lease' \in [Streams -> Leases]
  BY OfStream, ZenonT(60) DEF RenewalFails, Stop, TakeEnd, Interrupt, Leave, StreamTypeOK, Released, Leases
<1>3. queue'[s] = <<>> /\ queue' = [queue EXCEPT ![s] = queue'[s]]
  <2>1. queue \in [Streams -> Seq(Items)] /\ <<>> \in Seq(Items)
    BY OfStream DEF StreamTypeOK
  <2> QED BY <1>1, <2>1, EntryChanged
<1>4. detached' \in {detached, detached \cup {s}} /\ (runOf[s] = "done" \/ s \in detached')
  BY <1>1 DEF DetachedOnLeaving
<1>5. stage'[s] \in Over /\ stage'[s] \notin Live
  BY <1>2 DEF Over, Live
<1>6. ~ Attached(s)'
  BY <1>1, <1>4, <1>5 DEF Attached
<1>7. stage'[s] = "ended" => runOf'[s] = "done" /\ ToSet(sent[s]) = Visible(s) \cup {Result}
  <2>1. runOf[s] # "lost"
    BY <1>1, OfStream
  <2> QED BY <1>1, <1>2, <2>1, OfStream, EverythingSent DEF TakeEnd
<1>8. Flow(s)'
  <2>1. UNCHANGED <<emitted[s], sent[s]>> /\ runOf'[s] = runOf[s] /\ pending'[s] = pending[s]
    BY <1>1
  <2> QED BY <1>3, <1>6, <1>7, <2>1, OfStream, StreamLeft, ZenonT(60)
<1>9. runOf[s] # "none" /\ stage'[s] \notin {"idle", "rejected"}
  BY <1>1, <1>2, OfStream DEF Live
<1>10. connected' \subseteq connected /\ cancelled' \in {cancelled, cancelled \cup {s}}
  BY <1>1
<1> QED BY <1>1, <1>2, <1>3, <1>4, <1>5, <1>8, <1>9, <1>10, OfStream, OneStream

(* The process of a stream dies.                                           *)
LEMMA CrashInvariant ==
  ASSUME StreamInv, NEW s \in Streams, Crash(s)
  PROVE  StreamInv'
<1>1. /\ UNCHANGED <<lease, emitted, detached, cancelled, sent, connected>>
      /\ stage' = [stage EXCEPT ![s] = IF stage[s] \in Live THEN "dead" ELSE stage[s]]
      /\ runOf' = [runOf EXCEPT ![s] = "lost"]
      /\ pending' = [pending EXCEPT ![s] = <<>>] /\ queue' = [queue EXCEPT ![s] = <<>>]
      /\ stage[s] \in Live \/ runOf[s] \in {"running", "returned"}
  BY DEF Crash
<1>2. /\ runOf'[s] = "lost" /\ pending'[s] = <<>> /\ queue'[s] = <<>>
      /\ stage'[s] = IF stage[s] \in Live THEN "dead" ELSE stage[s]
      /\ stage' = [stage EXCEPT ![s] = stage'[s]] /\ runOf' = [runOf EXCEPT ![s] = runOf'[s]]
      /\ pending' = [pending EXCEPT ![s] = pending'[s]] /\ queue' = [queue EXCEPT ![s] = queue'[s]]
  <2>1. /\ queue \in [Streams -> Seq(Items)] /\ <<>> \in Seq(Items)
        /\ pending \in [Streams -> Seq(Events)] /\ <<>> \in Seq(Events)
    BY OfStream DEF StreamTypeOK
  <2>2. queue'[s] = <<>> /\ queue' = [queue EXCEPT ![s] = queue'[s]]
    BY <1>1, <2>1, EntryChanged
  <2>3. pending'[s] = <<>> /\ pending' = [pending EXCEPT ![s] = pending'[s]]
    BY <1>1, <2>1, EntryChanged
  <2>4. /\ runOf'[s] = "lost" /\ runOf' = [runOf EXCEPT ![s] = runOf'[s]]
        /\ stage'[s] = IF stage[s] \in Live THEN "dead" ELSE stage[s]
        /\ stage' = [stage EXCEPT ![s] = stage'[s]]
    <3> DEFINE new == IF stage[s] \in Live THEN "dead" ELSE stage[s]
    <3>1. stage' = [stage EXCEPT ![s] = new]
      BY <1>1
    <3> HIDE DEF new
    <3>2. stage'[s] = new /\ stage' = [stage EXCEPT ![s] = stage'[s]]
      BY <3>1, OfStream DEF StreamTypeOK
    <3>3. runOf'[s] = "lost" /\ runOf' = [runOf EXCEPT ![s] = runOf'[s]]
      BY <1>1, OfStream DEF StreamTypeOK
    <3> QED BY <3>2, <3>3 DEF new
  <2> QED BY <2>2, <2>3, <2>4
<1>3. /\ stage'[s] \in {"idle"} \cup Live \cup Over /\ stage'[s] \notin Live
      /\ stage'[s] \notin {"idle", "rejected"} /\ stage'[s] # "ended"
  <2>1. runOf[s] # "none"
    BY <1>1, OfStream DEF Live
  <2>2. stage[s] \notin {"idle", "rejected"}
    BY <2>1, OfStream
  <2>3. stage[s] # "ended" \/ stage[s] \in Live
    BY <1>1, OfStream DEF Flow, CompleteWhenEnded
  <2> QED BY <1>2, <2>2, <2>3, OfStream DEF Live, Over
<1>4. Flow(s)'
  <2>1. UNCHANGED <<emitted[s], sent[s]>> /\ ~ Attached(s)'
    BY <1>1, <1>2 DEF Attached
  <2> QED BY <1>2, <1>3, <2>1, OfStream, StreamLeft, ZenonT(60)
<1>5. /\ connected' \subseteq connected /\ cancelled' \in {cancelled, cancelled \cup {s}}
      /\ detached' \in {detached, detached \cup {s}}
  BY <1>1
<1> QED BY <1>1, <1>2, <1>3, <1>4, <1>5, OfStream, OneStream

LEMMA StreamStepInvariant == StreamInv /\ [StreamNext]_streamVars => StreamInv'
<1> SUFFICES ASSUME StreamInv, [StreamNext]_streamVars PROVE StreamInv'
  OBVIOUS
<1>1. CASE StreamNext
  <2>1. PICK s \in Streams :
          \/ Admit(s) \/ Reject(s) \/ ExpireLease(s)
          \/ EmitEvent(s) \/ RunReturns(s) \/ Deliver(s) \/ EndRun(s)
          \/ Renew(s) \/ RenewalFails(s)
          \/ Stop(s) \/ Await(s) \/ WaitEnds(s) \/ Take(s) \/ TakeEnd(s) \/ Sent(s)
          \/ Disconnect(s) \/ Interrupt(s) \/ Abandon(s) \/ Crash(s)
    BY <1>1 DEF StreamNext
  <2> QED BY <2>1, NothingToldInvariant, EmitInvariant, OfferInvariant, TakeInvariant,
             LeaveInvariant, CrashInvariant
<1>2. CASE UNCHANGED streamVars
  <2>1. StreamTypeOK' /\ LostIsOver'
    BY <1>2 DEF StreamInv, StreamTypeOK, LostIsOver, streamVars
  <2>2. ASSUME NEW s \in Streams PROVE Flow(s)'
    <3>1. /\ UNCHANGED <<emitted[s], pending[s], queue[s], sent[s], runOf[s], stage[s]>>
          /\ UNCHANGED detached
      BY <1>2 DEF streamVars
    <3> QED BY <3>1, NothingTold DEF StreamInv
  <2> QED BY <2>1, <2>2 DEF StreamInv
<1> QED BY <1>1, <1>2

(* The invariant of the stream.                                            *)
LEMMA StreamInvariance == StreamSpec => []StreamInv
BY StreamInitInvariant, StreamStepInvariant, PTL DEF StreamSpec

-----------------------------------------------------------------------------
(* Types; the buffer holds no more than its size, and only a stream that   *)
(* has been admitted has a run.                                            *)
THEOREM StreamTypeCorrect == StreamSpec => []StreamTypeOK
<1>1. StreamInv => StreamTypeOK
  BY DEF StreamInv
<1> QED BY <1>1, StreamInvariance, PTL

(* A client that is told less than its run reported misses only the end of *)
(* it: what it has received are the first of the events it may see, in     *)
(* their order and without a gap, and the result only after all of them,   *)
(* whatever the buffer dropped and whenever the stream was detached.       *)
THEOREM NothingIsMissedBefore == StreamSpec => []NoGaps
<1>1. StreamInv => NoGaps
  <2> SUFFICES ASSUME StreamInv, NEW s \in Streams
               PROVE  /\ \A i, j \in DOMAIN sent[s] : i < j => sent[s][i] < sent[s][j]
                      /\ ToSet(sent[s]) \subseteq Visible(s) \cup {Result}
                      /\ \A item \in ToSet(sent[s]), event \in Visible(s) :
                           event < item => event \in ToSet(sent[s])
    BY DEF NoGaps
  <2>1. Ascending(sent[s])
    BY OfStream DEF Flow, InOrder
  <2>2. ToSet(sent[s]) \subseteq Visible(s) \cup {Result}
    BY OfStream, SentIsVisible
  <2>3. ASSUME NEW item \in ToSet(sent[s]), NEW event \in Visible(s), event < item
        PROVE  event \in ToSet(sent[s])
    <3>1. event \in Known(s) /\ ForClient(event)
      BY OfStream, StreamTypes DEF Flow, AsReported, Visible, Known, ToSet
    <3> QED BY <2>3, <3>1, OfStream, SentBefore
  <2> QED BY <2>1, <2>2, <2>3 DEF Ascending
<1> QED BY <1>1, StreamInvariance, PTL

(* A stream that ends by itself has delivered all the events for its       *)
(* client, and the result.                                                 *)
THEOREM EndedIsComplete == StreamSpec => []EndsWithResult
<1>1. StreamInv => EndsWithResult
  BY DEF StreamInv, Flow, CompleteWhenEnded, EndsWithResult
<1> QED BY <1>1, StreamInvariance, PTL

(* A generator that may go on waiting when its run has ended finds the end *)
(* of the stream in its buffer, as the last item.                          *)
THEOREM EndIsQueued == StreamSpec => []EndWillCome
<1>1. StreamInv => EndWillCome
  <2> SUFFICES ASSUME StreamInv, NEW s \in Streams, runOf[s] = "done", stage[s] \in Live,
                      s \in connected \ detached
               PROVE  queue[s] # <<>> /\ Last(queue[s]) = End
    BY DEF EndWillCome
  <2>1. End \in ToSet(queue[s])
    <3>1. End \in Told(s)
      BY OfStream DEF Flow, NothingLost, Attached
    <3>2. End \notin ToSet(sent[s])
      BY OfStream, StreamTypes, ItemNumbers
    <3> QED BY <3>1, <3>2 DEF Told
  <2>2. /\ Len(queue[s]) \in Nat /\ DOMAIN queue[s] = 1 .. Len(queue[s])
        /\ queue[s] \in Seq(Items) /\ Ascending(queue[s])
    BY OfStream DEF Flow, InOrder
  <2>3. PICK i \in 1 .. Len(queue[s]) : queue[s][i] = End
    BY <2>1, <2>2 DEF ToSet
  <2>4. i = Len(queue[s])
    <3>1. Len(queue[s]) \in 1 .. Len(queue[s])
      BY <2>2, <2>3
    <3>2. queue[s][Len(queue[s])] \in Items
      BY <2>2, <3>1
    <3>3. ~ (queue[s][i] < queue[s][Len(queue[s])])
      BY <2>3, <3>2, EventsAssumption DEF Items, Events, Result, End
    <3> QED BY <2>2, <3>1, <3>3 DEF Ascending
  <2> QED BY <2>2, <2>3, <2>4 DEF Last
<1> QED BY <1>1, StreamInvariance, PTL

(* A run is asked to stop only when the lease of its stream is gone.       *)
THEOREM CancelledHasNoLease == StreamSpec => OnlyLostLeaseCancels
<1>1. ASSUME StreamInv, StreamNext, NEW s \in Streams, s \in cancelled' \ cancelled
      PROVE  lease[s] # "held"
  <2>1. PICK r \in Streams :
          \/ Admit(r) \/ Reject(r) \/ ExpireLease(r)
          \/ EmitEvent(r) \/ RunReturns(r) \/ Deliver(r) \/ EndRun(r)
          \/ Renew(r) \/ RenewalFails(r)
          \/ Stop(r) \/ Await(r) \/ WaitEnds(r) \/ Take(r) \/ TakeEnd(r) \/ Sent(r)
          \/ Disconnect(r) \/ Interrupt(r) \/ Abandon(r) \/ Crash(r)
    BY <1>1 DEF StreamNext
  <2>2. CASE Renew(r)
    BY <1>1, <2>2, OfStream DEF Renew, Extended, StreamTypeOK
  <2>3. CASE ~ Renew(r)
    BY <1>1, <2>1, <2>3 DEF Admit, Reject, ExpireLease, EmitEvent, RunReturns, Deliver, EndRun,
       RenewalFails, Stop, Await, WaitEnds, Take, TakeEnd, Sent, Disconnect, Interrupt, Abandon,
       Crash
  <2> QED BY <2>2, <2>3
<1>2. StreamInv /\ [StreamNext]_streamVars =>
        [\A s \in Streams : s \in cancelled' \ cancelled => lease[s] # "held"]_streamVars
  BY <1>1
<1> QED BY <1>2, StreamInvariance, PTL DEF StreamSpec, OnlyLostLeaseCancels
-----------------------------------------------------------------------------
(* The leases in force.  Those that have expired make room before a new    *)
(* one is counted.                                                         *)
Held == {s \in Streams : lease[s] = "held"}

WithinLimit == IsFiniteSet(Held) /\ Cardinality(Held) \in 0 .. Limit

LEMMA LeaseAdded ==
  ASSUME StreamTypeOK, WithinLimit, NEW s \in Streams, Admit(s)
  PROVE  WithinLimit'
<1>1. Cardinality(Held) < Limit
  <2>1. {r \in Streams : Purged[r] = "held"} = Held
    BY DEF Purged, Held
  <2> QED BY <2>1 DEF Admit, HasRoom
<1>2. Held' \subseteq Held \cup {s} /\ Held \cup {s} \subseteq Held'
  BY DEF Admit, Purged, Held, StreamTypeOK
<1>3. Held' = Held \cup {s}
  BY <1>2
<1>4. /\ IsFiniteSet(Held \cup {s})
      /\ Cardinality(Held \cup {s}) \in {Cardinality(Held), Cardinality(Held) + 1}
  BY FS_AddElement DEF WithinLimit
<1>5. Cardinality(Held \cup {s}) \in 0 .. Limit
  BY <1>1, <1>4, LimitsArePositive DEF WithinLimit
<1> QED BY <1>3, <1>4, <1>5 DEF WithinLimit

LEMMA NoLeaseAdded ==
  ASSUME WithinLimit, Held' \subseteq Held
  PROVE  WithinLimit'
<1>1. IsFiniteSet(Held') /\ Cardinality(Held') <= Cardinality(Held)
  BY FS_Subset DEF WithinLimit
<1>2. Cardinality(Held') \in Nat
  BY <1>1, FS_CardinalityType
<1> QED BY <1>1, <1>2, LimitsArePositive DEF WithinLimit

(* However leases expire, are renewed and are released, and whichever      *)
(* process asks, never more of them are in force than the configured       *)
(* number.                                                                 *)
THEOREM LeasesAreLimited == StreamSpec => []AdmittedWithinLimit
<1>1. StreamInit => WithinLimit
  <2>1. StreamInit => Held = {}
    BY DEF StreamInit, Held
  <2> QED BY <2>1, FS_EmptySet, LimitsArePositive DEF WithinLimit
<1>2. StreamInv /\ WithinLimit /\ [StreamNext]_streamVars => WithinLimit'
  <2> SUFFICES ASSUME StreamInv, WithinLimit, [StreamNext]_streamVars
               PROVE  WithinLimit'
    OBVIOUS
  <2>1. CASE \E s \in Streams : Admit(s)
    BY <2>1, LeaseAdded DEF StreamInv
  <2>2. CASE ~ \E s \in Streams : Admit(s)
    <3>1. Held' \subseteq Held
      BY <2>2 DEF StreamNext, streamVars, Held, StreamInv, StreamTypeOK, Reject, ExpireLease,
         EmitEvent, RunReturns, Deliver, EndRun, Renew, RenewalFails, Stop, Await, WaitEnds, Take,
         TakeEnd, Sent, Disconnect, Interrupt, Abandon, Crash, Leave, Released, Extended, Purged
    <3> QED BY <3>1, NoLeaseAdded
  <2> QED BY <2>1, <2>2
<1>3. WithinLimit => AdmittedWithinLimit
  BY LimitsArePositive DEF WithinLimit, Held, AdmittedWithinLimit
<1> QED BY <1>1, <1>2, <1>3, StreamInvariance, PTL DEF StreamSpec
=============================================================================

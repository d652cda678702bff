--------------------------- MODULE ExpirationSweep ---------------------------
(***************************************************************************)
(* The sweep that expires overdue Orders: a bounded number of candidates,  *)
(* each in a session and a transaction of its own, found by a seek cursor  *)
(* that starts anew with every sweep.  The candidate query locks its row   *)
(* and skips the rows other transactions hold.                             *)
(*                                                                         *)
(* Orders are numbered in the order of (expires_at, id), and the deadline  *)
(* of Order i passes when the clock reaches i.  What the payment gate and  *)
(* the reservation checks of OrderLifecycle decide is the verdict on an    *)
(* Order: "allow", "defer" (an active payment attempt) or "broken" (an     *)
(* inconsistent payment or reservation, which nothing repairs).            *)
(***************************************************************************)
EXTENDS Integers, FiniteSets, FiniteSetsExt

CONSTANTS
  LastOrder,     \* Orders 1 .. LastOrder by deadline
  Sweepers,      \* sweeper processes that may run at the same time
  BatchSize,     \* candidates a sweep attempts at most
  MaxBlocked,    \* bound of the model: Orders whose verdict is not "allow"
  MaxUserLocks,  \* bound of the model: transactions of users on Orders
  MaxCrashes     \* bound of the model: crashes of sweepers

ASSUME SweepAssumption ==
  /\ {LastOrder, BatchSize} \subseteq Nat \ {0}
  /\ {MaxBlocked, MaxUserLocks, MaxCrashes} \subseteq Nat
  /\ {"nobody", "user"} \cap Sweepers = {}

VARIABLES
  clock,        \* Orders 1 .. clock are overdue
  open,         \* Orders with status pending_payment
  verdict,      \* what a transaction that closes the Order would find
  holder,       \* who holds the row lock of each Order
  sweeper,      \* state of each sweeper process
  userLocks,    \* transactions of users so far
  crashes,      \* crashes of sweepers so far
  released      \* history: times the reservations of an Order were released

sweepVars == <<clock, open, verdict, holder, sweeper, userLocks, crashes, released>>

-----------------------------------------------------------------------------
OrderNumbers == 1 .. LastOrder
Verdicts == {"allow", "defer", "broken"}
Nobody == "nobody"
User == "user"
Resting == [stage |-> "resting"]

\* A sweep between two candidates, or holding one; the horizon is the clock
\* when it started, and tried is the history of its candidates.
Sweeping == [stage : {"seek", "decide"}, horizon : 0 .. LastOrder,
             cursor : 0 .. LastOrder, attempted : 0 .. BatchSize,
             tried : SUBSET OrderNumbers]

Blocked(v) == {i \in OrderNumbers : v[i] # "allow"}

SweepInit ==
  /\ clock = 0
  /\ open = OrderNumbers
  /\ verdict \in {v \in [OrderNumbers -> Verdicts] : Cardinality(Blocked(v)) <= MaxBlocked}
  /\ holder = [i \in OrderNumbers |-> Nobody]
  /\ sweeper = [w \in Sweepers |-> Resting]
  /\ userLocks = 0 /\ crashes = 0
  /\ released = [i \in OrderNumbers |-> 0]

-----------------------------------------------------------------------------
\* The next deadline passes.
Tick ==
  /\ clock < LastOrder
  /\ clock' = clock + 1
  /\ UNCHANGED <<open, verdict, holder, sweeper, userLocks, crashes, released>>

StartSweep(w) ==
  /\ sweeper[w] = Resting
  /\ sweeper' = [sweeper EXCEPT ![w] =
       [stage |-> "seek", horizon |-> clock, cursor |-> 0, attempted |-> 0, tried |-> {}]]
  /\ UNCHANGED <<clock, open, verdict, holder, userLocks, crashes, released>>

\* Faulty: the query does not use the cursor.
CandidatesFromStart(w) == {i \in open : i <= sweeper[w].horizon /\ holder[i] = Nobody}

\* Faulty: the query does not lock, so it returns rows others work on.
CandidatesUnlocked(w) ==
  {i \in open : i <= sweeper[w].horizon /\ i > sweeper[w].cursor}

\* The rows the candidate query may return to a sweep.
Candidates(w) ==
  {i \in open : /\ i <= sweeper[w].horizon
                /\ i > sweeper[w].cursor
                /\ holder[i] = Nobody}

MaySeek(w) == sweeper[w].stage = "seek" /\ sweeper[w].attempted < BatchSize

\* Lock the first candidate and move the cursor to it.
SelectCandidate(w, i) ==
  /\ MaySeek(w)
  /\ Candidates(w) # {} /\ i = Min(Candidates(w))
  /\ holder' = [holder EXCEPT ![i] = w]
  /\ sweeper' = [sweeper EXCEPT ![w] =
       [stage |-> "decide", horizon |-> @.horizon, cursor |-> i,
        attempted |-> @.attempted + 1, tried |-> @.tried \cup {i}]]
  /\ UNCHANGED <<clock, open, verdict, userLocks, crashes, released>>

\* The sweep ends when its batch is used up or no candidate is left.
EndSweep(w) ==
  /\ sweeper[w].stage = "seek"
  /\ MaySeek(w) => Candidates(w) = {}
  /\ sweeper' = [sweeper EXCEPT ![w] = Resting]
  /\ UNCHANGED <<clock, open, verdict, holder, userLocks, crashes, released>>

\* Close the Order and commit, or roll back when it is deferred or broken.
DecideCandidate(w, i) ==
  /\ sweeper[w].stage = "decide" /\ sweeper[w].cursor = i
  /\ IF verdict[i] = "allow"
     THEN /\ open' = open \ {i}
          /\ released' = [released EXCEPT ![i] = @ + 1]
     ELSE UNCHANGED <<open, released>>
  /\ holder' = [holder EXCEPT ![i] = Nobody]
  /\ sweeper' = [sweeper EXCEPT ![w].stage = "seek"]
  /\ UNCHANGED <<clock, verdict, userLocks, crashes>>

\* The process dies; the database rolls back and gives up its lock.
CrashSweeper(w) ==
  /\ sweeper[w] # Resting
  /\ crashes < MaxCrashes
  /\ crashes' = crashes + 1
  /\ sweeper' = [sweeper EXCEPT ![w] = Resting]
  /\ holder' = [i \in OrderNumbers |-> IF holder[i] = w THEN Nobody ELSE holder[i]]
  /\ UNCHANGED <<clock, open, verdict, userLocks, released>>

\* A user's transaction (Cancel, payment claim, finalization) locks an Order.
UserLocks(i) ==
  /\ i \in open /\ holder[i] = Nobody
  /\ userLocks < MaxUserLocks
  /\ holder' = [holder EXCEPT ![i] = User]
  /\ userLocks' = userLocks + 1
  /\ UNCHANGED <<clock, open, verdict, sweeper, crashes, released>>

\* It ends: the Order is cancelled, a new attempt is claimed before the
\* deadline, the attempt is declined or finalized, or nothing changes.
UserCommits(i) ==
  /\ holder[i] = User
  /\ holder' = [holder EXCEPT ![i] = Nobody]
  /\ \/ /\ verdict[i] = "allow"
        /\ open' = open \ {i}
        /\ released' = [released EXCEPT ![i] = @ + 1]
        /\ UNCHANGED verdict
     \/ /\ verdict[i] = "allow" /\ i > clock
        /\ Cardinality(Blocked(verdict)) < MaxBlocked
        /\ verdict' = [verdict EXCEPT ![i] = "defer"]
        /\ UNCHANGED <<open, released>>
     \/ /\ verdict[i] = "defer"
        /\ verdict' = [verdict EXCEPT ![i] = "allow"]
        /\ UNCHANGED <<open, released>>
     \/ /\ verdict[i] = "defer"
        /\ open' = open \ {i}
        /\ UNCHANGED <<verdict, released>>
     \/ UNCHANGED <<open, verdict, released>>
  /\ UNCHANGED <<clock, sweeper, userLocks, crashes>>

-----------------------------------------------------------------------------
SweepNext ==
  \/ Tick
  \/ \E w \in Sweepers : StartSweep(w)
  \/ \E w \in Sweepers, i \in OrderNumbers : SelectCandidate(w, i)
  \/ \E w \in Sweepers, i \in OrderNumbers : DecideCandidate(w, i)
  \/ \E w \in Sweepers : EndSweep(w)
  \/ \E w \in Sweepers : CrashSweeper(w)
  \/ \E i \in OrderNumbers : UserLocks(i)
  \/ \E i \in OrderNumbers : UserCommits(i)

SweepSpec == SweepInit /\ [][SweepNext]_sweepVars

\* The sweep is run again and again, and a process that works on an Order ends
\* its transaction; so do the users.
FairSpec ==
  /\ SweepSpec
  /\ \A w \in Sweepers :
       /\ WF_sweepVars(StartSweep(w))
       /\ WF_sweepVars(EndSweep(w) \/ \E i \in OrderNumbers : SelectCandidate(w, i))
       /\ WF_sweepVars(\E i \in OrderNumbers : DecideCandidate(w, i))
  /\ \A i \in OrderNumbers : WF_sweepVars(UserCommits(i))

-----------------------------------------------------------------------------
SweepTypeOK ==
  /\ clock \in 0 .. LastOrder
  /\ open \subseteq OrderNumbers
  /\ verdict \in [OrderNumbers -> Verdicts]
  /\ holder \in [OrderNumbers -> Sweepers \cup {Nobody, User}]
  /\ sweeper \in [Sweepers -> Sweeping \cup {Resting}]
  /\ userLocks \in 0 .. MaxUserLocks /\ crashes \in 0 .. MaxCrashes
  /\ released \in [OrderNumbers -> Nat]

\* Sweepers and users never release the reservations of an Order twice, and a
\* sweeper that holds an Order finds it still open.
ReleasedOnce ==
  /\ \A i \in OrderNumbers : released[i] <= (IF i \in open THEN 0 ELSE 1)
  /\ \A w \in Sweepers : sweeper[w].stage = "decide" => sweeper[w].cursor \in open

\* A sweep attempts each Order at most once, whatever became of it.
AttemptedOncePerSweep ==
  \A w \in Sweepers : sweeper[w] # Resting =>
    sweeper[w].attempted = Cardinality(sweeper[w].tried)

\* An overdue Order that may be closed gets closed, although Orders before it
\* are deferred or broken and are selected again by every sweep.
ClosableOrdersClose ==
  \A i \in OrderNumbers :
    (i \in open /\ i <= clock /\ verdict[i] = "allow") ~> i \notin open
=============================================================================

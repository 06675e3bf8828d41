----------------------------- MODULE Timeshare -----------------------------
(***************************************************************************)
(* The scheduler of --timeshare (struct timeshare in                       *)
(* src/tools/qwfn_server.cpp) and the holds on the engine that use it.     *)
(* Every request is a thread.  One of them runs at a time; the others wait *)
(* in wait_turn() for pick() to name them.                                 *)
(*                                                                         *)
(* Clocks are ages: slice is the time since slice_start, due the time      *)
(* since charged_at, linger.left the time to linger_until.  Tick advances  *)
(* them all.  A session's usage is kept in ticks; Decay is the half-life:  *)
(* it scales all sessions alike, so it keeps their order (see Decayed).    *)
(***************************************************************************)
EXTENDS Integers, FiniteSets, Sequences, SequencesExt

CONSTANTS
    Request,     \* the clients' connections: each has one request at a time
    None,        \* no request, no session
    SessionOf,   \* SessionOf[r]: session_key of r's requests
    MaxOpen,     \* max_open
    Quantum,     \* quantum, in ticks
    Linger,      \* linger, in ticks
    MaxUsage,    \* bound: the clock stops for the decay when a session's usage reaches it
    ShortTurns,  \* may a turn end before its first yield point?
    MayRefuse    \* may ts_park() fail to checkpoint?

Session == {SessionOf[r] : r \in Request}

ASSUME Requests == IsFiniteSet(Request) /\ None \notin Request \cup Session
ASSUME Slots == MaxOpen \in Nat \ {0}
ASSUME Times == /\ Quantum \in Nat \ {0} /\ Linger \in Nat
                /\ MaxUsage \in Nat /\ MaxUsage > Quantum + Cardinality(Session)
ASSUME Switches == ShortTurns \in BOOLEAN /\ MayRefuse \in BOOLEAN

VARIABLES
    pc,        \* where each request's thread is
    arrived,   \* open tickets in the order of their arrival times
    waiting,   \* waiting: open, not running
    running,   \* running
    n_open,    \* n_open
    parked,    \* tickets that ran and yielded: their waits have an idle call
    alarm,     \* alarm[r]: the deadline r's wait_until sleeps for
    slice,     \* age of slice_start, up to Quantum
    due,       \* age of charged_at
    linger,    \* linger_until, linger_session and the age of linger_slice
    usage,     \* usage[s], decayed to now
    deserving, \* the waiters should_yield() saw ahead of the running request
    yielded    \* has the running turn passed a yield point?

vars == <<pc, arrived, waiting, running, n_open, parked, alarm, slice, due, linger, usage,
          deserving, yielded>>

NoLinger == [left |-> 0, session |-> None, slice |-> 0]

\* The types; n_open never passes max_open.
TypeOK ==
    /\ pc \in [Request -> {"out", "admitted", "awake", "asleep", "idle", "run", "yield"}]
    /\ arrived \in Seq(Request)
    /\ waiting \subseteq Request
    /\ running \in Request \cup {None}
    /\ n_open \in 0 .. MaxOpen
    /\ parked \subseteq Request
    /\ alarm \in [Request -> {"keepalive", "linger"}]
    /\ slice \in 0 .. Quantum
    /\ due \in Nat
    /\ linger \in [left : 0 .. Linger, session : Session \cup {None}, slice : 0 .. Quantum]
    /\ usage \in [Session -> Nat]
    /\ deserving \subseteq Request
    /\ yielded \in BOOLEAN

Init ==
    /\ pc = [r \in Request |-> "out"]
    /\ arrived = <<>>
    /\ waiting = {}
    /\ running = None
    /\ n_open = 0
    /\ parked = {}
    /\ alarm = [r \in Request |-> "keepalive"]
    /\ slice = 0
    /\ due = 0
    /\ linger = NoLinger
    /\ usage = [s \in Session |-> 0]
    /\ deserving = {}
    /\ yielded = FALSE

-----------------------------------------------------------------------------
Arrival(r) == CHOOSE i \in DOMAIN arrived : arrived[i] = r

\* Least usage first, the earlier arrival on a tie: the rule of pick() and should_yield().
Before(r, q, u) ==
    \/ u[SessionOf[r]] < u[SessionOf[q]]
    \/ u[SessionOf[r]] = u[SessionOf[q]] /\ Arrival(r) < Arrival(q)

\* In a linger only the finished request's session may go, earliest first.
Eligible ==
    IF linger.left > 0 THEN {r \in waiting : SessionOf[r] = linger.session} ELSE waiting

Pick ==
    IF running # None \/ Eligible = {} THEN None
    ELSE CHOOSE r \in Eligible : \A q \in Eligible \ {r} : Before(r, q, usage)

\* charge(): the engine time since the last charge, on the running request's session.
Charged(r) == [usage EXCEPT ![SessionOf[r]] = @ + due]

MutWoken(p) == p

\* cv.notify_all(): every waiter inside wait_until looks at pick() again.
Woken(p) == [r \in Request |-> IF p[r] = "asleep" THEN "awake" ELSE p[r]]

MutLeave(r) ==
    /\ arrived' = RemoveAt(arrived, Arrival(r))
    /\ parked' = parked \ {r}
    /\ n_open' = IF r \in parked THEN n_open ELSE n_open - 1
    /\ deserving' = deserving \ {r}

\* The ticket leaves: its slot is free and nobody counts its arrival any more.
Leave(r) ==
    /\ arrived' = RemoveAt(arrived, Arrival(r))
    /\ parked' = parked \ {r}
    /\ n_open' = n_open - 1
    /\ deserving' = deserving \ {r}

-----------------------------------------------------------------------------
\* hold_engine(): a place, or 503 when max_open tickets are open.
Admit(r) ==
    /\ pc[r] = "out" /\ n_open < MaxOpen
    /\ pc' = [pc EXCEPT ![r] = "admitted"]
    /\ arrived' = Append(arrived, r)
    /\ n_open' = n_open + 1
    /\ UNCHANGED <<waiting, running, parked, alarm, slice, due, linger, usage, deserving, yielded>>

\* engine_hold::lock(), acquire(): into wait_turn() for the first time, with no idle call.
Acquire(r) ==
    /\ pc[r] = "admitted"
    /\ pc' = [pc EXCEPT ![r] = "awake"]
    /\ waiting' = waiting \cup {r}
    /\ UNCHANGED <<arrived, running, n_open, parked, alarm, slice, due, linger, usage, deserving,
                   yielded>>

\* The deadline of wait_until: the end of the linger when one is on, else the next idle call.
Alarm == IF linger.left > 0 THEN "linger" ELSE "keepalive"

\* wait_turn(): not this request's turn.
Sleep(r) ==
    /\ pc[r] = "awake" /\ Pick # r
    /\ pc' = [pc EXCEPT ![r] = "asleep"]
    /\ alarm' = [alarm EXCEPT ![r] = Alarm]
    /\ UNCHANGED <<arrived, waiting, running, n_open, parked, slice, due, linger, usage, deserving,
                   yielded>>

\* The end of the linger this request slept for.
LingerEnds(r) ==
    /\ pc[r] = "asleep" /\ alarm[r] = "linger" /\ linger.left = 0
    /\ pc' = [pc EXCEPT ![r] = "awake"]
    /\ UNCHANGED <<arrived, waiting, running, n_open, parked, alarm, slice, due, linger, usage,
                   deserving, yielded>>

\* idle_every is up.  A parked request unlocks and calls idle(); a first-turn waiter has none.
IdleDue(r) ==
    /\ pc[r] = "asleep"
    /\ pc' = [pc EXCEPT ![r] = IF r \in parked THEN "idle" ELSE "awake"]
    /\ UNCHANGED <<arrived, waiting, running, n_open, parked, alarm, slice, due, linger, usage,
                   deserving, yielded>>

\* idle() says the client is still there, or it is gone but the turn has come meanwhile.
IdleKeeps(r) ==
    /\ pc[r] = "idle"
    /\ pc' = [pc EXCEPT ![r] = "awake"]
    /\ UNCHANGED <<arrived, waiting, running, n_open, parked, alarm, slice, due, linger, usage,
                   deserving, yielded>>

MayAbandon(r) == Pick # r

\* idle() says the client is gone: the request leaves at once and its release() does nothing.
Abandon(r) ==
    /\ pc[r] = "idle" /\ MayAbandon(r)
    /\ pc' = Woken([pc EXCEPT ![r] = "out"])
    /\ waiting' = waiting \ {r}
    /\ Leave(r)
    /\ UNCHANGED <<running, alarm, slice, due, linger, usage, yielded>>

MutSliceOnTake(r) == 0

\* A turn taken in its session's linger continues that session's quantum.
SliceOnTake(r) ==
    IF linger.left > 0 /\ linger.session = SessionOf[r] THEN linger.slice ELSE 0

\* wait_turn(): the turn has come.
Take(r) ==
    /\ pc[r] = "awake" /\ Pick = r
    /\ pc' = [pc EXCEPT ![r] = "run"]
    /\ waiting' = waiting \ {r}
    /\ running' = r
    /\ parked' = parked \ {r}
    /\ slice' = SliceOnTake(r)
    /\ due' = 0
    /\ linger' = NoLinger
    /\ yielded' = FALSE
    /\ UNCHANGED <<arrived, n_open, alarm, usage, deserving>>

MutAhead(r, u) == waiting

\* The waiters pick() would put before r once r has parked.
Ahead(r, u) == {w \in waiting : Before(w, r, u)}

\* A yield point of generate(): should_yield() with the quantum not up.
YieldEarly(r) ==
    /\ pc[r] = "run" /\ slice < Quantum
    /\ yielded' = TRUE
    /\ UNCHANGED <<pc, arrived, waiting, running, n_open, parked, alarm, slice, due, linger, usage,
                   deserving>>

\* should_yield() with the quantum up: to a waiter ahead of it, else a fresh quantum.
YieldPoint(r) ==
    /\ pc[r] = "run" /\ slice = Quantum
    /\ usage' = Charged(r)
    /\ due' = 0
    /\ yielded' = TRUE
    /\ deserving' = Ahead(r, Charged(r))
    /\ pc' = [pc EXCEPT ![r] = IF Ahead(r, Charged(r)) = {} THEN "run" ELSE "yield"]
    /\ slice' = IF Ahead(r, Charged(r)) = {} THEN 0 ELSE slice
    /\ UNCHANGED <<arrived, waiting, running, n_open, parked, alarm, linger>>

\* ts_park() could not checkpoint: refused(), a fresh quantum.
Refused(r) ==
    /\ pc[r] = "yield" /\ MayRefuse
    /\ pc' = [pc EXCEPT ![r] = "run"]
    /\ slice' = 0
    /\ deserving' = {}
    /\ UNCHANGED <<arrived, waiting, running, n_open, parked, alarm, due, linger, usage, yielded>>

\* park(): charge, give the engine up and wait again, with an idle call.
Park(r) ==
    /\ pc[r] = "yield"
    /\ pc' = Woken([pc EXCEPT ![r] = "awake"])
    /\ usage' = Charged(r)
    /\ due' = 0
    /\ parked' = parked \cup {r}
    /\ running' = None
    /\ waiting' = waiting \cup {r}
    /\ deserving' = {}
    /\ UNCHANGED <<arrived, n_open, alarm, slice, linger, yielded>>

\* What release() leaves for the session's next turn.
LingerOf(r) == [left |-> Linger, session |-> SessionOf[r], slice |-> slice]

\* The request is answered: engine_hold::unlock(), release().
Release(r) ==
    /\ pc[r] = "run" /\ due > 0
    /\ ShortTurns \/ yielded
    /\ pc' = Woken([pc EXCEPT ![r] = "out"])
    /\ running' = None
    /\ usage' = Charged(r)
    /\ due' = 0
    /\ linger' = LingerOf(r)
    /\ Leave(r)
    /\ UNCHANGED <<waiting, alarm, slice, yielded>>

-----------------------------------------------------------------------------
Aged(n) == IF n < Quantum THEN n + 1 ELSE Quantum

\* Time passes.
Tick ==
    /\ running # None \/ linger.left > 0
    /\ \A s \in Session : usage[s] + due < MaxUsage
    /\ slice' = IF running # None THEN Aged(slice) ELSE slice
    /\ due' = IF running # None THEN due + 1 ELSE due
    /\ linger' = IF linger.left > 0
                 THEN [linger EXCEPT !.left = @ - 1, !.slice = Aged(@)] ELSE linger
    /\ UNCHANGED <<pc, arrived, waiting, running, n_open, parked, alarm, usage, deserving, yielded>>

\* A long stretch of decay: the order of the usages is all that is left of them.
Decayed ==
    [s \in Session |-> Cardinality({usage[q] : q \in {p \in Session : usage[p] <= usage[s]}} \ {0})]

Decay ==
    /\ usage # Decayed
    /\ usage' = Decayed
    /\ UNCHANGED <<pc, arrived, waiting, running, n_open, parked, alarm, slice, due, linger,
                   deserving, yielded>>

Thread(r) ==
    \/ Acquire(r) \/ Sleep(r) \/ LingerEnds(r) \/ IdleDue(r) \/ IdleKeeps(r) \/ Take(r)
    \/ YieldPoint(r) \/ Refused(r) \/ Park(r)

Next ==
    \/ \E r \in Request : Admit(r) \/ Thread(r) \/ YieldEarly(r) \/ Abandon(r) \/ Release(r)
    \/ Tick \/ Decay

Spec == Init /\ [][Next]_vars

(***************************************************************************)
(* Threads that can run do, the clock advances, usage decays, and a reply  *)
(* ends: it has a token budget, so a request given the engine again and    *)
(* again completes.                                                        *)
(***************************************************************************)
Fairness ==
    /\ \A r \in Request : WF_vars(Thread(r)) /\ WF_vars(YieldEarly(r)) /\ SF_vars(Release(r))
    /\ WF_vars(Tick) /\ WF_vars(Decay)

LiveSpec == Spec /\ Fairness

-----------------------------------------------------------------------------
\* Every open slot is a live ticket that waits or runs, and no request waits and runs: a request
\* that is abandoned, parks or ends, in any order, gives its slot back once.
SlotsExact ==
    /\ TypeOK
    /\ n_open = Cardinality({r \in Request : pc[r] # "out"})
    /\ n_open = Len(arrived) /\ IsInjective(arrived)
    /\ waiting = {r \in Request : pc[r] \in {"awake", "asleep", "idle"}}
    /\ {r \in Request : pc[r] \in {"run", "yield"}} = {running} \ {None}
    /\ parked \subseteq waiting

\* The request whose turn it is never sleeps on to its keepalive: the events that make it so
\* (park, release, abandon, the end of a linger) have woken it.
TurnIsAwake ==
    \A r \in waiting : Pick = r /\ pc[r] = "asleep" => alarm[r] = "linger" /\ linger.left = 0

\* A request that parks is not picked again at once, unless those it parked for have left: the
\* checkpoint would be for nothing.
ParkHandsOver ==
    [][\A r \in Request : Park(r) /\ deserving \cap waiting # {} => Pick' # r]_vars

\* Every waiting request gets the engine or leaves: least usage first does not starve one, and a
\* session whose turns follow one another in its linger yields after a quantum.
EveryWaiterRuns == \A r \in Request : r \in waiting ~> r \notin waiting
=============================================================================

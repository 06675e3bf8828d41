----------------------------- MODULE IoEngine -----------------------------
(***************************************************************************)
(* The threads backend of io_engine (src/src/qwfn_io.cpp): one host thread *)
(* that calls submit(), reap() and shutdown(), and a pool of workers doing *)
(* blocking reads.  They share a job queue q_, a completion queue done_    *)
(* and the counter in_flight_ under one mutex, and sleep on two condition  *)
(* variables.                                                              *)
(*                                                                         *)
(* An action is one critical section of mtx_, one blocking read, or one    *)
(* notify_all().  The code notifies after it has released the mutex, so a  *)
(* notification is a step of its own and can be overtaken by any other     *)
(* thread.  A thread "asleep" is inside condition_variable::wait; a        *)
(* notification sends it back to re-evaluate its predicate.                *)
(***************************************************************************)
EXTENDS Integers, Sequences, FiniteSets, SequencesExt

CONSTANTS
    Req,        \* requests, named by the tag the caller chose
    NoReq,      \* a worker without a job
    Bad,        \* those submit() rejects: bad shard, null dst or zero length
    Worker,     \* the pool: min(queue_depth, 32) threads
    MaxTags,    \* values callers pass as max_tags
    MinComplete \* values callers pass as min_complete

ASSUME ReqFinite == IsFiniteSet(Req) /\ NoReq \notin Req
ASSUME BadRejected == Bad \subseteq Req
ASSUME WorkerPool == IsFiniteSet(Worker) /\ Worker # {}
ASSUME ReapArguments == MaxTags \subseteq Nat \ {0} /\ MinComplete \subseteq Nat

VARIABLES
    q,          \* q_: jobs no worker has taken yet
    done,       \* done_: tags completed and not yet reaped
    in_flight,  \* in_flight_: accepted reads not yet completed
    stop,       \* stop_
    job,        \* job[w]: the job worker w is reading
    wpc,        \* wpc[w]: where worker w is in worker_loop()
    hpc,        \* where the host thread is
    notify,     \* condition variables the host still has to notify
    call,       \* the reap() in progress: its arguments and the tags it has
    errors,     \* tags whose read failed (they count in stat_errors)
    out         \* the caller's view: requests submitted and not yet returned

vars == <<q, done, in_flight, stop, job, wpc, hpc, notify, call, errors, out>>

Idle == [max |-> 0, min |-> 0, got |-> <<>>]

Batches(S) == {s \in SeqOf(S, Cardinality(S)) : IsInjective(s)}

\* The types of io_engine's members and of the threads' places: the queue holds only requests
\* submit() accepts, and in_flight_ never goes below zero.
TypeOK ==
    /\ q \in Seq(Req \ Bad)
    /\ done \in Seq(Req)
    /\ in_flight \in Nat
    /\ stop \in BOOLEAN
    /\ job \in [Worker -> Req \cup {NoReq}]
    /\ wpc \in [Worker -> {"run", "asleep", "read", "notify", "exited"}]
    /\ hpc \in {"user", "notify", "reap", "asleep", "stopping", "joining", "down"}
    /\ notify \subseteq {"work", "done"}
    /\ call \in [max : Nat, min : Nat, got : Seq(Req)]
    /\ errors \subseteq Req
    /\ out \subseteq Req

Init ==
    /\ q = <<>> /\ done = <<>> /\ in_flight = 0
    /\ stop = FALSE
    /\ job = [w \in Worker |-> NoReq]
    /\ wpc = [w \in Worker |-> "run"]
    /\ hpc = "user" /\ notify = {} /\ call = Idle
    /\ errors = {} /\ out = {}

-----------------------------------------------------------------------------
(* The host thread.                                                        *)

\* Mutant: submit() counts the rejected ones too.
MutCountedAll(good, bad) == Len(good) + Len(bad)

\* Only what a worker will take counts in in_flight_.
Counted(good, bad) == Len(good)

\* submit() under the mutex.  Good requests go to q_ in order and count in
\* in_flight_; rejected ones go straight to done_ and do not.  The two queues
\* are disjoint, so only the order inside each kind is visible.
Submit(good, bad) ==
    /\ hpc = "user"
    /\ Len(good) + Len(bad) > 0
    /\ \A i \in 1..Len(good) : good[i] \notin out
    /\ \A i \in 1..Len(bad) : bad[i] \notin out
    /\ q' = q \o good
    /\ done' = done \o bad
    /\ in_flight' = in_flight + Counted(good, bad)
    /\ out' = out \cup ToSet(good) \cup ToSet(bad)
    /\ errors' = (errors \ ToSet(good)) \cup ToSet(bad)
    /\ notify' = (IF good # <<>> THEN {"work"} ELSE {})
                   \cup (IF bad # <<>> THEN {"done"} ELSE {})
    /\ hpc' = "notify"
    /\ UNCHANGED <<stop, job, wpc, call>>

\* cv_work_.notify_all() and cv_done_.notify_all() at the end of submit().
\* Only the host ever waits on cv_done_, and it is here, so the second one
\* wakes nobody.
SubmitNotify ==
    /\ hpc = "notify"
    /\ wpc' = [w \in Worker |->
                 IF wpc[w] = "asleep" /\ "work" \in notify THEN "run" ELSE wpc[w]]
    /\ notify' = {}
    /\ hpc' = "user"
    /\ UNCHANGED <<q, done, in_flight, stop, job, call, errors, out>>

\* The host calls reap(tags, max_tags, min_complete).
ReapCall(max, min) ==
    /\ hpc = "user"
    /\ call' = [max |-> max, min |-> min, got |-> <<>>]
    /\ hpc' = "reap"
    /\ UNCHANGED <<q, done, in_flight, stop, job, wpc, notify, errors, out>>

\* What one pass of reap()'s loop can pop before done_ runs dry.
Popped == SubSeq(done, 1, IF Len(done) <= call.max - Len(call.got)
                          THEN Len(done) ELSE call.max - Len(call.got))

\* Mutants: the loop waits although nothing is in flight; it never waits.
MutReapEndsFull(got) == Len(got) >= call.max \/ Len(got) >= call.min
MutReapEndsNow(got) == TRUE

\* The loop stops: max_tags reached, or done_ is empty and either enough tags
\* arrived or nothing is in flight.
ReapEnds(got) ==
    \/ Len(got) >= call.max
    \/ Len(got) >= call.min
    \/ in_flight = 0

\* Mutant: what max_tags leaves in done_ is dropped.
MutReapStep ==
    /\ hpc = "reap"
    /\ LET got == call.got \o Popped
       IN  /\ done' = <<>>
           /\ IF ReapEnds(got)
              THEN call' = [Idle EXCEPT !.got = got] /\ out' = out \ ToSet(got) /\ hpc' = "user"
              ELSE call' = [call EXCEPT !.got = got] /\ out' = out /\ hpc' = "asleep"
    /\ UNCHANGED <<q, in_flight, stop, job, wpc, notify, errors>>

\* reap() holding the mutex, from entry or from a wake-up, up to its return or
\* to cv_done_.wait().  The wait's predicate is the negation of what sends it
\* to sleep here, so re-evaluating it is the same step.
ReapStep ==
    /\ hpc = "reap"
    /\ LET got == call.got \o Popped
       IN  /\ done' = SubSeq(done, Len(Popped) + 1, Len(done))
           /\ IF ReapEnds(got)
              THEN /\ call' = [Idle EXCEPT !.got = got]
                   /\ out' = out \ ToSet(got)
                   /\ hpc' = "user"
              ELSE /\ call' = [call EXCEPT !.got = got]
                   /\ out' = out
                   /\ hpc' = "asleep"
    /\ UNCHANGED <<q, in_flight, stop, job, wpc, notify, errors>>

\* shutdown(): stop_ = true under the mutex.
Shutdown ==
    /\ hpc = "user"
    /\ stop' = TRUE
    /\ hpc' = "stopping"
    /\ UNCHANGED <<q, done, in_flight, job, wpc, notify, call, errors, out>>

\* Mutant: shutdown() wakes nobody.
MutShutdownNotify ==
    /\ hpc = "stopping"
    /\ hpc' = "joining"
    /\ UNCHANGED <<q, done, in_flight, stop, job, wpc, notify, call, errors, out>>

\* cv_work_.notify_all() of shutdown().
ShutdownNotify ==
    /\ hpc = "stopping"
    /\ wpc' = [w \in Worker |-> IF wpc[w] = "asleep" THEN "run" ELSE wpc[w]]
    /\ hpc' = "joining"
    /\ UNCHANGED <<q, done, in_flight, stop, job, notify, call, errors, out>>

\* Mutant: the pool is not joined.
MutShutdownJoin ==
    /\ hpc = "joining"
    /\ q' = <<>> /\ done' = <<>> /\ in_flight' = 0
    /\ stop' = FALSE
    /\ call' = Idle /\ errors' = {} /\ out' = {}
    /\ hpc' = "down"
    /\ UNCHANGED <<job, wpc, notify>>

\* Every worker joined: the queues and the counter are cleared.
ShutdownJoin ==
    /\ hpc = "joining"
    /\ \A w \in Worker : wpc[w] = "exited"
    /\ q' = <<>> /\ done' = <<>> /\ in_flight' = 0
    /\ stop' = FALSE
    /\ call' = Idle /\ errors' = {} /\ out' = {}
    /\ hpc' = "down"
    /\ UNCHANGED <<job, wpc, notify>>

\* init() again: the pool is started anew.
Restart ==
    /\ hpc = "down"
    /\ wpc' = [w \in Worker |-> "run"]
    /\ hpc' = "user"
    /\ UNCHANGED <<q, done, in_flight, stop, job, notify, call, errors, out>>

-----------------------------------------------------------------------------
(* The workers.                                                            *)

\* Top of worker_loop(): take a job, sleep on cv_work_, or leave.  A worker
\* leaves only when q_ is empty, so stop_ does not abandon queued jobs.
WorkerTake(w) ==
    /\ wpc[w] = "run"
    /\ IF q # <<>>
       THEN /\ job' = [job EXCEPT ![w] = Head(q)]
            /\ q' = Tail(q)
            /\ wpc' = [wpc EXCEPT ![w] = "read"]
       ELSE /\ wpc' = [wpc EXCEPT ![w] = IF stop THEN "exited" ELSE "asleep"]
            /\ UNCHANGED <<q, job>>
    /\ UNCHANGED <<done, in_flight, stop, hpc, notify, call, errors, out>>

\* The blocking read ends, in full or not, and its completion is recorded
\* under the mutex.  A failed read completes like any other: only stat_errors
\* tells them apart.
WorkerComplete(w, ok) ==
    /\ wpc[w] = "read"
    /\ done' = Append(done, job[w])
    /\ in_flight' = in_flight - 1
    /\ errors' = IF ok THEN errors ELSE errors \cup {job[w]}
    /\ job' = [job EXCEPT ![w] = NoReq]
    /\ wpc' = [wpc EXCEPT ![w] = "notify"]
    /\ UNCHANGED <<q, stop, hpc, notify, call, out>>

\* Mutant: a completion is not announced.
MutWorkerNotify(w) ==
    /\ wpc[w] = "notify"
    /\ wpc' = [wpc EXCEPT ![w] = "run"]
    /\ UNCHANGED <<q, done, in_flight, stop, job, hpc, notify, call, errors, out>>

\* cv_done_.notify_all(), after the mutex is released.
WorkerNotify(w) ==
    /\ wpc[w] = "notify"
    /\ wpc' = [wpc EXCEPT ![w] = "run"]
    /\ hpc' = IF hpc = "asleep" THEN "reap" ELSE hpc
    /\ UNCHANGED <<q, done, in_flight, stop, job, notify, call, errors, out>>

-----------------------------------------------------------------------------
SubmitAny == \E good \in Batches(Req \ Bad), bad \in Batches(Bad) : Submit(good, bad)
ReapAny == \E max \in MaxTags, min \in MinComplete : ReapCall(max, min)
CompleteAny(w) == \E ok \in BOOLEAN : WorkerComplete(w, ok)

Next ==
    \/ SubmitAny
    \/ SubmitNotify
    \/ ReapAny
    \/ ReapStep
    \/ Shutdown
    \/ ShutdownNotify
    \/ ShutdownJoin
    \/ Restart
    \/ \E w \in Worker : WorkerTake(w) \/ CompleteAny(w) \/ WorkerNotify(w)

\* A blocking read returns, and the scheduler runs a thread that can run.
Fairness ==
    /\ WF_vars(SubmitNotify) /\ WF_vars(ReapStep)
    /\ WF_vars(ShutdownNotify) /\ WF_vars(ShutdownJoin)
    /\ \A w \in Worker : WF_vars(WorkerTake(w) \/ CompleteAny(w) \/ WorkerNotify(w))

Spec == Init /\ [][Next]_vars
FairSpec == Spec /\ Fairness

-----------------------------------------------------------------------------
(* Properties.                                                             *)

Reading == {w \in Worker : wpc[w] = "read"}

\* in_flight_ counts exactly the accepted reads that have not completed.  The
\* rejected ones must stay out of it: no worker would ever take them off, and
\* every loop on in_flight() would wait for good.
InFlightExact == in_flight = Len(q) + Cardinality(Reading)

\* Every request the caller still waits for is in exactly one place, once:
\* queued, being read, completed, or handed to the reap() in progress.
\* Callers count completions, so a lost or doubled tag shifts every later one.
Places(r) ==
    Cardinality({i \in 1..Len(q) : q[i] = r})
      + Cardinality({w \in Worker : job[w] = r})
      + Cardinality({i \in 1..Len(done) : done[i] = r})
      + IF hpc \in {"reap", "asleep"}
        THEN Cardinality({i \in 1..Len(call.got) : call.got[i] = r}) ELSE 0

OneCompletionEach == \A r \in Req : Places(r) = IF r \in out THEN 1 ELSE 0

\* A reap() that returns fewer tags than min_complete has left nothing behind:
\* no completion waits and no read is in flight, so the caller that reports a
\* failed read never abandons a buffer a worker may still write.
ShortReap ==
    (hpc = "reap" /\ hpc' = "user" /\ Len(call'.got) < call.min /\ Len(call'.got) < call.max)
      => (q = <<>> /\ Reading = {} /\ done' = <<>>)
ShortReapMeansDrained == [][ShortReap]_vars

\* Once shutdown() has joined the pool no worker touches a destination buffer.
NoReadAfterShutdown == hpc = "down" => (Reading = {} /\ q = <<>> /\ in_flight = 0)

\* No wake-up is lost: a reap() asleep on cv_done_ always has a worker that
\* will still notify it.
SleeperHasWaker ==
    hpc = "asleep" => \E w \in Worker : wpc[w] \in {"run", "read", "notify"}

\* reap() returns however the workers interleave with it: no completion or wake-up it sleeps for
\* is lost.
ReapReturns == hpc \in {"reap", "asleep"} ~> hpc = "user"

\* shutdown() ends: every worker sees stop_, drains the queue and can be joined.
ShutdownEnds == hpc \in {"stopping", "joining"} ~> hpc = "down"
=============================================================================

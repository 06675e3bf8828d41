----------------------------- MODULE IoBackends -----------------------------
(***************************************************************************)
(* io_engine as its callers have it: init() decides once which backend     *)
(* serves submit() and reap(), io_uring where the build and the kernel     *)
(* have it, the thread pool otherwise.  IoEngine is the pool; IoUring, over *)
(* variables of its own, is the ring.                                      *)
(***************************************************************************)
EXTENDS IoEngine

CONSTANTS
    RingReq,      \* the requests of a run on io_uring
    QueueDepth

ASSUME RingConstants == IsFiniteSet(RingReq) /\ QueueDepth \in Nat \ {0}

VARIABLES backend, sq, kernel, cq, rejected, r_in_flight, r_hpc, r_call, todo, r_out

Uring == INSTANCE IoUring WITH Req <- RingReq, in_flight <- r_in_flight, hpc <- r_hpc,
                               call <- r_call, out <- r_out

ring == <<sq, kernel, cq, rejected, r_in_flight, r_hpc, r_call, todo, r_out>>
allvars == <<vars, ring, backend>>

\* cfg.kind after init(): "the ring cannot be set up" leaves the pool.
InitBackend == backend \in {"threads", "io_uring"} /\ Init /\ Uring!Init

Threads(A) == backend = "threads" /\ A /\ UNCHANGED <<ring, backend>>

NextBackend ==
    \/ Threads(Next)
    \/ backend = "io_uring" /\ Uring!Next /\ UNCHANGED <<vars, backend>>

FairBackend ==
    /\ WF_allvars(Threads(SubmitNotify)) /\ WF_allvars(Threads(ReapStep))
    /\ WF_allvars(Threads(ShutdownNotify)) /\ WF_allvars(Threads(ShutdownJoin))
    /\ \A w \in Worker : WF_allvars(Threads(WorkerTake(w) \/ CompleteAny(w) \/ WorkerNotify(w)))

BackendSpec == InitBackend /\ [][NextBackend]_allvars /\ FairBackend

-----------------------------------------------------------------------------
\* On the ring, every accepted request comes back once, also when submit() stopped at a full ring
\* and the caller resubmits from the first request not accepted.
RingOneCompletionEach == Uring!OneCompletionEach

\* reap() blocks in io_uring_wait_cqe() for a completion that cannot arrive ("a short submit would
\* park entries the kernel never saw") only where its own flush was taken in part, and then not
\* before it has collected a read: a reap() for one completion always has one to wait for.
RingStuckOnRemainder == Uring!StuckOnRemainder
=============================================================================

------------------------------ MODULE IoUring ------------------------------
(***************************************************************************)
(* The io_uring backend of io_engine (src/src/qwfn_io.cpp).  The host      *)
(* thread prepares entries in the submission ring, io_uring_submit() hands *)
(* a prefix of them to the kernel, and the kernel posts completions in any *)
(* order.  Everything is single-threaded but the kernel; what is hard is   *)
(* that io_uring_submit() may take fewer entries than the ring holds, or   *)
(* none, and that the host may then wait for a completion.                 *)
(***************************************************************************)
EXTENDS Integers, Sequences, FiniteSets, SequencesExt

CONSTANTS
    Req,          \* requests, named by their tag
    Bad,          \* those submit() rejects
    QueueDepth,   \* qd_: entries of the submission ring
    MaxTags,      \* values callers pass as max_tags
    MinComplete   \* values callers pass as min_complete

VARIABLES
    sq,         \* prepared entries the kernel has not taken
    kernel,     \* reads the kernel is executing
    cq,         \* completions posted and not seen
    rejected,   \* rejected_: completed at submit time as errors
    in_flight,  \* in_flight_
    hpc,        \* where the host is
    call,       \* the reap() in progress
    todo,       \* the rest of the batch the caller is submitting
    out         \* the caller's view: accepted and not yet returned

vars == <<sq, kernel, cq, rejected, in_flight, hpc, call, todo, out>>

Idle == [max |-> 0, min |-> 0, got |-> <<>>]

Init ==
    /\ sq = <<>> /\ kernel = {} /\ cq = <<>> /\ rejected = <<>>
    /\ in_flight = 0
    /\ hpc = "user" /\ call = Idle
    /\ todo = <<>> /\ out = {}

Least(a, b) == IF a <= b THEN a ELSE b

\* Mutant: an entry the kernel did not take is lost.
MutLeft(ring, k) == <<>>

\* io_uring_submit(): the kernel takes the first k entries of the ring.
Taken(ring, k) == ToSet(SubSeq(ring, 1, k))
Left(ring, k) == SubSeq(ring, k + 1, Len(ring))

\* The caller has a batch to read.
Batch(s) ==
    /\ hpc = "user" /\ todo = <<>>
    /\ ToSet(s) \cap out = {}
    /\ todo' = s
    /\ UNCHANGED <<sq, kernel, cq, rejected, in_flight, hpc, call, out>>

\* The requests of s in S, in their order.
Those(s, S) ==
    LET f[n \in 0..Len(s)] ==
            IF n = 0 THEN <<>> ELSE IF s[n] \in S THEN Append(f[n - 1], s[n]) ELSE f[n - 1]
    IN f[Len(s)]

\* This submit() accepts n requests of the batch: it stops at the first good one that
\* finds the ring full; rejected ones need no entry.
Accepts(n) ==
    LET good == Those(SubSeq(todo, 1, n), Req \ Bad)
    IN  /\ Len(sq) + Len(good) <= QueueDepth
        /\ n < Len(todo) => todo[n + 1] \notin Bad /\ Len(sq) + Len(good) = QueueDepth

\* submit(): rejected requests are completed as errors, good ones prepared, and
\* the ring is submitted once.  The kernel takes k of what the ring holds; the
\* rest stays there.  Everything accepted counts in in_flight_.
Submit(n, k) ==
    LET taken == SubSeq(todo, 1, n)
        good == Those(taken, Req \ Bad)
        ring == sq \o good
    IN  /\ hpc = "user" /\ todo # <<>>
        /\ n \in 1..Len(todo) /\ Accepts(n)
        /\ k \in 0..Len(ring)
        /\ good = <<>> => k = 0
        /\ rejected' = rejected \o Those(taken, Bad)
        /\ sq' = Left(ring, k)
        /\ kernel' = kernel \cup Taken(ring, k)
        /\ in_flight' = in_flight + n
        /\ out' = out \cup ToSet(taken)
        /\ todo' = SubSeq(todo, n + 1, Len(todo))
        /\ UNCHANGED <<cq, hpc, call>>

\* reap() entered: min_complete is capped by what is in flight, the rejected
\* tags are handed out last-in first-out, and it returns if that was all.
ReapEnter(max, min) ==
    LET n == Least(max, Len(rejected))
        got == Reverse(SubSeq(rejected, Len(rejected) - n + 1, Len(rejected)))
    IN  /\ hpc = "user" /\ in_flight > 0
        /\ rejected' = SubSeq(rejected, 1, Len(rejected) - n)
        /\ in_flight' = in_flight - n
        /\ IF in_flight' = 0
           THEN /\ call' = [Idle EXCEPT !.got = got]
                /\ out' = out \ ToSet(got)
                /\ hpc' = "user"
           ELSE /\ call' = [max |-> max, min |-> Least(min, in_flight), got |-> got]
                /\ out' = out
                /\ hpc' = "flush"
        /\ UNCHANGED <<sq, kernel, cq, todo>>

\* Mutant: the outcome of the flush is not looked at.
MutReapFlush(k) ==
    /\ hpc = "flush"
    /\ k \in 0..Len(sq)
    /\ sq' = Left(sq, k)
    /\ kernel' = kernel \cup Taken(sq, k)
    /\ hpc' = "loop"
    /\ UNCHANGED <<cq, rejected, in_flight, call, todo, out>>

\* Before waiting, reap() submits what a short submit() left in the ring.  The kernel
\* takes k of it.  If that is none, reap() will not wait at all; if it is some and not
\* all, it goes on as if it were all.
ReapFlush(k) ==
    /\ hpc = "flush"
    /\ k \in 0..Len(sq)
    /\ sq' = Left(sq, k)
    /\ kernel' = kernel \cup Taken(sq, k)
    /\ call' = IF k = 0 /\ sq # <<>> THEN [call EXCEPT !.min = 0] ELSE call
    /\ hpc' = "loop"
    /\ UNCHANGED <<cq, rejected, in_flight, todo, out>>

\* reap() returns what it has.
Return(got) ==
    /\ call' = [Idle EXCEPT !.got = got]
    /\ out' = out \ ToSet(got)
    /\ hpc' = "user"

\* One turn of the loop that sees a completion: io_uring_wait_cqe() if it still
\* owes tags (the step is not enabled until one is posted), else a peek.
ReapSee ==
    /\ hpc = "loop"
    /\ Len(call.got) < call.max
    /\ cq # <<>>
    /\ cq' = Tail(cq)
    /\ in_flight' = in_flight - 1
    /\ LET got == Append(call.got, Head(cq))
       IN  IF in_flight' = 0
           THEN Return(got)
           ELSE call' = [call EXCEPT !.got = got] /\ UNCHANGED <<hpc, out>>
    /\ UNCHANGED <<sq, kernel, rejected, todo>>

\* The loop ends: max_tags reached, or enough tags and none posted.
ReapDone ==
    /\ hpc = "loop"
    /\ \/ Len(call.got) >= call.max
       \/ Len(call.got) >= call.min /\ cq = <<>>
    /\ Return(call.got)
    /\ UNCHANGED <<sq, kernel, cq, rejected, in_flight, todo>>

\* io_uring_wait_cqe() fails (EINTR): reap() returns short.
ReapInterrupted ==
    /\ hpc = "loop"
    /\ Len(call.got) < call.min /\ Len(call.got) < call.max
    /\ cq = <<>>
    /\ Return(call.got)
    /\ UNCHANGED <<sq, kernel, cq, rejected, in_flight, todo>>

\* The kernel finishes a read, well or not, and posts its completion.
KernelCompletes(r) ==
    /\ r \in kernel
    /\ kernel' = kernel \ {r}
    /\ cq' = Append(cq, r)
    /\ UNCHANGED <<sq, rejected, in_flight, hpc, call, todo, out>>

BatchAny == \E s \in SeqOf(Req, Cardinality(Req)) : s # <<>> /\ IsInjective(s) /\ Batch(s)
SubmitAny == \E n \in 1..Len(todo), k \in 0..QueueDepth : Submit(n, k)
ReapAny == \E max \in MaxTags, min \in MinComplete : ReapEnter(max, min)
FlushAny == \E k \in 0..QueueDepth : ReapFlush(k)

Next ==
    \/ BatchAny
    \/ SubmitAny
    \/ ReapAny
    \/ FlushAny
    \/ ReapSee
    \/ ReapDone
    \/ ReapInterrupted
    \/ \E r \in Req : KernelCompletes(r)

Spec == Init /\ [][Next]_vars

-----------------------------------------------------------------------------
\* Every accepted request comes back once, also when submit() stopped at a full
\* ring and the caller resubmits from the first request not accepted.
OneCompletionEach ==
    /\ out = ToSet(rejected) \cup ToSet(sq) \cup kernel \cup ToSet(cq)
               \cup (IF hpc = "user" THEN {} ELSE ToSet(call.got))
    /\ Cardinality(out) = in_flight + IF hpc = "user" THEN 0 ELSE Len(call.got)

\* reap() is about to block in io_uring_wait_cqe().
Blocking == hpc = "loop" /\ Len(call.got) < call.min /\ Len(call.got) < call.max /\ cq = <<>>

\* It is about to block for good: no completion can arrive.
Stuck == Blocking /\ kernel = {}

\* "A short submit would park entries the kernel never saw and io_uring_wait_cqe() would
\* block on completions that cannot arrive. Flush first."  The flush leaves one way to
\* get stuck: the kernel took some entries of it and not all, and reap() has returned
\* every one it took.  So a caller that asks for one completion never is.
StuckOnRemainder ==
    Stuck => /\ sq # <<>>
             /\ \E i \in DOMAIN call.got : call.got[i] \in Req \ Bad
=============================================================================

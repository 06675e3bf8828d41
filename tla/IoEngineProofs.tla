-------------------------- MODULE IoEngineProofs --------------------------
(***************************************************************************)
(* Proofs about the threads backend for any number of requests and of      *)
(* workers.  The inductive invariant IInv ties the counter in_flight_ to   *)
(* the queue and the workers, says when workers may have left the pool,    *)
(* and says who will wake a sleeping reap(); OInv adds that each request   *)
(* the caller waits for is in one place.                                   *)
(*                                                                         *)
(* The second half is about the ring: sequences without repetition, what   *)
(* Those keeps of one (a least-counterexample argument), the invariant     *)
(* RingInv that finds every accepted request in one of five places, and    *)
(* RingOwes, which bounds what a waiting reap() still owes.                *)
(***************************************************************************)
EXTENDS IoBackends, TLAPS, FiniteSetTheorems, SequenceTheorems, WellFoundedInduction

\* Workers leave the pool only during shutdown(), which ends with all gone.
PoolUp ==
    /\ stop => hpc \in {"stopping", "joining"}
    /\ hpc \notin {"stopping", "joining", "down"} => \A w \in Worker : wpc[w] # "exited"
    /\ hpc = "down" => q = <<>> /\ \A w \in Worker : wpc[w] = "exited"

\* A queued job has a worker awake, or the notification that will wake one is
\* still due; a sleeping reap() has a read to come, or a notification due.
Wakers ==
    /\ q # <<>> => \/ \E w \in Worker : wpc[w] \in {"run", "read", "notify"}
                   \/ hpc = "notify" /\ "work" \in notify
    /\ hpc = "asleep" => in_flight > 0 \/ \E w \in Worker : wpc[w] = "notify"

\* reap() never holds more tags than the caller has room for.
GotFits == hpc \in {"reap", "asleep"} => Len(call.got) <= call.max

\* A worker that reads has a job.
JobHeld == \A w \in Worker : wpc[w] = "read" => job[w] \in Req

IInv == TypeOK /\ InFlightExact /\ PoolUp /\ Wakers /\ GotFits /\ JobHeld

\* A batch is a sequence of requests.
LEMMA BatchesAreSeqs ==
    ASSUME NEW S, IsFiniteSet(S), NEW s \in Batches(S)
    PROVE  s \in Seq(S)
<1>1. Cardinality(S) \in Nat
  BY FS_CardinalityType
<1>2. PICK m \in 0..Cardinality(S) : s \in [1..m -> S]
  BY DEF Batches, SeqOf
<1> QED BY <1>1, <1>2

\* The set of reading workers is finite.
LEMMA ReadingFinite == IsFiniteSet(Reading) /\ Cardinality(Reading) \in Nat
<1>1. Reading \in SUBSET Worker
  BY DEF Reading
<1> QED BY <1>1, WorkerPool, FS_Subset, FS_CardinalityType

\* What one pass of reap() takes from done_ and what it leaves.
LEMMA PoppedFacts ==
    ASSUME TypeOK, Len(call.got) <= call.max
    PROVE  /\ Popped \in Seq(Req)
           /\ SubSeq(done, Len(Popped) + 1, Len(done)) \in Seq(Req)
           /\ call.got \o Popped \in Seq(Req)
           /\ Len(call.got \o Popped) <= call.max
           /\ Len(call.got \o Popped) < call.max =>
                 SubSeq(done, Len(Popped) + 1, Len(done)) = <<>>
<1> DEFINE k == IF Len(done) <= call.max - Len(call.got)
                THEN Len(done) ELSE call.max - Len(call.got)
<1>1. /\ done \in Seq(Req) /\ call.got \in Seq(Req)
      /\ Len(done) \in Nat /\ Len(call.got) \in Nat /\ call.max \in Nat
  BY DEF TypeOK
<1>2. k \in Nat /\ k <= Len(done)
  BY <1>1
<1>3. Popped \in Seq(Req) /\ Len(Popped) = k
  <2>1. \A i \in 1..k : done[i] \in Req
    BY <1>1, <1>2
  <2> HIDE DEF k
  <2>2. SubSeq(done, 1, k) \in Seq(Req) /\ Len(SubSeq(done, 1, k)) = IF 1 <= k THEN k - 1 + 1 ELSE 0
    BY <1>2, <2>1, SubSeqProperties
  <2>3. Popped = SubSeq(done, 1, k)
    BY DEF Popped, k
  <2> QED BY <1>2, <2>2, <2>3
<1>4. SubSeq(done, Len(Popped) + 1, Len(done)) \in Seq(Req)
  <2>1. \A i \in (k + 1)..Len(done) : done[i] \in Req
    BY <1>1, <1>2
  <2> HIDE DEF k
  <2> QED BY <1>1, <1>2, <1>3, <2>1, SubSeqProperties
<1>5. Len(call.got \o Popped) = Len(call.got) + k /\ call.got \o Popped \in Seq(Req)
  <2> HIDE DEF k
  <2> QED BY <1>1, <1>2, <1>3, ConcatProperties
<1>6. ASSUME Len(call.got \o Popped) < call.max
      PROVE  SubSeq(done, Len(Popped) + 1, Len(done)) = <<>>
  <2>1. k = Len(done)
    BY <1>1, <1>6, <1>5
  <2> QED BY <1>1, <1>3, <2>1, SubSeqEmpty
<1> QED BY <1>1, <1>2, <1>3, <1>4, <1>6, <1>5

-----------------------------------------------------------------------------
\* A freshly initialised engine satisfies the inductive invariant.
LEMMA InitIInv == Init => IInv
<1> SUFFICES ASSUME Init PROVE IInv
  OBVIOUS
<1>1. TypeOK
  BY EmptySeq DEF Init, TypeOK, Idle
<1>2. Reading = {}
  BY DEF Init, Reading
<1>3. InFlightExact
  BY <1>2, FS_EmptySet DEF Init, InFlightExact
<1>4. PoolUp /\ Wakers /\ GotFits /\ JobHeld
  BY DEF Init, PoolUp, Wakers, GotFits, JobHeld
<1> QED BY <1>1, <1>3, <1>4 DEF IInv

\* Steps that move no worker in or out of a read keep the accounting as long
\* as queue and counter move together.
LEMMA SameReading ==
    ASSUME InFlightExact, TypeOK, TypeOK', Reading' = Reading,
           in_flight' - Len(q') = in_flight - Len(q)
    PROVE  InFlightExact'
<1>1. Len(q) \in Nat /\ Len(q') \in Nat /\ in_flight \in Nat /\ in_flight' \in Nat
  BY DEF TypeOK
<1> QED BY <1>1, ReadingFinite DEF InFlightExact

\* Every step of the host and of the workers preserves it, one case per action.
LEMMA StepIInv == IInv /\ [Next]_vars => IInv'
<1> SUFFICES ASSUME IInv, [Next]_vars PROVE IInv'
  OBVIOUS
<1> USE DEF IInv
<1>1. CASE SubmitAny
  <2>1. PICK good \in Batches(Req \ Bad), bad \in Batches(Bad) : Submit(good, bad)
    BY <1>1 DEF SubmitAny
  <2>2. good \in Seq(Req \ Bad) /\ bad \in Seq(Req) /\ Len(good) \in Nat
    <3>1. IsFiniteSet(Req \ Bad) /\ IsFiniteSet(Bad)
      BY ReqFinite, BadRejected, FS_Subset
    <3>2. good \in Seq(Req \ Bad) /\ bad \in Seq(Bad)
      BY <3>1, BatchesAreSeqs
    <3> QED BY <3>2, BadRejected
  <2>3. q' \in Seq(Req \ Bad) /\ Len(q') = Len(q) + Len(good) /\ done' \in Seq(Req)
    BY <2>1, <2>2, ConcatProperties DEF Submit, Counted, TypeOK
  <2>4. ToSet(good) \subseteq Req /\ ToSet(bad) \subseteq Req
    BY <2>2, BadRejected DEF ToSet
  <2>5. TypeOK'
    BY <2>1, <2>2, <2>3, <2>4 DEF Submit, Counted, TypeOK
  <2>6. InFlightExact'
    <3>1. Reading' = Reading
      BY <2>1 DEF Submit, Counted, Reading
    <3>2. in_flight' - Len(q') = in_flight - Len(q)
      BY <2>1, <2>2, <2>3 DEF Submit, Counted, TypeOK
    <3> QED BY <2>5, <3>1, <3>2, SameReading
  <2>7. PoolUp' /\ GotFits' /\ JobHeld'
    BY <2>1 DEF Submit, Counted, PoolUp, GotFits, JobHeld
  <2>8. Wakers'
    <3>1. good = <<>> => q' = q
      BY <2>1, ConcatEmptySeq DEF Submit, Counted, TypeOK
    <3> QED BY <2>1, <3>1 DEF Submit, Counted, Wakers
  <2> QED BY <2>5, <2>6, <2>7, <2>8
<1>2. CASE SubmitNotify
  <2>1. TypeOK'
    BY <1>2 DEF SubmitNotify, TypeOK
  <2>2. Reading' = Reading
    BY <1>2 DEF SubmitNotify, Reading, TypeOK
  <2>3. InFlightExact'
    BY <1>2, <2>1, <2>2, SameReading DEF SubmitNotify
  <2>4. PoolUp' /\ GotFits' /\ JobHeld'
    BY <1>2 DEF SubmitNotify, PoolUp, GotFits, JobHeld, TypeOK
  <2>5. Wakers'
    BY <1>2, WorkerPool DEF SubmitNotify, PoolUp, Wakers, TypeOK
  <2> QED BY <2>1, <2>3, <2>4, <2>5
<1>3. CASE ReapAny
  <2>1. PICK max \in MaxTags, min \in MinComplete : ReapCall(max, min)
    BY <1>3 DEF ReapAny
  <2>2. TypeOK'
    BY <2>1, ReapArguments DEF ReapCall, TypeOK
  <2>3. Reading' = Reading
    BY <2>1 DEF ReapCall, Reading
  <2>4. InFlightExact'
    BY <2>1, <2>2, <2>3, SameReading DEF ReapCall
  <2>5. PoolUp' /\ GotFits' /\ JobHeld' /\ Wakers'
    BY <2>1, ReapArguments DEF ReapCall, PoolUp, GotFits, JobHeld, Wakers, TypeOK
  <2> QED BY <2>2, <2>4, <2>5
<1>4. CASE ReapStep
  <2> DEFINE got == call.got \o Popped
  <2>1. Len(call.got) <= call.max
    BY <1>4 DEF ReapStep, GotFits
  <2>2. got \in Seq(Req) /\ Len(got) <= call.max /\ done' \in Seq(Req)
    BY <1>4, <2>1, PoppedFacts DEF ReapStep
  <2>3. \/ call' = [Idle EXCEPT !.got = got] /\ out' = out \ ToSet(got) /\ hpc' = "user"
        \/ /\ ~ReapEnds(got) /\ call' = [call EXCEPT !.got = got] /\ out' = out
           /\ hpc' = "asleep"
    BY <1>4 DEF ReapStep
  <2> HIDE DEF got
  <2>4. TypeOK'
    BY <1>4, <2>2, <2>3, SMTT(30) DEF ReapStep, TypeOK, Idle
  <2>5. Reading' = Reading
    BY <1>4 DEF ReapStep, Reading
  <2>6. InFlightExact'
    BY <1>4, <2>4, <2>5, SameReading DEF ReapStep
  <2>7. PoolUp' /\ GotFits' /\ JobHeld'
    BY <1>4, <2>2, <2>3 DEF ReapStep, PoolUp, GotFits, JobHeld, TypeOK
  <2>8. Wakers'
    BY <1>4, <2>3 DEF ReapStep, ReapEnds, Wakers, TypeOK
  <2> QED BY <2>4, <2>6, <2>7, <2>8
<1>5. CASE Shutdown
  <2>1. TypeOK'
    BY <1>5 DEF Shutdown, TypeOK
  <2>2. InFlightExact'
    BY <1>5, <2>1, SameReading DEF Shutdown, Reading
  <2> QED BY <1>5, <2>1, <2>2 DEF Shutdown, PoolUp, Wakers, GotFits, JobHeld
<1>6. CASE ShutdownNotify
  <2>1. TypeOK'
    BY <1>6 DEF ShutdownNotify, TypeOK
  <2>2. Reading' = Reading
    BY <1>6 DEF ShutdownNotify, Reading, TypeOK
  <2>3. InFlightExact'
    BY <1>6, <2>1, <2>2, SameReading DEF ShutdownNotify
  <2>4. PoolUp' /\ GotFits' /\ JobHeld' /\ Wakers'
    BY <1>6 DEF ShutdownNotify, PoolUp, GotFits, JobHeld, Wakers, TypeOK
  <2> QED BY <2>1, <2>3, <2>4
<1>7. CASE ShutdownJoin
  <2>1. TypeOK'
    BY <1>7, EmptySeq DEF ShutdownJoin, TypeOK, Idle
  <2>2. Reading' = {}
    BY <1>7 DEF ShutdownJoin, Reading
  <2>3. InFlightExact'
    BY <1>7, <2>2, FS_EmptySet DEF ShutdownJoin, InFlightExact
  <2>4. PoolUp' /\ GotFits' /\ JobHeld' /\ Wakers'
    BY <1>7 DEF ShutdownJoin, PoolUp, GotFits, JobHeld, Wakers
  <2> QED BY <2>1, <2>3, <2>4
<1>8. CASE Restart
  <2>1. TypeOK'
    BY <1>8 DEF Restart, TypeOK
  <2>2. Reading' = Reading
    BY <1>8 DEF Restart, Reading, PoolUp
  <2>3. InFlightExact'
    BY <1>8, <2>1, <2>2, SameReading DEF Restart
  <2>4. PoolUp' /\ GotFits' /\ JobHeld' /\ Wakers'
    BY <1>8 DEF Restart, PoolUp, GotFits, JobHeld, Wakers
  <2> QED BY <2>1, <2>3, <2>4
<1>9. ASSUME NEW w \in Worker, WorkerTake(w)
      PROVE  IInv'
  <2>1. CASE q # <<>>
    <3>1. /\ Head(q) \in Req \ Bad /\ Tail(q) \in Seq(Req \ Bad)
          /\ Len(Tail(q)) = Len(q) - 1
      BY <2>1, HeadTailProperties DEF TypeOK
    <3>2. /\ job' = [job EXCEPT ![w] = Head(q)] /\ q' = Tail(q)
          /\ wpc' = [wpc EXCEPT ![w] = "read"]
      BY <1>9, <2>1 DEF WorkerTake
    <3>3. TypeOK'
      BY <1>9, <3>1, <3>2 DEF WorkerTake, TypeOK
    <3>4. Reading' = Reading \cup {w} /\ w \notin Reading
      BY <1>9, <3>2 DEF WorkerTake, Reading, TypeOK
    <3>5. Cardinality(Reading') = Cardinality(Reading) + 1
      BY <3>4, ReadingFinite, FS_AddElement
    <3>6. InFlightExact'
      BY <1>9, <3>1, <3>2, <3>5, ReadingFinite DEF WorkerTake, InFlightExact, TypeOK
    <3>7. PoolUp' /\ GotFits' /\ JobHeld' /\ Wakers'
      BY <1>9, <2>1, <3>2 DEF WorkerTake, PoolUp, GotFits, JobHeld, Wakers, TypeOK
    <3> QED BY <3>3, <3>6, <3>7
  <2>2. CASE q = <<>>
    <3>1. TypeOK'
      BY <1>9, <2>2 DEF WorkerTake, TypeOK
    <3>2. Reading' = Reading
      BY <1>9, <2>2 DEF WorkerTake, Reading, TypeOK
    <3>3. InFlightExact'
      BY <1>9, <2>2, <3>1, <3>2, SameReading DEF WorkerTake
    <3>4. PoolUp' /\ GotFits' /\ JobHeld' /\ Wakers'
      BY <1>9, <2>2 DEF WorkerTake, PoolUp, GotFits, JobHeld, Wakers, TypeOK
    <3> QED BY <3>1, <3>3, <3>4
  <2> QED BY <2>1, <2>2
<1>10. ASSUME NEW w \in Worker, CompleteAny(w)
       PROVE  IInv'
  <2>1. PICK ok \in BOOLEAN : WorkerComplete(w, ok)
    BY <1>10 DEF CompleteAny
  <2>2. w \in Reading /\ Reading' = Reading \ {w}
    BY <2>1 DEF WorkerComplete, Reading, TypeOK
  <2>3. /\ Cardinality(Reading') = Cardinality(Reading) - 1
        /\ Cardinality(Reading) \in Nat /\ Cardinality(Reading) # 0
    BY <2>2, ReadingFinite, FS_RemoveElement, FS_EmptySet
  <2>4. in_flight' \in Nat /\ InFlightExact'
    BY <2>1, <2>3 DEF WorkerComplete, InFlightExact, TypeOK
  <2>5. TypeOK'
    <3>1. job[w] \in Req /\ done' \in Seq(Req)
      BY <2>1, AppendProperties DEF WorkerComplete, JobHeld, TypeOK
    <3> QED BY <2>1, <2>4, <3>1 DEF WorkerComplete, TypeOK
  <2>6. PoolUp' /\ GotFits' /\ JobHeld' /\ Wakers'
    BY <2>1 DEF WorkerComplete, PoolUp, GotFits, JobHeld, Wakers, TypeOK
  <2> QED BY <2>4, <2>5, <2>6
<1>11. ASSUME NEW w \in Worker, WorkerNotify(w)
       PROVE  IInv'
  <2>1. TypeOK'
    BY <1>11 DEF WorkerNotify, TypeOK
  <2>2. Reading' = Reading
    BY <1>11 DEF WorkerNotify, Reading, TypeOK
  <2>3. InFlightExact'
    BY <1>11, <2>1, <2>2, SameReading DEF WorkerNotify
  <2>4. PoolUp' /\ GotFits' /\ JobHeld' /\ Wakers'
    BY <1>11 DEF WorkerNotify, PoolUp, GotFits, JobHeld, Wakers, TypeOK
  <2> QED BY <2>1, <2>3, <2>4
<1>12. CASE UNCHANGED vars
  BY <1>12 DEF vars, TypeOK, InFlightExact, Reading, PoolUp, Wakers, GotFits, JobHeld
<1> QED
  BY <1>1, <1>2, <1>3, <1>4, <1>5, <1>6, <1>7, <1>8, <1>9, <1>10, <1>11, <1>12
     DEF Next

-----------------------------------------------------------------------------
\* So the inductive invariant holds throughout.
LEMMA AlwaysIInv == Spec => []IInv
BY InitIInv, StepIInv, PTL DEF Spec

\* in_flight_ stays a natural number: the workers' decrement never wraps it,
\* and every queue holds requests only.
THEOREM TypeCorrect == Spec => []TypeOK
<1>1. IInv => TypeOK
  BY DEF IInv
<1> QED BY <1>1, AlwaysIInv, PTL

\* in_flight_ is exactly the number of reads queued or being read.
THEOREM InFlightCorrect == Spec => []InFlightExact
<1>1. IInv => InFlightExact
  BY DEF IInv
<1> QED BY <1>1, AlwaysIInv, PTL

\* An empty pool and an empty queue are what shutdown() leaves behind.
THEOREM ShutdownQuiesces == Spec => []NoReadAfterShutdown
<1>1. IInv => NoReadAfterShutdown
  <2> SUFFICES ASSUME IInv, hpc = "down" PROVE Reading = {} /\ q = <<>> /\ in_flight = 0
    BY DEF NoReadAfterShutdown
  <2>1. Reading = {} /\ q = <<>>
    BY DEF IInv, PoolUp, Reading
  <2> QED BY <2>1, FS_EmptySet, EmptySeq DEF IInv, InFlightExact
<1> QED BY <1>1, AlwaysIInv, PTL

\* A reap() asleep always has a worker left that will wake it.
THEOREM NoLostWakeup == Spec => []SleeperHasWaker
<1>1. IInv => SleeperHasWaker
  <2> SUFFICES ASSUME IInv, hpc = "asleep"
               PROVE  \E w \in Worker : wpc[w] \in {"run", "read", "notify"}
    BY DEF SleeperHasWaker
  <2>1. CASE q # <<>>
    BY <2>1 DEF IInv, Wakers
  <2>2. CASE q = <<>> /\ Reading # {}
    BY <2>2 DEF Reading
  <2>3. CASE q = <<>> /\ Reading = {}
    <3>1. in_flight = 0
      BY <2>3, FS_EmptySet, EmptySeq DEF IInv, InFlightExact
    <3> QED BY <3>1 DEF IInv, Wakers
  <2> QED BY <2>1, <2>2, <2>3
<1> QED BY <1>1, AlwaysIInv, PTL

\* A reap() that comes back short leaves no read and no completion behind.
THEOREM ShortReapDrained == Spec => ShortReapMeansDrained
<1>1. IInv /\ [Next]_vars => [ShortReap]_vars
  <2> SUFFICES ASSUME IInv, [Next]_vars, hpc = "reap", hpc' = "user",
                      Len(call'.got) < call.min, Len(call'.got) < call.max
               PROVE  q = <<>> /\ Reading = {} /\ done' = <<>>
    BY DEF ShortReap
  <2> DEFINE got == call.got \o Popped
  <2>1. ReapStep
    BY DEF Next, vars, SubmitAny, Submit, Counted, SubmitNotify, ReapAny, ReapCall, Shutdown,
           ShutdownNotify, ShutdownJoin, Restart, WorkerTake, CompleteAny,
           WorkerComplete, WorkerNotify
  <2>2. Len(call.got) <= call.max
    BY DEF IInv, GotFits
  <2>3. call'.got = got /\ ReapEnds(got) /\ done' = SubSeq(done, Len(Popped) + 1, Len(done))
    BY <2>1 DEF ReapStep, Idle
  <2>4. done' = <<>>
    BY <2>2, <2>3, PoppedFacts DEF IInv
  <2>5. Len(got) \in Nat /\ call.max \in Nat /\ call.min \in Nat
    BY <2>2, PoppedFacts DEF IInv, TypeOK
  <2>6. in_flight = 0
    <3> HIDE DEF got
    <3> QED BY <2>3, <2>5 DEF ReapEnds
  <2>7. Len(q) = 0 /\ Cardinality(Reading) = 0
    <3>1. Len(q) \in Nat
      BY DEF IInv, TypeOK
    <3> QED BY <2>6, <3>1, ReadingFinite DEF IInv, InFlightExact
  <2>8. q = <<>>
    BY <2>7, EmptySeq DEF IInv, TypeOK
  <2> QED BY <2>4, <2>7, <2>8, ReadingFinite, FS_EmptySet
<1> QED BY <1>1, AlwaysIInv, PTL DEF Spec, ShortReapMeansDrained
-----------------------------------------------------------------------------
(* One completion for each request.  The places a request can be in are    *)
(* counted; the lemmas say how the operations on the queues change the     *)
(* count of one request in a sequence.                                     *)

\* Where request r stands in the sequence s, and how often.
At(s, r) == {i \in 1..Len(s) : s[i] = r}
Occ(s, r) == Cardinality(At(s, r))

\* The workers that hold request r.
Holders(r) == {w \in Worker : job[w] = r}

\* The tags of the reap() in progress.
Held == IF hpc \in {"reap", "asleep"} THEN call.got ELSE <<>>

\* Only a worker that reads holds a job.
JobOnlyReading == \A w \in Worker : wpc[w] # "read" => job[w] = NoReq

OInv == IInv /\ OneCompletionEach /\ JobOnlyReading

\* The places of a request in a sequence are finitely many.
LEMMA OccType ==
    ASSUME NEW S, NEW s \in Seq(S), NEW r
    PROVE  IsFiniteSet(At(s, r)) /\ Occ(s, r) \in Nat
<1>1. IsFiniteSet(1..Len(s))
  BY FS_Interval, LenProperties
<1>2. At(s, r) \in SUBSET (1..Len(s))
  BY DEF At
<1> QED BY <1>1, <1>2, FS_Subset, FS_CardinalityType DEF Occ

\* The empty sequence holds no request.
LEMMA OccEmpty == ASSUME NEW r PROVE Occ(<<>>, r) = 0
<1>1. At(<<>>, r) = {}
  BY DEF At
<1> QED BY <1>1, FS_EmptySet DEF Occ

\* Concatenation adds the counts: the places in t move up by Len(s).
LEMMA OccConcat ==
    ASSUME NEW S, NEW s \in Seq(S), NEW t \in Seq(S), NEW r
    PROVE  Occ(s \o t, r) = Occ(s, r) + Occ(t, r)
<1> DEFINE n == Len(s)
           B == At(t, r)
           T == {i \in (n + 1)..(n + Len(t)) : t[i - n] = r}
           f == [i \in B |-> i + n]
<1>1. n \in Nat /\ Len(t) \in Nat
  BY LenProperties
<1>2. /\ Len(s \o t) = n + Len(t)
      /\ \A i \in 1..(n + Len(t)) : (s \o t)[i] = IF i <= n THEN s[i] ELSE t[i - n]
  BY ConcatProperties
<1>3. At(s \o t, r) = At(s, r) \cup T /\ At(s, r) \cap T = {}
  <2> HIDE DEF n
  <2> QED BY <1>1, <1>2 DEF At, n
<1>4. f \in Bijection(B, T)
  <2> HIDE DEF n
  <2>1. f \in [B -> T]
    BY <1>1 DEF At
  <2>2. \A i, j \in B : f[i] = f[j] => i = j
    BY <1>1 DEF At
  <2>3. \A j \in T : \E i \in B : f[i] = j
    <3> SUFFICES ASSUME NEW j \in T PROVE \E i \in B : f[i] = j
      OBVIOUS
    <3>1. j - n \in B /\ f[j - n] = j
      BY <1>1 DEF At
    <3> QED BY <3>1
  <2> HIDE DEF f, B, T
  <2> QED BY <2>1, <2>2, <2>3 DEF Bijection, Injection, Surjection, IsInjective
<1>5. IsFiniteSet(B)
  BY OccType
<1>6. IsFiniteSet(T) /\ Cardinality(T) = Cardinality(B)
  <2>1. ExistsBijection(B, T)
    BY <1>4 DEF ExistsBijection
  <2> HIDE DEF B, T
  <2> QED BY <1>5, <2>1, FS_Bijection
<1>7. IsFiniteSet(At(s, r))
  BY OccType
<1>8. Cardinality(At(s, r) \cup T) = Cardinality(At(s, r)) + Cardinality(T)
                                     - Cardinality(At(s, r) \cap T)
  <2> HIDE DEF T
  <2> QED BY <1>6, <1>7, FS_Union
<1>9. Cardinality(T) \in Nat /\ Cardinality(At(s, r)) \in Nat
  <2> HIDE DEF T
  <2> QED BY <1>6, <1>7, FS_CardinalityType
<1> HIDE DEF T
<1>10. Cardinality(At(s, r) \cap T) = 0
  BY <1>3, FS_EmptySet
<1>11. Cardinality(At(s \o t, r)) = Cardinality(At(s, r)) + Cardinality(T)
  BY <1>3, <1>8, <1>9, <1>10
<1> QED BY <1>6, <1>11 DEF Occ

\* A sequence of one request holds it once, and no other.
LEMMA OccOne == ASSUME NEW e, NEW r PROVE Occ(<<e>>, r) = IF e = r THEN 1 ELSE 0
<1>1. At(<<e>>, r) = IF e = r THEN {1} ELSE {}
  BY DEF At
<1> QED BY <1>1, FS_EmptySet, FS_Singleton DEF Occ

\* Appending a request counts it once more.
LEMMA OccAppend ==
    ASSUME NEW S, NEW s \in Seq(S), NEW e \in S, NEW r
    PROVE  Occ(Append(s, e), r) = Occ(s, r) + (IF e = r THEN 1 ELSE 0)
<1>1. Append(s, e) = s \o <<e>>
  BY AppendIsConcat
<1>2. <<e>> \in Seq(S)
  OBVIOUS
<1>3. Occ(s \o <<e>>, r) = Occ(s, r) + Occ(<<e>>, r)
  BY <1>2, OccConcat
<1> QED BY <1>1, <1>3, OccOne

\* Taking the first request off counts that one once less.
LEMMA OccTail ==
    ASSUME NEW S, NEW s \in Seq(S), s # <<>>, NEW r
    PROVE  Occ(s, r) = (IF Head(s) = r THEN 1 ELSE 0) + Occ(Tail(s), r)
<1>1. Head(s) \in S /\ Tail(s) \in Seq(S)
  BY HeadTailProperties
<1>2. s = <<Head(s)>> \o Tail(s) /\ <<Head(s)>> \in Seq(S)
  <2>1. <<Head(s)>> \in Seq(S) /\ Len(<<Head(s)>>) = 1
    BY <1>1
  <2>2. <<Head(s)>> \o Tail(s) \in Seq(S)
        /\ Len(<<Head(s)>> \o Tail(s)) = 1 + Len(Tail(s))
        /\ \A i \in 1..(1 + Len(Tail(s))) : (<<Head(s)>> \o Tail(s))[i] =
               IF i <= 1 THEN <<Head(s)>>[i] ELSE Tail(s)[i - 1]
    BY <1>1, <2>1, ConcatProperties
  <2>3. Len(s) = 1 + Len(Tail(s)) /\ Len(Tail(s)) \in Nat
        /\ s[1] = Head(s) /\ \A i \in 1..Len(Tail(s)) : Tail(s)[i] = s[i + 1]
    BY <1>1, HeadTailProperties, LenProperties
  <2>4. \A i \in 1..Len(s) : s[i] = (<<Head(s)>> \o Tail(s))[i]
    BY <2>2, <2>3
  <2> QED BY <2>1, <2>2, <2>3, <2>4, SeqEqual
<1>3. Occ(s, r) = Occ(<<Head(s)>>, r) + Occ(Tail(s), r)
  BY <1>1, <1>2, OccConcat, ZenonT(40)
<1> QED BY <1>3, OccOne

\* A sequence without repetition holds each of its elements once.
LEMMA OccInjective ==
    ASSUME NEW S, NEW s \in Seq(S), IsInjective(s), NEW r
    PROVE  Occ(s, r) = IF r \in ToSet(s) THEN 1 ELSE 0
<1>1. DOMAIN s = 1..Len(s)
  BY LenProperties
<1>2. CASE r \in ToSet(s)
  <2>1. PICK i \in 1..Len(s) : s[i] = r
    BY <1>1, <1>2 DEF ToSet
  <2>2. At(s, r) = {i}
    BY <1>1, <2>1 DEF At, IsInjective
  <2> QED BY <1>2, <2>2, FS_Singleton DEF Occ
<1>3. CASE r \notin ToSet(s)
  <2>1. At(s, r) = {}
    BY <1>1, <1>3 DEF At, ToSet
  <2> QED BY <1>3, <2>1, FS_EmptySet DEF Occ
<1> QED BY <1>2, <1>3

\* A request is in a sequence exactly when it is counted there.
LEMMA OccMember ==
    ASSUME NEW S, NEW s \in Seq(S), NEW r
    PROVE  r \in ToSet(s) <=> Occ(s, r) # 0
<1>1. DOMAIN s = 1..Len(s)
  BY LenProperties
<1>2. r \in ToSet(s) <=> At(s, r) # {}
  BY <1>1 DEF ToSet, At
<1> QED BY <1>2, OccType, FS_EmptySet DEF Occ

\* What one pass of reap() takes and what it leaves make up done_.
LEMMA OccPopped ==
    ASSUME TypeOK, Len(call.got) <= call.max, NEW r
    PROVE  Occ(done, r) = Occ(Popped, r) + Occ(SubSeq(done, Len(Popped) + 1, Len(done)), r)
<1> DEFINE k == IF Len(done) <= call.max - Len(call.got)
                THEN Len(done) ELSE call.max - Len(call.got)
           rest == SubSeq(done, k + 1, Len(done))
<1>1. /\ done \in Seq(Req) /\ Len(done) \in Nat /\ Len(call.got) \in Nat
      /\ call.max \in Nat
  BY DEF TypeOK
<1>2. k \in Nat /\ k <= Len(done)
  BY <1>1
<1>3. Popped = SubSeq(done, 1, k)
  BY DEF Popped
<1> HIDE DEF k
<1>4. /\ Popped \in Seq(Req) /\ Len(Popped) = k
      /\ \A i \in 1..k : Popped[i] = done[i]
  <2>1. \A i \in 1..k : done[i] \in Req
    BY <1>1, <1>2
  <2> QED BY <1>2, <1>3, <2>1, SubSeqProperties
<1>5. /\ rest \in Seq(Req) /\ Len(rest) = Len(done) - k
      /\ \A i \in 1..(Len(done) - k) : rest[i] = done[k + i]
  <2>1. \A i \in (k + 1)..Len(done) : done[i] \in Req
    BY <1>1, <1>2
  <2> QED BY <1>1, <1>2, <2>1, SubSeqProperties
<1> HIDE DEF rest
<1>6. done = Popped \o rest
  <2>0. /\ Popped \o rest \in Seq(Req)
        /\ Len(Popped \o rest) = Len(Popped) + Len(rest)
        /\ \A i \in 1..(Len(Popped) + Len(rest)) : (Popped \o rest)[i] =
               IF i <= Len(Popped) THEN Popped[i] ELSE rest[i - Len(Popped)]
    BY <1>4, <1>5, ConcatProperties
  <2>1. /\ Popped \o rest \in Seq(Req) /\ Len(Popped \o rest) = Len(done)
        /\ \A i \in 1..Len(done) : (Popped \o rest)[i] =
               IF i <= k THEN Popped[i] ELSE rest[i - k]
    BY <1>1, <1>2, <1>4, <1>5, <2>0
  <2>2. \A i \in 1..Len(done) : done[i] = (Popped \o rest)[i]
    BY <1>1, <1>2, <1>4, <1>5, <2>1
  <2> QED BY <1>1, <2>1, <2>2, SeqEqual
<1>7. Occ(done, r) = Occ(Popped, r) + Occ(rest, r)
  BY <1>4, <1>5, <1>6, OccConcat
<1> QED BY <1>4, <1>7 DEF rest

-----------------------------------------------------------------------------
\* The places of a request, with the tags of the reap() in progress as one more queue.
LEMMA PlacesSum ==
    ASSUME NEW r
    PROVE  Places(r) = Occ(q, r) + Cardinality(Holders(r)) + Occ(done, r) + Occ(Held, r)
<1>1. Occ(Held, r) = IF hpc \in {"reap", "asleep"}
                     THEN Cardinality({i \in 1..Len(call.got) : call.got[i] = r}) ELSE 0
  BY OccEmpty DEF Held, Occ, At
<1> QED BY <1>1 DEF Places, Occ, At, Holders

\* The four counts are natural numbers.
LEMMA CountTypes ==
    ASSUME TypeOK, NEW r
    PROVE  /\ Occ(q, r) \in Nat /\ Occ(done, r) \in Nat /\ Occ(Held, r) \in Nat
           /\ IsFiniteSet(Holders(r)) /\ Cardinality(Holders(r)) \in Nat
<1>1. q \in Seq(Req \ Bad) /\ done \in Seq(Req) /\ Held \in Seq(Req)
  BY EmptySeq DEF TypeOK, Held
<1>2. Holders(r) \in SUBSET Worker
  BY DEF Holders
<1> QED BY <1>1, <1>2, OccType, WorkerPool, FS_Subset, FS_CardinalityType

\* A step that leaves every count and the caller's view alone keeps the accounting.
LEMMA SamePlaces ==
    ASSUME OneCompletionEach, q' = q, job' = job, done' = done, Held' = Held, out' = out
    PROVE  OneCompletionEach'
<1> SUFFICES ASSUME NEW r \in Req PROVE Places(r)' = IF r \in out' THEN 1 ELSE 0
  BY DEF OneCompletionEach
<1>1. Holders(r)' = Holders(r)
  BY DEF Holders
<1>2. Places(r)' = Occ(q', r) + Cardinality(Holders(r)') + Occ(done', r) + Occ(Held', r)
  <2>1. Occ(Held', r) = IF hpc' \in {"reap", "asleep"}
              THEN Cardinality({i \in 1..Len(call'.got) : call'.got[i] = r}) ELSE 0
    BY OccEmpty DEF Held, Occ, At
  <2> QED BY <2>1 DEF Places, Occ, At, Holders
<1> QED BY <1>1, <1>2, PlacesSum DEF OneCompletionEach

\* A freshly initialised engine holds no request.
LEMMA InitOInv == Init => OInv
<1> SUFFICES ASSUME Init PROVE OInv
  OBVIOUS
<1>1. JobOnlyReading
  BY DEF Init, JobOnlyReading
<1>2. OneCompletionEach
  <2> SUFFICES ASSUME NEW r \in Req PROVE Places(r) = 0
    BY DEF OneCompletionEach, Init
  <2>1. Holders(r) = {} /\ Held = <<>> /\ q = <<>> /\ done = <<>>
    BY ReqFinite DEF Init, Holders, Held
  <2> QED BY <2>1, OccEmpty, FS_EmptySet, PlacesSum
<1> QED BY <1>1, <1>2, InitIInv DEF OInv

\* Every step keeps each request the caller waits for in one place.
LEMMA StepOInv == OInv /\ [Next]_vars => OInv'
<1> SUFFICES ASSUME OInv, [Next]_vars PROVE OneCompletionEach' /\ JobOnlyReading'
  BY StepIInv DEF OInv
<1> USE DEF OInv
<1>0. IInv /\ IInv' /\ TypeOK /\ TypeOK' /\ q \in Seq(Req) /\ done \in Seq(Req)
  <2>1. IInv'
    BY StepIInv
  <2>2. q \in Seq(Req)
    BY DEF IInv, TypeOK
  <2> QED BY <2>1, <2>2 DEF IInv, TypeOK
<1>c. \A r \in Req :
        /\ Places(r) = Occ(q, r) + Cardinality(Holders(r)) + Occ(done, r) + Occ(Held, r)
        /\ Occ(q, r) \in Nat /\ Occ(done, r) \in Nat /\ Occ(Held, r) \in Nat
        /\ IsFiniteSet(Holders(r)) /\ Cardinality(Holders(r)) \in Nat
        /\ Places(r) = IF r \in out THEN 1 ELSE 0
  BY <1>0, PlacesSum, CountTypes DEF OneCompletionEach
<1>d. \A r \in Req :
        Places(r)' = Occ(q', r) + Cardinality(Holders(r)') + Occ(done', r) + Occ(Held', r)
  <2> SUFFICES ASSUME NEW r \in Req
               PROVE  Places(r)' = Occ(q', r) + Cardinality(Holders(r)') + Occ(done', r)
                                   + Occ(Held', r)
    OBVIOUS
  <2>1. Occ(Held', r) = IF hpc' \in {"reap", "asleep"}
              THEN Cardinality({i \in 1..Len(call'.got) : call'.got[i] = r}) ELSE 0
    BY OccEmpty DEF Held, Occ, At
  <2> QED BY <2>1 DEF Places, Occ, At, Holders
<1>1. CASE SubmitAny
  <2>1. PICK good \in Batches(Req \ Bad), bad \in Batches(Bad) : Submit(good, bad)
    BY <1>1 DEF SubmitAny
  <2>2. good \in Seq(Req \ Bad) /\ bad \in Seq(Bad) /\ good \in Seq(Req) /\ bad \in Seq(Req)
    <3>1. IsFiniteSet(Req \ Bad) /\ IsFiniteSet(Bad)
      BY ReqFinite, BadRejected, FS_Subset
    <3>2. good \in Seq(Req \ Bad) /\ bad \in Seq(Bad)
      BY <3>1, BatchesAreSeqs
    <3> QED BY <3>2, BadRejected
  <2>3. IsInjective(good) /\ IsInjective(bad)
    BY DEF Batches
  <2>4. ToSet(good) \cap out = {} /\ ToSet(bad) \cap out = {} /\ ToSet(good) \cap ToSet(bad) = {}
    <3>1. DOMAIN good = 1..Len(good) /\ DOMAIN bad = 1..Len(bad)
      BY <2>2, LenProperties
    <3>2. ToSet(good) \subseteq Req \ Bad /\ ToSet(bad) \subseteq Bad
      BY <2>2, <3>1 DEF ToSet
    <3>3. \A i \in 1..Len(good) : good[i] \notin out
      BY <2>1 DEF Submit
    <3>4. \A i \in 1..Len(bad) : bad[i] \notin out
      BY <2>1 DEF Submit
    <3>5. ToSet(good) \cap out = {} /\ ToSet(bad) \cap out = {}
      BY <3>1, <3>3, <3>4 DEF ToSet
    <3> QED BY <3>2, <3>5
  <2>5. ASSUME NEW r \in Req
        PROVE  Places(r)' = IF r \in out' THEN 1 ELSE 0
    <3>1. /\ Occ(q', r) = Occ(q, r) + (IF r \in ToSet(good) THEN 1 ELSE 0)
          /\ Occ(done', r) = Occ(done, r) + (IF r \in ToSet(bad) THEN 1 ELSE 0)
      <4>1. q' = q \o good /\ done' = done \o bad
        BY <2>1 DEF Submit
      <4>2. Occ(q \o good, r) = Occ(q, r) + Occ(good, r)
        BY <1>0, <2>2, OccConcat
      <4>3. Occ(done \o bad, r) = Occ(done, r) + Occ(bad, r)
        BY <1>0, <2>2, OccConcat
      <4>4. Occ(good, r) = IF r \in ToSet(good) THEN 1 ELSE 0
        BY <2>2, <2>3, OccInjective
      <4>5. Occ(bad, r) = IF r \in ToSet(bad) THEN 1 ELSE 0
        BY <2>2, <2>3, OccInjective
      <4> QED BY <4>1, <4>2, <4>3, <4>4, <4>5
    <3>2. Holders(r)' = Holders(r) /\ Held' = Held
      BY <2>1 DEF Submit, Holders, Held
    <3>3. out' = out \cup ToSet(good) \cup ToSet(bad)
      BY <2>1 DEF Submit
    <3> QED BY <1>c, <1>d, <2>4, <3>1, <3>2, <3>3
  <2>6. JobOnlyReading'
    BY <2>1 DEF Submit, JobOnlyReading
  <2> QED BY <2>5, <2>6 DEF OneCompletionEach
<1>2. CASE SubmitNotify
  <2>1. OneCompletionEach'
    <3>1. Held' = Held
      BY <1>2 DEF SubmitNotify, Held
    <3> QED BY <1>2, <3>1, SamePlaces DEF SubmitNotify
  <2> QED BY <1>0, <1>2, <2>1 DEF SubmitNotify, JobOnlyReading, TypeOK
<1>3. CASE ReapAny
  <2>1. PICK max \in MaxTags, min \in MinComplete : ReapCall(max, min)
    BY <1>3 DEF ReapAny
  <2>2. Held' = Held
    BY <2>1 DEF ReapCall, Held
  <2>3. OneCompletionEach'
    BY <2>1, <2>2, SamePlaces DEF ReapCall
  <2> QED BY <2>1, <2>3 DEF ReapCall, JobOnlyReading
<1>4. CASE ReapStep
  <2> DEFINE got == call.got \o Popped
             rest == SubSeq(done, Len(Popped) + 1, Len(done))
  <2>1. Len(call.got) <= call.max /\ Held = call.got
    BY <1>4 DEF ReapStep, GotFits, IInv, Held
  <2>2. Popped \in Seq(Req) /\ rest \in Seq(Req) /\ got \in Seq(Req) /\ call.got \in Seq(Req)
    BY <1>0, <2>1, PoppedFacts DEF TypeOK
  <2>3. /\ done' = rest /\ q' = q /\ job' = job /\ wpc' = wpc
        /\ \/ out' = out \ ToSet(got) /\ hpc' = "user"
           \/ call' = [call EXCEPT !.got = got] /\ out' = out /\ hpc' = "asleep"
    BY <1>4 DEF ReapStep
  <2>4. ASSUME NEW r \in Req
        PROVE  /\ Occ(done, r) = Occ(Popped, r) + Occ(rest, r)
               /\ Occ(got, r) = Occ(call.got, r) + Occ(Popped, r)
               /\ Occ(Popped, r) \in Nat /\ Occ(rest, r) \in Nat /\ Occ(call.got, r) \in Nat
    <3>1. Occ(done, r) = Occ(Popped, r) + Occ(rest, r)
      BY <1>0, <2>1, OccPopped
    <3> HIDE DEF rest
    <3>2. Occ(call.got \o Popped, r) = Occ(call.got, r) + Occ(Popped, r)
      BY <2>2, OccConcat
    <3>3. Occ(Popped, r) \in Nat /\ Occ(rest, r) \in Nat /\ Occ(call.got, r) \in Nat
      BY <2>2, OccType
    <3> QED BY <3>1, <3>2, <3>3
  <2>5. \A r : r \in ToSet(got) <=> Occ(got, r) # 0
    BY <2>2, OccMember
  <2> HIDE DEF got, rest
  <2>6. ASSUME NEW r \in Req
        PROVE  Places(r)' = IF r \in out' THEN 1 ELSE 0
    <3>1. Holders(r)' = Holders(r)
      BY <2>3 DEF Holders
    <3>2. CASE out' = out \ ToSet(got) /\ hpc' = "user"
      <4>1. Occ(Held', r) = 0
        BY <3>2, OccEmpty DEF Held
      <4>2. Occ(call.got, r) = Occ(Held, r)
        BY <2>1
      <4> QED BY <1>c, <1>d, <2>3, <2>4, <2>5, <3>1, <3>2, <4>1, <4>2
    <3>3. CASE call' = [call EXCEPT !.got = got] /\ out' = out /\ hpc' = "asleep"
      <4>1. Held' = got
        BY <1>0, <3>3 DEF Held, TypeOK
      <4>2. Occ(call.got, r) = Occ(Held, r)
        BY <2>1
      <4> QED BY <1>c, <1>d, <2>3, <2>4, <3>1, <3>3, <4>1, <4>2
    <3> QED BY <2>3, <3>2, <3>3
  <2>7. JobOnlyReading'
    BY <2>3 DEF JobOnlyReading
  <2> QED BY <2>6, <2>7 DEF OneCompletionEach
<1>5. CASE Shutdown
  <2>1. Held' = Held
    BY <1>5 DEF Shutdown, Held
  <2>2. OneCompletionEach'
    BY <1>5, <2>1, SamePlaces DEF Shutdown
  <2> QED BY <1>5, <2>2 DEF Shutdown, JobOnlyReading
<1>6. CASE ShutdownNotify
  <2>1. Held' = Held
    BY <1>6 DEF ShutdownNotify, Held
  <2>2. OneCompletionEach'
    BY <1>6, <2>1, SamePlaces DEF ShutdownNotify
  <2> QED BY <1>0, <1>6, <2>2 DEF ShutdownNotify, JobOnlyReading, TypeOK
<1>7. CASE ShutdownJoin
  <2>1. JobOnlyReading'
    BY <1>7 DEF ShutdownJoin, JobOnlyReading
  <2>2. ASSUME NEW r \in Req
        PROVE  Places(r)' = IF r \in out' THEN 1 ELSE 0
    <3>1. Holders(r)' = {}
      BY <1>7, ReqFinite DEF ShutdownJoin, JobOnlyReading, Holders
    <3>2. q' = <<>> /\ done' = <<>> /\ Held' = <<>> /\ out' = {}
      BY <1>7 DEF ShutdownJoin, Held
    <3> QED BY <1>d, <3>1, <3>2, OccEmpty, FS_EmptySet
  <2> QED BY <2>1, <2>2 DEF OneCompletionEach
<1>8. CASE Restart
  <2>1. Held' = Held
    BY <1>8 DEF Restart, Held
  <2>2. OneCompletionEach'
    BY <1>8, <2>1, SamePlaces DEF Restart
  <2>3. JobOnlyReading'
    BY <1>8 DEF Restart, JobOnlyReading, IInv, PoolUp
  <2> QED BY <2>2, <2>3
<1>9. ASSUME NEW w \in Worker, WorkerTake(w)
      PROVE  OneCompletionEach' /\ JobOnlyReading'
  <2>1. CASE q # <<>>
    <3>1. /\ job' = [job EXCEPT ![w] = Head(q)] /\ q' = Tail(q)
          /\ wpc' = [wpc EXCEPT ![w] = "read"] /\ done' = done /\ out' = out
          /\ hpc' = hpc /\ call' = call
      BY <1>9, <2>1 DEF WorkerTake
    <3>2. job[w] = NoReq
      BY <1>9 DEF WorkerTake, JobOnlyReading
    <3>3. ASSUME NEW r \in Req
          PROVE  Places(r)' = IF r \in out' THEN 1 ELSE 0
      <4>1. Holders(r)' = IF Head(q) = r THEN Holders(r) \cup {w} ELSE Holders(r)
        BY <1>0, <3>1, <3>2, ReqFinite DEF Holders, TypeOK
      <4>2. w \notin Holders(r)
        BY <3>2, ReqFinite DEF Holders
      <4>3. Cardinality(Holders(r)') =
              Cardinality(Holders(r)) + (IF Head(q) = r THEN 1 ELSE 0)
        <5>1. IsFiniteSet(Holders(r)) /\ Cardinality(Holders(r)) \in Nat
          BY <1>c
        <5>2. Cardinality(Holders(r) \cup {w}) = Cardinality(Holders(r)) + 1
          BY <4>2, <5>1, FS_AddElement
        <5> QED BY <4>1, <5>1, <5>2
      <4>4. Occ(q, r) = (IF Head(q) = r THEN 1 ELSE 0) + Occ(q', r)
        BY <1>0, <2>1, <3>1, OccTail
      <4>5. Occ(q', r) \in Nat
        BY <1>0, <2>1, <3>1, HeadTailProperties, OccType
      <4>6. Held' = Held
        BY <3>1 DEF Held
      <4> QED BY <1>c, <1>d, <3>1, <4>3, <4>4, <4>5, <4>6
    <3>4. JobOnlyReading'
      BY <1>0, <3>1 DEF JobOnlyReading, TypeOK
    <3> QED BY <3>3, <3>4 DEF OneCompletionEach
  <2>2. CASE q = <<>>
    <3>1. Held' = Held
      BY <1>9 DEF WorkerTake, Held
    <3>2. OneCompletionEach'
      BY <1>9, <2>2, <3>1, SamePlaces DEF WorkerTake
    <3> QED BY <1>0, <1>9, <2>2, <3>2 DEF WorkerTake, JobOnlyReading, TypeOK
  <2> QED BY <2>1, <2>2
<1>10. ASSUME NEW w \in Worker, CompleteAny(w)
       PROVE  OneCompletionEach' /\ JobOnlyReading'
  <2>1. PICK ok \in BOOLEAN : WorkerComplete(w, ok)
    BY <1>10 DEF CompleteAny
  <2>2. /\ job' = [job EXCEPT ![w] = NoReq] /\ done' = Append(done, job[w])
        /\ wpc' = [wpc EXCEPT ![w] = "notify"] /\ q' = q /\ out' = out
        /\ hpc' = hpc /\ call' = call
    BY <2>1 DEF WorkerComplete
  <2>3. job[w] \in Req
    BY <2>1 DEF WorkerComplete, IInv, JobHeld
  <2>4. ASSUME NEW r \in Req
        PROVE  Places(r)' = IF r \in out' THEN 1 ELSE 0
    <3>1. Holders(r)' = Holders(r) \ {w}
      BY <1>0, <2>2, ReqFinite DEF Holders, TypeOK
    <3>2. w \in Holders(r) <=> job[w] = r
      BY DEF Holders
    <3>3. CASE job[w] = r
      <4>1. Cardinality(Holders(r)') = Cardinality(Holders(r)) - 1
        BY <1>c, <3>1, <3>2, <3>3, FS_RemoveElement
      <4>2. Occ(done', r) = Occ(done, r) + 1
        BY <1>0, <2>2, <2>3, <3>3, OccAppend
      <4>3. Held' = Held
        BY <2>2 DEF Held
      <4> QED BY <1>c, <1>d, <2>2, <4>1, <4>2, <4>3
    <3>4. CASE job[w] # r
      <4>1. Holders(r)' = Holders(r)
        BY <3>1, <3>2, <3>4
      <4>2. Occ(done', r) = Occ(done, r)
        BY <1>0, <1>c, <2>2, <2>3, <3>4, OccAppend
      <4>3. Held' = Held
        BY <2>2 DEF Held
      <4> QED BY <1>c, <1>d, <2>2, <4>1, <4>2, <4>3
    <3> QED BY <3>3, <3>4
  <2>5. JobOnlyReading'
    BY <1>0, <2>2 DEF JobOnlyReading, TypeOK
  <2> QED BY <2>4, <2>5 DEF OneCompletionEach
<1>11. ASSUME NEW w \in Worker, WorkerNotify(w)
       PROVE  OneCompletionEach' /\ JobOnlyReading'
  <2>1. Held' = Held
    BY <1>11 DEF WorkerNotify, Held
  <2>2. OneCompletionEach'
    BY <1>11, <2>1, SamePlaces DEF WorkerNotify
  <2> QED BY <1>0, <1>11, <2>2 DEF WorkerNotify, JobOnlyReading, TypeOK
<1>12. CASE UNCHANGED vars
  <2>1. Held' = Held
    BY <1>12 DEF vars, Held
  <2>2. OneCompletionEach'
    BY <1>12, <2>1, SamePlaces DEF vars
  <2> QED BY <1>12, <2>2 DEF vars, JobOnlyReading
<1> QED
  BY <1>1, <1>2, <1>3, <1>4, <1>5, <1>6, <1>7, <1>8, <1>9, <1>10, <1>11, <1>12
     DEF Next

\* Every request the caller still waits for is in exactly one place, once, however the workers
\* take, complete and announce their reads: no completion is lost or doubled.
THEOREM CompletesOnce == Spec => []OneCompletionEach
<1>1. OInv => OneCompletionEach
  BY DEF OInv
<1> QED BY <1>1, InitOInv, StepOInv, PTL DEF Spec

-----------------------------------------------------------------------------
\* The ring.  A set of natural numbers that is not empty has a least one.
LEMMA LeastNat ==
    ASSUME NEW N \in SUBSET Nat, N # {}
    PROVE  \E m \in N : \A k \in N : m <= k
<1>1. PICK m \in N : \A k \in N : ~(<<k, m>> \in OpToRel(<, Nat))
  BY NatLessThanWellFounded, WFMin
<1>2. \A k \in N : ~(k < m)
  BY <1>1 DEF OpToRel
<1> QED BY <1>2

\* A sequence of requests without repetition.
Each(s, S) == s \in Seq(S) /\ IsInjective(s)

\* Without repetition, by the places of the sequence.
LEMMA EachIs ==
    ASSUME NEW S, NEW s
    PROVE  Each(s, S) <=> s \in Seq(S) /\ \A i, j \in 1..Len(s) : s[i] = s[j] => i = j
<1>1. CASE s \in Seq(S)
  <2>1. DOMAIN s = 1..Len(s)
    BY <1>1, LenProperties
  <2> QED BY <2>1 DEF Each, IsInjective
<1>2. CASE s \notin Seq(S)
  BY <1>2 DEF Each
<1> QED BY <1>1, <1>2

\* The elements of a sequence, by its places.
LEMMA ToSetIs ==
    ASSUME NEW S, NEW s \in Seq(S)
    PROVE  ToSet(s) = {s[i] : i \in 1..Len(s)} /\ ToSet(s) \subseteq S
<1>1. DOMAIN s = 1..Len(s) /\ s \in [1..Len(s) -> S]
  BY LenProperties
<1> QED BY <1>1 DEF ToSet

LEMMA EachEmpty == ASSUME NEW S PROVE Each(<<>>, S) /\ ToSet(<<>>) = {} /\ Len(<<>>) = 0
<1>1. <<>> \in Seq(S) /\ Len(<<>>) = 0
  BY EmptySeq
<1>2. \A i, j \in 1..0 : FALSE
  OBVIOUS
<1>3. Each(<<>>, S)
  BY <1>1, <1>2, EachIs
<1>4. ToSet(<<>>) = {<<>>[i] : i \in 1..0}
  BY <1>1, ToSetIs
<1>5. 1..0 = {}
  OBVIOUS
<1> QED BY <1>1, <1>3, <1>4, <1>5

\* The two parts of a sequence cut at k.
LEMMA EachSplit ==
    ASSUME NEW S, NEW s, Each(s, S), NEW k \in 0..Len(s)
    PROVE  LET a == SubSeq(s, 1, k)
               b == SubSeq(s, k + 1, Len(s))
           IN  /\ Each(a, S) /\ Len(a) = k /\ Each(b, S) /\ Len(b) = Len(s) - k
               /\ ToSet(s) = ToSet(a) \cup ToSet(b) /\ ToSet(a) \cap ToSet(b) = {}
<1> DEFINE n == Len(s)
           a == SubSeq(s, 1, k)
           b == SubSeq(s, k + 1, n)
<1>1. s \in Seq(S) /\ n \in Nat /\ \A i \in 1..n : s[i] \in S
  BY LenProperties, ElementOfSeq DEF Each
<1>2. \A i, j \in 1..n : s[i] = s[j] => i = j
  BY EachIs
<1>3. k \in Nat /\ k <= n
  BY <1>1
<1> HIDE DEF n
<1>4. a \in Seq(S) /\ Len(a) = k /\ \A i \in 1..k : a[i] = s[i]
  <2>1. \A i \in 1..k : s[i] \in S
    BY <1>1, <1>3
  <2> QED BY <1>3, <2>1, SubSeqProperties
<1>5. b \in Seq(S) /\ Len(b) = n - k /\ \A i \in 1..(n - k) : b[i] = s[k + i]
  <2>1. \A i \in (k + 1)..n : s[i] \in S
    BY <1>1, <1>3
  <2>2. /\ b \in Seq(S) /\ Len(b) = IF k + 1 <= n THEN n - (k + 1) + 1 ELSE 0
        /\ \A i \in 1..(n - (k + 1) + 1) : b[i] = s[(k + 1) + i - 1]
    BY <1>1, <1>3, <2>1, SubSeqProperties
  <2> QED BY <1>1, <1>3, <2>2
<1> HIDE DEF a, b
<1>6. Each(a, S) /\ Each(b, S)
  <2>1. \A i, j \in 1..k : a[i] = a[j] => i = j
    BY <1>1, <1>2, <1>3, <1>4
  <2>2. \A i, j \in 1..(n - k) : b[i] = b[j] => i = j
    <3> SUFFICES ASSUME NEW i \in 1..(n - k), NEW j \in 1..(n - k), b[i] = b[j] PROVE i = j
      OBVIOUS
    <3>1. k + i \in 1..n /\ k + j \in 1..n
      BY <1>1, <1>3
    <3>2. s[k + i] = s[k + j]
      BY <1>5
    <3>3. k + i = k + j
      BY <1>2, <3>1, <3>2
    <3> QED BY <1>1, <1>3, <3>3
  <2> QED BY <1>4, <1>5, <2>1, <2>2, EachIs
<1>7. ToSet(s) = {s[i] : i \in 1..n} /\ ToSet(a) = {a[i] : i \in 1..k}
      /\ ToSet(b) = {b[i] : i \in 1..(n - k)}
  <2>1. ToSet(s) = {s[i] : i \in 1..n}
    BY <1>1, ToSetIs DEF n
  <2>2. ToSet(a) = {a[i] : i \in 1..k}
    BY <1>4, ToSetIs
  <2>3. ToSet(b) = {b[i] : i \in 1..(n - k)}
    BY <1>5, ToSetIs
  <2> QED BY <2>1, <2>2, <2>3
<1>8. ToSet(a) = {s[i] : i \in 1..k}
  BY <1>4, <1>7
<1>9. ToSet(b) = {s[i] : i \in (k + 1)..n}
  <2>1. ASSUME NEW x \in ToSet(b) PROVE x \in {s[i] : i \in (k + 1)..n}
    <3>1. PICK i \in 1..(n - k) : x = b[i]
      BY <1>7
    <3>2. k + i \in (k + 1)..n
      BY <1>1, <1>3
    <3> QED BY <1>5, <3>1, <3>2
  <2>2. ASSUME NEW i \in (k + 1)..n PROVE s[i] \in ToSet(b)
    <3>1. i - k \in 1..(n - k) /\ k + (i - k) = i
      BY <1>1, <1>3
    <3>2. b[i - k] = s[i]
      BY <1>5, <3>1
    <3> QED BY <1>7, <3>1, <3>2
  <2> QED BY <2>1, <2>2
<1>10. 1..n = (1..k) \cup ((k + 1)..n)
  BY <1>1, <1>3
<1>11. ToSet(s) = ToSet(a) \cup ToSet(b)
  BY <1>7, <1>8, <1>9, <1>10
<1>12. ToSet(a) \cap ToSet(b) = {}
  <2> SUFFICES ASSUME NEW i \in 1..k, NEW j \in (k + 1)..n, s[i] = s[j] PROVE FALSE
    BY <1>8, <1>9
  <2>1. i \in 1..n /\ j \in 1..n /\ i # j
    BY <1>1, <1>3
  <2> QED BY <1>2, <2>1
<1> QED BY <1>4, <1>5, <1>6, <1>11, <1>12 DEF a, b, n

\* Two sequences with nothing in common, one after the other.
LEMMA EachConcat ==
    ASSUME NEW S, NEW s, NEW t, Each(s, S), Each(t, S), ToSet(s) \cap ToSet(t) = {}
    PROVE  /\ Each(s \o t, S) /\ Len(s \o t) = Len(s) + Len(t)
           /\ ToSet(s \o t) = ToSet(s) \cup ToSet(t)
<1> DEFINE m == Len(s)  n == Len(t)  c == s \o t
<1>1. s \in Seq(S) /\ t \in Seq(S) /\ m \in Nat /\ n \in Nat
  BY LenProperties DEF Each
<1>2. /\ c \in Seq(S) /\ Len(c) = m + n
      /\ \A i \in 1..(m + n) : c[i] = IF i <= m THEN s[i] ELSE t[i - m]
  BY <1>1, ConcatProperties
<1>3. /\ \A i, j \in 1..m : s[i] = s[j] => i = j
      /\ \A i, j \in 1..n : t[i] = t[j] => i = j
  BY EachIs
<1>4. ToSet(s) = {s[i] : i \in 1..m} /\ ToSet(t) = {t[i] : i \in 1..n}
  BY <1>1, ToSetIs
<1> HIDE DEF m, n, c
<1>5. ToSet(c) = {c[i] : i \in 1..(m + n)}
  BY <1>2, ToSetIs
<1>6. \A i \in 1..m : s[i] \in ToSet(s)
  BY <1>4
<1>7. \A i \in 1..n : t[i] \in ToSet(t)
  BY <1>4
<1>8. \A i \in 1..(m + n) : IF i <= m THEN i \in 1..m ELSE i - m \in 1..n
  BY <1>1
<1>9. ToSet(c) = ToSet(s) \cup ToSet(t)
  <2>1. ToSet(c) \subseteq ToSet(s) \cup ToSet(t)
    BY <1>2, <1>5, <1>6, <1>7, <1>8
  <2>2. ASSUME NEW i \in 1..m PROVE s[i] \in ToSet(c)
    <3>1. i \in 1..(m + n) /\ i <= m
      BY <1>1
    <3> QED BY <1>2, <1>5, <3>1
  <2>3. ASSUME NEW i \in 1..n PROVE t[i] \in ToSet(c)
    <3>1. i + m \in 1..(m + n) /\ ~(i + m <= m) /\ (i + m) - m = i
      BY <1>1
    <3>2. c[i + m] = t[i]
      BY <1>2, <3>1
    <3> QED BY <1>5, <3>1, <3>2
  <2> QED BY <1>4, <2>1, <2>2, <2>3
<1>10. \A i, j \in 1..(m + n) : c[i] = c[j] => i = j
  <2> SUFFICES ASSUME NEW i \in 1..(m + n), NEW j \in 1..(m + n), c[i] = c[j] PROVE i = j
    OBVIOUS
  <2>1. c[i] = (IF i <= m THEN s[i] ELSE t[i - m]) /\ c[j] = (IF j <= m THEN s[j] ELSE t[j - m])
    BY <1>2
  <2>2. CASE i <= m /\ j <= m
    BY <1>3, <1>8, <2>1, <2>2
  <2>3. CASE i <= m /\ ~(j <= m)
    BY <1>6, <1>7, <1>8, <2>1, <2>3
  <2>4. CASE ~(i <= m) /\ j <= m
    BY <1>6, <1>7, <1>8, <2>1, <2>4
  <2>5. CASE ~(i <= m) /\ ~(j <= m)
    <3>1. i - m = j - m
      BY <1>3, <1>8, <2>1, <2>5
    <3> QED BY <1>1, <3>1
  <2> QED BY <2>2, <2>3, <2>4, <2>5
<1>11. Each(c, S)
  BY <1>2, <1>10, EachIs
<1> QED BY <1>2, <1>9, <1>11 DEF m, n, c

LEMMA EachOne == ASSUME NEW S, NEW e \in S
                 PROVE  Each(<<e>>, S) /\ ToSet(<<e>>) = {e} /\ Len(<<e>>) = 1
<1>1. <<e>> \in Seq(S) /\ Len(<<e>>) = 1
  OBVIOUS
<1>2. \A i, j \in 1..1 : i = j
  OBVIOUS
<1>3. Each(<<e>>, S)
  BY <1>1, <1>2, EachIs
<1>4. ToSet(<<e>>) = {<<e>>[i] : i \in 1..1}
  BY <1>1, ToSetIs
<1>5. 1..1 = {1} /\ <<e>>[1] = e
  OBVIOUS
<1> QED BY <1>1, <1>3, <1>4, <1>5

\* One request more at the end, one less at the front.
LEMMA EachAppend ==
    ASSUME NEW S, NEW s, Each(s, S), NEW e \in S, e \notin ToSet(s)
    PROVE  /\ Each(Append(s, e), S) /\ Len(Append(s, e)) = Len(s) + 1
           /\ ToSet(Append(s, e)) = ToSet(s) \cup {e}
<1>1. Append(s, e) = s \o <<e>>
  BY AppendIsConcat DEF Each
<1>2. Each(<<e>>, S) /\ ToSet(<<e>>) = {e} /\ Len(<<e>>) = 1
  BY EachOne
<1> QED BY <1>1, <1>2, EachConcat

LEMMA EachTail ==
    ASSUME NEW S, NEW s, Each(s, S), s # <<>>
    PROVE  /\ Head(s) \in S /\ Each(Tail(s), S) /\ Len(Tail(s)) = Len(s) - 1 /\ Len(s) > 0
           /\ ToSet(s) = ToSet(Tail(s)) \cup {Head(s)} /\ Head(s) \notin ToSet(Tail(s))
<1>1. s \in Seq(S) /\ Len(s) \in Nat /\ Len(s) # 0
  BY EmptySeq DEF Each
<1>2. Head(s) = s[1] /\ s[1] \in S
  BY <1>1, ElementOfSeq
<1>3. Tail(s) = SubSeq(s, 1 + 1, Len(s))
  BY <1>1, TailIsSubSeq
<1>4. SubSeq(s, 1, 1) = <<s[1]>>
  <2>1. \A i \in 1..1 : s[i] \in S
    BY <1>2
  <2>2. /\ SubSeq(s, 1, 1) \in Seq(S) /\ Len(SubSeq(s, 1, 1)) = IF 1 <= 1 THEN 1 - 1 + 1 ELSE 0
        /\ \A i \in 1..(1 - 1 + 1) : SubSeq(s, 1, 1)[i] = s[1 + i - 1]
    BY <2>1, SubSeqProperties
  <2>3. <<s[1]>> \in Seq(S) /\ Len(<<s[1]>>) = 1 /\ <<s[1]>>[1] = s[1]
    BY <1>2
  <2>4. Len(SubSeq(s, 1, 1)) = 1 /\ SubSeq(s, 1, 1)[1] = s[1]
    BY <2>2
  <2>5. \A i \in 1..1 : i = 1
    OBVIOUS
  <2>6. \A i \in 1..Len(SubSeq(s, 1, 1)) : SubSeq(s, 1, 1)[i] = <<s[1]>>[i]
    BY <2>3, <2>4, <2>5
  <2> QED BY <2>2, <2>3, <2>4, <2>6, SeqEqual
<1>5. ToSet(SubSeq(s, 1, 1)) = {s[1]}
  BY <1>2, <1>4, EachOne
<1>6. 1 \in 0..Len(s) /\ Len(s) > 0
  BY <1>1
<1>7. /\ Each(SubSeq(s, 1 + 1, Len(s)), S) /\ Len(SubSeq(s, 1 + 1, Len(s))) = Len(s) - 1
      /\ ToSet(s) = ToSet(SubSeq(s, 1, 1)) \cup ToSet(SubSeq(s, 1 + 1, Len(s)))
      /\ ToSet(SubSeq(s, 1, 1)) \cap ToSet(SubSeq(s, 1 + 1, Len(s))) = {}
  <2>1. ASSUME NEW k \in 0..Len(s), k = 1
        PROVE  /\ Each(SubSeq(s, k + 1, Len(s)), S) /\ Len(SubSeq(s, k + 1, Len(s))) = Len(s) - k
               /\ ToSet(s) = ToSet(SubSeq(s, 1, k)) \cup ToSet(SubSeq(s, k + 1, Len(s)))
               /\ ToSet(SubSeq(s, 1, k)) \cap ToSet(SubSeq(s, k + 1, Len(s))) = {}
    BY EachSplit
  <2> QED BY <1>6, <2>1
<1> QED BY <1>2, <1>3, <1>5, <1>6, <1>7

\* Turned around, it holds the same.
LEMMA EachReverse ==
    ASSUME NEW S, NEW s, Each(s, S)
    PROVE  /\ Each(Uring!Reverse(s), S) /\ Len(Uring!Reverse(s)) = Len(s)
           /\ ToSet(Uring!Reverse(s)) = ToSet(s)
<1> DEFINE n == Len(s)  r == Uring!Reverse(s)
<1>1. s \in Seq(S) /\ n \in Nat /\ \A i \in 1..n : s[i] \in S
  BY LenProperties, ElementOfSeq DEF Each
<1>2. \A i, j \in 1..n : s[i] = s[j] => i = j
  BY EachIs
<1>3. r = [i \in 1..n |-> s[(n - i) + 1]]
  BY DEF Uring!Reverse
<1>4. ToSet(s) = {s[i] : i \in 1..n}
  BY <1>1, ToSetIs
<1> HIDE DEF n, r
<1>5. \A i \in 1..n : (n - i) + 1 \in 1..n
  BY <1>1
<1>6. r \in Seq(S) /\ Len(r) = n /\ \A i \in 1..n : r[i] = s[(n - i) + 1]
  <2>1. r \in [1..n -> S]
    BY <1>1, <1>3, <1>5
  <2> QED BY <1>1, <1>3, <2>1
<1>7. \A i, j \in 1..n : r[i] = r[j] => i = j
  <2> SUFFICES ASSUME NEW i \in 1..n, NEW j \in 1..n, r[i] = r[j] PROVE i = j
    OBVIOUS
  <2>1. (n - i) + 1 = (n - j) + 1
    <3>1. (n - i) + 1 \in 1..n /\ (n - j) + 1 \in 1..n
      BY <1>5
    <3>2. s[(n - i) + 1] = s[(n - j) + 1]
      BY <1>6
    <3> QED BY <1>2, <3>1, <3>2
  <2> QED BY <1>1, <2>1
<1>8. ToSet(r) = {r[i] : i \in 1..n}
  BY <1>6, ToSetIs
<1>9. ToSet(r) = ToSet(s)
  <2>1. ToSet(r) \subseteq ToSet(s)
    BY <1>4, <1>5, <1>6, <1>8
  <2>2. ASSUME NEW i \in 1..n PROVE s[i] \in ToSet(r)
    <3>1. (n - i) + 1 \in 1..n /\ (n - ((n - i) + 1)) + 1 = i
      BY <1>1
    <3>2. r[(n - i) + 1] = s[i]
      BY <1>6, <3>1
    <3> QED BY <1>8, <3>1, <3>2
  <2> QED BY <1>4, <2>1, <2>2
<1> QED BY <1>6, <1>7, <1>9, EachIs DEF n, r

\* A sequence without repetition is as long as the set of its elements is large.
LEMMA EachCard ==
    ASSUME NEW S, NEW s, Each(s, S)
    PROVE  IsFiniteSet(ToSet(s)) /\ Cardinality(ToSet(s)) = Len(s) /\ Len(s) \in Nat
<1> DEFINE n == Len(s)  T == ToSet(s)
<1>1. s \in Seq(S) /\ n \in Nat /\ DOMAIN s = 1..n /\ s \in [1..n -> S]
  BY LenProperties DEF Each
<1>2. \A i, j \in 1..n : s[i] = s[j] => i = j
  BY EachIs
<1>3. T = {s[i] : i \in 1..n}
  BY <1>1, ToSetIs
<1> HIDE DEF n, T
<1>4. s \in Bijection(1..n, T)
  <2>1. s \in [1..n -> T]
    BY <1>1, <1>3
  <2>2. \A t \in T : \E i \in 1..n : s[i] = t
    BY <1>3
  <2> QED BY <1>2, <2>1, <2>2 DEF Bijection, Injection, Surjection, IsInjective
<1>5. IsFiniteSet(1..n) /\ Cardinality(1..n) = n
  <2>1. 1 \in Int /\ n \in Int
    BY <1>1
  <2>2. IsFiniteSet(1..n) /\ Cardinality(1..n) = IF 1 > n THEN 0 ELSE n - 1 + 1
    BY <2>1, FS_Interval
  <2> QED BY <1>1, <2>2
<1>6. IsFiniteSet(T) /\ Cardinality(T) = n
  <2>1. ExistsBijection(1..n, T)
    BY <1>4 DEF ExistsBijection
  <2>2. IsFiniteSet(T) /\ Cardinality(T) = Cardinality(1..n)
    BY <1>5, <2>1, FS_Bijection
  <2> QED BY <1>5, <2>2
<1> QED BY <1>1, <1>6 DEF n, T

\* The first k requests of s that are in A.
Kept(s, A, m, f) ==
    f = [n \in 0..m |-> IF n = 0 THEN <<>> ELSE IF s[n] \in A THEN Append(f[n - 1], s[n]) ELSE f[n - 1]]

LEMMA KeptExists == ASSUME NEW s, NEW A PROVE \A m \in Nat : \E f : Kept(s, A, m, f)
<1> DEFINE Without == {m \in Nat : ~\E f : Kept(s, A, m, f)}
<1> SUFFICES ASSUME Without # {} PROVE FALSE
  OBVIOUS
<1>1. PICK m \in Without : \A k \in Without : m <= k
  BY LeastNat
<1>2. m # 0
  <2>1. Kept(s, A, 0, [n \in 0..0 |-> <<>>])
    BY DEF Kept
  <2> QED BY <2>1
<1>3. m - 1 \in Nat /\ m - 1 \notin Without
  <2>1. m \in Nat /\ m - 1 \in Nat
    BY <1>1, <1>2
  <2>2. m - 1 \in Without => m <= m - 1
    BY <1>1
  <2> QED BY <2>1, <2>2
<1>4. PICK f : Kept(s, A, m - 1, f)
  BY <1>3
<1> DEFINE Step(h, n) == IF n = 0 THEN <<>> ELSE IF s[n] \in A THEN Append(h[n - 1], s[n]) ELSE h[n - 1]
           g == [n \in 0..m |-> IF n = m THEN Step(f, m) ELSE f[n]]
<1>5. Kept(s, A, m, g)
  <2>1. ASSUME NEW n \in 0..m PROVE g[n] = Step(g, n)
    <3>1. CASE n = m
      <4>1. m - 1 \in 0..m /\ m - 1 # m /\ g[m - 1] = f[m - 1]
        BY <1>3
      <4> QED BY <1>3, <3>1, <4>1
    <3>2. CASE n # m
      <4>1. n \in 0..(m - 1) /\ (n # 0 => n - 1 \in 0..m /\ n - 1 # m)
        BY <1>3, <3>2
      <4>2. g[n] = f[n] /\ (n # 0 => g[n - 1] = f[n - 1])
        BY <3>2, <4>1
      <4>3. f[n] = Step(f, n)
        BY <1>4, <4>1 DEF Kept
      <4> QED BY <4>2, <4>3
    <3> QED BY <3>1, <3>2
  <2> HIDE DEF Step
  <2>2. g = [n \in 0..m |-> g[n]]
    OBVIOUS
  <2>3. [n \in 0..m |-> g[n]] = [n \in 0..m |-> Step(g, n)]
    BY <2>1
  <2>4. g = [n \in 0..m |-> Step(g, n)]
    BY <2>2, <2>3
  <2> HIDE DEF g
  <2> QED BY <2>4 DEF Kept, Step
<1> QED BY <1>1, <1>5

\* Those(s, A) are the requests of s in A, each once, as in s.
LEMMA EachThose ==
    ASSUME NEW S, NEW s, Each(s, S), NEW A
    PROVE  Each(Uring!Those(s, A), S) /\ ToSet(Uring!Those(s, A)) = ToSet(s) \cap A
<1> DEFINE N == Len(s)
           f == CHOOSE f : Kept(s, A, N, f)
           Fine(n) == Each(f[n], S) /\ ToSet(f[n]) = {s[i] : i \in 1..n} \cap A
           Wrong == {n \in 0..N : ~Fine(n)}
<1>1. s \in Seq(S) /\ N \in Nat /\ (\A i \in 1..N : s[i] \in S) /\ ToSet(s) = {s[i] : i \in 1..N}
  BY LenProperties, ElementOfSeq, ToSetIs DEF Each
<1>2. \A i, j \in 1..N : s[i] = s[j] => i = j
  BY EachIs
<1>3. Kept(s, A, N, f)
  BY <1>1, KeptExists
<1>4. Uring!Those(s, A) = f[N]
  BY DEF Uring!Those, Kept
<1> HIDE DEF f, N
<1>5. \A n \in 0..N : f[n] = IF n = 0 THEN <<>> ELSE IF s[n] \in A THEN Append(f[n - 1], s[n]) ELSE f[n - 1]
  BY <1>3 DEF Kept
<1>6. Wrong = {}
  <2> SUFFICES ASSUME Wrong # {} PROVE FALSE
    OBVIOUS
  <2>1. Wrong \in SUBSET Nat
    BY <1>1
  <2>2. PICK n \in Wrong : \A k \in Wrong : n <= k
    BY <2>1, LeastNat
  <2>3. n \in 0..N /\ n \in Nat /\ ~Fine(n)
    BY <1>1, <2>2
  <2>4. CASE n = 0
    <3>1. f[0] = <<>> /\ 1..0 = {}
      BY <1>5, <2>3, <2>4
    <3>2. Fine(0)
      BY <3>1, EachEmpty
    <3> QED BY <2>3, <2>4, <3>2
  <2>5. CASE n # 0
    <3>1. n - 1 \in 0..N /\ n \in 1..N /\ n - 1 \notin Wrong
      <4>1. n - 1 \in 0..N /\ n \in 1..N
        BY <1>1, <2>3, <2>5
      <4>2. n - 1 \in Wrong => n <= n - 1
        BY <2>2
      <4> QED BY <2>3, <4>1, <4>2
    <3>2. Fine(n - 1)
      BY <3>1
    <3>3. f[n] = IF s[n] \in A THEN Append(f[n - 1], s[n]) ELSE f[n - 1]
      BY <1>5, <2>3, <2>5
    <3>4. {s[i] : i \in 1..n} = {s[i] : i \in 1..(n - 1)} \cup {s[n]}
      <4>1. 1..n = (1..(n - 1)) \cup {n}
        BY <3>1
      <4> QED BY <4>1
    <3>5. s[n] \in S /\ s[n] \notin {s[i] : i \in 1..(n - 1)}
      <4>1. \A i \in 1..(n - 1) : i \in 1..N /\ i # n
        BY <1>1, <3>1
      <4> QED BY <1>1, <1>2, <3>1, <4>1
    <3>6. CASE s[n] \in A
      <4>1. s[n] \notin ToSet(f[n - 1])
        BY <3>2, <3>5
      <4>2. Each(Append(f[n - 1], s[n]), S) /\ ToSet(Append(f[n - 1], s[n])) = ToSet(f[n - 1]) \cup {s[n]}
        BY <3>2, <3>5, <4>1, EachAppend
      <4> QED BY <2>3, <3>2, <3>3, <3>4, <3>6, <4>2
    <3>7. CASE s[n] \notin A
      BY <2>3, <3>2, <3>3, <3>4, <3>7
    <3> QED BY <3>6, <3>7
  <2> QED BY <2>4, <2>5
<1>7. Fine(N)
  BY <1>1, <1>6
<1> QED BY <1>1, <1>4, <1>7

\* Two sets apart count together.
LEMMA ApartCount ==
    ASSUME NEW A, NEW B, IsFiniteSet(A), IsFiniteSet(B), A \cap B = {}
    PROVE  IsFiniteSet(A \cup B) /\ Cardinality(A \cup B) = Cardinality(A) + Cardinality(B)
           /\ Cardinality(A) \in Nat /\ Cardinality(B) \in Nat
<1>1. IsFiniteSet(A \cup B) /\ Cardinality(A \cup B) = Cardinality(A) + Cardinality(B) - Cardinality(A \cap B)
  BY FS_Union
<1>2. Cardinality(A \cap B) = 0
  BY FS_EmptySet
<1>3. Cardinality(A) \in Nat /\ Cardinality(B) \in Nat
  BY FS_CardinalityType
<1> QED BY <1>1, <1>2, <1>3

\* The tags of the ring's reap() in progress.
RingHeld == IF r_hpc = "user" THEN {} ELSE ToSet(r_call.got)

RingTypes ==
    /\ Each(rejected, RingReq) /\ Each(sq, RingReq) /\ Each(cq, RingReq) /\ Each(todo, RingReq)
    /\ kernel \subseteq RingReq
    /\ r_in_flight \in Nat
    /\ r_hpc \in {"user", "flush", "loop"}
    /\ r_call \in [max : Nat, min : Nat, got : Seq(RingReq)] /\ Each(r_call.got, RingReq)

\* A request accepted and not yet returned is in one of five places.
RingApart ==
    /\ ToSet(rejected) \cap (ToSet(sq) \cup kernel \cup ToSet(cq) \cup RingHeld) = {}
    /\ ToSet(sq) \cap (kernel \cup ToSet(cq) \cup RingHeld) = {}
    /\ kernel \cap (ToSet(cq) \cup RingHeld) = {}
    /\ ToSet(cq) \cap RingHeld = {}
    /\ r_out = ToSet(rejected) \cup ToSet(sq) \cup kernel \cup ToSet(cq) \cup RingHeld
    /\ ToSet(todo) \cap r_out = {}

\* in_flight_ counts the first four.
RingCount == r_in_flight = Len(rejected) + Len(sq) + Cardinality(kernel) + Len(cq)

RingInv == RingTypes /\ RingApart /\ RingCount

\* The operators of the ring's module are those of this one.
LEMMA RingOperators ==
    /\ \A s : Uring!ToSet(s) = ToSet(s)
    /\ \A s : Uring!IsInjective(s) = IsInjective(s)
    /\ \A S : Uring!Cardinality(S) = Cardinality(S)
<1>1. \A s : Uring!ToSet(s) = ToSet(s)
  BY DEF Uring!ToSet, ToSet
<1>2. \A s : Uring!IsInjective(s) = IsInjective(s)
  BY DEF Uring!IsInjective, IsInjective
<1>3. \A S : Uring!Cardinality(S) = Cardinality(S)
  BY DEF Uring!Cardinality, Cardinality
<1> QED BY <1>1, <1>2, <1>3

LEMMA KernelFinite == ASSUME kernel \subseteq RingReq
                      PROVE  IsFiniteSet(kernel) /\ Cardinality(kernel) \in Nat
BY RingConstants, FS_Subset, FS_CardinalityType

\* An empty engine.
LEMMA InitRing == Uring!Init => RingInv
<1> SUFFICES ASSUME Uring!Init PROVE RingInv
  OBVIOUS
<1>1. /\ sq = <<>> /\ kernel = {} /\ cq = <<>> /\ rejected = <<>> /\ r_in_flight = 0
      /\ r_hpc = "user" /\ r_call = [max |-> 0, min |-> 0, got |-> <<>>] /\ todo = <<>> /\ r_out = {}
  BY DEF Uring!Init, Uring!Idle
<1>2. Each(<<>>, RingReq) /\ ToSet(<<>>) = {} /\ Len(<<>>) = 0 /\ <<>> \in Seq(RingReq)
  BY EachEmpty DEF Each
<1>3. RingTypes
  BY <1>1, <1>2 DEF RingTypes
<1>4. RingApart
  BY <1>1, <1>2 DEF RingApart, RingHeld
<1>5. RingCount
  BY <1>1, <1>2, FS_EmptySet DEF RingCount
<1> QED BY <1>3, <1>4, <1>5 DEF RingInv

\* What an io_uring_submit() of k entries of the ring moves to the kernel.
LEMMA Taking ==
    ASSUME NEW s, Each(s, RingReq), NEW k \in 0..Len(s),
           kernel \subseteq RingReq, ToSet(s) \cap kernel = {}
    PROVE  LET sq1 == Uring!Left(s, k)
               kernel1 == kernel \cup Uring!Taken(s, k)
           IN  /\ Each(sq1, RingReq) /\ kernel1 \subseteq RingReq
               /\ ToSet(sq1) \cup kernel1 = ToSet(s) \cup kernel
               /\ ToSet(sq1) \cap kernel1 = {}
               /\ Len(sq1) + Cardinality(kernel1) = Len(s) + Cardinality(kernel)
<1> DEFINE a == SubSeq(s, 1, k)
           b == SubSeq(s, k + 1, Len(s))
<1>1. /\ Each(a, RingReq) /\ Len(a) = k /\ Each(b, RingReq) /\ Len(b) = Len(s) - k
      /\ ToSet(s) = ToSet(a) \cup ToSet(b) /\ ToSet(a) \cap ToSet(b) = {}
  BY EachSplit
<1>2. Uring!Left(s, k) = b /\ Uring!Taken(s, k) = ToSet(a)
  BY RingOperators DEF Uring!Left, Uring!Taken
<1>3. Len(s) \in Nat /\ k \in Nat
  BY EachCard
<1> HIDE DEF a, b
<1>4. IsFiniteSet(ToSet(a)) /\ Cardinality(ToSet(a)) = k
  BY <1>1, EachCard
<1>5. IsFiniteSet(kernel)
  BY KernelFinite
<1>6. kernel \cap ToSet(a) = {}
  BY <1>1
<1>7. Cardinality(kernel \cup ToSet(a)) = Cardinality(kernel) + k /\ Cardinality(kernel) \in Nat
  BY <1>4, <1>5, <1>6, ApartCount
<1>8. ToSet(a) \subseteq RingReq
  BY <1>1, ToSetIs DEF Each
<1> QED BY <1>1, <1>2, <1>3, <1>7, <1>8

\* One lemma per action of the ring: each keeps RingInv.
LEMMA RingBatch == RingInv /\ Uring!BatchAny => RingInv'
<1> SUFFICES ASSUME RingInv, Uring!BatchAny PROVE RingInv'
  OBVIOUS
<1>1. PICK s \in Uring!SeqOf(RingReq, Uring!Cardinality(RingReq)) : Uring!IsInjective(s) /\ Uring!Batch(s)
  BY DEF Uring!BatchAny
<1>2. Each(s, RingReq)
  <2>1. Uring!Cardinality(RingReq) \in Nat
    BY RingConstants, RingOperators, FS_CardinalityType
  <2>2. PICK m \in 0..Uring!Cardinality(RingReq) : s \in [1..m -> RingReq]
    BY <1>1 DEF Uring!SeqOf
  <2>3. s \in Seq(RingReq)
    BY <2>1, <2>2
  <2> QED BY <1>1, <2>3, RingOperators DEF Each
<1>3. /\ ToSet(s) \cap r_out = {} /\ todo' = s
      /\ UNCHANGED <<sq, kernel, cq, rejected, r_in_flight, r_hpc, r_call, r_out>>
  BY <1>1, RingOperators DEF Uring!Batch
<1>4. RingTypes'
  BY <1>2, <1>3 DEF RingInv, RingTypes
<1>5. RingApart'
  BY <1>3 DEF RingInv, RingApart, RingHeld
<1>6. RingCount'
  BY <1>3 DEF RingInv, RingCount
<1> QED BY <1>4, <1>5, <1>6 DEF RingInv

LEMMA RejectsJoin ==
    ASSUME NEW b, Each(b, RingReq), Each(rejected, RingReq), ToSet(rejected) \cap ToSet(b) = {}
    PROVE  /\ Each(rejected \o b, RingReq) /\ Len(rejected \o b) = Len(rejected) + Len(b)
           /\ ToSet(rejected \o b) = ToSet(rejected) \cup ToSet(b)
BY EachConcat

LEMMA RingSubmit ==
    ASSUME RingInv, NEW n, NEW k, Uring!Submit(n, k)
    PROVE  RingInv'
<1> DEFINE taken == SubSeq(todo, 1, n)
           rest == SubSeq(todo, n + 1, Len(todo))
           good == Uring!Those(taken, RingReq \ Bad)
           bad == Uring!Those(taken, Bad)
           all == sq \o good
<1>1. /\ r_hpc = "user" /\ n \in 1..Len(todo) /\ k \in 0..Len(all)
      /\ rejected' = rejected \o bad /\ sq' = Uring!Left(all, k)
      /\ kernel' = kernel \cup Uring!Taken(all, k)
      /\ r_in_flight' = r_in_flight + n /\ r_out' = r_out \cup ToSet(taken) /\ todo' = rest
      /\ cq' = cq /\ r_hpc' = r_hpc /\ r_call' = r_call
  BY RingOperators DEF Uring!Submit
<1>2. RingTypes /\ RingApart /\ RingCount
  BY DEF RingInv
<1>3. /\ Each(taken, RingReq) /\ Len(taken) = n /\ Each(rest, RingReq)
      /\ ToSet(todo) = ToSet(taken) \cup ToSet(rest) /\ ToSet(taken) \cap ToSet(rest) = {}
  <2>1. Each(todo, RingReq) /\ n \in 0..Len(todo)
    BY <1>1, <1>2 DEF RingTypes
  <2> QED BY <2>1, EachSplit
<1> HIDE DEF taken, rest
<1>4. /\ Each(good, RingReq) /\ ToSet(good) = ToSet(taken) \cap (RingReq \ Bad)
      /\ Each(bad, RingReq) /\ ToSet(bad) = ToSet(taken) \cap Bad
  BY <1>3, EachThose
<1> HIDE DEF good, bad
<1>5. ToSet(taken) = ToSet(good) \cup ToSet(bad) /\ ToSet(good) \cap ToSet(bad) = {}
  <2>1. ToSet(taken) \subseteq RingReq
    BY <1>3, ToSetIs DEF Each
  <2> QED BY <1>4, <2>1
<1>6. n = Len(good) + Len(bad) /\ Len(good) \in Nat /\ Len(bad) \in Nat /\ n \in Nat
  <2>1. /\ IsFiniteSet(ToSet(good)) /\ Cardinality(ToSet(good)) = Len(good)
        /\ IsFiniteSet(ToSet(bad)) /\ Cardinality(ToSet(bad)) = Len(bad)
        /\ Cardinality(ToSet(taken)) = n
        /\ Len(good) \in Nat /\ Len(bad) \in Nat /\ Len(taken) \in Nat
    BY <1>3, <1>4, EachCard
  <2>2. Cardinality(ToSet(good) \cup ToSet(bad)) = Cardinality(ToSet(good)) + Cardinality(ToSet(bad))
    BY <1>5, <2>1, ApartCount
  <2> QED BY <1>3, <1>5, <2>1, <2>2
<1>7. ToSet(todo) \cap r_out = {} /\ RingHeld = {} /\ RingHeld' = {}
  BY <1>1, <1>2 DEF RingApart, RingHeld
<1>8. /\ Each(all, RingReq) /\ Len(all) = Len(sq) + Len(good)
      /\ ToSet(all) = ToSet(sq) \cup ToSet(good)
  <2>1. ToSet(sq) \cap ToSet(good) = {}
    BY <1>2, <1>3, <1>5, <1>7 DEF RingApart
  <2>2. Each(sq, RingReq) /\ Each(good, RingReq)
    BY <1>2, <1>4 DEF RingTypes
  <2> QED BY <2>1, <2>2, EachConcat
<1>9. /\ Each(rejected', RingReq) /\ Len(rejected') = Len(rejected) + Len(bad)
      /\ ToSet(rejected') = ToSet(rejected) \cup ToSet(bad)
  <2>1. ToSet(rejected) \cap ToSet(bad) = {}
    BY <1>2, <1>3, <1>5, <1>7 DEF RingApart
  <2>2. Each(rejected, RingReq) /\ Each(bad, RingReq)
    BY <1>2, <1>4 DEF RingTypes
  <2>3. /\ Each(rejected \o bad, RingReq) /\ Len(rejected \o bad) = Len(rejected) + Len(bad)
        /\ ToSet(rejected \o bad) = ToSet(rejected) \cup ToSet(bad)
    BY <2>1, <2>2, RejectsJoin
  <2> QED BY <1>1, <2>3
<1> HIDE DEF all
<1>10. /\ Each(sq', RingReq) /\ kernel' \subseteq RingReq
       /\ ToSet(sq') \cup kernel' = ToSet(all) \cup kernel
       /\ ToSet(sq') \cap kernel' = {}
       /\ Len(sq') + Cardinality(kernel') = Len(all) + Cardinality(kernel)
  <2>1. ToSet(all) \cap kernel = {} /\ kernel \subseteq RingReq
    BY <1>2, <1>3, <1>5, <1>7, <1>8 DEF RingApart, RingTypes
  <2> QED BY <1>1, <1>8, <2>1, Taking
<1>11. RingTypes'
  BY <1>1, <1>2, <1>3, <1>6, <1>9, <1>10 DEF RingTypes
<1>12. RingApart'
  BY <1>1, <1>2, <1>3, <1>5, <1>7, <1>8, <1>9, <1>10 DEF RingApart
<1>13. RingCount'
  <2>1. /\ Len(rejected) \in Nat /\ Len(sq) \in Nat /\ Len(cq) \in Nat /\ Cardinality(kernel) \in Nat
        /\ Len(sq') \in Nat /\ Cardinality(kernel') \in Nat
    <3>1. IsFiniteSet(kernel')
      BY <1>10, RingConstants, FS_Subset
    <3> QED BY <1>2, <1>10, <3>1, EachCard, KernelFinite, FS_CardinalityType DEF RingTypes
  <2>2. r_in_flight = Len(rejected) + Len(sq) + Cardinality(kernel) + Len(cq) /\ r_in_flight \in Nat
    BY <1>2 DEF RingCount, RingTypes
  <2>3. Len(cq') = Len(cq)
    BY <1>1
  <2>4. r_in_flight' = r_in_flight + Len(good) + Len(bad)
    BY <1>1, <1>6, <2>2
  <2>5. Len(sq') + Cardinality(kernel') = Len(sq) + Len(good) + Cardinality(kernel)
    BY <1>8, <1>10
  <2>6. Len(rejected') = Len(rejected) + Len(bad)
    BY <1>9
  <2>7. r_in_flight' = Len(rejected') + Len(sq') + Cardinality(kernel') + Len(cq')
    <3>1. r_in_flight' = (Len(rejected) + Len(sq) + Cardinality(kernel) + Len(cq)) + Len(good) + Len(bad)
      BY <2>2, <2>4
    <3>2. r_in_flight' = (Len(rejected) + Len(bad)) + (Len(sq) + Len(good) + Cardinality(kernel)) + Len(cq)
      BY <1>6, <2>1, <3>1
    <3>3. r_in_flight' = Len(rejected') + (Len(sq') + Cardinality(kernel')) + Len(cq')
      BY <2>3, <2>5, <2>6, <3>2
    <3>4. Len(rejected') \in Nat /\ Len(cq') \in Nat
      BY <1>6, <2>1, <2>3, <2>6
    <3> QED BY <2>1, <3>3, <3>4
  <2> QED BY <2>7 DEF RingCount
<1> QED BY <1>11, <1>12, <1>13 DEF RingInv

\* What reap() hands out of rejected_, and what it leaves there.
LEMMA Popping ==
    ASSUME RingInv, NEW max \in Nat
    PROVE  LET n == Uring!Least(max, Len(rejected))
               got == Uring!Reverse(SubSeq(rejected, Len(rejected) - n + 1, Len(rejected)))
               rest == SubSeq(rejected, 1, Len(rejected) - n)
           IN  /\ n \in Nat /\ n <= max /\ n <= Len(rejected) /\ (n < max => rest = <<>>)
               /\ Each(got, RingReq) /\ Len(got) = n /\ Each(rest, RingReq)
               /\ Len(rest) = Len(rejected) - n
               /\ ToSet(rejected) = ToSet(rest) \cup ToSet(got) /\ ToSet(rest) \cap ToSet(got) = {}
<1> DEFINE n == Uring!Least(max, Len(rejected))
           k == Len(rejected) - n
           a == SubSeq(rejected, 1, k)
           b == SubSeq(rejected, k + 1, Len(rejected))
<1>1. Each(rejected, RingReq) /\ Len(rejected) \in Nat
  BY EachCard DEF RingInv, RingTypes
<1>2. n \in Nat /\ n <= max /\ n <= Len(rejected) /\ (n < max => n = Len(rejected))
  BY <1>1 DEF Uring!Least
<1>3. k \in 0..Len(rejected) /\ (n < max => k = 0) /\ Len(rejected) - k = n
  BY <1>1, <1>2
<1> HIDE DEF n, k
<1>4. /\ Each(a, RingReq) /\ Len(a) = k /\ Each(b, RingReq) /\ Len(b) = Len(rejected) - k
      /\ ToSet(rejected) = ToSet(a) \cup ToSet(b) /\ ToSet(a) \cap ToSet(b) = {}
  BY <1>1, <1>3, EachSplit
<1>5. n < max => a = <<>>
  BY <1>3, <1>4, EmptySeq DEF Each
<1>6. /\ Each(Uring!Reverse(b), RingReq) /\ Len(Uring!Reverse(b)) = Len(b)
      /\ ToSet(Uring!Reverse(b)) = ToSet(b)
  BY <1>4, EachReverse
<1> HIDE DEF a, b
<1>7. /\ n \in Nat /\ n <= max /\ n <= Len(rejected) /\ (n < max => a = <<>>)
      /\ Each(Uring!Reverse(b), RingReq) /\ Len(Uring!Reverse(b)) = n /\ Each(a, RingReq)
      /\ Len(a) = Len(rejected) - n
      /\ ToSet(rejected) = ToSet(a) \cup ToSet(Uring!Reverse(b))
      /\ ToSet(a) \cap ToSet(Uring!Reverse(b)) = {}
  BY <1>2, <1>3, <1>4, <1>5, <1>6 DEF k
<1> QED BY <1>7 DEF a, b, k, n

LEMMA RingReapEnter ==
    ASSUME RingInv, NEW max \in Nat, NEW min \in Nat, Uring!ReapEnter(max, min)
    PROVE  RingInv'
<1> DEFINE n == Uring!Least(max, Len(rejected))
           got == Uring!Reverse(SubSeq(rejected, Len(rejected) - n + 1, Len(rejected)))
           rest == SubSeq(rejected, 1, Len(rejected) - n)
           least == Uring!Least(min, r_in_flight)
<1>1. /\ r_hpc = "user" /\ rejected' = rest /\ r_in_flight' = r_in_flight - n
      /\ sq' = sq /\ kernel' = kernel /\ cq' = cq /\ todo' = todo
      /\ \/ /\ r_call' = [max |-> 0, min |-> 0, got |-> got] /\ r_out' = r_out \ ToSet(got)
            /\ r_hpc' = "user"
         \/ /\ r_call' = [max |-> max, min |-> least, got |-> got] /\ r_out' = r_out
            /\ r_hpc' = "flush"
  BY RingOperators DEF Uring!ReapEnter, Uring!Idle
<1>2. RingTypes /\ RingApart /\ RingCount
  BY DEF RingInv
<1>3. /\ n \in Nat /\ n <= Len(rejected)
      /\ Each(got, RingReq) /\ Len(got) = n /\ Each(rest, RingReq)
      /\ Len(rest) = Len(rejected) - n
      /\ ToSet(rejected) = ToSet(rest) \cup ToSet(got) /\ ToSet(rest) \cap ToSet(got) = {}
  BY Popping
<1>4. least \in Nat
  BY <1>2 DEF Uring!Least, RingTypes
<1>5. got \in Seq(RingReq)
  BY <1>3 DEF Each
<1> HIDE DEF n, got, rest, least
<1>6. /\ Len(rejected) \in Nat /\ Len(sq) \in Nat /\ Len(cq) \in Nat /\ Cardinality(kernel) \in Nat
  BY <1>2, EachCard, KernelFinite DEF RingTypes
<1>7. /\ r_in_flight = Len(rejected) + Len(sq) + Cardinality(kernel) + Len(cq) /\ r_in_flight \in Nat
  BY <1>2 DEF RingCount, RingTypes
<1>8. r_in_flight' \in Nat /\ RingCount'
  <2>1. r_in_flight' = r_in_flight - n /\ Len(rejected') = Len(rejected) - n
        /\ Len(sq') = Len(sq) /\ Len(cq') = Len(cq) /\ Cardinality(kernel') = Cardinality(kernel)
    BY <1>1, <1>3
  <2>2. r_in_flight - n = (Len(rejected) - n) + Len(sq) + Cardinality(kernel) + Len(cq)
        /\ r_in_flight - n \in Nat
    <3>1. n \in Nat /\ n <= Len(rejected)
      BY <1>3
    <3> QED BY <1>6, <1>7, <3>1
  <2>3. r_in_flight' = Len(rejected') + Len(sq') + Cardinality(kernel') + Len(cq')
    BY <2>1, <2>2
  <2> QED BY <2>1, <2>2, <2>3 DEF RingCount
<1>9. RingTypes'
  BY <1>1, <1>2, <1>3, <1>4, <1>5, <1>8 DEF RingTypes
<1>10. RingHeld' = IF r_hpc' = "user" THEN {} ELSE ToSet(got)
  BY <1>1 DEF RingHeld
<1>11. RingHeld = {}
  BY <1>1 DEF RingHeld
<1>12. RingApart'
  BY <1>1, <1>2, <1>3, <1>10, <1>11 DEF RingApart
<1> QED BY <1>8, <1>9, <1>12 DEF RingInv

LEMMA RingFlush == ASSUME RingInv, NEW k, Uring!ReapFlush(k) PROVE RingInv'
<1>1. /\ k \in 0..Len(sq) /\ r_hpc = "flush"
      /\ sq' = Uring!Left(sq, k) /\ kernel' = kernel \cup Uring!Taken(sq, k)
      /\ r_call' = [r_call EXCEPT !.min = 0] \/ r_call' = r_call
      /\ r_hpc' = "loop" /\ UNCHANGED <<cq, rejected, r_in_flight, todo, r_out>>
  <2>1. Len(sq) \in Nat
    BY EachCard DEF RingInv, RingTypes
  <2> QED BY <2>1 DEF Uring!ReapFlush
<1>2. RingTypes /\ RingApart /\ RingCount
  BY DEF RingInv
<1>3. /\ Each(sq', RingReq) /\ kernel' \subseteq RingReq
      /\ ToSet(sq') \cup kernel' = ToSet(sq) \cup kernel
      /\ ToSet(sq') \cap kernel' = {}
      /\ Len(sq') + Cardinality(kernel') = Len(sq) + Cardinality(kernel)
  <2>1. Each(sq, RingReq) /\ ToSet(sq) \cap kernel = {} /\ kernel \subseteq RingReq
    BY <1>2 DEF RingApart, RingTypes
  <2> QED BY <1>1, <2>1, Taking
<1>4. r_call' \in [max : Nat, min : Nat, got : Seq(RingReq)] /\ r_call'.got = r_call.got
  BY <1>1, <1>2 DEF RingTypes
<1>5. RingTypes'
  BY <1>1, <1>2, <1>3, <1>4 DEF RingTypes
<1>6. RingHeld' = RingHeld
  BY <1>1, <1>4 DEF RingHeld
<1>7. RingApart'
  BY <1>1, <1>2, <1>3, <1>6 DEF RingApart
<1>8. RingCount'
  <2>1. /\ Len(rejected) \in Nat /\ Len(sq) \in Nat /\ Len(cq) \in Nat /\ Cardinality(kernel) \in Nat
        /\ Len(sq') \in Nat /\ Cardinality(kernel') \in Nat
    <3>1. IsFiniteSet(kernel')
      BY <1>3, RingConstants, FS_Subset
    <3> QED BY <1>2, <1>3, <3>1, EachCard, KernelFinite, FS_CardinalityType DEF RingTypes
  <2>2. Len(cq') = Len(cq) /\ Len(rejected') = Len(rejected)
    BY <1>1
  <2> QED BY <1>1, <1>2, <1>3, <2>1, <2>2 DEF RingCount
<1> QED BY <1>5, <1>7, <1>8 DEF RingInv

LEMMA RingSee == ASSUME RingInv, Uring!ReapSee PROVE RingInv'
<1> DEFINE e == Head(cq)
           got == Append(r_call.got, e)
<1>1. /\ r_hpc = "loop" /\ cq # <<>> /\ cq' = Tail(cq) /\ r_in_flight' = r_in_flight - 1
      /\ UNCHANGED <<sq, kernel, rejected, todo>>
      /\ \/ /\ r_call' = [max |-> 0, min |-> 0, got |-> got] /\ r_out' = r_out \ ToSet(got)
            /\ r_hpc' = "user"
         \/ r_call' = [r_call EXCEPT !.got = got] /\ r_hpc' = r_hpc /\ r_out' = r_out
  BY RingOperators DEF Uring!ReapSee, Uring!Return, Uring!Idle
<1>2. RingTypes /\ RingApart /\ RingCount
  BY DEF RingInv
<1>3. /\ e \in RingReq /\ Each(cq', RingReq) /\ Len(cq') = Len(cq) - 1 /\ Len(cq) > 0
      /\ ToSet(cq) = ToSet(cq') \cup {e} /\ e \notin ToSet(cq')
  BY <1>1, <1>2, EachTail DEF RingTypes
<1>4. RingHeld = ToSet(r_call.got)
  BY <1>1 DEF RingHeld
<1>5. /\ Each(got, RingReq) /\ ToSet(got) = ToSet(r_call.got) \cup {e}
  <2>1. e \notin ToSet(r_call.got)
    BY <1>2, <1>3, <1>4 DEF RingApart
  <2> QED BY <1>2, <1>3, <2>1, EachAppend DEF RingTypes
<1>6. got \in Seq(RingReq)
  BY <1>5 DEF Each
<1> HIDE DEF e, got
<1>7. /\ Len(rejected) \in Nat /\ Len(sq) \in Nat /\ Len(cq) \in Nat /\ Cardinality(kernel) \in Nat
  BY <1>2, EachCard, KernelFinite DEF RingTypes
<1>8. r_in_flight' \in Nat /\ RingCount'
  BY <1>1, <1>2, <1>3, <1>7 DEF RingCount, RingTypes
<1>9. r_call' \in [max : Nat, min : Nat, got : Seq(RingReq)] /\ r_call'.got = got
  BY <1>1, <1>2, <1>6 DEF RingTypes
<1>10. RingTypes'
  BY <1>1, <1>2, <1>3, <1>5, <1>8, <1>9 DEF RingTypes
<1>11. RingHeld' = IF r_hpc' = "user" THEN {} ELSE ToSet(got)
  BY <1>9 DEF RingHeld
<1>12. RingApart'
  BY <1>1, <1>2, <1>3, <1>4, <1>5, <1>11 DEF RingApart
<1> QED BY <1>8, <1>10, <1>12 DEF RingInv

\* reap() returns what it holds, done or interrupted.
LEMMA RingReturn ==
    ASSUME RingInv, Uring!ReapDone \/ Uring!ReapInterrupted
    PROVE  RingInv'
<1>1. /\ r_hpc = "loop" /\ UNCHANGED <<sq, kernel, cq, rejected, r_in_flight, todo>>
      /\ r_call' = [max |-> 0, min |-> 0, got |-> r_call.got]
      /\ r_out' = r_out \ ToSet(r_call.got) /\ r_hpc' = "user"
  BY RingOperators DEF Uring!ReapDone, Uring!ReapInterrupted, Uring!Return, Uring!Idle
<1>2. RingTypes /\ RingApart /\ RingCount
  BY DEF RingInv
<1>3. RingTypes'
  BY <1>1, <1>2 DEF RingTypes
<1>4. RingHeld = ToSet(r_call.got) /\ RingHeld' = {}
  BY <1>1 DEF RingHeld
<1>5. RingApart'
  BY <1>1, <1>2, <1>4 DEF RingApart
<1>6. RingCount'
  BY <1>1, <1>2 DEF RingCount
<1> QED BY <1>3, <1>5, <1>6 DEF RingInv

LEMMA RingPosts == ASSUME RingInv, NEW r \in RingReq, Uring!KernelCompletes(r) PROVE RingInv'
<1>1. /\ r \in kernel /\ kernel' = kernel \ {r} /\ cq' = Append(cq, r)
      /\ UNCHANGED <<sq, rejected, r_in_flight, r_hpc, r_call, todo, r_out>>
  BY DEF Uring!KernelCompletes
<1>2. RingTypes /\ RingApart /\ RingCount
  BY DEF RingInv
<1>3. Each(cq', RingReq) /\ Len(cq') = Len(cq) + 1 /\ ToSet(cq') = ToSet(cq) \cup {r}
  <2>1. r \notin ToSet(cq)
    BY <1>1, <1>2 DEF RingApart
  <2> QED BY <1>1, <1>2, <2>1, EachAppend DEF RingTypes
<1>4. RingTypes'
  BY <1>1, <1>2, <1>3 DEF RingTypes
<1>5. RingHeld' = RingHeld
  BY <1>1 DEF RingHeld
<1>6. RingApart'
  BY <1>1, <1>2, <1>3, <1>5 DEF RingApart
<1>7. Cardinality(kernel') = Cardinality(kernel) - 1 /\ Cardinality(kernel) \in Nat
  <2>1. IsFiniteSet(kernel)
    BY <1>2, KernelFinite DEF RingTypes
  <2> QED BY <1>1, <2>1, FS_RemoveElement, FS_CardinalityType
<1>8. RingCount'
  <2>1. Len(rejected) \in Nat /\ Len(sq) \in Nat /\ Len(cq) \in Nat
    BY <1>2, EachCard DEF RingTypes
  <2>2. Len(sq') = Len(sq) /\ Len(rejected') = Len(rejected)
    BY <1>1
  <2>3. r_in_flight' = Len(rejected) + Len(sq) + Cardinality(kernel) + Len(cq)
    BY <1>1, <1>2 DEF RingCount
  <2>4. \A j, q0, x, c \in Nat : j + q0 + x + c = j + q0 + (x - 1) + (c + 1)
    OBVIOUS
  <2> QED BY <1>3, <1>7, <2>1, <2>2, <2>3, <2>4 DEF RingCount
<1> QED BY <1>4, <1>6, <1>8 DEF RingInv

LEMMA StepRing == RingInv /\ [Uring!Next]_Uring!vars => RingInv'
<1> SUFFICES ASSUME RingInv, [Uring!Next]_Uring!vars PROVE RingInv'
  OBVIOUS
<1>1. CASE Uring!BatchAny
  BY <1>1, RingBatch
<1>2. CASE Uring!SubmitAny
  BY <1>2, RingSubmit DEF Uring!SubmitAny
<1>3. CASE Uring!ReapAny
  <2>1. PICK max \in MaxTags, min \in MinComplete : Uring!ReapEnter(max, min)
    BY <1>3 DEF Uring!ReapAny
  <2>2. max \in Nat /\ min \in Nat
    BY ReapArguments
  <2> QED BY <2>1, <2>2, RingReapEnter
<1>4. CASE Uring!FlushAny
  BY <1>4, RingFlush DEF Uring!FlushAny
<1>5. CASE Uring!ReapSee
  BY <1>5, RingSee
<1>6. CASE Uring!ReapDone \/ Uring!ReapInterrupted
  BY <1>6, RingReturn
<1>7. ASSUME NEW r \in RingReq, Uring!KernelCompletes(r) PROVE RingInv'
  BY <1>7, RingPosts
<1>8. CASE UNCHANGED Uring!vars
  BY <1>8 DEF Uring!vars, RingInv, RingTypes, RingApart, RingHeld, RingCount
<1> QED BY <1>1, <1>2, <1>3, <1>4, <1>5, <1>6, <1>7, <1>8 DEF Uring!Next

\* The five places count together.
LEMMA PlacesCount ==
    ASSUME RingInv
    PROVE  Cardinality(r_out) = r_in_flight + IF r_hpc = "user" THEN 0 ELSE Len(r_call.got)
<1> DEFINE J == ToSet(rejected)  Q == ToSet(sq)  C == ToSet(cq)
<1>1. RingTypes /\ RingApart /\ RingCount
  BY DEF RingInv
<1>2. /\ IsFiniteSet(J) /\ Cardinality(J) = Len(rejected)
      /\ IsFiniteSet(Q) /\ Cardinality(Q) = Len(sq)
      /\ IsFiniteSet(C) /\ Cardinality(C) = Len(cq)
      /\ Len(rejected) \in Nat /\ Len(sq) \in Nat /\ Len(cq) \in Nat
  BY <1>1, EachCard DEF RingTypes
<1>3. /\ IsFiniteSet(RingHeld) /\ Cardinality(RingHeld) \in Nat
      /\ Cardinality(RingHeld) = IF r_hpc = "user" THEN 0 ELSE Len(r_call.got)
  <2>1. CASE r_hpc = "user"
    BY <2>1, FS_EmptySet DEF RingHeld
  <2>2. CASE r_hpc # "user"
    BY <1>1, <2>2, EachCard DEF RingHeld, RingTypes
  <2> QED BY <2>1, <2>2
<1>4. IsFiniteSet(kernel) /\ Cardinality(kernel) \in Nat
  BY <1>1, KernelFinite DEF RingTypes
<1>5. /\ J \cap (Q \cup (kernel \cup (C \cup RingHeld))) = {}
      /\ Q \cap (kernel \cup (C \cup RingHeld)) = {}
      /\ kernel \cap (C \cup RingHeld) = {} /\ C \cap RingHeld = {}
      /\ r_out = J \cup (Q \cup (kernel \cup (C \cup RingHeld)))
  BY <1>1 DEF RingApart
<1> HIDE DEF J, Q, C
<1>6. /\ IsFiniteSet(C \cup RingHeld)
      /\ Cardinality(C \cup RingHeld) = Cardinality(C) + Cardinality(RingHeld)
  BY <1>2, <1>3, <1>5, ApartCount
<1>7. /\ IsFiniteSet(kernel \cup (C \cup RingHeld))
      /\ Cardinality(kernel \cup (C \cup RingHeld)) = Cardinality(kernel) + Cardinality(C \cup RingHeld)
  BY <1>4, <1>5, <1>6, ApartCount
<1>8. /\ IsFiniteSet(Q \cup (kernel \cup (C \cup RingHeld)))
      /\ Cardinality(Q \cup (kernel \cup (C \cup RingHeld))) =
           Cardinality(Q) + Cardinality(kernel \cup (C \cup RingHeld))
  BY <1>2, <1>5, <1>7, ApartCount
<1>9. Cardinality(r_out) = Cardinality(J) + Cardinality(Q \cup (kernel \cup (C \cup RingHeld)))
  <2>1. Cardinality(J \cup (Q \cup (kernel \cup (C \cup RingHeld)))) =
          Cardinality(J) + Cardinality(Q \cup (kernel \cup (C \cup RingHeld)))
    BY <1>2, <1>5, <1>8, ApartCount
  <2> QED BY <1>5, <2>1
<1>10. Cardinality(r_out) = Len(rejected) + (Len(sq) + (Cardinality(kernel) + (Len(cq) + Cardinality(RingHeld))))
  BY <1>2, <1>6, <1>7, <1>8, <1>9
<1>11. Cardinality(r_out) = (Len(rejected) + Len(sq) + Cardinality(kernel) + Len(cq)) + Cardinality(RingHeld)
  <2>1. PICK j \in Nat, p \in Nat, x \in Nat, c \in Nat, h \in Nat :
          /\ j = Len(rejected) /\ p = Len(sq) /\ x = Cardinality(kernel) /\ c = Len(cq)
          /\ h = Cardinality(RingHeld)
    BY <1>2, <1>3, <1>4
  <2>2. Cardinality(r_out) = j + (p + (x + (c + h)))
    BY <1>10, <2>1
  <2>3. j + (p + (x + (c + h))) = (j + p + x + c) + h
    OBVIOUS
  <2> QED BY <2>1, <2>2, <2>3
<1>12. Cardinality(r_out) = r_in_flight + Cardinality(RingHeld)
  BY <1>1, <1>11 DEF RingCount
<1> QED BY <1>3, <1>12

-----------------------------------------------------------------------------
\* What reap() still owes never exceeds what is in flight; it has handed out all rejected tags
\* before it looks for completions; and where it waits with entries left in the ring, its flush
\* gave the kernel a read: that one is still read, or posted, or collected (Begun).
Good == RingReq \ Bad
Begun == \E r \in Good : r \in kernel \cup ToSet(cq) \cup ToSet(r_call.got)
RingOwes ==
    /\ r_hpc # "user" => /\ r_call.min <= r_in_flight + Len(r_call.got)
                         /\ Len(r_call.got) < r_call.max => rejected = <<>>
    /\ sq \in Seq(Good)
    /\ r_hpc = "loop" => sq = <<>> \/ r_call.min = 0 \/ Begun

\* One lemma per action that changes what is owed, then all of them.
LEMMA OwesSubmit == ASSUME RingInv, RingOwes, NEW n, NEW k, Uring!Submit(n, k) PROVE RingOwes'
<1> DEFINE taken == SubSeq(todo, 1, n)
           good == Uring!Those(taken, Good)
           all == sq \o good
<1>1. /\ n \in 1..Len(todo) /\ k \in 0..Len(all) /\ sq' = SubSeq(all, k + 1, Len(all))
      /\ r_hpc' = "user"
  BY DEF Uring!Submit, Uring!Left, Good
<1>2. Each(taken, RingReq)
  <2>1. Each(todo, RingReq) /\ n \in 0..Len(todo)
    BY <1>1 DEF RingInv, RingTypes
  <2> QED BY <2>1, EachSplit
<1> HIDE DEF taken
<1>3. Each(good, RingReq) /\ ToSet(good) \subseteq Good
  BY <1>2, EachThose
<1> HIDE DEF good
<1>4. good \in Seq(Good)
  <2>1. good \in Seq(RingReq) /\ ToSet(good) = {good[i] : i \in 1..Len(good)}
    BY <1>3, ToSetIs DEF Each
  <2>2. \A i \in 1..Len(good) : good[i] \in Good
    BY <1>3, <2>1
  <2> QED BY <2>1, <2>2
<1>5. all \in Seq(Good) /\ Len(all) \in Nat
  BY <1>4 DEF RingOwes
<1> HIDE DEF all
<1>6. sq' \in Seq(Good)
  BY <1>1, <1>5
<1> QED BY <1>1, <1>6 DEF RingOwes

LEMMA OwesEnter ==
    ASSUME RingInv, RingOwes, NEW max \in Nat, NEW min \in Nat, Uring!ReapEnter(max, min)
    PROVE  RingOwes'
<1> DEFINE n == Uring!Least(max, Len(rejected))
           got == Uring!Reverse(SubSeq(rejected, Len(rejected) - n + 1, Len(rejected)))
           rest == SubSeq(rejected, 1, Len(rejected) - n)
           least == Uring!Least(min, r_in_flight)
<1>1. /\ rejected' = rest /\ r_in_flight' = r_in_flight - n /\ sq' = sq
      /\ \/ r_hpc' = "user"
         \/ /\ r_call' = [max |-> max, min |-> least, got |-> got]
            /\ r_hpc' = "flush"
  BY DEF Uring!ReapEnter
<1>2. n \in Nat /\ Len(got) = n /\ (n < max => rest = <<>>)
  BY Popping
<1>3. least \in Nat /\ least <= r_in_flight /\ r_in_flight \in Nat
  BY DEF Uring!Least, RingInv, RingTypes
<1> HIDE DEF n, got, rest, least
<1>4. CASE r_hpc' = "user"
  BY <1>1, <1>4 DEF RingOwes
<1>5. CASE r_call' = [max |-> max, min |-> least, got |-> got] /\ r_hpc' = "flush"
  <2>1. r_call'.min = least /\ r_call'.max = max /\ Len(r_call'.got) = n
    BY <1>2, <1>5
  <2>2. least <= (r_in_flight - n) + n
    BY <1>2, <1>3
  <2> QED BY <1>1, <1>2, <1>5, <2>1, <2>2 DEF RingOwes
<1> QED BY <1>1, <1>4, <1>5

LEMMA OwesFlush == ASSUME RingInv, RingOwes, NEW k, Uring!ReapFlush(k) PROVE RingOwes'
<1>1. /\ k \in 0..Len(sq) /\ r_hpc = "flush" /\ sq' = SubSeq(sq, k + 1, Len(sq))
      /\ kernel' = kernel \cup ToSet(SubSeq(sq, 1, k)) /\ cq' = cq
      /\ r_call' = IF k = 0 /\ sq # <<>> THEN [r_call EXCEPT !.min = 0] ELSE r_call
      /\ r_hpc' = "loop" /\ rejected' = rejected /\ r_in_flight' = r_in_flight
  BY RingOperators DEF Uring!ReapFlush, Uring!Left, Uring!Taken
<1>2. /\ r_call \in [max : Nat, min : Nat, got : Seq(RingReq)] /\ r_in_flight \in Nat
      /\ Len(sq) \in Nat /\ sq \in Seq(Good) /\ Len(r_call.got) \in Nat
  BY EachCard DEF RingInv, RingTypes, RingOwes
<1>3. sq' \in Seq(Good)
  BY <1>1, <1>2
<1>4. CASE k = 0 /\ sq # <<>>
  <2>1. r_call'.min = 0 /\ r_call'.max = r_call.max /\ r_call'.got = r_call.got
    BY <1>1, <1>2, <1>4
  <2> QED BY <1>1, <1>2, <1>3, <2>1 DEF RingOwes
<1>5. CASE sq = <<>>
  <2>1. sq' = <<>> /\ r_call' = r_call
    BY <1>1, <1>5
  <2> QED BY <1>1, <1>3, <2>1 DEF RingOwes
<1>6. CASE k # 0 /\ sq # <<>>
  <2>1. k \in 1..Len(sq) /\ r_call' = r_call
    BY <1>1, <1>2, <1>6
  <2>2. sq[1] \in Good /\ SubSeq(sq, 1, k) \in Seq(Good) /\ Len(SubSeq(sq, 1, k)) = k
        /\ SubSeq(sq, 1, k)[1] = sq[1]
    BY <1>2, <2>1
  <2>3. sq[1] \in ToSet(SubSeq(sq, 1, k))
    <3>1. ToSet(SubSeq(sq, 1, k)) = {SubSeq(sq, 1, k)[i] : i \in 1..Len(SubSeq(sq, 1, k))}
      BY <2>2, ToSetIs
    <3> QED BY <2>1, <2>2, <3>1
  <2>4. Begun'
    BY <1>1, <2>2, <2>3 DEF Begun, Good
  <2> QED BY <1>1, <1>3, <2>1, <2>4 DEF RingOwes
<1> QED BY <1>4, <1>5, <1>6

LEMMA OwesSee == ASSUME RingInv, RingOwes, Uring!ReapSee PROVE RingOwes'
<1> DEFINE got == Append(r_call.got, Head(cq))
<1>1. /\ r_hpc = "loop" /\ cq # <<>> /\ cq' = Tail(cq) /\ r_in_flight' = r_in_flight - 1
      /\ sq' = sq /\ kernel' = kernel /\ rejected' = rejected /\ Len(r_call.got) < r_call.max
      /\ \/ r_hpc' = "user"
         \/ r_call' = [r_call EXCEPT !.got = got] /\ r_hpc' = r_hpc
  BY DEF Uring!ReapSee, Uring!Return
<1>2. /\ r_call \in [max : Nat, min : Nat, got : Seq(RingReq)] /\ r_in_flight \in Nat
      /\ Each(cq, RingReq) /\ Len(r_call.got) \in Nat /\ r_call.got \in Seq(RingReq)
  BY EachCard DEF RingInv, RingTypes
<1>3. Head(cq) \in RingReq /\ ToSet(cq) = ToSet(Tail(cq)) \cup {Head(cq)}
  BY <1>1, <1>2, EachTail
<1>4. Len(got) = Len(r_call.got) + 1 /\ ToSet(got) = ToSet(r_call.got) \cup {Head(cq)}
  <2>1. Head(cq) \notin ToSet(r_call.got)
    BY <1>1, <1>3 DEF RingInv, RingApart, RingHeld
  <2> QED BY <1>2, <1>3, <2>1, EachAppend DEF RingInv, RingTypes
<1> HIDE DEF got
<1>5. CASE r_hpc' = "user"
  BY <1>1, <1>5 DEF RingOwes
<1>6. CASE r_call' = [r_call EXCEPT !.got = got] /\ r_hpc' = r_hpc
  <2>1. r_call'.min = r_call.min /\ r_call'.max = r_call.max /\ r_call'.got = got
    BY <1>2, <1>6
  <2>2. r_call.min <= (r_in_flight - 1) + Len(got)
    BY <1>1, <1>2, <1>4 DEF RingOwes
  <2>3. rejected = <<>>
    BY <1>1 DEF RingOwes
  <2>4. Begun => Begun'
    BY <1>1, <1>3, <1>4, <2>1 DEF Begun, Good
  <2> QED BY <1>1, <1>6, <2>1, <2>2, <2>3, <2>4 DEF RingOwes
<1> QED BY <1>1, <1>5, <1>6

LEMMA OwesPosts ==
    ASSUME RingInv, RingOwes, NEW r \in RingReq, Uring!KernelCompletes(r)
    PROVE  RingOwes'
<1>1. /\ r \in kernel /\ kernel' = kernel \ {r} /\ cq' = Append(cq, r)
      /\ UNCHANGED <<sq, rejected, r_in_flight, r_hpc, r_call>>
  BY DEF Uring!KernelCompletes
<1>2. ToSet(cq') = ToSet(cq) \cup {r}
  <2>1. Each(cq, RingReq) /\ r \notin ToSet(cq)
    BY <1>1 DEF RingInv, RingTypes, RingApart
  <2> QED BY <1>1, <2>1, EachAppend
<1>3. Begun => Begun'
  BY <1>1, <1>2 DEF Begun, Good
<1> QED BY <1>1, <1>3 DEF RingOwes

LEMMA StepOwes == RingInv /\ RingOwes /\ [Uring!Next]_Uring!vars => RingOwes'
<1> SUFFICES ASSUME RingInv, RingOwes, [Uring!Next]_Uring!vars PROVE RingOwes'
  OBVIOUS
<1>1. CASE Uring!BatchAny
  BY <1>1 DEF Uring!BatchAny, Uring!Batch, RingOwes, Begun
<1>2. CASE Uring!SubmitAny
  BY <1>2, OwesSubmit DEF Uring!SubmitAny
<1>3. CASE Uring!ReapAny
  <2>1. PICK max \in MaxTags, min \in MinComplete : Uring!ReapEnter(max, min)
    BY <1>3 DEF Uring!ReapAny
  <2>2. max \in Nat /\ min \in Nat
    BY ReapArguments
  <2> QED BY <2>1, <2>2, OwesEnter
<1>4. CASE Uring!FlushAny
  BY <1>4, OwesFlush DEF Uring!FlushAny
<1>5. CASE Uring!ReapSee
  BY <1>5, OwesSee
<1>6. CASE Uring!ReapDone \/ Uring!ReapInterrupted
  BY <1>6 DEF Uring!ReapDone, Uring!ReapInterrupted, Uring!Return, RingOwes
<1>7. ASSUME NEW r \in RingReq, Uring!KernelCompletes(r) PROVE RingOwes'
  BY <1>7, OwesPosts
<1>8. CASE UNCHANGED Uring!vars
  BY <1>8 DEF Uring!vars, RingOwes, Begun
<1> QED BY <1>1, <1>2, <1>3, <1>4, <1>5, <1>6, <1>7, <1>8 DEF Uring!Next

\* A reap() about to block is owed a completion.  If the kernel has none to post, what is owed is
\* left in the ring, and the read its flush began has come back to it.
LEMMA OwesWaits == ASSUME RingInv, RingOwes PROVE RingStuckOnRemainder
<1> SUFFICES ASSUME r_hpc = "loop", Len(r_call.got) < r_call.min, Len(r_call.got) < r_call.max,
                    cq = <<>>, kernel = {}
             PROVE  sq # <<>> /\ \E i \in DOMAIN r_call.got : r_call.got[i] \in Good
  BY DEF RingStuckOnRemainder, Uring!StuckOnRemainder, Uring!Stuck, Uring!Blocking, Good
<1>1. r_call.min \in Nat /\ Len(r_call.got) \in Nat /\ Len(sq) \in Nat /\ r_call.got \in Seq(RingReq)
  BY EachCard DEF RingInv, RingTypes
<1>2. r_call.min <= r_in_flight + Len(r_call.got) /\ rejected = <<>>
  BY <1>1 DEF RingOwes
<1>3. r_in_flight = Len(sq)
  BY <1>1, <1>2, EachEmpty, FS_EmptySet DEF RingInv, RingCount
<1>4. sq # <<>>
  BY <1>1, <1>2, <1>3, EachEmpty
<1>5. Begun
  BY <1>1, <1>4 DEF RingOwes
<1>6. ToSet(cq) = {}
  BY EachEmpty
<1>7. PICK r \in Good : r \in ToSet(r_call.got)
  BY <1>5, <1>6 DEF Begun
<1> QED BY <1>4, <1>7 DEF ToSet

-----------------------------------------------------------------------------
\* init() chooses a backend once: each step is one of the pool's or one of the ring's, and leaves
\* the other as it is.
LEMMA EachBackend ==
    /\ InitBackend => Init /\ Uring!Init
    /\ [NextBackend]_allvars => [Next]_vars /\ [Uring!Next]_Uring!vars
<1>1. InitBackend => Init /\ Uring!Init
  BY DEF InitBackend
<1>2. ASSUME [NextBackend]_allvars PROVE [Next]_vars /\ [Uring!Next]_Uring!vars
  <2>1. UNCHANGED ring => UNCHANGED Uring!vars
    BY DEF ring, Uring!vars
  <2>2. CASE Threads(Next)
    BY <2>1, <2>2 DEF Threads
  <2>3. CASE Uring!Next /\ UNCHANGED <<vars, backend>>
    BY <2>3
  <2>4. CASE UNCHANGED allvars
    BY <2>1, <2>4 DEF allvars
  <2> QED BY <1>2, <2>2, <2>3, <2>4 DEF NextBackend
<1> QED BY <1>1, <1>2

\* With either backend chosen the engine behaves as the thread pool's specification says, and as
\* the ring's: the one not chosen stands still.
THEOREM BackendsImplemented == BackendSpec => Spec /\ Uring!Spec
BY EachBackend, PTL DEF BackendSpec, Spec, Uring!Spec

\* So what holds of the pool holds of the engine.
THEOREM PoolInBackend ==
    BackendSpec => [](InFlightExact /\ OneCompletionEach /\ NoReadAfterShutdown /\ SleeperHasWaker)
BY BackendsImplemented, InFlightCorrect, CompletesOnce, ShutdownQuiesces, NoLostWakeup, PTL

LEMMA AlwaysRing == BackendSpec => []RingInv
BY EachBackend, InitRing, StepRing, PTL DEF BackendSpec

\* On io_uring, every request submit() accepted is in one place until reap() returns it, and
\* in_flight_ counts those reap() has not: nothing is lost at a full ring, a short
\* io_uring_submit() or an interrupted wait, and nothing comes back twice.
THEOREM RingReturnsOnce == BackendSpec => []RingOneCompletionEach
<1>1. RingInv => RingOneCompletionEach
  <2> SUFFICES ASSUME RingInv PROVE RingOneCompletionEach
    OBVIOUS
  <2>1. Cardinality(r_out) = r_in_flight + IF r_hpc = "user" THEN 0 ELSE Len(r_call.got)
    BY PlacesCount
  <2>2. r_out = ToSet(rejected) \cup ToSet(sq) \cup kernel \cup ToSet(cq) \cup RingHeld
    BY DEF RingInv, RingApart
  <2> QED BY <2>1, <2>2, RingOperators DEF RingOneCompletionEach, Uring!OneCompletionEach, RingHeld
<1> QED BY <1>1, AlwaysRing, PTL

\* reap() blocks only while the kernel executes a read, for every depth of the ring, every batch and
\* however much of the ring each io_uring_submit() takes, but in one case: its own flush was taken in
\* part, and it has collected a read since and still waits for the entries left.
THEOREM RingWaitsForReads == BackendSpec => []RingStuckOnRemainder
<1>1. Uring!Init => RingOwes
  BY DEF Uring!Init, RingOwes
<1>2. RingInv /\ RingOwes => RingStuckOnRemainder
  BY OwesWaits
<1> QED BY <1>1, <1>2, EachBackend, InitRing, StepRing, StepOwes, PTL DEF BackendSpec
=============================================================================

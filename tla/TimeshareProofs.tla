-------------------------- MODULE TimeshareProofs --------------------------
(***************************************************************************)
(* Proofs about the scheduler for any number of requests, sessions and     *)
(* slots, with any quantum and linger.  Before is a total order on the     *)
(* waiters, so pick() is its least element; the inductive invariant TInv   *)
(* adds to the accounting of tickets who sleeps on which alarm and what a  *)
(* request about to park still knows of the waiters it parks for.          *)
(***************************************************************************)
EXTENDS Timeshare, TLAPS, FiniteSetTheorems, SequenceTheorems, WellFoundedInduction

\* The open tickets are the requests that hold a place.
Open == {r \in Request : pc[r] # "out"}
TicketsOpen == ToSet(arrived) = Open

\* No linger runs beside a request, and who sleeps in one has its end as alarm.
LingerAlarms ==
    /\ running # None => linger.left = 0
    /\ linger.left > 0 => \A r \in Request : pc[r] = "asleep" => alarm[r] = "linger"

\* The waiters a request is about to park for still wait, and still come before it.
ParksFor ==
    /\ deserving \subseteq waiting
    /\ deserving # {} => \E r \in Request : pc[r] = "yield"
    /\ \A r \in Request : pc[r] = "yield" => \A w \in deserving : Before(w, r, usage)

TInv == SlotsExact /\ TicketsOpen /\ LingerAlarms /\ ParksFor

\* r is what pick() looks for.
IsPick(r) ==
    /\ running = None /\ r \in Eligible
    /\ \A q \in Eligible \ {r} : Before(r, q, usage)

PickFirst == \A r \in Request : Pick = r <=> IsPick(r)

SInv == TInv /\ TurnIsAwake

-----------------------------------------------------------------------------
\* A set of naturals has a least element.
LEMMA LeastNat ==
    ASSUME NEW T \in SUBSET Nat, T # {}
    PROVE  \E m \in T : \A n \in T : m <= n
<1>1. PICK m \in T : \A n \in T : ~(<<n, m>> \in OpToRel(<, Nat))
  BY NatLessThanWellFounded, WFMin
<1>2. \A n \in T : ~(n < m)
  BY <1>1 DEF OpToRel
<1> QED BY <1>2

\* A ticket's place in the order of arrivals, and only its own.
LEMMA ArrivalPlace ==
    ASSUME TypeOK, NEW r \in ToSet(arrived)
    PROVE  /\ Arrival(r) \in 1..Len(arrived) /\ arrived[Arrival(r)] = r
           /\ Arrival(r) \in Nat
<1>1. arrived \in Seq(Request) /\ DOMAIN arrived = 1..Len(arrived) /\ Len(arrived) \in Nat
  BY DEF TypeOK
<1>2. \E i \in DOMAIN arrived : arrived[i] = r
  BY DEF ToSet
<1> QED BY <1>1, <1>2 DEF Arrival

\* Before is a total order on the tickets.
LEMMA BeforeOrders ==
    ASSUME TypeOK, NEW r \in ToSet(arrived), NEW q \in ToSet(arrived), r # q,
           NEW u \in [Session -> Nat]
    PROVE  Before(r, q, u) <=> ~Before(q, r, u)
<1>1. r \in Request /\ q \in Request
  BY DEF TypeOK, ToSet
<1>2. u[SessionOf[r]] \in Nat /\ u[SessionOf[q]] \in Nat
  BY <1>1 DEF Session
<1>3. Arrival(r) \in Nat /\ Arrival(q) \in Nat /\ Arrival(r) # Arrival(q)
  BY ArrivalPlace
<1> QED BY <1>2, <1>3 DEF Before

\* Some waiter comes before all the others: the least used session's first arrival.
LEMMA FirstExists ==
    ASSUME TypeOK, NEW E, E \subseteq ToSet(arrived), E # {}
    PROVE  \E r \in E : \A q \in E \ {r} : Before(r, q, usage)
<1>1. \A r \in E : /\ r \in Request /\ usage[SessionOf[r]] \in Nat /\ Arrival(r) \in Nat
                   /\ arrived[Arrival(r)] = r
  BY ArrivalPlace DEF TypeOK, ToSet, Session
<1> DEFINE U == {usage[SessionOf[r]] : r \in E}
<1>2. PICK u \in U : \A v \in U : u <= v
  <2>1. U \in SUBSET Nat /\ U # {}
    BY <1>1
  <2> HIDE DEF U
  <2> QED BY <2>1, LeastNat
<1> DEFINE F == {r \in E : usage[SessionOf[r]] = u}
           A == {Arrival(r) : r \in F}
<1>3. F # {} /\ A # {} /\ A \in SUBSET Nat
  BY <1>1, <1>2
<1>4. PICK a \in A : \A b \in A : a <= b
  BY <1>3, LeastNat
<1>5. PICK r \in F : Arrival(r) = a
  BY <1>4
<1>6. ASSUME NEW q \in E \ {r} PROVE Before(r, q, usage)
  <2>1. usage[SessionOf[r]] = u /\ u <= usage[SessionOf[q]] /\ u \in Nat
    BY <1>1, <1>2, <1>5
  <2>2. CASE usage[SessionOf[q]] = u
    <3>1. q \in F /\ Arrival(r) <= Arrival(q) /\ Arrival(r) # Arrival(q)
      BY <1>1, <1>4, <1>5, <1>6, <2>2
    <3> QED BY <1>1, <1>5, <2>1, <2>2, <3>1 DEF Before
  <2>3. CASE usage[SessionOf[q]] # u
    BY <1>1, <2>1, <2>3 DEF Before
  <2> QED BY <2>2, <2>3
<1> QED BY <1>5, <1>6

\* pick() names the one waiter that comes before the others.
LEMMA PickIsFirst == TInv => PickFirst
<1> SUFFICES ASSUME TInv, NEW r \in Request PROVE Pick = r <=> IsPick(r)
  BY DEF PickFirst
<1>1. TypeOK /\ None \notin Request
  BY Requests DEF TInv, SlotsExact
<1>2. Eligible \subseteq ToSet(arrived) /\ Eligible \subseteq Request
  BY DEF TInv, SlotsExact, TicketsOpen, Open, Eligible
<1>3. CASE running # None \/ Eligible = {}
  BY <1>1, <1>3 DEF Pick, IsPick
<1>4. CASE running = None /\ Eligible # {}
  <2> DEFINE First(x) == \A q \in Eligible \ {x} : Before(x, q, usage)
  <2>1. \E x \in Eligible : First(x)
    BY <1>1, <1>2, <1>4, FirstExists
  <2>2. \A x, y \in Eligible : First(x) /\ First(y) => x = y
    <3>1. usage \in [Session -> Nat]
      BY <1>1 DEF TypeOK
    <3> QED BY <1>1, <1>2, <3>1, BeforeOrders
  <2>3. Pick = CHOOSE x \in Eligible : First(x)
    BY <1>4 DEF Pick
  <2>4. Pick \in Eligible /\ First(Pick)
    BY <2>1, <2>3
  <2>5. IsPick(r) <=> r \in Eligible /\ First(r)
    BY <1>4 DEF IsPick
  <2> HIDE DEF First
  <2> QED BY <2>2, <2>4, <2>5
<1> QED BY <1>3, <1>4

-----------------------------------------------------------------------------
\* A new ticket arrives last.
LEMMA AppendKeeps ==
    ASSUME TypeOK, IsInjective(arrived), NEW r \in Request, r \notin ToSet(arrived),
           arrived' = Append(arrived, r)
    PROVE  /\ arrived' \in Seq(Request) /\ Len(arrived') = Len(arrived) + 1
           /\ IsInjective(arrived') /\ ToSet(arrived') = ToSet(arrived) \cup {r}
           /\ \A x \in ToSet(arrived) : Arrival(x)' = Arrival(x)
<1>1. /\ arrived \in Seq(Request) /\ Len(arrived) \in Nat /\ DOMAIN arrived = 1..Len(arrived)
  BY DEF TypeOK
<1>2. /\ arrived' \in Seq(Request) /\ Len(arrived') = Len(arrived) + 1
      /\ DOMAIN arrived' = 1..(Len(arrived) + 1)
      /\ \A i \in 1..Len(arrived) : arrived'[i] = arrived[i]
      /\ arrived'[Len(arrived) + 1] = r
  BY <1>1
<1>3. \A i \in 1..Len(arrived) : arrived[i] # r
  BY <1>1 DEF ToSet
<1>4. IsInjective(arrived')
  BY <1>1, <1>2, <1>3 DEF IsInjective
<1>5. ToSet(arrived') = ToSet(arrived) \cup {r}
  BY <1>1, <1>2 DEF ToSet
<1>6. ASSUME NEW x \in ToSet(arrived) PROVE Arrival(x)' = Arrival(x)
  <2>1. Arrival(x) \in 1..Len(arrived) /\ arrived[Arrival(x)] = x
    BY ArrivalPlace
  <2>2. \A i \in DOMAIN arrived' : arrived'[i] = x <=> i = Arrival(x)
    BY <1>1, <1>2, <1>4, <2>1 DEF IsInjective
  <2>3. Arrival(x)' = CHOOSE i \in DOMAIN arrived' : arrived'[i] = x
    BY DEF Arrival
  <2> QED BY <1>2, <2>1, <2>2, <2>3
<1> QED BY <1>2, <1>4, <1>5, <1>6

\* A ticket that leaves leaves the others in their order.
LEMMA LeaveKeeps ==
    ASSUME TypeOK, IsInjective(arrived), NEW r \in ToSet(arrived),
           arrived' = RemoveAt(arrived, Arrival(r))
    PROVE  /\ arrived' \in Seq(Request) /\ Len(arrived') = Len(arrived) - 1
           /\ IsInjective(arrived') /\ ToSet(arrived') = ToSet(arrived) \ {r}
           /\ \A x, y \in ToSet(arrived') :
                 Arrival(x) < Arrival(y) <=> Arrival(x)' < Arrival(y)'
<1> DEFINE n == Arrival(r)
           len == Len(arrived)
<1>1. /\ arrived \in Seq(Request) /\ len \in Nat /\ DOMAIN arrived = 1..len
      /\ n \in 1..len /\ arrived[n] = r
  BY ArrivalPlace DEF TypeOK
<1> HIDE DEF n, len
<1>2. /\ SubSeq(arrived, 1, n - 1) \in Seq(Request) /\ Len(SubSeq(arrived, 1, n - 1)) = n - 1
      /\ \A i \in 1..(n - 1) : SubSeq(arrived, 1, n - 1)[i] = arrived[i]
  <2>1. \A i \in 1..(n - 1) : arrived[i] \in Request
    BY <1>1 DEF len
  <2> QED BY <1>1, <2>1, SubSeqProperties
<1>3. /\ SubSeq(arrived, n + 1, len) \in Seq(Request) /\ Len(SubSeq(arrived, n + 1, len)) = len - n
      /\ \A i \in 1..(len - n) : SubSeq(arrived, n + 1, len)[i] = arrived[n + i]
  <2>1. \A i \in (n + 1)..len : arrived[i] \in Request
    BY <1>1 DEF len
  <2> QED BY <1>1, <2>1, SubSeqProperties
<1>4. arrived' = SubSeq(arrived, 1, n - 1) \o SubSeq(arrived, n + 1, len)
  BY DEF RemoveAt, n, len
<1>5. /\ arrived' \in Seq(Request) /\ Len(arrived') = len - 1 /\ DOMAIN arrived' = 1..(len - 1)
      /\ \A i \in 1..(len - 1) : arrived'[i] = IF i < n THEN arrived[i] ELSE arrived[i + 1]
  <2>1. /\ arrived' \in Seq(Request) /\ Len(arrived') = (n - 1) + (len - n)
        /\ \A i \in 1..((n - 1) + (len - n)) :
              arrived'[i] = IF i <= n - 1 THEN SubSeq(arrived, 1, n - 1)[i]
                            ELSE SubSeq(arrived, n + 1, len)[i - (n - 1)]
    BY <1>2, <1>3, <1>4, ConcatProperties, SMTT(30)
  <2>2. ASSUME NEW i \in 1..(len - 1)
        PROVE  arrived'[i] = IF i < n THEN arrived[i] ELSE arrived[i + 1]
    <3>1. CASE i < n
      BY <1>1, <1>2, <2>1, <3>1
    <3>2. CASE i >= n
      <4>1. i - (n - 1) \in 1..(len - n) /\ n + (i - (n - 1)) = i + 1
        BY <1>1, <3>2
      <4>2. arrived'[i] = SubSeq(arrived, n + 1, len)[i - (n - 1)]
        BY <1>1, <2>1, <3>2
      <4> QED BY <1>1, <1>3, <3>2, <4>1, <4>2
    <3> QED BY <1>1, <3>1, <3>2
  <2>3. DOMAIN arrived' = 1..Len(arrived')
    BY <2>1
  <2> QED BY <1>1, <2>1, <2>2, <2>3
<1>6. \A i, j \in 1..len : arrived[i] = arrived[j] => i = j
  BY <1>1 DEF IsInjective
<1>7. IsInjective(arrived')
  BY <1>1, <1>5, <1>6 DEF IsInjective
<1>8. ASSUME NEW x \in ToSet(arrived), x # r
      PROVE  LET p == Arrival(x) IN
             /\ p \in 1..len /\ p # n
             /\ Arrival(x)' = IF p < n THEN p ELSE p - 1
             /\ x \in ToSet(arrived')
  <2> DEFINE p == Arrival(x)
             k == IF p < n THEN p ELSE p - 1
  <2>1. p \in 1..len /\ arrived[p] = x /\ p # n
    BY <1>1, <1>8, ArrivalPlace DEF len
  <2> HIDE DEF p
  <2>2. k \in 1..(len - 1) /\ arrived'[k] = x
    BY <1>1, <1>5, <2>1
  <2>3. Arrival(x)' = CHOOSE i \in DOMAIN arrived' : arrived'[i] = x
    BY DEF Arrival
  <2>4. \A i \in DOMAIN arrived' : arrived'[i] = x <=> i = k
    BY <1>5, <1>7, <2>2 DEF IsInjective
  <2>5. Arrival(x)' = k /\ x \in ToSet(arrived')
    BY <1>5, <2>2, <2>3, <2>4 DEF ToSet
  <2> QED BY <2>1, <2>5 DEF p
<1>9. ToSet(arrived') = ToSet(arrived) \ {r}
  <2>1. ASSUME NEW i \in 1..(len - 1) PROVE arrived'[i] \in ToSet(arrived) \ {r}
    <3>1. PICK j \in 1..len : j # n /\ arrived'[i] = arrived[j]
      <4>1. CASE i < n
        BY <1>1, <1>5, <4>1
      <4>2. CASE i >= n
        BY <1>1, <1>5, <4>2
      <4> QED BY <1>1, <4>1, <4>2
    <3> QED BY <1>1, <1>6, <3>1 DEF ToSet
  <2>2. ToSet(arrived') \subseteq ToSet(arrived) \ {r}
    BY <1>5, <2>1 DEF ToSet
  <2> QED BY <2>2, <1>8
<1>10. ASSUME NEW x \in ToSet(arrived'), NEW y \in ToSet(arrived')
       PROVE  Arrival(x) < Arrival(y) <=> Arrival(x)' < Arrival(y)'
  <2>1. /\ Arrival(x) \in 1..len /\ Arrival(x) # n
        /\ Arrival(x)' = IF Arrival(x) < n THEN Arrival(x) ELSE Arrival(x) - 1
    BY <1>8, <1>9
  <2>2. /\ Arrival(y) \in 1..len /\ Arrival(y) # n
        /\ Arrival(y)' = IF Arrival(y) < n THEN Arrival(y) ELSE Arrival(y) - 1
    BY <1>8, <1>9
  <2> QED BY <1>1, <2>1, <2>2
<1> QED BY <1>5, <1>7, <1>9, <1>10 DEF len

\* The decay keeps the order of the sessions' usages.
LEMMA DecayKeeps ==
    ASSUME TypeOK
    PROVE  /\ Decayed \in [Session -> Nat]
           /\ \A s, t \in Session : usage[s] < usage[t] <=> Decayed[s] < Decayed[t]
<1> DEFINE Above(s) == {usage[q] : q \in {p \in Session : usage[p] <= usage[s]}} \ {0}
           V == {usage[q] : q \in Session}
           f == [r \in Request |-> usage[SessionOf[r]]]
<1>1. usage \in [Session -> Nat]
  BY DEF TypeOK
<1>2. IsFiniteSet(V)
  <2>1. f \in Surjection(Request, V)
    BY DEF Session, Surjection
  <2> HIDE DEF f, V
  <2> QED BY <2>1, Requests, FS_Surjection
<1>3. ASSUME NEW s \in Session
      PROVE  Above(s) \in SUBSET V /\ IsFiniteSet(Above(s)) /\ Cardinality(Above(s)) \in Nat
  <2>1. Above(s) \in SUBSET V
    OBVIOUS
  <2> HIDE DEF Above, V
  <2> QED BY <1>2, <2>1, FS_Subset, FS_CardinalityType
<1>4. ASSUME NEW s \in Session, NEW t \in Session, usage[s] <= usage[t]
      PROVE  Cardinality(Above(s)) <= Cardinality(Above(t))
  <2>1. Above(s) \in SUBSET Above(t)
    BY <1>1, <1>4
  <2> HIDE DEF Above
  <2> QED BY <1>3, <2>1, FS_Subset
<1>5. ASSUME NEW s \in Session, NEW t \in Session, usage[s] < usage[t]
      PROVE  Cardinality(Above(s)) < Cardinality(Above(t))
  <2>1. Above(s) \in SUBSET Above(t) /\ usage[t] \in Above(t) /\ usage[t] \notin Above(s)
    BY <1>1, <1>5
  <2> HIDE DEF Above
  <2>2. Cardinality(Above(s)) <= Cardinality(Above(t)) /\ Cardinality(Above(s)) # Cardinality(Above(t))
    BY <1>3, <2>1, FS_Subset
  <2> QED BY <1>3, <2>2
<1>6. \A s \in Session : Decayed[s] = Cardinality(Above(s))
  BY DEF Decayed
<1>7. Decayed \in [Session -> Nat]
  BY <1>3 DEF Decayed
<1>8. ASSUME NEW s \in Session, NEW t \in Session
      PROVE  usage[s] < usage[t] <=> Decayed[s] < Decayed[t]
  <2> HIDE DEF Above
  <2>1. usage[s] \in Nat /\ usage[t] \in Nat
    BY <1>1
  <2> QED BY <2>1, <1>3, <1>4, <1>5, <1>6
<1> QED BY <1>7, <1>8

-----------------------------------------------------------------------------
\* The states of the linger.
Lingers == [left : 0 .. Linger, session : Session \cup {None}, slice : 0 .. Quantum]

\* Initially nobody is there.
LEMMA InitSInv == Init => SInv
<1> SUFFICES ASSUME Init PROVE SInv
  OBVIOUS
<1>1. TypeOK
  <2>1. NoLinger \in Lingers /\ 0 \in 0..MaxOpen /\ 0 \in 0..Quantum
    BY Slots, Times DEF NoLinger, Lingers
  <2> QED BY <2>1, EmptySeq DEF Init, TypeOK, Lingers
<1>2. arrived = <<>> /\ Len(arrived) = 0 /\ ToSet(arrived) = {} /\ IsInjective(arrived)
  BY EmptySeq DEF Init, ToSet, IsInjective
<1>3. Open = {}
  BY DEF Init, Open
<1>4. SlotsExact
  BY <1>1, <1>2, <1>3, FS_EmptySet, Requests DEF Init, SlotsExact, Open
<1>5. LingerAlarms /\ ParksFor /\ TicketsOpen
  BY <1>2, <1>3 DEF Init, LingerAlarms, ParksFor, TicketsOpen, NoLinger
<1>6. TurnIsAwake
  BY DEF Init, TurnIsAwake
<1> QED BY <1>4, <1>5, <1>6 DEF SInv, TInv

\* The tickets counted, as far as a step that opens and closes none changes them.
LEMMA SameTickets ==
    ASSUME TInv, UNCHANGED <<arrived, n_open>>, Open' = Open
    PROVE  /\ n_open' = Cardinality(Open') /\ n_open' = Len(arrived') /\ IsInjective(arrived')
           /\ TicketsOpen'
  BY DEF TInv, SlotsExact, TicketsOpen, Open

\* ... and a step that closes r's.
LEMMA LeaveTickets ==
    ASSUME TInv, NEW r \in Open, Leave(r), Open' = Open \ {r}
    PROVE  /\ n_open' = Cardinality(Open') /\ n_open' = Len(arrived') /\ IsInjective(arrived')
           /\ n_open' \in 0..MaxOpen /\ arrived' \in Seq(Request) /\ TicketsOpen'
<1>1. IsFiniteSet(Open) /\ Open \subseteq Request
  BY Requests, FS_Subset DEF Open
<1>2. Cardinality(Open) = n_open /\ n_open = Len(arrived) /\ n_open \in 0..MaxOpen /\ TypeOK
  BY DEF TInv, SlotsExact, TypeOK, Open
<1>3. Cardinality(Open \ {r}) = n_open - 1 /\ Cardinality(Open \ {r}) \in Nat
  BY <1>1, <1>2, FS_RemoveElement, FS_CardinalityType
<1>4. /\ arrived' \in Seq(Request) /\ Len(arrived') = Len(arrived) - 1
      /\ IsInjective(arrived') /\ ToSet(arrived') = ToSet(arrived) \ {r}
  BY <1>2, LeaveKeeps DEF Leave, TInv, TicketsOpen, SlotsExact
<1>5. n_open' = n_open - 1
  BY DEF Leave
<1> QED BY <1>2, <1>3, <1>4, <1>5, Slots DEF TInv, TicketsOpen

\* Every step keeps the accounting of the tickets, one case per action.
LEMMA StepTickets == TInv /\ [Next]_vars => SlotsExact' /\ TicketsOpen'
<1> SUFFICES ASSUME TInv, [Next]_vars PROVE SlotsExact' /\ TicketsOpen'
  OBVIOUS
<1>0. TypeOK /\ None \notin Request /\ SlotsExact /\ Slots /\ Times
  BY Requests, Slots, Times DEF TInv, SlotsExact
<1>1. ASSUME NEW r \in Request, Admit(r) PROVE SlotsExact' /\ TicketsOpen'
  <2>1. Open' = Open \cup {r} /\ r \notin Open
    BY <1>0, <1>1 DEF Admit, Open, TypeOK
  <2>2. IsFiniteSet(Open) /\ Cardinality(Open) = n_open
    BY Requests, FS_Subset, <1>0 DEF Open, SlotsExact
  <2>3. Cardinality(Open') = n_open + 1
    BY <2>1, <2>2, FS_AddElement
  <2>4. /\ arrived' \in Seq(Request) /\ Len(arrived') = Len(arrived) + 1
        /\ IsInjective(arrived') /\ ToSet(arrived') = ToSet(arrived) \cup {r}
    BY <1>0, <1>1, <2>1, AppendKeeps DEF Admit, TInv, SlotsExact, TicketsOpen
  <2>5. TypeOK'
    BY <1>0, <1>1, <2>4 DEF Admit, TypeOK
  <2>6. TicketsOpen'
    BY <2>1, <2>4 DEF TInv, TicketsOpen
  <2> QED BY <1>0, <1>1, <2>3, <2>4, <2>5, <2>6 DEF Admit, SlotsExact, Open, TypeOK
<1>2. ASSUME NEW r \in Request, Acquire(r) PROVE SlotsExact' /\ TicketsOpen'
  <2>1. Open' = Open
    BY <1>0, <1>2 DEF Acquire, Open, TypeOK
  <2>2. TypeOK'
    BY <1>0, <1>2 DEF Acquire, TypeOK
  <2>3. waiting' = {q \in Request : pc'[q] \in {"awake", "asleep", "idle"}}
    BY <1>0, <1>2 DEF Acquire, SlotsExact, TypeOK
  <2>4. {q \in Request : pc'[q] \in {"run", "yield"}} = {running'} \ {None}
    BY <1>0, <1>2 DEF Acquire, SlotsExact, TypeOK
  <2> QED BY <1>0, <1>2, <2>1, <2>2, <2>3, <2>4, SameTickets DEF Acquire, SlotsExact, Open
<1>3. ASSUME NEW r \in Request, Sleep(r) \/ LingerEnds(r) \/ IdleDue(r) \/ IdleKeeps(r)
      PROVE  SlotsExact' /\ TicketsOpen'
  <2>1. Open' = Open
    BY <1>0, <1>3 DEF Sleep, LingerEnds, IdleDue, IdleKeeps, Open, TypeOK
  <2>2. TypeOK'
    BY <1>0, <1>3 DEF Sleep, LingerEnds, IdleDue, IdleKeeps, TypeOK, Alarm
  <2>3. waiting' = {q \in Request : pc'[q] \in {"awake", "asleep", "idle"}}
    BY <1>0, <1>3 DEF Sleep, LingerEnds, IdleDue, IdleKeeps, SlotsExact, TypeOK
  <2>4. {q \in Request : pc'[q] \in {"run", "yield"}} = {running'} \ {None}
    BY <1>0, <1>3 DEF Sleep, LingerEnds, IdleDue, IdleKeeps, SlotsExact, TypeOK
  <2>5. UNCHANGED <<arrived, n_open, waiting, parked>>
    BY <1>3 DEF Sleep, LingerEnds, IdleDue, IdleKeeps
  <2> QED BY <1>0, <2>1, <2>2, <2>3, <2>4, <2>5, SameTickets DEF SlotsExact, Open
<1>4. ASSUME NEW r \in Request, Abandon(r) PROVE SlotsExact' /\ TicketsOpen'
  <2>1. r \in Open /\ Open' = Open \ {r}
    BY <1>0, <1>4 DEF Abandon, Woken, Open, TypeOK
  <2>2. /\ n_open' = Cardinality(Open') /\ n_open' = Len(arrived') /\ IsInjective(arrived')
        /\ n_open' \in 0..MaxOpen /\ arrived' \in Seq(Request) /\ TicketsOpen'
    BY <1>4, <2>1, LeaveTickets DEF Abandon
  <2>3. TypeOK'
    BY <1>0, <1>4, <2>2 DEF Abandon, Leave, Woken, TypeOK
  <2>4. waiting' = {q \in Request : pc'[q] \in {"awake", "asleep", "idle"}}
    BY <1>0, <1>4 DEF Abandon, Woken, SlotsExact, TypeOK
  <2>5. {q \in Request : pc'[q] \in {"run", "yield"}} = {running'} \ {None}
    BY <1>0, <1>4 DEF Abandon, Woken, SlotsExact, TypeOK
  <2>6. parked' \subseteq waiting'
    BY <1>0, <1>4 DEF Abandon, Leave, SlotsExact
  <2> QED BY <2>2, <2>3, <2>4, <2>5, <2>6 DEF SlotsExact, Open
<1>5. ASSUME NEW r \in Request, Take(r) PROVE SlotsExact' /\ TicketsOpen'
  <2>0. running = None
    BY <1>0, <1>5 DEF Take, Pick
  <2>1. Open' = Open
    BY <1>0, <1>5 DEF Take, Open, TypeOK
  <2>2. TypeOK'
    <3>1. linger \in Lingers /\ linger.slice \in 0..Quantum /\ NoLinger \in Lingers /\ 0 \in 0..Quantum
      BY <1>0 DEF TypeOK, Lingers, NoLinger
    <3>2. linger' \in Lingers /\ slice' \in 0..Quantum
      BY <1>5, <3>1 DEF Take, SliceOnTake
    <3> QED BY <1>0, <1>5, <3>2 DEF Take, TypeOK, Lingers
  <2>3. waiting' = {q \in Request : pc'[q] \in {"awake", "asleep", "idle"}}
    BY <1>0, <1>5 DEF Take, SlotsExact, TypeOK
  <2>4. {q \in Request : pc'[q] \in {"run", "yield"}} = {running'} \ {None}
    BY <1>0, <1>5, <2>0 DEF Take, SlotsExact, TypeOK
  <2>5. UNCHANGED <<arrived, n_open>> /\ parked' \subseteq waiting'
    BY <1>0, <1>5 DEF Take, SlotsExact
  <2> QED BY <2>1, <2>2, <2>3, <2>4, <2>5, SameTickets DEF SlotsExact, Open
<1>6. ASSUME NEW r \in Request, YieldEarly(r) \/ YieldPoint(r) \/ Refused(r)
      PROVE  SlotsExact' /\ TicketsOpen'
  <2>1. Open' = Open
    BY <1>0, <1>6 DEF YieldEarly, YieldPoint, Refused, Open, TypeOK
  <2>2. r \in Request => SessionOf[r] \in Session
    BY DEF Session
  <2>3. TypeOK'
    <3>1. CASE YieldEarly(r)
      BY <1>0, <3>1 DEF YieldEarly, TypeOK
    <3>2. CASE YieldPoint(r)
      <4>1. Charged(r) \in [Session -> Nat] /\ Ahead(r, Charged(r)) \subseteq Request
        BY <1>0, <2>2 DEF Charged, Ahead, TypeOK
      <4> QED BY <1>0, <3>2, <4>1 DEF YieldPoint, TypeOK
    <3>3. CASE Refused(r)
      BY <1>0, <3>3 DEF Refused, TypeOK
    <3> QED BY <1>6, <3>1, <3>2, <3>3
  <2>4. waiting' = {q \in Request : pc'[q] \in {"awake", "asleep", "idle"}}
    BY <1>0, <1>6 DEF YieldEarly, YieldPoint, Refused, SlotsExact, TypeOK
  <2>5. {q \in Request : pc'[q] \in {"run", "yield"}} = {running'} \ {None}
    BY <1>0, <1>6 DEF YieldEarly, YieldPoint, Refused, SlotsExact, TypeOK
  <2>6. UNCHANGED <<arrived, n_open, waiting, parked>>
    BY <1>6 DEF YieldEarly, YieldPoint, Refused
  <2> QED BY <1>0, <2>1, <2>3, <2>4, <2>5, <2>6, SameTickets DEF SlotsExact, Open
<1>7. ASSUME NEW r \in Request, Park(r) PROVE SlotsExact' /\ TicketsOpen'
  <2>1. Open' = Open
    BY <1>0, <1>7 DEF Park, Woken, Open, TypeOK
  <2>2. SessionOf[r] \in Session
    BY DEF Session
  <2>3. TypeOK'
    BY <1>0, <1>7, <2>2 DEF Park, Charged, Woken, TypeOK
  <2>4. waiting' = {q \in Request : pc'[q] \in {"awake", "asleep", "idle"}}
    BY <1>0, <1>7 DEF Park, Woken, SlotsExact, TypeOK
  <2>5. {q \in Request : pc[q] \in {"run", "yield"}} = {r}
    BY <1>0, <1>7 DEF Park, SlotsExact
  <2>6. {q \in Request : pc'[q] \in {"run", "yield"}} = {running'} \ {None}
    BY <1>0, <1>7, <2>5 DEF Park, Woken, TypeOK
  <2>7. UNCHANGED <<arrived, n_open>> /\ parked' \subseteq waiting'
    BY <1>0, <1>7 DEF Park, SlotsExact
  <2> QED BY <2>1, <2>3, <2>4, <2>6, <2>7, SameTickets DEF SlotsExact, Open
<1>8. ASSUME NEW r \in Request, Release(r) PROVE SlotsExact' /\ TicketsOpen'
  <2>1. r \in Open /\ Open' = Open \ {r}
    BY <1>0, <1>8 DEF Release, Woken, Open, TypeOK
  <2>2. /\ n_open' = Cardinality(Open') /\ n_open' = Len(arrived') /\ IsInjective(arrived')
        /\ n_open' \in 0..MaxOpen /\ arrived' \in Seq(Request) /\ TicketsOpen'
    BY <1>8, <2>1, LeaveTickets DEF Release
  <2>3. SessionOf[r] \in Session
    BY DEF Session
  <2>4. TypeOK'
    BY <1>0, <1>8, <2>2, <2>3, SMTT(30) DEF Release, Leave, LingerOf, Charged, Woken, TypeOK
  <2>5. waiting' = {q \in Request : pc'[q] \in {"awake", "asleep", "idle"}}
    BY <1>0, <1>8 DEF Release, Woken, SlotsExact, TypeOK
  <2>6. {q \in Request : pc[q] \in {"run", "yield"}} = {r}
    BY <1>0, <1>8 DEF Release, SlotsExact
  <2>7. {q \in Request : pc'[q] \in {"run", "yield"}} = {running'} \ {None}
    BY <1>0, <1>8, <2>6 DEF Release, Woken, TypeOK
  <2>8. parked' \subseteq waiting'
    BY <1>0, <1>8 DEF Release, Leave, SlotsExact
  <2> QED BY <2>2, <2>4, <2>5, <2>7, <2>8 DEF SlotsExact, Open
<1>9. CASE Tick
  <2>1. TypeOK'
    <3>1. linger' \in Lingers
      <4>1. \A n \in 0..Quantum : Aged(n) \in 0..Quantum
        BY <1>0 DEF Aged
      <4>2. linger \in Lingers
        BY <1>0 DEF TypeOK, Lingers
      <4>3. linger.left > 0 => linger.left - 1 \in 0..Linger
        BY <1>0, <4>2 DEF Lingers
      <4> QED BY <1>9, <4>1, <4>2, <4>3 DEF Tick, Lingers
    <3>2. slice' \in 0..Quantum /\ due' \in Nat
      BY <1>0, <1>9 DEF Tick, Aged, TypeOK
    <3> QED BY <1>0, <1>9, <3>1, <3>2 DEF Tick, TypeOK, Lingers
  <2> QED BY <1>0, <1>9, <2>1, SameTickets DEF Tick, SlotsExact, Open
<1>10. CASE Decay
  <2>1. TypeOK'
    BY <1>0, <1>10, DecayKeeps DEF Decay, TypeOK
  <2> QED BY <1>0, <1>10, <2>1, SameTickets DEF Decay, SlotsExact, Open
<1>11. CASE UNCHANGED vars
  BY <1>0, <1>11, SameTickets DEF vars, SlotsExact, TypeOK, Open
<1> QED BY <1>1, <1>2, <1>3, <1>4, <1>5, <1>6, <1>7, <1>8, <1>9, <1>10, <1>11 DEF Next, Thread

\* Every step keeps the alarms of the sleepers, one case per action.
LEMMA StepAlarms == TInv /\ [Next]_vars => LingerAlarms'
<1> SUFFICES ASSUME TInv, [Next]_vars PROVE LingerAlarms'
  OBVIOUS
<1>0. TypeOK /\ LingerAlarms
  BY DEF TInv, SlotsExact
<1>1. ASSUME NEW r \in Request, Sleep(r) PROVE LingerAlarms'
  BY <1>0, <1>1 DEF Sleep, Alarm, LingerAlarms, TypeOK
<1>2. ASSUME NEW r \in Request, Admit(r) \/ Acquire(r) \/ LingerEnds(r) \/ IdleDue(r) \/ IdleKeeps(r)
      PROVE  LingerAlarms'
  BY <1>0, <1>2 DEF Admit, Acquire, LingerEnds, IdleDue, IdleKeeps, LingerAlarms, TypeOK
<1>3. ASSUME NEW r \in Request, Abandon(r) \/ Park(r) \/ Release(r) PROVE LingerAlarms'
  <2>1. \A q \in Request : pc'[q] # "asleep"
    BY <1>0, <1>3 DEF Abandon, Park, Release, Woken, TypeOK
  <2>2. running' # None => linger'.left = 0
    BY <1>0, <1>3 DEF Abandon, Park, Release, LingerAlarms
  <2> QED BY <2>1, <2>2 DEF LingerAlarms
<1>4. ASSUME NEW r \in Request, Take(r) PROVE LingerAlarms'
  BY <1>4 DEF Take, NoLinger, LingerAlarms
<1>5. ASSUME NEW r \in Request, YieldEarly(r) \/ YieldPoint(r) \/ Refused(r) PROVE LingerAlarms'
  BY <1>0, <1>5 DEF YieldEarly, YieldPoint, Refused, LingerAlarms, TypeOK
<1>6. CASE Tick
  <2>1. linger.left \in Nat
    BY <1>0 DEF TypeOK
  <2>2. linger'.left = IF linger.left > 0 THEN linger.left - 1 ELSE linger.left
    BY <1>0, <1>6 DEF Tick, TypeOK
  <2> QED BY <1>0, <1>6, <2>1, <2>2 DEF Tick, LingerAlarms
<1>7. CASE Decay \/ UNCHANGED vars
  BY <1>0, <1>7 DEF Decay, vars, LingerAlarms
<1> QED BY <1>1, <1>2, <1>3, <1>4, <1>5, <1>6, <1>7 DEF Next, Thread

\* The order of the tickets in S is that of the next state too.
OrderKept(S) == \A x, y \in S : Before(x, y, usage) <=> Before(x, y, usage)'

\* Arrivals, departures, the clock and the decay keep it.
LEMMA StepOrder ==
    ASSUME TInv,
           \/ UNCHANGED <<arrived, usage>>
           \/ \E r \in Request : Admit(r) \/ Abandon(r)
           \/ Decay
    PROVE  OrderKept(Open \cap Open')
<1>0. TypeOK /\ IsInjective(arrived) /\ Open = ToSet(arrived) /\ Open \subseteq Request
  BY DEF TInv, SlotsExact, TicketsOpen, Open
<1>1. CASE UNCHANGED <<arrived, usage>>
  BY <1>1 DEF OrderKept, Before, Arrival
<1>2. ASSUME NEW r \in Request, Admit(r) PROVE OrderKept(Open)
  <2>1. r \notin Open
    BY <1>2 DEF Admit, Open
  <2>2. \A x \in Open : Arrival(x)' = Arrival(x)
    BY <1>0, <1>2, <2>1, AppendKeeps DEF Admit
  <2> QED BY <1>2, <2>2 DEF Admit, OrderKept, Before
<1>3. ASSUME NEW r \in Request, Abandon(r) PROVE OrderKept(Open \cap Open')
  <2>1. r \in Open /\ Open' \subseteq Open \ {r}
    BY <1>0, <1>3 DEF Abandon, Woken, Open, TypeOK
  <2>2. \A x, y \in Open \ {r} : Arrival(x) < Arrival(y) <=> Arrival(x)' < Arrival(y)'
    BY <1>0, <1>3, <2>1, LeaveKeeps DEF Abandon, Leave
  <2> QED BY <1>3, <2>1, <2>2 DEF Abandon, OrderKept, Before
<1>4. CASE Decay
  <2>1. \A x \in Open : SessionOf[x] \in Session
    BY <1>0 DEF Session
  <2>2. /\ usage' = Decayed /\ usage \in [Session -> Nat] /\ usage' \in [Session -> Nat]
        /\ \A s, t \in Session : usage[s] < usage[t] <=> usage'[s] < usage'[t]
    BY <1>0, <1>4, DecayKeeps DEF Decay, TypeOK
  <2>3. \A x \in Open : Arrival(x)' = Arrival(x)
    BY <1>4 DEF Decay, Arrival
  <2>4. ASSUME NEW x \in Open, NEW y \in Open PROVE Before(x, y, usage) <=> Before(x, y, usage)'
    <3>1. /\ usage[SessionOf[x]] \in Nat /\ usage[SessionOf[y]] \in Nat
          /\ usage'[SessionOf[x]] \in Nat /\ usage'[SessionOf[y]] \in Nat
      BY <2>1, <2>2
    <3>2. /\ usage[SessionOf[x]] < usage[SessionOf[y]] <=> usage'[SessionOf[x]] < usage'[SessionOf[y]]
          /\ usage[SessionOf[y]] < usage[SessionOf[x]] <=> usage'[SessionOf[y]] < usage'[SessionOf[x]]
      BY <2>1, <2>2
    <3>3. usage[SessionOf[x]] = usage[SessionOf[y]] <=> usage'[SessionOf[x]] = usage'[SessionOf[y]]
      BY <3>1, <3>2
    <3> QED BY <2>3, <3>2, <3>3 DEF Before
  <2> QED BY <2>4 DEF OrderKept
<1> QED BY <1>1, <1>2, <1>3, <1>4 DEF OrderKept

\* Every step keeps what a yielding request parks for, one case per action.
LEMMA StepParksFor == TInv /\ [Next]_vars => ParksFor'
<1> SUFFICES ASSUME TInv, [Next]_vars PROVE ParksFor'
  OBVIOUS
<1>0. TypeOK /\ SlotsExact /\ ParksFor /\ waiting \subseteq Open
  BY DEF TInv, SlotsExact, Open
<1>1. ASSUME deserving' \subseteq deserving \cap waiting', OrderKept(Open \cap Open'),
             \A r \in Request : pc'[r] = "yield" <=> pc[r] = "yield", deserving' \subseteq Open'
      PROVE  ParksFor'
  <2>1. ASSUME NEW r \in Request, pc'[r] = "yield", NEW w \in deserving' PROVE Before(w, r, usage)'
    <3>1. w \in Open \cap Open' /\ r \in Open \cap Open' /\ Before(w, r, usage)
      BY <1>0, <1>1, <2>1 DEF ParksFor, Open
    <3> QED BY <1>1, <3>1 DEF OrderKept
  <2> QED BY <1>0, <1>1, <2>1 DEF ParksFor
<1>2. ASSUME NEW r \in Request,
             \/ Admit(r) \/ Acquire(r) \/ Sleep(r) \/ LingerEnds(r) \/ IdleDue(r) \/ IdleKeeps(r)
             \/ YieldEarly(r)
      PROVE  ParksFor'
  <2>1. deserving' \subseteq deserving \cap waiting'
    BY <1>0, <1>2 DEF Admit, Acquire, Sleep, LingerEnds, IdleDue, IdleKeeps, YieldEarly, ParksFor
  <2>2. \A q \in Request : (pc'[q] = "yield" <=> pc[q] = "yield") /\ (q \in Open => q \in Open')
    BY <1>0, <1>2 DEF Admit, Acquire, Sleep, LingerEnds, IdleDue, IdleKeeps, YieldEarly, TypeOK, Open
  <2>3. OrderKept(Open \cap Open')
    <3>1. CASE Admit(r)
      BY <3>1, StepOrder
    <3>2. CASE ~Admit(r)
      <4>1. UNCHANGED <<arrived, usage>>
        BY <1>2, <3>2 DEF Acquire, Sleep, LingerEnds, IdleDue, IdleKeeps, YieldEarly
      <4> QED BY <4>1, StepOrder
    <3> QED BY <3>1, <3>2
  <2>4. \A q \in Request : pc'[q] = "yield" <=> pc[q] = "yield"
    BY <2>2
  <2>5. deserving' \subseteq Open'
    BY <1>0, <2>1, <2>2 DEF ParksFor, Open
  <2> QED BY <1>1, <2>1, <2>3, <2>4, <2>5
<1>3. ASSUME NEW r \in Request, Abandon(r) PROVE ParksFor'
  <2>1. deserving' = deserving \ {r} /\ waiting' = waiting \ {r} /\ deserving' \subseteq deserving \cap waiting'
    BY <1>0, <1>3 DEF Abandon, Leave, ParksFor
  <2>2. \A q \in Request : pc'[q] = "yield" <=> pc[q] = "yield"
    BY <1>0, <1>3 DEF Abandon, Woken, TypeOK
  <2>3. deserving' \subseteq Open'
    BY <1>0, <1>3, <2>1 DEF Abandon, Woken, TypeOK, Open
  <2> QED BY <1>1, <1>3, <2>1, <2>2, <2>3, StepOrder
<1>4. ASSUME NEW r \in Request, Take(r) PROVE ParksFor'
  <2>1. running = None
    BY <1>4, Requests DEF Take, Pick
  <2>2. deserving = {}
    BY <1>0, <2>1 DEF SlotsExact, ParksFor
  <2> QED BY <1>4, <2>2 DEF Take, ParksFor
<1>5. ASSUME NEW r \in Request, YieldPoint(r) PROVE ParksFor'
  <2>1. \A q \in Request : pc'[q] = "yield" => q = r
    BY <1>0, <1>5 DEF YieldPoint, SlotsExact, TypeOK
  <2>2. deserving' # {} => pc'[r] = "yield"
    BY <1>0, <1>5 DEF YieldPoint, TypeOK
  <2>3. deserving' \subseteq waiting'
    BY <1>5 DEF YieldPoint, Ahead
  <2>4. \A w \in deserving' : Before(w, r, usage)'
    BY <1>5 DEF YieldPoint, Ahead, Before, Arrival
  <2> QED BY <2>1, <2>2, <2>3, <2>4 DEF ParksFor
<1>6. ASSUME NEW r \in Request, Refused(r) \/ Park(r) PROVE ParksFor'
  BY <1>6 DEF Refused, Park, ParksFor
<1>7. ASSUME NEW r \in Request, Release(r) PROVE ParksFor'
  <2>1. \A q \in Request : pc[q] # "yield"
    BY <1>0, <1>7 DEF Release, SlotsExact
  <2>2. deserving = {}
    BY <1>0, <2>1 DEF ParksFor
  <2> QED BY <1>7, <2>2 DEF Release, Leave, ParksFor
<1>8. CASE Tick \/ Decay \/ UNCHANGED vars
  <2>1. UNCHANGED <<deserving, waiting, pc>> /\ Open' = Open
    BY <1>8 DEF Tick, Decay, vars, Open
  <2>2. OrderKept(Open \cap Open')
    BY <1>8, StepOrder DEF Tick, vars
  <2> QED BY <1>0, <1>1, <2>1, <2>2 DEF ParksFor
<1> QED BY <1>2, <1>3, <1>4, <1>5, <1>6, <1>7, <1>8 DEF Next, Thread

-----------------------------------------------------------------------------
\* The invariant holds of every reachable state.
LEMMA AlwaysTInv == Spec => []TInv
<1>1. Init => TInv
  BY InitSInv DEF SInv
<1>2. TInv /\ [Next]_vars => TInv'
  BY StepTickets, StepAlarms, StepParksFor DEF TInv
<1> QED BY <1>1, <1>2, PTL DEF Spec

LEMMA PickIsFirstNext == TInv' => PickFirst'
  BY PickIsFirst, PTL

\* No step makes it a sleeper's turn and leaves it asleep, one case per action.
LEMMA StepAwake == SInv /\ TInv' /\ [Next]_vars => TurnIsAwake'
<1> SUFFICES ASSUME SInv, TInv', [Next]_vars, NEW r \in waiting', Pick' = r, pc'[r] = "asleep"
             PROVE  alarm'[r] = "linger" /\ linger'.left = 0
  BY DEF TurnIsAwake
<1>0. /\ TypeOK /\ SlotsExact /\ LingerAlarms /\ TInv /\ PickFirst /\ TurnIsAwake
      /\ waiting \subseteq Open /\ waiting' \subseteq Open' /\ r \in Request
  BY PickIsFirst DEF SInv, TInv, SlotsExact, Open
<1>1. running' = None /\ r \in Eligible' /\ \A q \in Eligible' \ {r} : Before(r, q, usage)'
  BY <1>0, PickIsFirstNext DEF PickFirst, IsPick
\* A step that wakes or changes nobody r competes with cannot have made it r's turn.
<1>2. ASSUME pc[r] = "asleep", alarm' = alarm, running' = running, linger' = linger,
             Eligible \subseteq Eligible', Eligible \subseteq Open \cap Open',
             r \in Eligible, OrderKept(Open \cap Open')
      PROVE  alarm'[r] = "linger" /\ linger'.left = 0
  <2>1. \A q \in Eligible \ {r} : Before(r, q, usage)
    BY <1>1, <1>2 DEF OrderKept
  <2>2. Pick = r
    BY <1>0, <1>1, <1>2, <2>1 DEF PickFirst, IsPick
  <2>3. r \in waiting
    BY <1>2 DEF Eligible
  <2> QED BY <1>0, <1>2, <2>2, <2>3 DEF TurnIsAwake
<1>3. ASSUME NEW x \in Request, Admit(x) PROVE alarm'[r] = "linger" /\ linger'.left = 0
  <2>1. pc[r] = "asleep" /\ Eligible' = Eligible /\ Open \subseteq Open'
    BY <1>0, <1>3 DEF Admit, Eligible, Open, TypeOK
  <2> QED BY <1>0, <1>1, <1>2, <1>3, <2>1, StepOrder DEF Admit, Eligible
<1>4. ASSUME NEW x \in Request,
             Acquire(x) \/ Sleep(x) \/ LingerEnds(x) \/ IdleDue(x) \/ IdleKeeps(x) \/ YieldEarly(x)
      PROVE  alarm'[r] = "linger" /\ linger'.left = 0
  <2>1. CASE x = r /\ Sleep(x)
    <3>1. Pick' = Pick
      BY <2>1 DEF Sleep, Pick, Eligible, Before, Arrival
    <3> QED BY <2>1, <3>1 DEF Sleep
  <2>2. CASE ~(x = r /\ Sleep(x))
    <3>1. pc[r] = "asleep" /\ r # x
      BY <1>0, <1>4, <2>2 DEF Acquire, Sleep, LingerEnds, IdleDue, IdleKeeps, YieldEarly, TypeOK
    <3>2. alarm'[r] = alarm[r]
      BY <1>0, <1>4, <3>1 DEF Acquire, Sleep, LingerEnds, IdleDue, IdleKeeps, YieldEarly, TypeOK
    <3>3. /\ UNCHANGED <<running, linger, arrived, usage>> /\ Eligible \subseteq Eligible'
          /\ waiting \subseteq waiting' /\ waiting' \subseteq waiting \cup {x}
      BY <1>4 DEF Acquire, Sleep, LingerEnds, IdleDue, IdleKeeps, YieldEarly, Eligible
    <3>4. r \in Eligible /\ Eligible \subseteq waiting
      BY <1>1, <3>1, <3>3 DEF Eligible
    <3>5. \A q \in Eligible \ {r} : Before(r, q, usage)
      BY <1>1, <3>3 DEF Before, Arrival
    <3>6. Pick = r
      BY <1>0, <1>1, <3>3, <3>4, <3>5 DEF PickFirst, IsPick
    <3> QED BY <1>0, <3>1, <3>2, <3>3, <3>4, <3>6 DEF TurnIsAwake
  <2> QED BY <2>1, <2>2
<1>5. ASSUME NEW x \in Request, Abandon(x) \/ Park(x) \/ Release(x)
      PROVE  alarm'[r] = "linger" /\ linger'.left = 0
  BY <1>0, <1>5 DEF Abandon, Park, Release, Woken, TypeOK
<1>6. ASSUME NEW x \in Request, Take(x) \/ YieldPoint(x) \/ Refused(x)
      PROVE  alarm'[r] = "linger" /\ linger'.left = 0
  <2>1. running' # None
    BY <1>0, <1>6, Requests DEF Take, YieldPoint, Refused, SlotsExact
  <2> QED BY <1>1, <2>1
<1>7. CASE Tick
  <2>1. linger.left > 0 /\ linger.left \in Nat /\ linger'.left = linger.left - 1 /\ linger'.session = linger.session
    BY <1>0, <1>1, <1>7 DEF Tick, TypeOK
  <2>2. alarm'[r] = "linger"
    BY <1>0, <1>7, <2>1 DEF Tick, LingerAlarms
  <2>3. CASE linger'.left > 0
    <3>1. Eligible' = Eligible
      BY <1>7, <2>1, <2>3 DEF Eligible, Tick
    <3>2. \A q \in Eligible \ {r} : Before(r, q, usage)
      BY <1>1, <1>7, <3>1 DEF Tick, Before, Arrival
    <3>3. Pick = r
      BY <1>0, <1>1, <1>7, <3>1, <3>2 DEF PickFirst, IsPick, Tick
    <3>4. linger.left = 0
      BY <1>0, <1>7, <3>3 DEF TurnIsAwake, Tick
    <3> QED BY <2>1, <3>4
  <2>4. CASE linger'.left = 0
    BY <2>2, <2>4
  <2> QED BY <2>1, <2>3, <2>4
<1>8. CASE Decay
  <2>1. OrderKept(Open \cap Open')
    BY <1>0, <1>8, StepOrder
  <2>2. Open' = Open /\ Eligible' = Eligible /\ pc[r] = "asleep"
    BY <1>8 DEF Decay, Open, Eligible
  <2>3. Eligible \subseteq Open
    BY <1>0 DEF Eligible
  <2> QED BY <1>1, <1>2, <1>8, <2>1, <2>2, <2>3 DEF Decay
<1>9. CASE UNCHANGED vars
  <2>1. Pick' = Pick
    BY <1>9 DEF vars, Pick, Eligible, Before, Arrival
  <2> QED BY <1>0, <1>9, <2>1 DEF vars, TurnIsAwake
<1> QED BY <1>3, <1>4, <1>5, <1>6, <1>7, <1>8, <1>9 DEF Next, Thread

\* Slots and tickets balance in every reachable state.
THEOREM SlotsBalance == Spec => []SlotsExact
<1>1. TInv => SlotsExact
  BY DEF TInv
<1> QED BY <1>1, AlwaysTInv, PTL

\* Whoever is picked has been woken.
THEOREM NoMissedTurn == Spec => []TurnIsAwake
<1>1. Init => TurnIsAwake
  BY InitSInv DEF SInv
<1>2. TInv /\ TInv' /\ TurnIsAwake /\ [Next]_vars => TurnIsAwake'
  BY StepAwake DEF SInv
<1> QED BY <1>1, <1>2, AlwaysTInv, PTL DEF Spec

\* A request that parks is not the next one picked while one of those it parks for waits.
THEOREM ParksForOthers == Spec => ParkHandsOver
<1> DEFINE HandsOver == \A r \in Request : Park(r) /\ deserving \cap waiting # {} => Pick' # r
<1>1. TInv /\ TInv' /\ [Next]_vars => HandsOver
  <2> SUFFICES ASSUME TInv, TInv', NEW r \in Request, Park(r), NEW w \in deserving, Pick' = r
               PROVE  FALSE
    BY DEF ParksFor, TInv
  <2>0. TypeOK /\ TypeOK' /\ SlotsExact /\ LingerAlarms /\ ParksFor /\ waiting' = waiting \cup {r}
    BY DEF TInv, SlotsExact, Park
  <2>1. running = r /\ linger.left = 0 /\ w \in waiting /\ w # r
    BY <2>0, Requests DEF Park, SlotsExact, LingerAlarms, ParksFor
  <2>2. Before(w, r, usage)
    BY <2>0 DEF Park, ParksFor
  <2>3. w \in Eligible' \ {r}
    BY <2>0, <2>1 DEF Park, Eligible
  <2>4. Before(r, w, usage)'
    BY <2>3, PickIsFirstNext DEF PickFirst, IsPick
  <2>5. /\ w \in Request /\ SessionOf[w] \in Session /\ SessionOf[r] \in Session
        /\ w \in ToSet(arrived) /\ r \in ToSet(arrived)
    BY <2>0, <2>1 DEF TypeOK, Session, TInv, TicketsOpen, Open, SlotsExact, Park
  <2>6. Before(w, r, usage')
    <3>1. usage \in [Session -> Nat] /\ due \in Nat /\ usage' = [usage EXCEPT ![SessionOf[r]] = @ + due]
      BY <2>0 DEF TypeOK, Park, Charged
    <3>2. CASE SessionOf[w] = SessionOf[r]
      BY <2>2, <2>5, <3>1, <3>2 DEF Before
    <3>3. CASE SessionOf[w] # SessionOf[r]
      <4>1. usage'[SessionOf[w]] = usage[SessionOf[w]] /\ usage'[SessionOf[r]] = usage[SessionOf[r]] + due
        BY <2>5, <3>1, <3>3
      <4> QED BY <2>2, <2>5, <3>1, <4>1 DEF Before
    <3> QED BY <3>2, <3>3
  <2>7. Before(r, w, usage')
    BY <2>4 DEF Before, Arrival, Park
  <2> QED BY <2>0, <2>1, <2>5, <2>6, <2>7, BeforeOrders DEF TypeOK
<1> QED BY <1>1, AlwaysTInv, PTL DEF Spec, ParkHandsOver
=============================================================================

----------------------- MODULE ExpertCacheByteProofs -----------------------
(***************************************************************************)
(* Proofs about the blocks of the expert cache, for any numbers of layers, *)
(* experts, slots and staging entries: what the two queues still have to   *)
(* do with a slot, that no block has two writers, and that a block holds   *)
(* the expert it is taken for by the tables, by the device's kernels and   *)
(* by a handle's caller.                                                   *)
(*                                                                         *)
(* They are about the runs in which no fetch has failed (failed = 0).  A   *)
(* fetch that fails leaves claims nobody reads for, which a later fetch    *)
(* finds lost and reads again.                                             *)
(***************************************************************************)
EXTENDS ExpertCacheProofs


-----------------------------------------------------------------------------
(* What the side queue and the compute queue still have to do.              *)

SideTo(k, x) == \E i \in 1..Len(sideq) : sideq[i].l = k /\ sideq[i].s = x

\* A slot the side queue will fill is a victim's, in the device's layout, and its
\* read-back is among those that land_layer() waits for.
SideHeld ==
    \A i \in 1..Len(sideq) :
        LET r == ram[sideq[i].l][sideq[i].s]
        IN  /\ r.expert # None /\ r.valid /\ ~r.cold /\ r.soa
            /\ \E m \in 1..Len(landing) : /\ landing[m].layer = sideq[i].l /\ landing[m].to = sideq[i].s
                                          /\ landing[m].ring = sideq[i].r

\* It belongs neither to the layer the host works on, nor to a lent one, nor is anything
\* promoted from it.
SideApart ==
    /\ fetch.pc \in AtLayer => \A x \in Slot : ~SideTo(fetch.layer, x)
    /\ fetch.pc = "restore" => sideq = <<>>
    /\ \A k \in lent, x \in Slot : ~SideTo(k, x)
    /\ \A i \in 1..Len(swaps) : swaps[i].layer \notin lent /\ ~SideTo(swaps[i].layer, swaps[i].from)
Sides == SideHeld /\ SideApart

\* The compute queue has caught up wherever a settle is due.
Quiet == {"idle", "settle", "restore", "batch"}
QueueEmpty == fetch.pc \in Quiet => cq = <<>>

\* An upload reads a slot that is protected and resident; a read-back fills that of a
\* pending swap.
QueueHeld ==
    \A i \in 1..Len(cq) :
        /\ cq[i].op = "upload" =>
              LET r == ram[cq[i].l][cq[i].s]
              IN  r.expert # None /\ r.valid /\ ~r.cold /\ <<cq[i].l, cq[i].s>> \in rel
        /\ cq[i].op = "readback" =>
              \E j \in 1..Len(swaps) : swaps[j].layer = cq[i].l /\ swaps[j].to = cq[i].s
        /\ cq[i].op \in {"stage", "use"} => cq[i].s = None

\* Where the steps leave the host.
LEMMA PcMoves ==
    ASSUME Types, Types', HostHolds, Phases, fetch.pc # "reread", failed = 0, failed' = 0, [Next]_vars
    PROVE  /\ fetch'.pc \in AtLayer => \/ fetch.pc \in AtLayer /\ fetch'.layer = fetch.layer
                                       \/ LandLayer(fetch'.layer)
                                       \/ fetch'.layer \in lent
                                       \/ fetch.pc = "restore"
           /\ fetch'.pc = "restore" => fetch.pc = "restore" \/ (SettleFullDone /\ sideq = <<>>)
           /\ fetch'.pc \in Quiet => fetch.pc \in Quiet \/ cq = <<>>
<1>1. CASE \/ ServePromoteAny \/ RefillAny \/ UNCHANGED vars \/ PrefetchAny \/ PrefetchReap
           \/ ComputeStep \/ SideStep \/ DiskAny \/ FinishSwap \/ RereadAny
           \/ \E e \in Expert : ServeVram(e) \/ ServeClaimed(e) \/ ServeRam(e)
  BY <1>1, GoesOn
<1>2. CASE FetchStartAny
  <2>1. PICK l \in Layer, list \in Lists : FetchStart(l, list)
    BY <1>2 DEF FetchStartAny
  <2>2. fetch' = [NoFetch EXCEPT !.pc = "serve", !.layer = l, !.todo = list] /\ LandLayer(l)
    BY <2>1 DEF FetchStart
  <2>3. fetch'.pc = "serve" /\ fetch'.layer = l
    BY <2>2 DEF NoFetch
  <2> QED BY <2>2, <2>3 DEF Quiet
<1>3. CASE LendAny
  <2>1. CASE \E l \in Layer : LendBegin(l)
    <3>1. PICK l \in Layer : LendBegin(l)
      BY <2>1
    <3>2. fetch' = [NoFetch EXCEPT !.pc = "settle", !.full = TRUE, !.lend = l] /\ cq = <<>>
      BY <3>1 DEF LendBegin
    <3>3. fetch'.pc = "settle"
      BY <3>2 DEF NoFetch
    <3> QED BY <3>2, <3>3 DEF AtLayer
  <2>2. CASE \E l \in Layer : LendEnd(l)
    <3>1. PICK l \in Layer : LendEnd(l)
      BY <2>2
    <3>2. l \in lent /\ \E c : fetch' = [NoFetch EXCEPT !.pc = "refill", !.layer = l, !.cand = c]
      BY <3>1 DEF LendEnd
    <3>3. fetch'.pc = "refill" /\ fetch'.layer = l
      BY <3>2 DEF NoFetch
    <3> QED BY <3>2, <3>3 DEF Quiet
  <2> QED BY <1>3, <2>1, <2>2 DEF LendAny
<1>4. CASE RefillDone \/ RestoreBegin
  <2>1. CASE RefillDone
    <3>1. PICK b : fetch' = [NoFetch EXCEPT !.pc = "settle", !.full = TRUE, !.restore = b, !.next = fetch.next]
      BY <2>1 DEF RefillDone
    <3>2. cq = <<>> /\ fetch'.pc = "settle"
      BY <2>1, <3>1 DEF RefillDone, NoFetch
    <3> QED BY <3>2 DEF AtLayer
  <2>2. CASE RestoreBegin
    <3>1. fetch' = [NoFetch EXCEPT !.pc = "settle", !.full = TRUE, !.restore = TRUE] /\ cq = <<>>
      BY <2>2 DEF RestoreBegin
    <3>2. fetch'.pc = "settle"
      BY <3>1 DEF NoFetch
    <3> QED BY <3>1, <3>2 DEF AtLayer
  <2> QED BY <1>4, <2>1, <2>2
<1>5. CASE SettleFullDone \/ RestoreEnds \/ SettleLayer \/ SettleLayerDone
  <2>1. CASE SettleFullDone
    <3>1. /\ fetch.pc = "settle" /\ sideq = <<>>
          /\ \/ fetch' = NoFetch
             \/ fetch' = [NoFetch EXCEPT !.pc = "restore", !.next = fetch.next]
      BY <2>1 DEF SettleFullDone
    <3>2. CASE fetch' = NoFetch
      BY <3>1, <3>2 DEF NoFetch, AtLayer, Quiet
    <3>3. CASE fetch' = [NoFetch EXCEPT !.pc = "restore", !.next = fetch.next]
      <4>1. fetch'.pc = "restore"
        BY <3>3 DEF NoFetch
      <4> QED BY <2>1, <3>1, <4>1 DEF AtLayer, Quiet
    <3> QED BY <3>1, <3>2, <3>3
  <2>2. CASE RestoreEnds
    <3>1. fetch.pc = "restore" /\ fetch' = NoFetch
      BY <2>2 DEF RestoreEnds
    <3> QED BY <3>1 DEF NoFetch, AtLayer, Quiet
  <2>3. CASE SettleLayer
    <3>1. cq = <<>> /\ (fetch' = [NoFetch EXCEPT !.pc = "settle"] \/ fetch.pc # "ended")
      BY <2>3 DEF SettleLayer
    <3>2. fetch'.pc \in {"settle", "idle"}
      BY <2>3, <3>1, DeferMoves DEF NoFetch
    <3> QED BY <3>1, <3>2, <2>3 DEF AtLayer, SettleLayer, NoFetch
  <2>4. CASE SettleLayerDone
    <3>1. fetch.pc = "settle" /\ (fetch' = NoFetch \/ fetch.deferred)
      BY <2>4 DEF SettleLayerDone
    <3>2. CASE fetch.deferred
      BY <2>4, <3>1, <3>2, DeferMoves DEF AtLayer, Quiet
    <3>3. CASE fetch' = NoFetch
      BY <3>1, <3>3 DEF NoFetch, AtLayer, Quiet
    <3> QED BY <3>1, <3>2, <3>3
  <2> QED BY <1>5, <2>1, <2>2, <2>3, <2>4
<1>6. CASE WarmAny
  <2>1. PICK l \in Layer, e \in Expert, v \in Slot : Warm(l, e, v)
    BY <1>6 DEF WarmAny
  <2>2. fetch' = [NoFetch EXCEPT !.pc = "warm", !.layer = l, !.cand = {e}] /\ LandLayer(l)
    BY <2>1 DEF Warm
  <2>3. fetch'.pc = "warm" /\ fetch'.layer = l
    BY <2>2 DEF NoFetch
  <2> QED BY <2>2, <2>3 DEF Quiet
<1>7. CASE BatchAny
  <2>1. PICK l \in Layer, es \in {ToSet(list) : list \in Lists} :
           \E adopt \in Adoptions(l, {e \in es : ~BatchHit(l, e)}) : FetchBatch(l, es, adopt)
    BY <1>7 DEF BatchAny
  <2>2. PICK adopt \in Adoptions(l, {e \in es : ~BatchHit(l, e)}) : FetchBatch(l, es, adopt)
    BY <2>1
  <2>3. LandLayer(l)
    BY <2>2 DEF FetchBatch
  <2>4. fetch.pc = "idle" /\ fetch'.layer = l
    BY <2>2, BatchReads
  <2> QED BY <2>3, <2>4, <2>2, BatchReads DEF Quiet
<1>8. CASE PrefetchFinish \/ BatchDone \/ FetchSubmit \/ SettlePending
  <2>1. CASE PrefetchFinish
    BY <2>1, RestoreReads DEF AtLayer, Quiet
  <2>2. CASE BatchDone
    BY <2>2, BatchReaped DEF AtLayer, Quiet
  <2>3. CASE FetchSubmit
    BY <2>3, SubmitMoves DEF AtLayer, Quiet
  <2>4. CASE SettlePending
    BY <2>4, PendingMoves DEF AtLayer, Quiet
  <2> QED BY <1>8, <2>1, <2>2, <2>3, <2>4
<1>9. CASE FetchEnd
  <2>1. CASE fetch.deferred
    <3>1. fetch.pc = "idle" /\ fetch' = NoFetch
      BY <1>9, <2>1 DEF FetchEnd, Ending
    <3> QED BY <3>1 DEF NoFetch, AtLayer, Quiet
  <2>2. CASE ~fetch.deferred
    BY <1>9, <2>2, EndMoves DEF AtLayer, Quiet
  <2> QED BY <2>1, <2>2
<1>10. CASE RestoreAny
  BY <1>10, StartMoves DEF RestoreAny
<1>11. CASE ServeMissAny
  BY <1>11, FetchClaims DEF ServeMissAny
<1>12. CASE \E e \in Expert : ServeUpgrade(e)
  <2>1. PICK e \in Expert : ServeUpgrade(e)
    BY <1>12
  <2>2. FindSlot(fetch.layer, e) \in Slot
    BY <2>1, ServeFacts, SlotTypes DEF ServeUpgrade
  <2> QED BY <2>1, <2>2, FetchClaims
<1>13. CASE RereadAny \/ RereadReturns \/ FetchShort \/ \E e \in Expert : ServeFails(e)
  BY <1>13, FailedCounts DEF RereadAny, Reread, RereadReturns
<1> QED BY <1>1, <1>2, <1>3, <1>4, <1>5, <1>6, <1>7, <1>8, <1>9, <1>10, <1>11, <1>12, <1>13
        DEF Next, FetchSteps, ServeAny

\* What the steps other than the settle of a swap do to the side queue and what lands.
LEMMA SideMoves ==
    ASSUME Types, [Next]_vars, ~FinishSwap
    PROVE  /\ sideq' = sideq \/ (sideq # <<>> /\ sideq' = Tail(sideq))
           /\ landing' = landing \/ (sideq = <<>> /\ sideq' = <<>>)
<1>1. CASE FetchStartAny \/ PrefetchAny \/ WarmAny \/ BatchAny \/ RestoreAny
  <2>1. CASE FetchStartAny
    BY <2>1 DEF FetchStartAny, FetchStart, LandLayer, device
  <2>2. CASE PrefetchAny
    BY <2>2 DEF PrefetchAny, PrefetchBegin, LandLayer
  <2>3. CASE WarmAny
    BY <2>3 DEF WarmAny, Warm, LandLayer
  <2>4. CASE BatchAny
    BY <2>4 DEF BatchAny, FetchBatch, LandLayer
  <2>5. CASE RestoreAny
    BY <2>5 DEF RestoreAny, PrefetchStart, LandLayer
  <2> QED BY <1>1, <2>1, <2>2, <2>3, <2>4, <2>5
<1>2. CASE ServePromoteAny \/ RefillAny
  BY <1>2 DEF ServePromoteAny, ServePromote, RefillAny, Refill
<1>3. CASE SettleLayer \/ SettleFullDone
  <2>1. CASE SettleLayer
    BY <2>1 DEF SettleLayer, device
  <2>2. CASE SettleFullDone
    BY <2>2 DEF SettleFullDone
  <2> QED BY <1>3, <2>1, <2>2
<1>4. CASE ServeAny \/ ServeMissAny \/ FetchSubmit \/ SettlePending \/ RereadAny \/ RereadReturns
           \/ FetchEnd \/ FetchShort \/ SettleLayerDone \/ BatchDone \/ PrefetchFinish \/ RestoreEnds
  BY <1>4 DEF ServeAny, ServeVram, ServeClaimed, ServeRam, ServeUpgrade, ServeFails, ServeMissAny,
              ServeMiss, FetchSubmit, SettlePending, RereadAny, Reread, RereadReturns, FetchEnd,
              FetchShort, SettleLayerDone, BatchDone, PrefetchFinish, RestoreEnds, device
<1>5. CASE PrefetchReap \/ LendAny \/ RefillDone \/ RestoreBegin \/ ComputeStep \/ SideStep \/ DiskAny
           \/ UNCHANGED vars
  <2>1. CASE PrefetchReap \/ LendAny \/ RefillDone \/ RestoreBegin
    BY <2>1 DEF PrefetchReap, LendAny, LendBegin, LendEnd, RefillDone, RestoreBegin, device
  <2>2. CASE ComputeStep \/ SideStep \/ DiskAny \/ UNCHANGED vars
    BY <2>2 DEF ComputeStep, SideStep, DiskAny, DiskLand, vars, hostv, device
  <2> QED BY <1>5, <2>1, <2>2
<1> QED BY <1>1, <1>2, <1>3, <1>4, <1>5 DEF Next, FetchSteps

LEMMA PromoteSwaps ==
    ASSUME NEW l, NEW e, NEW s, NEW g, NEW pick, NEW r, Promote(l, e, s, g, pick, r)
    PROVE  \E w : /\ swaps' = (IF Exclusive THEN Append(swaps, w) ELSE swaps)
                  /\ w.layer = l /\ w.from = s
<1> DEFINE w == [layer |-> l, promoted |-> e, from |-> s, victim |-> vram[l][g],
                 to |-> IF pick = s THEN None ELSE pick, ring |-> r]
<1>1. swaps' = (IF Exclusive THEN Append(swaps, w) ELSE swaps)
  BY DEF Promote
<1>2. w.layer = l /\ w.from = s
  OBVIOUS
<1> QED BY <1>1, <1>2

\* ... and to the swaps and the loans.
LEMMA LoanMoves ==
    ASSUME Types, [Next]_vars, ~FinishSwap
    PROVE  /\ \A k \in lent' : k \in lent \/ (sideq = <<>> /\ swaps = <<>>)
           /\ swaps' = swaps \/ /\ fetch.pc \in AtLayer /\ fetch.layer \in Layer /\ fetch.layer \notin lent
                                /\ lent' = lent
                                /\ \E w : swaps' = Append(swaps, w) /\ w.layer = fetch.layer /\ w.from \in Slot
<1>0. swaps \in Seq(SwapRec)
  BY DEF Types, TypeOK
<1>1. CASE ServePromoteAny
  <2>1. PICK e \in Expert, g \in GSlot, pick \in Slot \cup {None}, r \in Ring \cup {None} :
           ServePromote(e, g, pick, r)
    BY <1>1 DEF ServePromoteAny
  <2>2. /\ Promote(fetch.layer, e, FindSlot(fetch.layer, e), g, pick, r) /\ fetch.pc = "serve"
        /\ fetch.layer \in Layer /\ FindSlot(fetch.layer, e) \in Slot /\ lent' = lent
    BY <2>1, ServeFacts, SlotTypes DEF ServePromote
  <2>3. PICK w : /\ swaps' = (IF Exclusive THEN Append(swaps, w) ELSE swaps)
                 /\ w.layer = fetch.layer /\ w.from = FindSlot(fetch.layer, e)
    BY <2>2, PromoteSwaps
  <2> QED BY <2>2, <2>3 DEF AtLayer, Promote
<1>2. CASE RefillAny
  <2>1. PICK e \in Expert, g \in GSlot, pick \in Slot \cup {None}, r \in Ring \cup {None} :
           Refill(e, g, pick, r)
    BY <1>2 DEF RefillAny
  <2>2. /\ Promote(fetch.layer, e, FindSlot(fetch.layer, e), g, pick, r)
        /\ fetch.pc \in {"refill", "warm"} /\ FindSlot(fetch.layer, e) # None /\ lent' = lent
    BY <2>1 DEF Refill
  <2>3. fetch.layer \in Layer
    BY <2>2 DEF Types, FetchOK, AtLayer
  <2>4. FindSlot(fetch.layer, e) \in Slot
    BY <2>2, <2>3, SlotTypes
  <2>5. PICK w : /\ swaps' = (IF Exclusive THEN Append(swaps, w) ELSE swaps)
                 /\ w.layer = fetch.layer /\ w.from = FindSlot(fetch.layer, e)
    BY <2>2, PromoteSwaps
  <2> QED BY <2>2, <2>3, <2>4, <2>5 DEF AtLayer, Promote
<1>3. CASE SettleFullDone
  BY <1>3 DEF SettleFullDone
<1>4. CASE FetchStartAny \/ PrefetchAny \/ WarmAny \/ BatchAny \/ RestoreAny
  <2>1. CASE FetchStartAny
    BY <2>1 DEF FetchStartAny, FetchStart
  <2>2. CASE PrefetchAny
    BY <2>2 DEF PrefetchAny, PrefetchBegin
  <2>3. CASE WarmAny
    BY <2>3 DEF WarmAny, Warm
  <2>4. CASE BatchAny
    BY <2>4 DEF BatchAny, FetchBatch
  <2>5. CASE RestoreAny
    BY <2>5 DEF RestoreAny, PrefetchStart
  <2> QED BY <1>4, <2>1, <2>2, <2>3, <2>4, <2>5
<1>5. CASE ServeAny \/ ServeMissAny \/ FetchSubmit \/ SettlePending \/ RereadAny \/ RereadReturns
           \/ FetchEnd \/ FetchShort \/ SettleLayerDone \/ BatchDone \/ PrefetchFinish \/ RestoreEnds
           \/ SettleLayer
  BY <1>5 DEF ServeAny, ServeVram, ServeClaimed, ServeRam, ServeUpgrade, ServeFails, ServeMissAny,
              ServeMiss, FetchSubmit, SettlePending, RereadAny, Reread, RereadReturns, FetchEnd,
              FetchShort, SettleLayerDone, BatchDone, PrefetchFinish, RestoreEnds, SettleLayer, tables
<1>6. CASE PrefetchReap \/ LendAny \/ RefillDone \/ RestoreBegin \/ ComputeStep \/ SideStep \/ DiskAny
           \/ UNCHANGED vars
  <2>1. CASE PrefetchReap \/ RefillDone \/ RestoreBegin
    BY <2>1 DEF PrefetchReap, RefillDone, RestoreBegin, tables
  <2>3. CASE LendAny
    BY <2>3 DEF LendAny, LendBegin, LendEnd, tables
  <2>2. CASE ComputeStep \/ SideStep \/ DiskAny \/ UNCHANGED vars
    BY <2>2 DEF ComputeStep, SideStep, DiskAny, DiskLand, vars, hostv, tables
  <2> QED BY <1>6, <2>1, <2>2, <2>3
<1> QED BY <1>1, <1>2, <1>3, <1>4, <1>5, <1>6 DEF Next, FetchSteps

\* A layer that has been landed is none the side queue has work for.
LEMMA LandedApart ==
    ASSUME Types, Sides, NEW k \in Layer, AtLanded(k), NEW x \in Slot
    PROVE  ~SideTo(k, x)
<1>1. CASE k = fetch.layer /\ fetch.pc \in AtLayer
  BY <1>1 DEF Sides, SideApart
<1>2. CASE LandLayer(k)
  <2> SUFFICES ASSUME NEW i \in 1..Len(sideq), sideq[i].l = k PROVE FALSE
    BY DEF SideTo
  <2>1. \E m \in 1..Len(landing) : landing[m].layer = k
    BY DEF Sides, SideHeld
  <2>2. sideq = <<>>
    BY <1>2, <2>1 DEF LandLayer
  <2> QED BY <2>2
<1> QED BY <1>1, <1>2 DEF AtLanded

\* What was queued is what is queued.
LEMMA SideOld ==
    ASSUME Types, sideq' = sideq \/ (sideq # <<>> /\ sideq' = Tail(sideq)), NEW i \in 1..Len(sideq')
    PROVE  /\ \E j \in 1..Len(sideq) : sideq'[i] = sideq[j]
           /\ sideq'[i].l \in Layer /\ sideq'[i].s \in Slot
<1>1. sideq \in Seq(SideOp)
  BY DEF Types, QueuesOK
<1>2. \E j \in 1..Len(sideq) : sideq'[i] = sideq[j]
  <2>1. CASE sideq' = sideq
    BY <2>1
  <2>2. CASE sideq # <<>> /\ sideq' = Tail(sideq)
    <3>1. i + 1 \in 1..Len(sideq) /\ sideq'[i] = sideq[i + 1]
      BY <1>1, <2>2
    <3> QED BY <3>1
  <2> QED BY <2>1, <2>2
<1>3. \A j \in 1..Len(sideq) : sideq[j] \in SideOp
  BY <1>1
<1>4. \A o \in SideOp : o.l \in Layer /\ o.s \in Slot
  BY DEF SideOp
<1> QED BY <1>2, <1>3, <1>4

LEMMA StepSides ==
    ASSUME Types, Types', Maps, Maps', Slots, Phases, Claims, Sides,
           failed = 0, failed' = 0, [Next]_vars, ~FinishSwap
    PROVE  Sides'
<1>0. HostHolds /\ fetch.pc # "reread"
  BY DEF Slots, Claims
<1>1. /\ sideq' = sideq \/ (sideq # <<>> /\ sideq' = Tail(sideq))
      /\ landing' = landing \/ (sideq = <<>> /\ sideq' = <<>>)
  BY SideMoves
<1>2. \A i \in 1..Len(sideq') : /\ \E j \in 1..Len(sideq) : sideq'[i] = sideq[j]
                                /\ sideq'[i].l \in Layer /\ sideq'[i].s \in Slot
  BY <1>1, SideOld
<1>3. \A k, x : SideTo(k, x)' => SideTo(k, x) /\ k \in Layer /\ x \in Slot
  BY <1>2 DEF SideTo
<1>4. SideHeld'
  <2> SUFFICES ASSUME NEW i \in 1..Len(sideq')
               PROVE  LET r == ram'[sideq'[i].l][sideq'[i].s]
                      IN  /\ r.expert # None /\ r.valid /\ ~r.cold /\ r.soa
                          /\ \E m \in 1..Len(landing') : /\ landing'[m].layer = sideq'[i].l
                                /\ landing'[m].to = sideq'[i].s /\ landing'[m].ring = sideq'[i].r
    BY DEF SideHeld
  <2>1. PICK j \in 1..Len(sideq) : sideq'[i] = sideq[j]
    BY <1>2
  <2>2. PICK k \in Layer, x \in Slot : k = sideq'[i].l /\ x = sideq'[i].s
    BY <1>2
  <2>3. /\ ram[k][x].expert # None /\ ram[k][x].valid /\ ~ram[k][x].cold /\ ram[k][x].soa
        /\ \E m \in 1..Len(landing) : /\ landing[m].layer = k /\ landing[m].to = x
                                      /\ landing[m].ring = sideq'[i].r
    BY <2>1, <2>2 DEF Sides, SideHeld
  <2>4. landing' = landing
    <3>1. sideq # <<>>
      BY <2>1
    <3> QED BY <1>1, <3>1
  <2>5. RamMove(k, x)
    BY StepMoves
  <2>6. ~AtLanded(k)
    BY <2>1, <2>2, LandedApart DEF SideTo
  <2>7. Kept(k, x)
    BY <2>3, <2>5, <2>6 DEF RamMove, Marked
  <2> QED BY <2>2, <2>3, <2>4, <2>7 DEF Kept
<1>5. SideApart'
  <2>1. ASSUME fetch'.pc \in AtLayer, NEW x \in Slot PROVE ~SideTo(fetch.layer, x)'
    <3>1. fetch'.layer \in Layer
      BY <2>1 DEF Types, FetchOK
    <3>2. CASE fetch.pc \in AtLayer /\ fetch'.layer = fetch.layer
      BY <1>3, <3>2 DEF Sides, SideApart
    <3>3. CASE LandLayer(fetch'.layer)
      <4>1. AtLanded(fetch'.layer)
        BY <3>3 DEF AtLanded
      <4>2. ~SideTo(fetch'.layer, x)
        BY <3>1, <4>1, LandedApart
      <4> QED BY <1>3, <4>2
    <3>4. CASE fetch'.layer \in lent
      BY <1>3, <3>4 DEF Sides, SideApart
    <3>5. CASE fetch.pc = "restore"
      BY <1>3, <3>5 DEF Sides, SideApart, SideTo
    <3> QED BY <1>0, <2>1, <3>2, <3>3, <3>4, <3>5, PcMoves
  <2>2. fetch'.pc = "restore" => sideq' = <<>>
    <3>1. fetch'.pc = "restore" => sideq = <<>>
      BY <1>0, PcMoves DEF Sides, SideApart
    <3> QED BY <1>1, <3>1
  <2>3. \A k \in lent', x \in Slot : ~SideTo(k, x)'
    BY <1>3, LoanMoves DEF Sides, SideApart, SideTo
  <2>4. \A i \in 1..Len(swaps') : swaps'[i].layer \notin lent' /\ ~SideTo(swaps[i].layer, swaps[i].from)'
    <3> SUFFICES ASSUME NEW i \in 1..Len(swaps')
                 PROVE  swaps'[i].layer \notin lent' /\ ~SideTo(swaps[i].layer, swaps[i].from)'
      OBVIOUS
    <3>0. swaps \in Seq(SwapRec)
      BY DEF Types, TypeOK
    <3>1. CASE swaps' = swaps
      <4>1. swaps[i].layer \notin lent /\ ~SideTo(swaps[i].layer, swaps[i].from)
        BY <3>1 DEF Sides, SideApart
      <4>2. swaps # <<>>
        BY <3>1
      <4>3. swaps[i].layer \notin lent'
        BY <4>1, <4>2, LoanMoves
      <4> QED BY <1>3, <3>1, <4>1, <4>3
    <3>2. CASE swaps' # swaps
      <4>1. PICK w : /\ swaps' = Append(swaps, w) /\ w.layer = fetch.layer /\ w.from \in Slot
                     /\ fetch.pc \in AtLayer /\ fetch.layer \in Layer /\ fetch.layer \notin lent /\ lent' = lent
        BY <3>2, LoanMoves
      <4>2. (i \in 1..Len(swaps) /\ swaps'[i] = swaps[i]) \/ swaps'[i] = w
        BY <3>0, <4>1
      <4>3. CASE i \in 1..Len(swaps) /\ swaps'[i] = swaps[i]
        <5>1. swaps[i].layer \notin lent /\ ~SideTo(swaps[i].layer, swaps[i].from)
          BY <4>3 DEF Sides, SideApart
        <5> QED BY <1>3, <4>1, <4>3, <5>1
      <4>4. CASE swaps'[i] = w
        <5>1. ~SideTo(fetch.layer, w.from)
          BY <4>1 DEF Sides, SideApart
        <5> QED BY <1>3, <4>1, <4>4, <5>1
      <4> QED BY <4>2, <4>3, <4>4
    <3> QED BY <3>1, <3>2
  <2> QED BY <2>1, <2>2, <2>3, <2>4 DEF SideApart
<1> QED BY <1>4, <1>5 DEF Sides

\* The settle of a swap: what goes to the side queue.
LEMMA SwapSide ==
    ASSUME Types, FinishSwap
    PROVE  \/ ~(Lands /\ Sw.ring # None) /\ sideq' = sideq /\ landing' = landing
           \/ /\ Lands /\ Sw.ring \in Ring /\ Sw.to \in Slot
              /\ sideq' = Append(sideq, [l |-> Sw.layer, r |-> Sw.ring, s |-> Sw.to])
              /\ landing' = Append(landing, Sw)
<1>1. /\ sideq' = IF Lands /\ Sw.ring # None
                  THEN Append(sideq, [l |-> Sw.layer, r |-> Sw.ring, s |-> Sw.to]) ELSE sideq
      /\ landing' = IF Lands /\ Sw.ring # None THEN Append(landing, Sw) ELSE landing
  BY DEF FinishSwap, Sw, Away, AwayRam, AwayMap, Held, Lands
<1>2. Sw.ring \in Ring \cup {None} /\ (Held => Sw.to \in Slot) /\ (Lands => Held)
  BY SwapHead DEF Lands
<1> HIDE DEF Sw, Lands, Held
<1> QED BY <1>1, <1>2

\* A slot of the side queue is neither slot of the swap being settled.
LEMMA SwapSides ==
    ASSUME Types, Types', Maps, Maps', Slots, Sides, FinishSwap
    PROVE  Sides'
<1> DEFINE o == [l |-> Sw.layer, r |-> Sw.ring, s |-> Sw.to]
<1>0. /\ swaps # <<>> /\ swaps \in Seq(SwapRec) /\ swaps' = Tail(swaps) /\ fetch.pc = "settle"
      /\ Sw.layer \in Layer /\ Sw.from \in Slot /\ fetch' = fetch /\ lent' = lent
  BY SwapHead
<1>1. sideq \in Seq(SideOp) /\ landing \in Seq(SwapRec)
  BY DEF Types, TypeOK, QueuesOK
<1>2. 1 \in 1..Len(swaps) /\ Sw = swaps[1]
  BY <1>0 DEF Sw
<1>3. Sw.layer \notin lent /\ ~SideTo(Sw.layer, Sw.from)
  BY <1>2 DEF Sides, SideApart
<1>4. Lands => Held /\ Sw.to # None
  BY DEF Lands, Held
<1>5. Held => Sw.to # None
  BY DEF Held
<1>6. Sw.to # None => Claimed(Sw.layer, Sw.to) /\ ram[Sw.layer][Sw.to].expert = Sw.victim
  BY SwapSlots
<1>7. \A j \in 1..Len(swaps) : swaps[j].layer = Sw.layer /\ Sw.to # None => Sw.to # swaps[j].from
  BY <1>2 DEF Slots, SwapApart
<1>8. \/ sideq' = sideq /\ landing' = landing
      \/ Lands /\ sideq' = Append(sideq, o) /\ landing' = Append(landing, Sw)
  BY SwapSide
<1>9. \A k \in Layer, x \in Slot : Lands /\ k = Sw.layer /\ x = Sw.to =>
          ram'[k][x].expert = Sw.victim /\ ram'[k][x].valid /\ ~ram'[k][x].cold /\ ram'[k][x].soa
  BY SwapEntry
<1>10. \A k \in Layer, x \in Slot :
          ~(k = Sw.layer /\ ((Held /\ x = Sw.to) \/ (Away /\ x = Sw.from))) => ram'[k][x] = ram[k][x]
  BY SwapEntry
<1>11. o.l = Sw.layer /\ o.s = Sw.to /\ o.r = Sw.ring
  OBVIOUS
<1>12. Lands => Sw.to \in Slot
  BY SwapHead DEF Lands
<1> HIDE DEF Sw, Lands, Held, Away, o
<1>13. \A i \in 1..Len(sideq') : \/ i \in 1..Len(sideq) /\ sideq'[i] = sideq[i]
                                 \/ Lands /\ sideq'[i] = o /\ landing' = Append(landing, Sw)
  BY <1>1, <1>8
<1>14. \A i \in 1..Len(sideq) : sideq[i].l \in Layer /\ sideq[i].s \in Slot
  <2>1. \A i \in 1..Len(sideq) : sideq[i] \in SideOp
    BY <1>1
  <2> QED BY <2>1 DEF SideOp
<1>15. SideHeld'
  <2> SUFFICES ASSUME NEW i \in 1..Len(sideq')
               PROVE  LET r == ram'[sideq'[i].l][sideq'[i].s]
                      IN  /\ r.expert # None /\ r.valid /\ ~r.cold /\ r.soa
                          /\ \E m \in 1..Len(landing') : /\ landing'[m].layer = sideq'[i].l
                                /\ landing'[m].to = sideq'[i].s /\ landing'[m].ring = sideq'[i].r
    BY DEF SideHeld
  <2>1. CASE i \in 1..Len(sideq) /\ sideq'[i] = sideq[i]
    <3>1. PICK k \in Layer, x \in Slot : k = sideq[i].l /\ x = sideq[i].s
      BY <1>14, <2>1
    <3>2. /\ ram[k][x].expert # None /\ ram[k][x].valid /\ ~ram[k][x].cold /\ ram[k][x].soa
          /\ \E m \in 1..Len(landing) : /\ landing[m].layer = k /\ landing[m].to = x
                                        /\ landing[m].ring = sideq[i].r
      BY <2>1, <3>1 DEF Sides, SideHeld
    <3>3. SideTo(k, x)
      BY <2>1, <3>1 DEF SideTo
    <3>4. ~(k = Sw.layer /\ ((Held /\ x = Sw.to) \/ (Away /\ x = Sw.from)))
      BY <1>3, <1>5, <1>6, <3>2, <3>3 DEF Claimed
    <3>5. ram'[k][x] = ram[k][x]
      BY <1>10, <3>4
    <3>6. \E m \in 1..Len(landing') : /\ landing'[m].layer = k /\ landing'[m].to = x
                                      /\ landing'[m].ring = sideq[i].r
      <4>1. PICK m \in 1..Len(landing) : landing[m].layer = k /\ landing[m].to = x /\ landing[m].ring = sideq[i].r
        BY <3>2
      <4>2. m \in 1..Len(landing') /\ landing'[m] = landing[m]
        <5>1. landing' = landing \/ landing' = Append(landing, Sw)
          BY <1>8
        <5> QED BY <1>1, <5>1
      <4> QED BY <4>1, <4>2
    <3> QED BY <2>1, <3>1, <3>2, <3>5, <3>6
  <2>2. CASE Lands /\ sideq'[i] = o /\ landing' = Append(landing, Sw)
    <3>1. Sw.victim # None
      BY <1>4, <1>6, <2>2 DEF Claimed
    <3>2. Len(landing) + 1 \in 1..Len(landing') /\ landing'[Len(landing) + 1] = Sw
      BY <1>1, <2>2
    <3>3. ram'[Sw.layer][Sw.to].expert # None /\ ram'[Sw.layer][Sw.to].valid
          /\ ~ram'[Sw.layer][Sw.to].cold /\ ram'[Sw.layer][Sw.to].soa
      BY <1>0, <1>9, <1>12, <2>2, <3>1
    <3> QED BY <1>11, <2>2, <3>2, <3>3
  <2> QED BY <1>13, <2>1, <2>2
<1>16. \A k, x : SideTo(k, x)' => SideTo(k, x) \/ (k = Sw.layer /\ x = Sw.to /\ Sw.to # None)
  BY <1>4, <1>11, <1>13 DEF SideTo
<1>17. SideApart'
  <2>1. fetch'.pc \notin AtLayer /\ fetch'.pc # "restore"
    BY <1>0 DEF AtLayer
  <2>2. \A k \in lent', x \in Slot : ~SideTo(k, x)'
    BY <1>0, <1>3, <1>16 DEF Sides, SideApart
  <2>3. \A i \in 1..Len(swaps') : swaps'[i].layer \notin lent' /\ ~SideTo(swaps[i].layer, swaps[i].from)'
    <3> SUFFICES ASSUME NEW i \in 1..Len(swaps')
                 PROVE  swaps'[i].layer \notin lent' /\ ~SideTo(swaps[i].layer, swaps[i].from)'
      OBVIOUS
    <3>1. i + 1 \in 1..Len(swaps) /\ swaps'[i] = swaps[i + 1]
      BY <1>0
    <3>2. swaps[i + 1].layer \notin lent /\ ~SideTo(swaps[i + 1].layer, swaps[i + 1].from)
      BY <3>1 DEF Sides, SideApart
    <3>3. ~(swaps[i + 1].layer = Sw.layer /\ swaps[i + 1].from = Sw.to /\ Sw.to # None)
      BY <1>7, <3>1
    <3> QED BY <1>0, <1>16, <3>1, <3>2, <3>3
  <2> QED BY <2>1, <2>2, <2>3 DEF SideApart
<1> QED BY <1>15, <1>17 DEF Sides

-----------------------------------------------------------------------------
\* What a promotion adds to the compute queue.
LEMMA PromoteQueue ==
    ASSUME Types, NEW l \in Layer, NEW e \in Expert, NEW s \in Slot, NEW g \in GSlot,
           NEW pick, NEW r, Promote(l, e, s, g, pick, r), NEW to, to = IF pick = s THEN None ELSE pick,
           NEW i \in 1..Len(cq')
    PROVE  \/ i \in 1..Len(cq) /\ cq'[i] = cq[i]
           \/ cq'[i] = Upload(l, s, g, ram'[l][s].soa)
           \/ to # None /\ r # None /\ cq'[i] = Stage(l, g, r)
           \/ to # None /\ r = None /\ cq'[i] = ReadBack(l, g, to)
<1>0. cq \in Seq(CqOp)
  BY DEF Types, QueuesOK
<1>1. cq' = (IF to = None THEN cq
             ELSE IF r # None THEN Append(cq, Stage(l, g, r))
             ELSE Append(cq, ReadBack(l, g, to)))
            \o <<Upload(l, s, g, ram'[l][s].soa)>>
  BY DEF Promote
<1> DEFINE up == Upload(l, s, g, ram'[l][s].soa)
           st == Stage(l, g, r)
           rb == ReadBack(l, g, to)
<1> HIDE DEF up, st, rb
<1>2. cq' = (IF to = None THEN cq ELSE IF r # None THEN Append(cq, st) ELSE Append(cq, rb)) \o <<up>>
  BY <1>1 DEF up, st, rb
<1>3. CASE to = None
  BY <1>0, <1>2, <1>3 DEF up
<1>4. CASE to # None /\ r # None
  BY <1>0, <1>2, <1>4 DEF up, st
<1>5. CASE to # None /\ r = None
  BY <1>0, <1>2, <1>5 DEF up, rb
<1> QED BY <1>3, <1>4, <1>5

\* A protected slot with a full-precision block stays one.
LEMMA RamHeld ==
    ASSUME NEW k \in Layer, NEW x \in Slot, RamMove(k, x),
           ram[k][x].expert # None, ram[k][x].valid, ~ram[k][x].cold, <<k, x>> \in rel
    PROVE  Kept(k, x) \/ Softened(k, x)
BY DEF RamMove, Marked, Dropped, Taken

\* What the other steps do to it.
QueueStep ==
    \/ cq = <<>> /\ cq' = <<>>
    \/ /\ rel' = rel /\ swaps' = swaps
       /\ \/ cq' = cq
          \/ cq # <<>> /\ cq' = Tail(cq)
          \/ fetch'.pc \notin Quiet /\ \E u : cq' = Append(cq, u) /\ u.op = "use" /\ u.s = None

LEMMA QueueMoves ==
    ASSUME Types, Types', HostHolds, Phases, QueueEmpty, [Next]_vars, ~ServePromoteAny, ~RefillAny
    PROVE  QueueStep
<1>1. CASE FetchStartAny \/ PrefetchAny \/ WarmAny \/ BatchAny \/ RestoreAny
  <2>1. CASE FetchStartAny
    BY <2>1 DEF FetchStartAny, FetchStart, device, QueueStep
  <2>2. CASE PrefetchAny
    BY <2>2 DEF PrefetchAny, PrefetchBegin, QueueStep
  <2>3. CASE WarmAny
    BY <2>3 DEF WarmAny, Warm, QueueStep
  <2>4. CASE BatchAny
    BY <2>4 DEF BatchAny, FetchBatch, QueueStep
  <2>5. CASE RestoreAny
    BY <2>5 DEF RestoreAny, PrefetchStart, QueueStep
  <2> QED BY <1>1, <2>1, <2>2, <2>3, <2>4, <2>5
<1>2. CASE SettleLayer \/ RefillDone \/ RestoreBegin \/ LendAny \/ FinishSwap
  <2>1. CASE SettleLayer
    BY <2>1 DEF SettleLayer, device, QueueStep
  <2>2. CASE RefillDone
    BY <2>2 DEF RefillDone, device, QueueStep
  <2>3. CASE RestoreBegin
    BY <2>3 DEF RestoreBegin, device, QueueStep
  <2>4. CASE LendAny
    BY <2>4 DEF LendAny, LendBegin, LendEnd, device, QueueStep
  <2>5. CASE FinishSwap
    <3>1. fetch.pc = "settle" /\ cq' = cq
      BY <2>5 DEF FinishSwap
    <3> QED BY <3>1 DEF QueueEmpty, Quiet, QueueStep
  <2> QED BY <1>2, <2>1, <2>2, <2>3, <2>4, <2>5
<1>3. CASE FetchSubmit
  <2>1. /\ rel' = rel /\ swaps' = swaps
        /\ cq' = cq \/ \E g : cq' = Append(cq, Use(fetch.layer, g))
    BY <1>3 DEF FetchSubmit, tables
  <2>2. fetch'.pc = "begun"
    BY <1>3, SubmitMoves
  <2>3. \A g : Use(fetch.layer, g).op = "use" /\ Use(fetch.layer, g).s = None
    BY DEF Use, Op
  <2> QED BY <2>1, <2>2, <2>3 DEF Quiet, QueueStep
<1>4. CASE BatchDone
  <2>1. /\ rel' = rel /\ swaps' = swaps
        /\ cq' = cq \/ \E g : cq' = Append(cq, Use(fetch.layer, g))
    BY <1>4 DEF BatchDone, tables
  <2>2. fetch'.pc = "batched"
    BY <1>4, BatchReaped
  <2>3. \A g : Use(fetch.layer, g).op = "use" /\ Use(fetch.layer, g).s = None
    BY DEF Use, Op
  <2> QED BY <2>1, <2>2, <2>3 DEF Quiet, QueueStep
<1>5. CASE ServeAny \/ ServeMissAny \/ SettlePending \/ RereadAny \/ RereadReturns
           \/ FetchEnd \/ FetchShort \/ SettleLayerDone \/ PrefetchFinish \/ RestoreEnds \/ SettleFullDone
  <2>1. cq' = cq /\ rel' = rel /\ swaps' = swaps
    BY <1>5 DEF ServeAny, ServeVram, ServeClaimed, ServeRam, ServeUpgrade, ServeFails, ServeMissAny,
                ServeMiss, SettlePending, RereadAny, Reread, RereadReturns, FetchEnd,
                FetchShort, SettleLayerDone, PrefetchFinish, RestoreEnds, SettleFullDone, device
  <2> QED BY <2>1 DEF QueueStep
<1>6. CASE PrefetchReap \/ ComputeStep \/ SideStep \/ DiskAny \/ UNCHANGED vars
  <2>1. rel' = rel /\ swaps' = swaps /\ (cq' = cq \/ (cq # <<>> /\ cq' = Tail(cq)))
    BY <1>6 DEF PrefetchReap, ComputeStep, SideStep, DiskAny, DiskLand, vars, hostv, device
  <2> QED BY <2>1 DEF QueueStep
<1> QED BY <1>1, <1>2, <1>3, <1>4, <1>5, <1>6 DEF Next, FetchSteps

\* A promotion out of slot s of the layer.
LEMMA PromoteQueued ==
    ASSUME Types, Types', Maps, Maps', Slots, Phases, Claims, QueueHeld,
           failed = 0, failed' = 0, ServePromoteAny \/ RefillAny
    PROVE  QueueHeld'
<1>1. PICK e \in Expert, g \in GSlot, pick \in Slot \cup {None}, r \in Ring \cup {None} :
         ServePromote(e, g, pick, r) \/ Refill(e, g, pick, r)
  BY DEF ServePromoteAny, RefillAny
<1>2. PICK l \in Layer, s \in Slot : l = fetch.layer /\ s = FindSlot(l, e)
  <2>1. CASE ServePromote(e, g, pick, r)
    <3>1. fetch.layer \in Layer /\ FindSlot(fetch.layer, e) # None
      BY <2>1, ServeFacts DEF ServePromote
    <3> QED BY <3>1, SlotTypes
  <2>2. CASE Refill(e, g, pick, r)
    <3>1. fetch.layer \in Layer /\ FindSlot(fetch.layer, e) # None
      BY <2>2 DEF Refill, Types, FetchOK, AtLayer
    <3> QED BY <3>1, SlotTypes
  <2> QED BY <1>1, <2>1, <2>2
<1>3. Promote(l, e, s, g, pick, r) /\ rel' = rel \cup {<<l, s>>}
  BY <1>1, <1>2 DEF ServePromote, Refill
<1>4. PICK to : to = IF pick = s THEN None ELSE pick
  OBVIOUS
<1>5. ~FinishSwap
  BY <1>1 DEF ServePromote, Serving, Refill, FinishSwap
<1>6. \A k \in Layer, x \in Slot : RamMove(k, x)
  <2>1. [Next]_vars
    BY DEF Next, FetchSteps
  <2> QED BY <1>5, <2>1, StepMoves
<1>7. ram[l][s].expert # None /\ ram[l][s].valid /\ ~ram[l][s].cold
  <2>1. map[l][e] = s /\ s # None /\ e # None /\ ram[l][s].expert = e /\ ram[l][s].valid
    BY <1>2, Lookup, CacheConstants
  <2>2. ~ram[l][map[l][e]].cold
    BY <1>3, <2>1 DEF Promote
  <2> QED BY <2>1, <2>2
<1>8. Same(l, s) /\ s # to
  <2>1. to \in Slot \cup {None} /\ to # s
    BY <1>3, <1>4, PromoteTypes, CacheConstants
  <2> QED BY <1>3, <1>4, <2>1, PromoteLayouts
<1>9. to # None => \E j \in 1..Len(swaps') : swaps'[j].layer = l /\ swaps'[j].to = to
  <2> SUFFICES ASSUME to # None PROVE \E j \in 1..Len(swaps') : swaps'[j].layer = l /\ swaps'[j].to = to
    OBVIOUS
  <2> DEFINE w == [layer |-> l, promoted |-> e, from |-> s, victim |-> vram[l][g], to |-> to, ring |-> r]
  <2>1. Exclusive
    <3>1. pick # s /\ pick # None
      BY <1>4
    <3> QED BY <1>3, <3>1 DEF Promote
  <2>2. swaps' = Append(swaps, w)
    BY <1>3, <1>4, <2>1 DEF Promote
  <2>3. w.layer = l /\ w.to = to
    OBVIOUS
  <2> HIDE DEF w
  <2>4. swaps \in Seq(SwapRec)
    BY DEF Types, TypeOK
  <2>5. Len(swaps) + 1 \in 1..Len(swaps') /\ swaps'[Len(swaps) + 1] = w
    BY <2>2, <2>4
  <2> QED BY <2>3, <2>5
<1>10. \A j \in 1..Len(swaps) : j \in 1..Len(swaps') /\ swaps'[j] = swaps[j]
  <2>1. swaps \in Seq(SwapRec)
    BY DEF Types, TypeOK
  <2>2. PICK w : swaps' = (IF Exclusive THEN Append(swaps, w) ELSE swaps)
    BY <1>3, PromoteSwaps
  <2> QED BY <2>1, <2>2
<1>11. \A i \in 1..Len(cq) : cq[i].l \in Layer /\ (cq[i].op = "upload" => cq[i].s \in Slot)
  <2>1. cq \in Seq(CqOp)
    BY DEF Types, QueuesOK
  <2>2. \A o \in CqOp : o.l \in Layer /\ (o.op = "upload" => o.s \in Slot)
    BY DEF CqOp, CqRec
  <2> QED BY <2>1, <2>2
<1> SUFFICES ASSUME NEW i \in 1..Len(cq')
             PROVE  /\ cq'[i].op = "upload" =>
                          /\ ram'[cq'[i].l][cq'[i].s].expert # None /\ ram'[cq'[i].l][cq'[i].s].valid
                          /\ ~ram'[cq'[i].l][cq'[i].s].cold /\ <<cq'[i].l, cq'[i].s>> \in rel'
                    /\ cq'[i].op = "readback" =>
                          \E j \in 1..Len(swaps') : swaps'[j].layer = cq'[i].l /\ swaps'[j].to = cq'[i].s
                    /\ cq'[i].op \in {"stage", "use"} => cq'[i].s = None
  BY DEF QueueHeld
<1>12. CASE i \in 1..Len(cq) /\ cq'[i] = cq[i]
  <2>1. cq[i].op = "upload" =>
           /\ ram[cq[i].l][cq[i].s].expert # None /\ ram[cq[i].l][cq[i].s].valid
           /\ ~ram[cq[i].l][cq[i].s].cold /\ <<cq[i].l, cq[i].s>> \in rel
    BY <1>12 DEF QueueHeld
  <2>2. cq[i].op = "upload" => Kept(cq[i].l, cq[i].s) \/ Softened(cq[i].l, cq[i].s)
    BY <1>6, <1>11, <1>12, <2>1, RamHeld
  <2> QED BY <1>3, <1>10, <1>12, <2>1, <2>2 DEF QueueHeld, Kept, Softened
<1>13. CASE cq'[i] = Upload(l, s, g, ram'[l][s].soa)
  <2>1. cq'[i].op = "upload" /\ cq'[i].l = l /\ cq'[i].s = s
    BY <1>13 DEF Upload, Op
  <2> QED BY <1>3, <1>7, <1>8, <2>1 DEF Same
<1>14. CASE to # None /\ cq'[i] = Stage(l, g, r)
  BY <1>14 DEF Stage, Op
<1>15. CASE to # None /\ cq'[i] = ReadBack(l, g, to)
  BY <1>9, <1>15 DEF ReadBack, Op
<1> QED BY <1>3, <1>4, <1>12, <1>13, <1>14, <1>15, PromoteQueue

LEMMA StepQueue ==
    ASSUME Types, Types', Maps, Maps', Slots, Phases, Claims, QueueEmpty, QueueHeld,
           failed = 0, failed' = 0, [Next]_vars
    PROVE  QueueEmpty' /\ QueueHeld'
<1>0. HostHolds /\ fetch.pc # "reread" /\ cq \in Seq(CqOp)
  BY DEF Slots, Claims, Types, QueuesOK
<1>1. CASE ServePromoteAny \/ RefillAny
  <2>1. QueueHeld'
    BY <1>1, PromoteQueued
  <2>2. fetch'.pc = fetch.pc
    BY <1>1, GoesOn
  <2>3. fetch.pc \in {"serve", "refill", "warm"}
    BY <1>1 DEF ServePromoteAny, ServePromote, Serving, RefillAny, Refill
  <2> QED BY <2>1, <2>2, <2>3 DEF QueueEmpty, Quiet
<1>2. CASE ~ServePromoteAny /\ ~RefillAny
  <2>1. QueueStep
    BY <1>0, <1>2, QueueMoves
  <2>2. QueueEmpty'
    <3>1. fetch'.pc \in Quiet => cq = <<>>
      BY <1>0, PcMoves DEF QueueEmpty
    <3> QED BY <3>1, <2>1 DEF QueueEmpty, QueueStep
  <2>3. QueueHeld'
    <3>1. CASE cq' = <<>>
      BY <3>1 DEF QueueHeld
    <3>2. CASE cq' # <<>>
      <4>0. cq # <<>> \/ cq' # cq
        BY <3>2
      <4>1. rel' = rel /\ swaps' = swaps
        BY <2>1, <3>2 DEF QueueStep
      <4>2. ~FinishSwap
        <5>1. FinishSwap => cq' = cq /\ cq = <<>>
          BY SwapHead DEF FinishSwap, QueueEmpty, Quiet
        <5> QED BY <3>2, <5>1
      <4>3. \A k \in Layer, x \in Slot : RamMove(k, x)
        BY <4>2, StepMoves
      <4>4. \A i \in 1..Len(cq) : cq[i].l \in Layer /\ (cq[i].op = "upload" => cq[i].s \in Slot)
        <5>1. \A o \in CqOp : o.l \in Layer /\ (o.op = "upload" => o.s \in Slot)
          BY DEF CqOp, CqRec
        <5> QED BY <1>0, <5>1
      <4> SUFFICES ASSUME NEW i \in 1..Len(cq')
                   PROVE  /\ cq'[i].op = "upload" =>
                                /\ ram'[cq'[i].l][cq'[i].s].expert # None /\ ram'[cq'[i].l][cq'[i].s].valid
                                /\ ~ram'[cq'[i].l][cq'[i].s].cold /\ <<cq'[i].l, cq'[i].s>> \in rel'
                          /\ cq'[i].op = "readback" =>
                                \E j \in 1..Len(swaps') : swaps'[j].layer = cq'[i].l /\ swaps'[j].to = cq'[i].s
                          /\ cq'[i].op \in {"stage", "use"} => cq'[i].s = None
        BY DEF QueueHeld
      <4>5. (\E j \in 1..Len(cq) : cq'[i] = cq[j]) \/ (cq'[i].op = "use" /\ cq'[i].s = None)
        <5>1. CASE cq' = cq
          BY <5>1
        <5>2. CASE cq # <<>> /\ cq' = Tail(cq)
          <6>1. i + 1 \in 1..Len(cq) /\ cq'[i] = cq[i + 1]
            BY <1>0, <5>2
          <6> QED BY <6>1
        <5>3. CASE \E u : cq' = Append(cq, u) /\ u.op = "use" /\ u.s = None
          <6>1. PICK u : cq' = Append(cq, u) /\ u.op = "use" /\ u.s = None
            BY <5>3
          <6>2. (i \in 1..Len(cq) /\ cq'[i] = cq[i]) \/ cq'[i] = u
            BY <1>0, <6>1
          <6> QED BY <6>1, <6>2
        <5> QED BY <2>1, <3>2, <5>1, <5>2, <5>3 DEF QueueStep
      <4>6. CASE cq'[i].op = "use" /\ cq'[i].s = None
        BY <4>6
      <4>7. CASE \E j \in 1..Len(cq) : cq'[i] = cq[j]
        <5>1. PICK j \in 1..Len(cq) : cq'[i] = cq[j]
          BY <4>7
        <5>2. cq[j].op = "upload" =>
                 /\ ram[cq[j].l][cq[j].s].expert # None /\ ram[cq[j].l][cq[j].s].valid
                 /\ ~ram[cq[j].l][cq[j].s].cold /\ <<cq[j].l, cq[j].s>> \in rel
          BY DEF QueueHeld
        <5>3. cq[j].op = "upload" => Kept(cq[j].l, cq[j].s) \/ Softened(cq[j].l, cq[j].s)
          BY <4>3, <4>4, <5>2, RamHeld
        <5> QED BY <4>1, <5>1, <5>2, <5>3 DEF QueueHeld, Kept, Softened
      <4> QED BY <4>5, <4>6, <4>7
    <3> QED BY <3>1, <3>2
  <2> QED BY <2>2, <2>3
<1> QED BY <1>1, <1>2

LEMMA QueuesAlways == Spec => [](failed = 0 => Sides /\ QueueEmpty /\ QueueHeld)
<1>1. Init => Sides /\ QueueEmpty /\ QueueHeld
  <2> SUFFICES ASSUME Init PROVE Sides /\ QueueEmpty /\ QueueHeld
    OBVIOUS
  <2>1. cq = <<>> /\ sideq = <<>> /\ swaps = <<>> /\ lent = {} /\ fetch.pc = "idle"
    BY DEF Init, NoFetch
  <2> QED BY <2>1 DEF Sides, SideHeld, SideApart, SideTo, QueueEmpty, QueueHeld, AtLayer
<1>2. /\ Types /\ Types' /\ Maps /\ Maps' /\ Slots /\ Phases /\ (failed = 0 => Claims)
      /\ (failed = 0 => Sides /\ QueueEmpty /\ QueueHeld) /\ [Next]_vars
      => (failed = 0 => Sides /\ QueueEmpty /\ QueueHeld)'
  <2> SUFFICES ASSUME Types, Types', Maps, Maps', Slots, Phases, failed = 0 => Claims,
                      failed = 0 => Sides /\ QueueEmpty /\ QueueHeld, [Next]_vars, failed' = 0
               PROVE  Sides' /\ QueueEmpty' /\ QueueHeld'
    OBVIOUS
  <2>1. failed = 0
    BY FailedStays
  <2>2. Sides'
    BY <2>1, StepSides, SwapSides
  <2>3. QueueEmpty' /\ QueueHeld'
    BY <2>1, StepQueue
  <2> QED BY <2>2, <2>3
<1> QED BY <1>1, <1>2, TypesAlways, MapsAlways, SlotsAlways, PhasesAlways, ClaimsAlways, PTL DEF Spec

-----------------------------------------------------------------------------
\* A read on the drive: its slot is claimed for its expert, or adopted by a batch.
LEMMA ReadSlots ==
    ASSUME Types, Slots, Phases, Claims, DiskReads, NEW d \in disk
    PROVE  /\ d.l \in Layer /\ d.s \in Slot /\ d.e \in Expert /\ d.cold \in BOOLEAN /\ d.spec \in BOOLEAN
           /\ ram[d.l][d.s].expert = d.e /\ ~ram[d.l][d.s].soa
           /\ \/ ~ram[d.l][d.s].valid /\ InHost(d.l, d.s)
              \/ BatchRead(d)
<1>1. d.l \in Layer /\ d.s \in Slot /\ d.e \in Expert /\ d.cold \in BOOLEAN /\ d.spec \in BOOLEAN
  BY DEF Types, TypeOK, ReadRec
<1>2. SpecRead(d) \/ ClaimRead(d) \/ NextRead(d) => Wanted(d.l, d.e, d.s)
  BY DEF SpecRead, ClaimRead, NextRead, Wanted
<1>3. WantedHeld
  BY DEF Claims
<1>4. CASE SpecRead(d) \/ ClaimRead(d) \/ NextRead(d)
  BY <1>1, <1>2, <1>3, <1>4, WantedFacts
<1>5. CASE BatchRead(d)
  BY <1>1, <1>5 DEF BatchRead
<1> QED BY <1>4, <1>5 DEF DiskReads

\* No block has two writers, as long as no fetch has failed: reads in flight have distinct
\* slots, and none goes to a slot that an upload still reads or a read-back still fills.
THEOREM ReadsNotAliased == Spec => [](failed = 0 => NoAliasedRead)
<1>1. ASSUME Types, Slots, Phases, Claims, DiskReads, Sides, QueueEmpty, QueueHeld
      PROVE  NoAliasedRead
  <2> SUFFICES ASSUME NEW d \in disk
               PROVE  ~Queued(d.l, d.s) /\ \A x \in disk : x.l = d.l /\ x.s = d.s => x = d
    BY DEF NoAliasedRead
  <2>1. /\ d.l \in Layer /\ d.s \in Slot /\ d.e \in Expert /\ d.cold \in BOOLEAN /\ d.spec \in BOOLEAN
        /\ ram[d.l][d.s].expert = d.e /\ ~ram[d.l][d.s].soa
        /\ (~ram[d.l][d.s].valid /\ InHost(d.l, d.s)) \/ BatchRead(d)
    BY <1>1, ReadSlots
  <2>2. ~\E i \in 1..Len(sideq) : sideq[i].l = d.l /\ sideq[i].s = d.s
    BY <1>1, <2>1 DEF Sides, SideHeld
  <2>3. ASSUME NEW i \in 1..Len(cq), cq[i].l = d.l, cq[i].s = d.s PROVE FALSE
    <3>1. cq # <<>> /\ cq[i] \in CqOp
      BY <1>1 DEF Types, QueuesOK
    <3>2. ~BatchRead(d)
      BY <1>1, <3>1 DEF BatchRead, QueueEmpty, Quiet
    <3>3. ~ram[d.l][d.s].valid /\ InHost(d.l, d.s)
      BY <2>1, <3>2
    <3>4. cq[i].op \in {"upload", "stage", "readback", "use"}
      BY <3>1 DEF CqOp, CqRec
    <3>5. cq[i].op # "upload"
      BY <1>1, <2>3, <3>3 DEF QueueHeld
    <3>6. cq[i].op # "readback"
      <4>1. SUFFICES ASSUME cq[i].op = "readback" PROVE FALSE
        OBVIOUS
      <4>2. PICK j \in 1..Len(swaps) : swaps[j].layer = d.l /\ swaps[j].to = d.s
        BY <1>1, <2>3, <4>1 DEF QueueHeld
      <4>3. ~InHost(d.l, d.s)
        BY <1>1, <2>1, <4>2 DEF Slots, SwapTo
      <4> QED BY <3>3, <4>3
    <3>7. cq[i].op \notin {"stage", "use"}
      BY <1>1, <2>1, <2>3, CacheConstants DEF QueueHeld
    <3> QED BY <3>4, <3>5, <3>6, <3>7
  <2>4. ASSUME NEW x \in disk, x.l = d.l, x.s = d.s PROVE x = d
    <3>1. /\ x.l \in Layer /\ x.s \in Slot /\ x.e \in Expert /\ x.cold \in BOOLEAN /\ x.spec \in BOOLEAN
          /\ ram[x.l][x.s].expert = x.e
          /\ (~ram[x.l][x.s].valid /\ InHost(x.l, x.s)) \/ BatchRead(x)
      BY <1>1, ReadSlots
    <3>2. x.e = d.e
      BY <2>1, <2>4, <3>1
    <3>3. /\ BatchRead(d) \/ SpecRead(d) \/ ClaimRead(d) \/ NextRead(d)
          /\ BatchRead(x) \/ SpecRead(x) \/ ClaimRead(x) \/ NextRead(x)
      BY <1>1 DEF DiskReads
    <3>4. /\ SpecRead(d) => d.spec /\ InPf(d.l, d.s)
          /\ SpecRead(x) => x.spec /\ InPf(d.l, d.s)
          /\ ClaimRead(d) => ~d.spec /\ InClaims(d.l, d.s)
          /\ ClaimRead(x) => ~x.spec /\ InClaims(d.l, d.s)
          /\ NextRead(d) => ~d.spec /\ InNext(d.l, d.s)
          /\ NextRead(x) => ~x.spec /\ InNext(d.l, d.s)
          /\ BatchRead(d) => ~d.spec /\ ram[d.l][d.s].valid
          /\ BatchRead(x) => ~x.spec /\ ram[d.l][d.s].valid
      BY <2>4 DEF SpecRead, ClaimRead, NextRead, BatchRead, InPf, InClaims, InNext, InFetch, Submitted
    <3>5. InPf(d.l, d.s) => ~InClaims(d.l, d.s) /\ ~InNext(d.l, d.s) /\ ~ram[d.l][d.s].valid
      BY <1>1, <2>1 DEF Slots, HostHolds, InHeld, Claimed
    <3>6. x.spec = d.spec
      BY <2>1, <3>1, <3>3, <3>4, <3>5
    <3>7. x.cold = d.cold
      <4>1. CASE d.spec
        <5>1. d.cold = ram[d.l][d.s].cold /\ x.cold = ram[d.l][d.s].cold
          BY <2>4, <3>3, <3>6, <4>1 DEF SpecRead, ClaimRead, NextRead, BatchRead
        <5> QED BY <5>1
      <4>2. CASE ~d.spec
        <5>1. /\ ClaimRead(d) => d.cold = ram[d.l][d.s].cold
              /\ ClaimRead(x) => x.cold = ram[d.l][d.s].cold
          BY <1>1, <2>4 DEF Claims, ClaimFlags, ClaimRead
        <5>2. InClaims(d.l, d.s) => ~InNext(d.l, d.s) /\ ~BatchRead(d) /\ ~BatchRead(x)
          BY <1>1 DEF InClaims, InNext, InFetch, BatchRead, Phases, Slots, HostHolds
        <5>3. CASE ClaimRead(d) \/ ClaimRead(x)
          <6>1. InClaims(d.l, d.s)
            BY <3>4, <5>3
          <6>2. ClaimRead(d) /\ ClaimRead(x)
            BY <3>3, <3>4, <3>6, <4>2, <5>2, <6>1
          <6> QED BY <5>1, <6>2
        <5>4. CASE ~ClaimRead(d) /\ ~ClaimRead(x)
          <6>1. ~d.cold /\ ~x.cold
            BY <3>3, <3>4, <3>6, <4>2, <5>4 DEF NextRead, BatchRead
          <6> QED BY <2>1, <3>1, <6>1
        <5> QED BY <5>3, <5>4
      <4> QED BY <2>1, <4>1, <4>2
    <3>8. d \in ReadRec /\ x \in ReadRec
      BY <1>1 DEF Types, TypeOK
    <3> QED BY <2>4, <3>2, <3>6, <3>7, <3>8 DEF ReadRec
  <2> QED BY <2>2, <2>3, <2>4 DEF Queued
<1> QED BY <1>1, TypesAlways, SlotsAlways, PhasesAlways, ClaimsAlways, ReadsAlways, QueuesAlways, PTL

-----------------------------------------------------------------------------
(* The bytes.  A promotion's victim goes to a slot of its own, so the       *)
(* layout flag of the slot an upload reads is left alone.  That is so for a *)
(* fetch and for warm(), which protect the slots they serve from; for the   *)
(* restore it is so while the tier it fills holds nothing it may replace.   *)

RestoresOwn ==
    Exclusive /\ fetch.next # None =>
        \A g \in GSlot : vram[fetch.next.l][g] # None => <<fetch.next.l, g>> \in gused

Apart ==
    /\ fetch.pc = "refill" /\ Exclusive =>
          \A g \in GSlot : vram[fetch.layer][g] # None => <<fetch.layer, g>> \in gused
    /\ fetch.pc = "warm" =>
          \A e \in fetch.cand : map[fetch.layer][e] # None => map[fetch.layer][e] \in live
    /\ fetch.pc = "serve" => \A i \in 1..Len(fetch.todo) :
          map[fetch.layer][fetch.todo[i]] # None => map[fetch.layer][fetch.todo[i]] \in live

\* A promotion, of the list that is served or of the tier that is filled.
Promotion(l, e, s, g, pick, r) ==
    /\ Promote(l, e, s, g, pick, r) /\ s = FindSlot(l, e) /\ gmap[l][e] = None /\ l = fetch.layer
    /\ \/ fetch.pc = "serve" /\ Serving(e) /\ fetch'.todo = Tail(fetch.todo)
       \/ fetch.pc \in {"refill", "warm"} /\ e \in fetch.cand /\ fetch'.cand \subseteq fetch.cand
    /\ fetch'.pc = fetch.pc /\ fetch'.layer = l
    /\ live \subseteq live' /\ rel' = rel \cup {<<l, s>>}
    /\ \/ handles' = handles
       \/ fetch.pc = "serve" /\ handles' = handles \cup {Handle(e, TRUE, g, FALSE, TRUE)}
    /\ UNCHANGED <<lent, landing, pf, pend, disk, landed, sideq, rbytes, gbytes, sbytes>>

LEMMA PromotionStep ==
    ASSUME Types, Maps, ServePromoteAny \/ RefillAny
    PROVE  \E l \in Layer, e \in Expert, s \in Slot, g \in GSlot, pick \in Slot \cup {None}, r \in Ring \cup {None} :
               Promotion(l, e, s, g, pick, r)
<1>1. PICK e \in Expert, g \in GSlot, pick \in Slot \cup {None}, r \in Ring \cup {None} :
         ServePromote(e, g, pick, r) \/ Refill(e, g, pick, r)
  BY DEF ServePromoteAny, RefillAny
<1>2. PICK l \in Layer, s \in Slot : l = fetch.layer /\ s = FindSlot(l, e)
  <2>1. CASE ServePromote(e, g, pick, r)
    <3>1. fetch.layer \in Layer /\ FindSlot(fetch.layer, e) # None
      BY <2>1, ServeFacts DEF ServePromote
    <3> QED BY <3>1, SlotTypes
  <2>2. CASE Refill(e, g, pick, r)
    <3>1. fetch.layer \in Layer /\ FindSlot(fetch.layer, e) # None
      BY <2>2 DEF Refill, Types, FetchOK, AtLayer
    <3> QED BY <3>1, SlotTypes
  <2> QED BY <1>1, <2>1, <2>2
<1>3. fetch'.pc = fetch.pc /\ fetch'.layer = l
  BY <1>2, GoesOn
<1>4. CASE ServePromote(e, g, pick, r)
  <2>1. fetch \in FetchRec
    BY DEF Types, FetchOK
  <2>2. fetch' = [fetch EXCEPT !.todo = Tail(@), !.promoted = @ + 1]
    BY <1>4 DEF ServePromote
  <2>3. fetch'.todo = Tail(fetch.todo)
    BY <2>1, <2>2 DEF FetchRec
  <2>4. ~InVram(l, e) /\ Serving(e) /\ fetch.pc = "serve"
    BY <1>2, <1>4 DEF ServePromote, Serving
  <2>5. gmap[l][e] = None
    BY <2>4, Lookup
  <2>6. Promote(l, e, s, g, pick, r) /\ rel' = rel \cup {<<l, s>>} /\ live \subseteq live'
        /\ handles' = handles \cup {Handle(e, TRUE, g, FALSE, TRUE)}
        /\ UNCHANGED <<lent, landing, pf, pend, disk, landed, sideq, rbytes, gbytes, sbytes>>
    BY <1>2, <1>4 DEF ServePromote
  <2> QED BY <1>2, <1>3, <2>3, <2>4, <2>5, <2>6 DEF Promotion
<1>5. CASE Refill(e, g, pick, r)
  <2>1. fetch \in FetchRec
    BY DEF Types, FetchOK
  <2>2. fetch' = [fetch EXCEPT !.cand = @ \ {e}] /\ fetch.pc \in {"refill", "warm"} /\ e \in fetch.cand
    BY <1>5 DEF Refill
  <2>3. fetch'.cand \subseteq fetch.cand
    BY <2>1, <2>2 DEF FetchRec
  <2>4. gmap[l][e] = None
    BY <1>2, <2>2 DEF Maps, Fresh
  <2>5. Promote(l, e, s, g, pick, r) /\ rel' = rel \cup {<<l, s>>} /\ live \subseteq live' /\ handles' = handles
        /\ UNCHANGED <<lent, landing, pf, pend, disk, landed, sideq, rbytes, gbytes, sbytes>>
    BY <1>2, <1>5 DEF Refill
  <2> QED BY <1>2, <1>3, <2>2, <2>3, <2>4, <2>5 DEF Promotion
<1> QED BY <1>1, <1>2, <1>4, <1>5

\* What a promotion finds and leaves in the tables.
Fills(l, e, g) ==
    /\ gused' = gused \cup {<<l, g>>}
    /\ \A k \in Layer, h \in GSlot : vram'[k][h] = IF k = l /\ h = g THEN e ELSE vram[k][h]

LEMMA PromotionFacts ==
    ASSUME Types, Maps, NEW l \in Layer, NEW e \in Expert, NEW s \in Slot, NEW g \in GSlot,
           NEW pick \in Slot \cup {None}, NEW r \in Ring \cup {None}, Promotion(l, e, s, g, pick, r)
    PROVE  /\ map[l][e] = s /\ ram[l][s].expert = e /\ ram[l][s].valid /\ ~ram[l][s].cold
           /\ l \notin lent /\ fetch.pc \in AtLayer /\ fetch.pc \in {"serve", "refill", "warm"}
           /\ fetch'.pc \in {"serve", "refill", "warm"}
           /\ vram[l][g] = None \/ <<l, g>> \notin gused
           /\ Fills(l, e, g)
<1>1. s = FindSlot(l, e) /\ Promote(l, e, s, g, pick, r)
  BY DEF Promotion
<1>2. map[l][e] = s /\ ram[l][s].expert = e /\ ram[l][s].valid
  BY <1>1, CacheConstants, Lookup
<1>3. ~ram[l][s].cold /\ l \notin lent
  BY <1>1, <1>2, CacheConstants DEF Promote
<1>4. /\ fetch.pc \in AtLayer /\ fetch.pc \in {"serve", "refill", "warm"}
      /\ fetch'.pc \in {"serve", "refill", "warm"}
  BY DEF Promotion, AtLayer
<1>5. vram[l][g] = None \/ <<l, g>> \notin gused
  BY <1>1 DEF Promote, GVictims
<1>6. vram' = [vram EXCEPT ![l][g] = e] /\ gused' = gused \cup {<<l, g>>}
  BY <1>1 DEF Promote
<1>7. vram \in [Layer -> [GSlot -> Expert \cup {None}]]
  BY DEF Types, TypeOK
<1>8. \A k \in Layer, h \in GSlot : vram'[k][h] = IF k = l /\ h = g THEN e ELSE vram[k][h]
  BY <1>6, <1>7
<1>9. Fills(l, e, g)
  BY <1>6, <1>8 DEF Fills
<1> QED BY <1>2, <1>3, <1>4, <1>5, <1>9

\* A victim's new slot is none that the fetch has handed out, unless it is empty.
LEMMA TargetUnheld ==
    ASSUME Types, NEW l \in Layer
    PROVE  \A t \in SwapTargets(l) : t = None \/ t \notin live \/ ram[l][t].expert = None
<1>1. CASE FreeTop(l) # {}
  <2>1. FreeTop(l) \subseteq 1..Len(free[l]) /\ Len(free[l]) \in Nat
    BY DEF FreeTop, Types, TypeOK
  <2>2. \E i \in FreeTop(l) : \A j \in FreeTop(l) : j <= i
    BY <1>1, <2>1, Greatest
  <2> DEFINE m == CHOOSE i \in FreeTop(l) : \A j \in FreeTop(l) : j <= i
  <2>3. m \in FreeTop(l)
    BY <2>2
  <2>4. SwapTargets(l) = {free[l][m]}
    BY <1>1 DEF SwapTargets
  <2> HIDE DEF m
  <2> QED BY <2>3, <2>4 DEF FreeTop
<1>2. CASE FreeTop(l) = {}
  BY <1>2 DEF SwapTargets, Evictable
<1> QED BY <1>1, <1>2

\* A victim's slot is not the one its successor is promoted from.
LEMMA NotOwn ==
    ASSUME Types, Maps, Apart, NEW l \in Layer, NEW e \in Expert, NEW s \in Slot, NEW g \in GSlot,
           NEW pick \in Slot \cup {None}, NEW r \in Ring \cup {None}, Promotion(l, e, s, g, pick, r)
    PROVE  pick # s
<1>1. /\ map[l][e] = s /\ ram[l][s].expert = e
      /\ vram[l][g] = None \/ <<l, g>> \notin gused
  BY PromotionFacts
<1>2. pick \in (IF Exclusive /\ vram[l][g] # None THEN SwapTargets(l) ELSE {None})
  BY DEF Promotion, Promote
<1>3. CASE fetch.pc = "refill"
  <2>1. ~(Exclusive /\ vram[l][g] # None)
    BY <1>1, <1>3 DEF Apart, Promotion
  <2> QED BY <1>2, <2>1, CacheConstants
<1>4. CASE fetch.pc \in {"serve", "warm"}
  <2>1. s \in live
    <3>1. CASE fetch.pc = "serve"
      <4>1. Serving(e) /\ fetch.todo \in Seq(Expert)
        BY <3>1 DEF Promotion, Types, FetchOK, FetchRec
      <4>2. fetch.todo # <<>> /\ e = Head(fetch.todo)
        BY <4>1 DEF Serving
      <4>3. 1 \in 1..Len(fetch.todo) /\ e = fetch.todo[1]
        BY <4>1, <4>2
      <4> QED BY <1>1, <3>1, <4>3, CacheConstants DEF Apart, Promotion
    <3>2. CASE fetch.pc = "warm"
      <4>1. e \in fetch.cand
        BY <3>2 DEF Promotion
      <4> QED BY <1>1, <3>2, <4>1, CacheConstants DEF Apart, Promotion
    <3> QED BY <1>4, <3>1, <3>2
  <2>2. \A t \in SwapTargets(l) : t = None \/ t \notin live \/ ram[l][t].expert = None
    BY TargetUnheld
  <2> QED BY <1>1, <1>2, <2>1, <2>2, CacheConstants
<1> QED BY <1>3, <1>4 DEF Promotion

\* The tier of the device: only promotions fill it, and outside of a settle nothing
\* empties it.
LEMMA TierMoves ==
    ASSUME Types, Maps, [Next]_vars, ~ServePromoteAny, ~RefillAny
    PROVE  /\ (vram' = vram /\ gmap' = gmap) \/ (fetch.pc = "settle" /\ gused' = gused)
           /\ gused \subseteq gused' \/ (fetch.pc = "idle" /\ fetch'.pc = "serve")
           /\ lent' = lent \/ fetch.pc \in {"idle", "settle"}
<1>1. CASE FetchStartAny \/ PrefetchAny \/ WarmAny \/ BatchAny \/ RestoreAny
  <2>1. CASE FetchStartAny
    <3>1. PICK l \in Layer, list \in Lists : FetchStart(l, list)
      BY <2>1 DEF FetchStartAny
    <3>2. fetch' = [NoFetch EXCEPT !.pc = "serve", !.layer = l, !.todo = list] /\ fetch.pc = "idle"
      BY <3>1 DEF FetchStart
    <3>3. fetch'.pc = "serve"
      BY <3>2 DEF NoFetch
    <3> QED BY <3>1, <3>2, <3>3 DEF FetchStart
  <2>2. CASE PrefetchAny
    BY <2>2 DEF PrefetchAny, PrefetchBegin
  <2>3. CASE WarmAny
    BY <2>3 DEF WarmAny, Warm
  <2>4. CASE BatchAny
    BY <2>4 DEF BatchAny, FetchBatch
  <2>5. CASE RestoreAny
    BY <2>5 DEF RestoreAny, PrefetchStart
  <2> QED BY <1>1, <2>1, <2>2, <2>3, <2>4, <2>5
<1>2. CASE \E e \in Expert : ServeUpgrade(e)
  <2>1. PICK e \in Expert : ServeUpgrade(e)
    BY <1>2
  <2>2. fetch.layer \in Layer /\ ~InVram(fetch.layer, e)
    BY <2>1, ServeFacts DEF ServeUpgrade
  <2>3. gmap[fetch.layer][e] = None
    BY <2>2, Lookup
  <2>4. vram' = vram /\ gmap' = [gmap EXCEPT ![fetch.layer][e] = None] /\ gused' = gused /\ lent' = lent
    BY <2>1, <2>3 DEF ServeUpgrade
  <2>5. gmap \in [Layer -> [Expert -> GSlot \cup {None}]]
    BY DEF Types, TypeOK
  <2>6. gmap' = gmap
    BY <2>2, <2>3, <2>4, <2>5
  <2> QED BY <2>4, <2>6
<1>3. CASE \E e \in Expert : ServeVram(e) \/ ServeClaimed(e) \/ ServeRam(e) \/ ServeFails(e)
  BY <1>3 DEF ServeVram, ServeClaimed, ServeRam, ServeFails, tables
<1>4. CASE \/ ServeMissAny \/ SettlePending \/ RereadAny \/ RereadReturns \/ FetchSubmit \/ BatchDone
           \/ FetchEnd \/ FetchShort \/ SettleLayerDone \/ PrefetchFinish \/ RestoreEnds
  BY <1>4 DEF ServeMissAny, ServeMiss, SettlePending, RereadAny, Reread, RereadReturns, FetchSubmit, BatchDone,
              FetchEnd, FetchShort, SettleLayerDone, PrefetchFinish, RestoreEnds, tables
<1>5. CASE SettleLayer \/ RefillDone \/ RestoreBegin \/ LendAny \/ FinishSwap \/ SettleFullDone
  BY <1>5 DEF SettleLayer, RefillDone, RestoreBegin, LendAny, LendBegin, LendEnd, FinishSwap, SettleFullDone, tables
<1>6. CASE PrefetchReap \/ ComputeStep \/ SideStep \/ DiskAny \/ UNCHANGED vars
  BY <1>6 DEF PrefetchReap, ComputeStep, SideStep, DiskAny, DiskLand, vars, hostv, device, tables
<1> QED BY <1>1, <1>2, <1>3, <1>4, <1>5, <1>6 DEF Next, FetchSteps, ServeAny

\* Where a list is served, or a tier filled, and from what.
LEMMA PlaceMoves ==
    ASSUME Types, Types', HostHolds, Phases, fetch.pc # "reread", failed = 0, failed' = 0, [Next]_vars,
           fetch'.pc \in {"serve", "refill", "warm"}, ~ServePromoteAny, ~RefillAny
    PROVE  \/ fetch'.pc = fetch.pc /\ fetch'.layer = fetch.layer /\ fetch'.cand = fetch.cand
           \/ FetchStartAny \/ WarmAny \/ PrefetchFinish \/ \E l \in Layer : LendEnd(l)
<1>0. fetch \in FetchRec
  BY DEF Types, FetchOK
<1>1. CASE PrefetchAny \/ PrefetchReap \/ ComputeStep \/ SideStep \/ DiskAny \/ FinishSwap \/ UNCHANGED vars
  <2>1. CASE PrefetchAny
    <3>1. fetch' = fetch
      BY <2>1 DEF PrefetchAny, PrefetchBegin
    <3> QED BY <3>1
  <2>2. CASE PrefetchReap \/ FinishSwap
    <3>1. fetch' = fetch
      BY <2>2 DEF PrefetchReap, FinishSwap
    <3> QED BY <3>1
  <2>3. CASE ComputeStep \/ SideStep \/ DiskAny \/ UNCHANGED vars
    <3>1. fetch' = fetch
      BY <2>3 DEF ComputeStep, SideStep, DiskAny, DiskLand, vars, hostv
    <3> QED BY <3>1
  <2> QED BY <1>1, <2>1, <2>2, <2>3, Zenon
<1>2. CASE \E e \in Expert : ServeVram(e) \/ ServeClaimed(e) \/ ServeRam(e)
  <2>1. fetch' = [fetch EXCEPT !.todo = Tail(@)]
    BY <1>2 DEF ServeVram, ServeClaimed, ServeRam, Served
  <2> QED BY <1>0, <2>1 DEF FetchRec
<1>3. CASE ServeMissAny \/ \E e \in Expert : ServeUpgrade(e)
  <2>1. PICK t, c : fetch' = [fetch EXCEPT !.todo = t, !.claims = c]
    BY <1>3 DEF ServeMissAny, ServeMiss, ServeUpgrade
  <2> QED BY <1>0, <2>1 DEF FetchRec
<1>4. CASE FetchShort \/ \E e \in Expert : ServeFails(e)
  BY <1>4, FailedCounts
<1>5. CASE RefillDone \/ SettleFullDone \/ RestoreBegin \/ RestoreEnds \/ SettleLayer \/ SettleLayerDone \/ FetchEnd
  <2>1. CASE RefillDone \/ RestoreBegin
    <3>1. PICK b, n : fetch' = [NoFetch EXCEPT !.pc = "settle", !.full = TRUE, !.restore = b, !.next = n]
      <4>1. CASE RefillDone
        BY <4>1 DEF RefillDone
      <4>2. CASE RestoreBegin
        BY <4>2 DEF RestoreBegin, NoFetch
      <4> QED BY <2>1, <4>1, <4>2
    <3> QED BY <3>1 DEF NoFetch
  <2>2. CASE SettleFullDone
    <3>1. fetch' = NoFetch \/ \E n : fetch' = [NoFetch EXCEPT !.pc = "restore", !.next = n]
      BY <2>2 DEF SettleFullDone
    <3>2. CASE fetch' = NoFetch
      BY <3>2 DEF NoFetch
    <3>3. CASE \E n : fetch' = [NoFetch EXCEPT !.pc = "restore", !.next = n]
      BY <3>3 DEF NoFetch
    <3> QED BY <3>1, <3>2, <3>3
  <2>3. CASE RestoreEnds
    BY <2>3 DEF RestoreEnds, NoFetch
  <2>4. CASE SettleLayer
    <3>1. fetch' = [NoFetch EXCEPT !.pc = "settle"] \/ fetch' = [fetch EXCEPT !.pc = "settle", !.deferred = TRUE]
      BY <2>4 DEF SettleLayer
    <3> QED BY <1>0, <3>1 DEF NoFetch, FetchRec
  <2>5. CASE SettleLayerDone
    <3>1. fetch' = NoFetch \/ fetch' = [fetch EXCEPT !.pc = "idle"]
      BY <2>5 DEF SettleLayerDone
    <3> QED BY <1>0, <3>1 DEF NoFetch, FetchRec
  <2>6. CASE FetchEnd
    <3>1. fetch' = NoFetch \/ fetch' = [fetch EXCEPT !.pc = "ended", !.claims = {}, !.need = NoFetch.need]
      BY <2>6 DEF FetchEnd
    <3>2. CASE fetch' = NoFetch
      BY <3>2 DEF NoFetch
    <3>3. CASE fetch' = [fetch EXCEPT !.pc = "ended", !.claims = {}, !.need = NoFetch.need]
      BY <1>0, <3>3 DEF FetchRec
    <3> QED BY <3>1, <3>2, <3>3
  <2> QED BY <1>5, <2>1, <2>2, <2>3, <2>4, <2>5, <2>6
<1>6. CASE BatchDone \/ FetchSubmit \/ SettlePending \/ RereadReturns \/ RereadAny
  <2>1. CASE BatchDone
    BY <2>1, BatchReaped
  <2>2. CASE FetchSubmit
    BY <2>2, SubmitMoves
  <2>3. CASE SettlePending
    BY <2>3, PendingMoves
  <2>4. CASE RereadReturns \/ RereadAny
    BY <2>4 DEF RereadReturns, RereadAny, Reread
  <2> QED BY <1>6, <2>1, <2>2, <2>3, <2>4
<1>7. CASE BatchAny
  BY <1>7, BatchReads DEF BatchAny
<1>8. CASE RestoreAny
  <2>1. PICK n : fetch' = [fetch EXCEPT !.next = n]
    BY <1>8 DEF RestoreAny, PrefetchStart
  <2> QED BY <1>0, <2>1 DEF FetchRec
<1>9. CASE LendAny
  <2>1. PICK l \in Layer : LendBegin(l) \/ LendEnd(l)
    BY <1>9 DEF LendAny
  <2>2. LendBegin(l) => fetch' = [NoFetch EXCEPT !.pc = "settle", !.full = TRUE, !.lend = l]
    BY DEF LendBegin
  <2>3. LendBegin(l) => fetch'.pc = "settle"
    BY <2>2 DEF NoFetch
  <2> QED BY <2>1, <2>3
<1> QED BY <1>1, <1>2, <1>3, <1>4, <1>5, <1>6, <1>7, <1>8, <1>9 DEF Next, FetchSteps, ServeAny

\* The list goes on: what it has served of it, it has protected.
LEMMA ListApart ==
    ASSUME Types, ListsApart, Apart, NEW e \in Expert, Serving(e),
           fetch'.pc = "serve", fetch'.layer = fetch.layer, fetch'.todo = Tail(fetch.todo), live \subseteq live',
           \A y \in Expert : y # e /\ map'[fetch.layer][y] # None => map'[fetch.layer][y] = map[fetch.layer][y]
    PROVE  Apart'
<1>0. fetch.todo \in Seq(Expert) /\ fetch.todo # <<>> /\ fetch.pc = "serve"
  BY DEF Types, FetchOK, FetchRec, Serving
<1> SUFFICES ASSUME NEW i \in 1..Len(Tail(fetch.todo)), map'[fetch.layer][Tail(fetch.todo)[i]] # None
             PROVE  map'[fetch.layer][Tail(fetch.todo)[i]] \in live'
  BY DEF Apart
<1>1. i + 1 \in 1..Len(fetch.todo) /\ Tail(fetch.todo)[i] = fetch.todo[i + 1] /\ fetch.todo[i + 1] \in Expert
  BY <1>0
<1>2. Tail(fetch.todo)[i] # e
  BY ListGoesOn
<1> QED BY <1>0, <1>1, <1>2 DEF Apart

LEMMA PromotionApart ==
    ASSUME Types, Maps, ListsApart, Apart, NEW l \in Layer, NEW e \in Expert, NEW s \in Slot, NEW g \in GSlot,
           NEW pick \in Slot \cup {None}, NEW r \in Ring \cup {None}, Promotion(l, e, s, g, pick, r)
    PROVE  Apart'
<1>0. /\ fetch'.pc = fetch.pc /\ fetch'.layer = l /\ fetch.layer = l /\ live \subseteq live'
      /\ gused' = gused \cup {<<l, g>>}
      /\ \A k \in Layer, h \in GSlot : vram'[k][h] = IF k = l /\ h = g THEN e ELSE vram[k][h]
  <2>1. /\ gused' = gused \cup {<<l, g>>}
        /\ \A k \in Layer, h \in GSlot : vram'[k][h] = IF k = l /\ h = g THEN e ELSE vram[k][h]
    <3>1. Fills(l, e, g)
      BY PromotionFacts
    <3> QED BY <3>1 DEF Fills
  <2>2. fetch'.pc = fetch.pc /\ fetch'.layer = l /\ fetch.layer = l /\ live \subseteq live'
    BY DEF Promotion
  <2> QED BY <2>1, <2>2
<1>1. \A y \in Expert : map'[l][y] # None => map'[l][y] = map[l][y]
  <2>1. PICK to : to = IF pick = s THEN None ELSE pick
    OBVIOUS
  <2>2. Unmaps(l, to)
    BY <2>1, PromoteUnmaps DEF Promotion
  <2>3. map' \in [Layer -> [Expert -> Slot \cup {None}]]
    BY PromoteTypes DEF Promotion
  <2> QED BY <2>2, <2>3 DEF Unmaps
<1>2. CASE fetch.pc = "serve"
  <2>1. Serving(e) /\ fetch'.todo = Tail(fetch.todo)
    BY <1>2 DEF Promotion
  <2> QED BY <1>0, <1>1, <1>2, <2>1, ListApart
<1>3. CASE fetch.pc = "warm"
  <2>1. fetch'.cand \subseteq fetch.cand /\ fetch.cand \subseteq Expert
    BY <1>3 DEF Promotion, Types, FetchOK, FetchRec
  <2> QED BY <1>0, <1>1, <1>3, <2>1 DEF Apart
<1>4. CASE fetch.pc = "refill"
  BY <1>0, <1>4 DEF Apart
<1> QED BY <1>2, <1>3, <1>4 DEF Promotion

LEMMA ServeApart ==
    ASSUME Types, Types', Maps, Maps', HostHolds, Phases, Claims, Apart, failed = 0, failed' = 0,
           [Next]_vars, fetch'.pc = "serve", ~ServePromoteAny, ~RefillAny
    PROVE  Apart'
<1>0. fetch.pc # "reread" /\ ListsApart
  BY DEF Claims
<1>1. CASE FetchStartAny
  <2>1. PICK l \in Layer, list \in Lists : FetchStart(l, list)
    BY <1>1 DEF FetchStartAny
  <2>2. fetch' = [NoFetch EXCEPT !.pc = "serve", !.layer = l, !.todo = list]
    BY <2>1 DEF FetchStart
  <2>3. fetch'.layer = l /\ fetch'.todo = list
    BY <2>2 DEF NoFetch
  <2>4. live' = {s \in Slot : \E e \in ToSet(list) : map[l][e] = s /\ ram[l][s].expert = e} /\ map' = map
    BY <2>1 DEF FetchStart
  <2>5. \A i \in 1..Len(list) : list[i] \in Expert /\ list[i] \in ToSet(list)
    <3>1. list \in Seq(Expert)
      BY <2>3 DEF Types, FetchOK, FetchRec
    <3> QED BY <3>1 DEF ToSet
  <2>6. \A e \in Expert : map[l][e] # None => map[l][e] \in Slot /\ ram[l][map[l][e]].expert = e
    BY DEF Maps, RamMaps, Types, TypeOK
  <2> QED BY <2>3, <2>4, <2>5, <2>6 DEF Apart
<1>2. CASE ServeMissAny
  <2>1. PICK e \in Expert, v \in Slot, cold \in BOOLEAN : ServeMiss(e, v, cold)
    BY <1>2 DEF ServeMissAny
  <2>2. fetch'.layer = fetch.layer /\ fetch'.todo = Tail(fetch.todo)
    BY <2>1, FetchClaims
  <2>3. Serving(e) /\ live \subseteq live' /\ map' = ClaimMap(ram, fetch.layer, v, e) /\ fetch.layer \in Layer
    BY <2>1, ServeFacts DEF ServeMiss
  <2>4. \A y \in Expert : y # e /\ map'[fetch.layer][y] # None => map'[fetch.layer][y] = map[fetch.layer][y]
    <3>1. map \in [Layer -> [Expert -> Slot \cup {None}]]
      BY DEF Types, TypeOK
    <3> QED BY <2>3, <3>1 DEF ClaimMap, Unmapped
  <2> QED BY <1>0, <2>2, <2>3, <2>4, ListApart
<1>3. CASE \E e \in Expert : ServeVram(e) \/ ServeClaimed(e) \/ ServeRam(e) \/ ServeUpgrade(e)
  <2>1. PICK e \in Expert : ServeVram(e) \/ ServeClaimed(e) \/ ServeRam(e) \/ ServeUpgrade(e)
    BY <1>3
  <2>2. Serving(e) /\ live \subseteq live' /\ map' = map
    BY <2>1 DEF ServeVram, ServeClaimed, ServeRam, ServeUpgrade
  <2>3. fetch'.layer = fetch.layer /\ fetch'.todo = Tail(fetch.todo)
    <3>1. fetch \in FetchRec
      BY DEF Types, FetchOK
    <3>2. CASE ServeUpgrade(e)
      <4>1. PICK c : fetch' = [fetch EXCEPT !.todo = Tail(@), !.claims = c]
        BY <3>2 DEF ServeUpgrade
      <4> QED BY <3>1, <4>1 DEF FetchRec
    <3>3. CASE ServeVram(e) \/ ServeClaimed(e) \/ ServeRam(e)
      <4>1. fetch' = [fetch EXCEPT !.todo = Tail(@)]
        BY <3>3 DEF ServeVram, ServeClaimed, ServeRam, Served
      <4> QED BY <3>1, <4>1 DEF FetchRec
    <3> QED BY <2>1, <3>2, <3>3
  <2> QED BY <1>0, <2>2, <2>3, ListApart
<1>4. CASE ComputeStep \/ SideStep \/ DiskAny \/ UNCHANGED vars
  <2>1. fetch' = fetch /\ map' = map /\ live' = live
    BY <1>4 DEF ComputeStep, SideStep, DiskAny, DiskLand, vars, tables, hostv
  <2>2. fetch.pc = "serve"
    BY <2>1
  <2> QED BY <2>1, <2>2 DEF Apart
<1>5. CASE \/ PrefetchAny \/ PrefetchReap \/ FinishSwap \/ SettlePending \/ FetchSubmit
           \/ RereadAny \/ RereadReturns \/ PrefetchFinish
  <2>1. CASE PrefetchAny \/ PrefetchReap \/ FinishSwap
    <3>1. fetch'.pc # "serve"
      <4>1. fetch'.pc = fetch.pc
        BY <2>1, GoesOn
      <4>2. CASE PrefetchAny
        BY <4>1, <4>2 DEF PrefetchAny, PrefetchBegin, MayPrefetch
      <4>3. CASE PrefetchReap \/ FinishSwap
        BY <4>1, <4>3 DEF PrefetchReap, FinishSwap
      <4> QED BY <2>1, <4>2, <4>3
    <3> QED BY <3>1
  <2>2. CASE SettlePending
    BY <2>2, PendingMoves
  <2>3. CASE FetchSubmit
    BY <2>3, SubmitMoves
  <2>4. CASE RereadAny \/ RereadReturns
    BY <1>0, <2>4 DEF RereadAny, Reread, RereadReturns
  <2>5. CASE PrefetchFinish
    BY <2>5, RestoreReads
  <2> QED BY <1>5, <2>1, <2>2, <2>3, <2>4, <2>5
<1>6. CASE \/ FetchShort \/ \E e \in Expert : ServeFails(e)
  BY <1>6, FailedCounts
<1>7. CASE \/ WarmAny \/ BatchAny \/ BatchDone \/ FetchEnd \/ SettleLayer \/ SettleLayerDone \/ SettleFullDone
           \/ LendAny \/ RefillDone \/ RestoreBegin \/ RestoreEnds \/ RestoreAny
  BY <1>0, <1>7, Elsewhere
<1> QED BY <1>1, <1>2, <1>3, <1>4, <1>5, <1>6, <1>7 DEF Next, FetchSteps, ServeAny

LEMMA StepApart ==
    ASSUME Types, Types', Maps, Maps', HostHolds, Phases, Claims, Apart, RestoresOwn,
           failed = 0, failed' = 0, [Next]_vars
    PROVE  Apart'
<1>0. fetch.pc # "reread" /\ ListsApart
  BY DEF Claims
<1>1. CASE ServePromoteAny \/ RefillAny
  BY <1>0, <1>1, PromotionStep, PromotionApart
<1>2. CASE ~ServePromoteAny /\ ~RefillAny
  <2>1. CASE fetch'.pc = "serve"
    BY <1>2, <2>1, ServeApart
  <2>2. CASE fetch'.pc = "refill"
    <3>1. \/ fetch'.pc = fetch.pc /\ fetch'.layer = fetch.layer /\ fetch'.cand = fetch.cand
          \/ FetchStartAny \/ WarmAny \/ PrefetchFinish \/ \E l \in Layer : LendEnd(l)
      BY <1>0, <1>2, <2>2, PlaceMoves
    <3>2. CASE fetch'.pc = fetch.pc /\ fetch'.layer = fetch.layer
      <4>1. vram' = vram /\ gused \subseteq gused'
        BY <1>2, <2>2, <3>2, TierMoves
      <4> QED BY <2>2, <3>2, <4>1 DEF Apart
    <3>3. CASE FetchStartAny \/ WarmAny
      <4>1. fetch'.pc # "refill"
        <5>1. CASE FetchStartAny
          <6>1. PICK l, t : fetch' = [NoFetch EXCEPT !.pc = "serve", !.layer = l, !.todo = t]
            BY <5>1 DEF FetchStartAny, FetchStart
          <6> QED BY <6>1 DEF NoFetch
        <5>2. CASE WarmAny
          <6> QED BY <5>2, WarmEffect DEF WarmAny
        <5> QED BY <3>3, <5>1, <5>2
      <4> QED BY <2>2, <4>1
    <3>4. CASE PrefetchFinish
      <4>1. fetch.next # None /\ fetch'.layer = fetch.next.l
        BY <3>4, RestoreReads
      <4>2. vram' = vram /\ gused' = gused
        BY <3>4 DEF PrefetchFinish
      <4> QED BY <2>2, <4>1, <4>2 DEF Apart, RestoresOwn
    <3>5. CASE \E l \in Layer : LendEnd(l)
      <4>1. PICK l \in Layer : LendEnd(l)
        BY <3>5
      <4>2. PICK c : fetch' = [NoFetch EXCEPT !.pc = "refill", !.layer = l, !.cand = c]
        BY <4>1 DEF LendEnd
      <4>3. fetch'.layer = l
        BY <4>2 DEF NoFetch
      <4>4. vram' = vram /\ l \in lent
        BY <4>1 DEF LendEnd
      <4>5. \A g \in GSlot : vram[l][g] = None
        <5>1. \A g \in GSlot : vram[l][g] \in Expert \cup {None} /\ None \notin GSlot
          BY CacheConstants DEF Types, TypeOK
        <5> QED BY <4>4, <5>1 DEF Maps, VramMaps, LentEmpty
      <4> QED BY <2>2, <4>3, <4>4, <4>5 DEF Apart
    <3> QED BY <3>1, <3>2, <3>3, <3>4, <3>5
  <2>3. CASE fetch'.pc = "warm"
    <3>1. CASE WarmAny
      <4>1. PICK l \in Layer, e \in Expert, v \in Slot : Warm(l, e, v)
        BY <3>1 DEF WarmAny
      <4>2. fetch'.layer = l /\ fetch'.cand = {e} /\ map'[l][e] = v
        BY <4>1, WarmEffect
      <4>3. live' = {v}
        BY <4>1 DEF Warm
      <4> QED BY <2>3, <4>2, <4>3 DEF Apart
    <3>2. CASE ~WarmAny
      <4>1. \/ fetch'.pc = fetch.pc /\ fetch'.layer = fetch.layer /\ fetch'.cand = fetch.cand
            \/ FetchStartAny \/ PrefetchFinish \/ \E l \in Layer : LendEnd(l)
        BY <1>0, <1>2, <2>3, <3>2, PlaceMoves
      <4>2. ~FetchStartAny /\ ~PrefetchFinish /\ ~\E l \in Layer : LendEnd(l)
        <5>1. FetchStartAny => \E l, t : fetch' = [NoFetch EXCEPT !.pc = "serve", !.layer = l, !.todo = t]
          BY DEF FetchStartAny, FetchStart
        <5>2. FetchStartAny => fetch'.pc = "serve"
          BY <5>1 DEF NoFetch
        <5>3. PrefetchFinish => fetch'.pc = "refill"
          BY RestoreReads
        <5>4. (\E l \in Layer : LendEnd(l)) =>
                 \E l, c : fetch' = [NoFetch EXCEPT !.pc = "refill", !.layer = l, !.cand = c]
          BY DEF LendEnd
        <5>5. (\E l \in Layer : LendEnd(l)) => fetch'.pc = "refill"
          BY <5>4 DEF NoFetch
        <5> QED BY <2>3, <5>2, <5>3, <5>5
      <4>3. fetch.pc = "warm" /\ fetch'.layer = fetch.layer /\ fetch'.cand = fetch.cand
        BY <2>3, <4>1, <4>2
      <4>4. live' = live /\ map' = map
        <5>1. CASE ComputeStep \/ SideStep \/ DiskAny \/ UNCHANGED vars
          BY <5>1 DEF ComputeStep, SideStep, DiskAny, DiskLand, vars, tables, hostv
        <5>2. CASE RefillDone
          <6>1. PICK b, n : fetch' = [NoFetch EXCEPT !.pc = "settle", !.full = TRUE, !.restore = b, !.next = n]
            BY <5>2 DEF RefillDone
          <6> QED BY <2>3, <6>1 DEF NoFetch
        <5>3. CASE ~(ComputeStep \/ SideStep \/ DiskAny \/ UNCHANGED vars \/ RefillDone)
          BY <1>2, <3>2, <4>3, <5>3
             DEF Next, FetchSteps, ServeAny, FetchStartAny, FetchStart, ServeVram, ServeClaimed, ServeRam,
                 ServeUpgrade, ServeFails, Serving, ServeMissAny, ServeMiss, FetchSubmit, SettlePending,
                 RereadAny, Reread, RereadReturns, FetchEnd, FetchShort, Ending, SettleLayer, FinishSwap,
                 SettleLayerDone, SettleFullDone, BatchDone, PrefetchFinish, RestoreEnds, PrefetchAny,
                 PrefetchBegin, MayPrefetch, PrefetchReap, LendAny, LendBegin, LendEnd, BatchAny, FetchBatch,
                 RestoreBegin, RestoreAny, PrefetchStart
        <5> QED BY <5>1, <5>2, <5>3
      <4> QED BY <2>3, <4>3, <4>4 DEF Apart
    <3> QED BY <3>1, <3>2
  <2> QED BY <2>1, <2>2, <2>3 DEF Apart
<1> QED BY <1>1, <1>2

-----------------------------------------------------------------------------
\* A handle on the device: its slot holds its expert as long as the caller may use it,
\* and while the list is served no promotion may replace it.
HandlePc == {"serve", "begun", "ended", "batch", "batched"}
GpuHandles ==
    /\ handles # {} => fetch.pc \in HandlePc
    /\ \A h \in handles : h.gpu => /\ h.slot \in GSlot /\ vram[fetch.layer][h.slot] = h.e
                                   /\ fetch.pc = "serve" => <<fetch.layer, h.slot>> \in gused

SameHandle(h, o) == o.e = h.e /\ o.gpu = h.gpu /\ o.slot = h.slot /\ o.cold = h.cold

LEMMA ReadyKept ==
    ASSUME Types, NEW es, NEW h \in ReadyFor(es)
    PROVE  \E o \in handles : SameHandle(h, o) /\ h.ready = (o.ready \/ o.e \in es)
<1>1. PICK o \in handles : h = IF o.e \in es THEN [o EXCEPT !.ready = TRUE] ELSE o
  BY DEF ReadyFor
<1>2. o \in HandleRec
  BY DEF Types, TypeOK
<1>3. SameHandle(h, o) /\ h.ready = (o.ready \/ o.e \in es)
  <2>1. CASE o.e \in es
    <3>1. h = [o EXCEPT !.ready = TRUE]
      BY <1>1, <2>1
    <3> QED BY <1>2, <2>1, <3>1 DEF HandleRec, SameHandle
  <2>2. CASE o.e \notin es
    <3>1. h = o
      BY <1>1, <2>2
    <3> QED BY <1>2, <2>2, <3>1 DEF HandleRec, SameHandle
  <2> QED BY <2>1, <2>2
<1> QED BY <1>3

HandlesGo ==
    /\ fetch.pc \in HandlePc => /\ fetch'.pc \in HandlePc /\ fetch'.layer = fetch.layer
                                /\ fetch'.pc = "serve" => fetch.pc = "serve"
    /\ \A h \in handles' : (\E o \in handles : SameHandle(h, o)) \/ (~h.gpu /\ fetch.pc = "serve")

LEMMA HandlesEnd ==
    ASSUME Types, [Next]_vars, handles # {} => fetch.pc \in HandlePc,
           \/ FetchStartAny \/ SettleLayer \/ RefillDone \/ RestoreBegin \/ \E l \in Layer : LendBegin(l)
           \/ WarmAny \/ LendAny \/ SettleLayerDone \/ SettleFullDone \/ PrefetchFinish \/ RestoreEnds
           \/ FinishSwap \/ RestoreAny \/ RefillAny
           \/ FetchEnd /\ fetch.deferred
    PROVE  handles' = {}
<1>1. CASE FetchStartAny \/ SettleLayer \/ RefillDone \/ RestoreBegin \/ \E l \in Layer : LendBegin(l)
  BY <1>1 DEF FetchStartAny, FetchStart, SettleLayer, RefillDone, RestoreBegin, LendBegin
<1>2. CASE WarmAny \/ LendAny \/ SettleLayerDone \/ SettleFullDone \/ PrefetchFinish \/ RestoreEnds
           \/ FinishSwap \/ RestoreAny \/ RefillAny
  <2>1. (handles' = handles /\ fetch.pc \notin HandlePc) \/ handles' = {}
    <3>1. CASE WarmAny
      <4>1. PICK l \in Layer, e \in Expert, v \in Slot : Warm(l, e, v)
        BY <3>1 DEF WarmAny
      <4>2. handles' = handles /\ fetch.pc \in {"idle", "warm"}
        BY <4>1 DEF Warm
      <4> QED BY <4>2 DEF HandlePc
    <3>2. CASE LendAny \/ SettleLayerDone \/ SettleFullDone
      BY <3>2 DEF LendAny, LendBegin, LendEnd, SettleLayerDone, SettleFullDone, HandlePc
    <3>3. CASE PrefetchFinish \/ RestoreEnds \/ FinishSwap
      BY <3>3 DEF PrefetchFinish, RestoreEnds, FinishSwap, HandlePc
    <3>4. CASE RestoreAny
      BY <3>4 DEF RestoreAny, PrefetchStart, HandlePc
    <3>5. CASE RefillAny
      BY <3>5 DEF RefillAny, Refill, HandlePc
    <3> QED BY <1>2, <3>1, <3>2, <3>3, <3>4, <3>5
  <2> QED BY <2>1
<1>3. CASE FetchEnd /\ fetch.deferred
  <2>1. fetch.pc = "idle" /\ handles' = ReadyFor({h.e : h \in handles})
    BY <1>3 DEF FetchEnd, Ending
  <2>2. handles = {}
    BY <2>1 DEF HandlePc
  <2> QED BY <2>1, <2>2, ReadyKept
<1> QED BY <1>1, <1>2, <1>3

LEMMA HandleMoves ==
    ASSUME Types, Types', HostHolds, Phases, fetch.pc # "reread", fetch'.pc # "reread",
           handles # {} => fetch.pc \in HandlePc,
           failed = 0, failed' = 0, [Next]_vars, ~ServePromoteAny, ~BatchAny,
           ~\E e \in Expert : ServeVram(e)
    PROVE  handles' = {} \/ HandlesGo
<1>0. fetch \in FetchRec /\ handles \subseteq HandleRec /\ \A h \in handles : SameHandle(h, h)
  BY DEF Types, TypeOK, FetchOK, SameHandle
<1>1. CASE \/ FetchStartAny \/ SettleLayer \/ RefillDone \/ RestoreBegin
           \/ WarmAny \/ LendAny \/ SettleLayerDone \/ SettleFullDone \/ PrefetchFinish \/ RestoreEnds
           \/ FinishSwap \/ RestoreAny \/ RefillAny
           \/ FetchEnd /\ fetch.deferred
  BY <1>1, HandlesEnd
<1>2. CASE PrefetchAny \/ PrefetchReap \/ ComputeStep \/ SideStep \/ DiskAny \/ UNCHANGED vars
  <2>1. CASE PrefetchAny
    <3>1. handles' = handles /\ fetch' = fetch
      BY <2>1 DEF PrefetchAny, PrefetchBegin
    <3> QED BY <1>0, <3>1 DEF HandlesGo
  <2>2. CASE PrefetchReap \/ ComputeStep \/ SideStep \/ DiskAny \/ UNCHANGED vars
    <3>1. handles' = handles /\ fetch' = fetch
      BY <2>2 DEF PrefetchReap, ComputeStep, SideStep, DiskAny, DiskLand, vars, hostv
    <3> QED BY <1>0, <3>1 DEF HandlesGo
  <2> QED BY <1>2, <2>1, <2>2
<1>3. CASE \/ ServeMissAny
           \/ \E e \in Expert : ServeClaimed(e) \/ ServeRam(e) \/ ServeUpgrade(e)
  <2>1. PICK e, s, c, r : handles' = handles \cup {Handle(e, FALSE, s, c, r)}
    <3>1. CASE ServeMissAny
      BY <3>1 DEF ServeMissAny, ServeMiss
    <3>2. CASE \E e \in Expert : ServeClaimed(e)
      <4>1. PICK e \in Expert : ServeClaimed(e)
        BY <3>2
      <4>2. handles' = handles \cup {Handle(e, FALSE, map[fetch.layer][e],
                                           ram[fetch.layer][map[fetch.layer][e]].cold, FALSE)}
        BY <4>1 DEF ServeClaimed
      <4> QED BY <4>2
    <3>3. CASE \E e \in Expert : ServeRam(e)
      <4>1. PICK e \in Expert : ServeRam(e)
        BY <3>3
      <4>2. handles' = handles \cup {Handle(e, FALSE, FindSlot(fetch.layer, e),
                                           ram[fetch.layer][FindSlot(fetch.layer, e)].cold, TRUE)}
        BY <4>1 DEF ServeRam
      <4> QED BY <4>2
    <3>4. CASE \E e \in Expert : ServeUpgrade(e)
      <4>1. PICK e \in Expert : ServeUpgrade(e)
        BY <3>4
      <4>2. handles' = handles \cup {Handle(e, FALSE, FindSlot(fetch.layer, e), FALSE, FALSE)}
        BY <4>1 DEF ServeUpgrade
      <4> QED BY <4>2
    <3> QED BY <1>3, <3>1, <3>2, <3>3, <3>4
  <2>2. fetch.pc = "serve"
    BY <1>3 DEF ServeMissAny, ServeMiss, ServeClaimed, ServeRam, ServeUpgrade, Serving
  <2>3. fetch'.pc = "serve" /\ fetch'.layer = fetch.layer
    <3>1. CASE ServeMissAny
      BY <3>1, FetchClaims DEF ServeMissAny
    <3>2. CASE \E e1 \in Expert : ServeClaimed(e1) \/ ServeRam(e1)
      BY <2>2, <3>2, GoesOn
    <3>3. CASE \E e1 \in Expert : ServeUpgrade(e1)
      <4>1. PICK t, cl : fetch' = [fetch EXCEPT !.todo = t, !.claims = cl]
        BY <3>3 DEF ServeUpgrade
      <4> QED BY <1>0, <2>2, <4>1 DEF FetchRec
    <3> QED BY <1>3, <3>1, <3>2, <3>3
  <2>4. Handle(e, FALSE, s, c, r).gpu = FALSE
    BY DEF Handle
  <2> QED BY <1>0, <2>1, <2>2, <2>3, <2>4 DEF HandlesGo, HandlePc
<1>4. CASE FetchSubmit \/ SettlePending
  <2>1. CASE FetchSubmit
    <3>1. handles' = handles
      BY <2>1 DEF FetchSubmit
    <3>2. fetch'.pc = "begun" /\ fetch'.layer = fetch.layer
      BY <2>1, SubmitMoves
    <3> QED BY <1>0, <3>1, <3>2 DEF HandlesGo, HandlePc
  <2>2. CASE SettlePending
    <3>1. handles' = handles \/ \E es : handles' = ReadyFor(es)
      BY <2>2 DEF SettlePending
    <3>2. fetch'.layer = fetch.layer /\ fetch'.pc = "begun"
      BY <2>2, PendingMoves
    <3>3. \A h \in handles' : \E o \in handles : SameHandle(h, o)
      BY <1>0, <3>1, ReadyKept
    <3> QED BY <2>2, <3>2, <3>3 DEF HandlesGo, HandlePc
  <2> QED BY <1>4, <2>1, <2>2
<1>5. CASE (FetchEnd /\ ~fetch.deferred) \/ BatchDone
  <2>1. \E es : handles' = ReadyFor(es)
    BY <1>5 DEF FetchEnd, BatchDone
  <2>2. fetch'.layer = fetch.layer /\ fetch'.pc \in {"ended", "batched"}
    BY <1>5, EndMoves, BatchReaped
  <2>3. \A h \in handles' : \E o \in handles : SameHandle(h, o)
    BY <2>1, ReadyKept
  <2> QED BY <2>2, <2>3 DEF HandlesGo, HandlePc
<1>6. CASE \/ FetchShort \/ \E e \in Expert : ServeFails(e)
  BY <1>6, FailedCounts
<1>7. CASE RereadAny \/ RereadReturns
  BY <1>7 DEF RereadAny, Reread, RereadReturns
<1> QED BY <1>1, <1>2, <1>3, <1>4, <1>5, <1>6, <1>7 DEF Next, FetchSteps, ServeAny

LEMMA StepGpuHandles ==
    ASSUME Types, Types', Maps, Maps', HostHolds, Phases, Claims, Claims', GpuHandles,
           failed = 0, failed' = 0, [Next]_vars
    PROVE  GpuHandles'
<1>0. fetch.pc # "reread" /\ fetch'.pc # "reread" /\ handles \subseteq HandleRec
  BY DEF Claims, Types, TypeOK
<1>1. CASE ServePromoteAny
  <2>1. PICK l \in Layer, e \in Expert, s \in Slot, g \in GSlot, pick \in Slot \cup {None}, r \in Ring \cup {None} :
           Promotion(l, e, s, g, pick, r)
    BY <1>1, PromotionStep
  <2>2. Fills(l, e, g) /\ (vram[l][g] = None \/ <<l, g>> \notin gused)
    BY <2>1, PromotionFacts
  <2>3. fetch.pc = "serve" /\ fetch'.pc = "serve" /\ fetch'.layer = l /\ fetch.layer = l
    BY <1>1, <2>1 DEF Promotion, ServePromoteAny, ServePromote, Serving
  <2>4. handles' = handles \/ handles' = handles \cup {Handle(e, TRUE, g, FALSE, TRUE)}
    BY <2>1 DEF Promotion
  <2>5. /\ Handle(e, TRUE, g, FALSE, TRUE).slot = g /\ Handle(e, TRUE, g, FALSE, TRUE).e = e
    BY DEF Handle
  <2>6. \A h \in handles : h.gpu => h.slot # g /\ h.slot \in GSlot /\ vram[l][h.slot] = h.e /\ <<l, h.slot>> \in gused
    BY <1>0, <2>2, <2>3, CacheConstants DEF GpuHandles, HandleRec
  <2>7. \A h \in handles' : h.gpu => /\ h.slot \in GSlot /\ vram'[l][h.slot] = h.e
                                     /\ <<l, h.slot>> \in gused'
    <3> TAKE h \in handles'
    <3>1. CASE h \in handles
      BY <2>2, <2>6, <3>1 DEF Fills
    <3>2. CASE h = Handle(e, TRUE, g, FALSE, TRUE)
      BY <2>2, <2>5, <3>2 DEF Fills
    <3> QED BY <2>4, <3>1, <3>2
  <2> QED BY <2>3, <2>7 DEF GpuHandles, HandlePc
<1>2. CASE BatchAny
  <2>1. PICK l \in Layer, es \in SUBSET Expert :
           \E adopt \in Adoptions(l, {e \in es : ~BatchHit(l, e)}) : FetchBatch(l, es, adopt)
    <3>1. PICK l \in Layer, es \in {ToSet(list) : list \in Lists} :
             \E adopt \in Adoptions(l, {e \in es : ~BatchHit(l, e)}) : FetchBatch(l, es, adopt)
      BY <1>2 DEF BatchAny
    <3>2. es \subseteq Expert
      BY <3>1 DEF Lists, ToSet
    <3> QED BY <3>1, <3>2
  <2>2. PICK adopt \in Adoptions(l, {e \in es : ~BatchHit(l, e)}) : FetchBatch(l, es, adopt)
    BY <2>1
  <2>3. fetch'.pc = "batch" /\ fetch'.layer = l
    BY <2>2, BatchReads
  <2>4. vram' = vram
    BY <2>2 DEF FetchBatch
  <2>5. \A h \in handles' : h.gpu => \E e \in Expert : InVram(l, e) /\ h.slot = gmap[l][e] /\ h.e = e
    <3>1. \A h \in handles' : h.gpu => \E e \in es : InVram(l, e) /\ h = Handle(e, TRUE, gmap[l][e], FALSE, TRUE)
      BY <2>2 DEF FetchBatch, Handle
    <3> QED BY <3>1 DEF Handle
  <2>6. \A h \in handles' : h.gpu => h.slot \in GSlot /\ vram[l][h.slot] = h.e
    BY <2>5, SlotTypes DEF InVram
  <2> QED BY <2>3, <2>4, <2>6 DEF GpuHandles, HandlePc
<1>3. CASE \E e \in Expert : ServeVram(e)
  <2>1. PICK e \in Expert : ServeVram(e)
    BY <1>3
  <2>2. fetch.pc = "serve" /\ fetch.layer \in Layer /\ InVram(fetch.layer, e)
    BY <2>1, ServeFacts DEF ServeVram
  <2>3. fetch'.pc = "serve" /\ fetch'.layer = fetch.layer
    BY <2>1, <2>2, GoesOn
  <2>4. gmap[fetch.layer][e] \in GSlot /\ vram[fetch.layer][gmap[fetch.layer][e]] = e
    BY <2>2, SlotTypes DEF InVram
  <2>5. /\ handles' = handles \cup {Handle(e, TRUE, gmap[fetch.layer][e], FALSE, TRUE)} /\ vram' = vram
        /\ gused' = gused \cup {<<fetch.layer, gmap[fetch.layer][e]>>}
    BY <2>1 DEF ServeVram
  <2> QED BY <2>2, <2>3, <2>4, <2>5 DEF GpuHandles, HandlePc, Handle
<1>4. CASE ~ServePromoteAny /\ ~BatchAny /\ ~\E e \in Expert : ServeVram(e)
  <2>1. handles' = {} \/ HandlesGo
    BY <1>0, <1>4, HandleMoves DEF GpuHandles
  <2>2. CASE handles' = {}
    BY <2>2 DEF GpuHandles
  <2>3. CASE HandlesGo /\ handles' # {}
    <3>1. fetch.pc \in HandlePc
      <4>1. handles # {} \/ fetch.pc = "serve"
        BY <2>3 DEF HandlesGo
      <4> QED BY <4>1 DEF GpuHandles, HandlePc
    <3>2. vram' = vram /\ gused \subseteq gused'
      <4>1. ~RefillAny /\ fetch.pc \notin {"settle", "idle"}
        BY <3>1 DEF RefillAny, Refill, HandlePc
      <4> QED BY <1>4, <4>1, TierMoves
    <3>3. fetch'.pc \in HandlePc /\ fetch'.layer = fetch.layer /\ (fetch'.pc = "serve" => fetch.pc = "serve")
      BY <2>3, <3>1 DEF HandlesGo
    <3>4. \A h \in handles' : h.gpu => \E o \in handles : o.gpu /\ o.slot = h.slot /\ o.e = h.e
      BY <2>3 DEF HandlesGo, SameHandle
    <3> QED BY <3>2, <3>3, <3>4 DEF GpuHandles
  <2> QED BY <2>1, <2>2, <2>3
<1> QED BY <1>1, <1>2, <1>3, <1>4

-----------------------------------------------------------------------------
\* The compute queue.  An operation other than the kernels' works for a VRAM slot that no
\* promotion may replace before the next epoch;
OpsHeld ==
    \A i \in 1..Len(cq) : cq[i].op # "use" =>
        vram[cq[i].l][cq[i].g] # None /\ <<cq[i].l, cq[i].g>> \in gused /\ cq[i].l \notin lent
\* an upload reads the block of the slot's expert, in the layout it was queued for;
UploadHeld ==
    \A i \in 1..Len(cq) : cq[i].op = "upload" =>
        /\ ram[cq[i].l][cq[i].s].expert = vram[cq[i].l][cq[i].g]
        /\ ram[cq[i].l][cq[i].s].soa = cq[i].raw
        /\ ~SideTo(cq[i].l, cq[i].s)
\* it is the last operation of its slot, after the victim's;
OpsOrder ==
    \A i, j \in 1..Len(cq) :
        cq[i].op # "use" /\ cq[j].op = "upload" /\ cq[i].l = cq[j].l /\ cq[i].g = cq[j].g =>
            i <= j /\ (cq[i].op = "upload" => i = j)
\* the kernels come last, and use what their slots will hold;
UsesHeld ==
    \A i \in 1..Len(cq) : cq[i].op = "use" =>
        /\ i = Len(cq) /\ fetch.pc \in {"begun", "ended", "batched"}
        /\ \A u \in cq[i].uses : u[1] \in GSlot /\ vram[cq[i].l][u[1]] = u[2]
\* and a victim's copy is a pending swap's.
StageHeld ==
    \A i \in 1..Len(cq) : cq[i].op = "stage" => \E j \in 1..Len(swaps) : swaps[j].ring = cq[i].r
Ops == OpsHeld /\ UploadHeld /\ OpsOrder /\ UsesHeld /\ StageHeld

\* What a promotion adds to the queue and to the swaps.
Adds(l, s, g, pick, r) ==
    /\ Len(cq) < Len(cq')
    /\ pick # None => Len(cq') = Len(cq) + 2
    /\ \A i \in 1..Len(cq) : i \in 1..Len(cq') /\ cq'[i] = cq[i]
    /\ \A i \in 1..Len(cq') : \/ i \in 1..Len(cq)
                              \/ i = Len(cq') /\ cq'[i] = Upload(l, s, g, ram'[l][s].soa)
                              \/ /\ Len(cq) < i /\ i < Len(cq') /\ pick # None
                                 /\ \/ r # None /\ cq'[i] = Stage(l, g, r)
                                    \/ r = None /\ cq'[i] = ReadBack(l, g, pick)
SwapsTo(l, g, pick, r) ==
    /\ pick # None => Len(swaps') = Len(swaps) + 1
    /\ \A j \in 1..Len(swaps) : j \in 1..Len(swaps') /\ swaps'[j] = swaps[j]
    /\ \A j \in 1..Len(swaps') :
          \/ j \in 1..Len(swaps)
          \/ /\ j = Len(swaps) + 1
             /\ swaps'[j].layer = l /\ swaps'[j].to = pick /\ swaps'[j].ring = r /\ swaps'[j].victim = vram[l][g]
    /\ pick # None => pick \in Slot /\ ~Claimed(l, pick)
    /\ r # None => r \in Ring /\ r \notin ringBusy /\ pick # None

LEMMA PromotionAdds ==
    ASSUME Types, Maps, Apart, NEW l \in Layer, NEW e \in Expert, NEW s \in Slot, NEW g \in GSlot,
           NEW pick \in Slot \cup {None}, NEW r \in Ring \cup {None}, Promotion(l, e, s, g, pick, r)
    PROVE  Adds(l, s, g, pick, r) /\ SwapsTo(l, g, pick, r)
<1>0. Promote(l, e, s, g, pick, r) /\ pick # s /\ cq \in Seq(CqOp) /\ swaps \in Seq(SwapRec)
  BY NotOwn DEF Promotion, Types, TypeOK, QueuesOK
<1>1. Adds(l, s, g, pick, r)
  <2> DEFINE up == Upload(l, s, g, ram'[l][s].soa)
             st == Stage(l, g, r)
             rb == ReadBack(l, g, pick)
  <2>1. cq' = (IF pick = None THEN cq ELSE IF r # None THEN Append(cq, st) ELSE Append(cq, rb)) \o <<up>>
    BY <1>0 DEF Promote
  <2> HIDE DEF up, st, rb
  <2>2. CASE pick = None
    BY <1>0, <2>1, <2>2 DEF Adds, up
  <2>3. CASE pick # None /\ r # None
    BY <1>0, <2>1, <2>3 DEF Adds, up, st
  <2>4. CASE pick # None /\ r = None
    BY <1>0, <2>1, <2>4 DEF Adds, up, rb
  <2> QED BY <2>2, <2>3, <2>4
<1>2. SwapsTo(l, g, pick, r)
  <2> DEFINE w == [layer |-> l, promoted |-> e, from |-> s, victim |-> vram[l][g], to |-> pick, ring |-> r]
  <2>1. swaps' = (IF Exclusive THEN Append(swaps, w) ELSE swaps) /\ (pick # None => Exclusive)
    BY <1>0 DEF Promote
  <2>2. w.layer = l /\ w.to = pick /\ w.ring = r /\ w.victim = vram[l][g]
    OBVIOUS
  <2> HIDE DEF w
  <2>3. /\ pick # None => Len(swaps') = Len(swaps) + 1
        /\ \A j \in 1..Len(swaps) : j \in 1..Len(swaps') /\ swaps'[j] = swaps[j]
        /\ \A j \in 1..Len(swaps') : j \in 1..Len(swaps) \/ (j = Len(swaps) + 1 /\ swaps'[j] = w)
    <3>1. CASE Exclusive
      <4>1. swaps' = Append(swaps, w)
        BY <2>1, <3>1
      <4> QED BY <1>0, <4>1
    <3>2. CASE ~Exclusive
      BY <1>0, <2>1, <3>2
    <3> QED BY <3>1, <3>2
  <2>4. pick # None => pick \in Slot /\ ~Claimed(l, pick)
    <3> SUFFICES ASSUME pick # None PROVE pick \in Slot /\ ~Claimed(l, pick)
      OBVIOUS
    <3>1. pick \in SwapTargets(l)
      BY <1>0 DEF Promote
    <3> QED BY <3>1, TargetFree
  <2>5. r # None => r \in Ring /\ r \notin ringBusy /\ pick # None
    BY <1>0 DEF Promote, RingTargets
  <2> QED BY <2>2, <2>3, <2>4, <2>5 DEF SwapsTo
<1> QED BY <1>1, <1>2

\* The fields of an operation.
LEMMA OpFields ==
    ASSUME Types
    PROVE  /\ cq \in Seq(CqOp) /\ Len(cq) \in Nat
           /\ \A i \in 1..Len(cq) :
                 /\ cq[i].l \in Layer /\ cq[i].op \in {"upload", "stage", "readback", "use"}
                 /\ cq[i].op # "use" => cq[i].g \in GSlot
                 /\ cq[i].op \in {"upload", "readback"} => cq[i].s \in Slot
                 /\ cq[i].op = "stage" => cq[i].r \in Ring
<1>1. cq \in Seq(CqOp)
  BY DEF Types, QueuesOK
<1>2. \A o \in CqOp : /\ o.l \in Layer /\ o.op \in {"upload", "stage", "readback", "use"}
                      /\ o.op # "use" => o.g \in GSlot
                      /\ o.op \in {"upload", "readback"} => o.s \in Slot
                      /\ o.op = "stage" => o.r \in Ring
  BY DEF CqOp, CqRec
<1> QED BY <1>1, <1>2

\* An upload's source stays as it is: it is protected, and the only steps that would
\* change a resident block of its layer are for experts that VRAM does not have.
LEMMA SourceKept ==
    ASSUME Types, Types', Maps, Maps', Slots, Phases, Claims, QueueHeld, OpsHeld, UploadHeld,
           failed = 0, failed' = 0, [Next]_vars, ~FinishSwap, NEW i \in 1..Len(cq), cq[i].op = "upload"
    PROVE  Kept(cq[i].l, cq[i].s)
<1>0. cq[i].l \in Layer /\ cq[i].s \in Slot /\ cq[i].g \in GSlot
  BY OpFields
<1> DEFINE k == cq[i].l
           x == cq[i].s
           h == cq[i].g
<1>1. ram[k][x].expert # None /\ ram[k][x].valid /\ ~ram[k][x].cold /\ <<k, x>> \in rel
  BY DEF QueueHeld
<1>2. ram[k][x].expert = vram[k][h] /\ k \notin lent
  BY DEF UploadHeld, OpsHeld
<1> HIDE DEF k, x, h
<1>3. RamMove(k, x)
  BY <1>0, StepMoves DEF k, x
<1>4. Kept(k, x) \/ Softened(k, x)
  BY <1>0, <1>1, <1>3, RamHeld DEF k, x
<1>5. InVram(k, ram[k][x].expert)
  <2>1. k \in Layer /\ h \in GSlot /\ ram[k][x].expert \in Expert
    BY <1>0, <1>1, <1>2 DEF Types, TypeOK, k, h
  <2>2. gmap[k][ram[k][x].expert] = h
    BY <1>2, <2>1 DEF Maps, VramMaps
  <2> QED BY <1>2, <2>1, <2>2, CacheConstants DEF InVram
<1> QED BY <1>4, <1>5 DEF Softened, k, x

\* The operations a promotion adds work for the slot it fills, which no queued operation
\* works for.
LEMMA PromotionOps ==
    ASSUME Types, Types', Maps, Maps', Slots, Phases, Claims, QueueHeld, Sides, Apart, Ops,
           failed = 0, failed' = 0, [Next]_vars, ~FinishSwap,
           NEW l \in Layer, NEW e \in Expert, NEW s \in Slot, NEW g \in GSlot,
           NEW pick \in Slot \cup {None}, NEW r \in Ring \cup {None}, Promotion(l, e, s, g, pick, r)
    PROVE  Ops'
<1>0. OpsHeld /\ UploadHeld /\ OpsOrder /\ UsesHeld /\ StageHeld
  BY DEF Ops
<1>1. Adds(l, s, g, pick, r) /\ SwapsTo(l, g, pick, r) /\ pick # s
  BY PromotionAdds, NotOwn
<1>2. /\ ram[l][s].expert = e /\ l \notin lent /\ fetch.pc \in AtLayer /\ fetch.pc \in {"serve", "refill", "warm"}
      /\ vram[l][g] = None \/ <<l, g>> \notin gused
      /\ Fills(l, e, g)
  BY PromotionFacts
<1>3. /\ gused' = gused \cup {<<l, g>>}
      /\ \A k \in Layer, h \in GSlot : vram'[k][h] = IF k = l /\ h = g THEN e ELSE vram[k][h]
  BY <1>2 DEF Fills
<1>4. lent' = lent /\ sideq' = sideq /\ l = fetch.layer /\ None \notin Expert /\ None \notin Ring
  BY CacheConstants DEF Promotion
<1>5. \A i \in 1..Len(cq) : i \in 1..Len(cq') /\ cq'[i] = cq[i]
  BY <1>1 DEF Adds
<1>6. \A i \in 1..Len(cq) : cq[i].op # "use" => ~(cq[i].l = l /\ cq[i].g = g)
  BY <1>0, <1>2 DEF OpsHeld
<1>7. \A i \in 1..Len(cq') : i \in 1..Len(cq) \/ (cq'[i].l = l /\ cq'[i].g = g /\ cq'[i].op # "use")
  BY <1>1 DEF Adds, Upload, Stage, ReadBack, Op
<1>8. Len(cq) \in Nat /\ Len(cq') \in Nat
  BY DEF Types, QueuesOK
<1>9. OpsHeld'
  <2> SUFFICES ASSUME NEW i \in 1..Len(cq'), cq'[i].op # "use"
               PROVE  /\ vram'[cq'[i].l][cq'[i].g] # None /\ <<cq'[i].l, cq'[i].g>> \in gused'
                      /\ cq'[i].l \notin lent'
    BY DEF OpsHeld
  <2>1. CASE i \in 1..Len(cq)
    <3>1. cq'[i] = cq[i] /\ cq[i].l \in Layer /\ cq[i].g \in GSlot /\ ~(cq[i].l = l /\ cq[i].g = g)
      BY <1>5, <1>6, <2>1, OpFields
    <3>2. vram'[cq[i].l][cq[i].g] = vram[cq[i].l][cq[i].g]
      BY <1>3, <3>1
    <3> QED BY <1>0, <1>3, <1>4, <2>1, <3>1, <3>2 DEF OpsHeld
  <2>2. CASE i \notin 1..Len(cq)
    <3>1. cq'[i].l = l /\ cq'[i].g = g
      BY <1>7, <2>2
    <3> QED BY <1>2, <1>3, <1>4, <3>1
  <2> QED BY <2>1, <2>2
<1>10. UploadHeld'
  <2> SUFFICES ASSUME NEW i \in 1..Len(cq'), cq'[i].op = "upload"
               PROVE  /\ ram'[cq'[i].l][cq'[i].s].expert = vram'[cq'[i].l][cq'[i].g]
                      /\ ram'[cq'[i].l][cq'[i].s].soa = cq'[i].raw
                      /\ ~SideTo(cq'[i].l, cq'[i].s)
    BY <1>4 DEF UploadHeld, SideTo
  <2>1. CASE i \in 1..Len(cq)
    <3>1. cq'[i] = cq[i] /\ cq[i].l \in Layer /\ cq[i].g \in GSlot /\ ~(cq[i].l = l /\ cq[i].g = g)
      BY <1>5, <1>6, <2>1, OpFields
    <3>2. vram'[cq[i].l][cq[i].g] = vram[cq[i].l][cq[i].g]
      BY <1>3, <3>1
    <3>3. Kept(cq[i].l, cq[i].s)
      BY <1>0, <2>1, <3>1, SourceKept
    <3> QED BY <1>0, <2>1, <3>1, <3>2, <3>3 DEF UploadHeld, Kept
  <2>2. CASE i \notin 1..Len(cq)
    <3>1. cq'[i] = Upload(l, s, g, ram'[l][s].soa)
      BY <1>1, <2>2 DEF Adds, Stage, ReadBack, Op
    <3>2. cq'[i].l = l /\ cq'[i].s = s /\ cq'[i].g = g /\ cq'[i].raw = ram'[l][s].soa
      BY <3>1 DEF Upload, Op
    <3>3. ~SideTo(l, s)
      BY <1>2, <1>4, LandedApart DEF AtLanded
    <3>4. ram'[l][s].expert = e
      <4>1. Promote(l, e, s, g, pick, r)
        BY DEF Promotion
      <4>2. ram' = IF pick # None THEN [ram EXCEPT ![l][pick] = [Empty EXCEPT !.expert = vram[l][g]]]
                   ELSE ram
        BY <1>1, <4>1 DEF Promote
      <4>3. ram'[l][s] = ram[l][s]
        BY <1>1, <4>2 DEF Types, TypeOK
      <4> QED BY <1>2, <4>3
    <3> QED BY <1>3, <3>2, <3>3, <3>4
  <2> QED BY <2>1, <2>2
<1>11. OpsOrder'
  <2> SUFFICES ASSUME NEW i \in 1..Len(cq'), NEW j \in 1..Len(cq'), cq'[i].op # "use", cq'[j].op = "upload",
                      cq'[i].l = cq'[j].l, cq'[i].g = cq'[j].g
               PROVE  i <= j /\ (cq'[i].op = "upload" => i = j)
    BY DEF OpsOrder
  <2>1. CASE i \in 1..Len(cq) /\ j \in 1..Len(cq)
    BY <1>0, <1>5, <2>1 DEF OpsOrder
  <2>2. CASE i \in 1..Len(cq) /\ j \notin 1..Len(cq)
    <3>1. cq'[j].l = l /\ cq'[j].g = g /\ cq'[i] = cq[i]
      BY <1>5, <1>7, <2>2
    <3> QED BY <1>6, <2>2, <3>1
  <2>3. CASE i \notin 1..Len(cq) /\ j \in 1..Len(cq)
    <3>1. cq'[i].l = l /\ cq'[i].g = g /\ cq'[j] = cq[j]
      BY <1>5, <1>7, <2>3
    <3> QED BY <1>6, <2>3, <3>1
  <2>4. CASE i \notin 1..Len(cq) /\ j \notin 1..Len(cq)
    <3>1. j = Len(cq')
      BY <1>1, <2>4 DEF Adds, Stage, ReadBack, Op
    <3>2. cq'[i].op = "upload" => i = Len(cq')
      BY <1>1, <2>4 DEF Adds, Stage, ReadBack, Op
    <3> QED BY <1>8, <3>1, <3>2
  <2> QED BY <2>1, <2>2, <2>3, <2>4
<1>12. UsesHeld'
  <2>1. \A i \in 1..Len(cq') : cq'[i].op # "use"
    BY <1>0, <1>2, <1>5, <1>7 DEF UsesHeld
  <2> QED BY <2>1 DEF UsesHeld
<1>13. StageHeld'
  <2> SUFFICES ASSUME NEW i \in 1..Len(cq'), cq'[i].op = "stage"
               PROVE  \E j \in 1..Len(swaps') : swaps'[j].ring = cq'[i].r
    BY DEF StageHeld
  <2>1. CASE i \in 1..Len(cq)
    <3>1. PICK j \in 1..Len(swaps) : swaps[j].ring = cq[i].r
      BY <1>0, <1>5, <2>1 DEF StageHeld
    <3>2. j \in 1..Len(swaps') /\ swaps'[j] = swaps[j]
      BY <1>1 DEF SwapsTo
    <3> QED BY <1>5, <2>1, <3>1, <3>2
  <2>2. CASE i \notin 1..Len(cq)
    <3>1. pick # None /\ cq'[i] = Stage(l, g, r)
      BY <1>1, <2>2 DEF Adds, Upload, ReadBack, Op
    <3>2. cq'[i].r = r
      BY <3>1 DEF Stage, Op
    <3>3. Len(swaps') = Len(swaps) + 1 /\ Len(swaps) \in Nat
      BY <1>1, <3>1 DEF SwapsTo, Types, TypeOK
    <3>4. Len(swaps') \in 1..Len(swaps') /\ Len(swaps') \notin 1..Len(swaps)
      BY <3>3
    <3>5. swaps'[Len(swaps')].ring = r
      BY <1>1, <3>4 DEF SwapsTo
    <3> QED BY <3>2, <3>4, <3>5
  <2> QED BY <2>1, <2>2
<1> QED BY <1>9, <1>10, <1>11, <1>12, <1>13 DEF Ops

\* What the other steps do to the compute queue: its head is executed, or the kernels are
\* queued behind the rest.
Given == {<<h.slot, h.e>> : h \in {x \in handles : x.gpu}}
Launch(u) == (FetchSubmit \/ BatchDone) /\ u = Use(fetch.layer, Given)
Shift(o) ==
    /\ \A i \in 1..Len(cq') : \/ i + o \in 1..Len(cq) /\ cq'[i] = cq[i + o]
                              \/ i + o \notin 1..Len(cq) /\ i = Len(cq') /\ Launch(cq'[i])
    /\ FetchSubmit \/ BatchDone \/ Len(cq') + o = Len(cq)
    /\ o = 1 => ComputeStep

LEMMA QueueShift ==
    ASSUME Types, Types', HostHolds, Phases, QueueEmpty, [Next]_vars, ~ServePromoteAny, ~RefillAny
    PROVE  \E o \in {0, 1} : Shift(o)
<1>0. cq \in Seq(CqOp) /\ Len(cq) \in Nat
  BY DEF Types, QueuesOK
<1>1. CASE FetchSubmit \/ BatchDone
  <2>1. cq' = cq \/ cq' = Append(cq, Use(fetch.layer, Given))
    BY <1>1 DEF FetchSubmit, BatchDone, Given
  <2> DEFINE u == Use(fetch.layer, Given)
  <2> HIDE DEF u
  <2>2. CASE cq' = cq
    BY <1>0, <1>1, <2>2 DEF Shift
  <2>3. CASE cq' = Append(cq, u)
    <3>1. Len(cq') = Len(cq) + 1 /\ cq'[Len(cq) + 1] = u /\ \A i \in 1..Len(cq) : cq'[i] = cq[i]
      BY <1>0, <2>3
    <3>2. Launch(u)
      BY <1>1 DEF Launch, u
    <3>3. \A i \in 1..Len(cq') : \/ i + 0 \in 1..Len(cq) /\ cq'[i] = cq[i + 0]
                                 \/ i + 0 \notin 1..Len(cq) /\ i = Len(cq') /\ Launch(cq'[i])
      <4> SUFFICES ASSUME NEW i \in 1..Len(cq')
                   PROVE  \/ i \in 1..Len(cq) /\ cq'[i] = cq[i]
                          \/ i \notin 1..Len(cq) /\ i = Len(cq') /\ Launch(cq'[i])
        OBVIOUS
      <4>1. CASE i \in 1..Len(cq)
        BY <3>1, <4>1
      <4>2. CASE i \notin 1..Len(cq)
        <5>1. i = Len(cq')
          BY <1>0, <3>1, <4>2
        <5>2. cq'[i] = u
          BY <3>1, <5>1
        <5> QED BY <3>2, <4>2, <5>1, <5>2
      <4> QED BY <4>1, <4>2
    <3>4. Shift(0)
      BY <1>1, <3>3 DEF Shift
    <3> QED BY <3>4
  <2> QED BY <2>1, <2>2, <2>3 DEF u
<1>2. CASE ~FetchSubmit /\ ~BatchDone
  <2>1. cq' = cq \/ ComputeStep
    <3>1. CASE FetchStartAny \/ PrefetchAny \/ WarmAny \/ BatchAny \/ RestoreAny
      <4>1. CASE FetchStartAny
        BY <4>1 DEF FetchStartAny, FetchStart, device
      <4>5. CASE PrefetchAny
        BY <4>5 DEF PrefetchAny, PrefetchBegin
      <4>2. CASE WarmAny
        BY <4>2 DEF WarmAny, Warm
      <4>3. CASE BatchAny
        BY <4>3 DEF BatchAny, FetchBatch
      <4>4. CASE RestoreAny
        BY <4>4 DEF RestoreAny, PrefetchStart
      <4> QED BY <3>1, <4>1, <4>2, <4>3, <4>4, <4>5
    <3>2. CASE SettleLayer \/ RefillDone \/ RestoreBegin \/ LendAny \/ FinishSwap
      BY <3>2 DEF SettleLayer, RefillDone, RestoreBegin, LendAny, LendBegin, LendEnd, FinishSwap, device
    <3>3. CASE ServeAny \/ ServeMissAny \/ SettlePending \/ RereadAny \/ RereadReturns
               \/ FetchEnd \/ FetchShort \/ SettleLayerDone \/ PrefetchFinish \/ RestoreEnds \/ SettleFullDone
      BY <3>3 DEF ServeAny, ServeVram, ServeClaimed, ServeRam, ServeUpgrade, ServeFails, ServeMissAny,
                  ServeMiss, SettlePending, RereadAny, Reread, RereadReturns, FetchEnd,
                  FetchShort, SettleLayerDone, PrefetchFinish, RestoreEnds, SettleFullDone, device
    <3>4. CASE PrefetchReap \/ SideStep \/ DiskAny \/ UNCHANGED vars
      BY <3>4 DEF PrefetchReap, SideStep, DiskAny, DiskLand, vars, device
    <3> QED BY <1>2, <3>1, <3>2, <3>3, <3>4 DEF Next, FetchSteps
  <2>2. CASE cq' = cq
    <3>1. Shift(0)
      BY <1>0, <2>2 DEF Shift
    <3> QED BY <3>1
  <2>3. CASE ComputeStep
    <3>0. cq # <<>> /\ cq' = Tail(cq)
      BY <2>3 DEF ComputeStep
    <3>1. Len(cq') + 1 = Len(cq) /\ \A i \in 1..Len(cq') : i + 1 \in 1..Len(cq) /\ cq'[i] = cq[i + 1]
      BY <1>0, <3>0
    <3>2. Shift(1)
      BY <2>3, <3>1 DEF Shift
    <3> QED BY <3>2
  <2> QED BY <2>1, <2>2, <2>3
<1> QED BY <1>1, <1>2

\* As long as the kernels are queued, the host stays at the computation.
UsePc == {"begun", "ended", "batched"}
LEMMA UsePcStays ==
    ASSUME Types, HostHolds, fetch'.pc # "reread", failed = 0, failed' = 0, [Next]_vars,
           fetch.pc \in UsePc, cq # <<>>
    PROVE  fetch'.pc \in UsePc
<1>0. fetch \in FetchRec /\ ~fetch.deferred
  BY DEF Types, FetchOK, HostHolds, UsePc
<1>1. CASE FetchStartAny \/ LendAny \/ WarmAny \/ BatchAny \/ RestoreBegin \/ RestoreAny
  <2>1. CASE FetchStartAny \/ LendAny \/ RestoreBegin
    BY <2>1 DEF FetchStartAny, FetchStart, LendAny, LendBegin, LendEnd, RestoreBegin, UsePc
  <2>2. CASE WarmAny
    BY <2>2 DEF WarmAny, Warm, UsePc
  <2>3. CASE BatchAny
    BY <2>3 DEF BatchAny, FetchBatch, UsePc
  <2>4. CASE RestoreAny
    BY <2>4 DEF RestoreAny, PrefetchStart, UsePc
  <2> QED BY <1>1, <2>1, <2>2, <2>3, <2>4
<1>2. CASE PrefetchFinish \/ RestoreEnds \/ FinishSwap \/ SettleFullDone \/ SettleLayerDone \/ BatchDone
           \/ FetchSubmit \/ RereadAny \/ RereadReturns
  BY <1>2 DEF PrefetchFinish, RestoreEnds, FinishSwap, SettleFullDone, SettleLayerDone, BatchDone, FetchSubmit,
              RereadAny, Reread, RereadReturns, UsePc
<1>3. CASE ServeAny \/ ServePromoteAny \/ ServeMissAny
  BY <1>3 DEF ServeAny, ServeVram, ServeClaimed, ServeRam, ServeUpgrade, ServeFails, ServePromoteAny, ServePromote,
              ServeMissAny, ServeMiss, Serving, UsePc
<1>4. CASE SettleLayer \/ RefillDone
  BY <1>4 DEF SettleLayer, RefillDone
<1>5. CASE RefillAny
  <2>1. PICK e \in Expert, g \in GSlot, pick \in Slot \cup {None}, r \in Ring \cup {None} : Refill(e, g, pick, r)
    BY <1>5 DEF RefillAny
  <2> QED BY <2>1 DEF Refill, UsePc
<1>6. CASE FetchShort
  BY <1>6, FailedCounts
<1>7. CASE FetchEnd
  <2>1. fetch' = [fetch EXCEPT !.pc = "ended", !.claims = {}, !.need = NoFetch.need]
    BY <1>0, <1>7 DEF FetchEnd
  <2> QED BY <1>0, <2>1 DEF FetchRec, UsePc
<1>8. CASE SettlePending
  <2>1. fetch' = fetch \/ fetch' = [fetch EXCEPT !.pc = "reread", !.lost = Lost(fetch.layer)]
    BY <1>8 DEF SettlePending
  <2> QED BY <1>0, <2>1 DEF FetchRec
<1>9. CASE PrefetchAny \/ PrefetchReap \/ ComputeStep \/ SideStep \/ DiskAny \/ UNCHANGED vars
  <2>1. fetch' = fetch
    <3>1. CASE PrefetchAny
      BY <3>1 DEF PrefetchAny, PrefetchBegin
    <3>2. CASE PrefetchReap \/ ComputeStep \/ SideStep \/ DiskAny \/ UNCHANGED vars
      BY <3>2 DEF PrefetchReap, ComputeStep, SideStep, DiskAny, DiskLand, vars, hostv
    <3> QED BY <1>9, <3>1, <3>2
  <2> QED BY <2>1
<1> QED BY <1>1, <1>2, <1>3, <1>4, <1>5, <1>6, <1>7, <1>8, <1>9 DEF Next, FetchSteps

\* What the other steps leave of an operation that stays in the queue.
LEMMA OpsStay ==
    ASSUME Types, Types', Maps, HostHolds, Phases, QueueEmpty, [Next]_vars,
           ~ServePromoteAny, ~RefillAny, cq # <<>>
    PROVE  /\ vram' = vram /\ gused \subseteq gused' /\ lent' = lent /\ rel' = rel /\ swaps' = swaps
           /\ fetch.pc \notin Quiet /\ ~FinishSwap
<1>1. fetch.pc \notin Quiet
  BY DEF QueueEmpty
<1>2. ~FinishSwap
  BY <1>1 DEF FinishSwap, Quiet
<1> QED BY <1>1, <1>2, TierMoves, QueueMoves DEF QueueStep, Quiet

LEMMA StepOps ==
    ASSUME Types, Types', Maps, Maps', Slots, Phases, Claims, Claims', QueueEmpty, QueueHeld, Sides,
           Apart, RestoresOwn, GpuHandles, Ops, failed = 0, failed' = 0, [Next]_vars
    PROVE  Ops'
<1>0. /\ OpsHeld /\ UploadHeld /\ OpsOrder /\ UsesHeld /\ StageHeld
      /\ HostHolds /\ fetch.pc # "reread" /\ fetch'.pc # "reread"
  BY DEF Ops, Slots, Claims
<1>1. CASE ServePromoteAny \/ RefillAny
  <2>1. PICK l \in Layer, e \in Expert, s \in Slot, g \in GSlot, pick \in Slot \cup {None}, r \in Ring \cup {None} :
           Promotion(l, e, s, g, pick, r)
    BY <1>1, PromotionStep
  <2>2. ~FinishSwap
    BY <2>1 DEF Promotion, FinishSwap
  <2> QED BY <2>1, <2>2, PromotionOps
<1>2. CASE ~ServePromoteAny /\ ~RefillAny
  <2>1. PICK o \in {0, 1} : Shift(o)
    BY <1>0, <1>2, QueueShift
  <2>2. cq # <<>> => /\ vram' = vram /\ gused \subseteq gused' /\ lent' = lent /\ rel' = rel /\ swaps' = swaps
                     /\ fetch.pc \notin Quiet /\ ~FinishSwap
    BY <1>0, <1>2, OpsStay
  <2>3. Len(cq) \in Nat /\ Len(cq') \in Nat /\ o \in Int
    BY <2>1 DEF Types, QueuesOK
  <2>4. \A i \in 1..Len(cq') :
           \/ i + o \in 1..Len(cq) /\ cq'[i] = cq[i + o] /\ cq # <<>>
           \/ i + o \notin 1..Len(cq) /\ i = Len(cq') /\ Launch(cq'[i]) /\ cq'[i].op = "use"
              /\ cq'[i].l = fetch.layer /\ cq'[i].uses = Given
    <3> SUFFICES ASSUME NEW i \in 1..Len(cq')
                 PROVE  \/ i + o \in 1..Len(cq) /\ cq'[i] = cq[i + o] /\ cq # <<>>
                        \/ i + o \notin 1..Len(cq) /\ i = Len(cq') /\ Launch(cq'[i]) /\ cq'[i].op = "use"
                           /\ cq'[i].l = fetch.layer /\ cq'[i].uses = Given
      OBVIOUS
    <3>1. CASE i + o \in 1..Len(cq) /\ cq'[i] = cq[i + o]
      <4>1. cq # <<>>
        BY <3>1
      <4> QED BY <3>1, <4>1
    <3>2. CASE i + o \notin 1..Len(cq) /\ i = Len(cq') /\ Launch(cq'[i])
      BY <3>2 DEF Launch, Use, Op
    <3> QED BY <2>1, <3>1, <3>2 DEF Shift
  <2>5. OpsHeld'
    <3> SUFFICES ASSUME NEW i \in 1..Len(cq'), cq'[i].op # "use"
                 PROVE  /\ vram'[cq'[i].l][cq'[i].g] # None /\ <<cq'[i].l, cq'[i].g>> \in gused'
                        /\ cq'[i].l \notin lent'
      BY DEF OpsHeld
    <3> QED BY <1>0, <2>2, <2>4 DEF OpsHeld
  <2>6. UploadHeld'
    <3> SUFFICES ASSUME NEW i \in 1..Len(cq'), cq'[i].op = "upload"
                 PROVE  /\ ram'[cq'[i].l][cq'[i].s].expert = vram'[cq'[i].l][cq'[i].g]
                        /\ ram'[cq'[i].l][cq'[i].s].soa = cq'[i].raw
                        /\ ~\E m \in 1..Len(sideq') : sideq'[m].l = cq'[i].l /\ sideq'[m].s = cq'[i].s
      BY DEF UploadHeld, SideTo
    <3>1. i + o \in 1..Len(cq) /\ cq'[i] = cq[i + o] /\ cq # <<>>
      BY <2>4
    <3> DEFINE j == i + o
    <3> HIDE DEF j
    <3>2. j \in 1..Len(cq) /\ cq'[i] = cq[j] /\ cq[j].op = "upload"
      BY <3>1 DEF j
    <3>3. Kept(cq[j].l, cq[j].s)
      BY <1>0, <2>2, <3>1, <3>2, SourceKept
    <3>4. ~\E m \in 1..Len(sideq') : sideq'[m].l = cq[j].l /\ sideq'[m].s = cq[j].s
      <4>1. sideq' = sideq \/ (sideq # <<>> /\ sideq' = Tail(sideq))
        BY <2>2, <3>1, SideMoves
      <4>2. ~SideTo(cq[j].l, cq[j].s)
        BY <1>0, <3>2 DEF UploadHeld
      <4>3. \A m \in 1..Len(sideq') : \E n \in 1..Len(sideq) : sideq'[m] = sideq[n]
        BY <4>1, SideOld
      <4> QED BY <4>2, <4>3 DEF SideTo
    <3> QED BY <1>0, <2>2, <3>1, <3>2, <3>3, <3>4 DEF UploadHeld, Kept
  <2>7. OpsOrder'
    <3> SUFFICES ASSUME NEW i \in 1..Len(cq'), NEW j \in 1..Len(cq'), cq'[i].op # "use", cq'[j].op = "upload",
                        cq'[i].l = cq'[j].l, cq'[i].g = cq'[j].g
                 PROVE  i <= j /\ (cq'[i].op = "upload" => i = j)
      BY DEF OpsOrder
    <3>1. i + o \in 1..Len(cq) /\ j + o \in 1..Len(cq) /\ cq'[i] = cq[i + o] /\ cq'[j] = cq[j + o]
      BY <2>4
    <3>2. i + o <= j + o /\ (cq[i + o].op = "upload" => i + o = j + o)
      BY <1>0, <3>1 DEF OpsOrder
    <3> QED BY <2>3, <3>1, <3>2
  <2>8. UsesHeld'
    <3> SUFFICES ASSUME NEW i \in 1..Len(cq'), cq'[i].op = "use"
                 PROVE  /\ i = Len(cq') /\ fetch'.pc \in UsePc
                        /\ \A u \in cq'[i].uses : u[1] \in GSlot /\ vram'[cq'[i].l][u[1]] = u[2]
      BY DEF UsesHeld, UsePc
    <3>1. CASE i + o \in 1..Len(cq) /\ cq'[i] = cq[i + o] /\ cq # <<>>
      <4>1. i + o = Len(cq) /\ fetch.pc \in UsePc
            /\ \A u \in cq[i + o].uses : u[1] \in GSlot /\ vram[cq[i + o].l][u[1]] = u[2]
        BY <1>0, <3>1 DEF UsesHeld, UsePc
      <4>2. fetch'.pc \in UsePc
        BY <1>0, <3>1, <4>1, UsePcStays
      <4>3. ~FetchSubmit /\ ~BatchDone
        BY <4>1 DEF FetchSubmit, BatchDone, UsePc
      <4>4. Len(cq') + o = Len(cq)
        BY <2>1, <4>3 DEF Shift
      <4>5. i = Len(cq')
        BY <2>3, <4>1, <4>4
      <4> QED BY <2>2, <3>1, <4>1, <4>2, <4>5
    <3>2. CASE i = Len(cq') /\ Launch(cq'[i]) /\ cq'[i].l = fetch.layer /\ cq'[i].uses = Given
      <4>1. fetch'.pc \in UsePc /\ vram' = vram
        <5>1. CASE FetchSubmit
          <6>1. fetch'.pc = "begun"
            BY <1>0, <5>1, SubmitMoves
          <6> QED BY <5>1, <6>1 DEF FetchSubmit, tables, UsePc
        <5>2. CASE BatchDone
          <6>1. fetch'.pc = "batched"
            BY <1>0, <5>2, BatchReaped
          <6> QED BY <5>2, <6>1 DEF BatchDone, tables, UsePc
        <5> QED BY <3>2, <5>1, <5>2 DEF Launch
      <4>2. \A u \in Given : u[1] \in GSlot /\ vram[fetch.layer][u[1]] = u[2]
        <5> SUFFICES ASSUME NEW u \in Given PROVE u[1] \in GSlot /\ vram[fetch.layer][u[1]] = u[2]
          OBVIOUS
        <5>1. PICK h \in handles : h.gpu /\ u = <<h.slot, h.e>>
          BY DEF Given
        <5>2. u[1] = h.slot /\ u[2] = h.e
          BY <5>1
        <5> QED BY <5>1, <5>2 DEF GpuHandles
      <4> QED BY <3>2, <4>1, <4>2
    <3> QED BY <2>4, <3>1, <3>2
  <2>9. StageHeld'
    <3> SUFFICES ASSUME NEW i \in 1..Len(cq'), cq'[i].op = "stage"
                 PROVE  \E j \in 1..Len(swaps') : swaps'[j].ring = cq'[i].r
      BY DEF StageHeld
    <3>1. i + o \in 1..Len(cq) /\ cq'[i] = cq[i + o] /\ cq # <<>>
      BY <2>4
    <3> QED BY <1>0, <2>2, <3>1 DEF StageHeld
  <2> QED BY <2>5, <2>6, <2>7, <2>8, <2>9 DEF Ops
<1> QED BY <1>1, <1>2

\* Where every promotion's victim goes to a slot of its own, what a fetch handed out, and
\* what the device is to do, is still there.
LEMMA OpsAlways == Spec /\ [](failed = 0 => RestoresOwn) => [](failed = 0 => Apart /\ GpuHandles /\ Ops)
<1> DEFINE Inv == failed = 0 => Apart /\ GpuHandles /\ Ops
<1>1. Init => Inv
  BY DEF Init, NoFetch, Apart, GpuHandles, HandlePc, Ops, OpsHeld, UploadHeld, OpsOrder, UsesHeld, StageHeld
<1>2. /\ Inv /\ [Next]_vars /\ (failed = 0 => RestoresOwn)
      /\ Types /\ Types' /\ Maps /\ Maps' /\ Slots /\ Phases
      /\ (failed = 0 => Claims) /\ (failed = 0 => Claims)'
      /\ (failed = 0 => Sides /\ QueueEmpty /\ QueueHeld)
      => Inv'
  <2> SUFFICES ASSUME Inv, [Next]_vars, failed = 0 => RestoresOwn, Types, Types', Maps, Maps', Slots, Phases,
                      failed = 0 => Claims, (failed = 0 => Claims)',
                      failed = 0 => Sides /\ QueueEmpty /\ QueueHeld, failed' = 0
               PROVE  Apart' /\ GpuHandles' /\ Ops'
    OBVIOUS
  <2>1. failed = 0 /\ HostHolds /\ RestoresOwn
    BY FailedStays DEF Slots
  <2>2. Claims /\ Claims' /\ Sides /\ QueueEmpty /\ QueueHeld /\ Apart /\ GpuHandles /\ Ops
    BY <2>1
  <2>3. Apart'
    BY <2>1, <2>2, StepApart
  <2>4. GpuHandles'
    BY <2>1, <2>2, StepGpuHandles
  <2>5. Ops'
    BY <2>1, <2>2, StepOps
  <2> QED BY <2>3, <2>4, <2>5
<1> QED BY <1>1, <1>2, TypesAlways, MapsAlways, SlotsAlways, PhasesAlways, ClaimsAlways, QueuesAlways, PTL DEF Spec

-----------------------------------------------------------------------------
(* What the blocks of memory hold, against what the tables say of them.     *)

\* Block x of layer k is still on the drive; or the host will mark it as valid without
\* looking at it again.
Reading(k, x) == \E d \in disk : d.l = k /\ d.s = x
Due(k, x) ==
    \/ InPf(k, x) \/ InNext(k, x)
    \/ Submitted /\ k = fetch.layer /\ \E c \in fetch.claims : c[2] = x

LEMMA DueHeld ==
    ASSUME Types, Phases, Claims, NEW k \in Layer, NEW x \in Slot, Due(k, x)
    PROVE  Claimed(k, x) /\ InHost(k, x) /\ ~ram[k][x].valid
<1>1. \E e \in Expert : Wanted(k, e, x)
  <2>1. CASE InPf(k, x)
    <3>1. PICK p \in pf : p[1] = k /\ p[3] = x
      BY <2>1 DEF InPf
    <3>2. p[2] \in Expert /\ p = <<k, p[2], x>>
      BY <3>1 DEF Types, TypeOK
    <3> QED BY <3>1, <3>2 DEF Wanted
  <2>2. CASE InNext(k, x)
    <3>1. fetch.next # None /\ fetch.next.l = k /\ fetch.next.v = x /\ fetch.next.e \in Expert
      BY <2>2 DEF InNext, Types, FetchOK, FetchRec
    <3> QED BY <3>1 DEF Wanted
  <2>3. CASE Submitted /\ k = fetch.layer /\ \E c \in fetch.claims : c[2] = x
    <3>1. PICK c \in fetch.claims : c[2] = x /\ k = fetch.layer
      BY <2>3
    <3>2. c[1] \in Expert
      BY <3>1 DEF Types, FetchOK, FetchRec
    <3> QED BY <3>1, <3>2 DEF Wanted
  <2> QED BY <2>1, <2>2, <2>3 DEF Due
<1> QED BY <1>1, WantedFacts DEF Claims

\* What becomes due is read.
PfMoves(k, x) == InPf(k, x)' => InPf(k, x) \/ Reading(k, x)'
LEMMA PfKept ==
    ASSUME Types, pf' \subseteq pf, NEW k \in Layer, NEW x \in Slot
    PROVE  PfMoves(k, x)
BY DEF PfMoves, InPf

LEMMA AheadRead ==
    ASSUME NEW rs, Reads(rs), NEW k, NEW x, \E d \in rs : d.l = k /\ d.s = x
    PROVE  Reading(k, x)'
BY DEF Reads, Reading

LEMMA OneRead ==
    ASSUME NEW l, NEW e, NEW v, NEW cold, NEW spec,
           Reads({[l |-> l, s |-> v, e |-> e, cold |-> cold, spec |-> spec]})
    PROVE  Reading(l, v)'
<1> DEFINE d == [l |-> l, s |-> v, e |-> e, cold |-> cold, spec |-> spec]
<1>1. d.l = l /\ d.s = v /\ d \in {d}
  OBVIOUS
<1>2. Reads({d})
  OBVIOUS
<1> HIDE DEF d
<1> QED BY <1>1, <1>2, AheadRead

LEMMA DueMoves ==
    ASSUME Types, Types', Maps, Maps', Slots, Phases, Claims, failed = 0, failed' = 0, [Next]_vars,
           NEW k \in Layer, NEW x \in Slot, Due(k, x)'
    PROVE  Due(k, x) \/ Reading(k, x)'
<1>0. HostHolds /\ fetch.pc # "reread" /\ WantedHeld /\ PendReads
  BY DEF Slots, Claims
<1>1. CASE \/ ServePromoteAny \/ RefillAny \/ UNCHANGED vars \/ PrefetchAny \/ PrefetchReap
           \/ ComputeStep \/ SideStep \/ DiskAny \/ FinishSwap
           \/ \E e \in Expert : ServeVram(e) \/ ServeClaimed(e) \/ ServeRam(e)
  <2>1. /\ fetch'.pc = fetch.pc /\ fetch'.layer = fetch.layer /\ fetch'.claims = fetch.claims
        /\ fetch'.next = fetch.next /\ fetch'.deferred = fetch.deferred
    BY <1>1, GoesOn
  <2>2. PfMoves(k, x)
    <3>1. CASE PrefetchAny
      <4>1. PICK l \in Layer, e \in Expert, v \in Slot, cold \in BOOLEAN : PrefetchBegin(l, e, v, cold)
        BY <3>1 DEF PrefetchAny
      <4>2. /\ pf' = StillFlying \cup {<<l, e, v>>}
            /\ Reads({[l |-> l, s |-> v, e |-> e, cold |-> cold, spec |-> TRUE]})
        BY <4>1 DEF PrefetchBegin
      <4>3. Reading(l, v)'
        BY <4>2, OneRead
      <4>4. InPf(k, x)' => InPf(k, x) \/ (k = l /\ x = v)
        BY <4>2 DEF InPf, StillFlying
      <4> QED BY <4>3, <4>4 DEF PfMoves, Reading
    <3>2. CASE PrefetchReap
      BY <3>2, PfKept DEF PrefetchReap, StillFlying
    <3>3. CASE ServePromoteAny \/ RefillAny
      BY <3>3, PfKept DEF ServePromoteAny, RefillAny, ServePromote, Refill
    <3>4. CASE UNCHANGED vars \/ ComputeStep \/ SideStep \/ DiskAny \/ FinishSwap
      <4>1. pf' = pf
        BY <3>4, QuietRam DEF FinishSwap
      <4> QED BY <4>1, PfKept
    <3>5. CASE \E e \in Expert : ServeVram(e) \/ ServeClaimed(e) \/ ServeRam(e)
      <4>1. pf' = pf
        BY <3>5 DEF ServeVram, ServeClaimed, ServeRam
      <4> QED BY <4>1, PfKept
    <3> QED BY <1>1, <3>1, <3>2, <3>3, <3>4, <3>5
  <2> QED BY <2>1, <2>2 DEF Due, PfMoves, InNext, Submitted
<1>2. CASE \/ FetchStartAny \/ LendAny \/ RefillDone \/ SettleFullDone \/ RestoreBegin
           \/ RestoreEnds \/ WarmAny
           \/ SettleLayer /\ fetch.pc = "ended"
           \/ SettleLayerDone /\ ~fetch.deferred
           \/ FetchEnd /\ fetch.deferred
  <2>1. fetch'.claims = {} /\ fetch'.next = fetch.next
    BY <1>0, <1>2, BeginsBare
  <2>2. pf' = pf
    <3>1. CASE WarmAny
      BY <3>1 DEF WarmAny, Warm
    <3>2. CASE FetchEnd
      BY <3>2 DEF FetchEnd
    <3>3. CASE ~WarmAny /\ ~FetchEnd
      BY <1>2, <3>3, QuietRam
    <3> QED BY <3>1, <3>2, <3>3
  <2> QED BY <2>1, <2>2 DEF Due, InPf, InNext
<1>3. CASE ServeMissAny \/ \E e \in Expert : ServeUpgrade(e)
  <2>1. fetch'.pc = "serve" /\ fetch'.deferred = FALSE /\ fetch'.next = None
    <3>1. CASE ServeMissAny
      BY <1>0, <3>1, FetchClaims DEF ServeMissAny
    <3>2. CASE \E e \in Expert : ServeUpgrade(e)
      <4>1. PICK e \in Expert : ServeUpgrade(e)
        BY <3>2
      <4>2. FindSlot(fetch.layer, e) \in Slot
        BY <4>1, ServeFacts, SlotTypes DEF ServeUpgrade
      <4> QED BY <1>0, <4>1, <4>2, FetchClaims
    <3> QED BY <1>3, <3>1, <3>2
  <2>2. pf' = pf
    BY <1>3 DEF ServeMissAny, ServeMiss, ServeUpgrade
  <2> QED BY <2>1, <2>2 DEF Due, InPf, InNext, Submitted
<1>4. CASE FetchSubmit
  <2>1. fetch'.claims = fetch.claims /\ fetch'.layer = fetch.layer /\ fetch'.next = None /\ pf' = pf
    BY <1>0, <1>4, SubmitMoves, QuietRam
  <2>2. Reads({[l |-> fetch.layer, s |-> c[2], e |-> c[1], cold |-> c[3], spec |-> FALSE] : c \in fetch.claims})
    BY <1>4 DEF FetchSubmit
  <2>3. CASE k = fetch.layer /\ \E c \in fetch.claims : c[2] = x
    <3>1. PICK c \in fetch.claims : c[2] = x
      BY <2>3
    <3> DEFINE d == [l |-> fetch.layer, s |-> c[2], e |-> c[1], cold |-> c[3], spec |-> FALSE]
    <3>2. d \in {[l |-> fetch.layer, s |-> b[2], e |-> b[1], cold |-> b[3], spec |-> FALSE] : b \in fetch.claims}
      OBVIOUS
    <3>3. d.l = k /\ d.s = x
      BY <2>3, <3>1
    <3> HIDE DEF d
    <3> QED BY <2>2, <3>2, <3>3, AheadRead
  <2>4. CASE ~(k = fetch.layer /\ \E c \in fetch.claims : c[2] = x)
    BY <2>1, <2>4 DEF Due, InPf, InNext
  <2> QED BY <2>3, <2>4
<1>5. CASE BatchAny
  <2>1. PICK l \in Layer, es \in {ToSet(list) : list \in Lists} :
           \E adopt \in Adoptions(l, {e \in es : ~BatchHit(l, e)}) : FetchBatch(l, es, adopt)
    BY <1>5 DEF BatchAny
  <2>2. PICK adopt \in Adoptions(l, {e \in es : ~BatchHit(l, e)}) : FetchBatch(l, es, adopt)
    BY <2>1
  <2>3. fetch'.pc = "batch" /\ fetch'.deferred = FALSE /\ fetch'.next = None
    BY <2>2, BatchReads
  <2>4. pf' = pf
    BY <2>2 DEF FetchBatch
  <2> QED BY <2>3, <2>4 DEF Due, InPf, InNext, Submitted
<1>6. CASE RestoreAny
  <2>1. PICK l \in Layer, e \in Expert, v \in Slot \cup {None} : PrefetchStart(l, e, v)
    BY <1>6 DEF RestoreAny
  <2>2. /\ fetch'.claims = {} /\ fetch'.next = [l |-> l, e |-> e, v |-> v]
    BY <1>0, <2>1, StartMoves
  <2>3. pf' = pf /\ (v # None => Reads({[l |-> l, s |-> v, e |-> e, cold |-> FALSE, spec |-> FALSE]}))
    BY <2>1 DEF PrefetchStart
  <2>4. v # None => Reading(l, v)'
    BY <2>3, OneRead
  <2>5. InNext(k, x)' => k = l /\ x = v /\ v # None
    BY <2>2, CacheConstants DEF InNext
  <2> QED BY <2>2, <2>3, <2>4, <2>5 DEF Due, InPf
<1>7. CASE SettlePending
  <2>1. fetch' = fetch
    BY <1>0, <1>7, NoneLost, PendingMoves
  <2>2. PfMoves(k, x)
    BY <1>7, PfKept DEF SettlePending, StillFlying
  <2> QED BY <2>1, <2>2 DEF Due, PfMoves, InNext, Submitted
<1>8. CASE (SettleLayer /\ fetch.pc # "ended") \/ (SettleLayerDone /\ fetch.deferred)
  <2>1. /\ fetch.pc = "begun" \/ fetch.deferred
        /\ fetch'.layer = fetch.layer /\ fetch'.claims = fetch.claims
        /\ fetch'.next = None
    BY <1>0, <1>8, DeferMoves
  <2>2. pf' = pf
    BY <1>8, QuietRam
  <2> QED BY <2>1, <2>2 DEF Due, InPf, InNext, Submitted
<1>9. CASE (FetchEnd /\ ~fetch.deferred) \/ BatchDone \/ PrefetchFinish
  <2>1. fetch'.claims = {} /\ fetch'.next = None
    BY <1>0, <1>9, EndMoves, BatchReaped, RestoreReads
  <2>2. pf' = pf
    BY <1>9 DEF FetchEnd, BatchDone, PrefetchFinish
  <2> QED BY <2>1, <2>2 DEF Due, InPf, InNext
<1>10. CASE RereadAny \/ RereadReturns \/ FetchShort \/ \E e \in Expert : ServeFails(e)
  BY <1>0, <1>10, FailedCounts DEF RereadAny, Reread, RereadReturns
<1> QED BY <1>1, <1>2, <1>3, <1>4, <1>5, <1>6, <1>7, <1>8, <1>9, <1>10, Zenon DEF Next, FetchSteps, ServeAny

\* What a step of the host does to a block: it has it read; it leaves it, and at most marks
\* it as valid; it puts it into the file's layout; it copies an expert's weights into it; or
\* it gives the slot up, or claims it.
Filed(k, x) ==
    /\ AtLanded(k) /\ ram[k][x].expert # None /\ ram[k][x].valid
    /\ ram'[k][x].expert = ram[k][x].expert /\ ram'[k][x].cold = ram[k][x].cold /\ ~ram'[k][x].soa
    /\ rbytes'[k][x] = FileLayout(rbytes[k][x], ram[k][x].soa)
Copied(k, x) ==
    /\ ram'[k][x].valid /\ ~ram'[k][x].cold /\ ~ram'[k][x].soa
    /\ rbytes'[k][x] = Bytes(ram'[k][x].expert, FALSE, FALSE)
ByteMove(k, x) ==
    \/ Reading(k, x)'
    \/ (Kept(k, x) \/ Marked(k, x)) /\ rbytes'[k][x] = rbytes[k][x]
    \/ Filed(k, x)
    \/ Copied(k, x)
    \/ ~ram'[k][x].valid /\ ~Claimed(k, x)

LEMMA StillBytes ==
    ASSUME NEW k, NEW x, ram'[k][x] = ram[k][x], rbytes'[k][x] = rbytes[k][x]
    PROVE  ByteMove(k, x)
BY DEF ByteMove, Kept

\* Reads change the blocks they are for.
LEMMA ReadBytes ==
    ASSUME Types, NEW rs, Reads(rs), NEW k \in Layer, NEW x \in Slot
    PROVE  Reading(k, x)' \/ rbytes'[k][x] = rbytes[k][x]
<1>1. CASE \E d \in rs : d.l = k /\ d.s = x
  BY <1>1, AheadRead
<1>2. CASE ~\E d \in rs : d.l = k /\ d.s = x
  <2>1. rbytes'[k][x] = IF \E d \in rs : d.l = k /\ d.s = x THEN Garbage ELSE rbytes[k][x]
    BY DEF Reads
  <2> QED BY <1>2, <2>1
<1> QED BY <1>1, <1>2

LEMMA ReapBytes ==
    ASSUME Types, WantedHeld, NEW k \in Layer, NEW x \in Slot, ram'[k][x] = Reaped[k][x]
    PROVE  Kept(k, x) \/ Marked(k, x)
<1>1. ram[k][x] \in RamSlot /\ Reaped[k][x] \in RamSlot
  BY ReapTypes DEF Types, TypeOK
<1>2. /\ Reaped[k][x].expert = ram[k][x].expert /\ Reaped[k][x].cold = ram[k][x].cold
      /\ Reaped[k][x].soa = ram[k][x].soa
      /\ ram[k][x].valid => Reaped[k][x].valid
      /\ Reaped[k][x].valid /\ ~ram[k][x].valid => InPf(k, x)
  BY ReapEntry
<1>3. ram[k][x].valid \in BOOLEAN /\ Reaped[k][x].valid \in BOOLEAN
  BY <1>1 DEF RamSlot
<1> QED BY <1>2, <1>3 DEF Kept, Marked

\* A promotion, to a slot of its own.
LEMMA PromotionBytes ==
    ASSUME Types, Types', Maps, Apart, NEW l \in Layer, NEW e \in Expert, NEW s \in Slot, NEW g \in GSlot,
           NEW pick \in Slot \cup {None}, NEW r \in Ring \cup {None}, Promotion(l, e, s, g, pick, r),
           NEW k \in Layer, NEW x \in Slot
    PROVE  ByteMove(k, x)
<1>1. pick # s /\ Promote(l, e, s, g, pick, r) /\ rbytes' = rbytes
  BY NotOwn DEF Promotion
<1>2. ram' = IF pick # None THEN [ram EXCEPT ![l][pick] = [Empty EXCEPT !.expert = vram[l][g]]] ELSE ram
  BY <1>1 DEF Promote
<1>3. ram \in [Layer -> [Slot -> RamSlot]]
  BY DEF Types, TypeOK
<1>4. CASE pick # None /\ k = l /\ x = pick
  <2>1. pick \in Slot /\ ~Claimed(l, pick)
    BY <1>4, PromotionAdds DEF SwapsTo
  <2>2. ram'[k][x] = [Empty EXCEPT !.expert = vram[l][g]]
    BY <1>2, <1>3, <1>4
  <2>3. ~ram'[k][x].valid
    BY <2>2 DEF Empty
  <2> QED BY <1>4, <2>1, <2>3 DEF ByteMove
<1>5. CASE ~(pick # None /\ k = l /\ x = pick)
  <2>1. ram'[k][x] = ram[k][x]
    BY <1>2, <1>3, <1>5
  <2> QED BY <1>1, <2>1, StillBytes
<1> QED BY <1>4, <1>5

\* The steps of a list.
LEMMA ServeBytes ==
    ASSUME Types, Types', Maps, Maps', HostHolds, Phases, WantedHeld, ClaimFlags, ColdFile, MappedWanted,
           NEW k \in Layer, NEW x \in Slot,
           ServeMissAny \/ \E e \in Expert : ServeRam(e) \/ ServeUpgrade(e)
    PROVE  ByteMove(k, x)
<1>0. ram \in [Layer -> [Slot -> RamSlot]] /\ rbytes \in [Layer -> [Slot -> AllBytes]]
  BY DEF Types, TypeOK
<1>1. CASE ServeMissAny
  <2>1. PICK e \in Expert, v \in Slot, cold \in BOOLEAN : ServeMiss(e, v, cold)
    BY <1>1 DEF ServeMissAny
  <2>2. ram' = ClaimRam(ram, fetch.layer, v, e, cold) /\ v \in Evictable(ram, fetch.layer) /\ rbytes' = rbytes
    BY <2>1 DEF ServeMiss, device
  <2>3. fetch.layer \in Layer
    BY <2>1, ServeFacts DEF ServeMiss
  <2>4. CASE k = fetch.layer /\ x = v
    <3>1. ram'[k][x] = [expert |-> e, valid |-> FALSE, cold |-> cold, soa |-> FALSE]
      BY <1>0, <2>2, <2>3, <2>4 DEF ClaimRam
    <3>2. ~Claimed(k, x)
      BY <2>2, <2>4 DEF Evictable, Claimed
    <3> QED BY <3>1, <3>2 DEF ByteMove
  <2>5. CASE ~(k = fetch.layer /\ x = v)
    <3>1. ram'[k][x] = ram[k][x]
      BY <1>0, <2>2, <2>3, <2>5 DEF ClaimRam
    <3> QED BY <2>2, <3>1, StillBytes
  <2> QED BY <2>4, <2>5
<1>2. CASE \E e \in Expert : ServeUpgrade(e)
  <2>1. PICK e \in Expert : ServeUpgrade(e)
    BY <1>2
  <2>2. fetch.layer \in Layer /\ FindSlot(fetch.layer, e) \in Slot
    BY <2>1, ServeFacts, SlotTypes DEF ServeUpgrade
  <2>3. /\ ~(k = fetch.layer /\ x = FindSlot(fetch.layer, e)) => ram'[k][x] = ram[k][x]
        /\ ~ram'[fetch.layer][FindSlot(fetch.layer, e)].valid
        /\ ram[fetch.layer][FindSlot(fetch.layer, e)].valid
    BY <2>1, <2>2, ServeUpgradeClaims
  <2>4. rbytes' = rbytes
    BY <2>1 DEF ServeUpgrade, device
  <2>5. CASE k = fetch.layer /\ x = FindSlot(fetch.layer, e)
    BY <2>3, <2>5 DEF ByteMove, Claimed
  <2>6. CASE ~(k = fetch.layer /\ x = FindSlot(fetch.layer, e))
    BY <2>3, <2>4, <2>6, StillBytes
  <2> QED BY <2>5, <2>6
<1>3. CASE \E e \in Expert : ServeRam(e)
  <2>1. PICK e \in Expert : ServeRam(e)
    BY <1>3
  <2>2. fetch.layer \in Layer /\ FindSlot(fetch.layer, e) \in Slot /\ fetch.pc = "serve"
    BY <2>1, ServeFacts, SlotTypes DEF ServeRam
  <2>3. PICK s \in Slot : s = FindSlot(fetch.layer, e)
    BY <2>2
  <2>4. /\ ram' = [ram EXCEPT ![fetch.layer][s].soa = FALSE]
        /\ rbytes' = [rbytes EXCEPT ![fetch.layer][s] = FileLayout(@, ram[fetch.layer][s].soa)]
    BY <2>1, <2>3 DEF ServeRam
  <2>5. CASE k = fetch.layer /\ x = s
    <3>1. ram[k][x].expert = e /\ ram[k][x].valid
      BY <2>2, <2>3, <2>5, Lookup, CacheConstants
    <3>2. ram[k][x] \in RamSlot /\ ram'[k][x] = [ram[k][x] EXCEPT !.soa = FALSE]
      BY <1>0, <2>4, <2>5
    <3>3. rbytes'[k][x] = FileLayout(rbytes[k][x], ram[k][x].soa)
      BY <1>0, <2>4, <2>5
    <3>4. AtLanded(k)
      BY <2>2, <2>5 DEF AtLanded, AtLayer
    <3>5. ram'[k][x].expert = ram[k][x].expert /\ ram'[k][x].cold = ram[k][x].cold /\ ~ram'[k][x].soa
      BY <3>2 DEF RamSlot
    <3>6. Filed(k, x)
      BY <3>1, <3>3, <3>4, <3>5, CacheConstants DEF Filed
    <3> QED BY <3>6 DEF ByteMove
  <2>6. CASE ~(k = fetch.layer /\ x = s)
    <3>1. ram'[k][x] = ram[k][x] /\ rbytes'[k][x] = rbytes[k][x]
      BY <1>0, <2>2, <2>4, <2>6
    <3> QED BY <3>1, StillBytes
  <2> QED BY <2>5, <2>6
<1> QED BY <1>1, <1>2, <1>3

\* The reads ahead, and those of a fetch.
LEMMA AheadBytes ==
    ASSUME Types, Types', Maps, Maps', HostHolds, Phases, WantedHeld, ClaimFlags, ColdFile, MappedWanted,
           PrefetchAny \/ RestoreAny \/ FetchSubmit, NEW k \in Layer, NEW x \in Slot
    PROVE  ByteMove(k, x)
<1>1. CASE PrefetchAny
  <2>1. PICK l \in Layer, e \in Expert, v \in Slot, cold \in BOOLEAN : PrefetchBegin(l, e, v, cold)
    BY <1>1 DEF PrefetchAny
  <2>2. Reads({[l |-> l, s |-> v, e |-> e, cold |-> cold, spec |-> TRUE]})
    BY <2>1 DEF PrefetchBegin
  <2>3. Reading(l, v)' /\ (Reading(k, x)' \/ rbytes'[k][x] = rbytes[k][x])
    BY <2>2, OneRead, ReadBytes
  <2>4. PrefetchTakes(l, e, v, cold)
    BY <2>1, PrefetchBegins
  <2>5. CASE k = l /\ x = v
    BY <2>3, <2>5 DEF ByteMove, Reading
  <2>6. CASE ~(k = l /\ x = v)
    <3>1. ram'[k][x] = Reaped[k][x]
      BY <2>4, <2>6 DEF PrefetchTakes
    <3> QED BY <2>3, <3>1, ReapBytes DEF ByteMove
  <2> QED BY <2>5, <2>6
<1>2. CASE RestoreAny
  <2>1. PICK l \in Layer, e \in Expert, v \in Slot \cup {None} : PrefetchStart(l, e, v)
    BY <1>2 DEF RestoreAny
  <2>2. CASE v = None
    <3>1. ram' = ram /\ rbytes' = rbytes
      BY <2>1, <2>2 DEF PrefetchStart
    <3> QED BY <3>1, StillBytes
  <2>3. CASE v # None
    <3>1. Reads({[l |-> l, s |-> v, e |-> e, cold |-> FALSE, spec |-> FALSE]})
      BY <2>1, <2>3 DEF PrefetchStart
    <3>2. Reading(l, v)' /\ (Reading(k, x)' \/ rbytes'[k][x] = rbytes[k][x])
      BY <3>1, OneRead, ReadBytes
    <3>3. CASE k = l /\ x = v
      BY <3>2, <3>3 DEF ByteMove, Reading
    <3>4. CASE ~(k = l /\ x = v)
      <4>1. ram'[k][x] = ram[k][x]
        <5>1. ram' = ClaimRam(ram, l, v, e, ram[l][v].cold)
          BY <2>1, <2>3 DEF PrefetchStart
        <5> QED BY <2>3, <3>4, <5>1 DEF ClaimRam, Types, TypeOK
      <4> QED BY <3>2, <4>1, StillBytes DEF ByteMove
    <3> QED BY <3>3, <3>4
  <2> QED BY <2>2, <2>3
<1>3. CASE FetchSubmit
  <2>1. Reads({[l |-> fetch.layer, s |-> c[2], e |-> c[1], cold |-> c[3], spec |-> FALSE] : c \in fetch.claims})
    BY <1>3 DEF FetchSubmit
  <2>2. Reading(k, x)' \/ rbytes'[k][x] = rbytes[k][x]
    BY <2>1, ReadBytes
  <2>3. ram'[k][x] = ram[k][x]
    BY <1>3, QuietRam
  <2> QED BY <2>2, <2>3, StillBytes DEF ByteMove
<1> QED BY <1>1, <1>2, <1>3

\* The reads that have landed are reaped, and claims marked as valid.
LEMMA LandBytes ==
    ASSUME Types, Types', HostHolds, Phases, WantedHeld, ClaimFlags, ColdFile, MappedWanted,
           FetchEnd \/ PrefetchFinish \/ PrefetchReap \/ SettlePending, NEW k \in Layer, NEW x \in Slot
    PROVE  ByteMove(k, x)
<1>0. ram[k][x].valid \in BOOLEAN /\ ram'[k][x].valid \in BOOLEAN
  BY DEF Types, TypeOK, RamSlot
<1>1. CASE PrefetchReap \/ SettlePending
  <2>1. ram' = Reaped /\ rbytes' = rbytes
    BY <1>1 DEF PrefetchReap, SettlePending, device
  <2> QED BY <2>1, ReapBytes DEF ByteMove
<1>2. CASE FetchEnd
  <2>1. /\ ram'[k][x].expert = ram[k][x].expert /\ ram'[k][x].cold = ram[k][x].cold
        /\ ram'[k][x].soa = ram[k][x].soa /\ (ram[k][x].valid => ram'[k][x].valid)
        /\ ram'[k][x].valid =>
              ram[k][x].valid \/ (k = fetch.layer /\ \E c \in fetch.claims : c[2] = x)
    BY <1>2, FetchEndClaims
  <2>2. Submitted /\ rbytes' = rbytes
    BY <1>2 DEF FetchEnd, Ending, Submitted
  <2>3. Kept(k, x) \/ Marked(k, x)
    BY <1>0, <2>1, <2>2 DEF Kept, Marked
  <2> QED BY <2>2, <2>3 DEF ByteMove
<1>3. CASE PrefetchFinish
  <2>1. /\ ram'[k][x].expert = ram[k][x].expert /\ ram'[k][x].cold = ram[k][x].cold
        /\ ram'[k][x].soa = ram[k][x].soa /\ (ram[k][x].valid => ram'[k][x].valid)
        /\ ram'[k][x].valid => ram[k][x].valid \/ InNext(k, x)
    BY <1>3, FinishClaims
  <2>2. rbytes' = rbytes
    BY <1>3 DEF PrefetchFinish
  <2>3. Kept(k, x) \/ Marked(k, x)
    BY <1>0, <2>1 DEF Kept, Marked
  <2> QED BY <2>2, <2>3 DEF ByteMove
<1> QED BY <1>1, <1>2, <1>3

\* warm() and fetch_batch().
LEMMA WarmBytes ==
    ASSUME Types, WarmAny, NEW k \in Layer, NEW x \in Slot
    PROVE  ByteMove(k, x)
<1>1. PICK l \in Layer, e \in Expert, v \in Slot : Warm(l, e, v)
  BY DEF WarmAny
<1>2. WarmKeeps(l, v, k, x) \/ WarmTakes(l, e, v, k, x) \/ WarmGives(l, v, k, x)
  BY <1>1, WarmEffect
<1>3. CASE WarmKeeps(l, v, k, x)
  BY <1>3, StillBytes DEF WarmKeeps
<1>4. CASE WarmTakes(l, e, v, k, x)
  BY <1>4 DEF WarmTakes, ByteMove, Copied
<1>5. CASE WarmGives(l, v, k, x)
  BY <1>5 DEF WarmGives, ByteMove, Claimed
<1> QED BY <1>2, <1>3, <1>4, <1>5

LEMMA BatchBytes ==
    ASSUME Types, Types', Maps, NEW l \in Layer, NEW es \in SUBSET Expert,
           NEW adopt \in Adoptions(l, {e \in es : ~BatchHit(l, e)}), FetchBatch(l, es, adopt),
           NEW k \in Layer, NEW x \in Slot
    PROVE  ByteMove(k, x)
<1>1. BatchKeeps(l, adopt, k, x) \/ BatchAdopts(l, adopt, k, x) \/ BatchHits(l, k, x)
  BY BatchEffect
<1>2. CASE BatchKeeps(l, adopt, k, x)
  BY <1>2, StillBytes DEF BatchKeeps
<1>3. CASE BatchAdopts(l, adopt, k, x)
  <2>1. k = l /\ \E e \in Expert : e \in DOMAIN adopt /\ adopt[e] = x
    BY <1>3 DEF BatchAdopts
  <2>2. PICK e \in Expert : e \in DOMAIN adopt /\ adopt[e] = x
    BY <2>1
  <2>3. adopt[e] # None
    BY <2>2, CacheConstants
  <2> DEFINE d == [l |-> l, s |-> adopt[e], e |-> e, cold |-> FALSE, spec |-> FALSE]
  <2>4. d.l = l /\ d.s = x
    BY <2>2
  <2>5. d \in disk'
    BY <2>2, <2>3 DEF FetchBatch
  <2> HIDE DEF d
  <2> QED BY <2>1, <2>4, <2>5 DEF ByteMove, Reading
<1>4. CASE BatchHits(l, k, x)
  <2>1. AtLanded(l)
    BY DEF FetchBatch, AtLanded
  <2>2. ram'[k][x].cold = ram[k][x].cold
    <3>1. ram'[k][x].cold \in BOOLEAN /\ ram[k][x].cold \in BOOLEAN
      BY DEF Types, TypeOK, RamSlot
    <3> QED BY <1>4, <3>1 DEF BatchHits
  <2>3. Filed(k, x)
    BY <1>4, <2>1, <2>2 DEF BatchHits, Filed
  <2> QED BY <2>3 DEF ByteMove
<1> QED BY <1>1, <1>2, <1>3, <1>4

LEMMA HostBytes ==
    ASSUME Types, Types', Maps, Maps', Slots, Phases, Claims, Apart, failed = 0, failed' = 0, [Next]_vars,
           ~FinishSwap, ~ComputeStep, ~SideStep, ~DiskAny,
           NEW k \in Layer, NEW x \in Slot
    PROVE  ByteMove(k, x)
<1>0. /\ HostHolds /\ fetch.pc # "reread"
      /\ WantedHeld /\ ClaimFlags /\ ColdFile /\ MappedWanted /\ PendReads
  BY DEF Slots, Claims
<1>1. CASE \/ UNCHANGED vars
           \/ FetchStartAny \/ LendAny \/ RefillDone \/ SettleFullDone \/ RestoreBegin \/ RestoreEnds
           \/ BatchDone \/ SettleLayer \/ SettleLayerDone
           \/ \E e \in Expert : ServeVram(e) \/ ServeClaimed(e)
  <2>1. ram' = ram
    BY <1>1, QuietRam
  <2>2. rbytes' = rbytes
    <3>1. CASE UNCHANGED vars \/ FetchStartAny \/ LendAny \/ RefillDone
      BY <3>1 DEF vars, device, FetchStartAny, FetchStart, LendAny, LendBegin, LendEnd, RefillDone
    <3>2. CASE SettleFullDone \/ RestoreBegin \/ RestoreEnds \/ BatchDone \/ SettleLayer \/ SettleLayerDone
      BY <3>2 DEF device, SettleFullDone, RestoreBegin, RestoreEnds, BatchDone, SettleLayer, SettleLayerDone
    <3>3. CASE \E e \in Expert : ServeVram(e) \/ ServeClaimed(e)
      BY <3>3 DEF device, ServeVram, ServeClaimed
    <3> QED BY <1>1, <3>1, <3>2, <3>3
  <2> QED BY <2>1, <2>2, StillBytes
<1>2. CASE ServePromoteAny \/ RefillAny
  <2>1. PICK l \in Layer, e \in Expert, s \in Slot, g \in GSlot, pick \in Slot \cup {None}, r \in Ring \cup {None} :
           Promotion(l, e, s, g, pick, r)
    BY <1>2, PromotionStep
  <2> QED BY <2>1, PromotionBytes
<1>3. CASE ServeMissAny \/ \E e \in Expert : ServeRam(e) \/ ServeUpgrade(e)
  BY <1>0, <1>3, ServeBytes
<1>4. CASE PrefetchAny \/ RestoreAny \/ FetchSubmit
  BY <1>0, <1>4, AheadBytes
<1>5. CASE FetchEnd \/ PrefetchFinish \/ PrefetchReap \/ SettlePending
  BY <1>0, <1>5, LandBytes
<1>6. CASE WarmAny
  BY <1>6, WarmBytes
<1>7. CASE BatchAny
  <2>1. PICK l \in Layer, es \in {ToSet(list) : list \in Lists} :
           \E adopt \in Adoptions(l, {e \in es : ~BatchHit(l, e)}) : FetchBatch(l, es, adopt)
    BY <1>7 DEF BatchAny
  <2>2. es \in SUBSET Expert
    BY <2>1 DEF Lists, ToSet
  <2>3. PICK adopt \in Adoptions(l, {e \in es : ~BatchHit(l, e)}) : FetchBatch(l, es, adopt)
    BY <2>1
  <2> QED BY <2>2, <2>3, BatchBytes
<1>8. CASE RereadAny \/ RereadReturns \/ FetchShort \/ \E e \in Expert : ServeFails(e)
  BY <1>0, <1>8, FailedCounts DEF RereadAny, Reread, RereadReturns
<1> QED BY <1>1, <1>2, <1>3, <1>4, <1>5, <1>6, <1>7, <1>8, Zenon DEF Next, FetchSteps, ServeAny
\* A slot's precision flag; the restore reads at full precision into a slot that is flagged
\* cold, and leaves the flag.
AsFlag(c, flag) == c = flag \/ (~c /\ HasCold /\ "restore" \in Prompting)

\* A cold slot is one of a cache with a cold checkpoint, and a restore one of a program that
\* restores.
ColdKnown == \A k \in Layer, x \in Slot : ram[k][x].cold => HasCold
Restores == fetch.restore \/ fetch.next # None \/ fetch.pc = "restore" => "restore" \in Prompting

LEMMA StepCold ==
    ASSUME Types, Types', Maps, Maps', Slots, Phases, Claims, ColdKnown, failed = 0, failed' = 0, [Next]_vars
    PROVE  ColdKnown'
<1> SUFFICES ASSUME NEW k \in Layer, NEW x \in Slot, ram'[k][x].cold PROVE HasCold
  BY DEF ColdKnown
<1>1. CASE FinishSwap
  <2>1. ram[k][x].cold
    <3>1. /\ Lands /\ k = Sw.layer /\ x = Sw.to => ~ram'[k][x].cold
          /\ k = Sw.layer /\ ((Held /\ ~Lands /\ x = Sw.to) \/ (Away /\ x = Sw.from /\ ~(Lands /\ x = Sw.to))) =>
                ram'[k][x].cold = ram[k][x].cold
          /\ ~(k = Sw.layer /\ ((Held /\ x = Sw.to) \/ (Away /\ x = Sw.from))) => ram'[k][x] = ram[k][x]
      BY <1>1, SwapEntry
    <3> QED BY <3>1
  <2> QED BY <2>1 DEF ColdKnown
<1>2. CASE ~FinishSwap
  <2>1. RamMove(k, x)
    BY <1>2, StepMoves
  <2>2. ram[k][x].cold \/ HasCold
    BY <2>1 DEF RamMove, Kept, Marked, Softened, Dropped, Taken
  <2> QED BY <2>2 DEF ColdKnown
<1> QED BY <1>1, <1>2

LEMMA StepRestores ==
    ASSUME Types, Restores, fetch.pc # "reread", failed = 0, failed' = 0, [Next]_vars
    PROVE  Restores'
<1>0. fetch \in FetchRec
  BY DEF Types, FetchOK
<1>1. CASE \/ ServePromoteAny \/ RefillAny \/ UNCHANGED vars \/ PrefetchAny \/ PrefetchReap
           \/ ComputeStep \/ SideStep \/ DiskAny \/ FinishSwap
           \/ \E e \in Expert : ServeVram(e) \/ ServeClaimed(e) \/ ServeRam(e)
  <2>1. fetch'.pc = fetch.pc /\ fetch'.next = fetch.next /\ fetch'.restore = fetch.restore
    BY <1>1, GoesOn
  <2> QED BY <2>1 DEF Restores
<1>2. CASE FetchStartAny \/ LendAny \/ RestoreEnds
  <2>1. CASE FetchStartAny
    BY <2>1 DEF FetchStartAny, FetchStart, NoFetch, Restores
  <2>2. CASE LendAny
    BY <2>2 DEF LendAny, LendBegin, LendEnd, NoFetch, Restores
  <2>3. CASE RestoreEnds
    BY <2>3 DEF RestoreEnds, NoFetch, Restores
  <2> QED BY <1>2, <2>1, <2>2, <2>3
<1>3. CASE WarmAny
  BY <1>3 DEF WarmAny, Warm, NoFetch, Restores
<1>4. CASE BatchAny
  BY <1>4 DEF BatchAny, FetchBatch, NoFetch, Restores
<1>5. CASE RestoreBegin
  BY <1>5 DEF RestoreBegin, Restores
<1>6. CASE RestoreAny
  <2>1. PICK l \in Layer, e \in Expert, v \in Slot \cup {None} : PrefetchStart(l, e, v)
    BY <1>6 DEF RestoreAny
  <2>2. fetch.pc = "restore" \/ fetch.restore
    BY <2>1 DEF PrefetchStart
  <2> QED BY <2>2 DEF Restores
<1>7. CASE PrefetchFinish
  BY <1>7 DEF PrefetchFinish, Restores
<1>8. CASE SettleFullDone
  <2>1. fetch' = NoFetch \/ (fetch.restore /\ fetch' = [NoFetch EXCEPT !.pc = "restore", !.next = fetch.next])
    BY <1>8 DEF SettleFullDone
  <2>2. CASE fetch' = NoFetch
    BY <2>2 DEF NoFetch, Restores
  <2> QED BY <2>1, <2>2 DEF Restores
<1>9. CASE RefillDone
  <2>1. fetch' = [NoFetch EXCEPT !.pc = "settle", !.full = TRUE, !.restore = fetch.next # None, !.next = fetch.next]
    BY <1>9 DEF RefillDone
  <2>2. CASE fetch.next = None
    <3>1. fetch'.restore = FALSE /\ fetch'.next = None /\ fetch'.pc = "settle"
      BY <2>1, <2>2 DEF NoFetch
    <3> QED BY <3>1 DEF Restores
  <2>3. CASE fetch.next # None
    BY <2>3 DEF Restores
  <2> QED BY <2>2, <2>3
<1>10. CASE SettleLayer \/ SettleLayerDone \/ FetchEnd
  <2>1. \/ fetch' \in {NoFetch, [NoFetch EXCEPT !.pc = "settle"]}
        \/ fetch' \in {[fetch EXCEPT !.pc = "settle", !.deferred = TRUE], [fetch EXCEPT !.pc = "idle"]}
        \/ fetch' = [fetch EXCEPT !.pc = "ended", !.claims = {}, !.need = NoFetch.need]
    BY <1>10 DEF SettleLayer, SettleLayerDone, FetchEnd
  <2>2. CASE fetch' \in {NoFetch, [NoFetch EXCEPT !.pc = "settle"]}
    BY <2>2 DEF NoFetch, Restores
  <2>3. CASE fetch' \in {[fetch EXCEPT !.pc = "settle", !.deferred = TRUE], [fetch EXCEPT !.pc = "idle"]}
    BY <1>0, <2>3 DEF FetchRec, Restores
  <2>4. CASE fetch' = [fetch EXCEPT !.pc = "ended", !.claims = {}, !.need = NoFetch.need]
    BY <1>0, <2>4 DEF FetchRec, Restores
  <2> QED BY <2>1, <2>2, <2>3, <2>4
<1>11. CASE ServeMissAny \/ \E e \in Expert : ServeUpgrade(e)
  <2>1. \E c : fetch' = [fetch EXCEPT !.todo = Tail(fetch.todo), !.claims = c] /\ fetch.pc = "serve"
    BY <1>11 DEF ServeMissAny, ServeMiss, ServeUpgrade, Serving
  <2> QED BY <1>0, <2>1 DEF FetchRec, Restores
<1>12. CASE FetchSubmit \/ BatchDone
  <2>1. \E n, p : p \in {"begun", "batched"} /\ fetch' = [fetch EXCEPT !.pc = p, !.need = n]
    BY <1>12 DEF FetchSubmit, BatchDone
  <2> QED BY <1>0, <2>1 DEF FetchRec, Restores
<1>13. CASE SettlePending
  <2>1. fetch' = fetch \/ fetch' = [fetch EXCEPT !.pc = "reread", !.lost = Lost(fetch.layer)]
    BY <1>13 DEF SettlePending
  <2>2. CASE fetch' = fetch
    BY <2>2 DEF Restores
  <2>3. CASE fetch' = [fetch EXCEPT !.pc = "reread", !.lost = Lost(fetch.layer)]
    BY <1>0, <2>3 DEF FetchRec, Restores
  <2> QED BY <2>1, <2>2, <2>3
<1>14. CASE RereadAny \/ RereadReturns \/ FetchShort \/ \E e \in Expert : ServeFails(e)
  BY <1>14, FailedCounts DEF RereadAny, Reread, RereadReturns
<1> QED BY <1>1, <1>2, <1>3, <1>4, <1>5, <1>6, <1>7, <1>8, <1>9, <1>10, <1>11, <1>12, <1>13, <1>14, Zenon
        DEF Next, FetchSteps, ServeAny

\* A slot that is read belongs to the expert that is read, in the file's layout.
ReadsHeld ==
    \A d \in disk :
        /\ d.l \in Layer /\ d.s \in Slot /\ d.e \in Expert /\ d.cold \in BOOLEAN
        /\ ram[d.l][d.s].expert = d.e /\ ~ram[d.l][d.s].soa
        /\ \/ ~ram[d.l][d.s].valid /\ InHost(d.l, d.s)
           \/ ram[d.l][d.s].valid /\ fetch.pc = "batch"
        /\ AsFlag(d.cold, ram[d.l][d.s].cold)

LEMMA AllReadsHeld ==
    ASSUME Types, Slots, Phases, Claims, DiskReads, ColdKnown, Restores
    PROVE  ReadsHeld
<1> SUFFICES ASSUME NEW d \in disk
             PROVE  /\ d.l \in Layer /\ d.s \in Slot /\ d.e \in Expert /\ d.cold \in BOOLEAN
                    /\ ram[d.l][d.s].expert = d.e /\ ~ram[d.l][d.s].soa
                    /\ \/ ~ram[d.l][d.s].valid /\ InHost(d.l, d.s)
                       \/ ram[d.l][d.s].valid /\ fetch.pc = "batch"
                    /\ AsFlag(d.cold, ram[d.l][d.s].cold)
  BY DEF ReadsHeld
<1>1. /\ d.l \in Layer /\ d.s \in Slot /\ d.e \in Expert /\ d.cold \in BOOLEAN
      /\ ram[d.l][d.s].expert = d.e /\ ~ram[d.l][d.s].soa
      /\ \/ ~ram[d.l][d.s].valid /\ InHost(d.l, d.s)
         \/ BatchRead(d)
  BY ReadSlots
<1>2. ram[d.l][d.s].cold \in BOOLEAN
  BY <1>1 DEF Types, TypeOK, RamSlot
<1>3. AsFlag(d.cold, ram[d.l][d.s].cold)
  <2>1. CASE SpecRead(d)
    BY <2>1 DEF SpecRead, AsFlag
  <2>2. CASE ClaimRead(d)
    <3>1. <<d.e, d.s, d.cold>> \in fetch.claims /\ d.l = fetch.layer
      BY <2>2 DEF ClaimRead
    <3>2. ram[fetch.layer][d.s].cold = d.cold
      BY <3>1 DEF Claims, ClaimFlags
    <3> QED BY <3>1, <3>2 DEF AsFlag
  <2>3. CASE NextRead(d)
    <3>1. ~d.cold /\ "restore" \in Prompting
      BY <2>3 DEF NextRead, Restores
    <3>2. ram[d.l][d.s].cold => HasCold
      BY <1>1 DEF ColdKnown
    <3>3. d.cold = FALSE
      BY <1>1, <3>1
    <3> QED BY <1>2, <3>1, <3>2, <3>3 DEF AsFlag
  <2>4. CASE BatchRead(d)
    BY <1>1, <1>2, <2>4 DEF BatchRead, AsFlag
  <2> QED BY <2>1, <2>2, <2>3, <2>4 DEF DiskReads
<1> QED BY <1>1, <1>3 DEF BatchRead

-----------------------------------------------------------------------------
(* The contents of the two tiers, as long as no fetch has failed.           *)

\* A block holds the weights of its slot's expert, in the layout of its flag.
Right(k, x) ==
    \E c \in BOOLEAN : AsFlag(c, ram[k][x].cold)
                       /\ rbytes[k][x] = Bytes(ram[k][x].expert, c, ram[k][x].soa)
\* A resident block does, and one that the host will take for resident, unless it is still
\* read or the side queue has yet to bring it;
RamRight ==
    \A k \in Layer, x \in Slot :
        (ram[k][x].expert # None /\ ram[k][x].valid) \/ Due(k, x) =>
            Reading(k, x) \/ SideTo(k, x) \/ Right(k, x)
\* a VRAM slot holds its expert, unless an upload to it is queued;
UpTo(k, g) == \E i \in 1..Len(cq) : cq[i].op = "upload" /\ cq[i].l = k /\ cq[i].g = g
VramRight ==
    \A k \in Layer, g \in GSlot : vram[k][g] # None =>
        UpTo(k, g) \/ gbytes[k][g] = Bytes(vram[k][g], FALSE, TRUE)
\* what a queued copy takes is the victim's, of the swap it is for;
VictimRight ==
    \A i \in 1..Len(cq), j \in 1..Len(swaps) :
        \/ cq[i].op = "readback" /\ swaps[j].layer = cq[i].l /\ swaps[j].to = cq[i].s
        \/ cq[i].op = "stage" /\ swaps[j].ring = cq[i].r
        => gbytes[cq[i].l][cq[i].g] = Bytes(swaps[j].victim, FALSE, TRUE)
\* the victim of a pending swap is in its slot, or in its staging entry, or about to be
\* copied there;
BackTo(k, x) == \E i \in 1..Len(cq) : cq[i].op = "readback" /\ cq[i].l = k /\ cq[i].s = x
StageTo(r) == \E i \in 1..Len(cq) : cq[i].op = "stage" /\ cq[i].r = r
Backed(w) ==
    /\ w.to # None /\ w.ring = None =>
          BackTo(w.layer, w.to) \/ rbytes[w.layer][w.to] = Bytes(w.victim, FALSE, TRUE)
    /\ w.ring # None => StageTo(w.ring) \/ sbytes[w.ring] = Bytes(w.victim, FALSE, TRUE)
BackRight == \A j \in 1..Len(swaps) : Backed(swaps[j])
\* and a staging entry of the side queue holds what the slot is for.
SideRight ==
    \A i \in 1..Len(sideq) :
        sbytes[sideq[i].r] = Bytes(ram[sideq[i].l][sideq[i].s].expert, FALSE, TRUE)

LEMMA RingsAlways == Spec => []RingOK
<1>1. Init => RingOK
  BY DEF Init, RingOK
<1> QED BY <1>1, StepRings, TypesAlways, PTL DEF Spec

LEMMA RestoresAlways == Spec => [](failed = 0 => ColdKnown /\ Restores)
<1> DEFINE Inv == failed = 0 => ColdKnown /\ Restores
<1>1. Init => Inv
  <2> SUFFICES ASSUME Init PROVE ColdKnown /\ Restores
    OBVIOUS
  <2>1. \A k \in Layer, x \in Slot : ~ram[k][x].cold
    BY DEF Init, Empty
  <2>2. ~fetch.restore /\ fetch.next = None /\ fetch.pc = "idle"
    BY DEF Init, NoFetch
  <2> QED BY <2>1, <2>2 DEF ColdKnown, Restores
<1>2. /\ Inv /\ [Next]_vars /\ Types /\ Types' /\ Maps /\ Maps' /\ Slots /\ Phases /\ (failed = 0 => Claims)
      => Inv'
  <2> SUFFICES ASSUME Inv, [Next]_vars, Types, Types', Maps, Maps', Slots, Phases, failed = 0 => Claims,
                      failed' = 0
               PROVE  ColdKnown' /\ Restores'
    OBVIOUS
  <2>1. failed = 0
    BY FailedStays
  <2>2. ColdKnown' /\ fetch.pc # "reread"
    BY <2>1, StepCold DEF Claims
  <2>3. Restores'
    BY <2>1, <2>2, StepRestores
  <2> QED BY <2>2, <2>3
<1> QED BY <1>1, <1>2, TypesAlways, MapsAlways, SlotsAlways, PhasesAlways, ClaimsAlways, PTL DEF Spec

LEMMA ReadsHeldAlways == Spec => [](failed = 0 => ReadsHeld)
<1>1. /\ Types /\ Slots /\ Phases /\ (failed = 0 => Claims) /\ (failed = 0 => DiskReads /\ Counts)
      /\ (failed = 0 => ColdKnown /\ Restores)
      => (failed = 0 => ReadsHeld)
  BY AllReadsHeld
<1> QED BY <1>1, TypesAlways, SlotsAlways, PhasesAlways, ClaimsAlways, ReadsAlways, RestoresAlways, PTL

\* Without restores of an exclusive tier there is nothing to restore to.
LEMMA OwnAlways ==
    ASSUME ~Exclusive \/ "restore" \notin Prompting
    PROVE  Spec => [](failed = 0 => RestoresOwn)
<1>1. ColdKnown /\ Restores => RestoresOwn
  BY DEF Restores, RestoresOwn
<1> QED BY <1>1, RestoresAlways, PTL

-----------------------------------------------------------------------------
\* What the host leaves to the device, the drive and the side queue.
LEMMA HostLeaves ==
    ASSUME [Next]_vars, ~FinishSwap, ~ComputeStep, ~SideStep, ~DiskAny
    PROVE  disk \subseteq disk' /\ sideq' = sideq /\ sbytes' = sbytes
<1>1. CASE FetchStartAny \/ WarmAny \/ BatchAny
  <2>1. CASE FetchStartAny
    BY <2>1 DEF FetchStartAny, FetchStart, device
  <2>2. CASE WarmAny
    BY <2>2 DEF WarmAny, Warm
  <2>3. CASE BatchAny
    BY <2>3 DEF BatchAny, FetchBatch
  <2> QED BY <1>1, <2>1, <2>2, <2>3
<1>2. CASE PrefetchAny \/ RestoreAny \/ FetchSubmit \/ RereadAny
  <2>1. CASE PrefetchAny
    BY <2>1 DEF PrefetchAny, PrefetchBegin, Reads
  <2>2. CASE RestoreAny
    BY <2>2 DEF RestoreAny, PrefetchStart, Reads
  <2>3. CASE FetchSubmit
    BY <2>3 DEF FetchSubmit, Reads
  <2>4. CASE RereadAny
    BY <2>4 DEF RereadAny, Reread, Reads
  <2> QED BY <1>2, <2>1, <2>2, <2>3, <2>4
<1>3. CASE ServePromoteAny \/ RefillAny
  BY <1>3 DEF ServePromoteAny, ServePromote, RefillAny, Refill
<1>4. CASE ServeAny \/ ServeMissAny \/ SettlePending \/ RereadReturns
           \/ FetchEnd \/ FetchShort \/ SettleLayerDone \/ BatchDone \/ PrefetchFinish \/ RestoreEnds
  BY <1>4 DEF ServeAny, ServeVram, ServeClaimed, ServeRam, ServeUpgrade, ServeFails, ServeMissAny,
              ServeMiss, SettlePending, RereadReturns,
              FetchEnd, FetchShort, SettleLayerDone, BatchDone, PrefetchFinish, RestoreEnds, device
<1>5. CASE PrefetchReap \/ LendAny \/ RefillDone \/ RestoreBegin \/ SettleLayer \/ SettleFullDone
           \/ UNCHANGED vars
  BY <1>5 DEF PrefetchReap, LendAny, LendBegin, LendEnd, RefillDone, RestoreBegin, SettleLayer, SettleFullDone,
              device, vars
<1> QED BY <1>1, <1>2, <1>3, <1>4, <1>5 DEF Next, FetchSteps

\* What is on the device changes by its own steps, and when a tier is lent.
LEMMA HostTier ==
    ASSUME Types, [Next]_vars, ~FinishSwap, ~ComputeStep, ~ServePromoteAny, ~RefillAny
    PROVE  /\ swaps' = swaps
           /\ \/ gbytes' = gbytes /\ (fetch.pc = "settle" => vram' = vram)
              \/ /\ fetch.pc = "settle"
                 /\ \A k \in Layer, g \in GSlot :
                       (gbytes'[k][g] = gbytes[k][g] /\ vram'[k][g] = vram[k][g]) \/ vram'[k][g] = None
<1>1. CASE FetchStartAny \/ WarmAny \/ BatchAny \/ PrefetchAny \/ RestoreAny
  <2>1. CASE FetchStartAny
    BY <2>1 DEF FetchStartAny, FetchStart, device
  <2>2. CASE WarmAny
    BY <2>2 DEF WarmAny, Warm
  <2>3. CASE BatchAny
    BY <2>3 DEF BatchAny, FetchBatch
  <2>4. CASE PrefetchAny
    BY <2>4 DEF PrefetchAny, PrefetchBegin
  <2>5. CASE RestoreAny
    BY <2>5 DEF RestoreAny, PrefetchStart
  <2> QED BY <1>1, <2>1, <2>2, <2>3, <2>4, <2>5
<1>2. CASE FetchSubmit \/ RereadAny
  BY <1>2 DEF FetchSubmit, RereadAny, Reread, tables
<1>3. CASE ServeAny \/ ServeMissAny
  BY <1>3 DEF ServeAny, ServeVram, ServeClaimed, ServeRam, ServeUpgrade, ServeFails, ServeMissAny,
              ServeMiss, Serving, device
<1>4. CASE SettlePending \/ RereadReturns
           \/ FetchEnd \/ FetchShort \/ SettleLayerDone \/ BatchDone \/ PrefetchFinish \/ RestoreEnds
  BY <1>4 DEF SettlePending, RereadReturns, tables,
              FetchEnd, FetchShort, SettleLayerDone, BatchDone, PrefetchFinish, RestoreEnds, device
<1>5. CASE PrefetchReap \/ LendAny \/ RefillDone \/ RestoreBegin \/ SettleLayer \/ SideStep \/ DiskAny
           \/ UNCHANGED vars
  BY <1>5 DEF PrefetchReap, LendAny, LendBegin, LendEnd, RefillDone, RestoreBegin, SettleLayer, SideStep, DiskAny,
              DiskLand, device, hostv, tables, vars
<1>6. CASE SettleFullDone
  <2>1. swaps' = swaps /\ fetch.pc = "settle"
    BY <1>6 DEF SettleFullDone
  <2>2. CASE fetch.lend = None
    BY <1>6, <2>1, <2>2 DEF SettleFullDone
  <2>3. CASE fetch.lend # None
    <3>1. /\ vram' = [vram EXCEPT ![fetch.lend] = [g \in GSlot |-> None]]
          /\ gbytes' = [gbytes EXCEPT ![fetch.lend] = [g \in GSlot |-> Garbage]]
      BY <1>6, <2>3 DEF SettleFullDone
    <3>2. vram \in [Layer -> [GSlot -> Expert \cup {None}]] /\ gbytes \in [Layer -> [GSlot -> AllBytes]]
      BY DEF Types, TypeOK
    <3>3. \A k \in Layer, g \in GSlot :
             (gbytes'[k][g] = gbytes[k][g] /\ vram'[k][g] = vram[k][g]) \/ vram'[k][g] = None
      <4> TAKE k \in Layer, g \in GSlot
      <4>1. CASE k = fetch.lend
        BY <3>1, <3>2, <4>1
      <4>2. CASE k # fetch.lend
        BY <3>1, <3>2, <4>2
      <4> QED BY <4>1, <4>2
    <3> QED BY <2>1, <3>3
  <2> QED BY <2>2, <2>3
<1> QED BY <1>1, <1>2, <1>3, <1>4, <1>5, <1>6 DEF Next, FetchSteps

-----------------------------------------------------------------------------
\* The steps of the host but the settle of a swap.
Hosted == ~FinishSwap /\ ~ComputeStep /\ ~SideStep /\ ~DiskAny

LEMMA HostRamRight ==
    ASSUME Types, Types', Maps, Maps', Slots, Phases, Claims, Sides, Apart, RamRight,
           failed = 0, failed' = 0, [Next]_vars, Hosted
    PROVE  RamRight'
<1> USE DEF Hosted
<1> SUFFICES ASSUME NEW k \in Layer, NEW x \in Slot,
                    (ram'[k][x].expert # None /\ ram'[k][x].valid) \/ Due(k, x)', ~Reading(k, x)'
             PROVE  SideTo(k, x)' \/ Right(k, x)'
  BY DEF RamRight
<1>1. disk \subseteq disk' /\ sideq' = sideq
  BY HostLeaves
<1>2. ~Reading(k, x) /\ (SideTo(k, x) => SideTo(k, x)')
  BY <1>1 DEF Reading, SideTo
<1>3. Due(k, x)' => Due(k, x)
  BY DueMoves
<1>4. ByteMove(k, x)
  BY HostBytes
<1>5. ram[k][x] \in RamSlot /\ ram'[k][x] \in RamSlot
  BY DEF Types, TypeOK
<1>6. (ram[k][x].expert # None /\ ram[k][x].valid) \/ Due(k, x) => SideTo(k, x) \/ Right(k, x)
  BY <1>2 DEF RamRight
<1>7. CASE (Kept(k, x) \/ Marked(k, x)) /\ rbytes'[k][x] = rbytes[k][x]
  <2>1. (ram[k][x].expert # None /\ ram[k][x].valid) \/ Due(k, x)
    BY <1>3, <1>7 DEF Kept, Marked, Due
  <2>2. Right(k, x) => Right(k, x)'
    BY <1>7 DEF Kept, Marked, Right
  <2> QED BY <1>2, <1>6, <2>1, <2>2
<1>8. CASE Filed(k, x)
  <2>1. ~SideTo(k, x)
    BY <1>8, LandedApart DEF Filed
  <2>2. Right(k, x)
    BY <1>6, <1>8, <2>1 DEF Filed
  <2>3. PICK c \in BOOLEAN : /\ AsFlag(c, ram[k][x].cold)
                             /\ rbytes[k][x] = Bytes(ram[k][x].expert, c, ram[k][x].soa)
    BY <2>2 DEF Right
  <2>4. ram[k][x].soa \in BOOLEAN /\ ram'[k][x].soa = FALSE
    BY <1>5, <1>8 DEF Filed, RamSlot
  <2>5. rbytes'[k][x] = Bytes(ram[k][x].expert, c, FALSE)
    <3>1. rbytes'[k][x] = FileLayout(Bytes(ram[k][x].expert, c, ram[k][x].soa), ram[k][x].soa)
      BY <1>8, <2>3 DEF Filed
    <3>2. CASE ram[k][x].soa = TRUE
      BY <3>1, <3>2 DEF FileLayout, Bytes
    <3>3. CASE ram[k][x].soa = FALSE
      BY <3>1, <3>3 DEF FileLayout
    <3> QED BY <2>4, <3>2, <3>3
  <2>6. Right(k, x)'
    BY <1>8, <2>3, <2>4, <2>5 DEF Filed, Right
  <2> QED BY <2>6
<1>9. CASE Copied(k, x)
  <2>1. rbytes'[k][x] = Bytes(ram'[k][x].expert, FALSE, ram'[k][x].soa) /\ ram'[k][x].cold = FALSE
    BY <1>5, <1>9 DEF Copied, RamSlot
  <2>2. Right(k, x)'
    BY <2>1 DEF Right, AsFlag
  <2> QED BY <2>2
<1>10. CASE ~ram'[k][x].valid /\ ~Claimed(k, x)
  <2>1. Due(k, x)
    BY <1>3, <1>10
  <2> QED BY <1>10, <2>1, DueHeld
<1> QED BY <1>4, <1>7, <1>8, <1>9, <1>10 DEF ByteMove

\* The queue keeps its operations, and gets no copy but a promotion's.
LEMMA HostQueue ==
    ASSUME Types, Types', HostHolds, Phases, QueueEmpty, [Next]_vars, Hosted, ~ServePromoteAny, ~RefillAny
    PROVE  /\ \A i \in 1..Len(cq) : i \in 1..Len(cq') /\ cq'[i] = cq[i]
           /\ \A i \in 1..Len(cq') : (i \in 1..Len(cq) /\ cq'[i] = cq[i]) \/ cq'[i].op = "use"
<1>1. Shift(0)
  <2>1. PICK o \in {0, 1} : Shift(o)
    BY QueueShift
  <2>2. o = 0
    BY <2>1 DEF Shift, Hosted
  <2> QED BY <2>1, <2>2
<1>2. Len(cq) \in Nat /\ Len(cq') \in Nat
  BY DEF Types, QueuesOK
<1>3. \A i \in 1..Len(cq') : (i \in 1..Len(cq) /\ cq'[i] = cq[i]) \/ cq'[i].op = "use"
  <2> SUFFICES ASSUME NEW i \in 1..Len(cq') PROVE (i \in 1..Len(cq) /\ cq'[i] = cq[i]) \/ cq'[i].op = "use"
    OBVIOUS
  <2>1. CASE i + 0 \in 1..Len(cq) /\ cq'[i] = cq[i + 0]
    BY <1>2, <2>1
  <2>2. CASE Launch(cq'[i])
    BY <2>2 DEF Launch, Use, Op
  <2> QED BY <1>1, <2>1, <2>2 DEF Shift
<1>4. Len(cq) <= Len(cq')
  <2>1. CASE FetchSubmit \/ BatchDone
    <3>1. cq' = cq \/ \E u : cq' = Append(cq, u)
      BY <2>1 DEF FetchSubmit, BatchDone
    <3>2. cq \in Seq(CqOp)
      BY DEF Types, QueuesOK
    <3> QED BY <1>2, <3>1, <3>2
  <2>2. CASE Len(cq') + 0 = Len(cq)
    BY <1>2, <2>2
  <2> QED BY <1>1, <2>1, <2>2 DEF Shift
<1>5. \A i \in 1..Len(cq) : i \in 1..Len(cq') /\ cq'[i] = cq[i]
  <2> SUFFICES ASSUME NEW i \in 1..Len(cq) PROVE i \in 1..Len(cq') /\ cq'[i] = cq[i]
    OBVIOUS
  <2>1. i \in 1..Len(cq')
    BY <1>2, <1>4
  <2>2. i + 0 \in 1..Len(cq) /\ i + 0 = i
    BY <1>2
  <2> QED BY <1>1, <2>1, <2>2 DEF Shift
<1> QED BY <1>3, <1>5

LEMMA HostVramRight ==
    ASSUME Types, Types', Maps, HostHolds, Phases, QueueEmpty, Apart, VramRight, [Next]_vars, Hosted
    PROVE  VramRight'
<1> SUFFICES ASSUME NEW k \in Layer, NEW h \in GSlot, vram'[k][h] # None
             PROVE  UpTo(k, h)' \/ gbytes'[k][h] = Bytes(vram'[k][h], FALSE, TRUE)
  BY DEF VramRight
<1>1. CASE ServePromoteAny \/ RefillAny
  <2>1. PICK l \in Layer, e \in Expert, s \in Slot, g \in GSlot, pick \in Slot \cup {None}, r \in Ring \cup {None} :
           Promotion(l, e, s, g, pick, r)
    BY <1>1, PromotionStep
  <2>2. Adds(l, s, g, pick, r) /\ Fills(l, e, g) /\ gbytes' = gbytes
    BY <2>1, PromotionAdds, PromotionFacts DEF Promotion
  <2>3. Len(cq) \in Nat /\ Len(cq') \in Nat
    BY DEF Types, QueuesOK
  <2>4. CASE k = l /\ h = g
    <3>1. Len(cq') \in 1..Len(cq') /\ Len(cq') \notin 1..Len(cq)
      BY <2>2, <2>3 DEF Adds
    <3>2. cq'[Len(cq')] = Upload(l, s, g, ram'[l][s].soa)
      BY <2>2, <2>3, <3>1 DEF Adds
    <3>3. cq'[Len(cq')].op = "upload" /\ cq'[Len(cq')].l = l /\ cq'[Len(cq')].g = g
      BY <3>2 DEF Upload, Op
    <3> QED BY <2>4, <3>1, <3>3 DEF UpTo
  <2>5. CASE ~(k = l /\ h = g)
    <3>1. vram'[k][h] = vram[k][h]
      BY <2>2, <2>5 DEF Fills
    <3>2. UpTo(k, h) => UpTo(k, h)'
      BY <2>2 DEF Adds, UpTo
    <3> QED BY <2>2, <3>1, <3>2 DEF VramRight
  <2> QED BY <2>4, <2>5
<1>2. CASE ~ServePromoteAny /\ ~RefillAny
  <2>1. UpTo(k, h) => UpTo(k, h)'
    BY <1>2, HostQueue DEF UpTo
  <2>2. /\ swaps' = swaps
        /\ \/ gbytes' = gbytes /\ (fetch.pc = "settle" => vram' = vram)
           \/ /\ fetch.pc = "settle"
              /\ (gbytes'[k][h] = gbytes[k][h] /\ vram'[k][h] = vram[k][h]) \/ vram'[k][h] = None
    BY <1>2, HostTier DEF Hosted
  <2>3. vram' = vram \/ fetch.pc = "settle"
    BY <1>2, TierMoves
  <2> QED BY <2>1, <2>2, <2>3 DEF VramRight
<1> QED BY <1>1, <1>2

LEMMA HostSideRight ==
    ASSUME Types, Types', Maps, Maps', Slots, Phases, Claims, Sides, SideRight,
           failed = 0, failed' = 0, [Next]_vars, Hosted
    PROVE  SideRight'
<1>1. sideq' = sideq /\ sbytes' = sbytes
  BY HostLeaves DEF Hosted
<1> SUFFICES ASSUME NEW i \in 1..Len(sideq)
             PROVE  sbytes[sideq[i].r] = Bytes(ram'[sideq[i].l][sideq[i].s].expert, FALSE, TRUE)
  BY <1>1 DEF SideRight
<1>2. sideq[i].l \in Layer /\ sideq[i].s \in Slot
  <2>1. sideq \in Seq(SideOp)
    BY DEF Types, QueuesOK
  <2>2. sideq[i] \in SideOp
    BY <2>1
  <2> QED BY <2>2 DEF SideOp
<1>3. SideTo(sideq[i].l, sideq[i].s)
  BY DEF SideTo
<1>4. ram[sideq[i].l][sideq[i].s].valid
  BY DEF Sides, SideHeld
<1>5. Kept(sideq[i].l, sideq[i].s)
  <2>1. RamMove(sideq[i].l, sideq[i].s)
    BY <1>2, StepMoves DEF Hosted
  <2>2. ~AtLanded(sideq[i].l)
    BY <1>2, <1>3, LandedApart
  <2> QED BY <1>4, <2>1, <2>2 DEF RamMove, Marked
<1> QED BY <1>5 DEF Kept, SideRight

\* What a queued copy takes: a promotion's victim is in its slot, which nothing is being
\* uploaded to.
LEMMA HostVictimRight ==
    ASSUME Types, Types', Maps, Slots, Phases, QueueEmpty, QueueHeld, Apart, Ops, RingOK, VramRight, VictimRight,
           [Next]_vars, Hosted
    PROVE  VictimRight'
<1> SUFFICES ASSUME NEW i \in 1..Len(cq'), NEW j \in 1..Len(swaps'),
                    \/ cq'[i].op = "readback" /\ swaps'[j].layer = cq'[i].l /\ swaps'[j].to = cq'[i].s
                    \/ cq'[i].op = "stage" /\ swaps'[j].ring = cq'[i].r
             PROVE  gbytes'[cq'[i].l][cq'[i].g] = Bytes(swaps'[j].victim, FALSE, TRUE)
  BY DEF VictimRight
<1>0. Len(cq) \in Nat /\ Len(cq') \in Nat /\ Len(swaps) \in Nat /\ HostHolds
  BY DEF Types, TypeOK, QueuesOK, Slots
<1>1. CASE ServePromoteAny \/ RefillAny
  <2>1. PICK l \in Layer, e \in Expert, s \in Slot, g \in GSlot, pick \in Slot \cup {None}, r \in Ring \cup {None} :
           Promotion(l, e, s, g, pick, r)
    BY <1>1, PromotionStep
  <2>2. Adds(l, s, g, pick, r) /\ SwapsTo(l, g, pick, r) /\ gbytes' = gbytes
    BY <2>1, PromotionAdds DEF Promotion
  <2>3. CASE i \in 1..Len(cq)
    <3>1. cq'[i] = cq[i]
      BY <2>2, <2>3 DEF Adds
    <3>2. CASE j \in 1..Len(swaps)
      <4>1. swaps'[j] = swaps[j]
        BY <2>2, <3>2 DEF SwapsTo
      <4> QED BY <2>2, <2>3, <3>1, <3>2, <4>1 DEF VictimRight
    <3>3. CASE j \notin 1..Len(swaps)
      <4>1. swaps'[j].layer = l /\ swaps'[j].to = pick /\ swaps'[j].ring = r
        BY <2>2, <3>3 DEF SwapsTo
      <4>2. CASE cq[i].op = "readback"
        <5>1. swaps'[j].layer = cq[i].l /\ swaps'[j].to = cq[i].s
          BY <3>1, <4>2
        <5>2. PICK m \in 1..Len(swaps) : swaps[m].layer = cq[i].l /\ swaps[m].to = cq[i].s
          BY <2>3, <4>2 DEF QueueHeld
        <5>3. cq[i].s \in Slot
          BY <2>3, <4>2, OpFields
        <5>4. Claimed(l, pick) /\ pick \in Slot
          BY <4>1, <5>1, <5>2, <5>3, CacheConstants DEF Slots, SwapTo, Claimed
        <5> QED BY <2>2, <5>4, CacheConstants DEF SwapsTo
      <4>3. CASE cq[i].op = "stage"
        <5>1. PICK m \in 1..Len(swaps) : swaps[m].ring = cq[i].r
          BY <2>3, <4>3 DEF Ops, StageHeld
        <5>2. r = cq[i].r /\ r \in Ring
          BY <2>3, <3>1, <4>1, <4>3, OpFields
        <5>3. r \in ringBusy
          BY <5>1, <5>2, CacheConstants DEF RingOK
        <5> QED BY <2>2, <5>2, <5>3, CacheConstants DEF SwapsTo
      <4> QED BY <3>1, <4>2, <4>3
    <3> QED BY <3>2, <3>3
  <2>4. CASE i \notin 1..Len(cq)
    <3>1. /\ pick # None
          /\ \/ r # None /\ cq'[i] = Stage(l, g, r)
             \/ r = None /\ cq'[i] = ReadBack(l, g, pick)
      <4>1. cq'[i] # Upload(l, s, g, ram'[l][s].soa)
        BY DEF Upload, Op
      <4> QED BY <2>2, <2>4, <4>1 DEF Adds
    <3>2. cq'[i].l = l /\ cq'[i].g = g
      BY <3>1 DEF Stage, ReadBack, Op
    <3>3. j \notin 1..Len(swaps)
      <4>1. SUFFICES ASSUME j \in 1..Len(swaps) PROVE FALSE
        OBVIOUS
      <4>2. swaps'[j] = swaps[j] /\ pick \in Slot /\ ~Claimed(l, pick)
        BY <2>2, <3>1, <4>1 DEF SwapsTo
      <4>3. CASE r # None
        <5>1. cq'[i].op = "stage" /\ cq'[i].r = r
          BY <3>1, <4>3 DEF Stage, Op
        <5>2. swaps[j].ring = r
          BY <4>2, <5>1
        <5>3. r \in ringBusy
          BY <4>1, <4>3, <5>2 DEF RingOK
        <5> QED BY <2>2, <4>3, <5>3 DEF SwapsTo
      <4>4. CASE r = None
        <5>1. cq'[i].op = "readback" /\ cq'[i].s = pick
          BY <3>1, <4>4 DEF ReadBack, Op
        <5>2. swaps[j].layer = l /\ swaps[j].to = pick
          BY <3>2, <4>2, <5>1
        <5> QED BY <4>1, <4>2, <5>2, CacheConstants DEF Slots, SwapTo, Claimed
      <4> QED BY <4>3, <4>4
    <3>4. swaps'[j].victim = vram[l][g]
      BY <2>2, <3>3 DEF SwapsTo
    <3>5. vram[l][g] # None
      <4>1. pick \in (IF Exclusive /\ vram[l][g] # None THEN SwapTargets(l) ELSE {None})
        BY <2>1 DEF Promotion, Promote
      <4> QED BY <3>1, <4>1
    <3>6. ~UpTo(l, g)
      <4>1. <<l, g>> \notin gused
        BY <2>1, <3>5, PromotionFacts
      <4>2. SUFFICES ASSUME NEW m \in 1..Len(cq), cq[m].op = "upload", cq[m].l = l, cq[m].g = g PROVE FALSE
        BY DEF UpTo
      <4> QED BY <4>1, <4>2 DEF Ops, OpsHeld
    <3>7. gbytes[l][g] = Bytes(vram[l][g], FALSE, TRUE)
      BY <3>5, <3>6 DEF VramRight
    <3> QED BY <2>2, <3>2, <3>4, <3>7
  <2> QED BY <2>3, <2>4
<1>2. CASE ~ServePromoteAny /\ ~RefillAny
  <2>1. i \in 1..Len(cq) /\ cq'[i] = cq[i]
    BY <1>0, <1>2, HostQueue
  <2>2. swaps' = swaps /\ gbytes' = gbytes
    <3>1. cq # <<>>
      BY <2>1
    <3>2. fetch.pc # "settle"
      BY <3>1 DEF QueueEmpty, Quiet
    <3> QED BY <1>2, <3>2, HostTier DEF Hosted
  <2> QED BY <2>1, <2>2 DEF VictimRight
<1> QED BY <1>1, <1>2

\* The slot of a pending swap is not the host's to change.
LEMMA HostBackRight ==
    ASSUME Types, Types', Maps, Maps', Slots, Slots', Phases, Claims, QueueEmpty, Apart, BackRight, ReadsHeld',
           failed = 0, failed' = 0, [Next]_vars, Hosted
    PROVE  BackRight'
<1>0. Len(cq) \in Nat /\ Len(cq') \in Nat /\ Len(swaps) \in Nat /\ HostHolds
  BY DEF Types, TypeOK, QueuesOK, Slots
<1>1. sbytes' = sbytes
  BY HostLeaves DEF Hosted
<1>2. \A j \in 1..Len(swaps) : j \in 1..Len(swaps') /\ swaps'[j] = swaps[j] /\ swaps[j].to # None =>
          rbytes'[swaps[j].layer][swaps[j].to] = rbytes[swaps[j].layer][swaps[j].to]
  <2> SUFFICES ASSUME NEW j \in 1..Len(swaps), j \in 1..Len(swaps'), swaps'[j] = swaps[j], swaps[j].to # None
               PROVE  rbytes'[swaps[j].layer][swaps[j].to] = rbytes[swaps[j].layer][swaps[j].to]
    OBVIOUS
  <2>1. PICK k \in Layer, x \in Slot : k = swaps[j].layer /\ x = swaps[j].to
    BY SwapTypes
  <2>2. Claimed(k, x) /\ ~ram[k][x].valid
    BY <2>1, CacheConstants DEF Slots, SwapTo, Claimed
  <2>3. ~ram'[k][x].valid /\ ~InHost(k, x)'
    BY <2>1 DEF Slots, SwapTo
  <2>4. ~Reading(k, x)'
    BY <2>3 DEF ReadsHeld, Reading
  <2>5. ByteMove(k, x)
    BY HostBytes DEF Hosted
  <2> QED BY <2>1, <2>2, <2>3, <2>4, <2>5 DEF ByteMove, Filed, Copied
<1>3. \A i \in 1..Len(cq) : i \in 1..Len(cq') /\ cq'[i] = cq[i]
  <2>1. CASE ServePromoteAny \/ RefillAny
    <3>1. PICK l \in Layer, e \in Expert, s \in Slot, g \in GSlot, pick \in Slot \cup {None}, r \in Ring \cup {None} :
             Promotion(l, e, s, g, pick, r)
      BY <2>1, PromotionStep
    <3> QED BY <3>1, PromotionAdds DEF Adds
  <2>2. CASE ~ServePromoteAny /\ ~RefillAny
    BY <1>0, <2>2, HostQueue
  <2> QED BY <2>1, <2>2
<1>4. \A k, x : BackTo(k, x) => BackTo(k, x)'
  BY <1>3 DEF BackTo
<1>5. \A r : StageTo(r) => StageTo(r)'
  BY <1>3 DEF StageTo
<1> SUFFICES ASSUME NEW j \in 1..Len(swaps'), NEW w, w = swaps'[j] PROVE Backed(w)'
  BY DEF BackRight
<1>6. CASE j \in 1..Len(swaps) /\ swaps'[j] = swaps[j]
  <2>1. Backed(w) /\ w = swaps[j]
    BY <1>6 DEF BackRight
  <2>2. w.to # None => rbytes'[w.layer][w.to] = rbytes[w.layer][w.to]
    BY <1>2, <1>6, <2>1
  <2> QED BY <1>1, <1>4, <1>5, <2>1, <2>2 DEF Backed
<1>7. CASE ~(j \in 1..Len(swaps) /\ swaps'[j] = swaps[j])
  <2>1. ServePromoteAny \/ RefillAny
    <3>1. SUFFICES ASSUME ~ServePromoteAny, ~RefillAny PROVE FALSE
      OBVIOUS
    <3>2. swaps' = swaps
      BY <3>1, HostTier DEF Hosted
    <3> QED BY <1>7, <3>2
  <2>2. PICK l \in Layer, e \in Expert, s \in Slot, g \in GSlot, pick \in Slot \cup {None}, r \in Ring \cup {None} :
           Promotion(l, e, s, g, pick, r)
    BY <2>1, PromotionStep
  <2>3. Adds(l, s, g, pick, r) /\ SwapsTo(l, g, pick, r)
    BY <2>2, PromotionAdds
  <2>4. w.layer = l /\ w.to = pick /\ w.ring = r /\ (r # None => pick # None)
    BY <1>7, <2>3 DEF SwapsTo
  <2>5. CASE pick = None
    BY <2>4, <2>5 DEF Backed
  <2>6. CASE pick # None
    <3>1. Len(cq) + 1 \in 1..Len(cq') /\ Len(cq) + 1 \notin 1..Len(cq) /\ Len(cq) + 1 # Len(cq')
      BY <1>0, <2>3, <2>6 DEF Adds
    <3>2. \/ r # None /\ cq'[Len(cq) + 1] = Stage(l, g, r)
          \/ r = None /\ cq'[Len(cq) + 1] = ReadBack(l, g, pick)
      BY <2>3, <3>1 DEF Adds
    <3>3. CASE r # None
      <4>1. cq'[Len(cq) + 1].op = "stage" /\ cq'[Len(cq) + 1].r = r
        BY <3>2, <3>3 DEF Stage, Op
      <4>2. StageTo(r)'
        BY <3>1, <4>1 DEF StageTo
      <4> QED BY <2>4, <3>3, <4>2 DEF Backed
    <3>4. CASE r = None
      <4>1. cq'[Len(cq) + 1].op = "readback" /\ cq'[Len(cq) + 1].l = l /\ cq'[Len(cq) + 1].s = pick
        BY <3>2, <3>4 DEF ReadBack, Op
      <4>2. BackTo(l, pick)'
        BY <3>1, <4>1 DEF BackTo
      <4> QED BY <2>4, <3>4, <4>2 DEF Backed
    <3> QED BY <3>3, <3>4
  <2> QED BY <2>5, <2>6
<1> QED BY <1>6, <1>7

-----------------------------------------------------------------------------
\* The steps beside the host: the side queue,
BytesRight == RamRight /\ VramRight /\ VictimRight /\ BackRight /\ SideRight

LEMMA SideBytes ==
    ASSUME Types, Types', Slots, Sides, BytesRight, SideStep
    PROVE  BytesRight'
<1> DEFINE o == Head(sideq)
<1>1. /\ sideq # <<>> /\ sideq' = Tail(sideq) /\ rbytes' = [rbytes EXCEPT ![o.l][o.s] = sbytes[o.r]]
      /\ ram' = ram /\ vram' = vram /\ swaps' = swaps /\ pf' = pf /\ fetch' = fetch
      /\ disk' = disk /\ cq' = cq /\ gbytes' = gbytes /\ sbytes' = sbytes
  BY DEF SideStep, tables, hostv
<1>2. sideq \in Seq(SideOp)
  BY DEF Types, QueuesOK
<1>3. o = sideq[1] /\ 1 \in 1..Len(sideq) /\ o \in SideOp
  BY <1>1, <1>2
<1>4. o.l \in Layer /\ o.s \in Slot
  BY <1>3 DEF SideOp
<1>5. /\ \A i \in 1..Len(sideq) : i = 1 \/ (i - 1 \in 1..Len(sideq') /\ sideq'[i - 1] = sideq[i])
      /\ \A i \in 1..Len(sideq') : i + 1 \in 1..Len(sideq) /\ sideq'[i] = sideq[i + 1]
  BY <1>1, <1>2
<1> HIDE DEF o
<1>6. rbytes \in [Layer -> [Slot -> AllBytes]]
  BY DEF Types, TypeOK
<1>7. \A k \in Layer, x \in Slot :
         rbytes'[k][x] = IF k = o.l /\ x = o.s THEN sbytes[o.r] ELSE rbytes[k][x]
  BY <1>1, <1>4, <1>6
<1>8. sbytes[o.r] = Bytes(ram[o.l][o.s].expert, FALSE, TRUE) /\ ram[o.l][o.s].valid
      /\ ~ram[o.l][o.s].cold /\ ram[o.l][o.s].soa
  BY <1>3 DEF BytesRight, SideRight, Sides, SideHeld
<1>9. RamRight'
  <2> SUFFICES ASSUME NEW k \in Layer, NEW x \in Slot,
                      (ram[k][x].expert # None /\ ram[k][x].valid) \/ Due(k, x)'
               PROVE  Reading(k, x)' \/ SideTo(k, x)' \/ Right(k, x)'
    BY <1>1 DEF RamRight
  <2>1. (Due(k, x)' => Due(k, x)) /\ (Reading(k, x) => Reading(k, x)')
    BY <1>1 DEF Due, InPf, InNext, Submitted, Reading
  <2>2. CASE k = o.l /\ x = o.s
    <3>1. ram[k][x].soa = TRUE /\ ram[k][x].cold = FALSE
      BY <1>8, <2>2 DEF Types, TypeOK, RamSlot
    <3>2. Right(k, x)'
      BY <1>1, <1>7, <1>8, <2>2, <3>1 DEF Right, AsFlag
    <3> QED BY <3>2
  <2>3. CASE ~(k = o.l /\ x = o.s)
    <3>1. SideTo(k, x) => SideTo(k, x)'
      BY <1>3, <1>5, <2>3 DEF SideTo
    <3>2. Right(k, x) => Right(k, x)'
      BY <1>1, <1>7, <2>3 DEF Right
    <3> QED BY <2>1, <3>1, <3>2 DEF BytesRight, RamRight
  <2> QED BY <2>2, <2>3
<1>10. VramRight' /\ VictimRight'
  BY <1>1 DEF BytesRight, VramRight, VictimRight, UpTo
<1>11. BackRight'
  <2> SUFFICES ASSUME NEW j \in 1..Len(swaps), NEW w, w = swaps[j] PROVE Backed(w)'
    BY <1>1 DEF BackRight
  <2>1. w.to # None => rbytes'[w.layer][w.to] = rbytes[w.layer][w.to]
    <3> SUFFICES ASSUME w.to # None PROVE rbytes'[w.layer][w.to] = rbytes[w.layer][w.to]
      OBVIOUS
    <3>1. w.layer \in Layer /\ w.to \in Slot
      BY SwapTypes
    <3>2. ~ram[w.layer][w.to].valid
      BY <3>1 DEF Slots, SwapTo
    <3> QED BY <1>7, <1>8, <3>1, <3>2
  <2>2. Backed(w)
    BY DEF BytesRight, BackRight
  <2> QED BY <1>1, <2>1, <2>2 DEF Backed, BackTo, StageTo
<1>12. SideRight'
  BY <1>1, <1>5 DEF BytesRight, SideRight
<1> QED BY <1>9, <1>10, <1>11, <1>12 DEF BytesRight

\* and the drive.
LEMMA DiskBytes ==
    ASSUME Types, Types', Slots, BytesRight, ReadsHeld, DiskAny
    PROVE  BytesRight'
<1>1. PICK r \in disk : DiskLand(r)
  BY DEF DiskAny
<1>2. /\ disk' = disk \ {r} /\ rbytes' = [rbytes EXCEPT ![r.l][r.s] = Bytes(r.e, r.cold, FALSE)]
      /\ ram' = ram /\ vram' = vram /\ swaps' = swaps /\ pf' = pf /\ fetch' = fetch
      /\ cq' = cq /\ sideq' = sideq /\ gbytes' = gbytes /\ sbytes' = sbytes
  BY <1>1 DEF DiskLand, tables, hostv
<1>3. /\ r.l \in Layer /\ r.s \in Slot /\ r.cold \in BOOLEAN
      /\ ram[r.l][r.s].expert = r.e /\ ~ram[r.l][r.s].soa
      /\ ram[r.l][r.s].valid \/ InHost(r.l, r.s)
      /\ AsFlag(r.cold, ram[r.l][r.s].cold)
  BY <1>1 DEF ReadsHeld
<1>4. rbytes \in [Layer -> [Slot -> AllBytes]]
  BY DEF Types, TypeOK
<1>5. \A k \in Layer, x \in Slot :
         rbytes'[k][x] = IF k = r.l /\ x = r.s THEN Bytes(r.e, r.cold, FALSE) ELSE rbytes[k][x]
  BY <1>2, <1>3, <1>4
<1>6. RamRight'
  <2> SUFFICES ASSUME NEW k \in Layer, NEW x \in Slot,
                      (ram[k][x].expert # None /\ ram[k][x].valid) \/ Due(k, x)'
               PROVE  Reading(k, x)' \/ SideTo(k, x)' \/ Right(k, x)'
    BY <1>2 DEF RamRight
  <2>1. Due(k, x)' => Due(k, x)
    BY <1>2 DEF Due, InPf, InNext, Submitted
  <2>2. SideTo(k, x) => SideTo(k, x)'
    BY <1>2 DEF SideTo
  <2>3. CASE k = r.l /\ x = r.s
    <3>1. ram[k][x].soa = FALSE
      BY <1>3, <2>3 DEF Types, TypeOK, RamSlot
    <3>2. Right(k, x)'
      BY <1>2, <1>3, <1>5, <2>3, <3>1 DEF Right
    <3> QED BY <3>2
  <2>4. CASE ~(k = r.l /\ x = r.s)
    <3>1. Reading(k, x) => Reading(k, x)'
      BY <1>2, <2>4 DEF Reading
    <3>2. Right(k, x) => Right(k, x)'
      BY <1>2, <1>5, <2>4 DEF Right
    <3> QED BY <2>1, <2>2, <3>1, <3>2 DEF BytesRight, RamRight
  <2> QED BY <2>3, <2>4
<1>7. VramRight' /\ VictimRight' /\ SideRight'
  BY <1>2 DEF BytesRight, VramRight, VictimRight, UpTo, SideRight
<1>8. BackRight'
  <2> SUFFICES ASSUME NEW j \in 1..Len(swaps), NEW w, w = swaps[j] PROVE Backed(w)'
    BY <1>2 DEF BackRight
  <2>1. w.to # None => rbytes'[w.layer][w.to] = rbytes[w.layer][w.to]
    <3> SUFFICES ASSUME w.to # None PROVE rbytes'[w.layer][w.to] = rbytes[w.layer][w.to]
      OBVIOUS
    <3>1. w.layer \in Layer /\ w.to \in Slot
      BY SwapTypes
    <3>2. ~ram[w.layer][w.to].valid /\ ~InHost(w.layer, w.to)
      BY <3>1 DEF Slots, SwapTo
    <3> QED BY <1>3, <1>5, <3>1, <3>2
  <2>2. Backed(w)
    BY DEF BytesRight, BackRight
  <2> QED BY <1>2, <2>1, <2>2 DEF Backed, BackTo, StageTo
<1> QED BY <1>6, <1>7, <1>8 DEF BytesRight

\* The device: an upload brings a slot its expert,
LEMMA UploadBytes ==
    ASSUME Types, Types', QueueEmpty, QueueHeld, Ops, ReadsHeld, RamRight, cq # <<>>, cq[1].op = "upload"
    PROVE  Uploaded(rbytes[cq[1].l][cq[1].s], cq[1].raw) = Bytes(vram[cq[1].l][cq[1].g], FALSE, TRUE)
<1>1. 1 \in 1..Len(cq) /\ cq \in Seq(CqOp)
  BY DEF Types, QueuesOK
<1>2. PICK k \in Layer, x \in Slot : k = cq[1].l /\ x = cq[1].s
  BY <1>1, OpFields
<1>3. /\ ram[k][x].expert # None /\ ram[k][x].valid /\ ~ram[k][x].cold
      /\ ram[k][x].expert = vram[cq[1].l][cq[1].g] /\ ram[k][x].soa = cq[1].raw /\ ~SideTo(k, x)
  BY <1>1, <1>2 DEF QueueHeld, Ops, UploadHeld
<1>4. ~Reading(k, x)
  <2>1. fetch.pc # "batch"
    BY DEF QueueEmpty, Quiet
  <2> QED BY <1>3, <2>1 DEF ReadsHeld, Reading
<1>5. PICK c \in BOOLEAN : AsFlag(c, ram[k][x].cold) /\ rbytes[k][x] = Bytes(ram[k][x].expert, c, ram[k][x].soa)
  BY <1>3, <1>4 DEF RamRight, Right
<1>6. ram[k][x].soa \in BOOLEAN /\ ram[k][x].cold = FALSE
  BY <1>3 DEF Types, TypeOK, RamSlot
<1>7. c = FALSE
  BY <1>5, <1>6 DEF AsFlag
<1>8. CASE ram[k][x].soa = TRUE
  BY <1>2, <1>3, <1>5, <1>7, <1>8 DEF Uploaded
<1>9. CASE ram[k][x].soa = FALSE
  <2>1. Uploaded(Bytes(ram[k][x].expert, FALSE, FALSE), FALSE) = Bytes(ram[k][x].expert, FALSE, TRUE)
    BY DEF Uploaded, Bytes
  <2> QED BY <1>2, <1>3, <1>5, <1>7, <1>9, <2>1
<1> QED BY <1>6, <1>8, <1>9

\* a victim's copy takes what is there, before the upload that overwrites it.
LEMMA DeviceBytes ==
    ASSUME Types, Types', Slots, Phases, Claims, QueueEmpty, QueueHeld, Sides, RingOK, Ops, ReadsHeld, BytesRight,
           ComputeStep
    PROVE  BytesRight'
<1> DEFINE o == Head(cq)
<1>1. /\ cq # <<>> /\ cq' = Tail(cq)
      /\ ram' = ram /\ vram' = vram /\ swaps' = swaps /\ pf' = pf /\ fetch' = fetch
      /\ disk' = disk /\ sideq' = sideq
      /\ gbytes' = IF o.op = "upload" THEN [gbytes EXCEPT ![o.l][o.g] = Uploaded(rbytes[o.l][o.s], o.raw)]
                   ELSE gbytes
      /\ rbytes' = IF o.op = "readback" THEN [rbytes EXCEPT ![o.l][o.s] = gbytes[o.l][o.g]] ELSE rbytes
      /\ sbytes' = IF o.op = "stage" THEN [sbytes EXCEPT ![o.r] = gbytes[o.l][o.g]] ELSE sbytes
  BY DEF ComputeStep, tables, hostv
<1>2. cq \in Seq(CqOp) /\ Len(cq) \in Nat
  BY DEF Types, QueuesOK
<1>3. o = cq[1] /\ 1 \in 1..Len(cq)
  BY <1>1, <1>2
<1>4. /\ \A i \in 1..Len(cq) : i = 1 \/ (i - 1 \in 1..Len(cq') /\ cq'[i - 1] = cq[i])
      /\ \A i \in 1..Len(cq') : i + 1 \in 1..Len(cq) /\ cq'[i] = cq[i + 1]
  BY <1>1, <1>2
<1> HIDE DEF o
<1>5. /\ o.l \in Layer /\ o.op \in {"upload", "stage", "readback", "use"} /\ (o.op # "use" => o.g \in GSlot)
      /\ (o.op \in {"upload", "readback"} => o.s \in Slot) /\ (o.op = "stage" => o.r \in Ring)
  BY <1>3, OpFields
<1>6. /\ rbytes \in [Layer -> [Slot -> AllBytes]] /\ gbytes \in [Layer -> [GSlot -> AllBytes]]
      /\ sbytes \in [Ring -> AllBytes]
  BY DEF Types, TypeOK
<1>7. \A k \in Layer, h \in GSlot :
         gbytes'[k][h] = IF o.op = "upload" /\ k = o.l /\ h = o.g THEN Bytes(vram[k][h], FALSE, TRUE) ELSE gbytes[k][h]
  <2>1. CASE o.op = "upload"
    <3>1. Uploaded(rbytes[o.l][o.s], o.raw) = Bytes(vram[o.l][o.g], FALSE, TRUE)
      BY <1>1, <1>3, <2>1, UploadBytes DEF BytesRight
    <3> QED BY <1>1, <1>5, <1>6, <2>1, <3>1
  <2>2. CASE o.op # "upload"
    BY <1>1, <2>2
  <2> QED BY <2>1, <2>2
<1>8. \A k \in Layer, x \in Slot :
         rbytes'[k][x] = IF o.op = "readback" /\ k = o.l /\ x = o.s THEN gbytes[o.l][o.g] ELSE rbytes[k][x]
  BY <1>1, <1>5, <1>6
<1>9. \A r \in Ring : sbytes'[r] = IF o.op = "stage" /\ r = o.r THEN gbytes[o.l][o.g] ELSE sbytes[r]
  BY <1>1, <1>5, <1>6
<1>10. RamRight'
  <2> SUFFICES ASSUME NEW k \in Layer, NEW x \in Slot,
                      (ram[k][x].expert # None /\ ram[k][x].valid) \/ Due(k, x)'
               PROVE  Reading(k, x)' \/ SideTo(k, x)' \/ Right(k, x)'
    BY <1>1 DEF RamRight
  <2>1. /\ Due(k, x)' => Due(k, x)
        /\ Reading(k, x) => Reading(k, x)'
        /\ SideTo(k, x) => SideTo(k, x)'
    BY <1>1 DEF Due, InPf, InNext, Submitted, Reading, SideTo
  <2>2. ~(o.op = "readback" /\ k = o.l /\ x = o.s)
    <3> SUFFICES ASSUME o.op = "readback", k = o.l, x = o.s PROVE FALSE
      OBVIOUS
    <3>1. PICK j \in 1..Len(swaps) : swaps[j].layer = k /\ swaps[j].to = x
      BY <1>3 DEF QueueHeld
    <3>2. ~ram[k][x].valid /\ ~InHost(k, x)
      BY <3>1 DEF Slots, SwapTo
    <3> QED BY <2>1, <3>2, DueHeld
  <2>3. rbytes'[k][x] = rbytes[k][x]
    BY <1>8, <2>2
  <2>4. Right(k, x) => Right(k, x)'
    BY <1>1, <2>3 DEF Right
  <2> QED BY <2>1, <2>4 DEF BytesRight, RamRight
<1>11. VramRight'
  <2> SUFFICES ASSUME NEW k \in Layer, NEW h \in GSlot, vram[k][h] # None
               PROVE  UpTo(k, h)' \/ gbytes'[k][h] = Bytes(vram[k][h], FALSE, TRUE)
    BY <1>1 DEF VramRight
  <2>1. CASE o.op = "upload" /\ k = o.l /\ h = o.g
    BY <1>7, <2>1
  <2>2. CASE ~(o.op = "upload" /\ k = o.l /\ h = o.g)
    <3>1. UpTo(k, h) => UpTo(k, h)'
      BY <1>3, <1>4, <2>2 DEF UpTo
    <3> QED BY <1>7, <2>2, <3>1 DEF BytesRight, VramRight
  <2> QED BY <2>1, <2>2
<1>12. VictimRight'
  <2> SUFFICES ASSUME NEW i \in 1..Len(cq'), NEW j \in 1..Len(swaps'),
                      \/ cq'[i].op = "readback" /\ swaps'[j].layer = cq'[i].l /\ swaps'[j].to = cq'[i].s
                      \/ cq'[i].op = "stage" /\ swaps'[j].ring = cq'[i].r
               PROVE  gbytes'[cq'[i].l][cq'[i].g] = Bytes(swaps'[j].victim, FALSE, TRUE)
    BY DEF VictimRight
  <2>0. j \in 1..Len(swaps) /\ swaps'[j] = swaps[j]
    BY <1>1
  <2>1. i + 1 \in 1..Len(cq) /\ cq'[i] = cq[i + 1] /\ i \in Nat /\ i >= 1
    BY <1>4
  <2>2. gbytes[cq'[i].l][cq'[i].g] = Bytes(swaps[j].victim, FALSE, TRUE)
    BY <2>0, <2>1 DEF BytesRight, VictimRight
  <2>3. cq'[i].l \in Layer /\ cq'[i].g \in GSlot
    BY <2>1, OpFields
  <2>4. ~(o.op = "upload" /\ cq'[i].l = o.l /\ cq'[i].g = o.g)
    <3> SUFFICES ASSUME o.op = "upload", cq'[i].l = o.l, cq'[i].g = o.g PROVE FALSE
      OBVIOUS
    <3>1. cq[i + 1].op # "use" /\ cq[1].op = "upload" /\ cq[i + 1].l = cq[1].l /\ cq[i + 1].g = cq[1].g
      BY <1>3, <2>1
    <3>2. i + 1 <= 1
      BY <1>3, <2>1, <3>1 DEF Ops, OpsOrder
    <3> QED BY <2>1, <3>2
  <2> QED BY <1>7, <2>0, <2>2, <2>3, <2>4
<1>13. BackRight'
  <2> SUFFICES ASSUME NEW j \in 1..Len(swaps), NEW w, w = swaps[j] PROVE Backed(w)'
    BY <1>1 DEF BackRight
  <2>1. Backed(w)
    BY DEF BytesRight, BackRight
  <2>2. ASSUME w.to # None, w.ring = None
        PROVE  BackTo(w.layer, w.to)' \/ rbytes'[w.layer][w.to] = Bytes(w.victim, FALSE, TRUE)
    <3>1. w.layer \in Layer /\ w.to \in Slot
      BY <2>2, SwapTypes
    <3>2. CASE o.op = "readback" /\ w.layer = o.l /\ w.to = o.s
      <4>1. gbytes[o.l][o.g] = Bytes(w.victim, FALSE, TRUE)
        BY <1>3, <3>2 DEF BytesRight, VictimRight
      <4> QED BY <1>8, <3>1, <3>2, <4>1
    <3>3. CASE ~(o.op = "readback" /\ w.layer = o.l /\ w.to = o.s)
      <4>1. BackTo(w.layer, w.to) => BackTo(w.layer, w.to)'
        BY <1>3, <1>4, <3>3 DEF BackTo
      <4> QED BY <1>8, <2>1, <2>2, <3>1, <3>3, <4>1 DEF Backed
    <3> QED BY <3>2, <3>3
  <2>3. ASSUME w.ring # None
        PROVE  StageTo(w.ring)' \/ sbytes'[w.ring] = Bytes(w.victim, FALSE, TRUE)
    <3>1. w.ring \in Ring
      <4>1. swaps \in Seq(SwapRec)
        BY DEF Types, TypeOK
      <4>2. w \in SwapRec
        BY <4>1
      <4> QED BY <2>3, <4>2 DEF SwapRec
    <3>2. CASE o.op = "stage" /\ w.ring = o.r
      <4>1. gbytes[o.l][o.g] = Bytes(w.victim, FALSE, TRUE)
        BY <1>3, <3>2 DEF BytesRight, VictimRight
      <4> QED BY <1>9, <3>1, <3>2, <4>1
    <3>3. CASE ~(o.op = "stage" /\ w.ring = o.r)
      <4>1. StageTo(w.ring) => StageTo(w.ring)'
        BY <1>3, <1>4, <3>3 DEF StageTo
      <4> QED BY <1>9, <2>1, <2>3, <3>1, <3>3, <4>1 DEF Backed
    <3> QED BY <3>2, <3>3
  <2> QED BY <2>2, <2>3 DEF Backed
<1>14. SideRight'
  <2> SUFFICES ASSUME NEW i \in 1..Len(sideq)
               PROVE  sbytes'[sideq[i].r] = Bytes(ram[sideq[i].l][sideq[i].s].expert, FALSE, TRUE)
    BY <1>1 DEF SideRight
  <2>1. sideq[i].r \in Ring
    <3>1. sideq \in Seq(SideOp)
      BY DEF Types, QueuesOK
    <3>2. sideq[i] \in SideOp
      BY <3>1
    <3> QED BY <3>2 DEF SideOp
  <2>2. ~(o.op = "stage" /\ sideq[i].r = o.r)
    <3> SUFFICES ASSUME o.op = "stage", sideq[i].r = o.r PROVE FALSE
      OBVIOUS
    <3>1. PICK m \in 1..Len(landing) : landing[m].ring = sideq[i].r
      BY DEF Sides, SideHeld
    <3>2. PICK j \in 1..Len(swaps) : swaps[j].ring = o.r
      BY <1>3 DEF Ops, StageHeld
    <3> QED BY <3>1, <3>2 DEF RingOK
  <2> QED BY <1>9, <2>1, <2>2 DEF BytesRight, SideRight
<1> QED BY <1>10, <1>11, <1>12, <1>13, <1>14 DEF BytesRight

\* The settle of a swap: its victim has been copied.
LEMMA SwapBytes ==
    ASSUME Types, Types', Maps, Maps', Slots, Phases, Claims, QueueEmpty, Sides, BytesRight, FinishSwap
    PROVE  BytesRight'
<1>0. /\ swaps # <<>> /\ swaps \in Seq(SwapRec) /\ swaps' = Tail(swaps) /\ fetch.pc = "settle"
      /\ Sw.layer \in Layer /\ Sw.from \in Slot /\ Sw.to \in Slot \cup {None}
      /\ vram' = vram /\ fetch' = fetch /\ pf' = pf /\ (Held => Sw.to \in Slot)
  BY SwapHead
<1>1. disk' = disk /\ cq' = cq /\ rbytes' = rbytes /\ gbytes' = gbytes /\ sbytes' = sbytes
  BY DEF FinishSwap
<1>2. cq = <<>>
  BY <1>0 DEF QueueEmpty, Quiet
<1>3. 1 \in 1..Len(swaps) /\ Sw = swaps[1]
  BY <1>0 DEF Sw
<1>4. \A j \in 1..Len(swaps') : j + 1 \in 1..Len(swaps) /\ swaps'[j] = swaps[j + 1]
  BY <1>0
<1>5. /\ (Lands => Held) /\ (Held => Sw.to # None)
      /\ Sw.to # None => Claimed(Sw.layer, Sw.to) /\ ~InHost(Sw.layer, Sw.to)
      /\ ~Claimed(Sw.layer, Sw.from) /\ ~SideTo(Sw.layer, Sw.from)
  BY <1>3, SwapSlots DEF Lands, Held, Sides, SideApart
<1>6. /\ Sw.to # None /\ Sw.ring = None => rbytes[Sw.layer][Sw.to] = Bytes(Sw.victim, FALSE, TRUE)
      /\ Sw.ring # None => sbytes[Sw.ring] = Bytes(Sw.victim, FALSE, TRUE)
  <2>1. Backed(Sw)
    BY <1>3 DEF BytesRight, BackRight
  <2>2. \A k, x, r : ~BackTo(k, x) /\ ~StageTo(r)
    BY <1>2 DEF BackTo, StageTo
  <2> QED BY <2>1, <2>2 DEF Backed
<1>7. \A k \in Layer, x \in Slot :
         /\ Lands /\ k = Sw.layer /\ x = Sw.to =>
               ram'[k][x].expert = Sw.victim /\ ram'[k][x].valid /\ ~ram'[k][x].cold /\ ram'[k][x].soa
         /\ k = Sw.layer /\ ((Held /\ ~Lands /\ x = Sw.to) \/ (Away /\ x = Sw.from /\ ~(Lands /\ x = Sw.to))) =>
               ram'[k][x].expert = None
         /\ ~(k = Sw.layer /\ ((Held /\ x = Sw.to) \/ (Away /\ x = Sw.from))) => ram'[k][x] = ram[k][x]
  BY SwapEntry
<1> DEFINE o == [l |-> Sw.layer, r |-> Sw.ring, s |-> Sw.to]
<1>8. o.l = Sw.layer /\ o.s = Sw.to /\ o.r = Sw.ring
  OBVIOUS
<1>9. \/ ~(Lands /\ Sw.ring # None) /\ sideq' = sideq
      \/ Lands /\ Sw.ring # None /\ sideq' = Append(sideq, o)
  BY SwapSide, CacheConstants
<1> HIDE DEF o, Sw, Lands, Held, Away
<1>10. sideq \in Seq(SideOp) /\ Len(sideq) \in Nat
  BY DEF Types, QueuesOK
<1>11. /\ \A i \in 1..Len(sideq) : i \in 1..Len(sideq') /\ sideq'[i] = sideq[i]
       /\ \A i \in 1..Len(sideq') : \/ i \in 1..Len(sideq) /\ sideq'[i] = sideq[i]
                                    \/ Lands /\ Sw.ring # None /\ sideq'[i] = o
       /\ Lands /\ Sw.ring # None => \E i \in 1..Len(sideq') : sideq'[i] = o
  <2>1. CASE ~(Lands /\ Sw.ring # None) /\ sideq' = sideq
    BY <2>1
  <2>2. CASE Lands /\ Sw.ring # None /\ sideq' = Append(sideq, o)
    <3>1. Len(sideq') = Len(sideq) + 1 /\ sideq'[Len(sideq) + 1] = o /\ \A i \in 1..Len(sideq) : sideq'[i] = sideq[i]
      BY <1>10, <2>2
    <3> QED BY <1>10, <2>2, <3>1
  <2> QED BY <1>9, <2>1, <2>2
<1>12. RamRight'
  <2> SUFFICES ASSUME NEW k \in Layer, NEW x \in Slot,
                      (ram'[k][x].expert # None /\ ram'[k][x].valid) \/ Due(k, x)'
               PROVE  Reading(k, x)' \/ SideTo(k, x)' \/ Right(k, x)'
    BY DEF RamRight
  <2>1. /\ Due(k, x)' => Due(k, x)
        /\ Reading(k, x) => Reading(k, x)'
    BY <1>0, <1>1 DEF Due, InPf, InNext, Submitted, Reading
  <2>2. SideTo(k, x) => SideTo(k, x)'
    BY <1>11 DEF SideTo
  <2>3. CASE Lands /\ k = Sw.layer /\ x = Sw.to
    <3>1. CASE Sw.ring # None
      <4>1. PICK i \in 1..Len(sideq') : sideq'[i] = o
        BY <1>11, <2>3, <3>1
      <4>2. SideTo(k, x)'
        BY <1>8, <2>3, <4>1 DEF SideTo
      <4> QED BY <4>2
    <3>2. CASE Sw.ring = None
      <4>1. ram'[k][x].expert = Sw.victim /\ ram'[k][x].cold = FALSE /\ ram'[k][x].soa = TRUE
        <5>1. ram'[k][x] \in RamSlot
          BY DEF Types, TypeOK
        <5> QED BY <1>7, <2>3, <5>1 DEF RamSlot
      <4>2. rbytes'[k][x] = Bytes(Sw.victim, FALSE, TRUE)
        BY <1>1, <1>5, <1>6, <2>3, <3>2
      <4>3. Right(k, x)'
        BY <4>1, <4>2 DEF Right, AsFlag
      <4> QED BY <4>3
    <3> QED BY <3>1, <3>2
  <2>4. CASE k = Sw.layer /\ ((Held /\ ~Lands /\ x = Sw.to) \/ (Away /\ x = Sw.from /\ ~(Lands /\ x = Sw.to)))
    <3>1. Due(k, x)
      BY <1>7, <2>1, <2>4
    <3>2. Claimed(k, x) /\ InHost(k, x)
      BY <3>1, DueHeld
    <3> QED BY <1>5, <2>4, <3>2
  <2>5. CASE ~(k = Sw.layer /\ ((Held /\ x = Sw.to) \/ (Away /\ x = Sw.from)))
    <3>1. ram'[k][x] = ram[k][x]
      BY <1>7, <2>5
    <3>2. Right(k, x) => Right(k, x)'
      BY <1>1, <3>1 DEF Right
    <3> QED BY <2>1, <2>2, <3>1, <3>2 DEF BytesRight, RamRight
  <2> QED BY <1>5, <2>3, <2>4, <2>5
<1>13. VramRight' /\ VictimRight'
  <2>1. VramRight'
    BY <1>0, <1>1 DEF BytesRight, VramRight, UpTo
  <2>2. 1..Len(cq') = {}
    BY <1>1, <1>2
  <2>3. VictimRight'
    BY <2>2 DEF VictimRight
  <2> QED BY <2>1, <2>3
<1>14. BackRight'
  <2> SUFFICES ASSUME NEW j \in 1..Len(swaps'), NEW w, w = swaps'[j] PROVE Backed(w)'
    BY DEF BackRight
  <2>1. Backed(w)
    BY <1>4 DEF BytesRight, BackRight
  <2> QED BY <1>1, <2>1 DEF Backed, BackTo, StageTo
<1>15. SideRight'
  <2> SUFFICES ASSUME NEW i \in 1..Len(sideq')
               PROVE  sbytes[sideq'[i].r] = Bytes(ram'[sideq'[i].l][sideq'[i].s].expert, FALSE, TRUE)
    BY <1>1 DEF SideRight
  <2>1. CASE i \in 1..Len(sideq) /\ sideq'[i] = sideq[i]
    <3>1. sideq[i] \in SideOp
      BY <1>10, <2>1
    <3>2. PICK k \in Layer, x \in Slot : k = sideq[i].l /\ x = sideq[i].s
      BY <3>1 DEF SideOp
    <3>3. SideTo(k, x) /\ ram[k][x].valid
      BY <2>1, <3>2 DEF SideTo, Sides, SideHeld
    <3>4. ~(k = Sw.layer /\ ((Held /\ x = Sw.to) \/ (Away /\ x = Sw.from)))
      BY <1>5, <3>3 DEF Claimed
    <3>5. ram'[k][x] = ram[k][x]
      BY <1>7, <3>4
    <3> QED BY <2>1, <3>2, <3>5 DEF BytesRight, SideRight
  <2>2. CASE Lands /\ Sw.ring # None /\ sideq'[i] = o
    <3>1. ram'[Sw.layer][Sw.to].expert = Sw.victim
      BY <1>0, <1>5, <1>7, <2>2
    <3> QED BY <1>6, <1>8, <2>2, <3>1
  <2> QED BY <1>11, <2>1, <2>2
<1> QED BY <1>12, <1>13, <1>14, <1>15 DEF BytesRight

-----------------------------------------------------------------------------
(* The contents are right as long as no fetch has failed.                   *)

LEMMA StepBytes ==
    ASSUME Types, Types', Maps, Maps', Slots, Slots', Phases, Claims, QueueEmpty, QueueHeld, Sides, Apart, Ops, RingOK,
           ReadsHeld, ReadsHeld', BytesRight, failed = 0, failed' = 0, [Next]_vars
    PROVE  BytesRight'
<1>1. CASE FinishSwap
  BY <1>1, SwapBytes
<1>2. CASE ComputeStep
  BY <1>2, DeviceBytes
<1>3. CASE SideStep
  BY <1>3, SideBytes
<1>4. CASE DiskAny
  BY <1>4, DiskBytes
<1>5. CASE Hosted
  <2>1. HostHolds /\ RamRight /\ VramRight /\ VictimRight /\ BackRight /\ SideRight
    BY DEF Slots, BytesRight
  <2>2. RamRight'
    BY <1>5, <2>1, HostRamRight
  <2>3. VramRight'
    BY <1>5, <2>1, HostVramRight
  <2>4. VictimRight'
    BY <1>5, <2>1, HostVictimRight
  <2>5. BackRight'
    BY <1>5, <2>1, HostBackRight
  <2>6. SideRight'
    BY <1>5, <2>1, HostSideRight
  <2> QED BY <2>2, <2>3, <2>4, <2>5, <2>6 DEF BytesRight
<1> QED BY <1>1, <1>2, <1>3, <1>4, <1>5 DEF Hosted

LEMMA BytesAlways == Spec /\ [](failed = 0 => RestoresOwn) => [](failed = 0 => BytesRight)
<1> DEFINE Inv == failed = 0 => BytesRight
<1>1. Init => Inv
  <2> SUFFICES ASSUME Init PROVE BytesRight
    OBVIOUS
  <2>1. /\ cq = <<>> /\ swaps = <<>> /\ sideq = <<>> /\ pf = {} /\ fetch = NoFetch
        /\ \A k \in Layer, x \in Slot : ram[k][x].expert = None
        /\ \A k \in Layer, g \in GSlot : vram[k][g] = None
    BY DEF Init, Empty
  <2>2. fetch.next = None /\ fetch.claims = {}
    BY <2>1 DEF NoFetch
  <2>3. \A k \in Layer, x \in Slot : ~Due(k, x)
    BY <2>1, <2>2 DEF Due, InPf, InNext
  <2>4. RamRight /\ VramRight
    BY <2>1, <2>3 DEF RamRight, VramRight
  <2>5. 1..Len(cq) = {} /\ 1..Len(swaps) = {} /\ 1..Len(sideq) = {}
    BY <2>1
  <2>6. VictimRight /\ BackRight /\ SideRight
    BY <2>5 DEF VictimRight, BackRight, SideRight
  <2> QED BY <2>4, <2>6 DEF BytesRight
<1>2. /\ Inv /\ [Next]_vars /\ Types /\ Types' /\ Maps /\ Maps' /\ Slots /\ Slots' /\ Phases
      /\ RingOK /\ (failed = 0 => Claims) /\ (failed = 0 => Sides /\ QueueEmpty /\ QueueHeld)
      /\ (failed = 0 => Apart /\ GpuHandles /\ Ops)
      /\ (failed = 0 => ReadsHeld) /\ (failed = 0 => ReadsHeld)'
      => Inv'
  <2> SUFFICES ASSUME Inv, [Next]_vars, Types, Types', Maps, Maps', Slots, Slots', Phases, RingOK,
                      failed = 0 => Claims, failed = 0 => Sides /\ QueueEmpty /\ QueueHeld,
                      failed = 0 => Apart /\ GpuHandles /\ Ops,
                      failed = 0 => ReadsHeld, (failed = 0 => ReadsHeld)', failed' = 0
               PROVE  BytesRight'
    OBVIOUS
  <2>1. failed = 0
    BY FailedStays
  <2>2. ReadsHeld /\ ReadsHeld' /\ Claims /\ Sides /\ QueueEmpty /\ QueueHeld /\ Apart /\ Ops /\ BytesRight
    BY <2>1
  <2> QED BY <2>1, <2>2, StepBytes
<1> QED BY <1>1, <1>2, TypesAlways, MapsAlways, SlotsAlways, PhasesAlways, ClaimsAlways, QueuesAlways, OpsAlways,
           RingsAlways, ReadsHeldAlways, PTL DEF Spec

\* What the kernels read, and what the tables call resident.
LEMMA UsesRight ==
    ASSUME Types, Ops, VramRight
    PROVE  UseBytes
<1> SUFFICES ASSUME cq # <<>>, Head(cq).op = "use", NEW u \in Head(cq).uses
             PROVE  gbytes[Head(cq).l][u[1]] = Bytes(u[2], FALSE, TRUE)
  BY DEF UseBytes
<1>1. 1 \in 1..Len(cq) /\ Head(cq) = cq[1] /\ cq \in Seq(CqOp) /\ Len(cq) \in Nat
  BY DEF Types, QueuesOK
<1>2. /\ Len(cq) = 1 /\ u[1] \in GSlot /\ vram[cq[1].l][u[1]] = u[2]
  BY <1>1 DEF Ops, UsesHeld
<1>3. cq[1].l \in Layer
  BY <1>1, OpFields
<1>4. u[2] # None
  <2>1. cq[1] \in CqOp
    BY <1>1
  <2>2. cq[1].uses \subseteq (Slot \cup GSlot) \X Expert
    BY <2>1 DEF CqOp, CqRec
  <2>3. u[2] \in Expert
    BY <1>1, <2>2
  <2> QED BY <2>3, CacheConstants
<1>5. ~UpTo(cq[1].l, u[1])
  BY <1>1, <1>2 DEF UpTo
<1> QED BY <1>1, <1>2, <1>3, <1>4, <1>5 DEF VramRight

LEMMA ResidentsRight ==
    ASSUME Types, Maps, Sides, ReadsHeld, RamRight, ~HasCold \/ "restore" \notin Prompting
    PROVE  ResidentBytes
<1> SUFFICES ASSUME NEW l \in Layer, NEW e \in Expert, NEW s, s = map[l][e], s # None, ram[l][s].valid,
                    ~Landing(l, s), fetch.pc # "batch"
             PROVE  rbytes[l][s] = Bytes(e, ram[l][s].cold, ram[l][s].soa)
  BY DEF ResidentBytes
<1>1. s \in Slot /\ ram[l][s].expert = e /\ e # None
  BY CacheConstants DEF Types, TypeOK, Maps, RamMaps
<1>2. ~SideTo(l, s)
  BY DEF SideTo, Sides, SideHeld, Landing
<1>3. ~Reading(l, s)
  BY DEF Reading, ReadsHeld
<1>4. Right(l, s)
  BY <1>1, <1>2, <1>3 DEF RamRight
<1> QED BY <1>1, <1>4 DEF Right, AsFlag

-----------------------------------------------------------------------------
(* The handles of experts served from RAM.                                  *)

\* The slot holds the handle's expert, in the file's layout, at no less precision than the
\* handle says; it is valid, or claimed by the fetch, or taken over from a speculative read.
\* While the list is served it is protected, and the list does not name the expert again.
HandleHeld(h) ==
    LET r == ram[fetch.layer][h.slot]
    IN  /\ h.slot \in Slot /\ r.expert = h.e /\ ~r.soa /\ (r.cold => h.cold)
        /\ r.valid \/ (\E c \in fetch.claims : c[1] = h.e /\ c[2] = h.slot) \/ <<h.e, h.slot>> \in pend
        /\ h.ready => r.valid
        /\ fetch.pc = "batch" => r.valid /\ (h.ready => ~Reading(fetch.layer, h.slot))
        /\ fetch.pc = "serve" => h.slot \in live /\ \A i \in 1..Len(fetch.todo) : fetch.todo[i] # h.e
RamHandles == \A h \in handles : ~h.gpu => HandleHeld(h)

\* A slot keeps what it is for, and may become valid.
SlotStays(k, x) ==
    /\ ram'[k][x].expert = ram[k][x].expert
    /\ (ram'[k][x].soa => ram[k][x].soa) /\ (ram'[k][x].cold => ram[k][x].cold)
    /\ (ram[k][x].valid => ram'[k][x].valid)

LEMMA HeldStays ==
    ASSUME Types, NEW h \in handles, HandleHeld(h), fetch'.layer = fetch.layer, SlotStays(fetch.layer, h.slot),
           fetch.claims \subseteq fetch'.claims, pend \subseteq pend',
           fetch'.pc = "batch" => fetch.pc = "batch" /\ disk' \subseteq disk,
           fetch'.pc = "serve" =>
              /\ fetch.pc = "serve" /\ live \subseteq live'
              /\ \A i \in 1..Len(fetch'.todo) : \E j \in 1..Len(fetch.todo) : fetch'.todo[i] = fetch.todo[j]
    PROVE  HandleHeld(h)'
<1>1. ~ram'[fetch.layer][h.slot].soa /\ (ram'[fetch.layer][h.slot].cold => h.cold)
      /\ h.slot \in Slot /\ ram'[fetch.layer][h.slot].expert = h.e
  BY DEF SlotStays, HandleHeld
<1>2. /\ \/ ram'[fetch.layer][h.slot].valid \/ (\E c \in fetch'.claims : c[1] = h.e /\ c[2] = h.slot)
         \/ <<h.e, h.slot>> \in pend'
      /\ h.ready => ram'[fetch.layer][h.slot].valid
  BY DEF SlotStays, HandleHeld
<1>3. fetch'.pc = "batch" => /\ ram'[fetch.layer][h.slot].valid
                             /\ h.ready => ~\E d \in disk' : d.l = fetch.layer /\ d.s = h.slot
  BY DEF SlotStays, HandleHeld, Reading
<1>4. fetch'.pc = "serve" => h.slot \in live' /\ \A i \in 1..Len(fetch'.todo) : fetch'.todo[i] # h.e
  BY DEF HandleHeld
<1> QED BY <1>1, <1>2, <1>3, <1>4 DEF HandleHeld, Reading

\* The steps of others, and the reaping of speculative reads, leave them.
LEMMA OthersHold ==
    ASSUME Types, Types', HostHolds, Phases, WantedHeld, RamHandles,
           \/ PrefetchAny \/ PrefetchReap \/ ComputeStep \/ SideStep \/ DiskAny \/ FetchSubmit \/ UNCHANGED vars,
           fetch.pc \in HandlePc
    PROVE  RamHandles'
<1>0. fetch.layer \in Layer /\ fetch \in FetchRec
  BY DEF Types, FetchOK, HandlePc, AtLayer
<1>1. CASE PrefetchAny
  <2>1. PICK l \in Layer, e \in Expert, v \in Slot, cold \in BOOLEAN : PrefetchBegin(l, e, v, cold)
    BY <1>1 DEF PrefetchAny
  <2>2. PrefetchTakes(l, e, v, cold) /\ l # fetch.layer
    BY <2>1, PrefetchBegins DEF PrefetchBegin, MayPrefetch, HandlePc
  <2>3. /\ handles' = handles /\ fetch' = fetch /\ pend' = pend /\ live' = live
        /\ fetch.pc \notin {"batch", "serve"}
    BY <2>1 DEF PrefetchBegin, MayPrefetch
  <2>4. \A x \in Slot : ram'[fetch.layer][x] = Reaped[fetch.layer][x]
    BY <1>0, <2>2 DEF PrefetchTakes
  <2>5. \A x \in Slot : SlotStays(fetch.layer, x)
    BY <1>0, <2>4, ReapEntry DEF SlotStays
  <2>6. ASSUME NEW h \in handles', ~h.gpu PROVE HandleHeld(h)'
    <3>1. h \in handles /\ HandleHeld(h) /\ h.slot \in Slot
      BY <2>3, <2>6 DEF RamHandles, HandleHeld
    <3> QED BY <2>3, <2>5, <3>1, HeldStays
  <2> QED BY <2>6 DEF RamHandles
<1>2. CASE PrefetchReap
  <2>1. /\ handles' = handles /\ fetch' = fetch /\ pend' = pend /\ live' = live /\ ram' = Reaped
        /\ fetch.pc \notin {"batch", "serve"}
    BY <1>2 DEF PrefetchReap
  <2>2. \A x \in Slot : SlotStays(fetch.layer, x)
    BY <1>0, <2>1, ReapEntry DEF SlotStays
  <2>3. ASSUME NEW h \in handles', ~h.gpu PROVE HandleHeld(h)'
    <3>1. h \in handles /\ HandleHeld(h) /\ h.slot \in Slot
      BY <2>1, <2>3 DEF RamHandles, HandleHeld
    <3> QED BY <2>1, <2>2, <3>1, HeldStays
  <2> QED BY <2>3 DEF RamHandles
<1>3. CASE ComputeStep \/ SideStep \/ DiskAny \/ UNCHANGED vars
  <2>1. /\ handles' = handles /\ fetch' = fetch /\ pend' = pend /\ live' = live /\ ram' = ram
        /\ disk' \subseteq disk
    <3>1. CASE ComputeStep \/ SideStep \/ UNCHANGED vars
      BY <3>1 DEF ComputeStep, SideStep, vars, hostv, tables, device
    <3>2. CASE DiskAny
      BY <3>2 DEF DiskAny, DiskLand, hostv, tables
    <3> QED BY <1>3, <3>1, <3>2
  <2>2. \A x \in Slot : SlotStays(fetch.layer, x)
    BY <2>1 DEF SlotStays
  <2>3. ASSUME NEW h \in handles', ~h.gpu PROVE HandleHeld(h)'
    <3>1. h \in handles /\ HandleHeld(h) /\ h.slot \in Slot
      BY <2>1, <2>3 DEF RamHandles, HandleHeld
    <3> QED BY <2>1, <2>2, <3>1, HeldStays
  <2> QED BY <2>3 DEF RamHandles
<1>4. CASE FetchSubmit
  <2>1. handles' = handles /\ pend' = pend /\ ram' = ram
    BY <1>4 DEF FetchSubmit, tables
  <2>2. fetch'.pc = "begun" /\ fetch'.layer = fetch.layer /\ fetch'.claims = fetch.claims
    BY <1>4, SubmitMoves
  <2>3. \A x \in Slot : SlotStays(fetch.layer, x)
    BY <2>1 DEF SlotStays
  <2>4. ASSUME NEW h \in handles', ~h.gpu PROVE HandleHeld(h)'
    <3>1. h \in handles /\ HandleHeld(h) /\ h.slot \in Slot
      BY <2>1, <2>4 DEF RamHandles, HandleHeld
    <3> QED BY <2>1, <2>2, <2>3, <3>1, HeldStays
  <2> QED BY <2>4 DEF RamHandles
<1> QED BY <1>1, <1>2, <1>3, <1>4

\* When a fetch is waited for, what it served from RAM is there.
LEMMA EndHolds ==
    ASSUME Types, Types', HostHolds, Phases, Claims, RamHandles,
           SettlePending \/ (FetchEnd /\ ~fetch.deferred) \/ BatchDone
    PROVE  RamHandles'
<1>0. WantedHeld /\ ClaimFlags /\ ColdFile /\ MappedWanted /\ PendReads /\ fetch \in FetchRec /\ handles \subseteq HandleRec
  BY DEF Claims, Types, TypeOK, FetchOK
<1>1. CASE SettlePending
  <2>1. /\ fetch.pc = "begun" /\ ram' = Reaped /\ pend' = {}
        /\ \A p \in pend : ~Flying(<<fetch.layer, p[1], p[2]>>)
        /\ handles' = IF SkipMiss THEN ReadyFor({p[1] : p \in pend \ Lost(fetch.layer)}) ELSE handles
    BY <1>1 DEF SettlePending
  <2>2. fetch' = fetch /\ fetch.layer \in Layer
    BY <1>0, <1>1, <2>1, NoneLost, PendingMoves DEF Types, FetchOK, AtLayer
  <2>3. \A p \in pend : Reaped[fetch.layer][p[2]].valid /\ \A c \in fetch.claims : c[1] # p[1]
    BY <1>0, <1>1, <2>1, NoneLost DEF Lost, PendReads
  <2>4. ASSUME NEW h \in handles', ~h.gpu PROVE HandleHeld(h)'
    <3>1. \E o \in handles : SameHandle(h, o) /\ (h.ready => o.ready \/ \E p \in pend : o.e = p[1])
      <4>1. CASE handles' = handles
        BY <4>1 DEF SameHandle
      <4>2. CASE handles' # handles
        <5>1. h \in ReadyFor({p[1] : p \in pend \ Lost(fetch.layer)})
          BY <2>1, <4>2
        <5>2. PICK o \in handles : SameHandle(h, o) /\ h.ready = (o.ready \/ o.e \in {p[1] : p \in pend \ Lost(fetch.layer)})
          BY <5>1, ReadyKept
        <5> QED BY <5>2
      <4> QED BY <4>1, <4>2
    <3>2. PICK o \in handles : SameHandle(h, o) /\ (h.ready => o.ready \/ \E p \in pend : o.e = p[1])
      BY <3>1
    <3>3. HandleHeld(o) /\ o.e = h.e /\ o.slot = h.slot /\ o.cold = h.cold /\ h.slot \in Slot
      BY <2>4, <3>2 DEF RamHandles, SameHandle, HandleHeld
    <3>4. /\ Reaped[fetch.layer][h.slot].expert = h.e /\ ~Reaped[fetch.layer][h.slot].soa
          /\ (Reaped[fetch.layer][h.slot].cold => h.cold)
          /\ ram[fetch.layer][h.slot].valid => Reaped[fetch.layer][h.slot].valid
      BY <1>0, <2>2, <3>3, ReapEntry DEF HandleHeld
    <3>5. Reaped[fetch.layer][h.slot].valid \/ \E c \in fetch.claims : c[1] = h.e /\ c[2] = h.slot
      <4>1. CASE <<h.e, h.slot>> \in pend
        <5>1. Reaped[fetch.layer][<<h.e, h.slot>>[2]].valid
          BY <2>3, <4>1
        <5> QED BY <5>1
      <4>2. CASE <<h.e, h.slot>> \notin pend
        BY <3>3, <3>4, <4>2 DEF HandleHeld
      <4> QED BY <4>1, <4>2
    <3>6. h.ready => Reaped[fetch.layer][h.slot].valid
      BY <2>3, <3>2, <3>3, <3>4, <3>5 DEF HandleHeld
    <3> QED BY <2>1, <2>2, <3>3, <3>4, <3>5, <3>6 DEF HandleHeld
  <2> QED BY <2>4 DEF RamHandles
<1>2. CASE FetchEnd /\ ~fetch.deferred
  <2>1. /\ fetch.pc = "begun" /\ pend = {} /\ handles' = ReadyFor({h.e : h \in handles})
        /\ ram' = [ram EXCEPT ![fetch.layer] = [s \in Slot |->
                     IF \E c \in fetch.claims : c[2] = s /\ ram[fetch.layer][s].expert = c[1]
                     THEN [ram[fetch.layer][s] EXCEPT !.valid = TRUE] ELSE ram[fetch.layer][s]]]
    BY <1>2 DEF FetchEnd, Ending
  <2>2. fetch'.pc = "ended" /\ fetch'.layer = fetch.layer /\ fetch.layer \in Layer
    BY <1>2, <2>1, EndMoves DEF Types, FetchOK, AtLayer
  <2>3. \A x \in Slot : /\ ram'[fetch.layer][x].expert = ram[fetch.layer][x].expert
                        /\ ram'[fetch.layer][x].cold = ram[fetch.layer][x].cold
                        /\ ram'[fetch.layer][x].soa = ram[fetch.layer][x].soa
                        /\ ram[fetch.layer][x].valid => ram'[fetch.layer][x].valid
    BY <1>0, <1>2, <2>2, FetchEndClaims
  <2>4. \A x \in Slot : (\E c \in fetch.claims : c[2] = x /\ ram[fetch.layer][x].expert = c[1]) => ram'[fetch.layer][x].valid
    <3> SUFFICES ASSUME NEW x \in Slot, \E c \in fetch.claims : c[2] = x /\ ram[fetch.layer][x].expert = c[1]
                 PROVE  ram'[fetch.layer][x].valid
      OBVIOUS
    <3>1. ram \in [Layer -> [Slot -> RamSlot]] /\ ram[fetch.layer][x] \in RamSlot
      BY <2>2 DEF Types, TypeOK
    <3>2. ram'[fetch.layer][x] = [ram[fetch.layer][x] EXCEPT !.valid = TRUE]
      BY <2>1, <2>2, <3>1
    <3> QED BY <3>1, <3>2 DEF RamSlot
  <2>5. ASSUME NEW h \in handles', ~h.gpu PROVE HandleHeld(h)'
    <3>1. PICK o \in handles : SameHandle(h, o)
      BY <2>1, ReadyKept
    <3>2. HandleHeld(o) /\ o.e = h.e /\ o.slot = h.slot /\ o.cold = h.cold /\ h.slot \in Slot
      BY <2>5, <3>1 DEF RamHandles, SameHandle, HandleHeld
    <3>3. ram'[fetch.layer][h.slot].valid
      <4>1. ram[fetch.layer][h.slot].valid \/ \E c \in fetch.claims : c[1] = h.e /\ c[2] = h.slot
        BY <2>1, <3>2 DEF HandleHeld
      <4>2. ram[fetch.layer][h.slot].expert = h.e
        BY <3>2 DEF HandleHeld
      <4> QED BY <2>3, <2>4, <3>2, <4>1, <4>2
    <3> QED BY <2>2, <2>3, <3>2, <3>3 DEF HandleHeld
  <2> QED BY <2>5 DEF RamHandles
<1>3. CASE BatchDone
  <2>1. fetch.pc = "batch" /\ ram' = ram /\ handles' = ReadyFor({h.e : h \in handles})
    BY <1>3 DEF BatchDone, tables
  <2>2. fetch'.pc = "batched" /\ fetch'.layer = fetch.layer
    BY <1>3, BatchReaped
  <2>3. ASSUME NEW h \in handles', ~h.gpu PROVE HandleHeld(h)'
    <3>1. PICK o \in handles : SameHandle(h, o)
      BY <2>1, ReadyKept
    <3>2. HandleHeld(o) /\ o.e = h.e /\ o.slot = h.slot /\ o.cold = h.cold
      BY <2>3, <3>1 DEF RamHandles, SameHandle
    <3> QED BY <2>1, <2>2, <3>2 DEF HandleHeld
  <2> QED BY <2>3 DEF RamHandles
<1> QED BY <1>1, <1>2, <1>3

\* A batch finds its experts in RAM or adopts slots for them.
LEMMA BatchHolds ==
    ASSUME Types, Types', Maps, Phases, ReadsHeld, BatchAny
    PROVE  RamHandles'
<1>1. PICK l \in Layer, es \in SUBSET Expert :
         \E adopt \in Adoptions(l, {e \in es : ~BatchHit(l, e)}) : FetchBatch(l, es, adopt)
  <2>1. PICK l \in Layer, es \in {ToSet(list) : list \in Lists} :
           \E adopt \in Adoptions(l, {e \in es : ~BatchHit(l, e)}) : FetchBatch(l, es, adopt)
    BY DEF BatchAny
  <2>2. es \subseteq Expert
    BY <2>1 DEF Lists, ToSet
  <2> QED BY <2>1, <2>2
<1>2. PICK adopt \in Adoptions(l, {e \in es : ~BatchHit(l, e)}) : FetchBatch(l, es, adopt)
  BY <1>1
<1> DEFINE into == {e \in DOMAIN adopt : adopt[e] # None}
           hits == {e \in es \ DOMAIN adopt : ~InVram(l, e)}
<1>3. fetch.pc = "idle" /\ fetch'.pc = "batch" /\ fetch'.layer = l
  BY <1>2, BatchReads
<1>4. /\ handles' = {Handle(e, TRUE, gmap[l][e], FALSE, TRUE) : e \in (es \ DOMAIN adopt) \ hits}
                    \cup {Handle(e, FALSE, map[l][e], FALSE, TRUE) : e \in hits}
                    \cup {Handle(e, FALSE, adopt[e], FALSE, FALSE) : e \in into}
      /\ disk' = disk \cup {[l |-> l, s |-> adopt[e], e |-> e, cold |-> FALSE, spec |-> FALSE] : e \in into}
  BY <1>2 DEF FetchBatch
<1>5. /\ \A x \in Slot : BatchKeeps(l, adopt, l, x) \/ BatchAdopts(l, adopt, l, x) \/ BatchHits(l, l, x)
      /\ \A e \in DOMAIN adopt : e \in Expert /\ (adopt[e] # None => adopt[e] \in Slot)
      /\ \A a, b \in DOMAIN adopt : adopt[a] = adopt[b] /\ adopt[a] # None => a = b
      /\ \A e \in es \ DOMAIN adopt : ~InVram(l, e) =>
            /\ map[l][e] \in Slot /\ ram[l][map[l][e]].expert = e /\ ram[l][map[l][e]].valid
            /\ ~ram[l][map[l][e]].cold /\ ~ram'[l][map[l][e]].soa
  <2>1. \A k \in Layer, x \in Slot : BatchKeeps(l, adopt, k, x) \/ BatchAdopts(l, adopt, k, x) \/ BatchHits(l, k, x)
    BY <1>2, BatchEffect
  <2>2. /\ \A e \in DOMAIN adopt : e \in Expert /\ (adopt[e] # None => adopt[e] \in Slot)
        /\ \A a, b \in DOMAIN adopt : adopt[a] = adopt[b] /\ adopt[a] # None => a = b
    BY DEF Adoptions
  <2>3. \A e \in es \ DOMAIN adopt : ~InVram(l, e) =>
            /\ map[l][e] \in Slot /\ ram[l][map[l][e]].expert = e /\ ram[l][map[l][e]].valid
            /\ ~ram[l][map[l][e]].cold /\ ~ram'[l][map[l][e]].soa
    BY <1>2, BatchEffect
  <2> QED BY <2>1, <2>2, <2>3
<1>6. ASSUME NEW e \in hits
      PROVE  /\ map[l][e] \in Slot /\ ram'[l][map[l][e]].expert = e /\ ram'[l][map[l][e]].valid
             /\ ~ram'[l][map[l][e]].cold /\ ~ram'[l][map[l][e]].soa
             /\ ~\E d \in disk' : d.l = l /\ d.s = map[l][e]
  <2>1. /\ e \in Expert /\ map[l][e] \in Slot /\ ram[l][map[l][e]].expert = e /\ ram[l][map[l][e]].valid
        /\ ~ram[l][map[l][e]].cold /\ ~ram'[l][map[l][e]].soa
    BY <1>5
  <2>2. ram[l][map[l][e]].expert # None
    BY <2>1, CacheConstants
  <2>3. ~BatchAdopts(l, adopt, l, map[l][e])
    BY <2>2 DEF BatchAdopts
  <2>4. /\ ram'[l][map[l][e]].expert = e /\ ram'[l][map[l][e]].valid /\ ~ram'[l][map[l][e]].cold
    BY <1>5, <2>1, <2>3 DEF BatchKeeps, BatchHits
  <2>5. ~\E d \in disk : d.l = l /\ d.s = map[l][e]
    BY <1>3, <2>1 DEF ReadsHeld
  <2>6. \A y \in into : adopt[y] # map[l][e]
    <3> SUFFICES ASSUME NEW y \in into, adopt[y] = map[l][e] PROVE FALSE
      OBVIOUS
    <3>1. adopt[y] \in {s \in Slot : ram[l][s].expert = None}
      BY DEF Adoptions
    <3> QED BY <2>2, <3>1
  <2> QED BY <1>4, <2>1, <2>4, <2>5, <2>6
<1>7. ASSUME NEW e \in into
      PROVE  /\ adopt[e] \in Slot /\ ram'[l][adopt[e]].expert = e /\ ram'[l][adopt[e]].valid
             /\ ~ram'[l][adopt[e]].cold /\ ~ram'[l][adopt[e]].soa
  <2>1. adopt[e] \in Slot /\ e \in Expert /\ ram[l][adopt[e]].expert = None
    BY <1>5 DEF Adoptions
  <2>2. BatchAdopts(l, adopt, l, adopt[e])
    BY <1>5, <2>1 DEF BatchKeeps, BatchHits
  <2> QED BY <1>5, <2>1, <2>2 DEF BatchAdopts
<1> HIDE DEF into, hits
<1>8. ASSUME NEW h \in handles', ~h.gpu PROVE HandleHeld(h)'
  <2>1. \/ \E e \in hits : h = Handle(e, FALSE, map[l][e], FALSE, TRUE)
        \/ \E e \in into : h = Handle(e, FALSE, adopt[e], FALSE, FALSE)
    BY <1>4, <1>8 DEF Handle
  <2>2. CASE \E e \in hits : h = Handle(e, FALSE, map[l][e], FALSE, TRUE)
    <3>1. PICK e \in hits : h = Handle(e, FALSE, map[l][e], FALSE, TRUE)
      BY <2>2
    <3>2. h.e = e /\ h.slot = map[l][e]
      BY <3>1 DEF Handle
    <3> QED BY <1>3, <1>6, <3>2 DEF HandleHeld, Reading
  <2>3. CASE \E e \in into : h = Handle(e, FALSE, adopt[e], FALSE, FALSE)
    <3>1. PICK e \in into : h = Handle(e, FALSE, adopt[e], FALSE, FALSE)
      BY <2>3
    <3>2. h.e = e /\ h.slot = adopt[e] /\ ~h.ready
      BY <3>1 DEF Handle
    <3> QED BY <1>3, <1>7, <3>2 DEF HandleHeld, Reading
  <2> QED BY <2>1, <2>2, <2>3
<1> QED BY <1>8 DEF RamHandles

\* What a list hands out stays with the list.
LEMMA ListHolds ==
    ASSUME Types, RamHandles, ListsApart, NEW e \in Expert, Serving(e),
           fetch'.pc = "serve", fetch'.layer = fetch.layer, fetch'.todo = Tail(fetch.todo),
           fetch.claims \subseteq fetch'.claims, pend \subseteq pend', live \subseteq live',
           \A h \in handles : ~h.gpu => SlotStays(fetch.layer, h.slot)
    PROVE  \A h \in handles : ~h.gpu => HandleHeld(h)'
<1> SUFFICES ASSUME NEW h \in handles, ~h.gpu PROVE HandleHeld(h)'
  OBVIOUS
<1>1. fetch.todo \in Seq(Expert) /\ fetch.todo # <<>> /\ fetch.pc = "serve"
  BY DEF Types, FetchOK, FetchRec, Serving
<1>2. \A i \in 1..Len(Tail(fetch.todo)) : i + 1 \in 1..Len(fetch.todo) /\ Tail(fetch.todo)[i] = fetch.todo[i + 1]
  BY <1>1
<1>3. HandleHeld(h)
  BY DEF RamHandles
<1> QED BY <1>1, <1>2, <1>3, HeldStays

\* The expert at the head of the list has no handle.
LEMMA HeadUnheld ==
    ASSUME Types, RamHandles, NEW e \in Expert, Serving(e)
    PROVE  \A h \in handles : ~h.gpu => /\ h.e # e /\ h.slot \in Slot /\ h.slot \in live
                                       /\ ram[fetch.layer][h.slot].expert = h.e
<1>1. fetch.todo \in Seq(Expert) /\ fetch.todo # <<>> /\ fetch.pc = "serve" /\ e = fetch.todo[1]
  BY DEF Types, FetchOK, FetchRec, Serving
<1>2. 1 \in 1..Len(fetch.todo)
  BY <1>1
<1> QED BY <1>1, <1>2 DEF RamHandles, HandleHeld

LEMMA ServeHolds ==
    ASSUME Types, Types', Maps, Maps', HostHolds, Phases, Claims, RamHandles,
           \/ ServePromoteAny \/ ServeMissAny
           \/ \E e \in Expert : ServeVram(e) \/ ServeClaimed(e) \/ ServeRam(e) \/ ServeUpgrade(e)
    PROVE  RamHandles'
<1>0. PendReads /\ ListsApart /\ WantedHeld /\ ClaimFlags /\ ColdFile /\ MappedWanted /\ fetch \in FetchRec
      /\ handles \subseteq HandleRec
  BY DEF Claims, Types, TypeOK, FetchOK
<1>1. CASE \E e \in Expert : ServeVram(e)
  <2>1. PICK e \in Expert : ServeVram(e)
    BY <1>1
  <2>2. /\ Serving(e) /\ fetch' = [fetch EXCEPT !.todo = Tail(@)] /\ fetch.pc = "serve"
        /\ ram' = ram /\ pend' = pend /\ live' = live
        /\ handles' = handles \cup {Handle(e, TRUE, gmap[fetch.layer][e], FALSE, TRUE)}
    BY <2>1 DEF ServeVram, Served, Serving
  <2>3. fetch'.pc = "serve" /\ fetch'.layer = fetch.layer /\ fetch'.todo = Tail(fetch.todo) /\ fetch'.claims = fetch.claims
    BY <1>0, <2>2 DEF FetchRec
  <2>4. \A h \in handles : ~h.gpu => HandleHeld(h)'
    BY <1>0, <2>2, <2>3, ListHolds DEF SlotStays
  <2>5. Handle(e, TRUE, gmap[fetch.layer][e], FALSE, TRUE).gpu
    BY DEF Handle
  <2> QED BY <2>2, <2>4, <2>5 DEF RamHandles
<1>2. CASE \E e \in Expert : ServeClaimed(e)
  <2>1. PICK e \in Expert : ServeClaimed(e)
    BY <1>2
  <2> DEFINE l == fetch.layer
             cs == map[fetch.layer][e]
             n == Handle(e, FALSE, cs, ram[l][cs].cold, FALSE)
  <2>2. /\ Serving(e) /\ fetch' = [fetch EXCEPT !.todo = Tail(@)] /\ fetch.pc = "serve"
        /\ ram' = ram /\ pend' = pend \cup {<<e, cs>>} /\ live' = live \cup {cs} /\ handles' = handles \cup {n}
        /\ cs # None /\ ram[l][cs].expert = e /\ ~ram[l][cs].valid
    BY <2>1 DEF ServeClaimed, Served, Serving
  <2>3. fetch'.pc = "serve" /\ fetch'.layer = l /\ fetch'.todo = Tail(fetch.todo) /\ fetch'.claims = fetch.claims
    BY <1>0, <2>2 DEF FetchRec
  <2>4. \A h \in handles : ~h.gpu => HandleHeld(h)'
    BY <1>0, <2>2, <2>3, ListHolds DEF SlotStays
  <2>5. n.e = e /\ n.slot = cs /\ n.cold = ram[l][cs].cold /\ ~n.ready /\ ~n.gpu
    BY DEF Handle
  <2>6. l \in Layer /\ cs \in Slot
    BY <2>2, ServeFacts DEF Types, TypeOK
  <2>7. ~ram[l][cs].soa
    BY <1>0, <2>2, <2>6 DEF MappedWanted, WantedHeld
  <2>8. \A i \in 1..Len(fetch'.todo) : fetch'.todo[i] # e
    BY <1>0, <2>2, <2>3, ListGoesOn
  <2> HIDE DEF n, cs
  <2>9. ASSUME NEW h, h = n PROVE HandleHeld(h)'
    BY <2>9, <2>2, <2>3, <2>5, <2>6, <2>7, <2>8 DEF HandleHeld
  <2> QED BY <2>2, <2>4, <2>9 DEF RamHandles
<1>3. CASE \E e \in Expert : ServeRam(e)
  <2>1. PICK e \in Expert : ServeRam(e)
    BY <1>3
  <2> DEFINE l == fetch.layer
             s == FindSlot(fetch.layer, e)
             n == Handle(e, FALSE, s, ram[l][s].cold, TRUE)
  <2>2. /\ Serving(e) /\ fetch' = [fetch EXCEPT !.todo = Tail(@)] /\ fetch.pc = "serve"
        /\ pend' = pend /\ live' = live \cup {s} /\ handles' = handles \cup {n} /\ s # None
    BY <2>1 DEF ServeRam, Served, Serving
  <2>3. fetch'.pc = "serve" /\ fetch'.layer = l /\ fetch'.todo = Tail(fetch.todo) /\ fetch'.claims = fetch.claims
    BY <1>0, <2>2 DEF FetchRec
  <2>4. l \in Layer /\ s \in Slot
    BY <2>2, ServeFacts, SlotTypes
  <2>5. \A x \in Slot : Same(l, x) /\ (x = s => ~ram'[l][x].soa)
    BY <2>1, <2>4, ServedRam
  <2>6. \A x \in Slot : SlotStays(l, x)
    BY <2>5 DEF Same, SlotStays
  <2>7. \A h \in handles : ~h.gpu => HandleHeld(h)'
    <3>1. \A h \in handles : ~h.gpu => h.slot \in Slot
      BY <2>2, HeadUnheld
    <3> QED BY <1>0, <2>2, <2>3, <2>6, <3>1, ListHolds
  <2>8. n.e = e /\ n.slot = s /\ n.cold = ram[l][s].cold /\ ~n.gpu
    BY DEF Handle
  <2>9. ram[l][s].expert = e /\ ram[l][s].valid
    BY <2>2 DEF FindSlot
  <2>10. \A i \in 1..Len(fetch'.todo) : fetch'.todo[i] # e
    BY <1>0, <2>2, <2>3, ListGoesOn
  <2> HIDE DEF n, s
  <2>11. ASSUME NEW h, h = n PROVE HandleHeld(h)'
    BY <2>11, <2>2, <2>3, <2>4, <2>5, <2>8, <2>9, <2>10 DEF HandleHeld, Same
  <2> QED BY <2>2, <2>7, <2>11 DEF RamHandles
<1>4. CASE ServePromoteAny
  <2>1. PICK e \in Expert, g \in GSlot, pick \in Slot \cup {None}, r \in Ring \cup {None} :
           ServePromote(e, g, pick, r)
    BY <1>4 DEF ServePromoteAny
  <2> DEFINE l == fetch.layer
             s == FindSlot(fetch.layer, e)
  <2>2. /\ Promote(l, e, s, g, pick, r) /\ Serving(e) /\ pend' = pend /\ live' = live \cup {s}
        /\ l \in Layer /\ s \in Slot /\ handles' = handles \cup {Handle(e, TRUE, g, FALSE, TRUE)}
        /\ fetch' = [fetch EXCEPT !.todo = Tail(@), !.promoted = @ + 1] /\ fetch.pc = "serve"
    BY <2>1, ServeFacts, SlotTypes DEF ServePromote
  <2>3. fetch'.pc = "serve" /\ fetch'.layer = l /\ fetch'.todo = Tail(fetch.todo) /\ fetch'.claims = fetch.claims
    BY <1>0, <2>2 DEF FetchRec
  <2> HIDE DEF s
  <2>4. PICK to : to = IF pick = s THEN None ELSE pick
    OBVIOUS
  <2>5. ASSUME NEW h \in handles, ~h.gpu PROVE SlotStays(l, h.slot)
    <3>1. h.slot \in Slot /\ h.slot \in live /\ ram[l][h.slot].expert # None
      <4>1. h.e \in Expert
        BY <1>0 DEF HandleRec
      <4> QED BY <2>2, <2>5, <4>1, HeadUnheld, CacheConstants
    <3>2. h.slot # to
      <4>1. pick \in (IF Exclusive /\ vram[l][g] # None THEN SwapTargets(l) ELSE {None})
        BY <2>2 DEF Promote
      <4> QED BY <2>2, <2>4, <3>1, <4>1, TargetUnheld, CacheConstants
    <3>3. Same(l, h.slot)
      BY <2>2, <2>4, <3>1, <3>2, PromoteLayouts
    <3> QED BY <3>3 DEF Same, SlotStays
  <2>6. \A h \in handles : ~h.gpu => HandleHeld(h)'
    BY <1>0, <2>2, <2>3, <2>5, ListHolds
  <2>7. Handle(e, TRUE, g, FALSE, TRUE).gpu
    BY DEF Handle
  <2> QED BY <2>2, <2>6, <2>7 DEF RamHandles
<1>5. CASE ServeMissAny
  <2>1. PICK e \in Expert, v \in Slot, cold \in BOOLEAN : ServeMiss(e, v, cold)
    BY <1>5 DEF ServeMissAny
  <2> DEFINE l == fetch.layer
             n == Handle(e, FALSE, v, cold, FALSE)
             c == <<e, v, cold>>
             new == [expert |-> e, valid |-> FALSE, cold |-> cold, soa |-> FALSE]
  <2>2. /\ Serving(e) /\ pend' = pend /\ l \in Layer /\ v \notin live /\ live' = live \cup {v}
        /\ ram' = ClaimRam(ram, l, v, e, cold) /\ handles' = handles \cup {n}
    BY <2>1, ServeFacts DEF ServeMiss, Evictable
  <2>3. /\ fetch'.pc = "serve" /\ fetch'.layer = l /\ fetch'.todo = Tail(fetch.todo)
        /\ fetch'.claims = fetch.claims \cup {c}
    BY <1>0, <2>1, FetchClaims
  <2>4. /\ \A x \in Slot : x # v => ram'[l][x] = ram[l][x]
        /\ ram'[l][v] = new
    <3>1. ram \in [Layer -> [Slot -> RamSlot]]
      BY DEF Types, TypeOK
    <3> QED BY <2>2, <3>1 DEF ClaimRam
  <2>5. new.expert = e /\ ~new.soa /\ new.cold = cold
    OBVIOUS
  <2> HIDE DEF new
  <2>6. ASSUME NEW h \in handles, ~h.gpu PROVE SlotStays(l, h.slot)
    <3>1. h.slot \in Slot /\ h.slot # v
      BY <2>2, <2>6, HeadUnheld
    <3> QED BY <2>4, <3>1 DEF SlotStays
  <2>7. \A h \in handles : ~h.gpu => HandleHeld(h)'
    BY <1>0, <2>2, <2>3, <2>6, ListHolds
  <2>8. n.e = e /\ n.slot = v /\ n.cold = cold /\ ~n.ready /\ c[1] = e /\ c[2] = v
    BY DEF Handle
  <2>9. \A i \in 1..Len(fetch'.todo) : fetch'.todo[i] # e
    BY <1>0, <2>2, <2>3, ListGoesOn
  <2> HIDE DEF n, c
  <2>10. ASSUME NEW h, h = n PROVE HandleHeld(h)'
    BY <2>10, <2>2, <2>3, <2>4, <2>5, <2>8, <2>9 DEF HandleHeld
  <2> QED BY <2>2, <2>7, <2>10 DEF RamHandles
<1>6. CASE \E e \in Expert : ServeUpgrade(e)
  <2>1. PICK e \in Expert : ServeUpgrade(e)
    BY <1>6
  <2> DEFINE l == fetch.layer
             v == FindSlot(fetch.layer, e)
             n == Handle(e, FALSE, v, FALSE, FALSE)
             c == <<e, v, FALSE>>
  <2>2. /\ Serving(e) /\ pend' = pend /\ l \in Layer /\ v \in Slot /\ live' = live \cup {v} /\ handles' = handles \cup {n}
    BY <2>1, ServeFacts, SlotTypes DEF ServeUpgrade
  <2>3. /\ fetch'.pc = "serve" /\ fetch'.layer = l /\ fetch'.todo = Tail(fetch.todo)
        /\ fetch'.claims = fetch.claims \cup {c}
    BY <1>0, <2>1, <2>2, FetchClaims
  <2>4. n.e = e /\ n.slot = v /\ ~n.ready /\ c[1] = e /\ c[2] = v
    BY DEF Handle
  <2> HIDE DEF v, n, c
  <2>5. /\ \A x \in Slot : ~(x = v) => ram'[l][x] = ram[l][x]
        /\ ram'[l][v].expert = e /\ ram[l][v].expert = e /\ ~ram'[l][v].cold /\ ~ram'[l][v].soa
    BY <1>0, <2>1, <2>2, ServeUpgradeClaims DEF v
  <2>6. ASSUME NEW h \in handles, ~h.gpu PROVE SlotStays(l, h.slot)
    <3>1. h.slot \in Slot /\ h.slot # v
      BY <2>2, <2>5, <2>6, HeadUnheld
    <3> QED BY <2>5, <3>1 DEF SlotStays
  <2>7. \A h \in handles : ~h.gpu => HandleHeld(h)'
    BY <1>0, <2>2, <2>3, <2>6, ListHolds
  <2>9. \A i \in 1..Len(fetch'.todo) : fetch'.todo[i] # e
    BY <1>0, <2>2, <2>3, ListGoesOn
  <2>10. ASSUME NEW h, h = n PROVE HandleHeld(h)'
    BY <2>10, <2>2, <2>3, <2>4, <2>5, <2>9 DEF HandleHeld
  <2> QED BY <2>2, <2>7, <2>10 DEF RamHandles
<1> QED BY <1>1, <1>2, <1>3, <1>4, <1>5, <1>6

LEMMA StepRamHandles ==
    ASSUME Types, Types', Maps, Maps', HostHolds, Phases, Claims, ReadsHeld, GpuHandles, RamHandles,
           fetch'.pc # "reread", failed = 0, failed' = 0, [Next]_vars
    PROVE  RamHandles'
<1>0. fetch.pc # "reread" /\ WantedHeld /\ (handles # {} => fetch.pc \in HandlePc)
  BY DEF Claims, GpuHandles
<1>1. CASE \/ FetchStartAny \/ SettleLayer \/ RefillDone \/ RestoreBegin
           \/ WarmAny \/ LendAny \/ SettleLayerDone \/ SettleFullDone \/ PrefetchFinish \/ RestoreEnds
           \/ FinishSwap \/ RestoreAny \/ RefillAny
           \/ FetchEnd /\ fetch.deferred
  <2>1. handles' = {}
    BY <1>0, <1>1, HandlesEnd
  <2> QED BY <2>1 DEF RamHandles
<1>2. CASE PrefetchAny \/ PrefetchReap \/ ComputeStep \/ SideStep \/ DiskAny \/ FetchSubmit \/ UNCHANGED vars
  <2>1. CASE fetch.pc \in HandlePc
    BY <1>0, <1>2, <2>1, OthersHold
  <2>2. CASE fetch.pc \notin HandlePc
    <3>1. handles' = handles
      <4>1. CASE PrefetchAny
        BY <4>1 DEF PrefetchAny, PrefetchBegin
      <4>2. CASE PrefetchReap
        BY <4>2 DEF PrefetchReap
      <4>3. CASE ComputeStep \/ SideStep \/ UNCHANGED vars
        BY <4>3 DEF ComputeStep, SideStep, vars, hostv, device, tables
      <4>4. CASE DiskAny \/ FetchSubmit
        BY <4>4 DEF DiskAny, DiskLand, FetchSubmit, hostv, device, tables
      <4> QED BY <1>2, <4>1, <4>2, <4>3, <4>4
    <3> QED BY <1>0, <2>2, <3>1 DEF RamHandles
  <2> QED BY <2>1, <2>2
<1>3. CASE \/ ServePromoteAny \/ ServeMissAny
           \/ \E e \in Expert : ServeVram(e) \/ ServeClaimed(e) \/ ServeRam(e) \/ ServeUpgrade(e)
  BY <1>3, ServeHolds
<1>4. CASE SettlePending \/ (FetchEnd /\ ~fetch.deferred) \/ BatchDone
  BY <1>4, EndHolds
<1>5. CASE BatchAny
  BY <1>5, BatchHolds
<1>6. CASE FetchShort \/ \E e \in Expert : ServeFails(e)
  BY <1>6, FailedCounts
<1>7. CASE RereadAny \/ RereadReturns
  BY <1>0, <1>7 DEF RereadAny, Reread, RereadReturns
<1> QED BY <1>1, <1>2, <1>3, <1>4, <1>5, <1>6, <1>7 DEF Next, FetchSteps, ServeAny

LEMMA HandlesAlways == Spec => [](failed = 0 => GpuHandles /\ RamHandles)
<1> DEFINE Inv == failed = 0 => GpuHandles /\ RamHandles
<1>1. Init => Inv
  BY DEF Init, GpuHandles, RamHandles
<1>2. /\ Inv /\ [Next]_vars /\ Types /\ Types' /\ Maps /\ Maps' /\ Slots /\ Phases
      /\ (failed = 0 => Claims) /\ (failed = 0 => Claims)' /\ (failed = 0 => ReadsHeld)
      => Inv'
  <2> SUFFICES ASSUME Inv, [Next]_vars, Types, Types', Maps, Maps', Slots, Phases,
                      failed = 0 => Claims, (failed = 0 => Claims)', failed = 0 => ReadsHeld, failed' = 0
               PROVE  GpuHandles' /\ RamHandles'
    OBVIOUS
  <2>1. failed = 0 /\ HostHolds
    BY FailedStays DEF Slots
  <2>2. Claims /\ Claims' /\ ReadsHeld /\ GpuHandles /\ RamHandles
    BY <2>1
  <2>3. GpuHandles'
    BY <2>1, <2>2, StepGpuHandles
  <2>4. fetch'.pc # "reread"
    BY <2>2 DEF Claims
  <2>5. RamHandles'
    BY <2>1, <2>2, <2>4, StepRamHandles
  <2> QED BY <2>3, <2>5
<1> QED BY <1>1, <1>2, TypesAlways, MapsAlways, SlotsAlways, PhasesAlways, ClaimsAlways, ReadsHeldAlways, PTL DEF Spec

LEMMA ServedRight ==
    ASSUME Types, Sides, ReadsHeld, RamRight, GpuHandles, RamHandles
    PROVE  ServedExpert
<1> SUFFICES ASSUME NEW h \in handles, ~h.gpu, h.ready
             PROVE  \E cold \in {FALSE, h.cold} : rbytes[fetch.layer][h.slot] = Bytes(h.e, cold, FALSE)
  BY DEF ServedExpert
<1>1. /\ h.slot \in Slot /\ ram[fetch.layer][h.slot].expert = h.e /\ ~ram[fetch.layer][h.slot].soa
      /\ (ram[fetch.layer][h.slot].cold => h.cold) /\ ram[fetch.layer][h.slot].valid
      /\ fetch.pc = "batch" => ~Reading(fetch.layer, h.slot)
  BY DEF RamHandles, HandleHeld
<1>2. fetch.pc \in AtLayer /\ fetch.layer \in Layer
  BY DEF GpuHandles, HandlePc, AtLayer, Types, FetchOK
<1>3. h.e # None /\ h.cold \in BOOLEAN /\ ram[fetch.layer][h.slot] \in RamSlot
  <2>1. h \in HandleRec /\ ram \in [Layer -> [Slot -> RamSlot]]
    BY DEF Types, TypeOK
  <2> QED BY <1>1, <1>2, <2>1, CacheConstants DEF HandleRec
<1>4. ~SideTo(fetch.layer, h.slot)
  BY <1>1, <1>2 DEF Sides, SideApart
<1>5. ~Reading(fetch.layer, h.slot)
  BY <1>1 DEF ReadsHeld, Reading
<1>6. Right(fetch.layer, h.slot)
  BY <1>1, <1>2, <1>3, <1>4, <1>5 DEF RamRight
<1>7. PICK c \in BOOLEAN : /\ AsFlag(c, ram[fetch.layer][h.slot].cold)
                           /\ rbytes[fetch.layer][h.slot] = Bytes(h.e, c, ram[fetch.layer][h.slot].soa)
  BY <1>1, <1>6 DEF Right
<1>8. ram[fetch.layer][h.slot].soa = FALSE /\ c \in {FALSE, h.cold}
  BY <1>1, <1>3, <1>7 DEF AsFlag, RamSlot
<1> QED BY <1>7, <1>8

-----------------------------------------------------------------------------
(* What a block holds.  The theorems assume that the layer a block is       *)
(* restored to has no VRAM slot that may be replaced (RestoresOwn):         *)
(* otherwise choose_victim() may offer promote() the block's own slot, and  *)
(* clears its layout flag when it does.                                     *)

\* When the device runs a layer's experts, each VRAM slot it was given holds the expert it was
\* given for, whatever was promoted over it, read back from it or restored to it meanwhile
\* (fetch_begin(), promote(), finish_swap()).
THEOREM KernelsReadTheirExperts ==
    Spec /\ [](failed = 0 => RestoresOwn) => [](failed = 0 => UseBytes)
<1>1. /\ Types /\ (failed = 0 => Apart /\ GpuHandles /\ Ops) /\ (failed = 0 => BytesRight)
      => (failed = 0 => UseBytes)
  BY UsesRight DEF BytesRight
<1> QED BY <1>1, TypesAlways, OpsAlways, BytesAlways, PTL

\* A handle of fetch_begin() or fetch_batch() that is reported ready and is in RAM names a block
\* with its expert's weights, in the file's layout and at no less precision than the handle
\* says, until the handles are given up.
THEOREM HandlesNameTheirExperts ==
    Spec /\ [](failed = 0 => RestoresOwn) => [](failed = 0 => ServedExpert)
<1>1. /\ Types /\ (failed = 0 => Sides /\ QueueEmpty /\ QueueHeld) /\ (failed = 0 => ReadsHeld)
      /\ (failed = 0 => GpuHandles /\ RamHandles) /\ (failed = 0 => BytesRight)
      => (failed = 0 => ServedExpert)
  BY ServedRight DEF BytesRight
<1> QED BY <1>1, TypesAlways, QueuesAlways, ReadsHeldAlways, HandlesAlways, BytesAlways, PTL

\* A mapped slot that is valid holds its expert's weights at the precision and in the layout its
\* flags say, once the read-backs that land_layer() waits for and fetch_batch()'s reads are in
\* (expert_slot, slot_expert, slot_cold, slot_soa).  A restore reads the hot file and leaves the
\* slot's precision flag as it was, hence the assumption about the cold file.
THEOREM ResidentsHoldTheirExperts ==
    ASSUME ~HasCold \/ "restore" \notin Prompting
    PROVE  Spec /\ [](failed = 0 => RestoresOwn) => [](failed = 0 => ResidentBytes)
<1>1. /\ Types /\ Maps /\ (failed = 0 => Sides /\ QueueEmpty /\ QueueHeld) /\ (failed = 0 => ReadsHeld)
      /\ (failed = 0 => BytesRight)
      => (failed = 0 => ResidentBytes)
  BY ResidentsRight DEF BytesRight
<1> QED BY <1>1, TypesAlways, MapsAlways, QueuesAlways, ReadsHeldAlways, BytesAlways, PTL

\* With inclusive tiers, or without restores, the assumption holds of itself.
THEOREM ContentsWithoutRestore ==
    ASSUME ~Exclusive \/ "restore" \notin Prompting
    PROVE  Spec => [](failed = 0 => UseBytes /\ ServedExpert)
<1>1. Spec => [](failed = 0 => RestoresOwn)
  BY OwnAlways
<1>2. (failed = 0 => UseBytes) /\ (failed = 0 => ServedExpert) => (failed = 0 => UseBytes /\ ServedExpert)
  OBVIOUS
<1> QED BY <1>1, <1>2, KernelsReadTheirExperts, HandlesNameTheirExperts, PTL

=============================================================================

------------------------- MODULE ExpertCacheProofs -------------------------
(***************************************************************************)
(* Proofs about the expert cache for any numbers of layers, experts, RAM   *)
(* and VRAM slots and staging entries, in any configuration: the types of  *)
(* the tables and the queues, what the tables of the two tiers say of each *)
(* other, and, of the exclusive tiers, the staging ring, the slots claimed *)
(* for victims, and that no expert stays in both tiers; and which slots    *)
(* are claimed to be read into, and whose each read on the drive is, as    *)
(* long as no fetch has failed.                                            *)
(***************************************************************************)
EXTENDS ExpertCache, FiniteSetTheorems, WellFoundedInduction, TLAPS

FetchRec ==
    [pc : {"idle", "serve", "begun", "ended", "reread", "settle", "refill", "warm", "batch",
           "batched", "restore"},
     layer : Layer \cup {None}, todo : Seq(Expert), promoted : Nat,
     claims : SUBSET (Expert \X Slot \X BOOLEAN), need : [hot : Nat, cold : Nat],
     lost : SUBSET (Expert \X Slot), reading : (Expert \X Slot) \cup {None},
     deferred : BOOLEAN, full : BOOLEAN, lend : Lendable \cup {None}, cand : SUBSET Expert,
     restore : BOOLEAN, next : [l : Layer, e : Expert, v : Slot \cup {None}] \cup {None}]

AtLayer == {"serve", "begun", "ended", "reread", "refill", "warm", "batch", "batched"}

\* The operation in progress: which layer it is at, and that the failed ones are bounded.
FetchOK ==
    /\ fetch \in FetchRec /\ IsFiniteSet(fetch.claims)
    /\ fetch.pc \in AtLayer \/ fetch.deferred => fetch.layer \in Layer
    /\ fetch.pc \in {"serve", "begun", "reread"} \/ fetch.deferred => failed < MaxFail

CqRec ==
    [op : {"upload", "stage", "readback", "use"}, l : Layer, s : Slot \cup {None},
     g : GSlot \cup {None}, r : Ring \cup {None}, raw : BOOLEAN,
     uses : SUBSET ((Slot \cup GSlot) \X Expert)]
CqOp ==
    {o \in CqRec : /\ o.op \in {"upload", "readback"} => o.s \in Slot /\ o.g \in GSlot
                   /\ o.op = "stage" => o.g \in GSlot /\ o.r \in Ring}
SideOp == [l : Layer, r : Ring, s : Slot]

\* What the two queues still have to do.
QueuesOK == cq \in Seq(CqOp) /\ sideq \in Seq(SideOp)

Types == TypeOK /\ FetchOK /\ QueuesOK

\* The three parts of TypeOK: the tables, what the host keeps, what lies beside it.
TablesOK ==
    /\ ram \in [Layer -> [Slot -> RamSlot]]
    /\ map \in [Layer -> [Expert -> Slot \cup {None}]]
    /\ free \in [Layer -> Seq(Slot)]
    /\ vram \in [Layer -> [GSlot -> Expert \cup {None}]]
    /\ gmap \in [Layer -> [Expert -> GSlot \cup {None}]]
    /\ gused \subseteq Layer \X GSlot
    /\ lent \subseteq Lendable
    /\ hotw \subseteq Layer \X Expert
HostOK ==
    /\ live \subseteq Slot
    /\ rel \subseteq Layer \X Slot
    /\ swaps \in Seq(SwapRec) /\ landing \in Seq(SwapRec)
    /\ ringBusy \subseteq Ring
    /\ handles \subseteq HandleRec
    /\ pend \subseteq Expert \X Slot
    /\ failed \in 0..MaxFail
    /\ pf \subseteq Layer \X Expert \X Slot
DeviceOK ==
    /\ disk \subseteq ReadRec
    /\ landed \in [hot : Nat, cold : Nat]
    /\ rbytes \in [Layer -> [Slot -> AllBytes]]
    /\ gbytes \in [Layer -> [GSlot -> AllBytes]]
    /\ sbytes \in [Ring -> AllBytes]

LEMMA TypeParts ==
    /\ Types => TablesOK /\ HostOK /\ DeviceOK /\ FetchOK /\ QueuesOK
    /\ TablesOK' /\ HostOK' /\ DeviceOK' /\ FetchOK' /\ QueuesOK' => Types'
<1>1. FetchOK' => fetch'.pc \in {"idle", "serve", "begun", "ended", "reread", "settle", "refill",
                                "warm", "batch", "batched", "restore"}
  BY DEF FetchOK, FetchRec
<1> QED BY <1>1 DEF Types, TypeOK, TablesOK, HostOK, DeviceOK

-----------------------------------------------------------------------------
\* The kinds of bytes.
LEMMA ByteTypes ==
    /\ Garbage \in AllBytes
    /\ \A e \in Expert \cup {None}, c, d \in BOOLEAN : Bytes(e, c, d) \in AllBytes
    /\ \A b \in AllBytes, d \in BOOLEAN : Uploaded(b, d) \in AllBytes /\ FileLayout(b, d) \in AllBytes
BY DEF Garbage, AllBytes, Bytes, Uploaded, FileLayout

LEMMA NoFetchType == NoFetch \in FetchRec /\ IsFiniteSet(NoFetch.claims)
<1>1. NoFetch \in FetchRec
  BY DEF NoFetch, FetchRec
<1>2. IsFiniteSet(NoFetch.claims)
  BY FS_EmptySet DEF NoFetch
<1> QED BY <1>1, <1>2

LEMMA InitTypes == Init => Types
<1> SUFFICES ASSUME Init PROVE Types
  OBVIOUS
<1>1. Empty \in RamSlot /\ Garbage \in AllBytes
  BY ByteTypes DEF Empty, RamSlot
<1>2. FetchOK
  BY NoFetchType DEF Init, FetchOK, NoFetch, AtLayer
<1>3. QueuesOK
  BY DEF Init, QueuesOK
<1>4. TypeOK
  BY <1>1, CacheConstants DEF Init, TypeOK, NoFetch
<1> QED BY <1>2, <1>3, <1>4 DEF Types

\* Handing a slot over.
LEMMA SlotTypes ==
    ASSUME Types, NEW l \in Layer, NEW e \in Expert
    PROVE  /\ InVram(l, e) => gmap[l][e] \in GSlot
           /\ FindSlot(l, e) # None => FindSlot(l, e) \in Slot /\ FindSlot(l, e) = map[l][e]
           /\ \A R, s : s \in Evictable(R, l) => s \in Slot
BY DEF Types, TypeOK, InVram, FindSlot, Evictable

LEMMA ClaimTypes ==
    ASSUME Types, NEW R \in [Layer -> [Slot -> RamSlot]], NEW l \in Layer, NEW v \in Slot,
           NEW e \in Expert, NEW cold \in BOOLEAN
    PROVE  /\ ClaimRam(R, l, v, e, cold) \in [Layer -> [Slot -> RamSlot]]
           /\ ClaimMap(R, l, v, e) \in [Layer -> [Expert -> Slot \cup {None}]]
<1>1. [expert |-> e, valid |-> FALSE, cold |-> cold, soa |-> FALSE] \in RamSlot
  BY DEF RamSlot
<1>2. R[l][v].expert \in Expert \cup {None}
  BY DEF RamSlot
<1>3. Unmapped(map[l], R[l][v].expert) \in [Expert -> Slot \cup {None}]
  BY <1>2 DEF Types, TypeOK, Unmapped
<1> QED BY <1>1, <1>3 DEF ClaimRam, ClaimMap, Types, TypeOK

\* A set of positions has a greatest one.
LEMMA Greatest ==
    ASSUME NEW n \in Nat, NEW S \in SUBSET (1..n), S # {}
    PROVE  \E i \in S : \A j \in S : j <= i
<1> DEFINE T == {n - i : i \in S}
<1>1. T \subseteq Nat /\ T # {}
  <2>1. \A i \in S : n - i \in Nat
    OBVIOUS
  <2> QED BY <2>1
<1>2. \E x \in T : \A y \in T : <<y, x>> \notin OpToRel(<, Nat)
  BY <1>1, WFMin, NatLessThanWellFounded
<1>3. PICK x \in T : \A y \in T : ~(y < x)
  BY <1>1, <1>2 DEF OpToRel
<1>4. PICK i \in S : x = n - i
  BY <1>3
<1>5. \A j \in S : j <= i
  <2> TAKE j \in S
  <2>1. n - j \in T /\ ~(n - j < x)
    BY <1>3
  <2> QED BY <1>4, <2>1
<1> QED BY <1>4, <1>5

\* What the host queues on the device.
LEMMA OpTypes ==
    ASSUME NEW l \in Layer, NEW s \in Slot, NEW g \in GSlot
    PROVE  /\ \A raw \in BOOLEAN : Upload(l, s, g, raw) \in CqOp
           /\ \A r \in Ring : Stage(l, g, r) \in CqOp
           /\ ReadBack(l, g, s) \in CqOp
<1> DEFINE none == {}
<1>1. none \in SUBSET ((Slot \cup GSlot) \X Expert)
  OBVIOUS
<1>2. \A raw \in BOOLEAN : Op("upload", l, s, g, None, raw, none) \in CqOp
  <2> HIDE DEF none
  <2> QED BY <1>1 DEF Op, CqOp, CqRec
<1>3. \A r \in Ring : Op("stage", l, None, g, r, FALSE, none) \in CqOp
  <2> HIDE DEF none
  <2> QED BY <1>1 DEF Op, CqOp, CqRec
<1>4. Op("readback", l, s, g, None, FALSE, none) \in CqOp
  <2> HIDE DEF none
  <2> QED BY <1>1 DEF Op, CqOp, CqRec
<1> QED BY <1>2, <1>3, <1>4 DEF Upload, Stage, ReadBack

LEMMA UseType ==
    ASSUME NEW l \in Layer, NEW u \in SUBSET ((Slot \cup GSlot) \X Expert)
    PROVE  Use(l, u) \in CqOp
BY DEF Op, CqOp, CqRec, Use

\* The topmost empty slot of the free stack, and what an exclusive promotion takes.
LEMMA SwapTargetTypes ==
    ASSUME Types, NEW l \in Layer
    PROVE  /\ \A pick \in SwapTargets(l) : pick \in Slot \cup {None}
           /\ FreeLeft(l) \in Seq(Slot)
           /\ \A r \in RingTargets : r \in Ring \cup {None}
<1>1. free[l] \in Seq(Slot)
  BY DEF Types, TypeOK
<1>2. FreeTop(l) \subseteq 1..Len(free[l])
  BY DEF FreeTop
<1>3. CASE FreeTop(l) = {}
  BY <1>3 DEF SwapTargets, FreeLeft, RingTargets, Evictable
<1>4. CASE FreeTop(l) # {}
  <2> DEFINE top == CHOOSE i \in FreeTop(l) : \A j \in FreeTop(l) : j <= i
  <2>1. \E i \in FreeTop(l) : \A j \in FreeTop(l) : j <= i
    <3>1. Len(free[l]) \in Nat
      BY <1>1
    <3> QED BY <3>1, <1>2, <1>4, Greatest
  <2>2. top \in 1..Len(free[l])
    BY <1>2, <2>1
  <2>3. SwapTargets(l) = {free[l][top]} /\ FreeLeft(l) = SubSeq(free[l], 1, top - 1)
    BY <1>4 DEF SwapTargets, FreeLeft
  <2> HIDE DEF top
  <2> QED BY <1>1, <2>2, <2>3 DEF RingTargets
<1> QED BY <1>3, <1>4

LEMMA PromoteTypes ==
    ASSUME Types, NEW l \in Layer, NEW e \in Expert, NEW s \in Slot, NEW g \in GSlot,
           NEW pick, NEW r, Promote(l, e, s, g, pick, r)
    PROVE  /\ pick \in Slot \cup {None} /\ r \in Ring \cup {None}
           /\ vram' \in [Layer -> [GSlot -> Expert \cup {None}]]
           /\ gmap' \in [Layer -> [Expert -> GSlot \cup {None}]]
           /\ gused' \subseteq Layer \X GSlot
           /\ ram' \in [Layer -> [Slot -> RamSlot]]
           /\ map' \in [Layer -> [Expert -> Slot \cup {None}]]
           /\ free' \in [Layer -> Seq(Slot)]
           /\ swaps' \in Seq(SwapRec)
           /\ ringBusy' \subseteq Ring
           /\ cq' \in Seq(CqOp)
<1> DEFINE victim == vram[l][g]
           swap == Exclusive /\ victim # None
           to == IF pick = s THEN None ELSE pick
<1>0. /\ ram \in [Layer -> [Slot -> RamSlot]] /\ map \in [Layer -> [Expert -> Slot \cup {None}]]
      /\ free \in [Layer -> Seq(Slot)] /\ vram \in [Layer -> [GSlot -> Expert \cup {None}]]
      /\ gmap \in [Layer -> [Expert -> GSlot \cup {None}]] /\ gused \subseteq Layer \X GSlot
      /\ swaps \in Seq(SwapRec) /\ ringBusy \subseteq Ring /\ cq \in Seq(CqOp)
  BY DEF Types, TypeOK, QueuesOK
<1>1. pick \in Slot \cup {None} /\ r \in Ring \cup {None} /\ to \in Slot \cup {None}
  BY SwapTargetTypes DEF Promote
<1>2. victim \in Expert \cup {None} /\ (to # None => victim \in Expert)
  BY <1>0, <1>1 DEF Promote
<1>3. vram' \in [Layer -> [GSlot -> Expert \cup {None}]] /\ gused' \subseteq Layer \X GSlot
  BY <1>0 DEF Promote
<1>4. gmap' \in [Layer -> [Expert -> GSlot \cup {None}]]
  <2>1. Unmapped(gmap[l], victim) \in [Expert -> GSlot \cup {None}]
    BY <1>0 DEF Unmapped
  <2> QED BY <1>0, <2>1 DEF Promote
<1>5. ram' \in [Layer -> [Slot -> RamSlot]]
  <2>1. [Empty EXCEPT !.expert = victim] \in RamSlot
    BY <1>2 DEF Empty, RamSlot
  <2>2. [ram[l][s] EXCEPT !.soa = FALSE] \in RamSlot
    <3>1. ram[l][s] \in RamSlot
      BY <1>0
    <3> QED BY <3>1 DEF RamSlot
  <2> QED BY <1>0, <1>1, <2>1, <2>2 DEF Promote
<1>6. map' \in [Layer -> [Expert -> Slot \cup {None}]]
  <2>1. to # None => Unmapped(map[l], ram[l][to].expert) \in [Expert -> Slot \cup {None}]
    BY <1>0 DEF Unmapped
  <2> QED BY <1>0, <2>1 DEF Promote
<1>7. free' \in [Layer -> Seq(Slot)]
  BY <1>0, SwapTargetTypes DEF Promote
<1>8. swaps' \in Seq(SwapRec)
  <2>1. [layer |-> l, promoted |-> e, from |-> s, victim |-> victim, to |-> to, ring |-> r] \in SwapRec
    BY <1>1, <1>2 DEF SwapRec
  <2> QED BY <1>0, <2>1 DEF Promote
<1>9. ringBusy' \subseteq Ring
  BY <1>0, <1>1 DEF Promote
<1>10. cq' \in Seq(CqOp)
  <2>1. ram'[l][s].soa \in BOOLEAN
    BY <1>5 DEF RamSlot
  <2>2. Upload(l, s, g, ram'[l][s].soa) \in CqOp
    BY <2>1, OpTypes
  <2>3. r # None => Stage(l, g, r) \in CqOp
    BY <1>1, OpTypes
  <2>4. to # None => ReadBack(l, g, to) \in CqOp
    BY <1>1, OpTypes
  <2>5. cq' = (IF to = None THEN cq
               ELSE IF r # None THEN Append(cq, Stage(l, g, r)) ELSE Append(cq, ReadBack(l, g, to)))
              \o <<Upload(l, s, g, ram'[l][s].soa)>>
    BY DEF Promote
  <2> QED BY <1>0, <2>2, <2>3, <2>4, <2>5
<1> QED BY <1>1, <1>3, <1>4, <1>5, <1>6, <1>7, <1>8, <1>9, <1>10

-----------------------------------------------------------------------------
\* land_layer(), the reads and the reaping keep the types they change.
LEMMA LandTypes ==
    ASSUME Types, NEW l \in Layer, LandLayer(l)
    PROVE  landing' \in Seq(SwapRec) /\ ringBusy' \subseteq Ring
<1>1. landing \in Seq(SwapRec) /\ ringBusy \subseteq Ring
  BY DEF Types, TypeOK
<1>2. landing' = landing \/ landing' = <<>>
  BY DEF LandLayer
<1>3. ringBusy' \subseteq ringBusy
  BY DEF LandLayer
<1>4. landing' \in Seq(SwapRec)
  <2>1. <<>> \in Seq(SwapRec)
    OBVIOUS
  <2> QED BY <1>1, <1>2, <2>1
<1>5. ringBusy' \subseteq Ring
  BY <1>1, <1>3
<1> QED BY <1>4, <1>5

LEMMA ReadTypes ==
    ASSUME Types, NEW rs \in SUBSET ReadRec, Reads(rs)
    PROVE  disk' \subseteq ReadRec /\ rbytes' \in [Layer -> [Slot -> AllBytes]]
BY ByteTypes DEF Types, TypeOK, Reads

LEMMA ReapTypes ==
    ASSUME Types
    PROVE  Reaped \in [Layer -> [Slot -> RamSlot]] /\ StillFlying \subseteq Layer \X Expert \X Slot
<1>1. \A l \in Layer, s \in Slot : ram[l][s] \in RamSlot /\ [ram[l][s] EXCEPT !.valid = TRUE] \in RamSlot
  <2> TAKE l \in Layer, s \in Slot
  <2>1. ram[l][s] \in RamSlot
    BY DEF Types, TypeOK
  <2> QED BY <2>1 DEF RamSlot
<1> QED BY <1>1 DEF Reaped, StillFlying, Types, TypeOK

LEMMA HandleTypes ==
    ASSUME Types
    PROVE  /\ \A e \in Expert, gpu \in BOOLEAN, s \in Slot \cup GSlot, cold, ready \in BOOLEAN :
                  Handle(e, gpu, s, cold, ready) \in HandleRec
           /\ \A es : ReadyFor(es) \subseteq HandleRec
<1>1. \A h \in handles : h \in HandleRec /\ [h EXCEPT !.ready = TRUE] \in HandleRec
  BY DEF Types, TypeOK, HandleRec
<1> QED BY <1>1 DEF Handle, HandleRec, ReadyFor

\* An operation in progress that changes its list, its claims or its place.
LEMMA FetchEdits ==
    ASSUME Types, NEW todo \in Seq(Expert)
    PROVE  /\ [fetch EXCEPT !.todo = todo] \in FetchRec
           /\ \A n \in Nat : [fetch EXCEPT !.todo = todo, !.promoted = n] \in FetchRec
           /\ \A c \in SUBSET (Expert \X Slot \X BOOLEAN) :
                  [fetch EXCEPT !.todo = todo, !.claims = c] \in FetchRec
<1>1. fetch \in FetchRec
  BY DEF Types, FetchOK
<1>2. [fetch EXCEPT !.todo = todo] \in FetchRec
  BY <1>1 DEF FetchRec
<1>3. \A n \in Nat : [fetch EXCEPT !.todo = todo, !.promoted = n] \in FetchRec
  BY <1>1, ZenonT(40) DEF FetchRec
<1>4. \A c \in SUBSET (Expert \X Slot \X BOOLEAN) :
         [fetch EXCEPT !.todo = todo, !.claims = c] \in FetchRec
  BY <1>1, ZenonT(40) DEF FetchRec
<1> QED BY <1>2, <1>3, <1>4

\* The steps of a fetch that serves its list.
LEMMA ServeFacts ==
    ASSUME Types, NEW e \in Expert, Serving(e)
    PROVE  /\ fetch.pc = "serve" /\ fetch.layer \in Layer /\ failed < MaxFail
           /\ Tail(fetch.todo) \in Seq(Expert) /\ IsFiniteSet(fetch.claims)
           /\ fetch.claims \in SUBSET (Expert \X Slot \X BOOLEAN) /\ fetch.promoted \in Nat
           /\ Served => FetchOK' \/ failed' # failed
<1>1. fetch.pc = "serve" /\ fetch.todo # <<>> /\ fetch \in FetchRec
  BY DEF Serving, Types, FetchOK
<1>2. fetch.todo \in Seq(Expert) /\ fetch.claims \in SUBSET (Expert \X Slot \X BOOLEAN) /\ fetch.promoted \in Nat
  BY <1>1 DEF FetchRec
<1>3. Tail(fetch.todo) \in Seq(Expert)
  BY <1>1, <1>2
<1>4. IsFiniteSet(fetch.claims) /\ fetch.layer \in Layer /\ failed < MaxFail
  BY <1>1 DEF Types, FetchOK, AtLayer
<1>5. ASSUME Served, failed' = failed PROVE FetchOK'
  <2>1. fetch' \in FetchRec
    BY <1>5, <1>1, <1>2, <1>3, FetchEdits DEF Served
  <2>2. fetch'.claims = fetch.claims /\ fetch'.layer = fetch.layer /\ fetch'.pc = "serve"
    BY <1>1, <1>5 DEF Served, FetchRec
  <2> QED BY <1>4, <1>5, <2>1, <2>2 DEF FetchOK
<1> QED BY <1>1, <1>2, <1>3, <1>4, <1>5

LEMMA ClaimEdit ==
    ASSUME Types, NEW e \in Expert, Serving(e), NEW v \in Slot, NEW cold \in BOOLEAN,
           failed' = failed,
           fetch' = [fetch EXCEPT !.todo = Tail(@), !.claims = @ \cup {<<e, v, cold>>}]
    PROVE  FetchOK'
<1> DEFINE c == fetch.claims \cup {<<e, v, cold>>}
<1>1. c \in SUBSET (Expert \X Slot \X BOOLEAN)
  BY ServeFacts
<1>2. IsFiniteSet(c)
  BY ServeFacts, FS_AddElement
<1>3. fetch' = [fetch EXCEPT !.todo = Tail(fetch.todo), !.claims = c] /\ fetch \in FetchRec
  BY DEF Types, FetchOK
<1> HIDE DEF c
<1>4. fetch' \in FetchRec
  <2>1. Tail(fetch.todo) \in Seq(Expert)
    BY ServeFacts
  <2> QED BY <1>1, <1>3, <2>1, FetchEdits, ZenonT(40)
<1>5. fetch'.claims = c /\ fetch'.layer = fetch.layer /\ fetch'.pc = "serve"
  BY <1>1, <1>3, ServeFacts DEF FetchRec
<1> QED BY <1>2, <1>4, <1>5, ServeFacts DEF FetchOK

LEMMA ServeVramTypes ==
    ASSUME Types, NEW e \in Expert, ServeVram(e)
    PROVE  Types'
<1>a. TablesOK /\ HostOK /\ DeviceOK /\ FetchOK /\ QueuesOK
  BY TypeParts
<1>b. /\ fetch.pc = "serve" /\ fetch.layer \in Layer /\ failed < MaxFail
      /\ Tail(fetch.todo) \in Seq(Expert) /\ fetch.promoted \in Nat
      /\ Served => FetchOK' \/ failed' # failed
  BY ServeFacts DEF ServeVram
<1>1. gmap[fetch.layer][e] \in GSlot
  BY <1>a, <1>b, SlotTypes DEF ServeVram
<1>2. Handle(e, TRUE, gmap[fetch.layer][e], FALSE, TRUE) \in HandleRec
  BY <1>a, <1>b, <1>1, HandleTypes
<1>3. FetchOK'
  BY <1>a, <1>b DEF ServeVram
<1>4. TablesOK'
  BY <1>a, <1>b, <1>1 DEF ServeVram, TablesOK
<1>5. HostOK'
  BY <1>a, <1>b, <1>2 DEF ServeVram, HostOK
<1>6. DeviceOK' /\ QueuesOK'
  BY <1>a, <1>b DEF ServeVram, DeviceOK, QueuesOK, device
<1> QED BY <1>3, <1>4, <1>5, <1>6, TypeParts

LEMMA ServeClaimedTypes ==
    ASSUME Types, NEW e \in Expert, ServeClaimed(e)
    PROVE  Types'
<1>a. TablesOK /\ HostOK /\ DeviceOK /\ FetchOK /\ QueuesOK
  BY TypeParts
<1>b. /\ fetch.pc = "serve" /\ fetch.layer \in Layer /\ failed < MaxFail
      /\ Tail(fetch.todo) \in Seq(Expert) /\ fetch.promoted \in Nat
      /\ Served => FetchOK' \/ failed' # failed
  BY ServeFacts DEF ServeClaimed
<1> DEFINE l == fetch.layer
           cs == map[l][e]
<1>1. cs \in Slot
  BY <1>a, <1>b DEF ServeClaimed, TablesOK
<1>2. ram[l][cs].cold \in BOOLEAN
  BY <1>a, <1>b, <1>1 DEF ServeClaimed, TablesOK, RamSlot
<1>3. Handle(e, FALSE, cs, ram[l][cs].cold, FALSE) \in HandleRec
  BY <1>a, <1>b, <1>1, <1>2, HandleTypes
<1>4. FetchOK'
  BY <1>a, <1>b DEF ServeClaimed
<1>5. hotw' \subseteq Layer \X Expert
  BY <1>a, <1>b DEF ServeClaimed, TablesOK
<1>6. TablesOK'
  BY <1>a, <1>b, <1>5 DEF ServeClaimed, TablesOK
<1>7. HostOK'
  <2>1. /\ live' = live \cup {cs} /\ pend' = pend \cup {<<e, cs>>}
        /\ handles' = handles \cup {Handle(e, FALSE, cs, ram[l][cs].cold, FALSE)}
        /\ UNCHANGED <<rel, swaps, landing, ringBusy, failed, pf>>
    BY DEF ServeClaimed
  <2>2. live' \subseteq Slot /\ pend' \subseteq Expert \X Slot
    BY <1>a, <1>1, <2>1 DEF HostOK
  <2>3. handles' \subseteq HandleRec
    BY <1>a, <1>3, <2>1 DEF HostOK
  <2> QED BY <1>a, <2>1, <2>2, <2>3 DEF HostOK
<1>8. DeviceOK' /\ QueuesOK'
  BY <1>a, <1>b DEF ServeClaimed, DeviceOK, QueuesOK, device
<1> QED BY <1>4, <1>6, <1>7, <1>8, TypeParts

LEMMA ServeRamTypes ==
    ASSUME Types, NEW e \in Expert, ServeRam(e)
    PROVE  Types'
<1>a. TablesOK /\ HostOK /\ DeviceOK /\ FetchOK /\ QueuesOK
  BY TypeParts
<1>b. /\ fetch.pc = "serve" /\ fetch.layer \in Layer /\ failed < MaxFail
      /\ Tail(fetch.todo) \in Seq(Expert) /\ fetch.promoted \in Nat
      /\ Served => FetchOK' \/ failed' # failed
  BY ServeFacts DEF ServeRam
<1> DEFINE l == fetch.layer
           s == FindSlot(l, e)
<1>1. s \in Slot
  BY <1>a, <1>b, SlotTypes DEF ServeRam
<1>2. ram[l][s] \in RamSlot
  BY <1>a, <1>b, <1>1 DEF ServeRam, TablesOK
<1>3. ram[l][s].cold \in BOOLEAN /\ ram[l][s].soa \in BOOLEAN /\ [ram[l][s] EXCEPT !.soa = FALSE] \in RamSlot
  BY <1>a, <1>b, <1>2 DEF RamSlot
<1>4. Handle(e, FALSE, s, ram[l][s].cold, TRUE) \in HandleRec
  BY <1>a, <1>b, <1>1, <1>3, HandleTypes
<1>5. FileLayout(rbytes[l][s], ram[l][s].soa) \in AllBytes
  BY <1>a, <1>b, <1>1, <1>3, ByteTypes DEF ServeRam, DeviceOK
<1>6. FetchOK'
  BY <1>a, <1>b DEF ServeRam
<1>7. TablesOK'
  BY <1>a, <1>b, <1>1, <1>3 DEF ServeRam, TablesOK
<1>8. HostOK'
  BY <1>a, <1>b, <1>1, <1>4 DEF ServeRam, HostOK
<1>9. DeviceOK' /\ QueuesOK'
  BY <1>a, <1>b, <1>1, <1>5 DEF ServeRam, DeviceOK, QueuesOK
<1> QED BY <1>6, <1>7, <1>8, <1>9, TypeParts

LEMMA ServeUpgradeTypes ==
    ASSUME Types, NEW e \in Expert, ServeUpgrade(e)
    PROVE  Types'
<1>a. TablesOK /\ HostOK /\ DeviceOK /\ FetchOK /\ QueuesOK
  BY TypeParts
<1>b. /\ fetch.pc = "serve" /\ fetch.layer \in Layer /\ failed < MaxFail
      /\ Tail(fetch.todo) \in Seq(Expert) /\ fetch.promoted \in Nat
      /\ Served => FetchOK' \/ failed' # failed
  BY ServeFacts DEF ServeUpgrade
<1> DEFINE l == fetch.layer
           s == FindSlot(l, e)
<1>1. s \in Slot
  BY <1>a, <1>b, SlotTypes DEF ServeUpgrade
<1>2. [ram[l][s] EXCEPT !.valid = FALSE, !.cold = FALSE] \in RamSlot
  <2>1. ram[l][s] \in RamSlot
    BY <1>a, <1>b, <1>1 DEF TablesOK
  <2> QED BY <2>1 DEF RamSlot
<1>3. ram' \in [Layer -> [Slot -> RamSlot]]
  BY <1>a, <1>b, <1>1, <1>2, ZenonT(40) DEF ServeUpgrade, TablesOK
<1>4. Handle(e, FALSE, s, FALSE, FALSE) \in HandleRec
  BY <1>a, <1>b, <1>1, HandleTypes
<1>5. FetchOK'
  BY <1>a, <1>b, <1>1, ClaimEdit DEF ServeUpgrade
<1>6. TablesOK'
  BY <1>a, <1>b, <1>3, SMTT(30) DEF ServeUpgrade, TablesOK
<1>7. HostOK'
  BY <1>a, <1>b, <1>1, <1>4 DEF ServeUpgrade, HostOK
<1>8. DeviceOK' /\ QueuesOK'
  BY <1>a, <1>b DEF ServeUpgrade, DeviceOK, QueuesOK, device
<1> QED BY <1>5, <1>6, <1>7, <1>8, TypeParts

LEMMA IdleType ==
    ASSUME fetch' = NoFetch
    PROVE  FetchOK'
BY NoFetchType DEF FetchOK, NoFetch, AtLayer

LEMMA ServeFailsTypes ==
    ASSUME Types, NEW e \in Expert, ServeFails(e)
    PROVE  Types'
<1>a. TablesOK /\ HostOK /\ DeviceOK /\ FetchOK /\ QueuesOK
  BY TypeParts
<1>b. /\ fetch.pc = "serve" /\ fetch.layer \in Layer /\ failed < MaxFail
      /\ Tail(fetch.todo) \in Seq(Expert) /\ fetch.promoted \in Nat
      /\ Served => FetchOK' \/ failed' # failed
  BY ServeFacts DEF ServeFails
<1>1. failed + 1 \in 0..MaxFail
  BY <1>a, <1>b, CacheConstants DEF HostOK, ServeFails
<1>2. FetchOK'
  BY <1>a, <1>b, IdleType DEF ServeFails
<1>3. TablesOK' /\ HostOK'
  BY <1>a, <1>b, <1>1 DEF ServeFails, TablesOK, HostOK, tables
<1>4. DeviceOK' /\ QueuesOK'
  BY <1>a, <1>b DEF ServeFails, DeviceOK, QueuesOK, device
<1> QED BY <1>2, <1>3, <1>4, TypeParts

LEMMA ServePromoteTypes ==
    ASSUME Types, NEW e \in Expert, NEW g \in GSlot, NEW pick, NEW r, ServePromote(e, g, pick, r)
    PROVE  Types'
<1>a. TablesOK /\ HostOK /\ DeviceOK /\ FetchOK /\ QueuesOK
  BY TypeParts
<1>b. /\ fetch.pc = "serve" /\ fetch.layer \in Layer /\ failed < MaxFail
      /\ Tail(fetch.todo) \in Seq(Expert) /\ fetch.promoted \in Nat
      /\ Served => FetchOK' \/ failed' # failed
  BY ServeFacts DEF ServePromote
<1> DEFINE l == fetch.layer
           s == FindSlot(l, e)
<1>1. s \in Slot /\ Promote(l, e, s, g, pick, r)
  BY <1>a, <1>b, SlotTypes DEF ServePromote
<1>2. Handle(e, TRUE, g, FALSE, TRUE) \in HandleRec
  BY <1>a, <1>b, HandleTypes
<1>3. FetchOK'
  <2>1. fetch' = [fetch EXCEPT !.todo = Tail(fetch.todo), !.promoted = fetch.promoted + 1]
    BY DEF ServePromote
  <2>2. fetch' \in FetchRec
    <3> DEFINE n == fetch.promoted + 1
               todo == Tail(fetch.todo)
    <3>1. n \in Nat /\ todo \in Seq(Expert) /\ fetch' = [fetch EXCEPT !.todo = todo, !.promoted = n]
      BY <1>b, <2>1
    <3> HIDE DEF n, todo
    <3> QED BY <3>1, FetchEdits
  <2>3. fetch'.claims = fetch.claims /\ fetch'.layer = l /\ fetch'.pc = "serve"
    BY <1>a, <1>b, <2>1 DEF FetchRec, FetchOK
  <2> QED BY <1>a, <1>b, <2>2, <2>3 DEF FetchOK, ServePromote
<1>4. TablesOK'
  BY <1>a, <1>b, <1>1, PromoteTypes DEF ServePromote, TablesOK
<1>5. HostOK'
  <2>1. /\ live' = live \cup {s} /\ rel' = rel \cup {<<l, s>>}
        /\ handles' = handles \cup {Handle(e, TRUE, g, FALSE, TRUE)}
        /\ UNCHANGED <<landing, pend, failed, pf>>
    BY DEF ServePromote
  <2>2. swaps' \in Seq(SwapRec) /\ ringBusy' \subseteq Ring
    BY <1>b, <1>1, PromoteTypes
  <2>3. live' \subseteq Slot /\ rel' \subseteq Layer \X Slot
    BY <1>a, <1>b, <1>1, <2>1 DEF HostOK
  <2>4. handles' \subseteq HandleRec
    BY <1>a, <1>2, <2>1 DEF HostOK
  <2> QED BY <1>a, <2>1, <2>2, <2>3, <2>4 DEF HostOK
<1>6. DeviceOK' /\ QueuesOK'
  BY <1>a, <1>b, <1>1, PromoteTypes DEF ServePromote, DeviceOK, QueuesOK
<1> QED BY <1>3, <1>4, <1>5, <1>6, TypeParts

LEMMA ServeMissTypes ==
    ASSUME Types, NEW e \in Expert, NEW v \in Slot, NEW cold \in BOOLEAN, ServeMiss(e, v, cold)
    PROVE  Types'
<1>a. TablesOK /\ HostOK /\ DeviceOK /\ FetchOK /\ QueuesOK
  BY TypeParts
<1>b. /\ fetch.pc = "serve" /\ fetch.layer \in Layer /\ failed < MaxFail
      /\ Tail(fetch.todo) \in Seq(Expert) /\ fetch.promoted \in Nat
      /\ Served => FetchOK' \/ failed' # failed
  BY ServeFacts DEF ServeMiss
<1>1. FetchOK'
  BY <1>a, <1>b, ClaimEdit DEF ServeMiss
<1>2. Handle(e, FALSE, v, cold, FALSE) \in HandleRec
  BY <1>a, <1>b, HandleTypes
<1>3. ram' \in [Layer -> [Slot -> RamSlot]] /\ map' \in [Layer -> [Expert -> Slot \cup {None}]]
  BY <1>a, <1>b, ClaimTypes DEF ServeMiss, TablesOK
<1>4. hotw' \subseteq Layer \X Expert
  BY <1>a, <1>b DEF ServeMiss, TablesOK
<1>5. TablesOK'
  BY <1>a, <1>b, <1>3, <1>4 DEF ServeMiss, TablesOK
<1>6. HostOK'
  BY <1>a, <1>b, <1>2 DEF ServeMiss, HostOK
<1>7. DeviceOK' /\ QueuesOK'
  BY <1>a, <1>b DEF ServeMiss, DeviceOK, QueuesOK, device
<1> QED BY <1>1, <1>5, <1>6, <1>7, TypeParts

LEMMA FetchStartTypes ==
    ASSUME Types, NEW l \in Layer, NEW list \in Lists, FetchStart(l, list)
    PROVE  Types'
<1>a. TablesOK /\ HostOK /\ DeviceOK /\ FetchOK /\ QueuesOK
  BY TypeParts
<1>1. list \in Seq(Expert)
  <2>1. PICK n \in 1..MaxFetch : list \in [1..n -> Expert]
    BY DEF Lists
  <2>2. n \in Nat
    BY CacheConstants
  <2> QED BY <2>1, <2>2
<1>2. landing' \in Seq(SwapRec) /\ ringBusy' \subseteq Ring
  BY LandTypes DEF FetchStart
<1>3. FetchOK'
  <2> DEFINE f == [NoFetch EXCEPT !.pc = "serve", !.layer = l, !.todo = list]
  <2>1. f \in FetchRec /\ f.claims = {} /\ f.layer = l /\ f.pc = "serve"
    BY <1>1, NoFetchType, ZenonT(40) DEF NoFetch, FetchRec
  <2> HIDE DEF f
  <2>2. fetch' = f /\ failed' = failed /\ failed < MaxFail
    BY DEF FetchStart, f
  <2> QED BY <2>1, <2>2, FS_EmptySet DEF FetchOK
<1>4. gused' \subseteq Layer \X GSlot
  <2>1. \A x \in Expert : InVram(l, x) => <<l, gmap[l][x]>> \in Layer \X GSlot
    BY SlotTypes
  <2>2. ToSet(list) \subseteq Expert
    BY <1>1 DEF ToSet
  <2>3. gused' = {<<l, gmap[l][x]>> : x \in {x \in ToSet(list) : InVram(l, x)}}
    BY DEF FetchStart
  <2> QED BY <2>1, <2>2, <2>3
<1>5. TablesOK'
  BY <1>a, <1>4 DEF FetchStart, TablesOK
<1>6. HostOK'
  <2>1. /\ live' \subseteq Slot /\ handles' = {} /\ pend' = {}
        /\ UNCHANGED <<rel, swaps, pf, failed>>
    BY DEF FetchStart
  <2> QED BY <1>a, <1>2, <2>1 DEF HostOK
<1>7. DeviceOK' /\ QueuesOK'
  BY <1>a DEF FetchStart, DeviceOK, QueuesOK, device
<1> QED BY <1>3, <1>5, <1>6, <1>7, TypeParts

LEMMA GpuTypes ==
    ASSUME Types
    PROVE  {<<h.slot, h.e>> : h \in {x \in handles : x.gpu}} \in SUBSET ((Slot \cup GSlot) \X Expert)
BY DEF Types, TypeOK, HandleRec

LEMMA FetchSubmitTypes ==
    ASSUME Types, FetchSubmit
    PROVE  Types'
<1>a. TablesOK /\ HostOK /\ DeviceOK /\ FetchOK /\ QueuesOK
  BY TypeParts
<1> DEFINE l == fetch.layer
           gpu == {<<h.slot, h.e>> : h \in {x \in handles : x.gpu}}
           rs == {[l |-> l, s |-> c[2], e |-> c[1], cold |-> c[3], spec |-> FALSE] : c \in fetch.claims}
           nh == Cardinality({c \in fetch.claims : ~c[3]})
           nc == Cardinality({c \in fetch.claims : c[3]})
           need == [hot |-> nh, cold |-> nc]
<1>1. l \in Layer /\ fetch \in FetchRec /\ fetch.claims \subseteq Expert \X Slot \X BOOLEAN
  BY <1>a DEF FetchSubmit, FetchOK, FetchRec, AtLayer
<1>2. rs \in SUBSET ReadRec
  <2>1. \A c \in fetch.claims : c[1] \in Expert /\ c[2] \in Slot /\ c[3] \in BOOLEAN
    BY <1>1
  <2>2. \A c \in fetch.claims : [l |-> l, s |-> c[2], e |-> c[1], cold |-> c[3], spec |-> FALSE] \in ReadRec
    BY <1>1, <2>1 DEF ReadRec
  <2> QED BY <2>2
<1>3. disk' \subseteq ReadRec /\ rbytes' \in [Layer -> [Slot -> AllBytes]]
  <2>1. Reads(rs)
    BY DEF FetchSubmit
  <2> HIDE DEF rs
  <2> QED BY <1>2, <2>1, ReadTypes
<1>4. nh \in Nat /\ nc \in Nat
  BY <1>a, FS_Subset, FS_CardinalityType DEF FetchOK
<1>5. cq' \in Seq(CqOp)
  <2>1. Use(l, gpu) \in CqOp
    BY <1>1, GpuTypes, UseType
  <2>2. cq' = cq \/ cq' = Append(cq, Use(l, gpu))
    BY DEF FetchSubmit
  <2> QED BY <1>a, <2>1, <2>2 DEF QueuesOK
<1>6. FetchOK'
  <2>1. need \in [hot : Nat, cold : Nat]
    BY <1>4
  <2>2. fetch' = [fetch EXCEPT !.pc = "begun", !.need = need] /\ failed' = failed /\ fetch.pc = "serve"
    BY DEF FetchSubmit
  <2> HIDE DEF need
  <2>3. fetch' \in FetchRec /\ fetch'.claims = fetch.claims /\ fetch'.layer = l /\ fetch'.pc = "begun"
    BY <1>1, <2>1, <2>2 DEF FetchRec
  <2> QED BY <1>a, <1>1, <2>2, <2>3 DEF FetchOK
<1>7. TablesOK' /\ HostOK'
  BY <1>a DEF FetchSubmit, TablesOK, HostOK, tables
<1>8. DeviceOK' /\ QueuesOK'
  <2>1. UNCHANGED <<landed, sideq, gbytes, sbytes>>
    BY DEF FetchSubmit
  <2> QED BY <1>a, <1>3, <1>5, <2>1 DEF DeviceOK, QueuesOK
<1> QED BY <1>6, <1>7, <1>8, TypeParts

-----------------------------------------------------------------------------
\* The speculative reads.
LEMMA PrefetchBeginTypes ==
    ASSUME Types, NEW l \in Layer, NEW e \in Expert, NEW v \in Slot, NEW cold \in BOOLEAN,
           PrefetchBegin(l, e, v, cold)
    PROVE  Types'
<1>a. TablesOK /\ HostOK /\ DeviceOK /\ FetchOK /\ QueuesOK
  BY TypeParts
<1> DEFINE rs == {[l |-> l, s |-> v, e |-> e, cold |-> cold, spec |-> TRUE]}
<1>1. rs \in SUBSET ReadRec
  BY DEF ReadRec
<1>2. disk' \subseteq ReadRec /\ rbytes' \in [Layer -> [Slot -> AllBytes]]
  <2>1. Reads(rs)
    BY DEF PrefetchBegin
  <2> HIDE DEF rs
  <2> QED BY <1>1, <2>1, ReadTypes
<1>3. landing' \in Seq(SwapRec) /\ ringBusy' \subseteq Ring
  BY LandTypes DEF PrefetchBegin
<1>4. ram' \in [Layer -> [Slot -> RamSlot]] /\ map' \in [Layer -> [Expert -> Slot \cup {None}]]
  <2>1. ram' = ClaimRam(Reaped, l, v, e, cold) /\ map' = ClaimMap(ram, l, v, e)
    BY DEF PrefetchBegin
  <2>2. ram \in [Layer -> [Slot -> RamSlot]]
    BY <1>a DEF TablesOK
  <2> QED BY <2>1, <2>2, ReapTypes, ClaimTypes
<1>5. hotw' \subseteq Layer \X Expert
  BY <1>a DEF PrefetchBegin, TablesOK
<1>6. pf' \subseteq Layer \X Expert \X Slot
  <2>1. pf' = StillFlying \cup {<<l, e, v>>}
    BY DEF PrefetchBegin
  <2> QED BY <2>1, ReapTypes
<1>7. /\ UNCHANGED <<free, vram, gmap, gused, lent>>
      /\ UNCHANGED <<live, rel, swaps, handles, pend, failed, fetch>>
      /\ UNCHANGED <<landed, cq, sideq, gbytes, sbytes>>
  BY DEF PrefetchBegin
<1>8. TablesOK'
  BY <1>a, <1>4, <1>5, <1>7 DEF TablesOK
<1>9. HostOK'
  BY <1>a, <1>3, <1>6, <1>7 DEF HostOK
<1>10. DeviceOK' /\ QueuesOK' /\ FetchOK'
  BY <1>a, <1>2, <1>7 DEF DeviceOK, QueuesOK, FetchOK
<1> QED BY <1>8, <1>9, <1>10, TypeParts

LEMMA PrefetchReapTypes ==
    ASSUME Types, PrefetchReap
    PROVE  Types'
<1>a. TablesOK /\ HostOK /\ DeviceOK /\ FetchOK /\ QueuesOK
  BY TypeParts
<1>1. /\ ram' = Reaped /\ pf' = StillFlying
      /\ UNCHANGED <<map, free, vram, gmap, gused, lent, hotw>>
      /\ UNCHANGED <<live, rel, swaps, landing, ringBusy, handles, pend, failed, fetch, device>>
  BY DEF PrefetchReap
<1>2. TablesOK' /\ HostOK'
  BY <1>a, <1>1, ReapTypes DEF TablesOK, HostOK
<1>3. DeviceOK' /\ QueuesOK' /\ FetchOK'
  BY <1>a, <1>1 DEF DeviceOK, QueuesOK, FetchOK, device
<1> QED BY <1>2, <1>3, TypeParts

-----------------------------------------------------------------------------
\* The end of a fetch.
LEMMA SettlePendingTypes ==
    ASSUME Types, SettlePending
    PROVE  Types'
<1>a. TablesOK /\ HostOK /\ DeviceOK /\ FetchOK /\ QueuesOK
  BY TypeParts
<1> DEFINE lost == Lost(fetch.layer)
<1>1. lost \in SUBSET (Expert \X Slot)
  BY <1>a DEF HostOK, Lost
<1>2. /\ ram' = Reaped /\ pf' = StillFlying /\ pend' = {}
      /\ fetch' = IF lost = {} THEN fetch ELSE [fetch EXCEPT !.pc = "reread", !.lost = lost]
      /\ UNCHANGED <<map, free, vram, gmap, gused, lent, hotw>>
      /\ UNCHANGED <<live, rel, swaps, landing, ringBusy, failed, device>>
      /\ fetch.pc = "begun"
  BY DEF SettlePending
<1>3. handles' \subseteq HandleRec
  BY <1>a, HandleTypes DEF SettlePending, HostOK
<1> HIDE DEF lost
<1>4. FetchOK'
  <2>1. CASE lost = {}
    BY <1>a, <1>2, <2>1 DEF FetchOK
  <2>2. CASE lost # {}
    <3>1. fetch \in FetchRec
      BY <1>a DEF FetchOK
    <3>2. fetch' = [fetch EXCEPT !.pc = "reread", !.lost = lost]
      BY <1>2, <2>2
    <3>3. fetch' \in FetchRec /\ fetch'.claims = fetch.claims /\ fetch'.layer = fetch.layer /\ fetch'.pc = "reread"
      BY <3>1, <3>2, <1>1 DEF FetchRec
    <3> QED BY <1>a, <1>2, <3>3 DEF FetchOK, AtLayer
  <2> QED BY <2>1, <2>2
<1>5. TablesOK'
  BY <1>a, <1>2, ReapTypes DEF TablesOK
<1>6. HostOK'
  BY <1>a, <1>2, <1>3, ReapTypes DEF HostOK
<1>7. DeviceOK' /\ QueuesOK'
  BY <1>a, <1>2 DEF DeviceOK, QueuesOK, device
<1> QED BY <1>4, <1>5, <1>6, <1>7, TypeParts

LEMMA RereadTypes ==
    ASSUME Types, NEW p \in fetch.lost, Reread(p)
    PROVE  Types'
<1>a. TablesOK /\ HostOK /\ DeviceOK /\ FetchOK /\ QueuesOK
  BY TypeParts
<1> DEFINE rs == {[l |-> fetch.layer, s |-> p[2], e |-> p[1], cold |-> FALSE, spec |-> FALSE]}
<1>0. fetch \in FetchRec /\ fetch.layer \in Layer /\ p \in Expert \X Slot
  BY <1>a DEF Reread, FetchOK, AtLayer, FetchRec
<1>1. rs \in SUBSET ReadRec
  BY <1>0 DEF ReadRec
<1>2. disk' \subseteq ReadRec /\ rbytes' \in [Layer -> [Slot -> AllBytes]]
  <2>1. Reads(rs)
    BY DEF Reread
  <2> HIDE DEF rs
  <2> QED BY <1>1, <2>1, ReadTypes
<1>3. FetchOK'
  <2>1. fetch' = [fetch EXCEPT !.reading = p] /\ failed' = failed
    BY DEF Reread
  <2>2. fetch' \in FetchRec /\ fetch'.claims = fetch.claims /\ fetch'.layer = fetch.layer /\ fetch'.pc = fetch.pc
        /\ fetch'.deferred = fetch.deferred
    BY <1>0, <2>1 DEF FetchRec
  <2> QED BY <1>a, <2>1, <2>2 DEF FetchOK
<1>4. TablesOK' /\ HostOK'
  BY <1>a DEF Reread, TablesOK, HostOK, tables
<1>5. UNCHANGED <<landed, cq, sideq, gbytes, sbytes>>
  BY DEF Reread
<1>6. DeviceOK' /\ QueuesOK'
  BY <1>a, <1>2, <1>5 DEF DeviceOK, QueuesOK
<1> QED BY <1>3, <1>4, <1>6, TypeParts

LEMMA RereadReturnsTypes ==
    ASSUME Types, RereadReturns
    PROVE  Types'
<1>a. TablesOK /\ HostOK /\ DeviceOK /\ FetchOK /\ QueuesOK
  BY TypeParts
<1> DEFINE l == fetch.layer
           p == fetch.reading
           left == fetch.lost \ {p}
           pc == IF left = {} THEN "begun" ELSE "reread"
<1>0. fetch \in FetchRec /\ l \in Layer /\ p \in Expert \X Slot /\ fetch.pc = "reread"
  BY <1>a DEF RereadReturns, FetchOK, AtLayer, FetchRec
<1>1. left \in SUBSET (Expert \X Slot)
  BY <1>0 DEF FetchRec
<1>2. ram' \in [Layer -> [Slot -> RamSlot]]
  <2>1. ram[l][p[2]] \in RamSlot
    BY <1>a, <1>0 DEF TablesOK
  <2>2. [ram[l][p[2]] EXCEPT !.valid = TRUE, !.cold = FALSE] \in RamSlot
    BY <2>1 DEF RamSlot
  <2> QED BY <1>a, <1>0, <2>2, ZenonT(40) DEF TablesOK, RereadReturns
<1>3. FetchOK'
  <2>1. fetch' = [fetch EXCEPT !.lost = left, !.reading = None, !.pc = pc] /\ failed' = failed
    BY <1>0 DEF RereadReturns
  <2>2. pc \in {"begun", "reread"}
    OBVIOUS
  <2> HIDE DEF left, pc
  <2>3. fetch' \in FetchRec /\ fetch'.claims = fetch.claims /\ fetch'.layer = l /\ fetch'.pc = pc
        /\ fetch'.deferred = fetch.deferred
    BY <1>0, <1>1, <2>1, <2>2 DEF FetchRec
  <2> QED BY <1>a, <1>0, <2>1, <2>2, <2>3 DEF FetchOK
<1>4. handles' \subseteq HandleRec
  BY <1>a, HandleTypes DEF RereadReturns, HostOK
<1>5. landed' \in [hot : Nat, cold : Nat]
  BY <1>a DEF RereadReturns, DeviceOK
<1>6. TablesOK' /\ HostOK'
  BY <1>a, <1>2, <1>4 DEF RereadReturns, TablesOK, HostOK
<1>7. DeviceOK' /\ QueuesOK'
  BY <1>a, <1>5 DEF RereadReturns, DeviceOK, QueuesOK
<1> QED BY <1>3, <1>6, <1>7, TypeParts

LEMMA FetchEndTypes ==
    ASSUME Types, FetchEnd
    PROVE  Types'
<1>a. TablesOK /\ HostOK /\ DeviceOK /\ FetchOK /\ QueuesOK
  BY TypeParts
<1> DEFINE l == fetch.layer
           need == [hot |-> 0, cold |-> 0]
<1>0. fetch \in FetchRec /\ l \in Layer /\ fetch.pc = Ending
  BY <1>a DEF FetchEnd, FetchOK, AtLayer, Ending
<1>1. ram' \in [Layer -> [Slot -> RamSlot]]
  <2>1. \A s \in Slot : ram[l][s] \in RamSlot /\ [ram[l][s] EXCEPT !.valid = TRUE] \in RamSlot
    <3> TAKE s \in Slot
    <3>1. ram[l][s] \in RamSlot
      BY <1>a, <1>0 DEF TablesOK
    <3> QED BY <3>1 DEF RamSlot
  <2>2. [s \in Slot |-> IF \E c \in fetch.claims : c[2] = s /\ ram[l][s].expert = c[1]
                        THEN [ram[l][s] EXCEPT !.valid = TRUE] ELSE ram[l][s]] \in [Slot -> RamSlot]
    BY <2>1
  <2> QED BY <1>a, <1>0, <2>2 DEF TablesOK, FetchEnd
<1>2. FetchOK'
  <2>1. CASE fetch.deferred
    BY <2>1, IdleType DEF FetchEnd
  <2>2. CASE ~fetch.deferred
    <3>1. fetch' = [fetch EXCEPT !.pc = "ended", !.claims = {}, !.need = need]
      BY <2>2 DEF FetchEnd, NoFetch
    <3>2. need \in [hot : Nat, cold : Nat]
      OBVIOUS
    <3> HIDE DEF need
    <3>3. fetch' \in FetchRec /\ fetch'.claims = {} /\ fetch'.layer = l /\ fetch'.pc = "ended"
          /\ ~fetch'.deferred
      BY <1>0, <2>2, <3>1, <3>2 DEF FetchRec
    <3> QED BY <1>0, <3>3, FS_EmptySet DEF FetchOK
  <2> QED BY <2>1, <2>2
<1>3. handles' \subseteq HandleRec
  BY <1>a, HandleTypes DEF FetchEnd, HostOK
<1>4. landed' \in [hot : Nat, cold : Nat]
  BY <1>a DEF FetchEnd, DeviceOK
<1>5. TablesOK' /\ HostOK'
  BY <1>a, <1>1, <1>3 DEF FetchEnd, TablesOK, HostOK
<1>6. DeviceOK' /\ QueuesOK'
  BY <1>a, <1>4 DEF FetchEnd, DeviceOK, QueuesOK
<1> QED BY <1>2, <1>5, <1>6, TypeParts

LEMMA FetchShortTypes ==
    ASSUME Types, FetchShort
    PROVE  Types'
<1>a. TablesOK /\ HostOK /\ DeviceOK /\ FetchOK /\ QueuesOK
  BY TypeParts
<1>1. failed + 1 \in 0..MaxFail
  <2>1. failed < MaxFail
    BY <1>a DEF FetchShort, FetchOK, Ending
  <2> QED BY <1>a, <2>1, CacheConstants DEF HostOK
<1>2. FetchOK'
  BY IdleType DEF FetchShort
<1>3. landed' \in [hot : Nat, cold : Nat]
  BY <1>a DEF FetchShort, DeviceOK
<1>4. TablesOK' /\ HostOK'
  BY <1>a, <1>1 DEF FetchShort, TablesOK, HostOK, tables
<1>5. DeviceOK' /\ QueuesOK'
  BY <1>a, <1>3 DEF FetchShort, DeviceOK, QueuesOK
<1> QED BY <1>2, <1>4, <1>5, TypeParts

-----------------------------------------------------------------------------
\* The settles.
LEMMA SettleLayerTypes ==
    ASSUME Types, SettleLayer
    PROVE  Types'
<1>a. TablesOK /\ HostOK /\ DeviceOK /\ FetchOK /\ QueuesOK
  BY TypeParts
<1>1. FetchOK'
  <2>1. failed' = failed
    BY DEF SettleLayer
  <2>2. CASE fetch.pc = "ended"
    <3> DEFINE f == [NoFetch EXCEPT !.pc = "settle"]
    <3>1. f \in FetchRec /\ f.claims = {} /\ f.pc = "settle" /\ ~f.deferred
      BY NoFetchType DEF NoFetch, FetchRec
    <3> HIDE DEF f
    <3>2. fetch' = f
      BY <2>2 DEF SettleLayer, f
    <3> QED BY <3>1, <3>2, FS_EmptySet DEF FetchOK, AtLayer
  <2>3. CASE fetch.pc # "ended"
    <3>1. fetch \in FetchRec /\ fetch.pc = "begun" /\ fetch.layer \in Layer /\ failed < MaxFail
      BY <1>a, <2>3 DEF SettleLayer, FetchOK, AtLayer
    <3>2. fetch' = [fetch EXCEPT !.pc = "settle", !.deferred = TRUE]
      BY <2>3 DEF SettleLayer
    <3>3. fetch' \in FetchRec /\ fetch'.claims = fetch.claims /\ fetch'.layer = fetch.layer
      BY <3>1, <3>2 DEF FetchRec
    <3> QED BY <1>a, <2>1, <3>1, <3>3 DEF FetchOK
  <2> QED BY <2>2, <2>3
<1>2. ringBusy' \subseteq Ring /\ landing' \in Seq(SwapRec)
  <2>1. ringBusy' \subseteq ringBusy /\ (landing' = landing \/ landing' = <<>>)
    BY DEF SettleLayer
  <2>2. <<>> \in Seq(SwapRec)
    OBVIOUS
  <2> QED BY <1>a, <2>1, <2>2 DEF HostOK
<1>3. rel' = {} /\ handles' = {} /\ UNCHANGED <<tables, live, swaps, pend, pf, device, failed>>
  BY DEF SettleLayer
<1>4. TablesOK' /\ HostOK'
  BY <1>a, <1>2, <1>3 DEF TablesOK, HostOK, tables
<1>5. DeviceOK' /\ QueuesOK'
  BY <1>a, <1>3 DEF DeviceOK, QueuesOK, device
<1> QED BY <1>1, <1>4, <1>5, TypeParts

LEMMA ReleaseTypes ==
    ASSUME NEW R \in [Layer -> [Slot -> RamSlot]], NEW M \in [Layer -> [Expert -> Slot \cup {None}]],
           NEW F \in [Layer -> Seq(Slot)], NEW l \in Layer, NEW s \in Slot
    PROVE  /\ ReleasedRam(R, l, s) \in [Layer -> [Slot -> RamSlot]]
           /\ ReleasedMap(M, R, l, s) \in [Layer -> [Expert -> Slot \cup {None}]]
           /\ ReleasedFree(F, l, s) \in [Layer -> Seq(Slot)]
<1>1. R[l][s].cold \in BOOLEAN
  <2>1. R[l][s] \in RamSlot
    OBVIOUS
  <2> QED BY <2>1 DEF RamSlot
<1>2. [Empty EXCEPT !.cold = R[l][s].cold] \in RamSlot
  BY <1>1 DEF Empty, RamSlot
<1>3. ReleasedRam(R, l, s) \in [Layer -> [Slot -> RamSlot]]
  BY <1>2 DEF ReleasedRam
<1>4. ReleasedMap(M, R, l, s) \in [Layer -> [Expert -> Slot \cup {None}]]
  BY DEF ReleasedMap
<1>5. ReleasedFree(F, l, s) \in [Layer -> Seq(Slot)]
  BY DEF ReleasedFree
<1> QED BY <1>3, <1>4, <1>5

LEMMA FinishSwapTypes ==
    ASSUME Types, FinishSwap
    PROVE  Types'
<1>a. TablesOK /\ HostOK /\ DeviceOK /\ FetchOK /\ QueuesOK
  BY TypeParts
<1> DEFINE sw == Head(swaps)
           l == sw.layer
           away == ram[l][sw.from].expert = sw.promoted /\ map[l][sw.promoted] = sw.from
                   /\ InVram(l, sw.promoted)
           R == IF away THEN ReleasedRam(ram, l, sw.from) ELSE ram
           M == IF away THEN ReleasedMap(map, ram, l, sw.from) ELSE map
           F == IF away THEN ReleasedFree(free, l, sw.from) ELSE free
           held == sw.to # None /\ R[l][sw.to].expert = sw.victim /\ ~R[l][sw.to].valid
           wanted == M[l][sw.victim] = None /\ ~InVram(l, sw.victim)
           lands == held /\ wanted
           back == lands /\ sw.ring # None

<1>0. sw \in SwapRec /\ swaps # <<>> /\ swaps \in Seq(SwapRec) /\ Tail(swaps) \in Seq(SwapRec)
  <2>1. swaps \in Seq(SwapRec) /\ swaps # <<>>
    BY <1>a DEF FinishSwap, HostOK
  <2> QED BY <2>1
<1>1. l \in Layer /\ sw.from \in Slot /\ sw.promoted \in Expert
      /\ sw.to \in Slot \cup {None} /\ sw.victim \in Expert \cup {None} /\ sw.ring \in Ring \cup {None}
  BY <1>0 DEF SwapRec
<1>2. /\ R \in [Layer -> [Slot -> RamSlot]] /\ M \in [Layer -> [Expert -> Slot \cup {None}]]
      /\ F \in [Layer -> Seq(Slot)]
  BY <1>a, <1>1, ReleaseTypes DEF TablesOK
<1>3. held => sw.to \in Slot
  BY <1>1
<1>4. /\ swaps' = Tail(swaps)
      /\ ram' = IF lands
                THEN [R EXCEPT ![l][sw.to] = [expert |-> sw.victim, valid |-> TRUE, cold |-> FALSE, soa |-> TRUE]]
                ELSE IF held THEN ReleasedRam(R, l, sw.to) ELSE R
      /\ map' = IF lands THEN [M EXCEPT ![l][sw.victim] = sw.to]
                ELSE IF held THEN ReleasedMap(M, R, l, sw.to) ELSE M
      /\ free' = IF held /\ ~wanted THEN ReleasedFree(F, l, sw.to) ELSE F
      /\ ringBusy' = IF back THEN ringBusy ELSE ringBusy \ {sw.ring}
      /\ landing' = IF back THEN Append(landing, sw) ELSE landing
      /\ sideq' = IF back THEN Append(sideq, [l |-> l, r |-> sw.ring, s |-> sw.to]) ELSE sideq
      /\ UNCHANGED <<vram, gmap, gused, lent, hotw>> /\ UNCHANGED <<live, rel, fetch, handles, pend, pf, failed>>
      /\ UNCHANGED <<disk, landed, cq, rbytes, gbytes, sbytes>>
  BY DEF FinishSwap
<1>5. lands => held
  OBVIOUS
<1>6. back => lands /\ sw.ring \in Ring
  BY <1>1
<1>7. [expert |-> sw.victim, valid |-> TRUE, cold |-> FALSE, soa |-> TRUE] \in RamSlot
  BY <1>1 DEF RamSlot
<1> HIDE DEF sw, l, away, R, M, F, held, wanted, lands, back
<1>8. ram' \in [Layer -> [Slot -> RamSlot]]
  BY <1>1, <1>2, <1>3, <1>4, <1>5, <1>7, ReleaseTypes
<1>9. map' \in [Layer -> [Expert -> Slot \cup {None}]]
  BY <1>1, <1>2, <1>3, <1>4, <1>5, ReleaseTypes
<1>10. free' \in [Layer -> Seq(Slot)]
  BY <1>1, <1>2, <1>3, <1>4, ReleaseTypes
<1>11. landing' \in Seq(SwapRec) /\ ringBusy' \subseteq Ring /\ swaps' \in Seq(SwapRec)
  BY <1>a, <1>0, <1>4 DEF HostOK
<1>12. sideq' \in Seq(SideOp)
  <2>1. back => [l |-> l, r |-> sw.ring, s |-> sw.to] \in SideOp
    BY <1>1, <1>3, <1>5, <1>6 DEF SideOp
  <2> QED BY <1>a, <1>4, <2>1 DEF QueuesOK
<1>13. TablesOK'
  BY <1>a, <1>4, <1>8, <1>9, <1>10 DEF TablesOK
<1>14. HostOK'
  BY <1>a, <1>4, <1>11 DEF HostOK
<1>15. DeviceOK' /\ QueuesOK' /\ FetchOK'
  BY <1>a, <1>4, <1>12 DEF DeviceOK, QueuesOK, FetchOK
<1> QED BY <1>13, <1>14, <1>15, TypeParts

LEMMA SettleLayerDoneTypes ==
    ASSUME Types, SettleLayerDone
    PROVE  Types'
<1>a. TablesOK /\ HostOK /\ DeviceOK /\ FetchOK /\ QueuesOK
  BY TypeParts
<1>1. FetchOK'
  <2>1. CASE fetch.deferred
    <3>1. fetch \in FetchRec /\ fetch' = [fetch EXCEPT !.pc = "idle"] /\ failed' = failed
      BY <1>a, <2>1 DEF SettleLayerDone, FetchOK
    <3>2. fetch' \in FetchRec /\ fetch'.claims = fetch.claims /\ fetch'.layer = fetch.layer
      BY <3>1 DEF FetchRec
    <3> QED BY <1>a, <2>1, <3>1, <3>2 DEF FetchOK
  <2>2. CASE ~fetch.deferred
    BY <2>2, IdleType DEF SettleLayerDone
  <2> QED BY <2>1, <2>2
<1>2. TablesOK' /\ HostOK'
  BY <1>a DEF SettleLayerDone, TablesOK, HostOK, tables
<1>3. DeviceOK' /\ QueuesOK'
  BY <1>a DEF SettleLayerDone, DeviceOK, QueuesOK, device
<1> QED BY <1>1, <1>2, <1>3, TypeParts

LEMMA LendBeginTypes ==
    ASSUME Types, NEW l \in Layer, LendBegin(l)
    PROVE  Types'
<1>a. TablesOK /\ HostOK /\ DeviceOK /\ FetchOK /\ QueuesOK
  BY TypeParts
<1>1. FetchOK'
  <2> DEFINE f == [NoFetch EXCEPT !.pc = "settle", !.full = TRUE, !.lend = l]
  <2>1. l \in Lendable
    BY DEF LendBegin
  <2>2. f \in FetchRec /\ f.claims = {} /\ f.pc = "settle" /\ ~f.deferred
    BY <2>1, NoFetchType, ZenonT(40) DEF NoFetch, FetchRec
  <2> HIDE DEF f
  <2>3. fetch' = f
    BY DEF LendBegin, f
  <2> QED BY <2>2, <2>3, FS_EmptySet DEF FetchOK, AtLayer
<1>2. TablesOK' /\ HostOK'
  BY <1>a DEF LendBegin, TablesOK, HostOK, tables
<1>3. DeviceOK' /\ QueuesOK'
  BY <1>a DEF LendBegin, DeviceOK, QueuesOK, device
<1> QED BY <1>1, <1>2, <1>3, TypeParts

LEMMA SettleFullDoneTypes ==
    ASSUME Types, SettleFullDone
    PROVE  Types'
<1>a. TablesOK /\ HostOK /\ DeviceOK /\ FetchOK /\ QueuesOK
  BY TypeParts
<1>0. fetch \in FetchRec
  BY <1>a DEF FetchOK
<1>1. FetchOK'
  <2>1. CASE fetch.restore
    <3> DEFINE f == [NoFetch EXCEPT !.pc = "restore", !.next = fetch.next]
    <3>1. fetch.next \in [l : Layer, e : Expert, v : Slot \cup {None}] \cup {None}
      BY <1>0 DEF FetchRec
    <3>2. f \in FetchRec /\ f.claims = {} /\ f.pc = "restore" /\ ~f.deferred
      BY <3>1, NoFetchType, ZenonT(40) DEF NoFetch, FetchRec
    <3> HIDE DEF f
    <3>3. fetch' = f
      BY <2>1 DEF SettleFullDone, f
    <3> QED BY <3>2, <3>3, FS_EmptySet DEF FetchOK, AtLayer
  <2>2. CASE ~fetch.restore
    BY <2>2, IdleType DEF SettleFullDone
  <2> QED BY <2>1, <2>2
<1>2. ringBusy' \subseteq Ring /\ landing' \in Seq(SwapRec)
  <2>1. ringBusy' \subseteq ringBusy /\ landing' = <<>>
    BY DEF SettleFullDone
  <2> QED BY <1>a, <2>1 DEF HostOK
<1>3. /\ vram' \in [Layer -> [GSlot -> Expert \cup {None}]]
      /\ gmap' \in [Layer -> [Expert -> GSlot \cup {None}]]
      /\ lent' \subseteq Lendable
      /\ gbytes' \in [Layer -> [GSlot -> AllBytes]]
  <2>1. CASE fetch.lend = None
    BY <1>a, <2>1 DEF SettleFullDone, TablesOK, DeviceOK
  <2>2. CASE fetch.lend # None
    <3>1. fetch.lend \in Lendable /\ fetch.lend \in Layer
      BY <1>0, <2>2, CacheConstants DEF FetchRec
    <3>2. /\ lent' = lent \cup {fetch.lend}
          /\ vram' = [vram EXCEPT ![fetch.lend] = [g \in GSlot |-> None]]
          /\ gmap' = [gmap EXCEPT ![fetch.lend] = [e \in Expert |-> None]]
      BY <2>2 DEF SettleFullDone
    <3>3. /\ [g \in GSlot |-> None] \in [GSlot -> Expert \cup {None}]
          /\ [e \in Expert |-> None] \in [Expert -> GSlot \cup {None}]
      OBVIOUS
    <3>5. /\ vram' \in [Layer -> [GSlot -> Expert \cup {None}]] /\ lent' \subseteq Lendable
          /\ gmap' \in [Layer -> [Expert -> GSlot \cup {None}]]
      BY <1>a, <3>1, <3>2, <3>3 DEF TablesOK
    <3>4. gbytes' \in [Layer -> [GSlot -> AllBytes]]
      BY <1>a, <2>2, <3>1, ByteTypes DEF SettleFullDone, DeviceOK
    <3> QED BY <3>4, <3>5
  <2> QED BY <2>1, <2>2
<1>4. /\ UNCHANGED <<ram, map, free, gused, hotw>> /\ UNCHANGED <<live, rel, swaps, handles, pend, pf, failed>>
      /\ UNCHANGED <<disk, landed, cq, sideq, rbytes, sbytes>>
  BY DEF SettleFullDone
<1>5. TablesOK' /\ HostOK'
  BY <1>a, <1>2, <1>3, <1>4 DEF TablesOK, HostOK
<1>6. DeviceOK' /\ QueuesOK'
  BY <1>a, <1>3, <1>4 DEF DeviceOK, QueuesOK
<1> QED BY <1>1, <1>5, <1>6, TypeParts

-----------------------------------------------------------------------------
\* The return of a lent tier, and what prompts do.
LEMMA LendEndTypes ==
    ASSUME Types, NEW l \in Layer, LendEnd(l)
    PROVE  Types'
<1>a. TablesOK /\ HostOK /\ DeviceOK /\ FetchOK /\ QueuesOK
  BY TypeParts
<1> DEFINE cand == {ram[l][s].expert : s \in {x \in Slot :
                      ram[l][x].expert # None /\ ram[l][x].valid /\ ~ram[l][x].cold}}
           f == [NoFetch EXCEPT !.pc = "refill", !.layer = l, !.cand = cand]
<1>1. cand \in SUBSET Expert
  BY <1>a DEF TablesOK, RamSlot
<1>2. fetch' = f /\ lent' \subseteq lent /\ failed' = failed
  BY DEF LendEnd
<1> HIDE DEF cand
<1>3. f \in FetchRec /\ f.claims = {} /\ f.pc = "refill" /\ ~f.deferred /\ f.layer = l
  BY <1>1, NoFetchType, ZenonT(40) DEF NoFetch, FetchRec
<1>4. FetchOK'
  BY <1>2, <1>3, FS_EmptySet DEF FetchOK
<1>5. TablesOK' /\ HostOK'
  BY <1>a, <1>2 DEF LendEnd, TablesOK, HostOK
<1>6. DeviceOK' /\ QueuesOK'
  BY <1>a DEF LendEnd, DeviceOK, QueuesOK, device
<1> QED BY <1>4, <1>5, <1>6, TypeParts

LEMMA RefillTypes ==
    ASSUME Types, NEW e \in Expert, NEW g \in GSlot, NEW pick, NEW r, Refill(e, g, pick, r)
    PROVE  Types'
<1>a. TablesOK /\ HostOK /\ DeviceOK /\ FetchOK /\ QueuesOK
  BY TypeParts
<1> DEFINE l == fetch.layer
           s == FindSlot(l, e)
           cand == fetch.cand \ {e}
<1>0. fetch \in FetchRec /\ l \in Layer /\ fetch.pc \in {"refill", "warm"}
  BY <1>a DEF Refill, FetchOK, AtLayer
<1>1. s \in Slot /\ Promote(l, e, s, g, pick, r)
  BY <1>0, SlotTypes DEF Refill
<1>2. FetchOK'
  <2>1. fetch' = [fetch EXCEPT !.cand = cand] /\ failed' = failed
    BY DEF Refill
  <2>2. cand \in SUBSET Expert
    BY <1>0 DEF FetchRec
  <2> HIDE DEF cand
  <2>3. fetch' \in FetchRec /\ fetch'.claims = fetch.claims /\ fetch'.layer = l
        /\ fetch'.pc = fetch.pc /\ fetch'.deferred = fetch.deferred
    BY <1>0, <2>1, <2>2 DEF FetchRec
  <2> QED BY <1>a, <1>0, <2>1, <2>3 DEF FetchOK
<1>3. /\ rel' = rel \cup {<<l, s>>} /\ UNCHANGED <<lent, hotw, live, landing, handles, pend, pf, failed>>
      /\ UNCHANGED <<disk, landed, sideq, rbytes, gbytes, sbytes>>
  BY DEF Refill
<1>4. TablesOK'
  BY <1>a, <1>0, <1>1, <1>3, PromoteTypes DEF TablesOK
<1>5. HostOK'
  <2>1. swaps' \in Seq(SwapRec) /\ ringBusy' \subseteq Ring
    BY <1>0, <1>1, PromoteTypes
  <2>2. rel' \subseteq Layer \X Slot
    BY <1>a, <1>0, <1>1, <1>3 DEF HostOK
  <2> QED BY <1>a, <1>3, <2>1, <2>2 DEF HostOK
<1>6. DeviceOK' /\ QueuesOK'
  BY <1>a, <1>0, <1>1, <1>3, PromoteTypes DEF DeviceOK, QueuesOK
<1> QED BY <1>2, <1>4, <1>5, <1>6, TypeParts

LEMMA RefillDoneTypes ==
    ASSUME Types, RefillDone
    PROVE  Types'
<1>a. TablesOK /\ HostOK /\ DeviceOK /\ FetchOK /\ QueuesOK
  BY TypeParts
<1>1. FetchOK'
  <2> DEFINE b == fetch.next # None
             n == fetch.next
             f == [NoFetch EXCEPT !.pc = "settle", !.full = TRUE, !.restore = b, !.next = n]
  <2>1. n \in [l : Layer, e : Expert, v : Slot \cup {None}] \cup {None} /\ b \in BOOLEAN
    BY <1>a DEF FetchOK, FetchRec
  <2>2. fetch' = f
    BY DEF RefillDone
  <2> HIDE DEF b, n
  <2>3. f \in FetchRec
    BY <2>1, NoFetchType, ZenonT(40) DEF FetchRec
  <2>4. f.claims = {} /\ f.pc = "settle" /\ ~f.deferred
    BY DEF NoFetch
  <2> HIDE DEF f
  <2> QED BY <2>2, <2>3, <2>4, FS_EmptySet DEF FetchOK, AtLayer
<1>2. TablesOK' /\ HostOK'
  BY <1>a DEF RefillDone, TablesOK, HostOK, tables
<1>3. DeviceOK' /\ QueuesOK'
  BY <1>a DEF RefillDone, DeviceOK, QueuesOK, device
<1> QED BY <1>1, <1>2, <1>3, TypeParts

LEMMA WarmTypes ==
    ASSUME Types, NEW l \in Layer, NEW e \in Expert, NEW v \in Slot, Warm(l, e, v)
    PROVE  Types'
<1>a. TablesOK /\ HostOK /\ DeviceOK /\ FetchOK /\ QueuesOK
  BY TypeParts
<1> DEFINE s == FindSlot(l, e)
           R == IF s # None /\ ram[l][s].cold
                THEN [ram EXCEPT ![l][s].expert = None, ![l][s].valid = FALSE] ELSE ram
           has == s # None /\ ~ram[l][s].cold
           full == [expert |-> e, valid |-> TRUE, cold |-> FALSE, soa |-> FALSE]
           f == [NoFetch EXCEPT !.pc = "warm", !.layer = l, !.cand = {e}]
<1>1. s # None => s \in Slot
  BY SlotTypes
<1>2. R \in [Layer -> [Slot -> RamSlot]]
  <2>1. \A x \in Slot : [ram[l][x] EXCEPT !.expert = None, !.valid = FALSE] \in RamSlot
    <3> TAKE x \in Slot
    <3>1. ram[l][x] \in RamSlot
      BY <1>a DEF TablesOK
    <3> QED BY <3>1 DEF RamSlot
  <2>2. CASE s # None
    BY <1>a, <1>1, <2>1, <2>2 DEF TablesOK
  <2>3. CASE s = None
    BY <1>a, <2>3 DEF TablesOK
  <2> QED BY <2>2, <2>3
<1>3. full \in RamSlot
  BY DEF RamSlot
<1>4. /\ IF has THEN UNCHANGED <<ram, map, rbytes>>
         ELSE /\ ram' = [R EXCEPT ![l][v] = full]
              /\ map' = ClaimMap(R, l, v, e)
              /\ rbytes' = [rbytes EXCEPT ![l][v] = Bytes(e, FALSE, FALSE)]
      /\ live' = {v} /\ fetch' = f /\ failed' = failed
      /\ UNCHANGED <<free, vram, gmap, gused, lent, hotw>> /\ UNCHANGED <<rel, swaps, handles, pend, pf>>
      /\ UNCHANGED <<disk, landed, cq, sideq, gbytes, sbytes>>
  BY DEF Warm
<1>5. ClaimMap(R, l, v, e) \in [Layer -> [Expert -> Slot \cup {None}]]
  <2> HIDE DEF R
  <2>1. FALSE \in BOOLEAN
    OBVIOUS
  <2> QED BY <1>2, <2>1, ClaimTypes
<1>6. landing' \in Seq(SwapRec) /\ ringBusy' \subseteq Ring
  BY LandTypes DEF Warm
<1>7. f \in FetchRec /\ f.claims = {} /\ f.pc = "warm" /\ ~f.deferred /\ f.layer = l
  BY NoFetchType, ZenonT(40) DEF NoFetch, FetchRec
<1> HIDE DEF s, R, has, full, f
<1>8. /\ ram' \in [Layer -> [Slot -> RamSlot]] /\ map' \in [Layer -> [Expert -> Slot \cup {None}]]
      /\ rbytes' \in [Layer -> [Slot -> AllBytes]]
  <2>1. CASE has
    BY <1>a, <1>4, <2>1 DEF TablesOK, DeviceOK
  <2>2. CASE ~has
    <3>1. Bytes(e, FALSE, FALSE) \in AllBytes
      BY ByteTypes
    <3>2. ram' = [R EXCEPT ![l][v] = full] /\ map' = ClaimMap(R, l, v, e)
          /\ rbytes' = [rbytes EXCEPT ![l][v] = Bytes(e, FALSE, FALSE)]
      BY <1>4, <2>2
    <3>3. ram' \in [Layer -> [Slot -> RamSlot]]
      BY <1>2, <1>3, <3>2
    <3>4. rbytes' \in [Layer -> [Slot -> AllBytes]]
      BY <1>a, <3>1, <3>2 DEF DeviceOK
    <3> QED BY <1>5, <3>2, <3>3, <3>4
  <2> QED BY <2>1, <2>2
<1>10. FetchOK'
  BY <1>4, <1>7, FS_EmptySet DEF FetchOK
<1>11. TablesOK' /\ HostOK'
  BY <1>a, <1>4, <1>6, <1>8 DEF TablesOK, HostOK
<1>12. DeviceOK' /\ QueuesOK'
  BY <1>a, <1>4, <1>8 DEF DeviceOK, QueuesOK
<1> QED BY <1>10, <1>11, <1>12, TypeParts

LEMMA FetchBatchTypes ==
    ASSUME Types, NEW l \in Layer, NEW es \in SUBSET Expert,
           NEW adopt \in Adoptions(l, {e \in es : ~BatchHit(l, e)}), FetchBatch(l, es, adopt)
    PROVE  Types'
<1>a. TablesOK /\ HostOK /\ DeviceOK /\ FetchOK /\ QueuesOK
  BY TypeParts
<1> DEFINE into == {e \in DOMAIN adopt : adopt[e] # None}
           hits == {e \in es \ DOMAIN adopt : ~InVram(l, e)}
           of(s) == {e \in into : adopt[e] = s}
           hit(s) == \E e \in hits : map[l][e] = s
           n == Cardinality(into)
           f == [NoFetch EXCEPT !.pc = "batch", !.layer = l, !.need.hot = n]
<1>1. /\ DOMAIN adopt = {e \in es : ~BatchHit(l, e)}
      /\ into \subseteq Expert /\ \A e \in into : adopt[e] \in Slot
  BY DEF Adoptions
<1>2. \A e \in hits : e \in Expert /\ map[l][e] \in Slot
  <2> TAKE e \in hits
  <2>1. BatchHit(l, e) /\ ~InVram(l, e) /\ e \in Expert
    BY <1>1
  <2> QED BY <2>1, SlotTypes DEF BatchHit
<1>3. \A e \in (es \ DOMAIN adopt) \ hits : e \in Expert /\ gmap[l][e] \in GSlot
  BY SlotTypes
<1>4. ram' \in [Layer -> [Slot -> RamSlot]]
  <2>1. \A s \in Slot : ram[l][s] \in RamSlot /\ [ram[l][s] EXCEPT !.soa = FALSE] \in RamSlot
    <3> TAKE s \in Slot
    <3>1. ram[l][s] \in RamSlot
      BY <1>a DEF TablesOK
    <3> QED BY <3>1 DEF RamSlot
  <2>2. \A s \in Slot : of(s) # {} =>
            [expert |-> CHOOSE e \in of(s) : TRUE, valid |-> TRUE, cold |-> FALSE, soa |-> FALSE] \in RamSlot
    <3> TAKE s \in Slot
    <3> HAVE of(s) # {}
    <3>1. (CHOOSE e \in of(s) : TRUE) \in Expert
      BY <1>1
    <3> QED BY <3>1 DEF RamSlot
  <2>3. ram' = [ram EXCEPT ![l] = [s \in Slot |->
                 IF of(s) # {} THEN [expert |-> CHOOSE e \in of(s) : TRUE, valid |-> TRUE,
                                     cold |-> FALSE, soa |-> FALSE]
                 ELSE IF hit(s) THEN [ram[l][s] EXCEPT !.soa = FALSE] ELSE ram[l][s]]]
    BY DEF FetchBatch
  <2> HIDE DEF of, hit
  <2> QED BY <1>a, <2>1, <2>2, <2>3 DEF TablesOK
<1>5. map' \in [Layer -> [Expert -> Slot \cup {None}]]
  BY <1>a, <1>1 DEF FetchBatch, TablesOK
<1>6. disk' \subseteq ReadRec
  <2>1. \A e \in into : [l |-> l, s |-> adopt[e], e |-> e, cold |-> FALSE, spec |-> FALSE] \in ReadRec
    BY <1>1 DEF ReadRec
  <2>2. disk' = disk \cup {[l |-> l, s |-> adopt[e], e |-> e, cold |-> FALSE, spec |-> FALSE] : e \in into}
    BY DEF FetchBatch
  <2> HIDE DEF into
  <2> QED BY <1>a, <2>1, <2>2 DEF DeviceOK
<1>7. rbytes' \in [Layer -> [Slot -> AllBytes]]
  <2>1. \A s \in Slot : rbytes[l][s] \in AllBytes /\ FileLayout(rbytes[l][s], ram[l][s].soa) \in AllBytes
    <3> TAKE s \in Slot
    <3>1. ram[l][s] \in RamSlot /\ rbytes[l][s] \in AllBytes
      BY <1>a DEF TablesOK, DeviceOK
    <3>2. ram[l][s].soa \in BOOLEAN
      BY <3>1 DEF RamSlot
    <3> QED BY <3>1, <3>2, ByteTypes
  <2>2. rbytes' = [rbytes EXCEPT ![l] = [s \in Slot |->
                     IF of(s) # {} THEN Garbage
                     ELSE IF hit(s) THEN FileLayout(rbytes[l][s], ram[l][s].soa) ELSE rbytes[l][s]]]
    BY DEF FetchBatch
  <2> HIDE DEF of, hit
  <2> QED BY <1>a, <2>1, <2>2, ByteTypes DEF DeviceOK
<1>8. handles' \subseteq HandleRec
  <2>1. \A e \in (es \ DOMAIN adopt) \ hits : Handle(e, TRUE, gmap[l][e], FALSE, TRUE) \in HandleRec
    BY <1>3, HandleTypes
  <2>2. \A e \in hits : Handle(e, FALSE, map[l][e], FALSE, TRUE) \in HandleRec
    BY <1>2, HandleTypes
  <2>3. \A e \in into : Handle(e, FALSE, adopt[e], FALSE, FALSE) \in HandleRec
    BY <1>1, HandleTypes
  <2>4. handles' = {Handle(e, TRUE, gmap[l][e], FALSE, TRUE) : e \in (es \ DOMAIN adopt) \ hits}
                   \cup {Handle(e, FALSE, map[l][e], FALSE, TRUE) : e \in hits}
                   \cup {Handle(e, FALSE, adopt[e], FALSE, FALSE) : e \in into}
    BY DEF FetchBatch
  <2> HIDE DEF into, hits
  <2> QED BY <2>1, <2>2, <2>3, <2>4
<1>9. n \in Nat
  <2>1. IsFiniteSet(into)
    BY <1>1, CacheConstants, FS_Subset
  <2> QED BY <2>1, FS_CardinalityType
<1>10. landing' \in Seq(SwapRec) /\ ringBusy' \subseteq Ring
  BY LandTypes DEF FetchBatch
<1>11. /\ fetch' = f /\ failed' = failed
       /\ UNCHANGED <<free, vram, gmap, gused, lent, hotw>> /\ UNCHANGED <<live, rel, swaps, pend, pf>>
       /\ UNCHANGED <<landed, cq, sideq, gbytes, sbytes>>
  BY DEF FetchBatch
<1> HIDE DEF n
<1>12. f \in FetchRec /\ f.claims = {} /\ f.pc = "batch" /\ ~f.deferred /\ f.layer = l
  BY <1>9, NoFetchType, ZenonT(40) DEF NoFetch, FetchRec
<1> HIDE DEF f
<1>13. FetchOK'
  BY <1>11, <1>12, FS_EmptySet DEF FetchOK
<1>14. TablesOK' /\ HostOK'
  BY <1>a, <1>4, <1>5, <1>8, <1>10, <1>11 DEF TablesOK, HostOK
<1>15. DeviceOK' /\ QueuesOK'
  BY <1>a, <1>6, <1>7, <1>11 DEF DeviceOK, QueuesOK
<1> QED BY <1>13, <1>14, <1>15, TypeParts

LEMMA BatchDoneTypes ==
    ASSUME Types, BatchDone
    PROVE  Types'
<1>a. TablesOK /\ HostOK /\ DeviceOK /\ FetchOK /\ QueuesOK
  BY TypeParts
<1> DEFINE l == fetch.layer
           gpu == {<<h.slot, h.e>> : h \in {x \in handles : x.gpu}}
           need == [hot |-> 0, cold |-> 0]
<1>1. l \in Layer /\ fetch \in FetchRec /\ fetch.pc = "batch"
  BY <1>a DEF BatchDone, FetchOK, AtLayer
<1>2. cq' \in Seq(CqOp)
  <2>1. Use(l, gpu) \in CqOp
    BY <1>1, GpuTypes, UseType
  <2>2. cq' = cq \/ cq' = Append(cq, Use(l, gpu))
    BY DEF BatchDone
  <2> QED BY <1>a, <2>1, <2>2 DEF QueuesOK
<1>3. FetchOK'
  <2>1. fetch' = [fetch EXCEPT !.pc = "batched", !.need = need] /\ failed' = failed
    BY DEF BatchDone, NoFetch
  <2>2. need \in [hot : Nat, cold : Nat]
    OBVIOUS
  <2> HIDE DEF need
  <2>3. fetch' \in FetchRec /\ fetch'.claims = fetch.claims /\ fetch'.layer = l /\ fetch'.pc = "batched"
        /\ fetch'.deferred = fetch.deferred
    BY <1>1, <2>1, <2>2 DEF FetchRec
  <2> QED BY <1>a, <1>1, <2>1, <2>3 DEF FetchOK
<1>4. handles' \subseteq HandleRec
  BY HandleTypes DEF BatchDone
<1>5. landed' \in [hot : Nat, cold : Nat]
  BY <1>a DEF BatchDone, DeviceOK
<1>6. TablesOK' /\ HostOK'
  BY <1>a, <1>4 DEF BatchDone, TablesOK, HostOK, tables
<1>7. DeviceOK' /\ QueuesOK'
  BY <1>a, <1>2, <1>5 DEF BatchDone, DeviceOK, QueuesOK
<1> QED BY <1>3, <1>6, <1>7, TypeParts

LEMMA RestoreBeginTypes ==
    ASSUME Types, RestoreBegin
    PROVE  Types'
<1>a. TablesOK /\ HostOK /\ DeviceOK /\ FetchOK /\ QueuesOK
  BY TypeParts
<1>1. FetchOK'
  <2> DEFINE f == [NoFetch EXCEPT !.pc = "settle", !.full = TRUE, !.restore = TRUE]
  <2>1. f \in FetchRec /\ f.claims = {} /\ f.pc = "settle" /\ ~f.deferred
    BY NoFetchType, ZenonT(40) DEF NoFetch, FetchRec
  <2>2. fetch' = f
    BY DEF RestoreBegin
  <2> HIDE DEF f
  <2> QED BY <2>1, <2>2, FS_EmptySet DEF FetchOK, AtLayer
<1>2. TablesOK' /\ HostOK'
  BY <1>a DEF RestoreBegin, TablesOK, HostOK, tables
<1>3. DeviceOK' /\ QueuesOK'
  BY <1>a DEF RestoreBegin, DeviceOK, QueuesOK, device
<1> QED BY <1>1, <1>2, <1>3, TypeParts

LEMMA PrefetchStartTypes ==
    ASSUME Types, NEW l \in Layer, NEW e \in Expert, NEW v \in Slot \cup {None},
           PrefetchStart(l, e, v)
    PROVE  Types'
<1>a. TablesOK /\ HostOK /\ DeviceOK /\ FetchOK /\ QueuesOK
  BY TypeParts
<1> DEFINE next == [l |-> l, e |-> e, v |-> v]
           rs == {[l |-> l, s |-> v, e |-> e, cold |-> FALSE, spec |-> FALSE]}
<1>0. /\ fetch \in FetchRec /\ failed' = failed /\ fetch' = [fetch EXCEPT !.next = next]
      /\ UNCHANGED <<free, vram, gmap, gused, lent, hotw>> /\ UNCHANGED <<live, rel, swaps, handles, pend, pf>>
      /\ UNCHANGED <<landed, cq, sideq, gbytes, sbytes>>
  BY <1>a DEF PrefetchStart, FetchOK
<1>1. FetchOK'
  <2>1. next \in [l : Layer, e : Expert, v : Slot \cup {None}]
    OBVIOUS
  <2> HIDE DEF next
  <2>2. fetch' \in FetchRec /\ fetch'.claims = fetch.claims /\ fetch'.layer = fetch.layer
        /\ fetch'.pc = fetch.pc /\ fetch'.deferred = fetch.deferred
    BY <1>0, <2>1 DEF FetchRec
  <2> QED BY <1>a, <1>0, <2>2 DEF FetchOK
<1>2. landing' \in Seq(SwapRec) /\ ringBusy' \subseteq Ring
  BY LandTypes DEF PrefetchStart
<1>3. /\ ram' \in [Layer -> [Slot -> RamSlot]] /\ map' \in [Layer -> [Expert -> Slot \cup {None}]]
      /\ disk' \subseteq ReadRec /\ rbytes' \in [Layer -> [Slot -> AllBytes]]
  <2>1. CASE v = None
    BY <1>a, <2>1 DEF PrefetchStart, TablesOK, DeviceOK
  <2>2. CASE v # None
    <3>1. v \in Slot /\ rs \in SUBSET ReadRec
      BY <2>2 DEF ReadRec
    <3>2. Reads(rs) /\ ram' = ClaimRam(ram, l, v, e, ram[l][v].cold) /\ map' = ClaimMap(ram, l, v, e)
      BY <2>2 DEF PrefetchStart
    <3> HIDE DEF rs
    <3>3. disk' \subseteq ReadRec /\ rbytes' \in [Layer -> [Slot -> AllBytes]]
      BY <3>1, <3>2, ReadTypes
    <3>4. ram[l][v].cold \in BOOLEAN /\ ram \in [Layer -> [Slot -> RamSlot]]
      <4>1. ram[l][v] \in RamSlot
        BY <1>a, <3>1 DEF TablesOK
      <4> QED BY <1>a, <4>1 DEF RamSlot, TablesOK
    <3> QED BY <3>1, <3>2, <3>3, <3>4, ClaimTypes
  <2> QED BY <2>1, <2>2
<1>4. TablesOK' /\ HostOK'
  BY <1>a, <1>0, <1>2, <1>3 DEF TablesOK, HostOK
<1>5. DeviceOK' /\ QueuesOK'
  BY <1>a, <1>0, <1>3 DEF DeviceOK, QueuesOK
<1> QED BY <1>1, <1>4, <1>5, TypeParts

LEMMA PrefetchFinishTypes ==
    ASSUME Types, PrefetchFinish
    PROVE  Types'
<1>a. TablesOK /\ HostOK /\ DeviceOK /\ FetchOK /\ QueuesOK
  BY TypeParts
<1> DEFINE b == fetch.next
           cand == {b.e}
           f == [NoFetch EXCEPT !.pc = "refill", !.layer = b.l, !.cand = cand, !.restore = TRUE]
<1>1. b.l \in Layer /\ b.e \in Expert /\ b.v \in Slot \cup {None}
  BY <1>a DEF PrefetchFinish, FetchOK, FetchRec
<1>2. FetchOK'
  <2>1. cand \in SUBSET Expert
    BY <1>1
  <2>2. fetch' = f
    BY DEF PrefetchFinish
  <2> HIDE DEF b, cand
  <2>3. f \in FetchRec
    BY <1>1, <2>1, NoFetchType DEF FetchRec
  <2>4. f.claims = {} /\ f.pc = "refill" /\ ~f.deferred /\ f.layer = b.l
    BY DEF NoFetch
  <2> HIDE DEF f
  <2> QED BY <1>1, <2>2, <2>3, <2>4, FS_EmptySet DEF FetchOK
<1>3. ram' \in [Layer -> [Slot -> RamSlot]] /\ landed' \in [hot : Nat, cold : Nat]
  <2>1. CASE b.v = None
    BY <1>a, <2>1 DEF PrefetchFinish, TablesOK, DeviceOK
  <2>2. CASE b.v # None
    <3>1. [ram[b.l][b.v] EXCEPT !.valid = TRUE] \in RamSlot
      <4>1. ram[b.l][b.v] \in RamSlot
        BY <1>a, <1>1, <2>2 DEF TablesOK
      <4> QED BY <4>1 DEF RamSlot
    <3>2. ram' = [ram EXCEPT ![b.l][b.v].valid = TRUE] /\ landed' = [landed EXCEPT !.hot = 0]
      BY <2>2 DEF PrefetchFinish
    <3> HIDE DEF b
    <3>3. ram' \in [Layer -> [Slot -> RamSlot]]
      BY <1>a, <1>1, <2>2, <3>1, <3>2 DEF TablesOK
    <3>4. landed' \in [hot : Nat, cold : Nat]
      BY <1>a, <3>2 DEF DeviceOK
    <3> QED BY <3>3, <3>4
  <2> QED BY <2>1, <2>2
<1>4. /\ UNCHANGED <<map, free, vram, gmap, gused, lent, hotw>>
      /\ UNCHANGED <<live, rel, swaps, landing, ringBusy, handles, pend, pf, failed>>
      /\ UNCHANGED <<disk, cq, sideq, rbytes, gbytes, sbytes>>
  BY DEF PrefetchFinish
<1>5. TablesOK' /\ HostOK'
  BY <1>a, <1>3, <1>4 DEF TablesOK, HostOK
<1>6. DeviceOK' /\ QueuesOK'
  BY <1>a, <1>3, <1>4 DEF DeviceOK, QueuesOK
<1> QED BY <1>2, <1>5, <1>6, TypeParts

LEMMA RestoreEndsTypes ==
    ASSUME Types, RestoreEnds
    PROVE  Types'
<1>a. TablesOK /\ HostOK /\ DeviceOK /\ FetchOK /\ QueuesOK
  BY TypeParts
<1>1. FetchOK'
  BY IdleType DEF RestoreEnds
<1>2. TablesOK' /\ HostOK'
  BY <1>a DEF RestoreEnds, TablesOK, HostOK, tables
<1>3. DeviceOK' /\ QueuesOK'
  BY <1>a DEF RestoreEnds, DeviceOK, QueuesOK, device
<1> QED BY <1>1, <1>2, <1>3, TypeParts

-----------------------------------------------------------------------------
\* The device and the drive.
LEMMA ComputeStepTypes ==
    ASSUME Types, ComputeStep
    PROVE  Types'
<1>a. TablesOK /\ HostOK /\ DeviceOK /\ FetchOK /\ QueuesOK
  BY TypeParts
<1> DEFINE o == Head(cq)
<1>1. o \in CqOp /\ Tail(cq) \in Seq(CqOp)
  <2>1. cq \in Seq(CqOp) /\ cq # <<>>
    BY <1>a DEF ComputeStep, QueuesOK
  <2> QED BY <2>1
<1>2. /\ o.l \in Layer /\ o.raw \in BOOLEAN
      /\ o.op \in {"upload", "readback"} => o.s \in Slot /\ o.g \in GSlot
      /\ o.op = "stage" => o.g \in GSlot /\ o.r \in Ring
  BY <1>1 DEF CqOp, CqRec
<1>3. /\ gbytes' = IF o.op = "upload"
                   THEN [gbytes EXCEPT ![o.l][o.g] = Uploaded(rbytes[o.l][o.s], o.raw)] ELSE gbytes
      /\ rbytes' = IF o.op = "readback"
                   THEN [rbytes EXCEPT ![o.l][o.s] = gbytes[o.l][o.g]] ELSE rbytes
      /\ sbytes' = IF o.op = "stage" THEN [sbytes EXCEPT ![o.r] = gbytes[o.l][o.g]] ELSE sbytes
      /\ cq' = Tail(cq) /\ UNCHANGED <<disk, landed, sideq>>
  BY DEF ComputeStep
<1> HIDE DEF o
<1>4. gbytes' \in [Layer -> [GSlot -> AllBytes]]
  <2>1. o.op = "upload" => Uploaded(rbytes[o.l][o.s], o.raw) \in AllBytes
    BY <1>a, <1>2, ByteTypes DEF DeviceOK
  <2> QED BY <1>a, <1>2, <1>3, <2>1 DEF DeviceOK
<1>5. rbytes' \in [Layer -> [Slot -> AllBytes]] /\ sbytes' \in [Ring -> AllBytes]
  BY <1>a, <1>2, <1>3 DEF DeviceOK
<1>6. TablesOK' /\ HostOK' /\ FetchOK'
  BY <1>a DEF ComputeStep, TablesOK, HostOK, FetchOK, tables, hostv
<1>7. DeviceOK' /\ QueuesOK'
  BY <1>a, <1>1, <1>3, <1>4, <1>5 DEF DeviceOK, QueuesOK
<1> QED BY <1>6, <1>7, TypeParts

LEMMA SideStepTypes ==
    ASSUME Types, SideStep
    PROVE  Types'
<1>a. TablesOK /\ HostOK /\ DeviceOK /\ FetchOK /\ QueuesOK
  BY TypeParts
<1> DEFINE o == Head(sideq)
<1>1. o \in SideOp /\ Tail(sideq) \in Seq(SideOp)
  <2>1. sideq \in Seq(SideOp) /\ sideq # <<>>
    BY <1>a DEF SideStep, QueuesOK
  <2> QED BY <2>1
<1>2. /\ rbytes' = [rbytes EXCEPT ![o.l][o.s] = sbytes[o.r]] /\ sideq' = Tail(sideq)
      /\ UNCHANGED <<disk, landed, cq, gbytes, sbytes>>
  BY DEF SideStep
<1> HIDE DEF o
<1>3. rbytes' \in [Layer -> [Slot -> AllBytes]]
  BY <1>a, <1>1, <1>2 DEF DeviceOK, SideOp
<1>4. TablesOK' /\ HostOK' /\ FetchOK'
  BY <1>a DEF SideStep, TablesOK, HostOK, FetchOK, tables, hostv
<1>5. DeviceOK' /\ QueuesOK'
  BY <1>a, <1>1, <1>2, <1>3 DEF DeviceOK, QueuesOK
<1> QED BY <1>4, <1>5, TypeParts

LEMMA DiskLandTypes ==
    ASSUME Types, NEW r \in disk, DiskLand(r)
    PROVE  Types'
<1>a. TablesOK /\ HostOK /\ DeviceOK /\ FetchOK /\ QueuesOK
  BY TypeParts
<1>1. r.l \in Layer /\ r.s \in Slot /\ r.e \in Expert /\ r.cold \in BOOLEAN
  BY <1>a DEF DeviceOK, ReadRec
<1>2. /\ disk' \subseteq disk /\ UNCHANGED <<cq, sideq, gbytes, sbytes>>
      /\ rbytes' = [rbytes EXCEPT ![r.l][r.s] = Bytes(r.e, r.cold, FALSE)]
  BY DEF DiskLand
<1>3. landed' \in [hot : Nat, cold : Nat]
  BY <1>a DEF DiskLand, DeviceOK
<1>4. rbytes' \in [Layer -> [Slot -> AllBytes]]
  <2>1. Bytes(r.e, r.cold, FALSE) \in AllBytes
    BY <1>1, ByteTypes
  <2> QED BY <1>a, <1>1, <1>2, <2>1 DEF DeviceOK
<1>5. TablesOK' /\ HostOK' /\ FetchOK'
  BY <1>a DEF DiskLand, TablesOK, HostOK, FetchOK, tables, hostv
<1>6. DeviceOK' /\ QueuesOK'
  BY <1>a, <1>2, <1>3, <1>4 DEF DeviceOK, QueuesOK
<1> QED BY <1>5, <1>6, TypeParts

LEMMA StutterTypes ==
    ASSUME Types, UNCHANGED vars
    PROVE  Types'
<1>a. TablesOK /\ HostOK /\ DeviceOK /\ FetchOK /\ QueuesOK
  BY TypeParts
<1>1. TablesOK' /\ HostOK' /\ FetchOK'
  BY <1>a DEF TablesOK, HostOK, FetchOK, vars, tables, hostv
<1>2. DeviceOK' /\ QueuesOK'
  BY <1>a DEF DeviceOK, QueuesOK, vars, device
<1> QED BY <1>1, <1>2, TypeParts

-----------------------------------------------------------------------------
\* Every step of the host, the device and the drive keeps the types.
LEMMA StepTypes == Types /\ [Next]_vars => Types'
<1> SUFFICES ASSUME Types, [Next]_vars PROVE Types'
  OBVIOUS
<1>1. CASE FetchStartAny
  BY <1>1, FetchStartTypes DEF FetchStartAny
<1>2. CASE FetchSteps
  <2>1. CASE ServeAny
    BY <2>1, ServeVramTypes, ServeClaimedTypes, ServeRamTypes, ServeUpgradeTypes, ServeFailsTypes
       DEF ServeAny
  <2>2. CASE ServePromoteAny \/ ServeMissAny
    BY <2>2, ServePromoteTypes, ServeMissTypes DEF ServePromoteAny, ServeMissAny
  <2>3. CASE FetchSubmit \/ SettlePending \/ RereadAny \/ RereadReturns
    BY <2>3, FetchSubmitTypes, SettlePendingTypes, RereadTypes, RereadReturnsTypes DEF RereadAny
  <2>4. CASE FetchEnd \/ FetchShort \/ SettleLayer \/ FinishSwap \/ SettleLayerDone \/ SettleFullDone
    BY <2>4, FetchEndTypes, FetchShortTypes, SettleLayerTypes, FinishSwapTypes,
       SettleLayerDoneTypes, SettleFullDoneTypes
  <2>5. CASE BatchDone \/ PrefetchFinish \/ RestoreEnds
    BY <2>5, BatchDoneTypes, PrefetchFinishTypes, RestoreEndsTypes
  <2> QED BY <1>2, <2>1, <2>2, <2>3, <2>4, <2>5 DEF FetchSteps
<1>3. CASE PrefetchAny \/ PrefetchReap
  BY <1>3, PrefetchBeginTypes, PrefetchReapTypes DEF PrefetchAny
<1>4. CASE LendAny \/ RefillAny \/ RefillDone
  BY <1>4, LendBeginTypes, LendEndTypes, RefillTypes, RefillDoneTypes DEF LendAny, RefillAny
<1>5. CASE WarmAny \/ RestoreBegin \/ RestoreAny
  BY <1>5, WarmTypes, RestoreBeginTypes, PrefetchStartTypes DEF WarmAny, RestoreAny
<1>6. CASE BatchAny
  <2>1. PICK l \in Layer, list \in Lists :
            \E adopt \in Adoptions(l, {e \in ToSet(list) : ~BatchHit(l, e)}) : FetchBatch(l, ToSet(list), adopt)
    BY <1>6 DEF BatchAny
  <2>2. ToSet(list) \in SUBSET Expert
    BY DEF Lists, ToSet
  <2> QED BY <2>1, <2>2, FetchBatchTypes
<1>7. CASE ComputeStep \/ SideStep \/ DiskAny
  BY <1>7, ComputeStepTypes, SideStepTypes, DiskLandTypes DEF DiskAny
<1>8. CASE UNCHANGED vars
  BY <1>8, StutterTypes
<1> QED BY <1>1, <1>2, <1>3, <1>4, <1>5, <1>6, <1>7, <1>8 DEF Next

LEMMA TypesAlways == Spec => []Types
<1>1. Init => Types
  BY InitTypes
<1>2. Types /\ [Next]_vars => Types'
  BY StepTypes
<1> QED BY <1>1, <1>2, PTL DEF Spec

\* Every table, queue and flag keeps its type, in every configuration.
THEOREM TypesHold == Spec => []TypeOK
BY TypesAlways, PTL DEF Types

-----------------------------------------------------------------------------
(* The tables of the two tiers.  A VRAM entry is written by a promotion     *)
(* alone, and it stays the only one of its expert because nothing promotes  *)
(* an expert that has one: not a fetch, which looks first, nor the refill   *)
(* of a tier, whose candidates were none when they were chosen.             *)

RamMaps == \A l \in Layer, e \in Expert : map[l][e] # None => ram[l][map[l][e]].expert = e
VramMaps ==
    \A l \in Layer, e \in Expert :
        /\ gmap[l][e] # None => vram[l][gmap[l][e]] = e
        /\ \A g \in GSlot : vram[l][g] = e => gmap[l][e] = g
LentEmpty == \A l \in lent, e \in Expert : gmap[l][e] = None

\* The experts to be promoted are not in VRAM: those of the refill in progress,
\* and the one read beside it, which is another layer's.
Fresh ==
    /\ fetch.pc \in {"refill", "warm"} => \A e \in fetch.cand : gmap[fetch.layer][e] = None
    /\ fetch.next # None =>
          /\ gmap[fetch.next.l][fetch.next.e] = None
          /\ \/ fetch.pc = "restore"
             \/ fetch.pc = "refill" /\ fetch.next.l # fetch.layer
             \/ fetch.pc = "settle" /\ fetch.full

Maps == RamMaps /\ VramMaps /\ LentEmpty /\ Fresh

\* What can be looked up.
LEMMA Lookup ==
    ASSUME Types, Maps, NEW l \in Layer, NEW e \in Expert
    PROVE  /\ ~InVram(l, e) => gmap[l][e] = None
           /\ gmap[l][e] # None => InVram(l, e) /\ l \notin lent
           /\ FindSlot(l, e) # None => /\ FindSlot(l, e) = map[l][e]
                                       /\ ram[l][map[l][e]].expert = e /\ ram[l][map[l][e]].valid
           /\ \A s \in Slot, x \in Expert : map[l][x] = s => ram[l][s].expert = x
<1>1. ~InVram(l, e) => gmap[l][e] = None
  BY DEF InVram, Maps, VramMaps, LentEmpty
<1>2. gmap[l][e] # None => InVram(l, e) /\ l \notin lent
  BY DEF InVram, Maps, VramMaps, LentEmpty
<1>3. FindSlot(l, e) # None => /\ FindSlot(l, e) = map[l][e]
                               /\ ram[l][map[l][e]].expert = e /\ ram[l][map[l][e]].valid
  BY DEF FindSlot
<1>4. \A s \in Slot, x \in Expert : map[l][x] = s => ram[l][s].expert = x
  BY CacheConstants DEF Maps, RamMaps
<1> QED BY <1>1, <1>2, <1>3, <1>4

\* A step that keeps the experts of both tiers.
LEMMA KeepMaps ==
    ASSUME Types, Maps, map' = map, vram' = vram, gmap' = gmap, lent' \subseteq lent,
           \A l \in Layer, s \in Slot : ram'[l][s].expert = ram[l][s].expert
    PROVE  RamMaps' /\ VramMaps' /\ LentEmpty'
<1>1. map \in [Layer -> [Expert -> Slot \cup {None}]]
  BY DEF Types, TypeOK
<1>2. RamMaps'
  BY <1>1 DEF Maps, RamMaps
<1>3. VramMaps' /\ LentEmpty'
  BY DEF Maps, VramMaps, LentEmpty
<1> QED BY <1>2, <1>3

\* A claim, and an exclusive promotion's: the slot's former expert loses its entry.
LEMMA ClaimKeeps ==
    ASSUME Types, Maps, NEW l \in Layer, NEW v \in Slot, NEW e \in Expert,
           NEW R \in [Layer -> [Slot -> RamSlot]],
           \A k \in Layer, s \in Slot : R[k][s].expert = ram[k][s].expert,
           map' = ClaimMap(R, l, v, e),
           ram' \in [Layer -> [Slot -> RamSlot]],
           \A k \in Layer, s \in Slot :
              ram'[k][s].expert = IF k = l /\ s = v THEN e ELSE ram[k][s].expert
    PROVE  RamMaps'
<1> SUFFICES ASSUME NEW k \in Layer, NEW x \in Expert, map'[k][x] # None
             PROVE  ram'[k][map'[k][x]].expert = x
  BY DEF RamMaps
<1>1. map \in [Layer -> [Expert -> Slot \cup {None}]] /\ ram \in [Layer -> [Slot -> RamSlot]]
  BY DEF Types, TypeOK
<1>2. \A y \in Expert : map[k][y] # None => map[k][y] \in Slot /\ ram[k][map[k][y]].expert = y
  BY <1>1 DEF Maps, RamMaps
<1>3. CASE k # l
  BY <1>1, <1>2, <1>3 DEF ClaimMap
<1>4. CASE k = l /\ x = e
  <2>1. Unmapped(map[l], R[l][v].expert) \in [Expert -> Slot \cup {None}]
    BY <1>1 DEF Unmapped
  <2>2. map'[k][x] = v
    BY <1>1, <1>4, <2>1 DEF ClaimMap
  <2> QED BY <1>4, <2>2
<1>5. CASE k = l /\ x # e
  <2>1. map'[k][x] = Unmapped(map[l], ram[l][v].expert)[x]
    BY <1>1, <1>5 DEF ClaimMap, Unmapped
  <2>2. x # ram[l][v].expert /\ map'[k][x] = map[l][x]
    BY <1>1, <1>5, <2>1, CacheConstants DEF Unmapped
  <2>3. map[l][x] # v
    BY <1>2, <1>5, <2>2
  <2> QED BY <1>2, <1>5, <2>2, <2>3
<1> QED BY <1>3, <1>4, <1>5

\* A promotion of an expert VRAM does not have.
LEMMA PromoteKeeps ==
    ASSUME Types, Maps, NEW l \in Layer, NEW e \in Expert, NEW s \in Slot, NEW g \in GSlot,
           NEW pick, NEW r, Promote(l, e, s, g, pick, r), gmap[l][e] = None
    PROVE  /\ RamMaps' /\ VramMaps'
           /\ \A k \in Layer, x \in Expert : gmap'[k][x] # None =>
                  gmap[k][x] # None \/ (k = l /\ x = e)
<1> DEFINE victim == vram[l][g]
           to == IF pick = s THEN None ELSE pick
<1>1. /\ map \in [Layer -> [Expert -> Slot \cup {None}]] /\ ram \in [Layer -> [Slot -> RamSlot]]
      /\ vram \in [Layer -> [GSlot -> Expert \cup {None}]] /\ gmap \in [Layer -> [Expert -> GSlot \cup {None}]]
  BY DEF Types, TypeOK
<1>2. /\ vram' = [vram EXCEPT ![l][g] = e]
      /\ gmap' = [gmap EXCEPT ![l] = [Unmapped(gmap[l], victim) EXCEPT ![e] = g]]
      /\ ram' = IF to # None THEN [ram EXCEPT ![l][to] = [Empty EXCEPT !.expert = victim]]
                ELSE IF pick = s THEN [ram EXCEPT ![l][s].soa = FALSE] ELSE ram
      /\ map' = IF to # None THEN [map EXCEPT ![l] = Unmapped(map[l], ram[l][to].expert)] ELSE map
  BY DEF Promote
<1>3. to \in Slot \cup {None}
  BY PromoteTypes
<1>4. RamMaps'
  <2> SUFFICES ASSUME NEW k \in Layer, NEW x \in Expert, map'[k][x] # None
               PROVE  ram'[k][map'[k][x]].expert = x
    BY DEF RamMaps
  <2>1. \A y \in Expert : map[k][y] # None => map[k][y] \in Slot /\ ram[k][map[k][y]].expert = y
    BY <1>1 DEF Maps, RamMaps
  <2>2. CASE to = None
    <3>1. map' = map
      BY <1>2, <2>2
    <3>2. \A z \in Slot : ram'[k][z].expert = ram[k][z].expert
      <4> TAKE z \in Slot
      <4>1. ram[k][z] \in RamSlot
        BY <1>1
      <4> QED BY <1>1, <1>2, <2>2, <4>1 DEF RamSlot
    <3> QED BY <2>1, <3>1, <3>2
  <2>3. CASE to # None
    <3> HIDE DEF to, victim
    <3>1. map' = [map EXCEPT ![l] = Unmapped(map[l], ram[l][to].expert)] /\ to \in Slot
      BY <1>2, <1>3, <2>3
    <3>2. map'[k][x] = map[k][x] /\ ~(k = l /\ x = ram[l][to].expert)
      BY <1>1, <3>1, CacheConstants DEF Unmapped
    <3>3. ~(k = l /\ map[k][x] = to)
      BY <2>1, <3>2
    <3>4. ram' = [ram EXCEPT ![l][to] = [Empty EXCEPT !.expert = victim]]
      BY <1>2, <2>3
    <3>5. ram'[k][map[k][x]] = ram[k][map[k][x]]
      BY <1>1, <2>1, <3>1, <3>2, <3>3, <3>4
    <3> QED BY <2>1, <3>2, <3>5
  <2> QED BY <2>2, <2>3
<1>5. \A k \in Layer, x \in Expert :
          gmap'[k][x] = IF k = l /\ x = e THEN g
                        ELSE IF k = l /\ x = victim THEN None ELSE gmap[k][x]
  BY <1>1, <1>2, CacheConstants DEF Unmapped
<1>6. \A k \in Layer, h \in GSlot : vram'[k][h] = IF k = l /\ h = g THEN e ELSE vram[k][h]
  BY <1>1, <1>2
<1>7. VramMaps'
  <2> SUFFICES ASSUME NEW k \in Layer, NEW x \in Expert
               PROVE  /\ gmap'[k][x] # None => vram'[k][gmap'[k][x]] = x
                      /\ \A h \in GSlot : vram'[k][h] = x => gmap'[k][x] = h
    BY DEF VramMaps
  <2>1. /\ gmap[k][x] # None => gmap[k][x] \in GSlot /\ vram[k][gmap[k][x]] = x
        /\ \A h \in GSlot : vram[k][h] = x => gmap[k][x] = h
    BY <1>1 DEF Maps, VramMaps
  <2>2. CASE k # l
    BY <1>5, <1>6, <2>1, <2>2
  <2>3. CASE k = l /\ x = e
    <3>1. \A h \in GSlot : vram[k][h] # e
      BY <2>1, <2>3, CacheConstants
    <3> QED BY <1>5, <1>6, <2>3, <3>1
  <2>4. CASE k = l /\ x # e
    BY <1>5, <1>6, <2>1, <2>4
  <2> QED BY <2>2, <2>3, <2>4
<1>8. \A k \in Layer, x \in Expert : gmap'[k][x] # None => gmap[k][x] # None \/ (k = l /\ x = e)
  <2> TAKE k \in Layer, x \in Expert
  <2>1. gmap'[k][x] = IF k = l /\ x = e THEN g
                      ELSE IF k = l /\ x = victim THEN None ELSE gmap[k][x]
    BY <1>5
  <2> HIDE DEF victim
  <2> QED BY <2>1
<1> QED BY <1>4, <1>7, <1>8

-----------------------------------------------------------------------------
\* Nothing is to be promoted: not by a refill, nor after a read in flight.
LEMMA FreshBare ==
    ASSUME fetch'.next = None, fetch'.pc \notin {"refill", "warm"}
    PROVE  Fresh'
BY DEF Fresh

\* The steps of a fetch that claim nothing and promote nothing.
LEMMA QuietFetchMaps ==
    ASSUME Types, Maps,
           \/ FetchStartAny \/ FetchSubmit \/ SettlePending \/ RereadAny \/ RereadReturns
           \/ FetchEnd \/ FetchShort
           \/ \E e \in Expert : ServeVram(e) \/ ServeClaimed(e) \/ ServeRam(e) \/ ServeFails(e)
    PROVE  Maps'
<1>0. fetch \in FetchRec
  BY DEF Types, FetchOK
<1>1. \A k \in Layer, s \in Slot : ram[k][s] \in RamSlot /\ ram \in [Layer -> [Slot -> RamSlot]]
  BY DEF Types, TypeOK
<1>2. UNCHANGED <<map, vram, gmap, lent>>
  BY DEF FetchStartAny, FetchStart, FetchSubmit, SettlePending, RereadAny, Reread, RereadReturns,
         FetchEnd, FetchShort, ServeVram, ServeClaimed, ServeRam, ServeFails, tables
<1>3. \A k \in Layer, s \in Slot : ram'[k][s].expert = ram[k][s].expert
  <2> TAKE k \in Layer, s \in Slot
  <2>1. CASE ram' = ram
    BY <2>1
  <2>2. CASE \E e \in Expert : ServeRam(e)
    BY <1>1, <2>2, SMTT(30) DEF ServeRam, RamSlot
  <2>3. CASE SettlePending
    <3>1. ram' = Reaped
      BY <2>3 DEF SettlePending
    <3> QED BY <1>1, <3>1 DEF Reaped, RamSlot
  <2>4. CASE RereadReturns
    <3>1. ram' = [ram EXCEPT ![fetch.layer][fetch.reading[2]].valid = TRUE,
                             ![fetch.layer][fetch.reading[2]].cold = FALSE]
      BY <2>4 DEF RereadReturns
    <3> QED BY <1>1, <3>1, SMTT(30) DEF RamSlot
  <2>5. CASE FetchEnd
    <3>1. ram' = [ram EXCEPT ![fetch.layer] = [x \in Slot |->
                     IF \E c \in fetch.claims : c[2] = x /\ ram[fetch.layer][x].expert = c[1]
                     THEN [ram[fetch.layer][x] EXCEPT !.valid = TRUE] ELSE ram[fetch.layer][x]]]
      BY <2>5 DEF FetchEnd
    <3> QED BY <1>1, <3>1 DEF RamSlot
  <2> QED BY <2>1, <2>2, <2>3, <2>4, <2>5
          DEF FetchStartAny, FetchStart, FetchSubmit, RereadAny, Reread, FetchShort,
              ServeVram, ServeClaimed, ServeFails, tables
<1>4. Fresh'
  <2>0. NoFetch.next = None /\ NoFetch.pc = "idle"
    BY DEF NoFetch
  <2>1. CASE FetchStartAny
    <3>1. fetch'.next = None /\ fetch'.pc = "serve"
      BY <2>1 DEF FetchStartAny, FetchStart, NoFetch
    <3> QED BY <3>1, FreshBare
  <2>2. CASE FetchShort \/ \E e \in Expert : ServeFails(e)
    BY <2>0, <2>2, FreshBare DEF FetchShort, ServeFails
  <2>3. CASE FetchSubmit \/ SettlePending \/ RereadAny \/ RereadReturns
             \/ \E e \in Expert : ServeVram(e) \/ ServeClaimed(e) \/ ServeRam(e)
    <3>1. fetch.pc \in {"serve", "begun", "reread"}
      BY <2>3 DEF FetchSubmit, SettlePending, RereadAny, Reread, RereadReturns, ServeVram,
                  ServeClaimed, ServeRam, Serving
    <3>2. fetch.next = None
      BY <3>1 DEF Maps, Fresh
    <3>3. fetch'.next = fetch.next /\ fetch'.pc \in {"serve", "begun", "reread"}
      BY <1>0, <2>3, <3>1, ZenonT(40) DEF FetchSubmit, SettlePending, RereadAny, Reread, RereadReturns, ServeVram,
                              ServeClaimed, ServeRam, Served, FetchRec
    <3> QED BY <3>2, <3>3, FreshBare
  <2>4. CASE FetchEnd
    <3>1. fetch.pc \in {"idle", "begun"}
      BY <2>4 DEF FetchEnd, Ending
    <3>2. fetch.next = None
      BY <3>1 DEF Maps, Fresh
    <3>3. fetch'.next = None /\ fetch'.pc \in {"idle", "ended"}
      BY <1>0, <2>0, <2>4, <3>2 DEF FetchEnd, FetchRec
    <3> QED BY <3>3, FreshBare
  <2> QED BY <2>1, <2>2, <2>3, <2>4
<1> QED BY <1>2, <1>3, <1>4, KeepMaps DEF Maps

\* The other steps that claim nothing and promote nothing.
LEMMA QuietMaps ==
    ASSUME Types, Maps,
           \/ PrefetchReap \/ SettleLayer \/ SettleLayerDone \/ LendAny \/ RefillDone \/ BatchDone
           \/ RestoreBegin \/ PrefetchFinish \/ RestoreEnds \/ ComputeStep \/ SideStep \/ DiskAny
           \/ UNCHANGED vars
    PROVE  Maps'
<1>0. fetch \in FetchRec
  BY DEF Types, FetchOK
<1>1. \A k \in Layer, s \in Slot : ram[k][s] \in RamSlot /\ ram \in [Layer -> [Slot -> RamSlot]]
  BY DEF Types, TypeOK
<1>2. UNCHANGED <<map, vram, gmap>> /\ lent' \subseteq lent
  BY DEF PrefetchReap, SettleLayer, SettleLayerDone, LendAny, LendBegin, LendEnd, RefillDone, BatchDone,
         RestoreBegin, PrefetchFinish, RestoreEnds, ComputeStep, SideStep, DiskAny, DiskLand, vars, tables
<1>3. \A k \in Layer, s \in Slot : ram'[k][s].expert = ram[k][s].expert
  <2> TAKE k \in Layer, s \in Slot
  <2>1. CASE ram' = ram
    BY <2>1
  <2>2. CASE PrefetchReap
    <3>1. ram' = Reaped
      BY <2>2 DEF PrefetchReap
    <3> QED BY <1>1, <3>1 DEF Reaped, RamSlot
  <2>3. CASE PrefetchFinish
    <3>1. ram' = ram \/ ram' = [ram EXCEPT ![fetch.next.l][fetch.next.v].valid = TRUE]
      BY <2>3 DEF PrefetchFinish
    <3> QED BY <1>1, <3>1 DEF RamSlot
  <2> QED BY <2>1, <2>2, <2>3
          DEF SettleLayer, SettleLayerDone, LendAny, LendBegin, LendEnd, RefillDone, BatchDone,
              RestoreBegin, RestoreEnds, ComputeStep, SideStep, DiskAny, DiskLand, vars, tables
<1>4. Fresh'
  <2>0. NoFetch.next = None /\ NoFetch.pc = "idle"
    BY DEF NoFetch
  <2>1. CASE fetch' = fetch
    BY <1>2, <2>1 DEF Maps, Fresh
  <2>2. CASE SettleLayer
    <3>1. fetch.next = None
      BY <2>2 DEF SettleLayer, Maps, Fresh
    <3>2. fetch'.next = None /\ fetch'.pc = "settle"
      BY <1>0, <2>2, <3>1 DEF SettleLayer, NoFetch, FetchRec
    <3> QED BY <3>2, FreshBare
  <2>3. CASE SettleLayerDone
    <3>1. fetch.next = None
      BY <2>3 DEF SettleLayerDone, Maps, Fresh
    <3>2. fetch'.next = None /\ fetch'.pc = "idle"
      BY <1>0, <2>0, <2>3, <3>1 DEF SettleLayerDone, FetchRec
    <3> QED BY <3>2, FreshBare
  <2>4. CASE LendAny
    <3>1. CASE \E l \in Layer : LendBegin(l)
      <4>1. fetch'.next = None /\ fetch'.pc = "settle"
        BY <3>1 DEF LendBegin, NoFetch
      <4> QED BY <4>1, FreshBare
    <3>2. ASSUME NEW l \in Layer, LendEnd(l) PROVE Fresh'
      <4>1. fetch'.next = None /\ fetch'.pc = "refill" /\ fetch'.layer = l /\ l \in lent
        BY <3>2 DEF LendEnd, NoFetch
      <4>2. fetch'.cand = {ram[l][s].expert : s \in {x \in Slot :
                             ram[l][x].expert # None /\ ram[l][x].valid /\ ~ram[l][x].cold}}
        BY <3>2 DEF LendEnd, NoFetch
      <4>3. fetch'.cand \subseteq Expert
        BY <1>1, <4>2 DEF RamSlot
      <4>4. \A e \in fetch'.cand : gmap'[l][e] = None
        BY <1>2, <4>1, <4>3 DEF Maps, LentEmpty
      <4> QED BY <4>1, <4>4 DEF Fresh
    <3> QED BY <2>4, <3>1, <3>2 DEF LendAny
  <2>5. CASE RefillDone
    <3>1. /\ fetch'.next = fetch.next /\ fetch'.pc = "settle" /\ fetch'.full
      BY <2>5 DEF RefillDone, NoFetch
    <3> QED BY <1>2, <3>1 DEF Maps, Fresh
  <2>6. CASE BatchDone
    <3>1. fetch.next = None
      BY <2>6 DEF BatchDone, Maps, Fresh
    <3>2. fetch'.next = None /\ fetch'.pc = "batched"
      BY <1>0, <2>6, <3>1 DEF BatchDone, FetchRec
    <3> QED BY <3>2, FreshBare
  <2>7. CASE RestoreBegin \/ RestoreEnds
    <3>1. CASE RestoreBegin
      <4>1. fetch'.next = None /\ fetch'.pc = "settle"
        BY <3>1 DEF RestoreBegin, NoFetch
      <4> QED BY <4>1, FreshBare
    <3>2. CASE RestoreEnds
      BY <2>0, <3>2, FreshBare DEF RestoreEnds
    <3> QED BY <2>7, <3>1, <3>2
  <2>8. CASE PrefetchFinish
    <3>1. /\ fetch'.next = None /\ fetch'.pc = "refill" /\ fetch.next # None
          /\ fetch'.layer = fetch.next.l /\ fetch'.cand = {fetch.next.e}
      BY <2>8 DEF PrefetchFinish, NoFetch
    <3> QED BY <1>2, <3>1 DEF Maps, Fresh
  <2> QED BY <2>1, <2>2, <2>3, <2>4, <2>5, <2>6, <2>7, <2>8
          DEF PrefetchReap, ComputeStep, SideStep, DiskAny, DiskLand, vars, hostv
<1> QED BY <1>2, <1>3, <1>4, KeepMaps DEF Maps

LEMMA ServePromoteMaps ==
    ASSUME Types, Maps, NEW e \in Expert, NEW g \in GSlot, NEW pick, NEW r, ServePromote(e, g, pick, r)
    PROVE  Maps'
<1> DEFINE l == fetch.layer
           s == FindSlot(l, e)
<1>1. l \in Layer /\ fetch.pc = "serve" /\ fetch \in FetchRec
  BY ServeFacts DEF ServePromote, Types, FetchOK
<1>2. s \in Slot /\ Promote(l, e, s, g, pick, r) /\ gmap[l][e] = None
  BY <1>1, SlotTypes, Lookup DEF ServePromote
<1>3. RamMaps' /\ VramMaps'
  BY <1>1, <1>2, PromoteKeeps
<1>4. LentEmpty'
  <2>1. lent' = lent /\ l \notin lent /\ lent \subseteq Layer
    BY <1>2, CacheConstants DEF ServePromote, Promote, Types, TypeOK
  <2>2. \A k \in Layer, x \in Expert : gmap'[k][x] # None => gmap[k][x] # None \/ (k = l /\ x = e)
    BY <1>1, <1>2, PromoteKeeps
  <2> QED BY <2>1, <2>2 DEF Maps, LentEmpty
<1>5. Fresh'
  <2>1. fetch.next = None
    BY <1>1 DEF Maps, Fresh
  <2>2. fetch'.next = None /\ fetch'.pc = "serve"
    BY <1>1, <2>1 DEF ServePromote, FetchRec
  <2> QED BY <2>2, FreshBare
<1> QED BY <1>3, <1>4, <1>5 DEF Maps

LEMMA ServeMissMaps ==
    ASSUME Types, Maps, NEW e \in Expert, NEW v \in Slot, NEW cold \in BOOLEAN, ServeMiss(e, v, cold)
    PROVE  Maps'
<1> DEFINE l == fetch.layer
<1>1. l \in Layer /\ fetch.pc = "serve" /\ fetch \in FetchRec
  BY ServeFacts DEF ServeMiss, Types, FetchOK
<1>2. ram \in [Layer -> [Slot -> RamSlot]]
  BY DEF Types, TypeOK
<1>3. ram' = ClaimRam(ram, l, v, e, cold) /\ map' = ClaimMap(ram, l, v, e) /\ UNCHANGED <<vram, gmap, lent>>
  BY DEF ServeMiss
<1>4. ram' \in [Layer -> [Slot -> RamSlot]]
  BY <1>1, <1>2, <1>3, ClaimTypes
<1>5. \A k \in Layer, s \in Slot :
         ram'[k][s].expert = IF k = l /\ s = v THEN e ELSE ram[k][s].expert
  BY <1>1, <1>2, <1>3 DEF ClaimRam
<1>6. RamMaps'
  BY <1>1, <1>2, <1>3, <1>4, <1>5, ClaimKeeps
<1>7. VramMaps' /\ LentEmpty'
  BY <1>3 DEF Maps, VramMaps, LentEmpty
<1>8. Fresh'
  <2>1. fetch.next = None
    BY <1>1 DEF Maps, Fresh
  <2>2. fetch'.next = None /\ fetch'.pc = "serve"
    BY <1>1, <2>1 DEF ServeMiss, FetchRec
  <2> QED BY <2>2, FreshBare
<1> QED BY <1>6, <1>7, <1>8 DEF Maps

LEMMA ServeUpgradeMaps ==
    ASSUME Types, Maps, NEW e \in Expert, ServeUpgrade(e)
    PROVE  Maps'
<1> DEFINE l == fetch.layer
           s == FindSlot(l, e)
           g == gmap[l][e]
<1>1. l \in Layer /\ fetch.pc = "serve" /\ fetch \in FetchRec
  BY ServeFacts DEF ServeUpgrade, Types, FetchOK
<1>2. g = None
  BY <1>1, Lookup DEF ServeUpgrade
<1>3. vram' = vram /\ gmap' = [gmap EXCEPT ![l][e] = None] /\ UNCHANGED <<map, lent>>
  BY <1>2 DEF ServeUpgrade
<1>4. gmap' = gmap
  BY <1>1, <1>2, <1>3 DEF Types, TypeOK
<1>5. \A k \in Layer, x \in Slot : ram'[k][x].expert = ram[k][x].expert
  <2> TAKE k \in Layer, x \in Slot
  <2>1. ram[k][x] \in RamSlot /\ ram \in [Layer -> [Slot -> RamSlot]]
    BY DEF Types, TypeOK
  <2>2. ram' = [ram EXCEPT ![l][s].valid = FALSE, ![l][s].cold = FALSE]
    BY DEF ServeUpgrade
  <2> HIDE DEF s
  <2> QED BY <1>1, <2>1, <2>2 DEF RamSlot
<1>6. Fresh'
  <2>1. fetch.next = None
    BY <1>1 DEF Maps, Fresh
  <2>2. fetch'.next = None /\ fetch'.pc = "serve"
    BY <1>1, <2>1 DEF ServeUpgrade, FetchRec
  <2> QED BY <2>2, FreshBare
<1>7. lent' \subseteq lent /\ map' = map
  BY <1>3
<1> QED BY <1>3, <1>4, <1>5, <1>6, <1>7, KeepMaps DEF Maps

LEMMA PrefetchBeginMaps ==
    ASSUME Types, Maps, NEW l \in Layer, NEW e \in Expert, NEW v \in Slot, NEW cold \in BOOLEAN,
           PrefetchBegin(l, e, v, cold)
    PROVE  Maps'
<1>1. ram \in [Layer -> [Slot -> RamSlot]] /\ Reaped \in [Layer -> [Slot -> RamSlot]]
  BY ReapTypes DEF Types, TypeOK
<1>2. /\ ram' = ClaimRam(Reaped, l, v, e, cold) /\ map' = ClaimMap(ram, l, v, e)
      /\ UNCHANGED <<vram, gmap, lent, fetch>>
  BY DEF PrefetchBegin
<1>3. ram' \in [Layer -> [Slot -> RamSlot]]
  BY <1>1, <1>2, ClaimTypes
<1>4. \A k \in Layer, s \in Slot : Reaped[k][s].expert = ram[k][s].expert
  <2> TAKE k \in Layer, s \in Slot
  <2>1. ram[k][s] \in RamSlot
    BY <1>1
  <2> QED BY <2>1 DEF Reaped, RamSlot
<1>5. \A k \in Layer, s \in Slot :
         ram'[k][s].expert = IF k = l /\ s = v THEN e ELSE ram[k][s].expert
  BY <1>1, <1>2, <1>4 DEF ClaimRam
<1>6. RamMaps'
  BY <1>1, <1>2, <1>3, <1>5, ClaimKeeps
<1>7. VramMaps' /\ LentEmpty' /\ Fresh'
  BY <1>2 DEF Maps, VramMaps, LentEmpty, Fresh
<1> QED BY <1>6, <1>7 DEF Maps

LEMMA SettleFullDoneMaps ==
    ASSUME Types, Maps, SettleFullDone
    PROVE  Maps'
<1>0. /\ vram \in [Layer -> [GSlot -> Expert \cup {None}]] /\ gmap \in [Layer -> [Expert -> GSlot \cup {None}]]
      /\ fetch \in FetchRec /\ UNCHANGED <<ram, map>>
  BY DEF Types, TypeOK, FetchOK, SettleFullDone
<1>1. \A k \in Layer, x \in Expert : gmap'[k][x] = None \/ gmap'[k][x] = gmap[k][x]
  BY <1>0 DEF SettleFullDone
<1>2. \A k \in Layer : \/ k \in lent' /\ (\A x \in Expert : gmap'[k][x] = None)
                          /\ (\A h \in GSlot : vram'[k][h] = None)
                       \/ (k \in lent' => k \in lent) /\ gmap'[k] = gmap[k] /\ vram'[k] = vram[k]
  BY <1>0 DEF SettleFullDone
<1>3. RamMaps'
  BY <1>0 DEF Maps, RamMaps
<1>4. VramMaps'
  BY <1>2, CacheConstants DEF Maps, VramMaps
<1>5. LentEmpty'
  <2>1. lent' \subseteq Layer
    BY SettleFullDoneTypes, CacheConstants DEF Types, TypeOK
  <2> QED BY <1>2, <2>1 DEF Maps, LentEmpty
<1>6. Fresh'
  <2>1. CASE fetch.restore
    <3>1. fetch'.pc = "restore" /\ fetch'.next = fetch.next
      BY <2>1 DEF SettleFullDone, NoFetch
    <3>2. fetch.next # None => fetch.next.l \in Layer /\ fetch.next.e \in Expert
      BY <1>0 DEF FetchRec
    <3> QED BY <1>1, <3>1, <3>2 DEF Maps, Fresh
  <2>2. CASE ~fetch.restore
    BY <2>2, FreshBare DEF SettleFullDone, NoFetch
  <2> QED BY <2>1, <2>2
<1> QED BY <1>3, <1>4, <1>5, <1>6 DEF Maps

LEMMA RefillMaps ==
    ASSUME Types, Maps, NEW e \in Expert, NEW g \in GSlot, NEW pick, NEW r, Refill(e, g, pick, r)
    PROVE  Maps'
<1> DEFINE l == fetch.layer
           s == FindSlot(l, e)
<1>1. l \in Layer /\ fetch.pc \in {"refill", "warm"} /\ fetch \in FetchRec /\ e \in fetch.cand
  BY DEF Refill, Types, FetchOK, AtLayer
<1>2. s \in Slot /\ Promote(l, e, s, g, pick, r) /\ gmap[l][e] = None
  BY <1>1, SlotTypes DEF Refill, Maps, Fresh
<1>3. RamMaps' /\ VramMaps'
  BY <1>1, <1>2, PromoteKeeps
<1>4. \A k \in Layer, x \in Expert : gmap'[k][x] # None => gmap[k][x] # None \/ (k = l /\ x = e)
  BY <1>1, <1>2, PromoteKeeps
<1>5. LentEmpty'
  <2>1. lent' = lent /\ l \notin lent /\ lent \subseteq Layer
    BY <1>2, CacheConstants DEF Refill, Promote, Types, TypeOK
  <2> QED BY <1>4, <2>1 DEF Maps, LentEmpty
<1>6. Fresh'
  <2>1. fetch'.pc = fetch.pc /\ fetch'.layer = l /\ fetch'.next = fetch.next /\ fetch'.cand = fetch.cand \ {e}
    BY <1>1 DEF Refill, FetchRec
  <2>2. fetch.cand \subseteq Expert /\ (fetch.next # None => fetch.next.l \in Layer /\ fetch.next.e \in Expert)
    BY <1>1 DEF FetchRec
  <2>3. \A x \in fetch'.cand : gmap'[fetch'.layer][x] = None
    BY <1>1, <1>4, <2>1, <2>2 DEF Maps, Fresh
  <2>4. fetch.next # None => gmap'[fetch.next.l][fetch.next.e] = None /\ fetch.pc = "refill" /\ fetch.next.l # l
    BY <1>1, <1>4, <2>2 DEF Maps, Fresh
  <2> QED BY <2>1, <2>3, <2>4 DEF Fresh
<1> QED BY <1>3, <1>5, <1>6 DEF Maps

LEMMA WarmMaps ==
    ASSUME Types, Maps, NEW l \in Layer, NEW e \in Expert, NEW v \in Slot, Warm(l, e, v)
    PROVE  Maps'
<1> DEFINE s == FindSlot(l, e)
           R == IF s # None /\ ram[l][s].cold
                THEN [ram EXCEPT ![l][s].expert = None, ![l][s].valid = FALSE] ELSE ram
           has == s # None /\ ~ram[l][s].cold
           full == [expert |-> e, valid |-> TRUE, cold |-> FALSE, soa |-> FALSE]
           f == [NoFetch EXCEPT !.pc = "warm", !.layer = l, !.cand = {e}]
<1>1. ram \in [Layer -> [Slot -> RamSlot]] /\ map \in [Layer -> [Expert -> Slot \cup {None}]]
  BY DEF Types, TypeOK
<1>2. gmap[l][e] = None /\ fetch' = f /\ UNCHANGED <<vram, gmap, lent>>
  BY DEF Warm
<1>3. Fresh'
  <2>1. f.pc = "warm" /\ f.layer = l /\ f.cand = {e} /\ f.next = None
    BY DEF NoFetch
  <2> HIDE DEF f
  <2> QED BY <1>2, <2>1 DEF Fresh
<1>4. VramMaps' /\ LentEmpty'
  BY <1>2 DEF Maps, VramMaps, LentEmpty
<1>5. RamMaps'
  <2>1. CASE has
    BY <2>1 DEF Warm, Maps, RamMaps
  <2>2. CASE ~has
    <3>1. ram' = [R EXCEPT ![l][v] = full] /\ map' = ClaimMap(R, l, v, e)
      BY <2>2 DEF Warm
    <3>2. \A x \in Expert : map[l][x] # None => map[l][x] \in Slot /\ ram[l][map[l][x]].expert = x
      BY <1>1 DEF Maps, RamMaps
    <3>3. \A k \in Layer, x \in Slot : /\ (k # l \/ x # s) => R[k][x].expert = ram[k][x].expert
                                       /\ R[k][x].expert \in Expert \cup {None}
      <4> TAKE k \in Layer, x \in Slot
      <4>1. ram[k][x] \in RamSlot
        BY <1>1
      <4> HIDE DEF s
      <4> QED BY <1>1, <4>1 DEF RamSlot
    <3>4. s # None => s = map[l][e] /\ ram[l][s].expert = e
      BY Lookup
    <3>5. R \in [Layer -> [Slot -> RamSlot]]
      <4>1. s # None => s \in Slot
        BY SlotTypes
      <4>2. s # None => [ram[l][s] EXCEPT !.expert = None, !.valid = FALSE] \in RamSlot
        <5>1. s # None => ram[l][s] \in RamSlot
          BY <1>1, <4>1
        <5> QED BY <5>1 DEF RamSlot
      <4> HIDE DEF s
      <4> QED BY <1>1, <4>1, <4>2
    <3>6. \A k \in Layer, x \in Slot :
             ram'[k][x].expert = IF k = l /\ x = v THEN e ELSE R[k][x].expert
      <4> HIDE DEF R
      <4> QED BY <3>1, <3>5
    <3> HIDE DEF R, s
    <3> SUFFICES ASSUME NEW k \in Layer, NEW x \in Expert, map'[k][x] # None
                 PROVE  ram'[k][map'[k][x]].expert = x
      BY DEF RamMaps
    <3>7. CASE k # l
      <4>1. map'[k][x] = map[k][x]
        BY <1>1, <3>1, <3>7 DEF ClaimMap
      <4>2. map[k][x] \in Slot /\ ram[k][map[k][x]].expert = x
        BY <1>1, <4>1 DEF Maps, RamMaps
      <4> QED BY <3>3, <3>6, <3>7, <4>1, <4>2
    <3>8. CASE k = l /\ x = e
      <4>1. Unmapped(map[l], R[l][v].expert) \in [Expert -> Slot \cup {None}]
        BY <1>1 DEF Unmapped
      <4>2. map'[k][x] = v
        BY <1>1, <3>1, <3>8, <4>1 DEF ClaimMap
      <4> QED BY <3>6, <3>8, <4>2
    <3>9. CASE k = l /\ x # e
      <4>1. map'[k][x] = Unmapped(map[l], R[l][v].expert)[x]
        BY <1>1, <3>1, <3>9 DEF ClaimMap, Unmapped
      <4>2. x # R[l][v].expert /\ map'[k][x] = map[l][x]
        BY <1>1, <3>9, <4>1, CacheConstants DEF Unmapped
      <4>3. map[l][x] \in Slot /\ ram[l][map[l][x]].expert = x
        BY <3>2, <3>9, <4>2
      <4>4. map[l][x] # s
        BY <3>4, <3>9, <4>3, CacheConstants
      <4>5. R[l][map[l][x]].expert = x
        BY <3>3, <4>3, <4>4
      <4>6. map[l][x] # v
        BY <4>2, <4>5
      <4> QED BY <3>6, <3>9, <4>2, <4>3, <4>5, <4>6
    <3> QED BY <3>7, <3>8, <3>9
  <2> QED BY <2>1, <2>2
<1> QED BY <1>3, <1>4, <1>5 DEF Maps

LEMMA FetchBatchMaps ==
    ASSUME Types, Maps, NEW l \in Layer, NEW es \in SUBSET Expert,
           NEW adopt \in Adoptions(l, {e \in es : ~BatchHit(l, e)}), FetchBatch(l, es, adopt)
    PROVE  /\ Maps'
           /\ \A e \in Expert : map'[l][e] # map[l][e] => gmap[l][e] = None
           /\ \A k \in Layer \ {l} : map'[k] = map[k]
<1> DEFINE into == {e \in DOMAIN adopt : adopt[e] # None}
           hits == {e \in es \ DOMAIN adopt : ~InVram(l, e)}
           of(s) == {e \in into : adopt[e] = s}
           hit(s) == \E e \in hits : map[l][e] = s
           f == [NoFetch EXCEPT !.pc = "batch", !.layer = l, !.need.hot = Cardinality(into)]
<1>1. /\ ram \in [Layer -> [Slot -> RamSlot]] /\ map \in [Layer -> [Expert -> Slot \cup {None}]]
  BY DEF Types, TypeOK
<1>2. fetch' = f /\ UNCHANGED <<vram, gmap, lent>>
  BY DEF FetchBatch
<1>3. Fresh'
  <2>1. f.next = None /\ f.pc = "batch"
    BY DEF NoFetch
  <2> HIDE DEF f
  <2> QED BY <1>2, <2>1, FreshBare
<1>4. VramMaps' /\ LentEmpty'
  BY <1>2 DEF Maps, VramMaps, LentEmpty
<1>5. /\ \A e \in into : e \in Expert /\ ~BatchHit(l, e) /\ adopt[e] \in Slot /\ ram[l][adopt[e]].expert = None
      /\ \A a, b \in into : adopt[a] = adopt[b] => a = b
  BY DEF Adoptions
<1>6. \A k \in Layer, e \in Expert : map'[k][e] = IF k = l /\ e \in into THEN adopt[e] ELSE map[k][e]
  <2>1. map' = [map EXCEPT ![l] = [e \in Expert |-> IF e \in into THEN adopt[e] ELSE map[l][e]]]
    BY DEF FetchBatch
  <2> HIDE DEF into
  <2> QED BY <1>1, <2>1
<1>7. ram' = [ram EXCEPT ![l] = [s \in Slot |->
                 IF of(s) # {} THEN [expert |-> CHOOSE e \in of(s) : TRUE, valid |-> TRUE,
                                     cold |-> FALSE, soa |-> FALSE]
                 ELSE IF hit(s) THEN [ram[l][s] EXCEPT !.soa = FALSE] ELSE ram[l][s]]]
  BY DEF FetchBatch
<1>8. \A e \in into : ram'[l][adopt[e]].expert = e
  <2> TAKE e \in into
  <2>1. of(adopt[e]) = {e}
    BY <1>5
  <2>2. (CHOOSE x \in of(adopt[e]) : TRUE) = e /\ adopt[e] \in Slot
    BY <1>5, <2>1
  <2> HIDE DEF of, hit
  <2> QED BY <1>1, <1>7, <2>1, <2>2
<1>9. \A k \in Layer, s \in Slot : (k = l => ram[k][s].expert # None) => ram'[k][s].expert = ram[k][s].expert
  <2> TAKE k \in Layer, s \in Slot
  <2> HAVE k = l => ram[k][s].expert # None
  <2>1. ram[k][s] \in RamSlot
    BY <1>1
  <2>2. k = l => of(s) = {}
    BY <1>5
  <2> HIDE DEF of, hit
  <2> QED BY <1>1, <1>7, <2>1, <2>2 DEF RamSlot
<1>10. RamMaps'
  <2> SUFFICES ASSUME NEW k \in Layer, NEW x \in Expert, map'[k][x] # None
               PROVE  ram'[k][map'[k][x]].expert = x
    BY DEF RamMaps
  <2>1. CASE k = l /\ x \in into
    BY <1>6, <1>8, <2>1
  <2>2. CASE ~(k = l /\ x \in into)
    <3>1. map'[k][x] = map[k][x]
      BY <1>6, <2>2
    <3>2. map[k][x] \in Slot /\ ram[k][map[k][x]].expert = x
      BY <1>1, <3>1 DEF Maps, RamMaps
    <3> QED BY <1>9, <3>1, <3>2, CacheConstants
  <2> QED BY <2>1, <2>2
<1>11. \A e \in Expert : map'[l][e] # map[l][e] => gmap[l][e] = None
  <2> TAKE e \in Expert
  <2> HAVE map'[l][e] # map[l][e]
  <2>1. e \in into
    BY <1>6
  <2>2. ~InVram(l, e)
    BY <1>5, <2>1 DEF BatchHit
  <2> QED BY <2>2, Lookup
<1>12. \A k \in Layer \ {l} : map'[k] = map[k]
  BY <1>1 DEF FetchBatch
<1> QED BY <1>3, <1>4, <1>10, <1>11, <1>12 DEF Maps

LEMMA PrefetchStartMaps ==
    ASSUME Types, Maps, NEW l \in Layer, NEW e \in Expert, NEW v \in Slot \cup {None}, PrefetchStart(l, e, v)
    PROVE  Maps'
<1> DEFINE next == [l |-> l, e |-> e, v |-> v]
<1>1. ram \in [Layer -> [Slot -> RamSlot]] /\ fetch \in FetchRec
  BY DEF Types, TypeOK, FetchOK
<1>2. gmap[l][e] = None /\ UNCHANGED <<vram, gmap, lent>>
  BY Lookup DEF PrefetchStart
<1>3. VramMaps' /\ LentEmpty'
  BY <1>2 DEF Maps, VramMaps, LentEmpty
<1>4. Fresh'
  <2>1. /\ fetch'.pc = fetch.pc /\ fetch'.layer = fetch.layer /\ fetch'.cand = fetch.cand
        /\ fetch'.next = next
    BY <1>1 DEF PrefetchStart, FetchRec
  <2>2. next.l = l /\ next.e = e
    OBVIOUS
  <2>3. fetch.pc = "restore" \/ (fetch.pc = "refill" /\ l # fetch.layer)
    BY DEF PrefetchStart
  <2> HIDE DEF next
  <2> QED BY <1>2, <2>1, <2>2, <2>3 DEF Maps, Fresh
<1>5. RamMaps'
  <2>1. CASE v = None
    BY <2>1 DEF PrefetchStart, Maps, RamMaps
  <2>2. CASE v # None
    <3>1. v \in Slot /\ ram' = ClaimRam(ram, l, v, e, ram[l][v].cold) /\ map' = ClaimMap(ram, l, v, e)
      BY <2>2 DEF PrefetchStart
    <3>2. ram[l][v].cold \in BOOLEAN
      <4>1. ram[l][v] \in RamSlot
        BY <1>1, <3>1
      <4> QED BY <4>1 DEF RamSlot
    <3>3. ram' \in [Layer -> [Slot -> RamSlot]]
      BY <1>1, <3>1, <3>2, ClaimTypes
    <3>4. \A k \in Layer, s \in Slot : ram'[k][s].expert = IF k = l /\ s = v THEN e ELSE ram[k][s].expert
      BY <1>1, <3>1 DEF ClaimRam
    <3> QED BY <1>1, <3>1, <3>3, <3>4, ClaimKeeps
  <2> QED BY <2>1, <2>2
<1> QED BY <1>3, <1>4, <1>5 DEF Maps

-----------------------------------------------------------------------------
(* What finish_swap() does to the two tables, entry by entry.              *)

Sw == Head(swaps)
Away ==
    /\ ram[Sw.layer][Sw.from].expert = Sw.promoted /\ map[Sw.layer][Sw.promoted] = Sw.from
    /\ InVram(Sw.layer, Sw.promoted)
AwayRam == IF Away THEN ReleasedRam(ram, Sw.layer, Sw.from) ELSE ram
AwayMap == IF Away THEN ReleasedMap(map, ram, Sw.layer, Sw.from) ELSE map
Held ==
    /\ Sw.to # None /\ AwayRam[Sw.layer][Sw.to].expert = Sw.victim
    /\ ~AwayRam[Sw.layer][Sw.to].valid
Lands == Held /\ AwayMap[Sw.layer][Sw.victim] = None /\ ~InVram(Sw.layer, Sw.victim)

LEMMA SwapHead ==
    ASSUME Types, FinishSwap
    PROVE  /\ swaps # <<>> /\ swaps \in Seq(SwapRec) /\ swaps' = Tail(swaps) /\ fetch.pc = "settle"
           /\ Sw.layer \in Layer /\ Sw.from \in Slot /\ Sw.promoted \in Expert
           /\ Sw.to \in Slot \cup {None} /\ Sw.victim \in Expert \cup {None}
           /\ Sw.ring \in Ring \cup {None}
           /\ Held => Sw.to \in Slot
           /\ UNCHANGED <<vram, gmap, lent, rel, fetch, pend, pf>>
<1>1. swaps # <<>> /\ swaps \in Seq(SwapRec) /\ swaps' = Tail(swaps) /\ fetch.pc = "settle"
      /\ UNCHANGED <<vram, gmap, lent, rel, fetch, pend, pf>>
  BY DEF FinishSwap, Types, TypeOK
<1>2. Sw \in SwapRec
  BY <1>1 DEF Sw
<1>3. /\ Sw.layer \in Layer /\ Sw.from \in Slot /\ Sw.promoted \in Expert
      /\ Sw.to \in Slot \cup {None} /\ Sw.victim \in Expert \cup {None}
      /\ Sw.ring \in Ring \cup {None}
  BY <1>2 DEF SwapRec
<1> QED BY <1>1, <1>3 DEF Held

LEMMA SwapRam ==
    ASSUME Types, FinishSwap, NEW k \in Layer, NEW x \in Slot
    PROVE  /\ ~(k = Sw.layer /\ ((Away /\ x = Sw.from) \/ (Held /\ x = Sw.to))) => ram'[k][x] = ram[k][x]
           /\ k = Sw.layer /\ Held /\ Lands /\ x = Sw.to =>
                  ram'[k][x].expert = Sw.victim /\ ram'[k][x].valid
           /\ k = Sw.layer /\ Held /\ ~Lands /\ x = Sw.to =>
                  ram'[k][x].expert = None /\ ~ram'[k][x].valid
           /\ k = Sw.layer /\ Away /\ x = Sw.from /\ ~(Held /\ x = Sw.to) =>
                  ram'[k][x].expert = None /\ ~ram'[k][x].valid
           /\ AwayRam[k][x] = ram[k][x] \/ (AwayRam[k][x].expert = None /\ k = Sw.layer /\ x = Sw.from /\ Away)
<1>1. /\ Sw.layer \in Layer /\ Sw.from \in Slot /\ (Held => Sw.to \in Slot)
      /\ ram \in [Layer -> [Slot -> RamSlot]] /\ map \in [Layer -> [Expert -> Slot \cup {None}]]
      /\ free \in [Layer -> Seq(Slot)]
  BY SwapHead DEF Types, TypeOK
<1>2. ram' = IF Lands
             THEN [AwayRam EXCEPT ![Sw.layer][Sw.to] =
                      [expert |-> Sw.victim, valid |-> TRUE, cold |-> FALSE, soa |-> TRUE]]
             ELSE IF Held THEN ReleasedRam(AwayRam, Sw.layer, Sw.to) ELSE AwayRam
  BY DEF FinishSwap, Sw, Away, AwayRam, AwayMap, Held, Lands
<1>3. AwayRam \in [Layer -> [Slot -> RamSlot]]
  BY <1>1, ReleaseTypes DEF AwayRam
<1>4. AwayRam[k][x] = IF Away /\ k = Sw.layer /\ x = Sw.from
                      THEN [Empty EXCEPT !.cold = ram[k][x].cold] ELSE ram[k][x]
  BY <1>1 DEF AwayRam, ReleasedRam
<1>5. Lands => Held
  BY DEF Lands
<1> HIDE DEF Sw, Away, AwayRam, Held, Lands
<1>6. ram'[k][x] = IF Lands /\ k = Sw.layer /\ x = Sw.to
                   THEN [expert |-> Sw.victim, valid |-> TRUE, cold |-> FALSE, soa |-> TRUE]
                   ELSE IF Held /\ ~Lands /\ k = Sw.layer /\ x = Sw.to
                   THEN [Empty EXCEPT !.cold = AwayRam[k][x].cold] ELSE AwayRam[k][x]
  BY <1>1, <1>2, <1>3, <1>5 DEF ReleasedRam
<1>7. \A c : [Empty EXCEPT !.cold = c].expert = None /\ ~[Empty EXCEPT !.cold = c].valid
  BY DEF Empty
<1> QED BY <1>4, <1>5, <1>6, <1>7

LEMMA SwapMap ==
    ASSUME Types, FinishSwap, NEW k \in Layer, NEW x \in Expert
    PROVE  /\ map'[k][x] \in {map[k][x], None} \/ (Lands /\ k = Sw.layer /\ x = Sw.victim /\ map'[k][x] = Sw.to)
           /\ Lands /\ k = Sw.layer /\ x = Sw.victim => map'[k][x] = Sw.to
           /\ Away /\ k = Sw.layer /\ x = Sw.promoted /\ ~(Lands /\ x = Sw.victim) => map'[k][x] = None
           /\ Held /\ ~Lands /\ k = Sw.layer /\ x = Sw.victim /\ map[k][x] = Sw.to => map'[k][x] = None
           /\ Lands /\ k = Sw.layer /\ x = Sw.victim => map[k][x] = None \/ (Away /\ x = Sw.promoted)
<1>1. /\ Sw.layer \in Layer /\ Sw.from \in Slot /\ (Held => Sw.to \in Slot)
      /\ ram \in [Layer -> [Slot -> RamSlot]] /\ map \in [Layer -> [Expert -> Slot \cup {None}]]
      /\ free \in [Layer -> Seq(Slot)]
  BY SwapHead DEF Types, TypeOK
<1>2. map' = IF Lands THEN [AwayMap EXCEPT ![Sw.layer][Sw.victim] = Sw.to]
             ELSE IF Held THEN ReleasedMap(AwayMap, AwayRam, Sw.layer, Sw.to) ELSE AwayMap
  BY DEF FinishSwap, Sw, Away, AwayRam, AwayMap, Held, Lands
<1>3. AwayMap \in [Layer -> [Expert -> Slot \cup {None}]]
  BY <1>1, ReleaseTypes DEF AwayMap
<1>4. AwayMap[k][x] = IF Away /\ k = Sw.layer /\ x = Sw.promoted THEN None ELSE map[k][x]
  <2>1. CASE ~Away
    BY <2>1 DEF AwayMap
  <2>2. CASE Away
    <3>1. ram[Sw.layer][Sw.from].expert = Sw.promoted /\ map[Sw.layer][Sw.promoted] = Sw.from
          /\ Sw.promoted \in Expert
      BY <2>2, SwapHead DEF Away
    <3>2. AwayMap = [map EXCEPT ![Sw.layer][Sw.promoted] = None]
      BY <2>2, <3>1, CacheConstants DEF AwayMap, ReleasedMap
    <3> QED BY <1>1, <2>2, <3>1, <3>2
  <2> QED BY <2>1, <2>2
<1>5. Held => AwayRam[Sw.layer][Sw.to].expert = Sw.victim
  BY DEF Held
<1>6. (Lands => Held) /\ (Lands => AwayMap[Sw.layer][Sw.victim] = None)
  BY DEF Lands
<1> HIDE DEF Sw, Away, AwayRam, AwayMap, Held, Lands
<1>7. CASE Lands
  <2>1. map'[k][x] = IF k = Sw.layer /\ x = Sw.victim THEN Sw.to ELSE AwayMap[k][x]
    BY <1>1, <1>2, <1>3, <1>7
  <2> QED BY <1>4, <1>6, <1>7, <2>1
<1>8. CASE ~Lands /\ Held
  <2>1. map' = IF Sw.victim # None /\ AwayMap[Sw.layer][Sw.victim] = Sw.to
               THEN [AwayMap EXCEPT ![Sw.layer][Sw.victim] = None] ELSE AwayMap
    BY <1>2, <1>5, <1>8 DEF ReleasedMap
  <2>2. map'[k][x] = IF k = Sw.layer /\ x = Sw.victim /\ AwayMap[k][x] = Sw.to THEN None ELSE AwayMap[k][x]
    BY <1>1, <1>3, <2>1, CacheConstants
  <2> QED BY <1>4, <1>8, <2>2
<1>9. CASE ~Lands /\ ~Held
  BY <1>2, <1>4, <1>9
<1> QED BY <1>7, <1>8, <1>9

LEMMA FinishSwapMaps ==
    ASSUME Types, Maps, FinishSwap
    PROVE  Maps'
<1>1. /\ Sw.layer \in Layer /\ Sw.from \in Slot /\ (Held => Sw.to \in Slot)
      /\ UNCHANGED <<vram, gmap, lent, fetch>>
  BY SwapHead
<1>2. VramMaps' /\ LentEmpty' /\ Fresh'
  BY <1>1 DEF Maps, VramMaps, LentEmpty, Fresh
<1>3. RamMaps'
  <2> SUFFICES ASSUME NEW k \in Layer, NEW x \in Expert, map'[k][x] # None
               PROVE  ram'[k][map'[k][x]].expert = x
    BY DEF RamMaps
  <2>0. Lands => Held
    BY DEF Lands
  <2>1. CASE Lands /\ k = Sw.layer /\ x = Sw.victim
    <3>1. map'[k][x] = Sw.to
      BY <2>1, SwapMap
    <3>2. ram'[k][Sw.to].expert = Sw.victim
      BY <1>1, <2>0, <2>1, SwapRam
    <3> QED BY <2>1, <3>1, <3>2
  <2>2. CASE ~(Lands /\ k = Sw.layer /\ x = Sw.victim)
    <3> DEFINE z == map[k][x]
    <3>1. map'[k][x] = z
      BY <2>2, SwapMap
    <3>2. z \in Slot /\ ram[k][z].expert = x
      <4>1. z \in Slot \cup {None}
        BY DEF Types, TypeOK
      <4> QED BY <3>1, <4>1 DEF Maps, RamMaps
    <3>3. ~(k = Sw.layer /\ Away /\ z = Sw.from)
      <4> SUFFICES ASSUME k = Sw.layer, Away, z = Sw.from PROVE FALSE
        OBVIOUS
      <4>1. x = Sw.promoted
        BY <3>2 DEF Away
      <4> QED BY <2>2, <4>1, SwapMap
    <3>4. ~(k = Sw.layer /\ Held /\ z = Sw.to)
      <4> SUFFICES ASSUME k = Sw.layer, Held, z = Sw.to PROVE FALSE
        OBVIOUS
      <4>1. AwayRam[k][z].expert = x
        BY <3>2, <3>3, SwapRam
      <4>2. x = Sw.victim
        BY <4>1 DEF Held
      <4> QED BY <2>2, <4>2, SwapMap
    <3>5. ram'[k][z] = ram[k][z]
      BY <3>2, <3>3, <3>4, SwapRam
    <3> QED BY <3>1, <3>2, <3>5
  <2> QED BY <2>1, <2>2
<1> QED BY <1>2, <1>3 DEF Maps

LEMMA StepMaps == Types /\ Maps /\ [Next]_vars => Maps'
<1> SUFFICES ASSUME Types, Maps, [Next]_vars PROVE Maps'
  OBVIOUS
<1>1. CASE FetchStartAny
  BY <1>1, QuietFetchMaps
<1>2. CASE FetchSteps
  <2>1. CASE ServeAny
    <3>1. CASE \E e \in Expert : ServeVram(e) \/ ServeClaimed(e) \/ ServeRam(e) \/ ServeFails(e)
      BY <3>1, QuietFetchMaps
    <3>2. CASE \E e \in Expert : ServeUpgrade(e)
      BY <3>2, ServeUpgradeMaps
    <3> QED BY <2>1, <3>1, <3>2 DEF ServeAny
  <2>2. CASE ServePromoteAny \/ ServeMissAny
    BY <2>2, ServePromoteMaps, ServeMissMaps DEF ServePromoteAny, ServeMissAny
  <2>3. CASE FetchSubmit \/ SettlePending \/ RereadAny \/ RereadReturns \/ FetchEnd \/ FetchShort
    BY <2>3, QuietFetchMaps
  <2>4. CASE SettleLayer \/ SettleLayerDone \/ BatchDone \/ PrefetchFinish \/ RestoreEnds
    BY <2>4, QuietMaps
  <2>5. CASE FinishSwap \/ SettleFullDone
    BY <2>5, FinishSwapMaps, SettleFullDoneMaps
  <2> QED BY <1>2, <2>1, <2>2, <2>3, <2>4, <2>5 DEF FetchSteps
<1>3. CASE PrefetchAny \/ PrefetchReap
  BY <1>3, PrefetchBeginMaps, QuietMaps DEF PrefetchAny
<1>4. CASE LendAny \/ RefillAny \/ RefillDone
  BY <1>4, QuietMaps, RefillMaps DEF RefillAny
<1>5. CASE WarmAny \/ RestoreBegin \/ RestoreAny
  BY <1>5, WarmMaps, QuietMaps, PrefetchStartMaps DEF WarmAny, RestoreAny
<1>6. CASE BatchAny
  <2>1. PICK l \in Layer, list \in Lists :
            \E adopt \in Adoptions(l, {e \in ToSet(list) : ~BatchHit(l, e)}) : FetchBatch(l, ToSet(list), adopt)
    BY <1>6 DEF BatchAny
  <2>2. ToSet(list) \in SUBSET Expert
    BY DEF Lists, ToSet
  <2> QED BY <2>1, <2>2, FetchBatchMaps
<1>7. CASE ComputeStep \/ SideStep \/ DiskAny \/ UNCHANGED vars
  BY <1>7, QuietMaps
<1> QED BY <1>1, <1>2, <1>3, <1>4, <1>5, <1>6, <1>7 DEF Next

LEMMA MapsAlways == Spec => []Maps
<1>1. Init => Maps
  <2> SUFFICES ASSUME Init PROVE Maps
    OBVIOUS
  <2>1. Fresh
    BY DEF Init, Fresh, NoFetch
  <2>2. RamMaps /\ VramMaps /\ LentEmpty
    BY CacheConstants DEF Init, RamMaps, VramMaps, LentEmpty
  <2> QED BY <2>1, <2>2 DEF Maps
<1>2. Types /\ Maps /\ [Next]_vars => Maps'
  BY StepMaps
<1> QED BY <1>1, <1>2, TypesAlways, PTL DEF Spec

\* Each tier's two tables are inverse to each other, across evictions, swaps,
\* speculative reads, loans, refills and prompts: an expert's entry names a slot
\* that holds it, and no VRAM slot holds one whose entry is another's.
THEOREM TablesAgree == Spec => []MapsAgree
<1>1. Types /\ Maps => MapsAgree
  BY DEF Types, Maps, RamMaps, VramMaps, MapsAgree
<1> QED BY <1>1, TypesAlways, MapsAlways, PTL


-----------------------------------------------------------------------------
(* The staging ring: the entries in use are those of the swaps that are    *)
(* pending and of the read-backs that are landing, one each.               *)

RingOK ==
    /\ \A r \in ringBusy : \/ \E i \in 1..Len(swaps) : swaps[i].ring = r
                           \/ \E i \in 1..Len(landing) : landing[i].ring = r
    /\ \A i \in 1..Len(swaps) : swaps[i].ring # None => swaps[i].ring \in ringBusy
    /\ \A i \in 1..Len(landing) : landing[i].ring \in ringBusy
    /\ \A i, j \in 1..Len(swaps) : swaps[i].ring = swaps[j].ring /\ swaps[i].ring # None => i = j
    /\ \A i, j \in 1..Len(landing) : landing[i].ring = landing[j].ring => i = j
    /\ \A i \in 1..Len(swaps), j \in 1..Len(landing) : swaps[i].ring # landing[j].ring

LEMMA RingTypes ==
    ASSUME Types
    PROVE  /\ swaps \in Seq(SwapRec) /\ landing \in Seq(SwapRec) /\ ringBusy \subseteq Ring
           /\ Len(swaps) \in Nat /\ Len(landing) \in Nat /\ None \notin Ring
BY CacheConstants DEF Types, TypeOK

\* All read-backs are landed.
LEMMA LandRings ==
    ASSUME Types, RingOK, swaps' = swaps, landing' = <<>>,
           \/ ringBusy' = ringBusy \ {landing[i].ring : i \in 1..Len(landing)}
           \/ ringBusy' = ringBusy \ Rings(landing)
    PROVE  RingOK'
<1>1. ringBusy' = ringBusy \ {landing[i].ring : i \in 1..Len(landing)}
  BY RingTypes DEF Rings
<1>2. Len(landing') = 0 /\ 1..Len(landing') = {}
  OBVIOUS
<1>3. \A r : r \in ringBusy' <=> r \in ringBusy /\ \A i \in 1..Len(landing) : landing[i].ring # r
  BY <1>1
<1> QED BY <1>2, <1>3 DEF RingOK

LEMMA LandLayerRings ==
    ASSUME Types, RingOK, NEW l \in Layer, LandLayer(l), swaps' = swaps
    PROVE  RingOK'
<1>1. CASE \E i \in 1..Len(landing) : landing[i].layer = l
  BY <1>1, LandRings DEF LandLayer
<1>2. CASE ~\E i \in 1..Len(landing) : landing[i].layer = l
  BY <1>2 DEF LandLayer, RingOK
<1> QED BY <1>1, <1>2

\* A promotion takes an entry that is free.
LEMMA PromoteRings ==
    ASSUME Types, RingOK, NEW l \in Layer, NEW e \in Expert, NEW s \in Slot, NEW g \in GSlot,
           NEW pick, NEW r, Promote(l, e, s, g, pick, r), landing' = landing
    PROVE  RingOK'
<1> DEFINE to == IF pick = s THEN None ELSE pick
           sw == [layer |-> l, promoted |-> e, from |-> s, victim |-> vram[l][g], to |-> to, ring |-> r]
<1>1. r = None \/ r \in Ring \ ringBusy
  BY DEF Promote, RingTargets
<1>2. ringBusy' = IF r # None THEN ringBusy \cup {r} ELSE ringBusy
  BY DEF Promote
<1>3. CASE Exclusive
  <2>1. swaps' = Append(swaps, sw)
    BY <1>3 DEF Promote
  <2>2. sw.ring = r
    OBVIOUS
  <2> HIDE DEF sw
  <2>3. /\ Len(swaps') = Len(swaps) + 1 /\ swaps'[Len(swaps) + 1] = sw
        /\ \A i \in 1..Len(swaps) : swaps'[i] = swaps[i]
        /\ 1..Len(swaps') = (1..Len(swaps)) \cup {Len(swaps) + 1} /\ Len(swaps) + 1 \notin 1..Len(swaps)
    BY <2>1, RingTypes
  <2> DEFINE n == Len(swaps) + 1
             D == 1..Len(swaps)
             D2 == 1..Len(swaps')
             E == 1..Len(landing)
  <2>4. D2 = D \cup {n} /\ n \notin D /\ swaps'[n].ring = r /\ \A i \in D : swaps'[i] = swaps[i]
    BY <2>2, <2>3
  <2>5. /\ \A x \in ringBusy : (\E i \in D : swaps[i].ring = x) \/ (\E i \in E : landing[i].ring = x)
        /\ \A i \in D : swaps[i].ring # None => swaps[i].ring \in ringBusy
        /\ \A i \in E : landing[i].ring \in ringBusy
        /\ \A i, j \in D : swaps[i].ring = swaps[j].ring /\ swaps[i].ring # None => i = j
        /\ \A i, j \in E : landing[i].ring = landing[j].ring => i = j
        /\ \A i \in D, j \in E : swaps[i].ring # landing[j].ring
    BY DEF RingOK
  <2>6. \A i \in E : landing[i].ring # None
    BY <2>5, RingTypes
  <2> HIDE DEF n, D, D2, E
  <2>7. /\ \A x \in ringBusy' : (\E i \in D2 : swaps'[i].ring = x) \/ (\E i \in E : landing[i].ring = x)
        /\ \A i \in D2 : swaps'[i].ring # None => swaps'[i].ring \in ringBusy'
        /\ \A i \in E : landing[i].ring \in ringBusy'
    BY <1>1, <1>2, <2>4, <2>5
  <2>8. /\ \A i, j \in D2 : swaps'[i].ring = swaps'[j].ring /\ swaps'[i].ring # None => i = j
        /\ \A i \in D2, j \in E : swaps'[i].ring # landing[j].ring
    BY <1>1, <2>4, <2>5, <2>6
  <2> QED BY <2>5, <2>7, <2>8 DEF RingOK, D2, E
<1>4. CASE ~Exclusive
  <2>1. swaps' = swaps /\ r = None
    BY <1>4 DEF Promote
  <2> QED BY <1>2, <2>1 DEF RingOK
<1> QED BY <1>3, <1>4

\* A settled swap hands its entry to its read-back, or frees it.
LEMMA FinishSwapRings ==
    ASSUME Types, RingOK, FinishSwap
    PROVE  RingOK'
<1> DEFINE back == Lands /\ Sw.ring # None
           D == 1..Len(swaps)
           E == 1..Len(landing)
           D2 == 1..Len(swaps')
           E2 == 1..Len(landing')
           n == Len(landing) + 1
<1>1. /\ swaps' = Tail(swaps) /\ swaps # <<>>
      /\ ringBusy' = IF back THEN ringBusy ELSE ringBusy \ {Sw.ring}
      /\ landing' = IF back THEN Append(landing, Sw) ELSE landing
  BY DEF FinishSwap, Sw, Away, AwayRam, AwayMap, Held, Lands
<1>2. /\ Len(swaps') = Len(swaps) - 1 /\ 1 \in D /\ swaps[1] = Sw
      /\ \A i \in D2 : i + 1 \in D /\ i + 1 # 1 /\ swaps'[i] = swaps[i + 1]
      /\ \A i \in D : i = 1 \/ (i - 1 \in D2 /\ swaps'[i - 1] = swaps[i])
      /\ \A i, j \in D2 : i + 1 = j + 1 => i = j
  BY <1>1, RingTypes DEF Sw
<1>3. /\ back => E2 = E \cup {n} /\ n \notin E /\ landing'[n] = Sw /\ \A i \in E : landing'[i] = landing[i]
      /\ ~back => landing' = landing /\ E2 = E
  BY <1>1, RingTypes
<1>4. /\ \A x \in ringBusy : (\E i \in D : swaps[i].ring = x) \/ (\E i \in E : landing[i].ring = x)
      /\ \A i \in D : swaps[i].ring # None => swaps[i].ring \in ringBusy
      /\ \A i \in E : landing[i].ring \in ringBusy
      /\ \A i, j \in D : swaps[i].ring = swaps[j].ring /\ swaps[i].ring # None => i = j
      /\ \A i, j \in E : landing[i].ring = landing[j].ring => i = j
      /\ \A i \in D, j \in E : swaps[i].ring # landing[j].ring
  BY DEF RingOK
<1>5. back => Sw.ring # None
  OBVIOUS
<1> HIDE DEF back, D, E, D2, E2, n
<1>6. \A x \in ringBusy' : (\E i \in D2 : swaps'[i].ring = x) \/ (\E i \in E2 : landing'[i].ring = x)
  <2> TAKE x \in ringBusy'
  <2>1. x \in ringBusy /\ (x # Sw.ring \/ back)
    BY <1>1
  <2>2. CASE \E i \in E : landing[i].ring = x
    BY <1>3, <2>2
  <2>3. CASE \E i \in D : swaps[i].ring = x
    <3>1. PICK i \in D : swaps[i].ring = x
      BY <2>3
    <3>2. CASE i = 1
      BY <1>2, <1>3, <2>1, <3>1, <3>2
    <3>3. CASE i # 1
      BY <1>2, <3>1, <3>3
    <3> QED BY <3>2, <3>3
  <2> QED BY <1>4, <2>1, <2>2, <2>3
<1>7. \A i \in D2 : swaps'[i].ring # None => swaps'[i].ring \in ringBusy'
  <2> SUFFICES ASSUME NEW i \in D2, swaps'[i].ring # None PROVE swaps'[i].ring \in ringBusy'
    OBVIOUS
  <2>1. i + 1 \in D /\ i + 1 # 1 /\ swaps'[i] = swaps[i + 1]
    BY <1>2
  <2>2. swaps[i + 1].ring \in ringBusy /\ swaps[i + 1].ring # swaps[1].ring
    BY <1>2, <1>4, <2>1
  <2> QED BY <1>1, <1>2, <2>1, <2>2
<1>8. \A i \in E2 : landing'[i].ring \in ringBusy'
  <2>1. CASE back
    <3>1. ringBusy' = ringBusy /\ Sw.ring \in ringBusy
      BY <1>1, <1>2, <1>4, <1>5, <2>1
    <3> QED BY <1>3, <1>4, <2>1, <3>1
  <2>2. CASE ~back
    <3>1. ringBusy' = ringBusy \ {Sw.ring} /\ \A j \in E : landing[j].ring # Sw.ring
      BY <1>1, <1>2, <1>4, <2>2
    <3> QED BY <1>3, <1>4, <2>2, <3>1
  <2> QED BY <2>1, <2>2
<1>9. \A i, j \in D2 : swaps'[i].ring = swaps'[j].ring /\ swaps'[i].ring # None => i = j
  BY <1>2, <1>4
<1>10. \A i, j \in E2 : landing'[i].ring = landing'[j].ring => i = j
  BY <1>2, <1>3, <1>4
<1>11. \A i \in D2, j \in E2 : swaps'[i].ring # landing'[j].ring
  BY <1>2, <1>3, <1>4, <1>5
<1> QED BY <1>6, <1>7, <1>8, <1>9, <1>10, <1>11 DEF RingOK, D2, E2

LEMMA StepRings == Types /\ RingOK /\ [Next]_vars => RingOK'
<1> SUFFICES ASSUME Types, RingOK, [Next]_vars PROVE RingOK'
  OBVIOUS
<1>1. CASE UNCHANGED <<swaps, landing, ringBusy>>
  BY <1>1 DEF RingOK
<1>2. CASE FetchStartAny \/ PrefetchAny \/ WarmAny \/ BatchAny \/ RestoreAny
  <2>1. CASE FetchStartAny
    BY <2>1, LandLayerRings DEF FetchStartAny, FetchStart
  <2>2. CASE PrefetchAny
    BY <2>2, LandLayerRings DEF PrefetchAny, PrefetchBegin
  <2>3. CASE WarmAny
    BY <2>3, LandLayerRings DEF WarmAny, Warm
  <2>4. CASE BatchAny
    BY <2>4, LandLayerRings DEF BatchAny, FetchBatch
  <2>5. CASE RestoreAny
    BY <2>5, LandLayerRings DEF RestoreAny, PrefetchStart
  <2> QED BY <1>2, <2>1, <2>2, <2>3, <2>4, <2>5
<1>3. CASE ServePromoteAny
  <2>1. PICK e \in Expert, g \in GSlot, pick \in Slot \cup {None}, r \in Ring \cup {None} :
            ServePromote(e, g, pick, r)
    BY <1>3 DEF ServePromoteAny
  <2>2. fetch.layer \in Layer
    BY <2>1, ServeFacts DEF ServePromote
  <2>3. /\ FindSlot(fetch.layer, e) \in Slot /\ landing' = landing
        /\ Promote(fetch.layer, e, FindSlot(fetch.layer, e), g, pick, r)
    BY <2>1, <2>2, SlotTypes DEF ServePromote
  <2> QED BY <2>2, <2>3, PromoteRings
<1>4. CASE RefillAny
  <2>1. PICK e \in Expert, g \in GSlot, pick \in Slot \cup {None}, r \in Ring \cup {None} :
            Refill(e, g, pick, r)
    BY <1>4 DEF RefillAny
  <2>2. fetch.layer \in Layer
    BY <2>1 DEF Refill, Types, FetchOK, AtLayer
  <2>3. /\ FindSlot(fetch.layer, e) \in Slot /\ landing' = landing
        /\ Promote(fetch.layer, e, FindSlot(fetch.layer, e), g, pick, r)
    BY <2>1, <2>2, SlotTypes DEF Refill
  <2> QED BY <2>2, <2>3, PromoteRings
<1>5. CASE SettleLayer
  <2>1. swaps' = swaps
    BY <1>5 DEF SettleLayer
  <2>2. CASE Ring # {} /\ landing # <<>>
    BY <1>5, <2>1, <2>2, LandRings DEF SettleLayer
  <2>3. CASE ~(Ring # {} /\ landing # <<>>)
    BY <1>5, <2>1, <2>3 DEF SettleLayer, RingOK
  <2> QED BY <2>2, <2>3
<1>6. CASE SettleFullDone
  BY <1>6, LandRings DEF SettleFullDone
<1>7. CASE FinishSwap
  BY <1>7, FinishSwapRings
<1>8. CASE ServeAny \/ ServeMissAny \/ FetchSubmit \/ SettlePending \/ RereadAny \/ RereadReturns
           \/ FetchEnd \/ FetchShort \/ SettleLayerDone \/ BatchDone \/ PrefetchFinish \/ RestoreEnds
  <2>1. UNCHANGED <<swaps, landing, ringBusy>>
    BY <1>8 DEF ServeAny, ServeVram, ServeClaimed, ServeRam, ServeUpgrade, ServeFails, ServeMissAny,
                ServeMiss, FetchSubmit, SettlePending, RereadAny, Reread, RereadReturns, FetchEnd,
                FetchShort, SettleLayerDone, BatchDone, PrefetchFinish, RestoreEnds
  <2> QED BY <1>1, <2>1
<1>9. CASE PrefetchReap \/ LendAny \/ RefillDone \/ RestoreBegin \/ ComputeStep \/ SideStep \/ DiskAny
           \/ UNCHANGED vars
  <2>1. UNCHANGED <<swaps, landing, ringBusy>>
    BY <1>9 DEF PrefetchReap, LendAny, LendBegin, LendEnd, RefillDone, RestoreBegin, ComputeStep, SideStep,
                DiskAny, DiskLand, vars, hostv
  <2> QED BY <1>1, <2>1
<1> QED BY <1>2, <1>3, <1>4, <1>5, <1>6, <1>7, <1>8, <1>9 DEF Next, FetchSteps

\* A staging entry is busy exactly while one swap, pending or landing, owns it.
THEOREM RingsConserved == Spec => []RingConserved
<1>1. Init => RingOK
  BY DEF Init, RingOK
<1>2. Types /\ RingOK /\ [Next]_vars => RingOK'
  BY StepRings
<1>3. Types /\ RingOK => RingConserved
  <2> SUFFICES ASSUME Types, RingOK PROVE RingConserved
    OBVIOUS
  <2> DEFINE all == swaps \o landing
             D == 1..Len(swaps)
             E == 1..Len(landing)
  <2>1. /\ Len(all) = Len(swaps) + Len(landing)
        /\ \A i \in 1..Len(all) : \/ i \in D /\ all[i] = swaps[i]
                                  \/ i - Len(swaps) \in E /\ all[i] = landing[i - Len(swaps)]
        /\ \A i \in D : i \in 1..Len(all) /\ all[i] = swaps[i]
        /\ \A i \in E : i + Len(swaps) \in 1..Len(all) /\ all[i + Len(swaps)] = landing[i]
    BY RingTypes
  <2>2. \A i, j \in 1..Len(all) : i - Len(swaps) = j - Len(swaps) => i = j
    BY <2>1, RingTypes
  <2>3. /\ \A x \in ringBusy : (\E i \in D : swaps[i].ring = x) \/ (\E i \in E : landing[i].ring = x)
        /\ \A i \in D : swaps[i].ring # None => swaps[i].ring \in ringBusy
        /\ \A i \in E : landing[i].ring \in ringBusy
        /\ \A i, j \in D : swaps[i].ring = swaps[j].ring /\ swaps[i].ring # None => i = j
        /\ \A i, j \in E : landing[i].ring = landing[j].ring => i = j
        /\ \A i \in D, j \in E : swaps[i].ring # landing[j].ring
    BY DEF RingOK
  <2> HIDE DEF all, D, E
  <2>4. \A r : r \in ringBusy <=> r # None /\ \E i \in 1..Len(all) : all[i].ring = r
    <3> TAKE r
    <3>1. ASSUME r \in ringBusy PROVE r # None /\ \E i \in 1..Len(all) : all[i].ring = r
      BY <2>1, <2>3, <3>1, RingTypes
    <3>2. ASSUME r # None, NEW i \in 1..Len(all), all[i].ring = r PROVE r \in ringBusy
      BY <2>1, <2>3, <3>2
    <3> QED BY <3>1, <3>2
  <2>5. ringBusy = Rings(all)
    BY <2>4 DEF Rings
  <2>6. \A i, j \in 1..Len(all) : all[i].ring = all[j].ring /\ all[i].ring # None => i = j
    <3> SUFFICES ASSUME NEW i \in 1..Len(all), NEW j \in 1..Len(all),
                        all[i].ring = all[j].ring, all[i].ring # None
                 PROVE  i = j
      OBVIOUS
    <3>1. CASE i \in D /\ all[i] = swaps[i] /\ j \in D /\ all[j] = swaps[j]
      BY <2>3, <3>1
    <3>2. CASE i - Len(swaps) \in E /\ all[i] = landing[i - Len(swaps)]
               /\ j - Len(swaps) \in E /\ all[j] = landing[j - Len(swaps)]
      BY <2>2, <2>3, <3>2
    <3> QED BY <2>1, <2>3, <3>1, <3>2
  <2> QED BY <2>5, <2>6 DEF RingConserved, all
<1> QED BY <1>1, <1>2, <1>3, TypesAlways, PTL DEF Spec

-----------------------------------------------------------------------------
(* The slots claimed for the victims of pending swaps.  A claimed slot is  *)
(* nobody's to hand out, but others will mark claimed slots as valid: the  *)
(* speculative reads, the fetch and the restore in progress.  The argument *)
(* is that none of those slots is a victim's, that every claim was for a   *)
(* slot that was not claimed, and that the slot an expert was promoted     *)
(* from stays protected until the settle that releases it.                 *)

InFetch == fetch.pc \in {"serve", "begun", "reread"} \/ fetch.deferred

\* The slots of the speculative reads, the claims of the fetch, those it took over,
\* those it found lost, and the claim of the restore.
InPf(k, x) == \E p \in pf : p[1] = k /\ p[3] = x
InClaims(k, x) == InFetch /\ k = fetch.layer /\ \E c \in fetch.claims : c[2] = x
InPend(k, x) == fetch.pc \in {"serve", "begun", "reread"} /\ k = fetch.layer /\ \E p \in pend : p[2] = x
InLost(k, x) == fetch.pc = "reread" /\ k = fetch.layer /\ \E p \in fetch.lost : p[2] = x
InNext(k, x) == fetch.next # None /\ fetch.next.l = k /\ fetch.next.v = x

\* The slots that some later step will mark as valid.
InHost(k, x) == InPf(k, x) \/ InClaims(k, x) \/ InPend(k, x) \/ InLost(k, x) \/ InNext(k, x)

\* Those that are claimed at present, and so cannot be handed out.
InHeld(k, x) == \/ InPf(k, x) \/ InNext(k, x)
                \/ fetch.pc = "serve" /\ (InClaims(k, x) \/ InPend(k, x))

SwapTo ==
    \A i \in 1..Len(swaps), l \in Layer, to \in Slot :
        swaps[i].layer = l /\ swaps[i].to = to =>
            /\ ram[l][to].expert = swaps[i].victim /\ swaps[i].victim # None
            /\ ~ram[l][to].valid
            /\ map[l][swaps[i].victim] # to
            /\ ~InHost(l, to)
SwapApart ==
    \A i, j \in 1..Len(swaps) :
        swaps[i].layer = swaps[j].layer /\ swaps[i].to # None =>
            swaps[i].to # swaps[j].from /\ (i # j => swaps[i].to # swaps[j].to)
SwapFrom ==
    \A i \in 1..Len(swaps), l \in Layer, s \in Slot :
        swaps[i].layer = l /\ swaps[i].from = s =>
            /\ ~Claimed(l, s)
            /\ fetch.pc # "settle" => <<l, s>> \in rel /\ ram[l][s].expert # None /\ ~ram[l][s].cold
HostHolds ==
    /\ \A k \in Layer, x \in Slot :
          /\ InHeld(k, x) => Claimed(k, x)
          /\ InPf(k, x) => ~InClaims(k, x) /\ ~InLost(k, x) /\ ~InNext(k, x)
    /\ fetch.deferred => fetch.pc \in {"settle", "idle"}
    /\ fetch.reading # None => fetch.pc = "reread" /\ fetch.reading \in fetch.lost

Slots == SwapTo /\ SwapApart /\ SwapFrom /\ HostHolds

\* With exclusive tiers an expert in both has a swap pending, which will release the
\* slot it is mapped to.
BothSwap ==
    Exclusive => \A l \in Layer, e \in Expert : gmap[l][e] # None /\ map[l][e] # None =>
        \E i \in 1..Len(swaps) : swaps[i].layer = l /\ swaps[i].promoted = e /\ swaps[i].from = map[l][e]

LEMMA SwapTypes ==
    ASSUME Types
    PROVE  /\ swaps \in Seq(SwapRec) /\ Len(swaps) \in Nat
           /\ \A i \in 1..Len(swaps) :
                 /\ swaps[i].layer \in Layer /\ swaps[i].promoted \in Expert /\ swaps[i].from \in Slot
                 /\ swaps[i].victim \in Expert \cup {None} /\ swaps[i].to \in Slot \cup {None}
<1>1. swaps \in Seq(SwapRec) /\ Len(swaps) \in Nat
  BY DEF Types, TypeOK
<1>2. \A i \in 1..Len(swaps) : swaps[i] \in SwapRec
  BY <1>1
<1> QED BY <1>1, <1>2 DEF SwapRec

-----------------------------------------------------------------------------
(* That no expert stays in both tiers.  A VRAM entry comes with a swap      *)
(* that names the slot of its expert, an expert in VRAM gets no new slot,   *)
(* and the swap is settled by giving that slot up.                          *)

\* A step that promotes and settles nothing.
LEMMA KeepBoth ==
    ASSUME Types, BothSwap, swaps' = swaps,
           \A k \in Layer, x \in Expert : gmap'[k][x] # None /\ map'[k][x] # None =>
               gmap[k][x] # None /\ map'[k][x] = map[k][x]
    PROVE  BothSwap'
<1> SUFFICES ASSUME Exclusive, NEW k \in Layer, NEW x \in Expert, gmap'[k][x] # None, map'[k][x] # None
             PROVE  \E i \in 1..Len(swaps') :
                        swaps'[i].layer = k /\ swaps'[i].promoted = x /\ swaps'[i].from = map'[k][x]
  BY DEF BothSwap
<1>1. gmap[k][x] # None /\ map'[k][x] = map[k][x]
  OBVIOUS
<1> QED BY <1>1 DEF BothSwap

\* A claim for an expert VRAM does not have.
LEMMA ClaimBoth ==
    ASSUME Types, BothSwap, swaps' = swaps,
           NEW R, NEW l \in Layer, NEW v \in Slot, NEW e \in Expert,
           map' = ClaimMap(R, l, v, e), gmap' = gmap, gmap[l][e] = None
    PROVE  BothSwap'
<1>1. map \in [Layer -> [Expert -> Slot \cup {None}]]
  BY DEF Types, TypeOK
<1>2. \A k \in Layer, x \in Expert : k # l \/ x # e => map'[k][x] \in {map[k][x], None}
  BY <1>1 DEF ClaimMap, Unmapped
<1>3. \A k \in Layer, x \in Expert : gmap'[k][x] # None /\ map'[k][x] # None =>
          gmap[k][x] # None /\ map'[k][x] = map[k][x]
  BY <1>2
<1> QED BY <1>3, KeepBoth

\* A promotion.
LEMMA PromoteBoth ==
    ASSUME Types, Maps, BothSwap, NEW l \in Layer, NEW e \in Expert, NEW s \in Slot, NEW g \in GSlot,
           NEW pick, NEW r, Promote(l, e, s, g, pick, r), gmap[l][e] = None, s = map[l][e]
    PROVE  BothSwap'
<1> DEFINE to == IF pick = s THEN None ELSE pick
           sw == [layer |-> l, promoted |-> e, from |-> s, victim |-> vram[l][g], to |-> to, ring |-> r]
<1> SUFFICES ASSUME Exclusive, NEW k \in Layer, NEW x \in Expert, gmap'[k][x] # None, map'[k][x] # None
             PROVE  \E i \in 1..Len(swaps') :
                        swaps'[i].layer = k /\ swaps'[i].promoted = x /\ swaps'[i].from = map'[k][x]
  BY DEF BothSwap
<1>1. swaps' = Append(swaps, sw)
  BY DEF Promote
<1>2. map' = IF to # None THEN [map EXCEPT ![l] = Unmapped(map[l], ram[l][to].expert)] ELSE map
  BY DEF Promote
<1>3. sw.layer = l /\ sw.promoted = e /\ sw.from = s
  OBVIOUS
<1> HIDE DEF to, sw
<1>4. /\ Len(swaps') = Len(swaps) + 1 /\ swaps'[Len(swaps) + 1] = sw
      /\ Len(swaps) + 1 \in 1..Len(swaps')
      /\ \A i \in 1..Len(swaps) : i \in 1..Len(swaps') /\ swaps'[i] = swaps[i]
  BY <1>1, SwapTypes
<1>5. map'[k][x] = map[k][x]
  <2>1. map \in [Layer -> [Expert -> Slot \cup {None}]]
    BY DEF Types, TypeOK
  <2> QED BY <1>2, <2>1 DEF Unmapped
<1>6. gmap[k][x] # None \/ (k = l /\ x = e)
  BY PromoteKeeps
<1>7. CASE k = l /\ x = e
  BY <1>3, <1>4, <1>5, <1>7
<1>8. CASE gmap[k][x] # None
  <2>1. PICK i \in 1..Len(swaps) :
            swaps[i].layer = k /\ swaps[i].promoted = x /\ swaps[i].from = map[k][x]
    BY <1>5, <1>8 DEF BothSwap
  <2> QED BY <1>4, <1>5, <2>1
<1> QED BY <1>6, <1>7, <1>8

LEMMA FinishSwapBoth ==
    ASSUME Types, Maps, BothSwap, FinishSwap
    PROVE  BothSwap'
<1> SUFFICES ASSUME Exclusive, NEW k \in Layer, NEW x \in Expert, gmap'[k][x] # None, map'[k][x] # None
             PROVE  \E i \in 1..Len(swaps') :
                        swaps'[i].layer = k /\ swaps'[i].promoted = x /\ swaps'[i].from = map'[k][x]
  BY DEF BothSwap
<1>1. gmap' = gmap /\ swaps' = Tail(swaps) /\ swaps # <<>>
  BY SwapHead
<1>2. InVram(k, x)
  BY <1>1, Lookup
<1>3. ~(Lands /\ k = Sw.layer /\ x = Sw.victim)
  BY <1>2 DEF Lands
<1>4. map'[k][x] = map[k][x]
  BY <1>3, SwapMap
<1>5. PICK i \in 1..Len(swaps) : swaps[i].layer = k /\ swaps[i].promoted = x /\ swaps[i].from = map[k][x]
  BY <1>1, <1>4 DEF BothSwap
<1>6. i # 1
  <2> SUFFICES ASSUME i = 1 PROVE FALSE
    OBVIOUS
  <2>1. Sw = swaps[1]
    BY <1>1, SwapTypes DEF Sw
  <2>2. Sw.layer = k /\ Sw.promoted = x /\ Sw.from = map[k][x]
    BY <1>5, <2>1
  <2>3. ram[k][map[k][x]].expert = x
    BY <1>4 DEF Maps, RamMaps
  <2>4. Away
    BY <1>2, <2>2, <2>3 DEF Away
  <2> QED BY <1>3, <2>2, <2>4, SwapMap
<1>7. i - 1 \in 1..Len(swaps') /\ swaps'[i - 1] = swaps[i]
  BY <1>1, <1>5, <1>6, SwapTypes
<1> QED BY <1>4, <1>5, <1>7

LEMMA StepBoth == Types /\ Maps /\ BothSwap /\ [Next]_vars => BothSwap'
<1> SUFFICES ASSUME Types, Maps, BothSwap, [Next]_vars PROVE BothSwap'
  OBVIOUS
<1>1. CASE UNCHANGED <<swaps, map, gmap>>
  BY <1>1, KeepBoth
<1>2. CASE ServePromoteAny
  <2>1. PICK e \in Expert, g \in GSlot, pick \in Slot \cup {None}, r \in Ring \cup {None} :
            ServePromote(e, g, pick, r)
    BY <1>2 DEF ServePromoteAny
  <2> DEFINE l == fetch.layer
  <2>2. l \in Layer
    BY <2>1, ServeFacts DEF ServePromote
  <2>3. ~InVram(l, e) /\ FindSlot(l, e) # None /\ Promote(l, e, FindSlot(l, e), g, pick, r)
    BY <2>1 DEF ServePromote
  <2> HIDE DEF l
  <2>4. gmap[l][e] = None /\ FindSlot(l, e) = map[l][e] /\ FindSlot(l, e) \in Slot
    BY <2>2, <2>3, Lookup, SlotTypes
  <2> QED BY <2>2, <2>3, <2>4, PromoteBoth
<1>3. CASE RefillAny
  <2>1. PICK e \in Expert, g \in GSlot, pick \in Slot \cup {None}, r \in Ring \cup {None} :
            Refill(e, g, pick, r)
    BY <1>3 DEF RefillAny
  <2> DEFINE l == fetch.layer
  <2>2. l \in Layer /\ gmap[l][e] = None
    BY <2>1 DEF Refill, Types, FetchOK, AtLayer, Maps, Fresh
  <2>3. FindSlot(l, e) # None /\ Promote(l, e, FindSlot(l, e), g, pick, r)
    BY <2>1 DEF Refill
  <2> HIDE DEF l
  <2>4. FindSlot(l, e) = map[l][e] /\ FindSlot(l, e) \in Slot
    BY <2>2, <2>3, Lookup, SlotTypes
  <2> QED BY <2>2, <2>3, <2>4, PromoteBoth
<1>4. CASE ServeMissAny
  <2>1. PICK e \in Expert, v \in Slot, cold \in BOOLEAN : ServeMiss(e, v, cold)
    BY <1>4 DEF ServeMissAny
  <2>2. fetch.layer \in Layer
    BY <2>1, ServeFacts DEF ServeMiss
  <2>3. gmap[fetch.layer][e] = None
    BY <2>1, <2>2, Lookup DEF ServeMiss
  <2> QED BY <2>1, <2>2, <2>3, ClaimBoth DEF ServeMiss
<1>5. CASE PrefetchAny
  BY <1>5, ClaimBoth DEF PrefetchAny, PrefetchBegin
<1>6. CASE RestoreAny
  <2>1. PICK l \in Layer, e \in Expert, v \in Slot \cup {None} : PrefetchStart(l, e, v)
    BY <1>6 DEF RestoreAny
  <2>2. gmap[l][e] = None /\ swaps' = swaps /\ gmap' = gmap
    BY <2>1, Lookup DEF PrefetchStart
  <2>3. CASE v = None
    BY <1>1, <2>1, <2>2, <2>3 DEF PrefetchStart
  <2>4. CASE v # None
    BY <2>1, <2>2, <2>4, ClaimBoth DEF PrefetchStart
  <2> QED BY <2>3, <2>4
<1>7. CASE WarmAny
  <2>1. PICK l \in Layer, e \in Expert, v \in Slot : Warm(l, e, v)
    BY <1>7 DEF WarmAny
  <2>2. gmap[l][e] = None /\ swaps' = swaps /\ gmap' = gmap
    BY <2>1 DEF Warm
  <2>3. map' = map \/ \E R : map' = ClaimMap(R, l, v, e)
    BY <2>1 DEF Warm
  <2> QED BY <1>1, <2>2, <2>3, ClaimBoth
<1>8. CASE BatchAny
  <2>1. PICK l \in Layer, list \in Lists :
            \E adopt \in Adoptions(l, {e \in ToSet(list) : ~BatchHit(l, e)}) : FetchBatch(l, ToSet(list), adopt)
    BY <1>8 DEF BatchAny
  <2>2. ToSet(list) \in SUBSET Expert
    BY DEF Lists, ToSet
  <2>3. \A k \in Layer, x \in Expert : map'[k][x] # map[k][x] => gmap[k][x] = None
    BY <2>1, <2>2, FetchBatchMaps
  <2>4. gmap' = gmap /\ swaps' = swaps
    BY <2>1 DEF FetchBatch
  <2> QED BY <2>3, <2>4, KeepBoth
<1>9. CASE FinishSwap
  BY <1>9, FinishSwapBoth
<1>10. CASE ServeAny
  <2>1. PICK e \in Expert : ServeVram(e) \/ ServeClaimed(e) \/ ServeRam(e) \/ ServeUpgrade(e) \/ ServeFails(e)
    BY <1>10 DEF ServeAny
  <2>2. CASE ServeUpgrade(e)
    <3>1. gmap' = [gmap EXCEPT ![fetch.layer][e] = None] /\ map' = map /\ swaps' = swaps
      BY <2>2 DEF ServeUpgrade
    <3>2. \A k \in Layer, x \in Expert : gmap'[k][x] # None => gmap[k][x] # None
      BY <3>1 DEF Types, TypeOK
    <3> QED BY <3>1, <3>2, KeepBoth
  <2>3. CASE ~ServeUpgrade(e)
    BY <1>1, <2>1, <2>3 DEF ServeVram, ServeClaimed, ServeRam, ServeFails, tables
  <2> QED BY <2>2, <2>3
<1>11. CASE SettleFullDone
  <2>1. UNCHANGED <<swaps, map>>
    BY <1>11 DEF SettleFullDone
  <2>2. \A k \in Layer, x \in Expert : gmap'[k][x] # None => gmap[k][x] # None
    <3>1. \/ gmap' = gmap
          \/ gmap' = [gmap EXCEPT ![fetch.lend] = [e \in Expert |-> None]]
      BY <1>11 DEF SettleFullDone
    <3>2. gmap \in [Layer -> [Expert -> GSlot \cup {None}]]
      BY DEF Types, TypeOK
    <3>3. \A k \in Layer : gmap'[k] = gmap[k] \/ gmap'[k] = [e \in Expert |-> None]
      BY <3>1, <3>2
    <3> QED BY <3>3
  <2> QED BY <2>1, <2>2, KeepBoth
<1>12. CASE FetchStartAny \/ FetchSubmit \/ SettlePending \/ RereadAny \/ RereadReturns \/ FetchEnd
            \/ FetchShort \/ SettleLayer \/ SettleLayerDone \/ BatchDone \/ PrefetchFinish \/ RestoreEnds
  <2>1. UNCHANGED <<swaps, map, gmap>>
    BY <1>12 DEF FetchStartAny, FetchStart, FetchSubmit, SettlePending, RereadAny, Reread, RereadReturns,
                 FetchEnd, FetchShort, SettleLayer, SettleLayerDone, BatchDone, PrefetchFinish, RestoreEnds,
                 tables
  <2> QED BY <1>1, <2>1
<1>13. CASE PrefetchReap \/ LendAny \/ RefillDone \/ RestoreBegin \/ ComputeStep \/ SideStep \/ DiskAny
            \/ UNCHANGED vars
  <2>1. UNCHANGED <<swaps, map, gmap>>
    BY <1>13 DEF PrefetchReap, LendAny, LendBegin, LendEnd, RefillDone, RestoreBegin, ComputeStep, SideStep,
                 DiskAny, DiskLand, vars, tables, hostv
  <2> QED BY <1>1, <2>1
<1> QED BY <1>2, <1>3, <1>4, <1>5, <1>6, <1>7, <1>8, <1>9, <1>10, <1>11, <1>12, <1>13 DEF Next, FetchSteps

\* With exclusive tiers, once the swaps are settled no expert holds a slot in both
\* tiers, in every configuration of the cache.
THEOREM TiersApart == Spec => []TiersExclusive
<1>1. Init => BothSwap
  BY DEF Init, BothSwap
<1>2. Types /\ Maps /\ BothSwap /\ [Next]_vars => BothSwap'
  BY StepBoth
<1>3. BothSwap => TiersExclusive
  BY DEF BothSwap, TiersExclusive
<1> QED BY <1>1, <1>2, <1>3, TypesAlways, MapsAlways, PTL DEF Spec

-----------------------------------------------------------------------------
(* That a swap's two slots stay its own.                                    *)

\* Slot x of layer k is no pending swap's.
NoSwaps(k, x) == \A i \in 1..Len(swaps) : swaps[i].layer = k => swaps[i].to # x /\ swaps[i].from # x

\* A step that leaves the slots of the swaps alone.
LEMMA KeepSlots ==
    ASSUME Types, Slots, swaps' = swaps,
           \A k \in Layer, x \in Slot : NoSwaps(k, x) \/
              /\ ram'[k][x].expert = ram[k][x].expert
              /\ ram[k][x].valid => ram'[k][x].valid
              /\ ram'[k][x].cold => ram[k][x].cold
              /\ ram'[k][x].valid => ram[k][x].valid \/ InHost(k, x)
              /\ InHost(k, x)' => InHost(k, x)
              /\ \A y \in Expert : map'[k][y] = x => map[k][y] = x,
           fetch'.pc = "settle" \/ swaps = <<>> \/ (fetch.pc # "settle" /\ rel \subseteq rel')
    PROVE  SwapTo' /\ SwapApart' /\ SwapFrom'
<1>1. SwapTo'
  <2> SUFFICES ASSUME NEW i \in 1..Len(swaps), NEW l \in Layer, NEW to \in Slot,
                      swaps[i].layer = l, swaps[i].to = to
               PROVE  /\ ram'[l][to].expert = swaps[i].victim /\ swaps[i].victim # None
                      /\ ~ram'[l][to].valid
                      /\ map'[l][swaps[i].victim] # to
                      /\ ~InHost(l, to)'
    BY DEF SwapTo
  <2>1. swaps[i].victim \in Expert \cup {None} /\ ~NoSwaps(l, to)
    BY SwapTypes DEF NoSwaps
  <2>2. /\ ram[l][to].expert = swaps[i].victim /\ swaps[i].victim # None
        /\ ~ram[l][to].valid /\ map[l][swaps[i].victim] # to /\ ~InHost(l, to)
    BY DEF Slots, SwapTo
  <2>3. /\ ram'[l][to].expert = ram[l][to].expert
        /\ ram'[l][to].valid => ram[l][to].valid \/ InHost(l, to)
        /\ InHost(l, to)' => InHost(l, to)
        /\ \A z \in Expert : map'[l][z] = to => map[l][z] = to
    BY <2>1
  <2> QED BY <2>1, <2>2, <2>3
<1>2. SwapApart'
  BY DEF Slots, SwapApart
<1>3. SwapFrom'
  <2> SUFFICES ASSUME NEW i \in 1..Len(swaps), NEW l \in Layer, NEW s \in Slot,
                      swaps[i].layer = l, swaps[i].from = s
               PROVE  /\ ~Claimed(l, s)'
                      /\ fetch'.pc # "settle" =>
                            <<l, s>> \in rel' /\ ram'[l][s].expert # None /\ ~ram'[l][s].cold
    BY DEF SwapFrom
  <2>1. swaps # <<>> /\ ~NoSwaps(l, s)
    BY SwapTypes DEF NoSwaps
  <2>2. /\ ~Claimed(l, s)
        /\ fetch.pc # "settle" => <<l, s>> \in rel /\ ram[l][s].expert # None /\ ~ram[l][s].cold
    BY DEF Slots, SwapFrom
  <2>3. /\ ram'[l][s].expert = ram[l][s].expert
        /\ ram[l][s].valid => ram'[l][s].valid
        /\ ram'[l][s].cold => ram[l][s].cold
    BY <2>1
  <2> QED BY <2>1, <2>2, <2>3 DEF Claimed
<1> QED BY <1>1, <1>2, <1>3

\* A step that claims nothing, and validates no slot that stays claimed.
LEMMA KeepHolds ==
    ASSUME Types, HostHolds,
           \A k \in Layer, x \in Slot :
              /\ InHeld(k, x)' => InHeld(k, x)
              /\ InPf(k, x)' => InPf(k, x)
              /\ InClaims(k, x)' \/ InLost(k, x)' \/ InNext(k, x)' =>
                     InClaims(k, x) \/ InLost(k, x) \/ InNext(k, x) \/ ~InPf(k, x)'
              /\ InHeld(k, x)' => /\ ram'[k][x].expert = ram[k][x].expert
                                  /\ ram'[k][x].valid => ram[k][x].valid,
           fetch'.deferred => fetch'.pc \in {"settle", "idle"},
           fetch'.reading # None => fetch'.pc = "reread" /\ fetch'.reading \in fetch'.lost
    PROVE  HostHolds'
<1> SUFFICES ASSUME NEW k \in Layer, NEW x \in Slot
             PROVE  /\ InHeld(k, x)' => Claimed(k, x)'
                    /\ InPf(k, x)' => ~InClaims(k, x)' /\ ~InLost(k, x)' /\ ~InNext(k, x)'
  BY DEF HostHolds
<1>1. /\ InHeld(k, x) => Claimed(k, x)
      /\ InPf(k, x) => ~InClaims(k, x) /\ ~InLost(k, x) /\ ~InNext(k, x)
  BY DEF HostHolds
<1>2. InHeld(k, x)' => Claimed(k, x)'
  <2> SUFFICES ASSUME InHeld(k, x)' PROVE Claimed(k, x)'
    OBVIOUS
  <2>1. Claimed(k, x) /\ ram'[k][x].expert = ram[k][x].expert /\ (ram'[k][x].valid => ram[k][x].valid)
    BY <1>1
  <2> QED BY <2>1 DEF Claimed
<1> QED BY <1>1, <1>2

\* The operation in progress goes on, or ends, with no more claims than before.
LEMMA SameHost ==
    ASSUME Types, fetch' \in FetchRec, fetch'.layer = fetch.layer, fetch'.claims \subseteq fetch.claims,
           fetch'.next = fetch.next, pf' \subseteq pf, pend' \subseteq pend, fetch'.lost \subseteq fetch.lost,
           InFetch' => InFetch, fetch'.pc = "serve" => fetch.pc = "serve",
           fetch'.pc \in {"begun", "reread"} => fetch.pc \in {"serve", "begun", "reread"},
           fetch'.pc = "reread" => fetch.pc = "reread"
    PROVE  \A k \in Layer, x \in Slot :
              /\ InPf(k, x)' => InPf(k, x)
              /\ InClaims(k, x)' => InClaims(k, x)
              /\ InPend(k, x)' => InPend(k, x)
              /\ InLost(k, x)' => InLost(k, x)
              /\ InNext(k, x)' => InNext(k, x)
              /\ InHost(k, x)' => InHost(k, x)
              /\ InHeld(k, x)' => InHeld(k, x)
<1> TAKE k \in Layer, x \in Slot
<1>1. InPf(k, x)' => InPf(k, x)
  BY DEF InPf
<1>2. InClaims(k, x)' => InClaims(k, x)
  BY DEF InClaims
<1>3. InPend(k, x)' => InPend(k, x)
  BY DEF InPend
<1>4. InLost(k, x)' => InLost(k, x)
  BY DEF InLost
<1>5. InNext(k, x)' => InNext(k, x)
  BY DEF InNext
<1> QED BY <1>1, <1>2, <1>3, <1>4, <1>5 DEF InHost, InHeld

\* Another operation begins, or none.
LEMMA BareHost ==
    ASSUME Types, pf' \subseteq pf, fetch'.next \in {None, fetch.next},
           ~InFetch' \/ (fetch'.claims = {} /\ pend' = {} /\ fetch'.pc # "reread")
    PROVE  \A k \in Layer, x \in Slot :
              /\ InPf(k, x)' => InPf(k, x)
              /\ ~InClaims(k, x)' /\ ~InPend(k, x)' /\ ~InLost(k, x)'
              /\ InNext(k, x)' => InNext(k, x)
              /\ InHost(k, x)' => InHost(k, x)
              /\ InHeld(k, x)' => InHeld(k, x)
<1> TAKE k \in Layer, x \in Slot
<1>1. InPf(k, x)' => InPf(k, x)
  BY DEF InPf
<1>2. ~InClaims(k, x)' /\ ~InPend(k, x)' /\ ~InLost(k, x)'
  BY DEF InClaims, InPend, InLost, InFetch
<1>3. InNext(k, x)' => InNext(k, x)
  BY DEF InNext
<1> QED BY <1>1, <1>2, <1>3 DEF InHost, InHeld

\* A step that claims nothing and leaves the tables' experts.
LEMMA QuietSlots ==
    ASSUME Types, Slots, swaps' = swaps, map' = map,
           \A k \in Layer, x \in Slot :
              /\ ram'[k][x].expert = ram[k][x].expert
              /\ ram[k][x].valid => ram'[k][x].valid
              /\ ram'[k][x].cold => ram[k][x].cold
              /\ ram'[k][x].valid => ram[k][x].valid \/ (InHost(k, x) /\ ~InHeld(k, x)')
              /\ InHost(k, x)' => InHost(k, x)
              /\ InHeld(k, x)' => InHeld(k, x)
              /\ InPf(k, x)' => InPf(k, x)
              /\ InClaims(k, x)' \/ InLost(k, x)' \/ InNext(k, x)' =>
                     InClaims(k, x) \/ InLost(k, x) \/ InNext(k, x) \/ ~InPf(k, x)',
           fetch'.pc = "settle" \/ swaps = <<>> \/ (fetch.pc # "settle" /\ rel \subseteq rel'),
           fetch'.deferred => fetch'.pc \in {"settle", "idle"},
           fetch'.reading # None => fetch'.pc = "reread" /\ fetch'.reading \in fetch'.lost
    PROVE  Slots'
<1>1. SwapTo' /\ SwapApart' /\ SwapFrom'
  BY KeepSlots
<1>2. HostHolds
  BY DEF Slots
<1>3. HostHolds'
  BY <1>2, KeepHolds
<1> QED BY <1>1, <1>3 DEF Slots

\* Another operation begins, or none.
LEMMA BareSlots ==
    ASSUME Types, Slots,
           \/ FetchStartAny \/ FetchShort \/ LendAny \/ RefillDone \/ SettleFullDone
           \/ BatchDone \/ RestoreBegin \/ RestoreEnds
           \/ \E e \in Expert : ServeFails(e)
           \/ SettleLayer /\ fetch.pc = "ended"
           \/ SettleLayerDone /\ ~fetch.deferred
    PROVE  Slots'
<1>0. /\ fetch \in FetchRec /\ (fetch.deferred => fetch.pc \in {"settle", "idle"})
      /\ fetch.reading # None => fetch.pc = "reread"
  BY DEF Types, FetchOK, Slots, HostHolds
<1>a. NoFetch.pc = "idle" /\ NoFetch.next = None /\ NoFetch.deferred = FALSE /\ NoFetch.reading = None
  BY DEF NoFetch
<1>1. UNCHANGED <<swaps, map, ram, pf>>
  BY DEF FetchStartAny, FetchStart, FetchShort, LendAny, LendBegin, LendEnd, RefillDone, SettleFullDone,
         BatchDone, RestoreBegin, RestoreEnds, ServeFails, SettleLayer, SettleLayerDone, tables
<1>2. /\ fetch'.next \in {None, fetch.next} /\ fetch'.deferred = FALSE /\ fetch'.reading = None
      /\ \/ fetch'.pc \notin {"serve", "begun", "reread"}
         \/ fetch'.pc = "serve" /\ fetch'.claims = {} /\ pend' = {}
  <2>1. CASE BatchDone
    BY <1>0, <2>1 DEF BatchDone, FetchRec
  <2>2. CASE SettleFullDone
    <3>1. fetch' = NoFetch \/ fetch' = [NoFetch EXCEPT !.pc = "restore", !.next = fetch.next]
      BY <2>2 DEF SettleFullDone
    <3>2. CASE fetch' = NoFetch
      BY <1>a, <3>2
    <3>3. CASE fetch' # NoFetch
      BY <3>1, <3>3 DEF NoFetch
    <3> QED BY <3>2, <3>3
  <2>3. CASE RefillDone
    <3>1. \E b \in BOOLEAN :
             fetch' = [NoFetch EXCEPT !.pc = "settle", !.full = TRUE, !.restore = b, !.next = fetch.next]
      BY <2>3 DEF RefillDone
    <3> QED BY <3>1 DEF NoFetch
  <2>5. CASE FetchShort \/ RestoreBegin \/ RestoreEnds
    <3>1. fetch' = NoFetch \/ fetch' = [NoFetch EXCEPT !.pc = "settle", !.full = TRUE, !.restore = TRUE]
      BY <2>5 DEF FetchShort, RestoreBegin, RestoreEnds
    <3>2. CASE fetch' = NoFetch
      BY <1>a, <3>2
    <3>3. CASE fetch' # NoFetch
      BY <3>1, <3>3 DEF NoFetch
    <3> QED BY <3>2, <3>3
  <2>6. CASE FetchStartAny
    <3>1. /\ \E l \in Layer, list \in Lists :
               fetch' = [NoFetch EXCEPT !.pc = "serve", !.layer = l, !.todo = list]
          /\ pend' = {}
      BY <2>6 DEF FetchStartAny, FetchStart
    <3> QED BY <3>1 DEF NoFetch
  <2>7. CASE LendAny
    <3>1. \/ \E l : fetch' = [NoFetch EXCEPT !.pc = "settle", !.full = TRUE, !.lend = l]
          \/ \E l, c : fetch' = [NoFetch EXCEPT !.pc = "refill", !.layer = l, !.cand = c]
      BY <2>7 DEF LendAny, LendBegin, LendEnd
    <3> QED BY <3>1 DEF NoFetch
  <2>4. CASE (SettleLayer /\ fetch.pc = "ended") \/ (SettleLayerDone /\ ~fetch.deferred)
             \/ \E e \in Expert : ServeFails(e)
    BY <2>4 DEF SettleLayer, SettleLayerDone, ServeFails, NoFetch
  <2> QED BY <2>1, <2>2, <2>3, <2>4, <2>5, <2>6, <2>7
<1>3. fetch'.pc = "settle" \/ swaps = <<>> \/ (fetch.pc # "settle" /\ rel \subseteq rel')
  <2>1. CASE RefillDone \/ RestoreBegin \/ (SettleLayer /\ fetch.pc = "ended") \/ \E l \in Layer : LendBegin(l)
    BY <2>1 DEF RefillDone, RestoreBegin, SettleLayer, LendBegin, NoFetch
  <2>2. CASE SettleFullDone \/ SettleLayerDone
    BY <2>2 DEF SettleFullDone, SettleLayerDone
  <2>3. CASE FetchStartAny \/ FetchShort \/ BatchDone \/ RestoreEnds \/ (\E e \in Expert : ServeFails(e))
             \/ \E l \in Layer : LendEnd(l)
    BY <2>3 DEF FetchStartAny, FetchStart, FetchShort, Ending, BatchDone, RestoreEnds, ServeFails, Serving,
                LendEnd
  <2> QED BY <2>1, <2>2, <2>3 DEF LendAny
<1>4. ~InFetch' \/ (fetch'.claims = {} /\ pend' = {} /\ fetch'.pc # "reread")
  BY <1>2 DEF InFetch
<1>5. \A k \in Layer, x \in Slot :
         /\ InPf(k, x)' => InPf(k, x)
         /\ ~InClaims(k, x)' /\ ~InPend(k, x)' /\ ~InLost(k, x)'
         /\ InNext(k, x)' => InNext(k, x)
         /\ InHost(k, x)' => InHost(k, x)
         /\ InHeld(k, x)' => InHeld(k, x)
  BY <1>1, <1>2, <1>4, BareHost
<1> QED BY <1>1, <1>2, <1>3, <1>5, QuietSlots

\* The operation in progress goes on, and no table changes but the layout flags.
LEMMA SameSlots ==
    ASSUME Types, Types', Slots,
           \/ FetchSubmit \/ RereadAny \/ ComputeStep \/ SideStep \/ DiskAny \/ UNCHANGED vars
           \/ \E e \in Expert : ServeVram(e) \/ ServeRam(e)
           \/ SettleLayer /\ fetch.pc # "ended"
           \/ SettleLayerDone /\ fetch.deferred
    PROVE  Slots'
<1>0. /\ fetch \in FetchRec /\ fetch' \in FetchRec /\ (fetch.deferred => fetch.pc \in {"settle", "idle"})
      /\ (fetch.reading # None => fetch.pc = "reread" /\ fetch.reading \in fetch.lost)
      /\ ram \in [Layer -> [Slot -> RamSlot]]
  BY DEF Types, FetchOK, TypeOK, Slots, HostHolds
<1>1. UNCHANGED <<swaps, map, pf, pend>>
  BY DEF FetchSubmit, RereadAny, Reread, ComputeStep, SideStep, DiskAny, DiskLand, ServeVram, ServeRam,
         SettleLayer, SettleLayerDone, tables, hostv, vars
<1>2. \A k \in Layer, x \in Slot : /\ ram'[k][x].expert = ram[k][x].expert
                                   /\ ram'[k][x].valid = ram[k][x].valid
                                   /\ ram'[k][x].cold = ram[k][x].cold
  <2>1. CASE \E e \in Expert : ServeRam(e)
    <3>1. PICK e \in Expert : ram' = [ram EXCEPT ![fetch.layer][FindSlot(fetch.layer, e)].soa = FALSE]
      BY <2>1 DEF ServeRam
    <3> TAKE k \in Layer, x \in Slot
    <3>2. ram[k][x] \in RamSlot
      BY <1>0
    <3>3. ram'[k][x] = ram[k][x] \/ ram'[k][x] = [ram[k][x] EXCEPT !.soa = FALSE]
      BY <1>0, <3>1
    <3> QED BY <3>2, <3>3 DEF RamSlot
  <2>2. CASE ~\E e \in Expert : ServeRam(e)
    <3>1. ram' = ram
      BY <2>2 DEF FetchSubmit, RereadAny, Reread, ComputeStep, SideStep, DiskAny, DiskLand, ServeVram,
                  SettleLayer, SettleLayerDone, tables, hostv, vars
    <3> QED BY <3>1
  <2> QED BY <2>1, <2>2
<1>3. /\ fetch'.layer = fetch.layer /\ fetch'.claims = fetch.claims /\ fetch'.next = fetch.next
      /\ fetch'.lost = fetch.lost
      /\ InFetch' => InFetch
      /\ fetch'.pc = "serve" => fetch.pc = "serve"
      /\ fetch'.pc \in {"begun", "reread"} => fetch.pc \in {"serve", "begun", "reread"}
      /\ fetch'.pc = "reread" => fetch.pc = "reread"
      /\ fetch'.reading # None => fetch'.pc = "reread" /\ fetch'.reading \in fetch'.lost
      /\ fetch'.deferred => fetch'.pc \in {"settle", "idle"}
      /\ fetch'.pc = "settle" \/ swaps = <<>> \/ (fetch.pc # "settle" /\ rel \subseteq rel')
         \/ (fetch' = fetch /\ rel' = rel)
  <2>1. CASE (\E e \in Expert : ServeVram(e) \/ ServeRam(e)) \/ FetchSubmit
    BY <1>0, <2>1, ZenonT(40) DEF ServeVram, ServeRam, Serving, Served, FetchSubmit, FetchRec, InFetch
  <2>2. CASE RereadAny
    BY <1>0, <2>2 DEF RereadAny, Reread, FetchRec, InFetch
  <2>3. CASE SettleLayer /\ fetch.pc # "ended"
    BY <1>0, <2>3 DEF SettleLayer, FetchRec, InFetch
  <2>4. CASE SettleLayerDone /\ fetch.deferred
    BY <1>0, <2>4 DEF SettleLayerDone, FetchRec, InFetch
  <2>5. CASE ComputeStep \/ SideStep \/ DiskAny \/ UNCHANGED vars
    <3>1. UNCHANGED hostv
      BY <2>5 DEF ComputeStep, SideStep, DiskAny, DiskLand, vars
    <3> QED BY <1>0, <3>1 DEF InFetch, hostv
  <2> QED BY <2>1, <2>2, <2>3, <2>4, <2>5
<1>4. fetch'.pc = "settle" \/ swaps = <<>> \/ (fetch.pc # "settle" /\ rel \subseteq rel')
  BY <1>3
<1>5. \A k \in Layer, x \in Slot :
         /\ InPf(k, x)' => InPf(k, x)
         /\ InClaims(k, x)' => InClaims(k, x)
         /\ InLost(k, x)' => InLost(k, x)
         /\ InNext(k, x)' => InNext(k, x)
         /\ InHost(k, x)' => InHost(k, x)
         /\ InHeld(k, x)' => InHeld(k, x)
  BY <1>0, <1>1, <1>3, SameHost
<1> QED BY <1>1, <1>2, <1>3, <1>4, <1>5, QuietSlots

\* The steps that validate slots: the claims of a fetch whose reads have landed,
LEMMA FetchEndSlots ==
    ASSUME Types, Maps, Slots, FetchEnd
    PROVE  Slots'
<1>0. /\ fetch \in FetchRec /\ ram \in [Layer -> [Slot -> RamSlot]]
      /\ fetch.deferred => fetch.pc \in {"settle", "idle"}
      /\ fetch.reading # None => fetch.pc = "reread"
      /\ fetch.next # None => fetch.pc \in {"restore", "refill", "settle"}
  BY DEF Types, FetchOK, TypeOK, Slots, HostHolds, Maps, Fresh
<1>1. UNCHANGED <<swaps, map, pf, pend, rel>> /\ InFetch /\ fetch.next = None /\ fetch.pc # "settle"
      /\ fetch.reading = None
  BY <1>0 DEF FetchEnd, Ending, InFetch
<1>2. /\ fetch'.next = None /\ fetch'.deferred = FALSE /\ fetch'.reading = None
      /\ fetch'.pc \in {"idle", "ended"}
  <2>1. CASE fetch.deferred
    BY <2>1 DEF FetchEnd, NoFetch
  <2>2. CASE ~fetch.deferred
    BY <1>0, <1>1, <2>2 DEF FetchEnd, FetchRec
  <2> QED BY <2>1, <2>2
<1>3. ~InFetch'
  BY <1>2 DEF InFetch
<1>4. \A k \in Layer, x \in Slot :
         /\ InPf(k, x)' => InPf(k, x)
         /\ ~InClaims(k, x)' /\ ~InPend(k, x)' /\ ~InLost(k, x)'
         /\ InNext(k, x)' => InNext(k, x)
         /\ InHost(k, x)' => InHost(k, x)
         /\ InHeld(k, x)' => InHeld(k, x)
  BY <1>1, <1>2, <1>3, BareHost
<1>5. \A k \in Layer, x \in Slot :
         /\ ram'[k][x].expert = ram[k][x].expert
         /\ ram[k][x].valid => ram'[k][x].valid
         /\ ram'[k][x].cold => ram[k][x].cold
         /\ ram'[k][x].valid => ram[k][x].valid \/ (InHost(k, x) /\ ~InHeld(k, x)')
  <2> TAKE k \in Layer, x \in Slot
  <2>1. ram[k][x] \in RamSlot
    BY <1>0
  <2>2. \/ ram'[k][x] = ram[k][x]
        \/ /\ ram'[k][x] = [ram[k][x] EXCEPT !.valid = TRUE]
           /\ k = fetch.layer /\ \E c \in fetch.claims : c[2] = x
    BY <1>0 DEF FetchEnd
  <2>3. CASE ram'[k][x] = ram[k][x]
    BY <2>3
  <2>4. CASE ram'[k][x] # ram[k][x]
    <3>1. InClaims(k, x)
      BY <1>1, <2>2, <2>4 DEF InClaims
    <3>2. ~InPf(k, x)
      BY <3>1 DEF Slots, HostHolds
    <3>3. ~InHeld(k, x)'
      BY <1>2, <1>4, <3>2 DEF InHeld, InNext
    <3> QED BY <2>1, <2>2, <2>4, <3>1, <3>3 DEF RamSlot, InHost
  <2> QED BY <2>3, <2>4
<1> QED BY <1>1, <1>2, <1>4, <1>5, QuietSlots

\* a slot read again,
LEMMA RereadReturnsSlots ==
    ASSUME Types, Types', Maps, Slots, RereadReturns
    PROVE  Slots'
<1> DEFINE l == fetch.layer
           p == fetch.reading
<1>0. /\ fetch \in FetchRec /\ fetch' \in FetchRec /\ ram \in [Layer -> [Slot -> RamSlot]] /\ l \in Layer
      /\ fetch.deferred => fetch.pc \in {"settle", "idle"}
      /\ p # None => p \in fetch.lost
      /\ fetch.next # None => fetch.pc \in {"restore", "refill", "settle"}
  BY DEF Types, FetchOK, TypeOK, AtLayer, Slots, HostHolds, Maps, Fresh, RereadReturns
<1>1. UNCHANGED <<swaps, map, pf, pend, rel>> /\ fetch.next = None /\ fetch.pc = "reread" /\ p \in fetch.lost
  BY <1>0 DEF RereadReturns
<1>2. /\ fetch'.next = None /\ fetch'.deferred = fetch.deferred /\ fetch'.reading = None
      /\ fetch'.layer = fetch.layer /\ fetch'.claims = fetch.claims /\ fetch'.lost \subseteq fetch.lost
      /\ fetch'.pc \in {"reread", "begun"}
  BY <1>0, <1>1, ZenonT(40) DEF RereadReturns, FetchRec
<1>3. InFetch /\ ~fetch.deferred
  BY <1>0, <1>1 DEF InFetch
<1>4. \A k \in Layer, x \in Slot :
         /\ InPf(k, x)' => InPf(k, x)
         /\ InClaims(k, x)' => InClaims(k, x)
         /\ InLost(k, x)' => InLost(k, x)
         /\ InNext(k, x)' => InNext(k, x)
         /\ InHost(k, x)' => InHost(k, x)
         /\ InHeld(k, x)' => InHeld(k, x)
  BY <1>0, <1>1, <1>2, <1>3, SameHost
<1>5. ram' = [ram EXCEPT ![l][p[2]].valid = TRUE, ![l][p[2]].cold = FALSE]
  BY DEF RereadReturns
<1>6. p[2] \in Slot
  BY <1>0, <1>1 DEF FetchRec
<1> DEFINE y == p[2]
<1>7. \A k \in Layer, x \in Slot :
         \/ ram'[k][x] = ram[k][x]
         \/ /\ ram'[k][x] = [ram[k][x] EXCEPT !.valid = TRUE, !.cold = FALSE]
            /\ k = l /\ x = y
  <2> HIDE DEF y, l
  <2> QED BY <1>0, <1>5, <1>6 DEF y
<1>8. \A k \in Layer, x \in Slot :
         /\ ram'[k][x].expert = ram[k][x].expert
         /\ ram[k][x].valid => ram'[k][x].valid
         /\ ram'[k][x].cold => ram[k][x].cold
         /\ ram'[k][x].valid => ram[k][x].valid \/ (InHost(k, x) /\ ~InHeld(k, x)')
  <2> TAKE k \in Layer, x \in Slot
  <2>1. ram[k][x] \in RamSlot
    BY <1>0
  <2>3. CASE ram'[k][x] = ram[k][x]
    BY <2>3
  <2>4. CASE ram'[k][x] # ram[k][x]
    <3>1. InLost(k, x) /\ ram'[k][x] = [ram[k][x] EXCEPT !.valid = TRUE, !.cold = FALSE]
      BY <1>1, <1>7, <2>4 DEF InLost
    <3>2. ~InPf(k, x)
      BY <3>1 DEF Slots, HostHolds
    <3>3. ~InHeld(k, x)'
      BY <1>2, <1>4, <3>2 DEF InHeld, InNext
    <3> QED BY <2>1, <3>1, <3>3 DEF RamSlot, InHost
  <2> QED BY <2>3, <2>4
<1> QED BY <1>1, <1>2, <1>3, <1>4, <1>8, QuietSlots

\* the slot of a restore,
LEMMA PrefetchFinishSlots ==
    ASSUME Types, Slots, PrefetchFinish
    PROVE  Slots'
<1> DEFINE b == fetch.next
<1>0. fetch \in FetchRec /\ ram \in [Layer -> [Slot -> RamSlot]]
  BY DEF Types, FetchOK, TypeOK
<1>1. /\ UNCHANGED <<swaps, map, pf, pend, rel>> /\ b # None /\ fetch.pc = "restore"
      /\ fetch' = [NoFetch EXCEPT !.pc = "refill", !.layer = b.l, !.cand = {b.e}, !.restore = TRUE]
  BY DEF PrefetchFinish
<1>2. fetch'.next = None /\ fetch'.deferred = FALSE /\ fetch'.reading = None /\ fetch'.pc = "refill"
  BY <1>1 DEF NoFetch
<1>3. ~InFetch'
  BY <1>2 DEF InFetch
<1>4. \A k \in Layer, x \in Slot :
         /\ InPf(k, x)' => InPf(k, x)
         /\ ~InClaims(k, x)' /\ ~InPend(k, x)' /\ ~InLost(k, x)'
         /\ InNext(k, x)' => InNext(k, x)
         /\ InHost(k, x)' => InHost(k, x)
         /\ InHeld(k, x)' => InHeld(k, x)
  BY <1>1, <1>2, <1>3, BareHost
<1>5. b.l \in Layer /\ b.v \in Slot \cup {None}
  BY <1>0, <1>1 DEF FetchRec
<1>6. ram' = ram \/ ram' = [ram EXCEPT ![b.l][b.v].valid = TRUE]
  BY DEF PrefetchFinish
<1>7. \A k \in Layer, x \in Slot :
         \/ ram'[k][x] = ram[k][x]
         \/ ram'[k][x] = [ram[k][x] EXCEPT !.valid = TRUE] /\ k = b.l /\ x = b.v
  <2> DEFINE l == b.l
             v == b.v
  <2>1. CASE ram' = ram
    BY <2>1
  <2>2. CASE ram' = [ram EXCEPT ![l][v].valid = TRUE]
    <3> HIDE DEF l, v
    <3> QED BY <1>0, <2>2 DEF l, v
  <2> QED BY <1>6, <2>1, <2>2
<1>8. \A k \in Layer, x \in Slot :
         /\ ram'[k][x].expert = ram[k][x].expert
         /\ ram[k][x].valid => ram'[k][x].valid
         /\ ram'[k][x].cold => ram[k][x].cold
         /\ ram'[k][x].valid => ram[k][x].valid \/ (InHost(k, x) /\ ~InHeld(k, x)')
  <2> TAKE k \in Layer, x \in Slot
  <2>1. ram[k][x] \in RamSlot
    BY <1>0
  <2>3. CASE ram'[k][x] = ram[k][x]
    BY <2>3
  <2>4. CASE ram'[k][x] # ram[k][x]
    <3>1. InNext(k, x) /\ ram'[k][x] = [ram[k][x] EXCEPT !.valid = TRUE]
      BY <1>1, <1>7, <2>4 DEF InNext
    <3>2. ~InPf(k, x)
      BY <3>1 DEF Slots, HostHolds
    <3>3. ~InHeld(k, x)'
      BY <1>2, <1>4, <3>2 DEF InHeld, InNext
    <3> QED BY <2>1, <3>1, <3>3 DEF RamSlot, InHost
  <2> QED BY <2>3, <2>4
<1>9. fetch.pc # "settle" /\ rel' = rel
  BY <1>1
<1> QED BY <1>1, <1>2, <1>4, <1>8, <1>9, QuietSlots

\* and the speculative reads that have landed.
LEMMA ReapSlots ==
    ASSUME Types
    PROVE  \A k \in Layer, x \in Slot :
              /\ Reaped[k][x].expert = ram[k][x].expert
              /\ ram[k][x].valid => Reaped[k][x].valid
              /\ Reaped[k][x].cold = ram[k][x].cold
              /\ Reaped[k][x].valid =>
                     \/ ram[k][x].valid
                     \/ /\ InPf(k, x)
                        /\ \A p \in StillFlying : ~(p[1] = k /\ p[3] = x)
<1> TAKE k \in Layer, x \in Slot
<1>1. ram[k][x] \in RamSlot
  BY DEF Types, TypeOK
<1>2. Reaped[k][x] = IF \E p \in pf : p[1] = k /\ p[3] = x /\ ~Flying(p) /\ ram[k][x].expert = p[2]
                     THEN [ram[k][x] EXCEPT !.valid = TRUE] ELSE ram[k][x]
  BY DEF Reaped
<1>3. CASE Reaped[k][x] = ram[k][x]
  BY <1>3
<1>4. CASE Reaped[k][x] # ram[k][x]
  <2>1. PICK p \in pf : p[1] = k /\ p[3] = x /\ ~Flying(p)
    BY <1>2, <1>4
  <2>2. \A q \in StillFlying : ~(q[1] = k /\ q[3] = x)
    BY <2>1 DEF StillFlying, Flying
  <2>3. Reaped[k][x] = [ram[k][x] EXCEPT !.valid = TRUE]
    BY <1>2, <1>4
  <2> QED BY <1>1, <2>1, <2>2, <2>3 DEF InPf, RamSlot
<1> QED BY <1>3, <1>4

LEMMA PrefetchReapSlots ==
    ASSUME Types, Maps, Slots, PrefetchReap
    PROVE  Slots'
<1>0. /\ fetch \in FetchRec
      /\ fetch.deferred => fetch.pc \in {"settle", "idle"}
      /\ fetch.reading # None => fetch.pc = "reread" /\ fetch.reading \in fetch.lost
      /\ fetch.next # None => fetch.pc \in {"restore", "refill", "settle"}
  BY DEF Types, FetchOK, Slots, HostHolds, Maps, Fresh
<1>1. /\ UNCHANGED <<swaps, map, pend, rel, fetch>> /\ fetch.next = None /\ fetch.pc \notin {"settle", "serve"}
      /\ ram' = Reaped /\ pf' = StillFlying
  BY <1>0 DEF PrefetchReap
<1>2. fetch' = fetch /\ pf' \subseteq pf /\ (InFetch' => InFetch)
  BY <1>1 DEF StillFlying, InFetch
<1>3. \A k \in Layer, x \in Slot :
         /\ InPf(k, x)' => InPf(k, x)
         /\ InClaims(k, x)' => InClaims(k, x)
         /\ InLost(k, x)' => InLost(k, x)
         /\ InNext(k, x)' => InNext(k, x)
         /\ InHost(k, x)' => InHost(k, x)
         /\ InHeld(k, x)' => InHeld(k, x)
  BY <1>0, <1>1, <1>2, SameHost
<1>4. \A k \in Layer, x \in Slot :
         /\ ram'[k][x].expert = ram[k][x].expert
         /\ ram[k][x].valid => ram'[k][x].valid
         /\ ram'[k][x].cold => ram[k][x].cold
         /\ ram'[k][x].valid => ram[k][x].valid \/ (InHost(k, x) /\ ~InHeld(k, x)')
  <2> TAKE k \in Layer, x \in Slot
  <2>1. InHeld(k, x)' => InPf(k, x)'
    BY <1>1 DEF InHeld, InNext
  <2>2. InPf(k, x)' => \E p \in StillFlying : p[1] = k /\ p[3] = x
    BY <1>1 DEF InPf
  <2> QED BY <1>1, <2>1, <2>2, ReapSlots DEF InHost
<1> QED BY <1>0, <1>1, <1>3, <1>4, QuietSlots

\* A claim found lost is no speculative read's any more.
LEMMA SettlePendingSlots ==
    ASSUME Types, Types', Maps, Slots, SettlePending
    PROVE  Slots'
<1>0. /\ fetch \in FetchRec /\ fetch' \in FetchRec /\ fetch.layer \in Layer
      /\ fetch.deferred => fetch.pc \in {"settle", "idle"}
      /\ fetch.reading # None => fetch.pc = "reread"
      /\ fetch.next # None => fetch.pc \in {"restore", "refill", "settle"}
      /\ pend \subseteq Expert \X Slot
  BY DEF Types, TypeOK, FetchOK, AtLayer, Slots, HostHolds, Maps, Fresh, SettlePending
<1>1. /\ UNCHANGED <<swaps, map, rel>> /\ fetch.next = None /\ fetch.pc = "begun" /\ pend' = {}
      /\ ram' = Reaped /\ pf' = StillFlying /\ \A p \in pend : ~Flying(<<fetch.layer, p[1], p[2]>>)
  BY <1>0 DEF SettlePending
<1>2. /\ fetch'.layer = fetch.layer /\ fetch'.claims = fetch.claims /\ fetch'.next = None
      /\ fetch'.reading = None /\ fetch'.deferred = FALSE /\ fetch'.pc \in {"begun", "reread"}
      /\ fetch'.pc = "reread" => fetch'.lost \subseteq pend
  BY <1>0, <1>1, ZenonT(40) DEF SettlePending, FetchRec, Lost
<1>3. pf' \subseteq pf /\ InFetch
  BY <1>1 DEF StillFlying, InFetch
<1>4. \A k \in Layer, x \in Slot :
         /\ InPf(k, x)' => InPf(k, x)
         /\ InClaims(k, x)' => InClaims(k, x)
         /\ ~InPend(k, x)' /\ ~InNext(k, x)'
         /\ InHeld(k, x)' => InPf(k, x)'
         /\ InPf(k, x)' => \E p \in StillFlying : p[1] = k /\ p[3] = x
  BY <1>1, <1>2, <1>3 DEF InPf, InClaims, InPend, InNext, InHeld
<1>5. \A k \in Layer, x \in Slot : InLost(k, x)' => InPend(k, x) /\ ~InPf(k, x)'
  <2> SUFFICES ASSUME NEW k \in Layer, NEW x \in Slot, InLost(k, x)' PROVE InPend(k, x) /\ ~InPf(k, x)'
    OBVIOUS
  <2>1. PICK p \in pend : p[2] = x /\ k = fetch.layer
    BY <1>2 DEF InLost
  <2>2. ~Flying(<<k, p[1], x>>)
    BY <1>1, <2>1
  <2>3. ~\E q \in StillFlying : q[1] = k /\ q[3] = x
    BY <2>2 DEF StillFlying, Flying
  <2> QED BY <1>1, <1>4, <2>1, <2>3 DEF InPend
<1>6. \A k \in Layer, x \in Slot :
         /\ InHost(k, x)' => InHost(k, x)
         /\ InHeld(k, x)' => InHeld(k, x)
  BY <1>4, <1>5 DEF InHost, InHeld
<1>7. \A k \in Layer, x \in Slot :
         /\ ram'[k][x].expert = ram[k][x].expert
         /\ ram[k][x].valid => ram'[k][x].valid
         /\ ram'[k][x].cold => ram[k][x].cold
         /\ ram'[k][x].valid => ram[k][x].valid \/ (InHost(k, x) /\ ~InHeld(k, x)')
  BY <1>1, <1>4, ReapSlots DEF InHost
<1>8. fetch.pc # "settle" /\ rel' = rel
  BY <1>1
<1> QED BY <1>1, <1>2, <1>4, <1>5, <1>6, <1>7, <1>8, QuietSlots

\* A fetch that takes over a claim: the slot is mapped to its expert, so it is no
\* victim's.
LEMMA ServeClaimedSlots ==
    ASSUME Types, Slots, NEW e \in Expert, ServeClaimed(e)
    PROVE  Slots'
<1> DEFINE l == fetch.layer
           cs == map[l][e]
<1>0. /\ fetch \in FetchRec /\ l \in Layer /\ cs \in Slot
      /\ fetch.deferred => fetch.pc \in {"settle", "idle"}
      /\ fetch.reading # None => fetch.pc = "reread"
      /\ fetch.pc = "serve"
  BY ServeFacts DEF Types, FetchOK, TypeOK, Slots, HostHolds, ServeClaimed
<1>1. /\ UNCHANGED <<swaps, map, ram, pf, rel>> /\ pend' = pend \cup {<<e, cs>>}
      /\ fetch' = [fetch EXCEPT !.todo = Tail(@)]
      /\ ram[l][cs].expert = e /\ ~ram[l][cs].valid
  BY DEF ServeClaimed, Served
<1>2. /\ fetch'.layer = fetch.layer /\ fetch'.claims = fetch.claims /\ fetch'.next = fetch.next
      /\ fetch'.reading = None /\ fetch'.deferred = FALSE /\ fetch'.pc = "serve"
  BY <1>0, <1>1 DEF FetchRec
<1> HIDE DEF cs
<1>3. NoSwaps(l, cs)
  <2> SUFFICES ASSUME NEW i \in 1..Len(swaps), swaps[i].layer = l
               PROVE  swaps[i].to # cs /\ swaps[i].from # cs
    BY DEF NoSwaps
  <2>1. swaps[i].to # cs
    BY <1>0, <1>1 DEF Slots, SwapTo, cs
  <2>2. swaps[i].from # cs
    BY <1>0, <1>1, CacheConstants DEF Slots, SwapFrom, Claimed
  <2> QED BY <2>1, <2>2
<1>4. \A k \in Layer, x \in Slot :
         /\ InPf(k, x)' => InPf(k, x)
         /\ InClaims(k, x)' => InClaims(k, x)
         /\ ~InLost(k, x)'
         /\ InNext(k, x)' => InNext(k, x)
         /\ InPend(k, x)' => InPend(k, x) \/ (k = l /\ x = cs)
  BY <1>0, <1>1, <1>2 DEF InPf, InClaims, InFetch, InLost, InNext, InPend
<1>5. SwapTo' /\ SwapApart' /\ SwapFrom'
  <2>1. \A k \in Layer, x \in Slot : NoSwaps(k, x) \/ (InHost(k, x)' => InHost(k, x))
    BY <1>3, <1>4 DEF InHost
  <2> QED BY <1>0, <1>1, <2>1, KeepSlots
<1>6. HostHolds'
  <2>1. \A k \in Layer, x \in Slot :
           /\ InHeld(k, x) => Claimed(k, x)
           /\ InPf(k, x) => ~InClaims(k, x) /\ ~InLost(k, x) /\ ~InNext(k, x)
    BY DEF Slots, HostHolds
  <2>2. \A k \in Layer, x \in Slot : InHeld(k, x)' => InHeld(k, x) \/ (k = l /\ x = cs)
    BY <1>0, <1>4 DEF InHeld
  <2>3. \A k \in Layer, x \in Slot : InHeld(k, x)' => Claimed(k, x)'
    BY <1>1, <2>1, <2>2, CacheConstants DEF Claimed
  <2> QED BY <1>2, <1>4, <2>1, <2>3 DEF HostHolds
<1> QED BY <1>5, <1>6 DEF Slots

\* A slot that may be handed out is no swap's.
LEMMA FreeSlot ==
    ASSUME Types, Slots, NEW l \in Layer, NEW v \in Slot, ~Claimed(l, v), fetch.pc # "settle",
           <<l, v>> \notin rel \/ ram[l][v].expert = None \/ ram[l][v].cold
    PROVE  NoSwaps(l, v) /\ ~InPf(l, v)
<1>1. ASSUME NEW i \in 1..Len(swaps), swaps[i].layer = l
      PROVE  swaps[i].to # v /\ swaps[i].from # v
  <2>1. swaps[i].to # v
    BY <1>1 DEF Slots, SwapTo, Claimed
  <2>2. swaps[i].from # v
    BY <1>1 DEF Slots, SwapFrom
  <2> QED BY <2>1, <2>2
<1>2. InPf(l, v) => Claimed(l, v)
  BY DEF Slots, HostHolds, InHeld
<1> QED BY <1>1, <1>2 DEF NoSwaps

\* A step that claims slot v of layer l, which is no swap's.
LEMMA ClaimSlots ==
    ASSUME Types, Slots, swaps' = swaps, rel' = rel, fetch.pc # "settle",
           NEW l \in Layer, NEW v \in Slot, NoSwaps(l, v), Claimed(l, v)',
           \A k \in Layer, x \in Slot : (k = l /\ x = v) \/
              /\ ram'[k][x].expert = ram[k][x].expert
              /\ ram[k][x].valid => ram'[k][x].valid
              /\ ram'[k][x].cold => ram[k][x].cold
              /\ ram'[k][x].valid => ram[k][x].valid \/ (InHost(k, x) /\ ~InHeld(k, x)')
              /\ InHost(k, x)' => InHost(k, x)
              /\ InHeld(k, x)' => InHeld(k, x)
              /\ InPf(k, x)' => InPf(k, x)
              /\ InClaims(k, x)' \/ InLost(k, x)' \/ InNext(k, x)' =>
                     InClaims(k, x) \/ InLost(k, x) \/ InNext(k, x),
           \A k \in Layer, x \in Slot, y \in Expert : map'[k][y] = x => map[k][y] = x \/ (k = l /\ x = v),
           InPf(l, v)' => ~InClaims(l, v)' /\ ~InLost(l, v)' /\ ~InNext(l, v)',
           fetch'.deferred => fetch'.pc \in {"settle", "idle"},
           fetch'.reading # None => fetch'.pc = "reread" /\ fetch'.reading \in fetch'.lost
    PROVE  Slots'
<1>1. SwapTo' /\ SwapApart' /\ SwapFrom'
  BY KeepSlots
<1>2. HostHolds'
  <2> SUFFICES ASSUME NEW k \in Layer, NEW x \in Slot
               PROVE  /\ InHeld(k, x)' => Claimed(k, x)'
                      /\ InPf(k, x)' => ~InClaims(k, x)' /\ ~InLost(k, x)' /\ ~InNext(k, x)'
    BY DEF HostHolds
  <2>1. CASE k = l /\ x = v
    BY <2>1
  <2>2. CASE ~(k = l /\ x = v)
    <3>1. /\ InHeld(k, x) => Claimed(k, x)
          /\ InPf(k, x) => ~InClaims(k, x) /\ ~InLost(k, x) /\ ~InNext(k, x)
      BY DEF Slots, HostHolds
    <3>2. /\ ram'[k][x].expert = ram[k][x].expert
          /\ InHeld(k, x)' => InHeld(k, x) /\ (ram'[k][x].valid => ram[k][x].valid)
          /\ InPf(k, x)' => InPf(k, x)
          /\ InClaims(k, x)' \/ InLost(k, x)' \/ InNext(k, x)' =>
                     InClaims(k, x) \/ InLost(k, x) \/ InNext(k, x)
      BY <2>2
    <3>3. InHeld(k, x)' => Claimed(k, x)'
      BY <3>1, <3>2 DEF Claimed
    <3> QED BY <3>1, <3>2, <3>3
  <2> QED BY <2>1, <2>2
<1> QED BY <1>1, <1>2 DEF Slots

\* The entries of a claim.
LEMMA ClaimedRam ==
    ASSUME NEW R \in [Layer -> [Slot -> RamSlot]], NEW l \in Layer, NEW v \in Slot,
           NEW e \in Expert, NEW cold \in BOOLEAN
    PROVE  \A k \in Layer, x \in Slot :
               ClaimRam(R, l, v, e, cold)[k][x] =
                   IF k = l /\ x = v
                   THEN [expert |-> e, valid |-> FALSE, cold |-> cold, soa |-> FALSE] ELSE R[k][x]
BY DEF ClaimRam

LEMMA ClaimedMap ==
    ASSUME Types, NEW R, NEW l \in Layer, NEW v \in Slot, NEW e \in Expert, map' = ClaimMap(R, l, v, e)
    PROVE  \A k \in Layer, x \in Slot, y \in Expert :
               map'[k][y] = x => map[k][y] = x \/ (k = l /\ x = v)
<1>1. map \in [Layer -> [Expert -> Slot \cup {None}]]
  BY DEF Types, TypeOK
<1>2. \A k \in Layer, y \in Expert : map'[k][y] = map[k][y] \/ map'[k][y] = None \/ (k = l /\ map'[k][y] = v)
  BY <1>1 DEF ClaimMap, Unmapped
<1> QED BY <1>2, CacheConstants

LEMMA ServeMissSlots ==
    ASSUME Types, Slots, NEW e \in Expert, NEW v \in Slot, NEW cold \in BOOLEAN, ServeMiss(e, v, cold),
           NEW l \in Layer, l = fetch.layer
    PROVE  Slots'
<1>0. /\ fetch \in FetchRec /\ ram \in [Layer -> [Slot -> RamSlot]]
      /\ fetch.deferred => fetch.pc \in {"settle", "idle"}
      /\ fetch.reading # None => fetch.pc = "reread"
      /\ fetch.pc = "serve"
  BY ServeFacts DEF Types, FetchOK, TypeOK, Slots, HostHolds, ServeMiss
<1>1. /\ UNCHANGED <<swaps, pf, rel, pend>>
      /\ fetch' = [fetch EXCEPT !.todo = Tail(@), !.claims = @ \cup {<<e, v, cold>>}]
      /\ ram' = ClaimRam(ram, l, v, e, cold) /\ map' = ClaimMap(ram, l, v, e)
      /\ ~Claimed(l, v) /\ <<l, v>> \notin rel
  BY DEF ServeMiss, Evictable, Claimed
<1>2. /\ fetch'.layer = l /\ fetch'.claims = fetch.claims \cup {<<e, v, cold>>} /\ fetch'.next = fetch.next
      /\ fetch'.reading = None /\ fetch'.deferred = FALSE /\ fetch'.pc = "serve"
  BY <1>0, <1>1 DEF FetchRec
<1>3. NoSwaps(l, v) /\ ~InPf(l, v)
  BY <1>0, <1>1, FreeSlot
<1>4. \A k \in Layer, x \in Slot :
         /\ InPf(k, x)' => InPf(k, x)
         /\ InClaims(k, x)' => InClaims(k, x) \/ (k = l /\ x = v)
         /\ InPend(k, x)' => InPend(k, x)
         /\ ~InLost(k, x)'
         /\ InNext(k, x)' => InNext(k, x)
  BY <1>0, <1>1, <1>2 DEF InPf, InClaims, InFetch, InLost, InNext, InPend
<1>5. \A k \in Layer, x \in Slot : (k = l /\ x = v) \/
         /\ InHost(k, x)' => InHost(k, x)
         /\ InHeld(k, x)' => InHeld(k, x)
  BY <1>0, <1>4 DEF InHost, InHeld
<1>6. \A k \in Layer, x \in Slot : ram'[k][x] =
          IF k = l /\ x = v THEN [expert |-> e, valid |-> FALSE, cold |-> cold, soa |-> FALSE] ELSE ram[k][x]
  BY <1>0, <1>1, ClaimedRam
<1>7. \A k \in Layer, x \in Slot, y \in Expert : map'[k][y] = x => map[k][y] = x \/ (k = l /\ x = v)
  <2>1. map' = ClaimMap(ram, l, v, e)
    BY <1>1
  <2> QED BY <2>1, ClaimedMap
<1>8. Claimed(l, v)'
  BY <1>6, CacheConstants DEF Claimed
<1>9. \A k \in Layer, x \in Slot : (k = l /\ x = v) \/
         /\ ram'[k][x].expert = ram[k][x].expert
         /\ ram[k][x].valid => ram'[k][x].valid
         /\ ram'[k][x].cold => ram[k][x].cold
         /\ ram'[k][x].valid => ram[k][x].valid
  BY <1>6
<1> QED BY <1>0, <1>1, <1>2, <1>3, <1>4, <1>5, <1>7, <1>8, <1>9, ClaimSlots

\* A cold block that is read again in place: its slot was valid and cold.
LEMMA ServeUpgradeSlots ==
    ASSUME Types, Slots, NEW e \in Expert, ServeUpgrade(e),
           NEW l \in Layer, l = fetch.layer, NEW v \in Slot, v = FindSlot(l, e)
    PROVE  Slots'
<1>0. /\ fetch \in FetchRec /\ ram \in [Layer -> [Slot -> RamSlot]]
      /\ fetch.deferred => fetch.pc \in {"settle", "idle"}
      /\ fetch.reading # None => fetch.pc = "reread"
      /\ fetch.pc = "serve"
  BY ServeFacts DEF Types, FetchOK, TypeOK, Slots, HostHolds, ServeUpgrade
<1>1. /\ UNCHANGED <<swaps, pf, rel, pend, map>>
      /\ fetch' = [fetch EXCEPT !.todo = Tail(@), !.claims = @ \cup {<<e, v, FALSE>>}]
      /\ ram' = [ram EXCEPT ![l][v].valid = FALSE, ![l][v].cold = FALSE]
      /\ ram[l][v].cold
  BY DEF ServeUpgrade
<1>2. ram[l][v].expert = e /\ ram[l][v].valid /\ ~Claimed(l, v)
  BY CacheConstants DEF FindSlot, Claimed
<1>3. NoSwaps(l, v) /\ ~InPf(l, v)
  BY <1>0, <1>1, <1>2, FreeSlot
<1>4. /\ fetch'.layer = l /\ fetch'.claims = fetch.claims \cup {<<e, v, FALSE>>} /\ fetch'.next = fetch.next
      /\ fetch'.reading = None /\ fetch'.deferred = FALSE /\ fetch'.pc = "serve"
  BY <1>0, <1>1 DEF FetchRec
<1>5. \A k \in Layer, x \in Slot :
         /\ InPf(k, x)' => InPf(k, x)
         /\ InClaims(k, x)' => InClaims(k, x) \/ (k = l /\ x = v)
         /\ InPend(k, x)' => InPend(k, x)
         /\ ~InLost(k, x)'
         /\ InNext(k, x)' => InNext(k, x)
  <2>1. pf' = pf /\ pend' = pend /\ fetch.pc = "serve"
    BY <1>0, <1>1
  <2>2. \A c \in fetch'.claims : c \in fetch.claims \/ c[2] = v
    <3> DEFINE t == <<e, v, FALSE>>
    <3>1. t[2] = v /\ fetch'.claims = fetch.claims \cup {t}
      BY <1>4
    <3> HIDE DEF t
    <3> QED BY <3>1
  <2>3. \A k \in Layer, x \in Slot : InClaims(k, x)' => InClaims(k, x) \/ (k = l /\ x = v)
    BY <1>4, <2>1, <2>2 DEF InClaims, InFetch
  <2> QED BY <1>4, <2>1, <2>3 DEF InPf, InLost, InNext, InPend
<1>6. \A k \in Layer, x \in Slot : (k = l /\ x = v) \/
         /\ InHost(k, x)' => InHost(k, x)
         /\ InHeld(k, x)' => InHeld(k, x)
  BY <1>0, <1>5 DEF InHost, InHeld
<1>7. /\ \A k \in Layer, x \in Slot : (k = l /\ x = v) \/ ram'[k][x] = ram[k][x]
      /\ ram'[l][v].expert = e /\ ~ram'[l][v].valid
  <2>1. ram[l][v] \in RamSlot
    BY <1>0
  <2>2. ram'[l][v] = [ram[l][v] EXCEPT !.valid = FALSE, !.cold = FALSE]
    BY <1>0, <1>1
  <2>3. ram'[l][v].expert = e /\ ~ram'[l][v].valid
    BY <1>2, <2>1, <2>2 DEF RamSlot
  <2> QED BY <1>0, <1>1, <2>3
<1>8. Claimed(l, v)'
  BY <1>7, CacheConstants DEF Claimed
<1>9. \A k \in Layer, x \in Slot : (k = l /\ x = v) \/
         /\ ram'[k][x].expert = ram[k][x].expert
         /\ ram[k][x].valid => ram'[k][x].valid
         /\ ram'[k][x].cold => ram[k][x].cold
         /\ ram'[k][x].valid => ram[k][x].valid
  BY <1>7
<1>10. /\ \A k \in Layer, x \in Slot, y \in Expert : map'[k][y] = x => map[k][y] = x \/ (k = l /\ x = v)
       /\ fetch.pc # "settle" /\ swaps' = swaps /\ rel' = rel /\ ~InPf(l, v)'
  BY <1>0, <1>1, <1>3, <1>5
<1> QED BY <1>3, <1>4, <1>5, <1>6, <1>8, <1>9, <1>10, ClaimSlots

\* A speculative read, which reaps those that have landed first.
LEMMA PrefetchBeginSlots ==
    ASSUME Types, Maps, Slots, NEW l \in Layer, NEW e \in Expert, NEW v \in Slot, NEW cold \in BOOLEAN,
           PrefetchBegin(l, e, v, cold)
    PROVE  Slots'
<1>0. /\ fetch \in FetchRec /\ ram \in [Layer -> [Slot -> RamSlot]]
      /\ fetch.deferred => fetch.pc \in {"settle", "idle"}
      /\ fetch.reading # None => fetch.pc = "reread" /\ fetch.reading \in fetch.lost
      /\ fetch.next # None => fetch.pc \in {"restore", "refill", "settle"}
      /\ Reaped \in [Layer -> [Slot -> RamSlot]]
  BY ReapTypes DEF Types, FetchOK, TypeOK, Slots, HostHolds, Maps, Fresh
<1>1. /\ UNCHANGED <<swaps, rel, pend, fetch>> /\ fetch.next = None /\ ~fetch.deferred
      /\ fetch.pc = "idle" \/ (fetch.pc \in {"begun", "ended"} /\ l # fetch.layer)
      /\ ram' = ClaimRam(Reaped, l, v, e, cold) /\ map' = ClaimMap(ram, l, v, e)
      /\ pf' = StillFlying \cup {<<l, e, v>>}
      /\ ~(Reaped[l][v].expert # None /\ ~Reaped[l][v].valid) /\ <<l, v>> \notin rel
  BY <1>0 DEF PrefetchBegin, MayPrefetch, Evictable
<1>2. NoSwaps(l, v)
  <2>1. CASE InPf(l, v)
    <3>1. Claimed(l, v) /\ InHost(l, v)
      BY <2>1 DEF Slots, HostHolds, InHeld, InHost
    <3> QED BY <3>1 DEF NoSwaps, Slots, SwapTo, SwapFrom
  <2>2. CASE ~InPf(l, v)
    <3>1. ~Claimed(l, v)
      BY <1>1, <2>2, ReapSlots DEF Claimed
    <3> QED BY <1>1, <3>1, FreeSlot
  <2> QED BY <2>1, <2>2
<1>3. ~InClaims(l, v)' /\ ~InLost(l, v)' /\ ~InNext(l, v)'
  BY <1>1 DEF InClaims, InFetch, InLost, InNext
<1>4. \A k \in Layer, x \in Slot :
         /\ InPf(k, x)' => (k = l /\ x = v) \/ \E p \in StillFlying : p[1] = k /\ p[3] = x
         /\ (\E p \in StillFlying : p[1] = k /\ p[3] = x) => InPf(k, x)
         /\ InClaims(k, x)' => InClaims(k, x)
         /\ InPend(k, x)' => InPend(k, x)
         /\ ~InLost(k, x)' /\ ~InNext(k, x)'
  BY <1>1 DEF InPf, InClaims, InFetch, InLost, InNext, InPend, StillFlying
<1>5. \A k \in Layer, x \in Slot : (k = l /\ x = v) \/
         /\ InHost(k, x)' => InHost(k, x)
         /\ InHeld(k, x)' => InPf(k, x)'
         /\ InHeld(k, x)' => InHeld(k, x)
  BY <1>1, <1>4 DEF InHost, InHeld
<1>6. \A k \in Layer, x \in Slot : ram'[k][x] =
          IF k = l /\ x = v THEN [expert |-> e, valid |-> FALSE, cold |-> cold, soa |-> FALSE] ELSE Reaped[k][x]
  <2>1. ram' = ClaimRam(Reaped, l, v, e, cold) /\ Reaped \in [Layer -> [Slot -> RamSlot]]
    BY <1>0, <1>1
  <2> QED BY <2>1, ClaimedRam, SMTT(30)
<1>7. \A k \in Layer, x \in Slot, y \in Expert : map'[k][y] = x => map[k][y] = x \/ (k = l /\ x = v)
  <2>1. map' = ClaimMap(ram, l, v, e)
    BY <1>1
  <2> QED BY <2>1, ClaimedMap
<1>8. Claimed(l, v)'
  BY <1>6, CacheConstants DEF Claimed
<1>9. \A k \in Layer, x \in Slot : (k = l /\ x = v) \/
         /\ ram'[k][x].expert = ram[k][x].expert
         /\ ram[k][x].valid => ram'[k][x].valid
         /\ ram'[k][x].cold => ram[k][x].cold
         /\ ram'[k][x].valid => ram[k][x].valid \/ (InHost(k, x) /\ ~InHeld(k, x)')
         /\ InPf(k, x)' => InPf(k, x)
  <2> TAKE k \in Layer, x \in Slot
  <2>1. CASE k = l /\ x = v
    BY <2>1
  <2>2. CASE ~(k = l /\ x = v)
    <3>1. ram'[k][x] = Reaped[k][x]
      BY <1>6, <2>2
    <3>2. InPf(k, x)' => InPf(k, x)
      BY <1>4, <2>2
    <3>3. Reaped[k][x].valid => ram[k][x].valid \/ (InPf(k, x) /\ ~InPf(k, x)')
      BY <1>4, <2>2, ReapSlots
    <3>4. InHeld(k, x)' => InPf(k, x)'
      BY <1>5, <2>2
    <3> QED BY <3>1, <3>2, <3>3, <3>4, ReapSlots DEF InHost
  <2> QED BY <2>1, <2>2
<1>10. fetch.pc # "settle" /\ fetch'.deferred = FALSE
       /\ (fetch'.reading # None => fetch'.pc = "reread" /\ fetch'.reading \in fetch'.lost)
  BY <1>0, <1>1 DEF FetchRec
<1> QED BY <1>1, <1>2, <1>3, <1>4, <1>5, <1>7, <1>8, <1>9, <1>10, ClaimSlots

\* The read of a restore.
LEMMA PrefetchStartSlots ==
    ASSUME Types, Types', Maps, Slots, NEW l \in Layer, NEW e \in Expert, NEW v \in Slot \cup {None},
           PrefetchStart(l, e, v)
    PROVE  Slots'
<1> DEFINE next == [l |-> l, e |-> e, v |-> v]
<1>0. /\ fetch \in FetchRec /\ fetch' \in FetchRec /\ ram \in [Layer -> [Slot -> RamSlot]]
      /\ fetch.deferred => fetch.pc \in {"settle", "idle"}
      /\ fetch.reading # None => fetch.pc = "reread"
      /\ next.l = l /\ next.v = v
  BY DEF Types, FetchOK, TypeOK, Slots, HostHolds
<1>1. /\ UNCHANGED <<swaps, rel, pend, pf>> /\ fetch.pc \in {"restore", "refill"} /\ fetch.next = None
      /\ fetch' = [fetch EXCEPT !.next = next]
  BY DEF PrefetchStart
<1> HIDE DEF next
<1>2. /\ fetch'.layer = fetch.layer /\ fetch'.claims = fetch.claims /\ fetch'.next = next
      /\ fetch'.reading = None /\ fetch'.deferred = FALSE /\ fetch'.pc = fetch.pc
  BY <1>0, <1>1 DEF FetchRec
<1>3. \A k \in Layer, x \in Slot :
         /\ InPf(k, x)' => InPf(k, x)
         /\ ~InClaims(k, x)' /\ ~InPend(k, x)' /\ ~InLost(k, x)'
         /\ InNext(k, x)' => k = l /\ x = v
  BY <1>0, <1>1, <1>2 DEF InPf, InClaims, InFetch, InLost, InNext, InPend
<1>4. \A k \in Layer, x \in Slot : (k = l /\ x = v) \/
         /\ InHost(k, x)' => InHost(k, x)
         /\ InHeld(k, x)' => InHeld(k, x)
  BY <1>3 DEF InHost, InHeld
<1>5. CASE v = None
  <2>1. ram' = ram /\ map' = map
    BY <1>5 DEF PrefetchStart
  <2>2. \A k \in Layer, x \in Slot : ~(k = l /\ x = v)
    BY <1>5, CacheConstants
  <2>3. fetch.pc # "settle" /\ rel' = rel
    BY <1>1
  <2> QED BY <1>1, <1>2, <1>3, <1>4, <2>1, <2>2, <2>3, QuietSlots
<1>6. CASE v # None
  <2>1. /\ v \in Slot /\ ram' = ClaimRam(ram, l, v, e, ram[l][v].cold) /\ map' = ClaimMap(ram, l, v, e)
        /\ ~Claimed(l, v) /\ <<l, v>> \notin rel
    BY <1>6 DEF PrefetchStart, Evictable, Claimed
  <2>2. ram[l][v].cold \in BOOLEAN
    <3>1. ram[l][v] \in RamSlot
      BY <1>0, <2>1
    <3> QED BY <3>1 DEF RamSlot
  <2>3. NoSwaps(l, v) /\ ~InPf(l, v)
    BY <1>1, <2>1, FreeSlot
  <2> DEFINE c == ram[l][v].cold
  <2>4. \A k \in Layer, x \in Slot : ram'[k][x] =
           IF k = l /\ x = v THEN [expert |-> e, valid |-> FALSE, cold |-> c, soa |-> FALSE] ELSE ram[k][x]
    BY <1>0, <2>1, <2>2, ClaimedRam
  <2> HIDE DEF c
  <2>5. \A k \in Layer, x \in Slot, y \in Expert : map'[k][y] = x => map[k][y] = x \/ (k = l /\ x = v)
    <3>1. map' = ClaimMap(ram, l, v, e) /\ v \in Slot
      BY <2>1
    <3>2. map \in [Layer -> [Expert -> Slot \cup {None}]]
      BY DEF Types, TypeOK
    <3>3. \A k \in Layer, y \in Expert :
             map'[k][y] = map[k][y] \/ map'[k][y] = None \/ (k = l /\ map'[k][y] = v)
      BY <3>1, <3>2 DEF ClaimMap, Unmapped
    <3> QED BY <3>3, CacheConstants
  <2>6. Claimed(l, v)'
    BY <2>1, <2>4, CacheConstants DEF Claimed
  <2>7. \A k \in Layer, x \in Slot : (k = l /\ x = v) \/
           /\ ram'[k][x].expert = ram[k][x].expert
           /\ ram[k][x].valid => ram'[k][x].valid
           /\ ram'[k][x].cold => ram[k][x].cold
           /\ ram'[k][x].valid => ram[k][x].valid
    BY <2>4
  <2>8. ~InPf(l, v)' /\ fetch.pc # "settle"
    BY <1>1, <1>3, <2>1, <2>3
  <2>9. \A k \in Layer, x \in Slot : (k = l /\ x = v) \/ (~InClaims(k, x)' /\ ~InLost(k, x)' /\ ~InNext(k, x)')
    BY <1>3
  <2> QED BY <1>1, <1>2, <1>3, <1>4, <2>1, <2>3, <2>5, <2>6, <2>7, <2>8, <2>9, ClaimSlots
<1> QED BY <1>5, <1>6

\* Where a promotion's victim may go: to a slot nobody has claimed, and that no
\* upload still reads unless it is empty.
LEMMA TargetFree ==
    ASSUME Types, NEW l \in Layer, NEW t \in SwapTargets(l), t # None
    PROVE  t \in Slot /\ ~Claimed(l, t) /\ (ram[l][t].expert = None \/ <<l, t>> \notin rel)
<1>1. CASE FreeTop(l) = {}
  BY <1>1 DEF SwapTargets, Evictable, Claimed
<1>2. CASE FreeTop(l) # {}
  <2> DEFINE top == CHOOSE i \in FreeTop(l) : \A j \in FreeTop(l) : j <= i
  <2>1. free[l] \in Seq(Slot) /\ Len(free[l]) \in Nat
    BY DEF Types, TypeOK
  <2>2. FreeTop(l) \subseteq 1..Len(free[l])
    BY DEF FreeTop
  <2>3. \E i \in FreeTop(l) : \A j \in FreeTop(l) : j <= i
    BY <1>2, <2>1, <2>2, Greatest
  <2>4. top \in FreeTop(l)
    BY <2>3
  <2>5. t = free[l][top]
    BY <1>2 DEF SwapTargets
  <2> HIDE DEF top
  <2>6. t \in Slot /\ ram[l][t].expert = None
    BY <2>1, <2>2, <2>4, <2>5 DEF FreeTop
  <2> QED BY <2>6 DEF Claimed
<1> QED BY <1>1, <1>2

\* What a promotion does to the tables, entry by entry.
SlotsElse(l, to) ==
    \A k \in Layer, x \in Slot : (k = l /\ x = to) \/
        /\ ram'[k][x].expert = ram[k][x].expert
        /\ ram'[k][x].valid = ram[k][x].valid
        /\ ram'[k][x].cold = ram[k][x].cold
Unmaps(l, to) ==
    \A k \in Layer, x \in Slot, y \in Expert :
        map'[k][y] = x => map[k][y] = x /\ ~(k = l /\ x = to)

LEMMA PromoteEntries ==
    ASSUME Types, Maps, NEW l \in Layer, NEW e \in Expert, NEW s \in Slot, NEW g \in GSlot,
           NEW pick, NEW r, Promote(l, e, s, g, pick, r), NEW to, to = IF pick = s THEN None ELSE pick
    PROVE  /\ to \in Slot \cup {None} /\ to # s
           /\ to # None => /\ Exclusive /\ vram[l][g] \in Expert
                           /\ ~Claimed(l, to) /\ (ram[l][to].expert = None \/ <<l, to>> \notin rel)
                           /\ ram'[l][to].expert = vram[l][g] /\ ~ram'[l][to].valid
           /\ SlotsElse(l, to) /\ Unmaps(l, to)
<1>1. /\ ram \in [Layer -> [Slot -> RamSlot]] /\ map \in [Layer -> [Expert -> Slot \cup {None}]]
      /\ vram[l][g] \in Expert \cup {None}
  BY DEF Types, TypeOK
<1>2. pick \in IF Exclusive /\ vram[l][g] # None THEN SwapTargets(l) ELSE {None}
  BY DEF Promote
<1>3. to \in Slot \cup {None} /\ to # s
  BY PromoteTypes, CacheConstants
<1>4. to # None => /\ Exclusive /\ vram[l][g] \in Expert /\ to = pick
                   /\ ~Claimed(l, to) /\ (ram[l][to].expert = None \/ <<l, to>> \notin rel)
  BY <1>1, <1>2, TargetFree
<1>5. ram' = IF to # None THEN [ram EXCEPT ![l][to] = [Empty EXCEPT !.expert = vram[l][g]]]
             ELSE IF pick = s THEN [ram EXCEPT ![l][s].soa = FALSE] ELSE ram
  BY DEF Promote
<1>6. map' = IF to # None THEN [map EXCEPT ![l] = Unmapped(map[l], ram[l][to].expert)] ELSE map
  BY DEF Promote
<1>7. to # None => ram'[l][to].expert = vram[l][g] /\ ~ram'[l][to].valid
  <2> SUFFICES ASSUME to # None PROVE ram'[l][to].expert = vram[l][g] /\ ~ram'[l][to].valid
    OBVIOUS
  <2>1. ram'[l][to] = [Empty EXCEPT !.expert = vram[l][g]]
    BY <1>1, <1>3, <1>5
  <2> QED BY <2>1 DEF Empty
<1>8. \A k \in Layer, x \in Slot : (k = l /\ x = to) \/
         /\ ram'[k][x].expert = ram[k][x].expert
         /\ ram'[k][x].valid = ram[k][x].valid
         /\ ram'[k][x].cold = ram[k][x].cold
  <2> TAKE k \in Layer, x \in Slot
  <2>1. ram[k][x] \in RamSlot
    BY <1>1
  <2>2. CASE to # None
    BY <1>1, <1>3, <1>5, <2>2
  <2>3. CASE to = None
    <3>1. ram'[k][x] = ram[k][x] \/ ram'[k][x] = [ram[k][x] EXCEPT !.soa = FALSE]
      BY <1>1, <1>5, <2>3
    <3> QED BY <2>1, <3>1 DEF RamSlot
  <2> QED BY <2>2, <2>3
<1>9. \A k \in Layer, x \in Slot, y \in Expert : map'[k][y] = x => map[k][y] = x /\ ~(k = l /\ x = to)
  <2> TAKE k \in Layer, x \in Slot, y \in Expert
  <2> HAVE map'[k][y] = x
  <2>1. CASE to = None
    BY <1>6, <2>1, CacheConstants
  <2>2. CASE to # None
    <3>1. map' = [map EXCEPT ![l] = Unmapped(map[l], ram[l][to].expert)]
      BY <1>6, <2>2
    <3>2. map[k][y] = x /\ ~(k = l /\ y = ram[l][to].expert)
      BY <1>1, <3>1, CacheConstants DEF Unmapped
    <3>3. k = l => ram[l][x].expert = y
      BY <3>2, Lookup
    <3> QED BY <3>2, <3>3
  <2> QED BY <2>1, <2>2
<1> QED BY <1>3, <1>4, <1>7, <1>8, <1>9 DEF SlotsElse, Unmaps

LEMMA PromoteElse ==
    ASSUME Types, Maps, NEW l \in Layer, NEW e \in Expert, NEW s \in Slot, NEW g \in GSlot,
           NEW pick, NEW r, Promote(l, e, s, g, pick, r), NEW to, to = IF pick = s THEN None ELSE pick
    PROVE  SlotsElse(l, to)
BY PromoteEntries

LEMMA PromoteUnmaps ==
    ASSUME Types, Maps, NEW l \in Layer, NEW e \in Expert, NEW s \in Slot, NEW g \in GSlot,
           NEW pick, NEW r, Promote(l, e, s, g, pick, r), NEW to, to = IF pick = s THEN None ELSE pick
    PROVE  Unmaps(l, to)
BY PromoteEntries

\* A promotion, out of a slot that is protected until the settle.
LEMMA PromoteSlots ==
    ASSUME Types, Maps, Slots, NEW l \in Layer, NEW e \in Expert, NEW s \in Slot, NEW g \in GSlot,
           NEW pick, NEW r, Promote(l, e, s, g, pick, r),
           s = FindSlot(l, e), rel' = rel \cup {<<l, s>>},
           fetch.pc \in {"serve", "refill", "warm"}, fetch'.pc # "settle",
           \A k \in Layer, x \in Slot :
              /\ InHost(k, x)' => InHost(k, x)
              /\ InHeld(k, x)' => InHeld(k, x)
              /\ InPf(k, x)' => InPf(k, x)
              /\ InClaims(k, x)' \/ InLost(k, x)' \/ InNext(k, x)' =>
                     InClaims(k, x) \/ InLost(k, x) \/ InNext(k, x),
           ~fetch'.deferred, fetch'.reading = None
    PROVE  Slots'
<1>a. PICK to : to = IF pick = s THEN None ELSE pick
  OBVIOUS
<1> DEFINE sw == [layer |-> l, promoted |-> e, from |-> s, victim |-> vram[l][g], to |-> to, ring |-> r]
           n == Len(swaps) + 1
<1>0. ram[l][s].expert = e /\ ram[l][s].valid /\ ~ram[l][s].cold /\ s = map[l][e]
  BY CacheConstants DEF Promote, FindSlot
<1>1. \A k \in Layer, x \in Slot : InHost(k, x) => Claimed(k, x)
  <2>1. ~fetch.deferred
    BY DEF Slots, HostHolds
  <2>2. \A k \in Layer, x \in Slot : InHost(k, x) => InHeld(k, x)
    BY <2>1 DEF InHost, InHeld, InClaims, InFetch, InPend, InLost
  <2> QED BY <2>2 DEF Slots, HostHolds
<1>2. swaps' = (IF Exclusive THEN Append(swaps, sw) ELSE swaps)
  BY <1>a DEF Promote
<1>3. sw.layer = l /\ sw.to = to /\ sw.from = s /\ sw.victim = vram[l][g]
  OBVIOUS
<1> HIDE DEF sw
<1>4. /\ to \in Slot \cup {None} /\ to # s
      /\ to # None => /\ Exclusive /\ vram[l][g] \in Expert
                      /\ ~Claimed(l, to) /\ (ram[l][to].expert = None \/ <<l, to>> \notin rel)
                      /\ ram'[l][to].expert = vram[l][g] /\ ~ram'[l][to].valid
  BY <1>a, PromoteEntries
<1>b. \A k \in Layer, x \in Slot : (k = l /\ x = to) \/
         /\ ram'[k][x].expert = ram[k][x].expert
         /\ ram'[k][x].valid = ram[k][x].valid
         /\ ram'[k][x].cold = ram[k][x].cold
  BY <1>a, PromoteElse DEF SlotsElse
<1>c. \A k \in Layer, x \in Slot, y \in Expert :
         map'[k][y] = x => map[k][y] = x /\ ~(k = l /\ x = to)
  BY <1>a, PromoteUnmaps DEF Unmaps
<1>5. to # None => NoSwaps(l, to) /\ ~InHost(l, to)
  <2> SUFFICES ASSUME to # None PROVE NoSwaps(l, to) /\ ~InHost(l, to)
    OBVIOUS
  <2>1. to \in Slot
    BY <1>4
  <2> QED BY <1>1, <1>4, <2>1, FreeSlot
<1>6. HostHolds'
  <2> SUFFICES ASSUME NEW k \in Layer, NEW x \in Slot
               PROVE  /\ InHeld(k, x)' => Claimed(k, x)'
                      /\ InPf(k, x)' => ~InClaims(k, x)' /\ ~InLost(k, x)' /\ ~InNext(k, x)'
    BY DEF HostHolds
  <2>1. /\ InHeld(k, x) => Claimed(k, x)
        /\ InPf(k, x) => ~InClaims(k, x) /\ ~InLost(k, x) /\ ~InNext(k, x)
    BY DEF Slots, HostHolds
  <2>2. InHeld(k, x)' => Claimed(k, x)'
    <3> SUFFICES ASSUME InHeld(k, x)' PROVE Claimed(k, x)'
      OBVIOUS
    <3>1. InHeld(k, x) /\ Claimed(k, x)
      BY <2>1
    <3>2. ~(k = l /\ x = to)
      BY <1>4, <3>1, CacheConstants
    <3>3. ram'[k][x].expert = ram[k][x].expert /\ ram'[k][x].valid = ram[k][x].valid
      BY <1>b, <3>2
    <3> QED BY <3>1, <3>3 DEF Claimed
  <2> QED BY <2>1, <2>2
<1>7. /\ \A i \in 1..Len(swaps') : (i \in 1..Len(swaps) /\ swaps'[i] = swaps[i])
                                   \/ (i = n /\ swaps'[i] = sw)
      /\ n \notin 1..Len(swaps)
  BY <1>2, SwapTypes
<1> HIDE DEF n
<1>8. SwapTo'
  <2> SUFFICES ASSUME NEW i \in 1..Len(swaps'), NEW k \in Layer, NEW x \in Slot,
                      swaps'[i].layer = k, swaps'[i].to = x
               PROVE  /\ ram'[k][x].expert = swaps'[i].victim /\ swaps'[i].victim # None
                      /\ ~ram'[k][x].valid
                      /\ map'[k][swaps'[i].victim] # x
                      /\ ~InHost(k, x)'
    BY DEF SwapTo
  <2>1. CASE i \in 1..Len(swaps) /\ swaps'[i] = swaps[i]
    <3>1. /\ ram[k][x].expert = swaps[i].victim /\ swaps[i].victim # None
          /\ ~ram[k][x].valid /\ map[k][swaps[i].victim] # x /\ ~InHost(k, x)
      BY <2>1 DEF Slots, SwapTo
    <3>2. ~(k = l /\ x = to)
      BY <1>5, <2>1, CacheConstants DEF NoSwaps
    <3>3. swaps[i].victim \in Expert
      BY <2>1, <3>1, SwapTypes
    <3> QED BY <1>b, <1>c, <2>1, <3>1, <3>2, <3>3
  <2>2. CASE i = n /\ swaps'[i] = sw
    <3>1. k = l /\ x = to /\ to # None /\ swaps'[i].victim = vram[l][g]
      BY <1>3, <2>2, CacheConstants
    <3>2. ~InHost(k, x)'
      BY <1>5, <3>1
    <3> QED BY <1>4, <1>c, <3>1, <3>2, CacheConstants
  <2> QED BY <1>7, <2>1, <2>2
<1>9. SwapFrom'
  <2> SUFFICES ASSUME NEW i \in 1..Len(swaps'), NEW k \in Layer, NEW x \in Slot,
                      swaps'[i].layer = k, swaps'[i].from = x
               PROVE  /\ ~Claimed(k, x)'
                      /\ <<k, x>> \in rel' /\ ram'[k][x].expert # None /\ ~ram'[k][x].cold
    BY DEF SwapFrom
  <2>1. CASE i \in 1..Len(swaps) /\ swaps'[i] = swaps[i]
    <3>1. ~Claimed(k, x) /\ <<k, x>> \in rel /\ ram[k][x].expert # None /\ ~ram[k][x].cold
      BY <2>1 DEF Slots, SwapFrom
    <3>2. ~(k = l /\ x = to)
      BY <1>5, <2>1, CacheConstants DEF NoSwaps
    <3>3. /\ ram'[k][x].expert = ram[k][x].expert
          /\ ram'[k][x].valid = ram[k][x].valid
          /\ ram'[k][x].cold = ram[k][x].cold
      BY <1>b, <3>2
    <3> QED BY <3>1, <3>3 DEF Claimed
  <2>2. CASE i = n /\ swaps'[i] = sw
    <3>1. k = l /\ x = s
      BY <1>3, <2>2
    <3>2. /\ ram'[k][x].expert = e /\ ram'[k][x].valid /\ ~ram'[k][x].cold
      BY <1>0, <1>4, <1>b, <3>1
    <3> QED BY <3>1, <3>2, CacheConstants DEF Claimed
  <2> QED BY <1>7, <2>1, <2>2
<1>10. SwapApart'
  <2> SUFFICES ASSUME NEW i \in 1..Len(swaps'), NEW j \in 1..Len(swaps'),
                      swaps'[i].layer = swaps'[j].layer, swaps'[i].to # None
               PROVE  swaps'[i].to # swaps'[j].from /\ (i # j => swaps'[i].to # swaps'[j].to)
    BY DEF SwapApart
  <2>1. CASE i \in 1..Len(swaps) /\ swaps'[i] = swaps[i] /\ j \in 1..Len(swaps) /\ swaps'[j] = swaps[j]
    BY <2>1 DEF Slots, SwapApart
  <2>2. CASE i \in 1..Len(swaps) /\ swaps'[i] = swaps[i] /\ j = n /\ swaps'[j] = sw
    <3>1. swaps[i].layer = l /\ swaps[i].to \in Slot
      BY <1>3, <2>2, SwapTypes
    <3>2. swaps[i].to # s
      BY <1>0, <2>2, <3>1 DEF Slots, SwapTo
    <3>3. swaps[i].to # to
      BY <1>4, <1>5, <2>2, <3>1, CacheConstants DEF NoSwaps
    <3> QED BY <1>3, <2>2, <3>2, <3>3
  <2>3. CASE i = n /\ swaps'[i] = sw /\ j \in 1..Len(swaps) /\ swaps'[j] = swaps[j]
    <3>1. swaps[j].layer = l /\ to # None
      BY <1>3, <2>3
    <3> QED BY <1>3, <1>5, <2>3, <3>1 DEF NoSwaps
  <2>4. CASE i = n /\ swaps'[i] = sw /\ j = n /\ swaps'[j] = sw
    BY <1>3, <1>4, <2>4
  <2> QED BY <1>7, <2>1, <2>2, <2>3, <2>4
<1> QED BY <1>6, <1>8, <1>9, <1>10 DEF Slots

LEMMA ServePromoteSlots ==
    ASSUME Types, Maps, Slots, NEW e \in Expert, NEW g \in GSlot, NEW pick, NEW r,
           ServePromote(e, g, pick, r), NEW l \in Layer, l = fetch.layer
    PROVE  Slots'
<1> DEFINE s == FindSlot(l, e)
<1>0. /\ fetch \in FetchRec /\ fetch.pc = "serve" /\ fetch.promoted \in Nat
      /\ ~fetch.deferred /\ fetch.reading = None /\ Tail(fetch.todo) \in Seq(Expert)
  BY ServeFacts DEF ServePromote, Types, FetchOK, Slots, HostHolds, FetchRec
<1>1. /\ s \in Slot /\ Promote(l, e, s, g, pick, r) /\ rel' = rel \cup {<<l, s>>}
      /\ fetch' = [fetch EXCEPT !.todo = Tail(@), !.promoted = @ + 1]
      /\ UNCHANGED <<pend, pf>>
  BY SlotTypes DEF ServePromote
<1>2. /\ fetch' \in FetchRec /\ fetch'.layer = fetch.layer /\ fetch'.claims = fetch.claims
      /\ fetch'.next = fetch.next /\ fetch'.lost = fetch.lost /\ fetch'.pc = "serve"
      /\ ~fetch'.deferred /\ fetch'.reading = None
  <2> DEFINE n == fetch.promoted + 1
             todo == Tail(fetch.todo)
  <2>1. n \in Nat /\ todo \in Seq(Expert) /\ fetch' = [fetch EXCEPT !.todo = todo, !.promoted = n]
    BY <1>0, <1>1
  <2> HIDE DEF n, todo
  <2>2. fetch' \in FetchRec
    BY <2>1, FetchEdits
  <2> QED BY <1>0, <2>1, <2>2 DEF FetchRec
<1>3. \A k \in Layer, x \in Slot :
         /\ InPf(k, x)' => InPf(k, x)
         /\ InClaims(k, x)' => InClaims(k, x)
         /\ InLost(k, x)' => InLost(k, x)
         /\ InNext(k, x)' => InNext(k, x)
         /\ InHost(k, x)' => InHost(k, x)
         /\ InHeld(k, x)' => InHeld(k, x)
  <2>1. InFetch' => InFetch
    BY <1>0, <1>2 DEF InFetch
  <2> QED BY <1>0, <1>1, <1>2, <2>1, SameHost
<1>4. fetch.pc \in {"serve", "refill", "warm"} /\ fetch'.pc # "settle"
  BY <1>0, <1>2
<1> HIDE DEF s
<1>5. s = FindSlot(l, e)
  BY DEF s
<1> QED BY <1>1, <1>2, <1>3, <1>4, <1>5, PromoteSlots

LEMMA RefillSlots ==
    ASSUME Types, Maps, Slots, NEW e \in Expert, NEW g \in GSlot, NEW pick, NEW r,
           Refill(e, g, pick, r), NEW l \in Layer, l = fetch.layer
    PROVE  Slots'
<1> DEFINE s == FindSlot(l, e)
<1>0. /\ fetch \in FetchRec /\ fetch.pc \in {"refill", "warm"} /\ fetch.cand \subseteq Expert
      /\ ~fetch.deferred /\ fetch.reading = None
  BY DEF Refill, Types, FetchOK, Slots, HostHolds, FetchRec
<1>1. /\ s \in Slot /\ Promote(l, e, s, g, pick, r) /\ rel' = rel \cup {<<l, s>>}
      /\ fetch' = [fetch EXCEPT !.cand = @ \ {e}]
      /\ UNCHANGED <<pend, pf>>
  BY SlotTypes DEF Refill
<1>2. /\ fetch' \in FetchRec /\ fetch'.layer = fetch.layer /\ fetch'.claims = fetch.claims
      /\ fetch'.next = fetch.next /\ fetch'.lost = fetch.lost /\ fetch'.pc = fetch.pc
      /\ ~fetch'.deferred /\ fetch'.reading = None
  BY <1>0, <1>1, SMTT(30) DEF FetchRec
<1>3. \A k \in Layer, x \in Slot :
         /\ InPf(k, x)' => InPf(k, x)
         /\ InClaims(k, x)' => InClaims(k, x)
         /\ InLost(k, x)' => InLost(k, x)
         /\ InNext(k, x)' => InNext(k, x)
         /\ InHost(k, x)' => InHost(k, x)
         /\ InHeld(k, x)' => InHeld(k, x)
  <2>1. InFetch' => InFetch
    BY <1>0, <1>2 DEF InFetch
  <2> QED BY <1>0, <1>1, <1>2, <2>1, SameHost
<1>4. fetch.pc \in {"serve", "refill", "warm"} /\ fetch'.pc # "settle"
  BY <1>0, <1>2
<1> HIDE DEF s
<1>5. s = FindSlot(l, e)
  BY DEF s
<1> QED BY <1>1, <1>2, <1>3, <1>4, <1>5, PromoteSlots

\* The settle of a swap: the slot it was promoted from and the slot claimed for its
\* victim are given up or mapped, and they are no other swap's, nor anybody's.
LEMMA FinishSwapSlots ==
    ASSUME Types, Maps, Slots, FinishSwap
    PROVE  Slots'
<1> DEFINE D == 1..Len(swaps)
           D2 == 1..Len(swaps')
<1>0. /\ fetch.pc = "settle" /\ UNCHANGED <<fetch, pend, pf, rel>>
      /\ Sw.layer \in Layer /\ Sw.from \in Slot /\ Sw.to \in Slot \cup {None}
      /\ Sw.victim \in Expert \cup {None}
      /\ Held => Sw.to \in Slot
  BY SwapHead
<1>1. /\ Len(swaps') = Len(swaps) - 1 /\ 1 \in D /\ swaps[1] = Sw
      /\ \A i \in D2 : i + 1 \in D /\ i + 1 # 1 /\ swaps'[i] = swaps[i + 1]
      /\ \A i, j \in D2 : i + 1 = j + 1 => i = j
  BY SwapHead, SwapTypes DEF Sw
<1>2. \A k \in Layer, x \in Slot :
         /\ InPf(k, x)' = InPf(k, x) /\ InClaims(k, x)' = InClaims(k, x)
         /\ InLost(k, x)' = InLost(k, x) /\ InNext(k, x)' = InNext(k, x)
         /\ InHost(k, x)' = InHost(k, x) /\ InHeld(k, x)' = InHeld(k, x)
  BY <1>0 DEF InPf, InClaims, InFetch, InLost, InNext, InPend, InHost, InHeld
<1>3. Sw.to # None => /\ ram[Sw.layer][Sw.to].expert = Sw.victim /\ Sw.victim # None
                      /\ ~ram[Sw.layer][Sw.to].valid
                      /\ ~InHost(Sw.layer, Sw.to)
  BY <1>0, <1>1 DEF Slots, SwapTo
<1>4. ~Claimed(Sw.layer, Sw.from)
  BY <1>0, <1>1 DEF Slots, SwapFrom
<1>5. \A i \in D : i # 1 /\ swaps[i].layer = Sw.layer /\ swaps[i].to # None =>
                      swaps[i].to # Sw.from /\ swaps[i].to # Sw.to
  BY <1>1 DEF Slots, SwapApart
<1>6. \A i \in D : swaps[i].layer = Sw.layer /\ Sw.to # None => swaps[i].from # Sw.to
  BY <1>1 DEF Slots, SwapApart
<1> HIDE DEF D, D2
<1>7. \A k \in Layer, x \in Slot :
         \/ ram'[k][x] = ram[k][x]
         \/ k = Sw.layer /\ Held /\ x = Sw.to
         \/ k = Sw.layer /\ x = Sw.from /\ ram'[k][x].expert = None
  BY SwapRam
<1>8. HostHolds'
  <2> SUFFICES ASSUME NEW k \in Layer, NEW x \in Slot
               PROVE  /\ InHeld(k, x)' => Claimed(k, x)'
                      /\ InPf(k, x)' => ~InClaims(k, x)' /\ ~InLost(k, x)' /\ ~InNext(k, x)'
    BY <1>0 DEF HostHolds, Slots
  <2>1. /\ InHeld(k, x) => Claimed(k, x) /\ InHost(k, x)
        /\ InPf(k, x) => ~InClaims(k, x) /\ ~InLost(k, x) /\ ~InNext(k, x)
    BY DEF Slots, HostHolds, InHeld, InHost
  <2>2. InHeld(k, x)' => Claimed(k, x)'
    <3> SUFFICES ASSUME InHeld(k, x) PROVE Claimed(k, x)'
      BY <1>2
    <3>1. ram'[k][x] = ram[k][x]
      <4>1. ~(k = Sw.layer /\ x = Sw.from)
        BY <1>4, <2>1
      <4>2. ~(k = Sw.layer /\ Held /\ x = Sw.to)
        BY <1>3, <2>1, CacheConstants
      <4> QED BY <1>7, <4>1, <4>2
    <3> QED BY <2>1, <3>1 DEF Claimed
  <2> QED BY <1>2, <2>1, <2>2
<1>9. SwapTo'
  <2> SUFFICES ASSUME NEW i \in D2, NEW k \in Layer, NEW x \in Slot,
                      swaps'[i].layer = k, swaps'[i].to = x
               PROVE  /\ ram'[k][x].expert = swaps'[i].victim /\ swaps'[i].victim # None
                      /\ ~ram'[k][x].valid
                      /\ map'[k][swaps'[i].victim] # x
                      /\ ~InHost(k, x)'
    BY DEF SwapTo, D2
  <2>0. i + 1 \in D /\ i + 1 # 1 /\ swaps'[i] = swaps[i + 1]
    BY <1>1
  <2> DEFINE w == swaps[i + 1]
  <2>1. /\ ram[k][x].expert = w.victim /\ w.victim # None
        /\ ~ram[k][x].valid /\ map[k][w.victim] # x /\ ~InHost(k, x)
    BY <2>0 DEF Slots, SwapTo, D
  <2>2. w.victim \in Expert
    BY <2>0, <2>1, SwapTypes DEF D
  <2>3. ~(k = Sw.layer /\ (x = Sw.from \/ x = Sw.to))
    BY <1>5, <2>0, CacheConstants
  <2>4. ram'[k][x] = ram[k][x]
    BY <1>7, <2>3
  <2>5. map'[k][w.victim] # x
    BY <2>1, <2>2, <2>3, SwapMap, CacheConstants
  <2> QED BY <1>2, <2>0, <2>1, <2>4, <2>5
<1>10. SwapFrom'
  <2> SUFFICES ASSUME NEW i \in D2, NEW k \in Layer, NEW x \in Slot,
                      swaps'[i].layer = k, swaps'[i].from = x
               PROVE  ~Claimed(k, x)'
    BY <1>0 DEF SwapFrom, D2
  <2>0. i + 1 \in D /\ swaps'[i] = swaps[i + 1]
    BY <1>1
  <2>1. ~Claimed(k, x)
    BY <2>0 DEF Slots, SwapFrom, D
  <2>2. ~(k = Sw.layer /\ Held /\ x = Sw.to)
    BY <1>6, <2>0 DEF Held
  <2> QED BY <1>7, <2>1, <2>2 DEF Claimed
<1>11. SwapApart'
  <2> SUFFICES ASSUME NEW i \in D2, NEW j \in D2,
                      swaps'[i].layer = swaps'[j].layer, swaps'[i].to # None
               PROVE  swaps'[i].to # swaps'[j].from /\ (i # j => swaps'[i].to # swaps'[j].to)
    BY DEF SwapApart, D2
  <2>1. /\ i + 1 \in D /\ swaps'[i] = swaps[i + 1]
        /\ j + 1 \in D /\ swaps'[j] = swaps[j + 1]
        /\ i + 1 = j + 1 => i = j
    BY <1>1
  <2> QED BY <2>1 DEF Slots, SwapApart, D
<1> QED BY <1>8, <1>9, <1>10, <1>11 DEF Slots

\* warm() takes a slot that nobody has claimed and no upload reads, and gives up a
\* cold copy; neither is a swap's.
LEMMA WarmSlots ==
    ASSUME Types, Slots, NEW l \in Layer, NEW e \in Expert, NEW v \in Slot, Warm(l, e, v)
    PROVE  Slots'
<1> DEFINE s == FindSlot(l, e)
           R == IF s # None /\ ram[l][s].cold
                THEN [ram EXCEPT ![l][s].expert = None, ![l][s].valid = FALSE] ELSE ram
           has == s # None /\ ~ram[l][s].cold
           full == [expert |-> e, valid |-> TRUE, cold |-> FALSE, soa |-> FALSE]
           f == [NoFetch EXCEPT !.pc = "warm", !.layer = l, !.cand = {e}]
<1>0. /\ ram \in [Layer -> [Slot -> RamSlot]] /\ fetch.pc \in {"idle", "warm"} /\ HostHolds
  BY DEF Types, TypeOK, Warm, Slots
<1>1. fetch' = f /\ UNCHANGED <<swaps, pf, pend, rel>>
  BY DEF Warm
<1>2. f.pc = "warm" /\ f.next = None /\ f.deferred = FALSE /\ f.reading = None
  BY DEF NoFetch
<1> HIDE DEF f
<1>3. \A k \in Layer, x \in Slot :
         /\ InPf(k, x)' => InPf(k, x)
         /\ ~InClaims(k, x)' /\ ~InPend(k, x)' /\ ~InLost(k, x)' /\ ~InNext(k, x)'
         /\ InHost(k, x)' => InHost(k, x)
         /\ InHeld(k, x)' => InHeld(k, x) /\ InPf(k, x)
  <2>1. ~InFetch' /\ \A k \in Layer, x \in Slot : ~InNext(k, x)'
    BY <1>1, <1>2 DEF InFetch, InNext
  <2>2. \A k \in Layer, x \in Slot :
           /\ InPf(k, x)' => InPf(k, x)
           /\ ~InClaims(k, x)' /\ ~InPend(k, x)' /\ ~InLost(k, x)'
           /\ InHost(k, x)' => InHost(k, x)
           /\ InHeld(k, x)' => InHeld(k, x)
    BY <1>1, <1>2, <2>1, BareHost
  <2>3. \A k \in Layer, x \in Slot : InHeld(k, x)' => InPf(k, x)'
    BY <1>1, <1>2, <2>1 DEF InHeld
  <2> QED BY <2>1, <2>2, <2>3
<1>4. CASE has
  <2>1. ram' = ram /\ map' = map
    BY <1>4 DEF Warm
  <2> QED BY <1>0, <1>1, <1>2, <1>3, <2>1, QuietSlots
<1>5. CASE ~has
  <2>1. /\ ram' = [R EXCEPT ![l][v] = full] /\ map' = ClaimMap(R, l, v, e)
        /\ ~(R[l][v].expert # None /\ ~R[l][v].valid) /\ <<l, v>> \notin rel
    BY <1>5 DEF Warm
  <2>2. s # None => s \in Slot /\ ram[l][s].valid /\ ram[l][s].cold
    BY <1>5, SlotTypes DEF FindSlot
  <2>3. s # None => NoSwaps(l, s) /\ ~InPf(l, s)
    BY <1>0, <2>2, FreeSlot DEF Claimed
  <2>4. \A k \in Layer, x \in Slot : k # l \/ x # s => R[k][x] = ram[k][x]
    <3> HIDE DEF s
    <3> QED BY <1>0
  <2>5. NoSwaps(l, v) /\ ~InPf(l, v)
    <3>1. CASE v = s
      BY <2>3, <3>1, CacheConstants
    <3>2. CASE v # s
      <4>1. ~Claimed(l, v)
        BY <2>1, <2>4, <3>2 DEF Claimed
      <4> QED BY <1>0, <2>1, <4>1, FreeSlot
    <3> QED BY <3>1, <3>2
  <2>6. R \in [Layer -> [Slot -> RamSlot]]
    <3>1. s # None => [ram[l][s] EXCEPT !.expert = None, !.valid = FALSE] \in RamSlot
      <4>1. s # None => ram[l][s] \in RamSlot
        BY <1>0, <2>2
      <4> QED BY <4>1 DEF RamSlot
    <3> HIDE DEF s
    <3> QED BY <1>0, <2>2, <3>1
  <2>7. \A k \in Layer, x \in Slot : (k = l /\ (x = v \/ x = s)) \/ ram'[k][x] = ram[k][x]
    <3> HIDE DEF R
    <3> QED BY <2>1, <2>4, <2>6
  <2>8. \A k \in Layer, x \in Slot, y \in Expert : map'[k][y] = x => map[k][y] = x \/ (k = l /\ x = v)
    <3>1. map' = ClaimMap(R, l, v, e)
      BY <2>1
    <3> HIDE DEF R
    <3> QED BY <3>1, ClaimedMap
  <2>9. \A k \in Layer, x \in Slot : (NoSwaps(k, x) /\ ~InPf(k, x)) \/
           /\ ram'[k][x] = ram[k][x]
           /\ \A y \in Expert : map'[k][y] = x => map[k][y] = x
    BY <2>3, <2>5, <2>7, <2>8, CacheConstants
  <2> HIDE DEF s, R, has
  <2>10. SwapTo' /\ SwapApart' /\ SwapFrom'
    BY <1>0, <1>1, <1>3, <2>9, KeepSlots
  <2>11. HostHolds'
    BY <1>0, <1>1, <1>2, <1>3, <2>9, KeepHolds
  <2> QED BY <2>10, <2>11 DEF Slots
<1> QED BY <1>4, <1>5

\* fetch_batch() takes empty slots only.
LEMMA FetchBatchSlots ==
    ASSUME Types, Slots, NEW l \in Layer, NEW es \in SUBSET Expert,
           NEW adopt \in Adoptions(l, {e \in es : ~BatchHit(l, e)}), FetchBatch(l, es, adopt)
    PROVE  Slots'
<1> DEFINE into == {e \in DOMAIN adopt : adopt[e] # None}
           hits == {e \in es \ DOMAIN adopt : ~InVram(l, e)}
           of(s) == {e \in into : adopt[e] = s}
           hit(s) == \E e \in hits : map[l][e] = s
           f == [NoFetch EXCEPT !.pc = "batch", !.layer = l, !.need.hot = Cardinality(into)]
<1>0. /\ ram \in [Layer -> [Slot -> RamSlot]] /\ map \in [Layer -> [Expert -> Slot \cup {None}]]
      /\ fetch.pc = "idle" /\ HostHolds
  BY DEF Types, TypeOK, FetchBatch, Slots
<1>1. fetch' = f /\ UNCHANGED <<swaps, pf, pend, rel>>
  BY DEF FetchBatch
<1>2. f.pc = "batch" /\ f.next = None /\ f.deferred = FALSE /\ f.reading = None
  BY DEF NoFetch
<1> HIDE DEF f
<1>3. \A k \in Layer, x \in Slot :
         /\ InPf(k, x)' => InPf(k, x)
         /\ ~InClaims(k, x)' /\ ~InPend(k, x)' /\ ~InLost(k, x)' /\ ~InNext(k, x)'
         /\ InHost(k, x)' => InHost(k, x)
         /\ InHeld(k, x)' => InHeld(k, x) /\ InPf(k, x)
  <2>1. ~InFetch' /\ \A k \in Layer, x \in Slot : ~InNext(k, x)'
    BY <1>1, <1>2 DEF InFetch, InNext
  <2>2. \A k \in Layer, x \in Slot :
           /\ InPf(k, x)' => InPf(k, x)
           /\ ~InClaims(k, x)' /\ ~InPend(k, x)' /\ ~InLost(k, x)'
           /\ InHost(k, x)' => InHost(k, x)
           /\ InHeld(k, x)' => InHeld(k, x)
    BY <1>1, <1>2, <2>1, BareHost
  <2>3. \A k \in Layer, x \in Slot : InHeld(k, x)' => InPf(k, x)'
    BY <1>1, <1>2, <2>1 DEF InHeld
  <2> QED BY <2>1, <2>2, <2>3
<1>4. \A e \in into : e \in Expert /\ adopt[e] \in Slot /\ ram[l][adopt[e]].expert = None
  BY DEF Adoptions
<1>5. \A k \in Layer, e \in Expert : map'[k][e] = IF k = l /\ e \in into THEN adopt[e] ELSE map[k][e]
  <2>1. map' = [map EXCEPT ![l] = [e \in Expert |-> IF e \in into THEN adopt[e] ELSE map[l][e]]]
    BY DEF FetchBatch
  <2> HIDE DEF into
  <2> QED BY <1>0, <2>1
<1>6. ram' = [ram EXCEPT ![l] = [s \in Slot |->
                 IF of(s) # {} THEN [expert |-> CHOOSE e \in of(s) : TRUE, valid |-> TRUE,
                                     cold |-> FALSE, soa |-> FALSE]
                 ELSE IF hit(s) THEN [ram[l][s] EXCEPT !.soa = FALSE] ELSE ram[l][s]]]
  BY DEF FetchBatch
<1>7. \A k \in Layer, x \in Slot : (k = l /\ ram[l][x].expert = None) \/
         /\ ram'[k][x].expert = ram[k][x].expert
         /\ ram'[k][x].valid = ram[k][x].valid
         /\ ram'[k][x].cold = ram[k][x].cold
  <2> TAKE k \in Layer, x \in Slot
  <2>1. ram[k][x] \in RamSlot
    BY <1>0
  <2>2. CASE k = l /\ ram[l][x].expert # None
    <3>1. of(x) = {}
      BY <1>4, <2>2
    <3> HIDE DEF of, hit
    <3>2. ram'[k][x] = ram[k][x] \/ ram'[k][x] = [ram[k][x] EXCEPT !.soa = FALSE]
      BY <1>0, <1>6, <2>2, <3>1
    <3> QED BY <2>1, <3>2 DEF RamSlot
  <2>3. CASE k # l
    <3> HIDE DEF of, hit
    <3> QED BY <1>0, <1>6, <2>3
  <2> QED BY <2>2, <2>3
<1>8. \A k \in Layer, x \in Slot : (NoSwaps(k, x) /\ ~InPf(k, x)) \/
         /\ ram'[k][x].expert = ram[k][x].expert
         /\ ram'[k][x].valid = ram[k][x].valid
         /\ ram'[k][x].cold = ram[k][x].cold
         /\ \A y \in Expert : map'[k][y] = x => map[k][y] = x
  <2> TAKE k \in Layer, x \in Slot
  <2>1. CASE k = l /\ ram[l][x].expert = None
    BY <1>0, <2>1, FreeSlot DEF Claimed
  <2>2. CASE ~(k = l /\ ram[l][x].expert = None)
    <3>1. \A y \in Expert : map'[k][y] = x => map[k][y] = x
      BY <1>4, <1>5, <2>2
    <3> QED BY <1>7, <2>2, <3>1
  <2> QED BY <2>1, <2>2
<1> HIDE DEF into, of, hit, hits
<1>9. SwapTo' /\ SwapApart' /\ SwapFrom'
  BY <1>0, <1>1, <1>3, <1>8, KeepSlots
<1>10. HostHolds'
  BY <1>0, <1>1, <1>2, <1>3, <1>8, KeepHolds
<1> QED BY <1>9, <1>10 DEF Slots

LEMMA StepSlots == Types /\ Maps /\ Slots /\ [Next]_vars => Slots'
<1> SUFFICES ASSUME Types, Maps, Slots, [Next]_vars PROVE Slots'
  OBVIOUS
<1>1. Types'
  BY StepTypes
<1>2. CASE FetchStartAny
  BY <1>2, BareSlots
<1>3. CASE ServeAny
  <2>1. PICK e \in Expert : ServeVram(e) \/ ServeClaimed(e) \/ ServeRam(e) \/ ServeUpgrade(e) \/ ServeFails(e)
    BY <1>3 DEF ServeAny
  <2>2. CASE ServeVram(e) \/ ServeRam(e)
    BY <1>1, <2>2, SameSlots
  <2>3. CASE ServeClaimed(e)
    BY <2>3, ServeClaimedSlots
  <2>4. CASE ServeFails(e)
    BY <2>4, BareSlots
  <2>5. CASE ServeUpgrade(e)
    <3>1. fetch.layer \in Layer /\ FindSlot(fetch.layer, e) # None
      BY <2>5, ServeFacts DEF ServeUpgrade
    <3>2. FindSlot(fetch.layer, e) \in Slot
      BY <3>1, SlotTypes
    <3> QED BY <2>5, <3>1, <3>2, ServeUpgradeSlots
  <2> QED BY <2>1, <2>2, <2>3, <2>4, <2>5
<1>4. CASE ServePromoteAny
  <2>1. PICK e \in Expert, g \in GSlot, pick \in Slot \cup {None}, r \in Ring \cup {None} :
            ServePromote(e, g, pick, r)
    BY <1>4 DEF ServePromoteAny
  <2>2. fetch.layer \in Layer
    BY <2>1, ServeFacts DEF ServePromote
  <2> QED BY <2>1, <2>2, ServePromoteSlots
<1>5. CASE ServeMissAny
  <2>1. PICK e \in Expert, v \in Slot, cold \in BOOLEAN : ServeMiss(e, v, cold)
    BY <1>5 DEF ServeMissAny
  <2>2. fetch.layer \in Layer
    BY <2>1, ServeFacts DEF ServeMiss
  <2> QED BY <2>1, <2>2, ServeMissSlots
<1>6. CASE FetchSubmit \/ RereadAny \/ ComputeStep \/ SideStep \/ DiskAny \/ UNCHANGED vars
  BY <1>1, <1>6, SameSlots
<1>7. CASE SettlePending
  BY <1>1, <1>7, SettlePendingSlots
<1>8. CASE RereadReturns
  BY <1>1, <1>8, RereadReturnsSlots
<1>9. CASE FetchEnd
  BY <1>9, FetchEndSlots
<1>10. CASE SettleLayer
  <2>1. CASE fetch.pc = "ended"
    BY <1>10, <2>1, BareSlots
  <2>2. CASE fetch.pc # "ended"
    BY <1>1, <1>10, <2>2, SameSlots
  <2> QED BY <2>1, <2>2
<1>11. CASE SettleLayerDone
  <2>1. CASE fetch.deferred
    BY <1>1, <1>11, <2>1, SameSlots
  <2>2. CASE ~fetch.deferred
    BY <1>11, <2>2, BareSlots
  <2> QED BY <2>1, <2>2
<1>12. CASE FinishSwap
  BY <1>12, FinishSwapSlots
<1>13. CASE FetchShort \/ SettleFullDone \/ BatchDone \/ RestoreEnds \/ LendAny \/ RefillDone \/ RestoreBegin
  BY <1>13, BareSlots
<1>14. CASE PrefetchFinish \/ PrefetchReap
  BY <1>14, PrefetchFinishSlots, PrefetchReapSlots
<1>15. CASE PrefetchAny
  BY <1>15, PrefetchBeginSlots DEF PrefetchAny
<1>16. CASE RefillAny
  <2>1. PICK e \in Expert, g \in GSlot, pick \in Slot \cup {None}, r \in Ring \cup {None} :
            Refill(e, g, pick, r)
    BY <1>16 DEF RefillAny
  <2>2. fetch.layer \in Layer
    BY <2>1 DEF Refill, Types, FetchOK, AtLayer
  <2> QED BY <2>1, <2>2, RefillSlots
<1>17. CASE WarmAny
  BY <1>17, WarmSlots DEF WarmAny
<1>18. CASE BatchAny
  <2>1. PICK l \in Layer, list \in Lists :
            \E adopt \in Adoptions(l, {e \in ToSet(list) : ~BatchHit(l, e)}) : FetchBatch(l, ToSet(list), adopt)
    BY <1>18 DEF BatchAny
  <2>2. ToSet(list) \in SUBSET Expert
    BY DEF Lists, ToSet
  <2> QED BY <2>1, <2>2, FetchBatchSlots
<1>19. CASE RestoreAny
  BY <1>1, <1>19, PrefetchStartSlots DEF RestoreAny
<1> QED BY <1>2, <1>3, <1>4, <1>5, <1>6, <1>7, <1>8, <1>9, <1>10, <1>11, <1>12, <1>13, <1>14, <1>15,
           <1>16, <1>17, <1>18, <1>19 DEF Next, FetchSteps

LEMMA SlotsAlways == Spec => []Slots
<1>1. Init => Slots
  <2> SUFFICES ASSUME Init PROVE Slots
    OBVIOUS
  <2>1. swaps = <<>> /\ pf = {} /\ fetch.pc = "idle" /\ fetch.next = None /\ ~fetch.deferred /\ fetch.reading = None
    BY DEF Init, NoFetch
  <2>2. SwapTo /\ SwapApart /\ SwapFrom
    BY <2>1 DEF SwapTo, SwapApart, SwapFrom
  <2>3. HostHolds
    BY <2>1 DEF HostHolds, InHeld, InPf, InNext
  <2> QED BY <2>2, <2>3 DEF Slots
<1>2. Types /\ Maps /\ Slots /\ [Next]_vars => Slots'
  BY StepSlots
<1> QED BY <1>1, <1>2, TypesAlways, MapsAlways, PTL DEF Spec

\* The branch of finish_swap() marked "cannot happen: protected" is never taken: a
\* pending swap's slot stays claimed for its victim, whatever the fetches, the
\* speculative reads, a prompt and the restore claim and mark as valid meanwhile.
THEOREM SwapsProtected == Spec => []SwapProtected
<1>1. Types /\ Slots => SwapProtected
  <2> SUFFICES ASSUME Types, Slots, NEW i \in 1..Len(swaps), swaps[i].to # None
               PROVE  /\ Claimed(swaps[i].layer, swaps[i].to)
                      /\ ram[swaps[i].layer][swaps[i].to].expert = swaps[i].victim
    BY DEF SwapProtected
  <2>1. swaps[i].layer \in Layer /\ swaps[i].to \in Slot
    BY SwapTypes
  <2> QED BY <2>1 DEF Slots, SwapTo, Claimed
<1> QED BY <1>1, TypesAlways, SlotsAlways, PTL

-----------------------------------------------------------------------------
\* How the operation in progress and what it keeps go together: claims, a read
\* ahead and completions to wait for belong to the operations that make them.
Phases ==
    /\ fetch.claims # {} => fetch.pc \in {"serve", "begun", "reread"} \/ fetch.deferred
    /\ fetch.next # None => fetch.pc \in {"restore", "refill", "settle"} /\ ~fetch.deferred
    /\ fetch.next # None /\ fetch.pc = "settle" => fetch.full /\ fetch.restore
    /\ fetch.full => fetch.pc = "settle" /\ ~fetch.deferred
    /\ fetch.need.hot # 0 => fetch.pc \in {"begun", "reread", "batch"} \/ fetch.deferred
    /\ fetch.need.cold # 0 => fetch.pc \in {"begun", "reread"} \/ fetch.deferred

\* Expert e is to be read into slot x of layer k: a speculative read, a claim of the
\* fetch, or the restore's read ahead.
Wanted(k, e, x) ==
    \/ <<k, e, x>> \in pf
    \/ k = fetch.layer /\ \E c \in fetch.claims : c[1] = e /\ c[2] = x
    \/ fetch.next # None /\ fetch.next.l = k /\ fetch.next.e = e /\ fetch.next.v = x

WantedHeld ==
    \A k \in Layer, e \in Expert, x \in Slot :
        Wanted(k, e, x) => ram[k][x].expert = e /\ ~ram[k][x].valid /\ ~ram[k][x].soa
ClaimFlags == \A c \in fetch.claims : ram[fetch.layer][c[2]].cold = c[3]
ColdFile == \A k \in Layer, x \in Slot : ram[k][x].cold => ~ram[k][x].soa
MappedWanted ==
    \A k \in Layer, e \in Expert, x \in Slot :
        map[k][e] = x /\ ~ram[k][x].valid => Wanted(k, e, x)

\* What a fetch took over is a speculative read or has landed, and no expert of its
\* list is taken over or claimed twice: nothing is lost, nothing is read again.
PendReads ==
    fetch.pc \in {"serve", "begun"} =>
        \A p \in pend : /\ ram[fetch.layer][p[2]].expert = p[1]
                        /\ ram[fetch.layer][p[2]].valid \/ <<fetch.layer, p[1], p[2]>> \in pf
                        /\ \A c \in fetch.claims : c[1] # p[1]
ListsApart ==
    fetch.pc = "serve" =>
        \A i \in 1..Len(fetch.todo) :
            /\ \A j \in 1..Len(fetch.todo) : fetch.todo[i] = fetch.todo[j] => i = j
            /\ \A c \in fetch.claims : c[1] # fetch.todo[i]
            /\ \A p \in pend : p[1] # fetch.todo[i]

Claims ==
    /\ fetch.pc # "reread"
    /\ WantedHeld /\ ClaimFlags /\ ColdFile /\ MappedWanted /\ PendReads /\ ListsApart

\* Whose the reads on the drive are.
Submitted == fetch.pc = "begun" \/ fetch.deferred
SpecRead(d) == d.spec /\ <<d.l, d.e, d.s>> \in pf /\ d.cold = ram[d.l][d.s].cold
ClaimRead(d) == ~d.spec /\ Submitted /\ d.l = fetch.layer /\ <<d.e, d.s, d.cold>> \in fetch.claims
NextRead(d) ==
    /\ ~d.spec /\ ~d.cold /\ fetch.next # None
    /\ fetch.next.l = d.l /\ fetch.next.e = d.e /\ fetch.next.v = d.s
BatchRead(d) ==
    /\ ~d.spec /\ ~d.cold /\ fetch.pc = "batch" /\ d.l = fetch.layer
    /\ ram[d.l][d.s].expert = d.e /\ ram[d.l][d.s].valid /\ ~ram[d.l][d.s].cold /\ ~ram[d.l][d.s].soa
DiskReads == \A d \in disk : SpecRead(d) \/ ClaimRead(d) \/ NextRead(d) \/ BatchRead(d)

\* A count of completions that is reached means that every read has landed.
HotReads == {d \in disk : ~d.spec /\ ~d.cold}
ColdReads == {d \in disk : ~d.spec /\ d.cold}
Owed == IF fetch.next # None /\ fetch.next.v # None THEN 1 ELSE 0
Counts ==
    /\ IsFiniteSet(HotReads) /\ IsFiniteSet(ColdReads)
    /\ Cardinality(HotReads) + landed.hot <= fetch.need.hot + Owed
    /\ Cardinality(ColdReads) + landed.cold <= fetch.need.cold

-----------------------------------------------------------------------------
\* The steps of an operation that goes on with what it has.
LEMMA GoesOn ==
    ASSUME Types,
           \/ ServePromoteAny \/ RefillAny \/ UNCHANGED vars \/ PrefetchAny \/ PrefetchReap
           \/ ComputeStep \/ SideStep \/ DiskAny \/ FinishSwap \/ RereadAny
           \/ \E e \in Expert : ServeVram(e) \/ ServeClaimed(e) \/ ServeRam(e)
    PROVE  /\ fetch'.pc = fetch.pc /\ fetch'.layer = fetch.layer /\ fetch'.claims = fetch.claims
           /\ fetch'.next = fetch.next /\ fetch'.need = fetch.need /\ fetch'.deferred = fetch.deferred
           /\ fetch'.full = fetch.full /\ fetch'.restore = fetch.restore
<1>0. fetch \in FetchRec
  BY DEF Types, FetchOK
<1>1. CASE PrefetchAny \/ PrefetchReap \/ ComputeStep \/ SideStep \/ DiskAny \/ FinishSwap \/ UNCHANGED vars
  <2>1. CASE FinishSwap
    <3>1. fetch' = fetch
      BY <2>1, SwapHead
    <3> QED BY <3>1
  <2>2. CASE PrefetchAny \/ PrefetchReap
    <3>1. CASE PrefetchAny
      <4>1. fetch' = fetch
        BY <3>1 DEF PrefetchAny, PrefetchBegin
      <4> QED BY <4>1
    <3>2. CASE PrefetchReap
      <4>1. fetch' = fetch
        BY <3>2 DEF PrefetchReap
      <4> QED BY <4>1
    <3> QED BY <2>2, <3>1, <3>2, Zenon
  <2>3. CASE ComputeStep \/ SideStep \/ DiskAny \/ UNCHANGED vars
    <3>1. fetch' = fetch
      BY <2>3 DEF vars, hostv, ComputeStep, SideStep, DiskAny, DiskLand
    <3> QED BY <3>1
  <2> QED BY <1>1, <2>1, <2>2, <2>3, Zenon
<1>2. CASE \E e \in Expert : ServeVram(e) \/ ServeClaimed(e) \/ ServeRam(e)
  <2>1. fetch' = [fetch EXCEPT !.todo = Tail(@)]
    BY <1>2 DEF ServeVram, ServeClaimed, ServeRam, Served
  <2> QED BY <1>0, <2>1 DEF FetchRec
<1>3. CASE RereadAny
  <2>1. PICK p : fetch' = [fetch EXCEPT !.reading = p]
    BY <1>3 DEF RereadAny, Reread
  <2> QED BY <1>0, <2>1 DEF FetchRec
<1>4. CASE ServePromoteAny
  <2>1. fetch' = [fetch EXCEPT !.todo = Tail(@), !.promoted = @ + 1]
    BY <1>4 DEF ServePromoteAny, ServePromote
  <2> QED BY <1>0, <2>1 DEF FetchRec
<1>5. CASE RefillAny
  <2>1. PICK e : fetch' = [fetch EXCEPT !.cand = @ \ {e}]
    BY <1>5 DEF RefillAny, Refill
  <2> QED BY <1>0, <2>1 DEF FetchRec
<1> QED BY <1>1, <1>2, <1>3, <1>4, <1>5, Zenon

\* The steps that begin an operation, or end one, with nothing claimed.
LEMMA BeginsBare ==
    ASSUME Types, HostHolds, Phases,
           \/ FetchStartAny \/ FetchShort \/ LendAny \/ RefillDone \/ SettleFullDone \/ RestoreBegin
           \/ RestoreEnds \/ WarmAny
           \/ \E e \in Expert : ServeFails(e)
           \/ SettleLayer /\ fetch.pc = "ended"
           \/ SettleLayerDone /\ ~fetch.deferred
           \/ FetchEnd /\ fetch.deferred
    PROVE  /\ fetch'.claims = {} /\ fetch'.need.hot = 0 /\ fetch'.need.cold = 0 /\ fetch'.deferred = FALSE
           /\ fetch'.pc \in {"idle", "serve", "settle", "refill", "warm", "restore"}
           /\ fetch'.next = fetch.next
           /\ Phases'
<1>0. /\ fetch \in FetchRec /\ (fetch.deferred => fetch.pc \in {"settle", "idle"})
      /\ fetch.next # None => fetch.pc \in {"restore", "refill", "settle"} /\ ~fetch.deferred
      /\ fetch.next # None /\ fetch.pc = "settle" => fetch.full /\ fetch.restore
  BY DEF Types, FetchOK, HostHolds, Phases
<1>1. CASE FetchShort \/ RestoreEnds \/ (\E e \in Expert : ServeFails(e)) \/ (SettleLayerDone /\ ~fetch.deferred)
           \/ (FetchEnd /\ fetch.deferred)
  <2>1. fetch' = NoFetch
    BY <1>1 DEF FetchShort, RestoreEnds, ServeFails, SettleLayerDone, FetchEnd
  <2>2. fetch.next = None
    BY <1>0, <1>1 DEF FetchShort, Ending, RestoreEnds, ServeFails, Serving, SettleLayerDone, FetchEnd
  <2> QED BY <2>1, <2>2 DEF NoFetch, Phases
<1>2. CASE FetchStartAny
  <2>1. PICK l, t : fetch' = [NoFetch EXCEPT !.pc = "serve", !.layer = l, !.todo = t]
    BY <1>2 DEF FetchStartAny, FetchStart
  <2>2. fetch.next = None
    BY <1>0, <1>2 DEF FetchStartAny, FetchStart
  <2> QED BY <2>1, <2>2 DEF NoFetch, Phases
<1>3. CASE LendAny
  <2>1. \/ \E l : fetch' = [NoFetch EXCEPT !.pc = "settle", !.full = TRUE, !.lend = l]
        \/ \E l, c : fetch' = [NoFetch EXCEPT !.pc = "refill", !.layer = l, !.cand = c]
    BY <1>3 DEF LendAny, LendBegin, LendEnd
  <2>2. fetch.next = None
    BY <1>0, <1>3 DEF LendAny, LendBegin, LendEnd
  <2>3. CASE \E l : fetch' = [NoFetch EXCEPT !.pc = "settle", !.full = TRUE, !.lend = l]
    BY <2>2, <2>3 DEF NoFetch, Phases
  <2>4. CASE \E l, c : fetch' = [NoFetch EXCEPT !.pc = "refill", !.layer = l, !.cand = c]
    BY <2>2, <2>4 DEF NoFetch, Phases
  <2> QED BY <2>1, <2>3, <2>4
<1>4. CASE RefillDone
  <2>1. PICK b : /\ b = (fetch.next # None)
                 /\ fetch' = [NoFetch EXCEPT !.pc = "settle", !.full = TRUE, !.restore = b, !.next = fetch.next]
    BY <1>4 DEF RefillDone
  <2> QED BY <2>1 DEF NoFetch, Phases
<1>5. CASE SettleFullDone
  <2>1. CASE fetch.restore
    <3>1. fetch' = [NoFetch EXCEPT !.pc = "restore", !.next = fetch.next]
      BY <1>5, <2>1 DEF SettleFullDone
    <3> QED BY <3>1 DEF NoFetch, Phases
  <2>2. CASE ~fetch.restore
    <3>1. fetch' = NoFetch
      BY <1>5, <2>2 DEF SettleFullDone
    <3>2. fetch.next = None
      BY <1>0, <1>5, <2>2 DEF SettleFullDone
    <3> QED BY <3>1, <3>2 DEF NoFetch, Phases
  <2> QED BY <2>1, <2>2
<1>6. CASE RestoreBegin
  <2>1. fetch' = [NoFetch EXCEPT !.pc = "settle", !.full = TRUE, !.restore = TRUE] /\ fetch.next = None
    BY <1>0, <1>6 DEF RestoreBegin
  <2> QED BY <2>1 DEF NoFetch, Phases
<1>7. CASE WarmAny
  <2>0. PICK l \in Layer, e \in Expert, v \in Slot : Warm(l, e, v)
    BY <1>7 DEF WarmAny
  <2>1. fetch' = [NoFetch EXCEPT !.pc = "warm", !.layer = l, !.cand = {e}] /\ fetch.pc \in {"idle", "warm"}
    BY <2>0 DEF Warm
  <2>2. fetch.next = None
    BY <1>0, <2>1
  <2> QED BY <2>1, <2>2 DEF NoFetch, Phases
<1>8. CASE SettleLayer /\ fetch.pc = "ended"
  <2>1. fetch' = [NoFetch EXCEPT !.pc = "settle"] /\ fetch.next = None
    BY <1>0, <1>8 DEF SettleLayer
  <2> QED BY <2>1 DEF NoFetch, Phases
<1> QED BY <1>1, <1>2, <1>3, <1>4, <1>5, <1>6, <1>7, <1>8, Zenon

\* Two that go on beside a read ahead or begin with reads of their own.
LEMMA RestoreReads ==
    ASSUME Types, Phases, PrefetchFinish
    PROVE  /\ fetch.pc = "restore" /\ fetch.next # None /\ fetch'.next = None
           /\ fetch'.claims = {} /\ fetch'.need.hot = 0 /\ fetch'.need.cold = 0 /\ fetch'.deferred = FALSE
           /\ fetch'.pc = "refill" /\ fetch'.layer = fetch.next.l /\ fetch'.cand = {fetch.next.e}
           /\ Phases'
<1>1. fetch' = [NoFetch EXCEPT !.pc = "refill", !.layer = fetch.next.l, !.cand = {fetch.next.e}, !.restore = TRUE]
      /\ fetch.pc = "restore" /\ fetch.next # None
  BY DEF PrefetchFinish
<1> QED BY <1>1 DEF NoFetch, Phases

LEMMA BatchReads ==
    ASSUME Types, Phases, NEW l \in Layer, NEW es, NEW adopt, FetchBatch(l, es, adopt)
    PROVE  /\ fetch.pc = "idle" /\ ~fetch.deferred /\ fetch.next = None
           /\ fetch'.pc = "batch" /\ fetch'.layer = l /\ fetch'.claims = {} /\ fetch'.next = None
           /\ fetch'.need = [hot |-> Cardinality({e \in DOMAIN adopt : adopt[e] # None}), cold |-> 0]
           /\ fetch'.deferred = FALSE
           /\ Phases'
<1>1. fetch' = [NoFetch EXCEPT !.pc = "batch", !.layer = l,
                    !.need.hot = Cardinality({e \in DOMAIN adopt : adopt[e] # None})]
      /\ fetch.pc = "idle" /\ ~fetch.deferred
  BY DEF FetchBatch
<1>2. fetch.next = None
  BY <1>1 DEF Phases
<1> QED BY <1>1, <1>2 DEF NoFetch, Phases

LEMMA BatchReaped ==
    ASSUME Types, HostHolds, Phases, BatchDone
    PROVE  /\ fetch.pc = "batch" /\ fetch'.pc = "batched" /\ fetch'.layer = fetch.layer
           /\ fetch'.claims = {} /\ fetch.claims = {} /\ fetch'.next = None /\ fetch.next = None
           /\ fetch'.need = [hot |-> 0, cold |-> 0] /\ fetch'.deferred = FALSE /\ fetch.deferred = FALSE
           /\ Phases'
<1>0. fetch \in FetchRec /\ NoFetch.need = [hot |-> 0, cold |-> 0]
  BY DEF Types, FetchOK, NoFetch
<1>1. fetch.pc = "batch" /\ fetch' = [fetch EXCEPT !.pc = "batched", !.need = [hot |-> 0, cold |-> 0]]
  BY <1>0 DEF BatchDone
<1>2. fetch.claims = {} /\ fetch.next = None /\ ~fetch.deferred /\ ~fetch.full
  BY <1>1 DEF Phases, HostHolds
<1>3. /\ fetch'.pc = "batched" /\ fetch'.layer = fetch.layer /\ fetch'.claims = fetch.claims
      /\ fetch'.next = fetch.next /\ fetch'.need = [hot |-> 0, cold |-> 0]
      /\ fetch'.deferred = fetch.deferred /\ fetch'.full = fetch.full /\ fetch.deferred \in BOOLEAN
  BY <1>0, <1>1 DEF FetchRec
<1> QED BY <1>1, <1>2, <1>3 DEF Phases

\* A claim of the fetch.
LEMMA FetchClaims ==
    ASSUME Types, HostHolds, Phases, NEW e \in Expert, NEW v \in Slot, NEW cold \in BOOLEAN,
           ServeMiss(e, v, cold) \/ (ServeUpgrade(e) /\ v = FindSlot(fetch.layer, e) /\ cold = FALSE)
    PROVE  /\ fetch.pc = "serve" /\ fetch'.pc = "serve" /\ fetch'.layer = fetch.layer
           /\ fetch'.claims = fetch.claims \cup {<<e, v, cold>>} /\ fetch'.todo = Tail(fetch.todo)
           /\ fetch'.next = None /\ fetch.next = None
           /\ fetch'.need = fetch.need /\ fetch'.deferred = FALSE /\ fetch.deferred = FALSE
           /\ Phases'
<1>0. fetch \in FetchRec
  BY DEF Types, FetchOK
<1>1. /\ fetch' = [fetch EXCEPT !.todo = Tail(@), !.claims = @ \cup {<<e, v, cold>>}]
      /\ fetch.pc = "serve"
  BY DEF ServeMiss, ServeUpgrade, Serving
<1>2. fetch.next = None /\ ~fetch.deferred /\ ~fetch.full
  BY <1>1 DEF Phases, HostHolds
<1>3. /\ fetch'.pc = "serve" /\ fetch'.layer = fetch.layer /\ fetch'.claims = fetch.claims \cup {<<e, v, cold>>}
      /\ fetch'.todo = Tail(fetch.todo)
      /\ fetch'.next = fetch.next /\ fetch'.need = fetch.need
      /\ fetch'.deferred = fetch.deferred /\ fetch'.full = fetch.full /\ fetch.deferred \in BOOLEAN
  BY <1>0, <1>1 DEF FetchRec
<1>4. fetch.need.hot = 0 /\ fetch.need.cold = 0
  BY <1>1, <1>2 DEF Phases
<1> QED BY <1>1, <1>2, <1>3, <1>4 DEF Phases

\* The rest of a fetch: its reads are submitted, what it took over has landed, it ends,
LEMMA SubmitMoves ==
    ASSUME Types, Types', HostHolds, Phases, FetchSubmit
    PROVE  /\ fetch.pc = "serve" /\ fetch'.pc = "begun" /\ fetch'.layer = fetch.layer
           /\ fetch'.claims = fetch.claims /\ fetch'.next = None /\ fetch.next = None
           /\ fetch.need.hot = 0 /\ fetch.need.cold = 0
           /\ fetch'.need = [hot |-> Cardinality({c \in fetch.claims : ~c[3]}),
                             cold |-> Cardinality({c \in fetch.claims : c[3]})]
           /\ fetch'.deferred = FALSE /\ fetch.deferred = FALSE
           /\ Phases'
<1> DEFINE n == [hot |-> Cardinality({c \in fetch.claims : ~c[3]}),
                 cold |-> Cardinality({c \in fetch.claims : c[3]})]
<1>0. fetch \in FetchRec
  BY DEF Types, FetchOK
<1>1. fetch.pc = "serve" /\ fetch' = [fetch EXCEPT !.pc = "begun", !.need = n]
  BY DEF FetchSubmit
<1> HIDE DEF n
<1>2. fetch.next = None /\ ~fetch.deferred /\ ~fetch.full /\ fetch.need.hot = 0 /\ fetch.need.cold = 0
  BY <1>1 DEF Phases, HostHolds
<1>3. /\ fetch'.pc = "begun" /\ fetch'.layer = fetch.layer /\ fetch'.claims = fetch.claims
      /\ fetch'.next = fetch.next /\ fetch'.need = n
      /\ fetch'.deferred = fetch.deferred /\ fetch'.full = fetch.full /\ fetch.deferred \in BOOLEAN
  BY <1>0, <1>1 DEF FetchRec
<1>4. Phases'
  BY <1>2, <1>3 DEF Phases
<1> QED BY <1>1, <1>2, <1>3, <1>4 DEF n

LEMMA PendingMoves ==
    ASSUME Types, HostHolds, Phases, SettlePending
    PROVE  /\ fetch.pc = "begun" /\ fetch'.pc \in {"begun", "reread"} /\ fetch'.layer = fetch.layer
           /\ Lost(fetch.layer) = {} => fetch' = fetch
           /\ fetch'.claims = fetch.claims /\ fetch'.next = None /\ fetch.next = None
           /\ fetch'.need = fetch.need /\ fetch'.deferred = FALSE /\ fetch.deferred = FALSE
           /\ Phases'
<1>0. fetch \in FetchRec
  BY DEF Types, FetchOK
<1>1. /\ fetch.pc = "begun"
      /\ fetch' = IF Lost(fetch.layer) = {} THEN fetch
                  ELSE [fetch EXCEPT !.pc = "reread", !.lost = Lost(fetch.layer)]
  BY DEF SettlePending
<1>2. fetch.next = None /\ ~fetch.deferred /\ ~fetch.full
  BY <1>1 DEF Phases, HostHolds
<1>3. /\ fetch'.pc \in {"begun", "reread"} /\ fetch'.layer = fetch.layer /\ fetch'.claims = fetch.claims
      /\ fetch'.next = fetch.next /\ fetch'.need = fetch.need
      /\ fetch'.deferred = fetch.deferred /\ fetch'.full = fetch.full /\ fetch.deferred \in BOOLEAN
  <2>1. CASE Lost(fetch.layer) = {}
    BY <1>0, <1>1, <2>1 DEF FetchRec
  <2>2. CASE Lost(fetch.layer) # {}
    BY <1>0, <1>1, <2>2 DEF FetchRec
  <2> QED BY <2>1, <2>2
<1> QED BY <1>1, <1>2, <1>3 DEF Phases

LEMMA EndMoves ==
    ASSUME Types, HostHolds, Phases, FetchEnd, ~fetch.deferred
    PROVE  /\ fetch.pc = "begun" /\ fetch'.pc = "ended" /\ fetch'.layer = fetch.layer
           /\ fetch'.claims = {} /\ fetch'.next = None /\ fetch.next = None
           /\ fetch'.need = [hot |-> 0, cold |-> 0] /\ fetch'.deferred = FALSE
           /\ Phases'
<1>0. fetch \in FetchRec /\ NoFetch.need = [hot |-> 0, cold |-> 0]
  BY DEF Types, FetchOK, NoFetch
<1>1. /\ fetch.pc = "begun"
      /\ fetch' = [fetch EXCEPT !.pc = "ended", !.claims = {}, !.need = [hot |-> 0, cold |-> 0]]
  BY <1>0 DEF FetchEnd, Ending
<1>2. fetch.next = None /\ ~fetch.full
  BY <1>1 DEF Phases
<1>3. /\ fetch'.pc = "ended" /\ fetch'.layer = fetch.layer /\ fetch'.claims = {}
      /\ fetch'.next = fetch.next /\ fetch'.need = [hot |-> 0, cold |-> 0]
      /\ fetch'.deferred = fetch.deferred /\ fetch'.full = fetch.full /\ fetch.deferred \in BOOLEAN
  BY <1>0, <1>1 DEF FetchRec
<1> QED BY <1>1, <1>2, <1>3 DEF Phases

\* a lost claim is read again, or its end is put off until the layer is settled.
LEMMA RereadMoves ==
    ASSUME Types, HostHolds, Phases, RereadReturns
    PROVE  Phases' /\ fetch.pc = "reread"
<1>0. fetch \in FetchRec
  BY DEF Types, FetchOK
<1>1. /\ fetch.pc = "reread"
      /\ \E t, q : /\ q \in {"begun", "reread"}
                   /\ fetch' = [fetch EXCEPT !.lost = t, !.reading = None, !.pc = q]
  <2>1. \E t, q : /\ q = (IF t = {} THEN "begun" ELSE fetch.pc)
                  /\ fetch' = [fetch EXCEPT !.lost = t, !.reading = None, !.pc = q]
    BY DEF RereadReturns
  <2> QED BY <2>1 DEF RereadReturns
<1>2. fetch.next = None /\ ~fetch.deferred /\ ~fetch.full
  BY <1>1 DEF Phases, HostHolds
<1>3. /\ fetch'.pc \in {"begun", "reread"} /\ fetch'.layer = fetch.layer /\ fetch'.claims = fetch.claims
      /\ fetch'.next = fetch.next /\ fetch'.need = fetch.need
      /\ fetch'.deferred = fetch.deferred /\ fetch'.full = fetch.full /\ fetch.deferred \in BOOLEAN
  BY <1>0, <1>1 DEF FetchRec
<1> QED BY <1>1, <1>2, <1>3 DEF Phases

LEMMA DeferMoves ==
    ASSUME Types, HostHolds, Phases,
           (SettleLayer /\ fetch.pc # "ended") \/ (SettleLayerDone /\ fetch.deferred)
    PROVE  /\ fetch.pc = "begun" \/ fetch.deferred
           /\ fetch'.pc \in {"settle", "idle"} /\ fetch'.deferred = TRUE
           /\ fetch'.layer = fetch.layer /\ fetch'.claims = fetch.claims
           /\ fetch'.next = None /\ fetch.next = None /\ fetch'.need = fetch.need
           /\ Phases'
<1>0. fetch \in FetchRec
  BY DEF Types, FetchOK
<1>1. CASE SettleLayer /\ fetch.pc # "ended"
  <2>1. fetch.pc = "begun" /\ fetch' = [fetch EXCEPT !.pc = "settle", !.deferred = TRUE]
    BY <1>1 DEF SettleLayer
  <2>2. fetch.next = None /\ ~fetch.full
    BY <2>1 DEF Phases
  <2>3. /\ fetch'.pc = "settle" /\ fetch'.layer = fetch.layer /\ fetch'.claims = fetch.claims
        /\ fetch'.next = fetch.next /\ fetch'.need = fetch.need
        /\ fetch'.deferred = TRUE /\ fetch'.full = fetch.full
    BY <1>0, <2>1 DEF FetchRec
  <2> QED BY <2>1, <2>2, <2>3 DEF Phases
<1>2. CASE SettleLayerDone /\ fetch.deferred
  <2>1. fetch' = [fetch EXCEPT !.pc = "idle"] /\ fetch.deferred
    BY <1>2 DEF SettleLayerDone
  <2>2. fetch.next = None /\ ~fetch.full
    BY <2>1 DEF Phases
  <2>3. /\ fetch'.pc = "idle" /\ fetch'.layer = fetch.layer /\ fetch'.claims = fetch.claims
        /\ fetch'.next = fetch.next /\ fetch'.need = fetch.need
        /\ fetch'.deferred = fetch.deferred /\ fetch'.full = fetch.full /\ fetch.deferred \in BOOLEAN
    BY <1>0, <2>1 DEF FetchRec
  <2> QED BY <2>1, <2>2, <2>3 DEF Phases
<1> QED BY <1>1, <1>2

LEMMA StartMoves ==
    ASSUME Types, HostHolds, Phases, NEW l \in Layer, NEW e \in Expert, NEW v, PrefetchStart(l, e, v)
    PROVE  /\ fetch.pc \in {"restore", "refill"} /\ fetch'.pc = fetch.pc /\ fetch'.layer = fetch.layer
           /\ fetch'.claims = {} /\ fetch.claims = {} /\ fetch.next = None
           /\ fetch'.next = [l |-> l, e |-> e, v |-> v] /\ fetch'.need = fetch.need
           /\ fetch.need.hot = 0 /\ fetch.need.cold = 0 /\ fetch'.deferred = FALSE /\ fetch.deferred = FALSE
           /\ Phases'
<1> DEFINE next == [l |-> l, e |-> e, v |-> v]
<1>0. fetch \in FetchRec
  BY DEF Types, FetchOK
<1>1. fetch.pc \in {"restore", "refill"} /\ fetch' = [fetch EXCEPT !.next = next] /\ fetch.next = None
  BY DEF PrefetchStart
<1> HIDE DEF next
<1>2. fetch.claims = {} /\ ~fetch.deferred /\ ~fetch.full /\ fetch.need.hot = 0 /\ fetch.need.cold = 0
  BY <1>1 DEF Phases, HostHolds
<1>3. /\ fetch'.pc = fetch.pc /\ fetch'.layer = fetch.layer /\ fetch'.claims = fetch.claims
      /\ fetch'.next = next /\ fetch'.need = fetch.need
      /\ fetch'.deferred = fetch.deferred /\ fetch'.full = fetch.full /\ fetch.deferred \in BOOLEAN
  BY <1>0, <1>1 DEF FetchRec
<1>4. Phases'
  BY <1>1, <1>2, <1>3 DEF Phases
<1> QED BY <1>1, <1>2, <1>3, <1>4 DEF next

LEMMA StepPhases == Types /\ Maps /\ HostHolds /\ Phases /\ [Next]_vars => Phases'
<1> SUFFICES ASSUME Types, Maps, HostHolds, Phases, [Next]_vars PROVE Phases'
  OBVIOUS
<1>0. Types'
  BY StepTypes
<1>1. CASE \/ ServePromoteAny \/ RefillAny \/ UNCHANGED vars \/ PrefetchAny \/ PrefetchReap
           \/ ComputeStep \/ SideStep \/ DiskAny \/ FinishSwap \/ RereadAny
           \/ \E e \in Expert : ServeVram(e) \/ ServeClaimed(e) \/ ServeRam(e)
  BY <1>1, GoesOn DEF Phases
<1>2. CASE \/ FetchStartAny \/ FetchShort \/ LendAny \/ RefillDone \/ SettleFullDone \/ RestoreBegin
           \/ RestoreEnds \/ WarmAny
           \/ \E e \in Expert : ServeFails(e)
           \/ SettleLayer /\ fetch.pc = "ended"
           \/ SettleLayerDone /\ ~fetch.deferred
           \/ FetchEnd /\ fetch.deferred
  BY <1>2, BeginsBare
<1>3. CASE PrefetchFinish \/ BatchDone \/ FetchSubmit \/ SettlePending \/ RereadReturns
           \/ (FetchEnd /\ ~fetch.deferred)
           \/ (SettleLayer /\ fetch.pc # "ended") \/ (SettleLayerDone /\ fetch.deferred)
  BY <1>0, <1>3, RestoreReads, BatchReaped, SubmitMoves, PendingMoves, RereadMoves, EndMoves, DeferMoves
<1>4. CASE BatchAny
  BY <1>4, BatchReads DEF BatchAny
<1>5. CASE RestoreAny
  BY <1>5, StartMoves DEF RestoreAny
<1>6. CASE ServeMissAny
  BY <1>6, FetchClaims DEF ServeMissAny
<1>7. CASE \E e \in Expert : ServeUpgrade(e)
  <2>1. PICK e \in Expert : ServeUpgrade(e)
    BY <1>7
  <2>2. FindSlot(fetch.layer, e) \in Slot
    BY <2>1, ServeFacts, SlotTypes DEF ServeUpgrade
  <2> QED BY <2>1, <2>2, FetchClaims
<1> QED BY <1>1, <1>2, <1>3, <1>4, <1>5, <1>6, <1>7 DEF Next, FetchSteps, ServeAny

LEMMA PhasesAlways == Spec => []Phases
<1>1. Init => Phases
  BY DEF Init, NoFetch, Phases
<1>2. Types /\ Maps /\ HostHolds /\ Phases /\ [Next]_vars => Phases'
  BY StepPhases
<1>3. Slots => HostHolds
  BY DEF Slots
<1> QED BY <1>1, <1>2, <1>3, TypesAlways, MapsAlways, SlotsAlways, PTL DEF Spec

-----------------------------------------------------------------------------
\* What is wanted is claimed, and a slot the host will mark as valid.
LEMMA WantedFacts ==
    ASSUME Types, Phases, WantedHeld, NEW k \in Layer, NEW e \in Expert, NEW x \in Slot, Wanted(k, e, x)
    PROVE  /\ Claimed(k, x) /\ InHost(k, x)
           /\ ram[k][x].expert = e /\ ~ram[k][x].valid /\ ~ram[k][x].soa
<1>1. ram[k][x].expert = e /\ ~ram[k][x].valid /\ ~ram[k][x].soa
  BY DEF WantedHeld
<1>2. e # None
  BY CacheConstants
<1>3. InPf(k, x) \/ InClaims(k, x) \/ InNext(k, x)
  BY DEF Wanted, InPf, InClaims, InNext, InFetch, Phases
<1> QED BY <1>1, <1>2, <1>3 DEF Claimed, InHost

\* A slot's entry is kept, up to the layout.
Same(k, x) ==
    /\ ram'[k][x].expert = ram[k][x].expert /\ ram'[k][x].valid = ram[k][x].valid
    /\ ram'[k][x].cold = ram[k][x].cold /\ (ram'[k][x].soa => ram[k][x].soa)

\* A step that wants no more, or what it claims, and gives up what it has marked as valid.
LEMMA KeepClaims ==
    ASSUME Types, Types', Phases, WantedHeld, ClaimFlags, ColdFile, MappedWanted,
           \A k \in Layer, e \in Expert, x \in Slot : Wanted(k, e, x)' /\ ~Wanted(k, e, x) =>
               ram'[k][x].expert = e /\ ~ram'[k][x].valid /\ ~ram'[k][x].soa,
           \A k \in Layer, e \in Expert, x \in Slot : Wanted(k, e, x) =>
               IF Wanted(k, e, x)' THEN Same(k, x) ELSE ram'[k][x].valid,
           \A k \in Layer, x \in Slot, y \in Expert : map'[k][y] = x /\ ~ram'[k][x].valid =>
               (map[k][y] = x /\ ~ram[k][x].valid) \/ Wanted(k, y, x)',
           \A k \in Layer, x \in Slot : Same(k, x) \/ ~ram'[k][x].cold \/ ~ram'[k][x].soa,
           \A c \in fetch'.claims : (c \in fetch.claims /\ fetch'.layer = fetch.layer /\ fetch.layer \in Layer)
                                    \/ ram'[fetch'.layer][c[2]].cold = c[3]
    PROVE  WantedHeld' /\ ClaimFlags' /\ ColdFile' /\ MappedWanted'
<1>1. WantedHeld'
  <2> SUFFICES ASSUME NEW k \in Layer, NEW e \in Expert, NEW x \in Slot, Wanted(k, e, x)'
               PROVE  ram'[k][x].expert = e /\ ~ram'[k][x].valid /\ ~ram'[k][x].soa
    BY DEF WantedHeld
  <2>1. CASE Wanted(k, e, x)
    <3>1. Same(k, x)
      BY <2>1
    <3>2. ram[k][x].expert = e /\ ~ram[k][x].valid /\ ~ram[k][x].soa
      BY <2>1, WantedFacts
    <3> QED BY <3>1, <3>2 DEF Same
  <2> QED BY <2>1
<1>2. ClaimFlags'
  <2> SUFFICES ASSUME NEW c \in fetch'.claims, c \in fetch.claims, fetch'.layer = fetch.layer, fetch.layer \in Layer
               PROVE  ram'[fetch'.layer][c[2]].cold = c[3]
    BY DEF ClaimFlags
  <2>1. c[1] \in Expert /\ c[2] \in Slot
    BY DEF Types, FetchOK, FetchRec
  <2>2. Wanted(fetch.layer, c[1], c[2]) /\ Wanted(fetch.layer, c[1], c[2])'
    BY DEF Wanted
  <2>3. Same(fetch.layer, c[2])
    BY <2>1, <2>2
  <2> QED BY <2>3 DEF Same, ClaimFlags
<1>3. ColdFile'
  BY DEF ColdFile, Same
<1>4. MappedWanted'
  <2> SUFFICES ASSUME NEW k \in Layer, NEW e \in Expert, NEW x \in Slot, map'[k][e] = x, ~ram'[k][x].valid
               PROVE  Wanted(k, e, x)'
    BY DEF MappedWanted
  <2>1. CASE map[k][e] = x /\ ~ram[k][x].valid
    <3>1. Wanted(k, e, x)
      BY <2>1 DEF MappedWanted
    <3> QED BY <3>1
  <2> QED BY <2>1
<1> QED BY <1>1, <1>2, <1>3, <1>4

\* A step that wants the same and keeps the entries.
LEMMA SameClaims ==
    ASSUME Types, Types', Phases, WantedHeld, ClaimFlags, ColdFile, MappedWanted,
           map' = map, pf' = pf, fetch'.next = fetch.next,
           (fetch'.claims = fetch.claims /\ fetch'.layer = fetch.layer) \/ (fetch.claims = {} /\ fetch'.claims = {}),
           \A k \in Layer, x \in Slot : Same(k, x)
    PROVE  WantedHeld' /\ ClaimFlags' /\ ColdFile' /\ MappedWanted'
<1>1. \A k \in Layer, e \in Expert, x \in Slot : Wanted(k, e, x)' <=> Wanted(k, e, x)
  BY DEF Wanted
<1>2. \A k \in Layer, x \in Slot, y \in Expert : map'[k][y] = x /\ ~ram'[k][x].valid =>
          map[k][y] = x /\ ~ram[k][x].valid
  BY DEF Same
<1>3. fetch.claims # {} => fetch.layer \in Layer
  BY DEF Phases, Types, FetchOK, AtLayer
<1>4. \A c \in fetch'.claims : c \in fetch.claims /\ fetch'.layer = fetch.layer /\ fetch.layer \in Layer
  BY <1>3
<1> QED BY <1>1, <1>2, <1>4, KeepClaims

\* The steps that mark nothing as valid and claim nothing.
LEMMA QuietRam ==
    ASSUME \/ ComputeStep \/ SideStep \/ DiskAny \/ UNCHANGED vars
           \/ FetchStartAny \/ LendAny \/ RefillDone \/ SettleFullDone \/ RestoreBegin \/ RestoreEnds
           \/ FetchSubmit \/ BatchDone \/ SettleLayer \/ SettleLayerDone
           \/ \E e \in Expert : ServeVram(e) \/ ServeClaimed(e)
    PROVE  ram' = ram /\ map' = map /\ pf' = pf
<1>1. CASE ComputeStep \/ SideStep \/ DiskAny \/ UNCHANGED vars
  BY <1>1 DEF ComputeStep, SideStep, DiskAny, DiskLand, vars, tables, hostv
<1>2. CASE FetchStartAny \/ LendAny \/ RefillDone \/ SettleFullDone
  <2>1. CASE FetchStartAny
    BY <2>1 DEF FetchStartAny, FetchStart
  <2>2. CASE LendAny
    BY <2>2 DEF LendAny, LendBegin, LendEnd, tables
  <2>3. CASE RefillDone \/ SettleFullDone
    BY <2>3 DEF RefillDone, SettleFullDone, tables
  <2> QED BY <1>2, <2>1, <2>2, <2>3, Zenon
<1>3. CASE RestoreBegin \/ RestoreEnds \/ FetchSubmit \/ BatchDone \/ SettleLayer \/ SettleLayerDone
  BY <1>3 DEF RestoreBegin, RestoreEnds, FetchSubmit, BatchDone, SettleLayer, SettleLayerDone, tables
<1>4. CASE \E e \in Expert : ServeVram(e) \/ ServeClaimed(e)
  BY <1>4 DEF ServeVram, ServeClaimed
<1> QED BY <1>1, <1>2, <1>3, <1>4, Zenon

LEMMA QuietClaims ==
    ASSUME Types, Types', Slots, Phases, WantedHeld, ClaimFlags, ColdFile, MappedWanted, failed = 0, failed' = 0,
           \/ ComputeStep \/ SideStep \/ DiskAny \/ UNCHANGED vars
           \/ FetchStartAny \/ LendAny \/ RefillDone \/ SettleFullDone \/ RestoreBegin \/ RestoreEnds
           \/ FetchSubmit \/ BatchDone \/ SettleLayer \/ SettleLayerDone
           \/ \E e \in Expert : ServeVram(e) \/ ServeClaimed(e)
    PROVE  WantedHeld' /\ ClaimFlags' /\ ColdFile' /\ MappedWanted'
<1>1. ram' = ram /\ map' = map /\ pf' = pf
  BY QuietRam
<1>2. \A k \in Layer, x \in Slot : Same(k, x)
  BY <1>1 DEF Same
<1>3. HostHolds
  BY DEF Slots
<1>4. /\ fetch'.next = fetch.next
      /\ (fetch'.claims = fetch.claims /\ fetch'.layer = fetch.layer) \/ (fetch.claims = {} /\ fetch'.claims = {})
  <2>1. CASE ComputeStep \/ SideStep \/ DiskAny \/ UNCHANGED vars
             \/ \E e \in Expert : ServeVram(e) \/ ServeClaimed(e)
    BY <2>1, GoesOn
  <2>2. CASE FetchSubmit \/ BatchDone \/ (SettleLayer /\ fetch.pc # "ended") \/ (SettleLayerDone /\ fetch.deferred)
    BY <1>3, <2>2, SubmitMoves, BatchReaped, DeferMoves
  <2>3. CASE \/ FetchStartAny \/ LendAny \/ RefillDone \/ SettleFullDone \/ RestoreBegin \/ RestoreEnds
             \/ SettleLayer /\ fetch.pc = "ended"
             \/ SettleLayerDone /\ ~fetch.deferred
    <3>1. fetch'.next = fetch.next /\ fetch'.claims = {}
      BY <1>3, <2>3, BeginsBare
    <3>2. fetch.claims = {}
      <4>1. CASE FetchStartAny \/ LendAny
        BY <4>1 DEF FetchStartAny, FetchStart, LendAny, LendBegin, LendEnd, Phases
      <4>2. CASE RefillDone \/ SettleFullDone \/ RestoreBegin \/ RestoreEnds
        BY <1>3, <4>2 DEF RefillDone, SettleFullDone, RestoreBegin, RestoreEnds, Phases, HostHolds
      <4>3. CASE (SettleLayer /\ fetch.pc = "ended") \/ (SettleLayerDone /\ ~fetch.deferred)
        BY <1>3, <4>3 DEF SettleLayerDone, Phases, HostHolds
      <4> QED BY <2>3, <4>1, <4>2, <4>3, Zenon
    <3> QED BY <3>1, <3>2
  <2> QED BY <2>1, <2>2, <2>3
<1> QED BY <1>1, <1>2, <1>4, SameClaims

\* A RAM hit: the slot's layout becomes the file's.
LEMMA ServedRam ==
    ASSUME Types, NEW e \in Expert, ServeRam(e), NEW k \in Layer, NEW x \in Slot
    PROVE  /\ Same(k, x)
           /\ ram'[k][x].soa = (ram[k][x].soa /\ ~(k = fetch.layer /\ x = FindSlot(fetch.layer, e)))
<1>1. /\ ram \in [Layer -> [Slot -> RamSlot]] /\ fetch.layer \in Layer /\ FindSlot(fetch.layer, e) \in Slot
      /\ ram' = [ram EXCEPT ![fetch.layer][FindSlot(fetch.layer, e)].soa = FALSE]
  BY ServeFacts, SlotTypes DEF ServeRam, Types, TypeOK
<1>2. ram[k][x] \in RamSlot
  BY <1>1
<1>3. ram'[k][x] = IF k = fetch.layer /\ x = FindSlot(fetch.layer, e) THEN [ram[k][x] EXCEPT !.soa = FALSE] ELSE ram[k][x]
  BY <1>1
<1> QED BY <1>2, <1>3 DEF RamSlot, Same

LEMMA ServeRamClaims ==
    ASSUME Types, Types', Phases, WantedHeld, ClaimFlags, ColdFile, MappedWanted, NEW e \in Expert, ServeRam(e)
    PROVE  WantedHeld' /\ ClaimFlags' /\ ColdFile' /\ MappedWanted'
<1>1. map' = map /\ pf' = pf
  BY DEF ServeRam
<1>2. fetch'.next = fetch.next /\ fetch'.claims = fetch.claims /\ fetch'.layer = fetch.layer
  BY GoesOn
<1>3. \A k \in Layer, x \in Slot : Same(k, x)
  BY ServedRam
<1> QED BY <1>1, <1>2, <1>3, SameClaims

\* What a promotion does to the layouts.
LEMMA PromoteLayouts ==
    ASSUME Types, Maps, NEW l \in Layer, NEW e \in Expert, NEW s \in Slot, NEW g \in GSlot,
           NEW pick, NEW r, Promote(l, e, s, g, pick, r), NEW to, to = IF pick = s THEN None ELSE pick,
           NEW k \in Layer, NEW x \in Slot
    PROVE  /\ k = l /\ x = to => ~ram'[k][x].cold /\ ~ram'[k][x].soa
           /\ ~(k = l /\ x = to) =>
                 /\ Same(k, x)
                 /\ ram'[k][x].soa = (ram[k][x].soa /\ ~(k = l /\ x = s /\ pick = s))
<1>1. ram \in [Layer -> [Slot -> RamSlot]] /\ ram[k][x] \in RamSlot
  BY DEF Types, TypeOK
<1>2. to \in Slot \cup {None} /\ to # s
  BY PromoteTypes, CacheConstants
<1>3. ram' = IF to # None THEN [ram EXCEPT ![l][to] = [Empty EXCEPT !.expert = vram[l][g]]]
             ELSE IF pick = s THEN [ram EXCEPT ![l][s].soa = FALSE] ELSE ram
  BY DEF Promote
<1>4. CASE to # None
  <2>1. k = l /\ x = to => ram'[k][x] = [Empty EXCEPT !.expert = vram[l][g]]
    BY <1>1, <1>2, <1>3, <1>4
  <2>2. ~(k = l /\ x = to) => ram'[k][x] = ram[k][x]
    BY <1>1, <1>2, <1>3, <1>4
  <2>3. pick # s
    BY <1>4
  <2>4. k = l /\ x = to => ~ram'[k][x].cold /\ ~ram'[k][x].soa
    BY <2>1 DEF Empty
  <2> QED BY <1>1, <2>2, <2>3, <2>4 DEF Same, RamSlot
<1>5. CASE to = None
  <2>1. ram'[k][x] = IF k = l /\ x = s /\ pick = s THEN [ram[k][x] EXCEPT !.soa = FALSE] ELSE ram[k][x]
    BY <1>1, <1>3, <1>5
  <2>2. x # to
    BY <1>5, CacheConstants
  <2> QED BY <1>1, <2>1, <2>2 DEF Same, RamSlot
<1> QED BY <1>4, <1>5

LEMMA PromoteClaims ==
    ASSUME Types, Types', Maps, Phases, WantedHeld, ClaimFlags, ColdFile, MappedWanted,
           NEW l \in Layer, NEW e \in Expert, NEW s \in Slot, NEW g \in GSlot,
           NEW pick, NEW r, Promote(l, e, s, g, pick, r), pf' = pf,
           fetch'.next = fetch.next, fetch'.claims = fetch.claims, fetch'.layer = fetch.layer
    PROVE  WantedHeld' /\ ClaimFlags' /\ ColdFile' /\ MappedWanted'
<1>a. PICK to : to = IF pick = s THEN None ELSE pick
  OBVIOUS
<1>1. to # None => ~Claimed(l, to)
  BY <1>a, PromoteEntries
<1>2. \A k \in Layer, x \in Slot : /\ Same(k, x) \/ (~ram'[k][x].cold /\ ~ram'[k][x].soa)
                                   /\ ~(k = l /\ x = to) => Same(k, x)
  BY <1>a, PromoteLayouts
<1>3. \A k \in Layer, e1 \in Expert, x \in Slot : Wanted(k, e1, x)' <=> Wanted(k, e1, x)
  BY DEF Wanted
<1>4. \A k \in Layer, e1 \in Expert, x \in Slot : Wanted(k, e1, x) => Same(k, x)
  BY <1>1, <1>2, WantedFacts, CacheConstants
<1>5. \A k \in Layer, x \in Slot, y \in Expert : map'[k][y] = x => map[k][y] = x /\ ~(k = l /\ x = to)
  BY <1>a, PromoteUnmaps DEF Unmaps
<1>6. \A k \in Layer, x \in Slot, y \in Expert : map'[k][y] = x /\ ~ram'[k][x].valid =>
          map[k][y] = x /\ ~ram[k][x].valid
  BY <1>2, <1>5 DEF Same
<1>7. fetch.claims # {} => fetch.layer \in Layer
  BY DEF Phases, Types, FetchOK, AtLayer
<1>8. \A c \in fetch'.claims : c \in fetch.claims /\ fetch'.layer = fetch.layer /\ fetch.layer \in Layer
  BY <1>7
<1> QED BY <1>2, <1>3, <1>4, <1>6, <1>8, KeepClaims

\* What the settle of a swap leaves in RAM.
LEMMA SwapEntry ==
    ASSUME Types, FinishSwap, NEW k \in Layer, NEW x \in Slot
    PROVE  /\ Lands /\ k = Sw.layer /\ x = Sw.to =>
                 /\ ram'[k][x].expert = Sw.victim /\ ram'[k][x].valid
                 /\ ~ram'[k][x].cold /\ ram'[k][x].soa
           /\ k = Sw.layer /\ ((Held /\ ~Lands /\ x = Sw.to) \/ (Away /\ x = Sw.from /\ ~(Lands /\ x = Sw.to))) =>
                 /\ ram'[k][x].expert = None /\ ~ram'[k][x].valid
                 /\ ram'[k][x].cold = ram[k][x].cold /\ ~ram'[k][x].soa
           /\ ~(k = Sw.layer /\ ((Held /\ x = Sw.to) \/ (Away /\ x = Sw.from))) => ram'[k][x] = ram[k][x]
<1>1. /\ Sw.layer \in Layer /\ Sw.from \in Slot /\ (Held => Sw.to \in Slot)
      /\ ram \in [Layer -> [Slot -> RamSlot]] /\ map \in [Layer -> [Expert -> Slot \cup {None}]]
      /\ free \in [Layer -> Seq(Slot)]
  BY SwapHead DEF Types, TypeOK
<1>2. ram' = IF Lands
             THEN [AwayRam EXCEPT ![Sw.layer][Sw.to] =
                      [expert |-> Sw.victim, valid |-> TRUE, cold |-> FALSE, soa |-> TRUE]]
             ELSE IF Held THEN ReleasedRam(AwayRam, Sw.layer, Sw.to) ELSE AwayRam
  BY DEF FinishSwap, Sw, Away, AwayRam, AwayMap, Held, Lands
<1>3. AwayRam \in [Layer -> [Slot -> RamSlot]]
  BY <1>1, ReleaseTypes DEF AwayRam
<1>4. AwayRam[k][x] = IF Away /\ k = Sw.layer /\ x = Sw.from
                      THEN [Empty EXCEPT !.cold = ram[k][x].cold] ELSE ram[k][x]
  BY <1>1 DEF AwayRam, ReleasedRam
<1>5. Lands => Held
  BY DEF Lands
<1> HIDE DEF Sw, Away, AwayRam, Held, Lands
<1>6. ram'[k][x] = IF Lands /\ k = Sw.layer /\ x = Sw.to
                   THEN [expert |-> Sw.victim, valid |-> TRUE, cold |-> FALSE, soa |-> TRUE]
                   ELSE IF Held /\ ~Lands /\ k = Sw.layer /\ x = Sw.to
                   THEN [Empty EXCEPT !.cold = AwayRam[k][x].cold] ELSE AwayRam[k][x]
  BY <1>1, <1>2, <1>3, <1>5 DEF ReleasedRam
<1>7. \A c : /\ [Empty EXCEPT !.cold = c].expert = None /\ ~[Empty EXCEPT !.cold = c].valid
             /\ [Empty EXCEPT !.cold = c].cold = c /\ ~[Empty EXCEPT !.cold = c].soa
  BY DEF Empty
<1>8. AwayRam[k][x].cold = ram[k][x].cold
  BY <1>4, <1>7
<1>9. CASE Lands /\ k = Sw.layer /\ x = Sw.to
  <2>1. ram'[k][x] = [expert |-> Sw.victim, valid |-> TRUE, cold |-> FALSE, soa |-> TRUE]
    BY <1>6, <1>9
  <2>2. ram'[k][x].expert = Sw.victim /\ ram'[k][x].valid /\ ~ram'[k][x].cold /\ ram'[k][x].soa
    BY <2>1
  <2> QED BY <1>5, <1>9, <2>2
<1>10. CASE ~(Lands /\ k = Sw.layer /\ x = Sw.to)
  <2>1. CASE Held /\ ~Lands /\ k = Sw.layer /\ x = Sw.to
    <3>1. ram'[k][x] = [Empty EXCEPT !.cold = AwayRam[k][x].cold]
      BY <1>6, <2>1
    <3> QED BY <1>7, <1>8, <2>1, <3>1
  <2>2. CASE ~(Held /\ k = Sw.layer /\ x = Sw.to)
    <3>1. ram'[k][x] = AwayRam[k][x]
      BY <1>5, <1>6, <2>2
    <3>2. CASE Away /\ k = Sw.layer /\ x = Sw.from
      <4>1. ram'[k][x] = [Empty EXCEPT !.cold = ram[k][x].cold]
        BY <1>4, <3>1, <3>2
      <4> QED BY <1>7, <1>10, <2>2, <3>2, <4>1
    <3>3. CASE ~(Away /\ k = Sw.layer /\ x = Sw.from)
      BY <1>4, <1>10, <2>2, <3>1, <3>3
    <3> QED BY <3>2, <3>3
  <2> QED BY <1>5, <1>10, <2>1, <2>2
<1> QED BY <1>9, <1>10

\* The slots of the swap being settled.
LEMMA SwapSlots ==
    ASSUME Types, Slots, FinishSwap
    PROVE  /\ ~Claimed(Sw.layer, Sw.from)
           /\ Sw.to # None => /\ Sw.to \in Slot /\ Claimed(Sw.layer, Sw.to) /\ ~InHost(Sw.layer, Sw.to)
                              /\ Sw.to # Sw.from /\ ram[Sw.layer][Sw.to].expert = Sw.victim
                              /\ \A y \in Expert : map[Sw.layer][y] = Sw.to => y # Sw.victim
<1>1. /\ swaps # <<>> /\ swaps \in Seq(SwapRec) /\ Sw.layer \in Layer /\ Sw.from \in Slot
      /\ Sw.to \in Slot \cup {None}
  BY SwapHead
<1>2. 1 \in 1..Len(swaps) /\ Sw = swaps[1]
  BY <1>1 DEF Sw
<1>3. ~Claimed(Sw.layer, Sw.from)
  BY <1>1, <1>2 DEF Slots, SwapFrom
<1>4. Sw.to # None => /\ ram[Sw.layer][Sw.to].expert = Sw.victim /\ Sw.victim # None
                      /\ ~ram[Sw.layer][Sw.to].valid /\ map[Sw.layer][Sw.victim] # Sw.to
                      /\ ~InHost(Sw.layer, Sw.to)
  BY <1>1, <1>2 DEF Slots, SwapTo
<1>5. Sw.to # None => Sw.to # Sw.from
  BY <1>2 DEF Slots, SwapApart
<1> QED BY <1>1, <1>3, <1>4, <1>5 DEF Claimed

LEMMA FinishSwapClaims ==
    ASSUME Types, Types', Maps, Maps', Slots, Phases, WantedHeld, ClaimFlags, ColdFile, MappedWanted, FinishSwap
    PROVE  WantedHeld' /\ ClaimFlags' /\ ColdFile' /\ MappedWanted'
<1>1. fetch' = fetch /\ pf' = pf /\ (Held => Sw.to # None) /\ (Lands => Held)
  BY SwapHead DEF Held, Lands
<1>2. /\ ~Claimed(Sw.layer, Sw.from)
      /\ Held => ~InHost(Sw.layer, Sw.to)
  BY <1>1, SwapSlots
<1> HIDE DEF Sw, Held, Lands, Away
<1>3. \A k \in Layer, x \in Slot :
          \/ ram'[k][x] = ram[k][x]
          \/ k = Sw.layer /\ x = Sw.to /\ Held /\ ram'[k][x].valid /\ ~ram'[k][x].cold
          \/ /\ k = Sw.layer /\ ((Held /\ x = Sw.to) \/ (Away /\ x = Sw.from))
             /\ ram'[k][x].expert = None /\ ~ram'[k][x].soa
  BY <1>1, SwapEntry
<1>4. \A k \in Layer, e \in Expert, x \in Slot : Wanted(k, e, x)' <=> Wanted(k, e, x)
  BY <1>1 DEF Wanted
<1>5. \A k \in Layer, e \in Expert, x \in Slot : Wanted(k, e, x) => Same(k, x)
  <2> SUFFICES ASSUME NEW k \in Layer, NEW e \in Expert, NEW x \in Slot, Wanted(k, e, x) PROVE Same(k, x)
    OBVIOUS
  <2>1. Claimed(k, x) /\ InHost(k, x)
    BY WantedFacts
  <2>2. ram'[k][x] = ram[k][x]
    BY <1>2, <1>3, <2>1
  <2> QED BY <2>2 DEF Same
<1>6. \A k \in Layer, x \in Slot : Same(k, x) \/ ~ram'[k][x].cold \/ ~ram'[k][x].soa
  <2> TAKE k \in Layer, x \in Slot
  <2>1. ram'[k][x] = ram[k][x] \/ ~ram'[k][x].cold \/ ~ram'[k][x].soa
    BY <1>3
  <2> QED BY <2>1 DEF Same
<1>7. \A k \in Layer, x \in Slot, y \in Expert : map'[k][y] = x /\ ~ram'[k][x].valid =>
          map[k][y] = x /\ ~ram[k][x].valid
  <2> SUFFICES ASSUME NEW k \in Layer, NEW x \in Slot, NEW y \in Expert, map'[k][y] = x, ~ram'[k][x].valid
               PROVE  map[k][y] = x /\ ~ram[k][x].valid
    OBVIOUS
  <2>1. ram'[k][x].expert = y /\ y # None /\ x # None
    BY CacheConstants DEF Maps, RamMaps
  <2>2. ram'[k][x] = ram[k][x]
    <3>1. \/ ram'[k][x] = ram[k][x]
          \/ ram'[k][x].valid
          \/ ram'[k][x].expert = None
      BY <1>3
    <3> QED BY <2>1, <3>1
  <2>3. map'[k][y] \in {map[k][y], None} \/ (Lands /\ k = Sw.layer /\ y = Sw.victim /\ map'[k][y] = Sw.to)
    BY SwapMap
  <2>4. ~(Lands /\ k = Sw.layer /\ x = Sw.to)
    <3>1. ASSUME Lands, k = Sw.layer, x = Sw.to PROVE FALSE
      BY <3>1, SwapEntry
    <3> QED BY <3>1
  <2> QED BY <2>1, <2>2, <2>3, <2>4
<1>8. fetch.claims # {} => fetch.layer \in Layer
  BY DEF Phases, Types, FetchOK, AtLayer
<1>9. \A c \in fetch'.claims : c \in fetch.claims /\ fetch'.layer = fetch.layer /\ fetch.layer \in Layer
  BY <1>1, <1>8
<1> QED BY <1>4, <1>5, <1>6, <1>7, <1>9, KeepClaims

\* What warm() does to RAM: it keeps a slot, takes it, or gives up a cold copy.
WarmKeeps(l, v, k, x) ==
    ram'[k][x] = ram[k][x] /\ rbytes'[k][x] = rbytes[k][x] /\ (k = l /\ x = v => ram[k][x].valid)
WarmTakes(l, e, v, k, x) ==
    /\ k = l /\ x = v /\ ~Claimed(l, v) /\ <<l, v>> \notin rel
    /\ ram'[k][x].expert = e /\ ram'[k][x].valid /\ ~ram'[k][x].cold /\ ~ram'[k][x].soa
    /\ rbytes'[k][x] = Bytes(e, FALSE, FALSE)
WarmGives(l, v, k, x) ==
    /\ k = l /\ x # v /\ ram[k][x].cold /\ ram[k][x].valid
    /\ ram'[k][x].expert = None /\ ~ram'[k][x].valid
    /\ ram'[k][x].soa = ram[k][x].soa /\ ram'[k][x].cold = ram[k][x].cold
    /\ rbytes'[k][x] = rbytes[k][x]

LEMMA WarmEffect ==
    ASSUME Types, NEW l \in Layer, NEW e \in Expert, NEW v \in Slot, Warm(l, e, v)
    PROVE  /\ fetch'.pc = "warm" /\ fetch'.layer = l /\ fetch'.cand = {e} /\ fetch'.claims = {}
           /\ fetch'.next = None /\ pf' = pf
           /\ \A k \in Layer, x \in Slot : WarmKeeps(l, v, k, x) \/ WarmTakes(l, e, v, k, x) \/ WarmGives(l, v, k, x)
           /\ \A k \in Layer, x \in Slot, y \in Expert : map'[k][y] = x => map[k][y] = x \/ (k = l /\ x = v)
           /\ map'[l][e] = v
<1> DEFINE s == FindSlot(l, e)
           R == IF s # None /\ ram[l][s].cold
                THEN [ram EXCEPT ![l][s].expert = None, ![l][s].valid = FALSE] ELSE ram
           has == s # None /\ ~ram[l][s].cold
           full == [expert |-> e, valid |-> TRUE, cold |-> FALSE, soa |-> FALSE]
           f == [NoFetch EXCEPT !.pc = "warm", !.layer = l, !.cand = {e}]
<1>0. /\ ram \in [Layer -> [Slot -> RamSlot]] /\ map \in [Layer -> [Expert -> Slot \cup {None}]]
      /\ rbytes \in [Layer -> [Slot -> AllBytes]]
  BY DEF Types, TypeOK
<1>1. fetch' = f /\ pf' = pf
  BY DEF Warm
<1>2. /\ f.pc = "warm" /\ f.layer = l /\ f.cand = {e} /\ f.claims = {} /\ f.next = None
  BY DEF NoFetch
<1> HIDE DEF f
<1>4. CASE has
  <2>1. ram' = ram /\ map' = map /\ rbytes' = rbytes /\ v = s
    BY <1>4 DEF Warm
  <2>2. map[l][e] = v /\ ram[l][v].valid
    BY <1>4, <2>1 DEF FindSlot
  <2>3. \A k \in Layer, x \in Slot : WarmKeeps(l, v, k, x)
    BY <2>1, <2>2 DEF WarmKeeps
  <2>4. \A k \in Layer, x \in Slot, y \in Expert : map'[k][y] = x => map[k][y] = x
    BY <2>1
  <2> HIDE DEF s, has
  <2> QED BY <1>1, <1>2, <2>1, <2>2, <2>3, <2>4
<1>5. CASE ~has
  <2>1. /\ ram' = [R EXCEPT ![l][v] = full] /\ map' = ClaimMap(R, l, v, e)
        /\ rbytes' = [rbytes EXCEPT ![l][v] = Bytes(e, FALSE, FALSE)]
        /\ ~(R[l][v].expert # None /\ ~R[l][v].valid) /\ <<l, v>> \notin rel
    BY <1>5 DEF Warm
  <2>2. s # None => s \in Slot /\ ram[l][s].valid /\ ram[l][s].cold
    BY <1>5, SlotTypes DEF FindSlot
  <2>3. \A k \in Layer, x \in Slot : k # l \/ x # s => R[k][x] = ram[k][x]
    <3> HIDE DEF s
    <3> QED BY <1>0
  <2>4. ~Claimed(l, v)
    <3>1. CASE v = s
      BY <2>2, <3>1, CacheConstants DEF Claimed
    <3>2. CASE v # s
      BY <2>1, <2>3, <3>2 DEF Claimed
    <3> QED BY <3>1, <3>2
  <2>5. s # None => /\ R[l][s].expert = None /\ ~R[l][s].valid /\ R[l][s].soa = ram[l][s].soa /\ R[l][s].cold = ram[l][s].cold
                    /\ R \in [Layer -> [Slot -> RamSlot]]
    <3> SUFFICES ASSUME s # None
                 PROVE  /\ R[l][s].expert = None /\ ~R[l][s].valid /\ R[l][s].soa = ram[l][s].soa /\ R[l][s].cold = ram[l][s].cold
                        /\ R \in [Layer -> [Slot -> RamSlot]]
      OBVIOUS
    <3>1. s \in Slot /\ R = [ram EXCEPT ![l][s].expert = None, ![l][s].valid = FALSE]
      BY <2>2
    <3> HIDE DEF s, R
    <3>2. ram[l][s] \in RamSlot
      BY <1>0, <3>1
    <3>3. R[l][s] = [ram[l][s] EXCEPT !.expert = None, !.valid = FALSE]
      BY <1>0, <3>1
    <3>4. [ram[l][s] EXCEPT !.expert = None, !.valid = FALSE] \in RamSlot
      BY <3>2 DEF RamSlot
    <3>5. R \in [Layer -> [Slot -> RamSlot]]
      BY <1>0, <3>1, <3>4
    <3>6. R[l][s].expert = None /\ ~R[l][s].valid /\ R[l][s].soa = ram[l][s].soa /\ R[l][s].cold = ram[l][s].cold
      BY <3>2, <3>3 DEF RamSlot
    <3> QED BY <3>5, <3>6
  <2>6. R \in [Layer -> [Slot -> RamSlot]]
    <3>1. s = None => R = ram
      OBVIOUS
    <3> QED BY <1>0, <2>5, <3>1
  <2>7. \A k \in Layer, x \in Slot : ram'[k][x] = IF k = l /\ x = v THEN full ELSE R[k][x]
    <3> HIDE DEF R
    <3> QED BY <2>1, <2>6
  <2>8. full.expert = e /\ full.valid /\ ~full.cold /\ ~full.soa
    OBVIOUS
  <2>9. \A k \in Layer, x \in Slot, y \in Expert : map'[k][y] = x => map[k][y] = x \/ (k = l /\ x = v)
    <3>1. map' = ClaimMap(R, l, v, e)
      BY <2>1
    <3> HIDE DEF R
    <3> QED BY <3>1, ClaimedMap
  <2>10. map'[l][e] = v
    <3>1. map' = ClaimMap(R, l, v, e)
      BY <2>1
    <3> HIDE DEF R
    <3>2. Unmapped(map[l], R[l][v].expert) \in [Expert -> Slot \cup {None}]
      BY <1>0 DEF Unmapped
    <3> QED BY <1>0, <3>1, <3>2 DEF ClaimMap
  <2>11. \A k \in Layer, x \in Slot : rbytes'[k][x] = IF k = l /\ x = v THEN Bytes(e, FALSE, FALSE) ELSE rbytes[k][x]
    BY <1>0, <2>1
  <2> HIDE DEF s, R, has, full
  <2>12. \A k \in Layer, x \in Slot :
            \/ ~(k = l /\ x = v) /\ ram'[k][x] = ram[k][x] /\ rbytes'[k][x] = rbytes[k][x]
            \/ /\ k = l /\ x = v
               /\ ram'[k][x].expert = e /\ ram'[k][x].valid /\ ~ram'[k][x].cold /\ ~ram'[k][x].soa
               /\ rbytes'[k][x] = Bytes(e, FALSE, FALSE)
            \/ /\ k = l /\ x # v /\ ram[k][x].cold /\ ram[k][x].valid
               /\ ram'[k][x].expert = None /\ ~ram'[k][x].valid /\ ram'[k][x].soa = ram[k][x].soa /\ ram'[k][x].cold = ram[k][x].cold
               /\ rbytes'[k][x] = rbytes[k][x]
    <3> TAKE k \in Layer, x \in Slot
    <3>1. CASE k = l /\ x = v
      BY <2>7, <2>8, <2>11, <3>1
    <3>2. CASE k = l /\ x # v /\ x = s
      <4>1. s # None
        BY <3>2, CacheConstants
      <4>2. ram'[k][x] = R[l][s]
        BY <2>7, <3>2
      <4> QED BY <2>2, <2>5, <2>11, <3>2, <4>1, <4>2
    <3>3. CASE k # l \/ (x # v /\ x # s)
      <4>1. ram'[k][x] = R[k][x] /\ R[k][x] = ram[k][x] /\ ~(k = l /\ x = v)
        BY <2>3, <2>7, <3>3
      <4> QED BY <2>11, <4>1
    <3> QED BY <3>1, <3>2, <3>3
  <2>13. fetch'.pc = "warm" /\ fetch'.layer = l /\ fetch'.cand = {e} /\ fetch'.claims = {} /\ fetch'.next = None
    BY <1>1, <1>2
  <2>14. ~Claimed(l, v) /\ <<l, v>> \notin rel
    BY <2>1, <2>4
  <2>15. \A k \in Layer, x \in Slot : WarmKeeps(l, v, k, x) \/ WarmTakes(l, e, v, k, x) \/ WarmGives(l, v, k, x)
    <3> TAKE k \in Layer, x \in Slot
    <3>1. CASE k = l /\ x = v
      <4>1. /\ ram'[k][x].expert = e /\ ram'[k][x].valid /\ ~ram'[k][x].cold /\ ~ram'[k][x].soa
            /\ rbytes'[k][x] = Bytes(e, FALSE, FALSE)
        BY <2>12, <3>1
      <4> QED BY <2>14, <3>1, <4>1, Zenon DEF WarmTakes
    <3>2. CASE ~(k = l /\ x = v)
      <4>1. \/ ram'[k][x] = ram[k][x] /\ rbytes'[k][x] = rbytes[k][x]
            \/ /\ k = l /\ x # v /\ ram[k][x].cold /\ ram[k][x].valid
               /\ ram'[k][x].expert = None /\ ~ram'[k][x].valid /\ ram'[k][x].soa = ram[k][x].soa /\ ram'[k][x].cold = ram[k][x].cold
               /\ rbytes'[k][x] = rbytes[k][x]
        <5>1. \/ ~(k = l /\ x = v) /\ ram'[k][x] = ram[k][x] /\ rbytes'[k][x] = rbytes[k][x]
            \/ /\ k = l /\ x = v
               /\ ram'[k][x].expert = e /\ ram'[k][x].valid /\ ~ram'[k][x].cold /\ ~ram'[k][x].soa
               /\ rbytes'[k][x] = Bytes(e, FALSE, FALSE)
            \/ /\ k = l /\ x # v /\ ram[k][x].cold /\ ram[k][x].valid
               /\ ram'[k][x].expert = None /\ ~ram'[k][x].valid /\ ram'[k][x].soa = ram[k][x].soa /\ ram'[k][x].cold = ram[k][x].cold
               /\ rbytes'[k][x] = rbytes[k][x]
          BY <2>12, Zenon
        <5> QED BY <5>1, <3>2, Zenon
      <4> QED BY <3>2, <4>1, Zenon DEF WarmKeeps, WarmGives
    <3> QED BY <3>1, <3>2, Zenon
  <2> QED BY <1>1, <2>9, <2>10, <2>13, <2>15
<1> QED BY <1>4, <1>5

\* What fetch_batch() does to RAM: it fills empty slots, and puts the blocks of its
\* hits into the file's layout.
BatchKeeps(l, adopt, k, x) ==
    /\ ram'[k][x] = ram[k][x] /\ rbytes'[k][x] = rbytes[k][x]
    /\ ~(k = l /\ \E e \in Expert : e \in DOMAIN adopt /\ adopt[e] = x)
BatchAdopts(l, adopt, k, x) ==
    /\ k = l /\ ram[k][x].expert = None
    /\ ram'[k][x].valid /\ ~ram'[k][x].cold /\ ~ram'[k][x].soa
    /\ \E e \in Expert : e \in DOMAIN adopt /\ adopt[e] = x /\ ram'[k][x].expert = e
BatchHits(l, k, x) ==
    /\ k = l /\ ram[k][x].expert # None /\ ram[k][x].valid /\ ~ram[k][x].cold
    /\ ~InVram(k, ram[k][x].expert)
    /\ ram'[k][x].expert = ram[k][x].expert /\ ram'[k][x].valid
    /\ ~ram'[k][x].cold /\ ~ram'[k][x].soa
    /\ rbytes'[k][x] = FileLayout(rbytes[k][x], ram[k][x].soa)

LEMMA BatchEffect ==
    ASSUME Types, Maps, NEW l \in Layer, NEW es \in SUBSET Expert,
           NEW adopt \in Adoptions(l, {e \in es : ~BatchHit(l, e)}), FetchBatch(l, es, adopt)
    PROVE  /\ \A k \in Layer, x \in Slot : BatchKeeps(l, adopt, k, x) \/ BatchAdopts(l, adopt, k, x) \/ BatchHits(l, k, x)
           /\ \A k \in Layer, x \in Slot, y \in Expert : map'[k][y] = x =>
                 map[k][y] = x \/ (k = l /\ y \in DOMAIN adopt /\ adopt[y] = x)
           /\ \A e \in DOMAIN adopt : e \in Expert /\ (adopt[e] # None => adopt[e] \in Slot)
           /\ \A a, b \in DOMAIN adopt : adopt[a] = adopt[b] /\ adopt[a] # None => a = b
           /\ \A e \in es \ DOMAIN adopt : ~InVram(l, e) =>
                 /\ map[l][e] \in Slot /\ ram[l][map[l][e]].expert = e /\ ram[l][map[l][e]].valid
                 /\ ~ram[l][map[l][e]].cold /\ ~ram'[l][map[l][e]].soa
           /\ pf' = pf
<1> DEFINE into == {e \in DOMAIN adopt : adopt[e] # None}
           hits == {e \in es \ DOMAIN adopt : ~InVram(l, e)}
           of(s) == {e \in into : adopt[e] = s}
           hit(s) == \E e \in hits : map[l][e] = s
<1>0. /\ ram \in [Layer -> [Slot -> RamSlot]] /\ map \in [Layer -> [Expert -> Slot \cup {None}]]
      /\ rbytes \in [Layer -> [Slot -> AllBytes]]
  BY DEF Types, TypeOK
<1>1. /\ DOMAIN adopt = {e \in es : ~BatchHit(l, e)}
      /\ \A e \in DOMAIN adopt : adopt[e] \in {s \in Slot : ram[l][s].expert = None} \cup {None}
      /\ \A a, b \in DOMAIN adopt : adopt[a] = adopt[b] /\ adopt[a] # None => a = b
  BY DEF Adoptions
<1>2. \A e \in into : e \in Expert /\ e \in DOMAIN adopt /\ adopt[e] \in Slot /\ ram[l][adopt[e]].expert = None
  BY <1>1
<1>3. \A e \in hits : /\ e \in Expert /\ map[l][e] \in Slot /\ ram[l][map[l][e]].expert = e
                      /\ ram[l][map[l][e]].valid /\ ~ram[l][map[l][e]].cold
  <2> SUFFICES ASSUME NEW e \in hits
               PROVE  /\ e \in Expert /\ map[l][e] \in Slot /\ ram[l][map[l][e]].expert = e
                      /\ ram[l][map[l][e]].valid /\ ~ram[l][map[l][e]].cold
    OBVIOUS
  <2>1. e \in Expert /\ BatchHit(l, e) /\ ~InVram(l, e)
    BY <1>1
  <2>2. FindSlot(l, e) # None /\ ~ram[l][FindSlot(l, e)].cold
    BY <2>1 DEF BatchHit
  <2> QED BY <2>1, <2>2, Lookup, SlotTypes
<1>4. ram' = [ram EXCEPT ![l] = [s \in Slot |->
                 IF of(s) # {} THEN [expert |-> CHOOSE e \in of(s) : TRUE, valid |-> TRUE,
                                     cold |-> FALSE, soa |-> FALSE]
                 ELSE IF hit(s) THEN [ram[l][s] EXCEPT !.soa = FALSE] ELSE ram[l][s]]]
  BY DEF FetchBatch
<1>5. rbytes' = [rbytes EXCEPT ![l] = [s \in Slot |->
                    IF of(s) # {} THEN Garbage
                    ELSE IF hit(s) THEN FileLayout(rbytes[l][s], ram[l][s].soa) ELSE rbytes[l][s]]]
  BY DEF FetchBatch
<1>6. \A x \in Slot : of(x) # {} =>
         /\ (CHOOSE e \in of(x) : TRUE) \in of(x) /\ ram[l][x].expert = None
  BY <1>2
<1>7. \A x \in Slot : hit(x) => /\ ram[l][x].expert # None /\ ram[l][x].valid /\ ~ram[l][x].cold
                               /\ ~InVram(l, ram[l][x].expert)
  BY <1>3, CacheConstants
<1>8. \A x \in Slot : of(x) = {} => ~\E e \in Expert : e \in DOMAIN adopt /\ adopt[e] = x
  BY CacheConstants
<1>9. \A x \in Slot : \A e : e \in of(x) => e \in Expert /\ e \in DOMAIN adopt /\ adopt[e] = x
  BY <1>2
<1>10. \A k \in Layer, x \in Slot : BatchKeeps(l, adopt, k, x) \/ BatchAdopts(l, adopt, k, x) \/ BatchHits(l, k, x)
  <2> TAKE k \in Layer, x \in Slot
  <2>1. ram[k][x] \in RamSlot
    BY <1>0
  <2> DEFINE c == CHOOSE e \in of(x) : TRUE
             there == \E e \in Expert : e \in DOMAIN adopt /\ adopt[e] = x
  <2>2. CASE k = l /\ of(x) # {}
    <3>1. c \in of(x) /\ ram[l][x].expert = None
      BY <1>6, <2>2
    <3>2. ram'[k][x] = [expert |-> c, valid |-> TRUE, cold |-> FALSE, soa |-> FALSE]
      <4> HIDE DEF hit
      <4> QED BY <1>0, <1>4, <2>2
    <3> HIDE DEF c, of, hit
    <3>3. ram'[k][x].expert = c /\ ram'[k][x].valid /\ ~ram'[k][x].cold /\ ~ram'[k][x].soa
      BY <3>2
    <3>4. c \in Expert /\ c \in DOMAIN adopt /\ adopt[c] = x
      BY <1>9, <3>1
    <3> QED BY <2>2, <3>1, <3>3, <3>4 DEF BatchAdopts
  <2>3. CASE k = l /\ of(x) = {} /\ hit(x)
    <3>1. /\ ram[l][x].expert # None /\ ram[l][x].valid /\ ~ram[l][x].cold
          /\ ~InVram(l, ram[l][x].expert)
      BY <1>7, <2>3
    <3> HIDE DEF of, hit
    <3>2. ram'[k][x] = [ram[k][x] EXCEPT !.soa = FALSE] /\ rbytes'[k][x] = FileLayout(rbytes[k][x], ram[k][x].soa)
      BY <1>0, <1>4, <1>5, <2>3
    <3>3. ram'[k][x].expert = ram[k][x].expert /\ ram'[k][x].valid = ram[k][x].valid /\ ram'[k][x].cold = ram[k][x].cold
          /\ ~ram'[k][x].soa
      BY <2>1, <3>2 DEF RamSlot
    <3> QED BY <2>3, <3>1, <3>2, <3>3 DEF BatchHits
  <2>4. CASE k = l /\ of(x) = {} /\ ~hit(x)
    <3>1. ~there
      BY <1>8, <2>4
    <3> HIDE DEF of, hit, there
    <3>2. ram'[k][x] = ram[k][x] /\ rbytes'[k][x] = rbytes[k][x]
      BY <1>0, <1>4, <1>5, <2>4
    <3> QED BY <3>1, <3>2 DEF there, BatchKeeps
  <2>5. CASE k # l
    <3> HIDE DEF of, hit
    <3>2. ram'[k][x] = ram[k][x] /\ rbytes'[k][x] = rbytes[k][x]
      BY <1>0, <1>4, <1>5, <2>5
    <3> QED BY <2>5, <3>2 DEF BatchKeeps
  <2> QED BY <2>2, <2>3, <2>4, <2>5
<1>11. \A k \in Layer, e \in Expert : map'[k][e] = IF k = l /\ e \in into THEN adopt[e] ELSE map[k][e]
  <2>1. map' = [map EXCEPT ![l] = [e \in Expert |-> IF e \in into THEN adopt[e] ELSE map[l][e]]]
    BY DEF FetchBatch
  <2> HIDE DEF into
  <2> QED BY <1>0, <2>1
<1>12. \A k \in Layer, x \in Slot, y \in Expert : map'[k][y] = x =>
          map[k][y] = x \/ (k = l /\ y \in DOMAIN adopt /\ adopt[y] = x)
  BY <1>11
<1>13. \A e \in es \ DOMAIN adopt : ~InVram(l, e) =>
          /\ map[l][e] \in Slot /\ ram[l][map[l][e]].expert = e /\ ram[l][map[l][e]].valid
          /\ ~ram[l][map[l][e]].cold /\ ~ram'[l][map[l][e]].soa
  <2> SUFFICES ASSUME NEW e \in es \ DOMAIN adopt, ~InVram(l, e)
               PROVE  /\ map[l][e] \in Slot /\ ram[l][map[l][e]].expert = e /\ ram[l][map[l][e]].valid
                      /\ ~ram[l][map[l][e]].cold /\ ~ram'[l][map[l][e]].soa
    OBVIOUS
  <2> DEFINE x == map[l][e]
  <2>1. e \in Expert /\ x \in Slot /\ ram[l][x].expert = e /\ ram[l][x].valid /\ ~ram[l][x].cold /\ hit(x)
    BY <1>3
  <2>2. of(x) = {} /\ ram[l][x] \in RamSlot
    BY <1>0, <1>6, <2>1, CacheConstants
  <2> HIDE DEF x, of, hit
  <2>3. ram'[l][x] = [ram[l][x] EXCEPT !.soa = FALSE]
    BY <1>0, <1>4, <2>1, <2>2
  <2>4. ~ram'[l][x].soa
    BY <2>2, <2>3 DEF RamSlot
  <2> QED BY <2>1, <2>4 DEF x
<1>14. pf' = pf
  BY DEF FetchBatch
<1> HIDE DEF into, of, hit, hits
<1> QED BY <1>1, <1>10, <1>12, <1>13, <1>14

\* warm() and fetch_batch() take no slot that is wanted.
LEMMA WarmClaims ==
    ASSUME Types, Types', Maps, Maps', HostHolds, Phases, WantedHeld, ClaimFlags, ColdFile, MappedWanted,
           NEW l \in Layer, NEW e \in Expert, NEW v \in Slot, Warm(l, e, v)
    PROVE  WantedHeld' /\ ClaimFlags' /\ ColdFile' /\ MappedWanted'
<1>0. /\ fetch'.claims = {} /\ fetch'.next = None /\ pf' = pf
      /\ \A k \in Layer, x \in Slot : WarmKeeps(l, v, k, x) \/ WarmTakes(l, e, v, k, x) \/ WarmGives(l, v, k, x)
      /\ \A k \in Layer, x \in Slot, y \in Expert : map'[k][y] = x => map[k][y] = x \/ (k = l /\ x = v)
  BY WarmEffect
<1>1. \A k \in Layer, x \in Slot :
         \/ ram'[k][x] = ram[k][x] /\ (k = l /\ x = v => ram[k][x].valid)
         \/ k = l /\ x = v /\ ~Claimed(l, v) /\ ram'[k][x].valid /\ ~ram'[k][x].cold /\ ~ram'[k][x].soa
         \/ /\ ram[k][x].cold /\ ram[k][x].valid
            /\ ram'[k][x].expert = None /\ ram'[k][x].soa = ram[k][x].soa /\ ~(k = l /\ x = v)
  <2> TAKE k \in Layer, x \in Slot
  <2>1. CASE WarmKeeps(l, v, k, x)
    BY <2>1, Zenon DEF WarmKeeps
  <2>2. CASE WarmTakes(l, e, v, k, x)
    BY <2>2, Zenon DEF WarmTakes
  <2>3. CASE WarmGives(l, v, k, x)
    BY <2>3, Zenon DEF WarmGives
  <2> QED BY <1>0, <2>1, <2>2, <2>3, Zenon
<1>2. fetch.claims = {} /\ fetch.next = None
  BY DEF Warm, Phases
<1>3. \A k \in Layer, y \in Expert, x \in Slot : Wanted(k, y, x)' <=> Wanted(k, y, x)
  BY <1>0, <1>2 DEF Wanted
<1>4. \A k \in Layer, y \in Expert, x \in Slot : Wanted(k, y, x) => Same(k, x)
  <2> SUFFICES ASSUME NEW k \in Layer, NEW y \in Expert, NEW x \in Slot, Wanted(k, y, x) PROVE Same(k, x)
    OBVIOUS
  <2>1. Claimed(k, x) /\ ~ram[k][x].valid
    BY WantedFacts
  <2>2. ram'[k][x] = ram[k][x]
    BY <1>1, <2>1
  <2> QED BY <2>2 DEF Same
<1>5. \A k \in Layer, x \in Slot : Same(k, x) \/ ~ram'[k][x].cold \/ ~ram'[k][x].soa
  <2> TAKE k \in Layer, x \in Slot
  <2>1. ram[k][x].cold => ~ram[k][x].soa
    BY DEF ColdFile
  <2>2. ram'[k][x] = ram[k][x] \/ ~ram'[k][x].cold \/ ~ram'[k][x].soa
    BY <1>1, <2>1
  <2> QED BY <2>2 DEF Same
<1>6. \A k \in Layer, x \in Slot, y \in Expert : map'[k][y] = x /\ ~ram'[k][x].valid =>
          map[k][y] = x /\ ~ram[k][x].valid
  <2> SUFFICES ASSUME NEW k \in Layer, NEW x \in Slot, NEW y \in Expert, map'[k][y] = x, ~ram'[k][x].valid
               PROVE  map[k][y] = x /\ ~ram[k][x].valid
    OBVIOUS
  <2>1. ram'[k][x].expert = y /\ y # None /\ x # None
    BY CacheConstants DEF Maps, RamMaps
  <2>2. ram'[k][x] = ram[k][x]
    BY <1>1, <2>1
  <2>3. map[k][y] = x \/ (k = l /\ x = v)
    BY <1>0
  <2>4. ram'[l][v].valid
    BY <1>1
  <2> QED BY <2>2, <2>3, <2>4
<1>7. \A c \in fetch'.claims : c \in fetch.claims /\ fetch'.layer = fetch.layer /\ fetch.layer \in Layer
  BY <1>0
<1> QED BY <1>3, <1>4, <1>5, <1>6, <1>7, KeepClaims

LEMMA BatchClaims ==
    ASSUME Types, Types', Maps, Maps', HostHolds, Phases, WantedHeld, ClaimFlags, ColdFile, MappedWanted,
           NEW l \in Layer, NEW es \in SUBSET Expert,
           NEW adopt \in Adoptions(l, {e \in es : ~BatchHit(l, e)}), FetchBatch(l, es, adopt)
    PROVE  WantedHeld' /\ ClaimFlags' /\ ColdFile' /\ MappedWanted'
<1>0. /\ pf' = pf
      /\ \A k \in Layer, x \in Slot : BatchKeeps(l, adopt, k, x) \/ BatchAdopts(l, adopt, k, x) \/ BatchHits(l, k, x)
      /\ \A k \in Layer, x \in Slot, y \in Expert : map'[k][y] = x =>
            map[k][y] = x \/ (k = l /\ y \in DOMAIN adopt /\ adopt[y] = x)
  BY BatchEffect
<1>1. \A k \in Layer, x \in Slot :
         \/ ram'[k][x] = ram[k][x] /\ ~(k = l /\ \E e \in Expert : e \in DOMAIN adopt /\ adopt[e] = x)
         \/ ~Claimed(k, x) /\ ram'[k][x].valid /\ ~ram'[k][x].cold /\ ~ram'[k][x].soa
  <2> TAKE k \in Layer, x \in Slot
  <2>1. CASE BatchKeeps(l, adopt, k, x)
    BY <2>1, Zenon DEF BatchKeeps
  <2>2. CASE BatchAdopts(l, adopt, k, x)
    BY <2>2, Zenon DEF BatchAdopts, Claimed
  <2>3. CASE BatchHits(l, k, x)
    BY <2>3, Zenon DEF BatchHits, Claimed
  <2> QED BY <1>0, <2>1, <2>2, <2>3, Zenon
<1>2. fetch.claims = {} /\ fetch.next = None /\ fetch'.claims = {} /\ fetch'.next = None
  <2>1. fetch.next = None /\ fetch'.claims = {} /\ fetch'.next = None /\ fetch.pc = "idle" /\ ~fetch.deferred
    BY BatchReads
  <2> QED BY <2>1 DEF Phases
<1>3. \A k \in Layer, y \in Expert, x \in Slot : Wanted(k, y, x)' <=> Wanted(k, y, x)
  BY <1>0, <1>2 DEF Wanted
<1>4. \A k \in Layer, y \in Expert, x \in Slot : Wanted(k, y, x) => Same(k, x)
  <2> SUFFICES ASSUME NEW k \in Layer, NEW y \in Expert, NEW x \in Slot, Wanted(k, y, x) PROVE Same(k, x)
    OBVIOUS
  <2>1. Claimed(k, x)
    BY WantedFacts
  <2>2. ram'[k][x] = ram[k][x]
    BY <1>1, <2>1
  <2> QED BY <2>2 DEF Same
<1>5. \A k \in Layer, x \in Slot : Same(k, x) \/ ~ram'[k][x].cold \/ ~ram'[k][x].soa
  <2> TAKE k \in Layer, x \in Slot
  <2>1. ram'[k][x] = ram[k][x] \/ ~ram'[k][x].cold
    BY <1>1
  <2> QED BY <2>1 DEF Same
<1>6. \A k \in Layer, x \in Slot, y \in Expert : map'[k][y] = x /\ ~ram'[k][x].valid =>
          map[k][y] = x /\ ~ram[k][x].valid
  <2> SUFFICES ASSUME NEW k \in Layer, NEW x \in Slot, NEW y \in Expert, map'[k][y] = x, ~ram'[k][x].valid
               PROVE  map[k][y] = x /\ ~ram[k][x].valid
    OBVIOUS
  <2>1. ram'[k][x] = ram[k][x] /\ ~(k = l /\ \E e \in Expert : e \in DOMAIN adopt /\ adopt[e] = x)
    BY <1>1
  <2> QED BY <1>0, <2>1
<1>7. \A c \in fetch'.claims : c \in fetch.claims /\ fetch'.layer = fetch.layer /\ fetch.layer \in Layer
  BY <1>2
<1> QED BY <1>3, <1>4, <1>5, <1>6, <1>7, KeepClaims

\* What is mapped to a slot that has been claimed: the expert it was claimed for.
LEMMA ClaimMapped ==
    ASSUME Types, NEW R, NEW l \in Layer, NEW v \in Slot, NEW e \in Expert, map' = ClaimMap(R, l, v, e), Maps',
           ram'[l][v].expert = e
    PROVE  \A k \in Layer, x \in Slot, y \in Expert :
               map'[k][y] = x => (map[k][y] = x /\ ~(k = l /\ x = v)) \/ (k = l /\ x = v /\ y = e)
<1>1. \A k \in Layer, x \in Slot, y \in Expert : map'[k][y] = x => map[k][y] = x \/ (k = l /\ x = v)
  BY ClaimedMap, Z3
<1>2. \A y \in Expert : map'[l][y] = v => ram'[l][v].expert = y
  BY CacheConstants DEF Maps, RamMaps
<1> QED BY <1>1, <1>2

LEMMA ServeMissClaims ==
    ASSUME Types, Types', Maps', HostHolds, Phases, WantedHeld, ClaimFlags, ColdFile, MappedWanted,
           NEW e \in Expert, NEW v \in Slot, NEW cold \in BOOLEAN, ServeMiss(e, v, cold),
           NEW l \in Layer, l = fetch.layer
    PROVE  WantedHeld' /\ ClaimFlags' /\ ColdFile' /\ MappedWanted'
<1>1. /\ pf' = pf /\ ram' = ClaimRam(ram, l, v, e, cold) /\ map' = ClaimMap(ram, l, v, e)
      /\ ~Claimed(l, v)
  BY DEF ServeMiss, Evictable, Claimed
<1> DEFINE t == <<e, v, cold>>
<1>2. /\ fetch'.layer = l /\ fetch'.claims = fetch.claims \cup {t} /\ fetch'.next = fetch.next
      /\ t[1] = e /\ t[2] = v /\ t[3] = cold
  BY FetchClaims
<1> HIDE DEF t
<1>3. ram \in [Layer -> [Slot -> RamSlot]]
  BY DEF Types, TypeOK
<1>4. /\ \A k \in Layer, x \in Slot : ~(k = l /\ x = v) => ram'[k][x] = ram[k][x]
      /\ ram'[l][v].expert = e /\ ~ram'[l][v].valid /\ ram'[l][v].cold = cold /\ ~ram'[l][v].soa
  <2> DEFINE new == [expert |-> e, valid |-> FALSE, cold |-> cold, soa |-> FALSE]
  <2>1. \A k \in Layer, x \in Slot :
            ClaimRam(ram, l, v, e, cold)[k][x] = IF k = l /\ x = v THEN new ELSE ram[k][x]
    BY <1>3, ClaimedRam, Z3
  <2>2. new.expert = e /\ ~new.valid /\ new.cold = cold /\ ~new.soa
    OBVIOUS
  <2> HIDE DEF new
  <2> QED BY <1>1, <2>1, <2>2
<1>5. \A k \in Layer, y \in Expert, x \in Slot : Wanted(k, y, x)' <=> Wanted(k, y, x) \/ (k = l /\ y = e /\ x = v)
  BY <1>1, <1>2 DEF Wanted
<1>6. \A k \in Layer, y \in Expert, x \in Slot : Wanted(k, y, x) => Same(k, x)
  <2> SUFFICES ASSUME NEW k \in Layer, NEW y \in Expert, NEW x \in Slot, Wanted(k, y, x) PROVE Same(k, x)
    OBVIOUS
  <2>1. Claimed(k, x)
    BY WantedFacts
  <2>2. ram'[k][x] = ram[k][x]
    BY <1>1, <1>4, <2>1
  <2> QED BY <2>2 DEF Same
<1>7. \A k \in Layer, x \in Slot : Same(k, x) \/ ~ram'[k][x].soa
  BY <1>4 DEF Same
<1>8. \A k \in Layer, x \in Slot, y \in Expert : map'[k][y] = x /\ ~ram'[k][x].valid =>
          (map[k][y] = x /\ ~ram[k][x].valid) \/ Wanted(k, y, x)'
  <2>1. \A k \in Layer, x \in Slot, y \in Expert :
               map'[k][y] = x => (map[k][y] = x /\ ~(k = l /\ x = v)) \/ (k = l /\ x = v /\ y = e)
    <3>1. map' = ClaimMap(ram, l, v, e) /\ ram'[l][v].expert = e
      BY <1>1, <1>4
    <3> QED BY <3>1, ClaimMapped, Z3
  <2> QED BY <1>4, <1>5, <2>1
<1>9. \A c \in fetch'.claims : (c \in fetch.claims /\ fetch'.layer = fetch.layer /\ fetch.layer \in Layer)
                               \/ ram'[fetch'.layer][c[2]].cold = c[3]
  BY <1>2, <1>4
<1> QED BY <1>4, <1>5, <1>6, <1>7, <1>8, <1>9, KeepClaims

LEMMA ServeUpgradeClaims ==
    ASSUME Types, Types', Maps, HostHolds, Phases, WantedHeld, ClaimFlags, ColdFile, MappedWanted,
           NEW e \in Expert, ServeUpgrade(e), NEW l \in Layer, l = fetch.layer, NEW v \in Slot, v = FindSlot(l, e)
    PROVE  /\ WantedHeld' /\ ClaimFlags' /\ ColdFile' /\ MappedWanted'
           /\ \A k \in Layer, x \in Slot : ~(k = l /\ x = v) => ram'[k][x] = ram[k][x]
           /\ ram'[l][v].expert = e /\ ~ram'[l][v].valid /\ ~ram'[l][v].cold /\ ~ram'[l][v].soa
           /\ ram[l][v].valid /\ ram[l][v].cold /\ ram[l][v].expert = e /\ map[l][e] = v
<1>1. /\ pf' = pf /\ map' = map
      /\ ram' = [ram EXCEPT ![l][v].valid = FALSE, ![l][v].cold = FALSE] /\ ram[l][v].cold
  BY DEF ServeUpgrade
<1>2. ram[l][v].expert = e /\ ram[l][v].valid /\ map[l][e] = v
  BY CacheConstants DEF FindSlot
<1> DEFINE t == <<e, v, FALSE>>
<1>3. /\ fetch'.layer = l /\ fetch'.claims = fetch.claims \cup {t} /\ fetch'.next = fetch.next
      /\ t[1] = e /\ t[2] = v /\ ~t[3] /\ t[3] = FALSE
  BY FetchClaims
<1> HIDE DEF t
<1>4. ram \in [Layer -> [Slot -> RamSlot]] /\ ram[l][v] \in RamSlot
  BY DEF Types, TypeOK
<1>5. /\ \A k \in Layer, x \in Slot : ~(k = l /\ x = v) => ram'[k][x] = ram[k][x]
      /\ ram'[l][v] = [ram[l][v] EXCEPT !.valid = FALSE, !.cold = FALSE]
  BY <1>1, <1>4
<1>6. ram'[l][v].expert = e /\ ~ram'[l][v].valid /\ ~ram'[l][v].cold /\ ~ram'[l][v].soa /\ ram'[l][v].cold = FALSE
  <2>1. ~ram[l][v].soa
    BY <1>1 DEF ColdFile
  <2> QED BY <1>2, <1>4, <1>5, <2>1 DEF RamSlot
<1>7. \A k \in Layer, y \in Expert, x \in Slot : Wanted(k, y, x)' <=> Wanted(k, y, x) \/ (k = l /\ y = e /\ x = v)
  BY <1>1, <1>3 DEF Wanted
<1>8. \A k \in Layer, y \in Expert, x \in Slot : Wanted(k, y, x) => Same(k, x)
  <2> SUFFICES ASSUME NEW k \in Layer, NEW y \in Expert, NEW x \in Slot, Wanted(k, y, x) PROVE Same(k, x)
    OBVIOUS
  <2>1. ~ram[k][x].valid
    BY WantedFacts
  <2>2. ram'[k][x] = ram[k][x]
    BY <1>2, <1>5, <2>1
  <2> QED BY <2>2 DEF Same
<1>9. \A k \in Layer, x \in Slot : Same(k, x) \/ ~ram'[k][x].soa
  BY <1>5, <1>6 DEF Same
<1>10. \A k \in Layer, x \in Slot, y \in Expert : map'[k][y] = x /\ ~ram'[k][x].valid =>
          (map[k][y] = x /\ ~ram[k][x].valid) \/ Wanted(k, y, x)'
  <2> SUFFICES ASSUME NEW k \in Layer, NEW x \in Slot, NEW y \in Expert, map'[k][y] = x, ~ram'[k][x].valid
               PROVE  (map[k][y] = x /\ ~ram[k][x].valid) \/ Wanted(k, y, x)'
    OBVIOUS
  <2>1. CASE k = l /\ x = v
    <3>1. y = e
      BY <1>1, <1>2, <2>1, CacheConstants DEF Maps, RamMaps
    <3> QED BY <1>7, <2>1, <3>1
  <2>2. CASE ~(k = l /\ x = v)
    BY <1>1, <1>5, <2>2
  <2> QED BY <2>1, <2>2
<1>11. \A c \in fetch'.claims : (c \in fetch.claims /\ fetch'.layer = fetch.layer /\ fetch.layer \in Layer)
                               \/ ram'[fetch'.layer][c[2]].cold = c[3]
  BY <1>3, <1>6
<1>12. WantedHeld' /\ ClaimFlags' /\ ColdFile' /\ MappedWanted'
  BY <1>6, <1>7, <1>8, <1>9, <1>10, <1>11, KeepClaims
<1> QED BY <1>1, <1>2, <1>5, <1>6, <1>12

\* What pf_reap() does to a slot: it is valid once its read is no longer waited for.
LEMMA ReapEntry ==
    ASSUME Types, WantedHeld, NEW k \in Layer, NEW x \in Slot
    PROVE  /\ Reaped[k][x].expert = ram[k][x].expert /\ Reaped[k][x].cold = ram[k][x].cold
           /\ Reaped[k][x].soa = ram[k][x].soa
           /\ ram[k][x].valid => Reaped[k][x].valid
           /\ Reaped[k][x].valid /\ ~ram[k][x].valid =>
                 InPf(k, x) /\ \A y \in Expert : <<k, y, x>> \notin StillFlying
           /\ \A y \in Expert : <<k, y, x>> \in pf /\ <<k, y, x>> \notin StillFlying => Reaped[k][x].valid
<1>1. ram[k][x] \in RamSlot
  BY DEF Types, TypeOK
<1>2. Reaped[k][x] = IF \E p \in pf : p[1] = k /\ p[3] = x /\ ~Flying(p) /\ ram[k][x].expert = p[2]
                     THEN [ram[k][x] EXCEPT !.valid = TRUE] ELSE ram[k][x]
  BY DEF Reaped
<1>3. CASE Reaped[k][x] = ram[k][x]
  <2>1. ASSUME NEW y \in Expert, <<k, y, x>> \in pf, <<k, y, x>> \notin StillFlying
        PROVE  Reaped[k][x].valid
    <3> DEFINE p == <<k, y, x>>
    <3>1. p \in pf /\ p[1] = k /\ p[2] = y /\ p[3] = x /\ ~Flying(p)
      BY <2>1 DEF StillFlying
    <3>2. ram[k][x].expert = y
      BY <2>1 DEF WantedHeld, Wanted
    <3> HIDE DEF p
    <3>3. Reaped[k][x] = [ram[k][x] EXCEPT !.valid = TRUE]
      BY <1>2, <3>1, <3>2
    <3> QED BY <1>1, <3>3 DEF RamSlot
  <2> QED BY <1>3, <2>1
<1>4. CASE Reaped[k][x] # ram[k][x]
  <2>1. PICK p \in pf : p[1] = k /\ p[3] = x /\ ~Flying(p)
    BY <1>2, <1>4
  <2>2. \A y \in Expert : <<k, y, x>> \notin StillFlying
    BY <2>1 DEF StillFlying, Flying
  <2>3. Reaped[k][x] = [ram[k][x] EXCEPT !.valid = TRUE]
    BY <1>2, <1>4
  <2> QED BY <1>1, <2>1, <2>2, <2>3 DEF InPf, RamSlot
<1> QED BY <1>3, <1>4

\* A slot of a speculative read is nobody else's.
LEMMA WantedOnce ==
    ASSUME Types, HostHolds, Phases, NEW k \in Layer, NEW y \in Expert, NEW x \in Slot, Wanted(k, y, x)
    PROVE  <<k, y, x>> \in pf \/ ~InPf(k, x)
<1>1. CASE k = fetch.layer /\ \E c \in fetch.claims : c[1] = y /\ c[2] = x
  <2>1. InClaims(k, x)
    BY <1>1 DEF InClaims, InFetch, Phases
  <2> QED BY <2>1 DEF HostHolds
<1>2. CASE fetch.next # None /\ fetch.next.l = k /\ fetch.next.e = y /\ fetch.next.v = x
  <2>1. InNext(k, x)
    BY <1>2 DEF InNext
  <2> QED BY <2>1 DEF HostHolds
<1> QED BY <1>1, <1>2 DEF Wanted

LEMMA ReapClaims ==
    ASSUME Types, Types', HostHolds, Phases, WantedHeld, ClaimFlags, ColdFile, MappedWanted,
           ram' = Reaped, pf' = StillFlying, map' = map,
           fetch'.next = fetch.next, fetch'.claims = fetch.claims, fetch'.layer = fetch.layer
    PROVE  WantedHeld' /\ ClaimFlags' /\ ColdFile' /\ MappedWanted'
<1>1. \A k \in Layer, y \in Expert, x \in Slot : Wanted(k, y, x)' => Wanted(k, y, x)
  BY DEF Wanted, StillFlying
<1>2. \A k \in Layer, y \in Expert, x \in Slot : Wanted(k, y, x) =>
          IF Wanted(k, y, x)' THEN Same(k, x) ELSE ram'[k][x].valid
  <2> SUFFICES ASSUME NEW k \in Layer, NEW y \in Expert, NEW x \in Slot, Wanted(k, y, x)
               PROVE  IF Wanted(k, y, x)' THEN Same(k, x) ELSE ram'[k][x].valid
    OBVIOUS
  <2>1. ~ram[k][x].valid /\ (<<k, y, x>> \in pf \/ ~InPf(k, x))
    BY WantedFacts, WantedOnce
  <2>2. CASE <<k, y, x>> \in pf /\ <<k, y, x>> \notin StillFlying
    <3>1. ram'[k][x].valid
      BY <2>2, ReapEntry
    <3>2. ~Wanted(k, y, x)'
      <4>1. InPf(k, x)
        BY <2>2 DEF InPf
      <4>2. ASSUME k = fetch.layer, NEW c \in fetch.claims, c[2] = x PROVE FALSE
        <5>1. InClaims(k, x)
          BY <4>2 DEF InClaims, InFetch, Phases
        <5> QED BY <4>1, <5>1 DEF HostHolds
      <4>3. ~InNext(k, x)
        BY <4>1 DEF HostHolds
      <4> QED BY <2>2, <4>2, <4>3 DEF Wanted, InNext
    <3> QED BY <3>1, <3>2
  <2>3. CASE <<k, y, x>> \in StillFlying \/ ~InPf(k, x)
    <3>1. ~ram'[k][x].valid
      BY <2>1, <2>3, ReapEntry
    <3>2. Same(k, x)
      <4>1. /\ ram'[k][x].expert = ram[k][x].expert /\ ram'[k][x].cold = ram[k][x].cold
            /\ ram'[k][x].soa = ram[k][x].soa
        BY ReapEntry
      <4>2. ram'[k][x] \in RamSlot /\ ram[k][x] \in RamSlot
        BY DEF Types, TypeOK
      <4>3. ram'[k][x].valid = ram[k][x].valid
        BY <2>1, <3>1, <4>2 DEF RamSlot
      <4> QED BY <4>1, <4>3 DEF Same
    <3>3. Wanted(k, y, x)'
      <4>1. CASE <<k, y, x>> \in StillFlying
        BY <4>1 DEF Wanted
      <4>2. CASE ~InPf(k, x)
        <5>1. <<k, y, x>> \notin pf
          BY <4>2 DEF InPf
        <5> QED BY <5>1 DEF Wanted
      <4> QED BY <2>3, <4>1, <4>2
    <3> QED BY <3>2, <3>3
  <2> QED BY <2>1, <2>2, <2>3
<1>3. \A k \in Layer, x \in Slot, y \in Expert : map'[k][y] = x /\ ~ram'[k][x].valid =>
          map[k][y] = x /\ ~ram[k][x].valid
  BY ReapEntry
<1>4. \A k \in Layer, x \in Slot : Same(k, x) \/ ~ram'[k][x].cold \/ ~ram'[k][x].soa
  <2> TAKE k \in Layer, x \in Slot
  <2>1. ram'[k][x].cold = ram[k][x].cold /\ ram'[k][x].soa = ram[k][x].soa
    BY ReapEntry
  <2> QED BY <2>1 DEF ColdFile
<1>5. fetch.claims # {} => fetch.layer \in Layer
  BY DEF Phases, Types, FetchOK, AtLayer
<1>6. \A c \in fetch'.claims : c \in fetch.claims /\ fetch'.layer = fetch.layer /\ fetch.layer \in Layer
  BY <1>5
<1> QED BY <1>1, <1>2, <1>3, <1>4, <1>6, KeepClaims

\* The reads of a fetch have landed, or that of the restore.
LEMMA FetchEndClaims ==
    ASSUME Types, Types', HostHolds, Phases, WantedHeld, ClaimFlags, ColdFile, MappedWanted, FetchEnd
    PROVE  /\ WantedHeld' /\ ClaimFlags' /\ ColdFile' /\ MappedWanted'
           /\ fetch'.claims = {} /\ fetch.next = None /\ fetch'.next = None
           /\ \A k \in Layer, x \in Slot :
                 /\ ram'[k][x].expert = ram[k][x].expert /\ ram'[k][x].cold = ram[k][x].cold
                 /\ ram'[k][x].soa = ram[k][x].soa /\ (ram[k][x].valid => ram'[k][x].valid)
                 /\ ram'[k][x].valid =>
                       ram[k][x].valid \/ (k = fetch.layer /\ \E c \in fetch.claims : c[2] = x)
<1>0. fetch.next = None
  BY DEF FetchEnd, Ending, Phases
<1>1. fetch'.claims = {} /\ fetch'.next = fetch.next /\ map' = map /\ pf' = pf
  <2>1. map' = map /\ pf' = pf
    BY DEF FetchEnd
  <2>2. CASE fetch.deferred
    BY <2>1, <2>2, BeginsBare
  <2>3. CASE ~fetch.deferred
    BY <1>0, <2>1, <2>3, EndMoves
  <2> QED BY <2>2, <2>3
<1>2. \A k \in Layer, x \in Slot :
          ram'[k][x] = IF k = fetch.layer /\ \E c \in fetch.claims : c[2] = x /\ ram[k][x].expert = c[1]
                       THEN [ram[k][x] EXCEPT !.valid = TRUE] ELSE ram[k][x]
  <2>1. ram \in [Layer -> [Slot -> RamSlot]]
    BY DEF Types, TypeOK
  <2> QED BY <2>1 DEF FetchEnd
<1>3. \A k \in Layer, x \in Slot :
         /\ ram'[k][x].expert = ram[k][x].expert /\ ram'[k][x].cold = ram[k][x].cold
         /\ ram'[k][x].soa = ram[k][x].soa
         /\ ram[k][x].valid => ram'[k][x].valid
         /\ ram'[k][x] = ram[k][x] \/ (k = fetch.layer /\ \E c \in fetch.claims : c[2] = x)
         /\ k = fetch.layer /\ (\E c \in fetch.claims : c[2] = x /\ ram[k][x].expert = c[1]) => ram'[k][x].valid
  <2> TAKE k \in Layer, x \in Slot
  <2>1. ram[k][x] \in RamSlot
    BY DEF Types, TypeOK
  <2>2. CASE k = fetch.layer /\ \E c \in fetch.claims : c[2] = x /\ ram[k][x].expert = c[1]
    <3>1. ram'[k][x] = [ram[k][x] EXCEPT !.valid = TRUE]
      BY <1>2, <2>2
    <3> QED BY <2>1, <2>2, <3>1 DEF RamSlot
  <2>3. CASE ~(k = fetch.layer /\ \E c \in fetch.claims : c[2] = x /\ ram[k][x].expert = c[1])
    <3>1. ram'[k][x] = ram[k][x]
      BY <1>2, <2>3
    <3> QED BY <2>3, <3>1
  <2> QED BY <2>2, <2>3
<1>4. \A k \in Layer, y \in Expert, x \in Slot : Wanted(k, y, x)' => Wanted(k, y, x) /\ <<k, y, x>> \in pf
  BY <1>0, <1>1 DEF Wanted
<1>5. \A k \in Layer, y \in Expert, x \in Slot : Wanted(k, y, x) =>
          IF Wanted(k, y, x)' THEN Same(k, x) ELSE ram'[k][x].valid
  <2> SUFFICES ASSUME NEW k \in Layer, NEW y \in Expert, NEW x \in Slot, Wanted(k, y, x)
               PROVE  IF Wanted(k, y, x)' THEN Same(k, x) ELSE ram'[k][x].valid
    OBVIOUS
  <2>1. CASE Wanted(k, y, x)'
    <3>1. InPf(k, x)
      BY <1>4, <2>1 DEF InPf
    <3>2. ~(k = fetch.layer /\ \E c \in fetch.claims : c[2] = x)
      <4>1. ASSUME k = fetch.layer, NEW c \in fetch.claims, c[2] = x PROVE FALSE
        <5>1. InClaims(k, x)
          BY <4>1 DEF InClaims, InFetch, Phases
        <5> QED BY <3>1, <5>1 DEF HostHolds
      <4> QED BY <4>1
    <3>3. ram'[k][x] = ram[k][x]
      BY <1>3, <3>2
    <3> QED BY <2>1, <3>3 DEF Same
  <2>2. CASE ~Wanted(k, y, x)'
    <3>1. k = fetch.layer /\ \E c \in fetch.claims : c[1] = y /\ c[2] = x
      BY <1>0, <1>1, <2>2 DEF Wanted
    <3>2. ram[k][x].expert = y
      BY WantedFacts
    <3> QED BY <1>3, <2>2, <3>1, <3>2
  <2> QED BY <2>1, <2>2
<1>6. \A k \in Layer, x \in Slot, y \in Expert : map'[k][y] = x /\ ~ram'[k][x].valid =>
          map[k][y] = x /\ ~ram[k][x].valid
  BY <1>1, <1>3
<1>7. \A k \in Layer, x \in Slot : Same(k, x) \/ ~ram'[k][x].cold \/ ~ram'[k][x].soa
  <2> TAKE k \in Layer, x \in Slot
  <2>1. ram'[k][x].cold = ram[k][x].cold /\ ram'[k][x].soa = ram[k][x].soa
    BY <1>3
  <2> QED BY <2>1 DEF ColdFile
<1>8. WantedHeld' /\ ClaimFlags' /\ ColdFile' /\ MappedWanted'
  BY <1>1, <1>4, <1>5, <1>6, <1>7, KeepClaims
<1>9. \A k \in Layer, x \in Slot : ram'[k][x].valid =>
          ram[k][x].valid \/ (k = fetch.layer /\ \E c \in fetch.claims : c[2] = x)
  <2> TAKE k \in Layer, x \in Slot
  <2>1. ram'[k][x] = ram[k][x] \/ (k = fetch.layer /\ \E c \in fetch.claims : c[2] = x)
    BY <1>3
  <2> QED BY <2>1
<1> QED BY <1>0, <1>1, <1>3, <1>8, <1>9

LEMMA FinishClaims ==
    ASSUME Types, Types', HostHolds, Phases, WantedHeld, ClaimFlags, ColdFile, MappedWanted, PrefetchFinish
    PROVE  /\ WantedHeld' /\ ClaimFlags' /\ ColdFile' /\ MappedWanted'
           /\ \A k \in Layer, x \in Slot :
                 /\ ram'[k][x].expert = ram[k][x].expert /\ ram'[k][x].cold = ram[k][x].cold
                 /\ ram'[k][x].soa = ram[k][x].soa /\ (ram[k][x].valid => ram'[k][x].valid)
                 /\ ram'[k][x].valid => ram[k][x].valid \/ InNext(k, x)
<1> DEFINE l == fetch.next.l
           v == fetch.next.v
<1>0. /\ ram \in [Layer -> [Slot -> RamSlot]] /\ fetch.next # None
      /\ l \in Layer /\ v \in Slot \cup {None} /\ fetch.next.e \in Expert
      /\ fetch'.claims = {} /\ fetch'.next = None /\ fetch.claims = {} /\ map' = map /\ pf' = pf
  <2>1. fetch'.claims = {} /\ fetch'.next = None /\ fetch.next # None /\ fetch.pc = "restore"
    BY RestoreReads
  <2>2. fetch \in FetchRec /\ ram \in [Layer -> [Slot -> RamSlot]]
    BY DEF Types, FetchOK, TypeOK
  <2>3. l \in Layer /\ v \in Slot \cup {None} /\ fetch.next.e \in Expert
    BY <2>1, <2>2 DEF FetchRec
  <2>4. map' = map /\ pf' = pf
    BY DEF PrefetchFinish
  <2>5. fetch.claims = {}
    BY <2>1 DEF Phases, HostHolds
  <2> QED BY <2>1, <2>2, <2>3, <2>4, <2>5
<1>1. ram' = IF v = None THEN ram ELSE [ram EXCEPT ![l][v].valid = TRUE]
  BY DEF PrefetchFinish
<1>2. \A k \in Layer, x \in Slot : InNext(k, x) <=> (k = l /\ x = v)
  BY <1>0 DEF InNext
<1> HIDE DEF l, v
<1>3. \A k \in Layer, x \in Slot :
         ram'[k][x] = IF k = l /\ x = v THEN [ram[k][x] EXCEPT !.valid = TRUE] ELSE ram[k][x]
  <2>1. CASE v = None
    BY <1>0, <1>1, <2>1, CacheConstants
  <2>2. CASE v # None
    BY <1>0, <1>1, <2>2
  <2> QED BY <2>1, <2>2
<1>4. \A k \in Layer, x \in Slot :
         /\ ram'[k][x].expert = ram[k][x].expert /\ ram'[k][x].cold = ram[k][x].cold
         /\ ram'[k][x].soa = ram[k][x].soa
         /\ ram[k][x].valid => ram'[k][x].valid
         /\ ram'[k][x] = ram[k][x] \/ (k = l /\ x = v)
         /\ k = l /\ x = v => ram'[k][x].valid
  <2> TAKE k \in Layer, x \in Slot
  <2>1. ram[k][x] \in RamSlot
    BY <1>0
  <2>2. CASE k = l /\ x = v
    <3>1. ram'[k][x] = [ram[k][x] EXCEPT !.valid = TRUE]
      BY <1>3, <2>2
    <3> QED BY <2>1, <2>2, <3>1 DEF RamSlot
  <2>3. CASE ~(k = l /\ x = v)
    <3>1. ram'[k][x] = ram[k][x]
      BY <1>3, <2>3
    <3> QED BY <2>3, <3>1
  <2> QED BY <2>2, <2>3
<1>5. \A k \in Layer, y \in Expert, x \in Slot :
          /\ Wanted(k, y, x)' <=> <<k, y, x>> \in pf
          /\ Wanted(k, y, x) => <<k, y, x>> \in pf \/ InNext(k, x)
  BY <1>0 DEF Wanted, InNext
<1>6. \A k \in Layer, y \in Expert, x \in Slot : Wanted(k, y, x) =>
          IF Wanted(k, y, x)' THEN Same(k, x) ELSE ram'[k][x].valid
  <2> SUFFICES ASSUME NEW k \in Layer, NEW y \in Expert, NEW x \in Slot, Wanted(k, y, x)
               PROVE  IF Wanted(k, y, x)' THEN Same(k, x) ELSE ram'[k][x].valid
    OBVIOUS
  <2>1. CASE <<k, y, x>> \in pf
    <3>1. InPf(k, x)
      BY <2>1 DEF InPf
    <3>2. ~InNext(k, x)
      BY <3>1 DEF HostHolds
    <3>3. ram'[k][x] = ram[k][x]
      BY <1>2, <1>4, <3>2
    <3> QED BY <1>5, <2>1, <3>3 DEF Same
  <2>2. CASE <<k, y, x>> \notin pf
    <3>1. InNext(k, x)
      BY <1>5, <2>2
    <3>2. ram'[k][x].valid
      BY <1>2, <1>4, <3>1
    <3> QED BY <1>5, <2>2, <3>2
  <2> QED BY <2>1, <2>2
<1>7. \A k \in Layer, x \in Slot, y \in Expert : map'[k][y] = x /\ ~ram'[k][x].valid =>
          map[k][y] = x /\ ~ram[k][x].valid
  BY <1>0, <1>4
<1>8. \A k \in Layer, x \in Slot : Same(k, x) \/ ~ram'[k][x].cold \/ ~ram'[k][x].soa
  <2> TAKE k \in Layer, x \in Slot
  <2>1. ram'[k][x].cold = ram[k][x].cold /\ ram'[k][x].soa = ram[k][x].soa
    BY <1>4
  <2> QED BY <2>1 DEF ColdFile
<1>9. \A k \in Layer, y \in Expert, x \in Slot : Wanted(k, y, x)' => Wanted(k, y, x)
  BY <1>5 DEF Wanted
<1>10. WantedHeld' /\ ClaimFlags' /\ ColdFile' /\ MappedWanted'
  BY <1>0, <1>6, <1>7, <1>8, <1>9, KeepClaims
<1>11. \A k \in Layer, x \in Slot : ram'[k][x].valid => ram[k][x].valid \/ InNext(k, x)
  <2> TAKE k \in Layer, x \in Slot
  <2>1. ram'[k][x] = ram[k][x] \/ InNext(k, x)
    BY <1>2, <1>4
  <2> QED BY <2>1
<1> QED BY <1>4, <1>10, <1>11

\* What a speculative read claims, and what it leaves alone.
PrefetchTakes(l, e, v, cold) ==
    /\ pf' = StillFlying \cup {<<l, e, v>>} /\ fetch' = fetch /\ fetch.next = None /\ ~fetch.deferred
    /\ fetch.claims # {} \/ fetch.pc = "begun" => fetch.layer \in Layer /\ l # fetch.layer
    /\ ~(Reaped[l][v].expert # None /\ ~Reaped[l][v].valid) /\ <<l, v>> \notin rel
    /\ \A k \in Layer, x \in Slot : ~(k = l /\ x = v) => ram'[k][x] = Reaped[k][x]
    /\ ram'[l][v].expert = e /\ ~ram'[l][v].valid /\ ram'[l][v].cold = cold /\ ~ram'[l][v].soa
    /\ cold => HasCold

LEMMA PrefetchBegins ==
    ASSUME Types, Phases,
           NEW l \in Layer, NEW e \in Expert, NEW v \in Slot, NEW cold \in BOOLEAN, PrefetchBegin(l, e, v, cold)
    PROVE  PrefetchTakes(l, e, v, cold)
<1>0. Reaped \in [Layer -> [Slot -> RamSlot]]
  BY ReapTypes
<1>1. /\ fetch' = fetch /\ ~fetch.deferred
      /\ fetch.pc = "idle" \/ (fetch.pc \in {"begun", "ended"} /\ l # fetch.layer)
      /\ ram' = ClaimRam(Reaped, l, v, e, cold) /\ map' = ClaimMap(ram, l, v, e)
      /\ pf' = StillFlying \cup {<<l, e, v>>}
      /\ ~(Reaped[l][v].expert # None /\ ~Reaped[l][v].valid) /\ <<l, v>> \notin rel
  BY DEF PrefetchBegin, MayPrefetch, Evictable
<1>2. /\ fetch.next = None
      /\ fetch.claims # {} \/ fetch.pc = "begun" => fetch.layer \in Layer /\ l # fetch.layer
  BY <1>1 DEF Phases, Types, FetchOK, AtLayer
<1>3. /\ \A k \in Layer, x \in Slot : ~(k = l /\ x = v) => ram'[k][x] = Reaped[k][x]
      /\ ram'[l][v].expert = e /\ ~ram'[l][v].valid /\ ram'[l][v].cold = cold /\ ~ram'[l][v].soa
  <2> DEFINE new == [expert |-> e, valid |-> FALSE, cold |-> cold, soa |-> FALSE]
  <2>1. \A k \in Layer, x \in Slot :
            ClaimRam(Reaped, l, v, e, cold)[k][x] = IF k = l /\ x = v THEN new ELSE Reaped[k][x]
    BY <1>0, ClaimedRam, Z3
  <2>2. new.expert = e /\ ~new.valid /\ new.cold = cold /\ ~new.soa
    OBVIOUS
  <2> HIDE DEF new
  <2> QED BY <1>1, <2>1, <2>2
<1>4. cold => HasCold
  BY DEF PrefetchBegin
<1> QED BY <1>1, <1>2, <1>3, <1>4 DEF PrefetchTakes

\* A claim of a speculative read, after what has landed was reaped.
LEMMA PrefetchBeginClaims ==
    ASSUME Types, Types', Maps', HostHolds, Phases, WantedHeld, ClaimFlags, ColdFile, MappedWanted,
           NEW l \in Layer, NEW e \in Expert, NEW v \in Slot, NEW cold \in BOOLEAN, PrefetchBegin(l, e, v, cold)
    PROVE  WantedHeld' /\ ClaimFlags' /\ ColdFile' /\ MappedWanted'
<1>1. /\ fetch' = fetch /\ ~fetch.deferred /\ pf' = StillFlying \cup {<<l, e, v>>}
      /\ map' = ClaimMap(ram, l, v, e)
  BY DEF PrefetchBegin, MayPrefetch
<1>b. PrefetchTakes(l, e, v, cold)
  BY PrefetchBegins
<1>2. /\ fetch.next = None
      /\ fetch.claims # {} \/ fetch.pc = "begun" => fetch.layer \in Layer /\ l # fetch.layer
  BY <1>b DEF PrefetchTakes
<1>a. ~(Reaped[l][v].expert # None /\ ~Reaped[l][v].valid) /\ <<l, v>> \notin rel
  BY <1>b DEF PrefetchTakes
<1>3. /\ \A k \in Layer, x \in Slot : ~(k = l /\ x = v) => ram'[k][x] = Reaped[k][x]
      /\ ram'[l][v].expert = e /\ ~ram'[l][v].valid /\ ram'[l][v].cold = cold /\ ~ram'[l][v].soa
  BY <1>b DEF PrefetchTakes
<1>4. \A k \in Layer, x \in Slot, y \in Expert :
          map'[k][y] = x => (map[k][y] = x /\ ~(k = l /\ x = v)) \/ (k = l /\ x = v /\ y = e)
  <2>1. map' = ClaimMap(ram, l, v, e) /\ ram'[l][v].expert = e
    BY <1>1, <1>3
  <2> QED BY <2>1, ClaimMapped
<1> DEFINE n == <<l, e, v>>
<1>5. /\ \A k \in Layer, y \in Expert, x \in Slot :
            <<k, y, x>> \in pf' <=> <<k, y, x>> \in StillFlying \/ (k = l /\ y = e /\ x = v)
      /\ \A k \in Layer, y \in Expert, x \in Slot : <<k, y, x>> \in StillFlying => <<k, y, x>> \in pf
  BY <1>1 DEF StillFlying
<1>6. \A k \in Layer, y \in Expert, x \in Slot : Wanted(k, y, x)' /\ ~(k = l /\ y = e /\ x = v) =>
          /\ Wanted(k, y, x) /\ ~Reaped[k][x].valid /\ ~(k = l /\ x = v)
  <2> SUFFICES ASSUME NEW k \in Layer, NEW y \in Expert, NEW x \in Slot, Wanted(k, y, x)',
                      ~(k = l /\ y = e /\ x = v)
               PROVE  Wanted(k, y, x) /\ ~Reaped[k][x].valid /\ ~(k = l /\ x = v)
    OBVIOUS
  <2>1. CASE <<k, y, x>> \in StillFlying
    <3>1. Wanted(k, y, x)
      BY <1>5, <2>1 DEF Wanted
    <3>2. ~ram[k][x].valid /\ ram[k][x].expert = y /\ y # None
      BY <3>1, WantedFacts, CacheConstants
    <3>3. ~Reaped[k][x].valid /\ Reaped[k][x].expert = y
      BY <2>1, <3>2, ReapEntry
    <3> QED BY <1>a, <3>1, <3>2, <3>3
  <2>2. CASE <<k, y, x>> \notin StillFlying
    <3>1. k = fetch.layer /\ \E c \in fetch.claims : c[1] = y /\ c[2] = x
      BY <1>1, <1>2, <1>5, <2>2 DEF Wanted
    <3>2. Wanted(k, y, x) /\ InClaims(k, x) /\ k # l
      BY <1>2, <3>1 DEF Wanted, InClaims, InFetch, Phases
    <3>3. ~InPf(k, x) /\ ~ram[k][x].valid
      BY <3>2, WantedFacts DEF HostHolds
    <3>4. ~Reaped[k][x].valid
      BY <3>3, ReapEntry
    <3> QED BY <3>2, <3>4
  <2> QED BY <2>1, <2>2
<1>7. WantedHeld'
  <2> SUFFICES ASSUME NEW k \in Layer, NEW y \in Expert, NEW x \in Slot, Wanted(k, y, x)'
               PROVE  ram'[k][x].expert = y /\ ~ram'[k][x].valid /\ ~ram'[k][x].soa
    BY DEF WantedHeld
  <2>1. CASE k = l /\ y = e /\ x = v
    BY <1>3, <2>1
  <2>2. CASE ~(k = l /\ y = e /\ x = v)
    <3>1. Wanted(k, y, x) /\ ~Reaped[k][x].valid /\ ram'[k][x] = Reaped[k][x]
      BY <1>3, <1>6, <2>2
    <3> QED BY <3>1, WantedFacts, ReapEntry
  <2> QED BY <2>1, <2>2
<1>8. ClaimFlags'
  <2> SUFFICES ASSUME NEW c \in fetch.claims PROVE ram'[fetch.layer][c[2]].cold = c[3]
    BY <1>1 DEF ClaimFlags
  <2>1. c[2] \in Slot /\ fetch.layer \in Layer /\ fetch.layer # l
    BY <1>2 DEF Types, FetchOK, FetchRec
  <2>2. ram'[fetch.layer][c[2]] = Reaped[fetch.layer][c[2]]
    BY <1>3, <2>1
  <2> QED BY <2>1, <2>2, ReapEntry DEF ClaimFlags
<1>9. ColdFile'
  <2> SUFFICES ASSUME NEW k \in Layer, NEW x \in Slot PROVE ~ram'[k][x].cold \/ ~ram'[k][x].soa
    BY DEF ColdFile
  <2>1. Reaped[k][x].cold = ram[k][x].cold /\ Reaped[k][x].soa = ram[k][x].soa
    BY ReapEntry
  <2> QED BY <1>3, <2>1 DEF ColdFile
<1>10. MappedWanted'
  <2> SUFFICES ASSUME NEW k \in Layer, NEW y \in Expert, NEW x \in Slot, map'[k][y] = x, ~ram'[k][x].valid
               PROVE  Wanted(k, y, x)'
    BY DEF MappedWanted
  <2>1. CASE k = l /\ x = v /\ y = e
    BY <1>5, <2>1 DEF Wanted
  <2>2. CASE ~(k = l /\ x = v /\ y = e)
    <3>1. map[k][y] = x /\ ~Reaped[k][x].valid
      BY <1>3, <1>4, <2>2
    <3>2. ~ram[k][x].valid
      BY <3>1, ReapEntry
    <3>3. Wanted(k, y, x)
      BY <3>1, <3>2 DEF MappedWanted
    <3>4. <<k, y, x>> \in pf => <<k, y, x>> \in StillFlying
      BY <3>1, ReapEntry
    <3> QED BY <1>1, <1>5, <3>3, <3>4 DEF Wanted
  <2> QED BY <2>1, <2>2
<1> QED BY <1>7, <1>8, <1>9, <1>10

\* The claim of the restore.
LEMMA PrefetchStartClaims ==
    ASSUME Types, Types', Maps', HostHolds, Phases, WantedHeld, ClaimFlags, ColdFile, MappedWanted,
           NEW l \in Layer, NEW e \in Expert, NEW v \in Slot \cup {None}, PrefetchStart(l, e, v)
    PROVE  /\ WantedHeld' /\ ClaimFlags' /\ ColdFile' /\ MappedWanted'
           /\ v # None => /\ ~Claimed(l, v) /\ <<l, v>> \notin rel
                          /\ ram'[l][v].expert = e /\ ~ram'[l][v].valid /\ ~ram'[l][v].soa
                          /\ ram'[l][v].cold = ram[l][v].cold
           /\ \A k \in Layer, x \in Slot : ~(k = l /\ x = v) => ram'[k][x] = ram[k][x]
<1>1. /\ fetch'.claims = {} /\ fetch.claims = {} /\ fetch.next = None
      /\ fetch'.next = [l |-> l, e |-> e, v |-> v] /\ pf' = pf
  <2>1. pf' = pf
    BY DEF PrefetchStart
  <2> QED BY <2>1, StartMoves
<1>2. fetch'.next # None /\ fetch'.next.l = l /\ fetch'.next.e = e /\ fetch'.next.v = v
  <2>1. fetch' \in FetchRec
    BY DEF Types, FetchOK
  <2>2. fetch'.next.l = l /\ fetch'.next.e = e /\ fetch'.next.v = v
    BY <1>1
  <2>3. fetch'.next # None
    <3> DEFINE n == [l |-> l, e |-> e, v |-> v]
    <3>1. n \in [l : Layer, e : Expert, v : Slot \cup {None}]
      OBVIOUS
    <3> QED BY <1>1, <3>1, CacheConstants
  <2> QED BY <2>2, <2>3
<1>3. \A k \in Layer, y \in Expert, x \in Slot : Wanted(k, y, x)' <=> Wanted(k, y, x) \/ (k = l /\ y = e /\ x = v)
  BY <1>1, <1>2 DEF Wanted
<1>4. CASE v = None
  <2>1. ram' = ram /\ map' = map
    BY <1>4 DEF PrefetchStart
  <2>2. \A k \in Layer, y \in Expert, x \in Slot : Wanted(k, y, x)' <=> Wanted(k, y, x)
    BY <1>3, <1>4, CacheConstants
  <2>3. \A k \in Layer, x \in Slot : Same(k, x)
    BY <2>1 DEF Same
  <2>4. \A k \in Layer, x \in Slot, y \in Expert : map'[k][y] = x /\ ~ram'[k][x].valid =>
            map[k][y] = x /\ ~ram[k][x].valid
    BY <2>1
  <2>5. WantedHeld' /\ ClaimFlags' /\ ColdFile' /\ MappedWanted'
    BY <1>1, <2>2, <2>3, <2>4, KeepClaims
  <2> QED BY <1>4, <2>1, <2>5
<1>5. CASE v # None
  <2>0. v \in Slot /\ ram \in [Layer -> [Slot -> RamSlot]]
    BY <1>5 DEF Types, TypeOK
  <2> DEFINE cold == ram[l][v].cold
             new == [expert |-> e, valid |-> FALSE, cold |-> cold, soa |-> FALSE]
  <2>1. /\ cold \in BOOLEAN
        /\ ram' = ClaimRam(ram, l, v, e, cold) /\ map' = ClaimMap(ram, l, v, e)
        /\ ~Claimed(l, v) /\ <<l, v>> \notin rel
    <3>1. ram[l][v] \in RamSlot
      BY <2>0
    <3>2. v \in Evictable(ram, l)
      BY <1>5 DEF PrefetchStart
    <3>3. ram' = ClaimRam(ram, l, v, e, ram[l][v].cold) /\ map' = ClaimMap(ram, l, v, e)
      BY <1>5 DEF PrefetchStart
    <3> QED BY <3>1, <3>2, <3>3 DEF RamSlot, Evictable, Claimed
  <2>2. /\ \A k \in Layer, x \in Slot : ~(k = l /\ x = v) => ram'[k][x] = ram[k][x]
        /\ ram'[l][v].expert = e /\ ~ram'[l][v].valid /\ ~ram'[l][v].soa /\ ram'[l][v].cold = ram[l][v].cold
    <3>1. new.expert = e /\ ~new.valid /\ ~new.soa /\ new.cold = cold
      OBVIOUS
    <3>3. cold = ram[l][v].cold
      OBVIOUS
    <3> HIDE DEF cold
    <3>2. \A k \in Layer, x \in Slot :
              ClaimRam(ram, l, v, e, cold)[k][x] = IF k = l /\ x = v THEN new ELSE ram[k][x]
      BY <2>0, <2>1, ClaimedRam, Z3
    <3> HIDE DEF new
    <3> QED BY <2>0, <2>1, <3>1, <3>2, <3>3
  <2>3. \A k \in Layer, x \in Slot, y \in Expert :
            map'[k][y] = x => (map[k][y] = x /\ ~(k = l /\ x = v)) \/ (k = l /\ x = v /\ y = e)
    <3>1. map' = ClaimMap(ram, l, v, e) /\ ram'[l][v].expert = e
      BY <2>1, <2>2
    <3> HIDE DEF cold, new
    <3>2. \A x \in Slot : map' = ClaimMap(ram, l, x, e) /\ ram'[l][x].expert = e =>
             \A k \in Layer, z \in Slot, y \in Expert :
                map'[k][y] = z => (map[k][y] = z /\ ~(k = l /\ z = x)) \/ (k = l /\ z = x /\ y = e)
      <4> TAKE x \in Slot
      <4> HAVE map' = ClaimMap(ram, l, x, e) /\ ram'[l][x].expert = e
      <4> QED BY ClaimMapped
    <3> QED BY <2>0, <3>1, <3>2
  <2> HIDE DEF cold, new
  <2>4. \A k \in Layer, y \in Expert, x \in Slot : Wanted(k, y, x) => Same(k, x)
    <3> SUFFICES ASSUME NEW k \in Layer, NEW y \in Expert, NEW x \in Slot, Wanted(k, y, x) PROVE Same(k, x)
      OBVIOUS
    <3>1. Claimed(k, x)
      BY WantedFacts
    <3>2. ram'[k][x] = ram[k][x]
      BY <2>1, <2>2, <3>1
    <3> QED BY <3>2 DEF Same
  <2>5. \A k \in Layer, x \in Slot : Same(k, x) \/ ~ram'[k][x].soa
    <3> TAKE k \in Layer, x \in Slot
    <3>1. ram'[k][x] = ram[k][x] \/ ~ram'[k][x].soa
      BY <2>2
    <3> QED BY <3>1 DEF Same
  <2>6. \A k \in Layer, x \in Slot, y \in Expert : map'[k][y] = x /\ ~ram'[k][x].valid =>
            (map[k][y] = x /\ ~ram[k][x].valid) \/ Wanted(k, y, x)'
    BY <1>3, <2>2, <2>3
  <2>7. \A k \in Layer, y \in Expert, x \in Slot : Wanted(k, y, x)' /\ ~Wanted(k, y, x) =>
            ram'[k][x].expert = y /\ ~ram'[k][x].valid /\ ~ram'[k][x].soa
    BY <1>3, <2>2
  <2>8. WantedHeld' /\ ClaimFlags' /\ ColdFile' /\ MappedWanted'
    BY <1>1, <1>3, <2>4, <2>5, <2>6, <2>7, KeepClaims
  <2> QED BY <2>1, <2>2, <2>8
<1> QED BY <1>4, <1>5

-----------------------------------------------------------------------------
\* Nothing is lost while no fetch has failed.
LEMMA NoneLost ==
    ASSUME Types, WantedHeld, PendReads, SettlePending
    PROVE  Lost(fetch.layer) = {}
<1>1. /\ fetch.pc = "begun" /\ \A p \in pend : ~Flying(<<fetch.layer, p[1], p[2]>>)
      /\ fetch.layer \in Layer
  BY DEF SettlePending, Types, FetchOK, AtLayer
<1>2. ASSUME NEW p \in pend PROVE Reaped[fetch.layer][p[2]].valid
  <2>1. p[1] \in Expert /\ p[2] \in Slot
    BY DEF Types, TypeOK
  <2>2. ram[fetch.layer][p[2]].valid \/ <<fetch.layer, p[1], p[2]>> \in pf
    BY <1>1 DEF PendReads
  <2>3. <<fetch.layer, p[1], p[2]>> \notin StillFlying
    BY <1>1 DEF StillFlying
  <2> QED BY <1>1, <2>1, <2>2, <2>3, ReapEntry
<1> QED BY <1>2 DEF Lost

\* The failures are counted.
LEMMA FailedCounts ==
    ASSUME Types, failed = 0, failed' = 0
    PROVE  /\ ~FetchShort /\ \A e \in Expert : ~ServeFails(e)
BY DEF FetchShort, ServeFails

LEMMA StepWants ==
    ASSUME Types, Types', Maps, Maps', Slots, Phases, Claims, failed = 0, failed' = 0, [Next]_vars
    PROVE  WantedHeld' /\ ClaimFlags' /\ ColdFile' /\ MappedWanted'
<1>0. /\ HostHolds /\ fetch.pc # "reread"
      /\ WantedHeld /\ ClaimFlags /\ ColdFile /\ MappedWanted /\ PendReads
  BY DEF Slots, Claims
<1>1. CASE \/ ComputeStep \/ SideStep \/ DiskAny \/ UNCHANGED vars
           \/ FetchStartAny \/ LendAny \/ RefillDone \/ SettleFullDone \/ RestoreBegin \/ RestoreEnds
           \/ FetchSubmit \/ BatchDone \/ SettleLayer \/ SettleLayerDone
           \/ \E e \in Expert : ServeVram(e) \/ ServeClaimed(e)
  BY <1>0, <1>1, QuietClaims
<1>2. CASE ServePromoteAny \/ RefillAny
  <2>1. fetch'.next = fetch.next /\ fetch'.claims = fetch.claims /\ fetch'.layer = fetch.layer
    BY <1>2, GoesOn
  <2>2. CASE ServePromoteAny
    <3>1. PICK e \in Expert, g \in GSlot, pick \in Slot \cup {None}, r \in Ring \cup {None} :
             ServePromote(e, g, pick, r)
      BY <2>2 DEF ServePromoteAny
    <3>2. /\ pf' = pf /\ Promote(fetch.layer, e, FindSlot(fetch.layer, e), g, pick, r)
          /\ fetch.layer \in Layer /\ FindSlot(fetch.layer, e) \in Slot
      BY <3>1, ServeFacts, SlotTypes DEF ServePromote
    <3> QED BY <1>0, <2>1, <3>2, PromoteClaims
  <2>3. CASE RefillAny
    <3>1. PICK e \in Expert, g \in GSlot, pick \in Slot \cup {None}, r \in Ring \cup {None} :
             Refill(e, g, pick, r)
      BY <2>3 DEF RefillAny
    <3>2. /\ pf' = pf /\ Promote(fetch.layer, e, FindSlot(fetch.layer, e), g, pick, r)
          /\ fetch.pc \in {"refill", "warm"} /\ FindSlot(fetch.layer, e) # None
      BY <3>1 DEF Refill
    <3>3. fetch.layer \in Layer
      BY <3>2 DEF Types, FetchOK, AtLayer
    <3>4. FindSlot(fetch.layer, e) \in Slot
      BY <3>2, <3>3, SlotTypes
    <3> QED BY <1>0, <2>1, <3>2, <3>3, <3>4, PromoteClaims
  <2> QED BY <1>2, <2>2, <2>3
<1>3. CASE \E e \in Expert : ServeRam(e)
  BY <1>0, <1>3, ServeRamClaims
<1>4. CASE \E e \in Expert : ServeUpgrade(e)
  <2>1. PICK e \in Expert : ServeUpgrade(e)
    BY <1>4
  <2>2. fetch.layer \in Layer /\ FindSlot(fetch.layer, e) \in Slot
    BY <2>1, ServeFacts, SlotTypes DEF ServeUpgrade
  <2> QED BY <1>0, <2>1, <2>2, ServeUpgradeClaims
<1>5. CASE ServeMissAny
  <2>1. PICK e \in Expert, v \in Slot, cold \in BOOLEAN : ServeMiss(e, v, cold)
    BY <1>5 DEF ServeMissAny
  <2>2. fetch.layer \in Layer
    BY <2>1, ServeFacts DEF ServeMiss
  <2> QED BY <1>0, <2>1, <2>2, ServeMissClaims
<1>6. CASE PrefetchAny
  <2>1. PICK l \in Layer, e \in Expert, v \in Slot, cold \in BOOLEAN : PrefetchBegin(l, e, v, cold)
    BY <1>6 DEF PrefetchAny
  <2> QED BY <1>0, <2>1, PrefetchBeginClaims
<1>7. CASE PrefetchReap
  <2>1. ram' = Reaped /\ pf' = StillFlying /\ map' = map /\ fetch' = fetch
    BY <1>7 DEF PrefetchReap
  <2> QED BY <1>0, <2>1, ReapClaims
<1>8. CASE SettlePending
  <2>1. ram' = Reaped /\ pf' = StillFlying /\ map' = map
    BY <1>8 DEF SettlePending
  <2>2. fetch' = fetch
    BY <1>0, <1>8, NoneLost, PendingMoves
  <2> QED BY <1>0, <2>1, <2>2, ReapClaims
<1>9. CASE FetchEnd
  BY <1>0, <1>9, FetchEndClaims
<1>10. CASE FinishSwap
  BY <1>0, <1>10, FinishSwapClaims
<1>11. CASE WarmAny
  <2>1. PICK l \in Layer, e \in Expert, v \in Slot : Warm(l, e, v)
    BY <1>11 DEF WarmAny
  <2> QED BY <1>0, <2>1, WarmClaims
<1>12. CASE BatchAny
  <2>1. PICK l \in Layer, es \in {ToSet(list) : list \in Lists} :
           \E adopt \in Adoptions(l, {e \in es : ~BatchHit(l, e)}) : FetchBatch(l, es, adopt)
    BY <1>12 DEF BatchAny
  <2>2. es \in SUBSET Expert
    BY <2>1 DEF Lists, ToSet
  <2>3. PICK adopt \in Adoptions(l, {e \in es : ~BatchHit(l, e)}) : FetchBatch(l, es, adopt)
    BY <2>1
  <2> QED BY <1>0, <2>2, <2>3, BatchClaims
<1>13. CASE RestoreAny
  <2>1. PICK l \in Layer, e \in Expert, v \in Slot \cup {None} : PrefetchStart(l, e, v)
    BY <1>13 DEF RestoreAny
  <2> QED BY <1>0, <2>1, PrefetchStartClaims
<1>14. CASE PrefetchFinish
  BY <1>0, <1>14, FinishClaims
<1>15. CASE RereadAny \/ RereadReturns \/ FetchShort \/ \E e \in Expert : ServeFails(e)
  BY <1>0, <1>15, FailedCounts DEF RereadAny, Reread, RereadReturns
<1> QED BY <1>1, <1>2, <1>3, <1>4, <1>5, <1>6, <1>7, <1>8, <1>9, <1>10, <1>11, <1>12, <1>13, <1>14, <1>15, Zenon
        DEF Next, FetchSteps, ServeAny

\* The rest of a list that is being served.
LEMMA ListGoesOn ==
    ASSUME Types, ListsApart, NEW e \in Expert, Serving(e)
    PROVE  /\ \A i, j \in 1..Len(Tail(fetch.todo)) : Tail(fetch.todo)[i] = Tail(fetch.todo)[j] => i = j
           /\ \A i \in 1..Len(Tail(fetch.todo)) :
                 /\ Tail(fetch.todo)[i] # e
                 /\ \A c \in fetch.claims : c[1] # Tail(fetch.todo)[i]
                 /\ \A p \in pend : p[1] # Tail(fetch.todo)[i]
           /\ \A c \in fetch.claims : c[1] # e
           /\ \A p \in pend : p[1] # e
<1> DEFINE q == fetch.todo
           t == Tail(fetch.todo)
<1>1. fetch.pc = "serve" /\ q # <<>> /\ e = Head(q) /\ q \in Seq(Expert)
  BY DEF Serving, Types, FetchOK, FetchRec
<1>2. /\ \A i \in 1..Len(q) :
            /\ \A j \in 1..Len(q) : q[i] = q[j] => i = j
            /\ \A c \in fetch.claims : c[1] # q[i]
            /\ \A p \in pend : p[1] # q[i]
  BY <1>1 DEF ListsApart
<1>3. /\ 1 \in 1..Len(q) /\ e = q[1]
      /\ \A i \in 1..Len(t) : i + 1 \in 1..Len(q) /\ t[i] = q[i + 1] /\ i + 1 # 1
      /\ \A i, j \in 1..Len(t) : i + 1 = j + 1 => i = j
  BY <1>1
<1> HIDE DEF q, t
<1>4. \A i, j \in 1..Len(t) : t[i] = t[j] => i = j
  <2> TAKE i, j \in 1..Len(t)
  <2> HAVE t[i] = t[j]
  <2>1. q[i + 1] = q[j + 1] /\ i + 1 \in 1..Len(q) /\ j + 1 \in 1..Len(q)
    BY <1>3
  <2>2. i + 1 = j + 1
    BY <1>2, <2>1
  <2> QED BY <1>3, <2>2
<1>5. \A i \in 1..Len(t) : t[i] # e /\ (\A c \in fetch.claims : c[1] # t[i]) /\ (\A p \in pend : p[1] # t[i])
  BY <1>2, <1>3
<1>6. (\A c \in fetch.claims : c[1] # e) /\ (\A p \in pend : p[1] # e)
  BY <1>2, <1>3
<1> QED BY <1>4, <1>5, <1>6 DEF t

\* What was taken over while a list is served is claimed, so no slot of it is handed out.
LEMMA PendClaimed ==
    ASSUME Types, HostHolds, PendReads, fetch.pc = "serve", NEW p \in pend
    PROVE  /\ Claimed(fetch.layer, p[2]) /\ fetch.layer \in Layer /\ p[2] \in Slot /\ p[1] \in Expert
           /\ ram[fetch.layer][p[2]].expert = p[1] /\ <<fetch.layer, p[1], p[2]>> \in pf
           /\ \A c \in fetch.claims : c[1] # p[1]
<1>1. p[2] \in Slot /\ p[1] \in Expert /\ fetch.layer \in Layer
  BY DEF Types, TypeOK, FetchOK, AtLayer
<1>2. InPend(fetch.layer, p[2])
  BY DEF InPend
<1>3. Claimed(fetch.layer, p[2])
  BY <1>1, <1>2 DEF HostHolds, InHeld
<1> QED BY <1>1, <1>3 DEF PendReads, Claimed

\* A list goes on being served: what the step claims for its expert, if anything, it claims
\* in a slot that was not claimed.
LEMMA ServeLists ==
    ASSUME Types, HostHolds, Phases, PendReads, ListsApart, NEW e \in Expert, Serving(e), pf' = pf,
           fetch'.pc = "serve", fetch'.layer = fetch.layer, fetch'.todo = Tail(fetch.todo),
           \A c \in fetch'.claims : c \in fetch.claims \/ c[1] = e,
           \A p \in pend' : p \in pend \/ (p[1] = e /\ ram'[fetch.layer][p[2]].expert = e
                                           /\ <<fetch.layer, e, p[2]>> \in pf
                                           /\ fetch'.claims = fetch.claims),
           \A x \in Slot : Claimed(fetch.layer, x) => ram'[fetch.layer][x].expert = ram[fetch.layer][x].expert
    PROVE  PendReads' /\ ListsApart'
<1> DEFINE t == Tail(fetch.todo)
<1>1. fetch.pc = "serve"
  BY DEF Serving
<1>2. /\ \A i, j \in 1..Len(t) : t[i] = t[j] => i = j
      /\ \A i \in 1..Len(t) : /\ t[i] # e
                              /\ \A c \in fetch.claims : c[1] # t[i]
                              /\ \A p \in pend : p[1] # t[i]
      /\ \A c \in fetch.claims : c[1] # e
      /\ \A p \in pend : p[1] # e
  BY ListGoesOn
<1> HIDE DEF t
<1>3. ListsApart'
  <2>1. \A i \in 1..Len(t) : /\ \A j \in 1..Len(t) : t[i] = t[j] => i = j
                             /\ \A c \in fetch'.claims : c[1] # t[i]
                             /\ \A p \in pend' : p[1] # t[i]
    BY <1>2
  <2> QED BY <2>1 DEF ListsApart, t
<1>4. \A p \in pend' : /\ ram'[fetch.layer][p[2]].expert = p[1]
                       /\ <<fetch.layer, p[1], p[2]>> \in pf
                       /\ \A c \in fetch'.claims : c[1] # p[1]
  <2> TAKE p \in pend'
  <2>1. CASE p \in pend
    <3>1. /\ Claimed(fetch.layer, p[2]) /\ p[2] \in Slot
          /\ ram[fetch.layer][p[2]].expert = p[1] /\ <<fetch.layer, p[1], p[2]>> \in pf
          /\ \A c \in fetch.claims : c[1] # p[1]
      BY <1>1, <2>1, PendClaimed
    <3> QED BY <1>2, <2>1, <3>1
  <2>2. CASE p \notin pend
    BY <1>2, <2>2
  <2> QED BY <2>1, <2>2
<1>5. PendReads'
  BY <1>4 DEF PendReads
<1> QED BY <1>3, <1>5

\* A promotion takes no claimed slot.
LEMMA PromoteClaimed ==
    ASSUME Types, Maps, NEW l \in Layer, NEW e \in Expert, NEW s \in Slot, NEW g \in GSlot,
           NEW pick, NEW r, Promote(l, e, s, g, pick, r), NEW x \in Slot, Claimed(l, x)
    PROVE  ram'[l][x].expert = ram[l][x].expert
<1>1. PICK to : to = IF pick = s THEN None ELSE pick
  OBVIOUS
<1>2. to # None => ~Claimed(l, to)
  BY <1>1, PromoteEntries
<1>3. x # to
  BY <1>2, CacheConstants
<1>4. Same(l, x)
  BY <1>1, <1>3, PromoteLayouts
<1> QED BY <1>4 DEF Same

\* The steps of a list.
LEMMA ServeStepLists ==
    ASSUME Types, Types', Maps, Maps', Slots, Phases, Claims,
           \/ ServePromoteAny \/ ServeMissAny
           \/ \E e \in Expert : ServeVram(e) \/ ServeClaimed(e) \/ ServeRam(e) \/ ServeUpgrade(e)
    PROVE  PendReads' /\ ListsApart'
<1>0. HostHolds /\ PendReads /\ ListsApart /\ WantedHeld /\ ClaimFlags /\ ColdFile /\ MappedWanted /\ fetch \in FetchRec
  BY DEF Slots, Claims, Types, FetchOK
<1>1. CASE \E e \in Expert : ServeVram(e) \/ ServeClaimed(e) \/ ServeRam(e)
  <2>1. PICK e \in Expert : ServeVram(e) \/ ServeClaimed(e) \/ ServeRam(e)
    BY <1>1
  <2>2. /\ Serving(e) /\ fetch' = [fetch EXCEPT !.todo = Tail(@)] /\ pf' = pf /\ fetch.pc = "serve"
    BY <2>1 DEF ServeVram, ServeClaimed, ServeRam, Served, Serving
  <2>3. fetch'.pc = "serve" /\ fetch'.layer = fetch.layer /\ fetch'.todo = Tail(fetch.todo) /\ fetch'.claims = fetch.claims
    BY <1>0, <2>2 DEF FetchRec
  <2>4. CASE ServeVram(e)
    <3>1. ram' = ram /\ pend' = pend
      BY <2>4 DEF ServeVram
    <3> QED BY <1>0, <2>2, <2>3, <3>1, ServeLists
  <2>5. CASE ServeRam(e)
    <3>1. pend' = pend
      BY <2>5 DEF ServeRam
    <3>2. fetch.layer \in Layer
      BY <2>2, ServeFacts
    <3>3. \A x \in Slot : ram'[fetch.layer][x].expert = ram[fetch.layer][x].expert
      BY <2>5, <3>2, ServedRam DEF Same
    <3> QED BY <1>0, <2>2, <2>3, <3>1, <3>3, ServeLists
  <2>6. CASE ServeClaimed(e)
    <3> DEFINE l == fetch.layer
               cs == map[fetch.layer][e]
               n == <<e, cs>>
    <3>1. /\ ram' = ram /\ pend' = pend \cup {n} /\ cs # None /\ ram[l][cs].expert = e /\ ~ram[l][cs].valid
      BY <2>6 DEF ServeClaimed
    <3>2. l \in Layer /\ cs \in Slot
      BY <2>2, <3>1, ServeFacts DEF Types, TypeOK
    <3>3. Wanted(l, e, cs)
      BY <1>0, <3>1, <3>2 DEF MappedWanted
    <3>4. \A c \in fetch.claims : c[1] # e
      BY <1>0, <2>2, ListGoesOn
    <3>5. fetch.next = None
      BY <2>2 DEF Phases
    <3>6. <<l, e, cs>> \in pf
      BY <3>3, <3>4, <3>5 DEF Wanted
    <3>7. n[1] = e /\ n[2] = cs
      OBVIOUS
    <3> HIDE DEF n, cs
    <3>8. \A p \in pend' : p \in pend \/ (p[1] = e /\ ram'[l][p[2]].expert = e /\ <<l, e, p[2]>> \in pf
                                           /\ fetch'.claims = fetch.claims)
      BY <2>3, <3>1, <3>6, <3>7
    <3> QED BY <1>0, <2>2, <2>3, <3>1, <3>8, ServeLists
  <2> QED BY <2>1, <2>4, <2>5, <2>6
<1>2. CASE ServePromoteAny
  <2>1. PICK e \in Expert, g \in GSlot, pick \in Slot \cup {None}, r \in Ring \cup {None} :
           ServePromote(e, g, pick, r)
    BY <1>2 DEF ServePromoteAny
  <2>2. /\ Promote(fetch.layer, e, FindSlot(fetch.layer, e), g, pick, r) /\ Serving(e) /\ pf' = pf /\ pend' = pend
        /\ fetch.layer \in Layer /\ FindSlot(fetch.layer, e) \in Slot
        /\ fetch' = [fetch EXCEPT !.todo = Tail(@), !.promoted = @ + 1] /\ fetch.pc = "serve"
    BY <2>1, ServeFacts, SlotTypes DEF ServePromote
  <2>3. fetch'.pc = "serve" /\ fetch'.layer = fetch.layer /\ fetch'.todo = Tail(fetch.todo) /\ fetch'.claims = fetch.claims
    BY <1>0, <2>2 DEF FetchRec
  <2>7. \A x \in Slot : Claimed(fetch.layer, x) => ram'[fetch.layer][x].expert = ram[fetch.layer][x].expert
    BY <2>2, PromoteClaimed
  <2> QED BY <1>0, <2>2, <2>3, <2>7, ServeLists
<1>3. CASE ServeMissAny
  <2>1. PICK e \in Expert, v \in Slot, cold \in BOOLEAN : ServeMiss(e, v, cold)
    BY <1>3 DEF ServeMissAny
  <2>2. /\ Serving(e) /\ pf' = pf /\ pend' = pend /\ ~Claimed(fetch.layer, v) /\ fetch.layer \in Layer
        /\ ram' = ClaimRam(ram, fetch.layer, v, e, cold)
    BY <2>1, ServeFacts DEF ServeMiss, Evictable, Claimed
  <2> DEFINE n == <<e, v, cold>>
  <2>3. /\ fetch'.pc = "serve" /\ fetch'.layer = fetch.layer /\ fetch'.todo = Tail(fetch.todo)
        /\ fetch'.claims = fetch.claims \cup {n}
    BY <1>0, <2>1, FetchClaims
  <2>4. n[1] = e
    OBVIOUS
  <2>5. \A x \in Slot : x # v => ram'[fetch.layer][x] = ram[fetch.layer][x]
    <3>1. ram \in [Layer -> [Slot -> RamSlot]]
      BY DEF Types, TypeOK
    <3> QED BY <2>2, <3>1 DEF ClaimRam
  <2>6. \A x \in Slot : Claimed(fetch.layer, x) => ram'[fetch.layer][x].expert = ram[fetch.layer][x].expert
    BY <2>2, <2>5
  <2> HIDE DEF n
  <2>7. \A c \in fetch'.claims : c \in fetch.claims \/ c[1] = e
    BY <2>3, <2>4
  <2> QED BY <1>0, <2>2, <2>3, <2>6, <2>7, ServeLists
<1>4. CASE \E e \in Expert : ServeUpgrade(e)
  <2>1. PICK e \in Expert : ServeUpgrade(e)
    BY <1>4
  <2> DEFINE v == FindSlot(fetch.layer, e)
             n == <<e, v, FALSE>>
  <2>2. /\ Serving(e) /\ pf' = pf /\ pend' = pend /\ fetch.layer \in Layer /\ v \in Slot
    BY <2>1, ServeFacts, SlotTypes DEF ServeUpgrade
  <2>3. /\ fetch'.pc = "serve" /\ fetch'.layer = fetch.layer /\ fetch'.todo = Tail(fetch.todo)
        /\ fetch'.claims = fetch.claims \cup {n}
    BY <1>0, <2>1, <2>2, FetchClaims
  <2>4. n[1] = e
    OBVIOUS
  <2> HIDE DEF v, n
  <2>5. /\ \A x \in Slot : ~(x = v) => ram'[fetch.layer][x] = ram[fetch.layer][x]
        /\ ram'[fetch.layer][v].expert = e /\ ram[fetch.layer][v].expert = e
    BY <1>0, <2>1, <2>2, ServeUpgradeClaims DEF v
  <2>6. \A x \in Slot : Claimed(fetch.layer, x) => ram'[fetch.layer][x].expert = ram[fetch.layer][x].expert
    BY <2>5
  <2>7. \A c \in fetch'.claims : c \in fetch.claims \/ c[1] = e
    BY <2>3, <2>4
  <2> QED BY <1>0, <2>2, <2>3, <2>6, <2>7, ServeLists
<1> QED BY <1>1, <1>2, <1>3, <1>4

\* The steps after which no list is served and no fetch has begun.
LEMMA Elsewhere ==
    ASSUME Types, Types', HostHolds, Phases, fetch.pc # "reread",
           \/ FinishSwap \/ RefillAny \/ LendAny \/ RefillDone \/ SettleFullDone \/ RestoreBegin \/ RestoreEnds
           \/ WarmAny \/ BatchAny \/ BatchDone \/ PrefetchFinish \/ RestoreAny \/ FetchEnd
           \/ SettleLayer \/ SettleLayerDone
    PROVE  fetch'.pc \notin {"serve", "begun", "reread"}
<1>0. fetch \in FetchRec
  BY DEF Types, FetchOK
<1>1. CASE FinishSwap \/ RefillAny
  <2>1. fetch'.pc = fetch.pc
    BY <1>1, GoesOn
  <2>2. fetch.pc \in {"settle", "refill", "warm"}
    BY <1>1 DEF FinishSwap, RefillAny, Refill
  <2> QED BY <2>1, <2>2
<1>2. CASE LendAny
  <2>1. \/ \E l : fetch' = [NoFetch EXCEPT !.pc = "settle", !.full = TRUE, !.lend = l]
        \/ \E l, c : fetch' = [NoFetch EXCEPT !.pc = "refill", !.layer = l, !.cand = c]
    BY <1>2 DEF LendAny, LendBegin, LendEnd
  <2>2. CASE \E l : fetch' = [NoFetch EXCEPT !.pc = "settle", !.full = TRUE, !.lend = l]
    BY <2>2 DEF NoFetch
  <2>3. CASE \E l, c : fetch' = [NoFetch EXCEPT !.pc = "refill", !.layer = l, !.cand = c]
    BY <2>3 DEF NoFetch
  <2> QED BY <2>1, <2>2, <2>3
<1>3. CASE RefillDone
  <2>1. fetch' = [NoFetch EXCEPT !.pc = "settle", !.full = TRUE, !.restore = fetch.next # None, !.next = fetch.next]
    BY <1>3 DEF RefillDone
  <2> QED BY <2>1 DEF NoFetch
<1>4. CASE SettleFullDone
  <2>1. \/ fetch' = [NoFetch EXCEPT !.pc = "restore", !.next = fetch.next]
        \/ fetch' = NoFetch
    BY <1>4 DEF SettleFullDone
  <2>2. CASE fetch' = [NoFetch EXCEPT !.pc = "restore", !.next = fetch.next]
    BY <2>2 DEF NoFetch
  <2> QED BY <2>1, <2>2 DEF NoFetch
<1>5. CASE RestoreBegin
  <2>1. fetch' = [NoFetch EXCEPT !.pc = "settle", !.full = TRUE, !.restore = TRUE]
    BY <1>5 DEF RestoreBegin
  <2> QED BY <2>1 DEF NoFetch
<1>6. CASE RestoreEnds
  BY <1>6 DEF RestoreEnds, NoFetch
<1>7. CASE WarmAny
  BY <1>7, WarmEffect DEF WarmAny
<1>8. CASE BatchAny
  BY <1>8, BatchReads DEF BatchAny
<1>9. CASE BatchDone \/ PrefetchFinish
  BY <1>9, BatchReaped, RestoreReads
<1>10. CASE RestoreAny
  BY <1>10, StartMoves DEF RestoreAny
<1>11. CASE FetchEnd
  <2>1. CASE fetch.deferred
    BY <1>11, <2>1 DEF FetchEnd, NoFetch
  <2>2. CASE ~fetch.deferred
    BY <1>11, <2>2, EndMoves
  <2> QED BY <2>1, <2>2
<1>12. CASE SettleLayer
  <2>1. CASE fetch.pc = "ended"
    <3>1. fetch' = [NoFetch EXCEPT !.pc = "settle"]
      BY <1>12, <2>1 DEF SettleLayer
    <3> QED BY <3>1 DEF NoFetch
  <2>2. CASE fetch.pc # "ended"
    BY <1>12, <2>2, DeferMoves
  <2> QED BY <2>1, <2>2
<1>13. CASE SettleLayerDone
  <2>1. CASE fetch.deferred
    BY <1>13, <2>1, DeferMoves
  <2>2. CASE ~fetch.deferred
    BY <1>13, <2>2 DEF SettleLayerDone, NoFetch
  <2> QED BY <2>1, <2>2
<1> QED BY <1>1, <1>2, <1>3, <1>4, <1>5, <1>6, <1>7, <1>8, <1>9, <1>10, <1>11, <1>12, <1>13, Zenon

\* Reaping keeps what was taken over.
LEMMA ReapLists ==
    ASSUME Types, WantedHeld, PendReads, fetch.pc = "begun" => fetch.layer \in Layer, fetch' = fetch, pend' = pend,
           fetch.pc # "serve",
           StillFlying \subseteq pf',
           fetch.pc = "begun" => \A x \in Slot : ram'[fetch.layer][x] = Reaped[fetch.layer][x]
    PROVE  PendReads' /\ ListsApart'
<1>1. ListsApart'
  BY DEF ListsApart
<1>2. ASSUME fetch.pc = "begun", NEW p \in pend
      PROVE  /\ ram'[fetch.layer][p[2]].expert = p[1]
             /\ ram'[fetch.layer][p[2]].valid \/ <<fetch.layer, p[1], p[2]>> \in pf'
             /\ \A c \in fetch.claims : c[1] # p[1]
  <2>1. p[1] \in Expert /\ p[2] \in Slot
    BY DEF Types, TypeOK
  <2>2. /\ ram[fetch.layer][p[2]].expert = p[1]
        /\ ram[fetch.layer][p[2]].valid \/ <<fetch.layer, p[1], p[2]>> \in pf
        /\ \A c \in fetch.claims : c[1] # p[1]
    BY <1>2 DEF PendReads
  <2>3. ram'[fetch.layer][p[2]] = Reaped[fetch.layer][p[2]]
    BY <1>2, <2>1
  <2> QED BY <1>2, <2>1, <2>2, <2>3, ReapEntry
<1>3. PendReads'
  BY <1>2 DEF PendReads
<1> QED BY <1>1, <1>3

LEMMA StepClaims ==
    ASSUME Types, Types', Maps, Maps', Slots, Phases, Claims, failed = 0, failed' = 0, [Next]_vars
    PROVE  Claims'
<1>0. /\ HostHolds /\ fetch.pc # "reread" /\ fetch \in FetchRec
      /\ WantedHeld /\ ClaimFlags /\ ColdFile /\ MappedWanted /\ PendReads /\ ListsApart
  BY DEF Slots, Claims, Types, FetchOK
<1>1. WantedHeld' /\ ClaimFlags' /\ ColdFile' /\ MappedWanted'
  BY StepWants
<1>2. fetch'.pc # "reread" /\ PendReads' /\ ListsApart'
  <2>1. CASE \/ ServePromoteAny \/ ServeMissAny
             \/ \E e \in Expert : ServeVram(e) \/ ServeClaimed(e) \/ ServeRam(e) \/ ServeUpgrade(e)
    <3>1. PendReads' /\ ListsApart'
      BY <2>1, ServeStepLists
    <3>2. fetch'.pc # "reread"
      <4>1. CASE ServePromoteAny \/ \E e \in Expert : ServeVram(e) \/ ServeClaimed(e) \/ ServeRam(e)
        BY <1>0, <4>1, GoesOn
      <4>2. CASE ServeMissAny
        BY <1>0, <4>2, FetchClaims DEF ServeMissAny
      <4>3. CASE \E e \in Expert : ServeUpgrade(e)
        <5>1. PICK e \in Expert : ServeUpgrade(e)
          BY <4>3
        <5>2. FindSlot(fetch.layer, e) \in Slot
          BY <5>1, ServeFacts, SlotTypes DEF ServeUpgrade
        <5> QED BY <1>0, <5>1, <5>2, FetchClaims
      <4> QED BY <2>1, <4>1, <4>2, <4>3
    <3> QED BY <3>1, <3>2
  <2>2. CASE \/ FinishSwap \/ RefillAny \/ LendAny \/ RefillDone \/ SettleFullDone \/ RestoreBegin \/ RestoreEnds
             \/ WarmAny \/ BatchAny \/ BatchDone \/ PrefetchFinish \/ RestoreAny \/ FetchEnd
             \/ SettleLayer \/ SettleLayerDone
    <3>1. fetch'.pc \notin {"serve", "begun", "reread"}
      BY <1>0, <2>2, Elsewhere
    <3> QED BY <3>1 DEF PendReads, ListsApart
  <2>3. CASE FetchStartAny
    <3>1. PICK l \in Layer, list \in Lists : FetchStart(l, list)
      BY <2>3 DEF FetchStartAny
    <3>2. fetch' = [NoFetch EXCEPT !.pc = "serve", !.layer = l, !.todo = list] /\ pend' = {}
      BY <3>1 DEF FetchStart
    <3>3. fetch'.pc = "serve" /\ fetch'.todo = list /\ fetch'.claims = {}
      BY <3>2 DEF NoFetch
    <3>4. \A i, j \in 1..Len(list) : list[i] = list[j] => i = j
      <4>1. PICK n \in 1..MaxFetch : list \in {f \in [1..n -> Expert] : \A i, j \in 1..n : f[i] = f[j] => i = j}
        BY DEF Lists
      <4>2. Len(list) = n
        BY <4>1, CacheConstants
      <4> QED BY <4>1, <4>2
    <3> QED BY <3>2, <3>3, <3>4 DEF PendReads, ListsApart
  <2>4. CASE FetchSubmit
    <3>1. ram' = ram /\ pf' = pf /\ pend' = pend
      BY <2>4 DEF FetchSubmit, tables
    <3>2. fetch.pc = "serve" /\ fetch'.pc = "begun" /\ fetch'.layer = fetch.layer /\ fetch'.claims = fetch.claims
      BY <1>0, <2>4, SubmitMoves
    <3> QED BY <1>0, <3>1, <3>2 DEF PendReads, ListsApart
  <2>5. CASE SettlePending
    <3>1. pend' = {} /\ fetch' = fetch /\ fetch.pc = "begun"
      BY <1>0, <2>5, NoneLost, PendingMoves DEF SettlePending
    <3> QED BY <3>1 DEF PendReads, ListsApart
  <2>6. CASE ComputeStep \/ SideStep \/ DiskAny \/ UNCHANGED vars
    <3>1. ram' = ram /\ pf' = pf /\ pend' = pend /\ fetch' = fetch
      BY <2>6 DEF ComputeStep, SideStep, DiskAny, DiskLand, vars, tables, hostv
    <3> QED BY <1>0, <3>1 DEF PendReads, ListsApart
  <2>7. CASE PrefetchReap
    <3>1. ram' = Reaped /\ pf' = StillFlying /\ pend' = pend /\ fetch' = fetch /\ fetch.pc # "serve"
      BY <2>7 DEF PrefetchReap
    <3>2. fetch.pc = "begun" => fetch.layer \in Layer
      BY DEF Types, FetchOK, AtLayer
    <3> QED BY <1>0, <3>1, <3>2, ReapLists
  <2>8. CASE PrefetchAny
    <3>1. PICK l \in Layer, e \in Expert, v \in Slot, cold \in BOOLEAN : PrefetchBegin(l, e, v, cold)
      BY <2>8 DEF PrefetchAny
    <3>2. pend' = pend /\ fetch.pc # "serve"
      BY <3>1 DEF PrefetchBegin, MayPrefetch
    <3>a. PrefetchTakes(l, e, v, cold)
      BY <1>0, <3>1, PrefetchBegins
    <3>3. /\ pf' = StillFlying \cup {<<l, e, v>>} /\ fetch' = fetch
          /\ fetch.claims # {} \/ fetch.pc = "begun" => fetch.layer \in Layer /\ l # fetch.layer
          /\ \A k \in Layer, x \in Slot : ~(k = l /\ x = v) => ram'[k][x] = Reaped[k][x]
      BY <3>a DEF PrefetchTakes
    <3>4. fetch.pc = "begun" => fetch.layer \in Layer
      BY <3>3
    <3>5. fetch.pc = "begun" => \A x \in Slot : ram'[fetch.layer][x] = Reaped[fetch.layer][x]
      BY <3>3
    <3> QED BY <1>0, <3>2, <3>3, <3>4, <3>5, ReapLists
  <2>9. CASE RereadAny \/ RereadReturns \/ FetchShort \/ \E e \in Expert : ServeFails(e)
    BY <1>0, <2>9, FailedCounts DEF RereadAny, Reread, RereadReturns
  <2> QED BY <2>1, <2>2, <2>3, <2>4, <2>5, <2>6, <2>7, <2>8, <2>9, Zenon DEF Next, FetchSteps, ServeAny
<1> QED BY <1>1, <1>2 DEF Claims

\* No failure is taken back.
LEMMA FailedStays ==
    ASSUME Types, [Next]_vars, failed' = 0
    PROVE  failed = 0
<1>1. failed \in Nat
  BY CacheConstants DEF Types, TypeOK
<1>2. CASE FetchShort \/ \E e \in Expert : ServeFails(e)
  <2>1. failed' = failed + 1
    BY <1>2 DEF FetchShort, ServeFails
  <2> QED BY <1>1, <2>1
<1>3. CASE \/ ServePromoteAny \/ ServeMissAny \/ FetchStartAny \/ LendAny \/ FinishSwap
           \/ \E e \in Expert : ServeVram(e) \/ ServeClaimed(e) \/ ServeRam(e) \/ ServeUpgrade(e)
  <2>1. CASE FinishSwap
    BY <2>1 DEF FinishSwap
  <2>2. CASE LendAny
    <3>1. PICK l \in Layer : LendBegin(l) \/ LendEnd(l)
      BY <2>2 DEF LendAny
    <3> QED BY <3>1 DEF LendBegin, LendEnd
  <2>3. CASE ServePromoteAny \/ ServeMissAny \/ FetchStartAny
    BY <2>3 DEF ServePromoteAny, ServePromote, ServeMissAny, ServeMiss, FetchStartAny, FetchStart
  <2>4. CASE \E e \in Expert : ServeVram(e) \/ ServeClaimed(e) \/ ServeRam(e) \/ ServeUpgrade(e)
    BY <2>4 DEF ServeVram, ServeClaimed, ServeRam, ServeUpgrade
  <2> QED BY <1>3, <2>1, <2>2, <2>3, <2>4, Zenon
<1>4. CASE FetchSubmit \/ SettlePending \/ RereadAny \/ RereadReturns \/ FetchEnd \/ SettleLayer \/ SettleLayerDone
  BY <1>4 DEF FetchSubmit, SettlePending, RereadAny, Reread, RereadReturns, FetchEnd, SettleLayer, SettleLayerDone
<1>5. CASE SettleFullDone \/ BatchDone \/ PrefetchFinish \/ RestoreEnds \/ PrefetchAny \/ PrefetchReap
  <2>1. CASE PrefetchAny
    <3>1. PICK l \in Layer, e \in Expert, v \in Slot, cold \in BOOLEAN : PrefetchBegin(l, e, v, cold)
      BY <2>1 DEF PrefetchAny
    <3> QED BY <3>1 DEF PrefetchBegin
  <2>2. CASE SettleFullDone \/ BatchDone \/ PrefetchFinish \/ RestoreEnds \/ PrefetchReap
    BY <2>2 DEF SettleFullDone, BatchDone, PrefetchFinish, RestoreEnds, PrefetchReap
  <2> QED BY <1>5, <2>1, <2>2
<1>6. CASE RefillAny \/ RefillDone \/ WarmAny \/ BatchAny \/ RestoreBegin \/ RestoreAny
  <2>1. CASE RefillAny
    <3>1. PICK e \in Expert, g \in GSlot, pick \in Slot \cup {None}, r \in Ring \cup {None} : Refill(e, g, pick, r)
      BY <2>1 DEF RefillAny
    <3> QED BY <3>1 DEF Refill
  <2>2. CASE WarmAny
    <3>1. PICK l \in Layer, e \in Expert, v \in Slot : Warm(l, e, v)
      BY <2>2 DEF WarmAny
    <3> QED BY <3>1 DEF Warm
  <2>3. CASE BatchAny
    <3>0. PICK l \in Layer : \E es, adopt : FetchBatch(l, es, adopt)
      BY <2>3 DEF BatchAny
    <3>1. PICK es, adopt : FetchBatch(l, es, adopt)
      BY <3>0
    <3> QED BY <3>1 DEF FetchBatch
  <2>4. CASE RestoreAny
    <3>1. PICK l \in Layer, e \in Expert, v \in Slot \cup {None} : PrefetchStart(l, e, v)
      BY <2>4 DEF RestoreAny
    <3> QED BY <3>1 DEF PrefetchStart
  <2>5. CASE RefillDone \/ RestoreBegin
    BY <2>5 DEF RefillDone, RestoreBegin
  <2> QED BY <1>6, <2>1, <2>2, <2>3, <2>4, <2>5
<1>7. CASE ComputeStep \/ SideStep \/ DiskAny \/ UNCHANGED vars
  BY <1>7 DEF ComputeStep, SideStep, DiskAny, DiskLand, vars, hostv
<1> QED BY <1>2, <1>3, <1>4, <1>5, <1>6, <1>7, Zenon DEF Next, FetchSteps, ServeAny

LEMMA ClaimsAlways == Spec => [](failed = 0 => Claims)
<1>1. Init => Claims
  <2> SUFFICES ASSUME Init PROVE Claims
    OBVIOUS
  <2>1. pf = {} /\ fetch.pc = "idle" /\ fetch.claims = {} /\ fetch.next = None
    BY DEF Init, NoFetch
  <2>2. /\ \A k \in Layer, x \in Slot : ~ram[k][x].cold
        /\ \A k \in Layer, e \in Expert : map[k][e] = None
    BY DEF Init, Empty
  <2> QED BY <2>1, <2>2, CacheConstants
          DEF Claims, WantedHeld, Wanted, ClaimFlags, ColdFile, MappedWanted, PendReads, ListsApart
<1>2. /\ Types /\ Types' /\ Maps /\ Maps' /\ Slots /\ Phases /\ (failed = 0 => Claims) /\ [Next]_vars
      => (failed = 0 => Claims)'
  BY StepClaims, FailedStays
<1> QED BY <1>1, <1>2, TypesAlways, MapsAlways, SlotsAlways, PhasesAlways, PTL DEF Spec

-----------------------------------------------------------------------------
\* What a step other than the settle of a swap does to a RAM slot: nothing, or it marks
\* it as valid; or, at the layer the host works on, whose read-backs have landed, it puts
\* the block into the file's layout, gives up a cold copy, or takes the slot.
Kept(k, x) ==
    /\ ram'[k][x].expert = ram[k][x].expert /\ ram'[k][x].valid = ram[k][x].valid
    /\ ram'[k][x].cold = ram[k][x].cold /\ ram'[k][x].soa = ram[k][x].soa
Marked(k, x) ==
    /\ ram'[k][x].expert = ram[k][x].expert /\ ~ram[k][x].valid /\ ram'[k][x].valid
    /\ ram'[k][x].cold = ram[k][x].cold /\ ram'[k][x].soa = ram[k][x].soa
    /\ InPf(k, x) \/ InNext(k, x) \/ (Submitted /\ k = fetch.layer /\ \E c \in fetch.claims : c[2] = x)
Softened(k, x) ==
    /\ ram[k][x].expert # None /\ ram[k][x].valid /\ ram[k][x].soa
    /\ ram'[k][x].expert = ram[k][x].expert /\ ram'[k][x].valid = ram[k][x].valid
    /\ ram'[k][x].cold = ram[k][x].cold /\ ~ram'[k][x].soa
    /\ ~InVram(k, ram[k][x].expert)
Dropped(k, x) ==
    ram[k][x].valid /\ ram[k][x].cold /\ ~ram'[k][x].valid /\ (ram'[k][x].cold => ram[k][x].cold)
Taken(k, x) ==
    /\ ~(Reaped[k][x].expert # None /\ ~Reaped[k][x].valid)
    /\ ram[k][x].expert = None \/ <<k, x>> \notin rel
    /\ ram'[k][x].cold => ram[k][x].cold \/ HasCold
AtLanded(k) == (k = fetch.layer /\ fetch.pc \in AtLayer) \/ LandLayer(k)
RamMove(k, x) ==
    \/ Kept(k, x) \/ Marked(k, x)
    \/ AtLanded(k) /\ (Softened(k, x) \/ Dropped(k, x) \/ Taken(k, x))

LEMMA KeptMoves ==
    ASSUME NEW k, NEW x, ram'[k][x] = ram[k][x]
    PROVE  RamMove(k, x)
BY DEF Kept, RamMove

\* A slot that is not claimed is none that pf_reap() makes free.
LEMMA FreeTaken ==
    ASSUME Types, WantedHeld, NEW k \in Layer, NEW x \in Slot, ~Claimed(k, x),
           ram[k][x].expert = None \/ <<k, x>> \notin rel, ram'[k][x].cold => ram[k][x].cold \/ HasCold
    PROVE  Taken(k, x)
<1>1. Reaped[k][x].expert = ram[k][x].expert /\ (ram[k][x].valid => Reaped[k][x].valid)
  BY ReapEntry
<1> QED BY <1>1 DEF Taken, Claimed

LEMMA ReapMoves ==
    ASSUME Types, WantedHeld, NEW k \in Layer, NEW x \in Slot, ram'[k][x] = Reaped[k][x]
    PROVE  RamMove(k, x)
<1>1. /\ Reaped[k][x].expert = ram[k][x].expert /\ Reaped[k][x].cold = ram[k][x].cold
      /\ Reaped[k][x].soa = ram[k][x].soa
      /\ ram[k][x].valid => Reaped[k][x].valid
      /\ Reaped[k][x].valid /\ ~ram[k][x].valid => InPf(k, x)
  BY ReapEntry
<1>2. ram[k][x].valid \in BOOLEAN /\ Reaped[k][x].valid \in BOOLEAN
  <2>1. ram[k][x] \in RamSlot /\ Reaped[k][x] \in RamSlot
    BY ReapTypes DEF Types, TypeOK
  <2> QED BY <2>1 DEF RamSlot
<1>3. CASE Reaped[k][x].valid /\ ~ram[k][x].valid
  BY <1>1, <1>3 DEF Marked, RamMove
<1>4. CASE ~(Reaped[k][x].valid /\ ~ram[k][x].valid)
  BY <1>1, <1>2, <1>4 DEF Kept, RamMove
<1> QED BY <1>3, <1>4

\* The reads of a fetch have landed, or that of the restore.
LEMMA LandMoves ==
    ASSUME Types, Types', HostHolds, Phases, WantedHeld, ClaimFlags, ColdFile, MappedWanted,
           FetchEnd \/ PrefetchFinish, NEW k \in Layer, NEW x \in Slot
    PROVE  RamMove(k, x)
<1>1. /\ ram'[k][x].expert = ram[k][x].expert /\ ram'[k][x].cold = ram[k][x].cold
      /\ ram'[k][x].soa = ram[k][x].soa /\ (ram[k][x].valid => ram'[k][x].valid)
      /\ ram'[k][x].valid => \/ ram[k][x].valid \/ InNext(k, x)
                             \/ Submitted /\ k = fetch.layer /\ \E c \in fetch.claims : c[2] = x
  <2>1. CASE FetchEnd
    <3>1. Submitted
      BY <2>1 DEF FetchEnd, Ending, Submitted
    <3> QED BY <2>1, <3>1, FetchEndClaims
  <2>2. CASE PrefetchFinish
    BY <2>2, FinishClaims
  <2> QED BY <2>1, <2>2
<1>2. ram[k][x].valid \in BOOLEAN /\ ram'[k][x].valid \in BOOLEAN
  BY DEF Types, TypeOK, RamSlot
<1>3. CASE ram'[k][x].valid /\ ~ram[k][x].valid
  BY <1>1, <1>3 DEF Marked, RamMove
<1>4. CASE ~(ram'[k][x].valid /\ ~ram[k][x].valid)
  BY <1>1, <1>2, <1>4 DEF Kept, RamMove
<1> QED BY <1>3, <1>4

\* A promotion at the layer the host works on.
LEMMA PromoteMoves ==
    ASSUME Types, Maps, WantedHeld, NEW l \in Layer, NEW e \in Expert, NEW s \in Slot, NEW g \in GSlot,
           NEW pick, NEW r, Promote(l, e, s, g, pick, r), s = FindSlot(l, e),
           ~InVram(l, e), l = fetch.layer, fetch.pc \in AtLayer, NEW k \in Layer, NEW x \in Slot
    PROVE  RamMove(k, x)
<1>0. AtLanded(l)
  BY DEF AtLanded
<1>1. PICK to : to = IF pick = s THEN None ELSE pick
  OBVIOUS
<1>2. /\ ram[k][x].soa \in BOOLEAN
      /\ (k = l /\ x = to) \/ ram'[k][x].soa = (ram[k][x].soa /\ ~(k = l /\ x = s /\ pick = s))
  <2>1. ram[k][x] \in RamSlot
    BY DEF Types, TypeOK
  <2> QED BY <1>1, <2>1, PromoteLayouts DEF RamSlot
<1>3. CASE k = l /\ x = to
  <2>1. ~Claimed(l, x) /\ (ram[l][x].expert = None \/ <<l, x>> \notin rel)
    BY <1>1, <1>3, PromoteEntries, CacheConstants
  <2>a. ~ram'[k][x].cold
    BY <1>1, <1>3, PromoteLayouts
  <2>2. Taken(k, x)
    BY <1>3, <2>1, <2>a, FreeTaken
  <2> QED BY <1>0, <1>3, <2>2 DEF RamMove
<1>4. CASE ~(k = l /\ x = to)
  <2>1. Same(k, x)
    BY <1>1, <1>4, PromoteLayouts
  <2>2. s # None => ram[l][s].expert # None /\ ram[l][s].valid /\ ~InVram(l, ram[l][s].expert)
    BY Lookup, CacheConstants
  <2>3. s # None
    BY CacheConstants
  <2>4. CASE k = l /\ x = s /\ pick = s /\ ram[k][x].soa
    <3>1. ~ram'[k][x].soa
      BY <1>2, <1>4, <2>4
    <3>2. Softened(k, x)
      BY <2>1, <2>2, <2>3, <2>4, <3>1 DEF Softened, Same
    <3> QED BY <1>0, <2>4, <3>2 DEF RamMove
  <2>5. CASE ~(k = l /\ x = s /\ pick = s /\ ram[k][x].soa)
    <3>1. ram'[k][x].soa = ram[k][x].soa
      BY <1>2, <1>4, <2>5
    <3> QED BY <2>1, <3>1 DEF Kept, Same, RamMove
  <2> QED BY <2>4, <2>5
<1> QED BY <1>3, <1>4

\* The steps that serve an expert of the list from RAM, or claim for it.
LEMMA ServeMoves ==
    ASSUME Types, Types', Maps, Maps', HostHolds, Phases, WantedHeld, ClaimFlags, ColdFile, MappedWanted,
           NEW e \in Expert, NEW k \in Layer, NEW x \in Slot,
           \/ ServeRam(e) \/ ServeUpgrade(e)
           \/ \E v \in Slot, cold \in BOOLEAN : ServeMiss(e, v, cold)
    PROVE  RamMove(k, x)
<1>0. fetch.layer \in Layer /\ AtLanded(fetch.layer)
  BY ServeFacts DEF ServeRam, ServeUpgrade, ServeMiss, AtLanded, AtLayer
<1>1. CASE ServeRam(e)
  <2> DEFINE s == FindSlot(fetch.layer, e)
  <2>1. Same(k, x) /\ ram'[k][x].soa = (ram[k][x].soa /\ ~(k = fetch.layer /\ x = s))
    BY <1>1, ServedRam
  <2>2. /\ s # None /\ ram[fetch.layer][s].expert # None /\ ram[fetch.layer][s].valid
        /\ ~InVram(fetch.layer, ram[fetch.layer][s].expert)
    BY <1>0, <1>1, Lookup, CacheConstants DEF ServeRam
  <2>3. ram[k][x].soa \in BOOLEAN
    BY DEF Types, TypeOK, RamSlot
  <2> HIDE DEF s
  <2>4. CASE k = fetch.layer /\ x = s /\ ram[k][x].soa
    BY <1>0, <2>1, <2>2, <2>4 DEF Softened, Same, RamMove
  <2>5. CASE ~(k = fetch.layer /\ x = s /\ ram[k][x].soa)
    <3>1. ram'[k][x].soa = ram[k][x].soa
      BY <2>1, <2>3, <2>5
    <3> QED BY <2>1, <3>1 DEF Kept, Same, RamMove
  <2> QED BY <2>4, <2>5
<1>2. CASE ServeUpgrade(e)
  <2> DEFINE v == FindSlot(fetch.layer, e)
  <2>1. v \in Slot
    BY <1>0, <1>2, SlotTypes DEF ServeUpgrade
  <2>2. /\ ~(k = fetch.layer /\ x = v) => ram'[k][x] = ram[k][x]
        /\ ~ram'[fetch.layer][v].valid /\ ram[fetch.layer][v].valid /\ ram[fetch.layer][v].cold
    BY <1>0, <1>2, <2>1, ServeUpgradeClaims
  <2> HIDE DEF v
  <2>3. CASE k = fetch.layer /\ x = v
    BY <1>0, <2>2, <2>3 DEF Dropped, RamMove
  <2>4. CASE ~(k = fetch.layer /\ x = v)
    BY <2>2, <2>4, KeptMoves
  <2> QED BY <2>3, <2>4
<1>3. CASE \E v \in Slot, cold \in BOOLEAN : ServeMiss(e, v, cold)
  <2>1. PICK v \in Slot, cold \in BOOLEAN : ServeMiss(e, v, cold)
    BY <1>3
  <2>2. ~Claimed(fetch.layer, v) /\ <<fetch.layer, v>> \notin rel /\ ram' = ClaimRam(ram, fetch.layer, v, e, cold)
    BY <2>1 DEF ServeMiss, Evictable, Claimed
  <2>3. CASE k = fetch.layer /\ x = v
    <3>0. ram'[k][x].cold => HasCold
      <4>1. ram \in [Layer -> [Slot -> RamSlot]] /\ (cold => HasCold)
        BY <2>1 DEF Types, TypeOK, ServeMiss
      <4>2. ram'[k][x] = [expert |-> e, valid |-> FALSE, cold |-> cold, soa |-> FALSE]
        <5>1. ClaimRam(ram, fetch.layer, v, e, cold)[k][x] =
                 IF k = fetch.layer /\ x = v
                 THEN [expert |-> e, valid |-> FALSE, cold |-> cold, soa |-> FALSE] ELSE ram[k][x]
          BY <1>0, <4>1, ClaimedRam
        <5> QED BY <2>2, <2>3, <5>1
      <4> QED BY <4>1, <4>2
    <3>1. Taken(k, x)
      BY <2>2, <2>3, <3>0, FreeTaken
    <3> QED BY <1>0, <2>3, <3>1 DEF RamMove
  <2>4. CASE ~(k = fetch.layer /\ x = v)
    <3>1. ram \in [Layer -> [Slot -> RamSlot]]
      BY DEF Types, TypeOK
    <3>2. ram'[k][x] = ram[k][x]
      BY <1>0, <2>2, <2>4, <3>1 DEF ClaimRam
    <3> QED BY <3>2, KeptMoves
  <2> QED BY <2>3, <2>4
<1> QED BY <1>1, <1>2, <1>3

\* warm() and fetch_batch().
LEMMA WarmMoves ==
    ASSUME Types, WantedHeld, NEW l \in Layer, NEW e \in Expert, NEW v \in Slot, Warm(l, e, v),
           NEW k \in Layer, NEW x \in Slot
    PROVE  RamMove(k, x)
<1>0. AtLanded(l)
  BY DEF Warm, AtLanded
<1>1. WarmKeeps(l, v, k, x) \/ WarmTakes(l, e, v, k, x) \/ WarmGives(l, v, k, x)
  BY WarmEffect
<1>2. CASE WarmKeeps(l, v, k, x)
  BY <1>2, KeptMoves DEF WarmKeeps
<1>3. CASE WarmTakes(l, e, v, k, x)
  <2>1. k = l /\ ~Claimed(k, x) /\ <<k, x>> \notin rel /\ ~ram'[k][x].cold
    BY <1>3 DEF WarmTakes
  <2>2. Taken(k, x)
    BY <2>1, FreeTaken
  <2> QED BY <1>0, <2>1, <2>2 DEF RamMove
<1>4. CASE WarmGives(l, v, k, x)
  <2>1. k = l /\ Dropped(k, x)
    BY <1>4 DEF WarmGives, Dropped
  <2> QED BY <1>0, <2>1 DEF RamMove
<1> QED BY <1>1, <1>2, <1>3, <1>4

LEMMA BatchMoves ==
    ASSUME Types, Types', Maps, WantedHeld, NEW l \in Layer, NEW es \in SUBSET Expert,
           NEW adopt \in Adoptions(l, {e \in es : ~BatchHit(l, e)}), FetchBatch(l, es, adopt),
           NEW k \in Layer, NEW x \in Slot
    PROVE  RamMove(k, x)
<1>0. AtLanded(l)
  BY DEF FetchBatch, AtLanded
<1>1. BatchKeeps(l, adopt, k, x) \/ BatchAdopts(l, adopt, k, x) \/ BatchHits(l, k, x)
  BY BatchEffect
<1>2. CASE BatchKeeps(l, adopt, k, x)
  BY <1>2, KeptMoves DEF BatchKeeps
<1>3. CASE BatchAdopts(l, adopt, k, x)
  <2>1. k = l /\ ram[k][x].expert = None /\ ~ram'[k][x].cold
    BY <1>3 DEF BatchAdopts
  <2>2. Taken(k, x)
    BY <2>1, FreeTaken DEF Claimed
  <2> QED BY <1>0, <2>1, <2>2 DEF RamMove
<1>4. CASE BatchHits(l, k, x)
  <2>1. /\ k = l /\ ram[k][x].expert # None /\ ram[k][x].valid /\ ~ram[k][x].cold
        /\ ram'[k][x].expert = ram[k][x].expert /\ ram'[k][x].valid
        /\ ~ram'[k][x].cold /\ ~ram'[k][x].soa /\ ~InVram(k, ram[k][x].expert)
    BY <1>4 DEF BatchHits
  <2>a. /\ ram[k][x].valid \in BOOLEAN /\ ram'[k][x].valid \in BOOLEAN
        /\ ram[k][x].cold \in BOOLEAN /\ ram'[k][x].cold \in BOOLEAN
        /\ ram[k][x].soa \in BOOLEAN /\ ram'[k][x].soa \in BOOLEAN
    BY DEF Types, TypeOK, RamSlot
  <2>2. ram'[k][x].valid = ram[k][x].valid /\ ram'[k][x].cold = ram[k][x].cold
    BY <2>1, <2>a
  <2>3. CASE ram[k][x].soa
    <3>1. Softened(k, x)
      BY <2>1, <2>2, <2>3 DEF Softened
    <3> QED BY <1>0, <2>1, <3>1 DEF RamMove
  <2>4. CASE ~ram[k][x].soa
    <3>1. ram'[k][x].soa = ram[k][x].soa
      BY <2>1, <2>a, <2>4
    <3> QED BY <2>1, <2>2, <3>1 DEF Kept, RamMove
  <2> QED BY <2>3, <2>4
<1> QED BY <1>1, <1>2, <1>3, <1>4

\* The claims beside the computation.
LEMMA AheadMoves ==
    ASSUME Types, Types', Maps, Maps', HostHolds, Phases, WantedHeld, ClaimFlags, ColdFile, MappedWanted,
           PrefetchAny \/ RestoreAny, NEW k \in Layer, NEW x \in Slot
    PROVE  RamMove(k, x)
<1>1. CASE PrefetchAny
  <2>1. PICK l \in Layer, e \in Expert, v \in Slot, cold \in BOOLEAN : PrefetchBegin(l, e, v, cold)
    BY <1>1 DEF PrefetchAny
  <2>2. PrefetchTakes(l, e, v, cold) /\ AtLanded(l)
    BY <2>1, PrefetchBegins DEF PrefetchBegin, AtLanded
  <2>3. CASE k = l /\ x = v
    <3>1. Taken(k, x)
      BY <2>2, <2>3 DEF PrefetchTakes, Taken
    <3> QED BY <2>2, <2>3, <3>1 DEF RamMove
  <2>4. CASE ~(k = l /\ x = v)
    <3>1. ram'[k][x] = Reaped[k][x]
      BY <2>2, <2>4 DEF PrefetchTakes
    <3> QED BY <3>1, ReapMoves
  <2> QED BY <2>3, <2>4
<1>2. CASE RestoreAny
  <2>1. PICK l \in Layer, e \in Expert, v \in Slot \cup {None} : PrefetchStart(l, e, v)
    BY <1>2 DEF RestoreAny
  <2>2. AtLanded(l)
    BY <2>1 DEF PrefetchStart, AtLanded
  <2>3. /\ v # None => ~Claimed(l, v) /\ <<l, v>> \notin rel /\ ram'[l][v].cold = ram[l][v].cold
        /\ ~(k = l /\ x = v) => ram'[k][x] = ram[k][x]
    BY <2>1, PrefetchStartClaims
  <2>4. CASE k = l /\ x = v
    <3>1. Taken(k, x)
      BY <2>3, <2>4, FreeTaken, CacheConstants
    <3> QED BY <2>2, <2>4, <3>1 DEF RamMove
  <2>5. CASE ~(k = l /\ x = v)
    BY <2>3, <2>5, KeptMoves
  <2> QED BY <2>4, <2>5
<1> QED BY <1>1, <1>2

LEMMA StepMoves ==
    ASSUME Types, Types', Maps, Maps', Slots, Phases, Claims, failed = 0, failed' = 0, [Next]_vars, ~FinishSwap,
           NEW k \in Layer, NEW x \in Slot
    PROVE  RamMove(k, x)
<1>0. /\ HostHolds /\ fetch.pc # "reread"
      /\ WantedHeld /\ ClaimFlags /\ ColdFile /\ MappedWanted /\ PendReads
  BY DEF Slots, Claims
<1>1. CASE \/ ComputeStep \/ SideStep \/ DiskAny \/ UNCHANGED vars
           \/ FetchStartAny \/ LendAny \/ RefillDone \/ SettleFullDone \/ RestoreBegin \/ RestoreEnds
           \/ FetchSubmit \/ BatchDone \/ SettleLayer \/ SettleLayerDone
           \/ \E e \in Expert : ServeVram(e) \/ ServeClaimed(e)
  <2>1. ram' = ram
    BY <1>1, QuietRam
  <2> QED BY <2>1, KeptMoves
<1>2. CASE ServePromoteAny
  <2>1. PICK e \in Expert, g \in GSlot, pick \in Slot \cup {None}, r \in Ring \cup {None} :
           ServePromote(e, g, pick, r)
    BY <1>2 DEF ServePromoteAny
  <2>2. /\ Promote(fetch.layer, e, FindSlot(fetch.layer, e), g, pick, r) /\ fetch.pc = "serve"
        /\ fetch.layer \in Layer /\ FindSlot(fetch.layer, e) \in Slot /\ ~InVram(fetch.layer, e)
    BY <2>1, ServeFacts, SlotTypes DEF ServePromote
  <2> QED BY <1>0, <2>2, PromoteMoves DEF AtLayer
<1>3. CASE RefillAny
  <2>1. PICK e \in Expert, g \in GSlot, pick \in Slot \cup {None}, r \in Ring \cup {None} :
           Refill(e, g, pick, r)
    BY <1>3 DEF RefillAny
  <2>2. /\ Promote(fetch.layer, e, FindSlot(fetch.layer, e), g, pick, r)
        /\ fetch.pc \in {"refill", "warm"} /\ FindSlot(fetch.layer, e) # None /\ e \in fetch.cand
    BY <2>1 DEF Refill
  <2>3. fetch.layer \in Layer
    BY <2>2 DEF Types, FetchOK, AtLayer
  <2>4. FindSlot(fetch.layer, e) \in Slot
    BY <2>2, <2>3, SlotTypes
  <2>5. ~InVram(fetch.layer, e)
    BY <2>2 DEF Maps, Fresh, InVram
  <2> QED BY <1>0, <2>2, <2>3, <2>4, <2>5, PromoteMoves DEF AtLayer
<1>4. CASE ServeMissAny \/ \E e \in Expert : ServeRam(e) \/ ServeUpgrade(e)
  BY <1>0, <1>4, ServeMoves DEF ServeMissAny
<1>5. CASE PrefetchAny \/ RestoreAny
  BY <1>0, <1>5, AheadMoves
<1>6. CASE PrefetchReap \/ SettlePending
  <2>1. ram' = Reaped
    BY <1>6 DEF PrefetchReap, SettlePending
  <2> QED BY <1>0, <2>1, ReapMoves
<1>7. CASE FetchEnd \/ PrefetchFinish
  BY <1>0, <1>7, LandMoves
<1>8. CASE WarmAny
  <2>1. PICK l \in Layer, e \in Expert, v \in Slot : Warm(l, e, v)
    BY <1>8 DEF WarmAny
  <2> QED BY <1>0, <2>1, WarmMoves
<1>9. CASE BatchAny
  <2>1. PICK l \in Layer, es \in {ToSet(list) : list \in Lists} :
           \E adopt \in Adoptions(l, {e \in es : ~BatchHit(l, e)}) : FetchBatch(l, es, adopt)
    BY <1>9 DEF BatchAny
  <2>2. es \in SUBSET Expert
    BY <2>1 DEF Lists, ToSet
  <2>3. PICK adopt \in Adoptions(l, {e \in es : ~BatchHit(l, e)}) : FetchBatch(l, es, adopt)
    BY <2>1
  <2> QED BY <1>0, <2>2, <2>3, BatchMoves
<1>10. CASE RereadAny \/ RereadReturns \/ FetchShort \/ \E e \in Expert : ServeFails(e)
  BY <1>0, <1>10, FailedCounts DEF RereadAny, Reread, RereadReturns
<1> QED BY <1>1, <1>2, <1>3, <1>4, <1>5, <1>6, <1>7, <1>8, <1>9, <1>10 DEF Next, FetchSteps, ServeAny

-----------------------------------------------------------------------------
\* While the reads of a batch are waited for, nothing but its end and the device moves.
LEMMA BatchStill ==
    ASSUME Types, HostHolds, fetch.pc = "batch", [Next]_vars
    PROVE  BatchDone \/ (ram' = ram /\ fetch' = fetch /\ pf' = pf)
<1>1. CASE ComputeStep \/ SideStep \/ DiskAny \/ UNCHANGED vars
  BY <1>1 DEF ComputeStep, SideStep, DiskAny, DiskLand, vars, tables, hostv
<1>2. ~fetch.deferred
  BY DEF HostHolds
<1>3. \A e \in Expert : ~Serving(e)
  BY DEF Serving
<1>4. /\ ~FetchStartAny /\ ~ServeAny /\ ~ServePromoteAny /\ ~ServeMissAny /\ ~FetchSubmit
  BY <1>3 DEF FetchStartAny, FetchStart, ServeAny, ServeVram, ServeClaimed, ServeRam, ServeUpgrade, ServeFails,
              ServePromoteAny, ServePromote, ServeMissAny, ServeMiss, FetchSubmit
<1>5. /\ ~SettlePending /\ ~RereadAny /\ ~RereadReturns /\ ~FetchEnd /\ ~FetchShort /\ ~SettleLayer
      /\ ~FinishSwap /\ ~SettleLayerDone /\ ~SettleFullDone /\ ~PrefetchFinish /\ ~RestoreEnds
  BY <1>2 DEF SettlePending, RereadAny, Reread, RereadReturns, FetchEnd, FetchShort, Ending, SettleLayer,
              FinishSwap, SettleLayerDone, SettleFullDone, PrefetchFinish, RestoreEnds
<1>6. /\ ~PrefetchAny /\ ~PrefetchReap /\ ~LendAny /\ ~RefillAny /\ ~RefillDone
  BY DEF PrefetchAny, PrefetchBegin, MayPrefetch, PrefetchReap, LendAny, LendBegin, LendEnd, RefillAny, Refill,
         RefillDone
<1>7. /\ ~WarmAny /\ ~BatchAny /\ ~RestoreBegin /\ ~RestoreAny
  BY DEF WarmAny, Warm, BatchAny, FetchBatch, RestoreBegin, RestoreAny, PrefetchStart
<1> QED BY <1>1, <1>4, <1>5, <1>6, <1>7, Zenon DEF Next, FetchSteps

\* A speculative read stays on the list as long as it is on the drive.
LEMMA StepPf ==
    ASSUME Types, [Next]_vars
    PROVE  StillFlying \subseteq pf'
<1>0. StillFlying \subseteq pf
  BY DEF StillFlying
<1>1. CASE \/ ComputeStep \/ SideStep \/ DiskAny \/ UNCHANGED vars
           \/ FetchStartAny \/ LendAny \/ RefillDone \/ SettleFullDone \/ RestoreBegin \/ RestoreEnds
           \/ FetchSubmit \/ BatchDone \/ SettleLayer \/ SettleLayerDone
           \/ \E e \in Expert : ServeVram(e) \/ ServeClaimed(e)
  BY <1>0, <1>1, QuietRam
<1>2. CASE \/ ServePromoteAny \/ ServeMissAny \/ \E e \in Expert : ServeRam(e) \/ ServeUpgrade(e) \/ ServeFails(e)
  <2>1. CASE ServePromoteAny \/ ServeMissAny
    BY <1>0, <2>1 DEF ServePromoteAny, ServePromote, ServeMissAny, ServeMiss
  <2>2. CASE \E e \in Expert : ServeRam(e) \/ ServeUpgrade(e) \/ ServeFails(e)
    BY <1>0, <2>2 DEF ServeRam, ServeUpgrade, ServeFails
  <2> QED BY <1>2, <2>1, <2>2
<1>3. CASE RefillAny \/ WarmAny \/ BatchAny \/ RestoreAny \/ PrefetchAny
  <2>1. CASE RefillAny
    <3>1. PICK e \in Expert, g \in GSlot, pick \in Slot \cup {None}, r \in Ring \cup {None} : Refill(e, g, pick, r)
      BY <2>1 DEF RefillAny
    <3> QED BY <1>0, <3>1 DEF Refill
  <2>2. CASE WarmAny
    <3>1. PICK l \in Layer, e \in Expert, v \in Slot : Warm(l, e, v)
      BY <2>2 DEF WarmAny
    <3> QED BY <1>0, <3>1 DEF Warm
  <2>3. CASE BatchAny
    <3>0. PICK l \in Layer : \E es, adopt : FetchBatch(l, es, adopt)
      BY <2>3 DEF BatchAny
    <3>1. PICK es, adopt : FetchBatch(l, es, adopt)
      BY <3>0
    <3> QED BY <1>0, <3>1 DEF FetchBatch
  <2>4. CASE RestoreAny
    <3>1. PICK l \in Layer, e \in Expert, v \in Slot \cup {None} : PrefetchStart(l, e, v)
      BY <2>4 DEF RestoreAny
    <3> QED BY <1>0, <3>1 DEF PrefetchStart
  <2>5. CASE PrefetchAny
    <3>1. PICK l \in Layer, e \in Expert, v \in Slot, cold \in BOOLEAN : PrefetchBegin(l, e, v, cold)
      BY <2>5 DEF PrefetchAny
    <3> QED BY <3>1 DEF PrefetchBegin
  <2> QED BY <1>3, <2>1, <2>2, <2>3, <2>4, <2>5
<1>4. CASE PrefetchReap \/ SettlePending \/ FetchEnd \/ FetchShort \/ PrefetchFinish \/ RereadAny \/ RereadReturns
  BY <1>0, <1>4 DEF PrefetchReap, SettlePending, FetchEnd, FetchShort, PrefetchFinish, RereadAny, Reread, RereadReturns
<1>5. CASE FinishSwap
  BY <1>0, <1>5, SwapHead
<1> QED BY <1>1, <1>2, <1>3, <1>4, <1>5, Zenon DEF Next, FetchSteps, ServeAny

\* What is wanted and still to be read keeps its precision, and with it a speculative read
\* that has not landed.
LEMMA SpecKept ==
    ASSUME Types, Types', Maps, Maps', Slots, Phases, Claims, failed = 0, failed' = 0, [Next]_vars,
           NEW d \in disk, SpecRead(d)
    PROVE  SpecRead(d)'
<1> DEFINE p == <<d.l, d.e, d.s>>
<1>1. d.l \in Layer /\ d.s \in Slot /\ d.e \in Expert /\ d.cold \in BOOLEAN
  BY DEF Types, TypeOK, ReadRec
<1>2. p \in StillFlying /\ p \in pf /\ d.spec /\ d.cold = ram[d.l][d.s].cold
  <2>1. p[1] = d.l /\ p[3] = d.s
    OBVIOUS
  <2> QED BY <2>1 DEF SpecRead, StillFlying, Flying
<1>3. p \in pf'
  BY <1>2, StepPf
<1>4. /\ Claimed(d.l, d.s) /\ InHost(d.l, d.s) /\ ram[d.l][d.s].expert = d.e /\ ~ram[d.l][d.s].valid
  BY <1>1, <1>2, WantedFacts DEF Claims, Wanted
<1>5. ram'[d.l][d.s].cold = ram[d.l][d.s].cold
  <2>1. CASE FinishSwap
    <3>1. /\ ~Claimed(Sw.layer, Sw.from) /\ (Held => Sw.to # None)
          /\ Sw.to # None => ~InHost(Sw.layer, Sw.to)
      BY <2>1, SwapSlots DEF Held
    <3>2. ~(d.l = Sw.layer /\ ((Held /\ d.s = Sw.to) \/ (Away /\ d.s = Sw.from)))
      BY <1>4, <3>1
    <3>3. ram'[d.l][d.s] = ram[d.l][d.s]
      BY <1>1, <2>1, <3>2, SwapEntry
    <3> QED BY <3>3
  <2>2. CASE ~FinishSwap
    <3>1. RamMove(d.l, d.s)
      BY <1>1, <2>2, StepMoves
    <3>2. /\ Reaped[d.l][d.s].expert = d.e /\ ~Reaped[d.l][d.s].valid
      BY <1>1, <1>2, <1>4, ReapEntry DEF Claims
    <3>3. ~Taken(d.l, d.s)
      BY <1>1, <3>2, CacheConstants DEF Taken
    <3> QED BY <1>4, <3>1, <3>3 DEF RamMove, Kept, Marked, Softened, Dropped
  <2> QED BY <2>1, <2>2
<1> QED BY <1>2, <1>3, <1>5 DEF SpecRead

-----------------------------------------------------------------------------
\* When no count is waited for, only speculative reads are on the drive.
LEMMA NoDemand ==
    ASSUME DiskReads, ~Submitted, fetch.next = None, fetch.pc # "batch"
    PROVE  \A d \in disk : d.spec
BY DEF DiskReads, SpecRead, ClaimRead, NextRead, BatchRead

LEMMA DemandCounts ==
    ASSUME Types, Counts
    PROVE  /\ Cardinality(HotReads) \in Nat /\ Cardinality(ColdReads) \in Nat
           /\ landed.hot \in Nat /\ landed.cold \in Nat /\ fetch.need.hot \in Nat /\ fetch.need.cold \in Nat
           /\ Owed \in {0, 1}
           /\ Cardinality(HotReads) = 0 => HotReads = {}
           /\ Cardinality(ColdReads) = 0 => ColdReads = {}
<1>1. fetch.need \in [hot : Nat, cold : Nat] /\ landed \in [hot : Nat, cold : Nat]
  BY DEF Types, TypeOK, FetchOK, FetchRec
<1> QED BY <1>1, FS_CardinalityType, FS_EmptySet DEF Counts, Owed

\* When a count is reached the reads have landed: those of a fetch, of a batch, of the restore.
LEMMA AllLanded ==
    ASSUME Types, HostHolds, Phases, DiskReads, Counts, FetchEnd \/ BatchDone \/ PrefetchFinish
    PROVE  /\ \A d \in disk : d.spec
           /\ disk' = disk /\ landed' = [hot |-> 0, cold |-> 0]
<1> USE DemandCounts
<1>1. \A d \in disk : d.spec \/ d \in HotReads \/ d \in ColdReads
  BY DEF HotReads, ColdReads
<1>2. landed \in [hot : Nat, cold : Nat]
  BY DEF Types, TypeOK
<1>3. CASE FetchEnd
  <2>1. Owed = 0
    BY <1>3 DEF FetchEnd, Ending, Phases, Owed
  <2>2. /\ landed.hot >= fetch.need.hot /\ landed.cold >= fetch.need.cold /\ disk' = disk
        /\ landed' = [hot |-> IF fetch.need.hot > 0 THEN 0 ELSE landed.hot,
                      cold |-> IF fetch.need.cold > 0 THEN 0 ELSE landed.cold]
    BY <1>3 DEF FetchEnd
  <2>3. /\ Cardinality(HotReads) + landed.hot <= fetch.need.hot
        /\ Cardinality(ColdReads) + landed.cold <= fetch.need.cold
    BY <2>1 DEF Counts
  <2>4. HotReads = {} /\ ColdReads = {}
    BY <2>2, <2>3
  <2>5. landed' = [hot |-> 0, cold |-> 0]
    BY <2>2, <2>3
  <2> QED BY <1>1, <2>2, <2>4, <2>5
<1>4. CASE BatchDone
  <2>1. Owed = 0 /\ fetch.need.cold = 0
    BY <1>4, BatchReaped DEF Owed, Phases
  <2>2. /\ landed.hot >= fetch.need.hot /\ disk' = disk
        /\ landed' = IF fetch.need.hot > 0 THEN [landed EXCEPT !.hot = 0] ELSE landed
    BY <1>4 DEF BatchDone
  <2>3. /\ Cardinality(HotReads) + landed.hot <= fetch.need.hot
        /\ Cardinality(ColdReads) + landed.cold <= 0
    BY <2>1 DEF Counts
  <2>4. HotReads = {} /\ ColdReads = {} /\ landed.cold = 0 /\ (fetch.need.hot > 0 \/ landed.hot = 0)
    BY <2>2, <2>3
  <2>5. landed' = [hot |-> 0, cold |-> 0]
    BY <1>2, <2>2, <2>4
  <2> QED BY <1>1, <2>2, <2>4, <2>5
<1>5. CASE PrefetchFinish
  <2>1. /\ fetch.pc = "restore" /\ fetch.next # None /\ ~fetch.deferred
        /\ fetch.need.hot = 0 /\ fetch.need.cold = 0
    BY <1>5, RestoreReads DEF Phases, HostHolds
  <2>2. /\ disk' = disk
        /\ IF fetch.next.v = None THEN landed' = landed
           ELSE landed.hot >= 1 /\ landed' = [landed EXCEPT !.hot = 0]
    BY <1>5 DEF PrefetchFinish
  <2>3. /\ Cardinality(HotReads) + landed.hot <= Owed
        /\ Cardinality(ColdReads) + landed.cold <= 0
    BY <2>1 DEF Counts
  <2>4. Owed = IF fetch.next.v # None THEN 1 ELSE 0
    BY <2>1 DEF Owed
  <2>5. HotReads = {} /\ ColdReads = {} /\ landed.cold = 0 /\ (fetch.next.v # None \/ landed.hot = 0)
    BY <2>2, <2>3, <2>4
  <2>6. landed' = [hot |-> 0, cold |-> 0]
    BY <1>2, <2>2, <2>5
  <2> QED BY <1>1, <2>2, <2>5, <2>6
<1> QED BY <1>3, <1>4, <1>5

\* A demand read on the drive keeps its owner until its count is reached.
OldKept ==
    \A d \in disk : ClaimRead(d) \/ NextRead(d) \/ BatchRead(d) =>
        ClaimRead(d)' \/ NextRead(d)' \/ BatchRead(d)'

\* The steps that begin an operation, or end one, while no count is waited for.
LEMMA BareDemand ==
    ASSUME Types, HostHolds, Phases,
           \/ FetchStartAny \/ LendAny \/ RefillDone \/ SettleFullDone \/ RestoreBegin \/ RestoreEnds \/ WarmAny
           \/ SettleLayer /\ fetch.pc = "ended"
           \/ SettleLayerDone /\ ~fetch.deferred
    PROVE  /\ ~Submitted /\ fetch.pc # "batch" /\ fetch'.next = fetch.next
           /\ fetch'.need.hot = 0 /\ fetch'.need.cold = 0 /\ fetch.need.hot = 0 /\ fetch.need.cold = 0
<1>1. fetch'.next = fetch.next /\ fetch'.need.hot = 0 /\ fetch'.need.cold = 0
  BY BeginsBare
<1>2. ~fetch.deferred /\ fetch.pc \notin {"begun", "batch", "reread"}
  <2>1. CASE FetchStartAny \/ LendAny
    BY <2>1 DEF FetchStartAny, FetchStart, LendAny, LendBegin, LendEnd
  <2>2. CASE RefillDone \/ SettleFullDone \/ RestoreBegin \/ RestoreEnds
    BY <2>2 DEF RefillDone, SettleFullDone, RestoreBegin, RestoreEnds, Phases, HostHolds
  <2>3. CASE WarmAny
    <3>1. PICK l \in Layer, e \in Expert, v \in Slot : Warm(l, e, v)
      BY <2>3 DEF WarmAny
    <3> QED BY <3>1 DEF Warm
  <2>4. CASE (SettleLayer /\ fetch.pc = "ended") \/ (SettleLayerDone /\ ~fetch.deferred)
    BY <2>4 DEF SettleLayerDone, HostHolds
  <2> QED BY <2>1, <2>2, <2>3, <2>4, Zenon
<1> QED BY <1>1, <1>2 DEF Submitted, Phases

\* The steps that claim or submit reads of their own.
LEMMA FreshDemand ==
    ASSUME Types, Types', HostHolds, Phases,
           \/ ServeMissAny \/ FetchSubmit \/ BatchAny \/ RestoreAny \/ \E e \in Expert : ServeUpgrade(e)
    PROVE  /\ ~Submitted /\ fetch.pc # "batch" /\ fetch.next = None
           /\ fetch.need.hot = 0 /\ fetch.need.cold = 0
<1>1. fetch.next = None /\ ~fetch.deferred /\ fetch.pc \notin {"begun", "batch", "reread"}
  <2>1. CASE ServeMissAny
    BY <2>1, FetchClaims DEF ServeMissAny
  <2>2. CASE FetchSubmit
    BY <2>2, SubmitMoves
  <2>3. CASE BatchAny
    <3>0. PICK l \in Layer : \E es, adopt : FetchBatch(l, es, adopt)
      BY <2>3 DEF BatchAny
    <3>1. PICK es, adopt : FetchBatch(l, es, adopt)
      BY <3>0
    <3> QED BY <3>1, BatchReads
  <2>4. CASE RestoreAny
    <3>1. PICK l \in Layer, e \in Expert, v \in Slot \cup {None} : PrefetchStart(l, e, v)
      BY <2>4 DEF RestoreAny
    <3> QED BY <3>1, StartMoves
  <2>5. CASE \E e \in Expert : ServeUpgrade(e)
    <3>1. PICK e \in Expert : ServeUpgrade(e)
      BY <2>5
    <3>2. fetch.pc = "serve"
      BY <3>1 DEF ServeUpgrade, Serving
    <3> QED BY <3>2 DEF Phases, HostHolds
  <2> QED BY <2>1, <2>2, <2>3, <2>4, <2>5
<1> QED BY <1>1 DEF Submitted, Phases

LEMMA StepDemand ==
    ASSUME Types, Types', Maps, Maps', Slots, Phases, Claims, DiskReads, Counts,
           failed = 0, failed' = 0, [Next]_vars
    PROVE  OldKept
<1>0. HostHolds /\ fetch.pc # "reread" /\ WantedHeld /\ PendReads
  BY DEF Slots, Claims
<1>1. CASE \/ ServePromoteAny \/ RefillAny \/ UNCHANGED vars \/ PrefetchAny \/ PrefetchReap
           \/ ComputeStep \/ SideStep \/ DiskAny \/ FinishSwap
           \/ \E e \in Expert : ServeVram(e) \/ ServeClaimed(e) \/ ServeRam(e)
  <2>1. /\ fetch'.pc = fetch.pc /\ fetch'.layer = fetch.layer /\ fetch'.claims = fetch.claims
        /\ fetch'.next = fetch.next /\ fetch'.deferred = fetch.deferred
    BY <1>1, GoesOn
  <2>2. fetch.pc = "batch" => ram' = ram
    BY <1>0, <2>1, BatchStill, BatchReaped
  <2> QED BY <2>1, <2>2 DEF OldKept, ClaimRead, NextRead, BatchRead, Submitted
<1>2. CASE \/ ServeMissAny \/ FetchSubmit \/ BatchAny \/ RestoreAny \/ \E e \in Expert : ServeUpgrade(e)
  <2>1. \A d \in disk : d.spec
    BY <1>0, <1>2, FreshDemand, NoDemand
  <2> QED BY <2>1 DEF OldKept, ClaimRead, NextRead, BatchRead
<1>3. CASE \/ FetchStartAny \/ LendAny \/ RefillDone \/ SettleFullDone \/ RestoreBegin \/ RestoreEnds \/ WarmAny
           \/ SettleLayer /\ fetch.pc = "ended"
           \/ SettleLayerDone /\ ~fetch.deferred
  <2>1. ~Submitted /\ fetch.pc # "batch" /\ fetch'.next = fetch.next
    BY <1>0, <1>3, BareDemand
  <2> QED BY <2>1 DEF OldKept, ClaimRead, NextRead, BatchRead
<1>4. CASE SettlePending
  <2>1. fetch' = fetch /\ fetch.pc = "begun"
    BY <1>0, <1>4, NoneLost, PendingMoves
  <2> QED BY <2>1 DEF OldKept, ClaimRead, NextRead, BatchRead, Submitted
<1>5. CASE (SettleLayer /\ fetch.pc # "ended") \/ (SettleLayerDone /\ fetch.deferred)
  <2>1. /\ fetch.pc = "begun" \/ fetch.deferred
        /\ fetch'.deferred = TRUE /\ fetch'.layer = fetch.layer /\ fetch'.claims = fetch.claims
        /\ fetch'.next = fetch.next
    BY <1>0, <1>5, DeferMoves
  <2>2. fetch.pc # "batch"
    BY <1>0, <2>1 DEF HostHolds
  <2> QED BY <2>1, <2>2 DEF OldKept, ClaimRead, NextRead, BatchRead, Submitted
<1>6. CASE FetchEnd \/ BatchDone \/ PrefetchFinish
  <2>1. \A d \in disk : d.spec
    BY <1>0, <1>6, AllLanded
  <2> QED BY <2>1 DEF OldKept, ClaimRead, NextRead, BatchRead
<1>7. CASE RereadAny \/ RereadReturns \/ FetchShort \/ \E e \in Expert : ServeFails(e)
  BY <1>0, <1>7, FailedCounts DEF RereadAny, Reread, RereadReturns
<1> QED BY <1>1, <1>2, <1>3, <1>4, <1>5, <1>6, <1>7, Zenon DEF Next, FetchSteps, ServeAny

-----------------------------------------------------------------------------
\* The steps that submit nothing, and at which nothing lands or is counted.
Unread ==
    \/ ServePromoteAny \/ RefillAny \/ UNCHANGED vars \/ PrefetchReap \/ ComputeStep \/ SideStep \/ FinishSwap
    \/ \E e \in Expert : ServeVram(e) \/ ServeClaimed(e) \/ ServeRam(e) \/ ServeUpgrade(e)
    \/ ServeMissAny \/ SettlePending
    \/ FetchStartAny \/ LendAny \/ RefillDone \/ SettleFullDone \/ RestoreBegin \/ RestoreEnds \/ WarmAny
    \/ SettleLayer \/ SettleLayerDone

LEMMA UnreadSteps ==
    ASSUME Unread
    PROVE  disk' = disk /\ landed' = landed
<1>1. CASE UNCHANGED vars \/ PrefetchReap \/ ComputeStep \/ SideStep \/ FinishSwap
  <2>1. CASE FinishSwap
    BY <2>1 DEF FinishSwap
  <2>2. CASE UNCHANGED vars \/ PrefetchReap \/ ComputeStep \/ SideStep
    BY <2>2 DEF vars, device, PrefetchReap, ComputeStep, SideStep
  <2> QED BY <1>1, <2>1, <2>2
<1>2. CASE ServePromoteAny \/ RefillAny \/ ServeMissAny
  <2>1. CASE RefillAny
    <3>1. PICK e \in Expert, g \in GSlot, pick \in Slot \cup {None}, r \in Ring \cup {None} : Refill(e, g, pick, r)
      BY <2>1 DEF RefillAny
    <3> QED BY <3>1 DEF Refill
  <2>2. CASE ServePromoteAny \/ ServeMissAny
    BY <2>2 DEF ServePromoteAny, ServePromote, ServeMissAny, ServeMiss, device
  <2> QED BY <1>2, <2>1, <2>2
<1>3. CASE \E e \in Expert : ServeVram(e) \/ ServeClaimed(e) \/ ServeRam(e) \/ ServeUpgrade(e)
  BY <1>3 DEF ServeVram, ServeClaimed, ServeRam, ServeUpgrade, device
<1>4. CASE SettlePending \/ FetchStartAny \/ RefillDone \/ RestoreBegin \/ RestoreEnds
           \/ SettleLayer \/ SettleLayerDone
  BY <1>4 DEF SettlePending, FetchStartAny, FetchStart, RefillDone, RestoreBegin, RestoreEnds, SettleLayer,
              SettleLayerDone, device
<1>5. CASE LendAny \/ WarmAny \/ SettleFullDone
  <2>1. CASE LendAny
    BY <2>1 DEF LendAny, LendBegin, LendEnd, device
  <2>2. CASE WarmAny
    <3>1. PICK l \in Layer, e \in Expert, v \in Slot : Warm(l, e, v)
      BY <2>2 DEF WarmAny
    <3> QED BY <3>1 DEF Warm
  <2>3. CASE SettleFullDone
    BY <2>3 DEF SettleFullDone
  <2> QED BY <1>5, <2>1, <2>2, <2>3
<1> QED BY <1>1, <1>2, <1>3, <1>4, <1>5, Zenon DEF Unread

LEMMA UnreadCounts ==
    ASSUME Types, Types', HostHolds, Phases, WantedHeld, PendReads, Counts, Unread
    PROVE  Counts'
<1>1. disk' = disk /\ landed' = landed
  BY UnreadSteps
<1>2. fetch'.need.hot = fetch.need.hot /\ fetch'.need.cold = fetch.need.cold /\ fetch'.next = fetch.next
  <2>1. CASE \/ ServePromoteAny \/ RefillAny \/ UNCHANGED vars \/ PrefetchReap \/ ComputeStep \/ SideStep \/ FinishSwap
             \/ \E e \in Expert : ServeVram(e) \/ ServeClaimed(e) \/ ServeRam(e)
    BY <2>1, GoesOn
  <2>2. CASE ServeMissAny
    BY <2>2, FetchClaims DEF ServeMissAny
  <2>3. CASE \E e \in Expert : ServeUpgrade(e)
    <3>1. PICK e \in Expert : ServeUpgrade(e)
      BY <2>3
    <3>2. FindSlot(fetch.layer, e) \in Slot
      BY <3>1, ServeFacts, SlotTypes DEF ServeUpgrade
    <3> QED BY <3>1, <3>2, FetchClaims
  <2>4. CASE SettlePending
    BY <2>4, NoneLost, PendingMoves
  <2>5. CASE (SettleLayer /\ fetch.pc # "ended") \/ (SettleLayerDone /\ fetch.deferred)
    BY <2>5, DeferMoves
  <2>6. CASE \/ FetchStartAny \/ LendAny \/ RefillDone \/ SettleFullDone \/ RestoreBegin \/ RestoreEnds \/ WarmAny
             \/ SettleLayer /\ fetch.pc = "ended"
             \/ SettleLayerDone /\ ~fetch.deferred
    BY <2>6, BareDemand
  <2> QED BY <2>1, <2>2, <2>3, <2>4, <2>5, <2>6, Zenon DEF Unread
<1>3. HotReads' = HotReads /\ ColdReads' = ColdReads /\ Owed' = Owed
  BY <1>1, <1>2 DEF HotReads, ColdReads, Owed
<1> QED BY <1>1, <1>2, <1>3 DEF Counts

-----------------------------------------------------------------------------
\* One read for each element of a set is no more reads than elements.
LEMMA ImageCount ==
    ASSUME NEW S, IsFiniteSet(S), NEW T, NEW f, f \in [S -> T], \A t \in T : \E s \in S : f[s] = t
    PROVE  IsFiniteSet(T) /\ Cardinality(T) <= Cardinality(S)
<1>1. f \in Surjection(S, T)
  BY DEF Surjection
<1> QED BY <1>1, FS_Surjection

\* A step that submits the reads of rs when no count is waited for.
LEMMA FreshCounts ==
    ASSUME Types, Types', HostHolds, Phases, DiskReads, Counts,
           ~Submitted, fetch.pc # "batch", fetch.next = None, fetch.need.hot = 0, fetch.need.cold = 0,
           landed' = landed,
           IsFiniteSet(HotReads'), IsFiniteSet(ColdReads'),
           Cardinality(HotReads') <= fetch'.need.hot + Owed', Cardinality(ColdReads') <= fetch'.need.cold
    PROVE  Counts'
<1>1. Owed = 0
  BY DEF Owed
<1>2. landed.hot = 0 /\ landed.cold = 0
  BY <1>1, DemandCounts DEF Counts
<1>3. Cardinality(HotReads') \in Nat /\ Cardinality(ColdReads') \in Nat
  BY FS_CardinalityType
<1> QED BY <1>2, <1>3 DEF Counts

LEMMA SubmitReads ==
    ASSUME Types, Types', HostHolds, Phases, Claims, DiskReads, Counts, FetchSubmit
    PROVE  Counts' /\ \A d \in disk' : d \in disk \/ ClaimRead(d)'
<1> DEFINE C == fetch.claims
           R(c) == [l |-> fetch.layer, s |-> c[2], e |-> c[1], cold |-> c[3], spec |-> FALSE]
           Hot == {c \in C : ~c[3]}
           Cold == {c \in C : c[3]}
           RHot == [c \in Hot |-> R(c)]
           RCold == [c \in Cold |-> R(c)]
<1>1. disk' = disk \cup {R(c) : c \in C} /\ landed' = landed
  BY DEF FetchSubmit, Reads
<1>2. /\ C \subseteq Expert \X Slot \X BOOLEAN /\ IsFiniteSet(C)
      /\ \A c \in C : c = <<c[1], c[2], c[3]>> /\ c[3] \in BOOLEAN
  BY DEF Types, FetchOK, FetchRec
<1>3. /\ fetch'.pc = "begun" /\ fetch'.layer = fetch.layer /\ fetch'.claims = C /\ fetch'.next = None
      /\ fetch'.need = [hot |-> Cardinality(Hot), cold |-> Cardinality(Cold)]
  BY SubmitMoves
<1>4. /\ ~Submitted /\ fetch.pc # "batch" /\ fetch.next = None /\ fetch.need.hot = 0 /\ fetch.need.cold = 0
  BY FreshDemand
<1>5. \A d \in disk : d.spec
  BY <1>4, NoDemand
<1>6. IsFiniteSet(Hot) /\ IsFiniteSet(Cold)
  BY <1>2, FS_Subset
<1>7. \A c \in C : /\ R(c).l = fetch.layer /\ R(c).s = c[2] /\ R(c).e = c[1] /\ R(c).cold = c[3] /\ ~R(c).spec
  OBVIOUS
<1> HIDE DEF R
<1>8. HotReads' = {R(c) : c \in Hot} /\ ColdReads' = {R(c) : c \in Cold}
  BY <1>1, <1>5, <1>7 DEF HotReads, ColdReads
<1>9. IsFiniteSet(HotReads') /\ Cardinality(HotReads') <= Cardinality(Hot)
  <2>1. RHot \in [Hot -> HotReads'] /\ \A t \in HotReads' : \E c \in Hot : RHot[c] = t
    BY <1>8
  <2> HIDE DEF RHot, Hot
  <2> QED BY <1>6, <2>1, ImageCount
<1>10. IsFiniteSet(ColdReads') /\ Cardinality(ColdReads') <= Cardinality(Cold)
  <2>1. RCold \in [Cold -> ColdReads'] /\ \A t \in ColdReads' : \E c \in Cold : RCold[c] = t
    BY <1>8
  <2> HIDE DEF RCold, Cold
  <2> QED BY <1>6, <2>1, ImageCount
<1>11. Counts'
  <2>1. Owed' = 0 /\ fetch'.need.hot = Cardinality(Hot) /\ fetch'.need.cold = Cardinality(Cold)
    BY <1>3 DEF Owed
  <2>2. Cardinality(Hot) \in Nat
    BY <1>6, FS_CardinalityType
  <2> HIDE DEF Hot, Cold
  <2>3. Cardinality(HotReads') <= fetch'.need.hot + Owed' /\ Cardinality(ColdReads') <= fetch'.need.cold
    BY <1>9, <1>10, <2>1, <2>2
  <2> QED BY <1>1, <1>4, <1>9, <1>10, <2>3, FreshCounts
<1>12. \A d \in disk' : d \in disk \/ ClaimRead(d)'
  <2> SUFFICES ASSUME NEW c \in C, NEW d, d = R(c) PROVE ClaimRead(d)'
    BY <1>1
  <2>1. <<d.e, d.s, d.cold>> = c
    BY <1>2, <1>7
  <2> QED BY <1>3, <1>7, <2>1 DEF ClaimRead, Submitted
<1> QED BY <1>11, <1>12

LEMMA AheadReads ==
    ASSUME Types, Types', HostHolds, Phases, Claims, Counts, PrefetchAny
    PROVE  Counts' /\ \A d \in disk' : d \in disk \/ SpecRead(d)'
<1>1. PICK l \in Layer, e \in Expert, v \in Slot, cold \in BOOLEAN : PrefetchBegin(l, e, v, cold)
  BY DEF PrefetchAny
<1> DEFINE r == [l |-> l, s |-> v, e |-> e, cold |-> cold, spec |-> TRUE]
<1>2. disk' = disk \cup {r} /\ landed' = landed
  BY <1>1 DEF PrefetchBegin, Reads
<1>3. PrefetchTakes(l, e, v, cold)
  BY <1>1, PrefetchBegins
<1>31. /\ <<l, e, v>> \in pf' /\ fetch' = fetch /\ ram'[l][v].cold = cold
  BY <1>3 DEF PrefetchTakes
<1>4. r.l = l /\ r.s = v /\ r.e = e /\ r.cold = cold /\ r.spec
  OBVIOUS
<1> HIDE DEF r
<1>5. HotReads' = HotReads /\ ColdReads' = ColdReads /\ Owed' = Owed
  BY <1>2, <1>31, <1>4 DEF HotReads, ColdReads, Owed
<1>6. SpecRead(r)'
  BY <1>31, <1>4 DEF SpecRead
<1>7. Counts'
  BY <1>2, <1>31, <1>5 DEF Counts
<1> QED BY <1>2, <1>6, <1>7

LEMMA RestoreCounts ==
    ASSUME Types, Types', HostHolds, Phases, Claims, DiskReads, Counts, RestoreAny
    PROVE  Counts' /\ \A d \in disk' : d \in disk \/ NextRead(d)'
<1>1. PICK l \in Layer, e \in Expert, v \in Slot \cup {None} : PrefetchStart(l, e, v)
  BY DEF RestoreAny
<1> DEFINE r == [l |-> l, s |-> v, e |-> e, cold |-> FALSE, spec |-> FALSE]
           next == [l |-> l, e |-> e, v |-> v]
<1>2. /\ disk' = IF v = None THEN disk ELSE disk \cup {r}
      /\ landed' = landed
  BY <1>1 DEF PrefetchStart, Reads
<1>3. fetch'.next = next /\ fetch'.need = fetch.need
  BY <1>1, StartMoves
<1>4. /\ ~Submitted /\ fetch.pc # "batch" /\ fetch.next = None /\ fetch.need.hot = 0 /\ fetch.need.cold = 0
  BY FreshDemand
<1>5. \A d \in disk : d.spec
  BY <1>4, NoDemand
<1>6. r.l = l /\ r.s = v /\ r.e = e /\ ~r.cold /\ ~r.spec
  OBVIOUS
<1>7. next # None /\ next.l = l /\ next.e = e /\ next.v = v
  <2>1. next \in [l : Layer, e : Expert, v : Slot \cup {None}]
    OBVIOUS
  <2> QED BY <2>1, CacheConstants
<1> HIDE DEF r, next
<1>8. NextRead(r)'
  BY <1>3, <1>6, <1>7 DEF NextRead
<1>9. Owed' = IF v # None THEN 1 ELSE 0
  BY <1>3, <1>7 DEF Owed
<1>10. ColdReads' = {} /\ HotReads' = IF v # None THEN {r} ELSE {}
  BY <1>2, <1>5, <1>6 DEF ColdReads, HotReads
<1>11. /\ IsFiniteSet(HotReads') /\ IsFiniteSet(ColdReads')
       /\ Cardinality(HotReads') <= fetch'.need.hot + Owed' /\ Cardinality(ColdReads') <= fetch'.need.cold
  <2>1. IsFiniteSet({r}) /\ Cardinality({r}) = 1 /\ IsFiniteSet({}) /\ Cardinality({}) = 0
    BY FS_Singleton, FS_EmptySet
  <2> QED BY <1>3, <1>4, <1>9, <1>10, <2>1
<1>12. Counts'
  BY <1>2, <1>4, <1>11, FreshCounts
<1> QED BY <1>2, <1>8, <1>12

LEMMA BatchCounts ==
    ASSUME Types, Types', Maps, HostHolds, Phases, Claims, DiskReads, Counts, BatchAny
    PROVE  Counts' /\ \A d \in disk' : d \in disk \/ BatchRead(d)'
<1>1. PICK l \in Layer, es \in {ToSet(list) : list \in Lists} :
         \E adopt \in Adoptions(l, {e \in es : ~BatchHit(l, e)}) : FetchBatch(l, es, adopt)
  BY DEF BatchAny
<1>2. es \in SUBSET Expert
  BY <1>1 DEF Lists, ToSet
<1>3. PICK adopt \in Adoptions(l, {e \in es : ~BatchHit(l, e)}) : FetchBatch(l, es, adopt)
  BY <1>1
<1> DEFINE into == {e \in DOMAIN adopt : adopt[e] # None}
           R(e) == [l |-> l, s |-> adopt[e], e |-> e, cold |-> FALSE, spec |-> FALSE]
           f == [e \in into |-> R(e)]
<1>4. disk' = disk \cup {R(e) : e \in into} /\ landed' = landed
  BY <1>3 DEF FetchBatch
<1>5. /\ fetch'.pc = "batch" /\ fetch'.layer = l /\ fetch'.next = None
      /\ fetch'.need = [hot |-> Cardinality(into), cold |-> 0]
  BY <1>3, BatchReads
<1>6. /\ ~Submitted /\ fetch.pc # "batch" /\ fetch.next = None /\ fetch.need.hot = 0 /\ fetch.need.cold = 0
  BY FreshDemand
<1>7. \A d \in disk : d.spec
  BY <1>6, NoDemand
<1>8. \A e \in into : R(e).l = l /\ R(e).s = adopt[e] /\ R(e).e = e /\ ~R(e).cold /\ ~R(e).spec
  OBVIOUS
<1>9. /\ \A k \in Layer, x \in Slot : BatchKeeps(l, adopt, k, x) \/ BatchAdopts(l, adopt, k, x) \/ BatchHits(l, k, x)
      /\ \A e \in into : e \in Expert /\ e \in DOMAIN adopt /\ adopt[e] \in Slot
      /\ \A a, b \in DOMAIN adopt : adopt[a] = adopt[b] /\ adopt[a] # None => a = b
      /\ DOMAIN adopt = {e \in es : ~BatchHit(l, e)}
      /\ \A e \in into : adopt[e] \in {s \in Slot : ram[l][s].expert = None} \cup {None}
  BY <1>2, <1>3, BatchEffect DEF Adoptions
<1>10. IsFiniteSet(into)
  <2>1. IsFiniteSet(Expert) /\ into \subseteq Expert
    BY <1>9, CacheConstants
  <2> QED BY <2>1, FS_Subset
<1> HIDE DEF R
<1>11. HotReads' = {R(e) : e \in into} /\ ColdReads' = {}
  BY <1>4, <1>7, <1>8 DEF HotReads, ColdReads
<1>12. IsFiniteSet(HotReads') /\ Cardinality(HotReads') <= Cardinality(into)
  <2>1. f \in [into -> HotReads'] /\ \A t \in HotReads' : \E e \in into : f[e] = t
    BY <1>11
  <2> HIDE DEF f, into
  <2> QED BY <1>10, <2>1, ImageCount
<1>13. Counts'
  <2>1. Owed' = 0 /\ fetch'.need.hot = Cardinality(into) /\ fetch'.need.cold = 0
    BY <1>5 DEF Owed
  <2>2. Cardinality(into) \in Nat
    BY <1>10, FS_CardinalityType
  <2> HIDE DEF into
  <2>3. /\ Cardinality(HotReads') <= fetch'.need.hot + Owed' /\ IsFiniteSet(ColdReads')
        /\ Cardinality(ColdReads') <= fetch'.need.cold
    BY <1>11, <1>12, <2>1, <2>2, FS_EmptySet
  <2> QED BY <1>4, <1>6, <1>12, <2>3, FreshCounts
<1>14. \A d \in disk' : d \in disk \/ BatchRead(d)'
  <2> SUFFICES ASSUME NEW e \in into PROVE BatchRead(R(e))'
    BY <1>4
  <2> DEFINE x == adopt[e]
  <2>1. x \in Slot /\ e \in Expert /\ ram[l][x].expert = None /\ e \in DOMAIN adopt /\ x # None
    BY <1>9
  <2> HIDE DEF x
  <2>2. ~BatchHits(l, l, x) /\ ~BatchKeeps(l, adopt, l, x)
    BY <2>1 DEF BatchHits, BatchKeeps, x
  <2>3. BatchAdopts(l, adopt, l, x)
    BY <1>9, <2>1, <2>2
  <2>4. ram'[l][x].expert = e
    BY <1>9, <2>1, <2>3 DEF BatchAdopts, x
  <2> QED BY <1>5, <1>8, <2>3, <2>4 DEF BatchAdopts, BatchRead, x
<1> QED BY <1>13, <1>14

LEMMA LandCounts ==
    ASSUME Types, Types', Counts, DiskAny
    PROVE  Counts' /\ disk' \subseteq disk
<1>1. PICK r \in disk : DiskLand(r)
  BY DEF DiskAny
<1>2. /\ disk' = disk \ {r} /\ fetch' = fetch
      /\ landed' = IF r.spec THEN landed
                   ELSE IF r.cold THEN [landed EXCEPT !.cold = @ + 1]
                   ELSE [landed EXCEPT !.hot = @ + 1]
  BY <1>1 DEF DiskLand, hostv
<1>3. landed \in [hot : Nat, cold : Nat] /\ r.spec \in BOOLEAN /\ r.cold \in BOOLEAN
  BY DEF Types, TypeOK, ReadRec
<1>4. Owed' = Owed
  BY <1>2 DEF Owed
<1>5. CASE r.spec
  <2>1. HotReads' = HotReads /\ ColdReads' = ColdReads /\ landed' = landed
    BY <1>2, <1>5 DEF HotReads, ColdReads
  <2> QED BY <1>2, <1>4, <2>1 DEF Counts
<1>6. CASE ~r.spec /\ r.cold
  <2>1. HotReads' = HotReads /\ ColdReads' = ColdReads \ {r} /\ r \in ColdReads
    BY <1>2, <1>6 DEF HotReads, ColdReads
  <2>2. landed'.hot = landed.hot /\ landed'.cold = landed.cold + 1
    BY <1>2, <1>3, <1>6
  <2>3. IsFiniteSet(ColdReads') /\ Cardinality(ColdReads') = Cardinality(ColdReads) - 1
    BY <2>1, FS_RemoveElement DEF Counts
  <2> QED BY <1>2, <1>4, <2>1, <2>2, <2>3, DemandCounts DEF Counts
<1>7. CASE ~r.spec /\ ~r.cold
  <2>1. ColdReads' = ColdReads /\ HotReads' = HotReads \ {r} /\ r \in HotReads
    BY <1>2, <1>7 DEF HotReads, ColdReads
  <2>2. landed'.cold = landed.cold /\ landed'.hot = landed.hot + 1
    BY <1>2, <1>3, <1>7
  <2>3. IsFiniteSet(HotReads') /\ Cardinality(HotReads') = Cardinality(HotReads) - 1
    BY <2>1, FS_RemoveElement DEF Counts
  <2> QED BY <1>2, <1>4, <2>1, <2>2, <2>3, DemandCounts DEF Counts
<1> QED BY <1>2, <1>3, <1>5, <1>6, <1>7

\* The reads of a fetch, a batch or the restore have all landed and been counted.
LEMMA ReachedCounts ==
    ASSUME Types, Types', HostHolds, Phases, DiskReads, Counts, FetchEnd \/ BatchDone \/ PrefetchFinish
    PROVE  Counts' /\ disk' = disk
<1>1. (\A d \in disk : d.spec) /\ disk' = disk /\ landed' = [hot |-> 0, cold |-> 0]
  BY AllLanded
<1>2. HotReads' = {} /\ ColdReads' = {}
  BY <1>1 DEF HotReads, ColdReads
<1>3. fetch'.need \in [hot : Nat, cold : Nat] /\ Owed' \in {0, 1}
  BY DEF Types, FetchOK, FetchRec, Owed
<1> QED BY <1>1, <1>2, <1>3, FS_EmptySet DEF Counts

LEMMA StepReads ==
    ASSUME Types, Types', Maps, Maps', Slots, Phases, Claims, DiskReads, Counts,
           failed = 0, failed' = 0, [Next]_vars
    PROVE  DiskReads' /\ Counts'
<1>0. HostHolds /\ WantedHeld /\ PendReads /\ fetch.pc # "reread"
  BY DEF Slots, Claims
<1>1. \A d \in disk : SpecRead(d) \/ ClaimRead(d) \/ NextRead(d) \/ BatchRead(d)
  BY DEF DiskReads
<1>2. \A d \in disk : SpecRead(d)' \/ ClaimRead(d)' \/ NextRead(d)' \/ BatchRead(d)'
  BY <1>1, StepDemand, SpecKept DEF OldKept
<1>3. /\ Counts'
      /\ \A d \in disk' : d \in disk \/ SpecRead(d)' \/ ClaimRead(d)' \/ NextRead(d)' \/ BatchRead(d)'
  <2>1. CASE Unread
    BY <1>0, <2>1, UnreadSteps, UnreadCounts
  <2>2. CASE FetchSubmit
    BY <1>0, <2>2, SubmitReads
  <2>3. CASE PrefetchAny
    BY <1>0, <2>3, AheadReads
  <2>4. CASE RestoreAny
    BY <1>0, <2>4, RestoreCounts
  <2>5. CASE BatchAny
    BY <1>0, <2>5, BatchCounts
  <2>6. CASE DiskAny
    BY <2>6, LandCounts
  <2>7. CASE FetchEnd \/ BatchDone \/ PrefetchFinish
    BY <1>0, <2>7, ReachedCounts
  <2>8. CASE RereadAny \/ RereadReturns \/ FetchShort \/ \E e \in Expert : ServeFails(e)
    BY <1>0, <2>8, FailedCounts DEF RereadAny, Reread, RereadReturns
  <2> QED BY <2>1, <2>2, <2>3, <2>4, <2>5, <2>6, <2>7, <2>8, Zenon DEF Unread, Next, FetchSteps, ServeAny
<1>4. DiskReads'
  BY <1>2, <1>3 DEF DiskReads
<1> QED BY <1>3, <1>4

LEMMA ReadsAlways == Spec => [](failed = 0 => DiskReads /\ Counts)
<1>1. Init => DiskReads /\ Counts
  <2> SUFFICES ASSUME Init PROVE DiskReads /\ Counts
    OBVIOUS
  <2>1. /\ disk = {} /\ landed.hot = 0 /\ landed.cold = 0 /\ fetch.next = None
        /\ fetch.need.hot = 0 /\ fetch.need.cold = 0
    BY DEF Init, NoFetch
  <2>2. HotReads = {} /\ ColdReads = {} /\ Owed = 0
    BY <2>1 DEF HotReads, ColdReads, Owed
  <2> QED BY <2>1, <2>2, FS_EmptySet DEF DiskReads, Counts
<1>2. /\ Types /\ Types' /\ Maps /\ Maps' /\ Slots /\ Phases /\ (failed = 0 => Claims)
      /\ (failed = 0 => DiskReads /\ Counts) /\ [Next]_vars
      => (failed = 0 => DiskReads /\ Counts)'
  BY StepReads, FailedStays
<1> QED BY <1>1, <1>2, TypesAlways, MapsAlways, SlotsAlways, PhasesAlways, ClaimsAlways, PTL DEF Spec

=============================================================================

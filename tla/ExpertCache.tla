---------------------------- MODULE ExpertCache ----------------------------
(***************************************************************************)
(* The expert cache (src/src/qwfn_expert_cache.cpp): per layer a pool of   *)
(* RAM slots and a tier of VRAM slots, filled from the checkpoint on disk. *)
(* One host thread runs every operation.  Three things run beside it: the  *)
(* disk reads, the in-order compute queue of the device (uploads,          *)
(* read-backs, staging copies and the kernels that use the experts), and   *)
(* the side queue that brings staged victims back to RAM.                  *)
(*                                                                         *)
(* The bytes are modelled too: rbytes, gbytes and sbytes say what each RAM *)
(* slot, VRAM slot and staging entry really holds, changed only when a     *)
(* read lands or a queue executes an operation.  The tables (ram, map,     *)
(* vram, gmap) are what the code believes.  The invariants compare them.   *)
(*                                                                         *)
(* Frequencies, recency and sampling only choose among the slots the code  *)
(* may take: the choice is left open.                                      *)
(*                                                                         *)
(* The reads go through the thread pool, the engine's default: a reap()    *)
(* that returns less than it was asked for finds nothing outstanding       *)
(* (IoEngine, ShortReapMeansDrained).  With io_uring an interrupted wait   *)
(* returns early as well, and what the cache does then is not modelled.    *)
(***************************************************************************)
EXTENDS Integers, Sequences, FiniteSets, SequencesExt

CONSTANTS
    Layer, Expert,
    Slot,        \* RAM slots of a layer's pool
    GSlot,       \* VRAM slots of a layer's tier
    Ring,        \* entries of the staging ring; {}: QWFN_PROMOTE_D2D is off
    Exclusive,   \* QWFN_RAM_EXCLUSIVE: a promotion's victim returns to RAM
    HasCold,     \* a second, lower-precision checkpoint is configured
    SkipMiss,    \* --skip-miss: the caller settles the claims it took over before fetch_end(), and
                 \* the layer's settle may run before it too
    Lendable,    \* layers whose tier is lent to a prefill
    Prompting,   \* what prompts do besides: "warm" the cache, fetch a "batch",
                 \* have the tier "restore"d
    MaxFetch,    \* experts of one fetch (n_expert_used of a step)
    MaxPromote,  \* max_promotions_per_layer
    MaxSpec,     \* speculative reads in flight (bound: the predictor's sets are small)
    MaxFail,     \* failed fetches after which no new one is started (bound)
    None

ASSUME CacheConstants ==
    /\ \A S \in {Layer, Expert, Slot, GSlot, Ring} : IsFiniteSet(S) /\ None \notin S
    /\ Exclusive \in BOOLEAN /\ HasCold \in BOOLEAN /\ SkipMiss \in BOOLEAN
    /\ Lendable \subseteq Layer /\ Prompting \subseteq {"warm", "batch", "restore"}
    /\ MaxFetch \in Nat \ {0} /\ MaxPromote \in Nat /\ MaxSpec \in Nat
    /\ MaxFail \in Nat \ {0}
    /\ Ring # {} => Exclusive
    /\ None \notin [l : Layer, e : Expert, v : Slot \cup {None}]

VARIABLES
    ram,      \* ram[l][s]: slot_expert, slot_valid, slot_cold, slot_soa
    map,      \* expert_slot
    free,     \* free_slots, a stack
    vram,     \* g_slot_expert (g_valid holds exactly for the non-empty ones)
    gmap,     \* g_expert_slot
    gused,    \* VRAM slots with g_used >= fetch_epoch_
    lent,     \* layers with g_lent
    hotw,     \* experts that must be read at full precision
    live,     \* live_
    rel,      \* pending_release_
    swaps,    \* pending_swaps_
    landing,  \* landing_
    ringBusy, \* ring_busy_
    fetch,    \* the host's program counter and the operation in progress
    handles,  \* handles the fetch in progress gave out
    pend,     \* pending_: claimed by a speculative read, waited for in fetch_end
    failed,   \* fetches that failed, to bound them
    pf,       \* pf_pending_: speculative reads not reaped yet
    disk,     \* reads the drive has not finished
    landed,   \* completions not reaped yet, of the two engines of demand reads
    cq, sideq,\* the compute queue and the side queue
    rbytes, gbytes, sbytes

tables == <<ram, map, free, vram, gmap, gused, lent, hotw>>
hostv == <<live, rel, swaps, landing, ringBusy, fetch, handles, pend, failed, pf>>
device == <<disk, landed, cq, sideq, rbytes, gbytes, sbytes>>
vars == <<tables, hostv, device>>

Empty == [expert |-> None, valid |-> FALSE, cold |-> FALSE, soa |-> FALSE]

\* What a block of memory holds: an expert's weights at full (hot) or reduced
\* (cold) precision, in the file's layout or the device's, or neither.
Bytes(e, cold, soa) == [e |-> e, cold |-> cold, soa |-> soa]
Garbage == Bytes(None, FALSE, FALSE)
AllBytes == [e : Expert \cup {None}, cold : BOOLEAN, soa : BOOLEAN]

NoFetch == [pc |-> "idle", layer |-> None, todo |-> <<>>, promoted |-> 0,
            claims |-> {}, need |-> [hot |-> 0, cold |-> 0],
            lost |-> {}, reading |-> None,
            deferred |-> FALSE, full |-> FALSE, lend |-> None, cand |-> {},
            restore |-> FALSE, next |-> None]

RamSlot == [expert : Expert \cup {None}, valid : BOOLEAN, cold : BOOLEAN, soa : BOOLEAN]
HandleRec == [e : Expert, gpu : BOOLEAN, slot : Slot \cup GSlot, cold : BOOLEAN, ready : BOOLEAN]
ReadRec == [l : Layer, s : Slot, e : Expert, cold : BOOLEAN, spec : BOOLEAN]
SwapRec == [layer : Layer, promoted : Expert, from : Slot,
            victim : Expert \cup {None}, to : Slot \cup {None}, ring : Ring \cup {None}]

\* The types of the cache's tables, of the reads in flight and of what a fetch hands out.
TypeOK ==
    /\ ram \in [Layer -> [Slot -> RamSlot]]
    /\ map \in [Layer -> [Expert -> Slot \cup {None}]]
    /\ free \in [Layer -> Seq(Slot)]
    /\ vram \in [Layer -> [GSlot -> Expert \cup {None}]]
    /\ gmap \in [Layer -> [Expert -> GSlot \cup {None}]]
    /\ gused \subseteq Layer \X GSlot
    /\ lent \subseteq Lendable
    /\ hotw \subseteq Layer \X Expert
    /\ live \subseteq Slot
    /\ rel \subseteq Layer \X Slot
    /\ swaps \in Seq(SwapRec) /\ landing \in Seq(SwapRec)
    /\ ringBusy \subseteq Ring
    /\ fetch.pc \in {"idle", "serve", "begun", "ended", "reread", "settle", "refill",
                    "warm", "batch", "batched", "restore"}
    /\ handles \subseteq HandleRec
    /\ pend \subseteq Expert \X Slot
    /\ failed \in 0..MaxFail
    /\ pf \subseteq Layer \X Expert \X Slot
    /\ disk \subseteq ReadRec
    /\ landed \in [hot : Nat, cold : Nat]
    /\ rbytes \in [Layer -> [Slot -> AllBytes]]
    /\ gbytes \in [Layer -> [GSlot -> AllBytes]]
    /\ sbytes \in [Ring -> AllBytes]

Init ==
    /\ ram = [l \in Layer |-> [s \in Slot |-> Empty]]
    /\ map = [l \in Layer |-> [e \in Expert |-> None]]
    /\ free = [l \in Layer |-> <<>>]
    /\ vram = [l \in Layer |-> [g \in GSlot |-> None]]
    /\ gmap = [l \in Layer |-> [e \in Expert |-> None]]
    /\ gused = {} /\ lent = {} /\ hotw = {}
    /\ live = {} /\ rel = {} /\ swaps = <<>> /\ landing = <<>> /\ ringBusy = {}
    /\ fetch = NoFetch /\ handles = {} /\ pend = {} /\ failed = 0 /\ pf = {}
    /\ disk = {} /\ landed = [hot |-> 0, cold |-> 0] /\ cq = <<>> /\ sideq = <<>>
    /\ rbytes = [l \in Layer |-> [s \in Slot |-> Garbage]]
    /\ gbytes = [l \in Layer |-> [g \in GSlot |-> Garbage]]
    /\ sbytes = [r \in Ring |-> Garbage]

-----------------------------------------------------------------------------
(* Device operations.                                                      *)

Op(op, l, s, g, r, raw, uses) ==
    [op |-> op, l |-> l, s |-> s, g |-> g, r |-> r, raw |-> raw, uses |-> uses]
Upload(l, s, g, raw) == Op("upload", l, s, g, None, raw, {})
Stage(l, g, r)       == Op("stage", l, None, g, r, FALSE, {})
ReadBack(l, g, s)    == Op("readback", l, s, g, None, FALSE, {})
Use(l, uses)         == Op("use", l, None, None, None, FALSE, uses)

\* The upload reorders file-layout bytes into the device's layout, or copies
\* them raw when the slot was flagged as holding device bytes already.
Uploaded(b, raw) ==
    IF raw THEN b ELSE IF b.soa THEN Garbage ELSE [b EXCEPT !.soa = TRUE]

\* The device executes the next operation of the compute queue.
ComputeStep ==
    /\ cq # <<>>
    /\ cq' = Tail(cq)
    /\ LET o == Head(cq)
       IN  /\ gbytes' = IF o.op = "upload"
                        THEN [gbytes EXCEPT ![o.l][o.g] = Uploaded(rbytes[o.l][o.s], o.raw)]
                        ELSE gbytes
           /\ rbytes' = IF o.op = "readback"
                        THEN [rbytes EXCEPT ![o.l][o.s] = gbytes[o.l][o.g]] ELSE rbytes
           /\ sbytes' = IF o.op = "stage"
                        THEN [sbytes EXCEPT ![o.r] = gbytes[o.l][o.g]] ELSE sbytes
    /\ UNCHANGED <<tables, hostv, disk, landed, sideq>>

\* The side queue brings a staged victim back to its RAM slot.
SideStep ==
    /\ sideq # <<>>
    /\ sideq' = Tail(sideq)
    /\ LET o == Head(sideq)
       IN  rbytes' = [rbytes EXCEPT ![o.l][o.s] = sbytes[o.r]]
    /\ UNCHANGED <<tables, hostv, disk, landed, cq, gbytes, sbytes>>

\* The drive finishes a read.  The completion of a demand read carries no more
\* than the engine it belongs to; that of a speculative read names its entry.
DiskLand(r) ==
    /\ r \in disk
    /\ disk' = disk \ {r}
    /\ landed' = IF r.spec THEN landed
                 ELSE IF r.cold THEN [landed EXCEPT !.cold = @ + 1]
                 ELSE [landed EXCEPT !.hot = @ + 1]
    /\ rbytes' = [rbytes EXCEPT ![r.l][r.s] = Bytes(r.e, r.cold, FALSE)]
    /\ UNCHANGED <<tables, hostv, cq, sideq, gbytes, sbytes>>

\* Reads are submitted: from now until it lands a block is neither old nor new.
Reads(rs) ==
    /\ disk' = disk \cup rs
    /\ rbytes' = [l \in Layer |-> [s \in Slot |->
                    IF \E r \in rs : r.l = l /\ r.s = s THEN Garbage ELSE rbytes[l][s]]]

-----------------------------------------------------------------------------
(* Slots.                                                                  *)

InVram(l, e) == l \notin lent /\ gmap[l][e] # None /\ vram[l][gmap[l][e]] = e
Claimed(l, s) == ram[l][s].expert # None /\ ~ram[l][s].valid
FindSlot(l, e) ==
    IF map[l][e] # None /\ ram[l][map[l][e]].expert = e /\ ram[l][map[l][e]].valid
    THEN map[l][e] ELSE None

\* No slot holds e, nor is one claimed for it.
Absent(l, e) == map[l][e] # None => ram[l][map[l][e]].expert # e

\* Mutant: a slot with a read or a swap in flight may be handed out.
MutEvictable(R, l) == {s \in Slot : s \notin live /\ <<l, s>> \notin rel}

\* choose_victim(): never a slot a read or a swap is filling, one this fetch
\* handed out, or one a queued upload may still read.  It fails only when there
\* is none.
Evictable(R, l) ==
    {s \in Slot : ~(R[l][s].expert # None /\ ~R[l][s].valid)
                  /\ s \notin live /\ <<l, s>> \notin rel}

\* Eviction unmaps the expert the slot held, whatever its map entry says.
Unmapped(m, old) == IF old = None THEN m ELSE [m EXCEPT ![old] = None]

\* Mutant: a VRAM slot used by this fetch may be replaced.
MutGVictims(l) == GSlot

\* promote()'s VRAM victim: an empty slot, or one not used since fetch_epoch_.
\* Staleness and frequency decide among them, or refuse.
GVictims(l) == {g \in GSlot : vram[l][g] = None \/ <<l, g>> \notin gused}

\* Mutant: a stale entry of the free stack is taken as it is.
MutFreeTop(l) == 1..Len(free[l])

\* The top of the free-slot stack that is still empty.
FreeTop(l) == {i \in 1..Len(free[l]) : ram[l][free[l][i]].expert = None}

\* Where an exclusive promotion puts its victim's bytes: the topmost slot of
\* the free stack that is still empty, else any evictable one, else nowhere.
SwapTargets(l) ==
    IF FreeTop(l) # {} THEN {free[l][CHOOSE i \in FreeTop(l) : \A j \in FreeTop(l) : j <= i]}
    ELSE IF Evictable(ram, l) # {} THEN Evictable(ram, l)
    ELSE {None}
FreeLeft(l) ==
    IF FreeTop(l) = {} THEN <<>>
    ELSE SubSeq(free[l], 1, (CHOOSE i \in FreeTop(l) : \A j \in FreeTop(l) : j <= i) - 1)

RingTargets == IF Ring \ ringBusy = {} THEN {None} ELSE Ring \ ringBusy

\* promote(e) from RAM slot s into VRAM slot g.  With exclusive tiers a victim
\* is first read back into a RAM slot, directly or through staging entry r, in
\* order before the upload that overwrites it; the slot is claimed for it and
\* not mapped.  choose_victim() clears the layout flag of the slot it returns,
\* also when that is s itself and promote() then declines it.
Promote(l, e, s, g, pick, r) ==
    LET victim == vram[l][g]
        swap == Exclusive /\ victim # None
        to == IF pick = s THEN None ELSE pick
    IN  /\ l \notin lent
        /\ map[l][e] # None => ~ram[l][map[l][e]].cold
        /\ g \in GVictims(l)
        /\ pick \in IF swap THEN SwapTargets(l) ELSE {None}
        /\ r \in IF to # None THEN RingTargets ELSE {None}
        /\ vram' = [vram EXCEPT ![l][g] = e]
        /\ gmap' = [gmap EXCEPT ![l] = [Unmapped(gmap[l], victim) EXCEPT ![e] = g]]
        /\ gused' = gused \cup {<<l, g>>}
        /\ ram' = IF to # None THEN [ram EXCEPT ![l][to] = [Empty EXCEPT !.expert = victim]]
                  ELSE IF pick = s THEN [ram EXCEPT ![l][s].soa = FALSE]
                  ELSE ram
        /\ map' = IF to # None THEN [map EXCEPT ![l] = Unmapped(map[l], ram[l][to].expert)]
                  ELSE map
        /\ free' = IF swap THEN [free EXCEPT ![l] = FreeLeft(l)] ELSE free
        /\ swaps' = IF Exclusive
                    THEN Append(swaps, [layer |-> l, promoted |-> e, from |-> s,
                                        victim |-> victim, to |-> to, ring |-> r])
                    ELSE swaps
        /\ ringBusy' = IF r # None THEN ringBusy \cup {r} ELSE ringBusy
        /\ cq' = (IF to = None THEN cq
                  ELSE IF r # None THEN Append(cq, Stage(l, g, r))
                  ELSE Append(cq, ReadBack(l, g, to)))
                 \o <<Upload(l, s, g, ram'[l][s].soa)>>

\* Mutant: the read-backs queued for the layer are not waited for.
MutLandLayer(l) ==
    IF \E i \in 1..Len(landing) : landing[i].layer = l
    THEN /\ ringBusy' = ringBusy \ {landing[i].ring : i \in 1..Len(landing)}
         /\ landing' = <<>>
    ELSE UNCHANGED <<ringBusy, landing>>

\* land_layer(): before a layer's pool is used, the read-backs queued for it
\* are waited for.  The step is not enabled until the side queue is empty.
LandLayer(l) ==
    IF \E i \in 1..Len(landing) : landing[i].layer = l
    THEN /\ sideq = <<>>
         /\ ringBusy' = ringBusy \ {landing[i].ring : i \in 1..Len(landing)}
         /\ landing' = <<>>
    ELSE UNCHANGED <<ringBusy, landing>>

-----------------------------------------------------------------------------
(* fetch_begin().                                                          *)

Handle(e, gpu, slot, cold, ready) ==
    [e |-> e, gpu |-> gpu, slot |-> slot, cold |-> cold, ready |-> ready]

\* Entry: land the layer, open a new epoch, and protect what the list names in
\* either tier before any of it is served.
FetchStart(l, list) ==
    /\ fetch.pc = "idle" /\ ~fetch.deferred /\ failed < MaxFail
    /\ LandLayer(l)
    /\ live' = {s \in Slot : \E e \in ToSet(list) : map[l][e] = s /\ ram[l][s].expert = e}
    /\ gused' = {<<l, gmap[l][e]>> : e \in {x \in ToSet(list) : InVram(l, x)}}
    /\ handles' = {} /\ pend' = {}
    /\ fetch' = [NoFetch EXCEPT !.pc = "serve", !.layer = l, !.todo = list]
    /\ UNCHANGED <<ram, map, free, vram, gmap, lent, hotw, rel, swaps, pf, device, failed>>

Serving(e) == fetch.pc = "serve" /\ fetch.todo # <<>> /\ e = Head(fetch.todo)
Served == fetch' = [fetch EXCEPT !.todo = Tail(@)]

\* In VRAM: the expert's matmul runs on the device.
ServeVram(e) ==
    LET l == fetch.layer
    IN  /\ Serving(e) /\ InVram(l, e)
        /\ gused' = gused \cup {<<l, gmap[l][e]>>}
        /\ handles' = handles \cup {Handle(e, TRUE, gmap[l][e], FALSE, TRUE)}
        /\ Served
        /\ UNCHANGED <<ram, map, free, vram, gmap, lent, hotw, live, rel, swaps,
                       landing, ringBusy, pend, pf, device, failed>>

\* Claimed by a read that has not landed: a hit that fetch_end() waits for.
ServeClaimed(e) ==
    LET l == fetch.layer
        cs == map[l][e]
    IN  /\ Serving(e) /\ ~InVram(l, e)
        /\ cs # None /\ ram[l][cs].expert = e /\ ~ram[l][cs].valid
        /\ hotw' \in {hotw} \cup (IF ram[l][cs].cold /\ l \notin lent
                                  THEN {hotw \cup {<<l, e>>}} ELSE {})
        /\ live' = live \cup {cs}
        /\ handles' = handles \cup {Handle(e, FALSE, cs, ram[l][cs].cold, FALSE)}
        /\ pend' = pend \cup {<<e, cs>>}
        /\ Served
        /\ UNCHANGED <<ram, map, free, vram, gmap, gused, lent, rel, swaps,
                       landing, ringBusy, pf, device, failed>>

\* to_file_layout(): a block read back from VRAM is put into the file's layout, in
\* place.
FileLayout(b, soa) ==
    IF ~soa THEN b ELSE IF b.soa THEN [b EXCEPT !.soa = FALSE] ELSE Garbage

\* A RAM hit served from RAM.
ServeRam(e) ==
    LET l == fetch.layer
        s == FindSlot(l, e)
    IN  /\ Serving(e) /\ ~InVram(l, e) /\ s # None
        /\ live' = live \cup {s}
        /\ handles' = handles \cup {Handle(e, FALSE, s, ram[l][s].cold, TRUE)}
        /\ ram' = [ram EXCEPT ![l][s].soa = FALSE]
        /\ rbytes' = [rbytes EXCEPT ![l][s] = FileLayout(@, ram[l][s].soa)]
        /\ Served
        /\ UNCHANGED <<map, free, vram, gmap, gused, lent, hotw, rel, swaps, landing,
                       ringBusy, pend, pf, disk, landed, cq, sideq, gbytes, sbytes, failed>>

\* A RAM hit promoted on the spot: the caller gets the VRAM copy, and the RAM
\* slot stays protected until the next settle because the upload reads it.
ServePromote(e, g, pick, r) ==
    LET l == fetch.layer
        s == FindSlot(l, e)
    IN  /\ Serving(e) /\ ~InVram(l, e) /\ s # None
        /\ fetch.promoted < MaxPromote
        /\ Promote(l, e, s, g, pick, r)
        /\ live' = live \cup {s}
        /\ rel' = rel \cup {<<l, s>>}
        /\ handles' = handles \cup {Handle(e, TRUE, g, FALSE, TRUE)}
        /\ fetch' = [fetch EXCEPT !.todo = Tail(@), !.promoted = @ + 1]
        /\ UNCHANGED <<lent, hotw, landing, pend, pf, disk, landed, sideq, rbytes,
                       gbytes, sbytes, failed>>

\* Claim slot v of layer l for expert e, in place of what R and M have there.
ClaimRam(R, l, v, e, cold) ==
    [R EXCEPT ![l][v] = [expert |-> e, valid |-> FALSE, cold |-> cold, soa |-> FALSE]]
\* Mutant: the evicted expert keeps its map entry.
MutClaimMap(R, l, v, e) == [map EXCEPT ![l][e] = v]

ClaimMap(R, l, v, e) ==
    [map EXCEPT ![l] = [Unmapped(map[l], R[l][v].expert) EXCEPT ![e] = v]]

\* A miss: evict, claim, and read, from the cold file unless the expert must be
\* hot.  The read is submitted when the whole list has been served.
ServeMiss(e, v, cold) ==
    LET l == fetch.layer
    IN  /\ Serving(e) /\ ~InVram(l, e)
        /\ Absent(l, e)
        /\ v \in Evictable(ram, l)
        /\ cold => HasCold /\ <<l, e>> \notin hotw
        /\ hotw' = IF HasCold /\ ~cold THEN hotw \cup {<<l, e>>} ELSE hotw
        /\ HasCold /\ ~cold /\ <<l, e>> \notin hotw => l \notin lent
        /\ ram' = ClaimRam(ram, l, v, e, cold)
        /\ map' = ClaimMap(ram, l, v, e)
        /\ live' = live \cup {v}
        /\ handles' = handles \cup {Handle(e, FALSE, v, cold, FALSE)}
        /\ fetch' = [fetch EXCEPT !.todo = Tail(@), !.claims = @ \cup {<<e, v, cold>>}]
        /\ UNCHANGED <<free, vram, gmap, gused, lent, rel, swaps, landing, ringBusy,
                       pend, pf, device, failed>>

\* A cold block of an expert that would now earn a VRAM slot: read again, hot,
\* into the same slot; a VRAM copy would be stale and is discarded.
ServeUpgrade(e) ==
    LET l == fetch.layer
        s == FindSlot(l, e)
        g == gmap[l][e]
    IN  /\ Serving(e) /\ ~InVram(l, e) /\ s # None
        /\ ram[l][s].cold /\ l \notin lent
        /\ hotw' = hotw \cup {<<l, e>>}
        /\ ram' = [ram EXCEPT ![l][s].valid = FALSE, ![l][s].cold = FALSE]
        /\ vram' = IF g # None THEN [vram EXCEPT ![l][g] = None] ELSE vram
        /\ gmap' = [gmap EXCEPT ![l][e] = None]
        /\ live' = live \cup {s}
        /\ handles' = handles \cup {Handle(e, FALSE, s, FALSE, FALSE)}
        /\ fetch' = [fetch EXCEPT !.todo = Tail(@), !.claims = @ \cup {<<e, s, FALSE>>}]
        /\ UNCHANGED <<map, free, gused, lent, rel, swaps, landing, ringBusy, pend,
                       pf, device, failed>>

\* No slot to evict: fetch_begin() fails.  Slots claimed so far stay claimed,
\* their reads never submitted; promotions stay queued.
ServeFails(e) ==
    LET l == fetch.layer
    IN  /\ Serving(e) /\ ~InVram(l, e)
        /\ Absent(l, e)
        /\ Evictable(ram, l) = {}
        /\ fetch' = NoFetch /\ handles' = {} /\ failed' = failed + 1
        /\ UNCHANGED <<tables, live, rel, swaps, landing, ringBusy, pend, pf, device>>

\* The list is served: the misses' reads are submitted, fetch_begin() returns,
\* and the engine launches the kernels of the experts that are on the device.
FetchSubmit ==
    LET l == fetch.layer
        gpu == {<<h.slot, h.e>> : h \in {x \in handles : x.gpu}}
    IN  /\ fetch.pc = "serve" /\ fetch.todo = <<>>
        /\ Reads({[l |-> l, s |-> c[2], e |-> c[1], cold |-> c[3], spec |-> FALSE] :
                    c \in fetch.claims})
        /\ cq' = IF gpu = {} THEN cq ELSE Append(cq, Use(l, gpu))
        /\ fetch' = [fetch EXCEPT !.pc = "begun",
                        !.need = [hot |-> Cardinality({c \in fetch.claims : ~c[3]}),
                                  cold |-> Cardinality({c \in fetch.claims : c[3]})]]
        /\ UNCHANGED <<tables, live, rel, swaps, landing, ringBusy, handles, pend, pf,
                       landed, sideq, gbytes, sbytes, failed>>

-----------------------------------------------------------------------------
(* Speculative reads.                                                      *)

\* Mutant: an entry whose reads have landed still counts as pending.
MutFlying(p) == p \in pf

Flying(p) == \E d \in disk : d.spec /\ d.l = p[1] /\ d.s = p[3]

\* pf_reap(): every entry whose reads have landed is taken off, and its slot
\* becomes valid if it is still the entry's.
Reaped ==
    [l \in Layer |-> [s \in Slot |->
        IF \E p \in pf : p[1] = l /\ p[3] = s /\ ~Flying(p) /\ ram[l][s].expert = p[2]
        THEN [ram[l][s] EXCEPT !.valid = TRUE] ELSE ram[l][s]]]
StillFlying == {p \in pf : Flying(p)}

\* Prefetches are for the layers after the one being computed.
MayPrefetch(l) ==
    /\ ~fetch.deferred
    /\ fetch.pc = "idle" \/ (fetch.pc \in {"begun", "ended"} /\ l # fetch.layer)

\* prefetch_begin() that claims slot v for e.
PrefetchBegin(l, e, v, cold) ==
    /\ MayPrefetch(l) /\ Cardinality(StillFlying) < MaxSpec
    /\ LandLayer(l)
    /\ gmap[l][e] = None
    /\ Absent(l, e)
    /\ v \in Evictable(Reaped, l)
    /\ cold => HasCold /\ <<l, e>> \notin hotw
    /\ HasCold /\ ~cold /\ <<l, e>> \notin hotw => l \notin lent
    /\ hotw' = IF HasCold /\ ~cold THEN hotw \cup {<<l, e>>} ELSE hotw
    /\ ram' = ClaimRam(Reaped, l, v, e, cold)
    /\ map' = ClaimMap(ram, l, v, e)
    /\ pf' = StillFlying \cup {<<l, e, v>>}
    /\ Reads({[l |-> l, s |-> v, e |-> e, cold |-> cold, spec |-> TRUE]})
    /\ UNCHANGED <<free, vram, gmap, gused, lent, live, rel, swaps, fetch, handles,
                   pend, landed, cq, sideq, gbytes, sbytes, failed>>

\* prefetch_begin() with nothing to claim still drains what has landed.
PrefetchReap ==
    /\ ~fetch.deferred /\ fetch.pc \in {"idle", "begun", "ended"}
    /\ StillFlying # pf
    /\ ram' = Reaped /\ pf' = StillFlying
    /\ UNCHANGED <<map, free, vram, gmap, gused, lent, hotw, live, rel, swaps, landing,
                   ringBusy, fetch, handles, pend, device, failed>>

-----------------------------------------------------------------------------
(* settle_pending() and fetch_end().                                       *)

\* The experts whose handles the caller may use from now on.
ReadyFor(es) == {IF h.e \in es THEN [h EXCEPT !.ready = TRUE] ELSE h : h \in handles}

\* Mutant: a claim nobody reads for is taken as landed.
MutLost(l) == {}

\* The claims with no read behind them.
Lost(l) == {p \in pend : ~Reaped[l][p[2]].valid}

\* Wait for the speculative reads of the experts this fetch took over.  A claim
\* that is lost is read now.
SettlePending ==
    LET l == fetch.layer
        lost == Lost(l)
    IN  /\ fetch.pc = "begun" /\ pend # {}
        /\ \A p \in pend : ~Flying(<<l, p[1], p[2]>>)
        /\ ram' = Reaped /\ pf' = StillFlying
        /\ pend' = {}
        /\ handles' = IF SkipMiss THEN ReadyFor({p[1] : p \in pend \ lost}) ELSE handles
        /\ fetch' = IF lost = {} THEN fetch ELSE [fetch EXCEPT !.pc = "reread", !.lost = lost]
        /\ UNCHANGED <<map, free, vram, gmap, gused, lent, hotw, live, rel, swaps, landing,
                       ringBusy, device, failed>>

\* read_block_now(): the block is read from the hot file.
Reread(p) ==
    /\ fetch.pc = "reread" /\ fetch.reading = None /\ p \in fetch.lost
    /\ Reads({[l |-> fetch.layer, s |-> p[2], e |-> p[1], cold |-> FALSE, spec |-> FALSE]})
    /\ fetch' = [fetch EXCEPT !.reading = p]
    /\ UNCHANGED <<tables, live, rel, swaps, landing, ringBusy, handles, pend, pf, landed,
                   cq, sideq, gbytes, sbytes, failed>>

\* It returns when as many completions as the block has reads were reaped from
\* the engine, whichever reads they belong to, and takes the block for read.
RereadReturns ==
    LET l == fetch.layer
        p == fetch.reading
        left == fetch.lost \ {p}
    IN  /\ fetch.pc = "reread" /\ p # None
        /\ landed.hot >= 1
        /\ landed' = [landed EXCEPT !.hot = 0]
        /\ ram' = [ram EXCEPT ![l][p[2]].valid = TRUE, ![l][p[2]].cold = FALSE]
        /\ handles' = IF SkipMiss THEN ReadyFor({p[1]}) ELSE handles
        /\ fetch' = [fetch EXCEPT !.lost = left, !.reading = None,
                        !.pc = IF left = {} THEN "begun" ELSE @]
        /\ UNCHANGED <<map, free, vram, gmap, gused, lent, hotw, live, rel, swaps, landing,
                       ringBusy, pend, pf, disk, cq, sideq, rbytes, gbytes, sbytes, failed>>

\* Where the host is when it calls fetch_end().
Ending == IF fetch.deferred THEN "idle" ELSE "begun"

\* fetch_end(): as many completions as the fetch has reads, on each engine; then
\* its claims are valid.  With the misses skipped it runs before the next fetch.
FetchEnd ==
    LET l == fetch.layer
    IN  /\ fetch.pc = Ending
        /\ pend = {}
        /\ landed.hot >= fetch.need.hot /\ landed.cold >= fetch.need.cold
        /\ landed' = [hot |-> IF fetch.need.hot > 0 THEN 0 ELSE landed.hot,
                      cold |-> IF fetch.need.cold > 0 THEN 0 ELSE landed.cold]
        /\ ram' = [ram EXCEPT ![l] = [s \in Slot |->
                     IF \E c \in fetch.claims : c[2] = s /\ ram[l][s].expert = c[1]
                     THEN [ram[l][s] EXCEPT !.valid = TRUE] ELSE ram[l][s]]]
        /\ handles' = ReadyFor({h.e : h \in handles})
        /\ fetch' = IF fetch.deferred THEN NoFetch
                    ELSE [fetch EXCEPT !.pc = "ended", !.claims = {}, !.need = NoFetch.need]
        /\ UNCHANGED <<map, free, vram, gmap, gused, lent, hotw, live, rel, swaps, landing,
                       ringBusy, pend, pf, disk, cq, sideq, rbytes, gbytes, sbytes, failed>>

\* The engine has nothing more in flight and the count is not reached: the fetch
\* fails and the evaluation is given up.
HotShort == landed.hot < fetch.need.hot /\ ~\E d \in disk : ~d.spec /\ ~d.cold
ColdShort == landed.cold < fetch.need.cold /\ ~\E d \in disk : ~d.spec /\ d.cold
FetchShort ==
    /\ fetch.pc = Ending
    /\ pend = {}
    /\ TRUE \in {HotShort, landed.hot >= fetch.need.hot /\ ColdShort}
    /\ landed' = IF HotShort THEN [landed EXCEPT !.hot = 0]
                 ELSE [hot |-> IF fetch.need.hot > 0 THEN 0 ELSE landed.hot, cold |-> 0]
    /\ fetch' = NoFetch /\ handles' = {} /\ failed' = failed + 1
    /\ UNCHANGED <<tables, live, rel, swaps, landing, ringBusy, pend, pf, disk, cq,
                   sideq, rbytes, gbytes, sbytes>>

-----------------------------------------------------------------------------
(* settle_promotions_layer(), settle_promotions(), and the loan of a tier. *)

Rings(sws) == {sws[i].ring : i \in 1..Len(sws)} \ {None}

\* Mutant: the staging entries of landed read-backs are not freed.
MutSettleLayer ==
    /\ fetch.pc = "ended"
    /\ cq = <<>>
    /\ rel' = {} /\ handles' = {}
    /\ Ring # {} /\ landing # <<>> => sideq = <<>>
    /\ landing' = IF Ring # {} THEN <<>> ELSE landing
    /\ fetch' = [NoFetch EXCEPT !.pc = "settle"]
    /\ UNCHANGED <<tables, live, swaps, ringBusy, pend, pf, device, failed>>

\* The device has caught up.  The promoted slots may be evicted again, and the
\* read-backs queued by the previous settle are landed.
SettleLayer ==
    /\ \/ fetch.pc = "ended"
       \/ fetch.pc = "begun" /\ SkipMiss /\ pend = {} /\ fetch.claims # {}
    /\ cq = <<>>
    /\ rel' = {} /\ handles' = {}
    /\ IF Ring # {} /\ landing # <<>>
       THEN sideq = <<>> /\ ringBusy' = ringBusy \ Rings(landing) /\ landing' = <<>>
       ELSE UNCHANGED <<ringBusy, landing>>
    /\ fetch' = IF fetch.pc = "ended" THEN [NoFetch EXCEPT !.pc = "settle"]
                ELSE [fetch EXCEPT !.pc = "settle", !.deferred = TRUE]
    /\ UNCHANGED <<tables, live, swaps, pend, pf, device, failed>>

\* release_slot()
ReleasedRam(R, l, s) == [R EXCEPT ![l][s] = [Empty EXCEPT !.cold = R[l][s].cold]]
\* Mutant: the released slot's expert stays mapped.
MutReleasedMap(M, R, l, s) == M

ReleasedMap(M, R, l, s) ==
    LET e == R[l][s].expert
    IN  IF e # None /\ M[l][e] = s THEN [M EXCEPT ![l][e] = None] ELSE M
ReleasedFree(F, l, s) ==
    IF Len(F[l]) < Cardinality(Slot) THEN [F EXCEPT ![l] = Append(@, s)] ELSE F

\* finish_swap(): the promoted expert's RAM slot is freed if VRAM still has the
\* expert; the victim's slot is mapped, unless the victim is resident again,
\* and a staged victim's read-back goes to the side queue.
FinishSwap ==
    LET sw == Head(swaps)
        l == sw.layer
        away == ram[l][sw.from].expert = sw.promoted /\ map[l][sw.promoted] = sw.from
                /\ InVram(l, sw.promoted)
        R == IF away THEN ReleasedRam(ram, l, sw.from) ELSE ram
        M == IF away THEN ReleasedMap(map, ram, l, sw.from) ELSE map
        F == IF away THEN ReleasedFree(free, l, sw.from) ELSE free
        held == sw.to # None /\ R[l][sw.to].expert = sw.victim /\ ~R[l][sw.to].valid
        wanted == M[l][sw.victim] = None /\ ~InVram(l, sw.victim)
        lands == held /\ wanted
        back == lands /\ sw.ring # None
    IN  /\ fetch.pc = "settle" /\ swaps # <<>>
        /\ swaps' = Tail(swaps)
        /\ ram' = IF lands
                  THEN [R EXCEPT ![l][sw.to] = [expert |-> sw.victim, valid |-> TRUE,
                                                cold |-> FALSE, soa |-> TRUE]]
                  ELSE IF held THEN ReleasedRam(R, l, sw.to) ELSE R
        /\ map' = IF lands THEN [M EXCEPT ![l][sw.victim] = sw.to]
                  ELSE IF held THEN ReleasedMap(M, R, l, sw.to) ELSE M
        /\ free' = IF held /\ ~wanted THEN ReleasedFree(F, l, sw.to) ELSE F
        /\ ringBusy' = IF back THEN ringBusy ELSE ringBusy \ {sw.ring}
        /\ landing' = IF back THEN Append(landing, sw) ELSE landing
        /\ sideq' = IF back THEN Append(sideq, [l |-> l, r |-> sw.ring, s |-> sw.to]) ELSE sideq
        /\ UNCHANGED <<vram, gmap, gused, lent, hotw, live, rel, fetch, handles, pend, pf,
                       disk, landed, cq, rbytes, gbytes, sbytes, failed>>

\* The layer's settle is over.
SettleLayerDone ==
    /\ fetch.pc = "settle" /\ ~fetch.full /\ swaps = <<>>
    /\ fetch' = IF fetch.deferred THEN [fetch EXCEPT !.pc = "idle"] ELSE NoFetch
    /\ UNCHANGED <<tables, live, rel, swaps, landing, ringBusy, handles, pend, pf, device, failed>>

\* lend_begin(): a full settle, then the layer's tier is given up.
LendBegin(l) ==
    /\ fetch.pc = "idle" /\ ~fetch.deferred /\ l \in Lendable \ lent
    /\ cq = <<>>
    /\ rel' = {} /\ handles' = {}
    /\ fetch' = [NoFetch EXCEPT !.pc = "settle", !.full = TRUE, !.lend = l]
    /\ UNCHANGED <<tables, live, swaps, landing, ringBusy, pend, pf, device, failed>>

\* The full settle waits for the side queue as well; a lent tier loses its table
\* and its memory.
SettleFullDone ==
    /\ fetch.pc = "settle" /\ fetch.full /\ swaps = <<>> /\ sideq = <<>>
    /\ ringBusy' = ringBusy \ Rings(landing) /\ landing' = <<>>
    /\ IF fetch.lend = None THEN UNCHANGED <<vram, gmap, lent, gbytes>>
       ELSE /\ lent' = lent \cup {fetch.lend}
            /\ vram' = [vram EXCEPT ![fetch.lend] = [g \in GSlot |-> None]]
            /\ gmap' = [gmap EXCEPT ![fetch.lend] = [e \in Expert |-> None]]
            /\ gbytes' = [gbytes EXCEPT ![fetch.lend] = [g \in GSlot |-> Garbage]]
    /\ fetch' = IF fetch.restore THEN [NoFetch EXCEPT !.pc = "restore", !.next = fetch.next]
                ELSE NoFetch
    /\ UNCHANGED <<ram, map, free, gused, hotw, live, rel, swaps, handles, pend, pf,
                   disk, landed, cq, sideq, rbytes, sbytes, failed>>

\* lend_end(): the tier comes back empty and is refilled from the RAM blocks
\* that are resident now, then settled.
LendEnd(l) ==
    /\ fetch.pc = "idle" /\ ~fetch.deferred /\ l \in lent
    /\ lent' = lent \ {l}
    /\ fetch' = [NoFetch EXCEPT !.pc = "refill", !.layer = l,
                    !.cand = {ram[l][s].expert : s \in {x \in Slot :
                                ram[l][x].expert # None /\ ram[l][x].valid /\ ~ram[l][x].cold}}]
    /\ UNCHANGED <<ram, map, free, vram, gmap, gused, hotw, live, rel, swaps, landing,
                   ringBusy, handles, pend, pf, device, failed>>

Refill(e, g, pick, r) ==
    LET l == fetch.layer
        s == FindSlot(l, e)
    IN  /\ fetch.pc \in {"refill", "warm"} /\ e \in fetch.cand /\ s # None
        /\ Promote(l, e, s, g, pick, r)
        /\ rel' = rel \cup {<<l, s>>}
        /\ fetch' = [fetch EXCEPT !.cand = @ \ {e}]
        /\ UNCHANGED <<lent, hotw, live, landing, handles, pend, pf, disk, landed, sideq,
                       rbytes, gbytes, sbytes, failed>>

\* The candidates are used up, or the rest are refused; then the full settle, as
\* after a prompt's sweep (the promotions of warm()) and a prompt's batch.
RefillDone ==
    /\ fetch.pc \in {"refill", "warm", "batched"} /\ cq = <<>>
    /\ rel' = {} /\ handles' = {}
    /\ fetch' = [NoFetch EXCEPT !.pc = "settle", !.full = TRUE,
                    !.restore = fetch.next # None, !.next = fetch.next]
    /\ live' = IF fetch.pc = "warm" THEN {} ELSE live
    /\ UNCHANGED <<tables, swaps, landing, ringBusy, pend, pf, device, failed>>

-----------------------------------------------------------------------------
(* A prompt: warm() after a swept layer, fetch_batch() for a short one.    *)

\* warm(), an expert at a time: unless it is in VRAM or in RAM at full precision it
\* is copied from the prefill's staging into a slot of its own (a cold copy is given
\* up first), and it may be promoted.
Warm(l, e, v) ==
    LET s == FindSlot(l, e)
        R == IF s # None /\ ram[l][s].cold
             THEN [ram EXCEPT ![l][s].expert = None, ![l][s].valid = FALSE] ELSE ram
        has == s # None /\ ~ram[l][s].cold
        full == [expert |-> e, valid |-> TRUE, cold |-> FALSE, soa |-> FALSE]
    IN  /\ "warm" \in Prompting
        /\ fetch.pc \in {"idle", "warm"} /\ ~fetch.deferred
        /\ LandLayer(l)
        /\ gmap[l][e] = None
        /\ v \in IF has THEN {s} ELSE {x \in Slot : ~(R[l][x].expert # None /\ ~R[l][x].valid)
                                                     /\ <<l, x>> \notin rel}
        /\ IF has THEN UNCHANGED <<ram, map, rbytes>>
           ELSE /\ ram' = [R EXCEPT ![l][v] = full]
                /\ map' = ClaimMap(R, l, v, e)
                /\ rbytes' = [rbytes EXCEPT ![l][v] = Bytes(e, FALSE, FALSE)]
        /\ live' = {v}
        /\ fetch' = [NoFetch EXCEPT !.pc = "warm", !.layer = l, !.cand = {e}]
        /\ UNCHANGED <<free, vram, gmap, gused, lent, hotw, rel, swaps, handles, pend, pf,
                       disk, landed, cq, sideq, gbytes, sbytes, failed>>

\* fetch_batch() takes an expert from either tier, never a cold copy.
BatchHit(l, e) ==
    InVram(l, e) \/ (FindSlot(l, e) # None /\ ~ram[l][FindSlot(l, e)].cold)

\* The misses an empty slot is found for; the others go to the bounce buffer.
Adoptions(l, es) ==
    {f \in [es -> {s \in Slot : ram[l][s].expert = None} \cup {None}] :
        \A a, b \in es : f[a] = f[b] /\ f[a] # None => a = b}

\* fetch_batch(), up to its reads.  The adopted slots are valid before those land,
\* also when the expert has a cold or claimed slot already.
FetchBatch(l, es, adopt) ==
    LET into == {e \in DOMAIN adopt : adopt[e] # None}
        hits == {e \in es \ DOMAIN adopt : ~InVram(l, e)}
        of(s) == {e \in into : adopt[e] = s}
        hit(s) == \E e \in hits : map[l][e] = s
    IN  /\ "batch" \in Prompting
        /\ fetch.pc = "idle" /\ ~fetch.deferred
        /\ LandLayer(l)
        /\ ram' = [ram EXCEPT ![l] = [s \in Slot |->
                     IF of(s) # {} THEN [expert |-> CHOOSE e \in of(s) : TRUE, valid |-> TRUE,
                                         cold |-> FALSE, soa |-> FALSE]
                     ELSE IF hit(s) THEN [ram[l][s] EXCEPT !.soa = FALSE] ELSE ram[l][s]]]
        /\ map' = [map EXCEPT ![l] = [e \in Expert |-> IF e \in into THEN adopt[e] ELSE map[l][e]]]
        /\ disk' = disk \cup {[l |-> l, s |-> adopt[e], e |-> e, cold |-> FALSE, spec |-> FALSE] : e \in into}
        /\ rbytes' = [rbytes EXCEPT ![l] = [s \in Slot |->
                        IF of(s) # {} THEN Garbage
                        ELSE IF hit(s) THEN FileLayout(rbytes[l][s], ram[l][s].soa) ELSE rbytes[l][s]]]
        /\ handles' = {Handle(e, TRUE, gmap[l][e], FALSE, TRUE) : e \in (es \ DOMAIN adopt) \ hits}
                      \cup {Handle(e, FALSE, map[l][e], FALSE, TRUE) : e \in hits}
                      \cup {Handle(e, FALSE, adopt[e], FALSE, FALSE) : e \in into}
        /\ fetch' = [NoFetch EXCEPT !.pc = "batch", !.layer = l, !.need.hot = Cardinality(into)]
        /\ UNCHANGED <<free, vram, gmap, gused, lent, hotw, live, rel, swaps, pend, pf, landed,
                       cq, sideq, gbytes, sbytes, failed>>

\* Its reads are reaped, and the batch is computed.  fetch_batch() gives up where a reap()
\* comes back empty with reads outstanding; from the thread pool none does.
BatchDone ==
    LET gpu == {<<h.slot, h.e>> : h \in {x \in handles : x.gpu}}
    IN  /\ fetch.pc = "batch"
        /\ landed.hot >= fetch.need.hot
        /\ landed' = IF fetch.need.hot > 0 THEN [landed EXCEPT !.hot = 0] ELSE landed
        /\ handles' = ReadyFor({h.e : h \in handles})
        /\ cq' = IF gpu = {} THEN cq ELSE Append(cq, Use(fetch.layer, gpu))
        /\ fetch' = [fetch EXCEPT !.pc = "batched", !.need = NoFetch.need]
        /\ UNCHANGED <<tables, live, rel, swaps, landing, ringBusy, pend, pf, disk, sideq,
                       rbytes, gbytes, sbytes, failed>>

-----------------------------------------------------------------------------
(* lend_restore(): before the next decode the lent tiers are filled again  *)
(* with what they held, and warm_start() fills them from an earlier run's  *)
(* counts: read into RAM, promote, settle, a batch of experts at a time,   *)
(* the next layer's reads beside the uploads.  The batch is one expert.    *)

\* It starts with a full settle.
RestoreBegin ==
    /\ fetch.pc = "idle" /\ ~fetch.deferred /\ "restore" \in Prompting /\ lent = {}
    /\ cq = <<>>
    /\ rel' = {} /\ handles' = {}
    /\ fetch' = [NoFetch EXCEPT !.pc = "settle", !.full = TRUE, !.restore = TRUE]
    /\ UNCHANGED <<tables, live, swaps, landing, ringBusy, pend, pf, device, failed>>

\* prefetch_start() for an expert the tier has room for: a slot is claimed and read
\* unless RAM has the expert or no slot can be had.  Beside the uploads only
\* another layer's.  The slot's precision flag is left as it was.
PrefetchStart(l, e, v) ==
    /\ fetch.next = None
    /\ \/ fetch.pc = "restore"
       \/ fetch.pc = "refill" /\ fetch.restore /\ l # fetch.layer
    /\ ~InVram(l, e) /\ \E g \in GSlot : vram[l][g] = None
    /\ LandLayer(l)
    /\ v \in IF FindSlot(l, e) # None \/ Evictable(ram, l) = {} THEN {None} ELSE Evictable(ram, l)
    /\ IF v = None THEN UNCHANGED <<ram, map, disk, rbytes>>
       ELSE /\ ram' = ClaimRam(ram, l, v, e, ram[l][v].cold)
            /\ map' = ClaimMap(ram, l, v, e)
            /\ Reads({[l |-> l, s |-> v, e |-> e, cold |-> FALSE, spec |-> FALSE]})
    /\ fetch' = [fetch EXCEPT !.next = [l |-> l, e |-> e, v |-> v]]
    /\ UNCHANGED <<free, vram, gmap, gused, lent, hotw, live, rel, swaps, handles, pend, pf,
                   landed, cq, sideq, gbytes, sbytes, failed>>

\* prefetch_finish(): the read is reaped and its slot valid; then the promotion.
PrefetchFinish ==
    LET b == fetch.next
    IN  /\ fetch.pc = "restore" /\ b # None
        /\ IF b.v = None THEN UNCHANGED <<ram, landed>>
           ELSE /\ landed.hot >= 1 /\ landed' = [landed EXCEPT !.hot = 0]
                /\ ram' = [ram EXCEPT ![b.l][b.v].valid = TRUE]
        /\ fetch' = [NoFetch EXCEPT !.pc = "refill", !.layer = b.l, !.cand = {b.e}, !.restore = TRUE]
        /\ UNCHANGED <<map, free, vram, gmap, gused, lent, hotw, live, rel, swaps, landing,
                       ringBusy, handles, pend, pf, disk, cq, sideq, rbytes, gbytes, sbytes, failed>>

\* Nothing is left to restore, or the time is up.
RestoreEnds ==
    /\ fetch.pc = "restore" /\ fetch.next = None
    /\ fetch' = NoFetch
    /\ UNCHANGED <<tables, live, rel, swaps, landing, ringBusy, handles, pend, pf, device, failed>>

-----------------------------------------------------------------------------

\* The experts a layer routes to: any list of distinct ones up to MaxFetch.
Lists ==
    UNION {{f \in [1..n -> Expert] : \A i, j \in 1..n : f[i] = f[j] => i = j} : n \in 1..MaxFetch}

FetchStartAny == \E l \in Layer, list \in Lists : FetchStart(l, list)
ServePromoteAny ==
    \E e \in Expert, g \in GSlot, pick \in Slot \cup {None}, r \in Ring \cup {None} :
        ServePromote(e, g, pick, r)
ServeMissAny == \E e \in Expert, v \in Slot, cold \in BOOLEAN : ServeMiss(e, v, cold)
ServeAny ==
    \E e \in Expert : \/ ServeVram(e) \/ ServeClaimed(e) \/ ServeRam(e)
                      \/ ServeUpgrade(e) \/ ServeFails(e)
PrefetchAny ==
    \E l \in Layer, e \in Expert, v \in Slot, cold \in BOOLEAN : PrefetchBegin(l, e, v, cold)
LendAny == \E l \in Layer : LendBegin(l) \/ LendEnd(l)
RereadAny == \E p \in fetch.lost : Reread(p)
RefillAny ==
    \E e \in Expert, g \in GSlot, pick \in Slot \cup {None}, r \in Ring \cup {None} :
        Refill(e, g, pick, r)
WarmAny == \E l \in Layer, e \in Expert, v \in Slot : Warm(l, e, v)
BatchAny ==
    \E l \in Layer, es \in {ToSet(list) : list \in Lists} :
        \E adopt \in Adoptions(l, {e \in es : ~BatchHit(l, e)}) : FetchBatch(l, es, adopt)
RestoreAny == \E l \in Layer, e \in Expert, v \in Slot \cup {None} : PrefetchStart(l, e, v)
DiskAny == \E r \in disk : DiskLand(r)

FetchSteps == \/ ServeAny \/ ServePromoteAny \/ ServeMissAny \/ FetchSubmit
              \/ SettlePending \/ RereadAny \/ RereadReturns \/ FetchEnd \/ FetchShort
              \/ SettleLayer \/ FinishSwap \/ SettleLayerDone \/ SettleFullDone
              \/ BatchDone \/ PrefetchFinish \/ RestoreEnds
Next ==
    \/ FetchStartAny \/ FetchSteps
    \/ PrefetchAny \/ PrefetchReap
    \/ LendAny \/ RefillAny \/ RefillDone
    \/ WarmAny \/ BatchAny \/ RestoreBegin \/ RestoreAny
    \/ ComputeStep \/ SideStep \/ DiskAny

Spec == Init /\ [][Next]_vars

\* Once started, an operation of the host goes on, and the drive and the device
\* work off what they were given.
FairSpec ==
    /\ Spec
    /\ WF_vars(FetchSteps \/ RefillDone)
    /\ WF_vars(ComputeStep) /\ WF_vars(SideStep) /\ WF_vars(DiskAny)

-----------------------------------------------------------------------------
(* Properties.                                                             *)

\* What the queues still have to do with a RAM slot or a VRAM slot.
Queued(l, s) ==
    \/ \E i \in 1..Len(cq) : cq[i].l = l /\ cq[i].s = s
    \/ \E i \in 1..Len(sideq) : sideq[i].l = l /\ sideq[i].s = s
Landing(l, s) == \E i \in 1..Len(landing) : landing[i].layer = l /\ landing[i].to = s

\* Each tier's two tables agree: an expert's map entry names a slot that holds it, so
\* no expert is mapped to a slot whose entry another operation took, and a VRAM slot's
\* expert is mapped to it (expert_slot / slot_expert, g_expert_slot / g_slot_expert,
\* across eviction, swaps, prefetches and loans).
MapsAgree ==
    TypeOK /\ \A l \in Layer, e \in Expert :
        /\ map[l][e] # None => ram[l][map[l][e]].expert = e
        /\ gmap[l][e] # None => vram[l][gmap[l][e]] = e
        /\ \A g \in GSlot : vram[l][g] = e => gmap[l][e] = g

\* A slot marked valid and mapped holds its expert's weights, at the precision
\* and in the layout its flags say, unless its read-back is among those that
\* land_layer() waits for before the layer is used again, or fetch_batch() has not
\* returned.
ResidentBytes ==
    \A l \in Layer, e \in Expert :
        LET s == map[l][e]
        IN  s # None /\ ram[l][s].valid /\ ~Landing(l, s) /\ fetch.pc # "batch" =>
                rbytes[l][s] = Bytes(e, ram[l][s].cold, ram[l][s].soa)

\* When the device runs a layer's experts, each VRAM slot it was given holds
\* the expert it was given for.
UseBytes ==
    cq # <<>> /\ Head(cq).op = "use" =>
        \A u \in Head(cq).uses : gbytes[Head(cq).l][u[1]] = Bytes(u[2], FALSE, TRUE)

\* A RAM handle reported ready names the expert's weights in the file's layout, never at less
\* precision than the handle says, as long as the caller may use it.
ServedExpert ==
    \A h \in handles :
        ~h.gpu /\ h.ready => \E cold \in {FALSE, h.cold} : rbytes[fetch.layer][h.slot] = Bytes(h.e, cold, FALSE)

\* ... and at exactly the precision the handle's types say ("fetch the block now rather than compute
\* on stale bytes"): the caller computes on the bytes as the type in the handle.
ServedBytes ==
    \A h \in handles :
        ~h.gpu /\ h.ready => rbytes[fetch.layer][h.slot] = Bytes(h.e, h.cold, FALSE)

\* No block has two writers: reads in flight have distinct slots, and none goes
\* to a slot that an upload still reads or a read-back still fills ("Handing it
\* out again would point two experts at one block").
NoAliasedRead ==
    \A d \in disk :
        /\ ~Queued(d.l, d.s)
        /\ \A x \in disk : x.l = d.l /\ x.s = d.s => x = d

\* The branch of finish_swap() marked "cannot happen: protected" is not taken:
\* the slot claimed for a victim is the victim's until the settle.
SwapProtected ==
    \A i \in 1..Len(swaps) :
        swaps[i].to # None => Claimed(swaps[i].layer, swaps[i].to)
                              /\ ram[swaps[i].layer][swaps[i].to].expert = swaps[i].victim

\* A staging entry is busy exactly while one swap, pending or landing, owns it.
RingConserved ==
    LET all == swaps \o landing
    IN  /\ ringBusy = Rings(all)
        /\ \A i, j \in 1..Len(all) : all[i].ring = all[j].ring /\ all[i].ring # None => i = j

\* With exclusive tiers, once the swaps are settled no expert holds a slot in
\* both tiers: RAM and VRAM add up.
TiersExclusive ==
    Exclusive /\ swaps = <<>> =>
        \A l \in Layer, e \in Expert : ~(gmap[l][e] # None /\ map[l][e] # None)

\* A fetch that was begun returns, the layer is settled, and the host is ready
\* for the next one.
FetchReturns == fetch.pc = "serve" ~> fetch.pc = "idle"
=============================================================================

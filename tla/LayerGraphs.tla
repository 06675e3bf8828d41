---------------------------- MODULE LayerGraphs ----------------------------
(***************************************************************************)
(* The layer loop of engine::eval_batch() (src/src/qwfn_engine.cpp).       *)
(*                                                                         *)
(* For each layer the device runs one graph: it folds the previous layer's *)
(* experts into the residual, routes, and computes the routed experts that *)
(* sit in the layer's VRAM tier, by a table of the tier's slots kept on    *)
(* the device.  The host then fetches the other experts, computes them on  *)
(* the CPU, and leaves the ones promoted meanwhile to the next graph's     *)
(* "late fold".  In decode the graphs are kept and replayed, one per       *)
(* number of positions, and the uploads that would change nothing skipped. *)
(*                                                                         *)
(* A value is modelled by where it comes from: the sums of experts are     *)
(* sets of terms [l, p, e] (expert e of layer l for position p), the       *)
(* device tensors hold such sets, and a graph is what it was built for.    *)
(* The residency of the tiers is chosen freely where ExpertCache decides   *)
(* it.                                                                     *)
(***************************************************************************)
EXTENDS Integers, FiniteSets, FiniteSetsExt

CONSTANTS
    NLayer,    \* hp.n_layer
    Attn,      \* the attention layers
    MaxT,      \* 1 + MTP_MAX_DRAFTS
    Promote,   \* promote_per_layer
    Budget,    \* QWFN_GRAPH_STASH_MB, in graph_bytes
    Chunk,     \* experts of a cached batch fetched at a time
    Settings,  \* the settings the engine may be started with
    None

Layer == 0..NLayer - 1

\* A setting: the experts and how many a token uses, the VRAM slots of a layer's
\* tier, the block buckets of the decode attention, the layers that may be lent,
\* whether there are short prompts, and the switches.
\* t_gids_ has a row of n_expert_used entries for each position and the late
\* fold reads Promote of them for each position a step may have.  The code does
\* not check that they fit.
ASSUME LayerConstants ==
    /\ NLayer \in Nat \ {0} /\ Attn \subseteq Layer
    /\ MaxT \in Nat \ {0} /\ Promote \in Nat \ {0} /\ Budget \in Nat /\ Chunk \in Nat \ {0}
    /\ \A c \in Settings :
         /\ IsFiniteSet(c.experts) /\ c.used \in 1..Cardinality(c.experts)
         /\ None \notin c.experts \cup c.slots
         /\ \A f \in {c.stash, c.packMulti, c.skip, c.uploadSkip, c.narrow, c.prompts} : f \in BOOLEAN
         /\ c.spec \subseteq Layer /\ c.lendable \subseteq Layer
         /\ MaxT * Promote <= c.used

\* A graph is what it was built for: positions, block bucket, whether it writes its
\* routing to the pack, whether the tier's memory it points into is still there, whether
\* it computes the layer's VRAM experts and folds the late ones of the layer before.
Bucket == {None} \cup UNION {c.buckets : c \in Settings}
Graph == [T : 1..MaxT, bucket : Bucket, pack : BOOLEAN, live : BOOLEAN, moe : BOOLEAN, fold : BOOLEAN]
Parked == [g : Graph, bucket : Bucket, pack : BOOLEAN]

ASSUME NoneIsNoGraph == None \notin Graph /\ None \notin Parked

VARIABLES
    cfg,       \* the setting
    gA,        \* gA_: what the graph kept for a layer was built for
    tag,       \* gA_T_, gA_bucket_, gA_pack_
    stash,     \* gA_stash_, by number of positions and layer
    parked,    \* gA_stash_bytes_
    moved,     \* tier_epoch() # tier_epoch_seen_
    vram,      \* g_slot_expert of the layers' tiers
    lent,      \* layers with g_lent
    client,    \* client_lent_
    prefill,   \* in_prefill_
    vnew,      \* layers with vram_version() # vslot_ver_: the table on the device is not the tier's
    cap,       \* max_promotions_per_layer of the cache
    ev,        \* the evaluation in progress
    pg, pc,    \* terms in t_pg_ and t_pc_
    late,      \* t_gids_, t_gw_: per position, the slots with a weight
    scale,     \* t_rscale_, as the experts whose gates it makes up for
    ran, sum   \* what the last graph was built for, and what it folded

graphs == <<gA, tag, stash, parked>>
tier == <<vram, lent, client, prefill, vnew, cap>>
tensors == <<pg, pc, late, scale>>
vars == <<cfg, graphs, moved, tier, ev, tensors, ran, sum>>

Expert == cfg.experts
GSlot == cfg.slots
Pos == 1..MaxT
NoTag == [T |-> 0, bucket |-> None, pack |-> FALSE]
NoSum == [pg |-> {}, late |-> {}, pc |-> {}, want |-> {}, scale |-> {}, skipped |-> {}]
Idle == [pc |-> "idle", kind |-> None, T |-> 0, bucket |-> None, il |-> 0,
         sel |-> <<>>, got |-> <<>>, promoted |-> {}, cpu |-> {},
         skipped |-> {}, rest |-> {},
         lateZero |-> 0, pcZero |-> 0]  \* late_zero_rows_; pc_zero_rows_, 0 without pc_zero_t_

Term(l, p, e) == [l |-> l, p |-> p, e |-> e]
Routed(l, sel) == UNION {{Term(l, p, e) : e \in sel[p]} : p \in DOMAIN sel}
Union(sel) == UNION {sel[p] : p \in DOMAIN sel}

\* What a row holds that this call has not written: an earlier call's sum, or
\* nothing yet.
Foreign == {Term(NLayer, p, None) : p \in Pos}

Init ==
    /\ cfg \in Settings
    /\ gA = [l \in Layer |-> None] /\ tag = [l \in Layer |-> NoTag]
    /\ stash = [T \in Pos |-> [l \in Layer |-> None]] /\ parked = 0
    /\ moved = FALSE
    /\ vram = [l \in Layer |-> [g \in GSlot |-> None]]
    /\ lent = {} /\ client = FALSE /\ prefill = FALSE
    /\ vnew = Layer
    /\ cap = Promote
    /\ ev = Idle
    /\ pg = Foreign /\ pc = Foreign /\ late = [p \in Pos |-> {None}] /\ scale = {}
    /\ ran = None /\ sum = NoSum

-----------------------------------------------------------------------------
(* The tier between evaluations: loans, the memory taken back, refills.    *)

\* A tier's content: no expert in two slots.
Contents == {f \in [GSlot -> Expert \cup {None}] :
                \A g, h \in GSlot : f[g] = f[h] /\ f[g] # None => g = h}
EmptyTier == [g \in GSlot |-> None]

\* A layer computes its VRAM experts in its graph while its tier is there.
InGraph(l) == l \notin lent

Dead(g) == IF g = None THEN None ELSE [g EXCEPT !.live = FALSE]
DeadStash(s) == IF s = None THEN None ELSE [s EXCEPT !.g = Dead(@)]

\* Graphs that point into a tier which was freed or allocated again.
GraphsDie ==
    /\ gA' = [l \in Layer |-> Dead(gA[l])]
    /\ stash' = [T \in Pos |-> [l \in Layer |-> DeadStash(stash[T][l])]]
    /\ UNCHANGED <<tag, parked>>

\* Mutant: the parked graphs survive a move of the tier.
MutGraphsFreed ==
    /\ gA' = [l \in Layer |-> None]
    /\ tag' = [l \in Layer |-> [tag[l] EXCEPT !.bucket = None]]
    /\ stash' = [T \in Pos |-> [l \in Layer |-> DeadStash(stash[T][l])]]
    /\ UNCHANGED parked

\* sync_tier_epoch(), free_graph_stash()
GraphsFreed ==
    /\ gA' = [l \in Layer |-> None]
    /\ tag' = [l \in Layer |-> [tag[l] EXCEPT !.bucket = None]]
    /\ stash' = [T \in Pos |-> [l \in Layer |-> None]]
    /\ parked' = 0

\* ec_.lend_begin(): nothing when its tiers are lent already.
Lend(ls) ==
    /\ lent' = lent \cup ls
    /\ vram' = [l \in Layer |-> IF l \in ls THEN EmptyTier ELSE vram[l]]
    /\ vnew' = vnew \cup ls

\* vram_lend_begin(): the server stages the vision projector in the tier.
ClientLend(ls) ==
    /\ ev.pc = "idle" /\ ~prefill
    /\ ls # {} /\ ls \subseteq cfg.lendable \ lent
    /\ Lend(ls) /\ GraphsDie
    /\ client' = TRUE /\ moved' = TRUE
    /\ UNCHANGED <<cfg, prefill, cap, ev, tensors, ran, sum>>

\* prefill_enter()
PrefillEnter(ls) ==
    /\ ev.pc = "idle" /\ ~prefill
    /\ ls \subseteq cfg.lendable \ lent
    /\ Lend(ls)
    /\ IF ls = {} THEN UNCHANGED <<graphs, moved>> ELSE GraphsDie /\ moved' = TRUE
    /\ prefill' = TRUE
    /\ UNCHANGED <<cfg, client, cap, ev, tensors, ran, sum>>

\* ec_.lend_end(): the layers whose memory could be had again come back, filled
\* from RAM and, before the next decode, with what they held (lend_restore).
TakeBack(back, fill) ==
    /\ back \subseteq lent
    /\ lent' = lent \ back
    /\ vram' = [l \in Layer |-> IF l \in back THEN fill ELSE vram[l]]
    /\ vnew' = vnew \cup back

\* The work set could not be allocated: the tier was lent and is given back as
\* far as its memory can be had, and no graph is freed.
PrefillRefused(ls, back, fill) ==
    /\ ev.pc = "idle" /\ ~prefill
    /\ ls \subseteq cfg.lendable \ lent /\ back \subseteq lent \cup ls /\ ls \cup back # {}
    /\ lent' = (lent \cup ls) \ back
    /\ vram' = [l \in Layer |-> IF l \in back THEN fill ELSE IF l \in ls THEN EmptyTier ELSE vram[l]]
    /\ vnew' = vnew \cup ls \cup back
    /\ GraphsDie /\ moved' = TRUE
    /\ UNCHANGED <<cfg, client, prefill, cap, ev, tensors, ran, sum>>

\* warm(): the prompt's experts are promoted in a layer that was not lent.
PrefillWarm(l, g, e) ==
    /\ ev.pc = "idle" /\ prefill /\ l \notin lent
    /\ \A h \in GSlot : vram[l][h] # e
    /\ vram' = [vram EXCEPT ![l][g] = e]
    /\ vnew' = vnew \cup {l}
    /\ UNCHANGED <<cfg, graphs, moved, lent, client, prefill, cap, ev, tensors, ran, sum>>

\* prefill_leave()
PrefillLeave(back, fill) ==
    /\ ev.pc = "idle" /\ prefill
    /\ TakeBack(back, fill)
    /\ prefill' = FALSE /\ client' = FALSE
    /\ IF moved \/ back # {} THEN GraphsFreed ELSE UNCHANGED graphs
    /\ moved' = FALSE
    /\ UNCHANGED <<cfg, cap, ev, tensors, ran, sum>>

-----------------------------------------------------------------------------
(* The start of an evaluation.                                             *)

\* upload_vtable(l): the layer's residency goes to the device if it changed;
\* N: the layers whose table is not the tier's, L: the layers lent.
Uploaded(N, L, l) == IF l \in L THEN N ELSE N \ {l}

\* eval_batch() is entered: the zero rows an earlier call knew of are forgotten.
Start(kind, T, bucket) == [Idle EXCEPT !.pc = "graph", !.kind = kind, !.T = T, !.bucket = bucket]

\* eval_decode(), and eval() for one token: the client's loan ends, the graphs
\* are freed if the tier moved, and layer 0's table is brought up to date.
DecodeBegin(T, bucket, verify, back, fill) ==
    /\ ev.pc = "idle" /\ ~prefill
    /\ verify \/ T = 1
    /\ cfg.skip => T = 1
    /\ IF client THEN back \subseteq lent ELSE back = {}
    /\ lent' = lent \ back
    /\ vram' = [l \in Layer |-> IF l \in back THEN fill ELSE vram[l]]
    /\ vnew' = Uploaded(vnew \cup back, lent', 0)
    /\ client' = FALSE
    /\ IF moved \/ back # {} THEN GraphsFreed ELSE UNCHANGED graphs
    /\ moved' = FALSE
    /\ cap' = IF verify THEN Promote * T ELSE cap
    /\ ev' = Start("decode", T, bucket)
    /\ UNCHANGED <<cfg, prefill, tensors, ran, sum>>

\* eval() for a short prompt, evaluated as one batch through the cache.
CbatchBegin(T, back, fill) ==
    /\ ev.pc = "idle" /\ ~prefill /\ T > 1 /\ cfg.prompts
    /\ IF client THEN back \subseteq lent ELSE back = {}
    /\ TakeBack(back, fill)
    /\ client' = FALSE
    /\ IF moved \/ back # {} THEN GraphsFreed ELSE UNCHANGED graphs
    /\ moved' = FALSE
    /\ ev' = Start("cbatch", T, None)
    /\ UNCHANGED <<cfg, prefill, cap, tensors, ran, sum>>

\* A batch of a prompt swept layer by layer (QWFN_LEGACY_PREFILL).
StreamBegin(T) ==
    /\ ev.pc = "idle" /\ prefill
    /\ ev' = Start("stream", T, None)
    /\ UNCHANGED <<cfg, graphs, moved, tier, tensors, ran, sum>>

-----------------------------------------------------------------------------
(* The graph of a layer.                                                   *)

GraphBytes(g) == g.T
ParkedBytes(s) == IF s = None THEN 0 ELSE GraphBytes(s.g)

\* The graph is shaped by the attention's bucket, its own or the speculated one.
Shaped(l) == l \in Attn \/ (l + 1 \in Attn /\ l + 1 \in cfg.spec)
PackOk(l, T) == InGraph(l) /\ (T = 1 \/ cfg.packMulti)

\* Mutant: a parked graph that is replaced stays in the count.
MutSwitched(l, T) ==
    LET old == tag[l].T
        keep == gA[l] # None /\ old \in Pos
        fits == keep /\ parked + GraphBytes(gA[l]) <= Budget
        s1 == IF ~keep THEN stash
              ELSE [stash EXCEPT ![old][l] = IF fits THEN [g |-> gA[l], bucket |-> tag[l].bucket,
                                                           pack |-> tag[l].pack] ELSE None]
        p1 == parked + (IF fits THEN GraphBytes(gA[l]) ELSE 0)
        back == s1[T][l]
    IN  IF ~cfg.stash \/ old = T THEN [g |-> gA[l], tag |-> tag[l], stash |-> stash, parked |-> parked]
        ELSE IF back = None
        THEN [g |-> IF fits THEN None ELSE gA[l], tag |-> tag[l], stash |-> s1, parked |-> p1]
        ELSE [g |-> back.g, tag |-> [T |-> T, bucket |-> back.bucket, pack |-> back.pack],
              stash |-> [s1 EXCEPT ![T][l] = None], parked |-> p1 - ParkedBytes(back)]

\* The graph kept for another number of positions is parked under that number,
\* if the budget has room, and this number's is taken back, if one is parked.
Switched(l, T) ==
    LET old == tag[l].T
        keep == gA[l] # None /\ old \in Pos
        p0 == parked - (IF keep THEN ParkedBytes(stash[old][l]) ELSE 0)
        fits == keep /\ p0 + GraphBytes(gA[l]) <= Budget
        s1 == IF ~keep THEN stash
              ELSE [stash EXCEPT ![old][l] = IF fits THEN [g |-> gA[l], bucket |-> tag[l].bucket,
                                                           pack |-> tag[l].pack] ELSE None]
        p1 == p0 + (IF fits THEN GraphBytes(gA[l]) ELSE 0)
        back == s1[T][l]
    IN  IF ~cfg.stash \/ old = T THEN [g |-> gA[l], tag |-> tag[l], stash |-> stash, parked |-> parked]
        ELSE IF back = None
        THEN [g |-> IF fits THEN None ELSE gA[l], tag |-> tag[l], stash |-> s1, parked |-> p1]
        ELSE [g |-> back.g, tag |-> [T |-> T, bucket |-> back.bucket, pack |-> back.pack],
              stash |-> [s1 EXCEPT ![T][l] = None], parked |-> p1 - ParkedBytes(back)]

\* The kept graph is replayed unless it was built for another shape.
Replays(k, l, T) == k.g # None /\ k.tag.T = T /\ (Shaped(l) => k.tag.bucket = ev.bucket)

Built(l) == [T |-> ev.T, bucket |-> ev.bucket, pack |-> ev.kind = "decode" /\ PackOk(l, ev.T),
             live |-> TRUE, moe |-> ev.kind = "decode" /\ InGraph(l),
             fold |-> ev.kind = "decode" /\ l > 0 /\ InGraph(l - 1)]

Upto(ts, T) == {t \in ts : t.p <= T}

\* late_fold(): the experts that the layer before promoted while it ran.
LateTerms(fold, l) ==
    IF ~fold THEN {} ELSE UNION {{Term(l, p, IF g = None THEN None ELSE vram[l][g]) : g \in late[p]} : p \in 1..ev.T}

\* The previous layer's routed sum as a graph reads it from the tensors.
Folds(fold, l) ==
    [pg |-> Upto(pg, ev.T), late |-> LateTerms(fold, l), pc |-> Upto(pc, ev.T),
     want |-> {t \in Routed(l, ev.sel) : t.e \notin ev.skipped},
     scale |-> scale, skipped |-> ev.skipped]

\* The routed experts with a slot in the device's table, computed from what the
\* slot holds.  With a table that is not the tier's, or in a graph built against
\* memory the tier has left, anything may be added.
InGraphTerms(g, l, sel) ==
    IF l \in vnew \/ ~g.live THEN {Term(l, p, None) : p \in 1..g.T}
    ELSE {t \in Routed(l, sel) : t.p <= g.T /\ \E s \in GSlot : vram[l][s] = t.e}

\* Graph g runs for layer l and routes to sel.  The host reads the routing back
\* from the pack or from t_sel_ (packed: ran_packed); what the graph did not write
\* there is an earlier layer's.
Run(g, l, sel, packed) ==
    /\ ran' = g
    /\ sum' = IF l = 0 THEN NoSum ELSE Folds(g.fold, l - 1)
    /\ pg' = IF g.moe THEN {t \in pg : t.p > g.T} \cup InGraphTerms(g, l, sel) ELSE pg
    /\ ev' = [ev EXCEPT !.pc = "fetch", !.sel = sel, !.skipped = {},
                        !.got = IF packed = g.pack THEN sel ELSE <<>>]
    /\ UNCHANGED <<pc, late, scale>>

\* The call is over: what it left in the sums is an earlier call's from now on.
\* eval_decode() puts the budget of promotions back.
Ended == /\ ev' = Idle /\ cap' = Promote /\ ran' = None /\ sum' = NoSum
         /\ pg' = Foreign /\ pc' = Foreign /\ late' = [p \in Pos |-> {None}]

\* ran_packed: a kept graph's own mark when it is replayed, this build's otherwise.
ReadsPack(k, g, l) == IF Replays(k, l, ev.T) THEN k.tag.pack ELSE g.pack

\* Decode: the kept graph, or a new one that is kept if its memory can be had.
\* When the graph cannot be run the call fails, with the graphs as they are now.
DecodeGraph(sel, kept, ok) ==
    LET l == ev.il
        k == Switched(l, ev.T)
        replay == Replays(k, l, ev.T)
        g == IF replay THEN k.g ELSE Built(l)
    IN  /\ ev.pc = "graph" /\ ev.kind = "decode"
        /\ replay => kept
        /\ gA' = [gA EXCEPT ![l] = IF kept THEN g ELSE None]
        /\ tag' = [tag EXCEPT ![l] = IF replay \/ ~kept THEN k.tag
                                     ELSE [T |-> g.T, bucket |-> g.bucket, pack |-> g.pack]]
        /\ stash' = k.stash /\ parked' = k.parked
        /\ IF ok THEN Run(g, l, sel, ReadsPack(k, g, l)) /\ UNCHANGED cap
           ELSE Ended /\ UNCHANGED scale
        /\ UNCHANGED <<cfg, moved, vram, lent, client, prefill, vnew>>

\* Mutant: a prompt's build marks the kept graph as one that does not pack.
MutBatchGraph(sel) ==
    /\ ev.pc = "graph" /\ ev.kind # "decode"
    /\ Run(Built(ev.il), ev.il, sel, FALSE)
    /\ tag' = [tag EXCEPT ![ev.il].pack = FALSE]
    /\ UNCHANGED <<cfg, gA, stash, parked, moved, tier>>

\* A prompt's graph is built for the call and dropped.
BatchGraph(sel) ==
    /\ ev.pc = "graph" /\ ev.kind # "decode"
    /\ Run(Built(ev.il), ev.il, sel, FALSE)
    /\ UNCHANGED <<cfg, graphs, moved, tier>>

-----------------------------------------------------------------------------
(* The experts of a layer in decode.                                       *)

\* Experts of want that are not in layer l's tier are uploaded in place of ones it
\* holds and want does not name.
Held(l, want) == {e \in want : \E g \in GSlot : vram[l][g] = e}
New(put) == {put[g] : g \in GSlot} \ {None}
Promotes(l, want, put) ==
    /\ New(put) \subseteq want \ Held(l, want) /\ Cardinality(New(put)) <= cap
    /\ l \in lent => New(put) = {}
    /\ \A g, h \in GSlot : put[g] = put[h] /\ put[g] # None => g = h
    /\ \A g \in GSlot : put[g] # None => vram[l][g] \notin want
    /\ vram' = [vram EXCEPT ![l] = [g \in GSlot |-> IF put[g] # None THEN put[g] ELSE @[g]]]
    /\ vnew' = IF New(put) = {} THEN vnew ELSE vnew \cup {l}

\* fetch_begin(): the experts already in VRAM, those promoted now, in place of
\* ones the step does not use, and the rest for the CPU, of which some have not
\* arrived (miss).
Fetch(put, miss) ==
    LET want == Union(ev.got)
        cpu == (want \ Held(ev.il, want)) \ New(put)
    IN  /\ ev.pc = "fetch" /\ ev.kind = "decode"
        /\ Promotes(ev.il, want, put)
        /\ miss \subseteq cpu /\ (~cfg.skip => miss = {})
        /\ ev' = [ev EXCEPT !.pc = "moe", !.promoted = New(put), !.cpu = cpu, !.skipped = miss]
        /\ ran' = None /\ sum' = NoSum
        /\ UNCHANGED <<cfg, graphs, moved, lent, client, prefill, cap, tensors>>

\* The rows of a step's fold that its graphs read.
LateRows(T) == IF cfg.narrow THEN Promote * T ELSE MaxT * Promote

SlotOf(l, e) == CHOOSE g \in GSlot : vram[l][g] = e

\* Mutant: nothing late is taken for nothing to upload.
MutLateKnown == ev.promoted = {} /\ cfg.uploadSkip

\* Nothing late, and the rows are known to be zero.
LateKnown == ev.promoted = {} /\ cfg.uploadSkip /\ ev.lateZero >= ev.T

\* moe_gpu_launch(): the promoted experts' slots go up for the next graph; a
\* layer without a tier has nothing on the device.
Launch ==
    LET l == ev.il
        row(p) == {SlotOf(l, e) : e \in ev.promoted \cap ev.got[p]}
    IN  IF ~InGraph(l) \/ LateKnown THEN late
        ELSE [p \in Pos |-> IF p <= ev.T THEN row(p) ELSE late[p]]
LateZero == IF ~InGraph(ev.il) \/ LateKnown THEN ev.lateZero
            ELSE IF ev.promoted = {} THEN Max({ev.lateZero, ev.T}) ELSE 0
OnDevice == IF InGraph(ev.il) THEN pg ELSE {t \in pg : t.p > ev.T}

\* No CPU expert, and the partial on the device is known to be zero.
PcKnown(cpu) == cpu = {} /\ cfg.uploadSkip /\ ev.pcZero >= ev.T

\* The CPU's experts, summed and uploaded.
CpuPart(cpu) ==
    LET terms == {t \in Routed(ev.il, ev.got) : t.e \in cpu}
    IN  IF PcKnown(cpu) THEN pc ELSE {t \in pc : t.p > ev.T} \cup terms
PcZero(cpu) == IF cpu = {} THEN Max({ev.pcZero, ev.T}) ELSE 0

\* t_rscale_: the gates of the experts that took part, or one.
Rescaled == IF ev.skipped # {} THEN ev.skipped ELSE {}

\* After the layer: its table for the next step's use waits for that step; the
\* next layer's goes up now.
LayerMoe ==
    /\ ev.pc = "moe"
    /\ late' = Launch /\ pg' = OnDevice
    /\ pc' = CpuPart(ev.cpu \ ev.skipped)
    /\ scale' = IF cfg.skip THEN Rescaled ELSE scale
    /\ vnew' = Uploaded(vnew, lent, ev.il + 1)
    /\ ev' = [ev EXCEPT !.pc = IF ev.il + 1 = NLayer THEN "head" ELSE "graph", !.il = @ + 1,
                        !.promoted = {}, !.cpu = {}, !.lateZero = LateZero,
                        !.pcZero = PcZero(ev.cpu \ ev.skipped)]
    /\ UNCHANGED <<cfg, graphs, moved, vram, lent, client, prefill, cap, ran, sum>>

\* fetch_begin() fails, before its promotions or after them, fetch_end() does, a
\* chunk cannot be fetched, a prompt's graph or the head not be run: the call fails.
EvalFails ==
    /\ \/ ev.pc \in {"fetch", "moe", "chunk", "head"}
       \/ ev.pc = "graph" /\ ev.kind # "decode"
    /\ Ended
    /\ UNCHANGED <<cfg, graphs, moved, vram, lent, client, prefill, vnew, scale>>

-----------------------------------------------------------------------------
(* The experts of a layer in a prompt's batch.                             *)

\* The batch's distinct experts are fetched a chunk at a time.
CbatchSplit ==
    /\ ev.pc = "fetch" /\ ev.kind = "cbatch"
    /\ ev' = [ev EXCEPT !.pc = "chunk", !.rest = Union(ev.got)]
    /\ pg' = {t \in pg : t.p > ev.T}
    /\ ran' = None /\ sum' = NoSum
    /\ UNCHANGED <<cfg, graphs, moved, tier, pc, late, scale>>

\* One chunk: the experts in VRAM are computed from the tier, the others from the
\* scratch they are uploaded to, each as one term that lists per token the
\* experts it routes to.  fetch() may promote some; fetch_batch() promotes none.
CbatchChunk(chunk, put) ==
    /\ ev.pc = "chunk" /\ ev.rest # {}
    /\ chunk \subseteq ev.rest
    /\ Cardinality(chunk) = Min({Chunk, Cardinality(ev.rest)})
    /\ Promotes(ev.il, chunk, put)
    /\ pg' = pg \cup {t \in Routed(ev.il, ev.got) : t.e \in chunk}
    /\ ev' = [ev EXCEPT !.rest = @ \ chunk]
    /\ UNCHANGED <<cfg, graphs, moved, lent, client, prefill, cap, pc, late, scale, ran, sum>>

\* ... and the CPU's partial is zero.
CbatchDone ==
    /\ ev.pc = "chunk" /\ ev.rest = {}
    /\ pc' = {t \in pc : t.p > ev.T}
    /\ ev' = [ev EXCEPT !.pc = IF ev.il + 1 = NLayer THEN "head" ELSE "graph", !.il = @ + 1]
    /\ UNCHANGED <<cfg, graphs, moved, tier, pg, late, scale, ran, sum>>

\* The streamed layer: every routed expert from the staging, in t_pc_.
StreamMoe ==
    /\ ev.pc = "fetch" /\ ev.kind = "stream"
    /\ pc' = {t \in pc : t.p > ev.T} \cup Routed(ev.il, ev.got)
    /\ pg' = {t \in pg : t.p > ev.T}
    /\ ev' = [ev EXCEPT !.pc = IF ev.il + 1 = NLayer THEN "head" ELSE "graph", !.il = @ + 1]
    /\ ran' = None /\ sum' = NoSum
    /\ UNCHANGED <<cfg, graphs, moved, tier, late, scale>>

-----------------------------------------------------------------------------

\* The head folds the last layer.
HeadGraph ==
    /\ ev.pc = "head"
    /\ sum' = Folds(ev.kind = "decode" /\ InGraph(NLayer - 1), NLayer - 1)
    /\ ev' = [ev EXCEPT !.pc = "done"]
    /\ UNCHANGED <<cfg, graphs, moved, tier, tensors, ran>>

\* The evaluation returns; eval_decode() puts the budget back.
EvalReturns ==
    /\ ev.pc = "done"
    /\ Ended
    /\ UNCHANGED <<cfg, graphs, moved, vram, lent, client, prefill, vnew, scale>>

-----------------------------------------------------------------------------

Routes(T) == [1..T -> kSubset(cfg.used, Expert)]

LoanAny == \E ls \in SUBSET Layer : ClientLend(ls) \/ PrefillEnter(ls)
ReturnAny ==
    \E back \in SUBSET Layer, fill \in Contents :
        PrefillLeave(back, fill) \/ \E ls \in SUBSET Layer : PrefillRefused(ls, back, fill)
WarmAny == \E l \in Layer, g \in GSlot, e \in Expert : PrefillWarm(l, g, e)
BeginAny ==
    \E T \in Pos :
        \/ \E back \in SUBSET lent, fill \in Contents :
              \/ \E b \in cfg.buckets, verify \in BOOLEAN : DecodeBegin(T, b, verify, back, fill)
              \/ CbatchBegin(T, back, fill)
        \/ StreamBegin(T)
GraphAny ==
    \E sel \in Routes(ev.T) : BatchGraph(sel) \/ \E kept, ok \in BOOLEAN : DecodeGraph(sel, kept, ok)
FetchAny ==
    \E put \in [GSlot -> Expert \cup {None}] :
        \/ \E miss \in SUBSET Expert : Fetch(put, miss)
        \/ \E chunk \in SUBSET ev.rest : CbatchChunk(chunk, put)

Next ==
    \/ LoanAny \/ ReturnAny \/ WarmAny \/ BeginAny
    \/ GraphAny \/ FetchAny \/ LayerMoe \/ EvalFails
    \/ CbatchSplit \/ CbatchDone \/ StreamMoe
    \/ HeadGraph \/ EvalReturns

Spec == Init /\ [][Next]_vars

-----------------------------------------------------------------------------
(* Properties.                                                             *)

\* Each routed expert is in the residual once: computed in the layer's graph
\* from the table, or promoted meanwhile and folded late, or on the CPU (or, in
\* a prompt, in the batch), never by two of them, by none, or from an earlier
\* layer's or call's sums (eval_batch(): t_pg_, t_gids_/t_gw_, t_pc_), and in
\* decode scaled for the experts that layer skipped and no other (t_rscale_).
\* The experts folded late fit the fold's rows (the abort() in moe_gpu_launch()).
ContributesOnce ==
    /\ ev.pc = "moe" => Cardinality(ev.promoted) <= LateRows(ev.T)
    /\ ev.kind = "decode" => sum.scale = sum.skipped
    /\ sum.pg \cup sum.late \cup sum.pc = sum.want
    /\ \A S \in {sum.pg \cap sum.late, sum.pg \cap sum.pc, sum.late \cap sum.pc} : S = {}

\* A graph that runs was built for this step's positions and bucket and for the
\* tier's present memory (gA_, gA_stash_, sync_tier_epoch()).
GraphFits ==
    ran # None => ran.T = ev.T /\ ran.live /\ (ev.kind = "decode" /\ Shaped(ev.il) => ran.bucket = ev.bucket)

\* The host computes with the routing the layer just chose, wherever the graph
\* that ran wrote it (t_pack_ or t_sel_: "the next decode then replayed turn 1's
\* packing graphs and read the routing from tensors they never write").
RoutingRead == ev.pc \in {"fetch", "moe", "chunk"} => ev.got = ev.sel

\* The parked graphs' memory is counted exactly and stays within the budget
\* (gA_stash_bytes_): a unit of it is a parked graph and one of its graph_bytes.
ParkedUnits == {u \in Pos \X Layer \X Pos :
                   LET s == stash[u[1]][u[2]] IN s # None /\ u[3] <= GraphBytes(s.g)}
StashExact == parked = Cardinality(ParkedUnits) /\ parked <= Budget
=============================================================================

------------------------- MODULE LayerGraphsProofs -------------------------
(***************************************************************************)
(* Proofs about the layer loop for any number of layers, positions and     *)
(* experts, and whatever residency the tiers have.  The invariants say     *)
(* what a kept graph still is (Kept), what the parked graphs take          *)
(* (StashExact), and, at each stage of a layer, which of its experts the   *)
(* device tensors hold and which are still to come (Stages).               *)
(***************************************************************************)
EXTENDS LayerGraphs, FiniteSetTheorems, TLAPS

\* A routing: the experts each position of a step uses; empty when none was read back.
Routings == {<<>>} \cup UNION {[1..n -> SUBSET Expert] : n \in Pos}

Terms == [l : 0..NLayer, p : Pos, e : Expert \cup {None}]

Evaluations ==
    [pc : {"idle", "graph", "fetch", "moe", "chunk", "head", "done"},
     kind : {"decode", "cbatch", "stream", None}, T : 0..MaxT, bucket : Bucket, il : 0..NLayer,
     sel : Routings, got : Routings, promoted : SUBSET Expert, cpu : SUBSET Expert,
     skipped : SUBSET Expert, rest : SUBSET Expert, lateZero : 0..MaxT, pcZero : 0..MaxT]

Tag == [T : 0..MaxT, bucket : Bucket, pack : BOOLEAN]

\* The types of the members the graphs and the sums are made from.
Types ==
    /\ cfg \in Settings
    /\ gA \in [Layer -> Graph \cup {None}]
    /\ tag \in [Layer -> Tag]
    /\ stash \in [Pos -> [Layer -> Parked \cup {None}]]
    /\ vram \in [Layer -> [GSlot -> Expert \cup {None}]]
    /\ lent \subseteq Layer
    /\ moved \in BOOLEAN
    /\ ev \in Evaluations
    /\ pg \subseteq Terms /\ pc \subseteq Terms
    /\ late = [p \in Pos |-> late[p]]
    /\ scale \subseteq Expert

\* Where an evaluation is: its layer, its positions and its budget of promotions, and what
\* is over when none runs.
Phase ==
    /\ ev.pc = "idle" => ran = None /\ sum = NoSum /\ cap = Promote
    /\ ev.pc # "idle" => ev.T \in Pos /\ ev.kind \in {"decode", "cbatch", "stream"}
    /\ ev.pc \in {"graph", "fetch", "moe", "chunk"} => ev.il \in Layer
    /\ ev.pc \in {"head", "done"} => ev.il = NLayer
    /\ ev.pc = "moe" => ev.kind = "decode"
    /\ ev.pc = "chunk" => ev.kind = "cbatch"
    /\ ev.pc \notin {"idle", "fetch"} => ran = None
    /\ ev.pc # "idle" /\ ev.kind = "decode" => ~moved /\ cap = Promote * ev.T

Base == Types /\ Phase

-----------------------------------------------------------------------------
(* Routings and terms.                                                     *)

\* The layers, and the ones after and before a layer.
LEMMA LayerFacts ==
    /\ Layer = 0..NLayer - 1 /\ NLayer \in Nat \ {0} /\ MaxT \in Nat \ {0} /\ Pos = 1..MaxT
    /\ 0 \in Layer
    /\ \A l \in Layer : l \in 0..NLayer /\ l + 1 \in 0..NLayer
    /\ \A l \in Layer : l + 1 # NLayer => l + 1 \in Layer
BY LayerConstants DEF Layer, Pos

\* "No bucket" is a value of a tag's or an evaluation's bucket.
LEMMA NoBucket == None \in Bucket
BY DEF Bucket

\* The larger of two numbers.
LEMMA MaxOfTwo ==
    ASSUME NEW a \in Int, NEW b \in Int
    PROVE  Max({a, b}) = IF a >= b THEN a ELSE b
<1>1. \E x \in {a, b} : \A y \in {a, b} : x >= y
  OBVIOUS
<1>2. Max({a, b}) \in {a, b} /\ \A y \in {a, b} : Max({a, b}) >= y
  BY <1>1, Zenon DEF Max
<1> QED BY <1>2

\* What a layer routes to is a routing of the step's positions.
LEMMA RoutesAreRoutings ==
    ASSUME NEW T \in Pos, NEW sel \in Routes(T)
    PROVE  sel \in Routings /\ sel \in [1..T -> SUBSET Expert]
<1>1. sel \in [1..T -> SUBSET Expert]
  BY DEF Routes, kSubset
<1> QED BY <1>1 DEF Routings

\* The experts of a routing are experts, and its terms are of its layer.
LEMMA RoutedFacts ==
    ASSUME NEW sel \in Routings, NEW l
    PROVE  /\ Union(sel) \subseteq Expert
           /\ \A p \in DOMAIN sel : p \in Pos /\ sel[p] \subseteq Expert /\ sel[p] \subseteq Union(sel)
           /\ \A t : t \in Routed(l, sel) <=>
                        \E p \in DOMAIN sel, e \in Expert : e \in sel[p] /\ t = Term(l, p, e)
           /\ \A t \in Routed(l, sel) : t.e \in Union(sel) /\ t.p \in DOMAIN sel /\ t.e \in sel[t.p]
<1>1. \A p \in DOMAIN sel : p \in Pos /\ sel[p] \subseteq Expert
  <2>1. CASE sel = <<>>
    BY <2>1
  <2>2. CASE sel \in UNION {[1..n -> SUBSET Expert] : n \in Pos}
    BY <2>2, LayerFacts
  <2> QED BY <2>1, <2>2 DEF Routings
<1>2. Union(sel) \subseteq Expert /\ \A p \in DOMAIN sel : sel[p] \subseteq Union(sel)
  BY <1>1 DEF Union
<1>3. \A t : t \in Routed(l, sel) <=> \E p \in DOMAIN sel : \E e \in sel[p] : t = Term(l, p, e)
  BY DEF Routed
<1>4. \A t : t \in Routed(l, sel) <=>
                \E p \in DOMAIN sel, e \in Expert : e \in sel[p] /\ t = Term(l, p, e)
  BY <1>1, <1>3
<1>5. \A t \in Routed(l, sel) : t.e \in Union(sel) /\ t.p \in DOMAIN sel /\ t.e \in sel[t.p]
  BY <1>2, <1>4 DEF Term
<1> QED BY <1>1, <1>2, <1>4, <1>5

\* The terms of a layer are terms.
LEMMA RoutedTerms ==
    ASSUME NEW sel \in Routings, NEW l \in 0..NLayer
    PROVE  Routed(l, sel) \subseteq Terms
BY RoutedFacts DEF Terms, Term

\* What an earlier call left is a set of terms, of no position below the first.
LEMMA ForeignTerms == Foreign \subseteq Terms
BY LayerFacts DEF Foreign, Terms, Term

-----------------------------------------------------------------------------
(* Types and the place of an evaluation.                                   *)

\* The engine as started.
LEMMA InitBase == Init => Base
<1> SUFFICES ASSUME Init PROVE Base
  OBVIOUS
<1>1. ev \in Evaluations
  <2>1. <<>> \in Routings
    BY DEF Routings
  <2> QED BY <2>1, LayerFacts, NoBucket DEF Init, Idle, Evaluations
<1>2. tag \in [Layer -> Tag]
  BY LayerFacts, NoBucket DEF Init, NoTag, Tag
<1>3. pg \subseteq Terms /\ pc \subseteq Terms
  BY ForeignTerms DEF Init
<1> QED BY <1>1, <1>2, <1>3 DEF Init, Base, Types, Phase, Idle

\* A graph that stands for memory the tier left is a graph, and so are the parked ones.
LEMMA DeadTypes ==
    /\ \A g \in Graph \cup {None} : Dead(g) \in Graph \cup {None}
    /\ \A s \in Parked \cup {None} : DeadStash(s) \in Parked \cup {None}
<1>1. \A g \in Graph \cup {None} : Dead(g) \in Graph \cup {None}
  BY DEF Dead, Graph
<1>2. \A g \in Graph : Dead(g) \in Graph
  BY NoneIsNoGraph DEF Dead, Graph
<1>3. ASSUME NEW s \in Parked PROVE [s EXCEPT !.g = Dead(@)] \in Parked
  BY <1>2 DEF Parked
<1> QED BY <1>1, <1>3 DEF DeadStash

\* The graphs keep their types when they die and when they are freed.
LEMMA GraphsDieTypes ==
    ASSUME Types, GraphsDie
    PROVE  /\ gA' \in [Layer -> Graph \cup {None}] /\ tag' \in [Layer -> Tag]
           /\ stash' \in [Pos -> [Layer -> Parked \cup {None}]]
<1>1. \A l \in Layer : gA[l] \in Graph \cup {None}
  BY DEF Types
<1>2. \A T \in Pos, l \in Layer : stash[T][l] \in Parked \cup {None}
  BY DEF Types
<1> QED BY <1>1, <1>2, DeadTypes DEF Types, GraphsDie

\* As above, for free_graph_stash().
LEMMA GraphsFreedTypes ==
    ASSUME Types, GraphsFreed
    PROVE  /\ gA' \in [Layer -> Graph \cup {None}] /\ tag' \in [Layer -> Tag]
           /\ stash' \in [Pos -> [Layer -> Parked \cup {None}]]
<1>1. \A l \in Layer : [tag[l] EXCEPT !.bucket = None] \in Tag
  BY NoBucket DEF Types, Tag
<1> QED BY <1>1 DEF Types, GraphsFreed

\* What a switch of the number of positions leaves.
LEMMA SwitchedTypes ==
    ASSUME Types, NEW l \in Layer, NEW T \in Pos
    PROVE  /\ Switched(l, T).g \in Graph \cup {None}
           /\ Switched(l, T).tag \in Tag
           /\ Switched(l, T).stash \in [Pos -> [Layer -> Parked \cup {None}]]
<1> DEFINE old == tag[l].T
           keep == gA[l] # None /\ old \in Pos
           p0 == parked - (IF keep THEN ParkedBytes(stash[old][l]) ELSE 0)
           fits == keep /\ p0 + GraphBytes(gA[l]) <= Budget
           s1 == IF ~keep THEN stash
                 ELSE [stash EXCEPT ![old][l] =
                          IF fits THEN [g |-> gA[l], bucket |-> tag[l].bucket, pack |-> tag[l].pack]
                          ELSE None]
           back == s1[T][l]
<1>1. gA[l] \in Graph \cup {None} /\ tag[l] \in Tag
  BY DEF Types
<1>2. keep => [g |-> gA[l], bucket |-> tag[l].bucket, pack |-> tag[l].pack] \in Parked
  BY <1>1 DEF Parked, Tag
<1>3. s1 \in [Pos -> [Layer -> Parked \cup {None}]]
  <2> HIDE DEF p0
  <2> QED BY <1>2 DEF Types
<1>4. back \in Parked \cup {None}
  <2> HIDE DEF s1
  <2> QED BY <1>3
<1>5. back # None => back.g \in Graph /\ back.bucket \in Bucket /\ back.pack \in BOOLEAN
  <2> HIDE DEF back
  <2> QED BY <1>4 DEF Parked
<1>6. [s1 EXCEPT ![T][l] = None] \in [Pos -> [Layer -> Parked \cup {None}]]
  <2> HIDE DEF s1
  <2> QED BY <1>3
<1>7. back # None => [T |-> T, bucket |-> back.bucket, pack |-> back.pack] \in Tag
  <2> HIDE DEF back
  <2> QED BY <1>5, LayerFacts DEF Tag
<1>8. \/ Switched(l, T) = [g |-> gA[l], tag |-> tag[l], stash |-> stash, parked |-> parked]
      \/ \E p : Switched(l, T) = [g |-> IF fits THEN None ELSE gA[l], tag |-> tag[l], stash |-> s1,
                                  parked |-> p]
      \/ back # None /\ \E p : Switched(l, T) =
            [g |-> back.g, tag |-> [T |-> T, bucket |-> back.bucket, pack |-> back.pack],
             stash |-> [s1 EXCEPT ![T][l] = None], parked |-> p]
  BY Zenon DEF Switched
<1> HIDE DEF s1, back, fits
<1>9. stash \in [Pos -> [Layer -> Parked \cup {None}]]
  BY DEF Types
<1>10. CASE Switched(l, T) = [g |-> gA[l], tag |-> tag[l], stash |-> stash, parked |-> parked]
  BY <1>1, <1>9, <1>10
<1>11. CASE \E p : Switched(l, T) = [g |-> IF fits THEN None ELSE gA[l], tag |-> tag[l],
                                     stash |-> s1, parked |-> p]
  BY <1>1, <1>3, <1>11
<1>12. CASE back # None /\ \E p : Switched(l, T) =
              [g |-> back.g, tag |-> [T |-> T, bucket |-> back.bucket, pack |-> back.pack],
               stash |-> [s1 EXCEPT ![T][l] = None], parked |-> p]
  BY <1>5, <1>6, <1>7, <1>12
<1> QED BY <1>8, <1>10, <1>11, <1>12

\* The setting never changes, and neither do the sets it names.
LEMMA StepCfg ==
    ASSUME [Next]_vars
    PROVE  /\ cfg' = cfg /\ Expert' = Expert /\ GSlot' = GSlot /\ Routings' = Routings
           /\ Terms' = Terms /\ Evaluations' = Evaluations
<1>1. cfg' = cfg
  BY ZenonT(40) DEF Next, vars, LoanAny, ReturnAny, WarmAny, BeginAny, GraphAny, FetchAny, ClientLend,
         PrefillEnter, PrefillLeave, PrefillRefused, PrefillWarm, DecodeBegin, CbatchBegin,
         StreamBegin, BatchGraph, DecodeGraph, Fetch, CbatchChunk, LayerMoe, EvalFails,
         CbatchSplit, CbatchDone, StreamMoe, HeadGraph, EvalReturns
<1>2. Expert' = Expert /\ GSlot' = GSlot
  BY <1>1 DEF Expert, GSlot
<1>3. Routings' = Routings /\ Terms' = Terms
  BY <1>2 DEF Routings, Terms
<1> QED BY <1>1, <1>2, <1>3 DEF Evaluations

\* An evaluation that is over leaves the sums to no one.
LEMMA EndedBase ==
    ASSUME Base, Ended, cfg' = cfg, Terms' = Terms, Evaluations' = Evaluations
    PROVE  /\ ev' \in Evaluations' /\ pg' \subseteq Terms' /\ pc' \subseteq Terms'
           /\ late' = [p \in Pos |-> late'[p]]
           /\ Phase'
<1>1. Idle \in Evaluations
  <2>1. <<>> \in Routings
    BY DEF Routings
  <2> QED BY <2>1, LayerFacts, NoBucket DEF Idle, Evaluations
<1> QED BY <1>1, ForeignTerms DEF Ended, Phase, Idle

\* Graph g runs for layer l and routes to sel.
LEMMA RunBase ==
    ASSUME Base, NEW g \in Graph, NEW sel \in Routes(ev.T), NEW packed, ev.pc = "graph",
           Run(g, ev.il, sel, packed), cfg' = cfg, moved' = moved, cap' = cap,
           Terms' = Terms, Evaluations' = Evaluations
    PROVE  /\ ev' \in Evaluations' /\ pg' \subseteq Terms' /\ pc' \subseteq Terms'
           /\ late' = [p \in Pos |-> late'[p]] /\ scale' = scale
           /\ Phase'
<1> DEFINE got == IF packed = g.pack THEN sel ELSE <<>>
<1>1. ev.T \in Pos /\ ev \in Evaluations /\ ev.il \in Layer
  BY DEF Base, Types, Phase
<1>2. sel \in Routings /\ <<>> \in Routings
  BY <1>1, RoutesAreRoutings DEF Routings
<1>3. /\ ev' = [ev EXCEPT !.pc = "fetch", !.sel = sel, !.skipped = {}, !.got = got]
      /\ pc' = pc /\ late' = late /\ scale' = scale
  BY DEF Run
<1>4. got \in Routings
  BY <1>2
<1>5. ev' \in Evaluations
  <2> HIDE DEF got
  <2> QED BY <1>1, <1>2, <1>3, <1>4 DEF Evaluations
<1>6. InGraphTerms(g, ev.il, sel) \subseteq Terms
  <2>1. Routed(ev.il, sel) \subseteq Terms
    BY <1>1, <1>2, LayerFacts, RoutedTerms
  <2>2. {Term(ev.il, p, None) : p \in 1..g.T} \subseteq Terms
    BY <1>1, LayerFacts DEF Terms, Term, Graph
  <2> QED BY <2>1, <2>2 DEF InGraphTerms
<1>7. pg' \subseteq Terms
  BY <1>6 DEF Run, Base, Types
<1>8. Phase'
  <2> HIDE DEF got
  <2> QED BY <1>1, <1>3 DEF Base, Phase, Evaluations
<1> QED BY <1>3, <1>5, <1>7, <1>8 DEF Base, Types

\* What a step starts with.
LEMMA StartTypes ==
    ASSUME NEW kind \in {"decode", "cbatch", "stream"}, NEW T \in Pos, NEW b \in Bucket
    PROVE  Start(kind, T, b) \in Evaluations
<1>1. Idle \in Evaluations
  <2>1. <<>> \in Routings
    BY DEF Routings
  <2> QED BY <2>1, LayerFacts, NoBucket DEF Idle, Evaluations
<1>2. T \in 0..MaxT
  BY LayerFacts
<1> HIDE DEF Idle
<1> QED BY <1>1, <1>2 DEF Start, Evaluations

\* A graph built now is a graph.
LEMMA BuiltTypes ==
    ASSUME Base, ev.pc = "graph", NEW l
    PROVE  Built(l) \in Graph
<1>1. ev.T \in 1..MaxT /\ ev.bucket \in Bucket
  BY LayerFacts DEF Base, Types, Phase, Evaluations
<1>2. PackOk(l, ev.T) \in BOOLEAN
  BY DEF PackOk, InGraph
<1> QED BY <1>1, <1>2 DEF Built, Graph, InGraph

\* Promotions fill slots of the layer's tier with experts.
LEMMA PromotesTypes ==
    ASSUME vram \in [Layer -> [GSlot -> Expert \cup {None}]], NEW l, NEW want,
           NEW put \in [GSlot -> Expert \cup {None}], Promotes(l, want, put)
    PROVE  vram' \in [Layer -> [GSlot -> Expert \cup {None}]]
<1> DEFINE row == [g \in GSlot |-> IF put[g] # None THEN put[g] ELSE vram[l][g]]
<1>1. vram' = [vram EXCEPT ![l] = row]
  BY DEF Promotes
<1>2. CASE l \in Layer
  <2>1. row \in [GSlot -> Expert \cup {None}]
    BY <1>2
  <2> HIDE DEF row
  <2> QED BY <1>1, <1>2, <2>1
<1>3. CASE l \notin Layer
  <2> HIDE DEF row
  <2> QED BY <1>1, <1>3
<1> QED BY <1>2, <1>3

\* Every step keeps the types and the evaluation's place, one case per action.
LEMMA StepBase == Base /\ [Next]_vars => Base'
<1> SUFFICES ASSUME Base, [Next]_vars PROVE Types' /\ Phase'
  BY DEF Base
<1> USE StepCfg DEF Base
<1>0. /\ Types /\ Phase /\ ev \in Evaluations
      /\ vram \in [Layer -> [GSlot -> Expert \cup {None}]]
  BY DEF Types
<1>e. EmptyTier \in [GSlot -> Expert \cup {None}] /\ Contents \subseteq [GSlot -> Expert \cup {None}]
  BY DEF EmptyTier, Contents
<1>1. ASSUME NEW ls \in SUBSET Layer, ClientLend(ls)
      PROVE  Types' /\ Phase'
  <2>1. vram' \in [Layer -> [GSlot -> Expert \cup {None}]]
    BY <1>0, <1>1, <1>e DEF ClientLend, Lend
  <2> QED BY <1>0, <1>1, <2>1, GraphsDieTypes DEF ClientLend, Lend, Types, Phase, tensors
<1>2. ASSUME NEW ls \in SUBSET Layer, PrefillEnter(ls)
      PROVE  Types' /\ Phase'
  <2>1. vram' \in [Layer -> [GSlot -> Expert \cup {None}]]
    BY <1>0, <1>2, <1>e DEF PrefillEnter, Lend
  <2>2. /\ gA' \in [Layer -> Graph \cup {None}] /\ tag' \in [Layer -> Tag]
        /\ stash' \in [Pos -> [Layer -> Parked \cup {None}]] /\ moved' \in BOOLEAN
    BY <1>2, GraphsDieTypes DEF PrefillEnter, Types, graphs
  <2> QED BY <1>0, <1>2, <2>1, <2>2 DEF PrefillEnter, Lend, Types, Phase, tensors
<1>3. ASSUME NEW back \in SUBSET Layer, NEW fill \in Contents, PrefillLeave(back, fill)
      PROVE  Types' /\ Phase'
  <2>1. vram' \in [Layer -> [GSlot -> Expert \cup {None}]]
    BY <1>0, <1>3, <1>e DEF PrefillLeave, TakeBack
  <2>2. /\ gA' \in [Layer -> Graph \cup {None}] /\ tag' \in [Layer -> Tag]
        /\ stash' \in [Pos -> [Layer -> Parked \cup {None}]] /\ moved' \in BOOLEAN
    BY <1>3, GraphsFreedTypes DEF PrefillLeave, Types, graphs
  <2> QED BY <1>0, <1>3, <2>1, <2>2 DEF PrefillLeave, TakeBack, Types, Phase, tensors
<1>4. ASSUME NEW ls \in SUBSET Layer, NEW back \in SUBSET Layer, NEW fill \in Contents,
             PrefillRefused(ls, back, fill)
      PROVE  Types' /\ Phase'
  <2>1. vram' \in [Layer -> [GSlot -> Expert \cup {None}]]
    BY <1>0, <1>4, <1>e DEF PrefillRefused
  <2>2. lent' \subseteq Layer
    BY <1>4 DEF PrefillRefused, Types
  <2> QED BY <1>0, <1>4, <2>1, <2>2, GraphsDieTypes DEF PrefillRefused, Types, Phase, tensors
<1>5. ASSUME NEW l \in Layer, NEW g \in GSlot, NEW e \in Expert, PrefillWarm(l, g, e)
      PROVE  Types' /\ Phase'
  <2>1. vram' \in [Layer -> [GSlot -> Expert \cup {None}]]
    BY <1>0, <1>5 DEF PrefillWarm
  <2> QED BY <1>0, <1>5, <2>1 DEF PrefillWarm, Types, Phase, graphs, tensors
<1>6. ASSUME NEW T \in Pos, NEW b \in cfg.buckets, NEW verify \in BOOLEAN,
             NEW back \in SUBSET lent, NEW fill \in Contents, DecodeBegin(T, b, verify, back, fill)
      PROVE  Types' /\ Phase'
  <2>1. vram' \in [Layer -> [GSlot -> Expert \cup {None}]]
    BY <1>0, <1>6, <1>e DEF DecodeBegin
  <2>2. /\ gA' \in [Layer -> Graph \cup {None}] /\ tag' \in [Layer -> Tag]
        /\ stash' \in [Pos -> [Layer -> Parked \cup {None}]] /\ moved' = FALSE
    BY <1>6, GraphsFreedTypes DEF DecodeBegin, Types, graphs
  <2>3. ev' \in Evaluations
    <3>1. b \in Bucket
      BY DEF Bucket, Types
    <3> QED BY <1>6, <3>1, StartTypes DEF DecodeBegin
  <2>4. Types'
    BY <1>0, <1>6, <2>1, <2>2, <2>3 DEF DecodeBegin, Types, tensors
  <2>5. ev'.pc = "graph" /\ ev'.kind = "decode" /\ ev'.T = T /\ ev'.il = 0
    BY <1>6 DEF DecodeBegin, Start, Idle
  <2>6. cap' = Promote * T
    <3>1. CASE verify
      BY <1>6, <3>1 DEF DecodeBegin
    <3>2. CASE ~verify
      BY <1>0, <1>6, <3>2, LayerConstants DEF DecodeBegin, Phase
    <3> QED BY <3>1, <3>2
  <2>7. ran' = None
    BY <1>0, <1>6 DEF DecodeBegin, Phase
  <2> QED BY <2>2, <2>4, <2>5, <2>6, <2>7, LayerFacts DEF Phase
<1>7. ASSUME NEW T \in Pos, NEW back \in SUBSET lent, NEW fill \in Contents,
             CbatchBegin(T, back, fill)
      PROVE  Types' /\ Phase'
  <2>1. vram' \in [Layer -> [GSlot -> Expert \cup {None}]]
    BY <1>0, <1>7, <1>e DEF CbatchBegin, TakeBack
  <2>2. /\ gA' \in [Layer -> Graph \cup {None}] /\ tag' \in [Layer -> Tag]
        /\ stash' \in [Pos -> [Layer -> Parked \cup {None}]] /\ moved' = FALSE
    BY <1>7, GraphsFreedTypes DEF CbatchBegin, Types, graphs
  <2>3. ev' \in Evaluations
    BY <1>7, StartTypes, NoBucket DEF CbatchBegin
  <2>4. Types'
    BY <1>0, <1>7, <2>1, <2>2, <2>3 DEF CbatchBegin, TakeBack, Types, tensors
  <2>5. ev'.pc = "graph" /\ ev'.kind = "cbatch" /\ ev'.T = T /\ ev'.il = 0
    BY <1>7 DEF CbatchBegin, Start, Idle
  <2>6. ran' = None
    BY <1>0, <1>7 DEF CbatchBegin, Phase
  <2> QED BY <2>2, <2>4, <2>5, <2>6, LayerFacts DEF Phase
<1>8. ASSUME NEW T \in Pos, StreamBegin(T)
      PROVE  Types' /\ Phase'
  <2>1. ev' \in Evaluations
    BY <1>8, StartTypes, NoBucket DEF StreamBegin
  <2>2. Types'
    BY <1>0, <1>8, <2>1 DEF StreamBegin, Types, graphs, tier, tensors
  <2>3. ev'.pc = "graph" /\ ev'.kind = "stream" /\ ev'.T = T /\ ev'.il = 0
    BY <1>8 DEF StreamBegin, Start, Idle
  <2>4. ran' = None
    BY <1>0, <1>8 DEF StreamBegin, Phase
  <2> QED BY <2>2, <2>3, <2>4, LayerFacts DEF Phase
<1>9. ASSUME NEW sel \in Routes(ev.T), BatchGraph(sel)
      PROVE  Types' /\ Phase'
  <2>1. Built(ev.il) \in Graph
    BY <1>9, BuiltTypes DEF BatchGraph
  <2>2. /\ ev' \in Evaluations' /\ pg' \subseteq Terms' /\ pc' \subseteq Terms'
        /\ late' = [p \in Pos |-> late'[p]] /\ scale' = scale
        /\ Phase'
    BY <1>9, <2>1, RunBase DEF BatchGraph, tier
  <2> QED BY <1>0, <1>9, <2>2 DEF BatchGraph, Types, graphs, tier
<1>10. ASSUME NEW sel \in Routes(ev.T), NEW kept \in BOOLEAN, NEW ok \in BOOLEAN,
              DecodeGraph(sel, kept, ok)
       PROVE  Types' /\ Phase'
  <2> DEFINE l == ev.il
             k == Switched(l, ev.T)
             replay == Replays(k, l, ev.T)
             g == IF replay THEN k.g ELSE Built(l)
  <2>1. ev.pc = "graph" /\ l \in Layer /\ ev.T \in Pos
    BY <1>0, <1>10 DEF DecodeGraph, Phase
  <2>2. k.g \in Graph \cup {None} /\ k.tag \in Tag
        /\ k.stash \in [Pos -> [Layer -> Parked \cup {None}]]
    BY <1>0, <2>1, SwitchedTypes
  <2>3. Built(l) \in Graph
    BY <2>1, BuiltTypes
  <2>4. g \in Graph
    <3> HIDE DEF k
    <3> QED BY <2>2, <2>3 DEF Replays
  <2>5. /\ gA' = [gA EXCEPT ![l] = IF kept THEN g ELSE None]
        /\ tag' = [tag EXCEPT ![l] = IF replay \/ ~kept THEN k.tag
                                     ELSE [T |-> g.T, bucket |-> g.bucket, pack |-> g.pack]]
        /\ stash' = k.stash
    BY <1>10 DEF DecodeGraph
  <2>6. [T |-> g.T, bucket |-> g.bucket, pack |-> g.pack] \in Tag
    <3> HIDE DEF g
    <3> QED BY <2>4, LayerFacts DEF Graph, Tag
  <2>7. /\ gA' \in [Layer -> Graph \cup {None}] /\ tag' \in [Layer -> Tag]
        /\ stash' \in [Pos -> [Layer -> Parked \cup {None}]]
    <3> HIDE DEF k, g, replay
    <3> QED BY <1>0, <2>2, <2>4, <2>5, <2>6 DEF Types
  <2>8. /\ ev' \in Evaluations' /\ pg' \subseteq Terms' /\ pc' \subseteq Terms'
        /\ late' = [p \in Pos |-> late'[p]] /\ scale' = scale
        /\ Phase'
    <3>1. CASE ok
      <4>1. Run(g, l, sel, ReadsPack(k, g, l)) /\ cap' = cap
        BY <1>10, <3>1 DEF DecodeGraph
      <4> HIDE DEF g, k
      <4> QED BY <1>10, <2>1, <2>4, <4>1, RunBase DEF DecodeGraph
    <3>2. CASE ~ok
      BY <1>10, <3>2, EndedBase DEF DecodeGraph
    <3> QED BY <3>1, <3>2
  <2> HIDE DEF g, k, replay, l
  <2> QED BY <1>0, <1>10, <2>7, <2>8 DEF DecodeGraph, Types
<1>11. ASSUME NEW put \in [GSlot -> Expert \cup {None}], NEW miss \in SUBSET Expert, Fetch(put, miss)
       PROVE  Types' /\ Phase'
  <2> DEFINE want == Union(ev.got)
             cpu == (want \ Held(ev.il, want)) \ New(put)
  <2>1. want \subseteq Expert
    BY <1>0, RoutedFacts DEF Evaluations
  <2>2. ev' = [ev EXCEPT !.pc = "moe", !.promoted = New(put), !.cpu = cpu, !.skipped = miss]
    BY <1>11 DEF Fetch
  <2>3. cpu \subseteq Expert /\ New(put) \subseteq Expert
    BY <2>1 DEF New
  <2>4. ev' \in Evaluations
    <3> HIDE DEF cpu
    <3> QED BY <1>0, <2>2, <2>3 DEF Evaluations
  <2>5. vram' \in [Layer -> [GSlot -> Expert \cup {None}]]
    BY <1>0, <1>11, PromotesTypes DEF Fetch
  <2>6. Types'
    BY <1>0, <1>11, <2>4, <2>5 DEF Fetch, Types, graphs, tensors
  <2>7. Phase'
    <3> HIDE DEF cpu
    <3> QED BY <1>0, <1>11, <2>2 DEF Fetch, Phase, Evaluations
  <2> QED BY <2>6, <2>7
<1>12. ASSUME NEW put \in [GSlot -> Expert \cup {None}], NEW chunk \in SUBSET ev.rest,
              CbatchChunk(chunk, put)
       PROVE  Types' /\ Phase'
  <2>1. ev.il \in Layer /\ ev.got \in Routings
    BY <1>0, <1>12 DEF CbatchChunk, Phase, Evaluations
  <2>2. Routed(ev.il, ev.got) \subseteq Terms
    BY <2>1, LayerFacts, RoutedTerms
  <2>3. pg' \subseteq Terms
    BY <1>12, <2>2 DEF CbatchChunk, Types
  <2>4. ev' \in Evaluations
    BY <1>0, <1>12 DEF CbatchChunk, Evaluations
  <2>5. vram' \in [Layer -> [GSlot -> Expert \cup {None}]]
    BY <1>0, <1>12, PromotesTypes DEF CbatchChunk
  <2>6. Types'
    BY <1>0, <1>12, <2>3, <2>4, <2>5 DEF CbatchChunk, Types, graphs
  <2>7. Phase'
    BY <1>0, <1>12 DEF CbatchChunk, Phase, Evaluations
  <2> QED BY <2>6, <2>7
<1>13. CASE LayerMoe
  <2> DEFINE cpu == ev.cpu \ ev.skipped
  <2>1. ev.il \in Layer /\ ev.got \in Routings /\ ev.T \in 0..MaxT /\ ev.pc = "moe"
    BY <1>0, <1>13 DEF LayerMoe, Phase, Evaluations
  <2>2. LateZero \in 0..MaxT /\ PcZero(cpu) \in 0..MaxT
    <3>1. ev.T \in 0..MaxT /\ ev.lateZero \in 0..MaxT /\ ev.pcZero \in 0..MaxT
      BY <1>0 DEF Evaluations
    <3>2. \A a, b \in 0..MaxT : Max({a, b}) \in 0..MaxT
      BY MaxOfTwo, LayerFacts
    <3> QED BY <3>1, <3>2, LayerFacts DEF LateZero, PcZero
  <2>3. ev' = [ev EXCEPT !.pc = IF ev.il + 1 = NLayer THEN "head" ELSE "graph", !.il = ev.il + 1,
                         !.promoted = {}, !.cpu = {}, !.lateZero = LateZero, !.pcZero = PcZero(cpu)]
    BY <1>13 DEF LayerMoe
  <2>4. ev' \in Evaluations
    <3> HIDE DEF cpu
    <3> QED BY <1>0, <2>1, <2>2, <2>3, LayerFacts DEF Evaluations
  <2>5. pg' \subseteq Terms /\ pc' \subseteq Terms
    <3>1. Routed(ev.il, ev.got) \subseteq Terms
      BY <2>1, LayerFacts, RoutedTerms
    <3> QED BY <1>13, <3>1 DEF LayerMoe, OnDevice, CpuPart, Types
  <2>6. late' = [p \in Pos |-> late'[p]]
    BY <1>13 DEF LayerMoe, Launch, Types
  <2>7. scale' \subseteq Expert
    BY <1>0, <1>13 DEF LayerMoe, Rescaled, Types, Evaluations
  <2>8. Types'
    BY <1>0, <1>13, <2>4, <2>5, <2>6, <2>7 DEF LayerMoe, Types, graphs
  <2>9. ran' = None /\ ev.kind = "decode"
    BY <1>0, <1>13, <2>1 DEF LayerMoe, Phase
  <2>10. Phase'
    <3> HIDE DEF cpu
    <3> QED BY <1>0, <1>13, <2>1, <2>3, <2>9, LayerFacts DEF LayerMoe, Phase, Evaluations
  <2> QED BY <2>8, <2>10
<1>14. CASE EvalFails
  BY <1>0, <1>14, EndedBase DEF EvalFails, Types, graphs
<1>15. CASE CbatchSplit
  <2>1. ev' \in Evaluations
    BY <1>0, <1>15, RoutedFacts DEF CbatchSplit, Evaluations
  <2>2. Types'
    BY <1>0, <1>15, <2>1 DEF CbatchSplit, Types, graphs, tier
  <2> QED BY <1>0, <1>15, <2>2 DEF CbatchSplit, Phase, Evaluations, tier
<1>16. CASE CbatchDone
  <2>0. ev.il \in Layer
    BY <1>0, <1>16 DEF CbatchDone, Phase
  <2>1. ev' \in Evaluations
    BY <1>0, <1>16, <2>0, LayerFacts DEF CbatchDone, Evaluations
  <2>2. Types'
    BY <1>0, <1>16, <2>1 DEF CbatchDone, Types, graphs, tier
  <2> QED BY <1>0, <1>16, <2>0, <2>2, LayerFacts DEF CbatchDone, Phase, Evaluations, tier
<1>17. CASE StreamMoe
  <2>0. ev.il \in Layer /\ ev.got \in Routings
    BY <1>0, <1>17 DEF StreamMoe, Phase, Evaluations
  <2>1. ev' \in Evaluations
    BY <1>0, <1>17, <2>0, LayerFacts DEF StreamMoe, Evaluations
  <2>2. Routed(ev.il, ev.got) \subseteq Terms
    BY <2>0, LayerFacts, RoutedTerms
  <2>3. Types'
    BY <1>0, <1>17, <2>1, <2>2 DEF StreamMoe, Types, graphs, tier
  <2> QED BY <1>0, <1>17, <2>0, <2>3, LayerFacts DEF StreamMoe, Phase, Evaluations, tier
<1>18. CASE HeadGraph
  <2>1. ev' \in Evaluations
    BY <1>0, <1>18 DEF HeadGraph, Evaluations
  <2>2. Types'
    BY <1>0, <1>18, <2>1 DEF HeadGraph, Types, graphs, tier, tensors
  <2> QED BY <1>0, <1>18, <2>2 DEF HeadGraph, Phase, Evaluations, tier
<1>19. CASE EvalReturns
  BY <1>0, <1>19, EndedBase DEF EvalReturns, Types, graphs
<1>20. CASE UNCHANGED vars
  BY <1>0, <1>20 DEF vars, Types, Phase, graphs, tier, tensors
<1> QED
  BY <1>1, <1>2, <1>3, <1>4, <1>5, <1>6, <1>7, <1>8, <1>9, <1>10, <1>11, <1>12, <1>13, <1>14,
     <1>15, <1>16, <1>17, <1>18, <1>19, <1>20
     DEF Next, LoanAny, ReturnAny, WarmAny, BeginAny, GraphAny, FetchAny

-----------------------------------------------------------------------------
(* The kept graphs.                                                        *)

\* A graph kept for layer l under these marks is what they say, is there while the tier has
\* not moved, and then computes and folds what the layers' tiers allow.
Keeps(l, T, bucket, pack, g) ==
    /\ g.T = T /\ g.bucket = bucket /\ g.pack = pack
    /\ g.live \/ moved
    /\ g.live => /\ g.moe = InGraph(l)
                 /\ g.fold = (l > 0 /\ InGraph(l - 1))

Kept ==
    /\ \A l \in Layer : gA[l] # None => Keeps(l, tag[l].T, tag[l].bucket, tag[l].pack, gA[l])
    /\ \A T \in Pos, l \in Layer : stash[T][l] # None =>
          Keeps(l, T, stash[T][l].bucket, stash[T][l].pack, stash[T][l].g)

KInv == Base /\ Kept /\ GraphFits /\ RoutingRead

\* The kept graphs stay what they are while neither they nor the loans change.
LEMMA KeptSame ==
    ASSUME Kept, UNCHANGED graphs, moved' = moved, lent' = lent
    PROVE  Kept'
BY DEF Kept, Keeps, graphs, InGraph

\* Graphs that die may be kept until the tier's new place is noticed, whatever is lent.
LEMMA KeptDies ==
    ASSUME Types, Kept, GraphsDie, moved' = TRUE
    PROVE  Kept'
<1>1. ASSUME NEW l \in Layer, gA'[l] # None
      PROVE  Keeps(l, tag[l].T, tag[l].bucket, tag[l].pack, gA[l])' /\ tag' = tag
  <2>1. gA[l] # None /\ gA[l] \in Graph /\ gA'[l] = [gA[l] EXCEPT !.live = FALSE]
    BY <1>1 DEF GraphsDie, Dead, Types
  <2>2. Keeps(l, tag[l].T, tag[l].bucket, tag[l].pack, gA[l])
    BY <2>1 DEF Kept
  <2> QED BY <2>1, <2>2 DEF Keeps, Graph, GraphsDie
<1>2. ASSUME NEW T \in Pos, NEW l \in Layer, stash'[T][l] # None
      PROVE  Keeps(l, T, stash[T][l].bucket, stash[T][l].pack, stash[T][l].g)'
  <2>1. stash[T][l] \in Parked \cup {None} /\ stash'[T][l] = DeadStash(stash[T][l])
    BY DEF GraphsDie, Types
  <2>2. /\ stash[T][l] # None /\ stash[T][l].g \in Graph /\ stash[T][l] \in Parked
        /\ stash'[T][l] = [stash[T][l] EXCEPT !.g = [stash[T][l].g EXCEPT !.live = FALSE]]
    <3>1. stash[T][l] # None
      BY <1>2, <2>1 DEF DeadStash
    <3>2. stash[T][l] \in Parked /\ stash[T][l].g \in Graph
      BY <2>1, <3>1 DEF Parked
    <3>3. stash'[T][l] = [stash[T][l] EXCEPT !.g = Dead(stash[T][l].g)]
      BY <2>1, <3>1 DEF DeadStash
    <3>4. Dead(stash[T][l].g) = [stash[T][l].g EXCEPT !.live = FALSE]
      BY <3>2, NoneIsNoGraph DEF Dead
    <3> QED BY <3>1, <3>2, <3>3, <3>4
  <2>3. Keeps(l, T, stash[T][l].bucket, stash[T][l].pack, stash[T][l].g)
    BY <2>2 DEF Kept
  <2>4. /\ stash'[T][l].bucket = stash[T][l].bucket /\ stash'[T][l].pack = stash[T][l].pack
        /\ stash'[T][l].g = [stash[T][l].g EXCEPT !.live = FALSE]
    BY <2>2 DEF Parked
  <2> QED BY <2>2, <2>3, <2>4 DEF Keeps, Graph
<1> QED BY <1>1, <1>2 DEF Kept

\* After free_graph_stash() none is kept.
LEMMA KeptFreed ==
    ASSUME GraphsFreed
    PROVE  Kept'
BY DEF GraphsFreed, Kept

\* What Switched() makes of a layer's graphs, step by step: which graph is parked and
\* which one is taken back.
LEMMA SwitchedCases ==
    ASSUME NEW l, NEW T
    PROVE  LET old == tag[l].T
               keep == gA[l] # None /\ old \in Pos
               p0 == parked - (IF keep THEN ParkedBytes(stash[old][l]) ELSE 0)
               fits == keep /\ p0 + GraphBytes(gA[l]) <= Budget
               s1 == IF ~keep THEN stash
                     ELSE [stash EXCEPT ![old][l] =
                              IF fits THEN [g |-> gA[l], bucket |-> tag[l].bucket, pack |-> tag[l].pack]
                              ELSE None]
               p1 == p0 + (IF fits THEN GraphBytes(gA[l]) ELSE 0)
               back == s1[T][l]
           IN  \/ Switched(l, T) = [g |-> gA[l], tag |-> tag[l], stash |-> stash, parked |-> parked]
               \/ old # T /\ Switched(l, T) = [g |-> IF fits THEN None ELSE gA[l], tag |-> tag[l],
                                               stash |-> s1, parked |-> p1]
               \/ old # T /\ back # None /\ Switched(l, T) =
                     [g |-> back.g, tag |-> [T |-> T, bucket |-> back.bucket, pack |-> back.pack],
                      stash |-> [s1 EXCEPT ![T][l] = None], parked |-> p1 - ParkedBytes(back)]
BY Zenon DEF Switched

\* A switch of the number of positions keeps every graph under its own marks.
LEMMA SwitchedKept ==
    ASSUME Types, Kept, NEW l \in Layer, NEW T \in Pos
    PROVE  LET k == Switched(l, T)
           IN  /\ k.g # None => Keeps(l, k.tag.T, k.tag.bucket, k.tag.pack, k.g)
               /\ \A T2 \in Pos, l2 \in Layer : k.stash[T2][l2] # None =>
                     Keeps(l2, T2, k.stash[T2][l2].bucket, k.stash[T2][l2].pack, k.stash[T2][l2].g)
<1> DEFINE old == tag[l].T
           keep == gA[l] # None /\ old \in Pos
           p0 == parked - (IF keep THEN ParkedBytes(stash[old][l]) ELSE 0)
           fits == keep /\ p0 + GraphBytes(gA[l]) <= Budget
           rec == [g |-> gA[l], bucket |-> tag[l].bucket, pack |-> tag[l].pack]
           s1 == IF ~keep THEN stash ELSE [stash EXCEPT ![old][l] = IF fits THEN rec ELSE None]
           p1 == p0 + (IF fits THEN GraphBytes(gA[l]) ELSE 0)
           back == s1[T][l]
           k == Switched(l, T)
           Good(s) == \A T2 \in Pos, l2 \in Layer : s[T2][l2] # None =>
                         Keeps(l2, T2, s[T2][l2].bucket, s[T2][l2].pack, s[T2][l2].g)
<1>1. gA[l] # None => Keeps(l, old, tag[l].bucket, tag[l].pack, gA[l])
  BY DEF Kept
<1>2. Good(stash) /\ stash \in [Pos -> [Layer -> Parked \cup {None}]]
  BY DEF Kept, Types
<1>3. Good(s1) /\ s1 \in [Pos -> [Layer -> Parked \cup {None}]]
  <2>1. gA[l] \in Graph \cup {None} /\ tag[l] \in Tag
    BY DEF Types
  <2>2. keep => rec \in Parked /\ Keeps(l, old, rec.bucket, rec.pack, rec.g)
    BY <1>1, <2>1 DEF Parked, Tag
  <2> DEFINE new == IF fits THEN rec ELSE None
  <2>3. keep => new \in Parked \cup {None}
                /\ (new # None => Keeps(l, old, new.bucket, new.pack, new.g))
    <3> HIDE DEF rec, fits, keep
    <3> QED BY <2>2
  <2>4. s1 = IF ~keep THEN stash ELSE [stash EXCEPT ![old][l] = new]
    OBVIOUS
  <2> HIDE DEF new, s1, rec, fits, p0
  <2>5. CASE keep
    <3>1. s1 = [stash EXCEPT ![old][l] = new]
      BY <2>4, <2>5
    <3>2. s1 \in [Pos -> [Layer -> Parked \cup {None}]]
      BY <1>2, <2>3, <2>5, <3>1
    <3>3. ASSUME NEW T2 \in Pos, NEW l2 \in Layer, s1[T2][l2] # None
          PROVE  Keeps(l2, T2, s1[T2][l2].bucket, s1[T2][l2].pack, s1[T2][l2].g)
      <4>1. CASE T2 = old /\ l2 = l
        <5>1. s1[T2][l2] = new
          BY <1>2, <2>5, <3>1, <4>1
        <5> QED BY <2>3, <2>5, <3>3, <4>1, <5>1
      <4>2. CASE ~(T2 = old /\ l2 = l)
        <5>1. s1[T2][l2] = stash[T2][l2]
          BY <1>2, <3>1, <4>2
        <5> QED BY <1>2, <3>3, <5>1
      <4> QED BY <4>1, <4>2
    <3> QED BY <3>2, <3>3
  <2>6. CASE ~keep
    <3>1. s1 = stash
      BY <2>4, <2>6
    <3> QED BY <1>2, <3>1
  <2> QED BY <2>5, <2>6
<1> DEFINE s2 == [s1 EXCEPT ![T][l] = None]
<1>4. Good(s2)
  <2> HIDE DEF s1
  <2>1. ASSUME NEW T2 \in Pos, NEW l2 \in Layer, s2[T2][l2] # None
        PROVE  s2[T2][l2] = s1[T2][l2]
    BY <1>3, <2>1
  <2> HIDE DEF s2
  <2> QED BY <1>3, <2>1
<1>5. back # None => Keeps(l, T, back.bucket, back.pack, back.g)
  <2> HIDE DEF s1
  <2> QED BY <1>3
<1>6. \/ k = [g |-> gA[l], tag |-> tag[l], stash |-> stash, parked |-> parked]
      \/ k = [g |-> IF fits THEN None ELSE gA[l], tag |-> tag[l], stash |-> s1, parked |-> p1]
      \/ back # None /\ k =
            [g |-> back.g, tag |-> [T |-> T, bucket |-> back.bucket, pack |-> back.pack],
             stash |-> s2, parked |-> p1 - ParkedBytes(back)]
  BY SwitchedCases
<1>7. (k.g # None => Keeps(l, k.tag.T, k.tag.bucket, k.tag.pack, k.g)) /\ Good(k.stash)
  <2> HIDE DEF s1, s2, back, fits, p1, k, p0, keep
  <2>1. CASE k = [g |-> gA[l], tag |-> tag[l], stash |-> stash, parked |-> parked]
    BY <1>1, <1>2, <2>1
  <2>2. CASE k = [g |-> IF fits THEN None ELSE gA[l], tag |-> tag[l], stash |-> s1, parked |-> p1]
    BY <1>1, <1>3, <2>2
  <2>3. CASE back # None /\ k =
               [g |-> back.g, tag |-> [T |-> T, bucket |-> back.bucket, pack |-> back.pack],
                stash |-> s2, parked |-> p1 - ParkedBytes(back)]
    BY <1>4, <1>5, <2>3
  <2> QED BY <1>6, <2>1, <2>2, <2>3
<1> QED BY <1>7

\* The graph a decode layer runs is right for this step, and the host reads the routing
\* back from where it writes it.
LEMMA DecodeRuns ==
    ASSUME Base, Kept, NEW sel \in Routes(ev.T), NEW kept \in BOOLEAN, NEW ok \in BOOLEAN,
           DecodeGraph(sel, kept, ok)
    PROVE  LET l == ev.il
               k == Switched(l, ev.T)
               g == IF Replays(k, l, ev.T) THEN k.g ELSE Built(l)
           IN  /\ g \in Graph /\ g.T = ev.T /\ g.live
               /\ Shaped(l) => g.bucket = ev.bucket
               /\ g.moe = InGraph(l) /\ g.fold = (l > 0 /\ InGraph(l - 1))
               /\ ok => Run(g, l, sel, g.pack)
<1> DEFINE l == ev.il
           k == Switched(l, ev.T)
           g == IF Replays(k, l, ev.T) THEN k.g ELSE Built(l)
           Right == /\ g \in Graph /\ g.T = ev.T /\ g.live
                    /\ Shaped(l) => g.bucket = ev.bucket
                    /\ g.moe = InGraph(l) /\ g.fold = (l > 0 /\ InGraph(l - 1))
                    /\ ok => Run(g, l, sel, g.pack)
<1>1. ev.pc = "graph" /\ ev.kind = "decode" /\ l \in Layer /\ ev.T \in Pos /\ ~moved
  BY DEF DecodeGraph, Base, Phase
<1>2. k.g \in Graph \cup {None} /\ (k.g # None => Keeps(l, k.tag.T, k.tag.bucket, k.tag.pack, k.g))
  BY <1>1, SwitchedTypes, SwitchedKept DEF Base
<1>3. Built(l) \in Graph
  BY <1>1, BuiltTypes
<1>4. ok => Run(g, l, sel, ReadsPack(k, g, l))
  BY DEF DecodeGraph
<1>5. ASSUME Replays(k, l, ev.T) PROVE Right
  <2>1. g = k.g /\ k.g \in Graph /\ k.tag.T = ev.T /\ (Shaped(l) => k.tag.bucket = ev.bucket)
    <3> HIDE DEF k
    <3> QED BY <1>2, <1>5 DEF Replays
  <2>2. Keeps(l, k.tag.T, k.tag.bucket, k.tag.pack, k.g)
    BY <1>2, <1>5 DEF Replays
  <2>3. ReadsPack(k, g, l) = k.tag.pack
    BY <1>5 DEF ReadsPack
  <2> HIDE DEF k, g, l
  <2> QED BY <1>1, <1>4, <2>1, <2>2, <2>3 DEF Keeps
<1>6. ASSUME ~Replays(k, l, ev.T) PROVE Right
  <2>1. g = Built(l) /\ ReadsPack(k, g, l) = g.pack
    BY <1>6 DEF ReadsPack
  <2>2. /\ Built(l).T = ev.T /\ Built(l).live /\ Built(l).bucket = ev.bucket
        /\ Built(l).moe = InGraph(l) /\ Built(l).fold = (l > 0 /\ InGraph(l - 1))
    <3>1. (ev.kind = "decode" /\ InGraph(l)) = InGraph(l)
      BY <1>1, Zenon DEF InGraph
    <3>2. (ev.kind = "decode" /\ l > 0 /\ InGraph(l - 1)) = (l > 0 /\ InGraph(l - 1))
      BY <1>1, Zenon
    <3> HIDE DEF l
    <3> QED BY <1>1, <3>1, <3>2 DEF Built
  <2> HIDE DEF k, g, l
  <2> QED BY <1>3, <1>4, <2>1, <2>2
<1> QED BY <1>5, <1>6

\* A prompt's graph computes and folds no VRAM expert and packs nothing.
LEMMA BatchRuns ==
    ASSUME Base, NEW sel \in Routes(ev.T), BatchGraph(sel)
    PROVE  LET g == Built(ev.il)
           IN  /\ g \in Graph /\ g.T = ev.T /\ g.live
               /\ g.moe = FALSE /\ g.fold = FALSE /\ Run(g, ev.il, sel, g.pack)
<1>1. ev.pc = "graph" /\ ev.kind # "decode"
  BY DEF BatchGraph
<1>2. Built(ev.il) \in Graph
  BY <1>1, BuiltTypes
<1>3. /\ Built(ev.il).T = ev.T /\ Built(ev.il).live /\ Built(ev.il).moe = FALSE
      /\ Built(ev.il).fold = FALSE /\ Built(ev.il).pack = FALSE
  BY <1>1 DEF Built
<1> QED BY <1>2, <1>3 DEF BatchGraph

\* A graph that runs and reads the routing where it was written is the step's graph.
LEMMA RunFits ==
    ASSUME Base, NEW g \in Graph, NEW sel, Run(g, ev.il, sel, g.pack), cfg' = cfg,
           g.T = ev.T, g.live, ev.kind = "decode" /\ Shaped(ev.il) => g.bucket = ev.bucket
    PROVE  GraphFits' /\ RoutingRead'
<1>1. /\ ran' = g /\ ev'.T = ev.T /\ ev'.kind = ev.kind /\ ev'.il = ev.il
      /\ ev'.bucket = ev.bucket /\ ev'.sel = sel /\ ev'.got = sel
  BY DEF Run, Base, Types, Evaluations
<1> QED BY <1>1 DEF GraphFits, RoutingRead, Shaped

\* A layer's fetch follows the run of its graph, and reads the same routing to its end.
LEMMA StagesFollow ==
    ASSUME Base, Base', [Next]_vars, GraphFits, RoutingRead, ev'.pc \in {"fetch", "moe", "chunk"}
    PROVE  \/ \E sel \in Routes(ev.T) : BatchGraph(sel)
           \/ \E sel \in Routes(ev.T), kept, ok \in BOOLEAN : DecodeGraph(sel, kept, ok)
           \/ GraphFits' /\ RoutingRead'
<1>0. ev \in Evaluations
  BY DEF Base, Types
<1>1. ev'.pc # "idle" /\ ev'.pc # "graph" /\ ev'.pc # "head" /\ ev'.pc # "done"
  OBVIOUS
<1>2. ASSUME ev'.got = ev.got, ev'.sel = ev.sel, ev.pc \in {"fetch", "moe", "chunk"}, ran' = None
      PROVE  GraphFits' /\ RoutingRead'
  BY <1>2 DEF GraphFits, RoutingRead
<1>3. ASSUME ev' = ev, ran' = ran, cfg' = cfg
      PROVE  GraphFits' /\ RoutingRead'
  BY <1>3 DEF GraphFits, RoutingRead, Shaped
<1>4. ev.pc = "idle" => ev'.pc \in {"idle", "graph"}
  BY ZenonT(40) DEF Next, vars, LoanAny, ReturnAny, WarmAny, BeginAny, GraphAny, FetchAny, ClientLend,
         PrefillEnter, PrefillLeave, PrefillRefused, PrefillWarm, DecodeBegin, CbatchBegin,
         StreamBegin, BatchGraph, DecodeGraph, Fetch, CbatchChunk, LayerMoe, EvalFails,
         CbatchSplit, CbatchDone, StreamMoe, HeadGraph, EvalReturns, Start, Idle
<1>5. CASE \E put \in [GSlot -> Expert \cup {None}], miss \in SUBSET Expert : Fetch(put, miss)
  <2>1. ev'.got = ev.got /\ ev'.sel = ev.sel /\ ev.pc = "fetch" /\ ran' = None
    BY <1>0, <1>5 DEF Fetch, Evaluations
  <2> QED BY <1>2, <2>1
<1>6. CASE \E put \in [GSlot -> Expert \cup {None}], chunk \in SUBSET ev.rest : CbatchChunk(chunk, put)
  <2>1. ev'.got = ev.got /\ ev'.sel = ev.sel /\ ev.pc = "chunk" /\ ran' = ran
    BY <1>0, <1>6 DEF CbatchChunk, Evaluations
  <2> QED BY <1>2, <2>1 DEF Base, Phase
<1>7. CASE CbatchSplit
  <2>1. ev'.got = ev.got /\ ev'.sel = ev.sel /\ ev.pc = "fetch" /\ ran' = None
    BY <1>0, <1>7 DEF CbatchSplit, Evaluations
  <2> QED BY <1>2, <2>1
<1>8. CASE EvalFails \/ EvalReturns
  BY <1>1, <1>8 DEF EvalFails, EvalReturns, Ended, Idle
<1>9. CASE LayerMoe \/ CbatchDone \/ StreamMoe \/ HeadGraph
  BY <1>0, <1>1, <1>9 DEF LayerMoe, CbatchDone, StreamMoe, HeadGraph, Evaluations
<1>10. CASE LoanAny \/ ReturnAny \/ WarmAny \/ BeginAny
  BY <1>1, <1>4, <1>10, ZenonT(40)
     DEF LoanAny, ReturnAny, WarmAny, BeginAny, ClientLend, PrefillEnter, PrefillLeave,
         PrefillRefused, PrefillWarm, DecodeBegin, CbatchBegin, StreamBegin
<1>11. CASE UNCHANGED vars
  BY <1>3, <1>11 DEF vars
<1>12. CASE GraphAny
  BY <1>12 DEF GraphAny
<1> QED BY <1>5, <1>6, <1>7, <1>8, <1>9, <1>10, <1>11, <1>12 DEF Next, FetchAny

\* The kept graphs are what they say as the engine starts: there are none.
LEMMA InitKInv == Init => KInv
BY InitBase DEF Init, KInv, Kept, GraphFits, RoutingRead, Idle

\* Every step keeps them so, and runs one that fits the step.
LEMMA StepKInv == KInv /\ [Next]_vars => KInv'
<1> SUFFICES ASSUME KInv, [Next]_vars PROVE Kept' /\ GraphFits' /\ RoutingRead'
  BY StepBase DEF KInv
<1>0. Base /\ Base' /\ Types /\ Kept /\ GraphFits /\ RoutingRead /\ cfg' = cfg
  BY StepBase, StepCfg DEF KInv, Base
<1>1. GraphFits' /\ RoutingRead'
  <2>1. CASE ev'.pc \notin {"fetch", "moe", "chunk"}
    <3>1. ran' = None
      BY <1>0, <2>1 DEF Base, Phase
    <3> QED BY <2>1, <3>1 DEF GraphFits, RoutingRead
  <2>2. ASSUME NEW sel \in Routes(ev.T), BatchGraph(sel)
        PROVE  GraphFits' /\ RoutingRead'
    <3>1. ev.kind # "decode"
      BY <2>2 DEF BatchGraph
    <3> HIDE DEF GraphFits, RoutingRead
    <3> QED BY <1>0, <2>2, <3>1, BatchRuns, RunFits
  <2>3. ASSUME ev'.pc \in {"fetch", "moe", "chunk"}, NEW sel \in Routes(ev.T), NEW kept \in BOOLEAN,
               NEW ok \in BOOLEAN, DecodeGraph(sel, kept, ok)
        PROVE  GraphFits' /\ RoutingRead'
    <3>1. ok
      BY <2>3 DEF DecodeGraph, Ended, Idle
    <3> DEFINE k == Switched(ev.il, ev.T)
               g == IF Replays(k, ev.il, ev.T) THEN k.g ELSE Built(ev.il)
    <3>2. /\ g \in Graph /\ g.T = ev.T /\ g.live /\ (Shaped(ev.il) => g.bucket = ev.bucket)
          /\ Run(g, ev.il, sel, g.pack)
      BY <1>0, <2>3, <3>1, DecodeRuns
    <3> HIDE DEF g
    <3> QED BY <1>0, <3>2, RunFits
  <2> QED BY <1>0, <2>1, <2>2, <2>3, StagesFollow
<1>2. Kept'
  <2>1. ASSUME NEW sel \in Routes(ev.T), NEW kept \in BOOLEAN, NEW ok \in BOOLEAN,
               DecodeGraph(sel, kept, ok)
        PROVE  Kept'
    <3> DEFINE l == ev.il
               k == Switched(l, ev.T)
               replay == Replays(k, l, ev.T)
               g == IF replay THEN k.g ELSE Built(l)
               new == IF replay \/ ~kept THEN k.tag ELSE [T |-> g.T, bucket |-> g.bucket, pack |-> g.pack]
               Good(s) == \A T2 \in Pos, l2 \in Layer : s[T2][l2] # None =>
                             Keeps(l2, T2, s[T2][l2].bucket, s[T2][l2].pack, s[T2][l2].g)
    <3>1. l \in Layer /\ ev.T \in Pos
      BY <1>0, <2>1 DEF DecodeGraph, Base, Phase
    <3>2. (k.g # None => Keeps(l, k.tag.T, k.tag.bucket, k.tag.pack, k.g)) /\ Good(k.stash)
      BY <1>0, <3>1, SwitchedKept
    <3>3. /\ g \in Graph /\ g.T = ev.T /\ g.live /\ g.moe = InGraph(l)
          /\ g.fold = (l > 0 /\ InGraph(l - 1))
      BY <1>0, <2>1, DecodeRuns
    <3>4. /\ gA' = [gA EXCEPT ![l] = IF kept THEN g ELSE None] /\ tag' = [tag EXCEPT ![l] = new]
          /\ stash' = k.stash /\ moved' = moved /\ lent' = lent
      BY <2>1 DEF DecodeGraph
    <3>5. kept => Keeps(l, new.T, new.bucket, new.pack, g)
      <4>1. CASE replay
        <5>1. k.g # None
          BY <4>1 DEF Replays
        <5> HIDE DEF k, replay
        <5> QED BY <3>2, <4>1, <5>1
      <4>2. CASE ~replay
        <5>1. kept => new = [T |-> g.T, bucket |-> g.bucket, pack |-> g.pack]
          BY <4>2
        <5> HIDE DEF k, g, replay, new
        <5> QED BY <3>3, <5>1 DEF Keeps
      <4> QED BY <4>1, <4>2
    <3> HIDE DEF g, k, l, replay, new
    <3>6. ASSUME NEW l2 \in Layer, gA'[l2] # None
          PROVE  Keeps(l2, tag[l2].T, tag[l2].bucket, tag[l2].pack, gA[l2])'
      <4>1. CASE l2 = l
        <5>1. kept /\ gA'[l2] = g /\ tag'[l2] = new
          BY <1>0, <3>1, <3>4, <3>6, <4>1 DEF Types
        <5> QED BY <3>4, <3>5, <4>1, <5>1 DEF Keeps, InGraph
      <4>2. CASE l2 # l
        <5>1. gA'[l2] = gA[l2] /\ tag'[l2] = tag[l2]
          BY <1>0, <3>1, <3>4, <4>2 DEF Types
        <5>2. Keeps(l2, tag[l2].T, tag[l2].bucket, tag[l2].pack, gA[l2])
          BY <1>0, <3>6, <5>1 DEF Kept
        <5> QED BY <3>4, <5>1, <5>2 DEF Keeps, InGraph
      <4> QED BY <4>1, <4>2
    <3>7. ASSUME NEW T2 \in Pos, NEW l2 \in Layer, stash'[T2][l2] # None
          PROVE  Keeps(l2, T2, stash[T2][l2].bucket, stash[T2][l2].pack, stash[T2][l2].g)'
      <4>1. Keeps(l2, T2, stash'[T2][l2].bucket, stash'[T2][l2].pack, stash'[T2][l2].g)
        BY <3>2, <3>4, <3>7
      <4> QED BY <3>4, <4>1 DEF Keeps, InGraph
    <3> QED BY <3>6, <3>7 DEF Kept
  <2>2. CASE LoanAny
    <3>1. PICK ls \in SUBSET Layer : ClientLend(ls) \/ PrefillEnter(ls)
      BY <2>2 DEF LoanAny
    <3>2. CASE ClientLend(ls)
      BY <1>0, <3>2, KeptDies DEF ClientLend
    <3>3. CASE PrefillEnter(ls) /\ ls # {}
      BY <1>0, <3>3, KeptDies DEF PrefillEnter
    <3>4. CASE PrefillEnter(ls) /\ ls = {}
      BY <1>0, <3>4, KeptSame DEF PrefillEnter, Lend
    <3> QED BY <3>1, <3>2, <3>3, <3>4
  <2>3. CASE ReturnAny
    <3>1. PICK back \in SUBSET Layer, fill \in Contents :
              PrefillLeave(back, fill) \/ \E ls \in SUBSET Layer : PrefillRefused(ls, back, fill)
      BY <2>3 DEF ReturnAny
    <3>2. CASE PrefillLeave(back, fill) /\ (moved \/ back # {})
      BY <3>2, KeptFreed DEF PrefillLeave
    <3>3. CASE PrefillLeave(back, fill) /\ ~(moved \/ back # {})
      BY <1>0, <3>3, KeptSame DEF PrefillLeave, TakeBack, Types
    <3>4. CASE \E ls \in SUBSET Layer : PrefillRefused(ls, back, fill)
      BY <1>0, <3>4, KeptDies DEF PrefillRefused
    <3> QED BY <3>1, <3>2, <3>3, <3>4
  <2>4. CASE BeginAny
    <3>1. ASSUME NEW T \in Pos, NEW b, NEW verify, NEW back, NEW fill,
                 DecodeBegin(T, b, verify, back, fill)
          PROVE  Kept'
      <4>1. CASE moved \/ back # {}
        BY <3>1, <4>1, KeptFreed DEF DecodeBegin
      <4>2. CASE ~(moved \/ back # {})
        BY <1>0, <3>1, <4>2, KeptSame DEF DecodeBegin, Types
      <4> QED BY <4>1, <4>2
    <3>2. ASSUME NEW T \in Pos, NEW back, NEW fill, CbatchBegin(T, back, fill)
          PROVE  Kept'
      <4>1. CASE moved \/ back # {}
        BY <3>2, <4>1, KeptFreed DEF CbatchBegin
      <4>2. CASE ~(moved \/ back # {})
        BY <1>0, <3>2, <4>2, KeptSame DEF CbatchBegin, TakeBack, Types
      <4> QED BY <4>1, <4>2
    <3>3. ASSUME NEW T \in Pos, StreamBegin(T)
          PROVE  Kept'
      BY <1>0, <3>3, KeptSame DEF StreamBegin, tier
    <3> QED BY <2>4, <3>1, <3>2, <3>3 DEF BeginAny
  <2>5. CASE WarmAny \/ FetchAny
    BY <1>0, <2>5, KeptSame DEF WarmAny, FetchAny, PrefillWarm, Fetch, CbatchChunk
  <2>6. CASE GraphAny
    <3>1. CASE \E sel \in Routes(ev.T) : BatchGraph(sel)
      BY <1>0, <3>1, KeptSame DEF BatchGraph, tier
    <3> QED BY <2>1, <2>6, <3>1 DEF GraphAny
  <2>7. CASE LayerMoe \/ EvalFails \/ CbatchSplit \/ CbatchDone \/ StreamMoe \/ HeadGraph \/ EvalReturns
    BY <1>0, <2>7, KeptSame
       DEF LayerMoe, EvalFails, CbatchSplit, CbatchDone, StreamMoe, HeadGraph, EvalReturns, tier
  <2>8. CASE UNCHANGED vars
    BY <1>0, <2>8, KeptSame DEF vars, tier
  <2> QED BY <2>2, <2>3, <2>4, <2>5, <2>6, <2>7, <2>8 DEF Next
<1> QED BY <1>1, <1>2

\* So the kept graphs are what they say throughout.
LEMMA AlwaysKInv == Spec => []KInv
BY InitKInv, StepKInv, PTL DEF Spec

\* A graph that runs was built for the step's positions and bucket and for memory the tier
\* still has, whichever graphs were parked, taken back or outlived a loan of the tier.
THEOREM ReplayFits == Spec => []GraphFits
<1>1. KInv => GraphFits
  BY DEF KInv
<1> QED BY <1>1, AlwaysKInv, PTL

\* The host computes with the routing the layer chose: it reads it back from the tensor the
\* graph that ran writes, replayed or built, of a decode or of a prompt.
THEOREM ReadsItsRouting == Spec => []RoutingRead
<1>1. KInv => RoutingRead
  BY DEF KInv
<1> QED BY <1>1, AlwaysKInv, PTL

-----------------------------------------------------------------------------
(* The memory of the parked graphs.                                        *)

\* What the parked graphs st take, and the part of those parked for T positions of layer l.
Units(st) == {u \in Pos \X Layer \X Pos :
                 st[u[1]][u[2]] # None /\ u[3] <= GraphBytes(st[u[1]][u[2]].g)}
Column(st, T, l) == {u \in Units(st) : u[1] = T /\ u[2] = l}

ParkedGraphs == [Pos -> [Layer -> Parked \cup {None}]]

\* The memory of one parked graph is counted once, unit by unit.
LEMMA ColumnBytes ==
    ASSUME NEW st \in ParkedGraphs, NEW T \in Pos, NEW l \in Layer
    PROVE  /\ IsFiniteSet(Column(st, T, l))
           /\ Cardinality(Column(st, T, l)) = ParkedBytes(st[T][l])
           /\ ParkedBytes(st[T][l]) \in Nat
<1>1. st[T][l] \in Parked \cup {None}
  BY DEF ParkedGraphs
<1>2. CASE st[T][l] = None
  <2>1. Column(st, T, l) = {} /\ ParkedBytes(st[T][l]) = 0
    BY <1>2 DEF Column, Units, ParkedBytes
  <2> QED BY <2>1, FS_EmptySet
<1>3. CASE st[T][l] # None
  <2> DEFINE n == st[T][l].g.T
             C == Column(st, T, l)
             f == [i \in 1..n |-> <<T, l, i>>]
  <2>1. n \in Pos /\ n \in Nat /\ ParkedBytes(st[T][l]) = n
    BY <1>1, <1>3, LayerFacts DEF Parked, Graph, ParkedBytes, GraphBytes
  <2>2. C = {<<T, l, i>> : i \in 1..n}
    <3>1. ASSUME NEW i \in 1..n PROVE <<T, l, i>> \in C
      BY <1>3, <2>1, LayerFacts DEF Column, Units, GraphBytes
    <3>2. ASSUME NEW u \in C PROVE \E i \in 1..n : u = <<T, l, i>>
      <4>1. u \in Pos \X Layer \X Pos /\ u[1] = T /\ u[2] = l /\ u[3] <= n
        BY DEF Column, Units, GraphBytes
      <4>2. u[3] \in 1..n /\ u = <<T, l, u[3]>>
        BY <2>1, <4>1, LayerFacts
      <4> QED BY <4>2
    <3> HIDE DEF C, n
    <3> QED BY <3>1, <3>2
  <2>3. f \in Bijection(1..n, C)
    <3> HIDE DEF C, n
    <3> QED BY <2>2 DEF Bijection, Injection, Surjection, IsInjective
  <2>4. IsFiniteSet(1..n) /\ Cardinality(1..n) = n
    <3> HIDE DEF n
    <3> QED BY <2>1, FS_Interval
  <2>5. ExistsBijection(1..n, C)
    BY <2>3 DEF ExistsBijection
  <2>6. IsFiniteSet(C) /\ Cardinality(C) = n
    <3> HIDE DEF C, n
    <3> QED BY <2>4, <2>5, FS_Bijection
  <2> QED BY <2>1, <2>6
<1> QED BY <1>2, <1>3

\* The units of the parked graphs are finitely many.
LEMMA UnitsFinite ==
    ASSUME NEW st
    PROVE  IsFiniteSet(Units(st)) /\ Cardinality(Units(st)) \in Nat
<1>1. IsFiniteSet(Pos) /\ IsFiniteSet(Layer)
  BY LayerFacts, FS_Interval
<1>3. IsFiniteSet((Pos \X Layer) \X Pos)
  <2>1. IsFiniteSet(Pos \X Layer)
    BY <1>1, FS_Product
  <2> QED BY <1>1, <2>1, FS_Product
<1> DEFINE g == [v \in (Pos \X Layer) \X Pos |-> <<v[1][1], v[1][2], v[2]>>]
<1>4. g \in Surjection((Pos \X Layer) \X Pos, Pos \X Layer \X Pos)
  <2>1. g \in [(Pos \X Layer) \X Pos -> Pos \X Layer \X Pos]
    OBVIOUS
  <2>2. ASSUME NEW u \in Pos \X Layer \X Pos
        PROVE  \E v \in (Pos \X Layer) \X Pos : g[v] = u
    <3>1. <<<<u[1], u[2]>>, u[3]>> \in (Pos \X Layer) \X Pos
      OBVIOUS
    <3>2. g[<<<<u[1], u[2]>>, u[3]>>] = u
      BY <3>1
    <3> QED BY <3>1, <3>2
  <2> HIDE DEF g
  <2> QED BY <2>1, <2>2 DEF Surjection
<1>5. IsFiniteSet(Pos \X Layer \X Pos)
  <2> HIDE DEF g
  <2> QED BY <1>3, <1>4, FS_Surjection
<1>6. Units(st) \in SUBSET (Pos \X Layer \X Pos)
  BY DEF Units
<1> QED BY <1>5, <1>6, FS_Subset, FS_CardinalityType

\* Parking or taking back one graph changes the count by the memory of the graph that
\* leaves and of the one that comes.
LEMMA StashReplace ==
    ASSUME NEW st \in ParkedGraphs, NEW T \in Pos, NEW l \in Layer, NEW s \in Parked \cup {None}
    PROVE  LET st2 == [st EXCEPT ![T][l] = s]
           IN  /\ st2 \in ParkedGraphs
               /\ Cardinality(Units(st2)) =
                     Cardinality(Units(st)) - ParkedBytes(st[T][l]) + ParkedBytes(s)
               /\ ParkedBytes(st[T][l]) \in Nat /\ ParkedBytes(s) \in Nat
               /\ ParkedBytes(st[T][l]) <= Cardinality(Units(st))
<1> DEFINE st2 == [st EXCEPT ![T][l] = s]
           Rest == Units(st) \ Column(st, T, l)
<1>1. /\ st2 \in ParkedGraphs /\ st2[T][l] = s
      /\ \A T2 \in Pos, l2 \in Layer : ~(T2 = T /\ l2 = l) => st2[T2][l2] = st[T2][l2]
  BY DEF ParkedGraphs
<1> HIDE DEF st2
<1>2. Units(st2) = Rest \cup Column(st2, T, l) /\ Rest \cap Column(st2, T, l) = {}
  <2>1. ASSUME NEW u \in Pos \X Layer \X Pos, ~(u[1] = T /\ u[2] = l)
        PROVE  u \in Units(st2) <=> u \in Units(st)
    <3>1. u[1] \in Pos /\ u[2] \in Layer
      OBVIOUS
    <3>2. st2[u[1]][u[2]] = st[u[1]][u[2]]
      BY <1>1, <2>1, <3>1
    <3> QED BY <3>2 DEF Units
  <2>2. Units(st) \subseteq Pos \X Layer \X Pos /\ Units(st2) \subseteq Pos \X Layer \X Pos
    BY DEF Units
  <2> QED BY <2>1, <2>2 DEF Column
<1>3. Units(st) = Rest \cup Column(st, T, l) /\ Rest \cap Column(st, T, l) = {}
  BY DEF Column
<1>4. IsFiniteSet(Rest) /\ Cardinality(Rest) \in Nat
  <2>1. Rest \in SUBSET Units(st)
    OBVIOUS
  <2> QED BY <2>1, UnitsFinite, FS_Subset, FS_CardinalityType
<1>5. /\ IsFiniteSet(Column(st, T, l)) /\ Cardinality(Column(st, T, l)) = ParkedBytes(st[T][l])
      /\ ParkedBytes(st[T][l]) \in Nat
  BY ColumnBytes
<1>6. /\ IsFiniteSet(Column(st2, T, l)) /\ Cardinality(Column(st2, T, l)) = ParkedBytes(s)
      /\ ParkedBytes(s) \in Nat
  BY <1>1, ColumnBytes
<1> HIDE DEF Rest
<1>7. Cardinality(Units(st2)) = Cardinality(Rest) + ParkedBytes(s)
  BY <1>2, <1>4, <1>6, FS_Union, FS_EmptySet
<1>8. Cardinality(Units(st)) = Cardinality(Rest) + ParkedBytes(st[T][l])
  BY <1>3, <1>4, <1>5, FS_Union, FS_EmptySet
<1>9. /\ st2 \in ParkedGraphs
      /\ Cardinality(Units(st2)) = Cardinality(Units(st)) - ParkedBytes(st[T][l]) + ParkedBytes(s)
      /\ ParkedBytes(st[T][l]) <= Cardinality(Units(st))
  BY <1>1, <1>4, <1>5, <1>6, <1>7, <1>8
<1> QED BY <1>5, <1>6, <1>9 DEF st2

\* A switch of the number of positions counts what it parks and what it takes back.
LEMMA SwitchedBytes ==
    ASSUME Types, StashExact, NEW l \in Layer, NEW T \in Pos
    PROVE  LET k == Switched(l, T)
           IN  k.parked = Cardinality(Units(k.stash)) /\ k.parked <= Budget
<1> DEFINE old == tag[l].T
           keep == gA[l] # None /\ old \in Pos
           p0 == parked - (IF keep THEN ParkedBytes(stash[old][l]) ELSE 0)
           fits == keep /\ p0 + GraphBytes(gA[l]) <= Budget
           rec == [g |-> gA[l], bucket |-> tag[l].bucket, pack |-> tag[l].pack]
           new == IF fits THEN rec ELSE None
           s1 == IF ~keep THEN stash ELSE [stash EXCEPT ![old][l] = new]
           p1 == p0 + (IF fits THEN GraphBytes(gA[l]) ELSE 0)
           back == s1[T][l]
           s2 == [s1 EXCEPT ![T][l] = None]
           k == Switched(l, T)
           Exact(p, s) == p = Cardinality(Units(s)) /\ p <= Budget
<1>0. stash \in ParkedGraphs /\ Budget \in Nat /\ parked \in Nat
  BY UnitsFinite, LayerConstants DEF Types, ParkedGraphs, StashExact, ParkedUnits, Units
<1>1. Exact(parked, stash)
  BY DEF StashExact, ParkedUnits, Units
<1>2. s1 \in ParkedGraphs /\ Exact(p1, s1)
  <2>1. CASE ~keep
    <3>1. s1 = stash /\ p1 = parked
      BY <1>0, <2>1
    <3> HIDE DEF s1, p1
    <3> QED BY <1>0, <1>1, <3>1
  <2>2. CASE keep
    <3>1. new \in Parked \cup {None}
          /\ ParkedBytes(new) = IF fits THEN GraphBytes(gA[l]) ELSE 0
      <4>1. gA[l] \in Graph /\ tag[l] \in Tag
        BY <2>2 DEF Types
      <4>2. rec \in Parked /\ rec # None /\ ParkedBytes(rec) = GraphBytes(gA[l])
        <5>1. rec \in Parked
          BY <4>1 DEF Parked, Tag
        <5>2. rec # None
          BY <5>1, NoneIsNoGraph
        <5> QED BY <5>1, <5>2 DEF ParkedBytes
      <4>3. ParkedBytes(None) = 0
        BY DEF ParkedBytes
      <4> HIDE DEF rec, fits
      <4> QED BY <4>2, <4>3
    <3>2. /\ s1 = [stash EXCEPT ![old][l] = new]
          /\ p0 = parked - ParkedBytes(stash[old][l])
          /\ p1 = p0 + ParkedBytes(new)
      BY <2>2, <3>1
    <3>3. /\ s1 \in ParkedGraphs
          /\ Cardinality(Units(s1)) =
                Cardinality(Units(stash)) - ParkedBytes(stash[old][l]) + ParkedBytes(new)
          /\ ParkedBytes(stash[old][l]) \in Nat /\ ParkedBytes(new) \in Nat
      <4>1. old \in Pos
        BY <2>2
      <4> HIDE DEF new, s1, old
      <4> QED BY <1>0, <3>1, <3>2, <4>1, StashReplace
    <3>4. p1 <= Budget
      <4>1. CASE fits
        <5>1. p0 + GraphBytes(gA[l]) <= Budget
          BY <4>1
        <5>2. p1 = p0 + GraphBytes(gA[l])
          BY <4>1
        <5> QED BY <5>1, <5>2
      <4>2. CASE ~fits
        <5>1. ParkedBytes(new) = 0
          BY <3>1, <4>2
        <5> HIDE DEF p0, p1, new
        <5> QED BY <1>0, <1>1, <3>2, <3>3, <5>1
      <4> QED BY <4>1, <4>2
    <3> HIDE DEF s1, p1, p0, new
    <3> QED BY <1>0, <1>1, <3>2, <3>3, <3>4
  <2> QED BY <2>1, <2>2
<1>3. Exact(p1 - ParkedBytes(back), s2)
  <2> HIDE DEF s1, p1
  <2>1. /\ Cardinality(Units(s2)) = Cardinality(Units(s1)) - ParkedBytes(back) + ParkedBytes(None)
        /\ ParkedBytes(back) \in Nat
    BY <1>2, StashReplace
  <2>2. ParkedBytes(None) = 0 /\ Cardinality(Units(s1)) \in Nat
    BY UnitsFinite DEF ParkedBytes
  <2> HIDE DEF s2, back
  <2> QED BY <1>0, <1>2, <2>1, <2>2
<1>4. \/ k = [g |-> gA[l], tag |-> tag[l], stash |-> stash, parked |-> parked]
      \/ k = [g |-> IF fits THEN None ELSE gA[l], tag |-> tag[l], stash |-> s1, parked |-> p1]
      \/ k = [g |-> back.g, tag |-> [T |-> T, bucket |-> back.bucket, pack |-> back.pack],
              stash |-> s2, parked |-> p1 - ParkedBytes(back)]
  BY SwitchedCases
<1>5. Exact(k.parked, k.stash)
  <2> HIDE DEF s1, s2, p1, back, k, fits
  <2>1. CASE k = [g |-> gA[l], tag |-> tag[l], stash |-> stash, parked |-> parked]
    BY <1>1, <2>1
  <2>2. CASE k = [g |-> IF fits THEN None ELSE gA[l], tag |-> tag[l], stash |-> s1, parked |-> p1]
    BY <1>2, <2>2
  <2>3. CASE k = [g |-> back.g, tag |-> [T |-> T, bucket |-> back.bucket, pack |-> back.pack],
                  stash |-> s2, parked |-> p1 - ParkedBytes(back)]
    BY <1>3, <2>3
  <2> QED BY <1>4, <2>1, <2>2, <2>3
<1> QED BY <1>5

\* Graphs that die take the memory they took; freed ones take none.
LEMMA StashDies ==
    ASSUME Types, StashExact, GraphsDie
    PROVE  StashExact'
<1>1. ASSUME NEW T \in Pos, NEW l \in Layer
      PROVE  /\ stash'[T][l] # None <=> stash[T][l] # None
             /\ stash[T][l] # None => stash'[T][l].g.T = stash[T][l].g.T
  <2>1. stash[T][l] \in Parked \cup {None} /\ stash'[T][l] = DeadStash(stash[T][l])
    BY DEF GraphsDie, Types
  <2>2. CASE stash[T][l] = None
    BY <2>1, <2>2 DEF DeadStash
  <2>3. CASE stash[T][l] # None
    <3>1. stash[T][l] \in Parked /\ stash[T][l].g \in Graph
      BY <2>1, <2>3 DEF Parked
    <3>2. stash'[T][l] = [stash[T][l] EXCEPT !.g = [stash[T][l].g EXCEPT !.live = FALSE]]
      BY <2>1, <2>3, <3>1, NoneIsNoGraph DEF DeadStash, Dead
    <3>3. stash'[T][l] \in Parked
      BY <3>1, <3>2 DEF Parked, Graph
    <3> QED BY <2>3, <3>1, <3>2, <3>3, NoneIsNoGraph DEF Parked, Graph
  <2> QED BY <2>2, <2>3
<1>2. ParkedUnits' = ParkedUnits
  BY <1>1 DEF ParkedUnits, GraphBytes
<1> QED BY <1>2 DEF StashExact, GraphsDie

LEMMA StashFreed ==
    ASSUME GraphsFreed
    PROVE  StashExact'
<1>1. ParkedUnits' = {}
  BY DEF GraphsFreed, ParkedUnits
<1> QED BY <1>1, FS_EmptySet, LayerConstants DEF StashExact, GraphsFreed

SInv == Base /\ StashExact

LEMMA InitSInv == Init => SInv
<1> SUFFICES ASSUME Init PROVE StashExact
  BY InitBase DEF SInv
<1>1. ParkedUnits = {}
  BY DEF Init, ParkedUnits
<1> QED BY <1>1, FS_EmptySet, LayerConstants DEF StashExact, Init

\* Every step keeps the count.
LEMMA StepSInv == SInv /\ [Next]_vars => SInv'
<1> SUFFICES ASSUME SInv, [Next]_vars PROVE StashExact'
  BY StepBase DEF SInv
<1>0. Base /\ Types /\ StashExact
  BY DEF SInv, Base
<1>1. ASSUME UNCHANGED graphs
      PROVE  StashExact'
  BY <1>0, <1>1 DEF graphs, StashExact, ParkedUnits
<1>2. ASSUME NEW sel, NEW kept, NEW ok, DecodeGraph(sel, kept, ok)
      PROVE  StashExact'
  <2>1. ev.il \in Layer /\ ev.T \in Pos
    BY <1>0, <1>2 DEF DecodeGraph, Base, Phase
  <2>2. stash' = Switched(ev.il, ev.T).stash /\ parked' = Switched(ev.il, ev.T).parked
    BY <1>2 DEF DecodeGraph
  <2>3. parked' = Cardinality(Units(stash')) /\ parked' <= Budget
    BY <1>0, <2>1, <2>2, SwitchedBytes
  <2> QED BY <2>3 DEF StashExact, ParkedUnits, Units
<1>3. CASE LoanAny
  BY <1>0, <1>1, <1>3, StashDies DEF LoanAny, ClientLend, PrefillEnter
<1>4. CASE ReturnAny
  BY <1>0, <1>1, <1>4, StashDies, StashFreed DEF ReturnAny, PrefillLeave, PrefillRefused
<1>5. CASE BeginAny
  BY <1>1, <1>5, StashFreed DEF BeginAny, DecodeBegin, CbatchBegin, StreamBegin
<1>6. CASE GraphAny
  BY <1>1, <1>2, <1>6 DEF GraphAny, BatchGraph
<1>7. CASE WarmAny \/ FetchAny
  BY <1>1, <1>7 DEF WarmAny, FetchAny, PrefillWarm, Fetch, CbatchChunk
<1>8. CASE LayerMoe \/ EvalFails \/ CbatchSplit \/ CbatchDone \/ StreamMoe \/ HeadGraph \/ EvalReturns
  BY <1>1, <1>8
     DEF LayerMoe, EvalFails, CbatchSplit, CbatchDone, StreamMoe, HeadGraph, EvalReturns
<1>9. CASE UNCHANGED vars
  BY <1>1, <1>9 DEF vars
<1> QED BY <1>3, <1>4, <1>5, <1>6, <1>7, <1>8, <1>9 DEF Next

\* The parked graphs' memory is counted exactly and never exceeds the budget, however they
\* replace each other, are taken back, die and are freed.
THEOREM StashCounted == Spec => []StashExact
<1>1. SInv => StashExact
  BY DEF SInv
<1> QED BY <1>1, InitSInv, StepSInv, PTL DEF Spec

-----------------------------------------------------------------------------
(* Around the layers: the tier, its tables and what is known to be zero.   *)

\* A lent layer has no tier left to find an expert in.
LentEmpty == \A l \in lent : vram[l] = EmptyTier

\* The table a decode's graph reads is the tier's, if the layer has one.
TableUp == ev.kind = "decode" /\ ev.pc = "graph" /\ ev.il \in vnew => ev.il \in lent

\* The rows of the late fold and of the CPU's partial that are taken for zero are.
Zeros ==
    ev.kind = "decode" => /\ \A p \in Pos : p <= ev.lateZero => late[p] = {}
                          /\ \A t \in pc : t.p > ev.pcZero

\* Only an engine that skips experts scales.
Scales == ~cfg.skip => scale = {} /\ ev.skipped = {}

Around == LentEmpty /\ TableUp /\ Zeros /\ Scales

\* Promotions leave a lent layer's tier as it was.
LEMMA PromotesLent ==
    ASSUME Types, LentEmpty, NEW l, NEW want, NEW put \in [GSlot -> Expert \cup {None}],
           Promotes(l, want, put), lent' = lent, cfg' = cfg
    PROVE  LentEmpty'
<1> DEFINE row == [g \in GSlot |-> IF put[g] # None THEN put[g] ELSE vram[l][g]]
<1>1. /\ vram' = [vram EXCEPT ![l] = row]
      /\ l \in lent => New(put) = {}
  BY DEF Promotes
<1>2. ASSUME NEW m \in lent PROVE vram'[m] = vram[m]
  <2>1. m \in Layer /\ vram[m] \in [GSlot -> Expert \cup {None}]
    BY DEF Types
  <2>2. CASE m # l
    BY <1>1, <2>2 DEF Types
  <2>3. CASE m = l
    <3>1. \A g \in GSlot : put[g] = None
      BY <1>1, <2>3 DEF New
    <3>2. row = [g \in GSlot |-> vram[m][g]]
      BY <2>3, <3>1
    <3>3. row = vram[m]
      BY <2>1, <3>2
    <3> HIDE DEF row
    <3> QED BY <1>1, <2>1, <2>3, <3>3 DEF Types
  <2> QED BY <2>2, <2>3
<1> QED BY <1>2 DEF LentEmpty, EmptyTier, GSlot

\* What a layer's end uploads or leaves is zero as far as it is known to be.
LEMMA MoeZeros ==
    ASSUME Base, Zeros, LayerMoe
    PROVE  Zeros'
<1> DEFINE cpu == ev.cpu \ ev.skipped
<1>1. /\ ev.T \in 0..MaxT /\ ev.lateZero \in 0..MaxT /\ ev.pcZero \in 0..MaxT /\ ev.kind = "decode"
      /\ ev \in Evaluations /\ pc \subseteq Terms /\ MaxT \in Nat /\ Pos = 1..MaxT
      /\ ev.pc = "moe" /\ ev.T \in Pos /\ ev.got \in Routings
  BY LayerFacts DEF LayerMoe, Base, Types, Phase, Evaluations
<1>2. /\ late' = Launch /\ pc' = CpuPart(cpu)
      /\ ev'.lateZero = LateZero /\ ev'.pcZero = PcZero(cpu)
  BY <1>1 DEF LayerMoe, Evaluations
<1>3. ASSUME NEW p \in Pos, p <= LateZero
      PROVE  Launch[p] = {}
  <2>1. CASE ~InGraph(ev.il) \/ LateKnown
    BY <1>1, <1>3, <2>1 DEF Launch, LateZero, Zeros
  <2>2. CASE ~(~InGraph(ev.il) \/ LateKnown)
    <3>1. Launch[p] = IF p <= ev.T THEN {SlotOf(ev.il, e) : e \in ev.promoted \cap ev.got[p]}
                                   ELSE late[p]
      BY <2>2 DEF Launch
    <3>2. ev.promoted = {} /\ (p <= ev.T \/ p <= ev.lateZero)
      <4>1. CASE ev.promoted = {}
        <5>1. LateZero = Max({ev.lateZero, ev.T})
          BY <2>2, <4>1 DEF LateZero
        <5>2. Max({ev.lateZero, ev.T}) = IF ev.lateZero >= ev.T THEN ev.lateZero ELSE ev.T
          BY <1>1, MaxOfTwo
        <5> QED BY <1>1, <1>3, <4>1, <5>1, <5>2
      <4>2. CASE ev.promoted # {}
        BY <1>1, <1>3, <2>2, <4>2 DEF LateZero
      <4> QED BY <4>1, <4>2
    <3> QED BY <1>1, <3>1, <3>2 DEF Zeros
  <2> QED BY <2>1, <2>2
<1>4. ASSUME NEW t \in CpuPart(cpu)
      PROVE  t.p > PcZero(cpu)
  <2>1. CASE cpu # {}
    <3>1. PcZero(cpu) = 0
      BY <2>1 DEF PcZero
    <3>2. t.p \in Pos
      <4>1. CASE t \in pc
        BY <1>1, <4>1 DEF Terms
      <4>2. CASE t \in Routed(ev.il, ev.got)
        BY <1>1, <4>2, RoutedFacts
      <4> QED BY <1>4, <4>1, <4>2 DEF CpuPart
    <3> QED BY <1>1, <3>1, <3>2
  <2>2. CASE cpu = {}
    <3>1. PcZero(cpu) = IF ev.pcZero >= ev.T THEN ev.pcZero ELSE ev.T
      BY <1>1, <2>2, MaxOfTwo DEF PcZero
    <3>2. t \in pc /\ t.p \in Pos /\ (PcKnown(cpu) \/ t.p > ev.T)
      BY <1>1, <1>4, <2>2 DEF CpuPart, Terms
    <3>3. t.p > ev.pcZero
      BY <1>1, <3>2 DEF Zeros
    <3>4. PcKnown(cpu) => ev.pcZero >= ev.T
      BY DEF PcKnown
    <3> HIDE DEF cpu
    <3> QED BY <1>1, <3>1, <3>2, <3>3, <3>4
  <2> QED BY <2>1, <2>2
<1> QED BY <1>2, <1>3, <1>4 DEF Zeros

\* An evaluation that is over takes nothing for zero.
LEMMA EndedAround ==
    ASSUME Ended, Scales, scale' = scale, cfg' = cfg
    PROVE  TableUp' /\ Zeros' /\ Scales'
<1>1. ev' = Idle /\ pc' = Foreign
  BY DEF Ended
<1>2. \A t \in Foreign : t.p > 0
  BY LayerFacts DEF Foreign, Term
<1>3. \A p \in Pos : ~(p <= 0)
  BY LayerFacts
<1> QED BY <1>1, <1>2, <1>3 DEF TableUp, Zeros, Scales, Idle

\* A run leaves the late rows and the CPU's partial alone.
LEMMA RunAround ==
    ASSUME Base, Around, NEW g, NEW l, NEW sel, NEW packed, Run(g, l, sel, packed), cfg' = cfg
    PROVE  TableUp' /\ Zeros' /\ Scales'
<1>1. /\ ev' = [ev EXCEPT !.pc = "fetch", !.sel = sel, !.skipped = {},
                          !.got = IF packed = g.pack THEN sel ELSE <<>>]
      /\ pc' = pc /\ late' = late /\ scale' = scale /\ ev \in Evaluations
  BY DEF Run, Base, Types
<1>2. /\ ev'.pc = "fetch" /\ ev'.kind = ev.kind /\ ev'.lateZero = ev.lateZero
      /\ ev'.pcZero = ev.pcZero /\ ev'.skipped = {}
  BY <1>1 DEF Evaluations
<1> QED BY <1>1, <1>2 DEF TableUp, Zeros, Scales, Around

LEMMA InitAround == Init => Around
<1> SUFFICES ASSUME Init PROVE Around
  OBVIOUS
<1>1. \A t \in pc : t.p > ev.pcZero
  BY LayerFacts DEF Init, Idle, Foreign, Term
<1>2. \A p \in Pos : ~(p <= ev.lateZero)
  BY LayerFacts DEF Init, Idle
<1> QED BY <1>1, <1>2 DEF Init, Around, LentEmpty, TableUp, Zeros, Scales, Idle

\* Every step keeps them.
LEMMA StepAround == KInv /\ Around /\ [Next]_vars => Around'
<1> SUFFICES ASSUME KInv, Around, [Next]_vars PROVE Around'
  OBVIOUS
<1>0. /\ Base /\ Types /\ Phase /\ cfg' = cfg /\ ev \in Evaluations /\ GSlot' = GSlot
      /\ LentEmpty /\ TableUp /\ Zeros /\ Scales
      /\ vram \in [Layer -> [GSlot -> Expert \cup {None}]] /\ lent \subseteq Layer
  BY StepCfg DEF KInv, Base, Types, Around
<1>a. ASSUME vram' = vram, lent' = lent PROVE LentEmpty'
  BY <1>0, <1>a DEF LentEmpty, EmptyTier
<1>b. ASSUME ev.pc = "idle", ev' = ev, late' = late, pc' = pc, scale' = scale
      PROVE  TableUp' /\ Zeros' /\ Scales'
  BY <1>0, <1>b DEF TableUp, Zeros, Scales
<1>c. ASSUME NEW back, NEW fill, lent' = lent \ back,
             vram' = [l \in Layer |-> IF l \in back THEN fill ELSE vram[l]]
      PROVE  LentEmpty'
  BY <1>0, <1>c DEF LentEmpty, EmptyTier
<1>d. ASSUME NEW kind, NEW T, NEW b, ev' = Start(kind, T, b), late' = late, pc' = pc, scale' = scale
      PROVE  Zeros' /\ Scales'
  <2>1. ev'.lateZero = 0 /\ ev'.pcZero = 0 /\ ev'.skipped = {}
    BY <1>d DEF Start, Idle
  <2>2. \A t \in pc : t.p > 0
    BY <1>0, LayerFacts DEF Types, Terms
  <2>3. \A p \in Pos : ~(p <= 0)
    BY LayerFacts
  <2> QED BY <1>0, <1>d, <2>1, <2>2, <2>3 DEF Zeros, Scales
<1>1. CASE LoanAny
  <2>1. PICK ls \in SUBSET Layer : ClientLend(ls) \/ PrefillEnter(ls)
    BY <1>1 DEF LoanAny
  <2>2. Lend(ls) /\ ev.pc = "idle" /\ ev' = ev /\ late' = late /\ pc' = pc /\ scale' = scale
    BY <2>1 DEF ClientLend, PrefillEnter, tensors
  <2>3. LentEmpty'
    BY <1>0, <2>2 DEF Lend, LentEmpty, EmptyTier
  <2> QED BY <1>b, <2>2, <2>3 DEF Around
<1>2. CASE ReturnAny
  <2>1. PICK back \in SUBSET Layer, fill \in Contents :
            PrefillLeave(back, fill) \/ \E ls \in SUBSET Layer : PrefillRefused(ls, back, fill)
    BY <1>2 DEF ReturnAny
  <2>2. ev.pc = "idle" /\ ev' = ev /\ late' = late /\ pc' = pc /\ scale' = scale
    BY <2>1 DEF PrefillLeave, PrefillRefused, tensors
  <2>3. LentEmpty'
    <3>1. CASE PrefillLeave(back, fill)
      BY <1>c, <3>1 DEF PrefillLeave, TakeBack
    <3>2. ASSUME NEW ls \in SUBSET Layer, PrefillRefused(ls, back, fill)
          PROVE  LentEmpty'
      BY <1>0, <3>2 DEF PrefillRefused, LentEmpty, EmptyTier
    <3> QED BY <2>1, <3>1, <3>2
  <2> QED BY <1>b, <2>2, <2>3 DEF Around
<1>3. CASE WarmAny
  <2>1. PICK l \in Layer, g \in GSlot, e \in Expert : PrefillWarm(l, g, e)
    BY <1>3 DEF WarmAny
  <2>2. ev.pc = "idle" /\ ev' = ev /\ late' = late /\ pc' = pc /\ scale' = scale
    BY <2>1 DEF PrefillWarm, tensors
  <2>3. LentEmpty'
    BY <1>0, <2>1 DEF PrefillWarm, LentEmpty, EmptyTier
  <2> QED BY <1>b, <2>2, <2>3 DEF Around
<1>4. CASE BeginAny
  <2>1. ASSUME NEW T \in Pos, NEW b \in cfg.buckets, NEW verify \in BOOLEAN,
               NEW back \in SUBSET lent, NEW fill \in Contents, DecodeBegin(T, b, verify, back, fill)
        PROVE  Around'
    <3>1. LentEmpty'
      BY <1>c, <2>1 DEF DecodeBegin
    <3>2. Zeros' /\ Scales'
      BY <1>d, <2>1 DEF DecodeBegin, tensors
    <3>3. TableUp'
      <4>1. ev'.il = 0
        BY <2>1 DEF DecodeBegin, Start, Idle
      <4>2. vnew' = Uploaded(vnew \cup back, lent', 0)
        BY <2>1 DEF DecodeBegin
      <4> QED BY <4>1, <4>2 DEF TableUp, Uploaded
    <3> QED BY <3>1, <3>2, <3>3 DEF Around
  <2>2. ASSUME NEW T \in Pos, NEW back \in SUBSET lent, NEW fill \in Contents,
               CbatchBegin(T, back, fill)
        PROVE  Around'
    <3>1. LentEmpty'
      BY <1>c, <2>2 DEF CbatchBegin, TakeBack
    <3>2. Zeros' /\ Scales'
      BY <1>d, <2>2 DEF CbatchBegin, tensors
    <3>3. TableUp'
      BY <2>2 DEF CbatchBegin, Start, Idle, TableUp
    <3> QED BY <3>1, <3>2, <3>3 DEF Around
  <2>3. ASSUME NEW T \in Pos, StreamBegin(T)
        PROVE  Around'
    <3>1. LentEmpty'
      BY <1>a, <2>3 DEF StreamBegin, tier
    <3>2. Zeros' /\ Scales'
      BY <1>d, <2>3 DEF StreamBegin, tensors
    <3>3. TableUp'
      BY <2>3 DEF StreamBegin, Start, Idle, TableUp
    <3> QED BY <3>1, <3>2, <3>3 DEF Around
  <2> QED BY <1>4, <2>1, <2>2, <2>3 DEF BeginAny
<1>5. CASE GraphAny
  <2>1. ASSUME NEW sel \in Routes(ev.T), BatchGraph(sel) PROVE Around'
    BY <1>0, <1>a, <2>1, RunAround DEF BatchGraph, tier, Around
  <2>2. ASSUME NEW sel \in Routes(ev.T), NEW kept \in BOOLEAN, NEW ok \in BOOLEAN,
               DecodeGraph(sel, kept, ok)
        PROVE  Around'
    <3>1. LentEmpty'
      BY <1>a, <2>2 DEF DecodeGraph
    <3>2. CASE ok
      <4>1. Run(IF Replays(Switched(ev.il, ev.T), ev.il, ev.T) THEN Switched(ev.il, ev.T).g
                ELSE Built(ev.il), ev.il, sel,
                (IF Replays(Switched(ev.il, ev.T), ev.il, ev.T) THEN Switched(ev.il, ev.T).g
                ELSE Built(ev.il)).pack)
        BY <2>2, <3>2, DecodeRuns DEF KInv
      <4> QED BY <1>0, <3>1, <4>1, RunAround DEF Around
    <3>3. CASE ~ok
      BY <1>0, <2>2, <3>1, <3>3, EndedAround DEF DecodeGraph, Around
    <3> QED BY <3>2, <3>3
  <2> QED BY <1>5, <2>1, <2>2 DEF GraphAny
<1>6. ASSUME NEW put \in [GSlot -> Expert \cup {None}], NEW miss \in SUBSET Expert, Fetch(put, miss)
      PROVE  Around'
  <2>1. LentEmpty'
    BY <1>0, <1>6, PromotesLent DEF Fetch
  <2>2. /\ ev'.pc = "moe" /\ ev'.lateZero = ev.lateZero /\ ev'.pcZero = ev.pcZero
        /\ ev'.kind = ev.kind /\ ev'.skipped = miss /\ late' = late /\ pc' = pc /\ scale' = scale
        /\ ~cfg.skip => miss = {}
    BY <1>0, <1>6 DEF Fetch, tensors, Evaluations
  <2> QED BY <1>0, <2>1, <2>2 DEF Around, TableUp, Zeros, Scales
<1>7. ASSUME NEW put \in [GSlot -> Expert \cup {None}], NEW chunk \in SUBSET ev.rest,
             CbatchChunk(chunk, put)
      PROVE  Around'
  <2>1. LentEmpty'
    BY <1>0, <1>7, PromotesLent DEF CbatchChunk
  <2>2. /\ ev'.pc = ev.pc /\ ev.pc = "chunk" /\ ev'.lateZero = ev.lateZero /\ ev'.pcZero = ev.pcZero
        /\ ev'.kind = ev.kind /\ ev'.skipped = ev.skipped /\ late' = late /\ pc' = pc /\ scale' = scale
    BY <1>0, <1>7 DEF CbatchChunk, Evaluations
  <2> QED BY <1>0, <2>1, <2>2 DEF Around, TableUp, Zeros, Scales
<1>8. CASE LayerMoe
  <2>1. LentEmpty'
    BY <1>a, <1>8 DEF LayerMoe
  <2>2. Zeros'
    BY <1>0, <1>8, MoeZeros
  <2>3. TableUp'
    <3>1. ev'.il = ev.il + 1 /\ vnew' = Uploaded(vnew, lent, ev.il + 1) /\ lent' = lent
      BY <1>0, <1>8 DEF LayerMoe, Evaluations
    <3> QED BY <3>1 DEF TableUp, Uploaded
  <2>4. Scales'
    BY <1>0, <1>8 DEF LayerMoe, Scales, Evaluations
  <2> QED BY <2>1, <2>2, <2>3, <2>4 DEF Around
<1>9. CASE EvalFails \/ EvalReturns
  BY <1>0, <1>9, <1>a, EndedAround DEF EvalFails, EvalReturns, Around
<1>10. CASE CbatchSplit
  BY <1>0, <1>10, <1>a DEF CbatchSplit, tier, Around, TableUp, Zeros, Scales, Evaluations
<1>11. CASE CbatchDone \/ StreamMoe
  <2>1. LentEmpty'
    BY <1>11, <1>a DEF CbatchDone, StreamMoe, tier
  <2>2. ev'.kind = ev.kind /\ ev.kind # "decode" /\ ev'.skipped = ev.skipped /\ scale' = scale
    BY <1>0, <1>11 DEF CbatchDone, StreamMoe, Phase, Evaluations
  <2> QED BY <1>0, <2>1, <2>2 DEF Around, TableUp, Zeros, Scales
<1>12. CASE HeadGraph
  BY <1>0, <1>12, <1>a DEF HeadGraph, tier, tensors, Around, TableUp, Zeros, Scales, Evaluations
<1>13. CASE UNCHANGED vars
  BY <1>0, <1>13, <1>a DEF vars, tier, tensors, Around, TableUp, Zeros, Scales
<1> QED
  BY <1>1, <1>2, <1>3, <1>4, <1>5, <1>6, <1>7, <1>8, <1>9, <1>10, <1>11, <1>12, <1>13
     DEF Next, FetchAny

-----------------------------------------------------------------------------
(* The experts of a layer, stage by stage.                                 *)

\* A fold takes each routed expert from one of its three sources.
Once(s) ==
    /\ s.pg \cup s.late \cup s.pc = s.want
    /\ \A S \in {s.pg \cap s.late, s.pg \cap s.pc, s.late \cap s.pc} : S = {}

\* What the next graph, or the head, will fold.
Pending == Folds(ev.kind = "decode" /\ InGraph(ev.il - 1), ev.il - 1)

AtGraph ==
    (ev.pc = "graph" /\ ev.il > 0) \/ ev.pc = "head" =>
        Once(Pending) /\ (ev.kind = "decode" => scale = ev.skipped)

\* The graph computed the experts in the layer's tier.
AtFetch ==
    ev.pc = "fetch" =>
        /\ ev.skipped = {} /\ DOMAIN ev.sel = 1..ev.T
        /\ ev.kind = "decode" /\ InGraph(ev.il) =>
              Upto(pg, ev.T) = {t \in Routed(ev.il, ev.sel) :
                                   \E g \in GSlot : vram[ev.il][g] = t.e}

\* Of the others some are promoted by now, into slots of the tier, and the CPU has the rest.
AtMoe ==
    ev.pc = "moe" =>
        /\ DOMAIN ev.sel = 1..ev.T
        /\ ev.promoted \cap ev.cpu = {} /\ ev.skipped \subseteq ev.cpu
        /\ Cardinality(ev.promoted) <= LateRows(ev.T)
        /\ \A e \in ev.promoted : \E g \in GSlot : vram[ev.il][g] = e
        /\ InGraph(ev.il) => Upto(pg, ev.T) = {t \in Routed(ev.il, ev.sel) :
                                                  t.e \notin ev.promoted \cup ev.cpu}
        /\ ~InGraph(ev.il) => ev.promoted = {} /\ ev.cpu = Union(ev.sel)

\* The chunks so far are computed.
AtChunk ==
    ev.pc = "chunk" =>
        /\ ev.skipped = {} /\ DOMAIN ev.sel = 1..ev.T
        /\ Upto(pg, ev.T) = {t \in Routed(ev.il, ev.sel) : t.e \notin ev.rest}

\* What the last graph folded.
Summed == Once(sum) /\ (ev.kind = "decode" => sum.scale = sum.skipped)

Stages == AtGraph /\ AtFetch /\ AtMoe /\ AtChunk /\ Summed

\* Of what a stage writes over the step's positions, a later read of them sees just that.
LEMMA UptoWritten ==
    ASSUME NEW S \in SUBSET Terms, NEW T \in Pos, NEW X, \A t \in X : t.p \in 1..T
    PROVE  Upto({t \in S : t.p > T} \cup X, T) = X
<1>1. \A t \in S : t.p \in Int
  BY LayerFacts DEF Terms
<1>2. T \in Int
  BY LayerFacts
<1>3. \A t \in X : t.p <= T
  BY <1>2
<1> QED BY <1>1, <1>2, <1>3 DEF Upto

\* Of what a stage drops it sees nothing.
LEMMA UptoErased ==
    ASSUME NEW S \in SUBSET Terms, NEW T \in Pos
    PROVE  Upto({t \in S : t.p > T}, T) = {}
<1>1. T \in Int /\ \A t \in S : t.p \in Int
  BY LayerFacts DEF Terms
<1> QED BY <1>1 DEF Upto

\* Nothing to fold is folded once.
LEMMA NoSumOnce == Once(NoSum) /\ NoSum.scale = NoSum.skipped
BY DEF Once, NoSum

\* Three sources that part the routed experts among them hold each of them once.
LEMMA OnceParts ==
    ASSUME NEW R, NEW P, NEW L, NEW C, NEW K,
           \A t \in R : t.e \in P \cup L \cup C <=> t.e \notin K,
           P \cap L = {}, P \cap C = {}, L \cap C = {}
    PROVE  /\ {t \in R : t.e \in P} \cup {t \in R : t.e \in L} \cup {t \in R : t.e \in C}
                 = {t \in R : t.e \notin K}
           /\ {t \in R : t.e \in P} \cap {t \in R : t.e \in L} = {}
           /\ {t \in R : t.e \in P} \cap {t \in R : t.e \in C} = {}
           /\ {t \in R : t.e \in L} \cap {t \in R : t.e \in C} = {}
OBVIOUS

\* The run of a layer's graph folds what was pending and computes the tier's experts.
LEMMA RunStages ==
    ASSUME KInv, Around, Stages, NEW g \in Graph, NEW sel \in Routes(ev.T), ev.pc = "graph",
           Run(g, ev.il, sel, g.pack), g.T = ev.T, g.live, cfg' = cfg, vram' = vram, lent' = lent,
           g.fold <=> ev.kind = "decode" /\ ev.il > 0 /\ InGraph(ev.il - 1),
           ev.kind = "decode" => (g.moe <=> InGraph(ev.il))
    PROVE  Stages'
<1> DEFINE l == ev.il
<1>0. /\ ev \in Evaluations /\ ev.T \in Pos /\ l \in Layer /\ pg \in SUBSET Terms
      /\ sel \in Routings /\ DOMAIN sel = 1..ev.T /\ GSlot' = GSlot
  BY RoutesAreRoutings DEF KInv, Base, Types, Phase, GSlot
<1>1. /\ ev'.pc = "fetch" /\ ev'.sel = sel /\ ev'.skipped = {} /\ ev'.T = ev.T /\ ev'.il = l
      /\ ev'.kind = ev.kind
  BY <1>0 DEF Run, Evaluations
<1>2. ASSUME ev.kind = "decode", InGraph(l)
      PROVE  Upto(pg', ev.T) = {t \in Routed(l, sel) : \E s \in GSlot : vram[l][s] = t.e}
  <2> DEFINE X == {t \in Routed(l, sel) : \E s \in GSlot : vram[l][s] = t.e}
  <2>1. l \notin vnew
    BY <1>2 DEF Around, TableUp, InGraph
  <2>2. \A t \in Routed(l, sel) : t.p \in 1..ev.T
    BY <1>0, RoutedFacts
  <2>3. InGraphTerms(g, l, sel) = X
    BY <1>0, <2>1, <2>2 DEF InGraphTerms
  <2>4. pg' = {t \in pg : t.p > ev.T} \cup X
    BY <1>2, <2>3 DEF Run
  <2>5. \A t \in X : t.p \in 1..ev.T
    BY <2>2
  <2> HIDE DEF X
  <2>6. Upto(pg', ev.T) = X
    BY <1>0, <2>4, <2>5, UptoWritten
  <2> QED BY <2>6 DEF X
<1>3. AtFetch'
  BY <1>0, <1>1, <1>2 DEF AtFetch, InGraph
<1>4. Summed'
  <2>1. CASE l = 0
    <3>1. sum' = NoSum
      BY <2>1 DEF Run
    <3> QED BY <3>1, NoSumOnce DEF Summed
  <2>2. CASE l # 0
    <3>1. l > 0
      BY <1>0, <2>2, LayerFacts
    <3>2. sum' = Folds(g.fold, l - 1)
      BY <2>2 DEF Run
    <3>3. LateTerms(g.fold, l - 1) = LateTerms(ev.kind = "decode" /\ InGraph(l - 1), l - 1)
      <4>1. g.fold <=> ev.kind = "decode" /\ InGraph(l - 1)
        BY <3>1
      <4> QED BY <4>1 DEF LateTerms
    <3>4. sum' = Pending
      BY <3>2, <3>3 DEF Pending, Folds
    <3>5. Once(Pending) /\ (ev.kind = "decode" => scale = ev.skipped)
      BY <3>1 DEF Stages, AtGraph
    <3>6. Pending.scale = scale /\ Pending.skipped = ev.skipped
      BY DEF Pending, Folds
    <3> QED BY <1>1, <3>4, <3>5, <3>6 DEF Summed, Once
  <2> QED BY <2>1, <2>2
<1> QED BY <1>1, <1>3, <1>4 DEF Stages, AtGraph, AtMoe, AtChunk

\* fetch_begin() shares the experts that are not in the tier between it and the CPU.
LEMMA FetchStages ==
    ASSUME KInv, Around, Stages, NEW put \in [GSlot -> Expert \cup {None}],
           NEW miss \in SUBSET Expert, Fetch(put, miss), cfg' = cfg
    PROVE  Stages'
<1> DEFINE l == ev.il
           want == Union(ev.got)
           cpu == (want \ Held(l, want)) \ New(put)
           R == Routed(l, ev.sel)
<1>0. /\ ev \in Evaluations /\ ev.T \in Pos /\ l \in Layer /\ ev.pc = "fetch" /\ ev.kind = "decode"
      /\ ev.got = ev.sel /\ ev.sel \in Routings /\ DOMAIN ev.sel = 1..ev.T /\ GSlot' = GSlot
      /\ vram \in [Layer -> [GSlot -> Expert \cup {None}]]
  BY DEF Fetch, KInv, Base, Types, Phase, GSlot, RoutingRead, Stages, AtFetch, Evaluations
<1>1. /\ ev' = [ev EXCEPT !.pc = "moe", !.promoted = New(put), !.cpu = cpu, !.skipped = miss]
      /\ Promotes(l, want, put) /\ miss \subseteq cpu
      /\ pg' = pg /\ lent' = lent /\ sum' = NoSum
  BY DEF Fetch, tensors
<1>2. /\ ev'.pc = "moe" /\ ev'.promoted = New(put) /\ ev'.cpu = cpu /\ ev'.skipped = miss
      /\ ev'.sel = ev.sel /\ ev'.T = ev.T /\ ev'.il = l /\ ev'.kind = "decode"
  <2> HIDE DEF cpu
  <2> QED BY <1>0, <1>1 DEF Evaluations
<1>3. /\ New(put) \subseteq want \ Held(l, want) /\ Cardinality(New(put)) <= cap
      /\ l \in lent => New(put) = {}
      /\ vram' = [vram EXCEPT ![l] = [g \in GSlot |-> IF put[g] # None THEN put[g] ELSE vram[l][g]]]
  BY <1>1 DEF Promotes
<1>4. Cardinality(New(put)) <= LateRows(ev.T)'
  <2>1. cap = Promote * ev.T
    BY <1>0 DEF KInv, Base, Phase
  <2>2. LateRows(ev.T)' = LateRows(ev.T)
    BY <1>2 DEF LateRows
  <2>3. Promote * ev.T <= MaxT * Promote
    <3>1. ev.T \in Nat /\ MaxT \in Nat /\ Promote \in Nat /\ ev.T <= MaxT
      BY <1>0, LayerFacts, LayerConstants
    <3>2. \A a, b, c \in Nat : a <= b => c * a <= b * c
      OBVIOUS
    <3> QED BY <3>1, <3>2
  <2>4. cap <= LateRows(ev.T)
    <3>1. cap \in Nat /\ MaxT * Promote \in Nat
      BY <1>0, <2>1, LayerFacts, LayerConstants
    <3> QED BY <2>1, <2>3, <3>1 DEF LateRows
  <2>5. Cardinality(New(put)) \in Nat
    <3>1. cfg \in Settings
      BY DEF KInv, Base, Types
    <3>2. IsFiniteSet(Expert) /\ New(put) \in SUBSET Expert
      BY <3>1, LayerConstants DEF Expert, New
    <3> QED BY <3>2, FS_Subset, FS_CardinalityType
  <2>6. cap \in Int /\ LateRows(ev.T) \in Int
    BY <1>0, <2>1, LayerFacts, LayerConstants DEF LateRows
  <2> QED BY <1>3, <2>2, <2>4, <2>5, <2>6
<1>5. \A e \in New(put) : \E g \in GSlot : vram'[l][g] = e
  <2>1. ASSUME NEW e \in New(put) PROVE \E g \in GSlot : vram'[l][g] = e
    <3>1. PICK g \in GSlot : put[g] = e /\ e # None
      BY DEF New
    <3>2. vram'[l][g] = put[g]
      BY <1>0, <1>3, <3>1
    <3> QED BY <3>1, <3>2
  <2> QED BY <2>1
<1>6. want \subseteq Expert /\ \A t \in R : t.e \in want
  BY <1>0, RoutedFacts
<1>7. InGraph(l) => Upto(pg, ev.T) = {t \in R : t.e \notin New(put) \cup cpu}
  <2> SUFFICES ASSUME InGraph(l)
               PROVE  Upto(pg, ev.T) = {t \in R : t.e \notin New(put) \cup cpu}
    OBVIOUS
  <2>1. Upto(pg, ev.T) = {t \in R : \E g \in GSlot : vram[l][g] = t.e}
    BY <1>0 DEF Stages, AtFetch
  <2>2. \A t \in R : (\E g \in GSlot : vram[l][g] = t.e) <=> t.e \in Held(l, want)
    BY <1>6 DEF Held
  <2>3. \A e \in want : e \in Held(l, want) <=> e \notin New(put) \cup cpu
    BY <1>3
  <2> HIDE DEF cpu, R, want
  <2> QED BY <1>6, <2>1, <2>2, <2>3
<1>8. ~InGraph(l) => New(put) = {} /\ cpu = Union(ev.sel)
  <2> SUFFICES ASSUME ~InGraph(l) PROVE New(put) = {} /\ cpu = Union(ev.sel)
    OBVIOUS
  <2>1. l \in lent /\ vram[l] = EmptyTier
    BY DEF InGraph, Around, LentEmpty
  <2>2. Held(l, want) = {}
    <3>1. cfg \in Settings
      BY DEF KInv, Base, Types
    <3>2. None \notin Expert
      BY <3>1, LayerConstants DEF Expert
    <3> QED BY <1>6, <2>1, <3>2 DEF Held, EmptyTier
  <2> QED BY <1>0, <1>3, <2>1, <2>2
<1>9. AtMoe'
  <2>1. New(put) \cap cpu = {}
    OBVIOUS
  <2> HIDE DEF cpu, R, want
  <2> QED BY <1>0, <1>1, <1>2, <1>4, <1>5, <1>7, <1>8, <2>1 DEF AtMoe, InGraph, R
<1> QED BY <1>1, <1>2, <1>9, NoSumOnce DEF Stages, AtGraph, AtFetch, AtChunk, Summed

\* The end of a decode's layer leaves each of its experts in one of the three places the next
\* graph folds from, but for the skipped ones.
LEMMA MoeStages ==
    ASSUME KInv, Around, Stages, LayerMoe, cfg' = cfg
    PROVE  Stages'
<1> DEFINE l == ev.il
           T == ev.T
           R == Routed(l, ev.sel)
           cpu == ev.cpu \ ev.skipped
           Late == IF InGraph(l)
                   THEN UNION {{Term(l, p, IF g = None THEN None ELSE vram[l][g]) :
                                   g \in Launch[p]} : p \in 1..T}
                   ELSE {}
<1>0. /\ ev \in Evaluations /\ T \in Pos /\ l \in Layer /\ ev.pc = "moe" /\ ev.kind = "decode"
      /\ ev.got = ev.sel /\ ev.sel \in Routings /\ DOMAIN ev.sel = 1..T /\ l \in Int
      /\ pg \in SUBSET Terms /\ pc \in SUBSET Terms /\ cfg \in Settings /\ GSlot' = GSlot
      /\ vram \in [Layer -> [GSlot -> Expert \cup {None}]]
  BY LayerFacts DEF LayerMoe, KInv, Base, Types, Phase, GSlot, RoutingRead, Stages, AtMoe, Evaluations
<1>1. /\ ev'.pc \in {"head", "graph"} /\ ev'.il = l + 1 /\ ev'.T = T /\ ev'.kind = "decode"
      /\ ev'.sel = ev.sel /\ ev'.skipped = ev.skipped
      /\ late' = Launch /\ pg' = OnDevice /\ pc' = CpuPart(cpu)
      /\ scale' = (IF cfg.skip THEN Rescaled ELSE scale)
      /\ vram' = vram /\ lent' = lent /\ sum' = sum /\ ran' = ran
  BY <1>0 DEF LayerMoe, Evaluations
<1>2. /\ ev.promoted \cap ev.cpu = {} /\ ev.skipped \subseteq ev.cpu
      /\ \A e \in ev.promoted : \E g \in GSlot : vram[l][g] = e
      /\ InGraph(l) => Upto(pg, T) = {t \in R : t.e \notin ev.promoted \cup ev.cpu}
      /\ ~InGraph(l) => ev.promoted = {} /\ ev.cpu = Union(ev.sel)
      /\ ev.promoted \subseteq Expert
  BY <1>0 DEF Stages, AtMoe, Evaluations
<1>3. /\ \A t \in R : t.e \in Union(ev.sel) /\ t.p \in 1..T /\ t.e \in ev.sel[t.p]
      /\ \A t : t \in R <=> \E p \in 1..T, e \in Expert : e \in ev.sel[p] /\ t = Term(l, p, e)
      /\ T \in Int /\ \A t \in pc : t.p \in Int
  BY <1>0, RoutedFacts, LayerFacts, SMTT(30) DEF Terms
<1>n. None \notin GSlot /\ None \notin Expert
  BY <1>0, LayerConstants DEF GSlot, Expert
<1> DEFINE InPg == IF InGraph(l) THEN Union(ev.sel) \ (ev.promoted \cup ev.cpu) ELSE {}
<1>4. Upto(pg', T) = {t \in R : t.e \in InPg}
  <2>1. CASE InGraph(l)
    <3>1. pg' = pg
      BY <1>1, <2>1 DEF OnDevice
    <3> HIDE DEF R
    <3> QED BY <1>2, <1>3, <2>1, <3>1
  <2>2. CASE ~InGraph(l)
    <3>1. pg' = {t \in pg : t.p > T}
      BY <1>1, <2>2 DEF OnDevice
    <3>2. Upto(pg', T) = {}
      BY <1>0, <3>1, UptoErased
    <3> QED BY <2>2, <3>2
  <2> QED BY <2>1, <2>2
<1>5. Upto(pc', T) = {t \in R : t.e \in cpu}
  <2> DEFINE X == {t \in R : t.e \in cpu}
  <2>1. CASE PcKnown(cpu)
    <3>1. pc' = pc /\ X = {} /\ ev.pcZero >= T
      BY <1>1, <2>1 DEF CpuPart, PcKnown
    <3>2. \A t \in pc : t.p > ev.pcZero
      BY <1>0 DEF Around, Zeros
    <3>3. Upto(pc', T) = {}
      <4>1. ev.pcZero \in Int
        BY <1>0, LayerFacts DEF Evaluations
      <4> QED BY <1>3, <3>1, <3>2, <4>1 DEF Upto
    <3> QED BY <3>1, <3>3
  <2>2. CASE ~PcKnown(cpu)
    <3>1. pc' = {t \in pc : t.p > T} \cup X
      BY <1>0, <1>1, <2>2 DEF CpuPart
    <3>2. \A t \in X : t.p \in 1..T
      BY <1>3
    <3> HIDE DEF X
    <3> QED BY <1>0, <3>1, <3>2, UptoWritten DEF X
  <2> QED BY <2>1, <2>2
<1>6. Late = {t \in R : t.e \in ev.promoted}
  <2>1. CASE ~InGraph(l)
    BY <1>2, <2>1
  <2>2. CASE InGraph(l)
    <3> DEFINE e(p, g) == IF g = None THEN None ELSE vram[l][g]
    <3>1. Late = UNION {{Term(l, p, e(p, g)) : g \in Launch[p]} : p \in 1..T}
      BY <2>2
    <3>2. CASE LateKnown
      <4>1. Launch = late /\ ev.promoted = {} /\ ev.lateZero >= T
        BY <3>2 DEF Launch, LateKnown
      <4>2. \A p \in 1..T : late[p] = {}
        <5>1. \A p \in Pos : p <= ev.lateZero => late[p] = {}
          BY <1>0 DEF Around, Zeros
        <5>2. \A p \in 1..T : p \in Pos /\ p <= ev.lateZero
          BY <1>0, <4>1, LayerFacts DEF Evaluations
        <5> QED BY <5>1, <5>2
      <4> QED BY <3>1, <4>1, <4>2
    <3>3. CASE ~LateKnown
      <4>1. \A p \in 1..T : Launch[p] = {SlotOf(l, x) : x \in ev.promoted \cap ev.sel[p]}
        <5>1. \A p \in 1..T : p \in Pos /\ p <= T
          BY <1>0, LayerFacts
        <5> QED BY <1>0, <2>2, <3>3, <5>1 DEF Launch
      <4>2. \A x \in ev.promoted : SlotOf(l, x) \in GSlot /\ vram[l][SlotOf(l, x)] = x
        <5>1. ASSUME NEW x \in ev.promoted
              PROVE  SlotOf(l, x) \in GSlot /\ vram[l][SlotOf(l, x)] = x
          <6>1. \E g \in GSlot : vram[l][g] = x
            BY <1>2
          <6> QED BY <6>1, Zenon DEF SlotOf
        <5> QED BY <5>1
      <4>3. \A p \in 1..T : {Term(l, p, e(p, g)) : g \in Launch[p]}
                               = {Term(l, p, x) : x \in ev.promoted \cap ev.sel[p]}
        <5>1. ASSUME NEW p \in 1..T
              PROVE  {Term(l, p, e(p, g)) : g \in Launch[p]}
                        = {Term(l, p, x) : x \in ev.promoted \cap ev.sel[p]}
          <6>1. \A x \in ev.promoted : e(p, SlotOf(l, x)) = x
            BY <1>n, <4>2
          <6>2. {Term(l, p, e(p, g)) : g \in Launch[p]}
                   = {Term(l, p, e(p, SlotOf(l, x))) : x \in ev.promoted \cap ev.sel[p]}
            <7> HIDE DEF e
            <7> QED BY <4>1
          <6> HIDE DEF e
          <6> QED BY <6>1, <6>2
        <5> QED BY <5>1
      <4>4. \A t : t \in Late <=>
                     \E p \in 1..T : \E x \in ev.promoted \cap ev.sel[p] : t = Term(l, p, x)
        <5> HIDE DEF e, Late
        <5>1. Late = UNION {{Term(l, p, x) : x \in ev.promoted \cap ev.sel[p]} : p \in 1..T}
          BY <3>1, <4>3
        <5> QED BY <5>1
      <4>5. \A t : t \in R /\ t.e \in ev.promoted <=>
                     \E p \in 1..T : \E x \in ev.promoted \cap ev.sel[p] : t = Term(l, p, x)
        <5> HIDE DEF R
        <5> QED BY <1>2, <1>3 DEF Term
      <4> HIDE DEF R, Late
      <4> QED BY <4>4, <4>5
    <3> QED BY <3>2, <3>3
  <2> QED BY <2>1, <2>2
<1>7. /\ Pending'.pg = Upto(pg', T) /\ Pending'.late = Late
      /\ Pending'.pc = Upto(pc', T) /\ Pending'.want = {t \in R : t.e \notin ev.skipped}
  <2>1. ev'.il - 1 = l
    BY <1>0, <1>1
  <2>2. InGraph(ev.il - 1)' <=> InGraph(l)
    BY <1>1, <2>1 DEF InGraph
  <2>3. LateTerms(ev.kind = "decode" /\ InGraph(ev.il - 1), ev.il - 1)' = Late
    BY <1>1, <2>1, <2>2 DEF LateTerms
  <2>4. Routed(ev.il - 1, ev.sel)' = R
    BY <1>1, <2>1 DEF Routed, Term
  <2> HIDE DEF Late, R
  <2> QED BY <1>1, <2>3, <2>4 DEF Pending, Folds
<1>8. Once(Pending')
  <2>1. \A t \in R : t.e \in InPg \cup ev.promoted \cup cpu <=> t.e \notin ev.skipped
    BY <1>2, <1>3
  <2>2. InPg \cap ev.promoted = {} /\ InPg \cap cpu = {} /\ ev.promoted \cap cpu = {}
    BY <1>2
  <2> HIDE DEF R, InPg, cpu, Late
  <2>3. /\ Pending'.pg = {t \in R : t.e \in InPg} /\ Pending'.late = {t \in R : t.e \in ev.promoted}
        /\ Pending'.pc = {t \in R : t.e \in cpu}
        /\ Pending'.want = {t \in R : t.e \notin ev.skipped}
    BY <1>4, <1>5, <1>6, <1>7
  <2>4. /\ Pending'.pg \cup Pending'.late \cup Pending'.pc = Pending'.want
        /\ Pending'.pg \cap Pending'.late = {} /\ Pending'.pg \cap Pending'.pc = {}
        /\ Pending'.late \cap Pending'.pc = {}
    BY <2>1, <2>2, <2>3, OnceParts
  <2> QED BY <2>4 DEF Once
<1>9. scale' = ev'.skipped
  BY <1>1 DEF Rescaled, Around, Scales
<1>10. Summed'
  BY <1>0, <1>1 DEF Stages, Summed, Once
<1>11. AtGraph'
  BY <1>8, <1>9 DEF AtGraph, Once
<1> QED BY <1>1, <1>10, <1>11 DEF Stages, AtFetch, AtMoe, AtChunk

\* After a prompt's layer one tensor holds all its experts and the other none.
LEMMA BatchPending ==
    ASSUME KInv, ev.il \in Layer, ev'.kind # "decode", ev'.il = ev.il + 1, ev'.skipped = {},
           ev'.sel = ev.sel, ev'.T = ev.T,
           {Upto(pg', ev.T), Upto(pc', ev.T)} = {Routed(ev.il, ev.sel), {}}
    PROVE  AtGraph'
<1> DEFINE R == Routed(ev.il, ev.sel)
<1>1. ev'.il - 1 = ev.il
  BY LayerFacts
<1>2. LateTerms(ev.kind = "decode" /\ InGraph(ev.il - 1), ev.il - 1)' = {}
  BY DEF LateTerms
<1>3. Routed(ev.il - 1, ev.sel)' = R
  BY <1>1 DEF Routed, Term
<1>4. \/ Upto(pg', ev.T) = R /\ Upto(pc', ev.T) = {}
      \/ Upto(pg', ev.T) = {} /\ Upto(pc', ev.T) = R
  BY DEF R
<1> HIDE DEF R
<1>5. /\ Pending'.pg = Upto(pg', ev.T) /\ Pending'.late = {} /\ Pending'.pc = Upto(pc', ev.T)
      /\ Pending'.want = R
  BY <1>2, <1>3 DEF Pending, Folds
<1>6. Once(Pending')
  BY <1>4, <1>5 DEF Once
<1> QED BY <1>6 DEF AtGraph, Once

\* A prompt's batch clears the sum of the VRAM experts, adds to it chunk by chunk, and
\* clears the CPU's.
LEMMA SplitStages ==
    ASSUME KInv, Around, Stages, CbatchSplit, cfg' = cfg
    PROVE  Stages'
<1>0. /\ ev \in Evaluations /\ ev.T \in Pos /\ ev.pc = "fetch" /\ ev.il \in Layer
      /\ ev.got = ev.sel /\ ev.sel \in Routings /\ DOMAIN ev.sel = 1..ev.T
      /\ ev.skipped = {} /\ pg \in SUBSET Terms
  BY DEF CbatchSplit, KInv, Base, Types, Phase, RoutingRead, Stages, AtFetch, Evaluations
<1>1. /\ ev'.pc = "chunk" /\ ev'.rest = Union(ev.sel) /\ ev'.il = ev.il /\ ev'.T = ev.T
      /\ ev'.sel = ev.sel /\ ev'.skipped = {}
      /\ pg' = {t \in pg : t.p > ev.T} /\ sum' = NoSum
  BY <1>0 DEF CbatchSplit, Evaluations
<1>2. Upto(pg', ev.T) = {}
  BY <1>0, <1>1, UptoErased
<1>3. {t \in Routed(ev.il, ev.sel) : t.e \notin Union(ev.sel)} = {}
  BY <1>0, RoutedFacts
<1>4. AtChunk'
  BY <1>0, <1>1, <1>2, <1>3 DEF AtChunk
<1> QED BY <1>1, <1>4, NoSumOnce DEF Stages, AtGraph, AtFetch, AtMoe, Summed

LEMMA ChunkStages ==
    ASSUME KInv, Around, Stages, NEW chunk \in SUBSET ev.rest,
           NEW put \in [GSlot -> Expert \cup {None}], CbatchChunk(chunk, put), cfg' = cfg
    PROVE  Stages'
<1> DEFINE R == Routed(ev.il, ev.sel)
<1>0. /\ ev \in Evaluations /\ ev.T \in Pos /\ ev.pc = "chunk" /\ ev.il \in Layer
      /\ ev.got = ev.sel /\ ev.sel \in Routings /\ DOMAIN ev.sel = 1..ev.T
      /\ ev.skipped = {} /\ Upto(pg, ev.T) = {t \in R : t.e \notin ev.rest}
  BY DEF CbatchChunk, KInv, Base, Types, Phase, RoutingRead, Stages, AtChunk, Evaluations
<1>1. /\ ev'.pc = "chunk" /\ ev'.rest = ev.rest \ chunk /\ ev'.il = ev.il /\ ev'.T = ev.T
      /\ ev'.sel = ev.sel /\ ev'.skipped = {} /\ ev'.kind = ev.kind
      /\ pg' = pg \cup {t \in R : t.e \in chunk} /\ sum' = sum
  BY <1>0 DEF CbatchChunk, Evaluations
<1>2. \A t \in R : t.p \in 1..ev.T
  BY <1>0, RoutedFacts
<1>3. \A t \in R : t.p <= ev.T
  BY <1>2
<1> HIDE DEF R
<1>4. Upto(pg', ev.T) = Upto(pg, ev.T) \cup {t \in R : t.e \in chunk}
  BY <1>1, <1>3 DEF Upto
<1>5. Upto(pg', ev.T) = {t \in R : t.e \notin ev'.rest}
  BY <1>0, <1>1, <1>4
<1>6. AtChunk'
  BY <1>0, <1>1, <1>5 DEF AtChunk, R
<1> QED BY <1>1, <1>6 DEF Stages, AtGraph, AtFetch, AtMoe, Summed, Once

LEMMA DoneStages ==
    ASSUME KInv, Around, Stages, CbatchDone, cfg' = cfg
    PROVE  Stages'
<1>0. /\ ev \in Evaluations /\ ev.T \in Pos /\ ev.il \in Layer /\ ev.kind = "cbatch"
      /\ ev.skipped = {} /\ pc \in SUBSET Terms
      /\ Upto(pg, ev.T) = {t \in Routed(ev.il, ev.sel) : t.e \notin {}}
  BY DEF CbatchDone, KInv, Base, Types, Phase, Stages, AtChunk
<1>1. /\ ev'.pc \in {"head", "graph"} /\ ev'.il = ev.il + 1 /\ ev'.T = ev.T /\ ev'.kind = "cbatch"
      /\ ev'.sel = ev.sel /\ ev'.skipped = {}
      /\ pg' = pg /\ pc' = {t \in pc : t.p > ev.T} /\ sum' = sum
  BY <1>0 DEF CbatchDone, Evaluations
<1>2. Upto(pc', ev.T) = {} /\ Upto(pg', ev.T) = Routed(ev.il, ev.sel)
  BY <1>0, <1>1, UptoErased
<1>3. AtGraph'
  BY <1>0, <1>1, <1>2, BatchPending
<1> QED BY <1>0, <1>1, <1>3 DEF Stages, AtFetch, AtMoe, AtChunk, Summed, Once

\* A streamed layer leaves all its experts in the CPU's tensor.
LEMMA StreamStages ==
    ASSUME KInv, Around, Stages, StreamMoe, cfg' = cfg
    PROVE  Stages'
<1>0. /\ ev \in Evaluations /\ ev.T \in Pos /\ ev.il \in Layer /\ ev.kind = "stream"
      /\ ev.got = ev.sel /\ ev.sel \in Routings /\ DOMAIN ev.sel = 1..ev.T
      /\ ev.skipped = {} /\ pc \in SUBSET Terms /\ pg \in SUBSET Terms
  BY DEF StreamMoe, KInv, Base, Types, Phase, RoutingRead, Stages, AtFetch, Evaluations
<1>1. /\ ev'.pc \in {"head", "graph"} /\ ev'.il = ev.il + 1 /\ ev'.T = ev.T /\ ev'.kind = "stream"
      /\ ev'.sel = ev.sel /\ ev'.skipped = {} /\ sum' = NoSum
      /\ pg' = {t \in pg : t.p > ev.T}
      /\ pc' = {t \in pc : t.p > ev.T} \cup Routed(ev.il, ev.sel)
  BY <1>0 DEF StreamMoe, Evaluations
<1>2. \A t \in Routed(ev.il, ev.sel) : t.p \in 1..ev.T
  BY <1>0, RoutedFacts
<1>3. Upto(pc', ev.T) = Routed(ev.il, ev.sel) /\ Upto(pg', ev.T) = {}
  BY <1>0, <1>1, <1>2, UptoErased, UptoWritten
<1>4. AtGraph'
  BY <1>0, <1>1, <1>3, BatchPending
<1> QED BY <1>0, <1>1, <1>4, NoSumOnce DEF Stages, AtFetch, AtMoe, AtChunk, Summed

\* The head folds what is pending.
LEMMA HeadStages ==
    ASSUME KInv, Stages, HeadGraph, cfg' = cfg
    PROVE  Stages'
<1>0. ev \in Evaluations /\ ev.pc = "head" /\ ev.il = NLayer
  BY DEF HeadGraph, KInv, Base, Types, Phase
<1>1. ev'.pc = "done" /\ ev'.kind = ev.kind
  BY <1>0 DEF HeadGraph, Evaluations
<1>2. sum' = Pending
  BY <1>0 DEF HeadGraph, Pending
<1>3. Once(Pending) /\ (ev.kind = "decode" => scale = ev.skipped)
  BY <1>0 DEF Stages, AtGraph
<1>4. Pending.scale = scale /\ Pending.skipped = ev.skipped
  BY DEF Pending, Folds
<1>5. Summed'
  BY <1>1, <1>2, <1>3, <1>4 DEF Summed, Once
<1> QED BY <1>1, <1>5 DEF Stages, AtGraph, AtFetch, AtMoe, AtChunk

\* Before and after an evaluation there is nothing to fold.
LEMMA IdleStages ==
    ASSUME sum' = NoSum, ev'.pc = "idle" \/ (ev'.pc = "graph" /\ ev'.il = 0)
    PROVE  Stages'
<1>1. Summed'
  BY NoSumOnce DEF Summed
<1> QED BY <1>1 DEF Stages, AtGraph, AtFetch, AtMoe, AtChunk

\* There is nothing yet as the engine starts.
LEMMA InitStages == Init => Stages
<1> SUFFICES ASSUME Init PROVE Stages
  OBVIOUS
<1>1. ev.pc = "idle" /\ sum = NoSum
  BY DEF Init, Idle
<1> QED BY <1>1, NoSumOnce DEF Stages, AtGraph, AtFetch, AtMoe, AtChunk, Summed

\* Every step keeps the stages.
LEMMA StepStages == KInv /\ Around /\ Stages /\ [Next]_vars => Stages'
<1> SUFFICES ASSUME KInv, Around, Stages, [Next]_vars PROVE Stages'
  OBVIOUS
<1>0. /\ Base /\ Kept /\ cfg' = cfg /\ ev \in Evaluations /\ GSlot' = GSlot
      /\ (ev.pc = "idle" => sum = NoSum)
  BY StepCfg DEF KInv, Base, Types, Phase, GSlot
<1>e. Ended => Stages'
  BY IdleStages DEF Ended, Idle
<1>1. CASE LoanAny \/ ReturnAny \/ WarmAny
  BY <1>0, <1>1, IdleStages
     DEF LoanAny, ReturnAny, WarmAny, ClientLend, PrefillEnter, PrefillLeave, PrefillRefused, PrefillWarm
<1>2. CASE BeginAny
  <2>1. ev.pc = "idle" /\ sum' = sum
    BY <1>2 DEF BeginAny, DecodeBegin, CbatchBegin, StreamBegin
  <2>2. \E kind, T, b : ev' = Start(kind, T, b)
    BY <1>2, ZenonT(40) DEF BeginAny, DecodeBegin, CbatchBegin, StreamBegin
  <2>3. ev'.pc = "graph" /\ ev'.il = 0
    BY <2>2 DEF Start, Idle
  <2> QED BY <1>0, <2>1, <2>3, IdleStages
<1>3. ASSUME NEW sel \in Routes(ev.T), BatchGraph(sel) PROVE Stages'
  <2>1. ev.pc = "graph" /\ ev.kind # "decode" /\ vram' = vram /\ lent' = lent
    BY <1>3 DEF BatchGraph, tier
  <2> DEFINE g == Built(ev.il)
  <2>2. /\ g \in Graph /\ g.T = ev.T /\ g.live /\ g.moe = FALSE /\ g.fold = FALSE
        /\ Run(g, ev.il, sel, g.pack)
    BY <1>0, <1>3, BatchRuns
  <2> HIDE DEF g
  <2> QED BY <1>0, <2>1, <2>2, RunStages
<1>4. ASSUME NEW sel \in Routes(ev.T), NEW kept \in BOOLEAN, NEW ok \in BOOLEAN,
             DecodeGraph(sel, kept, ok)
      PROVE  Stages'
  <2>1. ev.pc = "graph" /\ ev.kind = "decode" /\ vram' = vram /\ lent' = lent
    BY <1>4 DEF DecodeGraph
  <2>2. CASE ok
    <3> DEFINE k == Switched(ev.il, ev.T)
               g == IF Replays(k, ev.il, ev.T) THEN k.g ELSE Built(ev.il)
    <3>1. /\ g \in Graph /\ g.T = ev.T /\ g.live /\ g.moe = InGraph(ev.il)
          /\ g.fold = (ev.il > 0 /\ InGraph(ev.il - 1)) /\ Run(g, ev.il, sel, g.pack)
      BY <1>0, <1>4, <2>2, DecodeRuns
    <3> HIDE DEF g
    <3>2. g.fold <=> ev.kind = "decode" /\ ev.il > 0 /\ InGraph(ev.il - 1)
      BY <2>1, <3>1
    <3>3. ev.kind = "decode" => (g.moe <=> InGraph(ev.il))
      BY <3>1
    <3> QED BY <1>0, <2>1, <3>1, <3>2, <3>3, RunStages
  <2>3. CASE ~ok
    BY <1>4, <1>e, <2>3 DEF DecodeGraph
  <2> QED BY <2>2, <2>3
<1>5. ASSUME NEW put \in [GSlot -> Expert \cup {None}], NEW miss \in SUBSET Expert, Fetch(put, miss)
      PROVE  Stages'
  BY <1>0, <1>5, FetchStages
<1>6. ASSUME NEW put \in [GSlot -> Expert \cup {None}], NEW chunk \in SUBSET ev.rest,
             CbatchChunk(chunk, put)
      PROVE  Stages'
  BY <1>0, <1>6, ChunkStages
<1>7. CASE LayerMoe
  BY <1>0, <1>7, MoeStages
<1>8. CASE EvalFails \/ EvalReturns
  BY <1>8, <1>e DEF EvalFails, EvalReturns
<1>9. CASE CbatchSplit
  BY <1>0, <1>9, SplitStages
<1>10. CASE CbatchDone
  BY <1>0, <1>10, DoneStages
<1>11. CASE StreamMoe
  BY <1>0, <1>11, StreamStages
<1>12. CASE HeadGraph
  BY <1>0, <1>12, HeadStages
<1>13. CASE UNCHANGED vars
  <2>1. /\ ev' = ev /\ pg' = pg /\ pc' = pc /\ late' = late /\ scale' = scale /\ sum' = sum
        /\ vram' = vram /\ lent' = lent
    BY <1>13 DEF vars, tier, tensors
  <2>2. Pending' = Pending
    BY <1>0, <2>1 DEF Pending, Folds, Upto, LateTerms, InGraph
  <2>3. Once(Pending)' <=> Once(Pending)
    BY <2>2 DEF Once
  <2>4. AtGraph'
    BY <2>1, <2>3 DEF Stages, AtGraph
  <2>5. AtFetch' /\ AtMoe' /\ AtChunk' /\ Summed'
    BY <1>0, <2>1 DEF Stages, AtFetch, AtMoe, AtChunk, Summed, Once, InGraph, Upto, LateRows
  <2> QED BY <2>4, <2>5 DEF Stages
<1> QED
  BY <1>1, <1>2, <1>3, <1>4, <1>5, <1>6, <1>7, <1>8, <1>9, <1>10, <1>11, <1>12, <1>13
     DEF Next, GraphAny, FetchAny

\* Each routed expert of each position is in the residual once, whatever the tiers hold, are
\* lent and take back, whichever uploads are skipped and however an evaluation ends.
THEOREM FoldsOnce == Spec => []ContributesOnce
<1> DEFINE CInv == KInv /\ Around /\ Stages
<1>1. Init => CInv
  BY InitKInv, InitAround, InitStages
<1>2. CInv /\ [Next]_vars => CInv'
  BY StepKInv, StepAround, StepStages
<1>3. CInv => ContributesOnce
  BY DEF Stages, Summed, Once, AtMoe, ContributesOnce
<1> HIDE DEF CInv
<1> QED BY <1>1, <1>2, <1>3, PTL DEF Spec
=============================================================================

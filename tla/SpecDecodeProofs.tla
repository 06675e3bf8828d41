--------------------------- MODULE SpecDecodeProofs ---------------------------
(***************************************************************************)
(* Theorems about SpecDecode, for any vocabulary, trunk, prompts and sizes *)
(* that keep Sizes, Texts and WindowKeepsUp: EngineHolds, HeadRows,        *)
(* ShownInOrder, and that the conversation refines PlainDecode.            *)
(*                                                                         *)
(* What the engine computed from the tokens of a set S is over S: a window *)
(* of drafts is evaluated whole, whatever its drafts are, and what is left *)
(* after the rollback is over Token again.                                 *)
(***************************************************************************)
EXTENDS SpecDecode, WellFoundedInduction, TLAPS

IsEngine(s, S) ==
    /\ s \in [past : 0..Ctx, rs : Seq(S), kv : {s.kv}, pool : {s.pool}, bias : {s.bias},
              dirty : BOOLEAN, rows : Seq(Seq(S)), have : BOOLEAN, valid : BOOLEAN, head : {s.head},
              draft : BOOLEAN, last : Int, snaps : {s.snaps}, depth : Nat, logits : {s.logits},
              holes : SUBSET Nat]
    /\ s.kv = [c \in Cells |-> s.kv[c]]
    /\ s.head = [c \in Cells |-> s.head[c]]
    /\ s.pool = [b \in Blocks |-> s.pool[b]]

\* The raw rows are those of the sequence ...
Rows(s) == Len(s.rs) = s.past /\ \A q \in 0..(s.past - 1) : s.kv[q] = Prefix(s.rs, q + 1)

\* ... and so are the whole blocks' pooled keys ...
Pooled(s) ==
    \A b \in Blocks : b < s.past \div Ratio => s.pool[b] = [k \in 1..Ratio |-> Prefix(s.rs, b * Ratio + k)]

\* ... while the bias is that of a position the last step began at, no more than a step ago.
BiasFrom(s, p) == p < s.past /\ s.past <= p + 1 + MaxDrafts /\ \A b \in Blocks : s.bias[b] = BlockBias(p, b)
Behind(s) == s.bias = [b \in Blocks |-> s.bias[b]] /\ \E p \in Nat : BiasFrom(s, p)

Steady(s) == ~s.dirty => Pooled(s) /\ Behind(s)

\* The head's rows of the sequence before position k.
RowsPaired(s, k) ==
    \A p \in 0..(k - 1) : p \in s.holes \/ s.head[p] = <<Prefix(s.rs, p + 1), s.rs[p + 2]>>

\* The head has the residual of the last position to go on from, and the rows of those before it.
Headed(s) ==
    s.valid =>
        /\ s.past > 0 => s.have /\ Len(s.rows) >= 1 /\ s.rows[Len(s.rows)] = s.rs
        /\ RowsPaired(s, s.past - 1)

Good(s, S) == IsEngine(s, S) /\ Rows(s) /\ Steady(s) /\ Headed(s)

\* What the proofs use of a sound engine's fields.
Sound(s, S) ==
    /\ s.past \in Nat /\ s.past <= Ctx /\ s.rs \in Seq(S) /\ Len(s.rs) = s.past
    /\ s.rows \in Seq(Seq(S)) /\ Len(s.rows) \in Nat /\ s.holes \in SUBSET Nat
    /\ s.have \in BOOLEAN /\ s.valid \in BOOLEAN /\ s.draft \in BOOLEAN /\ s.last \in Int

\* The row of the last position pairs its residual with the token that follows.
Closed(s, t) == MtpReady(s) => s.past - 1 \in s.holes \/ s.head[s.past - 1] = <<s.rs, t>>

---------------------------------------------------------------------------
Loop == {"top", "step"}

TypeOK ==
    /\ IsEngine(e, Token)
    /\ hist \in Seq(Token) /\ Len(hist) <= Ctx
    /\ pc \in {"idle", "feed", "top", "step"}
    /\ fed \in Nat /\ base \in Nat /\ n \in Nat
    /\ tok \in Token /\ tok_next \in Token /\ evald \in Seq(Token) /\ shown \in Seq(Token)
    /\ tok_in \in BOOLEAN /\ think \in BOOLEAN /\ cut \in BOOLEAN
    /\ pol \in [on : BOOLEAN, bad : Nat, kmax : 0..MaxDrafts]

\* The engine is sound, and it is the history's.
EngineInv == Rows(e) /\ Steady(e) /\ Headed(e) /\ EngineHolds

\* Where the prompt is fed, and what the first token is drawn from.
Feeding ==
    pc = "feed" => /\ fed <= Len(hist) /\ base = Len(hist) /\ ~cut /\ ~tok_in /\ shown = << >>
                   /\ fed = Len(hist) => hist # << >> /\ Len(e.logits) >= 1 /\ Last(e.logits) = e.rs

\* What the loop is about to say: drawn by the trunk from the history evaluated, and paired in the head.
Drawn ==
    pc \in Loop => /\ e.past > 0
                   /\ Following \in Trunk(e.rs)
                   /\ Closed(e, Following)
                   /\ e.draft => e.last = e.past - 1

Looping ==
    /\ pc = "step" => ~tok_in /\ hist # << >> /\ Last(hist) = tok
    /\ pc \in Loop => base <= Len(hist)
    /\ ShownInOrder
    /\ pc = "idle" => ~tok_in /\ ~cut /\ shown = << >>

IInv == TypeOK /\ EngineInv /\ Feeding /\ Drawn /\ Looping

---------------------------------------------------------------------------
\* Integer division by a block's size.
LEMMA Div ==
    ASSUME NEW x \in Nat, NEW r \in Nat \ {0}
    PROVE  x \div r \in Nat /\ r * (x \div r) <= x /\ x < r * (x \div r) + r
OBVIOUS

LEMMA MulMono == ASSUME NEW a \in Nat, NEW b \in Nat, NEW r \in Nat, a <= b PROVE r * a <= r * b
OBVIOUS

LEMMA DivIs ==
    ASSUME NEW x \in Nat, NEW r \in Nat \ {0}, NEW q \in Nat, r * q <= x, x < r * q + r
    PROVE  x \div r = q
<1>1. r * (x \div r) <= x /\ x < r * (x \div r) + r /\ x \div r \in Nat
  BY Div
<1>2. CASE q < x \div r
  <2>1. q + 1 <= x \div r
    BY <1>1, <1>2
  <2>2. r * (q + 1) <= r * (x \div r)
    BY <1>1, <2>1
  <2> QED BY <1>1, <2>2
<1>3. CASE x \div r < q
  <2>1. x \div r + 1 <= q
    BY <1>1, <1>3
  <2>2. r * (x \div r + 1) <= r * q
    BY <1>1, <2>1
  <2> QED BY <1>1, <2>2
<1> QED BY <1>1, <1>2, <1>3

LEMMA DivMono ==
    ASSUME NEW x \in Nat, NEW y \in Nat, NEW r \in Nat \ {0}, x <= y
    PROVE  x \div r <= y \div r
<1>1. r * (x \div r) <= x /\ x < r * (x \div r) + r /\ x \div r \in Nat
  BY Div
<1>2. r * (y \div r) <= y /\ y < r * (y \div r) + r /\ y \div r \in Nat
  BY Div
<1>3. CASE y \div r < x \div r
  <2>1. r * (y \div r + 1) <= r * (x \div r)
    BY <1>1, <1>2, <1>3, MulMono
  <2> QED BY <1>1, <1>2, <2>1
<1> QED BY <1>1, <1>2, <1>3

LEMMA DivNext ==
    ASSUME NEW x \in Nat, NEW y \in Nat, NEW r \in Nat \ {0}, y <= x + r
    PROVE  y \div r <= x \div r + 1
<1>1. r * (x \div r) <= x /\ x < r * (x \div r) + r /\ x \div r \in Nat
  BY Div
<1>2. (x + r) \div r = x \div r + 1
  <2>1. r * (x \div r + 1) <= x + r /\ x + r < r * (x \div r + 1) + r
    BY <1>1
  <2>2. x + r \in Nat /\ x \div r + 1 \in Nat
    BY <1>1
  <2> QED BY <2>1, <2>2, DivIs
<1> QED BY <1>2, DivMono

\* A set of naturals has a least element.
LEMMA LeastNat ==
    ASSUME NEW N \in SUBSET Nat, N # {}
    PROVE  \E m \in N : \A k \in N : m <= k
<1>1. PICK m \in N : \A k \in N : ~(<<k, m>> \in OpToRel(<, Nat))
  BY NatLessThanWellFounded, WFMin
<1>2. \A k \in N : ~(k < m)
  BY <1>1 DEF OpToRel
<1> QED BY <1>2

LEMMA MinPair == ASSUME NEW a \in Int, NEW b \in Int PROVE Min({a, b}) = IF a <= b THEN a ELSE b
BY DEF Min

LEMMA MaxPair == ASSUME NEW a \in Int, NEW b \in Int PROVE Max({a, b}) = IF a >= b THEN a ELSE b
BY DEF Max

---------------------------------------------------------------------------
\* Prefixes.
LEMMA PrefixType ==
    ASSUME NEW S, NEW s \in Seq(S), NEW k \in 0..Len(s)
    PROVE  /\ Prefix(s, k) \in Seq(S) /\ Len(Prefix(s, k)) = k
           /\ \A i \in 1..k : Prefix(s, k)[i] = s[i]
BY DEF Prefix

LEMMA PrefixAll == ASSUME NEW S, NEW s \in Seq(S) PROVE Prefix(s, Len(s)) = s
BY DEF Prefix

LEMMA PrefixOfCat ==
    ASSUME NEW S, NEW s \in Seq(S), NEW t \in Seq(S), NEW k \in 0..Len(s)
    PROVE  Prefix(s \o t, k) = Prefix(s, k)
BY DEF Prefix

LEMMA CatPrefix ==
    ASSUME NEW S, NEW s \in Seq(S), NEW t \in Seq(S), NEW k \in 0..Len(t)
    PROVE  s \o Prefix(t, k) = Prefix(s \o t, Len(s) + k)
BY DEF Prefix

LEMMA PrefixOfPrefix ==
    ASSUME NEW S, NEW s \in Seq(S), NEW k \in 0..Len(s), NEW j \in 0..k
    PROVE  Prefix(Prefix(s, k), j) = Prefix(s, j)
BY DEF Prefix

LEMMA CatNext ==
    ASSUME NEW S, NEW s \in Seq(S), NEW p \in Seq(S), NEW t \in S
    PROVE  (s \o p) \o <<t>> = s \o Append(p, t) /\ Len(<<t>>) = 1 /\ Len(Append(p, t)) = Len(p) + 1
OBVIOUS

LEMMA CatAt ==
    ASSUME NEW S, NEW s \in Seq(S), NEW t \in Seq(S), NEW j \in 1..Len(t)
    PROVE  (s \o t)[Len(s) + j] = t[j]
OBVIOUS

LEMMA CatOf ==
    ASSUME NEW S, NEW s \in Seq(S), NEW t \in Seq(S)
    PROVE  /\ s \o t \in Seq(S) /\ Len(s \o t) = Len(s) + Len(t)
           /\ \A i \in 1..Len(s) : (s \o t)[i] = s[i]
           /\ \A j \in 1..Len(t) : (s \o t)[Len(s) + j] = t[j]
OBVIOUS

LEMMA PrefixNext ==
    ASSUME NEW S, NEW s \in Seq(S), NEW k \in 0..(Len(s) - 1)
    PROVE  Prefix(s, k + 1) = Append(Prefix(s, k), s[k + 1])
BY DEF Prefix

---------------------------------------------------------------------------
\* The bias window.  It follows a step of up to 1 + MaxDrafts positions.
LEMMA Sized == /\ Ratio \in Nat \ {0} /\ MaxDrafts \in Nat \ {0} /\ MaxDrafts <= Ratio /\ Ctx \in Nat
               /\ NBatch \in Nat \ {0} /\ HeadDrafts \in Nat \ {0} /\ HeadDrafts <= MaxDrafts
BY Sizes, WindowKeepsUp, LookupSizes

BiasOf(p) == [b \in Blocks |-> BlockBias(p, b)]

LEMMA WindowStep ==
    ASSUME NEW p \in Nat, NEW q \in Nat, p <= q, q <= p + 1 + MaxDrafts,
           NEW bias, \A b \in Blocks : bias[b] = BlockBias(p, b)
    PROVE  Window(bias, q) = BiasOf(q)
<1>0. Ratio \in Nat \ {0} /\ MaxDrafts \in Nat /\ MaxDrafts <= Ratio /\ Blocks \subseteq Nat
  BY Sized, Div DEF Blocks
<1> DEFINE P == p \div Ratio  P1 == (p + 1) \div Ratio  Q == q \div Ratio  Q1 == (q + 1) \div Ratio
<1>1. P \in Nat /\ P1 \in Nat /\ Q \in Nat /\ Q1 \in Nat
  BY <1>0, Div
<1>2. P <= Q /\ P1 <= P + 1 /\ Q1 <= Q + 1 /\ Q <= Q1 /\ Q <= P1 + 1
  <2>1. P <= Q
    BY <1>0, DivMono
  <2>2. P1 <= P + 1 /\ Q1 <= Q + 1
    BY <1>0, DivNext
  <2>3. Q <= Q1
    BY <1>0, DivMono
  <2>4. q <= (p + 1) + Ratio /\ p + 1 \in Nat
    BY <1>0
  <2>5. Q <= P1 + 1
    BY <1>0, <2>4, DivNext
  <2> QED BY <2>1, <2>2, <2>3, <2>5
<1>3. \A b \in Blocks : b \notin (Q - 1)..(Q + 1) => BlockBias(p, b) = BlockBias(q, b)
  BY <1>0, <1>1, <1>2 DEF BlockBias
<1>4. Window(bias, q) = [b \in Blocks |-> IF b \in (Q - 1)..(Q + 1) THEN BlockBias(q, b) ELSE bias[b]]
  BY DEF Window
<1>5. \A b \in Blocks : (IF b \in (Q - 1)..(Q + 1) THEN BlockBias(q, b) ELSE bias[b]) = BlockBias(q, b)
  BY <1>3
<1> HIDE DEF Q
<1> QED BY <1>4, <1>5 DEF BiasOf

\* The biases of a step's positions are those of the positions.
LEMMA BiasesAre ==
    ASSUME NEW s, s.past \in Nat, s.bias = BiasOf(s.past), NEW T \in Nat \ {0}
    PROVE  Biases(s, T) = [k \in 1..T |-> BiasOf(s.past + k - 1)]
<1> DEFINE Is(f) == f = [k \in 1..T |-> IF k = 1 THEN s.bias ELSE Window(f[k - 1], s.past + k - 1)]
           g == [k \in 1..T |-> BiasOf(s.past + k - 1)]
           bias == CHOOSE f : Is(f)
<1>1. \A p \in Nat : Window(BiasOf(p), p + 1) = BiasOf(p + 1)
  <2> TAKE p \in Nat
  <2>1. \A b \in Blocks : BiasOf(p)[b] = BlockBias(p, b)
    BY DEF BiasOf
  <2>2. p + 1 \in Nat /\ p <= p + 1 /\ p + 1 <= p + 1 + MaxDrafts
    BY Sized
  <2> QED BY <2>1, <2>2, WindowStep
<1>2. ASSUME NEW k \in 1..T, k # 1
      PROVE  Window(BiasOf(s.past + (k - 1) - 1), s.past + k - 1) = BiasOf(s.past + k - 1)
  <2>1. s.past + (k - 1) - 1 \in Nat /\ s.past + k - 1 = (s.past + (k - 1) - 1) + 1
    BY <1>2
  <2> QED BY <1>1, <2>1
<1>3. Is(g)
  <2>1. ASSUME NEW k \in 1..T
        PROVE  g[k] = IF k = 1 THEN s.bias ELSE Window(g[k - 1], s.past + k - 1)
    <3>1. CASE k = 1
      BY <3>1
    <3>2. CASE k # 1
      <4>1. k - 1 \in 1..T
        BY <3>2
      <4>2. g[k - 1] = BiasOf(s.past + (k - 1) - 1)
        BY <4>1
      <4> QED BY <1>2, <3>2, <4>2
    <3> QED BY <3>1, <3>2
  <2>2. g = [k \in 1..T |-> g[k]]
    OBVIOUS
  <2> HIDE DEF g
  <2>3. [k \in 1..T |-> g[k]] = [k \in 1..T |-> IF k = 1 THEN s.bias ELSE Window(g[k - 1], s.past + k - 1)]
    BY <2>1
  <2> QED BY <2>2, <2>3
<1>4. Is(bias)
  BY <1>3
<1>5. Biases(s, T) = bias
  BY DEF Biases
<1> HIDE DEF bias
<1> DEFINE Bad == {k \in 1..T : bias[k] # g[k]}
<1>6. Bad = {}
  <2> SUFFICES ASSUME Bad # {} PROVE FALSE
    OBVIOUS
  <2>1. Bad \in SUBSET Nat
    OBVIOUS
  <2>2. PICK k \in Bad : \A j \in Bad : k <= j
    BY <2>1, LeastNat
  <2>3. bias[k] = IF k = 1 THEN s.bias ELSE Window(bias[k - 1], s.past + k - 1)
    BY <1>4
  <2>4. CASE k = 1
    BY <2>3, <2>4
  <2>5. CASE k # 1
    <3>1. k - 1 \in 1..T /\ k - 1 \notin Bad
      BY <2>2, <2>5
    <3>2. bias[k - 1] = BiasOf(s.past + (k - 1) - 1)
      BY <3>1
    <3> QED BY <1>2, <2>3, <2>5, <3>2
  <2> QED BY <2>4, <2>5
<1>7. bias = [k \in 1..T |-> bias[k]]
  BY <1>4
<1> QED BY <1>5, <1>6, <1>7

\* The cells of a block that is whole before x lie before x.
LEMMA BlockCells ==
    ASSUME NEW x \in Nat, NEW r \in Nat \ {0}, NEW b \in Nat, b < x \div r, NEW k \in 1..r
    PROVE  b * r + k \in 1..x
<1>1. r * (x \div r) <= x /\ x \div r \in Nat
  BY Div
<1>2. r * (b + 1) <= r * (x \div r)
  BY <1>1, MulMono
<1> QED BY <1>1, <1>2

HasCell(x, y, r, b) == \E q \in x..y : q \div r = b

\* A block that is not whole before x and not after y has a cell from x to y.
LEMMA BlockCell ==
    ASSUME NEW x \in Nat, NEW y \in Nat, NEW r \in Nat \ {0}, NEW b \in Nat,
           x \div r <= b, b <= y \div r, x <= y
    PROVE  HasCell(x, y, r, b)
<1>1. r * (x \div r) <= x /\ x < r * (x \div r) + r /\ x \div r \in Nat
  BY Div
<1>2. r * (y \div r) <= y /\ y \div r \in Nat
  BY Div
<1>3. CASE b = x \div r
  <2>1. x \in x..y /\ x \div r = b
    BY <1>3
  <2> QED BY <2>1 DEF HasCell
<1>4. CASE b # x \div r
  <2>1. r * (x \div r + 1) <= r * b
    BY <1>1, <1>4, MulMono
  <2>2. r * b <= r * (y \div r)
    BY <1>2, MulMono
  <2>3. r * b \in x..y
    BY <1>1, <1>2, <2>1, <2>2
  <2>4. (r * b) \div r = b
    <3>1. r * b \in Nat /\ r * b <= r * b /\ r * b < r * b + r
      OBVIOUS
    <3> QED BY <3>1, DivIs
  <2> QED BY <2>3, <2>4 DEF HasCell
<1> QED BY <1>3, <1>4

\* What a decode step finds: the bias of its first position, and the whole blocks pooled.
LEMMA PreparedIs ==
    ASSUME NEW S, NEW s, IsEngine(s, S), Rows(s), Steady(s)
    PROVE  /\ IsEngine(Prepared(s), S)
           /\ Prepared(s).bias = BiasOf(s.past) /\ Pooled(Prepared(s)) /\ ~Prepared(s).dirty
           /\ Prepared(s).past = s.past /\ Prepared(s).rs = s.rs /\ Prepared(s).kv = s.kv
           /\ Prepared(s).rows = s.rows /\ Prepared(s).have = s.have /\ Prepared(s).valid = s.valid
           /\ Prepared(s).head = s.head /\ Prepared(s).draft = s.draft /\ Prepared(s).last = s.last
           /\ Prepared(s).holes = s.holes
<1>0. s.past \in Nat /\ Ratio \in Nat \ {0} /\ Blocks \subseteq Nat
  BY Sized, Div DEF Blocks, IsEngine
<1>1. CASE s.dirty
  <2> DEFINE pool == [b \in Blocks |-> IF b < s.past \div Ratio THEN Members(s.kv, b) ELSE s.pool[b]]
             t == [s EXCEPT !.bias = BiasOf(s.past), !.pool = pool, !.dirty = FALSE]
  <2>1. Prepared(s) = t
    BY <1>1 DEF Prepared, BiasOf
  <2>2. t.bias = BiasOf(s.past) /\ t.pool = pool /\ ~t.dirty /\ t.rs = s.rs /\ t.past = s.past
    BY DEF IsEngine
  <2>3. Pooled(t)
    <3> SUFFICES ASSUME NEW b \in Blocks, b < s.past \div Ratio
                 PROVE  pool[b] = [k \in 1..Ratio |-> Prefix(s.rs, b * Ratio + k)]
      BY <2>2 DEF Pooled
    <3>1. pool[b] = Members(s.kv, b)
      OBVIOUS
    <3>2. \A k \in 1..Ratio : s.kv[b * Ratio + k - 1] = Prefix(s.rs, b * Ratio + k)
      <4> TAKE k \in 1..Ratio
      <4>1. b * Ratio + k \in 1..s.past
        BY <1>0, BlockCells
      <4>2. b * Ratio + k - 1 \in 0..(s.past - 1) /\ (b * Ratio + k - 1) + 1 = b * Ratio + k
        BY <1>0, <4>1
      <4> QED BY <4>2 DEF Rows
    <3> QED BY <3>1, <3>2 DEF Members
  <2>4. IsEngine(t, S)
    BY DEF IsEngine
  <2>5. t.kv = s.kv /\ t.rows = s.rows /\ t.have = s.have /\ t.valid = s.valid /\ t.head = s.head
        /\ t.draft = s.draft /\ t.last = s.last /\ t.holes = s.holes
    BY DEF IsEngine
  <2> QED BY <2>1, <2>2, <2>3, <2>4, <2>5
<1>2. CASE ~s.dirty
  <2>1. PICK p \in Nat : BiasFrom(s, p)
    BY <1>2 DEF Steady, Behind
  <2>2. Window(s.bias, s.past) = BiasOf(s.past)
    <3>1. p <= s.past /\ s.past <= p + 1 + MaxDrafts /\ \A b \in Blocks : s.bias[b] = BlockBias(p, b)
      BY <1>0, <2>1 DEF BiasFrom
    <3> QED BY <1>0, <3>1, WindowStep
  <2> DEFINE t == [s EXCEPT !.bias = BiasOf(s.past)]
  <2>3. Prepared(s) = t
    BY <1>2, <2>2 DEF Prepared
  <2>4. t.bias = BiasOf(s.past) /\ t.pool = s.pool /\ ~t.dirty /\ t.rs = s.rs /\ t.past = s.past
    BY <1>2 DEF IsEngine
  <2>5. Pooled(t)
    BY <1>2, <2>4 DEF Pooled, Steady
  <2>6. IsEngine(t, S)
    BY DEF IsEngine
  <2>7. t.kv = s.kv /\ t.rows = s.rows /\ t.have = s.have /\ t.valid = s.valid /\ t.head = s.head
        /\ t.draft = s.draft /\ t.last = s.last /\ t.holes = s.holes
    BY DEF IsEngine
  <2> QED BY <2>3, <2>4, <2>5, <2>6, <2>7
<1> QED BY <1>1, <1>2 DEF IsEngine

\* The residuals of a step whose every position reads its own past.
At(rs, toks) == [k \in 1..Len(toks) |-> rs \o Prefix(toks, k)]

LEMMA AtType ==
    ASSUME NEW S, NEW rs \in Seq(S), NEW toks \in Seq(S)
    PROVE  /\ At(rs, toks) \in Seq(Seq(S)) /\ Len(At(rs, toks)) = Len(toks)
           /\ \A k \in 1..Len(toks) : /\ At(rs, toks)[k] = rs \o Prefix(toks, k)
                                      /\ At(rs, toks)[k] = Prefix(rs \o toks, Len(rs) + k)
           /\ Len(toks) >= 1 => At(rs, toks)[Len(toks)] = rs \o toks
<1>1. \A k \in 1..Len(toks) : rs \o Prefix(toks, k) \in Seq(S)
  BY PrefixType
<1>2. \A k \in 1..Len(toks) : rs \o Prefix(toks, k) = Prefix(rs \o toks, Len(rs) + k)
  BY CatPrefix
<1>3. Prefix(toks, Len(toks)) = toks
  BY PrefixAll
<1> QED BY <1>1, <1>2, <1>3 DEF At

\* The rows of a sequence after new ones are written behind them.
LEMMA WrittenIs ==
    ASSUME NEW S, NEW rs \in Seq(S), NEW toks \in Seq(S), NEW kv, Len(rs) + Len(toks) <= Ctx,
           \A q \in 0..(Len(rs) - 1) : kv[q] = Prefix(rs, q + 1)
    PROVE  /\ \A q \in 0..(Len(rs) + Len(toks) - 1) :
                  Written(kv, Len(rs), At(rs, toks))[q] = Prefix(rs \o toks, q + 1)
           /\ Written(kv, Len(rs), At(rs, toks)) = [c \in Cells |-> Written(kv, Len(rs), At(rs, toks))[c]]
<1> DEFINE m == Len(rs)  T == Len(toks)  w == Written(kv, m, At(rs, toks))
<1>1. m \in Nat /\ T \in Nat /\ Len(At(rs, toks)) = T
  BY AtType
<1>2. w = [c \in Cells |-> IF c \in m..(m + T - 1) THEN At(rs, toks)[c - m + 1] ELSE kv[c]]
  BY <1>1 DEF Written
<1>3. ASSUME NEW q \in 0..(m + T - 1) PROVE w[q] = Prefix(rs \o toks, q + 1)
  <2>0. q \in Cells
    BY <1>1, Sized DEF Cells
  <2>1. CASE q < m
    <3>1. q \in 0..(m - 1) /\ q + 1 \in 0..Len(rs) /\ q \notin m..(m + T - 1)
      BY <1>1, <2>1
    <3>2. Prefix(rs \o toks, q + 1) = Prefix(rs, q + 1)
      BY <3>1, PrefixOfCat
    <3>3. w[q] = kv[q]
      BY <1>2, <2>0, <3>1
    <3> QED BY <3>1, <3>2, <3>3
  <2>2. CASE q >= m
    <3>1. q - m + 1 \in 1..T /\ m + (q - m + 1) = q + 1 /\ q \in m..(m + T - 1)
      BY <1>1, <2>2
    <3>2. At(rs, toks)[q - m + 1] = Prefix(rs \o toks, m + (q - m + 1))
      BY <3>1, AtType
    <3> QED BY <1>2, <2>0, <3>1, <3>2
  <2> QED BY <1>1, <2>1, <2>2
<1>4. w = [c \in Cells |-> w[c]]
  BY <1>2
<1> QED BY <1>3, <1>4

\* A decode step continues the sequence with its tokens: every position reads its own past.
Decoded(s, toks, d, S) ==
    /\ IsEngine(d, S) /\ d.past = s.past + Len(toks) /\ d.rs = s.rs \o toks
    /\ Rows(d) /\ Pooled(d) /\ ~d.dirty /\ d.bias = BiasOf(s.past)
    /\ d.rows = At(s.rs, toks) /\ d.logits = At(s.rs, toks) /\ d.have
    /\ d.valid = s.valid /\ d.head = s.head /\ d.draft = s.draft /\ d.last = s.last
    /\ d.holes = s.holes
    /\ Len(toks) >= 2 => d.snaps = [k \in 1..(Len(toks) - 1) |-> At(s.rs, toks)[Len(toks) - k]]

LEMMA EvalDecodeIs ==
    ASSUME NEW S, NEW s0, IsEngine(s0, S), Rows(s0), Steady(s0),
           NEW toks \in Seq(S), Len(toks) \in 1..(1 + MaxDrafts), s0.past + Len(toks) <= Ctx,
           NEW verify \in BOOLEAN
    PROVE  Decoded(s0, toks, EvalDecode(s0, toks, verify), S)
<1> DEFINE s == Prepared(s0)
           T == Len(toks)
           full == s.rs \o toks
           kv == Written(s.kv, s.past, [k \in 1..T |-> s.rs \o Prefix(toks, k)])
           pool == [b \in Blocks |-> IF \E k \in 1..T : b = (s.past + k - 1) \div Ratio
                                     THEN Members(kv, b) ELSE s.pool[b]]
           reads == {k \in 1..T : /\ RowsOf(kv, s.past + k - 1, s.rs \o Prefix(toks, k))
                                  /\ ChoosesRight(pool, Biases(s, T)[k], s.past + k - 1, s.rs \o Prefix(toks, k))}
           at == Residuals(s, toks, [k \in 1..T |-> 1..k \subseteq reads])
           d == [s EXCEPT !.past = @ + T, !.rs = at[T], !.kv = Written(@, s.past, at), !.pool = pool,
                          !.rows = at, !.have = TRUE, !.logits = at, !.snaps = Snapshots(s, at),
                          !.depth = IF verify /\ T >= 2 THEN Min({T - 1, MaxDrafts}) ELSE 0]
<1>1. EvalDecode(s0, toks, verify) = d
  BY DEF EvalDecode
<1>2. /\ IsEngine(s, S) /\ s.bias = BiasOf(s0.past) /\ Pooled(s) /\ ~s.dirty
      /\ s.past = s0.past /\ s.rs = s0.rs /\ s.kv = s0.kv /\ s.rows = s0.rows /\ s.have = s0.have
      /\ s.valid = s0.valid /\ s.head = s0.head /\ s.draft = s0.draft /\ s.last = s0.last
      /\ s.holes = s0.holes
  BY PreparedIs
<1> HIDE DEF s
<1>3. /\ s.past \in Nat /\ s.rs \in Seq(S) /\ Len(s.rs) = s.past /\ T \in Nat \ {0} /\ s.past + T <= Ctx
      /\ full \in Seq(S) /\ Len(full) = s.past + T
  <2>1. s.past \in 0..Ctx /\ s.rs \in Seq(S)
    BY <1>2 DEF IsEngine
  <2>2. Len(s.rs) = s.past
    BY <1>2 DEF Rows
  <2>3. T \in Nat \ {0}
    BY Sized
  <2>4. s.past + T <= Ctx
    BY <1>2
  <2>5. s.past \in Nat
    BY <2>1, Sized
  <2> QED BY <2>1, <2>2, <2>3, <2>4, <2>5
<1>4. Ratio \in Nat \ {0} /\ Blocks \subseteq Nat /\ MaxDrafts \in Nat
  BY Sized, Div DEF Blocks
<1>0. s.past \in Nat /\ T \in Nat \ {0} /\ s.past + T \in Nat /\ s.past + T <= Ctx
  BY <1>3
<1>5. kv = Written(s.kv, Len(s.rs), At(s.rs, toks))
  BY <1>3 DEF At
<1>6. \A q \in 0..(s.past + T - 1) : kv[q] = Prefix(full, q + 1)
  <2>1. \A q \in 0..(Len(s.rs) - 1) : s.kv[q] = Prefix(s.rs, q + 1)
    BY <1>2, <1>3 DEF Rows
  <2>2. Len(s.rs) + Len(toks) <= Ctx
    BY <1>3
  <2>3. \A q \in 0..(Len(s.rs) + Len(toks) - 1) :
            Written(s.kv, Len(s.rs), At(s.rs, toks))[q] = Prefix(s.rs \o toks, q + 1)
    <3> DEFINE m == s.rs  old == s.kv
    <3>1. m \in Seq(S) /\ Len(m) + Len(toks) <= Ctx /\ \A q \in 0..(Len(m) - 1) : old[q] = Prefix(m, q + 1)
      BY <1>3, <2>1, <2>2
    <3> HIDE DEF m, old
    <3>2. \A q \in 0..(Len(m) + Len(toks) - 1) : Written(old, Len(m), At(m, toks))[q] = Prefix(m \o toks, q + 1)
      BY <3>1, WrittenIs
    <3> QED BY <3>2 DEF m, old
  <2> HIDE DEF kv
  <2> QED BY <1>3, <1>5, <2>3
<1> HIDE DEF kv
<1>7. \A b \in Blocks : b < (s.past + T) \div Ratio => pool[b] = [k \in 1..Ratio |-> Prefix(full, b * Ratio + k)]
  <2> SUFFICES ASSUME NEW b \in Blocks, b < (s.past + T) \div Ratio
               PROVE  pool[b] = [k \in 1..Ratio |-> Prefix(full, b * Ratio + k)]
    OBVIOUS
  <2>0. b \in Nat /\ s.past + T \in Nat
    BY <1>0, <1>4
  <2>1. CASE \E k \in 1..T : b = (s.past + k - 1) \div Ratio
    <3>1. pool[b] = Members(kv, b)
      BY <2>1
    <3>2. \A k \in 1..Ratio : kv[b * Ratio + k - 1] = Prefix(full, b * Ratio + k)
      <4> TAKE k \in 1..Ratio
      <4>1. b * Ratio + k \in 1..(s.past + T)
        BY <1>4, <2>0, BlockCells
      <4>2. b * Ratio + k - 1 \in 0..(s.past + T - 1) /\ (b * Ratio + k - 1) + 1 = b * Ratio + k
        BY <1>0, <1>4, <2>0, <4>1
      <4> QED BY <1>6, <4>2
    <3> QED BY <3>1, <3>2 DEF Members
  <2>2. CASE ~\E k \in 1..T : b = (s.past + k - 1) \div Ratio
    <3>1. b < s.past \div Ratio
      <4> SUFFICES ASSUME ~(b < s.past \div Ratio) PROVE FALSE
        OBVIOUS
      <4>1. s.past \div Ratio \in Nat /\ (s.past + T - 1) \div Ratio \in Nat /\ (s.past + T) \div Ratio \in Nat
        <5>1. s.past \in Nat /\ s.past + T - 1 \in Nat /\ s.past + T \in Nat /\ Ratio \in Nat \ {0}
          BY <1>0, <1>4
        <5> HIDE DEF s, T
        <5> QED BY <5>1, Div
      <4>2. (s.past + T) \div Ratio <= (s.past + T - 1) \div Ratio + 1
        <5>1. s.past + T - 1 \in Nat /\ s.past + T \in Nat /\ s.past + T <= (s.past + T - 1) + Ratio
          BY <1>0, <1>4, SMTT(30)
        <5> QED BY <1>4, <5>1, DivNext
      <4>3. s.past \div Ratio <= b /\ b <= (s.past + T - 1) \div Ratio
        BY <2>0, <4>1, <4>2
      <4>4. PICK q \in s.past..(s.past + T - 1) : q \div Ratio = b
        <5> DEFINE x == s.past  y == s.past + T - 1
        <5>1. x \in Nat /\ y \in Nat /\ x <= y
          BY <1>0
        <5>2. x \div Ratio <= b /\ b <= y \div Ratio
          BY <4>3
        <5>3. b \in Nat /\ Ratio \in Nat \ {0}
          BY <1>4, <2>0
        <5> HIDE DEF x, y
        <5>4. HasCell(x, y, Ratio, b)
          BY <5>1, <5>2, <5>3, BlockCell
        <5> QED BY <5>4 DEF x, y, HasCell
      <4>5. q - s.past + 1 \in 1..T /\ s.past + (q - s.past + 1) - 1 = q
        BY <1>3, SMTT(30)
      <4> QED BY <2>2, <4>4, <4>5
    <3>2. pool[b] = s.pool[b]
      BY <2>2
    <3>3. s.pool[b] = [k \in 1..Ratio |-> Prefix(s.rs, b * Ratio + k)]
      BY <1>2, <3>1 DEF Pooled
    <3>4. \A k \in 1..Ratio : Prefix(s.rs, b * Ratio + k) = Prefix(full, b * Ratio + k)
      <4> TAKE k \in 1..Ratio
      <4>1. b * Ratio + k \in 1..s.past
        BY <1>3, <1>4, <2>0, <3>1, BlockCells
      <4>2. b * Ratio + k \in 0..Len(s.rs)
        BY <1>3, <4>1
      <4> QED BY <1>3, <4>2, PrefixOfCat
    <3> QED BY <3>2, <3>3, <3>4
  <2> QED BY <2>1, <2>2
<1> HIDE DEF pool
<1>8. \A k \in 1..T : k \in reads
  <2> SUFFICES ASSUME NEW k \in 1..T
               PROVE  /\ RowsOf(kv, s.past + k - 1, s.rs \o Prefix(toks, k))
                      /\ ChoosesRight(pool, Biases(s, T)[k], s.past + k - 1, s.rs \o Prefix(toks, k))
    OBVIOUS
  <2> DEFINE p == s.past + k - 1  c == s.rs \o Prefix(toks, k)
  <2>1. p \in Nat /\ p + 1 = s.past + k /\ p <= s.past + T - 1 /\ s.past + k \in 0..Len(full)
    BY <1>3, SMTT(30)
  <2>2. c = Prefix(full, s.past + k)
    <3>1. k \in 0..Len(toks)
      BY <1>0
    <3> QED BY <1>3, <3>1, CatPrefix
  <2>3. \A j \in 0..(p + 1) : Prefix(c, j) = Prefix(full, j)
    BY <1>3, <2>1, <2>2, PrefixOfPrefix
  <2> HIDE DEF c
  <2>4. RowsOf(kv, p, c)
    <3>1. \A q \in 0..p : q \in 0..(s.past + T - 1) /\ q + 1 \in 0..(p + 1)
      BY <1>3, <2>1, SMTT(30)
    <3> QED BY <1>6, <2>3, <3>1 DEF RowsOf
  <2>5. Biases(s, T)[k] = BiasOf(p)
    BY <1>2, <1>3, BiasesAre
  <2>6. ASSUME NEW b \in Blocks PROVE /\ BiasOf(p)[b] = BlockBias(p, b)
                                      /\ BiasOf(p)[b] = "open" => pool[b] = [i \in 1..Ratio |-> Prefix(c, b * Ratio + i)]
    <3>1. BiasOf(p)[b] = BlockBias(p, b)
      BY DEF BiasOf
    <3>2. ASSUME BlockBias(p, b) = "open" PROVE pool[b] = [i \in 1..Ratio |-> Prefix(c, b * Ratio + i)]
      <4>1. b < (p + 1) \div Ratio
        BY <3>2 DEF BlockBias
      <4>2. (p + 1) \div Ratio <= (s.past + T) \div Ratio
        <5>1. p + 1 \in Nat /\ s.past + T \in Nat /\ p + 1 <= s.past + T
          BY <1>0, <2>1
        <5> QED BY <1>4, <5>1, DivMono
      <4>3. b \in Nat /\ (p + 1) \div Ratio \in Nat /\ (s.past + T) \div Ratio \in Nat
        <5>1. p + 1 \in Nat
          BY <2>1
        <5> HIDE DEF p
        <5> QED BY <1>0, <1>4, <5>1, Div
      <4>4. b < (s.past + T) \div Ratio
        BY <4>1, <4>2, <4>3
      <4>5. \A i \in 1..Ratio : Prefix(c, b * Ratio + i) = Prefix(full, b * Ratio + i)
        <5> TAKE i \in 1..Ratio
        <5>1. b * Ratio + i \in 1..(p + 1)
          <6>1. p + 1 \in Nat
            BY <2>1
          <6> HIDE DEF p
          <6> QED BY <1>4, <4>1, <4>3, <6>1, BlockCells
        <5>2. b * Ratio + i \in 0..(p + 1)
          BY <5>1
        <5> QED BY <2>3, <5>2
      <4> QED BY <1>7, <4>4, <4>5
    <3> QED BY <3>1, <3>2
  <2>7. ChoosesRight(pool, Biases(s, T)[k], p, c)
    BY <2>5, <2>6 DEF ChoosesRight
  <2> QED BY <2>4, <2>7 DEF c
<1>9. at = At(s.rs, toks)
  <2>1. \A k \in 1..T : 1..k \subseteq reads
    <3> HIDE DEF reads
    <3>1. \A k \in 1..T : \A i \in 1..k : i \in 1..T
      BY <1>3
    <3> QED BY <1>8, <3>1
  <2> DEFINE right == [k \in 1..T |-> 1..k \subseteq reads]
  <2>2. \A k \in 1..T : right[k]
    BY <2>1
  <2> HIDE DEF right
  <2>3. Residuals(s, toks, right) = [k \in DOMAIN toks |-> IF right[k] THEN s.rs \o Prefix(toks, k) ELSE Spoilt(s.rs \o Prefix(toks, k))]
    BY DEF Residuals
  <2>4. DOMAIN toks = 1..T
    BY <1>3
  <2>5. Residuals(s, toks, right) = [k \in 1..T |-> s.rs \o Prefix(toks, k)]
    BY <2>2, <2>3, <2>4
  <2> QED BY <2>5 DEF At, right
<1> HIDE DEF at
<1>10. at \in Seq(Seq(S)) /\ Len(at) = T /\ at[T] = full
  <2>1. Len(toks) >= 1
    BY <1>0
  <2> QED BY <1>3, <1>9, <2>1, AtType, ZenonT(40)
<1>11. Written(s.kv, s.past, at) = kv /\ kv = [c \in Cells |-> kv[c]]
  <2>1. Written(s.kv, s.past, at) = kv
    BY <1>3, <1>5, <1>9
  <2>2. \A q \in 0..(Len(s.rs) - 1) : s.kv[q] = Prefix(s.rs, q + 1)
    BY <1>2, <1>3 DEF Rows
  <2>3. Written(s.kv, Len(s.rs), At(s.rs, toks)) = [c \in Cells |-> Written(s.kv, Len(s.rs), At(s.rs, toks))[c]]
    BY <1>3, <2>2, WrittenIs
  <2> QED BY <1>5, <2>1, <2>3
<1>12. (IF verify /\ T >= 2 THEN Min({T - 1, MaxDrafts}) ELSE 0) \in Nat
  BY <1>3, <1>4, MinPair, SMTT(30)
<1>13. T >= 2 => Snapshots(s, at) = [k \in 1..(T - 1) |-> at[T - k]]
  <2>1. Min({T - 1, MaxDrafts}) = T - 1
    BY <1>0, <1>4, MinPair
  <2> HIDE DEF T
  <2>2. Snapshots(s, at) = IF T < 2 THEN s.snaps ELSE [k \in 1..Min({T - 1, MaxDrafts}) |-> at[T - k]]
    BY <1>10 DEF Snapshots
  <2> DEFINE m == Min({T - 1, MaxDrafts})
  <2> HIDE DEF m
  <2>3. m = T - 1
    BY <2>1 DEF m
  <2>4. T >= 2 => Snapshots(s, at) = [k \in 1..m |-> at[T - k]]
    BY <1>0, <2>2 DEF m
  <2> QED BY <2>3, <2>4
<1>14. /\ d.past = s.past + T /\ d.rs = full /\ d.kv = kv /\ d.pool = pool /\ d.rows = at /\ d.have
       /\ d.logits = at /\ d.snaps = Snapshots(s, at) /\ d.valid = s.valid /\ d.head = s.head
       /\ d.draft = s.draft /\ d.last = s.last /\ d.holes = s.holes /\ d.bias = s.bias /\ d.dirty = s.dirty
  BY <1>2, <1>10, <1>11 DEF IsEngine
<1>15. pool = [b \in Blocks |-> pool[b]]
  BY DEF pool
<1>16. IsEngine(d, S)
  <2>1. /\ d.past \in 0..Ctx /\ d.rs \in Seq(S) /\ d.rows \in Seq(Seq(S)) /\ d.have \in BOOLEAN
        /\ d.depth \in Nat
    BY <1>2, <1>3, <1>10, <1>12, <1>14 DEF IsEngine
  <2>2. d \in [past : 0..Ctx, rs : Seq(S), kv : {d.kv}, pool : {d.pool}, bias : {d.bias},
              dirty : BOOLEAN, rows : Seq(Seq(S)), have : BOOLEAN, valid : BOOLEAN, head : {d.head},
              draft : BOOLEAN, last : Int, snaps : {d.snaps}, depth : Nat, logits : {d.logits},
              holes : SUBSET Nat]
    BY <1>2, <2>1 DEF IsEngine
  <2>3. d.head = [c \in Cells |-> d.head[c]]
    BY <1>2, <1>14 DEF IsEngine
  <2> HIDE DEF d
  <2> QED BY <1>11, <1>14, <1>15, <2>2, <2>3 DEF IsEngine
<1> HIDE DEF d
<1>17. Rows(d) /\ Pooled(d)
  <2>1. d.past = s.past + T /\ d.rs = full /\ d.kv = kv /\ d.pool = pool
    BY <1>14
  <2>2. Rows(d)
    BY <1>3, <1>6, <2>1 DEF Rows
  <2>3. Pooled(d)
    BY <1>7, <2>1 DEF Pooled
  <2> QED BY <2>2, <2>3
<1> QED BY <1>1, <1>2, <1>9, <1>13, <1>14, <1>16, <1>17 DEF Decoded

---------------------------------------------------------------------------
\* The fields of a sound engine.
LEMMA SoundIs == ASSUME NEW S, NEW s, IsEngine(s, S), Rows(s) PROVE Sound(s, S)
<1>1. s.past \in 0..Ctx /\ s.rs \in Seq(S) /\ s.rows \in Seq(Seq(S)) /\ s.holes \in SUBSET Nat
      /\ s.have \in BOOLEAN /\ s.valid \in BOOLEAN /\ s.draft \in BOOLEAN /\ s.last \in Int
  BY DEF IsEngine
<1>2. Len(s.rs) = s.past
  BY DEF Rows
<1> QED BY <1>1, <1>2, Sized DEF Sound

\* The head.  What it does leaves the sequence alone.
Same(s, m) == /\ m.past = s.past /\ m.rs = s.rs /\ m.kv = s.kv /\ m.pool = s.pool /\ m.bias = s.bias
              /\ m.dirty = s.dirty

LEMMA SameCore ==
    ASSUME NEW s, NEW m, Same(s, m)
    PROVE  (Rows(s) => Rows(m)) /\ (Steady(s) => Steady(m)) /\ (Pooled(s) => Pooled(m))
BY DEF Same, Rows, Steady, Pooled, Behind, BiasFrom

\* Of m positions, the last k.
LastOf(m, k) ==
    /\ \A i \in 1..k : /\ m - k + i - 1 \in Cells
                       /\ m - k + i - 1 \in (m - k)..(m - 1)
                       /\ (m - k + i - 1) - (m - k) + 1 = i
    /\ \A p \in 0..(m - 1 - 1) : p > m - k - 1 =>
           LET i == p - (m - k) + 1
           IN i \in 1..(k - 1) /\ i \in 1..k /\ m - k + i - 1 = p /\ m - k + i = p + 1 /\ m - k + i + 1 = p + 2

LEMMA LastOnes == ASSUME NEW m \in Nat, m <= Ctx, NEW k \in Nat, k <= m PROVE LastOf(m, k)
BY Sized DEF Cells, LastOf

\* mtp_step() after a step whose last positions' residuals are kept: it pairs each with the token after.
Pairs(s, k, toks) ==
    /\ k <= s.past /\ Len(toks) = k /\ (s.valid => s.have)
    /\ s.valid => /\ Len(s.rows) >= k
                  /\ \A i \in 1..k : s.rows[Len(s.rows) - k + i] = Prefix(s.rs, s.past - k + i)
    /\ \A i \in 1..(k - 1) : toks[i] = s.rs[s.past - k + i + 1]
    /\ s.valid => RowsPaired(s, s.past - k)

Paired(s, m, t, S) ==
    /\ IsEngine(m, S) /\ Same(s, m) /\ Headed(m) /\ Closed(m, t) /\ (m.draft => m.last = m.past - 1)
    /\ m.rows = s.rows /\ m.have = s.have /\ m.valid = s.valid /\ m.holes = s.holes
    /\ m.logits = s.logits

LEMMA MtpStepIs ==
    ASSUME NEW S, NEW s, IsEngine(s, S), Len(s.rs) = s.past, NEW k \in Nat \ {0}, NEW toks, Pairs(s, k, toks)
    PROVE  Paired(s, MtpStep(s, toks), toks[k], S)
<1> SUFFICES ASSUME k <= s.past, Len(toks) = k, s.valid => s.have,
                    s.valid => /\ Len(s.rows) >= k
                               /\ \A i \in 1..k : s.rows[Len(s.rows) - k + i] = Prefix(s.rs, s.past - k + i),
                    \A i \in 1..(k - 1) : toks[i] = s.rs[s.past - k + i + 1],
                    s.valid => RowsPaired(s, s.past - k)
             PROVE  LET m == MtpStep(s, toks)
                    IN /\ IsEngine(m, S) /\ Same(s, m) /\ Headed(m) /\ Closed(m, toks[k])
                       /\ m.draft => m.last = m.past - 1
                       /\ m.rows = s.rows /\ m.have = s.have /\ m.valid = s.valid /\ m.holes = s.holes
                       /\ m.logits = s.logits
  BY DEF Pairs, Paired
<1>0. s.past \in Nat /\ s.past <= Ctx /\ s.rs \in Seq(S) /\ s.rows \in Seq(Seq(S)) /\ Len(s.rows) \in Nat
  BY Sized DEF IsEngine
<1>a. s.past \in Nat /\ s.past <= Ctx /\ k \in Nat /\ k > 0 /\ k <= s.past
  BY <1>0
<1>b. LastOf(s.past, k)
  BY <1>a, LastOnes
<1> DEFINE m == MtpStep(s, toks)
           vals == [i \in 1..k |-> <<s.rows[Len(s.rows) - k + i], toks[i]>>]
<1>1. CASE s.have /\ s.valid
  <2>1. Len(s.rows) >= k
    BY <1>1
  <2> DEFINE w == Written(s.head, s.past - k, vals)
             r == [s EXCEPT !.head = w, !.last = s.past - k + Len(vals) - 1, !.draft = TRUE]
  <2>2. m = r
    <3>1. MtpReady(s) /\ ~(Len(s.rows) < k) /\ ~(s.past < k)
      BY <1>0, <1>1, <2>1 DEF MtpReady
    <3> QED BY <3>1 DEF MtpStep, MtpDraft
  <2>3. Len(vals) = k
    OBVIOUS
  <2>4. w = [c \in Cells |-> IF c \in (s.past - k)..(s.past - 1) THEN vals[c - (s.past - k) + 1] ELSE s.head[c]]
    <3>1. s.past - k + k - 1 = s.past - 1
      BY <1>0
    <3> HIDE DEF vals
    <3> QED BY <2>3, <3>1 DEF Written
  <2>5. s.past - k + Len(vals) - 1 = s.past - 1
    BY <1>0, <2>3
  <2> HIDE DEF w, vals
  <2>6. /\ r.head = w /\ r.draft /\ r.last = s.past - 1 /\ r.past = s.past /\ r.rs = s.rs /\ r.kv = s.kv
        /\ r.pool = s.pool /\ r.bias = s.bias /\ r.dirty = s.dirty /\ r.rows = s.rows /\ r.have = s.have
        /\ r.valid = s.valid /\ r.holes = s.holes /\ r.logits = s.logits
    BY <2>5 DEF IsEngine
  <2>7. IsEngine(r, S)
    <3>1. r \in [past : 0..Ctx, rs : Seq(S), kv : {r.kv}, pool : {r.pool}, bias : {r.bias},
              dirty : BOOLEAN, rows : Seq(Seq(S)), have : BOOLEAN, valid : BOOLEAN, head : {r.head},
              draft : BOOLEAN, last : Int, snaps : {r.snaps}, depth : Nat, logits : {r.logits},
              holes : SUBSET Nat]
      <4>1. s.past - k + Len(vals) - 1 \in Int
        BY <1>a, <2>5
      <4>2. IsEngine(s, S)
        OBVIOUS
      <4> HIDE DEF w
      <4> QED BY <4>1, <4>2 DEF IsEngine, r
    <3>2. r.kv = [c \in Cells |-> r.kv[c]] /\ r.pool = [b \in Blocks |-> r.pool[b]]
      BY <2>6 DEF IsEngine
    <3>3. w = [c \in Cells |-> w[c]]
      BY <2>4
    <3> HIDE DEF r
    <3> QED BY <2>6, <3>1, <3>2, <3>3 DEF IsEngine
  <2> HIDE DEF r
  <2>8. \A p \in 0..(s.past - k - 1) : w[p] = s.head[p]
    <3> TAKE p \in 0..(s.past - k - 1)
    <3>1. p \in Cells /\ p \notin (s.past - k)..(s.past - 1)
      BY <1>0, Sized DEF Cells
    <3> QED BY <2>4, <3>1
  <2>9. \A i \in 1..k : w[s.past - k + i - 1] = <<Prefix(s.rs, s.past - k + i), toks[i]>>
    <3> TAKE i \in 1..k
    <3>1. s.past - k + i - 1 \in Cells /\ s.past - k + i - 1 \in (s.past - k)..(s.past - 1)
          /\ (s.past - k + i - 1) - (s.past - k) + 1 = i
      BY <1>b DEF LastOf
    <3>2. w[s.past - k + i - 1] = vals[i]
      BY <2>4, <3>1
    <3> QED BY <1>1, <3>2 DEF vals
  <2>10. RowsPaired(r, r.past - 1)
    <3> SUFFICES ASSUME NEW p \in 0..(s.past - 1 - 1)
                 PROVE  p \in s.holes \/ w[p] = <<Prefix(s.rs, p + 1), s.rs[p + 2]>>
      BY <2>6 DEF RowsPaired
    <3>1. CASE p <= s.past - k - 1
      <4>1. p \in 0..(s.past - k - 1)
        BY <1>0, <3>1
      <4> QED BY <1>1, <2>8, <4>1 DEF RowsPaired
    <3>2. CASE p > s.past - k - 1
      <4> DEFINE i == p - (s.past - k) + 1
      <4>1. i \in 1..(k - 1) /\ i \in 1..k /\ s.past - k + i - 1 = p /\ s.past - k + i = p + 1
            /\ s.past - k + i + 1 = p + 2
        BY <1>b, <3>2 DEF LastOf
      <4> HIDE DEF i
      <4>2. w[p] = <<Prefix(s.rs, p + 1), toks[i]>>
        BY <2>9, <4>1
      <4>3. toks[i] = s.rs[p + 2]
        BY <4>1
      <4> QED BY <4>2, <4>3
    <3> QED BY <1>0, <3>1, <3>2, SMTT(30)
  <2>11. w[s.past - 1] = <<s.rs, toks[k]>>
    <3>1. k \in 1..k /\ s.past - k + k - 1 = s.past - 1 /\ s.past - k + k = Len(s.rs)
      BY <1>0
    <3>2. Prefix(s.rs, Len(s.rs)) = s.rs
      BY <1>0, PrefixAll
    <3> QED BY <2>9, <3>1, <3>2
  <2>12. Len(s.rows) >= 1 /\ s.rows[Len(s.rows)] = s.rs
    <3>1. k \in 1..k /\ Len(s.rows) - k + k = Len(s.rows) /\ s.past - k + k = Len(s.rs)
      BY <1>0
    <3>2. s.rows[Len(s.rows)] = Prefix(s.rs, Len(s.rs))
      BY <1>1, <3>1
    <3> QED BY <1>0, <2>1, <3>2, PrefixAll
  <2>13. Headed(r)
    BY <1>0, <1>1, <2>6, <2>10, <2>12 DEF Headed
  <2>14. Closed(r, toks[k])
    BY <2>6, <2>11 DEF Closed
  <2> QED BY <2>2, <2>6, <2>7, <2>13, <2>14 DEF Same
<1>2. CASE ~s.valid
  <2> DEFINE r == [s EXCEPT !.draft = FALSE]
  <2>1. m = r
    BY <1>2 DEF MtpStep, MtpReady
  <2>2. /\ r.head = s.head /\ ~r.draft /\ r.past = s.past /\ r.rs = s.rs /\ r.kv = s.kv
        /\ r.pool = s.pool /\ r.bias = s.bias /\ r.dirty = s.dirty /\ r.rows = s.rows /\ r.have = s.have
        /\ r.valid = s.valid /\ r.holes = s.holes /\ r.logits = s.logits
    BY DEF IsEngine
  <2>3. IsEngine(r, S)
    BY DEF IsEngine
  <2> HIDE DEF r
  <2>4. Headed(r) /\ Closed(r, toks[k])
    BY <1>2, <2>2 DEF Headed, Closed, MtpReady
  <2> QED BY <2>1, <2>2, <2>3, <2>4 DEF Same
<1> QED BY <1>1, <1>2 DEF IsEngine

\* mtp_step() for the last position alone.
LEMMA MtpStepOne ==
    ASSUME NEW S, NEW s, Good(s, S), s.past > 0, NEW t
    PROVE  LET m == MtpStep(s, <<t>>)
           IN /\ Good(m, S) /\ Closed(m, t) /\ Same(s, m)
              /\ m.draft => m.last = m.past - 1
              /\ m.rows = s.rows /\ m.have = s.have /\ m.valid = s.valid /\ m.holes = s.holes
              /\ m.logits = s.logits
<1> DEFINE toks == <<t>>  m == MtpStep(s, toks)
<1>0. s.past \in Nat /\ s.rs \in Seq(S) /\ s.rows \in Seq(Seq(S)) /\ IsEngine(s, S) /\ Len(s.rs) = s.past
  BY DEF IsEngine, Good, Rows
<1>1. Len(toks) = 1 /\ toks[1] = t
  OBVIOUS
<1> HIDE DEF toks
<1>2. s.valid => s.have
  BY DEF Good, Headed
<1>3. s.valid => /\ Len(s.rows) >= 1
                 /\ \A i \in 1..1 : s.rows[Len(s.rows) - 1 + i] = Prefix(s.rs, s.past - 1 + i)
  <2> SUFFICES ASSUME s.valid PROVE Len(s.rows) >= 1 /\ \A i \in 1..1 : s.rows[Len(s.rows) - 1 + i] = Prefix(s.rs, s.past - 1 + i)
    OBVIOUS
  <2>1. Len(s.rows) >= 1 /\ s.rows[Len(s.rows)] = s.rs
    BY DEF Good, Headed
  <2>2. Prefix(s.rs, s.past) = s.rs
    BY <1>0, PrefixAll
  <2>3. \A i \in 1..1 : Len(s.rows) - 1 + i = Len(s.rows) /\ s.past - 1 + i = s.past
    BY <1>0
  <2> QED BY <2>1, <2>2, <2>3
<1>4. s.valid => RowsPaired(s, s.past - 1)
  BY <1>0 DEF Good, Headed
<1>5. 1 \in Nat \ {0} /\ 1 <= s.past
  BY <1>0
<1>6. \A i \in 1..(1 - 1) : toks[i] = s.rs[s.past - 1 + i + 1]
  OBVIOUS
<1>7. /\ IsEngine(m, S) /\ Same(s, m) /\ Headed(m) /\ Closed(m, toks[1])
      /\ m.draft => m.last = m.past - 1
      /\ m.rows = s.rows /\ m.have = s.have /\ m.valid = s.valid /\ m.holes = s.holes
      /\ m.logits = s.logits
  <2>1. Pairs(s, 1, toks)
    BY <1>1, <1>2, <1>3, <1>4, <1>5, <1>6 DEF Pairs
  <2>2. Paired(s, m, toks[1], S)
    BY <1>0, <1>5, <2>1, MtpStepIs
  <2> QED BY <2>2 DEF Paired
<1>8. Rows(m) /\ Steady(m)
  BY <1>7, SameCore DEF Good
<1> QED BY <1>1, <1>7, <1>8 DEF Good, toks

---------------------------------------------------------------------------
\* The prompt.  One token at a time: the row left open stays so.
Evaluated(s, toks, d, S) ==
    /\ Good(d, S) /\ d.past = s.past + Len(toks) /\ d.rs = s.rs \o toks
    /\ Len(toks) > 0 => Len(d.logits) >= 1 /\ Last(d.logits) = d.rs

LEMMA EvalOneIs ==
    ASSUME NEW S, NEW s, Good(s, S), NEW t \in S, s.past + 1 <= Ctx
    PROVE  Evaluated(s, <<t>>, EvalOne(s, t), S)
<1> DEFINE toks == <<t>>  d == EvalDecode(s, toks, FALSE)
           holes == IF s.past > 0 THEN s.holes \cup {s.past - 1} ELSE s.holes
           o == [d EXCEPT !.holes = holes]
<1>0. IsEngine(s, S) /\ Rows(s) /\ Steady(s) /\ s.past \in Nat /\ s.rs \in Seq(S) /\ Len(s.rs) = s.past
  BY SoundIs DEF Good, Sound
<1>1. toks \in Seq(S) /\ Len(toks) = 1 /\ Len(toks) \in 1..(1 + MaxDrafts) /\ s.past + Len(toks) <= Ctx
      /\ FALSE \in BOOLEAN
  BY Sized
<1>2. EvalOne(s, t) = [d EXCEPT !.holes = IF s.past > 0 THEN @ \cup {s.past - 1} ELSE @]
  BY DEF EvalOne
<1> HIDE DEF toks, d
<1>3. /\ IsEngine(d, S) /\ d.past = s.past + 1 /\ d.rs = s.rs \o toks
      /\ Rows(d) /\ Pooled(d) /\ ~d.dirty /\ d.bias = BiasOf(s.past)
      /\ d.rows = At(s.rs, toks) /\ d.logits = At(s.rs, toks) /\ d.have
      /\ d.valid = s.valid /\ d.head = s.head /\ d.holes = s.holes
  <2>1. Decoded(s, toks, d, S)
    BY <1>0, <1>1, EvalDecodeIs DEF d
  <2> QED BY <1>1, <2>1 DEF Decoded
<1>4. EvalOne(s, t) = o
  BY <1>2, <1>3
<1>5. holes \in SUBSET Nat
  BY <1>0 DEF IsEngine
<1>6. /\ IsEngine(o, S) /\ o.past = d.past /\ o.rs = d.rs /\ o.kv = d.kv /\ o.pool = d.pool /\ o.bias = d.bias
      /\ o.dirty = d.dirty /\ o.rows = d.rows /\ o.logits = d.logits /\ o.have = d.have /\ o.valid = d.valid
      /\ o.head = d.head /\ o.holes = holes
  BY <1>3, <1>5 DEF IsEngine
<1> HIDE DEF o
<1>7. Rows(o) /\ Pooled(o)
  BY <1>3, <1>6, SameCore DEF Same
<1>8. Steady(o)
  <2>1. o.bias = [b \in Blocks |-> o.bias[b]] /\ \A b \in Blocks : o.bias[b] = BlockBias(s.past, b)
    BY <1>3, <1>6 DEF BiasOf
  <2>2. s.past < o.past /\ o.past <= s.past + 1 + MaxDrafts
    BY <1>0, <1>3, <1>6, Sized
  <2> QED BY <1>0, <1>7, <2>1, <2>2 DEF Steady, Behind, BiasFrom
<1>9. /\ At(s.rs, toks) \in Seq(Seq(S)) /\ Len(At(s.rs, toks)) = 1 /\ At(s.rs, toks)[1] = s.rs \o toks
  <2>1. Len(toks) >= 1
    BY <1>1
  <2>2. At(s.rs, toks)[Len(toks)] = s.rs \o toks /\ At(s.rs, toks) \in Seq(Seq(S)) /\ Len(At(s.rs, toks)) = Len(toks)
    BY <1>0, <1>1, <2>1, AtType
  <2> QED BY <1>1, <2>2
<1>10. Headed(o)
  <2> SUFFICES ASSUME s.valid
               PROVE  /\ o.have /\ Len(o.rows) >= 1 /\ o.rows[Len(o.rows)] = o.rs
                      /\ RowsPaired(o, o.past - 1)
    BY <1>3, <1>6 DEF Headed
  <2>1. o.have /\ Len(o.rows) >= 1 /\ o.rows[Len(o.rows)] = o.rs
    BY <1>3, <1>6, <1>9
  <2>2. ASSUME NEW p \in 0..(s.past - 1)
        PROVE  p \in o.holes \/ o.head[p] = <<Prefix(o.rs, p + 1), o.rs[p + 2]>>
    <3>1. CASE p = s.past - 1
      <4>1. s.past > 0
        BY <1>0, <2>2
      <4> QED BY <1>6, <3>1, <4>1
    <3>2. CASE p # s.past - 1
      <4>1. p \in 0..(s.past - 1 - 1) /\ p + 1 \in 0..Len(s.rs) /\ p + 2 \in 1..Len(s.rs)
        BY <1>0, <3>2
      <4>2. p \in s.holes \/ s.head[p] = <<Prefix(s.rs, p + 1), s.rs[p + 2]>>
        BY <4>1 DEF Good, Headed, RowsPaired
      <4>3. Prefix(o.rs, p + 1) = Prefix(s.rs, p + 1) /\ o.rs[p + 2] = s.rs[p + 2]
        <5>1. o.rs = s.rs \o toks
          BY <1>3, <1>6
        <5>2. (s.rs \o toks)[p + 2] = s.rs[p + 2]
          BY <1>0, <1>1, <4>1
        <5> QED BY <1>0, <1>1, <4>1, <5>1, <5>2, PrefixOfCat
      <4> QED BY <1>3, <1>6, <4>2, <4>3
    <3> QED BY <3>1, <3>2
  <2>3. o.past - 1 - 1 = s.past - 1
    BY <1>0, <1>3, <1>6
  <2> QED BY <2>1, <2>2, <2>3 DEF RowsPaired
<1>11. Len(o.logits) >= 1 /\ Last(o.logits) = o.rs
  BY <1>3, <1>6, <1>9 DEF Last
<1> QED BY <1>1, <1>3, <1>4, <1>6, <1>7, <1>8, <1>10, <1>11 DEF Evaluated, Good, toks

\* The passes of a prompt taken one token at a time ...
Passes(s, toks, f) == f = [k \in 0..Len(toks) |-> IF k = 0 THEN s ELSE EvalOne(f[k - 1], toks[k])]

LEMMA PassesExist == ASSUME NEW S, NEW s, NEW toks \in Seq(S) PROVE \E f : Passes(s, toks, f)
<1> DEFINE Def(m, f) == f = [k \in 0..m |-> IF k = 0 THEN s ELSE EvalOne(f[k - 1], toks[k])]
           Bad == {m \in Nat : ~\E f : Def(m, f)}
<1>1. SUFFICES Bad = {}
  <2>1. Len(toks) \in Nat
    OBVIOUS
  <2> QED BY <1>1, <2>1 DEF Passes
<1>2. SUFFICES ASSUME Bad # {} PROVE FALSE
  OBVIOUS
<1>3. PICK m \in Bad : \A k \in Bad : m <= k
  BY <1>2, LeastNat
<1>4. m # 0
  <2>1. Def(0, [k \in 0..0 |-> s])
    OBVIOUS
  <2> QED BY <2>1
<1>5. m - 1 \in Nat /\ m - 1 \notin Bad
  <2>1. m \in Nat /\ m - 1 \in Nat
    BY <1>3, <1>4
  <2>2. m - 1 \in Bad => m <= m - 1
    BY <1>3
  <2> QED BY <2>1, <2>2
<1>6. PICK f : Def(m - 1, f)
  BY <1>5
<1> DEFINE g == [k \in 0..m |-> IF k = m THEN EvalOne(f[m - 1], toks[m]) ELSE f[k]]
<1>7. Def(m, g)
  <2>1. ASSUME NEW k \in 0..m
        PROVE  g[k] = IF k = 0 THEN s ELSE EvalOne(g[k - 1], toks[k])
    <3>1. CASE k = m
      BY <1>4, <1>5, <3>1
    <3>2. CASE k # m
      <4>1. k \in 0..(m - 1) /\ (k # 0 => k - 1 \in 0..(m - 1) /\ k - 1 # m)
        BY <3>2
      <4>2. g[k] = f[k] /\ (k # 0 => g[k - 1] = f[k - 1])
        BY <3>2, <4>1
      <4>3. f[k] = IF k = 0 THEN s ELSE EvalOne(f[k - 1], toks[k])
        BY <1>6, <4>1
      <4> QED BY <4>2, <4>3
    <3> QED BY <3>1, <3>2
  <2> HIDE DEF Def
  <2>2. g = [k \in 0..m |-> g[k]]
    OBVIOUS
  <2>3. [k \in 0..m |-> g[k]] = [k \in 0..m |-> IF k = 0 THEN s ELSE EvalOne(g[k - 1], toks[k])]
    BY <2>1
  <2>4. g = [k \in 0..m |-> IF k = 0 THEN s ELSE EvalOne(g[k - 1], toks[k])]
    BY <2>2, <2>3
  <2> QED BY <2>4 DEF Def
<1> QED BY <1>3, <1>7

\* ... evaluate it.
LEMMA OneByOneIs ==
    ASSUME NEW S, NEW s, Good(s, S), NEW toks \in Seq(S), s.past + Len(toks) <= Ctx
    PROVE  Evaluated(s, toks, OneByOne(s, toks), S)
<1> DEFINE f == CHOOSE f : Passes(s, toks, f)
           T == Len(toks)
           Fine(k) == Evaluated(s, Prefix(toks, k), f[k], S)
           Bad == {k \in 0..T : ~Fine(k)}
<1>0. Sound(s, S) /\ T \in Nat
  BY SoundIs DEF Good
<1>1. Passes(s, toks, f)
  BY PassesExist
<1>2. OneByOne(s, toks) = f[T]
  BY DEF OneByOne, Passes
<1> HIDE DEF f
<1>3. \A k \in 0..T : f[k] = IF k = 0 THEN s ELSE EvalOne(f[k - 1], toks[k])
  BY <1>1 DEF Passes
<1>4. Bad = {}
  <2> SUFFICES ASSUME Bad # {} PROVE FALSE
    OBVIOUS
  <2>1. Bad \in SUBSET Nat
    BY <1>0
  <2>2. PICK k \in Bad : \A j \in Bad : k <= j
    BY <2>1, LeastNat
  <2>3. k \in 0..T /\ ~Fine(k)
    OBVIOUS
  <2>4. CASE k = 0
    <3>1. f[0] = s /\ Prefix(toks, 0) = <<>> /\ Len(<<>>) = 0
      BY <1>0, <1>3 DEF Prefix
    <3>2. s.rs \o <<>> = s.rs /\ s.past + 0 = s.past
      BY <1>0 DEF Sound
    <3>3. Evaluated(s, <<>>, s, S)
      BY <3>1, <3>2 DEF Evaluated
    <3> QED BY <2>3, <2>4, <3>1, <3>3
  <2>5. CASE k # 0
    <3>1. k - 1 \in 0..T /\ k - 1 \notin Bad /\ k \in 1..T
      <4>1. k - 1 \in 0..T /\ k \in 1..T
        BY <1>0, <2>3, <2>5
      <4>2. k - 1 \in Bad => k <= k - 1
        BY <2>2
      <4> QED BY <2>3, <4>1, <4>2
    <3>2. Fine(k - 1)
      BY <3>1
    <3> DEFINE c == f[k - 1]  t == toks[k]  pre == Prefix(toks, k - 1)
    <3>3. Prefix(toks, k) = Append(pre, t) /\ pre \in Seq(S) /\ Len(pre) = k - 1 /\ t \in S
      <4>1. k - 1 \in 0..(Len(toks) - 1) /\ (k - 1) + 1 = k /\ k - 1 \in 0..Len(toks)
        BY <1>0, <3>1
      <4>2. Prefix(toks, (k - 1) + 1) = Append(Prefix(toks, k - 1), toks[(k - 1) + 1])
        BY <4>1, PrefixNext
      <4>3. pre \in Seq(S) /\ Len(pre) = k - 1
        BY <4>1, PrefixType
      <4> QED BY <3>1, <4>1, <4>2, <4>3
    <3>4. Good(c, S) /\ c.past = s.past + (k - 1) /\ c.rs = s.rs \o pre
      BY <3>2, <3>3 DEF Evaluated
    <3>5. c.past + 1 <= Ctx
      <4>1. \A x, y, z \in Int : k \in 1..y /\ x + y <= z => (x + (k - 1)) + 1 <= z
        OBVIOUS
      <4>2. s.past \in Int /\ T \in Int /\ Ctx \in Int /\ s.past + T <= Ctx
        BY <1>0, Sized DEF Sound
      <4> HIDE DEF c, T
      <4> QED BY <3>1, <3>4, <4>1, <4>2
    <3> HIDE DEF c, t, pre
    <3>6. Evaluated(c, <<t>>, EvalOne(c, t), S)
      BY <3>3, <3>4, <3>5, EvalOneIs
    <3>7. f[k] = EvalOne(c, t)
      BY <1>3, <2>3, <2>5 DEF c, t
    <3>8. /\ (s.rs \o pre) \o <<t>> = s.rs \o Append(pre, t)
          /\ (s.past + (k - 1)) + 1 = s.past + Len(Append(pre, t)) /\ Len(<<t>>) = 1
      <4>1. s.past \in Nat /\ s.rs \in Seq(S) /\ k \in Nat
        BY <1>0, <3>1 DEF Sound
      <4>2. pre \in Seq(S) /\ t \in S /\ Len(pre) = k - 1
        BY <3>3
      <4>3. (s.rs \o pre) \o <<t>> = s.rs \o Append(pre, t) /\ Len(<<t>>) = 1 /\ Len(Append(pre, t)) = Len(pre) + 1
        <5> DEFINE r == s.rs
        <5>1. r \in Seq(S)
          BY <4>1
        <5> HIDE DEF r
        <5>2. (r \o pre) \o <<t>> = r \o Append(pre, t) /\ Len(<<t>>) = 1 /\ Len(Append(pre, t)) = Len(pre) + 1
          BY <4>2, <5>1, CatNext
        <5> QED BY <5>2 DEF r
      <4>4. Len(pre) + 1 = k /\ (s.past + (k - 1)) + 1 = s.past + k
        BY <4>1, <4>2
      <4> QED BY <4>3, <4>4
    <3>9. Evaluated(s, Append(pre, t), f[k], S)
      <4> DEFINE x == f[k]
      <4>1. Evaluated(c, <<t>>, x, S)
        BY <3>6, <3>7
      <4> HIDE DEF x
      <4>2. Good(x, S) /\ x.past = c.past + Len(<<t>>) /\ x.rs = c.rs \o <<t>> /\ Len(x.logits) >= 1
            /\ Last(x.logits) = x.rs
        <5>1. Len(<<t>>) > 0
          BY <3>8
        <5> QED BY <4>1, <5>1 DEF Evaluated
      <4>3. x.past = s.past + Len(Append(pre, t)) /\ x.rs = s.rs \o Append(pre, t)
        BY <3>4, <3>8, <4>2
      <4> QED BY <4>2, <4>3 DEF Evaluated, x
    <3> QED BY <2>3, <3>3, <3>9
  <2> QED BY <2>4, <2>5
<1>5. Fine(T)
  <2>1. T \in 0..T
    BY <1>0
  <2> QED BY <1>4, <2>1
<1>6. Prefix(toks, T) = toks
  BY PrefixAll
<1> QED BY <1>2, <1>5, <1>6

\* A prompt batch first pairs the row left open with its first token.
Gapless(s, t, c, S) ==
    /\ IsEngine(c, S) /\ Same(s, c) /\ c.holes = s.holes
    /\ c.valid => RowsPaired(c, c.past - 1) /\ (c.past > 0 => Closed(c, t) /\ c.have)

LEMMA CloseGapIs ==
    ASSUME NEW S, NEW s, Good(s, S), NEW t
    PROVE  Gapless(s, t, CloseGap(s, t), S)
<1>0. Sound(s, S)
  BY SoundIs DEF Good
<1>1. CASE ~s.valid \/ s.past = 0
  <2>1. CloseGap(s, t) = s
    BY <1>1 DEF CloseGap
  <2>2. s.valid => RowsPaired(s, s.past - 1)
    BY DEF Good, Headed
  <2> QED BY <1>0, <1>1, <2>1, <2>2 DEF Gapless, Good, Same, Sound
<1>2. CASE s.valid /\ s.past # 0
  <2>1. s.past > 0 /\ s.have /\ Len(s.rows) >= 1
    BY <1>0, <1>2 DEF Good, Headed, Sound
  <2> DEFINE m == MtpStep(s, <<t>>)
  <2>2. CloseGap(s, t) = m
    BY <1>2, <2>1 DEF CloseGap
  <2>3. Good(m, S) /\ Closed(m, t) /\ Same(s, m) /\ m.have = s.have /\ m.valid = s.valid /\ m.holes = s.holes
    BY <2>1, MtpStepOne
  <2> HIDE DEF m
  <2> QED BY <2>1, <2>2, <2>3 DEF Gapless, Good, Headed
<1> QED BY <1>0, <1>1, <1>2 DEF Sound

\* A prompt batch evaluates its tokens, and pairs its own rows but the last.
Batched(s, toks, b, S) ==
    /\ IsEngine(b, S) /\ b.past = s.past + Len(toks) /\ b.rs = s.rs \o toks
    /\ Rows(b) /\ b.dirty /\ b.have /\ b.rows = At(s.rs, toks) /\ b.logits = <<b.rs>>
    /\ b.valid => RowsPaired(b, b.past - 1)

LEMMA BatchIs ==
    ASSUME NEW S, NEW s0, Good(s0, S), NEW toks \in Seq(S), Len(toks) >= 1, s0.past + Len(toks) <= Ctx
    PROVE  Batched(s0, toks, Batch(s0, toks), S)
<1> DEFINE s == CloseGap(s0, Head(toks))
           T == Len(toks)
           at == Residuals(s, toks, [k \in 1..T |-> PromptSees(s)])
           vals == [i \in 1..(T - 1) |-> <<at[i], toks[i + 1]>>]
           head == IF s.valid THEN Written(s.head, s.past, vals) ELSE s.head
           kv == Written(s.kv, s.past, at)
           b == [s EXCEPT !.past = s.past + T, !.rs = at[T], !.kv = kv, !.dirty = TRUE,
                          !.rows = at, !.have = TRUE, !.logits = <<at[T]>>, !.head = head]
<1>1. Gapless(s0, toks[1], s, S)
  <2>1. Head(toks) = toks[1]
    OBVIOUS
  <2> QED BY <2>1, CloseGapIs
<1>2. Batch(s0, toks) = [s EXCEPT !.past = @ + T, !.rs = at[T], !.kv = Written(@, s.past, at), !.dirty = TRUE,
                 !.rows = at, !.have = TRUE, !.logits = <<at[T]>>,
                 !.head = IF s.valid THEN Written(@, s.past, vals) ELSE @]
  BY DEF Batch
<1> HIDE DEF s
<1>3. Batch(s0, toks) = b
  <2> HIDE DEF vals, at, T
  <2> QED BY <1>2
<1>4. IsEngine(s, S) /\ Rows(s) /\ Sound(s, S) /\ s.past = s0.past /\ s.rs = s0.rs /\ s.holes = s0.holes
  <2>1. IsEngine(s, S) /\ Same(s0, s) /\ s.holes = s0.holes
    BY <1>1 DEF Gapless
  <2>2. Rows(s)
    BY <2>1, SameCore DEF Good
  <2> QED BY <2>1, <2>2, SoundIs DEF Same
<1>5. s.past \in Nat /\ T \in Nat /\ T >= 1 /\ s.past + T <= Ctx
  BY <1>4 DEF Sound
<1>6. s.rs \in Seq(S) /\ Len(s.rs) = s.past
  BY <1>4 DEF Sound
<1>7. at = At(s.rs, toks)
  <2>1. PromptSees(s)
    <3>1. CASE s.past = 0
      BY <3>1 DEF PromptSees
    <3>2. CASE s.past # 0
      BY <1>4 DEF PromptSees, RowsOf, Rows
    <3> QED BY <3>1, <3>2
  <2>2. DOMAIN toks = 1..T
    OBVIOUS
  <2> DEFINE right == [k \in 1..T |-> PromptSees(s)]
  <2>3. \A k \in 1..T : right[k]
    BY <2>1
  <2> HIDE DEF right
  <2>4. Residuals(s, toks, right) = [k \in DOMAIN toks |-> IF right[k] THEN s.rs \o Prefix(toks, k) ELSE Spoilt(s.rs \o Prefix(toks, k))]
    BY DEF Residuals
  <2> QED BY <2>2, <2>3, <2>4 DEF At, right
<1> HIDE DEF at
<1> DEFINE r == s.rs  m == s.past
<1>8. /\ at \in Seq(Seq(S)) /\ Len(at) = T /\ at[T] = r \o toks
      /\ \A k \in 1..T : at[k] = Prefix(r \o toks, m + k)
  <2>1. r \in Seq(S) /\ m = Len(r) /\ at = At(r, toks) /\ Len(toks) >= 1
    BY <1>6, <1>7
  <2> HIDE DEF r, m
  <2> QED BY <2>1, AtType
<1>9. /\ kv = [c \in Cells |-> kv[c]]
      /\ \A q \in 0..(m + T - 1) : kv[q] = Prefix(r \o toks, q + 1)
  <2> DEFINE old == s.kv
  <2>1. r \in Seq(S) /\ m = Len(r) /\ Len(r) + Len(toks) <= Ctx /\ kv = Written(old, Len(r), At(r, toks))
    BY <1>5, <1>6, <1>7
  <2>2. \A q \in 0..(Len(r) - 1) : old[q] = Prefix(r, q + 1)
    BY <1>4, <1>6 DEF Rows
  <2> HIDE DEF r, m, kv, old
  <2> QED BY <2>1, <2>2, WrittenIs
<1>10. r \in Seq(S) /\ Len(r) = m /\ r \o toks \in Seq(S) /\ Len(r \o toks) = m + T
  BY <1>6
<1>11. /\ head = [c \in Cells |-> head[c]]
       /\ s.valid => /\ \A p \in 0..(m - 1) : head[p] = s.head[p]
                     /\ \A i \in 1..(T - 1) : head[m + i - 1] = <<at[i], toks[i + 1]>>
  <2>1. CASE ~s.valid
    BY <1>4, <2>1 DEF IsEngine
  <2>2. CASE s.valid
    <3>1. Len(vals) = T - 1
      BY <1>5
    <3>2. head = [c \in Cells |-> IF c \in m..(m + (T - 1) - 1) THEN vals[c - m + 1] ELSE s.head[c]]
      <4> HIDE DEF vals, T
      <4> QED BY <2>2, <3>1 DEF Written
    <3> HIDE DEF head, vals, T, m
    <3>3. m \in Nat /\ T \in Nat /\ T >= 1 /\ m + T <= Ctx
      BY <1>5 DEF m
    <3>4. \A p \in 0..(m - 1) : p \in Cells /\ p \notin m..(m + (T - 1) - 1)
      BY <3>3, Sized DEF Cells
    <3>5. \A i \in 1..(T - 1) : m + i - 1 \in Cells /\ m + i - 1 \in m..(m + (T - 1) - 1) /\ (m + i - 1) - m + 1 = i
      BY <3>3, Sized DEF Cells
    <3>6. \A p \in 0..(m - 1) : head[p] = s.head[p]
      BY <3>2, <3>4
    <3>7. \A i \in 1..(T - 1) : head[m + i - 1] = vals[i]
      BY <3>2, <3>5
    <3>8. head = [c \in Cells |-> head[c]]
      BY <3>2
    <3> QED BY <3>6, <3>7, <3>8 DEF vals
  <2> QED BY <1>4, <2>1, <2>2 DEF Sound
<1> HIDE DEF head, kv
<1>12. /\ b.past = m + T /\ b.rs = r \o toks /\ b.kv = kv /\ b.dirty /\ b.rows = at /\ b.have
       /\ b.logits = <<r \o toks>> /\ b.head = head /\ b.valid = s.valid /\ b.holes = s.holes /\ b.pool = s.pool
  BY <1>4, <1>8 DEF IsEngine
<1>13. IsEngine(b, S)
  <2>1. b.past \in 0..Ctx /\ b.rs \in Seq(S) /\ b.rows \in Seq(Seq(S))
    BY <1>5, <1>8, <1>10, <1>12
  <2>2. s.pool = [x \in Blocks |-> s.pool[x]]
    BY <1>4 DEF IsEngine
  <2>3. b \in [past : 0..Ctx, rs : Seq(S), kv : {b.kv}, pool : {b.pool}, bias : {b.bias},
              dirty : BOOLEAN, rows : Seq(Seq(S)), have : BOOLEAN, valid : BOOLEAN, head : {b.head},
              draft : BOOLEAN, last : Int, snaps : {b.snaps}, depth : Nat, logits : {b.logits},
              holes : SUBSET Nat]
    BY <1>4, <2>1 DEF IsEngine
  <2> HIDE DEF b
  <2> QED BY <1>9, <1>11, <1>12, <2>2, <2>3 DEF IsEngine
<1> HIDE DEF b
<1>14. Rows(b)
  <2> HIDE DEF r, m, T
  <2>1. b.past = m + T /\ b.rs = r \o toks /\ b.kv = kv
    BY <1>12
  <2>2. m \in Nat /\ T \in Nat
    BY <1>5 DEF m
  <2>3. Len(b.rs) = b.past
    BY <1>10, <2>1
  <2>4. ASSUME NEW q \in 0..(b.past - 1) PROVE b.kv[q] = Prefix(b.rs, q + 1)
    <3>1. q \in 0..(m + T - 1)
      <4>1. b.past = m + T
        BY <2>1
      <4> QED BY <2>2, <4>1
    <3>2. kv[q] = Prefix(r \o toks, q + 1)
      BY <1>9, <3>1
    <3> QED BY <2>1, <3>2
  <2> QED BY <2>3, <2>4 DEF Rows
<1>15. ASSUME b.valid PROVE RowsPaired(b, b.past - 1)
  <2> HIDE DEF r, m, T
  <2>0. m \in Nat /\ T \in Nat /\ T >= 1
    BY <1>5 DEF m
  <2>1. s.valid
    BY <1>12, <1>15
  <2>2. ASSUME NEW p \in 0..(m + T - 1 - 1)
        PROVE  p \in s.holes \/ head[p] = <<Prefix(r \o toks, p + 1), (r \o toks)[p + 2]>>
    <3>1. CASE p < m - 1
      <4>1. p \in 0..(m - 1 - 1) /\ p \in 0..(m - 1) /\ p + 1 \in 0..Len(r) /\ p + 2 \in 1..Len(r)
        BY <1>10, <2>0, <3>1
      <4>2. p \in s.holes \/ s.head[p] = <<Prefix(r, p + 1), r[p + 2]>>
        BY <1>1, <2>1, <4>1 DEF Gapless, RowsPaired, r, m
      <4>3. Prefix(r \o toks, p + 1) = Prefix(r, p + 1)
        BY <1>10, <4>1, PrefixOfCat
      <4>4. (r \o toks)[p + 2] = r[p + 2]
        BY <1>10, <4>1
      <4> QED BY <1>11, <2>1, <4>1, <4>2, <4>3, <4>4
    <3>2. CASE p = m - 1
      <4>1. m > 0 /\ p \in 0..(m - 1) /\ p + 1 = m /\ p + 2 = m + 1
        BY <2>0, <2>2, <3>2
      <4>2. Closed(s, toks[1]) /\ s.have
        BY <1>1, <2>1, <4>1 DEF Gapless, m
      <4>3. p \in s.holes \/ s.head[p] = <<r, toks[1]>>
        BY <2>1, <3>2, <4>2 DEF Closed, MtpReady, r, m
      <4>4. Prefix(r \o toks, m) = r
        <5>1. m \in 0..Len(r) /\ Len(r) = m
          BY <1>10, <2>0
        <5>2. Prefix(r \o toks, m) = Prefix(r, m)
          BY <1>10, <5>1, PrefixOfCat
        <5> QED BY <1>10, <5>1, <5>2, PrefixAll
      <4>5. (r \o toks)[m + 1] = toks[1]
        BY <1>10, <2>0 DEF T
      <4> QED BY <1>11, <2>1, <4>1, <4>3, <4>4, <4>5
    <3>3. CASE p > m - 1
      <4> DEFINE i == p - m + 1
      <4>1. i \in 1..(T - 1) /\ i \in 1..T /\ m + i - 1 = p /\ m + i = p + 1 /\ m + (i + 1) = p + 2 /\ i + 1 \in 1..T
        BY <2>0, <2>2, <3>3
      <4> HIDE DEF i
      <4>2. head[p] = <<Prefix(r \o toks, p + 1), toks[i + 1]>>
        BY <1>8, <1>11, <2>1, <4>1, ZenonT(40)
      <4>3. (r \o toks)[m + (i + 1)] = toks[i + 1]
        <5>1. i + 1 \in 1..Len(toks)
          BY <4>1 DEF T
        <5> QED BY <1>10, <5>1, CatAt
      <4> QED BY <4>1, <4>2, <4>3
    <3>4. p < m - 1 \/ p = m - 1 \/ p > m - 1
      BY <2>0
    <3> QED BY <3>1, <3>2, <3>3, <3>4
  <2>3. b.past = m + T /\ b.rs = r \o toks /\ b.head = head /\ b.holes = s.holes
    BY <1>12
  <2>4. ASSUME NEW p \in 0..(b.past - 1 - 1)
        PROVE  p \in b.holes \/ b.head[p] = <<Prefix(b.rs, p + 1), b.rs[p + 2]>>
    <3>1. p \in 0..(m + T - 1 - 1)
      <4>1. b.past = m + T
        BY <2>3
      <4> QED BY <2>0, <4>1
    <3> QED BY <2>2, <2>3, <3>1
  <2> QED BY <2>4 DEF RowsPaired
<1> QED BY <1>3, <1>4, <1>7, <1>12, <1>13, <1>14, <1>15 DEF Batched

\* However a prompt's tokens are evaluated, the engine goes on from all of them.
LEMMA EvalsIs ==
    ASSUME NEW S, NEW s, Good(s, S), NEW toks \in Seq(S), Len(toks) >= 1, s.past + Len(toks) <= Ctx,
           NEW d \in Evals(s, toks)
    PROVE  Evaluated(s, toks, d, S)
<1>0. Sound(s, S)
  BY SoundIs DEF Good
<1> DEFINE b == Batch(s, toks)
<1>1. Batched(s, toks, b, S)
  BY BatchIs
<1>2. Len(toks) \in Nat /\ s.rs \in Seq(S)
  BY <1>0 DEF Sound
<1> HIDE DEF b
<1>3. /\ IsEngine(b, S) /\ b.past = s.past + Len(toks) /\ b.rs = s.rs \o toks /\ Rows(b) /\ b.dirty /\ b.have
      /\ b.logits = <<b.rs>> /\ (b.valid => RowsPaired(b, b.past - 1))
      /\ b.rows \in Seq(Seq(S)) /\ b.rs \in Seq(S)
  BY <1>1 DEF Batched, IsEngine
<1>4. Len(b.rows) >= 1 /\ b.rows[Len(b.rows)] = b.rs
  <2>1. /\ At(s.rs, toks) \in Seq(Seq(S)) /\ Len(At(s.rs, toks)) = Len(toks)
        /\ At(s.rs, toks)[Len(toks)] = s.rs \o toks
    BY <1>2, AtType, ZenonT(40)
  <2> QED BY <1>1, <2>1 DEF Batched
<1>5. ASSUME NEW x, IsEngine(x, S), x.past = b.past, x.rs = b.rs, x.kv = b.kv, x.dirty = b.dirty,
             x.have = b.have, x.valid = b.valid, x.head = b.head, x.holes = b.holes, x.logits = b.logits,
             Len(x.rows) >= 1, x.rows[Len(x.rows)] = x.rs
      PROVE  Evaluated(s, toks, x, S)
  <2>1. Rows(x)
    BY <1>3, <1>5 DEF Rows
  <2>2. Steady(x)
    BY <1>3, <1>5 DEF Steady
  <2>3. Headed(x)
    BY <1>3, <1>5 DEF Headed, RowsPaired
  <2>4. Len(x.logits) >= 1 /\ Last(x.logits) = x.rs
    BY <1>3, <1>5 DEF Last
  <2> QED BY <1>3, <1>5, <2>1, <2>2, <2>3, <2>4 DEF Evaluated, Good
<1>6. CASE d = OneByOne(s, toks)
  BY <1>6, OneByOneIs
<1>7. CASE d = EvalBatched(s, toks)
  <2> DEFINE x == [b EXCEPT !.snaps = Snapshots(s, b.rows), !.depth = 0]
  <2>1. d = x
    BY <1>7 DEF EvalBatched, b
  <2>2. x.past = b.past /\ x.rs = b.rs /\ x.kv = b.kv /\ x.dirty = b.dirty /\ x.have = b.have
        /\ x.valid = b.valid /\ x.head = b.head /\ x.holes = b.holes /\ x.logits = b.logits /\ x.rows = b.rows
    BY <1>3 DEF IsEngine
  <2>3. IsEngine(x, S)
    BY <1>3 DEF IsEngine
  <2> HIDE DEF x
  <2> QED BY <1>4, <1>5, <2>1, <2>2, <2>3
<1>8. CASE d = EvalStreamed(s, toks)
  <2> DEFINE x == [b EXCEPT !.rows = <<b.rs>>]
  <2>1. d = x
    BY <1>8 DEF EvalStreamed, b
  <2>2. x.past = b.past /\ x.rs = b.rs /\ x.kv = b.kv /\ x.dirty = b.dirty /\ x.have = b.have
        /\ x.valid = b.valid /\ x.head = b.head /\ x.holes = b.holes /\ x.logits = b.logits /\ x.rows = <<b.rs>>
    BY <1>3 DEF IsEngine
  <2>3. <<b.rs>> \in Seq(Seq(S)) /\ Len(<<b.rs>>) = 1 /\ <<b.rs>>[1] = b.rs
    BY <1>3
  <2>4. IsEngine(x, S)
    BY <1>3, <2>3 DEF IsEngine
  <2> HIDE DEF x
  <2>5. Len(x.rows) >= 1 /\ x.rows[Len(x.rows)] = x.rs
    <3>1. Len(x.rows) = 1 /\ x.rows[1] = b.rs /\ x.rs = b.rs
      BY <2>2, <2>3
    <3> QED BY <3>1
  <2> QED BY <1>5, <2>1, <2>2, <2>4, <2>5
<1> QED BY <1>6, <1>7, <1>8 DEF Evals

---------------------------------------------------------------------------
\* reset(), whatever the sequence was.
LEMMA ResetIs ==
    ASSUME NEW S, NEW s, IsEngine(s, S)
    PROVE  Good(ResetEngine(s), S) /\ ResetEngine(s).past = 0 /\ ResetEngine(s).rs = <<>>
<1> DEFINE r == ResetEngine(s)
<1>1. /\ r.past = 0 /\ r.rs = <<>> /\ r.dirty /\ r.valid /\ r.kv = s.kv /\ r.head = s.head /\ r.pool = s.pool
  BY DEF ResetEngine, IsEngine
<1>2. 0 \in 0..Ctx /\ <<>> \in Seq(S) /\ Len(<<>>) = 0
  BY Sized
<1>3. IsEngine(r, S)
  BY <1>2 DEF ResetEngine, IsEngine
<1> HIDE DEF r
<1>4. Rows(r) /\ Steady(r)
  BY <1>1, <1>2 DEF Rows, Steady
<1>5. Headed(r)
  <2>1. RowsPaired(r, r.past - 1)
    BY <1>1 DEF RowsPaired
  <2> QED BY <1>1, <2>1 DEF Headed
<1> QED BY <1>1, <1>3, <1>4, <1>5 DEF Good, r

\* A sequence saved and brought back.
LEMMA RestoredIs ==
    ASSUME NEW S, NEW s, Good(s, S)
    PROVE  Good(Restored(s), S) /\ Restored(s).past = s.past /\ Restored(s).rs = s.rs
<1> DEFINE headed == MtpReady(s) /\ Len(s.rows) >= 1
           kv == RowsKept(s.kv, s.past)
           head == RowsKept(s.head, IF headed THEN s.past ELSE 0)
           rows == IF headed THEN <<s.rows[Len(s.rows)]>> ELSE s.rows
           pool == [b \in Blocks |-> <<Junk>>]
           q0 == [s EXCEPT !.pool = pool]
           q1 == ResetEngine(q0)
           r == [q1 EXCEPT !.past = s.past, !.rs = s.rs, !.kv = kv, !.snaps = <<>>, !.depth = 0, !.head = head,
                           !.rows = rows, !.have = headed, !.valid = headed, !.holes = s.holes]
<1>0. Sound(s, S) /\ IsEngine(s, S) /\ Rows(s)
  BY SoundIs DEF Good
<1>1. IsEngine(q0, S) /\ q0.rows = s.rows /\ q0.pool = pool
  BY <1>0 DEF IsEngine
<1> HIDE DEF q0
<1>2. IsEngine(q1, S) /\ q1.rows = s.rows /\ q1.pool = pool /\ q1.dirty /\ q1.holes = {} /\ q1.logits = q0.logits
  <2>1. IsEngine(q1, S)
    BY <1>1, ResetIs DEF Good
  <2> QED BY <1>1, <2>1 DEF ResetEngine, IsEngine
<1> HIDE DEF q1
<1>3. Restored(s) = r
  <2>1. Restored(s) = [q1 EXCEPT !.past = s.past, !.rs = s.rs, !.kv = kv, !.snaps = <<>>, !.depth = 0, !.head = head,
                       !.rows = IF headed THEN <<s.rows[Len(s.rows)]>> ELSE @,
                       !.have = headed, !.valid = headed, !.holes = s.holes]
    BY DEF Restored, q1, q0
  <2> HIDE DEF headed, kv, head
  <2> QED BY <1>2, <2>1
<1>4. headed \in BOOLEAN
  BY DEF MtpReady
<1>5. rows \in Seq(Seq(S))
  <2>1. CASE headed
    <3>1. s.rows[Len(s.rows)] \in Seq(S)
      BY <1>0, <2>1 DEF Sound
    <3> QED BY <2>1, <3>1
  <2>2. CASE ~headed
    BY <1>0, <2>2 DEF Sound
  <2> QED BY <2>1, <2>2
<1>6. headed => s.valid /\ s.have /\ Len(s.rows) >= 1 /\ Len(rows) = 1 /\ rows[1] = s.rows[Len(s.rows)]
  BY DEF MtpReady
<1>7. /\ kv = [c \in Cells |-> kv[c]] /\ head = [c \in Cells |-> head[c]]
      /\ \A q \in 0..(s.past - 1) : kv[q] = s.kv[q] /\ (headed => head[q] = s.head[q])
  <2>1. \A q \in 0..(s.past - 1) : q \in Cells /\ q < s.past
    BY <1>0, Sized DEF Cells, Sound
  <2> QED BY <2>1 DEF RowsKept
<1> HIDE DEF headed, kv, head, rows
<1>8. /\ r.past = s.past /\ r.rs = s.rs /\ r.kv = kv /\ r.head = head /\ r.rows = rows /\ r.have = headed
      /\ r.valid = headed /\ r.holes = s.holes /\ r.dirty /\ r.pool = pool
  BY <1>2 DEF IsEngine
<1>9. IsEngine(r, S)
  <2>1. s.past \in 0..Ctx /\ s.rs \in Seq(S) /\ s.holes \in SUBSET Nat
    BY <1>0, Sized DEF Sound
  <2>2. r \in [past : 0..Ctx, rs : Seq(S), kv : {r.kv}, pool : {r.pool}, bias : {r.bias},
              dirty : BOOLEAN, rows : Seq(Seq(S)), have : BOOLEAN, valid : BOOLEAN, head : {r.head},
              draft : BOOLEAN, last : Int, snaps : {r.snaps}, depth : Nat, logits : {r.logits},
              holes : SUBSET Nat]
    BY <1>2, <1>4, <1>5, <2>1 DEF IsEngine
  <2> HIDE DEF r
  <2> QED BY <1>7, <1>8, <2>2 DEF IsEngine
<1> HIDE DEF r
<1>10. Rows(r)
  <2>1. s.past \in Nat
    BY <1>0 DEF Sound
  <2>2. ASSUME NEW q \in 0..(s.past - 1) PROVE kv[q] = Prefix(s.rs, q + 1)
    BY <1>0, <1>7 DEF Rows
  <2> QED BY <1>0, <1>8, <2>2 DEF Rows
<1>11. Steady(r)
  BY <1>8 DEF Steady
<1>12. Headed(r)
  <2> SUFFICES ASSUME headed
               PROVE  /\ r.past > 0 => r.have /\ Len(r.rows) >= 1 /\ r.rows[Len(r.rows)] = r.rs
                      /\ RowsPaired(r, r.past - 1)
    BY <1>8 DEF Headed
  <2>1. r.past > 0 => r.have /\ Len(r.rows) >= 1 /\ r.rows[Len(r.rows)] = r.rs
    <3>1. s.past > 0 => s.rows[Len(s.rows)] = s.rs
      BY <1>6 DEF Good, Headed
    <3>2. Len(r.rows) = 1 /\ r.rows[1] = s.rows[Len(s.rows)]
      BY <1>6, <1>8
    <3> QED BY <1>8, <3>1, <3>2
  <2>2. ASSUME NEW p \in 0..(s.past - 1 - 1)
        PROVE  p \in s.holes \/ head[p] = <<Prefix(s.rs, p + 1), s.rs[p + 2]>>
    <3>1. p \in s.holes \/ s.head[p] = <<Prefix(s.rs, p + 1), s.rs[p + 2]>>
      BY <1>6 DEF Good, Headed, RowsPaired
    <3>2. p \in 0..(s.past - 1)
      BY <1>0 DEF Sound
    <3> QED BY <1>7, <3>1, <3>2
  <2>3. RowsPaired(r, r.past - 1)
    BY <1>8, <2>2 DEF RowsPaired
  <2> QED BY <2>1, <2>3
<1> QED BY <1>3, <1>8, <1>9, <1>10, <1>11, <1>12 DEF Good

\* A chain of drafts only writes rows of the head past the sequence.
LEMMA ChainIs ==
    ASSUME NEW S, NEW s, Good(s, S), s.past > 0, s.last = s.past - 1, NEW t, Closed(s, t), NEW k \in Nat
    PROVE  Good(Chain(s, k), S) /\ Closed(Chain(s, k), t) /\ Same(s, Chain(s, k))
<1> DEFINE vals == [i \in 1..k |-> <<"chained">>]
           w == Written(s.head, s.last + 1, vals)
           c == [s EXCEPT !.head = w, !.last = s.last + 1 + Len(vals) - 1]
<1>0. Sound(s, S) /\ IsEngine(s, S)
  BY SoundIs DEF Good
<1>1. Chain(s, k) = c
  BY DEF Chain, MtpDraft
<1>2. Len(vals) = k
  OBVIOUS
<1>3. w = [p \in Cells |-> IF p \in (s.last + 1)..(s.last + 1 + k - 1) THEN vals[p - (s.last + 1) + 1] ELSE s.head[p]]
  <2> HIDE DEF vals
  <2> QED BY <1>2 DEF Written
<1> HIDE DEF w, vals
<1>4. \A p \in 0..(s.past - 1) : w[p] = s.head[p]
  <2>1. s.past \in Nat /\ s.past <= Ctx /\ s.last + 1 = s.past
    BY <1>0 DEF Sound
  <2>2. \A p \in 0..(s.past - 1) : p \in Cells /\ p \notin (s.last + 1)..(s.last + 1 + k - 1)
    BY <2>1, Sized DEF Cells
  <2> QED BY <1>3, <2>2
<1>5. s.last + 1 + Len(vals) - 1 \in Int
  BY <1>0, <1>2 DEF Sound
<1>6. /\ Same(s, c) /\ c.head = w /\ c.rows = s.rows /\ c.have = s.have /\ c.valid = s.valid /\ c.holes = s.holes
  BY <1>0 DEF IsEngine, Same
<1>7. IsEngine(c, S)
  <2>1. w = [p \in Cells |-> w[p]]
    BY <1>3
  <2> QED BY <1>0, <1>5, <2>1 DEF IsEngine
<1> HIDE DEF c
<1>8. Rows(c) /\ Steady(c)
  BY <1>6, SameCore DEF Good
<1>9. Headed(c)
  <2>1. s.past \in Nat /\ \A p \in 0..(s.past - 1 - 1) : p \in 0..(s.past - 1)
    BY <1>0 DEF Sound
  <2>2. s.valid => RowsPaired(c, s.past - 1)
    BY <1>4, <1>6, <2>1 DEF Good, Headed, RowsPaired, Same
  <2> QED BY <1>6, <2>2 DEF Good, Headed, Same
<1>10. Closed(c, t)
  <2>1. s.past - 1 \in 0..(s.past - 1)
    BY <1>0 DEF Sound
  <2> QED BY <1>4, <1>6, <2>1 DEF Closed, MtpReady, Same
<1> QED BY <1>1, <1>6, <1>7, <1>8, <1>9, <1>10 DEF Good

\* What is over Token is over any larger set.
LEMMA Wider ==
    ASSUME NEW S, NEW A, S \subseteq A, NEW s, IsEngine(s, S)
    PROVE  IsEngine(s, A)
<1>1. \A x \in Seq(S) : x \in Seq(A)
  OBVIOUS
<1>2. s.rs \in Seq(A)
  BY <1>1 DEF IsEngine
<1>3. s.rows \in Seq(Seq(A))
  <2>1. Seq(S) \subseteq Seq(A)
    BY <1>1
  <2>2. s.rows \in Seq(Seq(S))
    BY DEF IsEngine
  <2> HIDE DEF IsEngine
  <2> QED BY <2>1, <2>2
<1> QED BY <1>2, <1>3 DEF IsEngine

\* The sequence after a token and the first j of its drafts.
After(rs, t, d, j) == (rs \o <<t>>) \o Prefix(d, j)

KeptOf(S, rs, t, d, j) ==
    /\ After(rs, t, d, j) \in Seq(S)
    /\ Len(After(rs, t, d, j)) = Len(rs) + 1 + j
    /\ After(rs, t, d, j) = Prefix(rs \o (<<t>> \o d), Len(rs) + 1 + j)
    /\ Prefix(After(rs, t, d, j), Len(rs)) = rs
    /\ After(rs, t, d, j)[Len(rs) + 1] = t
    /\ \A i \in 1..j : After(rs, t, d, j)[Len(rs) + 1 + i] = d[i]

LEMMA Kept ==
    ASSUME NEW S, NEW A, S \subseteq A, NEW rs \in Seq(S), NEW t \in S, NEW d \in Seq(A),
           NEW j \in 0..Len(d), \A i \in 1..j : d[i] \in S
    PROVE  KeptOf(S, rs, t, d, j)
BY SMTT(30) DEF Prefix, After, KeptOf

LEMMA AllOf ==
    ASSUME NEW S, NEW k \in Nat, NEW s, s = [i \in 1..k |-> s[i]], \A i \in 1..k : s[i] \in S
    PROVE  s \in Seq(S) /\ Len(s) = k
OBVIOUS

\* What is left of a step after the drafts past the first j are undone.
Undone(s, k) == IF k > 0 THEN Rollback(s, k) ELSE s

Left(s0, t, d, j, u) ==
    /\ IsEngine(u, Token) /\ Rows(u) /\ Steady(u)
    /\ u.past = s0.past + 1 + j /\ u.rs = After(s0.rs, t, d, j) /\ u.have
    /\ Len(u.rows) = j + 1 /\ \A i \in 1..(j + 1) : u.rows[i] = Prefix(u.rs, s0.past + i)
    /\ u.valid = s0.valid /\ u.head = s0.head /\ u.draft = s0.draft /\ u.last = s0.last
    /\ u.holes = s0.holes

Undoes(s0, t, d, j, s) ==
    /\ Left(s0, t, d, j, Undone(s, Len(d) - j))
    /\ \A i \in 1..(Len(d) + 1) : s.logits[i] = After(s0.rs, t, d, i - 1)
    /\ Len(s.logits) = Len(d) + 1

LEMMA UndoneIs ==
    ASSUME NEW s0, Good(s0, Token), NEW t \in Token, NEW A, Token \subseteq A, NEW d \in Seq(A),
           Len(d) <= MaxDrafts, s0.past + 1 + Len(d) <= Ctx, NEW verify \in BOOLEAN,
           NEW j \in 0..Len(d), \A i \in 1..j : d[i] \in Token
    PROVE  Undoes(s0, t, d, j, EvalDecode(s0, <<t>> \o d, verify))
<1> DEFINE toks == <<t>> \o d
           K == Len(d)
           s == EvalDecode(s0, toks, verify)
           u == Undone(s, K - j)
           m == s0.past
           r == s0.rs
           full == r \o toks
           seq == After(r, t, d, j)
           at == At(r, toks)
<1>0. Sound(s0, Token) /\ IsEngine(s0, A) /\ Rows(s0) /\ Steady(s0)
  BY SoundIs, Wider DEF Good
<1>1. K \in Nat /\ m \in Nat /\ r \in Seq(Token) /\ r \in Seq(A) /\ Len(r) = m /\ MaxDrafts \in Nat
  BY <1>0, Sized DEF Sound, IsEngine
<1>2. toks \in Seq(A) /\ Len(toks) = K + 1 /\ toks[1] = t /\ \A i \in 1..K : toks[i + 1] = d[i]
  OBVIOUS
<1>a. K \in Nat /\ m \in Nat /\ j \in Nat /\ j <= K /\ MaxDrafts \in Nat /\ K <= MaxDrafts /\ Ctx \in Nat
      /\ m + 1 + K <= Ctx
  BY <1>1, Sized
<1>3. Len(toks) \in 1..(1 + MaxDrafts) /\ m + Len(toks) <= Ctx
  <2> HIDE DEF toks, K, m
  <2>1. Len(toks) = K + 1
    BY <1>2
  <2> QED BY <1>a, <2>1
<1>4. Decoded(s0, toks, s, A)
  <2> HIDE DEF toks
  <2> QED BY <1>0, <1>2, <1>3, EvalDecodeIs
<1> HIDE DEF s
<1>5. /\ IsEngine(s, A) /\ s.past = m + (K + 1) /\ s.rs = full
      /\ Rows(s) /\ Pooled(s) /\ ~s.dirty /\ s.bias = BiasOf(m)
      /\ s.rows = at /\ s.logits = at /\ s.have
      /\ s.valid = s0.valid /\ s.head = s0.head /\ s.draft = s0.draft /\ s.last = s0.last
      /\ s.holes = s0.holes
      /\ K + 1 >= 2 => s.snaps = [k \in 1..((K + 1) - 1) |-> at[(K + 1) - k]]
  <2> HIDE DEF toks
  <2> QED BY <1>2, <1>4 DEF Decoded
<1>6. /\ at \in Seq(Seq(A)) /\ Len(at) = K + 1
      /\ \A k \in 1..(K + 1) : at[k] = Prefix(full, m + k) /\ at[k] = r \o Prefix(toks, k)
  <2> HIDE DEF toks, r, m, K
  <2>1. r \in Seq(A) /\ toks \in Seq(A) /\ Len(toks) = K + 1 /\ Len(r) = m
    BY <1>1, <1>2
  <2>2. /\ At(r, toks) \in Seq(Seq(A)) /\ Len(At(r, toks)) = Len(toks)
        /\ \A k \in 1..Len(toks) : /\ At(r, toks)[k] = r \o Prefix(toks, k)
                                   /\ At(r, toks)[k] = Prefix(r \o toks, Len(r) + k)
    BY <2>1, AtType
  <2> QED BY <2>1, <2>2
<1>7. /\ seq \in Seq(Token) /\ Len(seq) = m + 1 + j /\ seq = Prefix(full, m + 1 + j)
  <2> DEFINE x == s0.rs
  <2>1. x \in Seq(Token) /\ Len(x) = m
    BY <1>1
  <2> HIDE DEF x, m
  <2>2. KeptOf(Token, x, t, d, j)
    BY <2>1, Kept
  <2> QED BY <2>1, <2>2 DEF KeptOf, x
<1>8. full \in Seq(A) /\ Len(full) = m + K + 1
  <2> HIDE DEF toks, r, m, K
  <2>1. r \in Seq(A) /\ toks \in Seq(A) /\ Len(toks) = K + 1 /\ Len(r) = m
    BY <1>1, <1>2
  <2>2. r \o toks \in Seq(A) /\ Len(r \o toks) = m + (K + 1)
    BY <2>1
  <2> QED BY <1>a, <2>2
<1>9. ASSUME NEW i \in 1..(K + 1) PROVE s.logits[i] = After(s0.rs, t, d, i - 1)
  <2>1. s.logits[i] = Prefix(full, m + i)
    BY <1>5, <1>6
  <2>2. i - 1 \in 0..Len(d) /\ m + 1 + (i - 1) = m + i
    BY <1>1
  <2>3. (r \o <<t>>) \o Prefix(d, i - 1) = r \o Prefix(toks, i)
    <3>1. <<t>> \o Prefix(d, i - 1) = Prefix(toks, i)
      <4>1. i - 1 \in 0..Len(d) /\ i \in 0..Len(toks)
        BY <1>1, <1>2
      <4> QED BY <4>1 DEF Prefix
    <3>2. Prefix(d, i - 1) \in Seq(A)
      BY <2>2, PrefixType
    <3>3. (r \o <<t>>) \o Prefix(d, i - 1) = r \o (<<t>> \o Prefix(d, i - 1))
      <4> DEFINE x == Prefix(d, i - 1)
      <4>1. x \in Seq(A) /\ r \in Seq(A) /\ <<t>> \in Seq(A)
        BY <1>1, <3>2
      <4> HIDE DEF x, r
      <4> QED BY <4>1
    <3> QED BY <3>1, <3>3
  <2> QED BY <1>5, <1>6, <2>3 DEF After
<1> HIDE DEF full, toks
<1>10. \A x \in 0..(m + 1 + j) : Prefix(full, x) = Prefix(seq, x)
  <2>1. m + 1 + j \in 0..Len(full)
    BY <1>1, <1>8
  <2> HIDE DEF seq, m
  <2> QED BY <1>7, <1>8, <2>1, PrefixOfPrefix
<1> HIDE DEF seq, at
<1>11. /\ u.past = m + 1 + j /\ u.rs = seq /\ u.kv = s.kv /\ u.pool = s.pool /\ u.bias = s.bias /\ ~u.dirty
       /\ u.have /\ u.valid = s0.valid /\ u.head = s0.head /\ u.draft = s0.draft /\ u.last = s0.last
       /\ u.holes = s0.holes /\ u.rows = Prefix(at, j + 1)
       /\ u.depth \in Nat /\ u \in [past : {u.past}, rs : {u.rs}, kv : {u.kv}, pool : {u.pool}, bias : {u.bias},
              dirty : BOOLEAN, rows : {u.rows}, have : BOOLEAN, valid : BOOLEAN, head : {u.head},
              draft : BOOLEAN, last : Int, snaps : {u.snaps}, depth : Nat, logits : {u.logits},
              holes : SUBSET Nat]
  <2>1. CASE j = K
    <3>1. u = s
      BY <1>1, <2>1 DEF Undone
    <3>2. Prefix(full, m + 1 + j) = full /\ Prefix(at, j + 1) = at
      <4>1. m + 1 + j = Len(full) /\ j + 1 = Len(at)
        BY <1>1, <1>6, <1>8, <2>1
      <4> QED BY <1>6, <1>8, <4>1, PrefixAll
    <3>3. m + (K + 1) = m + 1 + j
      BY <1>1, <2>1
    <3> QED BY <1>5, <1>7, <3>1, <3>2, <3>3 DEF IsEngine
  <2>2. CASE j < K
    <3>1. K - j \in 1..K /\ K - j > 0 /\ K + 1 >= 2 /\ (K + 1) - (K - j) = j + 1
          /\ m + (K + 1) - (K - j) = m + 1 + j /\ j + 1 \in 1..(K + 1)
      <4> HIDE DEF K, m
      <4> QED BY <1>a, <2>2
    <3>2. u = [s EXCEPT !.rs = s.snaps[K - j], !.past = s.past - (K - j), !.depth = 0,
                        !.rows = Prefix(s.rows, Max({1, Len(s.rows) - (K - j)}))]
      BY <3>1 DEF Undone, Rollback
    <3>3. s.snaps[K - j] = seq
      <4>1. s.snaps[K - j] = at[(K + 1) - (K - j)]
        BY <1>5, <3>1
      <4>2. at[j + 1] = Prefix(full, m + (j + 1)) /\ m + (j + 1) = m + 1 + j
        BY <1>1, <1>6, <3>1
      <4> QED BY <1>7, <3>1, <4>1, <4>2
    <3>4. s.past - (K - j) = m + 1 + j
      <4>1. s.past = m + (K + 1)
        BY <1>5
      <4> HIDE DEF K, m
      <4> QED BY <1>a, <4>1
    <3>5. Max({1, Len(s.rows) - (K - j)}) = j + 1
      <4>1. Len(s.rows) - (K - j) = j + 1 /\ j + 1 \in Int /\ j + 1 >= 1
        BY <1>5, <1>6, <3>1
      <4>2. Max({1, j + 1}) = j + 1
        BY <4>1, MaxPair
      <4> QED BY <4>1, <4>2
    <3>6. Prefix(s.rows, Max({1, Len(s.rows) - (K - j)})) = Prefix(at, j + 1)
      BY <1>5, <3>5
    <3> DEFINE v == [s EXCEPT !.rs = seq, !.past = m + 1 + j, !.depth = 0, !.rows = Prefix(at, j + 1)]
    <3>7. u = v
      BY <3>2, <3>3, <3>4, <3>6
    <3>8. v.past = m + 1 + j /\ v.rs = seq /\ v.kv = s.kv /\ v.pool = s.pool /\ v.bias = s.bias /\ v.dirty = s.dirty
          /\ v.have = s.have /\ v.valid = s.valid /\ v.head = s.head /\ v.draft = s.draft /\ v.last = s.last
          /\ v.holes = s.holes /\ v.rows = Prefix(at, j + 1) /\ v.depth = 0
      BY <1>5 DEF IsEngine
    <3>9. v \in [past : {v.past}, rs : {v.rs}, kv : {v.kv}, pool : {v.pool}, bias : {v.bias},
              dirty : BOOLEAN, rows : {v.rows}, have : BOOLEAN, valid : BOOLEAN, head : {v.head},
              draft : BOOLEAN, last : Int, snaps : {v.snaps}, depth : Nat, logits : {v.logits},
              holes : SUBSET Nat]
      BY <1>5 DEF IsEngine
    <3> HIDE DEF v
    <3> QED BY <1>5, <3>7, <3>8, <3>9, ZenonT(40)
  <2> QED BY <1>1, <2>1, <2>2
<1> HIDE DEF u
<1>12. /\ Len(u.rows) = j + 1 /\ u.rows \in Seq(Seq(Token))
       /\ \A i \in 1..(j + 1) : u.rows[i] = Prefix(seq, m + i)
  <2>1. j + 1 \in 0..Len(at)
    BY <1>1, <1>6
  <2>2. Len(Prefix(at, j + 1)) = j + 1 /\ \A i \in 1..(j + 1) : Prefix(at, j + 1)[i] = at[i]
    BY <1>6, <2>1, PrefixType
  <2>3. \A i \in 1..(j + 1) : at[i] = Prefix(seq, m + i) /\ Prefix(seq, m + i) \in Seq(Token)
    <3> TAKE i \in 1..(j + 1)
    <3>1. i \in 1..(K + 1) /\ m + i \in 0..(m + 1 + j) /\ m + i \in 0..Len(seq)
      BY <1>1, <1>7
    <3>2. Prefix(seq, m + i) \in Seq(Token)
      BY <1>7, <3>1, PrefixType
    <3> QED BY <1>6, <1>10, <3>1, <3>2
  <2>4. Prefix(at, j + 1) \in Seq(Seq(Token))
    <3> DEFINE p == Prefix(at, j + 1)
    <3>1. p \in Seq(Seq(A)) /\ Len(p) = j + 1 /\ \A i \in 1..(j + 1) : p[i] \in Seq(Token)
      BY <1>6, <2>1, <2>2, <2>3, PrefixType, ZenonT(40)
    <3> HIDE DEF p
    <3>2. p = [i \in 1..(j + 1) |-> p[i]]
      BY <1>a, <3>1
    <3>3. j + 1 \in Nat
      BY <1>a
    <3> DEFINE Q == Seq(Token)
    <3>4. \A i \in 1..(j + 1) : p[i] \in Q
      BY <3>1
    <3> HIDE DEF Q
    <3>5. p \in Seq(Q)
      BY <3>2, <3>3, <3>4, AllOf
    <3> QED BY <3>5 DEF Q, p
  <2> QED BY <1>11, <2>2, <2>3, <2>4
<1>13. IsEngine(u, Token)
  <2>1. m + 1 + j \in 0..Ctx
    <3> HIDE DEF K, m
    <3> QED BY <1>a
  <2>2. s.kv = [c \in Cells |-> s.kv[c]] /\ s.pool = [b \in Blocks |-> s.pool[b]] /\ s0.head = [c \in Cells |-> s0.head[c]]
    BY <1>0, <1>5 DEF IsEngine
  <2> QED BY <1>7, <1>11, <1>12, <2>1, <2>2 DEF IsEngine
<1>14. Rows(u)
  <2>1. ASSUME NEW q \in 0..(m + 1 + j - 1) PROVE s.kv[q] = Prefix(seq, q + 1)
    <3> DEFINE x == s.past
               y == m + (K + 1)
    <3>1. q \in 0..(y - 1) /\ q + 1 \in 0..(m + 1 + j)
      <4> HIDE DEF K, m
      <4> QED BY <1>a
    <3>2. s.kv[q] = Prefix(full, q + 1)
      <4>1. x = y /\ s.rs = full
        BY <1>5
      <4>2. \A c \in 0..(x - 1) : s.kv[c] = Prefix(s.rs, c + 1)
        BY <1>5 DEF Rows
      <4> HIDE DEF x, y
      <4>3. q \in 0..(x - 1)
        BY <3>1, <4>1
      <4> QED BY <4>1, <4>2, <4>3
    <3> QED BY <1>10, <3>1, <3>2
  <2>2. u.past = m + 1 + j /\ u.rs = seq /\ u.kv = s.kv
    BY <1>11
  <2>3. Len(u.rs) = u.past
    BY <1>7, <2>2
  <2>4. ASSUME NEW q \in 0..(u.past - 1) PROVE u.kv[q] = Prefix(u.rs, q + 1)
    <3> HIDE DEF m
    <3>1. q \in 0..(m + 1 + j - 1)
      <4>1. u.past = m + 1 + j
        BY <2>2
      <4> QED BY <1>a, <4>1
    <3> QED BY <2>1, <2>2, <3>1
  <2> QED BY <2>3, <2>4 DEF Rows
<1>15. Steady(u)
  <2>1. u.past \in Nat /\ s.past \in Nat /\ u.past <= s.past /\ Ratio \in Nat \ {0} /\ Blocks \subseteq Nat
    <3>1. u.past = m + 1 + j /\ s.past = m + (K + 1)
      BY <1>5, <1>11
    <3>2. Ratio \in Nat \ {0} /\ Blocks \subseteq Nat
      BY Sized, Div DEF Blocks
    <3> HIDE DEF K, m
    <3> QED BY <1>a, <3>1, <3>2
  <2>2. Pooled(u)
    <3> SUFFICES ASSUME NEW b \in Blocks, b < u.past \div Ratio
                 PROVE  u.pool[b] = [k \in 1..Ratio |-> Prefix(u.rs, b * Ratio + k)]
      BY DEF Pooled
    <3>1. b < s.past \div Ratio
      <4>1. u.past \div Ratio <= s.past \div Ratio /\ u.past \div Ratio \in Nat /\ s.past \div Ratio \in Nat
        BY <2>1, DivMono, Div
      <4> QED BY <2>1, <4>1
    <3>2. s.pool[b] = [k \in 1..Ratio |-> Prefix(full, b * Ratio + k)]
      BY <1>5, <3>1 DEF Pooled
    <3>3. \A k \in 1..Ratio : Prefix(full, b * Ratio + k) = Prefix(seq, b * Ratio + k)
      <4> TAKE k \in 1..Ratio
      <4>1. b * Ratio + k \in 1..u.past
        BY <2>1, BlockCells
      <4>2. b * Ratio + k \in 0..(m + 1 + j)
        BY <1>1, <1>11, <4>1
      <4> QED BY <1>10, <4>2
    <3> QED BY <1>11, <3>2, <3>3
  <2>3. BiasFrom(u, m)
    <3>1. \A b \in Blocks : u.bias[b] = BlockBias(m, b)
      BY <1>5, <1>11 DEF BiasOf
    <3>2. m < u.past /\ u.past <= m + 1 + MaxDrafts
      BY <1>1, <1>11
    <3> QED BY <3>1, <3>2 DEF BiasFrom
  <2>4. u.bias = [b \in Blocks |-> u.bias[b]]
    BY <1>5, <1>11 DEF BiasOf
  <2> QED BY <1>1, <2>2, <2>3, <2>4 DEF Steady, Behind
<1>16. Left(s0, t, d, j, u)
  BY <1>11, <1>12, <1>13, <1>14, <1>15 DEF Left, seq
<1>17. Len(s.logits) = K + 1
  BY <1>5, <1>6
<1> QED BY <1>9, <1>16, <1>17 DEF u, s, toks, Undoes

\* The head's rows up to the step's token, in the sequence that has it and some of its drafts.
LEMMA PairedOn ==
    ASSUME NEW s0, Good(s0, Token), NEW t \in Token, Closed(s0, t), NEW A, Token \subseteq A, NEW d \in Seq(A),
           NEW j \in 0..Len(d), \A i \in 1..j : d[i] \in Token, NEW u, Left(s0, t, d, j, u), u.valid
    PROVE  RowsPaired(u, s0.past)
<1> DEFINE m == s0.past
           r == s0.rs
           q == After(r, t, d, j)
<1>1. Sound(s0, Token) /\ m \in Nat /\ r \in Seq(Token) /\ Len(r) = m /\ j \in Nat
  <2>1. Sound(s0, Token)
    BY SoundIs DEF Good
  <2> QED BY <2>1 DEF Sound
<1>2. KeptOf(Token, r, t, d, j)
  <2> HIDE DEF r
  <2> QED BY <1>1, Kept
<1>3. /\ q \in Seq(Token) /\ Len(q) = m + 1 + j /\ Prefix(q, m) = r /\ q[m + 1] = t
  <2> HIDE DEF r, m
  <2> QED BY <1>1, <1>2 DEF KeptOf, q
<1>4. u.rs = q /\ u.holes = s0.holes /\ u.head = s0.head /\ s0.valid
  BY DEF Left
<1>5. m > 0 => s0.have
  BY <1>4 DEF Good, Headed
<1>6. RowsPaired(s0, m - 1)
  BY <1>4 DEF Good, Headed
<1>7. ASSUME NEW p \in 0..(m - 1), p < m - 1
      PROVE  p \in s0.holes \/ s0.head[p] = <<Prefix(q, p + 1), q[p + 2]>>
  <2>1. p \in 0..(m - 1 - 1) /\ p + 1 \in 0..m /\ p + 2 \in 1..m /\ m \in 0..Len(q)
    <3> HIDE DEF m, q
    <3> QED BY <1>1, <1>3, <1>7
  <2>2. p \in s0.holes \/ s0.head[p] = <<Prefix(r, p + 1), r[p + 2]>>
    BY <1>6, <2>1 DEF RowsPaired
  <2>3. Prefix(Prefix(q, m), p + 1) = Prefix(q, p + 1)
    <3> HIDE DEF q, m
    <3> QED BY <1>3, <2>1, PrefixOfPrefix
  <2>4. Prefix(q, m)[p + 2] = q[p + 2]
    <3> HIDE DEF q, m
    <3> QED BY <1>3, <2>1, PrefixType
  <2> QED BY <1>3, <2>2, <2>3, <2>4
<1>8. ASSUME NEW p \in 0..(m - 1), p = m - 1
      PROVE  p \in s0.holes \/ s0.head[p] = <<Prefix(q, p + 1), q[p + 2]>>
  <2>1. m > 0 /\ p + 1 = m /\ p + 2 = m + 1
    <3> HIDE DEF m
    <3> QED BY <1>1, <1>8
  <2>2. p \in s0.holes \/ s0.head[p] = <<r, t>>
    BY <1>4, <1>5, <1>8, <2>1 DEF Closed, MtpReady
  <2> QED BY <1>3, <2>1, <2>2
<1> HIDE DEF q
<1>9. \A p \in 0..(m - 1) : p \in s0.holes \/ s0.head[p] = <<Prefix(q, p + 1), q[p + 2]>>
  <2> TAKE p \in 0..(m - 1)
  <2>1. p < m - 1 \/ p = m - 1
    <3> HIDE DEF m
    <3> QED BY <1>1
  <2> QED BY <1>7, <1>8, <2>1
<1> QED BY <1>4, <1>9 DEF RowsPaired

\* A step leaves the engine after its token and the drafts taken, paired with what is drawn next.
Went(s0, t, d, j, y, v) ==
    /\ Good(v, Token) /\ v.past = s0.past + 1 + j /\ v.rs = After(s0.rs, t, d, j)
    /\ Closed(v, y) /\ (v.draft => v.last = v.past - 1)

LEMMA WentOn ==
    ASSUME NEW s0, Good(s0, Token), NEW t \in Token, Closed(s0, t), NEW A, Token \subseteq A, NEW d \in Seq(A),
           NEW j \in 0..Len(d), \A i \in 1..j : d[i] \in Token, NEW u, Left(s0, t, d, j, u),
           NEW y \in Token
    PROVE  Went(s0, t, d, j, y, MtpStep(u, Append(Prefix(d, j), y)))
<1> DEFINE m == s0.past
           r == s0.rs
           toks == Append(Prefix(d, j), y)
           k == j + 1
           v == MtpStep(u, toks)
<1>1. m \in Nat /\ r \in Seq(Token) /\ Len(r) = m /\ j \in Nat
  <2>1. Sound(s0, Token)
    BY SoundIs DEF Good
  <2> QED BY <2>1 DEF Sound
<1>2. Len(toks) = k /\ toks[k] = y /\ \A i \in 1..j : toks[i] = d[i]
  <2> DEFINE x == Prefix(d, j)
  <2>1. y \in A /\ x \in Seq(A) /\ Len(x) = j /\ \A i \in 1..j : x[i] = d[i]
    BY PrefixType
  <2> HIDE DEF x
  <2>2. Len(Append(x, y)) = j + 1 /\ Append(x, y)[j + 1] = y /\ \A i \in 1..j : Append(x, y)[i] = x[i]
    BY <1>1, <2>1
  <2> QED BY <2>1, <2>2 DEF x
<1> HIDE DEF toks
<1>3. /\ IsEngine(u, Token) /\ Rows(u) /\ Steady(u) /\ u.past = m + 1 + j /\ u.rs = After(r, t, d, j) /\ u.have
      /\ Len(u.rows) = j + 1 /\ \A i \in 1..(j + 1) : u.rows[i] = Prefix(u.rs, m + i)
  BY DEF Left
<1>4. \A i \in 1..j : u.rs[m + 1 + i] = d[i]
  <2> HIDE DEF r
  <2>1. KeptOf(Token, r, t, d, j)
    BY <1>1, Kept
  <2> QED BY <1>1, <1>3, <2>1 DEF KeptOf
<1>5. /\ k \in Nat \ {0} /\ k <= u.past /\ u.past - k = m /\ Len(u.rows) >= k /\ Len(u.rows) - k = 0
  <2>1. u.past = m + 1 + j /\ Len(u.rows) = j + 1
    BY <1>3
  <2> HIDE DEF m
  <2> QED BY <1>1, <2>1
<1>6. u.valid => RowsPaired(u, m)
  BY PairedOn
<1> HIDE DEF m, k
<1>7. \A i \in 1..k : u.rows[Len(u.rows) - k + i] = Prefix(u.rs, u.past - k + i)
  <2> TAKE i \in 1..k
  <2>1. i \in 1..(j + 1) /\ Len(u.rows) - k + i = i /\ u.past - k + i = m + i
    <3>1. i \in 1..(j + 1)
      BY DEF k
    <3>2. 0 + i = i
      BY <1>1, <3>1
    <3> QED BY <1>5, <3>1, <3>2
  <2> QED BY <1>3, <2>1
<1>8. \A i \in 1..(k - 1) : toks[i] = u.rs[u.past - k + i + 1]
  <2> TAKE i \in 1..(k - 1)
  <2>1. i \in 1..j /\ m + i + 1 = m + 1 + i
    BY <1>1 DEF k
  <2> QED BY <1>2, <1>4, <1>5, <2>1
<1>9. Len(u.rs) = u.past
  BY <1>3 DEF Rows
<1>10. Pairs(u, k, toks)
  <2>1. k <= u.past /\ Len(toks) = k /\ u.have /\ Len(u.rows) >= k /\ (u.valid => RowsPaired(u, u.past - k))
    BY <1>2, <1>3, <1>5, <1>6
  <2> QED BY <1>7, <1>8, <2>1 DEF Pairs
<1>11. /\ IsEngine(v, Token) /\ Same(u, v) /\ Headed(v) /\ Closed(v, toks[k])
       /\ v.draft => v.last = v.past - 1
  <2>1. Paired(u, v, toks[k], Token)
    BY <1>3, <1>5, <1>9, <1>10, MtpStepIs
  <2> QED BY <2>1 DEF Paired
<1>12. Rows(v) /\ Steady(v) /\ v.past = u.past /\ v.rs = u.rs
  BY <1>3, <1>11, SameCore DEF Same
<1> HIDE DEF v
<1> QED BY <1>2, <1>3, <1>11, <1>12 DEF Went, Good, v, toks, m

---------------------------------------------------------------------------
\* A step takes the first j of the drafts d, each drawn by the trunk from all before it, and draws y.
Taken(s0, d, j, y) ==
    /\ Went(s0, tok, d, j, y, e')
    /\ \A i \in 1..j : d[i] \in Trunk(After(s0.rs, tok, d, i - 1))
    /\ y \in Trunk(After(s0.rs, tok, d, j))
    /\ hist' = hist \o Prefix(d, j)
    /\ j > 0 => tok' = d[1] /\ evald' = SubSeq(d, 2, j) /\ tok_next' = y /\ tok_in'
    /\ j = 0 => tok' = y /\ evald' = evald /\ tok_next' = tok_next /\ tok_in' = tok_in

TakenSome(s0, d) == \E j \in 0..Len(d) : \E y \in Token : Taken(s0, d, j, y)

LEMMA VerifyTakes ==
    ASSUME NEW s0, Good(s0, Token), tok \in Token, Closed(s0, tok), NEW A, Token \subseteq A, NEW d \in Seq(A),
           Len(d) <= MaxDrafts, s0.past + 1 + Len(d) <= Ctx, Verify(s0, d)
    PROVE  TakenSome(s0, d)
<1> DEFINE s == EvalDecode(s0, <<tok>> \o d, TRUE)
           K == Len(d)
<1>0. PICK j \in 0..K : \E y \in Trunk(s.logits[j + 1]) :
         /\ \A i \in 1..j : d[i] \in Trunk(s.logits[i])
         /\ hist' = hist \o Prefix(d, j)
         /\ e' = MtpStep(IF j < K THEN Rollback(s, K - j) ELSE s, Append(Prefix(d, j), y))
         /\ IF j > 0
            THEN tok' = d[1] /\ evald' = Accepted(d, j) /\ tok_next' = y /\ tok_in' = TRUE
            ELSE tok' = y /\ UNCHANGED <<evald, tok_next, tok_in>>
  BY DEF Verify
<1>1. PICK y \in Trunk(s.logits[j + 1]) :
         /\ \A i \in 1..j : d[i] \in Trunk(s.logits[i])
         /\ hist' = hist \o Prefix(d, j)
         /\ e' = MtpStep(IF j < K THEN Rollback(s, K - j) ELSE s, Append(Prefix(d, j), y))
         /\ IF j > 0
            THEN tok' = d[1] /\ evald' = Accepted(d, j) /\ tok_next' = y /\ tok_in' = TRUE
            ELSE tok' = y /\ UNCHANGED <<evald, tok_next, tok_in>>
  BY <1>0
<1>2. y \in Token /\ \A i \in 1..j : d[i] \in Token
  BY <1>1 DEF Trunk
<1> DEFINE u == Undone(s, K - j)
<1>3. /\ Left(s0, tok, d, j, u)
      /\ \A i \in 1..(K + 1) : s.logits[i] = After(s0.rs, tok, d, i - 1)
  <2>1. Undoes(s0, tok, d, j, s)
    BY <1>2, UndoneIs
  <2> QED BY <2>1 DEF Undoes
<1>4. u = IF j < K THEN Rollback(s, K - j) ELSE s
  <2>1. K \in Nat /\ (j < K <=> K - j > 0)
    OBVIOUS
  <2> QED BY <2>1 DEF Undone
<1> HIDE DEF s, u
<1>5. Went(s0, tok, d, j, y, MtpStep(u, Append(Prefix(d, j), y)))
  BY <1>2, <1>3, WentOn
<1>6. y \in Trunk(After(s0.rs, tok, d, j))
  <2>1. j + 1 \in 1..(K + 1) /\ j + 1 - 1 = j
    OBVIOUS
  <2>2. s.logits[j + 1] = After(s0.rs, tok, d, j)
    BY <1>3, <2>1
  <2> QED BY <2>2
<1>7. \A i \in 1..j : d[i] \in Trunk(After(s0.rs, tok, d, i - 1))
  <2> TAKE i \in 1..j
  <2>1. i \in 1..(K + 1)
    OBVIOUS
  <2> QED BY <1>1, <1>3, <2>1
<1>8. Taken(s0, d, j, y)
  BY <1>1, <1>4, <1>5, <1>6, <1>7 DEF Taken, Accepted
<1> QED BY <1>2, <1>8 DEF TakenSome

\* A step without drafts takes none.
LEMMA AloneTakes ==
    ASSUME NEW s0, Good(s0, Token), tok \in Token, hist \in Seq(Token), Closed(s0, tok),
           s0.past + 1 <= Ctx, StepAlone(s0)
    PROVE  TakenSome(s0, << >>)
<1> DEFINE d == << >>
           s == EvalDecode(s0, <<tok>>, FALSE)
<1>1. d \in Seq(Token) /\ Len(d) = 0 /\ <<tok>> \o d = <<tok>> /\ Prefix(d, 0) = d /\ hist \o d = hist
  BY DEF Prefix
<1>2. tok' \in Token /\ tok' \in Trunk(Last(s.logits)) /\ e' = MtpStep(s, <<tok'>>)
      /\ hist' = hist /\ evald' = evald /\ tok_next' = tok_next /\ tok_in' = tok_in
  BY DEF StepAlone, Trunk
<1>3. Append(Prefix(d, 0), tok') = <<tok'>>
  <2>1. Append(<< >>, tok') = <<tok'>>
    OBVIOUS
  <2> QED BY <1>1, <2>1
<1> HIDE DEF d
<1>4. s0.past \in Nat /\ Ctx \in Nat /\ MaxDrafts \in Nat
  BY SoundIs, Sized DEF Good, Sound
<1>5. Len(d) <= MaxDrafts /\ s0.past + 1 + Len(d) <= Ctx /\ 0 \in 0..Len(d) /\ \A i \in 1..0 : d[i] \in Token
  BY <1>1, <1>4
<1>6. Undoes(s0, tok, d, 0, s)
  <2>1. FALSE \in BOOLEAN /\ Token \subseteq Token
    OBVIOUS
  <2>2. Undoes(s0, tok, d, 0, EvalDecode(s0, <<tok>> \o d, FALSE))
    BY <1>1, <1>5, <2>1, UndoneIs
  <2> QED BY <1>1, <2>2
<1>7. /\ Left(s0, tok, d, 0, s) /\ s.logits[1] = After(s0.rs, tok, d, 0) /\ Len(s.logits) = 1
  <2> HIDE DEF s
  <2>1. Undone(s, Len(d) - 0) = s /\ 1 \in 1..(Len(d) + 1)
    BY <1>1 DEF Undone
  <2>2. s.logits[1] = After(s0.rs, tok, d, 1 - 1)
    BY <1>6, <2>1 DEF Undoes
  <2> QED BY <1>1, <1>6, <2>1, <2>2 DEF Undoes
<1> HIDE DEF s
<1>8. Went(s0, tok, d, 0, tok', MtpStep(s, Append(Prefix(d, 0), tok')))
  BY <1>1, <1>2, <1>5, <1>7, WentOn
<1>9. tok' \in Trunk(After(s0.rs, tok, d, 0))
  BY <1>2, <1>7 DEF Last
<1>10. Taken(s0, d, 0, tok')
  <2>1. Went(s0, tok, d, 0, tok', e')
    BY <1>2, <1>3, <1>8
  <2>2. \A i \in 1..0 : d[i] \in Trunk(After(s0.rs, tok, d, i - 1))
    OBVIOUS
  <2>3. hist' = hist \o Prefix(d, 0)
    BY <1>1, <1>2
  <2>4. ~(0 > 0)
    OBVIOUS
  <2> QED BY <1>2, <1>9, <2>1, <2>2, <2>3, <2>4 DEF Taken
<1> QED BY <1>1, <1>2, <1>10 DEF TakenSome, d

---------------------------------------------------------------------------
\* The drafts that fit.
LEMMA MinThree ==
    ASSUME NEW a \in Int, NEW b \in Int, NEW c \in Int
    PROVE  /\ Min({a, b, c}) \in {a, b, c}
           /\ Min({a, b, c}) <= a /\ Min({a, b, c}) <= b /\ Min({a, b, c}) <= c
<1> DEFINE P(x) == x \in {a, b, c} /\ \A y \in {a, b, c} : x <= y
<1>1. P(a) \/ P(b) \/ P(c)
  OBVIOUS
<1>2. Min({a, b, c}) = CHOOSE x : P(x)
  BY DEF Min
<1>3. P(Min({a, b, c}))
  <2> HIDE DEF P
  <2> QED BY <1>1, <1>2
<1> QED BY <1>3

LEMMA MinOf ==
    ASSUME NEW I \in SUBSET Nat, I # {}
    PROVE  Min(I) \in I
<1>1. PICK m \in I : \A k \in I : m <= k
  BY LeastNat
<1> QED BY <1>1 DEF Min

LEMMA RoomNat == Ctx \in Nat /\ Budget \in Nat /\ base \in Nat => Room \in Nat
<1> SUFFICES ASSUME Ctx \in Nat, Budget \in Nat, base \in Nat PROVE Room \in Nat
  OBVIOUS
<1>1. Min({Budget, Ctx - base - 2}) \in Int
  BY MinPair
<1> QED BY <1>1, MaxPair DEF Room

LEMMA TrimmedIs ==
    ASSUME NEW S, NEW d \in Seq(S), Len(hist) \in Nat, Len(hist) <= Ctx, n \in Nat, base \in Nat
    PROVE  /\ Trimmed(d) \in Seq(S) /\ Len(Trimmed(d)) <= Len(d)
           /\ Len(hist) + Len(Trimmed(d)) <= Ctx
<1> DEFINE I == {i \in 1..Len(d) : d[i] = Eog}
           eog == IF I # {} THEN Min(I) ELSE 0
           a == IF eog = 0 THEN Len(d) ELSE eog - 1
           b == Max({0, Room - n - 1})
           c == Max({0, Ctx - Len(hist) - 1})
           k == Min({a, b, c})
<1>0. Ctx \in Nat /\ Room \in Nat
  BY Sizes, RoomNat
<1>1. a \in 0..Len(d)
  <2>1. eog \in 0..Len(d) /\ Len(d) \in Nat
    <3>1. I \in SUBSET Nat /\ I \subseteq 1..Len(d) /\ Len(d) \in Nat
      OBVIOUS
    <3> HIDE DEF I
    <3>2. I # {} => Min(I) \in 1..Len(d)
      BY <3>1, MinOf
    <3> QED BY <3>1, <3>2
  <2> HIDE DEF eog
  <2> QED BY <2>1
<1>2. b \in Nat
  BY <1>0, MaxPair
<1>3. c \in Nat /\ Len(hist) + c <= Ctx
  <2>1. c = IF 0 >= Ctx - Len(hist) - 1 THEN 0 ELSE Ctx - Len(hist) - 1
    BY <1>0, MaxPair
  <2> HIDE DEF c
  <2> QED BY <1>0, <2>1
<1>4. Trimmed(d) = Prefix(d, k)
  BY DEF Trimmed, SelectInSeq
<1> HIDE DEF a, b, c
<1>5. k \in {a, b, c} /\ k <= a /\ k <= b /\ k <= c
  <2>1. a \in Int /\ b \in Int /\ c \in Int
    BY <1>1, <1>2, <1>3
  <2> QED BY <2>1, MinThree
<1> HIDE DEF k
<1>6. k \in 0..Len(d) /\ Len(hist) + k <= Ctx
  BY <1>0, <1>1, <1>2, <1>3, <1>5
<1>7. Prefix(d, k) \in Seq(S) /\ Len(Prefix(d, k)) = k
  BY <1>6, PrefixType
<1> QED BY <1>4, <1>6, <1>7

LEMMA PaddedIs ==
    ASSUME pol.kmax \in Nat, NEW d
    PROVE  \E A : Token \subseteq A /\ Padded(d) \in Seq(A) /\ Len(Padded(d)) = pol.kmax
<1> DEFINE p == [i \in 1..pol.kmax |-> d[Min({i, Len(d)})]]
           A == Token \cup {p[i] : i \in 1..pol.kmax}
<1>1. \A i \in 1..pol.kmax : p[i] \in A
  OBVIOUS
<1>2. p = [i \in 1..pol.kmax |-> p[i]]
  OBVIOUS
<1>3. Padded(d) = p
  BY DEF Padded
<1>4. Token \subseteq A
  OBVIOUS
<1> HIDE DEF A, p
<1>5. p \in Seq(A) /\ Len(p) = pol.kmax
  BY <1>1, <1>2, AllOf
<1> QED BY <1>3, <1>4, <1>5

---------------------------------------------------------------------------
\* The evaluation point: the engine has all of the history but tok.
AtPoint == /\ Good(e, Token) /\ Closed(e, tok) /\ (e.draft => e.last = e.past - 1)
           /\ e.past \in Nat /\ e.past > 0 /\ e.past = Len(hist) - 1 /\ e.rs \in Seq(Token) /\ Len(e.rs) = e.past
           /\ hist = Append(e.rs, tok) /\ hist \in Seq(Token) /\ Len(hist) <= Ctx /\ Len(hist) \in Nat
           /\ tok \in Token /\ n \in Nat /\ base \in Nat

LEMMA AtStep == IInv /\ pc = "step" => AtPoint
<1> SUFFICES ASSUME IInv, pc = "step" PROVE AtPoint
  OBVIOUS
<1>1. Good(e, Token) /\ hist \in Seq(Token) /\ Len(hist) <= Ctx /\ tok \in Token /\ n \in Nat /\ base \in Nat
  BY DEF IInv, TypeOK, EngineInv, Good
<1>2. Sound(e, Token)
  BY <1>1, SoundIs DEF Good
<1>3. e.rs = Prefix(hist, e.past) /\ e.past = Len(hist) - 1
  BY DEF IInv, EngineInv, EngineHolds
<1>4. Closed(e, tok) /\ e.past > 0 /\ (e.draft => e.last = e.past - 1)
  BY DEF IInv, Drawn, Following, Loop, Looping
<1>5. hist # << >> /\ Last(hist) = tok
  BY DEF IInv, Looping
<1>6. hist = Append(e.rs, tok)
  <2>1. Len(hist) \in Nat /\ Len(hist) >= 1
    BY <1>1, <1>5
  <2>2. Len(hist) - 1 \in 0..(Len(hist) - 1) /\ Len(hist) - 1 + 1 = Len(hist)
    BY <2>1
  <2>3. Prefix(hist, Len(hist)) = Append(Prefix(hist, Len(hist) - 1), hist[Len(hist)])
    BY <1>1, <2>2, PrefixNext
  <2>4. Prefix(hist, Len(hist)) = hist
    BY <1>1, PrefixAll
  <2> QED BY <1>3, <1>5, <2>3, <2>4 DEF Last
<1> QED BY <1>1, <1>2, <1>3, <1>4, <1>6 DEF AtPoint, Sound

\* A step: the history grows by the drafts q, the engine has all of it, and y is drawn next.
Drew(q, y) ==
    /\ q \in Seq(Token) /\ Len(q) <= MaxDrafts /\ Len(hist) + Len(q) <= Ctx /\ y \in Token
    /\ y \in Trunk(hist \o q) /\ \A i \in 1..Len(q) : q[i] \in Trunk(hist \o Prefix(q, i - 1))
    /\ hist' = hist \o q
    /\ Good(e', Token) /\ e'.past = Len(hist) + Len(q) /\ e'.rs = hist \o q
    /\ Closed(e', y) /\ (e'.draft => e'.last = e'.past - 1)
    /\ Len(q) > 0 => tok' = q[1] /\ evald' = Tail(q) /\ tok_next' = y /\ tok_in'
    /\ Len(q) = 0 => tok' = y /\ evald' = evald /\ tok_next' = tok_next /\ tok_in' = tok_in

LEMMA DrewFrom ==
    ASSUME AtPoint, NEW s0, s0.past = e.past, s0.rs = e.rs, NEW A, Token \subseteq A, NEW d \in Seq(A),
           Len(d) <= MaxDrafts, Len(hist) + Len(d) <= Ctx, TakenSome(s0, d)
    PROVE  \E q, y : Drew(q, y)
<1>1. PICK j \in 0..Len(d) : \E y \in Token : Taken(s0, d, j, y)
  BY DEF TakenSome
<1>2. PICK y \in Token : Taken(s0, d, j, y)
  BY <1>1
<1> DEFINE q == Prefix(d, j)
<1>3. /\ e.past \in Nat /\ e.past + 1 = Len(hist) /\ e.rs \in Seq(Token) /\ hist = Append(e.rs, tok) /\ tok \in Token
      /\ Len(hist) \in Nat /\ hist \in Seq(Token) /\ j \in Nat /\ j <= Len(d) /\ Len(d) \in Nat
  BY DEF AtPoint
<1>4. /\ Went(s0, tok, d, j, y, e')
      /\ \A i \in 1..j : d[i] \in Trunk(After(s0.rs, tok, d, i - 1))
      /\ y \in Trunk(After(s0.rs, tok, d, j))
      /\ hist' = hist \o q
      /\ j > 0 => tok' = d[1] /\ evald' = SubSeq(d, 2, j) /\ tok_next' = y /\ tok_in'
      /\ j = 0 => tok' = y /\ evald' = evald /\ tok_next' = tok_next /\ tok_in' = tok_in
  BY <1>2 DEF Taken
<1>5. \A i \in 1..j : d[i] \in Token
  BY <1>4 DEF Trunk
<1>6. q \in Seq(Token) /\ Len(q) = j /\ \A i \in 1..j : q[i] = d[i]
  <2>1. q \in Seq(A) /\ Len(q) = j /\ \A i \in 1..j : q[i] = d[i]
    BY PrefixType
  <2> HIDE DEF q
  <2>2. q = [i \in 1..j |-> q[i]]
    BY <2>1
  <2> QED BY <1>3, <1>5, <2>1, <2>2, AllOf
<1>7. \A k \in 0..j : After(s0.rs, tok, d, k) = hist \o Prefix(q, k)
  <2> TAKE k \in 0..j
  <2>1. Prefix(q, k) = Prefix(d, k)
    BY PrefixOfPrefix
  <2>2. hist = e.rs \o <<tok>>
    BY <1>3
  <2> QED BY <2>1, <2>2 DEF After
<1>8. Prefix(q, j) = q
  BY <1>6, PrefixAll
<1> HIDE DEF q
<1>9. \A i \in 1..j : q[i] \in Trunk(hist \o Prefix(q, i - 1))
  <2> TAKE i \in 1..j
  <2>1. i - 1 \in 0..j
    BY <1>3
  <2> QED BY <1>4, <1>6, <1>7, <2>1
<1>10. After(s0.rs, tok, d, j) = hist \o q
  <2>1. j \in 0..j
    BY <1>3
  <2> QED BY <1>7, <1>8, <2>1
<1>11. Good(e', Token) /\ e'.past = e.past + 1 + j /\ e'.rs = hist \o q
       /\ Closed(e', y) /\ (e'.draft => e'.last = e'.past - 1)
  BY <1>4, <1>10 DEF Went
<1>12. e'.past = Len(hist) + Len(q)
  BY <1>3, <1>6, <1>11
<1>13. Len(q) <= MaxDrafts /\ Len(hist) + Len(q) <= Ctx
  BY <1>3, <1>6, Sized
<1>14. j > 0 => q[1] = d[1] /\ Tail(q) = SubSeq(d, 2, j)
  <2> SUFFICES ASSUME j > 0 PROVE q[1] = d[1] /\ Tail(q) = SubSeq(d, 2, j)
    OBVIOUS
  <2>1. q[1] = d[1]
    BY <1>3, <1>6
  <2>2. Tail(Prefix(d, j)) = SubSeq(d, 2, j)
    BY <1>3 DEF Prefix
  <2> QED BY <2>1, <2>2 DEF q
<1>15. Drew(q, y)
  <2>1. Len(q) > 0 => tok' = q[1] /\ evald' = Tail(q) /\ tok_next' = y /\ tok_in'
    BY <1>4, <1>6, <1>14
  <2>2. Len(q) = 0 => tok' = y /\ evald' = evald /\ tok_next' = tok_next /\ tok_in' = tok_in
    BY <1>4, <1>6
  <2>3. y \in Trunk(hist \o q) /\ \A i \in 1..Len(q) : q[i] \in Trunk(hist \o Prefix(q, i - 1))
    BY <1>4, <1>6, <1>9, <1>10
  <2> QED BY <1>2, <1>4, <1>6, <1>11, <1>12, <1>13, <2>1, <2>2, <2>3 DEF Drew
<1> QED BY <1>15

PolOK == pol \in [on : BOOLEAN, bad : Nat, kmax : 0..MaxDrafts]

LEMMA ChooseIs ==
    ASSUME PolOK, NEW k, NEW match, NEW pays \in BOOLEAN
    PROVE  Choose(pol, k, match, pays) \in [on : BOOLEAN, bad : Nat, kmax : 0..MaxDrafts]
           /\ Choose(pol, k, match, pays).kmax = pol.kmax
<1> DEFINE c == Choose(pol, k, match, pays)
           R == [on : BOOLEAN, bad : Nat, kmax : 0..MaxDrafts]
<1>1. /\ [pol EXCEPT !.on = pays] \in R /\ [pol EXCEPT !.on = TRUE, !.bad = 0] \in R /\ pol \in R
      /\ [pol EXCEPT !.bad = 0] \in R /\ [pol EXCEPT !.bad = @ + 1] \in R
      /\ [pol EXCEPT !.on = FALSE, !.bad = 0] \in R
  <2>1. pol \in R
    BY DEF PolOK
  <2>2. [pol EXCEPT !.on = pays] \in R
    BY <2>1
  <2>3. [pol EXCEPT !.on = TRUE, !.bad = 0] \in R
    BY <2>1
  <2>4. [pol EXCEPT !.bad = 0] \in R
    BY <2>1
  <2>5. pol.bad + 1 \in Nat
    BY <2>1
  <2>6. [pol EXCEPT !.bad = @ + 1] \in R
    BY <2>1, <2>5
  <2>7. [pol EXCEPT !.on = FALSE, !.bad = 0] \in R
    BY <2>1
  <2> QED BY <2>1, <2>2, <2>3, <2>4, <2>6, <2>7
<1>2. /\ [pol EXCEPT !.on = pays].kmax = pol.kmax /\ [pol EXCEPT !.on = TRUE, !.bad = 0].kmax = pol.kmax
      /\ [pol EXCEPT !.bad = 0].kmax = pol.kmax /\ [pol EXCEPT !.bad = @ + 1].kmax = pol.kmax
      /\ [pol EXCEPT !.on = FALSE, !.bad = 0].kmax = pol.kmax
  BY DEF PolOK
<1>3. \/ c = [pol EXCEPT !.on = pays] \/ c = [pol EXCEPT !.on = TRUE, !.bad = 0] \/ c = pol
      \/ c = [pol EXCEPT !.bad = 0] \/ c = [pol EXCEPT !.bad = @ + 1] \/ c = [pol EXCEPT !.on = FALSE, !.bad = 0]
  <2>1. pol.on \in BOOLEAN
    BY DEF PolOK
  <2>2. CASE pol.kmax = HeadDrafts
    BY <2>2 DEF Choose
  <2>3. CASE pol.kmax # HeadDrafts /\ ~pol.on
    BY <2>3 DEF Choose
  <2>4. CASE pol.kmax # HeadDrafts /\ pol.on
    BY <2>4 DEF Choose, NewSequence
  <2> QED BY <2>1, <2>2, <2>3, <2>4
<1> HIDE DEF c, R
<1>4. c \in R /\ c.kmax = pol.kmax
  BY <1>1, <1>2, <1>3
<1> QED BY <1>4 DEF c, R

\* The drafts of the head ...
LEMMA HeadDraws ==
    ASSUME AtPoint, e.draft, HeadStep
    PROVE  \E q, y : Drew(q, y)
<1>0. /\ HeadDrafts \in Nat \ {0} /\ HeadDrafts <= MaxDrafts /\ MaxDrafts \in Nat
      /\ Len(hist) \in Nat /\ Len(hist) <= Ctx /\ n \in Nat /\ base \in Nat /\ tok \in Token
      /\ Good(e, Token) /\ e.past > 0 /\ Closed(e, tok) /\ e.last = e.past - 1 /\ hist \in Seq(Token)
      /\ e.past + 1 = Len(hist) /\ e.past \in Nat
  BY Sized DEF AtPoint
<1>1. PICK k \in 1..HeadDrafts : \E d \in {Trimmed(c) : c \in UNION {[1..m -> Token] : m \in 0..k}} :
          Stepped(Chain(e, k - 1), d)
  BY DEF HeadStep
<1>2. PICK m \in 0..k : \E c \in [1..m -> Token] : Stepped(Chain(e, k - 1), Trimmed(c))
  BY <1>1
<1>3. PICK c \in [1..m -> Token] : Stepped(Chain(e, k - 1), Trimmed(c))
  BY <1>2
<1> DEFINE s0 == Chain(e, k - 1)
           d == Trimmed(c)
<1>4. c \in Seq(Token) /\ Len(c) = m /\ m <= MaxDrafts /\ m \in Nat
  BY <1>0
<1>5. d \in Seq(Token) /\ Len(d) <= Len(c) /\ Len(hist) + Len(d) <= Ctx
  BY <1>0, <1>4, TrimmedIs
<1>6. Good(s0, Token) /\ Closed(s0, tok) /\ Same(e, s0)
  <2>1. k - 1 \in Nat
    BY <1>0
  <2> QED BY <1>0, <2>1, ChainIs
<1>7. Stepped(s0, d)
  BY <1>3
<1> HIDE DEF s0, d
<1>8. s0.past = e.past /\ s0.rs = e.rs
  BY <1>6 DEF Same
<1>9. Len(d) <= MaxDrafts /\ s0.past + 1 + Len(d) <= Ctx /\ s0.past + 1 <= Ctx
  <2>1. Len(d) \in Nat
    BY <1>5
  <2> QED BY <1>0, <1>4, <1>5, <1>8, <2>1, Sized
<1>10. TakenSome(s0, d)
  <2>1. CASE d = << >>
    BY <1>0, <1>6, <1>7, <1>9, <2>1, AloneTakes DEF Stepped
  <2>2. CASE d # << >>
    <3>1. Token \subseteq Token /\ Verify(s0, d)
      BY <1>7, <2>2 DEF Stepped
    <3> QED BY <1>0, <1>5, <1>6, <1>9, <3>1, VerifyTakes
  <2> QED BY <2>1, <2>2
<1>11. Token \subseteq Token
  OBVIOUS
<1> QED BY <1>5, <1>8, <1>9, <1>10, <1>11, DrewFrom

\* ... those copied from the history ...
LEMMA LookupDraws ==
    ASSUME AtPoint, PolOK, NEW p, LookupStep(p)
    PROVE  \E q, y : Drew(q, y)
<1>0. /\ MaxDrafts \in Nat /\ pol.kmax \in Nat /\ pol.kmax <= MaxDrafts
      /\ Len(hist) \in Nat /\ Len(hist) <= Ctx /\ n \in Nat /\ base \in Nat /\ tok \in Token
      /\ Good(e, Token) /\ Closed(e, tok) /\ hist \in Seq(Token)
      /\ e.past + 1 = Len(hist) /\ e.past \in Nat
  BY Sized DEF AtPoint, PolOK
<1>1. PICK first : Stepped(e, Trimmed(Padded(first)))
  BY DEF LookupStep
<1>2. PICK A : Token \subseteq A /\ Padded(first) \in Seq(A) /\ Len(Padded(first)) = pol.kmax
  BY <1>0, PaddedIs
<1> DEFINE d == Trimmed(Padded(first))
<1>3. d \in Seq(A) /\ Len(d) <= pol.kmax /\ Len(hist) + Len(d) <= Ctx
  BY <1>0, <1>2, TrimmedIs
<1>4. Stepped(e, d)
  BY <1>1
<1> HIDE DEF d
<1>5. Len(d) <= MaxDrafts /\ e.past + 1 + Len(d) <= Ctx /\ e.past + 1 <= Ctx
  <2>1. Len(d) \in Nat
    BY <1>3
  <2> QED BY <1>0, <1>3, <2>1, Sized
<1>6. TakenSome(e, d)
  <2>1. CASE d = << >>
    BY <1>0, <1>4, <1>5, <2>1, AloneTakes DEF Stepped
  <2>2. CASE d # << >>
    <3>1. Verify(e, d)
      BY <1>4, <2>2 DEF Stepped
    <3> QED BY <1>0, <1>2, <1>3, <1>5, <3>1, VerifyTakes
  <2> QED BY <2>1, <2>2
<1> QED BY <1>2, <1>3, <1>5, <1>6, DrewFrom

\* ... or none.
LEMMA AloneDraws ==
    ASSUME AtPoint, StepAlone(e)
    PROVE  \E q, y : Drew(q, y)
<1>0. /\ Good(e, Token) /\ Closed(e, tok) /\ hist \in Seq(Token) /\ tok \in Token /\ e.past + 1 <= Ctx
      /\ Len(hist) \in Nat /\ Len(hist) <= Ctx /\ MaxDrafts \in Nat
  BY Sized DEF AtPoint
<1>1. TakenSome(e, << >>)
  BY <1>0, AloneTakes
<1> DEFINE d == << >>
<1>2. d \in Seq(Token) /\ Len(d) = 0 /\ Token \subseteq Token
  OBVIOUS
<1>3. TakenSome(e, d)
  BY <1>1
<1> HIDE DEF d
<1>4. Len(d) <= MaxDrafts /\ Len(hist) + Len(d) <= Ctx
  BY <1>0, <1>2
<1> QED BY <1>2, <1>3, <1>4, DrewFrom

LEMMA StepDraws ==
    ASSUME IInv, Step
    PROVE  AtPoint /\ (\E q, y : Drew(q, y)) /\ PolOK'
<1>1. AtPoint
  BY AtStep DEF Step
<1>2. PolOK
  BY DEF IInv, TypeOK, PolOK
<1>3. CASE e.draft /\ DraftedStep
  <2>1. CASE ~LookupOn
    <3>1. HeadStep /\ pol' = pol
      BY <1>3, <2>1 DEF DraftedStep
    <3> QED BY <1>1, <1>2, <1>3, <3>1, HeadDraws DEF PolOK
  <2>2. CASE LookupOn
    <3> DEFINE p == Proposal(look')
    <3>1. PICK pays \in BOOLEAN : pol' = Choose(pol, Len(p.drafts), p.match, pays)
      <4>1. \E pays \in IF p.drafts = << >> THEN {FALSE} ELSE BOOLEAN :
                pol' = Choose(pol, Len(p.drafts), p.match, pays)
        BY <1>3, <2>2 DEF DraftedStep
      <4> QED BY <4>1
    <3>2. IF pol'.on THEN LookupStep(p.drafts) ELSE HeadStep
      BY <1>3, <2>2 DEF DraftedStep
    <3> HIDE DEF p
    <3>3. PolOK'
      BY <1>2, <3>1, ChooseIs DEF PolOK
    <3>4. \E q, y : Drew(q, y)
      BY <1>1, <1>2, <1>3, <3>2, HeadDraws, LookupDraws
    <3> QED BY <1>1, <3>3, <3>4
  <2> QED BY <2>1, <2>2
<1>4. CASE ~e.draft /\ StepAlone(e) /\ UNCHANGED <<look, pol>>
  BY <1>1, <1>2, <1>4, AloneDraws DEF PolOK
<1> QED BY <1>3, <1>4 DEF Step

\* A subsequence up to the end, of a longer history.
LEMMA SubCat ==
    ASSUME NEW S, NEW h \in Seq(S), NEW q \in Seq(S), NEW b \in Nat, b <= Len(h)
    PROVE  /\ SubSeq(h \o q, b + 1, Len(h \o q)) = SubSeq(h, b + 1, Len(h)) \o q
           /\ SubSeq(h, b + 1, Len(h)) \in Seq(S) /\ h \o q \in Seq(S) /\ Len(h \o q) = Len(h) + Len(q)
<1>1. h \o q \in Seq(S) /\ Len(h \o q) = Len(h) + Len(q)
  OBVIOUS
<1>2. SubSeq(h, b + 1, Len(h)) \in Seq(S) /\ Len(SubSeq(h, b + 1, Len(h))) = Len(h) - b
  OBVIOUS
<1>3. SubSeq(h \o q, b + 1, Len(h) + Len(q)) = SubSeq(h, b + 1, Len(h)) \o q
  <2> DEFINE hq == h \o q
             s == SubSeq(h, b + 1, Len(h))
             x == SubSeq(hq, b + 1, Len(h) + Len(q))
             y == s \o q
             k == Len(h) - b + Len(q)
  <2>1. /\ s \in Seq(S) /\ Len(s) = Len(h) - b /\ \A i \in 1..(Len(h) - b) : s[i] = h[b + i]
    OBVIOUS
  <2>2. /\ hq \in Seq(S) /\ Len(hq) = Len(h) + Len(q)
        /\ \A i \in 1..Len(h) : hq[i] = h[i]
        /\ \A i \in 1..Len(q) : hq[Len(h) + i] = q[i]
    OBVIOUS
  <2> HIDE DEF hq, s
  <2>3. x \in Seq(S) /\ Len(x) = k /\ \A i \in 1..k : x[i] = hq[b + i]
    BY <2>2
  <2>4. /\ y \in Seq(S) /\ Len(y) = k
        /\ \A i \in 1..Len(s) : y[i] = s[i]
        /\ \A i \in 1..Len(q) : y[Len(s) + i] = q[i]
    <3>1. /\ y \in Seq(S) /\ Len(y) = Len(s) + Len(q)
          /\ \A i \in 1..Len(s) : y[i] = s[i]
          /\ \A i \in 1..Len(q) : y[Len(s) + i] = q[i]
      <4>1. s \in Seq(S) /\ q \in Seq(S)
        BY <2>1
      <4> QED BY <4>1, CatOf
    <3>2. Len(s) + Len(q) = k
      BY <2>1
    <3> QED BY <3>1, <3>2
  <2> HIDE DEF x, y
  <2>5. ASSUME NEW i \in 1..k PROVE x[i] = y[i]
    <3>1. CASE i <= Len(h) - b
      <4>1. i \in 1..(Len(h) - b) /\ i \in 1..Len(s) /\ b + i \in 1..Len(h)
        BY <2>1, <3>1
      <4> QED BY <2>1, <2>2, <2>3, <2>4, <4>1
    <3>2. CASE i > Len(h) - b
      <4> DEFINE j == i - (Len(h) - b)
      <4>1. j \in 1..Len(q) /\ Len(s) + j = i /\ Len(h) + j = b + i
        BY <2>1, <3>2
      <4> HIDE DEF j
      <4> QED BY <2>2, <2>3, <2>4, <4>1
    <3> QED BY <3>1, <3>2
  <2>6. x = y
    BY <2>3, <2>4, <2>5, SMTT(30)
  <2> QED BY <2>6 DEF x, y, hq, s
<1> QED BY <1>1, <1>2, <1>3

\* A prefix and what follows it.
LEMMA SubNext ==
    ASSUME NEW S, NEW h \in Seq(S), NEW a \in Nat, NEW k \in Nat, a + k <= Len(h)
    PROVE  Prefix(h, a) \o SubSeq(h, a + 1, a + k) = Prefix(h, a + k)
<1> DEFINE x == Prefix(h, a)
           t == SubSeq(h, a + 1, a + k)
           y == Prefix(h, a + k)
<1>1. a \in 0..Len(h) /\ a + k \in 0..Len(h) /\ Len(h) \in Nat
  OBVIOUS
<1>2. x \in Seq(S) /\ Len(x) = a /\ \A i \in 1..a : x[i] = h[i]
  BY <1>1, PrefixType
<1>3. y \in Seq(S) /\ Len(y) = a + k /\ \A i \in 1..(a + k) : y[i] = h[i]
  BY <1>1, PrefixType
<1>4. t \in Seq(S) /\ Len(t) = k /\ \A i \in 1..k : t[i] = h[a + i]
  OBVIOUS
<1> HIDE DEF x, y, t
<1>5. /\ x \o t \in Seq(S) /\ Len(x \o t) = Len(x) + Len(t)
      /\ \A i \in 1..Len(x) : (x \o t)[i] = x[i]
      /\ \A i \in 1..Len(t) : (x \o t)[Len(x) + i] = t[i]
  <2>1. x \in Seq(S) /\ t \in Seq(S)
    BY <1>2, <1>4
  <2> QED BY <2>1, CatOf
<1>6. ASSUME NEW i \in 1..(a + k) PROVE (x \o t)[i] = y[i]
  <2>1. CASE i <= a
    <3>1. i \in 1..a
      BY <2>1
    <3> QED BY <1>2, <1>3, <1>5, <3>1
  <2>2. CASE i > a
    <3> DEFINE j == i - a
    <3>1. j \in 1..k /\ a + j = i
      BY <2>2
    <3> HIDE DEF j
    <3>2. j \in 1..Len(t) /\ Len(x) + j = i
      BY <1>2, <1>4, <3>1
    <3>3. (x \o t)[i] = t[j]
      BY <1>5, <3>2
    <3>4. t[j] = h[i]
      BY <1>4, <3>1
    <3>5. y[i] = h[i]
      BY <1>3
    <3> QED BY <3>3, <3>4, <3>5
  <2>3. i <= a \/ i > a
    OBVIOUS
  <2> QED BY <2>1, <2>2, <2>3
<1>7. Len(x \o t) = Len(y)
  BY <1>2, <1>3, <1>4, <1>5
<1>8. x \o t = y
  BY <1>3, <1>5, <1>6, <1>7
<1> QED BY <1>8 DEF x, y, t

LEMMA EngineKept ==
    ASSUME Good(e, Token)', EngineHolds'
    PROVE  EngineInv' /\ IsEngine(e, Token)'
BY DEF Good, EngineInv

LEMMA StepKeeps ==
    ASSUME IInv, Step
    PROVE  IInv'
<1>1. AtPoint /\ PolOK'
  BY StepDraws
<1>2. PICK q, y : Drew(q, y)
  BY StepDraws
<1> DEFINE h == hist \o q
<1>3. /\ pc = "step" /\ pc' = "top" /\ n' = n + 1 /\ fed' = fed /\ think' = think /\ cut' = cut
      /\ shown' = shown /\ base' = base
  BY DEF Step
<1>4. /\ fed \in Nat /\ base \in Nat /\ n \in Nat /\ tok \in Token /\ tok_next \in Token /\ evald \in Seq(Token)
      /\ shown \in Seq(Token) /\ tok_in \in BOOLEAN /\ think \in BOOLEAN /\ cut \in BOOLEAN
      /\ ~tok_in /\ base <= Len(hist) /\ (~cut => shown \o << >> = SubSeq(hist, base + 1, Len(hist)))
  BY <1>3 DEF IInv, TypeOK, Looping, Loop, ShownInOrder
<1>5. /\ q \in Seq(Token) /\ Len(q) \in Nat /\ Len(hist) + Len(q) <= Ctx /\ y \in Token /\ y \in Trunk(h) /\ hist' = h
      /\ Good(e', Token) /\ e'.past = Len(hist) + Len(q) /\ e'.rs = h
      /\ Closed(e', y) /\ (e'.draft => e'.last = e'.past - 1)
      /\ Len(q) > 0 => tok' = q[1] /\ evald' = Tail(q) /\ tok_next' = y /\ tok_in'
      /\ Len(q) = 0 => tok' = y /\ evald' = evald /\ tok_next' = tok_next /\ tok_in' = tok_in
  BY <1>2 DEF Drew
<1>6. hist \in Seq(Token) /\ Len(hist) \in Nat /\ Len(hist) > 0
  BY <1>1 DEF AtPoint
<1>7. /\ h \in Seq(Token) /\ Len(h) = Len(hist) + Len(q)
      /\ SubSeq(h, base + 1, Len(h)) = SubSeq(hist, base + 1, Len(hist)) \o q
  <2>1. base \in Nat /\ base <= Len(hist) /\ q \in Seq(Token)
    BY <1>4, <1>5
  <2> QED BY <1>6, <2>1, SubCat, ZenonT(40)
<1>8. Len(q) = 0 => q = << >>
  BY <1>5
<1>9. Len(q) > 0 => q[1] \in Token /\ Tail(q) \in Seq(Token) /\ <<q[1]>> \o Tail(q) = q
  BY <1>5
<1>10. tok' \in Token /\ tok_next' \in Token /\ evald' \in Seq(Token)
  <2>1. CASE Len(q) > 0
    BY <1>5, <1>9, <2>1
  <2>2. CASE Len(q) = 0
    BY <1>4, <1>5, <2>2
  <2> QED BY <1>5, <2>1, <2>2
<1>11. tok_in' \in BOOLEAN /\ (tok_in' <=> Len(q) > 0)
  <2>1. CASE Len(q) > 0
    <3>1. tok_in' = TRUE
      BY <2>1, <1>2 DEF Drew
    <3> QED BY <2>1, <3>1
  <2>2. CASE Len(q) = 0
    <3>1. tok_in' = tok_in
      BY <2>2, <1>5
    <3> QED BY <1>4, <2>2, <3>1
  <2> QED BY <1>5, <2>1, <2>2
<1> HIDE DEF h
<1>12. EngineHolds'
  <2>1. Prefix(h, Len(h)) = h
    BY <1>7, PrefixAll
  <2> QED BY <1>3, <1>5, <1>7, <2>1 DEF EngineHolds
<1>13. EngineInv' /\ IsEngine(e, Token)'
  BY <1>5, <1>12, EngineKept
<1>14. TypeOK'
  <2>1. hist' \in Seq(Token) /\ Len(hist') <= Ctx
    BY <1>5, <1>7
  <2>2. n' \in Nat
    BY <1>3, <1>4
  <2> QED BY <1>1, <1>3, <1>4, <1>10, <1>11, <1>13, <2>1, <2>2 DEF TypeOK, PolOK
<1>15. Feeding'
  BY <1>3 DEF Feeding
<1>16. Drawn'
  <2>1. Following' = y
    <3>1. CASE Len(q) > 0
      BY <1>5, <1>11, <3>1 DEF Following
    <3>2. CASE Len(q) = 0
      BY <1>5, <1>11, <3>2 DEF Following
    <3> QED BY <1>5, <3>1, <3>2
  <2>2. e'.past > 0
    BY <1>5, <1>6
  <2> QED BY <1>5, <2>1, <2>2 DEF Drawn
<1>17. Looping'
  <2>1. base' <= Len(hist')
    BY <1>3, <1>4, <1>5, <1>6, <1>7
  <2>2. ShownInOrder'
    <3> DEFINE z == IF tok_in' THEN <<tok'>> \o evald' ELSE << >>
    <3> SUFFICES ASSUME ~cut
                 PROVE  shown \o z = SubSeq(h, base + 1, Len(h))
      BY <1>3, <1>5 DEF ShownInOrder
    <3>1. shown \o << >> = SubSeq(hist, base + 1, Len(hist)) /\ shown \o << >> = shown
      BY <1>4
    <3>2. z = q
      <4>1. CASE Len(q) > 0
        <5>1. tok_in' /\ <<tok'>> \o evald' = q
          BY <1>5, <1>9, <1>11, <4>1
        <5> QED BY <5>1
      <4>2. CASE Len(q) = 0
        <5>1. ~tok_in' /\ q = << >>
          BY <1>8, <1>11, <4>2
        <5> QED BY <5>1
      <4> QED BY <1>5, <4>1, <4>2
    <3> HIDE DEF z
    <3> QED BY <1>7, <3>1, <3>2
  <2> QED BY <1>3, <2>1, <2>2 DEF Looping
<1> QED BY <1>13, <1>14, <1>15, <1>16, <1>17 DEF IInv

---------------------------------------------------------------------------
\* What the invariant says wherever a request stands.
Facts == /\ Good(e, Token) /\ Sound(e, Token) /\ hist \in Seq(Token) /\ Len(hist) \in Nat /\ Len(hist) <= Ctx
         /\ pc \in {"idle", "feed", "top", "step"} /\ fed \in Nat /\ base \in Nat /\ n \in Nat
         /\ tok \in Token /\ tok_next \in Token /\ evald \in Seq(Token) /\ shown \in Seq(Token)
         /\ tok_in \in BOOLEAN /\ think \in BOOLEAN /\ cut \in BOOLEAN /\ PolOK
         /\ e.rs = Prefix(hist, e.past)
         /\ e.past = CASE pc = "feed" -> fed [] pc = "step" -> Len(hist) - 1 [] OTHER -> Len(hist)

LEMMA FactsAre == IInv => Facts
<1> SUFFICES ASSUME IInv PROVE Facts
  OBVIOUS
<1>1. Good(e, Token)
  BY DEF IInv, TypeOK, EngineInv, Good
<1>2. Sound(e, Token)
  BY <1>1, SoundIs DEF Good
<1>3. e.rs = Prefix(hist, e.past)
      /\ e.past = CASE pc = "feed" -> fed [] pc = "step" -> Len(hist) - 1 [] OTHER -> Len(hist)
  BY DEF IInv, EngineInv, EngineHolds
<1> QED BY <1>1, <1>2, <1>3 DEF IInv, TypeOK, Facts, PolOK

LEMMA BeginKeeps ==
    ASSUME IInv, NEW p \in Prompts, Begin(p)
    PROVE  IInv'
<1>1. Facts
  BY FactsAre
<1>2. p \in Seq(Token) /\ Len(p) \in Nat /\ Len(p) > 0
  BY Texts
<1>3. /\ pc = "idle" /\ pc' = "feed" /\ fed' = Len(hist') - Len(p) /\ base' = Len(hist') /\ Len(hist') < Ctx
      /\ tok' = tok /\ tok_in' = tok_in /\ evald' = evald /\ tok_next' = tok_next /\ n' = n /\ think' = think
      /\ cut' = cut /\ shown' = shown /\ pol' = pol
  BY DEF Begin
<1>4. ~tok_in /\ ~cut /\ shown = << >>
  BY <1>3 DEF IInv, Looping
<1>5. e.past = Len(hist) /\ e.rs = hist
  <2>1. e.past = Len(hist)
    BY <1>1, <1>3 DEF Facts
  <2> QED BY <1>1, <2>1, PrefixAll DEF Facts
<1>6. /\ hist' \in Seq(Token) /\ Good(e', Token) /\ fed' \in Nat /\ fed' < Len(hist') /\ Len(hist') \in Nat
      /\ e'.past = fed' /\ e'.rs = Prefix(hist', fed')
  <2>1. CASE hist' = hist \o p /\ e' = e
    <3>1. hist \o p \in Seq(Token) /\ Len(hist \o p) = Len(hist) + Len(p) /\ Prefix(hist \o p, Len(hist)) = Prefix(hist, Len(hist))
      BY <1>1, <1>2, PrefixOfCat DEF Facts
    <3>2. fed' = Len(hist) /\ fed' < Len(hist')
      BY <1>1, <1>2, <1>3, <2>1, <3>1 DEF Facts
    <3>3. Prefix(hist, Len(hist)) = hist
      BY <1>1, PrefixAll DEF Facts
    <3> QED BY <1>1, <1>2, <1>5, <2>1, <3>1, <3>2, <3>3 DEF Facts
  <2>2. CASE hist' = p /\ e' = ResetEngine(e)
    <3>1. Good(e', Token) /\ e'.past = 0 /\ e'.rs = << >>
      BY <1>1, <2>2, ResetIs DEF Facts, Good
    <3>2. Prefix(p, 0) = << >>
      BY <1>2 DEF Prefix
    <3>3. fed' = 0
      BY <1>2, <1>3, <2>2
    <3> QED BY <1>2, <1>3, <2>2, <3>1, <3>2, <3>3
  <2> QED BY <2>1, <2>2 DEF Begin
<1>7. EngineHolds'
  BY <1>3, <1>6 DEF EngineHolds
<1>8. EngineInv' /\ IsEngine(e, Token)'
  BY <1>6, <1>7, EngineKept
<1>9. TypeOK'
  BY <1>1, <1>3, <1>6, <1>8, Sized DEF Facts, TypeOK, PolOK
<1>10. Feeding'
  BY <1>3, <1>4, <1>6 DEF Feeding
<1>11. Drawn' /\ Looping'
  BY <1>3 DEF Drawn, Looping, Loop, ShownInOrder
<1> QED BY <1>8, <1>9, <1>10, <1>11 DEF IInv

LEMMA FeedKeeps ==
    ASSUME IInv, Feed
    PROVE  IInv'
<1> DEFINE take == Min({NBatch, Len(hist) - fed})
           toks == SubSeq(hist, fed + 1, fed + take)
<1>1. Facts
  BY FactsAre
<1>2. /\ pc = "feed" /\ fed < Len(hist) /\ e' \in Evals(e, toks) /\ fed' = fed + take
      /\ hist' = hist /\ pc' = pc /\ tok' = tok /\ tok_in' = tok_in /\ evald' = evald /\ tok_next' = tok_next
      /\ n' = n /\ think' = think /\ cut' = cut /\ shown' = shown /\ base' = base /\ pol' = pol
  BY DEF Feed
<1>3. fed \in Nat /\ Len(hist) \in Nat /\ NBatch \in Nat \ {0} /\ hist \in Seq(Token) /\ Ctx \in Nat /\ Len(hist) <= Ctx
  BY <1>1, Sized DEF Facts
<1>4. take \in Nat /\ take >= 1 /\ fed + take <= Len(hist)
  <2>1. take = IF NBatch <= Len(hist) - fed THEN NBatch ELSE Len(hist) - fed
    BY <1>3, MinPair
  <2> HIDE DEF take
  <2> QED BY <1>2, <1>3, <2>1
<1> HIDE DEF take
<1>5. toks \in Seq(Token) /\ Len(toks) = take
  BY <1>3, <1>4
<1>6. Prefix(hist, fed) \o toks = Prefix(hist, fed + take)
  BY <1>3, <1>4, SubNext
<1> HIDE DEF toks
<1>7. e.past = fed /\ Good(e, Token)
  BY <1>1, <1>2 DEF Facts
<1>8. Evaluated(e, toks, e', Token)
  <2>1. Len(toks) >= 1 /\ e.past + Len(toks) <= Ctx
    BY <1>3, <1>4, <1>5, <1>7
  <2> QED BY <1>2, <1>5, <1>7, <2>1, EvalsIs
<1>9. /\ Good(e', Token) /\ e'.past = fed' /\ e'.rs = Prefix(hist, fed')
      /\ Len(e'.logits) >= 1 /\ Last(e'.logits) = e'.rs
  <2>1. /\ Good(e', Token) /\ e'.past = e.past + Len(toks) /\ e'.rs = e.rs \o toks
        /\ Len(toks) > 0 => Len(e'.logits) >= 1 /\ Last(e'.logits) = e'.rs
    BY <1>8 DEF Evaluated
  <2>2. e.rs = Prefix(hist, fed)
    BY <1>1, <1>7 DEF Facts
  <2>3. Len(toks) > 0
    BY <1>4, <1>5
  <2> QED BY <1>2, <1>5, <1>6, <1>7, <2>1, <2>2, <2>3
<1>10. EngineHolds'
  BY <1>2, <1>9 DEF EngineHolds
<1>11. EngineInv' /\ IsEngine(e, Token)'
  BY <1>9, <1>10, EngineKept
<1>12. fed' \in Nat /\ fed' <= Len(hist)
  BY <1>2, <1>3, <1>4
<1>13. TypeOK'
  BY <1>1, <1>2, <1>11, <1>12 DEF Facts, TypeOK, PolOK
<1>14. Feeding'
  <2>1. base = Len(hist) /\ ~cut /\ ~tok_in /\ shown = << >>
    BY <1>2 DEF IInv, Feeding
  <2>2. hist # << >>
    BY <1>2, <1>3
  <2> QED BY <1>2, <1>9, <1>12, <2>1, <2>2 DEF Feeding
<1>15. Drawn' /\ Looping'
  BY <1>2 DEF Drawn, Looping, Loop, ShownInOrder
<1> QED BY <1>11, <1>13, <1>14, <1>15 DEF IInv

LEMMA ParkPrefillKeeps ==
    ASSUME IInv, ParkPrefill
    PROVE  IInv'
<1>1. Facts
  BY FactsAre
<1>2. /\ pc = "feed" /\ fed < Len(hist) /\ e' = Restored(e)
      /\ hist' = hist /\ pc' = pc /\ fed' = fed /\ tok' = tok /\ tok_in' = tok_in /\ evald' = evald
      /\ tok_next' = tok_next
      /\ n' = n /\ think' = think /\ cut' = cut /\ shown' = shown /\ base' = base /\ pol' = pol
  BY DEF ParkPrefill
<1>3. Good(e', Token) /\ e'.past = e.past /\ e'.rs = e.rs
  BY <1>1, <1>2, RestoredIs DEF Facts
<1>4. EngineHolds'
  BY <1>1, <1>2, <1>3 DEF EngineHolds, Facts
<1>5. EngineInv' /\ IsEngine(e, Token)'
  BY <1>3, <1>4, EngineKept
<1>6. TypeOK'
  BY <1>1, <1>2, <1>5 DEF Facts, TypeOK, PolOK
<1>7. Feeding'
  <2>1. fed # Len(hist)
    BY <1>1, <1>2 DEF Facts
  <2> QED BY <1>2, <2>1 DEF IInv, Feeding
<1>8. Drawn' /\ Looping'
  BY <1>2 DEF Drawn, Looping, Loop, ShownInOrder
<1> QED BY <1>5, <1>6, <1>7, <1>8 DEF IInv

LEMMA FirstPickKeeps ==
    ASSUME IInv, NEW thinking \in BOOLEAN, FirstPick(thinking)
    PROVE  IInv'
<1>1. Facts
  BY FactsAre
<1>2. /\ pc = "feed" /\ fed = Len(hist) /\ tok' \in Trunk(Last(e.logits)) /\ e' = MtpStep(e, <<tok'>>)
      /\ pc' = "top" /\ n' = 0 /\ think' = thinking
      /\ hist' = hist /\ fed' = fed /\ tok_in' = tok_in /\ evald' = evald /\ tok_next' = tok_next
      /\ cut' = cut /\ shown' = shown /\ base' = base
  BY DEF FirstPick
<1>3. PolOK'
  <2>1. pol' = NewSequence(pol) \/ pol' = pol
    BY DEF FirstPick
  <2>2. pol \in [on : BOOLEAN, bad : Nat, kmax : 0..MaxDrafts]
    BY <1>1 DEF Facts, PolOK
  <2>3. [pol EXCEPT !.on = FALSE, !.bad = 0] \in [on : BOOLEAN, bad : Nat, kmax : 0..MaxDrafts]
    BY <2>2
  <2> QED BY <2>1, <2>2, <2>3 DEF PolOK, NewSequence
<1>4. /\ base = Len(hist) /\ ~cut /\ ~tok_in /\ shown = << >> /\ hist # << >> /\ Last(e.logits) = e.rs
  BY <1>2 DEF IInv, Feeding
<1>5. /\ hist \in Seq(Token) /\ Len(hist) \in Nat /\ Len(hist) > 0 /\ e.past = Len(hist) /\ e.rs = hist
      /\ Good(e, Token)
  <2>1. e.past = Len(hist) /\ hist \in Seq(Token) /\ Good(e, Token) /\ e.rs = Prefix(hist, e.past)
    BY <1>1, <1>2 DEF Facts
  <2>2. Prefix(hist, Len(hist)) = hist
    BY <2>1, PrefixAll
  <2>3. Len(hist) \in Nat /\ Len(hist) > 0
    BY <1>4, <2>1
  <2> QED BY <2>1, <2>2, <2>3
<1>6. /\ Good(e', Token) /\ Closed(e', tok') /\ Same(e, e') /\ (e'.draft => e'.last = e'.past - 1)
  BY <1>2, <1>5, MtpStepOne
<1>7. e'.past = Len(hist) /\ e'.rs = hist
  BY <1>5, <1>6 DEF Same
<1>8. EngineHolds'
  BY <1>2, <1>5, <1>7, PrefixAll DEF EngineHolds
<1>9. EngineInv' /\ IsEngine(e, Token)'
  BY <1>6, <1>8, EngineKept
<1>10. tok' \in Token /\ tok' \in Trunk(hist)
  BY <1>2, <1>4, <1>5 DEF Trunk
<1>11. TypeOK'
  BY <1>1, <1>2, <1>3, <1>9, <1>10 DEF Facts, TypeOK, PolOK
<1>12. Feeding'
  BY <1>2 DEF Feeding
<1>13. Drawn'
  <2>1. Following' = tok'
    BY <1>2, <1>4 DEF Following
  <2> QED BY <1>5, <1>6, <1>7, <1>10, <2>1 DEF Drawn
<1>14. Looping'
  <2>1. ShownInOrder'
    <3>1. SubSeq(hist, Len(hist) + 1, Len(hist)) = << >> /\ << >> \o << >> = << >>
      BY <1>5
    <3> QED BY <1>2, <1>4, <3>1 DEF ShownInOrder
  <2> QED BY <1>2, <1>4, <1>5, <2>1 DEF Looping
<1> QED BY <1>9, <1>11, <1>12, <1>13, <1>14 DEF IInv

\* The turn ends at what the engine has.
LEMMA FinishKeeps ==
    ASSUME IInv, NEW h \in Seq(Token), e.past <= Len(h), Prefix(h, e.past) = e.rs, Finish(h)
    PROVE  IInv'
<1>1. Facts
  BY FactsAre
<1>2. /\ hist' = e.rs /\ e' = e /\ pc' = "idle" /\ fed' = 0 /\ base' = 0 /\ tok' = Eog /\ tok_in' = FALSE
      /\ evald' = << >> /\ tok_next' = Eog /\ n' = 0 /\ think' = FALSE /\ cut' = FALSE /\ shown' = << >>
      /\ pol' = pol
  BY DEF Finish, Return
<1>3. Good(e, Token) /\ e.rs \in Seq(Token) /\ Len(e.rs) = e.past /\ e.past <= Ctx
  BY <1>1 DEF Facts, Sound
<1>4. EngineHolds'
  BY <1>2, <1>3, PrefixAll DEF EngineHolds
<1>5. EngineInv' /\ IsEngine(e, Token)'
  BY <1>2, <1>3, <1>4, EngineKept
<1>6. TypeOK'
  <2>1. << >> \in Seq(Token) /\ Eog \in Token
    BY Sizes
  <2> QED BY <1>1, <1>2, <1>3, <1>5, <2>1 DEF Facts, TypeOK, PolOK
<1>7. Feeding' /\ Drawn' /\ Looping'
  BY <1>2 DEF Feeding, Drawn, Looping, Loop, ShownInOrder
<1> QED BY <1>5, <1>6, <1>7 DEF IInv

LEMMA PushedIs ==
    ASSUME IInv, pc = "top"
    PROVE  /\ e.past = Len(hist) /\ e.rs = hist /\ Len(hist) > 0 /\ hist \in Seq(Token) /\ Len(hist) \in Nat
           /\ Pushed \in Seq(Token) /\ Len(Pushed) \in Nat
           /\ Len(hist) <= Len(Pushed) /\ Prefix(Pushed, Len(hist)) = hist
<1>1. Facts
  BY FactsAre
<1>2. e.past = Len(hist) /\ hist \in Seq(Token) /\ e.rs = Prefix(hist, e.past) /\ tok \in Token /\ Len(hist) \in Nat
  BY <1>1 DEF Facts
<1>3. Prefix(hist, Len(hist)) = hist
  BY <1>2, PrefixAll
<1>4. Len(hist) > 0
  BY <1>2 DEF IInv, Drawn, Loop
<1>5. /\ Append(hist, tok) \in Seq(Token) /\ Len(Append(hist, tok)) = Len(hist) + 1
      /\ Prefix(Append(hist, tok), Len(hist)) = hist
  <2>1. /\ <<tok>> \in Seq(Token) /\ Append(hist, tok) = hist \o <<tok>> /\ Len(hist) \in 0..Len(hist)
        /\ Append(hist, tok) \in Seq(Token) /\ Len(Append(hist, tok)) = Len(hist) + 1
    BY <1>2
  <2>2. Prefix(hist \o <<tok>>, Len(hist)) = Prefix(hist, Len(hist))
    BY <1>2, <2>1, PrefixOfCat
  <2> QED BY <1>3, <2>1, <2>2
<1> QED BY <1>2, <1>3, <1>4, <1>5 DEF Pushed

LEMMA BudgetOverKeeps == IInv /\ BudgetOver => IInv'
<1> SUFFICES ASSUME IInv, BudgetOver PROVE IInv'
  OBVIOUS
<1>1. pc = "top" /\ Finish(hist)
  BY DEF BudgetOver
<1>2. hist \in Seq(Token) /\ e.past <= Len(hist) /\ Prefix(hist, e.past) = e.rs
  <2>1. e.past = Len(hist) /\ e.rs = hist /\ hist \in Seq(Token) /\ Len(hist) \in Nat
    BY <1>1, PushedIs
  <2> QED BY <2>1, PrefixAll
<1> QED BY <1>1, <1>2, FinishKeeps

LEMMA StopKeeps == IInv /\ Stop => IInv'
<1> SUFFICES ASSUME IInv, Stop PROVE IInv'
  OBVIOUS
<1>1. pc = "top" /\ Finish(Pushed)
  BY DEF Stop
<1>2. Pushed \in Seq(Token) /\ e.past <= Len(Pushed) /\ Prefix(Pushed, e.past) = e.rs
  BY <1>1, PushedIs
<1> QED BY <1>1, <1>2, FinishKeeps

LEMMA ClientGoneKeeps == IInv /\ ClientGone => IInv'
<1> SUFFICES ASSUME IInv, ClientGone PROVE IInv'
  OBVIOUS
<1>1. pc = "step" /\ Finish(hist)
  BY DEF ClientGone
<1>2. hist \in Seq(Token) /\ e.past <= Len(hist) /\ Prefix(hist, e.past) = e.rs
  <2>1. hist \in Seq(Token) /\ Len(hist) \in Nat /\ e.past = Len(hist) - 1
    BY <1>1, AtStep DEF AtPoint
  <2>2. Facts
    BY FactsAre
  <2> QED BY <2>1, <2>2 DEF Facts
<1> QED BY <1>1, <1>2, FinishKeeps

LEMMA ParkKeeps ==
    ASSUME IInv, Park
    PROVE  IInv'
<1>1. Facts /\ pc = "step"
  BY FactsAre DEF Park
<1>2. AtPoint
  BY <1>1, AtStep
<1>3. /\ e' = MtpStep(Restored(e), <<tok>>)
      /\ hist' = hist /\ pc' = pc /\ fed' = fed /\ tok' = tok /\ tok_in' = tok_in /\ evald' = evald
      /\ tok_next' = tok_next
      /\ n' = n /\ think' = think /\ cut' = cut /\ shown' = shown /\ base' = base /\ pol' = pol
  BY DEF Park
<1> DEFINE r == Restored(e)
<1>4. Good(r, Token) /\ r.past = e.past /\ r.rs = e.rs
  BY <1>2, RestoredIs DEF AtPoint
<1>5. e' = MtpStep(r, <<tok>>)
  BY <1>3
<1> HIDE DEF r
<1>6. Good(e', Token) /\ Closed(e', tok) /\ Same(r, e') /\ (e'.draft => e'.last = e'.past - 1)
  <2>1. r.past > 0
    BY <1>2, <1>4 DEF AtPoint
  <2> QED BY <1>4, <1>5, <2>1, MtpStepOne
<1>7. e'.past = e.past /\ e'.rs = e.rs
  BY <1>4, <1>6 DEF Same
<1>8. EngineHolds'
  BY <1>1, <1>3, <1>7 DEF EngineHolds, Facts
<1>9. EngineInv' /\ IsEngine(e, Token)'
  BY <1>6, <1>8, EngineKept
<1>10. TypeOK'
  BY <1>1, <1>3, <1>9 DEF Facts, TypeOK, PolOK
<1>11. Feeding'
  BY <1>1, <1>3 DEF Feeding
<1>12. ~tok_in
  BY <1>1 DEF IInv, Looping
<1>13. Drawn'
  <2>1. Following' = tok /\ Following = tok
    BY <1>3, <1>12 DEF Following
  <2>2. tok \in Trunk(e.rs) /\ e.past > 0
    BY <1>1, <2>1 DEF IInv, Drawn, Loop
  <2> QED BY <1>6, <1>7, <2>1, <2>2 DEF Drawn
<1>14. Looping'
  BY <1>1, <1>3 DEF IInv, Looping, Loop, ShownInOrder
<1> QED BY <1>9, <1>10, <1>11, <1>13, <1>14 DEF IInv

LEMMA FailKeeps ==
    ASSUME IInv, Fail
    PROVE  IInv'
<1>1. Facts
  BY FactsAre
<1> DEFINE f == RowsKept(e.kv, e.past)
           r == [e EXCEPT !.kv = f]
<1>2. /\ e' = ResetEngine(r)
      /\ hist' = << >> /\ pc' = "idle" /\ fed' = 0 /\ base' = 0 /\ tok' = Eog /\ tok_in' = FALSE
      /\ evald' = << >> /\ tok_next' = Eog /\ n' = 0 /\ think' = FALSE /\ cut' = FALSE /\ shown' = << >>
      /\ pol' = pol
  BY DEF Fail, Return
<1>3. IsEngine(r, Token)
  <2>1. f = [c \in Cells |-> f[c]]
    BY DEF RowsKept
  <2>2. IsEngine(e, Token)
    BY <1>1 DEF Facts, Good
  <2> HIDE DEF f
  <2>3. r.kv = f /\ r.head = e.head /\ r.pool = e.pool
    BY <2>2 DEF IsEngine
  <2>4. r \in [past : 0..Ctx, rs : Seq(Token), kv : {r.kv}, pool : {r.pool}, bias : {r.bias},
              dirty : BOOLEAN, rows : Seq(Seq(Token)), have : BOOLEAN, valid : BOOLEAN, head : {r.head},
              draft : BOOLEAN, last : Int, snaps : {r.snaps}, depth : Nat, logits : {r.logits},
              holes : SUBSET Nat]
    BY <2>2, <2>3 DEF IsEngine
  <2> HIDE DEF r
  <2> QED BY <2>1, <2>2, <2>3, <2>4 DEF IsEngine
<1> HIDE DEF r
<1>4. Good(e', Token) /\ e'.past = 0 /\ e'.rs = << >>
  BY <1>2, <1>3, ResetIs
<1>5. EngineHolds'
  BY <1>2, <1>4 DEF EngineHolds, Prefix
<1>6. EngineInv' /\ IsEngine(e, Token)'
  BY <1>4, <1>5, EngineKept
<1>7. TypeOK'
  <2>1. << >> \in Seq(Token) /\ Len(<< >>) = 0 /\ Eog \in Token /\ Ctx \in Nat
    BY Sizes
  <2>2. hist' \in Seq(Token) /\ Len(hist') <= Ctx
    BY <1>2, <2>1
  <2>3. evald' \in Seq(Token) /\ shown' \in Seq(Token) /\ tok' \in Token /\ tok_next' \in Token
    BY <1>2, <2>1
  <2>4. tok_in' \in BOOLEAN /\ think' \in BOOLEAN /\ cut' \in BOOLEAN /\ PolOK'
    BY <1>1, <1>2 DEF Facts, PolOK
  <2>5. fed' \in Nat /\ base' \in Nat /\ n' \in Nat /\ pc' \in {"idle", "feed", "top", "step"}
    BY <1>2
  <2> QED BY <1>6, <2>2, <2>3, <2>4, <2>5 DEF TypeOK, PolOK
<1>8. Feeding' /\ Drawn' /\ Looping'
  BY <1>2 DEF Feeding, Drawn, Looping, Loop, ShownInOrder
<1> QED BY <1>6, <1>7, <1>8 DEF IInv

LEMMA CutThinkingKeeps ==
    ASSUME IInv, CutThinking
    PROVE  IInv'
<1>1. Facts
  BY FactsAre
<1> DEFINE h == Pushed \o CutPhrase
           toks == SubSeq(h, e.past + 1, Len(h))
<1>2. /\ pc = "top" /\ hist' = h /\ Len(h) + 1 <= Ctx
      /\ tok_in' = FALSE /\ think' = FALSE /\ cut' = TRUE /\ n' = n + 2
      /\ shown' = Append(shown, tok)
      /\ pc' = pc /\ fed' = fed /\ evald' = evald /\ tok_next' = tok_next /\ base' = base /\ pol' = pol
  BY DEF CutThinking
<1>3. PICK s \in Evals(e, toks) : tok' \in Trunk(Last(s.logits)) /\ e' = MtpStep(s, <<tok'>>)
  BY <1>2 DEF CutThinking
<1>4. /\ e.past = Len(hist) /\ e.rs = hist /\ Len(hist) > 0 /\ hist \in Seq(Token) /\ Len(hist) \in Nat
      /\ Pushed \in Seq(Token) /\ Len(Pushed) \in Nat
      /\ Len(hist) <= Len(Pushed) /\ Prefix(Pushed, Len(hist)) = hist
  BY <1>2, PushedIs
<1>5. CutPhrase \in Seq(Token) /\ Len(CutPhrase) \in Nat /\ Len(CutPhrase) > 0
  BY Texts
<1>6. /\ h \in Seq(Token) /\ Len(h) = Len(Pushed) + Len(CutPhrase) /\ Prefix(h, Len(hist)) = hist
  <2>1. Len(hist) \in 0..Len(Pushed)
    BY <1>4
  <2>2. Prefix(Pushed \o CutPhrase, Len(hist)) = Prefix(Pushed, Len(hist))
    BY <1>4, <1>5, <2>1, PrefixOfCat
  <2> QED BY <1>4, <1>5, <2>2
<1> HIDE DEF h
<1>7. toks \in Seq(Token) /\ Len(toks) = Len(h) - Len(hist) /\ Len(toks) >= 1 /\ e.rs \o toks = h
  <2> DEFINE k == Len(h) - Len(hist)
  <2>1. k \in Nat /\ k >= 1 /\ Len(hist) + k = Len(h) /\ Len(hist) + k <= Len(h)
    BY <1>4, <1>5, <1>6
  <2>2. toks = SubSeq(h, Len(hist) + 1, Len(hist) + k)
    BY <1>4, <2>1
  <2> HIDE DEF k, toks
  <2>3. toks \in Seq(Token) /\ Len(toks) = k
    BY <1>4, <1>6, <2>1, <2>2
  <2>4. Prefix(h, Len(hist)) \o toks = Prefix(h, Len(hist) + k)
    BY <1>4, <1>6, <2>1, <2>2, SubNext
  <2>5. Prefix(h, Len(h)) = h
    BY <1>6, PrefixAll
  <2> QED BY <1>4, <1>6, <2>1, <2>3, <2>4, <2>5 DEF k
<1> HIDE DEF toks
<1>8. Len(h) \in Nat /\ Len(h) <= Ctx /\ e.past + Len(toks) <= Ctx /\ Len(h) > 0 /\ Len(hist) <= Len(h)
  BY <1>2, <1>4, <1>5, <1>6, <1>7, Sized
<1>9. Evaluated(e, toks, s, Token)
  <2>1. Good(e, Token)
    BY <1>1 DEF Facts
  <2> QED BY <1>3, <1>7, <1>8, <2>1, EvalsIs
<1>10. Good(s, Token) /\ s.past = Len(h) /\ s.rs = h /\ Last(s.logits) = h
  <2>1. /\ Good(s, Token) /\ s.past = e.past + Len(toks) /\ s.rs = e.rs \o toks
        /\ Len(toks) > 0 => Len(s.logits) >= 1 /\ Last(s.logits) = s.rs
    BY <1>9 DEF Evaluated
  <2>2. Len(toks) > 0 /\ e.past + Len(toks) = Len(h)
    BY <1>4, <1>7, <1>8
  <2> QED BY <1>7, <2>1, <2>2
<1>11. Good(e', Token) /\ Closed(e', tok') /\ Same(s, e') /\ (e'.draft => e'.last = e'.past - 1)
  BY <1>3, <1>8, <1>10, MtpStepOne
<1>12. e'.past = Len(h) /\ e'.rs = h
  BY <1>10, <1>11 DEF Same
<1>13. tok' \in Token /\ tok' \in Trunk(h)
  BY <1>3, <1>10 DEF Trunk
<1>14. EngineHolds'
  <2>1. Prefix(h, Len(h)) = h
    BY <1>6, PrefixAll
  <2> QED BY <1>2, <1>12, <2>1 DEF EngineHolds
<1>15. EngineInv' /\ IsEngine(e, Token)'
  BY <1>11, <1>14, EngineKept
<1>16. TypeOK'
  <2>1. n' \in Nat /\ shown' \in Seq(Token) /\ hist' \in Seq(Token) /\ Len(hist') <= Ctx
    BY <1>1, <1>2, <1>6, <1>8 DEF Facts
  <2> QED BY <1>1, <1>2, <1>13, <1>15, <2>1 DEF Facts, TypeOK, PolOK
<1>17. Feeding'
  BY <1>2 DEF Feeding
<1>18. Drawn'
  <2>1. Following' = tok'
    BY <1>2 DEF Following
  <2> QED BY <1>8, <1>11, <1>12, <1>13, <2>1 DEF Drawn
<1>19. Looping'
  <2>1. base <= Len(hist) /\ base \in Nat
    BY <1>1, <1>2 DEF IInv, Looping, Loop, Facts
  <2>2. base' <= Len(hist')
    BY <1>2, <1>4, <1>8, <2>1
  <2> QED BY <1>2, <2>2 DEF Looping, ShownInOrder
<1> QED BY <1>15, <1>16, <1>17, <1>18, <1>19 DEF IInv

LEMMA EmitKeeps ==
    ASSUME IInv, Emit
    PROVE  IInv'
<1>1. Facts
  BY FactsAre
<1>2. /\ pc = "top" /\ shown' = Append(shown, tok) /\ hist' = Pushed /\ Len(Pushed) + 1 <= Ctx
      /\ e' = e /\ fed' = fed /\ tok_next' = tok_next /\ cut' = cut /\ base' = base /\ pol' = pol
      /\ think' = (think /\ tok # EndThink)
  BY DEF Emit
<1>3. /\ e.past = Len(hist) /\ e.rs = hist /\ Len(hist) > 0 /\ hist \in Seq(Token) /\ Len(hist) \in Nat
      /\ Pushed \in Seq(Token) /\ Len(Pushed) \in Nat /\ Len(hist) <= Len(Pushed)
  BY <1>2, PushedIs
<1>4. /\ base <= Len(hist) /\ Following \in Trunk(e.rs) /\ Closed(e, Following) /\ (e.draft => e.last = e.past - 1)
      /\ ~cut => shown \o (IF tok_in THEN <<tok>> \o evald ELSE << >>) = SubSeq(hist, base + 1, Len(hist))
  BY <1>2 DEF IInv, Looping, Drawn, Loop, ShownInOrder
<1>5. Good(e, Token) /\ Good(e, Token)'
  BY <1>1, <1>2 DEF Facts
<1>6. /\ tok \in Token /\ tok_next \in Token /\ evald \in Seq(Token) /\ shown \in Seq(Token) /\ n \in Nat /\ base \in Nat
      /\ fed \in Nat /\ think \in BOOLEAN /\ cut \in BOOLEAN /\ tok_in \in BOOLEAN /\ PolOK
  BY <1>1 DEF Facts
<1>7. think' \in BOOLEAN /\ shown' \in Seq(Token) /\ hist' \in Seq(Token) /\ Len(hist') <= Ctx /\ PolOK'
  <2>1. Len(hist') <= Ctx
    BY <1>2, <1>3, Sized
  <2>2. shown' \in Seq(Token)
    BY <1>2, <1>6
  <2> QED BY <1>2, <1>3, <1>6, <2>1, <2>2 DEF PolOK
<1>8. base' <= Len(hist')
  BY <1>2, <1>3, <1>4, <1>6
<1>9. EngineHolds' => EngineInv' /\ IsEngine(e, Token)'
  BY <1>5, EngineKept
<1>10. Prefix(hist, Len(hist)) = hist
  BY <1>3, PrefixAll
<1>11. CASE tok_in /\ evald # << >> /\ n' = n + 1 /\ tok' = Head(evald) /\ evald' = Tail(evald)
            /\ pc' = pc /\ tok_in' = tok_in
  <2>1. hist' = hist
    BY <1>2, <1>11 DEF Pushed
  <2>2. tok' \in Token /\ evald' \in Seq(Token) /\ <<tok'>> \o evald' = evald
    BY <1>6, <1>11
  <2>3. EngineHolds'
    BY <1>2, <1>3, <1>10, <1>11, <2>1 DEF EngineHolds
  <2>4. TypeOK'
    BY <1>2, <1>6, <1>7, <1>9, <1>11, <2>2, <2>3 DEF TypeOK, PolOK
  <2>5. Feeding' /\ Drawn'
    <3>1. Following' = Following
      BY <1>2, <1>11 DEF Following
    <3> QED BY <1>2, <1>3, <1>4, <1>11, <3>1 DEF Feeding, Drawn
  <2>6. ShownInOrder'
    <3>1. ~cut => Append(shown, tok) \o (<<tok'>> \o evald') = SubSeq(hist, base + 1, Len(hist))
      <4>1. ~cut => shown \o (<<tok>> \o evald) = SubSeq(hist, base + 1, Len(hist))
        BY <1>4, <1>11
      <4>2. Append(shown, tok) \o evald = shown \o (<<tok>> \o evald)
        BY <1>6
      <4> QED BY <2>2, <4>1, <4>2
    <3> QED BY <1>2, <1>11, <2>1, <3>1 DEF ShownInOrder
  <2>7. Looping'
    BY <1>2, <1>8, <1>11, <2>6 DEF Looping
  <2> QED BY <1>9, <2>3, <2>4, <2>5, <2>7 DEF IInv
<1>12. CASE tok_in /\ evald = << >> /\ n' = n + 1 /\ tok' = tok_next /\ tok_in' = FALSE
            /\ pc' = pc /\ evald' = evald
  <2>1. hist' = hist
    BY <1>2, <1>12 DEF Pushed
  <2>3. EngineHolds'
    BY <1>2, <1>3, <1>10, <1>12, <2>1 DEF EngineHolds
  <2>4. TypeOK'
    <3>1. tok' \in Token /\ evald' \in Seq(Token) /\ n' \in Nat /\ pc' = "top"
      BY <1>2, <1>6, <1>12
    <3>2. tok_in' \in BOOLEAN
      BY <1>12
    <3> QED BY <1>2, <1>6, <1>7, <1>9, <2>3, <3>1, <3>2 DEF TypeOK, PolOK
  <2>5. Feeding' /\ Drawn'
    <3>1. Following' = Following
      BY <1>2, <1>12 DEF Following
    <3> QED BY <1>2, <1>3, <1>4, <1>12, <3>1 DEF Feeding, Drawn
  <2>6. ShownInOrder'
    <3>1. ~cut => Append(shown, tok) \o << >> = SubSeq(hist, base + 1, Len(hist))
      <4>1. ~cut => shown \o (<<tok>> \o << >>) = SubSeq(hist, base + 1, Len(hist))
        BY <1>4, <1>12
      <4>2. Append(shown, tok) \o << >> = shown \o (<<tok>> \o << >>)
        BY <1>6
      <4> QED BY <4>1, <4>2
    <3> QED BY <1>2, <1>12, <2>1, <3>1 DEF ShownInOrder
  <2>7. Looping'
    BY <1>2, <1>8, <1>12, <2>6 DEF Looping
  <2> QED BY <1>9, <2>3, <2>4, <2>5, <2>7 DEF IInv
<1>13. CASE ~tok_in /\ pc' = "step" /\ tok' = tok /\ tok_in' = tok_in /\ evald' = evald /\ n' = n
  <2>1. hist' = Append(hist, tok)
    BY <1>2, <1>13 DEF Pushed
  <2>2. /\ Len(hist') = Len(hist) + 1 /\ hist' = hist \o <<tok>> /\ Last(hist') = tok /\ hist' # << >>
        /\ Prefix(hist', Len(hist)) = hist
    <3>1. /\ Len(Append(hist, tok)) = Len(hist) + 1 /\ Append(hist, tok) = hist \o <<tok>>
          /\ Append(hist, tok)[Len(hist) + 1] = tok /\ <<tok>> \in Seq(Token)
      BY <1>3, <1>6
    <3>2. Prefix(hist \o <<tok>>, Len(hist)) = Prefix(hist, Len(hist))
      <4>1. Len(hist) \in 0..Len(hist)
        BY <1>3
      <4> QED BY <1>3, <3>1, <4>1, PrefixOfCat
    <3>3. Append(hist, tok) # << >>
      BY <1>3, <3>1
    <3> QED BY <1>10, <2>1, <3>1, <3>2, <3>3 DEF Last
  <2>3. EngineHolds'
    <3>1. Len(hist') - 1 = Len(hist)
      BY <1>3, <2>2
    <3> QED BY <1>2, <1>3, <1>13, <2>2, <3>1 DEF EngineHolds
  <2>4. TypeOK'
    BY <1>2, <1>6, <1>7, <1>9, <1>13, <2>3 DEF TypeOK, PolOK
  <2>5. Feeding' /\ Drawn'
    <3>1. Following' = Following
      BY <1>2, <1>13 DEF Following
    <3> QED BY <1>2, <1>3, <1>4, <1>13, <3>1 DEF Feeding, Drawn
  <2>6. ShownInOrder'
    <3>1. ~cut => Append(shown, tok) \o << >> = SubSeq(hist', base + 1, Len(hist'))
      <4> SUFFICES ASSUME ~cut PROVE Append(shown, tok) \o << >> = SubSeq(hist', base + 1, Len(hist'))
        OBVIOUS
      <4>1. shown \o << >> = SubSeq(hist, base + 1, Len(hist))
        BY <1>4, <1>13
      <4>2. Append(shown, tok) \o << >> = (shown \o << >>) \o <<tok>>
        BY <1>6
      <4>3. SubSeq(hist \o <<tok>>, base + 1, Len(hist \o <<tok>>)) = SubSeq(hist, base + 1, Len(hist)) \o <<tok>>
        <5>1. <<tok>> \in Seq(Token)
          BY <1>6
        <5>2. hist \in Seq(Token) /\ base \in Nat /\ base <= Len(hist)
          BY <1>3, <1>4, <1>6
        <5> QED BY <5>1, <5>2, SubCat
      <4> QED BY <2>2, <4>1, <4>2, <4>3
    <3> QED BY <1>2, <1>13, <3>1 DEF ShownInOrder
  <2>7. Looping'
    BY <1>2, <1>8, <1>13, <2>2, <2>6 DEF Looping
  <2> QED BY <1>9, <2>3, <2>4, <2>5, <2>7 DEF IInv
<1> QED BY <1>11, <1>12, <1>13 DEF Emit

LEMMA Starts == Init => IInv
<1> SUFFICES ASSUME Init PROVE IInv
  OBVIOUS
<1>1. /\ e = Fresh /\ hist = << >> /\ pc = "idle" /\ fed = 0 /\ tok = Eog /\ tok_in = FALSE
      /\ evald = << >> /\ tok_next = Eog /\ n = 0 /\ think = FALSE /\ cut = FALSE
      /\ shown = << >> /\ base = 0
  BY DEF Init
<1>2. << >> \in Seq(Token) /\ Len(<< >>) = 0 /\ Eog \in Token /\ Ctx \in Nat /\ << >> \in Seq(Seq(Token))
  BY Sizes
<1>3. /\ Fresh.past = 0 /\ Fresh.rs = << >> /\ Fresh.dirty /\ Fresh.head = [c \in Cells |-> NoRow]
      /\ Fresh.kv = [c \in Cells |-> NoRow] /\ Fresh.pool = [b \in Blocks |-> << >>]
  BY DEF Fresh
<1>4. IsEngine(Fresh, Token)
  <2>1. Fresh \in [past : 0..Ctx, rs : Seq(Token), kv : {Fresh.kv}, pool : {Fresh.pool}, bias : {Fresh.bias},
              dirty : BOOLEAN, rows : Seq(Seq(Token)), have : BOOLEAN, valid : BOOLEAN, head : {Fresh.head},
              draft : BOOLEAN, last : Int, snaps : {Fresh.snaps}, depth : Nat, logits : {Fresh.logits},
              holes : SUBSET Nat]
    BY <1>2 DEF Fresh
  <2> QED BY <1>3, <2>1 DEF IsEngine
<1>5. Good(Fresh, Token)
  BY <1>2, <1>3, <1>4 DEF Good, Rows, Steady, Headed, RowsPaired
<1>6. EngineHolds
  BY <1>1, <1>2, <1>3 DEF EngineHolds, Prefix
<1>7. PolOK
  <2>1. PICK k \in LookupDrafts : pol = [on |-> FALSE, bad |-> 0, kmax |-> k]
    BY DEF Init
  <2>2. k \in 0..MaxDrafts
    BY Sizes
  <2> QED BY <2>1, <2>2 DEF PolOK
<1>8. TypeOK
  <2>1. IsEngine(e, Token) /\ hist \in Seq(Token) /\ Len(hist) <= Ctx
    BY <1>1, <1>2, <1>4
  <2>2. evald \in Seq(Token) /\ shown \in Seq(Token) /\ tok \in Token /\ tok_next \in Token
    BY <1>1, <1>2
  <2>3. tok_in \in BOOLEAN /\ think \in BOOLEAN /\ cut \in BOOLEAN
    BY <1>1
  <2>4. fed \in Nat /\ base \in Nat /\ n \in Nat /\ pc \in {"idle", "feed", "top", "step"}
    BY <1>1
  <2> QED BY <1>7, <2>1, <2>2, <2>3, <2>4 DEF TypeOK, PolOK
<1>9. EngineInv
  BY <1>1, <1>5, <1>6 DEF EngineInv, Good
<1>10. Feeding /\ Drawn /\ Looping
  BY <1>1 DEF Feeding, Drawn, Looping, Loop, ShownInOrder
<1> QED BY <1>8, <1>9, <1>10 DEF IInv

LEMMA Keeps == IInv /\ [Next]_vars => IInv'
<1> SUFFICES ASSUME IInv, [Next]_vars PROVE IInv'
  OBVIOUS
<1>1. ASSUME NEW p \in Prompts, Begin(p) PROVE IInv'
  BY <1>1, BeginKeeps
<1>2. CASE Feed
  BY <1>2, FeedKeeps
<1>3. CASE ParkPrefill
  BY <1>3, ParkPrefillKeeps
<1>4. ASSUME NEW thinking \in BOOLEAN, FirstPick(thinking) PROVE IInv'
  BY <1>4, FirstPickKeeps
<1>5. CASE BudgetOver \/ Stop \/ ClientGone
  BY <1>5, BudgetOverKeeps, StopKeeps, ClientGoneKeeps
<1>6. CASE CutThinking
  BY <1>6, CutThinkingKeeps
<1>7. CASE Emit
  BY <1>7, EmitKeeps
<1>8. CASE Park
  BY <1>8, ParkKeeps
<1>9. CASE Step
  BY <1>9, StepKeeps
<1>10. CASE Fail
  BY <1>10, FailKeeps
<1>11. CASE UNCHANGED vars
  BY <1>11 DEF vars, IInv, TypeOK, EngineInv, EngineHolds, Feeding, Drawn, Following, Looping, ShownInOrder
<1> QED BY <1>1, <1>2, <1>3, <1>4, <1>5, <1>6, <1>7, <1>8, <1>9, <1>10, <1>11 DEF Next

\* The inductive invariant.
THEOREM Inductive == Spec => []IInv
BY Starts, Keeps, PTL DEF Spec

\* EngineHolds: the recurrent state is that of the history, whatever was drafted, rejected and undone.
THEOREM StateIsHistory == Spec => []EngineHolds
<1>1. IInv => EngineHolds
  BY DEF IInv, EngineInv
<1> QED BY <1>1, Inductive, PTL

\* ShownInOrder: what the client was given and what is still to be given is the history's end.
THEOREM ShownIsHistory == Spec => []ShownInOrder
<1>1. IInv => ShownInOrder
  BY DEF IInv, Looping
<1> QED BY <1>1, Inductive, PTL

\* HeadRows: while the head may draft, its rows are those of the history and of what follows it.
THEOREM HeadIsHistory == Spec => []HeadRows
<1>1. IInv => HeadRows
  <2> SUFFICES ASSUME IInv, MtpReady(e)
               PROVE  LET seq == IF pc \in {"top", "step"} THEN Append(Prefix(hist, e.past), Following)
                                 ELSE Prefix(hist, e.past)
                      IN \A p \in 0..(Len(seq) - 2) :
                            p \in e.holes \/ e.head[p] = <<Prefix(seq, p + 1), seq[p + 2]>>
    BY DEF HeadRows
  <2> DEFINE m == e.past
             r == e.rs
  <2>1. Facts
    BY FactsAre
  <2>2. m \in Nat /\ r \in Seq(Token) /\ Len(r) = m /\ r = Prefix(hist, e.past)
    BY <2>1 DEF Facts, Sound
  <2>3. \A p \in 0..(m - 1 - 1) : p \in e.holes \/ e.head[p] = <<Prefix(r, p + 1), r[p + 2]>>
    BY <2>1 DEF Facts, Good, Headed, RowsPaired, MtpReady
  <2>4. CASE pc \in Loop
    <3> DEFINE y == Following
               seq == Append(r, y)
    <3>1. y \in Token /\ (m - 1 \in e.holes \/ e.head[m - 1] = <<r, y>>)
      BY <2>4 DEF IInv, Drawn, Closed, Trunk
    <3> HIDE DEF m, r, y
    <3>2. seq = r \o <<y>> /\ Len(seq) = m + 1 /\ seq[m + 1] = y /\ <<y>> \in Seq(Token)
          /\ \A i \in 1..m : seq[i] = r[i]
      BY <2>2, <3>1
    <3>3. \A k \in 0..m : Prefix(seq, k) = Prefix(r, k)
      <4> TAKE k \in 0..m
      <4> HIDE DEF seq
      <4>1. k \in 0..Len(r)
        BY <2>2
      <4>2. Prefix(r \o <<y>>, k) = Prefix(r, k)
        BY <2>2, <3>2, <4>1, PrefixOfCat
      <4> QED BY <3>2, <4>2
    <3>4. Prefix(r, m) = r
      BY <2>2, PrefixAll
    <3> HIDE DEF seq
    <3>5. ASSUME NEW p \in 0..(Len(seq) - 2)
          PROVE  p \in e.holes \/ e.head[p] = <<Prefix(seq, p + 1), seq[p + 2]>>
      <4>1. p + 1 \in 0..m /\ p \in Nat /\ p <= m - 1
        BY <2>2, <3>2
      <4>2. CASE p < m - 1
        <5>1. p \in 0..(m - 1 - 1) /\ p + 2 \in 1..m
          BY <2>2, <4>1, <4>2
        <5> QED BY <2>3, <3>2, <3>3, <4>1, <5>1
      <4>3. CASE p = m - 1
        <5>1. p + 1 = m /\ p + 2 = m + 1 /\ m \in 0..m
          BY <2>2, <4>3
        <5>2. Prefix(seq, p + 1) = r /\ seq[p + 2] = y
          BY <3>2, <3>3, <3>4, <5>1
        <5> QED BY <3>1, <4>3, <5>2
      <4> QED BY <2>2, <4>1, <4>2, <4>3
    <3> QED BY <2>2, <2>4, <3>5 DEF Loop, seq, r, y
  <2>5. CASE pc \notin Loop
    <3>1. Len(r) - 2 = m - 1 - 1
      BY <2>2
    <3> QED BY <2>2, <2>3, <2>5, <3>1 DEF Loop
  <2> QED BY <2>4, <2>5
<1> QED BY <1>1, Inductive, PTL

---------------------------------------------------------------------------
\* The refinement.  What a step adds is a continuation of the history.
LEMMA Continues ==
    ASSUME NEW h, NEW q \in Seq(Token), Len(q) <= MaxDrafts,
           \A i \in 1..Len(q) : q[i] \in Trunk(h \o Prefix(q, i - 1))
    PROVE  q \in Plain!Continuations(h)
<1>1. Len(q) \in 0..MaxDrafts /\ DOMAIN q = 1..Len(q) /\ q \in [1..Len(q) -> Token]
  BY Sized
<1>2. q \in UNION {[1..k -> Token] : k \in 0..MaxDrafts}
  BY <1>1
<1>3. \A i \in DOMAIN q : q[i] \in Trunk(h \o SubSeq(q, 1, i - 1))
  <2> TAKE i \in DOMAIN q
  <2>1. i \in 1..Len(q)
    BY <1>1
  <2> QED BY <2>1 DEF Prefix
<1> QED BY <1>2, <1>3 DEF Plain!Continuations

LEMMA ContinuesNone == ASSUME NEW h PROVE << >> \in Plain!Continuations(h)
<1> DEFINE q == << >>
<1>1. q \in Seq(Token) /\ Len(q) = 0
  OBVIOUS
<1>2. Len(q) <= MaxDrafts /\ \A i \in 1..Len(q) : q[i] \in Trunk(h \o Prefix(q, i - 1))
  BY <1>1, Sized
<1> HIDE DEF q
<1>3. q \in Plain!Continuations(h)
  BY <1>1, <1>2, Continues
<1> QED BY <1>3 DEF q

LEMMA ContinuesOne ==
    ASSUME NEW h \in Seq(Token), NEW t \in Token, t \in Trunk(h)
    PROVE  <<t>> \in Plain!Continuations(h)
<1> DEFINE q == <<t>>
<1>1. q \in Seq(Token) /\ Len(q) = 1 /\ q[1] = t /\ Prefix(q, 0) = << >> /\ h \o << >> = h
  BY DEF Prefix
<1> HIDE DEF q
<1>2. Len(q) <= MaxDrafts
  BY <1>1, Sized
<1>3. \A i \in 1..Len(q) : q[i] \in Trunk(h \o Prefix(q, i - 1))
  <2> TAKE i \in 1..Len(q)
  <2>1. i = 1 /\ i - 1 = 0
    BY <1>1
  <2> QED BY <1>1, <2>1
<1>4. q \in Plain!Continuations(h)
  BY <1>1, <1>2, <1>3, Continues
<1> QED BY <1>4 DEF q

LEMMA StepMaps == ASSUME IInv, Step PROVE Plain!Say
<1>1. PICK q, y : Drew(q, y)
  BY StepDraws
<1>2. pc = "step" /\ pc' = "top"
  BY DEF Step
<1>3. q \in Plain!Continuations(hist) /\ hist' = hist \o q
  BY <1>1, Continues DEF Drew
<1> QED BY <1>2, <1>3 DEF Plain!Say

LEMMA PushMaps ==
    ASSUME IInv, pc = "top"
    PROVE  \E s \in Plain!Continuations(hist) : Pushed = hist \o s
<1>1. hist \in Seq(Token) /\ e.rs = hist
  BY PushedIs
<1>2. CASE tok_in
  <2>1. Pushed = hist \o << >>
    BY <1>1, <1>2 DEF Pushed
  <2> QED BY <2>1, ContinuesNone
<1>3. CASE ~tok_in
  <2>1. tok \in Trunk(hist)
    BY <1>1, <1>3 DEF IInv, Drawn, Following, Loop
  <2>2. tok \in Token
    BY DEF IInv, TypeOK
  <2>3. Pushed = hist \o <<tok>>
    BY <1>1, <1>3, <2>2 DEF Pushed
  <2> QED BY <1>1, <2>1, <2>2, <2>3, ContinuesOne
<1> QED BY <1>2, <1>3

LEMMA CutThinkingMaps == ASSUME IInv, CutThinking PROVE Plain!Say
<1>1. pc = "top" /\ pc' = pc /\ hist' = Pushed \o CutPhrase
  BY DEF CutThinking
<1>2. PICK s \in Plain!Continuations(hist) : Pushed = hist \o s
  BY <1>1, PushMaps
<1>3. hist' = hist \o s \o CutPhrase
  BY <1>1, <1>2
<1> QED BY <1>1, <1>2, <1>3 DEF Plain!Say

LEMMA EmitMaps == ASSUME IInv, Emit PROVE Plain!Say
<1>1. pc = "top" /\ pc' # "idle" /\ hist' = Pushed
  BY DEF Emit
<1>2. PICK s \in Plain!Continuations(hist) : Pushed = hist \o s
  BY <1>1, PushMaps
<1> QED BY <1>1, <1>2 DEF Plain!Say

LEMMA CloseMaps == ASSUME IInv, BudgetOver \/ Stop \/ ClientGone \/ Fail PROVE Plain!Close
<1>1. pc # "idle" /\ pc' = "idle"
  BY DEF BudgetOver, Stop, ClientGone, Fail, Finish, Return
<1>2. hist' \in {hist, SubSeq(hist, 1, Len(hist) - 1), << >>}
  <2>1. CASE BudgetOver
    <3>1. pc = "top" /\ hist' = Prefix(hist, e.past)
      BY <2>1 DEF BudgetOver, Finish
    <3>2. e.past = Len(hist) /\ hist \in Seq(Token)
      BY <3>1, PushedIs
    <3> QED BY <3>1, <3>2, PrefixAll
  <2>2. CASE Stop
    <3>1. pc = "top" /\ hist' = Prefix(Pushed, e.past)
      BY <2>2 DEF Stop, Finish
    <3>2. e.past = Len(hist) /\ Prefix(Pushed, Len(hist)) = hist
      BY <3>1, PushedIs
    <3> QED BY <3>1, <3>2
  <2>3. CASE ClientGone
    <3>1. pc = "step" /\ hist' = Prefix(hist, e.past)
      BY <2>3 DEF ClientGone, Finish
    <3>2. e.past = Len(hist) - 1
      BY <3>1, AtStep DEF AtPoint
    <3> QED BY <3>1, <3>2 DEF Prefix
  <2>4. CASE Fail
    BY <2>4 DEF Fail
  <2> QED BY <2>1, <2>2, <2>3, <2>4
<1> QED BY <1>1, <1>2 DEF Plain!Close

LEMMA BeginMaps == ASSUME NEW p \in Prompts, Begin(p) PROVE Plain!Ask
<1>1. pc = "idle" /\ pc' = "feed" /\ hist' \in {p, hist \o p}
  BY DEF Begin
<1> QED BY <1>1 DEF Plain!Ask

\* The conversation is one a trunk without drafts could have had.
THEOREM RefinesPlain == Spec => PlainSpec
<1>1. Init => Plain!Init
  BY DEF Init, Plain!Init
<1>2. IInv /\ [Next]_vars => [Plain!Next]_<<hist, pc # "idle">>
  <2> SUFFICES ASSUME IInv, [Next]_vars PROVE [Plain!Next]_<<hist, pc # "idle">>
    OBVIOUS
  <2>1. ASSUME NEW p \in Prompts, Begin(p) PROVE Plain!Next
    BY <2>1, BeginMaps DEF Plain!Next
  <2>2. CASE Step \/ CutThinking \/ Emit
    BY <2>2, StepMaps, CutThinkingMaps, EmitMaps DEF Plain!Next
  <2>3. CASE BudgetOver \/ Stop \/ ClientGone \/ Fail
    BY <2>3, CloseMaps DEF Plain!Next
  <2>4. CASE Feed \/ ParkPrefill \/ Park \/ UNCHANGED vars
    <3>1. hist' = hist /\ pc' = pc
      BY <2>4 DEF Feed, ParkPrefill, Park, vars
    <3> QED BY <3>1
  <2>5. ASSUME NEW thinking \in BOOLEAN, FirstPick(thinking) PROVE UNCHANGED <<hist, pc # "idle">>
    <3>1. hist' = hist /\ pc' = "top" /\ pc = "feed"
      BY <2>5 DEF FirstPick
    <3> QED BY <3>1
  <2> QED BY <2>1, <2>2, <2>3, <2>4, <2>5 DEF Next
<1> QED BY <1>1, <1>2, Inductive, PTL DEF Spec, PlainSpec, Plain!Spec
===============================================================================

--------------------------- MODULE PrefixCacheProofs ---------------------------
(***************************************************************************)
(* Theorems about PrefixCache, for any requests, texts, images, sizes and  *)
(* scenes: the types and WithinBudget in every scene; EngineIsConsumed,    *)
(* PoolExact and OwnTokens where the scenes are Sound; there too, what the *)
(* tokens of a sequence tell is the conversation it is for (WordsFiled,    *)
(* RequestWords), images apart, and ContextIsRequest and RepliesFiled on a *)
(* server that is sent no images.                                          *)
(***************************************************************************)
EXTENDS PrefixCache, FiniteSetTheorems, WellFoundedInduction, TLAPS

\* A resume that fails resets the engine and leaves the epoch alone: while another request is
\* parked, that one may take the empty engine for its own.  Such scenes are set apart.
Sound == "resume" \in scene.events => scene.parks <= 1

Words == Text \cup ReplyText \cup Image \cup {NoText, NoImage}
Tokens == [kind : {"user", "open", "gen", "end", "text", "raw"}, text : Words]
Places == [tok : Tokens, img : Image \cup {NoImage}]
Message == [role : {"user", "assistant"}, text : Words, img : Image \cup {NoImage}]
ReplyState == [msgs : Seq(Message), prompt : Seq(Tokens), gen : Seq(Tokens), content : Words]
Prompts == [seq : Seq(Places), via : Nat, boundary : Nat]

\* Images by position.
IsPics(f) == f \in [DOMAIN f -> Image] /\ DOMAIN f \subseteq 1 .. scene.ctx

\* An entry, saved when the clock was n at most.
IsEntry(e, n) ==
    /\ e \in [id : 1 .. n, tok : Seq(Tokens), img : {e.img}, last : ReplyState,
              ck : Seq(Places), used : 1 .. n, boundary : BOOLEAN]
    /\ IsPics(e.img) /\ Len(e.tok) < scene.ctx /\ Len(e.ck) = Len(e.tok)

IsTicket(t) ==
    /\ t \in [ck : Seq(Places), epoch : Nat, last : ReplyState, img : {t.img}, parks : Nat]
    /\ IsPics(t.img) /\ Len(t.ck) < scene.ctx

\* The state that every request sees.
Shared ==
    /\ scene \in Scenes
    /\ eng \in Seq(Places) /\ Len(eng) < scene.ctx
    /\ consumed \in Seq(Tokens) /\ Len(consumed) < scene.ctx
    /\ IsPics(ov) /\ IsPics(consumed_img)
    /\ last \in ReplyState
    /\ clock \in Nat /\ epoch \in Nat
    /\ heard \subseteq Seq(Message) /\ \A h \in heard : h # <<>> /\ Last(h).role = "assistant"

\* The pool's entries, told apart by their ids.
Pooled ==
    /\ IsFiniteSet(pool)
    /\ \A e \in pool : IsEntry(e, clock)
    /\ \A e, f \in pool : e.id = f.id => e = f

\* What the requests keep.
Kept ==
    /\ owner \in Request \cup {None}
    /\ st \in [Request -> {"new", "pass", "yield", "parked", "done"}]
    /\ msgs \in [Request -> Seq(Message)]
    /\ prompt \in [Request -> Prompts]
    /\ hist \in [Request -> Seq(Tokens)]
    /\ fed \in [Request -> 0 .. scene.ctx]
    /\ ticket = [r \in Request |-> ticket[r]] /\ \A r \in Request : IsTicket(ticket[r])
    /\ \A r \in Request : owner = r <=> st[r] \in {"pass", "yield"}
    /\ \A r \in Request : ticket[r].ck # <<>> <=> st[r] = "parked"
    /\ \A r \in Request : st[r] = "yield" => fed[r] > 0

\* How far an open request is: some of its prompt, or all of it and the first token of a reply.
Progress(r) ==
    /\ Len(prompt[r].seq) < scene.ctx /\ fed[r] <= Len(prompt[r].seq)
    /\ \/ Len(hist[r]) = Len(prompt[r].seq)
       \/ Len(hist[r]) = Len(prompt[r].seq) + 1 /\ fed[r] = Len(prompt[r].seq) /\ Room(r) > 0

\* The engine, or the checkpoint, has no more than that; a parked request's engine is its own
\* until the epoch moves on.
Lengths ==
    /\ \A r \in Request : st[r] \in {"pass", "yield"} => Progress(r) /\ Len(eng) <= fed[r]
    /\ \A r \in Request : st[r] = "parked" =>
        /\ Progress(r) /\ Len(ticket[r].ck) <= fed[r]
        /\ ticket[r].epoch <= epoch
        /\ owner # None => ticket[r].epoch < epoch
        /\ ticket[r].epoch = epoch => Len(eng) <= fed[r]
    /\ owner = None /\ consumed # <<>> => Len(eng) = Len(consumed)

TInv == Shared /\ Pooled /\ Kept /\ Lengths

\* f has image x at position i.
Shows(f, i, x) == IF i \in DOMAIN f THEN f[i] = x /\ x # NoImage ELSE x = NoImage

\* s is what r has had evaluated and img its images, with those of the rest of the prompt.
Evaluated(r, s, img) ==
    /\ Len(s) = fed[r]
    /\ \A i \in 1 .. Len(s) : s[i].tok = hist[r][i]
    /\ DOMAIN img \subseteq 1 .. Len(prompt[r].seq)
    /\ \A i \in 1 .. Len(s) : Shows(img, i, s[i].img)
    /\ \A i \in Len(s) + 1 .. Len(prompt[r].seq) : Shows(img, i, prompt[r].seq[i].img)

\* The images of the prompt's rest are set in the engine.
Pending(r) ==
    /\ DOMAIN ov \subseteq 1 .. Len(prompt[r].seq)
    /\ \A i \in fed[r] + 1 .. Len(prompt[r].seq) : Shows(ov, i, prompt[r].seq[i].img)

Owned == \A r \in Request : st[r] \in {"pass", "yield"} =>
            Evaluated(r, eng, consumed_img) /\ Pending(r)

Away == \A r \in Request : st[r] = "parked" =>
            /\ Evaluated(r, ticket[r].ck, ticket[r].img)
            /\ ticket[r].parks > 0
            /\ ticket[r].epoch = epoch => eng = ticket[r].ck /\ Pending(r)

\* Where a resume may fail, one request is parked at a time.
Alone == "resume" \in scene.events =>
            \A q, r \in Request : st[q] = "parked" /\ st[r] = "parked" => q = r

\* Nothing is pending between requests.
AtRest == owner = None /\ consumed # <<>> =>
            /\ consumed = Toks(eng) /\ consumed_img = Imgs(eng)
            /\ DOMAIN ov \subseteq 1 .. Len(eng)

Filed == \A e \in pool : e.tok = Toks(e.ck) /\ e.img = Imgs(e.ck)

Exact == Owned /\ Away /\ Alone /\ AtRest /\ Filed
EInv == Sound => Exact

-----------------------------------------------------------------------------
\* A set of naturals has a least element.
LEMMA LeastNat ==
    ASSUME NEW T \in SUBSET Nat, T # {}
    PROVE  \E m \in T : \A n \in T : m <= n
<1>1. PICK m \in T : \A n \in T : ~(<<n, m>> \in OpToRel(<, Nat))
  BY NatLessThanWellFounded, WFMin
<1>2. \A n \in T : ~(n < m)
  BY <1>1 DEF OpToRel
<1> QED BY <1>2

\* The longest of some entries, and the one used last, exist.
LEMMA LongestExists ==
    ASSUME NEW n \in Nat, NEW S, S # {}, \A e \in S : IsEntry(e, n), Shared
    PROVE  Longest(S) \in S
<1>0. scene.ctx \in Nat
  BY Settings DEF Shared
<1>1. \A e \in S : Len(e.tok) \in Nat /\ Len(e.tok) < scene.ctx
  BY DEF IsEntry
<1> DEFINE T == {scene.ctx - Len(e.tok) : e \in S}
<1>2. T \in SUBSET Nat /\ T # {}
  BY <1>0, <1>1
<1>3. PICK m \in T : \A k \in T : m <= k
  BY <1>2, LeastNat
<1>4. PICK e \in S : m = scene.ctx - Len(e.tok)
  BY <1>3
<1>5. ASSUME NEW f \in S PROVE Len(f.tok) <= Len(e.tok)
  <2>1. scene.ctx - Len(f.tok) \in T
    OBVIOUS
  <2>2. m <= scene.ctx - Len(f.tok)
    BY <1>3, <2>1
  <2> QED BY <1>0, <1>1, <1>4, <2>2
<1> QED BY <1>5 DEF Longest

LEMMA NewestExists ==
    ASSUME NEW n \in Nat, NEW S, S # {}, \A e \in S : IsEntry(e, n)
    PROVE  Newest(S) \in S
<1>1. \A e \in S : e.used \in 1 .. n
  BY DEF IsEntry
<1> DEFINE T == {n - e.used : e \in S}
<1>2. T \in SUBSET Nat /\ T # {}
  BY <1>1
<1>3. PICK m \in T : \A k \in T : m <= k
  BY <1>2, LeastNat
<1>4. PICK e \in S : m = n - e.used
  BY <1>3
<1>5. ASSUME NEW f \in S PROVE f.used <= e.used
  <2>1. n - f.used \in T
    OBVIOUS
  <2>2. m <= n - f.used
    BY <1>3, <2>1
  <2> QED BY <1>1, <1>4, <2>2
<1> QED BY <1>5 DEF Newest

-----------------------------------------------------------------------------
\* What a prompt is built of.
LEMMA SplicedType == ASSUME NEW m \in Message PROVE Spliced(m) \in Places
BY DEF Spliced, At, Tok, Places, Tokens, Message

LEMMA PlainType == ASSUME NEW t \in Tokens PROVE At(t, NoImage) \in Places
BY DEF At, Places

LEMMA RenderedType ==
    ASSUME NEW t \in Words
    PROVE  Rendered(t) \in Seq(Tokens) /\ Len(Rendered(t)) = 3
<1>1. Open \in Tokens /\ Tok("gen", t) \in Tokens /\ End \in Tokens
  BY DEF Open, End, Tok, Tokens, Words
<1> QED BY <1>1 DEF Rendered

LEMMA RenderType ==
    ASSUME NEW s \in Seq(Places), NEW m \in Message
    PROVE  Render(s, m) \in Seq(Places)
<1>1. Spliced(m) \in Places
  BY SplicedType
<1>2. m.text \in Words
  BY DEF Message
<1>3. At(Tok("text", m.text), NoImage) \in Places
  BY <1>2, PlainType DEF Tok, Tokens
<1>4. [i \in 1 .. 3 |-> At(Rendered(m.text)[i], NoImage)] \in Seq(Places)
  BY <1>2, RenderedType, PlainType
<1> QED BY <1>1, <1>3, <1>4 DEF Render

\* The prompt up to a message, by recursion on the messages.
IsUpTo(f, m) == f = [n \in 0 .. Len(m) |-> IF n = 0 THEN <<>> ELSE Render(f[n - 1], m[n])]

\* It exists ...
LEMMA UpToExists ==
    ASSUME NEW m \in Seq(Message)
    PROVE  \E f : IsUpTo(f, m)
<1> DEFINE Def(n, f) == f = [k \in 0 .. n |-> IF k = 0 THEN <<>> ELSE Render(f[k - 1], m[k])]
           Bad == {n \in Nat : ~\E f : Def(n, f)}
<1>1. SUFFICES Bad = {}
  <2>1. Len(m) \in Nat
    OBVIOUS
  <2> QED BY <1>1, <2>1 DEF IsUpTo
<1>2. SUFFICES ASSUME Bad # {} PROVE FALSE
  OBVIOUS
<1>3. PICK n \in Bad : \A k \in Bad : n <= k
  BY <1>2, LeastNat
<1>4. n # 0
  <2>1. Def(0, [k \in 0 .. 0 |-> <<>>])
    OBVIOUS
  <2> QED BY <2>1
<1>5. n - 1 \in Nat /\ n - 1 \notin Bad
  <2>1. n \in Nat /\ n - 1 \in Nat
    BY <1>3, <1>4
  <2>2. n - 1 \in Bad => n <= n - 1
    BY <1>3
  <2> QED BY <2>1, <2>2
<1>6. PICK f : Def(n - 1, f)
  BY <1>5
<1> DEFINE g == [k \in 0 .. n |-> IF k = n THEN Render(f[n - 1], m[n]) ELSE f[k]]
<1>7. Def(n, g)
  <2>1. ASSUME NEW k \in 0 .. n
        PROVE  g[k] = IF k = 0 THEN <<>> ELSE Render(g[k - 1], m[k])
    <3>1. CASE k = n
      BY <1>4, <1>5, <3>1
    <3>2. CASE k # n
      <4>1. k \in 0 .. n - 1 /\ (k # 0 => k - 1 \in 0 .. n - 1 /\ k - 1 # n)
        BY <3>2
      <4>2. g[k] = f[k] /\ (k # 0 => g[k - 1] = f[k - 1])
        BY <3>2, <4>1
      <4>3. f[k] = IF k = 0 THEN <<>> ELSE Render(f[k - 1], m[k])
        BY <1>6, <4>1
      <4> QED BY <4>2, <4>3
    <3> QED BY <3>1, <3>2
  <2> HIDE DEF Def
  <2>2. g = [k \in 0 .. n |-> g[k]]
    OBVIOUS
  <2>3. [k \in 0 .. n |-> g[k]] = [k \in 0 .. n |-> IF k = 0 THEN <<>> ELSE Render(g[k - 1], m[k])]
    BY <2>1
  <2>4. g = [k \in 0 .. n |-> IF k = 0 THEN <<>> ELSE Render(g[k - 1], m[k])]
    BY <2>2, <2>3
  <2> QED BY <2>4 DEF Def
<1> QED BY <1>3, <1>7

\* ... and is a sequence of places.
LEMMA UpToType ==
    ASSUME NEW m \in Seq(Message), NEW f, IsUpTo(f, m)
    PROVE  f[Len(m)] \in Seq(Places)
<1> DEFINE Bad == {n \in 0 .. Len(m) : f[n] \notin Seq(Places)}
<1>0. Len(m) \in Nat
  OBVIOUS
<1>1. \A n \in 0 .. Len(m) : f[n] = IF n = 0 THEN <<>> ELSE Render(f[n - 1], m[n])
  BY DEF IsUpTo
<1>2. SUFFICES ASSUME Bad # {} PROVE FALSE
  BY <1>0
<1>3. Bad \in SUBSET Nat
  BY <1>0
<1>4. PICK n \in Bad : \A k \in Bad : n <= k
  BY <1>2, <1>3, LeastNat
<1>5. n # 0
  <2>1. f[0] = <<>> /\ <<>> \in Seq(Places)
    BY <1>0, <1>1
  <2>2. f[n] \notin Seq(Places)
    BY <1>4
  <2> HIDE DEF Bad
  <2> QED BY <2>1, <2>2
<1>6. n - 1 \in 0 .. Len(m) /\ n - 1 \notin Bad
  BY <1>0, <1>4, <1>5
<1>7. f[n - 1] \in Seq(Places) /\ m[n] \in Message
  BY <1>0, <1>4, <1>5, <1>6
<1>8. Render(f[n - 1], m[n]) \in Seq(Places)
  BY <1>7, RenderType
<1> QED BY <1>1, <1>4, <1>5, <1>8

LEMMA RebuiltType ==
    ASSUME NEW m \in Seq(Message)
    PROVE  Rebuilt(m) \in Prompts /\ Len(Rebuilt(m).seq) > 0
<1> DEFINE f == CHOOSE f : IsUpTo(f, m)
           seq == f[Len(m)]
<1>1. IsUpTo(f, m)
  BY UpToExists
<1>2. seq \in Seq(Places)
  BY <1>1, UpToType
<1>3. Rebuilt(m) = [seq |-> Append(seq, At(Open, NoImage)), via |-> 0, boundary |-> Len(seq)]
  BY DEF Rebuilt, IsUpTo
<1>4. At(Open, NoImage) \in Places
  BY PlainType DEF Open, Tok, Tokens, Words
<1> HIDE DEF f
<1>5. Append(seq, At(Open, NoImage)) \in Seq(Places) /\ Len(Append(seq, At(Open, NoImage))) > 0
  BY <1>2, <1>4
<1> QED BY <1>2, <1>3, <1>5 DEF Prompts

LEMMA ContinuedType ==
    ASSUME NEW L \in ReplyState, NEW m \in Seq(Message), NEW id \in Nat, Continues(L, m)
    PROVE  Continued(L, m, id) \in Prompts /\ Len(Continued(L, m, id).seq) > 0
<1> DEFINE told == L.prompt \o L.gen
           old == [i \in 1 .. Len(told) |-> At(told[i], NoImage)]
           new == [i \in 1 .. Len(m) - Len(L.msgs) - 1 |-> Spliced(m[Len(L.msgs) + 1 + i])]
           seq == old \o new
<1>1. told \in Seq(Tokens) /\ L.msgs \in Seq(Message)
  BY DEF ReplyState
<1>2. Len(m) - Len(L.msgs) - 1 \in Nat
  BY <1>1 DEF Continues
<1>3. old \in Seq(Places)
  <2> HIDE DEF told
  <2>1. \A i \in 1 .. Len(told) : told[i] \in Tokens
    BY <1>1
  <2>2. \A i \in 1 .. Len(told) : At(told[i], NoImage) \in Places
    BY <2>1, PlainType
  <2>3. Len(told) \in Nat
    BY <1>1
  <2> QED BY <2>2, <2>3
<1>4. new \in Seq(Places)
  <2>1. \A i \in 1 .. Len(m) - Len(L.msgs) - 1 : m[Len(L.msgs) + 1 + i] \in Message
    BY <1>1, <1>2
  <2> QED BY <1>2, <2>1, SplicedType
<1>5. At(Open, NoImage) \in Places
  BY PlainType DEF Open, Tok, Tokens, Words
<1>6. Continued(L, m, id) = [seq |-> Append(seq, At(Open, NoImage)), via |-> id, boundary |-> Len(seq)]
  BY DEF Continued
<1>7. seq \in Seq(Places)
  <2> HIDE DEF old, new
  <2> QED BY <1>3, <1>4
<1> HIDE DEF seq
<1>8. Append(seq, At(Open, NoImage)) \in Seq(Places) /\ Len(Append(seq, At(Open, NoImage))) > 0
  BY <1>5, <1>7
<1> QED BY <1>6, <1>7, <1>8 DEF Prompts

\* Whatever a prompt is built from, it is one.
LEMMA BuildPromptType ==
    ASSUME Shared, Pooled, NEW m \in Seq(Message)
    PROVE  BuildPrompt(m) \in Prompts /\ Len(BuildPrompt(m).seq) > 0
<1> DEFINE cached == {e \in pool : Continues(e.last, m)}
<1>1. CASE Continues(last, m)
  BY <1>1, ContinuedType DEF BuildPrompt, Shared
<1>2. CASE ~Continues(last, m) /\ cached # {}
  <2>1. Newest(cached) \in cached
    BY <1>2, NewestExists DEF Pooled, Shared
  <2>2. IsEntry(Newest(cached), clock) /\ Continues(Newest(cached).last, m)
    BY <2>1 DEF Pooled
  <2>3. Newest(cached).last \in ReplyState /\ Newest(cached).id \in Nat
    BY <2>2 DEF IsEntry, Shared
  <2>4. BuildPrompt(m) = Continued(Newest(cached).last, m, Newest(cached).id)
    BY <1>2 DEF BuildPrompt
  <2> QED BY <2>2, <2>3, <2>4, ContinuedType
<1>3. CASE ~Continues(last, m) /\ cached = {}
  BY <1>3, RebuiltType DEF BuildPrompt
<1> QED BY <1>1, <1>2, <1>3

LEMMA LastChanged ==
    ASSUME NEW S, NEW s \in Seq(S), NEW x \in S
    PROVE  [s EXCEPT ![Len(s)] = x] \in Seq(S)
<1>1. [s EXCEPT ![Len(s)] = x] = [i \in 1 .. Len(s) |-> IF i = Len(s) THEN x ELSE s[i]]
  OBVIOUS
<1> DEFINE F(i) == IF i = Len(s) THEN x ELSE s[i]
<1>2. \A i \in 1 .. Len(s) : F(i) \in S
  OBVIOUS
<1>3. Len(s) \in Nat
  OBVIOUS
<1>4. [i \in 1 .. Len(s) |-> F(i)] \in Seq(S)
  <2> HIDE DEF F
  <2> QED BY <1>2, <1>3
<1> QED BY <1>1, <1>4

\* The messages a client may send.
LEMMA MessagesType ==
    ASSUME Shared, NEW m \in Messages
    PROVE  m \in Seq(Message) /\ m # <<>>
<1> DEFINE changed == {[g EXCEPT ![Len(g)] = Assistant(w)] : g \in heard, w \in ReplyText}
           turns == {User(t, i) : t \in Text, i \in scene.images \cup {NoImage}}
           known == {g \in {<<>>} \cup heard \cup changed : Len(g) < MaxMsgs}
<1>0. m \in {Append(h, u) : h \in known, u \in turns}
  BY DEF Messages
<1>1. PICK h \in known, u \in turns : m = Append(h, u)
  BY <1>0
<1>2. u \in Message
  <2>1. scene.images \subseteq Image
    BY Settings DEF Shared
  <2> QED BY <2>1 DEF User, Message, Words
<1>3. h = <<>> \/ h \in heard \/ h \in changed
  BY <1>1
<1>4. heard \subseteq Seq(Message)
  BY DEF Shared
<1>5. ASSUME h \in changed PROVE h \in Seq(Message)
  <2>1. PICK g \in heard, w \in ReplyText : h = [g EXCEPT ![Len(g)] = Assistant(w)]
    BY <1>5
  <2>2. Assistant(w) \in Message
    BY DEF Assistant, Message, Words
  <2> QED BY <1>4, <2>1, <2>2, LastChanged
<1>6. h \in Seq(Message)
  <2> HIDE DEF changed, turns, known
  <2>1. <<>> \in Seq(Message)
    OBVIOUS
  <2> QED BY <1>3, <1>4, <1>5, <2>1
<1> HIDE DEF changed, turns, known
<1> QED BY <1>1, <1>2, <1>6

LEMMA RawPromptType ==
    ASSUME NEW t \in Text
    PROVE  RawPrompt(t) \in Prompts /\ Len(RawPrompt(t).seq) > 0
<1>1. At(Tok("raw", t), NoImage) \in Places
  BY PlainType DEF Tok, Tokens, Words
<1> QED BY <1>1 DEF RawPrompt, Prompts

-----------------------------------------------------------------------------
\* e is the entry h, its reply and its last use apart; e is an entry for the live sequence.
Like(e, h) == e.id = h.id /\ e.tok = h.tok /\ e.img = h.img /\ e.ck = h.ck
IsLive(e) == /\ e.id = clock + 1 /\ e.tok = consumed /\ e.img = consumed_img /\ e.ck = eng
             /\ eng # <<>> /\ consumed # <<>>

LEMMA LikeSelf == \A e : Like(e, e)
BY DEF Like

LEMMA EntryLater ==
    ASSUME NEW n \in Nat, NEW k \in Nat, n <= k, NEW e, IsEntry(e, n)
    PROVE  IsEntry(e, k)
<1>1. 1 .. n \subseteq 1 .. k
  OBVIOUS
<1> QED BY <1>1 DEF IsEntry

LEMMA EntryUsed ==
    ASSUME NEW n \in Nat, NEW k \in 1 .. n, NEW e, IsEntry(e, n), NEW L \in ReplyState
    PROVE  /\ IsEntry([e EXCEPT !.used = k], n) /\ Like([e EXCEPT !.used = k], e)
           /\ IsEntry([e EXCEPT !.used = k, !.last = L], n)
           /\ Like([e EXCEPT !.used = k, !.last = L], e)
<1> DEFINE T == [id : 1 .. n, tok : Seq(Tokens), img : {e.img}, last : ReplyState,
                 ck : Seq(Places), used : 1 .. n, boundary : BOOLEAN]
           f == [e EXCEPT !.used = k]
           g == [e EXCEPT !.used = k, !.last = L]
<1>1. e \in T
  BY DEF IsEntry
<1>2. f \in T /\ g \in T
  BY <1>1
<1>3. /\ f.id = e.id /\ f.tok = e.tok /\ f.img = e.img /\ f.ck = e.ck
      /\ g.id = e.id /\ g.tok = e.tok /\ g.img = e.img /\ g.ck = e.ck
  BY <1>1
<1> HIDE DEF f, g
<1>4. IsEntry(f, n) /\ IsEntry(g, n)
  BY <1>2, <1>3 DEF IsEntry
<1>5. Like(f, e) /\ Like(g, e)
  BY <1>3 DEF Like
<1> QED BY <1>4, <1>5 DEF f, g

\* pool_evict_to() only takes entries out, and never keep's.
LEMMA EvictKeeps ==
    ASSUME NEW S, NEW need, NEW keep, NEW held
    PROVE  /\ EvictTo(S, need, keep, held) \subseteq S
           /\ \A h \in S : h.id = keep => h \in EvictTo(S, need, keep, held)
BY DEF EvictTo, Evicted

\* Checkpoints are finite, so what they take is a number.
LEMMA UnitsFinite ==
    ASSUME NEW S, IsFiniteSet(S), \A e \in S : e.ck \in Seq(Places)
    PROVE  IsFiniteSet(Units(S)) /\ Cardinality(Units(S)) \in Nat
<1> DEFINE U(e) == {e.id} \X DOMAIN e.ck
<1>1. ASSUME NEW e \in S PROVE IsFiniteSet(U(e))
  <2>1. DOMAIN e.ck = 1 .. Len(e.ck) /\ Len(e.ck) \in Nat
    OBVIOUS
  <2>2. IsFiniteSet(DOMAIN e.ck)
    <3>1. IsFiniteSet(1 .. Len(e.ck))
      BY <2>1, FS_Interval
    <3> QED BY <2>1, <3>1
  <2>3. IsFiniteSet({e.id})
    BY FS_Singleton
  <2> QED BY <2>2, <2>3, FS_Product
<1> DEFINE f == [e \in S |-> U(e)]
<1>2. IsFiniteSet({U(e) : e \in S})
  <2> HIDE DEF U
  <2>1. f \in Surjection(S, {U(e) : e \in S})
    BY DEF Surjection
  <2> QED BY <2>1, FS_Surjection
<1>3. IsFiniteSet(UNION {U(e) : e \in S})
  <2> HIDE DEF U
  <2>1. \A X \in {U(e) : e \in S} : IsFiniteSet(X)
    BY <1>1
  <2> QED BY <1>2, <2>1, FS_UNION
<1>4. IsFiniteSet(Units(S))
  BY <1>3 DEF Units
<1> QED BY <1>4, FS_CardinalityType

\* What entries like those of T take is no more than T's.
LEMMA UnitsWithin ==
    ASSUME NEW S, NEW T, IsFiniteSet(T), \A e \in T : e.ck \in Seq(Places),
           \A e \in S : \E h \in T : Like(e, h)
    PROVE  Cardinality(Units(S)) <= Cardinality(Units(T))
<1>1. Units(S) \subseteq Units(T)
  BY DEF Units, Like
<1>2. IsFiniteSet(Units(T))
  BY UnitsFinite
<1> QED BY <1>1, <1>2, FS_Subset

\* One more entry takes what its checkpoint does.
LEMMA UnitsOfOneMore ==
    ASSUME NEW S, IsFiniteSet(S), \A e \in S : e.ck \in Seq(Places), NEW e, e.ck \in Seq(Places)
    PROVE  Cardinality(Units(S \cup {e})) <= Cardinality(Units(S)) + Len(e.ck)
<1> DEFINE U == {e.id} \X DOMAIN e.ck
<1>1. Units(S \cup {e}) = Units(S) \cup U
  BY DEF Units
<1>2. DOMAIN e.ck = 1 .. Len(e.ck) /\ Len(e.ck) \in Nat
  OBVIOUS
<1>3. IsFiniteSet(DOMAIN e.ck) /\ Cardinality(DOMAIN e.ck) = Len(e.ck)
  <2>1. IsFiniteSet(1 .. Len(e.ck)) /\ Cardinality(1 .. Len(e.ck)) = Len(e.ck)
    BY <1>2, FS_Interval
  <2> QED BY <1>2, <2>1
<1>4. IsFiniteSet({e.id}) /\ Cardinality({e.id}) = 1
  BY FS_Singleton
<1>5. IsFiniteSet(U) /\ Cardinality(U) = Len(e.ck)
  <2>1. IsFiniteSet(U) /\ Cardinality(U) = Cardinality({e.id}) * Cardinality(DOMAIN e.ck)
    BY <1>3, <1>4, FS_Product
  <2> QED BY <1>2, <1>3, <1>4, <2>1
<1>6. IsFiniteSet(Units(S))
  BY UnitsFinite
<1>7. Cardinality(Units(S) \cup U)
        = Cardinality(Units(S)) + Cardinality(U) - Cardinality(Units(S) \cap U)
  <2> HIDE DEF U
  <2> QED BY <1>5, <1>6, FS_Union
<1>8. Cardinality(Units(S) \cap U) \in Nat /\ Cardinality(Units(S)) \in Nat
  <2> HIDE DEF U
  <2>1. IsFiniteSet(Units(S) \cap U)
    BY <1>6, FS_Intersection
  <2> QED BY <1>6, <2>1, FS_CardinalityType
<1> HIDE DEF U
<1>9. Cardinality(Units(S) \cup U) <= Cardinality(Units(S)) + Len(e.ck)
  BY <1>2, <1>5, <1>7, <1>8
<1> QED BY <1>1, <1>9

\* What a save may leave in the pool.
Saved(S) ==
    /\ IsFiniteSet(S)
    /\ \A e \in S : IsEntry(e, clock + 1)
    /\ \A e, f \in S : e.id = f.id => e = f

LEMMA SomePooled ==
    ASSUME Shared, Pooled, NEW S \in SUBSET pool
    PROVE  /\ Saved(S)
           /\ \A e \in S : \E h \in pool : Like(e, h)
           /\ Cardinality(Units(S)) <= Cardinality(Units(pool))
<1>1. IsFiniteSet(S)
  BY FS_Subset DEF Pooled
<1>2. \A e \in S : IsEntry(e, clock + 1)
  BY EntryLater DEF Pooled, Shared
<1>3. \A e \in S : \E h \in pool : Like(e, h)
  BY DEF Like
<1>4. \A e \in pool : e.ck \in Seq(Places)
  BY DEF Pooled, IsEntry
<1>5. Cardinality(Units(S)) <= Cardinality(Units(pool))
  BY <1>3, <1>4, UnitsWithin DEF Pooled
<1> QED BY <1>1, <1>2, <1>3, <1>5 DEF Saved, Pooled

\* An entry may be touched: used last, with or without a new reply.
Touched(e, f) == \/ f = [e EXCEPT !.used = clock + 1]
                 \/ \E L \in ReplyState : f = [e EXCEPT !.used = clock + 1, !.last = L]

LEMMA TouchPooled ==
    ASSUME Shared, Pooled, NEW S \in SUBSET pool, NEW T \in SUBSET pool, S \cap T = {},
           NEW g, \A e \in T : Touched(e, g[e])
    PROVE  LET U == S \cup {g[e] : e \in T}
           IN  /\ Saved(U)
               /\ \A e \in U : \E h \in pool : Like(e, h)
               /\ \A h \in S \cup T : \E e \in U : Like(e, h)
               /\ Cardinality(Units(U)) <= Cardinality(Units(pool))
<1> DEFINE V == {g[e] : e \in T}
           U == S \cup V
<1>0. clock \in Nat /\ clock + 1 \in Nat /\ clock + 1 \in 1 .. clock + 1
  BY DEF Shared
<1> DEFINE n == clock + 1
<1>1. \A e \in pool : IsEntry(e, clock + 1)
  BY <1>0, EntryLater DEF Pooled, Shared
<1>2. ASSUME NEW e \in T PROVE IsEntry(g[e], clock + 1) /\ Like(g[e], e)
  <2>1. IsEntry(e, clock + 1)
    BY <1>1
  <2> HIDE DEF n
  <2>2. n \in Nat /\ n \in 1 .. n /\ IsEntry(e, n)
    BY <1>0, <2>1 DEF n
  <2>3. \A L \in ReplyState :
          /\ IsEntry([e EXCEPT !.used = n], n) /\ Like([e EXCEPT !.used = n], e)
          /\ IsEntry([e EXCEPT !.used = n, !.last = L], n)
          /\ Like([e EXCEPT !.used = n, !.last = L], e)
    BY <2>2, EntryUsed
  <2>4. last \in ReplyState
    BY DEF Shared
  <2>5. \/ g[e] = [e EXCEPT !.used = n]
        \/ \E L \in ReplyState : g[e] = [e EXCEPT !.used = n, !.last = L]
    BY DEF Touched, n
  <2>6. IsEntry(g[e], n) /\ Like(g[e], e)
    BY <2>3, <2>4, <2>5
  <2> QED BY <2>6 DEF n
<1>3. IsFiniteSet(U)
  <2>1. IsFiniteSet(S) /\ IsFiniteSet(T)
    BY FS_Subset DEF Pooled
  <2> DEFINE k == [e \in T |-> g[e]]
  <2>2. k \in Surjection(T, V)
    BY DEF Surjection
  <2>3. IsFiniteSet(V)
    BY <2>1, <2>2, FS_Surjection
  <2> QED BY <2>1, <2>3, FS_Union
<1>4. \A e \in U : IsEntry(e, clock + 1)
  BY <1>1, <1>2
<1>5. \A e \in U : \E h \in pool : Like(e, h)
  <2>1. \A e \in S : Like(e, e)
    BY DEF Like
  <2> QED BY <1>2, <2>1
<1>6. \A e, f \in U : e.id = f.id => e = f
  <2>1. \A e, f \in pool : e.id = f.id => e = f
    BY DEF Pooled
  <2>2. \A e \in T : g[e].id = e.id
    BY <1>2 DEF Like
  <2> QED BY <2>1, <2>2
<1>7. \A h \in S \cup T : \E e \in U : Like(e, h)
  <2>1. \A e \in S : Like(e, e)
    BY DEF Like
  <2> QED BY <1>2, <2>1
<1>8. \A e \in pool : e.ck \in Seq(Places)
  BY DEF Pooled, IsEntry
<1>9. Cardinality(Units(U)) <= Cardinality(Units(pool))
  <2> HIDE DEF U
  <2> QED BY <1>5, <1>8, UnitsWithin DEF Pooled
<1> HIDE DEF U
<1>10. Saved(U)
  BY <1>3, <1>4, <1>6 DEF Saved
<1> QED BY <1>5, <1>7, <1>9, <1>10 DEF U

\* A new entry is added where it fits.
LEMMA AddPooled ==
    ASSUME Shared, Pooled, NEW S \in SUBSET pool, NEW n, IsEntry(n, clock + 1), n.id = clock + 1,
           NEW need \in Nat, Len(n.ck) <= need, NEW held \in Nat, Fits(S, need, held)
    PROVE  /\ Saved(S \cup {n})
           /\ Cardinality(Units(S \cup {n})) + held <= PoolBudget
<1>0. clock \in Nat /\ PoolBudget \in Nat
  BY Sizes DEF Shared
<1>1. Saved(S)
  BY SomePooled
<1>2. IsFiniteSet(S \cup {n})
  BY <1>1, FS_AddElement DEF Saved
<1>3. \A e \in S : e.id # n.id
  BY <1>0 DEF Pooled, IsEntry
<1>4. Saved(S \cup {n})
  BY <1>1, <1>2, <1>3 DEF Saved
<1>5. /\ \A e \in S : e.ck \in Seq(Places)
      /\ n.ck \in Seq(Places) /\ Len(n.ck) \in Nat
  BY <1>1 DEF Saved, IsEntry
<1>6. /\ Cardinality(Units(S \cup {n})) <= Cardinality(Units(S)) + Len(n.ck)
      /\ Cardinality(Units(S)) \in Nat
  BY <1>1, <1>5, UnitsFinite, UnitsOfOneMore DEF Saved
<1>7. Cardinality(Units(S \cup {n})) \in Nat
  <2>1. \A e \in S \cup {n} : e.ck \in Seq(Places)
    BY <1>5
  <2> QED BY <1>2, <2>1, UnitsFinite
<1> DEFINE R == {e \in S : Meta(e.last) = 1}
<1>8. Cardinality(R) \in Nat
  <2>1. IsFiniteSet(R)
    BY <1>1, FS_Subset DEF Saved
  <2> QED BY <2>1, FS_CardinalityType
<1>9. Cardinality(Units(S)) + Cardinality(R) + held + need <= PoolBudget
  BY DEF Fits, Bytes
<1> HIDE DEF R
<1>10. Cardinality(Units(S \cup {n})) + held <= PoolBudget
  BY <1>0, <1>5, <1>6, <1>7, <1>8, <1>9
<1> QED BY <1>4, <1>10

\* pool_save(): whatever happens, the entries kept are the pool's or the live sequence's, the
\* one to be restored is still there, and the checkpoints stay within the budget.
AfterSave(S, keep, held) ==
    /\ Saved(S)
    /\ \A e \in S : IsLive(e) \/ \E h \in pool : Like(e, h)
    /\ \A h \in pool : h.id = keep => \E e \in S : Like(e, h)
    /\ \/ Cardinality(Units(S)) <= Cardinality(Units(pool))
       \/ Cardinality(Units(S)) + held <= PoolBudget

LEMMA SaveTakes ==
    ASSUME Shared, Pooled, NEW keep, NEW held \in Nat, NEW ok \in BOOLEAN
    PROVE  AfterSave(Save(keep, held, ok), keep, held)
<1> DEFINE need == Len(eng) + Meta(last)
           same == Same(pool, consumed)
           older == {e \in Shorter(pool, consumed) : ~e.boundary /\ e.id # keep}
           rest == pool \ UpTo(older, same)
           covered == \E e \in Shorter(pool, consumed) : e.boundary
           room == EvictTo(rest, need, keep, held)
           g == [e \in same |-> [e EXCEPT !.used = clock + 1, !.last = IF ReplyOk THEN last ELSE @]]
           new == Entry(consumed, consumed_img, IF ReplyOk THEN last ELSE NoReply, FALSE)
           S == Save(keep, held, ok)
<1>1. \/ S = pool \/ S = rest \/ S = room
      \/ WorthSaving /\ S = (rest \ same) \cup {g[e] : e \in same}
      \/ WorthSaving /\ S = room \cup {new} /\ Fits(room, need, held)
  <2>1. {g[e] : e \in same} = {[e EXCEPT !.used = clock + 1,
                                         !.last = IF ReplyOk THEN last ELSE @] : e \in same}
    OBVIOUS
  <2> HIDE DEF g, new
  <2>2. \/ ~WorthSaving /\ S = pool
        \/ WorthSaving /\ same # {} /\ S = (rest \ same) \cup {[e EXCEPT !.used = clock + 1,
                                                !.last = IF ReplyOk THEN last ELSE @] : e \in same}
        \/ WorthSaving /\ S = rest
        \/ WorthSaving /\ S = room
        \/ WorthSaving /\ S = room \cup {new} /\ Fits(room, need, held)
    BY DEF Save, new
  <2> QED BY <2>1, <2>2
<1>2. /\ same \subseteq pool /\ rest \subseteq pool /\ room \subseteq rest
      /\ \A h \in pool : h.id = keep => h \in rest /\ h \in room
  <2>1. UpTo(older, same) \subseteq older
    BY DEF UpTo
  <2>2. \A h \in pool : h.id = keep => h \in rest
    BY <2>1
  <2> HIDE DEF rest
  <2>3. room \subseteq rest /\ \A h \in rest : h.id = keep => h \in room
    BY EvictKeeps
  <2> QED BY <2>2, <2>3 DEF rest, Same
<1>3. \A e \in same : Touched(e, g[e])
  <2>1. ASSUME NEW e \in same PROVE Touched(e, g[e])
    <3>1. g[e] = [e EXCEPT !.used = clock + 1, !.last = IF ReplyOk THEN last ELSE @]
      OBVIOUS
    <3>2. last \in ReplyState
      BY DEF Shared
    <3>3. e.last \in ReplyState
      BY <1>2 DEF Pooled, IsEntry
    <3>4. PICK L \in ReplyState : g[e] = [e EXCEPT !.used = clock + 1, !.last = L]
      BY <3>1, <3>2, <3>3
    <3> QED BY <3>4 DEF Touched
  <2> QED BY <2>1
<1>4. WorthSaving => IsEntry(new, clock + 1) /\ IsLive(new) /\ need \in Nat /\ Len(new.ck) <= need
  <2> HAVE WorthSaving
  <2>0. clock + 1 \in 1 .. clock + 1
    BY DEF Shared
  <2>1. (IF ReplyOk THEN last ELSE NoReply) \in ReplyState
    BY DEF Shared, NoReply, ReplyState, Words
  <2>2. IsEntry(new, clock + 1)
    BY <2>0, <2>1 DEF Entry, IsEntry, Shared, WorthSaving
  <2>3. new.ck = eng /\ new.id = clock + 1 /\ new.tok = consumed /\ new.img = consumed_img
    BY DEF Entry
  <2>4. Len(eng) > 0 /\ Len(consumed) > 0 /\ Len(eng) \in Nat
    BY DEF WorthSaving, Shared
  <2>5. eng # <<>> /\ consumed # <<>>
    BY <2>4
  <2>6. need \in Nat /\ Len(new.ck) <= need
    <3>1. Meta(last) \in {0, 1}
      BY DEF Meta
    <3>2. need \in Nat /\ Len(eng) <= need
      BY <2>4, <3>1
    <3> HIDE DEF new, need
    <3> QED BY <2>3, <3>2
  <2> QED BY <2>2, <2>3, <2>5, <2>6 DEF IsLive
<1> HIDE DEF same, rest, room, g, new, need, S
<1>5. ASSUME S = pool PROVE AfterSave(S, keep, held)
  BY <1>5, SomePooled, LikeSelf DEF AfterSave
<1>6. ASSUME S = rest PROVE AfterSave(S, keep, held)
  BY <1>2, <1>6, SomePooled, LikeSelf DEF AfterSave
<1>7. ASSUME S = room PROVE AfterSave(S, keep, held)
  <2>1. room \in SUBSET pool
    BY <1>2
  <2> QED BY <1>2, <1>7, <2>1, SomePooled, LikeSelf DEF AfterSave
<1>8. ASSUME S = (rest \ same) \cup {g[e] : e \in same} PROVE AfterSave(S, keep, held)
  <2>1. rest \ same \in SUBSET pool /\ same \in SUBSET pool /\ (rest \ same) \cap same = {}
    BY <1>2
  <2> DEFINE U == (rest \ same) \cup {g[e] : e \in same}
  <2>2. /\ Saved(U)
        /\ \A e \in U : \E h \in pool : Like(e, h)
        /\ \A h \in (rest \ same) \cup same : \E e \in U : Like(e, h)
        /\ Cardinality(Units(U)) <= Cardinality(Units(pool))
    BY <1>3, <2>1, TouchPooled
  <2> HIDE DEF U
  <2>3. \A h \in pool : h.id = keep => h \in (rest \ same) \cup same
    BY <1>2
  <2> QED BY <1>8, <2>2, <2>3 DEF U, AfterSave
<1>9. ASSUME WorthSaving /\ S = room \cup {new} /\ Fits(room, need, held) PROVE AfterSave(S, keep, held)
  <2>1. room \in SUBSET pool
    BY <1>2
  <2>2. new.id = clock + 1
    BY <1>4, <1>9 DEF IsLive
  <2>3. Saved(S) /\ Cardinality(Units(S)) + held <= PoolBudget
    BY <1>4, <1>9, <2>1, <2>2, AddPooled
  <2>4. \A e \in S : IsLive(e) \/ \E h \in pool : Like(e, h)
    BY <1>4, <1>9, <2>1, SomePooled
  <2>5. \A h \in pool : h.id = keep => \E e \in S : Like(e, h)
    BY <1>2, <1>9, LikeSelf
  <2> QED BY <2>3, <2>4, <2>5 DEF AfterSave
<1>10. AfterSave(S, keep, held)
  BY <1>1, <1>5, <1>6, <1>7, <1>8, <1>9
<1> QED BY <1>10 DEF S

\* pool_boundary_save(): the same of a checkpoint of the tokens fed so far.
FedImages(tok) == [i \in DOMAIN consumed_img \cap DOMAIN tok |-> consumed_img[i]]
IsBoundary(e, tok, after) ==
    e.id = clock + 1 /\ e.tok = tok /\ e.img = FedImages(tok) /\ e.ck = after /\ Len(after) = Len(tok)

AfterBoundary(S, tok, after) ==
    /\ Saved(S)
    /\ \A e \in S : IsBoundary(e, tok, after) \/ \E h \in pool : Like(e, h)
    /\ \/ Cardinality(Units(S)) <= Cardinality(Units(pool))
       \/ Cardinality(Units(S)) + ParkedBytes <= PoolBudget

LEMMA BoundaryTakes ==
    ASSUME Shared, Pooled, ParkedBytes \in Nat, NEW tok \in Seq(Tokens), Len(tok) < scene.ctx,
           NEW after \in Seq(Places), Len(after) < scene.ctx, NEW ok \in BOOLEAN
    PROVE  AfterBoundary(BoundarySave(tok, after, ok), tok, after)
<1> DEFINE need == Len(after)
           same == Same(pool, tok)
           rest == pool \ UpTo(Shorter(pool, tok), same)
           room == EvictTo(rest, need, 0, ParkedBytes)
           g == [e \in same |-> [e EXCEPT !.used = clock + 1]]
           new == [Entry(tok, FedImages(tok), NoReply, TRUE) EXCEPT !.ck = after]
           S == BoundarySave(tok, after, ok)
<1>1. \/ S = pool \/ S = room
      \/ S = (rest \ same) \cup {g[e] : e \in same}
      \/ Len(after) = Len(tok) /\ S = room \cup {new} /\ Fits(room, need, ParkedBytes)
  <2>1. {g[e] : e \in same} = {[e EXCEPT !.used = clock + 1] : e \in same}
    OBVIOUS
  <2> HIDE DEF g, new
  <2>2. \/ S = pool
        \/ S = (rest \ same) \cup {[e EXCEPT !.used = clock + 1] : e \in same}
        \/ S = room
        \/ Len(after) = Len(tok) /\ S = room \cup {new} /\ Fits(room, need, ParkedBytes)
    BY DEF BoundarySave, new, FedImages
  <2> QED BY <2>1, <2>2
<1>2. same \subseteq pool /\ rest \subseteq pool /\ room \subseteq rest
  <2> HIDE DEF rest
  <2>1. room \subseteq rest
    BY EvictKeeps
  <2> QED BY <2>1 DEF rest, Same
<1>3. \A e \in same : Touched(e, g[e])
  BY DEF Touched
<1>4. Len(after) = Len(tok) =>
        IsEntry(new, clock + 1) /\ IsBoundary(new, tok, after) /\ need \in Nat /\ Len(new.ck) <= need
  <2> HAVE Len(after) = Len(tok)
  <2>0. clock + 1 \in 1 .. clock + 1
    BY DEF Shared
  <2>1. NoReply \in ReplyState
    BY DEF NoReply, ReplyState, Words
  <2>2. FedImages(tok) \in [DOMAIN FedImages(tok) -> Image]
    BY DEF FedImages, Shared, IsPics
  <2>3. DOMAIN FedImages(tok) \subseteq 1 .. scene.ctx
    BY DEF FedImages, Shared, IsPics
  <2> DEFINE n == clock + 1
             img == FedImages(tok)
             old == Entry(tok, img, NoReply, TRUE)
             T == [id : 1 .. n, tok : Seq(Tokens), img : {img}, last : ReplyState,
                   ck : Seq(Places), used : 1 .. n, boundary : BOOLEAN]
  <2>4. old \in T /\ old.id = n /\ old.tok = tok /\ old.img = img
    <3> HIDE DEF img
    <3> QED BY <2>0, <2>1 DEF Entry, Shared
  <2> HIDE DEF old, img, n
  <2>5. [old EXCEPT !.ck = after] \in T
    BY <2>4
  <2>6. LET f == [old EXCEPT !.ck = after]
        IN  f.ck = after /\ f.id = n /\ f.tok = tok /\ f.img = img
    BY <2>4
  <2> DEFINE f == [old EXCEPT !.ck = after]
  <2>9. f \in T /\ f.ck = after /\ f.id = n /\ f.tok = tok /\ f.img = img
    BY <2>5, <2>6
  <2>10. f = new
    BY DEF old, img
  <2> HIDE DEF f, new, T
  <2>11. new \in T /\ new.ck = after /\ new.id = n /\ new.tok = tok /\ new.img = img
    BY <2>9, <2>10
  <2>7. IsEntry(new, clock + 1)
    BY <2>2, <2>3, <2>11 DEF IsEntry, IsPics, T, img, n
  <2>8. need \in Nat /\ Len(new.ck) <= need
    BY <2>11
  <2> QED BY <2>7, <2>8, <2>11 DEF IsBoundary, n, img
<1> HIDE DEF same, rest, room, g, new, need, S
<1>5. ASSUME S = pool PROVE AfterBoundary(S, tok, after)
  BY <1>5, SomePooled, LikeSelf DEF AfterBoundary
<1>6. ASSUME S = room PROVE AfterBoundary(S, tok, after)
  <2>1. room \in SUBSET pool
    BY <1>2
  <2> QED BY <1>2, <1>6, <2>1, SomePooled, LikeSelf DEF AfterBoundary
<1>7. ASSUME S = (rest \ same) \cup {g[e] : e \in same} PROVE AfterBoundary(S, tok, after)
  <2>1. rest \ same \in SUBSET pool /\ same \in SUBSET pool /\ (rest \ same) \cap same = {}
    BY <1>2
  <2> DEFINE U == (rest \ same) \cup {g[e] : e \in same}
  <2>2. /\ Saved(U)
        /\ \A e \in U : \E h \in pool : Like(e, h)
        /\ \A h \in (rest \ same) \cup same : \E e \in U : Like(e, h)
        /\ Cardinality(Units(U)) <= Cardinality(Units(pool))
    BY <1>3, <2>1, TouchPooled
  <2> HIDE DEF U
  <2> QED BY <1>7, <2>2 DEF U, AfterBoundary
<1>8. ASSUME Len(after) = Len(tok), S = room \cup {new}, Fits(room, need, ParkedBytes)
      PROVE  AfterBoundary(S, tok, after)
  <2>1. room \in SUBSET pool
    BY <1>2
  <2>2. new.id = clock + 1
    BY <1>4, <1>8 DEF IsBoundary
  <2>3. Saved(S) /\ Cardinality(Units(S)) + ParkedBytes <= PoolBudget
    BY <1>4, <1>8, <2>1, <2>2, AddPooled
  <2>4. \A e \in S : IsBoundary(e, tok, after) \/ \E h \in pool : Like(e, h)
    BY <1>4, <1>8, <2>1, SomePooled
  <2> QED BY <2>3, <2>4 DEF AfterBoundary
<1>9. AfterBoundary(S, tok, after)
  BY <1>1, <1>5, <1>6, <1>7, <1>8
<1> QED BY <1>9 DEF S

-----------------------------------------------------------------------------
\* What the steps change, for the types.
LEMMA PlacesHold ==
    ASSUME NEW s \in Seq(Places)
    PROVE  /\ DOMAIN s = 1 .. Len(s) /\ Len(s) \in Nat
           /\ \A i \in 1 .. Len(s) : s[i].tok \in Tokens /\ s[i].img \in Image \cup {NoImage}
<1>1. \A i \in 1 .. Len(s) : s[i] \in Places
  OBVIOUS
<1>2. \A p \in Places : p.tok \in Tokens /\ p.img \in Image \cup {NoImage}
  BY DEF Places
<1> QED BY <1>1, <1>2

LEMMA ToksType ==
    ASSUME NEW s \in Seq(Places)
    PROVE  /\ Toks(s) \in Seq(Tokens) /\ Len(Toks(s)) = Len(s)
           /\ \A i \in 1 .. Len(s) : Toks(s)[i] = s[i].tok
<1>1. DOMAIN s = 1 .. Len(s) /\ Len(s) \in Nat /\ \A i \in 1 .. Len(s) : s[i].tok \in Tokens
  BY PlacesHold
<1>2. Toks(s) = [i \in 1 .. Len(s) |-> s[i].tok]
  BY <1>1 DEF Toks
<1> QED BY <1>1, <1>2

LEMMA ImgsType ==
    ASSUME NEW s \in Seq(Places)
    PROVE  /\ Imgs(s) \in [DOMAIN Imgs(s) -> Image] /\ DOMAIN Imgs(s) \subseteq 1 .. Len(s)
           /\ \A i \in 1 .. Len(s) : Shows(Imgs(s), i, s[i].img)
<1>1. DOMAIN s = 1 .. Len(s) /\ \A i \in 1 .. Len(s) : s[i].img \in Image \cup {NoImage}
  BY PlacesHold
<1>2. DOMAIN Imgs(s) = {i \in 1 .. Len(s) : s[i].img # NoImage}
  BY <1>1 DEF Imgs
<1>3. \A i \in DOMAIN Imgs(s) : Imgs(s)[i] = s[i].img
  BY DEF Imgs
<1>4. \A i \in DOMAIN Imgs(s) : Imgs(s)[i] \in Image
  BY <1>1, <1>2, <1>3
<1>5. Imgs(s) = [i \in DOMAIN Imgs(s) |-> Imgs(s)[i]]
  BY DEF Imgs
<1> QED BY <1>2, <1>3, <1>4, <1>5 DEF Shows

LEMMA NoImgsEmpty == DOMAIN NoImgs = {} /\ IsPics(NoImgs)
<1>1. DOMAIN Imgs(<<>>) = {}
  BY DEF Imgs
<1> QED BY <1>1 DEF NoImgs, IsPics, Imgs

\* A reply that is forgotten.
LEMMA UnfiledType == \A L \in ReplyState : [L EXCEPT !.msgs = <<>>] \in ReplyState
<1> SUFFICES ASSUME NEW L \in ReplyState PROVE [L EXCEPT !.msgs = <<>>] \in ReplyState
  OBVIOUS
<1>1. <<>> \in Seq(Message)
  OBVIOUS
<1> QED BY <1>1 DEF ReplyState

LEMMA ProgressSame ==
    ASSUME NEW q \in Request, scene' = scene, Progress(q),
           prompt'[q] = prompt[q], fed'[q] = fed[q], hist'[q] = hist[q]
    PROVE  Progress(q)'
BY DEF Progress, Room

\* The prompt's remaining images, with what was there.
LEMMA WithRestType ==
    ASSUME NEW P \in Prompts, NEW n \in Nat, NEW f, IsPics(f), Len(P.seq) < scene.ctx,
           scene.ctx \in Nat
    PROVE  LET rest == {i \in DOMAIN Imgs(P.seq) : i > n}
               g == WithRest(f, P, n)
           IN  /\ IsPics(g)
               /\ DOMAIN g = rest \cup DOMAIN f
               /\ \A i \in DOMAIN g : g[i] = IF i \in rest THEN P.seq[i].img ELSE f[i]
<1> DEFINE rest == {i \in DOMAIN Imgs(P.seq) : i > n}
           g == WithRest(f, P, n)
<1>0. P.seq \in Seq(Places) /\ Len(P.seq) \in Nat
  BY DEF Prompts
<1>1. rest \subseteq 1 .. Len(P.seq) /\ \A i \in rest : P.seq[i].img \in Image
  <2>1. \A i \in DOMAIN Imgs(P.seq) : i \in 1 .. Len(P.seq) /\ Imgs(P.seq)[i] \in Image
                                      /\ P.seq[i].img = Imgs(P.seq)[i]
    BY <1>0, ImgsType DEF Imgs
  <2> QED BY <2>1
<1>2. g = [i \in rest \cup DOMAIN f |-> IF i \in rest THEN P.seq[i].img ELSE f[i]]
  BY DEF WithRest
<1> HIDE DEF rest, g
<1>3. \A i \in DOMAIN g : g[i] = IF i \in rest THEN P.seq[i].img ELSE f[i]
  BY <1>2
<1>4. \A i \in DOMAIN g : g[i] \in Image
  BY <1>1, <1>2, <1>3 DEF IsPics
<1>5. DOMAIN g \subseteq 1 .. scene.ctx /\ DOMAIN g = rest \cup DOMAIN f
  BY <1>0, <1>1, <1>2 DEF IsPics
<1>6. IsPics(g)
  BY <1>2, <1>4, <1>5 DEF IsPics
<1> QED BY <1>3, <1>5, <1>6 DEF rest, g

LEMMA PrepareTypes ==
    ASSUME TInv, scene' = scene, NEW r \in Request, owner = None, st[r] = "new", clock' \in Nat,
           ticket' = ticket, heard' = heard, NEW m \in Seq(Message), msgs' = [msgs EXCEPT ![r] = m],
           NEW P \in Prompts, NEW e \in Seq(Places), NEW tok \in Seq(Tokens),
           Len(e) = Len(tok), Len(tok) <= Len(P.seq), Len(tok) < scene.ctx,
           NEW img, IsPics(img), NEW emb, IsPics(emb), NEW L \in ReplyState,
           Prepare(r, P, e, tok, img, emb, L)
    PROVE  Shared' /\ Kept' /\ Lengths'
<1> DEFINE fits == InContext(P)
<1>0. /\ scene.ctx \in Nat /\ epoch \in Nat /\ None \notin Request
      /\ P.seq \in Seq(Places) /\ Len(P.seq) \in Nat /\ Len(tok) \in Nat
  BY Settings, RequestsFinite DEF TInv, Shared, Prompts
<1>1. /\ eng' = e /\ consumed' = tok
      /\ ov' = IF fits THEN WithRest(emb, P, Len(tok)) ELSE emb
      /\ consumed_img' = IF fits THEN WithRest(img, P, Len(tok)) ELSE img
      /\ last' = IF fits THEN L ELSE [L EXCEPT !.msgs = <<>>]
      /\ owner' = IF fits THEN r ELSE None
      /\ st' = [st EXCEPT ![r] = IF fits THEN "pass" ELSE "done"]
      /\ hist' = [hist EXCEPT ![r] = Toks(P.seq)]
      /\ fed' = [fed EXCEPT ![r] = Len(tok)]
      /\ prompt' = [prompt EXCEPT ![r] = P]
      /\ epoch' = epoch + 1
  BY DEF Prepare
<1>2. fits <=> Len(P.seq) < scene.ctx
  BY DEF InContext
<1> HIDE DEF fits
<1>3. IsPics(ov') /\ IsPics(consumed_img')
  BY <1>0, <1>1, <1>2, WithRestType
<1>4. last' \in ReplyState
  BY <1>1, UnfiledType
<1>5. Shared'
  BY <1>0, <1>1, <1>3, <1>4 DEF TInv, Shared, IsPics
<1>6. Toks(P.seq) \in Seq(Tokens) /\ Len(Toks(P.seq)) = Len(P.seq)
  BY <1>0, ToksType
<1>7. Kept'
  <2>1. /\ st' \in [Request -> {"new", "pass", "yield", "parked", "done"}]
        /\ owner' \in Request \cup {None}
        /\ msgs' \in [Request -> Seq(Message)]
        /\ prompt' \in [Request -> Prompts]
        /\ hist' \in [Request -> Seq(Tokens)]
        /\ fed' \in [Request -> 0 .. scene.ctx]
    BY <1>0, <1>1, <1>6 DEF TInv, Kept
  <2>2. \A q \in Request : owner' = q <=> st'[q] \in {"pass", "yield"}
    BY <1>0, <1>1 DEF TInv, Kept
  <2>3. \A q \in Request : ticket'[q].ck # <<>> <=> st'[q] = "parked"
    BY <1>1 DEF TInv, Kept
  <2>4. \A q \in Request : st'[q] = "yield" => fed'[q] > 0
    BY <1>1 DEF TInv, Kept
  <2>5. \A q \in Request : IsTicket(ticket[q])'
    BY DEF TInv, Kept, IsTicket, IsPics
  <2>6. ticket' = [q \in Request |-> ticket'[q]]
    BY DEF TInv, Kept
  <2> QED BY <2>1, <2>2, <2>3, <2>4, <2>5, <2>6 DEF Kept
<1>8. Lengths'
  <2>1. ASSUME NEW q \in Request, st'[q] \in {"pass", "yield"}
        PROVE  Progress(q)' /\ Len(eng') <= fed'[q]
    <3>1. q = r /\ fits
      BY <1>0, <1>1, <2>1 DEF TInv, Kept
    <3>2. prompt'[r] = P /\ hist'[r] = Toks(P.seq) /\ fed'[r] = Len(tok) /\ eng' = e
      BY <1>1 DEF TInv, Kept
    <3> QED BY <1>0, <1>2, <1>6, <3>1, <3>2 DEF Progress
  <2>2. ASSUME NEW q \in Request, st'[q] = "parked"
        PROVE  /\ Progress(q)' /\ Len(ticket'[q].ck) <= fed'[q]
               /\ ticket'[q].epoch < epoch'
    <3>1. q # r /\ st[q] = "parked" /\ ticket[q].epoch \in Nat
      BY <1>1, <2>2 DEF TInv, Kept, IsTicket
    <3>2. /\ Progress(q) /\ Len(ticket[q].ck) <= fed[q] /\ ticket[q].epoch <= epoch
      BY <3>1 DEF TInv, Lengths
    <3>3. prompt'[q] = prompt[q] /\ fed'[q] = fed[q] /\ hist'[q] = hist[q]
      BY <1>1, <3>1 DEF TInv, Kept
    <3>4. Progress(q)'
      BY <3>2, <3>3, ProgressSame
    <3> QED BY <1>0, <1>1, <3>1, <3>2, <3>3, <3>4
  <2>3. \A q \in Request : st'[q] = "parked" => ticket'[q].epoch \in Nat /\ epoch' \in Nat
    BY <1>0, <1>1, SMTT(30) DEF TInv, Kept, IsTicket
  <2>4. \A q \in Request : st'[q] = "parked" => ticket'[q].epoch <= epoch' /\ ticket'[q].epoch # epoch'
    BY <2>2, <2>3
  <2>5. owner' = None /\ consumed' # <<>> => Len(eng') = Len(consumed')
    BY <1>1
  <2> QED BY <2>1, <2>2, <2>4, <2>5 DEF Lengths
<1> QED BY <1>5, <1>7, <1>8

\* What the parked checkpoints take, a request's apart.
Stored(T, S) == UNION {{q} \X DOMAIN T[q].ck : q \in S}

LEMMA StoredFinite ==
    ASSUME NEW T, NEW S, IsFiniteSet(S), \A q \in S : T[q].ck \in Seq(Places)
    PROVE  IsFiniteSet(Stored(T, S)) /\ Cardinality(Stored(T, S)) \in Nat
<1> DEFINE U(q) == {q} \X DOMAIN T[q].ck
           f == [q \in S |-> U(q)]
<1>1. ASSUME NEW q \in S PROVE IsFiniteSet(U(q))
  <2>1. DOMAIN T[q].ck = 1 .. Len(T[q].ck) /\ Len(T[q].ck) \in Nat
    OBVIOUS
  <2>2. IsFiniteSet(DOMAIN T[q].ck)
    <3>1. IsFiniteSet(1 .. Len(T[q].ck))
      BY <2>1, FS_Interval
    <3> QED BY <2>1, <3>1
  <2>3. IsFiniteSet({q})
    BY FS_Singleton
  <2> QED BY <2>2, <2>3, FS_Product
<1>2. IsFiniteSet({U(q) : q \in S})
  <2> HIDE DEF U
  <2>1. f \in Surjection(S, {U(q) : q \in S})
    BY DEF Surjection
  <2> QED BY <2>1, FS_Surjection
<1>3. IsFiniteSet(UNION {U(q) : q \in S})
  <2> HIDE DEF U
  <2>1. \A X \in {U(q) : q \in S} : IsFiniteSet(X)
    BY <1>1
  <2> QED BY <1>2, <2>1, FS_UNION
<1>4. IsFiniteSet(Stored(T, S))
  BY <1>3 DEF Stored
<1> QED BY <1>4, FS_CardinalityType

LEMMA StoredApart ==
    ASSUME NEW T, NEW S, IsFiniteSet(S), \A q \in S : T[q].ck \in Seq(Places), NEW r \in S
    PROVE  Cardinality(Stored(T, S)) = Cardinality(Stored(T, S \ {r})) + Len(T[r].ck)
<1> DEFINE U == {r} \X DOMAIN T[r].ck
           R == Stored(T, S \ {r})
<1>1. Stored(T, S) = R \cup U /\ R \cap U = {}
  BY DEF Stored
<1>2. DOMAIN T[r].ck = 1 .. Len(T[r].ck) /\ Len(T[r].ck) \in Nat
  OBVIOUS
<1>3. IsFiniteSet(DOMAIN T[r].ck) /\ Cardinality(DOMAIN T[r].ck) = Len(T[r].ck)
  <2>1. IsFiniteSet(1 .. Len(T[r].ck)) /\ Cardinality(1 .. Len(T[r].ck)) = Len(T[r].ck)
    BY <1>2, FS_Interval
  <2> QED BY <1>2, <2>1
<1>4. IsFiniteSet({r}) /\ Cardinality({r}) = 1
  BY FS_Singleton
<1>5. IsFiniteSet(U) /\ Cardinality(U) = Len(T[r].ck)
  <2>1. IsFiniteSet(U) /\ Cardinality(U) = Cardinality({r}) * Cardinality(DOMAIN T[r].ck)
    BY <1>3, <1>4, FS_Product
  <2> QED BY <1>2, <1>3, <1>4, <2>1
<1>6. IsFiniteSet(R) /\ Cardinality(R) \in Nat
  <2>1. IsFiniteSet(S \ {r})
    BY FS_Subset
  <2> QED BY <2>1, StoredFinite
<1>7. Cardinality(R \cup U) = Cardinality(R) + Cardinality(U)
  <2> HIDE DEF U, R
  <2>1. Cardinality(R \cup U) = Cardinality(R) + Cardinality(U) - Cardinality(R \cap U)
    BY <1>5, <1>6, FS_Union
  <2>2. Cardinality(R \cap U) = 0
    BY <1>1, FS_EmptySet
  <2> QED BY <1>2, <1>5, <1>6, <2>1, <2>2
<1> HIDE DEF U, R
<1>8. Cardinality(Stored(T, S)) = Cardinality(R) + Len(T[r].ck)
  BY <1>1, <1>5, <1>7
<1> QED BY <1>8 DEF R

LEMMA ParkedIsStored == ParkedBytes = Cardinality(Stored(ticket, Request))
BY DEF ParkedBytes, Stored

LEMMA TicketsHold ==
    ASSUME Kept
    PROVE  /\ \A r \in Request : ticket[r].ck \in Seq(Places) /\ Len(ticket[r].ck) \in Nat
           /\ ParkedBytes \in Nat
           /\ \A r \in Request : ParkedBytes - Len(ticket[r].ck) \in Nat
<1>1. \A r \in Request : ticket[r].ck \in Seq(Places) /\ Len(ticket[r].ck) \in Nat
  BY DEF Kept, IsTicket
<1>2. ParkedBytes \in Nat
  BY <1>1, StoredFinite, ParkedIsStored, RequestsFinite
<1>3. ASSUME NEW r \in Request PROVE ParkedBytes - Len(ticket[r].ck) \in Nat
  <2>1. Cardinality(Stored(ticket, Request))
          = Cardinality(Stored(ticket, Request \ {r})) + Len(ticket[r].ck)
    BY <1>1, StoredApart, RequestsFinite
  <2>2. IsFiniteSet(Request \ {r})
    BY FS_Subset, RequestsFinite
  <2>3. Cardinality(Stored(ticket, Request \ {r})) \in Nat
    BY <1>1, <2>2, StoredFinite
  <2> QED BY <1>1, <2>1, <2>3, ParkedIsStored
<1> QED BY <1>1, <1>2, <1>3

\* Only r's ticket changes: what is parked changes by its checkpoint.
LEMMA ParkedChanges ==
    ASSUME Kept, Kept', NEW r \in Request,
           \A q \in Request \ {r} : ticket'[q].ck = ticket[q].ck
    PROVE  ParkedBytes' - Len(ticket'[r].ck) = ParkedBytes - Len(ticket[r].ck)
<1>1. \A q \in Request : /\ ticket[q].ck \in Seq(Places) /\ Len(ticket[q].ck) \in Nat
                         /\ ticket'[q].ck \in Seq(Places) /\ Len(ticket'[q].ck) \in Nat
  <2>1. \A q \in Request : IsTicket(ticket[q])'
    BY DEF Kept
  <2>2. \A q \in Request : ticket'[q].ck \in Seq(Places)
    BY <2>1 DEF IsTicket
  <2> QED BY <2>2, TicketsHold
<1>2. Cardinality(Stored(ticket, Request))
        = Cardinality(Stored(ticket, Request \ {r})) + Len(ticket[r].ck)
  BY <1>1, StoredApart, RequestsFinite
<1>3. Cardinality(Stored(ticket', Request))
        = Cardinality(Stored(ticket', Request \ {r})) + Len(ticket'[r].ck)
  BY <1>1, StoredApart, RequestsFinite
<1>4. Stored(ticket', Request \ {r}) = Stored(ticket, Request \ {r})
  BY DEF Stored
<1>5. ParkedBytes' = Cardinality(Stored(ticket', Request))
  BY DEF ParkedBytes, Stored
<1>6. IsFiniteSet(Request \ {r})
  BY FS_Subset, RequestsFinite
<1>7. Cardinality(Stored(ticket, Request \ {r})) \in Nat
  BY <1>1, <1>6, StoredFinite
<1> QED BY <1>1, <1>2, <1>3, <1>4, <1>5, <1>7, ParkedIsStored

-----------------------------------------------------------------------------
\* The types and the budget, action by action.
LEMMA PooledAgain ==
    ASSUME Shared, Pooled, scene' = scene, clock' \in Nat, clock' >= clock, pool' \subseteq pool
    PROVE  Pooled'
<1>1. \A e \in pool' : IsEntry(e, clock')
  BY EntryLater DEF Shared, Pooled
<1>2. \A e \in pool' : IsEntry(e, clock)'
  BY <1>1 DEF IsEntry, IsPics
<1>3. IsFiniteSet(pool')
  BY FS_Subset DEF Pooled
<1> QED BY <1>2, <1>3 DEF Pooled

LEMMA PooledSaved ==
    ASSUME Shared, scene' = scene, Saved(pool'), clock' = clock + 1
    PROVE  Pooled'
<1>1. \A e \in pool' : IsEntry(e, clock)'
  BY DEF Saved, IsEntry, IsPics
<1> QED BY <1>1 DEF Saved, Pooled

LEMMA UnitsOfPool ==
    ASSUME Pooled
    PROVE  Cardinality(Units(pool)) \in Nat
BY UnitsFinite DEF Pooled, IsEntry

LEMMA ParkedNext == ASSUME Kept' PROVE ParkedBytes' \in Nat
<1>1. ParkedBytes' = Cardinality(Stored(ticket', Request))
  BY DEF ParkedBytes, Stored
<1>2. \A q \in Request : IsTicket(ticket[q])'
  BY DEF Kept
<1>3. \A q \in Request : ticket'[q].ck \in Seq(Places)
  BY <1>2 DEF IsTicket
<1>4. Cardinality(Stored(ticket', Request)) \in Nat
  BY <1>3, StoredFinite, RequestsFinite
<1> QED BY <1>1, <1>4

\* The budget, where the parked checkpoints stay or go.
LEMMA BudgetKept ==
    ASSUME Pooled, Pooled', Kept, Kept', WithinBudget, NEW held \in Nat,
           ParkedBytes' <= held, held <= ParkedBytes,
           \/ Cardinality(Units(pool')) <= Cardinality(Units(pool))
           \/ Cardinality(Units(pool')) + held <= PoolBudget
    PROVE  WithinBudget'
<1>1. Cardinality(Units(pool)) \in Nat /\ Cardinality(Units(pool')) \in Nat
  <2>1. Cardinality(Units(pool))' \in Nat
    BY UnitsFinite DEF Pooled, IsEntry
  <2> QED BY <2>1, UnitsOfPool
<1>2. ParkedBytes \in Nat /\ ParkedBytes' \in Nat
  BY TicketsHold, ParkedNext
<1> QED BY <1>1, <1>2, Sizes DEF WithinBudget

LEMMA SameParked == ASSUME ticket' = ticket PROVE ParkedBytes' = ParkedBytes
BY DEF ParkedBytes

\* pool_switch(): the hit survives the save, as it was.
LEMMA HitSurvives ==
    ASSUME Shared, Pooled, ParkedBytes \in Nat, NEW P \in Prompts, Hits(P) # {}, NEW ok \in BOOLEAN
    PROVE  LET hit == Longest(Hits(P))
               saved == Save(hit.id, ParkedBytes, ok)
               kept == CHOOSE e \in saved : e.id = hit.id
           IN  /\ hit \in Hits(P) /\ AfterSave(saved, hit.id, ParkedBytes)
               /\ kept \in saved /\ Like(kept, hit)
<1> DEFINE hit == Longest(Hits(P))
           saved == Save(hit.id, ParkedBytes, ok)
           kept == CHOOSE e \in saved : e.id = hit.id
<1>1. hit \in Hits(P) /\ hit \in pool
  <2>1. Hits(P) \subseteq pool
    BY DEF Hits
  <2>2. \A e \in Hits(P) : IsEntry(e, clock)
    BY <2>1 DEF Pooled
  <2>3. clock \in Nat
    BY DEF Shared
  <2> QED BY <2>1, <2>2, <2>3, LongestExists
<1>2. AfterSave(saved, hit.id, ParkedBytes)
  BY SaveTakes
<1> HIDE DEF saved, hit
<1>3. PICK e \in saved : Like(e, hit)
  BY <1>1, <1>2 DEF AfterSave
<1>4. kept \in saved /\ kept.id = hit.id
  BY <1>3 DEF Like
<1>5. kept = e
  BY <1>2, <1>3, <1>4 DEF AfterSave, Saved, Like
<1> QED BY <1>1, <1>2, <1>3, <1>4, <1>5 DEF saved, hit

\* The entry that was restored is the last used.
LEMMA RestoredPool ==
    ASSUME Shared, Pooled, NEW S, NEW keep, NEW held \in Nat, AfterSave(S, keep, held),
           NEW k \in S, NEW T, T = (S \ {k}) \cup {[k EXCEPT !.used = clock + 2]}
    PROVE  /\ IsFiniteSet(T)
           /\ \A e \in T : IsEntry(e, clock + 2)
           /\ \A e, f \in T : e.id = f.id => e = f
           /\ \A e \in T : IsLive(e) \/ \E h \in pool : Like(e, h)
           /\ \/ Cardinality(Units(T)) <= Cardinality(Units(pool))
              \/ Cardinality(Units(T)) + held <= PoolBudget
<1> DEFINE n == clock + 2
           f == [k EXCEPT !.used = n]
<1>0. clock + 1 \in Nat /\ n \in Nat /\ n \in 1 .. n /\ clock + 1 <= n
  BY DEF Shared
<1>1. \A e \in S : IsEntry(e, n)
  BY <1>0, EntryLater DEF AfterSave, Saved
<1>2. IsEntry(f, n) /\ Like(f, k)
  <2> HIDE DEF n
  <2>1. last \in ReplyState
    BY DEF Shared
  <2> QED BY <1>0, <1>1, <2>1, EntryUsed
<1> HIDE DEF n, f
<1>3. T = (S \ {k}) \cup {f}
  BY DEF f, n
<1>4. IsFiniteSet(T)
  <2>1. IsFiniteSet(S \ {k})
    BY FS_Subset DEF AfterSave, Saved
  <2>2. IsFiniteSet((S \ {k}) \cup {f})
    BY <2>1, FS_AddElement
  <2> QED BY <1>3, <2>2
<1>5. \A e \in T : IsEntry(e, n)
  BY <1>1, <1>2, <1>3
<1>6. \A e, g \in T : e.id = g.id => e = g
  <2>1. f.id = k.id
    BY <1>2 DEF Like
  <2> QED BY <1>3, <2>1 DEF AfterSave, Saved
<1>7. \A e \in T : \E h \in S : Like(e, h)
  BY <1>2, <1>3, LikeSelf
<1>8. \A e \in T : IsLive(e) \/ \E h \in pool : Like(e, h)
  <2>1. \A e \in S : IsLive(e) \/ \E h \in pool : Like(e, h)
    BY DEF AfterSave
  <2> QED BY <1>7, <2>1 DEF IsLive, Like
<1>9. Cardinality(Units(T)) <= Cardinality(Units(S))
  <2>1. IsFiniteSet(S) /\ \A e \in S : e.ck \in Seq(Places)
    BY DEF AfterSave, Saved, IsEntry
  <2> QED BY <1>7, <2>1, UnitsWithin
<1>10. /\ Cardinality(Units(T)) \in Nat /\ Cardinality(Units(S)) \in Nat
       /\ Cardinality(Units(pool)) \in Nat
  <2>1. \A e \in T : e.ck \in Seq(Places)
    BY <1>5 DEF IsEntry
  <2>2. IsFiniteSet(S) /\ \A e \in S : e.ck \in Seq(Places)
    BY DEF AfterSave, Saved, IsEntry
  <2> QED BY <1>4, <2>1, <2>2, UnitsFinite, UnitsOfPool
<1>11. \/ Cardinality(Units(T)) <= Cardinality(Units(pool))
       \/ Cardinality(Units(T)) + held <= PoolBudget
  BY <1>9, <1>10, Sizes DEF AfterSave
<1> QED BY <1>4, <1>5, <1>6, <1>8, <1>11 DEF n

\* What BuildPrompt and the completions make.
LEMMA BeginPrompt ==
    ASSUME TInv, NEW m \in Messages \cup Completion, NEW t \in Text
    PROVE  /\ m \in Seq(Message)
           /\ (IF m = <<>> THEN RawPrompt(t) ELSE BuildPrompt(m)) \in Prompts
           /\ Len((IF m = <<>> THEN RawPrompt(t) ELSE BuildPrompt(m)).seq) > 0
<1>1. m \in Seq(Message)
  <2>1. m \in Messages \/ m = <<>>
    BY DEF Completion
  <2>2. <<>> \in Seq(Message)
    OBVIOUS
  <2> QED BY <2>1, <2>2, MessagesType DEF TInv
<1> QED BY <1>1, RawPromptType, BuildPromptType DEF TInv

\* Types and budget together.
BInv == TInv /\ WithinBudget

LEMMA BeginTypes ==
    ASSUME BInv, scene' = scene, NEW r \in Request, Begin(r)
    PROVE  BInv'
<1>0. /\ Shared /\ Pooled /\ Kept /\ Lengths /\ TInv /\ WithinBudget
      /\ ParkedBytes \in Nat /\ clock \in Nat
      /\ scene.ctx \in Nat \ {0}
  BY TicketsHold, Settings DEF BInv, TInv, Shared
<1>1. /\ owner = None /\ st[r] = "new" /\ ticket' = ticket /\ heard' = heard
  BY DEF Begin
<1>2. PICK ok \in Outcomes, m \in Messages \cup Completion, t \in Text :
        LET P == IF m = <<>> THEN RawPrompt(t) ELSE BuildPrompt(m)
        IN  /\ Extend(r, P) \/ Switch(r, P, ok) \/ Restart(r, P, ok)
            /\ msgs' = [msgs EXCEPT ![r] = m]
  BY DEF Begin
<1> DEFINE P == IF m = <<>> THEN RawPrompt(t) ELSE BuildPrompt(m)
<1>3. m \in Seq(Message) /\ P \in Prompts /\ ok \in BOOLEAN
  BY <1>0, <1>2, BeginPrompt DEF Outcomes
<1>4. /\ Extend(r, P) \/ Switch(r, P, ok) \/ Restart(r, P, ok)
      /\ msgs' = [msgs EXCEPT ![r] = m]
  BY <1>2
<1> HIDE DEF P
<1>5. ParkedBytes' = ParkedBytes
  BY <1>1, SameParked
<1>6. P.seq \in Seq(Places) /\ Len(P.seq) \in Nat
  BY <1>3 DEF Prompts
<1>7. CASE Extend(r, P)
  <2>1. /\ Prepare(r, P, eng, consumed, consumed_img, ov, last)
        /\ pool' = pool /\ clock' = clock /\ consumed # <<>> /\ Len(P.seq) > Len(consumed)
    BY <1>7 DEF Extend, Reuses
  <2>2. /\ eng \in Seq(Places) /\ consumed \in Seq(Tokens) /\ Len(eng) = Len(consumed)
        /\ Len(consumed) < scene.ctx /\ IsPics(consumed_img) /\ IsPics(ov) /\ last \in ReplyState
    BY <1>0, <1>1, <2>1 DEF Shared, Lengths
  <2>3. Len(consumed) <= Len(P.seq)
    BY <1>6, <2>1, <2>2
  <2>4. Shared' /\ Kept' /\ Lengths'
    BY <1>0, <1>1, <1>3, <1>4, <2>1, <2>2, <2>3, PrepareTypes
  <2>5. Pooled'
    BY <1>0, <2>1, PooledAgain
  <2>6. WithinBudget'
    BY <1>0, <1>5, <2>1 DEF WithinBudget
  <2> QED BY <2>4, <2>5, <2>6 DEF BInv, TInv
<1>8. CASE Switch(r, P, ok)
  <2> DEFINE hit == Longest(Hits(P))
             saved == Save(hit.id, ParkedBytes, ok)
             kept == CHOOSE e \in saved : e.id = hit.id
  <2>1. /\ Hits(P) # {}
        /\ Prepare(r, P, kept.ck, kept.tok, kept.img, NoImgs, kept.last)
        /\ pool' = (saved \ {kept}) \cup {[kept EXCEPT !.used = clock + 2]}
        /\ clock' = clock + 2
    BY <1>8 DEF Switch
  <2>2. /\ hit \in Hits(P) /\ AfterSave(saved, hit.id, ParkedBytes)
        /\ kept \in saved /\ Like(kept, hit)
    BY <1>0, <1>3, <2>1, HitSurvives
  <2> HIDE DEF saved, hit, kept
  <2>3. IsEntry(kept, clock + 1) /\ kept.tok = hit.tok
    BY <2>2 DEF AfterSave, Saved, Like
  <2>4. /\ kept.ck \in Seq(Places) /\ kept.tok \in Seq(Tokens) /\ kept.last \in ReplyState
        /\ IsPics(kept.img) /\ Len(kept.tok) < scene.ctx /\ Len(kept.ck) = Len(kept.tok)
    BY <2>3 DEF IsEntry
  <2>5. Len(kept.tok) < Len(P.seq)
    BY <2>2, <2>3 DEF Hits
  <2>6. Len(kept.tok) <= Len(P.seq)
    BY <1>6, <2>4, <2>5
  <2>7. clock' \in Nat
    BY <1>0, <2>1
  <2>8. Shared' /\ Kept' /\ Lengths'
    BY <1>0, <1>1, <1>3, <1>4, <2>1, <2>4, <2>6, <2>7, NoImgsEmpty, PrepareTypes
  <2>9. /\ IsFiniteSet(pool')
        /\ \A e \in pool' : IsEntry(e, clock + 2)
        /\ \A e, f \in pool' : e.id = f.id => e = f
        /\ \/ Cardinality(Units(pool')) <= Cardinality(Units(pool))
           \/ Cardinality(Units(pool')) + ParkedBytes <= PoolBudget
    BY <1>0, <2>1, <2>2, RestoredPool
  <2>10. Pooled'
    <3>1. \A e \in pool' : IsEntry(e, clock)'
      BY <2>1, <2>9 DEF IsEntry, IsPics
    <3> QED BY <2>9, <3>1 DEF Pooled
  <2>11. WithinBudget'
    BY <1>0, <1>5, <2>8, <2>9, <2>10, BudgetKept
  <2> QED BY <2>8, <2>10, <2>11 DEF BInv, TInv
<1>9. CASE Restart(r, P, ok)
  <2>1. /\ Prepare(r, P, <<>>, <<>>, NoImgs, NoImgs, last) /\ clock' = clock + 1
        /\ \/ \E keep : pool' = Save(keep, ParkedBytes, ok)
           \/ pool' = pool
    BY <1>9 DEF Restart
  <2>2. /\ <<>> \in Seq(Places) /\ <<>> \in Seq(Tokens) /\ Len(<<>>) = 0 /\ last \in ReplyState
        /\ clock' \in Nat /\ 0 < scene.ctx /\ 0 <= Len(P.seq)
    BY <1>0, <1>6, <2>1 DEF Shared
  <2>3. Shared' /\ Kept' /\ Lengths'
    BY <1>0, <1>1, <1>3, <1>4, <2>1, <2>2, NoImgsEmpty, PrepareTypes
  <2>4. Pooled' /\ WithinBudget'
    <3>1. CASE \E keep : pool' = Save(keep, ParkedBytes, ok)
      <4>1. PICK keep : pool' = Save(keep, ParkedBytes, ok)
        BY <3>1
      <4>2. AfterSave(pool', keep, ParkedBytes)
        BY <1>0, <1>3, <4>1, SaveTakes
      <4>3. Pooled'
        BY <1>0, <2>1, <4>2, PooledSaved DEF AfterSave
      <4>4. WithinBudget'
        BY <1>0, <1>5, <2>3, <4>2, <4>3, BudgetKept DEF AfterSave
      <4> QED BY <4>3, <4>4
    <3>2. CASE pool' = pool
      <4>1. clock' \in Nat /\ clock' >= clock
        BY <1>0, <2>1
      <4> QED BY <1>0, <1>5, <3>2, <4>1, PooledAgain DEF WithinBudget
    <3> QED BY <2>1, <3>1, <3>2
  <2> QED BY <2>3, <2>4 DEF BInv, TInv
<1> QED BY <1>4, <1>7, <1>8, <1>9

\* eval() appends the next tokens and their images.
LEMMA EvalType ==
    ASSUME Shared, Kept, NEW r \in Request, NEW n \in Nat, fed[r] + n <= Len(hist[r])
    PROVE  LET s == Eval(r, n)
           IN  /\ s \in Seq(Places) /\ Len(s) = Len(eng) + n
               /\ \A i \in 1 .. Len(eng) : s[i] = eng[i]
               /\ \A i \in Len(eng) + 1 .. Len(eng) + n :
                    /\ s[i].tok = hist[r][fed[r] + i - Len(eng)]
                    /\ s[i].img = IF i \in DOMAIN ov THEN ov[i] ELSE NoImage
<1> DEFINE N == Len(eng)
           A(i) == At(hist[r][fed[r] + i], IF N + i \in DOMAIN ov THEN ov[N + i] ELSE NoImage)
           new == [i \in 1 .. n |-> A(i)]
           s == eng \o new
<1>1. /\ eng \in Seq(Places) /\ N \in Nat /\ fed[r] \in Nat
      /\ hist[r] \in Seq(Tokens) /\ Len(hist[r]) \in Nat
  BY Settings DEF Shared, Kept
<1>2. ASSUME NEW i \in 1 .. n PROVE A(i) \in Places
  <2>1. fed[r] + i \in 1 .. Len(hist[r])
    BY <1>1
  <2>2. hist[r][fed[r] + i] \in Tokens
    BY <1>1, <2>1
  <2>3. (IF N + i \in DOMAIN ov THEN ov[N + i] ELSE NoImage) \in Image \cup {NoImage}
    BY DEF Shared, IsPics
  <2> QED BY <2>2, <2>3 DEF At, Places
<1>3. new \in Seq(Places) /\ Len(new) = n
  <2> HIDE DEF A
  <2> QED BY <1>2
<1>4. s \in Seq(Places) /\ Len(s) = N + n
  <2> HIDE DEF new, N
  <2> QED BY <1>1, <1>3 DEF N
<1>5. /\ \A i \in 1 .. N : s[i] = eng[i]
      /\ \A i \in N + 1 .. N + n : s[i] = new[i - N]
  <2> HIDE DEF new
  <2> QED BY <1>1, <1>3
<1>6. ASSUME NEW i \in N + 1 .. N + n
      PROVE  /\ s[i].tok = hist[r][fed[r] + i - N]
             /\ s[i].img = IF i \in DOMAIN ov THEN ov[i] ELSE NoImage
  <2>1. i - N \in 1 .. n /\ N + (i - N) = i /\ fed[r] + (i - N) = fed[r] + i - N
    BY <1>1
  <2>2. s[i] = A(i - N)
    BY <1>5, <2>1
  <2> QED BY <2>1, <2>2 DEF At
<1>7. Eval(r, n) = s
  BY DEF Eval
<1> HIDE DEF s
<1> QED BY <1>4, <1>5, <1>6, <1>7

LEMMA MinWithin ==
    ASSUME NEW S \in SUBSET Nat, S # {}
    PROVE  Min(S) \in S
BY LeastNat DEF Min

\* What the model says is a word.
LEMMA RepliesType ==
    ASSUME NEW s \in Seq(Places), NEW t \in Replies(s)
    PROVE  t \in Words
<1>1. CASE t \in ReplyText
  BY <1>1 DEF Words
<1>2. CASE DOMAIN Imgs(s) # {} /\ t = s[Min(DOMAIN Imgs(s))].img
  <2>1. DOMAIN Imgs(s) \subseteq 1 .. Len(s) /\ Len(s) \in Nat
    BY ImgsType
  <2>2. Min(DOMAIN Imgs(s)) \in 1 .. Len(s)
    BY <1>2, <2>1, MinWithin
  <2>3. t \in Image \cup {NoImage}
    BY <1>2, <2>2, PlacesHold
  <2> QED BY <2>3 DEF Words
<1> QED BY <1>1, <1>2 DEF Replies

\* A prefill pass takes some of the prompt's tokens and no more.
LEMMA TakeType ==
    ASSUME Shared, Kept, NEW r \in Request, Progress(r), InPrefill(r)
    PROVE  /\ Take(r) \in Nat /\ Take(r) > 0
           /\ fed[r] \in Nat /\ fed[r] + Take(r) <= Len(prompt[r].seq)
           /\ Len(hist[r]) = Len(prompt[r].seq) /\ Len(prompt[r].seq) \in Nat
           /\ fed[r] + Take(r) \in Nat
<1> DEFINE b == prompt[r].boundary
           len == Len(prompt[r].seq)
           stop == IF AtBoundary(r) /\ fed[r] < b THEN b ELSE Len(hist[r])
<1>1. fed[r] \in Nat /\ b \in Nat /\ len \in Nat
  BY Settings, SMTT(30) DEF Shared, Kept, Prompts
<1>2. Len(hist[r]) = len /\ fed[r] < len
  BY <1>1 DEF Progress, InPrefill
<1>3. stop \in Nat /\ fed[r] < stop /\ stop <= len
  BY <1>1, <1>2 DEF AtBoundary
<1>4. Take(r) = Min2(NBatch, stop - fed[r])
  BY DEF Take
<1> HIDE DEF stop, b, len
<1> QED BY <1>1, <1>2, <1>3, <1>4, Sizes DEF Min2, len

\* The owner and where it is.
LEMMA OwnerHolds ==
    ASSUME TInv, NEW r \in Request, owner = r
    PROVE  /\ Shared /\ Pooled /\ Kept /\ Lengths /\ owner # None
           /\ st[r] \in {"pass", "yield"} /\ Progress(r) /\ Len(eng) <= fed[r]
           /\ \A q \in Request \ {r} : st[q] \notin {"pass", "yield"}
BY RequestsFinite DEF TInv, Kept, Lengths

LEMMA AppendType ==
    ASSUME NEW s \in Seq(Tokens), NEW w \in Words
    PROVE  /\ Append(s, Tok("gen", w)) \in Seq(Tokens) /\ Len(Append(s, Tok("gen", w))) = Len(s) + 1
           /\ \A i \in 1 .. Len(s) : Append(s, Tok("gen", w))[i] = s[i]
<1>1. Tok("gen", w) \in Tokens
  BY DEF Tok, Tokens
<1> QED BY <1>1

\* The other requests stay as they are; r may move on.
LEMMA OthersLengths ==
    ASSUME TInv, scene' = scene, NEW r \in Request,
           \A q \in Request \ {r} :
                /\ prompt'[q] = prompt[q] /\ fed'[q] = fed[q] /\ hist'[q] = hist[q]
                /\ ticket'[q] = ticket[q] /\ st'[q] = st[q],
           owner = r, epoch' \in Nat, epoch' >= epoch, owner' = None \/ owner' = r
    PROVE  \A q \in Request \ {r} : st'[q] = "parked" =>
             /\ Progress(q)' /\ Len(ticket'[q].ck) <= fed'[q]
             /\ ticket'[q].epoch < epoch'
<1> SUFFICES ASSUME NEW q \in Request \ {r}, st'[q] = "parked"
             PROVE  /\ Progress(q)' /\ Len(ticket'[q].ck) <= fed'[q]
                    /\ ticket'[q].epoch < epoch'
  OBVIOUS
<1>1. st[q] = "parked" /\ owner # None
  BY RequestsFinite
<1>2. Progress(q) /\ Len(ticket[q].ck) <= fed[q] /\ ticket[q].epoch < epoch
  BY <1>1 DEF TInv, Lengths
<1>3. Progress(q)'
  BY <1>2, ProgressSame
<1>4. ticket[q].epoch \in Nat /\ epoch \in Nat
  BY DEF TInv, Shared, Kept, IsTicket
<1> QED BY <1>2, <1>3, <1>4

LEMMA PrefillTypes ==
    ASSUME BInv, scene' = scene, NEW r \in Request, Prefill(r)
    PROVE  BInv'
<1> DEFINE after == Eval(r, Take(r))
           now == fed[r] + Take(r)
<1>0. /\ Shared /\ Pooled /\ Kept /\ Lengths /\ TInv /\ WithinBudget
      /\ ParkedBytes \in Nat /\ clock \in Nat /\ scene.ctx \in Nat \ {0}
  BY TicketsHold, Settings DEF BInv, TInv, Shared
<1>1. /\ owner = r /\ InPrefill(r) /\ eng' = after /\ fed' = [fed EXCEPT ![r] = now]
      /\ clock' = clock + 1 /\ st' = [st EXCEPT ![r] = "yield"]
      /\ UNCHANGED <<ov, consumed, consumed_img, last, epoch, owner, msgs, prompt, ticket, heard>>
  BY DEF Prefill
<1>2. /\ \/ pool' = pool
         \/ \E ok \in Outcomes : pool' = BoundarySave(SubSeq(hist[r], 1, now), after, ok)
      /\ \/ hist' = hist
         \/ /\ now = Len(hist[r]) /\ Room(r) > 0
            /\ \E t \in Replies(after) : hist' = [hist EXCEPT ![r] = Append(@, Tok("gen", t))]
  BY DEF Prefill
<1>3. /\ st[r] \in {"pass", "yield"} /\ Progress(r) /\ Len(eng) <= fed[r]
      /\ \A q \in Request \ {r} : st[q] \notin {"pass", "yield"}
  BY <1>0, <1>1, OwnerHolds
<1>4. /\ Take(r) \in Nat /\ Take(r) > 0 /\ fed[r] \in Nat /\ now <= Len(prompt[r].seq)
      /\ Len(hist[r]) = Len(prompt[r].seq) /\ Len(prompt[r].seq) \in Nat /\ now \in Nat
      /\ Len(prompt[r].seq) < scene.ctx /\ hist[r] \in Seq(Tokens)
  BY <1>0, <1>1, <1>3, TakeType DEF Progress, Kept
<1>5. after \in Seq(Places) /\ Len(after) = Len(eng) + Take(r) /\ Len(eng) \in Nat
  BY <1>0, <1>4, EvalType DEF Shared
<1>6. Len(after) <= now /\ Len(after) < scene.ctx
  BY <1>0, <1>3, <1>4, <1>5
<1> HIDE DEF after, now
<1>7. Shared'
  BY <1>0, <1>1, <1>5, <1>6 DEF Shared, IsPics
<1>8. /\ hist' \in [Request -> Seq(Tokens)]
      /\ \A q \in Request \ {r} : hist'[q] = hist[q]
      /\ \/ Len(hist'[r]) = Len(hist[r])
         \/ Len(hist'[r]) = Len(hist[r]) + 1 /\ now = Len(hist[r]) /\ Room(r) > 0
  <2>1. CASE hist' = hist
    BY <1>0, <2>1 DEF Kept
  <2>2. CASE \E t \in Replies(after) : hist' = [hist EXCEPT ![r] = Append(@, Tok("gen", t))]
    <3>1. PICK t \in Replies(after) : hist' = [hist EXCEPT ![r] = Append(@, Tok("gen", t))]
      BY <2>2
    <3>2. t \in Words
      BY <1>5, RepliesType
    <3>3. /\ Append(hist[r], Tok("gen", t)) \in Seq(Tokens)
          /\ Len(Append(hist[r], Tok("gen", t))) = Len(hist[r]) + 1
      BY <1>4, <3>2, AppendType
    <3>4. /\ hist' \in [Request -> Seq(Tokens)]
          /\ \A q \in Request \ {r} : hist'[q] = hist[q]
          /\ Len(hist'[r]) = Len(hist[r]) + 1
      BY <1>0, <3>1, <3>3 DEF Kept
    <3>5. (now = Len(hist[r]) /\ Room(r) > 0) \/ hist' = hist
      BY <1>2
    <3> QED BY <3>4, <3>5
  <2> QED BY <1>2, <2>1, <2>2
<1>9. Kept'
  <2>1. now \in 0 .. scene.ctx /\ now > 0
    BY <1>0, <1>4 DEF now
  <2>2. \A q \in Request : IsTicket(ticket[q])'
    BY <1>0, <1>1 DEF Kept, IsTicket, IsPics
  <2>3. /\ st' \in [Request -> {"new", "pass", "yield", "parked", "done"}]
        /\ fed' \in [Request -> 0 .. scene.ctx]
        /\ \A q \in Request : owner' = q <=> st'[q] \in {"pass", "yield"}
        /\ \A q \in Request : ticket'[q].ck # <<>> <=> st'[q] = "parked"
        /\ \A q \in Request : st'[q] = "yield" => fed'[q] > 0
    BY <1>0, <1>1, <1>3, <2>1 DEF Kept
  <2> QED BY <1>0, <1>1, <1>8, <2>2, <2>3 DEF Kept
<1>10. Lengths'
  <2>1. \A q \in Request \ {r} :
          /\ prompt'[q] = prompt[q] /\ fed'[q] = fed[q] /\ hist'[q] = hist[q]
          /\ ticket'[q] = ticket[q] /\ st'[q] = st[q]
    BY <1>0, <1>1, <1>8 DEF Kept
  <2>2. epoch' \in Nat /\ epoch' >= epoch /\ epoch \in Nat
    BY <1>0, <1>1 DEF Shared
  <2>3. \A q \in Request \ {r} : st'[q] = "parked" =>
             /\ Progress(q)' /\ Len(ticket'[q].ck) <= fed'[q] /\ ticket'[q].epoch < epoch'
    BY <1>0, <1>1, <2>1, <2>2, OthersLengths
  <2>4. Progress(r)' /\ Len(eng') <= fed'[r] /\ st'[r] = "yield"
    <3>1. fed'[r] = now /\ st'[r] = "yield" /\ prompt'[r] = prompt[r]
      BY <1>0, <1>1 DEF Kept
    <3>2. Room(r)' = Room(r)
      BY <1>1 DEF Room
    <3> QED BY <1>1, <1>4, <1>5, <1>6, <1>8, <3>1, <3>2 DEF Progress
  <2>5. \A q \in Request : st'[q] \in {"pass", "yield"} => q = r
    BY <1>3, <2>1
  <2>6. owner' # None
    BY <1>1, RequestsFinite
  <2>7. \A q \in Request : st'[q] = "parked" =>
             ticket'[q].epoch <= epoch' /\ ticket'[q].epoch # epoch'
    <3>1. \A q \in Request : ticket'[q].epoch \in Nat
      BY <1>0, <1>1 DEF Kept, IsTicket
    <3> QED BY <2>2, <2>3, <2>4, <3>1
  <2> QED BY <2>3, <2>4, <2>5, <2>6, <2>7 DEF Lengths
<1>11. Pooled' /\ WithinBudget'
  <2>1. CASE pool' = pool
    <3>1. clock' \in Nat /\ clock' >= clock
      BY <1>0, <1>1
    <3> QED BY <1>0, <1>1, <2>1, <3>1, PooledAgain, SameParked DEF WithinBudget
  <2>2. CASE \E ok \in Outcomes : pool' = BoundarySave(SubSeq(hist[r], 1, now), after, ok)
    <3>1. PICK ok \in Outcomes : pool' = BoundarySave(SubSeq(hist[r], 1, now), after, ok)
      BY <2>2
    <3>2. ok \in BOOLEAN
      BY DEF Outcomes
    <3> DEFINE tok == SubSeq(hist[r], 1, now)
    <3>3. tok \in Seq(Tokens) /\ Len(tok) < scene.ctx
      BY <1>0, <1>4
    <3> HIDE DEF tok
    <3>4. AfterBoundary(pool', tok, after)
      BY <1>0, <1>5, <1>6, <3>1, <3>2, <3>3, BoundaryTakes DEF tok
    <3>5. Pooled'
      BY <1>0, <1>1, <3>4, PooledSaved DEF AfterBoundary
    <3>6. ParkedBytes' = ParkedBytes
      BY <1>1, SameParked
    <3>7. WithinBudget'
      BY <1>0, <1>9, <3>4, <3>5, <3>6, BudgetKept DEF AfterBoundary
    <3> QED BY <3>5, <3>7
  <2> QED BY <1>2, <2>1, <2>2
<1> QED BY <1>7, <1>9, <1>10, <1>11 DEF BInv, TInv

LEMMA SaidType ==
    ASSUME Kept, NEW r \in Request
    PROVE  Said(r) \in Words /\ Append(msgs[r], Assistant(Said(r))) \in Seq(Message)
           /\ Append(msgs[r], Assistant(Said(r))) # <<>>
           /\ Last(Append(msgs[r], Assistant(Said(r)))).role = "assistant"
<1>1. hist[r] \in Seq(Tokens) /\ prompt[r].seq \in Seq(Places) /\ msgs[r] \in Seq(Message)
  BY DEF Kept, Prompts
<1>2. Said(r) \in Words
  <2>1. CASE HasReply(r)
    <3>1. Len(hist[r]) \in 1 .. Len(hist[r])
      BY <1>1, <2>1 DEF HasReply
    <3>2. Last(hist[r]) \in Tokens
      BY <1>1, <3>1 DEF Last
    <3> QED BY <2>1, <3>2 DEF Said, Tokens
  <2> QED BY <2>1 DEF Said, Words
<1>3. Assistant(Said(r)) \in Message /\ Assistant(Said(r)).role = "assistant"
  BY <1>2 DEF Assistant, Message
<1> DEFINE a == Assistant(Said(r))
           h == Append(msgs[r], a)
<1> HIDE DEF a
<1>4. h \in Seq(Message) /\ Len(h) = Len(msgs[r]) + 1 /\ h[Len(h)] = a /\ Len(msgs[r]) \in Nat
  BY <1>1, <1>3 DEF a
<1>5. h # <<>>
  BY <1>4
<1> QED BY <1>2, <1>3, <1>4, <1>5 DEF Last, a

\* The end of a request, whatever the engine is left with.
LEMMA FinishTypes ==
    ASSUME BInv, scene' = scene, NEW r \in Request, owner = r, NEW s \in Seq(Places),
           Len(s) <= Len(hist[r]), Len(s) < scene.ctx, Finish(r, s),
           heard' = heard \/ heard' = Heard(r),
           UNCHANGED <<ov, consumed_img, pool, clock, epoch, msgs, prompt, hist, fed, ticket>>
    PROVE  BInv'
<1>0. /\ Shared /\ Pooled /\ Kept /\ Lengths /\ TInv /\ WithinBudget
      /\ clock \in Nat /\ scene.ctx \in Nat \ {0} /\ epoch \in Nat
  BY Settings DEF BInv, TInv, Shared
<1>1. /\ eng' = s /\ consumed' = SubSeq(hist[r], 1, Len(s)) /\ owner' = None
      /\ last' = [msgs |-> msgs[r], prompt |-> Toks(prompt[r].seq), content |-> Said(r),
                  gen |-> Append(SubSeq(hist[r], Len(prompt[r].seq) + 1, Len(hist[r])), End)]
      /\ st' = [st EXCEPT ![r] = "done"]
  BY DEF Finish
<1>2. /\ \A q \in Request \ {r} : st[q] \notin {"pass", "yield"}
      /\ Progress(r) /\ st[r] \in {"pass", "yield"}
  BY <1>0, OwnerHolds
<1>3. /\ hist[r] \in Seq(Tokens) /\ prompt[r].seq \in Seq(Places) /\ msgs[r] \in Seq(Message)
      /\ Len(hist[r]) \in Nat /\ Len(prompt[r].seq) \in Nat /\ Len(s) \in Nat
  BY <1>0 DEF Kept, Prompts
<1>4. consumed' \in Seq(Tokens) /\ Len(consumed') = Len(s)
  BY <1>1, <1>3
<1>5. last' \in ReplyState
  <2>1. End \in Tokens
    BY DEF End, Tok, Tokens, Words
  <2> DEFINE g == SubSeq(hist[r], Len(prompt[r].seq) + 1, Len(hist[r]))
  <2>2. g \in Seq(Tokens)
    BY <1>3
  <2> HIDE DEF g
  <2>3. Append(g, End) \in Seq(Tokens)
    BY <2>1, <2>2
  <2>4. Toks(prompt[r].seq) \in Seq(Tokens)
    BY <1>3, ToksType
  <2>5. Said(r) \in Words
    BY <1>0, SaidType
  <2> QED BY <1>1, <1>3, <2>3, <2>4, <2>5 DEF ReplyState, g
<1>6. heard' \subseteq Seq(Message) /\ \A h \in heard' : h # <<>> /\ Last(h).role = "assistant"
  BY <1>0, SaidType DEF Shared, Heard
<1>7. Shared'
  BY <1>0, <1>1, <1>4, <1>5, <1>6 DEF Shared, IsPics
<1>8. Kept'
  <2>1. \A q \in Request : IsTicket(ticket[q])'
    BY <1>0 DEF Kept, IsTicket, IsPics
  <2>2. /\ st' \in [Request -> {"new", "pass", "yield", "parked", "done"}]
        /\ owner' \in Request \cup {None}
        /\ \A q \in Request : owner' = q <=> st'[q] \in {"pass", "yield"}
        /\ \A q \in Request : ticket'[q].ck # <<>> <=> st'[q] = "parked"
        /\ \A q \in Request : st'[q] = "yield" => fed'[q] > 0
    BY <1>0, <1>1, <1>2, RequestsFinite DEF Kept
  <2> QED BY <1>0, <2>1, <2>2 DEF Kept
<1>9. Lengths'
  <2>1. \A q \in Request \ {r} :
          /\ prompt'[q] = prompt[q] /\ fed'[q] = fed[q] /\ hist'[q] = hist[q]
          /\ ticket'[q] = ticket[q] /\ st'[q] = st[q]
    BY <1>0, <1>1 DEF Kept
  <2>2. \A q \in Request \ {r} : st'[q] = "parked" =>
             /\ Progress(q)' /\ Len(ticket'[q].ck) <= fed'[q] /\ ticket'[q].epoch < epoch'
    BY <1>0, <1>1, <2>1, OthersLengths
  <2>3. st'[r] = "done"
    BY <1>0, <1>1 DEF Kept
  <2>4. \A q \in Request : st'[q] = "parked" =>
             ticket'[q].epoch <= epoch' /\ ticket'[q].epoch # epoch'
    <3>1. \A q \in Request : ticket'[q].epoch \in Nat
      BY <1>0 DEF Kept, IsTicket
    <3> QED BY <1>0, <2>2, <2>3, <3>1
  <2>5. \A q \in Request : st'[q] \notin {"pass", "yield"}
    BY <1>2, <2>1, <2>3
  <2>6. Len(eng') = Len(consumed')
    BY <1>1, <1>4
  <2> QED BY <1>1, <2>2, <2>3, <2>4, <2>5, <2>6 DEF Lengths
<1>10. Pooled' /\ WithinBudget'
  BY <1>0, PooledAgain, SameParked DEF WithinBudget
<1> QED BY <1>7, <1>8, <1>9, <1>10 DEF BInv, TInv

LEMMA EndTypes ==
    ASSUME BInv, scene' = scene, NEW r \in Request, Decode(r) \/ Truncate(r) \/ Cancel(r)
    PROVE  BInv'
<1>0. /\ Shared /\ Kept /\ TInv /\ owner = r /\ scene.ctx \in Nat
  BY Settings DEF BInv, TInv, Shared, Decode, Truncate, Cancel
<1>1. /\ Progress(r) /\ Len(eng) <= fed[r] /\ eng \in Seq(Places) /\ Len(eng) \in Nat
      /\ fed[r] \in Nat /\ Len(prompt[r].seq) \in Nat /\ Len(hist[r]) \in Nat /\ Len(eng) < scene.ctx
  BY <1>0, OwnerHolds DEF Shared, Kept, Prompts
<1>2. Len(eng) <= Len(hist[r])
  BY <1>1 DEF Progress
<1>3. CASE Truncate(r) \/ Cancel(r)
  <2>1. /\ Finish(r, eng)
        /\ heard' = heard \/ heard' = Heard(r)
        /\ UNCHANGED <<ov, consumed_img, pool, clock, epoch, msgs, prompt, hist, fed, ticket>>
    BY <1>3 DEF Truncate, Cancel
  <2> QED BY <1>0, <1>1, <1>2, <2>1, FinishTypes
<1>4. CASE Decode(r)
  <2>1. /\ Finish(r, Eval(r, 1)) /\ heard' = Heard(r) /\ HasReply(r)
        /\ UNCHANGED <<ov, consumed_img, pool, clock, epoch, msgs, prompt, hist, fed, ticket>>
    BY <1>4 DEF Decode
  <2>2. /\ Len(hist[r]) = Len(prompt[r].seq) + 1 /\ fed[r] = Len(prompt[r].seq)
        /\ scene.ctx - Len(prompt[r].seq) - 2 > 0
    BY <1>1, <2>1 DEF Progress, HasReply, Room
  <2>3. Eval(r, 1) \in Seq(Places) /\ Len(Eval(r, 1)) = Len(eng) + 1
    BY <1>0, <1>1, <2>2, EvalType, SMTT(30)
  <2>4. Len(Eval(r, 1)) <= Len(hist[r]) /\ Len(Eval(r, 1)) < scene.ctx
    BY <1>0, <1>1, <2>2, <2>3
  <2> QED BY <1>0, <2>1, <2>3, <2>4, FinishTypes
<1> QED BY <1>3, <1>4

\* The engine is reset: by a request that fails, or whose resume does.
LEMMA ForgetShared ==
    ASSUME Shared, scene' = scene, clock' \in Nat, epoch' = epoch, heard' = heard, Forget
    PROVE  Shared' /\ Len(eng') = 0 /\ eng' = <<>> /\ consumed' = <<>>
<1>1. /\ eng' = <<>> /\ ov' = NoImgs /\ consumed' = <<>> /\ consumed_img' = NoImgs
      /\ last' = [last EXCEPT !.msgs = <<>>]
  BY DEF Forget
<1>2. /\ <<>> \in Seq(Places) /\ <<>> \in Seq(Tokens) /\ Len(<<>>) = 0 /\ 0 < scene.ctx
  BY Settings DEF Shared
<1>3. last' \in ReplyState
  BY <1>1, UnfiledType DEF Shared
<1> QED BY <1>1, <1>2, <1>3, NoImgsEmpty DEF Shared, IsPics

LEMMA FailTypes ==
    ASSUME BInv, scene' = scene, NEW r \in Request, Fail(r)
    PROVE  BInv'
<1>0. /\ Shared /\ Pooled /\ Kept /\ Lengths /\ TInv /\ WithinBudget
      /\ clock \in Nat /\ epoch \in Nat
  BY DEF BInv, TInv, Shared
<1>1. /\ owner = r /\ Forget /\ st' = [st EXCEPT ![r] = "done"] /\ owner' = None
      /\ UNCHANGED <<pool, clock, epoch, msgs, prompt, hist, fed, ticket, heard>>
  BY DEF Fail
<1>2. /\ \A q \in Request \ {r} : st[q] \notin {"pass", "yield"}
      /\ st[r] \in {"pass", "yield"}
  BY <1>0, <1>1, OwnerHolds
<1>3. Shared' /\ consumed' = <<>>
  BY <1>0, <1>1, ForgetShared
<1>4. Kept'
  <2>1. \A q \in Request : IsTicket(ticket[q])'
    BY <1>0, <1>1 DEF Kept, IsTicket, IsPics
  <2>2. /\ st' \in [Request -> {"new", "pass", "yield", "parked", "done"}]
        /\ owner' \in Request \cup {None}
        /\ \A q \in Request : owner' = q <=> st'[q] \in {"pass", "yield"}
        /\ \A q \in Request : ticket'[q].ck # <<>> <=> st'[q] = "parked"
        /\ \A q \in Request : st'[q] = "yield" => fed'[q] > 0
    BY <1>0, <1>1, <1>2, RequestsFinite DEF Kept
  <2> QED BY <1>0, <1>1, <2>1, <2>2 DEF Kept
<1>5. Lengths'
  <2>1. \A q \in Request \ {r} :
          /\ prompt'[q] = prompt[q] /\ fed'[q] = fed[q] /\ hist'[q] = hist[q]
          /\ ticket'[q] = ticket[q] /\ st'[q] = st[q]
    BY <1>0, <1>1 DEF Kept
  <2>2. \A q \in Request \ {r} : st'[q] = "parked" =>
             /\ Progress(q)' /\ Len(ticket'[q].ck) <= fed'[q] /\ ticket'[q].epoch < epoch'
    BY <1>0, <1>1, <2>1, OthersLengths
  <2>3. st'[r] = "done"
    BY <1>0, <1>1 DEF Kept
  <2>4. \A q \in Request : st'[q] = "parked" =>
             ticket'[q].epoch <= epoch' /\ ticket'[q].epoch # epoch'
    <3>1. \A q \in Request : ticket'[q].epoch \in Nat
      BY <1>0, <1>1 DEF Kept, IsTicket
    <3> QED BY <1>0, <1>1, <2>2, <2>3, <3>1
  <2>5. \A q \in Request : st'[q] \notin {"pass", "yield"}
    BY <1>2, <2>1, <2>3
  <2> QED BY <1>1, <1>3, <2>2, <2>3, <2>4, <2>5 DEF Lengths
<1>6. Pooled' /\ WithinBudget'
  BY <1>0, <1>1, PooledAgain, SameParked DEF WithinBudget
<1> QED BY <1>3, <1>4, <1>5, <1>6 DEF BInv, TInv

\* ts_park(): what the checkpoint takes was found room for.
LEMMA ParkTypes ==
    ASSUME BInv, scene' = scene, NEW r \in Request, Park(r)
    PROVE  BInv'
<1> DEFINE room == EvictTo(pool, Len(eng), 0, ParkedBytes)
           t == [ck |-> eng, epoch |-> epoch + 1, last |-> last, img |-> consumed_img,
                 parks |-> ticket[r].parks + 1]
<1>0. /\ Shared /\ Pooled /\ Kept /\ Lengths /\ TInv /\ WithinBudget
      /\ clock \in Nat /\ epoch \in Nat /\ ParkedBytes \in Nat
  BY TicketsHold DEF BInv, TInv, Shared
<1>1. /\ owner = r /\ st[r] = "yield" /\ Len(eng) = fed[r]
      /\ Fits(room, Len(eng), ParkedBytes) /\ pool' = room
      /\ consumed' = <<>> /\ consumed_img' = NoImgs /\ epoch' = epoch + 1
      /\ st' = [st EXCEPT ![r] = "parked"] /\ owner' = None
      /\ UNCHANGED <<eng, ov, last, clock, msgs, prompt, hist, fed, heard>>
  BY DEF Park, ShouldYield
<1>2. ticket' = [ticket EXCEPT ![r] = t]
  BY DEF Park
<1>3. /\ \A q \in Request \ {r} : st[q] \notin {"pass", "yield"}
      /\ Progress(r)
  BY <1>0, <1>1, OwnerHolds
<1>4. Shared'
  <2>1. <<>> \in Seq(Tokens) /\ Len(<<>>) = 0 /\ 0 < scene.ctx
    BY <1>0, Settings DEF Shared
  <2> QED BY <1>0, <1>1, <2>1, NoImgsEmpty DEF Shared, IsPics
<1>5. IsTicket(t) /\ t.ck = eng /\ t.epoch = epoch + 1
  <2>1. ticket[r].parks \in Nat
    BY <1>0 DEF Kept, IsTicket
  <2> QED BY <1>0, <2>1 DEF Shared, IsTicket
<1>6. eng # <<>> /\ Len(eng) \in Nat /\ fed[r] > 0
  <2>1. Len(eng) > 0 /\ Len(eng) \in Nat
    BY <1>0, <1>1 DEF Kept, Shared
  <2> QED BY <1>1, <2>1
<1> HIDE DEF t, room
<1>7. /\ \A q \in Request \ {r} :
           /\ prompt'[q] = prompt[q] /\ fed'[q] = fed[q] /\ hist'[q] = hist[q]
           /\ ticket'[q] = ticket[q] /\ st'[q] = st[q]
      /\ ticket'[r] = t /\ st'[r] = "parked"
  BY <1>0, <1>1, <1>2 DEF Kept
<1>8. Kept'
  <2>1. \A q \in Request : IsTicket(ticket'[q])
    BY <1>0, <1>5, <1>7 DEF Kept
  <2>2. \A q \in Request : IsTicket(ticket[q])'
    BY <2>1 DEF IsTicket, IsPics
  <2>3. ticket' = [q \in Request |-> ticket'[q]]
    BY <1>0, <1>2 DEF Kept
  <2>4. /\ st' \in [Request -> {"new", "pass", "yield", "parked", "done"}]
        /\ owner' \in Request \cup {None}
        /\ \A q \in Request : owner' = q <=> st'[q] \in {"pass", "yield"}
        /\ \A q \in Request : st'[q] = "yield" => fed'[q] > 0
    BY <1>0, <1>1, <1>3, RequestsFinite DEF Kept
  <2>5. \A q \in Request : ticket'[q].ck # <<>> <=> st'[q] = "parked"
    BY <1>0, <1>5, <1>6, <1>7 DEF Kept
  <2> QED BY <1>0, <1>1, <2>2, <2>3, <2>4, <2>5 DEF Kept
<1>9. Lengths'
  <2>1. epoch' \in Nat /\ epoch' >= epoch
    BY <1>0, <1>1
  <2>2. \A q \in Request \ {r} : st'[q] = "parked" =>
             /\ Progress(q)' /\ Len(ticket'[q].ck) <= fed'[q] /\ ticket'[q].epoch < epoch'
    BY <1>0, <1>1, <1>7, <2>1, OthersLengths
  <2>3. Progress(r)'
    BY <1>1, <1>3, ProgressSame
  <2>4. \A q \in Request \ {r} : st'[q] = "parked" =>
             ticket'[q].epoch <= epoch' /\ ticket'[q].epoch # epoch'
    <3>1. \A q \in Request \ {r} : ticket'[q].epoch \in Nat
      BY <1>0, <1>7 DEF Kept, IsTicket
    <3> QED BY <2>1, <2>2, <3>1
  <2>5. ticket'[r].epoch <= epoch' /\ Len(ticket'[r].ck) <= fed'[r] /\ Len(eng') <= fed'[r]
    BY <1>0, <1>1, <1>5, <1>6, <1>7
  <2>6. \A q \in Request : st'[q] \notin {"pass", "yield"}
    BY <1>3, <1>7
  <2>7. \A q \in Request : st'[q] = "parked" =>
          /\ Progress(q)' /\ Len(ticket'[q].ck) <= fed'[q] /\ ticket'[q].epoch <= epoch'
          /\ ticket'[q].epoch = epoch' => Len(eng') <= fed'[q]
    BY <2>2, <2>3, <2>4, <2>5
  <2> QED BY <1>1, <2>6, <2>7 DEF Lengths
<1>10. room \subseteq pool
  BY EvictKeeps DEF room
<1>11. Pooled'
  BY <1>0, <1>1, <1>10, PooledAgain
<1>12. WithinBudget'
  <2>1. ParkedBytes' - Len(ticket'[r].ck) = ParkedBytes - Len(ticket[r].ck)
    BY <1>0, <1>7, <1>8, ParkedChanges
  <2>2. ticket[r].ck = <<>>
    BY <1>0, <1>1 DEF Kept
  <2>3. Len(ticket[r].ck) = 0
    BY <2>2
  <2>4. ParkedBytes' \in Nat
    BY <1>8, ParkedNext
  <2>5. ParkedBytes' = ParkedBytes + Len(eng)
    BY <1>0, <1>5, <1>6, <1>7, <2>1, <2>3, <2>4
  <2>6. /\ Cardinality(Units(room)) + ParkedBytes + Len(eng) <= PoolBudget
        /\ Cardinality(Units(room)) \in Nat
    <3>1. IsFiniteSet(room)
      BY <1>0, <1>10, FS_Subset DEF Pooled
    <3>2. Cardinality(Units(room)) \in Nat
      BY <1>0, <1>10, <3>1, UnitsFinite DEF Pooled, IsEntry
    <3>3. Cardinality({e \in room : Meta(e.last) = 1}) \in Nat
      <4>1. IsFiniteSet({e \in room : Meta(e.last) = 1})
        BY <3>1, FS_Subset
      <4> QED BY <4>1, FS_CardinalityType
    <3>4. Cardinality(Units(room)) + Cardinality({e \in room : Meta(e.last) = 1}) + ParkedBytes
            + Len(eng) <= PoolBudget
      BY <1>1 DEF Fits, Bytes
    <3> QED BY <1>0, <1>6, <3>2, <3>3, <3>4, Sizes
  <2> HIDE DEF room
  <2>7. Cardinality(Units(pool))' = Cardinality(Units(room))
    BY <1>1 DEF Units
  <2> QED BY <1>0, <1>6, <2>5, <2>6, <2>7 DEF WithinBudget
<1> QED BY <1>4, <1>8, <1>9, <1>11, <1>12 DEF BInv, TInv

LEMMA RefusedTypes ==
    ASSUME BInv, scene' = scene, NEW r \in Request, ParkRefused(r)
    PROVE  BInv'
<1> DEFINE room == EvictTo(pool, Len(eng), 0, ParkedBytes)
<1>0. /\ Shared /\ Pooled /\ Kept /\ Lengths /\ TInv /\ WithinBudget
      /\ clock \in Nat /\ epoch \in Nat /\ ParkedBytes \in Nat
  BY TicketsHold DEF BInv, TInv, Shared
<1>1. /\ owner = r /\ st[r] = "yield"
      /\ pool' = room \/ pool' = pool
      /\ st' = [st EXCEPT ![r] = "pass"]
      /\ UNCHANGED <<eng, ov, consumed, consumed_img, last, clock, epoch, owner, msgs, prompt, hist,
                     fed, ticket, heard>>
  BY DEF ParkRefused, ShouldYield
<1>2. pool' \subseteq pool
  BY <1>1, EvictKeeps
<1> HIDE DEF room
<1>3. Shared'
  BY <1>0, <1>1 DEF Shared, IsPics
<1>4. Kept'
  <2>1. \A q \in Request : IsTicket(ticket[q])'
    BY <1>0, <1>1 DEF Kept, IsTicket, IsPics
  <2>2. /\ st' \in [Request -> {"new", "pass", "yield", "parked", "done"}]
        /\ \A q \in Request : owner' = q <=> st'[q] \in {"pass", "yield"}
        /\ \A q \in Request : ticket'[q].ck # <<>> <=> st'[q] = "parked"
        /\ \A q \in Request : st'[q] = "yield" => fed'[q] > 0
    BY <1>0, <1>1 DEF Kept
  <2> QED BY <1>0, <1>1, <2>1, <2>2 DEF Kept
<1>5. Lengths'
  <2>1. \A q \in Request : st'[q] \in {"pass", "yield"} <=> st[q] \in {"pass", "yield"}
    BY <1>0, <1>1 DEF Kept
  <2>2. \A q \in Request : st'[q] = "parked" <=> st[q] = "parked"
    BY <1>0, <1>1 DEF Kept
  <2>3. \A q \in Request : Progress(q) => Progress(q)'
    BY <1>1, ProgressSame
  <2> QED BY <1>0, <1>1, <2>1, <2>2, <2>3 DEF Lengths
<1>6. Pooled' /\ WithinBudget'
  <2>1. Pooled'
    BY <1>0, <1>1, <1>2, PooledAgain
  <2>2. \A e \in pool' : \E h \in pool : Like(e, h)
    BY <1>2, LikeSelf
  <2>3. Cardinality(Units(pool')) <= Cardinality(Units(pool))
    BY <1>0, <2>2, UnitsWithin DEF Pooled, IsEntry
  <2>4. ParkedBytes' = ParkedBytes
    BY <1>1, SameParked
  <2> QED BY <1>0, <1>4, <2>1, <2>3, <2>4, BudgetKept
<1> QED BY <1>3, <1>4, <1>5, <1>6 DEF BInv, TInv

\* A request that is not parked any more: its checkpoint is given up.
LEMMA UnparkedType ==
    ASSUME Shared, Kept, NEW r \in Request, ticket' = Unparked(r), scene' = scene
    PROVE  /\ ticket' = [q \in Request |-> ticket'[q]]
           /\ \A q \in Request : IsTicket(ticket[q])'
           /\ \A q \in Request \ {r} : ticket'[q] = ticket[q]
           /\ ticket'[r].ck = <<>> /\ Len(ticket'[r].ck) = 0
<1> DEFINE t == [NoTicket EXCEPT !.parks = ticket[r].parks]
<1>1. ticket' = [ticket EXCEPT ![r] = t]
  BY DEF Unparked
<1>2. IsTicket(t) /\ t.ck = <<>> /\ Len(t.ck) = 0
  <2>1. /\ ticket[r].parks \in Nat /\ <<>> \in Seq(Places) /\ Len(<<>>) = 0 /\ 0 < scene.ctx
    BY Settings, SMTT(30) DEF Shared, Kept, IsTicket
  <2>2. <<>> \in Seq(Message) /\ <<>> \in Seq(Tokens) /\ NoText \in Words
    BY DEF Words
  <2>3. NoReply \in ReplyState
    BY <2>2 DEF NoReply, ReplyState
  <2>4. /\ NoTicket \in [ck : Seq(Places), epoch : Nat, last : ReplyState, img : {NoImgs}, parks : Nat]
        /\ NoTicket.ck = <<>>
    BY <2>1, <2>3 DEF NoTicket
  <2>5. /\ t \in [ck : Seq(Places), epoch : Nat, last : ReplyState, img : {NoImgs}, parks : Nat]
        /\ t.ck = <<>> /\ t.img = NoImgs
    BY <2>1, <2>4
  <2> QED BY <2>1, <2>5, NoImgsEmpty DEF IsTicket
<1> HIDE DEF t
<1>3. /\ \A q \in Request \ {r} : ticket'[q] = ticket[q]
      /\ ticket'[r] = t
      /\ ticket' = [q \in Request |-> ticket'[q]]
  BY <1>1 DEF Kept
<1>4. \A q \in Request : IsTicket(ticket'[q])
  BY <1>2, <1>3 DEF Kept
<1>5. \A q \in Request : IsTicket(ticket[q])'
  BY <1>4 DEF IsTicket, IsPics
<1> QED BY <1>2, <1>3, <1>5

\* What stays when a parked request, r, leaves with nobody holding the lock: the others' lengths.
LEMMA LeavingLengths ==
    ASSUME TInv, scene' = scene, NEW r \in Request, owner = None, st[r] = "parked",
           \A q \in Request \ {r} :
                /\ prompt'[q] = prompt[q] /\ fed'[q] = fed[q] /\ hist'[q] = hist[q]
                /\ ticket'[q] = ticket[q] /\ st'[q] = st[q]
    PROVE  \A q \in Request \ {r} :
             /\ st'[q] \notin {"pass", "yield"}
             /\ st'[q] = "parked" =>
                  /\ Progress(q)' /\ Len(ticket'[q].ck) <= fed'[q] /\ ticket'[q].epoch \in Nat
                  /\ ticket'[q].epoch <= epoch /\ fed'[q] \in Nat
                  /\ ticket'[q].epoch = epoch => Len(eng) <= fed'[q]
<1> SUFFICES ASSUME NEW q \in Request \ {r}
             PROVE  /\ st'[q] \notin {"pass", "yield"}
                    /\ st'[q] = "parked" =>
                         /\ Progress(q)' /\ Len(ticket'[q].ck) <= fed'[q]
                         /\ ticket'[q].epoch \in Nat
                         /\ ticket'[q].epoch <= epoch /\ fed'[q] \in Nat
                         /\ ticket'[q].epoch = epoch => Len(eng) <= fed'[q]
  OBVIOUS
<1>1. st'[q] \notin {"pass", "yield"}
  BY RequestsFinite DEF TInv, Kept
<1>2. ASSUME st'[q] = "parked"
      PROVE  /\ Progress(q)' /\ Len(ticket'[q].ck) <= fed'[q] /\ ticket'[q].epoch \in Nat
             /\ ticket'[q].epoch <= epoch /\ fed'[q] \in Nat
             /\ ticket'[q].epoch = epoch => Len(eng) <= fed'[q]
  <2>1. /\ Progress(q) /\ Len(ticket[q].ck) <= fed[q] /\ ticket[q].epoch <= epoch
        /\ ticket[q].epoch = epoch => Len(eng) <= fed[q]
    BY <1>2 DEF TInv, Lengths
  <2>2. Progress(q)'
    BY <2>1, ProgressSame
  <2>3. ticket[q].epoch \in Nat /\ fed[q] \in Nat
    BY Settings DEF TInv, Shared, Kept, IsTicket
  <2> QED BY <2>1, <2>2, <2>3
<1> QED BY <1>1, <1>2

\* What is parked without r's checkpoint.
LEMMA ParkedWithout ==
    ASSUME Shared, Kept, Kept', scene' = scene, NEW r \in Request, ticket' = Unparked(r)
    PROVE  ParkedBytes' = ParkedBytes - Len(ticket[r].ck) /\ ParkedBytes' <= ParkedBytes
<1>1. \A q \in Request \ {r} : ticket'[q].ck = ticket[q].ck
  BY UnparkedType
<1>2. ParkedBytes' - Len(ticket'[r].ck) = ParkedBytes - Len(ticket[r].ck)
  BY <1>1, ParkedChanges
<1>3. Len(ticket'[r].ck) = 0
  BY UnparkedType
<1>4. ParkedBytes \in Nat /\ ParkedBytes' \in Nat /\ Len(ticket[r].ck) \in Nat
  BY TicketsHold, ParkedNext
<1> QED BY <1>2, <1>3, <1>4

LEMMA ResumeTypes ==
    ASSUME BInv, scene' = scene, NEW r \in Request, Resume(r)
    PROVE  BInv'
<1>0. /\ Shared /\ Pooled /\ Kept /\ Lengths /\ TInv /\ WithinBudget
      /\ clock \in Nat /\ epoch \in Nat /\ scene.ctx \in Nat /\ None \notin Request
      /\ ParkedBytes \in Nat /\ ParkedBytes - Len(ticket[r].ck) \in Nat
  BY TicketsHold, Settings, RequestsFinite DEF BInv, TInv, Shared
<1>1. /\ owner = None /\ st[r] = "parked" /\ ticket' = Unparked(r)
      /\ eng' = IF Moved(r) THEN ticket[r].ck ELSE eng
      /\ ov' = IF Moved(r) THEN Embeddings(r) ELSE ov
      /\ consumed' = SubSeq(hist[r], 1, fed[r]) /\ consumed_img' = ticket[r].img
      /\ last' = ticket[r].last /\ epoch' = epoch + 1 /\ clock' = clock + 1
      /\ owner' = r /\ st' = [st EXCEPT ![r] = "pass"]
      /\ UNCHANGED <<msgs, prompt, hist, fed, heard>>
  BY DEF Resume
<1>2. \/ pool' = pool
      \/ \E ok \in Outcomes : pool' = Save(0, ParkedBytes - Len(ticket[r].ck), ok)
  BY DEF Resume
<1>3. /\ Progress(r) /\ Len(ticket[r].ck) <= fed[r] /\ ticket[r].epoch <= epoch
      /\ ~Moved(r) => Len(eng) <= fed[r]
      /\ IsTicket(ticket[r]) /\ fed[r] \in Nat
      /\ prompt[r].seq \in Seq(Places) /\ hist[r] \in Seq(Tokens)
      /\ Len(hist[r]) \in Nat /\ Len(prompt[r].seq) \in Nat
  <2>1. /\ Progress(r) /\ Len(ticket[r].ck) <= fed[r] /\ ticket[r].epoch <= epoch
        /\ ticket[r].epoch = epoch => Len(eng) <= fed[r]
    BY <1>0, <1>1 DEF Lengths
  <2>2. prompt[r] \in Prompts /\ hist[r] \in Seq(Tokens) /\ fed[r] \in Nat /\ IsTicket(ticket[r])
    BY <1>0 DEF Kept
  <2>3. prompt[r].seq \in Seq(Places)
    BY <2>2 DEF Prompts
  <2> QED BY <2>1, <2>2, <2>3 DEF Moved
<1>4. IsPics(ov')
  <2>1. IsPics(Imgs(prompt[r].seq))
    BY <1>0, <1>3, ImgsType DEF IsPics, Progress
  <2> QED BY <1>0, <1>1, <2>1, NoImgsEmpty DEF Embeddings, Shared
<1>5. consumed' \in Seq(Tokens) /\ Len(consumed') < scene.ctx
  <2>1. fed[r] <= Len(hist[r]) /\ fed[r] < scene.ctx
    BY <1>0, <1>3 DEF Progress
  <2> QED BY <1>1, <1>3, <2>1
<1>6. Shared'
  <2>1. eng' \in Seq(Places) /\ Len(eng') < scene.ctx /\ last' \in ReplyState /\ IsPics(consumed_img')
    BY <1>0, <1>1, <1>3 DEF Shared, IsTicket
  <2>2. clock' \in Nat /\ epoch' \in Nat /\ heard' = heard
    BY <1>0, <1>1
  <2>3. IsPics(ov)' /\ IsPics(consumed_img)'
    BY <1>4, <2>1 DEF IsPics
  <2> QED BY <1>0, <1>5, <2>1, <2>2, <2>3 DEF Shared
<1>7. /\ ticket' = [q \in Request |-> ticket'[q]]
      /\ \A q \in Request : IsTicket(ticket[q])'
      /\ \A q \in Request \ {r} : ticket'[q] = ticket[q]
      /\ ticket'[r].ck = <<>>
  BY <1>0, <1>1, UnparkedType
<1>8. /\ \A q \in Request \ {r} :
           /\ prompt'[q] = prompt[q] /\ fed'[q] = fed[q] /\ hist'[q] = hist[q]
           /\ ticket'[q] = ticket[q] /\ st'[q] = st[q]
      /\ st'[r] = "pass"
  BY <1>0, <1>1, <1>7 DEF Kept
<1>9. \A q \in Request : st[q] \notin {"pass", "yield"}
  BY <1>0, <1>1 DEF Kept
<1>10. Kept'
  <2>1. /\ st' \in [Request -> {"new", "pass", "yield", "parked", "done"}]
        /\ owner' \in Request \cup {None}
        /\ \A q \in Request : owner' = q <=> st'[q] \in {"pass", "yield"}
        /\ \A q \in Request : st'[q] = "yield" => fed'[q] > 0
    BY <1>0, <1>1, <1>9 DEF Kept
  <2>2. \A q \in Request : ticket'[q].ck # <<>> <=> st'[q] = "parked"
    BY <1>0, <1>7, <1>8 DEF Kept
  <2> QED BY <1>0, <1>1, <1>7, <2>1, <2>2 DEF Kept
<1>11. Lengths'
  <2>1. Progress(r)' /\ Len(eng') <= fed'[r] /\ owner' # None
    BY <1>0, <1>1, <1>3, ProgressSame
  <2>2. \A q \in Request \ {r} :
             /\ st'[q] \notin {"pass", "yield"}
             /\ st'[q] = "parked" =>
                  /\ Progress(q)' /\ Len(ticket'[q].ck) <= fed'[q] /\ ticket'[q].epoch \in Nat
                  /\ ticket'[q].epoch <= epoch
    BY <1>0, <1>1, <1>8, LeavingLengths
  <2>3. \A q \in Request : st'[q] = "parked" =>
          /\ Progress(q)' /\ Len(ticket'[q].ck) <= fed'[q]
          /\ ticket'[q].epoch <= epoch' /\ ticket'[q].epoch < epoch' /\ ticket'[q].epoch # epoch'
    BY <1>0, <1>1, <1>8, <2>2
  <2> QED BY <2>1, <2>2, <2>3 DEF Lengths
<1>12. Pooled' /\ WithinBudget'
  <2>1. /\ ParkedBytes' = ParkedBytes - Len(ticket[r].ck) /\ ParkedBytes' <= ParkedBytes
        /\ ParkedBytes' \in Nat
    BY <1>0, <1>1, <1>10, ParkedWithout
  <2>2. CASE pool' = pool
    <3>1. clock' \in Nat /\ clock' >= clock
      BY <1>0, <1>1
    <3>2. Pooled'
      BY <1>0, <2>2, <3>1, PooledAgain
    <3>3. Cardinality(Units(pool')) <= Cardinality(Units(pool))
      BY <1>0, <2>2, UnitsOfPool
    <3> QED BY <1>0, <1>10, <2>1, <3>2, <3>3, BudgetKept
  <2>3. CASE \E ok \in Outcomes : pool' = Save(0, ParkedBytes - Len(ticket[r].ck), ok)
    <3> DEFINE held == ParkedBytes - Len(ticket[r].ck)
    <3>1. PICK ok \in BOOLEAN : pool' = Save(0, held, ok)
      BY <2>3 DEF Outcomes
    <3> HIDE DEF held
    <3>2. held \in Nat /\ ParkedBytes' <= held /\ held <= ParkedBytes
      BY <1>0, <2>1 DEF held
    <3>3. AfterSave(pool', 0, held)
      BY <1>0, <3>1, <3>2, SaveTakes
    <3>4. Pooled'
      BY <1>0, <1>1, <3>3, PooledSaved DEF AfterSave
    <3> QED BY <1>0, <1>10, <3>2, <3>3, <3>4, BudgetKept DEF AfterSave
  <2> QED BY <1>2, <2>2, <2>3
<1> QED BY <1>6, <1>10, <1>11, <1>12 DEF BInv, TInv

\* The request is gone: its client left, or its resume failed.
LEMMA GoneTypes ==
    ASSUME BInv, scene' = scene, NEW r \in Request, ResumeFails(r) \/ Abandon(r)
    PROVE  BInv'
<1>0. /\ Shared /\ Pooled /\ Kept /\ Lengths /\ TInv /\ WithinBudget
      /\ clock \in Nat /\ epoch \in Nat /\ None \notin Request
      /\ ParkedBytes \in Nat /\ ParkedBytes - Len(ticket[r].ck) \in Nat
  BY TicketsHold, RequestsFinite DEF BInv, TInv, Shared
<1>1. /\ owner = None /\ st[r] = "parked" /\ ticket' = Unparked(r)
      /\ st' = [st EXCEPT ![r] = "done"]
      /\ UNCHANGED <<epoch, owner, msgs, prompt, hist, fed, heard>>
      /\ \/ Forget /\ clock' = clock + 1
         \/ UNCHANGED <<eng, ov, consumed, consumed_img, last, clock>>
  BY DEF ResumeFails, Abandon
<1>2. \/ pool' = pool
      \/ /\ clock' = clock + 1
         /\ \E ok \in Outcomes : pool' = Save(0, ParkedBytes - Len(ticket[r].ck), ok)
  BY DEF ResumeFails, Abandon
<1>3. /\ clock' \in Nat /\ clock' >= clock
      /\ Shared'
      /\ \/ eng' = eng /\ consumed' = consumed
         \/ Len(eng') = 0 /\ consumed' = <<>>
  <2>1. CASE Forget /\ clock' = clock + 1
    BY <1>0, <1>1, <2>1, ForgetShared
  <2>2. CASE UNCHANGED <<eng, ov, consumed, consumed_img, last, clock>>
    BY <1>0, <1>1, <2>2 DEF Shared, IsPics
  <2> QED BY <1>1, <2>1, <2>2
<1>4. /\ ticket' = [q \in Request |-> ticket'[q]]
      /\ \A q \in Request : IsTicket(ticket[q])'
      /\ \A q \in Request \ {r} : ticket'[q] = ticket[q]
      /\ ticket'[r].ck = <<>>
  BY <1>0, <1>1, UnparkedType
<1>5. /\ \A q \in Request \ {r} :
           /\ prompt'[q] = prompt[q] /\ fed'[q] = fed[q] /\ hist'[q] = hist[q]
           /\ ticket'[q] = ticket[q] /\ st'[q] = st[q]
      /\ st'[r] = "done"
  BY <1>0, <1>1, <1>4 DEF Kept
<1>6. \A q \in Request : st[q] \notin {"pass", "yield"}
  BY <1>0, <1>1 DEF Kept
<1>7. Kept'
  <2>1. /\ st' \in [Request -> {"new", "pass", "yield", "parked", "done"}]
        /\ owner' \in Request \cup {None}
        /\ \A q \in Request : owner' = q <=> st'[q] \in {"pass", "yield"}
        /\ \A q \in Request : st'[q] = "yield" => fed'[q] > 0
    BY <1>0, <1>1, <1>6 DEF Kept
  <2>2. \A q \in Request : ticket'[q].ck # <<>> <=> st'[q] = "parked"
    BY <1>0, <1>4, <1>5 DEF Kept
  <2> QED BY <1>0, <1>1, <1>4, <2>1, <2>2 DEF Kept
<1>8. Lengths'
  <2>1. \A q \in Request \ {r} :
             /\ st'[q] \notin {"pass", "yield"}
             /\ st'[q] = "parked" =>
                  /\ Progress(q)' /\ Len(ticket'[q].ck) <= fed'[q] /\ ticket'[q].epoch \in Nat
                  /\ ticket'[q].epoch <= epoch /\ fed'[q] \in Nat
                  /\ ticket'[q].epoch = epoch => Len(eng) <= fed'[q]
    BY <1>0, <1>1, <1>5, LeavingLengths
  <2>2. \A q \in Request : st'[q] = "parked" =>
                  /\ Progress(q)' /\ Len(ticket'[q].ck) <= fed'[q]
                  /\ ticket'[q].epoch <= epoch'
                  /\ ticket'[q].epoch = epoch' => Len(eng') <= fed'[q]
    BY <1>1, <1>3, <1>5, <2>1
  <2>3. owner' = None /\ consumed' # <<>> => Len(eng') = Len(consumed')
    BY <1>0, <1>1, <1>3 DEF Lengths
  <2>4. owner' = None
    BY <1>1
  <2> QED BY <1>5, <2>1, <2>2, <2>3, <2>4 DEF Lengths
<1>9. Pooled' /\ WithinBudget'
  <2>1. /\ ParkedBytes' = ParkedBytes - Len(ticket[r].ck) /\ ParkedBytes' <= ParkedBytes
        /\ ParkedBytes' \in Nat
    BY <1>0, <1>1, <1>7, ParkedWithout
  <2>2. CASE pool' = pool
    <3>1. Pooled'
      BY <1>0, <1>3, <2>2, PooledAgain
    <3>2. Cardinality(Units(pool')) <= Cardinality(Units(pool))
      BY <1>0, <2>2, UnitsOfPool
    <3> QED BY <1>0, <1>7, <2>1, <3>1, <3>2, BudgetKept
  <2>3. CASE /\ clock' = clock + 1
             /\ \E ok \in Outcomes : pool' = Save(0, ParkedBytes - Len(ticket[r].ck), ok)
    <3> DEFINE held == ParkedBytes - Len(ticket[r].ck)
    <3>1. PICK ok \in BOOLEAN : pool' = Save(0, held, ok)
      BY <2>3 DEF Outcomes
    <3> HIDE DEF held
    <3>2. held \in Nat /\ ParkedBytes' <= held /\ held <= ParkedBytes
      BY <1>0, <2>1 DEF held
    <3>3. AfterSave(pool', 0, held)
      BY <1>0, <3>1, <3>2, SaveTakes
    <3>4. Pooled'
      BY <1>0, <2>3, <3>3, PooledSaved DEF AfterSave
    <3> QED BY <1>0, <1>7, <3>2, <3>3, <3>4, BudgetKept DEF AfterSave
  <2> QED BY <1>2, <2>2, <2>3
<1> QED BY <1>3, <1>7, <1>8, <1>9 DEF BInv, TInv

-----------------------------------------------------------------------------
LEMMA InitTypes == ASSUME Init PROVE BInv
<1>0. /\ scene \in Scenes /\ scene.ctx \in Nat \ {0} /\ PoolBudget \in Nat /\ None \notin Request
  BY Settings, Sizes, RequestsFinite DEF Init
<1>1. /\ <<>> \in Seq(Places) /\ <<>> \in Seq(Tokens) /\ <<>> \in Seq(Message) /\ Len(<<>>) = 0
      /\ NoText \in Words
  BY DEF Words
<1>2. NoReply \in ReplyState
  BY <1>1 DEF NoReply, ReplyState
<1>3. Shared
  BY <1>0, <1>1, <1>2, NoImgsEmpty DEF Init, Shared
<1>4. Pooled
  BY FS_EmptySet DEF Init, Pooled
<1>5. IsTicket(NoTicket) /\ NoTicket.ck = <<>>
  <2>1. /\ NoTicket \in [ck : Seq(Places), epoch : Nat, last : ReplyState, img : {NoImgs}, parks : Nat]
        /\ NoTicket.ck = <<>> /\ NoTicket.img = NoImgs
    BY <1>1, <1>2 DEF NoTicket
  <2> QED BY <1>0, <1>1, <2>1, NoImgsEmpty DEF IsTicket
<1>6. Kept
  <2>1. NoPrompt \in Prompts
    BY <1>1 DEF NoPrompt, Prompts
  <2> QED BY <1>0, <1>1, <1>5, <2>1 DEF Init, Kept
<1>7. Lengths
  BY DEF Init, Lengths
<1>8. WithinBudget
  <2>1. Units(pool) = {} /\ Cardinality({}) = 0
    BY FS_EmptySet DEF Init, Units
  <2>2. Stored(ticket, Request) = {}
    BY <1>5 DEF Init, Stored
  <2> QED BY <1>0, <2>1, <2>2, ParkedIsStored DEF WithinBudget
<1> QED BY <1>3, <1>4, <1>6, <1>7, <1>8 DEF BInv, TInv

LEMMA StutterTypes == ASSUME BInv, UNCHANGED vars PROVE BInv'
<1>1. /\ scene' = scene /\ eng' = eng /\ ov' = ov /\ consumed' = consumed
      /\ consumed_img' = consumed_img /\ last' = last /\ pool' = pool /\ clock' = clock
      /\ epoch' = epoch /\ owner' = owner /\ st' = st /\ msgs' = msgs /\ prompt' = prompt
      /\ hist' = hist /\ fed' = fed /\ ticket' = ticket /\ heard' = heard
  BY DEF vars
<1>2. Shared'
  BY <1>1 DEF BInv, TInv, Shared, IsPics
<1>3. Pooled'
  BY <1>1 DEF BInv, TInv, Pooled, IsEntry, IsPics
<1>4. Kept'
  BY <1>1 DEF BInv, TInv, Kept, IsTicket, IsPics
<1>5. Lengths'
  BY <1>1 DEF BInv, TInv, Lengths, Progress, Room
<1>6. WithinBudget'
  BY <1>1, SameParked DEF BInv, WithinBudget
<1> QED BY <1>2, <1>3, <1>4, <1>5, <1>6 DEF BInv, TInv

LEMMA NextTypes == ASSUME BInv, [Next]_vars PROVE BInv'
<1>1. CASE UNCHANGED vars
  BY <1>1, StutterTypes
<1>2. CASE Next
  <2>1. scene' = scene
    BY <1>2 DEF Next
  <2>2. PICK r \in Request :
          \/ Begin(r) \/ Prefill(r) \/ Decode(r) \/ Truncate(r) \/ Cancel(r) \/ Fail(r)
          \/ Park(r) \/ ParkRefused(r) \/ Resume(r) \/ ResumeFails(r) \/ Abandon(r)
    BY <1>2 DEF Next
  <2>3. CASE Begin(r)
    BY <2>1, <2>3, BeginTypes
  <2>4. CASE Prefill(r)
    BY <2>1, <2>4, PrefillTypes
  <2>5. CASE Decode(r) \/ Truncate(r) \/ Cancel(r)
    BY <2>1, <2>5, EndTypes
  <2>6. CASE Fail(r)
    BY <2>1, <2>6, FailTypes
  <2>7. CASE Park(r)
    BY <2>1, <2>7, ParkTypes
  <2>8. CASE ParkRefused(r)
    BY <2>1, <2>8, RefusedTypes
  <2>9. CASE Resume(r)
    BY <2>1, <2>9, ResumeTypes
  <2>10. CASE ResumeFails(r) \/ Abandon(r)
    BY <2>1, <2>10, GoneTypes
  <2> QED BY <2>2, <2>3, <2>4, <2>5, <2>6, <2>7, <2>8, <2>9, <2>10
<1> QED BY <1>1, <1>2

LEMMA TypesWithin == ASSUME BInv PROVE TypeOK
<1>1. /\ DOMAIN ov \subseteq 1 .. scene.ctx /\ DOMAIN consumed_img \subseteq 1 .. scene.ctx
      /\ \A h \in heard : Last(h).role = "assistant"
  BY DEF BInv, TInv, Shared, IsPics
<1> QED BY <1>1 DEF BInv, TInv, Shared, Kept, TypeOK

\* In every scene, whatever fails and whoever is parked: the types hold, and the checkpoints
\* cached and parked (S.pool_bytes, S.parked_bytes) stay within --prefix-cache.
THEOREM BudgetHolds == Spec => [](TypeOK /\ WithinBudget)
<1>1. BInv => TypeOK /\ WithinBudget
  BY TypesWithin DEF BInv
<1>2. Init => BInv
  BY InitTypes
<1>3. BInv /\ [Next]_vars => BInv'
  BY NextTypes
<1> QED BY <1>1, <1>2, <1>3, PTL DEF Spec

-----------------------------------------------------------------------------
\* The tokens and the images of a sequence, place by place.
LEMMA ToksEqual ==
    ASSUME NEW s \in Seq(Places), NEW w \in Seq(Tokens), Len(w) = Len(s),
           \A i \in 1 .. Len(s) : w[i] = s[i].tok
    PROVE  w = Toks(s)
<1>1. /\ Toks(s) \in Seq(Tokens) /\ Len(Toks(s)) = Len(s)
      /\ \A i \in 1 .. Len(s) : Toks(s)[i] = s[i].tok
  BY ToksType
<1> QED BY <1>1

LEMMA ImgsEqual ==
    ASSUME NEW s \in Seq(Places), NEW f, f = [i \in DOMAIN f |-> f[i]],
           DOMAIN f \subseteq 1 .. Len(s), \A i \in 1 .. Len(s) : Shows(f, i, s[i].img)
    PROVE  f = Imgs(s)
<1>1. DOMAIN s = 1 .. Len(s)
  BY PlacesHold
<1> DEFINE D == {j \in DOMAIN s : s[j].img # NoImage}
<1>2. Imgs(s) = [i \in D |-> s[i].img]
  BY DEF Imgs
<1>3. DOMAIN f = D /\ \A i \in D : f[i] = s[i].img
  BY <1>1 DEF Shows
<1> HIDE DEF D
<1>4. f = [i \in D |-> f[i]]
  BY <1>3
<1>5. [i \in D |-> f[i]] = [i \in D |-> s[i].img]
  BY <1>3
<1> QED BY <1>2, <1>4, <1>5

\* Between requests the live sequence is exact, so what is saved of it is.
LEMMA FiledNext ==
    ASSUME Filed, AtRest, owner = None,
           \A e \in pool' : IsLive(e) \/ \E h \in pool : Like(e, h)
    PROVE  Filed'
<1> SUFFICES ASSUME NEW e \in pool' PROVE e.tok = Toks(e.ck) /\ e.img = Imgs(e.ck)
  BY DEF Filed
<1>1. CASE IsLive(e)
  BY <1>1 DEF IsLive, AtRest
<1>2. CASE \E h \in pool : Like(e, h)
  BY <1>2 DEF Like, Filed
<1> QED BY <1>1, <1>2

\* A parked request stays as it was; once the epoch has moved on, the engine is not its own.
LEMMA AwayNext ==
    ASSUME Away, NEW q \in Request, st[q] = "parked", prompt'[q] = prompt[q], fed'[q] = fed[q],
           hist'[q] = hist[q], ticket'[q] = ticket[q]
    PROVE  Evaluated(q, ticket[q].ck, ticket[q].img)' /\ ticket'[q].parks > 0
<1>1. Evaluated(q, ticket[q].ck, ticket[q].img) /\ ticket[q].parks > 0
  BY DEF Away
<1> QED BY <1>1 DEF Evaluated, Shows

LEMMA PrefixHolds ==
    ASSUME NEW s \in Seq(Tokens), NEW t \in Seq(Tokens), IsPrefix(s, t)
    PROVE  Len(s) <= Len(t) /\ \A i \in 1 .. Len(s) : s[i] = t[i]
<1>1. Len(s) <= Len(t) /\ SubSeq(s, 1, Len(s)) = SubSeq(t, 1, Len(s))
  BY DEF IsPrefix
<1>2. \A i \in 1 .. Len(s) : SubSeq(s, 1, Len(s))[i] = s[i] /\ SubSeq(t, 1, Len(s))[i] = t[i]
  BY <1>1
<1> QED BY <1>1, <1>2

\* generate()'s preparation, from a sequence that is exactly consumed and a prefix of the prompt.
LEMMA PrepareExact ==
    ASSUME BInv, BInv', Exact, scene' = scene, NEW r \in Request, owner = None, st[r] = "new",
           ticket' = ticket, NEW P \in Prompts, NEW e \in Seq(Places), Len(e) <= Len(P.seq),
           \A i \in 1 .. Len(e) : e[i].tok = P.seq[i].tok, IsPics(Imgs(e)),
           NEW emb, IsPics(emb), DOMAIN emb \subseteq 1 .. Len(e), NEW L,
           NEW tok, tok = Toks(e), NEW img, img = Imgs(e),
           Prepare(r, P, e, tok, img, emb, L)
    PROVE  Owned' /\ Away' /\ Alone' /\ AtRest'
<1> DEFINE fits == InContext(P)
<1>0. /\ Shared /\ Kept /\ Kept' /\ Lengths' /\ Away /\ Alone
      /\ scene.ctx \in Nat /\ None \notin Request /\ Len(e) \in Nat
      /\ P.seq \in Seq(Places) /\ Len(P.seq) \in Nat
  BY Settings, RequestsFinite DEF BInv, TInv, Shared, Prompts, Exact
<1>1. /\ eng' = e /\ consumed' = tok
      /\ ov' = IF fits THEN WithRest(emb, P, Len(tok)) ELSE emb
      /\ consumed_img' = IF fits THEN WithRest(img, P, Len(tok)) ELSE img
      /\ owner' = IF fits THEN r ELSE None
      /\ st' = [st EXCEPT ![r] = IF fits THEN "pass" ELSE "done"]
      /\ hist' = [hist EXCEPT ![r] = Toks(P.seq)]
      /\ fed' = [fed EXCEPT ![r] = Len(tok)]
      /\ prompt' = [prompt EXCEPT ![r] = P]
      /\ epoch' = epoch + 1
  BY DEF Prepare
<1>2. fits <=> Len(P.seq) < scene.ctx
  BY DEF InContext
<1> HIDE DEF fits
<1>3. Len(tok) = Len(e)
  BY ToksType
<1>4. /\ DOMAIN img \subseteq 1 .. Len(e)
      /\ \A i \in 1 .. Len(e) : Shows(img, i, e[i].img)
  BY ImgsType
<1>5. /\ DOMAIN Imgs(P.seq) \subseteq 1 .. Len(P.seq)
      /\ \A i \in 1 .. Len(P.seq) : Shows(Imgs(P.seq), i, P.seq[i].img)
      /\ \A i \in 1 .. Len(P.seq) : Toks(P.seq)[i] = P.seq[i].tok
  BY <1>0, ImgsType, ToksType
<1> DEFINE rest == {i \in DOMAIN Imgs(P.seq) : i > Len(e)}
<1>6. ASSUME fits, NEW f, IsPics(f), DOMAIN f \subseteq 1 .. Len(e)
      PROVE  /\ DOMAIN WithRest(f, P, Len(e)) \subseteq 1 .. Len(P.seq)
             /\ \A x : \A i \in 1 .. Len(e) : Shows(f, i, x) => Shows(WithRest(f, P, Len(e)), i, x)
             /\ \A i \in Len(e) + 1 .. Len(P.seq) :
                    Shows(WithRest(f, P, Len(e)), i, P.seq[i].img)
  <2> DEFINE g == WithRest(f, P, Len(e))
  <2>1. /\ DOMAIN g = rest \cup DOMAIN f
        /\ \A i \in DOMAIN g : g[i] = IF i \in rest THEN P.seq[i].img ELSE f[i]
    <3>1. g = [i \in rest \cup DOMAIN f |-> IF i \in rest THEN P.seq[i].img ELSE f[i]]
      BY DEF WithRest
    <3> HIDE DEF rest, g
    <3> QED BY <3>1
  <2>2. \A i \in 1 .. Len(e) : i \notin rest
    BY <1>0
  <2>3. \A i \in Len(e) + 1 .. Len(P.seq) :
           /\ i \notin DOMAIN f /\ (i \in rest <=> i \in DOMAIN Imgs(P.seq)) /\ i \in 1 .. Len(P.seq)
    BY <1>0, <1>6
  <2>4. DOMAIN f \subseteq 1 .. Len(P.seq) /\ rest \subseteq 1 .. Len(P.seq)
    BY <1>0, <1>5, <1>6
  <2> HIDE DEF g, rest
  <2>5. DOMAIN g \subseteq 1 .. Len(P.seq)
    BY <2>1, <2>4
  <2>6. \A x : \A i \in 1 .. Len(e) : Shows(f, i, x) => Shows(g, i, x)
    BY <2>1, <2>2 DEF Shows
  <2>7. \A i \in Len(e) + 1 .. Len(P.seq) : Shows(g, i, P.seq[i].img)
    BY <1>5, <2>1, <2>3 DEF Shows
  <2> QED BY <2>5, <2>6, <2>7 DEF g
<1>7. Owned'
  <2> SUFFICES ASSUME NEW q \in Request, st'[q] \in {"pass", "yield"}
               PROVE  Evaluated(q, eng, consumed_img)' /\ Pending(q)'
    BY DEF Owned
  <2>1. q = r /\ fits
    BY <1>0, <1>1 DEF Kept
  <2>2. prompt'[r] = P /\ hist'[r] = Toks(P.seq) /\ fed'[r] = Len(e)
    BY <1>0, <1>1, <1>3 DEF Kept
  <2>3. ov' = WithRest(emb, P, Len(e)) /\ consumed_img' = WithRest(img, P, Len(e))
    BY <1>1, <1>3, <2>1
  <2>4. Evaluated(r, eng, consumed_img)'
    <3>1. /\ DOMAIN consumed_img' \subseteq 1 .. Len(P.seq)
          /\ \A i \in 1 .. Len(e) : Shows(consumed_img', i, e[i].img)
          /\ \A i \in Len(e) + 1 .. Len(P.seq) : Shows(consumed_img', i, P.seq[i].img)
      BY <1>4, <1>6, <2>1, <2>3
    <3>2. \A i \in 1 .. Len(e) : e[i].tok = Toks(P.seq)[i]
      BY <1>0, <1>5
    <3> QED BY <1>1, <2>2, <3>1, <3>2 DEF Evaluated, Shows
  <2>5. Pending(r)'
    <3>1. /\ DOMAIN ov' \subseteq 1 .. Len(P.seq)
          /\ \A i \in Len(e) + 1 .. Len(P.seq) : Shows(ov', i, P.seq[i].img)
      BY <1>6, <2>1, <2>3
    <3> QED BY <2>2, <3>1 DEF Pending, Shows
  <2> QED BY <2>1, <2>4, <2>5
<1>8. \A q \in Request : st'[q] = "parked" =>
         /\ st[q] = "parked" /\ prompt'[q] = prompt[q] /\ fed'[q] = fed[q] /\ hist'[q] = hist[q]
  BY <1>0, <1>1 DEF Kept
<1>9. Away'
  <2> SUFFICES ASSUME NEW q \in Request, st'[q] = "parked"
               PROVE  /\ Evaluated(q, ticket[q].ck, ticket[q].img)' /\ ticket'[q].parks > 0
                      /\ ticket'[q].epoch # epoch'
    BY DEF Away
  <2>1. ticket[q].epoch <= epoch /\ ticket[q].epoch \in Nat /\ epoch \in Nat
    BY <1>0, <1>8 DEF BInv, TInv, Lengths, Kept, IsTicket, Shared
  <2> QED BY <1>0, <1>1, <1>8, <2>1, AwayNext
<1>10. Alone'
  BY <1>0, <1>8 DEF Alone
<1>11. AtRest'
  <2> SUFFICES ASSUME owner' = None
               PROVE  /\ consumed' = Toks(eng') /\ consumed_img' = Imgs(eng')
                      /\ DOMAIN ov' \subseteq 1 .. Len(eng')
    BY DEF AtRest
  <2>1. ~fits
    BY <1>0, <1>1
  <2> QED BY <1>1, <2>1
<1> QED BY <1>7, <1>9, <1>10, <1>11

LEMMA BeginExact ==
    ASSUME BInv, BInv', Exact, scene' = scene, NEW r \in Request, Begin(r)
    PROVE  Exact'
<1>0. /\ Shared /\ Pooled /\ Kept /\ Lengths /\ TInv /\ AtRest /\ Filed
      /\ ParkedBytes \in Nat /\ clock \in Nat
      /\ scene.ctx \in Nat \ {0}
  BY TicketsHold, Settings DEF BInv, TInv, Shared, Exact
<1>1. /\ owner = None /\ st[r] = "new" /\ ticket' = ticket
  BY DEF Begin
<1>2. PICK ok \in Outcomes, m \in Messages \cup Completion, t \in Text :
        LET P == IF m = <<>> THEN RawPrompt(t) ELSE BuildPrompt(m)
        IN  Extend(r, P) \/ Switch(r, P, ok) \/ Restart(r, P, ok)
  BY DEF Begin
<1> DEFINE P == IF m = <<>> THEN RawPrompt(t) ELSE BuildPrompt(m)
<1>3. P \in Prompts /\ ok \in BOOLEAN
  BY <1>0, <1>2, BeginPrompt DEF Outcomes
<1>4. Extend(r, P) \/ Switch(r, P, ok) \/ Restart(r, P, ok)
  BY <1>2
<1> HIDE DEF P
<1>5. /\ P.seq \in Seq(Places) /\ Len(P.seq) \in Nat
      /\ Toks(P.seq) \in Seq(Tokens) /\ Len(Toks(P.seq)) = Len(P.seq)
      /\ \A i \in 1 .. Len(P.seq) : Toks(P.seq)[i] = P.seq[i].tok
  BY <1>3, ToksType DEF Prompts
<1>6. ASSUME NEW e \in Seq(Places), IsPrefix(Toks(e), Toks(P.seq))
      PROVE  Len(e) <= Len(P.seq) /\ \A i \in 1 .. Len(e) : e[i].tok = P.seq[i].tok
  <2>1. /\ Toks(e) \in Seq(Tokens) /\ Len(Toks(e)) = Len(e) /\ Len(e) \in Nat
        /\ \A i \in 1 .. Len(e) : Toks(e)[i] = e[i].tok
    BY ToksType
  <2>2. Len(Toks(e)) <= Len(Toks(P.seq))
        /\ \A i \in 1 .. Len(Toks(e)) : Toks(e)[i] = Toks(P.seq)[i]
    BY <1>5, <1>6, <2>1, PrefixHolds
  <2> QED BY <1>5, <2>1, <2>2
<1>7. CASE Extend(r, P)
  <2>1. /\ Prepare(r, P, eng, consumed, consumed_img, ov, last)
        /\ pool' = pool /\ consumed # <<>> /\ IsPrefix(consumed, Toks(P.seq))
    BY <1>7 DEF Extend, Reuses
  <2>2. /\ eng \in Seq(Places) /\ IsPics(consumed_img) /\ IsPics(ov)
        /\ consumed = Toks(eng) /\ consumed_img = Imgs(eng) /\ DOMAIN ov \subseteq 1 .. Len(eng)
    BY <1>0, <1>1, <2>1 DEF Shared, AtRest
  <2>3. Len(eng) <= Len(P.seq) /\ \A i \in 1 .. Len(eng) : eng[i].tok = P.seq[i].tok
    BY <1>6, <2>1, <2>2
  <2>4. IsPics(Imgs(eng))
    BY <2>2
  <2>5. Owned' /\ Away' /\ Alone' /\ AtRest'
    BY <1>1, <1>3, <2>1, <2>2, <2>3, <2>4, PrepareExact
  <2>6. Filed'
    BY <1>0, <2>1 DEF Filed
  <2> QED BY <2>5, <2>6 DEF Exact
<1>8. CASE Switch(r, P, ok)
  <2> DEFINE hit == Longest(Hits(P))
             saved == Save(hit.id, ParkedBytes, ok)
             kept == CHOOSE e \in saved : e.id = hit.id
  <2>1. /\ Hits(P) # {}
        /\ Prepare(r, P, kept.ck, kept.tok, kept.img, NoImgs, kept.last)
        /\ pool' = (saved \ {kept}) \cup {[kept EXCEPT !.used = clock + 2]}
    BY <1>8 DEF Switch
  <2>2. /\ hit \in Hits(P) /\ AfterSave(saved, hit.id, ParkedBytes)
        /\ kept \in saved /\ Like(kept, hit)
    BY <1>0, <1>3, <2>1, HitSurvives
  <2> HIDE DEF saved, hit, kept
  <2>3. hit \in pool /\ IsPrefix(hit.tok, Toks(P.seq))
    BY <2>2 DEF Hits
  <2>4. kept.tok = Toks(kept.ck) /\ kept.img = Imgs(kept.ck) /\ IsPrefix(kept.tok, Toks(P.seq))
    BY <1>0, <2>2, <2>3 DEF Filed, Like
  <2>5. IsEntry(kept, clock + 1)
    BY <2>2 DEF AfterSave, Saved
  <2>6. kept.ck \in Seq(Places) /\ IsPics(kept.img)
    BY <2>5 DEF IsEntry
  <2>7. /\ Len(kept.ck) <= Len(P.seq)
        /\ \A i \in 1 .. Len(kept.ck) : kept.ck[i].tok = P.seq[i].tok
    BY <1>6, <2>4, <2>6
  <2>8. IsPics(NoImgs) /\ DOMAIN NoImgs \subseteq 1 .. Len(kept.ck) /\ IsPics(Imgs(kept.ck))
    BY <2>4, <2>6, NoImgsEmpty
  <2>9. Owned' /\ Away' /\ Alone' /\ AtRest'
    BY <1>1, <1>3, <2>1, <2>4, <2>6, <2>7, <2>8, PrepareExact
  <2>10. \A e \in pool' : IsLive(e) \/ \E h \in pool : Like(e, h)
    BY <1>0, <2>1, <2>2, RestoredPool
  <2>11. Filed'
    BY <1>0, <1>1, <2>10, FiledNext
  <2> QED BY <2>9, <2>11 DEF Exact
<1>9. CASE Restart(r, P, ok)
  <2>1. /\ Prepare(r, P, <<>>, <<>>, NoImgs, NoImgs, last)
        /\ \/ \E keep : pool' = Save(keep, ParkedBytes, ok)
           \/ pool' = pool
    BY <1>9 DEF Restart
  <2>2. /\ <<>> \in Seq(Places) /\ Len(<<>>) = 0 /\ 0 <= Len(P.seq)
        /\ IsPics(NoImgs) /\ DOMAIN NoImgs \subseteq 1 .. 0 /\ NoImgs = Imgs(<<>>)
    BY <1>5, NoImgsEmpty DEF NoImgs
  <2>3. Toks(<<>>) = <<>>
    <3>1. Toks(<<>>) \in Seq(Tokens) /\ Len(Toks(<<>>)) = 0
      BY <2>2, ToksType
    <3> QED BY <3>1
  <2> DEFINE e == <<>>
  <2>4. /\ e \in Seq(Places) /\ Len(e) = 0 /\ Len(e) <= Len(P.seq)
        /\ \A i \in 1 .. Len(e) : e[i].tok = P.seq[i].tok
    BY <2>2
  <2>5. /\ IsPics(Imgs(e)) /\ IsPics(NoImgs) /\ DOMAIN NoImgs \subseteq 1 .. Len(e)
        /\ e = Toks(e) /\ NoImgs = Imgs(e) /\ Prepare(r, P, e, e, NoImgs, NoImgs, last)
    BY <2>1, <2>2, <2>3
  <2> HIDE DEF e
  <2>6. Owned' /\ Away' /\ Alone' /\ AtRest'
    BY <1>1, <1>3, <2>4, <2>5, PrepareExact
  <2>7. Filed'
    <3>1. CASE \E keep : pool' = Save(keep, ParkedBytes, ok)
      <4>1. PICK keep : pool' = Save(keep, ParkedBytes, ok)
        BY <3>1
      <4>2. AfterSave(pool', keep, ParkedBytes)
        BY <1>0, <1>3, <4>1, SaveTakes
      <4> QED BY <1>0, <1>1, <4>2, FiledNext DEF AfterSave
    <3>2. CASE pool' = pool
      BY <1>0, <3>2 DEF Filed
    <3> QED BY <2>1, <3>1, <3>2
  <2> QED BY <2>6, <2>7 DEF Exact
<1> QED BY <1>4, <1>7, <1>8, <1>9

\* eval() gives each position its token and, in the prompt, the image the request sent for it.
LEMMA EvalExact ==
    ASSUME TInv, Owned, NEW r \in Request, owner = r, NEW n \in Nat, fed[r] + n <= Len(hist[r])
    PROVE  LET s == Eval(r, n)
           IN  /\ Len(eng) = fed[r] /\ s \in Seq(Places) /\ Len(s) = fed[r] + n
               /\ \A i \in 1 .. fed[r] + n :
                    s[i].tok = hist[r][i] /\ Shows(consumed_img, i, s[i].img)
               /\ DOMAIN consumed_img \subseteq 1 .. Len(prompt[r].seq)
               /\ \A i \in fed[r] + 1 .. Len(prompt[r].seq) :
                    Shows(consumed_img, i, prompt[r].seq[i].img)
<1> DEFINE s == Eval(r, n)
<1>0. /\ Shared /\ Kept /\ st[r] \in {"pass", "yield"} /\ Evaluated(r, eng, consumed_img)
      /\ Pending(r)
  BY OwnerHolds DEF Owned
<1>1. /\ Len(eng) = fed[r] /\ fed[r] \in Nat
      /\ \A i \in 1 .. fed[r] : eng[i].tok = hist[r][i] /\ Shows(consumed_img, i, eng[i].img)
      /\ DOMAIN consumed_img \subseteq 1 .. Len(prompt[r].seq)
      /\ \A i \in fed[r] + 1 .. Len(prompt[r].seq) :
           Shows(consumed_img, i, prompt[r].seq[i].img)
  BY <1>0 DEF Evaluated, Kept
<1>2. /\ DOMAIN ov \subseteq 1 .. Len(prompt[r].seq)
      /\ \A i \in fed[r] + 1 .. Len(prompt[r].seq) : Shows(ov, i, prompt[r].seq[i].img)
  BY <1>0 DEF Pending
<1>3. /\ s \in Seq(Places) /\ Len(s) = Len(eng) + n
      /\ \A i \in 1 .. Len(eng) : s[i] = eng[i]
      /\ \A i \in Len(eng) + 1 .. Len(eng) + n :
           /\ s[i].tok = hist[r][fed[r] + i - Len(eng)]
           /\ s[i].img = IF i \in DOMAIN ov THEN ov[i] ELSE NoImage
  BY <1>0, EvalType
<1> HIDE DEF s
<1>4. Len(prompt[r].seq) \in Nat
  BY <1>0 DEF Kept, Prompts
<1>5. ASSUME NEW i \in 1 .. fed[r] + n
      PROVE  s[i].tok = hist[r][i] /\ Shows(consumed_img, i, s[i].img)
  <2>1. CASE i <= fed[r]
    BY <1>1, <1>3, <1>5, <2>1
  <2>2. CASE i > fed[r]
    <3>1. /\ s[i].tok = hist[r][fed[r] + i - fed[r]]
          /\ s[i].img = IF i \in DOMAIN ov THEN ov[i] ELSE NoImage
      BY <1>1, <1>3, <1>5, <2>2
    <3>2. fed[r] + i - fed[r] = i
      BY <1>1, <1>5
    <3>3. Shows(consumed_img, i, s[i].img)
      <4>1. CASE i <= Len(prompt[r].seq)
        <5>1. i \in fed[r] + 1 .. Len(prompt[r].seq)
          BY <1>1, <1>4, <1>5, <2>2, <4>1
        <5>2. s[i].img = prompt[r].seq[i].img
          BY <1>2, <3>1, <5>1 DEF Shows
        <5> QED BY <1>1, <5>1, <5>2
      <4>2. CASE i > Len(prompt[r].seq)
        <5>1. i \notin DOMAIN ov /\ i \notin DOMAIN consumed_img
          BY <1>1, <1>2, <1>4, <1>5, <4>2
        <5> QED BY <3>1, <5>1 DEF Shows
      <4> QED BY <1>4, <1>5, <4>1, <4>2
    <3> QED BY <3>1, <3>2, <3>3
  <2> QED BY <1>1, <1>5, <2>1, <2>2
<1> QED BY <1>1, <1>3, <1>5 DEF s

\* The epochs of parked requests are past while a request holds the lock.
LEMMA OthersAway ==
    ASSUME TInv, Away, NEW r \in Request, owner = r, epoch' \in Nat, epoch' >= epoch,
           NEW q \in Request, q # r, st[q] = "parked",
           prompt'[q] = prompt[q], fed'[q] = fed[q], hist'[q] = hist[q], ticket'[q] = ticket[q]
    PROVE  /\ Evaluated(q, ticket[q].ck, ticket[q].img)' /\ ticket'[q].parks > 0
           /\ ticket'[q].epoch # epoch'
<1>1. ticket[q].epoch < epoch /\ ticket[q].epoch \in Nat /\ epoch \in Nat
  BY RequestsFinite DEF TInv, Lengths, Kept, IsTicket, Shared
<1> QED BY <1>1, AwayNext

LEMMA PrefillExact ==
    ASSUME BInv, BInv', Exact, scene' = scene, NEW r \in Request, Prefill(r)
    PROVE  Exact'
<1> DEFINE after == Eval(r, Take(r))
           now == fed[r] + Take(r)
<1>0. /\ Shared /\ Pooled /\ Kept /\ Lengths /\ TInv /\ Owned /\ Away /\ Alone /\ Filed
      /\ ParkedBytes \in Nat /\ None \notin Request /\ scene.ctx \in Nat
  BY TicketsHold, RequestsFinite, Settings DEF BInv, TInv, Exact, Shared
<1>1. /\ owner = r /\ InPrefill(r) /\ eng' = after /\ fed' = [fed EXCEPT ![r] = now]
      /\ st' = [st EXCEPT ![r] = "yield"]
      /\ UNCHANGED <<ov, consumed, consumed_img, epoch, owner, prompt, ticket>>
  BY DEF Prefill
<1>2. /\ \/ pool' = pool
         \/ \E ok \in Outcomes : pool' = BoundarySave(SubSeq(hist[r], 1, now), after, ok)
      /\ \/ hist' = hist
         \/ \E t \in Replies(after) : hist' = [hist EXCEPT ![r] = Append(@, Tok("gen", t))]
  BY DEF Prefill
<1>3. /\ st[r] \in {"pass", "yield"} /\ Progress(r)
      /\ \A q \in Request \ {r} : st[q] \notin {"pass", "yield"}
  BY <1>0, <1>1, OwnerHolds
<1>4. /\ Take(r) \in Nat /\ fed[r] \in Nat /\ now <= Len(prompt[r].seq)
      /\ Len(hist[r]) = Len(prompt[r].seq) /\ Len(prompt[r].seq) \in Nat /\ now \in Nat
      /\ hist[r] \in Seq(Tokens) /\ now >= fed[r] /\ Len(prompt[r].seq) < scene.ctx
  BY <1>0, <1>1, <1>3, TakeType DEF Progress, Kept
<1>5. /\ after \in Seq(Places) /\ Len(after) = now
      /\ \A i \in 1 .. now : after[i].tok = hist[r][i] /\ Shows(consumed_img, i, after[i].img)
      /\ DOMAIN consumed_img \subseteq 1 .. Len(prompt[r].seq)
      /\ \A i \in fed[r] + 1 .. Len(prompt[r].seq) :
           Shows(consumed_img, i, prompt[r].seq[i].img)
  BY <1>0, <1>1, <1>4, EvalExact
<1>6. /\ DOMAIN ov \subseteq 1 .. Len(prompt[r].seq)
      /\ \A i \in fed[r] + 1 .. Len(prompt[r].seq) : Shows(ov, i, prompt[r].seq[i].img)
  BY <1>0, <1>3 DEF Owned, Pending
<1> HIDE DEF after, now
<1>7. /\ \A q \in Request \ {r} : hist'[q] = hist[q] /\ fed'[q] = fed[q] /\ st'[q] = st[q]
      /\ \A i \in 1 .. now : hist'[r][i] = hist[r][i]
      /\ fed'[r] = now
  <2>1. CASE hist' = hist
    BY <1>0, <1>1, <2>1 DEF Kept
  <2>2. CASE \E t \in Replies(after) : hist' = [hist EXCEPT ![r] = Append(@, Tok("gen", t))]
    <3>1. PICK t \in Replies(after) : hist' = [hist EXCEPT ![r] = Append(@, Tok("gen", t))]
      BY <2>2
    <3>2. t \in Words
      BY <1>5, RepliesType
    <3>3. \A i \in 1 .. Len(hist[r]) : Append(hist[r], Tok("gen", t))[i] = hist[r][i]
      BY <1>4, <3>2, AppendType
    <3> QED BY <1>0, <1>1, <1>4, <3>1, <3>3 DEF Kept
  <2> QED BY <1>2, <2>1, <2>2
<1>8. Owned'
  <2> SUFFICES ASSUME NEW q \in Request, st'[q] \in {"pass", "yield"}
               PROVE  Evaluated(q, eng, consumed_img)' /\ Pending(q)'
    BY DEF Owned
  <2>1. q = r
    BY <1>3, <1>7
  <2>2. \A i \in now + 1 .. Len(prompt[r].seq) : i \in fed[r] + 1 .. Len(prompt[r].seq)
    BY <1>4
  <2>3. Evaluated(r, eng, consumed_img)'
    BY <1>1, <1>5, <1>7, <2>2 DEF Evaluated, Shows
  <2>4. Pending(r)'
    BY <1>1, <1>6, <1>7, <2>2 DEF Pending, Shows
  <2> QED BY <2>1, <2>3, <2>4
<1>9. Away'
  <2> SUFFICES ASSUME NEW q \in Request, st'[q] = "parked"
               PROVE  /\ Evaluated(q, ticket[q].ck, ticket[q].img)' /\ ticket'[q].parks > 0
                      /\ ticket'[q].epoch # epoch'
    BY DEF Away
  <2>1. q # r /\ st[q] = "parked"
    BY <1>0, <1>1, <1>7 DEF Kept
  <2>2. epoch' \in Nat /\ epoch' >= epoch
    BY <1>0, <1>1 DEF Shared
  <2> QED BY <1>0, <1>1, <1>7, <2>1, <2>2, OthersAway
<1>10. Alone'
  <2>1. \A q \in Request : st'[q] = "parked" => st[q] = "parked"
    BY <1>0, <1>1 DEF Kept
  <2> QED BY <1>0, <2>1 DEF Alone
<1>11. AtRest'
  BY <1>0, <1>1 DEF AtRest
<1>12. Filed'
  <2>1. CASE pool' = pool
    BY <1>0, <2>1 DEF Filed
  <2>2. CASE \E ok \in Outcomes : pool' = BoundarySave(SubSeq(hist[r], 1, now), after, ok)
    <3> DEFINE tok == SubSeq(hist[r], 1, now)
    <3>1. PICK ok \in BOOLEAN : pool' = BoundarySave(tok, after, ok)
      BY <2>2 DEF Outcomes
    <3>2. /\ tok \in Seq(Tokens) /\ Len(tok) = now /\ now < scene.ctx
          /\ \A i \in 1 .. now : tok[i] = hist[r][i]
      BY <1>0, <1>4
    <3> HIDE DEF tok
    <3>3. AfterBoundary(pool', tok, after)
      BY <1>0, <1>5, <3>1, <3>2, BoundaryTakes
    <3>4. tok = Toks(after)
      BY <1>5, <3>2, ToksEqual
    <3>5. FedImages(tok) = Imgs(after)
      <4> DEFINE f == FedImages(tok)
      <4>1. DOMAIN tok = 1 .. now
        BY <3>2
      <4>2. /\ f = [i \in DOMAIN f |-> f[i]] /\ DOMAIN f = DOMAIN consumed_img \cap 1 .. now
            /\ \A i \in DOMAIN f : f[i] = consumed_img[i]
        BY <4>1 DEF FedImages
      <4> HIDE DEF f
      <4>3. DOMAIN f \subseteq 1 .. Len(after)
        BY <1>5, <4>2
      <4>4. \A i \in 1 .. Len(after) : Shows(f, i, after[i].img)
        BY <1>5, <4>2 DEF Shows
      <4>5. f = Imgs(after)
        BY <1>5, <4>2, <4>3, <4>4, ImgsEqual
      <4> QED BY <4>5 DEF f
    <3> SUFFICES ASSUME NEW e \in pool' PROVE e.tok = Toks(e.ck) /\ e.img = Imgs(e.ck)
      BY DEF Filed
    <3>6. CASE IsBoundary(e, tok, after)
      BY <3>4, <3>5, <3>6 DEF IsBoundary
    <3>7. CASE \E h \in pool : Like(e, h)
      BY <1>0, <3>7 DEF Like, Filed
    <3> QED BY <3>3, <3>6, <3>7 DEF AfterBoundary
  <2> QED BY <1>2, <2>1, <2>2
<1> QED BY <1>8, <1>9, <1>10, <1>11, <1>12 DEF Exact

\* The end of a request: what it has had evaluated is what it says was consumed.
LEMMA FinishExact ==
    ASSUME BInv, BInv', Exact, scene' = scene, NEW r \in Request, owner = r,
           NEW s \in Seq(Places), Len(s) <= Len(hist[r]), Len(prompt[r].seq) <= Len(s),
           \A i \in 1 .. Len(s) : s[i].tok = hist[r][i] /\ Shows(consumed_img, i, s[i].img),
           Finish(r, s),
           UNCHANGED <<ov, consumed_img, pool, epoch, prompt, hist, fed, ticket>>
    PROVE  Exact'
<1>0. /\ Shared /\ Kept /\ Lengths /\ TInv /\ Owned /\ Away /\ Alone /\ Filed /\ None \notin Request
  BY RequestsFinite DEF BInv, TInv, Exact
<1>1. /\ eng' = s /\ consumed' = SubSeq(hist[r], 1, Len(s)) /\ owner' = None
      /\ st' = [st EXCEPT ![r] = "done"]
  BY DEF Finish
<1>2. /\ Evaluated(r, eng, consumed_img) /\ Pending(r)
      /\ \A q \in Request \ {r} : st[q] \notin {"pass", "yield"}
  BY <1>0, OwnerHolds DEF Owned
<1>3. /\ \A q \in Request \ {r} : st'[q] = st[q]
      /\ st'[r] = "done"
  BY <1>0, <1>1 DEF Kept
<1>4. Owned'
  BY <1>2, <1>3 DEF Owned
<1>5. Away'
  <2> SUFFICES ASSUME NEW q \in Request, st'[q] = "parked"
               PROVE  /\ Evaluated(q, ticket[q].ck, ticket[q].img)' /\ ticket'[q].parks > 0
                      /\ ticket'[q].epoch # epoch'
    BY DEF Away
  <2>1. q # r /\ st[q] = "parked"
    BY <1>3
  <2>2. epoch' \in Nat /\ epoch' >= epoch
    BY <1>0 DEF Shared
  <2> QED BY <1>0, <2>1, <2>2, OthersAway
<1>6. Alone'
  BY <1>0, <1>3 DEF Alone
<1>7. AtRest'
  <2>1. /\ hist[r] \in Seq(Tokens) /\ Len(hist[r]) \in Nat /\ Len(s) \in Nat
        /\ Len(prompt[r].seq) \in Nat
    BY <1>0 DEF Kept, Prompts
  <2>2. /\ consumed' \in Seq(Tokens) /\ Len(consumed') = Len(s)
        /\ \A i \in 1 .. Len(s) : consumed'[i] = hist[r][i]
    BY <1>1, <2>1
  <2>3. consumed' = Toks(s)
    BY <2>2, ToksEqual
  <2>4. /\ DOMAIN consumed_img \subseteq 1 .. Len(prompt[r].seq)
        /\ DOMAIN ov \subseteq 1 .. Len(prompt[r].seq)
    BY <1>2 DEF Evaluated, Pending
  <2>5. DOMAIN consumed_img \subseteq 1 .. Len(s) /\ DOMAIN ov \subseteq 1 .. Len(s)
    BY <2>1, <2>4
  <2>6. consumed_img = [i \in DOMAIN consumed_img |-> consumed_img[i]]
    BY <1>0 DEF Shared, IsPics
  <2>7. consumed_img = Imgs(s)
    BY <2>5, <2>6, ImgsEqual
  <2> QED BY <1>1, <2>3, <2>5, <2>7 DEF AtRest
<1>8. Filed'
  BY <1>0 DEF Filed
<1> QED BY <1>4, <1>5, <1>6, <1>7, <1>8 DEF Exact

LEMMA EndExact ==
    ASSUME BInv, BInv', Exact, scene' = scene, NEW r \in Request, Decode(r) \/ Truncate(r) \/ Cancel(r)
    PROVE  Exact'
<1>0. TInv /\ Shared /\ Kept /\ Owned
  BY DEF BInv, TInv, Exact
<1>1. /\ owner = r
      /\ \/ HasReply(r) /\ Finish(r, Eval(r, 1))
         \/ (HasReply(r) \/ ~InPrefill(r)) /\ Finish(r, eng)
      /\ UNCHANGED <<ov, consumed_img, pool, epoch, prompt, hist, fed, ticket>>
  BY DEF Decode, Truncate, Cancel
<1>2. st[r] \in {"pass", "yield"} /\ Progress(r) /\ Evaluated(r, eng, consumed_img)
  BY <1>0, <1>1, OwnerHolds DEF Owned
<1>3. /\ eng \in Seq(Places) /\ hist[r] \in Seq(Tokens) /\ Len(hist[r]) \in Nat
      /\ Len(prompt[r].seq) \in Nat /\ fed[r] \in Nat
  BY <1>0, SMTT(30) DEF Shared, Kept, Prompts
<1>4. /\ fed[r] = Len(prompt[r].seq) /\ fed[r] <= Len(hist[r])
      /\ HasReply(r) => fed[r] + 1 <= Len(hist[r])
  BY <1>1, <1>2, <1>3 DEF Progress, HasReply, InPrefill
<1>5. CASE Finish(r, eng)
  <2>1. Len(eng) = fed[r] /\ \A i \in 1 .. Len(eng) : eng[i].tok = hist[r][i] /\ Shows(consumed_img, i, eng[i].img)
    BY <1>2 DEF Evaluated
  <2>2. Len(eng) <= Len(hist[r]) /\ Len(prompt[r].seq) <= Len(eng)
    BY <1>3, <1>4, <2>1
  <2> QED BY <1>1, <1>3, <1>5, <2>1, <2>2, FinishExact
<1>6. CASE HasReply(r) /\ Finish(r, Eval(r, 1))
  <2> DEFINE s == Eval(r, 1)
  <2>1. /\ s \in Seq(Places) /\ Len(s) = fed[r] + 1
        /\ \A i \in 1 .. fed[r] + 1 : s[i].tok = hist[r][i] /\ Shows(consumed_img, i, s[i].img)
    BY <1>0, <1>1, <1>4, <1>6, EvalExact
  <2> HIDE DEF s
  <2>2. Len(s) <= Len(hist[r]) /\ Len(prompt[r].seq) <= Len(s) /\ Finish(r, s)
    BY <1>3, <1>4, <1>6, <2>1 DEF s
  <2> QED BY <1>1, <2>1, <2>2, FinishExact
<1> QED BY <1>1, <1>5, <1>6

LEMMA FailExact ==
    ASSUME BInv, BInv', Exact, scene' = scene, NEW r \in Request, Fail(r)
    PROVE  Exact'
<1>0. /\ Shared /\ Kept /\ TInv /\ Away /\ Alone /\ Filed
  BY DEF BInv, TInv, Exact
<1>1. /\ owner = r /\ consumed' = <<>> /\ st' = [st EXCEPT ![r] = "done"]
      /\ UNCHANGED <<pool, epoch, prompt, hist, fed, ticket>>
  BY DEF Fail, Forget
<1>2. /\ \A q \in Request \ {r} : st'[q] = st[q] /\ st[q] \notin {"pass", "yield"}
      /\ st'[r] = "done"
  BY <1>0, <1>1, OwnerHolds DEF Kept
<1>3. Away'
  <2> SUFFICES ASSUME NEW q \in Request, st'[q] = "parked"
               PROVE  /\ Evaluated(q, ticket[q].ck, ticket[q].img)' /\ ticket'[q].parks > 0
                      /\ ticket'[q].epoch # epoch'
    BY DEF Away
  <2>1. q # r /\ st[q] = "parked"
    BY <1>2
  <2>2. epoch' \in Nat /\ epoch' >= epoch
    BY <1>0, <1>1 DEF Shared
  <2> QED BY <1>0, <1>1, <2>1, <2>2, OthersAway
<1>4. Owned' /\ AtRest' /\ Filed'
  BY <1>0, <1>1, <1>2 DEF Owned, AtRest, Filed
<1>5. Alone'
  BY <1>0, <1>2 DEF Alone
<1> QED BY <1>3, <1>4, <1>5 DEF Exact

\* The parks so far are finitely many, and none before the first request is parked.
LEMMA ParksFinite ==
    ASSUME Kept
    PROVE  LET X == UNION {{q} \X (1 .. ticket[q].parks) : q \in Request}
           IN  IsFiniteSet(X) /\ Parks = Cardinality(X) /\ Parks \in Nat
<1> DEFINE U(q) == {q} \X (1 .. ticket[q].parks)
           f == [q \in Request |-> U(q)]
           X == UNION {U(q) : q \in Request}
<1>1. ASSUME NEW q \in Request PROVE IsFiniteSet(U(q))
  <2>1. IsFiniteSet({q})
    BY FS_Singleton
  <2>2. ticket[q].parks \in Nat
    BY DEF Kept, IsTicket
  <2>3. IsFiniteSet(1 .. ticket[q].parks)
    BY <2>2, FS_Interval
  <2> QED BY <2>1, <2>3, FS_Product
<1>2. IsFiniteSet({U(q) : q \in Request})
  <2> HIDE DEF U
  <2>1. f \in Surjection(Request, {U(q) : q \in Request})
    BY DEF Surjection
  <2> QED BY <2>1, RequestsFinite, FS_Surjection
<1>3. IsFiniteSet(X)
  <2> HIDE DEF U
  <2>1. \A Y \in {U(q) : q \in Request} : IsFiniteSet(Y)
    BY <1>1
  <2> QED BY <1>2, <2>1, FS_UNION
<1>4. Parks = Cardinality(X)
  BY DEF Parks
<1> HIDE DEF X
<1>5. Cardinality(X) \in Nat
  BY <1>3, FS_CardinalityType
<1> QED BY <1>3, <1>4, <1>5 DEF X

LEMMA NoneParked ==
    ASSUME Kept, Away, Parks < 1
    PROVE  \A r \in Request : st[r] # "parked"
<1> SUFFICES ASSUME NEW r \in Request, st[r] = "parked" PROVE FALSE
  OBVIOUS
<1> DEFINE X == UNION {{q} \X (1 .. ticket[q].parks) : q \in Request}
<1>1. IsFiniteSet(X) /\ Parks = Cardinality(X) /\ Parks \in Nat
  BY ParksFinite
<1>2. <<r, 1>> \in X
  <2>1. ticket[r].parks \in Nat /\ ticket[r].parks > 0
    BY DEF Kept, IsTicket, Away
  <2>2. <<r, 1>> \in {r} \X (1 .. ticket[r].parks)
    BY <2>1
  <2> QED BY <2>2
<1> HIDE DEF X
<1>3. Cardinality(X) # 0
  BY <1>1, <1>2, FS_EmptySet
<1> QED BY <1>1, <1>3

LEMMA ParkExact ==
    ASSUME BInv, BInv', Exact, Sound, scene' = scene, NEW r \in Request, Park(r)
    PROVE  Exact'
<1> DEFINE room == EvictTo(pool, Len(eng), 0, ParkedBytes)
<1>0. /\ Shared /\ Kept /\ TInv /\ Owned /\ Away /\ Alone /\ Filed
      /\ epoch \in Nat /\ scene.parks \in Nat
  BY Settings DEF BInv, TInv, Exact, Shared
<1>1. /\ owner = r /\ Parks < scene.parks /\ pool' = room
      /\ ticket' = [ticket EXCEPT ![r] = [ck |-> eng, epoch |-> epoch + 1, last |-> last,
                                          img |-> consumed_img, parks |-> @.parks + 1]]
      /\ consumed' = <<>> /\ epoch' = epoch + 1
      /\ st' = [st EXCEPT ![r] = "parked"]
      /\ UNCHANGED <<eng, ov, prompt, hist, fed>>
  BY DEF Park, ShouldYield
<1>2. /\ \A q \in Request \ {r} : st'[q] = st[q] /\ st[q] \notin {"pass", "yield"}
      /\ st'[r] = "parked"
      /\ Evaluated(r, eng, consumed_img) /\ Pending(r)
  BY <1>0, <1>1, OwnerHolds DEF Kept, Owned
<1>3. /\ \A q \in Request \ {r} : ticket'[q] = ticket[q]
      /\ ticket'[r].ck = eng /\ ticket'[r].img = consumed_img
      /\ ticket'[r].parks = ticket[r].parks + 1
  BY <1>0, <1>1 DEF Kept
<1>4. Away'
  <2> SUFFICES ASSUME NEW q \in Request, st'[q] = "parked"
               PROVE  /\ Evaluated(q, ticket[q].ck, ticket[q].img)' /\ ticket'[q].parks > 0
                      /\ ticket'[q].epoch = epoch' => eng' = ticket'[q].ck /\ Pending(q)'
    BY DEF Away
  <2>1. CASE q = r
    <3>1. ticket[r].parks \in Nat
      BY <1>0 DEF Kept, IsTicket
    <3>2. Evaluated(r, ticket[r].ck, ticket[r].img)'
      BY <1>1, <1>2, <1>3 DEF Evaluated, Shows
    <3>3. Pending(r)'
      BY <1>1, <1>2 DEF Pending, Shows
    <3> QED BY <1>1, <1>3, <2>1, <3>1, <3>2, <3>3
  <2>2. CASE q # r
    <3>1. epoch' \in Nat /\ epoch' >= epoch /\ st[q] = "parked"
      BY <1>0, <1>1, <1>2, <2>2
    <3> QED BY <1>0, <1>1, <1>3, <2>2, <3>1, OthersAway
  <2> QED BY <2>1, <2>2
<1>5. Alone'
  <2> SUFFICES ASSUME "resume" \in scene.events
               PROVE  \A q \in Request \ {r} : st[q] # "parked"
    BY <1>2 DEF Alone
  <2>1. Parks < 1
    <3>1. scene.parks = 0 \/ scene.parks = 1
      BY <1>0 DEF Sound
    <3>2. CASE scene.parks = 1
      BY <1>1, <3>2
    <3>3. CASE scene.parks = 0
      <4>1. Parks < 0
        BY <1>1, <3>3
      <4> QED BY <1>0, <4>1, ParksFinite
    <3> QED BY <3>1, <3>2, <3>3
  <2> QED BY <1>0, <2>1, NoneParked
<1>6. Owned' /\ AtRest' /\ Filed'
  <2>1. room \subseteq pool
    BY EvictKeeps
  <2> HIDE DEF room
  <2> QED BY <1>0, <1>1, <1>2, <2>1 DEF Owned, AtRest, Filed
<1> QED BY <1>4, <1>5, <1>6 DEF Exact

LEMMA RefusedExact ==
    ASSUME BInv, BInv', Exact, scene' = scene, NEW r \in Request, ParkRefused(r)
    PROVE  Exact'
<1> DEFINE room == EvictTo(pool, Len(eng), 0, ParkedBytes)
<1>0. /\ Shared /\ Kept /\ TInv /\ Owned /\ Away /\ Alone /\ Filed /\ None \notin Request
  BY RequestsFinite DEF BInv, TInv, Exact
<1>1. /\ owner = r /\ (pool' = room \/ pool' = pool) /\ st' = [st EXCEPT ![r] = "pass"]
      /\ UNCHANGED <<eng, ov, consumed, consumed_img, epoch, owner, prompt, hist, fed, ticket>>
  BY DEF ParkRefused, ShouldYield
<1>2. /\ \A q \in Request \ {r} : st'[q] = st[q] /\ st[q] \notin {"pass", "yield"}
      /\ st'[r] = "pass"
      /\ Evaluated(r, eng, consumed_img) /\ Pending(r)
  BY <1>0, <1>1, OwnerHolds DEF Kept, Owned
<1>3. Owned'
  BY <1>1, <1>2 DEF Owned, Evaluated, Pending, Shows
<1>4. Away'
  <2> SUFFICES ASSUME NEW q \in Request, st'[q] = "parked"
               PROVE  /\ Evaluated(q, ticket[q].ck, ticket[q].img)' /\ ticket'[q].parks > 0
                      /\ ticket'[q].epoch # epoch'
    BY DEF Away
  <2>1. q # r /\ st[q] = "parked"
    BY <1>2
  <2>2. epoch' \in Nat /\ epoch' >= epoch
    BY <1>0, <1>1 DEF Shared
  <2> QED BY <1>0, <1>1, <2>1, <2>2, OthersAway
<1>5. AtRest' /\ Filed'
  <2>1. room \subseteq pool
    BY EvictKeeps
  <2> HIDE DEF room
  <2> QED BY <1>0, <1>1, <2>1 DEF AtRest, Filed
<1>6. Alone'
  BY <1>0, <1>2 DEF Alone
<1> QED BY <1>3, <1>4, <1>5, <1>6 DEF Exact

\* A request is resumed with what it had: restored, or never lost.
LEMMA ResumeExact ==
    ASSUME BInv, BInv', Exact, scene' = scene, NEW r \in Request, Resume(r)
    PROVE  Exact'
<1>0. /\ Shared /\ Pooled /\ Kept /\ Lengths /\ TInv /\ Away /\ Alone /\ AtRest /\ Filed
      /\ epoch \in Nat /\ None \notin Request /\ ParkedBytes - Len(ticket[r].ck) \in Nat
  BY TicketsHold, RequestsFinite DEF BInv, TInv, Exact, Shared
<1>1. /\ owner = None /\ st[r] = "parked" /\ ticket' = Unparked(r)
      /\ eng' = IF Moved(r) THEN ticket[r].ck ELSE eng
      /\ ov' = IF Moved(r) THEN Embeddings(r) ELSE ov
      /\ consumed_img' = ticket[r].img
      /\ epoch' = epoch + 1 /\ owner' = r /\ st' = [st EXCEPT ![r] = "pass"]
      /\ UNCHANGED <<prompt, hist, fed>>
  BY DEF Resume
<1>2. \/ pool' = pool
      \/ \E ok \in Outcomes : pool' = Save(0, ParkedBytes - Len(ticket[r].ck), ok)
  BY DEF Resume
<1>3. /\ Evaluated(r, ticket[r].ck, ticket[r].img) /\ Progress(r)
      /\ ~Moved(r) => eng = ticket[r].ck /\ Pending(r)
      /\ prompt[r].seq \in Seq(Places) /\ Len(prompt[r].seq) \in Nat /\ fed[r] \in Nat
  <2>1. Progress(r)
    BY <1>0, <1>1 DEF Lengths
  <2>2. prompt[r] \in Prompts /\ fed[r] \in Nat
    BY <1>0 DEF Kept
  <2>3. prompt[r].seq \in Seq(Places)
    BY <2>2 DEF Prompts
  <2> QED BY <1>0, <1>1, <2>1, <2>2, <2>3 DEF Away, Moved
<1>4. eng' = ticket[r].ck
  BY <1>1, <1>3
<1>5. /\ DOMAIN ov' \subseteq 1 .. Len(prompt[r].seq)
      /\ \A i \in fed[r] + 1 .. Len(prompt[r].seq) : Shows(ov', i, prompt[r].seq[i].img)
  <2>1. CASE ~Moved(r)
    BY <1>1, <1>3, <2>1 DEF Pending
  <2>2. CASE Moved(r) /\ InPrefill(r)
    <3>1. ov' = Imgs(prompt[r].seq)
      BY <1>1, <2>2 DEF Embeddings
    <3>2. /\ DOMAIN Imgs(prompt[r].seq) \subseteq 1 .. Len(prompt[r].seq)
          /\ \A i \in 1 .. Len(prompt[r].seq) : Shows(Imgs(prompt[r].seq), i, prompt[r].seq[i].img)
      BY <1>3, ImgsType
    <3> QED BY <1>3, <3>1, <3>2
  <2>3. CASE Moved(r) /\ ~InPrefill(r)
    <3>1. ov' = NoImgs
      BY <1>1, <2>3 DEF Embeddings
    <3>2. fed[r] >= Len(prompt[r].seq)
      BY <1>3, <2>3 DEF InPrefill
    <3> QED BY <1>3, <3>1, <3>2, NoImgsEmpty
  <2> QED BY <2>1, <2>2, <2>3
<1>6. /\ \A q \in Request \ {r} : ticket'[q] = ticket[q] /\ st'[q] = st[q]
      /\ st'[r] = "pass"
      /\ \A q \in Request : st[q] \notin {"pass", "yield"}
  BY <1>0, <1>1, UnparkedType DEF Kept
<1>7. Owned'
  <2> SUFFICES ASSUME NEW q \in Request, st'[q] \in {"pass", "yield"}
               PROVE  Evaluated(q, eng, consumed_img)' /\ Pending(q)'
    BY DEF Owned
  <2>1. q = r
    BY <1>6
  <2>2. Evaluated(r, eng, consumed_img)'
    BY <1>1, <1>3, <1>4 DEF Evaluated, Shows
  <2>3. Pending(r)'
    BY <1>1, <1>5 DEF Pending, Shows
  <2> QED BY <2>1, <2>2, <2>3
<1>8. Away'
  <2> SUFFICES ASSUME NEW q \in Request, st'[q] = "parked"
               PROVE  /\ Evaluated(q, ticket[q].ck, ticket[q].img)' /\ ticket'[q].parks > 0
                      /\ ticket'[q].epoch # epoch'
    BY DEF Away
  <2>1. q # r /\ st[q] = "parked" /\ ticket'[q] = ticket[q]
    BY <1>6
  <2>2. ticket[q].epoch <= epoch /\ ticket[q].epoch \in Nat
    BY <1>0, <2>1 DEF Lengths, Kept, IsTicket
  <2> QED BY <1>0, <1>1, <2>1, <2>2, AwayNext
<1>9. Alone' /\ AtRest'
  BY <1>0, <1>1, <1>6 DEF Alone, AtRest
<1>10. Filed'
  <2>1. CASE pool' = pool
    BY <1>0, <2>1 DEF Filed
  <2>2. CASE \E ok \in Outcomes : pool' = Save(0, ParkedBytes - Len(ticket[r].ck), ok)
    <3> DEFINE held == ParkedBytes - Len(ticket[r].ck)
    <3>1. PICK ok \in BOOLEAN : pool' = Save(0, held, ok)
      BY <2>2 DEF Outcomes
    <3>2. held \in Nat
      BY <1>0
    <3> HIDE DEF held
    <3>3. AfterSave(pool', 0, held)
      BY <1>0, <3>1, <3>2, SaveTakes
    <3> QED BY <1>0, <1>1, <3>3, FiledNext DEF AfterSave
  <2> QED BY <1>2, <2>1, <2>2
<1> QED BY <1>7, <1>8, <1>9, <1>10 DEF Exact

\* A client leaves while its request is parked, and the engine is someone else's.
LEMMA AbandonExact ==
    ASSUME BInv, BInv', Exact, scene' = scene, NEW r \in Request, Abandon(r)
    PROVE  Exact'
<1>0. /\ Shared /\ Kept /\ Away /\ Alone /\ AtRest /\ Filed /\ None \notin Request
  BY RequestsFinite DEF BInv, TInv, Exact
<1>1. /\ owner = None /\ st[r] = "parked" /\ ticket' = Unparked(r)
      /\ st' = [st EXCEPT ![r] = "done"]
      /\ UNCHANGED <<eng, ov, consumed, consumed_img, pool, epoch, owner, prompt, hist, fed>>
  BY DEF Abandon
<1>2. /\ \A q \in Request \ {r} : ticket'[q] = ticket[q] /\ st'[q] = st[q]
      /\ st'[r] = "done"
      /\ \A q \in Request : st[q] \notin {"pass", "yield"}
  BY <1>0, <1>1, UnparkedType DEF Kept
<1>3. Away'
  <2> SUFFICES ASSUME NEW q \in Request, st'[q] = "parked"
               PROVE  /\ Evaluated(q, ticket[q].ck, ticket[q].img)' /\ ticket'[q].parks > 0
                      /\ ticket'[q].epoch = epoch' => eng' = ticket'[q].ck /\ Pending(q)'
    BY DEF Away
  <2>1. q # r /\ st[q] = "parked" /\ ticket'[q] = ticket[q]
    BY <1>2
  <2>2. ticket[q].epoch = epoch => eng = ticket[q].ck /\ Pending(q)
    BY <1>0, <2>1 DEF Away
  <2>3. ticket'[q].epoch = epoch' => eng' = ticket'[q].ck /\ Pending(q)'
    BY <1>1, <2>1, <2>2 DEF Pending, Shows
  <2> QED BY <1>0, <1>1, <2>1, <2>3, AwayNext
<1>4. Owned' /\ Alone' /\ AtRest' /\ Filed'
  BY <1>0, <1>1, <1>2 DEF Owned, Alone, AtRest, Filed
<1> QED BY <1>3, <1>4 DEF Exact

\* A resume that fails: nobody else is parked.
LEMMA ResumeFailsExact ==
    ASSUME BInv, BInv', Exact, scene' = scene, NEW r \in Request, ResumeFails(r)
    PROVE  Exact'
<1>0. /\ Shared /\ Pooled /\ Kept /\ Alone /\ AtRest /\ Filed
      /\ ParkedBytes - Len(ticket[r].ck) \in Nat /\ None \notin Request
  BY TicketsHold, RequestsFinite DEF BInv, TInv, Exact
<1>1. /\ owner = None /\ st[r] = "parked" /\ "resume" \in scene.events
      /\ consumed' = <<>> /\ st' = [st EXCEPT ![r] = "done"] /\ owner' = owner
  BY DEF ResumeFails, Forget
<1>2. /\ \A q \in Request \ {r} : st'[q] = st[q] /\ st[q] # "parked"
      /\ st'[r] = "done"
      /\ \A q \in Request : st[q] \notin {"pass", "yield"}
  BY <1>0, <1>1 DEF Kept, Alone
<1>3. Owned' /\ Away' /\ Alone' /\ AtRest'
  BY <1>1, <1>2 DEF Owned, Away, Alone, AtRest
<1>4. Filed'
  <2> DEFINE held == ParkedBytes - Len(ticket[r].ck)
  <2>1. PICK ok \in BOOLEAN : pool' = Save(0, held, ok)
    BY DEF ResumeFails, Outcomes
  <2>2. held \in Nat
    BY <1>0
  <2> HIDE DEF held
  <2>3. AfterSave(pool', 0, held)
    BY <1>0, <2>1, <2>2, SaveTakes
  <2> QED BY <1>0, <1>1, <2>3, FiledNext DEF AfterSave
<1> QED BY <1>3, <1>4 DEF Exact

-----------------------------------------------------------------------------
LEMMA InitExact == ASSUME Init PROVE Exact
<1>1. /\ \A r \in Request : st[r] = "new"
      /\ consumed = <<>> /\ pool = {}
  BY DEF Init
<1> QED BY <1>1 DEF Exact, Owned, Away, Alone, AtRest, Filed

LEMMA StutterExact == ASSUME Exact, UNCHANGED vars PROVE Exact'
<1>1. /\ scene' = scene /\ eng' = eng /\ ov' = ov /\ consumed' = consumed
      /\ consumed_img' = consumed_img /\ pool' = pool /\ epoch' = epoch /\ owner' = owner
      /\ st' = st /\ prompt' = prompt /\ hist' = hist /\ fed' = fed /\ ticket' = ticket
  BY DEF vars
<1>2. Owned' /\ Away'
  BY <1>1 DEF Exact, Owned, Away, Evaluated, Pending, Shows
<1>3. Alone' /\ AtRest' /\ Filed'
  BY <1>1 DEF Exact, Alone, AtRest, Filed
<1> QED BY <1>2, <1>3 DEF Exact

LEMMA NextExact == ASSUME BInv, BInv', Exact, Sound, [Next]_vars PROVE Exact'
<1>1. CASE UNCHANGED vars
  BY <1>1, StutterExact
<1>2. CASE Next
  <2>1. scene' = scene
    BY <1>2 DEF Next
  <2>2. PICK r \in Request :
          \/ Begin(r) \/ Prefill(r) \/ Decode(r) \/ Truncate(r) \/ Cancel(r) \/ Fail(r)
          \/ Park(r) \/ ParkRefused(r) \/ Resume(r) \/ ResumeFails(r) \/ Abandon(r)
    BY <1>2 DEF Next
  <2>3. CASE Begin(r)
    BY <2>1, <2>3, BeginExact
  <2>4. CASE Prefill(r)
    BY <2>1, <2>4, PrefillExact
  <2>5. CASE Decode(r) \/ Truncate(r) \/ Cancel(r)
    BY <2>1, <2>5, EndExact
  <2>6. CASE Fail(r)
    BY <2>1, <2>6, FailExact
  <2>7. CASE Park(r)
    BY <2>1, <2>7, ParkExact
  <2>8. CASE ParkRefused(r)
    BY <2>1, <2>8, RefusedExact
  <2>9. CASE Resume(r)
    BY <2>1, <2>9, ResumeExact
  <2>10. CASE ResumeFails(r)
    BY <2>1, <2>10, ResumeFailsExact
  <2>11. CASE Abandon(r)
    BY <2>1, <2>11, AbandonExact
  <2> QED BY <2>2, <2>3, <2>4, <2>5, <2>6, <2>7, <2>8, <2>9, <2>10, <2>11
<1> QED BY <1>1, <1>2

LEMMA ExactHolds == Spec => [](BInv /\ EInv)
<1>1. Init => BInv /\ EInv
  BY InitTypes, InitExact DEF EInv
<1>2. BInv /\ EInv /\ [Next]_vars => BInv' /\ EInv'
  <2> SUFFICES ASSUME BInv, EInv, [Next]_vars PROVE BInv' /\ EInv'
    OBVIOUS
  <2>1. BInv'
    BY NextTypes
  <2>2. scene' = scene
    BY DEF Next, vars
  <2>3. Sound' => Sound
    BY <2>2 DEF Sound
  <2>4. Sound => Exact'
    BY <2>1, NextExact DEF EInv
  <2> QED BY <2>1, <2>3, <2>4 DEF EInv
<1> QED BY <1>1, <1>2, PTL DEF Spec

\* The scenes where a resume may fail park one request at a time.
FailsAlone == \A c \in Scenes : "resume" \in c.events => c.parks <= 1

LEMMA AllSound == ASSUME FailsAlone, BInv, EInv PROVE Exact
BY DEF FailsAlone, Sound, BInv, TInv, Shared, EInv

\* Between requests, S.consumed and S.consumed_img are what the engine has evaluated, token by
\* token and image by image, whatever was reused, restored, parked, cancelled or failed.
THEOREM ConsumedHolds ==
    ASSUME FailsAlone
    PROVE  Spec => []EngineIsConsumed
<1>1. BInv /\ EInv => EngineIsConsumed
  BY AllSound DEF Exact, AtRest, EngineIsConsumed
<1> QED BY <1>1, ExactHolds, PTL

\* Every checkpoint in the pool holds the tokens and the images it is filed under, whoever's
\* sequence was saved and whenever.
THEOREM PoolHolds ==
    ASSUME FailsAlone
    PROVE  Spec => []PoolExact
<1>1. BInv /\ EInv => PoolExact
  BY AllSound, TypesWithin DEF Exact, Filed, PoolExact
<1> QED BY <1>1, ExactHolds, PTL

\* What the request that holds the lock computes on: its own tokens, as far as they were
\* evaluated, and the images consumed_img gives them.
OwnTokens ==
    \A r \in Request : owner = r =>
        /\ Toks(eng) = SubSeq(hist[r], 1, fed[r])
        /\ \A i \in 1 .. Len(eng) : Shows(consumed_img, i, eng[i].img)

LEMMA TokensOwn == ASSUME FailsAlone, BInv, EInv PROVE OwnTokens
<1> SUFFICES ASSUME NEW r \in Request, owner = r
             PROVE  /\ Toks(eng) = SubSeq(hist[r], 1, fed[r])
                    /\ \A i \in 1 .. Len(eng) : Shows(consumed_img, i, eng[i].img)
  BY DEF OwnTokens
<1>1. Shared /\ Kept /\ TInv
  BY DEF BInv, TInv
<1>2. st[r] \in {"pass", "yield"} /\ Progress(r)
  BY <1>1, OwnerHolds
<1>3. Evaluated(r, eng, consumed_img)
  BY <1>2, AllSound DEF Exact, Owned
<1>4. /\ eng \in Seq(Places) /\ hist[r] \in Seq(Tokens) /\ fed[r] \in Nat /\ fed[r] <= Len(hist[r])
  BY <1>1, <1>2 DEF Shared, Kept, Prompts, Progress
<1> DEFINE w == SubSeq(hist[r], 1, fed[r])
<1>5. w \in Seq(Tokens) /\ Len(w) = fed[r] /\ \A i \in 1 .. fed[r] : w[i] = hist[r][i]
  BY <1>4
<1> HIDE DEF w
<1>6. /\ Len(eng) = fed[r] /\ \A i \in 1 .. Len(eng) : eng[i].tok = hist[r][i]
      /\ \A i \in 1 .. Len(eng) : Shows(consumed_img, i, eng[i].img)
  BY <1>3 DEF Evaluated
<1>7. w = Toks(eng)
  BY <1>4, <1>5, <1>6, ToksEqual
<1> QED BY <1>6, <1>7 DEF w

\* The request that holds the lock computes on its own tokens, all those generate() has had
\* evaluated and no more, whoever had the engine while it was parked; and consumed_img has the
\* image each of them was evaluated with.  (The first half of ContextIsRequest.)
THEOREM ContextHolds ==
    ASSUME FailsAlone
    PROVE  Spec => []OwnTokens
<1>1. BInv /\ EInv => OwnTokens
  BY TokensOwn
<1> QED BY <1>1, ExactHolds, PTL

-----------------------------------------------------------------------------
\* What a sequence says, by recursion on its places.
SaidTo(f, s, m) ==
    f = [n \in 0 .. m |-> IF n = 0 THEN <<>>
                          ELSE IF Speaks(s[n]) THEN Append(f[n - 1], Says(s[n])) ELSE f[n - 1]]

LEMMA SaidExists == ASSUME NEW s PROVE \A m \in Nat : \E f : SaidTo(f, s, m)
<1> DEFINE Without == {m \in Nat : ~\E f : SaidTo(f, s, m)}
           Step(g, n) == IF Speaks(s[n]) THEN Append(g[n - 1], Says(s[n])) ELSE g[n - 1]
<1>1. SUFFICES ASSUME Without # {} PROVE FALSE
  OBVIOUS
<1>2. PICK m \in Without : \A k \in Without : m <= k
  BY <1>1, LeastNat
<1>3. m # 0
  <2>1. SaidTo([n \in 0 .. 0 |-> <<>>], s, 0)
    BY DEF SaidTo
  <2> QED BY <1>2, <2>1
<1>4. PICK f : SaidTo(f, s, m - 1)
  <2>1. m - 1 \in Nat /\ ~(m <= m - 1)
    BY <1>2, <1>3
  <2>2. m - 1 \notin Without
    BY <1>2, <2>1
  <2> QED BY <2>1, <2>2
<1> DEFINE g == [n \in 0 .. m |-> IF n = m THEN Step(f, m) ELSE f[n]]
<1>5. SaidTo(g, s, m)
  <2>1. ASSUME NEW n \in 0 .. m PROVE g[n] = IF n = 0 THEN <<>> ELSE Step(g, n)
    <3>1. CASE n = m
      <4>1. g[m] = Step(f, m) /\ g[m - 1] = f[m - 1]
        BY <1>2, <1>3
      <4> QED BY <1>3, <3>1, <4>1
    <3>2. CASE n # m
      <4>1. n \in 0 .. m - 1 /\ (n # 0 => n - 1 \in 0 .. m - 1 /\ n - 1 # m)
        BY <1>2, <3>2
      <4>2. g[n] = f[n] /\ (n # 0 => g[n - 1] = f[n - 1])
        BY <1>2, <3>2, <4>1
      <4>3. f[n] = IF n = 0 THEN <<>> ELSE Step(f, n)
        BY <1>4, <4>1 DEF SaidTo
      <4> QED BY <4>2, <4>3
    <3> QED BY <3>1, <3>2
  <2>2. g = [n \in 0 .. m |-> g[n]]
    OBVIOUS
  <2> HIDE DEF g
  <2>3. [n \in 0 .. m |-> g[n]] = [n \in 0 .. m |-> IF n = 0 THEN <<>> ELSE Step(g, n)]
    BY <2>1
  <2>4. g = [n \in 0 .. m |-> IF n = 0 THEN <<>> ELSE Step(g, n)]
    BY <2>2, <2>3
  <2> QED BY <2>4 DEF SaidTo, Step
<1> QED BY <1>2, <1>5

\* Two sequences that begin with the same n places have said the same by then.
LEMMA SaidSame ==
    ASSUME NEW s, NEW t, NEW f, NEW g, NEW m \in Nat, NEW k \in Nat, m <= k,
           SaidTo(f, s, m), SaidTo(g, t, k), \A i \in 1 .. m : s[i] = t[i]
    PROVE  \A n \in 0 .. m : f[n] = g[n]
<1> DEFINE Apart == {n \in 0 .. m : f[n] # g[n]}
<1>1. SUFFICES ASSUME Apart # {} PROVE FALSE
  OBVIOUS
<1>2. PICK n \in Apart : \A j \in Apart : n <= j
  <2>1. Apart \in SUBSET Nat
    OBVIOUS
  <2> QED BY <1>1, <2>1, LeastNat
<1>3. /\ f[n] = IF n = 0 THEN <<>> ELSE IF Speaks(s[n]) THEN Append(f[n - 1], Says(s[n])) ELSE f[n - 1]
      /\ g[n] = IF n = 0 THEN <<>> ELSE IF Speaks(t[n]) THEN Append(g[n - 1], Says(t[n])) ELSE g[n - 1]
  <2>1. n \in 0 .. m /\ n \in 0 .. k
    BY <1>2
  <2>2. f[n] = IF n = 0 THEN <<>> ELSE IF Speaks(s[n]) THEN Append(f[n - 1], Says(s[n])) ELSE f[n - 1]
    BY <2>1 DEF SaidTo
  <2>3. g[n] = IF n = 0 THEN <<>> ELSE IF Speaks(t[n]) THEN Append(g[n - 1], Says(t[n])) ELSE g[n - 1]
    BY <2>1 DEF SaidTo
  <2> QED BY <2>2, <2>3
<1>4. n # 0 => f[n - 1] = g[n - 1] /\ s[n] = t[n]
  <2> HAVE n # 0
  <2>1. n - 1 \in 0 .. m /\ n \in 1 .. m /\ ~(n <= n - 1)
    BY <1>2
  <2>2. n - 1 \notin Apart
    BY <1>2, <2>1
  <2> QED BY <2>1, <2>2
<1>5. f[n] # g[n]
  BY <1>2
<1> QED BY <1>3, <1>4, <1>5

\* A place more.
LEMMA MeaningMore ==
    ASSUME NEW s \in Seq(Places), NEW p \in Places
    PROVE  Meaning(Append(s, p)) = IF Speaks(p) THEN Append(Meaning(s), Says(p)) ELSE Meaning(s)
<1> DEFINE t == Append(s, p)
           m == Len(s)
           k == Len(t)
<1>1. m \in Nat /\ k = m + 1 /\ t[k] = p /\ \A i \in 1 .. m : s[i] = t[i]
  OBVIOUS
<1> DEFINE f == CHOOSE f : SaidTo(f, s, m)
           g == CHOOSE g : SaidTo(g, t, k)
<1>2. Meaning(s) = f[m] /\ Meaning(t) = g[k]
  BY DEF Meaning, SaidTo
<1> HIDE DEF t, k, m
<1>3. SaidTo(f, s, m) /\ SaidTo(g, t, k)
  <2>1. k \in Nat
    BY <1>1
  <2>2. SaidTo(f, s, m)
    BY <1>1, SaidExists
  <2>3. SaidTo(g, t, k)
    BY <2>1, SaidExists
  <2> QED BY <2>2, <2>3
<1> HIDE DEF f, g
<1>4. f[m] = g[m]
  BY <1>1, <1>3, SaidSame
<1>5. g[k] = IF Speaks(t[k]) THEN Append(g[k - 1], Says(t[k])) ELSE g[k - 1]
  <2>1. k \in 0 .. k /\ k # 0
    BY <1>1
  <2> QED BY <1>3, <2>1 DEF SaidTo
<1>6. k - 1 = m
  BY <1>1
<1>7. Meaning(t) = IF Speaks(p) THEN Append(Meaning(s), Says(p)) ELSE Meaning(s)
  BY <1>1, <1>2, <1>4, <1>5, <1>6
<1> QED BY <1>7 DEF t

LEMMA MeaningNone == Meaning(<<>>) = <<>>
<1> DEFINE s == <<>>
           f == CHOOSE f : SaidTo(f, s, 0)
<1>0. Len(s) = 0
  OBVIOUS
<1> HIDE DEF s
<1>1. SaidTo(f, s, 0)
  BY SaidExists
<1>2. Meaning(s) = f[0]
  BY <1>0 DEF Meaning, SaidTo
<1> HIDE DEF f
<1>3. f[0] = <<>>
  BY <1>1 DEF SaidTo
<1> QED BY <1>2, <1>3 DEF s

-----------------------------------------------------------------------------
\* The tokens alone, images left out: what a sequence of them tells, and the words of messages.
Plain(w) == [i \in 1 .. Len(w) |-> At(w[i], NoImage)]
Told(w) == Meaning(Plain(w))
Bare(m) == [i \in 1 .. Len(m) |-> [m[i] EXCEPT !.img = NoImage]]

LEMMA PlainHolds ==
    ASSUME NEW w \in Seq(Tokens)
    PROVE  /\ Plain(w) \in Seq(Places) /\ Len(Plain(w)) = Len(w)
           /\ \A i \in 1 .. Len(w) : Plain(w)[i] = At(w[i], NoImage)
<1>1. \A i \in 1 .. Len(w) : At(w[i], NoImage) \in Places
  BY PlainType
<1>2. Len(w) \in Nat
  OBVIOUS
<1> QED BY <1>1, <1>2 DEF Plain

LEMMA ToldNone == Told(<<>>) = <<>>
<1>1. Plain(<<>>) = <<>>
  BY DEF Plain
<1> QED BY <1>1, MeaningNone DEF Told

LEMMA ToldMore ==
    ASSUME NEW w \in Seq(Tokens), NEW t \in Tokens
    PROVE  Told(Append(w, t)) = IF Speaks(At(t, NoImage)) THEN Append(Told(w), Says(At(t, NoImage)))
                                ELSE Told(w)
<1> DEFINE v == Append(w, t)
           p == At(t, NoImage)
<1>1. v \in Seq(Tokens) /\ Len(v) = Len(w) + 1 /\ Len(w) \in Nat /\ v[Len(w) + 1] = t
      /\ \A i \in 1 .. Len(w) : v[i] = w[i]
  OBVIOUS
<1> HIDE DEF v
<1>2. p \in Places
  BY PlainType
<1>3. /\ Plain(w) \in Seq(Places) /\ Len(Plain(w)) = Len(w)
      /\ \A i \in 1 .. Len(w) : Plain(w)[i] = At(w[i], NoImage)
  BY PlainHolds
<1>4. /\ Plain(v) \in Seq(Places) /\ Len(Plain(v)) = Len(v)
      /\ \A i \in 1 .. Len(v) : Plain(v)[i] = At(v[i], NoImage)
  BY <1>1, PlainHolds
<1> HIDE DEF p
<1>5. Plain(v) = Append(Plain(w), p)
  <2> DEFINE a == Append(Plain(w), p)
  <2>1. /\ a \in Seq(Places) /\ Len(a) = Len(w) + 1 /\ a[Len(w) + 1] = p
        /\ \A i \in 1 .. Len(w) : a[i] = Plain(w)[i]
    BY <1>2, <1>3
  <2> HIDE DEF a
  <2>2. ASSUME NEW i \in 1 .. Len(v) PROVE Plain(v)[i] = a[i]
    <3>1. i \in 1 .. Len(w) \/ i = Len(w) + 1
      BY <1>1
    <3>2. CASE i \in 1 .. Len(w)
      BY <1>1, <1>3, <1>4, <2>1, <3>2
    <3>3. CASE i = Len(w) + 1
      BY <1>1, <1>4, <2>1, <3>3 DEF p
    <3> QED BY <3>1, <3>2, <3>3
  <2>3. Plain(v) = a
    BY <1>1, <1>4, <2>1, <2>2
  <2> QED BY <2>3 DEF a
<1>6. Meaning(Append(Plain(w), p)) = IF Speaks(p) THEN Append(Meaning(Plain(w)), Says(p)) ELSE Meaning(Plain(w))
  BY <1>2, <1>3, MeaningMore
<1> QED BY <1>5, <1>6 DEF Told, p, v

LEMMA SameSeq ==
    ASSUME NEW S, NEW s \in Seq(S), NEW t \in Seq(S),
           Len(s) = Len(t), \A i \in 1 .. Len(s) : s[i] = t[i]
    PROVE  s = t
OBVIOUS

\* The first tokens of a sequence, one after another.
LEMMA FirstMore ==
    ASSUME NEW S, NEW w \in Seq(S), NEW n \in 1 .. Len(w)
    PROVE  /\ SubSeq(w, 1, n - 1) \in Seq(S) /\ w[n] \in S
           /\ SubSeq(w, 1, n) = Append(SubSeq(w, 1, n - 1), w[n])
<1> DEFINE a == SubSeq(w, 1, n - 1)
           b == SubSeq(w, 1, n)
<1>1. /\ a \in Seq(S) /\ Len(a) = n - 1 /\ \A i \in 1 .. n - 1 : a[i] = w[i]
      /\ b \in Seq(S) /\ Len(b) = n /\ \A i \in 1 .. n : b[i] = w[i]
      /\ w[n] \in S
  OBVIOUS
<1> HIDE DEF a, b
<1>2. b = Append(a, w[n])
  <2> DEFINE c == Append(a, w[n])
  <2>1. c \in Seq(S) /\ Len(c) = n /\ c[n] = w[n] /\ \A i \in 1 .. n - 1 : c[i] = a[i]
    BY <1>1
  <2> HIDE DEF c
  <2>2. \A i \in 1 .. n : i \in 1 .. n - 1 \/ i = n
    OBVIOUS
  <2>3. b = c
    BY <1>1, <2>1, <2>2
  <2> QED BY <2>3 DEF c
<1> QED BY <1>1, <1>2 DEF a, b

\* Beginnings of sequences.
LEMMA PrefixIs ==
    ASSUME NEW S, NEW s \in Seq(S), NEW t \in Seq(S)
    PROVE  IsPrefix(s, t) <=> Len(s) <= Len(t) /\ \A i \in 1 .. Len(s) : s[i] = t[i]
<1>1. ASSUME Len(s) <= Len(t)
      PROVE  SubSeq(s, 1, Len(s)) = SubSeq(t, 1, Len(s)) <=> \A i \in 1 .. Len(s) : s[i] = t[i]
  <2> DEFINE a == SubSeq(s, 1, Len(s))
             b == SubSeq(t, 1, Len(s))
  <2>1. /\ a \in Seq(S) /\ Len(a) = Len(s) /\ \A i \in 1 .. Len(s) : a[i] = s[i]
        /\ b \in Seq(S) /\ Len(b) = Len(s) /\ \A i \in 1 .. Len(s) : b[i] = t[i]
    BY <1>1
  <2> HIDE DEF a, b
  <2>2. ASSUME a = b PROVE \A i \in 1 .. Len(s) : s[i] = t[i]
    BY <2>1, <2>2
  <2>3. ASSUME \A i \in 1 .. Len(s) : s[i] = t[i] PROVE a = b
    <3>1. Len(a) = Len(b) /\ \A i \in 1 .. Len(a) : a[i] = b[i]
      BY <2>1, <2>3
    <3> QED BY <2>1, <3>1, SameSeq
  <2> QED BY <2>2, <2>3 DEF a, b
<1> QED BY <1>1 DEF IsPrefix

LEMMA PrefixTrans ==
    ASSUME NEW S, NEW s \in Seq(S), NEW t \in Seq(S), NEW u \in Seq(S),
           IsPrefix(s, t), IsPrefix(t, u)
    PROVE  IsPrefix(s, u)
<1>1. /\ Len(s) <= Len(t) /\ \A i \in 1 .. Len(s) : s[i] = t[i]
      /\ Len(t) <= Len(u) /\ \A i \in 1 .. Len(t) : t[i] = u[i]
  BY PrefixIs
<1>2. Len(s) \in Nat /\ Len(t) \in Nat /\ Len(u) \in Nat
  OBVIOUS
<1>3. Len(s) <= Len(u) /\ \A i \in 1 .. Len(s) : s[i] = u[i]
  BY <1>1, <1>2
<1> QED BY <1>3, PrefixIs

LEMMA PrefixSelf == ASSUME NEW S, NEW s \in Seq(S) PROVE IsPrefix(s, s)
<1>1. Len(s) <= Len(s)
  OBVIOUS
<1> QED BY <1>1, PrefixIs

LEMMA PrefixMore ==
    ASSUME NEW S, NEW s \in Seq(S), NEW x \in S
    PROVE  IsPrefix(s, s) /\ IsPrefix(s, Append(s, x))
<1>1. /\ Append(s, x) \in Seq(S) /\ Len(s) <= Len(Append(s, x)) /\ Len(s) <= Len(s)
      /\ \A i \in 1 .. Len(s) : s[i] = Append(s, x)[i]
  OBVIOUS
<1> QED BY <1>1, PrefixIs

LEMMA SaysType ==
    ASSUME NEW t \in Tokens
    PROVE  Says(At(t, NoImage)) \in Message
BY DEF Says, At, User, Assistant, Message, Tokens

LEMMA ToldGrows ==
    ASSUME NEW w \in Seq(Tokens), NEW t \in Tokens, Told(w) \in Seq(Message)
    PROVE  Told(Append(w, t)) \in Seq(Message) /\ IsPrefix(Told(w), Told(Append(w, t)))
<1> DEFINE x == Says(At(t, NoImage))
<1>1. x \in Message
  BY SaysType
<1>2. Told(Append(w, t)) = Append(Told(w), x) \/ Told(Append(w, t)) = Told(w)
  BY ToldMore
<1> HIDE DEF x
<1>3. Append(Told(w), x) \in Seq(Message)
  BY <1>1
<1>4. IsPrefix(Told(w), Told(w)) /\ IsPrefix(Told(w), Append(Told(w), x))
  BY <1>1, PrefixMore
<1> QED BY <1>2, <1>3, <1>4

LEMMA ToldType ==
    ASSUME NEW w \in Seq(Tokens)
    PROVE  \A n \in 0 .. Len(w) : Told(SubSeq(w, 1, n)) \in Seq(Message)
<1> DEFINE Bad == {n \in 0 .. Len(w) : Told(SubSeq(w, 1, n)) \notin Seq(Message)}
<1>1. SUFFICES ASSUME Bad # {} PROVE FALSE
  OBVIOUS
<1>2. PICK n \in Bad : \A k \in Bad : n <= k
  <2>1. Bad \in SUBSET Nat
    OBVIOUS
  <2> QED BY <1>1, <2>1, LeastNat
<1>3. n # 0
  <2>1. SubSeq(w, 1, 0) = <<>> /\ <<>> \in Seq(Message)
    OBVIOUS
  <2>2. Told(SubSeq(w, 1, 0)) \in Seq(Message)
    BY <2>1, ToldNone
  <2>3. Told(SubSeq(w, 1, n)) \notin Seq(Message)
    BY <1>2
  <2> HIDE DEF Bad
  <2> QED BY <2>2, <2>3
<1>4. n \in 1 .. Len(w) /\ n - 1 \in 0 .. Len(w) /\ ~(n <= n - 1)
  BY <1>2, <1>3
<1>5. Told(SubSeq(w, 1, n - 1)) \in Seq(Message)
  <2>1. n - 1 \notin Bad
    BY <1>2, <1>4
  <2> QED BY <1>4, <2>1
<1>6. /\ SubSeq(w, 1, n - 1) \in Seq(Tokens) /\ w[n] \in Tokens
      /\ SubSeq(w, 1, n) = Append(SubSeq(w, 1, n - 1), w[n])
  BY <1>4, FirstMore
<1>7. Told(SubSeq(w, 1, n)) \in Seq(Message)
  BY <1>5, <1>6, ToldGrows
<1> QED BY <1>2, <1>7

\* The first tokens tell the first of what all of them tell.
LEMMA ToldPrefix ==
    ASSUME NEW w \in Seq(Tokens)
    PROVE  \A n \in 0 .. Len(w) : IsPrefix(Told(SubSeq(w, 1, n)), Told(w))
<1> DEFINE Bad == {d \in 0 .. Len(w) : ~IsPrefix(Told(SubSeq(w, 1, Len(w) - d)), Told(w))}
<1>0. \A n \in 0 .. Len(w) : Told(SubSeq(w, 1, n)) \in Seq(Message)
  BY ToldType
<1>1. SUFFICES ASSUME Bad # {} PROVE FALSE
  <2>1. SUFFICES ASSUME NEW n \in 0 .. Len(w) PROVE IsPrefix(Told(SubSeq(w, 1, n)), Told(w))
    OBVIOUS
  <2>2. Len(w) - n \in 0 .. Len(w) /\ Len(w) - (Len(w) - n) = n
    OBVIOUS
  <2>3. Len(w) - n \notin Bad
    BY <1>1
  <2> QED BY <2>2, <2>3
<1>2. PICK d \in Bad : \A k \in Bad : d <= k
  <2>1. Bad \in SUBSET Nat
    OBVIOUS
  <2> QED BY <1>1, <2>1, LeastNat
<1> DEFINE n == Len(w) - d
<1>3. d # 0
  <2>1. SubSeq(w, 1, Len(w)) = w /\ Len(w) \in 0 .. Len(w)
    OBVIOUS
  <2>2. Told(w) \in Seq(Message)
    BY <1>0, <2>1
  <2>3. IsPrefix(Told(w), Told(w))
    BY <2>2, PrefixSelf
  <2>4. Len(w) - 0 = Len(w)
    OBVIOUS
  <2>5. ~IsPrefix(Told(SubSeq(w, 1, Len(w) - d)), Told(w))
    BY <1>2
  <2> HIDE DEF Bad
  <2> QED BY <2>1, <2>3, <2>4, <2>5
<1>4. n \in 0 .. Len(w) /\ n + 1 \in 1 .. Len(w) /\ n + 1 - 1 = n /\ d - 1 \in 0 .. Len(w)
      /\ ~(d <= d - 1) /\ Len(w) - (d - 1) = n + 1
  BY <1>2, <1>3
<1>5. IsPrefix(Told(SubSeq(w, 1, n + 1)), Told(w))
  <2>1. d - 1 \notin Bad
    BY <1>2, <1>4
  <2> QED BY <1>4, <2>1
<1> HIDE DEF n
<1>6. /\ SubSeq(w, 1, n) \in Seq(Tokens) /\ w[n + 1] \in Tokens
      /\ SubSeq(w, 1, n + 1) = Append(SubSeq(w, 1, n), w[n + 1])
  BY <1>4, FirstMore
<1>7. /\ Told(SubSeq(w, 1, n)) \in Seq(Message) /\ Told(SubSeq(w, 1, n + 1)) \in Seq(Message)
      /\ Told(w) \in Seq(Message)
  <2>1. SubSeq(w, 1, Len(w)) = w /\ Len(w) \in 0 .. Len(w) /\ n + 1 \in 0 .. Len(w)
    BY <1>4
  <2> QED BY <1>0, <1>4, <2>1
<1>8. IsPrefix(Told(SubSeq(w, 1, n)), Told(SubSeq(w, 1, n + 1)))
  BY <1>6, <1>7, ToldGrows
<1>9. IsPrefix(Told(SubSeq(w, 1, n)), Told(w))
  BY <1>5, <1>7, <1>8, PrefixTrans
<1>10. ~IsPrefix(Told(SubSeq(w, 1, n)), Told(w))
  BY <1>2 DEF n
<1> QED BY <1>9, <1>10

-----------------------------------------------------------------------------
\* Messages without their images.
LEMMA BareHolds ==
    ASSUME NEW m \in Seq(Message)
    PROVE  /\ Bare(m) \in Seq(Message) /\ Len(Bare(m)) = Len(m) /\ Len(m) \in Nat
           /\ \A i \in 1 .. Len(m) : Bare(m)[i] = [m[i] EXCEPT !.img = NoImage]
<1>1. \A i \in 1 .. Len(m) : [m[i] EXCEPT !.img = NoImage] \in Message
  <2>1. \A x \in Message : [x EXCEPT !.img = NoImage] \in Message
    BY DEF Message
  <2>2. \A i \in 1 .. Len(m) : m[i] \in Message
    OBVIOUS
  <2> QED BY <2>1, <2>2
<1>2. Len(m) \in Nat
  OBVIOUS
<1> QED BY <1>1, <1>2 DEF Bare

LEMMA BareMore ==
    ASSUME NEW m \in Seq(Message), NEW x \in Message
    PROVE  Bare(Append(m, x)) = Append(Bare(m), [x EXCEPT !.img = NoImage])
<1> DEFINE y == [x EXCEPT !.img = NoImage]
           v == Append(m, x)
           b == Append(Bare(m), y)
<1>1. /\ v \in Seq(Message) /\ Len(v) = Len(m) + 1 /\ v[Len(m) + 1] = x
      /\ \A i \in 1 .. Len(m) : v[i] = m[i]
  OBVIOUS
<1>2. y \in Message
  BY DEF Message
<1>3. /\ Bare(m) \in Seq(Message) /\ Len(Bare(m)) = Len(m) /\ Len(m) \in Nat
      /\ \A i \in 1 .. Len(m) : Bare(m)[i] = [m[i] EXCEPT !.img = NoImage]
  BY BareHolds
<1> HIDE DEF v
<1>4. /\ Bare(v) \in Seq(Message) /\ Len(Bare(v)) = Len(v)
      /\ \A i \in 1 .. Len(v) : Bare(v)[i] = [v[i] EXCEPT !.img = NoImage]
  BY <1>1, BareHolds
<1>5. /\ b \in Seq(Message) /\ Len(b) = Len(m) + 1 /\ b[Len(m) + 1] = y
      /\ \A i \in 1 .. Len(m) : b[i] = Bare(m)[i]
  BY <1>2, <1>3
<1> HIDE DEF b
<1>6. \A i \in 1 .. Len(v) : Bare(v)[i] = b[i]
  <2> SUFFICES ASSUME NEW i \in 1 .. Len(v) PROVE Bare(v)[i] = b[i]
    OBVIOUS
  <2>1. i \in 1 .. Len(m) \/ i = Len(m) + 1
    BY <1>1, <1>3
  <2>2. CASE i \in 1 .. Len(m)
    <3>1. v[i] = m[i] /\ b[i] = Bare(m)[i] /\ Bare(m)[i] = [m[i] EXCEPT !.img = NoImage]
      BY <1>1, <1>3, <1>5, <2>2
    <3>2. Bare(v)[i] = [v[i] EXCEPT !.img = NoImage]
      BY <1>4
    <3> QED BY <3>1, <3>2
  <2>3. CASE i = Len(m) + 1
    <3>1. v[i] = x /\ b[i] = y
      BY <1>1, <1>5, <2>3
    <3>2. Bare(v)[i] = [v[i] EXCEPT !.img = NoImage]
      BY <1>4
    <3> QED BY <3>1, <3>2 DEF y
  <2> QED BY <2>1, <2>2, <2>3
<1>7. Bare(v) = b
  BY <1>1, <1>4, <1>5, <1>6
<1> QED BY <1>7 DEF v, b, y

LEMMA BareNone == Bare(<<>>) = <<>>
BY DEF Bare

-----------------------------------------------------------------------------
\* What a prompt tells is what the client sent.
LEMMA ToksMore ==
    ASSUME NEW s \in Seq(Places), NEW p \in Places
    PROVE  /\ Append(s, p) \in Seq(Places) /\ Toks(s) \in Seq(Tokens) /\ p.tok \in Tokens
           /\ Toks(Append(s, p)) = Append(Toks(s), p.tok)
<1> DEFINE t == Append(s, p)
           a == Append(Toks(s), p.tok)
<1>1. /\ t \in Seq(Places) /\ Len(t) = Len(s) + 1 /\ t[Len(s) + 1] = p
      /\ \A i \in 1 .. Len(s) : t[i] = s[i]
  OBVIOUS
<1> HIDE DEF t
<1>2. /\ Toks(s) \in Seq(Tokens) /\ Len(Toks(s)) = Len(s) /\ Len(s) \in Nat
      /\ \A i \in 1 .. Len(s) : Toks(s)[i] = s[i].tok
  BY ToksType
<1>3. p.tok \in Tokens
  BY DEF Places
<1>4. /\ a \in Seq(Tokens) /\ Len(a) = Len(s) + 1 /\ a[Len(s) + 1] = p.tok
      /\ \A i \in 1 .. Len(s) : a[i] = Toks(s)[i]
  BY <1>2, <1>3
<1> HIDE DEF a
<1>5. \A i \in 1 .. Len(t) : a[i] = t[i].tok
  <2> SUFFICES ASSUME NEW i \in 1 .. Len(t) PROVE a[i] = t[i].tok
    OBVIOUS
  <2>1. CASE i \in 1 .. Len(s)
    BY <1>1, <1>2, <1>4, <2>1
  <2>2. CASE i = Len(s) + 1
    BY <1>1, <1>4, <2>2
  <2> QED BY <1>1, <1>2, <2>1, <2>2
<1>6. a = Toks(t)
  BY <1>1, <1>4, <1>5, ToksEqual
<1> QED BY <1>1, <1>2, <1>3, <1>6 DEF a, t

\* One more token tells nothing, or a message.
LEMMA TellsMore ==
    ASSUME NEW s \in Seq(Places), NEW p \in Places
    PROVE  Told(Toks(Append(s, p))) =
             IF Speaks(p) THEN Append(Told(Toks(s)), Says(At(p.tok, NoImage))) ELSE Told(Toks(s))
<1>1. /\ Toks(s) \in Seq(Tokens) /\ p.tok \in Tokens
      /\ Toks(Append(s, p)) = Append(Toks(s), p.tok)
  BY ToksMore
<1>2. Speaks(At(p.tok, NoImage)) <=> Speaks(p)
  BY DEF Speaks, At
<1> QED BY <1>1, <1>2, ToldMore

LEMMA BareOf ==
    ASSUME NEW m \in Message
    PROVE  [m EXCEPT !.img = NoImage] = IF m.role = "user" THEN User(m.text, NoImage)
                                        ELSE Assistant(m.text)
BY DEF Message, User, Assistant

LEMMA ThreeMore ==
    ASSUME NEW s \in Seq(Places), NEW a \in Places, NEW b \in Places, NEW c \in Places,
           NEW f, f = [i \in 1 .. 3 |-> f[i]], f[1] = a, f[2] = b, f[3] = c
    PROVE  s \o f = Append(Append(Append(s, a), b), c)
<1> DEFINE u == s \o f
           v == Append(Append(Append(s, a), b), c)
<1>1. f \in Seq(Places) /\ Len(f) = 3
  <2>1. \A i \in 1 .. 3 : f[i] \in Places
    OBVIOUS
  <2> QED BY <2>1
<1>2. /\ u \in Seq(Places) /\ Len(u) = Len(s) + 3 /\ Len(s) \in Nat
      /\ \A i \in 1 .. Len(s) : u[i] = s[i]
      /\ u[Len(s) + 1] = f[1] /\ u[Len(s) + 2] = f[2] /\ u[Len(s) + 3] = f[3]
  BY <1>1
<1>3. /\ v \in Seq(Places) /\ Len(v) = Len(s) + 3
      /\ \A i \in 1 .. Len(s) : v[i] = s[i]
      /\ v[Len(s) + 1] = a /\ v[Len(s) + 2] = b /\ v[Len(s) + 3] = c
  OBVIOUS
<1> HIDE DEF u, v
<1>4. \A i \in 1 .. Len(s) + 3 : i \in 1 .. Len(s) \/ i = Len(s) + 1 \/ i = Len(s) + 2 \/ i = Len(s) + 3
  BY <1>2
<1>5. \A i \in 1 .. Len(s) + 3 : u[i] = v[i]
  BY <1>2, <1>3, <1>4
<1>6. u = v
  <2>1. u \in Seq(Places) /\ v \in Seq(Places) /\ Len(u) = Len(v) /\ \A i \in 1 .. Len(u) : u[i] = v[i]
    BY <1>2, <1>3, <1>5
  <2> QED BY <2>1, SameSeq
<1> QED BY <1>6 DEF u, v

LEMMA RenderTold ==
    ASSUME NEW s \in Seq(Places), NEW m \in Message
    PROVE  Told(Toks(Render(s, m))) = Append(Told(Toks(s)), [m EXCEPT !.img = NoImage])
<1> DEFINE t == m.text
<1>0. t \in Words /\ m.role \in {"user", "assistant"}
  BY DEF Message
<1>1. CASE m.role = "user"
  <2> DEFINE p == Spliced(m)
  <2>1. p \in Places /\ Speaks(p) /\ Says(At(p.tok, NoImage)) = User(t, NoImage)
    BY SplicedType DEF Spliced, Speaks, Says, At, Tok
  <2> HIDE DEF p
  <2>2. Told(Toks(Append(s, p))) = Append(Told(Toks(s)), User(t, NoImage))
    BY <2>1, TellsMore
  <2> QED BY <1>1, <2>2, BareOf DEF Render, p
<1>2. CASE m.role # "user"
  <2>0. [m EXCEPT !.img = NoImage] = Assistant(t)
    BY <1>2, BareOf
  <2> DEFINE a == At(Open, NoImage)
             b == At(Tok("gen", t), NoImage)
             c == At(End, NoImage)
             d == At(Tok("text", t), NoImage)
             f == [i \in 1 .. 3 |-> At(Rendered(t)[i], NoImage)]
  <2>1. a \in Places /\ b \in Places /\ c \in Places /\ d \in Places
    <3>1. Open \in Tokens /\ Tok("gen", t) \in Tokens /\ End \in Tokens /\ Tok("text", t) \in Tokens
      BY <1>0 DEF Open, End, Tok, Tokens, Words
    <3> QED BY <3>1, PlainType
  <2>2. ~Speaks(a) /\ Speaks(b) /\ ~Speaks(c) /\ Speaks(d)
    BY DEF Speaks, At, Open, End, Tok
  <2>3. Says(At(b.tok, NoImage)) = Assistant(t) /\ Says(At(d.tok, NoImage)) = Assistant(t)
    BY DEF Says, At, Tok
  <2>4. f = [i \in 1 .. 3 |-> f[i]] /\ f[1] = a /\ f[2] = b /\ f[3] = c
    BY DEF Rendered
  <2>5. Render(s, m) = s \o f \/ Render(s, m) = Append(s, d)
    BY <1>2 DEF Render
  <2> HIDE DEF a, b, c, d, f
  <2>6. CASE Render(s, m) = Append(s, d)
    BY <2>0, <2>1, <2>2, <2>3, <2>6, TellsMore
  <2>7. CASE Render(s, m) = s \o f
    <3> DEFINE u == Append(s, a)
               v == Append(u, b)
    <3>1. u \in Seq(Places) /\ v \in Seq(Places)
      BY <2>1
    <3>2. Told(Toks(u)) = Told(Toks(s))
      BY <2>1, <2>2, TellsMore
    <3> HIDE DEF u
    <3>3. Told(Toks(v)) = Append(Told(Toks(u)), Assistant(t))
      BY <2>1, <2>2, <2>3, <3>1, TellsMore
    <3> HIDE DEF v
    <3>4. Told(Toks(Append(v, c))) = Told(Toks(v))
      BY <2>1, <2>2, <3>1, TellsMore
    <3>5. s \o f = Append(v, c)
      BY <2>1, <2>4, ThreeMore DEF u, v
    <3> QED BY <2>0, <2>7, <3>2, <3>3, <3>4, <3>5
  <2> QED BY <2>5, <2>6, <2>7
<1> QED BY <1>1, <1>2

LEMMA RebuiltTold ==
    ASSUME NEW m \in Seq(Message)
    PROVE  Told(Toks(Rebuilt(m).seq)) = Bare(m)
<1> DEFINE f == CHOOSE f : IsUpTo(f, m)
           seq == f[Len(m)]
           First(n) == SubSeq(m, 1, n)
           Good(n) == f[n] \in Seq(Places) /\ Told(Toks(f[n])) = Bare(First(n))
<1>1. IsUpTo(f, m)
  BY UpToExists
<1>2. Rebuilt(m).seq = Append(seq, At(Open, NoImage))
  BY DEF Rebuilt, IsUpTo
<1> HIDE DEF f
<1>3. \A n \in 0 .. Len(m) : f[n] = IF n = 0 THEN <<>> ELSE Render(f[n - 1], m[n])
  BY <1>1 DEF IsUpTo
<1> DEFINE Bad == {n \in 0 .. Len(m) : ~Good(n)}
<1>4. Bad = {}
  <2>1. SUFFICES ASSUME Bad # {} PROVE FALSE
    OBVIOUS
  <2>2. PICK n \in Bad : \A k \in Bad : n <= k
    <3>1. Bad \in SUBSET Nat
      OBVIOUS
    <3> QED BY <2>1, <3>1, LeastNat
  <2>3. n # 0
    <3>1. f[0] = <<>> /\ <<>> \in Seq(Places) /\ First(0) = <<>>
      BY <1>3
    <3>2. Toks(<<>>) = <<>>
      BY DEF Toks
    <3>3. Good(0)
      BY <3>1, <3>2, ToldNone, BareNone
    <3>4. ~Good(n)
      BY <2>2
    <3> HIDE DEF Good, Bad
    <3> QED BY <3>3, <3>4
  <2>4. n \in 1 .. Len(m) /\ n \in 0 .. Len(m) /\ n - 1 \in 0 .. Len(m) /\ ~(n <= n - 1)
    BY <2>2, <2>3
  <2>5. Good(n - 1)
    <3>1. n - 1 \notin Bad
      BY <2>2, <2>4
    <3> QED BY <2>4, <3>1
  <2>6. First(n - 1) \in Seq(Message) /\ m[n] \in Message /\ First(n) = Append(First(n - 1), m[n])
    BY <2>4, FirstMore
  <2>7. f[n] = Render(f[n - 1], m[n])
    BY <1>3, <2>3, <2>4
  <2> HIDE DEF First
  <2>8. f[n] \in Seq(Places)
    BY <2>5, <2>6, <2>7, RenderType
  <2>9. Told(Toks(f[n])) = Append(Bare(First(n - 1)), [m[n] EXCEPT !.img = NoImage])
    BY <2>5, <2>6, <2>7, RenderTold
  <2>10. Bare(First(n)) = Append(Bare(First(n - 1)), [m[n] EXCEPT !.img = NoImage])
    BY <2>6, BareMore
  <2> QED BY <2>2, <2>8, <2>9, <2>10
<1>5. Good(Len(m))
  <2>1. Len(m) \in 0 .. Len(m)
    OBVIOUS
  <2> QED BY <1>4, <2>1
<1>6. seq \in Seq(Places) /\ Told(Toks(seq)) = Bare(m)
  <2>1. First(Len(m)) = m
    OBVIOUS
  <2> QED BY <1>5, <2>1
<1>7. At(Open, NoImage) \in Places /\ ~Speaks(At(Open, NoImage))
  BY PlainType DEF Open, Tok, Tokens, Words, Speaks, At
<1> HIDE DEF seq
<1> QED BY <1>2, <1>6, <1>7, TellsMore

\* A reply that is continued later: its prompt tells its messages, and what was generated is the
\* text the client got; or there was no room for any, and none for a prompt that continues it.
IsReply(L) == L.msgs # <<>> =>
    /\ Told(L.prompt) = Bare(L.msgs)
    /\ \/ L.gen = <<Tok("gen", L.content), End>>
       \/ L.gen = <<End>> /\ Len(L.prompt) + 2 >= scene.ctx

LEMMA FirstAfter ==
    ASSUME NEW S, NEW w \in Seq(S), NEW a \in Nat, NEW j \in Nat, j - 1 \in Nat, a + j <= Len(w)
    PROVE  /\ SubSeq(w, 1, a + (j - 1)) \in Seq(S) /\ w[a + j] \in S
           /\ SubSeq(w, 1, a + j) = Append(SubSeq(w, 1, a + (j - 1)), w[a + j])
<1> DEFINE n == a + j
           k == a + (j - 1)
<1>1. n \in 1 .. Len(w) /\ k = n - 1
  OBVIOUS
<1> HIDE DEF n, k
<1>2. SubSeq(w, 1, n - 1) \in Seq(S) /\ w[n] \in S /\ SubSeq(w, 1, n) = Append(SubSeq(w, 1, n - 1), w[n])
  BY <1>1, FirstMore
<1>3. SubSeq(w, 1, k) \in Seq(S) /\ w[n] \in S /\ SubSeq(w, 1, n) = Append(SubSeq(w, 1, k), w[n])
  BY <1>1, <1>2
<1> QED BY <1>3 DEF n, k

\* The user turns after the reply, each a token.
LEMMA TurnsTold ==
    ASSUME NEW v \in Seq(Tokens), NEW m \in Seq(Message), NEW a \in Nat, NEW b \in Nat,
           a <= Len(v), b <= Len(m), Len(v) - a = Len(m) - b,
           Told(SubSeq(v, 1, a)) = Bare(SubSeq(m, 1, b)),
           \A j \in 1 .. Len(v) - a : v[a + j] = Tok("user", m[b + j].text) /\ m[b + j].role = "user"
    PROVE  Told(v) = Bare(m)
<1> DEFINE k == Len(v) - a
           Good(j) == Told(SubSeq(v, 1, a + j)) = Bare(SubSeq(m, 1, b + j))
           Bad == {j \in 0 .. k : ~Good(j)}
<1>0. k \in Nat /\ a + k = Len(v) /\ b + k = Len(m) /\ Len(v) \in Nat /\ Len(m) \in Nat
  OBVIOUS
<1>1. Bad = {}
  <2>1. SUFFICES ASSUME Bad # {} PROVE FALSE
    OBVIOUS
  <2> HIDE DEF k
  <2>2. PICK j \in Bad : \A i \in Bad : j <= i
    <3>1. Bad \in SUBSET Nat
      BY <1>0
    <3> QED BY <2>1, <3>1, LeastNat
  <2>3. j # 0
    <3>1. a + 0 = a /\ b + 0 = b
      OBVIOUS
    <3>2. Good(0)
      BY <3>1
    <3>3. ~Good(j)
      BY <2>2
    <3> HIDE DEF Good, Bad
    <3> QED BY <3>2, <3>3
  <2>4. /\ j \in 1 .. k /\ j - 1 \in 0 .. k /\ ~(j <= j - 1)
        /\ a + j \in 1 .. Len(v) /\ b + j \in 1 .. Len(m)
        /\ a + j - 1 = a + (j - 1) /\ b + j - 1 = b + (j - 1)
    BY <1>0, <2>2, <2>3
  <2>5. Good(j - 1)
    <3>1. j - 1 \notin Bad
      BY <2>2, <2>4
    <3> QED BY <2>4, <3>1
  <2> DEFINE w == SubSeq(v, 1, a + (j - 1))
             n == SubSeq(m, 1, b + (j - 1))
  <2>6. /\ w \in Seq(Tokens) /\ v[a + j] \in Tokens /\ SubSeq(v, 1, a + j) = Append(w, v[a + j])
        /\ n \in Seq(Message) /\ m[b + j] \in Message /\ SubSeq(m, 1, b + j) = Append(n, m[b + j])
    <3>1. j \in Nat /\ j - 1 \in Nat /\ a + j <= Len(v) /\ b + j <= Len(m)
      BY <2>4
    <3>2. w \in Seq(Tokens) /\ v[a + j] \in Tokens /\ SubSeq(v, 1, a + j) = Append(w, v[a + j])
      BY <3>1, FirstAfter
    <3>3. n \in Seq(Message) /\ m[b + j] \in Message /\ SubSeq(m, 1, b + j) = Append(n, m[b + j])
      BY <3>1, FirstAfter
    <3> QED BY <3>2, <3>3
  <2>7. Told(w) = Bare(n)
    BY <2>5
  <2> HIDE DEF w, n
  <2> DEFINE t == v[a + j]
             x == m[b + j]
  <2>8. t = Tok("user", x.text) /\ x.role = "user"
    BY <2>4 DEF k
  <2>9. x \in Message
    BY <2>6
  <2> HIDE DEF t, x
  <2>13. [x EXCEPT !.img = NoImage] = User(x.text, NoImage)
    BY <2>8, <2>9, BareOf
  <2>14. Speaks(At(t, NoImage)) /\ Says(At(t, NoImage)) = User(x.text, NoImage)
    BY <2>8 DEF Speaks, Says, At, Tok
  <2>10. Told(Append(w, t)) = Append(Told(w), [x EXCEPT !.img = NoImage])
    BY <2>6, <2>13, <2>14, ToldMore DEF t
  <2>11. Bare(Append(n, x)) = Append(Bare(n), [x EXCEPT !.img = NoImage])
    BY <2>6, BareMore DEF x
  <2>12. Good(j)
    BY <2>6, <2>7, <2>10, <2>11 DEF t, x
  <2> QED BY <2>2, <2>12
<1>2. Good(k)
  <2>1. k \in 0 .. k
    BY <1>0
  <2> HIDE DEF Good
  <2> QED BY <1>1, <2>1
<1> HIDE DEF k
<1>3. SubSeq(v, 1, Len(v)) = v /\ SubSeq(m, 1, Len(m)) = m
  OBVIOUS
<1> QED BY <1>0, <1>2, <1>3

\* What was told of a reply and of the prompt before it.
LEMMA ReplyTold ==
    ASSUME NEW L \in ReplyState, IsReply(L), L.msgs # <<>>, L.gen = <<Tok("gen", L.content), End>>
    PROVE  /\ L.prompt \o L.gen \in Seq(Tokens) /\ Len(L.prompt \o L.gen) = Len(L.prompt) + 2
           /\ Told(L.prompt \o L.gen) = Bare(Append(L.msgs, Assistant(L.content)))
<1> DEFINE g == Tok("gen", L.content)
           w == Append(L.prompt, g)
           v == Append(w, End)
           u == L.prompt \o L.gen
<1>0. L.prompt \in Seq(Tokens) /\ L.msgs \in Seq(Message) /\ L.content \in Words
  BY DEF ReplyState
<1>1. g \in Tokens /\ End \in Tokens
  BY <1>0 DEF Tok, End, Tokens, Words
<1>2. /\ Speaks(At(g, NoImage)) /\ Says(At(g, NoImage)) = Assistant(L.content)
      /\ ~Speaks(At(End, NoImage))
  BY DEF Speaks, Says, At, Tok, End
<1>3. Assistant(L.content) \in Message /\ [Assistant(L.content) EXCEPT !.img = NoImage] = Assistant(L.content)
  BY <1>0 DEF Assistant, Message
<1> HIDE DEF g
<1>4. Told(w) = Append(Bare(L.msgs), Assistant(L.content))
  BY <1>0, <1>1, <1>2, ToldMore DEF IsReply
<1>5. w \in Seq(Tokens)
  BY <1>0, <1>1
<1>6. Told(v) = Told(w)
  <2> HIDE DEF w
  <2> QED BY <1>1, <1>2, <1>5, ToldMore
<1>7. Bare(Append(L.msgs, Assistant(L.content))) = Append(Bare(L.msgs), Assistant(L.content))
  BY <1>0, <1>3, BareMore
<1>8. u = v /\ v \in Seq(Tokens) /\ Len(v) = Len(L.prompt) + 2
  <2>1. /\ L.gen \in Seq(Tokens) /\ Len(L.gen) = 2 /\ L.gen[1] = g /\ L.gen[2] = End
    BY <1>1 DEF g
  <2>2. /\ u \in Seq(Tokens) /\ Len(u) = Len(L.prompt) + 2 /\ Len(L.prompt) \in Nat
        /\ \A i \in 1 .. Len(L.prompt) : u[i] = L.prompt[i]
        /\ u[Len(L.prompt) + 1] = g /\ u[Len(L.prompt) + 2] = End
    BY <1>0, <2>1
  <2>3. /\ v \in Seq(Tokens) /\ Len(v) = Len(L.prompt) + 2
        /\ \A i \in 1 .. Len(L.prompt) : v[i] = L.prompt[i]
        /\ v[Len(L.prompt) + 1] = g /\ v[Len(L.prompt) + 2] = End
    BY <1>0, <1>1
  <2> HIDE DEF u, v
  <2>4. \A i \in 1 .. Len(L.prompt) + 2 :
          i \in 1 .. Len(L.prompt) \/ i = Len(L.prompt) + 1 \/ i = Len(L.prompt) + 2
    BY <2>2
  <2>5. Len(u) = Len(v) /\ \A i \in 1 .. Len(u) : u[i] = v[i]
    BY <2>2, <2>3, <2>4
  <2>6. u = v
    BY <2>2, <2>3, <2>5, SameSeq
  <2> QED BY <2>3, <2>6
<1> QED BY <1>4, <1>6, <1>7, <1>8

LEMMA JoinHolds ==
    ASSUME NEW S, NEW s \in Seq(S), NEW t \in Seq(S)
    PROVE  /\ s \o t \in Seq(S) /\ Len(s \o t) = Len(s) + Len(t)
           /\ \A i \in 1 .. Len(s) : (s \o t)[i] = s[i]
           /\ \A i \in 1 .. Len(t) : (s \o t)[Len(s) + i] = t[i]
OBVIOUS

LEMMA ContinuedTold ==
    ASSUME NEW L \in ReplyState, IsReply(L), NEW m \in Seq(Message), NEW id \in Nat, Continues(L, m),
           scene.ctx \in Nat, Len(Continued(L, m, id).seq) < scene.ctx
    PROVE  Told(Toks(Continued(L, m, id).seq)) = Bare(m)
<1> DEFINE front == L.prompt
           gen == L.gen
           past == front \o gen
           n == Len(L.msgs)
           k == Len(m) - n - 1
           old == [i \in 1 .. Len(past) |-> At(past[i], NoImage)]
           new == [i \in 1 .. k |-> Spliced(m[n + 1 + i])]
           seq == old \o new
           open == At(Open, NoImage)
<1>1. /\ front \in Seq(Tokens) /\ gen \in Seq(Tokens) /\ L.msgs \in Seq(Message)
      /\ L.content \in Words
  BY DEF ReplyState
<1>2. /\ n \in Nat /\ n > 0 /\ Len(m) \in Nat /\ Len(m) >= n + 2 /\ IsPrefix(L.msgs, m)
      /\ m[n + 1] = Assistant(L.content) /\ \A i \in n + 2 .. Len(m) : m[i].role = "user"
      /\ L.msgs # <<>>
  BY <1>1 DEF Continues
<1>4. Continued(L, m, id).seq = Append(seq, open)
  BY DEF Continued
<1> HIDE DEF front, gen
<1>3. past \in Seq(Tokens) /\ Len(past) = Len(front) + Len(gen) /\ Len(past) \in Nat
  BY <1>1
<1> HIDE DEF past, n
<1>5. /\ old \in Seq(Places) /\ Len(old) = Len(past)
      /\ \A i \in 1 .. Len(past) : old[i].tok = past[i]
  <2>1. \A i \in 1 .. Len(past) : past[i] \in Tokens
    BY <1>3
  <2>3. \A i \in 1 .. Len(past) : At(past[i], NoImage) \in Places /\ At(past[i], NoImage).tok = past[i]
    BY <2>1, PlainType DEF At
  <2>2. Len(past) \in Nat
    BY <1>3
  <2> QED BY <2>2, <2>3
<1>17. k \in Nat /\ k >= 1
  BY <1>2
<1>6. /\ new \in Seq(Places) /\ Len(new) = k
      /\ \A i \in 1 .. k : new[i].tok = Tok("user", m[n + 1 + i].text) /\ m[n + 1 + i].role = "user"
  <2> DEFINE A(i) == Spliced(m[n + 1 + i])
  <2>1. \A i \in 1 .. k : n + 1 + i \in n + 2 .. Len(m) /\ n + 1 + i \in 1 .. Len(m)
    BY <1>2
  <2>2. ASSUME NEW i \in 1 .. k
        PROVE  /\ A(i) \in Places /\ A(i).tok = Tok("user", m[n + 1 + i].text)
               /\ m[n + 1 + i].role = "user"
    <3>1. m[n + 1 + i] \in Message
      BY <2>1
    <3>2. m[n + 1 + i].role = "user"
      BY <1>2, <2>1
    <3> QED BY <3>1, <3>2, SplicedType DEF Spliced, At
  <2>3. new = [i \in 1 .. k |-> A(i)]
    OBVIOUS
  <2> HIDE DEF A, k, new
  <2> QED BY <1>17, <2>2, <2>3
<1> HIDE DEF k, old, new, open
<1>7. /\ seq \in Seq(Places) /\ Len(seq) = Len(past) + k
      /\ \A i \in 1 .. Len(past) : seq[i] = old[i]
      /\ \A i \in 1 .. k : seq[Len(past) + i] = new[i]
  <2>1. /\ seq \in Seq(Places) /\ Len(seq) = Len(old) + Len(new)
        /\ \A i \in 1 .. Len(old) : seq[i] = old[i]
        /\ \A i \in 1 .. Len(new) : seq[Len(old) + i] = new[i]
    <3>1. old \in Seq(Places) /\ new \in Seq(Places)
      BY <1>5, <1>6
    <3> QED BY <3>1, JoinHolds
  <2> HIDE DEF seq
  <2>2. Len(old) = Len(past) /\ Len(new) = k
    BY <1>5, <1>6
  <2> QED BY <2>1, <2>2
<1> HIDE DEF seq
<1> DEFINE v == Toks(seq)
<1>8. /\ v \in Seq(Tokens) /\ Len(v) = Len(seq)
      /\ \A i \in 1 .. Len(seq) : v[i] = seq[i].tok
  BY <1>7, ToksType
<1> HIDE DEF v
<1>9. open \in Places /\ ~Speaks(open)
  BY PlainType DEF Open, Tok, Tokens, Words, Speaks, At, open
<1>10. Len(Append(seq, open)) = Len(seq) + 1
  BY <1>7, <1>9
<1>11. gen = <<Tok("gen", L.content), End>>
  <2>1. ASSUME gen = <<End>>, Len(front) + 2 >= scene.ctx PROVE FALSE
    <3>1. Len(gen) = 1 /\ Len(front) \in Nat
      BY <1>1, <2>1
    <3> DEFINE c == scene.ctx
               t == Append(seq, open)
    <3>2. c \in Nat /\ Len(t) < c /\ Len(front) + 2 >= c
      BY <1>4, <2>1
    <3>3. Len(t) = Len(front) + 1 + k + 1
      BY <1>3, <1>7, <1>10, <3>1
    <3> HIDE DEF c, t
    <3> QED BY <1>17, <3>1, <3>2, <3>3
  <2> QED BY <1>2, <2>1 DEF IsReply, front, gen
<1>12. Told(past) = Bare(Append(L.msgs, Assistant(L.content)))
  BY <1>2, <1>11, ReplyTold DEF past, front, gen
<1>13. SubSeq(v, 1, Len(past)) = past
  <2> DEFINE u == SubSeq(v, 1, Len(past))
  <2>1. /\ Len(past) \in Nat /\ Len(past) <= Len(v)
    BY <1>3, <1>7, <1>8, <1>17
  <2>2. u \in Seq(Tokens) /\ Len(u) = Len(past) /\ \A i \in 1 .. Len(past) : u[i] = v[i]
    BY <1>8, <2>1
  <2> HIDE DEF u
  <2>3. \A i \in 1 .. Len(past) : v[i] = past[i]
    BY <1>5, <1>7, <1>8, <2>1
  <2>4. u = past
    BY <1>3, <2>2, <2>3
  <2> QED BY <2>4 DEF u
<1>14. SubSeq(m, 1, n + 1) = Append(L.msgs, Assistant(L.content))
  <2> DEFINE a == SubSeq(m, 1, n + 1)
             b == Append(L.msgs, Assistant(L.content))
  <2>1. \A i \in 1 .. n : L.msgs[i] = m[i]
    BY <1>1, <1>2, PrefixIs DEF n
  <2>2. a \in Seq(Message) /\ Len(a) = n + 1 /\ \A i \in 1 .. n + 1 : a[i] = m[i]
    BY <1>2
  <2>3. Assistant(L.content) \in Message
    BY <1>1 DEF Assistant, Message
  <2>4. /\ b \in Seq(Message) /\ Len(b) = n + 1 /\ b[n + 1] = Assistant(L.content)
        /\ \A i \in 1 .. n : b[i] = L.msgs[i]
    BY <1>1, <2>3 DEF n
  <2> HIDE DEF a, b
  <2>5. \A i \in 1 .. n + 1 : i \in 1 .. n \/ i = n + 1
    BY <1>2
  <2>6. Len(a) = Len(b) /\ \A i \in 1 .. Len(a) : a[i] = b[i]
    BY <1>2, <2>1, <2>2, <2>4, <2>5
  <2>7. a = b
    BY <2>2, <2>4, <2>6, SameSeq
  <2> QED BY <2>7 DEF a, b
<1>15. Told(v) = Bare(m)
  <2> DEFINE a == Len(past)
             b == n + 1
  <2>1. /\ a \in Nat /\ b \in Nat /\ a <= Len(v) /\ b <= Len(m) /\ Len(v) - a = Len(m) - b
    BY <1>2, <1>3, <1>7, <1>8 DEF k
  <2>2. Told(SubSeq(v, 1, a)) = Bare(SubSeq(m, 1, b))
    BY <1>12, <1>13, <1>14
  <2>3. \A j \in 1 .. Len(v) - a : v[a + j] = Tok("user", m[b + j].text) /\ m[b + j].role = "user"
    <3> SUFFICES ASSUME NEW j \in 1 .. Len(v) - a
                 PROVE  v[a + j] = Tok("user", m[b + j].text) /\ m[b + j].role = "user"
      OBVIOUS
    <3>1. j \in 1 .. k /\ a + j \in 1 .. Len(seq)
      BY <1>3, <1>7, <1>8, <1>17
    <3>2. v[a + j] = new[j].tok
      BY <1>7, <1>8, <3>1
    <3> QED BY <1>6, <3>1, <3>2
  <2> HIDE DEF a, b
  <2> QED BY <1>8, <2>1, <2>2, <2>3, TurnsTold
<1>16. Told(Toks(Append(seq, open))) = Told(v)
  BY <1>7, <1>9, TellsMore DEF v
<1> QED BY <1>4, <1>15, <1>16

\* A sequence with these tokens tells, so far, the conversation of the reply filed with it.
Files(w, L) == L.msgs # <<>> => IsPrefix(Told(w), Bare(Append(L.msgs, Assistant(L.content))))

\* The replies kept are told by their prompts, and filed with the conversations they belong to.
RepliesKept == IsReply(last) /\ \A e \in pool : IsReply(e.last) /\ Files(e.tok, e.last)

LEMMA BuildTold ==
    ASSUME Shared, Pooled, RepliesKept, NEW m \in Seq(Message), Len(BuildPrompt(m).seq) < scene.ctx
    PROVE  Told(Toks(BuildPrompt(m).seq)) = Bare(m)
<1> DEFINE cached == {e \in pool : Continues(e.last, m)}
<1>0. scene.ctx \in Nat
  BY Settings DEF Shared
<1>1. CASE Continues(last, m)
  BY <1>0, <1>1, ContinuedTold DEF BuildPrompt, Shared, RepliesKept
<1>2. CASE ~Continues(last, m) /\ cached # {}
  <2> DEFINE e == Newest(cached)
  <2>1. e \in cached
    BY <1>2, NewestExists DEF Pooled, Shared
  <2>2. IsEntry(e, clock) /\ Continues(e.last, m) /\ IsReply(e.last)
    BY <2>1 DEF Pooled, RepliesKept
  <2>3. e.last \in ReplyState /\ e.id \in Nat
    BY <2>2 DEF IsEntry, Shared
  <2>4. BuildPrompt(m) = Continued(e.last, m, e.id)
    BY <1>2 DEF BuildPrompt
  <2> HIDE DEF e
  <2> QED BY <1>0, <2>2, <2>3, <2>4, ContinuedTold
<1>3. CASE ~Continues(last, m) /\ cached = {}
  BY <1>3, RebuiltTold DEF BuildPrompt
<1> QED BY <1>1, <1>2, <1>3

-----------------------------------------------------------------------------
\* What a request does is what it was sent: its prompt tells its messages, and its history is that
\* prompt and the first token of the reply, which is missing only where it has no room.
Telling(r) ==
    /\ hist[r] = IF HasReply(r) THEN Append(Toks(prompt[r].seq), Tok("gen", Said(r)))
                 ELSE Toks(prompt[r].seq)
    /\ ~HasReply(r) /\ ~InPrefill(r) => Room(r) <= 0
    /\ msgs[r] # <<>> => Told(Toks(prompt[r].seq)) = Bare(msgs[r])

Underway(r) == st[r] \in {"pass", "yield", "parked"}

WInv ==
    /\ RepliesKept
    /\ \A r \in Request : st[r] = "parked" => IsReply(ticket[r].last)
    /\ owner = None /\ consumed # <<>> => Files(consumed, last)
    /\ \A r \in Request : Underway(r) => Telling(r)

LEMMA TellingSame ==
    ASSUME scene' = scene, NEW r \in Request, Telling(r), hist'[r] = hist[r],
           prompt'[r] = prompt[r], fed'[r] = fed[r], msgs'[r] = msgs[r]
    PROVE  Telling(r)'
BY DEF Telling, HasReply, InPrefill, Room, Said

LEMMA ReplySame == ASSUME scene' = scene, NEW L, IsReply(L) PROVE IsReply(L)'
BY DEF IsReply

\* A reply without messages is never continued.
LEMMA NoMsgs ==
    ASSUME NEW L \in ReplyState
    PROVE  LET M == [L EXCEPT !.msgs = <<>>] IN IsReply(M) /\ \A w : Files(w, M)
<1>1. [L EXCEPT !.msgs = <<>>].msgs = <<>>
  BY DEF ReplyState
<1> QED BY <1>1 DEF IsReply, Files

LEMMA NoReplyFiled == IsReply(NoReply) /\ \A w : Files(w, NoReply)
BY DEF NoReply, IsReply, Files

LEMMA FilesNone == ASSUME NEW L \in ReplyState PROVE Files(<<>>, L)
<1> DEFINE c == Append(L.msgs, Assistant(L.content))
           b == Bare(c)
           e == Told(<<>>)
<1>1. e = <<>>
  BY ToldNone
<1>2. Assistant(L.content) \in Message /\ L.msgs \in Seq(Message)
  BY DEF ReplyState, Assistant, Message
<1>3. c \in Seq(Message)
  BY <1>2
<1> HIDE DEF c
<1>4. b \in Seq(Message)
  BY <1>3, BareHolds
<1> HIDE DEF b, e
<1>5. e \in Seq(Message) /\ Len(e) = 0 /\ Len(b) \in Nat
  <2>1. e \in Seq(Message) /\ Len(e) = 0
    BY <1>1
  <2>2. Len(b) \in Nat
    BY <1>4
  <2> QED BY <2>1, <2>2
<1>6. Len(e) <= Len(b) /\ \A i \in 1 .. Len(e) : e[i] = b[i]
  BY <1>5
<1>7. IsPrefix(e, b)
  BY <1>4, <1>5, <1>6, PrefixIs
<1> QED BY <1>7 DEF Files, e, b, c

\* pool_save() and pool_boundary_save() file replies where they belong.
LEMMA SaveFiles ==
    ASSUME Shared, Pooled, RepliesKept, consumed # <<>> => Files(consumed, last),
           NEW keep, NEW held, NEW ok
    PROVE  \A e \in Save(keep, held, ok) : IsReply(e.last) /\ Files(e.tok, e.last)
<1> DEFINE need == Len(eng) + Meta(last)
           same == Same(pool, consumed)
           older == {e \in Shorter(pool, consumed) : ~e.boundary /\ e.id # keep}
           rest == pool \ UpTo(older, same)
           room == EvictTo(rest, need, keep, held)
           g == [e \in same |-> [e EXCEPT !.used = clock + 1, !.last = IF ReplyOk THEN last ELSE @]]
           new == Entry(consumed, consumed_img, IF ReplyOk THEN last ELSE NoReply, FALSE)
           S == Save(keep, held, ok)
<1>1. \/ S = pool \/ S = rest \/ S = room
      \/ WorthSaving /\ S = (rest \ same) \cup {g[e] : e \in same}
      \/ WorthSaving /\ S = room \cup {new}
  <2>1. {g[e] : e \in same} = {[e EXCEPT !.used = clock + 1,
                                         !.last = IF ReplyOk THEN last ELSE @] : e \in same}
    OBVIOUS
  <2> HIDE DEF g, new
  <2>2. \/ ~WorthSaving /\ S = pool
        \/ WorthSaving /\ same # {} /\ S = (rest \ same) \cup {[e EXCEPT !.used = clock + 1,
                                                !.last = IF ReplyOk THEN last ELSE @] : e \in same}
        \/ WorthSaving /\ S = rest
        \/ WorthSaving /\ S = room
        \/ WorthSaving /\ S = room \cup {new}
    BY DEF Save, new
  <2> QED BY <2>1, <2>2
<1>2. WorthSaving => Files(consumed, last)
  <2>1. WorthSaving => Len(consumed) > 0
    BY DEF WorthSaving, Shared
  <2> QED BY <2>1
<1>3. ASSUME NEW e \in same, WorthSaving PROVE IsReply(g[e].last) /\ Files(g[e].tok, g[e].last)
  <2>1. e \in pool /\ e.tok = consumed
    BY DEF Same
  <2>2. IsEntry(e, clock)
    BY <2>1 DEF Pooled
  <2>3. g[e].tok = e.tok /\ g[e].last = IF ReplyOk THEN last ELSE e.last
    BY <2>2 DEF IsEntry
  <2>4. IsReply(e.last) /\ Files(e.tok, e.last)
    BY <2>1 DEF RepliesKept
  <2> HIDE DEF g
  <2> QED BY <1>2, <1>3, <2>1, <2>3, <2>4 DEF RepliesKept
<1>4. ASSUME WorthSaving PROVE IsReply(new.last) /\ Files(new.tok, new.last)
  <2>1. new.tok = consumed /\ new.last = IF ReplyOk THEN last ELSE NoReply
    BY DEF Entry
  <2> HIDE DEF new
  <2> QED BY <1>2, <1>4, <2>1, NoReplyFiled DEF RepliesKept
<1>5. rest \subseteq pool /\ room \subseteq pool
  <2>1. rest \subseteq pool
    OBVIOUS
  <2> HIDE DEF rest
  <2>2. room \subseteq rest
    BY EvictKeeps
  <2> QED BY <2>1, <2>2
<1> HIDE DEF same, rest, room, g, new, S
<1> SUFFICES ASSUME NEW e \in S PROVE IsReply(e.last) /\ Files(e.tok, e.last)
  BY DEF S
<1>6. \/ e \in pool
      \/ WorthSaving /\ \E f \in same : e = g[f]
      \/ WorthSaving /\ e = new
  BY <1>1, <1>5
<1>7. CASE e \in pool
  BY <1>7 DEF RepliesKept
<1>8. CASE WorthSaving /\ \E f \in same : e = g[f]
  BY <1>3, <1>8
<1>9. CASE WorthSaving /\ e = new
  BY <1>4, <1>9
<1> QED BY <1>6, <1>7, <1>8, <1>9

LEMMA BoundaryFiles ==
    ASSUME Shared, Pooled, RepliesKept, NEW tok, NEW after, NEW ok
    PROVE  \A e \in BoundarySave(tok, after, ok) : IsReply(e.last) /\ Files(e.tok, e.last)
<1> DEFINE need == Len(after)
           same == Same(pool, tok)
           rest == pool \ UpTo(Shorter(pool, tok), same)
           room == EvictTo(rest, need, 0, ParkedBytes)
           img == [i \in DOMAIN consumed_img \cap DOMAIN tok |-> consumed_img[i]]
           new == [Entry(tok, img, NoReply, TRUE) EXCEPT !.ck = after]
           S == BoundarySave(tok, after, ok)
<1>1. \/ S = pool \/ S = room
      \/ S = (rest \ same) \cup {[e EXCEPT !.used = clock + 1] : e \in same}
      \/ S = room \cup {new}
  <2> HIDE DEF new
  <2> QED BY DEF BoundarySave, new
<1>2. new.last = NoReply
  BY DEF Entry
<1>3. ASSUME NEW f \in pool
      PROVE  [f EXCEPT !.used = clock + 1].tok = f.tok /\ [f EXCEPT !.used = clock + 1].last = f.last
  <2>1. IsEntry(f, clock)
    BY DEF Pooled
  <2> QED BY <2>1 DEF IsEntry
<1>4. same \subseteq pool /\ rest \subseteq pool /\ room \subseteq pool
  <2>1. same \subseteq pool /\ rest \subseteq pool
    BY DEF Same
  <2> HIDE DEF rest
  <2>2. room \subseteq rest
    BY EvictKeeps
  <2> QED BY <2>1, <2>2
<1> HIDE DEF same, rest, room, new, S
<1> SUFFICES ASSUME NEW e \in S PROVE IsReply(e.last) /\ Files(e.tok, e.last)
  BY DEF S
<1>5. \/ e \in pool
      \/ \E f \in pool : e = [f EXCEPT !.used = clock + 1]
      \/ e = new
  BY <1>1, <1>4
<1>6. CASE e \in pool
  BY <1>6 DEF RepliesKept
<1>7. CASE \E f \in pool : e = [f EXCEPT !.used = clock + 1]
  <2>1. PICK f \in pool : e = [f EXCEPT !.used = clock + 1]
    BY <1>7
  <2>2. e.tok = f.tok /\ e.last = f.last
    BY <1>3, <2>1
  <2> QED BY <2>2 DEF RepliesKept
<1>8. CASE e = new
  BY <1>2, <1>8, NoReplyFiled
<1> QED BY <1>5, <1>6, <1>7, <1>8

\* What one request does leaves the others what they are.
LEMMA WordsNext ==
    ASSUME WInv, scene' = scene, NEW r \in Request,
           \A q \in Request \ {r} :
             /\ st'[q] = st[q] /\ hist'[q] = hist[q] /\ prompt'[q] = prompt[q]
             /\ fed'[q] = fed[q] /\ msgs'[q] = msgs[q] /\ ticket'[q] = ticket[q],
           IsReply(last'), \A e \in pool' : IsReply(e.last) /\ Files(e.tok, e.last),
           st'[r] = "parked" => IsReply(ticket'[r].last),
           owner' = None /\ consumed' # <<>> => Files(consumed', last'),
           Underway(r)' => Telling(r)'
    PROVE  WInv'
<1>1. RepliesKept'
  <2>1. \A e \in pool' : (IsReply(e.last) <=> IsReply(e.last)') /\ (Files(e.tok, e.last) <=> Files(e.tok, e.last)')
    BY DEF IsReply, Files
  <2>2. IsReply(last)'
    BY DEF IsReply
  <2> QED BY <2>1, <2>2 DEF RepliesKept, IsReply, Files
<1>2. ASSUME NEW q \in Request, st'[q] = "parked" PROVE IsReply(ticket[q].last)'
  <2>1. IsReply(ticket'[q].last)
    BY <1>2 DEF WInv
  <2> QED BY <2>1 DEF IsReply
<1>3. (owner = None /\ consumed # <<>> => Files(consumed, last))'
  BY DEF Files
<1>4. ASSUME NEW q \in Request, Underway(q)' PROVE Telling(q)'
  <2>1. CASE q = r
    BY <1>4, <2>1
  <2>2. CASE q # r
    <3>1. Telling(q)
      BY <1>4, <2>2 DEF WInv, Underway
    <3> QED BY <2>2, <3>1, TellingSame
  <2> QED BY <2>1, <2>2
<1> QED BY <1>1, <1>2, <1>3, <1>4 DEF WInv

LEMMA PrepareWords ==
    ASSUME WInv, Kept, None \notin Request, scene' = scene, NEW r \in Request, ticket' = ticket,
           NEW m \in Seq(Message), msgs' = [msgs EXCEPT ![r] = m],
           NEW P \in Prompts, NEW e, NEW tok \in Seq(Tokens), Len(tok) < Len(P.seq),
           NEW img, NEW emb, NEW L \in ReplyState, IsReply(L), Prepare(r, P, e, tok, img, emb, L),
           InContext(P) /\ m # <<>> => Told(Toks(P.seq)) = Bare(m),
           \A x \in pool' : IsReply(x.last) /\ Files(x.tok, x.last)
    PROVE  WInv'
<1>1. /\ last' = (IF InContext(P) THEN L ELSE [L EXCEPT !.msgs = <<>>])
      /\ owner' = (IF InContext(P) THEN r ELSE None)
      /\ st' = [st EXCEPT ![r] = IF InContext(P) THEN "pass" ELSE "done"]
      /\ hist' = [hist EXCEPT ![r] = Toks(P.seq)]
      /\ fed' = [fed EXCEPT ![r] = Len(tok)]
      /\ prompt' = [prompt EXCEPT ![r] = P]
  BY DEF Prepare
<1>2. /\ \A q \in Request \ {r} :
           /\ st'[q] = st[q] /\ hist'[q] = hist[q] /\ prompt'[q] = prompt[q]
           /\ fed'[q] = fed[q] /\ msgs'[q] = msgs[q] /\ ticket'[q] = ticket[q]
      /\ st'[r] = (IF InContext(P) THEN "pass" ELSE "done") /\ hist'[r] = Toks(P.seq)
      /\ fed'[r] = Len(tok) /\ prompt'[r] = P /\ msgs'[r] = m
  BY <1>1 DEF Kept
<1>3. IsReply([L EXCEPT !.msgs = <<>>]) /\ \A w : Files(w, [L EXCEPT !.msgs = <<>>])
  BY NoMsgs
<1>4. IsReply(last')
  BY <1>1, <1>3
<1>5. owner' = None /\ consumed' # <<>> => Files(consumed', last')
  BY <1>1, <1>3
<1>6. Underway(r)' => Telling(r)'
  <2> HAVE Underway(r)'
  <2>1. InContext(P)
    BY <1>2 DEF Underway
  <2>2. Len(Toks(P.seq)) = Len(P.seq) /\ Len(P.seq) \in Nat
    <3>1. P.seq \in Seq(Places)
      BY DEF Prompts
    <3> QED BY <3>1, ToksType
  <2>3. ~HasReply(r)' /\ InPrefill(r)'
    BY <1>2, <2>2 DEF HasReply, InPrefill
  <2> QED BY <1>2, <2>1, <2>3 DEF Telling
<1>7. st'[r] # "parked"
  BY <1>2
<1> QED BY <1>2, <1>4, <1>5, <1>6, <1>7, WordsNext

LEMMA BeginWords ==
    ASSUME BInv, WInv, scene' = scene, NEW r \in Request, Begin(r)
    PROVE  WInv'
<1>0. /\ Shared /\ Pooled /\ Kept /\ TInv /\ RepliesKept
      /\ ParkedBytes \in Nat /\ clock \in Nat /\ None \notin Request
  BY TicketsHold, RequestsFinite DEF BInv, TInv, Shared, WInv
<1>1. /\ owner = None /\ ticket' = ticket
  BY DEF Begin
<1>2. PICK ok \in Outcomes, m \in Messages \cup Completion, t \in Text :
        LET P == IF m = <<>> THEN RawPrompt(t) ELSE BuildPrompt(m)
        IN  /\ Extend(r, P) \/ Switch(r, P, ok) \/ Restart(r, P, ok)
            /\ msgs' = [msgs EXCEPT ![r] = m]
  BY DEF Begin
<1> DEFINE P == IF m = <<>> THEN RawPrompt(t) ELSE BuildPrompt(m)
<1>3. m \in Seq(Message) /\ P \in Prompts /\ Len(P.seq) > 0 /\ ok \in BOOLEAN
  BY <1>0, <1>2, BeginPrompt DEF Outcomes
<1>4. /\ Extend(r, P) \/ Switch(r, P, ok) \/ Restart(r, P, ok)
      /\ msgs' = [msgs EXCEPT ![r] = m]
  BY <1>2
<1>5. InContext(P) /\ m # <<>> => Told(Toks(P.seq)) = Bare(m)
  BY <1>0, <1>3, BuildTold DEF InContext
<1> HIDE DEF P
<1>6. /\ consumed # <<>> => Files(consumed, last)
      /\ IsReply(last) /\ last \in ReplyState
  BY <1>0, <1>1 DEF WInv, RepliesKept, Shared
<1>7. CASE Extend(r, P)
  <2>1. /\ Prepare(r, P, eng, consumed, consumed_img, ov, last)
        /\ pool' = pool /\ Len(P.seq) > Len(consumed)
    BY <1>7 DEF Extend, Reuses
  <2>2. consumed \in Seq(Tokens) /\ Len(consumed) < Len(P.seq)
    <3>1. P.seq \in Seq(Places) /\ consumed \in Seq(Tokens)
      BY <1>0, <1>3 DEF Prompts, Shared
    <3>2. Len(P.seq) \in Nat /\ Len(consumed) \in Nat
      BY <3>1
    <3> QED BY <2>1, <3>1, <3>2
  <2>3. \A x \in pool' : IsReply(x.last) /\ Files(x.tok, x.last)
    BY <1>0, <2>1 DEF RepliesKept
  <2> QED BY <1>0, <1>1, <1>3, <1>4, <1>5, <1>6, <2>1, <2>2, <2>3, PrepareWords
<1>8. CASE Switch(r, P, ok)
  <2> DEFINE hit == Longest(Hits(P))
             saved == Save(hit.id, ParkedBytes, ok)
             kept == CHOOSE e \in saved : e.id = hit.id
  <2>1. /\ Hits(P) # {}
        /\ Prepare(r, P, kept.ck, kept.tok, kept.img, NoImgs, kept.last)
        /\ pool' = (saved \ {kept}) \cup {[kept EXCEPT !.used = clock + 2]}
    BY <1>8 DEF Switch
  <2>2. /\ hit \in Hits(P) /\ AfterSave(saved, hit.id, ParkedBytes)
        /\ kept \in saved /\ Like(kept, hit)
    BY <1>0, <1>3, <2>1, HitSurvives
  <2>3. \A x \in saved : IsReply(x.last) /\ Files(x.tok, x.last)
    BY <1>0, <1>6, SaveFiles
  <2> HIDE DEF saved, hit, kept
  <2>4. IsEntry(kept, clock + 1) /\ kept.tok = hit.tok
    BY <2>2 DEF AfterSave, Saved, Like
  <2>5. kept.tok \in Seq(Tokens) /\ kept.last \in ReplyState
    BY <2>4 DEF IsEntry
  <2>6. Len(kept.tok) < Len(P.seq)
    BY <2>2, <2>4 DEF Hits
  <2>7. [kept EXCEPT !.used = clock + 2].tok = kept.tok /\ [kept EXCEPT !.used = clock + 2].last = kept.last
    BY <2>4 DEF IsEntry
  <2>8. \A x \in pool' : IsReply(x.last) /\ Files(x.tok, x.last)
    BY <2>1, <2>2, <2>3, <2>7
  <2>9. IsReply(kept.last)
    BY <2>2, <2>3
  <2> QED BY <1>0, <1>1, <1>3, <1>4, <1>5, <2>1, <2>5, <2>6, <2>8, <2>9, PrepareWords
<1>9. CASE Restart(r, P, ok)
  <2>1. /\ Prepare(r, P, <<>>, <<>>, NoImgs, NoImgs, last)
        /\ \/ \E keep : pool' = Save(keep, ParkedBytes, ok)
           \/ pool' = pool
    BY <1>9 DEF Restart
  <2>2. <<>> \in Seq(Tokens) /\ Len(<<>>) < Len(P.seq)
    BY <1>3
  <2>3. \A x \in pool' : IsReply(x.last) /\ Files(x.tok, x.last)
    <3>1. CASE \E keep : pool' = Save(keep, ParkedBytes, ok)
      BY <1>0, <1>6, <3>1, SaveFiles
    <3>2. CASE pool' = pool
      BY <1>0, <3>2 DEF RepliesKept
    <3> QED BY <2>1, <3>1, <3>2
  <2> DEFINE e == <<>>
  <2>4. e \in Seq(Tokens) /\ Len(e) < Len(P.seq) /\ Prepare(r, P, e, e, NoImgs, NoImgs, last)
    BY <2>1, <2>2
  <2> HIDE DEF e
  <2> QED BY <1>0, <1>1, <1>3, <1>4, <1>5, <1>6, <2>3, <2>4, PrepareWords
<1> QED BY <1>4, <1>7, <1>8, <1>9

\* The first token of the reply is sampled where it has room.
LEMMA PrefillWords ==
    ASSUME BInv, WInv, scene' = scene, NEW r \in Request, Prefill(r)
    PROVE  WInv'
<1> DEFINE after == Eval(r, Take(r))
           now == fed[r] + Take(r)
<1>0. /\ Shared /\ Pooled /\ Kept /\ Lengths /\ TInv /\ RepliesKept /\ None \notin Request
  BY RequestsFinite DEF BInv, TInv, WInv
<1>1. /\ owner = r /\ InPrefill(r) /\ fed' = [fed EXCEPT ![r] = now]
      /\ st' = [st EXCEPT ![r] = "yield"]
      /\ UNCHANGED <<consumed, last, owner, msgs, prompt, ticket>>
  BY DEF Prefill
<1>2. /\ \/ pool' = pool
         \/ \E ok \in Outcomes : pool' = BoundarySave(SubSeq(hist[r], 1, now), after, ok)
      /\ \E t \in Replies(after) :
           hist' = IF now = Len(hist[r]) /\ Room(r) > 0
                   THEN [hist EXCEPT ![r] = Append(@, Tok("gen", t))] ELSE hist
  BY DEF Prefill
<1>3. st[r] \in {"pass", "yield"} /\ Progress(r) /\ Telling(r)
  <2>1. st[r] \in {"pass", "yield"} /\ Progress(r)
    BY <1>0, <1>1, OwnerHolds
  <2> QED BY <2>1 DEF WInv, Underway
<1>4. /\ Take(r) \in Nat /\ fed[r] \in Nat /\ now <= Len(prompt[r].seq)
      /\ Len(hist[r]) = Len(prompt[r].seq) /\ Len(prompt[r].seq) \in Nat /\ now \in Nat
      /\ hist[r] \in Seq(Tokens)
  BY <1>0, <1>1, <1>3, TakeType DEF Progress, Kept
<1>5. after \in Seq(Places)
  BY <1>0, <1>4, EvalType
<1>6. \A e \in pool' : IsReply(e.last) /\ Files(e.tok, e.last)
  <2>1. CASE pool' = pool
    BY <1>0, <2>1 DEF RepliesKept
  <2>2. CASE \E ok \in Outcomes : pool' = BoundarySave(SubSeq(hist[r], 1, now), after, ok)
    <3> HIDE DEF after, now
    <3> QED BY <1>0, <2>2, BoundaryFiles
  <2> QED BY <1>2, <2>1, <2>2
<1> HIDE DEF after, now
<1>7. ~HasReply(r) /\ hist[r] = Toks(prompt[r].seq)
  BY <1>3, <1>4 DEF HasReply, Telling
<1>8. fed'[r] = now /\ prompt'[r] = prompt[r] /\ msgs'[r] = msgs[r] /\ st'[r] = "yield"
  BY <1>0, <1>1 DEF Kept
<1>9. /\ \A q \in Request \ {r} : hist'[q] = hist[q]
      /\ Telling(r)'
  <2>1. PICK t \in Replies(after) :
          hist' = IF now = Len(hist[r]) /\ Room(r) > 0
                  THEN [hist EXCEPT ![r] = Append(@, Tok("gen", t))] ELSE hist
    BY <1>2
  <2>2. t \in Words
    BY <1>5, RepliesType
  <2>3. CASE now = Len(hist[r]) /\ Room(r) > 0
    <3> DEFINE g == Tok("gen", t)
               h == Append(hist[r], g)
    <3>1. hist'[r] = h /\ \A q \in Request \ {r} : hist'[q] = hist[q]
      BY <1>0, <2>1, <2>3 DEF Kept
    <3>2. g \in Tokens /\ g.text = t
      BY <2>2 DEF Tok, Tokens
    <3> HIDE DEF g
    <3>3. Len(h) = Len(prompt[r].seq) + 1 /\ Last(h) = g
      <4>1. /\ h \in Seq(Tokens) /\ Len(h) = Len(hist[r]) + 1 /\ h[Len(hist[r]) + 1] = g
        BY <1>4, <3>2
      <4> QED BY <1>4, <4>1 DEF Last
    <3> HIDE DEF h
    <3>4. HasReply(r)' /\ Said(r)' = t
      BY <1>4, <1>8, <3>1, <3>2, <3>3 DEF HasReply, Said
    <3>5. hist'[r] = Append(Toks(prompt'[r].seq), Tok("gen", Said(r)'))
      BY <1>7, <1>8, <3>1, <3>4 DEF g, h
    <3> QED BY <1>3, <1>8, <3>1, <3>4, <3>5 DEF Telling
  <2>4. CASE ~(now = Len(hist[r]) /\ Room(r) > 0)
    <3>1. hist' = hist
      BY <2>1, <2>4
    <3>2. ~HasReply(r)'
      BY <1>7, <1>8, <3>1 DEF HasReply
    <3>3. ~InPrefill(r)' => Room(r) <= 0
      <4> HAVE ~InPrefill(r)'
      <4>1. now = Len(hist[r])
        BY <1>4, <1>8 DEF InPrefill
      <4>2. Room(r) \in Int
        BY <1>0, <1>4, Settings DEF Room, Shared
      <4> QED BY <2>4, <4>1, <4>2
    <3>4. Room(r)' = Room(r)
      BY <1>8 DEF Room
    <3> QED BY <1>3, <1>7, <1>8, <3>1, <3>2, <3>3, <3>4 DEF Telling
  <2> QED BY <2>3, <2>4
<1>10. IsReply(last') /\ owner' # None /\ st'[r] # "parked"
  BY <1>0, <1>1, <1>8 DEF RepliesKept
<1>11. \A q \in Request \ {r} :
         /\ st'[q] = st[q] /\ hist'[q] = hist[q] /\ prompt'[q] = prompt[q]
         /\ fed'[q] = fed[q] /\ msgs'[q] = msgs[q] /\ ticket'[q] = ticket[q]
  BY <1>0, <1>1, <1>9 DEF Kept
<1> QED BY <1>6, <1>9, <1>10, <1>11, WordsNext

LEMMA PairIs ==
    ASSUME NEW u \in Seq(Tokens), NEW a \in Tokens, NEW b \in Tokens
    PROVE  Len(u) = 1 /\ u[1] = a => Append(u, b) = <<a, b>>
<1> DEFINE v == Append(u, b)
           w == <<a, b>>
<1>1. /\ v \in Seq(Tokens) /\ Len(v) = Len(u) + 1 /\ v[Len(u) + 1] = b
      /\ \A i \in 1 .. Len(u) : v[i] = u[i]
  OBVIOUS
<1>2. w \in Seq(Tokens) /\ Len(w) = 2 /\ w[1] = a /\ w[2] = b
  OBVIOUS
<1> HIDE DEF v, w
<1>3. HAVE Len(u) = 1 /\ u[1] = a
<1>4. Len(v) = 2 /\ v[1] = a /\ v[2] = b
  BY <1>1, <1>3
<1>5. Len(v) = Len(w) /\ \A i \in 1 .. Len(v) : v[i] = w[i]
  BY <1>1, <1>2, <1>3, <1>4
<1>6. v = w
  BY <1>1, <1>2, <1>5, SameSeq
<1> QED BY <1>6 DEF v, w

\* The reply is kept with the messages it answers, as it was generated.
LEMMA FinishWords ==
    ASSUME BInv, WInv, scene' = scene, NEW r \in Request, owner = r, HasReply(r) \/ ~InPrefill(r),
           NEW s \in Seq(Places), Len(s) <= Len(hist[r]), Finish(r, s),
           UNCHANGED <<pool, prompt, hist, fed, ticket, msgs>>
    PROVE  WInv'
<1> DEFINE h == hist[r]
           p == Toks(prompt[r].seq)
           m == msgs[r]
           n == Len(prompt[r].seq)
           t == Said(r)
           g == Tok("gen", t)
           gen == Append(SubSeq(h, n + 1, Len(h)), End)
           k == Len(s)
           L == [msgs |-> m, prompt |-> p, content |-> t, gen |-> gen]
<1>0. Shared /\ Kept /\ Lengths /\ TInv /\ RepliesKept
  BY DEF BInv, TInv, WInv
<1>1. /\ consumed' = SubSeq(h, 1, k) /\ last' = L /\ owner' = None
      /\ st' = [st EXCEPT ![r] = "done"]
  BY DEF Finish
<1>2. st[r] \in {"pass", "yield"} /\ Progress(r) /\ Telling(r)
  <2>1. st[r] \in {"pass", "yield"} /\ Progress(r)
    BY <1>0, OwnerHolds
  <2> QED BY <2>1 DEF WInv, Underway
<1>3. /\ prompt[r].seq \in Seq(Places) /\ h \in Seq(Tokens) /\ m \in Seq(Message)
      /\ k \in Nat /\ n \in Nat /\ p \in Seq(Tokens) /\ Len(p) = n /\ Len(h) \in Nat
  <2>1. prompt[r].seq \in Seq(Places) /\ h \in Seq(Tokens) /\ m \in Seq(Message)
    BY <1>0 DEF Kept, Prompts
  <2> QED BY <2>1, ToksType
<1>4. t \in Words
  BY <1>0, <1>3, SaidType
<1>5. h = IF HasReply(r) THEN Append(p, g) ELSE p
  BY <1>2 DEF Telling
<1>6. g \in Tokens /\ End \in Tokens
  BY <1>4 DEF Tok, End, Tokens, Words
<1>7. m # <<>> => Told(p) = Bare(m)
  BY <1>2 DEF Telling
<1>8. ~HasReply(r) => Room(r) <= 0
  BY <1>2 DEF Telling
<1>9. scene.ctx \in Nat
  BY <1>0, Settings DEF Shared
<1>10. L.msgs = m /\ L.prompt = p /\ L.content = t /\ L.gen = gen
  OBVIOUS
<1>11. Assistant(t) \in Message /\ [Assistant(t) EXCEPT !.img = NoImage] = Assistant(t)
  BY <1>4 DEF Assistant, Message
<1>12. Speaks(At(g, NoImage)) /\ Says(At(g, NoImage)) = Assistant(t)
  BY DEF Speaks, Says, At, Tok
<1>13. Len(h) = IF HasReply(r) THEN n + 1 ELSE n
  <2> HIDE DEF g, h, p, n
  <2>1. Len(Append(p, g)) = Len(p) + 1
    BY <1>3, <1>6
  <2> QED BY <1>3, <1>5, <2>1
<1> HIDE DEF g, h, p, m, n, t, k, L, gen
<1>14. IsReply(L)
  <2>1. CASE HasReply(r)
    <3>1. /\ Len(h) = n + 1 /\ h[n + 1] = g
      BY <1>3, <1>5, <1>6, <2>1
    <3> DEFINE u == SubSeq(h, n + 1, Len(h))
    <3>2. u \in Seq(Tokens) /\ Len(u) = 1 /\ u[1] = g
      BY <1>3, <3>1
    <3> HIDE DEF u
    <3>5. Append(u, End) = <<g, End>>
      BY <1>6, <3>2, PairIs
    <3>6. gen = <<g, End>>
      BY <3>5 DEF u, gen
    <3> QED BY <1>7, <1>10, <3>6 DEF IsReply, g
  <2>2. CASE ~HasReply(r)
    <3> DEFINE u == SubSeq(h, n + 1, Len(h))
    <3>1. u = <<>>
      BY <1>3, <1>13, <2>2
    <3> HIDE DEF u
    <3>2. gen = <<End>>
      <4>1. Append(<<>>, End) = <<End>>
        OBVIOUS
      <4>2. gen = Append(u, End)
        BY DEF gen, u
      <4> QED BY <3>1, <4>1, <4>2
    <3>3. n + 2 >= scene.ctx
      BY <1>3, <1>8, <1>9, <2>2 DEF Room, n
    <3> QED BY <1>3, <1>7, <1>10, <3>2, <3>3 DEF IsReply
  <2> QED BY <2>1, <2>2
<1>15. Files(consumed', L)
  <2> SUFFICES ASSUME m # <<>>
               PROVE  IsPrefix(Told(consumed'), Bare(Append(m, Assistant(t))))
    BY <1>10 DEF Files
  <2> DEFINE b == Bare(Append(m, Assistant(t)))
  <2>1. b = Append(Bare(m), Assistant(t))
    BY <1>3, <1>11, BareMore
  <2>2. Bare(m) \in Seq(Message)
    BY <1>3, BareHolds
  <2> HIDE DEF b
  <2>3. /\ b \in Seq(Message) /\ IsPrefix(Bare(m), b) /\ IsPrefix(b, b)
    <3>1. b \in Seq(Message)
      BY <1>11, <2>1, <2>2
    <3> QED BY <1>11, <2>1, <2>2, <3>1, PrefixMore, PrefixSelf
  <2>4. Told(h) = b \/ Told(h) = Bare(m)
    <3>1. CASE HasReply(r)
      <4>1. Told(Append(p, g)) = Append(Told(p), Assistant(t))
        BY <1>3, <1>6, <1>12, ToldMore
      <4> QED BY <1>5, <1>7, <2>1, <3>1, <4>1
    <3>2. CASE ~HasReply(r)
      BY <1>5, <1>7, <3>2
    <3> QED BY <3>1, <3>2
  <2>5. k \in 0 .. Len(h)
    BY <1>3 DEF k, h
  <2>6. IsPrefix(Told(SubSeq(h, 1, k)), Told(h)) /\ Told(SubSeq(h, 1, k)) \in Seq(Message)
    BY <1>3, <2>5, ToldPrefix, ToldType
  <2>7. Told(h) \in Seq(Message) /\ IsPrefix(Told(h), b)
    BY <2>2, <2>3, <2>4
  <2> DEFINE x == Told(SubSeq(h, 1, k))
             y == Told(h)
  <2>8. x \in Seq(Message) /\ y \in Seq(Message) /\ IsPrefix(x, y) /\ IsPrefix(y, b)
    BY <2>6, <2>7
  <2> HIDE DEF x, y
  <2>9. IsPrefix(x, b)
    BY <2>3, <2>8, PrefixTrans
  <2> QED BY <1>1, <2>9 DEF x, b
<1>16. \A e \in pool' : IsReply(e.last) /\ Files(e.tok, e.last)
  BY <1>0 DEF RepliesKept
<1>17. st'[r] = "done" /\ \A q \in Request \ {r} : st'[q] = st[q]
  BY <1>0, <1>1 DEF Kept
<1>18. ~Underway(r)'
  BY <1>17 DEF Underway
<1> QED BY <1>1, <1>14, <1>15, <1>16, <1>17, <1>18, WordsNext

LEMMA EndWords ==
    ASSUME BInv, WInv, scene' = scene, NEW r \in Request, Decode(r) \/ Truncate(r) \/ Cancel(r)
    PROVE  WInv'
<1>0. Shared /\ Kept /\ Lengths /\ TInv
  BY DEF BInv, TInv
<1>1. /\ owner = r /\ (HasReply(r) \/ ~InPrefill(r))
      /\ \/ HasReply(r) /\ Finish(r, Eval(r, 1))
         \/ Finish(r, eng)
      /\ UNCHANGED <<pool, prompt, hist, fed, ticket, msgs>>
  BY DEF Decode, Truncate, Cancel
<1>2. Progress(r) /\ Len(eng) <= fed[r]
  BY <1>0, <1>1, OwnerHolds
<1>3. /\ eng \in Seq(Places) /\ Len(eng) \in Nat /\ Len(hist[r]) \in Nat
      /\ Len(prompt[r].seq) \in Nat /\ fed[r] \in Nat
  BY <1>0, SMTT(30) DEF Shared, Kept, Prompts
<1>4. Len(eng) <= Len(hist[r]) /\ (HasReply(r) => fed[r] + 1 <= Len(hist[r]))
  BY <1>2, <1>3 DEF Progress, HasReply
<1>5. CASE Finish(r, eng)
  BY <1>1, <1>3, <1>4, <1>5, FinishWords
<1>6. CASE HasReply(r) /\ Finish(r, Eval(r, 1))
  <2> DEFINE s == Eval(r, 1)
  <2>1. s \in Seq(Places) /\ Len(s) = Len(eng) + 1
    BY <1>0, <1>4, <1>6, EvalType
  <2> HIDE DEF s
  <2>2. Len(s) <= Len(hist[r]) /\ Finish(r, s)
    BY <1>2, <1>3, <1>4, <1>6, <2>1 DEF s
  <2> QED BY <1>1, <2>1, <2>2, FinishWords
<1> QED BY <1>1, <1>5, <1>6

LEMMA FailWords ==
    ASSUME BInv, WInv, scene' = scene, NEW r \in Request, Fail(r)
    PROVE  WInv'
<1>0. Shared /\ Kept /\ RepliesKept
  BY DEF BInv, TInv, WInv
<1>1. /\ last' = [last EXCEPT !.msgs = <<>>] /\ consumed' = <<>> /\ st' = [st EXCEPT ![r] = "done"]
      /\ UNCHANGED <<pool, msgs, prompt, hist, fed, ticket>>
  BY DEF Fail, Forget
<1>2. st'[r] = "done" /\ \A q \in Request \ {r} : st'[q] = st[q]
  BY <1>0, <1>1 DEF Kept
<1>3. IsReply(last')
  <2>1. last \in ReplyState
    BY <1>0 DEF Shared
  <2> QED BY <1>1, <2>1, NoMsgs
<1>4. \A e \in pool' : IsReply(e.last) /\ Files(e.tok, e.last)
  BY <1>0, <1>1 DEF RepliesKept
<1>5. ~Underway(r)'
  BY <1>2 DEF Underway
<1> QED BY <1>1, <1>2, <1>3, <1>4, <1>5, WordsNext

LEMMA ParkWords ==
    ASSUME BInv, WInv, scene' = scene, NEW r \in Request, Park(r) \/ ParkRefused(r)
    PROVE  WInv'
<1> DEFINE room == EvictTo(pool, Len(eng), 0, ParkedBytes)
<1>0. Shared /\ Kept /\ TInv /\ RepliesKept /\ None \notin Request
  BY RequestsFinite DEF BInv, TInv, WInv
<1>1. /\ owner = r /\ (pool' = room \/ pool' = pool)
      /\ UNCHANGED <<last, msgs, prompt, hist, fed>>
      /\ \/ /\ ticket' = [ticket EXCEPT ![r] = [ck |-> eng, epoch |-> epoch + 1, last |-> last,
                                                img |-> consumed_img, parks |-> @.parks + 1]]
            /\ consumed' = <<>> /\ st' = [st EXCEPT ![r] = "parked"]
         \/ ticket' = ticket /\ owner' = owner /\ st' = [st EXCEPT ![r] = "pass"]
  BY DEF Park, ParkRefused, ShouldYield
<1>2. /\ \A q \in Request \ {r} : st'[q] = st[q] /\ ticket'[q] = ticket[q]
      /\ st'[r] = "parked" => ticket'[r].last = last
  BY <1>0, <1>1 DEF Kept
<1>3. \A e \in pool' : IsReply(e.last) /\ Files(e.tok, e.last)
  <2>1. room \subseteq pool
    BY EvictKeeps
  <2> HIDE DEF room
  <2> QED BY <1>0, <1>1, <2>1 DEF RepliesKept
<1>4. IsReply(last') /\ (st'[r] = "parked" => IsReply(ticket'[r].last))
  BY <1>0, <1>1, <1>2 DEF RepliesKept
<1>5. owner' = None => consumed' = <<>>
  BY <1>0, <1>1
<1>6. Telling(r)'
  <2>1. Telling(r)
    BY <1>0, <1>1, OwnerHolds DEF WInv, Underway
  <2> QED BY <1>1, <2>1, TellingSame
<1> QED BY <1>1, <1>2, <1>3, <1>4, <1>5, <1>6, WordsNext

LEMMA ResumeWords ==
    ASSUME BInv, WInv, scene' = scene, NEW r \in Request, Resume(r)
    PROVE  WInv'
<1>0. Shared /\ Pooled /\ Kept /\ RepliesKept /\ None \notin Request
  BY RequestsFinite DEF BInv, TInv, WInv
<1>1. /\ owner = None /\ st[r] = "parked" /\ ticket' = Unparked(r)
      /\ \/ pool' = pool
         \/ \E ok \in Outcomes : pool' = Save(0, ParkedBytes - Len(ticket[r].ck), ok)
      /\ last' = ticket[r].last /\ owner' = r /\ st' = [st EXCEPT ![r] = "pass"]
      /\ UNCHANGED <<msgs, prompt, hist, fed>>
  BY DEF Resume
<1>2. /\ \A q \in Request \ {r} : st'[q] = st[q] /\ ticket'[q] = ticket[q]
      /\ st'[r] = "pass"
  BY <1>0, <1>1, UnparkedType DEF Kept
<1>3. IsReply(last') /\ Telling(r)
  BY <1>1 DEF WInv, Underway
<1>4. \A e \in pool' : IsReply(e.last) /\ Files(e.tok, e.last)
  <2>1. consumed # <<>> => Files(consumed, last)
    BY <1>1 DEF WInv
  <2>2. CASE pool' = pool
    BY <1>0, <2>2 DEF RepliesKept
  <2>3. CASE \E ok \in Outcomes : pool' = Save(0, ParkedBytes - Len(ticket[r].ck), ok)
    BY <1>0, <2>1, <2>3, SaveFiles
  <2> QED BY <1>1, <2>2, <2>3
<1>5. Telling(r)'
  BY <1>1, <1>3, TellingSame
<1> QED BY <1>0, <1>1, <1>2, <1>3, <1>4, <1>5, WordsNext

LEMMA GoneWords ==
    ASSUME BInv, WInv, scene' = scene, NEW r \in Request, ResumeFails(r) \/ Abandon(r)
    PROVE  WInv'
<1>0. Shared /\ Pooled /\ Kept /\ RepliesKept
  BY DEF BInv, TInv, WInv
<1>1. /\ owner = None /\ ticket' = Unparked(r) /\ st' = [st EXCEPT ![r] = "done"] /\ owner' = owner
      /\ \/ /\ \E ok \in Outcomes : pool' = Save(0, ParkedBytes - Len(ticket[r].ck), ok)
            /\ last' = [last EXCEPT !.msgs = <<>>] /\ consumed' = <<>>
         \/ pool' = pool /\ last' = last /\ consumed' = consumed
      /\ UNCHANGED <<msgs, prompt, hist, fed>>
  BY DEF ResumeFails, Abandon, Forget
<1>2. /\ \A q \in Request \ {r} : st'[q] = st[q] /\ ticket'[q] = ticket[q]
      /\ st'[r] = "done"
  BY <1>0, <1>1, UnparkedType DEF Kept
<1>3. consumed # <<>> => Files(consumed, last)
  BY <1>1 DEF WInv
<1>4. \A e \in pool' : IsReply(e.last) /\ Files(e.tok, e.last)
  <2>1. CASE pool' = pool
    BY <1>0, <2>1 DEF RepliesKept
  <2>2. CASE \E ok \in Outcomes : pool' = Save(0, ParkedBytes - Len(ticket[r].ck), ok)
    BY <1>0, <1>3, <2>2, SaveFiles
  <2> QED BY <1>1, <2>1, <2>2
<1>5. IsReply(last')
  <2>1. last \in ReplyState
    BY <1>0 DEF Shared
  <2> QED BY <1>0, <1>1, <2>1, NoMsgs DEF RepliesKept
<1>6. ~Underway(r)'
  BY <1>2 DEF Underway
<1> QED BY <1>1, <1>2, <1>3, <1>4, <1>5, <1>6, WordsNext

-----------------------------------------------------------------------------
LEMMA InitWords == ASSUME Init PROVE WInv
<1>1. /\ \A r \in Request : st[r] = "new"
      /\ consumed = <<>> /\ pool = {} /\ last = NoReply
  BY DEF Init
<1> QED BY <1>1, NoReplyFiled DEF WInv, RepliesKept, Underway

LEMMA StutterWords == ASSUME WInv, UNCHANGED vars PROVE WInv'
<1>1. /\ scene' = scene /\ consumed' = consumed /\ last' = last /\ pool' = pool /\ owner' = owner
      /\ st' = st /\ msgs' = msgs /\ prompt' = prompt /\ hist' = hist /\ fed' = fed
      /\ ticket' = ticket
  BY DEF vars
<1>2. ASSUME NEW r \in Request, Underway(r)' PROVE Telling(r)'
  <2>1. Telling(r)
    BY <1>1, <1>2 DEF WInv, Underway
  <2> QED BY <1>1, <2>1, TellingSame
<1>3. RepliesKept'
  BY <1>1 DEF WInv, RepliesKept, IsReply, Files
<1>4. \A r \in Request : st'[r] = "parked" => IsReply(ticket[r].last)'
  BY <1>1 DEF WInv, IsReply
<1>5. (owner = None /\ consumed # <<>> => Files(consumed, last))'
  BY <1>1 DEF WInv, Files
<1> QED BY <1>2, <1>3, <1>4, <1>5 DEF WInv

LEMMA NextWords == ASSUME BInv, WInv, [Next]_vars PROVE WInv'
<1>1. CASE UNCHANGED vars
  BY <1>1, StutterWords
<1>2. CASE Next
  <2>1. scene' = scene
    BY <1>2 DEF Next
  <2>2. PICK r \in Request :
          \/ Begin(r) \/ Prefill(r) \/ Decode(r) \/ Truncate(r) \/ Cancel(r) \/ Fail(r)
          \/ Park(r) \/ ParkRefused(r) \/ Resume(r) \/ ResumeFails(r) \/ Abandon(r)
    BY <1>2 DEF Next
  <2>3. CASE Begin(r)
    BY <2>1, <2>3, BeginWords
  <2>4. CASE Prefill(r)
    BY <2>1, <2>4, PrefillWords
  <2>5. CASE Decode(r) \/ Truncate(r) \/ Cancel(r)
    BY <2>1, <2>5, EndWords
  <2>6. CASE Fail(r)
    BY <2>1, <2>6, FailWords
  <2>7. CASE Park(r) \/ ParkRefused(r)
    BY <2>1, <2>7, ParkWords
  <2>8. CASE Resume(r)
    BY <2>1, <2>8, ResumeWords
  <2>9. CASE ResumeFails(r) \/ Abandon(r)
    BY <2>1, <2>9, GoneWords
  <2> QED BY <2>2, <2>3, <2>4, <2>5, <2>6, <2>7, <2>8, <2>9
<1> QED BY <1>1, <1>2

LEMMA WordsHold == Spec => [](BInv /\ EInv /\ WInv)
<1>1. Init => WInv
  BY InitWords
<1>2. BInv /\ WInv /\ [Next]_vars => WInv'
  BY NextWords
<1> QED BY <1>1, <1>2, ExactHolds, PTL DEF Spec

\* RepliesFiled and the second half of ContextIsRequest, for the words: what the tokens tell.
WordsFiled ==
    LET Belongs(s, L) == L.msgs # <<>> =>
                            IsPrefix(Told(Toks(s)), Bare(Append(L.msgs, Assistant(L.content))))
    IN  /\ \A e \in pool : Belongs(e.ck, e.last)
        /\ owner = None /\ consumed # <<>> => Belongs(eng, last)

RequestWords ==
    \A r \in Request : owner = r /\ msgs[r] # <<>> => IsPrefix(Told(Toks(eng)), Bare(msgs[r]))

LEMMA FiledWords == ASSUME FailsAlone, BInv, EInv, WInv PROVE WordsFiled
<1>1. Filed /\ AtRest
  BY AllSound DEF Exact
<1>2. \A e \in pool : Files(Toks(e.ck), e.last)
  BY <1>1 DEF WInv, RepliesKept, Filed
<1>3. owner = None /\ consumed # <<>> => Files(Toks(eng), last)
  BY <1>1 DEF WInv, AtRest
<1> QED BY <1>2, <1>3 DEF WordsFiled, Files

LEMMA OwnWords == ASSUME FailsAlone, BInv, EInv, WInv PROVE RequestWords
<1> SUFFICES ASSUME NEW r \in Request, owner = r, msgs[r] # <<>>
             PROVE  IsPrefix(Told(Toks(eng)), Bare(msgs[r]))
  BY DEF RequestWords
<1>1. Shared /\ Kept /\ TInv
  BY DEF BInv, TInv
<1>2. st[r] \in {"pass", "yield"} /\ Progress(r)
  BY <1>1, OwnerHolds
<1>3. Evaluated(r, eng, consumed_img)
  BY <1>2, AllSound DEF Exact, Owned
<1>4. Telling(r)
  BY <1>2 DEF WInv, Underway
<1> DEFINE p == Toks(prompt[r].seq)
           n == fed[r]
           w == SubSeq(p, 1, n)
<1>5. /\ eng \in Seq(Places) /\ prompt[r].seq \in Seq(Places) /\ n \in Nat
      /\ n <= Len(prompt[r].seq)
  BY <1>1, <1>2 DEF Shared, Kept, Prompts, Progress
<1>6. p \in Seq(Tokens) /\ Len(p) = Len(prompt[r].seq)
  BY <1>5, ToksType
<1>7. Told(p) = Bare(msgs[r])
  BY <1>4 DEF Telling
<1>8. Len(eng) = n /\ \A i \in 1 .. n : eng[i].tok = hist[r][i]
  BY <1>3, <1>5 DEF Evaluated
<1> DEFINE g == Tok("gen", Said(r))
<1>9. hist[r] = Append(p, g) \/ hist[r] = p
  BY <1>4 DEF Telling
<1> HIDE DEF p, n, g
<1>10. \A i \in 1 .. n : hist[r][i] = p[i]
  <2>1. \A i \in 1 .. n : i \in 1 .. Len(p)
    BY <1>5, <1>6
  <2>2. \A i \in 1 .. Len(p) : Append(p, g)[i] = p[i]
    BY <1>6
  <2> QED BY <1>9, <2>1, <2>2
<1>11. w \in Seq(Tokens) /\ Len(w) = n /\ \A i \in 1 .. n : w[i] = p[i]
  BY <1>5, <1>6
<1> HIDE DEF w
<1>12. w = Toks(eng)
  BY <1>5, <1>8, <1>10, <1>11, ToksEqual
<1>13. n \in 0 .. Len(p)
  BY <1>5, <1>6
<1>14. IsPrefix(Told(SubSeq(p, 1, n)), Told(p))
  BY <1>6, <1>13, ToldPrefix
<1> QED BY <1>7, <1>12, <1>14 DEF w

\* Where nobody sends images, the tokens tell all there is to a sequence.
LEMMA MeaningTold ==
    ASSUME Image = {}, NEW s \in Seq(Places)
    PROVE  Meaning(s) = Told(Toks(s))
<1>1. Toks(s) \in Seq(Tokens) /\ Len(Toks(s)) = Len(s) /\ \A i \in 1 .. Len(s) : Toks(s)[i] = s[i].tok
  BY ToksType
<1> DEFINE w == Toks(s)
<1> HIDE DEF w
<1>2. /\ Plain(w) \in Seq(Places) /\ Len(Plain(w)) = Len(w)
      /\ \A i \in 1 .. Len(w) : Plain(w)[i] = At(w[i], NoImage)
  BY <1>1, PlainHolds DEF w
<1>3. \A i \in 1 .. Len(s) : s[i] = At(s[i].tok, NoImage)
  <2>1. \A i \in 1 .. Len(s) : s[i] \in Places
    OBVIOUS
  <2>2. \A p \in Places : p = At(p.tok, NoImage)
    BY DEF Places, At
  <2> QED BY <2>1, <2>2
<1>4. \A i \in 1 .. Len(s) : Plain(w)[i] = s[i]
  BY <1>1, <1>2, <1>3 DEF w
<1>5. Plain(w) = s
  <2>1. Len(Plain(w)) = Len(s)
    BY <1>1, <1>2 DEF w
  <2> DEFINE v == Plain(w)
  <2>2. v \in Seq(Places) /\ Len(v) = Len(s) /\ \A i \in 1 .. Len(s) : v[i] = s[i]
    BY <1>2, <1>4, <2>1
  <2> HIDE DEF v
  <2>3. v = s
    BY <2>2
  <2> QED BY <2>3 DEF v
<1> QED BY <1>5 DEF Told, w

LEMMA BareSame == ASSUME Image = {}, NEW m \in Seq(Message) PROVE Bare(m) = m
<1> DEFINE b == Bare(m)
<1>1. /\ b \in Seq(Message) /\ Len(b) = Len(m) /\ Len(m) \in Nat
      /\ \A i \in 1 .. Len(m) : b[i] = [m[i] EXCEPT !.img = NoImage]
  BY BareHolds
<1> HIDE DEF b
<1>2. \A i \in 1 .. Len(m) : [m[i] EXCEPT !.img = NoImage] = m[i]
  <2>1. \A i \in 1 .. Len(m) : m[i] \in Message
    OBVIOUS
  <2>2. \A x \in Message : [x EXCEPT !.img = NoImage] = x
    BY DEF Message
  <2> QED BY <2>1, <2>2
<1>3. Len(b) = Len(m) /\ \A i \in 1 .. Len(m) : b[i] = m[i]
  BY <1>1, <1>2
<1>4. b = m
  BY <1>1, <1>3, SameSeq
<1> QED BY <1>4 DEF b

\* A cached reply is filed with a checkpoint of its own conversation, and the live one too: what
\* their tokens tell is, in order, the messages the reply's client sent and the reply it got,
\* images apart, through every save, eviction, switch, park, resume and failure.
THEOREM RepliesTold ==
    ASSUME FailsAlone
    PROVE  Spec => []WordsFiled
<1>1. BInv /\ EInv /\ WInv => WordsFiled
  BY FiledWords
<1> QED BY <1>1, WordsHold, PTL

\* What a chat request computes on tells the first of the messages it sent, in order and no
\* others, images apart: build_prompt() found the conversation they continue, or rendered it.
THEOREM RequestTold ==
    ASSUME FailsAlone
    PROVE  Spec => []RequestWords
<1>1. BInv /\ EInv /\ WInv => RequestWords
  BY OwnWords
<1> QED BY <1>1, WordsHold, PTL

\* On a server that is sent no images, a request's tokens are evaluated after exactly the
\* conversation it sent.
THEOREM ContextOfText ==
    ASSUME FailsAlone, Image = {}
    PROVE  Spec => []ContextIsRequest
<1>1. ASSUME BInv, EInv, WInv, NEW r \in Request, owner = r
      PROVE  /\ Toks(eng) = SubSeq(hist[r], 1, fed[r])
             /\ msgs[r] # <<>> => IsPrefix(Meaning(eng), msgs[r])
  <2>1. Toks(eng) = SubSeq(hist[r], 1, fed[r])
    BY <1>1, TokensOwn DEF OwnTokens
  <2>2. eng \in Seq(Places) /\ msgs[r] \in Seq(Message)
    BY <1>1 DEF BInv, TInv, Shared, Kept
  <2>3. Meaning(eng) = Told(Toks(eng)) /\ Bare(msgs[r]) = msgs[r]
    BY <2>2, MeaningTold, BareSame
  <2>4. RequestWords
    BY <1>1, OwnWords
  <2> QED BY <1>1, <2>1, <2>3, <2>4 DEF RequestWords
<1>2. BInv /\ EInv /\ WInv => ContextIsRequest
  BY <1>1 DEF ContextIsRequest
<1> QED BY <1>2, WordsHold, PTL

\* On a server that is sent no images, each reply is filed with the conversation it belongs to.
THEOREM RepliesOfText ==
    ASSUME FailsAlone, Image = {}
    PROVE  Spec => []RepliesFiled
<1>1. ASSUME NEW s \in Seq(Places), NEW L \in ReplyState
      PROVE  /\ Meaning(s) = Told(Toks(s))
             /\ Bare(Append(L.msgs, Assistant(L.content))) = Append(L.msgs, Assistant(L.content))
  <2>1. Assistant(L.content) \in Message /\ L.msgs \in Seq(Message)
    BY DEF ReplyState, Assistant, Message
  <2>2. Append(L.msgs, Assistant(L.content)) \in Seq(Message)
    BY <2>1
  <2> QED BY <2>2, MeaningTold, BareSame
<1>2. ASSUME BInv, EInv, WInv PROVE RepliesFiled
  <2>1. eng \in Seq(Places) /\ last \in ReplyState
    BY <1>2 DEF BInv, TInv, Shared
  <2>2. \A e \in pool : e.ck \in Seq(Places) /\ e.last \in ReplyState
    BY <1>2 DEF BInv, TInv, Pooled, IsEntry
  <2>3. WordsFiled
    BY <1>2, FiledWords
  <2> QED BY <1>1, <2>1, <2>2, <2>3 DEF RepliesFiled, WordsFiled
<1>3. BInv /\ EInv /\ WInv => RepliesFiled
  BY <1>2
<1> QED BY <1>3, WordsHold, PTL
=============================================================================

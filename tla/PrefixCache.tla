---------------------------- MODULE PrefixCache ----------------------------
(***************************************************************************)
(* What qwfn-server keeps of conversations: the sequence in the engine     *)
(* with consumed, consumed_img and last, which describe it; the pool of    *)
(* checkpoints (--prefix-cache); and the checkpoints of parked requests    *)
(* (--timeshare).  build_prompt() and generate() of                        *)
(* src/tools/qwfn_server.cpp, over the engine's eval, reset and            *)
(* checkpoint calls (src/src/qwfn_engine.cpp).                             *)
(*                                                                         *)
(* A request runs under S.mu except while it is parked, so its steps are   *)
(* one action from one yield point to the next.  Which parked or waiting   *)
(* request goes next is left open here (module Timeshare decides it).      *)
(*                                                                         *)
(* A message is one token of its own: a user turn (its image pads look the *)
(* same whatever the image), the assistant opener, a reply as it was       *)
(* generated, the end of that turn, or a reply rendered again from its     *)
(* text.  The engine's sequence keeps the embedding each position was      *)
(* really evaluated with.                                                  *)
(***************************************************************************)
EXTENDS Integers, FiniteSets, Sequences, SequencesExt, FiniteSetsExt, TLC

CONSTANTS
    Request,               \* requests, to /v1/chat/completions or /v1/completions
    None,                  \* no request
    Text, ReplyText,       \* what users and the model say
    Image, NoImage,        \* images of one size
    NoText,                \* the text of framing tokens
    NBatch,                \* --batch, in tokens
    PoolBudget,            \* --prefix-cache
    PoolMin, PoolBoundary, \* --prefix-cache-min, --prefix-cache-boundary (0: off)
    MaxMsgs,               \* bound on a conversation's messages
    Scenes                 \* what may happen in a behaviour: see Scene

ASSUME RequestsFinite == IsFiniteSet(Request) /\ None \notin Request
ASSUME Sizes == /\ NBatch \in Nat \ {0} /\ PoolBudget \in Nat
                /\ PoolMin \in Nat /\ PoolBoundary \in Nat /\ MaxMsgs \in Nat

\* An eval, taking a checkpoint, a restore or a resume fails; a client leaves at a decode step;
\* requests to /v1/completions come in between.
Event == {"eval", "save", "restore", "resume", "leave", "completion"}

\* A setting: the images users send, --ctx, a bound on the parks, the events, and whether two
\* images may get the same reply.
ASSUME Settings ==
    /\ NoImage \notin Image
    /\ \A c \in Scenes : /\ c.images \subseteq Image /\ c.ctx \in Nat \ {0} /\ c.parks \in Nat
                        /\ c.events \subseteq Event /\ c.same \in BOOLEAN

VARIABLES
    scene,         \* the setting of this behaviour, one of Scenes
    eng,           \* the engine: what each position holds, as [tok, img]
    ov,            \* its pending embeddings (set_embeddings), by position
    consumed,      \* S.consumed
    consumed_img,  \* S.consumed_img, by position
    last,          \* S.last
    pool,          \* S.pool: entries in the order of their ids
    clock,         \* S.pool_clock, which also numbers the entries
    epoch,         \* S.eng_epoch
    owner,         \* the request that holds S.mu
    st,            \* where each request is
    msgs,          \* the messages it sent
    prompt,        \* its server::prompt
    hist,          \* generate()'s hist
    fed,           \* and how much of it the request has had evaluated
    ticket,        \* what ts_park() keeps while it is parked
    heard          \* conversations clients have got a reply to

vars == <<scene, eng, ov, consumed, consumed_img, last, pool, clock, epoch, owner, st, msgs, prompt,
          hist, fed, ticket, heard>>

User(t, i) == [role |-> "user", text |-> t, img |-> i]
Assistant(t) == [role |-> "assistant", text |-> t, img |-> NoImage]

Tok(k, t) == [kind |-> k, text |-> t]
Open == Tok("open", NoText)
End == Tok("end", NoText)
At(t, i) == [tok |-> t, img |-> i]

Toks(s) == [i \in DOMAIN s |-> s[i].tok]
Imgs(s) == [i \in {j \in DOMAIN s : s[j].img # NoImage} |-> s[i].img]
NoImgs == Imgs(<<>>)

\* The messages a sequence stands for: what its places say, in order.
Speaks(p) == p.tok.kind \in {"user", "gen", "text"}
Says(p) == IF p.tok.kind = "user" THEN User(p.tok.text, p.img) ELSE Assistant(p.tok.text)

Meaning(s) ==
    LET said[n \in 0 .. Len(s)] ==
            IF n = 0 THEN <<>>
            ELSE IF Speaks(s[n]) THEN Append(said[n - 1], Says(s[n])) ELSE said[n - 1]
    IN  said[Len(s)]

NoReply == [msgs |-> <<>>, prompt |-> <<>>, gen |-> <<>>, content |-> NoText]
NoPrompt == [seq |-> <<>>, via |-> 0, boundary |-> 0]
NoTicket == [ck |-> <<>>, epoch |-> 0, last |-> NoReply, img |-> NoImgs, parks |-> 0]

\* The types; besides, the lock's owner is the request between its passes, and the requests
\* that are parked are those with a checkpoint.
TypeOK ==
    /\ scene \in Scenes
    /\ Len(eng) < scene.ctx
    /\ DOMAIN ov \subseteq 1 .. scene.ctx /\ DOMAIN consumed_img \subseteq 1 .. scene.ctx
    /\ Len(consumed) < scene.ctx
    /\ clock \in Nat /\ epoch \in Nat
    /\ owner \in Request \cup {None}
    /\ st \in [Request -> {"new", "pass", "yield", "parked", "done"}]
    /\ \A r \in Request : owner = r <=> st[r] \in {"pass", "yield"}
    /\ \A r \in Request : ticket[r].ck # <<>> <=> st[r] = "parked"
    /\ fed \in [Request -> 0 .. scene.ctx]
    /\ \A h \in heard : Last(h).role = "assistant"

Init ==
    /\ scene \in Scenes
    /\ eng = <<>> /\ ov = NoImgs
    /\ consumed = <<>> /\ consumed_img = NoImgs
    /\ last = NoReply
    /\ pool = {} /\ clock = 0 /\ epoch = 0
    /\ owner = None
    /\ st = [r \in Request |-> "new"]
    /\ msgs = [r \in Request |-> <<>>]
    /\ prompt = [r \in Request |-> NoPrompt]
    /\ hist = [r \in Request |-> <<>>]
    /\ fed = [r \in Request |-> 0]
    /\ ticket = [r \in Request |-> NoTicket]
    /\ heard = {}

-----------------------------------------------------------------------------
(***************************************************************************)
(* build_prompt()                                                          *)
(***************************************************************************)
Spliced(m) == At(Tok("user", m.text), m.img)

\* continue_from(): these messages are L's, its reply as we gave it, and user turns after it.
Continues(L, m) ==
    LET n == Len(L.msgs)
    IN  /\ n > 0 /\ L.gen # <<>> /\ Len(m) >= n + 2
        /\ IsPrefix(L.msgs, m)
        /\ m[n + 1] = Assistant(L.content)
        /\ \A i \in n + 2 .. Len(m) : m[i].role = "user"

\* L's prompt and the tokens we generated, then the new turns: images before them are not spliced.
Continued(L, m, id) ==
    LET old == [i \in 1 .. Len(L.prompt \o L.gen) |-> At((L.prompt \o L.gen)[i], NoImage)]
        seq == old \o [i \in 1 .. Len(m) - Len(L.msgs) - 1 |-> Spliced(m[Len(L.msgs) + 1 + i])]
    IN  [seq |-> Append(seq, At(Open, NoImage)), via |-> id, boundary |-> Len(seq)]

\* known_reply(), consumed_reply(): the tokens of a reply we generated, or of a sequence the
\* engine consumed that agrees with the prompt so far.
Known(t) == \E L \in {last} \cup {e.last : e \in pool} : L.gen # <<>> /\ L.content = t

Rendered(t) == <<Open, Tok("gen", t), End>>

Consumed(seq, t) ==
    \E ref \in {consumed} \cup {e.tok : e \in pool} : IsPrefix(Toks(seq) \o Rendered(t), ref)

Render(seq, m) ==
    IF m.role = "user" THEN Append(seq, Spliced(m))
    ELSE IF Known(m.text) \/ Consumed(seq, m.text)
         THEN seq \o [i \in 1 .. 3 |-> At(Rendered(m.text)[i], NoImage)]
         ELSE Append(seq, At(Tok("text", m.text), NoImage))

Rebuilt(m) ==
    LET upTo[n \in 0 .. Len(m)] == IF n = 0 THEN <<>> ELSE Render(upTo[n - 1], m[n])
        seq == upTo[Len(m)]
    IN  [seq |-> Append(seq, At(Open, NoImage)), via |-> 0, boundary |-> Len(seq)]

Newest(S) == CHOOSE e \in S : \A f \in S : f.used <= e.used

\* The live conversation first, then the cached ones, newest first, then a full rebuild.
BuildPrompt(m) ==
    LET cached == {e \in pool : Continues(e.last, m)}
    IN  IF Continues(last, m) THEN Continued(last, m, 0)
        ELSE IF cached # {} THEN Continued(Newest(cached).last, m, Newest(cached).id)
        ELSE Rebuilt(m)

\* /v1/completions: the text and nothing else.
RawPrompt(t) == [seq |-> <<At(Tok("raw", t), NoImage)>>, via |-> 0, boundary |-> 0]

-----------------------------------------------------------------------------
(***************************************************************************)
(* The pool                                                                *)
(***************************************************************************)
Meta(L) == IF L = NoReply THEN 0 ELSE 1

\* What the checkpoints of these entries take, a unit per position; with the replies, a unit each.
Units(S) == UNION {{e.id} \X DOMAIN e.ck : e \in S}
Bytes(S) == Cardinality(Units(S)) + Cardinality({e \in S : Meta(e.last) = 1})
ParkedBytes == Cardinality(UNION {{r} \X DOMAIN ticket[r].ck : r \in Request})

\* pool_evict_to(): least recently used out while there is no room, never `keep`.
Evicted(S, need, keep, held) ==
    {e \in S : e.id # keep
               /\ Bytes({f \in S : f.used >= e.used \/ f.id = keep}) + held + need > PoolBudget}

EvictTo(S, need, keep, held) == S \ Evicted(S, need, keep, held)
MutFits(S, need, held) == Bytes(S) + need <= PoolBudget

Fits(S, need, held) == Bytes(S) + held + need <= PoolBudget

Entry(tok, img, L, boundary) ==
    [id |-> clock + 1, tok |-> tok, img |-> img, last |-> L, ck |-> eng, used |-> clock + 1,
     boundary |-> boundary]

Shorter(S, tok) == {e \in S : Len(e.tok) < Len(tok) /\ IsPrefix(e.tok, tok)}
Same(S, tok) == {e \in S : e.tok = tok}
\* The loop over the pool stops at an entry for exactly these tokens.
UpTo(S, same) == {e \in S : \A f \in same : e.id < f.id}

MutWorthSaving == Len(eng) > 0 /\ Len(eng) >= PoolMin /\ Len(eng) + Meta(last) <= PoolBudget

\* pool_save() keeps only a sequence that is exactly consumed, and long enough.
WorthSaving ==
    /\ Len(eng) > 0 /\ Len(eng) = Len(consumed)
    /\ Len(eng) >= PoolMin
    /\ Len(eng) + Meta(last) <= PoolBudget

ReplyOk == last.msgs # <<>>

\* pool_save(keep) with `held` bytes parked; ok: the checkpoint could be taken.
Save(keep, held, ok) ==
    LET need == Len(eng) + Meta(last)
        same == Same(pool, consumed)
        older == {e \in Shorter(pool, consumed) : ~e.boundary /\ e.id # keep}
        rest == pool \ UpTo(older, same)
        covered == \E e \in Shorter(pool, consumed) : e.boundary
        room == EvictTo(rest, need, keep, held)
    IN  IF ~WorthSaving THEN pool
        ELSE IF same # {}
             THEN (rest \ same) \cup {[e EXCEPT !.used = clock + 1,
                                                !.last = IF ReplyOk THEN last ELSE @] : e \in same}
        ELSE IF covered /\ ~Fits(rest, need, held) THEN rest
        ELSE IF ~Fits(room, need, held) \/ ~ok THEN room
        ELSE room \cup {Entry(consumed, consumed_img, IF ReplyOk THEN last ELSE NoReply, FALSE)}

\* pool_boundary_save() of the tokens fed so far; `after` is the engine after this pass.
BoundarySave(tok, after, ok) ==
    LET need == Len(after)
        same == Same(pool, tok)
        rest == pool \ UpTo(Shorter(pool, tok), same)
        room == EvictTo(rest, need, 0, ParkedBytes)
        img == [i \in DOMAIN consumed_img \cap DOMAIN tok |-> consumed_img[i]]
    IN  IF need # Len(tok) \/ need > PoolBudget THEN pool
        ELSE IF same # {} THEN (rest \ same) \cup {[e EXCEPT !.used = clock + 1] : e \in same}
        ELSE IF ~Fits(room, need, ParkedBytes) \/ ~ok THEN room
        ELSE room \cup {[Entry(tok, img, NoReply, TRUE) EXCEPT !.ck = after]}

-----------------------------------------------------------------------------
(***************************************************************************)
(* generate()                                                              *)
(***************************************************************************)
MutAgree(seq, img, n) == TRUE

\* Each image spliced into the first n tokens is the one evaluated there.
Agree(seq, img, n) ==
    \A i \in DOMAIN Imgs(seq) \cap (1 .. n) : i \in DOMAIN img /\ img[i] = seq[i].img

\* prefix_reuse(): the prompt strictly extends what the engine holds.
Reuses(P) ==
    /\ consumed # <<>> /\ Len(P.seq) > Len(consumed)
    /\ IsPrefix(consumed, Toks(P.seq))
    /\ Agree(P.seq, consumed_img, Len(consumed))

\* The entry's images are all in the prompt's splices, or the prompt continues this very entry.
Covers(P, e) ==
    Cardinality(DOMAIN Imgs(P.seq) \cap DOMAIN e.tok) = Cardinality(DOMAIN e.img) \/ P.via = e.id

\* pool_switch(): cached prefixes of the prompt.
Hits(P) ==
    {e \in pool : /\ Len(e.tok) < Len(P.seq) /\ IsPrefix(e.tok, Toks(P.seq))
                  /\ Agree(P.seq, e.img, Len(e.tok))
                  /\ Covers(P, e)}

Longest(S) == CHOOSE e \in S : \A f \in S : Len(f.tok) <= Len(e.tok)

\* A prompt that leaves no room is rejected: context_length_exceeded.
InContext(P) == Len(P.seq) < scene.ctx

\* f, and the images of the prompt after position n.
WithRest(f, P, n) ==
    LET rest == {i \in DOMAIN Imgs(P.seq) : i > n}
    IN  [i \in rest \cup DOMAIN f |-> IF i \in rest THEN P.seq[i].img ELSE f[i]]

\* The rest of generate()'s preparation, from the sequence [e, tok, img] the engine is left with:
\* the prompt's remaining images are set, or a prompt over the context is rejected.
Prepare(r, P, e, tok, img, emb, L) ==
    LET fits == InContext(P)
    IN  /\ eng' = e
        /\ consumed' = tok
        /\ ov' = IF fits THEN WithRest(emb, P, Len(tok)) ELSE emb
        /\ consumed_img' = IF fits THEN WithRest(img, P, Len(tok)) ELSE img
        /\ last' = IF fits THEN L ELSE [L EXCEPT !.msgs = <<>>]
        /\ owner' = IF fits THEN r ELSE None
        /\ st' = [st EXCEPT ![r] = IF fits THEN "pass" ELSE "done"]
        /\ hist' = [hist EXCEPT ![r] = Toks(P.seq)]
        /\ fed' = [fed EXCEPT ![r] = Len(tok)]
        /\ prompt' = [prompt EXCEPT ![r] = P]
        /\ epoch' = epoch + 1

\* The prompt extends what the engine holds.
Extend(r, P) ==
    /\ Reuses(P)
    /\ Prepare(r, P, eng, consumed, consumed_img, ov, last)
    /\ UNCHANGED <<pool, clock>>

\* pool_switch(): the live sequence is saved, the longest cached prefix restored.
Switch(r, P, ok) ==
    /\ ~Reuses(P) /\ Hits(P) # {}
    /\ LET hit == Longest(Hits(P))
           saved == Save(hit.id, ParkedBytes, ok)
           kept == CHOOSE e \in saved : e.id = hit.id
       IN  /\ Prepare(r, P, kept.ck, kept.tok, kept.img, NoImgs, kept.last)
           /\ pool' = (saved \ {kept}) \cup {[kept EXCEPT !.used = clock + 2]}
           /\ clock' = clock + 2

\* Nothing cached, or its restore failed: the live sequence is saved and the engine reset.
Restart(r, P, ok) ==
    /\ ~Reuses(P) /\ (Hits(P) # {} => "restore" \in scene.events)
    /\ LET keep == IF Hits(P) = {} THEN 0 ELSE Longest(Hits(P)).id
       IN  pool' = IF PoolBudget > 0 THEN Save(keep, ParkedBytes, ok) ELSE pool
    /\ clock' = clock + 1
    /\ Prepare(r, P, <<>>, <<>>, NoImgs, NoImgs, last)

Outcomes == IF "save" \in scene.events THEN BOOLEAN ELSE {TRUE}

\* A chat request: a new conversation, or one whose reply the client has, repeated as it was or
\* with the reply changed, and one more turn.
Messages ==
    LET changed == {[h EXCEPT ![Len(h)] = Assistant(t)] : h \in heard, t \in ReplyText}
        turns == {User(t, i) : t \in Text, i \in scene.images \cup {NoImage}}
        known == {g \in {<<>>} \cup heard \cup changed : Len(g) < MaxMsgs}
    IN  {Append(h, u) : h \in known, u \in turns}

\* A completion request has a text instead of messages.
Completion == IF "completion" \in scene.events THEN {<<>>} ELSE {}

Begin(r) ==
    /\ owner = None /\ st[r] = "new"
    /\ \E ok \in Outcomes, m \in Messages \cup Completion, t \in Text :
        LET P == IF m = <<>> THEN RawPrompt(t) ELSE BuildPrompt(m)
        IN  /\ Extend(r, P) \/ Switch(r, P, ok) \/ Restart(r, P, ok)
            /\ msgs' = [msgs EXCEPT ![r] = m]
    /\ UNCHANGED <<ticket, heard>>

\* eval(): the next n tokens of r's history, at the engine's next positions and with the
\* embeddings set for them.
Eval(r, n) ==
    eng \o [i \in 1 .. n |->
              LET p == Len(eng) + i
              IN  At(hist[r][fed[r] + i], IF p \in DOMAIN ov THEN ov[p] ELSE NoImage)]

AtBoundary(r) ==
    LET b == prompt[r].boundary
    IN  PoolBudget > 0 /\ PoolBoundary > 0 /\ b >= PoolBoundary /\ b >= PoolMin
        /\ b < Len(prompt[r].seq)

Min2(m, n) == IF m < n THEN m ELSE n

\* The tokens of the next prefill pass: up to the boundary first, where it is checkpointed.
Take(r) ==
    LET b == prompt[r].boundary
        stop == IF AtBoundary(r) /\ fed[r] < b THEN b ELSE Len(hist[r])
    IN  Min2(NBatch, stop - fed[r])

InPrefill(r) == fed[r] < Len(prompt[r].seq)
HasReply(r) == Len(hist[r]) > Len(prompt[r].seq)

\* Tokens the reply may have: with none left generate() samples and stops.
Room(r) == scene.ctx - Len(prompt[r].seq) - 2

\* What the model may say.  Unless the scene says so, it tells images apart.
Replies(s) ==
    IF scene.same \/ DOMAIN Imgs(s) = {} THEN ReplyText ELSE {s[Min(DOMAIN Imgs(s))].img}

\* One pass of the prefill.  After the last one the first token is sampled.
Prefill(r) ==
    /\ owner = r /\ st[r] \in {"pass", "yield"} /\ InPrefill(r)
    /\ LET after == Eval(r, Take(r))
           now == fed[r] + Take(r)
       IN  /\ eng' = after
           /\ fed' = [fed EXCEPT ![r] = now]
           /\ \E ok \in Outcomes :
                pool' = IF AtBoundary(r) /\ now = prompt[r].boundary
                        THEN BoundarySave(SubSeq(hist[r], 1, now), after, ok) ELSE pool
           /\ clock' = clock + 1
           /\ \E t \in Replies(after) :
                hist' = IF now = Len(hist[r]) /\ Room(r) > 0
                        THEN [hist EXCEPT ![r] = Append(@, Tok("gen", t))] ELSE hist
    /\ st' = [st EXCEPT ![r] = "yield"]
    /\ UNCHANGED <<ov, consumed, consumed_img, last, epoch, owner, msgs, prompt, ticket, heard>>

Said(r) == IF HasReply(r) THEN Last(hist[r]).text ELSE NoText

\* The end of generate() and finish_request(): consumed is what was evaluated.
Finish(r, s) ==
    /\ eng' = s
    /\ consumed' = SubSeq(hist[r], 1, Len(s))
    /\ last' = [msgs |-> msgs[r], prompt |-> Toks(prompt[r].seq), content |-> Said(r),
                gen |-> Append(SubSeq(hist[r], Len(prompt[r].seq) + 1, Len(hist[r])), End)]
    /\ st' = [st EXCEPT ![r] = "done"]
    /\ owner' = None

Heard(r) == IF msgs[r] = <<>> THEN heard ELSE heard \cup {Append(msgs[r], Assistant(Said(r)))}

\* The reply is evaluated and its end sampled.
Decode(r) ==
    /\ owner = r /\ st[r] \in {"pass", "yield"} /\ HasReply(r)
    /\ Finish(r, Eval(r, 1))
    /\ heard' = Heard(r)
    /\ UNCHANGED <<ov, consumed_img, pool, clock, epoch, msgs, prompt, hist, fed, ticket>>

\* The context has no room for a reply: the prompt was evaluated and that is all.
Truncate(r) ==
    /\ owner = r /\ ~InPrefill(r) /\ ~HasReply(r)
    /\ Finish(r, eng)
    /\ heard' = Heard(r)
    /\ UNCHANGED <<ov, consumed_img, pool, clock, epoch, msgs, prompt, hist, fed, ticket>>

\* The client left at a decode step's start: a clean stop.
Cancel(r) ==
    /\ owner = r /\ st[r] = "yield" /\ HasReply(r) /\ "leave" \in scene.events
    /\ Finish(r, eng)
    /\ UNCHANGED <<ov, consumed_img, pool, clock, epoch, msgs, prompt, hist, fed, ticket, heard>>

MutForget == /\ eng' = <<>> /\ ov' = NoImgs /\ UNCHANGED <<consumed, consumed_img>>
             /\ last' = [last EXCEPT !.msgs = <<>>]

\* dirty_guard and the routes' error paths.
Forget ==
    /\ eng' = <<>> /\ ov' = NoImgs
    /\ consumed' = <<>> /\ consumed_img' = NoImgs
    /\ last' = [last EXCEPT !.msgs = <<>>]

\* An eval failed, or the client left during the prefill.
Fail(r) ==
    /\ owner = r /\ "eval" \in scene.events
    /\ Forget
    /\ st' = [st EXCEPT ![r] = "done"]
    /\ owner' = None
    /\ UNCHANGED <<pool, clock, epoch, msgs, prompt, hist, fed, ticket, heard>>

-----------------------------------------------------------------------------
(***************************************************************************)
(* ts_park()                                                               *)
(***************************************************************************)
Parks == Cardinality(UNION {{r} \X (1 .. ticket[r].parks) : r \in Request})

\* should_yield(): someone else is open, while the bound on parks lasts.
ShouldYield(r) ==
    /\ owner = r /\ st[r] = "yield" /\ Parks < scene.parks
    /\ InPrefill(r) \/ HasReply(r)
    /\ \E q \in Request \ {r} : st[q] \in {"new", "parked"}

\* The sequence is checkpointed, given up (nobody's: a switch must not save it), the lock dropped.
Park(r) ==
    /\ ShouldYield(r) /\ PoolBudget > 0 /\ Len(eng) = fed[r]
    /\ LET room == EvictTo(pool, Len(eng), 0, ParkedBytes)
       IN  Fits(room, Len(eng), ParkedBytes) /\ pool' = room
    /\ ticket' = [ticket EXCEPT ![r] = [ck |-> eng, epoch |-> epoch + 1, last |-> last,
                                        img |-> consumed_img, parks |-> @.parks + 1]]
    /\ consumed' = <<>> /\ consumed_img' = NoImgs
    /\ epoch' = epoch + 1
    /\ st' = [st EXCEPT ![r] = "parked"]
    /\ owner' = None
    /\ UNCHANGED <<eng, ov, last, clock, msgs, prompt, hist, fed, heard>>

\* No room for the checkpoint, or it could not be taken: the request stays.
ParkRefused(r) ==
    /\ ShouldYield(r)
    /\ LET whole == PoolBudget > 0 /\ Len(eng) = fed[r]
           room == EvictTo(pool, Len(eng), 0, ParkedBytes)
       IN  /\ whole /\ Fits(room, Len(eng), ParkedBytes) => "save" \in scene.events
           /\ pool' = IF whole THEN room ELSE pool
    /\ st' = [st EXCEPT ![r] = "pass"]
    /\ UNCHANGED <<eng, ov, consumed, consumed_img, last, clock, epoch, owner, msgs, prompt, hist,
                   fed, ticket, heard>>

MutMoved(r) == FALSE

Moved(r) == epoch # ticket[r].epoch

\* What redo puts back after a restore: the prompt's images.
Embeddings(r) == IF InPrefill(r) THEN Imgs(prompt[r].seq) ELSE NoImgs

Unparked(r) == [ticket EXCEPT ![r] = [NoTicket EXCEPT !.parks = ticket[r].parks]]

\* The turn has come again and the lock is held: restored, unless nobody used the engine.
Resume(r) ==
    /\ owner = None /\ st[r] = "parked"
    /\ ticket' = Unparked(r)
    /\ \E ok \in Outcomes :
        pool' = IF Moved(r) THEN Save(0, ParkedBytes - Len(ticket[r].ck), ok) ELSE pool
    /\ eng' = IF Moved(r) THEN ticket[r].ck ELSE eng
    /\ ov' = IF Moved(r) THEN Embeddings(r) ELSE ov
    /\ consumed' = SubSeq(hist[r], 1, fed[r])
    /\ consumed_img' = ticket[r].img
    /\ last' = ticket[r].last
    /\ epoch' = epoch + 1
    /\ clock' = clock + 1
    /\ owner' = r
    /\ st' = [st EXCEPT ![r] = "pass"]
    /\ UNCHANGED <<msgs, prompt, hist, fed, heard>>

\* The resume failed: the dirty guard resets the engine.
ResumeFails(r) ==
    /\ owner = None /\ st[r] = "parked" /\ "resume" \in scene.events /\ Moved(r)
    /\ ticket' = Unparked(r)
    /\ \E ok \in Outcomes : pool' = Save(0, ParkedBytes - Len(ticket[r].ck), ok)
    /\ clock' = clock + 1
    /\ Forget
    /\ st' = [st EXCEPT ![r] = "done"]
    /\ UNCHANGED <<owner, epoch, msgs, prompt, hist, fed, heard>>

\* The client left while it was parked: the engine is someone else's and is left alone.
Abandon(r) ==
    /\ owner = None /\ st[r] = "parked"
    /\ ticket' = Unparked(r)
    /\ st' = [st EXCEPT ![r] = "done"]
    /\ UNCHANGED <<eng, ov, consumed, consumed_img, last, pool, clock, epoch, owner, msgs, prompt,
                   hist, fed, heard>>

Next ==
    /\ UNCHANGED scene
    /\ \E r \in Request :
        \/ Begin(r) \/ Prefill(r) \/ Decode(r) \/ Truncate(r) \/ Cancel(r) \/ Fail(r)
        \/ Park(r) \/ ParkRefused(r) \/ Resume(r) \/ ResumeFails(r) \/ Abandon(r)

Spec == Init /\ [][Next]_vars

-----------------------------------------------------------------------------
\* Between requests, consumed and consumed_img are exactly what the engine has evaluated, or say
\* that nobody knows.
EngineIsConsumed ==
    owner = None /\ consumed # <<>> => consumed = Toks(eng) /\ consumed_img = Imgs(eng)

\* A checkpoint in the pool holds the tokens and the images it is filed under.
PoolExact == TypeOK /\ \A e \in pool : e.tok = Toks(e.ck) /\ e.img = Imgs(e.ck)

\* A request's tokens are evaluated after exactly the conversation it sent: its own messages,
\* images included, whatever was reused, restored, parked or abandoned before.
ContextIsRequest ==
    \A r \in Request : owner = r =>
        /\ Toks(eng) = SubSeq(hist[r], 1, fed[r])
        /\ msgs[r] # <<>> => IsPrefix(Meaning(eng), msgs[r])

\* A cached reply is filed with a checkpoint of the conversation it belongs to, and so is the
\* live one: continuing it continues what the user saw.
RepliesFiled ==
    LET Belongs(s, L) == L.msgs # <<>> =>
                            IsPrefix(Meaning(s), Append(L.msgs, Assistant(L.content)))
    IN  /\ \A e \in pool : Belongs(e.ck, e.last)
        /\ owner = None /\ consumed # <<>> => Belongs(eng, last)

\* The cached checkpoints and the parked ones together stay within the budget.  (The reply an
\* identical entry is given when it is saved again is not checked against it.)
WithinBudget == Cardinality(Units(pool)) + ParkedBytes <= PoolBudget
=============================================================================

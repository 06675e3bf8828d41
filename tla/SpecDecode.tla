------------------------------ MODULE SpecDecode ------------------------------
(***************************************************************************)
(* Speculative decoding: the token loop of generate() in                   *)
(* src/tools/qwfn_server.cpp over the engine's sequence state              *)
(* (src/src/qwfn_engine.cpp), with the draft head and prompt lookup on.    *)
(*                                                                         *)
(* A residual, a cache row or a logits row is represented by the tokens it *)
(* was computed from, so "the state after c" is the sequence c.  A         *)
(* position whose attention read something that is not its own past gets a *)
(* Junk token: nothing derived from it is right again.                     *)
(***************************************************************************)
EXTENDS Integers, FiniteSets, Sequences, SequencesExt, FiniteSetsExt, LookupDrafter

CONSTANTS
    Token, Eog,        \* the vocabulary and its end-of-generation token
    EndThink,          \* the token whose text is </think>
    Junk,              \* no token: marks what was computed from the wrong past
    Drawable(_, _),    \* the sampler may draw this token from the logits after this context
    Prompts,           \* what a client may add to the conversation
    CutPhrase,         \* the tokens that close the thinking at its budget
    Ctx,               \* --ctx
    Ratio,             \* qsa_ratio_: cells per block of the sparse attention
    MaxDrafts,         \* MTP_MAX_DRAFTS, and the snapshots kept (rb_nsnap_)
    LookupDrafts,      \* what --lookup-drafts may be (0: off)
    Slack,             \* tokens the drafter's table has room for past the budget: 64
    NBatch,            \* --batch
    Budget,            \* max_tokens
    ThinkBudget,       \* the request's thinking budget
    MaxTurns, MaxParks \* bounds: turns of the conversation, parks

ASSUME Sizes == /\ {Eog, EndThink} \subseteq Token /\ Junk \notin Token
                /\ Ctx \in Nat /\ NBatch \in Nat \ {0} /\ Ratio \in Nat \ {0} /\ Budget \in Nat
                /\ LookupDrafts \subseteq 0..MaxDrafts /\ HeadDrafts <= MaxDrafts /\ Slack \in Nat

\* A client adds at least a token, and the phrase that closes the thinking has at least one.
ASSUME Texts == \A p \in Prompts \cup {CutPhrase} : p \in Seq(Token) /\ p # << >>

\* compress_ratios are 0 or 4 and MTP_MAX_DRAFTS is 3: a step of 1 + MaxDrafts positions moves the
\* three-block bias window on by one block at most once the block it leaves is whole.
ASSUME WindowKeepsUp == MaxDrafts \in 1..Ratio

VARIABLES
    e,        \* the engine's sequence state
    hist,     \* the request's tokens; between requests S.consumed
    pc,       \* "idle", "feed", "top" of the token loop, or its "step"
    fed,      \* how much of the prompt is evaluated
    tok,      \* the token the iteration is about
    tok_in,   \* it is in hist already, evaluated as an accepted draft
    evald,    \* accepted drafts still to emit after tok
    tok_next, \* the token drawn after them
    n,        \* iterations of the loop
    think,    \* in_think
    cut,      \* reasoning_budget_hit
    shown,    \* the tokens the loop has handled this turn, given to on_delta() in that order
    base,     \* the prompt's length
    look,     \* S.lookup: the tokens indexed and the capacity it was reset to
    pol,      \* *S.lookup_pol, kmax = S.lookup_drafts
    turns, parks

vars == <<e, hist, pc, fed, tok, tok_in, evald, tok_next, n, think, cut, shown, base, look, pol, turns, parks>>

Cells == 0..(Ctx + Ratio)
Blocks == 0..(Ctx \div Ratio)
NoRow == << >>
Prefix(s, k) == SubSeq(s, 1, k)
Trunk(c) == {t \in Token : Drawable(t, c)}

---------------------------------------------------------------------------
(* The engine.  past: n_past_; rs: the recurrent state; kv: the raw cache  *)
(* rows; pool, bias, dirty: the pooled block keys, qd_.bias, pool_dirty_;  *)
(* rows: t_hlast_, Len(rows) = mtp_h_rows_; have, valid: mtp_have_h_,      *)
(* mtp_kv_valid_; head: the draft head's cache rows, <<residual, next      *)
(* token>>; draft: mtp_draft_ >= 0; last: mtp_last_pos_; snaps[k]: the     *)
(* state k tokens back; depth: rb_depth_; logits: one row per position.    *)
(* holes is no state of the engine: the positions whose head row a prompt  *)
(* pass of one token left unwritten.                                       *)
Fresh == [past |-> 0, rs |-> << >>, kv |-> [c \in Cells |-> NoRow],
          pool |-> [b \in Blocks |-> << >>], bias |-> [b \in Blocks |-> "skip"], dirty |-> TRUE,
          rows |-> << >>, have |-> FALSE, valid |-> TRUE, head |-> [c \in Cells |-> NoRow],
          draft |-> FALSE, last |-> 0, snaps |-> << >>, depth |-> 0, logits |-> << >>, holes |-> {}]

\* What position p may choose from: whole blocks, the tail block always, nothing after it.
BlockBias(p, b) == IF b < (p + 1) \div Ratio THEN "open" ELSE IF b = p \div Ratio THEN "force" ELSE "skip"

\* The three blocks around position p's own are written; the others keep what they had.
MutWindow(bias, p) ==
    [b \in Blocks |-> IF b \in (p \div Ratio)..(p \div Ratio + 1) THEN BlockBias(p, b) ELSE bias[b]]
Window(bias, p) ==
    [b \in Blocks |-> IF b \in (p \div Ratio - 1)..(p \div Ratio + 1) THEN BlockBias(p, b) ELSE bias[b]]

Members(kv, b) == [k \in 1..Ratio |-> kv[b * Ratio + k - 1]]

\* A prefill or a restore leaves the bias and the pooled keys to be rebuilt by the next decode step.
Prepared(s) ==
    IF s.dirty
    THEN [s EXCEPT !.bias = [b \in Blocks |-> BlockBias(s.past, b)],
                   !.pool = [b \in Blocks |-> IF b < s.past \div Ratio THEN Members(s.kv, b) ELSE @[b]],
                   !.dirty = FALSE]
    ELSE [s EXCEPT !.bias = Window(@, s.past)]

\* The raw rows up to position p are those of c; the dense attention reads nothing else.
RowsOf(kv, p, c) == \A q \in 0..p : kv[q] = Prefix(c, q + 1)

\* So are the pooled keys and the bias the decode attention of position p chooses blocks by.
ChoosesRight(pool, bias, p, c) ==
    \A b \in Blocks : /\ bias[b] = BlockBias(p, b)
                      /\ bias[b] = "open" => pool[b] = [k \in 1..Ratio |-> Prefix(c, b * Ratio + k)]

Spoilt(c) == [c EXCEPT ![Len(c)] = Junk]

\* The residual of each of the positions toks goes in at, given which of them read the right past.
Residuals(s, toks, right) ==
    [k \in DOMAIN toks |-> LET c == s.rs \o Prefix(toks, k) IN IF right[k] THEN c ELSE Spoilt(c)]

Written(f, from, vals) ==
    [c \in Cells |-> IF c \in from..(from + Len(vals) - 1) THEN vals[c - from + 1] ELSE f[c]]

\* The state after each position but the last is kept, newest first.
Snapshots(s, at) ==
    IF Len(at) < 2 THEN s.snaps ELSE [k \in 1..Min({Len(at) - 1, MaxDrafts}) |-> at[Len(at) - k]]

\* The bias each of the T positions of a step chooses by: the window moves on with them.
Biases(s, T) ==
    LET bias[k \in 1..T] == IF k = 1 THEN s.bias ELSE Window(bias[k - 1], s.past + k - 1) IN bias

\* eval_batch() on the decode path: a token and its drafts, or one token.
EvalDecode(s0, toks, verify) ==
    LET s == Prepared(s0)
        T == Len(toks)
        kv == Written(s.kv, s.past, [k \in 1..T |-> s.rs \o Prefix(toks, k)])
        pool == [b \in Blocks |-> IF \E k \in 1..T : b = (s.past + k - 1) \div Ratio
                                  THEN Members(kv, b) ELSE s.pool[b]]
        bias == Biases(s, T)
        reads == {k \in 1..T : LET p == s.past + k - 1  c == s.rs \o Prefix(toks, k)
                               IN RowsOf(kv, p, c) /\ ChoosesRight(pool, bias[k], p, c)}
        at == Residuals(s, toks, [k \in 1..T |-> 1..k \subseteq reads])
    IN [s EXCEPT !.past = @ + T, !.rs = at[T], !.kv = Written(@, s.past, at), !.pool = pool,
                 !.rows = at, !.have = TRUE, !.logits = at, !.snaps = Snapshots(s, at),
                 !.depth = IF verify /\ T >= 2 THEN Min({T - 1, MaxDrafts}) ELSE 0]

MtpReady(s) == s.have /\ s.valid

\* mtp_draft(): the head writes a row for each of the positions it is given.
MtpDraft(s, from, vals) == [s EXCEPT !.head = Written(@, from, vals), !.last = from + Len(vals) - 1]

\* mtp_step(): the head's rows of the last positions, each with the token that follows it; a draft.
MtpStep(s, toks) ==
    LET k == Len(toks)
        vals == [i \in 1..k |-> <<s.rows[Len(s.rows) - k + i], toks[i]>>]
    IN IF ~MtpReady(s) \/ Len(s.rows) < k \/ s.past < k
       THEN [s EXCEPT !.draft = FALSE]
       ELSE [MtpDraft(s, s.past - k, vals) EXCEPT !.draft = TRUE]

\* mtp_draft_next(), k times: rows of the head past the last committed position, from its own residual.
Chain(s, k) == MtpDraft(s, s.last + 1, [i \in 1..k |-> <<"chained">>])

\* The row the last batch left open pairs with this batch's first token.
MutCloseGap(s, t) == s
CloseGap(s, t) ==
    IF ~s.valid \/ s.past = 0 THEN s
    ELSE IF s.have /\ Len(s.rows) >= 1 THEN MtpStep(s, <<t>>) ELSE [s EXCEPT !.valid = FALSE]

\* Each position of a prompt batch reads the rows before the batch and those of the batch up to itself.
PromptSees(s) == s.past = 0 \/ RowsOf(s.kv, s.past - 1, s.rs)

\* A prompt batch: the dense attention, and the head's rows for every position but the last.
Batch(s0, toks) ==
    LET s == CloseGap(s0, Head(toks))
        T == Len(toks)
        at == Residuals(s, toks, [k \in 1..T |-> PromptSees(s)])
    IN [s EXCEPT !.past = @ + T, !.rs = at[T], !.kv = Written(@, s.past, at), !.dirty = TRUE,
                 !.rows = at, !.have = TRUE, !.logits = <<at[T]>>,
                 !.head = IF s.valid THEN Written(@, s.past, [i \in 1..(T - 1) |-> <<at[i], toks[i + 1]>>]) ELSE @]

\* eval_batch() for a short prompt, whose experts come through the cache.
EvalBatched(s, toks) == LET b == Batch(s, toks) IN [b EXCEPT !.snaps = Snapshots(s, b.rows), !.depth = 0]

\* eval_prefill_big(): only the last position's residual is kept, and the snapshots are left alone.
EvalStreamed(s, toks) == LET b == Batch(s, toks) IN [b EXCEPT !.rows = <<b.rs>>]

\* A prompt pass of one token is a decode step: the row the last pass left open is not closed.
EvalOne(s, t) ==
    LET d == EvalDecode(s, <<t>>, FALSE)
    IN [d EXCEPT !.holes = IF s.past > 0 THEN @ \cup {s.past - 1} ELSE @]

OneByOne(s, toks) ==
    LET after[k \in 0..Len(toks)] == IF k = 0 THEN s ELSE EvalOne(after[k - 1], toks[k])
    IN after[Len(toks)]

\* eval(): one token is a decode step; more go as a batch, streamed, or one by one where there is
\* no scratch to batch them through.
Evals(s, toks) ==
    {OneByOne(s, toks)} \cup
    (IF Len(toks) = 1 THEN {} ELSE {EvalBatched(s, toks), EvalStreamed(s, toks)})

\* rollback_n().
MutRollback(s, k) ==
    [s EXCEPT !.rs = s.snaps[1], !.past = @ - k, !.depth = 0,
              !.rows = Prefix(@, Max({1, Len(@) - k}))]
Rollback(s, k) ==
    [s EXCEPT !.rs = s.snaps[k], !.past = @ - k, !.depth = 0,
              !.rows = Prefix(@, Max({1, Len(@) - k}))]

\* reset(): the cache rows stay, the recurrent state goes.
ResetEngine(s) ==
    [s EXCEPT !.have = FALSE, !.valid = TRUE, !.draft = FALSE, !.past = 0, !.rs = << >>,
              !.dirty = TRUE, !.bias = [b \in Blocks |-> "skip"], !.holes = {}]

\* A checkpoint holds the rows before n_past_; the others come back with what another request left.
RowsKept(f, past) == [c \in Cells |-> IF c < past THEN f[c] ELSE <<Junk>>]

\* checkpoint_save(), then another request's sequence in every row, then checkpoint_restore().
Restored(s) ==
    LET r == ResetEngine([s EXCEPT !.pool = [b \in Blocks |-> <<Junk>>]])
        headed == MtpReady(s) /\ Len(s.rows) >= 1
    IN [r EXCEPT !.past = s.past, !.rs = s.rs, !.kv = RowsKept(s.kv, s.past), !.snaps = << >>, !.depth = 0,
                 !.head = RowsKept(s.head, IF headed THEN s.past ELSE 0),
                 !.rows = IF headed THEN <<s.rows[Len(s.rows)]>> ELSE @,
                 !.have = headed, !.valid = headed, !.holes = s.holes]

---------------------------------------------------------------------------
(* generate(): the prompt.                                                 *)

\* The engine's sequence is continued, or the prompt is another one and it is reset.
Begin(p) ==
    /\ pc = "idle" /\ turns < MaxTurns
    /\ \/ hist' = hist \o p /\ e' = e
       \/ hist' = p /\ e' = ResetEngine(e)
    /\ Len(hist') < Ctx
    /\ pc' = "feed" /\ turns' = turns + 1
    /\ fed' = Len(hist') - Len(p) /\ base' = Len(hist')
    /\ UNCHANGED <<tok, tok_in, evald, tok_next, n, think, cut, shown, look, pol, parks>>

Feed ==
    /\ pc = "feed" /\ fed < Len(hist)
    /\ LET take == Min({NBatch, Len(hist) - fed})
       IN e' \in Evals(e, SubSeq(hist, fed + 1, fed + take)) /\ fed' = fed + take
    /\ UNCHANGED <<hist, pc, tok, tok_in, evald, tok_next, n, think, cut, shown, base, look, pol, turns, parks>>

\* Between two passes of a prefill: the sequence is saved, another request runs, and it comes back.
ParkPrefill ==
    /\ pc = "feed" /\ fed < Len(hist) /\ fed = e.past /\ fed > 0
    /\ parks < MaxParks /\ parks' = parks + 1
    /\ e' = Restored(e)
    /\ UNCHANGED <<hist, pc, fed, tok, tok_in, evald, tok_next, n, think, cut, shown, base, look, pol, turns>>

---------------------------------------------------------------------------
Room == Max({0, Min({Budget, Ctx - base - 2})})

LookupOn == pol.kmax > 0

\* lookup_rebuild(): the drafter starts again from the request's own tokens.
MutRebuilt(lk, h) == IF lk.h # << >> /\ Len(lk.h) <= Len(h) THEN lk ELSE [h |-> h, cap |-> Ctx]
Rebuilt(lk, h) == [h |-> h, cap |-> Min({Ctx, Len(h) + Room + Slack})]

\* At a step: the tokens since the last one are indexed.
Synced(lk, h) ==
    IF Len(lk.h) > Len(h) THEN Rebuilt(lk, h) ELSE [lk EXCEPT !.h = @ \o SubSeq(h, Len(@) + 1, Len(h))]

\* The first token and its draft.
FirstPick(thinking) ==
    /\ pc = "feed" /\ fed = Len(hist)
    /\ tok' \in Trunk(Last(e.logits))
    /\ e' = MtpStep(e, <<tok'>>)
    /\ pc' = "top" /\ n' = 0 /\ think' = thinking
    /\ IF LookupOn THEN look' = Rebuilt(look, hist) /\ pol' = NewSequence(pol) ELSE UNCHANGED <<look, pol>>
    /\ UNCHANGED <<hist, fed, tok_in, evald, tok_next, cut, shown, base, turns, parks>>

---------------------------------------------------------------------------
(* The token loop, up to the evaluation point.                             *)

\* generate() returns, and its locals are gone.
Return == /\ pc' = "idle" /\ fed' = 0 /\ base' = 0 /\ tok' = Eog /\ tok_in' = FALSE /\ evald' = << >>
          /\ tok_next' = Eog /\ n' = 0 /\ think' = FALSE /\ cut' = FALSE /\ shown' = << >>
          /\ UNCHANGED <<look, pol, turns, parks>>

\* The turn ends; a token drawn and not evaluated is no part of S.consumed.
Finish(h) == hist' = Prefix(h, e.past) /\ Return /\ UNCHANGED e

Pushed == IF tok_in THEN hist ELSE Append(hist, tok)

AtCut == think /\ tok # EndThink /\ n + 1 >= ThinkBudget

BudgetOver == pc = "top" /\ n >= Room /\ Finish(hist)

\* The end-of-generation token, a stop sequence, a client that takes no more, or a full context.
Stop == pc = "top" /\ n < Room /\ Finish(Pushed)

\* The thinking budget: the phrase goes in after everything in the history, with tok unless it is in.
CutThinking ==
    /\ pc = "top" /\ n < Room /\ tok # Eog /\ AtCut
    /\ hist' = Pushed \o CutPhrase
    /\ Len(hist') + 1 <= Ctx
    /\ \E s \in Evals(e, SubSeq(hist', e.past + 1, Len(hist'))) :
          /\ tok' \in Trunk(Last(s.logits))
          /\ e' = MtpStep(s, <<tok'>>)
    /\ tok_in' = FALSE /\ think' = FALSE /\ cut' = TRUE /\ n' = n + 2
    /\ shown' = Append(shown, tok)
    /\ UNCHANGED <<pc, fed, evald, tok_next, base, look, pol, turns, parks>>

\* A token is handed on; an accepted draft is evaluated already, and the next of them follows it.
Emit ==
    /\ pc = "top" /\ n < Room /\ tok # Eog /\ ~AtCut
    /\ think' = (think /\ tok # EndThink)
    /\ shown' = Append(shown, tok)
    /\ hist' = Pushed /\ Len(hist') + 1 <= Ctx
    /\ \/ /\ tok_in /\ evald # << >> /\ n' = n + 1
          /\ tok' = Head(evald) /\ evald' = Tail(evald)
          /\ UNCHANGED <<pc, tok_in>>
       \/ /\ tok_in /\ evald = << >> /\ n' = n + 1
          /\ tok' = tok_next /\ tok_in' = FALSE
          /\ UNCHANGED <<pc, evald>>
       \/ /\ ~tok_in /\ pc' = "step"
          /\ UNCHANGED <<tok, tok_in, evald, n>>
    /\ UNCHANGED <<e, fed, tok_next, cut, base, look, pol, turns, parks>>

---------------------------------------------------------------------------
(* The evaluation point: the engine holds the history but for tok.         *)

ClientGone == pc = "step" /\ Finish(hist)

\* Restored after another request; tok's draft is made again.
Park ==
    /\ pc = "step" /\ e.past = Len(hist) - 1
    /\ parks < MaxParks /\ parks' = parks + 1
    /\ e' = MtpStep(Restored(e), <<tok>>)
    /\ look' = IF LookupOn THEN Rebuilt(look, hist) ELSE look
    /\ UNCHANGED <<hist, pc, fed, tok, tok_in, evald, tok_next, n, think, cut, shown, base, pol, turns>>

\* No draft past an end-of-generation token, the budget or the context.
Trimmed(d) ==
    LET eog == SelectInSeq(d, LAMBDA t : t = Eog)
        k == Min({IF eog = 0 THEN Len(d) ELSE eog - 1, Max({0, Room - n - 1}), Max({0, Ctx - Len(hist) - 1})})
    IN Prefix(d, k)

\* A token on its own.
StepAlone(s0) ==
    LET s == EvalDecode(s0, <<tok>>, FALSE) IN
    /\ tok' \in Trunk(Last(s.logits))
    /\ e' = MtpStep(s, <<tok'>>)
    /\ UNCHANGED <<hist, tok_in, evald, tok_next>>

\* The accepted drafts after the first, which becomes tok.
MutAccepted(d, j) == Tail(d)
Accepted(d, j) == SubSeq(d, 2, j)

\* The drafts go in with tok; the first j are what the trunk itself draws, and the rest are undone.
Verify(s0, d) ==
    LET K == Len(d)
        s == EvalDecode(s0, <<tok>> \o d, TRUE)
    IN \E j \in 0..K : \E y \in Trunk(s.logits[j + 1]) :
         /\ \A i \in 1..j : d[i] \in Trunk(s.logits[i])
         /\ hist' = hist \o Prefix(d, j)
         /\ e' = MtpStep(IF j < K THEN Rollback(s, K - j) ELSE s, Append(Prefix(d, j), y))
         /\ IF j > 0
            THEN tok' = d[1] /\ evald' = Accepted(d, j) /\ tok_next' = y /\ tok_in' = TRUE
            ELSE tok' = y /\ UNCHANGED <<evald, tok_next, tok_in>>

Stepped(s, d) == IF d = << >> THEN StepAlone(s) ELSE Verify(s, d)

\* Drafts of the head: a chain of up to HeadDrafts, of which the confident ones are taken.
HeadStep ==
    \E k \in 1..HeadDrafts : \E d \in {Trimmed(c) : c \in UNION {[1..m -> Token] : m \in 0..k}} :
        Stepped(Chain(e, k - 1), d)

Proposal(lk) == Propose(Table(lk.cap, lk.h), lk.h, pol.kmax)

\* The drafts copied, or the head's where there is nothing to copy, padded to the window: the head is
\* not run.
Padded(d) == [i \in 1..pol.kmax |-> d[Min({i, Len(d)})]]
LookupStep(d) ==
    \E first \in IF d = << >> THEN {<<t>> : t \in Token} ELSE {d} : Stepped(e, Trimmed(Padded(first)))

\* The policy takes the proposal or leaves the step to the head.
DraftedStep ==
    IF ~LookupOn THEN HeadStep /\ UNCHANGED <<look, pol>>
    ELSE /\ look' = Synced(look, hist)
         /\ LET p == Proposal(look') IN
            /\ \E pays \in IF p.drafts = << >> THEN {FALSE} ELSE BOOLEAN :
                  pol' = Choose(pol, Len(p.drafts), p.match, pays)
            /\ IF pol'.on THEN LookupStep(p.drafts) ELSE HeadStep

Step ==
    /\ pc = "step"
    /\ \/ e.draft /\ DraftedStep
       \/ ~e.draft /\ StepAlone(e) /\ UNCHANGED <<look, pol>>
    /\ pc' = "top" /\ n' = n + 1
    /\ UNCHANGED <<fed, think, cut, shown, base, turns, parks>>

\* An evaluation fails half way, or the client leaves while parked: nothing of the sequence is kept.
Fail ==
    /\ pc # "idle"
    /\ e' = ResetEngine([e EXCEPT !.kv = RowsKept(@, e.past)])
    /\ hist' = << >> /\ Return

---------------------------------------------------------------------------
Init == /\ e = Fresh /\ hist = << >> /\ pc = "idle" /\ fed = 0 /\ tok = Eog /\ tok_in = FALSE
        /\ evald = << >> /\ tok_next = Eog /\ n = 0 /\ think = FALSE /\ cut = FALSE
        /\ shown = << >> /\ base = 0 /\ turns = 0 /\ parks = 0
        /\ look = [h |-> << >>, cap |-> Ctx]
        /\ pol \in {[on |-> FALSE, bad |-> 0, kmax |-> k] : k \in LookupDrafts}

Next == \/ \E p \in Prompts : Begin(p)
        \/ Feed \/ ParkPrefill
        \/ \E thinking \in BOOLEAN : FirstPick(thinking)
        \/ BudgetOver \/ Stop \/ CutThinking \/ Emit
        \/ ClientGone \/ Park \/ Step \/ Fail

Spec == Init /\ [][Next]_vars

---------------------------------------------------------------------------
\* The conversation grows only by what the client sent and what the trunk, reading all of it, draws:
\* no draft, rejection, rollback, park or restore shows in it ("exact either way", "every emitted
\* token is distributed exactly as the trunk's p").
Plain == INSTANCE PlainDecode WITH text <- hist, open <- pc # "idle", Burst <- MaxDrafts

PlainSpec == Plain!Spec

\* The engine's recurrent state is that of the history it is said to hold: all of it at the loop's top,
\* all but tok at the evaluation point, whatever was rejected and undone before.
EngineHolds ==
    /\ e.rs = Prefix(hist, e.past)
    /\ e.past = CASE pc = "feed" -> fed [] pc = "step" -> Len(hist) - 1 [] OTHER -> Len(hist)

\* The token drawn after the last evaluated position.
Following == IF tok_in THEN tok_next ELSE tok

\* While the head may draft, each of its rows pairs the residual of its position with the token that
\* really followed there, the rows of rejected drafts included; only a one-token prompt pass leaves a
\* row out ("without it the head would have a hole").
HeadRows ==
    MtpReady(e) =>
        LET seq == IF pc \in {"top", "step"} THEN Append(Prefix(hist, e.past), Following) ELSE Prefix(hist, e.past)
        IN \A p \in 0..(Len(seq) - 2) : p \in e.holes \/ e.head[p] = <<Prefix(seq, p + 1), seq[p + 2]>>

\* Accepted drafts reach the client in the order they stand in the history, none twice and none left
\* out, unless the thinking is cut.
ShownInOrder ==
    pc \in {"top", "step"} /\ ~cut =>
        shown \o (IF tok_in THEN <<tok>> \o evald ELSE << >>) = SubSeq(hist, base + 1, Len(hist))

\* The drafts prompt lookup would take are what followed the longest earlier occurrence of this
\* request's last tokens: no token of another request, a rejected draft or a parked turn is in the
\* index, and its table has lost no position ("cannot happen: hist only grows between steps").
LookupCopies ==
    pc = "step" /\ e.draft /\ LookupOn =>
        Proposal(Synced(look, hist)).drafts = Copied(hist, pol.kmax)
=============================================================================

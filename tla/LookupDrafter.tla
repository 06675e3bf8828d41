--------------------------- MODULE LookupDrafter ---------------------------
(***************************************************************************)
(* Prompt lookup (src/src/qwfn_lookup.cpp): drafts copied from the history *)
(* after an earlier occurrence of its last tokens, and the policy that     *)
(* decides when a step takes them.                                         *)
(*                                                                         *)
(* lookup_drafter maps each Gram tokens of its history to the Ways last    *)
(* places they end at, in an open-addressing table whose size is fixed     *)
(* when it is reset.  Its state is what it has indexed: the table follows. *)
(***************************************************************************)
EXTENDS Integers, FiniteSets, Sequences, SequencesExt, FiniteSetsExt

CONSTANTS
    Gram,         \* tokens of a key, and min_match: 3
    MaxMatch,     \* max_match
    Ways,         \* WAYS
    Probes,       \* slots looked at for a key: 64
    Bucket(_),    \* key & mask_: where the search for a key starts
    HeadDrafts,   \* --mtp-drafts: the drafts of the head's own window
    EnterMatch, Patience  \* lookup_policy::params

ASSUME LookupSizes ==
    /\ Gram \in Nat \ {0} /\ MaxMatch >= Gram /\ Ways \in Nat \ {0} /\ Probes \in Nat \ {0}
    /\ EnterMatch \in Nat /\ Patience \in Nat \ {0} /\ HeadDrafts \in Nat \ {0}

NoSlot == [key |-> << >>, pos |-> << >>]
KeyAt(h, end) == SubSeq(h, end - Gram + 1, end)

\* reset(): twice the capacity, rounded up to a power of two.
TableSize(capacity) == Min({c \in {2^i : i \in 0..(capacity + 1)} : c >= 2 * capacity})

\* find_slot(): the slots looked at for a key, in order, and the first that has it or is empty.
Probed(t, key) == [i \in 1..Min({Len(t), Probes}) |-> ((Bucket(key) + i - 1) % Len(t)) + 1]
FindSlot(t, key) == SelectInSeq(Probed(t, key), LAMBDA i : t[i].key \in {key, << >>})

\* append(): position end of h is indexed, unless no slot is found.
Indexed(t, h, end) ==
    LET key == KeyAt(h, end)
        i == FindSlot(t, key)
        s == Probed(t, key)[i]
        pos == <<end>> \o t[s].pos
    IN IF end < Gram \/ i = 0 THEN t
       ELSE [t EXCEPT ![s] = [key |-> key, pos |-> SubSeq(pos, 1, Min({Ways, Len(pos)}))]]

\* What the drafter holds after reset(capacity) and the appends of h.
Table(capacity, h) ==
    FoldLeft(LAMBDA t, end : Indexed(t, h, end), [i \in 1..TableSize(capacity) |-> NoSlot],
             [i \in 1..Len(h) |-> i])

\* How far back the tokens up to p agree with the last ones, up to MaxMatch.
MatchLen(h, p) ==
    Max({k \in 0..Min({p, MaxMatch}) : SubSeq(h, p - k + 1, p) = SubSeq(h, Len(h) - k + 1, Len(h))})

\* propose(): of the places the table has for the last tokens, the longest match, the newest on ties.
NoMatch == [match |-> 0, drafts |-> << >>]
Propose(t, h, k) ==
    LET n == Len(h)
        i == FindSlot(t, KeyAt(h, n))
        at == t[Probed(t, KeyAt(h, n))[i]].pos
        ends == {p \in ToSet(at) : p < n}
        len == Max({MatchLen(h, p) : p \in ends} \cup {0})
        best == Max({p \in ends : MatchLen(h, p) = len})
    IN IF n <= Gram \/ i = 0 \/ len < Gram THEN NoMatch
       ELSE [match |-> len, drafts |-> SubSeq(h, best + 1, Min({n, best + k}))]

---------------------------------------------------------------------------
(* lookup_policy: kmax: the drafts of a lookup window; on: lookup_; bad:   *)
(* bad_steps_.  The expected rates are learned from measured times;        *)
(* whether the lookup pays is left open.                                   *)

NewSequence(pol) == [pol EXCEPT !.on = FALSE, !.bad = 0]

\* choose(), for a proposal of k drafts after a match: where both windows have one size, per step;
\* else in on a full proposal from a strong match, and out when it has not paid for a while.
Choose(pol, k, match, pays) ==
    CASE pol.kmax = HeadDrafts -> [pol EXCEPT !.on = pays]
      [] pol.kmax # HeadDrafts /\ ~pol.on ->
            IF pays /\ k >= pol.kmax /\ match >= EnterMatch THEN [pol EXCEPT !.on = TRUE, !.bad = 0] ELSE pol
      [] pol.kmax # HeadDrafts /\ pol.on ->
            IF pays THEN [pol EXCEPT !.bad = 0]
            ELSE IF pol.bad + 1 >= Patience THEN NewSequence(pol) ELSE [pol EXCEPT !.bad = @ + 1]

---------------------------------------------------------------------------
(* The reference: no table, only the history.                              *)

\* The ends of the earlier occurrences of the last Gram tokens, the newest Ways - 1 of them: the
\* drafter's list of Ways has the last tokens themselves in it.
Earlier(h) ==
    LET all == {p \in Gram..(Len(h) - 1) : KeyAt(h, p) = KeyAt(h, Len(h))}
    IN {p \in all : Cardinality({q \in all : q > p}) < Ways - 1}

\* The k tokens after the longest of them, the newest on ties.
Copied(h, k) ==
    IF Len(h) <= Gram \/ Earlier(h) = {} THEN << >>
    ELSE LET longest == {p \in Earlier(h) : \A q \in Earlier(h) : MatchLen(h, q) <= MatchLen(h, p)}
         IN SubSeq(h, Max(longest) + 1, Min({Len(h), Max(longest) + k}))
=============================================================================

----------------------------- MODULE PlainDecode -----------------------------
(***************************************************************************)
(* What a client is promised of a reply (docs of --mtp: the drafts change  *)
(* how fast, never what): each turn the conversation grows by the client's *)
(* tokens and then by tokens the trunk itself may emit after everything    *)
(* before them.  How many are found at once, and whether drafts, rejected  *)
(* drafts, parks and restores lie between, does not show.                  *)
(***************************************************************************)
EXTENDS Integers, Sequences

CONSTANTS
    Token,        \* the vocabulary
    Trunk(_),     \* the tokens the sampler may draw after a context (one: greedy)
    Prompts,      \* what a client may add to the conversation
    CutPhrase,    \* what the thinking budget injects
    Burst         \* the most tokens one step may commit

VARIABLES
    text,         \* the conversation
    open          \* a reply is being made

\* The sequences of tokens that the trunk may emit after c.
Continuations(c) ==
    {s \in UNION {[1..k -> Token] : k \in 0..Burst} :
        \A i \in DOMAIN s : s[i] \in Trunk(c \o SubSeq(s, 1, i - 1))}

Init == text = << >> /\ open = FALSE

Ask == /\ ~open
       /\ open' = TRUE
       /\ \E p \in Prompts : text' \in {p, text \o p}

Say == /\ open
       /\ \E s \in Continuations(text) : text' \in {text \o s, text \o s \o CutPhrase}
       /\ UNCHANGED open

\* A token drawn and never evaluated is forgotten; a request that fails forgets everything.
Close == /\ open
         /\ open' = FALSE
         /\ text' \in {text, SubSeq(text, 1, Len(text) - 1), << >>}

Next == Ask \/ Say \/ Close

Spec == Init /\ [][Next]_<<text, open>>
=============================================================================

---------------------------- MODULE MCSpecDecode ----------------------------
(* A vocabulary of three, a trunk that is sometimes sure and sometimes not. *)
EXTENDS SpecDecode

MCDrawable(t, c) ==
    \/ t = 1
    \/ t = 2 /\ Len(c) % 3 = 1
    \/ c = << >>
    \/ \E i \in DOMAIN c : c[i] = Junk

MCPrompts == {<<1, 1>>, <<2>>}
\* Two keys in three share a bucket.
MCBucket(key) == (key[1] + key[2]) % 3
MCCutPhrase == <<2, 1>>
=============================================================================

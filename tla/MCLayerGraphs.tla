--------------------------- MODULE MCLayerGraphs ---------------------------
EXTENDS LayerGraphs, TLC
CONSTANTS e1, e2, e3, g1, g2

\* Residency: three experts for one slot, verified steps and short prompts.
Routing == [experts |-> {e1, e2, e3}, used |-> 2, slots |-> {g1}, buckets |-> {1}, lendable |-> {},
            stash |-> FALSE, packMulti |-> FALSE, skip |-> FALSE, uploadSkip |-> FALSE,
            narrow |-> TRUE, spec |-> {}, prompts |-> TRUE]
\* Graphs of changing shape, parked; then with the tier lent.
Stashing == [Routing EXCEPT !.experts = {e1, e2}, !.stash = TRUE, !.packMulti = TRUE, !.spec = {1},
                            !.buckets = {1, 2}, !.prompts = FALSE]
Lending == [Stashing EXCEPT !.buckets = {1}, !.lendable = {0, 1}, !.packMulti = FALSE]
\* Every expert of a step may be in VRAM: the uploads of zeros are skipped.
Skipping == [Routing EXCEPT !.experts = {e1, e2}, !.slots = {g1, g2}, !.uploadSkip = TRUE, !.narrow = FALSE,
                            !.prompts = FALSE]
Missing == [Skipping EXCEPT !.skip = TRUE]

MCSettings == {Routing, Stashing, Lending, Skipping, Missing}
Perms == Permutations({e1, e2})
=============================================================================

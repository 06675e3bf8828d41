------------------------- MODULE MCPrefillStreamer -------------------------
EXTENDS PrefillStreamer

\* Every way to initialise the streamer, with a tier that changes and a buffer that is borrowed,
\* or with reads and computations that fail.
AllModes ==
    [overlap : BOOLEAN, device : BOOLEAN, vram : {TRUE}, events : {{"tiers", "borrow"}, {"fault"}}]
=============================================================================

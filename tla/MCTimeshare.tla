---------------------------- MODULE MCTimeshare ----------------------------
EXTENDS Timeshare, TLC

CONSTANTS a, b, c, s, t
MCSessionOf == (a :> s) @@ (b :> s) @@ (c :> t)
=============================================================================

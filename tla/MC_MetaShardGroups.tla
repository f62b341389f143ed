------------------------ MODULE MC_MetaShardGroups ------------------------
(* Model values and definitions for checking MetaShardGroups with TLC.     *)
EXTENDS MetaShardGroups, TLC

CONSTANTS r1, r2, c1, c2

MCRPOrder == <<r1, r2>>
NoSources == <<>>
MCQueryWindow == <<0, 4>>
TwoPolicies == <<r1, r2>>
SamePolicyTwice == <<r1, r1>>
MCCreators == {c1, c2}
OneCreator == {c1}
\* <<1, 2>>: a group ending exactly at "to" (spec scenario 3); <<1, 3>> and
\* <<3, 5>>: groups ending inside the window (scenario 4).
MCWindows == {<<1, 2>>, <<1, 3>>, <<3, 5>>}
=============================================================================

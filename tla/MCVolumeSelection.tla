------------------------- MODULE MCVolumeSelection -------------------------
(* Values for the constants of VolumeSelection.                            *)
EXTENDS VolumeSelection

CONSTANTS c1, c2

SomeTokens == {"a", "b", "x"}

\* Two arrays, and a handle that is too short for the PowerStore format.
SomeHandles == {<<"a", "x">>, <<"b", "x">>, <<"a">>}

\* Distinct claims, and lists that name a claim twice.
SomeRequests == {<<c1>>, <<c1, c2>>, <<c1, c1>>, <<c2, c1, c2>>}
=============================================================================

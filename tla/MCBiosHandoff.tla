---------------------------- MODULE MCBiosHandoff ----------------------------
(***************************************************************************)
(* Memory maps of zero to five ranges for BiosHandoff: none, as many as    *)
(* are accepted, one more, and enough to reach the video description; and  *)
(* video modes that all have a linear frame buffer, or all but two.        *)
(***************************************************************************)
EXTENDS BiosHandoff

MCRangeLists == {SubSeq(<<"r1", "r2", "r3", "r4", "r5">>, 1, len) : len \in 0 .. 5}
MCModes == <<"4112", "4111", "4101">>
MCLinearSets == {{"4112", "4111", "4101"}, {"4111"}}
=============================================================================

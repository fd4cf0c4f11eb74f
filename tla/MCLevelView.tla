---------------------------- MODULE MCLevelView ----------------------------
(* LevelView on a column of three cells, with dirt, grass and slabs.        *)
EXTENDS LevelView, TLC

CONSTANTS dirt, grass, slab, double

SoilOf == (grass :> dirt) @@ [b \in Block |-> Air]
TurfOf == (dirt :> grass) @@ [b \in Block |-> Air]
PairOf == (slab :> double) @@ [b \in Block |-> Air]
OldOf == [b \in Block |-> IF b = grass THEN dirt ELSE IF b = double THEN slab ELSE b]
LightAir == {Air}
Ground == {[c \in Cell |-> IF c = 1 THEN b ELSE Air] : b \in {grass, slab}}
=============================================================================

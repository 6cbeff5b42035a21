----------------------------- MODULE MCVfsDisk -----------------------------
EXTENDS VfsDisk, TLC

\* A text shorter than a sector, and one that fills one or lies across two.
MCTexts == {<<"a">>, <<"b", "c">>}

Symmetry == Permutations(Names)
=============================================================================

------------------------------ MODULE MCSigil ------------------------------
EXTENDS Sigil

\* No file, an empty one, and a rune of one column with a byte that is no colour.
MCContents == {Absent, Fabbed, RuneFile(1, 2, <<1, 9>>)}
=============================================================================

------------------------------ MODULE MCScribe ------------------------------
EXTENDS Scribe

\* Nothing, a line with and one without a line break, the breaks of another system, and a
\* line that ends with a carriage return more.
MCFiles == { <<>>, <<"a", NL>>, <<CR, NL, "a">>, <<CR, CR, NL>> }

\* More lines than the editor loads.
MCLongFile == { <<"a", NL, "a", NL, "a">> }

MCNeedles == { <<"a">>, <<"a", " ">> }
=============================================================================

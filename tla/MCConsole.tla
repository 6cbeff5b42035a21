----------------------------- MODULE MCConsole -----------------------------
EXTENDS Console

\* A prompt that leaves room in its row, and one that fills it.
MCPrompts == { <<">">>, <<">", ">">> }

\* Nothing, and a line that is longer than a row.
MCOutputs == { <<>>, <<"o", "o", "o", LineBreak>> }
=============================================================================

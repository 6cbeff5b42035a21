----------------------------- MODULE MCVfsTree -----------------------------
EXTENDS VfsTree

Path(slash, parts) == [slash |-> slash, parts |-> parts]
A == <<"a">>
Spell == <<"a", ".", "ms">>

MCNames == {A, Spell}

\* Up, down, down and up again, and the root
MCTargets == { Path(FALSE, <<ParentName>>), Path(FALSE, <<A>>),
               Path(FALSE, <<A, ParentName>>), Path(TRUE, <<>>) }

\* Names as long as a node's name can be, and longer
MCLongNames == { <<"a", "b", "c">>, <<"a", "b", "c", "d">> }

\* A name with the first letter of the root
MCPNames == { <<"P", "a">> }

\* Names that the tree of vfs_init has already
MCBaseNames == {A, BaseName}
=============================================================================

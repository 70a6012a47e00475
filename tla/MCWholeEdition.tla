--------------------------- MODULE MCWholeEdition ---------------------------
EXTENDS WholeEdition
MCOrder == <<"a", "b">>
=============================================================================

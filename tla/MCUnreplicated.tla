--------------------------- MODULE MCUnreplicated ---------------------------
EXTENDS Unreplicated
CONSTANTS c1, c2
=============================================================================

---------------------------- MODULE MCCloseTime -----------------------------
EXTENDS CloseTime
CONSTANTS a, b, c, d
FourNodes == {a, b, c, d}
SpreadClocks == {100, 130, 160, 190}
MCPercents == {0, 250}
=============================================================================

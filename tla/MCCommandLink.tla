--------------------------- MODULE MCCommandLink ---------------------------
EXTENDS CommandLink

CONSTANTS c1, c2, c3, arm, mode

TwoCalls    == {c1, c2}
ThreeCalls  == {c1, c2, c3}
OneCommand  == {arm}
TwoCommands == {arm, mode}
=============================================================================

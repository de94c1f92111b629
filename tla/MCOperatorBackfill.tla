------------------------- MODULE MCOperatorBackfill -------------------------
EXTENDS OperatorBackfill

TwoCoverages == <<<<"minute">>, <<"hour">>>>
OneLate == {[minute |-> 1, hour |-> 0]}
AboveTheBound == {<<1, 2>>}
=============================================================================

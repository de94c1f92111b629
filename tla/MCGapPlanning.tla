---------------------------- MODULE MCGapPlanning ----------------------------
EXTENDS GapPlanning

\* Windows of up to six bars with stored bars inside and around them, requests
\* and budgets that cut them in every way, and an off-grid call.
SmallInputs ==
    [stored : SUBSET (0..7), aligned : {TRUE}, start : {1}, end : {2, 4, 7},
     maxCandles : {1, 2, 4}, budget : {1, 2, 9}]
    \cup [stored : {{2}}, aligned : {FALSE}, start : {1}, end : {4},
          maxCandles : {1}, budget : {1}]
=============================================================================

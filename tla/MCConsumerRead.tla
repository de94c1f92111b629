--------------------------- MODULE MCConsumerRead ---------------------------
EXTENDS ConsumerRead, TLC

CONSTANTS a, b

\* The OHLCV texts are only compared with each other.
TextSymmetry == Permutations(Values)
=============================================================================

--------------------- MODULE MCHistoricalReconciliation ---------------------
EXTENDS HistoricalReconciliation

\* Two streams; the second has an open-interest track.
TwoStreams == <<"minute", "hour">>
=============================================================================

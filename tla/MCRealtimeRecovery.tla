------------------------ MODULE MCRealtimeRecovery ------------------------
EXTENDS RecoveryInvariant
=============================================================================

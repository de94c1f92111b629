-------------------------- MODULE MCServiceProcess --------------------------
EXTENDS ServiceProcess
=============================================================================

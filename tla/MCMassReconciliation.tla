------------------------ MODULE MCMassReconciliation ------------------------
EXTENDS MassReconciliation, TLC
=============================================================================

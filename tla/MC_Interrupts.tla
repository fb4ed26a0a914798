---------------------------- MODULE MC_Interrupts ----------------------------
EXTENDS Interrupts

CONSTANTS t1, t2, t3

MCThreads == {t1, t2, t3}

=============================================================================

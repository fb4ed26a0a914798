---------------------------- MODULE MC_MemoryMap ----------------------------
EXTENDS MemoryMap
=============================================================================

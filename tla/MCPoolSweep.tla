----------------------------- MODULE MCPoolSweep -----------------------------
EXTENDS PoolSweep
=============================================================================

-------------------------- MODULE MCHybridSpinlock --------------------------
EXTENDS HybridSpinlock

\* hybrid_spinlock.h and hybrid_spinlock_fastdequeue.h with small thresholds.
MCBuilds == {<<1, 0>>, <<2, 0>>, <<3, 1>>}

\* Thread 8's tail has two equal bytes when a byte has eight values.
MCThreads == {0, 1, 2, 8}

=============================================================================

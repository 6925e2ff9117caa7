---------------------------- MODULE MCExperiment ----------------------------
\* Small instances of Experiment for TLC.
EXTENDS Experiment
=============================================================================

----------------------------- MODULE MCCollector -----------------------------
EXTENDS Collector

=============================================================================

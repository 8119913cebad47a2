------------------------------ MODULE MCScorer ------------------------------
EXTENDS Scorer

CONSTANTS a, b, c

\* Three shapes of cycle: a pool with a row that no reader accepts, the pool
\* without it, and a single survivor (where nothing may be ejected)
MCMeasurements == {<<a, b, c>>, <<a, b>>, <<b>>}
=============================================================================

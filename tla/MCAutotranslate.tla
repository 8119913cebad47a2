-------------------------- MODULE MCAutotranslate --------------------------
EXTENDS Autotranslate

CONSTANTS a, b

\* The first item is the smaller one
MCSize == [i \in Items |-> IF i = a THEN 1 ELSE 2]
=============================================================================

---------------------------- MODULE MCCollector ----------------------------
EXTENDS Collector

\* Objects may have one array, and an array may belong to no object yet.
MCArraySize == [x \in Obj \union {VM} |-> 2]
=============================================================================

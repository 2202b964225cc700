---------------------------- MODULE MCHashTable ----------------------------
EXTENDS HashTable

\* Keys are numbers; 2 and 5 collide in every table and probe across the end
\* of the array, where they meet 1.
MCHash(k) == IF k % 3 = 2 THEN 7 ELSE k % 3
MCKeys == {1, 2, 5}
MCTables == {"methods", "superMethods"}

\* No call depends on what the last one was or returned.
TablesOnly == tables
=============================================================================

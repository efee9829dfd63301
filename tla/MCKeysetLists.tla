---------------------------- MODULE MCKeysetLists ----------------------------
\* Three rows besides those of the list requests, read at most two at a time
\* while two transactions write.
EXTENDS KeysetLists, TLC

\* The writers are interchangeable; the ids are not, they break ties.
WriterSymmetry == Permutations(Writers)
==============================================================================

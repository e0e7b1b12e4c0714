---------------------------- MODULE MCSummaryJobs ----------------------------
(* Small instances of SummaryJobs.                                         *)
EXTENDS SummaryJobs, TLC

\* Every job asks for the same key.
MCSameKey == [j \in Job |-> CHOOSE k \in Key : TRUE]
Symmetry == Permutations(Worker) \cup Permutations(Job)
=============================================================================

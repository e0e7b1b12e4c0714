---------------------------- MODULE MCStreamTrim ----------------------------
(* A small instance of StreamTrim; its groups are interchangeable.         *)
EXTENDS StreamTrim, TLC

GroupSymmetry == Permutations(Group)
=============================================================================

---------------------------- MODULE LaneDealing ----------------------------
(***************************************************************************)
(* Which lane of a batch a message runs in and what runs before it, read   *)
(* off the sequence of the messages' entity keys: what _lanes of           *)
(* consumers/engine.py computes, without its loops.  StreamConsumer        *)
(* schedules with these definitions; MCStreamConsumer compares them with   *)
(* the loops.                                                              *)
(***************************************************************************)
EXTENDS Integers, Sequences, FiniteSets

\* The first message of i's partition.
FirstSeen(keys, i) ==
  CHOOSE j \in 1..i : /\ keys[j] = keys[i]
                      /\ \A k \in 1..(j - 1) : keys[k] # keys[i]

\* The index of i's partition, from 0, in first-seen order.
Partition(keys, i) ==
  Cardinality({j \in 1..(FirstSeen(keys, i) - 1) : FirstSeen(keys, j) = j})

Lane(keys, width, i) == Partition(keys, i) % width

\* j runs before i in i's lane.
Precedes(keys, width, j, i) ==
  /\ Lane(keys, width, j) = Lane(keys, width, i)
  /\ \/ Partition(keys, j) < Partition(keys, i)
     \/ Partition(keys, j) = Partition(keys, i) /\ j < i
=============================================================================

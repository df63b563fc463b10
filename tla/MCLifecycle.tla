----------------------------- MODULE MCLifecycle -----------------------------
(* Instances of Lifecycle for TLC: the topics of setTopic are interchangeable. *)
EXTENDS Lifecycle, TLC

TopicSymmetry == Permutations(Topics)
=============================================================================

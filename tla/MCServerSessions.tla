-------------------------- MODULE MCServerSessions --------------------------
(* Instances of ServerSessions for TLC: the ids are interchangeable.        *)
EXTENDS ServerSessions, TLC

IdSymmetry == Permutations(Ids)
=============================================================================

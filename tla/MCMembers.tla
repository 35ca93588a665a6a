----------------------------- MODULE MCMembers -----------------------------
(* The owner, a person who may become an admin and another one to invite:   *)
(* two managers and whoever accepts, each with a request in flight.         *)
EXTENDS Members, TLC

Symmetry == Permutations(Persons \ {Owner}) \cup Permutations(Invitations)
              \cup Permutations(Requests)
=============================================================================

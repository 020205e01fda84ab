---------------------------- MODULE MCForkChoice ----------------------------
(* Instances of ForkChoice for TLC. *)
EXTENDS ForkChoice

MCGenesis == <<0, 1>>

\* every interval, with one gossiped attestation and one block that carries one
Gossip == [voters |-> {{0}, {1}, {0, 1}}, start |-> 0, jumps |-> {1}, time |-> 16,
           blocks |-> 1, gossips |-> 1, body |-> 1]

\* slot by slot, two rival blocks and two gossiped attestations of everybody
Rivals == [voters |-> {{0, 1}}, start |-> 4, jumps |-> {5}, time |-> 24,
           blocks |-> 2, gossips |-> 2, body |-> 0]

MCScopes == {Gossip, Rivals}
OneScope == {Gossip}
=============================================================================

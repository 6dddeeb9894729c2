------------------------------ MODULE MCTriggers ------------------------------
(* Triggers with two threads that type, and the limits its rules are given. *)
EXTENDS Triggers, TLC

CONSTANTS w1, w2, login, reboot
MCWriters  == {w1, w2}
MCContents == {login, reboot}
Alike == Permutations(MCWriters) \union Permutations(MCContents)

AtOnce      == [once |-> FALSE, after |-> 1]
OnlyOnce    == [once |-> TRUE, after |-> 1]
OnTheSecond == [once |-> FALSE, after |-> 2]
EveryLimit  == {AtOnce, OnlyOnce, OnTheSecond}
=============================================================================

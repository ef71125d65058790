---------------------------- MODULE MCEgressProxy ----------------------------
(* Two addresses that pass between two bots, two hosts.                     *)
EXTENDS EgressProxy, TLC

CONSTANTS b1, b2

MCBotOrder == <<b1, b2>>

\* Hosts and addresses are alike; the bots are sorted.
Alike == Permutations(Host) \cup Permutations(Ip)
=============================================================================

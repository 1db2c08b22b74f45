----------------------------- MODULE MCRouting -----------------------------
(***************************************************************************)
(* An instance of Routing: two actors, a command "On", an event "Clash"    *)
(* whose name hashes to the same id and which is too large for the first   *)
(* actor, and an event "Hot" that both actors may handle.                  *)
(***************************************************************************)
EXTENDS Routing, TLC

MCActor == {"a", "b"}
MCDesc == {"On", "Clash", "Hot"}
MCEvents == {"Clash", "Hot"}
MCHash == [d \in MCDesc |-> IF d = "Hot" THEN 2 ELSE 1]
MCSize == [d \in MCDesc |-> IF d = "Clash" THEN 2 ELSE 1]
MCMaxPayload == [a \in MCActor |-> IF a = "a" THEN 1 ELSE 2]
ThreadSymmetry == Permutations(Thread)
=============================================================================

--------------------------- MODULE ResourceRecord ---------------------------
(***************************************************************************)
(* The arithmetic of one compute resource: amounts of CPUs and memory, and *)
(* what Resource.allocate, Resource.release and the decision to grant in   *)
(* RedisManager.allocate_resource make of them.                            *)
(***************************************************************************)
EXTENDS Integers

Assets == [cpus : Nat, memory : Nat]

NoAssets == [cpus |-> 0, memory |-> 0]

Least(a, b) == IF a <= b THEN a ELSE b

Less(a, b) == [cpus |-> a.cpus - b.cpus, memory |-> a.memory - b.memory]
Plus(a, b) == [cpus |-> a.cpus + b.cpus, memory |-> a.memory + b.memory]

\* Resource.allocate hands out what was asked or, short of it, all there is.
Taken(seen, ask) == [cpus   |-> Least(ask.cpus, seen.cpus),
                     memory |-> Least(ask.memory, seen.memory)]

Suffices(seen, ask) == seen.cpus >= ask.cpus /\ seen.memory >= ask.memory

\* A partial grant must hold a CPU, and memory if memory was asked for.
PartOf(seen, ask) == /\ Taken(seen, ask).cpus > 0
                     /\ Taken(seen, ask).memory > 0 \/ ask.memory = 0

Exhausted(seen) == seen.cpus = 0 \/ seen.memory = 0
=============================================================================

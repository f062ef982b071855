------------------------------- MODULE MCRedis -------------------------------
(***************************************************************************)
(* The two structures in Redis that processes compete for, each by itself: *)
(* the lock on the active jobs, with the four loops of a deployment, two   *)
(* of which share a process; and the records of two resources, one of them *)
(* exhausted by a single request and the other by two.                     *)
(***************************************************************************)
EXTENDS ActiveJobsLock, ResourcePool, TLC

CONSTANTS manager, partitioner, dataCheck, provision,
          big, small, c1, c2, i1, i2, i3

MCUsers == {manager, partitioner, dataCheck, provision}
MCProcesses == {{manager}, {partitioner}, {dataCheck, provision}}

MCClients == {c1, c2}
MCResources == {big, small}
MCTotal == big :> [cpus |-> 2, memory |-> 2] @@ small :> [cpus |-> 1, memory |-> 1]
MCIds == {i1, i2, i3}

\* Nothing of the one depends on the other, so they do not interleave.
VARIABLE part

RedisInit == LockInit /\ Init /\ part \in {"lock", "pool"}
RedisNext == /\ part' = part
             /\ \/ part = "lock" /\ LockNext /\ UNCHANGED vars
                \/ part = "pool" /\ Next /\ UNCHANGED lockVars

\* The fairness of the two specifications, each for its part.
Redis == /\ RedisInit /\ [][RedisNext]_<<lockVars, vars, part>>
         /\ WF_lockVars(part = "lock" /\ Expire)
         /\ \A u \in Users : WF_lockVars(part = "lock" /\ UserStep(u))
         /\ \A c \in Clients : WF_vars(part = "pool" /\ Continue(c))
=============================================================================

------------------------ MODULE AllocationParadigms ------------------------
(***************************************************************************)
(* The three ways in which ResourceManager spreads a request over the      *)
(* nodes of the pool: SINGLE_NODE, FILL_NODES and ROUND_ROBIN, each as a   *)
(* function from the records of the nodes to the grants and the records it *)
(* leaves, with the BUNDLE grouping the job manager uses.  A job manager   *)
(* is the only caller, so a call is one step.  Nodes come in the order     *)
(* Redis lists the members of a set, which may be any order.               *)
(***************************************************************************)
EXTENDS ResourceRecord, Sequences, FiniteSets, FiniteSetsExt, SequencesExt

CONSTANTS Nodes,      \* the resources of the pool
          Total,      \* the assets of each of them
          AskCpus,    \* CPU counts jobs ask for
          AskMemory,  \* amounts of memory jobs ask for
          Jobs        \* holders of allocations

ASSUME ParadigmAssumption == /\ IsFiniteSet(Nodes) /\ IsFiniteSet(Jobs)
                             /\ Total \in [Nodes -> Assets]
                             /\ AskCpus \subseteq Nat \ {0}
                             /\ AskMemory \subseteq Nat \ {0}

VARIABLES ready,   \* the nodes that are active and ready
          avail,   \* the resource records: what is left of each node
          held,    \* the allocations of each job
          lost     \* history: assets granted in a call that raised

vars == <<ready, avail, held, lost>>

Asks == [cpus : AskCpus, memory : AskMemory]

GrantsOnNodes == [node : Nodes, cpus : Nat, memory : Nat]

TypeOK == /\ ready \subseteq Nodes
          /\ avail \in [Nodes -> Assets]
          /\ held \in [Jobs -> Seq(GrantsOnNodes)]
          /\ lost \in [Nodes -> Assets]

Init == /\ ready \in SUBSET Nodes
        /\ avail = Total
        /\ held = [j \in Jobs |-> <<>>]
        /\ lost = [n \in Nodes |-> NoAssets]
-----------------------------------------------------------------------------
Grant(n, assets) == [node |-> n, cpus |-> assets.cpus, memory |-> assets.memory]

\* What grants are made of; what those numbered I add up to, all of them, and those on a node.
Cpus(grants) == [i \in DOMAIN grants |-> grants[i].cpus]
Memory(grants) == [i \in DOMAIN grants |-> grants[i].memory]
SumUp(grants, I) == [cpus   |-> SumFunctionOnSet(Cpus(grants), I),
                     memory |-> SumFunctionOnSet(Memory(grants), I)]
Amount(grants) == SumUp(grants, DOMAIN grants)
OnNode(grants, n) == SumUp(grants, {i \in DOMAIN grants : grants[i].node = n})

\* The records after grants are taken out of them or released into them.
TakeOut(records, grants) == [n \in Nodes |-> Less(records[n], OnNode(grants, n))]
PutBack(records, grants) == [n \in Nodes |-> Plus(records[n], OnNode(grants, n))]

\* The end of a call: the allocations returned, where none stands for
\* [None], the records, and what was granted before the call raised.
Returned(records, grants) == [grants |-> grants, avail |-> records, leak |-> <<>>,
                              raised |-> FALSE]
NoneOf(records) == Returned(records, <<>>)
Raised(records, leak) == [grants |-> <<>>, avail |-> records, leak |-> leak,
                          raised |-> TRUE]

\* allocate_single_node: the first usable node with room for everything.
SingleNode(records, order, ask) ==
    LET fit == {i \in DOMAIN order : Suffices(records[order[i]], ask)}
        g == <<Grant(order[Min(fit)], ask)>>
    IN  IF fit = {} THEN NoneOf(records) ELSE Returned(TakeOut(records, g), g)

\* allocate_fill_nodes takes from node after node.  The loop that asks a
\* node goes on while the CPUs left are >= 0, so it asks once more after
\* everything was granted, and allocate_resource rejects a request for no
\* CPU with a ValueError.
FillNode(s, n) ==
    LET t == Taken(s.avail[n], s.left)
    IN  IF s.raised \/ Exhausted(s.avail[n]) \/ t.memory = 0 THEN s
        ELSE [avail  |-> [s.avail EXCEPT ![n] = Less(@, t)],
              grants |-> Append(s.grants, Grant(n, t)),
              left   |-> Less(s.left, t),
              raised |-> t.cpus = s.left.cpus]

Filled(records, order, ask) ==
    FoldLeft(FillNode, [avail |-> records, grants |-> <<>>, left |-> ask,
                        raised |-> FALSE], order)

\* Faulty variant: a failed call keeps what it took.
FillNodesKeepsPart(records, order, ask) ==
    LET s == Filled(records, order, ask)
    IN  IF s.raised THEN Raised(s.avail, s.grants) ELSE NoneOf(s.avail)

FillNodes(records, order, ask) ==
    LET s == Filled(records, order, ask)
    IN  IF s.raised THEN Raised(s.avail, s.grants)
        ELSE NoneOf(PutBack(s.avail, s.grants))

\* allocate_round_robin: an even share for each node, with one more while a
\* remainder is left and the node has room.  A node short of its share ends
\* the search, unless there are fewer CPUs to share than nodes.
Share(order, ask) == LET k == Least(ask.cpus, Len(order))
                     IN  [cpus |-> ask.cpus \div k, memory |-> ask.memory \div k]

Remainder(order, ask) == LET k == Least(ask.cpus, Len(order))
                         IN  [cpus |-> ask.cpus % k, memory |-> ask.memory % k]

\* Faulty variant: off by one in the room for a remainder.
OneMoreTight(has, share, remainder) ==
    IF has > share + 1 /\ remainder > 0 THEN 1 ELSE 0

OneMore(has, share, remainder) == IF has > share /\ remainder > 0 THEN 1 ELSE 0

Visit(records, order, ask, s, n) ==
    LET share == Share(order, ask)
        extra == [cpus   |-> OneMore(records[n].cpus, share.cpus, s.left.cpus),
                  memory |-> OneMore(records[n].memory, share.memory, s.left.memory)]
    IN  IF s.refused \/ Amount(s.grants).cpus = ask.cpus THEN s
        ELSE IF ~Suffices(records[n], share)
        THEN [s EXCEPT !.refused = ask.cpus >= Len(order)]
        ELSE [grants  |-> Append(s.grants, Grant(n, Plus(share, extra))),
              left    |-> Less(s.left, extra),
              refused |-> FALSE]

ShareOut(records, order, ask) ==
    FoldLeft(LAMBDA s, n : Visit(records, order, ask, s, n),
             [grants |-> <<>>, left |-> Remainder(order, ask), refused |-> FALSE], order)

\* The division by the number of nodes raises if there is none.
RoundRobin(records, order, ask) ==
    IF order = <<>> THEN Raised(records, <<>>)
    ELSE LET s == ShareOut(records, order, ask)
         IN  IF s.refused \/ Amount(s.grants) # ask
             THEN NoneOf(records)
             ELSE Returned(TakeOut(records, s.grants), s.grants)
-----------------------------------------------------------------------------
\* A call for job j that ended in result r.
Ends(j, r) == /\ avail' = r.avail
              /\ held' = [held EXCEPT ![j] = r.grants]
              /\ lost' = PutBack(lost, r.leak)
              /\ UNCHANGED ready

\* request_allocations picks the way by the paradigm of the job.
Allocate(j, ask, order) ==
    /\ held[j] = <<>>
    /\ \/ Ends(j, SingleNode(avail, order, ask))
       \/ Ends(j, FillNodes(avail, order, ask))
       \/ Ends(j, RoundRobin(avail, order, ask))

Release(j) == /\ held[j] # <<>>
              /\ avail' = PutBack(avail, held[j])
              /\ held' = [held EXCEPT ![j] = <<>>]
              /\ UNCHANGED <<ready, lost>>

Next == \E j \in Jobs : \/ \E ask \in Asks, order \in SetToSeqs(ready) : Allocate(j, ask, order)
                        \/ Release(j)

Spec == Init /\ [][Next]_vars
-----------------------------------------------------------------------------
(***************************************************************************)
(* Types; and what is left of a node, what jobs hold on it and what calls  *)
(* that raised have lost on it make up the node: no paradigm gives out     *)
(* more than there is, and a call that ends in [None] has put all back.    *)
(***************************************************************************)
Conservation ==
    TypeOK /\ \A n \in Nodes :
        /\ avail[n].cpus + lost[n].cpus
             + SumFunction([j \in Jobs |-> OnNode(held[j], n).cpus]) = Total[n].cpus
        /\ avail[n].memory + lost[n].memory
             + SumFunction([j \in Jobs |-> OnNode(held[j], n).memory]) = Total[n].memory

\* The grants of a call of op for every request and order of the nodes.
ForEveryCall(op(_, _, _), claim(_, _, _)) ==
    \A ask \in Asks, order \in SetToSeqs(ready) :
        claim(ask, order, op(avail, order, ask))

\* The balanced distributions of a request over all ready nodes.
BalancedWays(order, ask) ==
    LET lo == Share(order, ask)
        near == {Plus(lo, [cpus |-> c, memory |-> m]) : c \in 0 .. 1, m \in 0 .. 1}
    IN  {w \in [ready -> near] :
            /\ SumFunction(Cpus(w)) = ask.cpus
            /\ SumFunction(Memory(w)) = ask.memory
            /\ \A n \in ready : Suffices(avail[n], w[n])}

(***************************************************************************)
(* SINGLE_NODE serves a request exactly when one ready node has room for   *)
(* all of it, with just what was asked. What ROUND_ROBIN grants is a       *)
(* balanced distribution of the request: it adds up to it and lies on as   *)
(* many nodes as there can be. A request for at least one CPU per ready    *)
(* node is served whenever any such distribution fits, although the        *)
(* remainders are handed out greedily in an arbitrary order of the nodes.  *)
(* A call ends in an error instead of [None] in two cases only: ROUND_ROBIN*)
(* without a ready node, and FILL_NODES when it has granted every CPU that *)
(* was asked for, all of which are lost.                                   *)
(***************************************************************************)
ServesWhatFits ==
    /\ ForEveryCall(SingleNode, LAMBDA ask, order, r :
        /\ ~r.raised
        /\ r.grants # <<>> <=> \E n \in ready : Suffices(avail[n], ask)
        /\ \A g \in ToSet(r.grants) : Suffices(avail[g.node], ask)
        /\ r.grants # <<>> => Amount(r.grants) = ask)
    /\ ForEveryCall(RoundRobin, LAMBDA ask, order, r :
        /\ r.raised <=> ready = {}
        /\ r.grants # <<>> =>
              /\ Amount(r.grants) = ask
              /\ Cardinality({g.node : g \in ToSet(r.grants)})
                   = Least(ask.cpus, Cardinality(ready))
              /\ \A g, h \in ToSet(r.grants) : g.cpus <= h.cpus + 1 /\ g.memory <= h.memory + 1
        /\ (ready # {} /\ ask.cpus >= Cardinality(ready))
              => ((r.grants # <<>>) <=> BalancedWays(order, ask) # {}))
    /\ ForEveryCall(FillNodes, LAMBDA ask, order, r :
        r.raised => Amount(r.leak).cpus = ask.cpus /\ Amount(r.leak).memory <= ask.memory)
=============================================================================

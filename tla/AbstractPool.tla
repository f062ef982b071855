---------------------------- MODULE AbstractPool ----------------------------
(***************************************************************************)
(* What callers of RedisManager may rely on: a pool of resources in which  *)
(* each call of allocate_resource or release_resource takes effect at once *)
(* at some moment between its beginning and its end.  What is granted was  *)
(* there to be given, what is refused could not be given at some moment of *)
(* the call, and an allocation fails only if another call changed the      *)
(* resource meanwhile.                                                     *)
(***************************************************************************)
EXTENDS ResourceRecord

CONSTANTS Clients, Resources, Total, AskCpus, AskMemory, AllocIds

VARIABLES left,   \* what there is of each resource
          held,   \* allocations each client has been granted
          call,   \* the call each client is making
          raced,  \* whether another call changed the resource meanwhile
          last    \* how the last call of each client ended

vars == <<left, held, call, raced, last>>

Idle == [kind |-> "idle"]

Begun(kind, ask) == [kind |-> kind, ask |-> ask, refused |-> FALSE]

Calling(c, kind) == call[c].kind = kind

Init == /\ left = Total
        /\ held = [c \in Clients |-> {}]
        /\ call = [c \in Clients |-> Idle]
        /\ raced = [c \in Clients |-> FALSE]
        /\ last = [c \in Clients |-> "none"]

Begin(c, kind, ask) == /\ call[c] = Idle
                       /\ call' = [call EXCEPT ![c] = Begun(kind, ask)]
                       /\ last' = [last EXCEPT ![c] = "none"]
                       /\ UNCHANGED <<left, held, raced>>

BeginAllocate(c) ==
    \E ask \in [res : Resources, cpus : AskCpus, memory : AskMemory,
                partial : BOOLEAN] : Begin(c, "allocate", ask)

BeginRelease(c) == \E a \in held[c] : Begin(c, "release", a)

End(c, outcome) == /\ call' = [call EXCEPT ![c] = Idle]
                   /\ last' = [last EXCEPT ![c] = outcome]

\* Calls under way on r may notice that c has changed it.
Disturb(c, r) == /\ raced' \in [Clients -> BOOLEAN]
                 /\ \A d \in Clients : raced'[d] =>
                       /\ d # c
                       /\ raced[d] \/ (call[d] # Idle /\ call[d].ask.res = r)

\* What may be given: no more than asked and than there is; all of it, or a
\* part that is of use if the caller takes a part.
MayGive(g, there, ask) ==
    /\ g.cpus <= there.cpus /\ g.memory <= there.memory
    /\ \/ g.cpus = ask.cpus /\ g.memory = ask.memory
       \/ ask.partial /\ (g.memory > 0 \/ ask.memory = 0)

Grant(c) ==
    /\ Calling(c, "allocate") /\ ~call[c].refused
    /\ LET ask == call[c].ask
           r == ask.res
       IN  \E g \in [cpus : 1 .. ask.cpus, memory : 0 .. ask.memory] :
             /\ MayGive(g, left[r], ask)
             /\ left' = [left EXCEPT ![r] = Less(@, g)]
             /\ \E id \in AllocIds :
                   held' = [held EXCEPT ![c] = @ \union
                      {[id |-> id, res |-> r, cpus |-> g.cpus, memory |-> g.memory]}]
             /\ Disturb(c, r)
    /\ End(c, "granted")

\* The moment that lets a call end in a refusal.
TooLittle(there, ask) == /\ ~Suffices(there, ask)
                         /\ ask.partial => Exhausted(there)

Decide(c) == /\ Calling(c, "allocate") /\ ~call[c].refused
             /\ TooLittle(left[call[c].ask.res], call[c].ask)
             /\ call' = [call EXCEPT ![c].refused = TRUE]
             /\ UNCHANGED <<left, held, raced, last>>

Refuse(c) == /\ Calling(c, "allocate") /\ call[c].refused
             /\ raced' = [raced EXCEPT ![c] = FALSE]
             /\ End(c, "refused")
             /\ UNCHANGED <<left, held>>

Raise(c) == /\ Calling(c, "allocate") /\ raced[c]
            /\ raced' = [raced EXCEPT ![c] = FALSE]
            /\ End(c, "raised")
            /\ UNCHANGED <<left, held>>

Release(c) == /\ Calling(c, "release")
              /\ LET a == call[c].ask IN
                    /\ left' = [left EXCEPT ![a.res] = Plus(@, a)]
                    /\ held' = [held EXCEPT ![c] = @ \ {a}]
                    /\ Disturb(c, a.res)
              /\ End(c, "released")

\* A release that noticed a change begins again.
TryAgain(c) == /\ Calling(c, "release") /\ raced[c]
               /\ raced' = [raced EXCEPT ![c] = FALSE]
               /\ UNCHANGED <<left, held, call, last>>

Next == \E c \in Clients :
           \/ BeginAllocate(c) \/ Grant(c) \/ Decide(c) \/ Refuse(c) \/ Raise(c)
           \/ BeginRelease(c) \/ Release(c) \/ TryAgain(c)

Spec == Init /\ [][Next]_vars
=============================================================================

-------------------------------- MODULE IBP --------------------------------
(***************************************************************************)
(* The IBP client of scripts/protocol: one exchange of a command and an    *)
(* answer with a depot over a socket of its own, and what IBPAdaptor makes *)
(* of several of them.  A depot keeps an allocation as long as it has read *)
(* references.  Any exchange may time out after ten seconds: whether the   *)
(* depot has carried the command out is then unknown to the client.        *)
(***************************************************************************)
EXTENDS Integers, Sequences, FiniteSets

CONSTANTS Allocs,     \* the allocations that are known to somebody
          Users,      \* clients that release allocations
          Wanted,     \* the allocation that the users release
          References  \* the read references that each allocation has to begin with

ASSUME IBPAssumption == Wanted \in Allocs /\ References \in [Allocs -> Nat]

VARIABLES refs,  \* read references the depot counts; at 0 the allocation is gone
          user   \* what each user is doing

ibpVars == <<refs, user>>

IBPInit ==
  /\ refs = References
  /\ user = [u \in Users |-> [pc |-> "idle", left |-> 0]]

\* Manage: the depot refuses what it does not hold with a negative code, and the client makes
\* nothing of a refusal, a timeout and a depot that is away alike.
Unanswered(a) == UNCHANGED refs

Probed(a) == refs[a] > 0 /\ UNCHANGED refs

Decremented(a) == refs[a] > 0 /\ refs' = [refs EXCEPT ![a] = @ - 1]

-----------------------------------------------------------------------------
(* Release: probe for the number of references, then take each of them     *)

Goto(u, pc) == user' = [user EXCEPT ![u].pc = pc]

ReleaseProbes(u) ==
  /\ user[u].pc = "idle" /\ Probed(Wanted)
  /\ user' = [user EXCEPT ![u] = [pc |-> "decrement", left |-> refs[Wanted]]]

ReleaseUnanswered(u) == user[u].pc = "idle" /\ Unanswered(Wanted) /\ Goto(u, "failed")

Takes(u) ==
  user' = [user EXCEPT ![u] = [pc |-> IF user[u].left = 1 THEN "released" ELSE "decrement",
                               left |-> user[u].left - 1]]

ReleaseDecrements(u) ==
  /\ user[u].pc = "decrement" /\ Decremented(Wanted)
  /\ Takes(u)

\* Mutant: a reference that could not be taken is skipped.
DecrementSkipped(u) ==
  /\ user[u].pc = "decrement"
  /\ \/ Unanswered(Wanted)
     \/ Decremented(Wanted)
  /\ Takes(u)

\* The first reference for which no answer comes ends the loop, taken or not.
DecrementUnanswered(u) ==
  /\ user[u].pc = "decrement"
  /\ \/ Unanswered(Wanted)
     \/ Decremented(Wanted)
  /\ Goto(u, "failed")

\* The lease of the allocation ends; for the others a depot that is away does the same.
Expire == refs[Wanted] > 0 /\ refs' = [refs EXCEPT ![Wanted] = 0] /\ UNCHANGED user

IBPNext == \/ \E u \in Users : \/ ReleaseProbes(u) \/ ReleaseUnanswered(u)
                               \/ ReleaseDecrements(u) \/ DecrementUnanswered(u)
           \/ Expire

-----------------------------------------------------------------------------

\* Of several clients that release one allocation at the same time at most one is told that it
\* has done so, and then the allocation is gone: each has counted references that others take.
ReleasedOnce ==
  LET released == {u \in Users : user[u].pc = "released"} IN
  released # {} => refs[Wanted] = 0 /\ Cardinality(released) = 1
=============================================================================

------------------------------ MODULE RegionPool ------------------------------
(***************************************************************************)
(* What the allocation of shared regions promises, with none of its        *)
(* tables: a region is free, owned by one tracer thread, or lost because   *)
(* its owner ended without closing it.  A thread owns at most one region.  *)
(***************************************************************************)
CONSTANTS Threads, Regions

VARIABLES free,    \* regions nobody owns
          owned,   \* what each thread owns
          lost     \* regions that nobody will own again

poolVars == <<free, owned, lost>>

Init == free = Regions /\ owned = [t \in Threads |-> {}] /\ lost = {}

Take(t, r) ==
    /\ r \in free
    /\ owned[t] = {}
    /\ free' = free \ {r}
    /\ owned' = [owned EXCEPT ![t] = {r}]
    /\ UNCHANGED lost

GiveBack(t, r) ==
    /\ owned[t] = {r}
    /\ owned' = [owned EXCEPT ![t] = {}]
    /\ free' = free \cup {r}
    /\ UNCHANGED lost

Lose(t, r) ==
    /\ owned[t] = {r}
    /\ owned' = [owned EXCEPT ![t] = {}]
    /\ lost' = lost \cup {r}
    /\ UNCHANGED free

Next == \E t \in Threads, r \in Regions : Take(t, r) \/ GiveBack(t, r) \/ Lose(t, r)

Spec == Init /\ [][Next]_poolVars
=============================================================================

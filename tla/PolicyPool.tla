----------------------------- MODULE PolicyPool -----------------------------
(***************************************************************************)
(* What the hmalloc pool promises.  Once the library is loaded its policy  *)
(* is fixed; a region enters the pool already under that policy, keeps it  *)
(* as long as it is in the pool, and leaves it as a whole.                 *)
(***************************************************************************)
CONSTANTS Region,   \* the regions of the address space
          Policy,   \* the memory policies
          None      \* no policy: the library is not loaded, or not in the pool

VARIABLES target,   \* the policy of the loaded library
          pool      \* the policy of each region of the pool

poolVars == <<target, pool>>

PoolTypeOK == /\ target \in Policy \cup {None}
              /\ pool \in [Region -> Policy \cup {None}]

PoolInit == /\ target = None
            /\ pool = [r \in Region |-> None]

Load(p) == /\ target = None
           /\ target' = p
           /\ UNCHANGED pool

Publish(r) == /\ target # None
              /\ pool[r] = None
              /\ pool' = [pool EXCEPT ![r] = target]
              /\ UNCHANGED target

Withdraw(r) == /\ pool[r] # None
               /\ pool' = [pool EXCEPT ![r] = None]
               /\ UNCHANGED target

PoolNext == \/ \E p \in Policy : Load(p)
            \/ \E r \in Region : Publish(r) \/ Withdraw(r)

PoolSpec == PoolInit /\ [][PoolNext]_poolVars
=============================================================================

---------------------------- MODULE MCObjectCache -----------------------------
(* Three keys and capacities from none to more than there are keys.        *)
EXTENDS ObjectCacheHistory

MCCapacities == {0, 1, 2, 4}
===============================================================================

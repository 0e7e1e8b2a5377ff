------------------------ MODULE PermutationEnumeration ------------------------
(***************************************************************************)
(* What a node's evaluation loop needs from its source of input tag        *)
(* permutations, whatever order they are produced in: a finite set of      *)
(* permutations is handed out one at a time, none twice, and the source    *)
(* is exhausted exactly when none is left.                                 *)
(***************************************************************************)
VARIABLES remaining,    \* the permutations not handed out yet
          exhausted     \* what the consumer's loop test sees

vars == <<remaining, exhausted>>

Init == remaining # {} /\ ~exhausted

Take == /\ ~exhausted
        /\ \E p \in remaining : remaining' = remaining \ {p}
        /\ exhausted' = (remaining' = {})

Spec == Init /\ [][Take]_vars /\ WF_vars(Take)
===============================================================================

--------------------------- MODULE MC_HotReload ---------------------------
(* The rules that sources list and callers register when TLC explores      *)
(* HotReload: a rule, the same with another body, with another name, in a  *)
(* group, and one the validator rejects.                                   *)
EXTENDS HotReload

CONSTANTS i1, i2, n1, n2, b1, b2, bad, g

In(n, b, group) == [name |-> n, body |-> b, group |-> group]

AllInputs ==
    {In(n1, b1, NoGroup), In(n1, b2, NoGroup), In(n2, b1, NoGroup), In(n1, b1, g),
     In(n2, bad, NoGroup)}
=============================================================================

------------------------------ MODULE Cascade -------------------------------
(***************************************************************************)
(* What trigger processing promises to whoever awaits engine.emit(),       *)
(* engine.setFact() or an emit_event action: the call returns only when    *)
(* everything the trigger gave rise to is over.  Triggers form a forest;   *)
(* each arises under an open one or at the root, and closes after all the  *)
(* triggers below it.                                                      *)
(***************************************************************************)
EXTENDS Naturals

CONSTANTS Nodes, Root

VARIABLES status, parent

Init ==
    /\ status = [n \in Nodes |-> "none"]
    /\ parent = [n \in Nodes |-> Root]

\* A trigger without work, or dropped at the limit, is over as it arises.
Arise(n, p, s) ==
    /\ status[n] = "none"
    /\ p # Root => status[p] = "open"
    /\ status' = [status EXCEPT ![n] = s]
    /\ parent' = [parent EXCEPT ![n] = p]

Close(n) ==
    /\ status[n] = "open"
    /\ \A m \in Nodes : parent[m] = n => status[m] # "open"
    /\ status' = [status EXCEPT ![n] = "over"]
    /\ UNCHANGED parent

Next ==
    \/ \E n \in Nodes, p \in Nodes \cup {Root}, s \in {"open", "over"} : Arise(n, p, s)
    \/ \E n \in Nodes : Close(n)

Spec == Init /\ [][Next]_<<status, parent>>
=============================================================================

------------------------ MODULE MCFailoverManager ------------------------
(* Instances of FailoverManager for TLC. *)
EXTENDS FailoverManager, TLC
CONSTANTS n1, n2, n3
Equal == [n \in Nodes |-> 0]
FirstPreferred == [n \in Nodes |-> IF n = n1 THEN 1 ELSE 0]
=============================================================================

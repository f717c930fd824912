------------------------------ MODULE MCHost ------------------------------
(* Instances of Host for TLC.                                              *)
EXTENDS Host

MCDeclares == [n \in Names |-> IF n = "a" THEN {Verbs} ELSE {{}, Verbs}]
\* Callers are threads beside the client loops, which are numbered from 1.
MCCallers == {-1}
=============================================================================

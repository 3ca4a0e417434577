------------------------- MODULE MCNativeTransaction -------------------------
(* Targets written by different steps; the roles are fixed here because a     *)
(* configuration file cannot write a function.                                *)
EXTENDS NativeTransaction

\* A payload, then activation references.
PayloadThenReference == [t \in Targets |-> IF t = 1 THEN 15 ELSE 17]

\* Identities of the files other programs make.
AlienNames == <<"alien1", "alien2", "alien3">>
=============================================================================

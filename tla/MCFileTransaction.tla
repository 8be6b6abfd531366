------------------------- MODULE MCFileTransaction -------------------------
(* A plan with the three shapes planners emit (rewrite a shared file, create *)
(* an owned one, create the manifest last) and its inverse (invertPlan).     *)
EXTENDS FileTransaction

CONSTANTS shared, owned, manifest, u, m

MCPath == {shared, owned, manifest}
MCContent == {u, m}

Chg(p, b, a) == [path |-> p, before |-> b, after |-> a]

Activation == <<Chg(shared, u, m), Chg(owned, Null, m), Chg(manifest, Null, m)>>
Deactivation == <<Chg(manifest, m, Null), Chg(owned, m, Null), Chg(shared, m, u)>>

MCPlans == {Activation, Deactivation}
=============================================================================

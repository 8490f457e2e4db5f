--------------------------- MODULE MCServerManager ---------------------------
(* ServerManager on small instances: which manager each trajectory runs in. *)
EXTENDS ServerManager, TLC

CONSTANTS m1, m2, r1, r2, r3, r4, r5

TwoAndThree == (r1 :> m1) @@ (r2 :> m1) @@ (r3 :> m2) @@ (r4 :> m2) @@ (r5 :> m2)

\* Servers differ by their rank only, and so do the trajectories of a manager.
Alike == Permutations(Servers) \union Permutations({r1, r2}) \union Permutations({r3, r4, r5})
=============================================================================

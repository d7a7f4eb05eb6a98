---------------------------- MODULE MCDeployment ----------------------------
(* Instances of Deployment for TLC. *)
EXTENDS Deployment, TLC

CONSTANTS v1, v2, v3

\* v2 needs no migration beyond v1's, v3 does.
Migrations == v1 :> 1 @@ v2 :> 1 @@ v3 :> 2

=============================================================================

---------------------------- MODULE MCDeployment ----------------------------
(* Small instances of module Deployment for TLC. *)
EXTENDS Deployment, TLC

OneFlaw == {{}} \cup {{f} : f \in Flaws}

=============================================================================

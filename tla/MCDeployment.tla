---------------------------- MODULE MCDeployment ----------------------------
(* Deployment for TLC: scripts and builds are model values of its cfg.      *)
EXTENDS Deployment
=============================================================================

---------------------------- MODULE MCDeployment ----------------------------
(***************************************************************************)
(* Three pipelines, one of which deploys a release that is never ready;    *)
(* each may be killed and started again once.                              *)
(***************************************************************************)
EXTENDS Deployment

CONSTANTS a, b, c
=============================================================================

----------------------- MODULE MCDeploymentTemplate -----------------------
(* Model-checking instance of DeploymentTemplate.                        *)
EXTENDS DeploymentTemplate
=============================================================================

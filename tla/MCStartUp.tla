------------------------------ MODULE MCStartUp ------------------------------
(* StartUp for TLC: two servers and a worker.  Sessions and audit are kept *)
(* alike: in the database where there is one and persistence is not off;   *)
(* PERSISTENT_STORAGE is unset or false.                                   *)
EXTENDS StartUp

AllConfigs ==
    { c \in DeploymentEnvironments :
        /\ c.sessions = c.audit /\ c.storage # "on"
        /\ c.sessions = "postgres" <=> c.postgres /\ c.storage # "off" }
=============================================================================

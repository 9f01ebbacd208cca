-------------------------- MODULE MCDisasterRecovery -------------------------
(* DisasterRecovery for TLC: one job over a few days.                      *)
EXTENDS DisasterRecovery

MCAuthorities == {<<"postgres", "postgres">>, <<"redis", "postgres">>}
=============================================================================

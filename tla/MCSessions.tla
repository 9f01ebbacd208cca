----------------------------- MODULE MCSessions -----------------------------
(* Two replicas, two sessions of one user whose role is changed or taken.  *)
EXTENDS Sessions

MCConfigs == [Ids -> Roles \cup {NoRole}]
=============================================================================

-------------------------- MODULE MCHomeLifecycle ---------------------------
(* A home with its configuration and one database.                          *)
EXTENDS HomeLifecycle

CONSTANTS v1, v2

MCDataFiles == <<"evidence.db">>
=============================================================================

---------------------------- MODULE MCHousekeeping ----------------------------
(* A small instance of Housekeeping for TLC: two of the three token tables,   *)
(* and one of the four tables swept after them.                               *)
EXTENDS Housekeeping

MCSweepOrder == <<"oidc_auth_codes", "oidc_refresh_tokens", "sessions">>
MCTokenTables == {"oidc_auth_codes", "oidc_refresh_tokens"}
=============================================================================

---------------------------- MODULE MCPublicChat ----------------------------
(* One worker, one session id and two waiting handlers; small limits.      *)
EXTENDS PublicChat, TLC
=============================================================================

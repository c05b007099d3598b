---------------------------- MODULE MCScimRequest ----------------------------
(* The retry loop with the limits of internal/scim/client.go, for TLC. *)
EXTENDS ScimRequest
=============================================================================

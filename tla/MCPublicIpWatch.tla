-------------------------- MODULE MCPublicIpWatch --------------------------
(* Small instances of the watcher for TLC. *)
EXTENDS PublicIpWatch

CONSTANTS a, b
\* The address changes and comes back.
Returning == <<a, b, a>>
============================================================================

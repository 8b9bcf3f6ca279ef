---------------------------- MODULE MCLifecycle ----------------------------
(* The service processes the lifecycle runs look at. *)
EXTENDS Lifecycle

AllServices == {"order", "inventory", "catalogWrite", "catalogRead"}
=============================================================================

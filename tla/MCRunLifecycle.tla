--------------------------- MODULE MCRunLifecycle ---------------------------
(* A run with a launcher and processes that resume or retry it.            *)
EXTENDS RunLifecycle
=============================================================================

---------------------------- MODULE MCFrontend ----------------------------
(* One application with one possible override, three values of the settings.               *)
EXTENDS Frontend
=============================================================================

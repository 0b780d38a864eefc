----------------------------- MODULE MCAppHost -----------------------------
(* Model-checking instance of AppHost; the cfg chooses its bounds.         *)
EXTENDS AppHost
=============================================================================

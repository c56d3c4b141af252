------------------------------- MODULE MCAppMail -------------------------------
(* A small instance of AppMail on its own for TLC.                         *)
EXTENDS AppMail
=============================================================================

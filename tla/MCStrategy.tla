----------------------------- MODULE MCStrategy -----------------------------
(* Instances of Strategy for TLC.                                          *)
EXTENDS Strategy

\* Less than what is lost with two bought at 32 and valued at 24.
MCMaxLoss == -20
=============================================================================

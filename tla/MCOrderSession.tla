--------------------------- MODULE MCOrderSession ---------------------------
(* Instances of OrderSession for TLC.                                      *)
EXTENDS OrderSession, TLC

CONSTANTS g1, g2, g3, c1, c2

\* The first client has two gateways: it is restarted, or runs twice.
MCClientOf == (g1 :> c1) @@ (g2 :> c1) @@ (g3 :> c2)

\* It is restarted, or there are two clients.
MCLaunches == {{g1, g2}, {g1, g3}}
=============================================================================

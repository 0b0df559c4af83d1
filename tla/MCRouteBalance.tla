---------------------------- MODULE MCRouteBalance ----------------------------
(***************************************************************************)
(* Three requests, one of which may lose its client, through two applied    *)
(* configurations.                                                          *)
(***************************************************************************)
EXTENDS RouteBalance

CONSTANTS r1, r2, r3

MCRequests == {r1, r2, r3}
MCMayGo == {r1}
=============================================================================

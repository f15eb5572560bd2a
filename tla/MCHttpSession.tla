---------------------------- MODULE MCHttpSession ----------------------------
(* Instances of HttpSession for TLC: every kind of route.                  *)
EXTENDS HttpSession

AllRoutes == RouteKinds
==============================================================================

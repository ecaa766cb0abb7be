---------------------------- MODULE MCCachedAuth ----------------------------
(* Small instances of CachedAuth for TLC. *)
EXTENDS CachedAuth, TLC

CONSTANTS p1, p2, certA, cuitA, wsfe, padron

Request(c, u, s, prod) == [cert |-> c, cuit |-> u, service |-> s, production |-> prod]

\* One taxpayer, two services: two keys.
TwoServices == {Request(certA, cuitA, wsfe, FALSE), Request(certA, cuitA, padron, FALSE)}

\* One taxpayer, one service.
OneKey == {Request(certA, cuitA, wsfe, FALSE)}

\* One taxpayer that uses the sandbox and the live endpoint.
BothEnvironments ==
  {Request(certA, cuitA, wsfe, FALSE), Request(certA, cuitA, wsfe, TRUE)}
=============================================================================

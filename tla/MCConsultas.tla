----------------------------- MODULE MCConsultas -----------------------------
(* Small instances of Consultas for TLC. *)
EXTENDS Consultas

\* No option, each option alone, and both orders of the two.
Options ==
  {<<>>, <<WithTimeout(5)>>, <<WithHTTPClient(0)>>,
   <<WithTimeout(5), WithHTTPClient(0)>>, <<WithHTTPClient(0), WithTimeout(5)>>}
=============================================================================

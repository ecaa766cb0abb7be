---------------------------- MODULE MCComprobante ----------------------------
(* Small instances of Comprobante for TLC. *)
EXTENDS Comprobante

\* One date at a time is anything from the zeroth day to the 32nd, of the zeroth
\* month to the 13th, of a leap year or not; or it is no date at all.
Anyday == {Fecha(y, m, d) : y \in {1900, 2000, 2023, 2024}, m \in 0..13, d \in 0..32}
MCPeriodos ==
  LET ok == Fecha(2024, 2, 29)
      odd == Anyday \cup {Texto("vacia"), Texto("otra")}
      P(c, d, h, v) == [concepto |-> c, desde |-> d, hasta |-> h, vtoPago |-> v]
  IN  {P(ConceptoProductos, Texto("vacia"), Texto("vacia"), Texto("vacia"))}
        \cup {P(ConceptoServicios, f, ok, ok) : f \in odd}
        \cup {P(ConceptoServicios, ok, f, ok) : f \in odd}
        \cup {P(ConceptoProductosYServicios, ok, ok, f) : f \in odd}

Everywhere(x) == [f \in Amounts |-> x]
On(S, x) == [f \in Amounts |-> IF f \in S THEN x ELSE 0]

\* As much noise as a centavo can hide: all one way, in the total only, and one
\* way in the lines and the other in what they add up to.
MCNoises ==
  {Everywhere(4), Everywhere(-4), On({"ImpTotal"}, -4),
   [f \in Amounts |-> IF f \in LineFields THEN 4 ELSE -4]}

\* One centavo too much or too little in one amount, of a line or of the
\* comprobante; one centavo too much in two amounts that make up for each other
\* in the total; one centavo moved.
Moved(from, to) == [On({to}, 10) EXCEPT ![from] = -10]
MCMistakes ==
  {On({f}, x) : f \in {"ImpNeto", "ImpIVA", "ImpExento", "ImpTotal"} \cup LineFields, x \in {-10, 10}}
    \cup {On({f, "ImpTotal"}, 10) : f \in {"ImpNeto", "ImpIVA"}}
    \cup {Moved("ImpIVA", "ImpNeto"), Moved("ImpNeto", "ImpExento"),
           Moved("BaseImp", "Importe")}
=============================================================================

--------------------------- MODULE MCCaeEmission ---------------------------
(* Small instances of CaeEmission for TLC. *)
EXTENDS CaeEmission, TLC

CONSTANTS e1, e2, s1, s2, i1, i2, i3, i4

\* One invoice per request.
Singles == {<<i>> : i \in Invoices}

\* The emitter of i1 and i2 may also put both in one request.
SinglesAndPair == Singles \cup {<<i1, i2>>}

\* e1 emits i1 and i2, e2 emits i3.
TwoEmitters(i) == IF i = i3 THEN e2 ELSE e1

\* e1 emits everything.
Alone(i) == e1

\* Two series; only i4 is in the second.
TwoSeries(i) == IF i = i4 THEN s2 ELSE s1

\* All the invoices in one series.
SharedSeries(i) == s1

\* 10016 alone, and after a code that IsRetryable calls permanent.
MCRegisteredCodes ==
  {<<ErrCodeAlreadyRegistered>>, <<ErrCodeInvalidPtoVta, ErrCodeAlreadyRegistered>>}

\* A permanent code after one that is not.
MCRejectedCodes == {<<ErrCodeInvalidNumber, ErrCodeAmountMismatch>>}

\* An internal error of AFIP's, a code the library does not name.
MCGlitchCodes == {<<500>>}

\* FECompConsultar fails likewise, or because the CUIT is not authorized.
MCConsultaCodes == MCGlitchCodes \cup {<<ErrCodeUnauthorized>>}
=============================================================================

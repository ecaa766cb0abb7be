------------------------------ MODULE AfipErrors ------------------------------
(***************************************************************************)
(* The shared error values of package afipkit (errors.go).  An AFIPError   *)
(* is the sequence of codes AFIP answered, in AFIP's order; the messages   *)
(* are left out.  An error is a record: kind "afip" carries such a         *)
(* sequence, the other kinds carry none.  Wrapping with %w keeps the kind: *)
(* errors.As looks through it.                                             *)
(***************************************************************************)
EXTENDS Naturals, Sequences, Functions

ErrCodeAlreadyRegistered == 10016
ErrCodeInvalidPtoVta     == 10005
ErrCodeUnauthorized      == 10000
ErrCodeInvalidNumber     == 10013
ErrCodeAmountMismatch    == 10048
ErrCodeReceiverNotID     == 10015

permanentErrors ==
  {ErrCodeInvalidPtoVta, ErrCodeUnauthorized, ErrCodeAmountMismatch, ErrCodeReceiverNotID}

FirstCode(codes) == IF codes = <<>> THEN 0 ELSE codes[1]

MutFirstCodeOnly(codes, code) == FirstCode(codes) = code
HasCode(codes, code) == \E i \in DOMAIN codes : codes[i] = code

IsAlreadyRegistered(codes) == HasCode(codes, ErrCodeAlreadyRegistered)

MutIsRetryable(codes) == Range(codes) = {ErrCodeInvalidNumber}
\* No code of the list is permanent; an unknown code counts as retryable.
IsRetryable(codes) == \A i \in DOMAIN codes : codes[i] \notin permanentErrors

\* The error values a caller can tell apart.
AFIPError(codes) == [kind |-> "afip", codes |-> codes]
ErrSOAP          == [kind |-> "soap", codes |-> <<>>]
PlainError       == [kind |-> "plain", codes |-> <<>>]
IsAFIPError(err) == err.kind = "afip"
=============================================================================

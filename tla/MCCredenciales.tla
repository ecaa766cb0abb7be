--------------------------- MODULE MCCredenciales ---------------------------
(* Small instances of Credenciales for TLC. *)
EXTENDS Credenciales

\* Two real CUITs.
CuitA == <<2, 0, 1, 2, 3, 4, 5, 6, 7, 8, 6>>
CuitB == <<3, 0, 7, 0, 0, 0, 0, 0, 0, 1, 6>>

Written(c) == SubSeq(c, 1, 2) \o <<Hyphen>> \o SubSeq(c, 3, 10) \o <<Hyphen>> \o SubSeq(c, 11, 11)

\* Slips of one digit: wrong at each place, swapped with the next, missing, one
\* too many at either end.  A wrong digit is off by 1 or by 6: the first digit
\* off by 1 leaves remainder 0, the third off by 6 remainder 1.
Slips(c) ==
  {[c EXCEPT ![1] = 1]}
    \cup {[c EXCEPT ![i] = (c[i] + 6) % 10] : i \in DOMAIN c}
    \cup {[c EXCEPT ![i] = c[i + 1], ![i + 1] = c[i]] : i \in 1..10}
    \cup {SubSeq(c, 1, i - 1) \o SubSeq(c, i + 1, 11) : i \in DOMAIN c}
    \cup {c \o <<0>>, <<0>> \o c, <<1>> \o c}

Cert(c, first, last, pub) ==
  [serial |-> <<CUITWord, Space>> \o Written(c), notBefore |-> first, notAfter |-> last, public |-> pub]
Key(f, pub) == [form |-> f, public |-> pub]
Form(typed, cert, key) == [real |-> CuitA, typed |-> typed, cert |-> cert, key |-> key]

certA == Cert(CuitA, 0, 0, "a")
renewed == Cert(CuitA, 1, 1, "b")
keyA == Key("PKCS#1", "a")
keyB == Key("PKCS#8", "b")

\* What may be typed for CuitA with the right files; a text without a CUIT or
\* without all of it, the CUIT, and a 0 in front of it, with the certificate of
\* another taxpayer and with one that names none.
TypedForms ==
  LET odd == {<<>>, <<Letter>>, Tail(CuitA), <<0>> \o CuitA, Written(CuitA)}
      others == {Cert(CuitB, 0, 0, "a"), [certA EXCEPT !.serial = <<Letter, 2, 0>>]} IN
    {Form(t, certA, keyA) : t \in Slips(CuitA) \cup odd}
    \cup {Form(t, cert, keyA) : t \in odd, cert \in others}

\* The renewed pair, and every other kind of file.
FileForms ==
  {Form(CuitA, renewed, keyB), Form(CuitA, Nil, keyA)}
  \cup {Form(CuitA, certA, key) : key \in {Key("EC", "a"), keyB, Key("garbage", "a")}}

MCForms == TypedForms \cup FileForms
=============================================================================

---------------------------- MODULE Credenciales ----------------------------
(***************************************************************************)
(* A taxpayer's certificate and private key (package cert), from the form  *)
(* they are submitted with to the moment they are ready to sign a login:   *)
(* ValidarCUIT and Validate accept them, the vault encrypts the key for    *)
(* the database, and after a restart DecryptFromBase64, ParseCertAndKey    *)
(* and ValidateCertOnly bring them back.                                   *)
(*                                                                         *)
(* The program, the database, the clock, AES-GCM and the encodings are not *)
(* part of the package.  A text is the sequence of its characters as       *)
(* numbers: the digits, and one number for each other thing that           *)
(* extractCUIT tells apart.                                                *)
(***************************************************************************)
EXTENDS Integers, Sequences, FiniteSets

CONSTANTS
  Forms,      \* what may be submitted: [real, typed, cert, key]
  Masters,    \* the master keys the program may be started with
  MaxTime,    \* bound on the clock
  MaxSaves,   \* bound on the rows that differ among those saved
  Nil         \* nothing there

VARIABLES
  now,      \* the clock, in days
  form,     \* what was submitted last
  verdict,  \* what ValidarCUIT and Validate said of it
  row,      \* the database row of the taxpayer
  saved,    \* every row as it was saved: what backups and other rows hold
  vault,    \* the KeyVault of the running program
  loaded,   \* the certificate and key it has loaded
  ready     \* whether ValidateCertOnly has accepted the certificate loaded

vars == <<now, form, verdict, row, saved, vault, loaded, ready>>

-----------------------------------------------------------------------------
(* Texts and CUITs *)

Digit == 0..9
Hyphen == 10
Space == 11
CUITWord == 12  \* "CUIT", in upper or lower case
Letter == 13

\* ValidarCUIT: 11 digits, the last one a check digit modulo 11.
Sum(d) == 5*d[1] + 4*d[2] + 3*d[3] + 2*d[4] + 7*d[5] + 6*d[6] + 5*d[7] + 4*d[8] + 3*d[9] + 2*d[10]

Remainder(d) == Sum(d) % 11

MutCheckDigit(d) == IF Remainder(d) <= 1 THEN d[11] ELSE 11 - Remainder(d)
\* With remainder 1 every check digit is accepted.
CheckDigit(d) ==
  IF Remainder(d) = 0 THEN 0
  ELSE IF Remainder(d) = 1 THEN d[11]
  ELSE 11 - Remainder(d)

\* The argument is an int64.  Here it is the digits it is read from: zeros in
\* front do not count.  In range: 10000000000 <= cuit <= 99999999999.
ElevenDigits(s) ==
  Len(s) >= 11 /\ s[Len(s) - 10] # 0 /\ \A i \in 1..(Len(s) - 11) : s[i] = 0
digits(s) == SubSeq(s, Len(s) - 10, Len(s))

ValidarCUIT(s) == ElevenDigits(s) /\ digits(s)[11] = CheckDigit(digits(s))

Strip(text) == SelectSeq(text, LAMBDA c : c \notin {Hyphen, Space})
AllDigits(s) == \A i \in DOMAIN s : s[i] \in Digit
DigitsOf(text) == SelectSeq(text, LAMBDA c : c \in Digit)

\* External: the program reads a number from the typed text without hyphens
\* and spaces, if only digits are left.
IsNumber(text) == text # <<>> /\ AllDigits(Strip(text))
\* The digits of the number, when it is in range.
Number(text) == digits(Strip(text))

TrimPrefix(s) == IF s # <<>> /\ s[1] = CUITWord THEN Tail(s) ELSE s

\* The first 11 consecutive digits, even when more follow; <<>> if there are none.
extractCUIT(text) ==
  LET s == TrimPrefix(Strip(text))
      runs == {i \in 1..(Len(s) - 10) : AllDigits(SubSeq(s, i, i + 10))} IN
    IF runs = {} THEN <<>>
    ELSE LET i == CHOOSE i \in runs : \A j \in runs : i <= j IN SubSeq(s, i, i + 10)

\* The taxpayer's real CUIT is one AFIP issues: "AFIP doesn't issue CUITs with
\* this remainder" (afip.go:202).  Stripping a text leaves a text.
ASSUME FormsAssumption ==
  \A f \in Forms :
    /\ f.real \in [1..11 -> Digit] /\ ValidarCUIT(f.real) /\ Remainder(f.real) # 1
    /\ Strip(f.typed) \in Seq(0..13)

\* Hypothesis on AFIP: the serial number of a certificate it issues has no
\* other digits than those of a CUIT, and a CUIT does not begin with 0.  A
\* certificate of someone else may have anything in which no CUIT is found.
AfipSerials ==
  \A f \in Forms : f.cert # Nil =>
    LET c == extractCUIT(f.cert.serial) IN
      c = <<>> \/ (c[1] # 0 /\ DigitsOf(f.cert.serial) = c)

-----------------------------------------------------------------------------
(* cert.Validate and its checks *)

checkValidity(cert) == cert.notBefore <= now /\ now <= cert.notAfter

\* An expected text without a CUIT in it matches every certificate.
MutMatchCUIT(cert, expected) ==
  <<>> \in {extractCUIT(expected), extractCUIT(cert.serial)} \/ extractCUIT(cert.serial) = extractCUIT(expected)
matchCUIT(cert, expected) ==
  extractCUIT(expected) = <<>> \/ extractCUIT(cert.serial) = extractCUIT(expected)

\* ParseCertificatePEM, validity, CUIT; Nil is a file without a certificate.
ValidateCertOnly(cert, expected) ==
  /\ cert # Nil
  /\ checkValidity(cert)
  /\ expected # <<>> => matchCUIT(cert, expected)

\* External, tls.X509KeyPair: any kind of key, as long as it is the certificate's.
X509KeyPair(cert, key) == key.form # "garbage" /\ key.public = cert.public

MutValidateNoKey(cert, key, expected) == ValidateCertOnly(cert, expected)
Validate(cert, key, expected) == ValidateCertOnly(cert, expected) /\ X509KeyPair(cert, key)

\* RSA only, in a PKCS#1 or a PKCS#8 block.
ParsePrivateKeyPEM(key) == key.form \in {"PKCS#1", "PKCS#8"}
ParseCertAndKey(cert, key) == cert # Nil /\ ParsePrivateKeyPEM(key)

-----------------------------------------------------------------------------
(* cert.KeyVault *)

\* 64 hexadecimal digits, or no vault.
MutNewKeyVault(master) == master
NewKeyVault(master) == IF master = "not a key" THEN Nil ELSE master

\* A sealed text: the key of the vault that made it, what its bytes would
\* decipher to under that key, and what became of them.
EncryptToBase64(key) == [master |-> vault, plaintext |-> key, state |-> "intact"]

\* External: what may become of the text in the database.
Damages == {"truncated", "altered", "not base64"}

\* base64, the length of the nonce, and GCM's tag are checked in this order;
\* the tag covers every byte, under the key of this vault.  Nothing in it names
\* the row (no associated data): the text of another row opens too.
MutOpens(sealed) == sealed.state \in {"intact", "altered"} /\ sealed.master = vault
Opens(sealed) == sealed.state = "intact" /\ sealed.master = vault

-----------------------------------------------------------------------------
PrivateKeys == {f.key : f \in Forms}

NoForm == [real |-> <<>>, typed |-> <<>>, cert |-> Nil, key |-> Nil]
NoVerdict == [cuit |-> FALSE, pair |-> FALSE]
NoRow == [cuit |-> <<>>, cert |-> Nil, sealed |-> Nil, own |-> FALSE]

Init ==
  /\ now = 0
  /\ form = NoForm
  /\ verdict = NoVerdict
  /\ row = NoRow
  /\ saved = {}
  /\ vault \in {NewKeyVault(m) : m \in Masters}
  /\ loaded = Nil
  /\ ready = FALSE

\* ValidarCUIT of the number typed, and Validate with the text typed.
Submit(f) ==
  /\ form = NoForm
  /\ form' = f
  /\ verdict' = [cuit |-> IsNumber(f.typed) /\ ValidarCUIT(Strip(f.typed)),
                 pair |-> Validate(f.cert, f.key, f.typed)]
  /\ UNCHANGED <<now, row, saved, vault, loaded, ready>>

\* External: the program drops what was submitted, and may be given it again.
Discard ==
  /\ form' = NoForm
  /\ verdict' = NoVerdict
  /\ UNCHANGED <<now, row, saved, vault, loaded, ready>>

\* External: a program that asks for both checks saves what passed them.
\* The row is written whole; EncryptToBase64 may fail, and nothing is written.
\* "own" remembers that the text is the one saved with the certificate beside
\* it: no code sees it.
Save ==
  /\ verdict.cuit /\ verdict.pair
  /\ vault # Nil
  /\ row' = [cuit |-> form.typed, cert |-> form.cert, sealed |-> EncryptToBase64(form.key), own |-> TRUE]
  /\ saved' = saved \cup {row'}
  /\ Cardinality(saved') <= MaxSaves
  /\ form' = NoForm
  /\ verdict' = NoVerdict
  /\ UNCHANGED <<now, vault, loaded, ready>>

\* External: the text of the key is damaged in the database.  By its bytes
\* alone an altered text may decipher to any key.
Damage(state, key) ==
  /\ row.sealed # Nil
  /\ row' = [row EXCEPT !.sealed = [@ EXCEPT !.state = state, !.plaintext = key]]
  /\ UNCHANGED <<now, form, verdict, saved, vault, loaded, ready>>

\* External: a text saved with another row takes the place of this one's.
MixUp(other) ==
  /\ row.sealed # Nil
  /\ row' = [row EXCEPT !.sealed = other.sealed, !.own = FALSE]
  /\ UNCHANGED <<now, form, verdict, saved, vault, loaded, ready>>

\* The program stops and starts, with the master key of its environment.
Restart(m) ==
  /\ vault' = NewKeyVault(m)
  /\ form' = NoForm
  /\ verdict' = NoVerdict
  /\ loaded' = Nil
  /\ ready' = FALSE
  /\ UNCHANGED <<now, row, saved>>

\* DecryptFromBase64 and ParseCertAndKey, which does not pair what it parses.
Load ==
  /\ vault # Nil /\ row.sealed # Nil
  /\ loaded' = IF Opens(row.sealed) /\ ParseCertAndKey(row.cert, row.sealed.plaintext)
               THEN [cuit |-> row.cuit, cert |-> row.cert, key |-> row.sealed.plaintext, own |-> row.own]
               ELSE Nil
  /\ ready' = FALSE
  /\ UNCHANGED <<now, form, verdict, row, saved, vault>>

\* ValidateCertOnly before the credentials are used.
Recheck ==
  /\ loaded # Nil
  /\ ready' = ValidateCertOnly(loaded.cert, loaded.cuit)
  /\ UNCHANGED <<now, form, verdict, row, saved, vault, loaded>>

Tick ==
  /\ now < MaxTime
  /\ now' = now + 1
  /\ UNCHANGED <<form, verdict, row, saved, vault, loaded, ready>>

Next ==
  \/ \E f \in Forms : Submit(f)
  \/ Discard
  \/ Save
  \/ \E state \in Damages, key \in PrivateKeys : Damage(state, key)
  \/ \E other \in saved : MixUp(other)
  \/ \E m \in Masters : Restart(m)
  \/ Load
  \/ Recheck
  \/ Tick

Spec == Init /\ [][Next]_vars

-----------------------------------------------------------------------------
(* Properties *)

Texts == {<<>>} \cup {f.typed : f \in Forms}
Certs == {Nil} \cup {f.cert : f \in Forms}
Sealed(s) ==
  s.plaintext \in PrivateKeys /\ s.master \in Masters \ {"not a key"} /\ s.state \in Damages \cup {"intact"}

TypeOK ==
  /\ now \in Nat
  /\ form \in Forms \cup {NoForm}
  /\ verdict \in [cuit : BOOLEAN, pair : BOOLEAN]
  /\ row = NoRow \/ (row.cuit \in Texts /\ row.cert \in Certs /\ Sealed(row.sealed) /\ row.own \in BOOLEAN)
  /\ \A r \in saved : r.cuit \in Texts /\ r.cert \in Certs /\ Sealed(r.sealed)
  /\ vault \in (Masters \ {"not a key"}) \cup {Nil}
  /\ loaded = Nil \/
       (loaded.cuit \in Texts /\ loaded.cert \in Certs /\ loaded.key \in PrivateKeys)
  /\ ready \in BOOLEAN

\* A certificate accepted together with a CUIT that ValidarCUIT accepts is that
\* taxpayer's: the digits of its serial number, all of them, are the number.
\* The two checks close each other's gaps: the text without a CUIT, which Validate
\* alone accepts with any certificate in spite of its "exact match after
\* normalization" (validator.go:39), the digits after the eleventh, and the 0 in
\* front that a number does not have.
AcceptedIsTheTaxpayers ==
  verdict.cuit /\ verdict.pair => DigitsOf(form.cert.serial) = Number(form.typed)

\* The slips in typing a CUIT: one wrong digit, two neighbours swapped, a digit
\* missing, one too many.
Wrong(c, d) == {i \in DOMAIN c : c[i] # d[i]}
OneWrongDigit(c, d) == Len(d) = Len(c) /\ \E i \in DOMAIN c : Wrong(c, d) = {i}
Swapped(c, d) ==
  Len(d) = Len(c) /\ \E i \in 1..(Len(c) - 1) :
    Wrong(c, d) = {i, i + 1} /\ d[i] = c[i + 1] /\ d[i + 1] = c[i]
OneMore(c, d) ==
  Len(d) = Len(c) + 1 /\ \E i \in DOMAIN d :
    \A j \in DOMAIN c : c[j] = IF j < i THEN d[j] ELSE d[j + 1]
Slip(c, d) == OneWrongDigit(c, d) \/ Swapped(c, d) \/ OneMore(c, d) \/ OneMore(d, c)

\* A slip does not pass ValidarCUIT, except where the remainder of what was
\* typed is 1, and except a 0 in front, which leaves the real number.
TypoCaught ==
  verdict.cuit /\ Slip(form.real, Strip(form.typed)) =>
    Number(form.typed) = form.real \/ Remainder(Number(form.typed)) = 1

\* What is ready to sign, whatever happened to the row and to the master key:
\* the key is one that was accepted and that this master key sealed, never what
\* else a damaged text deciphers to; the certificate is the taxpayer's; and
\* unless another row's text took the place of this one's, they are a pair.
\* Nothing checks the pair again after Validate.
ReadySigns ==
  ready =>
    /\ \E r \in saved : r.sealed.plaintext = loaded.key /\ r.sealed.master = vault
    /\ DigitsOf(loaded.cert.serial) = Number(loaded.cuit)
    /\ loaded.own => loaded.key.public = loaded.cert.public
=============================================================================

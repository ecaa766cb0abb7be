------------------------- MODULE CredencialesProofs -------------------------
(***************************************************************************)
(* Proofs about Credenciales: its types, what the check digit of a CUIT    *)
(* detects, whose the accepted certificate is, and where the key comes     *)
(* from that is ready to sign.                                             *)
(***************************************************************************)
EXTENDS Credenciales, SequenceTheorems, TLAPS

CUITs == [1..11 -> Digit]

-----------------------------------------------------------------------------
(* The check digit *)

\* The digits by name: the prover reasons about integers, not about entries.
LEMMA Digits ==
  ASSUME NEW d \in CUITs
  PROVE  \E d1, d2, d3, d4, d5, d6, d7, d8, d9, d10, d11 \in 0..9 :
           /\ d[1] = d1 /\ d[2] = d2 /\ d[3] = d3 /\ d[4] = d4
           /\ d[5] = d5 /\ d[6] = d6 /\ d[7] = d7 /\ d[8] = d8
           /\ d[9] = d9 /\ d[10] = d10 /\ d[11] = d11
  <1> \A j \in 1..11 : d[j] \in 0..9
    BY DEF CUITs, Digit
  <1> WITNESS d[1] \in 0..9, d[2] \in 0..9, d[3] \in 0..9, d[4] \in 0..9,
              d[5] \in 0..9, d[6] \in 0..9, d[7] \in 0..9, d[8] \in 0..9,
              d[9] \in 0..9, d[10] \in 0..9, d[11] \in 0..9
  <1> QED OBVIOUS

\* The number with these digits and nothing in front has these digits.
LEMMA OwnDigits ==
  ASSUME NEW d \in CUITs
  PROVE  Len(d) = 11 /\ digits(d) = d
  <1>1. d \in Seq(Digit) /\ Len(d) = 11
    <2>1. d \in Seq(Digit)
      BY SeqDef DEF CUITs
    <2>2. DOMAIN d = 1..Len(d) /\ Len(d) \in Nat
      BY <2>1, LenProperties
    <2>3. 1..Len(d) = 1..11
      BY <2>2 DEF CUITs
    <2>4. \A m \in Nat : 1..m = 1..11 => m = 11
      <3> SUFFICES ASSUME NEW m \in Nat, 1..m = 1..11 PROVE m = 11
        OBVIOUS
      <3>1. 11 \in 1..m /\ (m \in 1..m => m \in 1..11)
        OBVIOUS
      <3> QED BY <3>1
    <2> QED BY <2>1, <2>2, <2>3, <2>4, Zenon
  <1>2. SubSeq(d, 1, 11) = d
    BY <1>1
  <1> QED BY <1>1, <1>2 DEF digits

\* The weighted sum with its check digit.
Total(d) == Sum(d) + d[11]

\* Away from remainder 1, the total of a valid CUIT is a multiple of 11.
LEMMA ValidTotal ==
  ASSUME NEW d \in CUITs, ValidarCUIT(d), Remainder(d) # 1
  PROVE  Total(d) \in Int /\ Total(d) % 11 = 0
  <1>1. PICK d1, d2, d3, d4, d5, d6, d7, d8, d9, d10, d11 \in 0..9 :
           /\ d[1] = d1 /\ d[2] = d2 /\ d[3] = d3 /\ d[4] = d4
           /\ d[5] = d5 /\ d[6] = d6 /\ d[7] = d7 /\ d[8] = d8
           /\ d[9] = d9 /\ d[10] = d10 /\ d[11] = d11
    BY Digits
  <1> DEFINE s == 5*d1 + 4*d2 + 3*d3 + 2*d4 + 7*d5 + 6*d6 + 5*d7 + 4*d8 + 3*d9 + 2*d10
  <1>2. Sum(d) = s
    BY <1>1 DEF Sum
  <1>3. s \in Int
    OBVIOUS
  <1>4. d11 = IF s % 11 = 0 THEN 0 ELSE 11 - (s % 11)
    BY <1>1, <1>2, OwnDigits DEF ValidarCUIT, CheckDigit, Remainder
  <1> HIDE DEF s
  <1>5. (s + d11) % 11 = 0 /\ s + d11 \in Int
    BY <1>3, <1>4
  <1> QED BY <1>1, <1>2, <1>5 DEF Total

\* A multiple of 11 that changes by a weight times a difference of two digits
\* is one no longer.
LEMMA ChangeSeen ==
  ASSUME NEW s \in Int, s % 11 = 0, NEW w \in 1..7, NEW x \in -9..9, x # 0
  PROVE  (s + w * x) % 11 # 0
  <1>1. CASE w = 1 BY <1>1
  <1>2. CASE w = 2 BY <1>2
  <1>3. CASE w = 3 BY <1>3
  <1>4. CASE w = 4 BY <1>4
  <1>5. CASE w = 5 BY <1>5
  <1>6. CASE w = 6 BY <1>6
  <1>7. CASE w = 7 BY <1>7
  <1> QED BY <1>1, <1>2, <1>3, <1>4, <1>5, <1>6, <1>7

\* One wrong digit moves the total by a weight times the difference.
LEMMA OneDigitMoves ==
  ASSUME NEW c \in CUITs, NEW d \in CUITs, NEW i \in 1..11, Wrong(c, d) = {i}
  PROVE  \E w \in 1..7 : Total(d) = Total(c) + w * (d[i] - c[i])
  <1>1. PICK c1, c2, c3, c4, c5, c6, c7, c8, c9, c10, c11 \in 0..9 :
           /\ c[1] = c1 /\ c[2] = c2 /\ c[3] = c3 /\ c[4] = c4
           /\ c[5] = c5 /\ c[6] = c6 /\ c[7] = c7 /\ c[8] = c8
           /\ c[9] = c9 /\ c[10] = c10 /\ c[11] = c11
    BY Digits
  <1>2. PICK d1, d2, d3, d4, d5, d6, d7, d8, d9, d10, d11 \in 0..9 :
           /\ d[1] = d1 /\ d[2] = d2 /\ d[3] = d3 /\ d[4] = d4
           /\ d[5] = d5 /\ d[6] = d6 /\ d[7] = d7 /\ d[8] = d8
           /\ d[9] = d9 /\ d[10] = d10 /\ d[11] = d11
    BY Digits
  <1>3. Total(c) = 5*c1 + 4*c2 + 3*c3 + 2*c4 + 7*c5 + 6*c6 + 5*c7 + 4*c8 + 3*c9 + 2*c10 + c11
    BY <1>1 DEF Total, Sum
  <1>4. Total(d) = 5*d1 + 4*d2 + 3*d3 + 2*d4 + 7*d5 + 6*d6 + 5*d7 + 4*d8 + 3*d9 + 2*d10 + d11
    BY <1>2 DEF Total, Sum
  <1>5. \A j \in 1..11 : j # i => d[j] = c[j]
    BY DEF Wrong, CUITs
  <1>c1. CASE i = 1
    <2>1. /\ d2 = c2 /\ d3 = c3 /\ d4 = c4 /\ d5 = c5
          /\ d6 = c6 /\ d7 = c7 /\ d8 = c8 /\ d9 = c9
          /\ d10 = c10 /\ d11 = c11
      BY <1>1, <1>2, <1>5, <1>c1
    <2>2. Total(d) = Total(c) + 5 * (d1 - c1)
      BY <1>3, <1>4, <2>1
    <2> QED BY <1>1, <1>2, <2>2, <1>c1
  <1>c2. CASE i = 2
    <2>1. /\ d1 = c1 /\ d3 = c3 /\ d4 = c4 /\ d5 = c5
          /\ d6 = c6 /\ d7 = c7 /\ d8 = c8 /\ d9 = c9
          /\ d10 = c10 /\ d11 = c11
      BY <1>1, <1>2, <1>5, <1>c2
    <2>2. Total(d) = Total(c) + 4 * (d2 - c2)
      BY <1>3, <1>4, <2>1
    <2> QED BY <1>1, <1>2, <2>2, <1>c2
  <1>c3. CASE i = 3
    <2>1. /\ d1 = c1 /\ d2 = c2 /\ d4 = c4 /\ d5 = c5
          /\ d6 = c6 /\ d7 = c7 /\ d8 = c8 /\ d9 = c9
          /\ d10 = c10 /\ d11 = c11
      BY <1>1, <1>2, <1>5, <1>c3
    <2>2. Total(d) = Total(c) + 3 * (d3 - c3)
      BY <1>3, <1>4, <2>1
    <2> QED BY <1>1, <1>2, <2>2, <1>c3
  <1>c4. CASE i = 4
    <2>1. /\ d1 = c1 /\ d2 = c2 /\ d3 = c3 /\ d5 = c5
          /\ d6 = c6 /\ d7 = c7 /\ d8 = c8 /\ d9 = c9
          /\ d10 = c10 /\ d11 = c11
      BY <1>1, <1>2, <1>5, <1>c4
    <2>2. Total(d) = Total(c) + 2 * (d4 - c4)
      BY <1>3, <1>4, <2>1
    <2> QED BY <1>1, <1>2, <2>2, <1>c4
  <1>c5. CASE i = 5
    <2>1. /\ d1 = c1 /\ d2 = c2 /\ d3 = c3 /\ d4 = c4
          /\ d6 = c6 /\ d7 = c7 /\ d8 = c8 /\ d9 = c9
          /\ d10 = c10 /\ d11 = c11
      BY <1>1, <1>2, <1>5, <1>c5
    <2>2. Total(d) = Total(c) + 7 * (d5 - c5)
      BY <1>3, <1>4, <2>1
    <2> QED BY <1>1, <1>2, <2>2, <1>c5
  <1>c6. CASE i = 6
    <2>1. /\ d1 = c1 /\ d2 = c2 /\ d3 = c3 /\ d4 = c4
          /\ d5 = c5 /\ d7 = c7 /\ d8 = c8 /\ d9 = c9
          /\ d10 = c10 /\ d11 = c11
      BY <1>1, <1>2, <1>5, <1>c6
    <2>2. Total(d) = Total(c) + 6 * (d6 - c6)
      BY <1>3, <1>4, <2>1
    <2> QED BY <1>1, <1>2, <2>2, <1>c6
  <1>c7. CASE i = 7
    <2>1. /\ d1 = c1 /\ d2 = c2 /\ d3 = c3 /\ d4 = c4
          /\ d5 = c5 /\ d6 = c6 /\ d8 = c8 /\ d9 = c9
          /\ d10 = c10 /\ d11 = c11
      BY <1>1, <1>2, <1>5, <1>c7
    <2>2. Total(d) = Total(c) + 5 * (d7 - c7)
      BY <1>3, <1>4, <2>1
    <2> QED BY <1>1, <1>2, <2>2, <1>c7
  <1>c8. CASE i = 8
    <2>1. /\ d1 = c1 /\ d2 = c2 /\ d3 = c3 /\ d4 = c4
          /\ d5 = c5 /\ d6 = c6 /\ d7 = c7 /\ d9 = c9
          /\ d10 = c10 /\ d11 = c11
      BY <1>1, <1>2, <1>5, <1>c8
    <2>2. Total(d) = Total(c) + 4 * (d8 - c8)
      BY <1>3, <1>4, <2>1
    <2> QED BY <1>1, <1>2, <2>2, <1>c8
  <1>c9. CASE i = 9
    <2>1. /\ d1 = c1 /\ d2 = c2 /\ d3 = c3 /\ d4 = c4
          /\ d5 = c5 /\ d6 = c6 /\ d7 = c7 /\ d8 = c8
          /\ d10 = c10 /\ d11 = c11
      BY <1>1, <1>2, <1>5, <1>c9
    <2>2. Total(d) = Total(c) + 3 * (d9 - c9)
      BY <1>3, <1>4, <2>1
    <2> QED BY <1>1, <1>2, <2>2, <1>c9
  <1>c10. CASE i = 10
    <2>1. /\ d1 = c1 /\ d2 = c2 /\ d3 = c3 /\ d4 = c4
          /\ d5 = c5 /\ d6 = c6 /\ d7 = c7 /\ d8 = c8
          /\ d9 = c9 /\ d11 = c11
      BY <1>1, <1>2, <1>5, <1>c10
    <2>2. Total(d) = Total(c) + 2 * (d10 - c10)
      BY <1>3, <1>4, <2>1
    <2> QED BY <1>1, <1>2, <2>2, <1>c10
  <1>c11. CASE i = 11
    <2>1. /\ d1 = c1 /\ d2 = c2 /\ d3 = c3 /\ d4 = c4
          /\ d5 = c5 /\ d6 = c6 /\ d7 = c7 /\ d8 = c8
          /\ d9 = c9 /\ d10 = c10
      BY <1>1, <1>2, <1>5, <1>c11
    <2>2. Total(d) = Total(c) + 1 * (d11 - c11)
      BY <1>3, <1>4, <2>1
    <2> QED BY <1>1, <1>2, <2>2, <1>c11
  <1> QED BY <1>c1, <1>c2, <1>c3, <1>c4, <1>c5, <1>c6, <1>c7, <1>c8, <1>c9, <1>c10, <1>c11

\* Two neighbours swapped move it by the difference of their weights, up to
\* its sign, times the difference of the digits.
LEMMA SwapMoves ==
  ASSUME NEW c \in CUITs, NEW d \in CUITs, NEW i \in 1..10, Wrong(c, d) = {i, i + 1},
         d[i] = c[i + 1], d[i + 1] = c[i]
  PROVE  \E w \in 1..7 : \/ Total(d) = Total(c) + w * (d[i] - c[i])
                         \/ Total(d) = Total(c) + w * (c[i] - d[i])
  <1>1. PICK c1, c2, c3, c4, c5, c6, c7, c8, c9, c10, c11 \in 0..9 :
           /\ c[1] = c1 /\ c[2] = c2 /\ c[3] = c3 /\ c[4] = c4
           /\ c[5] = c5 /\ c[6] = c6 /\ c[7] = c7 /\ c[8] = c8
           /\ c[9] = c9 /\ c[10] = c10 /\ c[11] = c11
    BY Digits
  <1>2. PICK d1, d2, d3, d4, d5, d6, d7, d8, d9, d10, d11 \in 0..9 :
           /\ d[1] = d1 /\ d[2] = d2 /\ d[3] = d3 /\ d[4] = d4
           /\ d[5] = d5 /\ d[6] = d6 /\ d[7] = d7 /\ d[8] = d8
           /\ d[9] = d9 /\ d[10] = d10 /\ d[11] = d11
    BY Digits
  <1>3. Total(c) = 5*c1 + 4*c2 + 3*c3 + 2*c4 + 7*c5 + 6*c6 + 5*c7 + 4*c8 + 3*c9 + 2*c10 + c11
    BY <1>1 DEF Total, Sum
  <1>4. Total(d) = 5*d1 + 4*d2 + 3*d3 + 2*d4 + 7*d5 + 6*d6 + 5*d7 + 4*d8 + 3*d9 + 2*d10 + d11
    BY <1>2 DEF Total, Sum
  <1>5. \A j \in 1..11 : j \notin {i, i + 1} => d[j] = c[j]
    BY DEF Wrong, CUITs
  <1>c1. CASE i = 1
    <2>1. /\ d3 = c3 /\ d4 = c4 /\ d5 = c5 /\ d6 = c6
          /\ d7 = c7 /\ d8 = c8 /\ d9 = c9 /\ d10 = c10
          /\ d11 = c11
          /\ d1 = c2 /\ d2 = c1
      BY <1>1, <1>2, <1>5, <1>c1
    <2>2. Total(d) = Total(c) + 1 * (d1 - c1)
      BY <1>3, <1>4, <2>1
    <2>3. Total(d) = Total(c) + 1 * (d[1] - c[1])
      BY <1>1, <1>2, <2>2
    <2> QED BY <2>3, <1>c1
  <1>c2. CASE i = 2
    <2>1. /\ d1 = c1 /\ d4 = c4 /\ d5 = c5 /\ d6 = c6
          /\ d7 = c7 /\ d8 = c8 /\ d9 = c9 /\ d10 = c10
          /\ d11 = c11
          /\ d2 = c3 /\ d3 = c2
      BY <1>1, <1>2, <1>5, <1>c2
    <2>2. Total(d) = Total(c) + 1 * (d2 - c2)
      BY <1>3, <1>4, <2>1
    <2>3. Total(d) = Total(c) + 1 * (d[2] - c[2])
      BY <1>1, <1>2, <2>2
    <2> QED BY <2>3, <1>c2
  <1>c3. CASE i = 3
    <2>1. /\ d1 = c1 /\ d2 = c2 /\ d5 = c5 /\ d6 = c6
          /\ d7 = c7 /\ d8 = c8 /\ d9 = c9 /\ d10 = c10
          /\ d11 = c11
          /\ d3 = c4 /\ d4 = c3
      BY <1>1, <1>2, <1>5, <1>c3
    <2>2. Total(d) = Total(c) + 1 * (d3 - c3)
      BY <1>3, <1>4, <2>1
    <2>3. Total(d) = Total(c) + 1 * (d[3] - c[3])
      BY <1>1, <1>2, <2>2
    <2> QED BY <2>3, <1>c3
  <1>c4. CASE i = 4
    <2>1. /\ d1 = c1 /\ d2 = c2 /\ d3 = c3 /\ d6 = c6
          /\ d7 = c7 /\ d8 = c8 /\ d9 = c9 /\ d10 = c10
          /\ d11 = c11
          /\ d4 = c5 /\ d5 = c4
      BY <1>1, <1>2, <1>5, <1>c4
    <2>2. Total(d) = Total(c) + 5 * (c4 - d4)
      BY <1>3, <1>4, <2>1
    <2>3. Total(d) = Total(c) + 5 * (c[4] - d[4])
      BY <1>1, <1>2, <2>2
    <2> QED BY <2>3, <1>c4
  <1>c5. CASE i = 5
    <2>1. /\ d1 = c1 /\ d2 = c2 /\ d3 = c3 /\ d4 = c4
          /\ d7 = c7 /\ d8 = c8 /\ d9 = c9 /\ d10 = c10
          /\ d11 = c11
          /\ d5 = c6 /\ d6 = c5
      BY <1>1, <1>2, <1>5, <1>c5
    <2>2. Total(d) = Total(c) + 1 * (d5 - c5)
      BY <1>3, <1>4, <2>1
    <2>3. Total(d) = Total(c) + 1 * (d[5] - c[5])
      BY <1>1, <1>2, <2>2
    <2> QED BY <2>3, <1>c5
  <1>c6. CASE i = 6
    <2>1. /\ d1 = c1 /\ d2 = c2 /\ d3 = c3 /\ d4 = c4
          /\ d5 = c5 /\ d8 = c8 /\ d9 = c9 /\ d10 = c10
          /\ d11 = c11
          /\ d6 = c7 /\ d7 = c6
      BY <1>1, <1>2, <1>5, <1>c6
    <2>2. Total(d) = Total(c) + 1 * (d6 - c6)
      BY <1>3, <1>4, <2>1
    <2>3. Total(d) = Total(c) + 1 * (d[6] - c[6])
      BY <1>1, <1>2, <2>2
    <2> QED BY <2>3, <1>c6
  <1>c7. CASE i = 7
    <2>1. /\ d1 = c1 /\ d2 = c2 /\ d3 = c3 /\ d4 = c4
          /\ d5 = c5 /\ d6 = c6 /\ d9 = c9 /\ d10 = c10
          /\ d11 = c11
          /\ d7 = c8 /\ d8 = c7
      BY <1>1, <1>2, <1>5, <1>c7
    <2>2. Total(d) = Total(c) + 1 * (d7 - c7)
      BY <1>3, <1>4, <2>1
    <2>3. Total(d) = Total(c) + 1 * (d[7] - c[7])
      BY <1>1, <1>2, <2>2
    <2> QED BY <2>3, <1>c7
  <1>c8. CASE i = 8
    <2>1. /\ d1 = c1 /\ d2 = c2 /\ d3 = c3 /\ d4 = c4
          /\ d5 = c5 /\ d6 = c6 /\ d7 = c7 /\ d10 = c10
          /\ d11 = c11
          /\ d8 = c9 /\ d9 = c8
      BY <1>1, <1>2, <1>5, <1>c8
    <2>2. Total(d) = Total(c) + 1 * (d8 - c8)
      BY <1>3, <1>4, <2>1
    <2>3. Total(d) = Total(c) + 1 * (d[8] - c[8])
      BY <1>1, <1>2, <2>2
    <2> QED BY <2>3, <1>c8
  <1>c9. CASE i = 9
    <2>1. /\ d1 = c1 /\ d2 = c2 /\ d3 = c3 /\ d4 = c4
          /\ d5 = c5 /\ d6 = c6 /\ d7 = c7 /\ d8 = c8
          /\ d11 = c11
          /\ d9 = c10 /\ d10 = c9
      BY <1>1, <1>2, <1>5, <1>c9
    <2>2. Total(d) = Total(c) + 1 * (d9 - c9)
      BY <1>3, <1>4, <2>1
    <2>3. Total(d) = Total(c) + 1 * (d[9] - c[9])
      BY <1>1, <1>2, <2>2
    <2> QED BY <2>3, <1>c9
  <1>c10. CASE i = 10
    <2>1. /\ d1 = c1 /\ d2 = c2 /\ d3 = c3 /\ d4 = c4
          /\ d5 = c5 /\ d6 = c6 /\ d7 = c7 /\ d8 = c8
          /\ d9 = c9
          /\ d10 = c11 /\ d11 = c10
      BY <1>1, <1>2, <1>5, <1>c10
    <2>2. Total(d) = Total(c) + 1 * (d10 - c10)
      BY <1>3, <1>4, <2>1
    <2>3. Total(d) = Total(c) + 1 * (d[10] - c[10])
      BY <1>1, <1>2, <2>2
    <2> QED BY <2>3, <1>c10
  <1> QED BY <1>c1, <1>c2, <1>c3, <1>c4, <1>c5, <1>c6, <1>c7, <1>c8, <1>c9, <1>c10

\* A slip between two valid CUITs, neither with remainder 1, cannot be one
\* wrong digit nor two swapped neighbours.
THEOREM CheckDigitDetects ==
  ASSUME NEW c \in CUITs, ValidarCUIT(c), Remainder(c) # 1,
         NEW d \in CUITs, ValidarCUIT(d), Remainder(d) # 1
  PROVE  ~OneWrongDigit(c, d) /\ ~Swapped(c, d)
  <1>1. /\ Total(c) \in Int /\ Total(c) % 11 = 0
        /\ Total(d) % 11 = 0
    BY ValidTotal
  <1>2. \A j \in 1..11 : c[j] \in 0..9 /\ d[j] \in 0..9
    BY DEF CUITs, Digit
  <1>3. DOMAIN c = 1..11 /\ Len(c) = 11
    BY OwnDigits DEF CUITs
  <1>4. ASSUME OneWrongDigit(c, d) PROVE FALSE
    <2>1. PICK i \in 1..11 : Wrong(c, d) = {i}
      BY <1>3, <1>4 DEF OneWrongDigit
    <2>2. PICK x \in Int : x = d[i] - c[i]
      BY <1>2
    <2>3. x \in -9..9 /\ x # 0
      BY <1>2, <2>1, <2>2 DEF Wrong
    <2>4. PICK w \in 1..7 : Total(d) = Total(c) + w * x
      BY <2>1, <2>2, OneDigitMoves
    <2> QED BY <1>1, <2>3, <2>4, ChangeSeen
  <1>5. ASSUME Swapped(c, d) PROVE FALSE
    <2>1. PICK i \in 1..10 : Wrong(c, d) = {i, i + 1} /\ d[i] = c[i + 1] /\ d[i + 1] = c[i]
      BY <1>3, <1>5 DEF Swapped
    <2>2. PICK w \in 1..7 : \/ Total(d) = Total(c) + w * (d[i] - c[i])
                            \/ Total(d) = Total(c) + w * (c[i] - d[i])
      BY <2>1, SwapMoves
    <2> DEFINE e == d[i] - c[i]  f == c[i] - d[i]
    <2>3. e \in -9..9 /\ e # 0 /\ f \in -9..9 /\ f # 0
      BY <1>2, <2>1 DEF Wrong
    <2>4. (Total(c) + w * e) % 11 # 0 /\ (Total(c) + w * f) % 11 # 0
      <3> HIDE DEF e, f
      <3> QED BY <1>1, <2>3, ChangeSeen
    <2> QED BY <1>1, <2>2, <2>4
  <1> QED BY <1>4, <1>5

-----------------------------------------------------------------------------
(* From the form to the signature *)

\* What ValidarCUIT accepts of a typed text: its last 11 digits are a valid
\* CUIT, and in front of them are only zeros.
LEMMA NumberIsCUIT ==
  ASSUME NEW f \in Forms, IsNumber(f.typed), ValidarCUIT(Strip(f.typed))
  PROVE  /\ Strip(f.typed) \in Seq(Digit) /\ Len(Strip(f.typed)) >= 11
         /\ \A i \in 1..(Len(Strip(f.typed)) - 11) : Strip(f.typed)[i] = 0
         /\ \A j \in 1..11 : Number(f.typed)[j] = Strip(f.typed)[Len(Strip(f.typed)) - 11 + j]
         /\ Number(f.typed) \in CUITs
         /\ ValidarCUIT(Number(f.typed))
  <1> DEFINE s == Strip(f.typed)
             n == Number(f.typed)
  <1>1. s \in Seq(Digit)
    <2>1. s \in Seq(0..13) /\ \A i \in DOMAIN s : s[i] \in Digit
      BY FormsAssumption DEF IsNumber, AllDigits
    <2> HIDE DEF s
    <2> QED BY <2>1
  <1>2. /\ Len(s) >= 11 /\ s[Len(s) - 10] # 0 /\ \A i \in 1..(Len(s) - 11) : s[i] = 0
        /\ n = digits(s) /\ digits(s)[11] = CheckDigit(digits(s))
    BY DEF ValidarCUIT, ElevenDigits, Number
  <1> HIDE DEF s, n
  <1>3. n \in Seq(Digit) /\ Len(n) = 11 /\ \A j \in 1..11 : n[j] = s[Len(s) - 11 + j]
    BY <1>1, <1>2 DEF digits
  <1>4. n \in CUITs
    <2>1. n \in [1..Len(n) -> Digit]
      BY <1>3, LenProperties
    <2> QED BY <1>3, <2>1 DEF CUITs
  <1>5. digits(n) = n /\ n[1] # 0
    <2>1. n[1] = s[Len(s) - 11 + 1]
      BY <1>3
    <2>2. Len(s) - 11 + 1 = Len(s) - 10
      BY <1>1, LenProperties
    <2> QED BY <1>2, <1>4, <2>1, <2>2, OwnDigits
  <1>6. ValidarCUIT(n)
    BY <1>2, <1>3, <1>5 DEF ValidarCUIT, ElevenDigits
  <1> QED BY <1>1, <1>2, <1>3, <1>4, <1>6 DEF s, n

\* The first 11 digits of such a text are what extractCUIT finds in it.
LEMMA FoundInNumber ==
  ASSUME NEW f \in Forms, IsNumber(f.typed), ValidarCUIT(Strip(f.typed))
  PROVE  extractCUIT(f.typed) = SubSeq(Strip(f.typed), 1, 11)
  <1> DEFINE s == Strip(f.typed)
             runs == {i \in 1..(Len(s) - 10) : AllDigits(SubSeq(s, i, i + 10))}
  <1>1. s \in Seq(Digit) /\ Len(s) >= 11
    BY NumberIsCUIT
  <1>2. extractCUIT(f.typed) =
          LET t == TrimPrefix(s)
              found == {i \in 1..(Len(t) - 10) : AllDigits(SubSeq(t, i, i + 10))} IN
            IF found = {} THEN <<>>
            ELSE LET i == CHOOSE i \in found : \A j \in found : i <= j IN SubSeq(t, i, i + 10)
    BY DEF extractCUIT
  <1> HIDE DEF s
  <1>3. TrimPrefix(s) = s
    BY <1>1 DEF TrimPrefix, CUITWord, Digit
  <1>4. AllDigits(SubSeq(s, 1, 11))
    BY <1>1 DEF AllDigits
  <1>5. 1 \in runs /\ \A j \in runs : j \in Nat /\ 1 <= j
    BY <1>1, <1>4
  <1> HIDE DEF runs
  <1>6. (CHOOSE i \in runs : \A j \in runs : i <= j) = 1
    BY <1>5
  <1>7. extractCUIT(f.typed) = SubSeq(s, 1, 1 + 10)
    BY <1>2, <1>3, <1>5, <1>6, Zenon DEF runs
  <1> QED BY <1>7 DEF s

\* A certificate that matches such a text has the number for its digits: were
\* there a zero in front, the CUIT in the certificate would begin with it.
LEMMA MatchIsExact ==
  ASSUME AfipSerials, NEW f \in Forms, f.cert # Nil,
         IsNumber(f.typed), ValidarCUIT(Strip(f.typed)), matchCUIT(f.cert, f.typed)
  PROVE  DigitsOf(f.cert.serial) = Number(f.typed)
  <1> DEFINE s == Strip(f.typed)
             n == Number(f.typed)
             c == extractCUIT(f.cert.serial)
  <1>1. /\ s \in Seq(Digit) /\ Len(s) >= 11
        /\ \A i \in 1..(Len(s) - 11) : s[i] = 0
        /\ n = SubSeq(s, Len(s) - 10, Len(s))
    BY NumberIsCUIT DEF Number, digits
  <1>2. extractCUIT(f.typed) = SubSeq(s, 1, 11)
    BY FoundInNumber
  <1>3. c = <<>> \/ (c[1] # 0 /\ DigitsOf(f.cert.serial) = c)
    BY DEF AfipSerials
  <1>4. SubSeq(s, 1, 11) = <<>> \/ c = SubSeq(s, 1, 11)
    BY <1>2 DEF matchCUIT
  <1> HIDE DEF s, n, c
  <1>5. Len(SubSeq(s, 1, 11)) = 11 /\ SubSeq(s, 1, 11)[1] = s[1]
    BY <1>1
  <1>6. c = SubSeq(s, 1, 11) /\ c[1] = s[1] /\ c # <<>>
    <2>0. Len(<<>>) = 0 /\ 0 # 11
      OBVIOUS
    <2>1. SubSeq(s, 1, 11) # <<>>
      BY <1>5, <2>0, Zenon
    <2>2. c = SubSeq(s, 1, 11)
      BY <1>4, <2>1
    <2> QED BY <1>5, <2>1, <2>2, Zenon
  <1>7. s[1] # 0 /\ DigitsOf(f.cert.serial) = c
    BY <1>3, <1>6
  <1>8. Len(s) = 11
    BY <1>1, <1>7
  <1>9. n = SubSeq(s, 1, 11)
    BY <1>1, <1>8
  <1> QED BY <1>6, <1>7, <1>9 DEF n

\* Its CUIT and certificate are those of a form that both checks accepted.
Accepted(r) ==
  \E f \in Forms :
    /\ r.cuit = f.typed /\ r.cert = f.cert /\ f.cert # Nil
    /\ IsNumber(f.typed) /\ ValidarCUIT(Strip(f.typed)) /\ matchCUIT(f.cert, f.typed)

\* A key that was accepted, and sealed under this master key.
KnownKey(key, master) == \E r \in saved : r.sealed.plaintext = key /\ r.sealed.master = master

SealedShape(x) == x = [master |-> x.master, plaintext |-> x.plaintext, state |-> x.state]

\* The verdict is about the form; the row has columns that were accepted, and
\* the text of its key, while it is intact, is a saved one; what is loaded comes
\* from there.
VerdictInv ==
  /\ form \in Forms \cup {NoForm}
  /\ verdict.cuit => form \in Forms /\ IsNumber(form.typed) /\ ValidarCUIT(Strip(form.typed))
  /\ verdict.pair => /\ form.cert # Nil /\ form.key.public = form.cert.public
                     /\ form.typed # <<>> => matchCUIT(form.cert, form.typed)
RowInv ==
  /\ row = [cuit |-> row.cuit, cert |-> row.cert, sealed |-> row.sealed, own |-> row.own]
  /\ row.sealed # Nil =>
       /\ SealedShape(row.sealed)
       /\ Accepted(row)
       /\ row.sealed.state = "intact" =>
            /\ KnownKey(row.sealed.plaintext, row.sealed.master)
            /\ row.own = TRUE => row.sealed.plaintext.public = row.cert.public
SavedInv == \A r \in saved : SealedShape(r.sealed)
LoadedInv ==
  /\ loaded # Nil =>
       /\ Accepted(loaded)
       /\ KnownKey(loaded.key, vault)
       /\ loaded.own = TRUE => loaded.key.public = loaded.cert.public
  /\ ready => loaded # Nil
CredInv == VerdictInv /\ RowInv /\ SavedInv /\ LoadedInv

LEMMA InitCred == Init => CredInv
  <1> SUFFICES ASSUME Init PROVE CredInv
    OBVIOUS
  <1>1. VerdictInv
    BY DEF Init, VerdictInv, NoVerdict
  <1>2. RowInv
    BY DEF Init, RowInv, NoRow
  <1>3. SavedInv /\ LoadedInv
    BY DEF Init, SavedInv, LoadedInv
  <1> QED BY <1>1, <1>2, <1>3 DEF CredInv

\* What Save stores was accepted by both checks.
LEMMA SaveAccepted ==
  ASSUME CredInv, Save
  PROVE  /\ form \in Forms /\ form.cert # Nil /\ form.key.public = form.cert.public
         /\ IsNumber(form.typed) /\ ValidarCUIT(Strip(form.typed))
         /\ matchCUIT(form.cert, form.typed)
  BY DEF CredInv, VerdictInv, Save, IsNumber

LEMMA NextCred == CredInv /\ [Next]_vars => CredInv'
  <1> SUFFICES ASSUME CredInv, [Next]_vars PROVE CredInv'
    OBVIOUS
  <1>1. ASSUME NEW f \in Forms, Submit(f) PROVE CredInv'
    <2>1. VerdictInv'
      BY <1>1 DEF Submit, VerdictInv, Validate, ValidateCertOnly, X509KeyPair, matchCUIT
    <2>2. (RowInv /\ SavedInv /\ LoadedInv)'
      BY <1>1 DEF Submit, CredInv, RowInv, SavedInv, LoadedInv, KnownKey, Accepted, matchCUIT
    <2> QED BY <2>1, <2>2 DEF CredInv
  <1>2. CASE Discard
    <2>1. VerdictInv'
      BY <1>2 DEF Discard, VerdictInv, NoVerdict
    <2>2. (RowInv /\ SavedInv /\ LoadedInv)'
      BY <1>2 DEF Discard, CredInv, RowInv, SavedInv, LoadedInv, KnownKey, Accepted, matchCUIT
    <2> QED BY <2>1, <2>2 DEF CredInv
  <1>3. CASE Save
    <2> DEFINE s == EncryptToBase64(form.key)
    <2>1. VerdictInv'
      BY <1>3 DEF Save, VerdictInv, NoVerdict
    <2>2. /\ s.master = vault /\ s.plaintext = form.key
          /\ SealedShape(s)
      BY DEF EncryptToBase64, SealedShape
    <2>3. /\ row'.cuit = form.typed /\ row'.cert = form.cert
          /\ row'.sealed = s /\ saved' = saved \cup {row'}
          /\ row' = [cuit |-> row'.cuit, cert |-> row'.cert, sealed |-> row'.sealed, own |-> row'.own]
      BY <1>3 DEF Save
    <2> HIDE DEF s
    <2>4. SavedInv'
      BY <2>2, <2>3 DEF CredInv, SavedInv
    <2>5. Accepted(row')
      BY <1>3, <2>3, SaveAccepted DEF Accepted
    <2>6. row'.sealed.plaintext.public = row'.cert.public
      BY <1>3, <2>2, <2>3, SaveAccepted
    <2>7. KnownKey(row.sealed.plaintext, row.sealed.master)'
      BY <2>3 DEF KnownKey
    <2>8. RowInv'
      BY <2>2, <2>3, <2>5, <2>6, <2>7 DEF RowInv, Accepted, matchCUIT
    <2>9. LoadedInv'
      <3>1. loaded' = loaded /\ ready' = ready /\ vault' = vault
        BY <1>3 DEF Save
      <3>2. \A k, m : KnownKey(k, m) => KnownKey(k, m)'
        BY <2>3 DEF KnownKey
      <3> QED BY <3>1, <3>2 DEF CredInv, LoadedInv, Accepted, matchCUIT
    <2> QED BY <2>1, <2>4, <2>8, <2>9 DEF CredInv
  <1>4. ASSUME NEW state \in Damages, NEW key \in PrivateKeys, Damage(state, key) PROVE CredInv'
    <2>1. row.sealed # Nil /\ SealedShape(row.sealed)
      BY <1>4 DEF Damage, CredInv, RowInv
    <2>2. row' = [row EXCEPT !.sealed = [row.sealed EXCEPT !.state = state, !.plaintext = key]]
      BY <1>4 DEF Damage
    <2>3. /\ row'.cuit = row.cuit /\ row'.cert = row.cert
          /\ row' = [cuit |-> row'.cuit, cert |-> row'.cert, sealed |-> row'.sealed, own |-> row'.own]
          /\ row'.sealed = [row.sealed EXCEPT !.state = state, !.plaintext = key]
      BY <2>2 DEF CredInv, RowInv
    <2>4. SealedShape(row'.sealed) /\ row'.sealed.state = state /\ state # "intact"
      BY <2>1, <2>3 DEF SealedShape, Damages
    <2>5. Accepted(row')
      BY <2>1, <2>3 DEF CredInv, RowInv, Accepted
    <2>6. RowInv'
      BY <2>3, <2>4, <2>5 DEF RowInv, Accepted, matchCUIT
    <2>7. (VerdictInv /\ SavedInv /\ LoadedInv)'
      BY <1>4 DEF Damage, CredInv, VerdictInv, SavedInv, LoadedInv, KnownKey, Accepted, matchCUIT
    <2> QED BY <2>6, <2>7 DEF CredInv
  <1>5. ASSUME NEW other \in saved, MixUp(other) PROVE CredInv'
    <2>1. row.sealed # Nil /\ SealedShape(other.sealed)
      BY <1>5 DEF MixUp, CredInv, SavedInv
    <2>2. row' = [row EXCEPT !.sealed = other.sealed, !.own = FALSE]
      BY <1>5 DEF MixUp
    <2>3. /\ row'.cuit = row.cuit /\ row'.cert = row.cert
          /\ row' = [cuit |-> row'.cuit, cert |-> row'.cert, sealed |-> row'.sealed, own |-> row'.own]
          /\ row'.sealed = other.sealed /\ row'.own = FALSE
      BY <2>2 DEF CredInv, RowInv
    <2>4. Accepted(row')
      BY <2>1, <2>3 DEF CredInv, RowInv, Accepted
    <2>5. KnownKey(row.sealed.plaintext, row.sealed.master)'
      BY <1>5, <2>3 DEF MixUp, KnownKey
    <2>6. RowInv'
      BY <2>1, <2>3, <2>4, <2>5 DEF RowInv, Accepted, matchCUIT
    <2>7. (VerdictInv /\ SavedInv /\ LoadedInv)'
      BY <1>5 DEF MixUp, CredInv, VerdictInv, SavedInv, LoadedInv, KnownKey, Accepted, matchCUIT
    <2> QED BY <2>6, <2>7 DEF CredInv
  <1>6. ASSUME NEW m \in Masters, Restart(m) PROVE CredInv'
    <2>1. VerdictInv'
      BY <1>6 DEF Restart, VerdictInv, NoVerdict
    <2>2. (RowInv /\ SavedInv /\ LoadedInv)'
      BY <1>6 DEF Restart, CredInv, RowInv, SavedInv, LoadedInv, KnownKey, Accepted, matchCUIT
    <2> QED BY <2>1, <2>2 DEF CredInv
  <1>7. CASE Load
    <2>1. LoadedInv'
      <3>1. ASSUME loaded' # Nil PROVE LoadedInv'
        <4>1. /\ row.sealed # Nil /\ row.sealed.state = "intact" /\ row.sealed.master = vault
              /\ loaded' = [cuit |-> row.cuit, cert |-> row.cert,
                            key |-> row.sealed.plaintext, own |-> row.own]
          BY <1>7, <3>1 DEF Load, Opens
        <4>2. /\ loaded'.cuit = row.cuit /\ loaded'.cert = row.cert
              /\ loaded'.key = row.sealed.plaintext /\ loaded'.own = row.own
          BY <4>1
        <4>3. /\ Accepted(row) /\ KnownKey(row.sealed.plaintext, row.sealed.master)
              /\ row.own = TRUE => row.sealed.plaintext.public = row.cert.public
          BY <4>1 DEF CredInv, RowInv
        <4>4. Accepted(loaded')
          BY <4>2, <4>3 DEF Accepted
        <4>5. saved' = saved /\ vault' = vault /\ ready' = FALSE
          BY <1>7 DEF Load
        <4>6. KnownKey(loaded.key, vault)'
          BY <4>1, <4>2, <4>3, <4>5 DEF KnownKey
        <4>7. loaded'.own = TRUE => loaded'.key.public = loaded'.cert.public
          BY <4>2, <4>3
        <4> QED BY <4>4, <4>5, <4>6, <4>7 DEF LoadedInv, Accepted, matchCUIT
      <3>2. ASSUME loaded' = Nil PROVE LoadedInv'
        BY <1>7, <3>2 DEF Load, LoadedInv
      <3> QED BY <3>1, <3>2
    <2>2. (VerdictInv /\ RowInv /\ SavedInv)'
      BY <1>7 DEF Load, CredInv, VerdictInv, RowInv, SavedInv, KnownKey, Accepted, matchCUIT
    <2> QED BY <2>1, <2>2 DEF CredInv
  <1>8. CASE Recheck
    BY <1>8 DEF Recheck, CredInv, VerdictInv, RowInv, SavedInv, LoadedInv, KnownKey, Accepted, matchCUIT
  <1>9. CASE Tick
    BY <1>9 DEF Tick, CredInv, VerdictInv, RowInv, SavedInv, LoadedInv, KnownKey, Accepted, matchCUIT
  <1>10. CASE UNCHANGED vars
    BY <1>10 DEF vars, CredInv, VerdictInv, RowInv, SavedInv, LoadedInv, KnownKey, Accepted, matchCUIT
  <1> QED BY <1>1, <1>2, <1>3, <1>4, <1>5, <1>6, <1>7, <1>8, <1>9, <1>10 DEF Next

LEMMA Cred == Spec => []CredInv
  BY InitCred, NextCred, PTL DEF Spec

-----------------------------------------------------------------------------
(* The theorems *)

LEMMA InitType == Init => TypeOK
  <1> SUFFICES ASSUME Init PROVE TypeOK
    OBVIOUS
  <1>1. vault \in (Masters \ {"not a key"}) \cup {Nil}
    BY DEF Init, NewKeyVault
  <1>2. verdict \in [cuit : BOOLEAN, pair : BOOLEAN]
    BY DEF Init, NoVerdict
  <1> QED BY <1>1, <1>2 DEF Init, TypeOK

LEMMA NextType == CredInv /\ TypeOK /\ [Next]_vars => TypeOK'
  <1> SUFFICES ASSUME CredInv, TypeOK, [Next]_vars PROVE TypeOK'
    OBVIOUS
  <1>0. NoVerdict \in [cuit : BOOLEAN, pair : BOOLEAN]
    BY DEF NoVerdict
  <1>1. ASSUME NEW f \in Forms, Submit(f) PROVE TypeOK'
    <2> DEFINE c == IsNumber(f.typed) /\ ValidarCUIT(Strip(f.typed))
               p == Validate(f.cert, f.key, f.typed)
    <2>1. c \in BOOLEAN /\ p \in BOOLEAN
      BY Zenon DEF Validate
    <2>2. verdict' = [cuit |-> c, pair |-> p]
      BY <1>1 DEF Submit
    <2> HIDE DEF c, p
    <2>3. verdict' \in [cuit : BOOLEAN, pair : BOOLEAN]
      BY <2>1, <2>2
    <2> QED BY <1>1, <2>3 DEF Submit, TypeOK, Sealed
  <1>2. CASE Discard
    BY <1>0, <1>2 DEF Discard, TypeOK, Sealed
  <1>3. CASE Save
    <2>1. form \in Forms /\ vault \in Masters \ {"not a key"}
      BY <1>3, SaveAccepted DEF Save, TypeOK
    <2>2. form.typed \in Texts /\ form.cert \in Certs /\ form.key \in PrivateKeys
      BY <2>1 DEF Texts, Certs, PrivateKeys
    <2>3. Sealed(EncryptToBase64(form.key))
      BY <2>1, <2>2 DEF Sealed, EncryptToBase64
    <2>4. /\ row'.cuit = form.typed /\ row'.cert = form.cert /\ row'.own = TRUE
          /\ row'.sealed = EncryptToBase64(form.key)
          /\ saved' = saved \cup {row'}
      BY <1>3 DEF Save
    <2>5. /\ row'.cuit \in Texts /\ row'.cert \in Certs
          /\ Sealed(row'.sealed) /\ row'.own \in BOOLEAN
      BY <2>2, <2>3, <2>4
    <2>6. \A r \in saved' : r.cuit \in Texts /\ r.cert \in Certs /\ Sealed(r.sealed)
      BY <2>4, <2>5 DEF TypeOK
    <2> QED BY <1>0, <1>3, <2>5, <2>6 DEF Save, TypeOK, Sealed
  <1>4. ASSUME NEW state \in Damages, NEW key \in PrivateKeys, Damage(state, key) PROVE TypeOK'
    <2>1. /\ row.sealed # Nil
          /\ row' = [row EXCEPT !.sealed = [row.sealed EXCEPT !.state = state, !.plaintext = key]]
      BY <1>4 DEF Damage
    <2>2. row # NoRow
      BY <2>1 DEF NoRow
    <2>3. /\ row'.cuit = row.cuit /\ row'.cert = row.cert /\ row'.own = row.own
          /\ row'.sealed = [row.sealed EXCEPT !.state = state, !.plaintext = key]
      BY <2>1 DEF CredInv, RowInv
    <2>4. /\ row'.sealed.master = row.sealed.master
          /\ row'.sealed.plaintext = key /\ row'.sealed.state = state
      BY <2>1, <2>3 DEF CredInv, RowInv, SealedShape
    <2>5. Sealed(row'.sealed)
      BY <2>2, <2>4 DEF TypeOK, Sealed
    <2> QED BY <1>4, <2>2, <2>3, <2>5 DEF Damage, TypeOK, Sealed
  <1>5. ASSUME NEW other \in saved, MixUp(other) PROVE TypeOK'
    <2>1. row.sealed # Nil /\ row' = [row EXCEPT !.sealed = other.sealed, !.own = FALSE]
      BY <1>5 DEF MixUp
    <2>2. row # NoRow
      BY <2>1 DEF NoRow
    <2>3. /\ row'.cuit = row.cuit /\ row'.cert = row.cert /\ row'.own = FALSE
          /\ row'.sealed = other.sealed
      BY <2>1 DEF CredInv, RowInv
    <2>4. Sealed(row'.sealed)
      BY <2>3 DEF TypeOK
    <2> QED BY <1>5, <2>2, <2>3, <2>4 DEF MixUp, TypeOK, Sealed
  <1>6. ASSUME NEW m \in Masters, Restart(m) PROVE TypeOK'
    <2>1. NewKeyVault(m) \in (Masters \ {"not a key"}) \cup {Nil}
      BY DEF NewKeyVault
    <2> QED BY <1>0, <1>6, <2>1 DEF Restart, TypeOK, Sealed
  <1>7. CASE Load
    <2>1. row # NoRow
      BY <1>7 DEF Load, NoRow
    <2>2. loaded' = Nil \/
            (loaded'.cuit \in Texts /\ loaded'.cert \in Certs /\ loaded'.key \in PrivateKeys)
      BY <1>7, <2>1 DEF Load, TypeOK, Sealed
    <2> QED BY <1>7, <2>2 DEF Load, TypeOK, Sealed
  <1>8. CASE Recheck
    <2>1. ready' \in BOOLEAN
      BY <1>8, Zenon DEF Recheck, ValidateCertOnly
    <2> QED BY <1>8, <2>1 DEF Recheck, TypeOK, Sealed
  <1>9. CASE Tick
    <2>1. now \in Nat /\ now' = now + 1
      BY <1>9, Zenon DEF Tick, TypeOK
    <2>2. now' \in Nat
      BY <2>1
    <2> QED BY <1>9, <2>2, Zenon DEF Tick, TypeOK, Sealed
  <1>10. CASE UNCHANGED vars
    BY <1>10 DEF vars, TypeOK, Sealed
  <1> QED BY <1>1, <1>2, <1>3, <1>4, <1>5, <1>6, <1>7, <1>8, <1>9, <1>10 DEF Next

\* Every reachable state is well typed: a row is written whole or not at all,
\* and only a vault with a key ever seals one.
THEOREM TypeCorrect == Spec => []TypeOK
  BY InitCred, NextCred, InitType, NextType, PTL DEF Spec

\* One digit more than in a CUIT can only be a zero in front.
LEMMA OneMoreIsZero ==
  ASSUME NEW f \in Forms, IsNumber(f.typed), ValidarCUIT(Strip(f.typed)),
         OneMore(f.real, Strip(f.typed))
  PROVE  Number(f.typed) = f.real
  <1> DEFINE s == Strip(f.typed)
             n == Number(f.typed)
             c == f.real
  <1>1. c \in CUITs /\ ValidarCUIT(c)
    BY FormsAssumption DEF CUITs
  <1>2. Len(c) = 11 /\ DOMAIN c = 1..11 /\ c[1] # 0
    <2>1. Len(c) = 11 /\ DOMAIN c = 1..11
      BY <1>1, OwnDigits DEF CUITs
    <2>2. 11 - 10 = 1
      OBVIOUS
    <2> QED BY <1>1, <2>1, <2>2, Zenon DEF ValidarCUIT, ElevenDigits
  <1>3. /\ s \in Seq(Digit) /\ Len(s) >= 11 /\ n \in CUITs
        /\ \A i \in 1..(Len(s) - 11) : s[i] = 0
        /\ \A j \in 1..11 : n[j] = s[Len(s) - 11 + j]
    BY NumberIsCUIT
  <1>4. /\ Len(s) = Len(c) + 1
        /\ \E i \in DOMAIN s : \A j \in DOMAIN c : c[j] = IF j < i THEN s[j] ELSE s[j + 1]
    BY DEF OneMore
  <1> HIDE DEF s, n, c
  <1>5. PICK i \in 1..12 : \A j \in 1..11 : c[j] = IF j < i THEN s[j] ELSE s[j + 1]
    BY <1>2, <1>3, <1>4
  <1>6. s[1] = 0 /\ \A j \in 1..11 : n[j] = s[j + 1]
    BY <1>2, <1>3, <1>4
  <1>7. i = 1
    BY <1>2, <1>5, <1>6
  <1>8. \A j \in 1..11 : n[j] = c[j]
    BY <1>5, <1>6, <1>7
  <1>9. n = c
    <2>1. n \in [1..11 -> Digit] /\ c \in [1..11 -> Digit]
      BY <1>1, <1>3 DEF CUITs
    <2> HIDE DEF Digit
    <2> QED BY <1>8, <2>1
  <1> QED BY <1>9 DEF n, c

\* For every form: a slip in a CUIT that AFIP could have issued passes
\* ValidarCUIT only with remainder 1, or as a zero in front.
THEOREM TyposAreCaught == Spec => []TypoCaught
  <1>1. CredInv => TypoCaught
    <2> SUFFICES ASSUME CredInv, verdict.cuit, Slip(form.real, Strip(form.typed)),
                        Remainder(Number(form.typed)) # 1
                 PROVE  Number(form.typed) = form.real
      BY DEF TypoCaught
    <2>1. form \in Forms /\ IsNumber(form.typed) /\ ValidarCUIT(Strip(form.typed))
      BY DEF CredInv, VerdictInv
    <2>2. form.real \in CUITs /\ ValidarCUIT(form.real) /\ Remainder(form.real) # 1
      BY <2>1, FormsAssumption DEF CUITs
    <2>3. /\ Strip(form.typed) \in Seq(Digit) /\ Len(Strip(form.typed)) >= 11
          /\ Number(form.typed) \in CUITs /\ ValidarCUIT(Number(form.typed))
      BY <2>1, NumberIsCUIT
    <2>4. Len(form.real) = 11
      BY <2>2, OwnDigits
    <2>5. ASSUME Len(Strip(form.typed)) = 11 PROVE Number(form.typed) = Strip(form.typed)
      BY <2>3, <2>5 DEF Number, digits
    <2>6. ~OneWrongDigit(form.real, Strip(form.typed)) /\ ~Swapped(form.real, Strip(form.typed))
      <3>1. ASSUME Len(Strip(form.typed)) = 11
            PROVE  ~OneWrongDigit(form.real, Strip(form.typed)) /\ ~Swapped(form.real, Strip(form.typed))
        BY <2>2, <2>3, <2>5, <3>1, CheckDigitDetects
      <3> QED BY <2>4, <3>1 DEF OneWrongDigit, Swapped
    <2>7. ~OneMore(Strip(form.typed), form.real)
      BY <2>3, <2>4 DEF OneMore
    <2> QED BY <2>1, <2>6, <2>7, OneMoreIsZero DEF Slip
  <1> QED BY <1>1, Cred, PTL

\* A certificate accepted with a CUIT that ValidarCUIT accepts has that number
\* for its digits, whatever zeros are typed in front, if AFIP writes them so.
THEOREM AcceptedIsOwn ==
  ASSUME AfipSerials
  PROVE  Spec => []AcceptedIsTheTaxpayers
  <1>1. CredInv => AcceptedIsTheTaxpayers
    <2> SUFFICES ASSUME CredInv, verdict.cuit, verdict.pair
                 PROVE  DigitsOf(form.cert.serial) = Number(form.typed)
      BY DEF AcceptedIsTheTaxpayers
    <2>1. /\ form \in Forms /\ IsNumber(form.typed) /\ ValidarCUIT(Strip(form.typed))
          /\ form.cert # Nil /\ matchCUIT(form.cert, form.typed)
      BY DEF CredInv, VerdictInv, IsNumber
    <2> QED BY <2>1, MatchIsExact
  <1> QED BY <1>1, Cred, PTL

\* What is ready to sign is a key that was accepted and sealed under this master
\* key, with the taxpayer's certificate, through restarts, other master keys and
\* damaged texts; and a pair, unless the text of another row opened in its place.
THEOREM ReadyIsOwn ==
  ASSUME AfipSerials
  PROVE  Spec => []ReadySigns
  <1>1. CredInv => ReadySigns
    <2> SUFFICES ASSUME CredInv, ready PROVE ReadySigns
      BY DEF ReadySigns
    <2>1. /\ Accepted(loaded) /\ KnownKey(loaded.key, vault)
          /\ loaded.own = TRUE => loaded.key.public = loaded.cert.public
      BY DEF CredInv, LoadedInv
    <2>2. DigitsOf(loaded.cert.serial) = Number(loaded.cuit)
      BY <2>1, MatchIsExact DEF Accepted
    <2>3. loaded.own => loaded.key.public = loaded.cert.public
      BY <2>1
    <2> QED BY <2>1, <2>2, <2>3, Zenon DEF ReadySigns, KnownKey
  <1> QED BY <1>1, Cred, PTL
=============================================================================

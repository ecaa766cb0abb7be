-------------------------- MODULE ComprobanteProofs --------------------------
(***************************************************************************)
(* Proofs about Comprobante.  The dates of a comprobante for services are  *)
(* days of the calendar, whatever texts were given; validation lets every  *)
(* noise pass and no mistake, for any number of lines; the IVA computed    *)
(* falls short of the exact one by less than a centavo a line; and a note  *)
(* is of the type its invoice calls for.  What concerns the sum of all     *)
(* lines is shown by taking the first line at which it would fail.         *)
(***************************************************************************)
EXTENDS Comprobante, WellFoundedInduction, TLAPS

-----------------------------------------------------------------------------
(* The calendar *)

\* How many multiples of k there are in a step from y - 1 to y.
LEMMA Multiples ==
  ASSUME NEW y \in Int
  PROVE  /\ y \div 4 - (y - 1) \div 4 = IF y % 4 = 0 THEN 1 ELSE 0
         /\ y \div 100 - (y - 1) \div 100 = IF y % 100 = 0 THEN 1 ELSE 0
         /\ y \div 400 - (y - 1) \div 400 = IF y % 400 = 0 THEN 1 ELSE 0
  OBVIOUS

LEMMA Divisors ==
  ASSUME NEW y \in Int
  PROVE  /\ y % 100 = 0 => y % 4 = 0
         /\ y % 400 = 0 => y % 100 = 0
  OBVIOUS

NextMonth(y, m) == IF m = 12 THEN DayNumber(y + 1, 1, 1) ELSE DayNumber(y, m + 1, 1)

\* The days from the first of a month to the first of the next one.
LEMMA MonthLength ==
  ASSUME NEW y \in Int, NEW m \in 1..12
  PROVE  /\ DiasDelMes(y, m) \in 28..31
         /\ NextMonth(y, m) = DayNumber(y, m, 1) + DiasDelMes(y, m)
  <1> DEFINE years(z) == 365 * (z - 1) + (z - 1) \div 4 - (z - 1) \div 100 + (z - 1) \div 400
  <1>1. /\ years(y) \in Int
        /\ years(y + 1) = years(y) + (IF Bisiesto(y) THEN 366 ELSE 365)
    BY Multiples, Divisors DEF Bisiesto
  <1>2. \A z \in Int, k \in 1..12, d \in Int :
          DayNumber(z, k, d) = years(z) + (367 * k - 362) \div 12
                                 + (IF k <= 2 THEN 0 ELSE IF Bisiesto(z) THEN -1 ELSE -2) + d
    BY DEF DayNumber
  <1> HIDE DEF years
  <1>3. \A k \in 1..12 : (367 * k - 362) \div 12 =
          IF k = 1 THEN 0 ELSE IF k = 2 THEN 31 ELSE IF k = 3 THEN 61 ELSE IF k = 4 THEN 92
          ELSE IF k = 5 THEN 122 ELSE IF k = 6 THEN 153 ELSE IF k = 7 THEN 183
          ELSE IF k = 8 THEN 214 ELSE IF k = 9 THEN 245 ELSE IF k = 10 THEN 275
          ELSE IF k = 11 THEN 306 ELSE 336
    OBVIOUS
  <1>4. DiasDelMes(y, m) \in 28..31
    BY DEF DiasDelMes
  <1>5. DayNumber(y, m, 1) = years(y) + (367 * m - 362) \div 12
                               + (IF m <= 2 THEN 0 ELSE IF Bisiesto(y) THEN -1 ELSE -2) + 1
    BY <1>2
  <1>6. CASE m = 12
    <2>1. DayNumber(y + 1, 1, 1) = years(y + 1) + 0 + 0 + 1
      BY <1>2, <1>3
    <2>2. DayNumber(y, m, 1) = years(y) + 336 + (IF Bisiesto(y) THEN -1 ELSE -2) + 1
      BY <1>3, <1>5, <1>6
    <2>3. NextMonth(y, m) = DayNumber(y + 1, 1, 1) /\ DiasDelMes(y, m) = 31
      BY <1>6 DEF NextMonth, DiasDelMes
    <2> QED BY <1>1, <1>4, <2>1, <2>2, <2>3
  <1>7. CASE m \in 1..11
    <2>1. DayNumber(y, m + 1, 1)
            = years(y) + (367 * (m + 1) - 362) \div 12
                + (IF m + 1 <= 2 THEN 0 ELSE IF Bisiesto(y) THEN -1 ELSE -2) + 1
      BY <1>2, <1>7
    <2>2. NextMonth(y, m) = DayNumber(y, m + 1, 1)
      BY <1>7 DEF NextMonth
    <2> DEFINE a == (367 * m - 362) \div 12
               b == (367 * (m + 1) - 362) \div 12
    <2>3. a \in Int /\ b \in Int
      BY <1>7
    <2>4. b - a = (IF m = 2 THEN 30 ELSE IF m \in {4, 6, 9, 11} THEN 30 ELSE 31)
      BY <1>3, <1>7
    <2> HIDE DEF a, b
    <2>5. DayNumber(y, m, 1) = years(y) + a + (IF m <= 2 THEN 0 ELSE IF Bisiesto(y) THEN -1 ELSE -2) + 1
      BY <1>5 DEF a
    <2>6. DayNumber(y, m + 1, 1)
            = years(y) + b + (IF m <= 1 THEN 0 ELSE IF Bisiesto(y) THEN -1 ELSE -2) + 1
      BY <1>7, <2>1 DEF b
    <2> QED BY <1>1, <1>4, <1>7, <2>2, <2>3, <2>4, <2>5, <2>6 DEF DiasDelMes
  <1> QED BY <1>4, <1>6, <1>7

\* The day of a date comes before the first of the month that follows.
EsDia(f) ==
  /\ f.forma = "YYYYMMDD" /\ f.month \in 1..12 /\ f.day >= 1
  /\ DayNumber(f.year, f.month, f.day) <
       IF f.month = 12 THEN DayNumber(f.year + 1, 1, 1)
                       ELSE DayNumber(f.year, f.month + 1, 1)

\* ValidarFechaAFIP accepts the days of the calendar and nothing else.
THEOREM FechaIsDay == \A f \in Fechas : ValidarFechaAFIP(f) <=> EsDia(f)
  <1> SUFFICES ASSUME NEW f \in Fechas, f.forma = "YYYYMMDD", f.month \in 1..12, f.day >= 1
               PROVE  ValidarFechaAFIP(f) <=> EsDia(f)
    BY DEF ValidarFechaAFIP, EsDia
  <1> DEFINE y == f.year  m == f.month  d == f.day
  <1>1. y \in 0..9999 /\ m \in 1..12 /\ d \in 1..99
    <2>1. f.year \in 0..9999 /\ f.day \in 0..99
      BY DEF Fechas
    <2>2. \A k \in 0..99 : k >= 1 => k \in 1..99
      OBVIOUS
    <2> QED BY <2>1, <2>2
  <1> HIDE DEF y, m, d
  <1>2. DiasDelMes(y, m) \in 28..31 /\ NextMonth(y, m) = DayNumber(y, m, 1) + DiasDelMes(y, m)
    BY <1>1, MonthLength
  <1>3. DayNumber(y, m, d) = DayNumber(y, m, 1) + (d - 1) /\ DayNumber(y, m, 1) \in Int
    BY <1>1 DEF DayNumber
  <1>4. DayNumber(y, m, d) < NextMonth(y, m) <=> d <= DiasDelMes(y, m)
    BY <1>1, <1>2, <1>3
  <1>5. TimeDate(y, m, d) = <<y, m, d>> <=> d <= DiasDelMes(y, m)
    BY <1>1, <1>2 DEF TimeDate
  <1>6. EsDia(f) <=> DayNumber(y, m, d) < NextMonth(y, m)
    BY DEF EsDia, NextMonth, y, m, d
  <1>7. ValidarFechaAFIP(f) <=> d \in 1..31 /\ TimeDate(y, m, d) = <<y, m, d>>
    BY DEF ValidarFechaAFIP, y, m, d
  <1> QED BY <1>1, <1>2, <1>4, <1>5, <1>6, <1>7

-----------------------------------------------------------------------------
(* The dates of a comprobante *)

\* What RevisarPeriodo found is kept with the dates it found it of.
Revisado ==
  /\ periodo \in Periodos \cup {SinPeriodo}
  /\ estado \in {"fechado", "sinFecha"} => periodo \in Periodos
  /\ estado = "fechado" => ValidarConcepto(periodo)
  /\ estado = "sinFecha" => ~ValidarConcepto(periodo)

LEMMA InitRevisado == Init => Revisado
  BY DEF Init, Revisado

LEMMA NextRevisado == Revisado /\ [Next]_vars => Revisado'
  <1> SUFFICES ASSUME Revisado, [Next]_vars PROVE Revisado'
    OBVIOUS
  <1>1. CASE Fechar
    BY <1>1 DEF Fechar, Revisado
  <1>2. CASE RevisarPeriodo
    BY <1>2 DEF RevisarPeriodo, Revisado, ValidarConcepto, ValidarFechaAFIP
  <1>3. ASSUME NEW t, Clasificar(t) PROVE Revisado'
    BY <1>3 DEF Clasificar, Revisado
  <1>4. ASSUME UNCHANGED periodo, estado' = estado \/ estado' \notin {"fechado", "sinFecha"}
        PROVE  Revisado'
    BY <1>4 DEF Revisado, ValidarConcepto, ValidarFechaAFIP
  <1>5. ASSUME NEW base, NEW id, AgregarAlicuota(base, id) PROVE Revisado'
    BY <1>4, <1>5 DEF AgregarAlicuota
  <1>6. ASSUME NEW n, NEW g, NEW x, NEW t, Totalizar(n, g, x, t) PROVE Revisado'
    BY <1>4, <1>6 DEF Totalizar
  <1>7. ASSUME NEW d, Ruido(d) \/ Equivocar(d) PROVE Revisado'
    BY <1>4, <1>7 DEF Ruido, Equivocar
  <1>8. CASE Validar
    BY <1>4, <1>8 DEF Validar
  <1>9. ASSUME NEW n, Nota(n) PROVE Revisado'
    BY <1>4, <1>9 DEF Nota
  <1>10. CASE UNCHANGED vars
    BY <1>4, <1>10 DEF vars
  <1> QED BY <1>1, <1>2, <1>3, <1>5, <1>6, <1>7, <1>8, <1>9, <1>10
          DEF Next, ClasificarPorCondicion, ClasificarEspecial

\* Whatever dates are given, a comprobante for services goes on exactly when
\* all three are days of the calendar, and one for products needs none.
THEOREM DatesChecked == Spec => []DatesAreDays
  <1>1. Revisado => DatesAreDays
    <2> SUFFICES ASSUME Revisado, periodo \in Periodos
                 PROVE  ValidarConcepto(periodo) <=>
                          \/ periodo.concepto = ConceptoProductos
                          \/ EsDia(periodo.desde) /\ EsDia(periodo.hasta) /\ EsDia(periodo.vtoPago)
      BY DEF Revisado, DatesAreDays, EsDia
    <2>1. /\ periodo.concepto \in 1..3
          /\ periodo.desde \in Fechas /\ periodo.hasta \in Fechas /\ periodo.vtoPago \in Fechas
      BY PeriodosAssumption
    <2>2. \A f \in {periodo.desde, periodo.hasta, periodo.vtoPago} :
            EsDia(f) <=> f.forma # "vacia" /\ ValidarFechaAFIP(f)
      BY <2>1, FechaIsDay DEF EsDia
    <2>3. periodo.concepto = ConceptoProductos
            <=> periodo.concepto \notin {ConceptoServicios, ConceptoProductosYServicios}
      BY <2>1 DEF ConceptoProductos, ConceptoServicios, ConceptoProductosYServicios
    <2> QED BY <2>2, <2>3 DEF ValidarConcepto
  <1> QED BY <1>1, InitRevisado, NextRevisado, PTL DEF Spec

-----------------------------------------------------------------------------
(* Amounts *)

\* toCentavos gives back a whole number of centavos, whatever noise below half
\* a centavo is on it, for debits and credits alike.
THEOREM NoiseAbsorbed ==
  ASSUME NEW c \in Int, NEW d \in -4..4
  PROVE  toCentavos(fromCentavos(c) + d) = c
  BY DEF toCentavos, fromCentavos

\* The IVA of a line falls short of the exact tax on its base, in centavos, by
\* less than one centavo, and never exceeds it.
THEOREM LineShortfall ==
  ASSUME NEW base \in Nat, NEW id \in DOMAIN ivaRates
  PROVE  LET short == toCentavos(base) * ivaRates[id] - 10000 * toCentavos(CalcularIVA(base, id))
         IN  short >= 0 /\ short < 10000
  <1> DEFINE n == toCentavos(base) * ivaRates[id]
  <1>1. ivaRates[id] \in {0, 1050, 2100, 2700, 500, 250}
    BY DEF ivaRates
  <1>2. toCentavos(base) \in Nat
    BY DEF toCentavos
  <1>3. n \in Nat
    BY <1>1, <1>2
  <1>4. CalcularIVA(base, id) = fromCentavos(n \div 10000)
    BY <1>3 DEF CalcularIVA, Quo
  <1> HIDE DEF n
  <1>5. n \div 10000 \in Int /\ n - 10000 * (n \div 10000) \in 0..9999
    BY <1>3
  <1>6. toCentavos(CalcularIVA(base, id)) = n \div 10000
    BY <1>4, <1>5 DEF toCentavos, fromCentavos
  <1> QED BY <1>3, <1>5, <1>6 DEF n

-----------------------------------------------------------------------------
(* Sums *)

\* Every nonempty set of naturals has a least element: induction without an
\* operator parameter.
LEMMA LeastNat ==
  ASSUME NEW T \in SUBSET Nat, T # {}
  PROVE  \E n \in T : \A m \in T : n <= m
  <1> DEFINE R == OpToRel(<, Nat)
  <1>1. \A m, n \in Nat : <<m, n>> \in R <=> m < n
    BY DEF OpToRel
  <1>2. IsWellFoundedOn(R, Nat)
    BY NatLessThanWellFounded
  <1> HIDE DEF R
  <1>3. \E n \in T : \A m \in T : <<m, n>> \notin R
    BY <1>2, WFMin
  <1>4. PICK n \in T : \A m \in T : <<m, n>> \notin R
    BY <1>3
  <1>5. \A m \in T : ~(m < n)
    BY <1>1, <1>4
  <1>6. n \in Nat /\ \A m \in T : m \in Nat
    OBVIOUS
  <1>7. \A m \in T : n <= m
    BY <1>5, <1>6
  <1> QED BY <1>7

\* The greatest element, which FoldLeft takes first.
LEMMA MaxUpTo ==
  ASSUME NEW n \in Nat, NEW t \in SUBSET (1..n), t # {}
  PROVE  Max(t) \in t /\ (\A x \in t : x <= Max(t)) /\ t \ {Max(t)} \in SUBSET (1..(Max(t) - 1))
  <1> DEFINE T == {k \in Nat : \A x \in t : x <= k}
  <1>1. n \in T
    OBVIOUS
  <1>2. PICK k \in T : \A m \in T : k <= m
    BY <1>1, LeastNat
  <1>3. k \in t
    <2>1. ASSUME k \notin t PROVE FALSE
      <3>1. PICK x \in t : TRUE
        OBVIOUS
      <3>2. k \in Nat /\ x \in 1..n /\ x <= k
        BY <1>2, <3>1
      <3>3. k - 1 \in Nat
        BY <3>2
      <3>4. \A y \in t : y \in 1..n /\ y <= k /\ y # k
        BY <1>2, <2>1
      <3>5. \A y \in t : y <= k - 1
        BY <3>2, <3>4
      <3>6. k - 1 \in T
        BY <3>3, <3>5
      <3> QED BY <1>2, <3>2, <3>6
    <2> QED BY <2>1
  <1>4. k \in t /\ \A x \in t : k >= x
    BY <1>2, <1>3
  <1>5. Max(t) \in t /\ \A x \in t : Max(t) >= x
    BY <1>4 DEF Max
  <1>6. Max(t) \in 1..n /\ \A x \in t : x \in 1..n
    BY <1>5
  <1>7. \A x \in t \ {Max(t)} : x \in 1..(Max(t) - 1)
    BY <1>5, <1>6
  <1> HIDE DEF T
  <1> QED BY <1>5, <1>6, <1>7

\* g is what FoldLeft's recursion asks for when it adds up s.
Folds(s, g) == g = [t \in SUBSET DOMAIN s |->
                      IF t = {} THEN 0 ELSE g[t \ {Max(t)}] + s[Max(t)]]

\* The same on subsets of 1..n, when s may go on past n.
FoldsTo(n, s, g) ==
  \A t \in SUBSET (1..n) : g[t] = IF t = {} THEN 0 ELSE g[t \ {Max(t)}] + s[Max(t)]

LEMMA SumaFolds == ASSUME NEW s PROVE Suma(s) = (CHOOSE g : Folds(s, g))[DOMAIN s]
  BY Zenon DEF Suma, FoldLeft, MapThenFoldSet, Folds

\* At most one function does, whatever is added up past the domain of g.
LEMMA FoldUnique ==
  ASSUME NEW n \in Nat, NEW s, NEW g, NEW h,
         FoldsTo(n, s, g), FoldsTo(n, s, h)
  PROVE  \A t \in SUBSET (1..n) : g[t] = h[t]
  <1> DEFINE T == {k \in 0..n : \E t \in SUBSET (1..k) : g[t] # h[t]}
  <1>1. ASSUME T # {} PROVE FALSE
    <2>1. T \in SUBSET Nat
      OBVIOUS
    <2>2. PICK k \in T : \A m \in T : k <= m
      BY <1>1, <2>1, LeastNat
    <2>3. PICK t \in SUBSET (1..k) : g[t] # h[t]
      BY <2>2
    <2>4. k \in 0..n /\ t \in SUBSET (1..n)
      BY <2>2, <2>3
    <2>5. t # {}
      BY <2>3, <2>4 DEF FoldsTo
    <2> DEFINE top == Max(t)
    <2>6. top \in 1..k /\ t \ {top} \in SUBSET (1..(top - 1)) /\ t \ {top} \in SUBSET (1..n)
      <3>1. k \in Nat
        BY <2>4
      <3>2. Max(t) \in t /\ t \ {Max(t)} \in SUBSET (1..(Max(t) - 1))
        BY <2>3, <2>5, <3>1, MaxUpTo
      <3> QED BY <2>3, <2>4, <3>2
    <2>7. g[t \ {top}] # h[t \ {top}]
      BY <2>3, <2>4, <2>5 DEF FoldsTo
    <2> HIDE DEF top
    <2>8. top - 1 \in 0..n /\ top - 1 < k
      BY <2>4, <2>6
    <2>9. top - 1 \in T
      BY <2>6, <2>7, <2>8
    <2> HIDE DEF T
    <2> QED BY <2>2, <2>4, <2>8, <2>9
  <1>2. n \in 0..n
    OBVIOUS
  <1> QED BY <1>1, <1>2

\* And one does, for a sequence of integers.
LEMMA FoldExists ==
  ASSUME NEW n \in Nat, NEW s \in [1..n -> Int]
  PROVE  \E g \in [SUBSET (1..n) -> Int] : FoldsTo(n, s, g)
  <1> DEFINE P(k) == \E g \in [SUBSET (1..k) -> Int] : FoldsTo(k, s, g)
             T == {k \in 0..n : ~P(k)}
  <1>1. ASSUME T # {} PROVE FALSE
    <2>1. T \in SUBSET Nat
      OBVIOUS
    <2>2. PICK k \in T : \A m \in T : k <= m
      <3> HIDE DEF T
      <3> QED BY <1>1, <2>1, LeastNat
    <2>3. k \in 0..n /\ ~P(k)
      BY <2>2
    <2>4. P(0)
      <3> DEFINE g == [t \in SUBSET (1..0) |-> 0]
      <3>1. \A t \in SUBSET (1..0) : t = {}
        OBVIOUS
      <3>2. g \in [SUBSET (1..0) -> Int]
        OBVIOUS
      <3>3. \A t \in SUBSET (1..0) : g[t] = IF t = {} THEN 0 ELSE g[t \ {Max(t)}] + s[Max(t)]
        BY <3>1
      <3> QED BY <3>2, <3>3 DEF FoldsTo
    <2>5. k # 0 /\ k \in 1..n /\ k - 1 \in 0..n /\ k - 1 < k
      <3> HIDE DEF P, T
      <3>1. k # 0
        BY <2>3, <2>4
      <3> QED BY <2>3, <3>1
    <2>6. P(k - 1)
      <3> HIDE DEF P
      <3>1. k - 1 \notin T
        <4> HIDE DEF T
        <4>1. ~(k <= k - 1)
          BY <2>5
        <4> QED BY <2>2, <4>1
      <3> QED BY <2>5, <3>1
    <2>7. PICK g \in [SUBSET (1..(k - 1)) -> Int] :
            \A t \in SUBSET (1..(k - 1)) : g[t] = IF t = {} THEN 0 ELSE g[t \ {Max(t)}] + s[Max(t)]
      BY <2>6 DEF FoldsTo
    <2> DEFINE h == [t \in SUBSET (1..k) |-> IF k \in t THEN g[t \ {k}] + s[k] ELSE g[t]]
    <2>8. \A t \in SUBSET (1..k) : t \ {k} \in SUBSET (1..(k - 1)) /\ (k \notin t => t \in SUBSET (1..(k - 1)))
      BY <2>5
    <2>9. h \in [SUBSET (1..k) -> Int]
      <3>1. s[k] \in Int
        BY <2>5
      <3>2. \A t \in SUBSET (1..(k - 1)) : g[t] \in Int
        BY <2>7
      <3> HIDE DEF P, T
      <3>3. \A t \in SUBSET (1..k) : (IF k \in t THEN g[t \ {k}] + s[k] ELSE g[t]) \in Int
        BY <2>8, <3>1, <3>2
      <3> QED BY <3>3
    <2>10. ASSUME NEW t \in SUBSET (1..k)
           PROVE  h[t] = IF t = {} THEN 0 ELSE h[t \ {Max(t)}] + s[Max(t)]
      <3> HIDE DEF P, T
      <3>1. CASE t = {}
        <4>1. h[t] = g[t] /\ t \in SUBSET (1..(k - 1))
          BY <3>1
        <4> QED BY <2>7, <3>1, <4>1
      <3>2. CASE k \in t
        <4>1. Max(t) = k
          <5>1. k \in Nat /\ t # {}
            BY <2>5, <3>2
          <5>2. Max(t) \in t /\ \A x \in t : x <= Max(t)
            BY <5>1, MaxUpTo
          <5>3. Max(t) \in 1..k /\ k <= Max(t)
            BY <3>2, <5>2
          <5> QED BY <2>5, <5>3
        <4>2. t \ {k} \in SUBSET (1..k) /\ k \notin t \ {k}
          OBVIOUS
        <4>3. h[t] = g[t \ {k}] + s[k] /\ h[t \ {k}] = g[t \ {k}]
          BY <3>2, <4>2
        <4> HIDE DEF h
        <4> QED BY <3>2, <4>1, <4>3
      <3>3. CASE t # {} /\ k \notin t
        <4>1. t \in SUBSET (1..(k - 1)) /\ t \ {Max(t)} \in SUBSET (1..k) /\ k \notin t \ {Max(t)}
          BY <2>8, <3>3
        <4>2. h[t] = g[t] /\ h[t \ {Max(t)}] = g[t \ {Max(t)}]
          BY <3>3, <4>1
        <4> HIDE DEF h
        <4> QED BY <2>7, <3>3, <4>1, <4>2
      <3> QED BY <3>1, <3>2, <3>3
    <2>11. P(k)
      <3> HIDE DEF h
      <3> QED BY <2>9, <2>10 DEF FoldsTo
    <2> QED BY <2>3, <2>11
  <1>2. n \in 0..n
    OBVIOUS
  <1>3. P(n)
    <2> HIDE DEF P
    <2> QED BY <1>1, <1>2
  <1> QED BY <1>3

\* What an amount adds to a sum.
LEMMA SumaAppend ==
  /\ Suma(<<>>) = 0
  /\ \A s \in Seq(Int), x \in Int :
       Suma(s) \in Int /\ Suma(Append(s, x)) = Suma(s) + x
  <1> DEFINE Fold(s) == CHOOSE g : Folds(s, g)
  <1>1. ASSUME NEW s \in Seq(Int)
        PROVE  Fold(s)[DOMAIN s] \in Int /\ FoldsTo(Len(s), s, Fold(s))
    <2>1. Len(s) \in Nat /\ DOMAIN s = 1..Len(s) /\ s \in [1..Len(s) -> Int]
      OBVIOUS
    <2>2. PICK g \in [SUBSET (1..Len(s)) -> Int] : FoldsTo(Len(s), s, g)
      BY <2>1, FoldExists
    <2>3. Folds(s, g)
      BY <2>1, <2>2 DEF Folds, FoldsTo
    <2>4. Folds(s, Fold(s))
      BY <2>3
    <2> DEFINE h == Fold(s)
    <2>5. FoldsTo(Len(s), s, h)
      <3>1. Folds(s, h)
        BY <2>4
      <3> HIDE DEF h
      <3> QED BY <2>1, <3>1 DEF Folds, FoldsTo
    <2>6. \A t \in SUBSET (1..Len(s)) : h[t] = g[t]
      <3> DEFINE n == Len(s)
      <3>1. n \in Nat /\ FoldsTo(n, s, g) /\ FoldsTo(n, s, h)
        BY <2>1, <2>2, <2>5
      <3> HIDE DEF h, n
      <3>2. \A a, b, c : FoldsTo(n, a, b) /\ FoldsTo(n, a, c) =>
              \A t \in SUBSET (1..n) : b[t] = c[t]
        <4>1. n \in Nat
          BY <3>1
        <4> QED BY <4>1, FoldUnique
      <3>3. \A t \in SUBSET (1..n) : h[t] = g[t]
        BY <3>1, <3>2, Zenon
      <3> QED BY <3>3 DEF n
    <2>7. g[1..Len(s)] \in Int
      BY <2>2
    <2> QED BY <2>1, <2>5, <2>6, <2>7
  <1>2. ASSUME NEW s \in Seq(Int) PROVE Suma(s) = Fold(s)[1..Len(s)] /\ Suma(s) \in Int
    BY <1>1, SumaFolds
  <1>3. Suma(<<>>) = 0
    <2>1. <<>> \in Seq(Int) /\ 1..Len(<<>>) = {}
      OBVIOUS
    <2> HIDE DEF Fold
    <2> QED BY <1>1, <1>2, <2>1 DEF FoldsTo
  <1>4. ASSUME NEW s \in Seq(Int), NEW x \in Int PROVE Suma(Append(s, x)) = Suma(s) + x
    <2> DEFINE u == Append(s, x)
               n == Len(s)
    <2>1. /\ u \in Seq(Int) /\ n \in Nat /\ Len(u) = n + 1 /\ u[n + 1] = x
          /\ \A i \in 1..n : u[i] = s[i]
      OBVIOUS
    <2> HIDE DEF u, Fold
    <2>2. FoldsTo(n + 1, u, Fold(u)) /\ FoldsTo(n, s, Fold(s))
      BY <1>1, <2>1
    <2>3. ASSUME NEW t \in SUBSET (1..n)
          PROVE  Fold(u)[t] = IF t = {} THEN 0 ELSE Fold(u)[t \ {Max(t)}] + s[Max(t)]
      <3>1. t \in SUBSET (1..(n + 1))
        BY <2>1
      <3>2. CASE t = {}
        BY <2>2, <3>1, <3>2 DEF FoldsTo
      <3>3. CASE t # {}
        <4>1. Max(t) \in 1..n
          BY <2>1, <3>3, MaxUpTo
        <4> QED BY <2>1, <2>2, <3>1, <3>3, <4>1 DEF FoldsTo
      <3> QED BY <3>2, <3>3
    <2>4. FoldsTo(n, s, Fold(u))
      BY <2>3 DEF FoldsTo
    <2>5. Fold(u)[1..n] = Fold(s)[1..n]
      <3> HIDE DEF n
      <3>1. \A t \in SUBSET (1..n) : Fold(u)[t] = Fold(s)[t]
        BY <2>1, <2>2, <2>4, FoldUnique
      <3> QED BY <3>1
    <2>6. Max(1..(n + 1)) = n + 1 /\ (1..(n + 1)) \ {n + 1} = 1..n
      <3>1. n + 1 \in Nat /\ 1..(n + 1) # {} /\ n + 1 \in 1..(n + 1)
        BY <2>1
      <3>2. Max(1..(n + 1)) \in 1..(n + 1) /\ n + 1 <= Max(1..(n + 1))
        <4> HIDE DEF n
        <4> QED BY <3>1, MaxUpTo
      <3> QED BY <2>1, <3>2
    <2>7. Fold(u)[1..(n + 1)] = Fold(u)[1..n] + x
      <3>1. 1..(n + 1) # {}
        BY <2>1
      <3>2. Fold(u)[1..(n + 1)] = Fold(u)[(1..(n + 1)) \ {Max(1..(n + 1))}] + u[Max(1..(n + 1))]
        BY <2>2, <3>1 DEF FoldsTo
      <3> QED BY <2>1, <2>6, <3>2
    <2> QED BY <1>2, <2>1, <2>5, <2>7 DEF u
  <1> QED BY <1>2, <1>3, <1>4

\* A column of amounts grows by its last one.
LEMMA SumaColumn ==
  ASSUME NEW n \in Nat, NEW f \in [1..n -> Int], NEW g \in [1..(n + 1) -> Int],
         \A i \in 1..n : g[i] = f[i]
  PROVE  Suma(f) \in Int /\ Suma(g) \in Int /\ Suma(g) = Suma(f) + g[n + 1]
  <1>1. f \in Seq(Int) /\ Len(f) = n /\ g \in Seq(Int) /\ g[n + 1] \in Int
    OBVIOUS
  <1>2. Append(f, g[n + 1]) = g
    <2>1. Append(f, g[n + 1]) \in Seq(Int) /\ Len(Append(f, g[n + 1])) = n + 1 /\ Len(g) = n + 1
      BY <1>1
    <2>2. \A i \in 1..(n + 1) : Append(f, g[n + 1])[i] = g[i]
      BY <1>1
    <2> QED BY <1>1, <2>1, <2>2
  <1> QED BY <1>1, <1>2, SumaAppend

-----------------------------------------------------------------------------
(* The lines of a comprobante *)

Centavos10 == {a \in Int : a % 10 = 0}
Linea == [ID : DOMAIN ivaRates, BaseImp : Bases, Importe : Centavos10]

Columna(lines) == [i \in DOMAIN lines |-> lines[i].BaseImp]
ColumnaIVA(lines) == [i \in DOMAIN lines |-> lines[i].Importe]
Exacto(lines) ==
  Suma([i \in DOMAIN lines |-> toCentavos(lines[i].BaseImp) * ivaRates[lines[i].ID]])

\* What the sums of the lines say of one another.
LinesOK(lines) ==
  /\ lines \in Seq(Linea)
  /\ SumBase(lines) \in Int /\ Suma(Columna(lines)) = fromCentavos(SumBase(lines))
  /\ SumImporte(lines) \in Int /\ Suma(ColumnaIVA(lines)) = fromCentavos(SumImporte(lines))
  /\ Exacto(lines) \in Int
  /\ Exacto(lines) - 10000 * SumImporte(lines) >= 0
  /\ lines # <<>> => Exacto(lines) - 10000 * SumImporte(lines) < 10000 * Len(lines)

\* A whole number of centavos loses nothing.
LEMMA Whole ==
  ASSUME NEW a \in Int, a % 10 = 0
  PROVE  toCentavos(a) \in Int /\ a = fromCentavos(toCentavos(a)) /\ (a >= 0 => toCentavos(a) >= 0)
  BY DEF toCentavos, fromCentavos

LEMMA LineAmounts ==
  ASSUME NEW base \in Bases, NEW id \in DOMAIN ivaRates
  PROVE  /\ base \in Nat /\ toCentavos(base) \in Int /\ base = fromCentavos(toCentavos(base))
         /\ ivaRates[id] \in Int
         /\ CalcularIVA(base, id) \in Centavos10 /\ toCentavos(CalcularIVA(base, id)) \in Int
         /\ CalcularIVA(base, id) = fromCentavos(toCentavos(CalcularIVA(base, id)))
  <1>1. base \in Nat /\ base % 10 = 0
    BY AmountsAssumption
  <1>2. ivaRates[id] \in {0, 1050, 2100, 2700, 500, 250}
    BY DEF ivaRates
  <1>3. toCentavos(base) \in Int /\ base = fromCentavos(toCentavos(base)) /\ toCentavos(base) >= 0
    BY <1>1, Whole
  <1> DEFINE n == toCentavos(base) * ivaRates[id]
  <1>4. n \in Nat
    BY <1>2, <1>3
  <1>5. CalcularIVA(base, id) = fromCentavos(n \div 10000)
    BY <1>4 DEF CalcularIVA, Quo
  <1> HIDE DEF n
  <1>6. n \div 10000 \in Int
    BY <1>4
  <1>7. fromCentavos(n \div 10000) \in Int /\ fromCentavos(n \div 10000) % 10 = 0
    BY <1>6 DEF fromCentavos
  <1>8. CalcularIVA(base, id) \in Int /\ CalcularIVA(base, id) % 10 = 0
    BY <1>5, <1>7
  <1> QED BY <1>1, <1>2, <1>3, <1>8, Whole DEF Centavos10

LEMMA NoLines == LinesOK(<<>>)
  <1>1. <<>> \in Seq(Linea) /\ DOMAIN <<>> = {}
    OBVIOUS
  <1>2. \A f : DOMAIN f = {} /\ f = [i \in {} |-> f[i]] => f = <<>>
    OBVIOUS
  <1> QED BY <1>1, <1>2, SumaAppend
          DEF LinesOK, SumBase, SumImporte, Columna, ColumnaIVA, Exacto, fromCentavos

LEMMA OneMoreLine ==
  ASSUME NEW lines, LinesOK(lines), NEW base \in Bases, NEW id \in DOMAIN ivaRates
  PROVE  LinesOK(Append(lines, [ID |-> id, BaseImp |-> base, Importe |-> CalcularIVA(base, id)]))
  <1> DEFINE line == [ID |-> id, BaseImp |-> base, Importe |-> CalcularIVA(base, id)]
             more == Append(lines, line)
             n == Len(lines)
  <1>1. line \in Linea /\ lines \in Seq(Linea)
    BY LineAmounts DEF LinesOK, Linea
  <1>2. /\ n \in Nat /\ DOMAIN lines = 1..n /\ DOMAIN more = 1..(n + 1)
        /\ more \in Seq(Linea) /\ Len(more) = n + 1 /\ more # <<>>
        /\ more[n + 1] = line /\ \A i \in 1..n : more[i] = lines[i] /\ lines[i] \in Linea
    BY <1>1
  <1>3. line.BaseImp = base /\ line.ID = id /\ line.Importe = CalcularIVA(base, id)
    OBVIOUS
  <1>4. \A i \in 1..(n + 1) :
          /\ more[i].BaseImp \in Int /\ more[i].Importe \in Int
          /\ toCentavos(more[i].BaseImp) \in Int
          /\ toCentavos(more[i].Importe) \in Int
          /\ toCentavos(more[i].BaseImp) * ivaRates[more[i].ID] \in Int
    <2>1. \A l \in Linea : l.BaseImp \in Bases /\ l.ID \in DOMAIN ivaRates /\ l.Importe \in Int
      BY DEF Linea, Centavos10
    <2>2. \A a \in Int : toCentavos(a) \in Int
      BY DEF toCentavos
    <2>3. \A l \in Linea : /\ l.BaseImp \in Int /\ toCentavos(l.BaseImp) \in Int
                           /\ toCentavos(l.Importe) \in Int /\ ivaRates[l.ID] \in Int
      BY <2>1, <2>2, LineAmounts
    <2>4. \A i \in 1..(n + 1) : more[i] \in Linea
      BY <1>2
    <2> HIDE DEF more, n
    <2> QED BY <2>1, <2>3, <2>4
  <1> HIDE DEF line, more, n
  <1>4a. \A i \in 1..n :
          /\ i \in 1..(n + 1)
          /\ lines[i].BaseImp \in Int /\ lines[i].Importe \in Int
          /\ toCentavos(lines[i].BaseImp) \in Int
          /\ toCentavos(lines[i].Importe) \in Int
          /\ toCentavos(lines[i].BaseImp) * ivaRates[lines[i].ID] \in Int
    <2>1. \A i \in 1..n : i \in 1..(n + 1) /\ more[i] = lines[i]
      BY <1>2
    <2> QED BY <1>4, <2>1
  <1>4b. n + 1 \in 1..(n + 1)
    BY <1>2
  <1>5. Suma(Columna(more)) = Suma(Columna(lines)) + base
    <2>1. /\ Columna(lines) \in [1..n -> Int] /\ Columna(more) \in [1..(n + 1) -> Int]
          /\ \A i \in 1..n : Columna(more)[i] = Columna(lines)[i]
          /\ Columna(more)[n + 1] = base
      BY <1>2, <1>3, <1>4, <1>4a, <1>4b DEF Columna
    <2> QED BY <1>2, <2>1, SumaColumn
  <1>6. Suma(ColumnaIVA(more)) = Suma(ColumnaIVA(lines)) + CalcularIVA(base, id)
    <2>1. /\ ColumnaIVA(lines) \in [1..n -> Int] /\ ColumnaIVA(more) \in [1..(n + 1) -> Int]
          /\ \A i \in 1..n : ColumnaIVA(more)[i] = ColumnaIVA(lines)[i]
          /\ ColumnaIVA(more)[n + 1] = CalcularIVA(base, id)
      BY <1>2, <1>3, <1>4, <1>4a, <1>4b DEF ColumnaIVA
    <2> QED BY <1>2, <2>1, SumaColumn
  <1>7. SumBase(more) = SumBase(lines) + toCentavos(base) /\ SumBase(more) \in Int
    <2> DEFINE f == [i \in DOMAIN lines |-> toCentavos(lines[i].BaseImp)]
               g == [i \in DOMAIN more |-> toCentavos(more[i].BaseImp)]
    <2>1. /\ f \in [1..n -> Int] /\ g \in [1..(n + 1) -> Int]
          /\ \A i \in 1..n : g[i] = f[i]
          /\ g[n + 1] = toCentavos(base)
      BY <1>2, <1>3, <1>4, <1>4a, <1>4b
    <2>2. SumBase(lines) = Suma(f) /\ SumBase(more) = Suma(g)
      BY DEF SumBase
    <2> HIDE DEF f, g
    <2> QED BY <1>2, <2>1, <2>2, SumaColumn
  <1>8. /\ SumImporte(more) = SumImporte(lines) + toCentavos(CalcularIVA(base, id))
        /\ SumImporte(more) \in Int
    <2> DEFINE f == [i \in DOMAIN lines |-> toCentavos(lines[i].Importe)]
               g == [i \in DOMAIN more |-> toCentavos(more[i].Importe)]
    <2>1. /\ f \in [1..n -> Int] /\ g \in [1..(n + 1) -> Int]
          /\ \A i \in 1..n : g[i] = f[i]
          /\ g[n + 1] = toCentavos(CalcularIVA(base, id))
      BY <1>2, <1>3, <1>4, <1>4a, <1>4b
    <2>2. SumImporte(lines) = Suma(f) /\ SumImporte(more) = Suma(g)
      BY DEF SumImporte
    <2> HIDE DEF f, g
    <2> QED BY <1>2, <2>1, <2>2, SumaColumn
  <1>9. Exacto(more) = Exacto(lines) + toCentavos(base) * ivaRates[id] /\ Exacto(more) \in Int
    <2> DEFINE f == [i \in DOMAIN lines |-> toCentavos(lines[i].BaseImp) * ivaRates[lines[i].ID]]
               g == [i \in DOMAIN more |-> toCentavos(more[i].BaseImp) * ivaRates[more[i].ID]]
    <2>1. /\ f \in [1..n -> Int] /\ g \in [1..(n + 1) -> Int]
          /\ \A i \in 1..n : g[i] = f[i]
          /\ g[n + 1] = toCentavos(base) * ivaRates[id]
      BY <1>2, <1>3, <1>4, <1>4a, <1>4b
    <2>2. Exacto(lines) = Suma(f) /\ Exacto(more) = Suma(g)
      BY DEF Exacto
    <2> HIDE DEF f, g
    <2> QED BY <1>2, <2>1, <2>2, SumaColumn
  <1> DEFINE lineExact == toCentavos(base) * ivaRates[id]
             lineIva == toCentavos(CalcularIVA(base, id))
  <1>10. /\ lineExact \in Int /\ lineIva \in Int
         /\ lineExact - 10000 * lineIva >= 0 /\ lineExact - 10000 * lineIva < 10000
    BY LineAmounts, LineShortfall
  <1> HIDE DEF lineExact, lineIva
  <1>11. /\ Exacto(lines) \in Int /\ SumImporte(lines) \in Int
         /\ Exacto(lines) - 10000 * SumImporte(lines) >= 0
         /\ n # 0 => Exacto(lines) - 10000 * SumImporte(lines) < 10000 * n
    <2>1. n # 0 => lines # <<>>
      BY DEF n
    <2> QED BY <1>2, <2>1 DEF LinesOK, n
  <1>12. n = 0 => Exacto(lines) - 10000 * SumImporte(lines) = 0
    <2> SUFFICES ASSUME n = 0 PROVE Exacto(<<>>) = 0 /\ SumImporte(<<>>) = 0 /\ lines = <<>>
      OBVIOUS
    <2>1. \A f : DOMAIN f = {} /\ f = [i \in {} |-> f[i]] => f = <<>>
      OBVIOUS
    <2>2. lines = <<>>
      BY <1>1 DEF n
    <2> QED BY <2>1, <2>2, SumaAppend DEF Exacto, SumImporte
  <1>13. /\ Exacto(more) - 10000 * SumImporte(more) >= 0
         /\ Exacto(more) - 10000 * SumImporte(more) < 10000 * (n + 1)
    <2>1. /\ Exacto(more) = Exacto(lines) + lineExact
          /\ SumImporte(more) = SumImporte(lines) + lineIva
      BY <1>8, <1>9 DEF lineExact, lineIva
    <2> QED BY <1>2, <1>10, <1>11, <1>12, <2>1
  <1>14. Suma(Columna(more)) = fromCentavos(SumBase(more))
    BY <1>5, <1>7, LineAmounts DEF LinesOK, fromCentavos
  <1>15. Suma(ColumnaIVA(more)) = fromCentavos(SumImporte(more))
    BY <1>6, <1>8, LineAmounts DEF LinesOK, fromCentavos
  <1>16. LinesOK(more)
    BY <1>2, <1>7, <1>8, <1>9, <1>13, <1>14, <1>15 DEF LinesOK
  <1> QED BY <1>16 DEF more, line

-----------------------------------------------------------------------------
(* The amounts of a comprobante *)

\* The amounts are consistent, as Validar asks.
Consistente ==
  /\ ValidarCuadratura(imp)
  /\ Itemised => /\ SumBase(alicuotas) = toCentavos(imp.ImpNeto)
                 /\ SumImporte(alicuotas) = toCentavos(imp.ImpIVA)

\* An amount is some centavos and less than half a centavo of noise; a line is,
\* in both its amounts.
Cerca(a) == a - fromCentavos(toCentavos(a)) \in -4..4
Justo(a) == a = fromCentavos(toCentavos(a))
Renglon == [ID : DOMAIN ivaRates, BaseImp : Int, Importe : Int]

\* So are all amounts, with no noise before Ruido; and the centavos are
\* consistent exactly when no mistake was made.
Cuadra ==
  /\ alicuotas \in Seq(Renglon)
  /\ \A f \in Fields : Cerca(imp[f])
  /\ \A i \in DOMAIN alicuotas : Cerca(alicuotas[i].BaseImp) /\ Cerca(alicuotas[i].Importe)
  /\ ~noisy => /\ \A f \in Fields : Justo(imp[f])
               /\ \A i \in DOMAIN alicuotas :
                    Justo(alicuotas[i].BaseImp) /\ Justo(alicuotas[i].Importe)
  /\ mistaken <=> ~Consistente

AmountInv ==
  /\ imp \in [Fields -> Int]
  /\ noisy \in BOOLEAN /\ mistaken \in BOOLEAN
  /\ estado \in {"nuevo", "fechado", "sinFecha", "clasificado", "totalizado",
                 "valido", "invalido", "nota"}
  /\ estado \in {"nuevo", "fechado", "sinFecha", "clasificado"} =>
       ~noisy /\ ~mistaken /\ LinesOK(alicuotas)
  /\ estado = "totalizado" => Cuadra
  /\ NoiseTolerated /\ MistakesCaught /\ IvaShortfallBounded

\* toCentavos of a sum of centavos, other centavos and noise.
LEMMA Centavos ==
  ASSUME NEW a \in Int, NEW d \in Int
  PROVE  /\ toCentavos(a) \in Int
         /\ a = fromCentavos(toCentavos(a)) /\ d \in -4..4 => toCentavos(a + d) = toCentavos(a)
         /\ a - fromCentavos(toCentavos(a)) \in -4..4 /\ d % 10 = 0 =>
              /\ toCentavos(a + d) = toCentavos(a) + toCentavos(d)
              /\ d = fromCentavos(toCentavos(d))
  <1>1. toCentavos(a) \in Int /\ toCentavos(d) \in Int
    BY DEF toCentavos
  <1>2. ASSUME a = fromCentavos(toCentavos(a)), d \in -4..4
        PROVE  toCentavos(a + d) = toCentavos(a)
    BY <1>1, <1>2, NoiseAbsorbed
  <1>3. ASSUME a - fromCentavos(toCentavos(a)) \in -4..4, d % 10 = 0
        PROVE  /\ toCentavos(a + d) = toCentavos(a) + toCentavos(d)
               /\ d = fromCentavos(toCentavos(d))
    <2>1. d = fromCentavos(toCentavos(d))
      BY <1>3, Whole
    <2> DEFINE c == toCentavos(a) + toCentavos(d)
               r == a - fromCentavos(toCentavos(a))
    <2>2. c \in Int /\ r \in -4..4 /\ a + d = fromCentavos(c) + r
      BY <1>1, <1>3, <2>1 DEF fromCentavos
    <2> HIDE DEF c, r
    <2>3. toCentavos(a + d) = c
      BY <2>2, NoiseAbsorbed
    <2> QED BY <2>1, <2>3 DEF c
  <1> QED BY <1>1, <1>2, <1>3

\* What noise and mistakes do to an amount.
LEMMA Justos == \A a \in Int : Justo(a) => Cerca(a)
  BY DEF Justo, Cerca, fromCentavos

LEMMA ConRuido ==
  ASSUME NEW a \in Int, Justo(a), NEW x \in -4..4
  PROVE  a + x \in Int /\ toCentavos(a + x) = toCentavos(a) /\ Cerca(a + x)
  <1>1. x \in Int /\ a + x \in Int
    OBVIOUS
  <1> DEFINE c == toCentavos(a)  y == a + x
  <1>2. c \in Int /\ toCentavos(y) = c /\ a = fromCentavos(c)
    BY <1>1, Centavos DEF Justo
  <1>3. y = a + x
    OBVIOUS
  <1> HIDE DEF c, y
  <1>4. y - fromCentavos(toCentavos(y)) = x
    BY <1>1, <1>2, <1>3 DEF fromCentavos
  <1>5. Cerca(y)
    BY <1>4 DEF Cerca
  <1> QED BY <1>1, <1>2, <1>5 DEF c, y

LEMMA ConError ==
  ASSUME NEW a \in Int, Cerca(a), NEW x \in Int, x % 10 = 0
  PROVE  /\ a + x \in Int
         /\ toCentavos(a) \in Int /\ toCentavos(x) \in Int
         /\ toCentavos(a + x) = toCentavos(a) + toCentavos(x)
         /\ x = fromCentavos(toCentavos(x))
         /\ Cerca(a + x)
         /\ Justo(a) => Justo(a + x)
  <1>1. /\ toCentavos(a) \in Int /\ toCentavos(x) \in Int
        /\ toCentavos(a + x) = toCentavos(a) + toCentavos(x)
        /\ x = fromCentavos(toCentavos(x))
    BY Centavos DEF Cerca
  <1> DEFINE ca == toCentavos(a)  cx == toCentavos(x)  y == a + x  cs == toCentavos(y)
  <1>2. ca \in Int /\ cx \in Int /\ cs = ca + cx /\ x = 10 * cx
    BY <1>1 DEF fromCentavos
  <1>3. (a - 10 * ca \in -4..4) /\ (Justo(a) => a = 10 * ca)
    BY DEF Cerca, Justo, fromCentavos
  <1>3a. y = a + x
    OBVIOUS
  <1> HIDE DEF ca, cx, y, cs
  <1>4. (y - 10 * cs \in -4..4) /\ (Justo(a) => y = 10 * cs)
    BY <1>2, <1>3, <1>3a
  <1>5. Cerca(y) /\ (Justo(a) => Justo(y))
    BY <1>4 DEF Cerca, Justo, fromCentavos, cs
  <1> QED BY <1>1, <1>5 DEF y

\* What they do to a line, and to the lines.
LEMMA LineaDesviada ==
  ASSUME NEW l \in Renglon, NEW d \in [Amounts -> Int]
  PROVE  /\ Desviada(l, d) \in Renglon /\ Desviada(l, d).ID = l.ID
         /\ Desviada(l, d).BaseImp = l.BaseImp + d.BaseImp
         /\ Desviada(l, d).Importe = l.Importe + d.Importe
  <1>1. l.BaseImp \in Int /\ l.Importe \in Int /\ l.ID \in DOMAIN ivaRates
    BY DEF Renglon
  <1>2. d.BaseImp \in Int /\ d.Importe \in Int
    BY DEF Amounts, LineFields
  <1>3. l.BaseImp + d.BaseImp \in Int /\ l.Importe + d.Importe \in Int
    BY <1>1, <1>2
  <1> QED BY <1>1, <1>3 DEF Desviada, Renglon

Desvio(more, lines, d, these) ==
  more = [i \in DOMAIN lines |-> IF i \in these THEN Desviada(lines[i], d) ELSE lines[i]]

Desviados(more, lines, d, these) ==
  /\ more \in Seq(Renglon) /\ Len(more) = Len(lines) /\ DOMAIN more = DOMAIN lines
  /\ \A i \in DOMAIN lines :
       /\ more[i].ID = lines[i].ID
       /\ i \in these => /\ more[i].BaseImp = lines[i].BaseImp + d.BaseImp
                         /\ more[i].Importe = lines[i].Importe + d.Importe
       /\ i \notin these => more[i] = lines[i]

LEMMA Desviadas ==
  ASSUME NEW lines \in Seq(Renglon), NEW d \in [Amounts -> Int], NEW these, NEW more,
         Desvio(more, lines, d, these)
  PROVE  Desviados(more, lines, d, these)
  <1> DEFINE n == Len(lines)
  <1>1. n \in Nat /\ DOMAIN lines = 1..n /\ \A i \in 1..n : lines[i] \in Renglon
    OBVIOUS
  <1> HIDE DEF n
  <1>2. \A i \in 1..n : /\ Desviada(lines[i], d) \in Renglon
                        /\ Desviada(lines[i], d).ID = lines[i].ID
                        /\ Desviada(lines[i], d).BaseImp = lines[i].BaseImp + d.BaseImp
                        /\ Desviada(lines[i], d).Importe = lines[i].Importe + d.Importe
    BY <1>1, LineaDesviada
  <1>3. more \in [1..n -> Renglon]
    BY <1>1, <1>2 DEF Desvio
  <1>4. more \in Seq(Renglon) /\ Len(more) = n /\ DOMAIN more = 1..n
    <2>1. \A m \in Nat : \A f \in [1..m -> Renglon] :
            f \in Seq(Renglon) /\ Len(f) = m /\ DOMAIN f = 1..m
      OBVIOUS
    <2> QED BY <1>1, <1>3, <2>1, Zenon
  <1>5. \A i \in DOMAIN lines :
          /\ more[i].ID = lines[i].ID
          /\ i \in these => /\ more[i].BaseImp = lines[i].BaseImp + d.BaseImp
                            /\ more[i].Importe = lines[i].Importe + d.Importe
          /\ i \notin these => more[i] = lines[i]
    BY <1>1, <1>2 DEF Desvio
  <1> QED BY <1>1, <1>4, <1>5 DEF n, Desviados

\* The sums see the centavos only.
LEMMA MismasSumas ==
  ASSUME NEW lines, NEW more, DOMAIN more = DOMAIN lines,
         \A i \in DOMAIN lines : /\ more[i].ID = lines[i].ID
                                 /\ toCentavos(more[i].BaseImp) = toCentavos(lines[i].BaseImp)
                                 /\ toCentavos(more[i].Importe) = toCentavos(lines[i].Importe)
  PROVE  SumBase(more) = SumBase(lines) /\ SumImporte(more) = SumImporte(lines)
           /\ Exacto(more) = Exacto(lines)
  <1>1. [i \in DOMAIN more |-> toCentavos(more[i].BaseImp)]
          = [i \in DOMAIN lines |-> toCentavos(lines[i].BaseImp)]
    OBVIOUS
  <1>2. [i \in DOMAIN more |-> toCentavos(more[i].Importe)]
          = [i \in DOMAIN lines |-> toCentavos(lines[i].Importe)]
    OBVIOUS
  <1>3. [i \in DOMAIN more |-> toCentavos(more[i].BaseImp) * ivaRates[more[i].ID]]
          = [i \in DOMAIN lines |-> toCentavos(lines[i].BaseImp) * ivaRates[lines[i].ID]]
    OBVIOUS
  <1> QED BY <1>1, <1>2, <1>3, Zenon DEF SumBase, SumImporte, Exacto

\* A sum moves by what its last amount moves.
LEMMA UltimoMonto ==
  ASSUME NEW n \in Nat, n # 0, NEW f \in [1..n -> Int], NEW g \in [1..n -> Int],
         \A i \in 1..n : i # n => g[i] = f[i]
  PROVE  Suma(f) \in Int /\ Suma(g) \in Int /\ Suma(g) = Suma(f) + (g[n] - f[n])
  <1> DEFINE m == n - 1
             h == [i \in 1..m |-> f[i]]
  <1>1. m \in Nat /\ n = m + 1 /\ \A i \in 1..m : i \in 1..n /\ i # n
    OBVIOUS
  <1> HIDE DEF m
  <1>2. h \in [1..m -> Int] /\ \A i \in 1..m : f[i] = h[i] /\ g[i] = h[i]
    BY <1>1
  <1> HIDE DEF h
  <1>3. f \in [1..(m + 1) -> Int] /\ g \in [1..(m + 1) -> Int]
    BY <1>1
  <1>4. Suma(h) \in Int /\ Suma(f) \in Int /\ Suma(f) = Suma(h) + f[m + 1]
    BY <1>1, <1>2, <1>3, SumaColumn
  <1>5. Suma(g) \in Int /\ Suma(g) = Suma(h) + g[m + 1]
    BY <1>1, <1>2, <1>3, SumaColumn
  <1>6. f[n] \in Int /\ g[n] \in Int
    BY <1>1, <1>3
  <1> QED BY <1>1, <1>4, <1>5, <1>6

LEMMA UltimaLinea ==
  ASSUME NEW lines \in Seq(Renglon), NEW more \in Seq(Renglon), lines # <<>>,
         Len(more) = Len(lines), \A i \in DOMAIN lines : i # Len(lines) => more[i] = lines[i]
  PROVE  LET n == Len(lines)
         IN  /\ SumBase(lines) \in Int /\ SumImporte(lines) \in Int
             /\ SumBase(more) = SumBase(lines)
                  + (toCentavos(more[n].BaseImp) - toCentavos(lines[n].BaseImp))
             /\ SumImporte(more) = SumImporte(lines)
                  + (toCentavos(more[n].Importe) - toCentavos(lines[n].Importe))
  <1> DEFINE n == Len(lines)
  <1>1. n \in Nat /\ n # 0 /\ n \in 1..n /\ DOMAIN lines = 1..n /\ DOMAIN more = 1..n
        /\ \A i \in 1..n : lines[i] \in Renglon /\ more[i] \in Renglon
    OBVIOUS
  <1>2. \A a \in Int : toCentavos(a) \in Int
    BY DEF toCentavos
  <1>3. \A l \in Renglon : toCentavos(l.BaseImp) \in Int /\ toCentavos(l.Importe) \in Int
    BY <1>2 DEF Renglon
  <1> HIDE DEF n
  <1>4. /\ SumBase(lines) \in Int
        /\ SumBase(more) = SumBase(lines) + (toCentavos(more[n].BaseImp) - toCentavos(lines[n].BaseImp))
    <2> DEFINE f == [i \in DOMAIN lines |-> toCentavos(lines[i].BaseImp)]
               g == [i \in DOMAIN more |-> toCentavos(more[i].BaseImp)]
    <2>1. f \in [1..n -> Int] /\ g \in [1..n -> Int] /\ \A i \in 1..n : i # n => g[i] = f[i]
      BY <1>1, <1>3 DEF n
    <2>2. f[n] = toCentavos(lines[n].BaseImp) /\ g[n] = toCentavos(more[n].BaseImp)
      BY <1>1
    <2>3. SumBase(lines) = Suma(f) /\ SumBase(more) = Suma(g)
      BY DEF SumBase
    <2> HIDE DEF f, g
    <2> QED BY <1>1, <2>1, <2>2, <2>3, UltimoMonto
  <1>5. /\ SumImporte(lines) \in Int
        /\ SumImporte(more) = SumImporte(lines)
             + (toCentavos(more[n].Importe) - toCentavos(lines[n].Importe))
    <2> DEFINE f == [i \in DOMAIN lines |-> toCentavos(lines[i].Importe)]
               g == [i \in DOMAIN more |-> toCentavos(more[i].Importe)]
    <2>1. f \in [1..n -> Int] /\ g \in [1..n -> Int] /\ \A i \in 1..n : i # n => g[i] = f[i]
      BY <1>1, <1>3 DEF n
    <2>2. f[n] = toCentavos(lines[n].Importe) /\ g[n] = toCentavos(more[n].Importe)
      BY <1>1
    <2>3. SumImporte(lines) = Suma(f) /\ SumImporte(more) = Suma(g)
      BY DEF SumImporte
    <2> HIDE DEF f, g
    <2> QED BY <1>1, <2>1, <2>2, <2>3, UltimoMonto
  <1> QED BY <1>4, <1>5 DEF n

LEMMA VaciaSuma == SumBase(<<>>) = 0 /\ SumImporte(<<>>) = 0
  <1>1. \A f : DOMAIN f = {} /\ f = [i \in {} |-> f[i]] => f = <<>>
    OBVIOUS
  <1>2. DOMAIN <<>> = {}
    OBVIOUS
  <1> QED BY <1>1, <1>2, SumaAppend DEF SumBase, SumImporte

LEMMA ShortLines == LinesOK(alicuotas) => IvaShortfallBounded
  BY DEF LinesOK, IvaShortfallBounded, Exacto

LEMMA InitAmounts == Init => AmountInv
  <1> SUFFICES ASSUME Init PROVE AmountInv
    OBVIOUS
  <1>2. /\ estado = "nuevo" /\ alicuotas = <<>> /\ imp = Zero /\ ~noisy /\ ~mistaken
        /\ noisy \in BOOLEAN /\ mistaken \in BOOLEAN
    BY DEF Init
  <1>3. IvaShortfallBounded
    <2>1. LinesOK(alicuotas)
      BY <1>2, NoLines, Zenon
    <2> QED BY <2>1, ShortLines
  <1>4. imp \in [Fields -> Int] /\ LinesOK(alicuotas)
    <2>1. LinesOK(alicuotas)
      BY <1>2, NoLines, Zenon
    <2>2. imp \in [Fields -> Int]
      BY <1>2 DEF Zero
    <2> QED BY <2>1, <2>2
  <1> QED BY <1>2, <1>3, <1>4 DEF AmountInv, NoiseTolerated, MistakesCaught

\* Totalling puts consistent centavos together.
LEMMA TotalizarConsistent ==
  ASSUME AmountInv,
         NEW netoC \in Bases, NEW noGravado \in Extras, NEW exento \in Extras, NEW tributos \in Extras,
         Totalizar(netoC, noGravado, exento, tributos)
  PROVE  AmountInv'
  <1> DEFINE neto == IF Itemised THEN Suma(Columna(alicuotas)) ELSE netoC
             iva == Suma(ColumnaIVA(alicuotas))
             total == neto + iva + noGravado + exento + tributos
  <1>1. /\ estado = "clasificado" /\ estado' = "totalizado"
        /\ imp' = [ImpNeto |-> neto, ImpIVA |-> iva, ImpNoGravado |-> noGravado,
                   ImpExento |-> exento, ImpTributos |-> tributos, ImpTotal |-> total]
        /\ UNCHANGED <<tipo, alicuotas, noisy, mistaken>>
    BY DEF Totalizar, Columna, ColumnaIVA
  <1>2. ~noisy /\ ~mistaken /\ LinesOK(alicuotas) /\ UNCHANGED Itemised
    BY <1>1 DEF AmountInv, Itemised
  <1>3. \A a \in {noGravado, exento, tributos, netoC} :
          a \in Int /\ toCentavos(a) \in Int /\ a = fromCentavos(toCentavos(a))
    <2>1. \A a \in {noGravado, exento, tributos, netoC} : a \in Nat /\ a % 10 = 0
      BY AmountsAssumption
    <2> QED BY <2>1, Whole
  <1>4. ASSUME NEW c \in Int PROVE fromCentavos(c) \in Int /\ toCentavos(fromCentavos(c)) = c
    <2>1. 0 \in -4..4 /\ fromCentavos(c) \in Int /\ fromCentavos(c) + 0 = fromCentavos(c)
      BY DEF fromCentavos
    <2> QED BY <2>1, NoiseAbsorbed
  <1>5. iva \in Int /\ toCentavos(iva) = SumImporte(alicuotas) /\ iva = fromCentavos(toCentavos(iva))
        /\ toCentavos(iva) \in Int
    BY <1>2, <1>4 DEF LinesOK
  <1>6. /\ neto \in Int /\ toCentavos(neto) \in Int /\ neto = fromCentavos(toCentavos(neto))
        /\ Itemised => toCentavos(neto) = SumBase(alicuotas)
    <2>1. CASE Itemised
      <3>1. neto = fromCentavos(SumBase(alicuotas)) /\ SumBase(alicuotas) \in Int
        BY <1>2, <2>1 DEF LinesOK
      <3> HIDE DEF neto
      <3> QED BY <1>4, <3>1
    <2>2. CASE ~Itemised
      BY <1>3, <2>2
    <2> QED BY <2>1, <2>2
  <1> HIDE DEF neto, iva
  <1> DEFINE c == toCentavos(neto) + toCentavos(iva) + toCentavos(tributos)
                    + toCentavos(noGravado) + toCentavos(exento)
  <1>7. total \in Int /\ c \in Int /\ total = fromCentavos(c)
    BY <1>3, <1>5, <1>6 DEF fromCentavos
  <1>8. toCentavos(total) = c
    <2> HIDE DEF total, c
    <2> QED BY <1>4, <1>7
  <1> HIDE DEF total
  <1>9. imp' \in [Fields -> Int] /\ \A f \in Fields : imp'[f] = fromCentavos(toCentavos(imp'[f]))
    <2>1. \A a \in {neto, iva, noGravado, exento, tributos, total} :
            a \in Int /\ a = fromCentavos(toCentavos(a))
      BY <1>3, <1>5, <1>6, <1>7, <1>8
    <2> HIDE DEF c
    <2> QED BY <1>1, <2>1 DEF Fields
  <1>10. ASSUME NEW i \in DOMAIN alicuotas
         PROVE  Justo(alicuotas[i].BaseImp) /\ Justo(alicuotas[i].Importe)
                  /\ alicuotas[i].BaseImp \in Int /\ alicuotas[i].Importe \in Int
    <2>1. alicuotas[i] \in Linea
      BY <1>2 DEF LinesOK
    <2> DEFINE b == alicuotas[i].BaseImp  m == alicuotas[i].Importe
    <2>2. b \in Int /\ b % 10 = 0 /\ m \in Int /\ m % 10 = 0
      BY <2>1, AmountsAssumption DEF Linea, Centavos10
    <2> HIDE DEF b, m
    <2>3. Justo(b) /\ Justo(m)
      BY <2>2, Whole DEF Justo
    <2> QED BY <2>2, <2>3 DEF b, m
  <1>10a. alicuotas \in Seq(Renglon)
    <2>1. alicuotas \in Seq(Linea)
      BY <1>2 DEF LinesOK
    <2>2. Linea \subseteq Renglon
      BY AmountsAssumption DEF Linea, Renglon, Centavos10
    <2> QED BY <2>1, <2>2
  <1>10b. \A f \in Fields : imp'[f] \in Int /\ Justo(imp'[f])
    BY <1>9 DEF Justo
  <1>11. Consistente'
    BY <1>1, <1>2, <1>5, <1>6, <1>8 DEF Consistente, ValidarCuadratura
  <1>12. Cuadra'
    BY <1>1, <1>2, <1>10, <1>10a, <1>10b, <1>11, Justos DEF Cuadra
  <1>13. IvaShortfallBounded'
    BY <1>1, <1>2, ShortLines DEF IvaShortfallBounded
  <1> QED BY <1>1, <1>2, <1>9, <1>12, <1>13 DEF AmountInv, NoiseTolerated, MistakesCaught

\* Noise changes no centavo.
LEMMA RuidoHarmless ==
  ASSUME AmountInv, NEW d \in Noises, Ruido(d)
  PROVE  AmountInv'
  <1>1. /\ estado = "totalizado" /\ estado' = estado /\ ~noisy /\ noisy'
        /\ imp' = [f \in Fields |-> imp[f] + d[f]]
        /\ UNCHANGED <<tipo, mistaken>> /\ noisy' \in BOOLEAN
    BY DEF Ruido, Desviar
  <1>2. /\ Cuadra /\ imp \in [Fields -> Int]
        /\ d \in [Amounts -> -4..4] /\ d \in [Amounts -> Int]
        /\ d.BaseImp \in -4..4 /\ d.Importe \in -4..4 /\ \A f \in Fields : d[f] \in -4..4
    <2>1. Cuadra /\ imp \in [Fields -> Int] /\ d \in [Amounts -> -4..4]
      BY <1>1, AmountsAssumption DEF AmountInv
    <2>2. d \in [Amounts -> Int] /\ d.BaseImp \in -4..4 /\ d.Importe \in -4..4
            /\ \A f \in Fields : d[f] \in -4..4
      BY <2>1 DEF Amounts, LineFields
    <2> QED BY <2>1, <2>2
  <1>3. \A f \in Fields : /\ imp'[f] \in Int /\ imp'[f] = imp[f] + d[f] /\ Cerca(imp'[f])
                          /\ toCentavos(imp'[f]) = toCentavos(imp[f])
    <2> SUFFICES ASSUME NEW f \in Fields
                 PROVE  /\ imp'[f] \in Int /\ imp'[f] = imp[f] + d[f] /\ Cerca(imp'[f])
                        /\ toCentavos(imp'[f]) = toCentavos(imp[f])
      OBVIOUS
    <2>1. imp[f] \in Int /\ Justo(imp[f]) /\ d[f] \in -4..4 /\ imp'[f] = imp[f] + d[f]
      BY <1>1, <1>2 DEF Cuadra
    <2>2. imp[f] + d[f] \in Int /\ toCentavos(imp[f] + d[f]) = toCentavos(imp[f])
            /\ Cerca(imp[f] + d[f])
      BY <2>1, ConRuido
    <2> QED BY <2>1, <2>2
  <1>4. /\ alicuotas' \in Seq(Renglon) /\ DOMAIN alicuotas' = DOMAIN alicuotas
        /\ Len(alicuotas') = Len(alicuotas)
        /\ \A i \in DOMAIN alicuotas :
             /\ alicuotas'[i].ID = alicuotas[i].ID
             /\ alicuotas'[i].BaseImp = alicuotas[i].BaseImp + d.BaseImp
             /\ alicuotas'[i].Importe = alicuotas[i].Importe + d.Importe
    <2>1. alicuotas \in Seq(Renglon)
      BY <1>2 DEF Cuadra
    <2> DEFINE these == DOMAIN alicuotas
    <2>2. Desvio(alicuotas', alicuotas, d, these)
      BY DEF Ruido, Desviar, Desvio
    <2> HIDE DEF these
    <2>3. Desviados(alicuotas', alicuotas, d, these)
      BY <1>2, <2>1, <2>2, Desviadas
    <2> QED BY <2>3 DEF these, Desviados
  <1>5. \A i \in DOMAIN alicuotas :
          /\ toCentavos(alicuotas'[i].BaseImp) = toCentavos(alicuotas[i].BaseImp)
          /\ toCentavos(alicuotas'[i].Importe) = toCentavos(alicuotas[i].Importe)
          /\ Cerca(alicuotas'[i].BaseImp) /\ Cerca(alicuotas'[i].Importe)
    <2> SUFFICES ASSUME NEW i \in DOMAIN alicuotas
                 PROVE  /\ toCentavos(alicuotas'[i].BaseImp) = toCentavos(alicuotas[i].BaseImp)
                        /\ toCentavos(alicuotas'[i].Importe) = toCentavos(alicuotas[i].Importe)
                        /\ Cerca(alicuotas'[i].BaseImp) /\ Cerca(alicuotas'[i].Importe)
      OBVIOUS
    <2> DEFINE b == alicuotas[i].BaseImp  m == alicuotas[i].Importe
    <2>1. alicuotas[i] \in Renglon
      BY <1>2 DEF Cuadra
    <2>2. b \in Int /\ m \in Int /\ Justo(b) /\ Justo(m)
      BY <1>1, <1>2, <2>1 DEF Cuadra, Renglon
    <2>3. alicuotas'[i].BaseImp = b + d.BaseImp /\ alicuotas'[i].Importe = m + d.Importe
      BY <1>4
    <2> HIDE DEF b, m
    <2>4. toCentavos(b + d.BaseImp) = toCentavos(b) /\ Cerca(b + d.BaseImp)
      BY <1>2, <2>2, ConRuido
    <2>5. toCentavos(m + d.Importe) = toCentavos(m) /\ Cerca(m + d.Importe)
      BY <1>2, <2>2, ConRuido
    <2> QED BY <2>3, <2>4, <2>5 DEF b, m
  <1>6. /\ SumBase(alicuotas)' = SumBase(alicuotas) /\ SumImporte(alicuotas)' = SumImporte(alicuotas)
        /\ Exacto(alicuotas)' = Exacto(alicuotas)
    <2> DEFINE more == alicuotas'
    <2>1. SumBase(more) = SumBase(alicuotas) /\ SumImporte(more) = SumImporte(alicuotas)
            /\ Exacto(more) = Exacto(alicuotas)
      <3>1. DOMAIN more = DOMAIN alicuotas
        BY <1>4
      <3>2. \A i \in DOMAIN alicuotas :
              /\ more[i].ID = alicuotas[i].ID
              /\ toCentavos(more[i].BaseImp) = toCentavos(alicuotas[i].BaseImp)
              /\ toCentavos(more[i].Importe) = toCentavos(alicuotas[i].Importe)
        BY <1>4, <1>5
      <3> HIDE DEF more
      <3> QED BY <3>1, <3>2, MismasSumas
    <2> QED BY <2>1 DEF SumBase, SumImporte, Exacto
  <1>7. imp' \in [Fields -> Int]
    BY <1>1, <1>3
  <1>8. Consistente' <=> Consistente
    <2>1. UNCHANGED Itemised
      BY <1>1 DEF Itemised
    <2>2. \A f \in {"ImpNeto", "ImpIVA", "ImpTributos", "ImpNoGravado", "ImpExento", "ImpTotal"} :
            toCentavos(imp'[f]) = toCentavos(imp[f])
      BY <1>3 DEF Fields
    <2> QED BY <1>6, <2>1, <2>2 DEF Consistente, ValidarCuadratura
  <1>9. Cuadra'
    BY <1>1, <1>2, <1>3, <1>4, <1>5, <1>8 DEF Cuadra
  <1>10. IvaShortfallBounded'
    <2>1. IvaShortfallBounded
      BY DEF AmountInv
    <2>2. alicuotas' # <<>> => alicuotas # <<>>
      BY <1>2, <1>4 DEF Cuadra
    <2> QED BY <1>1, <1>4, <1>6, <2>1, <2>2 DEF IvaShortfallBounded, Exacto
  <1> QED BY <1>1, <1>7, <1>9, <1>10 DEF AmountInv, NoiseTolerated, MistakesCaught

\* A mistake leaves inconsistent centavos, with noise or without.
LEMMA EquivocarBreaks ==
  ASSUME AmountInv, NEW d \in Mistakes, Equivocar(d)
  PROVE  AmountInv'
  <1> DEFINE n == Len(alicuotas)
             dBase == IF alicuotas = <<>> THEN 0 ELSE d.BaseImp
             dImporte == IF alicuotas = <<>> THEN 0 ELSE d.Importe
  <1>1. /\ estado = "totalizado" /\ estado' = estado /\ ~mistaken /\ mistaken'
        /\ imp' = [f \in Fields |-> imp[f] + d[f]]
        /\ UNCHANGED <<tipo, noisy>> /\ mistaken' \in BOOLEAN
    BY DEF Equivocar, Desviar
  <1>2. /\ Cuadra /\ Consistente /\ imp \in [Fields -> Int] /\ alicuotas \in Seq(Renglon)
        /\ d \in [Amounts -> Int]
        /\ \A f \in Fields : d[f] \in Int /\ d[f] % 10 = 0
        /\ d.BaseImp \in Int /\ d.BaseImp % 10 = 0 /\ d.Importe \in Int /\ d.Importe % 10 = 0
    <2>1. /\ Cuadra /\ Consistente /\ imp \in [Fields -> Int] /\ alicuotas \in Seq(Renglon)
          /\ d \in [Amounts -> Int] /\ \A f \in Amounts : d[f] % 10 = 0
      BY <1>1, AmountsAssumption DEF AmountInv, Cuadra
    <2>2. /\ \A f \in Fields : d[f] \in Int /\ d[f] % 10 = 0
          /\ d.BaseImp \in Int /\ d.BaseImp % 10 = 0 /\ d.Importe \in Int /\ d.Importe % 10 = 0
      BY <2>1 DEF Amounts, LineFields
    <2> QED BY <2>1, <2>2
  <1>3. \A f \in Fields : /\ imp'[f] \in Int /\ Cerca(imp'[f]) /\ (Justo(imp[f]) => Justo(imp'[f]))
                          /\ toCentavos(imp[f]) \in Int /\ toCentavos(d[f]) \in Int
                          /\ toCentavos(imp'[f]) = toCentavos(imp[f]) + toCentavos(d[f])
                          /\ d[f] = fromCentavos(toCentavos(d[f]))
    <2> SUFFICES ASSUME NEW f \in Fields
                 PROVE  /\ imp'[f] \in Int /\ Cerca(imp'[f]) /\ (Justo(imp[f]) => Justo(imp'[f]))
                        /\ toCentavos(imp[f]) \in Int /\ toCentavos(d[f]) \in Int
                        /\ toCentavos(imp'[f]) = toCentavos(imp[f]) + toCentavos(d[f])
                        /\ d[f] = fromCentavos(toCentavos(d[f]))
      OBVIOUS
    <2>1. imp[f] \in Int /\ Cerca(imp[f]) /\ d[f] \in Int /\ d[f] % 10 = 0
            /\ imp'[f] = imp[f] + d[f]
      BY <1>1, <1>2 DEF Cuadra
    <2> DEFINE a == imp[f]  x == d[f]
    <2>2. a \in Int /\ Cerca(a) /\ x \in Int /\ x % 10 = 0 /\ imp'[f] = a + x
      BY <2>1
    <2> HIDE DEF a, x
    <2>3. /\ a + x \in Int /\ Cerca(a + x) /\ (Justo(a) => Justo(a + x))
          /\ toCentavos(a) \in Int /\ toCentavos(x) \in Int
          /\ toCentavos(a + x) = toCentavos(a) + toCentavos(x)
          /\ x = fromCentavos(toCentavos(x))
      BY <2>2, ConError
    <2> QED BY <2>2, <2>3 DEF a, x
  <1>4. imp' \in [Fields -> Int]
    BY <1>1, <1>3
  <1>5. /\ alicuotas' \in Seq(Renglon) /\ DOMAIN alicuotas' = DOMAIN alicuotas
        /\ Len(alicuotas') = n
        /\ \A i \in DOMAIN alicuotas :
             /\ alicuotas'[i].ID = alicuotas[i].ID
             /\ i = n => /\ alicuotas'[i].BaseImp = alicuotas[i].BaseImp + d.BaseImp
                        /\ alicuotas'[i].Importe = alicuotas[i].Importe + d.Importe
             /\ i # n => alicuotas'[i] = alicuotas[i]
    <2> DEFINE these == {n}
    <2> HIDE DEF n
    <2>1. Desvio(alicuotas', alicuotas, d, these)
      BY DEF Equivocar, Desviar, n, these, Desvio
    <2> HIDE DEF these
    <2>2. Desviados(alicuotas', alicuotas, d, these)
      BY <1>2, <2>1, Desviadas
    <2> QED BY <2>2 DEF n, these, Desviados
  <1>6. ASSUME NEW i \in DOMAIN alicuotas
        PROVE  /\ Cerca(alicuotas'[i].BaseImp) /\ Cerca(alicuotas'[i].Importe)
               /\ Justo(alicuotas[i].BaseImp) => Justo(alicuotas'[i].BaseImp)
               /\ Justo(alicuotas[i].Importe) => Justo(alicuotas'[i].Importe)
               /\ i = n => /\ toCentavos(alicuotas'[i].BaseImp)
                               = toCentavos(alicuotas[i].BaseImp) + toCentavos(d.BaseImp)
                          /\ toCentavos(alicuotas'[i].Importe)
                               = toCentavos(alicuotas[i].Importe) + toCentavos(d.Importe)
                          /\ toCentavos(alicuotas[i].BaseImp) \in Int
                          /\ toCentavos(alicuotas[i].Importe) \in Int
    <2> DEFINE b == alicuotas[i].BaseImp  m == alicuotas[i].Importe
    <2>1. alicuotas[i] \in Renglon
      BY <1>2
    <2>2. b \in Int /\ m \in Int /\ Cerca(b) /\ Cerca(m)
      BY <1>2, <2>1 DEF Cuadra, Renglon
    <2>3. i = n => alicuotas'[i].BaseImp = b + d.BaseImp /\ alicuotas'[i].Importe = m + d.Importe
      BY <1>5
    <2>4. i # n => alicuotas'[i].BaseImp = b /\ alicuotas'[i].Importe = m
      BY <1>5
    <2> HIDE DEF b, m, n
    <2>5. /\ toCentavos(b + d.BaseImp) = toCentavos(b) + toCentavos(d.BaseImp)
          /\ Cerca(b + d.BaseImp) /\ (Justo(b) => Justo(b + d.BaseImp)) /\ toCentavos(b) \in Int
      BY <1>2, <2>2, ConError
    <2>6. /\ toCentavos(m + d.Importe) = toCentavos(m) + toCentavos(d.Importe)
          /\ Cerca(m + d.Importe) /\ (Justo(m) => Justo(m + d.Importe)) /\ toCentavos(m) \in Int
      BY <1>2, <2>2, ConError
    <2> QED BY <2>2, <2>3, <2>4, <2>5, <2>6 DEF b, m
  <1>7. /\ dBase \in Int /\ dImporte \in Int /\ dBase % 10 = 0 /\ dImporte % 10 = 0
        /\ toCentavos(dBase) \in Int /\ toCentavos(dImporte) \in Int
        /\ dBase = fromCentavos(toCentavos(dBase)) /\ dImporte = fromCentavos(toCentavos(dImporte))
    <2>1. dBase \in Int /\ dImporte \in Int /\ dBase % 10 = 0 /\ dImporte % 10 = 0
      BY <1>2
    <2> HIDE DEF dBase, dImporte
    <2> QED BY <2>1, Whole
  <1>8. /\ Itemised => SumBase(alicuotas) \in Int /\ SumImporte(alicuotas) \in Int
        /\ Itemised => SumBase(alicuotas)' = SumBase(alicuotas) + toCentavos(dBase)
        /\ Itemised => SumImporte(alicuotas)' = SumImporte(alicuotas) + toCentavos(dImporte)
    <2> DEFINE more == alicuotas'
    <2>1. SumBase(alicuotas)' = SumBase(more) /\ SumImporte(alicuotas)' = SumImporte(more)
      BY DEF SumBase, SumImporte
    <2>2. CASE alicuotas = <<>>
      <3>1. more = <<>> /\ dBase = 0 /\ dImporte = 0
        BY <1>5, <2>2
      <3>2. toCentavos(0) = 0
        BY DEF toCentavos
      <3> HIDE DEF more
      <3> QED BY <2>1, <2>2, <3>1, <3>2, VaciaSuma
    <2>3. CASE alicuotas # <<>>
      <3>1. n \in DOMAIN alicuotas
        BY <1>2, <2>3
      <3>2. dBase = d.BaseImp /\ dImporte = d.Importe
        BY <2>3
      <3> HIDE DEF dBase, dImporte
      <3>3. /\ toCentavos(more[n].BaseImp) = toCentavos(alicuotas[n].BaseImp) + toCentavos(dBase)
            /\ toCentavos(more[n].Importe) = toCentavos(alicuotas[n].Importe) + toCentavos(dImporte)
            /\ toCentavos(alicuotas[n].BaseImp) \in Int /\ toCentavos(alicuotas[n].Importe) \in Int
        BY <1>6, <3>1, <3>2
      <3>4. more \in Seq(Renglon) /\ Len(more) = Len(alicuotas)
              /\ \A i \in DOMAIN alicuotas : i # Len(alicuotas) => more[i] = alicuotas[i]
        BY <1>5
      <3> HIDE DEF more
      <3>5. /\ SumBase(alicuotas) \in Int /\ SumImporte(alicuotas) \in Int
            /\ SumBase(more) = SumBase(alicuotas)
                 + (toCentavos(more[n].BaseImp) - toCentavos(alicuotas[n].BaseImp))
            /\ SumImporte(more) = SumImporte(alicuotas)
                 + (toCentavos(more[n].Importe) - toCentavos(alicuotas[n].Importe))
        BY <1>2, <2>3, <3>4, UltimaLinea
      <3> HIDE DEF n
      <3> QED BY <1>7, <2>1, <3>3, <3>5
    <2> QED BY <2>2, <2>3
  <1> HIDE DEF dBase, dImporte, n
  <1>9. ~Consistente'
    <2> DEFINE i(f) == toCentavos(imp[f])
               e(f) == toCentavos(d[f])
               eBase == toCentavos(dBase)
               eImporte == toCentavos(dImporte)
    <2>1. /\ i("ImpNeto") \in Int /\ i("ImpIVA") \in Int /\ i("ImpTributos") \in Int
          /\ i("ImpNoGravado") \in Int /\ i("ImpExento") \in Int /\ i("ImpTotal") \in Int
          /\ e("ImpNeto") \in Int /\ e("ImpIVA") \in Int /\ e("ImpTributos") \in Int
          /\ e("ImpNoGravado") \in Int /\ e("ImpExento") \in Int /\ e("ImpTotal") \in Int
      BY <1>3 DEF Fields
    <2>2. /\ toCentavos(imp'["ImpNeto"]) = i("ImpNeto") + e("ImpNeto")
          /\ toCentavos(imp'["ImpIVA"]) = i("ImpIVA") + e("ImpIVA")
          /\ toCentavos(imp'["ImpTributos"]) = i("ImpTributos") + e("ImpTributos")
          /\ toCentavos(imp'["ImpNoGravado"]) = i("ImpNoGravado") + e("ImpNoGravado")
          /\ toCentavos(imp'["ImpExento"]) = i("ImpExento") + e("ImpExento")
          /\ toCentavos(imp'["ImpTotal"]) = i("ImpTotal") + e("ImpTotal")
      BY <1>3 DEF Fields
    <2>3. /\ d.ImpNeto = fromCentavos(e("ImpNeto")) /\ d.ImpIVA = fromCentavos(e("ImpIVA"))
          /\ d.ImpTributos = fromCentavos(e("ImpTributos"))
          /\ d.ImpNoGravado = fromCentavos(e("ImpNoGravado"))
          /\ d.ImpExento = fromCentavos(e("ImpExento")) /\ d.ImpTotal = fromCentavos(e("ImpTotal"))
      BY <1>3 DEF Fields
    <2>4. \/ d.ImpTotal # d.ImpNeto + d.ImpIVA + d.ImpTributos + d.ImpNoGravado + d.ImpExento
          \/ Itemised /\ (d.ImpNeto # dBase \/ d.ImpIVA # dImporte)
      BY DEF Equivocar, dBase, dImporte
    <2>5. UNCHANGED Itemised
      BY <1>1 DEF Itemised
    <2>6. /\ i("ImpTotal") = i("ImpNeto") + i("ImpIVA") + i("ImpTributos")
                               + i("ImpNoGravado") + i("ImpExento")
          /\ Itemised => /\ SumBase(alicuotas) = i("ImpNeto")
                         /\ SumImporte(alicuotas) = i("ImpIVA")
      BY <1>2 DEF Consistente, ValidarCuadratura
    <2> HIDE DEF i, e, eBase, eImporte
    <2>7. CASE d.ImpTotal # d.ImpNeto + d.ImpIVA + d.ImpTributos + d.ImpNoGravado + d.ImpExento
      <3>1. e("ImpTotal") # e("ImpNeto") + e("ImpIVA") + e("ImpTributos")
                              + e("ImpNoGravado") + e("ImpExento")
        BY <2>1, <2>3, <2>7 DEF fromCentavos
      <3>2. i("ImpTotal") + e("ImpTotal")
              # i("ImpNeto") + e("ImpNeto") + (i("ImpIVA") + e("ImpIVA"))
                  + (i("ImpTributos") + e("ImpTributos"))
                  + (i("ImpNoGravado") + e("ImpNoGravado")) + (i("ImpExento") + e("ImpExento"))
        <4> DEFINE is == i("ImpNeto") + i("ImpIVA") + i("ImpTributos")
                           + i("ImpNoGravado") + i("ImpExento")
                   es == e("ImpNeto") + e("ImpIVA") + e("ImpTributos")
                           + e("ImpNoGravado") + e("ImpExento")
        <4>1. is \in Int /\ es \in Int
          BY <2>1
        <4>2. i("ImpNeto") + e("ImpNeto") + (i("ImpIVA") + e("ImpIVA"))
                + (i("ImpTributos") + e("ImpTributos"))
                + (i("ImpNoGravado") + e("ImpNoGravado")) + (i("ImpExento") + e("ImpExento"))
              = is + es
          BY <2>1
        <4>3. i("ImpTotal") = is /\ e("ImpTotal") # es
          BY <2>6, <3>1
        <4> HIDE DEF is, es
        <4>4. i("ImpTotal") + e("ImpTotal") # is + es
          <5>1. \A u, v, x, y \in Int : u = x /\ v # y => u + v # x + y
            OBVIOUS
          <5> QED BY <2>1, <4>1, <4>3, <5>1, Zenon
        <4> QED BY <4>2, <4>4, Zenon
      <3>3. ~ValidarCuadratura(imp')
        BY <2>2, <3>2 DEF ValidarCuadratura
      <3> QED BY <3>3 DEF Consistente
    <2>8. CASE Itemised /\ (d.ImpNeto # dBase \/ d.ImpIVA # dImporte)
      <3>1. e("ImpNeto") # eBase \/ e("ImpIVA") # eImporte
        BY <1>7, <2>3, <2>8 DEF eBase, eImporte
      <3>2. eBase \in Int /\ eImporte \in Int /\ SumBase(alicuotas) \in Int
              /\ SumImporte(alicuotas) \in Int
        BY <1>7, <1>8, <2>8 DEF eBase, eImporte
      <3>3. Itemised' /\ SumBase(alicuotas)' = SumBase(alicuotas) + eBase
              /\ SumImporte(alicuotas)' = SumImporte(alicuotas) + eImporte
        BY <1>8, <2>5, <2>8 DEF eBase, eImporte
      <3>4. \/ SumBase(alicuotas) + eBase # i("ImpNeto") + e("ImpNeto")
            \/ SumImporte(alicuotas) + eImporte # i("ImpIVA") + e("ImpIVA")
        <4>1. \A u, v, x, y \in Int : u = x /\ y # v => u + v # x + y
          OBVIOUS
        <4>2. SumBase(alicuotas) = i("ImpNeto") /\ SumImporte(alicuotas) = i("ImpIVA")
          BY <2>6, <2>8
        <4> QED BY <2>1, <3>1, <3>2, <4>1, <4>2, Zenon
      <3>5. \/ SumBase(alicuotas)' # toCentavos(imp'.ImpNeto)
            \/ SumImporte(alicuotas)' # toCentavos(imp'.ImpIVA)
        BY <2>2, <3>3, <3>4
      <3> QED BY <3>3, <3>5 DEF Consistente
    <2> QED BY <2>4, <2>7, <2>8
  <1>10. Cuadra'
    BY <1>1, <1>2, <1>3, <1>5, <1>6, <1>9 DEF Cuadra
  <1> QED BY <1>1, <1>4, <1>10 DEF AmountInv, NoiseTolerated, MistakesCaught, IvaShortfallBounded

\* Validar accepts consistent amounts and no others.
LEMMA ValidarDecides ==
  ASSUME AmountInv, Validar
  PROVE  AmountInv'
  <1>1. /\ estado = "totalizado" /\ UNCHANGED <<tipo, alicuotas, imp, noisy, mistaken>>
        /\ estado' = IF /\ ValidarCuadratura(imp)
                        /\ Itemised => ValidarAlicuotasIVA(alicuotas, imp.ImpNeto, imp.ImpIVA)
                     THEN "valido" ELSE "invalido"
    BY DEF Validar
  <1>2. ValidarAlicuotasIVA(alicuotas, imp.ImpNeto, imp.ImpIVA)
          <=> /\ SumBase(alicuotas) = toCentavos(imp.ImpNeto)
              /\ SumImporte(alicuotas) = toCentavos(imp.ImpIVA)
    <2>1. alicuotas = <<>> => SumImporte(alicuotas) = 0
      BY VaciaSuma
    <2> QED BY <2>1 DEF ValidarAlicuotasIVA
  <1>3. estado' = IF Consistente THEN "valido" ELSE "invalido"
    BY <1>1, <1>2 DEF Consistente
  <1>4. mistaken <=> ~Consistente
    BY <1>1 DEF AmountInv, Cuadra
  <1> QED BY <1>1, <1>3, <1>4
          DEF AmountInv, NoiseTolerated, MistakesCaught, IvaShortfallBounded

LEMMA NextAmounts == AmountInv /\ [Next]_vars => AmountInv'
  <1> SUFFICES ASSUME AmountInv, [Next]_vars PROVE AmountInv'
    OBVIOUS
  <1> DEFINE Before == {"nuevo", "fechado", "sinFecha", "clasificado"}
  <1>1. ASSUME UNCHANGED <<alicuotas, imp, noisy, mistaken>>, estado \in Before, estado' \in Before
        PROVE  AmountInv'
    BY <1>1 DEF AmountInv, NoiseTolerated, MistakesCaught, IvaShortfallBounded
  <1>2. CASE Fechar
    BY <1>1, <1>2 DEF Fechar
  <1>3. CASE RevisarPeriodo
    BY <1>1, <1>3 DEF RevisarPeriodo
  <1>4. ASSUME NEW t, Clasificar(t) PROVE AmountInv'
    BY <1>1, <1>4 DEF Clasificar
  <1>5. ASSUME NEW base \in Bases, NEW id \in DOMAIN ivaRates, AgregarAlicuota(base, id)
        PROVE  AmountInv'
    <2>1. LinesOK(alicuotas)'
      BY <1>5, OneMoreLine DEF AgregarAlicuota, AmountInv
    <2>2. IvaShortfallBounded'
      BY <2>1, ShortLines DEF LinesOK, IvaShortfallBounded, Exacto
    <2> QED BY <1>5, <2>1, <2>2 DEF AgregarAlicuota, AmountInv, NoiseTolerated, MistakesCaught
  <1>6. ASSUME NEW n \in Bases, NEW g \in Extras, NEW x \in Extras, NEW t \in Extras,
               Totalizar(n, g, x, t)
        PROVE  AmountInv'
    BY <1>6, TotalizarConsistent
  <1>7. ASSUME NEW d \in Noises, Ruido(d) PROVE AmountInv'
    BY <1>7, RuidoHarmless
  <1>8. ASSUME NEW d \in Mistakes, Equivocar(d) PROVE AmountInv'
    BY <1>8, EquivocarBreaks
  <1>9. CASE Validar
    BY <1>9, ValidarDecides
  <1>10. ASSUME NEW n, Nota(n) PROVE AmountInv'
    BY <1>10 DEF Nota, AmountInv, NoiseTolerated, MistakesCaught, IvaShortfallBounded
  <1>11. CASE UNCHANGED vars
    BY <1>11 DEF vars, AmountInv, NoiseTolerated, MistakesCaught, IvaShortfallBounded, Cuadra,
                 Consistente, ValidarCuadratura, Itemised
  <1> QED BY <1>2, <1>3, <1>4, <1>5, <1>6, <1>7, <1>8, <1>9, <1>10, <1>11
          DEF Next, ClasificarPorCondicion, ClasificarEspecial

LEMMA AmountsHold == Spec => []AmountInv
  BY InitAmounts, NextAmounts, PTL DEF Spec

\* Any noise below half a centavo in any of the amounts, and any number of
\* lines on any bases: a comprobante is rejected only for a mistake.
THEOREM NoiseIsTolerated == Spec => []NoiseTolerated
  <1>1. AmountInv => NoiseTolerated
    BY DEF AmountInv
  <1> QED BY <1>1, AmountsHold, PTL

\* Any mistake of whole centavos that the total or the lines can show, under
\* any noise: the comprobante is not accepted, and gets no note.
THEOREM MistakesAreCaught == Spec => []MistakesCaught
  <1>1. AmountInv => MistakesCaught
    BY DEF AmountInv
  <1> QED BY <1>1, AmountsHold, PTL

\* Any number of lines on any bases at any rates: the IVA that CalcularIVA
\* truncates line by line falls short by less than a centavo for each.
THEOREM ShortfallIsBounded == Spec => []IvaShortfallBounded
  <1>1. AmountInv => IvaShortfallBounded
    BY DEF AmountInv
  <1> QED BY <1>1, AmountsHold, PTL

-----------------------------------------------------------------------------
(* Notes *)

\* The types a comprobante can have before its note.
Facturas == {1, 6, 11, 51, 201, 206, 211}

Clasificado ==
  estado \in {"clasificado", "totalizado", "valido"} =>
    tipo \in Facturas /\ docTipo = DeterminarTipoDocumento(tipo, conCuit)

LEMMA InitClasificado == Init => Clasificado
  BY DEF Init, Clasificado

LEMMA NextClasificado == Clasificado /\ [Next]_vars => Clasificado'
  <1> SUFFICES ASSUME Clasificado, [Next]_vars PROVE Clasificado'
    OBVIOUS
  <1>1. ASSUME UNCHANGED <<tipo, docTipo, conCuit>>,
               \/ estado' = estado
               \/ estado' \notin {"clasificado", "totalizado", "valido"}
               \/ estado \in {"clasificado", "totalizado"}
        PROVE  Clasificado'
    BY <1>1 DEF Clasificado, DeterminarTipoDocumento
  <1>2. CASE Fechar
    BY <1>1, <1>2 DEF Fechar
  <1>3. CASE RevisarPeriodo
    BY <1>1, <1>3 DEF RevisarPeriodo
  <1>4. ASSUME NEW t \in Facturas \cup {0}, Clasificar(t) PROVE Clasificado'
    BY <1>4 DEF Clasificar, Clasificado, DeterminarTipoDocumento
  <1>5. CASE ClasificarPorCondicion
    <2>1. \A e, r : DeterminarTipoComprobante(e, r) \in Facturas \cup {0}
      BY DEF DeterminarTipoComprobante, Facturas, Cbte
    <2> QED BY <1>4, <1>5, <2>1 DEF ClasificarPorCondicion
  <1>6. CASE ClasificarEspecial
    <2>1. {Cbte.FCEFacturaA, Cbte.FCEFacturaB, Cbte.FCEFacturaC, Cbte.FacturaM} \subseteq Facturas
      BY DEF Facturas, Cbte
    <2> QED BY <1>4, <1>6, <2>1 DEF ClasificarEspecial
  <1>7. ASSUME NEW base, NEW id, AgregarAlicuota(base, id) PROVE Clasificado'
    BY <1>1, <1>7 DEF AgregarAlicuota
  <1>8. ASSUME NEW n, NEW g, NEW x, NEW t, Totalizar(n, g, x, t) PROVE Clasificado'
    BY <1>1, <1>8 DEF Totalizar
  <1>9. ASSUME NEW d, Ruido(d) \/ Equivocar(d) PROVE Clasificado'
    BY <1>1, <1>9 DEF Ruido, Equivocar
  <1>10. CASE Validar
    BY <1>1, <1>10 DEF Validar
  <1>11. ASSUME NEW n, Nota(n) PROVE Clasificado'
    BY <1>11 DEF Nota, Clasificado
  <1>12. CASE UNCHANGED vars
    BY <1>1, <1>12 DEF vars
  <1> QED BY <1>2, <1>3, <1>5, <1>6, <1>7, <1>8, <1>9, <1>10, <1>11, <1>12 DEF Next

\* The tables agree with one another: the note of an invoice has its letter and
\* its regime, and asks for the same document.
LEMMA NotasConcuerdan ==
  ASSUME NEW t \in Facturas, NEW n \in {NotaCreditoPara(t), DeterminarTipoND(t)}, n # 0, NEW cuit
  PROVE  /\ CbteLetra(n) = CbteLetra(t)
         /\ n >= 200 <=> t >= 200
         /\ DeterminarTipoDocumento(n, cuit) = DeterminarTipoDocumento(t, cuit)
  <1>1. <<t, n>> \in {<<1, 3>>, <<1, 2>>, <<6, 8>>, <<6, 7>>, <<11, 13>>, <<11, 12>>,
                      <<51, 53>>, <<51, 52>>, <<201, 203>>, <<206, 208>>}
    BY DEF Facturas, NotaCreditoPara, DeterminarTipoND, Cbte
  <1>2. \E l \in DOMAIN Letras : n \in Letras[l] /\ t \in Letras[l]
    BY <1>1 DEF Letras, Cbte
  <1>3. \A l, m \in DOMAIN Letras : l # m => Letras[l] \cap Letras[m] = {}
    BY DEF Letras, Cbte
  <1>4. CbteLetra(n) = CbteLetra(t)
    BY <1>2, <1>3 DEF CbteLetra
  <1>5. n >= 200 <=> t >= 200
    BY <1>1
  <1>6. n \in {Cbte.FacturaA, Cbte.NotaCreditoA, Cbte.NotaDebitoA}
          <=> t \in {Cbte.FacturaA, Cbte.NotaCreditoA, Cbte.NotaDebitoA}
    BY <1>1 DEF Cbte
  <1> QED BY <1>4, <1>5, <1>6 DEF DeterminarTipoDocumento

\* The letter and the regime of every code that matters here.
LEMMA Letra ==
  /\ \A t \in {1, 2, 3, 201, 202, 203} : CbteLetra(t) = "A"
  /\ \A t \in {6, 7, 8, 206, 208} : CbteLetra(t) = "B"
  /\ \A t \in {11, 12, 13, 211} : CbteLetra(t) = "C"
  /\ \A t \in {51, 52, 53} : CbteLetra(t) = "M"
  <1>1. \A l, m \in DOMAIN Letras : l # m => Letras[l] \cap Letras[m] = {}
    BY DEF Letras, Cbte
  <1>2. \A l \in DOMAIN Letras : \A t \in Letras[l] : CbteLetra(t) = l
    BY <1>1 DEF CbteLetra
  <1>3. {"A", "B", "C", "M"} \subseteq DOMAIN Letras
    BY DEF Letras
  <1>4. /\ {1, 2, 3, 201, 202, 203} \subseteq Letras["A"] /\ {6, 7, 8, 206, 208} \subseteq Letras["B"]
        /\ {11, 12, 13, 211} \subseteq Letras["C"] /\ {51, 52, 53} \subseteq Letras["M"]
    BY DEF Letras, Cbte
  <1> QED BY <1>2, <1>3, <1>4

\* Every invoice that the package has a credit note for gets it.
LEMMA NotasCompletas ==
  ASSUME NEW t \in Facturas
  PROVE  {NotaCreditoPara(t)} \ {0} = NotasDe(t, NotasDeCredito)
  <1>1. NotasDeCredito = {3, 8, 13, 53, 203, 208}
    BY DEF NotasDeCredito, Cbte
  <1>2. /\ t = 1 => NotaCreditoPara(t) = 3
        /\ t = 6 => NotaCreditoPara(t) = 8
        /\ t = 11 => NotaCreditoPara(t) = 13
        /\ t = 51 => NotaCreditoPara(t) = 53
        /\ t = 201 => NotaCreditoPara(t) = 203
        /\ t = 206 => NotaCreditoPara(t) = 208
        /\ t = 211 => NotaCreditoPara(t) = 0
    BY DEF NotaCreditoPara, Cbte
  <1>3. \A n \in {3, 8, 13, 53, 203, 208} :
          CbteLetra(n) = CbteLetra(t) /\ (n >= 200 <=> t >= 200) <=> n = NotaCreditoPara(t)
    BY <1>2, Letra DEF Facturas
  <1>4. NotaCreditoPara(t) \in {0, 3, 8, 13, 53, 203, 208}
    BY <1>2 DEF Facturas
  <1> QED BY <1>1, <1>3, <1>4 DEF NotasDe

\* Every invoice that the package has a debit note for gets it, but an FCE
\* Factura A.
LEMMA NotasDeDebitoCompletas ==
  ASSUME NEW t \in Facturas
  PROVE  /\ t # 201 => {DeterminarTipoND(t)} \ {0} = NotasDe(t, NotasDeDebito)
         /\ t = 201 => DeterminarTipoND(t) = 0 /\ 202 \in NotasDe(t, NotasDeDebito)
  <1>1. NotasDeDebito = {2, 7, 12, 52, 202}
    BY DEF NotasDeDebito, Cbte
  <1>2. /\ t = 1 => DeterminarTipoND(t) = 2
        /\ t = 6 => DeterminarTipoND(t) = 7
        /\ t = 11 => DeterminarTipoND(t) = 12
        /\ t = 51 => DeterminarTipoND(t) = 52
        /\ t \in {201, 206, 211} => DeterminarTipoND(t) = 0
    BY DEF DeterminarTipoND, Cbte
  <1>3. t # 201 =>
          \A n \in {2, 7, 12, 52, 202} :
            CbteLetra(n) = CbteLetra(t) /\ (n >= 200 <=> t >= 200) <=> n = DeterminarTipoND(t)
    BY <1>2, Letra DEF Facturas
  <1>4. DeterminarTipoND(t) \in {0, 2, 7, 12, 52, 202}
    BY <1>2 DEF Facturas
  <1>5. t = 201 => CbteLetra(202) = CbteLetra(t)
    BY Letra
  <1> QED BY <1>1, <1>2, <1>3, <1>4, <1>5 DEF NotasDe

\* Whatever the history of an invoice, the credit note its letter and regime
\* have a code for is found.
THEOREM CreditNotesAreComplete == Spec => []CreditNotesComplete
  <1>1. Clasificado => CreditNotesComplete
    BY NotasCompletas DEF Clasificado, CreditNotesComplete, DeterminarTipoNC
  <1> QED BY <1>1, InitClasificado, NextClasificado, PTL DEF Spec

\* Whatever the history of an invoice, the debit note its letter and regime
\* have a code for is found, unless it is an FCE Factura A.
THEOREM DebitNotesAreComplete == Spec => []DebitNotesComplete
  <1>1. Clasificado => DebitNotesComplete
    <2> SUFFICES ASSUME Clasificado, estado = "valido"
                 PROVE  /\ tipo # 201 => {DeterminarTipoND(tipo)} \ {0} = NotasDe(tipo, NotasDeDebito)
                        /\ tipo = 201 => DeterminarTipoND(tipo) = 0 /\ 202 \in NotasDe(tipo, NotasDeDebito)
      BY DEF DebitNotesComplete, Cbte
    <2>1. tipo \in Facturas
      BY DEF Clasificado
    <2> QED BY <2>1, NotasDeDebitoCompletas
  <1> QED BY <1>1, InitClasificado, NextClasificado, PTL DEF Spec

\* Whatever the history of an invoice, its note matches it.
THEOREM NotesAreTheInvoices == Spec => NotesMatchInvoices
  <1> DEFINE Match == estado = "valido" /\ estado' = "nota" =>
                        /\ CbteLetra(tipo') = CbteLetra(tipo)
                        /\ tipo' >= 200 <=> tipo >= 200
                        /\ docTipo' = docTipo
  <1>1. Clasificado /\ [Next]_vars => Match
    <2> SUFFICES ASSUME Clasificado, Next, estado = "valido", estado' = "nota" PROVE Match
      BY DEF vars
    <2>1. Nota(DeterminarTipoNC(tipo)) \/ Nota(DeterminarTipoND(tipo))
      BY DEF Next, Fechar, RevisarPeriodo, ClasificarPorCondicion, ClasificarEspecial, Clasificar,
             AgregarAlicuota, Totalizar, Ruido, Equivocar, Validar
    <2>2. PICK n \in {NotaCreditoPara(tipo), DeterminarTipoND(tipo)} : Nota(n)
      BY <2>1 DEF DeterminarTipoNC
    <2>3. /\ n # 0 /\ tipo' = n /\ docTipo' = DeterminarTipoDocumento(n, conCuit)
          /\ tipo \in Facturas /\ docTipo = DeterminarTipoDocumento(tipo, conCuit)
      BY <2>2 DEF Nota, Clasificado
    <2> QED BY <2>3, NotasConcuerdan
  <1>2. Spec => []Clasificado
    BY InitClasificado, NextClasificado, PTL DEF Spec
  <1> QED BY <1>1, <1>2, PTL DEF Spec, NotesMatchInvoices
=============================================================================

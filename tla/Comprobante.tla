----------------------------- MODULE Comprobante -----------------------------
(***************************************************************************)
(* A comprobante put together with package fiscal and the tables of        *)
(* package afipkit: its concept is dated, its type determined, IVA lines   *)
(* are added, the amounts are totalled and validated, and an accepted      *)
(* invoice may be followed by its credit or debit note. Between totalling  *)
(* and validating the amounts may pick up representation noise (they are   *)
(* float64) or a mistake of the program's.                                 *)
(*                                                                         *)
(* An amount is an integer number of thousandths of a peso, so that what   *)
(* toCentavos rounds away is visible.                                      *)
(***************************************************************************)
EXTENDS Integers, Sequences, SequencesExt

CONSTANTS
  Periodos,   \* concepts, and the dates that go with them
  Bases,      \* taxable bases of the lines, whole centavos
  Extras,     \* amounts for the untaxed parts, whole centavos
  MaxLines,   \* bound on the IVA lines
  Noises,     \* noise per amount, less than half a centavo
  Mistakes    \* mistakes per amount, whole centavos

Fields == {"ImpNeto", "ImpIVA", "ImpTributos", "ImpNoGravado", "ImpExento", "ImpTotal"}
LineFields == {"BaseImp", "Importe"}
Amounts == Fields \cup LineFields

ASSUME AmountsAssumption ==
  /\ \A a \in Bases \cup Extras : a \in Nat /\ a % 10 = 0
  /\ \A d \in Noises : d \in [Amounts -> -4..4]
  /\ \A d \in Mistakes : d \in [Amounts -> Int] /\ \A f \in Amounts : d[f] % 10 = 0

VARIABLES
  estado,     \* how far the comprobante has come
  periodo,    \* its concept and dates, until they have been checked
  tipo,       \* its type
  docTipo,    \* the receiver's kind of document
  conCuit,    \* whether the receiver's CUIT is known
  alicuotas,  \* its IVA lines
  imp,        \* its amounts
  noisy, mistaken   \* history: what happened to them since they were totalled

vars == <<estado, periodo, tipo, docTipo, conCuit, alicuotas, imp, noisy, mistaken>>

-----------------------------------------------------------------------------
(* afip.go: the tables *)

Cbte ==
  [FacturaA |-> 1, NotaDebitoA |-> 2, NotaCreditoA |-> 3, ReciboA |-> 4,
   FacturaB |-> 6, NotaDebitoB |-> 7, NotaCreditoB |-> 8, ReciboB |-> 9,
   FacturaC |-> 11, NotaDebitoC |-> 12, NotaCreditoC |-> 13, ReciboC |-> 15,
   FacturaE |-> 19, FacturaM |-> 51, NotaDebitoM |-> 52, NotaCreditoM |-> 53,
   FCEFacturaA |-> 201, FCENotaDebitoA |-> 202, FCENotaCreditoA |-> 203,
   FCEFacturaB |-> 206, FCENotaCreditoB |-> 208, FCEFacturaC |-> 211]

DocCUIT == 80
DocSinIdentificar == 99

\* The codes of each letter; CbteLetra is "" for any other code.
Letras ==
  [A |-> {Cbte.FacturaA, Cbte.NotaDebitoA, Cbte.NotaCreditoA, Cbte.ReciboA,
          Cbte.FCEFacturaA, Cbte.FCENotaDebitoA, Cbte.FCENotaCreditoA},
   B |-> {Cbte.FacturaB, Cbte.NotaDebitoB, Cbte.NotaCreditoB, Cbte.ReciboB,
          Cbte.FCEFacturaB, Cbte.FCENotaCreditoB},
   C |-> {Cbte.FacturaC, Cbte.NotaDebitoC, Cbte.NotaCreditoC, Cbte.ReciboC, Cbte.FCEFacturaC},
   E |-> {Cbte.FacturaE},
   M |-> {Cbte.FacturaM, Cbte.NotaDebitoM, Cbte.NotaCreditoM}]
CbteLetra(t) ==
  IF \E l \in DOMAIN Letras : t \in Letras[l]
    THEN CHOOSE l \in DOMAIN Letras : t \in Letras[l] ELSE ""

\* 0 where the map of the code has no such key.
MutNotaCreditoPara(t) ==
  CASE t = Cbte.FacturaA -> Cbte.NotaCreditoA
    [] t \in {Cbte.FacturaB, Cbte.FCEFacturaB} -> Cbte.NotaCreditoB
    [] t = Cbte.FCEFacturaA -> Cbte.FCENotaCreditoA
    [] OTHER -> 0
NotaCreditoPara(t) ==
  CASE t = Cbte.FacturaA -> Cbte.NotaCreditoA
    [] t = Cbte.FacturaB -> Cbte.NotaCreditoB
    [] t = Cbte.FacturaC -> Cbte.NotaCreditoC
    [] t = Cbte.FacturaM -> Cbte.NotaCreditoM
    [] t = Cbte.FCEFacturaA -> Cbte.FCENotaCreditoA
    [] t = Cbte.FCEFacturaB -> Cbte.FCENotaCreditoB
    [] OTHER -> 0

-----------------------------------------------------------------------------
(* fiscal/rules.go; 0 stands for (0, error) *)

CondicionIVA ==
  {"ResponsableInscripto", "Monotributista", "Exento", "ConsumidorFinal", "NoResponsable"}

DeterminarTipoComprobante(emisor, receptor) ==
  CASE emisor = "ResponsableInscripto" /\ receptor = "ResponsableInscripto" -> Cbte.FacturaA
    [] emisor = "ResponsableInscripto" /\ receptor \in CondicionIVA \ {"ResponsableInscripto"} ->
         Cbte.FacturaB
    [] emisor \in {"Monotributista", "Exento"} -> Cbte.FacturaC
    [] OTHER -> 0

DeterminarTipoNC(t) == NotaCreditoPara(t)

MutDeterminarTipoND(t) ==
  CASE t = Cbte.FacturaA -> Cbte.NotaDebitoA
    [] t \in {Cbte.FacturaB, Cbte.FCEFacturaB} -> Cbte.NotaDebitoB
    [] t = Cbte.FacturaM -> Cbte.NotaDebitoM
    [] OTHER -> 0
DeterminarTipoND(t) ==
  CASE t = Cbte.FacturaA -> Cbte.NotaDebitoA
    [] t = Cbte.FacturaB -> Cbte.NotaDebitoB
    [] t = Cbte.FacturaC -> Cbte.NotaDebitoC
    [] t = Cbte.FacturaM -> Cbte.NotaDebitoM
    [] OTHER -> 0

DeterminarTipoDocumento(t, cuit) ==
  IF t \in {Cbte.FacturaA, Cbte.NotaCreditoA, Cbte.NotaDebitoA} \/ cuit
    THEN DocCUIT ELSE DocSinIdentificar

-----------------------------------------------------------------------------
(* fiscal/validation.go *)

\* Go's integer division truncates towards zero.
Quo(a, b) == IF a >= 0 THEN a \div b ELSE -((-a) \div b)

\* math.Round(f * 100): to the nearest centavo, halves away from zero.
MutToCentavosTruncates(a) == Quo(a, 10)
toCentavos(a) == IF a >= 0 THEN (a + 5) \div 10 ELSE -((5 - a) \div 10)
fromCentavos(c) == 10 * c

\* Percentages times 100, by AFIP code.
ivaRates ==
  [id \in {3, 4, 5, 6, 8, 9} |->
     CASE id = 3 -> 0 [] id = 4 -> 1050 [] id = 5 -> 2100 [] id = 6 -> 2700
       [] id = 8 -> 500 [] id = 9 -> 250]

MutCalcularIVARounds(base, id) ==
  fromCentavos(Quo(toCentavos(base) * ivaRates[id] + 5000, 10000))
CalcularIVA(base, id) == fromCentavos(Quo(toCentavos(base) * ivaRates[id], 10000))

Suma(s) == FoldLeft(LAMBDA acc, x : acc + x, 0, s)
SumBase(lines) == Suma([i \in DOMAIN lines |-> toCentavos(lines[i].BaseImp)])
SumImporte(lines) == Suma([i \in DOMAIN lines |-> toCentavos(lines[i].Importe)])

ValidarCuadratura(i) ==
  toCentavos(i.ImpTotal) = toCentavos(i.ImpNeto) + toCentavos(i.ImpIVA)
                             + toCentavos(i.ImpTributos) + toCentavos(i.ImpNoGravado)
                             + toCentavos(i.ImpExento)

MutAlicuotasSoloIVA(lines, neto, iva) == SumImporte(lines) = toCentavos(iva)
ValidarAlicuotasIVA(lines, neto, iva) ==
  /\ lines = <<>> => toCentavos(iva) <= 0
  /\ SumBase(lines) = toCentavos(neto)
  /\ SumImporte(lines) = toCentavos(iva)

ConceptoProductos == 1
ConceptoServicios == 2
ConceptoProductosYServicios == 3

\* A date is a text: eight digits, or empty, or anything else.
Fecha(y, m, d) == [forma |-> "YYYYMMDD", year |-> y, month |-> m, day |-> d]
Texto(forma) == [forma |-> forma, year |-> 0, month |-> 0, day |-> 0]

Bisiesto(y) == y % 4 = 0 /\ (y % 100 # 0 \/ y % 400 = 0)
DiasDelMes(y, m) ==
  IF m = 2 THEN (IF Bisiesto(y) THEN 29 ELSE 28) ELSE IF m \in {4, 6, 9, 11} THEN 30 ELSE 31

Fechas == [forma : {"YYYYMMDD", "vacia", "otra"}, year : 0..9999, month : 0..99, day : 0..99]

ASSUME PeriodosAssumption ==
  Periodos \subseteq [concepto : 1..3, desde : Fechas, hasta : Fechas, vtoPago : Fechas]

\* time.Date normalises a day past the end of its month into the next month.
TimeDate(y, m, d) ==
  IF d <= DiasDelMes(y, m) THEN <<y, m, d>>
  ELSE IF m < 12 THEN <<y, m + 1, d - DiasDelMes(y, m)>> ELSE <<y + 1, 1, d - 31>>

MutFechaSinCalendario(f) ==
  f.forma = "YYYYMMDD" /\ f.month \in 1..12 /\ f.day \in 1..31
ValidarFechaAFIP(f) ==
  /\ f.forma = "YYYYMMDD"
  /\ f.month \in 1..12 /\ f.day \in 1..31
  /\ TimeDate(f.year, f.month, f.day) = <<f.year, f.month, f.day>>

ValidarConcepto(p) ==
  p.concepto \in {ConceptoServicios, ConceptoProductosYServicios} =>
    \A f \in {p.desde, p.hasta, p.vtoPago} : f.forma # "vacia" /\ ValidarFechaAFIP(f)

-----------------------------------------------------------------------------
SinPeriodo == [concepto |-> 0]

Zero == [f \in Fields |-> 0]

Init ==
  /\ estado = "nuevo"
  /\ periodo = SinPeriodo
  /\ tipo = 0
  /\ docTipo = DocSinIdentificar
  /\ conCuit \in BOOLEAN
  /\ alicuotas = <<>>
  /\ imp = Zero
  /\ noisy = FALSE /\ mistaken = FALSE

Fechar ==
  /\ estado = "nuevo" /\ periodo = SinPeriodo
  /\ \E p \in Periodos : periodo' = p
  /\ UNCHANGED <<estado, tipo, docTipo, conCuit, alicuotas, imp, noisy, mistaken>>

RevisarPeriodo ==
  /\ estado = "nuevo" /\ periodo # SinPeriodo
  /\ estado' = IF ValidarConcepto(periodo) THEN "fechado" ELSE "sinFecha"
  /\ UNCHANGED <<periodo, tipo, docTipo, conCuit, alicuotas, imp, noisy, mistaken>>

Clasificar(t) ==
  /\ estado = "fechado"
  /\ t # 0
  /\ estado' = "clasificado"
  /\ periodo' = SinPeriodo
  /\ tipo' = t
  /\ docTipo' = DeterminarTipoDocumento(t, conCuit)
  /\ UNCHANGED <<conCuit, alicuotas, imp, noisy, mistaken>>

\* The type follows from the parties' conditions, or is one the library has a
\* code for but does not determine (FCE and M).
ClasificarPorCondicion ==
  \E e, r \in CondicionIVA \cup {"Desconocida"} : Clasificar(DeterminarTipoComprobante(e, r))
ClasificarEspecial ==
  \E t \in {Cbte.FCEFacturaA, Cbte.FCEFacturaB, Cbte.FCEFacturaC, Cbte.FacturaM} : Clasificar(t)

\* Letter C does not itemise IVA.
Itemised == CbteLetra(tipo) # "C"

AgregarAlicuota(base, id) ==
  /\ estado = "clasificado" /\ Itemised
  /\ Len(alicuotas) < MaxLines
  /\ alicuotas' = Append(alicuotas, [ID |-> id, BaseImp |-> base, Importe |-> CalcularIVA(base, id)])
  /\ UNCHANGED <<periodo, estado, tipo, docTipo, conCuit, imp, noisy, mistaken>>

\* The program adds its lines up, or for letter C names the net amount, and
\* puts the parts together.
Totalizar(netoC, noGravado, exento, tributos) ==
  LET neto == IF Itemised THEN Suma([i \in DOMAIN alicuotas |-> alicuotas[i].BaseImp]) ELSE netoC
      iva  == Suma([i \in DOMAIN alicuotas |-> alicuotas[i].Importe])
  IN
  /\ estado = "clasificado"
  /\ estado' = "totalizado"
  /\ imp' = [ImpNeto |-> neto, ImpIVA |-> iva, ImpNoGravado |-> noGravado,
             ImpExento |-> exento, ImpTributos |-> tributos,
             ImpTotal |-> neto + iva + noGravado + exento + tributos]
  /\ UNCHANGED <<periodo, tipo, docTipo, conCuit, alicuotas, noisy, mistaken>>

Desviada(line, d) == [line EXCEPT !.BaseImp = @ + d.BaseImp, !.Importe = @ + d.Importe]

\* The amounts are off by d, those of the given lines included.
Desviar(d, these) ==
  /\ imp' = [f \in Fields |-> imp[f] + d[f]]
  /\ alicuotas' = [i \in DOMAIN alicuotas |->
                     IF i \in these THEN Desviada(alicuotas[i], d) ELSE alicuotas[i]]

\* Every line picks up noise, as every amount does.
Ruido(d) ==
  /\ estado = "totalizado" /\ ~noisy
  /\ Desviar(d, DOMAIN alicuotas)
  /\ noisy' = TRUE
  /\ UNCHANGED <<periodo, estado, tipo, docTipo, conCuit, mistaken>>

\* A mistake that matters, in the amounts or in the last line: it breaks the
\* total, or the lines no longer explain the taxed base and the IVA.
Equivocar(d) ==
  LET enLinea(part) == IF alicuotas = <<>> THEN 0 ELSE d[part]
  IN
  /\ estado = "totalizado" /\ ~mistaken
  /\ \/ d.ImpTotal # d.ImpNeto + d.ImpIVA + d.ImpTributos + d.ImpNoGravado + d.ImpExento
     \/ Itemised /\ (d.ImpNeto # enLinea("BaseImp") \/ d.ImpIVA # enLinea("Importe"))
  /\ Desviar(d, {Len(alicuotas)})
  /\ mistaken' = TRUE
  /\ UNCHANGED <<periodo, estado, tipo, docTipo, conCuit, noisy>>

Validar ==
  /\ estado = "totalizado"
  /\ estado' = IF /\ ValidarCuadratura(imp)
                  /\ Itemised => ValidarAlicuotasIVA(alicuotas, imp.ImpNeto, imp.ImpIVA)
                 THEN "valido" ELSE "invalido"
  /\ UNCHANGED <<periodo, tipo, docTipo, conCuit, alicuotas, imp, noisy, mistaken>>

\* A note for an accepted invoice, where the tables have one.
Nota(n) ==
  /\ estado = "valido"
  /\ n # 0
  /\ estado' = "nota"
  /\ tipo' = n
  /\ docTipo' = DeterminarTipoDocumento(n, conCuit)
  /\ UNCHANGED <<periodo, conCuit, alicuotas, imp, noisy, mistaken>>

Next ==
  \/ Fechar
  \/ RevisarPeriodo
  \/ ClasificarPorCondicion
  \/ ClasificarEspecial
  \/ \E base \in Bases, id \in DOMAIN ivaRates : AgregarAlicuota(base, id)
  \/ \E netoC \in Bases, noGravado, exento, tributos \in Extras :
       Totalizar(netoC, noGravado, exento, tributos)
  \/ \E d \in Noises : Ruido(d)
  \/ \E d \in Mistakes : Equivocar(d)
  \/ Validar
  \/ Nota(DeterminarTipoNC(tipo))
  \/ Nota(DeterminarTipoND(tipo))

Spec == Init /\ [][Next]_vars

-----------------------------------------------------------------------------
(* Properties *)

\* The number of a day, counted from the first day of year 1.
DayNumber(y, m, d) ==
  365 * (y - 1) + (y - 1) \div 4 - (y - 1) \div 100 + (y - 1) \div 400
    + (367 * m - 362) \div 12
    + (IF m <= 2 THEN 0 ELSE IF Bisiesto(y) THEN -1 ELSE -2) + d

\* A comprobante for services gets past ValidarConcepto exactly when each of its
\* three dates is a day of the calendar: the day comes before the first of the
\* month that follows.  One for products needs no dates.
DatesAreDays ==
  LET IsDay(f) ==
        /\ f.forma = "YYYYMMDD" /\ f.month \in 1..12 /\ f.day >= 1
        /\ DayNumber(f.year, f.month, f.day) <
             IF f.month = 12 THEN DayNumber(f.year + 1, 1, 1)
                             ELSE DayNumber(f.year, f.month + 1, 1)
      dated == periodo.concepto = ConceptoProductos
                 \/ (IsDay(periodo.desde) /\ IsDay(periodo.hasta) /\ IsDay(periodo.vtoPago))
  IN  /\ estado = "fechado" => dated
      /\ estado = "sinFecha" => ~dated

\* Noise below half a centavo, in any of the amounts at once, never has a
\* consistent comprobante rejected.
NoiseTolerated == estado = "invalido" => mistaken

\* A comprobante whose parts do not add up to the total, or whose lines do not
\* explain its net amount and its IVA, is never accepted, whatever the noise.
MistakesCaught == estado \in {"valido", "nota"} => ~mistaken

\* The IVA of a comprobante falls short of the exact tax on its bases by less
\* than one centavo per line, and never exceeds it.  "Returns the amount rounded
\* to 2 decimals" (fiscal/validation.go:94) says otherwise: rounding would exceed
\* it wherever the tax ends above half a centavo.
IvaShortfallBounded ==
  LET exact == Suma([i \in DOMAIN alicuotas |->
                       toCentavos(alicuotas[i].BaseImp) * ivaRates[alicuotas[i].ID]])
      short == exact - 10000 * SumImporte(alicuotas)
  IN  ~mistaken => short >= 0 /\ (alicuotas # <<>> => short < 10000 * Len(alicuotas))

\* The codes of the tables, by what they are for.
NotasDeCredito == {Cbte.NotaCreditoA, Cbte.NotaCreditoB, Cbte.NotaCreditoC, Cbte.NotaCreditoM,
                   Cbte.FCENotaCreditoA, Cbte.FCENotaCreditoB}
NotasDeDebito == {Cbte.NotaDebitoA, Cbte.NotaDebitoB, Cbte.NotaDebitoC, Cbte.NotaDebitoM,
                  Cbte.FCENotaDebitoA}

\* Those of an invoice have its letter and its regime.
NotasDe(t, notas) == {n \in notas : CbteLetra(n) = CbteLetra(t) /\ (n >= 200 <=> t >= 200)}

\* No accepted invoice is left without the credit note its letter and regime
\* have a code for: DeterminarTipoNC finds that code, and fails only where the
\* package has none.
CreditNotesComplete ==
  estado = "valido" => {DeterminarTipoNC(tipo)} \ {0} = NotasDe(tipo, NotasDeCredito)

\* DeterminarTipoND finds the debit note of every accepted invoice but one: it
\* fails for an FCE Factura A, which the package does have a code for, although
\* "DeterminarTipoND returns the nota de debito type for the given factura type"
\* (fiscal/rules.go:46).
DebitNotesComplete ==
  estado = "valido" =>
    /\ tipo # Cbte.FCEFacturaA => {DeterminarTipoND(tipo)} \ {0} = NotasDe(tipo, NotasDeDebito)
    /\ tipo = Cbte.FCEFacturaA =>
         DeterminarTipoND(tipo) = 0 /\ Cbte.FCENotaDebitoA \in NotasDe(tipo, NotasDeDebito)

\* A note has the letter of the invoice it corrects, stays in the FCE regime or
\* out of it, and in the ordinary regime a receiver of letter A is identified
\* by CUIT in the note as in the invoice.
NotesMatchInvoices ==
  [][estado = "valido" /\ estado' = "nota" =>
       /\ CbteLetra(tipo') = CbteLetra(tipo)
       /\ tipo' >= 200 <=> tipo >= 200
       /\ docTipo' = docTipo]_vars
=============================================================================

-------------------------- MODULE CaeOwnershipProofs --------------------------
(***************************************************************************)
(* Proofs about CaeEmission when a series has one emitter.  Every CAE a    *)
(* call returns is its own invoice's, recovered after error 10016 or not:  *)
(* from the answer to UltimoAutorizado to the end of the emission, only    *)
(* the emitter's current request can still be registered in its series, so *)
(* what AFIP holds under its number is its own.  And if AFIP takes lotes   *)
(* whole and no consultation fails for good, the emission implements       *)
(* CaeRegister: what AFIP holds under its number is then the whole         *)
(* request, and a program gives up no request that AFIP holds.             *)
(***************************************************************************)
EXTENDS CaeEmissionProofs, FiniteSetTheorems

\* All the invoices of a series have one emitter.
Exclusive ==
  \A i, j \in Invoices : SeriesOf(i) = SeriesOf(j) => EmitterOf(i) = EmitterOf(j)

Held(e) ==
  /\ solicitud[e].nro # 0
  /\ Nro(e) \in DOMAIN registry[Serie(e)]
  /\ registry[Serie(e)][Nro(e)] = solicitud[e].lote[1]

\* A success is the request's own.
Own(e, r) == r.kind = "ok" => r.cae = CAE(Serie(e), Nro(e)) /\ Held(e)

\* A late request can no longer be registered, unless it is its emitter's
\* current one.
LateDead ==
  \A m \in late :
    \/ m.lote[1] \in Invalid
    \/ m.nro \in DOMAIN registry[SerieOf(m)]
    \/ solicitud[EmitterOf(m.lote[1])] = m /\ pc[EmitterOf(m.lote[1])] # "idle"

NumberIsOwn ==
  \A e \in Emitters : solicitud[e].nro # 0 /\ Nro(e) \in DOMAIN registry[Serie(e)] => Held(e)

\* The last number AFIP has answered is still the last one.
LastIsCurrent ==
  \A e \in Emitters : pc[e] = "ultimo" /\ answer[e] # NoAnswer /\ answer[e].errors = <<>> =>
    answer[e].nro = Ultimo(Serie(e))

AnswerIsOwn ==
  \A e \in Emitters : answer[e] # NoAnswer =>
    /\ pc[e] = "solicitar" => Own(e, SolicitarResult(answer[e]))
    /\ pc[e] = "consultar" => Own(e, ConsultaResult(answer[e]))

ResultIsOwn ==
  \A e \in Emitters : ret[e].kind = "ok" => pc[e] \in {"idle", "decide"} /\ Own(e, ret[e])

\* Whoever consults after 10016, or has failed for good so, asked for a number
\* that is taken.
Taken(e) == solicitud[e].nro # 0 /\ Nro(e) \in DOMAIN registry[Serie(e)]
TakenOf(e) ==
  /\ pc[e] = "solicitar" /\ answer[e] # NoAnswer /\ AlreadyRegistered(SolicitarResult(answer[e]))
       => Taken(e)
  /\ pc[e] = "consultar" => Taken(e)
  /\ Permanent(ret[e]) /\ ret[e].reproceso = TRUE => Taken(e)
TakenInv == \A e \in Emitters : TakenOf(e)

OwnInv == LateDead /\ NumberIsOwn /\ LastIsCurrent /\ AnswerIsOwn /\ ResultIsOwn

LEMMA InitOwn == Init => OwnInv
  BY DEF Init, OwnInv, LateDead, NumberIsOwn, LastIsCurrent, AnswerIsOwn, ResultIsOwn,
         NotCalled, Failed

\* Two requests of one series are of one emitter.
LEMMA SeriesEmitter ==
  ASSUME Exclusive, NEW m \in Requests, NEW n \in Requests, SerieOf(m) = SerieOf(n)
  PROVE  EmitterOf(m.lote[1]) = EmitterOf(n.lote[1])
  <1>1. /\ m.lote \in Seq(Invoices) /\ m.lote # <<>> /\ n.lote \in Seq(Invoices) /\ n.lote # <<>>
    BY InvoicesAssumption DEF Requests
  <1>2. m.lote[1] \in Invoices /\ n.lote[1] \in Invoices
    BY <1>1
  <1> QED BY <1>2 DEF Exclusive, SerieOf

LEMMA Domains ==
  ASSUME TypeInv, NEW s \in Series
  PROVE  DOMAIN registry[s] = 1..Ultimo(s) /\ Ultimo(s) \in 0..MaxNro
  BY InvoicesAssumption DEF TypeInv, RegistryType, Ultimo

-----------------------------------------------------------------------------
(* The numbers that are taken *)

LEMMA InitTaken == Init => TakenInv
  BY FailedType DEF Init, TakenInv, TakenOf

LEMMA Grows ==
  ASSUME TypeInv, [Next]_vars
  PROVE  \A s \in Series : \A n \in DOMAIN registry[s] : n \in DOMAIN registry'[s]
  <1>1. ASSUME NEW m \in Requests, Acceptable(m), Register(m)
        PROVE  \A s \in Series : \A n \in DOMAIN registry[s] : n \in DOMAIN registry'[s]
    BY <1>1, Registers DEF TypeInv
  <1>2. ASSUME NEW e \in Emitters, Client(e) PROVE UNCHANGED registry
    BY <1>2 DEF Client, CallUltimoAutorizado, Decide, UltimoOk, UltimoFails,
                SolicitarTransportFails, SolicitarReturns, Reproceso, ConsultarReturns,
                ConsultarTransportFails, Return
  <1>3. ASSUME NEW e \in Emitters, Afip(e)
        PROVE  UNCHANGED registry \/ \E m \in Requests : Acceptable(m) /\ Register(m)
    <2>1. CASE Authorize(e)
      <3>1. pc[e] = "solicitar" /\ Acceptable(solicitud[e]) /\ Register(solicitud[e])
        BY <2>1 DEF Authorize
      <3> QED BY <3>1, NumberedRequest DEF TypeInv, Local
    <2> QED BY <1>3, <2>1 DEF Afip, AnswerUltimo, GlitchUltimo, AnswerTaken, RejectSaying,
                    RejectSilently, Reject, Glitch, AnswerConsulta, GlitchConsulta
  <1>4. ASSUME NEW m \in late, DeliverLate(m)
        PROVE  UNCHANGED registry \/ (Acceptable(m) /\ Register(m) /\ m \in Requests)
    BY <1>4 DEF DeliverLate, TypeInv
  <1> QED BY <1>1, <1>2, <1>3, <1>4 DEF Next, vars

\* Of the answers to an emission, 10016 is given for a taken number only.
LEMMA AnswersTaken ==
  ASSUME TypeInv, NEW e \in Emitters, Afip(e), pc[e] = "solicitar",
         AlreadyRegistered(SolicitarResult(answer'[e]))
  PROVE  Taken(e)
  <1> DEFINE m == solicitud[e]
  <1>1. m \in Requests /\ m.nro # 0 /\ e \in DOMAIN answer
    BY NumberedRequest DEF TypeInv, Local
  <1>2. ASSUME NEW a, Answer(e, a) PROVE answer'[e] = a
    BY <1>1, <1>2 DEF Answer
  <1>3. ASSUME NEW c \in Codes, c # <<>>, ~IsAlreadyRegistered(c), Answer(e, HeaderErrors(c))
        PROVE  FALSE
    BY <1>2, <1>3, HeaderResult, FailedType
  <1>4. ASSUME NEW n \in Nat, NEW c \in Codes, c = <<>> \/ ~IsAlreadyRegistered(c),
               NEW b \in BOOLEAN, Answer(e, FECAEResponse(<<>>, Answered(m, n, c), b))
        PROVE  FALSE
    <2> DEFINE r == SolicitarResult(FECAEResponse(<<>>, Answered(m, n, c), b))
    <2>1. \/ r = Ok(CAE(SerieOf(m), m.nro), b)
          \/ r = Failed(PlainError)
          \/ r = Failed(AFIPError(c)) /\ ~IsAlreadyRegistered(c)
      <3> HIDE DEF m
      <3> QED BY <1>1, <1>4, DetailResult
    <2>2. ~AlreadyRegistered(r)
      <3> HIDE DEF r
      <3>1. /\ ~AlreadyRegistered(Ok(CAE(SerieOf(m), m.nro), b))
            /\ ~AlreadyRegistered(Failed(PlainError))
        BY DEF AlreadyRegistered, IsAFIPError, Ok, Failed, PlainError
      <3> QED BY <2>1, <3>1, FailedType
    <2> QED BY <1>2, <1>4, <2>2
  <1>5. CASE Authorize(e)
    <2>1. /\ Acceptable(m) /\ Answer(e, FECAEResponse(<<>>, Answered(m, Accepted(m), <<>>), FALSE))
      BY <1>5 DEF Authorize
    <2>2. Accepted(m) \in Nat
      <3>1. Accepted(m) \in DOMAIN m.lote /\ m.lote \in Seq(Invoices)
        BY <1>1, <2>1, AcceptedPrefix, LoteUniform
      <3> QED BY <3>1
    <2> QED BY <1>4, <2>1, <2>2, CodeLists
  <1>6. CASE AnswerTaken(e)
    <2>1. m.nro <= Ultimo(Serie(e))
      BY <1>6 DEF AnswerTaken
    <2>2. Serie(e) \in Series /\ m.nro \in Nat
      BY <1>1, InvoicesAssumption DEF Requests, Serie, SerieOf
    <2> QED BY <1>1, <2>1, <2>2, Domains DEF Taken, Nro
  <1>7. ASSUME NEW obs \in RejectedCodes \cup {<<>>}, Reject(e, obs) PROVE FALSE
    <2>1. obs \in Codes /\ (obs = <<>> \/ ~IsAlreadyRegistered(obs))
      BY CodeLists, CodesAssumption DEF IsAlreadyRegistered, HasCode, Range
    <2> QED BY <1>3, <1>4, <1>7, <2>1 DEF Reject
  <1>8. CASE Glitch(e)
    <2>1. \A c \in GlitchCodes : c \in Codes /\ c # <<>> /\ ~IsAlreadyRegistered(c)
      BY CodeLists, CodesAssumption DEF IsAlreadyRegistered, HasCode, Range
    <2>2. ~AlreadyRegistered(SolicitarResult(EmptyDetails))
      BY DEF SolicitarResult, EmptyDetails, HeaderErrors, FECAEResponse, Failed, PlainError,
             AlreadyRegistered, IsAFIPError
    <2> QED BY <1>2, <1>3, <1>8, <2>1, <2>2 DEF Glitch
  <1> QED BY <1>5, <1>6, <1>7, <1>8 DEF Afip, RejectSaying, RejectSilently, AnswerUltimo,
             GlitchUltimo, AnswerConsulta, GlitchConsulta

LEMMA NextTaken ==
  ASSUME TypeInv, TakenInv, [Next]_vars
  PROVE  TakenInv'
  <1>1. ASSUME NEW f \in Emitters, solicitud'[f] = solicitud[f], Taken(f) PROVE Taken(f)'
    <2>1. Serie(f) \in Series
      BY <1>1, LiveTypes, InvoicesAssumption DEF Taken, Requests, Serie, SerieOf
    <2> QED BY <1>1, <2>1, Grows DEF Taken, Nro, Serie, SerieOf
  <1>2. ASSUME NEW f \in Emitters, pc'[f] = pc[f], answer'[f] = answer[f], ret'[f] = ret[f],
               solicitud'[f] = solicitud[f]
        PROVE  TakenOf(f)'
    BY <1>1, <1>2 DEF TakenInv, TakenOf
  <1>3. ASSUME NEW e \in Emitters, Client(e) PROVE TakenInv'
    <2>1. ASSUME NEW f \in Emitters, f # e PROVE TakenOf(f)'
      <3>1. /\ pc'[f] = pc[f] /\ answer'[f] = answer[f] /\ ret'[f] = ret[f]
            /\ solicitud'[f] = solicitud[f]
        BY <1>3, <2>1 DEF Client, CallUltimoAutorizado, Decide, UltimoOk, UltimoFails,
                SolicitarTransportFails, SolicitarReturns, Reproceso, ConsultarReturns,
                ConsultarTransportFails, Return, Goto, TypeInv
      <3> QED BY <1>2, <3>1
    <2>2. ASSUME \E l \in Lotes : CallUltimoAutorizado(e, l) PROVE TakenOf(e)'
      BY <2>2, FailedType DEF CallUltimoAutorizado, Goto, TypeInv, TakenOf
    <2>3. ASSUME Decide(e) PROVE TakenOf(e)'
      <3>1. /\ solicitud'[e] = solicitud[e] /\ ret'[e] = ret[e] /\ answer'[e] = NoAnswer
            /\ pc'[e] # "consultar"
        BY <2>3 DEF Decide, Goto, TypeInv, Local
      <3> QED BY <1>1, <3>1 DEF TakenInv, TakenOf
    <2>4. ASSUME UltimoOk(e) PROVE TakenOf(e)'
      <3>1. /\ ret'[e] = ret[e] /\ answer'[e] = NoAnswer /\ pc'[e] = "solicitar"
            /\ ~Permanent(ret[e])
        BY <2>4 DEF UltimoOk, Goto, TypeInv, Local, Explained
      <3> QED BY <3>1 DEF TakenOf
    <2>5. ASSUME NEW r, Return(e, r), Permanent(r) /\ r.reproceso = TRUE => Taken(e)
          PROVE  TakenOf(e)'
      <3>1. solicitud'[e] = solicitud[e] /\ ret'[e] = r /\ pc'[e] = "decide"
        BY <2>5 DEF Return, Goto, TypeInv
      <3> QED BY <1>1, <2>5, <3>1 DEF TakenOf
    <2>6. ASSUME UltimoFails(e) \/ SolicitarTransportFails(e) PROVE TakenOf(e)'
      <3>1. PICK r : Return(e, Failed(r))
        BY <2>6 DEF UltimoFails, SolicitarTransportFails
      <3>2. Failed(r).reproceso = FALSE
        BY DEF Failed
      <3> QED BY <2>5, <3>1, <3>2
    <2>7. ASSUME SolicitarReturns(e) PROVE TakenOf(e)'
      <3> DEFINE r == SolicitarResult(answer[e])
      <3>1. ~(Permanent(r) /\ r.reproceso = TRUE)
        BY DEF SolicitarResult, Permanent, IsAFIPError, Ok, Failed
      <3>2. Return(e, r)
        BY <2>7 DEF SolicitarReturns
      <3> HIDE DEF r
      <3> QED BY <2>5, <3>1, <3>2
    <2>8. ASSUME Reproceso(e) PROVE TakenOf(e)'
      <3>1. /\ solicitud'[e] = solicitud[e] /\ ret'[e] = ret[e] /\ pc'[e] = "consultar" /\ Taken(e)
        BY <2>8 DEF Reproceso, Goto, TypeInv, TakenInv, TakenOf
      <3> QED BY <1>1, <3>1 DEF TakenInv, TakenOf
    <2>9. ASSUME ConsultarReturns(e) \/ ConsultarTransportFails(e) PROVE TakenOf(e)'
      <3>1. Taken(e) /\ \E r : Return(e, r)
        BY <2>9 DEF ConsultarReturns, ConsultarTransportFails, TakenInv, TakenOf
      <3> QED BY <2>5, <3>1
    <2>10. TakenOf(e)'
      BY <1>3, <2>2, <2>3, <2>4, <2>6, <2>7, <2>8, <2>9 DEF Client
    <2> QED BY <2>1, <2>10 DEF TakenInv
  <1>4. ASSUME NEW e \in Emitters, Afip(e) PROVE TakenInv'
    <2>1. /\ UNCHANGED <<pc, solicitud, ret>> /\ \A f \in Emitters \ {e} : answer'[f] = answer[f]
      BY <1>4 DEF Afip, AnswerUltimo, GlitchUltimo, Authorize, AnswerTaken, RejectSaying,
                  RejectSilently, Reject, Glitch, AnswerConsulta, GlitchConsulta, Answer, TypeInv
    <2>2. TakenOf(e)'
      BY <1>1, <1>4, <2>1, AnswersTaken DEF TakenInv, TakenOf
    <2> QED BY <1>2, <2>1, <2>2 DEF TakenInv
  <1>5. ASSUME UNCHANGED <<pc, answer, ret, solicitud>> PROVE TakenInv'
    BY <1>2, <1>5 DEF TakenInv
  <1> QED BY <1>3, <1>4, <1>5 DEF Next, DeliverLate, vars

-----------------------------------------------------------------------------
(* What the calls return *)

\* AFIP answers e without registering anything.
LEMMA AnswerOwn ==
  ASSUME TypeInv, OwnInv, NEW e \in Emitters, NEW a, Answer(e, a), UNCHANGED registry,
         pc[e] = "ultimo" /\ a.errors = <<>> => a.nro = Ultimo(Serie(e)),
         pc[e] = "solicitar" => Own(e, SolicitarResult(a)),
         pc[e] = "consultar" => Own(e, ConsultaResult(a))
  PROVE  OwnInv'
  <1>1. /\ UNCHANGED <<registry, late, pc, solicitud, ret>>
        /\ answer'[e] = a /\ \A f \in Emitters \ {e} : answer'[f] = answer[f]
    BY DEF Answer, TypeInv
  <1>2. \A f \in Emitters : /\ Held(f)' = Held(f) /\ Serie(f)' = Serie(f) /\ Nro(f)' = Nro(f)
                            /\ Ultimo(Serie(f))' = Ultimo(Serie(f))
    BY <1>1 DEF Held, Serie, SerieOf, Nro, Ultimo
  <1>3. LateDead' /\ NumberIsOwn' /\ ResultIsOwn'
    BY <1>1, <1>2 DEF OwnInv, LateDead, NumberIsOwn, ResultIsOwn, Own
  <1>4. LastIsCurrent'
    BY <1>1, <1>2 DEF OwnInv, LastIsCurrent
  <1>5. AnswerIsOwn'
    <2> SUFFICES ASSUME NEW f \in Emitters, answer'[f] # NoAnswer
                 PROVE  /\ pc[f] = "solicitar" => Own(f, SolicitarResult(answer'[f]))
                        /\ pc[f] = "consultar" => Own(f, ConsultaResult(answer'[f]))
      BY <1>1, <1>2 DEF AnswerIsOwn, Own
    <2> QED BY <1>1 DEF OwnInv, AnswerIsOwn
  <1> QED BY <1>3, <1>4, <1>5 DEF OwnInv

\* A call of e returns.
LEMMA ReturnOwn ==
  ASSUME TypeInv, OwnInv, NEW e \in Emitters, NEW r, Return(e, r), Own(e, r), pc[e] # "idle",
         late' \subseteq late \cup {solicitud[e]}
  PROVE  OwnInv'
  <1>1. /\ UNCHANGED <<registry, solicitud>>
        /\ pc'[e] = "decide" /\ \A f \in Emitters \ {e} : pc'[f] = pc[f]
        /\ ret'[e] = r /\ \A f \in Emitters \ {e} : ret'[f] = ret[f]
        /\ answer'[e] = NoAnswer /\ \A f \in Emitters \ {e} : answer'[f] = answer[f]
    BY DEF Return, Goto, TypeInv
  <1>2. \A f \in Emitters : /\ Held(f)' = Held(f) /\ Serie(f)' = Serie(f) /\ Nro(f)' = Nro(f)
                            /\ Ultimo(Serie(f))' = Ultimo(Serie(f))
    BY <1>1 DEF Held, Serie, SerieOf, Nro, Ultimo
  <1>3. LateDead'
    <2> SUFFICES ASSUME NEW m \in late'
                 PROVE  \/ m.lote[1] \in Invalid
                        \/ m.nro \in DOMAIN registry[SerieOf(m)]
                        \/ /\ solicitud[EmitterOf(m.lote[1])] = m
                           /\ pc'[EmitterOf(m.lote[1])] # "idle"
      BY <1>1 DEF LateDead, SerieOf
    <2>1. CASE m = solicitud[e]
      BY <1>1, <2>1, NumberedRequest
    <2>2. CASE m \in late
      <3>1. EmitterOf(m.lote[1]) \in Emitters
        BY <2>2, InvoicesAssumption DEF TypeInv, Requests
      <3> QED BY <1>1, <2>2, <3>1 DEF OwnInv, LateDead
    <2> QED BY <2>1, <2>2
  <1>4. NumberIsOwn' /\ LastIsCurrent'
    BY <1>1, <1>2 DEF OwnInv, NumberIsOwn, LastIsCurrent
  <1>5. AnswerIsOwn'
    BY <1>1, <1>2 DEF OwnInv, AnswerIsOwn, Own
  <1>6. ResultIsOwn'
    BY <1>1, <1>2 DEF OwnInv, ResultIsOwn, Own
  <1> QED BY <1>3, <1>4, <1>5, <1>6 DEF OwnInv

\* A request that AFIP registers now holds the number it asked for.
LEMMA RegisterHolds ==
  ASSUME TypeInv, NEW f \in Emitters, solicitud[f].nro # 0,
         Acceptable(solicitud[f]), Register(solicitud[f]), UNCHANGED solicitud
  PROVE  /\ Held(f)'
         /\ \A s \in Series : \A n \in DOMAIN registry[s] :
              n \in DOMAIN registry'[s] /\ registry'[s][n] = registry[s][n]
         /\ \A s \in Series : s # Serie(f) => registry'[s] = registry[s]
  <1> DEFINE m == solicitud[f]
  <1>1. m \in Requests
    BY LiveTypes
  <1> HIDE DEF m
  <1>2. Acceptable(m) /\ Register(m)
    BY DEF m
  <1>3. /\ RegistryType'
        /\ m.nro \in DOMAIN registry'[SerieOf(m)]
        /\ \A s \in Series : \A n \in DOMAIN registry[s] :
             n \in DOMAIN registry'[s] /\ registry'[s][n] = registry[s][n]
        /\ \A s \in Series : \A n \in DOMAIN registry'[s] :
             \/ n \in DOMAIN registry[s]
             \/ registry'[s][n] = m.lote[n - m.nro + 1]
    BY <1>1, <1>2, Registers DEF TypeInv
  <1>4. SerieOf(m) \in Series /\ m.nro \in Nat /\ m.nro = Ultimo(SerieOf(m)) + 1
    BY <1>1, <1>2, InvoicesAssumption DEF Requests, SerieOf, Acceptable
  <1>5. m.nro \notin DOMAIN registry[SerieOf(m)]
    BY <1>4, Domains
  <1>6. registry'[SerieOf(m)][m.nro] = m.lote[1]
    <2>1. m.nro - m.nro + 1 = 1
      BY <1>4
    <2> QED BY <1>3, <1>4, <1>5, <2>1
  <1>7. Held(f)'
    BY <1>3, <1>6 DEF m, Held, Nro, Serie, SerieOf
  <1>8. \A s \in Series : s # Serie(f) => registry'[s] = registry[s]
    BY <1>2 DEF Register, TypeInv, RegistryType, Serie, m
  <1> QED BY <1>3, <1>7, <1>8

\* AFIP registers the current request of f, whose emitter has its series for
\* itself; f may be answered in the same step.
LEMMA RegisterOwn ==
  ASSUME Exclusive, TypeInv, OwnInv, NEW f \in Emitters, pc[f] # "idle", solicitud[f].nro # 0,
         Acceptable(solicitud[f]), Register(solicitud[f]),
         UNCHANGED <<pc, solicitud, ret>>, late' \subseteq late,
         \A e \in Emitters \ {f} : answer'[e] = answer[e],
         \/ answer'[f] = answer[f]
         \/ pc[f] = "solicitar" /\ Own(f, SolicitarResult(answer[f]))'
  PROVE  OwnInv'
  <1>1. /\ Held(f)'
        /\ \A s \in Series : \A n \in DOMAIN registry[s] :
             n \in DOMAIN registry'[s] /\ registry'[s][n] = registry[s][n]
        /\ \A s \in Series : s # Serie(f) => registry'[s] = registry[s]
    BY RegisterHolds
  <1>2. \A e \in Emitters : solicitud[e].lote # <<>> => Serie(e) \in Series
    BY LiveTypes, InvoicesAssumption DEF Serie, SerieOf
  <1>3. \A e \in Emitters : solicitud[e].nro # 0 => solicitud[e].lote # <<>>
    BY DEF TypeInv, Local
  <1>4. \A e \in Emitters : Serie(e)' = Serie(e) /\ Nro(e)' = Nro(e)
    BY DEF Serie, SerieOf, Nro
  <1>5. \A e \in Emitters : Held(e) => Held(e)'
    BY <1>1, <1>2, <1>3, <1>4 DEF Held
  <1>6. ASSUME NEW e \in Emitters, solicitud[e].lote # <<>>, Serie(e) = Serie(f) PROVE e = f
    <2>1. /\ solicitud[e].lote \in Lotes /\ solicitud[f].lote \in Lotes
          /\ EmitterOf(solicitud[e].lote[1]) = e /\ EmitterOf(solicitud[f].lote[1]) = f
      BY <1>3, <1>6, LiveTypes DEF TypeInv, Local
    <2>2. solicitud[e].lote[1] \in Invoices /\ solicitud[f].lote[1] \in Invoices
      BY <2>1, InvoicesAssumption
    <2> QED BY <1>6, <2>1, <2>2 DEF Exclusive, Serie, SerieOf
  <1>7. LateDead'
    <2> SUFFICES ASSUME NEW m \in late'
                 PROVE  \/ m.lote[1] \in Invalid
                        \/ m.nro \in DOMAIN registry'[SerieOf(m)]
                        \/ /\ solicitud[EmitterOf(m.lote[1])] = m
                           /\ pc[EmitterOf(m.lote[1])] # "idle"
      BY DEF LateDead, SerieOf
    <2>1. SerieOf(m) \in Series
      BY InvoicesAssumption DEF TypeInv, Requests, SerieOf
    <2> QED BY <1>1, <2>1 DEF OwnInv, LateDead
  <1>8. NumberIsOwn'
    <2> SUFFICES ASSUME NEW e \in Emitters, solicitud[e].nro # 0, (Nro(e) \in DOMAIN registry[Serie(e)])'
                 PROVE  Held(e)'
      BY DEF NumberIsOwn
    <2>1. CASE e = f
      BY <1>1, <2>1
    <2>2. CASE e # f
      <3>1. Serie(e) # Serie(f) /\ Serie(e) \in Series
        BY <1>2, <1>3, <1>6, <2>2
      <3>2. Nro(e) \in DOMAIN registry[Serie(e)]
        BY <1>1, <1>4, <3>1
      <3> QED BY <1>5, <3>2 DEF OwnInv, NumberIsOwn
    <2> QED BY <2>1, <2>2
  <1>9. LastIsCurrent'
    <2> SUFFICES ASSUME NEW e \in Emitters, pc[e] = "ultimo", answer'[e] # NoAnswer,
                        answer'[e].errors = <<>>
                 PROVE  answer'[e].nro = (Ultimo(Serie(e)))'
      BY DEF LastIsCurrent
    <2>1. e # f
      BY DEF TypeInv, Local
    <2>2. Serie(e) # Serie(f) /\ Serie(e) \in Series
      BY <1>2, <1>6, <2>1, NumberedRequest
    <2>3. Ultimo(Serie(e))' = Ultimo(Serie(e))
      BY <1>1, <1>4, <2>2 DEF Ultimo
    <2> QED BY <2>1, <2>3 DEF OwnInv, LastIsCurrent
  <1>10. \A e \in Emitters : \A r : Own(e, r) => (r.kind = "ok" => r.cae = CAE(Serie(e)', Nro(e)') /\ Held(e)')
    BY <1>4, <1>5 DEF Own
  <1>11. AnswerIsOwn'
    <2> SUFFICES ASSUME NEW e \in Emitters, answer'[e] # NoAnswer
                 PROVE  /\ pc[e] = "solicitar" => Own(e, SolicitarResult(answer[e]))'
                        /\ pc[e] = "consultar" => Own(e, ConsultaResult(answer[e]))'
      BY DEF AnswerIsOwn
    <2>1. CASE answer'[e] = answer[e]
      BY <1>10, <2>1 DEF OwnInv, AnswerIsOwn, Own, SolicitarResult, ConsultaResult
    <2>2. CASE answer'[e] # answer[e]
      BY <2>2
    <2> QED BY <2>1, <2>2
  <1>12. ResultIsOwn'
    BY <1>10 DEF OwnInv, ResultIsOwn, Own
  <1> QED BY <1>7, <1>8, <1>9, <1>11, <1>12 DEF OwnInv

\* A step of e that leaves its request, the registry and the results alone and
\* has no answer left for e.
LEMMA MoveOwn ==
  ASSUME TypeInv, OwnInv, NEW e \in Emitters, UNCHANGED <<registry, late, solicitud, ret>>,
         pc'[e] # "idle", ret[e].kind # "ok", answer'[e] = NoAnswer,
         \A f \in Emitters \ {e} : pc'[f] = pc[f] /\ answer'[f] = answer[f]
  PROVE  OwnInv'
  <1>1. \A f \in Emitters : /\ Held(f)' = Held(f) /\ Serie(f)' = Serie(f) /\ Nro(f)' = Nro(f)
                            /\ Ultimo(Serie(f))' = Ultimo(Serie(f))
    BY DEF Held, Serie, SerieOf, Nro, Ultimo
  <1>2. LateDead'
    <2> SUFFICES ASSUME NEW m \in late
                 PROVE  \/ m.lote[1] \in Invalid
                        \/ m.nro \in DOMAIN registry[SerieOf(m)]
                        \/ /\ solicitud[EmitterOf(m.lote[1])] = m
                           /\ pc'[EmitterOf(m.lote[1])] # "idle"
      BY DEF LateDead, SerieOf
    <2>1. EmitterOf(m.lote[1]) \in Emitters
      BY InvoicesAssumption DEF TypeInv, Requests
    <2> QED BY <2>1 DEF OwnInv, LateDead
  <1>3. NumberIsOwn' /\ LastIsCurrent'
    BY <1>1 DEF OwnInv, NumberIsOwn, LastIsCurrent
  <1>4. AnswerIsOwn' /\ ResultIsOwn'
    BY <1>1 DEF OwnInv, AnswerIsOwn, ResultIsOwn, Own
  <1> QED BY <1>2, <1>3, <1>4 DEF OwnInv

\* e's request is replaced, by one without a number or with one not yet taken.
LEMMA RequestOwn ==
  ASSUME TypeInv, OwnInv, NEW e \in Emitters, UNCHANGED <<registry, late>>,
         pc[e] = "idle" \/ solicitud[e].nro = 0,
         solicitud'[e].nro # 0 => (Nro(e) \notin DOMAIN registry[Serie(e)])',
         pc'[e] # "idle", ret'[e].kind # "ok", answer'[e] = NoAnswer,
         \A f \in Emitters \ {e} : /\ pc'[f] = pc[f] /\ answer'[f] = answer[f]
                                   /\ solicitud'[f] = solicitud[f] /\ ret'[f] = ret[f]
  PROVE  OwnInv'
  <1>1. \A f \in Emitters \ {e} :
          /\ Held(f)' = Held(f) /\ Serie(f)' = Serie(f) /\ Nro(f)' = Nro(f)
          /\ Ultimo(Serie(f))' = Ultimo(Serie(f))
    BY DEF Held, Serie, SerieOf, Nro, Ultimo
  <1>2. LateDead'
    <2> SUFFICES ASSUME NEW m \in late
                 PROVE  \/ m.lote[1] \in Invalid
                        \/ m.nro \in DOMAIN registry[SerieOf(m)]
                        \/ /\ solicitud'[EmitterOf(m.lote[1])] = m
                           /\ pc'[EmitterOf(m.lote[1])] # "idle"
      BY DEF LateDead, SerieOf
    <2>1. EmitterOf(m.lote[1]) \in Emitters /\ m.nro # 0
      BY InvoicesAssumption DEF TypeInv, Requests
    <2> QED BY <2>1 DEF OwnInv, LateDead
  <1>3. NumberIsOwn' /\ LastIsCurrent'
    BY <1>1 DEF OwnInv, NumberIsOwn, LastIsCurrent
  <1>4. AnswerIsOwn' /\ ResultIsOwn'
    BY <1>1 DEF OwnInv, AnswerIsOwn, ResultIsOwn, Own
  <1> QED BY <1>2, <1>3, <1>4 DEF OwnInv

LEMMA DecideOwn ==
  ASSUME TypeInv, OwnInv, TakenInv, NEW e \in Emitters, Decide(e)
  PROVE  OwnInv'
  <1>1. /\ pc[e] = "decide" /\ UNCHANGED <<registry, late, solicitud, answer, ret>>
        /\ answer[e] = NoAnswer
        /\ \A f \in Emitters \ {e} : pc'[f] = pc[f]
        /\ \/ pc'[e] = "idle" /\ (ret[e].kind = "ok" \/ Permanent(ret[e]))
           \/ pc'[e] # "idle" /\ ret[e].kind # "ok"
    BY DEF Decide, Goto, TypeInv, Local, Permanent
  <1>2. CASE pc'[e] # "idle" /\ ret[e].kind # "ok"
    BY <1>1, <1>2, MoveOwn
  <1>3. CASE pc'[e] = "idle" /\ (ret[e].kind = "ok" \/ Permanent(ret[e]))
    <2>1. \A f \in Emitters : /\ Held(f)' = Held(f) /\ Serie(f)' = Serie(f) /\ Nro(f)' = Nro(f)
                              /\ Ultimo(Serie(f))' = Ultimo(Serie(f))
      BY <1>1 DEF Held, Serie, SerieOf, Nro, Ultimo
    <2>2. LateDead'
      <3> SUFFICES ASSUME NEW m \in late
                   PROVE  \/ m.lote[1] \in Invalid
                          \/ m.nro \in DOMAIN registry[SerieOf(m)]
                          \/ /\ solicitud[EmitterOf(m.lote[1])] = m
                             /\ pc'[EmitterOf(m.lote[1])] # "idle"
        BY <1>1 DEF LateDead, SerieOf
      <3>1. EmitterOf(m.lote[1]) \in Emitters
        BY InvoicesAssumption DEF TypeInv, Requests
      <3>2. CASE m = solicitud[e]
        <4>1. CASE ret[e].kind = "ok"
          BY <3>2, <4>1 DEF OwnInv, ResultIsOwn, Own, Held, Nro, Serie
        <4>2. CASE Permanent(ret[e])
          BY <3>2, <4>2 DEF TypeInv, Local, Explained, TakenInv, TakenOf, Taken, Nro, Serie
        <4> QED BY <1>3, <4>1, <4>2
      <3>3. CASE m # solicitud[e]
        BY <1>1, <3>1, <3>3 DEF OwnInv, LateDead
      <3> QED BY <3>2, <3>3
    <2>3. NumberIsOwn' /\ LastIsCurrent'
      BY <1>1, <1>3, <2>1 DEF OwnInv, NumberIsOwn, LastIsCurrent
    <2>4. AnswerIsOwn' /\ ResultIsOwn'
      BY <1>1, <1>3, <2>1 DEF OwnInv, AnswerIsOwn, ResultIsOwn, Own
    <2> QED BY <2>2, <2>3, <2>4 DEF OwnInv
  <1> QED BY <1>1, <1>2, <1>3

LEMMA ClientOwn ==
  ASSUME TypeInv, OwnInv, TakenInv, NEW e \in Emitters, Client(e)
  PROVE  OwnInv'
  <1>1. ASSUME NEW l \in Lotes, CallUltimoAutorizado(e, l) PROVE OwnInv'
    <2>1. /\ pc[e] = "idle" /\ UNCHANGED <<registry, late>>
          /\ solicitud'[e].nro = 0 /\ pc'[e] = "ultimo" /\ ret'[e].kind = "none"
          /\ answer'[e] = NoAnswer
          /\ \A f \in Emitters \ {e} : /\ pc'[f] = pc[f] /\ answer'[f] = answer[f]
                                       /\ solicitud'[f] = solicitud[f] /\ ret'[f] = ret[f]
      BY <1>1 DEF CallUltimoAutorizado, Goto, TypeInv, Local, NotCalled, Failed
    <2> QED BY <2>1, RequestOwn
  <1>2. ASSUME UltimoOk(e) PROVE OwnInv'
    <2>1. /\ pc[e] = "ultimo" /\ solicitud[e].nro = 0 /\ UNCHANGED <<registry, late, ret>>
          /\ pc'[e] = "solicitar" /\ answer'[e] = NoAnswer
          /\ answer[e].nro = Ultimo(Serie(e))
          /\ \A f \in Emitters \ {e} : /\ pc'[f] = pc[f] /\ answer'[f] = answer[f]
                                       /\ solicitud'[f] = solicitud[f]
      BY <1>2 DEF UltimoOk, Goto, TypeInv, Local, OwnInv, LastIsCurrent
    <2>2. /\ Serie(e) \in Series
          /\ solicitud'[e].lote = solicitud[e].lote /\ solicitud'[e].nro = Ultimo(Serie(e)) + 1
      BY <1>2, <2>1, NumberedRequest, InvoicesAssumption
         DEF UltimoOk, TypeInv, Solicitudes, Serie, SerieOf
    <2>3. (Nro(e) \notin DOMAIN registry[Serie(e)])'
      <3>1. Serie(e)' = Serie(e) /\ Nro(e)' = Ultimo(Serie(e)) + 1
        BY <2>2 DEF Serie, SerieOf, Nro
      <3>2. Ultimo(Serie(e)) + 1 \notin DOMAIN registry[Serie(e)]
        BY <2>2, Domains
      <3> QED BY <2>1, <3>1, <3>2
    <2>4. ret[e].kind # "ok"
      BY <2>1 DEF OwnInv, ResultIsOwn
    <2> QED BY <2>1, <2>3, <2>4, RequestOwn
  <1>3. ASSUME NEW r, Return(e, r), r.kind # "ok", pc[e] # "idle",
               late' \subseteq late \cup {solicitud[e]}
        PROVE  OwnInv'
    BY <1>3, ReturnOwn DEF Own
  <1>4. /\ Failed(ErrSOAP).kind # "ok" /\ Wrapped(Failed(ErrSOAP)).kind # "ok"
        /\ \A c : Failed(AFIPError(c)).kind # "ok"
    BY DEF Wrapped, Failed, ErrSOAP, AFIPError
  <1>5. ASSUME UltimoFails(e) \/ SolicitarTransportFails(e) \/ ConsultarTransportFails(e)
        PROVE  OwnInv'
    BY <1>3, <1>4, <1>5 DEF UltimoFails, SolicitarTransportFails, ConsultarTransportFails
  <1>6. ASSUME SolicitarReturns(e) \/ ConsultarReturns(e) PROVE OwnInv'
    <2>1. PICK r \in {SolicitarResult(answer[e]), ConsultaResult(answer[e])} :
            /\ Return(e, r) /\ Own(e, r) /\ pc[e] # "idle" /\ UNCHANGED late
      BY <1>6 DEF SolicitarReturns, ConsultarReturns, OwnInv, AnswerIsOwn
    <2> QED BY <2>1, ReturnOwn
  <1>7. ASSUME Reproceso(e) PROVE OwnInv'
    <2>1. /\ pc[e] = "solicitar" /\ UNCHANGED <<registry, late, solicitud, ret>>
          /\ pc'[e] = "consultar" /\ answer'[e] = NoAnswer
          /\ \A f \in Emitters \ {e} : pc'[f] = pc[f] /\ answer'[f] = answer[f]
      BY <1>7 DEF Reproceso, Goto, TypeInv
    <2>2. ret[e].kind # "ok"
      BY <2>1 DEF OwnInv, ResultIsOwn
    <2> QED BY <2>1, <2>2, MoveOwn
  <1> QED BY <1>1, <1>2, <1>5, <1>6, <1>7, DecideOwn DEF Client

LEMMA AfipOwn ==
  ASSUME Exclusive, TypeInv, OwnInv, NEW e \in Emitters, Afip(e)
  PROVE  OwnInv'
  <1> DEFINE m == solicitud[e]
  <1>1. ASSUME pc[e] = "solicitar" PROVE m \in Requests /\ m.nro # 0
    BY <1>1, NumberedRequest DEF TypeInv, Local
  <1>2. ASSUME NEW a, pc[e] = "solicitar", Answer(e, a), UNCHANGED registry,
               Own(e, SolicitarResult(a))
        PROVE  OwnInv'
    BY <1>2, AnswerOwn
  <1>3. ASSUME AnswerUltimo(e) \/ GlitchUltimo(e) PROVE OwnInv'
    <2> DEFINE Truthful(a) ==
                 /\ pc[e] = "ultimo" /\ Answer(e, a) /\ UNCHANGED registry
                 /\ a.errors = <<>> => a.nro = Ultimo(Serie(e))
    <2>1. ASSUME AnswerUltimo(e) PROVE \E a : Truthful(a)
      <3>1. Truthful(FECompUltimoAutorizadoResponse(<<>>, Ultimo(Serie(e))))
        BY <2>1 DEF AnswerUltimo, FECompUltimoAutorizadoResponse
      <3> QED BY <3>1
    <2>2. ASSUME GlitchUltimo(e) PROVE \E a : Truthful(a)
      <3>1. PICK codes \in GlitchCodes :
              /\ pc[e] = "ultimo" /\ UNCHANGED registry
              /\ Answer(e, FECompUltimoAutorizadoResponse(codes, 0))
        BY <2>2 DEF GlitchUltimo
      <3>2. codes # <<>>
        BY CodesAssumption
      <3>3. Truthful(FECompUltimoAutorizadoResponse(codes, 0))
        BY <3>1, <3>2 DEF FECompUltimoAutorizadoResponse
      <3> QED BY <3>3
    <2>3. PICK a : Truthful(a)
      BY <1>3, <2>1, <2>2
    <2> QED BY <2>3, AnswerOwn
  <1>4. ASSUME Authorize(e) PROVE OwnInv'
    <2>1. /\ pc[e] = "solicitar" /\ Acceptable(m) /\ Register(m)
          /\ UNCHANGED <<late, pc, solicitud, ret>>
          /\ answer'[e] = FECAEResponse(<<>>, Answered(m, Accepted(m), <<>>), FALSE)
          /\ \A f \in Emitters \ {e} : answer'[f] = answer[f]
      BY <1>4 DEF Authorize, Answer, TypeInv
    <2>2. Accepted(m) \in DOMAIN m.lote /\ m.lote \in Seq(Invoices)
      BY <1>1, <2>1, AcceptedPrefix, InvoicesAssumption DEF Acceptable, Requests
    <2>3. Accepted(m) \in Nat /\ Accepted(m) >= 1
      BY <2>2
    <2>4. SolicitarResult(answer'[e]) = Ok(CAE(SerieOf(m), m.nro), FALSE)
      BY <1>1, <2>1, <2>3, CodeLists, DetailResult
    <2>5. Held(e)'
      BY <1>1, <2>1, RegisterHolds
    <2>6. Own(e, SolicitarResult(answer[e]))'
      <3>1. SolicitarResult(answer[e])' = SolicitarResult(answer'[e])
        OBVIOUS
      <3>2. Serie(e)' = SerieOf(m) /\ Nro(e)' = m.nro
        BY <2>1 DEF Serie, SerieOf, Nro
      <3> QED BY <2>4, <2>5, <3>1, <3>2 DEF Own, Ok
    <2> QED BY <1>1, <2>1, <2>6, RegisterOwn
  <1>5. ASSUME pc[e] = "solicitar", NEW c \in Codes, UNCHANGED registry,
               \/ c # <<>> /\ Answer(e, HeaderErrors(c))
               \/ Answer(e, FECAEResponse(<<>>, Answered(m, 0, c), FALSE))
        PROVE  OwnInv'
    <2>1. c # <<>> => SolicitarResult(HeaderErrors(c)).kind # "ok"
      BY HeaderResult DEF Failed, AFIPError
    <2>2. SolicitarResult(FECAEResponse(<<>>, Answered(m, 0, c), FALSE)).kind # "ok"
      <3>1. m \in Requests /\ 0 \in Nat /\ FALSE \in BOOLEAN /\ ~(0 >= 1)
        BY <1>1, <1>5
      <3> HIDE DEF m
      <3>2. SolicitarResult(FECAEResponse(<<>>, Answered(m, 0, c), FALSE))
              = Failed(IF c = <<>> THEN PlainError ELSE AFIPError(c))
        BY <3>1, DetailResult
      <3>3. Failed(IF c = <<>> THEN PlainError ELSE AFIPError(c)).kind # "ok"
        BY DEF Failed, AFIPError, PlainError
      <3> QED BY <3>2, <3>3
    <2> QED BY <1>2, <1>5, <2>1, <2>2 DEF Own
  <1>6. ASSUME AnswerTaken(e) PROVE OwnInv'
    <2> DEFINE s == Serie(e)
               last == m.nro + Len(m.lote) - 1
    <2>1. /\ pc[e] = "solicitar" /\ UNCHANGED registry /\ m.nro <= Ultimo(s)
          /\ \/ \E c \in RegisteredCodes :
                  \/ Answer(e, HeaderErrors(c))
                  \/ Answer(e, FECAEResponse(<<>>, Answered(m, 0, c), FALSE))
             \/ Answer(e, FECAEResponse(<<>>, Answered(m, Len(m.lote), <<>>), TRUE))
      BY <1>6 DEF AnswerTaken
    <2>2. CASE \E c \in RegisteredCodes :
                  \/ Answer(e, HeaderErrors(c))
                  \/ Answer(e, FECAEResponse(<<>>, Answered(m, 0, c), FALSE))
      BY <1>5, <2>1, <2>2, CodeLists
    <2>3. CASE Answer(e, FECAEResponse(<<>>, Answered(m, Len(m.lote), <<>>), TRUE))
      <3>1. /\ m.lote \in Seq(Invoices) /\ m.lote # <<>> /\ s \in Series /\ m.nro \in Nat
            /\ m.nro # 0
        BY <1>1, <2>1, InvoicesAssumption DEF Requests, Serie, SerieOf
      <3>2. Len(m.lote) \in Nat /\ Len(m.lote) >= 1
        BY <3>1
      <3>3. Held(e)
        BY <2>1, <3>1, Domains DEF OwnInv, NumberIsOwn, Nro
      <3>4. SolicitarResult(FECAEResponse(<<>>, Answered(m, Len(m.lote), <<>>), TRUE))
              = Ok(CAE(SerieOf(m), m.nro), TRUE)
        BY <1>1, <2>1, <3>2, CodeLists, DetailResult
      <3>5. Own(e, Ok(CAE(SerieOf(m), m.nro), TRUE))
        BY <3>3 DEF Own, Ok, Nro, Serie
      <3>6. Own(e, SolicitarResult(FECAEResponse(<<>>, Answered(m, Len(m.lote), <<>>), TRUE)))
        <4> HIDE DEF m
        <4> QED BY <3>4, <3>5
      <3> QED BY <1>2, <2>1, <2>3, <3>6
    <2> QED BY <2>1, <2>2, <2>3
  <1>7. ASSUME NEW obs \in RejectedCodes \cup {<<>>}, Reject(e, obs) PROVE OwnInv'
    BY <1>5, <1>7, CodeLists DEF Reject
  <1>8. ASSUME Glitch(e) PROVE OwnInv'
    <2>1. SolicitarResult(EmptyDetails).kind # "ok"
      BY DEF SolicitarResult, EmptyDetails, HeaderErrors, FECAEResponse, Failed, PlainError
    <2> QED BY <1>2, <1>5, <1>8, <2>1, CodeLists DEF Glitch, Own
  <1>9. ASSUME AnswerConsulta(e) \/ GlitchConsulta(e) PROVE OwnInv'
    <2> DEFINE Truthful(a) ==
                 /\ pc[e] = "consultar" /\ Answer(e, a) /\ UNCHANGED registry
                 /\ a.errors = <<>> /\ a.cae # NoCAE =>
                      a.cae = CAE(Serie(e), Nro(e)) /\ Nro(e) \in DOMAIN registry[Serie(e)]
    <2>1. PICK a : Truthful(a)
      <3>1. CASE AnswerConsulta(e)
        <4> DEFINE a == FECompConsultarResponse(<<>>,
                          IF Nro(e) \in DOMAIN registry[Serie(e)]
                            THEN CAE(Serie(e), Nro(e)) ELSE NoCAE)
        <4>1. pc[e] = "consultar" /\ Answer(e, a) /\ UNCHANGED registry
          BY <3>1 DEF AnswerConsulta, FeCompConsReq
        <4>2. a.errors = <<>> /\ a.cae = IF Nro(e) \in DOMAIN registry[Serie(e)]
                                           THEN CAE(Serie(e), Nro(e)) ELSE NoCAE
          BY DEF FECompConsultarResponse
        <4> HIDE DEF a
        <4> QED BY <4>1, <4>2
      <3>2. CASE GlitchConsulta(e)
        <4>1. \A c : Answer(e, FECompConsultarResponse(c, NoCAE))
                       => Truthful(FECompConsultarResponse(c, NoCAE))
          BY <3>2 DEF GlitchConsulta, FECompConsultarResponse
        <4>2. PICK c : Answer(e, FECompConsultarResponse(c, NoCAE))
          BY <3>2 DEF GlitchConsulta
        <4> QED BY <4>1, <4>2
      <3> QED BY <1>9, <3>1, <3>2
    <2>2. Own(e, ConsultaResult(a))
      <3>1. solicitud[e].nro # 0
        BY <2>1 DEF TypeInv, Local
      <3>2. CASE a.errors = <<>> /\ a.cae # NoCAE
        BY <2>1, <3>1, <3>2 DEF ConsultaResult, Own, Ok, OwnInv, NumberIsOwn
      <3>3. CASE ~(a.errors = <<>> /\ a.cae # NoCAE)
        BY <3>3 DEF ConsultaResult, Own, Wrapped, Failed, AFIPError, PlainError
      <3> QED BY <3>2, <3>3
    <2> QED BY <2>1, <2>2, AnswerOwn
  <1> HIDE DEF m
  <1> QED BY <1>3, <1>4, <1>6, <1>7, <1>8, <1>9 DEF Afip, RejectSaying, RejectSilently

\* Nothing of what the invariant speaks of changes, but for late requests lost.
LEMMA QuietOwn ==
  ASSUME OwnInv, UNCHANGED <<registry, pc, solicitud, answer, ret>>, late' \subseteq late
  PROVE  OwnInv'
  <1>1. \A f \in Emitters : /\ Held(f)' = Held(f) /\ Serie(f)' = Serie(f) /\ Nro(f)' = Nro(f)
                            /\ Ultimo(Serie(f))' = Ultimo(Serie(f))
    BY DEF Held, Serie, SerieOf, Nro, Ultimo
  <1>2. LateDead'
    BY DEF OwnInv, LateDead, SerieOf
  <1>3. NumberIsOwn' /\ LastIsCurrent' /\ ResultIsOwn'
    BY <1>1 DEF OwnInv, NumberIsOwn, LastIsCurrent, ResultIsOwn, Own
  <1>4. AnswerIsOwn'
    <2> SUFFICES ASSUME NEW f \in Emitters, answer[f] # NoAnswer
                 PROVE  /\ pc[f] = "solicitar" => Own(f, SolicitarResult(answer[f]))
                        /\ pc[f] = "consultar" => Own(f, ConsultaResult(answer[f]))
      BY <1>1 DEF AnswerIsOwn, Own
    <2> QED BY DEF OwnInv, AnswerIsOwn
  <1> QED BY <1>2, <1>3, <1>4 DEF OwnInv

LEMMA NextOwn ==
  ASSUME Exclusive, TypeInv, OwnInv, TakenInv, [Next]_vars
  PROVE  OwnInv'
  <1>1. ASSUME NEW m \in late, DeliverLate(m) PROVE OwnInv'
    <2>1. /\ UNCHANGED <<pc, solicitud, answer, ret>> /\ late' \subseteq late /\ m \in Requests
          /\ IF Acceptable(m) THEN Register(m) ELSE UNCHANGED registry
      BY <1>1 DEF DeliverLate, TypeInv
    <2>2. CASE Acceptable(m)
      <3>1. m.lote[1] \notin Invalid /\ m.nro \notin DOMAIN registry[SerieOf(m)]
        <4>1. SerieOf(m) \in Series /\ m.nro = Ultimo(SerieOf(m)) + 1 /\ m.lote[1] \notin Invalid
          BY <2>1, <2>2, AcceptedPrefix, InvoicesAssumption DEF Acceptable, Requests, SerieOf
        <4> QED BY <4>1, Domains
      <3>2. PICK f \in Emitters : solicitud[f] = m /\ pc[f] # "idle"
        <4>1. EmitterOf(m.lote[1]) \in Emitters
          BY <2>1, InvoicesAssumption DEF Requests
        <4> QED BY <3>1, <4>1 DEF OwnInv, LateDead
      <3>3. solicitud[f].nro # 0 /\ Acceptable(solicitud[f]) /\ Register(solicitud[f])
        BY <2>1, <2>2, <3>2 DEF Requests
      <3> QED BY <2>1, <3>2, <3>3, RegisterOwn
    <2>3. CASE ~Acceptable(m)
      BY <2>1, <2>3, QuietOwn
    <2> QED BY <2>2, <2>3
  <1>2. CASE UNCHANGED vars
    BY <1>2, QuietOwn DEF vars
  <1> QED BY <1>1, <1>2, ClientOwn, AfipOwn DEF Next

\* When a series has one emitter, every CAE a call returns was given by AFIP to
\* the first invoice of the call's request, recovered or not, whatever was
\* lost, late or repeated before.
THEOREM CaeIsOwn == ASSUME Exclusive PROVE Spec => []OwnCae
  <1>1. TypeInv /\ OwnInv => OwnCae
    <2> SUFFICES ASSUME TypeInv, OwnInv, NEW e \in Emitters, ret[e].kind = "ok"
                 PROVE  /\ ret[e].cae \in CAEs
                        /\ registry[ret[e].cae[1]][ret[e].cae[2]] = solicitud[e].lote[1]
      BY DEF OwnCae
    <2>1. ret[e].cae \in CAEs
      BY DEF TypeInv, Results
    <2>2. ret[e].cae = CAE(Serie(e), Nro(e)) /\ Held(e)
      BY DEF OwnInv, ResultIsOwn, Own
    <2> QED BY <2>1, <2>2 DEF CAE, Held
  <1>2. Init => TypeInv /\ OwnInv /\ TakenInv
    BY InitTypes, InitOwn, InitTaken
  <1>3. (TypeInv /\ OwnInv /\ TakenInv) /\ [Next]_vars => (TypeInv /\ OwnInv /\ TakenInv)'
    BY NextTypes, NextOwn, NextTaken
  <1> QED BY <1>1, <1>2, <1>3, PTL DEF Spec

-----------------------------------------------------------------------------
(* The abstract register *)

\* AFIP takes a lote whole or rejects its first invoice.
WholeLotes ==
  \A l \in Lotes : l[1] \notin Invalid => \A k \in DOMAIN l : l[k] \notin Invalid

IsRegistered(i) == \E s \in Series : \E n \in DOMAIN registry[s] : registry[s][n] = i

\* When AFIP holds the first invoice of a request, it holds all of them.
WholeInv ==
  \A e \in Emitters : Held(e) =>
    \A k \in DOMAIN solicitud[e].lote : IsRegistered(solicitud[e].lote[k])

\* The request of f is registered.
Registering(f) ==
  /\ pc[f] # "idle" /\ solicitud[f].nro # 0
  /\ Acceptable(solicitud[f]) /\ Register(solicitud[f])
  /\ UNCHANGED <<solicitud, outcome>>

\* The program of f hears o of the invoices of its request.
Hearing(f, o) ==
  /\ pc[f] = "decide" /\ UNCHANGED <<registry, solicitud>>
  /\ \/ o = "reported" /\ ret[f].kind = "ok"
     \/ o = "rejected" /\ Permanent(ret[f])
  /\ outcome' = [i \in Invoices |-> IF i \in Range(solicitud[f].lote) THEN o ELSE outcome[i]]

\* Neither; a request that is replaced gets no number or one not yet taken.
Silent ==
  /\ UNCHANGED <<registry, outcome>>
  /\ \A e \in Emitters : solicitud'[e] = solicitud[e] \/ ~(Held(e)')

LEMMA LateRequest ==
  ASSUME TypeInv, OwnInv, NEW m \in late, Acceptable(m)
  PROVE  \E f \in Emitters : solicitud[f] = m /\ pc[f] # "idle" /\ solicitud[f].nro # 0
  <1>1. m \in Requests /\ EmitterOf(m.lote[1]) \in Emitters
    BY InvoicesAssumption DEF TypeInv, Requests
  <1>2. SerieOf(m) \in Series /\ m.nro = Ultimo(SerieOf(m)) + 1 /\ m.lote[1] \notin Invalid
    BY <1>1, AcceptedPrefix, InvoicesAssumption DEF Acceptable, Requests, SerieOf
  <1>3. m.nro \notin DOMAIN registry[SerieOf(m)]
    BY <1>2, Domains
  <1>4. solicitud[EmitterOf(m.lote[1])] = m /\ pc[EmitterOf(m.lote[1])] # "idle"
    BY <1>2, <1>3 DEF OwnInv, LateDead
  <1> QED BY <1>1, <1>4 DEF Requests

\* Every step is one of the three.
LEMMA Steps ==
  ASSUME TypeInv, OwnInv, [Next]_vars
  PROVE  \/ \E f \in Emitters : Registering(f)
         \/ \E f \in Emitters : \E o \in {"reported", "rejected"} : Hearing(f, o)
         \/ Silent
  <1>1. UNCHANGED <<registry, solicitud, outcome>> => Silent
    BY DEF Silent
  <1>2. CASE UNCHANGED vars
    BY <1>1, <1>2 DEF vars
  <1>3. ASSUME NEW m \in late, DeliverLate(m)
        PROVE  (\E f \in Emitters : Registering(f)) \/ Silent
    BY <1>1, <1>3, LateRequest DEF DeliverLate, Registering
  <1>4. ASSUME NEW e \in Emitters, Afip(e)
        PROVE  (\E f \in Emitters : Registering(f)) \/ Silent
    <2>1. CASE Authorize(e)
      <3>1. solicitud[e].nro # 0
        BY <2>1 DEF Authorize, TypeInv, Local
      <3> QED BY <2>1, <3>1 DEF Authorize, Answer, Registering
    <2>2. CASE UNCHANGED registry
      <3>1. UNCHANGED <<solicitud, outcome>>
        BY <1>4 DEF Afip, AnswerUltimo, GlitchUltimo, Authorize, AnswerTaken, RejectSaying,
                    RejectSilently, Reject, Glitch, AnswerConsulta, GlitchConsulta, Answer
      <3> QED BY <1>1, <2>2, <3>1
    <2> QED BY <1>4, <2>1, <2>2 DEF Afip, AnswerUltimo, GlitchUltimo, AnswerTaken, RejectSaying,
                    RejectSilently, Reject, Glitch, AnswerConsulta, GlitchConsulta
  <1>5. ASSUME NEW e \in Emitters, NEW l \in Lotes, CallUltimoAutorizado(e, l) PROVE Silent
    <2>1. /\ UNCHANGED <<registry, outcome>> /\ solicitud'[e].nro = 0
          /\ \A f \in Emitters \ {e} : solicitud'[f] = solicitud[f]
      BY <1>5 DEF CallUltimoAutorizado, TypeInv
    <2> QED BY <2>1 DEF Silent, Held
  <1>6. ASSUME NEW e \in Emitters, UltimoOk(e) PROVE Silent
    <2>1. /\ UNCHANGED <<registry, outcome>>
          /\ solicitud'[e] = [solicitud[e] EXCEPT !.nro = answer[e].nro + 1]
          /\ \A f \in Emitters \ {e} : solicitud'[f] = solicitud[f]
          /\ answer[e].nro = Ultimo(Serie(e)) /\ pc[e] # "idle"
      BY <1>6 DEF UltimoOk, TypeInv, OwnInv, LastIsCurrent
    <2>2. Serie(e) \in Series
      BY <2>1, NumberedRequest, InvoicesAssumption DEF Serie, SerieOf
    <2>3. solicitud'[e].lote = solicitud[e].lote /\ solicitud'[e].nro = Ultimo(Serie(e)) + 1
      BY <2>1 DEF TypeInv, Solicitudes
    <2>4. Serie(e)' = Serie(e) /\ Nro(e)' = Ultimo(Serie(e)) + 1
      BY <2>3 DEF Serie, SerieOf, Nro
    <2>5. (Nro(e) \notin DOMAIN registry[Serie(e)])'
      BY <2>1, <2>2, <2>4, Domains
    <2> QED BY <2>1, <2>5 DEF Silent, Held
  <1>7. ASSUME NEW e \in Emitters, Decide(e)
        PROVE  Silent \/ \E o \in {"reported", "rejected"} : Hearing(e, o)
    BY <1>1, <1>7 DEF Decide, Hearing, Permanent
  <1>8. ASSUME NEW e \in Emitters, \/ UltimoFails(e) \/ SolicitarTransportFails(e)
                                   \/ SolicitarReturns(e) \/ Reproceso(e)
                                   \/ ConsultarReturns(e) \/ ConsultarTransportFails(e)
        PROVE  Silent
    BY <1>1, <1>8 DEF UltimoFails, SolicitarTransportFails, SolicitarReturns, Reproceso,
                      ConsultarReturns, ConsultarTransportFails, Return
  <1> QED BY <1>2, <1>3, <1>4, <1>5, <1>6, <1>7, <1>8 DEF Next, Client

\* An injective sequence over S is one of the orders of a subset of S.
LEMMA Permutations ==
  ASSUME NEW S, NEW l \in Seq(S), \A j, k \in DOMAIN l : l[j] = l[k] => j = k
  PROVE  l \in CaeRegistry!SetToAllKPermutations(S)
  <1> DEFINE R == Range(l)
             D == 1..Len(l)
  <1>1. Len(l) \in Nat /\ DOMAIN l = D
    OBVIOUS
  <1>2. R \subseteq S /\ l \in [D -> R] /\ \A r \in R : \E k \in D : l[k] = r
    BY DEF Range
  <1>3. l \in Bijection(D, R)
    BY <1>1, <1>2 DEF Bijection, Injection, Surjection, IsInjective
  <1>4. CaeRegistry!Cardinality(R) = Len(l)
    <2> HIDE DEF R
    <2>1. ExistsBijection(1..Len(l), R)
      BY <1>3 DEF ExistsBijection
    <2>2. Cardinality(R) = Len(l)
      BY <1>1, <2>1, FS_CountingElements
    <2>3. CaeRegistry!Cardinality(R) = Cardinality(R)
      BY DEF CaeRegistry!Cardinality, Cardinality
    <2> QED BY <2>2, <2>3
  <1>5. l \in CaeRegistry!SetToSeqs(R)
    <2> HIDE DEF R
    <2> QED BY <1>1, <1>2, <1>4 DEF CaeRegistry!SetToSeqs
  <1> QED BY <1>2, <1>5 DEF CaeRegistry!SetToAllKPermutations

\* AFIP registers the lote of f, none of whose invoices it held.
LEMMA LoteRegistered ==
  ASSUME WholeLotes, TypeInv, NumInv, NEW f \in Emitters, Registering(f)
  PROVE  LET l == solicitud[f].lote IN
         /\ registry' = [registry EXCEPT ![Serie(f)] = @ \o l]
         /\ Serie(f) \in Series /\ l \in Seq(Invoices) /\ l # <<>>
         /\ \A j, k \in DOMAIN l : l[j] = l[k] => j = k
         /\ \A k \in DOMAIN l : outcome[l[k]] = "pending" /\ ~IsRegistered(l[k])
  <1> DEFINE m == solicitud[f]
             l == m.lote
  <1>1. m \in Requests /\ m \in Live /\ Acceptable(m) /\ Register(m)
    BY LiveTypes DEF Registering
  <1>2. /\ l \in Lotes /\ l \in Seq(Invoices) /\ l # <<>> /\ SerieOf(m) \in Series
        /\ \A j, k \in DOMAIN l : l[j] = l[k] => j = k
        /\ m.nro \in Nat
    <2>1. l \in Lotes /\ m.nro \in Nat
      BY <1>1 DEF Requests
    <2> HIDE DEF m
    <2> QED BY <2>1, InvoicesAssumption DEF SerieOf
  <1> HIDE DEF m
  <1>3. Accepted(m) = Len(l)
    <2>1. l[1] \notin Invalid /\ Accepted(m) \in DOMAIN l /\ \A j \in Prefixes(m) : j <= Accepted(m)
      BY <1>1, AcceptedPrefix
    <2>2. Len(l) \in Prefixes(m)
      BY <1>2, <2>1 DEF WholeLotes, Prefixes
    <2>3. Accepted(m) \in 1..Len(l) /\ Len(l) <= Accepted(m)
      BY <1>2, <2>1, <2>2
    <2> QED BY <1>2, <2>3
  <1>4. SubSeq(l, 1, Len(l)) = l
    BY <1>2
  <1>5. registry' = [registry EXCEPT ![SerieOf(m)] = @ \o l]
    BY <1>1, <1>3, <1>4 DEF Register
  <1>6. ASSUME NEW k \in DOMAIN l PROVE outcome[l[k]] = "pending"
    BY <1>6 DEF NumInv, Undecided, Registering, m
  <1>7. ASSUME NEW k \in DOMAIN l, NEW s \in Series, NEW n \in DOMAIN registry[s],
               registry[s][n] = l[k]
        PROVE  FALSE
    <2>1. s = SerieOf(m) /\ n = m.nro + k - 1 /\ m.nro = Ultimo(s) + 1
      BY <1>1, <1>7 DEF NumInv, InPlace, Acceptable
    <2>2. n \in 1..Ultimo(s) /\ Ultimo(s) \in Nat /\ k \in Nat /\ k >= 1
      BY <1>2, Domains
    <2> QED BY <2>1, <2>2
  <1> QED BY <1>2, <1>5, <1>6, <1>7 DEF m, IsRegistered, Serie

LEMMA NextWhole ==
  ASSUME Exclusive, WholeLotes, TypeInv, NumInv, OwnInv, WholeInv, [Next]_vars
  PROVE  WholeInv'
  <1>1. CASE Silent
    BY <1>1 DEF Silent, WholeInv, Held, Serie, SerieOf, Nro, IsRegistered
  <1>2. CASE \E f \in Emitters : \E o \in {"reported", "rejected"} : Hearing(f, o)
    BY <1>2 DEF Hearing, WholeInv, Held, Serie, SerieOf, Nro, IsRegistered
  <1>3. ASSUME NEW f \in Emitters, Registering(f) PROVE WholeInv'
    <2> DEFINE l == solicitud[f].lote
               old == registry[Serie(f)]
    <2>1. /\ registry' = [registry EXCEPT ![Serie(f)] = @ \o l]
          /\ Serie(f) \in Series /\ l \in Seq(Invoices)
      BY <1>3, LoteRegistered
    <2>2. old \in Seq(Invoices) /\ registry'[Serie(f)] = old \o l
          /\ \A s \in Series \ {Serie(f)} : registry'[s] = registry[s]
      BY <2>1 DEF TypeInv, RegistryType
    <2>3. \A i : IsRegistered(i) => IsRegistered(i)'
      <3> SUFFICES ASSUME NEW s \in Series, NEW n \in DOMAIN registry[s]
                   PROVE  n \in DOMAIN registry'[s] /\ registry'[s][n] = registry[s][n]
        BY DEF IsRegistered
      <3>1. CASE s = Serie(f)
        <4> HIDE DEF l, old
        <4>1. n \in DOMAIN old => n \in DOMAIN (old \o l) /\ (old \o l)[n] = old[n]
          BY <2>1, <2>2
        <4> QED BY <2>2, <3>1, <4>1 DEF old
      <3> QED BY <2>2, <3>1
    <2>4. ASSUME NEW i, NEW k \in DOMAIN l, i = l[k] PROVE IsRegistered(i)'
      <3> HIDE DEF l, old
      <3>1. Len(old) + k \in DOMAIN (old \o l) /\ (old \o l)[Len(old) + k] = l[k]
        BY <2>1, <2>2
      <3> QED BY <2>1, <2>2, <2>4, <3>1 DEF IsRegistered
    <2>5. ASSUME NEW e \in Emitters, e # f, Held(e)' PROVE Held(e)
      <3>1. solicitud'[e] = solicitud[e] /\ solicitud[e].nro # 0 /\ solicitud[f].nro # 0
        BY <1>3, <2>5 DEF Registering, Held
      <3>2. solicitud[e] \in Requests /\ solicitud[f] \in Requests
            /\ EmitterOf(solicitud[e].lote[1]) = e /\ EmitterOf(solicitud[f].lote[1]) = f
        BY <3>1, LiveTypes
      <3>3. Serie(e) # Serie(f) /\ Serie(e) \in Series
        BY <2>5, <3>2, SeriesEmitter, LoteUniform, InvoicesAssumption DEF Serie, SerieOf, Requests
      <3> QED BY <2>2, <2>5, <3>1, <3>3 DEF Held, Serie, SerieOf, Nro
    <2>6. \A e \in Emitters : solicitud'[e] = solicitud[e]
      BY <1>3 DEF Registering
    <2> SUFFICES ASSUME NEW e \in Emitters, Held(e)', NEW k \in DOMAIN solicitud[e].lote
                 PROVE  IsRegistered(solicitud[e].lote[k])'
      BY <2>6 DEF WholeInv
    <2>7. CASE e = f
      <3>1. k \in DOMAIN l /\ solicitud[e].lote[k] = l[k] /\ solicitud'[e] = solicitud[e]
        BY <2>6, <2>7
      <3>2. \A i : i = l[k] => IsRegistered(i)'
        BY <2>4, <3>1
      <3> QED BY <3>1, <3>2
    <2>8. CASE e # f
      <3>1. IsRegistered(solicitud[e].lote[k])
        BY <2>5, <2>8 DEF WholeInv
      <3>2. \A i : IsRegistered(i) => IsRegistered(i)'
        BY <2>3
      <3> QED BY <2>6, <3>1, <3>2
    <2> QED BY <2>7, <2>8
  <1> QED BY <1>1, <1>2, <1>3, Steps

\* Every step of the emission is one of the register, or changes nothing of it.
LEMMA NextRegisters ==
  ASSUME Exclusive, WholeLotes, ConsultaTransient,
         TypeInv, NumInv, OwnInv, WholeInv, [Next]_vars
  PROVE  [CaeRegistry!Next]_(CaeRegistry!vars)
  <1>0. \A i : i \in CaeRegistry!Registered <=> IsRegistered(i)
    BY DEF CaeRegistry!Registered, CaeRegistry!Range, IsRegistered
  <1>1. CASE Silent
    BY <1>1 DEF Silent, CaeRegistry!vars
  <1>2. ASSUME NEW f \in Emitters, Registering(f) PROVE CaeRegistry!Next
    <2> DEFINE l == solicitud[f].lote
    <2>1. /\ registry' = [registry EXCEPT ![Serie(f)] = @ \o l] /\ UNCHANGED outcome
          /\ Serie(f) \in Series /\ l \in Seq(Invoices) /\ l # <<>>
          /\ \A j, k \in DOMAIN l : l[j] = l[k] => j = k
          /\ \A k \in DOMAIN l : outcome[l[k]] = "pending" /\ ~IsRegistered(l[k])
      BY <1>2, LoteRegistered DEF Registering
    <2> HIDE DEF l
    <2>2. \A k \in DOMAIN l : l[k] \in CaeRegistry!Open
      BY <1>0, <2>1 DEF CaeRegistry!Open
    <2>3. l \in Seq(CaeRegistry!Open)
      BY <2>1, <2>2
    <2>4. l \in CaeRegistry!SetToAllKPermutations(CaeRegistry!Open) \ {<<>>}
      BY <2>1, <2>3, Permutations
    <2>5. CaeRegistry!Authorize(Serie(f))
      BY <2>1, <2>4 DEF CaeRegistry!Authorize
    <2> QED BY <2>1, <2>5 DEF CaeRegistry!Next
  <1>3. ASSUME NEW f \in Emitters, NEW o \in {"reported", "rejected"}, Hearing(f, o)
        PROVE  CaeRegistry!Next
    <2> DEFINE told == Range(solicitud[f].lote)
    <2>1. \A i \in told : \E k \in DOMAIN solicitud[f].lote : i = solicitud[f].lote[k]
      BY DEF Range
    <2>2. \A i \in told : i \in Invoices /\ outcome[i] = "pending"
      BY <1>3, <2>1, OneEmitter DEF NumInv, Undecided, Hearing
    <2>3. CaeRegistry!Tell(told, o)
      BY <1>3, <2>2 DEF Hearing, CaeRegistry!Tell
    <2>4. CASE o = "reported"
      <3>1. Held(f)
        BY <1>3, <2>4 DEF Hearing, OwnInv, ResultIsOwn, Own
      <3>2. told \subseteq CaeRegistry!Registered
        BY <1>0, <2>1, <3>1 DEF WholeInv
      <3> QED BY <2>2, <2>3, <2>4, <3>2 DEF CaeRegistry!Next, CaeRegistry!Report
    <2>5. CASE o = "rejected"
      <3>1. solicitud[f].lote[1] \in Invalid /\ solicitud[f] \in Live
        BY <1>3, <2>5, LiveTypes DEF Hearing, TypeInv, Local, Explained
      <3>2. told \cap CaeRegistry!Registered = {}
        BY <1>0, <2>1, <3>1 DEF IsRegistered, NumInv, InPlace
      <3> QED BY <2>2, <2>3, <2>5, <3>2 DEF CaeRegistry!Next, CaeRegistry!Reject
    <2> QED BY <2>4, <2>5
  <1> QED BY <1>1, <1>2, <1>3, Steps

\* When a series has one emitter, AFIP takes lotes whole and no consultation
\* fails with a permanent code, the emission with its lost, late and repeated
\* requests is the register: no invoice is registered twice or after its
\* rejection, and no program is told what is not so of any invoice of its
\* request.
THEOREM EmissionImplementsRegister ==
  ASSUME Exclusive, WholeLotes, ConsultaTransient PROVE Spec => ImplementsCaeRegister
  <1> DEFINE I == TypeInv /\ NumInv /\ OwnInv /\ TakenInv /\ WholeInv
  <1>1. Init => I /\ CaeRegistry!Init
    <2>1. Init => WholeInv
      BY DEF Init, WholeInv, Held
    <2> QED BY <2>1, InitTypes, InitNumbers, InitOwn, InitTaken DEF Init, CaeRegistry!Init
  <1>2. I /\ [Next]_vars => I'
    BY NextTypes, NextNumbers, NextOwn, NextTaken, NextWhole
  <1>3. I /\ [Next]_vars => [CaeRegistry!Next]_(CaeRegistry!vars)
    BY NextRegisters
  <1> QED BY <1>1, <1>2, <1>3, PTL DEF Spec, ImplementsCaeRegister, CaeRegistry!Spec
=============================================================================

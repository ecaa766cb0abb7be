-------------------------- MODULE CaeEmissionProofs --------------------------
(***************************************************************************)
(* Proofs about CaeEmission: whatever the network loses, delays or repeats *)
(* and however the emitters' calls interleave, no invoice is authorized    *)
(* twice, and an error that IsRetryable calls permanent means that AFIP    *)
(* holds no invoice of the request, unless the error is the consultation's *)
(* after 10016.                                                            *)
(***************************************************************************)
EXTENDS CaeEmission, WellFoundedInduction, TLAPS

-----------------------------------------------------------------------------
(* Requests *)

\* A request that has been given its number.
Requests == [lote : Lotes, nro : 1..MaxNro+1]

\* A set of positive numbers with a bound has a greatest one.
LEMMA Greatest ==
  ASSUME NEW n \in Nat, NEW T \in SUBSET (1..n), T # {}
  PROVE  \E k \in T : \A j \in T : j <= k
  <1> DEFINE D == {n - k : k \in T}
  <1>1. D \subseteq Nat /\ D # {}
    <2>1. \A k \in T : n - k \in Nat
      OBVIOUS
    <2> QED BY <2>1
  <1>2. PICK x \in D : \A y \in D : ~(<<y, x>> \in OpToRel(<, Nat))
    <2> HIDE DEF D
    <2> QED BY <1>1, NatLessThanWellFounded, WFMin
  <1>3. \A y \in D : ~(y < x)
    <2> HIDE DEF D
    <2> QED BY <1>1, <1>2 DEF OpToRel
  <1>4. PICK k \in T : x = n - k
    OBVIOUS
  <1>5. ASSUME NEW j \in T PROVE j <= k
    <2>1. ~(n - j < n - k)
      BY <1>3, <1>4
    <2> QED BY <2>1
  <1> QED BY <1>5

\* What AFIP accepts of a request is one of its prefixes.
LEMMA AcceptedPrefix ==
  ASSUME NEW m \in Requests, Acceptable(m)
  PROVE  /\ Accepted(m) \in DOMAIN m.lote
         /\ m.nro + Accepted(m) - 1 <= MaxNro
         /\ m.lote[1] \notin Invalid
         /\ \A j \in Prefixes(m) : j <= Accepted(m)
  <1>1. m.lote \in Seq(Invoices) /\ m.lote # <<>> /\ m.nro \in Nat
    BY InvoicesAssumption DEF Requests
  <1>2. Prefixes(m) \in SUBSET (1..Len(m.lote)) /\ Len(m.lote) \in Nat
    BY <1>1 DEF Prefixes
  <1>3. \E k \in Prefixes(m) : \A j \in Prefixes(m) : j <= k
    BY <1>2, Greatest DEF Acceptable
  <1>4. Accepted(m) \in Prefixes(m) /\ \A j \in Prefixes(m) : j <= Accepted(m)
    BY <1>3 DEF Accepted
  <1>5. Accepted(m) \in 1..Len(m.lote) /\ m.lote[1] \notin Invalid
    BY <1>1, <1>4 DEF Prefixes
  <1>6. m.nro + Len(m.lote) - 1 <= MaxNro /\ MaxNro \in Nat
    BY InvoicesAssumption DEF Acceptable
  <1> QED BY <1>1, <1>2, <1>4, <1>5, <1>6

\* A request of one emitter is about one series.
LEMMA LoteUniform ==
  ASSUME NEW m \in Requests, NEW k \in DOMAIN m.lote
  PROVE  /\ m.lote \in Seq(Invoices) /\ m.lote # <<>> /\ 1 \in DOMAIN m.lote
         /\ m.lote[k] \in Invoices /\ m.lote[k] \in Range(m.lote)
         /\ EmitterOf(m.lote[k]) = EmitterOf(m.lote[1]) /\ EmitterOf(m.lote[k]) \in Emitters
         /\ SeriesOf(m.lote[k]) = SerieOf(m) /\ SerieOf(m) \in Series
  <1>1. m.lote \in Lotes /\ m.lote \in Seq(Invoices) /\ m.lote # <<>>
    BY InvoicesAssumption DEF Requests
  <1>2. 1 \in DOMAIN m.lote /\ m.lote[k] \in Invoices /\ m.lote[1] \in Invoices
    BY <1>1
  <1>3. m.lote[k] \in Range(m.lote)
    BY DEF Range
  <1>4. EmitterOf(m.lote[k]) = EmitterOf(m.lote[1]) /\ SeriesOf(m.lote[k]) = SeriesOf(m.lote[1])
    BY <1>1, <1>2, InvoicesAssumption
  <1>5. EmitterOf(m.lote[k]) \in Emitters /\ SeriesOf(m.lote[1]) \in Series
    BY <1>2, InvoicesAssumption
  <1> QED BY <1>1, <1>2, <1>3, <1>4, <1>5 DEF SerieOf

\* Where the entries of a concatenation come from.
LEMMA ConcatAt ==
  ASSUME NEW X, NEW s \in Seq(X), NEW t \in Seq(X)
  PROVE  /\ Len(s \o t) = Len(s) + Len(t)
         /\ \A n \in 1..Len(s) : (s \o t)[n] = s[n]
         /\ \A n \in Len(s)+1..Len(s)+Len(t) : (s \o t)[n] = t[n - Len(s)]
  OBVIOUS

RegistryType ==
  registry \in [Series -> Seq(Invoices)] /\ \A s \in Series : Len(registry[s]) <= MaxNro

\* Registering a request leaves what was registered where it was, and adds a
\* prefix of its lote from the number it asked for on.
LEMMA Registers ==
  ASSUME NEW m \in Requests, Acceptable(m), Register(m), RegistryType
  PROVE  /\ RegistryType'
         /\ m.lote[1] \notin Invalid
         /\ m.nro \in DOMAIN registry'[SerieOf(m)]
         /\ \A s \in Series : \A n \in DOMAIN registry[s] :
              n \in DOMAIN registry'[s] /\ registry'[s][n] = registry[s][n]
         /\ \A s \in Series : \A n \in DOMAIN registry'[s] :
              \/ n \in DOMAIN registry[s]
              \/ /\ s = SerieOf(m) /\ n >= m.nro
                 /\ n - m.nro + 1 \in DOMAIN m.lote
                 /\ registry'[s][n] = m.lote[n - m.nro + 1]
  <1> DEFINE S == SerieOf(m)  a == Accepted(m)  new == SubSeq(m.lote, 1, a)
  <1>1. /\ a \in DOMAIN m.lote /\ m.nro + a - 1 <= MaxNro /\ m.lote[1] \notin Invalid
    BY AcceptedPrefix DEF Acceptable
  <1>2. /\ m.lote \in Seq(Invoices) /\ S \in Series /\ m.lote # <<>> /\ m.nro \in Nat
    BY <1>1, LoteUniform DEF Requests
  <1>3. /\ registry[S] \in Seq(Invoices) /\ Len(registry[S]) \in Nat
        /\ m.nro = Len(registry[S]) + 1 /\ MaxNro \in Nat
    BY <1>2, InvoicesAssumption DEF RegistryType, Acceptable, Ultimo
  <1>4. /\ new \in Seq(Invoices) /\ Len(new) = a /\ a \in 1..Len(m.lote)
        /\ \A k \in 1..a : new[k] = m.lote[k]
    BY <1>1, <1>2
  <1>5. registry' = [registry EXCEPT ![S] = registry[S] \o new]
    BY DEF Register
  <1>6. /\ registry'[S] = registry[S] \o new
        /\ \A s \in Series \ {S} : registry'[s] = registry[s]
        /\ registry' \in [Series -> Seq(Invoices)]
    <2> HIDE DEF S, a, new
    <2> QED BY <1>2, <1>3, <1>4, <1>5 DEF RegistryType
  <1>7. /\ Len(registry'[S]) = Len(registry[S]) + a
        /\ \A n \in 1..Len(registry[S]) : registry'[S][n] = registry[S][n]
        /\ \A n \in Len(registry[S])+1..Len(registry[S])+a :
             registry'[S][n] = new[n - Len(registry[S])]
    <2> HIDE DEF S, a, new
    <2> DEFINE old == registry[S]
    <2>1. old \in Seq(Invoices) /\ new \in Seq(Invoices)
      BY <1>3, <1>4
    <2> HIDE DEF old
    <2>2. /\ Len(old \o new) = Len(old) + Len(new)
          /\ \A n \in 1..Len(old) : (old \o new)[n] = old[n]
          /\ \A n \in Len(old)+1..Len(old)+Len(new) : (old \o new)[n] = new[n - Len(old)]
      BY <2>1, ConcatAt
    <2> QED BY <1>4, <1>6, <2>2 DEF old
  <1>8. RegistryType'
    <2> HIDE DEF S, a, new
    <2>1. Len(registry'[S]) <= MaxNro
      BY <1>1, <1>3, <1>4, <1>7
    <2> QED BY <1>6, <2>1 DEF RegistryType
  <1>9. DOMAIN registry[S] = 1..Len(registry[S]) /\ DOMAIN registry'[S] = 1..Len(registry'[S])
    <2> HIDE DEF S, a, new
    <2> QED BY <1>2, <1>6, <1>3
  <1>10. m.nro \in DOMAIN registry'[S]
    <2> HIDE DEF S, a, new
    <2> QED BY <1>3, <1>4, <1>7, <1>9
  <1>11. ASSUME NEW s \in Series, NEW n \in DOMAIN registry[s]
         PROVE  n \in DOMAIN registry'[s] /\ registry'[s][n] = registry[s][n]
    <2> HIDE DEF S, a, new
    <2>1. CASE s = S
      <3>1. n \in 1..Len(registry[S]) /\ n \in 1..Len(registry[S]) + a
        BY <1>3, <1>4, <1>9, <1>11, <2>1
      <3> QED BY <1>7, <1>9, <2>1, <3>1
    <2>2. CASE s # S
      BY <1>6, <1>11, <2>2
    <2> QED BY <2>1, <2>2
  <1>12. ASSUME NEW s \in Series, NEW n \in DOMAIN registry'[s], n \notin DOMAIN registry[s]
         PROVE  /\ s = S /\ n >= m.nro
                /\ n - m.nro + 1 \in DOMAIN m.lote
                /\ registry'[s][n] = m.lote[n - m.nro + 1]
    <2> HIDE DEF S, a, new
    <2>1. s = S
      BY <1>6, <1>12
    <2>2. n \in Len(registry[S])+1..Len(registry[S])+a
      BY <1>3, <1>4, <1>7, <1>9, <1>12, <2>1
    <2>3. n - Len(registry[S]) = n - m.nro + 1 /\ n - m.nro + 1 \in 1..a /\ n >= m.nro
      BY <1>3, <1>4, <2>2
    <2>4. registry'[S][n] = new[n - m.nro + 1]
      BY <1>7, <2>2, <2>3
    <2> QED BY <1>2, <1>4, <2>1, <2>3, <2>4
  <1> QED BY <1>1, <1>8, <1>10, <1>11, <1>12

-----------------------------------------------------------------------------
(* What the answers and the results may be *)

UltimoAnswers == [errors : {<<>>} \cup GlitchCodes, nro : 0..MaxNro]
ConsultaAnswers == [errors : {<<>>} \cup ConsultaCodes, cae : CAEs \cup {NoCAE}]

\* A rejection for good is only ever given to a request AFIP will not accept.
Justified(r, m) ==
  /\ r \in Results
  /\ Permanent(r) /\ ~AlreadyRegistered(r) => m.lote[1] \in Invalid

\* A permanent error that a call returned is such a rejection, or came from
\* the consultation.
Explained(r, m) ==
  Permanent(r) => /\ m.nro # 0
                  /\ \/ m.lote[1] \in Invalid
                     \/ r.reproceso = TRUE /\ ~ConsultaTransient

Local(e) ==
  LET m == solicitud[e] IN
  /\ m.lote = <<>> => m.nro = 0 /\ pc[e] = "idle"
  /\ m.lote # <<>> => EmitterOf(m.lote[1]) = e
  /\ pc[e] = "ultimo" => m.nro = 0 /\ (answer[e] = NoAnswer \/ answer[e] \in UltimoAnswers)
  /\ pc[e] = "solicitar" =>
       m.nro # 0 /\ (answer[e] = NoAnswer \/ Justified(SolicitarResult(answer[e]), m))
  /\ pc[e] = "consultar" => m.nro # 0 /\ (answer[e] = NoAnswer \/ answer[e] \in ConsultaAnswers)
  /\ pc[e] \in {"idle", "decide"} => answer[e] = NoAnswer
  /\ Explained(ret[e], m)

TypeInv ==
  /\ RegistryType
  /\ late \subseteq Requests
  /\ pc \in [Emitters -> {"idle", "ultimo", "solicitar", "consultar", "decide"}]
  /\ solicitud \in [Emitters -> Solicitudes]
  /\ DOMAIN answer = Emitters
  /\ ret \in [Emitters -> Results]
  /\ outcome \in [Invoices -> {"pending", "reported", "rejected"}]
  /\ \A e \in Emitters : Local(e)

\* The lists AFIP answers, and what IsRetryable and HasCode say of them.
LEMMA CodeLists ==
  /\ \A c \in RegisteredCodes : c \in Codes /\ c # <<>> /\ IsAlreadyRegistered(c)
  /\ \A c \in RejectedCodes : c \in Codes /\ c # <<>>
  /\ \A c \in GlitchCodes : c \in Codes /\ c # <<>> /\ IsRetryable(c)
  /\ \A c \in ConsultaCodes :
       c \in Codes /\ c # <<>> /\ (~IsRetryable(c) => ~ConsultaTransient)
  /\ <<>> \in Codes /\ IsRetryable(<<>>)
  <1>1. \A c \in RegisteredCodes : IsAlreadyRegistered(c) /\ c # <<>>
    BY CodesAssumption DEF IsAlreadyRegistered, HasCode, Range
  <1>2. \A c \in RejectedCodes : c # <<>>
    BY CodesAssumption DEF Range
  <1>3. \A c \in GlitchCodes : c # <<>> /\ IsRetryable(c)
    BY CodesAssumption DEF IsRetryable, Range
  <1>4. \A c \in ConsultaCodes : c # <<>> /\ (~IsRetryable(c) => ~ConsultaTransient)
    BY CodesAssumption DEF IsRetryable, Range, ConsultaTransient
  <1> QED BY <1>1, <1>2, <1>3, <1>4 DEF Codes, IsRetryable

LEMMA FailedType ==
  /\ \A c \in Codes : Failed(AFIPError(c)) \in Results
  /\ Failed(ErrSOAP) \in Results /\ Failed(PlainError) \in Results /\ NotCalled \in Results
  /\ \A c \in Seq(Nat) \cup Codes :
       /\ Permanent(Failed(AFIPError(c))) <=> ~IsRetryable(c)
       /\ AlreadyRegistered(Failed(AFIPError(c))) <=> IsAlreadyRegistered(c)
  /\ ~Permanent(Failed(ErrSOAP)) /\ ~Permanent(Failed(PlainError)) /\ ~Permanent(NotCalled)
  BY CodeLists DEF Failed, AFIPError, ErrSOAP, PlainError, NotCalled, Results, Permanent,
                   AlreadyRegistered, IsAFIPError

\* Wrapping keeps what errors.As finds.
LEMMA WrappedType ==
  ASSUME NEW r \in Results, r.kind # "ok"
  PROVE  /\ Wrapped(r) \in Results /\ Wrapped(r).reproceso = TRUE
         /\ Wrapped(r).kind = r.kind /\ (Permanent(Wrapped(r)) <=> Permanent(r))
  BY DEF Wrapped, Results, Permanent, IsAFIPError

LEMMA OkType ==
  \A c \in CAEs, b \in BOOLEAN : Ok(c, b) \in Results /\ ~Permanent(Ok(c, b))
  BY DEF Ok, Results, Permanent, IsAFIPError

\* Header errors are what the call returns.
LEMMA HeaderResult ==
  ASSUME NEW c \in Codes, c # <<>>
  PROVE  SolicitarResult(HeaderErrors(c)) = Failed(AFIPError(c))
  BY DEF SolicitarResult, HeaderErrors, FECAEResponse

\* Without them it is the first detail that speaks.
LEMMA DetailResult ==
  ASSUME NEW m \in Requests, NEW n \in Nat, NEW obs \in Codes, NEW b \in BOOLEAN
  PROVE  SolicitarResult(FECAEResponse(<<>>, Answered(m, n, obs), b))
           = IF n >= 1 THEN Ok(CAE(SerieOf(m), m.nro), b)
             ELSE IF obs = <<>> THEN Failed(PlainError) ELSE Failed(AFIPError(obs))
  <1>1. m.lote \in Seq(Invoices) /\ m.lote # <<>> /\ 1 \in DOMAIN m.lote /\ m.nro \in Nat
    BY InvoicesAssumption DEF Requests
  <1>2. Answered(m, n, obs) # <<>>
    BY <1>1 DEF Answered
  <1>3. Answered(m, n, obs)[1] = IF n >= 1 THEN DetailApproved(CAE(SerieOf(m), m.nro))
                                 ELSE DetailRejected(obs)
    BY <1>1 DEF Answered
  <1> QED BY <1>2, <1>3 DEF SolicitarResult, FECAEResponse, DetailApproved, DetailRejected, Detail

-----------------------------------------------------------------------------
(* Types and answers are kept *)

LEMMA InitTypes == Init => TypeInv
  <1> SUFFICES ASSUME Init PROVE TypeInv
    OBVIOUS
  <1>1. RegistryType
    BY InvoicesAssumption DEF Init, RegistryType
  <1>2. solicitud \in [Emitters -> Solicitudes] /\ ret \in [Emitters -> Results]
    BY FailedType, InvoicesAssumption DEF Init, Solicitudes
  <1>3. \A e \in Emitters : Local(e)
    BY FailedType DEF Init, Local, Explained
  <1> QED BY <1>1, <1>2, <1>3 DEF Init, TypeInv

LEMMA NumberedRequest ==
  ASSUME TypeInv, NEW e \in Emitters, pc[e] # "idle"
  PROVE  /\ solicitud[e].lote \in Lotes /\ solicitud[e].lote # <<>>
         /\ solicitud[e].nro # 0 => solicitud[e] \in Requests
         /\ EmitterOf(solicitud[e].lote[1]) = e
  BY InvoicesAssumption DEF TypeInv, Local, Solicitudes, Requests

LEMMA AnswerTypes ==
  ASSUME TypeInv, NEW e \in Emitters, NEW a, Answer(e, a), RegistryType',
         \/ pc[e] = "ultimo" /\ a \in UltimoAnswers
         \/ pc[e] = "solicitar" /\ Justified(SolicitarResult(a), solicitud[e])
         \/ pc[e] = "consultar" /\ a \in ConsultaAnswers
  PROVE  TypeInv'
  <1>1. ASSUME NEW f \in Emitters PROVE Local(f)'
    BY <1>1 DEF TypeInv, Local, Answer
  <1> QED BY <1>1 DEF TypeInv, Answer

LEMMA ReturnTypes ==
  ASSUME TypeInv, NEW e \in Emitters, NEW r \in Results, Return(e, r), pc[e] # "idle",
         Explained(r, solicitud[e]), late' \subseteq Requests
  PROVE  TypeInv'
  <1>1. ASSUME NEW f \in Emitters PROVE Local(f)'
    <2>1. /\ UNCHANGED solicitud /\ pc' = [pc EXCEPT ![e] = "decide"]
          /\ ret' = [ret EXCEPT ![e] = r] /\ answer' = [answer EXCEPT ![e] = NoAnswer]
      BY DEF Return, Goto
    <2> QED BY <1>1, <2>1 DEF TypeInv, Local
  <1> QED BY <1>1 DEF TypeInv, Return, Goto, RegistryType

LEMMA ClientTypes ==
  ASSUME TypeInv, NEW e \in Emitters, Client(e)
  PROVE  TypeInv'
  <1>1. ASSUME NEW l \in Lotes, CallUltimoAutorizado(e, l) PROVE TypeInv'
    <2>1. l # <<>> /\ [lote |-> l, nro |-> 0] \in Solicitudes
      BY InvoicesAssumption DEF Solicitudes
    <2>2. ASSUME NEW f \in Emitters PROVE Local(f)'
      BY <1>1, <2>1, <2>2, FailedType DEF TypeInv, Local, CallUltimoAutorizado, Goto, Explained
    <2> QED BY <1>1, <2>1, <2>2, FailedType DEF TypeInv, CallUltimoAutorizado, Goto, RegistryType
  <1>2. ASSUME Decide(e) PROVE TypeInv'
    <2>1. pc[e] = "decide" /\ UNCHANGED <<registry, late, solicitud, answer, ret>>
      BY <1>2 DEF Decide
    <2>2. outcome' \in [Invoices -> {"pending", "reported", "rejected"}]
      BY <1>2 DEF Decide, TypeInv
    <2>3. /\ pc' \in [Emitters -> {"idle", "ultimo", "solicitar", "consultar", "decide"}]
          /\ \A f \in Emitters \ {e} : pc'[f] = pc[f]
          /\ \/ pc'[e] = "idle"
             \/ pc'[e] = "ultimo" /\ Nro(e) = 0
             \/ pc'[e] = "solicitar" /\ Nro(e) # 0
      BY <1>2 DEF Decide, TypeInv, Goto
    <2>4. ASSUME NEW f \in Emitters PROVE Local(f)'
      BY <2>1, <2>3, <2>4 DEF TypeInv, Local, Nro
    <2> QED BY <2>1, <2>2, <2>3, <2>4 DEF TypeInv, RegistryType
  <1>3. ASSUME UltimoOk(e) PROVE TypeInv'
    <2>1. answer[e].nro + 1 \in 1..MaxNro+1
      BY <1>3, InvoicesAssumption DEF UltimoOk, TypeInv, Local, UltimoAnswers
    <2>2. [solicitud[e] EXCEPT !.nro = answer[e].nro + 1] \in Solicitudes
      <3>1. solicitud[e] \in Solicitudes /\ answer[e].nro + 1 \in 0..MaxNro+1
        BY <2>1, InvoicesAssumption DEF TypeInv
      <3> QED BY <3>1 DEF Solicitudes
    <2>3. ASSUME NEW f \in Emitters PROVE Local(f)'
      BY <1>3, <2>1, <2>3 DEF TypeInv, Local, UltimoOk, Goto, Solicitudes, Explained
    <2> QED BY <1>3, <2>2, <2>3 DEF TypeInv, UltimoOk, Goto, RegistryType
  <1>4. ASSUME UltimoFails(e) PROVE TypeInv'
    <2>1. pc[e] = "ultimo" /\ late' \subseteq Requests
      BY <1>4 DEF UltimoFails, TypeInv
    <2>2. CASE Return(e, Failed(ErrSOAP))
      BY <2>1, <2>2, FailedType, ReturnTypes DEF Explained
    <2>3. CASE answer[e] # NoAnswer /\ answer[e].errors # <<>>
                 /\ Return(e, Failed(AFIPError(answer[e].errors)))
      <3>1. answer[e].errors \in GlitchCodes
        BY <2>1, <2>3 DEF TypeInv, Local, UltimoAnswers
      <3>2. /\ Failed(AFIPError(answer[e].errors)) \in Results
            /\ ~Permanent(Failed(AFIPError(answer[e].errors)))
        BY <3>1, CodeLists, FailedType
      <3> QED BY <2>1, <2>3, <3>2, ReturnTypes DEF Explained
    <2> QED BY <1>4, <2>2, <2>3 DEF UltimoFails
  <1>5. ASSUME SolicitarTransportFails(e) PROVE TypeInv'
    <2>1. pc[e] = "solicitar" /\ Return(e, Failed(ErrSOAP)) /\ late' \subseteq late \cup {solicitud[e]}
      BY <1>5 DEF SolicitarTransportFails
    <2>2. solicitud[e] \in Requests
      BY <2>1, NumberedRequest DEF TypeInv, Local
    <2>3. late' \subseteq Requests
      BY <2>1, <2>2 DEF TypeInv
    <2> QED BY <2>1, <2>3, FailedType, ReturnTypes DEF Explained
  <1>6. ASSUME SolicitarReturns(e) PROVE TypeInv'
    <2>1. /\ pc[e] = "solicitar" /\ answer[e] # NoAnswer /\ late' \subseteq Requests
          /\ ~AlreadyRegistered(SolicitarResult(answer[e]))
          /\ Return(e, SolicitarResult(answer[e]))
      BY <1>6 DEF SolicitarReturns, TypeInv
    <2>2. Justified(SolicitarResult(answer[e]), solicitud[e]) /\ solicitud[e].nro # 0
      BY <2>1 DEF TypeInv, Local
    <2> QED BY <2>1, <2>2, ReturnTypes DEF Justified, Explained
  <1>7. ASSUME Reproceso(e) PROVE TypeInv'
    <2>1. ASSUME NEW f \in Emitters PROVE Local(f)'
      BY <1>7, <2>1 DEF TypeInv, Local, Reproceso, Goto
    <2> QED BY <1>7, <2>1 DEF TypeInv, Reproceso, Goto, RegistryType
  <1>8. ASSUME ConsultarReturns(e) PROVE TypeInv'
    <2> DEFINE a == answer[e]
    <2>1. pc[e] = "consultar" /\ a \in ConsultaAnswers /\ late' \subseteq Requests
          /\ Return(e, ConsultaResult(a))
      BY <1>8 DEF ConsultarReturns, TypeInv, Local
    <2>2. solicitud[e].nro # 0
      BY <2>1 DEF TypeInv, Local
    <2>3. ConsultaResult(a) \in Results /\ Explained(ConsultaResult(a), solicitud[e])
      <3>1. CASE a.errors # <<>>
        <4> DEFINE r == Failed(AFIPError(a.errors))
        <4>1. a.errors \in ConsultaCodes
          BY <2>1, <3>1 DEF ConsultaAnswers
        <4>2. ConsultaResult(a) = Wrapped(r)
          BY <3>1 DEF ConsultaResult
        <4>3. r \in Results /\ r.kind # "ok" /\ (Permanent(r) => ~ConsultaTransient)
          BY <4>1, CodeLists, FailedType DEF Failed, AFIPError
        <4> HIDE DEF r
        <4> QED BY <2>2, <4>2, <4>3, WrappedType DEF Explained
      <3>2. CASE a.errors = <<>> /\ a.cae = NoCAE
        <4>1. Failed(PlainError).kind # "ok"
          BY DEF Failed, PlainError
        <4>2. ConsultaResult(a) = Wrapped(Failed(PlainError))
          BY <3>2 DEF ConsultaResult
        <4> QED BY <4>1, <4>2, FailedType, WrappedType DEF Explained
      <3>3. CASE a.errors = <<>> /\ a.cae # NoCAE
        BY <2>1, <3>3, OkType DEF ConsultaResult, ConsultaAnswers, Explained
      <3> QED BY <3>1, <3>2, <3>3
    <2> HIDE DEF a
    <2> QED BY <2>1, <2>3, ReturnTypes
  <1>9. ASSUME ConsultarTransportFails(e) PROVE TypeInv'
    <2>1. /\ pc[e] = "consultar" /\ late' \subseteq Requests
          /\ Return(e, Wrapped(Failed(ErrSOAP)))
      BY <1>9 DEF ConsultarTransportFails, TypeInv
    <2>2. Failed(ErrSOAP).kind # "ok"
      BY DEF Failed, ErrSOAP
    <2> QED BY <2>1, <2>2, FailedType, WrappedType, ReturnTypes DEF Explained
  <1> QED BY <1>1, <1>2, <1>3, <1>4, <1>5, <1>6, <1>7, <1>8, <1>9 DEF Client

LEMMA AfipTypes ==
  ASSUME TypeInv, NEW e \in Emitters, Afip(e)
  PROVE  TypeInv'
  <1> DEFINE m == solicitud[e]
  <1>1. ASSUME pc[e] = "solicitar" PROVE m \in Requests /\ m.lote[1] \in Invoices
    BY <1>1, NumberedRequest, InvoicesAssumption DEF TypeInv, Local
  <1>2. ASSUME UNCHANGED registry PROVE RegistryType'
    BY <1>2 DEF TypeInv, RegistryType
  <1>3. ASSUME AnswerUltimo(e) PROVE TypeInv'
    <2>1. Serie(e) \in Series
      BY <1>3, NumberedRequest, InvoicesAssumption DEF AnswerUltimo, Serie, SerieOf
    <2>2. Ultimo(Serie(e)) \in 0..MaxNro
      BY <2>1, InvoicesAssumption DEF TypeInv, RegistryType, Ultimo
    <2>3. FECompUltimoAutorizadoResponse(<<>>, Ultimo(Serie(e))) \in UltimoAnswers
      BY <2>2 DEF FECompUltimoAutorizadoResponse, UltimoAnswers
    <2> QED BY <1>2, <1>3, <2>3, AnswerTypes DEF AnswerUltimo
  <1>4. ASSUME GlitchUltimo(e) PROVE TypeInv'
    <2>1. PICK c \in GlitchCodes : Answer(e, FECompUltimoAutorizadoResponse(c, 0))
      BY <1>4 DEF GlitchUltimo
    <2>2. FECompUltimoAutorizadoResponse(c, 0) \in UltimoAnswers
      BY InvoicesAssumption DEF FECompUltimoAutorizadoResponse, UltimoAnswers
    <2> QED BY <1>2, <1>4, <2>1, <2>2, AnswerTypes DEF GlitchUltimo
  <1>5. ASSUME NEW a, pc[e] = "solicitar", Answer(e, a), RegistryType',
               Justified(SolicitarResult(a), m)
        PROVE  TypeInv'
    BY <1>5, AnswerTypes
  <1>6. ASSUME pc[e] = "solicitar", UNCHANGED registry, NEW c \in Codes, c # <<>>,
               Answer(e, HeaderErrors(c)),
               ~IsRetryable(c) /\ ~IsAlreadyRegistered(c) => m.lote[1] \in Invalid
        PROVE  TypeInv'
    <2>1. Justified(SolicitarResult(HeaderErrors(c)), m)
      BY <1>6, HeaderResult, FailedType DEF Justified
    <2> QED BY <1>2, <1>5, <1>6, <2>1
  <1>7. ASSUME pc[e] = "solicitar", UNCHANGED registry, NEW c \in Codes,
               Answer(e, FECAEResponse(<<>>, Answered(m, 0, c), FALSE)),
               ~IsRetryable(c) /\ ~IsAlreadyRegistered(c) => m.lote[1] \in Invalid
        PROVE  TypeInv'
    <2>1. SolicitarResult(FECAEResponse(<<>>, Answered(m, 0, c), FALSE))
            = IF c = <<>> THEN Failed(PlainError) ELSE Failed(AFIPError(c))
      <3>1. m \in Requests /\ 0 \in Nat /\ FALSE \in BOOLEAN /\ ~(0 >= 1)
        BY <1>1, <1>7
      <3> HIDE DEF m
      <3> QED BY <3>1, DetailResult
    <2>2. Justified(SolicitarResult(FECAEResponse(<<>>, Answered(m, 0, c), FALSE)), m)
      BY <1>7, <2>1, FailedType DEF Justified
    <2> QED BY <1>2, <1>5, <1>7, <2>2
  <1>8. ASSUME pc[e] = "solicitar", RegistryType', NEW b \in BOOLEAN, NEW n \in Nat, n >= 1,
               m.nro <= MaxNro, Answer(e, FECAEResponse(<<>>, Answered(m, n, <<>>), b))
        PROVE  TypeInv'
    <2>1. CAE(SerieOf(m), m.nro) \in CAEs
      BY <1>1, <1>8, InvoicesAssumption DEF CAE, CAEs, SerieOf, Requests
    <2>2. SolicitarResult(FECAEResponse(<<>>, Answered(m, n, <<>>), b)) = Ok(CAE(SerieOf(m), m.nro), b)
      BY <1>1, <1>8, CodeLists, DetailResult
    <2>3. Justified(SolicitarResult(FECAEResponse(<<>>, Answered(m, n, <<>>), b)), m)
      BY <2>1, <2>2, OkType DEF Justified
    <2> QED BY <1>5, <1>8, <2>3
  <1>9. ASSUME Authorize(e) PROVE TypeInv'
    <2>1. /\ pc[e] = "solicitar" /\ Acceptable(m) /\ Register(m)
          /\ Answer(e, FECAEResponse(<<>>, Answered(m, Accepted(m), <<>>), FALSE))
      BY <1>9 DEF Authorize
    <2>2. RegistryType' /\ Prefixes(m) # {}
      BY <1>1, <2>1, Registers DEF TypeInv, Acceptable
    <2>3. Accepted(m) \in DOMAIN m.lote /\ m.nro + Accepted(m) - 1 <= MaxNro
      BY <1>1, <2>1, <2>2, AcceptedPrefix
    <2>4. Accepted(m) \in Nat /\ Accepted(m) >= 1 /\ m.nro <= MaxNro
      BY <1>1, <2>1, <2>3, InvoicesAssumption DEF Requests
    <2> QED BY <1>8, <2>1, <2>2, <2>4
  <1>10. ASSUME AnswerTaken(e) PROVE TypeInv'
    <2>1. /\ pc[e] = "solicitar" /\ UNCHANGED registry /\ m.nro <= Ultimo(Serie(e))
          /\ \/ \E c \in RegisteredCodes :
                  \/ Answer(e, HeaderErrors(c))
                  \/ Answer(e, FECAEResponse(<<>>, Answered(m, 0, c), FALSE))
             \/ Answer(e, FECAEResponse(<<>>, Answered(m, Len(m.lote), <<>>), TRUE))
      BY <1>10 DEF AnswerTaken
    <2>2. CASE \E c \in RegisteredCodes :
                  \/ Answer(e, HeaderErrors(c))
                  \/ Answer(e, FECAEResponse(<<>>, Answered(m, 0, c), FALSE))
      BY <1>6, <1>7, <2>1, <2>2, CodeLists
    <2>3. CASE Answer(e, FECAEResponse(<<>>, Answered(m, Len(m.lote), <<>>), TRUE))
      <3>1. m.lote \in Seq(Invoices) /\ m.lote # <<>> /\ Serie(e) \in Series /\ m.nro \in Nat
        BY <1>1, <2>1, InvoicesAssumption DEF Requests, Serie, SerieOf
      <3>2. Len(m.lote) \in Nat /\ Len(m.lote) >= 1
        BY <3>1
      <3>3. m.nro <= MaxNro
        BY <2>1, <3>1, InvoicesAssumption DEF TypeInv, RegistryType, Ultimo
      <3> QED BY <1>2, <1>8, <2>1, <2>3, <3>2, <3>3
    <2> QED BY <2>1, <2>2, <2>3
  <1>11. ASSUME NEW obs \in RejectedCodes \cup {<<>>}, Reject(e, obs) PROVE TypeInv'
    <2>1. /\ pc[e] = "solicitar" /\ m.lote[1] \in Invalid /\ UNCHANGED registry
          /\ \/ Answer(e, FECAEResponse(<<>>, Answered(m, 0, obs), FALSE))
             \/ obs # <<>> /\ Answer(e, HeaderErrors(obs))
      BY <1>11 DEF Reject
    <2> QED BY <1>6, <1>7, <2>1, CodeLists
  <1>12. ASSUME Glitch(e) PROVE TypeInv'
    <2>1. /\ pc[e] = "solicitar" /\ UNCHANGED registry
          /\ \/ \E c \in GlitchCodes : Answer(e, HeaderErrors(c))
             \/ Answer(e, EmptyDetails)
      BY <1>12 DEF Glitch
    <2>2. CASE Answer(e, EmptyDetails)
      <3>1. SolicitarResult(EmptyDetails) = Failed(PlainError)
        BY DEF SolicitarResult, EmptyDetails, HeaderErrors, FECAEResponse
      <3>2. Justified(SolicitarResult(EmptyDetails), m)
        BY <3>1, FailedType DEF Justified
      <3> QED BY <1>2, <1>5, <2>1, <2>2, <3>2
    <2> QED BY <1>6, <2>1, <2>2, CodeLists
  <1>13. ASSUME AnswerConsulta(e) PROVE TypeInv'
    <2> DEFINE c == IF Nro(e) \in DOMAIN registry[Serie(e)] THEN CAE(Serie(e), Nro(e)) ELSE NoCAE
    <2>1. pc[e] = "consultar" /\ UNCHANGED registry /\ Answer(e, FECompConsultarResponse(<<>>, c))
      BY <1>13 DEF AnswerConsulta, FeCompConsReq
    <2>2. Serie(e) \in Series
      BY <2>1, NumberedRequest, InvoicesAssumption DEF Serie, SerieOf
    <2>3. c \in CAEs \cup {NoCAE}
      BY <2>2, InvoicesAssumption DEF TypeInv, RegistryType, CAE, CAEs
    <2>4. FECompConsultarResponse(<<>>, c) \in ConsultaAnswers
      <3> HIDE DEF c
      <3> QED BY <2>3 DEF FECompConsultarResponse, ConsultaAnswers
    <2> QED BY <1>2, <2>1, <2>4, AnswerTypes
  <1>14. ASSUME GlitchConsulta(e) PROVE TypeInv'
    <2>1. PICK c \in ConsultaCodes \cup {<<>>} : Answer(e, FECompConsultarResponse(c, NoCAE))
      BY <1>14 DEF GlitchConsulta
    <2>2. FECompConsultarResponse(c, NoCAE) \in ConsultaAnswers
      BY DEF FECompConsultarResponse, ConsultaAnswers
    <2> QED BY <1>2, <1>14, <2>1, <2>2, AnswerTypes DEF GlitchConsulta
  <1> HIDE DEF m
  <1> QED BY <1>3, <1>4, <1>9, <1>10, <1>11, <1>12, <1>13, <1>14
          DEF Afip, RejectSaying, RejectSilently

LEMMA NextTypes == TypeInv /\ [Next]_vars => TypeInv'
  <1> SUFFICES ASSUME TypeInv, [Next]_vars PROVE TypeInv'
    OBVIOUS
  <1>1. ASSUME NEW m \in late, DeliverLate(m) PROVE TypeInv'
    <2>1. RegistryType'
      BY <1>1, Registers DEF TypeInv, DeliverLate, RegistryType
    <2>2. ASSUME NEW f \in Emitters PROVE Local(f)'
      BY <1>1, <2>2 DEF TypeInv, Local, DeliverLate
    <2> QED BY <1>1, <2>1, <2>2 DEF TypeInv, DeliverLate
  <1>2. CASE UNCHANGED vars
    BY <1>2 DEF TypeInv, Local, RegistryType, vars
  <1> QED BY <1>1, <1>2, ClientTypes, AfipTypes DEF Next

\* Every reachable state is well typed; what a call returns is a CAE AFIP may
\* give, or a failure.
THEOREM TypeCorrect == Spec => []TypeOK
  <1>1. TypeInv => TypeOK
    BY InvoicesAssumption DEF TypeInv, TypeOK, RegistryType, Requests, Solicitudes
  <1> QED BY <1>1, InitTypes, NextTypes, PTL DEF Spec

-----------------------------------------------------------------------------
(* One invoice, one request, one number *)

\* The requests that have a number: travelling, or held by their emitter.
Live == late \cup {solicitud[e] : e \in {f \in Emitters : solicitud[f].nro # 0}}

\* Whoever is in a call or about to decide has not been told about its invoices.
Undecided ==
  \A e \in Emitters : pc[e] # "idle" =>
    \A k \in DOMAIN solicitud[e].lote : outcome[solicitud[e].lote[k]] = "pending"

\* An invoice has been put in one request, with one number.
OneRequest ==
  \A m, n \in Live : \A j \in DOMAIN m.lote, k \in DOMAIN n.lote :
    m.lote[j] = n.lote[k] => m = n

\* A late request whose invoices are still pending is its emitter's current one.
LateOpen ==
  \A m \in late : \A k \in DOMAIN m.lote : outcome[m.lote[k]] = "pending" =>
    solicitud[EmitterOf(m.lote[k])] = m /\ pc[EmitterOf(m.lote[k])] # "idle"

\* So is the request of a pending invoice that AFIP has registered.
RegisteredOpen ==
  \A s \in Series : \A n \in DOMAIN registry[s] : outcome[registry[s][n]] = "pending" =>
    LET e == EmitterOf(registry[s][n]) IN
      /\ registry[s][n] \in Range(solicitud[e].lote)
      /\ solicitud[e].nro # 0 /\ pc[e] # "idle"

\* A registered invoice is where its request asked for it, and its request is
\* one that AFIP accepts.
InPlace ==
  \A s \in Series : \A n \in DOMAIN registry[s] : \A m \in Live : \A k \in DOMAIN m.lote :
    m.lote[k] = registry[s][n] =>
      s = SerieOf(m) /\ n = m.nro + k - 1 /\ m.lote[1] \notin Invalid

NumInv ==
  Undecided /\ OneRequest /\ LateOpen /\ RegisteredOpen /\ InPlace /\ AuthorizedOnce

LEMMA LiveTypes ==
  ASSUME TypeInv
  PROVE  /\ Live \subseteq Requests
         /\ \A e \in Emitters : solicitud[e].lote # <<>> => solicitud[e].lote \in Lotes
         /\ \A e \in Emitters : solicitud[e].nro # 0 =>
              solicitud[e] \in Live /\ EmitterOf(solicitud[e].lote[1]) = e
  <1>1. ASSUME NEW e \in Emitters, solicitud[e].nro # 0
        PROVE  solicitud[e] \in Requests /\ EmitterOf(solicitud[e].lote[1]) = e
    BY <1>1, InvoicesAssumption DEF TypeInv, Local, Solicitudes, Requests
  <1>2. \A e \in Emitters : solicitud[e].lote # <<>> => solicitud[e].lote \in Lotes
    BY DEF TypeInv, Solicitudes
  <1> QED BY <1>1, <1>2 DEF Live, TypeInv

\* Every invoice of a lote has the emitter of the first.
LEMMA OneEmitter ==
  ASSUME TypeInv, NEW e \in Emitters, NEW k \in DOMAIN solicitud[e].lote
  PROVE  /\ EmitterOf(solicitud[e].lote[k]) = e /\ solicitud[e].lote[k] \in Invoices
         /\ solicitud[e].lote[k] \in Range(solicitud[e].lote)
  <1> DEFINE l == solicitud[e].lote
  <1>1. l # <<>>
    OBVIOUS
  <1>2. l \in Lotes /\ EmitterOf(l[1]) = e /\ l[k] \in Range(l)
    BY <1>1, LiveTypes DEF TypeInv, Local, Range
  <1>3. l \in Seq(Invoices) /\ 1 \in DOMAIN l
    BY <1>1, <1>2, InvoicesAssumption
  <1> HIDE DEF l
  <1>4. k \in DOMAIN l
    BY DEF l
  <1>5. EmitterOf(l[k]) = EmitterOf(l[1]) /\ l[k] \in Invoices
    BY <1>2, <1>3, <1>4, InvoicesAssumption
  <1> QED BY <1>2, <1>5 DEF l

\* The invoices of a request that has no number yet are in no request that has
\* one, and not registered.
LEMMA Unnumbered ==
  ASSUME TypeInv, NumInv, NEW e \in Emitters, pc[e] # "idle", solicitud[e].nro = 0,
         NEW k \in DOMAIN solicitud[e].lote
  PROVE  /\ \A m \in Live : \A j \in DOMAIN m.lote : m.lote[j] # solicitud[e].lote[k]
         /\ \A s \in Series : \A n \in DOMAIN registry[s] : registry[s][n] # solicitud[e].lote[k]
  <1> DEFINE i == solicitud[e].lote[k]
  <1>1. outcome[i] = "pending" /\ EmitterOf(i) = e
    BY OneEmitter DEF NumInv, Undecided
  <1>2. ASSUME NEW m \in late, NEW j \in DOMAIN m.lote, m.lote[j] = i PROVE FALSE
    <2>1. solicitud[e] = m
      BY <1>1, <1>2 DEF NumInv, LateOpen
    <2>2. m.nro \in 1..MaxNro+1
      BY <1>2 DEF TypeInv, Requests
    <2> QED BY <2>1, <2>2
  <1>3. ASSUME NEW f \in Emitters, solicitud[f].nro # 0, NEW j \in DOMAIN solicitud[f].lote,
               solicitud[f].lote[j] = i
        PROVE  FALSE
    BY <1>1, <1>3, OneEmitter
  <1>4. ASSUME NEW s \in Series, NEW n \in DOMAIN registry[s], registry[s][n] = i PROVE FALSE
    BY <1>1, <1>4 DEF NumInv, RegisteredOpen
  <1> QED BY <1>2, <1>3, <1>4 DEF Live

LEMMA InitNumbers == TypeInv /\ Init => NumInv
  <1> SUFFICES ASSUME TypeInv, Init PROVE NumInv
    OBVIOUS
  <1>1. Live = {} /\ \A s \in Series : DOMAIN registry[s] = {}
    BY DEF Init, Live
  <1>2. Undecided /\ LateOpen
    BY DEF Init, Undecided, LateOpen
  <1>3. OneRequest /\ RegisteredOpen /\ InPlace /\ AuthorizedOnce
    BY <1>1 DEF OneRequest, RegisteredOpen, InPlace, AuthorizedOnce
  <1> QED BY <1>2, <1>3 DEF NumInv

\* Steps that move no request, register nothing and end no call.
LEMMA QuietNumbers ==
  ASSUME TypeInv, NumInv, UNCHANGED <<registry, late, solicitud, outcome>>,
         \A f \in Emitters : pc'[f] = "idle" <=> pc[f] = "idle"
  PROVE  NumInv'
  <1>1. Live' = Live
    BY DEF Live
  <1>2. Undecided'
    BY DEF NumInv, Undecided
  <1>3. LateOpen'
    <2>1. \A m \in late : \A k \in DOMAIN m.lote : EmitterOf(m.lote[k]) \in Emitters
      BY LoteUniform DEF TypeInv
    <2> QED BY <2>1 DEF NumInv, LateOpen
  <1>4. RegisteredOpen'
    <2>1. \A s \in Series : \A n \in DOMAIN registry[s] : EmitterOf(registry[s][n]) \in Emitters
      BY InvoicesAssumption DEF TypeInv, RegistryType
    <2> QED BY <2>1 DEF NumInv, RegisteredOpen
  <1>5. OneRequest' /\ InPlace' /\ AuthorizedOnce'
    BY <1>1 DEF NumInv, OneRequest, InPlace, AuthorizedOnce
  <1> QED BY <1>2, <1>3, <1>4, <1>5 DEF NumInv

\* AFIP registers a request: its emitter's, or a late one.
LEMMA RegisterNumbers ==
  ASSUME TypeInv, NumInv, NEW m \in Live, Acceptable(m), Register(m),
         \A k \in DOMAIN m.lote : outcome[m.lote[k]] = "pending" =>
           solicitud[EmitterOf(m.lote[k])] = m /\ pc[EmitterOf(m.lote[k])] # "idle",
         UNCHANGED <<pc, solicitud, outcome>>, late' \subseteq late
  PROVE  NumInv'
  <1>1. Live' \subseteq Live /\ m \in Requests /\ m.nro # 0
    BY LiveTypes DEF Live, Requests
  <1>2. /\ m.lote[1] \notin Invalid
        /\ \A s \in Series : \A n \in DOMAIN registry[s] :
             n \in DOMAIN registry'[s] /\ registry'[s][n] = registry[s][n]
        /\ \A s \in Series : \A n \in DOMAIN registry'[s] :
              \/ n \in DOMAIN registry[s]
              \/ /\ s = SerieOf(m) /\ n >= m.nro
                 /\ n - m.nro + 1 \in DOMAIN m.lote
                 /\ registry'[s][n] = m.lote[n - m.nro + 1]
    BY <1>1, Registers DEF TypeInv
  <1>3. /\ m.lote \in Lotes /\ m.lote \in Seq(Invoices) /\ m.nro \in Nat
        /\ \A j, k \in DOMAIN m.lote : m.lote[j] = m.lote[k] => j = k
    BY <1>1, InvoicesAssumption DEF Requests
  <1>4. Undecided' /\ OneRequest' /\ LateOpen'
    BY <1>1 DEF NumInv, Undecided, OneRequest, LateOpen
  <1>5. RegisteredOpen'
    <2> SUFFICES ASSUME NEW s \in Series, NEW n \in DOMAIN registry'[s],
                        outcome[registry'[s][n]] = "pending"
                 PROVE  LET e == EmitterOf(registry'[s][n]) IN
                          /\ registry'[s][n] \in Range(solicitud[e].lote)
                          /\ solicitud[e].nro # 0 /\ pc[e] # "idle"
      BY DEF RegisteredOpen
    <2>1. CASE n \in DOMAIN registry[s]
      BY <1>2, <2>1 DEF NumInv, RegisteredOpen
    <2>2. CASE n \notin DOMAIN registry[s]
      <3>1. PICK k \in DOMAIN m.lote : registry'[s][n] = m.lote[k]
        BY <1>2, <2>2
      <3>2. m.lote[k] \in Range(m.lote)
        BY DEF Range
      <3> QED BY <1>1, <3>1, <3>2
    <2> QED BY <2>1, <2>2
  <1>6. InPlace'
    <2> SUFFICES ASSUME NEW s \in Series, NEW n \in DOMAIN registry'[s],
                        NEW q \in Live, NEW k \in DOMAIN q.lote, q.lote[k] = registry'[s][n]
                 PROVE  s = SerieOf(q) /\ n = q.nro + k - 1 /\ q.lote[1] \notin Invalid
      BY <1>1 DEF InPlace
    <2>1. CASE n \in DOMAIN registry[s]
      BY <1>2, <2>1 DEF NumInv, InPlace
    <2>2. CASE n \notin DOMAIN registry[s]
      <3>1. /\ s = SerieOf(m) /\ n >= m.nro /\ n - m.nro + 1 \in DOMAIN m.lote
            /\ registry'[s][n] = m.lote[n - m.nro + 1]
        BY <1>2, <2>2
      <3>2. q = m
        BY <3>1 DEF NumInv, OneRequest
      <3>3. k = n - m.nro + 1
        BY <1>3, <3>1, <3>2
      <3>4. n \in Int
        <4>1. RegistryType'
          BY <1>1, Registers DEF TypeInv
        <4> QED BY <4>1 DEF RegistryType
      <3> QED BY <1>2, <1>3, <3>1, <3>2, <3>3, <3>4
    <2> QED BY <2>1, <2>2
  <1>7. AuthorizedOnce'
    <2> SUFFICES ASSUME NEW s \in Series, NEW t \in Series, NEW a \in DOMAIN registry'[s],
                        NEW b \in DOMAIN registry'[t], registry'[s][a] = registry'[t][b]
                 PROVE  s = t /\ a = b
      BY DEF AuthorizedOnce
    <2>0. /\ \A x \in Series : DOMAIN registry[x] = 1..Ultimo(x) /\ Ultimo(x) \in Nat
          /\ m.nro = Ultimo(SerieOf(m)) + 1
          /\ a \in Int /\ b \in Int
      <3>1. RegistryType'
        BY <1>1, Registers DEF TypeInv
      <3> QED BY <3>1 DEF TypeInv, RegistryType, Ultimo, Acceptable
    <2>1. ASSUME NEW x \in Series, NEW c \in DOMAIN registry[x], NEW k \in DOMAIN m.lote,
                 registry[x][c] = m.lote[k]
          PROVE  FALSE
      <3>1. x = SerieOf(m) /\ c = m.nro + k - 1
        BY <2>1 DEF NumInv, InPlace
      <3>2. k \in Nat /\ k >= 1
        BY <1>3
      <3> QED BY <1>3, <2>0, <2>1, <3>1, <3>2
    <2>2. CASE a \in DOMAIN registry[s] /\ b \in DOMAIN registry[t]
      BY <1>2, <2>2 DEF NumInv, AuthorizedOnce
    <2>3. CASE a \in DOMAIN registry[s] /\ b \notin DOMAIN registry[t]
      BY <1>2, <2>1, <2>3
    <2>4. CASE a \notin DOMAIN registry[s] /\ b \in DOMAIN registry[t]
      BY <1>2, <2>1, <2>4
    <2>5. CASE a \notin DOMAIN registry[s] /\ b \notin DOMAIN registry[t]
      <3>1. s = SerieOf(m) /\ t = SerieOf(m) /\ a - m.nro + 1 = b - m.nro + 1
        BY <1>2, <1>3, <2>5
      <3> QED BY <1>3, <2>0, <3>1
    <2> QED BY <2>2, <2>3, <2>4, <2>5
  <1> QED BY <1>4, <1>5, <1>6, <1>7 DEF NumInv

\* A new request is about pending invoices, none of which is in a request or
\* in the registry.
LEMMA CallNumbers ==
  ASSUME TypeInv, NumInv, NEW e \in Emitters, NEW l \in Lotes, CallUltimoAutorizado(e, l)
  PROVE  NumInv'
  <1>1. /\ pc[e] = "idle" /\ EmitterOf(l[1]) = e
        /\ \A k \in DOMAIN l : outcome[l[k]] = "pending"
        /\ UNCHANGED <<registry, late, outcome>>
        /\ pc'[e] = "ultimo" /\ \A f \in Emitters \ {e} : pc'[f] = pc[f]
        /\ solicitud'[e] = [lote |-> l, nro |-> 0]
        /\ \A f \in Emitters \ {e} : solicitud'[f] = solicitud[f]
    BY DEF CallUltimoAutorizado, Goto, TypeInv, Range
  <1>2. Live' \subseteq Live
    BY <1>1 DEF Live
  <1>3. Undecided'
    BY <1>1 DEF NumInv, Undecided
  <1>4. LateOpen'
    <2>1. \A m \in late : \A k \in DOMAIN m.lote : EmitterOf(m.lote[k]) \in Emitters
      BY LoteUniform DEF TypeInv
    <2> QED BY <1>1, <2>1 DEF NumInv, LateOpen
  <1>5. RegisteredOpen'
    <2>1. \A s \in Series : \A n \in DOMAIN registry[s] : EmitterOf(registry[s][n]) \in Emitters
      BY InvoicesAssumption DEF TypeInv, RegistryType
    <2> QED BY <1>1, <2>1 DEF NumInv, RegisteredOpen
  <1>6. OneRequest' /\ InPlace' /\ AuthorizedOnce'
    BY <1>1, <1>2 DEF NumInv, OneRequest, InPlace, AuthorizedOnce
  <1> QED BY <1>3, <1>4, <1>5, <1>6 DEF NumInv

\* A request gets its number while nothing else has its invoices.
LEMMA UltimoOkNumbers ==
  ASSUME TypeInv, NumInv, NEW e \in Emitters, UltimoOk(e)
  PROVE  NumInv'
  <1> DEFINE new == solicitud'[e]
  <1>1. /\ pc[e] = "ultimo" /\ solicitud[e].nro = 0
        /\ UNCHANGED <<registry, late, outcome>>
        /\ pc'[e] = "solicitar" /\ \A f \in Emitters \ {e} : pc'[f] = pc[f]
        /\ new.lote = solicitud[e].lote
        /\ \A f \in Emitters \ {e} : solicitud'[f] = solicitud[f]
    BY DEF UltimoOk, Goto, TypeInv, Local, Solicitudes
  <1>2. new.nro # 0
    BY InvoicesAssumption DEF UltimoOk, TypeInv, Local, UltimoAnswers, Solicitudes
  <1> HIDE DEF new
  <1>3. Live' \subseteq Live \cup {new}
    BY <1>1 DEF Live, new
  <1>4. /\ \A m \in Live : \A j \in DOMAIN m.lote, k \in DOMAIN new.lote : m.lote[j] # new.lote[k]
        /\ \A s \in Series : \A n \in DOMAIN registry[s] : \A k \in DOMAIN new.lote :
             registry[s][n] # new.lote[k]
    BY <1>1, Unnumbered
  <1>5. Undecided'
    BY <1>1 DEF NumInv, Undecided, new
  <1>6. OneRequest'
    <2> SUFFICES ASSUME NEW m \in Live', NEW n \in Live',
                        NEW j \in DOMAIN m.lote, NEW k \in DOMAIN n.lote, m.lote[j] = n.lote[k]
                 PROVE  m = n
      BY DEF OneRequest
    <2> QED BY <1>3, <1>4 DEF NumInv, OneRequest
  <1>7. LateOpen'
    <2> SUFFICES ASSUME NEW m \in late, NEW k \in DOMAIN m.lote, outcome[m.lote[k]] = "pending"
                 PROVE  /\ solicitud'[EmitterOf(m.lote[k])] = m
                        /\ pc'[EmitterOf(m.lote[k])] # "idle"
      BY <1>1 DEF LateOpen
    <2>1. /\ solicitud[EmitterOf(m.lote[k])] = m /\ pc[EmitterOf(m.lote[k])] # "idle"
          /\ m.nro # 0 /\ EmitterOf(m.lote[k]) \in Emitters
      BY LoteUniform DEF NumInv, LateOpen, TypeInv, Requests
    <2> QED BY <1>1, <2>1
  <1>8. RegisteredOpen'
    <2>1. \A s \in Series : \A n \in DOMAIN registry[s] : EmitterOf(registry[s][n]) \in Emitters
      BY InvoicesAssumption DEF TypeInv, RegistryType
    <2> QED BY <1>1, <2>1 DEF NumInv, RegisteredOpen, new
  <1>9. InPlace'
    <2> SUFFICES ASSUME NEW s \in Series, NEW n \in DOMAIN registry[s], NEW m \in Live',
                        NEW k \in DOMAIN m.lote, m.lote[k] = registry[s][n]
                 PROVE  s = SerieOf(m) /\ n = m.nro + k - 1 /\ m.lote[1] \notin Invalid
      BY <1>1 DEF InPlace
    <2> QED BY <1>3, <1>4 DEF NumInv, InPlace
  <1>10. AuthorizedOnce'
    BY <1>1 DEF NumInv, AuthorizedOnce
  <1> QED BY <1>5, <1>6, <1>7, <1>8, <1>9, <1>10 DEF NumInv

\* A request that ends takes its invoices out of the pending ones.
LEMMA DecideNumbers ==
  ASSUME TypeInv, NumInv, NEW e \in Emitters, Decide(e)
  PROVE  NumInv'
  <1> DEFINE done(o) == [i \in Invoices |-> IF i \in Range(solicitud[e].lote) THEN o ELSE outcome[i]]
  <1>1. /\ pc[e] = "decide" /\ UNCHANGED <<registry, late, solicitud>>
        /\ \/ \E o \in {"reported", "rejected"} :
                outcome' = done(o) /\ pc' = [pc EXCEPT ![e] = "idle"]
           \/ UNCHANGED outcome /\ pc' \in {[pc EXCEPT ![e] = l] : l \in {"ultimo", "solicitar"}}
    BY DEF Decide, Goto
  <1>2. CASE UNCHANGED outcome /\ pc' \in {[pc EXCEPT ![e] = l] : l \in {"ultimo", "solicitar"}}
    <2>1. \A f \in Emitters : pc'[f] = "idle" <=> pc[f] = "idle"
      BY <1>1, <1>2 DEF TypeInv
    <2> QED BY <1>1, <1>2, <2>1, QuietNumbers
  <1>3. CASE \E o \in {"reported", "rejected"} :
               outcome' = done(o) /\ pc' = [pc EXCEPT ![e] = "idle"]
    <2>1. /\ pc'[e] = "idle" /\ \A f \in Emitters \ {e} : pc'[f] = pc[f]
          /\ \A i \in Invoices : \/ i \in Range(solicitud[e].lote) /\ outcome'[i] # "pending"
                                 \/ i \notin Range(solicitud[e].lote) /\ outcome'[i] = outcome[i]
      BY <1>3 DEF TypeInv
    <2>2. Live' = Live
      BY <1>1 DEF Live
    <2>3. \A i \in Range(solicitud[e].lote) : EmitterOf(i) = e
      BY OneEmitter DEF Range
    <2>4. Undecided'
      <3> SUFFICES ASSUME NEW f \in Emitters, pc'[f] # "idle", NEW k \in DOMAIN solicitud[f].lote
                   PROVE  outcome'[solicitud[f].lote[k]] = "pending"
        BY <1>1 DEF Undecided
      <3> QED BY <2>1, <2>3, OneEmitter DEF NumInv, Undecided
    <2>5. LateOpen'
      <3> SUFFICES ASSUME NEW m \in late, NEW k \in DOMAIN m.lote, outcome'[m.lote[k]] = "pending"
                   PROVE  /\ solicitud[EmitterOf(m.lote[k])] = m
                          /\ pc'[EmitterOf(m.lote[k])] # "idle"
        BY <1>1 DEF LateOpen
      <3>1. /\ m.lote[k] \in Invoices /\ m.lote[k] \in Range(m.lote)
            /\ EmitterOf(m.lote[k]) \in Emitters
        BY LoteUniform DEF TypeInv
      <3>2. outcome[m.lote[k]] = "pending" /\ m.lote[k] \notin Range(solicitud[e].lote)
        BY <2>1, <3>1
      <3>3. solicitud[EmitterOf(m.lote[k])] = m /\ pc[EmitterOf(m.lote[k])] # "idle"
        BY <3>2 DEF NumInv, LateOpen
      <3> QED BY <2>1, <3>1, <3>2, <3>3
    <2>6. RegisteredOpen'
      <3> SUFFICES ASSUME NEW s \in Series, NEW n \in DOMAIN registry[s],
                          outcome'[registry[s][n]] = "pending"
                   PROVE  LET f == EmitterOf(registry[s][n]) IN
                            /\ registry[s][n] \in Range(solicitud[f].lote)
                            /\ solicitud[f].nro # 0 /\ pc'[f] # "idle"
        BY <1>1 DEF RegisteredOpen
      <3>1. registry[s][n] \in Invoices /\ EmitterOf(registry[s][n]) \in Emitters
        BY InvoicesAssumption DEF TypeInv, RegistryType
      <3> QED BY <2>1, <3>1 DEF NumInv, RegisteredOpen
    <2>7. OneRequest' /\ InPlace' /\ AuthorizedOnce'
      BY <1>1, <2>2 DEF NumInv, OneRequest, InPlace, AuthorizedOnce
    <2> QED BY <2>4, <2>5, <2>6, <2>7 DEF NumInv
  <1> QED BY <1>1, <1>2, <1>3

\* A request the client gives up stays the one of its emitter.
LEMMA TransportNumbers ==
  ASSUME TypeInv, NumInv, NEW e \in Emitters, SolicitarTransportFails(e)
  PROVE  NumInv'
  <1>1. /\ pc[e] = "solicitar" /\ solicitud[e].nro # 0
        /\ UNCHANGED <<registry, solicitud, outcome>>
        /\ late \subseteq late' /\ late' \subseteq late \cup {solicitud[e]}
        /\ \A f \in Emitters : pc'[f] = "idle" <=> pc[f] = "idle"
    BY DEF SolicitarTransportFails, Return, Goto, TypeInv, Local
  <1>2. Live' = Live
    BY <1>1 DEF Live
  <1>3. Undecided'
    BY <1>1 DEF NumInv, Undecided
  <1>4. LateOpen'
    <2> SUFFICES ASSUME NEW m \in late', NEW k \in DOMAIN m.lote, outcome[m.lote[k]] = "pending"
                 PROVE  /\ solicitud[EmitterOf(m.lote[k])] = m
                        /\ pc'[EmitterOf(m.lote[k])] # "idle"
      BY <1>1 DEF LateOpen
    <2>1. CASE m \in late
      <3>1. EmitterOf(m.lote[k]) \in Emitters
        BY <2>1, LoteUniform DEF TypeInv
      <3> QED BY <1>1, <2>1, <3>1 DEF NumInv, LateOpen
    <2>2. CASE m = solicitud[e]
      BY <1>1, <2>2, OneEmitter
    <2> QED BY <1>1, <2>1, <2>2
  <1>5. RegisteredOpen'
    <2>1. \A s \in Series : \A n \in DOMAIN registry[s] : EmitterOf(registry[s][n]) \in Emitters
      BY InvoicesAssumption DEF TypeInv, RegistryType
    <2> QED BY <1>1, <2>1 DEF NumInv, RegisteredOpen
  <1>6. OneRequest' /\ InPlace' /\ AuthorizedOnce'
    BY <1>1, <1>2 DEF NumInv, OneRequest, InPlace, AuthorizedOnce
  <1> QED BY <1>3, <1>4, <1>5, <1>6 DEF NumInv

LEMMA NextNumbers == TypeInv /\ NumInv /\ [Next]_vars => NumInv'
  <1> SUFFICES ASSUME TypeInv, NumInv, [Next]_vars PROVE NumInv'
    OBVIOUS
  <1>1. ASSUME NEW e \in Emitters, Client(e) PROVE NumInv'
    <2>1. ASSUME \/ UltimoFails(e) \/ SolicitarReturns(e) \/ Reproceso(e)
                 \/ ConsultarReturns(e) \/ ConsultarTransportFails(e)
          PROVE  NumInv'
      <3>1. /\ UNCHANGED <<registry, late, solicitud, outcome>>
            /\ \A f \in Emitters : pc'[f] = "idle" <=> pc[f] = "idle"
        BY <2>1 DEF UltimoFails, SolicitarReturns, Reproceso, ConsultarReturns,
                    ConsultarTransportFails, Return, Goto, TypeInv
      <3> QED BY <3>1, QuietNumbers
    <2> QED BY <1>1, <2>1, CallNumbers, UltimoOkNumbers, DecideNumbers, TransportNumbers DEF Client
  <1>2. ASSUME NEW e \in Emitters, Afip(e) PROVE NumInv'
    <2>1. CASE Authorize(e)
      <3>1. /\ pc[e] = "solicitar" /\ Acceptable(solicitud[e]) /\ Register(solicitud[e])
            /\ UNCHANGED <<late, pc, solicitud, outcome>>
        BY <2>1 DEF Authorize, Answer
      <3>2. solicitud[e] \in Live
        BY <3>1, LiveTypes DEF TypeInv, Local
      <3>3. \A k \in DOMAIN solicitud[e].lote : EmitterOf(solicitud[e].lote[k]) = e
        BY OneEmitter
      <3> QED BY <3>1, <3>2, <3>3, RegisterNumbers
    <2>2. CASE UNCHANGED registry
      <3>1. UNCHANGED <<late, pc, solicitud, outcome>>
        BY <1>2 DEF Afip, AnswerUltimo, GlitchUltimo, Authorize, AnswerTaken, RejectSaying,
                    RejectSilently, Reject, Glitch, AnswerConsulta, GlitchConsulta, Answer
      <3> QED BY <2>2, <3>1, QuietNumbers
    <2> QED BY <1>2, <2>1, <2>2 DEF Afip, AnswerUltimo, GlitchUltimo, AnswerTaken, RejectSaying,
                    RejectSilently, Reject, Glitch, AnswerConsulta, GlitchConsulta
  <1>3. ASSUME NEW m \in late, DeliverLate(m) PROVE NumInv'
    <2>1. UNCHANGED <<pc, solicitud, outcome>> /\ late' \subseteq late /\ m \in Live
      BY <1>3 DEF DeliverLate, Live
    <2>2. CASE Acceptable(m)
      <3>1. Register(m)
        BY <1>3, <2>2 DEF DeliverLate
      <3> QED BY <1>3, <2>1, <2>2, <3>1, RegisterNumbers DEF NumInv, LateOpen
    <2>3. CASE ~Acceptable(m)
      <3>1. UNCHANGED registry /\ Live' \subseteq Live
        BY <1>3, <2>1, <2>3 DEF DeliverLate, Live
      <3> QED BY <2>1, <3>1 DEF NumInv, Undecided, OneRequest, LateOpen, RegisteredOpen, InPlace,
                                AuthorizedOnce
    <2> QED BY <2>2, <2>3
  <1>4. CASE UNCHANGED vars
    BY <1>4, QuietNumbers DEF vars
  <1> QED BY <1>1, <1>2, <1>3, <1>4 DEF Next

LEMMA Numbers == Spec => [](TypeInv /\ NumInv)
  <1>1. Init => TypeInv /\ NumInv
    BY InitTypes, InitNumbers
  <1>2. (TypeInv /\ NumInv) /\ [Next]_vars => (TypeInv /\ NumInv)'
    BY NextTypes, NextNumbers
  <1> QED BY <1>1, <1>2, PTL DEF Spec

\* Whatever is lost, late or repeated, and however many emitters share a
\* series, no invoice is authorized twice.
THEOREM NeverTwice == Spec => []AuthorizedOnce
  <1>1. TypeInv /\ NumInv => AuthorizedOnce
    BY DEF NumInv
  <1> QED BY <1>1, Numbers, PTL

\* The invoices of a call that failed for good are not registered, if the
\* error is the emission's or no consultation fails so.
LEMMA Refused ==
  ASSUME TypeInv, NumInv, NEW e \in Emitters, Permanent(ret[e]),
         ~ret[e].reproceso \/ ConsultaTransient
  PROVE  Unregistered(solicitud[e].lote)
  <1> SUFFICES ASSUME NEW s \in Series, NEW n \in DOMAIN registry[s],
                      registry[s][n] \in Range(solicitud[e].lote)
               PROVE  FALSE
    BY DEF Unregistered, Range
  <1>1. solicitud[e].lote[1] \in Invalid /\ solicitud[e] \in Live
    BY LiveTypes DEF TypeInv, Local, Explained
  <1>2. PICK k \in DOMAIN solicitud[e].lote : registry[s][n] = solicitud[e].lote[k]
    BY DEF Range
  <1> QED BY <1>1, <1>2 DEF NumInv, InPlace

\* When AFIP refuses an emission with an error that IsRetryable calls
\* permanent, it holds no invoice of the request, and a late copy of the
\* request does not change that.  Nothing is assumed of the consultation.
THEOREM RefusalIsFinal == Spec => []RefusalMeansUnregistered
  <1>1. TypeInv /\ NumInv => RefusalMeansUnregistered
    BY Refused DEF RefusalMeansUnregistered
  <1> QED BY <1>1, Numbers, PTL
=============================================================================

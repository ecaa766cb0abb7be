----------------------------- MODULE CaeEmission -----------------------------
(***************************************************************************)
(* Emission of invoices through package wsfev1.  Each emitter is a program *)
(* that follows docs/usage.md: it asks UltimoAutorizado for the last       *)
(* number of the series (a point of sale and a kind of comprobante), takes *)
(* the next one, and calls SolicitarCAEConReproceso with the same          *)
(* FECAESolicitarRequest until the call succeeds or fails for good         *)
(* (errors.go, IsRetryable).  A request holds a lote: one or more invoices *)
(* of a series, with consecutive numbers.                                  *)
(*                                                                         *)
(* A call to AFIP is a request on the wire, AFIP's processing of it, and   *)
(* its answer; soap.Call may fail at any point of it (timeout, cancelled   *)
(* context, lost request or answer, fault, undecodable body).  A request   *)
(* the client has given up may still reach AFIP later.                     *)
(*                                                                         *)
(* AFIP is not part of the repository: the registry and the answers are    *)
(* those the client's code tells apart.                                    *)
(***************************************************************************)
EXTENDS AfipErrors

CONSTANTS
  Emitters,          \* the programs
  Series,            \* points of sale and kinds of comprobante
  Invoices,          \* the invoices to emit
  Lotes,             \* the sequences of invoices that make a request
  EmitterOf(_),      \* who emits an invoice
  SeriesOf(_),       \* the series it belongs to
  Invalid,           \* the invoices AFIP rejects for their contents
  RegisteredCodes,   \* the code lists AFIP answers for a number already taken
  RejectedCodes,     \* the code lists it answers for an invalid invoice
  GlitchCodes,       \* the code lists of its passing failures
  ConsultaCodes,     \* the code lists FECompConsultar may fail with
  MaxNro,            \* bound on the numbers of a series
  NoAnswer

ASSUME InvoicesAssumption ==
  /\ Invalid \subseteq Invoices
  /\ \A i \in Invoices : EmitterOf(i) \in Emitters /\ SeriesOf(i) \in Series
  /\ Lotes \subseteq Seq(Invoices) \ {<<>>}
  /\ \A l \in Lotes : \A j, k \in DOMAIN l : /\ EmitterOf(l[j]) = EmitterOf(l[k])
                                             /\ SeriesOf(l[j]) = SeriesOf(l[k])
                                             /\ l[j] = l[k] => j = k
  /\ MaxNro \in Nat
ASSUME CodesAssumption ==
  /\ RegisteredCodes \cup RejectedCodes \cup GlitchCodes \cup ConsultaCodes \subseteq Seq(Nat)
  /\ \A codes \in RegisteredCodes : ErrCodeAlreadyRegistered \in Range(codes)
  /\ \A codes \in RejectedCodes : /\ Range(codes) \cap permanentErrors # {}
                                  /\ ErrCodeAlreadyRegistered \notin Range(codes)
  /\ \A codes \in GlitchCodes : /\ codes # <<>>
                                /\ Range(codes) \cap permanentErrors = {}
                                /\ ErrCodeAlreadyRegistered \notin Range(codes)
  /\ <<>> \notin ConsultaCodes

\* FECompConsultar fails with no code that IsRetryable calls permanent, an
\* authorization withdrawn from the CUIT in the meantime for one.  It is a
\* hypothesis of the properties that say so, and the code does not check it.
ConsultaTransient == \A codes \in ConsultaCodes : Range(codes) \cap permanentErrors = {}

VARIABLES
  registry,   \* AFIP's: the invoices authorized in each series, by number
  late,       \* emission requests still travelling after the client gave up
  pc,         \* what each emitter is doing
  solicitud,  \* its FECAESolicitarRequest: the lote, and CbteDesde of its first
              \* detail (0: none yet)
  answer,     \* AFIP's answer on its way to it
  ret,        \* what its last call returned
  outcome     \* what each invoice's program knows of it

vars == <<registry, late, pc, solicitud, answer, ret, outcome>>

-----------------------------------------------------------------------------
(* Data *)

\* AFIP gives one CAE to each number of a series.
CAE(s, n) == <<s, n>>
NoCAE == <<>>
CAEs == Series \X (1..MaxNro)

\* FECAESolicitarResponse: header errors, FeDetResp, and Reproceso = "S".
FECAEResponse(errors, details, reproceso) ==
  [errors |-> errors, FeDetResp |-> details, reproceso |-> reproceso]
Detail(resultado, obs, cae) == [resultado |-> resultado, obs |-> obs, cae |-> cae]
DetailRejected(obs) == Detail("R", obs, NoCAE)
DetailApproved(cae) == Detail("A", <<>>, cae)
HeaderErrors(codes) == FECAEResponse(codes, <<>>, FALSE)
EmptyDetails == HeaderErrors(<<>>)

FECompUltimoAutorizadoResponse(errors, nro) == [errors |-> errors, nro |-> nro]

\* ResultGet is its CodAutorizacion, or NoCAE when nil.
FECompConsultarResponse(errors, cae) == [errors |-> errors, cae |-> cae]

\* CAEResult and error, as a call returns them.  reproceso is CAEResult's, or
\* tells an error that came wrapped from the consultation after 10016.
Ok(cae, reproceso) == [kind |-> "ok", codes |-> <<>>, cae |-> cae, reproceso |-> reproceso]
Failed(err) == [kind |-> err.kind, codes |-> err.codes, cae |-> NoCAE, reproceso |-> FALSE]
Wrapped(r) == [r EXCEPT !.reproceso = TRUE]
Permanent(r) == IsAFIPError(r) /\ ~IsRetryable(r.codes)
NotCalled == Failed([kind |-> "none", codes |-> <<>>])

Init ==
  /\ registry = [s \in Series |-> <<>>]
  /\ late = {}
  /\ pc = [e \in Emitters |-> "idle"]
  /\ solicitud = [e \in Emitters |-> [lote |-> <<>>, nro |-> 0]]
  /\ answer = [e \in Emitters |-> NoAnswer]
  /\ ret = [e \in Emitters |-> NotCalled]
  /\ outcome = [i \in Invoices |-> "pending"]

SerieOf(m) == SeriesOf(m.lote[1])
Serie(e) == SerieOf(solicitud[e])
Nro(e) == solicitud[e].nro

Goto(e, l) == pc' = [pc EXCEPT ![e] = l]
Answer(e, a) ==
  /\ answer[e] = NoAnswer
  /\ answer' = [answer EXCEPT ![e] = a]
  /\ UNCHANGED <<late, pc, solicitud, ret, outcome>>
Return(e, r) ==
  /\ Goto(e, "decide")
  /\ ret' = [ret EXCEPT ![e] = r]
  /\ answer' = [answer EXCEPT ![e] = NoAnswer]
  /\ UNCHANGED <<registry, solicitud, outcome>>

-----------------------------------------------------------------------------
(* The program around the package *)

\* Build the next request and ask for the last number of its series.
CallUltimoAutorizado(e, l) ==
  /\ pc[e] = "idle"
  /\ EmitterOf(l[1]) = e
  /\ \A i \in Range(l) : outcome[i] = "pending"
  /\ Goto(e, "ultimo")
  /\ solicitud' = [solicitud EXCEPT ![e] = [lote |-> l, nro |-> 0]]
  /\ ret' = [ret EXCEPT ![e] = NotCalled]
  /\ UNCHANGED <<registry, late, answer, outcome>>

\* A call returned: keep a success, drop a request AFIP rejected, and
\* otherwise call again with the request as it is.
Decide(e) ==
  LET noted(o) == [i \in Invoices |-> IF i \in Range(solicitud[e].lote) THEN o ELSE outcome[i]]
  IN
  /\ pc[e] = "decide"
  /\ \/ /\ ret[e].kind = "ok"
        /\ outcome' = noted("reported")
        /\ Goto(e, "idle")
     \/ /\ Permanent(ret[e])
        /\ outcome' = noted("rejected")
        /\ Goto(e, "idle")
     \/ /\ ret[e].kind # "ok" /\ ~Permanent(ret[e])
        /\ UNCHANGED outcome
        /\ Goto(e, IF Nro(e) = 0 THEN "ultimo" ELSE "solicitar")
  /\ UNCHANGED <<registry, late, solicitud, answer, ret>>

-----------------------------------------------------------------------------
(* UltimoAutorizado *)

UltimoOk(e) ==
  /\ pc[e] = "ultimo"
  /\ answer[e] # NoAnswer /\ answer[e].errors = <<>>
  /\ solicitud' = [solicitud EXCEPT ![e].nro = answer[e].nro + 1]
  /\ answer' = [answer EXCEPT ![e] = NoAnswer]
  /\ Goto(e, "solicitar")
  /\ UNCHANGED <<registry, late, ret, outcome>>

UltimoFails(e) ==
  /\ pc[e] = "ultimo"
  /\ \/ Return(e, Failed(ErrSOAP))
     \/ /\ answer[e] # NoAnswer /\ answer[e].errors # <<>>
        /\ Return(e, Failed(AFIPError(answer[e].errors)))
  /\ UNCHANGED late

-----------------------------------------------------------------------------
(* SolicitarCAE, inside SolicitarCAEConReproceso *)

\* What SolicitarCAE makes of a decoded response, in the order of its checks:
\* the first detail speaks for the request.
MutResultadoIgnored(r) ==
  IF r.errors # <<>> THEN Failed(AFIPError(r.errors))
  ELSE IF r.FeDetResp = <<>> THEN Failed(PlainError)
  ELSE Ok(r.FeDetResp[1].cae, r.reproceso)
SolicitarResult(r) ==
  IF r.errors # <<>> THEN Failed(AFIPError(r.errors))
  ELSE IF r.FeDetResp = <<>> THEN Failed(PlainError)
  ELSE LET det == r.FeDetResp[1] IN
    IF det.resultado # "R" THEN Ok(det.cae, r.reproceso)
    ELSE Failed(IF det.obs = <<>> THEN PlainError ELSE AFIPError(det.obs))

AlreadyRegistered(r) == IsAFIPError(r) /\ IsAlreadyRegistered(r.codes)

\* The call fails in transport.  The request may yet reach AFIP, unless AFIP
\* has already answered it.
SolicitarTransportFails(e) ==
  /\ pc[e] = "solicitar"
  /\ late' = IF answer[e] = NoAnswer THEN late \cup {solicitud[e]} ELSE late
  /\ Return(e, Failed(ErrSOAP))

SolicitarReturns(e) ==
  /\ pc[e] = "solicitar"
  /\ answer[e] # NoAnswer
  /\ ~AlreadyRegistered(SolicitarResult(answer[e]))
  /\ Return(e, SolicitarResult(answer[e]))
  /\ UNCHANGED late

MutRenumber(e) ==
  /\ pc[e] = "solicitar"
  /\ answer[e] # NoAnswer
  /\ AlreadyRegistered(SolicitarResult(answer[e]))
  /\ Goto(e, "ultimo")
  /\ answer' = [answer EXCEPT ![e] = NoAnswer]
  /\ UNCHANGED <<registry, late, solicitud, ret, outcome>>

\* Error 10016: recover the CAE of the number the request asked for.
Reproceso(e) ==
  /\ pc[e] = "solicitar"
  /\ answer[e] # NoAnswer
  /\ AlreadyRegistered(SolicitarResult(answer[e]))
  /\ Goto(e, "consultar")
  /\ answer' = [answer EXCEPT ![e] = NoAnswer]
  /\ UNCHANGED <<registry, late, solicitud, ret, outcome>>

-----------------------------------------------------------------------------
(* ConsultarComprobante, inside SolicitarCAEConReproceso *)

\* FECompConsultarRequest, built from the solicitud.
FeCompConsReq(e) == [serie |-> Serie(e), cbteNro |-> Nro(e)]

\* What the client makes of the answer to the consultation: an error of it
\* goes up wrapped, whatever its codes.
ConsultaResult(r) ==
  CASE r.errors # <<>>                       -> Wrapped(Failed(AFIPError(r.errors)))
    [] r.errors = <<>> /\ r.cae = NoCAE      -> Wrapped(Failed(PlainError))
    [] r.errors = <<>> /\ r.cae # NoCAE      -> Ok(r.cae, TRUE)

ConsultarReturns(e) ==
  /\ pc[e] = "consultar"
  /\ answer[e] # NoAnswer
  /\ Return(e, ConsultaResult(answer[e]))
  /\ UNCHANGED late

ConsultarTransportFails(e) ==
  /\ pc[e] = "consultar"
  /\ Return(e, Wrapped(Failed(ErrSOAP)))
  /\ UNCHANGED late

-----------------------------------------------------------------------------
(* AFIP, external *)

Ultimo(s) == Len(registry[s])

AnswerUltimo(e) ==
  /\ pc[e] = "ultimo"
  /\ Answer(e, FECompUltimoAutorizadoResponse(<<>>, Ultimo(Serie(e))))
  /\ UNCHANGED registry

GlitchUltimo(e) ==
  /\ pc[e] = "ultimo"
  /\ \E codes \in GlitchCodes : Answer(e, FECompUltimoAutorizadoResponse(codes, 0))
  /\ UNCHANGED registry

\* A lote that asks for the next number is registered from its first invoice
\* up to the first that AFIP does not accept.
Prefixes(m) == {k \in DOMAIN m.lote : \A j \in 1..k : m.lote[j] \notin Invalid}
Acceptable(m) ==
  /\ m.nro = Ultimo(SerieOf(m)) + 1 /\ m.nro + Len(m.lote) - 1 <= MaxNro
  /\ Prefixes(m) # {}
Accepted(m) == CHOOSE k \in Prefixes(m) : \A j \in Prefixes(m) : j <= k
Register(m) ==
  registry' = [registry EXCEPT ![SerieOf(m)] = @ \o SubSeq(m.lote, 1, Accepted(m))]

\* The details of a request, with the first n of them approved.
Answered(m, n, obs) ==
  [k \in DOMAIN m.lote |-> IF k <= n THEN DetailApproved(CAE(SerieOf(m), m.nro + k - 1))
                                     ELSE DetailRejected(obs)]

Authorize(e) ==
  LET m == solicitud[e] IN
  /\ pc[e] = "solicitar"
  /\ Acceptable(m)
  /\ Register(m)
  /\ Answer(e, FECAEResponse(<<>>, Answered(m, Accepted(m), <<>>), FALSE))

\* The first number is taken: error 10016, in the header or in the
\* observations; or, for the very same invoices, the first answer again with
\* Reproceso "S".
AnswerTaken(e) ==
  LET m == solicitud[e]  s == Serie(e)  last == m.nro + Len(m.lote) - 1 IN
  /\ pc[e] = "solicitar"
  /\ m.nro <= Ultimo(s)
  /\ \/ \E codes \in RegisteredCodes :
          \/ Answer(e, HeaderErrors(codes))
          \/ Answer(e, FECAEResponse(<<>>, Answered(m, 0, codes), FALSE))
     \/ /\ last <= Ultimo(s) /\ SubSeq(registry[s], m.nro, last) = m.lote
        /\ Answer(e, FECAEResponse(<<>>, Answered(m, Len(m.lote), <<>>), TRUE))
  /\ UNCHANGED registry

\* An invalid invoice is rejected, and those after it, saying why or not.
Reject(e, obs) ==
  /\ pc[e] = "solicitar"
  /\ solicitud[e].lote[1] \in Invalid
  /\ Nro(e) > Ultimo(Serie(e))
  /\ \/ Answer(e, FECAEResponse(<<>>, Answered(solicitud[e], 0, obs), FALSE))
     \/ obs # <<>> /\ Answer(e, HeaderErrors(obs))
  /\ UNCHANGED registry
RejectSaying(e) == \E obs \in RejectedCodes : Reject(e, obs)
RejectSilently(e) == Reject(e, <<>>)

\* AFIP fails without looking at the request.
Glitch(e) ==
  /\ pc[e] = "solicitar"
  /\ \/ \E codes \in GlitchCodes : Answer(e, HeaderErrors(codes))
     \/ Answer(e, EmptyDetails)
  /\ UNCHANGED registry

\* A request the client gave up reaches AFIP; nobody reads the answer.
DeliverLate(m) ==
  /\ m \in late
  /\ late' = late \ {m}
  /\ IF Acceptable(m) THEN Register(m) ELSE UNCHANGED registry
  /\ UNCHANGED <<pc, solicitud, answer, ret, outcome>>

AnswerConsulta(e) ==
  LET req == FeCompConsReq(e) IN
  /\ pc[e] = "consultar"
  /\ Answer(e, FECompConsultarResponse(<<>>,
                 IF req.cbteNro \in DOMAIN registry[req.serie]
                   THEN CAE(req.serie, req.cbteNro) ELSE NoCAE))
  /\ UNCHANGED registry

GlitchConsulta(e) ==
  /\ pc[e] = "consultar"
  /\ \/ \E codes \in ConsultaCodes : Answer(e, FECompConsultarResponse(codes, NoCAE))
     \/ Answer(e, FECompConsultarResponse(<<>>, NoCAE))
  /\ UNCHANGED registry

-----------------------------------------------------------------------------
Client(e) ==
  \/ \E l \in Lotes : CallUltimoAutorizado(e, l)
  \/ Decide(e)
  \/ UltimoOk(e) \/ UltimoFails(e)
  \/ SolicitarTransportFails(e) \/ SolicitarReturns(e) \/ Reproceso(e)
  \/ ConsultarReturns(e) \/ ConsultarTransportFails(e)

Afip(e) ==
  \/ AnswerUltimo(e) \/ GlitchUltimo(e)
  \/ Authorize(e) \/ AnswerTaken(e) \/ RejectSaying(e) \/ RejectSilently(e) \/ Glitch(e)
  \/ AnswerConsulta(e) \/ GlitchConsulta(e)

Next ==
  \/ \E e \in Emitters : Client(e) \/ Afip(e)
  \/ \E m \in late : DeliverLate(m)

Spec == Init /\ [][Next]_vars

\* Nothing in the package retries for ever: the liveness of an emission rests
\* on the program's loop and on a network and an AFIP that do not fail each
\* time.  Fairness is asked of the outcomes that make progress, one by one.
SolicitarConcludes(e) ==
  /\ SolicitarReturns(e)
  /\ ret'[e].kind = "ok" \/ Permanent(ret'[e])
ConsultarConcludes(e) == ConsultarReturns(e) /\ ret'[e].kind = "ok"

Fairness(e) ==
  /\ WF_vars(Client(e))
  /\ SF_vars(AnswerUltimo(e)) /\ SF_vars(UltimoOk(e))
  /\ SF_vars(Authorize(e)) /\ SF_vars(AnswerTaken(e)) /\ SF_vars(RejectSaying(e))
  /\ SF_vars(AnswerConsulta(e))
  /\ SF_vars(SolicitarConcludes(e)) /\ SF_vars(Reproceso(e)) /\ SF_vars(ConsultarConcludes(e))

FairSpec == Spec /\ \A e \in Emitters : Fairness(e)

-----------------------------------------------------------------------------
(* Properties *)

Solicitudes == [lote : Lotes \cup {<<>>}, nro : 0..MaxNro+1]
Codes == {<<>>} \cup RegisteredCodes \cup RejectedCodes \cup GlitchCodes \cup ConsultaCodes

Results ==
  [kind : {"ok"}, codes : {<<>>}, cae : CAEs, reproceso : BOOLEAN]
    \cup [kind : {"none", "afip", "soap", "plain"}, codes : Codes, cae : {NoCAE},
          reproceso : BOOLEAN]

TypeOK ==
  /\ registry \in [Series -> Seq(Invoices)]
  /\ late \subseteq Solicitudes
  /\ pc \in [Emitters -> {"idle", "ultimo", "solicitar", "consultar", "decide"}]
  /\ solicitud \in [Emitters -> Solicitudes]
  /\ ret \in [Emitters -> Results]
  /\ outcome \in [Invoices -> {"pending", "reported", "rejected"}]

\* An invoice never holds two numbers, and so never two CAEs, however often
\* its program repeats the request and however late an old request arrives.
AuthorizedOnce ==
  \A s, t \in Series : \A m \in DOMAIN registry[s], n \in DOMAIN registry[t] :
    registry[s][m] = registry[t][n] => s = t /\ m = n

\* A call that succeeds returns a CAE, and it is the CAE under which AFIP
\* registered the first invoice of this very request, recovered or not.
OwnCae ==
  \A e \in Emitters : ret[e].kind = "ok" =>
    /\ ret[e].cae \in CAEs
    /\ registry[ret[e].cae[1]][ret[e].cae[2]] = solicitud[e].lote[1]

\* A call that succeeds for a lote means that AFIP authorized all of it.
LoteAuthorized ==
  \A e \in Emitters : ret[e].kind = "ok" =>
    \A i \in Range(solicitud[e].lote) : i \in Range(registry[Serie(e)])

Unregistered(lote) == \A s \in Series : Range(registry[s]) \cap Range(lote) = {}

\* When an emission, and not the consultation after it, fails with an error
\* IsRetryable calls permanent, AFIP holds no authorization of any invoice of
\* the request, whose program may correct and number them anew: not under a
\* code list with 10016 among permanent codes, and not through a late copy.
\* AFIP is taken to refuse for good (CodesAssumption) only what it rejects.
RefusalMeansUnregistered ==
  \A e \in Emitters :
    Permanent(ret[e]) /\ ~ret[e].reproceso => Unregistered(solicitud[e].lote)

\* The same of every permanent error, as a caller of IsRetryable reads it:
\* errors.go calls an already registered comprobante retryable.  The code does
\* not keep it: the consultation after 10016 may fail with a permanent code.
PermanentMeansUnregistered ==
  \A e \in Emitters : Permanent(ret[e]) => Unregistered(solicitud[e].lote)

\* Every acceptable invoice is in the end authorized and its program told so,
\* if ConsultaTransient.
EventuallyReported == \A i \in Invoices \ Invalid : <>(outcome[i] = "reported")

\* With one emitter per series and ConsultaTransient,
\* SolicitarCAEConReproceso and its retries are CaeRegister's three steps: no
\* invoice is authorized twice or after its rejection, and what the program
\* is told is what AFIP holds.
CaeRegistry == INSTANCE CaeRegister
ImplementsCaeRegister == CaeRegistry!Spec
=============================================================================

------------------------------ MODULE Consultas ------------------------------
(***************************************************************************)
(* One exchange with AFIP: soap.Client.Call, and the operations built on   *)
(* it that change nothing at AFIP: the dummies, the queries of wsfev1,     *)
(* wspadron.GetPersona, and the login as far as its errors go.             *)
(*                                                                         *)
(* The server is free to answer anything, with any HTTP status, and the    *)
(* connection may break or stall at any point.  The model tells apart the  *)
(* bodies the decoder tells apart: text that is not an envelope, a SOAP    *)
(* fault, an envelope around something else, and a decodable answer, which *)
(* may lack any of its optional elements.  An error is the list of types   *)
(* errors.As meets in it, outermost first.                                 *)
(***************************************************************************)
EXTENDS AfipErrors, FiniteSets, SequencesExt

CONSTANTS
  OptionLists,  \* the options the program builds its clients with
  Taxes,        \* the tax ids AFIP lists
  Codes,        \* the error codes AFIP answers a query with
  Nil           \* a nil pointer, an absent element

ASSUME OptionsAssumption ==
  OptionLists \subseteq Seq([kind : {"timeout", "http"}, timeout : Nat])

VARIABLES
  opts,      \* the options the soap.Client was built with
  timeout,   \* Timeout of the http.Client it uses, 0 for none
  pc,        \* where the call is
  op,        \* the operation it is for
  deadline,  \* whether http.Client.Do set a deadline for this call
  resp,      \* what the server has sent
  ret        \* what the call returned

vars == <<opts, timeout, pc, op, deadline, resp, ret>>

-----------------------------------------------------------------------------
(* soap.NewClient *)

WithTimeout(d) == [kind |-> "timeout", timeout |-> d]
WithHTTPClient(d) == [kind |-> "http", timeout |-> d]

\* Both options decide the Timeout of the http.Client in use: one writes it,
\* the other brings an http.Client with its own.
Timeout(list, default) == IF list = <<>> THEN default ELSE list[Len(list)].timeout

\* Whether the http.Client in use is the program's, which others may use too.
IsShared(list) == \E i \in DOMAIN list : list[i].kind = "http"

NewClient(list) == Timeout(list, 30)

-----------------------------------------------------------------------------
(* What AFIP may answer *)

WsfeOps == {"ultimo", "lista", "cotizacion", "consulta", "maximo"}
Ops == WsfeOps \cup {"dummy", "persona", "login"}

\* A result with its error list and its data element.
WsfeAnswers == [errors : {<<>>} \cup {<<c>> : c \in Codes}, data : {Nil, "data"}]

\* The regimes of a persona: absent, or the taxes listed with their state.
Regimes == {Nil} \cup UNION {[T -> {"ACTIVO", "BAJA"}] : T \in SUBSET Taxes}
Texts == {<<>>, <<"">>, <<"", "text">>}
ErrorLists == {"constancia", "monotributo", "regimenGeneral"}

personaReturn ==
  [datosGenerales : {Nil, "data"}, errores : [ErrorLists -> Texts],
   datosMonotributo : Regimes, datosRegimenGeneral : Regimes]

Answers(o) ==
  CASE o \in WsfeOps -> WsfeAnswers
    [] o = "dummy"   -> {Nil, "OK"}
    [] o = "persona" -> {Nil} \cup personaReturn
    [] o = "login"   -> {"ticket", "other text"}

Body(kind, answer) == [kind |-> kind, answer |-> answer]
Bodies(o) == {Body(k, Nil) : k \in {"no envelope", "fault", "other element"}}
               \cup {Body("answer", a) : a \in Answers(o)}

NoResponse == [status |-> 0, body |-> Body("none", Nil)]

-----------------------------------------------------------------------------
(* Errors and results *)

NoError == [types |-> <<>>, codes |-> Nil]
Text == [types |-> <<"text">>, codes |-> Nil]
Fault == [types |-> <<"Fault">>, codes |-> Nil]

\* NewAFIPError returns a nil pointer for an empty list, and a nil pointer
\* becomes a non-nil error when it is returned as one.
NewAFIPError(details) == IF details = <<>> THEN Nil ELSE details
AFIPErrorOf(pointer) == [types |-> <<"AFIPError">>, codes |-> pointer]

MutWrapper(o, err) == [err EXCEPT !.types = <<IF o = "login" THEN "ErrWSAAAuth" ELSE "ErrSOAP">>]
MutWrapperTwice(o, err) ==
  [err EXCEPT !.types = (IF o = "login" THEN <<"ErrWSAAAuth", "ErrSOAP">> ELSE <<"ErrSOAP">>) \o @]
Wrapper(o, err) ==
  [err EXCEPT !.types = <<IF o = "login" THEN "ErrWSAAAuth" ELSE "ErrSOAP">> \o @]

As(err, type) == \E i \in DOMAIN err.types : err.types[i] = type
IsError(err) == err.types # <<>>

Result(value, err) == [value |-> value, err |-> err]
Failed(err) == Result(Nil, err)

-----------------------------------------------------------------------------
(* soap.Client.Call, once the body has been read *)

MutFaultOnlyIn200(status, body) == status = 200 /\ body.kind = "fault"
HasFault(status, body) == body.kind = "fault"

Decode(r) ==
  IF HasFault(r.status, r.body) THEN Fault
  ELSE IF r.status # 200 THEN Text
  ELSE IF r.body.kind = "answer" THEN NoError
  ELSE Text

-----------------------------------------------------------------------------
(* The operations, given a decoded answer *)

MutFromWsfe(o, a) == IF a.errors # <<>> THEN Failed(AFIPErrorOf(a.errors)) ELSE Result(a.data, NoError)

MutFromWsfeDataFirst(o, a) ==
  IF a.data # Nil THEN Result(a.data, NoError) ELSE Failed(AFIPErrorOf(NewAFIPError(a.errors)))
\* AFIP's errors win over its data; then an absent data element is an error
\* where the result is a pointer, and the zero value elsewhere.
FromWsfe(o, a) ==
  IF a.errors # <<>> THEN Failed(AFIPErrorOf(NewAFIPError(a.errors)))
  ELSE IF a.data # Nil THEN Result(a.data, NoError)
  ELSE IF o \in {"cotizacion", "consulta"} THEN Failed(Text)
  ELSE Result("zero", NoError)

\* HealthCheck: an absent status is an empty string, which IsOK does not take.
FromDummy(a) == Result(IF a = Nil THEN "zero" ELSE a, NoError)

\* The non-empty texts of a list, appended one by one; and of all three.
AppendTexts(texts) ==
  FoldLeft(LAMBDA kept, t : IF t = "" THEN kept ELSE Append(kept, t), <<>>, texts)
Errores(pr) ==
  LET taken(list) == AppendTexts(pr.errores[list]) IN
    taken("constancia") \o taken("monotributo") \o taken("regimenGeneral")

\* An absent regime is the zero DatosMonotributo or DatosRegimenGeneral.
Impuestos(regime) == IF regime = Nil THEN {} ELSE {<<i, regime[i]>> : i \in DOMAIN regime}

toPersona(pr) ==
  [datosMonotributo |-> Impuestos(pr.datosMonotributo),
   datosRegimenGeneral |-> Impuestos(pr.datosRegimenGeneral),
   errores |-> Errores(pr)]

MutImpuestosActivos(p) ==
  LET regime == IF p.datosMonotributo = {} THEN p.datosRegimenGeneral ELSE p.datosMonotributo
  IN {i[1] : i \in {j \in regime : j[2] = "ACTIVO"}}
ImpuestosActivos(p) ==
  {i[1] : i \in {j \in p.datosMonotributo \cup p.datosRegimenGeneral : j[2] = "ACTIVO"}}
HasImpuesto(p, id) == id \in ImpuestosActivos(p)

\* Without general data: AFIP's texts are counted and dropped, and the error
\* is NewAFIPError(nil).  With it: the persona, and an error if it has texts.
MutFromPersona(pr) ==
  IF pr = Nil \/ pr.datosGenerales = Nil THEN Failed(Text)
  ELSE IF Errores(pr) # <<>> THEN Failed(Text)
  ELSE Result(toPersona(pr), NoError)
FromPersona(pr) ==
  IF pr = Nil THEN Failed(Text)
  ELSE IF pr.datosGenerales = Nil THEN
    Failed(IF \E list \in ErrorLists : pr.errores[list] # <<>>
           THEN AFIPErrorOf(NewAFIPError(<<>>)) ELSE Text)
  ELSE Result(toPersona(pr), IF Errores(pr) = <<>> THEN NoError ELSE Text)

\* Client.Authenticate: the text of loginCmsReturn must be a ticket.
FromLogin(a) == IF a = "ticket" THEN Result(a, NoError) ELSE Failed(Wrapper("login", Text))

FromAnswer(o, a) ==
  CASE o \in WsfeOps -> FromWsfe(o, a)
    [] o = "dummy"   -> FromDummy(a)
    [] o = "persona" -> FromPersona(a)
    [] o = "login"   -> FromLogin(a)

\* A nil pointer is none of the values.
ASSUME NilAssumption ==
  /\ Nil \notin {"zero", "data", "OK", "ticket"}
  /\ \A c \in Codes : Nil # <<c>>
  /\ \A pr \in personaReturn : Nil # toPersona(pr)

-----------------------------------------------------------------------------
Init ==
  /\ opts \in OptionLists
  /\ timeout = NewClient(opts)
  /\ pc = "idle"
  /\ op = "dummy"
  /\ deadline = FALSE
  /\ resp = NoResponse
  /\ ret = Nil

\* The program builds another service's client over the same http.Client, with
\* WithTimeout after WithHTTPClient: any duration, and 0 is no timeout at all.
BuildAnother(d) ==
  /\ IsShared(opts)
  /\ timeout' = d
  /\ UNCHANGED <<opts, pc, op, deadline, resp, ret>>

\* The request is marshalled and http.Client.Do begins; it reads Timeout now.
Call(o) ==
  /\ pc = "idle"
  /\ pc' = "sent"
  /\ op' = o
  /\ deadline' = (timeout # 0)
  /\ resp' = NoResponse
  /\ ret' = Nil
  /\ UNCHANGED <<opts, timeout>>

\* External: the server answers, and its headers arrive.
AfipAnswers(status, body) ==
  /\ pc = "sent"
  /\ pc' = "reading"
  /\ resp' = [status |-> status, body |-> body]
  /\ UNCHANGED <<opts, timeout, op, deadline, ret>>

TransportError ==
  /\ pc' = "idle"
  /\ resp' = NoResponse
  /\ ret' = Failed(Wrapper(op, Text))
  /\ UNCHANGED <<opts, timeout, op, deadline>>

\* Do or io.ReadAll fails: no connection, a body cut short, a cancelled context.
Breaks == pc \in {"sent", "reading"} /\ TransportError

MutExpires == pc = "sent" /\ deadline /\ TransportError
\* The deadline covers the exchange up to the last byte of the body.
Expires == pc \in {"sent", "reading"} /\ deadline /\ TransportError

\* External: the last byte of the body arrives.
BodyArrives ==
  /\ pc = "reading"
  /\ pc' = "read"
  /\ UNCHANGED <<opts, timeout, op, deadline, resp, ret>>

\* Fault, status, envelope and body are looked at, in this order, then the
\* operation makes its result of the answer.
Returns ==
  /\ pc = "read"
  /\ pc' = "idle"
  /\ ret' = LET err == Decode(resp) IN
              IF IsError(err) THEN Failed(Wrapper(op, err)) ELSE FromAnswer(op, resp.body.answer)
  /\ UNCHANGED <<opts, timeout, op, deadline, resp>>

Next ==
  \/ \E d \in {0, 5} : BuildAnother(d)
  \/ \E o \in Ops : Call(o)
  \/ \E status \in {200, 500} : \E body \in Bodies(op) : AfipAnswers(status, body)
  \/ Breaks
  \/ Expires
  \/ BodyArrives
  \/ Returns

Spec == Init /\ [][Next]_vars

\* The runtime fires the deadline's timer and runs the goroutine; nothing
\* makes the server answer or the body arrive.
FairSpec == Spec /\ WF_vars(Expires) /\ WF_vars(Returns)

-----------------------------------------------------------------------------
(* Properties *)

TypeOK ==
  /\ opts \in OptionLists
  /\ timeout \in Nat
  /\ pc \in {"idle", "sent", "reading", "read"}
  /\ op \in Ops
  /\ deadline \in BOOLEAN
  /\ resp.status \in {0, 200, 500}
  /\ resp.body.answer = Nil \/ resp.body.answer \in Answers(op)
  /\ ret # Nil => ret.err.types \in
       {<<>>, <<"text">>, <<"AFIPError">>}
         \cup {<<w, e>> : w \in {"ErrSOAP", "ErrWSAAAuth"}, e \in {"text", "Fault"}}

Returned == pc = "idle" /\ ret # Nil

\* A failure of the exchange itself carries the type its package promises,
\* and a fault, whatever the HTTP status it came with, is still a *soap.Fault
\* under it; AFIP's own errors are never dressed as transport failures.
FailureIsTyped ==
  Returned =>
    LET exchanged == resp.status = 200 /\ resp.body.kind = "answer" IN
      /\ ~exchanged => As(ret.err, IF op = "login" THEN "ErrWSAAAuth" ELSE "ErrSOAP")
      /\ resp.body.kind = "fault" => As(ret.err, "Fault")
      /\ exchanged => ~As(ret.err, "ErrSOAP")

\* A call without an error had a complete answer without errors in it, and
\* no operation that returns a pointer returns a nil one without an error.
SuccessIsAnswered ==
  Returned /\ ~IsError(ret.err) =>
    /\ resp.status = 200 /\ resp.body.kind = "answer"
    /\ op \in WsfeOps => resp.body.answer.errors = <<>>
    /\ ret.value # Nil

\* The lists AFIP wrote a text to.
Written(pr) ==
  {list \in ErrorLists : \E i \in DOMAIN pr.errores[list] : pr.errores[list][i] # ""}

\* A persona with warnings is not lost: whenever AFIP sent the general data,
\* the caller holds the persona with every warning AFIP wrote, and an error
\* exactly when there is one.
PersonaKept ==
  Returned /\ op = "persona" /\ resp.body.kind = "answer" /\ resp.status = 200 =>
    LET pr == resp.body.answer IN
      pr # Nil /\ pr.datosGenerales # Nil =>
        /\ ret.value # Nil
        /\ Len(ret.value.errores) = Cardinality(Written(pr))
        /\ IsError(ret.err) <=> Written(pr) # {}

\* A taxpayer has a tax when some regime lists it as active, even if another
\* regime lists it as closed, and whichever regimes AFIP left out.
TaxesFollowAfip ==
  Returned /\ op = "persona" /\ ret.value # Nil =>
    LET pr == resp.body.answer
        active(regime, id) == regime # Nil /\ id \in DOMAIN regime /\ regime[id] = "ACTIVO" IN
      \A id \in Taxes :
        HasImpuesto(ret.value, id)
          <=> active(pr.datosMonotributo, id) \/ active(pr.datosRegimenGeneral, id)

\* A call returns, even when the server stalls in the middle of the body: always
\* where the client's http.Client is its own and it was built without options or
\* with a timeout; and over a shared http.Client, when that had a timeout as the
\* call began, whatever timeout other clients give it meanwhile.
EveryQueryReturns ==
  LET own == ~IsShared(opts) /\ (opts = <<>> \/ opts[Len(opts)].timeout # 0)
  IN  (own \/ deadline) /\ pc # "idle" ~> pc = "idle"

\* AFIP sent no general data, but an error list.
Explained(pr) ==
  pr # Nil /\ pr.datosGenerales = Nil /\ \E list \in ErrorLists : pr.errores[list] # <<>>

\* "IsAFIPError checks whether err is (or wraps) an *AFIPError and returns it"
\* (errors.go:108), and the caller goes on to use it: it has codes, whatever AFIP
\* answered, unless it explained why it has no data for a taxpayer.  Then, and
\* only then, the *AFIPError in the error is nil.
AFIPErrorUsable ==
  Returned =>
    (As(ret.err, "AFIPError") /\ ret.err.codes = Nil
      <=> /\ op = "persona" /\ resp.status = 200 /\ resp.body.kind = "answer"
          /\ Explained(resp.body.answer))
=============================================================================

--------------------------- MODULE ConsultasProofs ---------------------------
(***************************************************************************)
(* Proofs about Consultas: whatever the server answers and wherever the    *)
(* connection breaks, an error has the types its package promises, a       *)
(* success was answered, a persona's taxes are those AFIP listed, its      *)
(* warnings are the texts AFIP wrote, none lost and none empty, and AFIP's *)
(* own errors hold their codes.                                            *)
(***************************************************************************)
EXTENDS Consultas, SequenceTheorems, FiniteSetTheorems, TLAPS

-----------------------------------------------------------------------------
(* Errors *)

Service(o) == IF o = "login" THEN "ErrWSAAAuth" ELSE "ErrSOAP"

LEMMA Concat ==
  ASSUME NEW X, NEW s \in Seq(X), NEW t \in Seq(X), Len(s) = 1, Len(t) = 1
  PROVE  s \o t \in Seq(X) /\ Len(s \o t) = 2 /\ (s \o t)[1] = s[1] /\ (s \o t)[2] = t[1]
  BY ConcatProperties

LEMMA Pair == ASSUME NEW a, NEW b PROVE <<a>> \o <<b>> = <<a, b>>
  <1> DEFINE X == {a, b}
             u == <<a>> \o <<b>>
  <1>1. <<a>> \in Seq(X) /\ <<b>> \in Seq(X) /\ Len(<<a>>) = 1 /\ Len(<<b>>) = 1
    OBVIOUS
  <1>2. (<<a>>)[1] = a /\ (<<b>>)[1] = b
    OBVIOUS
  <1>3. u \in Seq(X) /\ Len(u) = 2 /\ u[1] = a /\ u[2] = b
    <2> HIDE DEF X
    <2> QED BY <1>1, <1>2, Concat
  <1> HIDE DEF u
  <1>4. u = <<a, b>>
    <2> HIDE DEF X
    <2> QED BY <1>3
  <1> QED BY <1>4 DEF u

\* What Wrapper adds, and that it hides nothing.
LEMMA Wrapped ==
  ASSUME NEW o, NEW t \in {"text", "Fault"}
  PROVE  /\ Wrapper(o, [types |-> <<t>>, codes |-> Nil]).types = <<Service(o), t>>
         /\ As(Wrapper(o, [types |-> <<t>>, codes |-> Nil]), Service(o))
         /\ As(Wrapper(o, [types |-> <<t>>, codes |-> Nil]), t)
         /\ IsError(Wrapper(o, [types |-> <<t>>, codes |-> Nil]))
  <1> DEFINE err == Wrapper(o, [types |-> <<t>>, codes |-> Nil])
  <1>1. err.types = <<Service(o)>> \o <<t>>
    BY DEF Wrapper, Service
  <1>2. <<Service(o)>> \o <<t>> = <<Service(o), t>>
    BY Pair
  <1>3. err.types = <<Service(o), t>>
    BY <1>1, <1>2
  <1> HIDE DEF err
  <1>4. As(err, Service(o)) /\ As(err, t) /\ IsError(err)
    <2>1. /\ 1 \in DOMAIN err.types /\ err.types[1] = Service(o)
          /\ 2 \in DOMAIN err.types /\ err.types[2] = t
      BY <1>3
    <2> QED BY <2>1, <1>3 DEF As, IsError
  <1> QED BY <1>3, <1>4 DEF err

\* The errors an operation makes of a decoded answer.
AnswerTypes == {<<>>, <<"text">>, <<"AFIPError">>, <<"ErrWSAAAuth", "text">>}

LEMMA Answered ==
  ASSUME NEW o \in Ops, NEW a \in Answers(o)
  PROVE  /\ FromAnswer(o, a).err.types \in AnswerTypes
         /\ ~IsError(FromAnswer(o, a).err) =>
              /\ o \in WsfeOps => a.errors = <<>>
              /\ FromAnswer(o, a).value # Nil
         /\ o = "persona" /\ FromAnswer(o, a).value # Nil =>
              a # Nil /\ a \in personaReturn /\ FromAnswer(o, a).value = toPersona(a)
  <1>1. CASE o \in WsfeOps
    <2>1. FromAnswer(o, a) = FromWsfe(o, a) /\ a \in WsfeAnswers /\ o # "persona"
      BY <1>1 DEF FromAnswer, Answers, WsfeOps
    <2>2. FromWsfe(o, a).err.types \in AnswerTypes
      BY DEF FromWsfe, Failed, Result, AFIPErrorOf, Text, NoError, AnswerTypes
    <2>3. ~IsError(FromWsfe(o, a).err) => a.errors = <<>> /\ FromWsfe(o, a).value # Nil
      BY NilAssumption DEF FromWsfe, Failed, Result, AFIPErrorOf, Text, NoError, IsError
    <2> QED BY <2>1, <2>2, <2>3
  <1>2. CASE o = "dummy"
    <2>1. FromAnswer(o, a) = FromDummy(a) /\ a \in {Nil, "OK"}
      BY <1>2 DEF FromAnswer, Answers, WsfeOps
    <2> QED BY <1>2, <2>1, NilAssumption
         DEF FromDummy, Result, NoError, AnswerTypes, WsfeOps
  <1>3. CASE o = "persona"
    <2>1. FromAnswer(o, a) = FromPersona(a) /\ a \in {Nil} \cup personaReturn /\ o \notin WsfeOps
      BY <1>3 DEF FromAnswer, Answers, WsfeOps
    <2>2. FromPersona(a).err.types \in AnswerTypes
      BY DEF FromPersona, Failed, Result, AFIPErrorOf, Text, NoError, AnswerTypes
    <2>3. FromPersona(a).value # Nil => a # Nil /\ FromPersona(a).value = toPersona(a)
      BY DEF FromPersona, Failed, Result
    <2>4. ~IsError(FromPersona(a).err) => a # Nil /\ FromPersona(a).value = toPersona(a)
      BY DEF FromPersona, Failed, Result, AFIPErrorOf, Text, NoError, IsError
    <2>5. a # Nil => toPersona(a) # Nil
      BY <2>1, NilAssumption
    <2> QED BY <2>1, <2>2, <2>3, <2>4, <2>5
  <1>4. CASE o = "login"
    <2>1. FromAnswer(o, a) = FromLogin(a) /\ o \notin WsfeOps
      BY <1>4 DEF FromAnswer, WsfeOps
    <2>2. CASE a = "ticket"
      BY <1>4, <2>1, <2>2, NilAssumption DEF FromLogin, Result, NoError, AnswerTypes
    <2>3. CASE a # "ticket"
      <3>1. FromLogin(a).err = Wrapper("login", [types |-> <<"text">>, codes |-> Nil])
        BY <2>3 DEF FromLogin, Failed, Result, Text
      <3> QED BY <1>4, <2>1, <3>1, Wrapped DEF Service, AnswerTypes
    <2> QED BY <2>2, <2>3
  <1> QED BY <1>1, <1>2, <1>3, <1>4 DEF Ops

\* What errors.As finds in an error with one type.
LEMMA AsOne == ASSUME NEW err, NEW t, err.types = <<t>> PROVE \A u : As(err, u) <=> t = u
  BY DEF As

\* Only the absence AFIP explains makes an *AFIPError that is nil.
LEMMA AnsweredUsable ==
  ASSUME NEW o \in Ops, NEW a \in Answers(o)
  PROVE  As(FromAnswer(o, a).err, "AFIPError") /\ FromAnswer(o, a).err.codes = Nil
           <=> o = "persona" /\ Explained(a)
  <1>0. ~As(NoError, "AFIPError") /\ ~As(Text, "AFIPError")
    <2>1. ~As(NoError, "AFIPError")
      BY DEF As, NoError
    <2>2. ~As(Text, "AFIPError")
      BY AsOne DEF Text
    <2> QED BY <2>1, <2>2
  <1>a. ASSUME NEW p PROVE As(AFIPErrorOf(p), "AFIPError") /\ AFIPErrorOf(p).codes = p
    BY AsOne DEF AFIPErrorOf
  <1>1. CASE o \in WsfeOps
    <2>1. FromAnswer(o, a) = FromWsfe(o, a) /\ a \in WsfeAnswers /\ o # "persona"
      BY <1>1 DEF FromAnswer, Answers, WsfeOps
    <2>2. CASE a.errors # <<>>
      <3>1. NewAFIPError(a.errors) # Nil
        BY <2>1, <2>2, NilAssumption DEF NewAFIPError, WsfeAnswers
      <3>2. FromWsfe(o, a).err = AFIPErrorOf(NewAFIPError(a.errors))
        BY <2>2 DEF FromWsfe, Failed, Result
      <3> QED BY <2>1, <3>1, <3>2, <1>a
    <2>3. CASE a.errors = <<>>
      <3>1. FromWsfe(o, a).err \in {NoError, Text}
        BY <2>3 DEF FromWsfe, Failed, Result
      <3> QED BY <2>1, <3>1, <1>0
    <2> QED BY <2>2, <2>3
  <1>2. CASE o = "dummy"
    <2>1. FromAnswer(o, a).err = NoError
      BY <1>2 DEF FromAnswer, WsfeOps, FromDummy, Result
    <2> QED BY <1>2, <2>1, <1>0
  <1>3. CASE o = "persona"
    <2>1. FromAnswer(o, a) = FromPersona(a)
      BY <1>3 DEF FromAnswer, WsfeOps
    <2>2. CASE Explained(a)
      <3>1. FromPersona(a).err = AFIPErrorOf(Nil)
        BY <2>2 DEF FromPersona, Explained, Failed, Result, NewAFIPError
      <3> QED BY <1>3, <2>1, <2>2, <3>1, <1>a
    <2>3. CASE ~Explained(a)
      <3>1. FromPersona(a).err \in {NoError, Text}
        BY <2>3 DEF FromPersona, Explained, Failed, Result
      <3> QED BY <2>1, <2>3, <3>1, <1>0
    <2> QED BY <2>2, <2>3
  <1>4. CASE o = "login"
    <2>1. FromAnswer(o, a) = FromLogin(a)
      BY <1>4 DEF FromAnswer, WsfeOps
    <2>2. CASE a = "ticket"
      <3>1. FromLogin(a).err = NoError
        BY <2>2 DEF FromLogin, Result
      <3> QED BY <1>4, <2>1, <3>1, <1>0
    <2>3. CASE a # "ticket"
      <3>1. FromLogin(a).err = Wrapper("login", [types |-> <<"text">>, codes |-> Nil])
        BY <2>3 DEF FromLogin, Failed, Result, Text
      <3>2. FromLogin(a).err.types = <<"ErrWSAAAuth", "text">>
        BY <3>1, Wrapped DEF Service
      <3>3. ~As(FromLogin(a).err, "AFIPError")
        BY <3>2 DEF As
      <3> QED BY <1>4, <2>1, <3>3
    <2> QED BY <2>2, <2>3
  <1> QED BY <1>1, <1>2, <1>3, <1>4 DEF Ops

\* What Decode makes of a response, in the order of its checks.
LEMMA Decoded ==
  ASSUME NEW r
  PROVE  /\ r.status = 200 /\ r.body.kind = "answer" <=> Decode(r) = NoError
         /\ Decode(r) # NoError =>
              Decode(r) = [types |-> <<IF r.body.kind = "fault" THEN "Fault" ELSE "text">>,
                           codes |-> Nil]
         /\ IsError(Decode(r)) <=> Decode(r) # NoError
  BY DEF Decode, HasFault, Fault, Text, NoError, IsError

\* ImpuestosActivos is the union of what the two regimes list as active.
LEMMA ActiveTaxes ==
  ASSUME NEW pr, NEW id
  PROVE  HasImpuesto(toPersona(pr), id)
           <=> \/ /\ pr.datosMonotributo # Nil /\ id \in DOMAIN pr.datosMonotributo
                  /\ pr.datosMonotributo[id] = "ACTIVO"
               \/ /\ pr.datosRegimenGeneral # Nil /\ id \in DOMAIN pr.datosRegimenGeneral
                  /\ pr.datosRegimenGeneral[id] = "ACTIVO"
  <1>1. ASSUME NEW regime
        PROVE  (\E j \in Impuestos(regime) : j[1] = id /\ j[2] = "ACTIVO")
                 <=> regime # Nil /\ id \in DOMAIN regime /\ regime[id] = "ACTIVO"
    <2>1. CASE regime = Nil
      BY <2>1 DEF Impuestos
    <2>2. CASE regime # Nil
      <3>1. \A j : j \in Impuestos(regime) <=> \E i \in DOMAIN regime : j = <<i, regime[i]>>
        BY <2>2 DEF Impuestos
      <3>2. ASSUME NEW j \in Impuestos(regime), j[1] = id, j[2] = "ACTIVO"
            PROVE  id \in DOMAIN regime /\ regime[id] = "ACTIVO"
        <4>1. PICK i \in DOMAIN regime : j = <<i, regime[i]>>
          BY <3>1, <3>2
        <4> QED BY <3>2, <4>1
      <3>3. ASSUME id \in DOMAIN regime, regime[id] = "ACTIVO"
            PROVE  \E j \in Impuestos(regime) : j[1] = id /\ j[2] = "ACTIVO"
        <4>1. <<id, regime[id]>> \in Impuestos(regime)
          BY <3>1, <3>3
        <4> QED BY <3>3, <4>1
      <3> QED BY <2>2, <3>2, <3>3
    <2> QED BY <2>1, <2>2
  <1>2. HasImpuesto(toPersona(pr), id) <=>
          \E j \in Impuestos(pr.datosMonotributo) \cup Impuestos(pr.datosRegimenGeneral) :
            j[1] = id /\ j[2] = "ACTIVO"
    BY DEF HasImpuesto, ImpuestosActivos, toPersona
  <1> QED BY <1>1, <1>2

-----------------------------------------------------------------------------
(* Warnings *)

Kept(kept, t) == IF t = "" THEN kept ELSE Append(kept, t)

\* g is what FoldLeft's recursion asks for when it goes through texts.
Folds(texts, g) ==
  g = [S \in SUBSET DOMAIN texts |->
         IF S = {} THEN <<>> ELSE Kept(g[S \ {Max(S)}], texts[Max(S)])]

LEMMA AppendTextsFolds ==
  ASSUME NEW texts
  PROVE  AppendTexts(texts) = (CHOOSE g : Folds(texts, g))[DOMAIN texts]
  BY Zenon DEF AppendTexts, FoldLeft, MapThenFoldSet, Folds, Kept

LEMMA MaxOf == Max({1}) = 1 /\ Max({2}) = 2 /\ Max({1, 2}) = 2
  BY DEF Max

\* AFIP writes at most two texts to a list in the model.
LEMMA AppendTextsIs ==
  /\ AppendTexts(<<>>) = <<>>
  /\ AppendTexts(<<"">>) = <<>>
  /\ AppendTexts(<<"", "text">>) = <<"text">>
  <1>1. AppendTexts(<<>>) = <<>>
    <2> DEFINE s == <<>>
               g == [S \in SUBSET DOMAIN s |-> <<>>]
    <2>1. DOMAIN s = {}
      OBVIOUS
    <2>2. Folds(s, g)
      BY <2>1 DEF Folds
    <2>3. ASSUME NEW h, Folds(s, h) PROVE h[DOMAIN s] = <<>>
      BY <2>1, <2>3 DEF Folds
    <2> HIDE DEF g, s
    <2>4. AppendTexts(s) = <<>>
      BY <2>2, <2>3, AppendTextsFolds
    <2> QED BY <2>4 DEF s
  <1>2. AppendTexts(<<"">>) = <<>>
    <2> DEFINE s == <<"">>
               g == [S \in SUBSET DOMAIN s |-> <<>>]
    <2>1. DOMAIN s = {1} /\ s[1] = ""
      OBVIOUS
    <2>2. \A S \in SUBSET {1} : S # {} => S = {1}
      OBVIOUS
    <2>3. Folds(s, g)
      <3>1. \A S \in SUBSET DOMAIN s :
              IF S = {} THEN g[S] = <<>> ELSE g[S] = Kept(g[S \ {Max(S)}], s[Max(S)])
        BY <2>1, <2>2, MaxOf DEF Kept
      <3> HIDE DEF s
      <3> QED BY <3>1 DEF Folds
    <2>4. ASSUME NEW h, Folds(s, h) PROVE h[DOMAIN s] = <<>>
      <3>1. h[{1}] = Kept(h[{1} \ {Max({1})}], s[Max({1})]) /\ h[{}] = <<>>
        BY <2>1, <2>4 DEF Folds
      <3> QED BY <2>1, <3>1, MaxOf DEF Kept
    <2> HIDE DEF g, s
    <2>5. AppendTexts(s) = <<>>
      BY <2>3, <2>4, AppendTextsFolds
    <2> QED BY <2>5 DEF s
  <1>3. AppendTexts(<<"", "text">>) = <<"text">>
    <2> DEFINE s == <<"", "text">>
               g == [S \in SUBSET DOMAIN s |-> IF 2 \in S THEN <<"text">> ELSE <<>>]
    <2>1. DOMAIN s = {1, 2} /\ s[1] = "" /\ s[2] = "text"
      OBVIOUS
    <2>2. \A S \in SUBSET {1, 2} : S = {} \/ S = {1} \/ S = {2} \/ S = {1, 2}
      OBVIOUS
    <2>3. Append(<<>>, "text") = <<"text">>
      OBVIOUS
    <2>4. Folds(s, g)
      <3>1. ASSUME NEW S \in SUBSET DOMAIN s
            PROVE  g[S] = IF S = {} THEN <<>> ELSE Kept(g[S \ {Max(S)}], s[Max(S)])
        <4>0. /\ g[{}] = <<>> /\ g[{1}] = <<>> /\ g[{2}] = <<"text">> /\ g[{1, 2}] = <<"text">>
              /\ {1} \ {1} = {} /\ {2} \ {2} = {} /\ {1, 2} \ {2} = {1}
          BY <2>1
        <4> HIDE DEF g, s
        <4>1. CASE S = {} BY <4>0, <4>1
        <4>2. CASE S = {1} BY <2>1, <4>0, <4>2, MaxOf DEF Kept
        <4>3. CASE S = {2} BY <2>1, <2>3, <4>0, <4>3, MaxOf DEF Kept
        <4>4. CASE S = {1, 2} BY <2>1, <2>3, <4>0, <4>4, MaxOf DEF Kept
        <4> QED BY <2>1, <2>2, <4>1, <4>2, <4>3, <4>4
      <3> HIDE DEF s
      <3> QED BY <3>1 DEF Folds
    <2>5. ASSUME NEW h, Folds(s, h) PROVE h[DOMAIN s] = <<"text">>
      <3>1. \A S \in SUBSET {1, 2} :
              h[S] = IF S = {} THEN <<>> ELSE Kept(h[S \ {Max(S)}], s[Max(S)])
        BY <2>1, <2>5 DEF Folds
      <3> HIDE DEF s
      <3>2. h[{}] = <<>>
        BY <3>1
      <3>3. h[{1}] = Kept(h[{}], s[1])
        <4>1. {1} \ {1} = {}
          OBVIOUS
        <4> QED BY <3>1, <4>1, MaxOf
      <3>4. h[{1, 2}] = Kept(h[{1}], s[2])
        <4>1. {1, 2} \ {2} = {1}
          OBVIOUS
        <4> QED BY <3>1, <4>1, MaxOf
      <3> QED BY <2>1, <2>3, <3>2, <3>3, <3>4 DEF Kept
    <2> HIDE DEF g, s
    <2>6. AppendTexts(s) = <<"text">>
      BY <2>4, <2>5, AppendTextsFolds
    <2> QED BY <2>6 DEF s
  <1> QED BY <1>1, <1>2, <1>3

LEMMA CardinalityOfThree ==
  ASSUME NEW a, NEW b, NEW c, a # b, a # c, b # c, NEW W \in SUBSET {a, b, c}
  PROVE  Cardinality(W) = (IF a \in W THEN 1 ELSE 0) + (IF b \in W THEN 1 ELSE 0)
                            + (IF c \in W THEN 1 ELSE 0)
  <1>1. \A S, x : IsFiniteSet(S) /\ x \notin S =>
          IsFiniteSet(S \cup {x}) /\ Cardinality(S \cup {x}) = Cardinality(S) + 1
    BY FS_AddElement
  <1>2. IsFiniteSet({}) /\ Cardinality({}) = 0
    BY FS_EmptySet
  <1> DEFINE A == W \cap {a}
             B == W \cap {a, b}
  <1>3. IsFiniteSet(A) /\ Cardinality(A) = IF a \in W THEN 1 ELSE 0
    <2>1. CASE a \in W
      <3>1. A = {} \cup {a}
        BY <2>1
      <3> QED BY <1>1, <1>2, <2>1, <3>1
    <2>2. CASE a \notin W
      <3>1. A = {}
        BY <2>2
      <3> QED BY <1>2, <2>2, <3>1
    <2> QED BY <2>1, <2>2
  <1>4. IsFiniteSet(B) /\ Cardinality(B) = Cardinality(A) + (IF b \in W THEN 1 ELSE 0)
    <2>1. CASE b \in W
      <3>1. B = A \cup {b} /\ b \notin A
        BY <2>1
      <3> QED BY <1>1, <1>3, <2>1, <3>1
    <2>2. CASE b \notin W
      <3>1. B = A
        BY <2>2
      <3> HIDE DEF A, B
      <3> QED BY <1>3, <2>2, <3>1
    <2> QED BY <2>1, <2>2
  <1>5. Cardinality(W) = Cardinality(B) + (IF c \in W THEN 1 ELSE 0)
    <2>1. CASE c \in W
      <3>1. W = B \cup {c} /\ c \notin B
        BY <2>1
      <3> QED BY <1>1, <1>4, <2>1, <3>1
    <2>2. CASE c \notin W
      <3>1. W = B
        BY <2>2
      <3> HIDE DEF B
      <3>2. Cardinality(W) = Cardinality(B) + 0
        BY <1>3, <1>4, <3>1
      <3> QED BY <2>2, <3>2
    <2> QED BY <2>1, <2>2
  <1> HIDE DEF A, B
  <1> QED BY <1>3, <1>4, <1>5

\* Every text AFIP wrote is one of the persona's warnings.
LEMMA WarningsCounted ==
  ASSUME NEW pr \in personaReturn
  PROVE  /\ Len(Errores(pr)) = Cardinality(Written(pr))
         /\ Errores(pr) = <<>> <=> Written(pr) = {}
  <1> DEFINE taken(list) == AppendTexts(pr.errores[list])
             T == {"text"}
             a == "constancia"
             b == "monotributo"
             c == "regimenGeneral"
  <1>1. ASSUME NEW list \in ErrorLists
        PROVE  /\ taken(list) \in Seq(T)
               /\ Len(taken(list)) = IF list \in Written(pr) THEN 1 ELSE 0
    <2>1. pr.errores[list] \in {<<>>, <<"">>, <<"", "text">>}
      BY <1>1 DEF personaReturn, Texts
    <2>2. <<>> \in Seq(T) /\ Len(<<>>) = 0 /\ <<"text">> \in Seq(T) /\ Len(<<"text">>) = 1
      OBVIOUS
    <2> DEFINE e == pr.errores[list]
    <2>3. list \in Written(pr) <=> \E i \in DOMAIN e : e[i] # ""
      BY <1>1 DEF Written
    <2>4. e \in {<<>>, <<"">>, <<"", "text">>}
      BY <2>1
    <2>5. (\E i \in DOMAIN e : e[i] # "") <=> e = <<"", "text">>
      <3> HIDE DEF e
      <3>1. CASE e = <<>>
        BY <3>1
      <3>2. CASE e = <<"">>
        <4>1. /\ DOMAIN <<"">> = {1} /\ (<<"">>)[1] = ""
              /\ DOMAIN <<"", "text">> = {1, 2} /\ {1} # {1, 2}
          OBVIOUS
        <4>2. DOMAIN e = {1} /\ e[1] = ""
          BY <3>2, <4>1, Zenon
        <4>3. e # <<"", "text">>
          BY <4>1, <4>2, Zenon
        <4> QED BY <4>2, <4>3
      <3>3. CASE e = <<"", "text">>
        <4>1. DOMAIN <<"", "text">> = {1, 2} /\ (<<"", "text">>)[2] = "text"
          OBVIOUS
        <4>2. DOMAIN e = {1, 2} /\ e[2] = "text"
          BY <3>3, <4>1, Zenon
        <4> QED BY <3>3, <4>2
      <3> QED BY <2>4, <3>1, <3>2, <3>3
    <2> QED BY <2>2, <2>3, <2>4, <2>5, AppendTextsIs
  <1>2. {a, b, c} = ErrorLists
    BY DEF ErrorLists
  <1>3. Errores(pr) = taken(a) \o taken(b) \o taken(c)
    BY DEF Errores
  <1>4. Written(pr) \in SUBSET {a, b, c}
    BY DEF Written, ErrorLists
  <1>5. Cardinality(Written(pr)) = (IF a \in Written(pr) THEN 1 ELSE 0)
          + (IF b \in Written(pr) THEN 1 ELSE 0) + (IF c \in Written(pr) THEN 1 ELSE 0)
    <2>1. a # b /\ a # c /\ b # c
      OBVIOUS
    <2> HIDE DEF a, b, c
    <2> QED BY <1>4, <2>1, CardinalityOfThree
  <1>6. /\ taken(a) \in Seq(T) /\ Len(taken(a)) = IF a \in Written(pr) THEN 1 ELSE 0
        /\ taken(b) \in Seq(T) /\ Len(taken(b)) = IF b \in Written(pr) THEN 1 ELSE 0
        /\ taken(c) \in Seq(T) /\ Len(taken(c)) = IF c \in Written(pr) THEN 1 ELSE 0
    BY <1>1, <1>2
  <1> HIDE DEF taken, a, b, c, T
  <1>7. /\ taken(a) \o taken(b) \in Seq(T)
        /\ Len(taken(a) \o taken(b)) = Len(taken(a)) + Len(taken(b))
    BY <1>6, ConcatProperties
  <1>8. /\ Errores(pr) \in Seq(T)
        /\ Len(Errores(pr)) = Len(taken(a)) + Len(taken(b)) + Len(taken(c))
    <2> DEFINE ab == taken(a) \o taken(b)
    <2>1. /\ ab \in Seq(T) /\ Len(ab) = Len(taken(a)) + Len(taken(b))
          /\ taken(c) \in Seq(T) /\ Errores(pr) = ab \o taken(c)
      BY <1>3, <1>6, <1>7
    <2> HIDE DEF ab
    <2>2. ab \o taken(c) \in Seq(T) /\ Len(ab \o taken(c)) = Len(ab) + Len(taken(c))
      BY <2>1, ConcatProperties
    <2> QED BY <2>1, <2>2
  <1>9. Len(Errores(pr)) = Cardinality(Written(pr))
    BY <1>5, <1>6, <1>8
  <1>10. Errores(pr) = <<>> <=> Len(Errores(pr)) = 0
    BY <1>8, EmptySeq
  <1>11. Written(pr) = {} <=> Len(Errores(pr)) = 0
    BY <1>4, <1>6, <1>8
  <1> QED BY <1>9, <1>10, <1>11

-----------------------------------------------------------------------------
(* The exchange *)

Responses(o) == [status : {200, 500}, body : Bodies(o)]

\* A body carries an answer of the operation, or nothing.
LEMMA BodyAnswer ==
  ASSUME NEW o, NEW b \in Bodies(o)
  PROVE  /\ b.kind = "answer" => b.answer \in Answers(o)
         /\ b.answer = Nil \/ b.answer \in Answers(o)
  <1>1. CASE \E k \in {"no envelope", "fault", "other element"} : b = Body(k, Nil)
    <2>1. PICK k \in {"no envelope", "fault", "other element"} : b = Body(k, Nil)
      BY <1>1
    <2>2. b.kind = k /\ b.answer = Nil
      BY <2>1 DEF Body
    <2> QED BY <2>2
  <1>2. CASE \E a \in Answers(o) : b = Body("answer", a)
    BY <1>2 DEF Body
  <1> QED BY <1>1, <1>2 DEF Bodies

ExchangeInv ==
  /\ opts \in OptionLists /\ timeout \in Nat /\ deadline \in BOOLEAN
  /\ pc \in {"idle", "sent", "reading", "read"}
  /\ op \in Ops
  /\ resp = NoResponse \/ resp \in Responses(op)
  /\ pc \in {"reading", "read"} => resp \in Responses(op)
  /\ pc # "idle" => ret = Nil
  /\ ret # Nil => ret.err.types \in
       AnswerTypes \cup {<<w, t>> : w \in {"ErrSOAP", "ErrWSAAAuth"}, t \in {"text", "Fault"}}

Inv == ExchangeInv /\ FailureIsTyped /\ SuccessIsAnswered /\ PersonaKept /\ TaxesFollowAfip /\ AFIPErrorUsable

LEMMA TimeoutType == ASSUME NEW list \in OptionLists PROVE NewClient(list) \in Nat
  <1>1. list \in Seq([kind : {"timeout", "http"}, timeout : Nat])
    BY OptionsAssumption
  <1>2. list # <<>> => list[Len(list)].timeout \in Nat
    <2>1. list # <<>> => Len(list) \in DOMAIN list
      BY <1>1
    <2> DEFINE Option == [kind : {"timeout", "http"}, timeout : Nat]
    <2>2. \A i \in DOMAIN list : list[i] \in Option
      <3> HIDE DEF Option
      <3>1. list \in Seq(Option)
        BY <1>1 DEF Option
      <3> QED BY <3>1
    <2> QED BY <2>1, <2>2
  <1> QED BY <1>2 DEF NewClient, Timeout

LEMMA InitInv == Init => Inv
  <1> SUFFICES ASSUME Init PROVE Inv
    OBVIOUS
  <1>1. timeout \in Nat
    BY TimeoutType DEF Init
  <1>2. /\ opts \in OptionLists /\ pc = "idle" /\ op = "dummy" /\ resp = NoResponse /\ ret = Nil
        /\ deadline \in BOOLEAN
    BY DEF Init
  <1>3. ExchangeInv
    BY <1>1, <1>2 DEF ExchangeInv, Ops
  <1>4. FailureIsTyped /\ SuccessIsAnswered /\ PersonaKept /\ TaxesFollowAfip /\ AFIPErrorUsable
    BY <1>2 DEF FailureIsTyped, SuccessIsAnswered, PersonaKept, TaxesFollowAfip, AFIPErrorUsable, Returned
  <1> QED BY <1>3, <1>4 DEF Inv

\* A call under way has returned nothing yet.
LEMMA UnderWay ==
  ASSUME pc' # "idle" \/ ret' = Nil
  PROVE  FailureIsTyped' /\ SuccessIsAnswered' /\ PersonaKept' /\ TaxesFollowAfip' /\ AFIPErrorUsable'
  BY DEF FailureIsTyped, SuccessIsAnswered, PersonaKept, TaxesFollowAfip, AFIPErrorUsable, Returned

\* The exchange ended without a whole response.
LEMMA TransportInv ==
  ASSUME Inv, TransportError
  PROVE  Inv'
  <1>1. /\ UNCHANGED <<opts, timeout, op, deadline>> /\ pc' = "idle" /\ resp' = NoResponse
        /\ ret' = Failed(Wrapper(op, [types |-> <<"text">>, codes |-> Nil]))
    BY DEF TransportError, Text
  <1>2. ret'.value = Nil /\ ret'.err = Wrapper(op, [types |-> <<"text">>, codes |-> Nil])
    BY <1>1 DEF Failed, Result
  <1>3. resp'.status = 0 /\ resp'.body.kind = "none"
    BY <1>1 DEF NoResponse, Body
  <1>4. /\ ret'.err.types = <<Service(op), "text">>
        /\ As(ret'.err, Service(op)) /\ IsError(ret'.err)
    BY <1>2, Wrapped
  <1>5. ExchangeInv'
    BY <1>1, <1>4 DEF Inv, ExchangeInv, Service
  <1>6. FailureIsTyped'
    BY <1>1, <1>3, <1>4 DEF FailureIsTyped, Service, Returned, As
  <1>7. SuccessIsAnswered' /\ TaxesFollowAfip'
    BY <1>2, <1>4 DEF SuccessIsAnswered, TaxesFollowAfip, IsError
  <1>8. PersonaKept'
    BY <1>3 DEF PersonaKept
  <1>9. AFIPErrorUsable'
    <2>1. ~As(ret'.err, "AFIPError")
      BY <1>4 DEF As, Service
    <2> QED BY <1>3, <2>1 DEF AFIPErrorUsable
  <1> QED BY <1>5, <1>6, <1>7, <1>8, <1>9 DEF Inv

\* A whole response is looked at.
LEMMA ReturnsInv ==
  ASSUME Inv, Returns
  PROVE  Inv'
  <1> DEFINE a == resp.body.answer
             w == [types |-> <<IF resp.body.kind = "fault" THEN "Fault" ELSE "text">>,
                   codes |-> Nil]
  <1>1. /\ UNCHANGED <<opts, timeout, op, deadline, resp>> /\ pc' = "idle"
        /\ resp \in Responses(op) /\ op \in Ops
        /\ ret' = IF IsError(Decode(resp)) THEN Failed(Wrapper(op, Decode(resp)))
                                          ELSE FromAnswer(op, a)
    BY DEF Returns, Inv, ExchangeInv
  <1>2. CASE resp.status = 200 /\ resp.body.kind = "answer"
    <2>1. ret' = FromAnswer(op, a)
      BY <1>1, <1>2, Decoded
    <2>2. a \in Answers(op)
      BY <1>1, <1>2, BodyAnswer DEF Responses
    <2>3. /\ ret'.err.types \in AnswerTypes
          /\ ~IsError(ret'.err) => (op \in WsfeOps => a.errors = <<>>) /\ ret'.value # Nil
          /\ op = "persona" /\ ret'.value # Nil =>
               a # Nil /\ a \in personaReturn /\ ret'.value = toPersona(a)
      BY <1>1, <2>1, <2>2, Answered
    <2>4. ExchangeInv'
      BY <1>1, <2>3 DEF Inv, ExchangeInv
    <2>5. FailureIsTyped'
      <3>1. ~As(ret'.err, "ErrSOAP")
        BY <2>3 DEF As, AnswerTypes
      <3> QED BY <1>1, <1>2, <3>1 DEF FailureIsTyped, As
    <2>6. SuccessIsAnswered'
      BY <1>1, <1>2, <2>3 DEF SuccessIsAnswered, IsError
    <2>7. TaxesFollowAfip'
      <3> SUFFICES ASSUME op = "persona", ret'.value # Nil, NEW id \in Taxes
                   PROVE  HasImpuesto(toPersona(a), id)
                            <=> \/ /\ a.datosMonotributo # Nil /\ id \in DOMAIN a.datosMonotributo
                                   /\ a.datosMonotributo[id] = "ACTIVO"
                                \/ /\ a.datosRegimenGeneral # Nil
                                   /\ id \in DOMAIN a.datosRegimenGeneral
                                   /\ a.datosRegimenGeneral[id] = "ACTIVO"
        BY <1>1, <2>3 DEF TaxesFollowAfip, HasImpuesto, ImpuestosActivos
      <3> QED BY ActiveTaxes
    <2>8. PersonaKept'
      <3> SUFFICES ASSUME op = "persona", a # Nil, a.datosGenerales # Nil
                   PROVE  /\ ret'.value # Nil
                          /\ Len(ret'.value.errores) = Cardinality(Written(a))
                          /\ IsError(ret'.err) <=> Written(a) # {}
        BY <1>1 DEF PersonaKept
      <3>1. a \in personaReturn
        BY <2>2 DEF Answers, WsfeOps
      <3>2. ret' = Result(toPersona(a), IF Errores(a) = <<>> THEN NoError ELSE Text)
        BY <2>1 DEF FromAnswer, FromPersona, WsfeOps
      <3>3. ret'.value = toPersona(a) /\ (IsError(ret'.err) <=> Errores(a) # <<>>)
        BY <3>2 DEF Result, NoError, Text, IsError
      <3>4. toPersona(a).errores = Errores(a)
        BY DEF toPersona
      <3> QED BY <3>1, <3>3, <3>4, WarningsCounted, NilAssumption
    <2>9. AFIPErrorUsable'
      <3>1. As(ret'.err, "AFIPError") /\ ret'.err.codes = Nil <=> op = "persona" /\ Explained(a)
        BY <1>1, <2>1, <2>2, AnsweredUsable
      <3> QED BY <1>1, <1>2, <3>1 DEF AFIPErrorUsable, As
    <2> QED BY <2>4, <2>5, <2>6, <2>7, <2>8, <2>9 DEF Inv
  <1>3. CASE ~(resp.status = 200 /\ resp.body.kind = "answer")
    <2>1. ret' = Failed(Wrapper(op, w)) /\ ret'.value = Nil /\ ret'.err = Wrapper(op, w)
      BY <1>1, <1>3, Decoded DEF Failed, Result
    <2>2. /\ ret'.err.types = <<Service(op), IF resp.body.kind = "fault" THEN "Fault" ELSE "text">>
          /\ As(ret'.err, Service(op)) /\ IsError(ret'.err)
          /\ resp.body.kind = "fault" => As(ret'.err, "Fault")
      BY <2>1, Wrapped
    <2>3. ExchangeInv'
      <3>1. Service(op) \in {"ErrSOAP", "ErrWSAAAuth"}
        BY DEF Service
      <3>2. ret'.err.types \in {<<s, f>> : s \in {"ErrSOAP", "ErrWSAAAuth"}, f \in {"text", "Fault"}}
        <4> DEFINE f == IF resp.body.kind = "fault" THEN "Fault" ELSE "text"
        <4>1. f \in {"text", "Fault"}
          OBVIOUS
        <4> HIDE DEF f
        <4>2. <<Service(op), f>> \in {<<s, g>> : s \in {"ErrSOAP", "ErrWSAAAuth"}, g \in {"text", "Fault"}}
          BY <3>1, <4>1
        <4> QED BY <2>2, <4>2 DEF f
      <3> QED BY <1>1, <3>2 DEF Inv, ExchangeInv
    <2>4. FailureIsTyped'
      BY <1>1, <1>3, <2>2 DEF FailureIsTyped, Service, As
    <2>5. SuccessIsAnswered' /\ TaxesFollowAfip'
      BY <2>1, <2>2 DEF SuccessIsAnswered, TaxesFollowAfip, IsError
    <2>6. PersonaKept'
      BY <1>1, <1>3 DEF PersonaKept
    <2>7. AFIPErrorUsable'
      <3>1. ~As(ret'.err, "AFIPError")
        BY <2>2 DEF As, Service
      <3> QED BY <1>1, <1>3, <3>1 DEF AFIPErrorUsable, As
    <2> QED BY <2>3, <2>4, <2>5, <2>6, <2>7 DEF Inv
  <1> QED BY <1>2, <1>3

LEMMA NextInv == Inv /\ [Next]_vars => Inv'
  <1> SUFFICES ASSUME Inv, [Next]_vars PROVE Inv'
    OBVIOUS
  <1>1. ASSUME NEW d \in {0, 5}, BuildAnother(d) PROVE Inv'
    <2>1. UNCHANGED <<opts, pc, op, deadline, resp, ret>> /\ timeout' \in Nat
      BY <1>1 DEF BuildAnother
    <2> QED BY <2>1 DEF Inv, ExchangeInv, FailureIsTyped, SuccessIsAnswered, PersonaKept, TaxesFollowAfip, AFIPErrorUsable, Returned
  <1>2. ASSUME NEW o \in Ops, Call(o) PROVE Inv'
    <2>1. ExchangeInv'
      BY <1>2 DEF Call, Inv, ExchangeInv
    <2> QED BY <1>2, <2>1, UnderWay DEF Call, Inv
  <1>3. ASSUME NEW status \in {200, 500}, NEW body \in Bodies(op), AfipAnswers(status, body)
        PROVE  Inv'
    <2>1. resp' \in Responses(op') /\ UNCHANGED <<opts, timeout, op, deadline, ret>>
          /\ pc' = "reading" /\ pc = "sent"
      BY <1>3 DEF AfipAnswers, Responses
    <2>2. ExchangeInv'
      BY <2>1 DEF Inv, ExchangeInv
    <2> QED BY <2>1, <2>2, UnderWay DEF Inv
  <1>4. ASSUME Breaks \/ Expires PROVE Inv'
    BY <1>4, TransportInv DEF Breaks, Expires
  <1>5. ASSUME BodyArrives PROVE Inv'
    <2>1. ExchangeInv'
      BY <1>5 DEF BodyArrives, Inv, ExchangeInv
    <2> QED BY <1>5, <2>1, UnderWay DEF BodyArrives, Inv
  <1>6. CASE UNCHANGED vars
    BY <1>6 DEF vars, Inv, ExchangeInv, FailureIsTyped, SuccessIsAnswered, PersonaKept, TaxesFollowAfip, AFIPErrorUsable, Returned
  <1> QED BY <1>1, <1>2, <1>3, <1>4, <1>5, <1>6, ReturnsInv DEF Next

LEMMA Exchanges == Spec => []Inv
  BY InitInv, NextInv, PTL DEF Spec

-----------------------------------------------------------------------------
(* Theorems *)

\* Every reachable state is well typed: an error has at most one wrapper, and a
\* response is one of the operation under way.
THEOREM TypeCorrect == Spec => []TypeOK
  <1>1. Inv => TypeOK
    <2> SUFFICES ASSUME ExchangeInv PROVE TypeOK
      BY DEF Inv
    <2>1. resp.status \in {0, 200, 500}
      BY DEF ExchangeInv, NoResponse, Responses
    <2>2. resp.body.answer = Nil \/ resp.body.answer \in Answers(op)
      <3>1. CASE resp = NoResponse
        BY <3>1 DEF NoResponse, Body
      <3>2. CASE resp \in Responses(op)
        BY <3>2, BodyAnswer DEF Responses
      <3> QED BY <3>1, <3>2 DEF ExchangeInv
    <2> QED BY <2>1, <2>2 DEF ExchangeInv, TypeOK, AnswerTypes
  <1> QED BY <1>1, Exchanges, PTL

\* Whatever the server answers, with whatever status, and wherever the
\* connection breaks, a failed exchange is an ErrSOAP, or an ErrWSAAAuth for a
\* login, a fault can be found in it, and no other failure is an ErrSOAP.
THEOREM FailuresAreTyped == Spec => []FailureIsTyped
  <1>1. Inv => FailureIsTyped
    BY DEF Inv
  <1> QED BY <1>1, Exchanges, PTL

\* A call without an error had a whole answer, without errors in it, and its
\* result is not nil.
THEOREM SuccessesAreAnswered == Spec => []SuccessIsAnswered
  <1>1. Inv => SuccessIsAnswered
    BY DEF Inv
  <1> QED BY <1>1, Exchanges, PTL

\* A persona comes with one warning for each text AFIP wrote, and with an
\* error exactly when there is one.
THEOREM PersonasAreKept == Spec => []PersonaKept
  <1>1. Inv => PersonaKept
    BY DEF Inv
  <1> QED BY <1>1, Exchanges, PTL

\* An *AFIPError that IsAFIPError finds has codes, for every answer but the
\* explanation of why there are no data for a taxpayer: that one's is nil.
THEOREM AFIPErrorsAreUsable == Spec => []AFIPErrorUsable
  <1>1. Inv => AFIPErrorUsable
    BY DEF Inv
  <1> QED BY <1>1, Exchanges, PTL

\* A persona has exactly the taxes that one of its regimes lists as active, for
\* every set of taxes AFIP may list.
THEOREM TaxesAreAfips == Spec => []TaxesFollowAfip
  <1>1. Inv => TaxesFollowAfip
    BY DEF Inv
  <1> QED BY <1>1, Exchanges, PTL
=============================================================================

--------------------------- MODULE CachedAuthProofs ---------------------------
(***************************************************************************)
(* Theorems about CachedAuth, for any goroutines, requests, margin,        *)
(* lifetimes and store faults.  The type invariant needs to know which     *)
(* locals of a call are set at which point of it (Locals); the provenance  *)
(* of tokens needs it of every place a token passes through (Provenance).  *)
(***************************************************************************)
EXTENDS CachedAuth, TLAPS

\* Where a call holds a token and where its request is on the wire.
Locals ==
  \A p \in Procs :
    /\ pc[p] \in {"check", "evict", "margin", "serve", "set"} => tok[p] \in Token
    /\ pc[p] = "wait" => tra[p] \in TRA
    /\ pc[p] # "wait" => reply[p] = NoToken
    /\ pc[p] # "idle" => ret[p].kind = "none"

\* A call began before now, and the margin its token passed was left then.
Began ==
  \A p \in Procs :
    /\ snap[p].at <= now
    /\ pc[p] = "serve" => snap[p].at <= tok[p].exp - Margin

TypeInv == TypeOK /\ Locals

\* A token speaks for the signer, service and environment of request r.
GrantedFor(t, r) == t \in issued /\ t.for = Bearer(r)

\* Provenance of the tokens in the store, in the goroutines' locals, in the
\* answers on the wire, and in the results of the calls.
StoreProvenance ==
  \A r \in Requests : tokens[cacheKey(r)] # NoToken => GrantedFor(tokens[cacheKey(r)], r)
LocalProvenance ==
  \A p \in Procs :
    /\ pc[p] \in {"check", "evict", "margin", "serve", "set"} => GrantedFor(tok[p], call[p])
    /\ pc[p] = "wait" => tra[p].for = Bearer(call[p])
    /\ reply[p] # NoToken => GrantedFor(reply[p], call[p])

Provenance == TypeInv /\ StoreProvenance /\ LocalProvenance /\ TokenProvenance

-----------------------------------------------------------------------------
(* The helpers *)

\* A request the program uses has a key and a bearer.
LEMMA KeyInKeys == \A r \in Requests : cacheKey(r) \in Keys /\ Bearer(r) \in Bearers
  BY DEF Keys, Bearers

-----------------------------------------------------------------------------
(* Type correctness *)

\* An empty store and idle goroutines are well typed.
LEMMA InitTypeInv == Init => TypeInv
  <1> SUFFICES ASSUME Init PROVE TypeInv
    OBVIOUS
  <1>1. (CHOOSE r \in Requests : TRUE) \in Requests
    BY RequestsAssumption
  <1>2. TypeOK
    BY <1>1 DEF Init, TypeOK, NoSnap, Returned, Results
  <1>3. Locals
    BY DEF Init, Locals, Returned
  <1> QED BY <1>2, <1>3 DEF TypeInv

\* Every return from Authenticate clears the locals and sets a typed result.
LEMMA ReturnTypeInv ==
  ASSUME TypeInv, NEW p \in Procs, NEW kind \in {"error", "ok"}, NEW t \in Token \cup {NoToken},
         kind = "ok" => t \in Token, kind = "error" => t = NoToken,
         Return(p, kind, t), UNCHANGED <<now, call, issued, revoked>>,
         tokens' \in [Keys -> Token \cup {NoToken}],
         handed' \in [Keys -> Token \cup {NoToken}]
  PROVE  TypeInv'
  <1>1. TypeOK'
    BY DEF TypeInv, TypeOK, Return, Goto, Returned, Results, NoSnap
  <1>2. Locals'
    BY DEF TypeInv, TypeOK, Locals, Return, Goto
  <1> QED BY <1>1, <1>2 DEF TypeInv

\* Every step keeps the types and the locals of each program point.
LEMMA NextTypeInv == TypeInv /\ [Next]_vars => TypeInv'
  <1> SUFFICES ASSUME TypeInv, [Next]_vars PROVE TypeInv'
    OBVIOUS
  <1> USE DEF TypeInv
  <1>1. ASSUME NEW p \in Procs, NEW r \in Requests, CallAuthenticate(p, r) PROVE TypeInv'
    <2>1. TypeOK'
      BY <1>1, KeyInKeys DEF TypeOK, CallAuthenticate, Goto, Returned, Results
    <2>2. Locals'
      BY <1>1 DEF TypeOK, Locals, CallAuthenticate, Goto, Returned
    <2> QED BY <2>1, <2>2
  <1>2. ASSUME NEW p \in Procs, GetFails(p) PROVE TypeInv'
    BY <1>2, ReturnTypeInv DEF GetFails, TypeOK
  <1>3. ASSUME NEW p \in Procs, GetRead(p) PROVE TypeInv'
    <2>1. KeyOf(p) \in Keys
      BY KeyInKeys DEF TypeOK, KeyOf
    <2>2. TypeOK'
      BY <1>3, <2>1 DEF TypeOK, GetRead, Goto
    <2>3. Locals'
      BY <1>3, <2>1 DEF TypeOK, Locals, GetRead, Goto
    <2> QED BY <2>2, <2>3
  <1>4. ASSUME NEW p \in Procs, GetCheck(p) PROVE TypeInv'
    <2>1. TypeOK'
      BY <1>4 DEF TypeOK, GetCheck, Goto
    <2>2. Locals'
      BY <1>4 DEF TypeOK, Locals, GetCheck, Goto
    <2> QED BY <2>1, <2>2
  <1>5. ASSUME NEW p \in Procs, GetEvict(p) PROVE TypeInv'
    <2>1. TypeOK'
      BY <1>5 DEF TypeOK, GetEvict, Goto
    <2>2. Locals'
      BY <1>5 DEF TypeOK, Locals, GetEvict, Goto
    <2> QED BY <2>1, <2>2
  <1>6. ASSUME NEW p \in Procs, ReturnCached(p) PROVE TypeInv'
    BY <1>6, ReturnTypeInv DEF ReturnCached, TypeOK, Locals
  <1>7. ASSUME NEW p \in Procs, CheckMargin(p) PROVE TypeInv'
    <2>1. TypeOK'
      BY <1>7 DEF TypeOK, CheckMargin, Goto
    <2>2. Locals'
      BY <1>7 DEF TypeOK, Locals, CheckMargin, Goto
    <2> QED BY <2>1, <2>2
  <1>8. ASSUME NEW p \in Procs, SignFails(p) PROVE TypeInv'
    BY <1>8, ReturnTypeInv DEF SignFails, TypeOK
  <1>9. ASSUME NEW p \in Procs, SendLogin(p) PROVE TypeInv'
    <2>1. loginTicketRequest(call[p]) \in TRA
      BY KeyInKeys DEF TypeOK, loginTicketRequest, TRA
    <2>2. TypeOK'
      BY <1>9, <2>1 DEF TypeOK, SendLogin, Goto
    <2>3. Locals'
      BY <1>9, <2>1 DEF TypeOK, Locals, SendLogin, Goto
    <2> QED BY <2>2, <2>3
  <1>10. ASSUME NEW p \in Procs, NEW life \in Lifetimes, WsaaGrant(p, life) PROVE TypeInv'
    <2>1. PICK id \in 1..MaxTokens :
            /\ issued' = issued \cup {[id |-> id, for |-> tra[p].for, exp |-> now + life]}
            /\ reply' = [reply EXCEPT ![p] = [id |-> id, for |-> tra[p].for, exp |-> now + life]]
      BY <1>10 DEF WsaaGrant
    <2>2. tra[p] \in TRA /\ now + life \in Int
      BY <1>10, TimeAssumption DEF WsaaGrant, Locals, TypeOK
    <2>3. [id |-> id, for |-> tra[p].for, exp |-> now + life] \in Token
      BY <2>2 DEF TRA, Token
    <2>4. TypeOK'
      BY <1>10, <2>1, <2>3 DEF TypeOK, WsaaGrant
    <2>5. Locals'
      BY <1>10, <2>1 DEF TypeOK, Locals, WsaaGrant
    <2> QED BY <2>4, <2>5
  <1>11. ASSUME NEW p \in Procs, LoginFails(p) PROVE TypeInv'
    BY <1>11, ReturnTypeInv DEF LoginFails, TypeOK
  <1>12. ASSUME NEW p \in Procs, LoginOk(p) PROVE TypeInv'
    <2>1. TypeOK'
      BY <1>12 DEF TypeOK, LoginOk, Goto
    <2>2. Locals'
      BY <1>12 DEF TypeOK, Locals, LoginOk, TicketParses, Goto
    <2> QED BY <2>1, <2>2
  <1>13. ASSUME NEW p \in Procs, SetOk(p) PROVE TypeInv'
    <2>1. tok[p] \in Token
      BY <1>13 DEF SetOk, Locals
    <2> QED BY <1>13, <2>1, ReturnTypeInv DEF SetOk, StorePut, TypeOK
  <1>14. ASSUME NEW p \in Procs, SetFails(p) PROVE TypeInv'
    BY <1>14, ReturnTypeInv DEF SetFails, Locals, TypeOK
  <1>15. ASSUME NEW p \in Procs, NEW k \in Keys, Invalidate(p, k) PROVE TypeInv'
    <2>1. TypeOK'
      BY <1>15 DEF TypeOK, Invalidate, StoreDelete, TokensOf, Returned, Results
    <2>2. Locals'
      BY <1>15 DEF TypeOK, Locals, Invalidate
    <2> QED BY <2>1, <2>2
  <1>16. ASSUME NEW p \in Procs, InvalidateFails(p) PROVE TypeInv'
    <2>1. TypeOK'
      BY <1>16 DEF TypeOK, InvalidateFails, Returned, Results
    <2>2. Locals'
      BY <1>16 DEF TypeOK, Locals, InvalidateFails
    <2> QED BY <2>1, <2>2
  <1>17. CASE Tick
    BY <1>17, TimeAssumption DEF Tick, TypeOK, Locals
  <1>18. CASE UNCHANGED vars
    BY <1>18 DEF vars, TypeOK, Locals
  <1> HIDE DEF TypeInv
  <1> QED
    BY <1>1, <1>2, <1>3, <1>4, <1>5, <1>6, <1>7, <1>8, <1>9, <1>10, <1>11, <1>12, <1>13,
       <1>14, <1>15, <1>16, <1>17, <1>18 DEF Next, Use, Step

\* Every reachable state of the cache, the calls and the wire is well typed;
\* in particular a call that succeeds never returns a nil token.
THEOREM TypeCorrect == Spec => []TypeOK
  <1>1. TypeInv => TypeOK
    BY DEF TypeInv
  <1> QED BY InitTypeInv, NextTypeInv, <1>1, PTL DEF Spec

-----------------------------------------------------------------------------
(* Provenance *)

\* At the start no token is anywhere.
LEMMA InitProvenance == Init => Provenance
  <1> SUFFICES ASSUME Init PROVE Provenance
    OBVIOUS
  <1>1. StoreProvenance
    BY KeyInKeys DEF Init, StoreProvenance
  <1>2. LocalProvenance
    BY DEF Init, LocalProvenance
  <1>3. TokenProvenance
    BY DEF Init, TokenProvenance, Returned
  <1> QED BY <1>1, <1>2, <1>3, InitTypeInv DEF Provenance

\* A return of an error, or of a token already known to be the call's own.
LEMMA ReturnProvenance ==
  ASSUME Provenance, TypeInv', NEW p \in Procs, NEW kind \in {"error", "ok"},
         NEW t \in Token \cup {NoToken}, kind = "ok" => GrantedFor(t, call[p]),
         Return(p, kind, t), UNCHANGED <<call, issued>>, StoreProvenance'
  PROVE  Provenance'
  <1>1. LocalProvenance'
    BY DEF Provenance, TypeInv, TypeOK, LocalProvenance, Return, Goto, GrantedFor
  <1>2. TokenProvenance'
    BY DEF Provenance, TypeInv, TypeOK, TokenProvenance, Return, Returned, GrantedFor
  <1> QED BY <1>1, <1>2 DEF Provenance

\* With coherent requests, a token granted for one request of a key serves
\* them all.
LEMMA OneBearerPerKey ==
  ASSUME Coherent, NEW r \in Requests, NEW s \in Requests, cacheKey(r) = cacheKey(s)
  PROVE  Bearer(r) = Bearer(s)
  BY DEF Coherent

\* Every step moves tokens between requests of one bearer only.
LEMMA NextProvenance == Coherent /\ Provenance /\ [Next]_vars => Provenance'
  <1> SUFFICES ASSUME Coherent, Provenance, [Next]_vars PROVE Provenance'
    OBVIOUS
  <1>0. TypeInv'
    BY NextTypeInv DEF Provenance
  <1> USE DEF Provenance, TypeInv
  <1>1. ASSUME NEW p \in Procs, NEW r \in Requests, CallAuthenticate(p, r) PROVE Provenance'
    <2>1. StoreProvenance'
      BY <1>1 DEF StoreProvenance, GrantedFor, CallAuthenticate
    <2>2. LocalProvenance'
      BY <1>1 DEF LocalProvenance, GrantedFor, CallAuthenticate, Goto, TypeOK, Locals
    <2>3. TokenProvenance'
      BY <1>1 DEF TokenProvenance, CallAuthenticate, Returned, TypeOK
    <2> QED BY <1>0, <2>1, <2>2, <2>3
  <1>2. ASSUME NEW p \in Procs, GetFails(p) PROVE Provenance'
    <2>1. StoreProvenance'
      BY <1>2 DEF GetFails, Return, StoreProvenance, GrantedFor
    <2> QED BY <1>0, <1>2, <2>1, ReturnProvenance DEF GetFails
  <1>3. ASSUME NEW p \in Procs, GetRead(p) PROVE Provenance'
    <2>1. StoreProvenance' /\ TokenProvenance'
      BY <1>3 DEF GetRead, StoreProvenance, TokenProvenance, GrantedFor
    <2>2. call[p] \in Requests
      BY DEF TypeOK
    <2>3. LocalProvenance'
      BY <1>3, <2>2 DEF GetRead, StoreProvenance, LocalProvenance, GrantedFor, Goto, TypeOK, KeyOf
    <2> QED BY <1>0, <2>1, <2>3
  <1>4. ASSUME NEW p \in Procs, GetCheck(p) PROVE Provenance'
    <2>1. StoreProvenance' /\ TokenProvenance'
      BY <1>4 DEF GetCheck, StoreProvenance, TokenProvenance, GrantedFor
    <2>2. LocalProvenance'
      BY <1>4 DEF GetCheck, LocalProvenance, GrantedFor, Goto, TypeOK
    <2> QED BY <1>0, <2>1, <2>2
  <1>5. ASSUME NEW p \in Procs, GetEvict(p) PROVE Provenance'
    <2>1. StoreProvenance'
      BY <1>5, KeyInKeys DEF GetEvict, StoreProvenance, GrantedFor, TypeOK
    <2>2. TokenProvenance'
      BY <1>5 DEF GetEvict, TokenProvenance, GrantedFor
    <2>3. LocalProvenance'
      BY <1>5 DEF GetEvict, LocalProvenance, GrantedFor, Goto, TypeOK
    <2> QED BY <1>0, <2>1, <2>2, <2>3
  <1>6. ASSUME NEW p \in Procs, ReturnCached(p) PROVE Provenance'
    <2>1. StoreProvenance'
      BY <1>6 DEF ReturnCached, Return, StoreProvenance, GrantedFor
    <2>2. GrantedFor(tok[p], call[p]) /\ tok[p] \in Token
      BY <1>6 DEF ReturnCached, LocalProvenance, Locals
    <2> QED BY <1>0, <1>6, <2>1, <2>2, ReturnProvenance DEF ReturnCached
  <1>7. ASSUME NEW p \in Procs, CheckMargin(p) PROVE Provenance'
    <2>1. StoreProvenance' /\ TokenProvenance'
      BY <1>7 DEF CheckMargin, StoreProvenance, TokenProvenance, GrantedFor
    <2>2. LocalProvenance'
      BY <1>7 DEF CheckMargin, LocalProvenance, GrantedFor, Goto, TypeOK
    <2> QED BY <1>0, <2>1, <2>2
  <1>8. ASSUME NEW p \in Procs, SignFails(p) PROVE Provenance'
    <2>1. StoreProvenance'
      BY <1>8 DEF SignFails, Return, StoreProvenance, GrantedFor
    <2> QED BY <1>0, <1>8, <2>1, ReturnProvenance DEF SignFails
  <1>9. ASSUME NEW p \in Procs, SendLogin(p) PROVE Provenance'
    <2>1. StoreProvenance' /\ TokenProvenance'
      BY <1>9 DEF SendLogin, StoreProvenance, TokenProvenance, GrantedFor
    <2>2. LocalProvenance'
      BY <1>9 DEF SendLogin, LocalProvenance, GrantedFor, Goto, TypeOK, Locals, loginTicketRequest
    <2> QED BY <1>0, <2>1, <2>2
  <1>10. ASSUME NEW p \in Procs, NEW life \in Lifetimes, WsaaGrant(p, life) PROVE Provenance'
    <2>1. PICK id \in 1..MaxTokens :
            /\ issued' = issued \cup {[id |-> id, for |-> tra[p].for, exp |-> now + life]}
            /\ reply' = [reply EXCEPT ![p] = [id |-> id, for |-> tra[p].for, exp |-> now + life]]
      BY <1>10 DEF WsaaGrant
    <2>2. StoreProvenance' /\ TokenProvenance'
      BY <1>10, <2>1 DEF WsaaGrant, StoreProvenance, TokenProvenance, GrantedFor
    <2>3. LocalProvenance'
      BY <1>10, <2>1 DEF WsaaGrant, LocalProvenance, GrantedFor, TypeOK
    <2> QED BY <1>0, <2>2, <2>3
  <1>11. ASSUME NEW p \in Procs, LoginFails(p) PROVE Provenance'
    <2>1. StoreProvenance'
      BY <1>11 DEF LoginFails, Return, StoreProvenance, GrantedFor
    <2> QED BY <1>0, <1>11, <2>1, ReturnProvenance DEF LoginFails
  <1>12. ASSUME NEW p \in Procs, LoginOk(p) PROVE Provenance'
    <2>1. StoreProvenance' /\ TokenProvenance'
      BY <1>12 DEF LoginOk, StoreProvenance, TokenProvenance, GrantedFor
    <2>2. LocalProvenance'
      BY <1>12 DEF LoginOk, TicketParses, LocalProvenance, GrantedFor, Goto, TypeOK
    <2> QED BY <1>0, <2>1, <2>2
  <1>13. ASSUME NEW p \in Procs, SetOk(p) PROVE Provenance'
    <2>1. GrantedFor(tok[p], call[p]) /\ tok[p] \in Token /\ call[p] \in Requests
      BY <1>13 DEF SetOk, LocalProvenance, Locals, TypeOK
    <2>2. ASSUME NEW r \in Requests, tokens'[cacheKey(r)] # NoToken
          PROVE  GrantedFor(tokens[cacheKey(r)], r)' 
      <3>1. CASE cacheKey(r) = KeyOf(p)
        <4>1. Bearer(r) = Bearer(call[p])
          BY <2>1, <3>1, OneBearerPerKey DEF KeyOf
        <4>2. tokens'[cacheKey(r)] = tok[p]
          BY <1>13, <3>1, KeyInKeys DEF SetOk, StorePut, TypeOK
        <4> QED BY <1>13, <2>1, <4>1, <4>2 DEF SetOk, GrantedFor
      <3>2. CASE cacheKey(r) # KeyOf(p)
        BY <1>13, <2>2, <3>2, KeyInKeys DEF SetOk, StorePut, TypeOK, StoreProvenance, GrantedFor
      <3> QED BY <3>1, <3>2
    <2>3. StoreProvenance'
      BY <2>2 DEF StoreProvenance
    <2> QED BY <1>0, <1>13, <2>1, <2>3, ReturnProvenance DEF SetOk
  <1>14. ASSUME NEW p \in Procs, SetFails(p) PROVE Provenance'
    <2>1. StoreProvenance'
      BY <1>14 DEF SetFails, Return, StoreProvenance, GrantedFor
    <2>2. GrantedFor(tok[p], call[p]) /\ tok[p] \in Token
      BY <1>14 DEF SetFails, LocalProvenance, Locals
    <2> QED BY <1>0, <1>14, <2>1, <2>2, ReturnProvenance DEF SetFails
  <1>15. ASSUME NEW p \in Procs, NEW k \in Keys, Invalidate(p, k) PROVE Provenance'
    <2>1. StoreProvenance'
      BY <1>15, KeyInKeys DEF Invalidate, StoreDelete, StoreProvenance, GrantedFor, TypeOK
    <2>2. LocalProvenance'
      BY <1>15 DEF Invalidate, LocalProvenance, GrantedFor
    <2>3. TokenProvenance'
      BY <1>15 DEF Invalidate, TokenProvenance, Returned, TypeOK
    <2> QED BY <1>0, <2>1, <2>2, <2>3
  <1>16. ASSUME NEW p \in Procs, InvalidateFails(p) PROVE Provenance'
    <2>1. StoreProvenance' /\ LocalProvenance'
      BY <1>16 DEF InvalidateFails, StoreProvenance, LocalProvenance, GrantedFor
    <2>2. TokenProvenance'
      BY <1>16 DEF InvalidateFails, TokenProvenance, Returned, TypeOK
    <2> QED BY <1>0, <2>1, <2>2
  <1>17. CASE Tick
    BY <1>0, <1>17 DEF Tick, StoreProvenance, LocalProvenance, TokenProvenance, GrantedFor
  <1>18. CASE UNCHANGED vars
    BY <1>0, <1>18 DEF vars, StoreProvenance, LocalProvenance, TokenProvenance, GrantedFor
  <1> HIDE DEF Provenance, TypeInv
  <1> QED
    BY <1>1, <1>2, <1>3, <1>4, <1>5, <1>6, <1>7, <1>8, <1>9, <1>10, <1>11, <1>12, <1>13,
       <1>14, <1>15, <1>16, <1>17, <1>18 DEF Next, Use, Step

\* When the cuit and the service of a request decide its certificate and its
\* environment, every token Authenticate returns was granted by WSAA to that
\* certificate, for that service, in that environment.
THEOREM ProvenanceOfTokens == ASSUME Coherent PROVE Spec => []TokenProvenance
  <1>1. Provenance /\ [Next]_vars => Provenance'
    BY NextProvenance, Coherent
  <1>2. Provenance => TokenProvenance
    BY DEF Provenance
  <1> QED BY InitProvenance, <1>1, <1>2, PTL DEF Spec

-----------------------------------------------------------------------------
(* Results *)

\* A call succeeds with the token it found or with the one it was granted.
LEMMA OkComesFrom ==
  ASSUME TypeInv, [Next]_vars, NEW p \in Procs, pc[p] # "idle", ret'[p].kind = "ok"
  PROVE  ReturnCached(p) \/ SetOk(p) \/ SetFails(p)
  <1>1. ret[p].kind = "none" /\ ret \in [Procs -> Results] /\ ret'[p] # ret[p]
    BY DEF TypeInv, TypeOK, Locals
  <1>2. ASSUME NEW q \in Procs, Return(q, "error", NoToken) PROVE FALSE
    BY <1>1, <1>2 DEF Return, Returned
  <1>3. ASSUME NEW q \in Procs, ReturnCached(q) \/ SetOk(q) \/ SetFails(q) PROVE q = p
    BY <1>1, <1>3 DEF ReturnCached, SetOk, SetFails, Return
  <1>4. ASSUME NEW q \in Procs, Use(q) PROVE FALSE
    BY <1>1, <1>4 DEF Use, CallAuthenticate, Invalidate, InvalidateFails, Returned
  <1>5. ASSUME ret' = ret PROVE FALSE
    BY <1>1, <1>5
  <1> QED
    BY <1>2, <1>3, <1>4, <1>5
       DEF Next, Step, GetFails, SignFails, LoginFails, GetRead, GetCheck, GetEvict,
           CheckMargin, SendLogin, LoginOk, WsaaGrant, Tick, vars

-----------------------------------------------------------------------------
(* The clock *)

\* No call has begun.
LEMMA InitBegan == Init => Began
  <1> SUFFICES ASSUME Init, NEW p \in Procs
               PROVE  snap[p].at <= now /\ pc[p] # "serve"
    BY DEF Began
  <1>1. snap[p].at = 0 /\ now = 0 /\ pc[p] = "idle"
    BY DEF Init, NoSnap
  <1> QED BY <1>1

\* A call's start and the token it has judged are still what they were when the
\* clock moves on, and only CheckMargin leads to "serve".
LEMMA NextBegan == TypeInv /\ Began /\ [Next]_vars => Began'
  <1> SUFFICES ASSUME TypeInv, Began, [Next]_vars PROVE Began'
    OBVIOUS
  <1> USE DEF TypeInv
  <1>1. ASSUME NEW p \in Procs, NEW r \in Requests, CallAuthenticate(p, r) PROVE Began'
    BY <1>1 DEF TypeOK, Began, CallAuthenticate, Goto
  <1>2. ASSUME NEW p \in Procs, NEW kind, NEW t, Return(p, kind, t), now' = now PROVE Began'
    BY <1>2 DEF TypeOK, Began, Return, Goto, NoSnap
  <1>3. ASSUME NEW p \in Procs, CheckMargin(p) PROVE Began'
    <2>1. tok[p] \in Token /\ now \in Nat /\ snap[p].at \in Nat /\ snap[p].at <= now
      BY <1>3 DEF CheckMargin, Locals, TypeOK, Began
    <2>2. ~IsExpired(tok[p], Margin) => snap[p].at <= tok[p].exp - Margin
      BY <2>1, TimeAssumption DEF IsExpired, Token
    <2> QED BY <1>3, <2>2 DEF TypeOK, Began, CheckMargin, Goto
  <1>4. ASSUME NEW p \in Procs, NEW l, l # "serve", Goto(p, l), now' = now, snap' = snap,
               \A q \in Procs \ {p} : tok'[q] = tok[q]
        PROVE  Began'
    BY <1>4 DEF TypeOK, Began, Goto
  <1>5. ASSUME NEW p \in Procs,
               GetRead(p) \/ GetCheck(p) \/ GetEvict(p) \/ SendLogin(p) \/ LoginOk(p)
        PROVE  Began'
    <2>1. PICK l \in {"check", "evict", "margin", "login", "wait", "set"} : Goto(p, l)
      BY <1>5 DEF GetRead, GetCheck, GetEvict, SendLogin, LoginOk
    <2> QED
      BY <1>4, <1>5, <2>1 DEF GetRead, GetCheck, GetEvict, SendLogin, LoginOk, TypeOK
  <1>6. ASSUME UNCHANGED <<now, pc, tok, snap>> PROVE Began'
    BY <1>6 DEF Began
  <1>7. CASE Tick
    <2>1. now \in Nat /\ now' = now + 1 /\ \A p \in Procs : snap[p].at \in Nat
      BY <1>7 DEF Tick, TypeOK
    <2> QED BY <1>7, <2>1 DEF Tick, Began
  <1> HIDE DEF TypeInv
  <1> QED
    BY <1>1, <1>2, <1>3, <1>5, <1>6, <1>7
       DEF Next, Use, Step, GetFails, ReturnCached, SignFails, LoginFails, SetOk, SetFails,
           WsaaGrant, Invalidate, InvalidateFails, vars

-----------------------------------------------------------------------------
(* Refinement *)

\* A return of the implementation is a return of the service, once the result
\* is one the service allows.
LEMMA ReturnImplements ==
  ASSUME TypeInv, NEW p \in Procs, pc[p] # "idle", NEW kind, NEW t,
         Return(p, kind, t), UNCHANGED <<now, call, issued>>
  PROVE  Service!Return(p, Service!Result(kind, t))
  <1>1. [q \in Procs |-> pc'[q] # "idle"]
          = [[q \in Procs |-> pc[q] # "idle"] EXCEPT ![p] = FALSE]
    BY DEF Return, Goto, TypeInv, TypeOK
  <1>2. [q \in Procs |-> OwnToken(q)]' = [[q \in Procs |-> OwnToken(q)] EXCEPT ![p] = NoToken]
    BY DEF Return, Goto, TypeInv, TypeOK, OwnToken
  <1>3. ret' = [ret EXCEPT ![p] = Service!Result(kind, t)]
    BY DEF Return, Returned, Service!Result
  <1>4. [q \in Procs |-> snap[q].at]' = [[q \in Procs |-> snap[q].at] EXCEPT ![p] = 0]
    BY DEF Return, NoSnap, TypeInv, TypeOK
  <1> QED BY <1>1, <1>2, <1>3, <1>4 DEF Service!Return

\* A step inside a call that neither grants nor returns is not seen outside.
LEMMA InternalStutters ==
  ASSUME TypeInv, NEW p \in Procs, pc[p] # "idle", NEW l, l # "idle",
         Goto(p, l), OwnToken(p)' = OwnToken(p),
         UNCHANGED <<now, call, issued, ret, snap>>,
         \A q \in Procs \ {p} : tok'[q] = tok[q] /\ reply'[q] = reply[q]
  PROVE  UNCHANGED Service!vars
  <1>1. [q \in Procs |-> pc[q] # "idle"]' = [q \in Procs |-> pc[q] # "idle"]
    BY DEF Goto, TypeInv, TypeOK
  <1>2. \A q \in Procs : OwnToken(q)' = OwnToken(q)
    BY DEF Goto, TypeInv, TypeOK, OwnToken
  <1> QED BY <1>1, <1>2 DEF Service!vars

\* The cache at rest is the service at rest.
LEMMA InitImplements == Init => Service!Init
  <1> SUFFICES ASSUME Init PROVE Service!Init
    OBVIOUS
  <1>1. (CHOOSE r \in Requests : TRUE) \in Requests
    BY RequestsAssumption
  <1> QED BY <1>1 DEF Init, NoSnap, Service!Init, OwnToken, Returned, Service!Result

\* Every step of the cache is a step of the service, or none.
LEMMA NextImplements ==
  Provenance /\ Provenance' /\ Began /\ [Next]_vars => [Service!Next]_Service!vars
  <1> SUFFICES ASSUME Provenance, Provenance', Began, [Next]_vars
               PROVE  Service!Next \/ UNCHANGED Service!vars
    OBVIOUS
  <1>0. TypeInv
    BY DEF Provenance
  <1> USE DEF TypeInv
  <1>1. ASSUME NEW p \in Procs, NEW r \in Requests, CallAuthenticate(p, r)
        PROVE  Service!Ask(p, r)
    <2>1. [q \in Procs |-> pc[q] # "idle"]'
            = [[q \in Procs |-> pc[q] # "idle"] EXCEPT ![p] = TRUE]
      BY <1>0, <1>1 DEF CallAuthenticate, Goto, TypeOK
    <2>3. [q \in Procs |-> snap[q].at]' = [[q \in Procs |-> snap[q].at] EXCEPT ![p] = now]
      BY <1>0, <1>1 DEF CallAuthenticate, TypeOK
    <2>2. [q \in Procs |-> OwnToken(q)]' = [q \in Procs |-> OwnToken(q)]
      BY <1>0, <1>1 DEF CallAuthenticate, Goto, TypeOK, OwnToken
    <2> QED
      BY <1>1, <2>1, <2>2, <2>3 DEF CallAuthenticate, Service!Ask, Returned, Service!Result
  <1>2. ASSUME NEW p \in Procs, GetFails(p) \/ SignFails(p) \/ LoginFails(p)
        PROVE  Service!Refuse(p)
    BY <1>0, <1>2, ReturnImplements DEF GetFails, SignFails, LoginFails, Service!Refuse
  <1>3. ASSUME NEW p \in Procs,
               GetRead(p) \/ GetCheck(p) \/ GetEvict(p) \/ CheckMargin(p) \/ SendLogin(p)
        PROVE  UNCHANGED Service!vars
    <2>1. PICK l \in {"check", "evict", "margin", "serve", "login", "wait"} : Goto(p, l)
      BY <1>3 DEF GetRead, GetCheck, GetEvict, CheckMargin, SendLogin
    <2>2. OwnToken(p)' = OwnToken(p)
      BY <1>0, <1>3 DEF GetRead, GetCheck, GetEvict, CheckMargin, SendLogin, Goto, OwnToken,
                        TypeOK, Locals
    <2> QED
      BY <1>0, <1>3, <2>1, <2>2, InternalStutters
         DEF GetRead, GetCheck, GetEvict, CheckMargin, SendLogin, TypeOK
  <1>4. ASSUME NEW p \in Procs, LoginOk(p) PROVE UNCHANGED Service!vars
    <2>1. OwnToken(p)' = OwnToken(p)
      BY <1>0, <1>4 DEF LoginOk, Goto, OwnToken, TypeOK
    <2> QED BY <1>0, <1>4, <2>1, InternalStutters DEF LoginOk, TypeOK
  <1>5. ASSUME NEW p \in Procs, ReturnCached(p) PROVE \E t \in issued : Service!Give(p, t)
    <2>1. PICK t \in issued : t = tok[p] /\ t.for = Bearer(call[p]) /\ t \in Token
      BY <1>5 DEF ReturnCached, Provenance, LocalProvenance, GrantedFor, Locals
    <2>2. [q \in Procs |-> snap[q].at][p] <= t.exp - Margin
      BY <1>5, <2>1 DEF ReturnCached, Began
    <2>3. Return(p, "ok", t) /\ pc[p] # "idle" /\ UNCHANGED <<now, call, issued>>
      BY <1>5, <2>1 DEF ReturnCached, Return
    <2>4. Service!Return(p, Service!Result("ok", t))
      BY <1>0, <2>3, ReturnImplements
    <2> QED BY <2>1, <2>2, <2>4 DEF Service!Give
  <1>6. ASSUME NEW p \in Procs, SetOk(p) \/ SetFails(p) PROVE \E t \in issued : Service!Give(p, t)
    <2>1. PICK t \in issued : t = tok[p] /\ t.for = Bearer(call[p]) /\ t = OwnToken(p)
      BY <1>6 DEF SetOk, SetFails, Provenance, LocalProvenance, GrantedFor, OwnToken
    <2>2. Return(p, "ok", t) /\ pc[p] # "idle" /\ UNCHANGED <<now, call, issued>>
      BY <1>6, <2>1 DEF SetOk, SetFails, Return
    <2>3. Service!Return(p, Service!Result("ok", t))
      BY <1>0, <2>2, ReturnImplements
    <2> QED BY <2>1, <2>3 DEF Service!Give
  <1>7. ASSUME NEW p \in Procs, NEW life \in Lifetimes, WsaaGrant(p, life) PROVE Service!Grant(p)
    <2>1. PICK id \in 1..MaxTokens :
            /\ {i.id : i \in issued} = 1..id-1
            /\ issued' = issued \cup {[id |-> id, for |-> tra[p].for, exp |-> now + life]}
            /\ reply' = [reply EXCEPT ![p] = [id |-> id, for |-> tra[p].for, exp |-> now + life]]
      BY <1>7 DEF WsaaGrant
    <2> DEFINE t == [id |-> id, for |-> tra[p].for, exp |-> now + life]
    <2>2. t \in issued' \ issued
      <3>1. t \in issued => t.id \in 1..id-1
        BY <2>1
      <3> QED BY <2>1, <3>1
    <2>3. t.for = Bearer(call[p])
      BY <1>7 DEF WsaaGrant, Provenance, LocalProvenance
    <2>4. [q \in Procs |-> OwnToken(q)]' = [[q \in Procs |-> OwnToken(q)] EXCEPT ![p] = t]
      BY <1>0, <1>7, <2>1 DEF WsaaGrant, OwnToken, TypeOK
    <2>5. OwnToken(p) = NoToken /\ pc[p] # "idle"
      BY <1>7 DEF WsaaGrant, OwnToken
    <2> QED BY <1>7, <2>1, <2>2, <2>3, <2>4, <2>5 DEF WsaaGrant, Service!Grant
  <1>8. ASSUME NEW p \in Procs, InvalidateFails(p) \/ \E k \in Keys : Invalidate(p, k)
        PROVE  Service!Forget(p)
    BY <1>8 DEF Invalidate, InvalidateFails, Service!Forget, Returned, Service!Result, OwnToken
  <1>9. ASSUME Tick PROVE Service!Tick
    BY <1>9 DEF Tick, Service!Tick, OwnToken
  <1>10. ASSUME UNCHANGED vars PROVE UNCHANGED Service!vars
    BY <1>10 DEF vars, Service!vars, OwnToken
  <1> HIDE DEF TypeInv
  <1> QED
    BY <1>1, <1>2, <1>3, <1>4, <1>5, <1>6, <1>7, <1>8, <1>9, <1>10
       DEF Next, Use, Step, Service!Next

\* CachedClient over any TokenStore that loses or keeps what it is given,
\* however goroutines interleave, does what TokenService promises, as long as
\* the cuit and the service decide the certificate and the environment.
THEOREM CacheImplementsService == ASSUME Coherent PROVE Spec => ImplementsTokenService
  <1>1. Provenance /\ [Next]_vars => Provenance'
    BY NextProvenance, Coherent
  <1>2. Provenance => TypeInv
    BY DEF Provenance
  <1> QED
    BY InitProvenance, InitImplements, InitBegan, NextBegan, <1>1, <1>2, NextImplements, PTL
       DEF Spec, ImplementsTokenService, Service!Spec
=============================================================================

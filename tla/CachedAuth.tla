------------------------------ MODULE CachedAuth ------------------------------
(***************************************************************************)
(* WSAA authentication behind a token cache (package wsaa): goroutines     *)
(* call CachedClient.Authenticate and CachedClient.Invalidate on one       *)
(* CachedClient over one TokenStore, while the WSAA server answers or      *)
(* fails and the clock advances.                                           *)
(*                                                                         *)
(* A step is one critical section of MemoryStore's RWMutex, one clock      *)
(* reading (TokenAcceso.IsExpired), or one event of the HTTP exchange;     *)
(* between two steps of a call any other goroutine may run.  The WSAA      *)
(* server, which is not part of the repository, is modelled as Client      *)
(* uses it: it grants tokens to the certificate that signed the request,   *)
(* for the service the request names, at the endpoint that received it.    *)
(***************************************************************************)
EXTENDS Integers

CONSTANTS
  Procs,        \* the goroutines
  Requests,     \* the argument lists of Authenticate the program uses
  Margin,       \* CachedClient.renewalMargin
  Lifetimes,    \* how long the tokens WSAA grants may be valid
  StoreFaults,  \* the TokenStore methods that may fail ("get", "set", "delete")
  MaxTime,      \* bound on the clock
  MaxTokens,    \* bound on the tokens WSAA grants
  NoToken,      \* nil
  NoTRA         \* no request on the wire

ASSUME RequestsAssumption ==
  /\ Requests # {}
  /\ \A r \in Requests : r = [cert |-> r.cert, cuit |-> r.cuit,
                              service |-> r.service, production |-> r.production]
ASSUME TimeAssumption ==
  /\ Margin \in Nat
  /\ Lifetimes \subseteq Nat
  /\ MaxTime \in Nat
  /\ MaxTokens \in Nat

VARIABLES
  now,      \* the clock, in seconds of model time
  tokens,   \* MemoryStore.tokens
  pc,       \* where each goroutine is inside Authenticate
  call,     \* the arguments of its current or last call
  tok,      \* its local variable token (t inside Get)
  tra,      \* its login ticket request, while on the wire
  reply,    \* the token in WSAA's answer to it
  ret,      \* what its last call returned
  issued,   \* the tokens WSAA has granted
  handed,   \* history: the last token given to a caller and kept in the store,
            \* per key, since the key was last invalidated
  revoked,  \* history: per key, the tokens granted before its last invalidation
  snap      \* history: the clock, and handed and revoked of its key, as the
            \* call began

vars == <<now, tokens, pc, call, tok, tra, reply, ret, issued, handed, revoked, snap>>

-----------------------------------------------------------------------------
(* Data *)

\* What a token speaks for: the signer of the TRA, the service it names and
\* the endpoint it was posted to.  The CUIT argument takes no part in it.
Bearer(r) == [cert |-> r.cert, service |-> r.service, production |-> r.production]
Bearers == {Bearer(r) : r \in Requests}

Token == [id : 1..MaxTokens, for : Bearers, exp : Int]
TRA == [uniqueId : Nat, for : Bearers]

\* Operators named Mut... are plausible mistakes in the operator they precede;
\* no specification uses them.
MutCacheKeyCuitOnly(r) == <<r.cuit>>
cacheKey(r) == <<r.cuit, r.service>>
Keys == {cacheKey(r) : r \in Requests}

\* The tokens granted so far for the requests that use key k.
TokensOf(k) == {t \in issued : \E r \in Requests : cacheKey(r) = k /\ t.for = Bearer(r)}

\* TokenAcceso.IsExpired: time.Now().After(exp.Add(-margin)), strictly after.
MutIsExpiredLate(t, margin) == now > t.exp + margin
MutIsExpiredEarly(t, margin) == now >= t.exp - margin - 1
IsExpired(t, margin) == now > t.exp - margin

ASSUME NilAssumption == NoToken \notin Token /\ NoTRA \notin TRA

NoSnap == [at |-> 0, handed |-> NoToken, revoked |-> {}]

Returned(kind, t) == [kind |-> kind, token |-> t]
Results == [kind : {"none", "error", "deleted"}, token : {NoToken}]
             \cup [kind : {"ok"}, token : Token]

-----------------------------------------------------------------------------
Init ==
  /\ now = 0
  /\ tokens = [k \in Keys |-> NoToken]
  /\ pc = [p \in Procs |-> "idle"]
  /\ call = [p \in Procs |-> CHOOSE r \in Requests : TRUE]
  /\ tok = [p \in Procs |-> NoToken]
  /\ tra = [p \in Procs |-> NoTRA]
  /\ reply = [p \in Procs |-> NoToken]
  /\ ret = [p \in Procs |-> Returned("none", NoToken)]
  /\ issued = {}
  /\ handed = [k \in Keys |-> NoToken]
  /\ revoked = [k \in Keys |-> {}]
  /\ snap = [p \in Procs |-> NoSnap]

Goto(p, l) == pc' = [pc EXCEPT ![p] = l]
KeyOf(p) == cacheKey(call[p])

\* A return from Authenticate: the locals die with the call.
Return(p, kind, t) ==
  /\ Goto(p, "idle")
  /\ ret' = [ret EXCEPT ![p] = Returned(kind, t)]
  /\ tok' = [tok EXCEPT ![p] = NoToken]
  /\ tra' = [tra EXCEPT ![p] = NoTRA]
  /\ reply' = [reply EXCEPT ![p] = NoToken]
  /\ snap' = [snap EXCEPT ![p] = NoSnap]

-----------------------------------------------------------------------------
(* CachedClient.Authenticate *)

CallAuthenticate(p, r) ==
  /\ pc[p] = "idle"
  /\ Goto(p, "get")
  /\ call' = [call EXCEPT ![p] = r]
  /\ ret' = [ret EXCEPT ![p] = Returned("none", NoToken)]
  /\ snap' = [snap EXCEPT ![p] = [at      |-> now,
                                   handed  |-> handed[cacheKey(r)],
                                   revoked |-> revoked[cacheKey(r)]]]
  /\ UNCHANGED <<now, tokens, tok, tra, reply, issued, handed, revoked>>

\* The store's Get fails: Authenticate gives up without asking WSAA.
GetFails(p) ==
  /\ pc[p] = "get"
  /\ "get" \in StoreFaults
  /\ Return(p, "error", NoToken)
  /\ UNCHANGED <<now, tokens, call, issued, handed, revoked>>

\* MemoryStore.Get up to RUnlock; a missing entry is (nil, nil).
GetRead(p) ==
  /\ pc[p] = "get"
  /\ Goto(p, IF tokens[KeyOf(p)] = NoToken THEN "login" ELSE "check")
  /\ tok' = [tok EXCEPT ![p] = tokens[KeyOf(p)]]
  /\ UNCHANGED <<now, tokens, call, tra, reply, ret, issued, handed, revoked, snap>>

\* MemoryStore.Get, t.IsExpired(0), outside the lock.
GetCheck(p) ==
  /\ pc[p] = "check"
  /\ Goto(p, IF IsExpired(tok[p], 0) THEN "evict" ELSE "margin")
  /\ UNCHANGED <<now, tokens, call, tok, tra, reply, ret, issued, handed, revoked, snap>>

\* MemoryStore.Get, Lock; delete(m.tokens, key); Unlock; return nil, nil.
GetEvict(p) ==
  /\ pc[p] = "evict"
  /\ Goto(p, "login")
  /\ tokens' = [tokens EXCEPT ![KeyOf(p)] = NoToken]
  /\ tok' = [tok EXCEPT ![p] = NoToken]
  /\ UNCHANGED <<now, call, tra, reply, ret, issued, handed, revoked, snap>>

\* token.IsExpired(cc.renewalMargin) reads the clock; time goes on after it.
CheckMargin(p) ==
  /\ pc[p] = "margin"
  /\ Goto(p, IF IsExpired(tok[p], Margin) THEN "login" ELSE "serve")
  /\ UNCHANGED <<now, tokens, call, tok, tra, reply, ret, issued, handed, revoked, snap>>

ReturnCached(p) ==
  /\ pc[p] = "serve"
  /\ Return(p, "ok", tok[p])
  /\ UNCHANGED <<now, tokens, call, issued, handed, revoked>>

-----------------------------------------------------------------------------
(* Client.Authenticate *)

\* Marshalling the TRA or signCMS fails before anything is sent.
SignFails(p) ==
  /\ pc[p] = "login"
  /\ Return(p, "error", NoToken)
  /\ UNCHANGED <<now, tokens, call, issued, handed, revoked>>

\* buildLoginTicketRequest: uniqueId is now.Unix().
loginTicketRequest(r) == [uniqueId |-> now, for |-> Bearer(r)]

SendLogin(p) ==
  /\ pc[p] = "login"
  /\ Goto(p, "wait")
  /\ tra' = [tra EXCEPT ![p] = loginTicketRequest(call[p])]
  /\ UNCHANGED <<now, tokens, call, tok, reply, ret, issued, handed, revoked, snap>>

\* External: WSAA grants a token for a request on the wire.
WsaaGrant(p, life) ==
  /\ pc[p] = "wait"
  /\ reply[p] = NoToken
  /\ \E id \in 1..MaxTokens :
       LET t == [id |-> id, for |-> tra[p].for, exp |-> now + life] IN
         /\ {i.id : i \in issued} = 1..id-1
         /\ issued' = issued \cup {t}
         /\ reply' = [reply EXCEPT ![p] = t]
  /\ UNCHANGED <<now, tokens, pc, call, tok, tra, ret, handed, revoked, snap>>

MutLoginFailsOnAnswer(p) ==
  /\ pc[p] = "wait"
  /\ reply[p] # NoToken
  /\ Return(p, "error", NoToken)
  /\ UNCHANGED <<now, tokens, call, issued, handed, revoked>>

MutLoginRetries(p) ==
  /\ pc[p] = "wait"
  /\ Goto(p, "login")
  /\ tra' = [tra EXCEPT ![p] = NoTRA]
  /\ reply' = [reply EXCEPT ![p] = NoToken]
  /\ UNCHANGED <<now, tokens, call, tok, ret, issued, handed, revoked, snap>>

\* soap.Call fails (timeout, cancelled context, lost answer, fault, status,
\* undecodable body) or the ticket does not parse: *ErrWSAAAuth.
LoginFails(p) ==
  /\ pc[p] = "wait"
  /\ Return(p, "error", NoToken)
  /\ UNCHANGED <<now, tokens, call, issued, handed, revoked>>

MutTicketUnchecked(p) == TRUE
TicketParses(p) == reply[p] # NoToken

\* The answer arrives and parseLoginTicketResponseXML accepts it.
LoginOk(p) ==
  /\ pc[p] = "wait"
  /\ TicketParses(p)
  /\ Goto(p, "set")
  /\ tok' = [tok EXCEPT ![p] = reply[p]]
  /\ tra' = [tra EXCEPT ![p] = NoTRA]
  /\ reply' = [reply EXCEPT ![p] = NoToken]
  /\ UNCHANGED <<now, tokens, call, ret, issued, handed, revoked, snap>>

-----------------------------------------------------------------------------
(* Back in CachedClient.Authenticate, and CachedClient.Invalidate *)

\* store.Set succeeds; the token is returned.
MutStoreDropped(k, t) == tokens
StorePut(k, t) == [tokens EXCEPT ![k] = t]

SetOk(p) ==
  /\ pc[p] = "set"
  /\ tokens' = StorePut(KeyOf(p), tok[p])
  /\ handed' = [handed EXCEPT ![KeyOf(p)] = tok[p]]
  /\ Return(p, "ok", tok[p])
  /\ UNCHANGED <<now, call, issued, revoked>>

\* store.Set fails; the error is dropped and the token is returned.
SetFails(p) ==
  /\ pc[p] = "set"
  /\ "set" \in StoreFaults
  /\ Return(p, "ok", tok[p])
  /\ UNCHANGED <<now, tokens, call, issued, handed, revoked>>

MutStoreKept(k) == tokens
StoreDelete(k) == [tokens EXCEPT ![k] = NoToken]

Invalidate(p, k) ==
  /\ pc[p] = "idle"
  /\ tokens' = StoreDelete(k)
  /\ handed' = [handed EXCEPT ![k] = NoToken]
  /\ revoked' = [revoked EXCEPT ![k] = TokensOf(k)]
  /\ ret' = [ret EXCEPT ![p] = Returned("deleted", NoToken)]
  /\ UNCHANGED <<now, pc, call, tok, tra, reply, issued, snap>>

InvalidateFails(p) ==
  /\ pc[p] = "idle"
  /\ "delete" \in StoreFaults
  /\ ret' = [ret EXCEPT ![p] = Returned("error", NoToken)]
  /\ UNCHANGED <<now, tokens, pc, call, tok, tra, reply, issued, handed, revoked, snap>>

-----------------------------------------------------------------------------
Tick ==
  /\ now < MaxTime
  /\ now' = now + 1
  /\ UNCHANGED <<tokens, pc, call, tok, tra, reply, ret, issued, handed, revoked, snap>>

\* The steps of a goroutine inside a call.
Step(p) ==
  \/ GetFails(p) \/ GetRead(p) \/ GetCheck(p) \/ GetEvict(p)
  \/ CheckMargin(p) \/ ReturnCached(p)
  \/ SignFails(p) \/ SendLogin(p) \/ LoginFails(p) \/ LoginOk(p)
  \/ SetOk(p) \/ SetFails(p)

\* What the program around the package decides to do.
Use(p) ==
  \/ \E r \in Requests : CallAuthenticate(p, r)
  \/ \E k \in Keys : Invalidate(p, k)
  \/ InvalidateFails(p)

Next ==
  \/ \E p \in Procs : Use(p) \/ Step(p) \/ \E life \in Lifetimes : WsaaGrant(p, life)
  \/ Tick

Spec == Init /\ [][Next]_vars

\* Goroutines are scheduled, and http.Client's timeout ends every wait.
FairSpec == Spec /\ \A p \in Procs : WF_vars(Step(p))

-----------------------------------------------------------------------------
(* Properties *)

TypeOK ==
  /\ now \in Nat
  /\ tokens \in [Keys -> Token \cup {NoToken}]
  /\ pc \in [Procs -> {"idle", "get", "check", "evict", "margin", "serve", "login", "wait", "set"}]
  /\ call \in [Procs -> Requests]
  /\ tok \in [Procs -> Token \cup {NoToken}]
  /\ tra \in [Procs -> TRA \cup {NoTRA}]
  /\ reply \in [Procs -> Token \cup {NoToken}]
  /\ ret \in [Procs -> Results]
  /\ issued \in SUBSET Token
  /\ handed \in [Keys -> Token \cup {NoToken}]
  /\ revoked \in [Keys -> SUBSET Token]
  /\ snap \in [Procs -> [at : Nat, handed : Token \cup {NoToken}, revoked : SUBSET Token]]

\* The cuit and the service of a request decide its certificate and its
\* environment.  Authenticate does not check it: the program must see to it.
Coherent ==
  \A r1, r2 \in Requests : cacheKey(r1) = cacheKey(r2) => Bearer(r1) = Bearer(r2)

\* Whatever the interleaving of calls, evictions and invalidations, a call
\* that succeeds returns a token WSAA really granted, to the certificate, for
\* the service and in the environment that call asked for.
TokenProvenance ==
  \A p \in Procs : ret[p].kind = "ok" =>
    /\ ret[p].token \in issued
    /\ ret[p].token.for = Bearer(call[p])

\* A live token leaves the store only through Invalidate, or when a newer one
\* takes its place: MemoryStore.Get discards expired entries and no others.
EvictsOnlyExpired ==
  [][\A k \in Keys :
       tokens[k] # NoToken /\ tokens'[k] = NoToken
         => now > tokens[k].exp \/ tokens[k] \in revoked'[k]]_vars

\* A call that begins when a token for its key has already been handed to a
\* caller and kept does not log in again while that token outlives the margin,
\* unless the key is invalidated meanwhile.
NoRedundantLogin ==
  [][\A p \in Procs :
       LET t == snap[p].handed IN
       pc[p] = "login" /\ pc'[p] = "wait" /\ t # NoToken /\ t \notin revoked[KeyOf(p)]
         => now > t.exp - Margin]_vars

\* Once Invalidate has returned, no call for its key that begins later returns
\* a token granted before it: the next call must authenticate again.
InvalidateForcesReauth ==
  [][\A p \in Procs :
       pc[p] # "idle" /\ ret'[p].kind = "ok"
         => ret'[p].token \notin snap[p].revoked]_vars

\* The token cached for a key never gives way to one that expires earlier.
CacheNeverRegresses ==
  [][\A k \in Keys :
       tokens[k] # NoToken /\ tokens'[k] # NoToken => tokens'[k].exp >= tokens[k].exp]_vars

\* Every call returns, whatever WSAA and the network do.
EveryCallReturns == \A p \in Procs : pc[p] # "idle" ~> pc[p] = "idle"

-----------------------------------------------------------------------------
(* Refinement *)

\* The token granted to the call under way: on the wire, then in its local.
OwnToken(p) ==
  IF pc[p] = "wait" THEN reply[p]
  ELSE IF pc[p] = "set" THEN tok[p]
  ELSE NoToken

Service ==
  INSTANCE TokenService WITH busy <- [p \in Procs |-> pc[p] # "idle"],
                             own  <- [p \in Procs |-> OwnToken(p)],
                             asked <- [p \in Procs |-> snap[p].at]

\* Authenticate and Invalidate, with the store, the locks, the wire and the
\* clock between their steps, do what TokenService says: one grant per call at
\* most, and no result but an error, the call's own token, or one granted for
\* the same bearer that had the margin left during the call, however long the
\* goroutine was suspended between the store, the two tests and the return.
ImplementsTokenService == Service!Spec
=============================================================================

------------------------- MODULE SequentialAuthProofs -------------------------
(***************************************************************************)
(* What the token cache promises a program that calls it from one          *)
(* goroutine, or under a lock of its own: no login while a token it        *)
(* handed out is good, no live token lost, no token that expires earlier   *)
(* than the one it replaces, and a new login after Invalidate.  With two   *)
(* goroutines each of the four fails, because the store may change between *)
(* the steps of a call; the invariant says that here it does not.          *)
(***************************************************************************)
EXTENDS CachedAuthProofs

\* At most one goroutine uses the client.
Sequential == \A p, q \in Procs : p = q

\* WSAA's tokens last at least as long as the renewal margin.
MarginWithinLife == \A life \in Lifetimes : Margin <= life

\* A token granted for key k and not revoked since.
GoodFor(t, k) == t \in TokensOf(k) \ revoked[k]

\* What the store holds was granted for its key after the key's last
\* invalidation, and a token handed out leaves it only once expired.
KeyInv(k) ==
  /\ tokens[k] # NoToken => GoodFor(tokens[k], k)
  /\ revoked[k] \subseteq TokensOf(k)
  /\ handed[k] # NoToken => tokens[k] = handed[k] \/ now > handed[k].exp

\* A call holds tokens of its own key only; what it has read of the store is
\* still there; and it logs in only when no stored token outlives the margin.
CallInv(p) ==
  LET k == KeyOf(p) IN
  /\ pc[p] # "idle" => snap[p].handed = handed[k] /\ snap[p].revoked = revoked[k]
  /\ pc[p] \in {"check", "evict", "margin", "serve"} => tok[p] = tokens[k]
  /\ pc[p] = "evict" => now > tok[p].exp
  /\ pc[p] \in {"check", "evict", "margin", "serve", "set"} => GoodFor(tok[p], k)
  /\ reply[p] # NoToken => GoodFor(reply[p], k)
  /\ pc[p] = "wait" => tra[p].for = Bearer(call[p])
  /\ pc[p] \in {"login", "wait", "set"} /\ tokens[k] # NoToken => now > tokens[k].exp - Margin

SeqInv == TypeInv /\ (\A k \in Keys : KeyInv(k)) /\ (\A p \in Procs : CallInv(p))

-----------------------------------------------------------------------------
(* The invariant *)

LEMMA InitSeq == Init => SeqInv
  <1> SUFFICES ASSUME Init PROVE SeqInv
    OBVIOUS
  <1>1. ASSUME NEW k \in Keys PROVE KeyInv(k)
    BY <1>1 DEF Init, KeyInv
  <1>2. ASSUME NEW p \in Procs PROVE CallInv(p)
    BY <1>2 DEF Init, CallInv
  <1> QED BY <1>1, <1>2, InitTypeInv DEF SeqInv

\* One goroutine's call is the only call.
LEMMA OnlyCall ==
  ASSUME Sequential, NEW p \in Procs, TypeInv', \A k \in Keys : KeyInv(k)', CallInv(p)'
  PROVE  SeqInv'
  BY DEF Sequential, SeqInv

\* A call's key is a key of the store.
LEMMA CallKey == ASSUME TypeInv, NEW p \in Procs PROVE KeyOf(p) \in Keys /\ call[p] \in Requests
  BY KeyInKeys DEF TypeInv, TypeOK, KeyOf

\* A token granted to a call is one of its key.
LEMMA GrantedToKey ==
  ASSUME NEW p \in Procs, call[p] \in Requests, NEW t \in issued, t.for = Bearer(call[p])
  PROVE  t \in TokensOf(KeyOf(p))
  BY DEF TokensOf, KeyOf

\* A step that changes neither the grants, the store nor the clock, and
\* neither history, keeps what is true of every key.
LEMMA KeysUntouched ==
  ASSUME SeqInv, UNCHANGED <<now, tokens, issued, handed, revoked>>
  PROVE  \A k \in Keys : KeyInv(k)'
  BY DEF SeqInv, KeyInv, GoodFor, TokensOf

\* A return leaves a call nothing to be right about.
LEMMA ReturnSeq ==
  ASSUME SeqInv, TypeInv', NEW p \in Procs, NEW kind, NEW t, Return(p, kind, t)
  PROVE  CallInv(p)'
  BY DEF SeqInv, TypeInv, TypeOK, CallInv, Return, Goto

\* With one goroutine, every step keeps the invariant.
LEMMA NextSeq == Sequential /\ SeqInv /\ [Next]_vars => SeqInv'
  <1> SUFFICES ASSUME Sequential, SeqInv, [Next]_vars PROVE SeqInv'
    OBVIOUS
  <1>0. TypeInv /\ TypeInv' /\ TypeOK
    BY NextTypeInv DEF SeqInv, TypeInv
  <1>K. ASSUME NEW p \in Procs
        PROVE  KeyOf(p) \in Keys /\ call[p] \in Requests /\ CallInv(p) /\ KeyInv(KeyOf(p))
    BY <1>0, CallKey DEF SeqInv
  <1>1. ASSUME NEW p \in Procs, NEW r \in Requests, CallAuthenticate(p, r) PROVE SeqInv'
    <2>1. CallInv(p)'
      BY <1>0, <1>1, <1>K DEF CallAuthenticate, CallInv, Goto, KeyOf, TypeOK, TypeInv, Locals
    <2> QED BY <1>0, <1>1, <2>1, KeysUntouched, OnlyCall DEF CallAuthenticate
  <1>2. ASSUME NEW p \in Procs, GetFails(p) \/ ReturnCached(p) \/ SignFails(p) \/ LoginFails(p) \/ SetFails(p)
        PROVE  SeqInv'
    <2>1. CallInv(p)'
      BY <1>0, <1>2, ReturnSeq DEF GetFails, ReturnCached, SignFails, LoginFails, SetFails
    <2>2. \A k \in Keys : KeyInv(k)'
      BY <1>2, KeysUntouched DEF GetFails, ReturnCached, SignFails, LoginFails, SetFails, Return
    <2> QED BY <1>0, <2>1, <2>2, OnlyCall
  <1>3. ASSUME NEW p \in Procs, GetRead(p) PROVE SeqInv'
    <2>1. CallInv(p)'
      BY <1>0, <1>3, <1>K
         DEF GetRead, CallInv, KeyInv, GoodFor, TokensOf, Goto, KeyOf, TypeOK, TypeInv, Locals
    <2> QED BY <1>0, <1>3, <2>1, KeysUntouched, OnlyCall DEF GetRead
  <1>4. ASSUME NEW p \in Procs, GetCheck(p) PROVE SeqInv'
    <2>1. tok[p] \in Token /\ now \in Nat
      BY <1>0, <1>4 DEF GetCheck, TypeInv, Locals, TypeOK
    <2>2. IsExpired(tok[p], 0) => now > tok[p].exp
      BY <2>1 DEF IsExpired, Token
    <2>3. CallInv(p)'
      BY <1>0, <1>4, <1>K, <2>2
         DEF GetCheck, CallInv, GoodFor, TokensOf, Goto, KeyOf, TypeOK, TypeInv, Locals
    <2> QED BY <1>0, <1>4, <2>3, KeysUntouched, OnlyCall DEF GetCheck
  <1>5. ASSUME NEW p \in Procs, GetEvict(p) PROVE SeqInv'
    <2>1. CallInv(p)'
      BY <1>0, <1>5, <1>K
         DEF GetEvict, CallInv, GoodFor, TokensOf, Goto, KeyOf, TypeOK, TypeInv, Locals
    <2>2. ASSUME NEW k \in Keys PROVE KeyInv(k)'
      <3>1. CASE k = KeyOf(p)
        BY <1>0, <1>5, <1>K, <3>1
           DEF GetEvict, KeyInv, CallInv, GoodFor, TokensOf, TypeOK
      <3>2. CASE k # KeyOf(p)
        <4>1. tokens'[k] = tokens[k] /\ KeyInv(k)
          BY <1>0, <1>5, <3>2 DEF GetEvict, TypeOK, SeqInv
        <4> QED BY <1>5, <4>1 DEF GetEvict, KeyInv, GoodFor, TokensOf
      <3> QED BY <3>1, <3>2
    <2> QED BY <1>0, <2>1, <2>2, OnlyCall
  <1>6. ASSUME NEW p \in Procs, CheckMargin(p) PROVE SeqInv'
    <2>1. CallInv(p)'
      BY <1>0, <1>6, <1>K
         DEF CheckMargin, IsExpired, CallInv, GoodFor, TokensOf, Goto, KeyOf, TypeOK, TypeInv, Locals
    <2> QED BY <1>0, <1>6, <2>1, KeysUntouched, OnlyCall DEF CheckMargin
  <1>7. ASSUME NEW p \in Procs, SendLogin(p) PROVE SeqInv'
    <2>1. tra'[p].for = Bearer(call[p])
      BY <1>0, <1>7 DEF SendLogin, loginTicketRequest, TypeOK
    <2>2. CallInv(p)'
      BY <1>0, <1>7, <1>K, <2>1
         DEF SendLogin, CallInv, GoodFor, TokensOf, Goto, KeyOf, TypeOK, TypeInv, Locals
    <2> QED BY <1>0, <1>7, <2>2, KeysUntouched, OnlyCall DEF SendLogin
  <1>8. ASSUME NEW p \in Procs, NEW life \in Lifetimes, WsaaGrant(p, life) PROVE SeqInv'
    <2>1. PICK id \in 1..MaxTokens :
            /\ {i.id : i \in issued} = 1..id-1
            /\ issued' = issued \cup {[id |-> id, for |-> tra[p].for, exp |-> now + life]}
            /\ reply' = [reply EXCEPT ![p] = [id |-> id, for |-> tra[p].for, exp |-> now + life]]
      BY <1>8 DEF WsaaGrant
    <2> DEFINE t == [id |-> id, for |-> tra[p].for, exp |-> now + life]
    <2>2. t \notin issued
      <3>1. t \in issued => t.id \in 1..id-1
        BY <2>1
      <3> QED BY <2>1, <3>1
    <2>3. ASSUME NEW k \in Keys PROVE TokensOf(k) \subseteq TokensOf(k)' /\ TokensOf(k) \subseteq issued
      BY <2>1 DEF TokensOf
    <2>4. \A k \in Keys : KeyInv(k)'
      BY <1>8, <2>3 DEF SeqInv, WsaaGrant, KeyInv, GoodFor
    <2>5. tra[p].for = Bearer(call[p]) /\ t.for = tra[p].for
      BY <1>8, <1>K DEF WsaaGrant, CallInv
    <2>6. t \in TokensOf(KeyOf(p))' /\ t \notin revoked[KeyOf(p)]
      <3>1. t \in issued' /\ call'[p] \in Requests /\ t.for = Bearer(call'[p]) /\ KeyOf(p)' = cacheKey(call'[p])
        BY <1>8, <1>K, <2>1, <2>5 DEF WsaaGrant, KeyOf
      <3>2. t \in TokensOf(KeyOf(p))'
        BY <3>1 DEF TokensOf
      <3> QED BY <1>K, <2>2, <2>3, <3>2 DEF KeyInv
    <2>7. reply'[p] = t
      BY <1>0, <2>1 DEF TypeOK
    <2>8. CallInv(p)'
      BY <1>8, <1>K, <2>6, <2>7 DEF WsaaGrant, CallInv, GoodFor, KeyOf
    <2> QED BY <1>0, <2>4, <2>8, OnlyCall
  <1>9. ASSUME NEW p \in Procs, LoginOk(p) PROVE SeqInv'
    <2>1. CallInv(p)'
      BY <1>0, <1>9, <1>K
         DEF LoginOk, TicketParses, CallInv, GoodFor, TokensOf, Goto, KeyOf, TypeOK, TypeInv, Locals
    <2> QED BY <1>0, <1>9, <2>1, KeysUntouched, OnlyCall DEF LoginOk
  <1>10. ASSUME NEW p \in Procs, SetOk(p) PROVE SeqInv'
    <2>1. CallInv(p)'
      BY <1>0, <1>10, ReturnSeq DEF SetOk
    <2>2. ASSUME NEW k \in Keys PROVE KeyInv(k)'
      <3>1. CASE k = KeyOf(p)
        BY <1>0, <1>10, <1>K, <3>1
           DEF SetOk, StorePut, KeyInv, CallInv, GoodFor, TokensOf, TypeOK
      <3>2. CASE k # KeyOf(p)
        <4>1. tokens'[k] = tokens[k] /\ handed'[k] = handed[k] /\ KeyInv(k)
          BY <1>0, <1>10, <3>2 DEF SetOk, StorePut, TypeOK, SeqInv
        <4> QED BY <1>10, <4>1 DEF SetOk, KeyInv, GoodFor, TokensOf
      <3> QED BY <3>1, <3>2
    <2> QED BY <1>0, <2>1, <2>2, OnlyCall
  <1>11. ASSUME NEW p \in Procs, NEW k \in Keys, Invalidate(p, k) PROVE SeqInv'
    <2>1. CallInv(p)'
      BY <1>0, <1>11 DEF Invalidate, CallInv, TypeInv, Locals
    <2>2. ASSUME NEW l \in Keys PROVE KeyInv(l)'
      <3>1. TokensOf(l)' = TokensOf(l) /\ now' = now /\ KeyInv(l)
        BY <1>11 DEF Invalidate, TokensOf, SeqInv
      <3>2. CASE l = k
        <4>1. tokens'[l] = NoToken /\ handed'[l] = NoToken /\ revoked'[l] = TokensOf(l)
          BY <1>0, <1>11, <3>2 DEF Invalidate, StoreDelete, TypeOK
        <4> QED BY <3>1, <4>1 DEF KeyInv
      <3>3. CASE l # k
        <4>1. tokens'[l] = tokens[l] /\ handed'[l] = handed[l] /\ revoked'[l] = revoked[l]
          BY <1>0, <1>11, <3>3 DEF Invalidate, StoreDelete, TypeOK
        <4> QED BY <3>1, <4>1 DEF KeyInv, GoodFor
      <3> QED BY <3>2, <3>3
    <2> QED BY <1>0, <2>1, <2>2, OnlyCall
  <1>12. ASSUME NEW p \in Procs, InvalidateFails(p) PROVE SeqInv'
    <2>1. CallInv(p)'
      BY <1>0, <1>12, <1>K DEF InvalidateFails, CallInv, GoodFor, TokensOf, KeyOf
    <2> QED BY <1>0, <1>12, <2>1, KeysUntouched, OnlyCall DEF InvalidateFails
  <1>13. CASE Tick
    <2>1. now \in Nat /\ now' = now + 1
      BY <1>0, <1>13 DEF Tick, TypeOK
    <2>2. ASSUME NEW k \in Keys PROVE KeyInv(k)'
      <3>1. handed[k] \in Token => handed[k].exp \in Int
        BY DEF Token
      <3>2. handed[k] # NoToken /\ now > handed[k].exp => now' > handed[k].exp
        BY <1>0, <2>1, <3>1 DEF TypeOK
      <3> QED BY <1>13, <3>2 DEF Tick, SeqInv, KeyInv, GoodFor, TokensOf
    <2>3. ASSUME NEW p \in Procs PROVE CallInv(p)'
      <3>1. \A t \in Token : t.exp \in Int /\ t.exp - Margin \in Int
        BY TimeAssumption DEF Token
      <3>2. ASSUME NEW d \in Int, now > d PROVE now' > d
        BY <2>1, <3>2
      <3>3. pc[p] = "evict" => now' > tok[p].exp
        <4> SUFFICES ASSUME pc[p] = "evict" PROVE now' > tok[p].exp
          OBVIOUS
        <4>1. tok[p] \in Token
          BY <1>0 DEF TypeInv, Locals
        <4>2. now > tok[p].exp
          BY <1>K DEF CallInv
        <4> QED BY <3>1, <3>2, <4>1, <4>2
      <3>4. pc[p] \in {"login", "wait", "set"} /\ tokens[KeyOf(p)] # NoToken
              => now' > tokens[KeyOf(p)].exp - Margin
        <4> SUFFICES ASSUME pc[p] \in {"login", "wait", "set"}, tokens[KeyOf(p)] # NoToken
                     PROVE  now' > tokens[KeyOf(p)].exp - Margin
          OBVIOUS
        <4>1. tokens[KeyOf(p)] \in Token
          BY <1>0, <1>K DEF TypeOK
        <4>2. now > tokens[KeyOf(p)].exp - Margin
          BY <1>K DEF CallInv
        <4> QED BY <3>1, <3>2, <4>1, <4>2
      <3> QED BY <1>13, <1>K, <3>3, <3>4 DEF Tick, CallInv, GoodFor, TokensOf, KeyOf
    <2> QED BY <1>0, <2>2, <2>3 DEF SeqInv
  <1>14. CASE UNCHANGED vars
    <2>1. ASSUME NEW p \in Procs PROVE CallInv(p)'
      BY <1>14, <1>K DEF vars, CallInv, GoodFor, TokensOf, KeyOf
    <2> QED BY <1>0, <1>14, <2>1, KeysUntouched DEF vars, SeqInv
  <1> QED
    BY <1>1, <1>2, <1>3, <1>4, <1>5, <1>6, <1>7, <1>8, <1>9, <1>10, <1>11, <1>12, <1>13, <1>14
       DEF Next, Use, Step


-----------------------------------------------------------------------------
(* The four promises *)

\* A program that calls the cache from one goroutine does not log in while a
\* token it was given for the key, and did not invalidate, outlives the margin.
THEOREM OneLoginPerToken == ASSUME Sequential PROVE Spec => NoRedundantLogin
  <1> DEFINE Needed(p) ==
        LET t == snap[p].handed IN
        pc[p] = "login" /\ pc'[p] = "wait" /\ t # NoToken /\ t \notin revoked[KeyOf(p)]
          => now > t.exp - Margin
  <1>1. ASSUME SeqInv, NEW p \in Procs PROVE Needed(p)
    <2> SUFFICES ASSUME pc[p] = "login", snap[p].handed # NoToken
                 PROVE  now > snap[p].handed.exp - Margin
      OBVIOUS
    <2> DEFINE k == KeyOf(p)
    <2>1. k \in Keys /\ CallInv(p) /\ KeyInv(k)
      BY <1>1, CallKey DEF SeqInv
    <2>2. snap[p].handed = handed[k]
      BY <2>1 DEF CallInv
    <2>3. handed[k] \in Token /\ now \in Nat
      BY <1>1, <2>1, <2>2 DEF SeqInv, TypeInv, TypeOK
    <2>4. CASE tokens[k] = handed[k]
      BY <2>1, <2>2, <2>4 DEF CallInv
    <2>5. CASE now > handed[k].exp
      BY <2>2, <2>3, <2>5, TimeAssumption DEF Token
    <2> QED BY <2>1, <2>2, <2>4, <2>5 DEF KeyInv
  <1>2. SeqInv /\ [Next]_vars => SeqInv'
    BY NextSeq, Sequential
  <1>3. SeqInv /\ [Next]_vars => [\A p \in Procs : Needed(p)]_vars
    BY <1>1
  <1> QED BY InitSeq, <1>2, <1>3, PTL DEF Spec, NoRedundantLogin

\* It loses no live token: Get evicts the entry it has judged, and none other.
THEOREM OnlyExpiredAreEvicted == ASSUME Sequential PROVE Spec => EvictsOnlyExpired
  <1> DEFINE Justified(k) ==
        tokens[k] # NoToken /\ tokens'[k] = NoToken
          => now > tokens[k].exp \/ tokens[k] \in revoked'[k]
  <1>1. ASSUME SeqInv, [Next]_vars, NEW k \in Keys PROVE Justified(k)
    <2> SUFFICES ASSUME tokens[k] # NoToken, tokens'[k] = NoToken
                 PROVE  now > tokens[k].exp \/ tokens[k] \in revoked'[k]
      OBVIOUS
    <2>0. TypeInv /\ TypeOK /\ KeyInv(k) /\ \A p \in Procs : CallInv(p)
      BY <1>1 DEF SeqInv, TypeInv
    <2>1. ASSUME NEW p \in Procs, GetEvict(p) PROVE now > tokens[k].exp
      BY <2>0, <2>1 DEF GetEvict, TypeOK, CallInv
    <2>2. ASSUME NEW p \in Procs, NEW l \in Keys, Invalidate(p, l) PROVE tokens[k] \in revoked'[k]
      <3>1. l = k
        BY <2>0, <2>2 DEF Invalidate, StoreDelete, TypeOK
      <3> QED BY <2>0, <2>2, <3>1 DEF Invalidate, KeyInv, GoodFor, TypeOK
    <2>3. ASSUME NEW p \in Procs, SetOk(p) PROVE FALSE
      <3>1. tok[p] \in Token
        BY <2>0, <2>3 DEF SetOk, TypeInv, Locals
      <3> QED BY <2>0, <2>3, <3>1, NilAssumption DEF SetOk, StorePut, TypeOK
    <2>4. ASSUME tokens' = tokens PROVE FALSE
      BY <2>4
    <2> QED
      BY <1>1, <2>1, <2>2, <2>3, <2>4
         DEF Next, Use, Step, CallAuthenticate, GetFails, GetRead, GetCheck, ReturnCached,
             CheckMargin, SignFails, SendLogin, WsaaGrant, LoginFails, LoginOk, SetFails,
             InvalidateFails, Tick, vars
  <1>2. SeqInv /\ [Next]_vars => SeqInv'
    BY NextSeq, Sequential
  <1>3. SeqInv /\ [Next]_vars => [\A k \in Keys : Justified(k)]_vars
    BY <1>1
  <1> QED BY InitSeq, <1>2, <1>3, PTL DEF Spec, EvictsOnlyExpired

\* The call after Invalidate authenticates again.
THEOREM InvalidateIsFinal == ASSUME Sequential PROVE Spec => InvalidateForcesReauth
  <1> DEFINE New(p) ==
        pc[p] # "idle" /\ ret'[p].kind = "ok" => ret'[p].token \notin snap[p].revoked
  <1>1. ASSUME SeqInv, [Next]_vars, NEW p \in Procs PROVE New(p)
    <2> SUFFICES ASSUME pc[p] # "idle", ret'[p].kind = "ok"
                 PROVE  ret'[p].token \notin snap[p].revoked
      OBVIOUS
    <2>0. TypeInv /\ TypeOK /\ CallInv(p)
      BY <1>1 DEF SeqInv, TypeInv
    <2>1. ret[p].kind = "none" /\ ret'[p] # ret[p]
      BY <2>0 DEF TypeInv, Locals
    <2>2. ReturnCached(p) \/ SetOk(p) \/ SetFails(p)
      BY <1>1, <2>0, <2>1, OkComesFrom
    <2>3. ret'[p].token = tok[p] /\ pc[p] \in {"serve", "set"}
      BY <2>0, <2>2 DEF ReturnCached, SetOk, SetFails, Return, Returned, TypeOK
    <2> QED BY <2>0, <2>3 DEF CallInv, GoodFor
  <1>2. SeqInv /\ [Next]_vars => SeqInv'
    BY NextSeq, Sequential
  <1>3. SeqInv /\ [Next]_vars => [\A p \in Procs : New(p)]_vars
    BY <1>1
  <1> QED BY InitSeq, <1>2, <1>3, PTL DEF Spec, InvalidateForcesReauth

-----------------------------------------------------------------------------
(* Renewal *)

\* A token on its way to the store expires no earlier than the one it finds
\* there.
Renews(t, k) == tokens[k] # NoToken => tokens[k].exp <= t.exp
RenewalInv ==
  \A p \in Procs :
    /\ reply[p] # NoToken => Renews(reply[p], KeyOf(p))
    /\ pc[p] = "set" => Renews(tok[p], KeyOf(p))

LEMMA InitRenewal == Init => RenewalInv
  BY DEF Init, RenewalInv

\* When nothing the goroutine holds on the way to the store is new, and its
\* key's entry is the same or gone, it still renews the entry.
LEMMA RenewalKept ==
  ASSUME TypeInv, TypeInv', RenewalInv, NEW p \in Procs, \A q \in Procs : p = q,
         pc'[p] \in {"wait", "set"} => pc'[p] = pc[p] /\ call'[p] = call[p] /\ tok'[p] = tok[p],
         pc'[p] = "wait" => reply'[p] = reply[p],
         pc'[p] \in {"wait", "set"} => tokens' = tokens
  PROVE  RenewalInv'
  <1>1. pc'[p] # "wait" => reply'[p] = NoToken
    BY DEF TypeInv, Locals
  <1>2. \A t : pc'[p] \in {"wait", "set"} => (Renews(t, KeyOf(p))' <=> (tokens'[KeyOf(p)] # NoToken => tokens'[KeyOf(p)].exp <= t.exp))
    BY DEF Renews, KeyOf
  <1> QED BY <1>1, <1>2 DEF RenewalInv, Renews, KeyOf

\* A login is due only within the margin of the stored token's end, and the
\* token it yields lasts for the margin at least.
LEMMA NextRenewal ==
  Sequential /\ MarginWithinLife /\ SeqInv /\ SeqInv' /\ RenewalInv /\ [Next]_vars => RenewalInv'
  <1> SUFFICES ASSUME Sequential, MarginWithinLife, SeqInv, SeqInv', RenewalInv, [Next]_vars
               PROVE  RenewalInv'
    OBVIOUS
  <1>0. TypeInv /\ TypeInv' /\ TypeOK
    BY DEF SeqInv, TypeInv
  <1>S. ASSUME NEW p \in Procs PROVE \A q \in Procs : p = q
    BY DEF Sequential
  <1>1. ASSUME NEW p \in Procs, NEW r \in Requests, CallAuthenticate(p, r) PROVE RenewalInv'
    BY <1>0, <1>1, <1>S, RenewalKept DEF CallAuthenticate, Goto, TypeOK
  <1>2. ASSUME NEW p \in Procs,
               \/ GetFails(p) \/ ReturnCached(p) \/ SignFails(p) \/ LoginFails(p)
               \/ SetOk(p) \/ SetFails(p)
        PROVE  RenewalInv'
    <2>1. pc'[p] = "idle"
      BY <1>0, <1>2
         DEF GetFails, ReturnCached, SignFails, LoginFails, SetOk, SetFails, Return, Goto, TypeOK
    <2> QED BY <1>0, <1>S, <2>1, RenewalKept
  <1>3. ASSUME NEW p \in Procs,
               GetRead(p) \/ GetCheck(p) \/ GetEvict(p) \/ CheckMargin(p)
        PROVE  RenewalInv'
    <2>1. pc'[p] \notin {"wait", "set"}
      BY <1>0, <1>3 DEF GetRead, GetCheck, GetEvict, CheckMargin, Goto, TypeOK
    <2> QED BY <1>0, <1>S, <2>1, RenewalKept
  <1>4. ASSUME NEW p \in Procs, SendLogin(p) PROVE RenewalInv'
    <2>1. reply'[p] = NoToken /\ pc'[p] # "set"
      BY <1>0, <1>4 DEF SendLogin, Goto, TypeInv, TypeOK, Locals
    <2> QED BY <1>S, <2>1 DEF RenewalInv
  <1>5. ASSUME NEW p \in Procs, NEW life \in Lifetimes, WsaaGrant(p, life) PROVE RenewalInv'
    <2>1. PICK id \in 1..MaxTokens :
            reply' = [reply EXCEPT ![p] = [id |-> id, for |-> tra[p].for, exp |-> now + life]]
      BY <1>5 DEF WsaaGrant
    <2> DEFINE k == KeyOf(p)
    <2>2. k \in Keys /\ CallInv(p) /\ pc[p] = "wait"
      BY <1>0, <1>5, CallKey DEF WsaaGrant, SeqInv
    <2>3. reply'[p].exp = now + life
      BY <1>0, <2>1 DEF TypeOK
    <2>4. ASSUME tokens[k] # NoToken PROVE tokens[k].exp <= now + life
      <3>1. tokens[k] \in Token
        BY <1>0, <2>2, <2>4 DEF TypeOK
      <3>2. tokens[k].exp \in Int /\ now \in Nat /\ life \in Nat /\ Margin \in Nat /\ Margin <= life
        BY <1>0, <3>1, TimeAssumption DEF Token, TypeOK, MarginWithinLife
      <3>3. now > tokens[k].exp - Margin
        BY <2>2, <2>4 DEF CallInv
      <3> QED BY <3>2, <3>3
    <2>5. Renews(reply'[p], k) /\ k' = k /\ tokens' = tokens /\ pc'[p] = "wait"
      BY <1>5, <2>2, <2>3, <2>4 DEF Renews, WsaaGrant, KeyOf
    <2>6. Renews(reply[p], k)'
      BY <2>5 DEF Renews
    <2> QED BY <1>S, <2>5, <2>6 DEF RenewalInv
  <1>6. ASSUME NEW p \in Procs, LoginOk(p) PROVE RenewalInv'
    <2>1. Renews(reply[p], KeyOf(p))
      BY <1>6 DEF LoginOk, TicketParses, RenewalInv
    <2>2. tok'[p] = reply[p] /\ reply'[p] = NoToken /\ tokens' = tokens /\ call' = call
      BY <1>0, <1>6 DEF LoginOk, TypeOK
    <2> QED BY <1>S, <2>1, <2>2 DEF RenewalInv, Renews, KeyOf
  <1>7. ASSUME NEW p \in Procs, InvalidateFails(p) \/ \E k \in Keys : Invalidate(p, k)
        PROVE  RenewalInv'
    <2>1. pc'[p] = "idle"
      BY <1>7 DEF Invalidate, InvalidateFails
    <2> QED BY <1>0, <1>S, <2>1, RenewalKept
  <1>8. CASE Tick \/ UNCHANGED vars
    BY <1>8 DEF Tick, vars, RenewalInv, Renews, KeyOf
  <1> QED
    BY <1>1, <1>2, <1>3, <1>4, <1>5, <1>6, <1>7, <1>8 DEF Next, Use, Step

\* The token cached for a key gives way only to one that expires no earlier,
\* if WSAA's tokens last as long as the margin.
THEOREM CacheOnlyRenews ==
  ASSUME Sequential, MarginWithinLife PROVE Spec => CacheNeverRegresses
  <1> DEFINE Later(k) ==
        tokens[k] # NoToken /\ tokens'[k] # NoToken => tokens'[k].exp >= tokens[k].exp
  <1>1. ASSUME SeqInv, RenewalInv, [Next]_vars, NEW k \in Keys PROVE Later(k)
    <2> SUFFICES ASSUME tokens[k] # NoToken, tokens'[k] # NoToken
                 PROVE  tokens'[k].exp >= tokens[k].exp
      OBVIOUS
    <2>0. TypeInv /\ TypeOK
      BY <1>1 DEF SeqInv, TypeInv
    <2>1. tokens[k] \in Token /\ tokens[k].exp \in Int
      BY <2>0 DEF TypeOK, Token
    <2>2. CASE tokens'[k] = tokens[k]
      BY <2>1, <2>2
    <2>3. ASSUME NEW p \in Procs, SetOk(p), tokens'[k] # tokens[k]
          PROVE  tokens'[k].exp >= tokens[k].exp
      <3>1. k = KeyOf(p) /\ tokens'[k] = tok[p]
        BY <2>0, <2>3 DEF SetOk, StorePut, TypeOK
      <3>2. Renews(tok[p], k) /\ tok[p] \in Token
        BY <1>1, <2>0, <2>3, <3>1 DEF SetOk, RenewalInv, TypeInv, Locals
      <3> QED BY <2>1, <3>1, <3>2 DEF Renews, Token
    <2>4. ASSUME NEW p \in Procs, GetEvict(p) PROVE tokens'[k] = tokens[k]
      BY <2>0, <2>4 DEF GetEvict, TypeOK
    <2>5. ASSUME NEW p \in Procs, NEW l \in Keys, Invalidate(p, l) PROVE tokens'[k] = tokens[k]
      BY <2>0, <2>5 DEF Invalidate, StoreDelete, TypeOK
    <2> QED
      BY <1>1, <2>2, <2>3, <2>4, <2>5
         DEF Next, Use, Step, CallAuthenticate, GetFails, GetRead, GetCheck, ReturnCached,
             CheckMargin, SignFails, SendLogin, WsaaGrant, LoginFails, LoginOk, SetFails,
             InvalidateFails, Tick, vars
  <1>2. SeqInv /\ [Next]_vars => SeqInv'
    BY NextSeq, Sequential
  <1>3. SeqInv /\ SeqInv' /\ RenewalInv /\ [Next]_vars => RenewalInv'
    BY NextRenewal, Sequential, MarginWithinLife
  <1>4. SeqInv /\ RenewalInv /\ [Next]_vars => [\A k \in Keys : Later(k)]_vars
    BY <1>1
  <1> QED BY InitSeq, InitRenewal, <1>2, <1>3, <1>4, PTL DEF Spec, CacheNeverRegresses
=============================================================================

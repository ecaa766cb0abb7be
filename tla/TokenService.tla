---------------------------- MODULE TokenService ----------------------------
(***************************************************************************)
(* What CachedClient promises to the goroutines that call Authenticate,    *)
(* with nothing of how it keeps the promise: no store, no login ticket     *)
(* request, no program points.                                             *)
(*                                                                         *)
(* A call under way has at most one token granted to it.  It ends with an  *)
(* error, or with a token granted for what it asked: the one granted to it *)
(* or, if it is another, one that had at least the renewal margin left at  *)
(* some instant of the call.  Nothing is promised of the instant of the    *)
(* return: time passes between the last look at the clock and it.          *)
(* CachedAuth is shown to implement this specification.                    *)
(***************************************************************************)
EXTENDS Integers

CONSTANTS
  Procs,      \* the goroutines
  Requests,   \* what they may ask for
  Bearer(_),  \* what a token has to speak for, to answer a request
  Margin,     \* CachedClient.renewalMargin
  NoToken     \* nil

VARIABLES
  now,     \* the clock
  issued,  \* the tokens WSAA has granted
  busy,    \* which goroutines are in a call
  call,    \* what they asked for
  own,     \* the token granted to the call under way
  asked,   \* when the call under way began
  ret      \* what the last call returned

vars == <<now, issued, busy, call, own, asked, ret>>

Result(kind, t) == [kind |-> kind, token |-> t]

Init ==
  /\ now = 0
  /\ issued = {}
  /\ busy = [p \in Procs |-> FALSE]
  /\ call \in [Procs -> Requests]
  /\ own = [p \in Procs |-> NoToken]
  /\ asked = [p \in Procs |-> 0]
  /\ ret = [p \in Procs |-> Result("none", NoToken)]

Ask(p, r) ==
  /\ ~busy[p]
  /\ busy' = [busy EXCEPT ![p] = TRUE]
  /\ call' = [call EXCEPT ![p] = r]
  /\ asked' = [asked EXCEPT ![p] = now]
  /\ ret' = [ret EXCEPT ![p] = Result("none", NoToken)]
  /\ UNCHANGED <<now, issued, own>>

\* WSAA grants a new token, for what this call asked and to this call only.
Grant(p) ==
  /\ busy[p]
  /\ own[p] = NoToken
  /\ \E t \in issued' \ issued :
       /\ t.for = Bearer(call[p])
       /\ issued' = issued \cup {t}
       /\ own' = [own EXCEPT ![p] = t]
  /\ UNCHANGED <<now, busy, call, asked, ret>>

Return(p, r) ==
  /\ busy[p]
  /\ busy' = [busy EXCEPT ![p] = FALSE]
  /\ own' = [own EXCEPT ![p] = NoToken]
  /\ asked' = [asked EXCEPT ![p] = 0]
  /\ ret' = [ret EXCEPT ![p] = r]
  /\ UNCHANGED <<now, issued, call>>

\* The clock never goes back: a token with the margin left at some instant of
\* the call had it left when the call began.
Give(p, t) ==
  /\ t.for = Bearer(call[p])
  /\ t = own[p] \/ asked[p] <= t.exp - Margin
  /\ Return(p, Result("ok", t))

Refuse(p) == Return(p, Result("error", NoToken))

\* Invalidate promises no more than to return.
Forget(p) ==
  /\ ~busy[p]
  /\ \E kind \in {"deleted", "error"} : ret' = [ret EXCEPT ![p] = Result(kind, NoToken)]
  /\ UNCHANGED <<now, issued, busy, call, own, asked>>

Tick ==
  /\ now' = now + 1
  /\ UNCHANGED <<issued, busy, call, own, asked, ret>>

Next ==
  \/ \E p \in Procs :
       \/ \E r \in Requests : Ask(p, r)
       \/ Grant(p)
       \/ \E t \in issued : Give(p, t)
       \/ Refuse(p)
       \/ Forget(p)
  \/ Tick

Spec == Init /\ [][Next]_vars
=============================================================================

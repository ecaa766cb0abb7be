# TLA+ specifications of go-afip-kit

go-afip-kit is a Go library for the web services of AFIP, the Argentine tax
authority: it authenticates (WSAA), emits electronic invoices (WSFEv1), looks
up taxpayers (ws_sr_constancia_inscripcion), validates and encrypts
certificates, and implements the fiscal rules an invoice has to satisfy. This
directory holds TLA+ models of it, the TLC configurations that check them, and
proofs checked by TLAPS.

## 1. Inventory

| Component | Source | State it keeps | Operations | Model |
|---|---|---|---|---|
| Token cache | `wsaa/cached_client.go`, `wsaa/types.go` | a `TokenStore`, `renewalMargin` | `Authenticate`, `Invalidate` | `CachedAuth`, which implements `TokenService` |
| Token store | `wsaa/token_store.go` | `tokens` under an `RWMutex` | `Get` (evicts expired entries), `Set`, `Delete` | `CachedAuth` |
| WSAA client | `wsaa/client.go`, `wsaa/cms.go` | none | `Authenticate`: build a TRA, sign it, `LoginCms`, parse the TA | the exchange in `CachedAuth`, its errors in `Consultas` |
| SOAP transport | `soap/*.go` | an `http.Client` with a timeout | `NewClient`, `Call` | `Consultas`; its outcomes elsewhere |
| Emission | `wsfev1/client.go`, `wsfev1/types_*.go` | none; AFIP keeps the registry | `UltimoAutorizado`, `SolicitarCAE`, `ConsultarComprobante`, `SolicitarCAEConReproceso` | `CaeEmission`, which implements `CaeRegister` |
| Queries | `wsfev1/client.go` | none | `HealthCheck`, parameter lists, `Cotizacion`... | `Consultas` |
| Taxpayer registry | `wspadron/*.go` | none | `GetPersona`, `HealthCheck`, what a `Persona` says of its taxes | `Consultas`, without the fields that are only copied |
| Errors | `errors.go` | none | `HasCode`, `IsAlreadyRegistered`, `IsRetryable`, `IsAFIPError`, the wrappers | `AfipErrors`, `Consultas` |
| Fiscal rules | `fiscal/*.go` | none | types of comprobante, notes, document rule, concepts and dates, totals, IVA | `Comprobante` |
| AFIP tables | `afip.go` | none | codes, letters, credit notes, `ValidarCUIT` | `Comprobante`, `Credenciales` |
| Certificates | `cert/parser.go`, `cert/validator.go` | none | `Validate`, `ValidateCertOnly`, `ParseCertAndKey` | `Credenciales` |
| Key vault | `cert/vault.go` | a master key | `NewKeyVault`, `EncryptToBase64`, `DecryptFromBase64` | `Credenciales` |

How they interact: a program calls `CachedClient.Authenticate`, which reads and
writes the `TokenStore` and calls `Client.Authenticate`, which posts to WSAA
through `soap.Client.Call`. With the token it calls `wsfev1.Client` or
`wspadron.Client`, which post through the same `soap.Client`. The certificate
and key it logs in with were validated once, kept encrypted, and loaded again
after each restart. The library starts no goroutine and has no callback; the
program's goroutines share one `CachedClient`, one `MemoryStore`, perhaps one
`http.Client` and, at AFIP, the numbers of each point of sale.

What is hard here, and what each component has to get right:

- **Token cache.** Calls interleave at every lock and message, the clock moves
  inside a call, and the store can fail. It must return tokens that were granted
  for what the call asked, keep the renewal margin, evict nothing that is alive,
  not log in without need, and forget what was invalidated.
- **Emission.** A request or its answer may be lost, and a request the client
  gave up may still arrive. AFIP answers 10016 when a number is taken, and may
  accept a lote in part. No invoice may get two numbers, no invoice may be given
  another's CAE, an error called permanent must mean nothing was authorized (it
  does not always), and an acceptable invoice must in the end be authorized and reported.
- **Queries.** A fault comes with any HTTP status, a body may be anything, and
  a server may stall in the middle of it. Errors must have the type they
  promise, no answer may be lost, and every call must return.
- **Credentials.** What is typed has slips; the two checks of a CUIT have gaps
  each; nothing pairs certificate and key again after a restart, and nothing ties
  the encrypted key to its row.
- **Fiscal rules.** Amounts are floats compared in centavos, lists of codes have
  to agree with one another, integer division truncates, and eight digits are
  not yet a day.

PROJECT.json lists the hazards one by one, at their lines, with the properties
that watch them.

## 2. Modules

    TokenService <- CachedAuth   <- MCCachedAuth, CachedAuthProofs <- SequentialAuthProofs
    CaeRegister  <- CaeEmission  <- MCCaeEmission, CaeEmissionProofs <- CaeOwnershipProofs
    AfipErrors   <- CaeEmission, Consultas <- MCConsultas, ConsultasProofs
                    Credenciales <- MCCredenciales, CredencialesProofs
                    Comprobante  <- MCComprobante, ComprobanteProofs

`TokenService` and `CaeRegister` are abstract: no code corresponds to them, and
the models below them are shown to implement them. Operators called `Mut...`
stand beside the definitions of code: each is a plausible mistake in its
neighbour. No specification uses them; put in place of the neighbour, each
makes a property of a passing run fail, which shows that the property depends
on the code.

### CachedAuth: authentication behind the token cache

One step is one critical section of `MemoryStore`, one clock reading, or one
event of the HTTP exchange. `pc[p]` says where goroutine `p` is:

| `pc` | in the code | next |
|---|---|---|
| `idle` | outside the library | `CallAuthenticate`, `Invalidate`, `InvalidateFails` |
| `get` | `cc.store.Get`, before the read lock | `GetRead`, `GetFails` |
| `check` | `t.IsExpired(0)` in `Get`, after `RUnlock` | `GetCheck` |
| `evict` | `delete(m.tokens, key)`, under the write lock | `GetEvict` |
| `margin` | `token.IsExpired(cc.renewalMargin)` | `CheckMargin` |
| `serve` | `return token, nil`, after the test | `ReturnCached` |
| `login` | `Client.Authenticate` up to `soap.Call` | `SendLogin`, `SignFails` |
| `wait` | in `soap.Call` | `WsaaGrant` (external), `LoginOk`, `LoginFails` |
| `set` | `cc.store.Set` | `SetOk`, `SetFails` |

The order of checks, and which failures abort a call (`Get`) and which are
dropped (`Set`), are the code's. A TRA is reduced to its `uniqueId` and to what
it speaks for: the certificate that signed it, the service, the endpoint
(`Bearer`); a token to what it was granted for, its expiration and an identity.
`StoreFaults` names the store methods that may fail: `MemoryStore`'s never do,
those of the implementations the `TokenStore` interface invites (Redis, files)
may. The variables `handed`, `revoked` (both by key) and `snap` (what they were,
and the time, when the call began) are history: no action's guard reads them.

`TokenService` is what is left of the cache's promises when calls overlap: a
call has at most one token granted to it, and ends with an error, with that
token, or with one granted for the same bearer that had the renewal margin left
at some instant of the call. Nothing can be promised of the instant of return:
the clock moves between the test and the return, and a goroutine may be suspended
there. `CachedAuth` implements it under the mapping in `Service`: a call is `busy`
when `pc` is not `idle`, its own token is first the answer on the wire (`reply`),
then the local `token`, and it `asked` at `snap[p].at`.

### CaeEmission: emission of invoices

Each emitter is a program that follows `docs/usage.md` (ask
`UltimoAutorizado`, take the next number, call `SolicitarCAEConReproceso`) and
`docs/architecture.md` (retry unless `IsRetryable` says no). It repeats a failed
emission with the request it has, which is what the library's idempotence is
for. A request holds a lote: invoices of one series, with consecutive numbers.
A call is a request on the wire (`pc[e]` names it), AFIP's processing, and
its answer; the client may fail in transport at any point. A request that was
given up before AFIP answered it goes to `late` and may reach AFIP at any later
time, or never.

`SolicitarResult` and `ConsultaResult` are what the client makes of a decoded
response, in the code's order: header errors, an empty `FeDetResp`, and the
first detail, rejected with or without observations, or approved. `Reproceso`,
`FeCompConsReq` and `ConsultarReturns` are the 10016 branch; what the
consultation fails with, any of `ConsultaCodes`, permanent ones included, is
returned wrapped (`Wrapped` marks it in `ret.reproceso`).

AFIP is external and modelled by what the client tells apart: it registers a
request that asks for the next number, up to the first invoice it does not
accept, and answers with a detail for each; it answers 10016 for a number
that is taken (in the header or in the observations, alone or after another
code, or for the very same invoices the first answer again with `Reproceso` S);
it rejects invalid invoices, with an observation or without; and it fails in
passing. An emission itself is answered with a permanent code only when it is
rejected (`CodesAssumption`). `ConsultaTransient`, that a consultation is not, is
a hypothesis of the properties that need it, and the code does not check it.

`CaeRegister` is the promise without requests or answers: series grow by
invoices not yet registered nor given up, and programs are told what is so.
It has the two variables of the same names of `CaeEmission`. `MaxNro`, the bound
on the numbers of a series, is a guard of `Acceptable`: it never cuts a lote.

### Consultas: one exchange with AFIP

A call is marshalled and sent (`Call`), the server's headers arrive
(`AfipAnswers`), its body arrives (`BodyArrives`), and the result is made
(`Returns`); it may break or, when `http.Client.Do` set a deadline, expire
before the body is there. `Decode` is the end of `soap.Client.Call`: fault,
status, envelope, body, in this order. `FromWsfe`, `FromDummy`, `FromPersona`
and `FromLogin` are what the operations make of an answer, and an answer may
lack any optional element. An error is the list of types `errors.As` meets in
it. `NewClient` folds the options into the one `Timeout` field both write, and
`BuildAnother` is another `soap.NewClient` over a shared `http.Client`, which
changes that field to any timeout, or with `WithTimeout(0)` to none. The deadline
of a call is the one in force when it began.

### Credenciales: certificate and key

A form is submitted (`ValidarCUIT` and `Validate`), and what passes both is
saved with the key encrypted; the program may be restarted with another master
key; `Load` decrypts and parses, `Recheck` is `ValidateCertOnly`. A text is a
sequence of numbers, one for each digit and one for each other thing
`extractCUIT` tells apart. `ValidarCUIT` takes an int64: the model reads the number
off the typed digits, so zeros in front do not count (`ElevenDigits`, `digits`).

AES-GCM is modelled by what the code takes from it. A sealed text has the key
that made it, what its bytes decipher to, and its state; a damaged one
(`Damage`) may by its bytes decipher to any key, and only the check of the tag
(`Opens`) keeps it from doing so. `Seal` gets no associated data, so the text of
another row, or of an earlier version of this one, opens as well (`MixUp`, from
the rows in `saved`); `own` remembers, for the properties only, whether the text
is the one saved with the certificate beside it. X.509 and PEM are modelled by
what was found in them.

### Comprobante: the fiscal rules along the life of an invoice

A comprobante has its concept and dates checked, is classified, gets IVA lines,
is totalled, may pick up noise and a mistake, is validated, and an accepted one
may be followed by its note. The tables and rules of `afip.go` and `fiscal/` are
operators; each is used by the action that calls it. Amounts are integers in
thousandths of a peso, so that what `toCentavos` rounds away (`Ruido`, less than
half a centavo in every amount, those of every line included) and what it must
not (`Equivocar`, a centavo or more, in the totals or in the last line) are both
visible. Go's integer division truncates towards zero (`Quo`). int64
does not overflow below 10^14 pesos and is modelled by `Int`. 0 stands for
`(0, error)`. A date is its year, month and day: `time.Date` normalises a day
past the end of its month, which is what the code compares with.

### AfipErrors

An `AFIPError` is its sequence of codes. Only `errors.As` matters of wrapping:
a wrapped `AFIPError` is still one.

## 3. Runs

| Run | Instance | Shows |
|---|---|---|
| `auth_sequential` | 1 goroutine, 2 services, margin 1, lifetimes 1 and 3, clock to 4, 3 tokens, every store method may fail | without overlap, the documented promises hold: no redundant login, only expired tokens evicted, no token replaced by one that expires earlier, invalidated tokens never served; every call returns |
| `auth_concurrent` | 2 goroutines, 2 services, margin 1, lifetime 1, clock to 2, 2 tokens, `Set` may fail | what survives concurrency: types, provenance, and `TokenService` |
| `auth_invalidate` | 2 goroutines, 1 key | counterexample to `InvalidateForcesReauth` |
| `auth_environments` | 1 goroutine, both environments of one key | counterexample to `TokenProvenance` |
| `cae_single` | 1 emitter, 2 series, 4 invoices, one invalid, a lote of two; a consultation fails only in passing | every CAE is the invoice's own; every acceptable invoice is reported; `CaeRegister` is implemented |
| `cae_shared` | 2 emitters on one series, 3 invoices, a lote whose second invoice is invalid; a consultation may fail with a permanent code | no invoice authorized twice; a permanent error of the emission itself means nothing is registered |
| `cae_foreign` | 2 emitters on one series, 2 invoices | counterexample to `OwnCae` |
| `cae_consulta` | 1 emitter, 2 invoices, a consultation may fail with 10000 | counterexample to `PermanentMeansUnregistered` |
| `cae_batch` | 1 emitter, a lote whose second invoice is invalid | counterexample to `LoteAuthorized` |
| `consultas` | every operation and answer, 5 ways to build the client | errors are typed, successes were answered, no persona is lost, taxes follow the regimes, an `*AFIPError` is nil in one case only, every call returns that began with a timeout |
| `credenciales` | 40 ways to type a CUIT wrong or right, certificates of others or naming none, a renewed pair, keys of every kind, 3 master keys, damaged and mixed-up texts, clock to 1 | what is accepted is the taxpayer's, slips are caught, what is ready to sign is an accepted key with the taxpayer's certificate |
| `fiscal` | bases 0.19 and 1.27, untaxed parts 0 and 0.07, up to 2 lines, 4 noises, 17 mistakes; dates over 4 years, months 0 to 13, days 0 to 32 | accepted dates are days of the calendar; validation separates noise from mistakes; truncation stays below a centavo per line; no note is missing but one; notes match invoices |

Why the bounds are enough for the cases to happen:

- With a margin of 1, a token of lifetime 3 is served at ages 0 to 2, renewed at
  3 and evicted from 4 on, and one of lifetime 1 is in the margin soon after it
  is granted, so `auth_sequential` reaches every branch of `Get` and both sides
  of both boundaries, and a key sees three successive tokens. Two goroutines and
  two tokens are what the races need; in `auth_concurrent` a token is granted with
  exactly the margin left, so one tick between the calls of one goroutine, or
  within a call of the other, is enough to be on either side of it.
- In `CaeEmission`, three invoices on one series make one emitter's late request
  meet another's emission and its own next one; `MaxNro` leaves a number for each
  invoice. 10016 comes alone and behind a permanent code, a rejection's permanent
  code comes behind one that is not. `cae_shared` and `cae_consulta` let the
  consultation fail with a permanent code too, `cae_single` does not. The lote of
  two is accepted whole (`cae_single`) and in part (`cae_shared`).
- A call of `Consultas` depends on the previous ones only through the timeout of
  a shared `http.Client`, so one client and one call at a time are enough; the
  regimes, the three error lists (absent, empty text, text) and the error codes
  are enumerated in full over one tax and one code.
- In `Credenciales` a slip is made at every position: a digit wrong, swapped with
  the next, missing, and one too many at either end. The wrong digits are chosen
  so that some slips land on remainder 0 and on remainder 1, the two branches of
  the check digit. The zero in front of a real CUIT is one of them. The first
  certificate has expired when the renewed one becomes valid. Two rows saved are
  what a mix-up needs.
- Bases 0.19 and 1.27 leave a remainder at every rate but 0, on both sides of half
  a centavo. The noises push all amounts one way, or the lines one way and what
  they add up to the other. The years of `fiscal` are one of each kind the Gregorian rule tells
  apart.

The configurations of `cae_*` and `fiscal` do not check deadlock: an emitter with
nothing left to emit, a rejected comprobante and a note without successor really
stop. All others do.

### What the counterexamples say

1. **`auth_invalidate`** (`cached_client.go:71`). A login in flight when
   `Invalidate` runs stores its token afterwards, and the next call is served it.
   `Invalidate` promises to force "re-authentication on next call".
2. **`auth_environments`** (`cached_client.go:47`). `production` is an argument
   of every call but not part of the key: the sandbox token answers a production
   call. The hypothesis the cache needs is `Coherent`, and no code checks it.
3. **`cae_foreign`** (`wsfev1/client.go:231`). After 10016 the CAE of whatever
   comprobante holds the number is returned. Two emitters that read the same last
   number, with no failure at all, end with one CAE for two invoices, and the
   second invoice was never authorized. `OwnCae` holds with one emitter per
   series (`cae_single`, and proved).
4. **`cae_batch`** (`wsfev1/client.go:171`). Only the first detail of a response
   is looked at: a lote accepted in part is a success, although
   `types_request.go` offers requests "for emitting one or more comprobantes".
5. **`cae_consulta`** (`wsfev1/client.go:238`). The error of the consultation
   after 10016 is wrapped with `%w`, so its codes are the ones `IsRetryable` looks
   at: with 10000 the caller is told not to retry an invoice that AFIP holds.
   `errors.go:87-88` counts "already-registered comprobantes" among what is worth
   retrying. What does hold is `RefusalMeansUnregistered`, about the errors of the
   emission itself.

### Disagreements that passing properties show

Three more places where the code does not do what its comment says are stated
exactly, as properties that hold:

- `IvaShortfallBounded` (`fiscal/validation.go:106`): `CalcularIVA` never exceeds
  the exact tax, though the comment above it says "rounded to 2 decimals". On the
  bases of the run a rounded tax would exceed it; that is the property's mutant.
- `DebitNotesComplete` (`fiscal/rules.go:48`): `DeterminarTipoND` finds every note
  the package has a code for, except that of an FCE Factura A.
- `AFIPErrorUsable` (`wspadron/client.go:102`): when AFIP explains why it has no
  data for a taxpayer, and only then, the `*AFIPError` that `IsAFIPError` finds is
  nil. Its caller panics at the next method.

### What is lost under concurrency, and other edges

`NoRedundantLogin`, `EvictsOnlyExpired` and `CacheNeverRegresses` are properties
of `auth_sequential` and fail as soon as two goroutines share a key: both miss and
log in, the slower one stores the older token, and `Get` deletes a fresh entry
because it does not read it again under the write lock. `TokenService` is what is
left. Further:

- `uniqueId` has a resolution of a second (`wsaa/client.go:92`), although
  `docs/review-fixes.md:55-59` says nanoseconds.
- `Validate` alone skips the comparison when the expected text holds no CUIT, a
  CUIT without its check digit for one (`cert/validator.go:131`), although its
  comment (`:39`) promises an "exact match after normalization" and
  `docs/review-fixes.md:17` calls a partial CUIT that passes a bug of an earlier
  version. With `ValidarCUIT` beside it, it does not matter
  (`AcceptedIsTheTaxpayers`). What does matter is a serial number with more than
  11 digits, of which the first 11 are compared: `AfipSerials` assumes there are
  none, and the run has none.
- `Validate` accepts an EC pair that `ParsePrivateKeyPEM` then never loads.

## 4. Fairness

- `CachedAuth!FairSpec`: weak fairness of each goroutine's steps. Goroutines are
  scheduled, and the wait in `soap.Call` ends because `http.Client` has a timeout
  (30 s unless the program sets another; a program that passes a client without
  one must bound the context). Nothing is asked of WSAA: `EveryCallReturns`
  holds although it may never answer. Nothing makes goroutines call.
- `CaeEmission!FairSpec`: the library never retries by itself, so
  `EventuallyReported` is about the library inside a program that does. Weak
  fairness of each client, and strong fairness of the outcomes that make progress:
  AFIP's proper answers and their arrival. It says that neither the network nor
  AFIP fails every time; any finite number of failures, anywhere, is allowed.
  Nothing is asked of late requests: they may never arrive. That the consultation
  never fails with a permanent code (`ConsultaTransient`) is needed here: after one
  the program gives the invoice up.
- `Consultas!FairSpec`: weak fairness of `Expires` (the runtime fires the
  deadline's timer) and of `Returns`. The server and the body may never come, so
  `EveryQueryReturns` rests on the deadline: a client whose `http.Client` is its
  own and was built with a timeout always has one; over a shared `http.Client` the
  promise is about the calls that began while it had one, since another client's
  `WithTimeout(0)` takes it from all later calls.

## 5. Proofs

For every value of the constants that satisfies the modules' assumptions, which
TLC evaluates on its instances.

`CachedAuthProofs`, for any goroutines, requests, margin, lifetimes and store
faults:

- **`TypeCorrect`**: `Spec => []TypeOK`. `TypeOK` is not inductive: that
  `SetOk` returns a token needs `tok[p]` to be one at `set`. `Locals` adds which
  locals are set at which point of a call, and that a call under way has returned
  nothing. `TypeInv == TypeOK /\ Locals` is inductive.
- **`ProvenanceOfTokens`**: `ASSUME Coherent PROVE Spec => []TokenProvenance`.
  A returned token comes from the store or from an answer, so the provenance of
  every place a token passes through is needed: `StoreProvenance` (an entry
  serves every request of its key), `LocalProvenance` (locals, requests and
  answers on the wire). `Coherent` is used once, in `SetOk`: the token stored
  for one request must do for every request with that key. `auth_environments`
  shows that without it the theorem is false.
- **`CacheImplementsService`**: `ASSUME Coherent PROVE Spec => ImplementsTokenService`.
  Each step of `CachedAuth` is a step of `TokenService` or a stutter; that the
  token returned was granted for the caller's bearer is the provenance invariant,
  and that it had the margin left at some instant of the call is `Began`: a call
  began in the past, and at `serve` its token passed the test since then.

`SequentialAuthProofs`, for a program that calls the cache from one goroutine,
or under a lock of its own (`Sequential`). For two goroutines all four are false.

- **`OneLoginPerToken`**, **`OnlyExpiredAreEvicted`**, **`InvalidateIsFinal`**:
  what a call has read of the store is still there when it uses it. `SeqInv` says
  this at each point of a call (`CallInv`: at `check` and `evict` the entry read
  is the one stored, at `login` nothing stored outlives the margin), and of each
  key (`KeyInv`) that its entry was granted for it after its last invalidation
  and that a token handed out leaves the store only expired. Every store method
  may fail, every login may fail, and the tokens may last any time.
- **`CacheOnlyRenews`**: also needs `MarginWithinLife`, that WSAA's tokens last
  at least the renewal margin (30 minutes by default). Without it TLC finds a
  renewal that is granted less time than the token it replaces has left. `RenewalInv` says that whatever the call is about to store expires
  no earlier than what is there.

`CaeEmissionProofs`, for any emitters, series, invoices and lotes:

- **`TypeCorrect`**: `TypeInv` adds to `TypeOK` what each answer on the wire may
  be at each point of a call (`Local`), that a rejection is about an invalid
  first invoice (`Justified`), and the shape of requests.
- **`NeverTwice`**: `Spec => []AuthorizedOnce`. The invariant `NumInv` says that
  an invoice is in one request with one number (`OneRequest`), over the requests
  travelling and those held by their emitters; that the request of an invoice
  still pending is its emitter's current one, whether it travels (`LateOpen`) or
  has been registered (`RegisteredOpen`); and that what is registered is where
  its request asked for it (`InPlace`). A program only builds a request from
  pending invoices, so a new one meets no old one.
- **`RefusalIsFinal`**: `Spec => []RefusalMeansUnregistered`. `Explained`, part of
  the invariant, says that a permanent error is either about a request whose first
  invoice is invalid, which by `InPlace` is not registered in any part, or comes
  from the consultation after 10016. `cae_consulta` shows that the second kind
  has to be excepted.

`CaeOwnershipProofs`:

- **`CaeIsOwn`**: `ASSUME Exclusive PROVE Spec => []OwnCae`. `Exclusive` says
  that the invoices of a series have one emitter; `cae_foreign` shows that it is
  needed. A late request that is not its emitter's current one is dead: its
  first invoice is invalid or its number is taken (`LateDead`). So the answer to
  `UltimoAutorizado` is still current when it is used (`LastIsCurrent`), and what
  AFIP holds under an emitter's number is the emitter's own (`NumberIsOwn`),
  which carries over to answers and results. A call in its consultation asks about
  a number that is taken (`TakenInv`), so what it recovers was registered.
- **`EmissionImplementsRegister`**:
  `ASSUME Exclusive, WholeLotes, ConsultaTransient PROVE Spec => ImplementsCaeRegister`.
  `cae_consulta` shows why the consultation must not fail for good. `WholeLotes`
  says that AFIP takes a lote whole or rejects its first invoice; `cae_batch`
  shows why: of a lote taken in part, the program is told that the rest is
  authorized. The registering of a request, on time or late, is an `Authorize` of
  its whole lote, whose invoices are pending (`Undecided`) and nowhere in the
  registry (`InPlace`); a decision is a `Report` or a `Reject`; all other steps
  stutter. A success is about a number that is the request's own
  (`ResultIsOwn`), and `WholeInv` adds that what holds that number came with the
  rest of its lote.

`CredencialesProofs`, for any forms, master keys and times:

- **`TypeCorrect`**: with `CredInv`, below, which gives the row what `Save` and
  `Load` need of it.
- **`CheckDigitDetects`**, **`TyposAreCaught`**: the weights of `ValidarCUIT` and
  the differences of neighbouring ones are not divisible by 11, so one wrong
  digit or one swap changes the remainder; with remainder 1 every check digit is
  accepted. A digit too many is out of the int64's range unless it is a zero in
  front (`OneMoreIsZero`), and then the number is the real one. `FormsAssumption`
  says the real CUIT is one AFIP issues, which the comment at `afip.go:201` says
  never has that remainder.
- **`AcceptedIsOwn`**: `ASSUME AfipSerials`: AFIP writes no other digits in a
  serial number than the CUIT's, and no CUIT begins with 0. The number
  `ValidarCUIT` accepted is what is left of the text without zeros in front
  (`NumberIsCUIT`), `extractCUIT` finds 11 digits in that text (`FoundInNumber`),
  and they are the certificate's only if no zero was in front (`MatchIsExact`).
- **`ReadyIsOwn`**: `ASSUME AfipSerials`. `CredInv` says of the form behind a
  verdict that it passed the checks, of the row that its columns were accepted and
  that the text of its key, while intact, is one that was saved under the master
  key it names, and of what was loaded that it came from there. The tag check in
  `Opens` is what the step `Load` rests on.

`ConsultasProofs`, for any table of options, error codes and taxes. Its
assumptions: options are a kind and a natural timeout, and `Nil`, the absent
value, is none of the values an answer carries.

- **`TypeCorrect`**, **`FailuresAreTyped`**, **`SuccessesAreAnswered`**,
  **`TaxesAreAfips`**: `ExchangeInv` says which response a call may hold at each
  point (none before the headers, one for its own operation from there on), that
  a call under way has returned nothing, and which lists of error types exist.
  With it each property needs only the step that makes the result: `Decoded` and
  `Wrapped` for what never became an answer, `Answered` for what did,
  `ActiveTaxes` for the union of the two regimes.
- **`PersonasAreKept`**: the warnings of a persona are the texts AFIP wrote, in
  number and in whether there are any, whichever of the three lists are absent,
  hold only an empty text, or an empty one and another; `AppendTexts`, a fold, is
  unfolded for them.
- **`AFIPErrorsAreUsable`**: by `AnsweredUsable`, over the operations: an error
  list that is not empty gives an `*AFIPError` with codes, and only `GetPersona`
  makes one of an empty list.

`ComprobanteProofs`:

- **`FechaIsDay`**, **`DatesChecked`**: a date that the rule for concepts accepts
  is a day of the Gregorian calendar. The code compares what `time.Date` makes of
  a date with the date itself, that is, one day number with another; the length
  of a month in day numbers follows from the multiples of 4, 100 and 400.
- **`NoiseAbsorbed`**, **`LineShortfall`**: of any amount, noise below half a
  centavo changes nothing `toCentavos` returns; on any base and at any rate, what
  `CalcularIVA` truncates is less than a centavo.
- **`NoiseIsTolerated`**, **`MistakesAreCaught`**: neither is inductive.
  `AmountInv` adds that, from the total on, every amount of the totals and of the
  lines is some centavos and at most the noise (`Cerca`, or `Justo` before there
  is any), and that the centavos are consistent exactly when no mistake was made
  (`Cuadra`): `Totalizar` makes them so, `Ruido` does not touch them, and
  `Equivocar` changes one side of one of the validated equations.
- **`ShortfallIsBounded`**: for any number of lines.
- **`NotesAreTheInvoices`**, **`CreditNotesAreComplete`**, **`DebitNotesAreComplete`**:
  by the tables of types, letters, credit and debit notes.

The amounts are sums over all lines. The prover has no induction over sequences,
so each fact about a sum (of how noise, a mistake or a shortfall in the lines
shows in it) is proved by taking the first partial sum that would violate it:
the library's well-foundedness of the naturals gives it.

Only model-checked: liveness (`EveryCallReturns`, `EventuallyReported`,
`EveryQueryReturns`), because the prover has no
reasoning about fairness and ENABLED here; and what is false for every value of
the constants, which the counterexamples of section 3 show. Every invariant and
every action property of a passing run is a theorem, under the hypotheses named
above.

## 6. Not modelled

- XML, CMS, X.509, AES and HTTP as such, and the texts of errors.
- Fields of a `Persona` that are only copied, `Actividades` and `Denominacion`;
  descriptions and slugs of the tables; the parsing and formatting of dates.
- The credentials inside an emission: the shared request that `SolicitarCAE`
  writes `Auth` into, and tokens that expire between `Authenticate` and the call
  that carries them.
- 10016 for a request with no details (listed as a hazard), and an emission that
  AFIP turns down with a permanent code for a reason of the moment, not of the
  invoice: its passing failures (`GlitchCodes`) have no permanent code.
- A caller that ignores the documentation, for instance one that renumbers after
  a transport error, is not an emitter of `CaeEmission`.
- `MemoryStore`'s `RWMutex` is the atomicity of a step.

## 7. Plan

Done: `CachedAuth`, `TokenService`, `AfipErrors`, `CaeEmission` with lotes,
`CaeRegister`, `Comprobante` with dates, `Consultas`, `Credenciales`, and the
proofs of section 5. Left, most important first:

1. `Emission`, composing the cache and the emission: tokens that expire on the
   way, and the shared request's credentials.
2. `MemoryStore` with its `RWMutex`, shown to implement the atomic steps used
   here, and that refinement proved.
3. What two emitters on one series can rely on, beyond `NeverTwice`: the abstract
   register that lotes taken in part implement.
4. `Actividades` and `Denominacion` of a `Persona`.

## 8. Running

    tlc -config auth_concurrent.cfg MCCachedAuth.tla
    tlapm CaeOwnershipProofs.tla

`PROJECT.json` lists every run with its module and properties, the source lines
of every definition, the findings, the hazards and the theorems.

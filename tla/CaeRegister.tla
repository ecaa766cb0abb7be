----------------------------- MODULE CaeRegister -----------------------------
(***************************************************************************)
(* What emission promises, without requests, answers or retries: a series  *)
(* of AFIP's registry only grows, by invoices it did not hold and whose    *)
(* programs have not been told of a rejection; a program is told that its  *)
(* invoice is authorized only when it is, and that it is rejected only     *)
(* when it is not and never will be.  CaeEmission implements it when a     *)
(* series has one emitter and no consultation fails for good.              *)
(***************************************************************************)
EXTENDS SequencesExt

CONSTANTS Series, Invoices

VARIABLES
  registry,   \* AFIP's: the invoices authorized in each series, by number
  outcome     \* what each invoice's program knows of it

vars == <<registry, outcome>>

Init ==
  /\ registry = [s \in Series |-> <<>>]
  /\ outcome = [i \in Invoices |-> "pending"]

Registered == UNION {Range(registry[s]) : s \in Series}
Open == {i \in Invoices \ Registered : outcome[i] # "rejected"}

\* AFIP gives the next numbers of s to some open invoices, each its own.
Authorize(s) ==
  /\ \E new \in SetToAllKPermutations(Open) \ {<<>>} :
       registry' = [registry EXCEPT ![s] = @ \o new]
  /\ UNCHANGED outcome

\* The program of some pending invoices hears what became of them.
Tell(told, o) ==
  /\ \A i \in told : outcome[i] = "pending"
  /\ outcome' = [i \in Invoices |-> IF i \in told THEN o ELSE outcome[i]]
  /\ UNCHANGED registry

Report(told) == told \subseteq Registered /\ Tell(told, "reported")
Reject(told) == told \cap Registered = {} /\ Tell(told, "rejected")

Next ==
  \/ \E s \in Series : Authorize(s)
  \/ \E told \in SUBSET Invoices : Report(told) \/ Reject(told)

Spec == Init /\ [][Next]_vars
=============================================================================

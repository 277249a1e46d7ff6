--------------------------- MODULE FitsInvariant ---------------------------
(***************************************************************************)
(* The strengthening that makes the properties of Fits inductive: which    *)
(* fits may run, how far each has come on disk, and what memory and        *)
(* answers have to do with what was completed.                             *)
(***************************************************************************)
EXTENDS Fits

Working == {"body", "join", "look", "list", "store", "served"}

\* Where a run is, and whose handles are left.
RunInv ==
  /\ pc # "idle" => active \in Programs
  /\ pc \in Working => task \in Tasks
  /\ pc \in Working \cup {"boundary"} => gen \in Generations
  /\ pc = "idle" => leased = {}
  /\ IF pc = "boundary" THEN todo = leased ELSE todo = {}

\* A fit at work is registered and belongs to the run and the generation that
\* are going on, and so does every fit that was started after it.
FitInv ==
  \A f \in Ids :
    /\ Running(f) <=> fits[f].stage # "gone"
    /\ Running(f) =>
         /\ f \in leased /\ fits[f].program = active
         /\ \A g \in f..Len(fits) : fits[g].generation = gen

\* How far a fit has come is what is on disk.
DiskOf(f) ==
  /\ fits[f].stage \in {"fitting", "staged", "cleared"}
       \/ fits[f].handle = "cancelled" => f \notin artifacts
  /\ fits[f].stage \in {"renamed", "listed", "published", "cached"} =>
       f \in artifacts
  /\ fits[f].stage \in {"listed", "published", "cached"}
       \/ fits[f].handle = "completed" => f \in manifests

DiskInv == \A f \in Ids : DiskOf(f)

\* Pointers, memory and answers name whole states of their own.
FoundInv ==
  /\ manifests \subseteq artifacts
  /\ \A g \in Generations : alias[g] # 0 =>
       alias[g] \in manifests /\ fits[alias[g]].generation = g
  /\ \A p \in Programs : cache[p] # 0 =>
       cache[p] \in manifests /\ fits[cache[p]].program = p
  /\ pc = "store" => answer # 0
  /\ answer # 0 =>
       pc \in {"store", "served"} /\ answer \in manifests /\ Compatible(answer)

\* What a selection counts on was completed.
KnownInv == \A f \in known : fits[f].handle = "completed"

Same(f, g) == fits[f].program = fits[g].program /\ fits[f].task = fits[g].task

\* The fits like f that were published were fitted for growing generations.
Grows(f) ==
  \A m \in manifests : \A g \in m + 1..Len(fits) :
    Same(m, f) /\ Same(g, f) => fits[m].generation <= fits[g].generation

\* Unless a recovery left it behind, the memory is as new as any fit that was
\* offered to it, before or after a process was lost.
CacheInv ==
  \A p \in Programs, c \in Ids :
    cache[p] = c /\ p \notin overtaken /\ Grows(c) =>
      \A f \in Ids : Offered(f) /\ Same(f, c) =>
        fits[f].generation <= fits[c].generation

\* An answer is as new as any fit the selection counts on.
AnswerInv ==
  pc \in {"store", "served"} =>
    \A f \in known : Compatible(f) /\ Grows(f) =>
      answer # 0 /\ fits[f].generation <= fits[answer].generation

Inv ==
  /\ TypeOK /\ RunInv /\ FitInv /\ DiskInv /\ FoundInv /\ KnownInv
  /\ CacheInv /\ AnswerInv

=============================================================================

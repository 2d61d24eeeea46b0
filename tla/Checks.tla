------------------------------- MODULE Checks -------------------------------
(* A chain of fallible steps, each with `?`: the first that fails returns  *)
(* its error and the ones after it are not made.                           *)
EXTENDS Integers, Sequences

Check(error, ok) == [error |-> error, ok |-> ok]

IsFirstFailure(checks, i) == ~ checks[i].ok /\ \A j \in 1..i - 1 : checks[j].ok

(* The error of the first check that fails, or "none".                     *)
FirstError(checks) ==
  IF \A i \in DOMAIN checks : checks[i].ok THEN "none"
  ELSE checks[CHOOSE i \in DOMAIN checks : IsFirstFailure(checks, i)].error
=============================================================================

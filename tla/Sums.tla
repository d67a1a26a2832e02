--------------------------------- MODULE Sums ---------------------------------
(* Sums over a finite set, with what each element weighs as a function.    *)
EXTENDS FiniteSetsExt

SumOver(weight, S) == MapThenSumSet(LAMBDA x : weight[x], S)
=============================================================================

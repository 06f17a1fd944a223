--------------------------------- MODULE Sums ---------------------------------
(***************************************************************************)
(* Running totals, as the loops `pos += len(f['raw'])' and the byte counts *)
(* of an arena's chunks keep them.                                         *)
(***************************************************************************)
EXTENDS Integers

\* u[1] + ... + u[n]
sumOf(u, n) ==
  LET sum[i \in 0 .. n] == IF i = 0 THEN 0 ELSE sum[i - 1] + u[i]
  IN sum[n]
==============================================================================

------------------------------ MODULE MCBrowser ------------------------------
(* BrowserSession for TLC: two users, of whom one is the first             *)
(* administrator, and a few requests of one browser.                       *)
EXTENDS BrowserSession, TLC

(* Two ends of sessions in all, of whichever user, and one login or logout *)
(* at a time; or the administrator alone, with three ends of sessions and  *)
(* two logins or logouts at a time.                                        *)
Few ==
  LET open == Cardinality(logins) + Cardinality(logouts)
  IN  \/ open <= 1 /\ \A u \in Users \ {Root} : epoch[Root] + epoch[u] <= 2
      \/ \A u \in Users \ {Root} : account[u] = "none"

Symmetry == Permutations(Trips) \cup Permutations(Tokens)
=============================================================================

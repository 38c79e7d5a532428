---------------------------- MODULE MCWebClient -----------------------------
(* Two users take turns at one tab, with two auth requests in flight.       *)
EXTENDS WebClient, TLC
CONSTANTS s1, s2, u1, u2, r1, r2
MCUserOf == [s \in Sessions |-> IF s = s1 THEN u1 ELSE u2]
RequestSymmetry == Permutations(Requests)
=============================================================================

--------------------------- MODULE MCAudioSamples ---------------------------
(* An offering with a confirmed and a legacy sample, and any MaxBegun of    *)
(* two uploads (which race for the last place), two removals (of any        *)
(* samples, also the same one) and a seller's list.                         *)
EXTENDS AudioSamples, TLC

CONSTANT MaxBegun   \* the bound on calls begun in one behaviour

FewCalls == Cardinality({c \in Calls : pc[c] # "idle"}) <= MaxBegun

CallSymmetry == Permutations(Uploads) \cup Permutations(Removals)
=============================================================================

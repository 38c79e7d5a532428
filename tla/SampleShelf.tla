----------------------------- MODULE SampleShelf -----------------------------
(* What the discovery samples of one ServiceOffering promise, without rows, *)
(* locators, sweeps, calls or crashes.  A sample is coming, stands on the   *)
(* shelf, is leaving it and is gone, in this order and for ever; a sample   *)
(* is put on the shelf with its bytes, which are dropped only behind        *)
(* listeners' backs: of a sample that has left the shelf, or of a stray,    *)
(* one that stands there although its uploader was told that it does not.   *)
EXTENDS Naturals, FiniteSets

CONSTANTS
    Samples,
    Early,      \* the samples that are on the shelf from the start
    Legacy,     \* the samples that do not qualify an offering
    Capacity    \* how many samples the shelf holds

VARIABLES
    status,     \* of the offering: "Draft", "Active" or "Paused"
    place,      \* where each sample is
    bytes       \* the samples whose bytes exist

shelfVars == <<status, place, bytes>>

OnShelf    == {s \in Samples : place[s] \in {"shown", "stray"}}
Eligible   == OnShelf \ Legacy

ShelfInit ==
    /\ status = "Draft"
    /\ place = [s \in Samples |-> IF s \in Early THEN "shown" ELSE "coming"]
    /\ bytes = Early

Move(s, there) == place' = [place EXCEPT ![s] = there]

Publish ==
    /\ status # "Active" /\ Cardinality(Eligible) \in 1..Capacity
    /\ status' = "Active"
    /\ UNCHANGED <<place, bytes>>

Suspend ==
    /\ status = "Active" /\ status' = "Paused"
    /\ UNCHANGED <<place, bytes>>

Deliver(s) ==
    /\ place[s] = "coming"
    /\ bytes' = bytes \cup {s}
    /\ UNCHANGED <<status, place>>

(* The bytes of a sample that never came may still arrive as it is given up.*)
GiveUp(s) ==
    /\ place[s] = "coming" /\ Move(s, "gone")
    /\ bytes' \in {bytes, bytes \cup {s}}
    /\ UNCHANGED status

Show(s) ==
    /\ place[s] = "coming" /\ s \in bytes
    /\ Cardinality(OnShelf) < Capacity
    /\ Move(s, "shown") \/ Move(s, "stray")
    /\ UNCHANGED <<status, bytes>>

Withdraw(s) ==
    /\ s \in OnShelf /\ Move(s, "leaving")
    /\ UNCHANGED <<status, bytes>>

(* The one withdrawal that suspends the offering.                           *)
WithdrawLast(s) ==
    /\ status = "Active" /\ Eligible = {s}
    /\ Move(s, "leaving") /\ status' = "Paused"
    /\ UNCHANGED bytes

Drop(s) ==
    /\ place[s] \in {"stray", "leaving", "gone"}
    /\ bytes' = bytes \ {s}
    /\ UNCHANGED <<status, place>>

Vanish(s) ==
    /\ place[s] = "leaving" /\ s \notin bytes
    /\ Move(s, "gone")
    /\ UNCHANGED <<status, bytes>>

ShelfNext ==
    \/ Publish \/ Suspend
    \/ \E s \in Samples :
          \/ Deliver(s) \/ GiveUp(s) \/ Show(s)
          \/ Withdraw(s) \/ WithdrawLast(s) \/ Drop(s) \/ Vanish(s)

ShelfSpec == ShelfInit /\ [][ShelfNext]_shelfVars
=============================================================================

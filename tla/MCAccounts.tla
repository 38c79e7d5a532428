----------------------------- MODULE MCAccounts -----------------------------
(* Two people of whom one has two identities, or one email in two races;    *)
(* every kind of relationship that earlier releases left behind.            *)
EXTENDS Accounts
CONSTANTS u1, u2, i1, i2, l1, l2, w1, w2, c1, c2, s1, s2, e1, e2

MCEmailOf    == [i \in Identities |-> e1]
MCIdentityOf == [l \in Links |-> IF l = l1 THEN i1 ELSE i2]
MCWishes     == {[chosen |-> {"Buyer"}, expected |-> {}],
                 [chosen |-> {"Seller"}, expected |-> {}]}

NoRole == [u \in Users |-> [w \in Workspaces |-> "None"]]
NoPointer == [u \in Users |-> None]
Both == {[user |-> u1, email |-> e1], [user |-> u2, email |-> e2]}
MCGrants == {<<u1, w1>>}
Past(known, roles, pointers) == [accounts |-> known, role |-> roles, pointer |-> pointers]

MCHistories == {
    Past({}, NoRole, NoPointer),                                      \* nobody yet
    Past(Both, [NoRole EXCEPT ![u1][w1] = "Owner", ![u2][w1] = "Member"], NoPointer),
    Past(Both, [NoRole EXCEPT ![u1][w1] = "Owner", ![u2][w1] = "Owner"], NoPointer),
    Past(Both, [NoRole EXCEPT ![u1][w1] = "Member"], [NoPointer EXCEPT ![u1] = w1])}
=============================================================================

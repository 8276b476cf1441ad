----------------------------- MODULE MCAccounts -----------------------------
(* Instances of Accounts for TLC.                                          *)
EXTENDS Accounts

CONSTANTS n1, n2, a1, a2, none

\* One node and one account: every request but transfers, with amounts, hold
\* sizes and instants enough for holds to overlap, shrink, renew and expire.
Single == [nodes |-> {n1}, spenders |-> {n1}, accounts |-> {a1},
           credits |-> {}, debits |-> {1, 2}, holds |-> {1, 2}, transfers |-> {},
           times |-> {0, 10, 11}, events |-> 5, crashes |-> 0, faults |-> 1]
\* Two nodes and two accounts, transfers, the events of a peer and a crash.
Cluster == [nodes |-> {n1, n2}, spenders |-> {n1}, accounts |-> {a1, a2},
            credits |-> {1}, debits |-> {1}, holds |-> {2}, transfers |-> {<<a1, a2, -1>>},
            times |-> {0, 11}, events |-> 3, crashes |-> 1, faults |-> 0]
\* A transfer of an account to itself.
ToSelf == [Single EXCEPT !.credits = {}, !.debits = {1}, !.holds = {2},
             !.transfers = {<<a1, a1, -1>>}, !.times = {0, 11}, !.events = 3, !.faults = 0]

BothPlans == {Single, Cluster}
SelfPlan == {ToSelf}
=============================================================================

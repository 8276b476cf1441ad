----------------------------- MODULE MCControl -----------------------------
(* Instances of the dashboard and of the billing service for TLC.  A        *)
(* behaviour is about one of them: the dashboard with a set of handlers     *)
(* that run together, or the billing service with its bounds.               *)
EXTENDS ControlPlane, Billing, TLC

CONSTANTS adm, usr, s1, s2, j1, j2, none, nobody

Accounts == {"request", "consume", "google_callback", "freeze_user", "unfreeze_user",
             "delete_user", "delete_account", "impersonate_user"}
OwnKeys == {"create_key", "rotate_key", "revoke_key", "delete_account", "request"}
OwnScopes == {"create_scope", "delete_scope", "rotate_key", "delete_account"}
UserKeys == {"create_user_key", "rotate_user_key", "revoke_user_key", "delete_user",
             "google_callback"}
UserScopes == {"create_user_scope", "delete_user_scope", "rotate_user_key", "delete_user"}
Device == {"cli_start", "cli_authorize", "cli_exchange", "delete_account"}
Buckets == {"create_bucket", "archive_bucket", "purge_bucket", "list_buckets",
            "admin_purge_bucket"}
Switches == {"create_bucket", "archive_bucket", "enable_evm", "disable_evm", "pause_evm",
             "resume_evm"}
NoHandlers == {}
AllPlans == {Accounts, OwnKeys, OwnScopes, UserKeys, UserScopes, Device, Buckets, Switches,
             NoHandlers}
TwoEdges == <<"e1", "e2">>
SamePrefixes == {<<x, x>> : x \in Names}

PlanCredits == [free |-> 3, pro |-> 5, enterprise |-> 0]
MonthlyPrices == [pro_month |-> "pro"]
Thresholds == <<20, 10, 5, 0>>
AdminGrants == {1, -2}
Bounds(from, paying, again, changes, requests, used, passes, errors, restarts) ==
  [start |-> from, open |-> paying, tries |-> again, stripe |-> changes, calls |-> requests,
   spends |-> used, checks |-> passes, faults |-> errors, crashes |-> restarts]
Closed == Bounds(0, {}, 0, 0, 0, 0, 0, 0, 0)
Lost == Bounds(2, {"pro_month"}, 2, 1, 0, 1, 0, 1, 0)
Restarted == Bounds(2, {"pro_month"}, 2, 1, 0, 1, 0, 0, 1)
Mixed == Bounds(2, {"pro_month"}, 2, 1, 1, 0, 0, 0, 0)
Renewed == Bounds(2, {}, 1, 2, 2, 0, 0, 0, 0)
ByHand == Bounds(2, {}, 0, 0, 2, 1, 1, 1, 0)
Alerted == Bounds(1, {}, 0, 0, 1, 1, 2, 1, 1)
AllLedgers == {Closed, Lost, Restarted, Mixed, Renewed, ByHand, Alerted}

MCInit == CpInit /\ InitBilling /\ (bleft = Closed <=> plan # NoHandlers)
MCNext ==
  \/ plan # NoHandlers /\ CpNext /\ UNCHANGED billVars
  \/ plan = NoHandlers /\ BillingNext /\ UNCHANGED cpVars
MCSpec == MCInit /\ [][MCNext]_<<cpVars, billVars>>

SlotSymmetry == Permutations(Slots) \cup Permutations(BillSlots)
=============================================================================

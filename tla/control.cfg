SPECIFICATION MCSpec
CONSTANTS
  adm = adm
  usr = usr
  s1 = s1
  s2 = s2
  j1 = j1
  j2 = j2
  none = none
  nobody = nobody
  Users = {adm, usr}
  Keys = {}
  Names = {"bucket"}
  NoValue = none
  NoUser = nobody
  PrefixPairs <- SamePrefixes
  Slots = {s1, s2}
  Browsers = {"b1", "b2"}
  AdminEmails = {adm}
  Plans <- AllPlans
  MaxOps = 4
  Edges <- TwoEdges
  Payers = {usr}
  Monthly <- PlanCredits
  PlanOfPrice <- MonthlyPrices
  AnnualPrices = {"pro_year"}
  Grants <- AdminGrants
  Alerts <- Thresholds
  BillSlots = {j1, j2}
  Ledgers <- AllLedgers
SYMMETRY SlotSymmetry
CHECK_DEADLOCK FALSE
INVARIANTS LinkOnce DeletionCutsOff CodeIsOwners PurgedIsHidden CreditedOnce

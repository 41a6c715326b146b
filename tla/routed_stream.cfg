CONSTANTS
  MaxAttempts = 2
  Routes = 2
  WorkBuddy = {1}
  VendorCodes = {2}
  Accounts = 1
  Redials = 2
  Causes = {"unauthorized", "http_5xx"}
SPECIFICATION FairSpec
INVARIANTS RequestTypeOK NothingLeaks AcceptedNeverCut TruthfulBlame HonestAnswer PhaseTellsTruth
PROPERTIES HistoryStands NoReplayAfterUpload EveryRequestReturns
CHECK_DEADLOCK FALSE

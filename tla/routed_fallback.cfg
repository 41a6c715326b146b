CONSTANTS
  MaxAttempts = 2
  Routes = 2
  WorkBuddy = {}
  VendorCodes = {1}
  Accounts = 1
  Redials = 1
  Causes = {"vendor_5xx", "http_5xx"}
SPECIFICATION Spec
PROPERTIES UnavailableFallsBack
CHECK_DEADLOCK FALSE

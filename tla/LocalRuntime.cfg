SPECIFICATION Spec
CONSTANTS
  None = None  Malformed = Malformed
  Attempts = {1, 2}
  MaxCalls = 2
  AllowedOrigins <- MCAllowedOrigins
  AllowedMethods <- MCAllowedMethods
  Credentials <- MCCredentials
  MaxRedirects = 1
  RedirectTargets <- MCRedirectTargets
  Snapshots <- MCSnapshots
  Templates <- MCTemplates
  OwnTenant = "a"
  InvoiceOwner <- MCInvoiceOwner
  MaxEntries = 2
  MaxTotalBytes = 2
  Grants <- MCGrants
  Providers <- MCProviders
  Limits <- MCLimits
  WindowMs = 1
  MaxClock = 1
  Hooks <- MCHooks
  MaxSubrequests = 2
INVARIANTS TypeOK ResultHasNoCallInFlight EffectsHappenOnce CallsAreAccountedFor
PROPERTIES AttemptSettles
CHECK_DEADLOCK FALSE

SPECIFICATION MCSpec
CONSTANTS
  inbox_capacity = 8
  send_limit = 3
  session_limit = 1
  kControlInboxBudget = 2
  LeaseOctets = 2
  MaxOctets = 4
  MaxReady = 2
  AppCloses = TRUE
  ClientReads = TRUE
  ClientFins = FALSE
CHECK_DEADLOCK FALSE
INVARIANTS RemoteIntact Quiesced
  

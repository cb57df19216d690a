SPECIFICATION MCSpec
CONSTANTS
  f1 = f1
  f2 = f2
  f3 = f3
  l1 = l1
  NoFlow = NoFlow
  Flows <- TwoFlows
  Listener <- OneListener
  backlog_limit = 1
  half_open_limit = 2
  pcb_limit = 2
  pending_response_limit = 1
  receive_buffers = 2
  syn_ack_retries = 1
  max_timewait_entries = 1
  Odd = {}
  Deferring = {}
  pcb_budget = 2
  AllocationFails = FALSE
  FactoryRejects = FALSE
  RepeatsFin = FALSE
  MaxFlowId = 2
INVARIANTS TableKept TimersKept HistoryTold
PROPERTY SilentClientLeaves
CHECK_DEADLOCK FALSE
SYMMETRY Symmetric

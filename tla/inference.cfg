CONSTANTS
  q1 = q1
  q2 = q2
  q3 = q3
  None = None
  Requests = {q1, q2, q3}
  Asked <- Mixed
  Names = {"mock", "llama.cpp", "vllm"}
  Default = "mock"
  Timeout = 2
  MaxNow = 4
  MaxRegs = 1
SPECIFICATION FairSpec
INVARIANTS
  TypeOK
  LateOnlyWhenHeld
PROPERTIES
  EveryRequestAnswered
CHECK_DEADLOCK FALSE

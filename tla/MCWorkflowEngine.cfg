SPECIFICATION Spec
CONSTANTS
  s1 = s1
  s2 = s2
  Session = {s1, s2}
  Key = {"k"}
  NoKey = "none"
  Payload = {"empty", "comment"}
  State = {"draft", "active", "done", "cancelled"}
  InitialState = "draft"
  TerminalState = {"done", "cancelled"}
  CompletedState = {"done"}
  CancelledState = {"cancelled"}
  Transition = {"START", "FINISH", "NOTE"}
  From <- MCFrom
  To <- MCTo
  Actor = {"manager", "clerk"}
  Allowed <- MCAllowed
  Complete <- MCComplete
  Policy = {"work"}
  PolicyState <- MCPolicyState
  PolicyTransition <- MCPolicyTransition
  Null = "null"
  MaxMoves = 2
\* An instance that has ended stays as it is.
CHECK_DEADLOCK FALSE
SYMMETRY MCSymmetry
INVARIANTS
  TypeOK
  OneExecutionPerKey
  RetriesGetTheirExecution
  VersionedCallsRunOnce
  ActiveTimersAreCurrent
  BreachesAreReported
PROPERTIES
  MovesAreRecorded
  KeepsItsPromise

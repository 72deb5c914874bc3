CONSTANTS
  Replica = {r1, r2}
  First = r1
  Busy = {r1}
  Deployments <- MCDeployments
  MaxFaults = 1
SPECIFICATION Spec
INVARIANTS
  NothingLeaks
  NothingClosedUnderUse
  AcceptedStarts
  RowsSurvive
PROPERTIES
  EveryReplicaServes

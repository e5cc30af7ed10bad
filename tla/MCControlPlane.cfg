\* Three requests to the operator plane; or two to the bindings and the start,
\* for two vehicles.
CONSTANTS
  k1 = k1
  k2 = k2
  k3 = k3
  fit = fit
  out = out
  nan = nan
  j1 = j1
  j2 = j2
  j3 = j3
  m1 = m1
  m2 = m2
  w1 = w1
  Unset = Unset
  Nil = Nil
  NotUlid = NotUlid
  Call <- ThreeCalls
  Bodies <- Waypoints
  Invalid <- OneInvalid
  Breach <- OneBreach
  MaxItems = 2
  Job <- ThreeJobs
  Count = 2
  Mission <- TwoPlans
  Version <- Versions
  Batches <- Bodies2
  MaxRows = 2
  Starts <- Starts3
  Uploads <- OneUpload
SPECIFICATION Spec
CHECK_DEADLOCK FALSE
INVARIANT TypesOK
INVARIANT StartTells
INVARIANT BoundByWholeBatch
PROPERTY ImplementsBoard
PROPERTY RequestsEnd

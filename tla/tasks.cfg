\* A draft store of one task with expiry, inputs that may be abandoned and cancellation;
\* or a legacy store of two, with a tasks/result and a listing that follows its cursor.
SPECIFICATION FairStore
CONSTANTS
  t1 = t1
  t2 = t2
  o1 = o1
  o2 = o2
  w1 = w1
  Tasks = {t1, t2}
  Capacity = 1
  Askers = {t1}
  MaxInputs = 2
  MaxTasks = 3
  TaskCapacity = 2
  Owners = {o1, o2}
  Waiters = {w1}
  MakerOf <- Makers
  AskerOf <- Asking
  PageSize = 1
INVARIANTS StoresTypeOK InputsAgree NoWorkIsOrphaned TerminalIsPushed ResultsAgree PagesCover
PROPERTIES FollowsLifecycle WaitsReturn
\* A store whose tasks have all expired is done.
CHECK_DEADLOCK FALSE

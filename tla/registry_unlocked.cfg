\* The callers that the code has; task_add takes no lock.
SPECIFICATION Spec
CONSTANTS
  main = main
  sup = sup
  Callers = {main, sup}
  Creators = {main}
  Killers = {sup}
  Handles = {h1, h2}
  Subsys = {core, power}
  Core = core
  NoHandle = NULL
  TasksMax = 2
INVARIANT
  TableExact

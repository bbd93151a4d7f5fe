\* Two callers of one priority, each of which creates and kills.
SPECIFICATION Spec
CONSTANTS
  main = main
  sup = sup
  Callers = {main, sup}
  Creators = {main, sup}
  Killers = {main, sup}
  Handles = {h1, h2, h3}
  Subsys = {core, power, lora}
  Core = core
  NoHandle = NULL
  TasksMax = 2
SYMMETRY HandleSymmetry
INVARIANTS
  TypeOK
  DeleteOnce

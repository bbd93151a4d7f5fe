\* The callers that the code has: one that creates, one that kills.
SPECIFICATION Spec
CONSTANTS
  main = main
  sup = sup
  Callers = {main, sup}
  Creators = {main}
  Killers = {sup}
  Handles = {h1, h2, h3, h4}
  Subsys = {core, power, lora}
  Core = core
  NoHandle = NULL
  TasksMax = 3
INVARIANTS
  NoOrphan
  KillIsolation
  WholeSubsystemStopped
PROPERTY
  ImplementsLifecycle

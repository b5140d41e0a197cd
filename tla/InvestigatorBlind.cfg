SPECIFICATION Spec
CONSTANTS
  Agents = {a1, a2}
  Pods = {p1}
  Statuses = {crashed}
  oom = oom
  timeout = timeout
  both = both
  prefixed = prefixed
  other = other
  Texts = {oom, timeout, both, prefixed, other}
  Mentions <- MCMentions
  Loads <- MCLoads
  Faults = {"health", "logs", "cpu", "set"}
  Absent = Absent
  Unread = Unread
  NoPod = NoPod
  MaxSymptoms = 2
INVARIANTS RedeployedPodWasSick

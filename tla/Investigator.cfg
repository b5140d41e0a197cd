SPECIFICATION FairSpec
CONSTANTS
  Agents = {a1, a2}
  Pods = {p1}
  Statuses = {crashed}
  oom = oom
  timeout = timeout
  both = both
  prefixed = prefixed
  other = other
  Texts = {oom, timeout, both, prefixed, other}
  Mentions <- MCMentions
  Loads <- MCLoads
  Faults = {"logs"}
  Absent = Absent
  Unread = Unread
  NoPod = NoPod
  MaxSymptoms = 3
INVARIANTS TypeOK OnlySickPodsTreated
PROPERTIES RemediesConverge

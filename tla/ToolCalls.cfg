SPECIFICATION FairSpec
CONSTANTS
  Calls = {t1}
  d1 = d1
  d2 = d2
  NoDb = NoDb
  Servers <- MCServers
  Emails <- MCEmails
  Groups <- MCGroups
  Configs <- MCConfigs
INVARIANTS
  OnlyEntitled
  AuditedOnce
  ProbesJoined
PROPERTY
  Answered

SPECIFICATION Spec
CONSTANTS
  Threads = {t1}
  Plain <- ThePlain
  Keys <- OneKey
  Made <- TheObjects
  Texts <- TheTexts
  Lists <- TheLists
  Roles <- TheRoles
  HostOf <- TheHosts
  Settings <- TheSettings
  MaxRefs = 5
  Root = Root
  None = None
INVARIANT
  HostIsTheOneGiven
CHECK_DEADLOCK FALSE

SPECIFICATION Spec
CONSTANTS
  Threads = {t1, t2}
  Plain <- ThePlain
  Keys <- OneKey
  Made <- TheObjects
  Texts <- TheTexts
  Lists <- TheLists
  Roles <- OnServer
  HostOf <- TheHosts
  Settings <- TheSettings
  MaxRefs = 5
  Root = Root
  None = None
SYMMETRY Symmetry
INVARIANTS
  OneForOne
  ComponentsAreFound
CHECK_DEADLOCK FALSE

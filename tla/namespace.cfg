SPECIFICATION FairSpecV
CONSTANTS
  i1 = i1
  i2 = i2
  Shapes <- Namespaces
  Keys <- TwoKeys
  Names <- ThreeNames
  Values <- TheValues
  RefOf <- Reference
  Infras = {i1, i2}
  Plain <- Servers
  MaxSets = 1
  Template = Template
  None = None
  Words <- TheWords
  Known = "known"
  Called = "called"
INVARIANTS
  ChainsEnd
  VisibleIsFound
  EnclosingContainersSeen
  TypeOKV
  HistoryIsTheStack
  AnswersAreValues
PROPERTIES
  OthersSeeTheSame
  HostsAreProvisioned
  VariablesAreProvisioned
  ExpansionEnds
CHECK_DEADLOCK FALSE

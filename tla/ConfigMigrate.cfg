SPECIFICATION Spec
CONSTANTS
  graphqlPort = graphqlPort
  publisherPort = publisherPort
  Port = Port
  Keys = {graphqlPort, publisherPort}
  Name <- MCName
  Values = {1, 2, 3}
  Default <- MCDefault
  Newest = 3
  Unset = Unset
  None = None
  MaxRuns = 5
  MaxEdits = 1
  MaxFaults = 2
INVARIANTS SettingsKept OutcomeExplained
CHECK_DEADLOCK FALSE

CONSTANTS
  Contents <- MCContents
  EditorForms <- MCEditorForms
  Routings <- MCRoutings
  DataStores <- MCDataStores
  IPAddresses <- MCIPAddresses
  Destinations <- MCDestinations
  InRuleSet <- MCInRuleSet
  RuleSetItems <- MCRuleSetItems
  PrivateItems <- MCPrivateItems
  IPItems <- MCIPItems
  JsonObject <- MCJsonObject
  MaxTrips = 2
SPECIFICATION Spec
INVARIANTS
  LabelIsProtocol
  TlsSurvives
  ReferencesResolve
  ProxyNameNeedsNoProxy
  DnsFollowsRoute
PROPERTIES
  RoundTripKeepsOutbound
  RoundTripSettles
CHECK_DEADLOCK FALSE

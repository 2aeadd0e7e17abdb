CONSTANTS
  Subsessions = {video, audio}
  NoOne = NoOne
  Ports <- MCPorts
  Ephemeral <- MCEphemeral
  Offers <- MCOffers
  MaxOthers = 2
SPECIFICATION FairSpec
INVARIANTS Accounted ListensAsTold
PROPERTIES FreshPorts InitiateEnds

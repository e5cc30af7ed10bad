\* One property at a time; each with the values it differs in.
SPECIFICATION Spec
CONSTANTS
  c1 = c1
  c2 = c2
  Client <- TwoClients
  N = 1
  Requests <- Guiding
  MaxRequests = 2
  HoldPhase = "BRING_UP"
PROPERTY OnlyLegalArcs
\* PROPERTY RestartsOnGround: Requests <- Refitting, HoldPhase = "SETUP_HOLD"
\* PROPERTY EstopIsFinal: Requests <- Engaging, MaxRequests = 3
\* INVARIANT NoHandlerPanics: Client <- OneClient, Requests <- Landing, MaxRequests = 1
\* PROPERTY DeathIsFault: SPECIFICATION FairSpec, Client <- OneClient
\* PROPERTY RtlLands: SPECIFICATION FairSpec, Client <- OneClient, Requests <- Returning

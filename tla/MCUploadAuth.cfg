SPECIFICATION AuthSpec
CONSTANTS
  NoToken = NoToken
  Life = 7
  Margin = 4
  MaxWait = 2
  MaxSkew = 1
  MaxTime = 16
INVARIANTS
  HealsInOneCall
  InFlightFresh
PROPERTIES
  ImplementsRequest

CONSTANTS
  Config <- MCConfig
  Mode = "realistic"
  Profile = "food_bev"
  Controller = "oven_gateway"
  CycleOf <- MCCycleOf
  Gaps = {20}
  Window = 1
  Word = 4
  Values <- MCValues
  Requested = {5}
  MaxLag = 10
SPECIFICATION FairEndpointSpec
INVARIANTS
  OneScan
  NoEcho
PROPERTY
  Converges

\* As MCFrontend: what a comment says of the map after a switch.
CONSTANTS
  cambridge = cambridge
  phoenix = phoenix
  None = None
  City = {cambridge, phoenix}
  Registered = {cambridge, phoenix}
  Default = cambridge
  Noon <- MCNoon
  FirstHour = 11
  UserHours = {8}
  RunNumber = {1, 2}
SPECIFICATION FairSpec
INVARIANT MapFollowsCity

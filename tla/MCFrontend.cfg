\* Two registered cities, two runs each, one hour the user may set.
CONSTANTS
  cambridge = cambridge
  phoenix = phoenix
  None = None
  City = {cambridge, phoenix}
  Registered = {cambridge, phoenix}
  Default = cambridge
  Noon <- MCNoon
  FirstHour = 11
  UserHours = {8}
  RunNumber = {1, 2}
SPECIFICATION FairSpec
INVARIANTS
  TypeOK
  UrlNamesCity
  NeverForeignNoon
PROPERTIES
  SelectionFollowsCity
  MapComesUp

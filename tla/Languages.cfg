SPECIFICATION SpecParts
CONSTANTS
  Considered = {"oed", "scheme", "humus", "actor", "loader"}
  Programs <- WholePrograms
  HumusPrograms <- WholeHumus
  Values <- MCValues
  Raws <- MCRaws
  Message = {m1, m2, m3, m4}
  Behavior = {b1, b2, b3}
  Mutable = {b1, b2}
  None = None
  Endings = {"become"}
  Modules <- MCModules
  Worlds <- MCWorlds
INVARIANTS RoundTrip ProgramsRight RomRight
PROPERTIES SerialSpec EverythingEnds
CHECK_DEADLOCK FALSE

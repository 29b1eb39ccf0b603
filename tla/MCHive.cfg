SPECIFICATION HiveSpec
CONSTANTS
  console = console
  agent = agent
  Names = {"manoir"}
  Legacy <- MCLegacy
  Literals <- MCLiterals
  StemOf <- MCStemOf
  Macs <- MCMacs
  Procs <- MCProcs
  Adopters = {console}
  MaxEvents = 4
INVARIANTS AdoptionIsEarned StemsFailClosed
CHECK_DEADLOCK FALSE

SPECIFICATION NetSpec
CONSTANTS
  Nets = {"home", "cafe"}
  NoNet = "none"
  Wired = "wired"
  OverlapNets = {"cafe"}
  Daemon = "daemon"
  Operator = "operator"
  MaxAttempts = 2
  VerifyTries = 1
  MaxMoves = 2
  WifiNets = {"home", "cafe"}
  Wpa3Nets = {"cafe"}
  LogCap = 3
  MaxDeeds = 5
  Policies = {"bad", "first", "second", "third"}
  Alike <- AlikeToDiff
  Clients = {"c1", "c2"}
  MaxEvents = 4
  Receivers = {"r1"}
  MaxReceives = 2
INVARIANTS NeverStranded FlapsBounded DeadLinkIsNeverHealthy PushIsValidated
PROPERTIES PauseIsShown CuresWhatItCan SavedIsSigned
CHECK_DEADLOCK FALSE

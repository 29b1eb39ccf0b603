SPECIFICATION MachineSpec
CONSTANTS
  Recipes = {"family", "operator", "code"}
  GearKinds = {"orbi"}
  BestEffort = {"orbi"}
  MaxRuns = 2
  MaxYes = 2
  Wave1 = {"proxyd", "forceflow"}
  TwoSided = {"forceflow"}
  AgentOnly = {"backup"}
  Secrets = {"token"}
  MaxCalls = 4
  BrewTools = {"cli"}
  NpmTools = {"openclaw"}
  PipTools = {"mlx"}
  MaxVersion = 2
  MaxRounds = 2
  Accounts = {"a", "b"}
  FormerKey = 9
  MaxCommands = 4
  Dotfiles = {"zshrc", "gitconfig"}
  Strays = {"notes"}
  MaxTurns = 6
  Beats = {"job", "hand", "hub"}
  HostOf <- HostKey
  MaxBeats = 4
  Recorders = {"soak"}
  min_days = 1
  MaxSamples = 2
  MaxDays = 2
INVARIANTS RecapIsHonest NoDoubleRun OwnPlistKept NoSecretPushed NoLostBeat
PROPERTIES OkIsReRead PersistedOpens WizardsKeepThePassphrase ShipsWhatSoaked
CHECK_DEADLOCK FALSE

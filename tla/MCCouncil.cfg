SPECIFICATION SceneSpec
CONSTANTS
  Seats = {"heretic", "code"}
  Fallback = "mlx"
  OnBox = {"heretic", "mlx"}
  Family <- MCFamily
  Foreign = "grok"
  Shared <- MCShared
  MaxRounds = 1
  TOOL_CALL_CAP = 3
  MaxTurns = 2
  MaxSaid = 3
INVARIANTS NoOtherFamilysVoice OneOnBox CallsAudited BreakerTrips
PROPERTIES EverySeatReports
CHECK_DEADLOCK FALSE

CONSTANTS
  Sessions = {s1}
  Rows <- MCRows
  Installed = {"dark", "light"}
  ThemeNames = {"dark", "light", "gone"}
  Fallback = "dark"
  Sizes = {1, 2}
  Modes = {"vaultDefault", "ask"}
  Configs <- MCConfigs
  OmegaConfigs <- MCOmegaConfigs
  Flags = {"light"}
  MaxTabs = 2
  MaxMoves = 4
SPECIFICATION Spec
INVARIANTS
  WindowIsHonest
  PinsPainted
PROPERTIES
  SaveReachesTabs
  CancelPutsBack
CHECK_DEADLOCK FALSE

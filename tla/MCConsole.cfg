SPECIFICATION Spec
CONSTANTS
  VGA_WIDTH = 3
  VGA_HEIGHT = 2
  VgaCells = 12
  Wrap16 = 16
  CursorByte = 4
  Glyphs = {"x", "h", "c", "l", "?"}
  Keys <- AllKeys
  Firmware = {" "}
  BannerRows = 1
  EarlyText <- Wider
  LateText <- Line
  HelpName <- Help
  ClearName <- Clear
  LspciName <- Lspci
  HelpReply <- Line
  InvalidText <- Invalid
  UnhandledText <- Line
  LspciReplies <- Listings
  MaxInterrupts = 2
INVARIANTS
  TypeOK
  ModeDiscipline
  ClearLeavesOnlyLate
  CursorFollowsLine
PROPERTIES
  HandlerReturns
  BootReachesPrompt
CHECK_DEADLOCK FALSE

SPECIFICATION TypingSpec
CONSTANTS
  VGA_WIDTH = 3
  VGA_HEIGHT = 2
  VgaCells = 18
  Wrap16 = 25
  CursorByte = 5
  Glyphs = {"x", "h", "c", "l", "?"}
  Keys <- AllKeys
  Firmware = {" "}
  BannerRows = 1
  EarlyText <- None
  LateText <- None
  HelpName <- Help
  ClearName <- Clear
  LspciName <- Lspci
  HelpReply <- Line
  InvalidText <- Invalid
  UnhandledText <- Line
  LspciReplies <- Listings
  MaxInterrupts = 5
PROPERTIES
  PromptAfterCommand
  ClearRecoversScreen
  TypedCommandRuns
CHECK_DEADLOCK FALSE

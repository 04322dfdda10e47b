SPECIFICATION Spec
CONSTANTS
  VGA_WIDTH = 3
  VGA_HEIGHT = 2
  VgaCells = 12
  Wrap16 = 16
  CursorByte = 4
  Glyphs = {"x", "h", "c", "l", "?"}
  Keys <- AllKeys
  Firmware = {" "}
  BannerRows = 1
  EarlyText <- None
  LateText <- None
  HelpName <- Help
  ClearName <- Clear
  LspciName <- Lspci
  HelpReply <- Line
  InvalidText <- Invalid
  UnhandledText <- Line
  LspciReplies <- Listings
  MaxInterrupts = 2
INVARIANT
  RowOnScreen
CHECK_DEADLOCK FALSE

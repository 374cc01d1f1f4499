CONSTANTS
    Texts <- MicroTexts
    Depth = 12
    Typed <- MCTyped
    Sources <- MCSources
    Plain = {"std", "lib", "rest", "commit", "end"}
    FirstTexts <- MCFirst
    Pasted <- MCPasted
    Cursors <- MCCursors
    Newline = "nl"
    Space = "sp"
    Indent = 2
    MaxText = 8
    MaxRevisions = 3
    MaxActs = 4
    JsModules <- MCJsModules
    SchemeTexts <- MCSchemeTexts
    Integral <- MCIntegral
    Short = 2
    Base = 2
    WideBytes = 4
    MaskLength = 2
    Uploads <- MCUploads
    Downloads <- MCDownloads
    MaxWrites = 2
    DirectorTexts <- MCDirectorTexts
INIT InitTools
NEXT NextTool
INVARIANTS ToolsRight EditsUndone
CHECK_DEADLOCK FALSE

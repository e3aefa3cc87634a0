SPECIFICATION Spec
CONSTANTS
  Kinds = {"bytes", "base64", "utf8", "utf16", "path", "string", "literal", "document", "arguments", "appends", "writes"}
  Alphabet <- Characters
  MaxLength <- Lengths
  Separator = "/"
  Letters = {"a"}
  Width = 32
  MaxBlock = 15
  InitialCapacity = 2
INVARIANTS RoundTrips OutputFits AcceptsTheStandards DocumentsReadBack PathsAgree
CHECK_DEADLOCK FALSE

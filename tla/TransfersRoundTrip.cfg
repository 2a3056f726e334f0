SPECIFICATION TSpec
CONSTANTS
  Sizes = {1}
  Segments = {1}
  WholeAcks = TRUE
  Lines <- SomeLines
  Listings <- NoListing
  LineEnd <- CRLF
  RX_BUF_SIZE = 4
  MAX_REMOTE_FILES = 2
  Vars <- SomeVars
  Uploaded = TRUE
  FileMax = 78
  Cuts = {25, 54, 80}
INVARIANT DownloadExact
CHECK_DEADLOCK FALSE

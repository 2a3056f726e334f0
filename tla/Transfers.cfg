SPECIFICATION TSpec
CONSTANTS
  Sizes = {0, 1, 4, 5, 9, 12}
  Segments = {1, 4, 5}
  WholeAcks = TRUE
  Lines <- SomeLines
  Listings <- SomeListings
  LineEnd <- CRLF
  RX_BUF_SIZE = 4
  MAX_REMOTE_FILES = 2
  Vars <- SomeVars
  Uploaded = FALSE
  FileMax = 78
  Cuts = {25, 54, 80}
INVARIANT StreamIsPrefix ListingExact LongLineLocal DownloadExact
PROPERTY UploadEnds
CHECK_DEADLOCK FALSE

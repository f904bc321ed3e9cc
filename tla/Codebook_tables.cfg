CONSTANTS
  Unset = Unset
  Jobs <- AllJobs
SPECIFICATION FairSpec
INVARIANTS InBounds TablesAgree StringsKept
PROPERTIES Ends

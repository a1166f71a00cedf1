SPECIFICATION FairSpec
CONSTANTS
  folder = folder
  single = single
  request = request
  None = None
  Job = {folder, single}
  Request = {request}
  Folder = {folder}
  Blocks <- TwoDownloads
  Dialogs <- HowDialogsEnd
  Failures = {"block", "zip", "save", "host"}
INVARIANTS SavedFilesWhole DoneMeansSaved
PROPERTIES DownloadSettles
CHECK_DEADLOCK FALSE

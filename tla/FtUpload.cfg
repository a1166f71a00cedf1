SPECIFICATION FairSpec
CONSTANTS
  folder = folder
  single = single
  None = None
  Job = {folder, single}
  Files <- FolderAndFile
  Answers = {"absent", "same", "different", "error"}
  MaxResume = 1
  Failures = {"read", "write"}
INVARIANTS HostFilesWhole BlocksAwaitConfirm CancelStopsUpload
PROPERTIES UploadSettles
CHECK_DEADLOCK FALSE

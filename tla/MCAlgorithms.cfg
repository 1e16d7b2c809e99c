SPECIFICATION Spec
CONSTANT
  Subjects = {"bytes: breaks", "bytes: case", "bytes: start", "bytes: faults", "folders: files", "folders: tree", "panes: rescan", "panes: selection", "lines", "lines: memory", "words", "words: case", "conflicts: parts", "conflicts: lines"}
INVARIANT ResultIsExact FailureIsReported FilesAreJoined EntriesListedOnce ScanIsSymmetric PanesAreLevel CopiesAreExact SelectionIsCopied ScriptIsExact MovedLinesMatch WordDiffsAreExact 
CHECK_DEADLOCK FALSE

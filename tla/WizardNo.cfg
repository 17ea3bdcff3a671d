SPECIFICATION Spec
CONSTANTS
  Formats = {"7z", "rar", "tar.gz", "tar.lz4"}
INVARIANT
  NoMeansNo

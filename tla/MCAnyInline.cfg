CONSTANTS
  Last = 2
  Threads = 1
SPECIFICATION Spec
PROPERTY
  AlwaysResumes

SPECIFICATION Spec
CONSTANTS
  c0 = c0
  c1 = c1
  c2 = c2
  q1 = q1
  q2 = q2
  f1 = f1
  f2 = f2
  b1 = b1
  b2 = b2
  r1 = r1
  r2 = r2
  Base = Base
  Up = Up
  None = None
  File = {f1, f2}
  Body = {b1, b2}
  Request = {r2}
  LabelOf <- TwoLabelOf
  FilesOf <- BothFilesOf
  BodyOf <- PushingBodyOf
  Pushing = {b2}
  Mortal = {}
  Commit = {c2}
  Earlier = {}
  Label = {q2}
  CommitOf <- TwoCommitOf
  Lossy = {}
INVARIANT SyncKeepsPushed
CHECK_DEADLOCK FALSE

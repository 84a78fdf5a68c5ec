SPECIFICATION Spec
CONSTANTS
  c0 = c0
  c1 = c1
  c2 = c2
  q1 = q1
  q2 = q2
  f1 = f1
  f2 = f2
  b1 = b1
  b2 = b2
  r1 = r1
  r2 = r2
  Base = Base
  Up = Up
  None = None
  File = {f1, f2}
  Body = {b1, b2}
  Request = {r1, r2}
  LabelOf <- TwoLabelOf
  FilesOf <- BothFilesOf
  BodyOf <- PushingBodyOf
  Pushing = {b2}
  Mortal = {r1, r2}
  Commit = {c0, c1, c2}
  Earlier = {c0}
  Label = {q1, q2}
  CommitOf <- TwoCommitOf
  Lossy = {r1}
INVARIANTS VerifiedStands AllOrNothing
CHECK_DEADLOCK FALSE

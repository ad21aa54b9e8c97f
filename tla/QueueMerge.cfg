SPECIFICATION Spec
CONSTANTS
  Schools = {s1}
  Teachers = {t1, t2}
  Students = {x1, x2}
  Classes = {c1}
  NoKey = NoKey
  OneId = {x1}
  TooLong = {t2}
  MaxQueued = 4
INVARIANTS TypeOK StoppedBatchResumes
PROPERTIES SecondRowsComeTogether LostRowsCameLate

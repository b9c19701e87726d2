CONSTANTS
  kept = kept
  single = single
  None = None
  Transports = {kept, single}
  Boxes = {b1, b2}
  Uses <- BatchAndSingle
  OptOut = {single}
  Timeout <- LongAndShort
  BuildTimeout = 2
  BuildExecs = 2
  Idle = 2
  Margin = 1
  MaxUses = 2
  MayMissRenewal = TRUE
  MayReclaim = FALSE
SPECIFICATION MCSpec
INVARIANTS CoversTheEvaluation NothingStranded
PROPERTY StraysStop

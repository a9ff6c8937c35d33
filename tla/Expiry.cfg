SPECIFICATION Spec
CONSTANT User = {"a", "b"}
CONSTANT Batch = 1
CONSTANT MaxLogins = 2
CONSTANT MaxPipe = 2
CONSTANT MaxLives = 2
CHECK_DEADLOCK FALSE
INVARIANT TypeOK
INVARIANT RestoreNeverUnderflows
INVARIANT UnsyncedIsRestored
PROPERTY ExpiredIsTaken

SPECIFICATION ConfigureSpec
CONSTANTS
  Files <- SmallFiles
  MaxArgs = 3
INVARIANT
  SettingsPrecede
CHECK_DEADLOCK FALSE

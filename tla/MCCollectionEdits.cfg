SPECIFICATION EditsSpec
CONSTANTS
  Selectable = {1, 2}
  Answers = {{1}, {1, 2}}
  Editors = {"gui"}
  MaxGeneration = 3
PROPERTY SavesOverWhatWasLoaded
CHECK_DEADLOCK FALSE

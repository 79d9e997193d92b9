\* Both control keys, both alt keys, one shift key and a letter.
SPECIFICATION KeyboardSpec
CONSTANTS
  Keys = {"LCtrl", "RCtrl", "LAlt", "RAlt", "LShift", "Letter"}
  MaxPending = 4
INVARIANTS
  ModifiersTracked
PROPERTIES
  PrintsWhatWasTyped

SPECIFICATION BytesSpec
CONSTANTS
  Bytes = {0, 1, 101}
  MaxBytes = 6
  NaluListMax = 3
  Chars = {"h", "e", "v", "1"}
  MaxChars = 7
  NumberBytes = {0, 127, 128, 255}
  TextChar = {"a", "/", ":"}
  MaxText = 6
INVARIANT BytesSound
CHECK_DEADLOCK FALSE

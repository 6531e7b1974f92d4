SPECIFICATION Spec
CONSTANTS
  Characters = {"0", "4", "8", "+", " ", "~", ".", "@", "A"}
  MaxTyped = 6
  Digits = {"0", "4", "8"}
  Wide = {"~", "A", "a"}
  CountryCode <- MCCountryCode
  MobileStart = {"8"}
  NationalLength = 2
  MinDigits = 1
  MaxDigits = 4
  MaxEmail = 6
  MaxLocal = 1
  Codes <- MCCodes
  MaxWord = 2
  MaxText = 2
  MaxItem = 2
  MaxList = 2
CHECK_DEADLOCK FALSE
INVARIANTS StoredIsFound SamePhone AppAgrees SavedComesBack StoredSettles

CONSTANTS
  Browsers = {b1, b2}
  Cities = {Johannesburg, London}
  Johannesburg = Johannesburg
  NoCity = NoCity
  None = None
  MaxRedirects = 2
SPECIFICATION Spec
INVARIANTS
  TypeOK
PROPERTIES
  
  ErrorClears

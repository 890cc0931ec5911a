SPECIFICATION Spec
CONSTANTS
  letter = letter  underscore = underscore  space = space  percent = percent  byte = byte
  Alnum = {letter}
  KeyPunctuationCharacters = {underscore}
  Whitespace = {space}
  Others = {percent, byte}
  Underscore = underscore
  MaxLength = 3
  Inputs <- UpToFive
INVARIANTS TypeOK ResultIsKey KeysAreKept AgreesWithReference

\* A buffer as long as an int has bits, as in the kernel, and shorter than a
\* long long; a two-digit pointer is an int's worth of hexadecimal digits.
CONSTANTS
  PRINTF_NTOA_BUFFER_SIZE = 5
  CharValues = 8
  ShortValues = 16
  IntValues = 32
  LLValues = 256
  PointerDigits = 2
  SizeMax = 99
  Characters <- MCCharacters
  Chars <- MCChars
  Strings <- MCStrings
  Calls <- MCCalls
SPECIFICATION Spec
INVARIANTS TypeOK FieldsAsMeant OutputIsText
CHECK_DEADLOCK FALSE

\* what the repository's texts say of the conversions
SPECIFICATION DocSpec
CONSTANTS
  Bytes = {1, 2}
  MaxPattern = 2
  MaxInput = 3
  MaxWritten = 2
  DelimItems <- MCHexItems
  FormatItems <- MCHexItems
  MaxFormat = 3
  PackTokens = {"b", " "}
  DataSizes = {2}
  NumberTokens = {"i", "q"}
  NumberSizes = {4}
INVARIANT SomeConversionAsDocumented
CHECK_DEADLOCK FALSE

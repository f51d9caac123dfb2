SPECIFICATION Spec
CONSTANTS
  Nothing = Nothing
  PublicPrefixes <- MCPublicPrefixes
  PrefixLengths = {2, 3}
  ProfileLengths <- MCProfileLengths
  ValidWidths = {2, 3}
  GroupLength = 2
  ScopeLength = 2
  MaxLength = 13
  Definitions <- MCDefinitions
  MaxDefinitions = 2
  ByteStrings <- MCByteStrings
  Numbers = {17}
  Years <- MCYears
  MaxIssued = 2
  Keyboard = {"1", "-", "*", "_"}
INVARIANTS
  ServiceReadsCopies
CHECK_DEADLOCK FALSE

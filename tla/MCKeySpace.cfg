CONSTANTS
    Name <- MCName
    Parts <- MCParts
    Number <- MCNumber
    Width = 2
    Things <- MCThings
    MaxKeys = 3
SPECIFICATION KSpec
INVARIANTS KTypeOK PrefixesReach PaddedInOrder AuditIsExact
PROPERTIES KeysNameThings

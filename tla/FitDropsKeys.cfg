SPECIFICATION Spec
CONSTANTS
  MaxIdentifier = 8
  EndsInS <- MCEndsInS
  EndsHushed <- MCEndsHushed
  Versions <- MCVersions
  Alphabet <- MCAlphabet
  Acronyms <- MCAcronyms
  Worlds <- EmbedWorlds
INVARIANTS KeysNameFitted

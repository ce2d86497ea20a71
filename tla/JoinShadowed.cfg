SPECIFICATION Spec
CONSTANTS
  MaxIdentifier = 8
  EndsInS <- MCEndsInS
  EndsHushed <- MCEndsHushed
  Versions <- MCVersions
  Alphabet <- MCAlphabet
  Acronyms <- MCAcronyms
  Worlds <- ReferenceWorlds
INVARIANTS JoinsWhatItBuilds

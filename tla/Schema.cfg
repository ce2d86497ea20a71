SPECIFICATION Spec
CONSTANTS
  MaxIdentifier = 8
  EndsInS <- MCEndsInS
  EndsHushed <- MCEndsHushed
  Versions <- MCVersions
  Alphabet <- MCAlphabet
  Acronyms <- MCAcronyms
  Worlds <- MCWorlds
INVARIANTS NamesApart OnceEach NoDangling ExternalIsCertain ReferencesAccounted
           StrictMeansResolved RelationsMirrored KeysIndexed
PROPERTIES Advances

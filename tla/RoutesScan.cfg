SPECIFICATION Spec
CONSTANTS
    Letters <- MCLetters
    Digits <- MCDigits
    Others <- MCOthers
    Decodes <- MCDecodes
    HTTPMethods <- MCMethods
    Verbs <- MCVerbs
    Tables <- MCShelf
    Paths <- MCPaths
INVARIANTS ScanServesWinner

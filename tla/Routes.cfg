SPECIFICATION Spec
CONSTANTS
    Letters <- MCLetters
    Digits <- MCDigits
    Others <- MCOthers
    Decodes <- MCDecodes
    HTTPMethods <- MCMethods
    Verbs <- MCVerbs
    Tables <- MCTables
    Paths <- MCPaths
INVARIANTS ExamplesMatchBoth RefusedIffAmbiguous OneWinner
    PlainScanServesWinner ParsesExactly CapturesKeepShape NamesAgree

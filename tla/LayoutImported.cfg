SPECIFICATION Spec
CONSTANTS
    Messages <- MCMessages
    Protos <- MCDeclared
INVARIANTS ImportedAsEmitted

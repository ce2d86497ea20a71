SPECIFICATION Spec
CONSTANTS
    Messages <- MCMessages
    Protos <- MCProtos
INVARIANTS MemoIsFixedSize LayoutsResolved
PROPERTIES Terminates

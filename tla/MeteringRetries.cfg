SPECIFICATION Spec
CONSTANTS
    w1 = w1
    w2 = w2
    w3 = w3
    Writers = {w1, w2, w3}
    Inputs <- Metered
    ProductArgs <- Products
    FieldKinds <- Kinds
    MaxRecords = 2
    MaxAppends = 2
CONSTRAINT Pursued
SYMMETRY WriterSymmetry
INVARIANT
    PayloadIdempotent

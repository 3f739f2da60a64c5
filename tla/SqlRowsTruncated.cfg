SPECIFICATION Spec
INVARIANTS ErrDistinguishes

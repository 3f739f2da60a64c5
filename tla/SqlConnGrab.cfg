SPECIFICATION Spec
CONSTANTS
    Users = {u1, u2}
SYMMETRY Symmetry
INVARIANTS GrabbedIsLive

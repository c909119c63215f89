CONSTANTS
    Members = {m1, m2}
    Undos = {u1}
    Nobody = Nobody
SPECIFICATION Spec
INVARIANTS HonestAtRest ErrorsAreTrue
PROPERTY Unblocked

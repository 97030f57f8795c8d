CONSTANTS
    Indexes = {0, 1, 2}
SPECIFICATION Spec
INVARIANT RegistrationConsistent

SPECIFICATION Spec
CONSTANT Stamps <- MCStamps
INVARIANT BlockIsChaCha20

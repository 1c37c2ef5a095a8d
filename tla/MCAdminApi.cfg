\* Two overlapping requests of two users.
CONSTANTS
    q1 = q1
    q2 = q2
    ann = ann
    bob = bob
    ka = ka
    kb = kb
    m1 = m1
    m2 = m2
    Requests <- TwoRequests
    Users <- TwoUsers
    Keys <- TwoKeys
    OwnerOf <- OwnersOfTwo
    FirstUser = ann
    FirstKey = ka
    Aliases <- TwoAliases
    SeededAlias = m1
    Bodies <- FourBodies
SPECIFICATION Spec
SYMMETRY EitherRequest
INVARIANTS
    TypeOK
    AuthorityHeld
    AtMostOneDefault
PROPERTIES
    OnlyNamedColumns
    LostOnlyByRepeat

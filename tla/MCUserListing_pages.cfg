SPECIFICATION Spec
CONSTANTS
    Users = {u1, u2, u3, u4, u5}
    Admin = u1
    MaxInt = 5
    MaxPageSize = 3
    PageSize = 2
    MaxPage = 3
    MaxTime = 2
SYMMETRY Symmetry
INVARIANTS
    TypeOK
    PageWithinTotal
    NextPageHasRows
    WalkShowsEveryone
    ListedToAdmins

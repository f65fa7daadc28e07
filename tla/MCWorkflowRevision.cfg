CONSTANTS
    v1 = v1
    v2 = v2
    v3 = v3
    k1 = k1
    k2 = k2
    posts = posts
    create = create
    Version = {v1, v2, v3}
    Key = {k1, k2}
    Collection = {posts}
    Mode = {create}
    Configs <- MCConfigs
    Concurrent = FALSE
    MaxEvents = 1
SPECIFICATION Spec
SYMMETRY Symmetry
INVARIANTS
    TypeOK
    OneCurrent
    ListenersAgree

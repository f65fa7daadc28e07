CONSTANTS
    v1 = v1
    v2 = v2
    k1 = k1
    posts = posts
    create = create
    Version = {v1, v2}
    Key = {k1}
    Collection = {posts}
    Mode = {create}
    Configs <- MCConfigs
    Concurrent = TRUE
    MaxEvents = 1
SPECIFICATION Spec
SYMMETRY Symmetry
INVARIANTS
    ListenersAgree

CONSTANTS
    r1 = r1
    posts = posts
    blogposts = blogposts
    title = title
    tags = tags
    view = view
    update = update
    destroy = destroy
    own = own
    Role = {r1}
    Collection = {posts, blogposts}
    Field = {title, tags}
    Association = {tags}
    Action = {view, update, destroy}
    Bringing = {view, update}
    Scope = {own}
    Strategy <- MCStrategy
    EndsWith <- MCEndsWith
    Settings <- MCSettings
    MaxEdits = 1
SPECIFICATION Spec
INVARIANTS
    TypeOK
    GrantsAgree
    NothingExtra

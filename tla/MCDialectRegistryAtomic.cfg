SPECIFICATION FairSpec
CONSTANTS
    t1 = t1
    t2 = t2
    p1 = p1
    p2 = p2
    s0 = s0
    s1 = s1
    fun = fun
    col = col
    lit = lit
    lik = lik
    Thread = {t1, t2}
    Plugin = {p1, p2}
    Node = {fun, col, lit, lik}
    Statement = {s0, s1}
    NoThread = NoThread
    NoPlugin = NoPlugin
    NoName = NoName
    NoCall = NoCall
    Pending = Pending
    Spelling = {"mine", "Mine"}
    BuiltinName = {"ansi"}
    Lower <- MCLower
    NameOf <- MCNameOf
    Renames <- MCRenames
    Replaces <- MCReplaces
    Ilike <- MCIlike
    Panics <- MCPanics
    Kind <- MCKind
    Kids <- MCKids
    Args <- MCArgs
    Quoted <- MCQuoted
    Body <- MCBody
    Script <- DropScript
PROPERTIES LockReleased ImplementsAtomic

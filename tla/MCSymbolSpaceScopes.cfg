SPECIFICATION Spec
CONSTANTS
    Symbols = {"x", "h", "42"}
    Values = {"v1", "v2"}
    HygieneNames = {"h"}
    Literals = {"42"}
    LiteralOf <- MCLiteralOf
    Spaces = {"root", "c1", "c2"}
    Root = "root"
    NoSpace = "none"
    Modules = {}
    NameLists = {}
    Aliases = {}
    Prefixes = {}
INVARIANTS HygieneNoCapture NearestBinding
PROPERTY ScopeIsolation

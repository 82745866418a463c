SPECIFICATION Spec
CONSTANTS
    Symbols = {"x", "y", "z"}
    Values = {"v1", "v2"}
    HygieneNames = {}
    Literals = {}
    LiteralOf <- MCLiteralOf
    Spaces = {"root", "c1"}
    Root = "root"
    NoSpace = "none"
    Modules <- MCModules
    NameLists <- MCNameLists
    Aliases <- MCAliases
    Prefixes <- MCPrefixes
PROPERTIES BoundOnce CheckedImportAtomic

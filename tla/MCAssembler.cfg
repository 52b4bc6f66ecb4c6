SPECIFICATION Spec
CONSTANTS
    Sources <- MCSources
    Number <- MCNumber
    Expr <- MCExpr
    Numeral <- MCNumeral
    Local <- MCLocal
    Predefines <- MCPredefines
    sysEquate <- MCsysEquate
    MaxParses = 2
    NoMacro = NoMacro
    NoLabel = NoLabel
    NoProgram = NoProgram
INVARIANTS
    TypeOK
    AddressesContinue
    JumpsLand
    ProgramFetches
    MacroHygiene
    DataAsWritten
PROPERTIES
    NoHalfProgram

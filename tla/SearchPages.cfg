SPECIFICATION Spec
CONSTANTS
    Tokens <- MCTokens
    Items <- MCItems
    FileSeq <- MCFileSeq
    BaseCount = 5
    DirSeq <- MCDirSeq
    Similar <- MCSimilar
    Combo <- MCCombo
    CurrentFile <- F5
    PartialAbove = 100
    Queries <- MCQueries
    Sizes = {2}
    Offsets = {0}
INVARIANTS
    PiSeesAll

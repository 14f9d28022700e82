SPECIFICATION Spec
CONSTANTS
    Tokens <- MCTokens
    Items <- MCItems
    FileSeq <- MCFileSeq
    BaseCount = 5
    DirSeq <- MCDirSeq
    Similar <- MCSimilar
    Combo <- MCCombo
    CurrentFile <- F5
    PartialAbove = 3
    Queries <- MCQueries
    Sizes = {1, 2, 3}
    Offsets = {0, 1, 3}
INVARIANTS
    FilterMeansQuery
    PagesAreTheRanking
    NoResultSkipped

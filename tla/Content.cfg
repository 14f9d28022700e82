\* Three indexable files, so that a column can be kept, and one that is not.
CONSTANTS
    a = a
    b = b
    c = c
    d = d
    Paths = {a, b, c, d}
    Sorted <- MCSorted
    Below = {a}
    Words = {"foo", "bar", "x"}
    Grams = {"fo", "f-o", "ba"}
    SkipGrams = {"f-o"}
    GramsOf <- MCGramsOf
    Texts <- MCTexts
    NoFile = NoFile
    FirstDisks <- MCFirstDisks
    MaxEdits = 2
SPECIFICATION Spec
INVARIANTS
    GrepFindsAll
    GoneIsNotSearched
    PositionsAreValid

\* The thread of the editor and two workers; a cap of two stamps, a window of one
\* tick of a clock that ticks twice.
CONSTANTS
    Ui = ui
    Workers = {w1, w2}
    Cap = 2
    Window = 1
    MaxTime = 2
SYMMETRY MCSymmetry
SPECIFICATION Spec
INVARIANTS
    NoCircularWait
    AccessesAreKept

-------------------------- MODULE MCBigramColumns --------------------------
(***************************************************************************)
(* Model values of BigramColumns for TLC: two files that share a word, and *)
(* one or two more; three bigrams.                                         *)
(***************************************************************************)
EXTENDS BigramColumns

MCFilesOf == [c \in Chunks |-> CASE c = 0 -> {0, 1} [] c = 1 -> {64} [] c = 2 -> {128}]
MCWordOf == [f \in UNION {MCFilesOf[c] : c \in Chunks} |-> f \div 64]
MCKeysOf == [f \in DOMAIN MCWordOf |->
    CASE f = 0 -> {"ab", "bc"} [] f = 1 -> {"ab", "cd"} [] OTHER -> {"bc", "ab", "cd"}]
=============================================================================

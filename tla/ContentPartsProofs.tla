------------------------- MODULE ContentPartsProofs -------------------------
(***************************************************************************)
(* TLAPS proofs about the parts of content search that are models of their *)
(* own.  The columns of a bigram index, whose parallel build loses no bit, *)
(* for any number of threads, chunks, files, bigrams and columns.  The     *)
(* cache of contents, its accounting and its freshness, for any files,     *)
(* readers, sizes and limits.  The query over bigrams, which any file with *)
(* a match passes, for any bytes, expressions and needles.                 *)
(***************************************************************************)
EXTENDS BigramColumns, ContentCache, BigramQuery, SequenceTheorems, FiniteSetTheorems,
        WellFoundedInduction, TLAPS

InFile == {"key", "alloc", "swap", "read", "write"}
InKey == {"alloc", "swap", "read", "write"}

\* What a thread holds where it stands.
ThreadInv ==
    \A t \in Threads :
        /\ at[t] # "idle" => chunk[t] \in Chunks \ todo
        /\ at[t] = "idle" => chunk[t] = NoChunk
        /\ at[t] \in InFile => file[t] \in FilesOf[chunk[t]] \ done
        /\ at[t] \in InKey => key[t] \in seen[t]
        /\ at[t] \in InFile => seen[t] \subseteq KeysOf[file[t]]
        /\ at[t] \in {"swap", "read", "write"} => got[t] \in Columns

\* Two threads have no chunk in common, so their files share no word.
ChunkInv ==
    \A t, u \in Threads : t # u /\ chunk[t] = chunk[u] => chunk[t] = NoChunk

\* Columns are given out in order and once, as long as there are some.
ColumnInv ==
    /\ next <= MaxColumns
    /\ \A k \in Keys : lookup[k] # NoColumn => lookup[k] < next
    /\ \A j, k \in Keys : lookup[j] = lookup[k] /\ lookup[j] # NoColumn => j = k
    /\ \A t \in Threads : at[t] = "swap" =>
            /\ got[t] < next
            /\ \A k \in Keys : lookup[k] # got[t]
            /\ \A u \in Threads : at[u] = "swap" /\ got[u] = got[t] => u = t

\* A thread about to set a bit has the bigram's column, and the word as it is.
HandInv ==
    \A t \in Threads :
        /\ at[t] \in {"read", "write"} => lookup[key[t]] = got[t]
        /\ at[t] = "write" => word[t] = slab[got[t]][WordOf[file[t]]]

\* A bit stands for a file with the bigram of its column.
BitInv ==
    \A c \in Columns : \A w \in Words : \A f \in slab[c][w] :
        WordOf[f] = w /\ \E k \in KeysOf[f] : lookup[k] = c

Recorded(f, k) == lookup[k] # NoColumn /\ HasBit(f, lookup[k])

\* The bigrams of the files that are in, and those a thread is done with.
RecordInv ==
    /\ \A f \in done : \A k \in KeysOf[f] : Recorded(f, k)
    /\ \A t \in Threads : at[t] \in InFile =>
            \A k \in seen[t] : (at[t] \in InKey /\ k = key[t]) \/ Recorded(file[t], k)

Sound == ColumnInv /\ HandInv /\ BitInv /\ RecordInv

ColumnsInv == TypeOK /\ ThreadInv /\ ChunkInv /\ (~refused => Sound)
-----------------------------------------------------------------------------
\* Every step keeps the variables in their types.
LEMMA ColumnsTypeStep ==
    ASSUME ColumnsInv, NEW t \in Threads, Step(t)
    PROVE  TypeOK'
<1> USE ColumnAssumption DEF ColumnsInv, TypeOK, Goes
<1>1. ASSUME TakeChunk(t) PROVE TypeOK'
  BY <1>1 DEF TakeChunk
<1>2. ASSUME NextFile(t) PROVE TypeOK'
  <2>1. PICK f \in FilesOf[chunk[t]] \ done : file' = [file EXCEPT ![t] = f]
    BY <1>2 DEF NextFile
  <2>2. f \in Files
    BY <1>2, <2>1 DEF NextFile, ThreadInv, Files
  <2>3. QED
    BY <1>2, <2>1, <2>2 DEF NextFile
<1>3. ASSUME EndChunk(t) PROVE TypeOK'
  BY <1>3 DEF EndChunk
<1>4. ASSUME LoadColumn(t) PROVE TypeOK'
  <2>1. PICK k \in KeysOf[file[t]] \ seen[t] :
            /\ key' = [key EXCEPT ![t] = k]
            /\ seen' = [seen EXCEPT ![t] = @ \cup {k}]
            /\ got' = [got EXCEPT ![t] = lookup[k]]
            /\ Goes(t, IF lookup[k] = NoColumn THEN "alloc" ELSE "read")
    BY <1>4 DEF LoadColumn
  <2>2. file[t] \in Files
    BY <1>4 DEF LoadColumn, ThreadInv, InFile, Files
  <2>3. k \in Keys
    BY <2>1, <2>2
  <2>4. QED
    BY <1>4, <2>1, <2>3 DEF LoadColumn
<1>5. ASSUME EndFile(t) PROVE TypeOK'
  <2>1. file[t] \in Files
    BY <1>5 DEF EndFile, ThreadInv, InFile, Files
  <2>2. QED
    BY <1>5, <2>1 DEF EndFile
<1>6. ASSUME FetchAdd(t) PROVE TypeOK'
  <2>1. next' \in 0..(Wrap - 1)
    BY <1>6 DEF FetchAdd
  <2>2. ~UsedUp => next \in Columns
    BY DEF UsedUp, Columns
  <2>3. QED
    BY <1>6, <2>1, <2>2 DEF FetchAdd
<1>7. ASSUME CompareExchange(t) PROVE TypeOK'
  <2>1. key[t] \in Keys /\ got[t] \in Columns
    <3>1. at[t] = "swap"
      BY <1>7 DEF CompareExchange
    <3>2. file[t] \in Files
      BY <3>1 DEF ThreadInv, InFile, Files
    <3>3. QED
      BY <3>1, <3>2 DEF ThreadInv, InFile, InKey
  <2>2. CASE lookup[key[t]] = NoColumn
    BY <1>7, <2>1, <2>2 DEF CompareExchange
  <2>3. CASE lookup[key[t]] # NoColumn
    BY <1>7, <2>1, <2>3 DEF CompareExchange
  <2>4. QED
    BY <2>2, <2>3
<1>8. ASSUME ReadWord(t) PROVE TypeOK'
  <2>1. file[t] \in Files /\ got[t] \in Columns
    BY <1>8 DEF ReadWord, ThreadInv, InFile, Files
  <2>2. WordOf[file[t]] \in Words
    BY <2>1 DEF Words
  <2>3. slab[got[t]][WordOf[file[t]]] \in SUBSET Files
    BY <2>1, <2>2
  <2>4. QED
    BY <1>8, <2>3 DEF ReadWord
<1>9. ASSUME WriteWord(t) PROVE TypeOK'
  <2>1. file[t] \in Files /\ got[t] \in Columns
    BY <1>9 DEF WriteWord, ThreadInv, InFile, Files
  <2>2. word[t] \cup {file[t]} \in SUBSET Files
    BY <2>1
  <2>3. slab' \in [Columns -> [Words -> SUBSET Files]]
    BY <1>9, <2>2 DEF WriteWord
  <2>4. QED
    BY <1>9, <2>3 DEF WriteWord
<1>10. QED
  BY <1>1, <1>2, <1>3, <1>4, <1>5, <1>6, <1>7, <1>8, <1>9 DEF Step

\* The steps keep chunks apart, and what a thread stands on in place.
LEMMA ThreadStep ==
    ASSUME ColumnsInv, NEW t \in Threads, Step(t)
    PROVE  ThreadInv' /\ ChunkInv'
<1> USE ColumnAssumption DEF ColumnsInv, TypeOK, Goes, ThreadInv, ChunkInv, InFile, InKey
<1>1. ASSUME TakeChunk(t) PROVE ThreadInv' /\ ChunkInv'
  BY <1>1 DEF TakeChunk
<1>2. ASSUME NextFile(t) PROVE ThreadInv' /\ ChunkInv'
  BY <1>2 DEF NextFile
<1>3. ASSUME EndChunk(t) PROVE ThreadInv' /\ ChunkInv'
  BY <1>3 DEF EndChunk
<1>4. ASSUME LoadColumn(t) PROVE ThreadInv' /\ ChunkInv'
  BY <1>4 DEF LoadColumn
<1>5. ASSUME EndFile(t) PROVE ThreadInv' /\ ChunkInv'
  <2>1. ChunkInv'
    BY <1>5 DEF EndFile
  <2>2. ASSUME NEW u \in Threads, u # t, at[u] \in InFile PROVE file[u] # file[t]
    <3>1. chunk[u] \in Chunks /\ chunk[t] \in Chunks /\ chunk[u] # chunk[t]
      BY <1>5, <2>2 DEF EndFile
    <3>2. file[u] \in FilesOf[chunk[u]] /\ file[t] \in FilesOf[chunk[t]]
      BY <1>5, <2>2 DEF EndFile
    <3>3. QED
      BY <3>1, <3>2
  <2>3. QED
    BY <1>5, <2>1, <2>2 DEF EndFile
<1>6. ASSUME FetchAdd(t) PROVE ThreadInv' /\ ChunkInv'
  <2>1. ~UsedUp => next \in Columns
    BY DEF UsedUp, Columns
  <2>2. QED
    BY <1>6, <2>1 DEF FetchAdd
<1>7. ASSUME CompareExchange(t) PROVE ThreadInv' /\ ChunkInv'
  <2>1. file[t] \in Files
    BY <1>7 DEF CompareExchange, Files
  <2>2. key[t] \in Keys
    BY <1>7, <2>1 DEF CompareExchange
  <2>3. QED
    BY <1>7, <2>2 DEF CompareExchange
<1>8. ASSUME ReadWord(t) PROVE ThreadInv' /\ ChunkInv'
  BY <1>8 DEF ReadWord
<1>9. ASSUME WriteWord(t) PROVE ThreadInv' /\ ChunkInv'
  BY <1>9 DEF WriteWord
<1>10. QED
  BY <1>1, <1>2, <1>3, <1>4, <1>5, <1>6, <1>7, <1>8, <1>9 DEF Step

\* What is below the modulus is its own remainder.
LEMMA SmallMod ==
    ASSUME NEW n \in Nat \ {0}, NEW x \in 0..(n - 1)
    PROVE  x % n = x
  OBVIOUS

\* Until a thread is refused a column, every step keeps the bits sound.
LEMMA SoundStep ==
    ASSUME ColumnsInv, NEW t \in Threads, Step(t), ~refused'
    PROVE  Sound'
<1> USE ColumnAssumption DEF ColumnsInv, TypeOK, Goes
<1>0. ~refused /\ ColumnInv /\ HandInv /\ BitInv /\ RecordInv
  BY DEF Step, Sound, TakeChunk, NextFile, EndChunk, LoadColumn, EndFile, FetchAdd, CompareExchange,
         ReadWord, WriteWord
<1>1. ASSUME TakeChunk(t) PROVE Sound'
  <2>1. ColumnInv'
    BY <1>0, <1>1 DEF TakeChunk, ColumnInv
  <2>2. HandInv'
    BY <1>0, <1>1 DEF TakeChunk, HandInv
  <2>3. BitInv'
    BY <1>0, <1>1 DEF TakeChunk, BitInv
  <2>4. RecordInv'
    BY <1>0, <1>1 DEF TakeChunk, RecordInv, Recorded, HasBit, InFile, InKey, ThreadInv
  <2>5. QED
    BY <2>1, <2>2, <2>3, <2>4 DEF Sound
<1>2. ASSUME NextFile(t) PROVE Sound'
  <2>1. ColumnInv'
    BY <1>0, <1>2 DEF NextFile, ColumnInv
  <2>2. HandInv'
    BY <1>0, <1>2 DEF NextFile, HandInv
  <2>3. BitInv'
    BY <1>0, <1>2 DEF NextFile, BitInv
  <2>4. RecordInv'
    BY <1>0, <1>2 DEF NextFile, RecordInv, Recorded, HasBit, InFile, InKey, ThreadInv
  <2>5. QED
    BY <2>1, <2>2, <2>3, <2>4 DEF Sound
<1>3. ASSUME EndChunk(t) PROVE Sound'
  <2>1. ColumnInv'
    BY <1>0, <1>3 DEF EndChunk, ColumnInv
  <2>2. HandInv'
    BY <1>0, <1>3 DEF EndChunk, HandInv
  <2>3. BitInv'
    BY <1>0, <1>3 DEF EndChunk, BitInv
  <2>4. RecordInv'
    BY <1>0, <1>3 DEF EndChunk, RecordInv, Recorded, HasBit, InFile, InKey, ThreadInv
  <2>5. QED
    BY <2>1, <2>2, <2>3, <2>4 DEF Sound
<1>4. ASSUME LoadColumn(t) PROVE Sound'
  <2>1. ColumnInv'
    BY <1>0, <1>4 DEF LoadColumn, ColumnInv
  <2>2. HandInv'
    BY <1>0, <1>4 DEF LoadColumn, HandInv
  <2>3. BitInv'
    BY <1>0, <1>4 DEF LoadColumn, BitInv
  <2>4. RecordInv'
    BY <1>0, <1>4 DEF LoadColumn, RecordInv, Recorded, HasBit, InFile, InKey, ThreadInv
  <2>5. QED
    BY <2>1, <2>2, <2>3, <2>4 DEF Sound
<1>5. ASSUME EndFile(t) PROVE Sound'
  <2>1. ColumnInv'
    BY <1>0, <1>5 DEF EndFile, ColumnInv
  <2>2. HandInv'
    BY <1>0, <1>5 DEF EndFile, HandInv
  <2>3. BitInv'
    BY <1>0, <1>5 DEF EndFile, BitInv
  <2>4. RecordInv'
    BY <1>0, <1>5 DEF EndFile, RecordInv, Recorded, HasBit, InFile, InKey, ThreadInv
  <2>5. QED
    BY <2>1, <2>2, <2>3, <2>4 DEF Sound
<1>6. ASSUME FetchAdd(t) PROVE Sound'
  <2>1. /\ next < MaxColumns /\ next' = next + 1
        /\ at[t] = "alloc" /\ at' = [at EXCEPT ![t] = "swap"] /\ got' = [got EXCEPT ![t] = next]
        /\ UNCHANGED <<lookup, slab, todo, chunk, file, key, seen, word, done>>
    <3>1. at[t] = "alloc" /\ next < MaxColumns
      <4>1. at[t] = "alloc" /\ refused' = (refused \/ next >= MaxColumns)
        BY <1>6 DEF FetchAdd
      <4>2. ~(next >= MaxColumns)
        BY <4>1, Zenon
      <4>3. QED
        BY <4>1, <4>2
    <3>2. next + 1 \in 0..(Wrap - 1) /\ Wrap \in Nat \ {0}
      BY <3>1
    <3>3. next' = next + 1
      <4>1. (next + 1) % Wrap = next + 1
        BY <3>2, SmallMod
      <4>2. QED
        BY <1>6, <4>1 DEF FetchAdd
    <3>4. ~UsedUp
      BY <3>1 DEF UsedUp
    <3>5. QED
      BY <1>6, <3>1, <3>3, <3>4 DEF FetchAdd
  <2>2. ColumnInv'
    <3>1. \A k \in Keys : lookup[k] # next
      BY <1>0, <2>1 DEF ColumnInv
    <3>2. \A u \in Threads : at[u] = "swap" => got[u] < next /\ got[u] # next
      BY <1>0, <2>1 DEF ColumnInv
    <3>3. next' <= MaxColumns /\ \A k \in Keys : lookup'[k] # NoColumn => lookup'[k] < next'
      BY <1>0, <2>1 DEF ColumnInv, Columns
    <3>4. \A j, k \in Keys : lookup'[j] = lookup'[k] /\ lookup'[j] # NoColumn => j = k
      BY <1>0, <2>1 DEF ColumnInv
    <3>5. ASSUME NEW u \in Threads, at'[u] = "swap"
          PROVE  /\ got'[u] < next' /\ \A k \in Keys : lookup'[k] # got'[u]
                 /\ \A v \in Threads : at'[v] = "swap" /\ got'[v] = got'[u] => v = u
      <4>1. CASE u = t
        BY <2>1, <3>1, <3>2, <3>5, <4>1
      <4>2. CASE u # t
        <5>1. at[u] = "swap" /\ got'[u] = got[u]
          BY <2>1, <3>5, <4>2
        <5>2. got'[u] < next'
          <6>1. got[u] \in Columns /\ got[u] < next
            BY <3>2, <5>1 DEF ThreadInv
          <6>2. QED
            BY <2>1, <5>1, <6>1 DEF Columns
        <5>3. \A k \in Keys : lookup'[k] # got'[u]
          BY <1>0, <2>1, <5>1 DEF ColumnInv
        <5>4. \A v \in Threads : at'[v] = "swap" /\ got'[v] = got'[u] => v = u
          BY <1>0, <2>1, <3>2, <5>1 DEF ColumnInv
        <5>5. QED
          BY <5>2, <5>3, <5>4
      <4>3. QED
        BY <4>1, <4>2
    <3>6. QED
      BY <3>3, <3>4, <3>5 DEF ColumnInv
  <2>3. HandInv'
    BY <1>0, <2>1 DEF HandInv
  <2>4. BitInv'
    BY <1>0, <2>1 DEF BitInv
  <2>5. RecordInv'
    BY <1>0, <2>1 DEF RecordInv, Recorded, HasBit, InFile, InKey
  <2>6. QED
    BY <2>2, <2>3, <2>4, <2>5 DEF Sound
<1>7. ASSUME CompareExchange(t) PROVE Sound'
  <2>1. at[t] = "swap" /\ got[t] \in Columns /\ file[t] \in Files
    BY <1>7 DEF CompareExchange, ThreadInv, InFile, Files
  <2>2. key[t] \in Keys /\ at' = [at EXCEPT ![t] = "read"]
    BY <1>7, <2>1 DEF CompareExchange, ThreadInv, InFile, InKey
  <2>3. UNCHANGED <<next, slab, todo, chunk, file, key, seen, word, done>>
    BY <1>7 DEF CompareExchange
  <2>4. CASE lookup[key[t]] = NoColumn
    <3>1. lookup' = [lookup EXCEPT ![key[t]] = got[t]] /\ got' = got
      BY <1>7, <2>4 DEF CompareExchange
    <3>2. \A k \in Keys : lookup[k] # NoColumn => lookup'[k] = lookup[k]
      BY <2>2, <2>4, <3>1
    <3>3. ColumnInv'
      <4>1. \A k \in Keys : lookup'[k] = IF k = key[t] THEN got[t] ELSE lookup[k]
        BY <2>2, <3>1
      <4>2. got[t] < next /\ \A k \in Keys : lookup[k] # got[t]
        BY <1>0, <2>1 DEF ColumnInv
      <4>3. \A u \in Threads : u # t /\ at[u] = "swap" => got[u] # got[t]
        BY <1>0, <2>1 DEF ColumnInv
      <4>4. \A j, k \in Keys : lookup'[j] = lookup'[k] /\ lookup'[j] # NoColumn => j = k
        BY <1>0, <4>1, <4>2 DEF ColumnInv
      <4>5. next' <= MaxColumns /\ \A k \in Keys : lookup'[k] # NoColumn => lookup'[k] < next'
        BY <1>0, <2>3, <4>1, <4>2 DEF ColumnInv
      <4>6. ASSUME NEW u \in Threads, at'[u] = "swap"
            PROVE  /\ got'[u] < next' /\ \A k \in Keys : lookup'[k] # got'[u]
                   /\ \A v \in Threads : at'[v] = "swap" /\ got'[v] = got'[u] => v = u
        <5>1. u # t /\ at[u] = "swap"
          BY <2>2, <4>6
        <5>2. QED
          BY <1>0, <2>2, <2>3, <3>1, <4>1, <4>3, <5>1 DEF ColumnInv
      <4>7. QED
        BY <4>4, <4>5, <4>6 DEF ColumnInv
    <3>4. HandInv'
      <4>1. ASSUME NEW u \in Threads, at'[u] \in {"read", "write"} PROVE lookup'[key'[u]] = got'[u]
        <5>1. CASE u = t
          BY <2>2, <2>3, <3>1, <5>1
        <5>2. CASE u # t
          <6>1. at[u] \in {"read", "write"}
            BY <2>2, <4>1, <5>2
          <6>2. lookup[key[u]] = got[u] /\ got[u] \in Columns /\ file[u] \in Files
            BY <1>0, <6>1 DEF HandInv, ThreadInv, InFile, Files
          <6>3. key[u] \in Keys
            BY <6>1, <6>2 DEF ThreadInv, InFile, InKey
          <6>4. lookup[key[u]] # NoColumn
            BY <6>2 DEF Columns
          <6>5. QED
            BY <2>3, <3>1, <3>2, <6>2, <6>3, <6>4
        <5>3. QED
          BY <5>1, <5>2
      <4>2. \A u \in Threads : at'[u] = "write" => word'[u] = slab'[got'[u]][WordOf[file'[u]]]
        BY <1>0, <2>2, <2>3, <3>1 DEF HandInv
      <4>3. QED
        BY <4>1, <4>2 DEF HandInv
    <3>5. BitInv'
      <4>1. ASSUME NEW c \in Columns, NEW w \in Words, NEW f \in slab[c][w]
            PROVE  WordOf[f] = w /\ \E k \in KeysOf[f] : lookup'[k] = c
        <5>1. f \in Files
          OBVIOUS
        <5>2. PICK k \in KeysOf[f] : lookup[k] = c
          BY <1>0 DEF BitInv
        <5>3. k \in Keys /\ c # NoColumn
          BY <5>1 DEF Columns
        <5>4. QED
          BY <1>0, <3>2, <5>2, <5>3 DEF BitInv
      <4>2. QED
        BY <2>3, <4>1 DEF BitInv
    <3>6. RecordInv'
      <4>1. \A f \in Files : \A k \in KeysOf[f] : Recorded(f, k) => Recorded(f, k)'
        BY <2>3, <3>2 DEF Recorded, HasBit
      <4>2. \A f \in done' : \A k \in KeysOf[f] : Recorded(f, k)'
        BY <1>0, <2>3, <4>1 DEF RecordInv
      <4>3. ASSUME NEW u \in Threads, at'[u] \in InFile, NEW k \in seen'[u]
            PROVE  (at'[u] \in InKey /\ k = key'[u]) \/ Recorded(file[u], k)'
        <5>1. at[u] \in InFile /\ (at[u] \in InKey => at'[u] \in InKey)
          BY <2>1, <2>2, <4>3 DEF InFile, InKey
        <5>2. file[u] \in Files /\ k \in KeysOf[file[u]]
          BY <2>3, <5>1 DEF ThreadInv, Files, InFile
        <5>3. (at[u] \in InKey /\ k = key[u]) \/ Recorded(file[u], k)
          BY <1>0, <2>3, <5>1 DEF RecordInv
        <5>4. QED
          BY <2>3, <4>1, <5>1, <5>2, <5>3
      <4>4. QED
        BY <2>3, <4>2, <4>3 DEF RecordInv, Recorded, HasBit
    <3>7. QED
      BY <3>3, <3>4, <3>5, <3>6 DEF Sound
  <2>5. CASE lookup[key[t]] # NoColumn
    <3>1. got' = [got EXCEPT ![t] = lookup[key[t]]] /\ lookup' = lookup
      BY <1>7, <2>5 DEF CompareExchange
    <3>2. ColumnInv'
      <4>1. ASSUME NEW u \in Threads, at'[u] = "swap" PROVE u # t /\ at[u] = "swap" /\ got'[u] = got[u]
        BY <2>2, <3>1, <4>1
      <4>2. QED
        BY <1>0, <2>3, <3>1, <4>1 DEF ColumnInv
    <3>3. HandInv'
      BY <1>0, <2>2, <2>3, <3>1 DEF HandInv
    <3>4. BitInv'
      BY <1>0, <2>3, <3>1 DEF BitInv
    <3>5. RecordInv'
      BY <1>0, <2>1, <2>2, <2>3, <3>1 DEF RecordInv, Recorded, HasBit, InFile, InKey
    <3>6. QED
      BY <3>2, <3>3, <3>4, <3>5 DEF Sound
  <2>6. QED
    BY <2>4, <2>5
<1>8. ASSUME ReadWord(t) PROVE Sound'
  <2>1. ColumnInv'
    BY <1>0, <1>8 DEF ReadWord, ColumnInv
  <2>2. HandInv'
    BY <1>0, <1>8 DEF ReadWord, HandInv
  <2>3. BitInv'
    BY <1>0, <1>8 DEF ReadWord, BitInv
  <2>4. RecordInv'
    BY <1>0, <1>8 DEF ReadWord, RecordInv, Recorded, HasBit, InFile, InKey, ThreadInv
  <2>5. QED
    BY <2>1, <2>2, <2>3, <2>4 DEF Sound
<1>9. ASSUME WriteWord(t) PROVE Sound'
  <2>1. at[t] = "write" /\ got[t] \in Columns /\ file[t] \in Files /\ at' = [at EXCEPT ![t] = "key"]
    BY <1>9 DEF WriteWord, ThreadInv, InFile, Files
  <2>2. key[t] \in KeysOf[file[t]] /\ lookup[key[t]] = got[t] /\ WordOf[file[t]] \in Words
    BY <1>0, <2>1 DEF ThreadInv, HandInv, InFile, InKey, Words
  <2>3. UNCHANGED <<lookup, next, todo, chunk, file, key, seen, got, word, done>>
    BY <1>9 DEF WriteWord
  <2>4. \A c \in Columns : \A w \in Words :
            slab'[c][w] = IF c = got[t] /\ w = WordOf[file[t]] THEN slab[c][w] \cup {file[t]}
                                                               ELSE slab[c][w]
    <3>1. word[t] = slab[got[t]][WordOf[file[t]]]
      BY <1>0, <2>1 DEF HandInv
    <3>2. slab' = [slab EXCEPT ![got[t]][WordOf[file[t]]] = word[t] \cup {file[t]}]
      BY <1>9 DEF WriteWord
    <3>3. QED
      BY <2>1, <2>2, <3>1, <3>2
  <2>5. ColumnInv'
    BY <1>0, <2>1, <2>3 DEF ColumnInv
  <2>6. HandInv'
    <3>1. ASSUME NEW u \in Threads, at'[u] = "write" PROVE word'[u] = slab'[got'[u]][WordOf[file'[u]]]
      <4>1. u # t /\ at[u] = "write" /\ got[u] \in Columns /\ file[u] \in FilesOf[chunk[u]]
        BY <2>1, <3>1 DEF ThreadInv, InFile
      <4>2. chunk[u] \in Chunks /\ chunk[t] \in Chunks /\ chunk[u] # chunk[t]
        BY <2>1, <4>1 DEF ThreadInv, ChunkInv
      <4>3. file[t] \in FilesOf[chunk[t]]
        BY <2>1 DEF ThreadInv, InFile
      <4>4. WordOf[file[u]] # WordOf[file[t]] /\ WordOf[file[u]] \in Words
        BY <4>1, <4>2, <4>3 DEF Words, Files
      <4>5. slab'[got[u]][WordOf[file[u]]] = slab[got[u]][WordOf[file[u]]]
        BY <2>4, <4>1, <4>4, ZenonT(60)
      <4>6. word[u] = slab[got[u]][WordOf[file[u]]]
        BY <1>0, <4>1 DEF HandInv
      <4>7. QED
        BY <2>3, <4>5, <4>6
    <3>2. QED
      BY <1>0, <2>1, <2>3, <3>1 DEF HandInv
  <2>7. BitInv'
    <3>1. ASSUME NEW c \in Columns, NEW w \in Words, NEW f \in slab'[c][w]
          PROVE  WordOf[f] = w /\ \E k \in KeysOf[f] : lookup[k] = c
      <4>1. CASE f \in slab[c][w]
        BY <1>0, <4>1 DEF BitInv
      <4>2. CASE f \notin slab[c][w]
        <5>1. slab'[c][w] = IF c = got[t] /\ w = WordOf[file[t]] THEN slab[c][w] \cup {file[t]}
                                                                 ELSE slab[c][w]
          BY <2>4
        <5>2. c = got[t] /\ w = WordOf[file[t]] /\ f = file[t]
          BY <3>1, <4>2, <5>1
        <5>3. QED
          BY <2>2, <5>2
      <4>3. QED
        BY <4>1, <4>2
    <3>2. QED
      BY <2>3, <3>1 DEF BitInv
  <2>8. RecordInv'
    <3>1. ASSUME NEW f \in Files, NEW k \in KeysOf[f], Recorded(f, k) PROVE Recorded(f, k)'
      <4>1. lookup[k] \in Columns /\ WordOf[f] \in Words
        BY <3>1 DEF Recorded, Words
      <4>2. QED
        BY <2>3, <2>4, <3>1, <4>1, ZenonT(60) DEF Recorded, HasBit
    <3>2. Recorded(file[t], key[t])'
      <4>1. slab'[got[t]][WordOf[file[t]]] = slab[got[t]][WordOf[file[t]]] \cup {file[t]}
        BY <2>1, <2>2, <2>4
      <4>2. lookup'[key'[t]] = got[t] /\ file'[t] = file[t] /\ got[t] # NoColumn
        BY <2>1, <2>2, <2>3 DEF Columns
      <4>3. file[t] \in slab'[got[t]][WordOf[file[t]]]
        BY <4>1
      <4>4. QED
        BY <4>2, <4>3 DEF Recorded, HasBit
    <3>3. \A f \in done' : \A k \in KeysOf[f] : Recorded(f, k)'
      BY <1>0, <2>3, <3>1 DEF RecordInv
    <3>4. ASSUME NEW u \in Threads, at'[u] \in InFile, NEW k \in seen'[u]
          PROVE  (at'[u] \in InKey /\ k = key'[u]) \/ Recorded(file[u], k)'
      <4>1. at[u] \in InFile /\ (u # t => at'[u] = at[u])
        BY <2>1, <3>4 DEF InFile
      <4>2. file[u] \in Files /\ k \in KeysOf[file[u]]
        BY <2>3, <4>1 DEF ThreadInv, Files, InFile
      <4>3. (at[u] \in InKey /\ k = key[u]) \/ Recorded(file[u], k)
        BY <1>0, <2>3, <4>1 DEF RecordInv
      <4>4. CASE u = t /\ k = key[u]
        BY <2>3, <3>2, <4>4 DEF Recorded, HasBit
      <4>5. CASE ~(u = t /\ k = key[u])
        <5>1. Recorded(file[u], k) => Recorded(file[u], k)'
          BY <2>3, <3>1, <4>2 DEF Recorded, HasBit
        <5>2. QED
          BY <2>3, <4>1, <4>3, <4>5, <5>1
      <4>6. QED
        BY <4>4, <4>5
    <3>5. QED
      BY <2>3, <3>3, <3>4 DEF RecordInv, Recorded, HasBit
  <2>9. QED
    BY <2>5, <2>6, <2>7, <2>8 DEF Sound
<1>10. QED
  BY <1>1, <1>2, <1>3, <1>4, <1>5, <1>6, <1>7, <1>8, <1>9 DEF Step
-----------------------------------------------------------------------------
LEMMA ColumnsInitInv == Init => ColumnsInv
<1> SUFFICES ASSUME Init PROVE ColumnsInv
  OBVIOUS
<1> USE ColumnAssumption DEF Init
<1>1. TypeOK
  <2>1. next \in 0..(Wrap - 1)
    OBVIOUS
  <2>5. refused \in BOOLEAN
    BY Zenon
  <2>2. slab \in [Columns -> [Words -> SUBSET Files]]
    <3>1. [w \in Words |-> {}] \in [Words -> SUBSET Files]
      OBVIOUS
    <3>2. slab = [c \in Columns |-> [w \in Words |-> {}]]
      OBVIOUS
    <3>3. QED
      BY <3>1, <3>2
  <2>3. lookup \in [Keys -> Columns \cup {NoColumn}] /\ got \in [Threads -> Columns \cup {NoColumn}]
    OBVIOUS
  <2>4. QED
    BY <2>1, <2>2, <2>3, <2>5 DEF TypeOK
<1>2. ThreadInv /\ ChunkInv
  BY DEF ThreadInv, ChunkInv, InFile, InKey
<1>3. Sound
  <2>1. ColumnInv
    BY DEF ColumnInv
  <2>2. HandInv /\ BitInv
    BY DEF HandInv, BitInv
  <2>3. RecordInv
    BY DEF RecordInv, InFile
  <2>4. QED
    BY <2>1, <2>2, <2>3 DEF Sound
<1>4. QED
  BY <1>1, <1>2, <1>3 DEF ColumnsInv

LEMMA ColumnsNextInv == ColumnsInv /\ [Next]_vars => ColumnsInv'
<1> SUFFICES ASSUME ColumnsInv, [Next]_vars PROVE ColumnsInv'
  OBVIOUS
<1>1. CASE Next
  <2>1. PICK t \in Threads : Step(t)
    BY <1>1 DEF Next
  <2>2. TypeOK' /\ ThreadInv' /\ ChunkInv'
    BY <2>1, ColumnsTypeStep, ThreadStep
  <2>3. ~refused' => Sound'
    BY <2>1, SoundStep
  <2>4. QED
    BY <2>2, <2>3 DEF ColumnsInv
<1>2. CASE UNCHANGED vars
  BY <1>2 DEF vars, thread, ColumnsInv, TypeOK, ThreadInv, ChunkInv, Sound, ColumnInv, HandInv, BitInv,
              RecordInv, Recorded, HasBit
<1>3. QED
  BY <1>1, <1>2

LEMMA ColumnsSpecInv == Spec => []ColumnsInv
  BY ColumnsInitInv, ColumnsNextInv, PTL DEF Spec

\* The variables keep to their types: no step writes a column that is none.
THEOREM ColumnsTypeCorrect == Spec => []TypeOK
<1>1. ColumnsInv => TypeOK
  BY DEF ColumnsInv
<1>2. QED
  BY <1>1, ColumnsSpecInv, PTL

\* The plain read-modify-write of a word, and the race for a column, lose and add
\* no bit before the columns are used up.
THEOREM Complete == Spec => []ColumnsAreComplete
<1>1. ColumnsInv => ColumnsAreComplete
  <2> SUFFICES ASSUME ColumnsInv, ~refused, NEW k \in Keys, lookup[k] # NoColumn
               PROVE  /\ \A f \in done : k \in KeysOf[f] => HasBit(f, lookup[k])
                      /\ \A f \in Files : HasBit(f, lookup[k]) => k \in KeysOf[f]
                      /\ \A j \in Keys : lookup[j] = lookup[k] => j = k
    BY DEF ColumnsAreComplete
  <2> USE ColumnAssumption DEF ColumnsInv, TypeOK, Sound
  <2>1. \A f \in done : k \in KeysOf[f] => HasBit(f, lookup[k])
    BY DEF RecordInv, Recorded
  <2>2. \A j \in Keys : lookup[j] = lookup[k] => j = k
    BY DEF ColumnInv
  <2>3. ASSUME NEW f \in Files, HasBit(f, lookup[k]) PROVE k \in KeysOf[f]
    <3>1. lookup[k] \in Columns /\ WordOf[f] \in Words
      BY DEF Words
    <3>2. PICK j \in KeysOf[f] : lookup[j] = lookup[k]
      BY <2>3, <3>1 DEF BitInv, HasBit
    <3>3. QED
      BY <2>2, <3>2
  <2>4. QED
    BY <2>1, <2>2, <2>3
<1>2. QED
  BY <1>1, ColumnsSpecInv, PTL

\* A bigram of an indexed file has a column, whoever lost the swap for it.
THEOREM Dropped == Spec => []NothingDropped
<1>1. ColumnsInv => NothingDropped
  BY DEF ColumnsInv, Sound, RecordInv, Recorded, NothingDropped
<1>2. QED
  BY <1>1, ColumnsSpecInv, PTL
-----------------------------------------------------------------------------
(***************************************************************************)
(* The content cache.                                                      *)
(***************************************************************************)
Free == {r \in Readers : stage[r] \in {"out", "bytes"}}

\* A reader is in one of three places.
PlaceInv == Cardinality(Admitted) + Cardinality(Unbumped) + Cardinality(Free) = Cardinality(Readers)

\* Workers run in the post-scan phase, and on the part of the table it took.
WorkerInv ==
    \A r \in Workers : stage[r] # "out" => phase = "post" /\ reading[r] \notin Overflow

\* What a reader is about to store is on the disk, or the file has an event, or
\* the watcher has been there since.
LoadedInv ==
    \A r \in Readers :
        stage[r] = "fill" /\ r \notin overtaken /\ reading[r] \notin dirty => loaded[r] = disk[reading[r]]

Accounted == PlaceInv /\ EveryCellCounted /\ OvershootIsBounded

\* The inductive invariant.
CacheInv == CacheTypeOK /\ WorkerInv /\ LoadedInv /\ CacheIsFresh /\ Accounted
-----------------------------------------------------------------------------
\* Every step keeps the variables in their types.
LEMMA CacheTypeStep ==
    ASSUME CacheInv, [CacheNext]_cacheVars
    PROVE  CacheTypeOK'
<1> USE CacheAssumption DEF CacheInv, CacheTypeOK, table, budget, reader, ghosts, Empty
<1>1. ASSUME NEW r \in Readers, NEW f \in Items, Begin(r, f) PROVE CacheTypeOK'
  BY <1>1 DEF Begin
<1>2. ASSUME NEW r \in Readers, Load(r) PROVE CacheTypeOK'
  BY <1>2 DEF Load
<1>3. ASSUME NEW r \in Readers, Fill(r) PROVE CacheTypeOK'
  <2>1. reading[r] \in Items /\ loaded[r] \in -1..MaxEdits
    BY <1>3 DEF Fill
  <2>2. cell' \in [Items -> -1..MaxEdits] /\ outdated' \subseteq Items
    BY <1>3, <2>1, ZenonT(60) DEF Fill
  <2>3. QED
    BY <1>3, <2>2 DEF Fill
<1>4. ASSUME NEW r \in Readers, BumpCount(r) PROVE CacheTypeOK'
  <2>1. count' \in Int /\ stage' \in [Readers -> {"out", "load", "fill", "count", "bytes"}]
    BY <1>4 DEF BumpCount
  <2>2. \A q \in Readers : stage'[q] # "out" => reading[q] \in Items
    BY <1>4 DEF BumpCount
  <2>3. QED
    BY <1>4, <2>1, <2>2 DEF BumpCount
<1>5. ASSUME NEW r \in Readers, BumpBytes(r) PROVE CacheTypeOK'
  <2>1. reading[r] \in Items
    BY <1>5 DEF BumpBytes
  <2>2. bytes + SizeOf[known[reading[r]]] \in Int
    BY <2>1
  <2>3. QED
    BY <1>5, <2>2 DEF BumpBytes
<1>6. ASSUME NEW f \in Items, Edit(f) PROVE CacheTypeOK'
  <2>1. disk[f] + 1 \in 0..MaxEdits
    BY <1>6, SMTT(30) DEF Edit
  <2>2. QED
    BY <1>6, <2>1 DEF Edit
<1>7. ASSUME NEW f \in Items, Refresh(f) PROVE CacheTypeOK'
  <2>1. Passed(f) \subseteq Workers
    BY DEF Passed
  <2>2. count' \in Int /\ bytes' \in Int
    BY <1>7 DEF Refresh, CountWithout
  <2>3. cell' \in [Items -> -1..MaxEdits]
    BY <1>7 DEF Refresh
  <2>4. known' \in [Items -> 0..MaxEdits]
    BY <1>7 DEF Refresh
  <2>5. QED
    BY <1>7, <2>1, <2>2, <2>3, <2>4 DEF Refresh
<1>8. ASSUME NEW f \in Items, Repush(f) PROVE CacheTypeOK'
  <2>1. cell' \in [Items -> -1..MaxEdits]
    BY <1>8 DEF Repush
  <2>2. known' \in [Items -> 0..MaxEdits]
    BY <1>8 DEF Repush
  <2>3. QED
    BY <1>8, <2>1, <2>2 DEF Repush
<1>9. CASE SwapBudget
  BY <1>9 DEF SwapBudget, Cached
<1>10. CASE KeepBudget
  BY <1>10 DEF KeepBudget
<1>11. CASE Snapshot
  BY <1>11 DEF Snapshot
<1>12. CASE EndPost
  BY <1>12 DEF EndPost
<1>13. CASE Commit
  BY <1>13 DEF Commit
<1>14. CASE UNCHANGED cacheVars
  BY <1>14 DEF cacheVars
<1>15. QED
  BY <1>1, <1>2, <1>3, <1>4, <1>5, <1>6, <1>7, <1>8, <1>9, <1>10, <1>11, <1>12, <1>13, <1>14
     DEF CacheNext, Read

\* Every step keeps what is stored, or about to be, up to date.
LEMMA FreshStep ==
    ASSUME CacheInv, [CacheNext]_cacheVars
    PROVE  WorkerInv' /\ LoadedInv' /\ CacheIsFresh'
<1> USE CacheAssumption
        DEF CacheInv, CacheTypeOK, table, budget, reader, ghosts, Empty, WorkerInv, LoadedInv,
            CacheIsFresh, Cached, Readers
<1>1. ASSUME NEW r \in Readers, NEW f \in Items, Begin(r, f) PROVE WorkerInv' /\ LoadedInv' /\ CacheIsFresh'
  BY <1>1 DEF Begin
<1>2. ASSUME NEW r \in Readers, Load(r) PROVE WorkerInv' /\ LoadedInv' /\ CacheIsFresh'
  BY <1>2 DEF Load
<1>3. ASSUME NEW r \in Readers, Fill(r) PROVE WorkerInv' /\ LoadedInv' /\ CacheIsFresh'
  <2>1. WorkerInv' /\ LoadedInv'
    BY <1>3 DEF Fill
  <2>2. CacheIsFresh'
    BY <1>3, SMTT(30) DEF Fill
  <2>3. QED
    BY <2>1, <2>2
<1>4. ASSUME NEW r \in Readers, BumpCount(r) PROVE WorkerInv' /\ LoadedInv' /\ CacheIsFresh'
  BY <1>4 DEF BumpCount
<1>5. ASSUME NEW r \in Readers, BumpBytes(r) PROVE WorkerInv' /\ LoadedInv' /\ CacheIsFresh'
  BY <1>5 DEF BumpBytes
<1>6. ASSUME NEW f \in Items, Edit(f) PROVE WorkerInv' /\ LoadedInv' /\ CacheIsFresh'
  BY <1>6 DEF Edit
<1>7. ASSUME NEW f \in Items, Refresh(f) PROVE WorkerInv' /\ LoadedInv' /\ CacheIsFresh'
  <2>1. WorkerInv' /\ CacheIsFresh'
    BY <1>7 DEF Refresh
  <2>2. LoadedInv'
    BY <1>7 DEF Refresh, WriteLock, Passed
  <2>3. QED
    BY <2>1, <2>2
<1>8. ASSUME NEW f \in Items, Repush(f) PROVE WorkerInv' /\ LoadedInv' /\ CacheIsFresh'
  BY <1>8, ZenonT(60) DEF Repush, WriteLock
<1>9. CASE SwapBudget
  BY <1>9 DEF SwapBudget
<1>10. CASE KeepBudget
  BY <1>10 DEF KeepBudget
<1>11. CASE Snapshot
  BY <1>11 DEF Snapshot
<1>12. CASE EndPost
  BY <1>12 DEF EndPost
<1>13. CASE Commit
  BY <1>13 DEF Commit, WriteLock
<1>14. CASE UNCHANGED cacheVars
  BY <1>14 DEF cacheVars
<1>15. QED
  BY <1>1, <1>2, <1>3, <1>4, <1>5, <1>6, <1>7, <1>8, <1>9, <1>10, <1>11, <1>12, <1>13, <1>14
     DEF CacheNext, Read
-----------------------------------------------------------------------------
\* The sets that are counted are finite.
LEMMA FiniteParts ==
    ASSUME CacheTypeOK
    PROVE  \A S \in {Cached, Admitted, Unbumped, Free, uncounted, Readers} :
                IsFiniteSet(S) /\ Cardinality(S) \in Nat
<1>1. \A S \in SUBSET Items : IsFiniteSet(S)
  BY CacheAssumption, FS_Subset
<1>2. \A S \in SUBSET Readers : IsFiniteSet(S)
  BY CacheAssumption, FS_Subset
<1>3. Cached \in SUBSET Items /\ uncounted \in SUBSET Items
  BY DEF Cached, CacheTypeOK
<1>4. Admitted \in SUBSET Readers /\ Unbumped \in SUBSET Readers /\ Free \in SUBSET Readers
  BY DEF Admitted, Unbumped, Free
<1>5. QED
  BY <1>1, <1>2, <1>3, <1>4, FS_CardinalityType

\* Every step keeps the counter at the filled cells or above, and the readers
\* that passed the test within the overshoot.
LEMMA CountStep ==
    ASSUME CacheInv, [CacheNext]_cacheVars
    PROVE  Accounted'
<1> USE DEF table, budget, reader, ghosts, Accounted
<1> DEFINE C(S) == Cardinality(S)
<1>t. CacheTypeOK /\ WorkerInv
  BY DEF CacheInv
<1>a. /\ C(Cached) \in Nat /\ C(Admitted) \in Nat /\ C(Unbumped) \in Nat /\ C(Free) \in Nat
      /\ C(uncounted) \in Nat /\ C(Readers) \in Nat
      /\ IsFiniteSet(Cached) /\ IsFiniteSet(Admitted) /\ IsFiniteSet(Unbumped) /\ IsFiniteSet(Free)
  BY <1>t, FiniteParts
<1>b. Limits[limit].files \in Nat /\ count \in Int
  BY <1>t, CacheAssumption DEF CacheTypeOK
<1>e. /\ C(Admitted) + C(Unbumped) + C(Free) = C(Readers)
      /\ C(Cached) <= count + C(Unbumped) + C(uncounted)
      /\ C(Cached) + C(Admitted) <= Limits[limit].files + C(Readers) - 1 + C(uncounted)
  BY DEF CacheInv, PlaceInv, EveryCellCounted, OvershootIsBounded
<1>f. ASSUME /\ C(Admitted') + C(Unbumped') + C(Free') = C(Readers)
             /\ C(Cached') <= count' + C(Unbumped') + C(uncounted')
             /\ C(Cached') + C(Admitted') <= Limits[limit'].files + C(Readers) - 1 + C(uncounted')
      PROVE  Accounted'
  BY <1>f DEF PlaceInv, EveryCellCounted, OvershootIsBounded
<1> HIDE DEF C
<1>c. ASSUME UNCHANGED <<count, limit, stage, uncounted, cell>> PROVE Accounted'
  <2>1. Cached' = Cached /\ Admitted' = Admitted /\ Unbumped' = Unbumped /\ Free' = Free
    BY <1>c DEF Cached, Admitted, Unbumped, Free
  <2>2. QED
    BY <1>c, <1>e, <1>f, <2>1
<1>1. ASSUME NEW r \in Readers, NEW f \in Items, Begin(r, f) PROVE Accounted'
  <2>1. Cached' = Cached /\ Unbumped' = Unbumped /\ Admitted' = Admitted \cup {r} /\ Free' = Free \ {r}
    BY <1>1, <1>t DEF CacheTypeOK, Begin, Cached, Unbumped, Admitted, Free
  <2>2. r \notin Admitted /\ r \in Free
    BY <1>1, <1>t DEF CacheTypeOK, Begin, Admitted, Free
  <2>3. C(Admitted') = C(Admitted) + 1 /\ C(Free') = C(Free) - 1
    BY <1>a, <2>1, <2>2, FS_AddElement, FS_RemoveElement DEF C
  <2>4. C(Free') \in Nat
    BY <1>a, <2>1, FS_RemoveElement, FS_CardinalityType DEF C
  <2>5. UNCHANGED <<count, limit, uncounted>> /\ count < Limits[limit].files
    BY <1>1, <1>b DEF Begin, Full
  <2>6. QED
    BY <1>a, <1>b, <1>e, <1>f, <2>1, <2>3, <2>4, <2>5
<1>2. ASSUME NEW r \in Readers, Load(r) PROVE Accounted'
  <2>1. Admitted' = Admitted /\ Unbumped' = Unbumped /\ Free' = Free /\ Cached' = Cached
    BY <1>2, <1>t DEF CacheTypeOK, Load, Cached, Unbumped, Admitted, Free
  <2>2. UNCHANGED <<count, limit, uncounted>>
    BY <1>2 DEF Load
  <2>3. QED
    BY <1>e, <1>f, <2>1, <2>2
<1>3. ASSUME NEW r \in Readers, Fill(r) PROVE Accounted'
  <2>1. Admitted' = Admitted \ {r} /\ Unbumped' = Unbumped \cup {r} /\ Free' = Free
    BY <1>3, <1>t DEF CacheTypeOK, Fill, Unbumped, Admitted, Free
  <2>2. r \in Admitted /\ r \notin Unbumped
    BY <1>3, <1>t DEF CacheTypeOK, Fill, Admitted, Unbumped
  <2>3. C(Admitted') = C(Admitted) - 1 /\ C(Unbumped') = C(Unbumped) + 1
    BY <1>a, <2>1, <2>2, FS_AddElement, FS_RemoveElement DEF C
  <2>4. C(Cached') \in {C(Cached), C(Cached) + 1}
    <3>1. Cached' = Cached \/ Cached' = Cached \cup {reading[r]}
      BY <1>3, <1>t DEF CacheTypeOK, Fill, Cached, Empty
    <3>2. QED
      BY <1>a, <3>1, FS_AddElement DEF C
  <2>5. UNCHANGED <<count, limit, uncounted>>
    BY <1>3 DEF Fill
  <2>6. QED
    BY <1>a, <1>b, <1>e, <1>f, <2>1, <2>3, <2>4, <2>5
<1>4. ASSUME NEW r \in Readers, BumpCount(r) PROVE Accounted'
  <2>1. Admitted' = Admitted /\ Unbumped' = Unbumped \ {r} /\ Free' = Free \cup {r} /\ Cached' = Cached
    BY <1>4, <1>t DEF CacheTypeOK, BumpCount, Unbumped, Admitted, Free, Cached
  <2>2. r \in Unbumped /\ r \notin Free
    BY <1>4, <1>t DEF CacheTypeOK, BumpCount, Unbumped, Free
  <2>3. C(Unbumped') = C(Unbumped) - 1 /\ C(Free') = C(Free) + 1
    BY <1>a, <2>1, <2>2, FS_AddElement, FS_RemoveElement DEF C
  <2>4. count' = count + 1 /\ UNCHANGED <<limit, uncounted>>
    BY <1>4 DEF BumpCount
  <2>5. QED
    BY <1>a, <1>b, <1>e, <1>f, <2>1, <2>3, <2>4
<1>5. ASSUME NEW r \in Readers, BumpBytes(r) PROVE Accounted'
  <2>1. Admitted' = Admitted /\ Unbumped' = Unbumped /\ Free' = Free /\ Cached' = Cached
    BY <1>5, <1>t DEF CacheTypeOK, BumpBytes, Cached, Unbumped, Admitted, Free
  <2>2. UNCHANGED <<count, limit, uncounted>>
    BY <1>5 DEF BumpBytes
  <2>3. QED
    BY <1>e, <1>f, <2>1, <2>2
<1>6. ASSUME NEW f \in Items, Edit(f) PROVE Accounted'
  BY <1>6, <1>c DEF Edit
<1>7. ASSUME NEW f \in Items, Refresh(f) PROVE Accounted'
  <2>1. Cached' = Cached \ {f} /\ Admitted' = Admitted /\ Unbumped' = Unbumped /\ Free' = Free
    BY <1>7, <1>t DEF CacheTypeOK, Refresh, Cached, Admitted, Unbumped, Free
  <2>2. count' = (IF f \in Cached THEN count - 1 ELSE count) /\ UNCHANGED <<limit, uncounted>>
    BY <1>7 DEF Refresh, CountWithout
  <2>3. C(Cached') = IF f \in Cached THEN C(Cached) - 1 ELSE C(Cached)
    BY <1>a, <2>1, FS_RemoveElement DEF C
  <2>4. QED
    BY <1>a, <1>b, <1>e, <1>f, <2>1, <2>2, <2>3
<1>8. ASSUME NEW f \in Items, Repush(f) PROVE Accounted'
  <2>1. Cached' = Cached \ {f} /\ Admitted' = Admitted /\ Unbumped' = Unbumped /\ Free' = Free
    BY <1>8, <1>t DEF CacheTypeOK, Repush, Cached, Admitted, Unbumped, Free
  <2>2. C(Cached') \in {C(Cached), C(Cached) - 1}
    BY <1>a, <2>1, FS_RemoveElement DEF C
  <2>3. UNCHANGED <<count, limit, uncounted>>
    BY <1>8 DEF Repush
  <2>4. QED
    BY <1>a, <1>b, <1>e, <1>f, <2>1, <2>2, <2>3
<1>d. ASSUME WriteLock, phase # "post", UNCHANGED stage
      PROVE  Admitted' = {} /\ Unbumped' = {} /\ Free' = Readers /\ C(Readers) >= 1
  <2>1. \A r \in Readers : stage[r] = "out"
    BY <1>d, <1>t DEF WriteLock, WorkerInv, Readers
  <2>2. C(Readers) # 0
    BY CacheAssumption, FS_EmptySet DEF C
  <2>3. QED
    BY <1>a, <1>d, <2>1, <2>2 DEF Admitted, Unbumped, Free
<1>9. CASE SwapBudget
  <2>1. Admitted' = {} /\ Unbumped' = {} /\ Free' = Readers /\ C(Readers) >= 1
    BY <1>9, <1>d DEF SwapBudget
  <2>2. Cached' = Cached /\ count' = 0 /\ uncounted' = Cached
    BY <1>9 DEF SwapBudget, Cached
  <2>3. Limits[limit'].files \in Nat
    BY <1>9, CacheAssumption DEF SwapBudget
  <2>e. C({}) = 0
    BY FS_EmptySet DEF C
  <2>4. QED
    BY <1>a, <1>b, <1>e, <1>f, <2>1, <2>2, <2>3, <2>e
<1>10. CASE KeepBudget
  BY <1>10, <1>c DEF KeepBudget
<1>11. CASE Snapshot
  BY <1>11, <1>c DEF Snapshot
<1>12. CASE EndPost
  BY <1>12, <1>c DEF EndPost
<1>13. CASE Commit
  <2>1. Admitted' = {} /\ Unbumped' = {} /\ Free' = Readers /\ C(Readers) >= 1
    BY <1>13, <1>d DEF Commit
  <2>2. Cached' = {} /\ count' = 0 /\ uncounted' = {} /\ limit' = limit
    BY <1>13 DEF Commit, Cached
  <2>e. C({}) = 0
    BY FS_EmptySet DEF C
  <2>3. QED
    BY <1>a, <1>b, <1>e, <1>f, <2>1, <2>2, <2>e
<1>14. CASE UNCHANGED cacheVars
  BY <1>14, <1>c DEF cacheVars
<1>15. QED
  BY <1>1, <1>2, <1>3, <1>4, <1>5, <1>6, <1>7, <1>8, <1>9, <1>10, <1>11, <1>12, <1>13, <1>14
     DEF CacheNext, Read
-----------------------------------------------------------------------------
LEMMA CacheInitInv == CacheInit => CacheInv
<1> SUFFICES ASSUME CacheInit PROVE CacheInv
  OBVIOUS
<1> USE CacheAssumption DEF CacheInit
<1>1. CacheTypeOK
  BY DEF CacheTypeOK, Empty
<1>2. WorkerInv /\ LoadedInv
  BY DEF WorkerInv, LoadedInv, Readers
<1>3. Cached = {} /\ Admitted = {} /\ Unbumped = {} /\ Free = Readers
  BY DEF Cached, Admitted, Unbumped, Free
<1>4. CacheIsFresh
  BY <1>3 DEF CacheIsFresh
<1>5. Cardinality(Readers) \in Nat /\ Cardinality(Readers) # 0 /\ Limits[limit].files \in Nat
  BY FS_EmptySet, FS_CardinalityType
<1>6. Accounted
  BY <1>3, <1>5, FS_EmptySet DEF Accounted, PlaceInv, EveryCellCounted, OvershootIsBounded
<1>7. QED
  BY <1>1, <1>2, <1>4, <1>6 DEF CacheInv

LEMMA CacheNextInv == CacheInv /\ [CacheNext]_cacheVars => CacheInv'
<1> SUFFICES ASSUME CacheInv, [CacheNext]_cacheVars PROVE CacheInv'
  OBVIOUS
<1>1. QED
  BY CacheTypeStep, FreshStep, CountStep DEF CacheInv

LEMMA CacheSpecInv == CacheSpec => []CacheInv
  BY CacheInitInv, CacheNextInv, PTL DEF CacheSpec

\* The variables keep to their types: no step reads for a file that is none.
THEOREM CacheTypeCorrect == CacheSpec => []CacheTypeOK
<1>1. CacheInv => CacheTypeOK
  BY DEF CacheInv
<1>2. QED
  BY <1>1, CacheSpecInv, PTL

\* The file counter is never below the cells that are filled and accounted for.
THEOREM Counted == CacheSpec => []EveryCellCounted
<1>1. CacheInv => EveryCellCounted
  BY DEF CacheInv, Accounted
<1>2. QED
  BY <1>1, CacheSpecInv, PTL

\* The limit is exceeded by less than there are readers.
THEOREM Bounded == CacheSpec => []OvershootIsBounded
<1>1. CacheInv => OvershootIsBounded
  BY DEF CacheInv, Accounted
<1>2. QED
  BY <1>1, CacheSpecInv, PTL

\* A cached content with no event left to handle is the file's, but for the
\* post-scan worker the watcher overtook.
THEOREM Fresh == CacheSpec => []CacheIsFresh
<1>1. CacheInv => CacheIsFresh
  BY DEF CacheInv
<1>2. QED
  BY <1>1, CacheSpecInv, PTL

-----------------------------------------------------------------------------
(***************************************************************************)
(* The query over bigrams: numbers and functions first.                    *)
(***************************************************************************)
\* Induction on numbers, for a set.
LEMMA Counting ==
    ASSUME NEW G, 0 \in G, \A n \in Nat : n \in G => n + 1 \in G
    PROVE  Nat \subseteq G
<1> DEFINE Bad == Nat \ G
<1>1. ASSUME NEW x \in Nat, NEW y \in Nat, y < x PROVE <<y, x>> \in OpToRel(<, Nat)
  BY <1>1 DEF OpToRel
<1>2. SUFFICES ASSUME Bad # {} PROVE FALSE
  OBVIOUS
<1>3. Bad \subseteq Nat
  OBVIOUS
<1> HIDE DEF Bad
<1>4. PICK x \in Bad : \A y \in Bad : ~ (<<y, x>> \in OpToRel(<, Nat))
  BY <1>2, <1>3, NatLessThanWellFounded, WFMin
<1> USE DEF Bad
<1>5. x \in Nat /\ x # 0
  OBVIOUS
<1>6. x - 1 \in Nat /\ x - 1 < x
  BY <1>5
<1>7. x - 1 \notin Bad
  BY <1>1, <1>4, <1>5, <1>6
<1> QED BY <1>5, <1>6, <1>7

\* A sequence of steps from a beginning is defined.
Steps(f, N, S, a, F) ==
    f \in [0..N -> S] /\ f[0] = a /\ \A n \in 1..N : f[n] = F[n][f[n - 1]]

LEMMA StepsExist ==
    ASSUME NEW N \in Nat, NEW S, NEW a, NEW F, a \in S, F \in [1..N -> [S -> S]]
    PROVE  \E f : Steps(f, N, S, a, F)
<1> DEFINE Defined(m, f) == f \in [0..m -> S] /\ f[0] = a /\ \A n \in 1..m : f[n] = F[n][f[n - 1]]
           G == {m \in Nat : m <= N => \E f : Defined(m, f)}
<1>1. 0 \in G
  <2>1. Defined(0, [n \in 0..0 |-> a])
    OBVIOUS
  <2> QED BY <2>1
<1>2. ASSUME NEW m \in Nat, m \in G PROVE m + 1 \in G
  <2> SUFFICES ASSUME m + 1 <= N PROVE \E f : Defined(m + 1, f)
    OBVIOUS
  <2>1. PICK f : Defined(m, f)
    BY <1>2
  <2> DEFINE g == [n \in 0..(m + 1) |-> IF n = m + 1 THEN F[m + 1][f[m]] ELSE f[n]]
  <2>2. F[m + 1] \in [S -> S] /\ f[m] \in S
    BY <2>1
  <2>3. g \in [0..(m + 1) -> S] /\ g[0] = a
    BY <2>1, <2>2
  <2>4. ASSUME NEW n \in 1..(m + 1) PROVE g[n] = F[n][g[n - 1]]
    BY <2>1
  <2>5. Defined(m + 1, g)
    BY <2>3, <2>4
  <2> QED BY <2>5
<1> HIDE DEF G
<1>3. N \in G
  BY <1>1, <1>2, Counting
<1>4. PICK f : Defined(N, f)
  BY <1>3 DEF G
<1> QED BY <1>4 DEF Steps
-----------------------------------------------------------------------------
(***************************************************************************)
(* Trees, and what they evaluate to.                                       *)
(***************************************************************************)
IsTree(f, d) == f = [n \in 0..d |-> IF n = 0 THEN Atoms ELSE f[n - 1] \cup Over(f[n - 1])]
Levels(f, d) ==
    /\ f = [n \in 0..d |-> f[n]]
    /\ f[0] = Atoms /\ \A n \in 0..d : n + 1 <= d => f[n + 1] = f[n] \cup Over(f[n])

LEMMA TreeLevels == ASSUME NEW d \in Nat, NEW f PROVE IsTree(f, d) <=> Levels(f, d)
<1>1. ASSUME IsTree(f, d) PROVE Levels(f, d)
  <2> DEFINE e(n) == IF n = 0 THEN Atoms ELSE f[n - 1] \cup Over(f[n - 1])
  <2>1. f = [n \in 0..d |-> e(n)]
    BY <1>1 DEF IsTree
  <2> HIDE DEF e
  <2>2. \A n \in 0..d : f[n] = e(n)
    BY <2>1
  <2>3. f = [n \in 0..d |-> f[n]]
    BY <2>1
  <2>4. f[0] = Atoms
    <3>1. f[0] = e(0)
      BY <2>2
    <3> QED BY <3>1 DEF e
  <2>5. ASSUME NEW n \in 0..d, n + 1 <= d PROVE f[n + 1] = f[n] \cup Over(f[n])
    <3>1. n + 1 \in 0..d /\ n + 1 # 0 /\ (n + 1) - 1 = n
      BY <2>5
    <3> QED BY <2>2, <3>1 DEF e
  <2> QED BY <2>3, <2>4, <2>5 DEF Levels
<1>2. ASSUME Levels(f, d) PROVE IsTree(f, d)
  <2>1. ASSUME NEW n \in 0..d
        PROVE  f[n] = IF n = 0 THEN Atoms ELSE f[n - 1] \cup Over(f[n - 1])
    <3>1. CASE n = 0
      BY <1>2, <3>1 DEF Levels
    <3>2. CASE n # 0
      <4>1. n - 1 \in 0..d /\ (n - 1) + 1 = n /\ (n - 1) + 1 <= d
        BY <3>2
      <4>2. f[(n - 1) + 1] = f[n - 1] \cup Over(f[n - 1])
        BY <1>2, <4>1 DEF Levels
      <4> QED BY <3>2, <4>1, <4>2
    <3> QED BY <3>1, <3>2
  <2>2. f = [n \in 0..d |-> f[n]]
    BY <1>2 DEF Levels
  <2> QED BY <2>1, <2>2 DEF IsTree
<1> QED BY <1>1, <1>2

\* For each depth the trees are defined, and in one way.
LEMMA TreesExist == \A d \in Nat : \E f : IsTree(f, d)
<1> DEFINE G == {m \in Nat : \E f : Levels(f, m)}
<1>1. 0 \in G
  <2> DEFINE f == [n \in 0..0 |-> Atoms]
  <2>1. Levels(f, 0)
    BY DEF Levels
  <2> HIDE DEF f
  <2> QED BY <2>1
<1>2. ASSUME NEW m \in Nat, m \in G PROVE m + 1 \in G
  <2>1. PICK f : Levels(f, m)
    BY <1>2
  <2> DEFINE g == [n \in 0..(m + 1) |-> IF n = m + 1 THEN f[m] \cup Over(f[m]) ELSE f[n]]
  <2>2. g[m + 1] = f[m] \cup Over(f[m]) /\ \A n \in 0..m : g[n] = f[n]
    OBVIOUS
  <2>3. g = [n \in 0..(m + 1) |-> g[n]]
    OBVIOUS
  <2> HIDE DEF g
  <2>4. g[0] = Atoms
    BY <2>1, <2>2 DEF Levels
  <2>5. ASSUME NEW n \in 0..(m + 1), n + 1 <= m + 1 PROVE g[n + 1] = g[n] \cup Over(g[n])
    <3>1. CASE n = m
      BY <2>2, <3>1
    <3>2. CASE n # m
      <4>1. n \in 0..m /\ n + 1 \in 0..m /\ n + 1 <= m
        BY <2>5, <3>2
      <4> QED BY <2>1, <2>2, <4>1 DEF Levels
    <3> QED BY <3>1, <3>2
  <2>6. Levels(g, m + 1)
    BY <2>3, <2>4, <2>5 DEF Levels
  <2> QED BY <2>6
<1> HIDE DEF G
<1>3. Nat \subseteq G
  BY <1>1, <1>2, Counting
<1> QED BY <1>3, TreeLevels DEF G

LEMMA TreesAgree ==
    ASSUME NEW d \in Nat, NEW e \in Nat, NEW f, Levels(f, d), NEW g, Levels(g, e),
           NEW n \in Nat, n <= d, n <= e
    PROVE  f[n] = g[n]
<1> DEFINE G == {m \in Nat : m <= d /\ m <= e => f[m] = g[m]}
<1>1. 0 \in G
  BY DEF Levels
<1>2. ASSUME NEW m \in Nat, m \in G PROVE m + 1 \in G
  <2> SUFFICES ASSUME m + 1 <= d, m + 1 <= e PROVE f[m + 1] = g[m + 1]
    OBVIOUS
  <2>1. f[m] = g[m] /\ m \in 0..d /\ m \in 0..e
    BY <1>2
  <2>2. f[m + 1] = f[m] \cup Over(f[m]) /\ g[m + 1] = g[m] \cup Over(g[m])
    BY <2>1 DEF Levels
  <2> QED BY <2>1, <2>2
<1> HIDE DEF G
<1>3. n \in G
  BY <1>1, <1>2, Counting
<1> QED BY <1>3 DEF G

\* The trees of each depth are those one less deep, and the nodes over them.
LEMMA TreeIs ==
    /\ Tree(0) = Atoms
    /\ \A d \in Nat : Tree(d + 1) = Tree(d) \cup Over(Tree(d))
<1>1. ASSUME NEW d \in Nat
      PROVE  \E f : Levels(f, d) /\ Tree(d) = f[d]
  <2> DEFINE f == CHOOSE f : IsTree(f, d)
  <2>1. IsTree(f, d)
    BY TreesExist
  <2>2. Tree(d) = f[d]
    BY DEF Tree, IsTree
  <2> HIDE DEF f
  <2> QED BY <2>1, <2>2, TreeLevels
<1>2. Tree(0) = Atoms
  BY <1>1 DEF Levels
<1>3. ASSUME NEW d \in Nat PROVE Tree(d + 1) = Tree(d) \cup Over(Tree(d))
  <2>1. PICK f : Levels(f, d) /\ Tree(d) = f[d]
    BY <1>1
  <2>2. PICK g : Levels(g, d + 1) /\ Tree(d + 1) = g[d + 1]
    BY <1>1
  <2>3. f[d] = g[d]
    BY <2>1, <2>2, TreesAgree
  <2>4. g[d + 1] = g[d] \cup Over(g[d])
    BY <2>2 DEF Levels
  <2> QED BY <2>1, <2>2, <2>3, <2>4
<1> QED BY <1>2, <1>3

LEMMA DeepestIs == Deepest \in Nat /\ 2 <= Deepest /\ Deepest = MaxSteps + 2
BY QueryAssumption DEF Deepest

\* Deeper trees are more trees.
LEMMA TreeGrows == ASSUME NEW d \in Nat, NEW e \in Nat, d <= e PROVE Tree(d) \subseteq Tree(e)
<1> DEFINE G == {k \in Nat : Tree(d) \subseteq Tree(d + k)}
<1>1. 0 \in G
  <2>1. d + 0 = d
    OBVIOUS
  <2> QED BY <2>1
<1>2. ASSUME NEW k \in Nat, k \in G PROVE k + 1 \in G
  <2>1. d + (k + 1) = (d + k) + 1 /\ d + k \in Nat
    OBVIOUS
  <2>2. Tree(d + k) \subseteq Tree(d + (k + 1))
    BY <2>1, TreeIs
  <2>3. Tree(d) \subseteq Tree(d + k)
    BY <1>2
  <2> QED BY <2>2, <2>3
<1> HIDE DEF G
<1>3. e - d \in G
  BY <1>1, <1>2, Counting
<1>4. d + (e - d) = e
  OBVIOUS
<1> QED BY <1>3, <1>4 DEF G

LEMMA AtomOps ==
    /\ Any.op = "any"
    /\ \A q \in AllKeys : q.op \in {"consec", "skip"}
    /\ \A q \in Atoms : q = Any \/ q \in AllKeys
BY DEF Any, AllKeys, Key, Atoms

LEMMA OverOps ==
    ASSUME NEW Q, NEW q \in Over(Q)
    PROVE  q.op \in {"and", "or"} /\ q.args \subseteq Q /\ q.args # {}
BY DEF Over

\* What a tree is: nothing, a key, or a node over less deep trees.
LEMMA TreeShape ==
    ASSUME NEW d \in Nat, NEW q \in Tree(d)
    PROVE  \/ q = Any
           \/ q \in AllKeys
           \/ d # 0 /\ q \in Over(Tree(d - 1))
<1> DEFINE G == {m \in Nat : \A t \in Tree(m) :
                    t = Any \/ t \in AllKeys \/ (m # 0 /\ t \in Over(Tree(m - 1)))}
<1>1. 0 \in G
  BY TreeIs, AtomOps
<1>2. ASSUME NEW m \in Nat, m \in G PROVE m + 1 \in G
  <2>1. ASSUME NEW t \in Tree(m + 1)
        PROVE  t = Any \/ t \in AllKeys \/ t \in Over(Tree(m))
    <3>1. CASE t \in Over(Tree(m))
      BY <3>1
    <3>2. CASE t \in Tree(m) /\ m # 0 /\ t \in Over(Tree(m - 1))
      <4>1. Tree(m - 1) \subseteq Tree(m)
        BY <3>2, TreeGrows
      <4>2. t \in Over(Tree(m))
        BY <3>2, <4>1 DEF Over
      <4> QED BY <4>2
    <3>3. CASE t \in Tree(m) /\ (t = Any \/ t \in AllKeys)
      BY <3>3
    <3> QED BY <1>2, <2>1, <3>1, <3>2, <3>3, TreeIs
  <2>2. (m + 1) - 1 = m /\ m + 1 \in Nat
    OBVIOUS
  <2> QED BY <2>1, <2>2
<1> HIDE DEF G
<1>3. d \in G
  BY <1>1, <1>2, Counting
<1> QED BY <1>3 DEF G

\* What a node's operands are.
LEMMA TreeArgs ==
    ASSUME NEW d \in Nat, NEW q \in Tree(d), q.op \in {"and", "or"}
    PROVE  d # 0 /\ q \in Over(Tree(d - 1)) /\ q.args \subseteq Tree(d - 1) /\ q.args # {}
           /\ q.args \subseteq Tree(d)
<1>1. d # 0 /\ q \in Over(Tree(d - 1))
  BY TreeShape, AtomOps
<1>2. q.args \subseteq Tree(d - 1) /\ q.args # {}
  BY <1>1, OverOps
<1>3. Tree(d - 1) \subseteq Tree(d)
  BY <1>1, TreeGrows
<1> QED BY <1>1, <1>2, <1>3

LEMMA AtomsInTree == ASSUME NEW d \in Nat PROVE Any \in Tree(d) /\ AllKeys \subseteq Tree(d)
<1>1. Tree(0) \subseteq Tree(d)
  BY TreeGrows
<1> QED BY <1>1, TreeIs DEF Atoms

\* The bits of the trees so deep.
IsBits(b, d, tracked, keys) == b = [q \in Tree(d) |-> Bit(q, b, tracked, keys)]

LEMMA BitSame ==
    ASSUME NEW d \in Nat, NEW q \in Tree(d), NEW b, NEW g, NEW T, NEW K,
           q.op \in {"and", "or"} => \A c \in q.args : b[c] = g[c]
    PROVE  Bit(q, b, T, K) = Bit(q, g, T, K)
<1>1. CASE q = Any
  BY <1>1, AtomOps DEF Bit
<1>2. CASE q \in AllKeys
  BY <1>2, AtomOps DEF Bit
<1>3. CASE q.op = "and"
  BY <1>3 DEF Bit
<1>4. CASE q.op = "or"
  BY <1>4 DEF Bit
<1> QED BY <1>1, <1>2, <1>3, <1>4, TreeShape, OverOps

LEMMA BitsExist == ASSUME NEW T, NEW K, NEW d \in Nat PROVE \E b : IsBits(b, d, T, K)
<1> DEFINE G == {m \in Nat : \E b : IsBits(b, m, T, K)}
<1>1. 0 \in G
  <2> DEFINE e(q) == Bit(q, T, T, K)
             b == [q \in Tree(0) |-> e(q)]
  <2>1. ASSUME NEW q \in Tree(0) PROVE e(q) = Bit(q, b, T, K)
    <3>1. ~ (q.op \in {"and", "or"})
      BY TreeShape, AtomOps
    <3> HIDE DEF b
    <3> QED BY <3>1, BitSame
  <2> HIDE DEF e
  <2>2. IsBits(b, 0, T, K)
    BY <2>1 DEF IsBits
  <2> HIDE DEF b
  <2> QED BY <2>2
<1>2. ASSUME NEW m \in Nat, m \in G PROVE m + 1 \in G
  <2>1. PICK b : IsBits(b, m, T, K)
    BY <1>2
  <2> DEFINE e(q) == Bit(q, b, T, K)
             g == [q \in Tree(m + 1) |-> e(q)]
  <2>2. \A q \in Tree(m) : b[q] = e(q)
    BY <2>1 DEF IsBits
  <2> HIDE DEF e
  <2>3. \A q \in Tree(m) : g[q] = b[q]
    BY <2>2, TreeGrows
  <2>4. g = [q \in Tree(m + 1) |-> e(q)]
    OBVIOUS
  <2> HIDE DEF g
  <2>5. ASSUME NEW q \in Tree(m + 1) PROVE e(q) = Bit(q, g, T, K)
    <3>1. q.op \in {"and", "or"} => \A c \in q.args : b[c] = g[c]
      <4>1. (m + 1) - 1 = m /\ m + 1 \in Nat
        OBVIOUS
      <4> QED BY <2>3, <4>1, TreeArgs
    <3>2. m + 1 \in Nat
      OBVIOUS
    <3> QED BY <3>1, <3>2, BitSame DEF e
  <2>6. IsBits(g, m + 1, T, K)
    BY <2>4, <2>5 DEF IsBits
  <2> QED BY <2>6
<1> HIDE DEF G
<1>3. d \in G
  BY <1>1, <1>2, Counting
<1> QED BY <1>3 DEF G

LEMMA EvaluateIs ==
    ASSUME NEW T, NEW K
    PROVE  \E b : /\ \A q \in Tree(Deepest) : b[q] = Bit(q, b, T, K)
                  /\ \A q : Evaluate(q, T, K) = b[q]
<1> DEFINE b == CHOOSE b : IsBits(b, Deepest, T, K)
<1>1. IsBits(b, Deepest, T, K)
  BY DeepestIs, BitsExist
<1>2. ASSUME NEW q PROVE Evaluate(q, T, K) = b[q]
  BY DEF Evaluate, IsBits
<1> HIDE DEF b
<1>3. \A q \in Tree(Deepest) : b[q] = Bit(q, b, T, K)
  BY <1>1 DEF IsBits
<1> QED BY <1>2, <1>3

\* Which trees a file passes: a key it has or no column is kept for, a
\* conjunction of trees it passes, a disjunction one of which it passes.
LEMMA PassesIs ==
    ASSUME NEW T, NEW K
    PROVE  /\ Passes(Any, T, K)
           /\ \A q \in AllKeys : Passes(q, T, K) <=> (q \in T => q \in K)
           /\ \A q \in Tree(Deepest) :
                /\ q.op = "and" => (Passes(q, T, K) <=> \A c \in q.args : Passes(c, T, K))
                /\ q.op = "or" => (Passes(q, T, K) <=> \E c \in q.args : Passes(c, T, K))
<1>1. PICK b : /\ \A q \in Tree(Deepest) : b[q] = Bit(q, b, T, K)
               /\ \A q : Evaluate(q, T, K) = b[q]
  BY EvaluateIs
<1>2. \A q : Passes(q, T, K) <=> b[q] # "out"
  BY <1>1 DEF Passes
<1>3. Passes(Any, T, K)
  <2>1. b[Any] = Bit(Any, b, T, K)
    BY <1>1, DeepestIs, AtomsInTree
  <2> QED BY <1>2, <2>1, AtomOps DEF Bit
<1>4. ASSUME NEW q \in AllKeys PROVE Passes(q, T, K) <=> (q \in T => q \in K)
  <2>1. b[q] = Bit(q, b, T, K)
    BY <1>1, DeepestIs, AtomsInTree
  <2>2. Bit(q, b, T, K) = IF q \notin T THEN "none" ELSE IF q \in K THEN "in" ELSE "out"
    BY AtomOps DEF Bit
  <2> QED BY <1>2, <2>1, <2>2
<1>5. ASSUME NEW q \in Tree(Deepest) PROVE b[q] \in {"none", "in", "out"}
  <2>1. b[q] = Bit(q, b, T, K)
    BY <1>1
  <2>2. q.op \in {"any", "consec", "skip", "and", "or"}
    BY DeepestIs, TreeShape, AtomOps, OverOps
  <2> QED BY <2>1, <2>2 DEF Bit
<1>6. ASSUME NEW q \in Tree(Deepest), q.op = "and"
      PROVE  Passes(q, T, K) <=> \A c \in q.args : Passes(c, T, K)
  <2>1. b[q] = IF \A c \in q.args : b[c] = "none" THEN "none"
               ELSE IF \E c \in q.args : b[c] = "out" THEN "out" ELSE "in"
    BY <1>1, <1>6 DEF Bit
  <2> QED BY <1>2, <2>1
<1>7. ASSUME NEW q \in Tree(Deepest), q.op = "or"
      PROVE  Passes(q, T, K) <=> \E c \in q.args : Passes(c, T, K)
  <2>1. b[q] = IF \E c \in q.args : b[c] = "none" THEN "none"
               ELSE IF \E c \in q.args : b[c] = "in" THEN "in" ELSE "out"
    BY <1>1, <1>7 DEF Bit
  <2>2. q.args \subseteq Tree(Deepest)
    BY <1>7, DeepestIs, TreeArgs
  <2> QED BY <1>2, <1>5, <2>1, <2>2
<1> QED BY <1>3, <1>4, <1>6, <1>7
Flat(op, children) == UNION {IF q.op = op THEN q.args ELSE {q} : q \in children}

LEMMA FlatIs ==
    ASSUME NEW d \in Nat, NEW children \in SUBSET Tree(d), NEW op \in {"and", "or"}
    PROVE  /\ Flat(op, children) \subseteq Tree(d)
           /\ \A c \in Flat(op, children) :
                \E q \in children : (q.op = op /\ c \in q.args) \/ (q.op # op /\ c = q)
           /\ \A q \in children : q.op = op => q.args \subseteq Flat(op, children)
           /\ \A q \in children : q.op # op => q \in Flat(op, children)
<1>1. \A c \in Flat(op, children) :
                \E q \in children : (q.op = op /\ c \in q.args) \/ (q.op # op /\ c = q)
  BY DEF Flat
<1>2. \A q \in children : q.op = op => q.args \subseteq Flat(op, children)
  BY DEF Flat
<1>3. \A q \in children : q.op # op => q \in Flat(op, children)
  BY DEF Flat
<1>4. \A q \in children : q.op = op => q.args \subseteq Tree(d)
  BY TreeArgs
<1> QED BY <1>1, <1>2, <1>3, <1>4

LEMMA SimplifyIs ==
    ASSUME NEW d \in Nat, NEW children \in SUBSET Tree(d), NEW op \in {"and", "or"}
    PROVE  /\ Simplify(op, children) \in Tree(d + 1)
           /\ \/ Flat(op, children) = {} /\ Simplify(op, children) = Any
              \/ \E q \in Flat(op, children) :
                    Flat(op, children) = {q} /\ Simplify(op, children) = q
              \/ /\ Simplify(op, children).op = op
                 /\ Simplify(op, children).args = Flat(op, children)
<1> DEFINE flat == Flat(op, children)
<1>1. flat \subseteq Tree(d)
  BY FlatIs
<1>2. Simplify(op, children) = IF flat = {} THEN Any
                               ELSE IF \E q \in flat : flat = {q} THEN CHOOSE q \in flat : TRUE
                               ELSE [op |-> op, args |-> flat]
  BY DEF Simplify, Flat
<1> HIDE DEF flat
<1>3. Tree(d) \subseteq Tree(d + 1) /\ Over(Tree(d)) \subseteq Tree(d + 1)
  BY TreeIs
<1>4. CASE flat = {}
  <2>1. Simplify(op, children) = Any
    BY <1>2, <1>4
  <2> QED BY <1>4, <2>1, AtomsInTree DEF flat
<1>5. CASE \E q \in flat : flat = {q}
  <2>1. PICK q \in flat : flat = {q}
    BY <1>5
  <2>2. (CHOOSE r \in flat : TRUE) = q
    BY <2>1
  <2>3. Simplify(op, children) = q
    BY <1>2, <1>5, <2>1, <2>2
  <2> QED BY <1>1, <1>3, <2>1, <2>3 DEF flat
<1>6. CASE flat # {} /\ ~ (\E q \in flat : flat = {q})
  <2>1. Simplify(op, children) = [op |-> op, args |-> flat]
    BY <1>2, <1>6
  <2>2. [op |-> op, args |-> flat] \in Over(Tree(d))
    BY <1>1, <1>6 DEF Over
  <2> QED BY <1>3, <2>1, <2>2 DEF flat
<1> QED BY <1>4, <1>5, <1>6

\* A conjunction is passed by a file that passes what it was made of.
LEMMA AndIs ==
    ASSUME NEW d \in Nat, NEW children \in SUBSET Tree(d)
    PROVE  /\ And(children) \in Tree(d + 1)
           /\ \A T, K : d + 1 <= Deepest /\ (\A c \in children : Passes(c, T, K))
                            => Passes(And(children), T, K)
<1> DEFINE C == children \ {Any}
           S == Simplify("and", C)
<1>1. C \in SUBSET Tree(d) /\ S = And(children)
  BY DEF And
<1> HIDE DEF C, S
<1>2. /\ S \in Tree(d + 1)
      /\ \/ Flat("and", C) = {} /\ S = Any
         \/ \E q \in Flat("and", C) : Flat("and", C) = {q} /\ S = q
         \/ S.op = "and" /\ S.args = Flat("and", C)
  BY <1>1, SimplifyIs DEF S
<1>3. ASSUME NEW T, NEW K, d + 1 <= Deepest, \A c \in children : Passes(c, T, K)
      PROVE  Passes(S, T, K)
  <2>1. Tree(d + 1) \subseteq Tree(Deepest) /\ Tree(d) \subseteq Tree(Deepest)
    BY <1>3, TreeGrows, DeepestIs
  <2>2. ASSUME NEW c \in Flat("and", C) PROVE Passes(c, T, K)
    <3>1. PICK q \in C : (q.op = "and" /\ c \in q.args) \/ (q.op # "and" /\ c = q)
      BY <1>1, FlatIs
    <3>2. Passes(q, T, K) /\ q \in Tree(Deepest)
      BY <1>1, <1>3, <2>1 DEF C
    <3> QED BY <3>1, <3>2, PassesIs
  <2>3. CASE S = Any
    BY <2>3, PassesIs
  <2>4. CASE \E q \in Flat("and", C) : S = q
    BY <2>2, <2>4
  <2>5. CASE S.op = "and" /\ S.args = Flat("and", C)
    <3>1. S \in Tree(Deepest) /\ S.op = "and"
      BY <1>2, <2>1, <2>5
    <3>2. Passes(S, T, K) <=> \A c \in S.args : Passes(c, T, K)
      BY <3>1, PassesIs
    <3> QED BY <2>2, <2>5, <3>2
  <2> QED BY <1>2, <2>3, <2>4, <2>5
<1> QED BY <1>1, <1>2, <1>3

\* A disjunction is passed by a file that passes one of what it was made of.
LEMMA OrIs ==
    ASSUME NEW d \in Nat, NEW children \in SUBSET Tree(d)
    PROVE  /\ Or(children) \in Tree(d + 1)
           /\ \A T, K : d + 1 <= Deepest /\ (\E c \in children : Passes(c, T, K))
                            => Passes(Or(children), T, K)
<1> DEFINE S == Simplify("or", children)
<1>1. CASE Any \in children
  <2>1. Or(children) = Any
    BY <1>1 DEF Or
  <2>2. d + 1 \in Nat
    OBVIOUS
  <2> QED BY <2>1, <2>2, AtomsInTree, PassesIs
<1>2. CASE Any \notin children
  <2>1. S = Or(children)
    BY <1>2 DEF Or
  <2> HIDE DEF S
  <2>2. /\ S \in Tree(d + 1)
        /\ \/ Flat("or", children) = {} /\ S = Any
           \/ \E q \in Flat("or", children) : Flat("or", children) = {q} /\ S = q
           \/ S.op = "or" /\ S.args = Flat("or", children)
    BY SimplifyIs DEF S
  <2>3. ASSUME NEW T, NEW K, d + 1 <= Deepest, \E c \in children : Passes(c, T, K)
        PROVE  Passes(S, T, K)
    <3>1. Tree(d + 1) \subseteq Tree(Deepest) /\ Tree(d) \subseteq Tree(Deepest)
      BY <2>3, TreeGrows, DeepestIs
    <3>2. PICK q \in children : Passes(q, T, K)
      BY <2>3
    <3>3. q \in Tree(Deepest)
      BY <3>1
    <3>4. PICK c \in Flat("or", children) : Passes(c, T, K)
      <4>1. CASE q.op = "or"
        <5>1. \E c \in q.args : Passes(c, T, K)
          BY <3>2, <3>3, <4>1, PassesIs
        <5>2. q.args \subseteq Flat("or", children)
          BY <4>1, FlatIs
        <5> QED BY <5>1, <5>2
      <4>2. CASE q.op # "or"
        BY <3>2, <4>2, FlatIs
      <4> QED BY <4>1, <4>2
    <3>5. CASE S.op = "or" /\ S.args = Flat("or", children)
      BY <2>2, <3>1, <3>4, <3>5, PassesIs
    <3> QED BY <2>2, <3>4, <3>5
  <2> QED BY <2>1, <2>2, <2>3
<1> QED BY <1>1, <1>2
-----------------------------------------------------------------------------
(***************************************************************************)
(* MadeOf of a string, and what a file that holds the string passes.        *)
(***************************************************************************)
\* A file with the keys of s, and perhaps others, passes the query.
Good(query, s) == \A T, K : KeysIn(s) \subseteq K => Passes(query, T, K)

Within(w, pos, s) == pos + Len(w) <= Len(s) /\ \A i \in 1..Len(w) : s[pos + i] = w[i]

LEMMA KeysWithin ==
    ASSUME NEW w \in Seq(Bytes), NEW s \in Seq(Bytes), NEW pos \in Nat, Within(w, pos, s)
    PROVE  KeysIn(w) \subseteq KeysIn(s)
<1>1. PICK m \in Nat, n \in Nat : m = Len(w) /\ n = Len(s)
  OBVIOUS
<1>2. pos + m <= n /\ \A i \in 1..m : s[pos + i] = w[i]
  BY <1>1 DEF Within
<1>3. ASSUME NEW i \in 1..(m - 1), IsKey(w[i], w[i + 1])
      PROVE  Key("consec", w[i], w[i + 1]) \in KeysIn(s)
  <2>1. s[pos + i] = w[i] /\ s[(pos + i) + 1] = w[i + 1] /\ pos + i \in 1..(n - 1)
    <3>1. i \in 1..m /\ i + 1 \in 1..m /\ pos + (i + 1) = (pos + i) + 1
      OBVIOUS
    <3> QED BY <1>2, <3>1
  <2> QED BY <1>1, <1>3, <2>1 DEF KeysIn
<1>4. ASSUME NEW i \in 1..(m - 2), IsKey(w[i], w[i + 2])
      PROVE  Key("skip", w[i], w[i + 2]) \in KeysIn(s)
  <2>1. s[pos + i] = w[i] /\ s[(pos + i) + 2] = w[i + 2] /\ pos + i \in 1..(n - 2)
    <3>1. i \in 1..m /\ i + 2 \in 1..m /\ pos + (i + 2) = (pos + i) + 2
      OBVIOUS
    <3> QED BY <1>2, <3>1
  <2> QED BY <1>1, <1>4, <2>1 DEF KeysIn
<1> QED BY <1>1, <1>3, <1>4 DEF KeysIn

LEMMA KeysAreKeys ==
    ASSUME NEW s \in Seq(Bytes) PROVE KeysIn(s) \subseteq AllKeys
BY DEF KeysIn, AllKeys, IsKey

LEMMA GoodWithin ==
    ASSUME NEW w \in Seq(Bytes), NEW s \in Seq(Bytes), NEW pos \in Nat, Within(w, pos, s),
           NEW query, Good(query, w)
    PROVE  Good(query, s)
BY KeysWithin DEF Good

\* The string s is made of the words w, one of each of n languages; a word ends
\* at o.
MadeOf(n, s, langs, w, o) ==
    /\ w \in [1..n -> Seq(Bytes)] /\ o \in [0..n -> Nat]
    /\ o[0] = 0 /\ o[n] = Len(s)
    /\ \A i \in 1..n : w[i] \in langs[i] /\ o[i] = o[i - 1] + Len(w[i]) /\ Within(w[i], o[i - 1], s)

Fits(n, s, langs) ==
    s \in Seq(Bytes) /\ Len(s) <= MaxLen /\ \E w, o : MadeOf(n, s, langs, w, o)

IsChain(f, langs) ==
    f = [n \in 0..Len(langs) |-> IF n = 0 THEN {<< >>} ELSE Join(f[n - 1], langs[n])]

Strung(f, langs) ==
    /\ f \in [0..Len(langs) -> SUBSET Seq(Bytes)] /\ f[0] = {<< >>}
    /\ \A n \in 1..Len(langs) : f[n] = Join(f[n - 1], langs[n])

LEMMA ChainExists ==
    ASSUME NEW langs \in Seq(SUBSET Seq(Bytes))
    PROVE  \E f : Strung(f, langs) /\ Chain(langs) = f[Len(langs)]
<1> DEFINE S == SUBSET Seq(Bytes)
           f == CHOOSE f : IsChain(f, langs)
<1>0. PICK N \in Nat : N = Len(langs)
  OBVIOUS
<1>1. {<< >>} \in S /\ \A A, B \in S : Join(A, B) \in S
  <2>1. \A s, t \in Seq(Bytes) : s \o t \in Seq(Bytes)
    OBVIOUS
  <2>2. ASSUME NEW A \in S, NEW B \in S, NEW x \in Join(A, B) PROVE x \in Seq(Bytes)
    <3>1. PICK s \in A, t \in B : x = s \o t
      BY DEF Join
    <3> QED BY <2>1, <3>1
  <2> QED BY <2>2
<1>2. \E g : IsChain(g, langs)
  <2> DEFINE F == [n \in 1..N |-> [A \in S |-> Join(A, langs[n])]]
             e == {<< >>}
  <2>1. \A n \in 1..N : langs[n] \in S
    BY <1>0
  <2> HIDE DEF S
  <2>2. F \in [1..N -> [S -> S]]
    BY <1>1, <2>1
  <2>3. \A n \in 1..N : \A A \in S : F[n][A] = Join(A, langs[n])
    OBVIOUS
  <2>4. e \in S
    BY <1>1
  <2> HIDE DEF F, e
  <2>5. PICK g : Steps(g, N, S, e, F)
    BY <2>2, <2>4, StepsExist
  <2>6. ASSUME NEW n \in 0..N
        PROVE  g[n] = IF n = 0 THEN e ELSE Join(g[n - 1], langs[n])
    <3>1. CASE n = 0
      BY <2>5, <3>1 DEF Steps
    <3>2. CASE n # 0
      <4>1. n \in 1..N /\ n - 1 \in 0..N
        BY <3>2
      <4> QED BY <2>3, <2>5, <3>2, <4>1 DEF Steps
    <3> QED BY <3>1, <3>2
  <2>7. g = [n \in 0..N |-> IF n = 0 THEN e ELSE Join(g[n - 1], langs[n])]
    BY <2>5, <2>6 DEF Steps
  <2> QED BY <1>0, <2>7 DEF IsChain, e
<1>3. IsChain(f, langs)
  BY <1>2
<1>4. Chain(langs) = f[Len(langs)]
  BY DEF Chain, IsChain
<1> HIDE DEF f, S
<1>5. f[0] = {<< >>} /\ \A n \in 1..N : f[n] = Join(f[n - 1], langs[n])
  <2> DEFINE e(n) == IF n = 0 THEN {<< >>} ELSE Join(f[n - 1], langs[n])
  <2>1. f = [n \in 0..N |-> e(n)]
    BY <1>0, <1>3 DEF IsChain
  <2> HIDE DEF e
  <2>2. \A n \in 0..N : f[n] = e(n)
    BY <2>1
  <2>3. ASSUME NEW n \in 1..N PROVE f[n] = Join(f[n - 1], langs[n])
    <3>1. f[n] = e(n) /\ n # 0
      BY <2>2
    <3> QED BY <3>1 DEF e
  <2>4. f[0] = e(0)
    BY <2>2
  <2> QED BY <2>3, <2>4 DEF e
<1>6. ASSUME NEW n \in 0..N PROVE f[n] \in S
  <2> DEFINE G == {m \in Nat : m <= N => f[m] \in S}
  <2>1. 0 \in G
    BY <1>1, <1>5
  <2>2. ASSUME NEW m \in Nat, m \in G PROVE m + 1 \in G
    <3> SUFFICES ASSUME m + 1 <= N PROVE f[m + 1] \in S
      OBVIOUS
    <3>1. f[m] \in S /\ m + 1 \in 1..N /\ (m + 1) - 1 = m
      BY <2>2
    <3>2. langs[m + 1] \in S
      BY <1>0, <3>1 DEF S
    <3> QED BY <1>1, <1>5, <3>1, <3>2
  <2> HIDE DEF G
  <2>3. Nat \subseteq G
    BY <2>1, <2>2, Counting
  <2>4. n \in Nat /\ n <= N
    OBVIOUS
  <2> QED BY <2>3, <2>4 DEF G
<1>7. f = [n \in 0..N |-> f[n]]
  BY <1>0, <1>3 DEF IsChain
<1>8. Strung(f, langs)
  BY <1>0, <1>5, <1>6, <1>7 DEF Strung, S
<1> QED BY <1>4, <1>8
\* A chain's strings are made of words, and are no longer than a string may be.
LEMMA ChainWords ==
    ASSUME NEW langs \in Seq(SUBSET Seq(Bytes)), NEW s \in Chain(langs)
    PROVE  Fits(Len(langs), s, langs)
<1>0. PICK N \in Nat : N = Len(langs)
  OBVIOUS
<1>1. PICK f : Strung(f, langs) /\ Chain(langs) = f[N]
  BY <1>0, ChainExists
<1> DEFINE G == {m \in Nat : m <= N => \A t \in f[m] : Fits(m, t, langs)}
<1>2. 0 \in G
  <2> DEFINE t == << >>
             w == [i \in 1..0 |-> t]
             o == [i \in 0..0 |-> 0]
  <2>1. t \in Seq(Bytes) /\ Len(t) = 0 /\ w \in [1..0 -> Seq(Bytes)]
    OBVIOUS
  <2>2. o \in [0..0 -> Nat] /\ o[0] = 0
    OBVIOUS
  <2> HIDE DEF t, w, o
  <2>3. MadeOf(0, t, langs, w, o)
    BY <2>1, <2>2 DEF MadeOf
  <2>4. 0 <= MaxLen
    BY QueryAssumption
  <2>5. Fits(0, t, langs)
    BY <2>1, <2>3, <2>4 DEF Fits
  <2> QED BY <1>1, <2>5 DEF Strung, t
<1>3. ASSUME NEW m \in Nat, m \in G PROVE m + 1 \in G
  <2> SUFFICES ASSUME m + 1 <= N PROVE \A t \in f[m + 1] : Fits(m + 1, t, langs)
    OBVIOUS
  <2> TAKE t \in f[m + 1]
  <2>1. f[m + 1] = Join(f[m], langs[m + 1]) /\ langs[m + 1] \subseteq Seq(Bytes)
    <3>1. m + 1 \in 1..N /\ (m + 1) - 1 = m
      OBVIOUS
    <3> QED BY <1>0, <1>1, <3>1 DEF Strung
  <2>2. PICK a \in f[m], b \in langs[m + 1] : t = a \o b /\ Len(t) <= MaxLen
    <3>1. t \in Join(f[m], langs[m + 1])
      BY <2>1
    <3> QED BY <3>1 DEF Join
  <2>3. Fits(m, a, langs)
    <3>1. m <= N
      OBVIOUS
    <3> QED BY <1>3, <2>2, <3>1
  <2>4. PICK w, o : MadeOf(m, a, langs, w, o)
    BY <2>3 DEF Fits
  <2>5. a \in Seq(Bytes) /\ b \in Seq(Bytes)
    BY <2>1, <2>2, <2>3 DEF Fits
  <2>6. t \in Seq(Bytes) /\ Len(t) = Len(a) + Len(b) /\ Len(a) \in Nat /\ Len(b) \in Nat
    BY <2>2, <2>5
  <2>7. /\ \A i \in 1..Len(a) : t[i] = a[i]
        /\ \A i \in 1..Len(b) : t[Len(a) + i] = b[i]
    BY <2>2, <2>5
  <2> DEFINE v == [i \in 1..(m + 1) |-> IF i = m + 1 THEN b ELSE w[i]]
             q == [i \in 0..(m + 1) |-> IF i = m + 1 THEN Len(t) ELSE o[i]]
  <2>8. v \in [1..(m + 1) -> Seq(Bytes)] /\ q \in [0..(m + 1) -> Nat]
    BY <2>4, <2>5, <2>6 DEF MadeOf
  <2>9. v[m + 1] = b /\ q[m + 1] = Len(t) /\ \A i \in 1..m : v[i] = w[i]
    OBVIOUS
  <2>10. \A i \in 0..m : q[i] = o[i]
    OBVIOUS
  <2> HIDE DEF v, q
  <2>11. q[0] = 0 /\ q[m] = Len(a)
    BY <2>4, <2>10 DEF MadeOf
  <2>12. ASSUME NEW i \in 1..m
         PROVE  v[i] \in langs[i] /\ q[i] = q[i - 1] + Len(v[i]) /\ Within(v[i], q[i - 1], t)
    <3>1. v[i] = w[i] /\ q[i] = o[i] /\ i - 1 \in 0..m /\ q[i - 1] = o[i - 1] /\ o[i - 1] \in Nat
      BY <2>4, <2>9, <2>10 DEF MadeOf
    <3>2. w[i] \in langs[i] /\ o[i] = o[i - 1] + Len(w[i]) /\ Within(w[i], o[i - 1], a)
      BY <2>4 DEF MadeOf
    <3>3. w[i] \in Seq(Bytes) /\ Len(w[i]) \in Nat
      <4>1. w \in [1..m -> Seq(Bytes)]
        BY <2>4 DEF MadeOf
      <4>2. w[i] \in Seq(Bytes)
        BY <4>1
      <4> QED BY <4>2
    <3>4. Within(w[i], o[i - 1], t)
      <4>1. o[i - 1] + Len(w[i]) <= Len(a)
        BY <3>2 DEF Within
      <4>2. ASSUME NEW j \in 1..Len(w[i]) PROVE t[o[i - 1] + j] = w[i][j]
        <5>1. a[o[i - 1] + j] = w[i][j]
          BY <3>2 DEF Within
        <5>2. PICK c \in Nat, k \in Nat, l \in Nat : c = o[i - 1] /\ k = Len(w[i]) /\ l = Len(a)
          BY <2>6, <3>1, <3>3
        <5>3. c + k <= l /\ j \in 1..k
          BY <4>1, <5>2
        <5>4. c + j \in 1..l
          BY <5>3
        <5> QED BY <2>7, <5>1, <5>2, <5>4
      <4>3. o[i - 1] + Len(w[i]) <= Len(t)
        BY <2>6, <3>1, <3>3, <4>1
      <4> QED BY <4>2, <4>3 DEF Within
    <3> QED BY <3>1, <3>2, <3>4
  <2>13. Within(b, Len(a), t)
    BY <2>6, <2>7 DEF Within
  <2>14. ASSUME NEW i \in 1..(m + 1)
         PROVE  v[i] \in langs[i] /\ q[i] = q[i - 1] + Len(v[i]) /\ Within(v[i], q[i - 1], t)
    <3>1. CASE i = m + 1
      <4>1. i - 1 = m
        BY <3>1
      <4> QED BY <2>2, <2>6, <2>9, <2>11, <2>13, <3>1, <4>1
    <3>2. CASE i # m + 1
      <4>1. i \in 1..m
        BY <3>2
      <4> QED BY <2>12, <4>1
    <3> QED BY <3>1, <3>2
  <2>15. MadeOf(m + 1, t, langs, v, q)
    BY <2>8, <2>9, <2>11, <2>14 DEF MadeOf
  <2> QED BY <2>2, <2>6, <2>15 DEF Fits
<1> HIDE DEF G
<1>4. N \in G
  BY <1>2, <1>3, Counting
<1>5. \A t \in f[N] : Fits(N, t, langs)
  BY <1>4 DEF G
<1> QED BY <1>0, <1>1, <1>5
LEMMA Smallest == ASSUME NEW S \in SUBSET Nat, S # {} PROVE \E x \in S : \A y \in S : x <= y
<1>1. PICK x \in S : \A y \in S : ~ (<<y, x>> \in OpToRel(<, Nat))
  BY NatLessThanWellFounded, WFMin
<1>2. ASSUME NEW y \in S, y < x PROVE FALSE
  BY <1>1, <1>2 DEF OpToRel
<1> QED BY <1>2

LEMMA Largest ==
    ASSUME NEW N \in Nat, NEW S \in SUBSET (1..N), S # {} PROVE \E x \in S : \A y \in S : y <= x
<1> DEFINE R == {N - x : x \in S}
<1>1. R \in SUBSET Nat /\ R # {}
  <2>1. \A x \in S : N - x \in Nat
    OBVIOUS
  <2>2. PICK x : x \in S
    OBVIOUS
  <2>3. N - x \in R
    BY <2>2
  <2> QED BY <2>1, <2>3
<1> HIDE DEF R
<1>2. PICK r \in R : \A y \in R : r <= y
  BY <1>1, Smallest
<1>3. PICK x \in S : r = N - x
  BY DEF R
<1>4. ASSUME NEW y \in S PROVE y <= x
  <2>1. r <= N - y
    BY <1>2 DEF R
  <2> QED BY <1>3, <2>1
<1> QED BY <1>4

\* Between two words without a word there is nothing.
LEMMA WordsFlat ==
    ASSUME NEW n \in Nat, NEW s \in Seq(Bytes), NEW langs, NEW w, NEW o, MadeOf(n, s, langs, w, o),
           NEW a \in 0..n, NEW b \in 0..n, a <= b, \A i \in (a + 1)..b : Len(w[i]) = 0
    PROVE  o[a] = o[b]
<1> DEFINE G == {k \in Nat : a + k <= b => o[a + k] = o[a]}
<1>1. 0 \in G
  OBVIOUS
<1>2. ASSUME NEW k \in Nat, k \in G PROVE k + 1 \in G
  <2> SUFFICES ASSUME a + (k + 1) <= b PROVE o[a + (k + 1)] = o[a]
    OBVIOUS
  <2>1. /\ a + (k + 1) \in 1..n /\ (a + (k + 1)) - 1 = a + k /\ a + k \in 0..n
        /\ a + (k + 1) \in (a + 1)..b
    OBVIOUS
  <2>2. o[a + (k + 1)] = o[a + k] + Len(w[a + (k + 1)])
    BY <2>1 DEF MadeOf
  <2>3. Len(w[a + (k + 1)]) = 0
    BY <2>1
  <2>4. o[a + k] = o[a] /\ o[a + k] \in Nat
    <3>1. a + k <= b
      OBVIOUS
    <3> QED BY <1>2, <2>1, <3>1 DEF MadeOf
  <2> QED BY <2>2, <2>3, <2>4
<1> HIDE DEF G
<1>3. b - a \in G
  BY <1>1, <1>2, Counting
<1>4. a + (b - a) = b
  OBVIOUS
<1> QED BY <1>3, <1>4 DEF G

WordAt(i, s, langs, w, o) ==
    /\ w[i] \in Seq(Bytes) /\ w[i] \in langs[i] /\ Len(w[i]) \in Nat
    /\ o[i - 1] \in Nat /\ o[i] \in Nat /\ o[i] = o[i - 1] + Len(w[i])
    /\ o[i] <= Len(s) /\ Within(w[i], o[i - 1], s)
    /\ \A j \in 1..Len(w[i]) : s[o[i - 1] + j] = w[i][j]

LEMMA WordIs ==
    ASSUME NEW n \in Nat, NEW s \in Seq(Bytes), NEW langs, NEW w, NEW o, MadeOf(n, s, langs, w, o),
           NEW i \in 1..n
    PROVE  WordAt(i, s, langs, w, o)
<1>1. i - 1 \in 0..n /\ i \in 0..n
  OBVIOUS
<1>2. w[i] \in Seq(Bytes) /\ w[i] \in langs[i] /\ o[i - 1] \in Nat /\ o[i] \in Nat
      /\ o[i] = o[i - 1] + Len(w[i]) /\ Within(w[i], o[i - 1], s)
  BY <1>1 DEF MadeOf
<1>3. Len(w[i]) \in Nat
  BY <1>2
<1> QED BY <1>2, <1>3 DEF Within, WordAt

\* A string that is not empty begins with the first word that is not, and ends
\* with the last.
Opens(i, w, s) == Len(w[i]) # 0 /\ (\A j \in 1..(i - 1) : Len(w[j]) = 0) /\ s[1] = w[i][1]
Closes(i, n, w, s) ==
    Len(w[i]) # 0 /\ (\A j \in (i + 1)..n : Len(w[j]) = 0) /\ s[Len(s)] = w[i][Len(w[i])]

LEMMA FirstWord ==
    ASSUME NEW n \in Nat, NEW s \in Seq(Bytes), NEW langs, NEW w, NEW o, MadeOf(n, s, langs, w, o),
           Len(s) # 0
    PROVE  \E i \in 1..n : Opens(i, w, s)
<1> DEFINE S == {i \in 1..n : Len(w[i]) # 0}
<1>1. S # {}
  <2> SUFFICES ASSUME \A i \in 1..n : Len(w[i]) = 0 PROVE FALSE
    OBVIOUS
  <2>1. 0 \in 0..n /\ n \in 0..n /\ 0 <= n /\ \A i \in (0 + 1)..n : i \in 1..n
    OBVIOUS
  <2>2. o[0] = o[n]
    BY <2>1, WordsFlat
  <2> QED BY <2>2 DEF MadeOf
<1>2. S \in SUBSET Nat
  OBVIOUS
<1>3. PICK i \in S : \A j \in S : i <= j
  BY <1>1, <1>2, Smallest
<1>4. i \in 1..n /\ Len(w[i]) # 0 /\ \A j \in 1..(i - 1) : Len(w[j]) = 0
  BY <1>3
<1>5. o[i - 1] = 0
  <2>1. 0 \in 0..n /\ i - 1 \in 0..n /\ 0 <= i - 1 /\ \A j \in (0 + 1)..(i - 1) : j \in 1..(i - 1)
    BY <1>4
  <2>2. o[0] = o[i - 1]
    BY <1>4, <2>1, WordsFlat
  <2> QED BY <2>2 DEF MadeOf
<1>6. 1 \in 1..Len(w[i])
  BY <1>4, WordIs DEF WordAt
<1>7. s[0 + 1] = w[i][1]
  BY <1>4, <1>5, <1>6, WordIs DEF WordAt
<1> QED BY <1>4, <1>7 DEF Opens

LEMMA LastWord ==
    ASSUME NEW n \in Nat, NEW s \in Seq(Bytes), NEW langs, NEW w, NEW o, MadeOf(n, s, langs, w, o),
           Len(s) # 0
    PROVE  \E i \in 1..n : Closes(i, n, w, s)
<1> DEFINE S == {i \in 1..n : Len(w[i]) # 0}
<1>1. S # {}
  BY FirstWord DEF Opens
<1>2. S \in SUBSET (1..n)
  OBVIOUS
<1>3. PICK i \in S : \A j \in S : j <= i
  BY <1>1, <1>2, Largest
<1>4. i \in 1..n /\ Len(w[i]) # 0 /\ \A j \in (i + 1)..n : Len(w[j]) = 0
  BY <1>3
<1>5. o[i] = Len(s)
  <2>1. i \in 0..n /\ n \in 0..n /\ i <= n
    BY <1>4
  <2>2. o[i] = o[n]
    BY <1>4, <2>1, WordsFlat
  <2> QED BY <2>2 DEF MadeOf
<1>6. Len(w[i]) \in 1..Len(w[i])
  BY <1>4, WordIs DEF WordAt
<1>7. s[o[i - 1] + Len(w[i])] = w[i][Len(w[i])]
  <2>1. WordAt(i, s, langs, w, o)
    BY <1>4, WordIs
  <2>2. \A j \in 1..Len(w[i]) : s[o[i - 1] + j] = w[i][j]
    BY <2>1 DEF WordAt
  <2> QED BY <1>6, <2>2
<1>8. o[i] = o[i - 1] + Len(w[i])
  BY <1>4, WordIs DEF WordAt
<1> QED BY <1>4, <1>5, <1>7, <1>8 DEF Closes

LEMMA WordShort ==
    ASSUME NEW n \in Nat, NEW s \in Seq(Bytes), NEW langs, NEW w, NEW o, MadeOf(n, s, langs, w, o),
           NEW i \in 1..n
    PROVE  Len(w[i]) <= Len(s)
<1>1. WordAt(i, s, langs, w, o)
  BY WordIs
<1>2. Len(s) \in Nat
  OBVIOUS
<1> QED BY <1>1, <1>2 DEF WordAt
-----------------------------------------------------------------------------
IsSum(f, numbers) == f = [n \in 0..Len(numbers) |-> IF n = 0 THEN 0 ELSE f[n - 1] + numbers[n]]

Summed(f, numbers) ==
    /\ f \in [0..Len(numbers) -> Nat] /\ f[0] = 0
    /\ \A n \in 1..Len(numbers) : f[n] = f[n - 1] + numbers[n]

LEMMA SumIs ==
    ASSUME NEW numbers \in Seq(Nat)
    PROVE  \E f : Summed(f, numbers) /\ Sum(numbers) = f[Len(numbers)]
<1> DEFINE f == CHOOSE f : IsSum(f, numbers)
<1>0. PICK N \in Nat : N = Len(numbers)
  OBVIOUS
<1>1. \A n \in 1..N : numbers[n] \in Nat
  BY <1>0
<1>2. \E g : IsSum(g, numbers)
  <2> DEFINE F == [n \in 1..N |-> [x \in Nat |-> x + numbers[n]]]
  <2>1. F \in [1..N -> [Nat -> Nat]]
    BY <1>1
  <2>2. \A n \in 1..N : \A x \in Nat : F[n][x] = x + numbers[n]
    OBVIOUS
  <2> HIDE DEF F
  <2>3. PICK g : Steps(g, N, Nat, 0, F)
    BY <2>1, StepsExist
  <2>4. ASSUME NEW n \in 0..N PROVE g[n] = IF n = 0 THEN 0 ELSE g[n - 1] + numbers[n]
    <3>1. CASE n = 0
      BY <2>3, <3>1 DEF Steps
    <3>2. CASE n # 0
      <4>1. n \in 1..N /\ n - 1 \in 0..N
        BY <3>2
      <4>2. g[n] = F[n][g[n - 1]] /\ g[n - 1] \in Nat
        BY <2>3, <4>1 DEF Steps
      <4> QED BY <2>2, <3>2, <4>1, <4>2
    <3> QED BY <3>1, <3>2
  <2>5. g = [n \in 0..N |-> IF n = 0 THEN 0 ELSE g[n - 1] + numbers[n]]
    BY <2>3, <2>4 DEF Steps
  <2> QED BY <1>0, <2>5 DEF IsSum
<1>3. IsSum(f, numbers)
  BY <1>2
<1>4. Sum(numbers) = f[Len(numbers)]
  BY DEF Sum, IsSum
<1> HIDE DEF f
<1>5. f[0] = 0 /\ \A n \in 1..N : f[n] = f[n - 1] + numbers[n]
  <2> DEFINE e(n) == IF n = 0 THEN 0 ELSE f[n - 1] + numbers[n]
  <2>1. f = [n \in 0..N |-> e(n)]
    BY <1>0, <1>3 DEF IsSum
  <2> HIDE DEF e
  <2>2. \A n \in 0..N : f[n] = e(n)
    BY <2>1
  <2>3. ASSUME NEW n \in 1..N PROVE f[n] = f[n - 1] + numbers[n]
    <3>1. f[n] = e(n) /\ n # 0
      BY <2>2
    <3> QED BY <3>1 DEF e
  <2>4. f[0] = e(0)
    BY <2>2
  <2> QED BY <2>3, <2>4 DEF e
<1>6. ASSUME NEW n \in 0..N PROVE f[n] \in Nat
  <2> DEFINE G == {m \in Nat : m <= N => f[m] \in Nat}
  <2>1. 0 \in G
    BY <1>5
  <2>2. ASSUME NEW m \in Nat, m \in G PROVE m + 1 \in G
    <3> SUFFICES ASSUME m + 1 <= N PROVE f[m + 1] \in Nat
      OBVIOUS
    <3>1. f[m] \in Nat /\ m + 1 \in 1..N /\ (m + 1) - 1 = m
      BY <2>2
    <3>2. f[m + 1] = f[m] + numbers[m + 1] /\ numbers[m + 1] \in Nat
      BY <1>1, <1>5, <3>1
    <3> QED BY <3>1, <3>2
  <2> HIDE DEF G
  <2>3. Nat \subseteq G
    BY <2>1, <2>2, Counting
  <2>4. n \in Nat /\ n <= N
    OBVIOUS
  <2> QED BY <2>3, <2>4 DEF G
<1>7. f = [n \in 0..N |-> f[n]]
  BY <1>0, <1>3 DEF IsSum
<1>8. Summed(f, numbers)
  BY <1>0, <1>5, <1>6, <1>7 DEF Summed
<1> QED BY <1>4, <1>8

Between(lo, s, hi) ==
    Sum(lo) \in Nat /\ Sum(hi) \in Nat /\ Sum(lo) <= Len(s) /\ Len(s) <= Sum(hi)

\* A string is at least as long as its words are, and at most.
LEMMA SumBounds ==
    ASSUME NEW n \in Nat, NEW s \in Seq(Bytes), NEW langs, NEW w, NEW o, MadeOf(n, s, langs, w, o),
           NEW lo \in Seq(Nat), NEW hi \in Seq(Nat), Len(lo) = n, Len(hi) = n,
           \A i \in 1..n : lo[i] <= Len(w[i]) /\ Len(w[i]) <= hi[i]
    PROVE  Between(lo, s, hi)
<1>1. PICK f : Summed(f, lo) /\ Sum(lo) = f[n]
  BY SumIs
<1>2. PICK g : Summed(g, hi) /\ Sum(hi) = g[n]
  BY SumIs
<1>3. \A m \in 0..n : f[m] \in Nat /\ g[m] \in Nat /\ o[m] \in Nat
  BY <1>1, <1>2 DEF Summed, MadeOf
<1> DEFINE G == {m \in Nat : m <= n => f[m] <= o[m] /\ o[m] <= g[m]}
<1>4. 0 \in G
  BY <1>1, <1>2 DEF Summed, MadeOf
<1>5. ASSUME NEW m \in Nat, m \in G PROVE m + 1 \in G
  <2> SUFFICES ASSUME m + 1 <= n PROVE f[m + 1] <= o[m + 1] /\ o[m + 1] <= g[m + 1]
    OBVIOUS
  <2>1. m + 1 \in 1..n /\ (m + 1) - 1 = m /\ m \in 0..n
    OBVIOUS
  <2>2. f[m + 1] = f[m] + lo[m + 1] /\ g[m + 1] = g[m] + hi[m + 1]
    BY <1>1, <1>2, <2>1 DEF Summed
  <2>3. o[m + 1] = o[m] + Len(w[m + 1]) /\ Len(w[m + 1]) \in Nat
    BY <2>1, WordIs DEF WordAt
  <2>4. lo[m + 1] \in Nat /\ hi[m + 1] \in Nat
    BY <2>1
  <2>5. lo[m + 1] <= Len(w[m + 1]) /\ Len(w[m + 1]) <= hi[m + 1]
    BY <2>1
  <2>6. f[m] <= o[m] /\ o[m] <= g[m]
    BY <1>5, <2>1
  <2>7. f[m] \in Nat /\ g[m] \in Nat /\ o[m] \in Nat
    BY <1>3, <2>1
  <2>8. PICK k \in Nat, p \in Nat, q \in Nat :
               k = Len(w[m + 1]) /\ p = lo[m + 1] /\ q = hi[m + 1] /\ p <= k /\ k <= q
    BY <2>3, <2>4, <2>5
  <2>9. PICK x \in Nat, y \in Nat, z \in Nat : x = f[m] /\ y = o[m] /\ z = g[m]
    BY <2>7
  <2>10. x + p <= y + k /\ y + k <= z + q
    <3>1. x <= y /\ y <= z /\ p <= k /\ k <= q
      BY <2>6, <2>8, <2>9
    <3> QED BY <3>1
  <2> QED BY <2>2, <2>3, <2>8, <2>9, <2>10
<1> HIDE DEF G
<1>6. n \in G
  BY <1>4, <1>5, Counting
<1>7. f[n] <= o[n] /\ o[n] <= g[n]
  BY <1>6 DEF G
<1> QED BY <1>1, <1>2, <1>3, <1>7 DEF MadeOf, Between

LEMMA TimesBounds ==
    ASSUME NEW n \in Nat, NEW s \in Seq(Bytes), NEW langs, NEW w, NEW o, MadeOf(n, s, langs, w, o),
           NEW lo \in Nat, NEW hi \in Nat,
           \A i \in 1..n : lo <= Len(w[i]) /\ Len(w[i]) <= hi
    PROVE  n * lo <= Len(s) /\ Len(s) <= n * hi
<1> DEFINE G == {m \in Nat : m <= n => m * lo <= o[m] /\ o[m] <= m * hi}
<1>1. 0 \in G
  BY DEF MadeOf
<1>2. ASSUME NEW m \in Nat, m \in G PROVE m + 1 \in G
  <2> SUFFICES ASSUME m + 1 <= n PROVE (m + 1) * lo <= o[m + 1] /\ o[m + 1] <= (m + 1) * hi
    OBVIOUS
  <2>1. m + 1 \in 1..n /\ (m + 1) - 1 = m /\ m \in 0..n
    OBVIOUS
  <2>2. (m + 1) * lo = m * lo + lo /\ (m + 1) * hi = m * hi + hi /\ m * lo \in Nat /\ m * hi \in Nat
    OBVIOUS
  <2>3. o[m + 1] = o[m] + Len(w[m + 1]) /\ Len(w[m + 1]) \in Nat
    BY <2>1, WordIs DEF WordAt
  <2>4. lo <= Len(w[m + 1]) /\ Len(w[m + 1]) <= hi
    BY <2>1
  <2>5. m * lo <= o[m] /\ o[m] <= m * hi
    BY <1>2, <2>1
  <2>6. o[m] \in Nat
    BY <2>1 DEF MadeOf
  <2>7. PICK p \in Nat, q \in Nat : p = m * lo /\ q = m * hi
    BY <2>2
  <2>8. p + lo <= o[m] + Len(w[m + 1]) /\ o[m] + Len(w[m + 1]) <= q + hi
    BY <2>3, <2>4, <2>5, <2>6, <2>7
  <2> QED BY <2>2, <2>3, <2>7, <2>8
<1> HIDE DEF G
<1>3. n \in G
  BY <1>1, <1>2, Counting
<1> QED BY <1>3 DEF G, MadeOf

LEMMA AtMostIs ==
    ASSUME NEW m \in Nat, NEW n \in Nat, n <= MaxLen
    PROVE  /\ AtMost(m) \in Nat
           /\ m <= n => AtMost(m) <= n
           /\ n <= m => n <= AtMost(m)
<1>1. MaxLen \in Nat /\ MaxLen <= Unbounded /\ Unbounded \in Nat
  BY QueryAssumption DEF Unbounded
<1>2. CASE m > MaxLen
  <2>1. AtMost(m) = Unbounded
    BY <1>2 DEF AtMost
  <2> QED BY <1>1, <1>2, <2>1
<1>3. CASE ~ (m > MaxLen)
  <2>1. AtMost(m) = m
    BY <1>3 DEF AtMost
  <2> QED BY <2>1
<1> QED BY <1>2, <1>3
-----------------------------------------------------------------------------
(***************************************************************************)
(* What every expression decompose meets is like.                          *)
(***************************************************************************)
ByteSet(B) == B # Unknown => B \subseteq Printable
Has(B, b) == B # Unknown => b \in B

Typed(x, d) ==
    /\ x.lang \subseteq Seq(Bytes) /\ x.query \in Tree(d)
    /\ x.min \in Nat /\ x.max \in Nat
    /\ ByteSet(x.first) /\ ByteSet(x.last)

Sized(x, s) ==
    /\ Len(s) <= MaxLen /\ x.min <= Len(s) /\ Len(s) <= x.max
    /\ Len(s) = 0 => x.empty

Served(x, s) ==
    /\ Good(x.query, s)
    /\ Len(s) # 0 => Has(x.first, s[1]) /\ Has(x.last, s[Len(s)])

NodeOK(x, d) ==
    /\ Typed(x, d)
    /\ \A s \in x.lang : Sized(x, s)
    /\ ~ x.loose => \A s \in x.lang : Served(x, s)

LEMMA AnyGood == ASSUME NEW s PROVE Good(Any, s)
BY PassesIs DEF Good

LEMMA CrossIs ==
    ASSUME NEW last, NEW first, ByteSet(last), ByteSet(first), NEW kind \in {"consec", "skip"}
    PROVE  /\ Cross(kind, last, first) \in Tree(1)
           /\ \A a, b, T, K :
                Has(last, a) /\ Has(first, b) /\ (IsKey(a, b) => Key(kind, a, b) \in K)
                    => Passes(Cross(kind, last, first), T, K)
<1> DEFINE pairs == {p \in last \X first : IsKey(p[1], p[2])}
           keys == {Key(kind, p[1], p[2]) : p \in pairs}
           C == Cross(kind, last, first)
<1>0. 1 \in Nat /\ 0 \in Nat /\ 0 + 1 = 1
  OBVIOUS
<1>1. CASE last = Unknown \/ first = Unknown \/ pairs = {}
  <2>1. C = Any
    BY <1>1 DEF Cross
  <2> HIDE DEF C
  <2>2. Any \in Tree(1)
    BY <1>0, AtomsInTree
  <2> QED BY <2>1, <2>2, PassesIs DEF C
<1>2. CASE last # Unknown /\ first # Unknown /\ pairs # {}
  <2>1. C = Or(keys)
    BY <1>2 DEF Cross
  <2>2. keys \subseteq AllKeys
    BY DEF AllKeys, IsKey
  <2>3. keys \in SUBSET Tree(0)
    BY <1>0, <2>2, AtomsInTree
  <2>4. ASSUME NEW a, NEW b, NEW T, NEW K, Has(last, a), Has(first, b),
               IsKey(a, b) => Key(kind, a, b) \in K
        PROVE  \E c \in keys : Passes(c, T, K)
    <3>1. a \in last /\ b \in first /\ IsKey(a, b)
      BY <1>2, <2>4 DEF Has, ByteSet, IsKey
    <3>2. <<a, b>> \in pairs
      BY <3>1
    <3>3. Key(kind, a, b) \in keys
      BY <3>2
    <3> HIDE DEF keys
    <3>4. Passes(Key(kind, a, b), T, K)
      BY <2>2, <2>4, <3>1, <3>3, PassesIs
    <3> QED BY <3>3, <3>4
  <2> HIDE DEF keys, C
  <2>5. /\ Or(keys) \in Tree(0 + 1)
        /\ \A T, K : 0 + 1 <= Deepest /\ (\E c \in keys : Passes(c, T, K))
                            => Passes(Or(keys), T, K)
    BY <1>0, <2>3, OrIs
  <2>6. 0 + 1 <= Deepest
    BY DeepestIs
  <2> QED BY <1>0, <2>1, <2>4, <2>5, <2>6 DEF C
<1> QED BY <1>1, <1>2

LEMMA EmptyOK == NodeOK(EmptyNode, 1)
<1>1. Any \in Tree(1)
  BY AtomsInTree
<1>2. << >> \in Seq(Bytes) /\ Len(<< >>) = 0 /\ 0 <= MaxLen
  BY QueryAssumption
<1>3. Typed(EmptyNode, 1)
  BY <1>1, <1>2 DEF Typed, EmptyNode, ByteSet
<1>4. ASSUME NEW s \in EmptyNode.lang PROVE Sized(EmptyNode, s) /\ Served(EmptyNode, s)
  <2>1. s = << >> /\ Len(s) = 0
    BY <1>2 DEF EmptyNode
  <2>2. Good(Any, s)
    BY AnyGood
  <2> QED BY <1>2, <2>1, <2>2 DEF Sized, Served, EmptyNode
<1> QED BY <1>3, <1>4 DEF NodeOK

LEMMA KeysGood ==
    ASSUME NEW s \in Seq(Bytes)
    PROVE  And(KeysIn(s)) \in Tree(1) /\ Good(And(KeysIn(s)), s)
<1>1. 0 \in Nat /\ 1 \in Nat /\ 0 + 1 = 1 /\ 0 + 1 <= Deepest
  BY DeepestIs
<1>2. KeysIn(s) \in SUBSET Tree(0)
  BY <1>1, KeysAreKeys, AtomsInTree
<1>3. /\ And(KeysIn(s)) \in Tree(0 + 1)
      /\ \A T, K : 0 + 1 <= Deepest /\ (\A c \in KeysIn(s) : Passes(c, T, K))
                            => Passes(And(KeysIn(s)), T, K)
  BY <1>1, <1>2, AndIs
<1>4. ASSUME NEW T, NEW K, KeysIn(s) \subseteq K PROVE Passes(And(KeysIn(s)), T, K)
  <2>1. \A c \in KeysIn(s) : Passes(c, T, K)
    BY <1>4, KeysAreKeys, PassesIs
  <2> QED BY <1>1, <1>3, <2>1
<1> QED BY <1>1, <1>3, <1>4 DEF Good

LEMMA LiteralOK == ASSUME NEW s \in Literals PROVE NodeOK(Literal(s), 1)
<1>1. PICK n \in 1..MaxLen : s \in [1..n -> Bytes]
  BY QueryAssumption
<1>2. s \in Seq(Bytes) /\ Len(s) = n /\ n \in Nat /\ n # 0 /\ n <= MaxLen
  BY <1>1, QueryAssumption
<1>3. \A b : ByteSet(ByteOrNone(b)) /\ Has(ByteOrNone(b), b)
  BY DEF ByteSet, Has, ByteOrNone
<1> DEFINE x == Literal(s)
<1>4. /\ x.lang = {s} /\ x.query = And(KeysIn(s))
      /\ x.first = ByteOrNone(s[1]) /\ x.last = ByteOrNone(s[Len(s)])
      /\ x.empty = FALSE /\ x.min = Len(s) /\ x.max = Len(s) /\ x.loose = FALSE
  BY DEF Literal
<1> HIDE DEF x
<1>5. Typed(x, 1)
  BY <1>2, <1>3, <1>4, KeysGood DEF Typed
<1>6. ASSUME NEW t \in x.lang PROVE Sized(x, t) /\ Served(x, t)
  <2>1. t = s
    BY <1>4
  <2>2. Good(x.query, s)
    BY <1>2, <1>4, KeysGood
  <2>3. Has(x.first, s[1]) /\ Has(x.last, s[Len(s)])
    BY <1>3, <1>4
  <2>4. Sized(x, s)
    BY <1>2, <1>4 DEF Sized
  <2> QED BY <2>1, <2>2, <2>3, <2>4 DEF Served
<1> QED BY <1>5, <1>6 DEF NodeOK, x

LEMMA ClassOK == ASSUME NEW class \in Classes PROVE NodeOK(Class(class), 1)
<1> DEFINE x == Class(class)
           S == Members(class)
<1>1. S \subseteq Bytes /\ 1 <= MaxLen
  BY QueryAssumption DEF Members
<1>2. DOMAIN class = 1..Len(class)
  BY QueryAssumption
<1>3. Listed(class, Len(class)) = S \cap Printable
  BY <1>2 DEF Listed, Members
<1>4. /\ x.lang = {<<b>> : b \in S} /\ x.query = Any
      /\ x.first = ExpandClass(class) /\ x.last = ExpandClass(class)
      /\ x.empty = FALSE /\ x.min = 1 /\ x.max = 1
      /\ x.loose = (ExpandClass(class) # Unknown /\ ~ (S \subseteq Printable))
  BY DEF Class
<1> HIDE DEF x, S
<1>5. \A s \in x.lang : \E b \in S : s = <<b>>
  BY <1>4
<1>6. \A b \in Bytes : <<b>> \in Seq(Bytes) /\ Len(<<b>>) = 1 /\ <<b>>[1] = b
  OBVIOUS
<1>7. x.lang \subseteq Seq(Bytes)
  BY <1>1, <1>5, <1>6
<1>8. ByteSet(ExpandClass(class))
  <2>1. Listed(class, Len(class)) \subseteq Printable
    BY <1>3
  <2>2. ExpandClass(class) = Unknown \/ ExpandClass(class) = Listed(class, Len(class))
    BY DEF ExpandClass, Known
  <2> QED BY <2>1, <2>2 DEF ByteSet
<1>9. Any \in Tree(1)
  BY AtomsInTree
<1>10. Typed(x, 1)
  BY <1>4, <1>7, <1>8, <1>9 DEF Typed
<1>11. ASSUME NEW s \in x.lang PROVE Sized(x, s)
  <2>1. Len(s) = 1
    BY <1>1, <1>5, <1>6
  <2> QED BY <1>1, <1>4, <2>1 DEF Sized
<1>12. ASSUME ~ x.loose, NEW s \in x.lang PROVE Served(x, s)
  <2>1. PICK b \in S : s = <<b>> /\ Len(s) = 1 /\ s[1] = b
    BY <1>1, <1>5, <1>6
  <2>2. Has(ExpandClass(class), b)
    <3> SUFFICES ASSUME ExpandClass(class) # Unknown PROVE b \in ExpandClass(class)
      BY DEF Has
    <3>1. S \subseteq Printable
      BY <1>4, <1>12
    <3>2. ExpandClass(class) = S \cap Printable
      BY <1>3 DEF ExpandClass, Known
    <3> QED BY <3>1, <3>2
  <2>3. Good(x.query, s)
    BY <1>4, AnyGood
  <2> QED BY <1>4, <2>1, <2>2, <2>3 DEF Served
<1> QED BY <1>10, <1>11, <1>12 DEF NodeOK, x

LEMMA LeavesOK == ASSUME NEW l \in Leaves PROVE NodeOK(l, 1)
BY EmptyOK, LiteralOK, ClassOK DEF Leaves

LEMMA DeeperOK ==
    ASSUME NEW x, NEW d \in Nat, NEW e \in Nat, d <= e, NodeOK(x, d) PROVE NodeOK(x, e)
<1>1. Tree(d) \subseteq Tree(e)
  BY TreeGrows
<1> QED BY <1>1 DEF NodeOK, Typed
LEMMA MergeIs ==
    ASSUME NEW A, NEW B, ByteSet(A), ByteSet(B)
    PROVE  /\ ByteSet(Merge({A, B}))
           /\ \A b : Has(A, b) \/ Has(B, b) => Has(Merge({A, B}), b)
<1>1. Merge({A, B}) # Unknown => A # Unknown /\ B # Unknown /\ Merge({A, B}) = A \cup B
  BY DEF Merge, Known
<1> QED BY <1>1 DEF ByteSet, Has

LEMMA LeastAndMost ==
    ASSUME NEW m \in Nat, NEW n \in Nat
    PROVE  /\ Min({m, n}) \in Nat /\ Min({m, n}) <= m /\ Min({m, n}) <= n
           /\ Max({m, n}) \in Nat /\ m <= Max({m, n}) /\ n <= Max({m, n})
<1>1. \E x \in {m, n} : \A y \in {m, n} : x <= y
  OBVIOUS
<1>2. \E x \in {m, n} : \A y \in {m, n} : y <= x
  OBVIOUS
<1>3. Min({m, n}) \in {m, n} /\ \A y \in {m, n} : Min({m, n}) <= y
  BY <1>1 DEF Min
<1>4. Max({m, n}) \in {m, n} /\ \A y \in {m, n} : y <= Max({m, n})
  BY <1>2 DEF Max
<1> QED BY <1>3, <1>4

LEMMA AlternationOK ==
    ASSUME NEW d \in Nat, d + 1 <= Deepest, NEW x, NEW y, NodeOK(x, d), NodeOK(y, d)
    PROVE  NodeOK(Alternation(x, y), d + 1)
<1> DEFINE z == Alternation(x, y)
<1>1. /\ z.lang = x.lang \cup y.lang /\ z.query = Or({x.query, y.query})
      /\ z.first = Merge({x.first, y.first}) /\ z.last = Merge({x.last, y.last})
      /\ z.empty = (x.empty \/ y.empty) /\ z.loose = (x.loose \/ y.loose)
      /\ z.min = Min({x.min, y.min}) /\ z.max = Max({x.max, y.max})
  BY DEF Alternation
<1> HIDE DEF z
<1>2. Typed(x, d) /\ Typed(y, d)
  BY DEF NodeOK
<1>3. {x.query, y.query} \in SUBSET Tree(d)
  BY <1>2 DEF Typed
<1>4. /\ z.query \in Tree(d + 1)
      /\ \A T, K : d + 1 <= Deepest /\ (\E c \in {x.query, y.query} : Passes(c, T, K))
                            => Passes(z.query, T, K)
  BY <1>1, <1>3, OrIs
<1>5. /\ ByteSet(z.first) /\ ByteSet(z.last)
      /\ \A b : Has(x.first, b) \/ Has(y.first, b) => Has(z.first, b)
      /\ \A b : Has(x.last, b) \/ Has(y.last, b) => Has(z.last, b)
  BY <1>1, <1>2, MergeIs DEF Typed
<1>6. /\ z.min \in Nat /\ z.min <= x.min /\ z.min <= y.min
      /\ z.max \in Nat /\ x.max <= z.max /\ y.max <= z.max
  <2>1. /\ x.min \in Nat /\ x.max \in Nat /\ y.min \in Nat /\ y.max \in Nat
    BY <1>2 DEF Typed
  <2>2. z.min \in Nat /\ z.min <= x.min /\ z.min <= y.min
    BY <1>1, <2>1, LeastAndMost
  <2>3. z.max \in Nat /\ x.max <= z.max /\ y.max <= z.max
    BY <1>1, <2>1, LeastAndMost
  <2> QED BY <2>2, <2>3
<1>7. Typed(z, d + 1)
  BY <1>1, <1>2, <1>4, <1>5, <1>6 DEF Typed
<1>8. ASSUME NEW s \in z.lang PROVE Sized(z, s)
  <2>1. s \in Seq(Bytes) /\ Len(s) \in Nat
    BY <1>1, <1>2 DEF Typed
  <2>2. Sized(x, s) \/ Sized(y, s)
    BY <1>1 DEF NodeOK
  <2>3. /\ x.min \in Nat /\ x.max \in Nat /\ y.min \in Nat /\ y.max \in Nat
    BY <1>2 DEF Typed
  <2>4. PICK n \in Nat : n = Len(s)
    BY <2>1
  <2>5. n <= MaxLen /\ z.min <= n /\ n <= z.max
    <3>1. n <= MaxLen /\ ((x.min <= n /\ n <= x.max) \/ (y.min <= n /\ n <= y.max))
      BY <2>2, <2>4 DEF Sized
    <3> QED BY <1>6, <2>3, <2>4, <3>1
  <2>6. Len(s) = 0 => x.empty \/ y.empty
    BY <2>2 DEF Sized
  <2>7. Len(s) = 0 => z.empty
    BY <1>1, <2>6
  <2> QED BY <2>4, <2>5, <2>7 DEF Sized
<1>9. ASSUME ~ z.loose, NEW s \in z.lang PROVE Served(z, s)
  <2>1. Served(x, s) \/ Served(y, s)
    BY <1>1, <1>9 DEF NodeOK
  <2>2. ASSUME NEW T, NEW K, KeysIn(s) \subseteq K PROVE Passes(z.query, T, K)
    <3>1. Passes(x.query, T, K) \/ Passes(y.query, T, K)
      BY <2>1, <2>2 DEF Served, Good
    <3> QED BY <1>4, <3>1
  <2>3. Good(z.query, s)
    BY <2>2 DEF Good
  <2> QED BY <1>5, <2>1, <2>3 DEF Served
<1> QED BY <1>7, <1>8, <1>9 DEF NodeOK, z
\* Where two words meet, the string has the key of the bytes that meet; and
\* across a word of one byte.
LEMMA NextTo ==
    ASSUME NEW n \in Nat, NEW s \in Seq(Bytes), NEW langs, NEW w, NEW o, MadeOf(n, s, langs, w, o),
           NEW i \in 1..(n - 1), Len(w[i]) # 0, Len(w[i + 1]) # 0,
           IsKey(w[i][Len(w[i])], w[i + 1][1])
    PROVE  Key("consec", w[i][Len(w[i])], w[i + 1][1]) \in KeysIn(s)
<1>1. i \in 1..n /\ i + 1 \in 1..n /\ (i + 1) - 1 = i
  OBVIOUS
<1>2. WordAt(i, s, langs, w, o)
  BY <1>1, WordIs
<1>3. WordAt(i + 1, s, langs, w, o)
  BY <1>1, WordIs
<1>4. PICK m \in Nat, k \in Nat : m = Len(w[i]) /\ k = Len(w[i + 1]) /\ m # 0 /\ k # 0
  BY <1>2, <1>3 DEF WordAt
<1>5. PICK a \in Nat : a = o[i - 1]
  BY <1>2 DEF WordAt
<1>6. o[i] = a + m
  BY <1>2, <1>4, <1>5 DEF WordAt
<1>7. s[a + m] = w[i][m]
  <2>1. m \in 1..m
    BY <1>4
  <2> QED BY <1>2, <1>4, <1>5, <2>1 DEF WordAt
<1>8. s[(a + m) + 1] = w[i + 1][1]
  <2>1. 1 \in 1..k
    BY <1>4
  <2>2. s[o[i] + 1] = w[i + 1][1]
    BY <1>1, <1>3, <1>4, <2>1 DEF WordAt
  <2> QED BY <1>6, <2>2
<1>9. (a + m) + k <= Len(s)
  <2>1. o[i + 1] = o[i] + k /\ o[i + 1] <= Len(s)
    BY <1>1, <1>3, <1>4 DEF WordAt
  <2> QED BY <1>6, <2>1
<1>10. a + m \in 1..(Len(s) - 1)
  <2>1. PICK N \in Nat : N = Len(s)
    OBVIOUS
  <2>2. (a + m) + k <= N /\ m # 0 /\ k # 0
    BY <1>4, <1>9, <2>1
  <2>3. a + m \in 1..(N - 1)
    BY <2>2
  <2> QED BY <2>1, <2>3
<1>11. IsKey(s[a + m], s[(a + m) + 1])
  BY <1>4, <1>7, <1>8
<1>12. Key("consec", s[a + m], s[(a + m) + 1]) \in KeysIn(s)
  BY <1>10, <1>11 DEF KeysIn
<1> QED BY <1>4, <1>7, <1>8, <1>12

LEMMA AcrossOne ==
    ASSUME NEW n \in Nat, NEW s \in Seq(Bytes), NEW langs, NEW w, NEW o, MadeOf(n, s, langs, w, o),
           NEW i \in 1..(n - 2), Len(w[i]) # 0, Len(w[i + 1]) = 1, Len(w[i + 2]) # 0,
           IsKey(w[i][Len(w[i])], w[i + 2][1])
    PROVE  Key("skip", w[i][Len(w[i])], w[i + 2][1]) \in KeysIn(s)
<1>1. /\ i \in 1..n /\ i + 1 \in 1..n /\ (i + 1) - 1 = i
      /\ i + 2 \in 1..n /\ (i + 2) - 1 = i + 1
  OBVIOUS
<1>2. WordAt(i, s, langs, w, o)
  BY <1>1, WordIs
<1>3. WordAt(i + 1, s, langs, w, o)
  BY <1>1, WordIs
<1>4. WordAt(i + 2, s, langs, w, o)
  BY <1>1, WordIs
<1>5. PICK m \in Nat, k \in Nat : m = Len(w[i]) /\ k = Len(w[i + 2]) /\ m # 0 /\ k # 0
  BY <1>2, <1>4 DEF WordAt
<1>6. PICK a \in Nat : a = o[i - 1]
  BY <1>2 DEF WordAt
<1>7. o[i] = a + m
  BY <1>2, <1>5, <1>6 DEF WordAt
<1>8. o[i + 1] = (a + m) + 1
  <2>1. o[i + 1] = o[i] + Len(w[i + 1])
    BY <1>1, <1>3 DEF WordAt
  <2> QED BY <1>7, <2>1
<1>9. s[a + m] = w[i][m]
  <2>1. m \in 1..m
    BY <1>5
  <2> QED BY <1>2, <1>5, <1>6, <2>1 DEF WordAt
<1>10. s[(a + m) + 2] = w[i + 2][1]
  <2>1. 1 \in 1..k
    BY <1>5
  <2>2. s[o[i + 1] + 1] = w[i + 2][1]
    BY <1>1, <1>4, <1>5, <2>1 DEF WordAt
  <2>3. ((a + m) + 1) + 1 = (a + m) + 2
    OBVIOUS
  <2> QED BY <1>8, <2>2, <2>3
<1>11. ((a + m) + 1) + k <= Len(s)
  <2>1. o[i + 2] = o[i + 1] + k /\ o[i + 2] <= Len(s)
    BY <1>1, <1>4, <1>5 DEF WordAt
  <2> QED BY <1>8, <2>1
<1>12. a + m \in 1..(Len(s) - 2)
  <2>1. PICK N \in Nat : N = Len(s)
    OBVIOUS
  <2>2. ((a + m) + 1) + k <= N /\ m # 0 /\ k # 0
    BY <1>5, <1>11, <2>1
  <2>3. a + m \in 1..(N - 2)
    BY <2>2
  <2> QED BY <2>1, <2>3
<1>13. IsKey(s[a + m], s[(a + m) + 2])
  BY <1>5, <1>9, <1>10
<1>14. Key("skip", s[a + m], s[(a + m) + 2]) \in KeysIn(s)
  BY <1>12, <1>13 DEF KeysIn
<1> QED BY <1>5, <1>9, <1>10, <1>14

\* What is collected of the ends has the byte of the first part that is met.
LEMMA CollectIs ==
    ASSUME NEW n \in Nat, NEW ends, DOMAIN ends = 1..n, \A i \in 1..n : ByteSet(ends[i].bytes)
    PROVE  /\ ByteSet(Collect(ends))
           /\ \A i \in 1..n : \A b :
                /\ \A j \in 1..(i - 1) : ends[j].empty
                /\ Has(ends[i].bytes, b)
                /\ ~ (ends[i].bytes = Unknown /\ ends[i].empty)
                => Has(Collect(ends), b)
<1> DEFINE L == Leading(ends)
           B == UNION {ends[i].bytes : i \in {j \in L : ends[j].bytes # Unknown}}
<1>1. L = {i \in 1..n : \A j \in 1..(i - 1) : ends[j].empty}
  BY DEF Leading
<1>2. Collect(ends) # Unknown =>
         Collect(ends) = B /\ ~ (\E i \in L : ends[i].bytes = Unknown /\ ~ ends[i].empty)
  BY DEF Collect, Known
<1> HIDE DEF L
<1>3. B \subseteq Printable
  BY <1>1 DEF ByteSet
<1>4. ASSUME NEW i \in 1..n, NEW b, \A j \in 1..(i - 1) : ends[j].empty,
             Has(ends[i].bytes, b), ~ (ends[i].bytes = Unknown /\ ends[i].empty),
             Collect(ends) # Unknown
      PROVE  b \in Collect(ends)
  <2>1. i \in L
    BY <1>1, <1>4
  <2>2. ends[i].bytes # Unknown
    BY <1>2, <1>4, <2>1
  <2>3. b \in B
    BY <1>4, <2>1, <2>2 DEF Has
  <2> QED BY <1>2, <1>4, <2>3
<1> HIDE DEF B
<1>5. ByteSet(Collect(ends))
  BY <1>2, <1>3 DEF ByteSet
<1> QED BY <1>4, <1>5 DEF Has
-----------------------------------------------------------------------------
Adjacents(parts) ==
    {Cross("consec", parts[i].last, parts[i + 1].first) :
        i \in {j \in 1..(Len(parts) - 1) : ~parts[j].empty /\ ~parts[j + 1].empty}}
Aparts(parts) ==
    {Cross("skip", parts[i].last, parts[i + 2].first) :
        i \in {j \in 1..(Len(parts) - 2) :
                    /\ parts[j + 1].min = 1 /\ parts[j + 1].max = 1
                    /\ ~parts[j].empty /\ ~parts[j + 2].empty}}
Asked(parts) == {parts[i].query : i \in DOMAIN parts} \cup Adjacents(parts) \cup Aparts(parts)
Langs(parts) == [i \in DOMAIN parts |-> parts[i].lang]
Least(parts) == [i \in DOMAIN parts |-> parts[i].min]
Most(parts) == [i \in DOMAIN parts |-> parts[i].max]

LEMMA ConcatIs ==
    ASSUME NEW parts
    PROVE  /\ Concat(parts).lang = Chain(Langs(parts)) /\ Concat(parts).query = And(Asked(parts))
           /\ Concat(parts).first = Collect(Firsts(parts))
           /\ Concat(parts).last = Collect(Lasts(parts))
           /\ Concat(parts).empty = (\A i \in DOMAIN parts : parts[i].empty)
           /\ Concat(parts).min = AtMost(Sum(Least(parts)))
           /\ Concat(parts).max = AtMost(Sum(Most(parts)))
           /\ Concat(parts).loose = (\/ \E i \in DOMAIN parts : parts[i].loose
                                     \/ Hides(Firsts(parts)) \/ Hides(Lasts(parts)))
BY DEF Concat, Adjacents, Aparts, Asked, Langs, Least, Most

\* A sequence of parts all of which are as they should be.
PartsOK(parts, n, d) ==
    /\ n \in Nat /\ Len(parts) = n /\ DOMAIN parts = 1..n
    /\ \A i \in 1..n : NodeOK(parts[i], d)

LEMMA PartIs ==
    ASSUME NEW parts, NEW n, NEW d, PartsOK(parts, n, d), NEW i \in 1..n
    PROVE  /\ parts[i].lang \subseteq Seq(Bytes) /\ parts[i].query \in Tree(d)
           /\ parts[i].min \in Nat /\ parts[i].max \in Nat
           /\ ByteSet(parts[i].first) /\ ByteSet(parts[i].last)
           /\ \A s \in parts[i].lang : Sized(parts[i], s)
           /\ ~ parts[i].loose => \A s \in parts[i].lang : Served(parts[i], s)
BY DEF PartsOK, NodeOK, Typed

LEMMA FirstsAre ==
    ASSUME NEW parts, NEW n, NEW d, PartsOK(parts, n, d)
    PROVE  /\ DOMAIN Firsts(parts) = 1..n
           /\ \A i \in 1..n : /\ Firsts(parts)[i].bytes = parts[i].first
                              /\ Firsts(parts)[i].empty = parts[i].empty
                              /\ Firsts(parts)[i].max = parts[i].max
           /\ DOMAIN Lasts(parts) = 1..n
           /\ \A i \in 1..n : /\ Lasts(parts)[i].bytes = parts[n + 1 - i].last
                              /\ Lasts(parts)[i].empty = parts[n + 1 - i].empty
                              /\ Lasts(parts)[i].max = parts[n + 1 - i].max
BY DEF PartsOK, Firsts, Lasts, End

LEMMA AskedAre ==
    ASSUME NEW parts, NEW n, NEW d \in Nat, 1 <= d, PartsOK(parts, n, d)
    PROVE  Asked(parts) \in SUBSET Tree(d)
<1>1. Tree(1) \subseteq Tree(d)
  BY TreeGrows
<1>2. n \in Nat /\ Len(parts) = n /\ DOMAIN parts = 1..n
  BY DEF PartsOK
<1>3. ASSUME NEW i \in 1..(n - 1) PROVE Cross("consec", parts[i].last, parts[i + 1].first) \in Tree(d)
  <2>1. i \in 1..n /\ i + 1 \in 1..n
    BY <1>2
  <2>2. ByteSet(parts[i].last) /\ ByteSet(parts[i + 1].first)
    BY <2>1, PartIs
  <2> QED BY <1>1, <2>2, CrossIs
<1>4. ASSUME NEW i \in 1..(n - 2) PROVE Cross("skip", parts[i].last, parts[i + 2].first) \in Tree(d)
  <2>1. i \in 1..n /\ i + 2 \in 1..n
    BY <1>2
  <2>2. ByteSet(parts[i].last) /\ ByteSet(parts[i + 2].first)
    BY <2>1, PartIs
  <2> QED BY <1>1, <2>2, CrossIs
<1>5. \A i \in 1..n : parts[i].query \in Tree(d)
  BY PartIs
<1>6. Adjacents(parts) \subseteq Tree(d)
  BY <1>2, <1>3 DEF Adjacents
<1>7. Aparts(parts) \subseteq Tree(d)
  BY <1>2, <1>4 DEF Aparts
<1> QED BY <1>2, <1>5, <1>6, <1>7 DEF Asked

\* All that is asked of a concatenation's parts, a file with a match passes.
LEMMA AskedPasses ==
    ASSUME NEW parts, NEW n, NEW d \in Nat, PartsOK(parts, n, d), \A i \in 1..n : ~ parts[i].loose,
           NEW s \in Seq(Bytes), NEW w, NEW o, MadeOf(n, s, Langs(parts), w, o),
           NEW T, NEW K, KeysIn(s) \subseteq K
    PROVE  \A c \in Asked(parts) : Passes(c, T, K)
<1>1. n \in Nat /\ Len(parts) = n /\ DOMAIN parts = 1..n
  BY DEF PartsOK
<1>2. ASSUME NEW i \in 1..n
      PROVE  /\ w[i] \in Seq(Bytes) /\ Sized(parts[i], w[i]) /\ Served(parts[i], w[i])
             /\ Within(w[i], o[i - 1], s) /\ o[i - 1] \in Nat
  <2>1. WordAt(i, s, Langs(parts), w, o)
    BY <1>1, WordIs
  <2>2. w[i] \in parts[i].lang
    BY <1>1, <2>1 DEF WordAt, Langs
  <2> QED BY <2>1, <2>2, PartIs DEF WordAt
<1>3. ASSUME NEW i \in 1..n PROVE Passes(parts[i].query, T, K)
  <2>1. Good(parts[i].query, s)
    BY <1>2, GoodWithin DEF Served
  <2> QED BY <2>1 DEF Good
<1>4. ASSUME NEW i \in 1..(n - 1), ~ parts[i].empty, ~ parts[i + 1].empty
      PROVE  Passes(Cross("consec", parts[i].last, parts[i + 1].first), T, K)
  <2>1. i \in 1..n /\ i + 1 \in 1..n
    BY <1>1
  <2>2. ByteSet(parts[i].last) /\ ByteSet(parts[i + 1].first)
    BY <2>1, PartIs
  <2>3. Len(w[i]) # 0 /\ Len(w[i + 1]) # 0
    BY <1>2, <1>4, <2>1 DEF Sized
  <2> DEFINE a == w[i][Len(w[i])]
             b == w[i + 1][1]
  <2>4. Has(parts[i].last, a) /\ Has(parts[i + 1].first, b)
    BY <1>2, <2>1, <2>3 DEF Served
  <2>5. IsKey(a, b) => Key("consec", a, b) \in K
    BY <1>1, <2>3, NextTo
  <2> HIDE DEF a, b
  <2> QED BY <2>2, <2>4, <2>5, CrossIs
<1>5. ASSUME NEW i \in 1..(n - 2), ~ parts[i].empty, ~ parts[i + 2].empty,
             parts[i + 1].min = 1, parts[i + 1].max = 1
      PROVE  Passes(Cross("skip", parts[i].last, parts[i + 2].first), T, K)
  <2>1. i \in 1..n /\ i + 1 \in 1..n /\ i + 2 \in 1..n
    BY <1>1
  <2>2. ByteSet(parts[i].last) /\ ByteSet(parts[i + 2].first)
    BY <2>1, PartIs
  <2>3. Len(w[i]) # 0 /\ Len(w[i + 2]) # 0
    BY <1>2, <1>5, <2>1 DEF Sized
  <2>4. Len(w[i + 1]) = 1
    <3>1. w[i + 1] \in Seq(Bytes) /\ Sized(parts[i + 1], w[i + 1])
      BY <1>2, <2>1
    <3>2. PICK k \in Nat : k = Len(w[i + 1])
      BY <3>1
    <3>3. 1 <= k /\ k <= 1
      BY <1>5, <3>1, <3>2 DEF Sized
    <3>4. k = 1
      BY <3>3
    <3> QED BY <3>2, <3>4
  <2> DEFINE a == w[i][Len(w[i])]
             b == w[i + 2][1]
  <2>5. Has(parts[i].last, a) /\ Has(parts[i + 2].first, b)
    BY <1>2, <2>1, <2>3 DEF Served
  <2>6. IsKey(a, b) => Key("skip", a, b) \in K
    BY <1>1, <2>3, <2>4, AcrossOne
  <2> HIDE DEF a, b
  <2> QED BY <2>2, <2>5, <2>6, CrossIs
<1>6. \A c \in Adjacents(parts) : Passes(c, T, K)
  BY <1>1, <1>4 DEF Adjacents
<1>7. \A c \in Aparts(parts) : Passes(c, T, K)
  BY <1>1, <1>5 DEF Aparts
<1> QED BY <1>1, <1>3, <1>6, <1>7 DEF Asked
PartOf(x, v) ==
    /\ v \in x.lang /\ v \in Seq(Bytes) /\ Len(v) \in Nat
    /\ x.max \in Nat /\ x.min \in Nat /\ x.min <= Len(v) /\ Len(v) <= x.max
    /\ Len(v) = 0 => x.empty
    /\ ~ x.loose => Served(x, v)

LEMMA PartWord ==
    ASSUME NEW parts, NEW n, NEW d, PartsOK(parts, n, d),
           NEW s \in Seq(Bytes), NEW w, NEW o, MadeOf(n, s, Langs(parts), w, o), NEW i \in 1..n
    PROVE  PartOf(parts[i], w[i])
<1>1. n \in Nat /\ Len(parts) = n /\ DOMAIN parts = 1..n
  BY DEF PartsOK
<1>2. WordAt(i, s, Langs(parts), w, o)
  BY <1>1, WordIs
<1>3. w[i] \in parts[i].lang /\ w[i] \in Seq(Bytes) /\ Len(w[i]) \in Nat
  BY <1>1, <1>2 DEF WordAt, Langs
<1>4. Sized(parts[i], w[i]) /\ (~ parts[i].loose => Served(parts[i], w[i]))
      /\ parts[i].max \in Nat /\ parts[i].min \in Nat
  BY <1>3, PartIs
<1> QED BY <1>3, <1>4 DEF Sized, PartOf

\* A match begins and ends with a byte that is collected of its parts.
LEMMA ConcatBegins ==
    ASSUME NEW parts, NEW n, NEW d, PartsOK(parts, n, d), \A i \in 1..n : ~ parts[i].loose,
           ~ Hides(Firsts(parts)), NEW s \in Seq(Bytes), NEW w, NEW o,
           MadeOf(n, s, Langs(parts), w, o), Len(s) # 0
    PROVE  Has(Collect(Firsts(parts)), s[1])
<1>1. n \in Nat
  BY DEF PartsOK
<1>2. PICK i \in 1..n : /\ Len(w[i]) # 0 /\ \A j \in 1..(i - 1) : Len(w[j]) = 0
                        /\ s[1] = w[i][1]
  BY <1>1, FirstWord DEF Opens
<1> DEFINE ends == Firsts(parts)
<1>3. /\ DOMAIN ends = 1..n
      /\ \A j \in 1..n : /\ ends[j].bytes = parts[j].first
                         /\ ends[j].empty = parts[j].empty /\ ends[j].max = parts[j].max
  BY FirstsAre
<1>4. ~ Hides(ends)
  OBVIOUS
<1> HIDE DEF ends
<1>5. \A j \in 1..n : ByteSet(ends[j].bytes)
  BY <1>3, PartIs
<1>6. \A j \in 1..(i - 1) : j \in 1..n
  BY <1>1
<1>7. \A j \in 1..(i - 1) : ends[j].empty
  BY <1>2, <1>3, <1>6, PartWord DEF PartOf
<1>8. ends[i].max > 0
  <2>1. PICK k \in Nat, m \in Nat : k = Len(w[i]) /\ m = parts[i].max /\ k <= m
    BY PartWord DEF PartOf
  <2> QED BY <1>2, <1>3, <2>1
<1>9. ~ (ends[i].bytes = Unknown /\ ends[i].empty)
  <2>1. i \in Leading(ends)
    BY <1>3, <1>7 DEF Leading
  <2> QED BY <1>4, <1>8, <2>1 DEF Hides
<1>10. Has(ends[i].bytes, s[1])
  <2>1. Served(parts[i], w[i])
    BY PartWord DEF PartOf
  <2> QED BY <1>2, <1>3, <2>1 DEF Served
<1>11. Has(Collect(ends), s[1])
  BY <1>1, <1>3, <1>5, <1>7, <1>9, <1>10, CollectIs
<1> QED BY <1>11 DEF ends

LEMMA ConcatEnds ==
    ASSUME NEW parts, NEW n, NEW d, PartsOK(parts, n, d), \A i \in 1..n : ~ parts[i].loose,
           ~ Hides(Lasts(parts)), NEW s \in Seq(Bytes), NEW w, NEW o,
           MadeOf(n, s, Langs(parts), w, o), Len(s) # 0
    PROVE  Has(Collect(Lasts(parts)), s[Len(s)])
<1>1. n \in Nat
  BY DEF PartsOK
<1>2. PICK k \in 1..n : /\ Len(w[k]) # 0 /\ \A j \in (k + 1)..n : Len(w[j]) = 0
                        /\ s[Len(s)] = w[k][Len(w[k])]
  BY <1>1, LastWord DEF Closes
<1> DEFINE ends == Lasts(parts)
           i == n + 1 - k
<1>3. /\ DOMAIN ends = 1..n
      /\ \A j \in 1..n : /\ ends[j].bytes = parts[n + 1 - j].last
                         /\ ends[j].empty = parts[n + 1 - j].empty
                         /\ ends[j].max = parts[n + 1 - j].max
  BY FirstsAre
<1>4. ~ Hides(ends)
  OBVIOUS
<1> HIDE DEF ends
<1>5. \A j \in 1..n : n + 1 - j \in 1..n
  BY <1>1
<1>6. ASSUME NEW j \in 1..n PROVE ByteSet(ends[j].bytes)
  <2>1. ByteSet(parts[n + 1 - j].last)
    BY <1>5, PartIs
  <2> QED BY <1>3, <2>1
<1>7. i \in 1..n /\ n + 1 - i = k
  BY <1>1
<1>8. \A j \in 1..(i - 1) : j \in 1..n /\ n + 1 - j \in (k + 1)..n
  BY <1>1
<1> HIDE DEF i
<1>9. \A j \in 1..(i - 1) : ends[j].empty
  <2> SUFFICES ASSUME NEW j \in 1..(i - 1) PROVE ends[j].empty
    OBVIOUS
  <2>1. j \in 1..n /\ n + 1 - j \in 1..n /\ Len(w[n + 1 - j]) = 0
    BY <1>2, <1>5, <1>8
  <2>2. PartOf(parts[n + 1 - j], w[n + 1 - j])
    BY <2>1, PartWord
  <2> QED BY <1>3, <2>1, <2>2 DEF PartOf
<1>10. ends[i].max > 0
  <2>1. PICK l \in Nat, m \in Nat : l = Len(w[k]) /\ m = parts[k].max /\ l <= m
    BY PartWord DEF PartOf
  <2> QED BY <1>2, <1>3, <1>7, <2>1
<1>11. ~ (ends[i].bytes = Unknown /\ ends[i].empty)
  <2>1. i \in Leading(ends)
    BY <1>3, <1>7, <1>9 DEF Leading
  <2> QED BY <1>4, <1>10, <2>1 DEF Hides
<1>12. Has(ends[i].bytes, s[Len(s)])
  <2>1. Served(parts[k], w[k])
    BY PartWord DEF PartOf
  <2> QED BY <1>2, <1>3, <1>7, <2>1 DEF Served
<1>13. Has(Collect(ends), s[Len(s)])
  BY <1>1, <1>3, <1>6, <1>7, <1>9, <1>11, <1>12, CollectIs
<1> QED BY <1>13 DEF ends

LEMMA ConcatOK ==
    ASSUME NEW parts, NEW n, NEW d \in Nat, 1 <= d, d + 1 <= Deepest, PartsOK(parts, n, d)
    PROVE  NodeOK(Concat(parts), d + 1)
<1> DEFINE z == Concat(parts)
<1>1. /\ z.lang = Chain(Langs(parts)) /\ z.query = And(Asked(parts))
      /\ z.first = Collect(Firsts(parts)) /\ z.last = Collect(Lasts(parts))
      /\ z.empty = (\A i \in DOMAIN parts : parts[i].empty)
      /\ z.min = AtMost(Sum(Least(parts))) /\ z.max = AtMost(Sum(Most(parts)))
      /\ z.loose = (\/ \E i \in DOMAIN parts : parts[i].loose
                    \/ Hides(Firsts(parts)) \/ Hides(Lasts(parts)))
  BY ConcatIs
<1> HIDE DEF z
<1>2. n \in Nat /\ Len(parts) = n /\ DOMAIN parts = 1..n
  BY DEF PartsOK
<1>3. \A i \in 1..n : parts[i].lang \subseteq Seq(Bytes) /\ parts[i].min \in Nat /\ parts[i].max \in Nat
  BY PartIs
<1>4. Langs(parts) \in Seq(SUBSET Seq(Bytes)) /\ Len(Langs(parts)) = n
  BY <1>2, <1>3 DEF Langs
<1>5. /\ Least(parts) \in Seq(Nat) /\ Len(Least(parts)) = n
      /\ Most(parts) \in Seq(Nat) /\ Len(Most(parts)) = n
      /\ \A i \in 1..n : Least(parts)[i] = parts[i].min /\ Most(parts)[i] = parts[i].max
  BY <1>2, <1>3 DEF Least, Most
<1>6. \A s \in z.lang : s \in Seq(Bytes) /\ Len(s) \in Nat /\ Len(s) <= MaxLen
                        /\ \E w, o : MadeOf(n, s, Langs(parts), w, o)
  BY <1>1, <1>4, ChainWords DEF Fits
<1>7. /\ z.query \in Tree(d + 1)
      /\ \A T, K : d + 1 <= Deepest /\ (\A c \in Asked(parts) : Passes(c, T, K))
                            => Passes(z.query, T, K)
  BY <1>1, AskedAre, AndIs
<1>8. ByteSet(z.first)
  <2>1. \A i \in 1..n : ByteSet(Firsts(parts)[i].bytes)
    BY FirstsAre, PartIs
  <2> QED BY <1>1, <1>2, <2>1, FirstsAre, CollectIs
<1>9. ByteSet(z.last)
  <2>1. \A i \in 1..n : n + 1 - i \in 1..n
    BY <1>2
  <2>2. \A i \in 1..n : ByteSet(Lasts(parts)[i].bytes)
    BY <2>1, FirstsAre, PartIs
  <2> QED BY <1>1, <1>2, <2>2, FirstsAre, CollectIs
<1>10. z.min \in Nat /\ z.max \in Nat
  <2>1. Sum(Least(parts)) \in Nat /\ Sum(Most(parts)) \in Nat
    BY <1>5, SumIs DEF Summed
  <2>2. 0 \in Nat /\ 0 <= MaxLen
    BY QueryAssumption
  <2> QED BY <1>1, <2>1, <2>2, AtMostIs
<1>11. Typed(z, d + 1)
  BY <1>6, <1>7, <1>8, <1>9, <1>10 DEF Typed
<1>12. ASSUME NEW s \in z.lang PROVE Sized(z, s)
  <2>1. PICK w, o : MadeOf(n, s, Langs(parts), w, o)
    BY <1>6
  <2>2. s \in Seq(Bytes) /\ Len(s) \in Nat /\ Len(s) <= MaxLen
    BY <1>6
  <2>3. \A i \in 1..n : Least(parts)[i] <= Len(w[i]) /\ Len(w[i]) <= Most(parts)[i]
    <3>1. \A i \in 1..n : PartOf(parts[i], w[i])
      BY <2>1, <2>2, PartWord
    <3> QED BY <1>5, <3>1 DEF PartOf
  <2>4. Between(Least(parts), s, Most(parts))
    BY <1>2, <1>5, <2>1, <2>2, <2>3, SumBounds
  <2>5. z.min <= Len(s) /\ Len(s) <= z.max
    BY <1>1, <2>2, <2>4, AtMostIs DEF Between
  <2>6. ASSUME Len(s) = 0 PROVE z.empty
    <3>1. ASSUME NEW i \in 1..n PROVE Len(w[i]) = 0
      <4>1. Len(w[i]) <= Len(s)
        BY <1>2, <2>1, <2>2, WordShort
      <4>2. Len(w[i]) \in Nat
        BY <2>1, <2>2, PartWord DEF PartOf
      <4> QED BY <2>6, <4>1, <4>2
    <3>2. \A i \in 1..n : parts[i].empty
      <4>1. \A i \in 1..n : PartOf(parts[i], w[i])
        BY <2>1, <2>2, PartWord
      <4> QED BY <3>1, <4>1 DEF PartOf
    <3> QED BY <1>1, <1>2, <3>2
  <2> QED BY <2>2, <2>5, <2>6 DEF Sized
<1>13. ASSUME ~ z.loose, NEW s \in z.lang PROVE Served(z, s)
  <2>1. PICK w, o : MadeOf(n, s, Langs(parts), w, o)
    BY <1>6
  <2>2. s \in Seq(Bytes)
    BY <1>6
  <2>3. (\A i \in 1..n : ~ parts[i].loose) /\ ~ Hides(Firsts(parts)) /\ ~ Hides(Lasts(parts))
    BY <1>1, <1>2, <1>13
  <2>4. ASSUME NEW T, NEW K, KeysIn(s) \subseteq K PROVE Passes(z.query, T, K)
    <3>1. \A c \in Asked(parts) : Passes(c, T, K)
      BY <2>1, <2>2, <2>3, <2>4, AskedPasses
    <3> QED BY <1>7, <3>1
  <2>5. Good(z.query, s)
    BY <2>4 DEF Good
  <2>6. Len(s) # 0 => Has(z.first, s[1])
    BY <1>1, <2>1, <2>2, <2>3, ConcatBegins
  <2>7. Len(s) # 0 => Has(z.last, s[Len(s)])
    BY <1>1, <2>1, <2>2, <2>3, ConcatEnds
  <2> QED BY <2>5, <2>6, <2>7 DEF Served
<1> QED BY <1>11, <1>12, <1>13 DEF NodeOK, z
-----------------------------------------------------------------------------
LEMMA TimesMore ==
    ASSUME NEW m \in Nat, NEW n \in Nat, NEW k \in Nat, m <= n
    PROVE  m * k \in Nat /\ n * k \in Nat /\ m * k <= n * k
<1>1. PICK j \in Nat : n = m + j
  <2>1. n - m \in Nat /\ n = m + (n - m)
    OBVIOUS
  <2> QED BY <2>1
<1>2. n * k = m * k + j * k
  BY <1>1
<1>3. m * k \in Nat /\ j * k \in Nat
  BY <1>1
<1> QED BY <1>2, <1>3

Copies(x, n) == [i \in 1..n |-> x.lang]

LEMMA RepetitionOK ==
    ASSUME NEW d \in Nat, 1 <= d, d + 1 <= Deepest, NEW x, NodeOK(x, d), NEW times \in Counts
    PROVE  NodeOK(Repetition(x, times), d + 1)
<1> DEFINE z == Repetition(x, times)
           min == times[1]
           max == times[2]
           upto == IF max = Unbounded THEN Max2(MaxLen, min) ELSE max
           joint == Cross("consec", x.last, x.first)
           asked == {x.query} \cup (IF min >= 2 THEN {joint} ELSE {})
<1>1. min \in Nat /\ max \in Nat /\ upto \in Nat
  BY QueryAssumption DEF Max2
<1>2. /\ z.lang = UNION {Chain(Copies(x, n)) : n \in min..upto}
      /\ z.query = IF min = 0 THEN Any ELSE And(asked)
      /\ z.first = x.first /\ z.last = x.last
      /\ z.empty = (min = 0 \/ x.empty) /\ z.loose = (x.loose \/ (min >= 2 /\ x.empty))
      /\ z.min = AtMost(min * x.min)
      /\ z.max = IF x.max = 0 THEN 0 ELSE IF max = Unbounded THEN Unbounded ELSE AtMost(max * x.max)
  BY DEF Repetition, Copies
<1>3. max # Unbounded => upto = max
  OBVIOUS
<1> HIDE DEF z, min, max, upto, joint, asked
<1>4. /\ x.lang \subseteq Seq(Bytes) /\ x.query \in Tree(d) /\ x.min \in Nat /\ x.max \in Nat
      /\ ByteSet(x.first) /\ ByteSet(x.last)
  BY DEF NodeOK, Typed
<1>5. ASSUME NEW n \in Nat PROVE Copies(x, n) \in Seq(SUBSET Seq(Bytes)) /\ Len(Copies(x, n)) = n
  BY <1>4 DEF Copies
<1>6. ASSUME NEW s \in z.lang
      PROVE  /\ s \in Seq(Bytes) /\ Len(s) \in Nat /\ Len(s) <= MaxLen
             /\ \E n \in Nat : min <= n /\ n <= upto /\ \E w, o : MadeOf(n, s, Copies(x, n), w, o)
  <2>1. PICK n \in min..upto : s \in Chain(Copies(x, n))
    BY <1>2
  <2>2. n \in Nat
    BY <1>1
  <2>3. Fits(n, s, Copies(x, n))
    BY <1>5, <2>1, <2>2, ChainWords
  <2> QED BY <1>1, <2>1, <2>2, <2>3 DEF Fits
<1>7. ASSUME NEW n \in Nat, NEW s \in Seq(Bytes), NEW w, NEW o, MadeOf(n, s, Copies(x, n), w, o),
             NEW i \in 1..n
      PROVE  PartOf(x, w[i]) /\ WordAt(i, s, Copies(x, n), w, o)
  <2>1. WordAt(i, s, Copies(x, n), w, o)
    BY <1>7, WordIs
  <2>2. w[i] \in x.lang
    BY <2>1 DEF WordAt, Copies
  <2>3. Sized(x, w[i]) /\ (~ x.loose => Served(x, w[i]))
    BY <2>2 DEF NodeOK
  <2> QED BY <1>4, <2>1, <2>2, <2>3 DEF PartOf, WordAt, Sized
<1>8. joint \in Tree(1) /\ Tree(1) \subseteq Tree(d)
  BY <1>4, CrossIs, TreeGrows DEF joint
<1>9. asked \in SUBSET Tree(d)
  BY <1>4, <1>8 DEF asked
<1>10. /\ And(asked) \in Tree(d + 1)
       /\ \A T, K : d + 1 <= Deepest /\ (\A c \in asked : Passes(c, T, K))
                            => Passes(And(asked), T, K)
  BY <1>9, AndIs
<1>11. z.query \in Tree(d + 1)
  <2>1. d + 1 \in Nat
    OBVIOUS
  <2> QED BY <1>2, <1>10, <2>1, AtomsInTree
<1>12. z.min \in Nat /\ z.max \in Nat
  <2>1. min * x.min \in Nat /\ max * x.max \in Nat
    BY <1>1, <1>4
  <2>2. 0 \in Nat /\ 0 <= MaxLen /\ Unbounded \in Nat
    BY QueryAssumption DEF Unbounded
  <2> QED BY <1>2, <2>1, <2>2, AtMostIs
<1>13. Typed(z, d + 1)
  BY <1>2, <1>4, <1>6, <1>11, <1>12 DEF Typed
<1>14. ASSUME NEW s \in z.lang PROVE Sized(z, s)
  <2>1. s \in Seq(Bytes) /\ Len(s) \in Nat /\ Len(s) <= MaxLen
    BY <1>6
  <2>2. PICK n \in Nat : min <= n /\ n <= upto /\ \E w, o : MadeOf(n, s, Copies(x, n), w, o)
    BY <1>6
  <2>3. PICK w, o : MadeOf(n, s, Copies(x, n), w, o)
    BY <2>2
  <2>4. \A i \in 1..n : PartOf(x, w[i])
    BY <1>7, <2>1, <2>3
  <2>5. PICK lo \in Nat, hi \in Nat, l \in Nat : lo = x.min /\ hi = x.max /\ l = Len(s)
    BY <1>4, <2>1
  <2>6. \A i \in 1..n : lo <= Len(w[i]) /\ Len(w[i]) <= hi
    BY <2>4, <2>5 DEF PartOf
  <2>7. n * lo <= l /\ l <= n * hi
    BY <2>1, <2>3, <2>5, <2>6, TimesBounds
  <2>8. min * lo \in Nat /\ min * lo <= n * lo /\ n * lo \in Nat
    BY <1>1, <2>2, TimesMore
  <2>9. AtMost(min * lo) <= l
    <3>1. PICK p \in Nat, q \in Nat : p = min * lo /\ q = n * lo
      BY <2>8
    <3>2. p <= l /\ l <= MaxLen
      BY <2>1, <2>5, <2>7, <2>8, <3>1
    <3>3. AtMost(p) <= l
      BY <3>2, AtMostIs
    <3> QED BY <3>1, <3>3
  <2>10. l <= z.max
    <3>1. CASE hi = 0
      <4>1. n * hi = 0
        BY <3>1
      <4> QED BY <1>2, <2>5, <2>7, <3>1, <4>1
    <3>2. CASE hi # 0 /\ max = Unbounded
      <4>1. z.max = Unbounded
        <5>1. z.max = IF x.max = 0 THEN 0 ELSE IF max = Unbounded THEN Unbounded ELSE AtMost(max * x.max)
          BY <1>2
        <5>2. x.max # 0
          BY <2>5, <3>2
        <5> QED BY <3>2, <5>1, <5>2
      <4>2. MaxLen \in Nat /\ MaxLen <= Unbounded /\ Unbounded \in Nat
        BY QueryAssumption DEF Unbounded
      <4>3. l <= MaxLen
        BY <2>1, <2>5
      <4>4. l <= Unbounded
        BY <4>2, <4>3
      <4> QED BY <4>1, <4>4
    <3>3. CASE hi # 0 /\ max # Unbounded
      <4>1. n <= max
        BY <1>3, <2>2, <3>3
      <4>2. max * hi \in Nat /\ n * hi <= max * hi /\ n * hi \in Nat
        BY <1>1, <4>1, TimesMore
      <4>3. l <= max * hi
        BY <2>7, <4>2
      <4>4. l <= AtMost(max * hi)
        BY <2>1, <2>5, <4>2, <4>3, AtMostIs
      <4> QED BY <1>2, <2>5, <3>3, <4>4
    <3> QED BY <3>1, <3>2, <3>3
  <2>11. ASSUME l = 0 PROVE z.empty
    <3>1. CASE min = 0
      BY <1>2, <3>1
    <3>2. CASE min # 0
      <4>1. 1 \in 1..n
        BY <1>1, <2>2, <3>2
      <4>2. PartOf(x, w[1])
        BY <2>4, <4>1
      <4>3. Len(w[1]) <= Len(s)
        BY <2>1, <2>3, <4>1, WordShort
      <4>4. Len(w[1]) = 0
        BY <2>5, <2>11, <4>2, <4>3 DEF PartOf
      <4> QED BY <1>2, <4>2, <4>4 DEF PartOf
    <3> QED BY <3>1, <3>2
  <2> QED BY <1>2, <2>1, <2>5, <2>9, <2>10, <2>11 DEF Sized
<1>15. ASSUME ~ z.loose, NEW s \in z.lang PROVE Served(z, s)
  <2>1. s \in Seq(Bytes) /\ Len(s) \in Nat
    BY <1>6
  <2>2. PICK n \in Nat : min <= n /\ n <= upto /\ \E w, o : MadeOf(n, s, Copies(x, n), w, o)
    BY <1>6
  <2>3. PICK w, o : MadeOf(n, s, Copies(x, n), w, o)
    BY <2>2
  <2>4. ~ x.loose /\ ~ (min >= 2 /\ x.empty)
    BY <1>2, <1>15
  <2>5. \A i \in 1..n : PartOf(x, w[i]) /\ WordAt(i, s, Copies(x, n), w, o)
    BY <1>7, <2>1, <2>3
  <2>6. \A i \in 1..n : Served(x, w[i])
    BY <2>4, <2>5 DEF PartOf
  <2>7. ASSUME NEW T, NEW K, KeysIn(s) \subseteq K, min # 0 PROVE Passes(And(asked), T, K)
    <3>1. Passes(x.query, T, K)
      <4>1. 1 \in 1..n /\ 1 - 1 = 0
        BY <1>1, <2>2, <2>7
      <4>2. WordAt(1, s, Copies(x, n), w, o) /\ Good(x.query, w[1])
        BY <2>5, <2>6, <4>1 DEF Served
      <4>3. Good(x.query, s)
        BY <2>1, <4>2, GoodWithin DEF WordAt
      <4> QED BY <2>7, <4>3 DEF Good
    <3>2. ASSUME min >= 2 PROVE Passes(joint, T, K)
      <4>1. 1 \in 1..(n - 1) /\ 1 \in 1..n /\ 1 + 1 \in 1..n
        BY <1>1, <2>2, <3>2
      <4>2. Len(w[1]) # 0 /\ Len(w[1 + 1]) # 0
        BY <2>4, <2>5, <3>2, <4>1 DEF PartOf
      <4> DEFINE a == w[1][Len(w[1])]
                 b == w[1 + 1][1]
      <4>3. Has(x.last, a) /\ Has(x.first, b)
        BY <2>6, <4>1, <4>2 DEF Served
      <4>4. IsKey(a, b) => Key("consec", a, b) \in K
        BY <2>1, <2>3, <2>7, <4>1, <4>2, NextTo
      <4> HIDE DEF a, b
      <4> QED BY <1>4, <4>3, <4>4, CrossIs DEF joint
    <3>3. \A c \in asked : Passes(c, T, K)
      BY <3>1, <3>2 DEF asked
    <3> QED BY <1>10, <3>3
  <2>8. Good(z.query, s)
    <3>1. CASE min = 0
      BY <1>2, <3>1, AnyGood
    <3>2. CASE min # 0
      BY <1>2, <2>7, <3>2 DEF Good
    <3> QED BY <3>1, <3>2
  <2>9. ASSUME Len(s) # 0 PROVE Has(z.first, s[1]) /\ Has(z.last, s[Len(s)])
    <3>1. PICK i \in 1..n : Opens(i, w, s)
      BY <2>1, <2>3, <2>9, FirstWord
    <3>2. PICK j \in 1..n : Closes(j, n, w, s)
      BY <2>1, <2>3, <2>9, LastWord
    <3>3. Len(w[i]) # 0 /\ s[1] = w[i][1] /\ Len(w[j]) # 0 /\ s[Len(s)] = w[j][Len(w[j])]
      BY <3>1, <3>2 DEF Opens, Closes
    <3> QED BY <1>2, <2>6, <3>3 DEF Served
  <2> QED BY <2>8, <2>9 DEF Served
<1> QED BY <1>13, <1>14, <1>15 DEF NodeOK, z
-----------------------------------------------------------------------------
(***************************************************************************)
(* The probes of a fuzzy needle.                                           *)
(***************************************************************************)
LEMMA Quotients ==
    ASSUME NEW a \in Nat, NEW b \in Nat, NEW c \in Nat, b # 0
    PROVE  /\ a \div b \in Nat
           /\ a <= b * c => a \div b <= c
           /\ a + b <= c => a \div b + 1 <= c \div b
<1>1. a \div b \in Nat
  OBVIOUS
<1>2. a <= b * c => a \div b <= c
  OBVIOUS
<1>3. a + b <= c => a \div b + 1 <= c \div b
  OBVIOUS
<1> QED BY <1>1, <1>2, <1>3

\* The members of a finite set of numbers in their order: each is the one of its
\* rank, which no other has.
LEMMA NthIs ==
    ASSUME NEW S \in SUBSET Nat, IsFiniteSet(S), NEW m \in Nat, m = Cardinality(S)
    PROVE  /\ \A k \in 1..m : Nth(S, k) \in S
           /\ \A j, k \in 1..m : Nth(S, j) = Nth(S, k) => j = k
           /\ \A p \in S : \E k \in 1..m : Nth(S, k) = p
<1> DEFINE UpTo(p) == {q \in S : q <= p}
           rank == [p \in S |-> Cardinality(UpTo(p))]
<1>1. ASSUME NEW p \in S
      PROVE  /\ IsFiniteSet(UpTo(p)) /\ Cardinality(UpTo(p)) \in 1..m
  <2>1. p \in UpTo(p) /\ UpTo(p) \in SUBSET S
    OBVIOUS
  <2> HIDE DEF UpTo
  <2>2. IsFiniteSet(UpTo(p)) /\ Cardinality(UpTo(p)) <= m
    BY <2>1, FS_Subset
  <2>3. Cardinality(UpTo(p)) \in Nat
    BY <2>2, FS_CardinalityType
  <2>4. Cardinality(UpTo(p)) # 0
    BY <2>1, <2>2, FS_EmptySet
  <2> QED BY <2>2, <2>3, <2>4
<1>2. ASSUME NEW p \in S, NEW q \in S, p < q PROVE Cardinality(UpTo(p)) # Cardinality(UpTo(q))
  <2>1. p \in Nat /\ q \in Nat /\ \A r \in S : r \in Nat
    OBVIOUS
  <2>2. \A r \in S : r <= p => r <= q
    BY <1>2, <2>1
  <2>3. q <= q /\ ~ (q <= p)
    BY <1>2, <2>1
  <2>4. UpTo(p) \in SUBSET UpTo(q) /\ q \in UpTo(q) /\ q \notin UpTo(p)
    BY <2>2, <2>3
  <2> HIDE DEF UpTo
  <2> QED BY <1>1, <2>4, FS_Subset
<1>3. rank \in [S -> 1..m] /\ \A p \in S : rank[p] = Cardinality(UpTo(p))
  BY <1>1
<1> HIDE DEF rank, UpTo
<1>4. \A p, q \in S : rank[p] = rank[q] => p = q
  <2> SUFFICES ASSUME NEW p \in S, NEW q \in S, rank[p] = rank[q] PROVE p = q
    OBVIOUS
  <2>1. ~ (p < q) /\ ~ (q < p)
    BY <1>2, <1>3
  <2> QED BY <2>1
<1>5. rank \in Injection(S, 1..m)
  BY <1>3, <1>4 DEF Injection, IsInjective
<1>6. IsFiniteSet(1..m) /\ Cardinality(1..m) = m
  BY FS_Interval
<1>7. rank \in Surjection(S, 1..m)
  BY <1>5, <1>6, FS_Injection
<1>8. \A k \in 1..m : \E p \in S : rank[p] = k
  BY <1>7 DEF Surjection
<1>9. \A k \in 1..m : Nth(S, k) \in S /\ rank[Nth(S, k)] = k
  <2> SUFFICES ASSUME NEW k \in 1..m PROVE Nth(S, k) \in S /\ rank[Nth(S, k)] = k
    OBVIOUS
  <2>1. Nth(S, k) = CHOOSE p \in S : Cardinality(UpTo(p)) = k
    BY DEF Nth, UpTo
  <2>2. \E p \in S : Cardinality(UpTo(p)) = k
    BY <1>3, <1>8
  <2>3. Nth(S, k) \in S /\ Cardinality(UpTo(Nth(S, k))) = k
    BY <2>1, <2>2
  <2> QED BY <1>3, <2>3
<1>10. \A p \in S : Nth(S, rank[p]) = p /\ rank[p] \in 1..m
  BY <1>3, <1>4, <1>9
<1> QED BY <1>9, <1>10

\* A finite set has subsets of all sizes up to its own.
LEMMA SomeOf ==
    ASSUME NEW S, IsFiniteSet(S), NEW k \in Nat, k <= Cardinality(S)
    PROVE  \E P \in SUBSET S : Cardinality(P) = k
<1>1. PICK m \in Nat : m = Cardinality(S) /\ k <= m
  BY FS_CardinalityType
<1>2. PICK f \in Bijection(1..m, S) : TRUE
  BY <1>1, FS_CardinalityType DEF ExistsBijection
<1>3. f \in [1..m -> S] /\ \A i, j \in 1..m : f[i] = f[j] => i = j
  BY <1>2 DEF Bijection, Injection, IsInjective
<1> DEFINE P == {f[i] : i \in 1..k}
           g == [i \in 1..k |-> f[i]]
<1>4. 1..k \subseteq 1..m
  BY <1>1
<1>5. g \in [1..k -> P] /\ \A i, j \in 1..k : g[i] = g[j] => i = j
  BY <1>3, <1>4
<1>6. \A p \in P : \E i \in 1..k : g[i] = p
  OBVIOUS
<1>7. P \in SUBSET S
  BY <1>3, <1>4
<1> HIDE DEF P, g
<1>8. g \in Bijection(1..k, P)
  BY <1>5, <1>6 DEF Bijection, Injection, Surjection, IsInjective
<1>9. Cardinality(P) = k
  BY <1>8, FS_CountingElements DEF ExistsBijection
<1> QED BY <1>7, <1>9

\* The key that is probed at j, of n of L keys.
Place(j, n, L) == IF n = L THEN j ELSE 1 + ((j - 1) * (L - 1)) \div (n - 1)

LEMMA PlacesRise ==
    ASSUME NEW n \in Nat, NEW L \in Nat, 1 < n, n <= L, NEW j \in 1..n
    PROVE  /\ Place(j, n, L) \in 1..L
           /\ \A k \in 1..n : j < k => Place(j, n, L) < Place(k, n, L)
<1>1. CASE n = L
  BY <1>1 DEF Place
<1>2. CASE n # L
  <2>1. PICK m \in Nat, l \in Nat : m = n - 1 /\ l = L - 1 /\ m # 0 /\ m <= l
    OBVIOUS
  <2> DEFINE At(k) == (k - 1) * l
  <2>2. \A k \in 1..n : k - 1 \in Nat /\ k - 1 <= m
    BY <2>1
  <2>3. \A k \in 1..n : At(k) \in Nat
    BY <2>2
  <2>4. \A k \in 1..n : Place(k, n, L) = 1 + At(k) \div m
    BY <1>2, <2>1 DEF Place
  <2>5. ASSUME NEW k \in 1..n PROVE At(k) <= m * l
    BY <2>2, TimesMore
  <2>6. ASSUME NEW k \in 1..n, j < k PROVE At(j) + m <= At(k)
    <3>1. PICK i \in Nat, p \in Nat : i = j - 1 /\ p = k - 1 /\ i + 1 <= p
      BY <2>6
    <3>2. i + 1 \in Nat /\ (i + 1) * l <= p * l
      BY <3>1, TimesMore
    <3>3. (i + 1) * l = i * l + l
      OBVIOUS
    <3>4. i * l \in Nat /\ p * l \in Nat
      OBVIOUS
    <3> QED BY <2>1, <3>1, <3>2, <3>3, <3>4
  <2> HIDE DEF At
  <2>7. Place(j, n, L) \in 1..L
    <3>1. At(j) \div m \in Nat /\ At(j) \div m <= l
      BY <2>1, <2>3, <2>5, Quotients
    <3>2. PICK q \in Nat : q = At(j) \div m
      BY <3>1
    <3>3. Place(j, n, L) = 1 + q /\ q <= l
      BY <2>4, <3>1, <3>2
    <3> QED BY <2>1, <3>3
  <2>8. ASSUME NEW k \in 1..n, j < k PROVE Place(j, n, L) < Place(k, n, L)
    <3>1. /\ At(j) \div m \in Nat /\ At(k) \div m \in Nat
          /\ At(j) \div m + 1 <= At(k) \div m
      BY <2>1, <2>3, <2>6, <2>8, Quotients
    <3>2. PICK p \in Nat, q \in Nat : p = At(j) \div m /\ q = At(k) \div m
      BY <3>1
    <3>3. p + 1 <= q
      BY <3>1, <3>2
    <3>4. Place(j, n, L) = 1 + p /\ Place(k, n, L) = 1 + q
      BY <2>4, <3>2
    <3> QED BY <3>3, <3>4
  <2> QED BY <2>7, <2>8
<1> QED BY <1>1, <1>2

\* No two probes are of the same key.
LEMMA ProbesDiffer ==
    ASSUME NEW n \in Nat, NEW L \in Nat, 1 < n, n <= L, NEW j \in 1..n, NEW k \in 1..n,
           Place(j, n, L) = Place(k, n, L)
    PROVE  j = k
<1>1. Place(j, n, L) \in 1..L
  BY PlacesRise
<1>2. ~ (j < k)
  <2> SUFFICES ASSUME j < k PROVE FALSE
    OBVIOUS
  <2>1. Place(j, n, L) < Place(k, n, L)
    BY PlacesRise
  <2> QED BY <1>1, <2>1
<1>3. ~ (k < j)
  <2> SUFFICES ASSUME k < j PROVE FALSE
    OBVIOUS
  <2>1. Place(k, n, L) < Place(j, n, L)
    BY PlacesRise
  <2> QED BY <1>1, <2>1
<1> QED BY <1>2, <1>3

Probing(typed) == Min({Probes, Len(KeysTyped(typed))})
Probed(typed) ==
    IF Probing(typed) = Len(KeysTyped(typed)) THEN KeysTyped(typed)
    ELSE [i \in 1..Probing(typed) |->
            KeysTyped(typed)[1 + ((i - 1) * (Len(KeysTyped(typed)) - 1)) \div (Probing(typed) - 1)]]
Picked(typed, P) == {Probed(typed)[i] : i \in P}
ProbeSets(typed) == kSubset(Probing(typed) - MaxTypos(typed), 1..Probing(typed))

LEMMA FuzzyIs ==
    ASSUME NEW typed, MaxTypos(typed) # 0
    PROVE  FuzzyQuery(typed) =
              IF Places(typed) = {} THEN Any
              ELSE IF Probing(typed) <= MaxTypos(typed)
                THEN Or({KeysTyped(typed)[i] : i \in DOMAIN KeysTyped(typed)})
                ELSE Or({And(Picked(typed, P)) : P \in ProbeSets(typed)})
BY DEF FuzzyQuery, Probed, Required, Probing, Picked, ProbeSets

\* The place of the k-th key, and of the key that is probed at j.
At(typed, k) == Nth(Places(typed), k)

LEMMA PlacesAre ==
    ASSUME NEW typed \in Seq(Bytes)
    PROVE  /\ Places(typed) \in SUBSET Nat /\ IsFiniteSet(Places(typed))
           /\ Cardinality(Places(typed)) \in Nat
<1>1. PICK l \in Nat : l = Len(typed)
  OBVIOUS
<1>2. IsFiniteSet(1..(l - 1))
  BY FS_Interval
<1>3. Places(typed) \in SUBSET (1..(l - 1))
  BY <1>1 DEF Places
<1>4. IsFiniteSet(Places(typed))
  BY <1>2, <1>3, FS_Subset
<1> QED BY <1>3, <1>4, FS_CardinalityType

\* The keys of a needle that a wrong letter does not touch are in the text.
LEMMA Untouched ==
    ASSUME NEW typed \in Seq(Bytes), NEW i \in DOMAIN typed,
           NEW p \in Places(typed), p \notin Spoiled(typed, i)
    PROVE  /\ Key("consec", typed[p], typed[p + 1]) \in KeysIn(Mistyped(typed, i))
           /\ Key("consec", typed[p], typed[p + 1]) \in AllKeys
<1> DEFINE m == Mistyped(typed, i)
<1>1. PICK l \in Nat : l = Len(typed)
  OBVIOUS
<1>2. DOMAIN typed = 1..l /\ i \in 1..l
  BY <1>1
<1>3. m = [k \in 1..l |-> IF k = i THEN "other" ELSE typed[k]]
  BY <1>2 DEF Mistyped
<1>4. Len(m) = l
  BY <1>3
<1>5. p \in 1..(l - 1) /\ IsKey(typed[p], typed[p + 1])
  BY <1>1 DEF Places
<1>6. p # i /\ p + 1 # i
  BY <1>2, <1>5 DEF Spoiled
<1>7. p \in 1..l /\ p + 1 \in 1..l
  BY <1>5
<1>8. m[p] = typed[p] /\ m[p + 1] = typed[p + 1]
  BY <1>3, <1>6, <1>7
<1> HIDE DEF m
<1>9. IsKey(m[p], m[p + 1])
  BY <1>5, <1>8
<1>10. Key("consec", m[p], m[p + 1]) \in KeysIn(m)
  BY <1>4, <1>5, <1>9 DEF KeysIn
<1>11. Key("consec", typed[p], typed[p + 1]) \in AllKeys
  BY <1>5 DEF AllKeys, IsKey
<1> QED BY <1>8, <1>10, <1>11 DEF m

\* Enough probes are of keys that the wrong letter is not in.
LEMMA EnoughProbes ==
    ASSUME NEW typed \in Seq(Bytes), NEW i \in DOMAIN typed,
           NEW n \in Nat, NEW L \in Nat, NEW t \in Nat, L = Cardinality(Places(typed)),
           1 < n, n <= L, t <= n, Cardinality(Spoiled(typed, i)) <= t
    PROVE  \E P \in kSubset(n - t, 1..n) :
                \A j \in P : At(typed, Place(j, n, L)) \notin Spoiled(typed, i)
<1> DEFINE S == Spoiled(typed, i)
           Bad == {j \in 1..n : At(typed, Place(j, n, L)) \in S}
           f == [j \in Bad |-> At(typed, Place(j, n, L))]
<1>1. /\ Places(typed) \in SUBSET Nat /\ IsFiniteSet(Places(typed))
      /\ S \in SUBSET Places(typed) /\ IsFiniteSet(S) /\ Cardinality(S) \in Nat
  <2>1. Places(typed) \in SUBSET Nat /\ IsFiniteSet(Places(typed)) /\ S \in SUBSET Places(typed)
    BY PlacesAre DEF Spoiled
  <2>2. IsFiniteSet(S)
    BY <2>1, FS_Subset
  <2> QED BY <2>1, <2>2, FS_CardinalityType
<1>2. f \in [Bad -> S]
  OBVIOUS
<1>3. ASSUME NEW j \in Bad, NEW k \in Bad, f[j] = f[k] PROVE j = k
  <2>1. j \in 1..n /\ k \in 1..n /\ At(typed, Place(j, n, L)) = At(typed, Place(k, n, L))
    BY <1>3
  <2>2. Place(j, n, L) \in 1..L /\ Place(k, n, L) \in 1..L
    BY <2>1, PlacesRise
  <2>3. Place(j, n, L) = Place(k, n, L)
    BY <1>1, <2>1, <2>2, NthIs DEF At
  <2> QED BY <2>1, <2>3, ProbesDiffer
<1>4. Bad \in SUBSET (1..n)
  OBVIOUS
<1>5. \A j \in 1..n : j \notin Bad => At(typed, Place(j, n, L)) \notin S
  OBVIOUS
<1> HIDE DEF S, Bad, f
<1>6. f \in Injection(Bad, S)
  BY <1>2, <1>3 DEF Injection, IsInjective
<1>7. Cardinality(Bad) <= Cardinality(S)
  BY <1>1, <1>6, FS_Injection
<1>8. IsFiniteSet(1..n) /\ Cardinality(1..n) = n
  BY FS_Interval
<1>9. IsFiniteSet(Bad) /\ Cardinality(Bad) \in Nat
  <2>1. IsFiniteSet(Bad)
    BY <1>4, <1>8, FS_Subset
  <2> QED BY <2>1, FS_CardinalityType
<1>10. Cardinality(S) <= t
  BY DEF S
<1>11. /\ IsFiniteSet((1..n) \ Bad)
       /\ Cardinality((1..n) \ Bad) = Cardinality(1..n) - Cardinality((1..n) \cap Bad)
  BY <1>8, FS_Difference
<1>12. (1..n) \cap Bad = Bad
  BY <1>4
<1>13. n - t \in Nat /\ n - t <= Cardinality((1..n) \ Bad)
  <2>1. PICK b \in Nat, c \in Nat : b = Cardinality(Bad) /\ c = Cardinality(S)
    BY <1>1, <1>9
  <2>2. b <= c /\ c <= t
    BY <1>7, <1>10, <2>1
  <2>3. Cardinality((1..n) \ Bad) = n - b
    BY <1>8, <1>11, <1>12, <2>1
  <2>4. t \in Nat /\ t <= n /\ n \in Nat
    OBVIOUS
  <2>5. n - t \in Nat /\ n - t <= n - b
    BY <2>1, <2>2, <2>4
  <2> QED BY <2>3, <2>5
<1>14. PICK P \in SUBSET ((1..n) \ Bad) : Cardinality(P) = n - t
  BY <1>11, <1>13, SomeOf
<1>15. P \in kSubset(n - t, 1..n)
  BY <1>14 DEF kSubset
<1>16. \A j \in P : At(typed, Place(j, n, L)) \notin S
  BY <1>5, <1>14
<1> QED BY <1>15, <1>16 DEF S

LEMMA OneTypo ==
    ASSUME NEW typed \in Seq(Bytes), MaxTypos(typed) > 0, NEW i \in DOMAIN typed,
           Cardinality(Spoiled(typed, i)) <= MaxTypos(typed),
           Spoiled(typed, i) # Places(typed) \/ Places(typed) = {}
    PROVE  Passes(FuzzyQuery(typed), AllKeys, KeysIn(Mistyped(typed, i)))
<1> DEFINE K == KeysIn(Mistyped(typed, i))
           keys == KeysTyped(typed)
           KeyAt(p) == Key("consec", typed[p], typed[p + 1])
<1>1. PICK l \in Nat : l = Len(typed)
  OBVIOUS
<1>2. PICK t \in Nat : t = MaxTypos(typed) /\ t # 0
  <2>1. l \div 3 \in Nat /\ 2 \in Nat
    OBVIOUS
  <2>2. MaxTypos(typed) \in Nat
    BY <1>1, <2>1, LeastAndMost DEF MaxTypos
  <2> QED BY <2>2
<1>3. PICK L \in Nat : L = Cardinality(Places(typed))
  BY PlacesAre
<1>4. /\ Places(typed) \in SUBSET Nat /\ IsFiniteSet(Places(typed))
      /\ \A k \in 1..L : At(typed, k) \in Places(typed)
      /\ \A p \in Places(typed) : \E k \in 1..L : At(typed, k) = p
  BY <1>3, PlacesAre, NthIs DEF At
<1>5. DOMAIN keys = 1..L /\ Len(keys) = L /\ \A k \in 1..L : keys[k] = KeyAt(At(typed, k))
  BY <1>3 DEF KeysTyped, At
<1>6. \A p \in Places(typed) : KeyAt(p) \in AllKeys
  BY DEF Places, IsKey, AllKeys
<1>7. \A p \in Places(typed) : p \notin Spoiled(typed, i) => KeyAt(p) \in K
  BY Untouched
<1> HIDE DEF KeyAt
<1>8. \A k \in 1..L : keys[k] \in AllKeys
  BY <1>4, <1>5, <1>6
<1>9. PICK n \in Nat : n = Probing(typed) /\ n <= L
  <2>1. Probing(typed) \in Nat /\ Probing(typed) <= L
    BY <1>5, QueryAssumption, LeastAndMost DEF Probing
  <2> QED BY <2>1
<1>10. FuzzyQuery(typed) =
          IF Places(typed) = {} THEN Any
          ELSE IF n <= t THEN Or({keys[k] : k \in DOMAIN keys})
          ELSE Or({And(Picked(typed, P)) : P \in ProbeSets(typed)})
  BY <1>2, <1>9, FuzzyIs
<1>11. \A j \in 1..n : Probed(typed)[j] = keys[Place(j, n, L)]
  BY <1>5, <1>9 DEF Probed, Place
<1> HIDE DEF K, keys
<1>12. 0 \in Nat /\ 0 + 1 = 1 /\ 1 \in Nat /\ 1 <= Deepest /\ 1 + 1 <= Deepest
  BY DeepestIs
<1>13. AllKeys \subseteq Tree(0)
  BY <1>12, AtomsInTree
<1>14. CASE Places(typed) = {}
  <2>1. Good(Any, Mistyped(typed, i))
    BY AnyGood
  <2>2. Passes(Any, AllKeys, K)
    BY PassesIs
  <2> QED BY <1>10, <1>14, <2>2 DEF K
<1>15. CASE Places(typed) # {} /\ n <= t
  <2> DEFINE all == {keys[k] : k \in 1..L}
  <2>1. all \in SUBSET Tree(0)
    BY <1>8, <1>13
  <2>2. \E c \in all : Passes(c, AllKeys, K)
    <3>1. PICK p \in Places(typed) : p \notin Spoiled(typed, i)
      BY <1>15 DEF Spoiled
    <3>2. PICK k \in 1..L : At(typed, k) = p
      BY <1>4
    <3>3. keys[k] \in K /\ keys[k] \in AllKeys
      BY <1>5, <1>7, <1>8, <3>1, <3>2
    <3>4. Passes(keys[k], AllKeys, K)
      BY <3>3, PassesIs
    <3> QED BY <3>4
  <2>3. FuzzyQuery(typed) = Or(all)
    BY <1>5, <1>10, <1>15
  <2> HIDE DEF all
  <2>4. Passes(Or(all), AllKeys, K)
    BY <1>12, <2>1, <2>2, OrIs
  <2> QED BY <2>3, <2>4 DEF K
<1>16. CASE Places(typed) # {} /\ ~ (n <= t)
  <2> DEFINE all == {And(Picked(typed, P)) : P \in ProbeSets(typed)}
  <2>1. 1 < n /\ t <= n
    BY <1>2, <1>16
  <2>2. ASSUME NEW j \in 1..n
        PROVE  /\ Place(j, n, L) \in 1..L /\ Probed(typed)[j] = keys[Place(j, n, L)]
               /\ Probed(typed)[j] \in AllKeys
    <3>1. Place(j, n, L) \in 1..L
      BY <1>9, <2>1, PlacesRise
    <3> QED BY <1>8, <1>11, <3>1
  <2>3. \A P \in SUBSET (1..n) : Picked(typed, P) \in SUBSET AllKeys
    BY <2>2 DEF Picked
  <2>4. ProbeSets(typed) = kSubset(n - t, 1..n) /\ \A P \in ProbeSets(typed) : P \in SUBSET (1..n)
    BY <1>2, <1>9 DEF ProbeSets, kSubset
  <2>5. PICK P \in ProbeSets(typed) :
            \A j \in P : At(typed, Place(j, n, L)) \notin Spoiled(typed, i)
    BY <1>2, <1>3, <1>9, <2>1, <2>4, EnoughProbes
  <2>6. \A c \in Picked(typed, P) : c \in K /\ c \in AllKeys
    <3> SUFFICES ASSUME NEW j \in P PROVE Probed(typed)[j] \in K /\ Probed(typed)[j] \in AllKeys
      BY DEF Picked
    <3>1. j \in 1..n
      BY <2>4, <2>5
    <3>2. Place(j, n, L) \in 1..L /\ Probed(typed)[j] = KeyAt(At(typed, Place(j, n, L)))
      BY <1>5, <2>2, <3>1
    <3>3. At(typed, Place(j, n, L)) \in Places(typed)
      BY <1>4, <3>2
    <3> QED BY <1>7, <2>2, <2>5, <3>1, <3>2, <3>3
  <2>7. FuzzyQuery(typed) = Or(all)
    BY <1>10, <1>16
  <2>8. \A c \in Picked(typed, P) : Passes(c, AllKeys, K)
    BY <2>6, PassesIs
  <2>9. \A Q \in SUBSET (1..n) : And(Picked(typed, Q)) \in Tree(1)
    BY <1>12, <1>13, <2>3, AndIs
  <2>10. Passes(And(Picked(typed, P)), AllKeys, K)
    <3>1. Picked(typed, P) \in SUBSET Tree(0)
      BY <1>13, <2>3, <2>4, <2>5
    <3> QED BY <1>12, <2>8, <3>1, AndIs
  <2>11. all \in SUBSET Tree(1)
    BY <2>4, <2>9
  <2>12. \E c \in all : Passes(c, AllKeys, K)
    BY <2>5, <2>10
  <2> HIDE DEF all
  <2>13. Passes(Or(all), AllKeys, K)
    BY <1>12, <2>11, <2>12, OrIs
  <2> QED BY <2>7, <2>13 DEF K
<1> QED BY <1>14, <1>15, <1>16
-----------------------------------------------------------------------------
(***************************************************************************)
(* The expression stays as it should be; so its query is passed by any     *)
(* file with a match.                                                      *)
(***************************************************************************)
QueryInv ==
    /\ steps \in Nat /\ steps <= MaxSteps
    /\ NodeOK(node, steps + 1) /\ needle \in Seq(Bytes)

LEMMA QueryBegins == QueryInit => QueryInv
<1> SUFFICES ASSUME QueryInit PROVE QueryInv
  OBVIOUS
<1>1. node \in Leaves /\ steps = 0 /\ needle = << >>
  BY DEF QueryInit
<1>2. NodeOK(node, 1) /\ steps + 1 = 1
  BY <1>1, LeavesOK
<1>3. 0 <= MaxSteps
  BY QueryAssumption
<1> QED BY <1>1, <1>2, <1>3 DEF QueryInv

LEMMA GroupOK ==
    ASSUME NEW d \in Nat, 1 <= d, d + 1 <= Deepest, NEW x, NodeOK(x, d),
           NEW l \in Beside, NEW r \in Beside
    PROVE  NodeOK(Concat(l \o <<x>> \o r), d + 1)
<1> DEFINE S == Leaves \cup {x}
           parts == l \o <<x>> \o r
<1>1. \A y \in S : NodeOK(y, d)
  <2>1. 1 \in Nat
    OBVIOUS
  <2>2. \A y \in Leaves : NodeOK(y, d)
    BY <2>1, LeavesOK, DeeperOK
  <2> QED BY <2>2
<1>2. \A b \in Beside : b \in Seq(S)
  <2>1. << >> \in Seq(S)
    OBVIOUS
  <2>2. \A y \in Leaves : <<y>> \in Seq(S)
    OBVIOUS
  <2> HIDE DEF S
  <2> QED BY <2>1, <2>2 DEF Beside
<1>3. <<x>> \in Seq(S)
  OBVIOUS
<1> HIDE DEF S
<1>4. parts \in Seq(S)
  BY <1>2, <1>3
<1> HIDE DEF parts
<1>5. PICK n \in Nat : n = Len(parts)
  BY <1>4
<1>6. DOMAIN parts = 1..n /\ \A i \in 1..n : parts[i] \in S
  BY <1>4, <1>5
<1>7. PartsOK(parts, n, d)
  BY <1>1, <1>5, <1>6 DEF PartsOK
<1>8. NodeOK(Concat(parts), d + 1)
  BY <1>7, ConcatOK
<1> QED BY <1>8 DEF parts

LEMMA QueryStep == QueryInv /\ [QueryNext]_queryVars => QueryInv'
<1> SUFFICES ASSUME QueryInv, [QueryNext]_queryVars PROVE QueryInv'
  OBVIOUS
<1> DEFINE d == steps + 1
<1>1. steps \in Nat /\ d \in Nat /\ 1 <= d /\ NodeOK(node, d) /\ needle \in Seq(Bytes)
  BY DEF QueryInv
<1>2. ASSUME Grow, NodeOK(node', d + 1) PROVE QueryInv'
  <2>1. steps' = steps + 1 /\ needle' = needle /\ steps' \in Nat
    BY <1>1, <1>2 DEF Grow
  <2>2. steps' <= MaxSteps
    BY <1>1, <1>2, QueryAssumption DEF Grow
  <2>3. NodeOK(node', steps' + 1)
    BY <1>2, <2>1
  <2> QED BY <1>1, <2>1, <2>2, <2>3 DEF QueryInv
<1>3. ASSUME Grow PROVE d + 1 <= Deepest
  BY <1>1, <1>3, QueryAssumption DEF Grow, Deepest
<1> HIDE DEF d
<1>4. CASE Group
  <2>1. Grow /\ \E l, r \in Beside : l \o r # << >> /\ node' = Concat(l \o <<node>> \o r)
    BY <1>4 DEF Group
  <2>2. PICK l \in Beside, r \in Beside : node' = Concat(l \o <<node>> \o r)
    BY <2>1
  <2>3. NodeOK(node', d + 1)
    BY <1>1, <1>3, <2>1, <2>2, GroupOK
  <2> QED BY <1>2, <2>1, <2>3
<1>5. CASE Alternate
  <2>1. PICK l \in Leaves : Grow /\ node' = Alternation(node, l)
    BY <1>5 DEF Alternate
  <2>2. NodeOK(l, d)
    BY <1>1, LeavesOK, DeeperOK
  <2>3. NodeOK(node', d + 1)
    BY <1>1, <1>3, <2>1, <2>2, AlternationOK
  <2> QED BY <1>2, <2>1, <2>3
<1>6. CASE Repeat
  <2>1. PICK c \in Counts : Grow /\ node' = Repetition(node, c)
    BY <1>6 DEF Repeat
  <2>2. NodeOK(node', d + 1)
    BY <1>1, <1>3, <2>1, RepetitionOK
  <2> QED BY <1>2, <2>1, <2>2
<1>7. CASE Type
  <2>1. node' = node /\ steps' = steps /\ \E b \in Bytes : needle' = Append(needle, b)
    BY <1>7 DEF Type
  <2>2. needle' \in Seq(Bytes)
    BY <1>1, <2>1
  <2> QED BY <2>1, <2>2 DEF QueryInv
<1>8. CASE UNCHANGED queryVars
  BY <1>8 DEF QueryInv, queryVars
<1> QED BY <1>4, <1>5, <1>6, <1>7, <1>8 DEF QueryNext

LEMMA QueryAlways == QuerySpec => []QueryInv
BY QueryBegins, QueryStep, PTL DEF QuerySpec

(* What decompose promises of a query, for the shapes that are not loose:  *)
(* a file that holds any match has all it asks for, whichever keys have a  *)
(* column (bigram_query.rs 64-140, 269-333, 399-473).                      *)
THEOREM QueriesAdmitMatches == QuerySpec => []MatchesPass
<1>1. QueryInv => MatchesPass
  <2> SUFFICES ASSUME QueryInv, ~ node.loose, NEW s \in node.lang, NEW k \in AllKeys \cup {Any}
               PROVE  Passes(node.query, AllKeys \ {k}, KeysIn(s))
    BY DEF MatchesPass
  <2>1. Good(node.query, s)
    BY DEF QueryInv, NodeOK, Served
  <2> QED BY <2>1 DEF Good
<1> QED BY <1>1, QueryAlways, PTL

(* The bytes a part may begin and end with are all of them, and it is      *)
(* empty only if it says so (bigram_query.rs 142-154, 567-648): what every *)
(* operator of decompose relies on of its parts.                           *)
THEOREM EndsAreComplete == QuerySpec => []EndsAreKnown
<1>1. QueryInv => EndsAreKnown
  <2> SUFFICES ASSUME QueryInv PROVE EndsAreKnown
    OBVIOUS
  <2>1. NodeOK(node, steps + 1)
    BY DEF QueryInv
  <2>2. << >> \in node.lang => node.empty
    <3>1. Len(<< >>) = 0
      OBVIOUS
    <3> QED BY <2>1, <3>1 DEF NodeOK, Sized
  <2>3. ASSUME ~ node.loose, NEW s \in node.lang \ {<< >>}
        PROVE  /\ node.first # Unknown => s[1] \in node.first
               /\ node.last # Unknown => s[Len(s)] \in node.last
    <3>1. s \in Seq(Bytes) /\ s # << >> /\ Served(node, s)
      BY <2>1, <2>3 DEF NodeOK, Typed
    <3>2. Len(s) # 0
      BY <3>1
    <3> QED BY <3>1, <3>2 DEF Served, Has
  <2> QED BY <2>2, <2>3 DEF EndsAreKnown
<1> QED BY <1>1, QueryAlways, PTL

(* A needle for which typos are allowed is found where any one of its      *)
(* letters is wrong, if the letter is in no more of the bigrams that can   *)
(* be printed than typos are allowed, and not in all of them: no two of    *)
(* the probes ask for the same key, so that those of the letter are fewer  *)
(* than may be missing (bigram_query.rs 165-230).                          *)
THEOREM OneTypoIsFound == QuerySpec => []OneTypoPasses
<1>1. QueryInv => OneTypoPasses
  BY OneTypo DEF QueryInv, OneTypoPasses
<1> QED BY <1>1, QueryAlways, PTL
=============================================================================

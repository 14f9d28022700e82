---------------------------- MODULE StoresProofs ----------------------------
(***************************************************************************)
(* TLAPS proofs that no threads wait for each other in a circle, and that  *)
(* the accesses are kept, for any threads, cap, window and length of time. *)
(***************************************************************************)
EXTENDS Stores, SequenceTheorems, FiniteSetTheorems, WellFoundedInduction, TLAPS

Recording == {Do("tracked"), Do("load"), Do("now"), Do("put"), Do("purge"), Do("prune")}
Writing == {Do("open"), Do("take"), Do("close")}
AllSteps ==
    ({"read", "write", "drop"} \X {"picker", "frecency"})
    \cup ({"peek"} \X {"picker", "frecency", "queries"})
    \cup ({"set"} \X {"picker", "debouncer", "queries"})
    \cup Recording \cup Writing \cup {Do("remove_dir")}

\* What comes after the step at i of a call of t, as far as the locks go.
FitsLocks(t, s, i) ==
    /\ s[i] = Read("frecency") => i < Len(s) /\ s[i + 1] = Do("tracked")
    /\ s[i] = Read("picker") => i + 1 = Len(s) /\ s[i + 1] = Peek("queries")
    /\ s[i] = Write("frecency") => t = Ui /\ i < Len(s) /\ s[i + 1] \in Writing
    /\ s[i] = Write("picker") =>
        /\ i < Len(s) /\ s[i + 1] \in {Peek("frecency"), Set("debouncer")}
        /\ i + 1 < Len(s) => s[i + 2] = Drop("picker")
    /\ s[i] \in Writing => i < Len(s) /\ s[i + 1] = Drop("frecency")

\* The same of the sections on the database.
FitsData(t, s, i) ==
    /\ s[i] = Do("tracked") =>
        /\ i < Len(s) /\ s[i + 1] \in {Do("load"), Do("purge"), Set("picker")}
        /\ s[i + 1] = Set("picker") => t = Ui /\ i + 1 = Len(s)
    /\ s[i] = Do("load") => i < Len(s) /\ s[i + 1] = Do("now")
    /\ s[i] = Do("now") => i < Len(s) /\ s[i + 1] = Do("put")
    /\ s[i] = Do("put") => i < Len(s) /\ s[i + 1] = Drop("frecency")
    /\ s[i] = Do("purge") => i < Len(s) /\ s[i + 1] = Do("prune")
    /\ s[i] = Do("prune") => i = Len(s)

\* What comes before a step that needs what an earlier one did.
FitsBefore(t, s, i) ==
    /\ s[i] \in Writing \cup {Do("remove_dir")} => t = Ui
    /\ i < Len(s) /\ s[i + 1] \in Recording \ {Do("tracked")} => s[i] \in Recording
    /\ i < Len(s) /\ s[i + 1] = Do("tracked") => s[i] = Read("frecency")
    /\ i < Len(s) /\ s[i + 1] \in Writing => s[i] = Write("frecency")
    /\ i < Len(s) /\ s[i + 1] = Do("remove_dir") => s[i] = Drop("frecency")
    /\ i + 1 < Len(s) /\ s[i + 2] = Do("remove_dir") => s[i] = Do("take")

Orderly(t, s) == \A i \in 1..Len(s) : FitsLocks(t, s, i) /\ FitsData(t, s, i) /\ FitsBefore(t, s, i)

CallsInv ==
    /\ todo \in [Threads -> Seq(AllSteps)]
    /\ \A t \in Threads : Orderly(t, todo[t])
-----------------------------------------------------------------------------
At(t, S) == todo[t] # <<>> /\ Step(t) \in S

\* What a thread is about to do under the lock it holds.
Held(t) ==
    /\ t \in readers["picker"] => At(t, {Peek("queries")}) /\ Len(todo[t]) = 1
    /\ t \in readers["frecency"] =>
        \/ At(t, Recording \cup {Drop("frecency")})
        \/ At(t, {Set("picker")}) /\ t = Ui /\ Len(todo[t]) = 1
    /\ t \in writer["picker"] =>
        \/ At(t, {Drop("picker")})
        \/ /\ At(t, {Peek("frecency"), Set("debouncer")})
           /\ Len(todo[t]) > 1 => todo[t][2] = Drop("picker")
    /\ t \in writer["frecency"] => t = Ui /\ At(t, Writing \cup {Drop("frecency")})
    /\ At(t, Recording) => t \in readers["frecency"]
    /\ At(t, Writing) => t \in writer["frecency"]
    /\ t \in waiting => todo[t] # <<>> /\ Step(t)[1] \in {"write", "set"}

\* A writer is alone, and two of the locks are never kept.
Exclusion ==
    /\ \A l \in Locks : \A t \in writer[l] : writer[l] = {t} /\ readers[l] = {}
    /\ \A l \in {"queries", "debouncer"} : readers[l] = {} /\ writer[l] = {}

LocksInv ==
    /\ readers \in [Locks -> SUBSET Threads] /\ writer \in [Locks -> SUBSET Threads]
    /\ waiting \subseteq Threads
    /\ Exclusion
    /\ \A t \in Threads : Held(t)
-----------------------------------------------------------------------------
Ordered(s) == \A i, j \in 1..Len(s) : i <= j => s[i] <= s[j]
NotAfter(s, n) == \A i \in 1..Len(s) : s[i] <= n

\* A row is sorted, no longer than the cap, and nothing in it is of later than now.
Row(s, n) == s \in Seq(Nat) /\ Len(s) <= Cap /\ Ordered(s) /\ NotAfter(s, n)

\* s is the end of r, without some of what is older than the window.
Keeps(s, r, now) ==
    /\ Len(s) <= Len(r)
    /\ \A i \in 1..Len(s) : s[i] = r[i + Len(r) - Len(s)]
    /\ \A i \in 1..Len(r) - Len(s) : r[i] < now - Window

\* What a thread has read is the row, unless the row was replaced since.
Copied(t) ==
    /\ copy[t] \in Seq(Nat) /\ stamp[t] \in Nat /\ stamp[t] <= clock
    /\ Row(copy[t], clock)
    /\ At(t, {Do("put"), Do("prune")}) => NotAfter(copy[t], stamp[t])
    /\ At(t, {Do("now"), Do("put"), Do("prune")}) /\ t \notin outdated => copy[t] = row
    /\ At(t, Recording \ {Do("tracked")}) => tracker = "open"

\* The directory is removed only after the handle was emptied.
Removal ==
    /\ At(Ui, {Do("remove_dir")}) => tracker = "none"
    /\ At(Ui, {Drop("frecency")}) /\ Len(todo[Ui]) > 1 /\ todo[Ui][2] = Do("remove_dir") => tracker = "none"

RowsInv ==
    /\ clock \in Nat /\ tracker \in {"none", "open"}
    /\ DOMAIN copy = Threads /\ DOMAIN stamp = Threads
    /\ Row(row, clock)
    /\ recent \in Seq(Nat) /\ Len(recent) <= Cap /\ Keeps(row, recent, clock)
    /\ \A t \in Threads : Copied(t)
    /\ Removal

IndInv == CallsInv /\ LocksInv /\ RowsInv
-----------------------------------------------------------------------------
\* The calls, written out.
LEMMA Steps ==
    /\ \A l \in {"picker", "frecency"} : {Read(l), Write(l), Drop(l)} \subseteq AllSteps
    /\ \A l \in {"picker", "frecency", "queries"} : Peek(l) \in AllSteps
    /\ \A l \in {"picker", "debouncer", "queries"} : Set(l) \in AllSteps
    /\ Recording \cup Writing \cup {Do("remove_dir")} \subseteq AllSteps
BY DEF AllSteps, Read, Write, Drop, Peek, Set

LEMMA Parts ==
    /\ Rescore \in Seq(AllSteps) /\ Record \in Seq(AllSteps) /\ Stop \in Seq(AllSteps)
    /\ Rescore = <<Write("picker"), Peek("frecency")>>
    /\ Stop = <<Write("picker"), Set("debouncer")>>
    /\ Record = <<Read("frecency"), Do("tracked"), Do("load"), Do("now"), Do("put"), Drop("frecency")>>
BY Steps DEF Rescore, Record, Stop, Recording

LEMMA Concatenations ==
    /\ RefreshGitStatus = <<Peek("picker"), Write("picker"), Peek("frecency")>>
    /\ InitPicker = <<Peek("picker"), Write("picker"), Set("debouncer")>>
    /\ TrackAccess = <<Read("frecency"), Do("tracked"), Do("load"), Do("now"), Do("put"),
                       Drop("frecency"), Write("picker"), Peek("frecency")>>
    /\ HandleEvents = <<Set("picker"), Write("picker"), Peek("frecency")>>
    /\ HandleEventsAi = <<Set("picker"), Read("frecency"), Do("tracked"), Do("load"), Do("now"),
                          Do("put"), Drop("frecency"), Write("picker"), Peek("frecency")>>
    /\ TrackNewDirectory = <<Set("debouncer"), Set("picker"), Write("picker"), Peek("frecency")>>
    /\ Restart = <<Write("picker"), Set("debouncer"), Drop("picker"), Write("picker"),
                   Set("debouncer")>>
    /\ RestartIndex = <<Peek("picker"), Write("picker"), Set("debouncer"), Drop("picker"),
                        Write("picker"), Set("debouncer")>>
    /\ Destroy = <<Write("picker"), Set("debouncer"), Drop("picker"), Write("frecency"),
                   Do("close"), Drop("frecency"), Set("queries")>>
<1>1. RefreshGitStatus = <<Peek("picker"), Write("picker"), Peek("frecency")>>
  <2>1. RefreshGitStatus \in Seq(AllSteps) /\ Len(RefreshGitStatus) = 3
    BY Parts, Steps, ConcatProperties DEF RefreshGitStatus
  <2>2. \A i \in 1..3 : RefreshGitStatus[i] =
            <<Peek("picker"), Write("picker"), Peek("frecency")>>[i]
    BY Parts, Steps, ConcatProperties DEF RefreshGitStatus
  <2>3. QED
    BY <2>1, <2>2
<1>2. InitPicker = <<Peek("picker"), Write("picker"), Set("debouncer")>>
  <2>1. InitPicker \in Seq(AllSteps) /\ Len(InitPicker) = 3
    BY Parts, Steps, ConcatProperties DEF InitPicker
  <2>2. \A i \in 1..3 : InitPicker[i] =
            <<Peek("picker"), Write("picker"), Set("debouncer")>>[i]
    BY Parts, Steps, ConcatProperties DEF InitPicker
  <2>3. QED
    BY <2>1, <2>2
<1>3. TrackAccess = <<Read("frecency"), Do("tracked"), Do("load"), Do("now"), Do("put"),
                      Drop("frecency"), Write("picker"), Peek("frecency")>>
  <2>1. TrackAccess \in Seq(AllSteps) /\ Len(TrackAccess) = 8
    BY Parts, ConcatProperties DEF TrackAccess
  <2>2. \A i \in 1..8 : TrackAccess[i] =
            <<Read("frecency"), Do("tracked"), Do("load"), Do("now"), Do("put"),
                  Drop("frecency"), Write("picker"), Peek("frecency")>>[i]
    BY Parts, ConcatProperties DEF TrackAccess
  <2>3. QED
    BY <2>1, <2>2
<1>4. HandleEvents = <<Set("picker"), Write("picker"), Peek("frecency")>>
  <2>1. HandleEvents \in Seq(AllSteps) /\ Len(HandleEvents) = 3
    BY Parts, Steps, ConcatProperties DEF HandleEvents
  <2>2. \A i \in 1..3 : HandleEvents[i] =
            <<Set("picker"), Write("picker"), Peek("frecency")>>[i]
    BY Parts, Steps, ConcatProperties DEF HandleEvents
  <2>3. QED
    BY <2>1, <2>2
<1>5. HandleEventsAi = <<Set("picker"), Read("frecency"), Do("tracked"), Do("load"), Do("now"),
                         Do("put"), Drop("frecency"), Write("picker"), Peek("frecency")>>
  <2>1. HandleEventsAi \in Seq(AllSteps) /\ Len(HandleEventsAi) = 9
    BY Parts, Steps, ConcatProperties DEF HandleEventsAi
  <2>2. \A i \in 1..9 : HandleEventsAi[i] =
            <<Set("picker"), Read("frecency"), Do("tracked"), Do("load"), Do("now"),
                  Do("put"), Drop("frecency"), Write("picker"), Peek("frecency")>>[i]
    BY Parts, Steps, ConcatProperties DEF HandleEventsAi
  <2>3. QED
    BY <2>1, <2>2
<1>6. TrackNewDirectory = <<Set("debouncer"), Set("picker"), Write("picker"), Peek("frecency")>>
  <2>1. TrackNewDirectory \in Seq(AllSteps) /\ Len(TrackNewDirectory) = 4
    BY Parts, Steps, ConcatProperties DEF TrackNewDirectory
  <2>2. \A i \in 1..4 : TrackNewDirectory[i] =
            <<Set("debouncer"), Set("picker"), Write("picker"), Peek("frecency")>>[i]
    BY Parts, Steps, ConcatProperties DEF TrackNewDirectory
  <2>3. QED
    BY <2>1, <2>2
<1>7. Restart = <<Write("picker"), Set("debouncer"), Drop("picker"), Write("picker"),
                  Set("debouncer")>>
  <2>1. Restart \in Seq(AllSteps) /\ Len(Restart) = 5
    BY Parts, Steps, ConcatProperties DEF Restart
  <2>2. \A i \in 1..5 : Restart[i] =
            <<Write("picker"), Set("debouncer"), Drop("picker"), Write("picker"),
                  Set("debouncer")>>[i]
    BY Parts, Steps, ConcatProperties DEF Restart
  <2>3. QED
    BY <2>1, <2>2
<1>8. RestartIndex = <<Peek("picker"), Write("picker"), Set("debouncer"), Drop("picker"),
                       Write("picker"), Set("debouncer")>>
  <2>1. RestartIndex \in Seq(AllSteps) /\ Len(RestartIndex) = 6
    BY Parts, Steps, <1>7, ConcatProperties DEF RestartIndex
  <2>2. \A i \in 1..6 : RestartIndex[i] =
            <<Peek("picker"), Write("picker"), Set("debouncer"), Drop("picker"),
                  Write("picker"), Set("debouncer")>>[i]
    BY Parts, Steps, <1>7, ConcatProperties DEF RestartIndex
  <2>3. QED
    BY <2>1, <2>2
<1>9. Destroy = <<Write("picker"), Set("debouncer"), Drop("picker"), Write("frecency"),
                  Do("close"), Drop("frecency"), Set("queries")>>
  <2>0. <<Drop("picker"), Write("frecency"), Do("close"), Drop("frecency"), Set("queries")>> \in Seq(AllSteps)
    BY Steps DEF Writing
  <2>1. Destroy \in Seq(AllSteps) /\ Len(Destroy) = 7
    BY Parts, <2>0, ConcatProperties DEF Destroy
  <2>2. \A i \in 1..7 : Destroy[i] =
            <<Write("picker"), Set("debouncer"), Drop("picker"), Write("frecency"),
                  Do("close"), Drop("frecency"), Set("queries")>>[i]
    BY Parts, <2>0, ConcatProperties DEF Destroy
  <2>3. QED
    BY <2>1, <2>2
<1>. QED
  BY <1>1, <1>2, <1>3, <1>4, <1>5, <1>6, <1>7, <1>8, <1>9

\* Every call fits together, and starts by asking for a lock.
LEMMA CallsAreOrderly ==
    ASSUME NEW t \in Threads, NEW c \in CallsOf(t)
    PROVE  c \in Seq(AllSteps) /\ c # <<>> /\ Orderly(t, c) /\ c[1][1] \in {"read", "write", "peek", "set"}
<1> DEFINE Good(u, s) ==
        s \in Seq(AllSteps) /\ s # <<>> /\ Orderly(u, s) /\ s[1][1] \in {"read", "write", "peek", "set"}
<1> USE DEF Orderly, FitsLocks, FitsData, FitsBefore, AllSteps, Recording, Writing, Read, Write, Drop, Peek, Set, Do
<1>1. Good(t, RefreshGitStatus) /\ Good(t, InitPicker) /\ Good(t, Restart) /\ Good(t, RestartIndex)
  <2>1. Good(t, RefreshGitStatus)
    BY Concatenations, SMTT(30)
  <2>2. Good(t, InitPicker)
    BY Concatenations, SMTT(30)
  <2>3. Good(t, Restart)
    BY Concatenations, SMTT(30)
  <2>4. Good(t, RestartIndex)
    BY Concatenations, SMTT(30)
  <2>5. QED
    BY <2>1, <2>2, <2>3, <2>4
<1>2. Good(t, TrackAccess) /\ Good(t, HandleEvents)
  <2>1. Good(t, TrackAccess)
    BY Concatenations, SMTT(30)
  <2>2. Good(t, HandleEvents)
    BY Concatenations, SMTT(30)
  <2>3. QED
    BY <2>1, <2>2
<1>3. Good(t, HandleEventsAi)
  BY Concatenations, SMTT(30)
<1>4. Good(t, TrackNewDirectory)
  BY Concatenations, SMTT(30)
<1>5. Good(t, SearchFiles) /\ Good(t, LiveGrep) /\ Good(t, Stop) /\ Good(t, TrackQuery)
  <2>1. Good(t, SearchFiles) /\ Good(t, LiveGrep)
    BY SMTT(30) DEF SearchFiles, LiveGrep
  <2>2. Good(t, Stop) /\ Good(t, TrackQuery)
    BY SMTT(30) DEF Stop, TrackQuery
  <2>3. QED
    BY <2>1, <2>2
<1>6. Good(t, Gc) /\ Good(t, ScanRun) /\ Good(t, Inspect) /\ Good(t, HistoricalQuery) /\ Good(t, HealthCheck)
  <2>1. Good(t, Gc) /\ Good(t, ScanRun)
    BY SMTT(30) DEF Gc, ScanRun
  <2>2. Good(t, Inspect) /\ Good(t, HistoricalQuery)
    BY SMTT(30) DEF Inspect, HistoricalQuery
  <2>3. Good(t, HealthCheck)
    BY SMTT(30) DEF HealthCheck
  <2>4. QED
    BY <2>1, <2>2, <2>3
<1>7. Good(Ui, UpdateSingleFrecency)
  BY DEF UpdateSingleFrecency
<1>8. Good(Ui, InitDb) /\ Good(Ui, DestroyDb)
  BY SMTT(30) DEF InitDb, DestroyDb
<1>9. Good(Ui, Destroy)
  BY Concatenations, SMTT(30)
<1> HIDE DEF Good
<1>10. CASE t = Ui
  <2>1. c \in PluginCalls \cup CCalls
    BY <1>10 DEF CallsOf, HostCalls
  <2>2. Good(t, c)
    BY <1>1, <1>2, <1>5, <1>6, <1>7, <1>8, <1>9, <1>10, <2>1 DEF PluginCalls, CCalls
  <2>3. QED
    BY <2>2 DEF Good
<1>11. CASE t # Ui
  <2>1. c \in Background \cup PluginThreads
    BY <1>11 DEF CallsOf, WorkerCalls
  <2>2. Good(t, c)
    BY <1>1, <1>2, <1>3, <1>4, <1>5, <1>6, <2>1 DEF Background, PluginThreads
  <2>3. QED
    BY <2>2 DEF Good
<1>12. QED
  BY <1>10, <1>11
-----------------------------------------------------------------------------
LEMMA LenCases ==
    ASSUME NEW S, NEW s \in Seq(S), s # <<>>
    PROVE  Len(s) \in Nat /\ Len(s) >= 1 /\ (Len(s) = 1 \/ Len(s) > 1)
<1>1. Len(s) \in Nat /\ Len(s) >= 1
  OBVIOUS
<1>2. \A n \in Nat : n >= 1 => n = 1 \/ n > 1
  OBVIOUS
<1>3. QED
  BY <1>1, <1>2

\* What is left of a call fits together as well.
LEMMA TailOfCall ==
    ASSUME NEW t \in Threads, NEW s \in Seq(AllSteps), s # <<>>, Orderly(t, s)
    PROVE  /\ Head(s) = s[1] /\ s[1] \in AllSteps /\ Len(s) \in Nat /\ Len(s) >= 1
           /\ Tail(s) \in Seq(AllSteps) /\ Len(Tail(s)) = Len(s) - 1
           /\ Orderly(t, Tail(s))
           /\ Len(s) > 1 => Tail(s) # <<>> /\ Head(Tail(s)) = s[2]
           /\ Len(s) > 2 => Tail(s)[2] = s[3]
<1>1. Head(s) = s[1] /\ s[1] \in AllSteps /\ Len(s) \in Nat /\ Len(s) >= 1
  OBVIOUS
<1>2. /\ Tail(s) \in Seq(AllSteps) /\ Len(Tail(s)) = Len(s) - 1
      /\ \A i \in 1..Len(Tail(s)) : Tail(s)[i] = s[i + 1]
  BY HeadTailProperties
<1>3. Orderly(t, Tail(s))
  <2>1. SUFFICES ASSUME NEW i \in 1..Len(Tail(s))
                 PROVE  FitsLocks(t, Tail(s), i) /\ FitsData(t, Tail(s), i) /\ FitsBefore(t, Tail(s), i)
    BY DEF Orderly
  <2> DEFINE j == i + 1
             r == Tail(s)
  <2>2. j \in 1..Len(s) /\ r[i] = s[j] /\ Len(r) = Len(s) - 1 /\ i = j - 1
    BY <1>1, <1>2
  <2>3. i < Len(r) => r[i + 1] = s[j + 1]
    BY <1>1, <1>2
  <2>4. i + 1 < Len(r) => r[i + 2] = s[j + 2]
    BY <1>1, <1>2
  <2>5. FitsLocks(t, s, j) /\ FitsData(t, s, j) /\ FitsBefore(t, s, j)
    BY <2>2 DEF Orderly
  <2> HIDE DEF j, r
  <2>6. FitsLocks(t, r, i)
    BY <1>1, <2>2, <2>3, <2>4, <2>5 DEF FitsLocks
  <2>7. FitsData(t, r, i)
    BY <1>1, <2>2, <2>3, <2>4, <2>5 DEF FitsData
  <2>8. FitsBefore(t, r, i)
    BY <1>1, <2>2, <2>3, <2>4, <2>5 DEF FitsBefore
  <2>9. QED
    BY <2>6, <2>7, <2>8 DEF r
<1>4. Len(s) > 1 => Tail(s) # <<>> /\ Head(Tail(s)) = s[2]
  BY <1>1, <1>2
<1>5. Len(s) > 2 => Tail(s)[2] = s[3]
  BY <1>1, <1>2
<1>6. QED
  BY <1>1, <1>2, <1>3, <1>4, <1>5

\* A step begins a call, goes on in one, ends one, or leaves the calls alone.
LEMMA Moves ==
    ASSUME IndInv, [Next]_vars
    PROVE  \/ todo' = todo
           \/ \E t \in Threads : todo[t] = <<>> /\ \E c \in CallsOf(t) : todo' = [todo EXCEPT ![t] = c]
           \/ \E t \in Threads :
                /\ todo[t] # <<>>
                /\ todo' = [todo EXCEPT ![t] = Tail(@)] \/ todo' = [todo EXCEPT ![t] = <<>>]
<1> USE DEF Proceed, Return, Continue, Does
<1>1. ASSUME NEW t \in Threads, Begin(t) \/ Park(t)
      PROVE  \/ todo' = todo
             \/ todo[t] = <<>> /\ \E c \in CallsOf(t) : todo' = [todo EXCEPT ![t] = c]
  BY <1>1 DEF Begin, Park
<1>2. ASSUME NEW t \in Threads, Advance(t)
      PROVE  /\ todo[t] # <<>>
             /\ todo' = [todo EXCEPT ![t] = Tail(@)] \/ todo' = [todo EXCEPT ![t] = <<>>]
  <2>1. ASSUME NEW l \in Locks, AcquireRead(t, l) \/ AcquireWrite(t, l) \/ Section(t, l) \/ Unlock(t, l)
        PROVE  /\ todo[t] # <<>>
               /\ todo' = [todo EXCEPT ![t] = Tail(@)] \/ todo' = [todo EXCEPT ![t] = <<>>]
    BY <2>1 DEF AcquireRead, AcquireWrite, Section, Unlock
  <2>2. ASSUME Tracked(t) \/ Load(t) \/ Now(t) \/ Put(t) \/ Prune(t) \/ Open(t) \/ Take(t) \/ Close(t) \/ RemoveDir(t)
        PROVE  /\ todo[t] # <<>>
               /\ todo' = [todo EXCEPT ![t] = Tail(@)] \/ todo' = [todo EXCEPT ![t] = <<>>]
    BY <2>2 DEF Tracked, Load, Now, Put, Prune, Open, Take, Close, RemoveDir
  <2>3. QED
    BY <1>2, <2>1, <2>2 DEF Advance
<1>3. ASSUME Tick \/ Grow \/ UNCHANGED vars PROVE todo' = todo
  BY <1>3 DEF Tick, Grow, vars
<1>4. QED
  BY <1>1, <1>2, <1>3 DEF Next

LEMMA CallsStep ==
    ASSUME IndInv, [Next]_vars
    PROVE  CallsInv'
<1>1. CallsInv
  BY DEF IndInv
<1>2. ASSUME NEW t \in Threads, NEW c \in CallsOf(t), todo' = [todo EXCEPT ![t] = c] PROVE CallsInv'
  BY <1>1, <1>2, CallsAreOrderly DEF CallsInv
<1>3. ASSUME NEW t \in Threads, todo[t] # <<>>, todo' = [todo EXCEPT ![t] = Tail(@)] PROVE CallsInv'
  <2>1. Tail(todo[t]) \in Seq(AllSteps) /\ Orderly(t, Tail(todo[t]))
    BY <1>1, <1>3, TailOfCall DEF CallsInv
  <2>2. QED
    BY <1>1, <1>3, <2>1 DEF CallsInv
<1>4. ASSUME NEW t \in Threads, todo' = [todo EXCEPT ![t] = <<>>] PROVE CallsInv'
  <2>1. Orderly(t, <<>>)
    BY DEF Orderly
  <2>2. QED
    BY <1>1, <1>4, <2>1 DEF CallsInv
<1>5. QED
  BY <1>1, <1>2, <1>3, <1>4, Moves DEF CallsInv
-----------------------------------------------------------------------------
\* The step a thread is at, and the one after it.
LEMMA StepsOfCall ==
    ASSUME IndInv, NEW t \in Threads, todo[t] # <<>>
    PROVE  /\ Step(t) = todo[t][1] /\ Step(t) \in AllSteps /\ Len(todo[t]) \in Nat /\ Len(todo[t]) >= 1
           /\ FitsLocks(t, todo[t], 1) /\ FitsData(t, todo[t], 1) /\ FitsBefore(t, todo[t], 1)
           /\ Held(t)
           /\ todo[t][1] \in {Read("picker"), Read("frecency"), Write("picker"), Write("frecency")} => Len(todo[t]) > 1
           /\ todo[t][1] = Read("picker") => Len(todo[t]) = 2 /\ todo[t][2] = Peek("queries")
           /\ todo[t][1] = Read("frecency") => todo[t][2] = Do("tracked")
           /\ todo[t][1] = Write("picker") =>
                 /\ todo[t][2] \in {Peek("frecency"), Set("debouncer")}
                 /\ Len(todo[t]) > 2 => todo[t][3] = Drop("picker")
           /\ todo[t][1] = Write("frecency") => t = Ui /\ todo[t][2] \in Writing
<1>1. todo[t] \in Seq(AllSteps) /\ Orderly(t, todo[t]) /\ Held(t)
  BY DEF IndInv, CallsInv, LocksInv
<1>2. Len(todo[t]) \in Nat /\ Len(todo[t]) >= 1 /\ 1 \in 1..Len(todo[t])
  BY <1>1
<1>3. /\ Step(t) = todo[t][1] /\ Step(t) \in AllSteps
      /\ FitsLocks(t, todo[t], 1) /\ FitsData(t, todo[t], 1) /\ FitsBefore(t, todo[t], 1)
  BY <1>1, <1>2, TailOfCall DEF Orderly, Step
<1>4. todo[t][1] = Read("picker") => Len(todo[t]) = 2 /\ todo[t][2] = Peek("queries")
  BY <1>2, <1>3 DEF FitsLocks
<1>5. todo[t][1] = Read("frecency") => Len(todo[t]) > 1 /\ todo[t][2] = Do("tracked")
  BY <1>2, <1>3 DEF FitsLocks
<1>6. todo[t][1] = Write("picker") =>
          /\ Len(todo[t]) > 1 /\ todo[t][2] \in {Peek("frecency"), Set("debouncer")}
          /\ Len(todo[t]) > 2 => todo[t][3] = Drop("picker")
  BY <1>2, <1>3 DEF FitsLocks
<1>7. todo[t][1] = Write("frecency") => t = Ui /\ Len(todo[t]) > 1 /\ todo[t][2] \in Writing
  BY <1>2, <1>3 DEF FitsLocks
<1>8. QED
  BY <1>1, <1>2, <1>3, <1>4, <1>5, <1>6, <1>7

\* A thread is not concerned by what the others do, as long as its own locks stay.
LEMMA OthersHeld ==
    ASSUME IndInv, NEW u \in Threads, todo'[u] = todo[u],
           \A l \in {"picker", "frecency"} :
               (u \in readers'[l] <=> u \in readers[l]) /\ (u \in writer'[l] <=> u \in writer[l]),
           u \in waiting' => u \in waiting \/ (todo[u] # <<>> /\ Step(u)[1] \in {"write", "set"})
    PROVE  Held(u)'
<1>1. Held(u)
  BY DEF IndInv, LocksInv
<1>2. QED
  BY <1>1 DEF Held, At, Step

\* Going on after a step that takes no lock to keep.
LEMMA ContinueLocks ==
    ASSUME IndInv, NEW t \in Threads, todo[t] # <<>>, Continue(t), waiting' = waiting \ {t},
           Step(t)[1] \in {"peek", "set", "do"}
    PROVE  LocksInv'
<1>1. /\ todo \in [Threads -> Seq(AllSteps)] /\ LocksInv
  BY DEF IndInv, CallsInv
<1>2. CASE Len(todo[t]) = 1
  <2>1. /\ todo' = [todo EXCEPT ![t] = <<>>] /\ Release(t)
    BY <1>2 DEF Continue, Return
  <2>2. ASSUME NEW u \in Threads \ {t} PROVE Held(u)'
    BY <1>1, <2>1, <2>2, OthersHeld DEF Release, LocksInv, Locks
  <2>3. Held(t)'
    BY <1>1, <2>1 DEF Release, Held, At, Step, Locks
  <2>4. Exclusion'
    BY <1>1, <2>1 DEF Release, Exclusion, LocksInv, Locks
  <2>5. QED
    BY <1>1, <2>1, <2>2, <2>3, <2>4 DEF Release, LocksInv
<1>3. CASE Len(todo[t]) # 1
  <2>1. /\ todo' = [todo EXCEPT ![t] = Tail(@)] /\ UNCHANGED <<readers, writer>>
    BY <1>3 DEF Continue, Proceed
  <2>2. ASSUME NEW u \in Threads \ {t} PROVE Held(u)'
    BY <1>1, <2>1, <2>2, OthersHeld
  <2>3. /\ todo'[t] # <<>> /\ Head(todo'[t]) = todo[t][2]
        /\ Len(todo[t]) > 1 /\ Len(todo'[t]) = Len(todo[t]) - 1
    BY <1>1, <1>3, <2>1, TailOfCall, LenCases DEF IndInv, CallsInv
  <2>4. Held(t)'
    <3>1. /\ Held(t) /\ Step(t) = todo[t][1] /\ Step(t) \in AllSteps
          /\ FitsLocks(t, todo[t], 1) /\ FitsData(t, todo[t], 1) /\ FitsBefore(t, todo[t], 1)
      BY StepsOfCall
    <3>2. t \notin waiting'
      OBVIOUS
    <3>3. t \notin readers["picker"]
      BY <3>1, <2>3 DEF Held
    <3>4. t \in readers["frecency"] => At(t, Recording \cup {Drop("frecency")})' \/ (At(t, {Set("picker")})' /\ t = Ui /\ Len(todo'[t]) = 1)
      BY <3>1, <2>3 DEF Held, At, Step, Recording, FitsData, Drop, Do, Set
    <3>5. t \in writer["picker"] => At(t, {Drop("picker")})'
      <4>1. t \in writer["picker"] => Step(t) # Drop("picker")
        BY DEF Drop
      <4>2. QED
        BY <3>1, <2>3, <4>1 DEF Held, At, Step
    <3>6. t \in writer["frecency"] => t = Ui /\ At(t, Writing \cup {Drop("frecency")})'
      BY <3>1, <2>3 DEF Held, At, Step, Drop, FitsLocks
    <3>7. At(t, Recording)' => t \in readers["frecency"]
      BY <3>1, <2>3 DEF Held, At, Step, FitsBefore, Read, Recording
    <3>8. At(t, Writing)' => t \in writer["frecency"]
      BY <3>1, <2>3 DEF Held, At, Step, FitsBefore, Write
    <3>9. QED
      BY <2>1, <3>2, <3>3, <3>4, <3>5, <3>6, <3>7, <3>8 DEF Held
  <2>5. QED
    BY <1>1, <2>1, <2>2, <2>4 DEF LocksInv, Exclusion
<1>4. QED
  BY <1>2, <1>3

\* What a step does to the locks.
LEMMA LocksStep ==
    ASSUME IndInv, [Next]_vars
    PROVE  LocksInv'
<1>1. todo \in [Threads -> Seq(AllSteps)] /\ LocksInv
  BY DEF IndInv, CallsInv
<1>2. ASSUME NEW t \in Threads, Begin(t) PROVE LocksInv'
  <2>1. PICK c \in CallsOf(t) : todo' = [todo EXCEPT ![t] = c]
    BY <1>2 DEF Begin
  <2>2. c \in Seq(AllSteps) /\ c # <<>> /\ Head(c) = c[1] /\ c[1][1] \in {"read", "write", "peek", "set"}
    BY CallsAreOrderly
  <2>3. UNCHANGED <<readers, writer, waiting>>
    BY <1>2 DEF Begin, locks
  <2>4. ASSUME NEW u \in Threads \ {t} PROVE Held(u)'
    BY <1>1, <2>1, <2>3, OthersHeld
  <2>5. Held(t)'
    BY <1>1, <1>2, <2>1, <2>2, <2>3 DEF Begin, LocksInv, Held, At, Step, Recording, Writing, Do
  <2>6. QED
    BY <1>1, <2>3, <2>4, <2>5 DEF LocksInv, Exclusion
<1>3. ASSUME NEW t \in Threads, Park(t) PROVE LocksInv'
  <2>1. ASSUME NEW u \in Threads PROVE Held(u)'
    BY <1>3, OthersHeld DEF Park
  <2>2. QED
    BY <1>1, <1>3, <2>1 DEF Park, LocksInv, Exclusion
<1>4. ASSUME NEW t \in Threads, NEW l \in Locks, AcquireRead(t, l) PROVE LocksInv'
  <2>1. /\ todo[t] # <<>> /\ Step(t) = Read(l) /\ writer[l] = {}
        /\ readers' = [readers EXCEPT ![l] = @ \cup {t}] /\ todo' = [todo EXCEPT ![t] = Tail(@)]
        /\ UNCHANGED <<writer, waiting>>
    BY <1>4 DEF AcquireRead, Proceed, CanRead
  <2>2. /\ Held(t) /\ Step(t) = todo[t][1] /\ Step(t) \in AllSteps
        /\ FitsLocks(t, todo[t], 1) /\ FitsBefore(t, todo[t], 1) /\ Len(todo[t]) \in Nat /\ Len(todo[t]) >= 1
    BY <2>1, StepsOfCall
  <2>3. l \in {"picker", "frecency"}
    BY <2>1, <2>2 DEF AllSteps, Read, Recording, Writing, Do
  <2>4. /\ Len(todo[t]) > 1 /\ todo'[t] # <<>> /\ Head(todo'[t]) = todo[t][2] /\ Len(todo'[t]) = Len(todo[t]) - 1
        /\ l = "picker" => todo[t][2] = Peek("queries") /\ Len(todo'[t]) = 1
        /\ l = "frecency" => todo[t][2] = Do("tracked")
    <3>1. Len(todo[t]) > 1
      BY <2>1, <2>2, <2>3, StepsOfCall
    <3>2. /\ todo'[t] # <<>> /\ Head(todo'[t]) = todo[t][2] /\ Len(todo'[t]) = Len(todo[t]) - 1
          /\ Len(todo[t]) > 2 => todo'[t][2] = todo[t][3]
      BY <1>1, <2>1, <2>2, <3>1, TailOfCall DEF IndInv, CallsInv
    <3>3. l = "picker" => Len(todo[t]) = 2
      BY <2>1, <2>2, StepsOfCall
    <3>4. l = "picker" => Len(todo'[t]) = 1
      <4>1. 2 - 1 = 1
        OBVIOUS
      <4>2. QED
        BY <3>2, <3>3, <4>1
    <3>5. QED
      BY <2>1, <2>2, <2>3, <3>1, <3>2, <3>4, StepsOfCall
  <2>5. /\ t \notin waiting
        /\ \A k \in {"picker", "frecency"} : t \notin readers[k] /\ t \notin writer[k]
    BY <2>1, <2>2, <2>3 DEF Held, At, Recording, Writing, Read, Do, Drop, Peek, Set
  <2>6. ASSUME NEW u \in Threads \ {t} PROVE Held(u)'
    BY <1>1, <2>1, <2>6, OthersHeld DEF LocksInv, Locks
  <2>7. Held(t)'
    <3>1. /\ \A k \in {"picker", "frecency"} : t \notin writer'[k] /\ (t \in readers'[k] <=> k = l)
          /\ t \notin waiting'
      BY <1>1, <2>1, <2>3, <2>5 DEF LocksInv, Locks
    <3>2. CASE l = "picker"
      <4>1. At(t, {Peek("queries")})' /\ Len(todo'[t]) = 1
        BY <2>4, <3>2 DEF At, Step
      <4>2. ~At(t, Recording)' /\ ~At(t, Writing)'
        BY <4>1 DEF At, Recording, Writing, Do, Peek
      <4>3. t \notin readers'["frecency"] /\ t \notin writer'["picker"] /\ t \notin writer'["frecency"]
        BY <3>1, <3>2
      <4>4. QED
        BY <3>1, <4>1, <4>2, <4>3 DEF Held
    <3>3. CASE l = "frecency"
      <4>1. At(t, Recording)'
        BY <2>4, <3>3 DEF At, Step, Recording
      <4>2. At(t, Recording \cup {Drop("frecency")})' /\ ~At(t, Writing)'
        BY <4>1 DEF At, Recording, Writing, Do
      <4>3. t \notin readers'["picker"] /\ t \in readers'["frecency"]
        BY <3>1, <3>3
      <4>4. t \notin writer'["picker"] /\ t \notin writer'["frecency"]
        BY <3>1
      <4>5. QED
        BY <3>1, <4>1, <4>2, <4>3, <4>4 DEF Held
    <3>4. QED
      BY <2>3, <3>2, <3>3
  <2>8. Exclusion'
    BY <1>1, <2>1, <2>3 DEF LocksInv, Exclusion, Locks
  <2>9. QED
    BY <1>1, <2>1, <2>6, <2>7, <2>8 DEF LocksInv
<1>5. ASSUME NEW t \in Threads, NEW l \in Locks, AcquireWrite(t, l) PROVE LocksInv'
  <2>1. /\ todo[t] # <<>> /\ Step(t) = Write(l) /\ writer[l] = {} /\ readers[l] = {}
        /\ writer' = [writer EXCEPT ![l] = {t}] /\ todo' = [todo EXCEPT ![t] = Tail(@)]
        /\ readers' = readers /\ waiting' = waiting \ {t}
    BY <1>5 DEF AcquireWrite, Proceed, CanWrite
  <2>2. /\ Held(t) /\ Step(t) = todo[t][1] /\ Step(t) \in AllSteps
        /\ FitsLocks(t, todo[t], 1) /\ FitsBefore(t, todo[t], 1) /\ Len(todo[t]) \in Nat /\ Len(todo[t]) >= 1
    BY <2>1, StepsOfCall
  <2>3. l \in {"picker", "frecency"}
    BY <2>1, <2>2 DEF AllSteps, Write, Recording, Writing, Do
  <2>4. /\ Len(todo[t]) > 1 /\ todo'[t] # <<>> /\ Head(todo'[t]) = todo[t][2] /\ Len(todo'[t]) = Len(todo[t]) - 1
        /\ l = "picker" => /\ todo[t][2] \in {Peek("frecency"), Set("debouncer")}
                           /\ Len(todo'[t]) > 1 => todo'[t][2] = Drop("picker")
        /\ l = "frecency" => t = Ui /\ todo[t][2] \in Writing
    <3>1. Len(todo[t]) > 1
      BY <2>1, <2>2, <2>3, StepsOfCall
    <3>2. /\ todo'[t] # <<>> /\ Head(todo'[t]) = todo[t][2] /\ Len(todo'[t]) = Len(todo[t]) - 1
          /\ Len(todo[t]) > 2 => todo'[t][2] = todo[t][3]
      BY <1>1, <2>1, <2>2, <3>1, TailOfCall DEF IndInv, CallsInv
    <3>3. Len(todo'[t]) > 1 => Len(todo[t]) > 2
      BY <2>2, <3>2
    <3>4. QED
      BY <2>1, <2>2, <2>3, <3>1, <3>2, <3>3, StepsOfCall
  <2>5. \A k \in {"picker", "frecency"} : t \notin readers[k] /\ t \notin writer[k]
    BY <2>1, <2>2, <2>3 DEF Held, At, Recording, Writing, Write, Do, Drop, Peek, Set
  <2>6. ASSUME NEW u \in Threads \ {t} PROVE Held(u)'
    BY <1>1, <2>1, <2>6, OthersHeld DEF LocksInv, Locks
  <2>7. Held(t)'
    BY <1>1, <2>1, <2>3, <2>4, <2>5 DEF Held, At, Step, LocksInv, Recording, Writing, Locks, Do,
         Peek, Set, Drop
  <2>8. Exclusion'
    BY <1>1, <2>1, <2>3 DEF LocksInv, Exclusion, Locks
  <2>9. QED
    BY <1>1, <2>1, <2>6, <2>7, <2>8 DEF LocksInv
<1>6. ASSUME NEW t \in Threads, NEW l \in Locks, Section(t, l) PROVE LocksInv'
  BY <1>6, ContinueLocks DEF Section, Peek, Set
<1>7. ASSUME NEW t \in Threads, NEW l \in Locks, Unlock(t, l) PROVE LocksInv'
  <2>1. /\ todo[t] # <<>> /\ Step(t) = Drop(l)
        /\ readers' = [readers EXCEPT ![l] = @ \ {t}] /\ writer' = [writer EXCEPT ![l] = @ \ {t}]
        /\ todo' = [todo EXCEPT ![t] = Tail(@)] /\ waiting' = waiting
    BY <1>7 DEF Unlock, Proceed
  <2>2. /\ Held(t) /\ Step(t) = todo[t][1] /\ Step(t) \in AllSteps
        /\ FitsLocks(t, todo[t], 1) /\ FitsBefore(t, todo[t], 1) /\ Len(todo[t]) \in Nat /\ Len(todo[t]) >= 1
    BY <2>1, StepsOfCall
  <2>3. l \in {"picker", "frecency"}
    BY <2>1, <2>2 DEF AllSteps, Drop, Recording, Writing, Do
  <2>4. \A k \in {"picker", "frecency"} : t \notin readers'[k] /\ t \notin writer'[k]
    BY <1>1, <2>1, <2>2, <2>3 DEF Held, At, Recording, Writing, Do, Drop, Peek, Set, LocksInv, Locks
  <2>5. ~At(t, Recording)' /\ ~At(t, Writing)' /\ t \notin waiting'
    <3>1. t \notin waiting
      BY <2>1, <2>2 DEF Held, Drop
    <3>2. CASE Len(todo[t]) = 1
      <4>1. todo'[t] = <<>>
        BY <1>1, <2>1, <3>2
      <4>2. QED
        BY <2>1, <3>1, <4>1 DEF At
    <3>3. CASE Len(todo[t]) > 1
      <4>1. Head(todo'[t]) = todo[t][2]
        BY <1>1, <2>1, <3>3, TailOfCall DEF IndInv, CallsInv
      <4>2. QED
        BY <2>1, <2>2, <3>1, <3>3, <4>1 DEF At, Step, FitsBefore, Recording, Writing, Do, Drop,
             Read, Write
    <3>4. Len(todo[t]) = 1 \/ Len(todo[t]) > 1
      BY <1>1, <2>1, LenCases
    <3>5. QED
      BY <3>2, <3>3, <3>4
  <2>6. ASSUME NEW u \in Threads \ {t} PROVE Held(u)'
    BY <1>1, <2>1, <2>6, OthersHeld DEF LocksInv, Locks
  <2>7. Held(t)'
    BY <2>4, <2>5 DEF Held
  <2>8. Exclusion'
    BY <1>1, <2>1, <2>3 DEF LocksInv, Exclusion, Locks
  <2>9. QED
    BY <1>1, <2>1, <2>6, <2>7, <2>8 DEF LocksInv
<1>8. ASSUME NEW t \in Threads,
             Tracked(t) \/ Load(t) \/ Now(t) \/ Put(t) \/ Prune(t) \/ Open(t) \/ Take(t) \/ Close(t) \/ RemoveDir(t)
      PROVE  LocksInv'
  <2>1. todo[t] # <<>> /\ Step(t)[1] = "do" /\ waiting' = waiting /\ (Continue(t) \/ Return(t))
    BY <1>8 DEF Tracked, Load, Now, Put, Prune, Open, Take, Close, RemoveDir, Does, Do
  <2>2. waiting' = waiting \ {t}
    <3>1. t \notin waiting
      BY <2>1, StepsOfCall DEF Held
    <3>2. QED
      BY <2>1, <3>1
  <2>3. CASE Continue(t)
    BY <2>1, <2>2, <2>3, ContinueLocks
  <2>4. CASE Return(t)
    <3>1. ASSUME NEW u \in Threads \ {t} PROVE Held(u)'
      BY <1>1, <2>1, <2>4, <3>1, OthersHeld DEF Return, Release, LocksInv, Locks
    <3>2. Held(t)'
      BY <1>1, <2>1, <2>2, <2>4 DEF Return, Release, Held, At, Step, Locks
    <3>3. Exclusion'
      BY <1>1, <2>4 DEF Return, Release, Exclusion, LocksInv, Locks
    <3>4. QED
      BY <1>1, <2>1, <2>4, <3>1, <3>2, <3>3 DEF Return, Release, LocksInv
  <2>5. QED
    BY <2>1, <2>3, <2>4
<1>9. ASSUME Tick \/ Grow \/ UNCHANGED vars PROVE LocksInv'
  <2>1. UNCHANGED <<todo, readers, writer, waiting>>
    BY <1>9 DEF Tick, Grow, vars, locks
  <2>2. ASSUME NEW u \in Threads PROVE Held(u)'
    BY <2>1, OthersHeld
  <2>3. QED
    BY <1>1, <2>1, <2>2 DEF LocksInv, Exclusion
<1>10. QED
  BY <1>2, <1>3, <1>4, <1>5, <1>6, <1>7, <1>8, <1>9 DEF Next, Advance
-----------------------------------------------------------------------------
\* How far a thread is from one that waits for nobody.
Level(t) ==
    IF todo[t] = <<>> THEN 0
    ELSE CASE Step(t) \in {Read("picker"), Peek("picker")} -> 4
           [] Step(t) \in {Write("picker"), Set("picker")} -> 3
           [] Step(t) \in {Read("frecency"), Peek("frecency")} -> 2
           [] Step(t) \in {Write("frecency"), Peek("queries")} -> 1
           [] OTHER -> 0

\* Whoever a thread waits for is at a lower level.
LEMMA WaitingDescends ==
    ASSUME IndInv, NEW t \in Threads, NEW u \in WaitsFor(t)
    PROVE  Level(u) < Level(t) /\ Level(t) \in 0..4
<1>1. todo[t] # <<>> /\ Step(t) \in AllSteps /\ Held(t) /\ LocksInv
  BY StepsOfCall DEF WaitsFor, IndInv
<1>2. u \in Threads
  BY <1>1 DEF WaitsFor, LocksInv, AllSteps, Recording, Writing, Do, Locks
<1>3. u \in waiting => todo[u] # <<>> /\ Step(u) \in AllSteps /\ Step(u)[1] \in {"write", "set"}
  BY <1>1, <1>2, StepsOfCall DEF LocksInv, Held
<1>4. Held(u)
  BY <1>1, <1>2 DEF LocksInv
<1> USE DEF Read, Write, Drop, Peek, Set, Do
<1>5. CASE Step(t) \in {Read("picker"), Peek("picker")}
  <2>1. u \in writer["picker"] \/ (u \in waiting /\ Step(u)[2] = "picker")
    BY <1>1, <1>5 DEF WaitsFor
  <2>2. CASE u \in writer["picker"]
    BY <1>1, <1>4, <1>5, <2>2 DEF Held, At, Level
  <2>3. CASE u \in waiting /\ Step(u)[2] = "picker"
    <3>1. Step(u) \in {Write("picker"), Set("picker")}
      BY <1>3, <2>3 DEF AllSteps, Recording, Writing
    <3>2. QED
      BY <1>1, <1>3, <1>5, <2>3, <3>1 DEF Level
  <2>4. QED
    BY <2>1, <2>2, <2>3
<1>6. CASE Step(t) \in {Read("frecency"), Peek("frecency")}
  <2>1. u \in writer["frecency"] \/ (u \in waiting /\ Step(u)[2] = "frecency")
    BY <1>1, <1>6 DEF WaitsFor
  <2>2. CASE u \in writer["frecency"]
    BY <1>1, <1>4, <1>6, <2>2 DEF Held, At, Level, Writing
  <2>3. CASE u \in waiting /\ Step(u)[2] = "frecency"
    <3>1. Step(u) = Write("frecency")
      BY <1>3, <2>3 DEF AllSteps, Recording, Writing
    <3>2. QED
      BY <1>1, <1>3, <1>6, <2>3, <3>1 DEF Level
  <2>4. QED
    BY <2>1, <2>2, <2>3
<1>7. CASE Step(t) = Peek("queries")
  <2>1. writer["queries"] = {}
    BY <1>1 DEF LocksInv, Exclusion
  <2>2. u \in waiting /\ Step(u)[2] = "queries"
    BY <1>1, <1>7, <2>1 DEF WaitsFor
  <2>3. Step(u) = Set("queries")
    BY <1>3, <2>2 DEF AllSteps, Recording, Writing
  <2>4. QED
    BY <1>1, <1>3, <1>7, <2>2, <2>3 DEF Level
<1>8. CASE Step(t) \in {Write("picker"), Set("picker")}
  <2>1. u \in writer["picker"] \cup readers["picker"]
    BY <1>1, <1>8 DEF WaitsFor
  <2>2. QED
    BY <1>1, <1>4, <1>8, <2>1 DEF Held, At, Level
<1>9. CASE Step(t) = Write("frecency")
  <2>1. u \in writer["frecency"] \cup readers["frecency"]
    BY <1>1, <1>9 DEF WaitsFor
  <2>2. t = Ui
    BY <1>1, <1>9, StepsOfCall
  <2>3. At(u, Recording \cup Writing \cup {Drop("frecency")})
    BY <1>4, <1>9, <2>1, <2>2 DEF Held, At
  <2>4. QED
    BY <1>1, <1>9, <2>3 DEF At, Level, Recording, Writing
<1>10. CASE Step(t) \in {Set("queries"), Set("debouncer")}
  BY <1>1, <1>10 DEF WaitsFor, LocksInv, Exclusion
<1>11. CASE Step(t)[1] \notin {"read", "write", "peek", "set"}
  BY <1>1, <1>11 DEF WaitsFor
<1>12. QED
  BY <1>1, <1>5, <1>6, <1>7, <1>8, <1>9, <1>10, <1>11 DEF AllSteps, Recording, Writing

LEMMA NobodyInACircle ==
    ASSUME IndInv
    PROVE  NoCircularWait
<1>1. SUFFICES ASSUME NEW S \in (SUBSET Threads) \ {{}}, \A t \in S : WaitsFor(t) \cap S # {}
               PROVE  FALSE
  BY DEF NoCircularWait
<1>2. \A t \in S : \E u \in S : Level(u) < Level(t) /\ Level(t) \in 0..4
  BY <1>1, WaitingDescends
<1>3. \A t \in S : Level(t) \in 0..4
  BY <1>2
<1>4. \A t \in S : Level(t) > 0
  BY <1>2, <1>3
<1>5. \A t \in S : Level(t) > 1
  BY <1>2, <1>3, <1>4
<1>6. \A t \in S : Level(t) > 2
  BY <1>2, <1>3, <1>5
<1>7. \A t \in S : Level(t) > 3
  BY <1>2, <1>3, <1>6
<1>8. \A t \in S : Level(t) > 4
  BY <1>2, <1>3, <1>7
<1>9. PICK t \in S : TRUE
  BY <1>1
<1>10. Level(t) > 4 /\ Level(t) \in 0..4
  BY <1>3, <1>8, <1>9
<1>11. QED
  BY <1>10
-----------------------------------------------------------------------------
LEMMA LeastNat ==
    ASSUME NEW T, T \subseteq Nat, T # {}
    PROVE  \E x \in T : \A y \in T : x <= y
<1>1. ASSUME NEW x \in Nat, NEW y \in Nat, y < x PROVE <<y, x>> \in OpToRel(<, Nat)
  BY <1>1 DEF OpToRel
<1>2. PICK x \in T : \A y \in T : ~ (<<y, x>> \in OpToRel(<, Nat))
  BY NatLessThanWellFounded, WFMin
<1>3. ASSUME NEW y \in T PROVE x <= y
  <2>1. x \in Nat /\ y \in Nat
    OBVIOUS
  <2>2. ~(y < x)
    BY <1>1, <1>2, <2>1
  <2>3. QED
    BY <2>1, <2>2
<1>4. QED
  BY <1>3

\* There is a first position in the window.
LEMMA FirstFreshExists ==
    ASSUME NEW s \in Seq(Nat), NEW now \in Nat
    PROVE  /\ FirstFresh(s, now) \in 1..Len(s) + 1
           /\ \A i \in 1..FirstFresh(s, now) - 1 : s[i] < now - Window
           /\ FirstFresh(s, now) <= Len(s) => s[FirstFresh(s, now)] >= now - Window
<1> USE StoresAssumption
<1> DEFINE n == Len(s)
           Inside == {i \in 1..n : s[i] >= now - Window}
           Good(k) == /\ \A i \in 1..k-1 : s[i] < now - Window
                      /\ k <= n => s[k] >= now - Window
<1>1. n \in Nat /\ \A i \in 1..n : s[i] \in Nat
  OBVIOUS
<1>2. \E k \in 1..n+1 : Good(k)
  <2>1. CASE Inside = {}
    <3>1. Good(n + 1)
      BY <1>1, <2>1
    <3>2. QED
      BY <1>1, <3>1
  <2>2. CASE Inside # {}
    <3>0. Inside \subseteq Nat
      BY <1>1
    <3>1. PICK k \in Inside : \A i \in Inside : k <= i
      <4> HIDE DEF Inside
      <4>1. QED
        BY <3>0, <2>2, LeastNat
    <3>2. ASSUME NEW i \in 1..k-1 PROVE s[i] < now - Window
      <4>1. i \in 1..n /\ i \notin Inside /\ s[i] \in Nat
        BY <1>1, <3>1
      <4>2. ~(s[i] >= now - Window)
        BY <4>1
      <4>3. QED
        BY <4>1, <4>2
    <3>3. QED
      BY <1>1, <3>1, <3>2
  <2>3. QED
    BY <2>1, <2>2
<1> HIDE DEF n, Inside
<1>3. FirstFresh(s, now) = CHOOSE k \in 1..n+1 : Good(k)
  BY DEF FirstFresh, n
<1>4. FirstFresh(s, now) \in 1..n+1 /\ Good(FirstFresh(s, now))
  <2> HIDE DEF Good
  <2>1. QED
    BY <1>2, <1>3
<1>5. QED
  BY <1>4 DEF n

\* What is fresh is the end of a row, without stamps that are older than the window.
LEMMA FreshKeeps ==
    ASSUME NEW s \in Seq(Nat), NEW now \in Nat
    PROVE  /\ Fresh(s, now) \in Seq(Nat) /\ Keeps(Fresh(s, now), s, now)
           /\ Len(Fresh(s, now)) >= 1 => Fresh(s, now)[1] >= now - Window
<1> DEFINE k == FirstFresh(s, now)
           n == Len(s)
           f == Fresh(s, now)
<1>1. n \in Nat /\ \A i \in 1..n : s[i] \in Nat
  OBVIOUS
<1>2. /\ k \in 1..n+1 /\ k \in Int
      /\ \A i \in 1..k-1 : s[i] < now - Window
      /\ k <= n => s[k] >= now - Window
  BY FirstFreshExists
<1> HIDE DEF k
<1>3. f = SubSeq(s, k, n)
  BY DEF Fresh, k
<1> HIDE DEF n, f
<1>4. /\ f \in Seq(Nat) /\ Len(f) = (IF k <= n THEN n - k + 1 ELSE 0)
      /\ \A i \in 1..n-k+1 : f[i] = s[k+i-1]
  <2>1. \A i \in k..n : s[i] \in Nat
    BY <1>1, <1>2
  <2>2. QED
    BY <1>1, <1>2, <1>3, <2>1, SubSeqProperties
<1>5. Len(f) = n - k + 1
  BY <1>1, <1>2, <1>4
<1>6. ASSUME NEW i \in 1..Len(f) PROVE f[i] = s[i + n - Len(f)]
  <2>1. f[i] = s[k+i-1] /\ i + n - Len(f) = k + i - 1
    BY <1>1, <1>2, <1>4, <1>5
  <2>2. QED
    BY <2>1
<1>7. \A i \in 1..n - Len(f) : s[i] < now - Window
  BY <1>1, <1>2, <1>5
<1>8. Len(f) >= 1 => f[1] >= now - Window
  <2>1. ASSUME Len(f) >= 1 PROVE f[1] = s[k] /\ k <= n
    <3>1. 1 \in 1..n-k+1 /\ k + 1 - 1 = k /\ k <= n
      BY <1>1, <1>2, <1>5, <2>1
    <3>2. QED
      BY <1>4, <3>1
  <2>2. QED
    BY <1>2, <2>1
<1>9. Len(f) <= n
  BY <1>1, <1>2, <1>5
<1>10. Keeps(f, s, now)
  BY <1>6, <1>7, <1>9 DEF Keeps, n
<1>11. QED
  BY <1>4, <1>8, <1>10 DEF f

\* Keeping less of what is kept.
LEMMA KeepsLess ==
    ASSUME NEW q \in Seq(Nat), NEW s \in Seq(Nat), NEW r \in Seq(Nat),
           NEW m \in Nat, NEW n \in Nat, m <= n,
           Keeps(q, s, m), Keeps(s, r, n)
    PROVE  Keeps(q, r, n)
<1> USE StoresAssumption
<1> DEFINE a == Len(q)
           b == Len(s)
           c == Len(r)
<1>1. a \in Nat /\ b \in Nat /\ c \in Nat /\ a <= b /\ b <= c
  BY DEF Keeps
<1>2. \A i \in 1..a : q[i] = s[i + b - a]
  BY DEF Keeps
<1>3. \A i \in 1..b : s[i] = r[i + c - b] /\ s[i] \in Nat
  BY DEF Keeps
<1>4. \A i \in 1..b-a : s[i] < m - Window
  BY DEF Keeps
<1>5. \A i \in 1..c-b : r[i] < n - Window
  BY DEF Keeps
<1>6. ASSUME NEW i \in 1..a PROVE q[i] = r[i + c - a]
  <2>1. i + b - a \in 1..b /\ (i + b - a) + c - b = i + c - a
    BY <1>1
  <2>2. QED
    BY <1>2, <1>3, <2>1
<1>7. ASSUME NEW i \in 1..c-a PROVE r[i] < n - Window
  <2>1. CASE i <= c - b
    BY <1>1, <1>5, <2>1
  <2>2. CASE i > c - b
    <3>1. i - (c - b) \in 1..b-a /\ i - (c - b) \in 1..b /\ (i - (c - b)) + c - b = i
      BY <1>1, <2>2
    <3>2. s[i - (c - b)] = r[i] /\ s[i - (c - b)] < m - Window /\ s[i - (c - b)] \in Nat
      BY <1>3, <1>4, <3>1
    <3>3. QED
      BY <3>2
  <2>3. QED
    BY <1>1, <2>1, <2>2
<1>8. QED
  BY <1>1, <1>6, <1>7 DEF Keeps

\* What is kept of a row is a row.
LEMMA RowKept ==
    ASSUME NEW s \in Seq(Nat), NEW r, NEW m, NEW n \in Nat, Row(r, n), Keeps(s, r, m)
    PROVE  Row(s, n)
<1> USE StoresAssumption
<1> DEFINE b == Len(s)
           c == Len(r)
<1>1. b \in Nat /\ c \in Nat /\ b <= c /\ c <= Cap
  BY DEF Keeps, Row
<1>2. \A i \in 1..b : s[i] = r[i + c - b]
  BY DEF Keeps
<1>3. ASSUME NEW i \in 1..b, NEW j \in 1..b, i <= j PROVE s[i] <= s[j] /\ s[i] <= n
  <2>1. i + c - b \in 1..c /\ j + c - b \in 1..c /\ i + c - b <= j + c - b
    BY <1>1, <1>3
  <2>2. QED
    BY <1>2, <2>1 DEF Row, Ordered, NotAfter
<1>4. b <= Cap
  BY <1>1
<1>5. Ordered(s)
  BY <1>3 DEF Ordered
<1>6. NotAfter(s, n)
  BY <1>1, <1>3 DEF NotAfter
<1>7. QED
  BY <1>4, <1>5, <1>6 DEF Row

LEMMA KeepsSelf ==
    ASSUME NEW s \in Seq(Nat), NEW now \in Nat
    PROVE  Keeps(s, s, now)
<1> DEFINE n == Len(s)
<1>1. n \in Nat
  OBVIOUS
<1>2. /\ n <= n
      /\ \A i \in 1..n : s[i] = s[i + n - n]
      /\ \A i \in 1..n - n : s[i] < now - Window
  BY <1>1
<1>3. QED
  BY <1>2 DEF Keeps

\* The trimmed row has room for a stamp, and lost stale ones only, or is full with it.
LEMMA TrimLeaves ==
    ASSUME NEW r \in Seq(Nat), NEW st \in Nat, Len(r) <= Cap
    PROVE  LET f == Trim(r, st) IN
           /\ f \in Seq(Nat) /\ Len(f) <= Cap - 1 /\ Len(f) <= Len(r)
           /\ \A i \in 1..Len(f) : f[i] = r[i + Len(r) - Len(f)]
           /\ Len(f) = Cap - 1 \/ \A i \in 1..Len(r) - Len(f) : r[i] < st - Window
<1> USE StoresAssumption
<1> DEFINE g == Fresh(r, st)
           f == Trim(r, st)
           n == Len(r)
<1>1. g \in Seq(Nat) /\ Keeps(g, r, st)
  BY FreshKeeps
<1>2. f = IF Len(g) >= Cap THEN Tail(g) ELSE g
  BY DEF Trim
<1> HIDE DEF g, f
<1>3. /\ n \in Nat /\ Len(g) \in Nat /\ Len(g) <= n /\ n <= Cap
      /\ \A i \in 1..Len(g) : g[i] = r[i + n - Len(g)]
      /\ \A i \in 1..n - Len(g) : r[i] < st - Window
  BY <1>1 DEF Keeps
<1> HIDE DEF n
<1>4. CASE Len(g) >= Cap
  <2>1. g # <<>> /\ f = Tail(g)
    BY <1>1, <1>2, <1>4
  <2>2. /\ f \in Seq(Nat) /\ Len(f) = Len(g) - 1
        /\ \A i \in 1..Len(f) : f[i] = g[i + 1]
    BY <1>1, <2>1, HeadTailProperties
  <2>3. Len(f) = Cap - 1 /\ Len(f) <= Cap - 1 /\ Len(f) <= n /\ Len(f) \in Nat
    BY <1>3, <1>4, <2>2
  <2>4. ASSUME NEW i \in 1..Len(f) PROVE f[i] = r[i + n - Len(f)]
    <3>1. i + 1 \in 1..Len(g) /\ (i + 1) + n - Len(g) = i + n - Len(f) /\ f[i] = g[i + 1]
      BY <1>3, <2>2, <2>3
    <3>2. QED
      BY <1>3, <3>1
  <2>5. QED
    BY <2>2, <2>3, <2>4 DEF f, n
<1>5. CASE ~(Len(g) >= Cap)
  <2>1. f = g
    BY <1>2, <1>5
  <2>2. Len(g) <= Cap - 1
    BY <1>3, <1>5
  <2>3. QED
    BY <1>1, <1>3, <2>1, <2>2 DEF f, n
<1>6. QED
  BY <1>4, <1>5

\* The newest stamps are the end of all.
LEMMA NewestIsEnd ==
    ASSUME NEW s \in Seq(Nat)
    PROVE  LET k == Newest(s) IN
           /\ k \in Seq(Nat) /\ Len(k) = IF Len(s) > Cap THEN Cap ELSE Len(s)
           /\ \A i \in 1..Len(k) : k[i] = s[i + Len(s) - Len(k)]
<1> USE StoresAssumption
<1> DEFINE n == Len(s)
           k == Newest(s)
           m == IF n > Cap THEN n - Cap + 1 ELSE 1
<1>1. n \in Nat /\ \A i \in 1..n : s[i] \in Nat
  OBVIOUS
<1>2. k = SubSeq(s, m, n)
  BY DEF Newest
<1>3. m \in Nat /\ m >= 1 /\ n - m + 1 = (IF n > Cap THEN Cap ELSE n) /\ m <= n + 1
  BY <1>1
<1> HIDE DEF n, k, m
<1>4. /\ k \in Seq(Nat) /\ Len(k) = (IF m <= n THEN n - m + 1 ELSE 0)
      /\ \A i \in 1..n-m+1 : k[i] = s[m+i-1]
  <2>1. \A i \in m..n : s[i] \in Nat
    BY <1>1, <1>3
  <2>2. QED
    BY <1>1, <1>2, <1>3, <2>1, SubSeqProperties
<1>5. Len(k) = n - m + 1
  BY <1>1, <1>3, <1>4
<1>6. ASSUME NEW i \in 1..Len(k) PROVE k[i] = s[i + n - Len(k)]
  <2>1. k[i] = s[m+i-1] /\ i + n - Len(k) = m + i - 1
    BY <1>1, <1>3, <1>4, <1>5
  <2>2. QED
    BY <2>1
<1>7. QED
  BY <1>3, <1>4, <1>5, <1>6 DEF k, n

\* A stamp put at the end of a trimmed row makes a row.
LEMMA PutRow ==
    ASSUME NEW r \in Seq(Nat), NEW st \in Nat, NEW now \in Nat, st <= now,
           Row(r, now), NotAfter(r, st)
    PROVE  Row(Append(Trim(r, st), st), now)
<1> USE StoresAssumption
<1> DEFINE f == Trim(r, st)
           w == Append(f, st)
           b == Len(f)
           c == Len(r)
<1>1. /\ f \in Seq(Nat) /\ b <= Cap - 1 /\ b <= c /\ c \in Nat /\ b \in Nat
      /\ \A i \in 1..b : f[i] = r[i + c - b]
  BY TrimLeaves DEF Row
<1> HIDE DEF f
<1>2. w \in Seq(Nat) /\ Len(w) = b + 1 /\ w[b + 1] = st /\ \A i \in 1..b : w[i] = f[i]
  BY <1>1
<1> HIDE DEF w, b, c
<1>3. ASSUME NEW i \in 1..b PROVE w[i] <= st /\ w[i] \in Nat /\ i + c - b \in 1..c /\ w[i] = r[i + c - b]
  <2>1. i + c - b \in 1..c /\ w[i] = r[i + c - b]
    BY <1>1, <1>2
  <2>2. r[i + c - b] <= st /\ r[i + c - b] \in Nat
    BY <2>1 DEF NotAfter, c
  <2>3. QED
    BY <2>1, <2>2
<1>4. ASSUME NEW i \in 1..b+1, NEW j \in 1..b+1, i <= j PROVE w[i] <= w[j]
  <2>1. CASE j = b + 1 /\ i = b + 1
    BY <1>2, <2>1
  <2>2. CASE j = b + 1 /\ i # b + 1
    <3>1. i \in 1..b
      BY <1>1, <2>2
    <3>2. QED
      BY <1>2, <1>3, <2>2, <3>1
  <2>3. CASE j # b + 1
    <3>1. i \in 1..b /\ j \in 1..b
      BY <1>1, <1>4, <2>3
    <3>2. i + c - b <= j + c - b
      BY <1>1, <1>4
    <3>3. r[i + c - b] <= r[j + c - b]
      BY <1>3, <3>1, <3>2 DEF Row, Ordered, c
    <3>4. QED
      BY <1>3, <3>1, <3>3
  <2>4. QED
    BY <2>1, <2>2, <2>3
<1>5. Ordered(w)
  BY <1>2, <1>4 DEF Ordered
<1>6. NotAfter(w, now)
  <2>1. ASSUME NEW i \in 1..b+1 PROVE w[i] <= now
    <3>1. CASE i = b + 1
      BY <1>2, <3>1
    <3>2. CASE i # b + 1
      <4>1. i \in 1..b
        BY <1>1, <3>2
      <4>2. QED
        BY <1>3, <4>1
    <3>3. QED
      BY <3>1, <3>2
  <2>2. QED
    BY <1>2, <2>1 DEF NotAfter
<1>7. Len(w) <= Cap
  BY <1>1, <1>2
<1>8. QED
  BY <1>2, <1>5, <1>6, <1>7 DEF Row, w, f

\* What a put keeps of what was put before, when it has read the row of now.
LEMMA PutKeeps ==
    ASSUME NEW r \in Seq(Nat), NEW q \in Seq(Nat), NEW st \in Nat, NEW now \in Nat, st <= now,
           Row(r, now), NotAfter(r, st), Len(q) <= Cap, Keeps(r, q, now)
    PROVE  /\ Newest(Append(q, st)) \in Seq(Nat) /\ Len(Newest(Append(q, st))) <= Cap
           /\ Keeps(Append(Trim(r, st), st), Newest(Append(q, st)), now)
<1> USE StoresAssumption
<1> DEFINE f == Trim(r, st)
           w == Append(f, st)
           p == Append(q, st)
           k == Newest(p)
           lf == Len(f)
           lr == Len(r)
           lq == Len(q)
           lk == Len(k)
<1>1. /\ f \in Seq(Nat) /\ lf <= Cap - 1 /\ lf <= lr
      /\ \A i \in 1..lf : f[i] = r[i + lr - lf]
      /\ lf = Cap - 1 \/ \A i \in 1..lr - lf : r[i] < st - Window
  BY TrimLeaves DEF Row
<1>2. lf \in Nat /\ lr \in Nat /\ lq \in Nat /\ lr <= lq /\ lr <= Cap /\ lq <= Cap
  BY <1>1 DEF Row, Keeps
<1>3. w \in Seq(Nat) /\ Len(w) = lf + 1 /\ w[lf + 1] = st /\ \A i \in 1..lf : w[i] = f[i]
  BY <1>1
<1>4. p \in Seq(Nat) /\ Len(p) = lq + 1 /\ p[lq + 1] = st /\ \A i \in 1..lq : p[i] = q[i]
  OBVIOUS
<1>5. /\ k \in Seq(Nat) /\ lk = (IF lq + 1 > Cap THEN Cap ELSE lq + 1)
      /\ \A i \in 1..lk : k[i] = p[i + lq + 1 - lk]
  <2> HIDE DEF p
  <2>1. /\ k \in Seq(Nat) /\ lk = (IF Len(p) > Cap THEN Cap ELSE Len(p))
        /\ \A i \in 1..lk : k[i] = p[i + Len(p) - lk]
    BY <1>4, NewestIsEnd
  <2> HIDE DEF k, lk, lq
  <2>2. \A i \in 1..lk : i + Len(p) - lk = i + lq + 1 - lk
    BY <1>2, <1>4, <2>1
  <2>3. QED
    BY <1>4, <2>1, <2>2
<1>6. \A i \in 1..lr : r[i] = q[i + lq - lr]
  BY DEF Keeps
<1>7. \A i \in 1..lq - lr : q[i] < now - Window
  BY DEF Keeps
<1>8. \A i \in 1..lr : r[i] \in Nat /\ r[i] <= st
  BY DEF NotAfter
<1> HIDE DEF f, w, p, k, lf, lr, lq, lk
<1>9. lk \in Nat /\ lk <= Cap /\ lk <= lq + 1 /\ lf + 1 <= lk
  BY <1>1, <1>2, <1>5
<1>10. ASSUME NEW i \in 1..lf + 1 PROVE w[i] = k[i + lk - (lf + 1)]
  <2>1. /\ i + lk - (lf + 1) \in 1..lk
        /\ (i + lk - (lf + 1)) + lq + 1 - lk = i + lq - lf
    BY <1>2, <1>9
  <2>2. k[i + lk - (lf + 1)] = p[i + lq - lf]
    BY <1>5, <2>1
  <2>3. CASE i = lf + 1
    <3>1. i + lq - lf = lq + 1
      BY <1>2, <2>3
    <3>2. QED
      BY <1>3, <1>4, <2>2, <2>3, <3>1
  <2>4. CASE i # lf + 1
    <3>1. /\ i \in 1..lf /\ i + lr - lf \in 1..lr /\ i + lq - lf \in 1..lq
          /\ (i + lr - lf) + lq - lr = i + lq - lf
      BY <1>1, <1>2, <2>4
    <3>2. w[i] = r[i + lr - lf] /\ p[i + lq - lf] = q[i + lq - lf]
      BY <1>1, <1>3, <1>4, <3>1
    <3>3. r[i + lr - lf] = q[i + lq - lf]
      BY <1>6, <3>1
    <3>4. QED
      BY <2>2, <3>2, <3>3
  <2>5. QED
    BY <2>3, <2>4
<1>11. ASSUME NEW i \in 1..lk - (lf + 1) PROVE k[i] < now - Window
  <2> DEFINE j == i + lq + 1 - lk
  <2>1. j \in 1..lq - lf /\ j \in 1..lq /\ i \in 1..lk
    BY <1>2, <1>9
  <2>2. k[i] = q[j]
    BY <1>4, <1>5, <2>1
  <2>3. lf # Cap - 1
    BY <1>2, <1>9
  <2> HIDE DEF j
  <2>4. CASE j <= lq - lr
    BY <1>2, <1>7, <2>1, <2>2, <2>4
  <2>5. CASE j > lq - lr
    <3>1. /\ j - (lq - lr) \in 1..lr /\ j - (lq - lr) \in 1..lr - lf
          /\ (j - (lq - lr)) + lq - lr = j
      BY <1>1, <1>2, <2>1, <2>5
    <3>2. r[j - (lq - lr)] = q[j] /\ r[j - (lq - lr)] < st - Window
      BY <1>1, <1>6, <2>3, <3>1
    <3>3. r[j - (lq - lr)] \in Nat
      BY <1>8, <3>1
    <3>4. QED
      BY <2>2, <3>2, <3>3
  <2>6. QED
    BY <1>2, <2>1, <2>4, <2>5
<1>12. Keeps(w, k, now)
  BY <1>3, <1>9, <1>10, <1>11 DEF Keeps, lk
<1>13. QED
  BY <1>5, <1>9, <1>12 DEF f, w, p, k, lk
-----------------------------------------------------------------------------
LEMMA RowLater ==
    ASSUME NEW s, NEW m \in Nat, NEW n \in Nat, m <= n, Row(s, m)
    PROVE  Row(s, n)
BY DEF Row, NotAfter

LEMMA EmptyRow ==
    ASSUME NEW n \in Nat
    PROVE  Row(<<>>, n) /\ Keeps(<<>>, <<>>, n) /\ <<>> \in Seq(Nat) /\ Len(<<>>) <= Cap
BY StoresAssumption DEF Row, Ordered, NotAfter, Keeps

\* What one thread has read is not disturbed by the others.
LEMMA OthersCopied ==
    ASSUME IndInv, NEW u \in Threads,
           UNCHANGED <<todo[u], copy[u], stamp[u]>>,
           clock' \in Nat, clock <= clock',
           At(u, {Do("now"), Do("put"), Do("prune")}) /\ u \notin outdated' => u \notin outdated /\ row' = row,
           At(u, Recording \ {Do("tracked")}) => tracker' = tracker
    PROVE  Copied(u)'
<1>1. Copied(u) /\ clock \in Nat
  BY DEF IndInv, RowsInv
<1>2. Row(copy'[u], clock')
  BY <1>1, RowLater DEF Copied
<1>3. stamp'[u] \in Nat /\ stamp'[u] <= clock'
  BY <1>1 DEF Copied
<1>4. \A S : At(u, S)' <=> At(u, S)
  BY DEF At, Step
<1>5. QED
  BY <1>1, <1>2, <1>3 DEF Copied, At, Step

\* A thread that has nothing to do with its copy.
LEMMA IdleCopied ==
    ASSUME IndInv, NEW t \in Threads,
           copy'[t] = copy[t] \/ copy'[t] = <<>>,
           stamp'[t] = stamp[t] \/ stamp'[t] = 0,
           clock' \in Nat, clock <= clock',
           ~At(t, Recording \ {Do("tracked")})'
    PROVE  Copied(t)'
<1>1. Copied(t) /\ clock \in Nat
  BY DEF IndInv, RowsInv
<1>2. Row(copy'[t], clock') /\ copy'[t] \in Seq(Nat)
  BY <1>1, RowLater, EmptyRow DEF Copied
<1>3. stamp'[t] \in Nat /\ stamp'[t] <= clock'
  BY <1>1 DEF Copied
<1>4. ~At(t, {Do("now"), Do("put"), Do("prune")})' /\ ~At(t, {Do("put"), Do("prune")})'
  BY DEF At, Recording, Do
<1>5. QED
  BY <1>2, <1>3, <1>4 DEF Copied

\* Where a thread is after a step of its call.
LEMMA AfterStep ==
    ASSUME IndInv, NEW t \in Threads, todo[t] # <<>>,
           todo' = [todo EXCEPT ![t] = Tail(@)] \/ todo' = [todo EXCEPT ![t] = <<>>],
           todo'[t] # <<>>
    PROVE  /\ Len(todo[t]) > 1 /\ Step(t)' = todo[t][2]
           /\ Len(todo'[t]) > 1 => Len(todo[t]) > 2 /\ todo'[t][2] = todo[t][3]
<1>1. todo \in [Threads -> Seq(AllSteps)]
  BY DEF IndInv, CallsInv
<1>2. todo'[t] = Tail(todo[t])
  BY <1>1
<1>3. Tail(todo[t]) \in Seq(AllSteps) /\ Len(Tail(todo[t])) = Len(todo[t]) - 1
  BY <1>1, TailOfCall DEF IndInv, CallsInv
<1>4. Len(Tail(todo[t])) >= 1 /\ Len(todo[t]) \in Nat
  BY <1>1, <1>2, <1>3, LenCases
<1>5. Len(todo[t]) > 1
  BY <1>3, <1>4
<1>6. Step(t)' = todo[t][2]
  BY <1>1, <1>2, <1>5, TailOfCall DEF IndInv, CallsInv, Step
<1>7. Len(todo'[t]) > 1 => Len(todo[t]) > 2
  BY <1>2, <1>3, <1>4
<1>8. QED
  BY <1>1, <1>2, <1>5, <1>6, <1>7, TailOfCall DEF IndInv, CallsInv

LEMMA FitsFirst ==
    ASSUME IndInv, NEW t \in Threads, todo[t] # <<>>, Len(todo[t]) > 1
    PROVE  /\ todo[t][1] = Do("tracked") => todo[t][2] \in {Do("load"), Do("purge"), Set("picker")}
           /\ todo[t][1] = Do("load") => todo[t][2] = Do("now")
           /\ todo[t][1] = Do("now") => todo[t][2] = Do("put")
           /\ todo[t][1] = Do("put") => todo[t][2] = Drop("frecency")
           /\ todo[t][1] = Do("purge") => todo[t][2] = Do("prune")
           /\ todo[t][1] # Do("prune")
           /\ todo[t][2] \in Recording \ {Do("tracked")} => todo[t][1] \in Recording
           /\ todo[t][2] = Do("remove_dir") => todo[t][1] = Drop("frecency")
           /\ Len(todo[t]) > 2 /\ todo[t][3] = Do("remove_dir") => todo[t][1] = Do("take")
<1>1. FitsData(t, todo[t], 1) /\ FitsBefore(t, todo[t], 1) /\ Len(todo[t]) \in Nat
  BY StepsOfCall
<1>2. todo[t][1] # Do("prune")
  BY <1>1 DEF FitsData
<1>3. /\ todo[t][2] = Do("remove_dir") => todo[t][1] = Drop("frecency")
      /\ todo[t][2] \in Recording \ {Do("tracked")} => todo[t][1] \in Recording
  BY <1>1 DEF FitsBefore
<1>4. Len(todo[t]) > 2 /\ todo[t][3] = Do("remove_dir") => todo[t][1] = Do("take")
  BY <1>1 DEF FitsBefore
<1>5. QED
  BY <1>1, <1>2, <1>3, <1>4 DEF FitsData

\* Only these steps lead to one that uses a copy.
LEMMA NotRecordingAfter ==
    ASSUME IndInv, NEW t \in Threads, todo[t] # <<>>,
           todo' = [todo EXCEPT ![t] = Tail(@)] \/ todo' = [todo EXCEPT ![t] = <<>>],
           Step(t) \notin {Do("tracked"), Do("load"), Do("now"), Do("purge")}
    PROVE  ~At(t, Recording \ {Do("tracked")})'
<1>1. SUFFICES ASSUME todo'[t] # <<>>, Step(t)' \in Recording \ {Do("tracked")} PROVE FALSE
  BY DEF At
<1>2. Len(todo[t]) > 1 /\ todo[t][2] \in Recording \ {Do("tracked")} /\ Step(t) = todo[t][1]
  BY <1>1, AfterStep, StepsOfCall
<1>3. todo[t][1] \in Recording /\ todo[t][1] # Do("prune") /\ (todo[t][1] = Do("put") => todo[t][2] = Drop("frecency"))
  BY <1>2, FitsFirst
<1>4. todo[t][1] = Do("put")
  BY <1>2, <1>3 DEF Recording
<1>5. QED
  BY <1>2, <1>3, <1>4 DEF Recording, Do, Drop

LEMMA RemovalAfter ==
    ASSUME IndInv,
           \/ todo'[Ui] = todo[Ui] /\ (tracker' = tracker \/ tracker' = "none")
           \/ \E c \in CallsOf(Ui) : todo'[Ui] = c
           \/ /\ todo[Ui] # <<>>
              /\ todo' = [todo EXCEPT ![Ui] = Tail(@)] \/ todo' = [todo EXCEPT ![Ui] = <<>>]
              /\ Step(Ui) = Do("take") => tracker' = "none"
              /\ Step(Ui) = Drop("frecency") => tracker' = tracker
    PROVE  Removal'
<1>1. Removal /\ Ui \in Threads
  BY DEF IndInv, RowsInv, Threads
<1>2. CASE todo'[Ui] = todo[Ui] /\ (tracker' = tracker \/ tracker' = "none")
  BY <1>1, <1>2 DEF Removal, At, Step
<1>3. ASSUME NEW c \in CallsOf(Ui), todo'[Ui] = c PROVE Removal'
  <2>1. Head(c) = c[1] /\ c[1][1] \in {"read", "write", "peek", "set"}
    BY <1>1, CallsAreOrderly
  <2>2. ~At(Ui, {Do("remove_dir")})' /\ ~At(Ui, {Drop("frecency")})'
    BY <1>3, <2>1 DEF At, Step, Do, Drop
  <2>3. QED
    BY <2>2 DEF Removal
<1>4. ASSUME todo[Ui] # <<>>,
             todo' = [todo EXCEPT ![Ui] = Tail(@)] \/ todo' = [todo EXCEPT ![Ui] = <<>>],
             Step(Ui) = Do("take") => tracker' = "none",
             Step(Ui) = Drop("frecency") => tracker' = tracker
      PROVE  Removal'
  <2>1. CASE todo'[Ui] = <<>>
    BY <2>1 DEF Removal, At
  <2>2. CASE todo'[Ui] # <<>>
    <3>1. /\ Len(todo[Ui]) > 1 /\ Step(Ui)' = todo[Ui][2] /\ Step(Ui) = todo[Ui][1]
          /\ Len(todo'[Ui]) > 1 => Len(todo[Ui]) > 2 /\ todo'[Ui][2] = todo[Ui][3]
      BY <1>1, <1>4, <2>2, AfterStep, StepsOfCall
    <3>2. ASSUME Step(Ui)' = Do("remove_dir") PROVE tracker' = "none"
      <4>1. Step(Ui) = Drop("frecency") /\ todo[Ui][2] = Do("remove_dir")
        BY <1>1, <1>4, <3>1, <3>2, FitsFirst
      <4>2. tracker = "none"
        BY <1>1, <1>4, <3>1, <4>1 DEF Removal, At
      <4>3. QED
        BY <1>4, <4>1, <4>2
    <3>3. ASSUME Len(todo'[Ui]) > 1, todo'[Ui][2] = Do("remove_dir") PROVE tracker' = "none"
      BY <1>1, <1>4, <3>1, <3>3, FitsFirst
    <3>4. QED
      BY <3>2, <3>3 DEF Removal, At
  <2>3. QED
    BY <2>1, <2>2
<1>5. QED
  BY <1>2, <1>3, <1>4

\* Whoever uses the database shuts out whoever changes the handle.
LEMMA NoWriterBesideRecording ==
    ASSUME IndInv, NEW t \in Threads, NEW u \in Threads, At(t, Recording)
    PROVE  ~At(u, Writing)
<1>1. Held(t) /\ Held(u) /\ Exclusion
  BY DEF IndInv, LocksInv
<1>2. t \in readers["frecency"]
  BY <1>1 DEF Held
<1>3. At(u, Writing) => u \in writer["frecency"]
  BY <1>1 DEF Held
<1>4. QED
  BY <1>1, <1>2, <1>3 DEF Exclusion, Locks

\* A step that leaves the database alone.
LEMMA SameRows ==
    ASSUME IndInv, UNCHANGED <<tracker, row, recent, outdated, copy, stamp, clock>>,
           NEW t \in Threads,
           \/ todo' = todo
           \/ todo[t] = <<>> /\ \E c \in CallsOf(t) : todo' = [todo EXCEPT ![t] = c]
           \/ /\ todo[t] # <<>> /\ Step(t) \notin Recording
              /\ todo' = [todo EXCEPT ![t] = Tail(@)] \/ todo' = [todo EXCEPT ![t] = <<>>]
              /\ Step(t) # Do("take")
    PROVE  RowsInv'
<1>1. RowsInv /\ todo \in [Threads -> Seq(AllSteps)] /\ clock' \in Nat /\ clock <= clock'
  BY DEF IndInv, CallsInv, RowsInv
<1>2. ASSUME NEW u \in Threads, todo'[u] = todo[u] PROVE Copied(u)'
  BY <1>1, <1>2, OthersCopied DEF RowsInv
<1>3. ASSUME ~At(t, Recording \ {Do("tracked")})' PROVE Copied(t)'
  BY <1>1, <1>3, IdleCopied
<1>4. Ui \in Threads
  BY DEF Threads
<1>5. CASE todo' = todo
  <2>1. Removal'
    BY <1>5, RemovalAfter
  <2>2. QED
    BY <1>1, <1>2, <1>5, <2>1 DEF RowsInv
<1>6. ASSUME NEW c \in CallsOf(t), todo[t] = <<>>, todo' = [todo EXCEPT ![t] = c] PROVE RowsInv'
  <2>1. Head(c) = c[1] /\ c[1][1] \in {"read", "write", "peek", "set"}
    BY CallsAreOrderly
  <2>2. ~At(t, Recording \ {Do("tracked")})'
    BY <1>1, <1>6, <2>1 DEF At, Step, Recording, Do
  <2>3. \A u \in Threads : Copied(u)'
    BY <1>1, <1>2, <1>3, <1>6, <2>2
  <2>4. Removal'
    <3>1. CASE t = Ui
      BY <1>1, <1>4, <1>6, <3>1, RemovalAfter
    <3>2. CASE t # Ui
      BY <1>1, <1>4, <1>6, <3>2, RemovalAfter
    <3>3. QED
      BY <3>1, <3>2
  <2>5. QED
    BY <1>1, <2>3, <2>4 DEF RowsInv
<1>7. ASSUME todo[t] # <<>>, Step(t) \notin Recording, Step(t) # Do("take"),
             todo' = [todo EXCEPT ![t] = Tail(@)] \/ todo' = [todo EXCEPT ![t] = <<>>]
      PROVE  RowsInv'
  <2>1. ~At(t, Recording \ {Do("tracked")})'
    BY <1>7, NotRecordingAfter DEF Recording
  <2>2. \A u \in Threads : Copied(u)'
    BY <1>1, <1>2, <1>3, <1>7, <2>1
  <2>3. Removal'
    <3>1. CASE t = Ui
      BY <1>1, <1>4, <1>7, <3>1, RemovalAfter
    <3>2. CASE t # Ui
      BY <1>1, <1>4, <1>7, <3>2, RemovalAfter
    <3>3. QED
      BY <3>1, <3>2
  <2>4. QED
    BY <1>1, <2>2, <2>3 DEF RowsInv
<1>8. QED
  BY <1>5, <1>6, <1>7

\* A step of t on the database, when its own copy is in order afterwards.
LEMMA DoneRows ==
    ASSUME IndInv, NEW t \in Threads, todo[t] # <<>>, Step(t) \notin {Do("take"), Drop("frecency")},
           todo' = [todo EXCEPT ![t] = Tail(@)] \/ todo' = [todo EXCEPT ![t] = <<>>],
           clock' = clock, tracker' = tracker,
           DOMAIN copy' = Threads, DOMAIN stamp' = Threads,
           \A u \in Threads \ {t} : UNCHANGED <<copy[u], stamp[u]>>,
           \A u \in Threads \ {t} :
               At(u, {Do("now"), Do("put"), Do("prune")}) /\ u \notin outdated' => u \notin outdated /\ row' = row,
           Row(row', clock), recent' \in Seq(Nat), Len(recent') <= Cap, Keeps(row', recent', clock),
           Copied(t)'
    PROVE  RowsInv'
<1>1. RowsInv /\ todo \in [Threads -> Seq(AllSteps)] /\ clock' \in Nat /\ clock <= clock' /\ Ui \in Threads
  BY DEF IndInv, CallsInv, RowsInv, Threads
<1>2. ASSUME NEW u \in Threads \ {t} PROVE Copied(u)'
  BY <1>1, OthersCopied
<1>3. Removal'
  <2>1. CASE t = Ui
    BY <1>1, <2>1, RemovalAfter
  <2>2. CASE t # Ui
    BY <1>1, <2>2, RemovalAfter
  <2>3. QED
    BY <2>1, <2>2
<1>4. QED
  BY <1>1, <1>2, <1>3 DEF RowsInv

\* What a thread has at hand when it is at such a step.
LEMMA AtHand ==
    ASSUME IndInv, NEW t \in Threads, NEW e, Does(t, e)
    PROVE  /\ todo[t] # <<>> /\ Step(t) = Do(e) /\ At(t, {Do(e)})
           /\ copy[t] \in Seq(Nat) /\ stamp[t] \in Nat /\ stamp[t] <= clock /\ Row(copy[t], clock)
           /\ e \in {"put", "prune"} => NotAfter(copy[t], stamp[t])
           /\ e \in {"now", "put", "prune"} /\ t \notin outdated => copy[t] = row
           /\ e \in {"load", "now", "put", "purge", "prune"} => tracker = "open"
           /\ clock \in Nat /\ row \in Seq(Nat) /\ Row(row, clock)
           /\ recent \in Seq(Nat) /\ Len(recent) <= Cap /\ Keeps(row, recent, clock)
           /\ DOMAIN copy = Threads /\ DOMAIN stamp = Threads
<1>1. RowsInv /\ Copied(t) /\ At(t, {Do(e)}) /\ todo[t] # <<>> /\ Step(t) = Do(e)
  BY DEF IndInv, RowsInv, Does, At
<1>2. e \in {"load", "now", "put", "purge", "prune"} => At(t, Recording \ {Do("tracked")})
  BY <1>1 DEF At, Recording, Do
<1>3. e \in {"now", "put", "prune"} => At(t, {Do("now"), Do("put"), Do("prune")})
  BY <1>1 DEF At
<1>4. e \in {"put", "prune"} => At(t, {Do("put"), Do("prune")})
  BY <1>1 DEF At
<1>5. QED
  BY <1>1, <1>2, <1>3, <1>4 DEF RowsInv, Copied, Row

LEMMA TodoGoesOn ==
    ASSUME NEW t \in Threads, Continue(t) \/ Return(t)
    PROVE  todo' = [todo EXCEPT ![t] = Tail(@)] \/ todo' = [todo EXCEPT ![t] = <<>>]
BY DEF Continue, Return, Proceed

LEMMA LoadRows ==
    ASSUME IndInv, NEW t \in Threads, Load(t)
    PROVE  RowsInv'
<1>1. PICK e \in {"load", "purge"} : Does(t, e)
  BY DEF Load
<1>2. /\ copy' = [copy EXCEPT ![t] = row] /\ outdated' = outdated \ {t} /\ Continue(t)
      /\ UNCHANGED <<tracker, row, recent, clock>>
      /\ stamp' = IF Does(t, "purge") THEN [stamp EXCEPT ![t] = clock] ELSE stamp
  BY DEF Load
<1>3. /\ todo[t] # <<>> /\ Step(t) = Do(e) /\ tracker = "open" /\ clock \in Nat
      /\ Row(row, clock) /\ row \in Seq(Nat) /\ stamp[t] \in Nat /\ stamp[t] <= clock
      /\ recent \in Seq(Nat) /\ Len(recent) <= Cap /\ Keeps(row, recent, clock)
      /\ DOMAIN copy = Threads /\ DOMAIN stamp = Threads
  BY <1>1, AtHand
<1>4. /\ todo' = [todo EXCEPT ![t] = Tail(@)] \/ todo' = [todo EXCEPT ![t] = <<>>]
  BY <1>2, TodoGoesOn
<1>5. Copied(t)'
  <2>1. At(t, {Do("put"), Do("prune")})' => e = "purge"
    <3>1. SUFFICES ASSUME todo'[t] # <<>>, Step(t)' \in {Do("put"), Do("prune")}, e = "load" PROVE FALSE
      BY <1>1 DEF At
    <3>2. Len(todo[t]) > 1 /\ todo[t][2] \in {Do("put"), Do("prune")} /\ todo[t][1] = Do("load")
      BY <1>3, <1>4, <3>1, AfterStep, StepsOfCall
    <3>3. todo[t][2] = Do("now")
      BY <1>3, <3>2, FitsFirst
    <3>4. QED
      BY <3>2, <3>3 DEF Do
  <2>2. e = "purge" => stamp'[t] = clock
    BY <1>1, <1>2, <1>3
  <2>3. stamp'[t] \in Nat /\ stamp'[t] <= clock /\ copy'[t] = row
    BY <1>2, <1>3
  <2>4. NotAfter(row, clock)
    BY <1>3 DEF Row
  <2>5. QED
    BY <1>2, <1>3, <2>1, <2>2, <2>3, <2>4 DEF Copied
<1>6. Step(t) \notin {Do("take"), Drop("frecency")}
  BY <1>1, <1>3 DEF Do, Drop
<1>7. QED
  BY <1>2, <1>3, <1>4, <1>5, <1>6, DoneRows

LEMMA NowRows ==
    ASSUME IndInv, NEW t \in Threads, Now(t)
    PROVE  RowsInv'
<1>1. /\ Does(t, "now") /\ stamp' = [stamp EXCEPT ![t] = clock] /\ Continue(t)
      /\ UNCHANGED <<tracker, row, recent, outdated, clock, copy>>
  BY DEF Now, database
<1>2. /\ todo[t] # <<>> /\ Step(t) = Do("now") /\ tracker = "open" /\ clock \in Nat
      /\ Row(row, clock) /\ Row(copy[t], clock) /\ copy[t] \in Seq(Nat)
      /\ t \notin outdated => copy[t] = row
      /\ recent \in Seq(Nat) /\ Len(recent) <= Cap /\ Keeps(row, recent, clock)
      /\ DOMAIN copy = Threads /\ DOMAIN stamp = Threads
  BY <1>1, AtHand
<1>3. /\ todo' = [todo EXCEPT ![t] = Tail(@)] \/ todo' = [todo EXCEPT ![t] = <<>>]
  BY <1>1, TodoGoesOn
<1>4. Copied(t)'
  <2>1. stamp'[t] = clock /\ NotAfter(copy[t], clock)
    BY <1>1, <1>2 DEF Row
  <2>2. QED
    BY <1>1, <1>2, <2>1 DEF Copied
<1>5. Step(t) \notin {Do("take"), Drop("frecency")}
  BY <1>2 DEF Do, Drop
<1>6. QED
  BY <1>1, <1>2, <1>3, <1>4, <1>5, DoneRows

\* A thread that has written, or given it up.
LEMMA WrittenRows ==
    ASSUME IndInv, NEW t \in Threads, NEW e \in {"put", "prune"}, Does(t, e), Continue(t),
           UNCHANGED <<tracker, clock>>,
           Discard(t) \/ \E r, known : /\ Store(t, r, known)
                                       /\ Row(r, clock)
                                       /\ t \notin outdated =>
                                            known \in Seq(Nat) /\ Len(known) <= Cap /\ Keeps(r, known, clock)
    PROVE  RowsInv'
<1>1. /\ todo[t] # <<>> /\ Step(t) = Do(e) /\ clock \in Nat
      /\ Row(row, clock)
      /\ recent \in Seq(Nat) /\ Len(recent) <= Cap /\ Keeps(row, recent, clock)
      /\ DOMAIN copy = Threads /\ DOMAIN stamp = Threads
  BY AtHand
<1>2. /\ todo' = [todo EXCEPT ![t] = Tail(@)] \/ todo' = [todo EXCEPT ![t] = <<>>]
  BY TodoGoesOn
<1>3. copy' = [copy EXCEPT ![t] = <<>>] /\ stamp' = [stamp EXCEPT ![t] = 0]
  BY DEF Discard, Store
<1>4. ~At(t, Recording \ {Do("tracked")})'
  <2>1. Step(t) \notin {Do("tracked"), Do("load"), Do("now"), Do("purge")}
    BY <1>1 DEF Do
  <2>2. QED
    BY <1>1, <1>2, <2>1, NotRecordingAfter
<1>5. Copied(t)'
  <2>1. copy'[t] = <<>> /\ stamp'[t] = 0 /\ clock' \in Nat /\ clock <= clock'
    BY <1>1, <1>3
  <2>2. QED
    BY <1>4, <2>1, IdleCopied
<1>6. Step(t) \notin {Do("take"), Drop("frecency")}
  BY <1>1 DEF Do, Drop
<1>7. CASE Discard(t)
  BY <1>1, <1>2, <1>3, <1>5, <1>6, <1>7, DoneRows DEF Discard
<1>8. ASSUME NEW r, NEW known, Store(t, r, known), Row(r, clock),
             t \notin outdated => known \in Seq(Nat) /\ Len(known) <= Cap /\ Keeps(r, known, clock)
      PROVE  RowsInv'
  <2>1. row' = r /\ recent' = IF t \in outdated THEN r ELSE known
    BY <1>8 DEF Store
  <2>2. r \in Seq(Nat) /\ Len(r) <= Cap /\ Keeps(r, r, clock)
    BY <1>1, <1>8, KeepsSelf DEF Row
  <2>3. recent' \in Seq(Nat) /\ Len(recent') <= Cap /\ Keeps(row', recent', clock) /\ Row(row', clock)
    BY <1>8, <2>1, <2>2
  <2>4. \A u \in Threads \ {t} : At(u, {Do("now"), Do("put"), Do("prune")}) => u \in outdated'
    BY <1>8 DEF Store, Does, At
  <2>5. QED
    BY <1>1, <1>2, <1>3, <1>5, <1>6, <2>3, <2>4, DoneRows
<1>9. QED
  BY <1>7, <1>8

LEMMA PutRows ==
    ASSUME IndInv, NEW t \in Threads, Put(t)
    PROVE  RowsInv'
<1>1. Does(t, "put") /\ Continue(t) /\ UNCHANGED <<tracker, clock>>
  BY DEF Put
<1>2. /\ copy[t] \in Seq(Nat) /\ stamp[t] \in Nat /\ stamp[t] <= clock /\ Row(copy[t], clock)
      /\ NotAfter(copy[t], stamp[t]) /\ clock \in Nat
      /\ t \notin outdated => copy[t] = row
      /\ recent \in Seq(Nat) /\ Len(recent) <= Cap /\ Keeps(row, recent, clock)
  BY <1>1, AtHand
<1> DEFINE r == Append(Trim(copy[t], stamp[t]), stamp[t])
           known == Newest(Append(recent, stamp[t]))
<1>3. Row(r, clock)
  BY <1>2, PutRow
<1>4. t \notin outdated => known \in Seq(Nat) /\ Len(known) <= Cap /\ Keeps(r, known, clock)
  BY <1>2, PutKeeps
<1>5. Discard(t) \/ Store(t, r, known)
  BY DEF Put
<1> HIDE DEF r, known
<1>6. QED
  BY <1>1, <1>3, <1>4, <1>5, WrittenRows

LEMMA PruneRows ==
    ASSUME IndInv, NEW t \in Threads, Prune(t)
    PROVE  RowsInv'
<1>1. Does(t, "prune") /\ Continue(t) /\ UNCHANGED <<tracker, clock>>
  BY DEF Prune
<1>2. /\ copy[t] \in Seq(Nat) /\ stamp[t] \in Nat /\ stamp[t] <= clock /\ Row(copy[t], clock)
      /\ clock \in Nat
      /\ t \notin outdated => copy[t] = row
      /\ recent \in Seq(Nat) /\ Len(recent) <= Cap /\ Keeps(row, recent, clock)
  BY <1>1, AtHand
<1> DEFINE r == Fresh(copy[t], stamp[t])
<1>3. r \in Seq(Nat) /\ Keeps(r, copy[t], stamp[t])
  BY <1>2, FreshKeeps
<1>4. Discard(t) \/ Store(t, r, recent)
  BY DEF Prune
<1> HIDE DEF r
<1>5. Row(r, clock)
  BY <1>2, <1>3, RowKept
<1>6. t \notin outdated => Keeps(r, recent, clock)
  BY <1>2, <1>3, KeepsLess
<1>7. QED
  BY <1>1, <1>2, <1>4, <1>5, <1>6, WrittenRows

LEMMA TrackedRows ==
    ASSUME IndInv, NEW t \in Threads, Tracked(t)
    PROVE  RowsInv'
<1>1. /\ Does(t, "tracked") /\ IF tracker = "none" THEN Return(t) ELSE Continue(t)
      /\ UNCHANGED <<tracker, row, recent, outdated, copy, stamp, clock>>
  BY DEF Tracked, database, local
<1>2. /\ todo[t] # <<>> /\ Step(t) = Do("tracked") /\ clock \in Nat
      /\ Row(row, clock) /\ Row(copy[t], clock) /\ copy[t] \in Seq(Nat)
      /\ stamp[t] \in Nat /\ stamp[t] <= clock
      /\ recent \in Seq(Nat) /\ Len(recent) <= Cap /\ Keeps(row, recent, clock)
      /\ DOMAIN copy = Threads /\ DOMAIN stamp = Threads
  BY <1>1, AtHand
<1>3. /\ todo' = [todo EXCEPT ![t] = Tail(@)] \/ todo' = [todo EXCEPT ![t] = <<>>]
  BY <1>1, TodoGoesOn
<1>4. Copied(t)'
  <2>1. todo'[t] # <<>> => Step(t)' \in {Do("load"), Do("purge"), Set("picker")}
    <3>1. SUFFICES ASSUME todo'[t] # <<>> PROVE Step(t)' \in {Do("load"), Do("purge"), Set("picker")}
      OBVIOUS
    <3>2. Len(todo[t]) > 1 /\ Step(t)' = todo[t][2] /\ todo[t][1] = Do("tracked")
      BY <1>2, <1>3, <3>1, AfterStep, StepsOfCall
    <3>3. QED
      BY <1>2, <3>2, FitsFirst
  <2>2. ~At(t, {Do("now"), Do("put"), Do("prune")})' /\ ~At(t, {Do("put"), Do("prune")})'
    BY <2>1 DEF At, Do, Set
  <2>3. todo'[t] # <<>> => tracker = "open"
    <3>1. tracker \in {"none", "open"} /\ todo \in [Threads -> Seq(AllSteps)]
      BY DEF IndInv, RowsInv, CallsInv
    <3>2. Return(t) => todo'[t] = <<>>
      BY <3>1 DEF Return
    <3>3. QED
      BY <1>1, <3>1, <3>2
  <2>4. At(t, Recording \ {Do("tracked")})' => tracker' = "open"
    BY <1>1, <2>3 DEF At
  <2>5. /\ copy'[t] \in Seq(Nat) /\ stamp'[t] \in Nat /\ stamp'[t] <= clock' /\ Row(copy'[t], clock')
    BY <1>1, <1>2
  <2>6. QED
    BY <2>2, <2>4, <2>5 DEF Copied
<1>5. Step(t) \notin {Do("take"), Drop("frecency")}
  BY <1>2 DEF Do, Drop
<1>6. QED
  BY <1>1, <1>2, <1>3, <1>4, <1>5, DoneRows

\* The steps on the handle: nobody is using the database then.
LEMMA HandleRows ==
    ASSUME IndInv, NEW t \in Threads, todo[t] # <<>>, Step(t) \in Writing \cup {Do("remove_dir")},
           Continue(t) \/ Return(t),
           UNCHANGED <<outdated, copy, stamp, clock>>,
           UNCHANGED <<row, recent>> \/ Erase,
           tracker' \in {"none", "open"},
           Step(t) = Do("take") => tracker' = "none",
           Step(t) = Do("remove_dir") /\ tracker = "none" => tracker' = tracker
    PROVE  RowsInv'
<1>1. RowsInv /\ clock \in Nat /\ clock' \in Nat /\ clock <= clock' /\ todo \in [Threads -> Seq(AllSteps)]
  BY DEF IndInv, RowsInv, CallsInv
<1>2. todo' = [todo EXCEPT ![t] = Tail(@)] \/ todo' = [todo EXCEPT ![t] = <<>>]
  BY TodoGoesOn
<1>3. t = Ui
  <2>1. FitsBefore(t, todo[t], 1) /\ Step(t) = todo[t][1]
    BY StepsOfCall DEF IndInv
  <2>2. QED
    BY <2>1 DEF FitsBefore
<1>4. ASSUME NEW u \in Threads PROVE ~At(u, Recording \ {Do("tracked")})
  <2>1. CASE At(t, Writing)
    <3>1. At(u, Recording) => ~At(t, Writing)
      BY NoWriterBesideRecording
    <3>2. QED
      BY <2>1, <3>1 DEF At
  <2>2. CASE At(t, {Do("remove_dir")})
    <3>1. tracker = "none"
      BY <1>1, <1>3, <2>2 DEF RowsInv, Removal
    <3>2. QED
      BY <1>1, <3>1 DEF RowsInv, Copied
  <2>3. QED
    BY <2>1, <2>2 DEF At
<1>5. ~At(t, Recording \ {Do("tracked")})'
  <2>1. Step(t) \notin {Do("tracked"), Do("load"), Do("now"), Do("purge")}
    BY DEF Writing, Do
  <2>2. QED
    BY <1>2, <2>1, NotRecordingAfter
<1>6. Copied(t)'
  BY <1>1, <1>5, IdleCopied
<1>7. ASSUME NEW u \in Threads \ {t} PROVE Copied(u)'
  <2>1. ~At(u, {Do("now"), Do("put"), Do("prune")})
    BY <1>4 DEF At, Recording, Do
  <2>2. UNCHANGED <<todo[u], copy[u], stamp[u]>>
    BY <1>1, <1>2
  <2>3. QED
    BY <1>1, <1>4, <2>1, <2>2, OthersCopied
<1>8. Removal'
  <2>1. Step(t) # Drop("frecency")
    BY DEF Writing, Do, Drop
  <2>2. QED
    BY <1>2, <1>3, <2>1, RemovalAfter
<1>9. Row(row', clock') /\ recent' \in Seq(Nat) /\ Len(recent') <= Cap /\ Keeps(row', recent', clock')
  <2>1. CASE UNCHANGED <<row, recent>>
    BY <1>1, <2>1 DEF RowsInv
  <2>2. CASE Erase
    BY <1>1, <2>2, EmptyRow DEF Erase
  <2>3. QED
    BY <2>1, <2>2
<1>10. DOMAIN copy' = Threads /\ DOMAIN stamp' = Threads
  BY <1>1 DEF RowsInv
<1>11. QED
  BY <1>1, <1>6, <1>7, <1>8, <1>9, <1>10 DEF RowsInv

LEMMA TickRows ==
    ASSUME IndInv, Tick
    PROVE  RowsInv'
<1>1. RowsInv /\ clock \in Nat /\ clock' \in Nat /\ clock <= clock'
  BY DEF IndInv, RowsInv, Tick
<1>2. UNCHANGED <<todo, tracker, row, recent, outdated, copy, stamp>>
  BY DEF Tick, database, local
<1>3. ASSUME NEW u \in Threads PROVE Copied(u)'
  BY <1>1, <1>2, OthersCopied
<1>4. Removal'
  BY <1>2, RemovalAfter
<1>5. Row(row', clock')
  BY <1>1, <1>2, RowLater DEF RowsInv
<1>6. Keeps(row', recent', clock')
  <2>1. row \in Seq(Nat) /\ recent \in Seq(Nat) /\ Keeps(row, recent, clock)
    BY <1>1 DEF RowsInv, Row
  <2>2. Keeps(row, row, clock)
    BY <1>1, <2>1, KeepsSelf
  <2>3. Keeps(row, recent, clock')
    <3>1. SUFFICES ASSUME NEW i \in 1..Len(recent) - Len(row) PROVE recent[i] < clock' - Window
      BY <2>1 DEF Keeps
    <3>2. recent[i] < clock - Window
      BY <2>1 DEF Keeps
    <3>3. Len(recent) \in Nat /\ Len(row) \in Nat
      BY <2>1
    <3>4. recent[i] \in Nat
      BY <2>1, <3>3
    <3>5. QED
      BY <1>1, <3>2, <3>4, StoresAssumption
  <2>4. QED
    BY <1>2, <2>3
<1>7. QED
  BY <1>1, <1>2, <1>3, <1>4, <1>5, <1>6 DEF RowsInv

LEMMA RowsStep ==
    ASSUME IndInv, [Next]_vars
    PROVE  RowsInv'
<1>0. Ui \in Threads
  BY DEF Threads
<1> USE DEF database, local, locks
<1>1. ASSUME NEW t \in Threads, Begin(t) PROVE RowsInv'
  BY <1>1, SameRows DEF Begin
<1>2. ASSUME NEW t \in Threads, Park(t) PROVE RowsInv'
  BY <1>2, SameRows DEF Park
<1>3. ASSUME NEW t \in Threads, NEW l \in Locks,
             AcquireRead(t, l) \/ AcquireWrite(t, l) \/ Section(t, l) \/ Unlock(t, l)
      PROVE  RowsInv'
  <2>1. /\ todo[t] # <<>> /\ Step(t) \in {Read(l), Write(l), Peek(l), Set(l), Drop(l)}
        /\ UNCHANGED <<tracker, row, recent, outdated, copy, stamp, clock>>
    BY <1>3 DEF AcquireRead, AcquireWrite, Section, Unlock
  <2>2. Step(t) \notin Recording /\ Step(t) # Do("take")
    BY <2>1 DEF Read, Write, Peek, Set, Drop, Recording, Do
  <2>3. todo' = [todo EXCEPT ![t] = Tail(@)] \/ todo' = [todo EXCEPT ![t] = <<>>]
    BY <1>3, TodoGoesOn DEF AcquireRead, AcquireWrite, Section, Unlock, Proceed
  <2>4. QED
    BY <2>1, <2>2, <2>3, SameRows
<1>4. ASSUME NEW t \in Threads, Open(t) PROVE RowsInv'
  BY <1>4, HandleRows DEF Open, Does, Writing, Do
<1>5. ASSUME NEW t \in Threads, Take(t) PROVE RowsInv'
  BY <1>5, HandleRows DEF Take, Does, Writing, Do
<1>6. ASSUME NEW t \in Threads, Close(t) PROVE RowsInv'
  BY <1>6, HandleRows DEF Close, Does, Writing, Do
<1>7. ASSUME NEW t \in Threads, RemoveDir(t) PROVE RowsInv'
  <2>1. todo[t] # <<>> /\ Step(t) = Do("remove_dir") /\ Step(t) # Do("take")
    BY <1>7 DEF RemoveDir, Does, Do
  <2>2. tracker = "none"
    <3>1. FitsBefore(t, todo[t], 1) /\ Step(t) = todo[t][1]
      BY <2>1, StepsOfCall DEF IndInv
    <3>2. t = Ui
      BY <2>1, <3>1 DEF FitsBefore
    <3>3. QED
      BY <2>1, <3>2 DEF IndInv, RowsInv, Removal, At
  <2>3. QED
    BY <1>7, <2>1, <2>2, HandleRows DEF RemoveDir
<1>8. CASE Tick
  BY <1>8, TickRows
<1>9. CASE Grow
  BY <1>0, <1>9, SameRows DEF Grow
<1>10. CASE UNCHANGED vars
  BY <1>0, <1>10, SameRows DEF vars
<1>11. QED
  BY <1>1, <1>2, <1>3, <1>4, <1>5, <1>6, <1>7, <1>8, <1>9, <1>10,
     TrackedRows, LoadRows, NowRows, PutRows, PruneRows
  DEF Next, Advance
-----------------------------------------------------------------------------
\* A sequence that is the other, counted from the end, is its suffix.
LEMMA SuffixFromEnd ==
    ASSUME NEW S, NEW s \in Seq(S), NEW r \in Seq(S), Len(s) <= Len(r),
           \A i \in 1..Len(s) : s[i] = r[i + Len(r) - Len(s)]
    PROVE  IsSuffix(s, r)
<1> DEFINE p == Reverse(s)
           q == Reverse(r)
<1>1. p \in Seq(S) /\ Len(p) = Len(s) /\ \A i \in 1..Len(s) : p[i] = s[Len(s)-i+1]
  BY DEF Reverse
<1>2. q \in Seq(S) /\ Len(q) = Len(r) /\ \A i \in 1..Len(r) : q[i] = r[Len(r)-i+1]
  BY DEF Reverse
<1> HIDE DEF p, q
<1>3. SubSeq(p, 1, Len(p)) \in Seq(S) /\ SubSeq(q, 1, Len(p)) \in Seq(S)
  BY <1>1, <1>2, SubSeqProperties
<1>4. Len(SubSeq(p, 1, Len(p))) = Len(p) /\ Len(SubSeq(q, 1, Len(p))) = Len(p)
  BY <1>1, <1>2, SubSeqProperties
<1>5. \A i \in 1..Len(p) : SubSeq(p, 1, Len(p))[i] = p[i] /\ SubSeq(q, 1, Len(p))[i] = q[i]
  BY <1>1, <1>2, SubSeqProperties
<1>6. ASSUME NEW i \in 1..Len(p) PROVE p[i] = q[i]
  <2>1. Len(s) - i + 1 \in 1..Len(s) /\ i \in 1..Len(r)
    BY <1>1
  <2>2. q[i] = r[(Len(s) - i + 1) + Len(r) - Len(s)]
    BY <1>2, <2>1, <1>1
  <2>3. QED
    BY <1>1, <2>1, <2>2
<1>7. SubSeq(p, 1, Len(p)) = SubSeq(q, 1, Len(p))
  BY <1>3, <1>4, <1>5, <1>6, SeqEqual
<1>8. QED
  BY <1>7, <1>1, <1>2 DEF IsSuffix, IsPrefix, p, q

\* What is fresh of all that was put is still in what is kept of it.
LEMMA FreshIsKept ==
    ASSUME NEW s \in Seq(Nat), NEW r \in Seq(Nat), NEW now \in Nat, Keeps(s, r, now)
    PROVE  IsSuffix(Fresh(r, now), s)
<1> USE StoresAssumption
<1> DEFINE f == Fresh(r, now)
           a == Len(f)
           b == Len(s)
           c == Len(r)
<1>1. f \in Seq(Nat) /\ Keeps(f, r, now) /\ (a >= 1 => f[1] >= now - Window)
  BY FreshKeeps
<1> HIDE DEF f
<1>2. a \in Nat /\ b \in Nat /\ c \in Nat /\ a <= c /\ b <= c
  BY <1>1 DEF Keeps
<1>3. \A i \in 1..a : f[i] = r[i + c - a]
  BY <1>1 DEF Keeps
<1>4. /\ \A i \in 1..b : s[i] = r[i + c - b]
      /\ \A i \in 1..c - b : r[i] < now - Window
  BY DEF Keeps
<1>5. a >= 1 => f[1] \in Nat
  BY <1>1
<1> HIDE DEF a, b, c
<1>6. a <= b
  <2>1. SUFFICES ASSUME a > b PROVE FALSE
    BY <1>2
  <2>2. 1 \in 1..a /\ 1 + c - a \in 1..c - b /\ a >= 1
    BY <1>2, <2>1
  <2>3. f[1] = r[1 + c - a] /\ r[1 + c - a] < now - Window
    BY <1>3, <1>4, <2>2
  <2>4. QED
    BY <1>1, <1>5, <2>2, <2>3
<1>7. ASSUME NEW i \in 1..a PROVE f[i] = s[i + b - a]
  <2>1. i + b - a \in 1..b /\ (i + b - a) + c - b = i + c - a
    BY <1>2, <1>6
  <2>2. QED
    BY <1>3, <1>4, <2>1
<1>8. QED
  BY <1>1, <1>6, <1>7, SuffixFromEnd DEF a, b, f

LEMMA RowsAreKept ==
    ASSUME IndInv
    PROVE  AccessesAreKept
<1>1. /\ row \in Seq(Nat) /\ Ordered(row) /\ clock \in Nat /\ tracker \in {"none", "open"}
      /\ recent \in Seq(Nat) /\ Keeps(row, recent, clock)
  BY DEF IndInv, RowsInv, Row
<1>2. \A i \in 1..Len(row) - 1 : row[i] <= row[i + 1]
  BY <1>1 DEF Ordered
<1>3. IsSuffix(row, recent)
  BY <1>1, SuffixFromEnd DEF Keeps
<1>4. IsSuffix(Fresh(recent, clock), row)
  BY <1>1, FreshIsKept
<1>5. QED
  BY <1>1, <1>2, <1>3, <1>4 DEF AccessesAreKept

LEMMA Initially ==
    ASSUME Init
    PROVE  IndInv
<1>1. CallsInv
  BY DEF Init, CallsInv, Orderly
<1>2. ASSUME NEW S, NEW t \in Threads PROVE ~At(t, S)
  BY DEF Init, At
<1>3. LocksInv
  BY <1>2 DEF Init, LocksInv, Exclusion, Held, Locks
<1>4. RowsInv
  <2>1. Ui \in Threads /\ 0 \in Nat
    BY DEF Threads
  <2>2. Row(<<>>, 0) /\ Keeps(<<>>, <<>>, 0) /\ <<>> \in Seq(Nat) /\ Len(<<>>) <= Cap
    BY EmptyRow
  <2>3. \A t \in Threads : Copied(t)
    BY <1>2, <2>1, <2>2 DEF Init, Copied
  <2>4. QED
    BY <1>2, <2>1, <2>2, <2>3 DEF Init, RowsInv, Removal
<1>5. QED
  BY <1>1, <1>3, <1>4 DEF IndInv

(***************************************************************************)
(* The three parts hold together: what a thread may do is what its call    *)
(* has left, what it holds follows from that, and the database is touched  *)
(* only by who holds the handle.                                           *)
(***************************************************************************)
THEOREM StoresInvariant == Spec => []IndInv
<1>1. Init => IndInv
  BY Initially
<1>2. IndInv /\ [Next]_vars => IndInv'
  BY CallsStep, LocksStep, RowsStep DEF IndInv
<1>3. QED
  BY <1>1, <1>2, PTL DEF Spec

(***************************************************************************)
(* No threads wait for each other in a circle (shared.rs with the entry    *)
(* points of the plugin, the C interface, the watcher and the scan),       *)
(* however many threads there are.                                         *)
(***************************************************************************)
THEOREM NobodyWaitsInACircle == Spec => []NoCircularWait
BY StoresInvariant, NobodyInACircle, PTL

(***************************************************************************)
(* The row is sorted, holds the newest of what was put and all of it that  *)
(* is in the window, and no tracker outlives its directory                 *)
(* (dbs/frecency.rs), for any cap, window and number of threads.           *)
(***************************************************************************)
THEOREM AccessesStayKept == Spec => []AccessesAreKept
BY StoresInvariant, RowsAreKept, PTL
=============================================================================

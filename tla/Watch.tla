------------------------------- MODULE Watch --------------------------------
(***************************************************************************)
(* The watches of directories on Linux (background_watcher.rs, scan.rs):   *)
(* inotify has no recursion, so every directory is registered by itself,   *)
(* the first ones after the initial scan from the table of directories,    *)
(* later ones by the owner thread that takes them off a channel, watches   *)
(* them and lists the files in them.  Batches of events put new            *)
(* directories on the channel, and a rescan puts all it has found there.   *)
(*                                                                         *)
(* Between these steps the disk changes.  FileIndex models what the picker *)
(* does with a file; here a file is known to it or not.  Files and         *)
(* directories come and go one by one here, a directory empty: those that  *)
(* are moved with what is in them are in FileIndex.                        *)
(***************************************************************************)
EXTENDS Integers, Sequences, FiniteSets, SequencesExt

CONSTANTS
    Dirs, Root,         \* directories; Root is not one of them
    Files,
    Parent,             \* of a directory or a file
    NoDir,
    MaxOps,             \* BOUND: changes of the disk
    MaxRescans          \* BOUND: rescans asked for by the user or by an overflow

Nodes == Dirs \cup {Root}

ASSUME WatchAssumption ==
    /\ IsFiniteSet(Dirs \cup Files) /\ Root \notin Dirs /\ NoDir \notin Nodes
    /\ Files \cap Nodes = {}
    /\ Parent \in [Dirs \cup Files -> Nodes]
    /\ MaxOps \in Nat /\ MaxRescans \in Nat

VARIABLES
    disk,               \* files and directories there are, Root aside
    ops, rescans,       \* how often the disk has changed, how many rescans were asked for
    watched,            \* directories with an inotify watch
    events,             \* events not delivered yet, oldest first
    known,              \* files of the picker
    scan, walked,       \* step of the scan, the files its walk has found
    asked,              \* rescan_pending
    install,            \* directories create_debouncer has still to watch
    batch,              \* what a batch of events has been sorted into, or its step
    channel,            \* directories on their way to the owner
    owner, dir, listed, \* the owner: its step, its directory, the files it has read
    stopped,            \* BackgroundWatcher::stop was called
    debouncing,         \* the thread of the debouncer runs
    held,               \* GHOST: the owner's directory has been there since it was taken
    missed              \* GHOST: files the picker may have missed, see FilesAreSeen

fs == <<disk, ops>>
picker == <<known, missed>>
scanner == <<scan, walked, asked, install, rescans>>
owning == <<owner, dir, listed, held>>
running == <<stopped, debouncing>>
vars == <<fs, watched, events, picker, scanner, batch, channel, owning, running>>

Paths == Dirs \cup Files
Kinds == {"change", "remove"}
NoBatch == [step |-> "idle", remove |-> {}, add |-> {}, dirs |-> <<>>]

TypeOK ==
    /\ disk \subseteq Paths /\ \A p \in disk : Parent[p] \in disk \cup {Root}
    /\ ops \in 0..MaxOps /\ rescans \in 0..MaxRescans
    /\ watched \subseteq Nodes /\ watched \subseteq disk \cup {Root}
    /\ \A i \in DOMAIN events :
        events[i] \in [kind : Kinds, path : Paths] \cup [kind : {"rescan"}, path : {Root}]
    /\ known \subseteq Files /\ walked \subseteq Files /\ missed \subseteq Files \cap disk
    /\ scan \in {"idle", "walk", "commit", "install", "resubscribe"} /\ asked \in BOOLEAN
    /\ install \subseteq Nodes /\ (install # {} => scan = "install")
    /\ batch.step \in {"idle", "apply", "send"}
    /\ batch.remove \subseteq Paths /\ batch.add \subseteq Files
    /\ Range(batch.dirs) \cup Range(channel) \subseteq Nodes
    /\ owner \in {"recv", "list", "add", "gone"}
    /\ dir \in Nodes \cup {NoDir} /\ (dir = NoDir <=> owner \in {"recv", "gone"})
    /\ listed \subseteq Files /\ held \in BOOLEAN
    /\ {stopped, debouncing} \subseteq BOOLEAN /\ (debouncing \/ stopped)
-----------------------------------------------------------------------------
FilesIn(d) == {f \in Files : Parent[f] = d}

\* A path and the directories above it: the least set that has it and the parents of its members.
Above ==
    [p \in Paths |->
        {a \in Paths : \A S \in SUBSET Paths : p \in S /\ (\A q \in S : Parent[q] \in S \cup {Root}) => a \in S}]

\* for_each_dir: the directories of a set of files and those above them.
DirsOf(fs0) == (UNION {Above[f] : f \in fs0}) \ Files

Events(kind, p) == IF Parent[p] \in watched THEN <<[kind |-> kind, path |-> p]>> ELSE <<>>

\* A walk that has not begun will see whatever is there by then.
WalkAhead == scan = "walk" \/ asked \/ \E i \in DOMAIN events : events[i].kind = "rescan"

\* The directory is on its way to the owner, who lists it.
Coming(d) ==
    \/ \E i \in DOMAIN events : events[i] = [kind |-> "change", path |-> d]
    \/ d \in Range(batch.dirs) \cup Range(channel)
    \/ d = dir /\ held
    \/ d \in DirsOf(walked) /\ (scan = "resubscribe" \/ (scan = "commit" /\ Root \in watched))

Told(d) == d \in watched \/ Coming(d) \/ WalkAhead
Untold(p) == p \in Files /\ ~Told(Parent[p])
-----------------------------------------------------------------------------
(***************************************************************************)
(* The disk.  A change of an entry is an event when its directory is       *)
(* watched; the kernel forgets the watch of a directory that goes.         *)
(***************************************************************************)
Operate == ~stopped /\ ops < MaxOps /\ ops' = ops + 1
Elsewhere == UNCHANGED <<scanner, batch, channel, owner, dir, listed, running>>

Create(p) ==
    /\ Operate
    /\ p \in Paths \ disk /\ Parent[p] \in disk \cup {Root}
    /\ disk' = disk \cup {p}
    /\ events' = events \o Events("change", p)
    /\ missed' = IF Untold(p) THEN missed \cup {p} ELSE missed
    /\ UNCHANGED <<watched, known, held>> /\ Elsewhere

Delete(p) ==
    /\ Operate
    /\ p \in disk /\ \A q \in disk : Parent[q] # p
    /\ disk' = disk \ {p}
    /\ events' = events \o Events("remove", p)
    /\ watched' = watched \ {p}
    /\ missed' = missed \ {p}
    /\ held' = (held /\ p # dir)
    /\ UNCHANGED known /\ Elsewhere

\* The kernel drops what it has not delivered and flags that there was more.
Overflow ==
    /\ events # <<>> /\ rescans < MaxRescans /\ ~stopped
    /\ events' = <<[kind |-> "rescan", path |-> Root]>>
    /\ rescans' = rescans + 1
    /\ UNCHANGED <<fs, watched, picker, scan, walked, asked, install, batch, channel, owning, running>>
-----------------------------------------------------------------------------
(***************************************************************************)
(* The scan.                                                               *)
(***************************************************************************)
Trigger == IF scan = "idle" THEN scan' = "walk" /\ UNCHANGED asked
                            ELSE asked' = TRUE /\ UNCHANGED scan

Rescan ==
    /\ rescans < MaxRescans
    /\ rescans' = rescans + 1
    /\ Trigger
    /\ UNCHANGED <<fs, watched, events, picker, walked, install, batch, channel, owning, running>>

Walk ==
    /\ scan = "walk"
    /\ walked' = disk \cap Files
    /\ scan' = "commit"
    /\ UNCHANGED <<fs, watched, events, picker, asked, install, rescans, batch, channel, owning, running>>

\* Files added since the walk go with the old table, unless their directory is
\* one of the new table's, which are listed again.
Dropped == {f \in (known \ walked) \cap disk : Parent[f] \notin DirsOf(walked)}

Commit ==
    /\ scan = "commit"
    /\ known' = walked
    /\ missed' = (missed \ walked) \cup Dropped
    /\ IF Root \notin watched /\ ~stopped
       THEN scan' = "install" /\ install' = DirsOf(walked) \cup {Root}
       ELSE scan' = "resubscribe" /\ UNCHANGED install
    /\ UNCHANGED <<fs, watched, events, walked, asked, rescans, batch, channel, owning, running>>

\* create_debouncer; watching a directory that is gone fails.
Install(d) ==
    /\ scan = "install" /\ d \in install
    /\ d = Root \/ Root \notin install
    /\ install' = install \ {d}
    /\ watched' = IF d \in disk \cup {Root} THEN watched \cup {d} ELSE watched
    /\ UNCHANGED <<fs, events, picker, scan, walked, asked, rescans, batch, channel, owning, running>>

\* rescubscribe_watcher_post_scan, for every directory of the new table.
ResubscribeNone == <<>>
Resubscribed == SetToSeq(DirsOf(walked))

EndScan ==
    /\ scan \in {"install", "resubscribe"} /\ install = {}
    /\ channel' = IF scan = "resubscribe" /\ ~stopped THEN channel \o Resubscribed ELSE channel
    /\ scan' = IF asked THEN "walk" ELSE "idle"
    /\ asked' = FALSE
    /\ UNCHANGED <<fs, watched, events, picker, walked, install, rescans, batch, owning, running>>
-----------------------------------------------------------------------------
(***************************************************************************)
(* handle_debounced_events: the paths of a batch are sorted by what is on  *)
(* the disk now, the picker is changed under its lock, and the new         *)
(* directories go to the owner.  A batch that asks for a rescan does       *)
(* nothing else.  A directory that changed and is gone is taken for a file *)
(* and takes nothing along: the removal that follows does.                 *)
(***************************************************************************)
Sorted(es) ==
    LET paths(k) == {es[i].path : i \in {j \in DOMAIN es : es[j].kind = k}}
        changed == paths("change")
    IN  [step |-> "apply",
         remove |-> paths("remove") \cup ((changed \cap Files) \ disk),
         add |-> changed \cap disk \cap Files,
         dirs |-> SetToSeq(changed \cap disk \cap Dirs)]

Sort(n) ==
    /\ debouncing /\ ~stopped /\ batch.step = "idle" /\ n \in DOMAIN events
    /\ LET es == SubSeq(events, 1, n) IN
        IF \E i \in DOMAIN es : es[i].kind = "rescan"
        THEN Trigger /\ UNCHANGED batch
        ELSE batch' = Sorted(es) /\ UNCHANGED <<scan, asked>>
    /\ events' = SubSeq(events, n + 1, Len(events))
    /\ UNCHANGED <<fs, watched, picker, walked, install, rescans, channel, owning, running>>

\* A removed directory takes its files along, also those a new one of its name has by now.
Removed == {f \in known : Above[f] \cap batch.remove # {}}
Swept == {f \in (Removed \ batch.add) \cap disk : ~WalkAhead /\ ~Coming(f) /\ ~Coming(Parent[f])}

Apply ==
    /\ batch.step = "apply" /\ scan # "install"
    /\ known' = (known \ Removed) \cup batch.add
    /\ missed' = (missed \ batch.add) \cup Swept
    /\ batch' = [batch EXCEPT !.step = "send", !.remove = {}, !.add = {}]
    /\ UNCHANGED <<fs, watched, events, scanner, channel, owning, running>>

Send ==
    /\ batch.step = "send"
    /\ channel' = IF owner = "gone" THEN channel ELSE channel \o batch.dirs
    /\ batch' = NoBatch
    /\ UNCHANGED <<fs, watched, events, picker, scanner, owning, running>>
-----------------------------------------------------------------------------
(***************************************************************************)
(* The owner.                                                              *)
(***************************************************************************)
NoSenderKept == FALSE
NoSender == stopped /\ ~debouncing

\* The channel is empty and nobody can send, or the debouncer is gone.
OwnerExits ==
    /\ owner = "recv" /\ IF channel = <<>> THEN NoSender ELSE stopped
    /\ owner' = "gone"
    /\ channel' = <<>>
    /\ UNCHANGED <<fs, watched, events, picker, scanner, batch, dir, listed, held, running>>

WatchDirBlind(d) == watched' = watched \cup {d} /\ UNCHANGED listed
WatchDir(d) ==
    /\ watched' = IF d \in disk THEN watched \cup {d} ELSE watched
    /\ UNCHANGED listed

\* The files in the directory, not those below.
ListDir(d) == listed' = FilesIn(d) \cap disk /\ UNCHANGED watched

TakeDirSwapped(d, n) == IF n = 1 THEN ListDir(d) ELSE WatchDir(d)
TakeDir(d, n) == IF n = 1 THEN WatchDir(d) ELSE ListDir(d)

Receive ==
    /\ owner = "recv" /\ channel # <<>> /\ ~stopped
    /\ dir' = Head(channel) /\ channel' = Tail(channel)
    /\ TakeDir(Head(channel), 1) /\ held' = (Head(channel) \in disk)
    /\ owner' = "list"
    /\ UNCHANGED <<fs, events, picker, scanner, batch, running>>

List ==
    /\ owner = "list"
    /\ TakeDir(dir, 2)
    /\ owner' = "add"
    /\ UNCHANGED <<fs, events, picker, scanner, batch, channel, dir, held, running>>

Add ==
    /\ owner = "add" /\ scan # "install"
    /\ known' = known \cup listed
    /\ missed' = missed \ listed
    /\ owner' = "recv" /\ dir' = NoDir /\ listed' = {} /\ held' = FALSE
    /\ UNCHANGED <<fs, watched, events, scanner, batch, channel, running>>

(***************************************************************************)
(* stop drops the picker's sender and signals the debouncer, whose thread  *)
(* ends after the batch it is in and drops the other sender.               *)
(***************************************************************************)
Stop ==
    /\ ~stopped /\ Root \in watched /\ scan # "install"
    /\ stopped' = TRUE
    /\ watched' = {} /\ events' = <<>>
    /\ UNCHANGED <<fs, picker, scanner, batch, channel, owning, debouncing>>

DebouncerExits ==
    /\ stopped /\ debouncing /\ batch.step = "idle"
    /\ debouncing' = FALSE
    /\ UNCHANGED <<fs, watched, events, picker, scanner, batch, channel, owning, stopped>>
-----------------------------------------------------------------------------
Init ==
    /\ disk \in SUBSET Paths /\ \A p \in disk : Parent[p] \in disk \cup {Root}
    /\ ops = 0 /\ rescans = 0
    /\ watched = {} /\ events = <<>>
    /\ known = {} /\ missed = {}
    /\ scan = "walk" /\ walked = {} /\ asked = FALSE /\ install = {}
    /\ batch = NoBatch /\ channel = <<>>
    /\ owner = "recv" /\ dir = NoDir /\ listed = {} /\ held = FALSE
    /\ stopped = FALSE /\ debouncing = TRUE

Scan == Walk \/ Commit \/ (\E d \in Nodes : Install(d)) \/ EndScan
Handler == (\E n \in 1..MaxOps : Sort(n)) \/ Apply \/ Send \/ DebouncerExits
Owner == Receive \/ List \/ Add \/ OwnerExits

Next ==
    \/ \E p \in Paths : Create(p) \/ Delete(p)
    \/ Overflow \/ Rescan \/ Stop
    \/ Scan \/ Handler \/ Owner

Spec == Init /\ [][Next]_vars /\ WF_vars(Scan) /\ WF_vars(Handler) /\ WF_vars(Owner)
-----------------------------------------------------------------------------
Quiet ==
    /\ scan = "idle" /\ events = <<>> /\ batch = NoBatch
    /\ channel = <<>> /\ owner = "recv" /\ ~stopped

(***************************************************************************)
(* When nothing is left to do, a file that is there is known, but for      *)
(* three ways in which the code misses one, and no others:                 *)
(*   Untold   when it was created its directory was neither watched nor on *)
(*            its way to the owner, and no walk was ahead: a directory     *)
(*            that had no indexed file at the scan, or that came in a new  *)
(*            one before the watch of that was there;                      *)
(*   Dropped  it was added after the walk had read, to the table that the  *)
(*            scan then replaced, and no file of its directory was found   *)
(*            by the walk;                                                 *)
(*   Swept    its directory had been removed and made again, and the       *)
(*            removal was applied when the new file was known already.     *)
(***************************************************************************)
FilesAreSeen == Quiet => disk \cap Files \subseteq known \cup missed

(***************************************************************************)
(* After stop the owner's thread ends, although stop does not wait for it. *)
(***************************************************************************)
StopEndsOwner == stopped ~> owner = "gone"
=============================================================================

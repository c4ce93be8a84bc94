--------------------------- MODULE RateTableStore ---------------------------
(***************************************************************************)
(* RateTableStore (pricing.go) in several processes that keep their        *)
(* snapshots in the same directory.  In a process s.mu admits one Ensure   *)
(* at a time; between processes nothing does, and all of them write their  *)
(* snapshot through the same temporary file.  A process may crash between  *)
(* any two steps and start again with an empty memory.                     *)
(*                                                                         *)
(* A rate table is identified by the time it was fetched at.  The file     *)
(* system is external: names refer to inodes, and a process that has a     *)
(* file open keeps writing to its inode after a rename.                    *)
(***************************************************************************)
EXTENDS Naturals, FiniteSets

CONSTANTS
  Stores,    \* the processes
  RatesTTL,  \* in ticks of the clock
  MaxTime    \* bound: the clock stops here

ASSUME RatesAssumption == RatesTTL \in Nat \ {0} /\ MaxTime \in Nat \ {0} /\ IsFiniteSet(Stores)

VARIABLES
  clock,     \* s.now()
  table,     \* s.table by its fetchedAt; 0 while s.resolved is false
  pc,        \* Ensure: program counter, "idle" while nobody is in it
  now,       \* Ensure: now
  stale,     \* Ensure: stale, 0 unless staleOK
  ret,       \* the status Ensure returned last
  content,   \* what is in each inode
  snap,      \* the inode of the snapshot file; 0 if there is none
  tmp,       \* the inode of the temporary file; 0 if there is none
  fd,        \* the inode each process is writing to; 0 if none
  fetches,   \* history: the times of the tables that were fetched
  saved,     \* history: a snapshot has been complete and in place
  known,     \* history: it had been when this Ensure was called
  overlap    \* history: two processes were saving a table at the same time

memVars   == <<table, pc, now, stale, ret, known>>
fileVars  == <<content, snap, tmp, fd>>
vars == <<clock, memVars, fileVars, fetches, saved, overlap>>

\* An inode is empty, holds a damaged snapshot, or the snapshot of a table.
Empty    == [state |-> "empty", at |-> 0]
Torn     == [state |-> "torn", at |-> 0]
Whole(t) == [state |-> "whole", at |-> t]

Times == 1..MaxTime

\* Enough for both names and for a file that each process has open.
Inodes == 1..(2 + Cardinality(Stores))

Contents == {Empty, Torn} \cup {Whole(t) : t \in Times}

TypeOK ==
  /\ clock \in Times
  /\ table \in [Stores -> 0..MaxTime]
  /\ pc \in [Stores -> {"idle", "load", "fetch", "open", "write", "rename"}]
  /\ now \in [Stores -> 0..MaxTime]
  /\ stale \in [Stores -> 0..MaxTime]
  /\ ret \in [Stores -> {"none", "fresh", "cached", "unavailable"}]
  /\ content \in [Inodes -> Contents]
  /\ snap \in Inodes \cup {0}
  /\ tmp \in Inodes \cup {0}
  /\ fd \in [Stores -> Inodes \cup {0}]
  /\ fetches \subseteq Times
  /\ saved \in BOOLEAN
  /\ known \in [Stores -> BOOLEAN]
  /\ overlap \in BOOLEAN

\* The first process finds no snapshot: later ones find what it left behind.
Init ==
  /\ clock = 1
  /\ table = [p \in Stores |-> 0]
  /\ pc = [p \in Stores |-> "idle"]
  /\ now = [p \in Stores |-> 0]
  /\ stale = [p \in Stores |-> 0]
  /\ ret = [p \in Stores |-> "none"]
  /\ content = [i \in Inodes |-> Empty]
  /\ snap = 0
  /\ tmp = 0
  /\ fd = [p \in Stores |-> 0]
  /\ fetches = {}
  /\ saved = FALSE
  /\ known = [p \in Stores |-> FALSE]
  /\ overlap = FALSE

-----------------------------------------------------------------------------
(***************************************************************************)
(* Ensure, up to the point where it has a table                            *)
(***************************************************************************)

\* now.Sub(fetchedAt) < RatesTTL
fresh(p, at) == now'[p] < at + RatesTTL

apply(p, at) == table' = [table EXCEPT ![p] = at]

\* Ensure returns and releases s.mu.
return(p, status) ==
  /\ ret' = [ret EXCEPT ![p] = status]
  /\ pc' = [pc EXCEPT ![p] = "idle"]
  /\ stale' = [stale EXCEPT ![p] = 0]

goto(p, label) ==
  /\ pc' = [pc EXCEPT ![p] = label]
  /\ UNCHANGED ret

\* s.mu is taken, the clock read and the table in memory looked at.
EnsureCall(p) ==
  /\ pc[p] = "idle"
  /\ now' = [now EXCEPT ![p] = clock]
  /\ known' = [known EXCEPT ![p] = saved]
  /\ \/ /\ table[p] # 0 /\ fresh(p, table[p])
        /\ return(p, "fresh")
     \/ /\ ~(table[p] # 0 /\ fresh(p, table[p]))
        /\ goto(p, "load")
        /\ UNCHANGED stale
  /\ UNCHANGED <<clock, table, fileVars, fetches, saved, overlap>>

\* A bug: damaged contents pass for a table, dated by the time of the read.
loadSnapshotUnchecked ==
  {IF snap = 0 THEN 0 ELSE IF content[snap].state = "torn" THEN clock ELSE content[snap].at}

(***************************************************************************)
(* What loadSnapshot may return: the table of a whole snapshot, else 0.    *)
(* While another process still writes to the file, what is read may be a   *)
(* mixture, which json.Unmarshal and the tests after it refuse.            *)
(***************************************************************************)
loadSnapshot ==
  (IF snap # 0 /\ content[snap].state = "whole" THEN {content[snap].at} ELSE {0})
    \cup (IF snap # 0 /\ \E q \in Stores : fd[q] = snap THEN {0} ELSE {})

\* A bug: a stale snapshot is taken without asking the network first.
LoadAny(p) ==
  /\ pc[p] = "load"
  /\ \E at \in loadSnapshot :
       \/ /\ at # 0
          /\ apply(p, at)
          /\ return(p, "fresh")
       \/ /\ at = 0
          /\ goto(p, "fetch")
          /\ UNCHANGED <<table, stale>>
  /\ UNCHANGED <<clock, now, known, fileVars, fetches, saved, overlap>>

Load(p) ==
  /\ pc[p] = "load"
  /\ UNCHANGED now
  /\ \E at \in loadSnapshot :
       \/ /\ at # 0 /\ fresh(p, at)
          /\ apply(p, at)
          /\ return(p, "fresh")
       \/ /\ ~(at # 0 /\ fresh(p, at))
          /\ stale' = [stale EXCEPT ![p] = at]
          /\ goto(p, "fetch")
          /\ UNCHANGED table
  /\ UNCHANGED <<clock, known, fileVars, fetches, saved, overlap>>

Saving == {"open", "write", "rename"}

\* A bug: the table is dated by the time it expires.
FetchOkExpiry(p) ==
  /\ pc[p] = "fetch"
  /\ apply(p, clock + RatesTTL)
  /\ fetches' = fetches \cup {clock}
  /\ goto(p, "open")
  /\ stale' = [stale EXCEPT ![p] = 0]
  /\ UNCHANGED <<clock, now, known, fileVars, saved, overlap>>

\* The catalog arrives, and is dated by the clock of now.
FetchOk(p) ==
  /\ pc[p] = "fetch"
  /\ apply(p, clock)
  /\ fetches' = fetches \cup {clock}
  /\ goto(p, "open")
  /\ stale' = [stale EXCEPT ![p] = 0]
  /\ overlap' = (overlap \/ \E q \in Stores \ {p} : pc[q] \in Saving)
  /\ UNCHANGED <<clock, now, known, fileVars, saved>>

\* The stale snapshot comes before the table in memory, even an older one.
FetchFails(p) ==
  /\ pc[p] = "fetch"
  /\ \/ /\ stale[p] # 0
        /\ apply(p, stale[p])
        /\ return(p, "cached")
     \/ /\ stale[p] = 0
        /\ return(p, IF table[p] # 0 THEN "cached" ELSE "unavailable")
        /\ UNCHANGED table
  /\ UNCHANGED <<clock, now, known, fileVars, fetches, saved, overlap>>

-----------------------------------------------------------------------------
(***************************************************************************)
(* writeSnapshot                                                           *)
(***************************************************************************)

\* The directory cannot be made or the file not opened, or dir is empty.
OpenFails(p) ==
  /\ pc[p] = "open"
  /\ return(p, "fresh")
  /\ UNCHANGED <<clock, table, now, known, fileVars, fetches, saved, overlap>>

FreeInodes == Inodes \ ({snap, tmp} \cup {fd[q] : q \in Stores})

\* A bug: the snapshot itself is opened and written.
OpenInPlace(p) ==
  /\ pc[p] = "open"
  /\ LET i == IF snap # 0 THEN snap ELSE CHOOSE j \in FreeInodes : TRUE
     IN /\ snap' = i
        /\ fd' = [fd EXCEPT ![p] = i]
        /\ content' = [content EXCEPT ![i] = Empty]
  /\ goto(p, "write")
  /\ UNCHANGED <<clock, table, now, stale, known, tmp, fetches, saved, overlap>>

\* os.WriteFile opens the temporary file: it is created, or truncated.
Open(p) ==
  /\ pc[p] = "open"
  /\ LET i == IF tmp # 0 THEN tmp ELSE CHOOSE j \in FreeInodes : TRUE
     IN /\ tmp' = i
        /\ fd' = [fd EXCEPT ![p] = i]
        /\ content' = [content EXCEPT ![i] = Empty]
  /\ goto(p, "write")
  /\ UNCHANGED <<clock, table, now, stale, known, snap, fetches, saved, overlap>>

saves == saved' = (saved \/ (snap' # 0 /\ content'[snap'].state = "whole"))

(***************************************************************************)
(* What os.WriteFile leaves in a file that it wrote completely.  If        *)
(* another process wrote there after the file was opened, the end of a     *)
(* longer snapshot stays behind the new one.                               *)
(***************************************************************************)
written(i, at) ==
  {Whole(at)} \cup (IF content[i] # Empty THEN {Torn} ELSE {})

Write(p) ==
  /\ pc[p] = "write"
  /\ \E c \in written(fd[p], table[p]) : content' = [content EXCEPT ![fd[p]] = c]
  /\ fd' = [fd EXCEPT ![p] = 0]
  /\ goto(p, "rename")
  /\ UNCHANGED <<snap, tmp>> /\ saves
  /\ UNCHANGED <<clock, table, now, stale, known, fetches, overlap>>

\* A bug: the error of os.WriteFile is ignored.
WriteFailsUnnoticed(p) ==
  /\ pc[p] = "write"
  /\ content' = [content EXCEPT ![fd[p]] = Torn]
  /\ fd' = [fd EXCEPT ![p] = 0]
  /\ goto(p, "rename")
  /\ UNCHANGED <<clock, table, now, stale, known, snap, tmp, fetches, saved, overlap>>

\* A full disk: a part of the snapshot is written, and nothing is renamed.
WriteFails(p) ==
  /\ pc[p] = "write"
  /\ content' = [content EXCEPT ![fd[p]] = Torn]
  /\ fd' = [fd EXCEPT ![p] = 0]
  /\ return(p, "fresh")
  /\ UNCHANGED <<clock, table, now, known, snap, tmp, fetches, saved, overlap>>

\* The error of os.Rename is ignored; it is one if another process was faster.
Rename(p) ==
  /\ pc[p] = "rename"
  /\ \/ /\ tmp # 0
        /\ snap' = tmp
        /\ tmp' = 0
     \/ UNCHANGED <<snap, tmp>>
  /\ return(p, "fresh")
  /\ UNCHANGED content /\ saves
  /\ UNCHANGED <<clock, table, now, known, fd, fetches, overlap>>

-----------------------------------------------------------------------------
(***************************************************************************)
(* The processes and their clock                                           *)
(***************************************************************************)

\* The process ends, in Ensure or not, and starts again: the files stay.
Crash(p) ==
  /\ table' = [table EXCEPT ![p] = 0]
  /\ pc' = [pc EXCEPT ![p] = "idle"]
  /\ now' = [now EXCEPT ![p] = 0]
  /\ stale' = [stale EXCEPT ![p] = 0]
  /\ ret' = [ret EXCEPT ![p] = "none"]
  /\ known' = [known EXCEPT ![p] = FALSE]
  /\ fd' = [fd EXCEPT ![p] = 0]
  /\ UNCHANGED <<clock, content, snap, tmp, fetches, saved, overlap>>

Tick ==
  /\ clock < MaxTime
  /\ clock' = clock + 1
  /\ UNCHANGED <<memVars, fileVars, fetches, saved, overlap>>

Ensure(p) ==
  \/ EnsureCall(p) \/ Load(p) \/ FetchOk(p) \/ FetchFails(p)
  \/ OpenFails(p) \/ Open(p) \/ Write(p) \/ WriteFails(p) \/ Rename(p)

Next == Tick \/ \E p \in Stores : Ensure(p) \/ Crash(p)

Spec == Init /\ [][Next]_vars

-----------------------------------------------------------------------------
(***************************************************************************)
(* Properties                                                              *)
(***************************************************************************)

(***************************************************************************)
(* A table in memory or read from a snapshot is one that was fetched:      *)
(* whatever crashed, failed or overlapped while snapshots were written,    *)
(* loadSnapshot lets no part of one through.                               *)
(***************************************************************************)
NoTornTable ==
  \A p \in Stores : {table[p], stale[p]} \ {0} \subseteq fetches

(***************************************************************************)
(* What Ensure reports is true.  A fresh table is younger than RatesTTL at *)
(* the time of the call, whichever of the three layers it came from; a     *)
(* cached one exists; and rates are unavailable only if no snapshot had    *)
(* been in place, in this process or before a crash: "a stale snapshot is  *)
(* preferred over failure".  The last needs that no two processes ever     *)
(* saved at the same time.                                                 *)
(***************************************************************************)
StatusIsTrue ==
  \A p \in Stores : pc[p] = "idle" =>
    /\ ret[p] = "fresh" => table[p] # 0 /\ now[p] < table[p] + RatesTTL
    /\ ret[p] = "cached" => table[p] # 0
    /\ ret[p] = "unavailable" /\ ~overlap => ~known[p]

(***************************************************************************)
(* The table in memory is replaced by an older one only when Ensure says   *)
(* cached.                                                                 *)
(***************************************************************************)
OnlyOfflineGoesBack ==
  [][\A p \in Stores :
       table'[p] # 0 /\ table'[p] < table[p] => ret'[p] = "cached"]_vars

(***************************************************************************)
(* A snapshot in place is not damaged and not replaced by an older one, by *)
(* any step of a process that saves and is not disturbed by another one.   *)
(***************************************************************************)
SnapshotOnlyImproves ==
  [][saved /\ ~overlap' =>
       /\ snap' # 0
       /\ content'[snap'].state = "whole"
       /\ content'[snap'].at >= content[snap].at]_vars

=============================================================================

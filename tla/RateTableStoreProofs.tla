------------------------ MODULE RateTableStoreProofs ------------------------
(***************************************************************************)
(* Theorems about RateTableStore, for any number of processes, any TTL and *)
(* any time.  Four facts about every reachable state carry them:           *)
(*   FdInv      a process has the temporary file open only while it writes *)
(*   FetchInv   tables, in memory or in whole snapshots, were fetched      *)
(*   AgeInv     how old the table is, at each point of Ensure              *)
(*   SnapInv    while no two processes saved at the same time: what the    *)
(*              snapshot and the temporary file hold at each point of      *)
(*              writeSnapshot                                              *)
(***************************************************************************)
EXTENDS RateTableStore, TLAPS, FiniteSetTheorems

\* The groups of variables are only abbreviations.
USE DEF memVars, fileVars

FdInv == \A p \in Stores : fd[p] # 0 <=> pc[p] = "write"

FetchInv ==
  /\ NoTornTable
  /\ \A i \in Inodes : content[i].state = "whole" => content[i].at \in fetches
  /\ \A t \in fetches : t <= clock

AgeInv ==
  \A p \in Stores :
    /\ now[p] <= clock
    /\ pc[p] = "load" => table[p] = 0 \/ table[p] + RatesTTL <= now[p]
    /\ pc[p] \in Saving => table[p] # 0 /\ now[p] < table[p] + RatesTTL

\* The snapshot in place.
InPlace == snap # 0 /\ content[snap].state = "whole"

SnapInv ==
  /\ snap # 0 => snap # tmp
  /\ \A p \in Stores : known[p] => saved
  /\ ~overlap =>
       /\ saved => InPlace
       /\ \A p, q \in Stores : pc[p] \in Saving /\ pc[q] \in Saving => p = q
       /\ \A p \in Stores :
            /\ pc[p] = "write" => fd[p] = tmp /\ content[tmp] = Empty
            /\ pc[p] = "rename" => tmp # 0 /\ content[tmp] = Whole(table[p])
            /\ pc[p] \in Saving /\ InPlace => content[snap].at <= table[p]
            /\ pc[p] = "fetch" /\ known[p] => stale[p] # 0

-----------------------------------------------------------------------------
\* There is always an inode for a file to create: two names and one open file for
\* each process but the one that is about to create it.
LEMMA FreeInode ==
  ASSUME TypeOK, FdInv, NEW p \in Stores, pc[p] = "open"
  PROVE  FreeInodes # {}
<1> DEFINE Fds == {fd[q] : q \in Stores}
           Used == Fds \cup {snap} \cup {tmp}
           n == Cardinality(Stores)
<1>1. IsFiniteSet(Stores) /\ n \in Nat
  BY RatesAssumption, FS_CardinalityType DEF RatesAssumption
<1>2. IsFiniteSet(Fds) /\ Cardinality(Fds) <= n /\ Cardinality(Fds) \in Nat
  <2>1. fd \in Surjection(Stores, Fds)
    BY DEF Surjection, TypeOK
  <2> QED BY <1>1, <2>1, FS_Surjection, FS_CardinalityType
<1>3. IsFiniteSet(Used) /\ Cardinality(Used) <= n + 2 /\ Cardinality(Used) \in Nat
  <2>1. /\ IsFiniteSet(Fds \cup {snap}) /\ Cardinality(Fds \cup {snap}) \in Nat
        /\ Cardinality(Fds \cup {snap}) <= n + 1
    <3>1. IsFiniteSet(Fds \cup {snap}) /\ Cardinality(Fds \cup {snap}) =
            IF snap \in Fds THEN Cardinality(Fds) ELSE Cardinality(Fds) + 1
      BY <1>2, FS_AddElement
    <3> QED BY <1>1, <1>2, <3>1
  <2>2. IsFiniteSet(Used) /\ Cardinality(Used) =
          IF tmp \in Fds \cup {snap} THEN Cardinality(Fds \cup {snap})
                                    ELSE Cardinality(Fds \cup {snap}) + 1
    BY <2>1, FS_AddElement
  <2> QED BY <1>1, <2>1, <2>2
<1>4. 0 \in Used /\ 0 \notin Inodes
  BY DEF FdInv, Inodes, TypeOK
<1>5. IsFiniteSet(Inodes) /\ Cardinality(Inodes) = n + 2
  <2>1. /\ IsFiniteSet(1 .. (2 + n))
        /\ Cardinality(1 .. (2 + n)) = IF 1 > 2 + n THEN 0 ELSE (2 + n) - 1 + 1
    BY <1>1, FS_Interval
  <2> QED BY <1>1, <2>1 DEF Inodes
<1>6. Cardinality(Used \ {0}) < n + 2 /\ IsFiniteSet(Used \ {0})
  <2>1. IsFiniteSet(Used \ {0}) /\ Cardinality(Used \ {0}) = Cardinality(Used) - 1
    BY <1>3, <1>4, FS_RemoveElement
  <2> QED BY <1>1, <1>3, <2>1
<1>7. ~(Inodes \subseteq Used \ {0})
  <2> SUFFICES ASSUME Inodes \subseteq Used \ {0} PROVE FALSE
    OBVIOUS
  <2>1. Cardinality(Inodes) <= Cardinality(Used \ {0}) /\ Cardinality(Used \ {0}) \in Nat
    BY <1>6, FS_Subset, FS_CardinalityType
  <2> QED BY <2>1, <1>1, <1>5, <1>6
<1> QED BY <1>7, <1>4 DEF FreeInodes

\* What loadSnapshot may return is 0 or the time of a whole snapshot.
LEMMA Loaded ==
  ASSUME TypeOK, NEW at \in loadSnapshot
  PROVE  /\ at \in 0 .. MaxTime
         /\ at # 0 => InPlace /\ at = content[snap].at
<1>1. \A i \in Inodes : content[i].state = "whole" => content[i].at \in Times
  BY DEF TypeOK, Contents, Empty, Torn, Whole
<1> QED BY <1>1, RatesAssumption DEF loadSnapshot, TypeOK, InPlace, Times, RatesAssumption

\* The file that Open opens is the temporary one, or a new one that nobody uses.
LEMMA Opened ==
  ASSUME TypeOK, FdInv, NEW p \in Stores, Open(p)
  PROVE  /\ tmp' \in Inodes /\ tmp' = (IF tmp # 0 THEN tmp ELSE tmp')
         /\ tmp = 0 => tmp' # snap
         /\ fd' = [fd EXCEPT ![p] = tmp']
         /\ content' = [content EXCEPT ![tmp'] = Empty]
<1>1. pc[p] = "open"
  BY DEF Open
<1>2. FreeInodes # {}
  BY <1>1, FreeInode
<1>3. (CHOOSE j \in FreeInodes : TRUE) \in FreeInodes
  BY <1>2
<1> QED BY <1>3 DEF Open, FreeInodes, TypeOK

\* The types hold initially ...
LEMMA TypeInit == Init => TypeOK
<1>1. Empty \in Contents
  BY DEF Contents
<1> SUFFICES ASSUME Init PROVE TypeOK
  OBVIOUS
<1>2. clock \in Times /\ 0 \in 0 .. MaxTime /\ fetches \subseteq Times
  BY RatesAssumption DEF RatesAssumption, Init, Times
<1>3. content \in [Inodes -> Contents]
  BY <1>1 DEF Init
<1> QED BY <1>2, <1>3 DEF Init, TypeOK

\* ... and every step keeps them.
LEMMA TypeStep == TypeOK /\ FdInv /\ AgeInv /\ [Next]_vars => TypeOK'
<1> SUFFICES ASSUME TypeOK, FdInv, AgeInv, [Next]_vars PROVE TypeOK'
  OBVIOUS
<1> USE RatesAssumption DEF RatesAssumption, Times
<1>0. clock \in 0 .. MaxTime
  BY DEF TypeOK
<1>1. ASSUME NEW p \in Stores, EnsureCall(p) PROVE TypeOK'
  BY <1>0, <1>1 DEF EnsureCall, return, goto, TypeOK
<1>2. ASSUME NEW p \in Stores, Load(p) PROVE TypeOK'
  BY <1>2, Loaded DEF Load, apply, return, goto, TypeOK
<1>3. ASSUME NEW p \in Stores, FetchOk(p) PROVE TypeOK'
  BY <1>0, <1>3 DEF FetchOk, apply, goto, TypeOK
<1>4. ASSUME NEW p \in Stores, FetchFails(p) PROVE TypeOK'
  BY <1>4 DEF FetchFails, apply, return, TypeOK
<1>5. ASSUME NEW p \in Stores, OpenFails(p) PROVE TypeOK'
  BY <1>5 DEF OpenFails, return, TypeOK
<1>6. ASSUME NEW p \in Stores, Open(p) PROVE TypeOK'
  <2>1. Empty \in Contents
    BY DEF Contents
  <2> QED BY <1>6, <2>1, Opened DEF Open, goto, TypeOK
<1>7. ASSUME NEW p \in Stores, Write(p) PROVE TypeOK'
  <2>1. table[p] \in Times
    BY <1>7 DEF TypeOK, AgeInv, Write, Saving
  <2>2. written(fd[p], table[p]) \subseteq Contents
    BY <2>1 DEF written, Contents
  <2>3. content' \in [Inodes -> Contents]
    BY <1>7, <2>2 DEF Write, TypeOK
  <2> QED BY <1>7, <2>3 DEF Write, goto, saves, TypeOK
<1>8. ASSUME NEW p \in Stores, WriteFails(p) PROVE TypeOK'
  <2>1. Torn \in Contents
    BY DEF Contents
  <2>2. content' \in [Inodes -> Contents]
    BY <1>8, <2>1 DEF WriteFails, TypeOK
  <2> QED BY <1>8, <2>2 DEF WriteFails, return, TypeOK
<1>9. ASSUME NEW p \in Stores, Rename(p) PROVE TypeOK'
  BY <1>9 DEF Rename, return, saves, TypeOK
<1>10. ASSUME NEW p \in Stores, Crash(p) PROVE TypeOK'
  BY <1>10 DEF Crash, TypeOK
<1>11. CASE Tick
  BY <1>11 DEF Tick, TypeOK
<1>12. CASE UNCHANGED vars
  BY <1>12 DEF vars, TypeOK
<1> QED
  BY <1>1, <1>2, <1>3, <1>4, <1>5, <1>6, <1>7, <1>8, <1>9, <1>10, <1>11, <1>12 DEF Next, Ensure

-----------------------------------------------------------------------------
\* Every step keeps the descriptors: each return, failure and crash closes the
\* file.
LEMMA FdStep == TypeOK /\ FdInv /\ [Next]_vars => FdInv'
<1> SUFFICES ASSUME TypeOK, FdInv, [Next]_vars PROVE FdInv'
  OBVIOUS
<1>1. ASSUME NEW p \in Stores, EnsureCall(p) PROVE FdInv'
  BY <1>1 DEF EnsureCall, return, goto, TypeOK, FdInv
<1>2. ASSUME NEW p \in Stores, Load(p) PROVE FdInv'
  BY <1>2 DEF Load, apply, return, goto, TypeOK, FdInv
<1>3. ASSUME NEW p \in Stores, FetchOk(p) PROVE FdInv'
  BY <1>3 DEF FetchOk, apply, goto, TypeOK, FdInv
<1>4. ASSUME NEW p \in Stores, FetchFails(p) PROVE FdInv'
  BY <1>4 DEF FetchFails, apply, return, TypeOK, FdInv
<1>5. ASSUME NEW p \in Stores, OpenFails(p) PROVE FdInv'
  BY <1>5 DEF OpenFails, return, TypeOK, FdInv
<1>6. ASSUME NEW p \in Stores, Open(p) PROVE FdInv'
  <2>1. tmp' # 0 /\ fd' = [fd EXCEPT ![p] = tmp']
    BY <1>6, Opened DEF Inodes
  <2> QED BY <1>6, <2>1 DEF Open, goto, TypeOK, FdInv
<1>7. ASSUME NEW p \in Stores, Write(p) PROVE FdInv'
  BY <1>7 DEF Write, written, goto, TypeOK, FdInv
<1>8. ASSUME NEW p \in Stores, WriteFails(p) PROVE FdInv'
  BY <1>8 DEF WriteFails, return, TypeOK, FdInv
<1>9. ASSUME NEW p \in Stores, Rename(p) PROVE FdInv'
  BY <1>9 DEF Rename, return, TypeOK, FdInv
<1>10. ASSUME NEW p \in Stores, Crash(p) PROVE FdInv'
  BY <1>10 DEF Crash, TypeOK, FdInv
<1>11. CASE Tick
  BY <1>11 DEF Tick, TypeOK, FdInv
<1>12. CASE UNCHANGED vars
  BY <1>12 DEF vars, TypeOK, FdInv
<1> QED
  BY <1>1, <1>2, <1>3, <1>4, <1>5, <1>6, <1>7, <1>8, <1>9, <1>10, <1>11, <1>12 DEF Next, Ensure

\* A time of the clock, and of any variable that holds one, is a natural number.
LEMMA TimesAreNat ==
  TypeOK => /\ clock \in Nat \ {0} /\ RatesTTL \in Nat \ {0}
            /\ \A p \in Stores : table[p] \in Nat /\ stale[p] \in Nat /\ now[p] \in Nat
            /\ \A t \in fetches : t \in Nat
  BY RatesAssumption DEF RatesAssumption, TypeOK, Times

\* Every step keeps FetchInv: a table comes from the network, from a whole
\* snapshot or from the memory of the process.
LEMMA FetchStep == TypeOK /\ FdInv /\ AgeInv /\ FetchInv /\ [Next]_vars => FetchInv'
<1> SUFFICES ASSUME TypeOK, FdInv, AgeInv, FetchInv, [Next]_vars PROVE FetchInv'
  OBVIOUS
<1> USE TimesAreNat DEF NoTornTable
<1>1. ASSUME NEW p \in Stores, EnsureCall(p) PROVE FetchInv'
  BY <1>1 DEF EnsureCall, return, goto, TypeOK, FetchInv
<1>2. ASSUME NEW p \in Stores, Load(p) PROVE FetchInv'
  <2>1. ASSUME NEW at \in loadSnapshot PROVE at # 0 => at \in fetches
    BY <2>1, Loaded DEF InPlace, FetchInv, TypeOK
  <2> QED BY <1>2, <2>1 DEF Load, apply, return, goto, TypeOK, FetchInv
<1>3. ASSUME NEW p \in Stores, FetchOk(p) PROVE FetchInv'
  BY <1>3 DEF FetchOk, apply, goto, TypeOK, FetchInv
<1>4. ASSUME NEW p \in Stores, FetchFails(p) PROVE FetchInv'
  BY <1>4 DEF FetchFails, apply, return, TypeOK, FetchInv
<1>5. ASSUME NEW p \in Stores, OpenFails(p) PROVE FetchInv'
  BY <1>5 DEF OpenFails, return, TypeOK, FetchInv
<1>6. ASSUME NEW p \in Stores, Open(p) PROVE FetchInv'
  <2>1. tmp' \in Inodes /\ content' = [content EXCEPT ![tmp'] = Empty]
    BY <1>6, Opened
  <2> QED BY <1>6, <2>1 DEF Open, goto, Empty, TypeOK, FetchInv
<1>7. ASSUME NEW p \in Stores, Write(p) PROVE FetchInv'
  <2>1. table[p] \in fetches
    BY <1>7 DEF Write, AgeInv, Saving, FetchInv
  <2>2. \A c \in written(fd[p], table[p]) : c.state = "whole" => c.at \in fetches
    BY <2>1 DEF written, Whole, Torn
  <2> QED BY <1>7, <2>2 DEF Write, goto, TypeOK, FetchInv
<1>8. ASSUME NEW p \in Stores, WriteFails(p) PROVE FetchInv'
  BY <1>8 DEF WriteFails, return, Torn, TypeOK, FetchInv
<1>9. ASSUME NEW p \in Stores, Rename(p) PROVE FetchInv'
  BY <1>9 DEF Rename, return, TypeOK, FetchInv
<1>10. ASSUME NEW p \in Stores, Crash(p) PROVE FetchInv'
  BY <1>10 DEF Crash, TypeOK, FetchInv
<1>11. CASE Tick
  BY <1>11 DEF Tick, TypeOK, FetchInv
<1>12. CASE UNCHANGED vars
  BY <1>12 DEF vars, TypeOK, FetchInv
<1> QED
  BY <1>1, <1>2, <1>3, <1>4, <1>5, <1>6, <1>7, <1>8, <1>9, <1>10, <1>11, <1>12 DEF Next, Ensure

\* Every step keeps AgeInv: the call reads the clock first, and a table that is
\* being saved was fetched after that.
LEMMA AgeStep == TypeOK /\ AgeInv /\ [Next]_vars => AgeInv'
<1> SUFFICES ASSUME TypeOK, AgeInv, [Next]_vars PROVE AgeInv'
  OBVIOUS
<1> USE TimesAreNat DEF Saving, fresh
<1>1. ASSUME NEW p \in Stores, EnsureCall(p) PROVE AgeInv'
  BY <1>1 DEF EnsureCall, return, goto, TypeOK, AgeInv
<1>2. ASSUME NEW p \in Stores, Load(p) PROVE AgeInv'
  BY <1>2 DEF Load, apply, return, goto, TypeOK, AgeInv
<1>3. ASSUME NEW p \in Stores, FetchOk(p) PROVE AgeInv'
  BY <1>3 DEF FetchOk, apply, goto, TypeOK, AgeInv
<1>4. ASSUME NEW p \in Stores, FetchFails(p) PROVE AgeInv'
  BY <1>4 DEF FetchFails, apply, return, TypeOK, AgeInv
<1>5. ASSUME NEW p \in Stores, OpenFails(p) PROVE AgeInv'
  BY <1>5 DEF OpenFails, return, TypeOK, AgeInv
<1>6. ASSUME NEW p \in Stores, Open(p) PROVE AgeInv'
  BY <1>6 DEF Open, goto, TypeOK, AgeInv
<1>7. ASSUME NEW p \in Stores, Write(p) PROVE AgeInv'
  BY <1>7 DEF Write, written, goto, TypeOK, AgeInv
<1>8. ASSUME NEW p \in Stores, WriteFails(p) PROVE AgeInv'
  BY <1>8 DEF WriteFails, return, TypeOK, AgeInv
<1>9. ASSUME NEW p \in Stores, Rename(p) PROVE AgeInv'
  BY <1>9 DEF Rename, return, TypeOK, AgeInv
<1>10. ASSUME NEW p \in Stores, Crash(p) PROVE AgeInv'
  BY <1>10 DEF Crash, TypeOK, AgeInv
<1>11. CASE Tick
  BY <1>11 DEF Tick, TypeOK, AgeInv
<1>12. CASE UNCHANGED vars
  BY <1>12 DEF vars, TypeOK, AgeInv
<1> QED
  BY <1>1, <1>2, <1>3, <1>4, <1>5, <1>6, <1>7, <1>8, <1>9, <1>10, <1>11, <1>12 DEF Next, Ensure

\* While nobody disturbs it, loadSnapshot finds the snapshot that is in place.
LEMMA FindsSnapshot ==
  ASSUME TypeOK, FdInv, SnapInv, ~overlap, saved, NEW at \in loadSnapshot
  PROVE  at # 0
<1>1. snap # 0 /\ content[snap].state = "whole" /\ snap # tmp
  BY DEF SnapInv, InPlace
<1>2. \A q \in Stores : fd[q] # snap
  BY <1>1 DEF FdInv, SnapInv
<1>3. content[snap].at # 0
  BY <1>1 DEF TypeOK, Contents, Empty, Torn, Whole, Times
<1> QED BY <1>1, <1>2, <1>3 DEF loadSnapshot

\* Every step keeps SnapInv: writeSnapshot touches only the temporary file, and
\* what it renames over the snapshot is complete and newer.
LEMMA SnapStep ==
  TypeOK /\ FdInv /\ AgeInv /\ FetchInv /\ SnapInv /\ [Next]_vars => SnapInv'
<1> SUFFICES ASSUME TypeOK, FdInv, AgeInv, FetchInv, SnapInv, [Next]_vars PROVE SnapInv'
  OBVIOUS
<1> USE TimesAreNat DEF Saving, InPlace
<1>1. ASSUME NEW p \in Stores, EnsureCall(p) PROVE SnapInv'
  BY <1>1 DEF EnsureCall, return, goto, TypeOK, SnapInv
<1>2. ASSUME NEW p \in Stores, Load(p) PROVE SnapInv'
  <2>1. ASSUME NEW at \in loadSnapshot PROVE ~overlap /\ known[p] => at # 0
    BY <2>1, FindsSnapshot DEF SnapInv
  <2> QED BY <1>2, <2>1 DEF Load, apply, return, goto, TypeOK, SnapInv
<1>3. ASSUME NEW p \in Stores, FetchOk(p) PROVE SnapInv'
  <2>1. InPlace => content[snap].at <= clock
    BY DEF FetchInv, TypeOK
  <2> QED BY <1>3, <2>1 DEF FetchOk, apply, goto, TypeOK, SnapInv
<1>4. ASSUME NEW p \in Stores, FetchFails(p) PROVE SnapInv'
  BY <1>4 DEF FetchFails, apply, return, TypeOK, SnapInv
<1>5. ASSUME NEW p \in Stores, OpenFails(p) PROVE SnapInv'
  BY <1>5 DEF OpenFails, return, TypeOK, SnapInv
<1>6. ASSUME NEW p \in Stores, Open(p) PROVE SnapInv'
  <2>1. /\ tmp' \in Inodes /\ (tmp # 0 => tmp' = tmp) /\ (tmp = 0 => tmp' # snap)
        /\ fd' = [fd EXCEPT ![p] = tmp'] /\ content' = [content EXCEPT ![tmp'] = Empty]
    BY <1>6, Opened
  <2>2. tmp' # snap /\ content'[snap] = content[snap] /\ content'[tmp'] = Empty
    BY <2>1 DEF SnapInv, TypeOK, Inodes
  <2>3. \A q \in Stores : pc'[q] = (IF q = p THEN "write" ELSE pc[q]) /\ (q = p => fd'[q] = tmp')
    BY <1>6, <2>1 DEF Open, goto, TypeOK
  <2>4. pc[p] = "open"
        /\ UNCHANGED <<clock, table, now, stale, known, snap, fetches, saved, overlap>>
    BY <1>6 DEF Open
  <2>5. ~overlap => \A q \in Stores : pc[q] \in Saving => q = p
    BY <2>4 DEF SnapInv
  <2> QED BY <2>2, <2>3, <2>4, <2>5 DEF SnapInv
<1>7. ASSUME NEW p \in Stores, Write(p) PROVE SnapInv'
  <2>1. PICK c \in written(fd[p], table[p]) : content' = [content EXCEPT ![fd[p]] = c]
    BY <1>7 DEF Write
  <2>2. \A q \in Stores : pc'[q] = IF q = p THEN "rename" ELSE pc[q]
    BY <1>7 DEF Write, goto, TypeOK
  <2>3. /\ pc[p] = "write" /\ saves
        /\ UNCHANGED <<clock, table, now, stale, known, snap, tmp, fetches, overlap>>
    BY <1>7 DEF Write
  <2>4. ~overlap => \A q \in Stores : pc[q] \in Saving => q = p
    BY <2>3 DEF SnapInv
  <2>5. ~overlap => /\ tmp # 0 /\ tmp \in Inodes
                    /\ content'[tmp] = Whole(table[p])
                    /\ snap # 0 => content'[snap] = content[snap]
    BY <2>1, <2>3 DEF SnapInv, FdInv, TypeOK, written
  <2> QED BY <2>2, <2>3, <2>4, <2>5 DEF SnapInv, saves
<1>8. ASSUME NEW p \in Stores, WriteFails(p) PROVE SnapInv'
  BY <1>8 DEF WriteFails, return, TypeOK, SnapInv
<1>9. ASSUME NEW p \in Stores, Rename(p) PROVE SnapInv'
  <2>1. \A q \in Stores : pc'[q] = IF q = p THEN "idle" ELSE pc[q]
    BY <1>9 DEF Rename, return, TypeOK
  <2>2. /\ pc[p] = "rename" /\ saves
        /\ UNCHANGED <<clock, table, now, known, content, fd, fetches, overlap>>
    BY <1>9 DEF Rename
  <2>3. ~overlap => \A q \in Stores : pc[q] \in Saving => q = p
    BY <2>2 DEF SnapInv
  <2>4. \A q \in Stores : q # p => stale'[q] = stale[q]
    BY <1>9 DEF Rename, return, TypeOK
  <2>5. \/ tmp # 0 /\ snap' = tmp /\ tmp' = 0
        \/ UNCHANGED <<snap, tmp>>
    BY <1>9 DEF Rename
  <2>6. ~overlap => tmp # 0 /\ content[tmp].state = "whole"
    <3>1. ~overlap => tmp # 0 /\ content[tmp] = Whole(table[p])
      BY <2>2 DEF SnapInv
    <3> QED BY <3>1 DEF Whole
  <2> QED BY <2>1, <2>2, <2>3, <2>4, <2>5, <2>6 DEF SnapInv, saves
<1>10. ASSUME NEW p \in Stores, Crash(p) PROVE SnapInv'
  BY <1>10 DEF Crash, TypeOK, SnapInv
<1>11. CASE Tick
  BY <1>11 DEF Tick, TypeOK, SnapInv
<1>12. CASE UNCHANGED vars
  BY <1>12 DEF vars, TypeOK, SnapInv
<1> QED
  BY <1>1, <1>2, <1>3, <1>4, <1>5, <1>6, <1>7, <1>8, <1>9, <1>10, <1>11, <1>12 DEF Next, Ensure

-----------------------------------------------------------------------------
RatesInv == TypeOK /\ FdInv /\ AgeInv /\ FetchInv /\ SnapInv

\* The inductive invariant.
LEMMA RatesInvariance == Spec => []RatesInv
<1>1. Init => RatesInv
  <2> SUFFICES ASSUME Init PROVE RatesInv
    OBVIOUS
  <2>1. TypeOK
    BY TypeInit
  <2>2. FdInv /\ AgeInv
    BY <2>1, TimesAreNat DEF Init, FdInv, AgeInv, Saving
  <2>3. FetchInv
    BY DEF Init, FetchInv, NoTornTable, Empty
  <2>4. SnapInv
    BY DEF Init, SnapInv, Saving
  <2> QED BY <2>1, <2>2, <2>3, <2>4 DEF RatesInv
<1>2. RatesInv /\ [Next]_vars => RatesInv'
  BY TypeStep, FdStep, AgeStep, FetchStep, SnapStep DEF RatesInv
<1> QED BY <1>1, <1>2, PTL DEF Spec

\* Type correctness; in particular there is always an inode for a new file.
THEOREM RatesTypeCorrect == Spec => []TypeOK
<1>1. RatesInv => TypeOK
  BY DEF RatesInv
<1> QED BY <1>1, RatesInvariance, PTL

\* No part of a torn or mixed snapshot ever becomes a rate table, whatever crashed
\* or overlapped while snapshots were written.
THEOREM TornTablesRefused == Spec => []NoTornTable
<1>1. RatesInv => NoTornTable
  BY DEF RatesInv, FetchInv
<1> QED BY <1>1, RatesInvariance, PTL

\* A status that is true stays true and a new one is.
LEMMA StatusStep == RatesInv /\ StatusIsTrue /\ [Next]_vars => StatusIsTrue'
<1> SUFFICES ASSUME RatesInv, StatusIsTrue, [Next]_vars PROVE StatusIsTrue'
  OBVIOUS
<1> USE TimesAreNat DEF RatesInv
<1>1. ASSUME NEW p \in Stores, EnsureCall(p) PROVE StatusIsTrue'
  BY <1>1 DEF EnsureCall, return, goto, fresh, TypeOK, StatusIsTrue
<1>2. ASSUME NEW p \in Stores, Load(p) PROVE StatusIsTrue'
  BY <1>2 DEF Load, apply, return, goto, fresh, TypeOK, StatusIsTrue
<1>3. ASSUME NEW p \in Stores, FetchOk(p) PROVE StatusIsTrue'
  BY <1>3 DEF FetchOk, apply, goto, TypeOK, StatusIsTrue
<1>4. ASSUME NEW p \in Stores, FetchFails(p) PROVE StatusIsTrue'
  BY <1>4 DEF FetchFails, apply, return, SnapInv, TypeOK, StatusIsTrue
<1>5. ASSUME NEW p \in Stores, OpenFails(p) PROVE StatusIsTrue'
  BY <1>5 DEF OpenFails, return, AgeInv, Saving, TypeOK, StatusIsTrue
<1>6. ASSUME NEW p \in Stores, Open(p) PROVE StatusIsTrue'
  BY <1>6 DEF Open, goto, TypeOK, StatusIsTrue
<1>7. ASSUME NEW p \in Stores, Write(p) PROVE StatusIsTrue'
  BY <1>7 DEF Write, goto, TypeOK, StatusIsTrue
<1>8. ASSUME NEW p \in Stores, WriteFails(p) PROVE StatusIsTrue'
  BY <1>8 DEF WriteFails, return, AgeInv, Saving, TypeOK, StatusIsTrue
<1>9. ASSUME NEW p \in Stores, Rename(p) PROVE StatusIsTrue'
  BY <1>9 DEF Rename, return, AgeInv, Saving, TypeOK, StatusIsTrue
<1>10. ASSUME NEW p \in Stores, Crash(p) PROVE StatusIsTrue'
  BY <1>10 DEF Crash, TypeOK, StatusIsTrue
<1>11. CASE Tick
  BY <1>11 DEF Tick, StatusIsTrue
<1>12. CASE UNCHANGED vars
  BY <1>12 DEF vars, StatusIsTrue
<1> QED
  BY <1>1, <1>2, <1>3, <1>4, <1>5, <1>6, <1>7, <1>8, <1>9, <1>10, <1>11, <1>12 DEF Next, Ensure

\* What Ensure reports of the table it leaves in place is true: fresh, cached, and
\* unavailable only if there was no snapshot to fall back on.
THEOREM StatusTrue == Spec => []StatusIsTrue
<1>1. Init => StatusIsTrue
  BY DEF Init, StatusIsTrue
<1> QED BY <1>1, StatusStep, RatesInvariance, PTL DEF Spec

\* The table in memory goes back to an older one only when Ensure says cached.
THEOREM GoesBackOffline == Spec => OnlyOfflineGoesBack
<1> DEFINE A == \A p \in Stores : table'[p] # 0 /\ table'[p] < table[p] => ret'[p] = "cached"
<1>1. RatesInv /\ [Next]_vars => [A]_vars
  <2> SUFFICES ASSUME RatesInv, Next PROVE A
    OBVIOUS
  <2> USE TimesAreNat DEF RatesInv
  <2>1. ASSUME NEW p \in Stores, Load(p) PROVE A
    BY <2>1, Loaded DEF Load, apply, fresh, return, goto, AgeInv, TypeOK
  <2>2. ASSUME NEW p \in Stores, FetchOk(p) PROVE A
    <3>1. table[p] <= clock
      BY DEF FetchInv, NoTornTable
    <3> QED BY <2>2, <3>1 DEF FetchOk, apply, goto, TypeOK
  <2>3. ASSUME NEW p \in Stores, FetchFails(p) PROVE A
    BY <2>3 DEF FetchFails, apply, return, TypeOK
  <2>4. ASSUME NEW p \in Stores, Crash(p) PROVE A
    BY <2>4 DEF Crash, TypeOK
  <2>5. ASSUME NEW p \in Stores,
               \/ EnsureCall(p) \/ OpenFails(p) \/ Open(p)
               \/ Write(p) \/ WriteFails(p) \/ Rename(p)
        PROVE  A
    BY <2>5 DEF EnsureCall, OpenFails, Open, Write, WriteFails, Rename
  <2>6. CASE Tick
    BY <2>6 DEF Tick
  <2> QED BY <2>1, <2>2, <2>3, <2>4, <2>5, <2>6 DEF Next, Ensure
<1> QED BY <1>1, RatesInvariance, PTL DEF Spec, OnlyOfflineGoesBack

\* A snapshot in place is replaced only by a complete and newer one, as long as no
\* two processes save at the same time.
THEOREM SnapshotImproves == Spec => SnapshotOnlyImproves
<1> DEFINE A == saved /\ ~overlap' =>
                  /\ snap' # 0
                  /\ content'[snap'].state = "whole"
                  /\ content'[snap'].at >= content[snap].at
<1>1. RatesInv /\ RatesInv' /\ [Next]_vars => [A]_vars
  <2> SUFFICES ASSUME RatesInv, RatesInv', Next, saved, ~overlap'
               PROVE  InPlace' /\ content'[snap'].at >= content[snap].at
    BY DEF InPlace
  <2> USE TimesAreNat DEF RatesInv
  <2>1. ~overlap /\ saved'
    BY DEF Next, Ensure, EnsureCall, Load, FetchOk, FetchFails, OpenFails, Open, Write, WriteFails,
       Rename, Crash, Tick, saves, TypeOK
  <2>2. InPlace /\ InPlace' /\ snap # tmp
    BY <2>1 DEF SnapInv, InPlace
  <2>3. content[snap].at \in Nat
    BY <2>2 DEF InPlace, FetchInv, TypeOK
  <2>4. (snap' = snap /\ content'[snap] = content[snap]) => content'[snap'].at >= content[snap].at
    BY <2>3
  <2>5. ASSUME NEW p \in Stores, Open(p) PROVE snap' = snap /\ content'[snap] = content[snap]
    <3>1. tmp' # snap /\ content' = [content EXCEPT ![tmp'] = Empty]
      BY <2>2, <2>5, Opened
    <3> QED BY <2>5, <3>1, <2>2 DEF Open, InPlace, TypeOK
  <2>6. ASSUME NEW p \in Stores, Write(p) \/ WriteFails(p)
        PROVE  snap' = snap /\ content'[snap] = content[snap]
    <3>1. fd[p] # snap
      BY <2>1, <2>2, <2>6 DEF Write, WriteFails, SnapInv
    <3> QED BY <2>6, <3>1, <2>2 DEF Write, WriteFails, InPlace, TypeOK
  <2>7. ASSUME NEW p \in Stores, Rename(p) PROVE content'[snap'].at >= content[snap].at
    <3>1. content[tmp] = Whole(table[p]) /\ content[snap].at <= table[p]
      BY <2>1, <2>2, <2>7 DEF Rename, SnapInv, Saving
    <3>2. content[tmp].at = table[p]
      BY <3>1 DEF Whole
    <3> QED BY <2>3, <2>7, <3>1, <3>2 DEF Rename
  <2>8. ASSUME NEW p \in Stores,
               \/ EnsureCall(p) \/ Load(p) \/ FetchOk(p) \/ FetchFails(p) \/ OpenFails(p)
               \/ Crash(p)
        PROVE  snap' = snap /\ content'[snap] = content[snap]
    BY <2>8 DEF EnsureCall, Load, FetchOk, FetchFails, OpenFails, Crash
  <2>9. CASE Tick
    BY <2>2, <2>4, <2>9 DEF Tick
  <2> QED BY <2>2, <2>4, <2>5, <2>6, <2>7, <2>8, <2>9 DEF Next, Ensure
<1> QED BY <1>1, RatesInvariance, PTL DEF Spec, SnapshotOnlyImproves
=============================================================================

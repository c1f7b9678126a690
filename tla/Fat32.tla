------------------------------- MODULE Fat32 -------------------------------
(***************************************************************************)
(* The FAT32 driver's save and load (fat32.c) over a disk whose accesses   *)
(* may fail and whose power may be cut between any two of them.            *)
(*                                                                         *)
(* Granularity: one action per disk access, together with the computation  *)
(* on local variables around it; the shared statics of the driver          *)
(* (sector_buf, fat_cache, fat_cache_lba) are state, so that an operation  *)
(* that preempts another one meets them half used.  The root directory is  *)
(* one sector, a cluster is one sector, and a file's bytes are the blocks  *)
(* its version consists of.                                                *)
(***************************************************************************)
EXTENDS Naturals, Sequences, FiniteSets, SequencesExt

CONSTANTS
    NumClusters,        \* total_clusters: data clusters 2 .. NumClusters + 1
    NumFats,            \* num_fats
    EntriesPerSector,   \* FAT entries in a sector (128 in the code)
    DirSlots,           \* entries in the root directory
    Names, Versions,    \* file names, and the contents games save
    Saves,              \* the <<name, version>> pairs games save
    Size(_),            \* clusters a version needs
    None, Torn,         \* model values
    MaxDepth,           \* operations in flight: > 1 when one may be preempted
    MaxCuts,            \* bound of the model: power cuts
    MaxFaults,          \* bound of the model: failed disk accesses
    LateFaults,         \* TRUE: a write reported as failed may have happened
    WriteCache          \* TRUE: a power cut may lose unflushed writes

ASSUME GeometryAssumption ==
    /\ NumClusters \in Nat \ {0}
    /\ NumFats \in Nat \ {0}
    /\ EntriesPerSector \in Nat \ {0}
    /\ DirSlots \in Nat
    /\ \A v \in Versions : Size(v) \in Nat
    /\ Saves \subseteq Names \X Versions
    /\ None \notin Names \cup [name : Names, ver : Versions, committed : BOOLEAN]
    /\ \A v, w \in Versions : Size(v) = 0 /\ Size(w) = 0 => v = w      \* the empty file
ASSUME BoundAssumption ==
    /\ MaxDepth \in Nat /\ MaxCuts \in Nat /\ MaxFaults \in Nat
    /\ LateFaults \in BOOLEAN /\ WriteCache \in BOOLEAN

Clusters == 2 .. NumClusters + 1
Free == 0
Eoc == NumClusters + 2              \* any value >= FAT32_EOC
Links == {Free, Eoc} \cup Clusters
Copies == 1 .. NumFats
FatSector(c) == c \div EntriesPerSector
NoSector == FatSector(Eoc) + 1      \* fat_cache_lba = 0xFFFFFFFF
Sectors == 0 .. NoSector

Blocks == {None} \cup {<<n, v, i>> : n \in Names, v \in Versions, i \in 1 .. NumClusters}
EmptyEntry == [name |-> None, first |-> 0, size |-> 0]
Entries == [name : Names \cup {None, Torn}, first : {0} \cup Clusters, size : Nat]
Directory == [1 .. DirSlots -> Entries]
\* A directory sector that holds the bytes of something else.
Rubbish == [s \in 1 .. DirSlots |-> [EmptyEntry EXCEPT !.name = Torn]]

VARIABLES
    fat,        \* the FAT copies on the disk
    data,       \* the data clusters on the disk
    dir,        \* the root directory on the disk
    flushed,    \* what of these three has left the drive's write cache
    fatCache, fatCacheLba,  \* fat_cache and the FAT sector it is tagged with
    sectorBuf,  \* sector_buf: an image of the directory, or a block
    ops,        \* the operations in flight, the innermost last
    cuts, faults,
    suspect     \* files whose last save swallowed an error (history)

disk == <<fat, data, dir>>
driver == <<fatCache, fatCacheLba, sectorBuf>>
vars == <<disk, flushed, driver, ops, cuts, faults, suspect>>

\* The places of fat32_save_impl and fat32_load_impl between disk accesses.
Places == {"locate", "slot", "scan", "claim", "link", "fill", "write", "commit",
           "writeback", "next", "release", "flush", "read", "copy", "follow",
           "return"}

Frames == [op : {"save", "load"}, name : Names, ver : Versions \cup {None},
           pc : Places,
           slot : 0 .. DirSlots,        \* loc
           old : {0} \cup Clusters,     \* old_first
           first : {0} \cup Clusters,   \* first_cluster
           prev : {0} \cup Clusters,
           cur : {0, Eoc} \cup Clusters,    \* c, or cluster
           nxt : Links,                 \* next
           i : Nat,                     \* clusters done
           size : Nat,                  \* of the file being loaded
           got : Seq(Blocks),           \* out
           mirror : 0 .. NumFats,       \* FAT copies fat_set still has to write
           loaded : BOOLEAN,            \* fat_cache read, fat_cache_lba not set
           flawed : BOOLEAN,            \* an error was swallowed (history)
           ret : {"none", "ok", "error"}]

TypeOK ==
    /\ fat \in [Copies -> [Clusters -> Links]]
    /\ data \in [Clusters -> Blocks \cup {Torn}]
    /\ dir \in Directory
    /\ fatCache \in [Clusters -> Links]
    /\ fatCacheLba \in Sectors
    /\ sectorBuf.kind \in {"none", "dir", "block"}
    /\ Len(ops) <= MaxDepth
    /\ \A d \in 1 .. Len(ops) : ops[d] \in Frames
    /\ cuts \in 0 .. MaxCuts /\ faults \in 0 .. MaxFaults
    /\ suspect \subseteq Names

Init ==
    /\ fat = [k \in Copies |-> [c \in Clusters |-> Free]]
    /\ data = [c \in Clusters |-> None]
    /\ dir = [s \in 1 .. DirSlots |-> EmptyEntry]
    /\ flushed = disk
    /\ fatCache = [c \in Clusters |-> Free]
    /\ fatCacheLba = NoSector
    /\ sectorBuf = [kind |-> "none", image |-> None]
    /\ ops = <<>>
    /\ cuts = 0 /\ faults = 0
    /\ suspect = {}

-----------------------------------------------------------------------------
(***************************************************************************)
(* Disk accesses.  An access fails only while the fault budget lasts; a    *)
(* failed read leaves the buffer alone, a failed write the sector ("lost") *)
(* unless the drive finished it after the driver's timeout ("late").       *)
(***************************************************************************)
ReadOutcomes == {"ok"} \cup (IF faults < MaxFaults THEN {"lost"} ELSE {})
WriteOutcomes == ReadOutcomes \cup (IF faults < MaxFaults /\ LateFaults
                                    THEN {"late"} ELSE {})
Account(o) == faults' = IF o = "ok" THEN faults ELSE faults + 1

Top == ops[Len(ops)]
At(place) == ops # <<>> /\ Top.pc = place
Continue(frame) == ops' = [ops EXCEPT ![Len(ops)] = frame]

NewFrame(op, n, v) ==
    [op |-> op, name |-> n, ver |-> v, pc |-> "locate", slot |-> 0, old |-> 0,
     first |-> 0, prev |-> 0, cur |-> 0, nxt |-> Free, i |-> 0, size |-> 0,
     got |-> <<>>, mirror |-> 0, loaded |-> FALSE, flawed |-> FALSE,
     ret |-> "none"]

Find(image, n) == {s \in 1 .. DirSlots : image[s].name = n}
Least(S) == CHOOSE s \in S : \A t \in S : s <= t

-----------------------------------------------------------------------------
(***************************************************************************)
(* Where a save goes on (pure functions of its frame).                     *)
(***************************************************************************)
\* (What is left in local variables is dead from here on.)
Return(f, ret) ==
    [NewFrame(f.op, f.name, f.ver) EXCEPT !.pc = "return", !.ret = ret,
                                          !.got = f.got]

\* fat_free_chain(c) begins; ret is what the caller returns afterwards.
FreeChain(f, c, ret) ==
    IF c = 0 THEN IF ret = "ok" THEN [Return(f, ret) EXCEPT !.pc = "flush"]
                 ELSE Return(f, ret)
    ELSE [Return(f, ret) EXCEPT !.pc = "next", !.cur = c]

\* Mutant: the clusters already taken are not given back.
GiveUp_Leak(f) == Return(f, "error")

\* Every error path of the save once it has begun to allocate.
GiveUp(f) == FreeChain(f, f.first, "error")

\* The head of the allocation loop.
NextCluster(f) ==
    IF f.i = Size(f.ver) THEN [f EXCEPT !.pc = "commit"]
    ELSE [f EXCEPT !.pc = "scan", !.cur = 2]

\* The FAT entry a place reads or sets, and what it sets it to.
Target(f) == IF f.pc = "link" THEN f.prev ELSE f.cur
NewValue(f) == IF f.pc = "claim" THEN Eoc ELSE IF f.pc = "link" THEN f.cur ELSE Free

\* fat_set has returned.  Only fat_alloc_cluster looks at its result.
AfterSet(f, ok) ==
    LET g == [f EXCEPT !.mirror = 0, !.loaded = FALSE]
    IN  IF g.pc = "claim" THEN
            IF ~ok THEN GiveUp(g)
            ELSE IF g.prev # 0 THEN [g EXCEPT !.pc = "link"]
            ELSE [g EXCEPT !.pc = "fill", !.first = g.cur]
        ELSE IF g.pc = "link" THEN [g EXCEPT !.pc = "fill", !.flawed = @ \/ ~ok]
        ELSE \* release
            IF g.nxt \in Clusters THEN [g EXCEPT !.pc = "next", !.cur = g.nxt]
            ELSE FreeChain(g, 0, g.ret)

\* Mutant: a cluster in the middle of a chain counts as free.
AfterNext_AnyLink(f, value) ==
    LET g == [f EXCEPT !.loaded = FALSE]
    IN  IF g.pc = "scan" THEN
            IF value # Eoc THEN [g EXCEPT !.pc = "claim"]
            ELSE IF g.cur + 1 \in Clusters THEN [g EXCEPT !.cur = @ + 1]
            ELSE GiveUp(g)
        ELSE IF g.pc = "next" THEN [g EXCEPT !.pc = "release", !.nxt = value]
        ELSE IF g.i < g.size /\ value \in Clusters
             THEN [g EXCEPT !.pc = "read", !.cur = value]
             ELSE Return(g, "ok")

\* fat_next_cluster has returned value.
AfterNext(f, value) ==
    LET g == [f EXCEPT !.loaded = FALSE]
    IN  IF g.pc = "scan" THEN
            IF value = Free THEN [g EXCEPT !.pc = "claim"]
            ELSE IF g.cur + 1 \in Clusters THEN [g EXCEPT !.cur = @ + 1]
            ELSE GiveUp(g)      \* volume full
        ELSE IF g.pc = "next" THEN [g EXCEPT !.pc = "release", !.nxt = value]
        ELSE \* follow
            IF g.i < g.size /\ value \in Clusters
            THEN [g EXCEPT !.pc = "read", !.cur = value]
            ELSE Return(g, "ok")

-----------------------------------------------------------------------------
(***************************************************************************)
(* Entering and leaving the driver.                                        *)
(***************************************************************************)
BeginSave(n, v) ==
    /\ Len(ops) < MaxDepth
    /\ ops' = Append(ops, NewFrame("save", n, v))
    /\ UNCHANGED <<disk, flushed, driver, cuts, faults, suspect>>

BeginLoad(n) ==
    /\ Len(ops) < MaxDepth
    /\ ops' = Append(ops, NewFrame("load", n, None))
    /\ UNCHANGED <<disk, flushed, driver, cuts, faults, suspect>>

Leave ==
    /\ At("return")
    /\ ops' = Front(ops)
    /\ sectorBuf' = IF Len(ops) = 1 THEN [kind |-> "none", image |-> None]
                    ELSE sectorBuf      \* nobody reads it any more
    /\ UNCHANGED <<disk, flushed, fatCache, fatCacheLba, cuts, faults, suspect>>

(***************************************************************************)
(* The directory: root_dir_locate and dirent_writeback.                    *)
(***************************************************************************)
\* root_dir_locate(0, name): a sector that cannot be read counts as "not
\* found", and a save then goes looking for a free slot.
Locate ==
    /\ At("locate")
    /\ \E o \in ReadOutcomes :
        /\ Account(o)
        /\ sectorBuf' = IF o = "ok" THEN [kind |-> "dir", image |-> dir] ELSE sectorBuf
        /\ LET f == Top
               found == Find(dir, f.name)
               s == Least(found)
           IN  Continue(
                 IF o = "ok" /\ found # {} THEN
                    IF f.op = "save"
                    THEN NextCluster([f EXCEPT !.slot = s, !.old = dir[s].first])
                    ELSE IF dir[s].size > 0 /\ dir[s].first \in Clusters
                    THEN [f EXCEPT !.pc = "read", !.cur = dir[s].first, !.size = dir[s].size]
                    ELSE Return(f, "ok")
                 ELSE IF f.op = "save"
                 THEN [f EXCEPT !.pc = "slot", !.flawed = found # {}]
                 ELSE Return(f, "error"))
    /\ UNCHANGED <<disk, flushed, fatCache, fatCacheLba, cuts, suspect>>

\* root_dir_locate(1, name).
FindSlot ==
    /\ At("slot")
    /\ \E o \in ReadOutcomes :
        /\ Account(o)
        /\ sectorBuf' = IF o = "ok" THEN [kind |-> "dir", image |-> dir] ELSE sectorBuf
        /\ LET empty == Find(dir, None)
           IN  Continue(IF o = "ok" /\ empty # {}
                        THEN NextCluster([Top EXCEPT !.slot = Least(empty)])
                        ELSE Return(Top, "error"))
    /\ UNCHANGED <<disk, flushed, fatCache, fatCacheLba, cuts, suspect>>

\* dirent_writeback's read, and the memcpy of the updated entry over it.
Patch ==
    /\ At("commit")
    /\ \E o \in ReadOutcomes :
        /\ Account(o)
        /\ IF o = "ok"
           THEN /\ sectorBuf' = [kind |-> "dir",
                      image |-> [dir EXCEPT ![Top.slot] =
                                    [name |-> Top.name, first |-> Top.first,
                                     size |-> Size(Top.ver)]]]
                /\ Continue([Top EXCEPT !.pc = "writeback"])
           ELSE /\ UNCHANGED sectorBuf
                /\ Continue(GiveUp(Top))
    /\ UNCHANGED <<disk, flushed, fatCache, fatCacheLba, cuts, suspect>>

\* Mutant: the result of dirent_writeback is not looked at.
Writeback_Unchecked ==
    /\ At("writeback")
    /\ \E o \in WriteOutcomes :
        /\ Account(o)
        /\ dir' = IF o = "lost" THEN dir
                  ELSE IF sectorBuf.kind = "dir" THEN sectorBuf.image ELSE Rubbish
        /\ Continue(FreeChain(Top, Top.old, "ok"))
        /\ suspect' = IF Top.flawed THEN suspect \cup {Top.name}
                      ELSE suspect \ {Top.name}
    /\ UNCHANGED <<fat, data, flushed, driver, cuts>>

\* dirent_writeback's write: the commit point.
Writeback ==
    /\ At("writeback")
    /\ \E o \in WriteOutcomes :
        /\ Account(o)
        /\ dir' = IF o = "lost" THEN dir
                  ELSE IF sectorBuf.kind = "dir" THEN sectorBuf.image ELSE Rubbish
        /\ Continue(IF o = "ok" THEN FreeChain(Top, Top.old, "ok") ELSE GiveUp(Top))
        /\ suspect' = IF o = "lost" THEN suspect
                      ELSE IF o = "late" \/ Top.flawed THEN suspect \cup {Top.name}
                      ELSE suspect \ {Top.name}
    /\ UNCHANGED <<fat, data, flushed, driver, cuts>>

(***************************************************************************)
(* The FAT: fat_next_cluster, fat_set, fat_alloc_cluster, fat_free_chain.  *)
(***************************************************************************)
ReadingFat == {"scan", "next", "follow"}
SettingFat == {"claim", "link", "release"}
UsesFat == ops # <<>> /\ Top.pc \in ReadingFat \cup SettingFat /\ Top.mirror = 0
\* Mutant: the tag of the cache is not compared with the sector wanted.
Cached_AnySector == fatCacheLba # NoSector \/ Top.loaded
Cached == fatCacheLba = FatSector(Target(Top)) \/ Top.loaded

\* lba != fat_cache_lba: read the sector of FAT copy 0.  fat_cache_lba is
\* only set after the read has returned.
LoadFat ==
    /\ UsesFat /\ ~Cached
    /\ \E o \in ReadOutcomes :
        /\ Account(o)
        /\ IF o = "ok"
           THEN /\ fatCache' = [c \in Clusters |->
                        IF FatSector(c) = FatSector(Target(Top)) THEN fat[1][c]
                        ELSE Free]
                /\ Continue([Top EXCEPT !.loaded = TRUE])
           ELSE /\ UNCHANGED fatCache
                /\ Continue(IF Top.pc \in ReadingFat THEN AfterNext(Top, Eoc)
                            ELSE AfterSet(Top, FALSE))
    /\ UNCHANGED <<disk, flushed, fatCacheLba, sectorBuf, cuts, suspect>>

\* fat_next_cluster returns the cached entry.
NextEntry ==
    /\ UsesFat /\ Cached /\ Top.pc \in ReadingFat
    /\ fatCacheLba' = FatSector(Target(Top))
    /\ Continue(AfterNext(Top, fatCache[Target(Top)]))
    /\ UNCHANGED <<disk, flushed, fatCache, sectorBuf, cuts, faults, suspect>>

\* fat_set changes the cache before it writes the FAT copies.
SetEntry ==
    /\ UsesFat /\ Cached /\ Top.pc \in SettingFat
    /\ fatCacheLba' = FatSector(Target(Top))
    /\ fatCache' = [fatCache EXCEPT ![Target(Top)] = NewValue(Top)]
    /\ Continue([Top EXCEPT !.mirror = 1])
    /\ UNCHANGED <<disk, flushed, sectorBuf, cuts, faults, suspect>>

\* Mutant: one FAT copy too many.
WriteFat_OneMore ==
    /\ ops # <<>> /\ Top.mirror > 0
    /\ \E o \in WriteOutcomes :
        /\ Account(o)
        /\ fat' = IF o = "lost" THEN fat
                  ELSE [fat EXCEPT ![Top.mirror] = [c \in Clusters |->
                            IF FatSector(c) = FatSector(Target(Top))
                            THEN fatCache[c] ELSE fat[Top.mirror][c]]]
        /\ Continue(IF o = "ok" /\ Top.mirror <= NumFats
                    THEN [Top EXCEPT !.mirror = @ + 1]
                    ELSE AfterSet(Top, o = "ok"))
    /\ UNCHANGED <<data, dir, flushed, driver, cuts, suspect>>

\* disk_write_sector of the cached sector into FAT copy mirror; the first
\* failure ends fat_set.
WriteFat ==
    /\ ops # <<>> /\ Top.mirror > 0
    /\ \E o \in WriteOutcomes :
        /\ Account(o)
        /\ fat' = IF o = "lost" THEN fat
                  ELSE [fat EXCEPT ![Top.mirror] = [c \in Clusters |->
                            IF FatSector(c) = FatSector(Target(Top))
                            THEN fatCache[c] ELSE fat[Top.mirror][c]]]
        /\ Continue(IF o = "ok" /\ Top.mirror < NumFats
                    THEN [Top EXCEPT !.mirror = @ + 1]
                    ELSE AfterSet(Top, o = "ok"))
    /\ UNCHANGED <<data, dir, flushed, driver, cuts, suspect>>

(***************************************************************************)
(* The data.                                                               *)
(***************************************************************************)
\* memset and memcpy of the next block into sector_buf.
Fill ==
    /\ At("fill")
    /\ sectorBuf' = [kind |-> "block", image |-> <<Top.name, Top.ver, Top.i + 1>>]
    /\ Continue([Top EXCEPT !.pc = "write"])
    /\ UNCHANGED <<disk, flushed, fatCache, fatCacheLba, cuts, faults, suspect>>

Write ==
    /\ At("write")
    /\ \E o \in WriteOutcomes :
        /\ Account(o)
        /\ data' = IF o = "lost" THEN data
                   ELSE [data EXCEPT ![Top.cur] =
                            IF sectorBuf.kind = "block" THEN sectorBuf.image ELSE Torn]
        /\ Continue(IF o = "ok"
                    THEN NextCluster([Top EXCEPT !.i = @ + 1, !.prev = Top.cur])
                    ELSE GiveUp(Top))
    /\ UNCHANGED <<fat, dir, flushed, driver, cuts, suspect>>

\* fat32_read_impl: a data sector into sector_buf; an error ends the read
\* with what has been copied so far.
Read ==
    /\ At("read")
    /\ \E o \in ReadOutcomes :
        /\ Account(o)
        /\ IF o = "ok"
           THEN /\ sectorBuf' = [kind |-> "block", image |-> data[Top.cur]]
                /\ Continue([Top EXCEPT !.pc = "copy"])
           ELSE /\ UNCHANGED sectorBuf
                /\ Continue(Return(Top, "ok"))
    /\ UNCHANGED <<disk, flushed, fatCache, fatCacheLba, cuts, suspect>>

\* memcpy from sector_buf to the caller.
Copy ==
    /\ At("copy")
    /\ Continue([Top EXCEPT !.pc = "follow", !.i = @ + 1,
                   !.got = Append(@, IF sectorBuf.kind = "block"
                                     THEN sectorBuf.image ELSE Torn)])
    /\ UNCHANGED <<disk, flushed, driver, cuts, faults, suspect>>

\* disk_flush() at the very end of a successful save.
Flush ==
    /\ At("flush")
    /\ flushed' = IF WriteCache THEN disk ELSE flushed
    /\ Continue(Return(Top, Top.ret))
    /\ UNCHANGED <<disk, driver, cuts, faults, suspect>>

(***************************************************************************)
(* A power cut: the driver's memory is gone and the console boots again.   *)
(* A drive with a write cache keeps any subset of the sectors written      *)
(* since the last flush.                                                   *)
(***************************************************************************)
Unflushed ==
    IF ~WriteCache THEN {}
    ELSE {<<"data", c>> : c \in {c \in Clusters : data[c] # flushed[2][c]}}
         \cup {<<"dir", 0>> : x \in {x \in {dir} : x # flushed[3]}}
         \cup {<<"fat", p[1], FatSector(p[2])>> :
                  p \in {p \in Copies \X Clusters : fat[p[1]][p[2]] # flushed[1][p[1]][p[2]]}}

PowerCut ==
    /\ cuts < MaxCuts
    /\ cuts' = cuts + 1
    /\ \E lost \in SUBSET Unflushed :
        /\ data' = [c \in Clusters |-> IF <<"data", c>> \in lost THEN flushed[2][c]
                                     ELSE data[c]]
        /\ dir' = IF <<"dir", 0>> \in lost THEN flushed[3] ELSE dir
        /\ fat' = [k \in Copies |-> [c \in Clusters |->
                      IF <<"fat", k, FatSector(c)>> \in lost THEN flushed[1][k][c]
                      ELSE fat[k][c]]]
        /\ flushed' = IF WriteCache THEN disk' ELSE flushed
    /\ ops' = <<>>
    /\ fatCache' = [c \in Clusters |-> Free]
    /\ fatCacheLba' = NoSector
    /\ sectorBuf' = [kind |-> "none", image |-> None]
    /\ UNCHANGED <<faults, suspect>>

-----------------------------------------------------------------------------
Next ==
    \/ \E n \in Names, v \in Versions : <<n, v>> \in Saves /\ BeginSave(n, v)
    \/ \E n \in Names : BeginLoad(n)
    \/ Leave
    \/ Locate \/ FindSlot \/ Patch \/ Writeback
    \/ LoadFat \/ NextEntry \/ SetEntry \/ WriteFat
    \/ Fill \/ Write \/ Read \/ Copy \/ Flush
    \/ PowerCut

Spec == Init /\ [][Next]_vars

-----------------------------------------------------------------------------
(***************************************************************************)
(* What the medium holds: what a load after a reboot returns.              *)
(***************************************************************************)
\* The first clusters, n + 1 at most, of the chain that starts at c.
Walk(links, c, n) ==
    LET step[k \in 0 .. n] ==
            IF k = 0 THEN c
            ELSE LET last == step[k - 1]
                 IN  IF last \in Clusters THEN links[last] ELSE Eoc
        length == CHOOSE m \in 0 .. n + 1 : \A k \in 0 .. n : step[k] \in Clusters <=> k < m
    IN  [k \in 1 .. length |-> step[k - 1]]

ChainOf(s) ==
    IF dir[s].name \in Names THEN Walk(fat[1], dir[s].first, NumClusters) ELSE <<>>
BlocksOf(n, v) == [i \in 1 .. Size(v) |-> <<n, v, i>>]

\* The version whose blocks a file's chain carries, ending exactly there, on
\* a volume of such links, blocks and directory.
ContentIn(links, blocks, image, n) ==
    IF Find(image, n) = {} THEN None
    ELSE LET entry == image[Least(Find(image, n))]
             chain == Walk(links, entry.first, entry.size)
             read == [i \in 1 .. Len(chain) |-> blocks[chain[i]]]
             whole == {v \in Versions : entry.size = Size(v) /\ read = BlocksOf(n, v)}
         IN  IF whole = {} \/ \E i \in 1 .. Len(chain) : links[chain[i]] = Free
             THEN Torn ELSE CHOOSE v \in whole : TRUE
Content(n) == ContentIn(fat[1], data, dir, n)

(***************************************************************************)
(* Properties.                                                             *)
(***************************************************************************)
\* fat32_save replaces a file as a whole or not at all, whenever the power
\* is cut and whichever disk access fails, and reports which.
content == [n \in Names |-> Content(n)]
saving ==
    IF ops = <<>> \/ (ops # <<>> /\ Top.op = "load") THEN None
    ELSE [name |-> Top.name, ver |-> Top.ver, committed |-> Top.ret = "ok"]
Slots == INSTANCE SaveSlots WITH content <- content, suspect <- suspect, saving <- saving
SaveReplacesWhole == Slots!Spec

\* No cluster belongs to two files, and none that a file uses is marked
\* free in the FAT that decides what the next save may take.
ChainsDisjoint ==
    \A s, t \in 1 .. DirSlots :
        LET a == ChainOf(s) b == ChainOf(t)
        IN  /\ s # t => \A i \in 1 .. Len(a), j \in 1 .. Len(b) : a[i] # b[j]
            /\ \A i \in 1 .. Len(a) : fat[1][a[i]] # Free

\* A load returns the beginning of what is on the disk, all of it unless a
\* disk access failed, and never a mixture of two saves.
LoadIsConsistent ==
    (At("return") /\ Top.op = "load" /\ Top.name \notin suspect /\ Content(Top.name) # None)
        => /\ IsPrefix(Top.got, BlocksOf(Top.name, Content(Top.name)))
           /\ faults = 0 => Len(Top.got) = Size(Content(Top.name))

\* fat32.c, crash-safety comment: what an interrupted save leaks is "bounded
\* by one save file per crash"; a failed disk access leaks no more than that.
LeakIsBounded ==
    LET used == UNION {{ChainOf(s)[i] : i \in 1 .. Len(ChainOf(s))} : s \in 1 .. DirSlots}
        leaked == {c \in Clusters : fat[1][c] # Free} \ used
        largest == CHOOSE m \in {Size(v) : v \in Versions} : \A v \in Versions : Size(v) <= m
    IN  ops = <<>> => Cardinality(leaked) <= largest * (cuts + faults)

\* fat32.c, crash-safety comment: "A power cut at any moment leaves either
\* the complete old file or the complete new one -- never a torn save".
NeverTorn == \A n \in Names : Content(n) # Torn

\* include/fat32.h: "Whole-file replace/read ... fat32_save returns 0 on
\* success": when the save returns 0 the file holds what was saved.
SuccessIsWhole ==
    (At("return") /\ Top.op = "save" /\ Top.ret = "ok") => Content(Top.name) = Top.ver
=============================================================================

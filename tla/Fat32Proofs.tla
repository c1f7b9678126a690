---------------------------- MODULE Fat32Proofs ----------------------------
(***************************************************************************)
(* A save replaces a file as a whole or not at all (Fat32 implements       *)
(* SaveSlots), no cluster gets into two files, a load returns one version, *)
(* and an interrupted save leaks no more than a file: for volumes, files   *)
(* and FAT sectors of every size, any number of FAT copies, failed disk    *)
(* accesses and power cuts.                                                *)
(***************************************************************************)
EXTENDS Fat32, FiniteSetTheorems, TLAPS, WellFoundedInduction

\* One operation at a time, on a drive that writes in order and says what it
\* has written.
Orderly == MaxDepth = 1 /\ ~LateFaults /\ ~WriteCache

-----------------------------------------------------------------------------
(***************************************************************************)
(* The invariant.                                                          *)
(***************************************************************************)
\* What may be read of a FAT entry from now on: what the first copy on the
\* disk holds, and what the cache does.
May(links, cache, tag) ==
    [c \in Clusters |-> IF FatSector(c) = tag THEN {links[c], cache[c]} ELSE {links[c]}]

\* The FAT sector in the cache; fat_cache_lba lags behind a read.
Tag(x, lba) == IF x # <<>> /\ x[1].loaded THEN FatSector(Target(x[1])) ELSE lba

\* Who a cluster belongs to: the entry of the directory, the operation in
\* flight, or 0, nobody.
Mine == DirSlots + 1
Owners == 0 .. Mine

\* m is what may be read of each FAT entry, own the cluster's owner, image
\* the directory.
Closed(m, own) ==
    \A c \in Clusters : own[c] # 0 => \A x \in m[c] : x \in Clusters => own[x] = own[c]
Kept(m, own) == \A c \in Clusters : own[c] \in 1 .. DirSlots => Free \notin m[c]
Entered(image, own) ==
    \A s \in 1 .. DirSlots :
        image[s].name \in Names /\ image[s].first \in Clusters => own[image[s].first] = s
Volume(m, image, own) == Closed(m, own) /\ Kept(m, own) /\ Entered(image, own)

\* The place of a file in the directory.
IsHome(image, n, s) ==
    image[s].name = n /\ \A t \in 1 .. DirSlots : image[t].name = n => s <= t
Homeless(image, n) == \A t \in 1 .. DirSlots : image[t].name # n

\* The links of the clusters q of a file of k clusters, as m has them.
Start(q, k) == IF k = 0 THEN 0 ELSE q[1]
After(q, k, j) == IF j < k THEN q[j + 1] ELSE Eoc
Linked(q, k, m) == \A j \in 1 .. k : m[q[j]] \subseteq {After(q, k, j)}

\* Entry s holds version v of file n, whole, in the clusters q.
Holds(s, n, v, q, m, blocks, image, own) ==
    /\ v \in Versions /\ q \in [1 .. Size(v) -> Clusters] /\ Linked(q, Size(v), m)
    /\ \A j \in 1 .. Size(v) : own[q[j]] = s /\ blocks[q[j]] = <<n, v, j>>
    /\ image[s].size = Size(v) /\ image[s].first = Start(q, Size(v))

\* Every file that nothing was swallowed of is in its place.
Files(m, blocks, image, doubtful, own, ver, path) ==
    \A n \in Names \ doubtful, s \in 1 .. DirSlots :
        IsHome(image, n, s) => Holds(s, n, ver[n], path[n], m, blocks, image, own)

\* A save up to its commit.
Allocating == {"scan", "claim", "link", "fill", "write"}
Aimed == Allocating \cup {"commit", "writeback"}
Building == Aimed \cup {"locate", "slot"}
Taken(f) == IF f.pc \in {"link", "fill", "write"} THEN f.i + 1 ELSE f.i

\* p are the clusters it has taken.
Takes(f, m, blocks, own, p) ==
    /\ p \in [1 .. Taken(f) -> Clusters]
    /\ \A i, j \in 1 .. Taken(f) : p[i] = p[j] => i = j
    /\ \A c \in Clusters : own[c] = Mine <=> \E j \in 1 .. Taken(f) : p[j] = c
    /\ \A j \in 1 .. Taken(f) : Free \notin m[p[j]]
    /\ \A j \in 1 .. f.i : blocks[p[j]] = <<f.name, f.ver, j>>
    /\ f.first = Start(p, Taken(f))
    /\ f.prev = IF f.i = 0 THEN 0 ELSE p[f.i]
    /\ Taken(f) = f.i + 1 => f.cur = p[f.i + 1]

\* Their links, the one to be set next excepted.
Strung(f, m, p) ==
    \A j \in 1 .. Taken(f) :
        ~(f.pc = "link" /\ j = f.i) => m[p[j]] \subseteq {After(p, Taken(f), j)}

\* Its entry is the file's, or an empty one for a file that has none.
Aims(f, image) ==
    /\ f.slot \in 1 .. DirSlots
    /\ \/ IsHome(image, f.name, f.slot) /\ f.old = image[f.slot].first
       \/ image[f.slot].name = None /\ f.old = 0 /\ (~f.flawed => Homeless(image, f.name))

\* The save f, with the clusters p.
SaveFits(f, m, blocks, image, own, p) ==
    /\ f.pc \in Building =>
        /\ Takes(f, m, blocks, own, p)
        /\ ~f.flawed => Strung(f, m, p)
    /\ f.pc \in Aimed => Aims(f, image)
    /\ f.pc = "slot" /\ ~f.flawed => Homeless(image, f.name)
    /\ f.pc \in {"locate", "slot"} => f.i = 0 /\ f.old = 0
    /\ f.pc = "claim" => own[f.cur] = 0
    /\ f.mirror > 1 => m[Target(f)] \subseteq {NewValue(f)}
    /\ f.pc \in {"next", "release"} => own[f.cur] = Mine
    /\ f.pc = "release" /\ f.nxt \in Clusters => own[f.nxt] = Mine

\* A load of version v of file n, whose clusters are q.
LoadFits(f, buf, errors, v, q) ==
    /\ Len(f.got) <= Size(v)
    /\ \A j \in 1 .. Len(f.got) : f.got[j] = <<f.name, v, j>>
    /\ f.pc \in {"read", "copy", "follow"} => f.i = Len(f.got) /\ f.size = Size(v)
    /\ f.pc \in {"read", "copy"} => f.i < Size(v) /\ f.cur = q[f.i + 1]
    /\ f.pc = "copy" => buf.kind = "block" /\ buf.image = <<f.name, v, f.i + 1>>
    /\ f.pc = "follow" => f.i >= 1 /\ f.cur = q[f.i]
    /\ f.pc = "return" /\ errors = 0 => Len(f.got) = Size(v)

\* Where an operation can stand, and what it has in sector_buf and fat_cache.
FrameFits(f, image, buf, cache, lba) ==
    /\ f \in Frames
    /\ f.op = "save" => f.ver \in Versions /\ f.pc \notin {"read", "copy", "follow"}
    /\ f.op = "load" => f.pc \in {"locate", "read", "copy", "follow", "return"}
    /\ f.pc = "locate" => f.i = 0 /\ f.got = <<>>
    /\ f.pc \in {"scan", "claim", "link", "fill", "write", "next", "release", "read", "copy",
                 "follow"} => f.cur \in Clusters /\ Target(f) \in Clusters
    /\ f.loaded => f.pc \in ReadingFat \cup SettingFat
    /\ f.mirror > 0 => /\ f.pc \in SettingFat
                       /\ lba = FatSector(Target(f)) /\ cache[Target(f)] = NewValue(f)
    /\ f.op = "save" /\ f.pc \in Building => f.ret = "none" /\ f.i <= Size(f.ver)
    /\ f.pc \in Allocating => f.i < Size(f.ver)
    /\ f.pc \in {"commit", "writeback"} => f.i = Size(f.ver)
    /\ f.pc \in {"next", "release", "return"} => f.ret \in {"ok", "error"}
    /\ f.pc = "flush" => f.ret = "ok"
    /\ f.pc = "write" => buf.kind = "block" /\ buf.image = <<f.name, f.ver, f.i + 1>>
    /\ f.pc = "copy" => buf.kind = "block" /\ buf.image \in Blocks
    /\ f.pc = "writeback" =>
        /\ buf.kind = "dir"
        /\ buf.image = [image EXCEPT ![f.slot] =
                            [name |-> f.name, first |-> f.first, size |-> Size(f.ver)]]

\* The load f, unless its file is in doubt or not there.
Loads(f, image, doubtful, buf, errors, ver, path) ==
    f.op = "load" /\ f.pc # "locate" /\ f.name \notin doubtful =>
        \A s \in 1 .. DirSlots : IsHome(image, f.name, s) =>
            LoadFits(f, buf, errors, ver[f.name], path[f.name])

\* own, p, ver and path witness that the volume is in order.
Ghosts(m, blocks, image, doubtful, errors, x, buf, own, p, ver, path) ==
    /\ own \in [Clusters -> Owners]
    /\ Volume(m, image, own)
    /\ Files(m, blocks, image, doubtful, own, ver, path)
    /\ x # <<>> =>
        /\ x[1].op = "save" => SaveFits(x[1], m, blocks, image, own, p)
        /\ Loads(x[1], image, doubtful, buf, errors, ver, path)

\* What does not need the witnesses.
Types ==
    /\ fat \in [Copies -> [Clusters -> Links]]
    /\ data \in [Clusters -> Blocks]
    /\ dir \in Directory
    /\ fatCache \in [Clusters -> Links] /\ fatCacheLba \in Sectors
    /\ sectorBuf.kind \in {"none", "dir", "block"}
    /\ cuts \in 0 .. MaxCuts /\ faults \in 0 .. MaxFaults
    /\ suspect \subseteq Names
    /\ ops = <<>> \/ /\ ops = <<ops[1]>>
                     /\ FrameFits(ops[1], dir, sectorBuf, fatCache, fatCacheLba)

\* The witnesses fit the state.
Now(own, p, ver, path) ==
    Ghosts(May(fat[1], fatCache, Tag(ops, fatCacheLba)), data, dir, suspect, faults, ops,
           sectorBuf, own, p, ver, path)

\* The inductive invariant.
VolumeInv == Types /\ \E own, p, ver, path : Now(own, p, ver, path)

-----------------------------------------------------------------------------
(***************************************************************************)
(* Numbers.                                                                *)
(***************************************************************************)
LEMMA LeastOf ==
  ASSUME NEW S \in SUBSET Nat, S # {}
  PROVE  \E m \in S : \A k \in S : m <= k
<1>1. \E m \in S : \A k \in S : ~ (<<k, m>> \in OpToRel(<, Nat))
  BY NatLessThanWellFounded, WFMin, Zenon
<1>2. PICK m \in S : \A k \in S : ~ (<<k, m>> \in OpToRel(<, Nat))
  BY <1>1
<1>3. ASSUME NEW k \in S PROVE m <= k
  <2>1. ~ (<<k, m>> \in OpToRel(<, Nat))
    BY <1>2
  <2>2. QED
    BY <2>1 DEF OpToRel
<1>4. QED
  BY <1>3

\* Clusters are numbers, and neither Free nor Eoc is one.
LEMMA Numbers ==
  /\ NumClusters \in Nat /\ NumClusters >= 1 /\ NumFats \in Nat /\ NumFats >= 1
  /\ EntriesPerSector \in Nat /\ EntriesPerSector >= 1 /\ DirSlots \in Nat
  /\ Mine \in Owners /\ Mine # 0 /\ Mine \notin 1 .. DirSlots /\ 0 \in Owners
  /\ \A s \in 1 .. DirSlots : s \in Owners /\ s # 0 /\ s # Mine
  /\ \A c \in Clusters : c \in Nat /\ c # 0 /\ c # Free /\ c # Eoc
  /\ Free = 0 /\ Eoc \in Nat /\ Eoc # 0 /\ Eoc \notin Clusters /\ Free \notin Clusters
  /\ 2 \in Clusters /\ 1 \in Copies
  /\ \A v \in Versions : Size(v) \in Nat
BY GeometryAssumption DEF Clusters, Free, Eoc, Mine, Owners, Copies

\* Division keeps the order.
LEMMA Quotient ==
  ASSUME NEW a \in Nat, NEW b \in Nat, NEW e \in Nat, e >= 1, a <= b
  PROVE  a \div e \in Nat /\ a \div e <= b \div e
<1> DEFINE p == a \div e
           q == b \div e
<1>1. p \in Nat /\ q \in Nat
  OBVIOUS
<1>2. a = e * p + (a % e) /\ a % e \in 0 .. e - 1
  OBVIOUS
<1>3. b = e * q + (b % e) /\ b % e \in 0 .. e - 1
  OBVIOUS
<1> QED
  OBVIOUS

\* The FAT sector of a cluster is one the cache may be tagged with.
LEMMA SectorOf ==
  /\ NoSector \in Sectors
  /\ \A c \in Clusters : FatSector(c) \in Sectors /\ FatSector(c) # NoSector
<1>1. ASSUME NEW c \in Clusters PROVE FatSector(c) \in Nat /\ FatSector(c) <= FatSector(Eoc)
  BY Numbers, Quotient DEF Clusters, Eoc, FatSector
<1>2. FatSector(Eoc) \in Nat
  BY Numbers, Quotient DEF Eoc, FatSector
<1> QED
  BY <1>1, <1>2 DEF NoSector, Sectors

\* The first entry of a name.
LEMMA LeastIs ==
  ASSUME NEW image, NEW n, Find(image, n) # {}
  PROVE  /\ Least(Find(image, n)) \in 1 .. DirSlots
         /\ IsHome(image, n, Least(Find(image, n)))
<1> PICK S : S = Find(image, n)
  OBVIOUS
<1>1. S \in SUBSET Nat /\ S # {} /\ S \subseteq 1 .. DirSlots
  BY Numbers DEF Find
<1>2. \E m \in S : \A k \in S : m <= k
  BY <1>1, LeastOf
<1>3. Least(S) \in S /\ \A k \in S : Least(S) <= k
  BY <1>2 DEF Least
<1> QED
  BY <1>1, <1>3 DEF Find, IsHome

\* root_dir_locate finds a file's place.
LEMMA HomeIsLeast ==
  ASSUME NEW image, NEW n, NEW s \in 1 .. DirSlots, IsHome(image, n, s)
  PROVE  Find(image, n) # {} /\ Least(Find(image, n)) = s
<1>1. s \in Find(image, n)
  BY DEF Find, IsHome
<1>2. /\ Least(Find(image, n)) \in 1 .. DirSlots
      /\ IsHome(image, n, Least(Find(image, n)))
  BY <1>1, LeastIs
<1> QED
  BY <1>1, <1>2, Numbers DEF IsHome

\* And none if it has none.
LEMMA HomelessIs ==
  ASSUME NEW image, NEW n
  PROVE  Homeless(image, n) <=> Find(image, n) = {}
BY DEF Homeless, Find

-----------------------------------------------------------------------------
(***************************************************************************)
(* Frames.                                                                 *)
(***************************************************************************)
LEMMA FrameHas ==
  ASSUME NEW f \in Frames
  PROVE  /\ f.op \in {"save", "load"} /\ f.name \in Names /\ f.ver \in Versions \cup {None}
         /\ f.pc \in Places /\ f.slot \in 0 .. DirSlots
         /\ f.old \in {0} \cup Clusters /\ f.first \in {0} \cup Clusters
         /\ f.prev \in {0} \cup Clusters /\ f.cur \in {0, Eoc} \cup Clusters
         /\ f.nxt \in Links /\ f.i \in Nat /\ f.size \in Nat /\ f.got \in Seq(Blocks)
         /\ f.mirror \in 0 .. NumFats /\ f.loaded \in BOOLEAN /\ f.flawed \in BOOLEAN
         /\ f.ret \in {"none", "ok", "error"}
BY DEF Frames

\* What an operation that is done with its work has left.
Over(g, f, ret) ==
    /\ g \in Frames
    /\ g.op = f.op /\ g.name = f.name /\ g.ver = f.ver /\ g.got = f.got /\ g.ret = ret
    /\ g.mirror = 0 /\ ~g.loaded /\ g.i = 0 /\ g.slot = 0 /\ g.old = 0

\* An operation that begins.
LEMMA NewFrameIs ==
  ASSUME NEW op \in {"save", "load"}, NEW n \in Names, NEW v \in Versions \cup {None},
         NEW g, g = NewFrame(op, n, v)
  PROVE  /\ g \in Frames /\ g.op = op /\ g.name = n /\ g.ver = v /\ g.pc = "locate"
         /\ g.slot = 0 /\ g.old = 0 /\ g.first = 0 /\ g.prev = 0 /\ g.cur = 0 /\ g.i = 0
         /\ g.size = 0 /\ g.got = <<>> /\ g.mirror = 0 /\ ~g.loaded /\ ~g.flawed
         /\ g.ret = "none"
<1>1. /\ "locate" \in Places /\ 0 \in 0 .. DirSlots /\ 0 \in 0 .. NumFats /\ Free \in Links
      /\ <<>> \in Seq(Blocks)
  BY Numbers DEF Places, Links
<1> QED
  BY <1>1 DEF NewFrame, Frames

\* Return leaves an operation that is done.
LEMMA ReturnIs ==
  ASSUME NEW f \in Frames, NEW ret \in {"ok", "error"}, NEW g, g = Return(f, ret)
  PROVE  Over(g, f, ret) /\ g.pc = "return"
<1>1. "return" \in Places
  BY DEF Places
<1>2. f.op \in {"save", "load"} /\ f.name \in Names /\ f.ver \in Versions \cup {None}
      /\ f.got \in Seq(Blocks)
  BY FrameHas
<1> PICK h : h = NewFrame(f.op, f.name, f.ver)
  OBVIOUS
<1>3. /\ h \in Frames /\ h.op = f.op /\ h.name = f.name /\ h.ver = f.ver
      /\ h.mirror = 0 /\ ~h.loaded /\ h.i = 0 /\ h.slot = 0 /\ h.old = 0
  BY <1>2, NewFrameIs
<1>4. g = [h EXCEPT !.pc = "return", !.ret = ret, !.got = f.got]
  BY DEF Return
<1>5. /\ g.op = h.op /\ g.name = h.name /\ g.ver = h.ver /\ g.got = f.got /\ g.ret = ret
      /\ g.mirror = h.mirror /\ g.loaded = h.loaded /\ g.i = h.i /\ g.pc = "return"
      /\ g.slot = h.slot /\ g.old = h.old
  BY <1>3, <1>4 DEF Frames
<1>6. g \in Frames
  BY <1>1, <1>2, <1>3, <1>4, ZenonT(60) DEF Frames
<1> QED
  BY <1>3, <1>5, <1>6 DEF Over

\* FreeChain, one that has only a chain left to free.
LEMMA FreeChainIs ==
  ASSUME NEW f \in Frames, NEW ret \in {"ok", "error"}, NEW c \in {0} \cup Clusters,
         NEW g, g = FreeChain(f, c, ret)
  PROVE  /\ Over(g, f, ret)
         /\ c # 0 => g.pc = "next" /\ g.cur = c
         /\ c = 0 => g.pc = IF ret = "ok" THEN "flush" ELSE "return"
<1>1. "flush" \in Places /\ "next" \in Places
  BY DEF Places
<1> PICK h : h = Return(f, ret)
  OBVIOUS
<1>2. Over(h, f, ret) /\ h.pc = "return"
  BY ReturnIs
<1>3. CASE c # 0
  <2>1. g = [h EXCEPT !.pc = "next", !.cur = c]
    BY <1>3 DEF FreeChain
  <2>2. g \in Frames
    BY <1>1, <1>2, <1>3, <2>1, ZenonT(60) DEF Over, Frames
  <2>3. g.pc = "next" /\ g.cur = c
    BY <1>2, <2>1 DEF Over, Frames
  <2>4. Over(g, f, ret)
    BY <1>2, <2>1, <2>2 DEF Over, Frames
  <2> QED
    BY <1>3, <2>3, <2>4
<1>4. CASE c = 0 /\ ret = "ok"
  <2>1. g = [h EXCEPT !.pc = "flush"]
    BY <1>4 DEF FreeChain
  <2>2. g \in Frames /\ g.pc = "flush"
    BY <1>1, <1>2, <2>1 DEF Over, Frames
  <2>4. Over(g, f, ret)
    BY <1>2, <2>1, <2>2 DEF Over, Frames
  <2> QED
    BY <1>4, <2>2, <2>4
<1>5. CASE c = 0 /\ ret # "ok"
  BY <1>2, <1>5 DEF FreeChain
<1> QED
  BY <1>3, <1>4, <1>5

\* A save that is done with its work, or has given it up.
LEMMA DoneFits ==
  ASSUME NEW f \in Frames, f.op = "save", f.ver \in Versions,
         NEW ret \in {"ok", "error"}, NEW c \in {0} \cup Clusters,
         NEW g, g = FreeChain(f, c, ret),
         NEW m, NEW blocks, NEW image, NEW buf, NEW cache, NEW lba, NEW own, NEW p,
         c # 0 => own[c] = Mine
  PROVE  /\ FrameFits(g, image, buf, cache, lba) /\ SaveFits(g, m, blocks, image, own, p)
         /\ g.op = "save" /\ ~g.loaded /\ g.name = f.name /\ g.ver = f.ver
         /\ g.ret = ret
<1>1. /\ Over(g, f, ret)
      /\ c # 0 => g.pc = "next" /\ g.cur = c
      /\ c = 0 => g.pc = IF ret = "ok" THEN "flush" ELSE "return"
  BY FreeChainIs
<1>2. g.pc \in {"next", "flush", "return"} /\ (g.pc = "flush" => g.ret = "ok")
      /\ (g.pc = "next" => g.cur = c /\ c # 0)
  BY <1>1 DEF Over
<1>3. FrameFits(g, image, buf, cache, lba)
  BY <1>1, <1>2 DEF Over, FrameFits, Target, Building, Aimed, Allocating
<1>4. SaveFits(g, m, blocks, image, own, p)
  BY <1>1, <1>2 DEF Over, SaveFits, Building, Aimed, Allocating
<1> QED
  BY <1>1, <1>3, <1>4 DEF Over

\* The first cluster a save has taken is its own.
LEMMA OwnsFirst ==
  ASSUME NEW f \in Frames, NEW m, NEW blocks, NEW own, NEW p, Takes(f, m, blocks, own, p)
  PROVE  f.first # 0 => own[f.first] = Mine
<1>1. f.i \in Nat /\ Taken(f) \in Nat
  BY FrameHas DEF Taken
<1>2. CASE Taken(f) = 0
  BY <1>2 DEF Takes, Start
<1>3. CASE Taken(f) # 0
  <2>1. 1 \in 1 .. Taken(f)
    BY <1>1, <1>3
  <2>2. p[1] \in Clusters /\ f.first = p[1]
    BY <1>3, <2>1 DEF Takes, Start
  <2> QED
    BY <2>1, <2>2 DEF Takes
<1> QED
  BY <1>2, <1>3

\* A save that gives up goes on to free what it has taken.
LEMMA GivenUpFits ==
  ASSUME NEW f \in Frames, f.op = "save", f.ver \in Versions,
         NEW g, g = GiveUp(f),
         NEW m, NEW blocks, NEW image, NEW buf, NEW cache, NEW lba, NEW own, NEW p,
         f.first # 0 => own[f.first] = Mine
  PROVE  /\ FrameFits(g, image, buf, cache, lba) /\ SaveFits(g, m, blocks, image, own, p)
         /\ g.op = "save" /\ ~g.loaded /\ g.name = f.name /\ g.ver = f.ver
         /\ g.ret = "error"
<1>1. g = FreeChain(f, f.first, "error") /\ f.first \in {0} \cup Clusters
  BY FrameHas DEF GiveUp
<1> QED
  BY <1>1, DoneFits

\* The operation's clusters are the first i of p.
Counts(p, i, own) ==
    /\ p \in [1 .. i -> Clusters]
    /\ \A j, k \in 1 .. i : p[j] = p[k] => j = k
    /\ \A d \in Clusters : own[d] = Mine <=> \E j \in 1 .. i : p[j] = d

\* What a save knows when a cluster has been taken and filled.
Ready(f, m, blocks, image, p) ==
    /\ \A j \in 1 .. f.i : Free \notin m[p[j]]
    /\ \A j \in 1 .. f.i : blocks[p[j]] = <<f.name, f.ver, j>>
    /\ f.first = Start(p, f.i)
    /\ f.prev = IF f.i = 0 THEN 0 ELSE p[f.i]
    /\ ~f.flawed => Linked(p, f.i, m)
    /\ Aims(f, image)

\* The head of the allocation loop, with f.i clusters taken.
LEMMA NextClusterFits ==
  ASSUME NEW f \in Frames, f.op = "save", f.ver \in Versions, f.ret = "none",
         f.mirror = 0, ~f.loaded, f.i <= Size(f.ver),
         NEW g, g = NextCluster(f),
         NEW m, NEW blocks, NEW image, NEW buf, NEW cache, NEW lba, NEW own, NEW p,
         Counts(p, f.i, own), Ready(f, m, blocks, image, p)
  PROVE  /\ FrameFits(g, image, buf, cache, lba) /\ SaveFits(g, m, blocks, image, own, p)
         /\ g.op = "save" /\ ~g.loaded /\ g.name = f.name /\ g.ver = f.ver
         /\ g.ret = "none"
<1>1. /\ f.i \in Nat /\ Size(f.ver) \in Nat /\ "commit" \in Places /\ "scan" \in Places
      /\ 2 \in Clusters
  BY FrameHas, Numbers DEF Places
<1>2. /\ g \in Frames
      /\ g.op = f.op /\ g.name = f.name /\ g.ver = f.ver /\ g.ret = f.ret
      /\ g.slot = f.slot /\ g.old = f.old /\ g.first = f.first /\ g.prev = f.prev
      /\ g.i = f.i /\ g.mirror = 0 /\ ~g.loaded /\ g.flawed = f.flawed
      /\ f.i = Size(f.ver) => g.pc = "commit"
      /\ f.i # Size(f.ver) => g.pc = "scan" /\ g.cur = 2
  <2>1. CASE f.i = Size(f.ver)
    <3>1. g = [f EXCEPT !.pc = "commit"]
      BY <2>1 DEF NextCluster
    <3>2. g \in Frames
      BY <1>1, <3>1 DEF Frames
    <3> QED
      BY <2>1, <3>1, <3>2 DEF Frames
  <2>2. CASE f.i # Size(f.ver)
    <3>1. g = [f EXCEPT !.pc = "scan", !.cur = 2]
      BY <2>2 DEF NextCluster
    <3>2. g \in Frames
      BY <1>1, <3>1, ZenonT(60) DEF Frames
    <3> QED
      BY <2>2, <3>1, <3>2 DEF Frames
  <2> QED
    BY <2>1, <2>2
<1>3. FrameFits(g, image, buf, cache, lba)
  BY <1>1, <1>2 DEF FrameFits, Target, Building, Aimed, Allocating, ReadingFat, SettingFat
<1>4. Taken(g) = f.i /\ g.pc \in {"commit", "scan"}
  BY <1>2 DEF Taken
<1>5. Takes(g, m, blocks, own, p)
  <2>1. g.prev = IF g.i = 0 THEN 0 ELSE p[g.i]
    BY <1>2 DEF Ready
  <2>2. g.first = Start(p, Taken(g))
    BY <1>2, <1>4 DEF Ready
  <2>3. Taken(g) # g.i + 1
    BY <1>1, <1>2, <1>4
  <2>4. \A j \in 1 .. g.i : blocks[p[j]] = <<g.name, g.ver, j>>
    BY <1>2 DEF Ready
  <2>5. /\ p \in [1 .. Taken(g) -> Clusters]
        /\ \A j, k \in 1 .. Taken(g) : p[j] = p[k] => j = k
        /\ \A d \in Clusters : own[d] = Mine <=> \E j \in 1 .. Taken(g) : p[j] = d
    BY <1>4 DEF Counts
  <2>6. \A j \in 1 .. Taken(g) : Free \notin m[p[j]]
    BY <1>4 DEF Ready
  <2> QED
    BY <2>1, <2>2, <2>3, <2>4, <2>5, <2>6 DEF Takes
<1>6. ~g.flawed => Strung(g, m, p)
  BY <1>2, <1>4 DEF Ready, Strung, Linked
<1>7. Aims(g, image)
  BY <1>2 DEF Ready, Aims
<1>8. SaveFits(g, m, blocks, image, own, p)
  BY <1>2, <1>4, <1>5, <1>6, <1>7 DEF SaveFits
<1> QED
  BY <1>2, <1>3, <1>8

-----------------------------------------------------------------------------
(***************************************************************************)
(* The volume: what each kind of disk access does to it.                   *)
(***************************************************************************)
\* Whatever fits goes on to fit when less may be read of the FAT.
Within(m2, m) == \A c \in Clusters : m2[c] \subseteq m[c]

\* To know more of the FAT does no harm to the volume,
LEMMA VolumeShrinks ==
  ASSUME NEW m, NEW m2, Within(m2, m), NEW image, NEW own, Volume(m, image, own)
  PROVE  Volume(m2, image, own)
<1>1. Closed(m2, own)
  BY DEF Volume, Closed, Within
<1>2. Kept(m2, own)
  BY DEF Volume, Kept, Within
<1> QED
  BY <1>1, <1>2 DEF Volume

\* nor to a file,
LEMMA HoldsShrinks ==
  ASSUME NEW m, NEW m2, Within(m2, m), NEW s, NEW n, NEW v, NEW q, NEW blocks,
         NEW image, NEW own, Holds(s, n, v, q, m, blocks, image, own)
  PROVE  Holds(s, n, v, q, m2, blocks, image, own)
<1>1. Linked(q, Size(v), m2)
  BY DEF Holds, Linked, Within
<1> QED
  BY <1>1 DEF Holds

\* nor to all of them,
LEMMA FilesShrink ==
  ASSUME NEW m, NEW m2, Within(m2, m), NEW blocks, NEW image, NEW doubtful, NEW own,
         NEW ver, NEW path, Files(m, blocks, image, doubtful, own, ver, path)
  PROVE  Files(m2, blocks, image, doubtful, own, ver, path)
BY HoldsShrinks DEF Files

\* nor to a save.
LEMMA SaveShrinks ==
  ASSUME NEW f \in Frames, NEW m, NEW m2, Within(m2, m), NEW blocks,
         NEW image, NEW own, NEW p, SaveFits(f, m, blocks, image, own, p),
         f.mirror > 0 => Target(f) \in Clusters
  PROVE  SaveFits(f, m2, blocks, image, own, p)
<1>1. ASSUME Takes(f, m, blocks, own, p) PROVE Takes(f, m2, blocks, own, p)
  <2>1. \A j \in 1 .. Taken(f) : Free \notin m2[p[j]]
    BY <1>1 DEF Takes, Within
  <2> QED
    BY <1>1, <2>1 DEF Takes
<1>2. ASSUME Takes(f, m, blocks, own, p), Strung(f, m, p) PROVE Strung(f, m2, p)
  BY <1>2 DEF Strung, Takes, Within
<1>3. f.mirror > 1 => m2[Target(f)] \subseteq {NewValue(f)}
  <2>1. f.mirror > 1 => f.mirror > 0
    BY FrameHas
  <2> QED
    BY <2>1 DEF SaveFits, Within
<1> QED
  BY <1>1, <1>2, <1>3 DEF SaveFits

\* fat_set changes one entry, to a link within the operation or to no link.
Sets(m2, m, t, v) ==
    /\ t \in Clusters /\ m2[t] \subseteq m[t] \cup {v}
    /\ \A c \in Clusters \ {t} : m2[c] \subseteq m[c]

\* The volume after an entry of the save, or of nobody, has been set.
LEMMA VolumeSet ==
  ASSUME NEW m, NEW m2, NEW t, NEW v, Sets(m2, m, t, v), NEW image,
         NEW own \in [Clusters -> Owners], Volume(m, image, own),
         own[t] \in {0, Mine}, own[t] # 0 /\ v \in Clusters => own[v] = own[t]
  PROVE  Volume(m2, image, own)
<1>1. Closed(m2, own)
  BY DEF Volume, Closed, Sets
<1>2. Kept(m2, own)
  BY Numbers DEF Volume, Kept, Sets
<1> QED
  BY <1>1, <1>2 DEF Volume

\* The files after that.
LEMMA FilesSet ==
  ASSUME NEW m, NEW m2, NEW t, NEW w, Sets(m2, m, t, w), NEW blocks, NEW image,
         NEW doubtful, NEW own, NEW ver, NEW path, own[t] \in {0, Mine},
         Files(m, blocks, image, doubtful, own, ver, path)
  PROVE  Files(m2, blocks, image, doubtful, own, ver, path)
<1>1. ASSUME NEW s \in 1 .. DirSlots, NEW n, NEW v, NEW q,
             Holds(s, n, v, q, m, blocks, image, own)
      PROVE  Holds(s, n, v, q, m2, blocks, image, own)
  <2>1. \A j \in 1 .. Size(v) : q[j] \in Clusters /\ q[j] # t
    BY <1>1, Numbers DEF Holds
  <2>2. Linked(q, Size(v), m2)
    BY <1>1, <2>1 DEF Holds, Linked, Sets
  <2> QED
    BY <1>1, <2>2 DEF Holds
<1> QED
  BY <1>1 DEF Files

\* A block is written to a cluster of the operation in flight.
LEMMA FilesWritten ==
  ASSUME NEW m, NEW blocks, NEW blocks2, NEW t, NEW image, NEW doubtful, NEW own,
         NEW ver, NEW path, own[t] \in {0, Mine},
         \A c \in Clusters \ {t} : blocks2[c] = blocks[c],
         Files(m, blocks, image, doubtful, own, ver, path)
  PROVE  Files(m, blocks2, image, doubtful, own, ver, path)
<1>1. ASSUME NEW s \in 1 .. DirSlots, NEW n, NEW v, NEW q,
             Holds(s, n, v, q, m, blocks, image, own)
      PROVE  Holds(s, n, v, q, m, blocks2, image, own)
  <2>1. \A j \in 1 .. Size(v) : q[j] \in Clusters /\ q[j] # t
    BY <1>1, Numbers DEF Holds
  <2> QED
    BY <1>1, <2>1 DEF Holds
<1> QED
  BY <1>1 DEF Files

\* The clusters of the operation in flight become those of entry s, and those
\* of s its own.
Swapped(own, s) ==
    [c \in Clusters |-> IF own[c] = Mine THEN s ELSE IF own[c] = s THEN Mine ELSE own[c]]
\* Nobody's any more.
Dropped(own) == [c \in Clusters |-> IF own[c] = Mine THEN 0 ELSE own[c]]
\* One more taken.
Added(own, c) == [own EXCEPT ![c] = Mine]

\* A save may let go of all it has taken,
LEMMA VolumeDropped ==
  ASSUME NEW m, NEW image, NEW own \in [Clusters -> Owners], Volume(m, image, own)
  PROVE  /\ Dropped(own) \in [Clusters -> Owners] /\ Volume(m, image, Dropped(own))
         /\ \A c \in Clusters : Dropped(own)[c] # Mine
<1> PICK o : o = Dropped(own)
  OBVIOUS
<1>1. /\ o \in [Clusters -> Owners]
      /\ \A c \in Clusters : o[c] = IF own[c] = Mine THEN 0 ELSE own[c]
  BY Numbers DEF Dropped
<1>2. Closed(m, o)
  BY <1>1 DEF Volume, Closed
<1>3. Kept(m, o)
  BY <1>1, Numbers DEF Volume, Kept
<1>4. Entered(image, o)
  BY <1>1, Numbers DEF Volume, Entered
<1> QED
  BY <1>1, <1>2, <1>3, <1>4, Numbers DEF Volume

\* and no file changes by that.
LEMMA FilesDropped ==
  ASSUME NEW m, NEW blocks, NEW image, NEW doubtful, NEW own \in [Clusters -> Owners],
         NEW ver, NEW path, Files(m, blocks, image, doubtful, own, ver, path)
  PROVE  Files(m, blocks, image, doubtful, Dropped(own), ver, path)
<1> PICK o : o = Dropped(own)
  OBVIOUS
<1>1. \A c \in Clusters : o[c] = IF own[c] = Mine THEN 0 ELSE own[c]
  BY DEF Dropped
<1>2. ASSUME NEW s \in 1 .. DirSlots, NEW n, NEW v, NEW q,
             Holds(s, n, v, q, m, blocks, image, own)
      PROVE  Holds(s, n, v, q, m, blocks, image, o)
  BY <1>1, <1>2, Numbers DEF Holds
<1> QED
  BY <1>2 DEF Files

\* A save may take a cluster that is nobody's,
LEMMA VolumeAdded ==
  ASSUME NEW m, NEW image, NEW own \in [Clusters -> Owners], Volume(m, image, own),
         NEW t \in Clusters, own[t] = 0, m[t] \subseteq {Eoc}
  PROVE  /\ Added(own, t) \in [Clusters -> Owners] /\ Volume(m, image, Added(own, t))
<1> PICK o : o = Added(own, t)
  OBVIOUS
<1>1. /\ o \in [Clusters -> Owners]
      /\ o[t] = Mine /\ \A c \in Clusters \ {t} : o[c] = own[c]
  BY Numbers DEF Added
<1>2. Closed(m, o)
  BY <1>1, Numbers DEF Volume, Closed
<1>3. Kept(m, o)
  BY <1>1, Numbers DEF Volume, Kept
<1>4. Entered(image, o)
  BY <1>1, Numbers DEF Volume, Entered
<1> QED
  BY <1>1, <1>2, <1>3, <1>4 DEF Volume

\* and no file changes by that either.
LEMMA FilesAdded ==
  ASSUME NEW m, NEW blocks, NEW image, NEW doubtful, NEW own \in [Clusters -> Owners],
         NEW t \in Clusters, own[t] = 0,
         NEW ver, NEW path, Files(m, blocks, image, doubtful, own, ver, path)
  PROVE  Files(m, blocks, image, doubtful, Added(own, t), ver, path)
<1> PICK o : o = Added(own, t)
  OBVIOUS
<1>1. o[t] = Mine /\ \A c \in Clusters \ {t} : o[c] = own[c]
  BY DEF Added
<1>2. ASSUME NEW s \in 1 .. DirSlots, NEW n, NEW v, NEW q,
             Holds(s, n, v, q, m, blocks, image, own)
      PROVE  Holds(s, n, v, q, m, blocks, image, o)
  <2>1. \A j \in 1 .. Size(v) : q[j] \in Clusters /\ q[j] # t
    BY <1>2, Numbers DEF Holds
  <2> QED
    BY <1>1, <1>2, <2>1 DEF Holds
<1> QED
  BY <1>2 DEF Files

\* The commit: entry s is n's, and names the clusters p.
Committed(image, s, n, v, p) ==
    [image EXCEPT ![s] = [name |-> n, first |-> Start(p, Size(v)), size |-> Size(v)]]

\* The volume after the commit: the clusters of the entry and of the save are
\* exchanged.
LEMMA VolumeCommitted ==
  ASSUME NEW m, NEW image \in Directory, NEW own \in [Clusters -> Owners],
         Volume(m, image, own), NEW s \in 1 .. DirSlots, NEW n \in Names,
         NEW v \in Versions, NEW p \in [1 .. Size(v) -> Clusters],
         \A j \in 1 .. Size(v) : own[p[j]] = Mine,
         \A c \in Clusters : own[c] = Mine => Free \notin m[c]
  PROVE  /\ Swapped(own, s) \in [Clusters -> Owners]
         /\ Volume(m, Committed(image, s, n, v, p), Swapped(own, s))
<1> PICK o, i2 : o = Swapped(own, s) /\ i2 = Committed(image, s, n, v, p)
  OBVIOUS
<1>1. /\ o \in [Clusters -> Owners]
      /\ \A c \in Clusters : o[c] = IF own[c] = Mine THEN s
                                    ELSE IF own[c] = s THEN Mine ELSE own[c]
  BY Numbers DEF Swapped
<1>2. Closed(m, o)
  BY <1>1, Numbers DEF Volume, Closed
<1>3. Kept(m, o)
  BY <1>1, Numbers DEF Volume, Kept
<1>4. Entered(i2, o)
  <2>1. /\ \A t \in 1 .. DirSlots : t # s => i2[t] = image[t]
        /\ i2[s].first = Start(p, Size(v))
    BY DEF Committed, Directory
  <2>2. \A t \in 1 .. DirSlots : t # s => (i2[t].name \in Names /\ i2[t].first \in Clusters
                                           => o[i2[t].first] = t)
    BY <1>1, <2>1, Numbers DEF Volume, Entered
  <2>3. i2[s].first \in Clusters => o[i2[s].first] = s
    <3>1. CASE Size(v) = 0
      BY <2>1, <3>1, Numbers DEF Start
    <3>2. CASE Size(v) # 0
      <4>1. 1 \in 1 .. Size(v) /\ i2[s].first = p[1]
        BY <2>1, <3>2, Numbers DEF Start
      <4> QED
        BY <1>1, <4>1
    <3> QED
      BY <3>1, <3>2
  <2> QED
    BY <2>2, <2>3 DEF Entered
<1> QED
  BY <1>1, <1>2, <1>3, <1>4 DEF Volume

\* The files other than the one saved are as they were.
LEMMA FilesCommitted ==
  ASSUME NEW m, NEW blocks, NEW image \in Directory, NEW doubtful,
         NEW own \in [Clusters -> Owners], NEW ver, NEW path,
         Files(m, blocks, image, doubtful, own, ver, path),
         NEW s \in 1 .. DirSlots, NEW n \in Names, image[s].name \in {n, None},
         NEW v \in Versions, NEW p \in [1 .. Size(v) -> Clusters],
         NEW image2, image2 = Committed(image, s, n, v, p)
  PROVE  Files(m, blocks, image2, doubtful \cup {n}, Swapped(own, s), ver, path)
<1> PICK o : o = Swapped(own, s)
  OBVIOUS
<1>1. \A c \in Clusters : o[c] = IF own[c] = Mine THEN s
                                 ELSE IF own[c] = s THEN Mine ELSE own[c]
  BY DEF Swapped
<1>2. \A t \in 1 .. DirSlots : t # s => image2[t] = image[t]
  BY DEF Committed, Directory
<1>3. image2[s].name = n
  BY DEF Committed, Directory
<1>4. ASSUME NEW a \in Names \ (doubtful \cup {n}), NEW t \in 1 .. DirSlots,
             IsHome(image2, a, t)
      PROVE  Holds(t, a, ver[a], path[a], m, blocks, image2, o)
  <2>1. a # n /\ a # None /\ t # s
    BY <1>3, <1>4, GeometryAssumption DEF IsHome
  <2>2. IsHome(image, a, t)
    BY <1>2, <1>3, <1>4, <2>1 DEF IsHome
  <2>3. Holds(t, a, ver[a], path[a], m, blocks, image, own)
    BY <2>2 DEF Files
  <2>4. \A j \in 1 .. Size(ver[a]) : o[path[a][j]] = t
    BY <1>1, <2>1, <2>3, Numbers DEF Holds
  <2> QED
    BY <1>2, <2>1, <2>3, <2>4 DEF Holds
<1> QED
  BY <1>4 DEF Files

\* The file that has been saved holds what was saved.
LEMMA HoldsCommitted ==
  ASSUME NEW m, NEW blocks, NEW image \in Directory,
         NEW own \in [Clusters -> Owners],
         NEW s \in 1 .. DirSlots, NEW n \in Names,
         NEW v \in Versions, NEW p \in [1 .. Size(v) -> Clusters], Linked(p, Size(v), m),
         \A j \in 1 .. Size(v) : own[p[j]] = Mine /\ blocks[p[j]] = <<n, v, j>>
  PROVE  Holds(s, n, v, p, m, blocks, Committed(image, s, n, v, p), Swapped(own, s))
<1> PICK o, i2 : o = Swapped(own, s) /\ i2 = Committed(image, s, n, v, p)
  OBVIOUS
<1>1. \A j \in 1 .. Size(v) : o[p[j]] = s
  BY DEF Swapped
<1>2. i2[s].size = Size(v) /\ i2[s].first = Start(p, Size(v))
  BY DEF Committed, Directory
<1> QED
  BY <1>1, <1>2 DEF Holds

\* The file's place after the commit is entry s.
LEMMA HomeCommitted ==
  ASSUME NEW image \in Directory, NEW s \in 1 .. DirSlots, NEW n \in Names,
         NEW v \in Versions, NEW p, IsHome(image, n, s) \/ Homeless(image, n),
         NEW t \in 1 .. DirSlots, IsHome(Committed(image, s, n, v, p), n, t)
  PROVE  t = s
<1> PICK i2 : i2 = Committed(image, s, n, v, p)
  OBVIOUS
<1>1. \A u \in 1 .. DirSlots : u # s => i2[u] = image[u]
  BY DEF Committed, Directory
<1>2. i2[s].name = n
  BY DEF Committed, Directory
<1>3. t <= s
  BY <1>2 DEF IsHome
<1>4. t # s => image[t].name = n
  BY <1>1 DEF IsHome
<1> QED
  BY <1>3, <1>4 DEF IsHome, Homeless

-----------------------------------------------------------------------------
(***************************************************************************)
(* The save's walk over the FAT.                                           *)
(***************************************************************************)
\* Where the last link of the clusters taken so far is about to be set.
LEMMA LinkIs ==
  ASSUME NEW f \in Frames, f.pc = "link", Target(f) \in Clusters,
         NEW m, NEW blocks, NEW own, NEW p, Takes(f, m, blocks, own, p)
  PROVE  /\ f.i \in Nat /\ f.i >= 1 /\ Taken(f) = f.i + 1
         /\ Target(f) = p[f.i] /\ NewValue(f) = f.cur /\ f.cur = p[f.i + 1]
         /\ p[f.i] \in Clusters /\ p[f.i + 1] \in Clusters
         /\ own[p[f.i]] = Mine /\ own[p[f.i + 1]] = Mine
<1>1. f.i \in Nat /\ Taken(f) = f.i + 1 /\ Target(f) = f.prev /\ NewValue(f) = f.cur
  BY FrameHas DEF Taken, Target, NewValue
<1>2. f.i # 0
  BY <1>1, Numbers DEF Takes
<1>3. f.prev = p[f.i] /\ f.cur = p[f.i + 1]
  BY <1>1, <1>2 DEF Takes
<1>4. f.i \in 1 .. Taken(f) /\ f.i + 1 \in 1 .. Taken(f)
  BY <1>1, <1>2
<1>5. p[f.i] \in Clusters /\ p[f.i + 1] \in Clusters
  BY <1>4 DEF Takes
<1>6. own[p[f.i]] = Mine /\ own[p[f.i + 1]] = Mine
  BY <1>4, <1>5 DEF Takes
<1> QED
  BY <1>1, <1>2, <1>3, <1>5, <1>6

\* fat_set touches the operation's own clusters and free ones only.
LEMMA TargetIsOwn ==
  ASSUME NEW f \in Frames, f.pc \in SettingFat, Target(f) \in Clusters,
         NEW m, NEW blocks, NEW image, NEW own, NEW p, SaveFits(f, m, blocks, image, own, p)
  PROVE  /\ own[Target(f)] \in {0, Mine}
         /\ own[Target(f)] # 0 /\ NewValue(f) \in Clusters => own[NewValue(f)] = own[Target(f)]
<1>1. CASE f.pc = "claim"
  BY <1>1, Numbers DEF SaveFits, Target, NewValue
<1>2. CASE f.pc = "link"
  <2>1. Takes(f, m, blocks, own, p)
    BY <1>2 DEF SaveFits, Building, Aimed, Allocating
  <2> QED
    BY <1>2, <2>1, LinkIs
<1>3. CASE f.pc = "release"
  BY <1>3, Numbers DEF SaveFits, Target, NewValue
<1> QED
  BY <1>1, <1>2, <1>3 DEF SettingFat

\* What a frame has taken is read off a few of its fields.
LEMMA TakesLike ==
  ASSUME NEW f, NEW m, NEW blocks, NEW own, NEW p, Takes(f, m, blocks, own, p),
         NEW g, NEW m2, Taken(g) = Taken(f), g.i = f.i, g.name = f.name, g.ver = f.ver,
         g.first = f.first, g.prev = f.prev, Taken(f) = f.i + 1 => g.cur = f.cur,
         \A j \in 1 .. Taken(f) : Free \notin m2[p[j]]
  PROVE  Takes(g, m2, blocks, own, p)
<1>1. g.prev = IF g.i = 0 THEN 0 ELSE p[g.i]
  BY DEF Takes
<1>2. g.first = Start(p, Taken(g))
  BY DEF Takes
<1>3. Taken(g) = g.i + 1 => g.cur = p[g.i + 1]
  BY DEF Takes
<1>4. \A j \in 1 .. g.i : blocks[p[j]] = <<g.name, g.ver, j>>
  BY DEF Takes
<1>5. \A j \in 1 .. Taken(g) : Free \notin m2[p[j]]
  OBVIOUS
<1>6. /\ p \in [1 .. Taken(g) -> Clusters]
      /\ \A i, j \in 1 .. Taken(g) : p[i] = p[j] => i = j
      /\ \A c \in Clusters : own[c] = Mine <=> \E j \in 1 .. Taken(g) : p[j] = c
  BY DEF Takes
<1> QED
  BY <1>1, <1>2, <1>3, <1>4, <1>5, <1>6 DEF Takes

\* FAT copy k is to be written next.
Marked(f, k) == [f EXCEPT !.mirror = k]

\* The cache is changed.
LEMMA SetFits ==
  ASSUME NEW f \in Frames, f.op = "save", f.pc \in SettingFat, Target(f) \in Clusters,
         NEW m, NEW m2, Sets(m2, m, Target(f), NewValue(f)),
         NEW blocks, NEW image, NEW own, NEW p, SaveFits(f, m, blocks, image, own, p),
         NEW g, g = Marked(f, 1),
         NEW buf, NEW cache, NEW lba, FrameFits(f, image, buf, cache, lba),
         NEW cache2, cache2[Target(f)] = NewValue(f)
  PROVE  /\ SaveFits(g, m2, blocks, image, own, p)
         /\ FrameFits(g, image, buf, cache2, FatSector(Target(f)))
         /\ g.loaded = f.loaded /\ Target(g) = Target(f)
<1>1. /\ g \in Frames
      /\ g.op = f.op /\ g.name = f.name /\ g.ver = f.ver /\ g.pc = f.pc /\ g.slot = f.slot
      /\ g.old = f.old /\ g.first = f.first /\ g.prev = f.prev /\ g.cur = f.cur
      /\ g.nxt = f.nxt /\ g.i = f.i /\ g.size = f.size /\ g.loaded = f.loaded
      /\ g.flawed = f.flawed /\ g.ret = f.ret /\ g.mirror = 1
  <2>1. 1 \in 0 .. NumFats
    BY Numbers
  <2>2. g \in Frames
    BY <2>1 DEF Frames, Marked
  <2> QED
    BY <2>2 DEF Frames, Marked
<1>2. Target(g) = Target(f) /\ NewValue(g) = NewValue(f) /\ Taken(g) = Taken(f)
  BY <1>1 DEF Target, NewValue, Taken
<1>3. FrameFits(g, image, buf, cache2, FatSector(Target(f)))
  BY <1>1, <1>2 DEF FrameFits, SettingFat
<1>4. f.pc \in Building => own[Target(f)] \in {0, Mine} /\ f.pc \in {"claim", "link"}
  BY TargetIsOwn DEF SettingFat, Building, Aimed, Allocating
<1>5. ASSUME Takes(f, m, blocks, own, p), f.pc \in Building
      PROVE  Takes(g, m2, blocks, own, p)
  <2>1. \A j \in 1 .. Taken(f) : Free \notin m2[p[j]]
    <3>1. CASE f.pc = "claim"
      <4>1. \A j \in 1 .. Taken(f) : p[j] # Target(f) /\ p[j] \in Clusters
        BY <1>5, <3>1, Numbers DEF SaveFits, Takes, Target
      <4> QED
        BY <1>5, <4>1 DEF Takes, Sets
    <3>2. CASE f.pc = "link"
      <4>1. NewValue(f) # Free
        BY <1>5, <3>2, LinkIs, Numbers
      <4> QED
        BY <1>5, <4>1 DEF Takes, Sets
    <3> QED
      BY <1>4, <1>5, <3>1, <3>2
  <2> QED
    BY <1>1, <1>2, <1>5, <2>1, TakesLike
<1>6. ASSUME Takes(f, m, blocks, own, p), f.pc \in Building, Strung(f, m, p)
      PROVE  Strung(g, m2, p)
  <2>1. CASE f.pc = "claim"
    <3>1. \A j \in 1 .. Taken(f) : p[j] # Target(f) /\ p[j] \in Clusters
      BY <1>6, <2>1, Numbers DEF SaveFits, Takes, Target
    <3> QED
      BY <1>1, <1>2, <1>6, <2>1, <3>1 DEF Strung, Sets
  <2>2. CASE f.pc = "link"
    <3>1. Target(f) = p[f.i] /\ f.i \in 1 .. Taken(f)
      BY <1>6, <2>2, LinkIs
    <3>2. \A j \in 1 .. Taken(f) : j # f.i => p[j] # Target(f) /\ p[j] \in Clusters
      BY <1>6, <3>1 DEF Takes
    <3> QED
      BY <1>1, <1>2, <1>6, <2>2, <3>2 DEF Strung, Sets
  <2> QED
    BY <1>4, <1>6, <2>1, <2>2
<1>7. Aims(f, image) => Aims(g, image)
  BY <1>1 DEF Aims
<1>8. SaveFits(g, m2, blocks, image, own, p)
  BY <1>1, <1>5, <1>6, <1>7 DEF SaveFits, Building, Aimed, Allocating, SettingFat
<1> QED
  BY <1>1, <1>2, <1>3, <1>8

\* g is f but for mirror and loaded.
Same(g, f) ==
    /\ g.op = f.op /\ g.name = f.name /\ g.ver = f.ver /\ g.pc = f.pc /\ g.slot = f.slot
    /\ g.old = f.old /\ g.first = f.first /\ g.prev = f.prev /\ g.cur = f.cur
    /\ g.nxt = f.nxt /\ g.i = f.i /\ g.size = f.size /\ g.got = f.got
    /\ g.flawed = f.flawed /\ g.ret = f.ret

\* The invariant does not depend on loaded, nor on mirror beyond what it says.
LEMMA SameFits ==
  ASSUME NEW f, NEW image, NEW buf, NEW cache, NEW lba, FrameFits(f, image, buf, cache, lba),
         f.op = "save" => f.pc \in SettingFat \cup ReadingFat,
         NEW m, NEW blocks, NEW own, NEW p,
         f.op = "save" => SaveFits(f, m, blocks, image, own, p),
         NEW g \in Frames, Same(g, f), g.mirror \in {0, f.mirror, f.mirror + 1},
         g.mirror > 1 => m[Target(f)] \subseteq {NewValue(f)},
         g.loaded => f.pc \in ReadingFat \cup SettingFat,
         NEW cache2, g.mirror > 0 => f.mirror > 0 /\ cache2 = cache
  PROVE  /\ FrameFits(g, image, buf, cache2, lba)
         /\ g.op = "save" => SaveFits(g, m, blocks, image, own, p)
         /\ Target(g) = Target(f)
<1>1. Target(g) = Target(f) /\ NewValue(g) = NewValue(f) /\ Taken(g) = Taken(f)
  BY DEF Same, Target, NewValue, Taken
<1>2. FrameFits(g, image, buf, cache2, lba)
  BY <1>1 DEF Same, FrameFits, SettingFat, ReadingFat, Building, Aimed, Allocating
<1>3. ASSUME g.op = "save" PROVE SaveFits(g, m, blocks, image, own, p)
  <2>1. SaveFits(f, m, blocks, image, own, p)
    BY <1>3 DEF Same
  <2>2. ASSUME Takes(f, m, blocks, own, p) PROVE Takes(g, m, blocks, own, p)
    <3>1. \A j \in 1 .. Taken(f) : Free \notin m[p[j]]
      BY <2>2 DEF Takes
    <3>2. /\ g.i = f.i /\ g.name = f.name /\ g.ver = f.ver
          /\ g.first = f.first /\ g.prev = f.prev /\ g.cur = f.cur
      BY DEF Same
    <3> QED
      BY <1>1, <2>2, <3>1, <3>2, TakesLike
  <2>3. Strung(f, m, p) => Strung(g, m, p)
    BY <1>1 DEF Strung, Same
  <2>4. Aims(f, image) => Aims(g, image)
    BY DEF Aims, Same
  <2> QED
    BY <1>1, <2>1, <2>2, <2>3, <2>4 DEF Same, SaveFits
<1> QED
  BY <1>1, <1>2, <1>3

\* The frame with another FAT copy to write.
LEMMA MarkedIs ==
  ASSUME NEW f \in Frames, NEW k \in 0 .. NumFats, NEW g, g = Marked(f, k)
  PROVE  g \in Frames /\ Same(g, f) /\ g.mirror = k /\ g.loaded = f.loaded
<1>1. g \in Frames
  BY DEF Frames, Marked
<1> QED
  BY <1>1 DEF Frames, Marked, Same

\* A FAT sector has been read into the cache.
Loaded(f) == [f EXCEPT !.loaded = TRUE]

\* The frame with the sector read.
LEMMA LoadedIs ==
  ASSUME NEW f \in Frames, NEW g, g = Loaded(f)
  PROVE  g \in Frames /\ Same(g, f) /\ g.mirror = f.mirror /\ g.loaded
<1>1. g \in Frames
  BY DEF Frames, Loaded
<1> QED
  BY <1>1 DEF Frames, Loaded, Same

\* The frame when fat_set or fat_next_cluster has returned.
Returned(f) == [f EXCEPT !.mirror = 0, !.loaded = FALSE]

\* h is f but for what fat_set and fat_next_cluster use.
Alike(h, f) ==
    /\ h.op = f.op /\ h.name = f.name /\ h.ver = f.ver /\ h.slot = f.slot
    /\ h.old = f.old /\ h.i = f.i /\ h.size = f.size /\ h.got = f.got
    /\ h.ret = f.ret /\ h.mirror = 0 /\ ~h.loaded

\* Returned leaves the rest of the frame.
LEMMA ReturnedIs ==
  ASSUME NEW f \in Frames, NEW h, h = Returned(f)
  PROVE  /\ h \in Frames /\ Alike(h, f) /\ h.pc = f.pc /\ h.first = f.first
         /\ h.prev = f.prev /\ h.cur = f.cur /\ h.nxt = f.nxt /\ h.flawed = f.flawed
<1>1. 0 \in 0 .. NumFats
  BY Numbers
<1>2. h \in Frames
  BY <1>1 DEF Frames, Returned
<1> QED
  BY <1>2 DEF Frames, Returned, Alike

\* What fat_set returns to.
Done(f) == AfterSet(f, TRUE)
Undone(f) == AfterSet(f, FALSE)

\* A claimed cluster is taken.
Grown(p, i, c) == [j \in 1 .. i + 1 |-> IF j <= i THEN p[j] ELSE c]

\* The clusters taken, counted.
LEMMA TakesCounts ==
  ASSUME NEW f, NEW m, NEW blocks, NEW own, NEW p, Takes(f, m, blocks, own, p),
         NEW i, i = Taken(f)
  PROVE  Counts(p, i, own)
BY DEF Takes, Counts

\* One more cluster is taken.
LEMMA GrownIs ==
  ASSUME NEW i \in Nat, NEW c \in Clusters, NEW p,
         NEW own \in [Clusters -> Owners], own[c] = 0, Counts(p, i, own),
         NEW r, r = Grown(p, i, c), NEW o, o = Added(own, c)
  PROVE  /\ Counts(r, i + 1, o) /\ r[i + 1] = c
         /\ \A j \in 1 .. i : r[j] = p[j]
         /\ Start(r, i + 1) = IF i = 0 THEN c ELSE Start(p, i)
<1>1. r \in [1 .. i + 1 -> Clusters] /\ r[i + 1] = c
  BY DEF Grown, Counts
<1>2. \A j \in 1 .. i : r[j] = p[j] /\ p[j] \in Clusters /\ p[j] # c
  BY Numbers DEF Grown, Counts
<1>3. o[c] = Mine /\ \A d \in Clusters \ {c} : o[d] = own[d]
  BY DEF Added
<1>4. 1 .. i + 1 = 1 .. i \cup {i + 1}
  OBVIOUS
<1>5. \A j, k \in 1 .. i + 1 : r[j] = r[k] => j = k
  BY <1>1, <1>2, <1>4 DEF Counts
<1>6. \A d \in Clusters : o[d] = Mine <=> \E j \in 1 .. i + 1 : r[j] = d
  BY <1>1, <1>2, <1>3, <1>4 DEF Counts
<1>7. Start(r, i + 1) = IF i = 0 THEN c ELSE Start(p, i)
  <2>1. CASE i = 0
    BY <1>1, <2>1 DEF Start
  <2>2. CASE i # 0
    <3>1. 1 \in 1 .. i /\ i + 1 # 0
      BY <2>2
    <3> QED
      BY <1>2, <2>2, <3>1 DEF Start
  <2> QED
    BY <2>1, <2>2
<1> QED
  BY <1>1, <1>2, <1>5, <1>6, <1>7 DEF Counts

\* fat_alloc_cluster has marked a cluster: it is linked next, or filled.
LEMMA ClaimedFits ==
  ASSUME NEW f, NEW image, NEW buf, NEW cache, NEW lba, FrameFits(f, image, buf, cache, lba),
         f.op = "save", f.pc = "claim",
         NEW m, NEW blocks, NEW own \in [Clusters -> Owners], NEW p,
         SaveFits(f, m, blocks, image, own, p), m[f.cur] \subseteq {Eoc},
         NEW g, g = Done(f)
  PROVE  /\ FrameFits(g, image, buf, cache, lba)
         /\ SaveFits(g, m, blocks, image, Added(own, f.cur), Grown(p, f.i, f.cur))
         /\ Alike(g, f)
<1> PICK i, c : i = f.i /\ c = f.cur
  OBVIOUS
<1>1. /\ f \in Frames /\ i \in Nat /\ Taken(f) = i /\ c \in Clusters
      /\ f.ver \in Versions /\ f.ret = "none" /\ i < Size(f.ver) /\ Size(f.ver) \in Nat
  BY FrameHas, Numbers DEF FrameFits, Taken, Building, Aimed, Allocating
<1>2. /\ Takes(f, m, blocks, own, p) /\ (~f.flawed => Strung(f, m, p)) /\ Aims(f, image)
      /\ own[c] = 0
  BY DEF SaveFits, Building, Aimed, Allocating
<1>3. /\ Counts(p, i, own) /\ p \in [1 .. i -> Clusters]
      /\ \A j \in 1 .. i : Free \notin m[p[j]]
      /\ \A j \in 1 .. i : blocks[p[j]] = <<f.name, f.ver, j>>
      /\ f.first = Start(p, i) /\ f.prev = IF i = 0 THEN 0 ELSE p[i]
  <2>1. Counts(p, i, own) /\ p \in [1 .. i -> Clusters]
    BY <1>1, <1>2, TakesCounts DEF Counts
  <2>2. \A j \in 1 .. i : Free \notin m[p[j]]
    BY <1>1, <1>2 DEF Takes
  <2>3. \A j \in 1 .. i : blocks[p[j]] = <<f.name, f.ver, j>>
    BY <1>2 DEF Takes
  <2>4. f.first = Start(p, i)
    BY <1>1, <1>2 DEF Takes
  <2>5. f.prev = IF i = 0 THEN 0 ELSE p[i]
    BY <1>2 DEF Takes
  <2> QED
    BY <2>1, <2>2, <2>3, <2>4, <2>5
<1>4. ~f.flawed => \A j \in 1 .. i : m[p[j]] \subseteq {After(p, i, j)}
  BY <1>1, <1>2 DEF Strung
<1>5. f.prev = 0 <=> i = 0
  BY <1>1, <1>3, Numbers
<1> PICK h : h = Returned(f)
  OBVIOUS
<1>6. /\ h \in Frames /\ Alike(h, f) /\ h.pc = f.pc /\ h.first = f.first
      /\ h.prev = f.prev /\ h.cur = f.cur /\ h.nxt = f.nxt /\ h.flawed = f.flawed
  BY <1>1, ReturnedIs
<1>7. /\ g \in Frames /\ Alike(g, f) /\ g.prev = f.prev /\ g.cur = c
      /\ g.flawed = f.flawed
      /\ i = 0 => g.pc = "fill" /\ g.first = c
      /\ i # 0 => g.pc = "link" /\ g.first = f.first
  <2>1. "link" \in Places /\ "fill" \in Places
    BY DEF Places
  <2>2. CASE i = 0
    <3>1. g = [h EXCEPT !.pc = "fill", !.first = c]
      BY <1>5, <1>6, <2>2 DEF Done, AfterSet, Returned
    <3>2. g \in Frames
      BY <1>1, <1>6, <2>1, <3>1, ZenonT(60) DEF Frames
    <3> QED
      BY <1>6, <2>2, <3>1, <3>2 DEF Frames, Alike
  <2>3. CASE i # 0
    <3>1. g = [h EXCEPT !.pc = "link"]
      BY <1>5, <1>6, <2>3 DEF Done, AfterSet, Returned
    <3>2. g \in Frames
      BY <1>6, <2>1, <3>1 DEF Frames
    <3> QED
      BY <1>6, <2>3, <3>1, <3>2 DEF Frames, Alike
  <2> QED
    BY <2>2, <2>3
<1>8. Taken(g) = i + 1 /\ g.pc \in {"link", "fill"} /\ g.i = i /\ g.name = f.name
      /\ g.ver = f.ver
  BY <1>7 DEF Taken, Alike
<1> PICK o, r : o = Added(own, c) /\ r = Grown(p, i, c)
  OBVIOUS
<1>9. /\ Counts(r, i + 1, o) /\ r[i + 1] = c
      /\ \A j \in 1 .. i : r[j] = p[j]
      /\ Start(r, i + 1) = IF i = 0 THEN c ELSE Start(p, i)
  BY <1>1, <1>2, <1>3, GrownIs
<1>10. Takes(g, m, blocks, o, r)
  <2>1. \A j \in 1 .. i + 1 : Free \notin m[r[j]]
    <3>1. 1 .. i + 1 = 1 .. i \cup {i + 1} /\ Free \notin m[c]
      BY <1>1, Numbers
    <3> QED
      BY <1>3, <1>9, <3>1
  <2>2. \A j \in 1 .. g.i : blocks[r[j]] = <<g.name, g.ver, j>>
    <3>1. \A j \in 1 .. i : blocks[r[j]] = <<f.name, f.ver, j>>
      BY <1>3, <1>9
    <3> QED
      BY <1>8, <3>1
  <2>3. g.first = Start(r, Taken(g))
    BY <1>3, <1>7, <1>8, <1>9
  <2>4. g.prev = IF g.i = 0 THEN 0 ELSE r[g.i]
    <3>1. i # 0 => i \in 1 .. i
      BY <1>1
    <3> QED
      BY <1>3, <1>7, <1>8, <1>9, <3>1
  <2>5. g.cur = r[g.i + 1]
    BY <1>7, <1>8, <1>9
  <2>6. /\ r \in [1 .. Taken(g) -> Clusters]
        /\ \A j, k \in 1 .. Taken(g) : r[j] = r[k] => j = k
        /\ \A d \in Clusters : o[d] = Mine <=> \E j \in 1 .. Taken(g) : r[j] = d
        /\ \A j \in 1 .. Taken(g) : Free \notin m[r[j]]
    BY <1>8, <1>9, <2>1 DEF Counts
  <2> QED
    BY <2>2, <2>3, <2>4, <2>5, <2>6 DEF Takes
<1>11. ASSUME ~g.flawed PROVE Strung(g, m, r)
  <2>1. ASSUME NEW j \in 1 .. i + 1, ~(g.pc = "link" /\ j = i)
        PROVE  m[r[j]] \subseteq {After(r, i + 1, j)}
    <3>1. CASE j = i + 1
      BY <1>1, <1>9, <3>1 DEF After
    <3>2. CASE j < i
      <4>1. j \in 1 .. i /\ j + 1 \in 1 .. i
        BY <1>1, <2>1, <3>2
      <4>2. m[p[j]] \subseteq {After(p, i, j)}
        BY <1>4, <1>7, <1>11, <4>1
      <4>3. After(p, i, j) = p[j + 1] /\ After(r, i + 1, j) = r[j + 1]
        BY <1>1, <3>2, <4>1 DEF After
      <4> QED
        BY <1>9, <4>1, <4>2, <4>3
    <3>3. CASE j = i
      BY <1>1, <1>7, <2>1, <3>3
    <3> QED
      BY <1>1, <2>1, <3>1, <3>2, <3>3
  <2> QED
    BY <1>8, <2>1 DEF Strung
<1>12. Aims(g, image)
  BY <1>2, <1>7 DEF Aims, Alike
<1>13. SaveFits(g, m, blocks, image, o, r)
  <2>1. g.mirror = 0 /\ 0 <= 1
    BY <1>7 DEF Alike
  <2> QED
    BY <1>8, <1>10, <1>11, <1>12, <2>1 DEF SaveFits
<1>14. FrameFits(g, image, buf, cache, lba)
  <2>1. i # 0 => p[i] \in Clusters
    BY <1>1, <1>3
  <2>2. Target(g) \in Clusters
    BY <1>1, <1>3, <1>7, <2>1 DEF Target
  <2> QED
    BY <1>1, <1>7, <1>8, <2>2 DEF FrameFits, Alike, Building, Aimed, Allocating
<1> QED
  BY <1>7, <1>13, <1>14

\* The previous cluster links to the new one; or does not, which the save
\* does not look at.
LEMMA LinkedFits ==
  ASSUME NEW f, NEW image, NEW buf, NEW cache, NEW lba, FrameFits(f, image, buf, cache, lba),
         f.op = "save", f.pc = "link",
         NEW m, NEW blocks, NEW own, NEW p, SaveFits(f, m, blocks, image, own, p),
         NEW g, g = Undone(f) \/ (g = Done(f) /\ m[Target(f)] \subseteq {NewValue(f)})
  PROVE  /\ FrameFits(g, image, buf, cache, lba) /\ SaveFits(g, m, blocks, image, own, p)
         /\ Alike(g, f)
<1> PICK i : i = f.i
  OBVIOUS
<1>1. /\ f \in Frames /\ i \in Nat /\ Taken(f) = i + 1 /\ f.cur \in Clusters
      /\ f.ver \in Versions /\ f.ret = "none" /\ i < Size(f.ver) /\ Size(f.ver) \in Nat
      /\ Target(f) \in Clusters
  BY FrameHas, Numbers DEF FrameFits, Taken, Building, Aimed, Allocating
<1>2. Takes(f, m, blocks, own, p) /\ (~f.flawed => Strung(f, m, p)) /\ Aims(f, image)
  BY DEF SaveFits, Building, Aimed, Allocating
<1>3. /\ i >= 1 /\ Target(f) = p[i] /\ NewValue(f) = f.cur /\ f.cur = p[i + 1]
  BY <1>1, <1>2, LinkIs
<1> PICK h : h = Returned(f)
  OBVIOUS
<1>4. /\ h \in Frames /\ Alike(h, f) /\ h.pc = f.pc /\ h.first = f.first
      /\ h.prev = f.prev /\ h.cur = f.cur /\ h.nxt = f.nxt /\ h.flawed = f.flawed
  BY <1>1, ReturnedIs
<1>5. /\ g \in Frames /\ Alike(g, f) /\ g.prev = f.prev /\ g.cur = f.cur
      /\ g.first = f.first /\ g.pc = "fill"
      /\ ~g.flawed => ~f.flawed /\ m[Target(f)] \subseteq {NewValue(f)}
  <2>1. "fill" \in Places
    BY DEF Places
  <2>2. CASE g = Undone(f)
    <3>1. g = [h EXCEPT !.pc = "fill", !.flawed = TRUE]
      BY <1>4, <2>2 DEF Undone, AfterSet, Returned
    <3>2. g \in Frames
      BY <1>4, <2>1, <3>1 DEF Frames
    <3> QED
      BY <1>4, <3>1, <3>2 DEF Frames, Alike
  <2>3. CASE g = Done(f) /\ m[Target(f)] \subseteq {NewValue(f)}
    <3>1. PICK b \in BOOLEAN : b = (h.flawed \/ ~TRUE)
      OBVIOUS
    <3>2. g = [h EXCEPT !.pc = "fill", !.flawed = h.flawed \/ ~TRUE]
      BY <1>4, <2>3 DEF Done, AfterSet, Returned
    <3>3. g = [h EXCEPT !.pc = "fill", !.flawed = b]
      BY <3>1, <3>2
    <3>4. h.flawed \in BOOLEAN
      BY <1>4, FrameHas
    <3>5. b = h.flawed
      BY <3>1, <3>4
    <3>6. g \in Frames
      BY <1>4, <2>1, <3>3, ZenonT(60) DEF Frames
    <3> QED
      BY <1>4, <2>3, <3>3, <3>5, <3>6 DEF Frames, Alike
  <2> QED
    BY <2>2, <2>3
<1>6. Taken(g) = i + 1 /\ g.i = i /\ g.name = f.name /\ g.ver = f.ver
  BY <1>5 DEF Taken, Alike
<1>7. Takes(g, m, blocks, own, p)
  <2>1. \A j \in 1 .. Taken(f) : Free \notin m[p[j]]
    BY <1>2 DEF Takes
  <2> QED
    BY <1>1, <1>2, <1>5, <1>6, <2>1, TakesLike
<1>8. ASSUME ~g.flawed PROVE Strung(g, m, p)
  <2>1. Strung(f, m, p) /\ m[p[i]] \subseteq {p[i + 1]}
    BY <1>2, <1>3, <1>5, <1>8
  <2>2. After(p, i + 1, i) = p[i + 1]
    BY <1>1 DEF After
  <2>3. \A j \in 1 .. i + 1 : m[p[j]] \subseteq {After(p, i + 1, j)}
    BY <1>1, <2>1, <2>2 DEF Strung
  <2> QED
    BY <1>6, <2>3 DEF Strung
<1>9. Aims(g, image)
  <2>1. ~g.flawed => ~f.flawed
    BY <1>5
  <2> QED
    BY <1>2, <1>5, <2>1 DEF Aims, Alike
<1>10. SaveFits(g, m, blocks, image, own, p)
  <2>1. g.mirror = 0 /\ 0 <= 1
    BY <1>5 DEF Alike
  <2> QED
    BY <1>5, <1>7, <1>8, <1>9, <2>1 DEF SaveFits
<1>11. FrameFits(g, image, buf, cache, lba)
  <2>1. Target(g) = f.cur
    BY <1>5 DEF Target
  <2> QED
    BY <1>1, <1>5, <1>6, <2>1 DEF FrameFits, Alike, Building, Aimed, Allocating
<1> QED
  BY <1>5, <1>10, <1>11

\* What a save keeps when it has ended or failed.
Ended(g, f) == g.op = f.op /\ g.name = f.name /\ g.ver = f.ver /\ ~g.loaded

\* A claim that failed gives up.
Failed(g, f) == g = Undone(f)

\* fat_alloc_cluster has failed to mark it: the save gives up.
LEMMA UnclaimedFits ==
  ASSUME NEW f, NEW image, NEW buf, NEW cache, NEW lba, FrameFits(f, image, buf, cache, lba),
         f.op = "save", f.pc = "claim",
         NEW m, NEW blocks, NEW own, NEW p, SaveFits(f, m, blocks, image, own, p),
         NEW g, Failed(g, f)
  PROVE  /\ FrameFits(g, image, buf, cache, lba) /\ SaveFits(g, m, blocks, image, own, p)
         /\ Ended(g, f) /\ g.ret = "error"
<1>1. f \in Frames /\ f.ver \in Versions
  BY DEF FrameFits
<1>2. Takes(f, m, blocks, own, p)
  BY DEF SaveFits, Building, Aimed, Allocating
<1> PICK h : h = Returned(f)
  OBVIOUS
<1>3. h \in Frames /\ Alike(h, f) /\ h.pc = f.pc /\ h.first = f.first
  BY <1>1, ReturnedIs
<1>4. g = GiveUp(h)
  BY <1>3 DEF Failed, Undone, AfterSet, Returned
<1>5. h.first # 0 => own[h.first] = Mine
  BY <1>1, <1>2, <1>3, OwnsFirst
<1>6. /\ FrameFits(g, image, buf, cache, lba) /\ SaveFits(g, m, blocks, image, own, p)
      /\ g.op = "save" /\ ~g.loaded /\ g.name = h.name /\ g.ver = h.ver /\ g.ret = "error"
  BY <1>1, <1>3, <1>4, <1>5, GivenUpFits DEF Alike
<1> QED
  BY <1>3, <1>6 DEF Alike, Ended

\* A cluster has been given back, or not: on to the next one.
LEMMA ReleasedFits ==
  ASSUME NEW f, NEW image, NEW buf, NEW cache, NEW lba, FrameFits(f, image, buf, cache, lba),
         f.op = "save", f.pc = "release",
         NEW m, NEW blocks, NEW own, NEW p, SaveFits(f, m, blocks, image, own, p),
         NEW g, g = Done(f) \/ g = Undone(f)
  PROVE  /\ FrameFits(g, image, buf, cache, lba) /\ SaveFits(g, m, blocks, image, own, p)
         /\ Ended(g, f) /\ g.ret = f.ret
<1>1. f \in Frames /\ f.ver \in Versions /\ f.ret \in {"ok", "error"}
  BY DEF FrameFits
<1> PICK h : h = Returned(f)
  OBVIOUS
<1>2. /\ h \in Frames /\ Alike(h, f) /\ h.pc = f.pc /\ h.nxt = f.nxt
  BY <1>1, ReturnedIs
<1>3. g = IF h.nxt \in Clusters THEN [h EXCEPT !.pc = "next", !.cur = h.nxt]
          ELSE FreeChain(h, 0, h.ret)
  BY <1>2 DEF Done, Undone, AfterSet, Returned
<1>4. CASE h.nxt \in Clusters
  <2>1. "next" \in Places
    BY DEF Places
  <2>2. g = [h EXCEPT !.pc = "next", !.cur = h.nxt]
    BY <1>3, <1>4
  <2>3. g \in Frames
    BY <1>2, <1>4, <2>1, <2>2 DEF Frames
  <2>4. g.pc = "next" /\ g.cur = f.nxt /\ Alike(g, f)
    BY <1>2, <2>2, <2>3 DEF Frames, Alike
  <2>5. own[f.nxt] = Mine /\ f.nxt \in Clusters
    BY <1>2, <1>4 DEF SaveFits
  <2>6. FrameFits(g, image, buf, cache, lba)
    BY <1>1, <2>3, <2>4, <2>5 DEF FrameFits, Alike, Target, Building, Aimed, Allocating
  <2>7. SaveFits(g, m, blocks, image, own, p)
    BY <2>4, <2>5 DEF SaveFits, Alike, Building, Aimed, Allocating
  <2> QED
    BY <2>4, <2>6, <2>7 DEF Alike, Ended
<1>5. CASE h.nxt \notin Clusters
  <2>1. g = FreeChain(h, 0, h.ret) /\ h.op = "save" /\ h.ver \in Versions
        /\ h.ret \in {"ok", "error"}
    BY <1>1, <1>2, <1>3, <1>5 DEF Alike
  <2>2. /\ FrameFits(g, image, buf, cache, lba) /\ SaveFits(g, m, blocks, image, own, p)
        /\ g.op = "save" /\ ~g.loaded /\ g.name = h.name /\ g.ver = h.ver
        /\ g.ret = h.ret
    BY <1>2, <2>1, DoneFits
  <2> QED
    BY <1>2, <2>2 DEF Alike, Ended
<1> QED
  BY <1>4, <1>5

\* The search for a free cluster.
LEMMA ScannedFits ==
  ASSUME NEW f, NEW image, NEW buf, NEW cache, NEW lba, FrameFits(f, image, buf, cache, lba),
         f.op = "save", f.pc = "scan",
         NEW m, NEW blocks, NEW own \in [Clusters -> Owners], NEW p,
         SaveFits(f, m, blocks, image, own, p), Kept(m, own),
         NEW value, value = Free => Free \in m[f.cur],
         NEW g, g = AfterNext(f, value)
  PROVE  /\ FrameFits(g, image, buf, cache, lba) /\ SaveFits(g, m, blocks, image, own, p)
         /\ Ended(g, f) /\ g.ret \in {"none", "error"}
<1>1. /\ f \in Frames /\ f.ver \in Versions /\ f.i \in Nat /\ Taken(f) = f.i
      /\ f.i < Size(f.ver) /\ Size(f.ver) \in Nat /\ f.cur \in Clusters /\ f.ret = "none"
  BY FrameHas, Numbers DEF FrameFits, Taken, Building, Aimed, Allocating
<1>2. Takes(f, m, blocks, own, p) /\ (~f.flawed => Strung(f, m, p)) /\ Aims(f, image)
  BY DEF SaveFits, Building, Aimed, Allocating
<1> PICK k : k = [f EXCEPT !.loaded = FALSE]
  OBVIOUS
<1>4. /\ k \in Frames /\ k.op = f.op /\ k.name = f.name /\ k.ver = f.ver /\ k.pc = f.pc
      /\ k.slot = f.slot /\ k.old = f.old /\ k.first = f.first /\ k.prev = f.prev
      /\ k.cur = f.cur /\ k.i = f.i /\ k.mirror = 0 /\ ~k.loaded /\ k.flawed = f.flawed
      /\ k.ret = f.ret
  <2>1. k \in Frames
    BY <1>1 DEF Frames
  <2>2. f.mirror = 0
    BY <1>1, FrameHas DEF FrameFits, SettingFat
  <2> QED
    BY <1>1, <2>1, <2>2 DEF Frames
<1>5. g = IF value = Free THEN [k EXCEPT !.pc = "claim"]
          ELSE IF k.cur + 1 \in Clusters THEN [k EXCEPT !.cur = @ + 1]
          ELSE GiveUp(k)
  BY <1>4 DEF AfterNext
<1>6. ASSUME NEW x \in {"scan", "claim"}, NEW c \in Clusters,
             g = [k EXCEPT !.pc = x, !.cur = c], x = "claim" => own[c] = 0
      PROVE  /\ FrameFits(g, image, buf, cache, lba) /\ SaveFits(g, m, blocks, image, own, p)
             /\ Ended(g, f) /\ g.ret = "none"
  <2>1. x \in Places
    BY DEF Places
  <2>2. g \in Frames
    <3>1. k \in Frames /\ g = [k EXCEPT !.pc = x, !.cur = c]
      BY <1>4, <1>6
    <3>2. c \in {0, Eoc} \cup Clusters
      OBVIOUS
    <3> HIDE <1>6
    <3> QED
      BY <2>1, <3>1, <3>2, ZenonT(60) DEF Frames
  <2>3. /\ g.op = f.op /\ g.name = f.name /\ g.ver = f.ver /\ g.pc = x
        /\ g.slot = f.slot /\ g.old = f.old /\ g.first = f.first /\ g.prev = f.prev
        /\ g.cur = c /\ g.i = f.i /\ g.mirror = 0 /\ ~g.loaded /\ g.flawed = f.flawed
        /\ g.ret = f.ret
    BY <1>4, <1>6, <2>2 DEF Frames
  <2>4. Taken(g) = f.i
    BY <2>3 DEF Taken
  <2>5. Takes(g, m, blocks, own, p)
    <3>1. \A j \in 1 .. Taken(f) : Free \notin m[p[j]]
      BY <1>2 DEF Takes
    <3>2. Taken(f) # f.i + 1
      BY <1>1
    <3> QED
      BY <1>1, <1>2, <2>3, <2>4, <3>1, <3>2, TakesLike
  <2>6. ~g.flawed => Strung(g, m, p)
    BY <1>1, <1>2, <2>3, <2>4 DEF Strung
  <2>7. Aims(g, image)
    BY <1>2, <2>3 DEF Aims
  <2>8. SaveFits(g, m, blocks, image, own, p)
    <3>1. g.mirror = 0 /\ 0 <= 1
      BY <2>3
    <3> QED
      BY <1>6, <2>3, <2>5, <2>6, <2>7, <3>1 DEF SaveFits
  <2>9. FrameFits(g, image, buf, cache, lba)
    <3>1. Target(g) = c
      BY <2>3 DEF Target
    <3> QED
      BY <1>1, <2>2, <2>3, <3>1
         DEF FrameFits, Building, Aimed, Allocating, ReadingFat, SettingFat
  <2> QED
    BY <1>1, <2>3, <2>8, <2>9 DEF Ended
<1>7. CASE value = Free
  <2>1. g = [k EXCEPT !.pc = "claim", !.cur = f.cur]
    <3>1. k = [k EXCEPT !.cur = f.cur]
      BY <1>4 DEF Frames
    <3> QED
      BY <1>5, <1>7, <3>1
  <2>2. Free \in m[f.cur]
    BY <1>7
  <2>3. own[f.cur] # Mine
    BY <1>1, <1>2, <2>2 DEF Takes
  <2>4. own[f.cur] \notin 1 .. DirSlots
    BY <1>1, <2>2 DEF Kept
  <2>5. own[f.cur] = 0
    BY <1>1, <2>3, <2>4, Numbers DEF Owners, Mine
  <2> QED
    BY <1>1, <1>6, <2>1, <2>5
<1>8. CASE value # Free /\ k.cur + 1 \in Clusters
  <2>1. g = [k EXCEPT !.pc = "scan", !.cur = f.cur + 1]
    <3>1. k = [k EXCEPT !.pc = "scan"]
      BY <1>4 DEF Frames
    <3> QED
      BY <1>4, <1>5, <1>8, <3>1
  <2> QED
    BY <1>4, <1>6, <1>8, <2>1
<1>9. CASE value # Free /\ k.cur + 1 \notin Clusters
  <2>1. g = GiveUp(k)
    BY <1>5, <1>9
  <2>2. k.first # 0 => own[k.first] = Mine
    BY <1>1, <1>2, <1>4, OwnsFirst
  <2>3. k \in Frames /\ k.op = "save" /\ k.ver \in Versions
    BY <1>1, <1>4
  <2>4. /\ FrameFits(g, image, buf, cache, lba) /\ SaveFits(g, m, blocks, image, own, p)
        /\ g.op = "save" /\ ~g.loaded /\ g.name = k.name /\ g.ver = k.ver /\ g.ret = "error"
    BY <2>1, <2>2, <2>3, GivenUpFits, ZenonT(60)
  <2> QED
    BY <1>4, <2>4 DEF Ended
<1> QED
  BY <1>7, <1>8, <1>9

\* The link of a cluster to give back has been read.
LEMMA NextReadFits ==
  ASSUME NEW f, NEW image, NEW buf, NEW cache, NEW lba, FrameFits(f, image, buf, cache, lba),
         f.op = "save", f.pc = "next",
         NEW m, NEW blocks, NEW own, NEW p, SaveFits(f, m, blocks, image, own, p),
         Closed(m, own),
         NEW value \in Links, value \in Clusters => value \in m[f.cur],
         NEW g, g = AfterNext(f, value)
  PROVE  /\ FrameFits(g, image, buf, cache, lba) /\ SaveFits(g, m, blocks, image, own, p)
         /\ Ended(g, f) /\ g.ret = f.ret
<1>1. f \in Frames /\ f.ver \in Versions /\ f.ret \in {"ok", "error"} /\ f.cur \in Clusters
  BY DEF FrameFits
<1>2. f.mirror = 0
  BY <1>1, FrameHas DEF FrameFits, SettingFat
<1>3. g = [f EXCEPT !.loaded = FALSE, !.pc = "release", !.nxt = value]
  BY <1>1 DEF AfterNext, Frames
<1>4. "release" \in Places
  BY DEF Places
<1>5. g \in Frames
  BY <1>1, <1>3, <1>4 DEF Frames
<1>6. /\ g.op = f.op /\ g.name = f.name /\ g.ver = f.ver /\ g.pc = "release"
      /\ g.cur = f.cur /\ g.nxt = value /\ g.mirror = 0 /\ ~g.loaded /\ g.ret = f.ret
  BY <1>1, <1>2, <1>3, <1>5 DEF Frames
<1>7. own[f.cur] = Mine /\ (value \in Clusters => own[value] = Mine)
  BY <1>1, Numbers DEF SaveFits, Closed
<1>8. FrameFits(g, image, buf, cache, lba)
  BY <1>1, <1>5, <1>6 DEF FrameFits, Target, Building, Aimed, Allocating
<1>9. SaveFits(g, m, blocks, image, own, p)
  BY <1>6, <1>7 DEF SaveFits, Building, Aimed, Allocating
<1> QED
  BY <1>6, <1>8, <1>9 DEF Ended

-----------------------------------------------------------------------------
(***************************************************************************)
(* The save's other steps.                                                 *)
(***************************************************************************)
\* There are no more clusters to take than there are.
LEMMA CountIsBounded ==
  ASSUME NEW k \in Nat, NEW p, NEW own, Counts(p, k, own)
  PROVE  k <= NumClusters
<1>1. IsFiniteSet(1 .. k) /\ Cardinality(1 .. k) = k
  BY FS_Interval, Numbers
<1>2. IsFiniteSet(Clusters) /\ Cardinality(Clusters) = NumClusters
  <2> PICK b : b = NumClusters + 1
    OBVIOUS
  <2>1. 2 \in Int /\ b \in Int /\ ~(2 > b) /\ b - 2 + 1 = NumClusters
    BY Numbers
  <2>2. IsFiniteSet(2 .. b) /\ Cardinality(2 .. b) = b - 2 + 1
    BY <2>1, FS_Interval
  <2> QED
    BY <2>1, <2>2 DEF Clusters
<1>3. p \in Injection(1 .. k, Clusters)
  BY DEF Counts, Injection, IsInjective
<1> QED
  BY <1>1, <1>2, <1>3, FS_Injection

\* The block to be written is one there is.
LEMMA BlockIs ==
  ASSUME NEW f \in Frames, f.ver \in Versions, NEW m, NEW blocks, NEW own, NEW p,
         Takes(f, m, blocks, own, p), Taken(f) = f.i + 1
  PROVE  <<f.name, f.ver, f.i + 1>> \in Blocks
<1>1. f.i \in Nat /\ f.name \in Names
  BY FrameHas
<1>2. Counts(p, f.i + 1, own)
  BY TakesCounts
<1>3. f.i + 1 <= NumClusters
  BY <1>1, <1>2, CountIsBounded
<1>4. f.i + 1 \in 1 .. NumClusters
  BY <1>1, <1>3, Numbers
<1> QED
  BY <1>1, <1>4 DEF Blocks

\* The next block is in sector_buf.
LEMMA FilledFits ==
  ASSUME NEW f, NEW image, NEW buf, NEW cache, NEW lba, FrameFits(f, image, buf, cache, lba),
         f.op = "save", f.pc = "fill",
         NEW m, NEW blocks, NEW own, NEW p, SaveFits(f, m, blocks, image, own, p),
         NEW g, g = [f EXCEPT !.pc = "write"],
         NEW buf2, buf2 = [kind |-> "block", image |-> <<f.name, f.ver, f.i + 1>>]
  PROVE  /\ FrameFits(g, image, buf2, cache, lba) /\ SaveFits(g, m, blocks, image, own, p)
         /\ Ended(g, f) /\ g.ret = "none"
<1>1. /\ f \in Frames /\ f.ver \in Versions /\ f.i \in Nat /\ Taken(f) = f.i + 1
      /\ f.i < Size(f.ver) /\ f.cur \in Clusters /\ f.ret = "none"
      /\ f.mirror \in 0 .. NumFats /\ f.loaded \in BOOLEAN
  BY FrameHas DEF FrameFits, Taken, Building, Aimed, Allocating
<1>2. f.mirror = 0 /\ ~f.loaded
  BY <1>1, Numbers DEF FrameFits, ReadingFat, SettingFat
<1>3. Takes(f, m, blocks, own, p) /\ (~f.flawed => Strung(f, m, p)) /\ Aims(f, image)
  BY DEF SaveFits, Building, Aimed, Allocating
<1>4. "write" \in Places
  BY DEF Places
<1>5. g \in Frames
  BY <1>1, <1>4 DEF Frames
<1>6. /\ g.op = f.op /\ g.name = f.name /\ g.ver = f.ver /\ g.pc = "write"
      /\ g.slot = f.slot /\ g.old = f.old /\ g.first = f.first /\ g.prev = f.prev
      /\ g.cur = f.cur /\ g.i = f.i /\ g.mirror = 0 /\ ~g.loaded /\ g.flawed = f.flawed
      /\ g.ret = f.ret
  BY <1>1, <1>2, <1>5 DEF Frames
<1>7. Taken(g) = f.i + 1
  BY <1>6 DEF Taken
<1>8. Takes(g, m, blocks, own, p)
  <2>1. \A j \in 1 .. Taken(f) : Free \notin m[p[j]]
    BY <1>3 DEF Takes
  <2> QED
    BY <1>1, <1>3, <1>6, <1>7, <2>1, TakesLike
<1>9. ~g.flawed => Strung(g, m, p)
  BY <1>1, <1>3, <1>6, <1>7 DEF Strung
<1>10. Aims(g, image)
  BY <1>3, <1>6 DEF Aims
<1>11. SaveFits(g, m, blocks, image, own, p)
  <2>1. g.mirror = 0 /\ 0 <= 1
    BY <1>6
  <2> QED
    BY <1>6, <1>8, <1>9, <1>10, <2>1 DEF SaveFits
<1>12. FrameFits(g, image, buf2, cache, lba)
  <2>1. Target(g) = f.cur
    BY <1>6 DEF Target
  <2>2. buf2.kind = "block" /\ buf2.image = <<g.name, g.ver, g.i + 1>>
    BY <1>6
  <2> QED
    BY <1>1, <1>5, <1>6, <2>1, <2>2 DEF FrameFits, Building, Aimed, Allocating
<1> QED
  BY <1>1, <1>6, <1>11, <1>12 DEF Ended

\* The block is on the disk.
Filled(f) == [f EXCEPT !.i = @ + 1, !.prev = f.cur]

\* The block is in cluster c, and nothing else has changed.
Stored(blocks2, blocks, c, block) ==
    blocks2[c] = block /\ \A k \in Clusters \ {c} : blocks2[k] = blocks[k]

\* The block is on the disk: on to the next cluster.
LEMMA WrittenFits ==
  ASSUME NEW f, NEW image, NEW buf, NEW cache, NEW lba, FrameFits(f, image, buf, cache, lba),
         f.op = "save", f.pc = "write",
         NEW m, NEW blocks, NEW own, NEW p, SaveFits(f, m, blocks, image, own, p),
         NEW g, g = NextCluster(Filled(f)),
         NEW blocks2, Stored(blocks2, blocks, f.cur, buf.image)
  PROVE  /\ FrameFits(g, image, buf, cache, lba) /\ SaveFits(g, m, blocks2, image, own, p)
         /\ Ended(g, f) /\ g.ret = "none"
<1> PICK i, h : i = f.i /\ h = Filled(f)
  OBVIOUS
<1>1. /\ f \in Frames /\ f.ver \in Versions /\ i \in Nat /\ Taken(f) = i + 1
      /\ i < Size(f.ver) /\ f.cur \in Clusters /\ f.ret = "none"
      /\ f.mirror \in 0 .. NumFats /\ f.loaded \in BOOLEAN /\ Size(f.ver) \in Nat
      /\ buf.image = <<f.name, f.ver, i + 1>>
  BY FrameHas, Numbers DEF FrameFits, Taken, Building, Aimed, Allocating
<1>2. f.mirror = 0 /\ ~f.loaded
  BY <1>1, Numbers DEF FrameFits, ReadingFat, SettingFat
<1>3. Takes(f, m, blocks, own, p) /\ (~f.flawed => Strung(f, m, p)) /\ Aims(f, image)
  BY DEF SaveFits, Building, Aimed, Allocating
<1>4. h \in Frames
  <2> PICK n : n = f.i + 1
    OBVIOUS
  <2>1. n \in Nat /\ h = [f EXCEPT !.i = n, !.prev = f.cur]
    BY <1>1 DEF Filled, Frames
  <2>2. f \in Frames /\ f.cur \in Clusters
    BY <1>1
  <2> QED
    BY <2>1, <2>2 DEF Frames
<1>5. /\ h.op = f.op /\ h.name = f.name /\ h.ver = f.ver /\ h.slot = f.slot
      /\ h.old = f.old /\ h.first = f.first /\ h.prev = f.cur /\ h.i = i + 1
      /\ h.mirror = 0 /\ ~h.loaded /\ h.flawed = f.flawed /\ h.ret = f.ret
  BY <1>1, <1>2, <1>4 DEF Frames, Filled
<1>6. g = NextCluster(h)
  OBVIOUS
<1>7. f.cur = p[i + 1]
  BY <1>1, <1>3 DEF Takes
<1>8. Counts(p, i + 1, own)
  BY <1>1, <1>3, TakesCounts
<1>10. \A j \in 1 .. h.i : Free \notin m[p[j]]
  BY <1>1, <1>3, <1>5 DEF Takes
<1>s. blocks2[f.cur] = buf.image /\ \A c \in Clusters \ {f.cur} : blocks2[c] = blocks[c]
  BY DEF Stored
<1>11. \A j \in 1 .. h.i : blocks2[p[j]] = <<h.name, h.ver, j>>
  <2>1. \A j \in 1 .. i : blocks[p[j]] = <<f.name, f.ver, j>>
    BY <1>3 DEF Takes
  <2>2. \A j \in 1 .. i : p[j] \in Clusters /\ p[j] # f.cur
    <3>1. \A j \in 1 .. i : j \in 1 .. i + 1 /\ j # i + 1 /\ i + 1 \in 1 .. i + 1
      BY <1>1
    <3> QED
      BY <1>7, <1>8, <3>1 DEF Counts
  <2>3. \A j \in 1 .. i : blocks2[p[j]] = <<f.name, f.ver, j>>
    BY <1>s, <2>1, <2>2
  <2>4. blocks2[p[i + 1]] = <<f.name, f.ver, i + 1>>
    BY <1>1, <1>7, <1>s
  <2>5. 1 .. i + 1 = 1 .. i \cup {i + 1}
    BY <1>1
  <2>6. \A j \in 1 .. i + 1 : blocks2[p[j]] = <<f.name, f.ver, j>>
    BY <1>s, <2>3, <2>4, <2>5
  <2> QED
    BY <1>5, <2>6
<1>12. h.first = Start(p, h.i)
  BY <1>1, <1>3, <1>5 DEF Takes
<1>13. h.prev = IF h.i = 0 THEN 0 ELSE p[h.i]
  BY <1>1, <1>5, <1>7
<1>14. ~h.flawed => Linked(p, h.i, m)
  BY <1>1, <1>3, <1>5 DEF Strung, Linked
<1>15. Aims(h, image)
  BY <1>3, <1>5 DEF Aims
<1>16. Counts(p, h.i, own)
  BY <1>5, <1>8
<1>17. Ready(h, m, blocks2, image, p)
  BY <1>10, <1>11, <1>12, <1>13, <1>14, <1>15 DEF Ready
<1>18. h.op = "save" /\ h.ver \in Versions /\ h.ret = "none" /\ h.i <= Size(h.ver)
  BY <1>1, <1>5
<1>19. /\ FrameFits(g, image, buf, cache, lba) /\ SaveFits(g, m, blocks2, image, own, p)
       /\ g.op = "save" /\ ~g.loaded /\ g.name = h.name /\ g.ver = h.ver /\ g.ret = "none"
  BY <1>4, <1>5, <1>6, <1>16, <1>17, <1>18, NextClusterFits
<1> QED
  BY <1>5, <1>19 DEF Ended

\* A save writes to a cluster it has taken.
LEMMA WritesOwn ==
  ASSUME NEW f, NEW image, NEW buf, NEW cache, NEW lba, FrameFits(f, image, buf, cache, lba),
         f.op = "save", f.pc = "write",
         NEW m, NEW blocks, NEW own, NEW p, SaveFits(f, m, blocks, image, own, p)
  PROVE  own[f.cur] = Mine /\ buf.image \in Blocks
<1> PICK i : i = f.i
  OBVIOUS
<1>1. /\ f \in Frames /\ f.ver \in Versions /\ i \in Nat /\ Taken(f) = i + 1
      /\ i < Size(f.ver) /\ f.cur \in Clusters /\ Size(f.ver) \in Nat
      /\ buf.image = <<f.name, f.ver, i + 1>>
  BY FrameHas, Numbers DEF FrameFits, Taken, Building, Aimed, Allocating
<1>2. Takes(f, m, blocks, own, p)
  BY DEF SaveFits, Building, Aimed, Allocating
<1>3. f.cur = p[i + 1] /\ Counts(p, i + 1, own)
  <2>1. f.cur = p[i + 1]
    BY <1>1, <1>2 DEF Takes
  <2>2. Counts(p, i + 1, own)
    BY <1>1, <1>2, TakesCounts
  <2> QED
    BY <2>1, <2>2
<1>4. own[f.cur] = Mine
  <2>1. i + 1 \in 1 .. i + 1
    BY <1>1
  <2> QED
    BY <1>1, <1>3, <2>1 DEF Counts
<1>5. buf.image \in Blocks
  BY <1>1, <1>2, BlockIs
<1> QED
  BY <1>4, <1>5

\* The operation only has to tell its caller.
LEMMA ReturnFits ==
  ASSUME NEW f \in Frames, f.op = "save" => f.ver \in Versions,
         NEW ret \in {"ok", "error"}, NEW g, g = Return(f, ret),
         NEW image, NEW buf, NEW cache, NEW lba
  PROVE  /\ FrameFits(g, image, buf, cache, lba)
         /\ \A m, blocks, own, p : SaveFits(g, m, blocks, image, own, p)
         /\ Ended(g, f) /\ g.got = f.got /\ g.ret = ret /\ g.pc = "return"
<1>1. Over(g, f, ret) /\ g.pc = "return"
  BY ReturnIs
<1>2. f.op \in {"save", "load"}
  BY FrameHas
<1>3. FrameFits(g, image, buf, cache, lba)
  BY <1>1, <1>2 DEF Over, FrameFits, Target, Building, Aimed, Allocating
<1>4. ASSUME NEW m, NEW blocks, NEW own, NEW p
      PROVE  SaveFits(g, m, blocks, image, own, p)
  BY <1>1 DEF Over, SaveFits, Building, Aimed, Allocating
<1> QED
  BY <1>1, <1>3, <1>4 DEF Over, Ended

\* A save that has not begun to allocate.
LEMMA EmptyHanded ==
  ASSUME NEW f, NEW image, NEW buf, NEW cache, NEW lba, FrameFits(f, image, buf, cache, lba),
         f.op = "save", f.pc \in {"locate", "slot"},
         NEW m, NEW blocks, NEW own, NEW p, SaveFits(f, m, blocks, image, own, p)
  PROVE  /\ f \in Frames /\ f.ver \in Versions /\ f.i = 0 /\ f.old = 0 /\ f.ret = "none"
         /\ f.mirror = 0 /\ ~f.loaded /\ f.first = 0 /\ f.prev = 0 /\ Taken(f) = 0
         /\ Takes(f, m, blocks, own, p) /\ Counts(p, 0, own)
<1>1. /\ f \in Frames /\ f.ver \in Versions /\ f.ret = "none"
      /\ f.mirror \in 0 .. NumFats /\ f.loaded \in BOOLEAN /\ f.i \in Nat
  BY FrameHas DEF FrameFits, Building
<1>2. f.mirror = 0 /\ ~f.loaded
  BY <1>1, Numbers DEF FrameFits, ReadingFat, SettingFat
<1>3. f.i = 0 /\ f.old = 0 /\ Takes(f, m, blocks, own, p)
  BY DEF SaveFits, Building
<1>4. Taken(f) = 0
  BY <1>3 DEF Taken
<1>5. f.first = 0 /\ f.prev = 0
  BY <1>3, <1>4 DEF Takes, Start
<1>6. Counts(p, 0, own)
  BY <1>3, <1>4, TakesCounts
<1> QED
  BY <1>1, <1>2, <1>3, <1>4, <1>5, <1>6

\* It has found its entry: the file's, or an empty one.
Located(f, s, first) == [f EXCEPT !.slot = s, !.old = first]

\* Entry s, whose chain starts at first, is the file's, or an empty one for it.
Fitting(f, image, s, first) ==
    \/ IsHome(image, f.name, s) /\ first = image[s].first
    \/ image[s].name = None /\ first = 0 /\ (~f.flawed => Homeless(image, f.name))

\* The file is there: its entry is to be replaced.
LEMMA LocatedFits ==
  ASSUME NEW f, NEW image \in Directory, NEW buf, NEW cache, NEW lba,
         FrameFits(f, image, buf, cache, lba),
         f.op = "save", f.pc \in {"locate", "slot"},
         NEW m, NEW blocks, NEW own, NEW p, SaveFits(f, m, blocks, image, own, p),
         NEW s \in 1 .. DirSlots, NEW first \in {0} \cup Clusters,
         Fitting(f, image, s, first),
         NEW g, g = NextCluster(Located(f, s, first))
  PROVE  /\ \A buf2 : FrameFits(g, image, buf2, cache, lba)
         /\ SaveFits(g, m, blocks, image, own, p)
         /\ Ended(g, f) /\ g.ret = "none"
<1>1. /\ f \in Frames /\ f.ver \in Versions /\ f.i = 0 /\ f.old = 0 /\ f.ret = "none"
      /\ f.mirror = 0 /\ ~f.loaded /\ f.first = 0 /\ f.prev = 0 /\ Taken(f) = 0
      /\ Takes(f, m, blocks, own, p) /\ Counts(p, 0, own)
  BY EmptyHanded
<1> PICK h : h = Located(f, s, first)
  OBVIOUS
<1>2. s \in 0 .. DirSlots
  BY Numbers
<1>3. h \in Frames
  BY <1>1, <1>2 DEF Frames, Located
<1>4. /\ h.op = f.op /\ h.name = f.name /\ h.ver = f.ver /\ h.slot = s
      /\ h.old = first /\ h.first = f.first /\ h.prev = f.prev /\ h.i = f.i
      /\ h.mirror = f.mirror /\ h.loaded = f.loaded /\ h.flawed = f.flawed /\ h.ret = f.ret
  BY <1>1, <1>3 DEF Frames, Located
<1>5. Aims(h, image)
  BY <1>4 DEF Aims, Fitting
<1>6. Ready(h, m, blocks, image, p)
  <2>1. h.i = 0 /\ h.first = 0 /\ h.prev = 0 /\ 1 .. 0 = {}
    BY <1>1, <1>4
  <2> QED
    BY <1>5, <2>1 DEF Ready, Start, Linked
<1>7. Counts(p, h.i, own) /\ h.i <= Size(h.ver)
  <2>1. Size(f.ver) \in Nat
    BY <1>1, Numbers
  <2> QED
    BY <1>1, <1>4, <2>1
<1>8. h.op = "save" /\ h.ver \in Versions /\ h.ret = "none" /\ h.mirror = 0 /\ ~h.loaded
  BY <1>1, <1>4
<1>9. ASSUME NEW buf2
      PROVE  /\ FrameFits(g, image, buf2, cache, lba) /\ SaveFits(g, m, blocks, image, own, p)
             /\ g.op = "save" /\ ~g.loaded /\ g.name = h.name /\ g.ver = h.ver /\ g.ret = "none"
  BY <1>3, <1>6, <1>7, <1>8, NextClusterFits
<1> QED
  BY <1>4, <1>9 DEF Ended

\* It has not found the file, or could not read the directory.
Missed(f, bad) == [f EXCEPT !.pc = "slot", !.flawed = bad]

\* It is not there, or could not be read: an empty entry is looked for.
LEMMA MissedFits ==
  ASSUME NEW f, NEW image, NEW buf, NEW cache, NEW lba, FrameFits(f, image, buf, cache, lba),
         f.op = "save", f.pc = "locate",
         NEW m, NEW blocks, NEW own, NEW p, SaveFits(f, m, blocks, image, own, p),
         NEW bad \in BOOLEAN, ~bad => Homeless(image, f.name),
         NEW g, g = Missed(f, bad)
  PROVE  /\ \A buf2 : FrameFits(g, image, buf2, cache, lba)
         /\ SaveFits(g, m, blocks, image, own, p)
         /\ Ended(g, f) /\ g.ret = "none"
<1>1. /\ f \in Frames /\ f.ver \in Versions /\ f.i = 0 /\ f.old = 0 /\ f.ret = "none"
      /\ f.mirror = 0 /\ ~f.loaded /\ f.first = 0 /\ f.prev = 0 /\ Taken(f) = 0
      /\ Takes(f, m, blocks, own, p) /\ Counts(p, 0, own)
  BY EmptyHanded
<1>2. "slot" \in Places
  BY DEF Places
<1>3. g \in Frames
  BY <1>1, <1>2 DEF Frames, Missed
<1>4. /\ g.op = f.op /\ g.name = f.name /\ g.ver = f.ver /\ g.pc = "slot"
      /\ g.old = 0 /\ g.first = f.first /\ g.prev = f.prev /\ g.i = 0
      /\ g.mirror = 0 /\ ~g.loaded /\ g.flawed = bad /\ g.ret = f.ret
  BY <1>1, <1>3 DEF Frames, Missed
<1>5. Taken(g) = 0
  BY <1>4 DEF Taken
<1>6. Takes(g, m, blocks, own, p)
  <2>1. Taken(f) # f.i + 1 /\ \A j \in 1 .. Taken(f) : Free \notin m[p[j]]
    BY <1>1
  <2>2. /\ Taken(g) = Taken(f) /\ g.i = f.i /\ g.name = f.name /\ g.ver = f.ver
        /\ g.first = f.first /\ g.prev = f.prev
    BY <1>1, <1>4, <1>5
  <2> QED
    BY <1>1, <2>1, <2>2, TakesLike
<1>7. Strung(g, m, p)
  BY <1>5 DEF Strung
<1>8. SaveFits(g, m, blocks, image, own, p)
  BY <1>4, <1>6, <1>7 DEF SaveFits, Building, Aimed, Allocating
<1>9. ASSUME NEW buf2 PROVE FrameFits(g, image, buf2, cache, lba)
  <2>1. Size(f.ver) \in Nat
    BY <1>1, Numbers
  <2>2. g.i <= Size(g.ver)
    BY <1>4, <2>1
  <2> QED
    BY <1>1, <1>3, <1>4, <2>2 DEF FrameFits, Building, Aimed, Allocating
<1> QED
  BY <1>1, <1>4, <1>8, <1>9 DEF Ended

\* The new entry is in sector_buf.
LEMMA PatchedFits ==
  ASSUME NEW f, NEW image, NEW buf, NEW cache, NEW lba, FrameFits(f, image, buf, cache, lba),
         f.op = "save", f.pc = "commit",
         NEW m, NEW blocks, NEW own, NEW p, SaveFits(f, m, blocks, image, own, p),
         NEW g, g = [f EXCEPT !.pc = "writeback"],
         NEW buf2,
         buf2 = [kind |-> "dir",
                 image |-> [image EXCEPT ![f.slot] =
                               [name |-> f.name, first |-> f.first, size |-> Size(f.ver)]]]
  PROVE  /\ FrameFits(g, image, buf2, cache, lba) /\ SaveFits(g, m, blocks, image, own, p)
         /\ Ended(g, f) /\ g.ret = "none"
<1>1. /\ f \in Frames /\ f.ver \in Versions /\ f.i \in Nat /\ Taken(f) = f.i
      /\ f.i = Size(f.ver) /\ f.ret = "none"
      /\ f.mirror \in 0 .. NumFats /\ f.loaded \in BOOLEAN /\ Size(f.ver) \in Nat
  BY FrameHas, Numbers DEF FrameFits, Taken, Building, Aimed, Allocating
<1>2. f.mirror = 0 /\ ~f.loaded
  BY <1>1, Numbers DEF FrameFits, ReadingFat, SettingFat
<1>3. Takes(f, m, blocks, own, p) /\ (~f.flawed => Strung(f, m, p)) /\ Aims(f, image)
  BY DEF SaveFits, Building, Aimed, Allocating
<1>4. "writeback" \in Places
  BY DEF Places
<1>5. g \in Frames
  BY <1>1, <1>4 DEF Frames
<1>6. /\ g.op = f.op /\ g.name = f.name /\ g.ver = f.ver /\ g.pc = "writeback"
      /\ g.slot = f.slot /\ g.old = f.old /\ g.first = f.first /\ g.prev = f.prev
      /\ g.i = f.i /\ g.mirror = 0 /\ ~g.loaded /\ g.flawed = f.flawed
      /\ g.ret = f.ret
  BY <1>1, <1>2, <1>5 DEF Frames
<1>7. Taken(g) = f.i
  BY <1>6 DEF Taken
<1>8. Takes(g, m, blocks, own, p)
  <2>1. \A j \in 1 .. Taken(f) : Free \notin m[p[j]]
    BY <1>3 DEF Takes
  <2>2. Taken(f) # f.i + 1
    BY <1>1
  <2> QED
    BY <1>1, <1>3, <1>6, <1>7, <2>1, <2>2, TakesLike
<1>9. ~g.flawed => Strung(g, m, p)
  BY <1>1, <1>3, <1>6, <1>7 DEF Strung
<1>10. Aims(g, image)
  BY <1>3, <1>6 DEF Aims
<1>11. SaveFits(g, m, blocks, image, own, p)
  <2>1. g.mirror = 0 /\ 0 <= 1
    BY <1>6
  <2> QED
    BY <1>6, <1>8, <1>9, <1>10, <2>1 DEF SaveFits
<1>12. FrameFits(g, image, buf2, cache, lba)
  <2>1. buf2.kind = "dir"
        /\ buf2.image = [image EXCEPT ![g.slot] =
                            [name |-> g.name, first |-> g.first, size |-> Size(g.ver)]]
    BY <1>6
  <2>2. g.i <= Size(g.ver) /\ g.i = Size(g.ver)
    BY <1>1, <1>6
  <2> QED
    BY <1>1, <1>5, <1>6, <2>1, <2>2 DEF FrameFits, Building, Aimed, Allocating
<1> QED
  BY <1>1, <1>6, <1>11, <1>12 DEF Ended

-----------------------------------------------------------------------------
(***************************************************************************)
(* The load.                                                               *)
(***************************************************************************)
\* What a load in flight has.
LEMMA LoadIs ==
  ASSUME NEW f, NEW image, NEW buf, NEW cache, NEW lba, FrameFits(f, image, buf, cache, lba),
         f.op = "load"
  PROVE  /\ f \in Frames /\ f.mirror = 0 /\ (f.loaded => f.pc = "follow")
         /\ f.i \in Nat /\ f.got \in Seq(Blocks) /\ f.size \in Nat
         /\ f.pc \in {"read", "copy", "follow"} => f.cur \in Clusters /\ Target(f) = f.cur
<1>1. /\ f \in Frames /\ f.mirror \in 0 .. NumFats /\ f.loaded \in BOOLEAN
      /\ f.i \in Nat /\ f.got \in Seq(Blocks) /\ f.size \in Nat
  BY FrameHas DEF FrameFits
<1>2. f.pc \in {"locate", "read", "copy", "follow", "return"}
  BY DEF FrameFits
<1>3. f.mirror = 0 /\ (f.loaded => f.pc = "follow")
  BY <1>1, <1>2, Numbers DEF FrameFits, ReadingFat, SettingFat
<1>4. f.pc \in {"read", "copy", "follow"} => f.cur \in Clusters /\ Target(f) = f.cur
  BY DEF FrameFits, Target
<1> QED
  BY <1>1, <1>3, <1>4

\* The entry has been found.
Found(f, first, size) == [f EXCEPT !.pc = "read", !.cur = first, !.size = size]

\* The file to be loaded is there.
LEMMA FoundFits ==
  ASSUME NEW f, NEW image, NEW buf, NEW cache, NEW lba, FrameFits(f, image, buf, cache, lba),
         f.op = "load", f.pc = "locate",
         NEW first \in Clusters, NEW size \in Nat, size > 0,
         NEW g, g = Found(f, first, size)
  PROVE  /\ \A buf2 : FrameFits(g, image, buf2, cache, lba)
         /\ Ended(g, f) /\ g.ret = f.ret
         /\ g.pc = "read"
         /\ \A s, n, v, q, m, blocks, own, buf2, errors :
               /\ Holds(s, n, v, q, m, blocks, image, own)
               /\ image[s].size = size /\ image[s].first = first
               => LoadFits(g, buf2, errors, v, q)
<1>1. f \in Frames /\ f.mirror = 0 /\ ~f.loaded /\ f.got = <<>> /\ f.i = 0
  BY LoadIs DEF FrameFits
<1>2. "read" \in Places
  BY DEF Places
<1>3. g \in Frames
  BY <1>1, <1>2 DEF Frames, Found
<1>4. /\ g.op = f.op /\ g.name = f.name /\ g.ver = f.ver /\ g.pc = "read" /\ g.cur = first
      /\ g.size = size /\ g.i = 0 /\ g.got = <<>> /\ g.mirror = 0 /\ ~g.loaded /\ g.ret = f.ret
  BY <1>1, <1>3 DEF Frames, Found
<1>5. ASSUME NEW buf2 PROVE FrameFits(g, image, buf2, cache, lba)
  BY <1>1, <1>3, <1>4 DEF FrameFits, Target, Building, Aimed, Allocating
<1>6. ASSUME NEW s, NEW n, NEW v, NEW q, NEW m, NEW blocks, NEW own,
             NEW buf2, NEW errors,
             Holds(s, n, v, q, m, blocks, image, own),
             image[s].size = size, image[s].first = first
      PROVE  LoadFits(g, buf2, errors, v, q)
  <2>1. size = Size(v) /\ first = q[1]
    BY <1>6 DEF Holds, Start
  <2>2. Len(g.got) = 0
    BY <1>4
  <2>3. g.cur = q[g.i + 1]
    BY <1>4, <2>1
  <2> QED
    BY <1>4, <2>1, <2>2, <2>3 DEF LoadFits
<1> QED
  BY <1>4, <1>5, <1>6 DEF Ended

\* There is nothing to read, or the read was cut short.
LEMMA LoadEndsFits ==
  ASSUME NEW f, NEW image, NEW buf, NEW cache, NEW lba, FrameFits(f, image, buf, cache, lba),
         f.op = "load", NEW h \in Frames, h.op = f.op, h.name = f.name, h.ver = f.ver,
         h.got = f.got,
         NEW ret \in {"ok", "error"}, NEW g, g = Return(h, ret),
         NEW buf2, NEW errors
  PROVE  /\ FrameFits(g, image, buf2, cache, lba) /\ Ended(g, f) /\ g.pc = "return"
         /\ \A v, q : /\ LoadFits(f, buf, 0, v, q)
                      /\ errors = 0 => Len(f.got) = Size(v)
                      => LoadFits(g, buf2, errors, v, q)
         /\ f.pc = "locate" =>
                \A v, q : /\ v \in Versions
                          /\ errors = 0 => Len(f.got) = Size(v)
                          => LoadFits(g, buf2, errors, v, q)
<1>1. /\ FrameFits(g, image, buf2, cache, lba) /\ Ended(g, h) /\ g.got = h.got
      /\ g.pc = "return"
  <2>1. h.op # "save"
    OBVIOUS
  <2> QED
    BY <2>1, ReturnFits
<1>2. ASSUME NEW v, NEW q, \/ f.pc = "locate" /\ v \in Versions
                           \/ LoadFits(f, buf, 0, v, q),
             errors = 0 => Len(f.got) = Size(v)
      PROVE  LoadFits(g, buf2, errors, v, q)
  <2>1. g.got = f.got
    BY <1>1
  <2>2. Len(f.got) <= Size(v) /\ \A j \in 1 .. Len(f.got) : f.got[j] = <<f.name, v, j>>
    <3>1. CASE f.pc = "locate" /\ v \in Versions
      <4>1. f.got = <<>> /\ Size(v) \in Nat
        BY <3>1, Numbers DEF FrameFits
      <4> QED
        BY <4>1
    <3>2. CASE LoadFits(f, buf, 0, v, q)
      BY <3>2 DEF LoadFits
    <3> QED
      BY <1>2, <3>1, <3>2
  <2>3. g.name = f.name
    BY <1>1 DEF Ended
  <2> QED
    BY <1>1, <1>2, <2>1, <2>2, <2>3 DEF LoadFits
<1> QED
  BY <1>1, <1>2 DEF Ended

\* The block is in sector_buf.
Reading(f) == [f EXCEPT !.pc = "copy"]

\* The next block of the file is in sector_buf.
LEMMA ReadFits ==
  ASSUME NEW f, NEW image, NEW buf, NEW cache, NEW lba, FrameFits(f, image, buf, cache, lba),
         f.op = "load", f.pc = "read", NEW blocks \in [Clusters -> Blocks],
         NEW g, g = Reading(f),
         NEW buf2, buf2 = [kind |-> "block", image |-> blocks[f.cur]]
  PROVE  /\ FrameFits(g, image, buf2, cache, lba) /\ Ended(g, f) /\ g.ret = f.ret
         /\ g.pc = "copy"
         /\ \A s, v, q, m, own, errors :
               /\ Holds(s, f.name, v, q, m, blocks, image, own)
               /\ LoadFits(f, buf, errors, v, q)
               => LoadFits(g, buf2, errors, v, q)
<1>1. /\ f \in Frames /\ f.mirror = 0 /\ ~f.loaded /\ f.cur \in Clusters
      /\ f.got \in Seq(Blocks) /\ f.i \in Nat
  BY LoadIs
<1>2. "copy" \in Places
  BY DEF Places
<1>3. g \in Frames
  BY <1>1, <1>2 DEF Frames, Reading
<1>4. /\ g.op = f.op /\ g.name = f.name /\ g.ver = f.ver /\ g.pc = "copy" /\ g.cur = f.cur
      /\ g.size = f.size /\ g.i = f.i /\ g.got = f.got /\ g.mirror = 0 /\ ~g.loaded
      /\ g.ret = f.ret
  BY <1>1, <1>3 DEF Frames, Reading
<1>5. buf2.kind = "block" /\ buf2.image \in Blocks /\ buf2.image = blocks[f.cur]
  BY <1>1
<1>6. FrameFits(g, image, buf2, cache, lba)
  BY <1>1, <1>3, <1>4, <1>5 DEF FrameFits, Target, Building, Aimed, Allocating
<1>7. ASSUME NEW s, NEW v, NEW q, NEW m, NEW own, NEW errors,
             Holds(s, f.name, v, q, m, blocks, image, own), LoadFits(f, buf, errors, v, q)
      PROVE  LoadFits(g, buf2, errors, v, q)
  <2>1. f.i < Size(v) /\ f.cur = q[f.i + 1] /\ f.i = Len(f.got) /\ f.size = Size(v)
    BY <1>7 DEF LoadFits
  <2>2. Size(v) \in Nat
    BY <1>7, Numbers DEF Holds
  <2>3. f.i + 1 \in 1 .. Size(v)
    BY <1>1, <2>1, <2>2
  <2>4. blocks[f.cur] = <<f.name, v, f.i + 1>>
    BY <1>7, <2>1, <2>3 DEF Holds
  <2>5. buf2.image = <<g.name, v, g.i + 1>>
    BY <1>4, <1>5, <2>4
  <2>6. Len(g.got) <= Size(v) /\ \A j \in 1 .. Len(g.got) : g.got[j] = <<g.name, v, j>>
    BY <1>4, <1>7 DEF LoadFits
  <2> QED
    BY <1>4, <1>5, <2>1, <2>5, <2>6 DEF LoadFits
<1> QED
  BY <1>4, <1>6, <1>7 DEF Ended

\* The block is the caller's.
Copied(f, block) == [f EXCEPT !.pc = "follow", !.i = @ + 1, !.got = Append(@, block)]

\* It has been copied to the caller.
LEMMA CopiedFits ==
  ASSUME NEW f, NEW image, NEW buf, NEW cache, NEW lba, FrameFits(f, image, buf, cache, lba),
         f.op = "load", f.pc = "copy",
         NEW g, g = Copied(f, buf.image)
  PROVE  /\ FrameFits(g, image, buf, cache, lba) /\ Ended(g, f) /\ g.ret = f.ret
         /\ g.pc = "follow"
         /\ \A v, q, errors : v \in Versions /\ LoadFits(f, buf, errors, v, q)
                      => LoadFits(g, buf, errors, v, q)
<1>1. /\ f \in Frames /\ f.mirror = 0 /\ ~f.loaded /\ f.cur \in Clusters
      /\ f.got \in Seq(Blocks) /\ f.i \in Nat
  BY LoadIs
<1>2. "follow" \in Places /\ buf.image \in Blocks
  BY DEF Places, FrameFits
<1> PICK n, got : n = f.i + 1 /\ got = Append(f.got, buf.image)
  OBVIOUS
<1>3. n \in Nat /\ got \in Seq(Blocks) /\ Len(got) = Len(f.got) + 1
      /\ (\A j \in 1 .. Len(f.got) : got[j] = f.got[j]) /\ got[Len(f.got) + 1] = buf.image
  BY <1>1, <1>2
<1>4. g = [f EXCEPT !.pc = "follow", !.i = n, !.got = got]
  BY <1>1 DEF Frames, Copied
<1>5. g \in Frames
  BY <1>1, <1>2, <1>3, <1>4, ZenonT(60) DEF Frames
<1>6. /\ g.op = f.op /\ g.name = f.name /\ g.ver = f.ver /\ g.pc = "follow" /\ g.cur = f.cur
      /\ g.size = f.size /\ g.i = n /\ g.got = got /\ g.mirror = 0 /\ ~g.loaded
      /\ g.ret = f.ret
  BY <1>1, <1>4, <1>5 DEF Frames
<1>7. FrameFits(g, image, buf, cache, lba)
  BY <1>1, <1>5, <1>6 DEF FrameFits, Target, Building, Aimed, Allocating
<1>8. ASSUME NEW v \in Versions, NEW q, NEW errors, LoadFits(f, buf, errors, v, q)
      PROVE  LoadFits(g, buf, errors, v, q)
  <2>1. /\ f.i < Size(v) /\ f.cur = q[f.i + 1] /\ f.i = Len(f.got) /\ f.size = Size(v)
        /\ buf.image = <<f.name, v, f.i + 1>>
    BY <1>8 DEF LoadFits
  <2>2. Size(v) \in Nat
    BY Numbers
  <2>3. Len(got) = n /\ n <= Size(v) /\ n >= 1 /\ f.cur = q[n]
    BY <1>1, <1>3, <2>1, <2>2
  <2>4. \A j \in 1 .. n : got[j] = <<f.name, v, j>>
    <3>1. \A j \in 1 .. Len(f.got) : f.got[j] = <<f.name, v, j>>
      BY <1>8 DEF LoadFits
    <3>2. 1 .. n = 1 .. Len(f.got) \cup {n} /\ n = Len(f.got) + 1
      BY <1>1, <2>1
    <3>3. got[n] = <<f.name, v, n>>
      BY <1>3, <2>1, <3>2
    <3> QED
      BY <1>3, <3>1, <3>2, <3>3
  <2> QED
    BY <1>6, <2>1, <2>3, <2>4 DEF LoadFits
<1> QED
  BY <1>6, <1>7, <1>8 DEF Ended

\* The link of the cluster just read has been read, or could not be.
Learnt(value, links, errors) == value \in links \/ (value = Eoc /\ errors # 0)

\* fat_next_cluster has returned, to a load: the next block, or the end.
LEMMA FollowedFits ==
  ASSUME NEW f, NEW image, NEW buf, NEW cache, NEW lba, FrameFits(f, image, buf, cache, lba),
         f.op = "load", f.pc = "follow",
         NEW value, NEW g, g = AfterNext(f, value)
  PROVE  /\ FrameFits(g, image, buf, cache, lba) /\ Ended(g, f) /\ g.ret \in {"ok", f.ret}
         /\ g.pc # "locate"
         /\ \A s, v, q, m, blocks, own, errors, errors2 :
               /\ Holds(s, f.name, v, q, m, blocks, image, own)
               /\ LoadFits(f, buf, errors, v, q)
               /\ Learnt(value, m[f.cur], errors2)
               => LoadFits(g, buf, errors2, v, q)
<1>1. /\ f \in Frames /\ f.mirror = 0 /\ f.cur \in Clusters
      /\ f.got \in Seq(Blocks) /\ f.i \in Nat /\ f.size \in Nat
  BY LoadIs
<1>0. PICK h : h = [f EXCEPT !.loaded = FALSE]
  OBVIOUS
<1>2. h \in Frames
  BY <1>0, <1>1, ZenonT(60) DEF Frames
<1>3. /\ h.op = f.op /\ h.name = f.name /\ h.ver = f.ver /\ h.pc = "follow"
      /\ h.size = f.size /\ h.i = f.i /\ h.got = f.got /\ h.mirror = 0 /\ ~h.loaded
      /\ h.ret = f.ret
  BY <1>0, <1>1, <1>2 DEF Frames
<1>4. g = IF h.i < h.size /\ value \in Clusters
          THEN [h EXCEPT !.pc = "read", !.cur = value]
          ELSE Return(h, "ok")
  BY <1>0, <1>3 DEF AfterNext
<1>5. ASSUME NEW s, NEW v, NEW q, NEW m, NEW blocks, NEW own, NEW errors, NEW errors2,
             Holds(s, f.name, v, q, m, blocks, image, own), LoadFits(f, buf, errors, v, q),
             Learnt(value, m[f.cur], errors2)
      PROVE  /\ v \in Versions /\ Size(v) \in Nat
             /\ f.size = Size(v) /\ f.i = Len(f.got) /\ f.i >= 1 /\ f.i <= Size(v)
             /\ value \in Clusters => f.i < Size(v) /\ value = q[f.i + 1]
             /\ errors2 = 0 /\ f.i < Size(v) => value \in Clusters
  <2>1. v \in Versions /\ Size(v) \in Nat /\ q \in [1 .. Size(v) -> Clusters]
    BY <1>5, Numbers DEF Holds
  <2>2. f.size = Size(v) /\ f.i = Len(f.got) /\ f.i >= 1 /\ f.i <= Size(v) /\ f.cur = q[f.i]
    BY <1>5 DEF LoadFits
  <2>3. f.i \in 1 .. Size(v)
    BY <1>1, <2>1, <2>2
  <2>4. m[f.cur] \subseteq {After(q, Size(v), f.i)}
    BY <1>5, <2>2, <2>3 DEF Holds, Linked
  <2>5. CASE f.i < Size(v)
    <3>1. After(q, Size(v), f.i) = q[f.i + 1] /\ f.i + 1 \in 1 .. Size(v)
      BY <1>1, <2>1, <2>5 DEF After
    <3>2. q[f.i + 1] \in Clusters
      BY <2>1, <3>1
    <3> QED
      BY <1>5, <2>1, <2>2, <2>4, <2>5, <3>1, <3>2, Numbers DEF Learnt
  <2>6. CASE ~(f.i < Size(v))
    <3>1. After(q, Size(v), f.i) = Eoc
      BY <2>6 DEF After
    <3> QED
      BY <1>5, <2>1, <2>2, <2>4, <2>6, <3>1, Numbers DEF Learnt
  <2> QED
    BY <2>5, <2>6
<1>6. CASE h.i < h.size /\ value \in Clusters
  <2>1. g = [h EXCEPT !.pc = "read", !.cur = value] /\ "read" \in Places
    BY <1>4, <1>6 DEF Places
  <2>2. g \in Frames
    BY <1>2, <1>6, <2>1 DEF Frames
  <2>3. /\ g.op = f.op /\ g.name = f.name /\ g.ver = f.ver /\ g.pc = "read" /\ g.cur = value
        /\ g.size = f.size /\ g.i = f.i /\ g.got = f.got /\ g.mirror = 0 /\ ~g.loaded
        /\ g.ret = f.ret
    BY <1>2, <1>3, <2>1, <2>2 DEF Frames
  <2>4. FrameFits(g, image, buf, cache, lba)
    BY <1>6, <2>2, <2>3 DEF FrameFits, Target, Building, Aimed, Allocating
  <2>5. ASSUME NEW s, NEW v, NEW q, NEW m, NEW blocks, NEW own, NEW errors, NEW errors2,
               Holds(s, f.name, v, q, m, blocks, image, own), LoadFits(f, buf, errors, v, q),
               Learnt(value, m[f.cur], errors2)
        PROVE  LoadFits(g, buf, errors2, v, q)
    <3>1. f.size = Size(v) /\ f.i = Len(f.got) /\ f.i < Size(v) /\ value = q[f.i + 1]
      BY <1>5, <1>6, <2>5
    <3>2. Len(f.got) <= Size(v) /\ \A j \in 1 .. Len(f.got) : f.got[j] = <<f.name, v, j>>
      BY <2>5 DEF LoadFits
    <3> QED
      BY <2>3, <3>1, <3>2 DEF LoadFits
  <2> QED
    BY <2>3, <2>4, <2>5 DEF Ended
<1>7. CASE ~(h.i < h.size /\ value \in Clusters)
  <2> PICK ret \in {"ok", "error"} : ret = "ok"
    OBVIOUS
  <2>1. g = Return(h, ret)
    BY <1>4, <1>7
  <2>2. h.op = "save" => h.ver \in Versions
    BY <1>3
  <2>3. /\ FrameFits(g, image, buf, cache, lba) /\ Ended(g, h) /\ g.got = h.got
        /\ g.ret = "ok" /\ g.pc = "return"
    BY <1>2, <2>1, <2>2, ReturnFits
  <2>4. ASSUME NEW s, NEW v, NEW q, NEW m, NEW blocks, NEW own, NEW errors, NEW errors2,
               Holds(s, f.name, v, q, m, blocks, image, own), LoadFits(f, buf, errors, v, q),
               Learnt(value, m[f.cur], errors2)
        PROVE  LoadFits(g, buf, errors2, v, q)
    <3>1. /\ f.size = Size(v) /\ f.i = Len(f.got) /\ f.i <= Size(v) /\ Size(v) \in Nat
          /\ errors2 = 0 /\ f.i < Size(v) => value \in Clusters
      BY <1>5, <2>4
    <3>2. errors2 = 0 => Len(f.got) = Size(v)
      BY <1>1, <1>3, <1>7, <3>1
    <3>3. Len(f.got) <= Size(v) /\ \A j \in 1 .. Len(f.got) : f.got[j] = <<f.name, v, j>>
      BY <2>4 DEF LoadFits
    <3>4. g.got = f.got /\ g.name = f.name
      BY <1>3, <2>3 DEF Ended
    <3> QED
      BY <2>3, <3>2, <3>3, <3>4 DEF LoadFits
  <2> QED
    BY <1>3, <2>3, <2>4 DEF Ended
<1> QED
  BY <1>6, <1>7

-----------------------------------------------------------------------------
(***************************************************************************)
(* The steps of the specification.                                         *)
(***************************************************************************)
\* What may be read of the FAT, before and after a disk access.
LEMMA MayLoad ==
  ASSUME NEW links, NEW cache, NEW cache2, NEW tag, NEW tag2,
         \A c \in Clusters : FatSector(c) = tag2 => cache2[c] = links[c]
  PROVE  Within(May(links, cache2, tag2), May(links, cache, tag))
BY DEF Within, May

\* After fat_set has changed the cache,
LEMMA MaySet ==
  ASSUME NEW links, NEW cache \in [Clusters -> Links], NEW t \in Clusters, NEW v
  PROVE  Sets(May(links, [cache EXCEPT ![t] = v], FatSector(t)),
              May(links, cache, FatSector(t)), t, v)
BY DEF Sets, May

\* and after it has written the first copy.
LEMMA MayWrite ==
  ASSUME NEW links, NEW links2, NEW cache, NEW t \in Clusters,
         \A c \in Clusters : links2[c] = IF FatSector(c) = FatSector(t) THEN cache[c]
                                         ELSE links[c]
  PROVE  /\ Within(May(links2, cache, FatSector(t)), May(links, cache, FatSector(t)))
         /\ May(links2, cache, FatSector(t))[t] \subseteq {cache[t]}
BY DEF Within, May

\* The operation in flight.
LEMMA TopIs ==
  ASSUME Types, ops # <<>>
  PROVE  /\ ops = <<Top>> /\ Len(ops) = 1 /\ Top = ops[1] /\ Top \in Frames
         /\ FrameFits(Top, dir, sectorBuf, fatCache, fatCacheLba)
         /\ \A g : Continue(g) => ops' = <<g>>
<1>1. ops = <<ops[1]>> /\ FrameFits(ops[1], dir, sectorBuf, fatCache, fatCacheLba)
  BY DEF Types
<1>2. Len(ops) = 1
  BY <1>1
<1>3. Top = ops[1]
  BY <1>2 DEF Top
<1>4. ASSUME NEW g, Continue(g) PROVE ops' = <<g>>
  <2>1. ops' = [ops EXCEPT ![1] = g]
    BY <1>2, <1>4 DEF Continue
  <2>2. ops' = [<<ops[1]>> EXCEPT ![1] = g]
    BY <1>1, <2>1
  <2> QED
    BY <2>2
<1> QED
  BY <1>1, <1>2, <1>3, <1>4 DEF FrameFits

\* What the invariant says of an operation in flight.
LEMMA NowIs ==
  ASSUME Types, ops # <<>>, NEW own, NEW p, NEW ver, NEW path, Now(own, p, ver, path),
         NEW f, f = Top, NEW m, m = May(fat[1], fatCache, Tag(ops, fatCacheLba))
  PROVE  /\ own \in [Clusters -> Owners]
         /\ Volume(m, dir, own) /\ Files(m, data, dir, suspect, own, ver, path)
         /\ f.op = "save" => SaveFits(f, m, data, dir, own, p)
         /\ Loads(f, dir, suspect, sectorBuf, faults, ver, path)
         /\ m = May(fat[1], fatCache, IF f.loaded THEN FatSector(Target(f)) ELSE fatCacheLba)
<1>1. f = ops[1]
  BY TopIs
<1>2. Tag(ops, fatCacheLba) = IF f.loaded THEN FatSector(Target(f)) ELSE fatCacheLba
  BY <1>1 DEF Tag
<1> QED
  BY <1>1, <1>2 DEF Now, Ghosts

\* What is to be shown of the state after a step.
LEMMA StepIs ==
  ASSUME NEW g, ops' = <<g>>, FrameFits(g, dir', sectorBuf', fatCache', fatCacheLba'),
         fat' \in [Copies -> [Clusters -> Links]], data' \in [Clusters -> Blocks],
         dir' \in Directory,
         fatCache' \in [Clusters -> Links], fatCacheLba' \in Sectors,
         sectorBuf'.kind \in {"none", "dir", "block"},
         cuts' \in 0 .. MaxCuts, faults' \in 0 .. MaxFaults, suspect' \subseteq Names,
         NEW m, m = May(fat'[1], fatCache',
                        IF g.loaded THEN FatSector(Target(g)) ELSE fatCacheLba'),
         NEW own \in [Clusters -> Owners], NEW p, NEW ver, NEW path,
         Volume(m, dir', own), Files(m, data', dir', suspect', own, ver, path),
         g.op = "save" => SaveFits(g, m, data', dir', own, p),
         Loads(g, dir', suspect', sectorBuf', faults', ver, path)
  PROVE  Types' /\ Now(own, p, ver, path)'
<1>1. ops' # <<>> /\ ops'[1] = g /\ ops' = <<ops'[1]>>
  OBVIOUS
<1>2. Types'
  BY <1>1 DEF Types
<1>3. m = May(fat[1], fatCache, Tag(ops, fatCacheLba))'
  BY <1>1 DEF Tag
<1>4. Now(own, p, ver, path)'
  BY <1>1, <1>3 DEF Now, Ghosts
<1> QED
  BY <1>2, <1>4

\* Where neither the disk nor fat_cache changes.
LEMMA QuietStep ==
  ASSUME Types, ops # <<>>, ~Top.loaded, NEW own, NEW p, NEW ver, NEW path,
         Now(own, p, ver, path),
         NEW g, Continue(g), ~g.loaded,
         UNCHANGED <<fat, data, dir, fatCache, fatCacheLba, cuts, suspect>>,
         faults' \in 0 .. MaxFaults, sectorBuf'.kind \in {"none", "dir", "block"},
         FrameFits(g, dir, sectorBuf', fatCache, fatCacheLba),
         NEW m, m = May(fat[1], fatCache, Tag(ops, fatCacheLba)),
         g.op = "save" => SaveFits(g, m, data, dir, own, p),
         Loads(g, dir, suspect, sectorBuf', faults', ver, path)
  PROVE  Types' /\ Now(own, p, ver, path)'
<1>1. ops' = <<g>>
  BY TopIs
<1>2. /\ own \in [Clusters -> Owners]
      /\ Volume(m, dir, own) /\ Files(m, data, dir, suspect, own, ver, path)
      /\ m = May(fat[1], fatCache, fatCacheLba)
  BY NowIs
<1>3. /\ fat' \in [Copies -> [Clusters -> Links]] /\ data' \in [Clusters -> Blocks]
      /\ dir' \in Directory /\ fatCache' \in [Clusters -> Links] /\ fatCacheLba' \in Sectors
      /\ cuts' \in 0 .. MaxCuts /\ suspect' \subseteq Names
  BY DEF Types
<1>4. m = May(fat'[1], fatCache', IF g.loaded THEN FatSector(Target(g)) ELSE fatCacheLba')
  BY <1>2
<1> QED
  BY <1>1, <1>2, <1>3, <1>4, StepIs

\* How a disk access may end.
LEMMA Outcome ==
  ASSUME Orderly, Types, NEW o, o \in ReadOutcomes \/ o \in WriteOutcomes, Account(o)
  PROVE  /\ o \in {"ok", "lost"} /\ faults' \in 0 .. MaxFaults
         /\ o = "ok" => faults' = faults
         /\ o # "ok" => faults' # 0
<1>1. faults \in Nat /\ faults <= MaxFaults /\ MaxFaults \in Nat
  BY BoundAssumption DEF Types
<1>2. o = "ok" \/ (o = "lost" /\ faults < MaxFaults)
  BY DEF Orderly, ReadOutcomes, WriteOutcomes
<1>3. faults' = IF o = "ok" THEN faults ELSE faults + 1
  BY DEF Account
<1> QED
  BY <1>1, <1>2, <1>3

\* BeginSave and BeginLoad preserve the invariant, and so do all the others.
LEMMA StepBegin ==
  ASSUME Orderly, Types, NEW own, NEW p, NEW ver, NEW path, Now(own, p, ver, path),
         NEW op \in {"save", "load"}, NEW n \in Names, NEW v,
         op = "save" => v \in Versions, op = "load" => v = None,
         Len(ops) < MaxDepth, ops' = Append(ops, NewFrame(op, n, v)),
         UNCHANGED <<disk, driver, cuts, faults, suspect>>
  PROVE  /\ Types' /\ ops = <<>> /\ ops' = <<NewFrame(op, n, v)>>
         /\ \E own2, p2 : own2 = Dropped(own) /\ Now(own2, p2, ver, path)'
<1> PICK g : g = NewFrame(op, n, v)
  OBVIOUS
<1>1. /\ g \in Frames /\ g.op = op /\ g.name = n /\ g.ver = v /\ g.pc = "locate"
      /\ g.slot = 0 /\ g.old = 0 /\ g.first = 0 /\ g.prev = 0 /\ g.cur = 0 /\ g.i = 0
      /\ g.got = <<>> /\ g.mirror = 0 /\ ~g.loaded /\ ~g.flawed
      /\ g.ret = "none"
  BY NewFrameIs
<1>2. ops = <<>>
  <2>1. Len(ops) < 1
    BY DEF Orderly
  <2>2. ops # <<>> => Len(ops) = 1
    BY TopIs
  <2> QED
    BY <2>1, <2>2
<1>3. ops' = <<g>>
  BY <1>2
<1>4. /\ UNCHANGED <<fat, data, dir, fatCache, fatCacheLba, sectorBuf, cuts, faults, suspect>>
  BY DEF disk, driver
<1>5. /\ fat' \in [Copies -> [Clusters -> Links]] /\ data' \in [Clusters -> Blocks]
      /\ dir' \in Directory /\ fatCache' \in [Clusters -> Links] /\ fatCacheLba' \in Sectors
      /\ cuts' \in 0 .. MaxCuts /\ suspect' \subseteq Names /\ faults' \in 0 .. MaxFaults
      /\ sectorBuf'.kind \in {"none", "dir", "block"}
  BY <1>4 DEF Types
<1> PICK m : m = May(fat'[1], fatCache',
                     IF g.loaded THEN FatSector(Target(g)) ELSE fatCacheLba')
  OBVIOUS
<1>6. m = May(fat[1], fatCache, Tag(ops, fatCacheLba))
  BY <1>1, <1>2, <1>4 DEF Tag
<1>7. /\ own \in [Clusters -> Owners]
      /\ Volume(m, dir, own) /\ Files(m, data, dir, suspect, own, ver, path)
  BY <1>6 DEF Now, Ghosts
<1> PICK o, q : o = Dropped(own) /\ q = <<>>
  OBVIOUS
<1>8. /\ o \in [Clusters -> Owners] /\ Volume(m, dir, o)
      /\ Files(m, data, dir, suspect, o, ver, path)
      /\ \A c \in Clusters : o[c] # Mine
  BY <1>7, VolumeDropped, FilesDropped
<1>9. g.op = "save" => SaveFits(g, m, data, dir, o, q)
  <2> SUFFICES ASSUME g.op = "save" PROVE SaveFits(g, m, data, dir, o, q)
    OBVIOUS
  <2>1. Taken(g) = 0
    BY <1>1 DEF Taken
  <2>2. Takes(g, m, data, o, q)
    BY <1>1, <1>8, <2>1 DEF Takes, Start
  <2>3. Strung(g, m, q)
    BY <2>1 DEF Strung
  <2> QED
    BY <1>1, <2>2, <2>3 DEF SaveFits, Building, Aimed, Allocating
<1>10. FrameFits(g, dir, sectorBuf, fatCache, fatCacheLba)
  <2>1. op = "save" => Size(v) \in Nat
    BY Numbers
  <2> QED
    BY <1>1, <2>1 DEF FrameFits, Building, Aimed, Allocating
<1>11. Loads(g, dir, suspect, sectorBuf, faults, ver, path)
  BY <1>1 DEF Loads
<1>12. Types' /\ Now(o, q, ver, path)'
  <2>1. FrameFits(g, dir', sectorBuf', fatCache', fatCacheLba')
        /\ Volume(m, dir', o) /\ Files(m, data', dir', suspect', o, ver, path)
        /\ (g.op = "save" => SaveFits(g, m, data', dir', o, q))
        /\ Loads(g, dir', suspect', sectorBuf', faults', ver, path)
    BY <1>4, <1>8, <1>9, <1>10, <1>11
  <2> QED
    BY <1>3, <1>5, <1>8, <2>1, StepIs
<1> QED
  BY <1>2, <1>3, <1>12

\* Leave.
LEMMA StepLeave ==
  ASSUME Types, NEW own, NEW p, NEW ver, NEW path, Now(own, p, ver, path), Leave
  PROVE  Types' /\ Now(own, p, ver, path)'
<1>1. ops # <<>> /\ Top.pc = "return"
  BY DEF Leave, At
<1>2. Len(ops) = 1 /\ Top = ops[1] /\ FrameFits(Top, dir, sectorBuf, fatCache, fatCacheLba)
  BY <1>1, TopIs
<1>3. ops' = <<>>
  BY <1>2 DEF Leave, Front
<1>4. ~ops[1].loaded
  BY <1>1, <1>2 DEF FrameFits, ReadingFat, SettingFat
<1>5. UNCHANGED <<fat, data, dir, fatCache, fatCacheLba, cuts, faults, suspect>>
      /\ sectorBuf'.kind = "none"
  BY <1>2 DEF Leave, disk
<1>6. Types'
  BY <1>3, <1>5 DEF Types
<1>7. May(fat[1], fatCache, Tag(ops, fatCacheLba))' = May(fat[1], fatCache, Tag(ops, fatCacheLba))
  BY <1>3, <1>4, <1>5 DEF Tag
<1> QED
  BY <1>3, <1>5, <1>6, <1>7 DEF Now, Ghosts

\* Patch.
LEMMA StepPatch ==
  ASSUME Orderly, Types, NEW own, NEW p, NEW ver, NEW path, Now(own, p, ver, path), Patch
  PROVE  Types' /\ Now(own, p, ver, path)'
<1> PICK f : f = Top
  OBVIOUS
<1> PICK m : m = May(fat[1], fatCache, Tag(ops, fatCacheLba))
  OBVIOUS
<1>1. ops # <<>> /\ f.pc = "commit"
  BY DEF Patch, At
<1>2. f \in Frames /\ FrameFits(f, dir, sectorBuf, fatCache, fatCacheLba)
  BY <1>1, TopIs
<1>3. f.op = "save" /\ f.ver \in Versions /\ ~f.loaded
  BY <1>1, <1>2, FrameHas DEF FrameFits, ReadingFat, SettingFat
<1>4. SaveFits(f, m, data, dir, own, p)
  BY <1>1, <1>3, NowIs
<1>5. UNCHANGED <<fat, data, dir, fatCache, fatCacheLba, cuts, suspect>>
  BY DEF Patch, disk
<1>6. PICK o \in ReadOutcomes :
        /\ Account(o)
        /\ IF o = "ok"
           THEN /\ sectorBuf' = [kind |-> "dir",
                      image |-> [dir EXCEPT ![f.slot] =
                                    [name |-> f.name, first |-> f.first,
                                     size |-> Size(f.ver)]]]
                /\ Continue([f EXCEPT !.pc = "writeback"])
           ELSE /\ UNCHANGED sectorBuf
                /\ Continue(GiveUp(f))
  BY DEF Patch
<1>7. faults' \in 0 .. MaxFaults
  BY <1>6, Outcome
<1>8. ASSUME NEW g, Continue(g), sectorBuf'.kind \in {"none", "dir", "block"},
             FrameFits(g, dir, sectorBuf', fatCache, fatCacheLba),
             SaveFits(g, m, data, dir, own, p), ~g.loaded, g.op = "save"
      PROVE  Types' /\ Now(own, p, ver, path)'
  <2>1. Loads(g, dir, suspect, sectorBuf', faults', ver, path)
    BY <1>8 DEF Loads
  <2> QED
    BY <1>1, <1>3, <1>5, <1>7, <1>8, <2>1, QuietStep
<1>9. CASE o = "ok"
  <2> PICK g : g = [f EXCEPT !.pc = "writeback"]
    OBVIOUS
  <2>1. /\ FrameFits(g, dir, sectorBuf', fatCache, fatCacheLba)
        /\ SaveFits(g, m, data, dir, own, p) /\ Ended(g, f)
    BY <1>1, <1>2, <1>3, <1>4, <1>6, <1>9, PatchedFits
  <2>2. Continue(g) /\ sectorBuf'.kind = "dir"
    BY <1>6, <1>9
  <2>3. ~g.loaded /\ g.op = "save"
    BY <1>3, <2>1 DEF Ended
  <2> QED
    BY <1>8, <2>1, <2>2, <2>3
<1>10. CASE o # "ok"
  <2> PICK g : g = GiveUp(f)
    OBVIOUS
  <2>1. f.first # 0 => own[f.first] = Mine
    BY <1>1, <1>2, <1>4, OwnsFirst DEF SaveFits, Building, Aimed
  <2>2. /\ FrameFits(g, dir, sectorBuf, fatCache, fatCacheLba)
        /\ SaveFits(g, m, data, dir, own, p) /\ g.op = "save" /\ ~g.loaded
    BY <1>2, <1>3, <2>1, GivenUpFits
  <2>3. sectorBuf' = sectorBuf /\ sectorBuf.kind \in {"none", "dir", "block"}
    BY <1>6, <1>10 DEF Types
  <2> QED
    BY <1>6, <1>8, <1>10, <2>2, <2>3
<1> QED
  BY <1>9, <1>10

\* A quiet step of a save.
LEMMA QuietSave ==
  ASSUME Types, ops # <<>>, ~Top.loaded, NEW own, NEW p, NEW ver, NEW path,
         Now(own, p, ver, path),
         NEW g, Continue(g), g.op = "save", ~g.loaded,
         UNCHANGED <<fat, data, dir, fatCache, fatCacheLba, cuts, suspect>>,
         faults' \in 0 .. MaxFaults, sectorBuf'.kind \in {"none", "dir", "block"},
         FrameFits(g, dir, sectorBuf', fatCache, fatCacheLba),
         NEW m, m = May(fat[1], fatCache, Tag(ops, fatCacheLba)),
         SaveFits(g, m, data, dir, own, p)
  PROVE  Types' /\ Now(own, p, ver, path)'
<1>1. Loads(g, dir, suspect, sectorBuf', faults', ver, path)
  BY DEF Loads
<1> QED
  BY <1>1, QuietStep

\* Fill.
LEMMA StepFill ==
  ASSUME Orderly, Types, NEW own, NEW p, NEW ver, NEW path, Now(own, p, ver, path), Fill
  PROVE  Types' /\ Now(own, p, ver, path)'
<1> PICK f : f = Top
  OBVIOUS
<1> PICK m : m = May(fat[1], fatCache, Tag(ops, fatCacheLba))
  OBVIOUS
<1> PICK g : g = [f EXCEPT !.pc = "write"]
  OBVIOUS
<1>1. /\ ops # <<>> /\ f.pc = "fill" /\ Continue(g)
      /\ sectorBuf' = [kind |-> "block", image |-> <<f.name, f.ver, f.i + 1>>]
  BY DEF Fill, At
<1>2. f \in Frames /\ FrameFits(f, dir, sectorBuf, fatCache, fatCacheLba)
  BY <1>1, TopIs
<1>3. f.op = "save" /\ f.ver \in Versions /\ ~f.loaded
  BY <1>1, <1>2, FrameHas DEF FrameFits, ReadingFat, SettingFat
<1>4. SaveFits(f, m, data, dir, own, p)
  BY <1>1, <1>3, NowIs
<1>5. UNCHANGED <<fat, data, dir, fatCache, fatCacheLba, cuts, suspect>>
      /\ faults' \in 0 .. MaxFaults
  BY DEF Fill, disk, Types
<1>6. /\ FrameFits(g, dir, sectorBuf', fatCache, fatCacheLba)
      /\ SaveFits(g, m, data, dir, own, p) /\ Ended(g, f)
  BY <1>1, <1>2, <1>3, <1>4, FilledFits
<1>7. g.op = "save" /\ ~g.loaded /\ sectorBuf'.kind = "block"
  BY <1>1, <1>3, <1>6 DEF Ended
<1> QED
  BY <1>1, <1>3, <1>5, <1>6, <1>7, QuietSave

\* Flush.
LEMMA StepFlush ==
  ASSUME Orderly, Types, NEW own, NEW p, NEW ver, NEW path, Now(own, p, ver, path), Flush
  PROVE  Types' /\ Now(own, p, ver, path)'
<1> PICK f : f = Top
  OBVIOUS
<1> PICK m : m = May(fat[1], fatCache, Tag(ops, fatCacheLba))
  OBVIOUS
<1> PICK ret : ret = f.ret
  OBVIOUS
<1> PICK g : g = Return(f, ret)
  OBVIOUS
<1>1. ops # <<>> /\ f.pc = "flush" /\ Continue(g)
  BY DEF Flush, At
<1>2. f \in Frames /\ FrameFits(f, dir, sectorBuf, fatCache, fatCacheLba)
  BY <1>1, TopIs
<1>3. f.op = "save" /\ f.ver \in Versions /\ ~f.loaded /\ ret \in {"ok", "error"}
  BY <1>1, <1>2, FrameHas DEF FrameFits, ReadingFat, SettingFat
<1>4. UNCHANGED <<fat, data, dir, fatCache, fatCacheLba, sectorBuf, cuts, suspect>>
      /\ faults' \in 0 .. MaxFaults /\ sectorBuf.kind \in {"none", "dir", "block"}
  BY DEF Flush, disk, driver, Types
<1>5. /\ FrameFits(g, dir, sectorBuf, fatCache, fatCacheLba)
      /\ SaveFits(g, m, data, dir, own, p) /\ Ended(g, f)
  BY <1>2, <1>3, ReturnFits
<1>6. g.op = "save" /\ ~g.loaded /\ sectorBuf' = sectorBuf
  BY <1>3, <1>4, <1>5 DEF Ended
<1>7. FrameFits(g, dir, sectorBuf', fatCache, fatCacheLba)
      /\ sectorBuf'.kind \in {"none", "dir", "block"}
  BY <1>4, <1>5, <1>6
<1> QED
  BY <1>1, <1>3, <1>4, <1>5, <1>6, <1>7, QuietSave

\* FindSlot.
LEMMA StepFindSlot ==
  ASSUME Orderly, Types, NEW own, NEW p, NEW ver, NEW path, Now(own, p, ver, path), FindSlot
  PROVE  Types' /\ Now(own, p, ver, path)'
<1> PICK f : f = Top
  OBVIOUS
<1> PICK m : m = May(fat[1], fatCache, Tag(ops, fatCacheLba))
  OBVIOUS
<1>1. ops # <<>> /\ f.pc = "slot"
  BY DEF FindSlot, At
<1>2. f \in Frames /\ FrameFits(f, dir, sectorBuf, fatCache, fatCacheLba)
  BY <1>1, TopIs
<1>3. f.op = "save" /\ f.ver \in Versions /\ ~f.loaded
  BY <1>1, <1>2, FrameHas DEF FrameFits, ReadingFat, SettingFat
<1>4. SaveFits(f, m, data, dir, own, p) /\ dir \in Directory
  BY <1>1, <1>3, NowIs DEF Types
<1>5. UNCHANGED <<fat, data, dir, fatCache, fatCacheLba, cuts, suspect>>
  BY DEF FindSlot, disk
<1> PICK empty : empty = Find(dir, None)
  OBVIOUS
<1>6. PICK o \in ReadOutcomes :
        /\ Account(o)
        /\ sectorBuf' = IF o = "ok" THEN [kind |-> "dir", image |-> dir] ELSE sectorBuf
        /\ Continue(IF o = "ok" /\ empty # {}
                    THEN NextCluster([f EXCEPT !.slot = Least(empty)])
                    ELSE Return(f, "error"))
  BY DEF FindSlot
<1>7. faults' \in 0 .. MaxFaults /\ sectorBuf'.kind \in {"none", "dir", "block"}
  <2>1. faults' \in 0 .. MaxFaults
    BY <1>6, Outcome
  <2>2. sectorBuf.kind \in {"none", "dir", "block"}
    BY DEF Types
  <2> QED
    BY <1>6, <2>1, <2>2
<1>8. CASE o = "ok" /\ empty # {}
  <2> PICK s : s = Least(empty)
    OBVIOUS
  <2>1. s \in 1 .. DirSlots /\ dir[s].name = None
    BY <1>8, LeastIs DEF IsHome
  <2>0. PICK g : g = NextCluster([f EXCEPT !.slot = s])
    OBVIOUS
  <2>a. PICK none : none = 0
    OBVIOUS
  <2>2. f.old = none /\ none \in {0} \cup Clusters
    BY <1>1, <1>4, <2>a DEF SaveFits
  <2>3. g = NextCluster(Located(f, s, none))
    <3>1. [f EXCEPT !.slot = s] = [f EXCEPT !.slot = s, !.old = none]
      BY <1>2, <2>2 DEF Frames
    <3> QED
      BY <2>0, <3>1 DEF Located
  <2>4. ~f.flawed => Homeless(dir, f.name)
    BY <1>1, <1>4 DEF SaveFits
  <2>b. Fitting(f, dir, s, none)
    BY <2>1, <2>4, <2>a DEF Fitting
  <2>c. f.op = "save" /\ f.pc \in {"locate", "slot"} /\ s \in 1 .. DirSlots
    BY <1>1, <1>3, <2>1
  <2>5. /\ \A buf2 : FrameFits(g, dir, buf2, fatCache, fatCacheLba)
        /\ SaveFits(g, m, data, dir, own, p) /\ Ended(g, f)
    BY <1>2, <1>4, <2>2, <2>3, <2>b, <2>c, LocatedFits
  <2>6. g.op = "save" /\ ~g.loaded /\ Continue(g)
    BY <1>3, <1>6, <1>8, <2>0, <2>5 DEF Ended
  <2> QED
    BY <1>1, <1>3, <1>5, <1>7, <2>5, <2>6, QuietSave
<1>9. CASE ~(o = "ok" /\ empty # {})
  <2> PICK ret \in {"ok", "error"} : ret = "error"
    OBVIOUS
  <2> PICK g : g = Return(f, ret)
    OBVIOUS
  <2>1. /\ FrameFits(g, dir, sectorBuf', fatCache, fatCacheLba)
        /\ SaveFits(g, m, data, dir, own, p) /\ Ended(g, f)
    BY <1>2, <1>3, ReturnFits
  <2>2. g.op = "save" /\ ~g.loaded /\ Continue(g)
    BY <1>3, <1>6, <1>9, <2>1 DEF Ended
  <2> QED
    BY <1>1, <1>3, <1>5, <1>7, <2>1, <2>2, QuietSave
<1> QED
  BY <1>8, <1>9

\* Locate, in a save.
LEMMA StepLocateSave ==
  ASSUME Orderly, Types, NEW own, NEW p, NEW ver, NEW path, Now(own, p, ver, path), Locate,
         Top.op = "save"
  PROVE  Types' /\ Now(own, p, ver, path)'
<1> PICK f : f = Top
  OBVIOUS
<1> PICK m : m = May(fat[1], fatCache, Tag(ops, fatCacheLba))
  OBVIOUS
<1>1. ops # <<>> /\ f.pc = "locate"
  BY DEF Locate, At
<1>2. f \in Frames /\ FrameFits(f, dir, sectorBuf, fatCache, fatCacheLba)
  BY <1>1, TopIs
<1>3. f.op = "save" /\ f.ver \in Versions /\ ~f.loaded
  BY <1>1, <1>2, FrameHas DEF FrameFits, ReadingFat, SettingFat
<1>4. SaveFits(f, m, data, dir, own, p) /\ dir \in Directory
  BY <1>1, <1>3, NowIs DEF Types
<1>5. UNCHANGED <<fat, data, dir, fatCache, fatCacheLba, cuts, suspect>>
  BY DEF Locate, disk
<1>0. PICK found : found = Find(dir, f.name)
  OBVIOUS
<1>a. PICK s : s = Least(found)
  OBVIOUS
<1>b. PICK bad \in BOOLEAN : bad = (found # {})
  OBVIOUS
<1>6. PICK o \in ReadOutcomes :
        /\ Account(o)
        /\ sectorBuf' = IF o = "ok" THEN [kind |-> "dir", image |-> dir] ELSE sectorBuf
        /\ Continue(IF o = "ok" /\ bad THEN NextCluster(Located(f, s, dir[s].first))
                    ELSE Missed(f, bad))
  BY <1>3, <1>0, <1>a, <1>b DEF Locate, Located, Missed
<1>7. faults' \in 0 .. MaxFaults /\ sectorBuf'.kind \in {"none", "dir", "block"}
  <2>1. faults' \in 0 .. MaxFaults
    BY <1>6, Outcome
  <2>2. sectorBuf.kind \in {"none", "dir", "block"}
    BY DEF Types
  <2> QED
    BY <1>6, <2>1, <2>2
<1>8. CASE o = "ok" /\ bad
  <2>0. PICK first : first = dir[s].first
    OBVIOUS
  <2>1. s \in 1 .. DirSlots /\ IsHome(dir, f.name, s)
    BY <1>8, <1>0, <1>a, <1>b, LeastIs
  <2>2. first \in {0} \cup Clusters
    BY <1>4, <2>0, <2>1 DEF Directory, Entries
  <2>g. PICK g : g = NextCluster(Located(f, s, first))
    OBVIOUS
  <2>3. f.op = "save" /\ f.pc \in {"locate", "slot"} /\ Fitting(f, dir, s, first)
    BY <1>1, <1>3, <2>0, <2>1 DEF Fitting
  <2>4. /\ \A buf2 : FrameFits(g, dir, buf2, fatCache, fatCacheLba)
        /\ SaveFits(g, m, data, dir, own, p) /\ Ended(g, f)
    BY <1>2, <1>4, <2>1, <2>2, <2>3, <2>g, LocatedFits
  <2>5. Continue(g)
    BY <1>6, <1>8, <2>0, <2>g
  <2>6. g.op = "save" /\ ~g.loaded
    BY <1>3, <2>4 DEF Ended
  <2> QED
    BY <1>1, <1>3, <1>5, <1>7, <2>4, <2>5, <2>6, QuietSave
<1>9. CASE ~(o = "ok" /\ bad)
  <2>g. PICK g : g = Missed(f, bad)
    OBVIOUS
  <2>1. ~bad => Homeless(dir, f.name)
    BY <1>0, <1>b, HomelessIs
  <2>2. /\ \A buf2 : FrameFits(g, dir, buf2, fatCache, fatCacheLba)
        /\ SaveFits(g, m, data, dir, own, p) /\ Ended(g, f)
    BY <1>1, <1>2, <1>3, <1>4, <2>1, <2>g, MissedFits
  <2>3. Continue(g)
    BY <1>6, <1>9, <2>g
  <2>4. g.op = "save" /\ ~g.loaded
    BY <1>3, <2>2 DEF Ended
  <2> QED
    BY <1>1, <1>3, <1>5, <1>7, <2>2, <2>3, <2>4, QuietSave
<1> QED
  BY <1>8, <1>9

\* Locate, in a load.
LEMMA StepLocateLoad ==
  ASSUME Orderly, Types, NEW own, NEW p, NEW ver, NEW path, Now(own, p, ver, path), Locate,
         Top.op = "load"
  PROVE  Types' /\ Now(own, p, ver, path)'
<1> PICK f : f = Top
  OBVIOUS
<1> PICK m : m = May(fat[1], fatCache, Tag(ops, fatCacheLba))
  OBVIOUS
<1>1. ops # <<>> /\ f.pc = "locate"
  BY DEF Locate, At
<1>2. f \in Frames /\ FrameFits(f, dir, sectorBuf, fatCache, fatCacheLba)
  BY <1>1, TopIs
<1>3. f.op = "load" /\ ~f.loaded /\ f.name \in Names /\ f.got = <<>>
  BY <1>1, <1>2, FrameHas DEF FrameFits, ReadingFat, SettingFat
<1>4. Files(m, data, dir, suspect, own, ver, path) /\ dir \in Directory
  BY <1>1, NowIs DEF Types
<1>5. UNCHANGED <<fat, data, dir, fatCache, fatCacheLba, cuts, suspect>>
  BY DEF Locate, disk
<1>0. PICK found, s : found = Find(dir, f.name) /\ s = Least(found)
  OBVIOUS
<1>6. PICK o \in ReadOutcomes :
        /\ Account(o)
        /\ sectorBuf' = IF o = "ok" THEN [kind |-> "dir", image |-> dir] ELSE sectorBuf
        /\ Continue(IF o = "ok" /\ found # {}
                    THEN IF dir[s].size > 0 /\ dir[s].first \in Clusters
                         THEN Found(f, dir[s].first, dir[s].size)
                         ELSE Return(f, "ok")
                    ELSE Return(f, "error"))
  BY <1>3, <1>0 DEF Locate, Found
<1>7. /\ faults' \in 0 .. MaxFaults /\ sectorBuf'.kind \in {"none", "dir", "block"}
      /\ o # "ok" => faults' # 0
  <2>1. faults' \in 0 .. MaxFaults /\ (o # "ok" => faults' # 0)
    BY <1>6, Outcome
  <2>2. sectorBuf.kind \in {"none", "dir", "block"}
    BY DEF Types
  <2> QED
    BY <1>6, <2>1, <2>2
<1>8. ASSUME NEW g, Continue(g), FrameFits(g, dir, sectorBuf', fatCache, fatCacheLba),
             Ended(g, f),
             \A t \in 1 .. DirSlots : f.name \notin suspect /\ IsHome(dir, f.name, t) =>
                LoadFits(g, sectorBuf', faults', ver[f.name], path[f.name])
      PROVE  Types' /\ Now(own, p, ver, path)'
  <2>1. g.name = f.name /\ g.op = "load" /\ ~g.loaded /\ g.op # "save"
    BY <1>3, <1>8 DEF Ended
  <2>2. Loads(g, dir, suspect, sectorBuf', faults', ver, path)
    BY <1>8, <2>1 DEF Loads
  <2> QED
    BY <1>1, <1>3, <1>5, <1>7, <1>8, <2>1, <2>2, QuietStep
<1>v. PICK v, q : v = ver[f.name] /\ q = path[f.name]
  OBVIOUS
<1>9. ASSUME NEW t \in 1 .. DirSlots, f.name \notin suspect, IsHome(dir, f.name, t)
      PROVE  Holds(s, f.name, v, q, m, data, dir, own) /\ found # {}
  <2>1. found # {} /\ s = t
    BY <1>0, <1>9, HomeIsLeast
  <2> QED
    BY <1>3, <1>4, <1>9, <1>v, <2>1 DEF Files
<1>10. CASE o = "ok" /\ found # {} /\ dir[s].size > 0 /\ dir[s].first \in Clusters
  <2>0. PICK first, size : first = dir[s].first /\ size = dir[s].size
    OBVIOUS
  <2>1. s \in 1 .. DirSlots
    BY <1>0, <1>10, LeastIs
  <2>2. first \in Clusters /\ size \in Nat /\ size > 0
    BY <1>4, <1>10, <2>0, <2>1 DEF Directory, Entries
  <2>3. PICK g : g = Found(f, first, size)
    OBVIOUS
  <2>4. /\ \A buf2 : FrameFits(g, dir, buf2, fatCache, fatCacheLba)
        /\ Ended(g, f)
        /\ \A a, n, w, r, l, b, own2, buf2, errors2 :
              /\ Holds(a, n, w, r, l, b, dir, own2)
              /\ dir[a].size = size /\ dir[a].first = first
              => LoadFits(g, buf2, errors2, w, r)
    BY <1>1, <1>2, <1>3, <2>2, <2>3, FoundFits
  <2>5. \A t \in 1 .. DirSlots : f.name \notin suspect /\ IsHome(dir, f.name, t) =>
            LoadFits(g, sectorBuf', faults', ver[f.name], path[f.name])
    BY <1>9, <1>v, <2>0, <2>4
  <2>6. Continue(g)
    BY <1>6, <1>10, <2>0, <2>3
  <2> QED
    BY <1>8, <2>4, <2>5, <2>6
<1>11. CASE ~(o = "ok" /\ found # {} /\ dir[s].size > 0 /\ dir[s].first \in Clusters)
  <2>1. PICK ret \in {"ok", "error"} : ret = IF o = "ok" /\ found # {} THEN "ok" ELSE "error"
    OBVIOUS
  <2>2. PICK g : g = Return(f, ret)
    OBVIOUS
  <2>b. PICK buf2, errors2, buf : buf2 = sectorBuf' /\ errors2 = faults' /\ buf = sectorBuf
    OBVIOUS
  <2>3. /\ FrameFits(g, dir, buf2, fatCache, fatCacheLba) /\ Ended(g, f)
        /\ f.pc = "locate" =>
                \A w, r : /\ w \in Versions
                          /\ errors2 = 0 => Len(f.got) = Size(w)
                          => LoadFits(g, buf2, errors2, w, r)
    BY <1>2, <1>3, <2>2, <2>b, LoadEndsFits
  <2>4. ASSUME NEW t \in 1 .. DirSlots, f.name \notin suspect, IsHome(dir, f.name, t),
               errors2 = 0
        PROVE  Len(f.got) = Size(v)
    <3>1. Holds(s, f.name, v, q, m, data, dir, own) /\ found # {} /\ o = "ok"
      BY <1>7, <1>9, <2>4, <2>b
    <3>2. ~(dir[s].size > 0 /\ dir[s].first \in Clusters)
      BY <1>11, <3>1
    <3>3. /\ dir[s].size = Size(v) /\ dir[s].first = Start(q, Size(v)) /\ Size(v) \in Nat
          /\ q \in [1 .. Size(v) -> Clusters]
      BY <3>1, Numbers DEF Holds
    <3>4. CASE Size(v) # 0
      <4>1. 1 \in 1 .. Size(v) /\ dir[s].first = q[1] /\ dir[s].size > 0
        BY <3>3, <3>4 DEF Start
      <4> QED
        BY <3>2, <3>3, <4>1
    <3>5. CASE Size(v) = 0
      BY <1>3, <3>5
    <3> QED
      BY <3>4, <3>5
  <2>5. \A t \in 1 .. DirSlots : f.name \notin suspect /\ IsHome(dir, f.name, t) =>
            LoadFits(g, sectorBuf', faults', ver[f.name], path[f.name])
    <3>1. ASSUME NEW t \in 1 .. DirSlots, f.name \notin suspect, IsHome(dir, f.name, t)
          PROVE  v \in Versions /\ (errors2 = 0 => Len(f.got) = Size(v))
      BY <1>9, <2>4, <3>1 DEF Holds
    <3>2. /\ v \in Versions
          /\ errors2 = 0 => Len(f.got) = Size(v)
          => LoadFits(g, buf2, errors2, v, q)
      BY <1>1, <2>3
    <3>3. ASSUME NEW t \in 1 .. DirSlots, f.name \notin suspect, IsHome(dir, f.name, t)
          PROVE  LoadFits(g, buf2, errors2, v, q)
      BY <1>1, <3>1, <3>2, <3>3
    <3> QED
      BY <1>v, <2>b, <3>3
  <2>6. Continue(g)
    BY <1>6, <1>11, <2>1, <2>2
  <2> QED
    BY <1>8, <2>3, <2>5, <2>6, <2>b
<1> QED
  BY <1>10, <1>11

\* A quiet step of a load.
LEMMA QuietLoad ==
  ASSUME Types, ops # <<>>, ~Top.loaded, Top.op = "load", Top.pc # "locate",
         NEW own, NEW p, NEW ver, NEW path, Now(own, p, ver, path),
         NEW f, f = Top, NEW g, Continue(g), Ended(g, f),
         UNCHANGED <<fat, data, dir, fatCache, fatCacheLba, cuts, suspect>>,
         faults' \in 0 .. MaxFaults, sectorBuf'.kind \in {"none", "dir", "block"},
         FrameFits(g, dir, sectorBuf', fatCache, fatCacheLba),
         NEW m, m = May(fat[1], fatCache, Tag(ops, fatCacheLba)),
         \A s, v, q :
            /\ Holds(s, f.name, v, q, m, data, dir, own)
            /\ LoadFits(f, sectorBuf, faults, v, q)
            => LoadFits(g, sectorBuf', faults', v, q)
  PROVE  Types' /\ Now(own, p, ver, path)'
<1>1. /\ Files(m, data, dir, suspect, own, ver, path)
      /\ Loads(f, dir, suspect, sectorBuf, faults, ver, path)
  BY NowIs
<1>2. g.op = "load" /\ g.op # "save" /\ ~g.loaded /\ g.name = f.name /\ f.name \in Names
  BY TopIs, FrameHas DEF Ended
<1>3. ASSUME NEW s \in 1 .. DirSlots, f.name \notin suspect, IsHome(dir, f.name, s)
      PROVE  LoadFits(g, sectorBuf', faults', ver[f.name], path[f.name])
  <2>1. Holds(s, f.name, ver[f.name], path[f.name], m, data, dir, own)
    BY <1>1, <1>2, <1>3 DEF Files
  <2>2. LoadFits(f, sectorBuf, faults, ver[f.name], path[f.name])
    BY <1>1, <1>3 DEF Loads
  <2> QED
    BY <2>1, <2>2
<1>4. Loads(g, dir, suspect, sectorBuf', faults', ver, path)
  BY <1>2, <1>3 DEF Loads
<1> QED
  BY <1>2, <1>4, QuietStep

\* Read.
LEMMA StepRead ==
  ASSUME Orderly, Types, NEW own, NEW p, NEW ver, NEW path, Now(own, p, ver, path), Read
  PROVE  Types' /\ Now(own, p, ver, path)'
<1> PICK f : f = Top
  OBVIOUS
<1> PICK m : m = May(fat[1], fatCache, Tag(ops, fatCacheLba))
  OBVIOUS
<1>1. ops # <<>> /\ f.pc = "read"
  BY DEF Read, At
<1>2. f \in Frames /\ FrameFits(f, dir, sectorBuf, fatCache, fatCacheLba)
  BY <1>1, TopIs
<1>3. f.op = "load" /\ ~f.loaded
  BY <1>1, <1>2, FrameHas DEF FrameFits, ReadingFat, SettingFat
<1>4. UNCHANGED <<fat, data, dir, fatCache, fatCacheLba, cuts, suspect>>
      /\ data \in [Clusters -> Blocks] /\ sectorBuf.kind \in {"none", "dir", "block"}
  BY DEF Read, disk, Types
<1>5. PICK o \in ReadOutcomes :
        /\ Account(o)
        /\ IF o = "ok"
           THEN /\ sectorBuf' = [kind |-> "block", image |-> data[f.cur]]
                /\ Continue(Reading(f))
           ELSE /\ UNCHANGED sectorBuf
                /\ Continue(Return(f, "ok"))
  BY DEF Read, Reading
<1>6. /\ faults' \in 0 .. MaxFaults
      /\ o = "ok" => faults' = faults
      /\ o # "ok" => faults' # 0
  BY <1>5, Outcome
<1>b. PICK buf, buf2, errors, errors2 :
        buf = sectorBuf /\ buf2 = sectorBuf' /\ errors = faults /\ errors2 = faults'
  OBVIOUS
<1>7. ASSUME NEW g, Continue(g), FrameFits(g, dir, buf2, fatCache, fatCacheLba),
             Ended(g, f), buf2.kind \in {"none", "dir", "block"},
             \A s, v, q : /\ Holds(s, f.name, v, q, m, data, dir, own)
                          /\ LoadFits(f, buf, errors, v, q)
                          => LoadFits(g, buf2, errors2, v, q)
      PROVE  Types' /\ Now(own, p, ver, path)'
  <2>1. f.pc # "locate"
    BY <1>1
  <2> QED
    BY <1>1, <1>3, <1>4, <1>6, <1>7, <1>b, <2>1, QuietLoad
<1>8. CASE o = "ok"
  <2>1. PICK g : g = Reading(f)
    OBVIOUS
  <2>2. buf2 = [kind |-> "block", image |-> data[f.cur]] /\ errors2 = errors /\ Continue(g)
    BY <1>5, <1>6, <1>8, <1>b, <2>1
  <2>3. /\ FrameFits(g, dir, buf2, fatCache, fatCacheLba) /\ Ended(g, f)
        /\ \A s, v, q, l, own2, e :
              /\ Holds(s, f.name, v, q, l, data, dir, own2)
              /\ LoadFits(f, buf, e, v, q)
              => LoadFits(g, buf2, e, v, q)
    BY <1>1, <1>2, <1>3, <1>4, <1>b, <2>1, <2>2, ReadFits
  <2>4. buf2.kind \in {"none", "dir", "block"}
    BY <2>2
  <2> QED
    BY <1>7, <2>2, <2>3, <2>4
<1>9. CASE o # "ok"
  <2>0. PICK ret \in {"ok", "error"} : ret = "ok"
    OBVIOUS
  <2>1. PICK g : g = Return(f, ret)
    OBVIOUS
  <2>2. buf2 = buf /\ errors2 # 0 /\ Continue(g) /\ buf2.kind \in {"none", "dir", "block"}
    BY <1>4, <1>5, <1>6, <1>9, <1>b, <2>0, <2>1
  <2>3. /\ FrameFits(g, dir, buf2, fatCache, fatCacheLba) /\ Ended(g, f)
        /\ \A v, q : /\ LoadFits(f, buf, 0, v, q)
                     /\ errors2 = 0 => Len(f.got) = Size(v)
                     => LoadFits(g, buf2, errors2, v, q)
    BY <1>2, <1>3, <1>b, <2>1, LoadEndsFits
  <2>4. ASSUME NEW v, NEW q, LoadFits(f, buf, errors, v, q) PROVE LoadFits(f, buf, 0, v, q)
    BY <1>1, <2>4 DEF LoadFits
  <2> QED
    BY <1>7, <2>2, <2>3, <2>4
<1> QED
  BY <1>8, <1>9

\* Copy.
LEMMA StepCopy ==
  ASSUME Orderly, Types, NEW own, NEW p, NEW ver, NEW path, Now(own, p, ver, path), Copy
  PROVE  Types' /\ Now(own, p, ver, path)'
<1> PICK f : f = Top
  OBVIOUS
<1> PICK m : m = May(fat[1], fatCache, Tag(ops, fatCacheLba))
  OBVIOUS
<1>1. ops # <<>> /\ f.pc = "copy"
  BY DEF Copy, At
<1>2. f \in Frames /\ FrameFits(f, dir, sectorBuf, fatCache, fatCacheLba)
  BY <1>1, TopIs
<1>3. f.op = "load" /\ ~f.loaded /\ sectorBuf.kind = "block" /\ f.pc # "locate"
  BY <1>1, <1>2, FrameHas DEF FrameFits, ReadingFat, SettingFat
<1>4. UNCHANGED <<fat, data, dir, fatCache, fatCacheLba, cuts, suspect, sectorBuf, faults>>
      /\ faults \in 0 .. MaxFaults
  BY DEF Copy, disk, driver, Types
<1>b. PICK buf, errors : buf = sectorBuf /\ errors = faults
  OBVIOUS
<1>5. PICK g : g = Copied(f, buf.image)
  OBVIOUS
<1>6. Continue(g)
  BY <1>3, <1>5, <1>b DEF Copy, Copied
<1>7. /\ FrameFits(g, dir, buf, fatCache, fatCacheLba) /\ Ended(g, f)
      /\ \A v, q, e : v \in Versions /\ LoadFits(f, buf, e, v, q)
                   => LoadFits(g, buf, e, v, q)
  BY <1>1, <1>2, <1>3, <1>5, <1>b, CopiedFits
<1>8. \A s, v, q : Holds(s, f.name, v, q, m, data, dir, own) => v \in Versions
  BY DEF Holds
<1>9. /\ FrameFits(g, dir, sectorBuf', fatCache, fatCacheLba)
      /\ \A s, v, q : /\ Holds(s, f.name, v, q, m, data, dir, own)
                      /\ LoadFits(f, sectorBuf, faults, v, q)
                      => LoadFits(g, sectorBuf', faults', v, q)
      /\ faults' \in 0 .. MaxFaults /\ sectorBuf'.kind \in {"none", "dir", "block"}
  BY <1>3, <1>4, <1>7, <1>8, <1>b
<1> QED
  BY <1>1, <1>3, <1>4, <1>6, <1>7, <1>9, QuietLoad

\* Write.
LEMMA StepWrite ==
  ASSUME Orderly, Types, NEW own, NEW p, NEW ver, NEW path, Now(own, p, ver, path), Write
  PROVE  Types' /\ Now(own, p, ver, path)'
<1> PICK f : f = Top
  OBVIOUS
<1> PICK m : m = May(fat[1], fatCache, Tag(ops, fatCacheLba))
  OBVIOUS
<1>1. ops # <<>> /\ f.pc = "write"
  BY DEF Write, At
<1>2. f \in Frames /\ FrameFits(f, dir, sectorBuf, fatCache, fatCacheLba)
  BY <1>1, TopIs
<1>3. /\ f.op = "save" /\ f.ver \in Versions /\ ~f.loaded /\ sectorBuf.kind = "block"
      /\ f.cur \in Clusters
  BY <1>1, <1>2, FrameHas DEF FrameFits, ReadingFat, SettingFat
<1>4. /\ own \in [Clusters -> Owners]
      /\ Volume(m, dir, own) /\ Files(m, data, dir, suspect, own, ver, path)
      /\ SaveFits(f, m, data, dir, own, p)
      /\ m = May(fat[1], fatCache, fatCacheLba)
  BY <1>1, <1>3, NowIs
<1>5. UNCHANGED <<fat, dir, fatCache, fatCacheLba, sectorBuf, cuts, suspect>>
      /\ data \in [Clusters -> Blocks]
  BY DEF Write, driver, Types
<1>6. PICK o \in WriteOutcomes :
        /\ Account(o)
        /\ data' = IF o = "lost" THEN data ELSE [data EXCEPT ![f.cur] = sectorBuf.image]
        /\ Continue(IF o = "ok" THEN NextCluster(Filled(f)) ELSE GiveUp(f))
  BY <1>3 DEF Write, Filled
<1>7. faults' \in 0 .. MaxFaults /\ o \in {"ok", "lost"}
  BY <1>6, Outcome
<1>8. ASSUME NEW g, Continue(g), g.op = "save", ~g.loaded, data' \in [Clusters -> Blocks],
             FrameFits(g, dir, sectorBuf, fatCache, fatCacheLba),
             SaveFits(g, m, data', dir, own, p),
             Files(m, data', dir, suspect, own, ver, path)
      PROVE  Types' /\ Now(own, p, ver, path)'
  <2>1. ops' = <<g>>
    BY <1>1, <1>8, TopIs
  <2>2. /\ fat' \in [Copies -> [Clusters -> Links]] /\ dir' \in Directory
        /\ fatCache' \in [Clusters -> Links] /\ fatCacheLba' \in Sectors
        /\ sectorBuf'.kind \in {"none", "dir", "block"}
        /\ cuts' \in 0 .. MaxCuts /\ suspect' \subseteq Names
    BY <1>5 DEF Types
  <2>3. m = May(fat'[1], fatCache', IF g.loaded THEN FatSector(Target(g)) ELSE fatCacheLba')
    BY <1>4, <1>5, <1>8
  <2>4. Loads(g, dir', suspect', sectorBuf', faults', ver, path)
    BY <1>8 DEF Loads
  <2>5. /\ FrameFits(g, dir', sectorBuf', fatCache', fatCacheLba')
        /\ Volume(m, dir', own) /\ Files(m, data', dir', suspect', own, ver, path)
        /\ g.op = "save" => SaveFits(g, m, data', dir', own, p)
    BY <1>4, <1>5, <1>8
  <2> QED
    BY <1>4, <1>7, <1>8, <2>1, <2>2, <2>3, <2>4, <2>5, StepIs
<1>9. CASE o = "ok"
  <2>1. PICK g : g = NextCluster(Filled(f))
    OBVIOUS
  <2>2. Continue(g)
    BY <1>6, <1>9, <2>1
  <2>3. data' = [data EXCEPT ![f.cur] = sectorBuf.image]
    BY <1>6, <1>9
  <2>4. /\ FrameFits(g, dir, sectorBuf, fatCache, fatCacheLba)
        /\ SaveFits(g, m, data', dir, own, p) /\ Ended(g, f)
        /\ own[f.cur] = Mine /\ sectorBuf.image \in Blocks
    <3>1. PICK blocks, blocks2, buf : blocks = data /\ blocks2 = data' /\ buf = sectorBuf
      OBVIOUS
    <3>2. /\ FrameFits(f, dir, buf, fatCache, fatCacheLba)
          /\ SaveFits(f, m, blocks, dir, own, p)
          /\ Stored(blocks2, blocks, f.cur, buf.image)
      BY <1>2, <1>3, <1>4, <1>5, <2>3, <3>1 DEF Stored
    <3>3. /\ FrameFits(g, dir, buf, fatCache, fatCacheLba)
          /\ SaveFits(g, m, blocks2, dir, own, p) /\ Ended(g, f)
      <4>1. f.op = "save" /\ f.pc = "write"
        BY <1>1, <1>3
      <4>2. SaveFits(g, m, blocks2, dir, own, p)
        BY <2>1, <3>2, <4>1, WrittenFits, ZenonT(60)
      <4>3. ASSUME NEW image, NEW cache, NEW lba, NEW m2, NEW own2, NEW p2,
                   FrameFits(f, image, buf, cache, lba), SaveFits(f, m2, blocks, image, own2, p2)
            PROVE  FrameFits(g, image, buf, cache, lba) /\ Ended(g, f)
        BY <2>1, <3>2, <4>1, <4>3, WrittenFits
      <4> QED
        BY <3>2, <4>2, <4>3
    <3>4. own[f.cur] = Mine /\ buf.image \in Blocks
      BY <1>1, <1>3, <3>2, WritesOwn
    <3> QED
      BY <3>1, <3>3, <3>4
  <2>5. data' \in [Clusters -> Blocks] /\ \A c \in Clusters \ {f.cur} : data'[c] = data[c]
    BY <1>3, <1>5, <2>3, <2>4
  <2>6. Files(m, data', dir, suspect, own, ver, path)
    <3>1. own[f.cur] \in {0, Mine}
      BY <2>4
    <3> QED
      BY <1>4, <2>5, <3>1, FilesWritten
  <2>7. g.op = "save" /\ ~g.loaded
    BY <1>3, <2>4 DEF Ended
  <2> QED
    BY <1>8, <2>2, <2>4, <2>5, <2>6, <2>7
<1>10. CASE o # "ok"
  <2>1. PICK g : g = GiveUp(f)
    OBVIOUS
  <2>2. Continue(g) /\ data' = data
    BY <1>6, <1>7, <1>10, <2>1
  <2>3. f.first # 0 => own[f.first] = Mine
    BY <1>1, <1>2, <1>4, OwnsFirst DEF SaveFits, Building, Aimed, Allocating
  <2>4. /\ FrameFits(g, dir, sectorBuf, fatCache, fatCacheLba)
        /\ SaveFits(g, m, data, dir, own, p) /\ g.op = "save" /\ ~g.loaded
    BY <1>2, <1>3, <2>1, <2>3, GivenUpFits
  <2> QED
    BY <1>4, <1>5, <1>8, <2>2, <2>4
<1> QED
  BY <1>9, <1>10

\* The commit point: the clusters change hands.
Renewed(table, n, x) == [k \in Names |-> IF k = n THEN x ELSE table[k]]

\* Writeback: if it succeeds the file is of the version that was saved.
LEMMA StepWriteback ==
  ASSUME Orderly, Types, NEW own, NEW p, NEW ver, NEW path, Now(own, p, ver, path), Writeback
  PROVE  Types' /\ \E own2, ver2, path2 :
            /\ Now(own2, p, ver2, path2)' /\ (ops'[1].ret = "ok" => ver2[Top.name] = Top.ver)
            /\ own2 = IF faults' = faults THEN Swapped(own, Top.slot) ELSE own
<1> PICK f : f = Top
  OBVIOUS
<1> PICK m : m = May(fat[1], fatCache, Tag(ops, fatCacheLba))
  OBVIOUS
<1>1. ops # <<>> /\ f.pc = "writeback"
  BY DEF Writeback, At
<1>2. f \in Frames /\ FrameFits(f, dir, sectorBuf, fatCache, fatCacheLba)
  BY <1>1, TopIs
<1>3. /\ f.op = "save" /\ f.ver \in Versions /\ ~f.loaded /\ f.name \in Names
      /\ sectorBuf.kind = "dir" /\ f.i = Size(f.ver) /\ Taken(f) = Size(f.ver)
      /\ sectorBuf.image = [dir EXCEPT ![f.slot] =
                    [name |-> f.name, first |-> f.first, size |-> Size(f.ver)]]
  BY <1>1, <1>2, FrameHas DEF FrameFits, ReadingFat, SettingFat, Taken
<1>4. /\ own \in [Clusters -> Owners]
      /\ Volume(m, dir, own) /\ Files(m, data, dir, suspect, own, ver, path)
      /\ SaveFits(f, m, data, dir, own, p)
      /\ m = May(fat[1], fatCache, fatCacheLba)
  BY <1>1, <1>3, NowIs
<1>5. UNCHANGED <<fat, data, fatCache, fatCacheLba, sectorBuf, cuts>>
      /\ dir \in Directory
  BY DEF Writeback, driver, Types
<1>6. PICK o \in WriteOutcomes :
        /\ Account(o)
        /\ dir' = IF o = "lost" THEN dir ELSE sectorBuf.image
        /\ Continue(IF o = "ok" THEN FreeChain(f, f.old, "ok") ELSE GiveUp(f))
        /\ suspect' = IF o = "lost" THEN suspect
                      ELSE IF o = "late" \/ f.flawed THEN suspect \cup {f.name}
                      ELSE suspect \ {f.name}
  BY <1>3 DEF Writeback
<1>7. faults' \in 0 .. MaxFaults /\ o \in {"ok", "lost"}
  BY <1>6, Outcome
<1>8. ASSUME NEW g, Continue(g), g.op = "save", ~g.loaded, dir' \in Directory,
             suspect' \subseteq Names,
             \A buf : FrameFits(g, dir', buf, fatCache, fatCacheLba),
             NEW own2 \in [Clusters -> Owners], NEW ver2, NEW path2,
             Volume(m, dir', own2),
             SaveFits(g, m, data, dir', own2, p),
             Files(m, data, dir', suspect', own2, ver2, path2)
      PROVE  Types' /\ Now(own2, p, ver2, path2)' /\ ops'[1] = g
  <2>1. ops' = <<g>> /\ ops'[1] = g
    BY <1>1, <1>8, TopIs
  <2>2. /\ fat' \in [Copies -> [Clusters -> Links]] /\ data' \in [Clusters -> Blocks]
        /\ fatCache' \in [Clusters -> Links] /\ fatCacheLba' \in Sectors
        /\ sectorBuf'.kind \in {"none", "dir", "block"}
        /\ cuts' \in 0 .. MaxCuts
    BY <1>5 DEF Types
  <2>3. m = May(fat'[1], fatCache', IF g.loaded THEN FatSector(Target(g)) ELSE fatCacheLba')
    BY <1>4, <1>5, <1>8
  <2>4. Loads(g, dir', suspect', sectorBuf', faults', ver2, path2)
    BY <1>8 DEF Loads
  <2>5. /\ FrameFits(g, dir', sectorBuf', fatCache', fatCacheLba')
        /\ Files(m, data', dir', suspect', own2, ver2, path2)
        /\ g.op = "save" => SaveFits(g, m, data', dir', own2, p)
    BY <1>4, <1>5, <1>8
  <2> QED
    BY <1>7, <1>8, <2>1, <2>2, <2>3, <2>4, <2>5, StepIs
<1>9. CASE o = "ok"
  <2>0. PICK ret \in {"ok", "error"} : ret = "ok"
    OBVIOUS
  <2>1. PICK g : g = FreeChain(f, f.old, ret)
    OBVIOUS
  <2>2. PICK s, n, v : s = f.slot /\ n = f.name /\ v = f.ver
    OBVIOUS
  <2>3. Continue(g)
    BY <1>6, <1>9, <2>0, <2>1
  <2>4. /\ Takes(f, m, data, own, p) /\ (~f.flawed => Strung(f, m, p)) /\ Aims(f, dir)
    BY <1>1, <1>4 DEF SaveFits, Building, Aimed
  <2>5. /\ s \in 1 .. DirSlots /\ n \in Names /\ v \in Versions
        /\ p \in [1 .. Size(v) -> Clusters] /\ f.first = Start(p, Size(v))
        /\ \A j \in 1 .. Size(v) : own[p[j]] = Mine
        /\ \A j \in 1 .. Size(v) : data[p[j]] = <<n, v, j>>
        /\ \A c \in Clusters : own[c] = Mine => Free \notin m[c]
    BY <1>3, <2>2, <2>4 DEF Takes, Aims
  <2>6. dir' = Committed(dir, s, n, v, p)
    BY <1>3, <1>6, <1>9, <2>2, <2>5 DEF Committed
  <2>7. PICK own2, ver2, path2 : /\ own2 = Swapped(own, s) /\ ver2 = Renewed(ver, n, v)
                                 /\ path2 = Renewed(path, n, p)
    OBVIOUS
  <2>8. own2 \in [Clusters -> Owners] /\ Volume(m, dir', own2)
    <3>1. /\ Swapped(own, s) \in [Clusters -> Owners]
          /\ Volume(m, Committed(dir, s, n, v, p), Swapped(own, s))
      BY <1>4, <1>5, <2>5, VolumeCommitted
    <3> QED
      BY <2>6, <2>7, <3>1
  <2>9. dir' \in Directory
    <3>1. f.first \in {0} \cup Clusters /\ Size(v) \in Nat
      BY <1>2, <2>5, FrameHas, Numbers
    <3>2. [name |-> n, first |-> f.first, size |-> Size(v)] \in Entries
      BY <2>5, <3>1 DEF Entries
    <3> QED
      BY <1>5, <2>5, <2>6, <3>2 DEF Committed, Directory
  <2>10. f.old \in {0} \cup Clusters /\ (f.old # 0 => own2[f.old] = Mine)
    <3>1. f.old \in {0} \cup Clusters
      BY <1>2, FrameHas
    <3>2. ASSUME f.old # 0 PROVE own2[f.old] = Mine
      <4>1. IsHome(dir, n, s) /\ f.old = dir[s].first
        BY <2>2, <2>4, <3>2 DEF Aims
      <4>2. dir[s].name = n /\ f.old \in Clusters
        BY <3>1, <3>2, <4>1 DEF IsHome
      <4>3. own[f.old] = s
        BY <1>4, <2>5, <4>1, <4>2 DEF Volume, Entered
      <4> QED
        BY <2>5, <2>7, <4>2, <4>3, Numbers DEF Swapped
    <3> QED
      BY <3>1, <3>2
  <2>11. \A buf : /\ FrameFits(g, dir', buf, fatCache, fatCacheLba)
                  /\ SaveFits(g, m, data, dir', own2, p) /\ g.op = "save" /\ ~g.loaded
    <3>1. PICK c, image2 : c = f.old /\ image2 = dir'
      OBVIOUS
    <3>2. c \in {0} \cup Clusters /\ (c # 0 => own2[c] = Mine) /\ g = FreeChain(f, c, ret)
      BY <2>1, <2>10, <3>1
    <3>3. \A buf : /\ FrameFits(g, image2, buf, fatCache, fatCacheLba)
                   /\ SaveFits(g, m, data, image2, own2, p) /\ g.op = "save" /\ ~g.loaded
      <4>1. f \in Frames /\ f.op = "save" /\ f.ver \in Versions
        BY <1>2, <1>3
      <4> SUFFICES ASSUME NEW buf
                   PROVE  /\ FrameFits(g, image2, buf, fatCache, fatCacheLba)
                          /\ SaveFits(g, m, data, image2, own2, p) /\ g.op = "save" /\ ~g.loaded
        OBVIOUS
      <4> QED
        BY <3>2, <4>1, DoneFits
    <3> QED
      BY <3>1, <3>3
  <2>12. suspect' \subseteq Names
    BY <1>3, <1>6, <1>7 DEF Types
  <2>13. Files(m, data, dir', suspect', own2, ver2, path2)
    <3> SUFFICES ASSUME NEW k \in Names \ suspect', NEW t \in 1 .. DirSlots, IsHome(dir', k, t)
                 PROVE  Holds(t, k, ver2[k], path2[k], m, data, dir', own2)
      BY DEF Files
    <3>1. CASE k = n
      <4>1. ~f.flawed
        BY <1>6, <1>9, <2>2, <3>1
      <4>2. Linked(p, Size(v), m)
        BY <1>1, <1>3, <2>2, <2>4, <4>1 DEF Linked, Strung
      <4>3. Holds(s, n, v, p, m, data, dir', own2)
        BY <1>4, <1>5, <2>5, <2>6, <2>7, <4>2, HoldsCommitted
      <4>4. IsHome(dir, n, s) \/ Homeless(dir, n)
        BY <2>2, <2>4, <4>1 DEF Aims
      <4>5. t = s
        BY <1>5, <2>5, <2>6, <3>1, <4>4, HomeCommitted
      <4>6. ver2[k] = v /\ path2[k] = p
        BY <2>7, <3>1 DEF Renewed
      <4> QED
        BY <3>1, <4>3, <4>5, <4>6
    <3>2. CASE k # n
      <4>1. dir[s].name \in {n, None}
        BY <2>2, <2>4 DEF Aims, IsHome
      <4>2. Files(m, data, dir', suspect \cup {n}, own2, ver, path)
        BY <1>4, <1>5, <2>5, <2>6, <2>7, <4>1, FilesCommitted
      <4>3. k \notin suspect \cup {n}
        BY <1>6, <1>9, <2>2, <3>2
      <4>4. Holds(t, k, ver[k], path[k], m, data, dir', own2)
        BY <4>2, <4>3 DEF Files
      <4>5. ver2[k] = ver[k] /\ path2[k] = path[k]
        BY <2>7, <3>2 DEF Renewed
      <4> QED
        BY <4>4, <4>5
    <3> QED
      BY <3>1, <3>2
  <2>14. Types' /\ Now(own2, p, ver2, path2)'
    BY <1>8, <2>3, <2>8, <2>9, <2>11, <2>12, <2>13
  <2>15. ver2[f.name] = f.ver
    BY <2>2, <2>5, <2>7 DEF Renewed
  <2>16. faults' = faults
    BY <1>6, <1>9 DEF Account
  <2> QED
    BY <2>2, <2>7, <2>14, <2>15, <2>16
<1>10. CASE o # "ok"
  <2>1. PICK g : g = GiveUp(f)
    OBVIOUS
  <2>2. Continue(g) /\ dir' = dir /\ suspect' = suspect /\ suspect \subseteq Names
    BY <1>6, <1>7, <1>10, <2>1 DEF Types
  <2>3. f.first # 0 => own[f.first] = Mine
    BY <1>1, <1>2, <1>4, OwnsFirst DEF SaveFits, Building, Aimed
  <2>4. \A buf : /\ FrameFits(g, dir, buf, fatCache, fatCacheLba)
                 /\ SaveFits(g, m, data, dir, own, p) /\ g.op = "save" /\ ~g.loaded
    BY <1>2, <1>3, <2>1, <2>3, GivenUpFits
  <2>5. Types' /\ Now(own, p, ver, path)' /\ ops'[1] = g
    BY <1>4, <1>5, <1>8, <2>2, <2>4
  <2>6. g.ret # "ok"
    <3>1. PICK ret \in {"ok", "error"}, c \in {0} \cup Clusters : ret = "error" /\ c = f.first
      BY <1>2, FrameHas
    <3>2. g = FreeChain(f, c, ret)
      BY <2>1, <3>1 DEF GiveUp
    <3>3. Over(g, f, ret)
      BY <1>2, <3>2, FreeChainIs
    <3> QED
      BY <3>1, <3>3 DEF Over
  <2>7. faults' # faults
    BY <1>6, <1>10 DEF Account, Types
  <2> QED
    BY <2>5, <2>6, <2>7
<1> QED
  BY <1>9, <1>10

\* What an operation is doing that uses the FAT.
LEMMA UserIs ==
  ASSUME NEW f, NEW image, NEW buf, NEW cache, NEW lba, FrameFits(f, image, buf, cache, lba),
         f.pc \in ReadingFat \cup SettingFat
  PROVE  /\ f \in Frames /\ f.cur \in Clusters /\ Target(f) \in Clusters
         /\ \/ f.op = "save" /\ f.pc \in {"scan", "next", "claim", "link", "release"}
            \/ f.op = "load" /\ f.pc = "follow"
         /\ f.ver \in Versions \cup {None}
         /\ \A lba2 : f.mirror = 0 => FrameFits(f, image, buf, cache, lba2)
<1>1. /\ f \in Frames /\ f.cur \in Clusters /\ Target(f) \in Clusters
      /\ \/ f.op = "save" /\ f.pc \in {"scan", "next", "claim", "link", "release"}
         \/ f.op = "load" /\ f.pc = "follow"
      /\ f.ver \in Versions \cup {None} /\ f.mirror \in 0 .. NumFats
  BY FrameHas DEF FrameFits, ReadingFat, SettingFat
<1>2. ASSUME f.mirror = 0, NEW lba2 PROVE FrameFits(f, image, buf, cache, lba2)
  <2>1. ~(f.mirror > 0)
    BY <1>2
  <2> QED
    BY <2>1 DEF FrameFits
<1> QED
  BY <1>1, <1>2

\* A FAT sector is read.
LEMMA StepLoadedFat ==
  ASSUME Orderly, Types, NEW own, NEW p, NEW ver, NEW path, Now(own, p, ver, path),
         UsesFat, ~Cached, faults' \in 0 .. MaxFaults, faults' = faults,
         fatCache' = [c \in Clusters |->
                        IF FatSector(c) = FatSector(Target(Top)) THEN fat[1][c] ELSE Free],
         Continue(Loaded(Top)),
         UNCHANGED <<disk, flushed, fatCacheLba, sectorBuf, cuts, suspect>>
  PROVE  Types' /\ Now(own, p, ver, path)'
<1> PICK f : f = Top
  OBVIOUS
<1>0. PICK m : m = May(fat[1], fatCache, Tag(ops, fatCacheLba))
  OBVIOUS
<1>1. ops # <<>> /\ f.pc \in ReadingFat \cup SettingFat /\ f.mirror = 0
  BY DEF UsesFat
<1>2. f \in Frames /\ FrameFits(f, dir, sectorBuf, fatCache, fatCacheLba)
  BY <1>1, TopIs
<1>3. Target(f) \in Clusters
  BY <1>1, <1>2, UserIs
<1>4. /\ own \in [Clusters -> Owners]
      /\ Volume(m, dir, own) /\ Files(m, data, dir, suspect, own, ver, path)
      /\ f.op = "save" => SaveFits(f, m, data, dir, own, p)
      /\ Loads(f, dir, suspect, sectorBuf, faults, ver, path)
      /\ m = May(fat[1], fatCache, fatCacheLba)
  <2>1. ~f.loaded
    BY DEF Cached
  <2> QED
    BY <1>0, <1>1, <2>1, NowIs
<1>5. UNCHANGED <<fat, data, dir, fatCacheLba, sectorBuf, cuts, suspect, faults>>
  BY DEF disk
<1>6. PICK g : g = Loaded(f)
  OBVIOUS
<1>7. g \in Frames /\ Same(g, f) /\ g.mirror = 0 /\ g.loaded
  BY <1>1, <1>2, <1>6, LoadedIs
<1>8. ops' = <<g>>
  BY <1>1, <1>6, TopIs
<1>9. PICK m2 : m2 = May(fat[1], fatCache', FatSector(Target(f)))
  OBVIOUS
<1>10. Within(m2, m)
  <2>1. \A c \in Clusters : FatSector(c) = FatSector(Target(f)) => fatCache'[c] = fat[1][c]
    OBVIOUS
  <2> QED
    BY <1>4, <1>9, <2>1, MayLoad
<1>11. Volume(m2, dir, own) /\ Files(m2, data, dir, suspect, own, ver, path)
  BY <1>4, <1>10, VolumeShrinks, FilesShrink
<1>12. f.op = "save" => SaveFits(f, m2, data, dir, own, p)
  BY <1>2, <1>3, <1>4, <1>10, SaveShrinks
<1>13. /\ \A cache2 : FrameFits(g, dir, sectorBuf, cache2, fatCacheLba)
       /\ g.op = "save" => SaveFits(g, m2, data, dir, own, p)
       /\ Target(g) = Target(f)
  <2>1. /\ g.mirror \in {0, f.mirror, f.mirror + 1} /\ ~(g.mirror > 1) /\ ~(g.mirror > 0)
        /\ f.op = "save" => f.pc \in SettingFat \cup ReadingFat
    BY <1>1, <1>7
  <2>2. FrameFits(f, dir, sectorBuf, fatCache, fatCacheLba) /\ g \in Frames /\ Same(g, f)
    BY <1>2, <1>7
  <2> QED
    BY <1>1, <1>12, <2>1, <2>2, SameFits
<1>14. Loads(g, dir, suspect, sectorBuf, faults, ver, path)
  <2>1. \A v, q : LoadFits(f, sectorBuf, faults, v, q) => LoadFits(g, sectorBuf, faults, v, q)
    BY <1>7 DEF Same, LoadFits
  <2>2. g.op = f.op /\ g.pc = f.pc /\ g.name = f.name
    BY <1>7 DEF Same
  <2> QED
    BY <1>4, <2>1, <2>2 DEF Loads
<1>15. /\ fat' \in [Copies -> [Clusters -> Links]] /\ data' \in [Clusters -> Blocks]
       /\ dir' \in Directory /\ fatCacheLba' \in Sectors
       /\ sectorBuf'.kind \in {"none", "dir", "block"}
       /\ cuts' \in 0 .. MaxCuts /\ suspect' \subseteq Names
  BY <1>5 DEF Types
<1>16. fatCache' \in [Clusters -> Links]
  <2>1. fat[1] \in [Clusters -> Links] /\ Free \in Links
    BY Numbers DEF Types, Links
  <2> QED
    BY <2>1
<1>17. m2 = May(fat'[1], fatCache', IF g.loaded THEN FatSector(Target(g)) ELSE fatCacheLba')
  BY <1>5, <1>7, <1>9, <1>13
<1>18. /\ FrameFits(g, dir', sectorBuf', fatCache', fatCacheLba')
       /\ Volume(m2, dir', own) /\ Files(m2, data', dir', suspect', own, ver, path)
       /\ g.op = "save" => SaveFits(g, m2, data', dir', own, p)
       /\ Loads(g, dir', suspect', sectorBuf', faults', ver, path)
  BY <1>5, <1>11, <1>13, <1>14
<1> QED
  BY <1>4, <1>8, <1>15, <1>16, <1>17, <1>18, StepIs

\* It cannot be read.
LEMMA StepUnreadFat ==
  ASSUME Orderly, Types, NEW own, NEW p, NEW ver, NEW path, Now(own, p, ver, path),
         UsesFat, ~Cached, faults' \in 0 .. MaxFaults, faults' # 0,
         Continue(IF Top.pc \in ReadingFat THEN AfterNext(Top, Eoc) ELSE Undone(Top)),
         UNCHANGED <<disk, flushed, fatCache, fatCacheLba, sectorBuf, cuts, suspect>>
  PROVE  Types' /\ Now(own, p, ver, path)'
<1> PICK f : f = Top
  OBVIOUS
<1> PICK m : m = May(fat[1], fatCache, Tag(ops, fatCacheLba))
  OBVIOUS
<1>1. ops # <<>> /\ f.pc \in ReadingFat \cup SettingFat /\ ~f.loaded
  BY DEF UsesFat, Cached
<1>2. f \in Frames /\ FrameFits(f, dir, sectorBuf, fatCache, fatCacheLba)
  BY <1>1, TopIs
<1>3. /\ \/ f.op = "save" /\ f.pc \in {"scan", "next", "claim", "link", "release"}
         \/ f.op = "load" /\ f.pc = "follow"
  BY <1>1, <1>2, UserIs
<1>4. /\ own \in [Clusters -> Owners] /\ Volume(m, dir, own)
      /\ f.op = "save" => SaveFits(f, m, data, dir, own, p)
  BY <1>1, NowIs
<1>5. UNCHANGED <<fat, data, dir, fatCache, fatCacheLba, sectorBuf, cuts, suspect>>
      /\ sectorBuf.kind \in {"none", "dir", "block"}
  BY DEF disk, Types
<1>6. PICK buf, none : buf = sectorBuf /\ none = Eoc
  OBVIOUS
<1>7. none \in Links /\ none \notin Clusters /\ none # Free
  BY <1>6, Numbers DEF Links
<1>8. ASSUME NEW g, Continue(g), f.op = "save", Ended(g, f),
             FrameFits(g, dir, buf, fatCache, fatCacheLba), SaveFits(g, m, data, dir, own, p)
      PROVE  Types' /\ Now(own, p, ver, path)'
  <2>1. g.op = "save" /\ ~g.loaded
    BY <1>8 DEF Ended
  <2>2. FrameFits(g, dir, sectorBuf', fatCache, fatCacheLba)
        /\ sectorBuf'.kind \in {"none", "dir", "block"}
    BY <1>5, <1>6, <1>8
  <2> QED
    BY <1>1, <1>5, <1>8, <2>1, <2>2, QuietSave
<1>9. ASSUME f.op = "save", f.pc \in {"scan", "next"}
      PROVE  Types' /\ Now(own, p, ver, path)'
  <2>1. PICK g : g = AfterNext(f, none)
    OBVIOUS
  <2>2. Continue(g)
    BY <1>6, <1>9, <2>1 DEF ReadingFat
  <2>3. Kept(m, own) /\ Closed(m, own) /\ SaveFits(f, m, data, dir, own, p)
        /\ FrameFits(f, dir, buf, fatCache, fatCacheLba)
    BY <1>2, <1>4, <1>6, <1>9 DEF Volume
  <2>4. FrameFits(g, dir, buf, fatCache, fatCacheLba) /\ SaveFits(g, m, data, dir, own, p)
        /\ Ended(g, f)
    <3>1. CASE f.pc = "scan"
      BY <1>4, <1>7, <1>9, <2>1, <2>3, <3>1, ScannedFits
    <3>2. CASE f.pc = "next"
      BY <1>7, <1>9, <2>1, <2>3, <3>2, NextReadFits
    <3> QED
      BY <1>9, <3>1, <3>2
  <2> QED
    BY <1>8, <1>9, <2>2, <2>4
<1>10. ASSUME f.op = "save", f.pc \in {"claim", "link", "release"}
       PROVE  Types' /\ Now(own, p, ver, path)'
  <2>1. PICK g : g = Undone(f)
    OBVIOUS
  <2>2. Continue(g)
    BY <1>10, <2>1 DEF ReadingFat
  <2>3. SaveFits(f, m, data, dir, own, p) /\ FrameFits(f, dir, buf, fatCache, fatCacheLba)
    BY <1>2, <1>4, <1>6, <1>10
  <2>4. FrameFits(g, dir, buf, fatCache, fatCacheLba) /\ SaveFits(g, m, data, dir, own, p)
        /\ Ended(g, f)
    <3>1. CASE f.pc = "claim"
      <4>1. Failed(g, f)
        BY <2>1 DEF Failed
      <4> QED
        BY <1>10, <2>3, <3>1, <4>1, UnclaimedFits
    <3>2. CASE f.pc = "link"
      <4>1. FrameFits(g, dir, buf, fatCache, fatCacheLba) /\ SaveFits(g, m, data, dir, own, p)
            /\ Alike(g, f)
        BY <1>10, <2>1, <2>3, <3>2, LinkedFits
      <4> QED
        BY <4>1 DEF Alike, Ended
    <3>3. CASE f.pc = "release"
      BY <1>10, <2>1, <2>3, <3>3, ReleasedFits
    <3> QED
      BY <1>10, <3>1, <3>2, <3>3
  <2> QED
    BY <1>8, <1>10, <2>2, <2>4
<1>11. ASSUME f.op = "load", f.pc = "follow"
       PROVE  Types' /\ Now(own, p, ver, path)'
  <2>1. PICK g : g = AfterNext(f, none)
    OBVIOUS
  <2>2. Continue(g)
    BY <1>6, <1>11, <2>1 DEF ReadingFat
  <2>3. FrameFits(f, dir, buf, fatCache, fatCacheLba)
    BY <1>2, <1>6
  <2>4. /\ FrameFits(g, dir, buf, fatCache, fatCacheLba) /\ Ended(g, f)
        /\ \A s, v, q, l, blocks, own2, e, e2 :
              /\ Holds(s, f.name, v, q, l, blocks, dir, own2)
              /\ LoadFits(f, buf, e, v, q)
              /\ Learnt(none, l[f.cur], e2)
              => LoadFits(g, buf, e2, v, q)
    BY <1>11, <2>1, <2>3, FollowedFits
  <2>5. Learnt(none, m[f.cur], faults')
    BY <1>6 DEF Learnt
  <2>6. /\ FrameFits(g, dir, sectorBuf', fatCache, fatCacheLba)
        /\ sectorBuf'.kind \in {"none", "dir", "block"}
        /\ \A s, v, q : /\ Holds(s, f.name, v, q, m, data, dir, own)
                        /\ LoadFits(f, sectorBuf, faults, v, q)
                        => LoadFits(g, sectorBuf', faults', v, q)
    BY <1>5, <1>6, <2>4, <2>5
  <2>7. f.pc # "locate"
    BY <1>11
  <2> QED
    BY <1>1, <1>5, <1>11, <2>2, <2>4, <2>6, <2>7, QuietLoad
<1> QED
  BY <1>3, <1>9, <1>10, <1>11

\* LoadFat.
LEMMA StepLoadFat ==
  ASSUME Orderly, Types, NEW own, NEW p, NEW ver, NEW path, Now(own, p, ver, path), LoadFat
  PROVE  Types' /\ Now(own, p, ver, path)'
<1>1. PICK o \in ReadOutcomes :
        /\ Account(o)
        /\ IF o = "ok"
           THEN /\ fatCache' = [c \in Clusters |->
                        IF FatSector(c) = FatSector(Target(Top)) THEN fat[1][c]
                        ELSE Free]
                /\ Continue(Loaded(Top))
           ELSE /\ UNCHANGED fatCache
                /\ Continue(IF Top.pc \in ReadingFat THEN AfterNext(Top, Eoc)
                            ELSE Undone(Top))
  BY DEF LoadFat, Loaded, Undone
<1>2. /\ faults' \in 0 .. MaxFaults
      /\ o = "ok" => faults' = faults
      /\ o # "ok" => faults' # 0
  BY <1>1, Outcome
<1>3. /\ UsesFat /\ ~Cached
      /\ UNCHANGED <<disk, flushed, fatCacheLba, sectorBuf, cuts, suspect>>
  BY DEF LoadFat
<1>4. CASE o = "ok"
  BY <1>1, <1>2, <1>3, <1>4, StepLoadedFat
<1>5. CASE o # "ok"
  BY <1>1, <1>2, <1>3, <1>5, StepUnreadFat
<1> QED
  BY <1>4, <1>5

\* The cached entry is what may be read.
LEMMA CachedIs ==
  ASSUME Types, ops # <<>>, UsesFat, Cached, NEW f, f = Top, Target(f) \in Clusters,
         NEW m, m = May(fat[1], fatCache, Tag(ops, fatCacheLba)),
         NEW own, NEW p, NEW ver, NEW path, Now(own, p, ver, path)
  PROVE  /\ m = May(fat[1], fatCache, FatSector(Target(f)))
         /\ fatCache[Target(f)] \in m[Target(f)] /\ fatCache[Target(f)] \in Links
<1>1. m = May(fat[1], fatCache, IF f.loaded THEN FatSector(Target(f)) ELSE fatCacheLba)
  BY NowIs
<1>2. m = May(fat[1], fatCache, FatSector(Target(f)))
  BY <1>1 DEF Cached
<1>3. fatCache[Target(f)] \in m[Target(f)]
  BY <1>2 DEF May
<1>4. fatCache[Target(f)] \in Links
  BY DEF Types
<1> QED
  BY <1>2, <1>3, <1>4

\* The steps that leave the disk and sector_buf alone.
LEMMA CacheStep ==
  ASSUME Types, ops # <<>>, NEW g, Continue(g),
         UNCHANGED <<disk, flushed, sectorBuf, cuts, faults, suspect>>,
         fatCache' \in [Clusters -> Links], fatCacheLba' \in Sectors,
         FrameFits(g, dir, sectorBuf, fatCache', fatCacheLba'),
         NEW m, m = May(fat[1], fatCache',
                        IF g.loaded THEN FatSector(Target(g)) ELSE fatCacheLba'),
         NEW own \in [Clusters -> Owners], NEW p, NEW ver, NEW path,
         Volume(m, dir, own), Files(m, data, dir, suspect, own, ver, path),
         g.op = "save" => SaveFits(g, m, data, dir, own, p),
         Loads(g, dir, suspect, sectorBuf, faults, ver, path)
  PROVE  Types' /\ Now(own, p, ver, path)'
<1>1. ops' = <<g>>
  BY TopIs
<1>2. UNCHANGED <<fat, data, dir, sectorBuf, cuts, faults, suspect>>
  BY DEF disk
<1>3. /\ fat' \in [Copies -> [Clusters -> Links]] /\ data' \in [Clusters -> Blocks]
      /\ dir' \in Directory /\ sectorBuf'.kind \in {"none", "dir", "block"}
      /\ cuts' \in 0 .. MaxCuts /\ suspect' \subseteq Names /\ faults' \in 0 .. MaxFaults
  BY <1>2 DEF Types
<1>4. m = May(fat'[1], fatCache', IF g.loaded THEN FatSector(Target(g)) ELSE fatCacheLba')
  BY <1>2
<1>5. /\ FrameFits(g, dir', sectorBuf', fatCache', fatCacheLba')
      /\ Volume(m, dir', own) /\ Files(m, data', dir', suspect', own, ver, path)
      /\ g.op = "save" => SaveFits(g, m, data', dir', own, p)
      /\ Loads(g, dir', suspect', sectorBuf', faults', ver, path)
  BY <1>2
<1> QED
  BY <1>1, <1>3, <1>4, <1>5, StepIs

\* NextEntry.
LEMMA StepNextEntry ==
  ASSUME Orderly, Types, NEW own, NEW p, NEW ver, NEW path, Now(own, p, ver, path), NextEntry
  PROVE  Types' /\ Now(own, p, ver, path)'
<1> PICK f : f = Top
  OBVIOUS
<1>0. PICK m : m = May(fat[1], fatCache, Tag(ops, fatCacheLba))
  OBVIOUS
<1>1. ops # <<>> /\ f.pc \in ReadingFat /\ f.mirror = 0 /\ UsesFat /\ Cached
  BY DEF NextEntry, UsesFat
<1>2. f \in Frames /\ FrameFits(f, dir, sectorBuf, fatCache, fatCacheLba)
  BY <1>1, TopIs
<1>3. /\ \/ f.op = "save" /\ f.pc \in {"scan", "next"}
         \/ f.op = "load" /\ f.pc = "follow"
      /\ Target(f) = f.cur /\ f.cur \in Clusters
      /\ \A lba2 : FrameFits(f, dir, sectorBuf, fatCache, lba2)
  <2>1. /\ \/ f.op = "save" /\ f.pc \in {"scan", "next", "claim", "link", "release"}
           \/ f.op = "load" /\ f.pc = "follow"
        /\ f.cur \in Clusters
        /\ \A lba2 : f.mirror = 0 => FrameFits(f, dir, sectorBuf, fatCache, lba2)
    BY <1>1, <1>2, UserIs
  <2> QED
    BY <1>1, <2>1 DEF ReadingFat, Target
<1>4. /\ own \in [Clusters -> Owners] /\ Volume(m, dir, own)
      /\ Files(m, data, dir, suspect, own, ver, path)
      /\ f.op = "save" => SaveFits(f, m, data, dir, own, p)
      /\ Loads(f, dir, suspect, sectorBuf, faults, ver, path)
  BY <1>0, <1>1, NowIs
<1>5. PICK value : value = fatCache[f.cur]
  OBVIOUS
<1>6. /\ m = May(fat[1], fatCache, FatSector(f.cur))
      /\ value \in m[f.cur] /\ value \in Links
  BY <1>0, <1>1, <1>3, <1>5, CachedIs
<1>7. PICK g : g = AfterNext(f, value)
  OBVIOUS
<1>8. Continue(g) /\ fatCacheLba' = FatSector(f.cur)
      /\ UNCHANGED <<disk, flushed, fatCache, sectorBuf, cuts, faults, suspect>>
  BY <1>3, <1>5, <1>7 DEF NextEntry
<1>9. PICK lba : lba = FatSector(f.cur)
  OBVIOUS
<1>10. ASSUME FrameFits(g, dir, sectorBuf, fatCache, lba), Ended(g, f),
              g.op = "save" => SaveFits(g, m, data, dir, own, p),
              Loads(g, dir, suspect, sectorBuf, faults, ver, path)
       PROVE  Types' /\ Now(own, p, ver, path)'
  <2>1. fatCache' \in [Clusters -> Links] /\ fatCacheLba' \in Sectors
    BY <1>3, <1>8, SectorOf DEF Types
  <2>2. ~g.loaded
    BY <1>10 DEF Ended
  <2>3. /\ FrameFits(g, dir, sectorBuf, fatCache', fatCacheLba')
        /\ m = May(fat[1], fatCache', IF g.loaded THEN FatSector(Target(g)) ELSE fatCacheLba')
    BY <1>6, <1>8, <1>9, <1>10, <2>2
  <2> QED
    BY <1>1, <1>4, <1>8, <1>10, <2>1, <2>3, CacheStep
<1>11. PICK buf : buf = sectorBuf
  OBVIOUS
<1>12. FrameFits(f, dir, buf, fatCache, lba)
  BY <1>3, <1>11
<1>13. CASE f.op = "save" /\ f.pc \in {"scan", "next"}
  <2>1. Kept(m, own) /\ Closed(m, own) /\ SaveFits(f, m, data, dir, own, p)
    BY <1>4, <1>13 DEF Volume
  <2>2. FrameFits(g, dir, buf, fatCache, lba) /\ SaveFits(g, m, data, dir, own, p)
        /\ Ended(g, f)
    <3>1. CASE f.pc = "scan"
      BY <1>4, <1>6, <1>7, <1>12, <1>13, <2>1, <3>1, ScannedFits
    <3>2. CASE f.pc = "next"
      BY <1>6, <1>7, <1>12, <1>13, <2>1, <3>2, NextReadFits
    <3> QED
      BY <1>13, <3>1, <3>2
  <2>3. Loads(g, dir, suspect, sectorBuf, faults, ver, path)
    BY <1>13, <2>2 DEF Loads, Ended
  <2> QED
    BY <1>10, <1>11, <2>2, <2>3
<1>14. CASE f.op = "load" /\ f.pc = "follow"
  <2>1. /\ FrameFits(g, dir, buf, fatCache, lba) /\ Ended(g, f)
        /\ \A s, v, q, l, blocks, own2, e, e2 :
              /\ Holds(s, f.name, v, q, l, blocks, dir, own2)
              /\ LoadFits(f, buf, e, v, q)
              /\ Learnt(value, l[f.cur], e2)
              => LoadFits(g, buf, e2, v, q)
    BY <1>7, <1>12, <1>14, FollowedFits
  <2>2. \A e : Learnt(value, m[f.cur], e)
    BY <1>6 DEF Learnt
  <2>3. g.op = "load" /\ g.name = f.name /\ f.name \in Names
    BY <1>2, <1>14, <2>1, FrameHas DEF Ended
  <2>4. ASSUME NEW s \in 1 .. DirSlots, f.name \notin suspect, IsHome(dir, f.name, s)
        PROVE  LoadFits(g, sectorBuf, faults, ver[f.name], path[f.name])
    <3>1. Holds(s, f.name, ver[f.name], path[f.name], m, data, dir, own)
      BY <1>4, <2>3, <2>4 DEF Files
    <3>2. LoadFits(f, buf, faults, ver[f.name], path[f.name])
      BY <1>4, <1>11, <1>14, <2>4 DEF Loads
    <3> QED
      BY <1>11, <2>1, <2>2, <3>1, <3>2
  <2>5. Loads(g, dir, suspect, sectorBuf, faults, ver, path)
    BY <2>3, <2>4 DEF Loads
  <2>6. g.op # "save"
    BY <2>3
  <2> QED
    BY <1>10, <1>11, <2>1, <2>5, <2>6
<1> QED
  BY <1>3, <1>13, <1>14

\* SetEntry.
LEMMA StepSetEntry ==
  ASSUME Orderly, Types, NEW own, NEW p, NEW ver, NEW path, Now(own, p, ver, path), SetEntry
  PROVE  Types' /\ Now(own, p, ver, path)'
<1> PICK f : f = Top
  OBVIOUS
<1>0. PICK m : m = May(fat[1], fatCache, Tag(ops, fatCacheLba))
  OBVIOUS
<1>1. ops # <<>> /\ f.pc \in SettingFat /\ f.mirror = 0 /\ UsesFat /\ Cached
  BY DEF SetEntry, UsesFat
<1>2. f \in Frames /\ FrameFits(f, dir, sectorBuf, fatCache, fatCacheLba)
  BY <1>1, TopIs
<1>3. f.op = "save" /\ Target(f) \in Clusters /\ f.cur \in Clusters
  BY <1>1, <1>2, UserIs DEF SettingFat
<1>4. /\ own \in [Clusters -> Owners] /\ Volume(m, dir, own)
      /\ Files(m, data, dir, suspect, own, ver, path)
      /\ SaveFits(f, m, data, dir, own, p)
  BY <1>0, <1>1, <1>3, NowIs
<1>5. PICK t, w : t = Target(f) /\ w = NewValue(f)
  OBVIOUS
<1>6. m = May(fat[1], fatCache, FatSector(t))
  BY <1>0, <1>1, <1>3, <1>5, CachedIs
<1>7. PICK g : g = Marked(f, 1)
  OBVIOUS
<1>8. Continue(g) /\ fatCacheLba' = FatSector(t) /\ fatCache' = [fatCache EXCEPT ![t] = w]
      /\ UNCHANGED <<disk, flushed, sectorBuf, cuts, faults, suspect>>
  BY <1>5, <1>7 DEF SetEntry, Marked
<1>9. fatCache \in [Clusters -> Links] /\ t \in Clusters /\ w \in Links
  BY <1>3, <1>5, Numbers DEF Types, NewValue, Links
<1>10. PICK m2 : m2 = May(fat[1], fatCache', FatSector(t))
  OBVIOUS
<1>11. Sets(m2, m, t, w)
  <2>1. Sets(May(fat[1], [fatCache EXCEPT ![t] = w], FatSector(t)),
             May(fat[1], fatCache, FatSector(t)), t, w)
    BY <1>9, MaySet
  <2> QED
    BY <1>6, <1>8, <1>10, <2>1
<1>12. own[t] \in {0, Mine} /\ (own[t] # 0 /\ w \in Clusters => own[w] = own[t])
  BY <1>1, <1>2, <1>3, <1>4, <1>5, TargetIsOwn
<1>13. Volume(m2, dir, own)
  BY <1>4, <1>11, <1>12, VolumeSet
<1>14. Files(m2, data, dir, suspect, own, ver, path)
  BY <1>4, <1>11, <1>12, FilesSet
<1>15. fatCache'[t] = w /\ fatCache' \in [Clusters -> Links] /\ fatCacheLba' \in Sectors
  BY <1>8, <1>9, SectorOf
<1>16. PICK cache2, buf, lba : cache2 = fatCache' /\ buf = sectorBuf /\ lba = FatSector(t)
  OBVIOUS
<1>17. /\ SaveFits(g, m2, data, dir, own, p)
       /\ FrameFits(g, dir, buf, cache2, lba)
       /\ g.loaded = f.loaded /\ Target(g) = t
  <2>1. Sets(m2, m, Target(f), NewValue(f)) /\ cache2[Target(f)] = NewValue(f)
    BY <1>5, <1>11, <1>15, <1>16
  <2>2. FrameFits(f, dir, buf, fatCache, fatCacheLba)
    BY <1>2, <1>16
  <2>3. /\ SaveFits(g, m2, data, dir, own, p)
        /\ FrameFits(g, dir, buf, cache2, FatSector(Target(f)))
        /\ g.loaded = f.loaded /\ Target(g) = Target(f)
    BY <1>1, <1>2, <1>3, <1>4, <1>7, <2>1, <2>2, SetFits
  <2> QED
    BY <1>5, <1>16, <2>3
<1>18. g.op = "save"
  <2>1. 1 \in 0 .. NumFats
    BY Numbers
  <2> QED
    BY <1>2, <1>3, <1>7, <2>1, MarkedIs DEF Same
<1>19. Loads(g, dir, suspect, sectorBuf, faults, ver, path)
  BY <1>18 DEF Loads
<1>20. /\ m2 = May(fat[1], fatCache', IF g.loaded THEN FatSector(Target(g)) ELSE fatCacheLba')
       /\ FrameFits(g, dir, sectorBuf, fatCache', fatCacheLba')
  BY <1>8, <1>10, <1>16, <1>17
<1> QED
  BY <1>1, <1>4, <1>8, <1>13, <1>14, <1>15, <1>17, <1>19, <1>20, CacheStep

\* A FAT copy is written: less may be read, and of the entry only its new value.
LEMMA MirrorMay ==
  ASSUME Types, NEW f \in Frames, f.mirror \in 1 .. NumFats, NEW t, NEW v,
         t = Target(f), v = NewValue(f), t \in Clusters, fatCache[t] = v,
         fat' = [fat EXCEPT ![f.mirror] = [c \in Clusters |->
                            IF FatSector(c) = FatSector(t) THEN fatCache[c]
                            ELSE fat[f.mirror][c]]],
         NEW m, m = May(fat[1], fatCache, FatSector(t)),
         NEW m2, m2 = May(fat'[1], fatCache, FatSector(t)),
         f.mirror > 1 => m[t] \subseteq {v}
  PROVE  Within(m2, m) /\ m2[t] \subseteq {v}
<1>1. /\ fat \in [Copies -> [Clusters -> Links]] /\ f.mirror \in Copies /\ 1 \in Copies
  BY Numbers DEF Types, Copies
<1>2. PICK row : row = [c \in Clusters |->
                          IF FatSector(c) = FatSector(t) THEN fatCache[c]
                          ELSE fat[f.mirror][c]]
  OBVIOUS
<1>3. fat' = [fat EXCEPT ![f.mirror] = row]
  BY <1>2
<1>4. CASE f.mirror = 1
  <2>1. fat'[1] = row
    BY <1>1, <1>3, <1>4
  <2>2. \A c \in Clusters : row[c] = IF FatSector(c) = FatSector(t) THEN fatCache[c]
                                     ELSE fat[1][c]
    BY <1>2, <1>4
  <2>3. /\ Within(May(row, fatCache, FatSector(t)), May(fat[1], fatCache, FatSector(t)))
        /\ May(row, fatCache, FatSector(t))[t] \subseteq {fatCache[t]}
    BY <2>2, MayWrite
  <2> QED
    BY <2>1, <2>3
<1>5. CASE f.mirror # 1
  <2>1. fat'[1] = fat[1] /\ f.mirror > 1
    BY <1>1, <1>3, <1>5, Numbers
  <2> QED
    BY <2>1 DEF Within
<1> QED
  BY <1>4, <1>5

\* The last FAT copy of a claim is written.
Claims == Top.pc = "claim" /\ faults' = faults /\ ~(Top.mirror < NumFats)

\* WriteFat: with the last copy a cluster may change hands, no file does.
LEMMA StepWriteFat ==
  ASSUME Orderly, Types, NEW own, NEW p, NEW ver, NEW path, Now(own, p, ver, path), WriteFat
  PROVE  Types' /\ \E own2, p2 :
            /\ Now(own2, p2, ver, path)'
            /\ own2 = IF Claims THEN Added(own, Top.cur) ELSE own
<1> PICK f : f = Top
  OBVIOUS
<1>0. PICK m : m = May(fat[1], fatCache, Tag(ops, fatCacheLba))
  OBVIOUS
<1>1. ops # <<>> /\ f.mirror > 0
  BY DEF WriteFat
<1>2. f \in Frames /\ FrameFits(f, dir, sectorBuf, fatCache, fatCacheLba)
  BY <1>1, TopIs
<1>3. PICK t, w : t = Target(f) /\ w = NewValue(f)
  OBVIOUS
<1>4. /\ f.pc \in SettingFat /\ f.op = "save" /\ t \in Clusters /\ f.cur \in Clusters
      /\ fatCacheLba = FatSector(t) /\ fatCache[t] = w
      /\ f.mirror \in 1 .. NumFats
  <2>1. f.pc \in SettingFat /\ fatCacheLba = FatSector(t) /\ fatCache[t] = w
    BY <1>1, <1>2, <1>3 DEF FrameFits
  <2>2. f.op = "save" /\ t \in Clusters /\ f.cur \in Clusters
    BY <1>2, <1>3, <2>1, UserIs DEF SettingFat
  <2>3. f.mirror \in 1 .. NumFats
    BY <1>1, <1>2, FrameHas, Numbers
  <2> QED
    BY <2>1, <2>2, <2>3
<1>5. /\ own \in [Clusters -> Owners] /\ Volume(m, dir, own)
      /\ Files(m, data, dir, suspect, own, ver, path)
      /\ SaveFits(f, m, data, dir, own, p)
      /\ m = May(fat[1], fatCache, FatSector(t))
  <2>1. /\ own \in [Clusters -> Owners] /\ Volume(m, dir, own)
        /\ Files(m, data, dir, suspect, own, ver, path)
        /\ SaveFits(f, m, data, dir, own, p)
        /\ m = May(fat[1], fatCache, IF f.loaded THEN FatSector(Target(f)) ELSE fatCacheLba)
    BY <1>0, <1>1, <1>4, NowIs
  <2>2. (IF f.loaded THEN FatSector(Target(f)) ELSE fatCacheLba) = FatSector(t)
    BY <1>3, <1>4
  <2> QED
    BY <2>1, <2>2
<1>6. PICK o \in WriteOutcomes :
        /\ Account(o)
        /\ fat' = IF o = "lost" THEN fat
                  ELSE [fat EXCEPT ![f.mirror] = [c \in Clusters |->
                            IF FatSector(c) = FatSector(t) THEN fatCache[c]
                            ELSE fat[f.mirror][c]]]
        /\ Continue(IF o = "ok" /\ f.mirror < NumFats THEN Marked(f, f.mirror + 1)
                    ELSE IF o = "ok" THEN Done(f) ELSE Undone(f))
  <2>1. PICK o \in WriteOutcomes :
          /\ Account(o)
          /\ fat' = IF o = "lost" THEN fat
                    ELSE [fat EXCEPT ![f.mirror] = [c \in Clusters |->
                              IF FatSector(c) = FatSector(Target(f)) THEN fatCache[c]
                              ELSE fat[f.mirror][c]]]
          /\ Continue(IF o = "ok" /\ f.mirror < NumFats THEN Marked(f, f.mirror + 1)
                      ELSE AfterSet(f, o = "ok"))
    BY DEF WriteFat, Marked
  <2>2. CASE o = "ok"
    <3>1. AfterSet(f, o = "ok") = Done(f)
      BY <2>2 DEF Done
    <3> QED
      BY <1>3, <2>1, <2>2, <3>1
  <2>3. CASE o # "ok"
    <3>1. AfterSet(f, o = "ok") = Undone(f)
      BY <2>3 DEF Undone
    <3> QED
      BY <1>3, <2>1, <2>3, <3>1
  <2> QED
    BY <2>2, <2>3
<1>7. faults' \in 0 .. MaxFaults /\ o \in {"ok", "lost"}
  BY <1>6, Outcome
<1>8. UNCHANGED <<data, dir, fatCache, fatCacheLba, sectorBuf, cuts, suspect>>
  BY DEF WriteFat, driver
<1>9. PICK m2 : m2 = May(fat'[1], fatCache, FatSector(t))
  OBVIOUS
<1>10. ASSUME NEW g, Continue(g), g.op = "save", FrameFits(g, dir, sectorBuf, fatCache, fatCacheLba),
              NEW own2 \in [Clusters -> Owners], NEW p2, g.loaded => Target(g) = t,
              fat' \in [Copies -> [Clusters -> Links]],
              Volume(m2, dir, own2), Files(m2, data, dir, suspect, own2, ver, path),
              SaveFits(g, m2, data, dir, own2, p2),
              own2 = IF Claims THEN Added(own, f.cur) ELSE own
       PROVE  Types' /\ \E own3, p3 :
                 /\ Now(own3, p3, ver, path)'
                 /\ own3 = IF Claims THEN Added(own, f.cur) ELSE own
  <2>1. ops' = <<g>>
    BY <1>1, <1>10, TopIs
  <2>2. /\ data' \in [Clusters -> Blocks] /\ dir' \in Directory
        /\ fatCache' \in [Clusters -> Links] /\ fatCacheLba' \in Sectors
        /\ sectorBuf'.kind \in {"none", "dir", "block"}
        /\ cuts' \in 0 .. MaxCuts /\ suspect' \subseteq Names
    BY <1>8 DEF Types
  <2>3. m2 = May(fat'[1], fatCache', IF g.loaded THEN FatSector(Target(g)) ELSE fatCacheLba')
    <3>1. (IF g.loaded THEN FatSector(Target(g)) ELSE fatCacheLba') = FatSector(t)
      BY <1>4, <1>8, <1>10
    <3> QED
      BY <1>8, <1>9, <3>1
  <2>4. Loads(g, dir', suspect', sectorBuf', faults', ver, path)
    BY <1>10 DEF Loads
  <2>5. /\ FrameFits(g, dir', sectorBuf', fatCache', fatCacheLba')
        /\ Volume(m2, dir', own2) /\ Files(m2, data', dir', suspect', own2, ver, path)
        /\ g.op = "save" => SaveFits(g, m2, data', dir', own2, p2)
    BY <1>8, <1>10
  <2>6. Types' /\ Now(own2, p2, ver, path)'
    BY <1>7, <1>10, <2>1, <2>2, <2>3, <2>4, <2>5, StepIs
  <2> QED
    BY <1>10, <2>6
<1>11. PICK buf : buf = sectorBuf
  OBVIOUS
<1>12. FrameFits(f, dir, buf, fatCache, fatCacheLba)
  BY <1>2, <1>11
<1>13. f.pc \in {"claim", "link", "release"}
  BY <1>4 DEF SettingFat
<1>14. CASE o = "lost"
  <2>1. PICK g : g = Undone(f)
    OBVIOUS
  <2>2. Continue(g) /\ m2 = m /\ fat' = fat /\ fat \in [Copies -> [Clusters -> Links]]
    BY <1>5, <1>6, <1>9, <1>14, <2>1 DEF Types
  <2>3. FrameFits(g, dir, buf, fatCache, fatCacheLba) /\ SaveFits(g, m, data, dir, own, p)
        /\ Ended(g, f)
    <3>1. CASE f.pc = "claim"
      <4>1. Failed(g, f)
        BY <2>1 DEF Failed
      <4> QED
        BY <1>4, <1>5, <1>12, <3>1, <4>1, UnclaimedFits
    <3>2. CASE f.pc = "link"
      <4>1. FrameFits(g, dir, buf, fatCache, fatCacheLba) /\ SaveFits(g, m, data, dir, own, p)
            /\ Alike(g, f)
        BY <1>4, <1>5, <1>12, <2>1, <3>2, LinkedFits
      <4> QED
        BY <4>1 DEF Alike, Ended
    <3>3. CASE f.pc = "release"
      BY <1>4, <1>5, <1>12, <2>1, <3>3, ReleasedFits
    <3> QED
      BY <1>13, <3>1, <3>2, <3>3
  <2>4. g.op = "save" /\ ~g.loaded
    BY <1>4, <2>3 DEF Ended
  <2>5. ~Claims
    BY <1>6, <1>14 DEF Claims, Account, Types
  <2> QED
    BY <1>5, <1>10, <1>11, <2>2, <2>3, <2>4, <2>5
<1>15. CASE o = "ok"
  <2>1. /\ fat \in [Copies -> [Clusters -> Links]] /\ fatCache \in [Clusters -> Links]
        /\ f.mirror \in Copies /\ 1 \in Copies
    BY <1>4, Numbers DEF Types, Copies
  <2>2. PICK row : row = [c \in Clusters |->
                            IF FatSector(c) = FatSector(t) THEN fatCache[c]
                            ELSE fat[f.mirror][c]]
    OBVIOUS
  <2>3. row \in [Clusters -> Links] /\ fat' = [fat EXCEPT ![f.mirror] = row]
    BY <1>6, <1>15, <2>1, <2>2
  <2>4. fat' \in [Copies -> [Clusters -> Links]]
    BY <2>1, <2>3
  <2>5. Within(m2, m) /\ m2[t] \subseteq {w}
    <3>1. f.mirror > 1 => m[t] \subseteq {w}
      BY <1>3, <1>5 DEF SaveFits
    <3>2. fat' = [fat EXCEPT ![f.mirror] = [c \in Clusters |->
                            IF FatSector(c) = FatSector(t) THEN fatCache[c]
                            ELSE fat[f.mirror][c]]]
      BY <2>2, <2>3
    <3> QED
      BY <1>2, <1>3, <1>4, <1>5, <1>9, <3>1, <3>2, MirrorMay
  <2>6. /\ Volume(m2, dir, own) /\ Files(m2, data, dir, suspect, own, ver, path)
        /\ SaveFits(f, m2, data, dir, own, p)
    <3>1. Target(f) \in Clusters
      BY <1>3, <1>4
    <3> QED
      BY <1>2, <1>5, <2>5, <3>1, VolumeShrinks, FilesShrink, SaveShrinks
  <2>7. CASE f.mirror < NumFats
    <3>1. PICK k \in 0 .. NumFats : k = f.mirror + 1
      BY <1>4, <2>7, Numbers
    <3>2. PICK g : g = Marked(f, k)
      OBVIOUS
    <3>3. Continue(g)
      BY <1>6, <1>15, <2>7, <3>1, <3>2
    <3>4. g \in Frames /\ Same(g, f) /\ g.mirror = k /\ g.loaded = f.loaded
      BY <1>2, <3>2, MarkedIs
    <3>5. /\ FrameFits(g, dir, buf, fatCache, fatCacheLba)
          /\ g.op = "save" => SaveFits(g, m2, data, dir, own, p)
          /\ Target(g) = Target(f)
      <4>0. PICK cache2 : cache2 = fatCache
        OBVIOUS
      <4>1. /\ f.op = "save" => f.pc \in SettingFat \cup ReadingFat
            /\ SaveFits(f, m2, data, dir, own, p)
            /\ g.mirror \in {0, f.mirror, f.mirror + 1}
            /\ g.mirror > 1 => m2[Target(f)] \subseteq {NewValue(f)}
            /\ g.loaded => f.pc \in ReadingFat \cup SettingFat
            /\ g.mirror > 0 => f.mirror > 0 /\ cache2 = fatCache
        BY <1>1, <1>3, <1>4, <2>5, <2>6, <3>1, <3>4, <4>0
      <4>2. FrameFits(f, dir, buf, fatCache, fatCacheLba) /\ g \in Frames /\ Same(g, f)
        BY <1>12, <3>4
      <4>3. /\ FrameFits(g, dir, buf, cache2, fatCacheLba)
            /\ g.op = "save" => SaveFits(g, m2, data, dir, own, p)
            /\ Target(g) = Target(f)
        BY <4>1, <4>2, SameFits
      <4> QED
        BY <4>0, <4>3
    <3>6. g.op = "save" /\ ~Claims
      BY <1>4, <2>7, <3>4 DEF Same, Claims
    <3> QED
      BY <1>3, <1>5, <1>10, <1>11, <2>4, <2>6, <3>3, <3>5, <3>6
  <2>8. CASE ~(f.mirror < NumFats)
    <3>1. PICK g : g = Done(f)
      OBVIOUS
    <3>2. Continue(g)
      BY <1>6, <1>15, <2>8, <3>1
    <3>3. CASE f.pc = "claim"
      <4>1. t = f.cur /\ w = Eoc
        BY <1>3, <3>3 DEF Target, NewValue
      <4>2. own[t] = 0
        BY <1>5, <3>3, <4>1 DEF SaveFits
      <4>3. PICK own2, p2 : own2 = Added(own, f.cur) /\ p2 = Grown(p, f.i, f.cur)
        OBVIOUS
      <4>4. own2 \in [Clusters -> Owners] /\ Volume(m2, dir, own2)
            /\ Files(m2, data, dir, suspect, own2, ver, path)
        <5>1. Added(own, t) \in [Clusters -> Owners] /\ Volume(m2, dir, Added(own, t))
          BY <1>4, <1>5, <2>5, <2>6, <4>1, <4>2, VolumeAdded
        <5>2. Files(m2, data, dir, suspect, Added(own, t), ver, path)
          BY <1>4, <1>5, <2>6, <4>2, FilesAdded
        <5> QED
          BY <4>1, <4>3, <5>1, <5>2
      <4>5. /\ FrameFits(g, dir, buf, fatCache, fatCacheLba)
            /\ SaveFits(g, m2, data, dir, Added(own, f.cur), Grown(p, f.i, f.cur))
            /\ Alike(g, f)
        <5>1. m2[f.cur] \subseteq {Eoc}
          BY <2>5, <4>1
        <5> QED
          BY <1>4, <1>5, <1>12, <2>6, <3>1, <3>3, <5>1, ClaimedFits
      <4>6. g.op = "save" /\ ~g.loaded /\ Claims
        BY <1>4, <1>6, <1>15, <2>8, <3>3, <4>5 DEF Alike, Claims, Account
      <4> QED
        BY <1>10, <1>11, <2>4, <3>2, <4>3, <4>4, <4>5, <4>6
    <3>4. CASE f.pc = "link"
      <4>1. m2[Target(f)] \subseteq {NewValue(f)}
        BY <1>3, <2>5
      <4>2. /\ FrameFits(g, dir, buf, fatCache, fatCacheLba)
            /\ SaveFits(g, m2, data, dir, own, p) /\ Alike(g, f)
        BY <1>4, <1>12, <2>6, <3>1, <3>4, <4>1, LinkedFits
      <4>3. g.op = "save" /\ ~g.loaded /\ ~Claims
        BY <1>4, <3>4, <4>2 DEF Alike, Claims
      <4> QED
        BY <1>5, <1>10, <1>11, <2>4, <2>6, <3>2, <4>2, <4>3
    <3>5. CASE f.pc = "release"
      <4>1. /\ FrameFits(g, dir, buf, fatCache, fatCacheLba)
            /\ SaveFits(g, m2, data, dir, own, p) /\ Ended(g, f)
        BY <1>4, <1>12, <2>6, <3>1, <3>5, ReleasedFits
      <4>2. g.op = "save" /\ ~g.loaded /\ ~Claims
        BY <1>4, <3>5, <4>1 DEF Ended, Claims
      <4> QED
        BY <1>5, <1>10, <1>11, <2>4, <2>6, <3>2, <4>1, <4>2
    <3> QED
      BY <1>13, <3>3, <3>4, <3>5
  <2> QED
    BY <2>7, <2>8
<1> QED
  BY <1>7, <1>14, <1>15

\* A power cut keeps what has been written.
LEMMA PowerCutKeeps ==
  ASSUME Orderly, Types, PowerCut
  PROVE  UNCHANGED <<fat, data, dir, faults, suspect>>
<1>1. Unflushed = {}
  BY DEF Orderly, Unflushed
<1>2. /\ data' = [c \in Clusters |-> data[c]] /\ dir' = dir
      /\ fat' = [k \in Copies |-> [c \in Clusters |-> fat[k][c]]]
      /\ faults' = faults /\ suspect' = suspect
  <2>1. PICK lost \in SUBSET Unflushed :
          /\ data' = [c \in Clusters |-> IF <<"data", c>> \in lost THEN flushed[2][c]
                                       ELSE data[c]]
          /\ dir' = IF <<"dir", 0>> \in lost THEN flushed[3] ELSE dir
          /\ fat' = [k \in Copies |-> [c \in Clusters |->
                        IF <<"fat", k, FatSector(c)>> \in lost THEN flushed[1][k][c]
                        ELSE fat[k][c]]]
    BY DEF PowerCut
  <2>2. lost = {}
    BY <1>1
  <2>3. /\ data' = [c \in Clusters |-> data[c]] /\ dir' = dir
        /\ fat' = [k \in Copies |-> [c \in Clusters |-> fat[k][c]]]
    BY <2>1, <2>2
  <2>4. faults' = faults /\ suspect' = suspect
    BY DEF PowerCut
  <2> QED
    BY <2>3, <2>4
<1>3. data' = data
  BY <1>2 DEF Types
<1>4. fat' = fat
  <2>1. fat \in [Copies -> [Clusters -> Links]]
    BY DEF Types
  <2>2. \A k \in Copies : [c \in Clusters |-> fat[k][c]] = fat[k]
    BY <2>1
  <2>3. fat' = [k \in Copies |-> fat[k]]
    BY <1>2, <2>2
  <2> QED
    BY <2>1, <2>3
<1> QED
  BY <1>2, <1>3, <1>4

\* PowerCut.
LEMMA StepPowerCut ==
  ASSUME Orderly, Types, NEW own, NEW p, NEW ver, NEW path, Now(own, p, ver, path), PowerCut
  PROVE  Types' /\ Now(own, p, ver, path)'
<1>1. UNCHANGED <<fat, data, dir, faults, suspect>>
  BY PowerCutKeeps
<1>2. /\ ops' = <<>> /\ fatCacheLba' = NoSector /\ cuts' \in 0 .. MaxCuts
      /\ fatCache' = [c \in Clusters |-> Free] /\ sectorBuf'.kind = "none"
  BY BoundAssumption DEF PowerCut, Types
<1>3. fatCache' \in [Clusters -> Links] /\ fatCacheLba' \in Sectors
  BY <1>2, SectorOf, Numbers DEF Links
<1>4. Types'
  BY <1>1, <1>2, <1>3 DEF Types
<1> PICK m, m2 : /\ m = May(fat[1], fatCache, Tag(ops, fatCacheLba))
                 /\ m2 = May(fat[1], fatCache, Tag(ops, fatCacheLba))'
  OBVIOUS
<1>5. /\ own \in [Clusters -> Owners]
      /\ Volume(m, dir, own) /\ Files(m, data, dir, suspect, own, ver, path)
  BY DEF Now, Ghosts
<1>6. Within(m2, m)
  <2>1. m2 = May(fat[1], fatCache', NoSector)
    BY <1>1, <1>2 DEF Tag
  <2>2. \A c \in Clusters : m2[c] = {fat[1][c]}
    BY <2>1, SectorOf DEF May
  <2>3. \A c \in Clusters : fat[1][c] \in m[c]
    BY DEF May
  <2> QED
    BY <2>2, <2>3 DEF Within
<1>7. Volume(m2, dir, own) /\ Files(m2, data, dir, suspect, own, ver, path)
  BY <1>5, <1>6, VolumeShrinks, FilesShrink
<1>8. Now(own, p, ver, path)'
  BY <1>1, <1>2, <1>5, <1>7 DEF Now, Ghosts
<1> QED
  BY <1>4, <1>8

\* The volume that has just been formatted.
LEMMA Formatted ==
  ASSUME Init
  PROVE  VolumeInv
<1> PICK own : own = [c \in Clusters |-> 0]
  OBVIOUS
<1> PICK m : m = May(fat[1], fatCache, Tag(ops, fatCacheLba))
  OBVIOUS
<1>1. /\ fat = [k \in Copies |-> [c \in Clusters |-> Free]]
      /\ data = [c \in Clusters |-> None]
      /\ dir = [s \in 1 .. DirSlots |-> EmptyEntry]
      /\ fatCache = [c \in Clusters |-> Free] /\ fatCacheLba = NoSector
      /\ sectorBuf.kind = "none" /\ ops = <<>> /\ cuts = 0 /\ faults = 0 /\ suspect = {}
  BY DEF Init
<1>2. EmptyEntry \in Entries /\ EmptyEntry.name = None
  BY DEF EmptyEntry, Entries
<1>3. Free \in Links /\ None \in Blocks /\ NoSector \in Sectors
  BY SectorOf DEF Links, Blocks
<1>4. dir \in Directory
  BY <1>1, <1>2 DEF Directory
<1>5. Types
  BY <1>1, <1>3, <1>4, BoundAssumption DEF Types
<1>6. own \in [Clusters -> Owners] /\ \A c \in Clusters : own[c] = 0
  BY Numbers
<1>7. None \notin Names /\ \A s \in 1 .. DirSlots : dir[s].name = None
  BY <1>1, <1>2, GeometryAssumption
<1>8. Volume(m, dir, own)
  BY <1>6, <1>7, Numbers DEF Volume, Closed, Kept, Entered
<1>9. Files(m, data, dir, suspect, own, <<>>, <<>>)
  BY <1>7 DEF Files, IsHome
<1>10. Now(own, <<>>, <<>>, <<>>)
  BY <1>1, <1>6, <1>8, <1>9 DEF Now, Ghosts
<1> QED
  BY <1>5, <1>10 DEF VolumeInv

\* The invariant is inductive.
LEMMA VolumeStep ==
  ASSUME Orderly, VolumeInv, [Next]_vars
  PROVE  VolumeInv'
<1>1. Types
  BY DEF VolumeInv
<1>2. PICK own, p, ver, path : Now(own, p, ver, path)
  BY DEF VolumeInv
<1>3. ASSUME Types', NEW own2, NEW p2, NEW ver2, NEW path2, Now(own2, p2, ver2, path2)'
      PROVE  VolumeInv'
  BY <1>3 DEF VolumeInv
<1>4. CASE UNCHANGED vars
  <2>1. UNCHANGED <<fat, data, dir, fatCache, fatCacheLba, sectorBuf, ops, cuts, faults, suspect>>
    BY <1>4 DEF vars, disk, driver
  <2>2. Types'
    BY <1>1, <2>1 DEF Types
  <2>3. Now(own, p, ver, path)'
    BY <1>2, <2>1 DEF Now
  <2> QED
    BY <1>3, <2>2, <2>3
<1>5. ASSUME NEW n \in Names, NEW v \in Versions, BeginSave(n, v) PROVE VolumeInv'
  <2>1. PICK op \in {"save", "load"} : op = "save"
    OBVIOUS
  <2>2. /\ Len(ops) < MaxDepth /\ ops' = Append(ops, NewFrame(op, n, v))
        /\ UNCHANGED <<disk, driver, cuts, faults, suspect>> /\ op # "load"
    BY <1>5, <2>1 DEF BeginSave
  <2>3. Types' /\ \E own2, p2 : Now(own2, p2, ver, path)'
    BY <1>1, <1>2, <2>1, <2>2, StepBegin
  <2> QED
    BY <1>3, <2>3
<1>6. ASSUME NEW n \in Names, BeginLoad(n) PROVE VolumeInv'
  <2> PICK v : v = None
    OBVIOUS
  <2>1. PICK op \in {"save", "load"} : op = "load"
    OBVIOUS
  <2>2. /\ Len(ops) < MaxDepth /\ ops' = Append(ops, NewFrame(op, n, v))
        /\ UNCHANGED <<disk, driver, cuts, faults, suspect>> /\ op # "save"
    BY <1>6, <2>1 DEF BeginLoad
  <2>3. Types' /\ \E own2, p2 : Now(own2, p2, ver, path)'
    BY <1>1, <1>2, <2>1, <2>2, StepBegin
  <2> QED
    BY <1>3, <2>3
<1>7. CASE Leave
  BY <1>1, <1>2, <1>3, <1>7, StepLeave
<1>8. CASE Locate
  <2>1. ops # <<>>
    BY <1>8 DEF Locate, At
  <2>2. Top.op \in {"save", "load"}
    BY <1>1, <2>1, TopIs, FrameHas
  <2>3. CASE Top.op = "save"
    BY <1>1, <1>2, <1>3, <1>8, <2>3, StepLocateSave
  <2>4. CASE Top.op = "load"
    BY <1>1, <1>2, <1>3, <1>8, <2>4, StepLocateLoad
  <2> QED
    BY <2>2, <2>3, <2>4
<1>9. CASE FindSlot
  BY <1>1, <1>2, <1>3, <1>9, StepFindSlot
<1>10. CASE Patch
  BY <1>1, <1>2, <1>3, <1>10, StepPatch
<1>11. CASE Writeback
  <2>1. Types' /\ \E own2, ver2, path2 : Now(own2, p, ver2, path2)'
    BY <1>1, <1>2, <1>11, StepWriteback
  <2> QED
    BY <1>3, <2>1
<1>12. CASE LoadFat
  BY <1>1, <1>2, <1>3, <1>12, StepLoadFat
<1>13. CASE NextEntry
  BY <1>1, <1>2, <1>3, <1>13, StepNextEntry
<1>14. CASE SetEntry
  BY <1>1, <1>2, <1>3, <1>14, StepSetEntry
<1>15. CASE WriteFat
  <2>1. Types' /\ \E own2, p2 : Now(own2, p2, ver, path)'
    BY <1>1, <1>2, <1>15, StepWriteFat
  <2> QED
    BY <1>3, <2>1
<1>16. CASE Fill
  BY <1>1, <1>2, <1>3, <1>16, StepFill
<1>17. CASE Write
  BY <1>1, <1>2, <1>3, <1>17, StepWrite
<1>18. CASE Read
  BY <1>1, <1>2, <1>3, <1>18, StepRead
<1>19. CASE Copy
  BY <1>1, <1>2, <1>3, <1>19, StepCopy
<1>20. CASE Flush
  BY <1>1, <1>2, <1>3, <1>20, StepFlush
<1>21. CASE PowerCut
  BY <1>1, <1>2, <1>3, <1>21, StepPowerCut
<1> QED
  BY <1>4, <1>5, <1>6, <1>7, <1>8, <1>9, <1>10, <1>11, <1>12, <1>13, <1>14, <1>15, <1>16,
     <1>17, <1>18, <1>19, <1>20, <1>21 DEF Next

\* Whatever is saved, whichever access fails and whenever the power is cut, the
\* volume is in order.
THEOREM VolumeIsSound ==
  ASSUME Orderly
  PROVE  Spec => []VolumeInv
<1>1. Init => VolumeInv
  BY Formatted
<1>2. VolumeInv /\ [Next]_vars => VolumeInv'
  BY VolumeStep
<1> QED
  BY <1>1, <1>2, PTL DEF Spec

-----------------------------------------------------------------------------
(***************************************************************************)
(* Following a chain.                                                      *)
(***************************************************************************)
LEMMA AllNumbers ==
  ASSUME NEW S \in SUBSET Nat, 0 \in S, \A i \in S : i + 1 \in S
  PROVE  S = Nat
<1> PICK U : U = Nat \ S
  OBVIOUS
<1>1. ASSUME U # {} PROVE FALSE
  <2>1. U \in SUBSET Nat
    OBVIOUS
  <2>2. PICK m \in U : \A k \in U : m <= k
    BY <1>1, <2>1, LeastOf
  <2>3. m \in Nat /\ m # 0 /\ m - 1 \in Nat /\ ~(m <= m - 1) /\ m - 1 + 1 = m
    BY <2>2
  <2>4. m - 1 \notin U
    BY <2>2, <2>3
  <2>5. m - 1 \in S
    BY <2>3, <2>4
  <2> QED
    BY <2>2, <2>3, <2>5
<1> QED
  BY <1>1

\* The cluster that follows, and the way step goes from c, n clusters on.
Onward(links, last) == IF last \in Clusters THEN links[last] ELSE Eoc
Goes(step, links, c, n) ==
    step[0] = c /\ \A k \in 0 .. n - 1 : step[k + 1] = Onward(links, step[k])

\* There is a way of any length.
LEMMA WayExists ==
  ASSUME NEW links, NEW c, NEW n \in Nat
  PROVE  \E step : Goes(step, links, c, n)
<1> DEFINE S == {m \in Nat : \E step : Goes(step, links, c, m)}
<1>1. 0 \in S
  <2>1. Goes([k \in {0} |-> c], links, c, 0)
    BY DEF Goes
  <2> QED
    BY <2>1
<1>2. ASSUME NEW m \in S PROVE m + 1 \in S
  <2>1. PICK f : Goes(f, links, c, m)
    OBVIOUS
  <2>2. PICK s : s = Onward(links, f[m])
    OBVIOUS
  <2>3. PICK g : g = [k \in 0 .. m + 1 |-> IF k = m + 1 THEN s ELSE f[k]]
    OBVIOUS
  <2>4. m \in Nat /\ g[0] = f[0] /\ g[m + 1] = Onward(links, f[m])
        /\ \A k \in 0 .. m : g[k] = f[k]
    BY <2>2, <2>3
  <2>5. ASSUME NEW k \in 0 .. m PROVE g[k + 1] = Onward(links, g[k])
    <3>1. CASE k = m
      BY <2>4, <3>1
    <3>2. CASE k # m
      <4>1. k \in 0 .. m - 1 /\ k + 1 \in 0 .. m
        BY <2>4, <3>2
      <4>2. f[k + 1] = Onward(links, f[k])
        BY <2>1, <4>1 DEF Goes
      <4> QED
        BY <2>4, <4>1, <4>2
    <3> QED
      BY <3>1, <3>2
  <2>6. Goes(g, links, c, m + 1)
    <3>1. m + 1 - 1 = m
      BY <2>4
    <3> QED
      BY <2>1, <2>4, <2>5, <3>1 DEF Goes
  <2> QED
    BY <2>4, <2>6
<1> HIDE DEF S
<1>3. S = Nat
  BY <1>1, <1>2, AllNumbers DEF S
<1> QED
  BY <1>3 DEF S

\* Walk stops before the first step that is no cluster.
Walked(step, length, links, c, n) ==
    /\ Goes(step, links, c, n)
    /\ \A k \in 0 .. n : step[k] \in Clusters <=> k < length
    /\ Walk(links, c, n) = [k \in 1 .. length |-> step[k - 1]]

\* Walk is one.
LEMMA WalkIs ==
  ASSUME NEW links, NEW c, NEW n \in Nat
  PROVE  \E step : \E length \in 0 .. n + 1 : Walked(step, length, links, c, n)
<1> DEFINE Rec(w) == w = [k \in 0 .. n |->
                IF k = 0 THEN c
                ELSE LET last == w[k - 1]
                     IN  IF last \in Clusters THEN links[last] ELSE Eoc]
           Ends(w, m) == \A k \in 0 .. n : w[k] \in Clusters <=> k < m
<1>1. PICK f : Goes(f, links, c, n)
  BY WayExists
<1>2. PICK g : g = [k \in 0 .. n |-> f[k]]
  OBVIOUS
<1>3. Rec(g)
  <2> SUFFICES ASSUME NEW k \in 0 .. n
               PROVE  g[k] = IF k = 0 THEN c
                             ELSE LET last == g[k - 1]
                                  IN  IF last \in Clusters THEN links[last] ELSE Eoc
    BY <1>2
  <2>1. CASE k = 0
    BY <1>1, <1>2, <2>1 DEF Goes
  <2>2. CASE k # 0
    <3>1. k - 1 \in 0 .. n - 1 /\ k - 1 \in 0 .. n /\ k - 1 + 1 = k
      BY <2>2
    <3>2. f[k] = Onward(links, f[k - 1])
      BY <1>1, <3>1 DEF Goes
    <3>3. g[k] = f[k] /\ g[k - 1] = f[k - 1]
      BY <1>2, <3>1
    <3> QED
      BY <2>2, <3>2, <3>3 DEF Onward
  <2> QED
    BY <2>1, <2>2
<1>4. PICK w : w = CHOOSE v : Rec(v)
  OBVIOUS
<1>5. Rec(w)
  BY <1>3, <1>4
<1>6. Goes(w, links, c, n)
  <2>1. 0 \in 0 .. n
    OBVIOUS
  <2>2. w[0] = c
    BY <1>5, <2>1
  <2>3. ASSUME NEW k \in 0 .. n - 1 PROVE w[k + 1] = Onward(links, w[k])
    <3>1. k + 1 \in 0 .. n /\ k + 1 # 0 /\ k + 1 - 1 = k
      OBVIOUS
    <3> QED
      BY <1>5, <3>1 DEF Onward
  <2> QED
    BY <2>2, <2>3 DEF Goes
<1>7. \E m \in 0 .. n + 1 : Ends(w, m)
  <2> PICK T : T = {k \in 0 .. n : w[k] \notin Clusters}
    OBVIOUS
  <2>1. CASE T = {}
    BY <2>1
  <2>2. CASE T # {}
    <3>1. T \in SUBSET Nat
      OBVIOUS
    <3>2. PICK m \in T : \A k \in T : m <= k
      BY <2>2, <3>1, LeastOf
    <3>3. m \in 0 .. n /\ w[m] \notin Clusters
      BY <3>2
    <3>4. \A k \in 0 .. n : k < m => w[k] \in Clusters
      BY <3>2, <3>3
    <3> DEFINE S == {i \in Nat : m + i <= n => w[m + i] \notin Clusters}
    <3>5. 0 \in S
      BY <3>3
    <3>6. ASSUME NEW i \in S PROVE i + 1 \in S
      <4> SUFFICES ASSUME m + (i + 1) <= n PROVE w[m + (i + 1)] \notin Clusters
        OBVIOUS
      <4>1. m + i \in 0 .. n - 1 /\ (m + i) + 1 = m + (i + 1) /\ m + i <= n
        BY <3>3
      <4>2. w[m + i] \notin Clusters
        BY <4>1
      <4>3. w[m + (i + 1)] = Eoc
        BY <1>6, <4>1, <4>2 DEF Goes, Onward
      <4> QED
        BY <4>3, Numbers
    <3> HIDE DEF S
    <3>7. S = Nat
      BY <3>5, <3>6, AllNumbers DEF S
    <3>8. ASSUME NEW k \in 0 .. n, ~(k < m) PROVE w[k] \notin Clusters
      <4>1. k - m \in Nat /\ m + (k - m) = k /\ k <= n
        BY <3>3, <3>8
      <4> QED
        BY <3>7, <4>1 DEF S
    <3>9. m \in 0 .. n + 1
      BY <3>3
    <3> QED
      BY <3>4, <3>8, <3>9
  <2> QED
    BY <2>1, <2>2
<1>8. PICK length : length = CHOOSE m \in 0 .. n + 1 : Ends(w, m)
  OBVIOUS
<1>9. length \in 0 .. n + 1 /\ Ends(w, length)
  BY <1>7, <1>8
<1>10. Walk(links, c, n) = [k \in 1 .. length |-> w[k - 1]]
  BY <1>4, <1>8 DEF Walk
<1>11. \A k \in 0 .. n : w[k] \in Clusters <=> k < length
  BY <1>9
<1>12. length \in 0 .. n + 1
  BY <1>9
<1> HIDE DEF Rec, Ends
<1> QED
  BY <1>6, <1>10, <1>11, <1>12 DEF Walked


\* A chain stays with the owner of its first cluster.
Stays(links, c, own, s) ==
    /\ c \in Clusters => own[c] = s
    /\ \A d \in Clusters : own[d] = s /\ links[d] \in Clusters => own[links[d]] = s
OwnedBy(w, own, s) == \A i \in 1 .. Len(w) : w[i] \in Clusters /\ own[w[i]] = s

\* All of a chain is owned by the owner of its first cluster.
LEMMA WalkStays ==
  ASSUME NEW links, NEW c, NEW n \in Nat, NEW own, NEW s, Stays(links, c, own, s)
  PROVE  OwnedBy(Walk(links, c, n), own, s)
<1>1. PICK step : \E length \in 0 .. n + 1 : Walked(step, length, links, c, n)
  BY WalkIs
<1>w. PICK length \in 0 .. n + 1 : Walked(step, length, links, c, n)
  BY <1>1
<1>2. /\ Goes(step, links, c, n)
      /\ \A k \in 0 .. n : step[k] \in Clusters <=> k < length
      /\ Walk(links, c, n) = [k \in 1 .. length |-> step[k - 1]]
  BY <1>w DEF Walked
<1> DEFINE S == {k \in Nat : k <= n /\ step[k] \in Clusters => own[step[k]] = s}
<1>3. 0 \in S
  BY <1>2 DEF Goes, Stays
<1>4. ASSUME NEW k \in S PROVE k + 1 \in S
  <2> SUFFICES ASSUME k + 1 <= n, step[k + 1] \in Clusters PROVE own[step[k + 1]] = s
    OBVIOUS
  <2>1. k \in 0 .. n - 1 /\ k <= n
    OBVIOUS
  <2>2. step[k + 1] = Onward(links, step[k])
    BY <1>2, <2>1 DEF Goes
  <2>3. step[k] \in Clusters /\ step[k + 1] = links[step[k]]
    BY <2>2, Numbers DEF Onward
  <2>4. own[step[k]] = s
    BY <2>1, <2>3
  <2> QED
    BY <2>3, <2>4 DEF Stays
<1> HIDE DEF S
<1>5. S = Nat
  BY <1>3, <1>4, AllNumbers DEF S
<1> PICK w : w = Walk(links, c, n)
  OBVIOUS
<1>6. Len(w) = length
  BY <1>2
<1>7. ASSUME NEW i \in 1 .. length PROVE w[i] \in Clusters /\ own[w[i]] = s
  <2>1. i - 1 \in 0 .. n /\ i - 1 < length /\ i - 1 \in Nat /\ i - 1 <= n
    OBVIOUS
  <2>2. w[i] = step[i - 1]
    BY <1>2
  <2>3. step[i - 1] \in Clusters
    BY <1>2, <2>1
  <2>4. own[step[i - 1]] = s
    BY <1>5, <2>1, <2>3 DEF S
  <2> QED
    BY <2>2, <2>3, <2>4
<1> QED
  BY <1>6, <1>7 DEF OwnedBy

\* A chain of the right length is what Walk finds.
LEMMA WalkOf ==
  ASSUME NEW links, NEW k \in Nat, NEW q \in [1 .. k -> Clusters],
         \A j \in 1 .. k : links[q[j]] = After(q, k, j)
  PROVE  Walk(links, Start(q, k), k) = q
<1> PICK c : c = Start(q, k)
  OBVIOUS
<1>1. PICK step : \E length \in 0 .. k + 1 : Walked(step, length, links, c, k)
  BY WalkIs
<1>w. PICK length \in 0 .. k + 1 : Walked(step, length, links, c, k)
  BY <1>1
<1>2. /\ Goes(step, links, c, k)
      /\ \A i \in 0 .. k : step[i] \in Clusters <=> i < length
      /\ Walk(links, c, k) = [i \in 1 .. length |-> step[i - 1]]
  BY <1>w DEF Walked
<1> DEFINE S == {i \in Nat : i < k => step[i] = q[i + 1]}
<1>3. 0 \in S
  <2>1. k > 0 => c = q[1]
    BY DEF Start
  <2> QED
    BY <1>2, <2>1 DEF Goes
<1>4. ASSUME NEW i \in S PROVE i + 1 \in S
  <2> SUFFICES ASSUME i + 1 < k PROVE step[i + 1] = q[i + 1 + 1]
    OBVIOUS
  <2>1. i \in Nat /\ i \in 0 .. k - 1 /\ i < k /\ i + 1 \in 1 .. k
    OBVIOUS
  <2>2. step[i + 1] = Onward(links, step[i])
    BY <1>2, <2>1 DEF Goes
  <2>3. step[i] = q[i + 1] /\ q[i + 1] \in Clusters
    BY <2>1
  <2>4. links[q[i + 1]] = q[i + 1 + 1]
    BY <2>1 DEF After
  <2> QED
    BY <2>2, <2>3, <2>4 DEF Onward
<1> HIDE DEF S
<1>5. S = Nat
  BY <1>3, <1>4, AllNumbers DEF S
<1>6. ASSUME NEW i \in 0 .. k - 1 PROVE step[i] = q[i + 1] /\ step[i] \in Clusters
  <2>1. i \in Nat /\ i < k /\ i + 1 \in 1 .. k
    OBVIOUS
  <2>2. step[i] = q[i + 1]
    BY <1>5, <2>1 DEF S
  <2> QED
    BY <2>1, <2>2
<1>7. step[k] \notin Clusters
  <2>1. CASE k = 0
    BY <1>2, <2>1, Numbers DEF Goes, Start
  <2>2. CASE k # 0
    <3>1. k - 1 \in 0 .. k - 1 /\ k - 1 + 1 = k /\ k \in 1 .. k
      BY <2>2
    <3>2. step[k] = Onward(links, step[k - 1])
      BY <1>2, <3>1 DEF Goes
    <3>3. step[k - 1] = q[k] /\ step[k - 1] \in Clusters
      BY <1>6, <3>1
    <3>4. links[q[k]] = Eoc
      BY <3>1 DEF After
    <3> QED
      BY <3>2, <3>3, <3>4, Numbers DEF Onward
  <2> QED
    BY <2>1, <2>2
<1>8. length = k
  <2>1. ~(k < length)
    BY <1>2, <1>7
  <2>2. k = 0 \/ k - 1 < length
    <3>1. CASE k # 0
      <4>1. k - 1 \in 0 .. k - 1 /\ k - 1 \in 0 .. k
        BY <3>1
      <4> QED
        BY <1>2, <1>6, <4>1
    <3> QED
      BY <3>1
  <2> QED
    BY <2>1, <2>2
<1>9. \A i \in 1 .. k : step[i - 1] = q[i]
  <2> TAKE i \in 1 .. k
  <2>1. i - 1 \in 0 .. k - 1 /\ i - 1 + 1 = i
    OBVIOUS
  <2> QED
    BY <1>6, <2>1
<1>10. Walk(links, c, k) = q
  <2>1. Walk(links, c, k) = [i \in 1 .. k |-> step[i - 1]]
    BY <1>2, <1>8
  <2>2. q = [i \in 1 .. k |-> q[i]]
    OBVIOUS
  <2> QED
    BY <1>9, <2>1, <2>2
<1> QED
  BY <1>10

\* Every cluster of an entry's chain is the entry's own, and in use.
LEMMA ChainIsOwn ==
  ASSUME Types, NEW own, NEW p, NEW ver, NEW path, Now(own, p, ver, path),
         NEW s \in 1 .. DirSlots
  PROVE  \A i \in 1 .. Len(ChainOf(s)) :
            own[ChainOf(s)[i]] = s /\ fat[1][ChainOf(s)[i]] # Free
<1> PICK m : m = May(fat[1], fatCache, Tag(ops, fatCacheLba))
  OBVIOUS
<1>1. Volume(m, dir, own)
  BY DEF Now, Ghosts
<1>2. \A c \in Clusters : fat[1][c] \in m[c]
  BY DEF May
<1>3. CASE dir[s].name \notin Names
  BY <1>3 DEF ChainOf
<1>4. CASE dir[s].name \in Names
  <2> PICK links, c : links = fat[1] /\ c = dir[s].first
    OBVIOUS
  <2>1. ChainOf(s) = Walk(links, c, NumClusters)
    BY <1>4 DEF ChainOf
  <2>2. c \in Clusters => own[c] = s
    BY <1>1, <1>4 DEF Volume, Entered
  <2>3. \A d \in Clusters : own[d] = s /\ links[d] \in Clusters => own[links[d]] = s
    BY <1>1, <1>2, Numbers DEF Volume, Closed
  <2>4. NumClusters \in Nat
    BY Numbers
  <2>5. OwnedBy(Walk(links, c, NumClusters), own, s)
    BY <2>2, <2>3, <2>4, WalkStays DEF Stays
  <2>6. \A d \in Clusters : own[d] = s => links[d] # Free
    BY <1>1, <1>2 DEF Volume, Kept
  <2> QED
    BY <2>1, <2>5, <2>6 DEF OwnedBy
<1> QED
  BY <1>3, <1>4

\* Chains of different owners have no cluster in common.
LEMMA SoundChains ==
  VolumeInv => ChainsDisjoint
<1> SUFFICES ASSUME VolumeInv PROVE ChainsDisjoint
  OBVIOUS
<1>1. Types
  BY DEF VolumeInv
<1>2. PICK own, p, ver, path : Now(own, p, ver, path)
  BY DEF VolumeInv
<1>3. \A s \in 1 .. DirSlots : \A i \in 1 .. Len(ChainOf(s)) :
            own[ChainOf(s)[i]] = s /\ fat[1][ChainOf(s)[i]] # Free
  BY <1>1, <1>2, ChainIsOwn
<1> QED
  BY <1>3 DEF ChainsDisjoint

\* No cluster belongs to two files, and none that a file uses is free in the
\* FAT that fat_alloc_cluster searches.
THEOREM VolumeKeepsChains ==
  ASSUME Orderly
  PROVE  Spec => []ChainsDisjoint
<1>1. Spec => []VolumeInv
  BY VolumeIsSound
<1>2. VolumeInv => ChainsDisjoint
  BY SoundChains
<1> QED
  BY <1>1, <1>2, PTL

\* Type correctness of the driver.
THEOREM VolumeTypes ==
  ASSUME Orderly
  PROVE  Spec => []TypeOK
<1>1. Spec => []VolumeInv
  BY VolumeIsSound
<1>2. VolumeInv => TypeOK
  <2> SUFFICES ASSUME Types PROVE TypeOK
    BY DEF VolumeInv
  <2>1. /\ fat \in [Copies -> [Clusters -> Links]] /\ data \in [Clusters -> Blocks \cup {Torn}]
        /\ dir \in Directory /\ fatCache \in [Clusters -> Links] /\ fatCacheLba \in Sectors
        /\ sectorBuf.kind \in {"none", "dir", "block"}
        /\ cuts \in 0 .. MaxCuts /\ faults \in 0 .. MaxFaults /\ suspect \subseteq Names
    BY DEF Types
  <2>2. Len(ops) <= MaxDepth /\ \A d \in 1 .. Len(ops) : ops[d] \in Frames
    <3>1. CASE ops = <<>>
      BY <3>1 DEF Orderly
    <3>2. CASE ops # <<>>
      <4>1. ops = <<ops[1]>> /\ ops[1] \in Frames
        BY <3>2 DEF Types, FrameFits
      <4>2. PICK f : f = ops[1]
        OBVIOUS
      <4>3. ops = <<f>> /\ f \in Frames
        BY <4>1, <4>2
      <4>4. Len(ops) = 1 /\ \A d \in 1 .. Len(ops) : ops[d] \in Frames
        BY <4>3
      <4> QED
        BY <4>4 DEF Orderly
    <3> QED
      BY <3>1, <3>2
  <2> QED
    BY <2>1, <2>2 DEF TypeOK
<1> QED
  BY <1>1, <1>2, PTL

-----------------------------------------------------------------------------
(***************************************************************************)
(* What a file reads back as.                                              *)
(***************************************************************************)
LEMMA ContentHeld ==
  ASSUME NEW links, NEW m, \A c \in Clusters : links[c] \in m[c],
         NEW blocks, NEW image, NEW own, NEW n \in Names, NEW s \in 1 .. DirSlots, NEW v, NEW q,
         IsHome(image, n, s), Holds(s, n, v, q, m, blocks, image, own)
  PROVE  ContentIn(links, blocks, image, n) = v
<1> PICK k : k = Size(v)
  OBVIOUS
<1>1. /\ v \in Versions /\ q \in [1 .. k -> Clusters] /\ Linked(q, k, m)
      /\ \A j \in 1 .. k : blocks[q[j]] = <<n, v, j>>
      /\ image[s].size = k /\ image[s].first = Start(q, k)
  BY DEF Holds
<1>2. k \in Nat
  BY <1>1, Numbers
<1>3. ASSUME NEW j \in 1 .. k PROVE links[q[j]] = After(q, k, j)
  <2>1. q[j] \in Clusters
    BY <1>1
  <2>2. m[q[j]] \subseteq {After(q, k, j)} /\ links[q[j]] \in m[q[j]]
    BY <1>1, <2>1 DEF Linked
  <2> QED
    BY <2>2
<1>4. ASSUME NEW j \in 1 .. k PROVE links[q[j]] # Free
  <2>1. j < k => q[j + 1] \in Clusters
    BY <1>1, <1>2
  <2> QED
    BY <1>3, <2>1, Numbers DEF After
<1>5. Walk(links, Start(q, k), k) = q
  BY <1>1, <1>2, <1>3, WalkOf
<1>6. Find(image, n) # {} /\ Least(Find(image, n)) = s
  BY HomeIsLeast
<1> PICK read : read = [i \in 1 .. Len(q) |-> blocks[q[i]]]
  OBVIOUS
<1> PICK whole : whole = {w \in Versions : k = Size(w) /\ read = BlocksOf(n, w)}
  OBVIOUS
<1>7. ContentIn(links, blocks, image, n) =
        IF whole = {} \/ \E i \in 1 .. Len(q) : links[q[i]] = Free
        THEN Torn ELSE CHOOSE w \in whole : TRUE
  <2> DEFINE entry == image[Least(Find(image, n))]
             chain == Walk(links, entry.first, entry.size)
             read2 == [i \in 1 .. Len(chain) |-> blocks[chain[i]]]
             whole2 == {w \in Versions : entry.size = Size(w) /\ read2 = BlocksOf(n, w)}
  <2>1. ContentIn(links, blocks, image, n) =
          IF whole2 = {} \/ \E i \in 1 .. Len(chain) : links[chain[i]] = Free
          THEN Torn ELSE CHOOSE w \in whole2 : TRUE
    BY <1>6 DEF ContentIn
  <2>2. entry.size = k /\ chain = q
    BY <1>1, <1>5, <1>6
  <2> HIDE DEF chain
  <2>3. read2 = read
    BY <2>2
  <2> HIDE DEF read2
  <2>4. whole2 = whole
    BY <2>2, <2>3
  <2> HIDE DEF whole2
  <2> QED
    BY <2>1, <2>2, <2>4
<1>8. Len(q) = k
  BY <1>1, <1>2
<1>9. read = [i \in 1 .. k |-> <<n, v, i>>]
  BY <1>1, <1>8
<1>10. v \in whole
  BY <1>1, <1>9 DEF BlocksOf
<1>11. ASSUME NEW w \in whole PROVE w = v
  <2>1. w \in Versions /\ Size(w) = k /\ read = [i \in 1 .. k |-> <<n, w, i>>]
    BY DEF BlocksOf
  <2>2. CASE k = 0
    BY <1>1, <2>1, <2>2, GeometryAssumption
  <2>3. CASE k # 0
    <3>1. 1 \in 1 .. k
      BY <1>2, <2>3
    <3>2. read[1] = <<n, v, 1>> /\ read[1] = <<n, w, 1>>
      BY <1>9, <2>1, <3>1
    <3> QED
      BY <3>2
  <2> QED
    BY <2>2, <2>3
<1>12. (CHOOSE w \in whole : TRUE) = v
  BY <1>10, <1>11
<1> QED
  BY <1>4, <1>7, <1>8, <1>10, <1>12

\* A file without a doubt holds the version it should, or is not there.
LEMMA FileIs ==
  ASSUME NEW links, NEW m, \A c \in Clusters : links[c] \in m[c],
         NEW blocks, NEW image, NEW doubtful, NEW own, NEW ver, NEW path,
         Files(m, blocks, image, doubtful, own, ver, path), NEW n \in Names \ doubtful
  PROVE  ContentIn(links, blocks, image, n) = IF Homeless(image, n) THEN None ELSE ver[n]
<1>1. CASE Homeless(image, n)
  BY <1>1, HomelessIs DEF ContentIn
<1>2. CASE ~Homeless(image, n)
  <2>1. Find(image, n) # {}
    BY <1>2, HomelessIs
  <2>2. PICK s \in 1 .. DirSlots : IsHome(image, n, s)
    BY <2>1, LeastIs
  <2>3. Holds(s, n, ver[n], path[n], m, blocks, image, own)
    BY <2>2 DEF Files
  <2>4. ContentIn(links, blocks, image, n) = ver[n]
    BY <2>2, <2>3, ContentHeld
  <2> QED
    BY <1>2, <2>4
<1> QED
  BY <1>1, <1>2

\* The versions that the invariant says the files hold, and they do.
Says(links, blocks, image, doubtful, ver) ==
    \A n \in Names \ doubtful :
        ContentIn(links, blocks, image, n) = IF Homeless(image, n) THEN None ELSE ver[n]

\* The witnesses say what the files hold.
LEMMA GhostsSay ==
  ASSUME NEW links, NEW cache, NEW tag, NEW blocks, NEW image, NEW doubtful, NEW errors,
         NEW x, NEW buf, NEW own, NEW p, NEW ver, NEW path,
         Ghosts(May(links, cache, tag), blocks, image, doubtful, errors, x, buf, own, p, ver,
                path)
  PROVE  Says(links, blocks, image, doubtful, ver)
<1>0. PICK m : m = May(links, cache, tag)
  OBVIOUS
<1>1. Files(m, blocks, image, doubtful, own, ver, path)
  BY <1>0 DEF Ghosts
<1>2. \A c \in Clusters : links[c] \in m[c]
  BY <1>0 DEF May
<1>3. ASSUME NEW n \in Names \ doubtful
      PROVE  ContentIn(links, blocks, image, n) = IF Homeless(image, n) THEN None ELSE ver[n]
  BY <1>1, <1>2, FileIs
<1> QED
  BY <1>3 DEF Says

\* What a file holds now.
LEMMA ContentIs ==
  ASSUME NEW own, NEW p, NEW ver, NEW path, Now(own, p, ver, path),
         NEW n \in Names \ suspect
  PROVE  Content(n) = IF Homeless(dir, n) THEN None ELSE ver[n]
<1> PICK links : links = fat[1]
  OBVIOUS
<1>1. Says(links, data, dir, suspect, ver)
  BY GhostsSay DEF Now
<1> QED
  BY <1>1 DEF Says, Content

\* A load returns what the invariant says it has read.
LEMMA SoundLoad ==
  VolumeInv => LoadIsConsistent
<1> SUFFICES ASSUME VolumeInv, At("return"), Top.op = "load", Top.name \notin suspect,
                    Content(Top.name) # None
             PROVE  /\ IsPrefix(Top.got, BlocksOf(Top.name, Content(Top.name)))
                    /\ faults = 0 => Len(Top.got) = Size(Content(Top.name))
  BY DEF LoadIsConsistent
<1>1. Types
  BY DEF VolumeInv
<1>2. PICK own, p, ver, path : Now(own, p, ver, path)
  BY DEF VolumeInv
<1> PICK f : f = Top
  OBVIOUS
<1>3. ops # <<>> /\ f.pc = "return" /\ f = ops[1] /\ f \in Frames
  BY <1>1, TopIs DEF At
<1>4. f.name \in Names \ suspect
  BY <1>3, FrameHas
<1>5. ~Homeless(dir, f.name) /\ Content(f.name) = ver[f.name]
  BY <1>2, <1>4, ContentIs
<1>6. PICK s \in 1 .. DirSlots : IsHome(dir, f.name, s)
  BY <1>5, HomelessIs, LeastIs
<1>7. Loads(f, dir, suspect, sectorBuf, faults, ver, path)
  BY <1>2, <1>3 DEF Now, Ghosts
<1>8. LoadFits(f, sectorBuf, faults, ver[f.name], path[f.name])
  BY <1>3, <1>4, <1>6, <1>7 DEF Loads
<1> PICK v, q : v = ver[f.name] /\ q = path[f.name]
  OBVIOUS
<1>9. v \in Versions
  BY <1>2, <1>4, <1>6 DEF Now, Ghosts, Files, Holds
<1>10. /\ Len(f.got) <= Size(v) /\ \A j \in 1 .. Len(f.got) : f.got[j] = <<f.name, v, j>>
       /\ faults = 0 => Len(f.got) = Size(v)
  BY <1>3, <1>8 DEF LoadFits
<1>11. f.got \in Seq(Blocks)
  BY <1>3, FrameHas
<1>12. IsPrefix(f.got, BlocksOf(f.name, v))
  <2> PICK got, whole : got = f.got /\ whole = BlocksOf(f.name, v)
    OBVIOUS
  <2>1. Size(v) \in Nat /\ whole = [i \in 1 .. Size(v) |-> <<f.name, v, i>>]
    BY <1>9, Numbers DEF BlocksOf
  <2>2. Len(whole) = Size(v)
    BY <2>1
  <2>3. got = [j \in 1 .. Len(got) |-> got[j]] /\ Len(got) \in Nat
    BY <1>11
  <2>4. SubSeq(whole, 1, Len(got)) = [i \in 1 .. Len(got) |-> whole[i]]
    BY <1>10, <2>1, <2>2, <2>3
  <2>5. ASSUME NEW j \in 1 .. Len(got) PROVE whole[j] = got[j]
    <3>1. j \in 1 .. Len(f.got) /\ j \in 1 .. Size(v)
      BY <1>10, <2>1, <2>3
    <3>2. whole[j] = <<f.name, v, j>>
      BY <2>1, <3>1
    <3> QED
      BY <1>10, <3>1, <3>2
  <2>6. got = SubSeq(whole, 1, Len(got))
    BY <2>3, <2>4, <2>5
  <2> QED
    BY <1>10, <2>2, <2>6 DEF IsPrefix
<1> QED
  BY <1>5, <1>10, <1>12

\* A load returns the beginning of one version of the file, and with no failed
\* access all of it.
THEOREM VolumeLoads ==
  ASSUME Orderly
  PROVE  Spec => []LoadIsConsistent
<1>1. Spec => []VolumeInv
  BY VolumeIsSound
<1>2. VolumeInv => LoadIsConsistent
  BY SoundLoad
<1> QED
  BY <1>1, <1>2, PTL

-----------------------------------------------------------------------------
(***************************************************************************)
(* The driver implements SaveSlots.                                        *)
(***************************************************************************)
\* g goes on with the operation of f, and has succeeded if f had.
Carries(g, f) ==
    /\ g.op = f.op /\ g.name = f.name /\ g.ver = f.ver
    /\ f.op = "save" => (g.ret = "ok" <=> f.ret = "ok")

\* The operation goes on when it is over,
LEMMA OverCarries ==
  ASSUME NEW f, NEW g, NEW ret, Over(g, f, ret), f.op = "save" => (ret = "ok" <=> f.ret = "ok")
  PROVE  Carries(g, f)
BY DEF Over, Carries

\* when it gives up,
LEMMA GiveUpCarries ==
  ASSUME NEW f \in Frames, f.ret # "ok"
  PROVE  Carries(GiveUp(f), f)
<1>1. PICK ret \in {"ok", "error"} : ret = "error"
  OBVIOUS
<1>2. PICK c \in {0} \cup Clusters : c = f.first
  BY FrameHas
<1>3. PICK g : g = FreeChain(f, c, ret)
  OBVIOUS
<1>4. Over(g, f, ret)
  BY <1>3, FreeChainIs
<1>5. Carries(g, f)
  BY <1>1, <1>4, OverCarries
<1>6. g = GiveUp(f)
  BY <1>1, <1>2, <1>3 DEF GiveUp
<1> QED
  BY <1>5, <1>6

\* when it returns,
LEMMA ReturnCarries ==
  ASSUME NEW f \in Frames, NEW ret \in {"ok", "error"},
         f.op = "save" => (ret = "ok" <=> f.ret = "ok")
  PROVE  Carries(Return(f, ret), f)
<1>1. PICK g : g = Return(f, ret)
  OBVIOUS
<1>2. Over(g, f, ret)
  BY <1>1, ReturnIs
<1> QED
  BY <1>1, <1>2, OverCarries

\* when it takes the next cluster,
LEMMA NextClusterCarries ==
  ASSUME NEW f \in Frames
  PROVE  Carries(NextCluster(f), f)
<1>1. CASE f.i = Size(f.ver)
  <2>1. NextCluster(f) = [f EXCEPT !.pc = "commit"]
    BY <1>1 DEF NextCluster
  <2> QED
    BY <2>1 DEF Carries, Frames
<1>2. CASE f.i # Size(f.ver)
  <2>1. NextCluster(f) = [f EXCEPT !.pc = "scan", !.cur = 2]
    BY <1>2 DEF NextCluster
  <2> QED
    BY <2>1 DEF Carries, Frames
<1> QED
  BY <1>1, <1>2

\* h has the job of f, and g that of h.
LEMMA CarriesOn ==
  ASSUME NEW f, NEW g, NEW h, Carries(g, h), Carries(h, f)
  PROVE  Carries(g, f)
BY DEF Carries

\* when fat_next_cluster has returned,
LEMMA AfterNextCarries ==
  ASSUME NEW f \in Frames, NEW value \in Links, f.pc \in ReadingFat, f.cur \in Clusters,
         f.pc = "scan" => f.ret = "none", f.pc = "follow" => f.op = "load"
  PROVE  Carries(AfterNext(f, value), f)
<1>0. PICK h : h = [f EXCEPT !.loaded = FALSE]
  OBVIOUS
<1>1. h \in Frames
  BY <1>0 DEF Frames
<1>2. /\ Carries(h, f) /\ h.pc = f.pc /\ h.cur = f.cur /\ h.ret = f.ret /\ h.op = f.op
      /\ h.i = f.i /\ h.size = f.size
  BY <1>0 DEF Frames, Carries
<1>3. PICK g : g = AfterNext(f, value)
  OBVIOUS
<1>4. CASE f.pc = "scan"
  <2>1. g = IF value = Free THEN [h EXCEPT !.pc = "claim"]
            ELSE IF h.cur + 1 \in Clusters THEN [h EXCEPT !.cur = @ + 1]
            ELSE GiveUp(h)
    BY <1>0, <1>2, <1>3, <1>4 DEF AfterNext
  <2>2. CASE value = Free
    <3>1. g = [h EXCEPT !.pc = "claim"]
      BY <2>1, <2>2
    <3>2. Carries(g, h)
      BY <1>1, <3>1 DEF Carries, Frames
    <3> QED
      BY <1>2, <1>3, <3>2, CarriesOn
  <2>3. CASE value # Free /\ h.cur + 1 \in Clusters
    <3>1. g = [h EXCEPT !.cur = @ + 1]
      BY <2>1, <2>3
    <3>2. Carries(g, h)
      BY <1>1, <3>1 DEF Carries, Frames
    <3> QED
      BY <1>2, <1>3, <3>2, CarriesOn
  <2>4. CASE value # Free /\ h.cur + 1 \notin Clusters
    <3>1. g = GiveUp(h)
      BY <2>1, <2>4
    <3>2. Carries(g, h)
      BY <1>1, <1>2, <1>4, <3>1, GiveUpCarries
    <3> QED
      BY <1>2, <1>3, <3>2, CarriesOn
  <2> QED
    BY <2>2, <2>3, <2>4
<1>5. CASE f.pc = "next"
  <2>1. g = [h EXCEPT !.pc = "release", !.nxt = value]
    BY <1>0, <1>2, <1>3, <1>5 DEF AfterNext
  <2>2. Carries(g, h)
    BY <1>1, <2>1 DEF Carries, Frames
  <2> QED
    BY <1>2, <1>3, <2>2, CarriesOn
<1>6. CASE f.pc = "follow"
  <2>1. g = IF h.i < h.size /\ value \in Clusters THEN [h EXCEPT !.pc = "read", !.cur = value]
            ELSE Return(h, "ok")
    BY <1>0, <1>2, <1>3, <1>6 DEF AfterNext
  <2>2. CASE h.i < h.size /\ value \in Clusters
    <3>1. g = [h EXCEPT !.pc = "read", !.cur = value]
      BY <2>1, <2>2
    <3>2. Carries(g, h)
      BY <1>1, <3>1 DEF Carries, Frames
    <3> QED
      BY <1>2, <1>3, <3>2, CarriesOn
  <2>3. CASE ~(h.i < h.size /\ value \in Clusters)
    <3>1. g = Return(h, "ok")
      BY <2>1, <2>3
    <3>2. PICK ret \in {"ok", "error"} : ret = "ok"
      OBVIOUS
    <3>3. Carries(Return(h, ret), h)
      BY <1>1, <1>2, <1>6, ReturnCarries
    <3> QED
      BY <1>2, <1>3, <3>1, <3>2, <3>3, CarriesOn
  <2> QED
    BY <2>2, <2>3
<1> QED
  BY <1>4, <1>5, <1>6 DEF ReadingFat

\* and when fat_set has.
LEMMA AfterSetCarries ==
  ASSUME NEW f \in Frames, NEW ok \in BOOLEAN, f.pc \in SettingFat,
         f.pc \in {"claim", "link"} => f.ret = "none",
         f.pc = "release" => f.ret \in {"ok", "error"}
  PROVE  Carries(AfterSet(f, ok), f)
<1>0. PICK h : h = Returned(f)
  OBVIOUS
<1>1. h \in Frames /\ Alike(h, f) /\ h.pc = f.pc
  BY <1>0, ReturnedIs
<1>2. Carries(h, f) /\ h.ret = f.ret
  BY <1>1 DEF Alike, Carries
<1>3. PICK g : g = AfterSet(f, ok)
  OBVIOUS
<1>4. CASE f.pc = "claim"
  <2>1. g = IF ~ok THEN GiveUp(h)
            ELSE IF h.prev # 0 THEN [h EXCEPT !.pc = "link"]
            ELSE [h EXCEPT !.pc = "fill", !.first = h.cur]
    BY <1>0, <1>1, <1>3, <1>4 DEF AfterSet, Returned
  <2>2. CASE ~ok
    <3>1. g = GiveUp(h)
      BY <2>1, <2>2
    <3>2. Carries(g, h)
      BY <1>1, <1>2, <1>4, <3>1, GiveUpCarries
    <3> QED
      BY <1>2, <1>3, <3>2, CarriesOn
  <2>3. CASE ok /\ h.prev # 0
    <3>1. g = [h EXCEPT !.pc = "link"]
      BY <2>1, <2>3
    <3>2. Carries(g, h)
      BY <1>1, <3>1 DEF Carries, Frames
    <3> QED
      BY <1>2, <1>3, <3>2, CarriesOn
  <2>4. CASE ok /\ h.prev = 0
    <3>1. g = [h EXCEPT !.pc = "fill", !.first = h.cur]
      BY <2>1, <2>4
    <3>2. Carries(g, h)
      BY <1>1, <3>1 DEF Carries, Frames
    <3> QED
      BY <1>2, <1>3, <3>2, CarriesOn
  <2> QED
    BY <2>2, <2>3, <2>4
<1>5. CASE f.pc = "link"
  <2>1. g = [h EXCEPT !.pc = "fill", !.flawed = @ \/ ~ok]
    BY <1>0, <1>1, <1>3, <1>5 DEF AfterSet, Returned
  <2>2. Carries(g, h)
    BY <1>1, <2>1 DEF Carries, Frames
  <2> QED
    BY <1>2, <1>3, <2>2, CarriesOn
<1>6. CASE f.pc = "release"
  <2>1. g = IF h.nxt \in Clusters THEN [h EXCEPT !.pc = "next", !.cur = h.nxt]
            ELSE FreeChain(h, 0, h.ret)
    BY <1>0, <1>1, <1>3, <1>6 DEF AfterSet, Returned
  <2>2. CASE h.nxt \in Clusters
    <3>1. g = [h EXCEPT !.pc = "next", !.cur = h.nxt]
      BY <2>1, <2>2
    <3>2. Carries(g, h)
      BY <1>1, <3>1 DEF Carries, Frames
    <3> QED
      BY <1>2, <1>3, <3>2, CarriesOn
  <2>3. CASE h.nxt \notin Clusters
    <3>1. PICK ret \in {"ok", "error"} : ret = h.ret
      BY <1>2, <1>6
    <3>2. PICK c \in {0} \cup Clusters : c = 0
      OBVIOUS
    <3>3. g = FreeChain(h, c, ret)
      BY <2>1, <2>3, <3>1, <3>2
    <3>4. Over(g, h, ret)
      BY <1>1, <3>3, FreeChainIs
    <3>5. Carries(g, h)
      BY <3>1, <3>4, OverCarries
    <3> QED
      BY <1>2, <1>3, <3>5, CarriesOn
  <2> QED
    BY <2>2, <2>3
<1> QED
  BY <1>4, <1>5, <1>6 DEF SettingFat

\* The disk accesses of an operation, the commit excepted.
Working ==
    \/ Locate \/ FindSlot \/ Patch
    \/ LoadFat \/ NextEntry \/ SetEntry \/ WriteFat
    \/ Fill \/ Write \/ Read \/ Copy \/ Flush

\* Every step inside the driver but the commit goes on with its operation.
LEMMA WorkCarries ==
  ASSUME Types, Working
  PROVE  ops # <<>> /\ \E g : ops' = <<g>> /\ Carries(g, Top)
<1>0. PICK f : f = Top
  OBVIOUS
<1>1. ops # <<>>
  BY DEF Working, Locate, FindSlot, Patch, LoadFat, NextEntry, SetEntry, WriteFat, Fill,
         Write, Read, Copy, Flush, At, UsesFat
<1>2. /\ f \in Frames /\ FrameFits(f, dir, sectorBuf, fatCache, fatCacheLba)
      /\ \A g : Continue(g) => ops' = <<g>>
  BY <1>0, <1>1, TopIs
<1>3. ASSUME NEW g, Continue(g), Carries(g, f)
      PROVE  ops # <<>> /\ \E h : ops' = <<h>> /\ Carries(h, Top)
  BY <1>0, <1>1, <1>2, <1>3
<1>4. f.op = "save" /\ f.pc \in Building => f.ret = "none"
  BY <1>2 DEF FrameFits
<1>5. f.op = "save" \/ f.op = "load"
  BY <1>2, FrameHas
<1>6. f.op = "load" => f.pc \in {"locate", "read", "copy", "follow", "return"}
  BY <1>2 DEF FrameFits
<1>7. PICK good \in {"ok", "error"}, bad \in {"ok", "error"} : good = "ok" /\ bad = "error"
  OBVIOUS
<1>8. \A ret \in {"ok", "error"} :
        (f.op = "save" => (ret = "ok" <=> f.ret = "ok")) => Carries(Return(f, ret), f)
  BY <1>2, ReturnCarries
<1>9. CASE Locate
  <2>1. f.pc = "locate"
    BY <1>0, <1>9 DEF Locate, At
  <2>2. PICK o \in ReadOutcomes :
          LET found == Find(dir, f.name)
              s == Least(found)
          IN  Continue(
                 IF o = "ok" /\ found # {} THEN
                    IF f.op = "save"
                    THEN NextCluster([f EXCEPT !.slot = s, !.old = dir[s].first])
                    ELSE IF dir[s].size > 0 /\ dir[s].first \in Clusters
                    THEN [f EXCEPT !.pc = "read", !.cur = dir[s].first, !.size = dir[s].size]
                    ELSE Return(f, "ok")
                 ELSE IF f.op = "save"
                 THEN [f EXCEPT !.pc = "slot", !.flawed = found # {}]
                 ELSE Return(f, "error"))
    BY <1>0, <1>9 DEF Locate
  <2>3. PICK s : s = Least(Find(dir, f.name))
    OBVIOUS
  <2>4. CASE o = "ok" /\ Find(dir, f.name) # {} /\ f.op = "save"
    <3>1. PICK h : h = [f EXCEPT !.slot = s, !.old = dir[s].first]
      OBVIOUS
    <3>2. Continue(NextCluster(h))
      BY <2>2, <2>3, <2>4, <3>1
    <3>3. s \in 1 .. DirSlots
      BY <2>3, <2>4, LeastIs
    <3>4. s \in 0 .. DirSlots /\ dir[s].first \in {0} \cup Clusters
      BY <3>3, Numbers DEF Types, Directory, Entries
    <3>5. h \in Frames
      BY <1>2, <3>1, <3>4 DEF Frames
    <3>6. Carries(h, f)
      BY <1>2, <3>1 DEF Frames, Carries
    <3>7. Carries(NextCluster(h), f)
      BY <3>5, <3>6, NextClusterCarries, CarriesOn
    <3> QED
      BY <1>3, <3>2, <3>7
  <2>5. CASE o = "ok" /\ Find(dir, f.name) # {} /\ f.op # "save"
    <3>1. CASE dir[s].size > 0 /\ dir[s].first \in Clusters
      <4>1. PICK h : h = [f EXCEPT !.pc = "read", !.cur = dir[s].first, !.size = dir[s].size]
        OBVIOUS
      <4>2. Continue(h)
        BY <2>2, <2>3, <2>5, <3>1, <4>1
      <4>3. Carries(h, f)
        BY <1>2, <2>5, <4>1 DEF Frames, Carries
      <4> QED
        BY <1>3, <4>2, <4>3
    <3>2. CASE ~(dir[s].size > 0 /\ dir[s].first \in Clusters)
      <4>1. Continue(Return(f, "ok"))
        BY <2>2, <2>3, <2>5, <3>2
      <4>2. Carries(Return(f, good), f)
        BY <1>8, <2>5
      <4> QED
        BY <1>3, <1>7, <4>1, <4>2
    <3> QED
      BY <3>1, <3>2
  <2>6. CASE ~(o = "ok" /\ Find(dir, f.name) # {}) /\ f.op = "save"
    <3>1. PICK h : h = [f EXCEPT !.pc = "slot", !.flawed = Find(dir, f.name) # {}]
      OBVIOUS
    <3>2. Continue(h)
      BY <2>2, <2>6, <3>1
    <3>3. Carries(h, f)
      BY <1>2, <3>1 DEF Frames, Carries
    <3> QED
      BY <1>3, <3>2, <3>3
  <2>7. CASE ~(o = "ok" /\ Find(dir, f.name) # {}) /\ f.op # "save"
    <3>1. Continue(Return(f, "error"))
      BY <2>2, <2>7
    <3>2. Carries(Return(f, bad), f)
      BY <1>8, <2>7
    <3> QED
      BY <1>3, <1>7, <3>1, <3>2
  <2> QED
    BY <2>4, <2>5, <2>6, <2>7
<1>10. CASE FindSlot
  <2>1. f.pc = "slot" /\ f.ret = "none"
    BY <1>0, <1>4, <1>5, <1>6, <1>10 DEF FindSlot, At, Building
  <2>2. PICK o \in ReadOutcomes :
          Continue(IF o = "ok" /\ Find(dir, None) # {}
                   THEN NextCluster([f EXCEPT !.slot = Least(Find(dir, None))])
                   ELSE Return(f, "error"))
    BY <1>0, <1>10 DEF FindSlot
  <2>3. CASE o = "ok" /\ Find(dir, None) # {}
    <3>1. PICK s : s = Least(Find(dir, None))
      OBVIOUS
    <3>2. PICK h : h = [f EXCEPT !.slot = s]
      OBVIOUS
    <3>3. Continue(NextCluster(h))
      BY <2>2, <2>3, <3>1, <3>2
    <3>4. s \in 0 .. DirSlots
      BY <2>3, <3>1, LeastIs, Numbers
    <3>5. h \in Frames
      BY <1>2, <3>2, <3>4 DEF Frames
    <3>6. Carries(h, f)
      BY <1>2, <3>2 DEF Frames, Carries
    <3>7. Carries(NextCluster(h), f)
      BY <3>5, <3>6, NextClusterCarries, CarriesOn
    <3> QED
      BY <1>3, <3>3, <3>7
  <2>4. CASE ~(o = "ok" /\ Find(dir, None) # {})
    <3>1. Continue(Return(f, "error"))
      BY <2>2, <2>4
    <3>2. Carries(Return(f, bad), f)
      BY <1>7, <1>8, <2>1
    <3> QED
      BY <1>3, <1>7, <3>1, <3>2
  <2> QED
    BY <2>3, <2>4
<1>11. CASE Patch
  <2>1. f.pc = "commit" /\ f.ret = "none"
    BY <1>0, <1>4, <1>5, <1>6, <1>11 DEF Patch, At, Building, Aimed
  <2>2. Continue([f EXCEPT !.pc = "writeback"]) \/ Continue(GiveUp(f))
    BY <1>0, <1>11 DEF Patch
  <2>3. Carries([f EXCEPT !.pc = "writeback"], f)
    BY <1>2 DEF Frames, Carries
  <2>4. Carries(GiveUp(f), f)
    BY <1>2, <2>1, GiveUpCarries
  <2> QED
    BY <1>3, <2>2, <2>3, <2>4
<1>12. ASSUME f.pc \in ReadingFat \cup SettingFat
       PROVE  /\ f.pc \in ReadingFat =>
                    \A value \in Links : Carries(AfterNext(f, value), f)
              /\ f.pc \in SettingFat => \A ok \in BOOLEAN : Carries(AfterSet(f, ok), f)
  <2>1. /\ f.cur \in Clusters
        /\ \/ f.op = "save" /\ f.pc \in {"scan", "next", "claim", "link", "release"}
           \/ f.op = "load" /\ f.pc = "follow"
    BY <1>2, <1>12, UserIs
  <2>2. f.pc \in {"scan", "claim", "link"} => f.ret = "none"
    BY <1>4, <2>1 DEF Building, Aimed, Allocating
  <2>3. f.pc = "release" => f.ret \in {"ok", "error"}
    BY <1>2 DEF FrameFits
  <2>4. ASSUME f.pc \in ReadingFat, NEW value \in Links PROVE Carries(AfterNext(f, value), f)
    BY <1>2, <2>1, <2>2, <2>4, AfterNextCarries DEF ReadingFat
  <2>5. ASSUME f.pc \in SettingFat, NEW ok \in BOOLEAN PROVE Carries(AfterSet(f, ok), f)
    BY <1>2, <2>2, <2>3, <2>5, AfterSetCarries DEF SettingFat
  <2> QED
    BY <2>4, <2>5
<1>13. PICK eoc \in Links, yes \in BOOLEAN, no \in BOOLEAN : eoc = Eoc /\ yes = TRUE /\ no = FALSE
  BY DEF Links
<1>14. CASE LoadFat
  <2>1. f.pc \in ReadingFat \cup SettingFat
    BY <1>0, <1>14 DEF LoadFat, UsesFat
  <2>2. \/ Continue([f EXCEPT !.loaded = TRUE])
        \/ Continue(IF f.pc \in ReadingFat THEN AfterNext(f, Eoc) ELSE AfterSet(f, FALSE))
    BY <1>0, <1>14 DEF LoadFat
  <2>3. Carries([f EXCEPT !.loaded = TRUE], f)
    BY <1>2 DEF Frames, Carries
  <2>4. f.pc \in ReadingFat => Carries(AfterNext(f, eoc), f)
    BY <1>12, <2>1
  <2>5. f.pc \notin ReadingFat => Carries(AfterSet(f, no), f)
    BY <1>12, <2>1
  <2> QED
    BY <1>3, <1>13, <2>2, <2>3, <2>4, <2>5
<1>15. CASE NextEntry
  <2>1. f.pc \in ReadingFat /\ Continue(AfterNext(f, fatCache[Target(f)]))
    BY <1>0, <1>15 DEF NextEntry
  <2>2. Target(f) \in Clusters
    BY <1>2, <2>1, UserIs
  <2>3. PICK value : value = fatCache[Target(f)]
    OBVIOUS
  <2>4. value \in Links
    BY <2>2, <2>3 DEF Types
  <2>5. Carries(AfterNext(f, value), f)
    BY <1>12, <2>1, <2>4
  <2> QED
    BY <1>3, <2>1, <2>3, <2>5
<1>16. CASE SetEntry
  <2>1. Continue([f EXCEPT !.mirror = 1])
    BY <1>0, <1>16 DEF SetEntry
  <2>2. Carries([f EXCEPT !.mirror = 1], f)
    BY <1>2 DEF Frames, Carries
  <2> QED
    BY <1>3, <2>1, <2>2
<1>17. CASE WriteFat
  <2>1. f.mirror > 0
    BY <1>0, <1>17 DEF WriteFat
  <2>2. f.pc \in SettingFat
    BY <1>2, <2>1 DEF FrameFits
  <2>3. \/ Continue([f EXCEPT !.mirror = @ + 1])
        \/ Continue(AfterSet(f, TRUE)) \/ Continue(AfterSet(f, FALSE))
    <3>1. PICK o \in WriteOutcomes :
            Continue(IF o = "ok" /\ f.mirror < NumFats THEN [f EXCEPT !.mirror = @ + 1]
                     ELSE AfterSet(f, o = "ok"))
      BY <1>0, <1>17 DEF WriteFat
    <3>2. CASE o = "ok" /\ f.mirror < NumFats
      BY <3>1, <3>2
    <3>3. CASE o = "ok" /\ ~(f.mirror < NumFats)
      <4>1. Continue(AfterSet(f, o = "ok"))
        BY <3>1, <3>3
      <4>2. (o = "ok") = TRUE
        BY <3>3
      <4> QED
        BY <4>1, <4>2
    <3>4. CASE o # "ok"
      <4>1. Continue(AfterSet(f, o = "ok"))
        BY <3>1, <3>4
      <4>2. (o = "ok") = FALSE
        BY <3>4
      <4> QED
        BY <4>1, <4>2
    <3> QED
      BY <3>2, <3>3, <3>4
  <2>4. Carries([f EXCEPT !.mirror = @ + 1], f)
    BY <1>2 DEF Frames, Carries
  <2>5. Carries(AfterSet(f, yes), f) /\ Carries(AfterSet(f, no), f)
    BY <1>12, <2>2
  <2> QED
    BY <1>3, <1>13, <2>3, <2>4, <2>5
<1>18. CASE Fill
  <2>1. Continue([f EXCEPT !.pc = "write"])
    BY <1>0, <1>18 DEF Fill
  <2>2. Carries([f EXCEPT !.pc = "write"], f)
    BY <1>2 DEF Frames, Carries
  <2> QED
    BY <1>3, <2>1, <2>2
<1>19. CASE Write
  <2>1. f.pc = "write"
    BY <1>0, <1>19 DEF Write, At
  <2>2. f.ret = "none"
    BY <1>4, <1>5, <1>6, <2>1 DEF Building, Aimed, Allocating
  <2>3. PICK h : h = [f EXCEPT !.i = @ + 1, !.prev = f.cur]
    OBVIOUS
  <2>4. Continue(NextCluster(h)) \/ Continue(GiveUp(f))
    BY <1>0, <1>19, <2>3 DEF Write
  <2>5. h \in Frames /\ Carries(h, f)
    <3>1. f.cur \in {0} \cup Clusters /\ f.i \in Nat /\ f.i + 1 \in Nat
      BY <1>2, <2>1, FrameHas DEF FrameFits
    <3>2. h \in Frames
      BY <1>2, <2>3, <3>1 DEF Frames
    <3>3. h.op = f.op /\ h.name = f.name /\ h.ver = f.ver /\ h.ret = f.ret
      BY <1>2, <2>3 DEF Frames
    <3> QED
      BY <3>2, <3>3 DEF Carries
  <2>6. Carries(NextCluster(h), f)
    BY <2>5, NextClusterCarries, CarriesOn
  <2>7. Carries(GiveUp(f), f)
    BY <1>2, <2>2, GiveUpCarries
  <2> QED
    BY <1>3, <2>4, <2>6, <2>7
<1>20. CASE Read
  <2>1. f.op = "load"
    BY <1>0, <1>2, <1>5, <1>20 DEF Read, At, FrameFits
  <2>2. Continue([f EXCEPT !.pc = "copy"]) \/ Continue(Return(f, "ok"))
    BY <1>0, <1>20 DEF Read
  <2>3. Carries([f EXCEPT !.pc = "copy"], f)
    BY <1>2 DEF Frames, Carries
  <2>4. Carries(Return(f, good), f)
    BY <1>8, <2>1
  <2> QED
    BY <1>3, <1>7, <2>2, <2>3, <2>4
<1>21. CASE Copy
  <2>1. PICK block : block = IF sectorBuf.kind = "block" THEN sectorBuf.image ELSE Torn
    OBVIOUS
  <2>2. PICK h : h = [f EXCEPT !.pc = "follow", !.i = @ + 1, !.got = Append(@, block)]
    OBVIOUS
  <2>3. Continue(h)
    BY <1>0, <1>21, <2>1, <2>2 DEF Copy
  <2>4. Carries(h, f)
    BY <1>2, <2>2 DEF Frames, Carries
  <2> QED
    BY <1>3, <2>3, <2>4
<1>22. CASE Flush
  <2>1. f.ret = "ok" /\ Continue(Return(f, f.ret))
    BY <1>0, <1>2, <1>22 DEF Flush, At, FrameFits
  <2>2. Carries(Return(f, good), f)
    BY <1>7, <1>8, <2>1
  <2> QED
    BY <1>3, <1>7, <2>1, <2>2
<1> QED
  BY <1>9, <1>10, <1>11, <1>14, <1>15, <1>16, <1>17, <1>18, <1>19, <1>20, <1>21, <1>22
     DEF Working

\* What an operation in flight is to SaveSlots.
SavingOf(x) ==
    IF x = <<>> \/ x[1].op = "load" THEN None
    ELSE [name |-> x[1].name, ver |-> x[1].ver, committed |-> x[1].ret = "ok"]

\* It is the same save that goes on.
LEMMA SavingCarried ==
  ASSUME NEW f, NEW g, f.op \in {"save", "load"}, Carries(g, f)
  PROVE  SavingOf(<<g>>) = SavingOf(<<f>>)
<1>1. <<g>> # <<>> /\ <<f>> # <<>> /\ <<g>>[1] = g /\ <<f>>[1] = f
  OBVIOUS
<1>2. CASE f.op = "load"
  BY <1>1, <1>2 DEF SavingOf, Carries
<1>3. CASE f.op = "save"
  <2>1. g.op = f.op /\ g.name = f.name /\ g.ver = f.ver /\ (g.ret = "ok") = (f.ret = "ok")
    BY <1>3 DEF Carries
  <2> QED
    BY <1>1, <2>1, <1>3 DEF SavingOf
<1> QED
  BY <1>2, <1>3

\* What SaveSlots sees of the operation in flight,
LEMMA SavingIs ==
  ASSUME Types
  PROVE  saving = SavingOf(ops)
<1>1. CASE ops = <<>>
  BY <1>1 DEF saving, SavingOf
<1>2. CASE ops # <<>>
  BY <1>2, TopIs DEF saving, SavingOf
<1> QED
  BY <1>1, <1>2

\* and after a step.
LEMMA SavingIsNext ==
  ASSUME Types'
  PROVE  saving' = SavingOf(ops')
<1>1. CASE ops' = <<>>
  BY <1>1 DEF saving, SavingOf
<1>2. CASE ops' # <<>>
  <2>1. ops' = <<ops'[1]>>
    BY <1>2 DEF Types
  <2>2. Len(ops') = 1
    BY <2>1
  <2>3. Top' = ops'[1]
    BY <2>2 DEF Top
  <2> QED
    BY <1>2, <2>3 DEF saving, SavingOf
<1> QED
  BY <1>1, <1>2

\* Where no sector is written, no file changes.
LEMMA SameMedium ==
  ASSUME UNCHANGED <<fat, data, dir>>
  PROVE  content' = content
BY DEF content, Content

\* Where the directory stays, the sound files stay.
LEMMA SameVersions ==
  ASSUME NEW own, NEW p, NEW ver, NEW path, Now(own, p, ver, path),
         NEW own2, NEW p2, Now(own2, p2, ver, path)', UNCHANGED <<dir, suspect>>
  PROVE  \A n \in Names \ suspect : content'[n] = content[n]
<1> PICK links, links2 : links = fat[1] /\ links2 = fat'[1]
  OBVIOUS
<1>1. Says(links, data, dir, suspect, ver)
  BY GhostsSay DEF Now
<1>2. Says(links2, data', dir, suspect, ver)
  BY GhostsSay DEF Now
<1>3. \A n \in Names : content[n] = ContentIn(links, data, dir, n)
                       /\ content'[n] = ContentIn(links2, data', dir, n)
  BY DEF content, Content
<1> QED
  BY <1>1, <1>2, <1>3 DEF Says

\* What a file may read back as.
LEMMA ContentRange ==
  ASSUME NEW links, NEW blocks, NEW image, NEW n
  PROVE  ContentIn(links, blocks, image, n) \in Versions \cup {None, Torn}
<1> DEFINE entry == image[Least(Find(image, n))]
           chain == Walk(links, entry.first, entry.size)
           read == [i \in 1 .. Len(chain) |-> blocks[chain[i]]]
           whole == {v \in Versions : entry.size = Size(v) /\ read = BlocksOf(n, v)}
<1>1. ContentIn(links, blocks, image, n) =
        IF Find(image, n) = {} THEN None
        ELSE IF whole = {} \/ \E i \in 1 .. Len(chain) : links[chain[i]] = Free
             THEN Torn ELSE CHOOSE v \in whole : TRUE
  BY DEF ContentIn
<1>2. whole \subseteq Versions
  OBVIOUS
<1> HIDE DEF whole
<1>3. ASSUME whole # {} PROVE (CHOOSE v \in whole : TRUE) \in Versions
  BY <1>2, <1>3
<1> QED
  BY <1>1, <1>3

\* An entry that is not the file's has no say in what it holds.
LEMMA ContentElsewhere ==
  ASSUME NEW links, NEW blocks, NEW image, NEW image2, NEW s \in 1 .. DirSlots, NEW n,
         \A t \in 1 .. DirSlots : t # s => image2[t] = image[t],
         image[s].name # n, image2[s].name # n
  PROVE  ContentIn(links, blocks, image2, n) = ContentIn(links, blocks, image, n)
<1>1. Find(image2, n) = Find(image, n)
  BY DEF Find
<1>2. CASE Find(image, n) = {}
  BY <1>1, <1>2 DEF ContentIn
<1>3. CASE Find(image, n) # {}
  <2>1. PICK t : t = Least(Find(image, n))
    OBVIOUS
  <2>2. t \in 1 .. DirSlots /\ image[t].name = n
    BY <1>3, <2>1, LeastIs DEF IsHome
  <2>3. image2[Least(Find(image2, n))] = image[Least(Find(image, n))]
    BY <1>1, <2>1, <2>2
  <2> QED
    BY <1>1, <2>3 DEF ContentIn
<1> QED
  BY <1>2, <1>3

\* Writeback is Commit, or leaves everything as it was.
LEMMA CommitImplements ==
  ASSUME Orderly, Types, NEW own, NEW p, NEW ver, NEW path, Now(own, p, ver, path), Writeback
  PROVE  Slots!Commit \/ UNCHANGED Slots!vars
<1>0. PICK f : f = Top
  OBVIOUS
<1>1. ops # <<>> /\ f.pc = "writeback"
  BY <1>0 DEF Writeback, At
<1>2. /\ f \in Frames /\ FrameFits(f, dir, sectorBuf, fatCache, fatCacheLba)
      /\ ops = <<f>> /\ \A g : Continue(g) => ops' = <<g>>
  BY <1>0, <1>1, TopIs
<1>3. f.op = "save" /\ f.ret = "none" /\ f.name \in Names /\ f.ver \in Versions
      /\ sectorBuf.kind = "dir"
      /\ sectorBuf.image = [dir EXCEPT ![f.slot] =
                    [name |-> f.name, first |-> f.first, size |-> Size(f.ver)]]
  BY <1>1, <1>2, FrameHas DEF FrameFits, Building, Aimed
<1>4. Aims(f, dir)
  <2>1. PICK m : m = May(fat[1], fatCache, Tag(ops, fatCacheLba))
    OBVIOUS
  <2>2. SaveFits(f, m, data, dir, own, p)
    BY <1>0, <1>1, <1>3, <2>1, NowIs
  <2> QED
    BY <1>1, <2>2 DEF SaveFits, Aimed
<1>5. UNCHANGED <<fat, data>> /\ dir \in Directory
  BY DEF Writeback, Types
<1>6. PICK o \in WriteOutcomes :
        /\ Account(o)
        /\ dir' = IF o = "lost" THEN dir ELSE sectorBuf.image
        /\ Continue(IF o = "ok" THEN FreeChain(f, f.old, "ok") ELSE GiveUp(f))
        /\ suspect' = IF o = "lost" THEN suspect
                      ELSE IF o = "late" \/ f.flawed THEN suspect \cup {f.name}
                      ELSE suspect \ {f.name}
  BY <1>0, <1>3 DEF Writeback
<1>7. o \in {"ok", "lost"}
  BY <1>6, Outcome
<1>8. Types' /\ \E own2, ver2, path2 :
            Now(own2, p, ver2, path2)' /\ (ops'[1].ret = "ok" => ver2[Top.name] = Top.ver)
  BY StepWriteback
<1>9. saving = SavingOf(ops) /\ saving' = SavingOf(ops')
  BY <1>8, SavingIs, SavingIsNext
<1>10. CASE o = "lost"
  <2>1. PICK g : g = GiveUp(f)
    OBVIOUS
  <2>2. ops' = <<g>> /\ dir' = dir /\ suspect' = suspect
    BY <1>2, <1>6, <1>10, <2>1
  <2>3. Carries(g, f)
    BY <1>2, <1>3, <2>1, GiveUpCarries
  <2>4. saving' = saving
    BY <1>2, <1>3, <1>9, <2>2, <2>3, SavingCarried
  <2>5. content' = content
    BY <1>5, <2>2, SameMedium
  <2> QED
    BY <2>2, <2>4, <2>5 DEF Slots!vars
<1>11. CASE o = "ok"
  <2>1. PICK n, v, s : n = f.name /\ v = f.ver /\ s = f.slot
    OBVIOUS
  <2>2. PICK ret \in {"ok", "error"}, c \in {0} \cup Clusters : ret = "ok" /\ c = f.old
    BY <1>2, FrameHas
  <2>3. PICK g : g = FreeChain(f, c, ret)
    OBVIOUS
  <2>4. ops' = <<g>>
    BY <1>2, <1>6, <1>11, <2>2, <2>3
  <2>5. g.op = "save" /\ g.name = n /\ g.ver = v /\ g.ret = "ok"
    <3>1. Over(g, f, ret)
      BY <1>2, <2>3, FreeChainIs
    <3> QED
      BY <1>3, <2>1, <2>2, <3>1 DEF Over
  <2>6. saving = [name |-> n, ver |-> v, committed |-> FALSE]
    BY <1>2, <1>3, <1>9, <2>1 DEF SavingOf
  <2>7. saving' = [name |-> n, ver |-> v, committed |-> TRUE]
    BY <1>9, <2>4, <2>5 DEF SavingOf
  <2>8. n \in Names /\ v \in Versions /\ s \in 1 .. DirSlots
        /\ dir[s].name \in {n, None}
    BY <1>3, <1>4, <2>1 DEF Aims, IsHome
  <2>9. /\ dir' = [dir EXCEPT ![s] = [name |-> n, first |-> f.first, size |-> Size(v)]]
        /\ suspect' = IF f.flawed THEN suspect \cup {n} ELSE suspect \ {n}
    BY <1>3, <1>6, <1>11, <2>1
  <2>10. dir'[s].name = n /\ \A t \in 1 .. DirSlots : t # s => dir'[t] = dir[t]
    BY <1>5, <2>8, <2>9 DEF Directory
  <2>11. PICK links, image2 : links = fat[1] /\ image2 = dir'
    OBVIOUS
  <2>12. \A k \in Names : /\ content[k] = ContentIn(links, data, dir, k)
                          /\ content'[k] = ContentIn(links, data, image2, k)
    BY <1>5, <2>11 DEF content, Content
  <2>13. ASSUME NEW k \in Names, k # n PROVE content'[k] = content[k]
    <3>1. dir[s].name # k /\ image2[s].name # k
      BY <2>8, <2>10, <2>11, <2>13, GeometryAssumption
    <3>2. \A t \in 1 .. DirSlots : t # s => image2[t] = dir[t]
      BY <2>10, <2>11
    <3>3. ContentIn(links, data, image2, k) = ContentIn(links, data, dir, k)
      BY <2>8, <3>1, <3>2, ContentElsewhere
    <3> QED
      BY <2>12, <3>3
  <2>14. PICK x : x = content'[n]
    OBVIOUS
  <2>15. x \in Versions \cup {None, Torn}
    BY <2>8, <2>12, <2>14, ContentRange
  <2>16. content' = [content EXCEPT ![n] = x]
    <3>1. content = [k \in Names |-> content[k]] /\ content' = [k \in Names |-> content'[k]]
      BY DEF content
    <3>2. PICK before, after : before = content /\ after = content'
      OBVIOUS
    <3>3. before = [k \in Names |-> before[k]] /\ after = [k \in Names |-> after[k]]
      BY <3>1, <3>2
    <3>4. \A k \in Names : after[k] = IF k = n THEN x ELSE before[k]
      BY <2>13, <2>14, <3>2
    <3>5. after = [before EXCEPT ![n] = x]
      BY <3>3, <3>4
    <3> QED
      BY <3>2, <3>5
  <2>17. ASSUME ~f.flawed PROVE x = v
    <3>1. PICK own2, ver2, path2 :
            Now(own2, p, ver2, path2)' /\ (ops'[1].ret = "ok" => ver2[Top.name] = Top.ver)
      BY <1>8
    <3>2. ver2[n] = v
      BY <1>0, <2>1, <2>4, <2>5, <3>1
    <3>3. Says(fat'[1], data', dir', suspect', ver2)
      BY <3>1, GhostsSay DEF Now
    <3>4. n \in Names \ suspect'
      BY <2>8, <2>9, <2>17
    <3>5. Says(links, data, image2, suspect', ver2)
      BY <1>5, <2>11, <3>3
    <3>6. ~Homeless(image2, n)
      BY <2>8, <2>10, <2>11 DEF Homeless
    <3>7. ContentIn(links, data, image2, n) = v
      BY <3>2, <3>4, <3>5, <3>6 DEF Says
    <3> QED
      BY <2>8, <2>12, <2>14, <3>7
  <2>18. f.flawed \in BOOLEAN
    BY <1>2, FrameHas
  <2>19. PICK no \in BOOLEAN, yes \in BOOLEAN : no = FALSE /\ yes = TRUE
    OBVIOUS
  <2>20. PICK s1, s2 : s1 = saving /\ s2 = saving'
    OBVIOUS
  <2>21. /\ s1 # None /\ ~s1.committed /\ s2 = [s1 EXCEPT !.committed = TRUE]
         /\ s1.name = n /\ s1.ver = v
    <3>1. /\ s1 = [name |-> n, ver |-> v, committed |-> no]
          /\ s2 = [name |-> n, ver |-> v, committed |-> yes]
      BY <2>6, <2>7, <2>19, <2>20
    <3>2. s1 \in [name : Names, ver : Versions, committed : BOOLEAN]
      BY <2>8, <3>1
    <3>3. s1 # None
      BY <3>2, GeometryAssumption
    <3>4. s2 = [s1 EXCEPT !.committed = yes]
      BY <3>1
    <3>5. s1.name = n /\ s1.ver = v /\ ~s1.committed
      BY <2>19, <3>1
    <3> QED
      BY <2>19, <3>3, <3>4, <3>5
  <2>22. CASE f.flawed
    <3>1. suspect' = suspect \cup {n}
      BY <2>9, <2>22
    <3> QED
      BY <2>15, <2>16, <2>20, <2>21, <3>1 DEF Slots!Commit
  <2>23. CASE ~f.flawed
    <3>1. suspect' = suspect \ {n} /\ content' = [content EXCEPT ![n] = v]
      BY <2>9, <2>16, <2>17, <2>23
    <3> QED
      BY <2>20, <2>21, <3>1 DEF Slots!Commit
  <2> QED
    BY <2>18, <2>22, <2>23
<1> QED
  BY <1>7, <1>10, <1>11

\* The other disk accesses stutter, or touch only files in doubt.
LEMMA WorkImplements ==
  ASSUME Orderly, VolumeInv, VolumeInv', Working
  PROVE  [Slots!Next]_(Slots!vars)
<1>1. Types /\ Types'
  BY DEF VolumeInv
<1>2. PICK own, p, ver, path : Now(own, p, ver, path)
  BY DEF VolumeInv
<1>3. PICK f : f = Top
  OBVIOUS
<1>4. PICK g : ops # <<>> /\ ops' = <<g>> /\ Carries(g, f)
  BY <1>1, <1>3, WorkCarries
<1>5. ops = <<f>> /\ f.op \in {"save", "load"}
  BY <1>1, <1>3, <1>4, TopIs, FrameHas
<1>6. saving' = saving
  BY <1>1, <1>4, <1>5, SavingCarried, SavingIs, SavingIsNext
<1>7. suspect' = suspect
  BY DEF Working, Locate, FindSlot, Patch, LoadFat, NextEntry, SetEntry, WriteFat, Fill,
         Write, Read, Copy, Flush
<1>8. CASE UNCHANGED <<fat, data, dir>>
  <2>1. content' = content
    BY <1>8, SameMedium
  <2> QED
    BY <1>6, <1>7, <2>1 DEF Slots!vars
<1>9. ASSUME NEW own2, NEW p2, Now(own2, p2, ver, path)', dir' = dir
      PROVE  [Slots!Next]_(Slots!vars)
  <2>1. \A n \in Names \ suspect : content'[n] = content[n]
    BY <1>2, <1>7, <1>9, SameVersions
  <2>2. Slots!Drift
    BY <1>6, <1>7, <2>1 DEF Slots!Drift
  <2> QED
    BY <2>2 DEF Slots!Next
<1>10. CASE Write
  <2>1. Now(own, p, ver, path)' /\ dir' = dir
    BY <1>1, <1>2, <1>10, StepWrite DEF Write
  <2> QED
    BY <1>9, <2>1
<1>11. CASE WriteFat
  <2>1. (\E own2, p2 : Now(own2, p2, ver, path)') /\ dir' = dir
    BY <1>1, <1>2, <1>11, StepWriteFat DEF WriteFat
  <2> QED
    BY <1>9, <2>1
<1>12. Write \/ WriteFat \/ UNCHANGED <<fat, data, dir>>
  BY DEF Working, Locate, FindSlot, Patch, LoadFat, NextEntry, SetEntry, Fill, Read, Copy,
         Flush, disk
<1> QED
  BY <1>8, <1>10, <1>11, <1>12

\* BeginSave is Begin; a load is none of SaveSlots' business.
LEMMA EntersImplement ==
  ASSUME Orderly, VolumeInv, VolumeInv',
         NEW n \in Names, NEW v, (v \in Versions /\ BeginSave(n, v)) \/ BeginLoad(n)
  PROVE  [Slots!Next]_(Slots!vars)
<1>1. Types /\ Types' /\ saving = SavingOf(ops) /\ saving' = SavingOf(ops')
  BY SavingIs, SavingIsNext DEF VolumeInv
<1>2. UNCHANGED <<fat, data, dir, suspect>>
  BY DEF BeginSave, BeginLoad, disk
<1>3. content' = content
  BY <1>2, SameMedium
<1>4. Len(ops) < 1
  BY DEF BeginSave, BeginLoad, Orderly
<1>5. ops = <<>>
  BY <1>1, <1>4, TopIs
<1>6. saving = None
  BY <1>1, <1>5 DEF SavingOf
<1>7. CASE v \in Versions /\ BeginSave(n, v)
  <2>1. PICK g : g = NewFrame("save", n, v)
    OBVIOUS
  <2>2. ops' = <<g>>
    BY <1>5, <1>7, <2>1 DEF BeginSave
  <2>3. g.op = "save" /\ g.name = n /\ g.ver = v /\ g.ret = "none"
    BY <2>1 DEF NewFrame
  <2>4. saving' = [name |-> n, ver |-> v, committed |-> FALSE]
    BY <1>1, <2>2, <2>3 DEF SavingOf
  <2>5. Slots!Begin(n, v)
    BY <1>2, <1>3, <1>6, <2>4 DEF Slots!Begin
  <2> QED
    BY <1>7, <2>5 DEF Slots!Next
<1>8. CASE BeginLoad(n)
  <2>1. PICK g : g = NewFrame("load", n, None)
    OBVIOUS
  <2>2. ops' = <<g>>
    BY <1>5, <1>8, <2>1 DEF BeginLoad
  <2>3. g.op = "load"
    BY <2>1 DEF NewFrame
  <2>4. saving' = None
    BY <1>1, <2>2, <2>3 DEF SavingOf
  <2> QED
    BY <1>2, <1>3, <1>6, <2>4 DEF Slots!vars
<1> QED
  BY <1>7, <1>8

\* Leave is Succeed or Fail, as fat32_save returns 0 or not.
LEMMA LeaveImplements ==
  ASSUME Orderly, VolumeInv, VolumeInv', Leave
  PROVE  [Slots!Next]_(Slots!vars)
<1>1. Types /\ Types' /\ saving = SavingOf(ops) /\ saving' = SavingOf(ops')
  BY SavingIs, SavingIsNext DEF VolumeInv
<1>2. UNCHANGED <<fat, data, dir, suspect>>
  BY DEF Leave, disk
<1>3. content' = content
  BY <1>2, SameMedium
<1>4. PICK f : f = Top
  OBVIOUS
<1>5. /\ ops = <<f>> /\ f \in Frames /\ f.pc = "return"
      /\ FrameFits(f, dir, sectorBuf, fatCache, fatCacheLba)
  BY <1>1, <1>4, TopIs DEF Leave, At
<1>6. ops' = <<>>
  BY <1>5 DEF Leave, Front
<1>7. saving' = None
  BY <1>1, <1>6 DEF SavingOf
<1>8. f.op \in {"save", "load"}
  BY <1>5, FrameHas
<1>9. CASE f.op = "load"
  <2>1. saving = None
    BY <1>1, <1>5, <1>9 DEF SavingOf
  <2> QED
    BY <1>2, <1>3, <1>7, <2>1 DEF Slots!vars
<1>10. CASE f.op = "save"
  <2>1. PICK told \in BOOLEAN : told = (f.ret = "ok")
    OBVIOUS
  <2>2. PICK s1 : s1 = saving
    OBVIOUS
  <2>3. s1 = [name |-> f.name, ver |-> f.ver, committed |-> told]
    BY <1>1, <1>5, <1>10, <2>1, <2>2 DEF SavingOf
  <2>4. f.name \in Names /\ f.ver \in Versions
    BY <1>5, <1>10, FrameHas DEF FrameFits
  <2>5. s1 \in [name : Names, ver : Versions, committed : BOOLEAN] /\ s1.committed = told
    BY <2>3, <2>4
  <2>6. s1 # None
    BY <2>5, GeometryAssumption
  <2>7. Slots!Succeed \/ Slots!Fail
    BY <1>2, <1>3, <1>7, <2>2, <2>5, <2>6 DEF Slots!Succeed, Slots!Fail
  <2> QED
    BY <2>7 DEF Slots!Next
<1> QED
  BY <1>8, <1>9, <1>10

\* A power cut is one.
LEMMA CutImplements ==
  ASSUME Orderly, VolumeInv, VolumeInv', PowerCut
  PROVE  [Slots!Next]_(Slots!vars)
<1>1. UNCHANGED <<fat, data, dir, suspect>>
  BY PowerCutKeeps DEF VolumeInv
<1>2. content' = content
  BY <1>1, SameMedium
<1>3. saving' = None
  <2>1. ops' = <<>>
    BY DEF PowerCut
  <2> QED
    BY <2>1, SavingIsNext DEF VolumeInv, SavingOf
<1>4. Slots!PowerCut
  BY <1>1, <1>2, <1>3 DEF Slots!PowerCut
<1> QED
  BY <1>4 DEF Slots!Next

\* Every step is one of SaveSlots or a stutter.
LEMMA StepImplements ==
  ASSUME Orderly, VolumeInv, VolumeInv', [Next]_vars
  PROVE  [Slots!Next]_(Slots!vars)
<1>1. CASE UNCHANGED vars
  <2>1. UNCHANGED <<fat, data, dir, ops, suspect>>
    BY <1>1 DEF vars, disk
  <2>2. content' = content
    BY <2>1, SameMedium
  <2>3. saving' = saving
    BY <2>1, SavingIs, SavingIsNext DEF VolumeInv
  <2> QED
    BY <2>1, <2>2, <2>3 DEF Slots!vars
<1>2. ASSUME NEW n \in Names, NEW v \in Versions, BeginSave(n, v)
      PROVE  [Slots!Next]_(Slots!vars)
  BY <1>2, EntersImplement
<1>3. ASSUME NEW n \in Names, BeginLoad(n) PROVE [Slots!Next]_(Slots!vars)
  <2> PICK v : v = None
    OBVIOUS
  <2> QED
    BY <1>3, EntersImplement
<1>4. CASE Leave
  BY <1>4, LeaveImplements
<1>5. CASE Writeback
  <2>1. PICK own, p, ver, path : Now(own, p, ver, path)
    BY DEF VolumeInv
  <2>2. Slots!Commit \/ UNCHANGED Slots!vars
    BY <1>5, <2>1, CommitImplements DEF VolumeInv
  <2> QED
    BY <2>2 DEF Slots!Next
<1>6. CASE Working
  BY <1>6, WorkImplements
<1>7. CASE PowerCut
  BY <1>7, CutImplements
<1> QED
  BY <1>1, <1>2, <1>3, <1>4, <1>5, <1>6, <1>7 DEF Next, Working

\* A formatted volume holds no file.
LEMMA InitImplements ==
  ASSUME Init
  PROVE  Slots!Init
<1>1. saving = None /\ suspect = {}
  BY DEF Init, saving
<1>2. PICK links : links = fat[1]
  OBVIOUS
<1>3. ASSUME NEW n \in Names PROVE Content(n) = None
  <2>1. \A s \in 1 .. DirSlots : dir[s].name = None
    BY DEF Init, EmptyEntry
  <2>2. Homeless(dir, n)
    BY <2>1, GeometryAssumption DEF Homeless
  <2> QED
    BY <2>2, HomelessIs DEF Content, ContentIn
<1>4. content = [n \in Names |-> None]
  BY <1>3 DEF content
<1> QED
  BY <1>1, <1>4 DEF Slots!Init

\* fat32_save replaces a file as a whole or not at all, and says which: the
\* driver implements SaveSlots.
THEOREM VolumeReplacesWhole ==
  ASSUME Orderly
  PROVE  Spec => SaveReplacesWhole
<1>1. Init => Slots!Init
  BY InitImplements
<1>2. VolumeInv /\ VolumeInv' /\ [Next]_vars => [Slots!Next]_(Slots!vars)
  BY StepImplements
<1>3. Spec => []VolumeInv
  BY VolumeIsSound
<1> QED
  BY <1>1, <1>2, <1>3, PTL DEF Spec, SaveReplacesWhole, Slots!Spec

-----------------------------------------------------------------------------
(***************************************************************************)
(* What an interrupted save leaks.                                         *)
(***************************************************************************)
\* Some version is the largest, and its clusters are counted.
SomeLargest == \E v \in Versions : \A u \in Versions : Size(u) <= Size(v)
Largest == CHOOSE m \in {Size(v) : v \in Versions} : \A v \in Versions : Size(v) <= m

\* A list of clusters, none twice and no more than a file has, that links in m
\* lead along from the k-th on.
List(q) ==
    /\ q \in Seq(Clusters) /\ Len(q) <= Largest
    /\ \A i, j \in 1 .. Len(q) : q[i] = q[j] => i = j
Leads(q, k, m) == \A j \in 1 .. Len(q) - 1 : k <= j => m[q[j]] \subseteq {q[j + 1]}
Listed(c, q) == \E j \in 1 .. Len(q) : q[j] = c

\* ch[s] are the clusters that the chain of entry s begins with.
Chain(q, s, m, image, own) ==
    /\ List(q) /\ Leads(q, 1, m) /\ \A j \in 1 .. Len(q) : own[q[j]] = s
    /\ q # <<>> => image[s].name \in Names /\ image[s].first = q[1]
Charted(ch, m, image, own) == \A s \in 1 .. DirSlots : Chain(ch[s], s, m, image, own)

\* w are the clusters that the save has still to free.
Trails(w, x, m) ==
    /\ List(w)
    /\ w # <<>> =>
        /\ x # <<>> /\ x[1].op = "save" /\ x[1].pc \in {"next", "release"} /\ x[1].cur = w[1]
        /\ x[1].pc = "next" => Leads(w, 1, m)
        /\ x[1].pc = "release" => Leads(w, 2, m) /\ (Len(w) > 1 => x[1].nxt = w[2])

\* A save up to its commit, what it has taken or is taking, and whether it
\* goes on after a failed access.
Builds(x) == x # <<>> /\ x[1].op = "save" /\ x[1].pc \in Building
Busy(x, own) ==
    {c \in Clusters : Builds(x) /\ (own[c] = Mine \/ (x[1].pc = "claim" /\ x[1].cur = c))}
Owes(x) == Builds(x) /\ x[1].flawed

\* Every cluster in use is in a file's chain, in the hands of the operation or
\* lost, and the lost ones are paid for: each power cut and each failed access
\* pays for one file.
Covered(m, x, own, ch, w, lost) ==
    \A c \in Clusters : ~(m[c] \subseteq {Free}) =>
        \/ c \in lost \/ c \in Busy(x, own) \/ Listed(c, w)
        \/ \E s \in 1 .. DirSlots : Listed(c, ch[s])
Paid(x, debts, lost) ==
    /\ lost \in SUBSET Clusters
    /\ Cardinality(lost) + (IF Owes(x) THEN Largest ELSE 0) <= Largest * debts
Leaks(m, image, x, own, debts, ch, w, lost) ==
    /\ Charted(ch, m, image, own) /\ Trails(w, x, m)
    /\ Covered(m, x, own, ch, w, lost) /\ Paid(x, debts, lost)

\* The lists fit the state.
Owed(own, ch, w, lost) ==
    Leaks(May(fat[1], fatCache, Tag(ops, fatCacheLba)), dir, ops, own, cuts + faults,
          ch, w, lost)

\* The inductive invariant.
LeakInv ==
    Types /\ \E own, p, ver, path : /\ Now(own, p, ver, path)
                                    /\ \E ch, w, lost : Owed(own, ch, w, lost)

-----------------------------------------------------------------------------
(***************************************************************************)
(* Counting.                                                               *)
(***************************************************************************)
\* The largest version.
LEMMA LargestIs ==
  ASSUME SomeLargest
  PROVE  Largest \in Nat /\ \A v \in Versions : Size(v) <= Largest
<1>1. PICK v \in Versions : \A u \in Versions : Size(u) <= Size(v)
  BY DEF SomeLargest
<1>2. Size(v) \in {Size(u) : u \in Versions}
  OBVIOUS
<1>3. /\ Largest \in {Size(u) : u \in Versions}
      /\ \A u \in Versions : Size(u) <= Largest
  BY <1>1, <1>2 DEF Largest
<1> QED
  BY <1>3, Numbers

\* One more debt pays for one more file.
LEMMA OneMore ==
  ASSUME NEW a \in Nat, NEW d \in Nat
  PROVE  a * (d + 1) = a * d + a /\ a * d \in Nat
OBVIOUS

\* A set of clusters is finite.
LEMMA ClustersFinite ==
  ASSUME NEW A \in SUBSET Clusters
  PROVE  IsFiniteSet(A) /\ Cardinality(A) \in Nat
<1>1. 2 \in Int /\ NumClusters + 1 \in Int
  BY Numbers
<1>2. IsFiniteSet(2 .. NumClusters + 1)
  BY <1>1, FS_Interval
<1>3. IsFiniteSet(Clusters)
  BY <1>2 DEF Clusters
<1>4. IsFiniteSet(A)
  BY <1>3, FS_Subset
<1> QED
  BY <1>4, FS_CardinalityType

\* No more clusters are listed than the list is long.
LEMMA ListBounds ==
  ASSUME NEW n \in Nat, NEW q, NEW A \in SUBSET Clusters,
         \A c \in A : \E j \in 1 .. n : q[j] = c
  PROVE  Cardinality(A) <= n
<1>1. CASE A = {}
  <2>1. Cardinality(A) = 0
    BY <1>1, FS_EmptySet
  <2> QED
    BY <2>1
<1>2. CASE A # {}
  <2>1. PICK a \in A : TRUE
    BY <1>2
  <2>2. PICK f : f = [j \in 1 .. n |-> IF q[j] \in A THEN q[j] ELSE a]
    OBVIOUS
  <2>3. f \in [1 .. n -> A]
    BY <2>1, <2>2
  <2>4. \A c \in A : \E j \in 1 .. n : f[j] = c
    BY <2>2
  <2>5. f \in Surjection(1 .. n, A)
    BY <2>3, <2>4 DEF Surjection
  <2>6. ExistsSurjection(1 .. n, A)
    BY <2>5 DEF ExistsSurjection
  <2> QED
    BY <2>6, FS_SurjCardinalityBound
<1> QED
  BY <1>1, <1>2

\* Two sets of clusters together.
LEMMA Together ==
  ASSUME NEW A \in SUBSET Clusters, NEW B \in SUBSET Clusters
  PROVE  Cardinality(A \cup B) <= Cardinality(A) + Cardinality(B)
<1>1. IsFiniteSet(A) /\ IsFiniteSet(B) /\ Cardinality(A) \in Nat /\ Cardinality(B) \in Nat
  BY ClustersFinite
<1>2. A \cap B \in SUBSET Clusters
  OBVIOUS
<1>3. Cardinality(A \cap B) \in Nat
  BY <1>2, ClustersFinite
<1>4. Cardinality(A \cup B) = Cardinality(A) + Cardinality(B) - Cardinality(A \cap B)
  BY <1>1, FS_Union
<1> QED
  BY <1>1, <1>3, <1>4

\* A save has no more clusters in its hands than the largest file has.
LEMMA BusyIsBounded ==
  ASSUME SomeLargest, NEW f, NEW x, x = <<f>>, NEW image, NEW buf, NEW cache, NEW lba,
         FrameFits(f, image, buf, cache, lba), NEW m, NEW blocks, NEW own, NEW p,
         f.op = "save" => SaveFits(f, m, blocks, image, own, p)
  PROVE  Cardinality(Busy(x, own)) <= Largest
<1>1. x # <<>> /\ x[1] = f
  OBVIOUS
<1>2. CASE ~Builds(x)
  <2>1. Busy(x, own) = {}
    BY <1>2 DEF Busy
  <2>2. Cardinality(Busy(x, own)) = 0
    BY <2>1, FS_EmptySet
  <2> QED
    BY <2>2, LargestIs
<1>3. CASE Builds(x)
  <2>1. f.op = "save" /\ f.pc \in Building /\ f \in Frames
    BY <1>1, <1>3 DEF Builds, FrameFits
  <2>2. Takes(f, m, blocks, own, p) /\ f.ver \in Versions /\ f.i <= Size(f.ver) /\ f.i \in Nat
    BY <2>1, FrameHas DEF SaveFits, FrameFits
  <2>3. \A c \in Clusters : own[c] = Mine => \E j \in 1 .. Taken(f) : p[j] = c
    BY <2>2 DEF Takes
  <2>4. Busy(x, own) \in SUBSET Clusters
    BY DEF Busy
  <2>5. Size(f.ver) <= Largest /\ Size(f.ver) \in Nat /\ Largest \in Nat
    BY <2>2, LargestIs, Numbers
  <2>6. CASE f.pc = "claim"
    <3>1. Taken(f) = f.i /\ f.i < Size(f.ver)
      BY <2>1, <2>6 DEF Taken, FrameFits, Allocating
    <3>2. PICK q : q = [j \in 1 .. f.i + 1 |-> IF j <= f.i THEN p[j] ELSE f.cur]
      OBVIOUS
    <3>3. \A j \in 1 .. f.i : q[j] = p[j]
      BY <2>2, <3>2
    <3>4. q[f.i + 1] = f.cur /\ f.i + 1 \in 1 .. f.i + 1 /\ 1 .. f.i \subseteq 1 .. f.i + 1
      BY <2>2, <3>2
    <3>5. \A c \in Busy(x, own) : \E j \in 1 .. f.i + 1 : q[j] = c
      BY <1>1, <2>3, <3>1, <3>3, <3>4 DEF Busy
    <3>6. Cardinality(Busy(x, own)) <= f.i + 1 /\ Cardinality(Busy(x, own)) \in Nat
      BY <2>2, <2>4, <3>5, ListBounds, ClustersFinite
    <3> QED
      BY <2>2, <2>5, <3>1, <3>6
  <2>7. CASE f.pc # "claim"
    <3>1. Taken(f) <= Size(f.ver) /\ Taken(f) \in Nat
      <4>1. f.pc \in {"link", "fill", "write"} => f.i < Size(f.ver)
        BY <2>1 DEF FrameFits, Allocating
      <4> QED
        BY <2>2, <2>5, <4>1 DEF Taken
    <3>2. \A c \in Busy(x, own) : \E j \in 1 .. Taken(f) : p[j] = c
      BY <1>1, <2>3, <2>7 DEF Busy
    <3>3. Cardinality(Busy(x, own)) <= Taken(f) /\ Cardinality(Busy(x, own)) \in Nat
      BY <2>4, <3>1, <3>2, ListBounds, ClustersFinite
    <3> QED
      BY <2>5, <3>1, <3>3
  <2> QED
    BY <2>6, <2>7
<1> QED
  BY <1>2, <1>3

-----------------------------------------------------------------------------
(***************************************************************************)
(* What becomes of the lists in a step.                                    *)
(***************************************************************************)
\* A list leads on when less may be read of the FAT.
LEMMA LeadsOn ==
  ASSUME NEW q, List(q), NEW k \in Nat, NEW m, NEW m2, Within(m2, m), Leads(q, k, m)
  PROVE  Leads(q, k, m2)
<1> SUFFICES ASSUME NEW j \in 1 .. Len(q) - 1, k <= j PROVE m2[q[j]] \subseteq {q[j + 1]}
  BY DEF Leads
<1>1. j \in 1 .. Len(q) /\ q \in Seq(Clusters)
  BY DEF List
<1>2. q[j] \in Clusters
  BY <1>1
<1> QED
  BY <1>2 DEF Leads, Within

\* The files' chains when less may be read.
LEMMA ChartShrinks ==
  ASSUME NEW ch, NEW m, NEW m2, Within(m2, m), NEW image, NEW own, NEW own2,
         \A c \in Clusters : own[c] \in 1 .. DirSlots => own2[c] = own[c],
         Charted(ch, m, image, own)
  PROVE  Charted(ch, m2, image, own2)
<1> SUFFICES ASSUME NEW s \in 1 .. DirSlots PROVE Chain(ch[s], s, m2, image, own2)
  BY DEF Charted
<1> PICK q : q = ch[s]
  OBVIOUS
<1>1. Chain(q, s, m, image, own) /\ q \in Seq(Clusters)
  BY DEF Charted, Chain, List
<1>2. Leads(q, 1, m2)
  BY <1>1, LeadsOn DEF Chain
<1>3. \A j \in 1 .. Len(q) : q[j] \in Clusters
  BY <1>1
<1>4. \A j \in 1 .. Len(q) : own2[q[j]] = s
  BY <1>1, <1>3 DEF Chain
<1> QED
  BY <1>1, <1>2, <1>4 DEF Chain

\* A step that lets go of nothing.
LEMMA LeaksKept ==
  ASSUME SomeLargest, NEW m, NEW m2, Within(m2, m), NEW image, NEW x, NEW y,
         NEW own, NEW own2, NEW d, NEW d2, d \in Nat, d2 = d \/ d2 = d + 1,
         NEW ch, NEW w, NEW lost, Leaks(m, image, x, own, d, ch, w, lost),
         \A c \in Clusters : own[c] \in 1 .. DirSlots => own2[c] = own[c],
         Busy(x, own) \subseteq Busy(y, own2),
         Owes(y) => Owes(x) \/ d2 = d + 1,
         w # <<>> => /\ y # <<>> /\ y[1].op = "save" /\ y[1].pc = x[1].pc
                     /\ y[1].cur = x[1].cur /\ y[1].nxt = x[1].nxt
  PROVE  Leaks(m2, image, y, own2, d2, ch, w, lost)
<1>1. Charted(ch, m2, image, own2)
  BY ChartShrinks DEF Leaks
<1>2. Trails(w, y, m2)
  <2>1. List(w) /\ \A k \in Nat : Leads(w, k, m) => Leads(w, k, m2)
    BY LeadsOn DEF Leaks, Trails
  <2> QED
    BY <2>1 DEF Leaks, Trails
<1>3. Covered(m2, y, own2, ch, w, lost)
  BY DEF Leaks, Covered, Within
<1>4. Paid(y, d2, lost)
  <2>1. lost \in SUBSET Clusters /\ Largest \in Nat /\ Cardinality(lost) \in Nat
    BY LargestIs, ClustersFinite DEF Leaks, Paid
  <2>2. Largest * (d + 1) = Largest * d + Largest /\ Largest * d \in Nat
    BY <2>1, OneMore
  <2>3. Cardinality(lost) + (IF Owes(x) THEN Largest ELSE 0) <= Largest * d
    BY DEF Leaks, Paid
  <2>4. Cardinality(lost) + (IF Owes(y) THEN Largest ELSE 0) <= Largest * d2
    <3> PICK a, b, e : a = Largest /\ b = Largest * d /\ e = Cardinality(lost)
      OBVIOUS
    <3>1. CASE d2 = d
      BY <2>1, <2>2, <2>3, <3>1
    <3>2. CASE d2 = d + 1
      <4>1. Largest * d2 = b + a
        BY <2>2, <3>2
      <4>2. e <= b
        BY <2>1, <2>2, <2>3
      <4> QED
        BY <2>1, <2>2, <4>1, <4>2
    <3> QED
      BY <3>1, <3>2
  <2> QED
    BY <2>1, <2>4 DEF Paid
<1> QED
  BY <1>1, <1>2, <1>3, <1>4 DEF Leaks

\* An operation that ends for a debt more: all it had in its hands is lost.
LEMMA LeaksForgiven ==
  ASSUME SomeLargest, NEW m, NEW m2, Within(m2, m), NEW image, NEW x, NEW y,
         NEW own, NEW d \in Nat, NEW ch, NEW w, NEW lost,
         Leaks(m, image, x, own, d, ch, w, lost),
         Cardinality(Busy(x, own)) <= Largest, ~Owes(y)
  PROVE  \E lost2 : Leaks(m2, image, y, own, d + 1, ch, <<>>, lost2)
<1> PICK A, B : A = Busy(x, own) /\ B = {c \in Clusters : Listed(c, w)}
  OBVIOUS
<1>1. /\ A \in SUBSET Clusters /\ B \in SUBSET Clusters /\ lost \in SUBSET Clusters
      /\ Largest \in Nat
  BY LargestIs DEF Busy, Leaks, Paid
<1> PICK C : C = A \cup B
  OBVIOUS
<1>2. Cardinality(C) <= Largest
  <2>1. CASE Builds(x)
    <3>1. w = <<>>
      BY <2>1 DEF Leaks, Trails, Builds, Building, Aimed, Allocating
    <3>2. C = A
      BY <3>1 DEF Listed
    <3> QED
      BY <3>2
  <2>2. CASE ~Builds(x)
    <3>1. C = B
      BY <2>2 DEF Busy
    <3>2. Len(w) \in Nat /\ Len(w) <= Largest
      BY DEF Leaks, Trails, List
    <3>3. \A c \in B : \E j \in 1 .. Len(w) : w[j] = c
      BY DEF Listed
    <3>4. Cardinality(B) <= Len(w) /\ Cardinality(B) \in Nat
      BY <1>1, <3>2, <3>3, ListBounds, ClustersFinite
    <3>5. Cardinality(B) <= Largest
      BY <1>1, <3>2, <3>4
    <3> QED
      BY <3>1, <3>5
  <2> QED
    BY <2>1, <2>2
<1> PICK lost2 : lost2 = lost \cup C
  OBVIOUS
<1>3. Charted(ch, m2, image, own)
  BY ChartShrinks DEF Leaks
<1>4. Trails(<<>>, y, m2)
  <2>1. List(<<>>)
    BY <1>1 DEF List
  <2> QED
    BY <2>1 DEF Trails
<1>5. Covered(m2, y, own, ch, <<>>, lost2)
  <2> SUFFICES ASSUME NEW c \in Clusters, ~(m2[c] \subseteq {Free}), c \notin lost2
               PROVE  \E s \in 1 .. DirSlots : Listed(c, ch[s])
    BY DEF Covered
  <2>1. ~(m[c] \subseteq {Free})
    BY DEF Within
  <2>2. c \notin lost /\ c \notin Busy(x, own) /\ ~Listed(c, w)
    OBVIOUS
  <2> QED
    BY <2>1, <2>2 DEF Leaks, Covered
<1>6. Paid(y, d + 1, lost2)
  <2>1. C \in SUBSET Clusters
    BY <1>1
  <2>2. Cardinality(lost2) <= Cardinality(lost) + Cardinality(C)
    BY <1>1, <2>1, Together
  <2>3. /\ lost2 \in SUBSET Clusters
        /\ Cardinality(lost) \in Nat /\ Cardinality(C) \in Nat /\ Cardinality(lost2) \in Nat
    BY <1>1, <2>1, ClustersFinite
  <2>4. Largest * (d + 1) = Largest * d + Largest /\ Largest * d \in Nat
    BY <1>1, OneMore
  <2>5. Cardinality(lost) <= Largest * d
    BY <1>1, <2>3, <2>4 DEF Leaks, Paid
  <2>6. Cardinality(lost2) <= Largest * (d + 1)
    <3> PICK a, b : a = Largest /\ b = Largest * d
      OBVIOUS
    <3> QED
      BY <1>1, <1>2, <2>2, <2>3, <2>4, <2>5
  <2>7. Cardinality(lost2) + 0 <= Largest * (d + 1)
    BY <2>3, <2>6
  <2> QED
    BY <2>3, <2>7 DEF Paid
<1> QED
  BY <1>3, <1>4, <1>5, <1>6 DEF Leaks

-----------------------------------------------------------------------------
(***************************************************************************)
(* Steps that let go of nothing, and steps that fail.                      *)
(***************************************************************************)
\* g goes on with what f has in its hands,
Keeps(g, f, own) ==
    /\ f.op = "save" /\ f.pc \in Building =>
        \/ f.pc # "claim" /\ \A c \in Clusters : own[c] # Mine
        \/ /\ g.op = "save" /\ g.pc \in Building
           /\ f.pc = "claim" => g.pc = "claim" /\ g.cur = f.cur
    /\ g.op = "save" /\ g.pc \in Building /\ g.flawed =>
        f.op = "save" /\ f.pc \in Building /\ f.flawed
    /\ f.op = "save" /\ f.pc \in {"next", "release"} =>
        g.op = "save" /\ g.pc = f.pc /\ g.cur = f.cur /\ g.nxt = f.nxt
\* or is done building, unless f has only just begun to.
Lapses(g, f) ==
    g.op = "save" /\ g.pc \in Building => f.op = "save" /\ f.pc \in Building \ {"claim"}

\* A step that keeps what it has.
LEMMA LeakKeeps ==
  ASSUME SomeLargest, Types, Types', NEW own, NEW ch, NEW w, NEW lost, Owed(own, ch, w, lost),
         ops # <<>>, NEW g, ops' = <<g>>, Keeps(g, Top, own),
         NEW m, m = May(fat[1], fatCache, Tag(ops, fatCacheLba)),
         NEW m2, m2 = May(fat[1], fatCache, Tag(ops, fatCacheLba))', Within(m2, m),
         dir' = dir, cuts' = cuts, faults' \in {faults, faults + 1}
  PROVE  Owed(own, ch, w, lost)'
<1> PICK f, x, y : f = Top /\ x = ops /\ y = ops'
  OBVIOUS
<1> PICK d, d2 : d = cuts + faults /\ d2 = cuts' + faults'
  OBVIOUS
<1>1. x = <<f>> /\ x[1] = f /\ y = <<g>> /\ y[1] = g /\ Keeps(g, f, own)
  BY TopIs
<1>2. cuts \in Nat /\ faults \in Nat
  BY BoundAssumption DEF Types
<1>3. d \in Nat /\ (d2 = d \/ d2 = d + 1)
  BY <1>2
<1>4. Leaks(m, dir, x, own, d, ch, w, lost)
  BY DEF Owed
<1>5. Busy(x, own) \subseteq Busy(y, own)
  BY <1>1 DEF Busy, Builds, Keeps
<1>6. Owes(y) => Owes(x)
  BY <1>1 DEF Owes, Builds, Keeps
<1>7. w # <<>> => /\ y # <<>> /\ y[1].op = "save" /\ y[1].pc = x[1].pc
                  /\ y[1].cur = x[1].cur /\ y[1].nxt = x[1].nxt
  BY <1>1, <1>4 DEF Leaks, Trails, Keeps
<1>8. PICK image : image = dir
  OBVIOUS
<1>9. Leaks(m2, image, y, own, d2, ch, w, lost)
  <2>1. /\ Leaks(m, image, x, own, d, ch, w, lost) /\ Within(m2, m)
        /\ Owes(y) => Owes(x) \/ d2 = d + 1
        /\ \A c \in Clusters : own[c] \in 1 .. DirSlots => own[c] = own[c]
    BY <1>4, <1>6, <1>8
  <2> QED
    BY <1>3, <1>5, <1>7, <2>1, LeaksKept
<1> QED
  BY <1>8, <1>9 DEF Owed

\* A step whose disk access fails.
LEMMA LeakFails ==
  ASSUME SomeLargest, Types, Types', NEW own, NEW p, NEW ver, NEW path,
         Now(own, p, ver, path), NEW ch, NEW w, NEW lost, Owed(own, ch, w, lost),
         ops # <<>>, NEW g, ops' = <<g>>, Lapses(g, Top),
         NEW m, m = May(fat[1], fatCache, Tag(ops, fatCacheLba)),
         NEW m2, m2 = May(fat[1], fatCache, Tag(ops, fatCacheLba))', Within(m2, m),
         dir' = dir, cuts' = cuts, faults' = faults + 1
  PROVE  \E w2, lost2 : Owed(own, ch, w2, lost2)'
<1> PICK f, x, y : f = Top /\ x = ops /\ y = ops'
  OBVIOUS
<1> PICK d, e, image : d = cuts + faults /\ e = d + 1 /\ image = dir
  OBVIOUS
<1>1. x = <<f>> /\ x[1] = f /\ y = <<g>> /\ y[1] = g /\ Lapses(g, f)
  BY TopIs
<1>2. cuts \in Nat /\ faults \in Nat
  BY BoundAssumption DEF Types
<1>3. d \in Nat /\ (e = d \/ e = d + 1) /\ cuts' + faults' = e
  BY <1>2
<1>4. Leaks(m, image, x, own, d, ch, w, lost)
  BY DEF Owed
<1>5. ASSUME NEW w2, NEW lost2, Leaks(m2, image, y, own, e, ch, w2, lost2)
      PROVE  \E w3, lost3 : Owed(own, ch, w3, lost3)'
  <2>1. Owed(own, ch, w2, lost2)'
    BY <1>3, <1>5 DEF Owed
  <2> QED
    BY <2>1
<1>6. CASE Builds(y)
  <2>1. f.op = "save" /\ f.pc \in Building /\ f.pc # "claim"
    BY <1>1, <1>6 DEF Builds, Lapses
  <2>2. Busy(x, own) \subseteq Busy(y, own)
    BY <1>1, <1>6, <2>1 DEF Busy, Builds
  <2>3. w = <<>>
    BY <1>1, <1>4, <2>1 DEF Leaks, Trails, Building, Aimed, Allocating
  <2>4. /\ \A c \in Clusters : own[c] \in 1 .. DirSlots => own[c] = own[c]
        /\ Owes(y) => Owes(x) \/ e = d + 1
        /\ w # <<>> => /\ y # <<>> /\ y[1].op = "save" /\ y[1].pc = x[1].pc
                       /\ y[1].cur = x[1].cur /\ y[1].nxt = x[1].nxt
    BY <2>3
  <2>5. Leaks(m2, image, y, own, e, ch, w, lost)
    BY <1>3, <1>4, <2>2, <2>4, LeaksKept
  <2> QED
    BY <1>5, <2>5
<1>7. CASE ~Builds(y)
  <2>1. ~Owes(y)
    BY <1>7 DEF Owes
  <2>2. FrameFits(f, dir, sectorBuf, fatCache, fatCacheLba)
        /\ (f.op = "save" => SaveFits(f, m, data, dir, own, p))
    BY TopIs, NowIs
  <2>3. Cardinality(Busy(x, own)) <= Largest
    BY <1>1, <2>2, BusyIsBounded
  <2>4. \E lost2 : Leaks(m2, image, y, own, e, ch, <<>>, lost2)
    BY <1>3, <1>4, <2>1, <2>3, LeaksForgiven
  <2> QED
    BY <1>5, <2>4
<1> QED
  BY <1>6, <1>7

\* Giving up ends the building.
LEMMA GiveUpLapses ==
  ASSUME NEW f \in Frames, NEW g, g = GiveUp(f)
  PROVE  /\ g \in Frames /\ g.pc \in {"next", "return"} /\ ~g.loaded /\ g.op = f.op
         /\ g.pc = "next" => g.cur = f.first /\ f.first \in Clusters
         /\ g.pc = "return" => f.first = 0
<1>1. PICK ret \in {"ok", "error"}, c \in {0} \cup Clusters : ret = "error" /\ c = f.first
  BY FrameHas
<1>2. g = FreeChain(f, c, ret)
  BY <1>1 DEF GiveUp
<1>3. /\ Over(g, f, ret)
      /\ c # 0 => g.pc = "next" /\ g.cur = c
      /\ c = 0 => g.pc = IF ret = "ok" THEN "flush" ELSE "return"
  BY <1>2, FreeChainIs
<1> QED
  BY <1>1, <1>3 DEF Over

\* Taking the next cluster goes on building.
LEMMA NextClusterKeeps ==
  ASSUME NEW f \in Frames, NEW g, g = NextCluster(f)
  PROVE  /\ g.pc \in {"scan", "commit"} /\ g.op = f.op /\ g.flawed = f.flawed
         /\ g.loaded = f.loaded
<1>1. CASE f.i = Size(f.ver)
  <2>1. g = [f EXCEPT !.pc = "commit"]
    BY <1>1 DEF NextCluster
  <2> QED
    BY <2>1 DEF Frames
<1>2. CASE f.i # Size(f.ver)
  <2>1. g = [f EXCEPT !.pc = "scan", !.cur = 2]
    BY <1>2 DEF NextCluster
  <2> QED
    BY <2>1 DEF Frames
<1> QED
  BY <1>1, <1>2

\* A load has nothing in its hands.
LEMMA LoadKeeps ==
  ASSUME NEW f, NEW g, NEW own, f.op = "load", g.op = "load"
  PROVE  Keeps(g, f, own) /\ Lapses(g, f)
BY DEF Keeps, Lapses

\* What may be read of the FAT where neither the disk nor the cache changes.
LEMMA QuietMay ==
  ASSUME Types, ops # <<>>, NEW g, ops' = <<g>>, ~Top.loaded, ~g.loaded,
         UNCHANGED <<fat, fatCache, fatCacheLba>>
  PROVE  May(fat[1], fatCache, Tag(ops, fatCacheLba))' = May(fat[1], fatCache, Tag(ops, fatCacheLba))
<1>1. ops' # <<>> /\ ops'[1] = g /\ ops[1] = Top
  BY TopIs
<1>2. Tag(ops, fatCacheLba)' = fatCacheLba /\ Tag(ops, fatCacheLba) = fatCacheLba
  BY <1>1 DEF Tag
<1> QED
  BY <1>2

\* A quiet step keeps what it has, or its access fails.
LEMMA LeakQuiet ==
  ASSUME SomeLargest, Types, Types', NEW own, NEW p, NEW ver, NEW path,
         Now(own, p, ver, path), NEW ch, NEW w, NEW lost, Owed(own, ch, w, lost),
         ops # <<>>, NEW g, Continue(g), ~Top.loaded, ~g.loaded,
         UNCHANGED <<fat, dir, fatCache, fatCacheLba, cuts>>,
         \/ Keeps(g, Top, own) /\ faults' \in {faults, faults + 1}
         \/ Lapses(g, Top) /\ faults' = faults + 1
  PROVE  \E w2, lost2 : Owed(own, ch, w2, lost2)'
<1> PICK m, m2 : /\ m = May(fat[1], fatCache, Tag(ops, fatCacheLba))
                 /\ m2 = May(fat[1], fatCache, Tag(ops, fatCacheLba))'
  OBVIOUS
<1>1. ops' = <<g>>
  BY TopIs
<1>2. Within(m2, m)
  BY <1>1, QuietMay DEF Within
<1>3. CASE Keeps(g, Top, own) /\ faults' \in {faults, faults + 1}
  <2>1. Owed(own, ch, w, lost)'
    BY <1>1, <1>2, <1>3, LeakKeeps
  <2> QED
    BY <2>1
<1>4. CASE Lapses(g, Top) /\ faults' = faults + 1
  BY <1>1, <1>2, <1>4, LeakFails
<1> QED
  BY <1>3, <1>4

-----------------------------------------------------------------------------
(***************************************************************************)
(* The steps that leave the FAT alone.                                     *)
(***************************************************************************)
\* How a disk access is paid for.
LEMMA OutcomePays ==
  ASSUME Orderly, Types, NEW o, o \in ReadOutcomes \/ o \in WriteOutcomes, Account(o)
  PROVE  /\ \/ o = "ok" /\ faults' = faults
            \/ o = "lost" /\ o # "ok" /\ faults' = faults + 1
         /\ faults' \in {faults, faults + 1}
BY Outcome DEF Account

\* The operation in flight where it does not use the FAT.
LEMMA QuietTop ==
  ASSUME Types, ops # <<>>, NEW own, NEW p, NEW ver, NEW path, Now(own, p, ver, path),
         NEW f, f = Top, f.pc \notin ReadingFat \cup SettingFat
  PROVE  /\ f \in Frames /\ ~f.loaded /\ f.op \in {"save", "load"}
         /\ f.op = "load" => f.pc \in {"locate", "read", "copy", "follow", "return"}
         /\ f.op = "save" => f.pc \notin {"read", "copy", "follow"}
         /\ f.op = "save" => SaveFits(f, May(fat[1], fatCache, Tag(ops, fatCacheLba)),
                                      data, dir, own, p)
<1>1. FrameFits(f, dir, sectorBuf, fatCache, fatCacheLba) /\ f \in Frames
  BY TopIs
<1>2. f.op = "save" => SaveFits(f, May(fat[1], fatCache, Tag(ops, fatCacheLba)),
                                data, dir, own, p)
  BY NowIs
<1> QED
  BY <1>1, <1>2, FrameHas DEF FrameFits

\* A save that has not begun to allocate has nothing.
LEMMA NothingTaken ==
  ASSUME NEW f \in Frames, f.op = "save", f.pc \in {"locate", "slot"}, NEW m, NEW blocks,
         NEW image, NEW own, NEW p, SaveFits(f, m, blocks, image, own, p)
  PROVE  \A c \in Clusters : own[c] # Mine
<1>1. Takes(f, m, blocks, own, p) /\ f.i = 0
  BY DEF SaveFits, Building
<1>2. Taken(f) = 0
  BY <1>1 DEF Taken
<1> QED
  BY <1>1, <1>2 DEF Takes

\* Fill.
LEMMA LeakFill ==
  ASSUME SomeLargest, Types, Types', NEW own, NEW p, NEW ver, NEW path,
         Now(own, p, ver, path), NEW ch, NEW w, NEW lost, Owed(own, ch, w, lost), Fill
  PROVE  \E w2, lost2 : Owed(own, ch, w2, lost2)'
<1> PICK f : f = Top
  OBVIOUS
<1> PICK g : g = [f EXCEPT !.pc = "write"]
  OBVIOUS
<1>1. ops # <<>> /\ f.pc = "fill" /\ Continue(g) /\ faults' = faults
      /\ UNCHANGED <<fat, dir, fatCache, fatCacheLba, cuts>>
  BY DEF Fill, At, disk
<1>2. f \in Frames /\ ~f.loaded /\ f.op = "save"
  BY <1>1, QuietTop DEF ReadingFat, SettingFat
<1>3. g.pc = "write" /\ g.op = f.op /\ g.flawed = f.flawed /\ g.loaded = f.loaded
  BY <1>2 DEF Frames
<1>4. Keeps(g, f, own)
  BY <1>1, <1>2, <1>3 DEF Keeps, Building, Aimed, Allocating
<1> QED
  BY <1>1, <1>2, <1>3, <1>4, LeakQuiet

\* Flush.
LEMMA LeakFlush ==
  ASSUME SomeLargest, Types, Types', NEW own, NEW p, NEW ver, NEW path,
         Now(own, p, ver, path), NEW ch, NEW w, NEW lost, Owed(own, ch, w, lost), Flush
  PROVE  \E w2, lost2 : Owed(own, ch, w2, lost2)'
<1> PICK f : f = Top
  OBVIOUS
<1>1. ops # <<>> /\ f.pc = "flush" /\ Continue(Return(f, f.ret)) /\ faults' = faults
      /\ UNCHANGED <<fat, dir, fatCache, fatCacheLba, cuts>>
  BY DEF Flush, At, disk, driver
<1>2. f \in Frames /\ ~f.loaded /\ f.op = "save" /\ f.ret = "ok"
  <2>1. FrameFits(f, dir, sectorBuf, fatCache, fatCacheLba)
    BY <1>1, TopIs
  <2> QED
    BY <1>1, <2>1, QuietTop DEF ReadingFat, SettingFat, FrameFits
<1> PICK g : g = Return(f, f.ret)
  OBVIOUS
<1>3. PICK ret \in {"ok", "error"} : ret = f.ret /\ g = Return(f, ret)
  BY <1>2
<1>4. Over(g, f, ret) /\ g.pc = "return"
  BY <1>2, <1>3, ReturnIs
<1>5. Keeps(g, f, own) /\ ~g.loaded
  BY <1>1, <1>4 DEF Keeps, Building, Aimed, Allocating, Over
<1>6. Continue(g)
  BY <1>1, <1>3
<1> QED
  BY <1>1, <1>2, <1>5, <1>6, LeakQuiet

\* Patch.
LEMMA LeakPatch ==
  ASSUME SomeLargest, Orderly, Types, Types', NEW own, NEW p, NEW ver, NEW path,
         Now(own, p, ver, path), NEW ch, NEW w, NEW lost, Owed(own, ch, w, lost), Patch
  PROVE  \E w2, lost2 : Owed(own, ch, w2, lost2)'
<1> PICK f : f = Top
  OBVIOUS
<1>1. ops # <<>> /\ f.pc = "commit"
      /\ UNCHANGED <<fat, dir, fatCache, fatCacheLba, cuts>>
  BY DEF Patch, At, disk
<1>2. f \in Frames /\ ~f.loaded /\ f.op = "save"
  BY <1>1, QuietTop DEF ReadingFat, SettingFat
<1>3. PICK o \in ReadOutcomes :
        /\ Account(o)
        /\ o = "ok" => Continue([f EXCEPT !.pc = "writeback"])
        /\ o # "ok" => Continue(GiveUp(f))
  BY DEF Patch
<1>4. CASE o = "ok"
  <2> PICK g : g = [f EXCEPT !.pc = "writeback"]
    OBVIOUS
  <2>1. g.pc = "writeback" /\ g.op = f.op /\ g.flawed = f.flawed /\ g.loaded = f.loaded
    BY <1>2 DEF Frames
  <2>2. Keeps(g, f, own)
    BY <1>1, <1>2, <2>1 DEF Keeps, Building, Aimed, Allocating
  <2>3. Continue(g) /\ faults' \in {faults, faults + 1}
    BY <1>3, <1>4, OutcomePays
  <2> QED
    BY <1>1, <1>2, <2>1, <2>2, <2>3, LeakQuiet
<1>5. CASE o # "ok"
  <2> PICK g : g = GiveUp(f)
    OBVIOUS
  <2>1. g.pc \in {"next", "return"} /\ ~g.loaded
    BY <1>2, GiveUpLapses
  <2>2. Lapses(g, f)
    BY <2>1 DEF Lapses, Building, Aimed, Allocating
  <2>3. Continue(g) /\ faults' = faults + 1
    BY <1>3, <1>5, OutcomePays
  <2> QED
    BY <1>1, <1>2, <2>1, <2>2, <2>3, LeakQuiet
<1> QED
  BY <1>4, <1>5

\* FindSlot.
LEMMA LeakFindSlot ==
  ASSUME SomeLargest, Orderly, Types, Types', NEW own, NEW p, NEW ver, NEW path,
         Now(own, p, ver, path), NEW ch, NEW w, NEW lost, Owed(own, ch, w, lost), FindSlot
  PROVE  \E w2, lost2 : Owed(own, ch, w2, lost2)'
<1> PICK f : f = Top
  OBVIOUS
<1>1. ops # <<>> /\ f.pc = "slot"
      /\ UNCHANGED <<fat, dir, fatCache, fatCacheLba, cuts>>
  BY DEF FindSlot, At, disk
<1>2. f \in Frames /\ ~f.loaded /\ f.op = "save"
  BY <1>1, QuietTop DEF ReadingFat, SettingFat
<1>3. \A c \in Clusters : own[c] # Mine
  BY <1>1, <1>2, QuietTop, NothingTaken DEF ReadingFat, SettingFat
<1>4. PICK o \in ReadOutcomes :
        /\ Account(o)
        /\ LET empty == Find(dir, None)
           IN  Continue(IF o = "ok" /\ empty # {}
                        THEN NextCluster([f EXCEPT !.slot = Least(empty)])
                        ELSE Return(f, "error"))
  BY DEF FindSlot
<1>5. faults' \in {faults, faults + 1}
  BY <1>4, OutcomePays
<1>6. CASE o = "ok" /\ Find(dir, None) # {}
  <2>1. PICK s, h, g : s = Least(Find(dir, None)) /\ h = [f EXCEPT !.slot = s]
                       /\ g = NextCluster(h)
    OBVIOUS
  <2>2. s \in 0 .. DirSlots
    BY <1>6, <2>1, LeastIs, Numbers
  <2>3. h \in Frames /\ h.op = f.op /\ h.flawed = f.flawed /\ h.loaded = f.loaded
    BY <1>2, <2>1, <2>2 DEF Frames
  <2>4. /\ g.pc \in {"scan", "commit"} /\ g.op = f.op /\ g.flawed = f.flawed
        /\ g.loaded = f.loaded
    BY <2>1, <2>3, NextClusterKeeps
  <2>5. Keeps(g, f, own)
    BY <1>1, <1>2, <2>4 DEF Keeps, Building, Aimed, Allocating
  <2>6. Continue(g)
    BY <1>4, <1>6, <2>1
  <2> QED
    BY <1>1, <1>2, <1>5, <2>4, <2>5, <2>6, LeakQuiet
<1>7. CASE ~(o = "ok" /\ Find(dir, None) # {})
  <2>1. PICK ret, g : ret \in {"ok", "error"} /\ ret = "error" /\ g = Return(f, ret)
    OBVIOUS
  <2>2. Over(g, f, ret) /\ g.pc = "return"
    BY <1>2, <2>1, ReturnIs
  <2>3. Keeps(g, f, own) /\ ~g.loaded
    BY <1>1, <1>3, <2>2 DEF Keeps, Building, Aimed, Allocating, Over
  <2>4. Continue(g)
    BY <1>4, <1>7, <2>1
  <2> QED
    BY <1>1, <1>2, <1>5, <2>3, <2>4, LeakQuiet
<1> QED
  BY <1>6, <1>7

\* Locate: a save whose file could not be looked up goes on.
LEMMA LeakLocate ==
  ASSUME SomeLargest, Orderly, Types, Types', NEW own, NEW p, NEW ver, NEW path,
         Now(own, p, ver, path), NEW ch, NEW w, NEW lost, Owed(own, ch, w, lost), Locate
  PROVE  \E w2, lost2 : Owed(own, ch, w2, lost2)'
<1> PICK f : f = Top
  OBVIOUS
<1>1. ops # <<>> /\ f.pc = "locate"
      /\ UNCHANGED <<fat, dir, fatCache, fatCacheLba, cuts>>
  BY DEF Locate, At, disk
<1>2. f \in Frames /\ ~f.loaded /\ f.op \in {"save", "load"}
  BY <1>1, QuietTop DEF ReadingFat, SettingFat
<1>3. PICK o \in ReadOutcomes :
        /\ Account(o)
        /\ LET found == Find(dir, f.name)
               s == Least(found)
           IN  Continue(
                 IF o = "ok" /\ found # {} THEN
                    IF f.op = "save"
                    THEN NextCluster(Located(f, s, dir[s].first))
                    ELSE IF dir[s].size > 0 /\ dir[s].first \in Clusters
                    THEN Found(f, dir[s].first, dir[s].size)
                    ELSE Return(f, "ok")
                 ELSE IF f.op = "save"
                 THEN Missed(f, found # {})
                 ELSE Return(f, "error"))
  BY DEF Locate, Located, Found, Missed
<1>4. faults' \in {faults, faults + 1} /\ (o # "ok" => faults' = faults + 1)
  BY <1>3, OutcomePays
<1>5. CASE f.op = "save" /\ o = "ok" /\ Find(dir, f.name) # {}
  <2>1. PICK s, h, g : s = Least(Find(dir, f.name)) /\ h = Located(f, s, dir[s].first)
                       /\ g = NextCluster(h)
    OBVIOUS
  <2>2. s \in 1 .. DirSlots
    BY <1>5, <2>1, LeastIs
  <2>3. s \in 0 .. DirSlots /\ dir[s].first \in {0} \cup Clusters
    BY <2>2, Numbers DEF Types, Directory, Entries
  <2>4. h \in Frames /\ h.op = f.op /\ h.flawed = f.flawed /\ h.loaded = f.loaded
    BY <1>2, <2>1, <2>3 DEF Frames, Located
  <2>5. /\ g.pc \in {"scan", "commit"} /\ g.op = f.op /\ g.flawed = f.flawed
        /\ g.loaded = f.loaded
    BY <2>1, <2>4, NextClusterKeeps
  <2>6. Keeps(g, f, own)
    BY <1>1, <1>5, <2>5 DEF Keeps, Building, Aimed, Allocating
  <2>7. Continue(g)
    BY <1>3, <1>5, <2>1
  <2> QED
    BY <1>1, <1>2, <1>4, <2>5, <2>6, <2>7, LeakQuiet
<1>6. CASE f.op = "save" /\ ~(o = "ok" /\ Find(dir, f.name) # {})
  <2>1. PICK bad, g : bad \in BOOLEAN /\ bad = (Find(dir, f.name) # {}) /\ g = Missed(f, bad)
    OBVIOUS
  <2>2. Continue(g)
    BY <1>3, <1>6, <2>1
  <2>3. g.pc = "slot" /\ g.op = f.op /\ g.flawed = bad /\ g.loaded = f.loaded
    BY <1>2, <2>1 DEF Frames, Missed
  <2>4. CASE o = "ok"
    <3>1. ~g.flawed
      BY <1>6, <2>1, <2>3, <2>4
    <3>2. Keeps(g, f, own)
      BY <1>1, <1>6, <2>3, <3>1 DEF Keeps, Building, Aimed, Allocating
    <3> QED
      BY <1>1, <1>2, <1>4, <2>2, <2>3, <3>2, LeakQuiet
  <2>5. CASE o # "ok"
    <3>1. Lapses(g, f)
      BY <1>1, <1>6 DEF Lapses, Building, Aimed, Allocating
    <3> QED
      BY <1>1, <1>2, <1>4, <2>2, <2>3, <2>5, <3>1, LeakQuiet
  <2> QED
    BY <2>4, <2>5
<1>7. CASE f.op = "load"
  <2>1. ASSUME NEW g, Continue(g), g.op = "load", ~g.loaded
        PROVE  \E w2, lost2 : Owed(own, ch, w2, lost2)'
    BY <1>1, <1>2, <1>4, <1>7, <2>1, LoadKeeps, LeakQuiet
  <2>2. ASSUME NEW ret \in {"ok", "error"}, Continue(Return(f, ret))
        PROVE  \E w2, lost2 : Owed(own, ch, w2, lost2)'
    <3>1. PICK g : g = Return(f, ret)
      OBVIOUS
    <3>2. Over(g, f, ret)
      BY <1>2, <3>1, ReturnIs
    <3>3. g.op = "load" /\ ~g.loaded /\ Continue(g)
      BY <1>7, <2>2, <3>1, <3>2 DEF Over
    <3> QED
      BY <2>1, <3>3
  <2>3. ASSUME NEW first, NEW size, Continue(Found(f, first, size))
        PROVE  \E w2, lost2 : Owed(own, ch, w2, lost2)'
    <3>1. PICK g : g = Found(f, first, size)
      OBVIOUS
    <3>2. g.op = "load" /\ ~g.loaded
      BY <1>2, <1>7, <3>1 DEF Found, Frames
    <3> QED
      BY <2>1, <2>3, <3>1, <3>2
  <2>4. PICK s, ok, error : s = Least(Find(dir, f.name)) /\ ok = "ok" /\ error = "error"
    OBVIOUS
  <2>5. \/ Continue(Found(f, dir[s].first, dir[s].size)) \/ Continue(Return(f, ok))
        \/ Continue(Return(f, error))
    BY <1>3, <1>7, <2>4
  <2> QED
    BY <2>2, <2>3, <2>4, <2>5
<1> QED
  BY <1>2, <1>5, <1>6, <1>7

\* Read and Copy.
LEMMA LeakRead ==
  ASSUME SomeLargest, Orderly, Types, Types', NEW own, NEW p, NEW ver, NEW path,
         Now(own, p, ver, path), NEW ch, NEW w, NEW lost, Owed(own, ch, w, lost), Read \/ Copy
  PROVE  \E w2, lost2 : Owed(own, ch, w2, lost2)'
<1> PICK f : f = Top
  OBVIOUS
<1>1. ops # <<>> /\ f.pc \in {"read", "copy"}
      /\ UNCHANGED <<fat, dir, fatCache, fatCacheLba, cuts>>
  BY DEF Read, Copy, At, disk, driver
<1>2. f \in Frames /\ ~f.loaded /\ f.op = "load"
  BY <1>1, QuietTop DEF ReadingFat, SettingFat
<1>3. faults' \in {faults, faults + 1}
  BY OutcomePays DEF Read, Copy
<1>4. ASSUME NEW g, Continue(g), g.op = "load", ~g.loaded
      PROVE  \E w2, lost2 : Owed(own, ch, w2, lost2)'
  BY <1>1, <1>2, <1>3, <1>4, LoadKeeps, LeakQuiet
<1>5. CASE Read
  <2>1. PICK ok : ok = "ok"
    OBVIOUS
  <2>2. Continue(Reading(f)) \/ Continue(Return(f, ok))
    BY <1>5, <2>1 DEF Read, Reading
  <2>3. ASSUME NEW g, g \in {Reading(f), Return(f, ok)}, Continue(g)
        PROVE  \E w2, lost2 : Owed(own, ch, w2, lost2)'
    <3>1. g = Reading(f) => g.op = "load" /\ ~g.loaded
      BY <1>2 DEF Reading, Frames
    <3>2. PICK ret \in {"ok", "error"} : ret = ok
      BY <2>1
    <3>3. g = Return(f, ret) => g.op = "load" /\ ~g.loaded
      BY <1>2, ReturnIs DEF Over
    <3> QED
      BY <1>4, <2>3, <3>1, <3>2, <3>3
  <2> QED
    BY <2>2, <2>3
<1>6. CASE Copy
  <2>1. PICK block, g : block = (IF sectorBuf.kind = "block" THEN sectorBuf.image ELSE Torn)
                        /\ g = Copied(f, block)
    OBVIOUS
  <2>2. Continue(g)
    BY <1>6, <2>1 DEF Copy, Copied
  <2>3. g.op = "load" /\ ~g.loaded
    BY <1>2, <2>1 DEF Copied, Frames
  <2> QED
    BY <1>4, <2>2, <2>3
<1> QED
  BY <1>5, <1>6

\* Write.
LEMMA LeakWrite ==
  ASSUME SomeLargest, Orderly, Types, Types', NEW own, NEW p, NEW ver, NEW path,
         Now(own, p, ver, path), NEW ch, NEW w, NEW lost, Owed(own, ch, w, lost), Write
  PROVE  \E w2, lost2 : Owed(own, ch, w2, lost2)'
<1> PICK f : f = Top
  OBVIOUS
<1>1. ops # <<>> /\ f.pc = "write"
      /\ UNCHANGED <<fat, dir, fatCache, fatCacheLba, cuts>>
  BY DEF Write, At, driver
<1>2. f \in Frames /\ ~f.loaded /\ f.op = "save"
  BY <1>1, QuietTop DEF ReadingFat, SettingFat
<1>3. PICK o \in WriteOutcomes :
        /\ Account(o)
        /\ Continue(IF o = "ok" THEN NextCluster(Filled(f)) ELSE GiveUp(f))
  BY DEF Write, Filled
<1>4. CASE o = "ok"
  <2>1. PICK h, g : h = Filled(f) /\ g = NextCluster(h)
    OBVIOUS
  <2>2. f.cur \in {0} \cup Clusters /\ f.i + 1 \in Nat
    <3>1. FrameFits(f, dir, sectorBuf, fatCache, fatCacheLba)
      BY <1>1, TopIs
    <3> QED
      BY <1>1, <1>2, <3>1, FrameHas DEF FrameFits
  <2>3. h \in Frames /\ h.op = f.op /\ h.flawed = f.flawed /\ h.loaded = f.loaded
    BY <1>2, <2>1, <2>2 DEF Frames, Filled
  <2>4. /\ g.pc \in {"scan", "commit"} /\ g.op = f.op /\ g.flawed = f.flawed
        /\ g.loaded = f.loaded
    BY <2>1, <2>3, NextClusterKeeps
  <2>5. Keeps(g, f, own)
    BY <1>1, <1>2, <2>4 DEF Keeps, Building, Aimed, Allocating
  <2>6. Continue(g) /\ faults' \in {faults, faults + 1}
    BY <1>3, <1>4, <2>1, OutcomePays
  <2> QED
    BY <1>1, <1>2, <2>4, <2>5, <2>6, LeakQuiet
<1>5. CASE o # "ok"
  <2> PICK g : g = GiveUp(f)
    OBVIOUS
  <2>1. g.pc \in {"next", "return"} /\ ~g.loaded
    BY <1>2, GiveUpLapses
  <2>2. Lapses(g, f)
    BY <2>1 DEF Lapses, Building, Aimed, Allocating
  <2>3. Continue(g) /\ faults' = faults + 1
    BY <1>3, <1>5, OutcomePays
  <2> QED
    BY <1>1, <1>2, <2>1, <2>2, <2>3, LeakQuiet
<1> QED
  BY <1>4, <1>5

-----------------------------------------------------------------------------
(***************************************************************************)
(* The steps over the FAT.                                                 *)
(***************************************************************************)
\* What fat_next_cluster returns to.
LEMMA AfterNextGoes ==
  ASSUME NEW f \in Frames, NEW value \in Links, f.pc \in ReadingFat, f.cur \in Clusters,
         f.pc = "follow" => f.op = "load", NEW g, g = AfterNext(f, value)
  PROVE  /\ ~g.loaded /\ g.op = f.op
         /\ f.pc = "scan" =>
             \/ g.pc \in {"scan", "claim"} /\ g.flawed = f.flawed
             \/ /\ g.pc \in {"next", "return"} /\ (g.pc = "return" => f.first = 0)
                /\ g.pc = "next" => g.cur = f.first /\ f.first \in Clusters
         /\ f.pc = "scan" /\ value # Free => g.pc # "claim"
         /\ f.pc = "next" => g.pc = "release" /\ g.cur = f.cur /\ g.nxt = value
<1>1. PICK h : h = [f EXCEPT !.loaded = FALSE]
  OBVIOUS
<1>2. h \in Frames
  BY <1>1 DEF Frames
<1>3. /\ h.pc = f.pc /\ h.cur = f.cur /\ h.op = f.op /\ h.i = f.i /\ h.size = f.size
      /\ ~h.loaded /\ h.flawed = f.flawed /\ h.first = f.first
  BY <1>1 DEF Frames
<1>4. CASE f.pc = "scan"
  <2>1. g = IF value = Free THEN [h EXCEPT !.pc = "claim"]
            ELSE IF h.cur + 1 \in Clusters THEN [h EXCEPT !.cur = @ + 1]
            ELSE GiveUp(h)
    BY <1>1, <1>3, <1>4 DEF AfterNext
  <2>2. CASE value = Free
    <3>1. g = [h EXCEPT !.pc = "claim"]
      BY <2>1, <2>2
    <3> QED
      BY <1>2, <1>3, <1>4, <2>2, <3>1 DEF Frames
  <2>3. CASE value # Free /\ h.cur + 1 \in Clusters
    <3>1. g = [h EXCEPT !.cur = @ + 1]
      BY <2>1, <2>3
    <3> QED
      BY <1>2, <1>3, <1>4, <3>1 DEF Frames
  <2>4. CASE value # Free /\ h.cur + 1 \notin Clusters
    <3>1. g = GiveUp(h)
      BY <2>1, <2>4
    <3> QED
      BY <1>2, <1>3, <1>4, <3>1, GiveUpLapses
  <2> QED
    BY <2>2, <2>3, <2>4
<1>5. CASE f.pc = "next"
  <2>1. g = [h EXCEPT !.pc = "release", !.nxt = value]
    BY <1>1, <1>3, <1>5 DEF AfterNext
  <2> QED
    BY <1>2, <1>3, <1>5, <2>1 DEF Frames
<1>6. CASE f.pc = "follow"
  <2>1. g = IF h.i < h.size /\ value \in Clusters THEN [h EXCEPT !.pc = "read", !.cur = value]
            ELSE Return(h, "ok")
    BY <1>1, <1>3, <1>6 DEF AfterNext
  <2>2. CASE h.i < h.size /\ value \in Clusters
    <3>1. g = [h EXCEPT !.pc = "read", !.cur = value]
      BY <2>1, <2>2
    <3> QED
      BY <1>2, <1>3, <1>6, <3>1 DEF Frames
  <2>3. CASE ~(h.i < h.size /\ value \in Clusters)
    <3>1. PICK ret \in {"ok", "error"} : ret = "ok"
      OBVIOUS
    <3>2. g = Return(h, ret)
      BY <2>1, <2>3, <3>1
    <3>3. Over(g, h, ret)
      BY <1>2, <3>2, ReturnIs
    <3> QED
      BY <1>3, <1>6, <3>3 DEF Over
  <2> QED
    BY <2>2, <2>3
<1> QED
  BY <1>4, <1>5, <1>6 DEF ReadingFat

\* What fat_set returns to.
LEMMA AfterSetGoes ==
  ASSUME NEW f \in Frames, NEW ok \in BOOLEAN, f.pc \in SettingFat,
         f.pc = "release" => f.ret \in {"ok", "error"}, NEW g, g = AfterSet(f, ok)
  PROVE  /\ ~g.loaded /\ g.op = f.op
         /\ f.pc = "claim" => /\ ok => g.pc \in {"link", "fill"} /\ g.flawed = f.flawed
                              /\ ~ok => g.pc \in {"next", "return"}
         /\ f.pc = "link" => g.pc = "fill" /\ (ok => g.flawed = f.flawed)
         /\ f.pc = "release" => IF f.nxt \in Clusters THEN g.pc = "next" /\ g.cur = f.nxt
                                ELSE g.pc \in {"return", "flush"}
<1>1. PICK h : h = Returned(f)
  OBVIOUS
<1>2. /\ h \in Frames /\ h.pc = f.pc /\ h.op = f.op /\ ~h.loaded /\ h.flawed = f.flawed
      /\ h.nxt = f.nxt /\ h.ret = f.ret
  BY <1>1, ReturnedIs DEF Alike
<1>3. CASE f.pc = "claim"
  <2>1. g = IF ~ok THEN GiveUp(h)
            ELSE IF h.prev # 0 THEN [h EXCEPT !.pc = "link"]
            ELSE [h EXCEPT !.pc = "fill", !.first = h.cur]
    BY <1>1, <1>2, <1>3 DEF AfterSet, Returned
  <2>2. CASE ~ok
    <3>1. g = GiveUp(h)
      BY <2>1, <2>2
    <3> QED
      BY <1>2, <1>3, <2>2, <3>1, GiveUpLapses
  <2>3. CASE ok /\ h.prev # 0
    <3>1. g = [h EXCEPT !.pc = "link"]
      BY <2>1, <2>3
    <3> QED
      BY <1>2, <1>3, <2>3, <3>1 DEF Frames
  <2>4. CASE ok /\ h.prev = 0
    <3>1. g = [h EXCEPT !.pc = "fill", !.first = h.cur]
      BY <2>1, <2>4
    <3> QED
      BY <1>2, <1>3, <2>4, <3>1 DEF Frames
  <2> QED
    BY <2>2, <2>3, <2>4
<1>4. CASE f.pc = "link"
  <2>1. g = [h EXCEPT !.pc = "fill", !.flawed = @ \/ ~ok]
    BY <1>1, <1>2, <1>4 DEF AfterSet, Returned
  <2>2. g.pc = "fill" /\ g.op = h.op /\ g.loaded = h.loaded /\ g.flawed = (h.flawed \/ ~ok)
    BY <1>2, <2>1 DEF Frames
  <2>3. ok => g.flawed = h.flawed
    BY <1>2, <2>2, FrameHas
  <2> QED
    BY <1>2, <1>4, <2>2, <2>3
<1>5. CASE f.pc = "release"
  <2>1. g = IF h.nxt \in Clusters THEN [h EXCEPT !.pc = "next", !.cur = h.nxt]
            ELSE FreeChain(h, 0, h.ret)
    BY <1>1, <1>2, <1>5 DEF AfterSet, Returned
  <2>2. CASE h.nxt \in Clusters
    <3>1. g = [h EXCEPT !.pc = "next", !.cur = h.nxt]
      BY <2>1, <2>2
    <3> QED
      BY <1>2, <1>5, <2>2, <3>1 DEF Frames
  <2>3. CASE h.nxt \notin Clusters
    <3>1. PICK ret \in {"ok", "error"}, c \in {0} \cup Clusters : ret = h.ret /\ c = 0
      BY <1>2, <1>5
    <3>2. g = FreeChain(h, c, ret)
      BY <2>1, <2>3, <3>1
    <3>3. Over(g, h, ret) /\ g.pc \in {"return", "flush"}
      BY <1>2, <3>1, <3>2, FreeChainIs
    <3> QED
      BY <1>2, <1>5, <2>3, <3>3 DEF Over
  <2> QED
    BY <2>2, <2>3
<1> QED
  BY <1>3, <1>4, <1>5 DEF SettingFat

\* The operation in flight where it uses the FAT.
LEMMA FatTop ==
  ASSUME Types, ops # <<>>, NEW own, NEW p, NEW ver, NEW path, Now(own, p, ver, path),
         NEW f, f = Top, f.pc \in ReadingFat \cup SettingFat,
         NEW m, m = May(fat[1], fatCache, Tag(ops, fatCacheLba))
  PROVE  /\ f \in Frames /\ f.cur \in Clusters /\ Target(f) \in Clusters
         /\ \/ f.op = "save" /\ f.pc \in {"scan", "next", "claim", "link", "release"}
            \/ f.op = "load" /\ f.pc = "follow"
         /\ FrameFits(f, dir, sectorBuf, fatCache, fatCacheLba)
         /\ f.op = "save" => SaveFits(f, m, data, dir, own, p)
         /\ f.pc = "release" => f.ret \in {"ok", "error"}
         /\ own \in [Clusters -> Owners]
<1>1. FrameFits(f, dir, sectorBuf, fatCache, fatCacheLba)
  BY TopIs
<1>2. /\ f \in Frames /\ f.cur \in Clusters /\ Target(f) \in Clusters
      /\ \/ f.op = "save" /\ f.pc \in {"scan", "next", "claim", "link", "release"}
         \/ f.op = "load" /\ f.pc = "follow"
  BY <1>1, UserIs
<1> QED
  BY <1>1, <1>2, NowIs DEF FrameFits

\* LoadFat.
LEMMA LeakLoadFat ==
  ASSUME SomeLargest, Orderly, Types, Types', NEW own, NEW p, NEW ver, NEW path,
         Now(own, p, ver, path), NEW ch, NEW w, NEW lost, Owed(own, ch, w, lost), LoadFat
  PROVE  \E w2, lost2 : Owed(own, ch, w2, lost2)'
<1> PICK f, m, m2 : /\ f = Top /\ m = May(fat[1], fatCache, Tag(ops, fatCacheLba))
                    /\ m2 = May(fat[1], fatCache, Tag(ops, fatCacheLba))'
  OBVIOUS
<1>1. /\ ops # <<>> /\ f.pc \in ReadingFat \cup SettingFat /\ ~f.loaded
      /\ UNCHANGED <<fat, dir, fatCacheLba, cuts>>
  BY DEF LoadFat, UsesFat, Cached, disk
<1>2. /\ f \in Frames /\ f.cur \in Clusters /\ Target(f) \in Clusters
      /\ \/ f.op = "save" /\ f.pc \in {"scan", "next", "claim", "link", "release"}
         \/ f.op = "load" /\ f.pc = "follow"
      /\ f.pc = "release" => f.ret \in {"ok", "error"}
  BY <1>1, FatTop
<1>3. PICK o \in ReadOutcomes :
        /\ Account(o)
        /\ IF o = "ok"
           THEN /\ fatCache' = [c \in Clusters |->
                        IF FatSector(c) = FatSector(Target(f)) THEN fat[1][c] ELSE Free]
                /\ Continue(Loaded(f))
           ELSE /\ UNCHANGED fatCache
                /\ Continue(IF f.pc \in ReadingFat THEN AfterNext(f, Eoc) ELSE Undone(f))
  BY DEF LoadFat, Loaded, Undone
<1>4. CASE o = "ok"
  <2>1. PICK g : g = Loaded(f)
    OBVIOUS
  <2>2. g \in Frames /\ Same(g, f) /\ g.loaded
    BY <1>2, <2>1, LoadedIs
  <2>3. ops' = <<g>>
    BY <1>1, <1>3, <1>4, <2>1, TopIs
  <2>4. Target(g) = Target(f)
    BY <2>2 DEF Same, Target
  <2>5. Within(m2, m)
    <3>1. m2 = May(fat[1], fatCache', FatSector(Target(f)))
      BY <1>1, <2>2, <2>3, <2>4 DEF Tag
    <3>2. \A c \in Clusters : FatSector(c) = FatSector(Target(f)) => fatCache'[c] = fat[1][c]
      BY <1>3, <1>4
    <3> QED
      BY <3>1, <3>2, MayLoad
  <2>6. Keeps(g, f, own)
    BY <2>2 DEF Same, Keeps
  <2>7. faults' \in {faults, faults + 1}
    BY <1>3, OutcomePays
  <2>8. Owed(own, ch, w, lost)'
    BY <1>1, <2>3, <2>5, <2>6, <2>7, LeakKeeps
  <2> QED
    BY <2>8
<1>5. CASE o # "ok"
  <2>1. UNCHANGED fatCache /\ faults' = faults + 1
    BY <1>3, <1>5, OutcomePays
  <2>2. ASSUME NEW g, Continue(g), ~g.loaded, Lapses(g, f)
        PROVE  \E w2, lost2 : Owed(own, ch, w2, lost2)'
    BY <1>1, <2>1, <2>2, LeakQuiet
  <2>3. CASE f.pc \in ReadingFat
    <3>1. PICK none, g : none = Eoc /\ g = AfterNext(f, none)
      OBVIOUS
    <3>2. none \in Links /\ Continue(g) /\ (f.pc = "follow" => f.op = "load")
      BY <1>2, <1>3, <1>5, <2>3, <3>1 DEF Links
    <3>3. /\ ~g.loaded /\ g.op = f.op
          /\ f.pc = "next" => g.pc = "release"
      BY <1>2, <2>3, <3>1, <3>2, AfterNextGoes
    <3>4. Lapses(g, f)
      BY <1>2, <2>3, <3>3 DEF Lapses, Building, Aimed, Allocating, ReadingFat
    <3> QED
      BY <2>2, <3>2, <3>3, <3>4
  <2>4. CASE f.pc \notin ReadingFat
    <3>1. PICK ok, g : ok \in BOOLEAN /\ ok = FALSE /\ g = AfterSet(f, ok)
      OBVIOUS
    <3>2. Continue(g) /\ f.pc \in SettingFat
      BY <1>1, <1>3, <1>5, <2>4, <3>1 DEF Undone
    <3>3. /\ ~g.loaded /\ g.op = f.op
          /\ f.pc = "claim" => g.pc \in {"next", "return"}
          /\ f.pc = "release" => g.pc \in {"next", "return", "flush"}
      BY <1>2, <3>1, <3>2, AfterSetGoes
    <3>4. Lapses(g, f)
      BY <1>2, <3>2, <3>3 DEF Lapses, Building, Aimed, Allocating, SettingFat
    <3> QED
      BY <2>2, <3>2, <3>3, <3>4
  <2> QED
    BY <2>3, <2>4
<1> QED
  BY <1>4, <1>5

\* What a save has taken is a list.
LEMMA TakenList ==
  ASSUME SomeLargest, NEW f, NEW image, NEW buf, NEW cache, NEW lba,
         FrameFits(f, image, buf, cache, lba), NEW m, NEW blocks, NEW own, NEW p,
         SaveFits(f, m, blocks, image, own, p), f.op = "save", f.pc \in {"scan", "writeback"},
         NEW x, x = <<f>>
  PROVE  /\ List(p) /\ Len(p) = f.i /\ (~f.flawed => Leads(p, 1, m)) /\ f.first = Start(p, f.i)
         /\ \A c \in Busy(x, own) : Listed(c, p)
         /\ \A j \in 1 .. Len(p) : p[j] \in Clusters /\ own[p[j]] = Mine
<1>1. x[1] = f /\ f \in Frames
  BY DEF FrameFits
<1>2. Takes(f, m, blocks, own, p) /\ Taken(f) = f.i /\ (~f.flawed => Strung(f, m, p))
  BY DEF SaveFits, Building, Aimed, Allocating, Taken
<1>3. f.i \in Nat /\ f.i <= Size(f.ver) /\ f.ver \in Versions
  BY <1>1, FrameHas DEF FrameFits, Building, Aimed, Allocating
<1>4. f.i <= Largest
  BY <1>3, LargestIs, Numbers
<1>5. p \in Seq(Clusters) /\ Len(p) = f.i
  BY <1>2, <1>3 DEF Takes
<1>6. List(p)
  BY <1>2, <1>4, <1>5 DEF List, Takes
<1>7. ASSUME ~f.flawed PROVE Leads(p, 1, m)
  <2> SUFFICES ASSUME NEW j \in 1 .. Len(p) - 1 PROVE m[p[j]] \subseteq {p[j + 1]}
    BY DEF Leads
  <2>1. j \in 1 .. Taken(f) /\ j < Taken(f)
    BY <1>2, <1>3, <1>5
  <2>2. m[p[j]] \subseteq {After(p, Taken(f), j)}
    BY <1>2, <1>7, <2>1 DEF Strung
  <2> QED
    BY <2>1, <2>2 DEF After
<1>8. \A c \in Busy(x, own) : Listed(c, p)
  BY <1>1, <1>2, <1>5 DEF Busy, Takes, Listed
<1>9. \A j \in 1 .. Len(p) : p[j] \in Clusters /\ own[p[j]] = Mine
  BY <1>2, <1>5 DEF Takes
<1> QED
  BY <1>2, <1>5, <1>6, <1>7, <1>8, <1>9 DEF Takes

\* A save that a failed access has left flawed has paid for what it took.
LEMMA PaidOff ==
  ASSUME SomeLargest, NEW x, NEW y, NEW own, NEW d \in Nat, NEW lost, Paid(x, d, lost),
         Cardinality(Busy(x, own)) <= Largest, ~Owes(y),
         NEW lost2, lost2 = IF Owes(x) THEN lost \cup Busy(x, own) ELSE lost
  PROVE  Paid(y, d, lost2)
<1> PICK A : A = Busy(x, own)
  OBVIOUS
<1>1. A \in SUBSET Clusters /\ lost \in SUBSET Clusters /\ lost2 \in SUBSET Clusters
  BY DEF Paid, Busy
<1>2. /\ Cardinality(A) \in Nat /\ Cardinality(lost) \in Nat /\ Cardinality(lost2) \in Nat
      /\ Largest \in Nat /\ Largest * d \in Nat
  BY <1>1, ClustersFinite, LargestIs, OneMore
<1>3. Cardinality(lost2) <= Largest * d
  <2> PICK b : b = Largest * d
    OBVIOUS
  <2>1. CASE Owes(x)
    <3>1. Cardinality(lost) + Largest <= b
      BY <2>1 DEF Paid
    <3>2. Cardinality(lost \cup A) <= Cardinality(lost) + Cardinality(A)
      BY <1>1, Together
    <3>3. lost2 = lost \cup A
      BY <2>1
    <3>4. Cardinality(A) <= Largest
      OBVIOUS
    <3>5. Cardinality(lost2) <= Cardinality(lost) + Cardinality(A)
      BY <3>2, <3>3
    <3> QED
      BY <1>2, <3>1, <3>4, <3>5
  <2>2. CASE ~Owes(x)
    <3>1. Cardinality(lost) + 0 <= b
      BY <2>2 DEF Paid
    <3> QED
      BY <1>2, <2>2, <3>1
  <2> QED
    BY <2>1, <2>2
<1>4. Cardinality(lost2) + 0 <= Largest * d
  BY <1>2, <1>3
<1> QED
  BY <1>1, <1>4 DEF Paid

\* The volume is full: what has been taken is freed, or paid for.
LEMMA LeaksFull ==
  ASSUME SomeLargest, NEW f, NEW image, NEW buf, NEW cache, NEW lba,
         FrameFits(f, image, buf, cache, lba), NEW m, NEW blocks, NEW own, NEW p,
         SaveFits(f, m, blocks, image, own, p), f.op = "save", f.pc = "scan",
         NEW x, x = <<f>>, NEW g, NEW y, y = <<g>>, g.op = "save",
         g.pc \in {"next", "return"}, g.pc = "return" => f.first = 0,
         g.pc = "next" => g.cur = f.first,
         NEW d \in Nat, NEW ch, NEW w, NEW lost, Leaks(m, image, x, own, d, ch, w, lost)
  PROVE  \E w2, lost2 : Leaks(m, image, y, own, d, ch, w2, lost2)
<1>1. x # <<>> /\ x[1] = f /\ y # <<>> /\ y[1] = g
  OBVIOUS
<1>2. PICK lost2 : lost2 = IF Owes(x) THEN lost \cup Busy(x, own) ELSE lost
  OBVIOUS
<1>3. PICK w2 : w2 = IF Owes(x) THEN <<>> ELSE p
  OBVIOUS
<1>4. ~Builds(y) /\ ~Owes(y)
  BY <1>1 DEF Builds, Owes, Building, Aimed, Allocating
<1>5. Cardinality(Busy(x, own)) <= Largest
  BY BusyIsBounded
<1>6. Paid(y, d, lost2)
  BY <1>2, <1>4, <1>5, PaidOff DEF Leaks
<1>7. /\ List(p) /\ Len(p) = f.i /\ (~f.flawed => Leads(p, 1, m)) /\ f.first = Start(p, f.i)
      /\ \A c \in Busy(x, own) : Listed(c, p)
      /\ \A j \in 1 .. Len(p) : p[j] \in Clusters
  BY TakenList
<1>8. Owes(x) <=> f.flawed
  BY <1>1 DEF Owes, Builds, Building, Aimed, Allocating
<1>9. w = <<>>
  BY <1>1 DEF Leaks, Trails
<1>10. Trails(w2, y, m)
  <2>1. CASE Owes(x)
    <3>1. w2 = <<>> /\ List(<<>>)
      BY <1>3, <2>1, LargestIs DEF List
    <3> QED
      BY <3>1 DEF Trails
  <2>2. CASE ~Owes(x)
    <3>1. w2 = p /\ Leads(p, 1, m)
      BY <1>3, <1>7, <1>8, <2>2
    <3>2. ASSUME p # <<>> PROVE g.pc = "next" /\ g.cur = p[1]
      <4>1. f.i # 0 /\ 1 \in 1 .. Len(p)
        BY <1>7, <3>2 DEF List
      <4>2. f.first = p[1] /\ p[1] \in Clusters
        BY <1>7, <4>1 DEF Start
      <4> QED
        BY <4>2, Numbers
    <3> QED
      BY <1>1, <1>7, <3>1, <3>2 DEF Trails
  <2> QED
    BY <2>1, <2>2
<1>11. Covered(m, y, own, ch, w2, lost2)
  <2>1. \A c \in Clusters : ~Listed(c, w)
    BY <1>9 DEF Listed
  <2>2. \A c \in Busy(x, own) : c \in lost2 \/ Listed(c, w2)
    BY <1>2, <1>3, <1>7
  <2>3. \A c \in lost : c \in lost2
    BY <1>2
  <2> QED
    BY <2>1, <2>2, <2>3 DEF Leaks, Covered
<1>12. Leaks(m, image, y, own, d, ch, w2, lost2)
  BY <1>6, <1>10, <1>11 DEF Leaks
<1> QED
  BY <1>12

\* The link of the cluster to be freed has been read.
LEMMA LeaksFollowed ==
  ASSUME NEW m, NEW image, NEW own, NEW d, NEW ch, NEW w, NEW lost, NEW f, NEW x, x = <<f>>,
         f.op = "save", f.pc = "next", f.cur \in Clusters, NEW g, NEW y, y = <<g>>,
         g.op = "save", g.pc = "release", g.cur = f.cur, g.nxt \in m[f.cur],
         Leaks(m, image, x, own, d, ch, w, lost)
  PROVE  Leaks(m, image, y, own, d, ch, w, lost)
<1>1. x # <<>> /\ x[1] = f /\ y # <<>> /\ y[1] = g
  OBVIOUS
<1>2. ~Builds(x) /\ ~Builds(y) /\ ~Owes(x) /\ ~Owes(y)
  BY <1>1 DEF Builds, Owes, Building, Aimed, Allocating
<1>3. Covered(m, y, own, ch, w, lost)
  BY <1>2 DEF Leaks, Covered, Busy
<1>4. Paid(y, d, lost)
  BY <1>2 DEF Leaks, Paid
<1>5. ASSUME w # <<>> PROVE Leads(w, 2, m) /\ (Len(w) > 1 => g.nxt = w[2])
  <2>1. List(w) /\ Leads(w, 1, m) /\ f.cur = w[1]
    BY <1>1, <1>5 DEF Leaks, Trails
  <2>2. Leads(w, 2, m)
    BY <2>1 DEF Leads
  <2>3. ASSUME Len(w) > 1 PROVE g.nxt = w[2]
    <3>1. 1 \in 1 .. Len(w) - 1 /\ 1 + 1 = 2
      BY <2>1, <2>3 DEF List
    <3>2. m[w[1]] \subseteq {w[2]}
      BY <2>1, <3>1 DEF Leads
    <3> QED
      BY <2>1, <3>2
  <2> QED
    BY <2>2, <2>3
<1>6. Trails(w, y, m)
  BY <1>1, <1>5 DEF Leaks, Trails
<1> QED
  BY <1>3, <1>4, <1>6 DEF Leaks

\* The first cluster of the list is free.
LEMMA LeaksReleased ==
  ASSUME SomeLargest, NEW m, NEW m2, Within(m2, m), NEW image, NEW own, NEW d, NEW ch, NEW w, NEW lost,
         NEW f, NEW x, x = <<f>>, f.op = "save", f.pc = "release", f.cur \in Clusters,
         m2[f.cur] \subseteq {Free}, NEW g, NEW y, y = <<g>>, g.op = "save",
         IF f.nxt \in Clusters THEN g.pc = "next" /\ g.cur = f.nxt
         ELSE g.pc \in {"return", "flush"},
         Leaks(m, image, x, own, d, ch, w, lost)
  PROVE  \E w2 : Leaks(m2, image, y, own, d, ch, w2, lost)
<1>1. x # <<>> /\ x[1] = f /\ y # <<>> /\ y[1] = g
  OBVIOUS
<1>2. ~Builds(x) /\ ~Builds(y) /\ ~Owes(x) /\ ~Owes(y)
  BY <1>1 DEF Builds, Owes, Building, Aimed, Allocating
<1>3. Charted(ch, m2, image, own)
  BY ChartShrinks DEF Leaks
<1>4. Paid(y, d, lost)
  BY <1>2 DEF Leaks, Paid
<1>5. List(w) /\ w \in Seq(Clusters) /\ Len(w) \in Nat
  BY DEF Leaks, Trails, List
<1>6. PICK w2 : w2 = IF w = <<>> THEN <<>> ELSE Tail(w)
  OBVIOUS
<1>7. /\ w2 \in Seq(Clusters) /\ Len(w2) = IF w = <<>> THEN 0 ELSE Len(w) - 1
      /\ \A j \in 1 .. Len(w2) : w2[j] = w[j + 1] /\ j + 1 \in 1 .. Len(w)
  BY <1>5, <1>6
<1>8. List(w2)
  <2>1. Len(w2) <= Largest
    BY <1>5, <1>7, LargestIs DEF List
  <2>2. ASSUME NEW i \in 1 .. Len(w2), NEW j \in 1 .. Len(w2), w2[i] = w2[j] PROVE i = j
    <3>1. w[i + 1] = w[j + 1] /\ i + 1 \in 1 .. Len(w) /\ j + 1 \in 1 .. Len(w)
      BY <1>7, <2>2
    <3>2. i + 1 = j + 1
      BY <1>5, <3>1 DEF List
    <3> QED
      BY <1>5, <3>2
  <2> QED
    BY <1>7, <2>1, <2>2 DEF List
<1>9. Trails(w2, y, m2)
  <2>1. CASE w2 = <<>>
    BY <1>8, <2>1 DEF Trails
  <2>2. CASE w2 # <<>>
    <3>1. w # <<>> /\ Len(w) > 1 /\ Len(w2) = Len(w) - 1
      BY <1>5, <1>6, <1>7, <2>2
    <3>2. Leads(w, 2, m) /\ f.nxt = w[2]
      BY <1>1, <3>1 DEF Leaks, Trails
    <3>3. w[2] \in Clusters /\ w2[1] = w[2]
      <4>1. 1 \in 1 .. Len(w2) /\ 2 \in 1 .. Len(w) /\ 1 + 1 = 2
        BY <1>5, <3>1
      <4> QED
        BY <1>5, <1>7, <4>1
    <3>4. Leads(w, 2, m2)
      BY <1>5, <3>2, LeadsOn
    <3>5. Leads(w2, 1, m2)
      <4> SUFFICES ASSUME NEW j \in 1 .. Len(w2) - 1 PROVE m2[w2[j]] \subseteq {w2[j + 1]}
        BY DEF Leads
      <4>1. j + 1 \in 1 .. Len(w) - 1 /\ 2 <= j + 1 /\ j \in 1 .. Len(w2) /\ j + 1 \in 1 .. Len(w2)
        BY <1>5, <3>1
      <4>2. m2[w[j + 1]] \subseteq {w[j + 1 + 1]}
        BY <3>4, <4>1 DEF Leads
      <4> QED
        BY <1>7, <4>1, <4>2
    <3> QED
      BY <1>1, <1>8, <3>2, <3>3, <3>5 DEF Trails
  <2> QED
    BY <2>1, <2>2
<1>10. Covered(m2, y, own, ch, w2, lost)
  <2> SUFFICES ASSUME NEW c \in Clusters, ~(m2[c] \subseteq {Free}), c \notin lost,
                      ~\E s \in 1 .. DirSlots : Listed(c, ch[s])
               PROVE  Listed(c, w2)
    BY DEF Covered
  <2>1. ~(m[c] \subseteq {Free}) /\ c # f.cur
    BY DEF Within
  <2>2. Listed(c, w)
    BY <1>2, <2>1 DEF Leaks, Covered, Busy
  <2>3. PICK j \in 1 .. Len(w) : w[j] = c
    BY <2>2 DEF Listed
  <2>4. w # <<>> /\ f.cur = w[1]
    <3>1. w # <<>>
      BY <2>3
    <3> QED
      BY <1>1, <3>1 DEF Leaks, Trails
  <2>5. j - 1 \in 1 .. Len(w2) /\ j - 1 + 1 = j
    BY <1>5, <1>7, <2>1, <2>3, <2>4
  <2>6. w2[j - 1] = c
    BY <1>7, <2>3, <2>5
  <2> QED
    BY <2>5, <2>6 DEF Listed
<1>11. Leaks(m2, image, y, own, d, ch, w2, lost)
  BY <1>3, <1>4, <1>9, <1>10 DEF Leaks
<1> QED
  BY <1>11

\* NextEntry.
LEMMA LeakNextEntry ==
  ASSUME SomeLargest, Orderly, Types, Types', NEW own, NEW p, NEW ver, NEW path,
         Now(own, p, ver, path), NEW ch, NEW w, NEW lost, Owed(own, ch, w, lost), NextEntry
  PROVE  \E w2, lost2 : Owed(own, ch, w2, lost2)'
<1> PICK f, m, m2 : /\ f = Top /\ m = May(fat[1], fatCache, Tag(ops, fatCacheLba))
                    /\ m2 = May(fat[1], fatCache, Tag(ops, fatCacheLba))'
  OBVIOUS
<1>1. ops # <<>> /\ f.pc \in ReadingFat /\ UsesFat /\ Cached
  BY DEF NextEntry, UsesFat
<1>2. /\ f \in Frames /\ f.cur \in Clusters /\ Target(f) = f.cur
      /\ \/ f.op = "save" /\ f.pc \in {"scan", "next"}
         \/ f.op = "load" /\ f.pc = "follow"
      /\ FrameFits(f, dir, sectorBuf, fatCache, fatCacheLba)
      /\ f.op = "save" => SaveFits(f, m, data, dir, own, p)
  BY <1>1, FatTop DEF ReadingFat, Target
<1>3. PICK value, g : value = fatCache[f.cur] /\ g = AfterNext(f, value)
  OBVIOUS
<1>4. Continue(g) /\ fatCacheLba' = FatSector(f.cur)
      /\ UNCHANGED <<fat, dir, fatCache, cuts, faults>>
  BY <1>2, <1>3 DEF NextEntry, disk
<1>5. /\ m = May(fat[1], fatCache, FatSector(f.cur))
      /\ value \in m[f.cur] /\ value \in Links
  BY <1>1, <1>2, <1>3, CachedIs
<1>6. /\ ~g.loaded /\ g.op = f.op
      /\ f.pc = "scan" =>
          \/ g.pc \in {"scan", "claim"} /\ g.flawed = f.flawed
          \/ /\ g.pc \in {"next", "return"} /\ (g.pc = "return" => f.first = 0)
             /\ g.pc = "next" => g.cur = f.first /\ f.first \in Clusters
      /\ f.pc = "next" => g.pc = "release" /\ g.cur = f.cur /\ g.nxt = value
  <2>1. f.pc = "follow" => f.op = "load"
    BY <1>2
  <2> QED
    BY <1>1, <1>2, <1>3, <1>5, <2>1, AfterNextGoes
<1>7. PICK x, y, d, image : x = ops /\ y = ops' /\ d = cuts + faults /\ image = dir
  OBVIOUS
<1>8. x = <<f>> /\ y = <<g>> /\ ops' = <<g>> /\ ops' # <<>> /\ ops'[1] = g
  BY <1>1, <1>4, <1>7, TopIs
<1>9. m2 = m /\ Within(m2, m)
  <2>1. Tag(ops, fatCacheLba)' = FatSector(f.cur)
    BY <1>4, <1>6, <1>8 DEF Tag
  <2>2. m2 = m
    BY <1>4, <1>5, <2>1
  <2> QED
    BY <2>2 DEF Within
<1>10. Leaks(m, image, x, own, d, ch, w, lost)
  BY <1>7 DEF Owed
<1>11. ASSUME NEW w2, NEW lost2, Leaks(m, image, y, own, d, ch, w2, lost2)
       PROVE  \E w3, lost3 : Owed(own, ch, w3, lost3)'
  <2>1. cuts' + faults' = d /\ dir' = image
    BY <1>4, <1>7
  <2>2. Owed(own, ch, w2, lost2)'
    BY <1>7, <1>9, <1>11, <2>1 DEF Owed
  <2> QED
    BY <2>2
<1>12. ASSUME Keeps(g, f, own) PROVE \E w2, lost2 : Owed(own, ch, w2, lost2)'
  <2>1. Owed(own, ch, w, lost)'
    BY <1>1, <1>4, <1>8, <1>9, <1>12, LeakKeeps
  <2> QED
    BY <2>1
<1>13. d \in Nat
  BY <1>7, BoundAssumption DEF Types
<1>14. CASE f.op = "load"
  BY <1>6, <1>12, <1>14, LoadKeeps
<1>15. CASE f.op = "save" /\ f.pc = "scan" /\ g.pc \in {"scan", "claim"}
  <2>1. g.flawed = f.flawed
    BY <1>6, <1>15
  <2>2. Keeps(g, f, own)
    BY <1>6, <1>15, <2>1 DEF Keeps, Building, Aimed, Allocating
  <2> QED
    BY <1>12, <2>2
<1>16. CASE f.op = "save" /\ f.pc = "scan" /\ g.pc \in {"next", "return"}
  <2>1. PICK buf, cache, lba, blocks : /\ buf = sectorBuf /\ cache = fatCache
                                       /\ lba = fatCacheLba /\ blocks = data
    OBVIOUS
  <2>2. FrameFits(f, image, buf, cache, lba) /\ SaveFits(f, m, blocks, image, own, p)
    BY <1>2, <1>7, <1>16, <2>1
  <2>3. /\ g.op = "save" /\ (g.pc = "return" => f.first = 0)
        /\ g.pc = "next" => g.cur = f.first
    BY <1>6, <1>16
  <2>4. \E w2, lost2 : Leaks(m, image, y, own, d, ch, w2, lost2)
    BY <1>8, <1>10, <1>13, <1>16, <2>2, <2>3, LeaksFull
  <2> QED
    BY <1>11, <2>4
<1>17. CASE f.op = "save" /\ f.pc = "next"
  <2>1. g.op = "save" /\ g.pc = "release" /\ g.cur = f.cur /\ g.nxt \in m[f.cur]
    BY <1>5, <1>6, <1>17
  <2>2. Leaks(m, image, y, own, d, ch, w, lost)
    BY <1>2, <1>8, <1>10, <1>17, <2>1, LeaksFollowed
  <2> QED
    BY <1>11, <2>2
<1> QED
  BY <1>2, <1>6, <1>14, <1>15, <1>16, <1>17

\* The cache is changed: no file's chain, and nothing that is not in hand.
LEMMA LeaksSet ==
  ASSUME NEW f, NEW image, NEW buf, NEW cache, NEW lba, FrameFits(f, image, buf, cache, lba),
         f.op = "save", f.pc \in SettingFat, Target(f) \in Clusters,
         NEW m, NEW m2, Sets(m2, m, Target(f), NewValue(f)),
         NEW blocks, NEW own \in [Clusters -> Owners], NEW p,
         Volume(m, image, own), SaveFits(f, m, blocks, image, own, p),
         NEW x, x = <<f>>, NEW g, NEW y, y = <<g>>, Same(g, f),
         NEW d, NEW ch, NEW w, NEW lost, Leaks(m, image, x, own, d, ch, w, lost)
  PROVE  Leaks(m2, image, y, own, d, ch, w, lost)
<1>1. x # <<>> /\ x[1] = f /\ y # <<>> /\ y[1] = g /\ f \in Frames
  BY DEF FrameFits
<1>2. PICK t, v : t = Target(f) /\ v = NewValue(f)
  OBVIOUS
<1>3. Sets(m2, m, t, v) /\ t \in Clusters
  BY <1>2
<1>4. own[t] \in {0, Mine}
  BY <1>1, <1>2, TargetIsOwn
<1>5. Busy(y, own) = Busy(x, own) /\ (Owes(y) <=> Owes(x))
  BY <1>1 DEF Busy, Owes, Builds, Same
<1>6. Charted(ch, m2, image, own)
  <2> SUFFICES ASSUME NEW s \in 1 .. DirSlots PROVE Chain(ch[s], s, m2, image, own)
    BY DEF Charted
  <2> PICK q : q = ch[s]
    OBVIOUS
  <2>1. Chain(q, s, m, image, own) /\ q \in Seq(Clusters)
    BY DEF Leaks, Charted, Chain, List
  <2>2. \A j \in 1 .. Len(q) : q[j] \in Clusters /\ q[j] # t
    BY <1>4, <2>1, Numbers DEF Chain
  <2>3. Leads(q, 1, m2)
    <3> SUFFICES ASSUME NEW j \in 1 .. Len(q) - 1 PROVE m2[q[j]] \subseteq {q[j + 1]}
      BY DEF Leads
    <3>1. j \in 1 .. Len(q) /\ 1 <= j
      BY <2>1
    <3>2. m[q[j]] \subseteq {q[j + 1]}
      BY <2>1, <3>1 DEF Chain, Leads
    <3> QED
      BY <1>3, <2>2, <3>1, <3>2 DEF Sets
  <2> QED
    BY <2>1, <2>3 DEF Chain
<1>7. Trails(w, y, m2)
  <2>1. List(w) /\ w \in Seq(Clusters) /\ Len(w) \in Nat
    BY DEF Leaks, Trails, List
  <2>2. ASSUME w # <<>> PROVE /\ f.pc = "release" /\ f.cur = w[1] /\ Leads(w, 2, m)
                              /\ (Len(w) > 1 => f.nxt = w[2]) /\ t = w[1]
    <3>1. f.pc = "release"
      BY <1>1, <2>2 DEF Leaks, Trails, SettingFat
    <3> QED
      BY <1>1, <1>2, <2>2, <3>1 DEF Leaks, Trails, Target
  <2>3. ASSUME w # <<>> PROVE Leads(w, 2, m2)
    <3> SUFFICES ASSUME NEW j \in 1 .. Len(w) - 1, 2 <= j PROVE m2[w[j]] \subseteq {w[j + 1]}
      BY DEF Leads
    <3>1. j \in 1 .. Len(w) /\ 1 \in 1 .. Len(w) /\ j # 1
      BY <2>1
    <3>2. w[j] \in Clusters /\ w[j] # w[1]
      BY <2>1, <3>1 DEF List
    <3>3. m[w[j]] \subseteq {w[j + 1]}
      BY <2>2, <2>3 DEF Leads
    <3> QED
      BY <1>3, <2>2, <2>3, <3>2, <3>3 DEF Sets
  <2> QED
    BY <1>1, <2>1, <2>2, <2>3 DEF Trails, Same
<1>8. Covered(m2, y, own, ch, w, lost)
  <2> SUFFICES ASSUME NEW c \in Clusters, ~(m2[c] \subseteq {Free})
               PROVE  \/ c \in lost \/ c \in Busy(x, own) \/ Listed(c, w)
                      \/ \E s \in 1 .. DirSlots : Listed(c, ch[s])
    BY <1>5 DEF Covered
  <2>1. CASE c # t
    <3>1. ~(m[c] \subseteq {Free})
      BY <1>3, <2>1 DEF Sets
    <3> QED
      BY <3>1 DEF Leaks, Covered
  <2>2. CASE c = t /\ f.pc = "release"
    <3>1. v = Free
      BY <1>2, <2>2 DEF NewValue
    <3>2. ~(m[c] \subseteq {Free})
      BY <1>3, <2>2, <3>1 DEF Sets
    <3> QED
      BY <3>2 DEF Leaks, Covered
  <2>3. CASE c = t /\ f.pc # "release"
    <3>1. f.pc \in {"claim", "link"} /\ f.pc \in Building /\ Builds(x)
      BY <1>1, <2>3 DEF SettingFat, Builds, Building, Aimed, Allocating
    <3>2. CASE f.pc = "claim"
      BY <1>1, <1>2, <2>3, <3>1, <3>2 DEF Busy, Target
    <3>3. CASE f.pc = "link"
      <4>1. own[t] = Mine
        <5>1. Takes(f, m, blocks, own, p)
          BY <3>1 DEF SaveFits
        <5>2. Target(f) = p[f.i] /\ f.i \in 1 .. Taken(f)
          BY <1>1, <3>3, <5>1, LinkIs
        <5> QED
          BY <1>2, <1>3, <5>1, <5>2 DEF Takes
      <4> QED
        BY <2>3, <3>1, <4>1 DEF Busy
    <3> QED
      BY <3>1, <3>2, <3>3
  <2> QED
    BY <2>1, <2>2, <2>3
<1>9. Paid(y, d, lost)
  BY <1>5 DEF Leaks, Paid
<1> QED
  BY <1>6, <1>7, <1>8, <1>9 DEF Leaks

\* SetEntry.
LEMMA LeakSetEntry ==
  ASSUME SomeLargest, Orderly, Types, Types', NEW own, NEW p, NEW ver, NEW path,
         Now(own, p, ver, path), NEW ch, NEW w, NEW lost, Owed(own, ch, w, lost), SetEntry
  PROVE  \E w2, lost2 : Owed(own, ch, w2, lost2)'
<1> PICK f, m, m2 : /\ f = Top /\ m = May(fat[1], fatCache, Tag(ops, fatCacheLba))
                    /\ m2 = May(fat[1], fatCache, Tag(ops, fatCacheLba))'
  OBVIOUS
<1>1. ops # <<>> /\ f.pc \in SettingFat /\ UsesFat /\ Cached
  BY DEF SetEntry, UsesFat
<1>2. /\ f \in Frames /\ Target(f) \in Clusters /\ f.op = "save"
      /\ FrameFits(f, dir, sectorBuf, fatCache, fatCacheLba)
      /\ SaveFits(f, m, data, dir, own, p) /\ own \in [Clusters -> Owners]
  BY <1>1, FatTop DEF SettingFat
<1>3. PICK t, v : t = Target(f) /\ v = NewValue(f)
  OBVIOUS
<1>4. m = May(fat[1], fatCache, FatSector(t)) /\ Volume(m, dir, own)
  BY <1>1, <1>2, <1>3, CachedIs, NowIs
<1>5. PICK k, g : k \in 0 .. NumFats /\ k = 1 /\ g = Marked(f, k)
  BY Numbers
<1>6. Continue(g) /\ fatCacheLba' = FatSector(t) /\ fatCache' = [fatCache EXCEPT ![t] = v]
      /\ UNCHANGED <<fat, dir, cuts, faults>>
  BY <1>3, <1>5 DEF SetEntry, Marked, disk
<1>7. Same(g, f)
  BY <1>2, <1>5, MarkedIs
<1>8. PICK x, y, d, image : x = ops /\ y = ops' /\ d = cuts + faults /\ image = dir
  OBVIOUS
<1>9. x = <<f>> /\ y = <<g>> /\ ops' = <<g>> /\ ops' # <<>> /\ ops'[1] = g
  BY <1>1, <1>6, <1>8, TopIs
<1>10. Sets(m2, m, Target(f), NewValue(f))
  <2>1. Tag(ops, fatCacheLba)' = FatSector(t)
    <3>1. Target(g) = Target(f)
      BY <1>7 DEF Same, Target
    <3> QED
      BY <1>3, <1>6, <1>9, <3>1 DEF Tag
  <2>2. m2 = May(fat[1], [fatCache EXCEPT ![t] = v], FatSector(t))
    BY <1>6, <2>1
  <2>3. fatCache \in [Clusters -> Links] /\ t \in Clusters
    BY <1>2, <1>3 DEF Types
  <2>4. Sets(May(fat[1], [fatCache EXCEPT ![t] = v], FatSector(t)),
             May(fat[1], fatCache, FatSector(t)), t, v)
    BY <2>3, MaySet
  <2> QED
    BY <1>3, <1>4, <2>2, <2>4
<1>11. Leaks(m, image, x, own, d, ch, w, lost)
  BY <1>8 DEF Owed
<1>12. PICK buf, cache, lba, blocks : /\ buf = sectorBuf /\ cache = fatCache
                                      /\ lba = fatCacheLba /\ blocks = data
  OBVIOUS
<1>13. /\ FrameFits(f, image, buf, cache, lba) /\ SaveFits(f, m, blocks, image, own, p)
       /\ Volume(m, image, own)
  BY <1>2, <1>4, <1>8, <1>12
<1>14. Leaks(m2, image, y, own, d, ch, w, lost)
  BY <1>1, <1>2, <1>7, <1>9, <1>10, <1>11, <1>13, LeaksSet
<1>15. cuts' + faults' = d /\ dir' = image
  BY <1>6, <1>8
<1>16. Owed(own, ch, w, lost)'
  BY <1>8, <1>14, <1>15 DEF Owed
<1> QED
  BY <1>16

\* WriteFat.
LEMMA LeakWriteFat ==
  ASSUME SomeLargest, Orderly, Types, Types', NEW own, NEW p, NEW ver, NEW path,
         Now(own, p, ver, path), NEW ch, NEW w, NEW lost, Owed(own, ch, w, lost), WriteFat,
         NEW own2, own2 = IF Claims THEN Added(own, Top.cur) ELSE own
  PROVE  \E w2, lost2 : Owed(own2, ch, w2, lost2)'
<1> PICK f, m, m2 : /\ f = Top /\ m = May(fat[1], fatCache, Tag(ops, fatCacheLba))
                    /\ m2 = May(fat[1], fatCache, Tag(ops, fatCacheLba))'
  OBVIOUS
<1>1. ops # <<>> /\ f.mirror > 0 /\ UNCHANGED <<dir, fatCache, fatCacheLba, cuts>>
  BY DEF WriteFat, driver
<1>2. PICK t, v : t = Target(f) /\ v = NewValue(f)
  OBVIOUS
<1>3. /\ f \in Frames /\ f.mirror \in 1 .. NumFats
      /\ f.pc \in SettingFat /\ fatCacheLba = FatSector(t) /\ fatCache[t] = v
  <2>1. FrameFits(f, dir, sectorBuf, fatCache, fatCacheLba) /\ f \in Frames
    BY <1>1, TopIs
  <2>2. f.mirror \in 1 .. NumFats
    BY <1>1, <2>1, FrameHas, Numbers
  <2> QED
    BY <1>1, <1>2, <2>1, <2>2 DEF FrameFits
<1>4. /\ t \in Clusters /\ f.op = "save" /\ f.cur \in Clusters
      /\ SaveFits(f, m, data, dir, own, p) /\ own \in [Clusters -> Owners]
      /\ f.pc = "release" => f.ret \in {"ok", "error"}
  BY <1>1, <1>2, <1>3, FatTop DEF SettingFat
<1>5. m = May(fat[1], fatCache, FatSector(t))
  <2>1. m = May(fat[1], fatCache, IF f.loaded THEN FatSector(Target(f)) ELSE fatCacheLba)
    BY <1>1, NowIs
  <2>2. (IF f.loaded THEN FatSector(Target(f)) ELSE fatCacheLba) = FatSector(t)
    BY <1>2, <1>3
  <2> QED
    BY <2>1, <2>2
<1>6. PICK o \in WriteOutcomes :
        /\ Account(o)
        /\ fat' = IF o = "lost" THEN fat
                  ELSE [fat EXCEPT ![f.mirror] = [c \in Clusters |->
                            IF FatSector(c) = FatSector(t) THEN fatCache[c]
                            ELSE fat[f.mirror][c]]]
        /\ Continue(IF o = "ok" /\ f.mirror < NumFats THEN Marked(f, f.mirror + 1)
                    ELSE AfterSet(f, o = "ok"))
  BY <1>2 DEF WriteFat, Marked
<1>7. \/ o = "ok" /\ faults' = faults
      \/ o = "lost" /\ o # "ok" /\ faults' = faults + 1 /\ faults' # faults
  <2>1. faults \in Nat
    BY BoundAssumption DEF Types
  <2> QED
    BY <1>6, <2>1, OutcomePays
<1>8. ASSUME NEW g, Continue(g), g.loaded => Target(g) = t
      PROVE  /\ ops' = <<g>> /\ ops' # <<>> /\ ops'[1] = g
             /\ m2 = May(fat'[1], fatCache, FatSector(t))
  <2>1. ops' = <<g>> /\ ops' # <<>> /\ ops'[1] = g
    BY <1>1, <1>8, TopIs
  <2>2. Tag(ops, fatCacheLba)' = FatSector(t)
    BY <1>1, <1>3, <1>8, <2>1 DEF Tag
  <2> QED
    BY <1>1, <2>1, <2>2
<1>9. PICK x, y, d, image : x = ops /\ y = ops' /\ d = cuts + faults /\ image = dir
  OBVIOUS
<1>10. /\ Leaks(m, image, x, own, d, ch, w, lost) /\ dir' = image /\ x = <<f>> /\ x[1] = f
       /\ d \in Nat
  BY <1>1, <1>9, TopIs, BoundAssumption DEF Owed, Types
<1>11. CASE o = "lost"
  <2>1. PICK ok, g : ok \in BOOLEAN /\ ok = FALSE /\ g = AfterSet(f, ok)
    OBVIOUS
  <2>2. Continue(g) /\ fat' = fat /\ faults' = faults + 1 /\ o # "ok" /\ faults' # faults
    <3>1. o # "ok" /\ faults' = faults + 1 /\ faults' # faults
      BY <1>7, <1>11
    <3>2. AfterSet(f, o = "ok") = g
      BY <2>1, <3>1
    <3> QED
      BY <1>6, <1>11, <3>1, <3>2
  <2>3. /\ ~g.loaded /\ g.op = f.op
        /\ f.pc = "claim" => g.pc \in {"next", "return"}
        /\ f.pc = "release" => g.pc \in {"next", "return", "flush"}
    BY <1>3, <1>4, <2>1, AfterSetGoes
  <2>4. Lapses(g, f)
    BY <1>3, <2>3 DEF Lapses, Building, Aimed, Allocating, SettingFat
  <2>5. ops' = <<g>> /\ Within(m2, m)
    BY <1>5, <1>8, <2>2, <2>3 DEF Within
  <2>6. own2 = own
    BY <2>2 DEF Claims
  <2>7. \E w2, lost2 : Owed(own, ch, w2, lost2)'
    BY <1>1, <2>2, <2>4, <2>5, LeakFails
  <2> QED
    BY <2>6, <2>7
<1>12. CASE o = "ok"
  <2>1. /\ faults' = faults /\ o # "lost"
        /\ fat' = [fat EXCEPT ![f.mirror] = [c \in Clusters |->
                            IF FatSector(c) = FatSector(t) THEN fatCache[c]
                            ELSE fat[f.mirror][c]]]
    BY <1>6, <1>7, <1>12
  <2>2. f.mirror > 1 => m[t] \subseteq {v}
    BY <1>2, <1>4 DEF SaveFits
  <2>3. ASSUME NEW g, Continue(g), g.loaded => Target(g) = t
        PROVE  ops' = <<g>> /\ y = <<g>> /\ Within(m2, m) /\ m2[t] \subseteq {v}
    <3>1. ops' = <<g>> /\ m2 = May(fat'[1], fatCache, FatSector(t))
      BY <1>8, <2>3
    <3>2. Within(m2, m) /\ m2[t] \subseteq {v}
      BY <1>2, <1>3, <1>4, <1>5, <2>1, <2>2, <3>1, MirrorMay
    <3> QED
      BY <1>9, <3>1, <3>2
  <2>4. CASE f.mirror < NumFats
    <3>1. PICK k, g : k \in 0 .. NumFats /\ k = f.mirror + 1 /\ g = Marked(f, k)
      BY <1>3, <2>4, Numbers
    <3>2. Continue(g) /\ Same(g, f)
      BY <1>3, <1>6, <1>12, <2>4, <3>1, MarkedIs
    <3>3. Target(g) = t /\ Keeps(g, f, own)
      BY <1>2, <3>2 DEF Same, Target, Keeps
    <3>4. ops' = <<g>> /\ Within(m2, m)
      BY <2>3, <3>2, <3>3
    <3>5. own2 = own
      BY <2>4 DEF Claims
    <3>6. Owed(own, ch, w, lost)'
      BY <1>1, <2>1, <3>3, <3>4, LeakKeeps
    <3> QED
      BY <3>5, <3>6
  <2>5. CASE ~(f.mirror < NumFats)
    <3>1. PICK ok, g : ok \in BOOLEAN /\ ok = TRUE /\ g = AfterSet(f, ok)
      OBVIOUS
    <3>2. Continue(g)
      BY <1>6, <1>12, <2>5, <3>1
    <3>3. /\ ~g.loaded /\ g.op = f.op
          /\ f.pc = "claim" => g.pc \in {"link", "fill"} /\ g.flawed = f.flawed
          /\ f.pc = "link" => g.pc = "fill" /\ g.flawed = f.flawed
          /\ f.pc = "release" => IF f.nxt \in Clusters THEN g.pc = "next" /\ g.cur = f.nxt
                                 ELSE g.pc \in {"return", "flush"}
      BY <1>3, <1>4, <3>1, AfterSetGoes
    <3>4. ops' = <<g>> /\ y = <<g>> /\ Within(m2, m) /\ m2[t] \subseteq {v}
      BY <2>3, <3>2, <3>3
    <3>5. ASSUME NEW w2, NEW lost2, Leaks(m2, image, y, own2, d, ch, w2, lost2)
          PROVE  \E w3, lost3 : Owed(own2, ch, w3, lost3)'
      <4>1. cuts' + faults' = d
        BY <1>1, <1>9, <2>1
      <4>2. Owed(own2, ch, w2, lost2)'
        BY <1>9, <1>10, <3>5, <4>1 DEF Owed
      <4> QED
        BY <4>2
    <3>6. CASE f.pc = "claim"
      <4>1. Claims /\ own2 = Added(own, f.cur) /\ own[f.cur] = 0
        BY <1>4, <2>1, <2>5, <3>6 DEF Claims, SaveFits
      <4>2. own2[f.cur] = Mine /\ \A c \in Clusters \ {f.cur} : own2[c] = own[c]
        BY <1>4, <4>1 DEF Added
      <4>3. \A c \in Clusters : own[c] \in 1 .. DirSlots => own2[c] = own[c]
        BY <4>1, <4>2, Numbers
      <4>4. y[1] = g /\ y # <<>>
        BY <3>4
      <4>5. Busy(x, own) \subseteq Busy(y, own2)
        BY <1>4, <1>10, <3>3, <3>6, <4>2, <4>4
        DEF Busy, Builds, Building, Aimed, Allocating
      <4>6. Owes(y) => Owes(x)
        BY <1>10, <3>3, <3>6, <4>4 DEF Owes, Builds, Building, Aimed, Allocating
      <4>7. w = <<>>
        BY <1>10, <3>6 DEF Leaks, Trails
      <4>8. PICK e : e = d
        OBVIOUS
      <4>9. Owes(y) => Owes(x) \/ e = d + 1
        BY <4>6
      <4>10. w # <<>> => /\ y # <<>> /\ y[1].op = "save" /\ y[1].pc = x[1].pc
                         /\ y[1].cur = x[1].cur /\ y[1].nxt = x[1].nxt
        BY <4>7
      <4>11. Leaks(m2, image, y, own2, e, ch, w, lost)
        BY <1>10, <3>4, <4>3, <4>5, <4>8, <4>9, <4>10, LeaksKept
      <4> QED
        BY <3>5, <4>8, <4>11
    <3>7. CASE f.pc = "link"
      <4>1. own2 = own
        BY <3>7 DEF Claims
      <4>2. Keeps(g, f, own)
        BY <1>4, <3>3, <3>7 DEF Keeps, Building, Aimed, Allocating
      <4>3. Owed(own, ch, w, lost)'
        BY <1>1, <2>1, <3>4, <4>2, LeakKeeps
      <4> QED
        BY <4>1, <4>3
    <3>8. CASE f.pc = "release"
      <4>1. own2 = own
        BY <3>8 DEF Claims
      <4>2. t = f.cur /\ v = Free
        BY <1>2, <3>8 DEF Target, NewValue
      <4>3. /\ g.op = "save" /\ m2[f.cur] \subseteq {Free}
            /\ IF f.nxt \in Clusters THEN g.pc = "next" /\ g.cur = f.nxt
               ELSE g.pc \in {"return", "flush"}
        BY <1>4, <3>3, <3>4, <3>8, <4>2
      <4>4. \E w2 : Leaks(m2, image, y, own, d, ch, w2, lost)
        BY <1>4, <1>10, <3>4, <3>8, <4>3, LeaksReleased
      <4> QED
        BY <3>5, <4>1, <4>4
    <3> QED
      BY <1>3, <3>6, <3>7, <3>8 DEF SettingFat
  <2> QED
    BY <2>4, <2>5
<1> QED
  BY <1>7, <1>11, <1>12

-----------------------------------------------------------------------------
(***************************************************************************)
(* The commit, and what comes before and after an operation.               *)
(***************************************************************************)
\* The clusters taken become the file's chain, and its old chain is to be freed.
LEMMA LeaksCommitted ==
  ASSUME SomeLargest, NEW f, NEW image, NEW buf, NEW cache, NEW lba,
         FrameFits(f, image, buf, cache, lba), NEW m, NEW blocks,
         NEW own \in [Clusters -> Owners], NEW p,
         SaveFits(f, m, blocks, image, own, p), f.op = "save", f.pc = "writeback",
         NEW image2, image2 = [image EXCEPT ![f.slot] =
                        [name |-> f.name, first |-> f.first, size |-> Size(f.ver)]],
         image \in Directory, NEW x, x = <<f>>, NEW g, NEW y, y = <<g>>, g.op = "save",
         IF f.old = 0 THEN g.pc = "flush" ELSE g.pc = "next" /\ g.cur = f.old,
         NEW d \in Nat, NEW ch, NEW w, NEW lost, Leaks(m, image, x, own, d, ch, w, lost)
  PROVE  \E ch2, w2, lost2 : Leaks(m, image2, y, Swapped(own, f.slot), d, ch2, w2, lost2)
<1>1. x # <<>> /\ x[1] = f /\ y # <<>> /\ y[1] = g /\ f \in Frames
  BY DEF FrameFits
<1>2. PICK s, own2 : s = f.slot /\ own2 = Swapped(own, s)
  OBVIOUS
<1>3. /\ Aims(f, image) /\ s \in 1 .. DirSlots /\ s # Mine
  BY <1>2, Numbers DEF SaveFits, Aimed, Allocating, Aims
<1>4. /\ image2[s].name = f.name /\ image2[s].first = f.first
      /\ \A r \in 1 .. DirSlots : r # s => image2[r] = image[r]
  BY <1>2, <1>3 DEF Directory
<1>5. \A c \in Clusters : own2[c] = IF own[c] = Mine THEN s ELSE IF own[c] = s THEN Mine
                                    ELSE own[c]
  BY <1>2 DEF Swapped
<1>6. /\ List(p) /\ Len(p) = f.i /\ (~f.flawed => Leads(p, 1, m)) /\ f.first = Start(p, f.i)
      /\ \A c \in Busy(x, own) : Listed(c, p)
      /\ \A j \in 1 .. Len(p) : p[j] \in Clusters /\ own[p[j]] = Mine
  BY TakenList
<1>7. Owes(x) <=> f.flawed
  BY <1>1 DEF Owes, Builds, Building, Aimed, Allocating
<1>8. ~Builds(y) /\ ~Owes(y)
  BY <1>1 DEF Builds, Owes, Building, Aimed, Allocating
<1>9. w = <<>>
  BY <1>1 DEF Leaks, Trails
<1>10. PICK new : new = IF f.flawed THEN <<>> ELSE p
  OBVIOUS
<1>11. PICK ch2 : ch2 = [r \in 1 .. DirSlots |-> IF r = s THEN new ELSE ch[r]]
  OBVIOUS
<1>12. PICK lost2 : lost2 = IF Owes(x) THEN lost \cup Busy(x, own) ELSE lost
  OBVIOUS
<1>13. PICK w2 : w2 = ch[s]
  OBVIOUS
<1>14. ch2[s] = new /\ \A r \in 1 .. DirSlots : r # s => ch2[r] = ch[r]
  BY <1>3, <1>11
<1>15. Chain(new, s, m, image2, own2)
  <2>1. CASE f.flawed
    <3>1. new = <<>> /\ List(<<>>)
      BY <1>10, <2>1, LargestIs DEF List
    <3> QED
      BY <3>1 DEF Chain, Leads
  <2>2. CASE ~f.flawed
    <3>1. new = p /\ Leads(p, 1, m)
      BY <1>6, <1>10, <2>2
    <3>2. \A j \in 1 .. Len(p) : own2[p[j]] = s
      BY <1>5, <1>6
    <3>3. ASSUME p # <<>> PROVE image2[s].name \in Names /\ image2[s].first = p[1]
      <4>1. f.i # 0
        BY <1>6, <3>3 DEF List
      <4> QED
        BY <1>1, <1>4, <1>6, <4>1, FrameHas DEF Start
    <3> QED
      BY <1>6, <3>1, <3>2, <3>3 DEF Chain
  <2> QED
    BY <2>1, <2>2
<1>16. Charted(ch2, m, image2, own2)
  <2> SUFFICES ASSUME NEW r \in 1 .. DirSlots, r # s PROVE Chain(ch[r], r, m, image2, own2)
    BY <1>14, <1>15 DEF Charted
  <2> PICK q : q = ch[r]
    OBVIOUS
  <2>1. Chain(q, r, m, image, own) /\ q \in Seq(Clusters)
    BY DEF Leaks, Charted, Chain, List
  <2>2. \A j \in 1 .. Len(q) : q[j] \in Clusters
    BY <2>1
  <2>3. \A j \in 1 .. Len(q) : own2[q[j]] = r
    BY <1>5, <2>1, <2>2, Numbers DEF Chain
  <2>4. image2[r] = image[r]
    BY <1>4
  <2> QED
    BY <2>1, <2>3, <2>4 DEF Chain
<1>17. Chain(w2, s, m, image, own)
  BY <1>3, <1>13 DEF Leaks, Charted
<1>18. Trails(w2, y, m)
  <2>1. List(w2) /\ Leads(w2, 1, m)
    BY <1>17 DEF Chain
  <2>2. ASSUME w2 # <<>> PROVE g.pc = "next" /\ g.cur = w2[1]
    <3>1. image[s].name \in Names /\ image[s].first = w2[1]
      BY <1>17, <2>2 DEF Chain
    <3>2. w2[1] \in Clusters
      BY <2>1, <2>2 DEF List
    <3>3. f.old = w2[1]
      BY <1>2, <1>3, <3>1, GeometryAssumption DEF Aims
    <3> QED
      BY <3>2, <3>3, Numbers
  <2> QED
    BY <1>1, <2>1, <2>2 DEF Trails
<1>19. Covered(m, y, own2, ch2, w2, lost2)
  <2> SUFFICES ASSUME NEW c \in Clusters, ~(m[c] \subseteq {Free})
               PROVE  \/ c \in lost2 \/ Listed(c, w2)
                      \/ \E r \in 1 .. DirSlots : Listed(c, ch2[r])
    BY DEF Covered
  <2>1. \/ c \in lost \/ c \in Busy(x, own) \/ Listed(c, w)
        \/ \E r \in 1 .. DirSlots : Listed(c, ch[r])
    BY DEF Leaks, Covered
  <2>2. ~Listed(c, w)
    BY <1>9 DEF Listed
  <2>3. c \in lost => c \in lost2
    BY <1>12
  <2>4. CASE c \in Busy(x, own)
    BY <1>3, <1>6, <1>7, <1>10, <1>12, <1>14, <2>4
  <2>5. ASSUME NEW r \in 1 .. DirSlots, Listed(c, ch[r])
        PROVE  Listed(c, w2) \/ Listed(c, ch2[r])
    BY <1>13, <1>14, <2>5
  <2> QED
    BY <2>1, <2>2, <2>3, <2>4, <2>5
<1>20. Cardinality(Busy(x, own)) <= Largest
  BY BusyIsBounded
<1>21. Paid(y, d, lost2)
  BY <1>8, <1>12, <1>20, PaidOff DEF Leaks
<1>22. Leaks(m, image2, y, own2, d, ch2, w2, lost2)
  BY <1>16, <1>18, <1>19, <1>21 DEF Leaks
<1> QED
  BY <1>2, <1>22

\* Writeback.
LEMMA LeakWriteback ==
  ASSUME SomeLargest, Orderly, Types, Types', NEW own, NEW p, NEW ver, NEW path,
         Now(own, p, ver, path), NEW ch, NEW w, NEW lost, Owed(own, ch, w, lost), Writeback,
         NEW own2, own2 = IF faults' = faults THEN Swapped(own, Top.slot) ELSE own
  PROVE  \E ch2, w2, lost2 : Owed(own2, ch2, w2, lost2)'
<1> PICK f, m : f = Top /\ m = May(fat[1], fatCache, Tag(ops, fatCacheLba))
  OBVIOUS
<1>1. ops # <<>> /\ f.pc = "writeback" /\ UNCHANGED <<fat, fatCache, fatCacheLba, cuts>>
  BY DEF Writeback, At, driver
<1>2. /\ f \in Frames /\ ~f.loaded /\ f.op = "save"
      /\ FrameFits(f, dir, sectorBuf, fatCache, fatCacheLba)
      /\ SaveFits(f, m, data, dir, own, p) /\ own \in [Clusters -> Owners]
  BY <1>1, TopIs, QuietTop, NowIs DEF ReadingFat, SettingFat
<1>3. /\ sectorBuf.kind = "dir"
      /\ sectorBuf.image = [dir EXCEPT ![f.slot] =
                    [name |-> f.name, first |-> f.first, size |-> Size(f.ver)]]
  BY <1>1, <1>2 DEF FrameFits
<1>4. PICK o \in WriteOutcomes :
        /\ Account(o)
        /\ dir' = IF o = "lost" THEN dir ELSE sectorBuf.image
        /\ Continue(IF o = "ok" THEN FreeChain(f, f.old, "ok") ELSE GiveUp(f))
  BY <1>3 DEF Writeback
<1>5. \/ o = "ok" /\ faults' = faults
      \/ o = "lost" /\ o # "ok" /\ faults' = faults + 1 /\ faults' # faults
  <2>1. faults \in Nat
    BY BoundAssumption DEF Types
  <2> QED
    BY <1>4, <2>1, OutcomePays
<1>6. CASE o = "lost"
  <2> PICK g : g = GiveUp(f)
    OBVIOUS
  <2>1. g.pc \in {"next", "return"} /\ ~g.loaded
    BY <1>2, GiveUpLapses
  <2>2. Lapses(g, f)
    BY <2>1 DEF Lapses, Building, Aimed, Allocating
  <2>3. Continue(g) /\ faults' = faults + 1 /\ dir' = dir /\ own2 = own
    BY <1>4, <1>5, <1>6
  <2>4. \E w2, lost2 : Owed(own, ch, w2, lost2)'
    BY <1>1, <1>2, <2>1, <2>2, <2>3, LeakQuiet
  <2> QED
    BY <2>3, <2>4
<1>7. CASE o = "ok"
  <2>0. PICK ret \in {"ok", "error"}, c \in {0} \cup Clusters : ret = "ok" /\ c = f.old
    BY <1>2, FrameHas
  <2>1. PICK g : g = FreeChain(f, c, ret)
    OBVIOUS
  <2>2. /\ g.op = "save" /\ ~g.loaded
        /\ IF f.old = 0 THEN g.pc = "flush" ELSE g.pc = "next" /\ g.cur = f.old
    <3>1. /\ Over(g, f, ret)
          /\ c # 0 => g.pc = "next" /\ g.cur = c
          /\ c = 0 => g.pc = IF ret = "ok" THEN "flush" ELSE "return"
      <4>1. f \in Frames
        BY <1>2
      <4> QED
        BY <2>1, <4>1, FreeChainIs
    <3> QED
      BY <1>2, <2>0, <3>1 DEF Over
  <2>3. Continue(g) /\ dir' = sectorBuf.image /\ faults' = faults
    BY <1>4, <1>5, <1>7, <2>0, <2>1
  <2>4. PICK x, y, d, image, image2 : /\ x = ops /\ y = ops' /\ d = cuts + faults
                                      /\ image = dir /\ image2 = dir'
    OBVIOUS
  <2>5. x = <<f>> /\ y = <<g>> /\ ops' = <<g>>
    BY <1>1, <2>3, <2>4, TopIs
  <2>6. m = May(fat[1], fatCache, Tag(ops, fatCacheLba))'
    BY <1>1, <1>2, <2>2, <2>5, QuietMay
  <2>7. Leaks(m, image, x, own, d, ch, w, lost) /\ d \in Nat /\ image \in Directory
    BY <2>4, BoundAssumption DEF Owed, Types
  <2>8. PICK buf, cache, lba, blocks : /\ buf = sectorBuf /\ cache = fatCache
                                       /\ lba = fatCacheLba /\ blocks = data
    OBVIOUS
  <2>9. /\ FrameFits(f, image, buf, cache, lba) /\ SaveFits(f, m, blocks, image, own, p)
        /\ image2 = [image EXCEPT ![f.slot] =
                        [name |-> f.name, first |-> f.first, size |-> Size(f.ver)]]
    BY <1>2, <1>3, <2>3, <2>4, <2>8
  <2>10. \E ch2, w2, lost2 : Leaks(m, image2, y, Swapped(own, f.slot), d, ch2, w2, lost2)
    BY <1>1, <1>2, <2>2, <2>5, <2>7, <2>9, LeaksCommitted
  <2>11. PICK ch2, w2, lost2 : Leaks(m, image2, y, Swapped(own, f.slot), d, ch2, w2, lost2)
    BY <2>10
  <2>12. own2 = Swapped(own, f.slot) /\ cuts' + faults' = d
    BY <1>1, <2>3, <2>4
  <2>13. Owed(own2, ch2, w2, lost2)'
    BY <2>4, <2>6, <2>11, <2>12 DEF Owed
  <2> QED
    BY <2>13
<1> QED
  BY <1>5, <1>6, <1>7

\* Without an operation in flight nothing is in hand.
LEMMA IdleHands ==
  ASSUME NEW own, NEW m, NEW image, NEW d, NEW ch, NEW w, NEW lost,
         Leaks(m, image, <<>>, own, d, ch, w, lost)
  PROVE  w = <<>> /\ Busy(<<>>, own) = {} /\ ~Owes(<<>>)
BY DEF Leaks, Trails, Busy, Owes, Builds

\* BeginSave and BeginLoad.
LEMMA LeakBegin ==
  ASSUME SomeLargest, Orderly, Types, Types', NEW own \in [Clusters -> Owners],
         NEW ch, NEW w, NEW lost,
         Owed(own, ch, w, lost), ops = <<>>, NEW op, NEW n, NEW v,
         ops' = <<NewFrame(op, n, v)>>,
         UNCHANGED <<fat, dir, fatCache, fatCacheLba, cuts, faults>>
  PROVE  Owed(Dropped(own), ch, w, lost)'
<1> PICK m, m2 : /\ m = May(fat[1], fatCache, Tag(ops, fatCacheLba))
                 /\ m2 = May(fat[1], fatCache, Tag(ops, fatCacheLba))'
  OBVIOUS
<1>1. PICK g : g = NewFrame(op, n, v)
  OBVIOUS
<1>2. ~g.loaded /\ ~g.flawed /\ ops' = <<g>> /\ ops' # <<>> /\ ops'[1] = g
  BY <1>1 DEF NewFrame
<1>3. m2 = m
  BY <1>2 DEF Tag
<1>4. Within(m2, m)
  BY <1>3 DEF Within
<1>5. PICK x, y, d, e, image, own2 : /\ x = ops /\ y = ops' /\ d = cuts + faults /\ e = d
                                     /\ image = dir /\ own2 = Dropped(own)
  OBVIOUS
<1>6. Leaks(m, image, x, own, d, ch, w, lost) /\ d \in Nat
  BY <1>5, BoundAssumption DEF Owed, Types
<1>7. x = <<>> /\ w = <<>> /\ Busy(x, own) = {}
  BY <1>5, <1>6, IdleHands
<1>8. ~Owes(y)
  BY <1>2, <1>5 DEF Owes
<1>9. /\ \A c \in Clusters : own[c] \in 1 .. DirSlots => own2[c] = own[c]
      /\ Busy(x, own) \subseteq Busy(y, own2)
      /\ Owes(y) => Owes(x) \/ e = d + 1
      /\ w # <<>> => /\ y # <<>> /\ y[1].op = "save" /\ y[1].pc = x[1].pc
                     /\ y[1].cur = x[1].cur /\ y[1].nxt = x[1].nxt
  BY <1>5, <1>7, <1>8, Numbers DEF Dropped
<1>10. Leaks(m2, image, y, own2, e, ch, w, lost)
  BY <1>4, <1>5, <1>6, <1>9, LeaksKept
<1>11. cuts' + faults' = e /\ dir' = image
  BY <1>5
<1> QED
  BY <1>5, <1>10, <1>11 DEF Owed

\* Leave.
LEMMA LeakLeave ==
  ASSUME SomeLargest, Orderly, Types, Types', NEW own, NEW ch, NEW w, NEW lost,
         Owed(own, ch, w, lost), Leave
  PROVE  Owed(own, ch, w, lost)'
<1> PICK m, m2 : /\ m = May(fat[1], fatCache, Tag(ops, fatCacheLba))
                 /\ m2 = May(fat[1], fatCache, Tag(ops, fatCacheLba))'
  OBVIOUS
<1> PICK f : f = Top
  OBVIOUS
<1>1. /\ ops # <<>> /\ f.pc = "return" /\ ops = <<f>> /\ ops[1] = f
      /\ FrameFits(f, dir, sectorBuf, fatCache, fatCacheLba)
      /\ UNCHANGED <<fat, dir, fatCache, fatCacheLba, cuts, faults>>
  BY TopIs DEF Leave, At, disk
<1>2. ops' = <<>> /\ ~f.loaded
  <2>1. ops' = Front(<<f>>)
    BY <1>1 DEF Leave
  <2> QED
    BY <1>1, <2>1 DEF Front, FrameFits, ReadingFat, SettingFat
<1>3. m2 = m
  BY <1>1, <1>2 DEF Tag
<1>4. Within(m2, m)
  BY <1>3 DEF Within
<1>5. PICK x, y, d, e, image : /\ x = ops /\ y = ops' /\ d = cuts + faults /\ e = d
                               /\ image = dir
  OBVIOUS
<1>6. Leaks(m, image, x, own, d, ch, w, lost) /\ d \in Nat
  BY <1>5, BoundAssumption DEF Owed, Types
<1>7. w = <<>> /\ Busy(x, own) = {}
  BY <1>1, <1>5, <1>6 DEF Leaks, Trails, Busy, Builds, Building, Aimed, Allocating
<1>8. ~Owes(y)
  BY <1>2, <1>5 DEF Owes, Builds
<1>9. /\ \A c \in Clusters : own[c] \in 1 .. DirSlots => own[c] = own[c]
      /\ Busy(x, own) \subseteq Busy(y, own)
      /\ Owes(y) => Owes(x) \/ e = d + 1
      /\ w # <<>> => /\ y # <<>> /\ y[1].op = "save" /\ y[1].pc = x[1].pc
                     /\ y[1].cur = x[1].cur /\ y[1].nxt = x[1].nxt
  BY <1>7, <1>8
<1>10. Leaks(m2, image, y, own, e, ch, w, lost)
  BY <1>4, <1>5, <1>6, <1>9, LeaksKept
<1>11. cuts' + faults' = e /\ dir' = image
  BY <1>1, <1>5
<1> QED
  BY <1>5, <1>10, <1>11 DEF Owed

\* PowerCut: what the save had in its hands is lost.
LEMMA LeakPowerCut ==
  ASSUME SomeLargest, Orderly, Types, Types', NEW own, NEW p, NEW ver, NEW path,
         Now(own, p, ver, path), NEW ch, NEW w, NEW lost, Owed(own, ch, w, lost), PowerCut
  PROVE  \E w2, lost2 : Owed(own, ch, w2, lost2)'
<1> PICK m, m2 : /\ m = May(fat[1], fatCache, Tag(ops, fatCacheLba))
                 /\ m2 = May(fat[1], fatCache, Tag(ops, fatCacheLba))'
  OBVIOUS
<1>1. /\ UNCHANGED <<fat, dir, faults>> /\ ops' = <<>> /\ fatCacheLba' = NoSector
      /\ cuts' = cuts + 1
  BY PowerCutKeeps DEF PowerCut
<1>2. Within(m2, m)
  <2>1. m2 = May(fat[1], fatCache', NoSector)
    BY <1>1 DEF Tag
  <2>2. \A c \in Clusters : m2[c] = {fat[1][c]}
    BY <2>1, SectorOf DEF May
  <2>3. \A c \in Clusters : fat[1][c] \in m[c]
    BY DEF May
  <2> QED
    BY <2>2, <2>3 DEF Within
<1>3. PICK x, y, d, image : x = ops /\ y = ops' /\ d = cuts + faults /\ image = dir
  OBVIOUS
<1>4. Leaks(m, image, x, own, d, ch, w, lost) /\ d \in Nat /\ cuts' + faults' = d + 1
  BY <1>1, <1>3, BoundAssumption DEF Owed, Types
<1>5. ~Owes(y)
  BY <1>1, <1>3 DEF Owes, Builds
<1>6. Cardinality(Busy(x, own)) <= Largest
  <2>1. CASE ops = <<>>
    <3>1. Busy(x, own) = {}
      BY <1>3, <1>4, <2>1, IdleHands
    <3>2. Cardinality(Busy(x, own)) = 0
      BY <3>1, FS_EmptySet
    <3> QED
      BY <3>2, LargestIs
  <2>2. CASE ops # <<>>
    <3>1. PICK f, buf, cache, lba, blocks : /\ f = Top /\ buf = sectorBuf /\ cache = fatCache
                                            /\ lba = fatCacheLba /\ blocks = data
      OBVIOUS
    <3>2. /\ x = <<f>> /\ FrameFits(f, image, buf, cache, lba)
          /\ f.op = "save" => SaveFits(f, m, blocks, image, own, p)
      BY <1>3, <2>2, <3>1, TopIs, NowIs
    <3> QED
      BY <3>2, BusyIsBounded
  <2> QED
    BY <2>1, <2>2
<1>7. \E lost2 : Leaks(m2, image, y, own, d + 1, ch, <<>>, lost2)
  BY <1>2, <1>4, <1>5, <1>6, LeaksForgiven
<1>8. PICK lost2 : Leaks(m2, image, y, own, d + 1, ch, <<>>, lost2)
  BY <1>7
<1>9. Owed(own, ch, <<>>, lost2)'
  BY <1>1, <1>3, <1>4, <1>8 DEF Owed
<1> QED
  BY <1>9

\* A volume that has just been formatted has lost nothing.
LEMMA LeakInit ==
  ASSUME SomeLargest, Init
  PROVE  LeakInv
<1>1. Types /\ \E own, p, ver, path : Now(own, p, ver, path)
  BY Formatted DEF VolumeInv
<1>2. PICK own, p, ver, path : Now(own, p, ver, path)
  BY <1>1
<1> PICK m : m = May(fat[1], fatCache, Tag(ops, fatCacheLba))
  OBVIOUS
<1>3. /\ fat = [k \in Copies |-> [c \in Clusters |-> Free]] /\ ops = <<>>
      /\ fatCache = [c \in Clusters |-> Free] /\ cuts + faults = 0 /\ 1 \in Copies
  BY Numbers DEF Init
<1>4. \A c \in Clusters : m[c] \subseteq {Free}
  BY <1>3 DEF May
<1>5. PICK ch : ch = [s \in 1 .. DirSlots |-> <<>>]
  OBVIOUS
<1>6. List(<<>>)
  BY LargestIs DEF List
<1>7. Charted(ch, m, dir, own)
  BY <1>5, <1>6 DEF Charted, Chain, Leads
<1>8. Trails(<<>>, <<>>, m)
  BY <1>6 DEF Trails
<1>9. Covered(m, <<>>, own, ch, <<>>, {})
  BY <1>4 DEF Covered
<1>10. Paid(<<>>, 0, {})
  <2>1. Cardinality({}) = 0 /\ Largest * 0 = 0
    BY FS_EmptySet, LargestIs
  <2> QED
    BY <2>1 DEF Paid, Owes, Builds
<1>11. Owed(own, ch, <<>>, {})
  BY <1>3, <1>7, <1>8, <1>9, <1>10 DEF Owed, Leaks
<1> QED
  BY <1>1, <1>2, <1>11 DEF LeakInv

\* The invariant is inductive.
LEMMA LeakStep ==
  ASSUME SomeLargest, Orderly, LeakInv, [Next]_vars
  PROVE  LeakInv'
<1>1. Types
  BY DEF LeakInv
<1>2. PICK own, p, ver, path : /\ Now(own, p, ver, path)
                               /\ \E ch, w, lost : Owed(own, ch, w, lost)
  BY DEF LeakInv
<1>3. PICK ch, w, lost : Owed(own, ch, w, lost)
  BY <1>2
<1>4. ASSUME Types', NEW own2, NEW p2, NEW ver2, NEW path2, Now(own2, p2, ver2, path2)',
             \E ch2, w2, lost2 : Owed(own2, ch2, w2, lost2)'
      PROVE  LeakInv'
  BY <1>4 DEF LeakInv
<1>5. CASE UNCHANGED vars
  <2>1. UNCHANGED <<fat, data, dir, fatCache, fatCacheLba, sectorBuf, ops, cuts, faults, suspect>>
    BY <1>5 DEF vars, disk, driver
  <2>2. Types'
    BY <1>1, <2>1 DEF Types
  <2>3. Now(own, p, ver, path)'
    BY <1>2, <2>1 DEF Now
  <2>4. Owed(own, ch, w, lost)'
    BY <1>3, <2>1 DEF Owed
  <2> QED
    BY <1>4, <2>2, <2>3, <2>4
<1>6. ASSUME NEW n \in Names, NEW v, NEW op \in {"save", "load"},
             Types' /\ ops = <<>> /\ ops' = <<NewFrame(op, n, v)>>,
             \E own2, p2 : own2 = Dropped(own) /\ Now(own2, p2, ver, path)',
             UNCHANGED <<fat, dir, fatCache, fatCacheLba, cuts, faults>>
      PROVE  LeakInv'
  <2>1. own \in [Clusters -> Owners]
    BY <1>2 DEF Now, Ghosts
  <2>2. Owed(Dropped(own), ch, w, lost)'
    BY <1>1, <1>3, <1>6, <2>1, LeakBegin
  <2> QED
    BY <1>4, <1>6, <2>2
<1>7. ASSUME NEW n \in Names, NEW v \in Versions, BeginSave(n, v) PROVE LeakInv'
  <2>1. PICK op \in {"save", "load"} : op = "save"
    OBVIOUS
  <2>2. /\ Len(ops) < MaxDepth /\ ops' = Append(ops, NewFrame(op, n, v))
        /\ UNCHANGED <<disk, driver, cuts, faults, suspect>> /\ op # "load"
    BY <1>7, <2>1 DEF BeginSave
  <2>3. Types' /\ ops = <<>> /\ ops' = <<NewFrame(op, n, v)>>
        /\ \E own2, p2 : own2 = Dropped(own) /\ Now(own2, p2, ver, path)'
    BY <1>1, <1>2, <2>1, <2>2, StepBegin
  <2>4. UNCHANGED <<fat, dir, fatCache, fatCacheLba, cuts, faults>>
    BY <2>2 DEF disk, driver
  <2> QED
    BY <1>6, <2>3, <2>4
<1>8. ASSUME NEW n \in Names, BeginLoad(n) PROVE LeakInv'
  <2> PICK v : v = None
    OBVIOUS
  <2>1. PICK op \in {"save", "load"} : op = "load"
    OBVIOUS
  <2>2. /\ Len(ops) < MaxDepth /\ ops' = Append(ops, NewFrame(op, n, v))
        /\ UNCHANGED <<disk, driver, cuts, faults, suspect>> /\ op # "save"
    BY <1>8, <2>1 DEF BeginLoad
  <2>3. Types' /\ ops = <<>> /\ ops' = <<NewFrame(op, n, v)>>
        /\ \E own2, p2 : own2 = Dropped(own) /\ Now(own2, p2, ver, path)'
    BY <1>1, <1>2, <2>1, <2>2, StepBegin
  <2>4. UNCHANGED <<fat, dir, fatCache, fatCacheLba, cuts, faults>>
    BY <2>2 DEF disk, driver
  <2> QED
    BY <1>6, <2>3, <2>4
<1>9. ASSUME Types', Now(own, p, ver, path)', \E w2, lost2 : Owed(own, ch, w2, lost2)'
      PROVE  LeakInv'
  BY <1>4, <1>9
<1>10. CASE Leave
  <2>1. Types' /\ Now(own, p, ver, path)'
    BY <1>1, <1>2, <1>10, StepLeave
  <2>2. Owed(own, ch, w, lost)'
    BY <1>1, <1>3, <1>10, <2>1, LeakLeave
  <2> QED
    BY <1>9, <2>1, <2>2
<1>11. CASE Locate
  <2>1. ops # <<>>
    BY <1>11 DEF Locate, At
  <2>2. Top.op \in {"save", "load"}
    BY <1>1, <2>1, TopIs, FrameHas
  <2>3. Types' /\ \E p2 : Now(own, p2, ver, path)'
    <3>1. CASE Top.op = "save"
      BY <1>1, <1>2, <1>11, <3>1, StepLocateSave
    <3>2. CASE Top.op = "load"
      BY <1>1, <1>2, <1>11, <3>2, StepLocateLoad
    <3> QED
      BY <2>2, <3>1, <3>2
  <2>4. \E w2, lost2 : Owed(own, ch, w2, lost2)'
    BY <1>1, <1>2, <1>3, <1>11, <2>3, LeakLocate
  <2> QED
    BY <1>4, <2>3, <2>4
<1>12. CASE FindSlot
  <2>1. Types' /\ \E p2 : Now(own, p2, ver, path)'
    BY <1>1, <1>2, <1>12, StepFindSlot
  <2>2. \E w2, lost2 : Owed(own, ch, w2, lost2)'
    BY <1>1, <1>2, <1>3, <1>12, <2>1, LeakFindSlot
  <2> QED
    BY <1>4, <2>1, <2>2
<1>13. CASE Patch
  <2>1. Types' /\ Now(own, p, ver, path)'
    BY <1>1, <1>2, <1>13, StepPatch
  <2>2. \E w2, lost2 : Owed(own, ch, w2, lost2)'
    BY <1>1, <1>2, <1>3, <1>13, <2>1, LeakPatch
  <2> QED
    BY <1>9, <2>1, <2>2
<1>14. CASE Writeback
  <2>1. PICK own3 : own3 = IF faults' = faults THEN Swapped(own, Top.slot) ELSE own
    OBVIOUS
  <2>2. Types' /\ \E ver2, path2 : Now(own3, p, ver2, path2)'
    BY <1>1, <1>2, <1>14, <2>1, StepWriteback
  <2>3. \E ch2, w2, lost2 : Owed(own3, ch2, w2, lost2)'
    BY <1>1, <1>2, <1>3, <1>14, <2>1, <2>2, LeakWriteback
  <2> QED
    BY <1>4, <2>2, <2>3
<1>15. CASE LoadFat
  <2>1. Types' /\ Now(own, p, ver, path)'
    BY <1>1, <1>2, <1>15, StepLoadFat
  <2>2. \E w2, lost2 : Owed(own, ch, w2, lost2)'
    BY <1>1, <1>2, <1>3, <1>15, <2>1, LeakLoadFat
  <2> QED
    BY <1>9, <2>1, <2>2
<1>16. CASE NextEntry
  <2>1. Types' /\ Now(own, p, ver, path)'
    BY <1>1, <1>2, <1>16, StepNextEntry
  <2>2. \E w2, lost2 : Owed(own, ch, w2, lost2)'
    BY <1>1, <1>2, <1>3, <1>16, <2>1, LeakNextEntry
  <2> QED
    BY <1>9, <2>1, <2>2
<1>17. CASE SetEntry
  <2>1. Types' /\ Now(own, p, ver, path)'
    BY <1>1, <1>2, <1>17, StepSetEntry
  <2>2. \E w2, lost2 : Owed(own, ch, w2, lost2)'
    BY <1>1, <1>2, <1>3, <1>17, <2>1, LeakSetEntry
  <2> QED
    BY <1>9, <2>1, <2>2
<1>18. CASE WriteFat
  <2>1. PICK own3 : own3 = IF Claims THEN Added(own, Top.cur) ELSE own
    OBVIOUS
  <2>2. Types' /\ \E p2 : Now(own3, p2, ver, path)'
    BY <1>1, <1>2, <1>18, <2>1, StepWriteFat
  <2>3. \E w2, lost2 : Owed(own3, ch, w2, lost2)'
    BY <1>1, <1>2, <1>3, <1>18, <2>1, <2>2, LeakWriteFat
  <2> QED
    BY <1>4, <2>2, <2>3
<1>19. CASE Fill
  <2>1. Types' /\ Now(own, p, ver, path)'
    BY <1>1, <1>2, <1>19, StepFill
  <2>2. \E w2, lost2 : Owed(own, ch, w2, lost2)'
    BY <1>1, <1>2, <1>3, <1>19, <2>1, LeakFill
  <2> QED
    BY <1>9, <2>1, <2>2
<1>20. CASE Write
  <2>1. Types' /\ Now(own, p, ver, path)'
    BY <1>1, <1>2, <1>20, StepWrite
  <2>2. \E w2, lost2 : Owed(own, ch, w2, lost2)'
    BY <1>1, <1>2, <1>3, <1>20, <2>1, LeakWrite
  <2> QED
    BY <1>9, <2>1, <2>2
<1>21. CASE Read \/ Copy
  <2>1. Types' /\ Now(own, p, ver, path)'
    BY <1>1, <1>2, <1>21, StepRead, StepCopy
  <2>2. \E w2, lost2 : Owed(own, ch, w2, lost2)'
    BY <1>1, <1>2, <1>3, <1>21, <2>1, LeakRead
  <2> QED
    BY <1>9, <2>1, <2>2
<1>22. CASE Flush
  <2>1. Types' /\ Now(own, p, ver, path)'
    BY <1>1, <1>2, <1>22, StepFlush
  <2>2. \E w2, lost2 : Owed(own, ch, w2, lost2)'
    BY <1>1, <1>2, <1>3, <1>22, <2>1, LeakFlush
  <2> QED
    BY <1>9, <2>1, <2>2
<1>23. CASE PowerCut
  <2>1. Types' /\ Now(own, p, ver, path)'
    BY <1>1, <1>2, <1>23, StepPowerCut
  <2>2. \E w2, lost2 : Owed(own, ch, w2, lost2)'
    BY <1>1, <1>2, <1>3, <1>23, <2>1, LeakPowerCut
  <2> QED
    BY <1>9, <2>1, <2>2
<1> QED
  BY <1>5, <1>7, <1>8, <1>10, <1>11, <1>12, <1>13, <1>14, <1>15, <1>16, <1>17, <1>18, <1>19,
     <1>20, <1>21, <1>22, <1>23 DEF Next

\* A file's chain, followed from its first cluster, begins with the list.
LEMMA ChainReached ==
  ASSUME NEW q, List(q), q # <<>>, NEW m, Leads(q, 1, m), NEW links,
         \A c \in Clusters : links[c] \in m[c], NEW n, n = NumClusters,
         NEW chain, chain = Walk(links, q[1], n)
  PROVE  \A j \in 1 .. Len(q) : j \in 1 .. Len(chain) /\ chain[j] = q[j]
<1>1. /\ q \in Seq(Clusters) /\ Len(q) \in Nat /\ 1 <= Len(q) /\ n \in Nat /\ n >= 1
      /\ \A j \in 1 .. Len(q) : q[j] \in Clusters
  BY Numbers DEF List
<1>2. Len(q) <= n
  <2>1. PICK k \in Nat : k = Len(q)
    BY <1>1
  <2>2. PICK own : own = [c \in Clusters |-> IF \E j \in 1 .. k : q[j] = c THEN Mine ELSE 0]
    OBVIOUS
  <2>3. Counts(q, k, own)
    BY <1>1, <2>1, <2>2, Numbers DEF Counts, List
  <2> QED
    BY <2>1, <2>3, CountIsBounded
<1>3. PICK c : c = q[1]
  OBVIOUS
<1>4. PICK step : \E length \in 0 .. n + 1 : Walked(step, length, links, c, n)
  BY <1>1, WalkIs
<1>5. PICK length \in 0 .. n + 1 : Walked(step, length, links, c, n)
  BY <1>4
<1>6. /\ Goes(step, links, c, n)
      /\ \A k \in 0 .. n : step[k] \in Clusters <=> k < length
      /\ chain = [k \in 1 .. length |-> step[k - 1]]
  BY <1>3, <1>5 DEF Walked
<1> DEFINE S == {i \in Nat : i < Len(q) => step[i] = q[i + 1]}
<1>7. 0 \in S
  BY <1>3, <1>6 DEF Goes
<1>8. ASSUME NEW i \in S PROVE i + 1 \in S
  <2> SUFFICES ASSUME i + 1 < Len(q) PROVE step[i + 1] = q[i + 1 + 1]
    OBVIOUS
  <2>1. /\ i \in Nat /\ i \in 0 .. n - 1 /\ i < Len(q) /\ i + 1 \in 1 .. Len(q)
        /\ i + 1 \in 1 .. Len(q) - 1 /\ 1 <= i + 1
    BY <1>1, <1>2
  <2>2. step[i + 1] = Onward(links, step[i])
    BY <1>6, <2>1 DEF Goes
  <2>3. step[i] = q[i + 1] /\ q[i + 1] \in Clusters
    BY <1>1, <2>1
  <2>4. m[q[i + 1]] \subseteq {q[i + 1 + 1]}
    BY <2>1 DEF Leads
  <2>5. links[q[i + 1]] = q[i + 1 + 1]
    BY <2>3, <2>4
  <2> QED
    BY <2>2, <2>3, <2>5 DEF Onward
<1> HIDE DEF S
<1>9. S = Nat
  BY <1>7, <1>8, AllNumbers DEF S
<1>10. Len(chain) = length
  BY <1>6
<1> SUFFICES ASSUME NEW j \in 1 .. Len(q) PROVE j \in 1 .. Len(chain) /\ chain[j] = q[j]
  OBVIOUS
<1>11. j - 1 \in Nat /\ j - 1 < Len(q) /\ j - 1 + 1 = j /\ j - 1 \in 0 .. n
  BY <1>1, <1>2
<1>12. step[j - 1] = q[j]
  BY <1>9, <1>11 DEF S
<1>13. j - 1 < length
  BY <1>1, <1>6, <1>11, <1>12
<1>14. j \in 1 .. length
  BY <1>11, <1>13
<1> QED
  BY <1>6, <1>10, <1>12, <1>14

\* Only lost clusters are in use by nobody.
LEMMA SoundLeaks ==
  ASSUME SomeLargest
  PROVE  LeakInv => LeakIsBounded
<1> SUFFICES ASSUME LeakInv, ops = <<>>,
                    NEW leaked, leaked = {c \in Clusters : fat[1][c] # Free} \
                        UNION {{ChainOf(s)[i] : i \in 1 .. Len(ChainOf(s))} : s \in 1 .. DirSlots}
             PROVE  Cardinality(leaked) <= Largest * (cuts + faults)
  BY DEF LeakIsBounded, Largest
<1>1. Types /\ \E own, p, ver, path : \E ch, w, lost : Owed(own, ch, w, lost)
  BY DEF LeakInv
<1>2. PICK own, ch, w, lost : Owed(own, ch, w, lost)
  BY <1>1
<1> PICK m, links : /\ m = May(fat[1], fatCache, Tag(ops, fatCacheLba)) /\ links = fat[1]
  OBVIOUS
<1>3. Leaks(m, dir, <<>>, own, cuts + faults, ch, w, lost)
  BY <1>2 DEF Owed
<1>4. w = <<>> /\ Busy(<<>>, own) = {} /\ ~Owes(<<>>)
  BY <1>3, IdleHands
<1>5. \A c \in Clusters : links[c] \in m[c]
  BY DEF May
<1>6. ASSUME NEW c \in leaked PROVE c \in lost
  <2>1. c \in Clusters /\ links[c] # Free
    OBVIOUS
  <2>2. ~(m[c] \subseteq {Free})
    BY <1>5, <2>1
  <2>3. ~Listed(c, w)
    BY <1>4 DEF Listed
  <2>4. ASSUME NEW s \in 1 .. DirSlots, Listed(c, ch[s]) PROVE FALSE
    <3> PICK q : q = ch[s]
      OBVIOUS
    <3>1. Chain(q, s, m, dir, own)
      BY <1>3 DEF Leaks, Charted
    <3>2. PICK j \in 1 .. Len(q) : q[j] = c
      BY <2>4 DEF Listed
    <3>3. q # <<>>
      BY <3>2
    <3>4. ChainOf(s) = Walk(links, q[1], NumClusters)
      BY <3>1, <3>3 DEF Chain, ChainOf
    <3>5. List(q) /\ Leads(q, 1, m)
      BY <3>1 DEF Chain
    <3>6. j \in 1 .. Len(ChainOf(s)) /\ ChainOf(s)[j] = c
      BY <1>5, <3>2, <3>3, <3>4, <3>5, ChainReached
    <3>7. c \in UNION {{ChainOf(r)[i] : i \in 1 .. Len(ChainOf(r))} : r \in 1 .. DirSlots}
      BY <3>6
    <3> QED
      BY <3>7
  <2> QED
    BY <1>3, <1>4, <2>1, <2>2, <2>3, <2>4 DEF Leaks, Covered
<1>7. lost \in SUBSET Clusters /\ Cardinality(lost) + 0 <= Largest * (cuts + faults)
  BY <1>3, <1>4 DEF Leaks, Paid
<1>8. IsFiniteSet(lost) /\ Cardinality(lost) \in Nat
  BY <1>7, ClustersFinite
<1>9. leaked \subseteq lost
  BY <1>6
<1>10. Cardinality(leaked) <= Cardinality(lost) /\ IsFiniteSet(leaked)
  BY <1>8, <1>9, FS_Subset
<1>11. Cardinality(leaked) \in Nat
  BY <1>10, FS_CardinalityType
<1>12. Largest * (cuts + faults) \in Nat
  <2>1. cuts + faults \in Nat
    BY <1>1, BoundAssumption DEF Types
  <2> QED
    BY <2>1, LargestIs, OneMore
<1> QED
  BY <1>7, <1>8, <1>10, <1>11, <1>12

\* fat32.c, crash-safety comment: the leak of an interrupted save is "bounded by
\* one save file per crash", and by one more for each failed disk access.
THEOREM VolumeLeaksLittle ==
  ASSUME Orderly, SomeLargest
  PROVE  Spec => []LeakIsBounded
<1>1. Init => LeakInv
  BY LeakInit
<1>2. LeakInv /\ [Next]_vars => LeakInv'
  BY LeakStep
<1>3. LeakInv => LeakIsBounded
  BY SoundLeaks
<1> QED
  BY <1>1, <1>2, <1>3, PTL DEF Spec
=============================================================================

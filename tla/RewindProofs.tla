---------------------------- MODULE RewindProofs ----------------------------
(***************************************************************************)
(* Safety of the rewind machinery for every ring size, snapshot interval,  *)
(* log size and hop length, and any number of frames.                      *)
(*                                                                         *)
(* Three things are kept apart: facts about natural numbers (a set has a   *)
(* least element, the modulus of a ring index), facts about the ring as a  *)
(* stack of snapshots, and the invariant, one step per exit of             *)
(* rewind_on_present and of the scrub loop.                                *)
(***************************************************************************)
EXTENDS Rewind, TLAPS, WellFoundedInduction

(***************************************************************************)
(* Natural numbers.                                                        *)
(***************************************************************************)
LEMMA LeastExists ==
    ASSUME NEW S \in SUBSET Nat, S # {}
    PROVE  \E m \in S : \A k \in S : m <= k
<1>1. \E m \in S : \A k \in S : ~ (<<k, m>> \in OpToRel(<, Nat))
    BY NatLessThanWellFounded, WFMin, Zenon
<1>2. PICK m \in S : \A k \in S : ~ (<<k, m>> \in OpToRel(<, Nat))
    BY <1>1
<1>3. ASSUME NEW k \in S PROVE m <= k
    <2>1. ~ (<<k, m>> \in OpToRel(<, Nat))
        BY <1>2
    <2>. QED  BY <2>1 DEF OpToRel
<1>. QED  BY <1>3

LEMMA GreatestExists ==
    ASSUME NEW n \in Nat, NEW S \in SUBSET (0 .. n), S # {}
    PROVE  \E m \in S : \A k \in S : k <= m
<1>. DEFINE T == {k \in 0 .. n : n - k \in S}
<1>1. T # {} /\ T \in SUBSET Nat
    <2>1. PICK k \in S : TRUE
        OBVIOUS
    <2>2. n - (n - k) = k /\ n - k \in 0 .. n
        BY <2>1
    <2>3. n - k \in T
        BY <2>2
    <2>4. T \subseteq 0 .. n /\ 0 .. n \subseteq Nat
        OBVIOUS
    <2>. QED  BY <2>3, <2>4
<1>2. PICK m \in T : \A k \in T : m <= k
    BY <1>1, LeastExists
<1>3. n - m \in S
    OBVIOUS
<1>4. ASSUME NEW k \in S PROVE k <= n - m
    <2>1. n - k \in T
        <3>1. n - (n - k) = k /\ n - k \in 0 .. n
            OBVIOUS
        <3>. QED  BY <3>1
    <2>2. m <= n - k
        BY <1>2, <2>1
    <2>. QED  BY <2>2
<1>. QED  BY <1>3, <1>4

(***************************************************************************)
(* Prefixes of memories.                                                   *)
(***************************************************************************)
Mems == Seq(0 .. MaxInputs)

LEMMA PrefixPointwise ==
    ASSUME NEW s \in Mems, NEW t \in Mems
    PROVE  IsPrefix(s, t) <=>
              Len(s) <= Len(t) /\ \A k \in 1 .. Len(s) : s[k] = t[k]
<1>1. CASE Len(s) <= Len(t)
    <2>1. SubSeq(s, 1, Len(s)) = [k \in 1 .. Len(s) |-> s[k]]
        BY DEF Mems
    <2>2. SubSeq(t, 1, Len(s)) = [k \in 1 .. Len(s) |-> t[k]]
        BY <1>1 DEF Mems
    <2>. QED  BY <1>1, <2>1, <2>2 DEF IsPrefix
<1>2. CASE ~ (Len(s) <= Len(t))
    BY <1>2 DEF IsPrefix
<1>. QED  BY <1>1, <1>2

LEMMA PrefixReflexive ==
    ASSUME NEW s \in Mems PROVE IsPrefix(s, s)
BY PrefixPointwise DEF Mems

LEMMA PrefixTransitive ==
    ASSUME NEW s \in Mems, NEW t \in Mems, NEW u \in Mems,
           IsPrefix(s, t), IsPrefix(t, u)
    PROVE  IsPrefix(s, u)
BY PrefixPointwise DEF Mems

LEMMA PrefixAppend ==
    ASSUME NEW s \in Mems, NEW t \in Mems, NEW x \in 0 .. MaxInputs,
           IsPrefix(s, t)
    PROVE  IsPrefix(s, Append(t, x)) /\ Append(t, x) \in Mems
<1>1. Append(t, x) \in Mems /\ Len(Append(t, x)) = Len(t) + 1
      /\ \A k \in 1 .. Len(t) : Append(t, x)[k] = t[k]
    BY DEF Mems
<1>2. Len(s) \in Nat /\ Len(t) \in Nat
    BY DEF Mems
<1>3. Len(s) <= Len(t) /\ \A k \in 1 .. Len(s) : s[k] = t[k]
    BY PrefixPointwise
<1>4. Len(s) <= Len(Append(t, x))
      /\ \A k \in 1 .. Len(s) : s[k] = Append(t, x)[k]
    BY <1>1, <1>2, <1>3
<1>. QED  BY <1>1, <1>4, PrefixPointwise

-----------------------------------------------------------------------------
(***************************************************************************)
(* The ring as a stack.  b, n, f and m stand for ringBase, ringCount,      *)
(* slotFrame and slotMem; position 0 is the oldest snapshot.               *)
(***************************************************************************)
At(b, i) == (b + i) % REWIND_SLOTS

RingTypes(b, n, f, m) ==
    /\ b \in Slots /\ n \in 1 .. REWIND_SLOTS
    /\ f \in [Slots -> Frames] /\ m \in [Slots -> Mems]

\* Older snapshots are earlier frames, and earlier moments of one timeline.
Sorted(b, n, f, m) ==
    \A i, j \in 0 .. n - 1 : i < j =>
        /\ f[At(b, i)] < f[At(b, j)]
        /\ IsPrefix(m[At(b, i)], m[At(b, j)])

\* No snapshot is newer than frame c.
Bounded(b, n, f, c) == \A i \in 0 .. n - 1 : f[At(b, i)] <= c

\* The snapshots up to frame c are moments memory g went through.
Past(b, n, f, m, c, g) ==
    \A i \in 0 .. n - 1 : f[At(b, i)] <= c => IsPrefix(m[At(b, i)], g)

\* The three together: up to frame c the ring is the past of memory g.
PastRing(b, n, f, m, c, g) ==
    /\ RingTypes(b, n, f, m) /\ Sorted(b, n, f, m)
    /\ Bounded(b, n, f, c) /\ Past(b, n, f, m, c, g)

\* A snapshot's label counts its observations, and it is what was live then.
Labelled(b, n, f, m, tr) ==
    \A i \in 0 .. n - 1 : /\ Len(m[At(b, i)]) = f[At(b, i)]
                          /\ m[At(b, i)] = tr[f[At(b, i)]]

\* take_snapshot: what it makes of the ring.
PushBase(b, n) == IF n = REWIND_SLOTS THEN (b + 1) % REWIND_SLOTS ELSE b
PushCount(n) == IF n = REWIND_SLOTS THEN n ELSE n + 1
PushSlot(b, n) == IF n = REWIND_SLOTS THEN b ELSE At(b, n)

LEMMA RingSize == REWIND_SLOTS \in Nat \ {0}
BY RingAssumption

LEMMA AtValue ==
    ASSUME NEW b \in Slots, NEW i \in Slots
    PROVE  /\ At(b, i) = IF b + i < REWIND_SLOTS THEN b + i
                         ELSE b + i - REWIND_SLOTS
           /\ At(b, i) \in Slots
BY RingSize DEF Slots, At

LEMMA AtOldest == ASSUME NEW b \in Slots PROVE At(b, 0) = b
<1>1. 0 \in Slots
    BY RingSize DEF Slots
<1>. QED  BY <1>1, AtValue, RingSize DEF Slots

LEMMA AtDistinct ==
    ASSUME NEW b \in Slots, NEW i \in Slots, NEW j \in Slots, i # j
    PROVE  At(b, i) # At(b, j)
BY RingSize DEF Slots, At

LEMMA PushBaseValue ==
    ASSUME NEW b \in Slots, NEW n \in 0 .. REWIND_SLOTS
    PROVE  /\ PushBase(b, n) = IF n < REWIND_SLOTS THEN b
                               ELSE IF b + 1 < REWIND_SLOTS THEN b + 1 ELSE 0
           /\ PushBase(b, n) \in Slots
           /\ PushCount(n) \in 1 .. REWIND_SLOTS
           /\ PushSlot(b, n) \in Slots
<1>1. PushBase(b, n) = IF n < REWIND_SLOTS THEN b
                       ELSE IF b + 1 < REWIND_SLOTS THEN b + 1 ELSE 0
    BY RingSize DEF Slots, PushBase
<1>2. PushSlot(b, n) \in Slots
    <2>1. n < REWIND_SLOTS => n \in Slots
        BY RingSize DEF Slots
    <2>. QED  BY <2>1, AtValue, RingSize DEF Slots, PushSlot
<1>. QED  BY <1>1, <1>2, RingSize DEF Slots, PushCount

\* The entries below the new one keep their order; a full ring loses its
\* oldest entry (then d = 1).
LEMMA PushShift ==
    ASSUME NEW b \in Slots, NEW n \in 0 .. REWIND_SLOTS
    PROVE  /\ At(PushBase(b, n), PushCount(n) - 1) = PushSlot(b, n)
           /\ \E d \in {0, 1} : \A i \in 0 .. PushCount(n) - 2 :
                /\ i \in Slots /\ i + d \in 0 .. n - 1
                /\ At(PushBase(b, n), i) = At(b, i + d)
                /\ At(b, i + d) # PushSlot(b, n)
                /\ At(b, i + d) \in Slots
<1>. DEFINE R == REWIND_SLOTS
            b2 == PushBase(b, n)
            n2 == PushCount(n)
<1>1. /\ b2 = IF n < R THEN b ELSE IF b + 1 < R THEN b + 1 ELSE 0
      /\ b2 \in Slots /\ n2 \in 1 .. R /\ n2 - 1 \in Slots
    <2>1. b2 = IF n < R THEN b ELSE IF b + 1 < R THEN b + 1 ELSE 0
        BY PushBaseValue
    <2>2. b2 \in Slots /\ n2 \in 1 .. R
        BY PushBaseValue
    <2>3. n2 - 1 \in Slots
        BY <2>2, RingSize DEF Slots
    <2>. QED  BY <2>1, <2>2, <2>3
<1>2. n2 = IF n = R THEN n ELSE n + 1
    BY DEF PushCount
<1>3. CASE n = R
    <2>1. At(b2, n2 - 1) = b
        <3>1. At(b2, n2 - 1) = IF b2 + (n2 - 1) < R THEN b2 + (n2 - 1)
                               ELSE b2 + (n2 - 1) - R
            BY <1>1, AtValue
        <3>. QED  BY <3>1, <1>1, <1>2, <1>3, RingSize DEF Slots
    <2>2. ASSUME NEW i \in 0 .. n2 - 2
          PROVE  /\ i \in Slots /\ i + 1 \in 0 .. n - 1
                 /\ At(b2, i) = At(b, i + 1)
                 /\ At(b, i + 1) # b /\ At(b, i + 1) \in Slots
        <3>1. i \in Slots /\ i + 1 \in Slots /\ i + 1 \in 0 .. n - 1
            BY <1>1, <1>2, <1>3, RingSize DEF Slots
        <3>2. At(b, i + 1) = IF b + (i + 1) < R THEN b + (i + 1)
                             ELSE b + (i + 1) - R
            BY <3>1, AtValue
        <3>3. At(b2, i) = IF b2 + i < R THEN b2 + i ELSE b2 + i - R
            BY <1>1, <3>1, AtValue
        <3>4. At(b, i + 1) \in Slots
            BY <3>1, AtValue
        <3>. QED  BY <3>1, <3>2, <3>3, <3>4, <1>1, <1>3, RingSize DEF Slots
    <2>3. PushSlot(b, n) = b
        BY <1>3 DEF PushSlot
    <2>. QED  BY <2>1, <2>2, <2>3
<1>4. CASE n # R
    <2>1. n \in Slots /\ b2 = b /\ n2 = n + 1 /\ PushSlot(b, n) = At(b, n)
        BY <1>1, <1>2, <1>4, RingSize DEF Slots, PushSlot
    <2>2. ASSUME NEW i \in 0 .. n2 - 2
          PROVE  /\ i \in Slots /\ i + 0 \in 0 .. n - 1
                 /\ At(b2, i) = At(b, i + 0)
                 /\ At(b, i + 0) # At(b, n) /\ At(b, i + 0) \in Slots
        <3>1. i \in Slots /\ i + 0 = i /\ i # n /\ i \in 0 .. n - 1
            BY <2>1, RingSize DEF Slots
        <3>. QED  BY <2>1, <3>1, AtValue, AtDistinct
    <2>3. At(b2, n2 - 1) = At(b, n)
        <3>1. n2 - 1 = n
            BY <2>1, RingSize DEF Slots
        <3>. QED  BY <2>1, <3>1
    <2>. QED  BY <2>1, <2>2, <2>3
<1>. QED  BY <1>3, <1>4

LEMMA EntryTypes ==
    ASSUME NEW b, NEW n, NEW f, NEW m, RingTypes(b, n, f, m),
           NEW i \in 0 .. n - 1
    PROVE  /\ i \in Slots /\ At(b, i) \in Slots
           /\ f[At(b, i)] \in Frames /\ m[At(b, i)] \in Mems
<1>1. i \in Slots
    BY RingSize DEF RingTypes, Slots
<1>2. At(b, i) \in Slots
    BY <1>1, AtValue DEF RingTypes
<1>. QED  BY <1>1, <1>2 DEF RingTypes

\* Pushing the frame that follows c keeps the ring a past of the memory.
LEMMA PushKeepsOrder ==
    ASSUME NEW b, NEW n, NEW f, NEW m, NEW c \in Frames, c + 1 \in Frames,
           NEW g \in Mems, PastRing(b, n, f, m, c, g),
           NEW b2, b2 = PushBase(b, n), NEW n2, n2 = PushCount(n),
           NEW f2, f2 = [f EXCEPT ![PushSlot(b, n)] = c + 1],
           NEW m2, m2 = [m EXCEPT ![PushSlot(b, n)] = g]
    PROVE  PastRing(b2, n2, f2, m2, c + 1, g)
<1>. DEFINE s == PushSlot(b, n)
<1>0. /\ RingTypes(b, n, f, m) /\ Sorted(b, n, f, m)
      /\ Bounded(b, n, f, c) /\ Past(b, n, f, m, c, g)
    BY DEF PastRing
<1>1. b \in Slots /\ n \in 1 .. REWIND_SLOTS /\ n \in 0 .. REWIND_SLOTS
      /\ f \in [Slots -> Frames] /\ m \in [Slots -> Mems]
    BY <1>0, RingSize DEF RingTypes
<1>2. b2 \in Slots /\ n2 \in 1 .. REWIND_SLOTS /\ s \in Slots
    BY <1>1, PushBaseValue
<1>3. RingTypes(b2, n2, f2, m2)
    BY <1>1, <1>2 DEF RingTypes
<1>4. f2[At(b2, n2 - 1)] = c + 1 /\ m2[At(b2, n2 - 1)] = g
    <2>1. At(b2, n2 - 1) = s
        BY <1>1, PushShift
    <2>. QED  BY <2>1, <1>1, <1>2
<1>5. PICK d \in {0, 1} : \A i \in 0 .. n2 - 2 :
                /\ i \in Slots /\ i + d \in 0 .. n - 1
                /\ At(b2, i) = At(b, i + d)
                /\ At(b, i + d) # s
                /\ At(b, i + d) \in Slots
    BY <1>1, PushShift
<1>6. ASSUME NEW i \in 0 .. n2 - 2
      PROVE  /\ i + d \in 0 .. n - 1
             /\ f2[At(b2, i)] = f[At(b, i + d)]
             /\ m2[At(b2, i)] = m[At(b, i + d)]
    BY <1>1, <1>5
<1>7. ASSUME NEW i \in 0 .. n2 - 2
      PROVE  /\ f2[At(b2, i)] \in Nat /\ f2[At(b2, i)] <= c
             /\ f2[At(b2, i)] < c + 1
             /\ IsPrefix(m2[At(b2, i)], g)
    <2>1. f[At(b, i + d)] <= c /\ IsPrefix(m[At(b, i + d)], g)
        BY <1>0, <1>6 DEF Bounded, Past
    <2>2. f[At(b, i + d)] \in Frames
        BY <1>0, <1>6, EntryTypes
    <2>. QED  BY <2>1, <2>2, <1>6 DEF Frames
<1>8. \A i \in 0 .. n2 - 1 : i \in 0 .. n2 - 2 \/ i = n2 - 1
    BY <1>2, RingSize
<1>9. Sorted(b2, n2, f2, m2)
    <2>. SUFFICES ASSUME NEW i \in 0 .. n2 - 1, NEW j \in 0 .. n2 - 1, i < j
                  PROVE  /\ f2[At(b2, i)] < f2[At(b2, j)]
                         /\ IsPrefix(m2[At(b2, i)], m2[At(b2, j)])
        BY DEF Sorted
    <2>1. i \in 0 .. n2 - 2
        BY <1>2, RingSize
    <2>2. CASE j = n2 - 1
        BY <2>1, <2>2, <1>4, <1>7
    <2>3. CASE j \in 0 .. n2 - 2
        <3>1. i + d \in 0 .. n - 1 /\ j + d \in 0 .. n - 1 /\ i + d < j + d
            BY <2>1, <2>3, <1>6
        <3>. QED  BY <1>0, <3>1, <2>1, <2>3, <1>6 DEF Sorted
    <2>. QED  BY <2>2, <2>3, <1>8
<1>10. Bounded(b2, n2, f2, c + 1)
    <2>. SUFFICES ASSUME NEW i \in 0 .. n2 - 1 PROVE f2[At(b2, i)] <= c + 1
        BY DEF Bounded
    <2>. QED  BY <1>4, <1>7, <1>8 DEF Frames
<1>11. Past(b2, n2, f2, m2, c + 1, g)
    <2>. SUFFICES ASSUME NEW i \in 0 .. n2 - 1 PROVE IsPrefix(m2[At(b2, i)], g)
        BY DEF Past
    <2>. QED  BY <1>4, <1>7, <1>8, PrefixReflexive
<1>. QED  BY <1>3, <1>9, <1>10, <1>11 DEF PastRing

\* ... and its labels exact.
LEMMA PushKeepsLabels ==
    ASSUME NEW b, NEW n, NEW f, NEW m, RingTypes(b, n, f, m),
           NEW c \in Frames, c + 1 \in Frames, NEW g \in Mems,
           Bounded(b, n, f, c),
           NEW tr \in [Frames -> Mems], Labelled(b, n, f, m, tr),
           Len(g) = c + 1,
           NEW s, s = PushSlot(b, n),
           NEW b2, b2 = PushBase(b, n), NEW n2, n2 = PushCount(n),
           NEW f2, f2 = [f EXCEPT ![s] = c + 1],
           NEW m2, m2 = [m EXCEPT ![s] = g],
           NEW tr2, tr2 = [tr EXCEPT ![c + 1] = g]
    PROVE  Labelled(b2, n2, f2, m2, tr2)
<1>1. b \in Slots /\ n \in 1 .. REWIND_SLOTS /\ n \in 0 .. REWIND_SLOTS
      /\ f \in [Slots -> Frames] /\ m \in [Slots -> Mems]
    BY RingSize DEF RingTypes
<1>2. b2 \in Slots /\ n2 \in 1 .. REWIND_SLOTS /\ s \in Slots
    BY <1>1, PushBaseValue
<1>3. f2[At(b2, n2 - 1)] = c + 1 /\ m2[At(b2, n2 - 1)] = g
    <2>1. At(b2, n2 - 1) = s
        BY <1>1, PushShift
    <2>. QED  BY <2>1, <1>1, <1>2
<1>4. PICK d \in {0, 1} : \A i \in 0 .. n2 - 2 :
                /\ i \in Slots /\ i + d \in 0 .. n - 1
                /\ At(b2, i) = At(b, i + d)
                /\ At(b, i + d) # s
                /\ At(b, i + d) \in Slots
    BY <1>1, PushShift
<1>. SUFFICES ASSUME NEW i \in 0 .. n2 - 1
              PROVE  /\ Len(m2[At(b2, i)]) = f2[At(b2, i)]
                     /\ m2[At(b2, i)] = tr2[f2[At(b2, i)]]
    BY DEF Labelled
<1>5. CASE i = n2 - 1
    BY <1>3, <1>5
<1>6. CASE i \in 0 .. n2 - 2
    <2>1. /\ i + d \in 0 .. n - 1
          /\ f2[At(b2, i)] = f[At(b, i + d)]
          /\ m2[At(b2, i)] = m[At(b, i + d)]
        BY <1>1, <1>4, <1>6
    <2>2. /\ f[At(b, i + d)] \in Frames /\ f[At(b, i + d)] <= c
          /\ Len(m[At(b, i + d)]) = f[At(b, i + d)]
          /\ m[At(b, i + d)] = tr[f[At(b, i + d)]]
        BY <2>1, EntryTypes DEF Bounded, Labelled
    <2>3. f[At(b, i + d)] # c + 1
        BY <2>2 DEF Frames
    <2>. QED  BY <2>1, <2>2, <2>3
<1>7. i \in 0 .. n2 - 2 \/ i = n2 - 1
    BY <1>2, RingSize
<1>. QED  BY <1>5, <1>6, <1>7

\* Cutting off the newest entries loses nothing of this.
LEMMA CutKeepsOrder ==
    ASSUME NEW b, NEW n, NEW f, NEW m, RingTypes(b, n, f, m),
           Sorted(b, n, f, m), NEW k \in 1 .. n
    PROVE  RingTypes(b, k, f, m) /\ Sorted(b, k, f, m)
<1>1. k \in 1 .. REWIND_SLOTS /\ \A i \in 0 .. k - 1 : i \in 0 .. n - 1
    BY RingSize DEF RingTypes
<1>. QED  BY <1>1 DEF RingTypes, Sorted

-----------------------------------------------------------------------------
(***************************************************************************)
(* Which snapshot a hop starts from, and what a release keeps.             *)
(***************************************************************************)
\* slot_for_frame finds a snapshot for every frame since the oldest one.
LEMMA HopStart ==
    ASSUME NEW b, NEW n, NEW f, NEW m, RingTypes(b, n, f, m),
           NEW target \in Nat, f[b] <= target
    PROVE  \E i \in 0 .. n - 1 :
              /\ f[At(b, i)] <= target
              /\ \A j \in i + 1 .. n - 1 : f[At(b, j)] > target
<1>. DEFINE S == {i \in 0 .. n - 1 : f[At(b, i)] <= target}
<1>1. n \in Nat /\ n - 1 \in Nat /\ b \in Slots
    BY RingSize DEF RingTypes
<1>2. 0 \in S
    BY <1>1, AtOldest
<1>3. PICK i \in S : \A k \in S : k <= i
    BY <1>1, <1>2, GreatestExists
<1>4. ASSUME NEW j \in i + 1 .. n - 1 PROVE f[At(b, j)] > target
    <2>1. j \in 0 .. n - 1 /\ ~ (j <= i)
        BY <1>1
    <2>2. ~ (f[At(b, j)] <= target)
        BY <2>1, <1>3
    <2>3. f[At(b, j)] \in Nat
        BY <2>1, EntryTypes DEF Frames
    <2>. QED  BY <2>2, <2>3
<1>. QED  BY <1>3, <1>4

\* finalize_scrub's loop stops, and on a non-empty ring of the past.
LEMMA CutPoint ==
    ASSUME NEW b, NEW n, NEW f, NEW m, RingTypes(b, n, f, m),
           Sorted(b, n, f, m), NEW h \in Nat, f[b] <= h,
           NEW k, k = CHOOSE x \in 0 .. n :
                        /\ \A i \in x .. n - 1 : f[At(b, i)] > h
                        /\ x > 0 => f[At(b, x - 1)] <= h
    PROVE  k \in 1 .. n /\ Bounded(b, k, f, h)
<1>. DEFINE P(x) == /\ \A i \in x .. n - 1 : f[At(b, i)] > h
                    /\ x > 0 => f[At(b, x - 1)] <= h
<1>0. n \in Nat /\ n >= 1 /\ b \in Slots
    BY RingSize DEF RingTypes
<1>1. \E x \in 0 .. n : P(x)
    <2>1. PICK i \in 0 .. n - 1 :
              /\ f[At(b, i)] <= h
              /\ \A j \in i + 1 .. n - 1 : f[At(b, j)] > h
        BY HopStart
    <2>2. i + 1 \in 0 .. n /\ (i + 1) - 1 = i
        BY <1>0
    <2>. QED  BY <2>1, <2>2
<1>2. k \in 0 .. n /\ P(k)
    BY <1>1
<1>3. k # 0
    <2>1. P(0) => f[At(b, 0)] > h
        BY <1>0
    <2>2. At(b, 0) = b /\ f[b] \in Nat
        BY <1>0, AtOldest DEF RingTypes, Frames
    <2>3. ~ P(0)
        BY <2>1, <2>2
    <2>. QED  BY <1>2, <2>3
<1>4. k \in 1 .. n /\ k - 1 \in 0 .. n - 1
    BY <1>0, <1>2, <1>3
<1>5. ASSUME NEW i \in 0 .. k - 1 PROVE f[At(b, i)] <= h
    <2>1. i \in 0 .. n - 1 /\ (i = k - 1 \/ i < k - 1)
        BY <1>0, <1>4
    <2>2. f[At(b, k - 1)] <= h
        BY <1>2, <1>4
    <2>3. i < k - 1 => f[At(b, i)] < f[At(b, k - 1)]
        BY <2>1, <1>4 DEF Sorted
    <2>4. f[At(b, i)] \in Nat /\ f[At(b, k - 1)] \in Nat
        BY <2>1, <1>4, EntryTypes DEF Frames
    <2>. QED  BY <2>1, <2>2, <2>3, <2>4
<1>. QED  BY <1>4, <1>5 DEF Bounded

\* The newest snapshot at or before the target went through all older ones.
LEMMA HopPast ==
    ASSUME NEW b, NEW n, NEW f, NEW m, RingTypes(b, n, f, m),
           Sorted(b, n, f, m), NEW target \in Nat,
           NEW i \in 0 .. n - 1,
           \A j \in i + 1 .. n - 1 : f[At(b, j)] > target
    PROVE  Past(b, n, f, m, target, m[At(b, i)])
<1>. SUFFICES ASSUME NEW j \in 0 .. n - 1, f[At(b, j)] <= target
              PROVE  IsPrefix(m[At(b, j)], m[At(b, i)])
    BY DEF Past
<1>1. n \in Nat
    BY RingSize DEF RingTypes
<1>2. f[At(b, j)] \in Nat /\ m[At(b, j)] \in Mems
    BY EntryTypes DEF Frames
<1>3. ~ (j \in i + 1 .. n - 1)
    BY <1>2
<1>4. j = i \/ j < i
    BY <1>1, <1>3
<1>5. CASE j = i
    BY <1>5, <1>2, PrefixReflexive
<1>6. CASE j < i
    BY <1>6 DEF Sorted
<1>. QED  BY <1>4, <1>5, <1>6

\* The same when the ring is cut behind the snapshot.
LEMMA CutPast ==
    ASSUME NEW b, NEW n, NEW f, NEW m, RingTypes(b, n, f, m),
           Sorted(b, n, f, m), NEW k \in 1 .. n, NEW c
    PROVE  /\ RingTypes(b, k, f, m) /\ Sorted(b, k, f, m)
           /\ Bounded(b, k, f, f[At(b, k - 1)])
           /\ Past(b, k, f, m, c, m[At(b, k - 1)])
<1>1. RingTypes(b, k, f, m) /\ Sorted(b, k, f, m)
    BY CutKeepsOrder
<1>2. n \in Nat /\ k \in Nat /\ k - 1 \in 0 .. k - 1
    BY RingSize DEF RingTypes
<1>3. ASSUME NEW i \in 0 .. k - 1
      PROVE  /\ f[At(b, i)] <= f[At(b, k - 1)]
             /\ IsPrefix(m[At(b, i)], m[At(b, k - 1)])
    <2>1. i = k - 1 \/ i < k - 1
        BY <1>2
    <2>2. /\ f[At(b, i)] \in Nat /\ f[At(b, k - 1)] \in Nat
          /\ m[At(b, i)] \in Mems
        BY <1>1, <1>2, EntryTypes DEF Frames
    <2>3. CASE i = k - 1
        BY <2>2, <2>3, PrefixReflexive
    <2>4. CASE i < k - 1
        <3>1. f[At(b, i)] < f[At(b, k - 1)]
              /\ IsPrefix(m[At(b, i)], m[At(b, k - 1)])
            BY <1>1, <1>2, <2>4 DEF Sorted
        <3>. QED  BY <3>1, <2>2
    <2>. QED  BY <2>1, <2>3, <2>4
<1>. QED  BY <1>1, <1>3 DEF Bounded, Past

\* A memory that goes on stays a future of the snapshots.
LEMMA PastAppend ==
    ASSUME NEW b, NEW n, NEW f, NEW m, RingTypes(b, n, f, m), NEW c,
           NEW g \in Mems, Past(b, n, f, m, c, g), NEW x \in 0 .. MaxInputs
    PROVE  Past(b, n, f, m, c, Append(g, x))
<1>. SUFFICES ASSUME NEW i \in 0 .. n - 1, f[At(b, i)] <= c
              PROVE  IsPrefix(m[At(b, i)], Append(g, x))
    BY DEF Past
<1>1. m[At(b, i)] \in Mems /\ IsPrefix(m[At(b, i)], g)
    BY EntryTypes DEF Past
<1>. QED  BY <1>1, PrefixAppend

\* A snapshot not newer than c is not newer than c + 1 either.
LEMMA NextFrame ==
    ASSUME NEW b, NEW n, NEW f, NEW m, RingTypes(b, n, f, m), NEW c \in Nat,
           Bounded(b, n, f, c), NEW g, Past(b, n, f, m, c, g)
    PROVE  Bounded(b, n, f, c + 1) /\ Past(b, n, f, m, c + 1, g)
<1>1. ASSUME NEW i \in 0 .. n - 1
      PROVE  f[At(b, i)] <= c + 1 /\ f[At(b, i)] <= c
    <2>1. f[At(b, i)] \in Nat /\ f[At(b, i)] <= c
        BY EntryTypes DEF Frames, Bounded
    <2>. QED  BY <2>1
<1>. QED  BY <1>1 DEF Bounded, Past

\* The labels depend only on the history up to the newest snapshot.
LEMMA LabelsKept ==
    ASSUME NEW b, NEW n, NEW f, NEW m, RingTypes(b, n, f, m), NEW c,
           Bounded(b, n, f, c), NEW tr, Labelled(b, n, f, m, tr),
           NEW tr2, \A k \in Frames : k <= c => tr2[k] = tr[k]
    PROVE  Labelled(b, n, f, m, tr2)
<1>1. ASSUME NEW i \in 0 .. n - 1
      PROVE  f[At(b, i)] \in Frames /\ f[At(b, i)] <= c
    BY EntryTypes DEF Bounded
<1>. QED  BY <1>1 DEF Labelled

LEMMA SingleEntry ==
    ASSUME NEW b \in Slots
    PROVE  \A i \in 0 .. 1 - 1 : i = 0 /\ At(b, i) = b
BY AtOldest

-----------------------------------------------------------------------------
(***************************************************************************)
(* The invariant.                                                          *)
(***************************************************************************)
\* Who is on the screen: a process that has presented, in or out of a scrub.
Session ==
    /\ ~owned => phase = "present" /\ game = <<>>
    /\ scrubbing /\ phase # "hold" => mode = "REPLAY"
    /\ mode = "REPLAY" \/ phase = "hold" => scrubbing
    /\ owned /\ scrubbing => scrubAnchor = presentCounter

\* A frame is presented only after a live observation was made for it.
Counting ==
    owned => /\ presentCounter < nextInput
             /\ phase = "present" /\ mode = "LIVE"
                    => presentCounter + 1 < nextInput

\* A replay is on its way from a snapshot to a frame of the past.
Seek ==
    owned /\ mode = "REPLAY" =>
        /\ replayUntil < presentCounter
        /\ slotFrame[ringBase] <= replayUntil
        /\ replayCursor <= replayUntil
        /\ phase # "hold" /\ ~justRestored => replayCursor < replayUntil

Ring ==
    owned =>
        /\ RingTypes(ringBase, ringCount, slotFrame, slotMem)
        /\ Sorted(ringBase, ringCount, slotFrame, slotMem)
        /\ Bounded(ringBase, ringCount, slotFrame, presentCounter)
        /\ Past(ringBase, ringCount, slotFrame, slotMem, HeldFrame, game)

Labels ==
    owned /\ ~scrubbed =>
        /\ Labelled(ringBase, ringCount, slotFrame, slotMem, truth)
        /\ mode = "LIVE" => Len(game) = IF phase = "present"
                                        THEN presentCounter + 1
                                        ELSE presentCounter

IInv == TypeOK /\ Session /\ Counting /\ Seek /\ Ring /\ Labels

ringVars == <<ringBase, ringCount, slotFrame, slotMem>>

LEMMA RecordsPositive == RECORDS \in Nat /\ RECORDS > 0
<1>1. REWIND_SLOTS * SNAP_INTERVAL \in Nat
    BY RingAssumption
<1>. QED  BY <1>1, RingAssumption

LEMMA InitIInv == Init => IInv
<1>. SUFFICES ASSUME Init PROVE IInv
    OBVIOUS
<1>1. TypeOK
    <2>1. 0 \in Frames /\ 1 \in 1 .. MaxInputs + 1 /\ 0 \in 0 .. MaxInputs
        BY InputsAssumption DEF Frames
    <2>2. 0 \in Slots /\ 1 \in 1 .. REWIND_SLOTS /\ 0 \in 0 .. REWIND_SLOTS
          /\ 0 \in 0 .. SNAP_INTERVAL - 1
        BY RingAssumption DEF Slots
    <2>. QED  BY <2>1, <2>2 DEF Init, TypeOK, Blank, NoRecord
<1>. QED  BY <1>1 DEF Init, IInv, Session, Counting, Seek, Ring, Labels

-----------------------------------------------------------------------------
(***************************************************************************)
(* Every step keeps it.                                                    *)
(***************************************************************************)
LEMMA ObserveIInv == IInv /\ (ObserveLive \/ ObserveReplay) => IInv'
<1>. SUFFICES ASSUME IInv, ObserveLive \/ ObserveReplay PROVE IInv'
    OBVIOUS
<1>. USE DEF IInv
<1>1. owned /\ owned' = owned
    BY DEF Session, ObserveLive, ObserveReplay
<1>2. /\ UNCHANGED <<replay, ring, request, history>>
      /\ phase = "run" /\ phase' = "present" /\ HeldFrame' = HeldFrame
    BY DEF ObserveLive, ObserveReplay, replay, HeldFrame
<1>3. PICK x \in 0 .. MaxInputs : game' = Append(game, x)
    <2>1. CASE ObserveLive
        <3>1. nextInput \in 0 .. MaxInputs
            BY <2>1, InputsAssumption DEF ObserveLive, TypeOK
        <3>. QED  BY <2>1, <3>1 DEF ObserveLive
    <2>2. CASE ObserveReplay
        <3>1. replayCursor % RECORDS \in 0 .. RECORDS - 1
            BY RecordsPositive, InputsAssumption DEF TypeOK, Frames
        <3>2. recs[replayCursor % RECORDS] \in 0 .. MaxInputs
            BY <3>1 DEF TypeOK
        <3>. QED  BY <2>2, <3>2 DEF ObserveReplay
    <2>. QED  BY <2>1, <2>2
<1>4. game \in Mems /\ game' \in Mems /\ Len(game') = Len(game) + 1
    BY <1>3 DEF TypeOK, Mems
<1>5. /\ nextInput' \in 1 .. MaxInputs + 1
      /\ recs' \in [0 .. RECORDS - 1 -> 0 .. MaxInputs]
    <2>1. CASE ObserveLive
        <3>1. nextInput + 1 \in 1 .. MaxInputs + 1 /\ nextInput \in 0 .. MaxInputs
            BY <2>1, InputsAssumption DEF ObserveLive, TypeOK
        <3>. QED  BY <2>1, <3>1 DEF ObserveLive, TypeOK
    <2>2. CASE ObserveReplay
        BY <2>2 DEF ObserveReplay, TypeOK
    <2>. QED  BY <2>1, <2>2
<1>6. TypeOK'
    BY <1>1, <1>2, <1>4, <1>5
    DEF TypeOK, Mems, replay, ring, request, history
<1>7. Session'
    BY <1>1, <1>2 DEF Session, replay
<1>8. Counting'
    <2>1. CASE ObserveLive
        <3>1. presentCounter < nextInput + 1 /\ presentCounter + 1 < nextInput + 1
            BY <1>1, InputsAssumption DEF Counting, TypeOK, Frames
        <3>. QED  BY <2>1, <3>1, <1>2 DEF Counting, ObserveLive, replay
    <2>2. CASE ObserveReplay
        BY <2>2, <1>1, <1>2 DEF Counting, ObserveReplay, replay
    <2>. QED  BY <2>1, <2>2
<1>9. Seek'
    BY <1>1, <1>2 DEF Seek, replay, ring
<1>10. Ring'
    BY <1>1, <1>2, <1>3, <1>4, PastAppend DEF Ring, replay, ring
<1>11. Labels'
    BY <1>1, <1>2, <1>4 DEF Labels, replay, ring, history
<1>. QED  BY <1>6, <1>7, <1>8, <1>9, <1>10, <1>11

LEMMA FirstIInv == IInv /\ PresentFirst => IInv'
<1>. SUFFICES ASSUME IInv, PresentFirst PROVE IInv'
    OBVIOUS
<1>. USE DEF IInv
<1>1. game = <<>> /\ game' = game /\ owned' /\ phase' = "run"
    BY DEF PresentFirst, Session
<1>2. /\ 0 \in Slots /\ 1 \in 1 .. REWIND_SLOTS /\ 1 \in 0 .. REWIND_SLOTS
      /\ 0 \in Frames /\ 0 \in 0 .. SNAP_INTERVAL - 1
    BY RingAssumption, InputsAssumption DEF Slots, Frames
<1>3. TypeOK'
    BY <1>1, <1>2 DEF TypeOK, PresentFirst
<1>4. Session' /\ Seek'
    BY DEF Session, Seek, PresentFirst
<1>5. Counting'
    <2>1. 0 < nextInput
        BY InputsAssumption DEF TypeOK
    <2>. QED  BY <2>1, <1>1 DEF Counting, PresentFirst
<1>6. /\ ringBase' = 0 /\ ringCount' = 1
      /\ slotFrame' \in [Slots -> Frames] /\ slotFrame'[0] = 0
      /\ slotMem' \in [Slots -> Mems] /\ slotMem'[0] = <<>>
      /\ truth'[0] = <<>>
      /\ presentCounter' = 0 /\ HeldFrame' = 0
    BY <1>1, <1>2 DEF PresentFirst, TypeOK, Mems, HeldFrame
<1>7. \A i \in 0 .. 1 - 1 : i = 0 /\ At(0, i) = 0
    BY <1>2, SingleEntry
<1>8. <<>> \in Mems /\ IsPrefix(<<>>, <<>>) /\ Len(<<>>) = 0
    <2>1. <<>> \in Mems
        BY DEF Mems
    <2>2. Len(<<>>) = 0
        OBVIOUS
    <2>. QED  BY <2>1, <2>2, PrefixReflexive
<1>9. /\ RingTypes(0, 1, slotFrame', slotMem')
      /\ Sorted(0, 1, slotFrame', slotMem')
      /\ Bounded(0, 1, slotFrame', 0)
      /\ Past(0, 1, slotFrame', slotMem', 0, <<>>)
      /\ Labelled(0, 1, slotFrame', slotMem', truth')
    BY <1>2, <1>6, <1>7, <1>8 DEF RingTypes, Sorted, Bounded, Past, Labelled
<1>10. Ring' /\ Labels'
    BY <1>1, <1>6, <1>8, <1>9 DEF Ring, Labels
<1>. QED  BY <1>3, <1>4, <1>5, <1>10

LEMMA ReplayIInv == IInv /\ PresentReplay => IInv'
<1>. SUFFICES ASSUME IInv, PresentReplay PROVE IInv'
    OBVIOUS
<1>. USE DEF IInv
<1>1. /\ owned /\ owned' /\ mode = "REPLAY" /\ phase = "present"
      /\ UNCHANGED <<game, nextInput, mode, presentCounter, replayUntil,
                     scrubbing, scrubAnchor, ring, recs, request, history>>
      /\ ~justRestored' /\ HeldFrame' = HeldFrame
    BY DEF PresentReplay, HeldFrame
<1>2. /\ replayCursor' \in Frames /\ replayCursor' <= replayUntil
      /\ phase' = "hold" \/ replayCursor' < replayUntil
      /\ phase' \in {"run", "hold"}
    <2>. DEFINE c == IF justRestored THEN replayCursor ELSE replayCursor + 1
    <2>1. c \in Frames /\ c <= replayUntil
        BY <1>1, InputsAssumption DEF Seek, TypeOK, Frames
    <2>2. c >= replayUntil \/ c < replayUntil
        BY <2>1 DEF TypeOK, Frames
    <2>3. replayCursor' = c
        BY DEF PresentReplay
    <2>4. phase' = IF c >= replayUntil THEN "hold" ELSE "run"
        BY <2>3 DEF PresentReplay
    <2>. HIDE DEF c
    <2>. QED  BY <2>1, <2>2, <2>3, <2>4
<1>3. TypeOK'
    BY <1>1, <1>2 DEF TypeOK, ring, request, history, PresentReplay
<1>4. Session'
    BY <1>1, <1>2 DEF Session
<1>5. Counting' /\ Seek'
    BY <1>1, <1>2 DEF Counting, Seek, ring
<1>6. Ring' /\ Labels'
    BY <1>1, <1>2 DEF Ring, Labels, ring, history
<1>. QED  BY <1>3, <1>4, <1>5, <1>6

\* What every live frame does before its exits part.
LEMMA LiveCounts ==
    ASSUME IInv, PresentLive
    PROVE  /\ owned /\ mode = "LIVE" /\ phase = "present" /\ ~scrubbing
           /\ presentCounter \in Frames /\ presentCounter + 1 \in Frames
           /\ presentCounter + 1 < nextInput
           /\ presentCounter' = presentCounter + 1
           /\ truth' = [truth EXCEPT ![presentCounter + 1] = game]
           /\ truth' \in [Frames -> Mems] /\ game \in Mems
           /\ truth'[presentCounter + 1] = game
           /\ \A k \in Frames : k <= presentCounter => truth'[k] = truth[k]
           /\ ~scrubbed => Len(game) = presentCounter + 1
<1>. USE DEF IInv
<1>1. owned /\ mode = "LIVE" /\ phase = "present" /\ ~scrubbing
    BY DEF PresentLive, Session
<1>2. presentCounter + 1 < nextInput /\ presentCounter \in Frames
    BY <1>1 DEF Counting, TypeOK
<1>3. presentCounter + 1 \in Frames
    BY <1>2, InputsAssumption DEF TypeOK, Frames
<1>4. /\ presentCounter' = presentCounter + 1
      /\ truth' = [truth EXCEPT ![presentCounter + 1] = game]
    BY DEF PresentLive
<1>5. truth \in [Frames -> Mems] /\ game \in Mems
    BY DEF TypeOK, Mems
<1>6. \A k \in Frames : k <= presentCounter => k # presentCounter + 1
    BY <1>2, InputsAssumption DEF Frames
<1>7. ~scrubbed => Len(game) = presentCounter + 1
    BY <1>1 DEF Labels
<1>8. truth' \in [Frames -> Mems] /\ truth'[presentCounter + 1] = game
    BY <1>3, <1>4, <1>5
<1>9. \A k \in Frames : k <= presentCounter => truth'[k] = truth[k]
    BY <1>4, <1>5, <1>6
<1>. QED  BY <1>1, <1>2, <1>3, <1>4, <1>5, <1>7, <1>8, <1>9

LEMMA ChordIInv == IInv /\ PresentChord => IInv'
<1>. SUFFICES ASSUME IInv, PresentChord PROVE IInv'
    OBVIOUS
<1>. USE DEF IInv
<1>0. PresentLive
    BY DEF PresentChord
<1>1. /\ owned' = owned /\ scrubbing' /\ phase' = "hold"
      /\ scrubAnchor' = presentCounter + 1
      /\ UNCHANGED <<game, nextInput, mode, replayCursor, replayUntil,
                     justRestored, ring, recs, request, scrubbed>>
    BY DEF PresentChord
<1>2. HeldFrame = presentCounter /\ HeldFrame' = presentCounter + 1
    BY <1>0, <1>1, LiveCounts DEF HeldFrame
<1>3. TypeOK'
    BY <1>0, <1>1, LiveCounts DEF TypeOK, ring, request, Mems
<1>4. Session' /\ Counting' /\ Seek'
    BY <1>0, <1>1, LiveCounts DEF Session, Counting, Seek
<1>5. presentCounter \in Nat
    BY DEF TypeOK, Frames
<1>6. Ring'
    BY <1>0, <1>1, <1>2, <1>5, LiveCounts, NextFrame DEF Ring, ring
<1>7. Labels'
    <2>. SUFFICES ASSUME ~scrubbed
                  PROVE  /\ Labelled(ringBase, ringCount, slotFrame, slotMem, truth')
                         /\ Len(game) = presentCounter + 1
        BY <1>0, <1>1, LiveCounts DEF Labels, ring
    <2>1. /\ RingTypes(ringBase, ringCount, slotFrame, slotMem)
          /\ Bounded(ringBase, ringCount, slotFrame, presentCounter)
          /\ Labelled(ringBase, ringCount, slotFrame, slotMem, truth)
        BY <1>0, LiveCounts DEF Ring, Labels
    <2>2. \A k \in Frames : k <= presentCounter => truth'[k] = truth[k]
        BY <1>0, LiveCounts
    <2>. QED  BY <1>0, <2>1, <2>2, LiveCounts, LabelsKept
<1>. QED  BY <1>3, <1>4, <1>6, <1>7

LEMMA FrameIInv == IInv /\ PresentFrame => IInv'
<1>. SUFFICES ASSUME IInv, PresentFrame PROVE IInv'
    OBVIOUS
<1>. USE DEF IInv
<1>0. PresentLive
    BY DEF PresentFrame
<1>. DEFINE c == presentCounter
<1>1. /\ owned' = owned /\ phase' = "run"
      /\ UNCHANGED <<game, nextInput, mode, replayCursor, replayUntil,
                     justRestored, scrubbing, scrubAnchor, recs, request, scrubbed>>
    BY DEF PresentFrame
<1>2. HeldFrame = c /\ HeldFrame' = c + 1 /\ presentCounter' = c + 1
    BY <1>0, <1>1, LiveCounts DEF HeldFrame
<1>3. /\ RingTypes(ringBase, ringCount, slotFrame, slotMem)
      /\ Sorted(ringBase, ringCount, slotFrame, slotMem)
      /\ Bounded(ringBase, ringCount, slotFrame, c)
      /\ Past(ringBase, ringCount, slotFrame, slotMem, c, game)
    BY <1>0, <1>2, LiveCounts DEF Ring
<1>4. c \in Frames /\ c + 1 \in Frames /\ c \in Nat /\ game \in Mems
      /\ truth \in [Frames -> Mems]
    BY <1>0, LiveCounts DEF TypeOK, Frames, Mems
<1>5. Session' /\ Counting' /\ Seek'
    BY <1>0, <1>1, LiveCounts DEF Session, Counting, Seek
<1>6. /\ presentsSinceSnap' \in 0 .. SNAP_INTERVAL - 1
      /\ \/ UNCHANGED ringVars
         \/ TakeSnapshot(c + 1, game)
    <2>1. CASE presentsSinceSnap + 1 >= SNAP_INTERVAL
        <3>1. 0 \in 0 .. SNAP_INTERVAL - 1
            BY RingAssumption
        <3>. QED  BY <2>1, <3>1 DEF PresentFrame
    <2>2. CASE ~ (presentsSinceSnap + 1 >= SNAP_INTERVAL)
        <3>1. presentsSinceSnap + 1 \in 0 .. SNAP_INTERVAL - 1
            BY <2>2, RingAssumption DEF TypeOK
        <3>. QED  BY <2>2, <3>1 DEF PresentFrame, ringVars
    <2>. QED  BY <2>1, <2>2
<1>7. /\ RingTypes(ringBase', ringCount', slotFrame', slotMem')
      /\ Sorted(ringBase', ringCount', slotFrame', slotMem')
      /\ Bounded(ringBase', ringCount', slotFrame', c + 1)
      /\ Past(ringBase', ringCount', slotFrame', slotMem', c + 1, game)
      /\ ~scrubbed => Labelled(ringBase', ringCount', slotFrame', slotMem', truth')
    <2>1. CASE UNCHANGED ringVars
        <3>1. Bounded(ringBase, ringCount, slotFrame, c + 1)
              /\ Past(ringBase, ringCount, slotFrame, slotMem, c + 1, game)
            BY <1>3, <1>4, NextFrame
        <3>2. ASSUME ~scrubbed
              PROVE  Labelled(ringBase, ringCount, slotFrame, slotMem, truth')
            <4>1. Labelled(ringBase, ringCount, slotFrame, slotMem, truth)
                BY <1>0, <3>2, LiveCounts DEF Labels
            <4>2. \A k \in Frames : k <= c => truth'[k] = truth[k]
                BY <1>0, LiveCounts
            <4>. QED  BY <1>3, <4>1, <4>2, LabelsKept
        <3>. QED  BY <2>1, <1>3, <3>1, <3>2 DEF ringVars
    <2>2. CASE TakeSnapshot(c + 1, game)
        <3>. DEFINE s == PushSlot(ringBase, ringCount)
        <3>1. /\ ringBase' = PushBase(ringBase, ringCount)
              /\ ringCount' = PushCount(ringCount)
              /\ slotFrame' = [slotFrame EXCEPT ![s] = c + 1]
              /\ slotMem' = [slotMem EXCEPT ![s] = game]
            BY <2>2 DEF TakeSnapshot, PushBase, PushCount, PushSlot, SlotAt, At
        <3>2. /\ RingTypes(ringBase', ringCount', slotFrame', slotMem')
              /\ Sorted(ringBase', ringCount', slotFrame', slotMem')
              /\ Bounded(ringBase', ringCount', slotFrame', c + 1)
              /\ Past(ringBase', ringCount', slotFrame', slotMem', c + 1, game)
            <4>1. PastRing(ringBase, ringCount, slotFrame, slotMem, c, game)
                BY <1>3 DEF PastRing
            <4>2. PastRing(ringBase', ringCount', slotFrame', slotMem', c + 1, game)
                BY <1>4, <3>1, <4>1, PushKeepsOrder
            <4>. QED  BY <4>2 DEF PastRing
        <3>3. ASSUME ~scrubbed
              PROVE  Labelled(ringBase', ringCount', slotFrame', slotMem', truth')
            <4>1. Labelled(ringBase, ringCount, slotFrame, slotMem, truth)
                  /\ Len(game) = c + 1
                BY <1>0, <3>3, LiveCounts DEF Labels
            <4>2. truth' = [truth EXCEPT ![c + 1] = game]
                BY <1>0, LiveCounts
            <4>. QED  BY <1>3, <1>4, <3>1, <4>1, <4>2, PushKeepsLabels
        <3>. QED  BY <3>2, <3>3
    <2>. QED  BY <1>6, <2>1, <2>2
<1>8. TypeOK'
    <2>1. ringBase' \in Slots /\ ringCount' \in 0 .. REWIND_SLOTS
          /\ slotFrame' \in [Slots -> Frames] /\ slotMem' \in [Slots -> Mems]
        BY <1>7, RingSize DEF RingTypes
    <2>. QED  BY <1>0, <1>1, <1>2, <1>4, <1>6, <2>1, LiveCounts
              DEF TypeOK, request, Mems
<1>9. Ring'
    BY <1>1, <1>2, <1>7 DEF Ring
<1>10. Labels'
    BY <1>0, <1>1, <1>2, <1>7, LiveCounts DEF Labels
<1>. QED  BY <1>5, <1>8, <1>9, <1>10

LEMMA RestoreIInv == IInv /\ PresentRestore => IInv'
<1>. SUFFICES ASSUME IInv, PresentRestore PROVE IInv'
    OBVIOUS
<1>. USE DEF IInv
<1>. DEFINE kept == IF popN > ringCount THEN 0 ELSE ringCount - popN
            slot == At(ringBase, kept)
            c == slotFrame[slot]
<1>1. /\ owned /\ owned' /\ mode = "LIVE" /\ mode' = "LIVE"
      /\ phase = "present" /\ phase' = "run" /\ ~scrubbing
      /\ UNCHANGED <<owned, mode, scrubbing, nextInput, replayCursor,
                     replayUntil, justRestored,
                     scrubAnchor, ringBase, slotFrame, slotMem, recs, scrubbed>>
    BY DEF PresentRestore, Session
<1>2. /\ ringCount' = kept + 1
      /\ game' = slotMem[slot] /\ presentCounter' = c
      /\ truth' = [k \in Frames |-> IF k <= c THEN truth[k] ELSE <<>>]
      /\ popN' = 1 /\ requested' = FALSE /\ presentsSinceSnap' = 0
    BY DEF PresentRestore, SlotAt, At
<1>3. /\ RingTypes(ringBase, ringCount, slotFrame, slotMem)
      /\ Sorted(ringBase, ringCount, slotFrame, slotMem)
      /\ Bounded(ringBase, ringCount, slotFrame, presentCounter)
    BY <1>1 DEF Ring
<1>4. kept + 1 \in 1 .. ringCount /\ (kept + 1) - 1 = kept
      /\ kept \in 0 .. ringCount - 1
      /\ kept + 1 \in 0 .. REWIND_SLOTS
    BY <1>3, RingSize DEF RingTypes, TypeOK
<1>5. c \in Frames /\ slotMem[slot] \in Mems
      /\ c <= presentCounter
    BY <1>3, <1>4, EntryTypes DEF Bounded
<1>6. /\ RingTypes(ringBase, kept + 1, slotFrame, slotMem)
      /\ Sorted(ringBase, kept + 1, slotFrame, slotMem)
      /\ Bounded(ringBase, kept + 1, slotFrame, c)
      /\ Past(ringBase, kept + 1, slotFrame, slotMem, c, slotMem[slot])
    <2>. HIDE DEF kept
    <2>. QED  BY <1>3, <1>4, CutPast
<1>7. TypeOK'
    <2>1. 1 \in 1 .. REWIND_SLOTS /\ 0 \in 0 .. SNAP_INTERVAL - 1
        BY RingAssumption
    <2>2. truth' \in [Frames -> Mems]
        <3>1. truth \in [Frames -> Mems] /\ <<>> \in Mems
            BY DEF TypeOK, Mems
        <3>. QED  BY <1>2, <3>1
    <2>. HIDE DEF kept, c
    <2>. QED  BY <1>1, <1>2, <1>4, <1>5, <2>1, <2>2 DEF TypeOK, Mems
<1>8. Session' /\ Seek'
    BY <1>1 DEF Session, Seek
<1>9. Counting'
    <2>1. c < nextInput
        BY <1>1, <1>5, InputsAssumption DEF Counting, TypeOK, Frames
    <2>. QED  BY <1>1, <1>2, <2>1 DEF Counting
<1>10. Ring'
    <2>1. HeldFrame' = c
        BY <1>1, <1>2 DEF HeldFrame
    <2>. HIDE DEF kept, slot, c
    <2>. QED  BY <1>1, <1>2, <1>6, <2>1 DEF Ring
<1>11. Labels'
    <2>. SUFFICES ASSUME ~scrubbed
                  PROVE  /\ Labelled(ringBase, kept + 1, slotFrame, slotMem, truth')
                         /\ Len(slotMem[slot]) = c
        BY <1>1, <1>2 DEF Labels
    <2>1. Labelled(ringBase, ringCount, slotFrame, slotMem, truth)
        BY <1>1 DEF Labels
    <2>2. Len(slotMem[slot]) = c
        BY <1>4, <2>1 DEF Labelled
    <2>3. Labelled(ringBase, kept + 1, slotFrame, slotMem, truth)
        <3>1. \A i \in 0 .. (kept + 1) - 1 : i \in 0 .. ringCount - 1
            BY <1>3, <1>4, RingSize DEF RingTypes
        <3>. QED  BY <2>1, <3>1 DEF Labelled
    <2>4. \A k \in Frames : k <= c => truth'[k] = truth[k]
        BY <1>2
    <2>. HIDE DEF kept, slot, c
    <2>. QED  BY <1>6, <2>2, <2>3, <2>4, LabelsKept
<1>. QED  BY <1>7, <1>8, <1>9, <1>10, <1>11

\* A hop goes to a frame of the ring's span, before the one held.
LEMMA HopTargetBounds ==
    ASSUME IInv, Hop
    PROVE  /\ owned /\ scrubbing
           /\ HopTarget \in Frames /\ slotFrame[ringBase] <= HopTarget
           /\ HopTarget < HeldFrame /\ HopTarget < presentCounter
           /\ \E i \in 0 .. ringCount - 1 : NewestAtOrBefore(HopTarget, i)
<1>. USE DEF IInv
<1>1. owned /\ scrubbing
    BY DEF Hop, Session
<1>2. /\ HeldFrame \in Frames /\ HeldFrame <= presentCounter
      /\ slotFrame[ringBase] \in Frames /\ presentCounter \in Frames
    <2>1. slotFrame[ringBase] \in Frames
        BY DEF TypeOK
    <2>. QED  BY <1>1, <2>1, InputsAssumption DEF HeldFrame, Seek, TypeOK, Frames
<1>3. HeldFrame > slotFrame[ringBase]
    BY DEF Hop
<1>4. /\ HopTarget \in Frames /\ slotFrame[ringBase] <= HopTarget
      /\ HopTarget < HeldFrame /\ HopTarget < presentCounter
    <2>. DEFINE h == HeldFrame
                o == slotFrame[ringBase]
                p == presentCounter
    <2>1. HopTarget = IF h > o + SCRUB_STEP THEN h - SCRUB_STEP ELSE o
        BY DEF HopTarget
    <2>2. h \in 0 .. MaxInputs /\ o \in 0 .. MaxInputs /\ p \in 0 .. MaxInputs
          /\ h <= p /\ h > o /\ MaxInputs \in Nat /\ SCRUB_STEP \in Nat \ {0}
        BY <1>2, <1>3, InputsAssumption, RingAssumption DEF Frames
    <2>. HIDE DEF h, o, p
    <2>3. (IF h > o + SCRUB_STEP THEN h - SCRUB_STEP ELSE o) \in 0 .. MaxInputs
        BY <2>2
    <2>4. /\ o <= IF h > o + SCRUB_STEP THEN h - SCRUB_STEP ELSE o
          /\ (IF h > o + SCRUB_STEP THEN h - SCRUB_STEP ELSE o) < h
          /\ (IF h > o + SCRUB_STEP THEN h - SCRUB_STEP ELSE o) < p
        BY <2>2
    <2>. QED  BY <2>1, <2>3, <2>4 DEF Frames, h, o, p
<1>5. \E i \in 0 .. ringCount - 1 : NewestAtOrBefore(HopTarget, i)
    <2>1. RingTypes(ringBase, ringCount, slotFrame, slotMem)
        BY <1>1 DEF Ring
    <2>2. HopTarget \in Nat
        BY <1>4 DEF Frames
    <2>3. \E i \in 0 .. ringCount - 1 :
              /\ slotFrame[At(ringBase, i)] <= HopTarget
              /\ \A j \in i + 1 .. ringCount - 1 :
                     slotFrame[At(ringBase, j)] > HopTarget
        BY <1>4, <2>1, <2>2, HopStart
    <2>. QED  BY <2>3 DEF NewestAtOrBefore, SlotAt, At
<1>. QED  BY <1>1, <1>4, <1>5

LEMMA HopIInv == IInv /\ Hop => IInv'
<1>. SUFFICES ASSUME IInv, Hop PROVE IInv'
    OBVIOUS
<1>. USE DEF IInv
<1>. DEFINE t == HopTarget
<1>1. /\ owned /\ scrubbing /\ t \in Frames /\ slotFrame[ringBase] <= t
      /\ t < presentCounter
      /\ \E i \in 0 .. ringCount - 1 : NewestAtOrBefore(t, i)
    BY HopTargetBounds
<1>2. /\ phase = "hold" /\ phase' = "run"
      /\ UNCHANGED <<owned, nextInput, presentCounter, scrubbing, scrubAnchor,
                     ring, recs, request, history>>
    BY DEF Hop
<1>3. PICK i \in 0 .. ringCount - 1 :
        /\ NewestAtOrBefore(t, i)
        /\ game' = slotMem[At(ringBase, i)]
        /\ replayCursor' = slotFrame[At(ringBase, i)]
        /\ replayUntil' = t
        /\ justRestored'
        /\ mode' = "REPLAY"
    BY <1>1 DEF Hop, SlotAt, At
<1>4. /\ slotFrame[At(ringBase, i)] <= t
      /\ \A j \in i + 1 .. ringCount - 1 : slotFrame[At(ringBase, j)] > t
    BY <1>3 DEF NewestAtOrBefore, SlotAt, At
<1>5. /\ RingTypes(ringBase, ringCount, slotFrame, slotMem)
      /\ Sorted(ringBase, ringCount, slotFrame, slotMem)
      /\ Bounded(ringBase, ringCount, slotFrame, presentCounter)
    BY <1>1 DEF Ring
<1>6. slotFrame[At(ringBase, i)] \in Frames /\ slotMem[At(ringBase, i)] \in Mems
    BY <1>5, EntryTypes
<1>. HIDE DEF t
<1>7. TypeOK'
    BY <1>1, <1>2, <1>3, <1>6 DEF TypeOK, Mems, ring, request, history
<1>8. Session' /\ Counting'
    BY <1>1, <1>2, <1>3 DEF Session, Counting
<1>9. Seek'
    BY <1>1, <1>2, <1>3, <1>4 DEF Seek, ring
<1>10. Ring'
    <2>1. HeldFrame' = t /\ t \in Nat
        BY <1>1, <1>3 DEF HeldFrame, Frames
    <2>2. Past(ringBase, ringCount, slotFrame, slotMem, t,
               slotMem[At(ringBase, i)])
        BY <1>4, <1>5, <2>1, HopPast
    <2>. QED  BY <1>2, <1>3, <1>5, <2>1, <2>2 DEF Ring, ring
<1>11. Labels'
    BY <1>1, <1>2, <1>3 DEF Labels, ring, history
<1>. QED  BY <1>7, <1>8, <1>9, <1>10, <1>11

LEMMA ReleaseIInv == IInv /\ Release => IInv'
<1>. SUFFICES ASSUME IInv, Release PROVE IInv'
    OBVIOUS
<1>. USE DEF IInv
<1>. DEFINE f == HeldFrame
<1>1. /\ owned /\ scrubbing /\ phase = "hold" /\ phase' = "run"
      /\ scrubbing' = FALSE /\ mode' = "LIVE"
      /\ UNCHANGED <<owned, game, nextInput, replayCursor, replayUntil,
                     justRestored, scrubAnchor, ringBase, slotFrame, slotMem,
                     recs, request>>
      /\ scrubAnchor = presentCounter
    BY DEF Release, Session
<1>2. Session' /\ Seek'
    BY <1>1 DEF Session, Seek
<1>3. CASE f = scrubAnchor
    <2>1. UNCHANGED <<presentCounter, ringCount, presentsSinceSnap, history>>
        BY <1>3 DEF Release
    <2>2. mode = "LIVE"
        <3>1. mode = "REPLAY" => replayUntil < presentCounter
              /\ replayUntil \in Nat /\ presentCounter \in Nat
            BY <1>1 DEF Seek, TypeOK, Frames
        <3>2. mode = "REPLAY" => replayUntil = presentCounter
            BY <1>1, <1>3 DEF HeldFrame
        <3>3. mode # "REPLAY"
            BY <3>1, <3>2
        <3>. QED  BY <3>3 DEF TypeOK
    <2>3. HeldFrame' = HeldFrame
        BY <1>1, <2>1, <2>2 DEF HeldFrame
    <2>4. TypeOK'
        BY <1>1, <2>1 DEF TypeOK, history, request
    <2>. QED  BY <1>1, <1>2, <2>1, <2>2, <2>3, <2>4
              DEF Counting, Ring, Labels, history
<1>4. CASE f # scrubAnchor
    <2>1. mode = "REPLAY" /\ f = replayUntil
        BY <1>1, <1>4 DEF HeldFrame, TypeOK
    <2>2. /\ f \in Frames /\ f \in Nat /\ f < presentCounter
          /\ slotFrame[ringBase] <= f
        BY <1>1, <2>1 DEF Seek, TypeOK, Frames
    <2>3. /\ presentCounter' = f /\ presentsSinceSnap' = 0 /\ scrubbed' = TRUE
          /\ truth' = [k \in Frames |-> IF k <= f THEN truth[k] ELSE <<>>]
          /\ ringCount' = CHOOSE x \in 0 .. ringCount :
                /\ \A i \in x .. ringCount - 1 : slotFrame[At(ringBase, i)] > f
                /\ x > 0 => slotFrame[At(ringBase, x - 1)] <= f
        BY <1>4 DEF Release, SlotAt, At
    <2>4. /\ RingTypes(ringBase, ringCount, slotFrame, slotMem)
          /\ Sorted(ringBase, ringCount, slotFrame, slotMem)
          /\ Past(ringBase, ringCount, slotFrame, slotMem, f, game)
        BY <1>1 DEF Ring
    <2>. HIDE DEF f
    <2>5. ringCount' \in 1 .. ringCount
          /\ Bounded(ringBase, ringCount', slotFrame, f)
        BY <2>2, <2>3, <2>4, CutPoint
    <2>6. /\ RingTypes(ringBase, ringCount', slotFrame, slotMem)
          /\ Sorted(ringBase, ringCount', slotFrame, slotMem)
        BY <2>4, <2>5, CutKeepsOrder
    <2>7. Past(ringBase, ringCount', slotFrame, slotMem, f, game)
        <3>1. PICK k \in 1 .. ringCount : k = ringCount'
            BY <2>5
        <3>2. \A i \in 0 .. k - 1 : i \in 0 .. ringCount - 1
            BY <2>4, RingSize DEF RingTypes
        <3>. QED  BY <2>4, <3>1, <3>2 DEF Past
    <2>8. TypeOK'
        <3>1. 0 \in 0 .. SNAP_INTERVAL - 1
            BY RingAssumption
        <3>2. truth' \in [Frames -> Mems]
            <4>1. truth \in [Frames -> Mems] /\ <<>> \in Mems
                BY DEF TypeOK, Mems
            <4>. QED  BY <2>3, <4>1
        <3>3. ringCount' \in 0 .. REWIND_SLOTS
            BY <2>6, RingSize DEF RingTypes
        <3>. QED  BY <1>1, <2>2, <2>3, <3>1, <3>2, <3>3
                  DEF TypeOK, request, Mems
    <2>9. Counting'
        <3>1. f < nextInput
            BY <1>1, <2>2, InputsAssumption DEF Counting, TypeOK, Frames
        <3>. QED  BY <1>1, <2>3, <3>1 DEF Counting
    <2>10. Ring'
        <3>1. HeldFrame' = f
            BY <1>1, <2>3 DEF HeldFrame
        <3>. QED  BY <1>1, <2>3, <2>5, <2>6, <2>7, <3>1 DEF Ring
    <2>11. Labels'
        BY <2>3 DEF Labels
    <2>. QED  BY <1>2, <2>8, <2>9, <2>10, <2>11
<1>. QED  BY <1>3, <1>4

LEMMA MenuIInv == IInv /\ (\E i \in Slots : MenuPick(i)) => IInv'
<1>. SUFFICES ASSUME IInv, NEW i \in Slots, MenuPick(i) PROVE IInv'
    OBVIOUS
<1>. USE DEF IInv
<1>1. i + 1 \in 1 .. REWIND_SLOTS
    BY RingSize DEF Slots
<1>2. /\ requested' = TRUE /\ popN' = i + 1
      /\ UNCHANGED <<process, replay, ring, recs, history>>
    BY DEF MenuPick
<1>3. TypeOK'
    BY <1>1, <1>2 DEF TypeOK, process, replay, ring, history
<1>. QED  BY <1>2, <1>3
          DEF Session, Counting, Seek, Ring, Labels, HeldFrame,
              process, replay, ring, history

LEMMA LaunchIInv == IInv /\ Launch => IInv'
<1>. SUFFICES ASSUME IInv, Launch PROVE IInv'
    OBVIOUS
<1>. USE DEF IInv
<1>1. /\ owned' = FALSE /\ phase' = "present" /\ phase = "run" /\ game' = <<>>
      /\ UNCHANGED <<replay, ringBase, ringCount, presentsSinceSnap, request>>
    BY DEF Launch
<1>2. TypeOK'
    <2>1. 0 \in Frames /\ 1 \in 1 .. MaxInputs + 1 /\ 0 \in 0 .. MaxInputs
        BY InputsAssumption DEF Frames
    <2>2. <<>> \in Seq(0 .. MaxInputs)
        OBVIOUS
    <2>. QED  BY <1>1, <2>1, <2>2
              DEF Launch, TypeOK, Blank, NoRecord, replay, request
<1>3. Session'
    BY <1>1 DEF Session, replay
<1>. QED  BY <1>1, <1>2, <1>3 DEF Counting, Seek, Ring, Labels

LEMMA NextIInv == IInv /\ [Next]_vars => IInv'
<1>. SUFFICES ASSUME IInv, [Next]_vars PROVE IInv'
    OBVIOUS
<1>1. CASE Next
    BY <1>1, ObserveIInv, FirstIInv, ReplayIInv, ChordIInv, FrameIInv,
       RestoreIInv, HopIInv, ReleaseIInv, MenuIInv, LaunchIInv DEF Next
<1>2. CASE UNCHANGED vars
    BY <1>2 DEF IInv, TypeOK, Session, Counting, Seek, Ring, Labels, HeldFrame,
       vars, process, replay, ring, request, history
<1>. QED  BY <1>1, <1>2

-----------------------------------------------------------------------------
(***************************************************************************)
(* The theorems.                                                           *)
(***************************************************************************)
\* The session, the counters, the replay under way, the ring and its labels
\* agree in every reachable state.
THEOREM Invariance == Spec => []IInv
<1>. QED  BY InitIInv, NextIInv, PTL DEF Spec

\* Every variable of rewind.c keeps its range: no ring index, cursor or label
\* runs away.
THEOREM TypeCorrect == Spec => []TypeOK
<1>1. IInv => TypeOK
    BY DEF IInv
<1>. QED  BY <1>1, Invariance, PTL

\* The snapshot ring (take_snapshot, do_menu_restore, finalize_scrub) always
\* is one past of the game now running, in order.
THEOREM RingIsThePast == Spec => []SnapshotsAreThePast
<1>1. IInv => SnapshotsAreThePast
    <2>. SUFFICES ASSUME IInv, owned PROVE SnapshotsAreThePast
        BY DEF SnapshotsAreThePast
    <2>1. /\ RingTypes(ringBase, ringCount, slotFrame, slotMem)
          /\ Sorted(ringBase, ringCount, slotFrame, slotMem)
          /\ Bounded(ringBase, ringCount, slotFrame, presentCounter)
          /\ Past(ringBase, ringCount, slotFrame, slotMem, HeldFrame, game)
        BY DEF IInv, Ring
    <2>2. ringCount - 1 \in 0 .. ringCount - 1
        BY <2>1, RingSize DEF RingTypes
    <2>3. ASSUME mode = "LIVE"
          PROVE  /\ slotFrame[At(ringBase, ringCount - 1)] <= presentCounter
                 /\ IsPrefix(slotMem[At(ringBase, ringCount - 1)], game)
        <3>1. HeldFrame = presentCounter
            BY <2>3 DEF HeldFrame
        <3>. QED  BY <2>1, <2>2, <3>1 DEF Bounded, Past
    <2>. QED  BY <2>1, <2>3 DEF SnapshotsAreThePast, Sorted, SlotAt, At
<1>. QED  BY <1>1, Invariance, PTL

\* start_step always finds a snapshot, so a scrub session never stays open
\* over a game that plays on live.
THEOREM HopSafety == Spec => []HopFindsSnapshot
<1>1. IInv => HopFindsSnapshot
    <2>. SUFFICES ASSUME IInv PROVE HopFindsSnapshot
        OBVIOUS
    <2>1. owned => ringCount > 0
        BY RingSize DEF IInv, Ring, RingTypes
    <2>. QED  BY <2>1 DEF IInv, Session, HopFindsSnapshot
<1>. QED  BY <1>1, Invariance, PTL

\* Until a scrub moves the timeline, the present counter and every label in
\* the ring are exact, across any number of menu restores.
THEOREM LabelSafety == Spec => []LabelsExact
<1>1. IInv => LabelsExact
    <2>. SUFFICES ASSUME IInv, owned, ~scrubbed, ~scrubbing PROVE LabelsExact
        BY DEF LabelsExact
    <2>1. mode = "LIVE"
        BY DEF IInv, Session, TypeOK
    <2>2. Labelled(ringBase, ringCount, slotFrame, slotMem, truth)
        BY DEF IInv, Labels
    <2>3. Len(game) = presentCounter + (IF phase = "present" THEN 1 ELSE 0)
        BY <2>1 DEF IInv, Labels, TypeOK, Frames
    <2>. QED  BY <2>2, <2>3 DEF LabelsExact, Labelled, SlotAt, At
<1>. QED  BY <1>1, Invariance, PTL

\* The counter across a step: only an ordinary live present moves it up.
LEMMA CounterStep ==
    IInv /\ [Next]_vars =>
        (owned /\ owned' /\ presentCounter' > presentCounter
            => mode = "LIVE" /\ ~scrubbing /\ presentCounter' = presentCounter + 1)
<1>. SUFFICES ASSUME IInv, [Next]_vars, owned, presentCounter' > presentCounter
              PROVE  mode = "LIVE" /\ ~scrubbing
                     /\ presentCounter' = presentCounter + 1
    OBVIOUS
<1>1. presentCounter \in Nat
    BY DEF IInv, TypeOK, Frames
<1>2. CASE PresentChord \/ PresentFrame
    BY <1>2, LiveCounts DEF PresentChord, PresentFrame
<1>3. CASE PresentRestore
    <2>. DEFINE kept == IF popN > ringCount THEN 0 ELSE ringCount - popN
    <2>1. presentCounter' = slotFrame[At(ringBase, kept)]
        BY <1>3 DEF PresentRestore, SlotAt, At
    <2>2. kept \in 0 .. ringCount - 1
        BY RingSize DEF IInv, Ring, RingTypes, TypeOK
    <2>3. RingTypes(ringBase, ringCount, slotFrame, slotMem)
          /\ Bounded(ringBase, ringCount, slotFrame, presentCounter)
        BY DEF IInv, Ring
    <2>. HIDE DEF kept
    <2>4. slotFrame[At(ringBase, kept)] \in Frames
          /\ slotFrame[At(ringBase, kept)] <= presentCounter
        BY <2>2, <2>3, EntryTypes DEF Bounded
    <2>5. ~ (slotFrame[At(ringBase, kept)] > presentCounter)
        BY <1>1, <2>4 DEF Frames
    <2>. QED  BY <2>1, <2>5
<1>4. CASE Release
    <2>1. presentCounter' = presentCounter \/ presentCounter' = HeldFrame
        BY <1>4 DEF Release
    <2>2. HeldFrame \in Nat /\ ~ (HeldFrame > presentCounter)
        BY <1>1 DEF IInv, Seek, TypeOK, HeldFrame, Frames
    <2>. QED  BY <1>1, <2>1, <2>2
<1>5. CASE UNCHANGED presentCounter
    BY <1>1, <1>5
<1>6. \/ PresentChord \/ PresentFrame \/ PresentRestore \/ Release
      \/ UNCHANGED presentCounter
    BY DEF Next, vars, replay, ObserveLive, ObserveReplay, PresentFirst,
           PresentReplay, Hop, MenuPick, Launch
<1>. QED  BY <1>2, <1>3, <1>4, <1>5, <1>6

\* Restores and scrubs only ever take the present counter back.
THEOREM NoJumpForward == Spec => TimeGoesBack
<1>. QED  BY Invariance, CounterStep, PTL DEF Spec, TimeGoesBack

=============================================================================

---------------------------- MODULE DiskImage_proofs --------------------------
(***************************************************************************)
(* What mkdisk writes, what fat.c does with a volume, and the loader with  *)
(* fat.c.                                                                  *)
(*                                                                         *)
(* First mkdisk.  The image it builds is right, for all sizes of the files *)
(* and of a sector: its files are whole, the scan of vbr.S finds IO.SYS,   *)
(* and the backup boot sector is lost just when IO.SYS is copied over it.  *)
(* The steps of main() write each cluster at most once, in order; what the *)
(* disk holds before a step (Layout) is the inductive invariant.  That the *)
(* writes of one step leave the files, directories and FAT entries of the  *)
(* others alone is a matter of sets of clusters and sectors (Touches).     *)
(*                                                                         *)
(* Then the reader.  fat_read_file() stays within the size it is given,    *)
(* reports as read only the very bytes of the chain, and refuses a file    *)
(* only for a reason.  fat_find_file() hands back the first live entry of  *)
(* the name, and misses none.  Both hold for every volume, FAT, directory, *)
(* sector and cluster size and pattern of failing reads.  The loader keeps *)
(* all of this and what mkdisk promises, and reads back from the image the *)
(* kernel that mkdisk stored.                                              *)
(***************************************************************************)
EXTENDS DiskImage, Integers, FiniteSetTheorems, WellFoundedInduction, TLAPS

-----------------------------------------------------------------------------
(* Arithmetic                                                              *)

\* Quotient and remainder of a number given as both.
LEMMA DivMod ==
    ASSUME NEW q \in Nat, NEW r \in Nat, NEW d \in Nat \ {0}, r < d
    PROVE  (q * d + r) \div d = q /\ (q * d + r) % d = r
OBVIOUS

\* What \div and % mean.
LEMMA QuotientRemainder ==
    ASSUME NEW x \in Nat, NEW d \in Nat \ {0}
    PROVE  /\ (x \div d) * d + (x % d) = x
           /\ x \div d \in Nat /\ x % d \in 0 .. d - 1
OBVIOUS

\* The same, as a witness for the rules that follow.
LEMMA Division ==
    ASSUME NEW x \in Nat, NEW d \in Nat \ {0}
    PROVE  \E q, r \in Nat : x \div d = q /\ x % d = r /\ q * d + r = x /\ r < d
<1>1. x % d \in Nat /\ x % d < d
      BY QuotientRemainder
<1> QED BY QuotientRemainder, <1>1, Zenon

-----------------------------------------------------------------------------
(* Induction, from the least element of a set of numbers                   *)

\* A set of naturals that has an element has a least one.
LEMMA LeastElement ==
    ASSUME NEW S \in SUBSET Nat, S # {}
    PROVE  \E m \in S : \A k \in S : m <= k
<1> DEFINE R == OpToRel(<, Nat)
<1>1. \E m \in S : \A k \in S : ~ (<<k, m>> \in R)
  <2> HIDE DEF R
  <2>1. IsWellFoundedOn(R, Nat)
        BY NatLessThanWellFounded, Zenon DEF R
  <2> QED BY <2>1, WFMin, Zenon
<1>2. \A k, m \in Nat : k < m => <<k, m>> \in R
      BY Zenon DEF OpToRel
<1> HIDE DEF R
<1>3. \E m \in S : \A k \in S : ~ (k < m)
      BY <1>1, <1>2, Zenon
<1> QED BY <1>3

\* A set of naturals that has 0 and every successor has them all.
LEMMA Induction ==
    ASSUME NEW S \in SUBSET Nat, 0 \in S, \A n \in S : n + 1 \in S
    PROVE  S = Nat
<1> SUFFICES ASSUME Nat \ S # {} PROVE FALSE
    OBVIOUS
<1>1. PICK m \in Nat \ S : \A k \in Nat \ S : m <= k
      BY LeastElement
<1>2. m - 1 \in Nat /\ m - 1 \in S
      BY <1>1
<1> QED BY <1>1, <1>2

-----------------------------------------------------------------------------
(* The geometry mkdisk writes                                              *)

\* The sizes a sector may have.
LEMMA SectorSizes == SECTOR_SIZE \in Nat /\ SECTOR_SIZE >= 8 /\ SECTOR_SIZE <= 512
BY MkDiskAssumption

\* Both FATs are as long as they need to be, and short enough for FAT32.
LEMMA FatExtent ==
    /\ g_fat_size \in Nat /\ g_fat_size >= 1020 /\ g_fat_size <= 65276
    /\ \A x \in Nat : x < 522208 => x \div SECTOR_SIZE \in Nat /\ x \div SECTOR_SIZE < g_fat_size
<1>1. PICK ss \in Nat \ {0} : ss = SECTOR_SIZE /\ ss >= 8 /\ ss <= 512
      BY SectorSizes
<1>2. g_fat_size = (522208 + ss - 1) \div ss
  <2>1. ((PARTITION_SECTORS - RSVD_SEC_CNT) \div SEC_PER_CLUS) * 4 = 522208
        BY DEF PARTITION_SECTORS, TOTAL_SECTORS, PARTITION_START_LBA, RSVD_SEC_CNT, SEC_PER_CLUS
  <2> QED BY <1>1, <2>1 DEF g_fat_size, CeilDiv
<1>3. PICK g \in Nat, r \in Nat : /\ g = g_fat_size /\ r < ss
                                  /\ g * ss + r = 522207 + ss
  <2>1. PICK x \in Nat : x = 522208 + ss - 1
        BY <1>1
  <2>2. \E q, r \in Nat : x \div ss = q /\ q * ss + r = x /\ r < ss
        BY ONLY Division, Zenon
  <2>3. x = 522207 + ss
        BY <1>1, <2>1
  <2> QED BY <1>2, <2>1, <2>2, <2>3
<1>4. g * ss >= 522208
      BY <1>1, <1>3
<1>5. g >= 1020
  <2> SUFFICES ASSUME g <= 1019 PROVE FALSE
      BY <1>3
  <2>1. g * ss <= 1019 * ss
        BY <1>1, <1>3
  <2> QED BY <1>1, <1>4, <2>1
<1>6. g <= 65276
  <2> SUFFICES ASSUME g >= 65277 PROVE FALSE
      BY <1>3
  <2>1. g * ss >= 65277 * ss
        BY <1>1, <1>3
  <2>2. 65277 * ss <= 522207 + ss
        BY <1>1, <1>3, <2>1
  <2> QED BY <1>1, <2>2
<1>7. ASSUME NEW x \in Nat, x < 522208
      PROVE  x \div ss \in Nat /\ x \div ss < g
  <2>1. PICK q \in Nat, t \in Nat : q = x \div ss /\ q * ss + t = x
        BY ONLY Division, Zenon
  <2> SUFFICES ASSUME q >= g PROVE FALSE
      BY <2>1
  <2>2. q * ss >= g * ss
        BY <1>1
  <2> QED BY <1>1, <1>4, <1>7, <2>1, <2>2
<1> QED BY <1>1, <1>3, <1>5, <1>6, <1>7

\* The numbers mkdisk works with, and how many clusters there are.
LEMMA Geography ==
    /\ PARTITION_START_LBA = 2048 /\ RSVD_SEC_CNT = 32 /\ SEC_PER_CLUS = 4
    /\ g_fat_start = 2080 /\ g_data_start = 2080 + 2 * g_fat_size /\ g_data_start \in Nat
    /\ PARTITION_SECTORS = 522240
    /\ DataClusters \in Nat /\ DataClusters <= 130042 /\ DataClusters >= 65525
<1> USE DEF PARTITION_SECTORS, TOTAL_SECTORS, PARTITION_START_LBA, RSVD_SEC_CNT, SEC_PER_CLUS
<1>1. PICK g \in Nat : g = g_fat_size /\ g >= 1020 /\ g <= 65276
      BY FatExtent
<1>2. g_fat_start = 2080 /\ g_data_start = 2080 + 2 * g
      BY <1>1 DEF g_fat_start, g_data_start, NUM_FATS
<1>3. DataClusters = (522208 - 2 * g) \div 4
      BY <1>1 DEF DataClusters, NUM_FATS
<1>4. PICK x \in Nat : x = 522208 - 2 * g /\ x <= 520168 /\ x >= 391656
      BY <1>1
<1>5. PICK q, r \in Nat : x \div 4 = q /\ q * 4 + r = x /\ r < 4
  <2>1. 4 \in Nat \ {0}
        OBVIOUS
  <2> QED BY ONLY <2>1, Division, Zenon
<1>6. q <= 130042 /\ 4 * q <= x /\ q >= 65525
      BY ONLY <1>4, <1>5, SMT
<1>7. DataClusters = q
      BY ONLY <1>3, <1>4, <1>5
<1>8. PARTITION_SECTORS = 522240
      OBVIOUS
<1> QED BY ONLY <1>1, <1>2, <1>6, <1>7, <1>8, SMT DEF PARTITION_START_LBA, RSVD_SEC_CNT, SEC_PER_CLUS

-----------------------------------------------------------------------------
(* What the writing operations do to a sector                              *)

\* e is d with x at an offset of one sector.
IsPut(e, d, lba, off, x) ==
    /\ DOMAIN Sector(e, lba) = DOMAIN Sector(d, lba) \cup {off}
    /\ Sector(e, lba)[off] = x
    /\ \A o \in DOMAIN Sector(d, lba) : o # off => Sector(e, lba)[o] = Sector(d, lba)[o]
    /\ \A l : l # lba => Sector(e, l) = Sector(d, l)
    /\ DOMAIN e = DOMAIN d \cup {lba}

\* What Put does to the sectors of a disk.
LEMMA SectorPut ==
    ASSUME NEW d, NEW lba, NEW off, NEW x
    PROVE  IsPut(Put(d, lba, off, x), d, lba, off, x)
<1> DEFINE e == Put(d, lba, off, x)
           cell == [o \in DOMAIN Sector(d, lba) \cup {off} |-> IF o = off THEN x ELSE d[lba][o]]
<1>1. e = [l \in DOMAIN d \cup {lba} |-> IF l = lba THEN cell ELSE d[l]]
      BY DEF Put
<1>2. Sector(e, lba) = cell
      BY <1>1 DEF Sector
<1>3. \A l : l # lba => Sector(e, l) = Sector(d, l)
      BY <1>1 DEF Sector
<1>4. \A o \in DOMAIN Sector(d, lba) : lba \in DOMAIN d
  <2>1. CASE lba \notin DOMAIN d
    <3>1. Sector(d, lba) = <<>>
          BY <2>1 DEF Sector
    <3> QED BY <3>1
  <2> QED BY <2>1
<1>5. \A o \in DOMAIN Sector(d, lba) : o # off => cell[o] = Sector(d, lba)[o]
      BY <1>4 DEF Sector
<1>6. DOMAIN e = DOMAIN d \cup {lba}
      BY <1>1
<1> HIDE DEF e
<1>7. IsPut(e, d, lba, off, x)
      BY <1>2, <1>3, <1>5, <1>6 DEF IsPut
<1> QED BY <1>7 DEF e

\* What memcpy() of a file does to them.
LEMMA SectorCopied ==
    ASSUME NEW d, NEW lba \in Nat, NEW f, NEW from, NEW n \in Nat, NEW l
    PROVE  Sector(CopyFile(d, lba, f, from, n), l) =
              IF l \in lba .. lba + n - 1 THEN Only([file |-> f, n |-> from + (l - lba)])
              ELSE Sector(d, l)
BY DEF CopyFile, Sector

\* What allocate_cluster() does to them.
LEMMA SectorAllocated ==
    ASSUME NEW d, NEW c, NEW l
    PROVE  Sector(Allocated(d, c), l) =
              IF l \in MkClusterToLba(c) .. MkClusterToLba(c) + SEC_PER_CLUS - 1 THEN <<>>
              ELSE Sector(SetFatEntry(d, c, EndOfChain), l)
<1>1. DOMAIN <<>> = {}
      OBVIOUS
<1> QED BY DEF Allocated, Sector

-----------------------------------------------------------------------------
(* The two FATs                                                            *)

ClusterNos == 0 .. DataClusters + 1
FatArea == g_fat_start .. g_data_start - 1
FatLba(k, c) == g_fat_start + k * g_fat_size + (c * 4) \div SECTOR_SIZE
FatOff(c) == (c * 4) % SECTOR_SIZE

\* Entry c of copy k is there and holds v.
HasEntry(d, k, c, v) ==
    /\ FatOff(c) \in DOMAIN Sector(d, FatLba(k, c))
    /\ Sector(d, FatLba(k, c))[FatOff(c)] = [fat |-> v]

\* Sectors have numbers, and the FATs hold nothing but FAT entries.
Orderly(d) ==
    /\ DOMAIN d \subseteq Nat
    /\ \A l \in FatArea : \A o \in DOMAIN Sector(d, l) : DOMAIN Sector(d, l)[o] = {"fat"}

\* Every entry has a place of its own in each FAT.
LEMMA FatPlaces ==
    ASSUME NEW c \in ClusterNos
    PROVE  /\ FatOff(c) \in Nat
           /\ \A k \in {0, 1} : FatLba(k, c) \in FatArea /\ FatLba(k, c) \in Nat
           /\ FatLba(0, c) = g_fat_start + (c * 4) \div SECTOR_SIZE
           /\ FatLba(1, c) = g_fat_start + (c * 4) \div SECTOR_SIZE + g_fat_size
           /\ FatLba(0, c) # FatLba(1, c)
<1>1. PICK g \in Nat, ds \in Nat :
         /\ g = g_fat_size /\ g >= 1020 /\ ds = DataClusters /\ ds <= 130042
         /\ g_fat_start = 2080 /\ g_data_start = 2080 + 2 * g
      BY FatExtent, Geography
<1>2. PICK x \in Nat : x = c * 4 /\ x < 522208
      BY <1>1 DEF ClusterNos
<1>3. PICK q \in Nat, r \in Nat : x \div SECTOR_SIZE = q /\ x % SECTOR_SIZE = r
  <2>1. SECTOR_SIZE \in Nat \ {0}
        BY SectorSizes
  <2> QED BY <2>1, Division, Zenon
<1>4. q < g
      BY <1>1, <1>2, <1>3, FatExtent
<1>5. FatLba(0, c) = 2080 + q /\ FatLba(1, c) = 2080 + q + g /\ FatOff(c) = r
      BY <1>1, <1>2, <1>3 DEF FatLba, FatOff
<1>6. FatArea = 2080 .. 2080 + 2 * g - 1
      BY <1>1 DEF FatArea
<1> QED BY <1>1, <1>2, <1>3, <1>4, <1>5, <1>6

\* No two FAT entries share a place.
LEMMA FatPlacesDiffer ==
    ASSUME NEW b \in ClusterNos, NEW c \in ClusterNos, NEW j \in {0, 1}, NEW k \in {0, 1},
           FatLba(j, b) = FatLba(k, c), FatOff(b) = FatOff(c)
    PROVE  b = c /\ j = k
<1>1. PICK g \in Nat, ds \in Nat :
         /\ g = g_fat_size /\ g >= 1020 /\ ds = DataClusters /\ ds <= 130042
         /\ g_fat_start = 2080
      BY FatExtent, Geography
<1>2. PICK x \in Nat, y \in Nat : x = b * 4 /\ x < 522208 /\ y = c * 4 /\ y < 522208
      BY <1>1 DEF ClusterNos
<1>3. SECTOR_SIZE \in Nat \ {0}
      BY SectorSizes
<1>4. PICK q \in Nat, r \in Nat :
         x \div SECTOR_SIZE = q /\ x % SECTOR_SIZE = r /\ q * SECTOR_SIZE + r = x
      BY <1>3, Division, Zenon
<1>5. PICK p \in Nat, sec \in Nat :
         y \div SECTOR_SIZE = p /\ y % SECTOR_SIZE = sec /\ p * SECTOR_SIZE + sec = y
      BY <1>3, Division, Zenon
<1>6. q < g /\ p < g
      BY <1>1, <1>2, <1>4, <1>5, FatExtent
<1>7. 2080 + j * g + q = 2080 + k * g + p /\ r = sec
      BY <1>1, <1>2, <1>4, <1>5 DEF FatLba, FatOff
<1>8. j = k /\ q = p
  <2>1. CASE j = k
        BY ONLY <1>1, <1>7, <2>1, SMT
  <2>2. CASE j # k
        BY ONLY <1>1, <1>6, <1>7, <2>2, SMT
  <2> QED BY <2>1, <2>2
<1>9. b * 4 = c * 4
      BY ONLY <1>2, <1>4, <1>5, <1>7, <1>8
<1> QED BY <1>8, <1>9 DEF ClusterNos

\* fat32_set_fat_entry() writes the entry to both FATs, and nothing else.
LEMMA FatEntrySet ==
    ASSUME NEW d, NEW c \in ClusterNos, NEW v \in Nat, v <= EndOfChain
    PROVE  LET e == SetFatEntry(d, c, v)
           IN  /\ \A k \in {0, 1} : HasEntry(e, k, c, v)
               /\ \A k \in {0, 1}, b \in ClusterNos : \A w :
                     b # c /\ HasEntry(d, k, b, w) => HasEntry(e, k, b, w)
               /\ \A l : l \notin FatArea => Sector(e, l) = Sector(d, l)
               /\ Orderly(d) => Orderly(e)
<1> DEFINE l0 == FatLba(0, c)  l1 == FatLba(1, c)  off == FatOff(c)  x == [fat |-> v]
           m == Put(d, l0, off, x)
           e == Put(m, l1, off, x)
<1>1. SetFatEntry(d, c, v) = e
  <2>1. v % 268435456 = v
        BY SMT DEF EndOfChain
  <2> QED BY <2>1, FatPlaces DEF SetFatEntry, FatOff
<1>2. l0 \in FatArea /\ l1 \in FatArea /\ l0 # l1
      BY FatPlaces
<1> HIDE DEF l0, l1, off, x
<1>p. IsPut(m, d, l0, off, x)
      BY SectorPut
<1> HIDE DEF m
<1>q. IsPut(e, m, l1, off, x)
      BY SectorPut
<1> HIDE DEF e
<1>3. /\ DOMAIN Sector(m, l0) = DOMAIN Sector(d, l0) \cup {off}
      /\ Sector(m, l0)[off] = x
      /\ \A o \in DOMAIN Sector(d, l0) : o # off => Sector(m, l0)[o] = Sector(d, l0)[o]
      /\ \A l : l # l0 => Sector(m, l) = Sector(d, l)
      BY <1>p DEF IsPut
<1>4. /\ DOMAIN Sector(e, l1) = DOMAIN Sector(m, l1) \cup {off}
      /\ Sector(e, l1)[off] = x
      /\ \A o \in DOMAIN Sector(m, l1) : o # off => Sector(e, l1)[o] = Sector(m, l1)[o]
      /\ \A l : l # l1 => Sector(e, l) = Sector(m, l)
      BY <1>q DEF IsPut
<1>5. \A k \in {0, 1} : HasEntry(e, k, c, v)
  <2>1. HasEntry(e, 0, c, v)
        BY <1>2, <1>3, <1>4 DEF HasEntry, l0, off, x
  <2>2. HasEntry(e, 1, c, v)
        BY <1>4 DEF HasEntry, l1, off, x
  <2> QED BY <2>1, <2>2
<1>6. \A l, o : o \in DOMAIN Sector(e, l) =>
         \/ o \in DOMAIN Sector(d, l) /\ Sector(e, l)[o] = Sector(d, l)[o]
         \/ Sector(e, l)[o] = x
  <2>1. ASSUME NEW l, NEW o, o \in DOMAIN Sector(e, l)
        PROVE  \/ o \in DOMAIN Sector(m, l) /\ Sector(e, l)[o] = Sector(m, l)[o]
               \/ Sector(e, l)[o] = x
        BY <1>4, <2>1
  <2>2. ASSUME NEW l, NEW o, o \in DOMAIN Sector(m, l)
        PROVE  \/ o \in DOMAIN Sector(d, l) /\ Sector(m, l)[o] = Sector(d, l)[o]
               \/ Sector(m, l)[o] = x
        BY <1>3, <2>2
  <2> QED BY <2>1, <2>2
<1>7. ASSUME NEW l, NEW o \in DOMAIN Sector(d, l), o # off \/ (l # l0 /\ l # l1)
      PROVE  o \in DOMAIN Sector(e, l) /\ Sector(e, l)[o] = Sector(d, l)[o]
  <2>1. o \in DOMAIN Sector(m, l) /\ Sector(m, l)[o] = Sector(d, l)[o]
        BY <1>3, <1>7
  <2> QED BY <1>4, <1>7, <2>1
<1>8. ASSUME NEW k \in {0, 1}, NEW b \in ClusterNos, NEW w, b # c, HasEntry(d, k, b, w)
      PROVE  HasEntry(e, k, b, w)
  <2>1. FatOff(b) # off \/ (FatLba(k, b) # l0 /\ FatLba(k, b) # l1)
        BY <1>8, FatPlacesDiffer DEF l0, l1, off
  <2> QED BY <1>7, <1>8, <2>1 DEF HasEntry
<1>9. \A l : l \notin FatArea => Sector(e, l) = Sector(d, l)
      BY <1>2, <1>3, <1>4
<1>10. Orderly(d) => Orderly(e)
  <2>1. DOMAIN x = {"fat"}
        BY DEF x
  <2>2. DOMAIN d \subseteq Nat => DOMAIN e \subseteq Nat
    <3>1. l0 \in Nat /\ l1 \in Nat
          BY FatPlaces DEF l0, l1
    <3> QED BY <1>p, <1>q, <3>1 DEF IsPut
  <2> QED BY <1>6, <2>1, <2>2, Zenon DEF Orderly
<1> QED BY <1>1, <1>5, <1>8, <1>9, <1>10

-----------------------------------------------------------------------------
(* What an operation leaves alone                                          *)

SectorsOf(c) == MkClusterToLba(c) .. MkClusterToLba(c) + SEC_PER_CLUS - 1
DataNos == {c \in ClusterNos : c >= 2}

\* Between d and e only the clusters in T and the FAT entries in C were written.
Touches(d, e, T, C) ==
    /\ \A l : l \notin FatArea /\ (\A c \in T : l \notin SectorsOf(c))
                 => Sector(e, l) = Sector(d, l)
    /\ \A k \in {0, 1}, c \in ClusterNos : \A v :
          c \notin C /\ HasEntry(d, k, c, v) => HasEntry(e, k, c, v)
    /\ Orderly(d) => Orderly(e)

\* The numbers of the clusters with data.
LEMMA DataNumbers ==
    /\ DataClusters \in Nat
    /\ \A c : c \in DataNos <=> c \in Nat /\ c >= 2 /\ c <= DataClusters + 1
    /\ DataNos \subseteq ClusterNos
<1>1. DataClusters \in Nat
      BY Geography
<1> QED BY ONLY <1>1, SMT DEF DataNos, ClusterNos

\* Two steps touch what each of them touches.
LEMMA TouchesBoth ==
    ASSUME NEW d, NEW e, NEW f, NEW S, NEW T, NEW B, NEW C,
           Touches(d, e, S, B), Touches(e, f, T, C)
    PROVE  Touches(d, f, S \cup T, B \cup C)
<1>1. ASSUME NEW l, l \notin FatArea, \A c \in S \cup T : l \notin SectorsOf(c)
      PROVE  Sector(f, l) = Sector(d, l)
  <2>1. Sector(e, l) = Sector(d, l)
        BY <1>1, Zenon DEF Touches
  <2>2. Sector(f, l) = Sector(e, l)
        BY <1>1, Zenon DEF Touches
  <2> QED BY <2>1, <2>2
<1>2. ASSUME NEW k \in {0, 1}, NEW c \in ClusterNos, NEW v, c \notin B \cup C,
             HasEntry(d, k, c, v)
      PROVE  HasEntry(f, k, c, v)
  <2>1. HasEntry(e, k, c, v)
        BY <1>2, Zenon DEF Touches
  <2> QED BY <1>2, <2>1, Zenon DEF Touches
<1>3. Orderly(d) => Orderly(f)
      BY Zenon DEF Touches
<1> QED BY <1>1, <1>2, <1>3, Zenon DEF Touches

\* Clusters have sectors of their own, behind the FATs.
LEMMA ClusterPlaces ==
    ASSUME NEW c \in DataNos
    PROVE  /\ c \in Nat /\ MkClusterToLba(c) = g_data_start + (c - 2) * 4
           /\ MkClusterToLba(c) \in Nat
           /\ SectorsOf(c) = MkClusterToLba(c) .. MkClusterToLba(c) + 3
           /\ \A l \in SectorsOf(c) : l \in Nat /\ l \notin FatArea /\ l >= g_data_start
           /\ \A b \in DataNos : b # c => SectorsOf(b) \cap SectorsOf(c) = {}
<1>1. PICK g \in Nat, ds \in Nat :
         g = g_data_start /\ ds = DataClusters /\ SEC_PER_CLUS = 4 /\ g_fat_start \in Nat
      BY Geography
<1>2. \A b \in DataNos : /\ b \in Nat /\ b >= 2 /\ MkClusterToLba(b) = g + (b - 2) * 4
                         /\ SectorsOf(b) = MkClusterToLba(b) .. MkClusterToLba(b) + 3
      BY <1>1 DEF DataNos, ClusterNos, MkClusterToLba, SectorsOf
<1>3. MkClusterToLba(c) \in Nat /\ MkClusterToLba(c) >= g
      BY <1>2
<1>4. \A l \in SectorsOf(c) : l \in Nat /\ l >= g
      BY <1>2, <1>3
<1>5. \A l \in FatArea : l < g
      BY <1>1 DEF FatArea
<1>6. ASSUME NEW b \in DataNos, b # c, NEW l \in SectorsOf(b), l \in SectorsOf(c)
      PROVE  FALSE
  <2>1. /\ l \in Int /\ g + (b - 2) * 4 <= l /\ l <= g + (b - 2) * 4 + 3
        /\ g + (c - 2) * 4 <= l /\ l <= g + (c - 2) * 4 + 3
        /\ b \in Nat /\ c \in Nat
        BY <1>2, <1>6
  <2> QED BY <1>6, <2>1
<1> QED BY <1>1, <1>2, <1>3, <1>4, <1>5, <1>6

\* fat32_set_fat_entry() touches one entry.
LEMMA SetTouches ==
    ASSUME NEW d, NEW c \in ClusterNos, NEW v \in Nat, v <= EndOfChain
    PROVE  /\ Touches(d, SetFatEntry(d, c, v), {}, {c})
           /\ \A k \in {0, 1} : HasEntry(SetFatEntry(d, c, v), k, c, v)
BY FatEntrySet DEF Touches

\* allocate_cluster() touches the cluster and its entry.
LEMMA AllocationTouches ==
    ASSUME NEW d, NEW c \in DataNos
    PROVE  /\ Touches(d, Allocated(d, c), {c}, {c})
           /\ \A k \in {0, 1} : HasEntry(Allocated(d, c), k, c, EndOfChain)
           /\ \A l \in SectorsOf(c) : Sector(Allocated(d, c), l) = <<>>
<1> DEFINE m == SetFatEntry(d, c, EndOfChain)  e == Allocated(d, c)
<1>1. /\ Touches(d, m, {}, {c})
      /\ \A k \in {0, 1} : HasEntry(m, k, c, EndOfChain)
  <2>1. EndOfChain \in Nat /\ EndOfChain <= EndOfChain /\ c \in ClusterNos
        BY SMT DEF EndOfChain, DataNos
  <2> QED BY <2>1, SetTouches
<1>2. \A l : Sector(e, l) = IF l \in SectorsOf(c) THEN <<>> ELSE Sector(m, l)
      BY SectorAllocated DEF SectorsOf
<1> HIDE DEF m, e
<1>3. \A l \in FatArea : Sector(e, l) = Sector(m, l)
      BY <1>2, ClusterPlaces
<1>4. \A k \in {0, 1}, b \in ClusterNos : \A v : HasEntry(m, k, b, v) => HasEntry(e, k, b, v)
  <2>1. \A k \in {0, 1}, b \in ClusterNos : Sector(e, FatLba(k, b)) = Sector(m, FatLba(k, b))
        BY <1>3, FatPlaces
  <2> QED BY <2>1 DEF HasEntry
<1>5. Orderly(m) => Orderly(e)
  <2>1. DOMAIN e \subseteq DOMAIN m
        BY DEF Allocated, e, m
  <2> QED BY <1>3, <2>1 DEF Orderly
<1>6. Touches(m, e, {c}, {})
      BY <1>2, <1>4, <1>5 DEF Touches
<1>7. Touches(d, e, {} \cup {c}, {c} \cup {})
      BY <1>1, <1>6, TouchesBoth
<1>8. \A k \in {0, 1} : HasEntry(e, k, c, EndOfChain)
      BY <1>1, <1>4 DEF DataNos
<1>9. {} \cup {c} = {c} /\ {c} \cup {} = {c}
      OBVIOUS
<1>10. \A l \in SectorsOf(c) : Sector(e, l) = <<>>
      BY <1>2
<1> QED BY <1>7, <1>8, <1>9, <1>10 DEF e

\* What only concerns sectors of one cluster leaves the FATs alone.
LEMMA DataTouches ==
    ASSUME NEW d, NEW e, NEW c \in DataNos, DOMAIN d \subseteq Nat => DOMAIN e \subseteq Nat,
           \A l : l \notin SectorsOf(c) => Sector(e, l) = Sector(d, l)
    PROVE  Touches(d, e, {c}, {})
<1>1. \A l \in FatArea : Sector(e, l) = Sector(d, l)
      BY ClusterPlaces
<1>2. \A k \in {0, 1}, b \in ClusterNos : \A v : HasEntry(d, k, b, v) => HasEntry(e, k, b, v)
  <2>1. \A k \in {0, 1}, b \in ClusterNos : Sector(e, FatLba(k, b)) = Sector(d, FatLba(k, b))
        BY <1>1, FatPlaces
  <2> QED BY <2>1 DEF HasEntry
<1>3. Orderly(d) => Orderly(e)
      BY <1>1 DEF Orderly
<1> QED BY <1>2, <1>3 DEF Touches

\* memcpy() into a cluster touches that cluster.
LEMMA CopyTouches ==
    ASSUME NEW d, NEW c \in DataNos, NEW f, NEW from, NEW n \in Nat, n <= 4
    PROVE  Touches(d, CopyFile(d, MkClusterToLba(c), f, from, n), {c}, {})
<1> DEFINE a == MkClusterToLba(c)  e == CopyFile(d, a, f, from, n)
<1>1. a \in Nat /\ SectorsOf(c) = a .. a + 3
      BY ClusterPlaces
<1> HIDE DEF a
<1>2. ASSUME NEW l, l \notin a .. a + n - 1
      PROVE  Sector(e, l) = Sector(d, l)
  <2>1. a \in Nat
        BY <1>1
  <2>2. Sector(e, l) = IF l \in a .. a + n - 1 THEN Only([file |-> f, n |-> from + (l - a)])
                       ELSE Sector(d, l)
        BY ONLY <2>1, SectorCopied
  <2> QED BY <1>2, <2>2
<1>3. \A l \in a .. a + n - 1 : l \in a .. a + 3
      BY <1>1
<1>4. \A l : l \notin SectorsOf(c) => Sector(e, l) = Sector(d, l)
      BY <1>1, <1>2, <1>3
<1>5. DOMAIN d \subseteq Nat => DOMAIN e \subseteq Nat
      BY <1>1 DEF CopyFile
<1> QED BY <1>4, <1>5, DataTouches DEF a

-----------------------------------------------------------------------------
(* Directories                                                             *)

SlotLba(c, k) == MkClusterToLba(c) + k \div EntriesPerSector
SlotOff(k) == (k % EntriesPerSector) * DIR_ENTRY_SIZE

\* The cluster holds the first n of the entries es, and nothing else.
DirHolds(d, c, es, n) ==
    /\ \A k \in 0 .. n - 1 : /\ SlotOff(k) \in DOMAIN Sector(d, SlotLba(c, k))
                             /\ Sector(d, SlotLba(c, k))[SlotOff(k)] = es[k + 1]
    /\ \A l \in SectorsOf(c) : \A o \in DOMAIN Sector(d, l) :
          \E k \in 0 .. n - 1 : l = SlotLba(c, k) /\ o = SlotOff(k)

\* A sector has room for an entry.
LEMMA EntriesFit == EntriesPerSector \in Nat \ {0} /\ DIR_ENTRY_SIZE \in Nat \ {0}
<1>1. PICK x \in Nat, y \in Nat \ {0} : x = SECTOR_SIZE /\ y = DIR_ENTRY_SIZE /\ y <= x
      BY SectorSizes, DirEntrySizeAssumption
<1>2. PICK q \in Nat, r \in Nat : x \div y = q /\ q * y + r = x /\ r < y
      BY Division, Zenon
<1>3. q # 0
      BY <1>1, <1>2
<1> QED BY <1>1, <1>2, <1>3 DEF EntriesPerSector

\* The first slots of a directory are in its cluster.
LEMMA SlotPlace ==
    ASSUME NEW c \in DataNos, NEW k \in Nat, k < 4 * EntriesPerSector
    PROVE  SlotLba(c, k) \in SectorsOf(c) /\ SlotOff(k) \in Nat
<1>1. PICK n \in Nat \ {0}, b \in Nat \ {0} : n = EntriesPerSector /\ b = DIR_ENTRY_SIZE
      BY EntriesFit
<1>2. PICK q \in Nat, r \in Nat : k \div n = q /\ k % n = r /\ q * n + r = k
      BY Division, Zenon
<1>3. q < 4
  <2> SUFFICES ASSUME q >= 4 PROVE FALSE
      OBVIOUS
  <2>1. q * n >= 4 * n
        OBVIOUS
  <2> QED BY <1>1, <1>2, <2>1
<1>4. r * b \in Nat
      OBVIOUS
<1> QED BY <1>1, <1>2, <1>3, <1>4, ClusterPlaces DEF SlotLba, SlotOff

\* No two slots share a place.
LEMMA SlotsDiffer ==
    ASSUME NEW c \in DataNos, NEW j \in Nat, NEW k \in Nat,
           SlotLba(c, j) = SlotLba(c, k), SlotOff(j) = SlotOff(k)
    PROVE  j = k
<1>1. PICK n \in Nat \ {0}, b \in Nat \ {0} : n = EntriesPerSector /\ b = DIR_ENTRY_SIZE
      BY EntriesFit
<1>2. PICK q \in Nat, r \in Nat : k \div n = q /\ k % n = r /\ q * n + r = k
      BY Division, Zenon
<1>3. PICK p \in Nat, sec \in Nat : j \div n = p /\ j % n = sec /\ p * n + sec = j
      BY Division, Zenon
<1>4. p = q
      BY <1>1, <1>2, <1>3, ClusterPlaces DEF SlotLba
<1>5. r * b = sec * b
      BY <1>1, <1>2, <1>3 DEF SlotOff
<1>6. r = sec
      BY <1>5
<1> QED BY <1>2, <1>3, <1>4, <1>6

\* add_dir_entry puts the entry behind those that are there.
LEMMA EntryPut ==
    ASSUME NEW d, NEW c \in DataNos, NEW es, NEW n \in 0 .. 3, DirHolds(d, c, es, n), NEW x
    PROVE  IsPut(WithEntry(d, c, x), d, SlotLba(c, n), SlotOff(n), x)
<1> DEFINE free == {k \in 0 .. SEC_PER_CLUS * EntriesPerSector - 1 :
                       SlotOff(k) \notin DOMAIN Sector(d, SlotLba(c, k))}
<1>1. WithEntry(d, c, x) = IF free = {} THEN d ELSE Put(d, SlotLba(c, Min(free)), SlotOff(Min(free)), x)
      BY Zenon DEF WithEntry, SlotLba, SlotOff
<1>2. PICK m \in Nat \ {0} : m = EntriesPerSector /\ SEC_PER_CLUS * m = 4 * m
      BY EntriesFit, Geography
<1>3. n \in free
  <2>1. n \in 0 .. SEC_PER_CLUS * EntriesPerSector - 1 /\ n \in Nat /\ n < 4 * EntriesPerSector
        BY <1>2
  <2>2. SlotOff(n) \notin DOMAIN Sector(d, SlotLba(c, n))
    <3> SUFFICES ASSUME SlotOff(n) \in DOMAIN Sector(d, SlotLba(c, n)) PROVE FALSE
        OBVIOUS
    <3>1. PICK k \in 0 .. n - 1 : SlotLba(c, n) = SlotLba(c, k) /\ SlotOff(n) = SlotOff(k)
          BY <2>1, SlotPlace DEF DirHolds
    <3>2. k \in Nat /\ k # n
          OBVIOUS
    <3> QED BY <2>1, <3>1, <3>2, SlotsDiffer
  <2> QED BY <2>1, <2>2
<1>4. \A k \in free : n <= k /\ k \in Nat
  <2> SUFFICES ASSUME NEW k \in free PROVE n <= k /\ k \in Nat
      OBVIOUS
  <2>1. k \in Nat /\ SlotOff(k) \notin DOMAIN Sector(d, SlotLba(c, k))
        BY <1>2
  <2>2. k \notin 0 .. n - 1
        BY <2>1 DEF DirHolds
  <2> QED BY <2>1, <2>2
<1> HIDE DEF free
<1>5. Min(free) = n
  <2>1. \A k \in free : (\A y \in free : k <= y) => k = n
        BY <1>3, <1>4
  <2>2. \E k \in free : \A y \in free : k <= y
        BY <1>3, <1>4
  <2> QED BY <2>1, <2>2, Zenon DEF Min
<1>6. free # {}
      BY <1>3
<1> QED BY <1>1, <1>5, <1>6, SectorPut

\* A directory of up to three entries has one more behind add_dir_entry().
LEMMA EntryAdded ==
    ASSUME NEW d, NEW c \in DataNos, NEW es, NEW n \in 0 .. 3, DirHolds(d, c, es, n)
    PROVE  /\ DirHolds(WithEntry(d, c, es[n + 1]), c, es, n + 1)
           /\ Touches(d, WithEntry(d, c, es[n + 1]), {c}, {})
<1> DEFINE x == es[n + 1]  e == WithEntry(d, c, x)  lba == SlotLba(c, n)  off == SlotOff(n)
<1>1. IsPut(e, d, lba, off, x)
      BY EntryPut
<1>2. lba \in SectorsOf(c)
  <2>1. n \in Nat /\ n < 4 * EntriesPerSector
        BY EntriesFit
  <2> QED BY <2>1, SlotPlace
<1> HIDE DEF e, lba, off
<1>3. /\ DOMAIN Sector(e, lba) = DOMAIN Sector(d, lba) \cup {off}
      /\ Sector(e, lba)[off] = x
      /\ \A o \in DOMAIN Sector(d, lba) : o # off => Sector(e, lba)[o] = Sector(d, lba)[o]
      /\ \A l : l # lba => Sector(e, l) = Sector(d, l)
      /\ DOMAIN e = DOMAIN d \cup {lba}
      BY <1>1 DEF IsPut
<1>4. Touches(d, e, {c}, {})
  <2>1. lba \in Nat
        BY <1>2, ClusterPlaces
  <2> QED BY <1>2, <1>3, <2>1, DataTouches
<1>5. ASSUME NEW k \in 0 .. n
      PROVE  /\ SlotOff(k) \in DOMAIN Sector(e, SlotLba(c, k))
             /\ Sector(e, SlotLba(c, k))[SlotOff(k)] = es[k + 1]
  <2>1. CASE k = n
        BY <1>3, <2>1 DEF lba, off
  <2>2. CASE k # n
    <3>1. k \in 0 .. n - 1 /\ k \in Nat /\ n \in Nat
          BY <2>2
    <3>2. SlotLba(c, k) # lba \/ SlotOff(k) # off
          BY <2>2, <3>1, SlotsDiffer DEF lba, off
    <3>3. /\ SlotOff(k) \in DOMAIN Sector(d, SlotLba(c, k))
          /\ Sector(d, SlotLba(c, k))[SlotOff(k)] = es[k + 1]
          BY <3>1 DEF DirHolds
    <3> QED BY <1>3, <3>2, <3>3
  <2> QED BY <2>1, <2>2
<1>6. ASSUME NEW l \in SectorsOf(c), NEW o \in DOMAIN Sector(e, l)
      PROVE  \E k \in 0 .. n : l = SlotLba(c, k) /\ o = SlotOff(k)
  <2>1. o \in DOMAIN Sector(d, l) \/ (l = lba /\ o = off)
        BY <1>3, <1>6
  <2>2. CASE o \in DOMAIN Sector(d, l)
        BY <2>2 DEF DirHolds
  <2>3. CASE l = lba /\ o = off
        BY <2>3 DEF lba, off
  <2> QED BY <2>1, <2>2, <2>3
<1>7. (n + 1) - 1 = n
      OBVIOUS
<1>8. DirHolds(e, c, es, n + 1)
      BY <1>5, <1>6, <1>7 DEF DirHolds
<1> QED BY <1>4, <1>8 DEF e

\* What is not touched is kept.
LEMMA LowKept ==
    ASSUME NEW d, NEW e, NEW T \in SUBSET DataNos, NEW C, Touches(d, e, T, C),
           NEW l \in Nat, l < g_fat_start
    PROVE  Sector(e, l) = Sector(d, l)
<1>1. \A c \in T : l \notin SectorsOf(c)
  <2>1. g_fat_start \in Nat /\ g_data_start \in Nat /\ g_fat_start <= g_data_start
        BY FatExtent, Geography
  <2> QED BY <2>1, ClusterPlaces
<1>2. l \notin FatArea
      BY FatExtent, Geography DEF FatArea
<1> QED BY <1>1, <1>2 DEF Touches

\* A cluster that is not touched keeps its sectors,
LEMMA DataKept ==
    ASSUME NEW d, NEW e, NEW T \in SUBSET DataNos, NEW C, Touches(d, e, T, C),
           NEW c \in DataNos \ T, NEW l \in SectorsOf(c)
    PROVE  Sector(e, l) = Sector(d, l)
<1>1. \A b \in T : l \notin SectorsOf(b)
      BY ClusterPlaces
<1> QED BY <1>1, ClusterPlaces DEF Touches

\* a directory its entries,
LEMMA DirKept ==
    ASSUME NEW d, NEW e, NEW T \in SUBSET DataNos, NEW C, Touches(d, e, T, C),
           NEW c \in DataNos \ T, NEW es, NEW n \in 0 .. 4, DirHolds(d, c, es, n)
    PROVE  DirHolds(e, c, es, n)
<1>1. \A l \in SectorsOf(c) : Sector(e, l) = Sector(d, l)
      BY DataKept
<1>2. \A k \in 0 .. n - 1 : SlotLba(c, k) \in SectorsOf(c)
  <2>1. \A k \in 0 .. n - 1 : k \in Nat /\ k < 4 * EntriesPerSector
        BY EntriesFit
  <2> QED BY <2>1, SlotPlace
<1> QED BY <1>1, <1>2 DEF DirHolds

-----------------------------------------------------------------------------
(* Files                                                                   *)

\* The first n clusters of file f, whose first cluster is a and which has secs
\* sectors, are chained in both FATs and hold what they should.
FileHolds(d, f, a, n, secs) ==
    /\ \A j \in 0 .. n - 1, k \in {0, 1} :
          HasEntry(d, k, a + j, IF j = n - 1 THEN EndOfChain ELSE a + j + 1)
    /\ \A t \in 0 .. secs - 1 :
          t < 4 * n => Sector(d, MkClusterToLba(a) + t) = Only([file |-> f, n |-> t])

\* Sector t of a file is in its cluster of number t \div 4.
LEMMA FileSector ==
    ASSUME NEW a \in DataNos, NEW n \in Nat, a + n <= DataClusters + 2, NEW t \in Nat, t < 4 * n
    PROVE  \E j \in 0 .. n - 1 : a + j \in DataNos /\ MkClusterToLba(a) + t \in SectorsOf(a + j)
<1>1. PICK j \in Nat, r \in Nat : t = 4 * j + r /\ r < 4 /\ j < n
  <2>1. 4 \in Nat \ {0}
        OBVIOUS
  <2>2. PICK j \in Nat, r \in Nat : t \div 4 = j /\ t % 4 = r /\ j * 4 + r = t /\ r < 4
        BY <2>1, Division, Zenon
  <2>3. t = 4 * j + r /\ j < n
        BY ONLY <2>2, t < 4 * n, t \in Nat, n \in Nat
  <2> QED BY <2>2, <2>3
<1>2. /\ a \in Nat /\ DataClusters \in Nat /\ g_data_start \in Nat
      /\ \A c : c \in DataNos <=> c \in Nat /\ c >= 2 /\ c <= DataClusters + 1
      BY DataNumbers, Geography
<1>3. a + j \in DataNos /\ j \in 0 .. n - 1
      BY <1>1, <1>2
<1>4. /\ MkClusterToLba(a) = g_data_start + (a - 2) * 4
      /\ MkClusterToLba(a + j) = g_data_start + ((a + j) - 2) * 4
      /\ SectorsOf(a + j) = MkClusterToLba(a + j) .. MkClusterToLba(a + j) + 3
      BY <1>3, ClusterPlaces
<1>5. MkClusterToLba(a) + t \in SectorsOf(a + j)
      BY <1>1, <1>2, <1>4
<1> QED BY <1>3, <1>5

\* and a file its contents and its chain.
LEMMA FileKept ==
    ASSUME NEW d, NEW e, NEW T \in SUBSET DataNos, NEW C, Touches(d, e, T, C),
           NEW f, NEW a \in DataNos, NEW n \in Nat, a + n <= DataClusters + 2, NEW secs \in Nat,
           \A j \in 0 .. n - 1 : a + j \notin T \cup C,
           FileHolds(d, f, a, n, secs)
    PROVE  FileHolds(e, f, a, n, secs)
<1>1. ASSUME NEW j \in 0 .. n - 1, NEW k \in {0, 1}, NEW v, HasEntry(d, k, a + j, v)
      PROVE  HasEntry(e, k, a + j, v)
  <2>1. a + j \in ClusterNos
        BY DataNumbers DEF ClusterNos
  <2> QED BY <1>1, <2>1 DEF Touches
<1>2. ASSUME NEW t \in 0 .. secs - 1, t < 4 * n
      PROVE  Sector(e, MkClusterToLba(a) + t) = Sector(d, MkClusterToLba(a) + t)
  <2>1. PICK j \in 0 .. n - 1 : a + j \in DataNos /\ MkClusterToLba(a) + t \in SectorsOf(a + j)
        BY <1>2, FileSector
  <2> QED BY <2>1, DataKept
<1> QED BY <1>1, <1>2 DEF FileHolds

\* Both loops of write_file_data run to the end of the file.
LEMMA ClusterCount ==
    ASSUME NEW x \in Nat
    PROVE  /\ Clusters(x) \in Nat /\ Clusters(x) >= 1 /\ CeilDiv(x, SECTOR_SIZE) \in Nat
           /\ CeilDiv(x, SECTOR_SIZE) <= 4 * Clusters(x)
           /\ \A n \in Nat : n < Clusters(x) => 4 * n <= CeilDiv(x, SECTOR_SIZE)
           /\ x > 0 => 4 * (Clusters(x) - 1) < CeilDiv(x, SECTOR_SIZE)
           /\ x = 0 => CeilDiv(x, SECTOR_SIZE) = 0 /\ Clusters(x) = 1
<1>1. PICK ss \in Nat \ {0} : ss = SECTOR_SIZE
      BY SectorSizes
<1>2. PICK q \in Nat, r \in Nat : (x + ss - 1) \div ss = q /\ q * ss + r = x + ss - 1 /\ r < ss
  <2>1. x + ss - 1 \in Nat
        OBVIOUS
  <2> QED BY <2>1, Division, Zenon
<1>3. CeilDiv(x, SECTOR_SIZE) = q
      BY <1>1, <1>2 DEF CeilDiv
<1>4. CASE x = 0
  <2>1. q = 0
    <3> SUFFICES ASSUME q >= 1 PROVE FALSE
        OBVIOUS
    <3>1. q * ss >= ss
          OBVIOUS
    <3> QED BY <1>2, <1>4, <3>1
  <2>2. Clusters(x) = 1
        BY <1>4 DEF Clusters
  <2> QED BY <1>3, <1>4, <2>1, <2>2
<1>5. CASE x # 0
  <2>1. PICK cs \in Nat \ {0} : cs = SEC_PER_CLUS * SECTOR_SIZE /\ cs = 4 * ss
        BY <1>1, Geography
  <2>2. PICK p \in Nat, sec \in Nat : (x + cs - 1) \div cs = p /\ p * cs + sec = x + cs - 1 /\ sec < cs
    <3>1. x + cs - 1 \in Nat
          OBVIOUS
    <3> QED BY <3>1, Division, Zenon
  <2>3. Clusters(x) = p
        BY <1>5, <2>1, <2>2 DEF Clusters, CeilDiv
  <2>4. PICK ps \in Nat, qs \in Nat : ps = p * ss /\ qs = q * ss /\ p * cs = 4 * ps
        BY <2>1
  <2>5. 4 * ps + sec = x + 4 * ss - 1 /\ qs + r = x + ss - 1 /\ sec < 4 * ss /\ r < ss
        BY <1>2, <2>1, <2>2, <2>4
  <2>6. p >= 1
    <3> SUFFICES ASSUME p = 0 PROVE FALSE
        OBVIOUS
    <3>1. ps = 0
          BY <2>4
    <3> QED BY <1>5, <2>5, <3>1
  <2>7. q <= 4 * p
    <3> SUFFICES ASSUME q >= 4 * p + 1 PROVE FALSE
        OBVIOUS
    <3>1. q * ss >= (4 * p + 1) * ss /\ (4 * p + 1) * ss = 4 * (p * ss) + ss
          OBVIOUS
    <3>2. qs >= 4 * ps + ss
          BY <2>4, <3>1
    <3> QED BY <2>5, <3>2
  <2>8. 4 * (p - 1) < q
    <3> SUFFICES ASSUME q <= 4 * (p - 1) PROVE FALSE
        BY <2>6
    <3>1. q * ss <= (4 * (p - 1)) * ss
          BY <2>6
    <3>2. (4 * (p - 1)) * ss = 4 * (p * ss) - 4 * ss
          BY <2>6
    <3>3. qs <= 4 * ps - 4 * ss
          BY <2>4, <3>1, <3>2
    <3> QED BY <1>5, <2>5, <3>3
  <2>9. \A n \in Nat : n < p => 4 * n <= q
        BY <2>8
  <2> QED BY <1>3, <1>5, <2>3, <2>6, <2>7, <2>8, <2>9
<1> QED BY <1>4, <1>5

\* write_file_data: one more cluster of a file.
LinkedTo(d, c, n) == IF n = 0 THEN d ELSE SetFatEntry(d, c - 1, c)
Linked(c, n) == IF n = 0 THEN {c} ELSE {c, c - 1}

\* The next cluster of a file is allocated and linked to the one before.
LEMMA ClusterLinked ==
    ASSUME NEW d, NEW a \in DataNos, NEW n \in Nat, a + n \in DataNos
    PROVE  LET c == a + n  e == LinkedTo(Allocated(d, c), c, n)
           IN  /\ Touches(d, e, {c}, Linked(c, n))
               /\ \A k \in {0, 1} : HasEntry(e, k, c, EndOfChain)
               /\ \A k \in {0, 1} : n > 0 => HasEntry(e, k, c - 1, c)
<1> DEFINE c == a + n  m == Allocated(d, c)  e == LinkedTo(m, c, n)
<1>1. c \in DataNos /\ c \in ClusterNos /\ c \in Nat
      BY DataNumbers
<1>2. Touches(d, m, {c}, {c}) /\ \A k \in {0, 1} : HasEntry(m, k, c, EndOfChain)
      BY <1>1, AllocationTouches
<1> HIDE DEF m
<1>3. CASE n = 0
      BY <1>2, <1>3 DEF LinkedTo, Linked, m
<1>4. CASE n > 0
  <2>1. c - 1 \in ClusterNos /\ c # c - 1
        BY <1>1, <1>4, DataNumbers DEF ClusterNos
  <2>2. c <= EndOfChain
    <3>1. PICK dc \in Nat : dc = DataClusters /\ dc <= 130042
          BY Geography
    <3>2. c <= dc + 1
          BY <1>1, <3>1, DataNumbers
    <3> QED BY ONLY <1>1, <3>1, <3>2, SMT DEF EndOfChain
  <2>3. e = SetFatEntry(m, c - 1, c)
        BY <1>4 DEF LinkedTo
  <2> HIDE DEF c
  <2>4. /\ Touches(m, e, {}, {c - 1})
        /\ \A k \in {0, 1} : HasEntry(e, k, c - 1, c)
        BY <1>1, <2>1, <2>2, <2>3, SetTouches
  <2> HIDE DEF e
  <2>5. Touches(d, e, {c} \cup {}, {c} \cup {c - 1})
        BY <1>2, <2>4, TouchesBoth
  <2>6. \A k \in {0, 1} : HasEntry(e, k, c, EndOfChain)
        BY <1>1, <1>2, <2>1, <2>4 DEF Touches
  <2>7. {c} \cup {} = {c} /\ {c} \cup {c - 1} = Linked(c, n)
        BY <1>4 DEF Linked
  <2>8. Touches(d, e, {c}, Linked(c, n))
        BY <2>5, <2>7
  <2> QED BY <2>4, <2>6, <2>8 DEF e, m, c
<1> QED BY <1>3, <1>4

\* ... and filled: the file has one more cluster.
LEMMA ClusterStored ==
    ASSUME NEW d, NEW a \in DataNos, NEW n \in Nat, a + n \in DataNos, NEW f,
           NEW secs \in Nat, 4 * n <= secs, FileHolds(d, f, a, n, secs)
    PROVE  LET c == a + n
               m == IF secs - 4 * n < 4 THEN secs - 4 * n ELSE 4
               e == CopyFile(LinkedTo(Allocated(d, c), c, n), MkClusterToLba(c), f, 4 * n, m)
           IN  FileHolds(e, f, a, n + 1, secs) /\ Touches(d, e, {c}, Linked(c, n))
<1> DEFINE c == a + n  m == IF secs - 4 * n < 4 THEN secs - 4 * n ELSE 4
           b == LinkedTo(Allocated(d, c), c, n)
           lba == MkClusterToLba(c)
           e == CopyFile(b, lba, f, 4 * n, m)
<1>1. c \in DataNos /\ c \in ClusterNos /\ c \in Nat /\ a \in Nat
      BY DataNumbers
<1>2. m \in Nat /\ m <= 4
      OBVIOUS
<1>3. /\ Touches(d, b, {c}, Linked(c, n))
      /\ \A k \in {0, 1} : HasEntry(b, k, c, EndOfChain)
      /\ \A k \in {0, 1} : n > 0 => HasEntry(b, k, c - 1, c)
      BY ClusterLinked
<1>4. Touches(b, e, {c}, {})
      BY <1>1, <1>2, CopyTouches
<1>5. lba \in Nat /\ \A t \in Nat : MkClusterToLba(a) + t = lba + (t - 4 * n)
      BY <1>1, ClusterPlaces, Geography
<1>6. \A t \in 0 .. secs - 1 : t >= 4 * n /\ t < 4 * (n + 1) =>
         Sector(e, MkClusterToLba(a) + t) = Only([file |-> f, n |-> t])
  <2> SUFFICES ASSUME NEW t \in 0 .. secs - 1, t >= 4 * n, t < 4 * (n + 1)
               PROVE  Sector(e, MkClusterToLba(a) + t) = Only([file |-> f, n |-> t])
      OBVIOUS
  <2> DEFINE l == lba + (t - 4 * n)
  <2>1. l \in lba .. lba + m - 1 /\ l = MkClusterToLba(a) + t /\ 4 * n + (l - lba) = t
        BY <1>2, <1>5
  <2> HIDE DEF l, lba, m, b
  <2>2. Sector(e, l) = IF l \in lba .. lba + m - 1 THEN Only([file |-> f, n |-> 4 * n + (l - lba)])
                       ELSE Sector(b, l)
        BY ONLY <1>2, <1>5, SectorCopied
  <2> QED BY <2>1, <2>2
<1> HIDE DEF m, b, lba, e
<1>7. Touches(d, e, {c}, Linked(c, n))
  <2>1. Touches(d, e, {c} \cup {c}, Linked(c, n) \cup {})
        BY <1>3, <1>4, TouchesBoth
  <2>2. {c} \cup {c} = {c} /\ Linked(c, n) \cup {} = Linked(c, n)
        OBVIOUS
  <2> QED BY <2>1, <2>2
<1>8. \A k \in {0, 1} : HasEntry(e, k, c, EndOfChain) /\ (n > 0 => HasEntry(e, k, c - 1, c))
  <2>1. n > 0 => c - 1 \in ClusterNos
        BY <1>1, DataNumbers DEF ClusterNos
  <2> QED BY <1>1, <1>3, <1>4, <2>1 DEF Touches
<1>9. ASSUME NEW j \in 0 .. (n + 1) - 1, NEW k \in {0, 1}
      PROVE  HasEntry(e, k, a + j, IF j = (n + 1) - 1 THEN EndOfChain ELSE a + j + 1)
  <2>1. CASE j = n
        BY <1>8, <2>1
  <2>2. CASE j = n - 1
    <3>1. n > 0 /\ a + j = c - 1 /\ a + j + 1 = c /\ j # (n + 1) - 1
          BY <1>1, <2>2
    <3> QED BY <1>8, <3>1
  <2>3. CASE j # n /\ j # n - 1
    <3>1. j \in 0 .. n - 1 /\ j # (n + 1) - 1
          BY <2>3
    <3>2. HasEntry(d, k, a + j, a + j + 1)
          BY <2>3, <3>1 DEF FileHolds
    <3>3. a + j \in ClusterNos /\ a + j \notin Linked(c, n)
      <4>1. a + j \in ClusterNos
            BY <1>1, <3>1, DataNumbers DEF ClusterNos
      <4>2. a + j # c /\ a + j # c - 1
            BY <1>1, <2>3, <3>1
      <4> QED BY <4>1, <4>2 DEF Linked
    <3> QED BY <1>7, <3>1, <3>2, <3>3 DEF Touches
  <2> QED BY <2>1, <2>2, <2>3
<1>10. ASSUME NEW t \in 0 .. secs - 1, t < 4 * (n + 1)
       PROVE  Sector(e, MkClusterToLba(a) + t) = Only([file |-> f, n |-> t])
  <2>1. CASE t >= 4 * n
        BY <1>6, <1>10, <2>1
  <2>2. CASE t < 4 * n
    <3>1. PICK j \in 0 .. n - 1 : a + j \in DataNos /\ MkClusterToLba(a) + t \in SectorsOf(a + j)
      <4>1. a + n <= DataClusters + 2 /\ t \in Nat
            BY <1>1, DataNumbers
      <4> QED BY <2>2, <4>1, FileSector
    <3>2. a + j \in DataNos \ {c} /\ {c} \in SUBSET DataNos
          BY <1>1, <3>1
    <3> DEFINE T == {c}  C == Linked(c, n)  b1 == a + j
    <3>3. Sector(e, MkClusterToLba(a) + t) = Sector(d, MkClusterToLba(a) + t)
      <4>1. T \in SUBSET DataNos /\ b1 \in DataNos \ T /\ Touches(d, e, T, C)
            BY <1>7, <3>2
      <4>2. MkClusterToLba(a) + t \in SectorsOf(b1)
            BY <3>1
      <4> HIDE DEF T, C, b1
      <4> QED BY <4>1, <4>2, DataKept
    <3> QED BY <2>2, <3>3 DEF FileHolds
  <2> QED BY <2>1, <2>2
<1>11. FileHolds(e, f, a, n + 1, secs)
      BY <1>9, <1>10, Zenon DEF FileHolds
<1> QED BY <1>7, <1>11 DEF e, m, b, lba

-----------------------------------------------------------------------------
(* What main() does when                                                   *)

FileSteps == {6, 7, 10, 11}
DirSteps == {8, 9}
Directories == {"/", "EFI", "BOOT"}

\* What main() does in which step,
LEMMA ScriptSteps ==
    /\ Len(Script) = 12 /\ DOMAIN Script = 1 .. 12
    /\ \A i \in 1 .. 12 :
          /\ Script[i].op = "read" <=> i = 1
          /\ Script[i].op = "mbr" <=> i = 2
          /\ Script[i].op = "format" <=> i = 3
          /\ Script[i].op = "iosys" <=> i = 4
          /\ Script[i].op = "fat" <=> i = 5
          /\ Script[i].op = "file" <=> i \in FileSteps
          /\ Script[i].op = "dir" <=> i \in DirSteps
          /\ Script[i].op = "write" <=> i = 12
<1>1. /\ Script[1].op = "read" /\ Script[2].op = "mbr" /\ Script[3].op = "format"
      /\ Script[4].op = "iosys" /\ Script[5].op = "fat" /\ Script[6].op = "file"
      /\ Script[7].op = "file" /\ Script[8].op = "dir" /\ Script[9].op = "dir"
      /\ Script[10].op = "file" /\ Script[11].op = "file" /\ Script[12].op = "write"
      BY DEF Script, Step
<1>2. Len(Script) = 12 /\ DOMAIN Script = 1 .. 12
      BY DEF Script
<1>3. \A i \in 1 .. 12 : i \in {1, 2, 3, 4, 5, 6, 7, 8, 9, 10, 11, 12}
      OBVIOUS
<1> QED BY <1>1, <1>2, <1>3 DEF FileSteps, DirSteps

\* and with which file or directory.
LEMMA ScriptNames ==
    /\ Script[6].name = "IO.SYS" /\ Script[7].name = "GEMIOS.ELF"
    /\ Script[8].name = "EFI" /\ Script[9].name = "BOOT"
    /\ Script[10].name = "BOOTIA32.EFI" /\ Script[11].name = "BOOTX64.EFI"
    /\ \A i \in {6, 7, 8} : Script[i].in = "/"
    /\ Script[9].in = "EFI"
    /\ \A i \in {10, 11} : Script[i].in = "BOOT"
BY DEF Script, Step

\* The first cluster of the file or directory that a step makes, and how many
\* it has.
Extent(sz, i) == IF i \in FileSteps THEN Clusters(sz[Script[i].name]) ELSE 1
Begin(sz, i) ==
    IF i <= 6 THEN 3
    ELSE IF i = 7 THEN 3 + Extent(sz, 6)
    ELSE IF i = 8 THEN 3 + Extent(sz, 6) + Extent(sz, 7)
    ELSE IF i = 9 THEN 4 + Extent(sz, 6) + Extent(sz, 7)
    ELSE IF i = 10 THEN 5 + Extent(sz, 6) + Extent(sz, 7)
    ELSE IF i = 11 THEN 5 + Extent(sz, 6) + Extent(sz, 7) + Extent(sz, 10)
    ELSE 5 + Extent(sz, 6) + Extent(sz, 7) + Extent(sz, 10) + Extent(sz, 11)
Own(sz, i) == Begin(sz, i) .. Begin(sz, i) + Extent(sz, i) - 1
Secs(sz, i) == CeilDiv(sz[Script[i].name], SECTOR_SIZE)

\* The sizes of the input files, in bytes and clusters.
LEMMA HostFiles ==
    ASSUME NEW sz \in HostSizes
    PROVE  /\ \A i \in FileSteps : sz[Script[i].name] \in Nat
           /\ sz["IO.SYS"] > 0
           /\ \A i \in FileSteps : Extent(sz, i) \in Nat /\ Extent(sz, i) >= 1
           /\ 3 + Extent(sz, 6) + Extent(sz, 7) + Extent(sz, 10) + Extent(sz, 11) <= DataClusters
<1>1. /\ \A i \in FileSteps : sz[Script[i].name] \in Nat
      /\ sz["IO.SYS"] > 0
      BY MkDiskAssumption, ScriptNames DEF FileSteps
<1>2. \A i \in FileSteps : Extent(sz, i) \in Nat /\ Extent(sz, i) >= 1
      BY <1>1, ClusterCount DEF Extent
<1>3. 3 + Extent(sz, 6) + Extent(sz, 7) + Extent(sz, 10) + Extent(sz, 11) <= DataClusters
      BY MkDiskAssumption, ScriptNames DEF Extent, FileSteps
<1> QED BY <1>1, <1>2, <1>3

\* Each step takes its clusters behind those of the step before.
LEMMA Begins ==
    ASSUME NEW sz \in HostSizes
    PROVE  /\ Begin(sz, 6) = 3
           /\ \A i \in 1 .. 6 : Begin(sz, i) = 3
           /\ \A i \in 6 .. 11 : /\ Extent(sz, i) \in Nat /\ Extent(sz, i) >= 1
                                 /\ Begin(sz, i + 1) = Begin(sz, i) + Extent(sz, i)
           /\ \A i \in 1 .. 12 : Begin(sz, i) \in Nat /\ Begin(sz, i) >= 3
           /\ \A i \in 6 .. 11, j \in 6 .. 12 :
                 i < j => Begin(sz, i) + Extent(sz, i) <= Begin(sz, j)
           /\ Begin(sz, 12) <= DataClusters + 2
           /\ Begin(sz, 9) = Begin(sz, 8) + 1 /\ Begin(sz, 10) = Begin(sz, 9) + 1
<1>1. PICK a \in Nat, b \in Nat, c \in Nat, d \in Nat, m \in Nat :
         /\ a = Extent(sz, 6) /\ b = Extent(sz, 7) /\ c = Extent(sz, 10) /\ d = Extent(sz, 11)
         /\ a >= 1 /\ b >= 1 /\ c >= 1 /\ d >= 1
         /\ m = DataClusters /\ 3 + a + b + c + d <= m
      BY HostFiles, DataNumbers DEF FileSteps
<1>2. Extent(sz, 8) = 1 /\ Extent(sz, 9) = 1
      BY DEF Extent, FileSteps
<1>3. /\ \A i \in 1 .. 6 : Begin(sz, i) = 3
      /\ Begin(sz, 7) = 3 + a /\ Begin(sz, 8) = 3 + a + b
      /\ Begin(sz, 9) = 4 + a + b /\ Begin(sz, 10) = 5 + a + b
      /\ Begin(sz, 11) = 5 + a + b + c /\ Begin(sz, 12) = 5 + a + b + c + d
      BY <1>1 DEF Begin
<1>4. \A i \in 6 .. 11 : i \in {6, 7, 8, 9, 10, 11}
      OBVIOUS
<1>5. \A i \in 6 .. 12 : i \in {6, 7, 8, 9, 10, 11, 12}
      OBVIOUS
<1>6. \A i \in 6 .. 11 : /\ Extent(sz, i) \in Nat /\ Extent(sz, i) >= 1
                         /\ Begin(sz, i + 1) = Begin(sz, i) + Extent(sz, i)
      BY <1>1, <1>2, <1>3, <1>4
<1>7. \A i \in 1 .. 12 : Begin(sz, i) \in Nat /\ Begin(sz, i) >= 3
  <2>1. \A i \in 1 .. 12 : i \in 1 .. 6 \/ i \in {7, 8, 9, 10, 11, 12}
        OBVIOUS
  <2> QED BY <1>1, <1>3, <2>1
<1>8. \A i \in 6 .. 11, j \in 6 .. 12 : i < j => Begin(sz, i) + Extent(sz, i) <= Begin(sz, j)
  <2>1. \A j \in {7, 8, 9, 10, 11, 12} : Begin(sz, 6) + a <= Begin(sz, j)
        BY <1>1, <1>3
  <2>2. \A j \in {8, 9, 10, 11, 12} : Begin(sz, 7) + b <= Begin(sz, j)
        BY <1>1, <1>3
  <2>3. \A j \in {9, 10, 11, 12} : Begin(sz, 8) + 1 <= Begin(sz, j)
        BY <1>1, <1>3
  <2>4. \A j \in {10, 11, 12} : Begin(sz, 9) + 1 <= Begin(sz, j)
        BY <1>1, <1>3
  <2>5. /\ \A j \in {11, 12} : Begin(sz, 10) + c <= Begin(sz, j)
        /\ Begin(sz, 11) + d <= Begin(sz, 12)
        BY <1>1, <1>3
  <2> QED BY <1>1, <1>2, <1>4, <1>5, <2>1, <2>2, <2>3, <2>4, <2>5
<1>9. 5 + a + b + c + d <= m + 2
      BY ONLY <1>1
<1> QED BY <1>1, <1>3, <1>6, <1>7, <1>8, <1>9

\* No cluster is taken twice, and none is the root directory's.
LEMMA Owners ==
    ASSUME NEW sz \in HostSizes
    PROVE  /\ \A i \in 6 .. 11 : /\ Own(sz, i) \subseteq DataNos /\ 2 \notin Own(sz, i)
                                 /\ Begin(sz, i) \in DataNos /\ Begin(sz, i) \in Own(sz, i)
                                 /\ Begin(sz, i) + Extent(sz, i) <= DataClusters + 2
           /\ \A i \in 6 .. 11, j \in 6 .. 11 : i # j => Own(sz, i) \cap Own(sz, j) = {}
           /\ 2 \in DataNos
<1>1. PICK m \in Nat : m = DataClusters
      BY DataNumbers
<1>2. Begin(sz, 12) \in Nat /\ Begin(sz, 12) >= 3 /\ Begin(sz, 12) <= m + 2
      BY <1>1, Begins
<1>3. ASSUME NEW i \in 6 .. 11
      PROVE  /\ Begin(sz, i) \in Nat /\ Extent(sz, i) \in Nat
             /\ Begin(sz, i) >= 3 /\ Extent(sz, i) >= 1
             /\ Begin(sz, i) + Extent(sz, i) <= m + 2
  <2>1. i \in 1 .. 12 /\ i < 12
        OBVIOUS
  <2> QED BY <1>2, <2>1, Begins
<1>4. \A c : c \in DataNos <=> c \in Nat /\ c >= 2 /\ c <= m + 1
      BY <1>1, DataNumbers
<1>5. ASSUME NEW i \in 6 .. 11
      PROVE  /\ Own(sz, i) \subseteq DataNos /\ 2 \notin Own(sz, i)
             /\ Begin(sz, i) \in DataNos /\ Begin(sz, i) \in Own(sz, i)
             /\ Begin(sz, i) + Extent(sz, i) <= DataClusters + 2
      BY <1>1, <1>3, <1>4 DEF Own
<1>6. ASSUME NEW i \in 6 .. 11, NEW j \in 6 .. 11, i < j
      PROVE  Own(sz, i) \cap Own(sz, j) = {}
  <2>1. Begin(sz, i) + Extent(sz, i) <= Begin(sz, j)
        BY <1>6, Begins
  <2> QED BY <1>3, <2>1 DEF Own
<1>7. ASSUME NEW i \in 6 .. 11, NEW j \in 6 .. 11, i # j
      PROVE  Own(sz, i) \cap Own(sz, j) = {}
  <2>1. i < j \/ j < i
        BY <1>7
  <2> QED BY <1>6, <2>1
<1>8. 2 \in DataNos
      BY <1>2, <1>4
<1> QED BY <1>5, <1>7, <1>8

-----------------------------------------------------------------------------
(* The directories                                                         *)

Entry(sz, i) ==
    [name |-> Script[i].name, first |-> Begin(sz, i),
     size |-> IF i \in FileSteps THEN sz[Script[i].name] ELSE 0]
Dot(n, c) == [name |-> n, first |-> c, size |-> 0]

\* The cluster of a directory, its entries in the end, whether it exists and
\* how many entries it has before a step.
Home(sz, p) == IF p = "/" THEN 2 ELSE IF p = "EFI" THEN Begin(sz, 8) ELSE Begin(sz, 9)
Entries(sz, p) ==
    IF p = "/" THEN <<Entry(sz, 6), Entry(sz, 7), Entry(sz, 8)>>
    ELSE IF p = "EFI" THEN <<Dot(".", Begin(sz, 8)), Dot("..", 0), Entry(sz, 9)>>
    ELSE <<Dot(".", Begin(sz, 9)), Dot("..", Begin(sz, 8)), Entry(sz, 10), Entry(sz, 11)>>
Made(p, i) == p = "/" \/ (p = "EFI" /\ i > 8) \/ (p = "BOOT" /\ i > 9)
Count(p, i) ==
    IF p = "/" THEN IF i <= 6 THEN 0 ELSE IF i = 7 THEN 1 ELSE IF i = 8 THEN 2 ELSE 3
    ELSE IF p = "EFI" THEN IF i <= 9 THEN 2 ELSE 3
    ELSE IF i <= 10 THEN 2 ELSE IF i = 11 THEN 3 ELSE 4

\* The entry a step adds is the next one of its directory.
LEMMA NewEntry ==
    ASSUME NEW sz, NEW i \in 6 .. 11
    PROVE  LET p == Script[i].in
           IN  /\ p \in Directories /\ Made(p, i)
               /\ Entries(sz, p)[Count(p, i) + 1] = Entry(sz, i)
               /\ Count(p, i) \in 0 .. 3 /\ Count(p, i + 1) = Count(p, i) + 1
<1>1. i \in {6, 7, 8, 9, 10, 11}
      OBVIOUS
<1>2. CASE i \in {6, 7, 8}
  <2>1. Script[i].in = "/"
        BY <1>2, ScriptNames
  <2>2. Count("/", i) = i - 6 /\ Count("/", i + 1) = i - 5
        BY <1>2 DEF Count
  <2>3. Entries(sz, "/")[1] = Entry(sz, 6) /\ Entries(sz, "/")[2] = Entry(sz, 7)
        /\ Entries(sz, "/")[3] = Entry(sz, 8)
        BY DEF Entries
  <2> QED BY <1>2, <2>1, <2>2, <2>3 DEF Made, Directories
<1>3. CASE i = 9
  <2>1. Script[i].in = "EFI" /\ Count("EFI", i) = 2 /\ Count("EFI", i + 1) = 3
        BY <1>3, ScriptNames DEF Count
  <2>2. Entries(sz, "EFI")[3] = Entry(sz, 9)
        BY DEF Entries
  <2> QED BY <1>3, <2>1, <2>2 DEF Made, Directories
<1>4. CASE i \in {10, 11}
  <2>1. Script[i].in = "BOOT" /\ Count("BOOT", i) = i - 8 /\ Count("BOOT", i + 1) = i - 7
        BY <1>4, ScriptNames DEF Count
  <2>2. Entries(sz, "BOOT")[3] = Entry(sz, 10) /\ Entries(sz, "BOOT")[4] = Entry(sz, 11)
        BY DEF Entries
  <2> QED BY <1>4, <2>1, <2>2 DEF Made, Directories
<1> QED BY <1>1, <1>2, <1>3, <1>4

\* The other directories stay as they are; a new one has "." and "..".
LEMMA OtherDirectories ==
    ASSUME NEW i \in 6 .. 11, NEW p \in Directories, p # Script[i].in
    PROVE  /\ Made(p, i) => Made(p, i + 1) /\ Count(p, i + 1) = Count(p, i)
           /\ Made(p, i + 1) => Made(p, i) \/ (i \in DirSteps /\ p = Script[i].name)
           /\ i \in DirSteps /\ p = Script[i].name => Count(p, i + 1) = 2 /\ ~Made(p, i)
<1>1. i \in {6, 7, 8, 9, 10, 11}
      OBVIOUS
<1> QED BY <1>1, ScriptNames DEF Made, Count, Directories, DirSteps

\* A directory is never made in itself.
LEMMA SameDirectory ==
    ASSUME NEW i \in 6 .. 11
    PROVE  /\ Made(Script[i].in, i + 1)
           /\ i \in DirSteps => Script[i].in # Script[i].name /\ Script[i].name \in Directories
<1>1. i \in {6, 7, 8, 9, 10, 11}
      OBVIOUS
<1> QED BY <1>1, ScriptNames DEF Made, Directories, DirSteps

\* A directory has up to four entries.
LEMMA CountBounds ==
    ASSUME NEW p \in Directories, NEW i \in 1 .. 12
    PROVE  Count(p, i) \in 0 .. 4
BY DEF Count

\* The directories have clusters of their own.
LEMMA HomesDiffer ==
    ASSUME NEW sz \in HostSizes
    PROVE  /\ \A p \in Directories : Home(sz, p) \in DataNos
           /\ \A p, q \in Directories : p # q => Home(sz, p) # Home(sz, q)
           /\ \A i \in FileSteps, p \in Directories : Home(sz, p) \notin Own(sz, i)
           /\ \A i \in DirSteps : /\ Home(sz, Script[i].name) = Begin(sz, i)
                                  /\ Own(sz, i) = {Begin(sz, i)}
<1>1. /\ 2 \in DataNos /\ Begin(sz, 8) \in DataNos /\ Begin(sz, 9) \in DataNos
      /\ \A i \in 6 .. 11 : 2 \notin Own(sz, i)
      /\ Begin(sz, 8) \in Own(sz, 8) /\ Begin(sz, 9) \in Own(sz, 9)
      BY Owners
<1>2. \A i \in {6, 7, 9, 10, 11} : Begin(sz, 8) \notin Own(sz, i)
  <2>1. \A i \in {6, 7, 9, 10, 11} : i \in 6 .. 11 /\ i # 8
        OBVIOUS
  <2>2. 8 \in 6 .. 11
        OBVIOUS
  <2> QED BY <1>1, <2>1, <2>2, Owners
<1>3. \A i \in {6, 7, 8, 10, 11} : Begin(sz, 9) \notin Own(sz, i)
  <2>1. \A i \in {6, 7, 8, 10, 11} : i \in 6 .. 11 /\ i # 9
        OBVIOUS
  <2>2. 9 \in 6 .. 11
        OBVIOUS
  <2> QED BY <1>1, <2>1, <2>2, Owners
<1>4. Begin(sz, 8) # 2 /\ Begin(sz, 9) # 2 /\ Begin(sz, 8) # Begin(sz, 9)
      BY <1>1, <1>2
<1>5. \A i \in DirSteps : /\ Home(sz, Script[i].name) = Begin(sz, i)
                          /\ Own(sz, i) = {Begin(sz, i)}
  <2>1. \A i \in DirSteps : Extent(sz, i) = 1 /\ Begin(sz, i) \in Nat
        BY <1>1, DataNumbers DEF Extent, DirSteps, FileSteps
  <2>2. \A i \in DirSteps : Own(sz, i) = {Begin(sz, i)}
        BY <2>1 DEF Own
  <2> QED BY <2>2, ScriptNames DEF Home, DirSteps
<1>6. \A i \in FileSteps : i \in 6 .. 11 /\ i \in {6, 7, 10, 11}
      BY DEF FileSteps
<1>7. \A i \in FileSteps, p \in Directories : Home(sz, p) \notin Own(sz, i)
      BY <1>1, <1>2, <1>3, <1>6 DEF Home, Directories
<1>8. \A p \in Directories : Home(sz, p) \in DataNos
      BY <1>1 DEF Home, Directories
<1>9. \A p, q \in Directories : p # q => Home(sz, p) # Home(sz, q)
      BY <1>4 DEF Home, Directories
<1> QED BY <1>5, <1>7, <1>8, <1>9

-----------------------------------------------------------------------------
(* What the disk holds before a step: the inductive invariant              *)

IsKernel(x) == "name" \in DOMAIN x /\ x.name = "GEMIOS.ELF"

\* Nothing on the disk has the kernel's name but its entry.
KernelOnly(d, sz) ==
    \A l : \A o \in DOMAIN Sector(d, l) :
       IsKernel(Sector(d, l)[o]) => Sector(d, l)[o] = Entry(sz, 7)

\* The reserved sectors of the partition.
Formatted(l) ==
    IF l \in {PARTITION_START_LBA, PARTITION_START_LBA + 6} THEN Only(Bpb)
    ELSE IF l \in {PARTITION_START_LBA + 1, PARTITION_START_LBA + 7} THEN Only([fsinfo |-> TRUE])
    ELSE <<>>
IoSysCopied(sz, l) ==
    /\ 2 + Secs(sz, 6) < RSVD_SEC_CNT
    /\ l \in PARTITION_START_LBA + 2 .. PARTITION_START_LBA + 2 + Secs(sz, 6) - 1
ReservedSector(sz, i, l) ==
    IF i <= 3 THEN <<>>
    ELSE IF i > 4 /\ IoSysCopied(sz, l)
    THEN Only([file |-> "IO.SYS", n |-> l - (PARTITION_START_LBA + 2)])
    ELSE Formatted(l)

Mbr == [active |-> TRUE, start |-> PARTITION_START_LBA]
BootSectors(d, sz, i) ==
    /\ i > 2 => 446 \in DOMAIN Sector(d, 0) /\ Sector(d, 0)[446] = Mbr
    /\ \A l \in PARTITION_START_LBA .. g_fat_start - 1 : Sector(d, l) = ReservedSector(sz, i, l)

\* The clusters of a file that are written.
Written(sz, j, i, m) == IF j < i THEN Extent(sz, j) ELSE IF j = i THEN m ELSE 0

FilesHeld(d, sz, i, m) ==
    \A j \in FileSteps :
       FileHolds(d, Script[j].name, Begin(sz, j), Written(sz, j, i, m), Secs(sz, j))
DirsHeld(d, sz, i) ==
    /\ \A p \in Directories : Made(p, i) => DirHolds(d, Home(sz, p), Entries(sz, p), Count(p, i))
    /\ \A j \in DirSteps, k \in {0, 1} : j < i => HasEntry(d, k, Begin(sz, j), EndOfChain)
FatHeld(d, i) ==
    /\ Orderly(d)
    /\ i > 5 => \A c \in {0, 1, 2} : \E v \in Nat : \A k \in {0, 1} : HasEntry(d, k, c, v)

Layout(d, sz, i, m) ==
    /\ KernelOnly(d, sz) /\ BootSectors(d, sz, i) /\ FatHeld(d, i)
    /\ FilesHeld(d, sz, i, m) /\ DirsHeld(d, sz, i)

\* Where main() is, and which clusters it has given away.
Counted ==
    /\ size \in HostSizes
    /\ step \in 1 .. 12
    /\ status = "ok" => step = 12
    /\ clus \in Seq(Nat)
    /\ Len(clus) <= IF step \in FileSteps THEN Extent(size, step) ELSE 0
    /\ \A j \in 1 .. Len(clus) : clus[j] = Begin(size, step) + j - 1
    /\ next = Begin(size, step) + Len(clus)
    /\ \A p \in Directories : Made(p, step) => p \in DOMAIN dirs /\ dirs[p] = Home(size, p)

MkInv == Counted /\ Layout(disk, size, step, Len(clus))

-----------------------------------------------------------------------------

\* What is written does not have the kernel's name: not what Put writes,
LEMMA KernelOnlyPut ==
    ASSUME NEW d, NEW sz, KernelOnly(d, sz), NEW lba, NEW off, NEW x,
           IsKernel(x) => x = Entry(sz, 7)
    PROVE  KernelOnly(Put(d, lba, off, x), sz)
<1> DEFINE e == Put(d, lba, off, x)
<1>1. IsPut(e, d, lba, off, x)
      BY SectorPut
<1> HIDE DEF e
<1>2. ASSUME NEW l, NEW o \in DOMAIN Sector(e, l)
      PROVE  \/ o \in DOMAIN Sector(d, l) /\ Sector(e, l)[o] = Sector(d, l)[o]
             \/ Sector(e, l)[o] = x
      BY <1>1 DEF IsPut
<1>3. KernelOnly(e, sz)
      BY <1>2 DEF KernelOnly
<1> QED BY <1>3 DEF e

\* not a FAT entry,
LEMMA KernelOnlySet ==
    ASSUME NEW d, NEW sz, KernelOnly(d, sz), NEW c, NEW v
    PROVE  KernelOnly(SetFatEntry(d, c, v), sz)
<1> DEFINE x == [fat |-> v % 268435456]
<1>1. ~IsKernel(x)
      BY DEF IsKernel
<1> HIDE DEF x
<1>2. \A a, o : KernelOnly(Put(d, a, o, x), sz)
      BY <1>1, KernelOnlyPut
<1>3. \A a, o, b, p : KernelOnly(Put(Put(d, a, o, x), b, p, x), sz)
      BY <1>1, <1>2, KernelOnlyPut
<1> QED BY <1>3 DEF SetFatEntry, x

\* not a cleared cluster,
LEMMA KernelOnlyAllocated ==
    ASSUME NEW d, NEW sz, KernelOnly(d, sz), NEW c
    PROVE  KernelOnly(Allocated(d, c), sz)
<1> DEFINE m == SetFatEntry(d, c, EndOfChain)  e == Allocated(d, c)
<1>1. KernelOnly(m, sz)
      BY KernelOnlySet
<1>2. \A l : Sector(e, l) = <<>> \/ Sector(e, l) = Sector(m, l)
      BY SectorAllocated
<1>3. DOMAIN <<>> = {}
      OBVIOUS
<1> HIDE DEF m, e
<1>4. KernelOnly(e, sz)
      BY <1>1, <1>2, <1>3 DEF KernelOnly
<1> QED BY <1>4 DEF e

\* not the contents of a file,
LEMMA KernelOnlyCopied ==
    ASSUME NEW d, NEW sz, KernelOnly(d, sz), NEW lba \in Nat, NEW f, NEW from, NEW n \in Nat
    PROVE  KernelOnly(CopyFile(d, lba, f, from, n), sz)
<1> DEFINE e == CopyFile(d, lba, f, from, n)
<1>1. ASSUME NEW l
      PROVE  (\E y : Sector(e, l) = Only([file |-> f, n |-> y])) \/ Sector(e, l) = Sector(d, l)
  <2>1. Sector(e, l) = IF l \in lba .. lba + n - 1 THEN Only([file |-> f, n |-> from + (l - lba)])
                       ELSE Sector(d, l)
        BY SectorCopied
  <2> QED BY <2>1, Zenon
<1>2. \A y : ~IsKernel([file |-> f, n |-> y])
      BY DEF IsKernel
<1> HIDE DEF e
<1>3. ASSUME NEW l, NEW o \in DOMAIN Sector(e, l), IsKernel(Sector(e, l)[o])
      PROVE  Sector(e, l)[o] = Entry(sz, 7)
  <2>1. CASE Sector(e, l) = Sector(d, l)
        BY <1>3, <2>1, Zenon DEF KernelOnly
  <2>2. ASSUME NEW y, Sector(e, l) = Only([file |-> f, n |-> y])
        PROVE  FALSE
    <3>1. o = 0 /\ Sector(e, l)[o] = [file |-> f, n |-> y]
          BY <1>3, <2>2 DEF Only
    <3> QED BY <1>2, <1>3, <3>1, Zenon
  <2> QED BY <1>1, <2>1, <2>2, Zenon
<1>4. KernelOnly(e, sz)
      BY <1>3, Zenon DEF KernelOnly
<1> QED BY <1>4 DEF e

\* and no directory entry but the kernel's.
LEMMA KernelOnlyEntered ==
    ASSUME NEW d, NEW sz, KernelOnly(d, sz), NEW c, NEW x, IsKernel(x) => x = Entry(sz, 7)
    PROVE  KernelOnly(WithEntry(d, c, x), sz)
<1>1. \A a, o : KernelOnly(Put(d, a, o, x), sz)
      BY KernelOnlyPut
<1>2. WithEntry(d, c, x) = d \/ \E a, o : WithEntry(d, c, x) = Put(d, a, o, x)
      BY DEF WithEntry
<1> QED BY <1>1, <1>2

\* A step that touches clusters and entries keeps the boot sectors.
LEMMA BootSectorsKept ==
    ASSUME NEW d, NEW e, NEW T \in SUBSET DataNos, NEW C, Touches(d, e, T, C),
           NEW sz, NEW i \in 5 .. 12, NEW j \in 5 .. 12, BootSectors(d, sz, i)
    PROVE  BootSectors(e, sz, j)
<1>1. PARTITION_START_LBA \in Nat /\ g_fat_start \in Nat /\ 0 < g_fat_start
      BY Geography
<1>2. \A l \in Nat : l < g_fat_start => Sector(e, l) = Sector(d, l)
      BY LowKept
<1>3. Sector(e, 0) = Sector(d, 0)
      BY <1>1, <1>2
<1>4. \A l \in PARTITION_START_LBA .. g_fat_start - 1 : Sector(e, l) = Sector(d, l)
      BY <1>1, <1>2
<1>5. \A l : ReservedSector(sz, j, l) = ReservedSector(sz, i, l)
      BY DEF ReservedSector
<1> QED BY <1>3, <1>4, <1>5 DEF BootSectors

-----------------------------------------------------------------------------
(* What an operation keeps                                                 *)

\* What is written of a file is among its own clusters.
LEMMA WrittenBounds ==
    ASSUME NEW sz \in HostSizes, NEW j \in FileSteps, NEW i \in 1 .. 12, NEW m \in Nat,
           m <= IF i \in FileSteps THEN Extent(sz, i) ELSE 0
    PROVE  /\ Written(sz, j, i, m) \in Nat /\ Written(sz, j, i, m) <= Extent(sz, j)
           /\ Begin(sz, j) \in DataNos /\ Secs(sz, j) \in Nat
           /\ Begin(sz, j) + Written(sz, j, i, m) <= DataClusters + 2
           /\ \A x \in 0 .. Written(sz, j, i, m) - 1 : Begin(sz, j) + x \in Own(sz, j)
<1>1. j \in 6 .. 11 /\ Extent(sz, j) \in Nat
      BY HostFiles DEF FileSteps
<1>2. Written(sz, j, i, m) \in Nat /\ Written(sz, j, i, m) <= Extent(sz, j)
      BY <1>1 DEF Written
<1>3. /\ Begin(sz, j) \in DataNos /\ Begin(sz, j) \in Nat /\ DataClusters \in Nat
      /\ Begin(sz, j) + Extent(sz, j) <= DataClusters + 2
      BY <1>1, Owners, DataNumbers
<1>4. Secs(sz, j) \in Nat
      BY HostFiles, ClusterCount DEF Secs
<1> QED BY <1>1, <1>2, <1>3, <1>4 DEF Own

\* Files whose clusters are not among those touched.
LEMMA OneFileKept ==
    ASSUME NEW d, NEW e, NEW T \in SUBSET DataNos, NEW C, Touches(d, e, T, C),
           NEW sz \in HostSizes, NEW j \in FileSteps, (T \cup C) \cap Own(sz, j) = {},
           NEW i \in 1 .. 12, NEW m \in Nat, m <= IF i \in FileSteps THEN Extent(sz, i) ELSE 0,
           FileHolds(d, Script[j].name, Begin(sz, j), Written(sz, j, i, m), Secs(sz, j))
    PROVE  FileHolds(e, Script[j].name, Begin(sz, j), Written(sz, j, i, m), Secs(sz, j))
<1> DEFINE a == Begin(sz, j)  n == Written(sz, j, i, m)  q == Secs(sz, j)  f == Script[j].name
<1>1. /\ n \in Nat /\ a \in DataNos /\ q \in Nat /\ a + n <= DataClusters + 2
      /\ \A x \in 0 .. n - 1 : a + x \in Own(sz, j)
      BY WrittenBounds
<1> HIDE DEF a, n, q, f
<1>2. \A x \in 0 .. n - 1 : a + x \notin T \cup C
      BY <1>1
<1>3. FileHolds(d, f, a, n, q) => FileHolds(e, f, a, n, q)
      BY <1>1, <1>2, FileKept
<1> QED BY <1>3 DEF a, n, q, f

\* Before step 6 there is no file.
LEMMA NoFiles ==
    ASSUME NEW d, NEW sz \in HostSizes, NEW i \in 1 .. 6
    PROVE  FilesHeld(d, sz, i, 0)
<1>1. ASSUME NEW j \in FileSteps
      PROVE  Written(sz, j, i, 0) = 0
      BY DEF Written, FileSteps
<1>2. ASSUME NEW j \in FileSteps
      PROVE  FileHolds(d, Script[j].name, Begin(sz, j), 0, Secs(sz, j))
  <2>1. Secs(sz, j) \in Nat
        BY HostFiles, ClusterCount DEF Secs
  <2> QED BY <2>1 DEF FileHolds
<1> QED BY <1>1, <1>2 DEF FilesHeld

\* The reserved entries of the FATs are kept,
LEMMA FatHeldKept ==
    ASSUME NEW d, NEW e, NEW T, NEW C, Touches(d, e, T, C), C \cap {0, 1, 2} = {},
           NEW i \in 5 .. 12, NEW j \in 5 .. 12, j > 5 => i > 5, FatHeld(d, i)
    PROVE  FatHeld(e, j)
<1>1. Orderly(e)
      BY DEF FatHeld, Touches
<1>2. ASSUME j > 5, NEW c \in {0, 1, 2}
      PROVE  \E v \in Nat : \A k \in {0, 1} : HasEntry(e, k, c, v)
  <2>1. PICK v \in Nat : \A k \in {0, 1} : HasEntry(d, k, c, v)
        BY <1>2 DEF FatHeld
  <2>2. c \in ClusterNos /\ c \notin C
    <3>1. DataClusters \in Nat
          BY DataNumbers
    <3>2. 2 \in ClusterNos
          BY <3>1, Geography DEF ClusterNos
    <3> QED BY <3>1, <3>2 DEF ClusterNos
  <2> QED BY <2>1, <2>2 DEF Touches
<1> QED BY <1>1, <1>2 DEF FatHeld

\* A directory that is not among the clusters touched.
LEMMA OneDirKept ==
    ASSUME NEW d, NEW e, NEW T \in SUBSET DataNos, NEW C, Touches(d, e, T, C),
           NEW sz \in HostSizes, NEW p \in Directories, Home(sz, p) \notin T,
           NEW i \in 1 .. 12, DirHolds(d, Home(sz, p), Entries(sz, p), Count(p, i))
    PROVE  DirHolds(e, Home(sz, p), Entries(sz, p), Count(p, i))
<1> DEFINE c == Home(sz, p)  es == Entries(sz, p)  n == Count(p, i)
<1>1. c \in DataNos \ T /\ n \in 0 .. 4
      BY HomesDiffer, CountBounds
<1> HIDE DEF c, es, n
<1>2. DirHolds(d, c, es, n) => DirHolds(e, c, es, n)
      BY <1>1, DirKept
<1> QED BY <1>2 DEF c, es, n

\* and so are the entries of the directories' clusters.
LEMMA DirEntriesKept ==
    ASSUME NEW d, NEW e, NEW T, NEW C, Touches(d, e, T, C),
           NEW sz \in HostSizes, NEW j \in DirSteps, NEW k \in {0, 1}, Begin(sz, j) \notin C,
           HasEntry(d, k, Begin(sz, j), EndOfChain)
    PROVE  HasEntry(e, k, Begin(sz, j), EndOfChain)
<1>1. Begin(sz, j) \in ClusterNos
  <2>1. j \in 6 .. 11
        BY DEF DirSteps
  <2> QED BY <2>1, Owners, DataNumbers
<1> QED BY <1>1 DEF Touches

-----------------------------------------------------------------------------
(* write_file_data                                                         *)

\* What belongs to step i belongs to no other step, to no directory that
\* exists already and to the first two entries of the FAT no more.
LEMMA Belongs ==
    ASSUME NEW sz \in HostSizes, NEW i \in 6 .. 11, NEW S, S \subseteq Own(sz, i)
    PROVE  /\ S \subseteq DataNos /\ S \cap {0, 1, 2} = {}
           /\ \A j \in FileSteps : j # i => S \cap Own(sz, j) = {}
           /\ \A j \in DirSteps : j # i => Begin(sz, j) \notin S
           /\ \A p \in Directories : Made(p, i) => Home(sz, p) \notin S
<1>1. Own(sz, i) \subseteq DataNos /\ 2 \notin Own(sz, i)
      BY Owners
<1>2. \A j \in FileSteps \cup DirSteps : j \in 6 .. 11
      BY DEF FileSteps, DirSteps
<1>3. \A j \in FileSteps : j # i => S \cap Own(sz, j) = {}
      BY <1>2, Owners
<1>4. \A j \in DirSteps : j # i => Begin(sz, j) \notin S
      BY <1>2, Owners
<1>5. S \cap {0, 1, 2} = {}
      BY <1>1, DataNumbers
<1>6. ASSUME NEW p \in Directories, Made(p, i)
      PROVE  Home(sz, p) \notin S
  <2>1. CASE p = "/"
        BY <1>1, <2>1 DEF Home
  <2>2. CASE p # "/"
    <3>1. \E j \in DirSteps : j < i /\ Home(sz, p) = Begin(sz, j)
          BY <1>6, <2>2 DEF Made, Home, DirSteps, Directories
    <3> QED BY <1>4, <3>1
  <2> QED BY <2>1, <2>2
<1> QED BY <1>1, <1>3, <1>4, <1>5, <1>6

\* The state after the next cluster of the file of step i.
WithCluster(d, sz, i, m) ==
    LET c == Begin(sz, i) + m
    IN  CopyFile(LinkedTo(Allocated(d, c), c, m), MkClusterToLba(c), Script[i].name, 4 * m,
                 IF Secs(sz, i) - 4 * m < 4 THEN Secs(sz, i) - 4 * m ELSE 4)

\* One more cluster of a file.
LEMMA ClusterKeepsLayout ==
    ASSUME NEW d, NEW sz \in HostSizes, NEW i \in FileSteps, NEW m \in Nat, m < Extent(sz, i),
           Layout(d, sz, i, m)
    PROVE  Layout(WithCluster(d, sz, i, m), sz, i, m + 1)
<1> DEFINE a == Begin(sz, i)  c == a + m  f == Script[i].name  q == Secs(sz, i)
           b == LinkedTo(Allocated(d, c), c, m)
           x == IF q - 4 * m < 4 THEN q - 4 * m ELSE 4
           e == CopyFile(b, MkClusterToLba(c), f, 4 * m, x)
           C == Linked(c, m)  T == {c}
<1>1. i \in 6 .. 11 /\ i \in 5 .. 12 /\ i \in 1 .. 12 /\ Extent(sz, i) \in Nat
      BY HostFiles DEF FileSteps
<1>2. /\ a \in DataNos /\ a \in Nat /\ a >= 2 /\ c \in Own(sz, i) /\ Own(sz, i) \subseteq DataNos
      /\ m > 0 => c - 1 \in Own(sz, i)
      BY <1>1, Owners, DataNumbers DEF Own
<1>3. q \in Nat /\ 4 * m <= q
  <2>1. sz[Script[i].name] \in Nat
        BY HostFiles
  <2>2. Extent(sz, i) = Clusters(sz[Script[i].name])
        BY DEF Extent
  <2> QED BY <2>1, <2>2, ClusterCount DEF Secs
<1>4. FileHolds(d, f, a, m, q)
  <2>1. Written(sz, i, i, m) = m
        BY <1>1 DEF Written
  <2> QED BY <2>1 DEF Layout, FilesHeld
<1> HIDE DEF a, f, q
<1>5. FileHolds(e, f, a, m + 1, q) /\ Touches(d, e, T, C)
      BY <1>2, <1>3, <1>4, ClusterStored
<1>6. KernelOnly(e, sz)
  <2>1. KernelOnly(Allocated(d, c), sz)
        BY KernelOnlyAllocated DEF Layout
  <2>2. KernelOnly(b, sz)
        BY <2>1, KernelOnlySet DEF LinkedTo
  <2>3. MkClusterToLba(c) \in Nat /\ x \in Nat
        BY <1>2, <1>3, ClusterPlaces
  <2> HIDE DEF b, x, c
  <2> QED BY <2>2, <2>3, KernelOnlyCopied
<1>7. T \in SUBSET DataNos /\ T \subseteq Own(sz, i) /\ C \subseteq Own(sz, i) /\ T \cup C \subseteq Own(sz, i)
      BY <1>2 DEF Linked
<1> HIDE DEF e, T, C
<1>8. FilesHeld(e, sz, i, m + 1)
  <2> SUFFICES ASSUME NEW j \in FileSteps
               PROVE  FileHolds(e, Script[j].name, Begin(sz, j), Written(sz, j, i, m + 1), Secs(sz, j))
      BY DEF FilesHeld
  <2>1. CASE j = i
    <3>1. Written(sz, i, i, m + 1) = m + 1
          BY <1>1 DEF Written
    <3> QED BY <1>5, <2>1, <3>1 DEF a, f, q
  <2>2. CASE j # i
    <3>1. Written(sz, j, i, m + 1) = Written(sz, j, i, m)
          BY <2>2 DEF Written
    <3>2. (T \cup C) \cap Own(sz, j) = {}
          BY <1>1, <1>7, <2>2, Belongs
    <3>3. FileHolds(d, Script[j].name, Begin(sz, j), Written(sz, j, i, m), Secs(sz, j))
          BY DEF Layout, FilesHeld
    <3>4. m <= IF i \in FileSteps THEN Extent(sz, i) ELSE 0
          BY <1>1
    <3>5. FileHolds(e, Script[j].name, Begin(sz, j), Written(sz, j, i, m), Secs(sz, j))
          BY <1>1, <1>5, <1>7, <3>2, <3>3, <3>4, OneFileKept
    <3> QED BY <3>1, <3>5
  <2> QED BY <2>1, <2>2
<1>9. DirsHeld(e, sz, i)
  <2>1. ASSUME NEW p \in Directories, Made(p, i)
        PROVE  DirHolds(e, Home(sz, p), Entries(sz, p), Count(p, i))
    <3>1. Home(sz, p) \notin T
          BY <1>1, <1>7, <2>1, Belongs
    <3>2. DirHolds(d, Home(sz, p), Entries(sz, p), Count(p, i))
          BY <2>1 DEF Layout, DirsHeld
    <3> QED BY <1>1, <1>5, <1>7, <3>1, <3>2, OneDirKept
  <2>2. ASSUME NEW j \in DirSteps, NEW k \in {0, 1}, j < i
        PROVE  HasEntry(e, k, Begin(sz, j), EndOfChain)
    <3>1. Begin(sz, j) \notin C
      <4>1. j # i
            BY <1>1, <2>2
      <4> QED BY <1>1, <1>7, <4>1, Belongs
    <3>2. HasEntry(d, k, Begin(sz, j), EndOfChain)
          BY <2>2 DEF Layout, DirsHeld
    <3> QED BY <1>5, <3>1, <3>2, DirEntriesKept
  <2> QED BY <2>1, <2>2 DEF DirsHeld
<1>10. BootSectors(e, sz, i)
      BY <1>1, <1>5, <1>7, BootSectorsKept DEF Layout
<1>11. FatHeld(e, i)
  <2>1. C \cap {0, 1, 2} = {}
        BY <1>1, <1>7, Belongs
  <2> QED BY <1>1, <1>5, <2>1, FatHeldKept DEF Layout
<1>12. Layout(e, sz, i, m + 1)
      BY <1>6, <1>8, <1>9, <1>10, <1>11 DEF Layout
<1>13. WithCluster(d, sz, i, m) = e
      BY DEF WithCluster, e, a, f, q
<1> QED BY <1>12, <1>13

-----------------------------------------------------------------------------
(* add_dir_entry, at the end of a step                                     *)

\* What step i + 1 finds written is what step i has written.
LEMMA NextWritten ==
    ASSUME NEW sz \in HostSizes, NEW i \in 6 .. 11, NEW j \in FileSteps,
           NEW m \in Nat, i \in FileSteps => m = Extent(sz, i), i \notin FileSteps => m = 0
    PROVE  Written(sz, j, i + 1, 0) = Written(sz, j, i, m)
<1>1. j \in Nat /\ i \in Nat
      BY DEF FileSteps
<1>2. CASE j < i
      BY <1>1, <1>2 DEF Written
<1>3. CASE j = i
  <2>1. i \in FileSteps
        BY <1>3
  <2> QED BY <1>1, <1>3, <2>1 DEF Written
<1>4. CASE j > i
      BY <1>1, <1>4 DEF Written
<1> QED BY <1>1, <1>2, <1>3, <1>4

\* The entry of step i completes the directories and leaves the files alone.
LEMMA EntryCompletes ==
    ASSUME NEW d, NEW sz \in HostSizes, NEW i \in 6 .. 11,
           FilesHeld(d, sz, i + 1, 0), FatHeld(d, i), BootSectors(d, sz, i), KernelOnly(d, sz),
           NEW p, p = Script[i].in,
           \A q \in Directories : Made(q, i + 1) /\ q # p =>
               DirHolds(d, Home(sz, q), Entries(sz, q), Count(q, i + 1)),
           DirHolds(d, Home(sz, p), Entries(sz, p), Count(p, i)),
           \A j \in DirSteps, k \in {0, 1} : j < i + 1 => HasEntry(d, k, Begin(sz, j), EndOfChain)
    PROVE  Layout(WithEntry(d, Home(sz, p), Entry(sz, i)), sz, i + 1, 0)
<1> DEFINE c == Home(sz, p)  es == Entries(sz, p)  n == Count(p, i)  x == Entry(sz, i)
           e == WithEntry(d, c, x)  T == {c}  C == {}
<1>1. /\ p \in Directories /\ Made(p, i) /\ es[n + 1] = x
      /\ n \in 0 .. 3 /\ Count(p, i + 1) = n + 1
      BY NewEntry
<1>2. c \in DataNos /\ \A j \in FileSteps : c \notin Own(sz, j)
      BY <1>1, HomesDiffer
<1>3. DirHolds(e, c, es, n + 1) /\ Touches(d, e, T, C)
  <2>1. DirHolds(d, c, es, n)
        OBVIOUS
  <2> HIDE DEF c, es, n, x
  <2> QED BY <1>1, <1>2, <2>1, EntryAdded
<1>4. KernelOnly(e, sz)
  <2>1. IsKernel(x) => x = Entry(sz, 7)
    <3>1. i \in {6, 7, 8, 9, 10, 11}
          OBVIOUS
    <3>2. IsKernel(x) => i = 7
          BY <3>1, ScriptNames DEF IsKernel, Entry
    <3> QED BY <3>2
  <2> HIDE DEF c, x
  <2> QED BY <2>1, KernelOnlyEntered
<1>5. T \in SUBSET DataNos /\ i + 1 \in 1 .. 12 /\ i + 1 \in 5 .. 12 /\ i \in 5 .. 12 /\ 0 \in Nat
      BY <1>2
<1>6. \A q \in Directories : q # p => Home(sz, q) \notin T
      BY <1>1, HomesDiffer
<1>7. \A j \in FileSteps : (T \cup C) \cap Own(sz, j) = {}
      BY <1>2
<1>8. C \cap {0, 1, 2} = {} /\ \A j : Begin(sz, j) \notin C
      OBVIOUS
<1> HIDE DEF e, T, C
<1>9. FilesHeld(e, sz, i + 1, 0)
  <2>1. 0 <= IF i + 1 \in FileSteps THEN Extent(sz, i + 1) ELSE 0
        BY HostFiles
  <2> QED BY <1>3, <1>5, <1>7, <2>1, OneFileKept DEF FilesHeld
<1>10. \A q \in Directories : Made(q, i + 1) =>
          DirHolds(e, Home(sz, q), Entries(sz, q), Count(q, i + 1))
  <2>1. ASSUME NEW q \in Directories, Made(q, i + 1), q # p
        PROVE  DirHolds(e, Home(sz, q), Entries(sz, q), Count(q, i + 1))
        BY <1>3, <1>5, <1>6, <2>1, OneDirKept
  <2> QED BY <1>1, <1>3, <2>1
<1>11. \A j \in DirSteps, k \in {0, 1} : j < i + 1 => HasEntry(e, k, Begin(sz, j), EndOfChain)
      BY <1>3, <1>8, DirEntriesKept
<1>12. BootSectors(e, sz, i + 1)
      BY <1>3, <1>5, BootSectorsKept
<1>13. FatHeld(e, i + 1)
  <2>1. i + 1 > 5 => i > 5
        OBVIOUS
  <2> QED BY <1>3, <1>5, <1>8, <2>1, FatHeldKept
<1>14. Layout(e, sz, i + 1, 0)
      BY <1>4, <1>9, <1>10, <1>11, <1>12, <1>13 DEF Layout, DirsHeld
<1> QED BY <1>14 DEF e

\* The end of a file, and its entry in the directory.
LEMMA FinishKeepsLayout ==
    ASSUME NEW d, NEW sz \in HostSizes, NEW i \in FileSteps, NEW m \in Nat, m = Extent(sz, i),
           Layout(d, sz, i, m)
    PROVE  Layout(WithEntry(SetFatEntry(d, Begin(sz, i) + m - 1, EndOfChain),
                            Home(sz, Script[i].in), Entry(sz, i)), sz, i + 1, 0)
<1> DEFINE a == Begin(sz, i)  c == a + m - 1  f == Script[i].name  q == Secs(sz, i)
           e == SetFatEntry(d, c, EndOfChain)  T == {}  C == {c}
<1>1. i \in 6 .. 11 /\ i \in 5 .. 12 /\ i \in 1 .. 12 /\ m >= 1
      BY HostFiles DEF FileSteps
<1>2. /\ a \in DataNos /\ a \in Nat /\ c \in Own(sz, i) /\ c \in ClusterNos
      /\ \A j \in 0 .. m - 1 : a + j \in ClusterNos
  <2>1. a \in DataNos /\ a \in Nat /\ Own(sz, i) \subseteq DataNos
        BY <1>1, Owners, DataNumbers
  <2>2. \A j \in 0 .. m - 1 : a + j \in Own(sz, i)
        BY <2>1 DEF Own
  <2>3. c = a + (m - 1) /\ m - 1 \in 0 .. m - 1
        BY <1>1, <2>1
  <2> QED BY <2>1, <2>2, <2>3, DataNumbers
<1>3. FileHolds(d, f, a, m, q)
  <2>1. Written(sz, i, i, m) = m
        BY <1>1 DEF Written
  <2> QED BY <2>1 DEF Layout, FilesHeld
<1>4. KernelOnly(e, sz)
      BY KernelOnlySet DEF Layout
<1> HIDE DEF a, f, q
<1>5. Touches(d, e, T, C) /\ \A k \in {0, 1} : HasEntry(e, k, c, EndOfChain)
  <2>1. EndOfChain \in Nat /\ EndOfChain <= EndOfChain
        BY SMT DEF EndOfChain
  <2> HIDE DEF c
  <2> QED BY <1>2, <2>1, SetTouches
<1> HIDE DEF e, T
<1>6. FileHolds(e, f, a, m, q)
  <2>1. ASSUME NEW j \in 0 .. m - 1, NEW k \in {0, 1}
        PROVE  HasEntry(e, k, a + j, IF j = m - 1 THEN EndOfChain ELSE a + j + 1)
    <3>1. CASE j = m - 1
      <4>1. a + j = c
            BY <1>2, <3>1
      <4> QED BY <1>5, <3>1, <4>1
    <3>2. CASE j # m - 1
      <4>1. a + j \notin C /\ a + j \in ClusterNos
            BY <1>2, <3>2
      <4>2. HasEntry(d, k, a + j, a + j + 1)
            BY <1>3, <3>2 DEF FileHolds
      <4> QED BY <1>5, <3>2, <4>1, <4>2 DEF Touches
    <3> QED BY <3>1, <3>2
  <2>2. ASSUME NEW t \in 0 .. q - 1, t < 4 * m
        PROVE  Sector(e, MkClusterToLba(a) + t) = Only([file |-> f, n |-> t])
    <3>1. Sector(d, MkClusterToLba(a) + t) = Only([file |-> f, n |-> t])
          BY <1>3, <2>2 DEF FileHolds
    <3>2. PICK j \in 0 .. m - 1 : a + j \in DataNos /\ MkClusterToLba(a) + t \in SectorsOf(a + j)
      <4>1. a + m <= DataClusters + 2 /\ t \in Nat
        <5>1. q \in Nat
              BY HostFiles, ClusterCount DEF q, Secs
        <5> QED BY <1>1, <5>1, Owners DEF a
      <4> QED BY <1>2, <2>2, <4>1, FileSector
    <3>3. MkClusterToLba(a) + t \notin FatArea
          BY <3>2, ClusterPlaces
    <3>4. \A b \in T : MkClusterToLba(a) + t \notin SectorsOf(b)
          BY DEF T
    <3> QED BY <1>5, <3>1, <3>3, <3>4 DEF Touches
  <2> QED BY <2>1, <2>2, Zenon DEF FileHolds
<1>7. T \in SUBSET DataNos /\ C \subseteq Own(sz, i) /\ T \cup C \subseteq Own(sz, i)
      BY <1>2 DEF T
<1> HIDE DEF C
<1>8. FilesHeld(e, sz, i + 1, 0)
  <2> SUFFICES ASSUME NEW j \in FileSteps
               PROVE  FileHolds(e, Script[j].name, Begin(sz, j), Written(sz, j, i + 1, 0), Secs(sz, j))
      BY DEF FilesHeld
  <2>1. Written(sz, j, i + 1, 0) = Written(sz, j, i, m)
        BY <1>1, NextWritten
  <2>2. CASE j = i
    <3>1. Written(sz, i, i, m) = m
          BY <1>1 DEF Written
    <3> QED BY <1>6, <2>1, <2>2, <3>1 DEF a, f, q
  <2>3. CASE j # i
    <3>1. (T \cup C) \cap Own(sz, j) = {}
          BY <1>1, <1>7, <2>3, Belongs
    <3>2. FileHolds(d, Script[j].name, Begin(sz, j), Written(sz, j, i, m), Secs(sz, j))
          BY DEF Layout, FilesHeld
    <3>3. m <= IF i \in FileSteps THEN Extent(sz, i) ELSE 0
          BY <1>1
    <3> QED BY <1>1, <1>5, <1>7, <2>1, <3>1, <3>2, <3>3, OneFileKept
  <2> QED BY <2>2, <2>3
<1>9. ASSUME NEW p \in Directories, Made(p, i)
      PROVE  DirHolds(e, Home(sz, p), Entries(sz, p), Count(p, i))
  <2>1. Home(sz, p) \notin T
        BY DEF T
  <2>2. DirHolds(d, Home(sz, p), Entries(sz, p), Count(p, i))
        BY <1>9 DEF Layout, DirsHeld
  <2> QED BY <1>1, <1>5, <1>7, <2>1, <2>2, OneDirKept
<1>10. ASSUME NEW p \in Directories, Made(p, i + 1), p # Script[i].in
       PROVE  DirHolds(e, Home(sz, p), Entries(sz, p), Count(p, i + 1))
  <2>1. i \notin DirSteps
        BY DEF FileSteps, DirSteps
  <2>2. Made(p, i) /\ Count(p, i + 1) = Count(p, i)
        BY <1>1, <1>10, <2>1, OtherDirectories
  <2> QED BY <1>9, <2>2
<1>11. ASSUME NEW j \in DirSteps, NEW k \in {0, 1}, j < i + 1
       PROVE  HasEntry(e, k, Begin(sz, j), EndOfChain)
  <2>1. j # i /\ j < i
        BY <1>1, <1>11 DEF FileSteps, DirSteps
  <2>2. Begin(sz, j) \notin C
        BY <1>1, <1>7, <2>1, Belongs
  <2>3. HasEntry(d, k, Begin(sz, j), EndOfChain)
        BY <2>1 DEF Layout, DirsHeld
  <2> QED BY <1>5, <2>2, <2>3, DirEntriesKept
<1>12. BootSectors(e, sz, i)
      BY <1>1, <1>5, <1>7, BootSectorsKept DEF Layout
<1>13. FatHeld(e, i)
  <2>1. C \cap {0, 1, 2} = {}
        BY <1>1, <1>7, Belongs
  <2> QED BY <1>1, <1>5, <2>1, FatHeldKept DEF Layout
<1>14. Script[i].in \in Directories /\ Made(Script[i].in, i)
      BY <1>1, NewEntry
<1>15. Layout(WithEntry(e, Home(sz, Script[i].in), Entry(sz, i)), sz, i + 1, 0)
      BY <1>1, <1>4, <1>8, <1>9, <1>10, <1>11, <1>12, <1>13, <1>14, EntryCompletes
<1> QED BY <1>15 DEF e, a

-----------------------------------------------------------------------------
(* create_directory                                                        *)

\* The state before the entry is put into the parent and after the cluster of
\* the new directory has got its two.
LEMMA DirKeepsLayout ==
    ASSUME NEW d, NEW sz \in HostSizes, NEW i \in DirSteps, Layout(d, sz, i, 0)
    PROVE  LET c == Begin(sz, i)  es == Entries(sz, Script[i].name)
           IN  Layout(WithEntry(WithEntry(WithEntry(Allocated(d, c),
                         Home(sz, Script[i].in), Entry(sz, i)), c, es[1]), c, es[2]),
                      sz, i + 1, 0)
<1> DEFINE c == Begin(sz, i)  p == Script[i].name  es == Entries(sz, p)
           r == Script[i].in  h == Home(sz, r)  hs == Entries(sz, r)  n == Count(r, i)
           x == Entry(sz, i)
           b1 == Allocated(d, c)  b2 == WithEntry(b1, h, x)
           b3 == WithEntry(b2, c, es[1])  e == WithEntry(b3, c, es[2])
           T == {c}  C == {c}
<1>1. i \in 6 .. 11 /\ i \in 5 .. 12 /\ i \in 1 .. 12 /\ 0 \in Nat /\ i \notin FileSteps
      BY DEF DirSteps, FileSteps
<1>2. /\ p \in Directories /\ r \in Directories /\ p # r /\ Made(r, i) /\ Made(r, i + 1)
      /\ ~Made(p, i) /\ Count(p, i + 1) = 2
      /\ hs[n + 1] = x /\ n \in 0 .. 3 /\ Count(r, i + 1) = n + 1
  <2>1. /\ r \in Directories /\ Made(r, i) /\ hs[n + 1] = x /\ n \in 0 .. 3
        /\ Count(r, i + 1) = n + 1
        BY <1>1, NewEntry
  <2>2. Made(r, i + 1) /\ p # r /\ p \in Directories
        BY <1>1, SameDirectory
  <2> QED BY <1>1, <2>1, <2>2, OtherDirectories
<1>3. /\ c \in DataNos /\ h \in DataNos /\ c # h /\ Own(sz, i) = {c} /\ Home(sz, p) = c
      BY <1>1, <1>2, Owners, HomesDiffer
<1>4. DirHolds(d, h, hs, n)
      BY <1>2 DEF Layout, DirsHeld
<1>5. KernelOnly(e, sz)
  <2>1. KernelOnly(b1, sz)
        BY KernelOnlyAllocated DEF Layout
  <2>2. IsKernel(x) => x = Entry(sz, 7)
        BY ScriptNames DEF IsKernel, Entry, DirSteps
  <2>3. ~IsKernel(es[1]) /\ ~IsKernel(es[2])
    <3>1. \A z : ~IsKernel(Dot(".", z)) /\ ~IsKernel(Dot("..", z))
          BY DEF IsKernel, Dot
    <3>2. es[1] = Dot(".", Begin(sz, i)) /\ \E z : es[2] = Dot("..", z)
          BY <1>2, ScriptNames DEF Entries, DirSteps
    <3> QED BY <3>1, <3>2
  <2> HIDE DEF b1, x, h, c, es
  <2>4. KernelOnly(b2, sz)
        BY <2>1, <2>2, KernelOnlyEntered
  <2> HIDE DEF b2
  <2>5. KernelOnly(b3, sz)
        BY <2>3, <2>4, KernelOnlyEntered
  <2> HIDE DEF b3
  <2> QED BY <2>3, <2>5, KernelOnlyEntered
<1> HIDE DEF c, es, h, hs, n, x
<1>6. /\ Touches(d, b1, T, C) /\ \A k \in {0, 1} : HasEntry(b1, k, c, EndOfChain)
      /\ \A l \in SectorsOf(c) : Sector(b1, l) = <<>>
      BY <1>3, AllocationTouches
<1> HIDE DEF b1
<1>7. DirHolds(b1, c, es, 0) /\ DirHolds(b1, h, hs, n)
  <2>1. DirHolds(b1, c, es, 0)
    <3>1. DOMAIN <<>> = {}
          OBVIOUS
    <3> QED BY <1>6, <3>1 DEF DirHolds
  <2>2. h \in DataNos \ T /\ T \in SUBSET DataNos /\ n \in 0 .. 4
        BY <1>2, <1>3
  <2> HIDE DEF T, C
  <2> QED BY <1>4, <1>6, <2>1, <2>2, DirKept
<1>8. DirHolds(b2, h, hs, n + 1) /\ Touches(b1, b2, {h}, {})
      BY <1>2, <1>3, <1>7, EntryAdded
<1> HIDE DEF b2
<1>9. DirHolds(b2, c, es, 0)
  <2>1. c \in DataNos \ {h} /\ {h} \in SUBSET DataNos /\ 0 \in 0 .. 4
        BY <1>3
  <2> QED BY <1>7, <1>8, <2>1, DirKept
<1>10. DirHolds(b3, c, es, 1) /\ Touches(b2, b3, T, {})
  <2>1. 0 \in 0 .. 3 /\ 0 + 1 = 1
        OBVIOUS
  <2> QED BY <1>3, <1>9, <2>1, EntryAdded
<1> HIDE DEF b3
<1>11. DirHolds(e, c, es, 2) /\ Touches(b3, e, T, {})
  <2>1. 1 \in 0 .. 3 /\ 1 + 1 = 2
        OBVIOUS
  <2> QED BY <1>3, <1>10, <2>1, EntryAdded
<1> HIDE DEF e, T, C
<1>12. Touches(d, e, {c, h}, {c}) /\ Touches(b2, e, {c}, {}) /\ Touches(b1, e, {c, h}, {})
  <2>1. Touches(b2, e, T \cup T, {} \cup {})
        BY <1>10, <1>11, TouchesBoth
  <2>2. T \cup T = {c} /\ {} \cup {} = {}
        BY DEF T
  <2>3. Touches(b2, e, {c}, {})
        BY <2>1, <2>2
  <2>4. Touches(b1, e, {h} \cup {c}, {} \cup {})
        BY <1>8, <2>3, TouchesBoth
  <2>5. {h} \cup {c} = {c, h}
        OBVIOUS
  <2>6. Touches(b1, e, {c, h}, {})
        BY <2>2, <2>4, <2>5
  <2>7. Touches(d, e, T \cup {c, h}, C \cup {})
        BY <1>6, <2>6, TouchesBoth
  <2>8. T \cup {c, h} = {c, h} /\ C \cup {} = {c}
        BY DEF T, C
  <2> QED BY <2>3, <2>6, <2>7, <2>8
<1>13. DirHolds(e, h, hs, n + 1)
  <2>1. h \in DataNos \ {c} /\ {c} \in SUBSET DataNos /\ n + 1 \in 0 .. 4
        BY <1>2, <1>3
  <2> QED BY <1>8, <1>12, <2>1, DirKept
<1>14. FilesHeld(e, sz, i + 1, 0)
  <2> SUFFICES ASSUME NEW j \in FileSteps
               PROVE  FileHolds(e, Script[j].name, Begin(sz, j), Written(sz, j, i + 1, 0), Secs(sz, j))
      BY DEF FilesHeld
  <2>1. Written(sz, j, i + 1, 0) = Written(sz, j, i, 0)
        BY <1>1, NextWritten
  <2>2. ({c, h} \cup {c}) \cap Own(sz, j) = {}
    <3>1. c = Home(sz, p) /\ h = Home(sz, r)
          BY <1>3 DEF h
    <3> QED BY <1>2, <3>1, HomesDiffer
  <2>3. FileHolds(d, Script[j].name, Begin(sz, j), Written(sz, j, i, 0), Secs(sz, j))
        BY DEF Layout, FilesHeld
  <2>4. 0 <= IF i \in FileSteps THEN Extent(sz, i) ELSE 0
        BY <1>1
  <2>5. {c, h} \in SUBSET DataNos
        BY <1>3
  <2> QED BY <1>1, <1>12, <2>1, <2>2, <2>3, <2>4, <2>5, OneFileKept
<1>15. ASSUME NEW q \in Directories, Made(q, i + 1)
       PROVE  DirHolds(e, Home(sz, q), Entries(sz, q), Count(q, i + 1))
  <2>1. CASE q = p
        BY <1>2, <1>3, <1>11, <2>1 DEF es
  <2>2. CASE q = r
        BY <1>2, <1>13, <2>2 DEF h, hs, n
  <2>3. CASE q # p /\ q # r
    <3>1. Made(q, i) /\ Count(q, i + 1) = Count(q, i)
          BY <1>1, <1>15, <2>3, OtherDirectories
    <3>2. Home(sz, q) \notin {c, h}
          BY <1>2, <1>3, <2>3, HomesDiffer DEF h
    <3>3. DirHolds(d, Home(sz, q), Entries(sz, q), Count(q, i))
          BY <3>1 DEF Layout, DirsHeld
    <3>4. {c, h} \in SUBSET DataNos
          BY <1>3
    <3> QED BY <1>1, <1>12, <3>1, <3>2, <3>3, <3>4, OneDirKept
  <2> QED BY <2>1, <2>2, <2>3
<1>16. ASSUME NEW j \in DirSteps, NEW k \in {0, 1}, j < i + 1
       PROVE  HasEntry(e, k, Begin(sz, j), EndOfChain)
  <2>1. CASE j = i
    <3>1. c \in ClusterNos /\ c \notin {}
          BY <1>3, DataNumbers
    <3>2. HasEntry(b1, k, c, EndOfChain)
          BY <1>6
    <3>3. HasEntry(e, k, c, EndOfChain)
          BY <1>12, <3>1, <3>2 DEF Touches
    <3> QED BY <2>1, <3>3 DEF c
  <2>2. CASE j # i
    <3>1. j < i
          BY <1>1, <1>16, <2>2 DEF DirSteps
    <3>2. Begin(sz, j) \notin {c}
          BY <1>1, <1>3, <2>2, Belongs
    <3>3. HasEntry(d, k, Begin(sz, j), EndOfChain)
          BY <3>1 DEF Layout, DirsHeld
    <3> QED BY <1>12, <3>2, <3>3, DirEntriesKept
  <2> QED BY <2>1, <2>2
<1>17. {c, h} \in SUBSET DataNos /\ {c} \cap {0, 1, 2} = {} /\ i + 1 \in 5 .. 12
       /\ (i + 1 > 5 => i > 5)
      BY <1>1, <1>3, Belongs
<1>18. BootSectors(e, sz, i + 1)
      BY <1>1, <1>12, <1>17, BootSectorsKept DEF Layout
<1>19. FatHeld(e, i + 1)
      BY <1>1, <1>12, <1>17, FatHeldKept DEF Layout
<1>20. Layout(e, sz, i + 1, 0)
      BY <1>5, <1>14, <1>15, <1>16, <1>18, <1>19 DEF Layout, DirsHeld
<1> QED BY <1>20 DEF e, b1, b2, b3, c, es, h, x

-----------------------------------------------------------------------------
(* The boot sectors and the first entries of the FATs                      *)

\* Until the FATs are initialised everything behind the reserved sectors is
\* empty, or was not written at least.
LEMMA LowWriteKeepsLayout ==
    ASSUME NEW d, NEW e, NEW sz \in HostSizes, NEW i \in 1 .. 4, Layout(d, sz, i, 0),
           \A l : l \notin 0 .. g_fat_start - 1 => Sector(e, l) = Sector(d, l),
           KernelOnly(e, sz), BootSectors(e, sz, i + 1), DOMAIN d \subseteq Nat => DOMAIN e \subseteq Nat
    PROVE  Layout(e, sz, i + 1, 0)
<1>1. FatHeld(e, i + 1)
  <2>1. \A l \in FatArea : l \notin 0 .. g_fat_start - 1
        BY Geography DEF FatArea
  <2>2. \A l \in FatArea : Sector(e, l) = Sector(d, l)
        BY <2>1
  <2> QED BY <2>2 DEF Layout, FatHeld, Orderly
<1>2. FilesHeld(e, sz, i + 1, 0)
      BY NoFiles
<1>3. ASSUME NEW p \in Directories, Made(p, i + 1)
      PROVE  DirHolds(e, Home(sz, p), Entries(sz, p), Count(p, i + 1))
  <2>1. p = "/" /\ Made(p, i)
        BY <1>3 DEF Made
  <2>2. Count(p, i + 1) = 0 /\ Count(p, i) = 0 /\ Home(sz, p) \in DataNos
        BY <2>1, HomesDiffer DEF Count
  <2>3. DirHolds(d, Home(sz, p), Entries(sz, p), 0)
        BY <2>1, <2>2 DEF Layout, DirsHeld
  <2>4. \A l \in SectorsOf(Home(sz, p)) : Sector(e, l) = Sector(d, l)
    <3>1. \A l \in SectorsOf(Home(sz, p)) : l >= g_data_start /\ l \in Nat
          BY <2>2, ClusterPlaces
    <3>2. g_data_start >= g_fat_start /\ g_fat_start \in Nat /\ g_data_start \in Nat
          BY FatExtent, Geography
    <3>3. \A l \in SectorsOf(Home(sz, p)) : l \notin 0 .. g_fat_start - 1
          BY <3>1, <3>2
    <3> QED BY <3>3
  <2>5. DirHolds(e, Home(sz, p), Entries(sz, p), 0)
        BY <2>3, <2>4 DEF DirHolds
  <2> QED BY <2>2, <2>5
<1>4. DirsHeld(e, sz, i + 1)
  <2>1. \A j \in DirSteps : ~(j < i + 1)
        BY DEF DirSteps
  <2> QED BY <1>3, <2>1 DEF DirsHeld
<1> QED BY <1>1, <1>2, <1>4 DEF Layout

\* The empty disk.
LEMMA EmptyLayout ==
    ASSUME NEW sz \in HostSizes
    PROVE  Layout(<<>>, sz, 1, 0)
<1>1. \A l : Sector(<<>>, l) = <<>>
      BY DEF Sector
<1>2. DOMAIN <<>> = {}
      OBVIOUS
<1>3. KernelOnly(<<>>, sz)
      BY <1>1, <1>2 DEF KernelOnly
<1>4. BootSectors(<<>>, sz, 1)
      BY <1>1 DEF BootSectors, ReservedSector
<1>5. FatHeld(<<>>, 1)
      BY <1>1, <1>2 DEF FatHeld, Orderly
<1>6. FilesHeld(<<>>, sz, 1, 0)
      BY NoFiles
<1>7. DirsHeld(<<>>, sz, 1)
  <2>1. \A j \in DirSteps : ~(j < 1)
        BY DEF DirSteps
  <2>2. \A p \in Directories : Made(p, 1) => Count(p, 1) = 0
        BY DEF Made, Count
  <2>3. \A c, es : DirHolds(<<>>, c, es, 0)
        BY <1>1, <1>2 DEF DirHolds
  <2> QED BY <2>1, <2>2, <2>3 DEF DirsHeld
<1> QED BY <1>3, <1>4, <1>5, <1>6, <1>7 DEF Layout

\* The MBR.
LEMMA MbrKeepsLayout ==
    ASSUME NEW d, NEW sz \in HostSizes, Layout(d, sz, 2, 0)
    PROVE  Layout(Put(d, 0, 446, Mbr), sz, 3, 0)
<1> DEFINE e == Put(d, 0, 446, Mbr)
<1>1. IsPut(e, d, 0, 446, Mbr)
      BY SectorPut
<1>2. KernelOnly(e, sz)
  <2>1. ~IsKernel(Mbr)
        BY DEF IsKernel, Mbr
  <2> QED BY <2>1, KernelOnlyPut DEF Layout
<1> HIDE DEF e
<1>3. \A l : l # 0 => Sector(e, l) = Sector(d, l)
      BY <1>1 DEF IsPut
<1>4. 446 \in DOMAIN Sector(e, 0) /\ Sector(e, 0)[446] = Mbr
      BY <1>1 DEF IsPut
<1>5. BootSectors(e, sz, 3)
  <2>1. \A l \in PARTITION_START_LBA .. g_fat_start - 1 : l # 0
        BY Geography
  <2>2. \A l : ReservedSector(sz, 3, l) = ReservedSector(sz, 2, l)
        BY DEF ReservedSector
  <2> QED BY <1>3, <1>4, <2>1, <2>2 DEF Layout, BootSectors
<1>6. \A l : l \notin 0 .. g_fat_start - 1 => Sector(e, l) = Sector(d, l)
  <2>1. 0 \in 0 .. g_fat_start - 1
        BY Geography
  <2> QED BY <1>3, <2>1
<1>7. 2 \in 1 .. 4 /\ 2 + 1 = 3
      OBVIOUS
<1>8. DOMAIN d \subseteq Nat => DOMAIN e \subseteq Nat
      BY <1>1 DEF IsPut
<1>9. Layout(e, sz, 3, 0)
      BY <1>2, <1>5, <1>6, <1>7, <1>8, LowWriteKeepsLayout
<1> QED BY <1>9 DEF e

\* Format
WithBootSectors(d) ==
    [l \in DOMAIN d \cup {PARTITION_START_LBA, PARTITION_START_LBA + 1,
                          PARTITION_START_LBA + 6, PARTITION_START_LBA + 7} |->
        IF l \in {PARTITION_START_LBA, PARTITION_START_LBA + 6} THEN Only(Bpb)
        ELSE IF l \in {PARTITION_START_LBA + 1, PARTITION_START_LBA + 7}
             THEN Only([fsinfo |-> TRUE])
        ELSE d[l]]

\* The boot sectors.
LEMMA FormatKeepsLayout ==
    ASSUME NEW d, NEW sz \in HostSizes, Layout(d, sz, 3, 0)
    PROVE  Layout(WithBootSectors(d), sz, 4, 0)
<1> DEFINE e == WithBootSectors(d)
           P == {PARTITION_START_LBA, PARTITION_START_LBA + 1,
                 PARTITION_START_LBA + 6, PARTITION_START_LBA + 7}
<1>1. \A l : Sector(e, l) = IF l \in P THEN Formatted(l) ELSE Sector(d, l)
      BY DEF WithBootSectors, Sector, Formatted
<1>2. /\ \A l : l \in P => l \in PARTITION_START_LBA .. g_fat_start - 1
      /\ \A l \in PARTITION_START_LBA .. g_fat_start - 1 : l # 0 /\ l \in 0 .. g_fat_start - 1
      /\ 0 \notin P
      BY Geography
<1>3. \A l : l \notin P => Formatted(l) = <<>>
      BY DEF Formatted
<1>4. \A l : \A o \in DOMAIN Formatted(l) : ~IsKernel(Formatted(l)[o])
  <2>1. ~IsKernel(Bpb) /\ ~IsKernel([fsinfo |-> TRUE])
        BY DEF IsKernel, Bpb
  <2>2. \A y : DOMAIN Only(y) = {0} /\ Only(y)[0] = y
        BY DEF Only
  <2>3. DOMAIN <<>> = {}
        OBVIOUS
  <2>4. \A l : Formatted(l) \in {Only(Bpb), Only([fsinfo |-> TRUE]), <<>>}
        BY DEF Formatted
  <2> QED BY <2>1, <2>2, <2>3, <2>4
<1> HIDE DEF e, P
<1>5. KernelOnly(e, sz)
      BY <1>1, <1>4, Zenon DEF Layout, KernelOnly
<1>6. BootSectors(e, sz, 4)
  <2>1. \A l : ReservedSector(sz, 4, l) = Formatted(l) /\ ReservedSector(sz, 3, l) = <<>>
        BY DEF ReservedSector
  <2> QED BY <1>1, <1>2, <1>3, <2>1 DEF Layout, BootSectors
<1>7. \A l : l \notin 0 .. g_fat_start - 1 => Sector(e, l) = Sector(d, l)
      BY <1>1, <1>2
<1>8. 3 \in 1 .. 4 /\ 3 + 1 = 4
      OBVIOUS
<1>9. DOMAIN d \subseteq Nat => DOMAIN e \subseteq Nat
  <2>1. \A l \in P : l \in Nat
        BY Geography DEF P
  <2>2. DOMAIN e = DOMAIN d \cup P
        BY DEF e, P, WithBootSectors
  <2> QED BY <2>1, <2>2
<1>10. Layout(e, sz, 4, 0)
      BY <1>5, <1>6, <1>7, <1>8, <1>9, LowWriteKeepsLayout
<1> QED BY <1>10 DEF e

\* CopyIoSys
WithIoSys(d, sz) ==
    IF 2 + Secs(sz, 6) < RSVD_SEC_CNT
    THEN CopyFile(d, PARTITION_START_LBA + 2, "IO.SYS", 0, Secs(sz, 6)) ELSE d

\* IO.SYS in the reserved sectors.
LEMMA IoSysKeepsLayout ==
    ASSUME NEW d, NEW sz \in HostSizes, Layout(d, sz, 4, 0)
    PROVE  Layout(WithIoSys(d, sz), sz, 5, 0)
<1> DEFINE e == WithIoSys(d, sz)
<1>1. PICK n \in Nat : n = Secs(sz, 6)
  <2>1. 6 \in FileSteps
        BY DEF FileSteps
  <2> QED BY <2>1, HostFiles, ClusterCount DEF Secs
<1>2. PARTITION_START_LBA = 2048 /\ RSVD_SEC_CNT = 32 /\ g_fat_start = 2080
      BY Geography
<1>3. ASSUME NEW l
      PROVE  Sector(e, l) = IF IoSysCopied(sz, l)
                            THEN Only([file |-> "IO.SYS", n |-> l - (PARTITION_START_LBA + 2)])
                            ELSE Sector(d, l)
  <2> DEFINE a == PARTITION_START_LBA + 2
  <2>1. a \in Nat /\ a = 2050
        BY <1>2
  <2>2. CASE 2 + n < 32
    <3>1. e = CopyFile(d, a, "IO.SYS", 0, n)
          BY <1>1, <1>2, <2>2 DEF WithIoSys
    <3>2. IoSysCopied(sz, l) <=> l \in a .. a + n - 1
          BY <1>1, <1>2, <2>2 DEF IoSysCopied
    <3>3. l \in a .. a + n - 1 => 0 + (l - a) = l - a
          BY <1>1, <2>1
    <3> HIDE DEF a, e
    <3>4. Sector(e, l) = IF l \in a .. a + n - 1 THEN Only([file |-> "IO.SYS", n |-> 0 + (l - a)])
                         ELSE Sector(d, l)
          BY <2>1, <3>1, SectorCopied
    <3> QED BY <3>2, <3>3, <3>4 DEF a
  <2>3. CASE ~(2 + n < 32)
    <3>1. e = d /\ ~IoSysCopied(sz, l)
          BY <1>1, <1>2, <2>3 DEF WithIoSys, IoSysCopied
    <3> QED BY <3>1
  <2> QED BY <2>2, <2>3
<1>4. \A l : IoSysCopied(sz, l) => l \in 2050 .. 2079
      BY <1>1, <1>2 DEF IoSysCopied
<1>5. KernelOnly(e, sz)
  <2>1. PARTITION_START_LBA + 2 \in Nat
        BY <1>2
  <2>2. KernelOnly(d, sz)
        BY DEF Layout
  <2> QED BY <1>1, <2>1, <2>2, KernelOnlyCopied DEF WithIoSys
<1> HIDE DEF e
<1>6. BootSectors(e, sz, 5)
  <2>1. \A l : ReservedSector(sz, 5, l) = IF IoSysCopied(sz, l)
                  THEN Only([file |-> "IO.SYS", n |-> l - (PARTITION_START_LBA + 2)])
                  ELSE ReservedSector(sz, 4, l)
        BY DEF ReservedSector
  <2>2. Sector(e, 0) = Sector(d, 0)
    <3>1. ~IoSysCopied(sz, 0)
          BY <1>4
    <3> QED BY <1>3, <3>1, Zenon
  <2>3. BootSectors(d, sz, 4)
        BY DEF Layout
  <2>4. \A l \in PARTITION_START_LBA .. g_fat_start - 1 : Sector(e, l) = ReservedSector(sz, 5, l)
        BY <1>3, <2>1, <2>3 DEF BootSectors
  <2> QED BY <2>2, <2>3, <2>4 DEF BootSectors
<1>7. \A l : l \notin 0 .. g_fat_start - 1 => Sector(e, l) = Sector(d, l)
  <2>1. \A l : l \notin 0 .. g_fat_start - 1 => ~IoSysCopied(sz, l)
        BY <1>2, <1>4
  <2> QED BY <1>3, <2>1, Zenon
<1>8. 4 \in 1 .. 4 /\ 4 + 1 = 5
      OBVIOUS
<1>9. DOMAIN d \subseteq Nat => DOMAIN e \subseteq Nat
  <2>1. PARTITION_START_LBA + 2 \in Nat
        BY <1>2
  <2> QED BY <1>1, <2>1 DEF e, WithIoSys, CopyFile
<1>10. Layout(e, sz, 5, 0)
      BY <1>5, <1>6, <1>7, <1>8, <1>9, LowWriteKeepsLayout
<1> QED BY <1>10 DEF e

\* InitFat
MediaEntry == 268435448

\* The first entries of the FATs.
LEMMA FatKeepsLayout ==
    ASSUME NEW d, NEW sz \in HostSizes, Layout(d, sz, 5, 0)
    PROVE  Layout(SetFatEntry(SetFatEntry(SetFatEntry(d, 0, MediaEntry), 1, EndOfChain),
                              ROOT_CLUS, EndOfChain), sz, 6, 0)
<1> DEFINE e1 == SetFatEntry(d, 0, MediaEntry)  e2 == SetFatEntry(e1, 1, EndOfChain)
           e == SetFatEntry(e2, 2, EndOfChain)
<1>1. /\ 0 \in ClusterNos /\ 1 \in ClusterNos /\ 2 \in ClusterNos
      /\ EndOfChain \in Nat /\ EndOfChain <= EndOfChain
      /\ MediaEntry \in Nat /\ MediaEntry <= EndOfChain
  <2>1. /\ EndOfChain \in Nat /\ EndOfChain <= EndOfChain
        /\ MediaEntry \in Nat /\ MediaEntry <= EndOfChain
        BY SMT DEF EndOfChain, MediaEntry
  <2>2. 0 \in ClusterNos /\ 1 \in ClusterNos /\ 2 \in ClusterNos
        BY Geography DEF ClusterNos
  <2> QED BY <2>1, <2>2
<1>2. KernelOnly(e, sz)
  <2>1. KernelOnly(e1, sz)
        BY KernelOnlySet DEF Layout
  <2> HIDE DEF e1
  <2>2. KernelOnly(e2, sz)
        BY <2>1, KernelOnlySet
  <2> HIDE DEF e2
  <2> QED BY <2>2, KernelOnlySet
<1>3. Touches(d, e1, {}, {0}) /\ \A k \in {0, 1} : HasEntry(e1, k, 0, MediaEntry)
      BY <1>1, SetTouches
<1> HIDE DEF e1
<1>4. Touches(e1, e2, {}, {1}) /\ \A k \in {0, 1} : HasEntry(e2, k, 1, EndOfChain)
      BY <1>1, SetTouches
<1> HIDE DEF e2
<1>5. Touches(e2, e, {}, {2}) /\ \A k \in {0, 1} : HasEntry(e, k, 2, EndOfChain)
      BY <1>1, SetTouches
<1> HIDE DEF e
<1> DEFINE T == {}  C == {0, 1, 2}
<1>6. Touches(d, e, T, C)
  <2>1. Touches(d, e2, {} \cup {}, {0} \cup {1})
        BY <1>3, <1>4, TouchesBoth
  <2>2. Touches(d, e, ({} \cup {}) \cup {}, ({0} \cup {1}) \cup {2})
        BY <1>5, <2>1, TouchesBoth
  <2>3. ({} \cup {}) \cup {} = T /\ ({0} \cup {1}) \cup {2} = C
        OBVIOUS
  <2> QED BY <2>2, <2>3
<1>7. FatHeld(e, 6)
  <2>1. Orderly(e)
        BY <1>6 DEF Touches, Layout, FatHeld
  <2>2. \A k \in {0, 1} : HasEntry(e2, k, 0, MediaEntry)
        BY <1>1, <1>3, <1>4 DEF Touches
  <2>3. \A k \in {0, 1} : HasEntry(e, k, 0, MediaEntry) /\ HasEntry(e, k, 1, EndOfChain)
        BY <1>1, <1>4, <1>5, <2>2 DEF Touches
  <2> QED BY <1>1, <1>5, <2>1, <2>3 DEF FatHeld
<1>8. T \in SUBSET DataNos /\ \A c : c \notin T
      OBVIOUS
<1> HIDE DEF T, C
<1>9. DirsHeld(e, sz, 6)
  <2>1. \A j \in DirSteps : ~(j < 6)
        BY DEF DirSteps
  <2>2. ASSUME NEW p \in Directories, Made(p, 6)
        PROVE  DirHolds(e, Home(sz, p), Entries(sz, p), Count(p, 6))
    <3>1. Made(p, 5) /\ Count(p, 5) = Count(p, 6)
          BY <2>2 DEF Made, Count
    <3>2. DirHolds(d, Home(sz, p), Entries(sz, p), Count(p, 5))
          BY <3>1 DEF Layout, DirsHeld
    <3>3. 5 \in 1 .. 12
          OBVIOUS
    <3>4. DirHolds(e, Home(sz, p), Entries(sz, p), Count(p, 5))
          BY <1>6, <1>8, <3>2, <3>3, OneDirKept
    <3> QED BY <3>1, <3>4
  <2> QED BY <2>1, <2>2 DEF DirsHeld
<1>10. BootSectors(e, sz, 6)
  <2>1. 5 \in 5 .. 12 /\ 6 \in 5 .. 12
        OBVIOUS
  <2> QED BY <1>6, <1>8, <2>1, BootSectorsKept DEF Layout
<1>11. FilesHeld(e, sz, 6, 0)
      BY NoFiles
<1>12. Layout(e, sz, 6, 0)
      BY <1>2, <1>7, <1>9, <1>10, <1>11 DEF Layout
<1>13. ROOT_CLUS = 2
      BY DEF ROOT_CLUS
<1> QED BY <1>12, <1>13 DEF e, e1, e2

-----------------------------------------------------------------------------
(* The steps of main()                                                     *)

\* MkInv holds at first,
LEMMA MkInitInv == MkInit => MkInv
<1> SUFFICES ASSUME MkInit PROVE MkInv
    OBVIOUS
<1> USE DEF MkInit
<1>1. Len(clus) = 0 /\ clus \in Seq(Nat)
      OBVIOUS
<1>2. \A p \in Directories : Made(p, 1) => p = "/"
      BY DEF Made
<1>3. next = Begin(size, step) + Len(clus)
      BY <1>1 DEF Begin
<1>4. Counted
  <2>1. "/" \in DOMAIN dirs /\ dirs["/"] = Home(size, "/")
        BY DEF Home, ROOT_CLUS
  <2> QED BY <1>1, <1>2, <1>3, <2>1 DEF Counted, FileSteps
<1>5. Layout(disk, size, step, Len(clus))
      BY <1>1, EmptyLayout
<1> QED BY <1>4, <1>5 DEF MkInv

\* What the guard of an action says about the step.
LEMMA Steps ==
    ASSUME Counted, NEW op, Doing(op)
    PROVE  /\ step \in 1 .. 12 /\ Script[step].op = op
           /\ op = "file" <=> step \in FileSteps
           /\ op = "dir" <=> step \in DirSteps
BY ScriptSteps DEF Counted, Doing

\* A step that is not of a file begins with no cluster written.
LEMMA NoClusters ==
    ASSUME Counted, step \notin FileSteps
    PROVE  clus = <<>> /\ Len(clus) = 0
BY DEF Counted

\* On to the next step, with the next clusters to give away.
LEMMA CountedOn ==
    ASSUME Counted, step \in 1 .. 11, step' = step + 1, size' = size, clus' = <<>>,
           next' = Begin(size, step + 1), status' = status, status # "ok",
           \A p \in Directories : Made(p, step + 1) => p \in DOMAIN dirs' /\ dirs'[p] = Home(size, p)
    PROVE  Counted' /\ Len(clus') = 0
<1>1. clus' \in Seq(Nat) /\ Len(clus') = 0
      OBVIOUS
<1>2. step' \in 1 .. 12
      OBVIOUS
<1>3. 0 <= IF step' \in FileSteps THEN Extent(size, step') ELSE 0
  <2>1. size \in HostSizes
        BY DEF Counted
  <2> QED BY <2>1, HostFiles
<1>4. next' = Begin(size, step') + 0
  <2>1. Begin(size, step + 1) \in Nat
    <3>1. size \in HostSizes /\ step + 1 \in 1 .. 12
          BY DEF Counted
    <3> QED BY <3>1, Begins
  <2> QED BY <2>1
<1> QED BY <1>1, <1>2, <1>3, <1>4 DEF Counted

\* Before the files: the counters stay.
LEMMA CountedEarly ==
    ASSUME Counted, step \in 1 .. 5, Advance, status = "none", UNCHANGED <<size, next, dirs, clus>>
    PROVE  Counted' /\ clus = <<>> /\ Len(clus) = 0 /\ Len(clus') = 0 /\ step' = step + 1
<1>1. clus = <<>> /\ Len(clus) = 0 /\ size \in HostSizes
      BY NoClusters DEF FileSteps, Counted
<1>2. Begin(size, step) = 3 /\ Begin(size, step + 1) = 3
      BY DEF Begin
<1>3. next' = Begin(size, step + 1)
      BY <1>1, <1>2 DEF Counted
<1>4. \A p \in Directories : Made(p, step + 1) => p \in DOMAIN dirs' /\ dirs'[p] = Home(size, p)
      BY DEF Counted, Made
<1> QED BY <1>1, <1>3, <1>4, CountedOn DEF Advance

\* through the steps that store no file,
LEMMA EarlyStep ==
    ASSUME MkInv, \/ ReadHostFiles /\ step' = step + 1
                  \/ WriteMbr \/ Format \/ CopyIoSys \/ InitFat
    PROVE  MkInv'
<1>0. Counted /\ Layout(disk, size, step, Len(clus)) /\ size \in HostSizes
      BY DEF MkInv, Counted
<1>1. CASE ReadHostFiles /\ step' = step + 1
  <2>1. step = 1 /\ status = "none" /\ Advance /\ UNCHANGED <<size, disk, next, dirs, clus>>
        BY <1>0, <1>1, Steps, ScriptSteps DEF ReadHostFiles, Doing, Counted, Advance
  <2>2. Counted' /\ Len(clus) = 0 /\ Len(clus') = 0 /\ step' = step + 1
        BY <1>0, <2>1, CountedEarly
  <2>3. 1 \in 1 .. 4 /\ 1 + 1 = 2
        OBVIOUS
  <2>4. Layout(disk, size, 1, 0)
        BY <1>0, <2>1, <2>2
  <2>5. \A l : ReservedSector(size, 2, l) = ReservedSector(size, 1, l)
        BY DEF ReservedSector
  <2>6. KernelOnly(disk, size) /\ BootSectors(disk, size, 2)
        BY <2>4, <2>5 DEF Layout, BootSectors
  <2>7. Layout(disk, size, 2, 0)
        BY <1>0, <2>3, <2>4, <2>6, LowWriteKeepsLayout
  <2> QED BY <2>1, <2>2, <2>7 DEF MkInv
<1>2. CASE WriteMbr
  <2>1. /\ step = 2 /\ status = "none" /\ Advance /\ UNCHANGED <<size, next, dirs, clus>>
        /\ disk' = Put(disk, 0, 446, Mbr)
        BY <1>0, <1>2, Steps, ScriptSteps DEF WriteMbr, Doing, Counted, Mbr
  <2>2. Counted' /\ Len(clus) = 0 /\ Len(clus') = 0 /\ step' = step + 1
        BY <1>0, <2>1, CountedEarly
  <2>3. Layout(disk', size, 3, 0)
        BY <1>0, <2>1, <2>2, MbrKeepsLayout
  <2> QED BY <2>1, <2>2, <2>3 DEF MkInv
<1>3. CASE Format
  <2>1. /\ step = 3 /\ status = "none" /\ Advance /\ UNCHANGED <<size, next, dirs, clus>>
        /\ disk' = WithBootSectors(disk)
        BY <1>0, <1>3, Steps, ScriptSteps, Zenon DEF Format, Doing, Counted, WithBootSectors
  <2>2. Counted' /\ Len(clus) = 0 /\ Len(clus') = 0 /\ step' = step + 1
        BY <1>0, <2>1, CountedEarly
  <2>3. Layout(disk', size, 4, 0)
        BY <1>0, <2>1, <2>2, FormatKeepsLayout
  <2> QED BY <2>1, <2>2, <2>3 DEF MkInv
<1>4. CASE CopyIoSys
  <2>1. /\ step = 4 /\ status = "none" /\ Advance /\ UNCHANGED <<size, next, dirs, clus>>
        /\ disk' = WithIoSys(disk, size)
        BY <1>0, <1>4, Steps, ScriptSteps, ScriptNames DEF CopyIoSys, Doing, Counted, WithIoSys, Secs
  <2>2. Counted' /\ Len(clus) = 0 /\ Len(clus') = 0 /\ step' = step + 1
        BY <1>0, <2>1, CountedEarly
  <2>3. Layout(disk', size, 5, 0)
        BY <1>0, <2>1, <2>2, IoSysKeepsLayout
  <2> QED BY <2>1, <2>2, <2>3 DEF MkInv
<1>5. CASE InitFat
  <2>1. /\ step = 5 /\ status = "none" /\ Advance /\ UNCHANGED <<size, next, dirs, clus>>
        /\ disk' = SetFatEntry(SetFatEntry(SetFatEntry(disk, 0, MediaEntry), 1, EndOfChain),
                               ROOT_CLUS, EndOfChain)
    <3>1. Doing("fat") /\ UNCHANGED <<size, next, dirs, clus>> /\ Advance
          BY <1>5 DEF InitFat
    <3>2. disk' = SetFatEntry(SetFatEntry(SetFatEntry(disk, 0, MediaEntry), 1, EndOfChain),
                              ROOT_CLUS, EndOfChain)
          BY <1>5, SMT DEF InitFat, MediaEntry
    <3> QED BY <1>0, <3>1, <3>2, Steps, ScriptSteps DEF Doing, Counted
  <2>2. Counted' /\ Len(clus) = 0 /\ Len(clus') = 0 /\ step' = step + 1
        BY <1>0, <2>1, CountedEarly
  <2>3. Layout(disk', size, 6, 0)
        BY <1>0, <2>1, <2>2, FatKeepsLayout
  <2> QED BY <2>1, <2>2, <2>3 DEF MkInv
<1> QED BY <1>1, <1>2, <1>3, <1>4, <1>5

\* with every cluster of a file,
LEMMA WriteClusterStep == MkInv /\ WriteCluster => MkInv'
<1> SUFFICES ASSUME MkInv, WriteCluster PROVE MkInv'
    OBVIOUS
<1> DEFINE m == Len(clus)  a == Begin(size, step)
<1>1. /\ Counted /\ Layout(disk, size, step, m) /\ size \in HostSizes /\ step \in 1 .. 12
      /\ clus \in Seq(Nat) /\ m \in Nat /\ next = a + m
      /\ \A j \in 1 .. m : clus[j] = a + j - 1
      BY DEF MkInv, Counted
<1>2. /\ step \in FileSteps /\ status = "none" /\ UNCHANGED <<size, step, dirs, status>>
      /\ clus' = Append(clus, next) /\ next' = next + 1
      BY <1>1, Steps, Zenon DEF WriteCluster, Doing
<1>3. m < Extent(size, step) /\ Extent(size, step) \in Nat /\ a \in Nat
  <2>1. m < Clusters(Size)
        BY DEF WriteCluster
  <2> QED BY <1>1, <1>2, <2>1, HostFiles, Begins DEF Size, Extent
<1>4. disk' = WithCluster(disk, size, step, m)
  <2>1. disk' = LET new == Allocated(disk, next)
                    linked == IF clus = <<>> THEN new ELSE SetFatEntry(new, clus[m], next)
                    left == CeilDiv(Size, SECTOR_SIZE) - m * SEC_PER_CLUS
                IN  CopyFile(linked, MkClusterToLba(next), Script[step].name, m * SEC_PER_CLUS,
                             IF left < SEC_PER_CLUS THEN left ELSE SEC_PER_CLUS)
        BY Zenon DEF WriteCluster
  <2>2. SEC_PER_CLUS = 4 /\ m * SEC_PER_CLUS = 4 * m
        BY <1>1, Geography
  <2>3. CeilDiv(Size, SECTOR_SIZE) = Secs(size, step)
        BY DEF Size, Secs
  <2>4. LinkedTo(Allocated(disk, next), next, m) =
           IF clus = <<>> THEN Allocated(disk, next)
           ELSE SetFatEntry(Allocated(disk, next), clus[m], next)
    <3>1. CASE clus = <<>>
          BY <3>1 DEF LinkedTo
    <3>2. CASE clus # <<>>
      <4>1. m # 0 /\ clus[m] = next - 1
            BY <1>1, <1>3, <3>2
      <4> HIDE DEF m
      <4> QED BY <3>2, <4>1 DEF LinkedTo
    <3> QED BY <3>1, <3>2
  <2> HIDE DEF m
  <2> QED BY <1>1, <2>1, <2>2, <2>3, <2>4, Zenon DEF WithCluster
<1>5. Len(clus') = m + 1 /\ clus' \in Seq(Nat) /\ \A j \in 1 .. m + 1 : clus'[j] = a + j - 1
      BY <1>1, <1>2, <1>3
<1>6. Layout(disk', size, step, m + 1)
      BY <1>1, <1>2, <1>3, <1>4, ClusterKeepsLayout
<1>7. Counted'
  <2>1. next' = a + (m + 1) /\ m + 1 <= Extent(size, step)
        BY <1>1, <1>2, <1>3
  <2> QED BY <1>1, <1>2, <1>5, <2>1 DEF Counted
<1> QED BY <1>2, <1>5, <1>6, <1>7 DEF MkInv

\* with every file entered in its directory,
LEMMA FinishFileStep == MkInv /\ FinishFile => MkInv'
<1> SUFFICES ASSUME MkInv, FinishFile PROVE MkInv'
    OBVIOUS
<1> DEFINE m == Len(clus)  a == Begin(size, step)  p == Script[step].in
<1>1. /\ Counted /\ Layout(disk, size, step, m) /\ size \in HostSizes /\ step \in 1 .. 12
      /\ clus \in Seq(Nat) /\ m \in Nat /\ next = a + m
      /\ \A j \in 1 .. m : clus[j] = a + j - 1
      /\ \A q \in Directories : Made(q, step) => q \in DOMAIN dirs /\ dirs[q] = Home(size, q)
      BY DEF MkInv, Counted
<1>2. /\ step \in FileSteps /\ status = "none" /\ UNCHANGED <<size, next, dirs, status>>
      /\ clus' = <<>> /\ step' = step + 1
      BY <1>1, Steps, Zenon DEF FinishFile, Doing, Advance
<1>3. /\ step \in 6 .. 11 /\ step \in 1 .. 11 /\ step \notin DirSteps
      BY <1>2 DEF FileSteps, DirSteps
<1>4. /\ m = Extent(size, step) /\ m >= 1 /\ a \in Nat
      /\ Begin(size, step + 1) = a + m
  <2>1. m = Clusters(Size)
        BY DEF FinishFile
  <2>2. m = Extent(size, step)
        BY <1>2, <2>1 DEF Size, Extent
  <2> QED BY <1>1, <1>3, <2>2, Begins
<1>5. clus[m] = a + m - 1 /\ clus[1] = a
      BY <1>1, <1>4
<1>6. dirs[p] = Home(size, p)
      BY <1>1, <1>3, NewEntry
<1>7. disk' = WithEntry(SetFatEntry(disk, a + m - 1, EndOfChain), Home(size, p), Entry(size, step))
  <2>1. disk' = WithEntry(SetFatEntry(disk, clus[m], EndOfChain), dirs[p],
                          [name |-> Script[step].name, first |-> clus[1], size |-> Size])
        BY DEF FinishFile
  <2>2. Entry(size, step) = [name |-> Script[step].name, first |-> a, size |-> Size]
        BY <1>2 DEF Entry, Size
  <2> QED BY <1>5, <1>6, <2>1, <2>2
<1>8. Layout(disk', size, step + 1, 0)
      BY <1>1, <1>2, <1>4, <1>7, FinishKeepsLayout
<1>9. \A q \in Directories : Made(q, step + 1) => q \in DOMAIN dirs' /\ dirs'[q] = Home(size, q)
  <2>1. \A q \in Directories : Made(q, step + 1) => Made(q, step)
    <3>1. Made(p, step)
          BY <1>3, NewEntry
    <3> QED BY <1>3, <3>1, OtherDirectories
  <2> QED BY <1>1, <1>2, <2>1
<1>10. Counted' /\ Len(clus') = 0
  <2>1. next' = Begin(size, step + 1) /\ status # "ok"
        BY <1>1, <1>2, <1>4
  <2> QED BY <1>1, <1>2, <1>3, <1>9, <2>1, CountedOn
<1> QED BY <1>2, <1>8, <1>10 DEF MkInv

\* and with every directory made.
LEMMA CreateDirectoryStep == MkInv /\ CreateDirectory => MkInv'
<1> SUFFICES ASSUME MkInv, CreateDirectory PROVE MkInv'
    OBVIOUS
<1> DEFINE a == Begin(size, step)  p == Script[step].in  q == Script[step].name
           es == Entries(size, q)
<1>1. /\ Counted /\ Layout(disk, size, step, Len(clus)) /\ size \in HostSizes
      /\ step \in 1 .. 12 /\ next = a + Len(clus)
      /\ \A r \in Directories : Made(r, step) => r \in DOMAIN dirs /\ dirs[r] = Home(size, r)
      BY DEF MkInv, Counted
<1>2. /\ step \in DirSteps /\ status = "none" /\ UNCHANGED <<size, clus, status>>
      /\ step' = step + 1 /\ next' = next + 1
      /\ dirs' = [d \in DOMAIN dirs \cup {q} |-> IF d = q THEN next ELSE dirs[d]]
      BY <1>1, Steps, Zenon DEF CreateDirectory, Doing, Advance
<1>3. step \in 6 .. 11 /\ step \in 1 .. 11 /\ step \notin FileSteps
      BY <1>2 DEF FileSteps, DirSteps
<1>4. clus = <<>> /\ Len(clus) = 0 /\ a \in Nat /\ next = a
  <2>1. clus = <<>> /\ Len(clus) = 0
        BY <1>1, <1>3, NoClusters
  <2>2. a \in Nat
        BY <1>1, Begins
  <2> QED BY <1>1, <2>1, <2>2
<1>5. Begin(size, step + 1) = a + 1
  <2>1. Extent(size, step) = 1
        BY <1>3 DEF Extent
  <2> QED BY <1>1, <1>3, <2>1, Begins
<1>6. dirs[p] = Home(size, p) /\ Home(size, q) = a /\ q \in Directories
      BY <1>1, <1>2, <1>3, NewEntry, HomesDiffer, SameDirectory
<1>7. disk' = WithEntry(WithEntry(WithEntry(Allocated(disk, a), Home(size, p),
                Entry(size, step)), a, es[1]), a, es[2])
  <2>1. disk' = WithEntry(WithEntry(WithEntry(Allocated(disk, next), dirs[p],
                  Dot(q, next)), next, Dot(".", next)),
                  next, Dot("..", IF dirs[p] = ROOT_CLUS THEN 0 ELSE dirs[p]))
        BY Zenon DEF CreateDirectory, Dot
  <2>2. Entry(size, step) = Dot(q, a)
        BY <1>3 DEF Entry, Dot
  <2>3. es[1] = Dot(".", a) /\ es[2] = Dot("..", IF Home(size, p) = ROOT_CLUS THEN 0 ELSE Home(size, p))
    <3>1. CASE step = 8
      <4>1. Home(size, p) = ROOT_CLUS /\ q = "EFI"
            BY <3>1, ScriptNames DEF Home, ROOT_CLUS
      <4>2. es[1] = Dot(".", Begin(size, 8)) /\ es[2] = Dot("..", 0)
            BY <4>1 DEF Entries
      <4> QED BY <3>1, <4>1, <4>2
    <3>2. CASE step = 9
      <4>1. q = "BOOT" /\ p = "EFI" /\ Home(size, p) = Begin(size, 8)
            BY <3>2, ScriptNames DEF Home
      <4>2. Begin(size, 8) # ROOT_CLUS
        <5>1. 8 \in 1 .. 12
              OBVIOUS
        <5> QED BY <1>1, <5>1, Begins DEF ROOT_CLUS
      <4>3. es[1] = Dot(".", Begin(size, 9)) /\ es[2] = Dot("..", Begin(size, 8))
            BY <4>1 DEF Entries
      <4> QED BY <3>2, <4>1, <4>2, <4>3
    <3> QED BY <1>2, <3>1, <3>2 DEF DirSteps
  <2> HIDE DEF a, p, q, es
  <2> QED BY <1>4, <1>6, <2>1, <2>2, <2>3
<1>8. Layout(disk', size, step + 1, 0)
      BY <1>1, <1>2, <1>4, <1>7, DirKeepsLayout
<1>9. \A r \in Directories : Made(r, step + 1) => r \in DOMAIN dirs' /\ dirs'[r] = Home(size, r)
  <2> SUFFICES ASSUME NEW r \in Directories, Made(r, step + 1)
               PROVE  r \in DOMAIN dirs' /\ dirs'[r] = Home(size, r)
      OBVIOUS
  <2>1. CASE r = q
        BY <1>2, <1>4, <1>6, <2>1
  <2>2. CASE r # q
    <3>1. Made(r, step)
          BY <1>3, <2>2, NewEntry, OtherDirectories
    <3> QED BY <1>1, <1>2, <2>2, <3>1
  <2> QED BY <2>1, <2>2
<1>10. Counted' /\ Len(clus') = 0
  <2>1. next' = Begin(size, step + 1) /\ status # "ok" /\ clus' = <<>>
        BY <1>2, <1>4, <1>5
  <2> QED BY <1>1, <1>2, <1>3, <1>9, <2>1, CountedOn
<1> QED BY <1>2, <1>8, <1>10 DEF MkInv

\* What main() has written when it is done is what it has to write: see Layout.
LEMMA MkStep == MkInv /\ [MkNext]_mkvars => MkInv'
<1> SUFFICES ASSUME MkInv, [MkNext]_mkvars PROVE MkInv'
    OBVIOUS
<1>1. CASE UNCHANGED mkvars
      BY <1>1 DEF mkvars, MkInv, Counted
<1>2. CASE ReadHostFiles
  <2>1. CASE step' = step + 1
        BY <1>2, <2>1, EarlyStep
  <2>2. CASE step' # step + 1
    <3>1. status' = "failed" /\ UNCHANGED <<size, disk, step, next, dirs, clus>>
          BY <1>2, <2>2 DEF ReadHostFiles, Advance
    <3> QED BY <3>1 DEF MkInv, Counted
  <2> QED BY <2>1, <2>2
<1>3. CASE WriteMbr \/ Format \/ CopyIoSys \/ InitFat
      BY <1>3, EarlyStep
<1>4. CASE WriteCluster \/ FinishFile \/ CreateDirectory
      BY <1>4, WriteClusterStep, FinishFileStep, CreateDirectoryStep
<1>5. CASE WriteImage
  <2>1. UNCHANGED <<size, disk, step, next, dirs, clus>> /\ Doing("write")
        BY <1>5 DEF WriteImage
  <2>2. step = 12
        BY <2>1, Steps, ScriptSteps DEF MkInv
  <2> QED BY <2>1, <2>2 DEF MkInv, Counted
<1> QED BY <1>1, <1>2, <1>3, <1>4, <1>5 DEF MkNext

-----------------------------------------------------------------------------
(* The finished image, as a reader computes its geometry                   *)

\* The disk when the image is written.
LEMMA Finished ==
    ASSUME MkInv, ImageWritten
    PROVE  size \in HostSizes /\ Layout(disk, size, 12, 0)
<1>1. step = 12 /\ Len(clus) <= 0 /\ Len(clus) \in Nat
      BY DEF MkInv, Counted, ImageWritten, FileSteps
<1>2. Len(clus) = 0
      BY <1>1
<1> QED BY <1>1, <1>2 DEF MkInv, Counted

\* A sector that holds something was written.
LEMMA SectorThere ==
    ASSUME NEW d, NEW l, NEW o \in DOMAIN Sector(d, l)
    PROVE  l \in DOMAIN d /\ d[l] = Sector(d, l)
<1>1. CASE l \notin DOMAIN d
  <2>1. Sector(d, l) = <<>>
        BY <1>1 DEF Sector
  <2> QED BY <2>1
<1>2. CASE l \in DOMAIN d
      BY <1>2 DEF Sector
<1> QED BY <1>1, <1>2

\* What a sector that holds one thing holds.
LEMMA OnlyOne == ASSUME NEW x PROVE DOMAIN Only(x) = {0} /\ Only(x)[0] = x
BY DEF Only

\* IO.SYS is in the reserved sectors it was copied to, the others are as
\* formatted.
LEMMA ReservedAt ==
    ASSUME MkInv, ImageWritten, NEW l \in PARTITION_START_LBA .. g_fat_start - 1
    PROVE  /\ IoSysCopied(size, l) =>
                 Sector(disk, l) = Only([file |-> "IO.SYS", n |-> l - (PARTITION_START_LBA + 2)])
           /\ ~IoSysCopied(size, l) => Sector(disk, l) = Formatted(l)
<1>1. Sector(disk, l) = ReservedSector(size, 12, l)
      BY Finished, Zenon DEF Layout, BootSectors
<1>2. ~(12 <= 3) /\ 12 > 4
      OBVIOUS
<1> QED BY <1>1, <1>2, Zenon DEF ReservedSector

\* The image has one partition, and a boot sector at its start.
LEMMA ImageBootSector ==
    ASSUME MkInv, ImageWritten
    PROVE  /\ disk[0][446].start = PARTITION_START_LBA
           /\ disk[PARTITION_START_LBA] = Only(Bpb) /\ BootSector = Bpb
           /\ Sector(disk, PARTITION_START_LBA) = Only(Bpb)
<1>1. BootSectors(disk, size, 12)
      BY Finished DEF Layout
<1>2. 446 \in DOMAIN Sector(disk, 0) /\ Sector(disk, 0)[446] = Mbr
      BY <1>1 DEF BootSectors
<1>3. disk[0][446] = Mbr
      BY <1>2, SectorThere
<1>4. PARTITION_START_LBA \in PARTITION_START_LBA .. g_fat_start - 1
      BY Geography
<1>5. ~IoSysCopied(size, PARTITION_START_LBA)
      BY Geography DEF IoSysCopied
<1>6. Sector(disk, PARTITION_START_LBA) = Only(Bpb)
  <2>1. Sector(disk, PARTITION_START_LBA) = Formatted(PARTITION_START_LBA)
        BY <1>4, <1>5, ReservedAt
  <2>2. PARTITION_START_LBA \in {PARTITION_START_LBA, PARTITION_START_LBA + 6}
        OBVIOUS
  <2> QED BY <2>1, <2>2, Zenon DEF Formatted
<1>7. disk[PARTITION_START_LBA] = Only(Bpb)
  <2>1. 0 \in DOMAIN Sector(disk, PARTITION_START_LBA)
        BY <1>6, OnlyOne
  <2> QED BY <1>6, <2>1, SectorThere
<1> QED BY <1>3, <1>6, <1>7, OnlyOne DEF Mbr, BootSector

ImageFs == FatInit(Bpb, PARTITION_START_LBA)

\* fat_init() computes the geometry that mkdisk used.
LEMMA ImageGeometry ==
    /\ ImageFs.part_lba = PARTITION_START_LBA /\ ImageFs.rsvd_sec_cnt = RSVD_SEC_CNT
    /\ ImageFs.sec_per_clus = 4 /\ ImageFs.data_sec = g_data_start
    /\ ImageFs.fat_type = 32 /\ ImageFs.root_clus = 2
    /\ \A c : ClusterToLba(ImageFs, c) = MkClusterToLba(c)
    /\ EntrySize(ImageFs) = 4 /\ EndMark(ImageFs) = 268435448
<1>1. /\ PARTITION_START_LBA = 2048 /\ RSVD_SEC_CNT = 32 /\ SEC_PER_CLUS = 4
      /\ PARTITION_SECTORS = 522240 /\ g_fat_start = 2080
      /\ NUM_FATS = 2 /\ ROOT_CLUS = 2
      BY Geography DEF NUM_FATS, ROOT_CLUS
<1>2. PICK g \in Nat, dc \in Nat :
         /\ g = g_fat_size /\ g <= 65276 /\ g_data_start = 2080 + 2 * g
         /\ dc = DataClusters /\ dc >= 65525
      BY FatExtent, Geography
<1>3. /\ Bpb.sec_per_clus = 4 /\ Bpb.rsvd_sec_cnt = 32 /\ Bpb.num_fats = 2
      /\ Bpb.root_ent_cnt = 0 /\ Bpb.root_clus = 2
      /\ FatSize(Bpb) = g /\ TotalSectors(Bpb) = 522240
      BY <1>1, <1>2 DEF Bpb, FatSize, TotalSectors
<1>4. RootDirSectors(0) = 0
  <2>1. PICK ss \in Nat \ {0} : ss = SECTOR_SIZE /\ 0 * DIR_ENTRY_SIZE + ss - 1 = ss - 1
        BY SectorSizes, EntriesFit
  <2>2. PICK q \in Nat, r \in Nat : (ss - 1) \div ss = q /\ q * ss + r = ss - 1
    <3>1. ss - 1 \in Nat
          OBVIOUS
    <3> QED BY <3>1, Division, Zenon
  <2>3. q = 0
    <3> SUFFICES ASSUME q >= 1 PROVE FALSE
        OBVIOUS
    <3>1. q * ss >= ss
          OBVIOUS
    <3> QED BY <2>2, <3>1
  <2> QED BY <2>1, <2>2, <2>3 DEF RootDirSectors
<1>5. (522240 - ((2048 + 32 + 2 * g) - 2048 + 0)) \div 4 = dc
  <2>1. DataClusters = (522240 - 32 - 2 * g) \div 4
        BY <1>1, <1>2 DEF DataClusters
  <2>2. 522240 - ((2048 + 32 + 2 * g) - 2048 + 0) = 522240 - 32 - 2 * g
        BY ONLY g \in Nat, SMT
  <2> QED BY <1>2, <2>1, <2>2
<1>6. FatType(dc) = 32
      BY <1>2 DEF FatType
<1>7. 2048 + 32 + 2 * g = 2080 + 2 * g /\ 2080 + 2 * g + 0 = 2080 + 2 * g
      BY ONLY g \in Nat, SMT
<1>8. /\ ImageFs.part_lba = 2048 /\ ImageFs.rsvd_sec_cnt = 32 /\ ImageFs.sec_per_clus = 4
      /\ ImageFs.data_sec = 2080 + 2 * g /\ ImageFs.fat_type = 32 /\ ImageFs.root_clus = 2
      BY <1>1, <1>3, <1>4, <1>5, <1>6, <1>7 DEF ImageFs, FatInit
<1>9. \A c : ClusterToLba(ImageFs, c) = MkClusterToLba(c)
      BY <1>1, <1>2, <1>8 DEF ClusterToLba, MkClusterToLba
<1>10. EntrySize(ImageFs) = 4 /\ EndMark(ImageFs) = 268435448
      BY <1>8 DEF EntrySize, EndMark
<1> QED BY <1>1, <1>2, <1>8, <1>9, <1>10

-----------------------------------------------------------------------------
(* IO.SYS                                                                  *)

\* The least element is the one Min chooses.
LEMMA LeastIsMin ==
    ASSUME NEW S, NEW m \in S, \A y \in S : y \in Nat /\ m <= y
    PROVE  Min(S) = m
<1>1. \A x \in S : (\A y \in S : x <= y) => x = m
      OBVIOUS
<1>2. \E x \in S : \A y \in S : x <= y
      OBVIOUS
<1> QED BY <1>1, <1>2, Zenon DEF Min

\* Every sector of a file is in its place.
LEMMA FileStored ==
    ASSUME MkInv, ImageWritten, NEW i \in FileSteps
    PROVE  /\ Secs(size, i) \in Nat /\ size[Script[i].name] \in Nat
           /\ Secs(size, i) <= 4 * Extent(size, i)
           /\ \A t \in 0 .. Secs(size, i) - 1 :
                 Holds(MkClusterToLba(Begin(size, i)) + t, Script[i].name, t)
           /\ \A j \in 0 .. Extent(size, i) - 1, k \in {0, 1} :
                 HasEntry(disk, k, Begin(size, i) + j,
                          IF j = Extent(size, i) - 1 THEN EndOfChain ELSE Begin(size, i) + j + 1)
<1>1. size[Script[i].name] \in Nat
      BY Finished, HostFiles
<1>2. Secs(size, i) \in Nat /\ Secs(size, i) <= 4 * Extent(size, i)
      BY <1>1, ClusterCount DEF Secs, Extent
<1>3. Written(size, i, 12, 0) = Extent(size, i)
      BY DEF Written, FileSteps
<1>4. FileHolds(disk, Script[i].name, Begin(size, i), Extent(size, i), Secs(size, i))
      BY <1>3, Finished DEF Layout, FilesHeld
<1>5. \A t \in 0 .. Secs(size, i) - 1 :
         Sector(disk, MkClusterToLba(Begin(size, i)) + t) = Only([file |-> Script[i].name, n |-> t])
  <2> SUFFICES ASSUME NEW t \in 0 .. Secs(size, i) - 1
               PROVE  Sector(disk, MkClusterToLba(Begin(size, i)) + t)
                         = Only([file |-> Script[i].name, n |-> t])
      OBVIOUS
  <2>1. t < 4 * Extent(size, i)
    <3>1. Extent(size, i) \in Nat
          BY Finished, HostFiles
    <3> QED BY <1>2, <3>1
  <2> QED BY <1>4, <2>1, Zenon DEF FileHolds
<1>6. \A j \in 0 .. Extent(size, i) - 1, k \in {0, 1} :
         HasEntry(disk, k, Begin(size, i) + j,
                  IF j = Extent(size, i) - 1 THEN EndOfChain ELSE Begin(size, i) + j + 1)
      BY <1>4, Zenon DEF FileHolds
<1> QED BY <1>1, <1>2, <1>5, <1>6, Zenon DEF Holds

\* What stands in no file and in no VBR as it was assembled: FSInfo, the boot
\* sector the program writes, a FAT entry, a directory entry.
Unmarked(x) ==
    "file" \notin DOMAIN x /\ ("oem_name" \in DOMAIN x => x.oem_name # "gemiboot")

\* It does not pass for the start of IO.SYS.
LEMMA NothingMarked ==
    /\ Unmarked([fsinfo |-> TRUE]) /\ Unmarked(Bpb)
    /\ \A x : DOMAIN x = {"fat"} => Unmarked(x)
    /\ \A sz, i : Unmarked(Entry(sz, i))
<1>1. Unmarked([fsinfo |-> TRUE])
      BY DEF Unmarked
<1>2. Unmarked(Bpb)
      BY DEF Unmarked, Bpb
<1>3. \A x : DOMAIN x = {"fat"} => Unmarked(x)
      BY DEF Unmarked
<1>4. \A sz, i : Unmarked(Entry(sz, i))
      BY DEF Unmarked, Entry
<1> QED BY <1>1, <1>2, <1>3, <1>4

\* The entries of the root directory are unmarked.
LEMMA RootEntriesUnmarked ==
    ASSUME NEW sz, NEW k \in 0 .. 2
    PROVE  Unmarked(Entries(sz, "/")[k + 1])
<1>1. k = 0 \/ k = 1 \/ k = 2
      OBVIOUS
<1>2. Entries(sz, "/") = <<Entry(sz, 6), Entry(sz, 7), Entry(sz, 8)>>
      BY DEF Entries
<1> HIDE DEF Entries
<1> QED BY <1>1, <1>2, NothingMarked

\* A sector bears marks by what stands at its start.
LEMMA MarksAtStart ==
    ASSUME NEW l, MayBearMarks(l)
    PROVE  /\ l \in DOMAIN disk /\ 0 \in DOMAIN Sector(disk, l)
           /\ ~Unmarked(Sector(disk, l)[0])
<1>1. 0 \in DOMAIN Sector(disk, l)
      BY DEF MayBearMarks
<1>2. l \in DOMAIN disk /\ disk[l] = Sector(disk, l)
      BY <1>1, SectorThere
<1> QED BY <1>1, <1>2 DEF MayBearMarks, Unmarked

\* Without IO.SYS in the reserved sectors nothing before the file's own
\* clusters passes for its first sector.
LEMMA NothingBeforeIoSys ==
    ASSUME MkInv, ImageWritten, ~(2 + Secs(size, 6) < RSVD_SEC_CNT),
           NEW l \in Nat, l >= PARTITION_START_LBA + 2, l < MkClusterToLba(3)
    PROVE  ~MayBearMarks(l)
<1>1. MkClusterToLba(3) = g_data_start + 4 /\ MkClusterToLba(2) = g_data_start
      BY Geography DEF MkClusterToLba
<1>2. \/ l \in PARTITION_START_LBA .. g_fat_start - 1
      \/ l \in FatArea
      \/ l \in SectorsOf(2)
      BY <1>1, Geography DEF FatArea, SectorsOf
<1> SUFFICES ASSUME MayBearMarks(l) PROVE FALSE
    OBVIOUS
<1>3. 0 \in DOMAIN Sector(disk, l) /\ ~Unmarked(Sector(disk, l)[0])
      BY MarksAtStart
<1>4. CASE l \in PARTITION_START_LBA .. g_fat_start - 1
  <2>1. Sector(disk, l) = Formatted(l)
        BY <1>4, ReservedAt DEF IoSysCopied
  <2>2. Formatted(l) \in {Only(Bpb), Only([fsinfo |-> TRUE]), <<>>}
        BY Zenon DEF Formatted
  <2>3. DOMAIN <<>> = {}
        OBVIOUS
  <2> QED BY <1>3, <2>1, <2>2, <2>3, OnlyOne, NothingMarked
<1>5. CASE l \in FatArea
  <2>1. DOMAIN Sector(disk, l)[0] = {"fat"}
        BY <1>3, <1>5, Finished DEF Layout, FatHeld, Orderly
  <2> QED BY <1>3, <2>1, NothingMarked
<1>6. CASE l \in SectorsOf(2)
  <2>1. DirHolds(disk, 2, Entries(size, "/"), 3)
    <3>1. Made("/", 12) /\ Count("/", 12) = 3 /\ Home(size, "/") = 2 /\ "/" \in Directories
          BY DEF Made, Count, Home, Directories
    <3> QED BY <3>1, Finished DEF Layout, DirsHeld
  <2>2. PICK k \in 0 .. 2 : l = SlotLba(2, k) /\ 0 = SlotOff(k)
    <3>1. \E k \in 0 .. 3 - 1 : l = SlotLba(2, k) /\ 0 = SlotOff(k)
          BY <1>3, <1>6, <2>1, Zenon DEF DirHolds
    <3> QED BY <3>1
  <2>3. Sector(disk, l)[0] = Entries(size, "/")[k + 1]
    <3>1. k \in 0 .. 3 - 1
          OBVIOUS
    <3>2. Sector(disk, SlotLba(2, k))[SlotOff(k)] = Entries(size, "/")[k + 1]
          BY <2>1, <3>1, Zenon DEF DirHolds
    <3> QED BY <2>2, <3>2
  <2> QED BY <1>3, <2>3, RootEntriesUnmarked
<1> QED BY <1>2, <1>4, <1>5, <1>6

\* The first sector that may pass for the start of IO.SYS is it.
LEMMA IoSysVerdict == MkInv => IoSysWhereVbrLooks
<1> DEFINE marked == {l \in DOMAIN disk : l >= PARTITION_START_LBA + 2 /\ MayBearMarks(l)}
<1> SUFFICES ASSUME MkInv, ImageWritten
             PROVE  /\ marked # {}
                    /\ \A n \in 0 .. CeilDiv(size["IO.SYS"], SECTOR_SIZE) - 1 :
                          Holds(Min(marked) + n, "IO.SYS", n)
    BY DEF IoSysWhereVbrLooks
<1>1. PICK secs \in Nat : /\ secs = CeilDiv(size["IO.SYS"], SECTOR_SIZE) /\ secs = Secs(size, 6)
                          /\ secs >= 1
  <2>1. size["IO.SYS"] \in Nat /\ size["IO.SYS"] > 0
        BY Finished, HostFiles, ScriptNames DEF FileSteps
  <2>2. CeilDiv(size["IO.SYS"], SECTOR_SIZE) \in Nat /\ Clusters(size["IO.SYS"]) >= 1
        /\ 4 * (Clusters(size["IO.SYS"]) - 1) < CeilDiv(size["IO.SYS"], SECTOR_SIZE)
        /\ Clusters(size["IO.SYS"]) \in Nat
        BY <2>1, ClusterCount
  <2> QED BY <2>2, ScriptNames DEF Secs
<1>2. DOMAIN disk \subseteq Nat
      BY Finished DEF Layout, FatHeld, Orderly
<1>3. ASSUME NEW m \in Nat, m >= PARTITION_START_LBA + 2,
             \A n \in 0 .. secs - 1 : Holds(m + n, "IO.SYS", n),
             \A l \in marked : m <= l
      PROVE  marked # {} /\ \A n \in 0 .. secs - 1 : Holds(Min(marked) + n, "IO.SYS", n)
  <2>1. Holds(m, "IO.SYS", 0)
    <3>1. 0 \in 0 .. secs - 1 /\ m + 0 = m
          BY <1>1
    <3> QED BY <1>3, <3>1
  <2>2. m \in DOMAIN disk
    <3>1. 0 \in DOMAIN Sector(disk, m)
          BY <2>1, OnlyOne DEF Holds
    <3> QED BY <3>1, SectorThere
  <2>3. m \in marked
    <3>1. 0 \in DOMAIN Sector(disk, m) /\ disk[m] = Sector(disk, m)
          /\ disk[m][0] = [file |-> "IO.SYS", n |-> 0]
          BY <2>1, <2>2, OnlyOne DEF Holds, Sector
    <3>2. MayBearMarks(m)
          BY <3>1 DEF MayBearMarks
    <3> QED BY <1>3, <2>2, <3>2
  <2>4. Min(marked) = m
    <3>1. \A y \in marked : y \in Nat /\ m <= y
          BY <1>2, <1>3
    <3> HIDE DEF marked
    <3> QED BY <2>3, <3>1, LeastIsMin
  <2> QED BY <1>3, <2>3, <2>4
<1>4. CASE 2 + secs < 32
  <2>1. PICK m \in Nat : m = PARTITION_START_LBA + 2
        BY Geography
  <2>2. ASSUME NEW n \in 0 .. secs - 1
        PROVE  Holds(m + n, "IO.SYS", n)
    <3>1. m + n \in PARTITION_START_LBA .. g_fat_start - 1 /\ IoSysCopied(size, m + n)
          BY <1>1, <1>4, <2>1, Geography DEF IoSysCopied
    <3>2. (m + n) - m = n
          OBVIOUS
    <3> QED BY <2>1, <3>1, <3>2, ReservedAt DEF Holds
  <2>3. \A l \in marked : m <= l
        BY <1>2, <2>1
  <2> QED BY <1>1, <1>3, <2>1, <2>2, <2>3
<1>5. CASE ~(2 + secs < 32)
  <2>1. PICK m \in Nat : m = MkClusterToLba(3) /\ m >= PARTITION_START_LBA + 2
        BY Geography, FatExtent DEF MkClusterToLba
  <2>2. \A n \in 0 .. secs - 1 : Holds(m + n, "IO.SYS", n)
    <3>1. 6 \in FileSteps /\ Begin(size, 6) = 3 /\ Script[6].name = "IO.SYS"
          BY ScriptNames DEF FileSteps, Begin
    <3>2. \A n \in 0 .. Secs(size, 6) - 1 : Holds(MkClusterToLba(Begin(size, 6)) + n, Script[6].name, n)
          BY <3>1, FileStored
    <3> QED BY <1>1, <2>1, <3>1, <3>2
  <2>3. \A l \in marked : m <= l
    <3> SUFFICES ASSUME NEW l \in marked, l < m PROVE FALSE
        BY <1>2, <2>1
    <3>1. l \in Nat /\ l >= PARTITION_START_LBA + 2 /\ MayBearMarks(l)
          BY <1>2
    <3>2. ~(2 + Secs(size, 6) < RSVD_SEC_CNT)
          BY <1>1, <1>5, Geography
    <3> QED BY <2>1, <3>1, <3>2, NothingBeforeIoSys
  <2> QED BY <1>1, <1>3, <2>1, <2>2, <2>3
<1> QED BY <1>1, <1>4, <1>5

-----------------------------------------------------------------------------
(* What is found under a name                                              *)

\* The directories of the image have all their entries.
LEMMA DirectoryInImage ==
    ASSUME MkInv, ImageWritten, NEW p \in Directories
    PROVE  /\ DirHolds(disk, Home(size, p), Entries(size, p), Count(p, 12))
           /\ Home(size, p) \in DataNos /\ Count(p, 12) \in {3, 4}
<1>1. Made(p, 12) /\ Count(p, 12) \in {3, 4}
      BY DEF Made, Count, Directories
<1>2. DirHolds(disk, Home(size, p), Entries(size, p), Count(p, 12))
      BY <1>1, Finished DEF Layout, DirsHeld
<1> QED BY <1>1, <1>2, Finished, HomesDiffer

\* The entries of a name are those that mkdisk put in the directory.
LEMMA NamedEntries ==
    ASSUME MkInv, ImageWritten, NEW p \in Directories, NEW name, NEW e
    PROVE  e \in EntriesNamed(Home(size, p), name) <=>
              \E k \in 0 .. Count(p, 12) - 1 :
                 /\ e = Entries(size, p)[k + 1]
                 /\ "name" \in DOMAIN e /\ e.name = name
<1> DEFINE c == Home(size, p)  es == Entries(size, p)
<1>1. PICK n \in {3, 4} : n = Count(p, 12)
      BY DirectoryInImage
<1>2. DirHolds(disk, c, es, n) /\ c \in DataNos
      BY <1>1, DirectoryInImage
<1>3. DataLba(c) .. DataLba(c) + SEC_PER_CLUS - 1 = SectorsOf(c)
      BY ImageBootSector, ImageGeometry DEF DataLba, SectorsOf, ImageFs
<1>4. ASSUME NEW k \in 0 .. n - 1
      PROVE  /\ SlotLba(c, k) \in DOMAIN disk \cap SectorsOf(c)
             /\ SlotOff(k) \in DOMAIN disk[SlotLba(c, k)]
             /\ disk[SlotLba(c, k)][SlotOff(k)] = es[k + 1]
  <2>1. k \in Nat /\ k < 4 * EntriesPerSector
        BY EntriesFit
  <2>2. SlotLba(c, k) \in SectorsOf(c)
        BY <1>2, <2>1, SlotPlace
  <2>3. /\ SlotOff(k) \in DOMAIN Sector(disk, SlotLba(c, k))
        /\ Sector(disk, SlotLba(c, k))[SlotOff(k)] = es[k + 1]
        BY <1>2, Zenon DEF DirHolds
  <2>4. SlotLba(c, k) \in DOMAIN disk /\ disk[SlotLba(c, k)] = Sector(disk, SlotLba(c, k))
        BY <2>3, SectorThere
  <2> QED BY <2>2, <2>3, <2>4
<1> HIDE DEF c, es
<1>5. e \in EntriesNamed(c, name) <=>
         /\ \E l \in DOMAIN disk \cap SectorsOf(c) : \E o \in DOMAIN disk[l] : e = disk[l][o]
         /\ "name" \in DOMAIN e /\ e.name = name
  <2>1. EntriesNamed(c, name) =
           {x \in UNION {{disk[l][off] : off \in DOMAIN disk[l]} : l \in DOMAIN disk \cap SectorsOf(c)} :
              "name" \in DOMAIN x /\ x.name = name}
        BY <1>3, Zenon DEF EntriesNamed, c
  <2> DEFINE all == UNION {{disk[l][off] : off \in DOMAIN disk[l]} : l \in DOMAIN disk \cap SectorsOf(c)}
  <2>2. e \in all <=> \E l \in DOMAIN disk \cap SectorsOf(c) : \E o \in DOMAIN disk[l] : e = disk[l][o]
        OBVIOUS
  <2>3. EntriesNamed(c, name) = {x \in all : "name" \in DOMAIN x /\ x.name = name}
        BY <2>1
  <2> HIDE DEF all
  <2> QED BY <2>2, <2>3
<1>6. (\E l \in DOMAIN disk \cap SectorsOf(c) : \E o \in DOMAIN disk[l] : e = disk[l][o])
         <=> \E k \in 0 .. n - 1 : e = es[k + 1]
  <2>1. ASSUME NEW l \in DOMAIN disk \cap SectorsOf(c), NEW o \in DOMAIN disk[l], e = disk[l][o]
        PROVE  \E k \in 0 .. n - 1 : e = es[k + 1]
    <3>1. Sector(disk, l) = disk[l]
          BY <2>1 DEF Sector
    <3>2. PICK k \in 0 .. n - 1 : l = SlotLba(c, k) /\ o = SlotOff(k)
          BY <1>2, <2>1, <3>1, Zenon DEF DirHolds
    <3>3. disk[l][o] = es[k + 1]
          BY <1>4, <3>2 DEF c, es
    <3> QED BY <2>1, <3>3
  <2>2. ASSUME NEW k \in 0 .. n - 1, e = es[k + 1]
        PROVE  \E l \in DOMAIN disk \cap SectorsOf(c) : \E o \in DOMAIN disk[l] : e = disk[l][o]
        BY <1>4, <2>2, Zenon DEF c, es
  <2> QED BY <2>1, <2>2, Zenon
<1> QED BY <1>1, <1>5, <1>6, Zenon DEF c, es

\* What an entry says.
LEMMA EntryFields ==
    ASSUME NEW sz, NEW i
    PROVE  /\ "name" \in DOMAIN Entry(sz, i) /\ Entry(sz, i).name = Script[i].name
           /\ Entry(sz, i).first = Begin(sz, i)
           /\ i \in FileSteps => Entry(sz, i).size = sz[Script[i].name]
BY DEF Entry

\* A name is there once.
LEMMA EntryInImage ==
    ASSUME MkInv, ImageWritten, NEW i \in 6 .. 11
    PROVE  EntriesNamed(Home(size, Script[i].in), Script[i].name) = {Entry(size, i)}
<1>1. i \in {6, 7, 8, 9, 10, 11}
      OBVIOUS
<1> DEFINE p == Script[i].in  nm == Script[i].name
<1>2. p \in Directories
      BY <1>1, ScriptNames DEF Directories
<1>3. PICK n \in {3, 4} : n = Count(p, 12)
      BY <1>2, DirectoryInImage
<1>4. \E k \in 0 .. n - 1 : Entries(size, p)[k + 1] = Entry(size, i)
  <2>1. Count(p, i) \in 0 .. n - 1
        BY <1>1, <1>3, ScriptNames DEF Count
  <2> QED BY <2>1, NewEntry
<1>5. ASSUME NEW k \in 0 .. n - 1, "name" \in DOMAIN Entries(size, p)[k + 1],
             Entries(size, p)[k + 1].name = nm
      PROVE  Entries(size, p)[k + 1] = Entry(size, i)
  <2>1. k \in {0, 1, 2, 3} /\ (n = 3 => k \in {0, 1, 2})
        OBVIOUS
  <2>2. CASE p = "/"
    <3>1. Entries(size, p) = <<Entry(size, 6), Entry(size, 7), Entry(size, 8)>> /\ n = 3
          BY <1>3, <2>2 DEF Entries, Count
    <3>2. i \in {6, 7, 8}
          BY <1>1, <2>2, ScriptNames
    <3>3. \E j \in {6, 7, 8} : Entries(size, p)[k + 1] = Entry(size, j)
          BY <2>1, <3>1
    <3>4. \A j \in {6, 7, 8} : Script[j].name = nm => j = i
          BY <3>2, ScriptNames
    <3> HIDE DEF p, nm
    <3> QED BY <1>5, <3>3, <3>4, EntryFields
  <2>3. CASE p = "EFI"
    <3>1. Entries(size, p) = <<Dot(".", Begin(size, 8)), Dot("..", 0), Entry(size, 9)>> /\ n = 3
          BY <1>3, <2>3 DEF Entries, Count
    <3>2. i = 9 /\ nm = "BOOT"
          BY <1>1, <2>3, ScriptNames
    <3>3. Dot(".", Begin(size, 8)).name # "BOOT" /\ Dot("..", 0).name # "BOOT"
          BY DEF Dot
    <3> HIDE DEF p, nm
    <3> QED BY <1>3, <1>5, <2>1, <3>1, <3>2, <3>3
  <2>4. CASE p = "BOOT"
    <3>1. Entries(size, p) = <<Dot(".", Begin(size, 9)), Dot("..", Begin(size, 8)),
                               Entry(size, 10), Entry(size, 11)>>
          BY <2>4 DEF Entries
    <3>2. i \in {10, 11} /\ nm \in {"BOOTIA32.EFI", "BOOTX64.EFI"}
          BY <1>1, <2>4, ScriptNames
    <3>3. /\ Dot(".", Begin(size, 9)).name = "." /\ Dot("..", Begin(size, 8)).name = ".."
          BY DEF Dot
    <3>4. \A j \in {10, 11} : Script[j].name = nm => j = i
          BY <3>2, ScriptNames
    <3>5. k + 1 \in {1, 2, 3, 4}
          BY <2>1
    <3> HIDE DEF p, nm
    <3>6. k + 1 = 1 \/ k + 1 = 2 => FALSE
          BY <1>5, <3>1, <3>2, <3>3
    <3>7. \E j \in {10, 11} : Entries(size, p)[k + 1] = Entry(size, j)
          BY <3>1, <3>5, <3>6
    <3> QED BY <1>5, <3>4, <3>7, EntryFields
  <2> QED BY <1>2, <2>2, <2>3, <2>4 DEF Directories
<1>6. ASSUME NEW e
      PROVE  e \in EntriesNamed(Home(size, p), nm) <=> e = Entry(size, i)
  <2>1. e \in EntriesNamed(Home(size, p), nm) <=>
           \E k \in 0 .. n - 1 : /\ e = Entries(size, p)[k + 1]
                                 /\ "name" \in DOMAIN e /\ e.name = nm
        BY <1>2, <1>3, NamedEntries
  <2>2. "name" \in DOMAIN Entry(size, i) /\ Entry(size, i).name = nm
        BY EntryFields
  <2> HIDE DEF p, nm
  <2> QED BY <1>4, <1>5, <2>1, <2>2, Zenon
<1> QED BY <1>6, Zenon

\* A path leads to the directory.
LEMMA PathInImage ==
    ASSUME MkInv, ImageWritten, NEW p \in Directories
    PROVE  DirOf(p) = Home(size, p)
<1>1. BootSector.root_clus = 2
      BY ImageBootSector DEF Bpb, ROOT_CLUS
<1>2. ASSUME NEW c, NEW name, NEW i, EntriesNamed(c, name) = {Entry(size, i)}
      PROVE  SubDir(c, name) = Begin(size, i)
  <2>1. (CHOOSE e \in {Entry(size, i)} : TRUE) = Entry(size, i)
        OBVIOUS
  <2> QED BY <1>2, <2>1, EntryFields DEF SubDir
<1>3. SubDir(2, "EFI") = Begin(size, 8)
  <2>1. EntriesNamed(Home(size, Script[8].in), Script[8].name) = {Entry(size, 8)}
        BY EntryInImage
  <2>2. EntriesNamed(2, "EFI") = {Entry(size, 8)}
        BY <2>1, ScriptNames DEF Home
  <2> QED BY <1>2, <2>2
<1>4. SubDir(Begin(size, 8), "BOOT") = Begin(size, 9)
  <2>1. EntriesNamed(Home(size, Script[9].in), Script[9].name) = {Entry(size, 9)}
        BY EntryInImage
  <2>2. EntriesNamed(Begin(size, 8), "BOOT") = {Entry(size, 9)}
        BY <2>1, ScriptNames DEF Home
  <2> QED BY <1>2, <2>2
<1> QED BY <1>1, <1>3, <1>4 DEF DirOf, Home, Directories

-----------------------------------------------------------------------------
(* Chains                                                                  *)

\* What a reader finds in the FATs is what was set.
LEMMA FatEntryIs ==
    ASSUME MkInv, ImageWritten, NEW k \in {0, 1}, NEW c, NEW v, HasEntry(disk, k, c, v)
    PROVE  FatEntry(k, c) = v
<1> DEFINE lba == PARTITION_START_LBA + BootSector.rsvd_sec_cnt + k * BootSector.fat_sz_32
                     + (c * 4) \div SECTOR_SIZE
           off == (c * 4) % SECTOR_SIZE
<1>1. BootSector.rsvd_sec_cnt = RSVD_SEC_CNT /\ BootSector.fat_sz_32 = g_fat_size
      BY ImageBootSector DEF Bpb
<1>2. lba = FatLba(k, c) /\ off = FatOff(c)
      BY <1>1 DEF FatLba, FatOff, g_fat_start
<1>3. FatEntry(k, c) = IF off \in DOMAIN Sector(disk, lba) THEN disk[lba][off].fat ELSE 0
      BY Zenon DEF FatEntry
<1> HIDE DEF lba, off
<1>4. off \in DOMAIN Sector(disk, lba) /\ Sector(disk, lba)[off] = [fat |-> v]
      BY <1>2 DEF HasEntry
<1>5. disk[lba] = Sector(disk, lba)
      BY <1>4, SectorThere
<1> QED BY <1>3, <1>4, <1>5

\* g passes n clusters from a on, as FAT copy k says.
ChainFrom(g, k, a, n) ==
    g = [j \in 1 .. n |-> IF j = 1 THEN a ELSE FatEntry(k, g[j - 1])]

Consecutive(g, a, n) == \A j \in 1 .. n : g[j] = a + j - 1

\* A chain of successive clusters is followed as that.
LEMMA ChainCounts ==
    ASSUME NEW k, NEW a \in Nat, NEW n \in Nat,
           \A j \in 1 .. n - 1 : FatEntry(k, a + j - 1) = a + j
    PROVE  /\ \E g : ChainFrom(g, k, a, n)
           /\ \A g : ChainFrom(g, k, a, n) => Consecutive(g, a, n)
<1> DEFINE w == [j \in 1 .. n |-> a + j - 1]
<1>1. ChainFrom(w, k, a, n)
  <2>1. ASSUME NEW j \in 1 .. n
        PROVE  w[j] = IF j = 1 THEN a ELSE FatEntry(k, w[j - 1])
    <3>1. CASE j = 1
          BY <3>1
    <3>2. CASE j # 1
      <4>1. j - 1 \in 1 .. n - 1 /\ j - 1 \in 1 .. n
            BY <3>2
      <4>2. FatEntry(k, a + (j - 1) - 1) = a + (j - 1)
            BY <4>1
      <4>3. w[j - 1] = a + (j - 1) - 1 /\ a + (j - 1) = a + j - 1
            BY <4>1
      <4> QED BY <3>2, <4>2, <4>3
    <3> QED BY <3>1, <3>2
  <2>2. w = [j \in 1 .. n |-> w[j]]
        OBVIOUS
  <2> HIDE DEF w
  <2> QED BY <2>1, <2>2 DEF ChainFrom
<1>2. ASSUME NEW g, ChainFrom(g, k, a, n)
      PROVE  Consecutive(g, a, n)
  <2> DEFINE T == {j \in Nat : j + 1 <= n => g[j + 1] = a + j}
  <2>1. \A j \in 1 .. n : g[j] = IF j = 1 THEN a ELSE FatEntry(k, g[j - 1])
        BY <1>2 DEF ChainFrom
  <2>2. 0 \in T
        BY <2>1
  <2>3. ASSUME NEW j \in T
        PROVE  j + 1 \in T
    <3>1. CASE ~((j + 1) + 1 <= n)
          BY <3>1
    <3>2. CASE (j + 1) + 1 <= n
      <4>1. j + 1 \in 1 .. n - 1 /\ (j + 1) + 1 \in 1 .. n /\ ((j + 1) + 1) - 1 = j + 1
            BY <3>2
      <4>2. g[(j + 1) + 1] = FatEntry(k, g[j + 1])
        <5>1. (j + 1) + 1 # 1
              OBVIOUS
        <5> QED BY <2>1, <4>1, <5>1
      <4>3. g[j + 1] = a + j /\ a + (j + 1) - 1 = a + j
            BY <3>2
      <4>4. FatEntry(k, a + (j + 1) - 1) = a + (j + 1)
            BY <4>1
      <4> QED BY <4>2, <4>3, <4>4
    <3> QED BY <3>1, <3>2
  <2> HIDE DEF T
  <2>4. T = Nat
    <3>1. T \in SUBSET Nat
          BY DEF T
    <3> QED BY <2>2, <2>3, <3>1, Induction
  <2>5. ASSUME NEW j \in 1 .. n
        PROVE  g[j] = a + j - 1
    <3>1. j - 1 \in T /\ (j - 1) + 1 = j /\ a + (j - 1) = a + j - 1
          BY <2>4
    <3> QED BY <3>1 DEF T
  <2> QED BY <2>5 DEF Consecutive
<1> QED BY <1>1, <1>2

\* Every sector of a file is where its number says.
LEMMA SectorOfChain ==
    ASSUME NEW a \in DataNos, NEW sec \in Nat
    PROVE  /\ sec \div SEC_PER_CLUS + 1 \in Nat /\ sec % SEC_PER_CLUS \in Nat
           /\ sec < 4 * (sec \div SEC_PER_CLUS + 1) /\ 4 * (sec \div SEC_PER_CLUS) <= sec
           /\ MkClusterToLba(a + (sec \div SEC_PER_CLUS + 1) - 1) + (sec % SEC_PER_CLUS)
                 = MkClusterToLba(a) + sec
<1>1. PICK q \in Nat, r \in Nat : sec \div 4 = q /\ sec % 4 = r /\ q * 4 + r = sec /\ r < 4
  <2>1. 4 \in Nat \ {0}
        OBVIOUS
  <2> QED BY <2>1, Division, Zenon
<1>2. SEC_PER_CLUS = 4 /\ g_data_start \in Nat
      BY Geography
<1>3. a \in Nat
      BY ClusterPlaces
<1>4. MkClusterToLba(a + (q + 1) - 1) + r = MkClusterToLba(a) + sec
      BY <1>1, <1>2, <1>3 DEF MkClusterToLba
<1>5. sec < 4 * (q + 1) /\ 4 * q <= sec
      BY <1>1
<1> QED BY <1>1, <1>2, <1>4, <1>5

\* The chain of every file holds its contents.
LEMMA ChainInImage ==
    ASSUME MkInv, ImageWritten, NEW i \in FileSteps, NEW k \in {0, 1}
    PROVE  ChainHolds(k, Entry(size, i))
<1>1. i \in 6 .. 11
      BY DEF FileSteps
<1>2. PICK a \in DataNos, n \in Nat :
         a = Begin(size, i) /\ n = Extent(size, i) /\ n >= 1 /\ a \in Nat
      BY <1>1, Finished, Owners, HostFiles, DataNumbers
<1>3. n = Clusters(Entry(size, i).size)
      BY <1>2, EntryFields DEF Extent
<1>4. /\ Entry(size, i).first = a /\ Entry(size, i).name = Script[i].name
      /\ CeilDiv(Entry(size, i).size, SECTOR_SIZE) = Secs(size, i)
      BY <1>2, EntryFields DEF Secs
<1>5. PICK m \in Nat : m = Secs(size, i) /\ m <= 4 * n
      BY <1>2, FileStored
<1>6. \A j \in 0 .. n - 1 :
         HasEntry(disk, k, a + j, IF j = n - 1 THEN EndOfChain ELSE a + j + 1)
      BY <1>2, FileStored, Zenon
<1>7. ASSUME NEW j \in 0 .. n - 1
      PROVE  FatEntry(k, a + j) = IF j = n - 1 THEN EndOfChain ELSE a + j + 1
      BY <1>6, FatEntryIs, Zenon
<1>8. \A j \in 1 .. n - 1 : FatEntry(k, a + j - 1) = a + j
  <2>1. ASSUME NEW j \in 1 .. n - 1
        PROVE  FatEntry(k, a + j - 1) = a + j
    <3>1. j - 1 \in 0 .. n - 1 /\ j - 1 # n - 1
          BY <1>2
    <3>2. a + (j - 1) = a + j - 1 /\ a + (j - 1) + 1 = a + j
          BY <1>2
    <3> QED BY <1>7, <3>1, <3>2
  <2> QED BY <2>1
<1> DEFINE e == Entry(size, i)
           chain == CHOOSE g : g = [j \in 1 .. Clusters(e.size) |->
                                      IF j = 1 THEN e.first ELSE FatEntry(k, g[j - 1])]
<1>c. ChainHolds(k, e) <=>
         /\ FatEntry(k, chain[Clusters(e.size)]) >= EndMark32
         /\ \A sec \in 0 .. CeilDiv(e.size, SECTOR_SIZE) - 1 :
               Holds(DataLba(chain[sec \div SEC_PER_CLUS + 1]) + (sec % SEC_PER_CLUS), e.name, sec)
  <2> HIDE DEF e
  <2> QED BY Zenon DEF ChainHolds
<1>9. \A j \in 1 .. n : chain[j] = a + j - 1
  <2>1. \E g : ChainFrom(g, k, e.first, Clusters(e.size))
    <3>1. \E g : ChainFrom(g, k, a, n)
          BY <1>2, <1>8, ChainCounts
    <3> QED BY <1>3, <1>4, <3>1
  <2>2. ChainFrom(chain, k, e.first, Clusters(e.size))
    <3> HIDE DEF e
    <3> QED BY <2>1, Zenon DEF ChainFrom
  <2> HIDE DEF chain
  <2>3. ChainFrom(chain, k, a, n)
        BY <1>3, <1>4, <2>2
  <2>4. \A g : ChainFrom(g, k, a, n) => Consecutive(g, a, n)
        BY <1>2, <1>8, ChainCounts
  <2> QED BY <2>3, <2>4 DEF Consecutive
<1> HIDE DEF chain
<1>10. ChainHolds(k, Entry(size, i)) <=>
         /\ FatEntry(k, chain[n]) >= EndMark32
         /\ \A sec \in 0 .. m - 1 :
               Holds(DataLba(chain[sec \div SEC_PER_CLUS + 1]) + (sec % SEC_PER_CLUS), Script[i].name, sec)
      BY <1>c, <1>3, <1>4, <1>5, Zenon
<1>11. FatEntry(k, chain[n]) >= EndMark32
  <2>1. chain[n] = a + (n - 1) /\ n - 1 \in 0 .. n - 1
        BY <1>2, <1>9
  <2>2. FatEntry(k, a + (n - 1)) = EndOfChain
        BY <1>7, <2>1
  <2> QED BY <2>1, <2>2, SMT DEF EndOfChain, EndMark32
<1>12. ASSUME NEW sec \in 0 .. m - 1
       PROVE  Holds(DataLba(chain[sec \div SEC_PER_CLUS + 1]) + (sec % SEC_PER_CLUS), Script[i].name, sec)
  <2>1. PICK q \in Nat, r \in Nat :
           /\ q = sec \div SEC_PER_CLUS /\ r = sec % SEC_PER_CLUS
           /\ sec < 4 * (q + 1) /\ 4 * q <= sec
           /\ MkClusterToLba(a + (q + 1) - 1) + r = MkClusterToLba(a) + sec
    <3>1. sec \in Nat
          OBVIOUS
    <3>2. SEC_PER_CLUS = 4
          BY Geography
    <3>3. 4 \in Nat \ {0}
          OBVIOUS
    <3>4. sec \div SEC_PER_CLUS \in Nat
          BY <3>1, <3>2, <3>3, QuotientRemainder
    <3> QED BY <3>1, <3>4, SectorOfChain
  <2>2. q + 1 \in 1 .. n
        BY <1>5, <2>1
  <2>3. chain[q + 1] = a + (q + 1) - 1
        BY <1>9, <2>2
  <2>4. \A c : DataLba(c) = MkClusterToLba(c)
        BY ImageBootSector, ImageGeometry DEF DataLba, ImageFs
  <2>5. Holds(MkClusterToLba(a) + sec, Script[i].name, sec)
        BY <1>2, <1>5, FileStored
  <2> QED BY <2>1, <2>3, <2>4, <2>5
<1> QED BY <1>10, <1>11, <1>12, Zenon

\* Every file is in its directory once, and whole.
LEMMA FilesVerdict == MkInv => FilesAreWhole
<1> SUFFICES ASSUME MkInv, ImageWritten, NEW i \in DOMAIN Script, Script[i].op = "file"
             PROVE  LET seen == EntriesNamed(DirOf(Script[i].in), Script[i].name)
                    IN  /\ \E e \in seen : seen = {e} /\ e.size = size[e.name]
                        /\ \A e \in seen, k \in {0, 1} : ChainHolds(k, e)
    BY DEF FilesAreWhole
<1>1. i \in FileSteps /\ i \in 6 .. 11
      BY ScriptSteps DEF FileSteps
<1>2. Script[i].in \in Directories
      BY <1>1, NewEntry
<1>3. EntriesNamed(DirOf(Script[i].in), Script[i].name) = {Entry(size, i)}
      BY <1>1, <1>2, PathInImage, EntryInImage
<1>4. Entry(size, i).size = size[Entry(size, i).name]
      BY <1>1, EntryFields
<1>5. \A k \in {0, 1} : ChainHolds(k, Entry(size, i))
      BY <1>1, ChainInImage
<1> QED BY <1>3, <1>4, <1>5

-----------------------------------------------------------------------------
(* Every cluster that was given away has an entry                          *)

\* Every cluster below the next free one belongs to a file or directory,
LEMMA ClusterHasOwner ==
    ASSUME NEW sz \in HostSizes, NEW c \in Nat, c >= 3, c < Begin(sz, 12)
    PROVE  \E i \in 6 .. 11 : c \in Own(sz, i)
<1>1. Begin(sz, 6) = 3
      BY Begins
<1>2. ASSUME NEW i \in 6 .. 11
      PROVE  /\ Begin(sz, i) \in Nat /\ Extent(sz, i) \in Nat
             /\ Begin(sz, i + 1) = Begin(sz, i) + Extent(sz, i)
  <2>1. i \in 1 .. 12
        OBVIOUS
  <2> QED BY <2>1, Begins
<1>3. ASSUME NEW i \in 6 .. 11, c >= Begin(sz, i), c < Begin(sz, i + 1)
      PROVE  c \in Own(sz, i)
      BY <1>2, <1>3 DEF Own
<1>4. PICK i \in 6 .. 11 : c >= Begin(sz, i) /\ c < Begin(sz, i + 1)
  <2> SUFFICES ASSUME \A i \in 6 .. 11 : ~(c >= Begin(sz, i) /\ c < Begin(sz, i + 1))
               PROVE  FALSE
      OBVIOUS
  <2>1. \A i \in {7, 8, 9, 10, 11, 12} : Begin(sz, i) \in Nat
        BY Begins
  <2>2. c >= Begin(sz, 7)
    <3>1. ~(c >= Begin(sz, 6) /\ c < Begin(sz, 6 + 1))
          OBVIOUS
    <3> QED BY <1>1, <2>1, <3>1
  <2>3. c >= Begin(sz, 8)
    <3>1. ~(c >= Begin(sz, 7) /\ c < Begin(sz, 7 + 1))
          OBVIOUS
    <3> QED BY <2>1, <2>2, <3>1
  <2>4. c >= Begin(sz, 9)
    <3>1. ~(c >= Begin(sz, 8) /\ c < Begin(sz, 8 + 1))
          OBVIOUS
    <3> QED BY <2>1, <2>3, <3>1
  <2>5. c >= Begin(sz, 10)
    <3>1. ~(c >= Begin(sz, 9) /\ c < Begin(sz, 9 + 1))
          OBVIOUS
    <3> QED BY <2>1, <2>4, <3>1
  <2>6. c >= Begin(sz, 11)
    <3>1. ~(c >= Begin(sz, 10) /\ c < Begin(sz, 10 + 1))
          OBVIOUS
    <3> QED BY <2>1, <2>5, <3>1
  <2>7. ~(c >= Begin(sz, 11) /\ c < Begin(sz, 11 + 1))
        OBVIOUS
  <2> QED BY <2>1, <2>6, <2>7
<1> QED BY <1>3, <1>4

\* and so has an entry in the FAT.
LEMMA EveryEntry ==
    ASSUME MkInv, ImageWritten, NEW c \in 0 .. next - 1
    PROVE  \E v \in Nat : HasEntry(disk, 0, c, v)
<1>1. next = Begin(size, 12) /\ size \in HostSizes
  <2>1. step = 12 /\ Len(clus) <= 0 /\ Len(clus) \in Nat /\ next = Begin(size, step) + Len(clus)
        BY DEF MkInv, Counted, ImageWritten, FileSteps
  <2>2. Begin(size, 12) \in Nat
        BY Finished, Begins
  <2> QED BY <2>1, <2>2, Finished
<1>2. Begin(size, 12) \in Nat /\ c \in Nat
      BY Finished, Begins
<1>3. CASE c \in {0, 1, 2}
  <2>1. FatHeld(disk, 12)
        BY Finished DEF Layout
  <2>2. \E v \in Nat : \A k \in {0, 1} : HasEntry(disk, k, c, v)
    <3>1. 12 > 5
          OBVIOUS
    <3> QED BY <1>3, <2>1, <3>1, Zenon DEF FatHeld
  <2> QED BY <2>2
<1>4. CASE c >= 3
  <2>1. PICK i \in 6 .. 11 : c \in Own(size, i)
        BY <1>1, <1>2, <1>4, ClusterHasOwner
  <2>2. EndOfChain \in Nat
        BY SMT DEF EndOfChain
  <2>3. CASE i \in FileSteps
    <3>1. PICK a \in Nat, n \in Nat : a = Begin(size, i) /\ n = Extent(size, i)
          BY <2>3, Finished, HostFiles, Owners, DataNumbers
    <3>2. PICK j \in 0 .. n - 1 : c = a + j
      <4>1. c - a \in 0 .. n - 1 /\ c = a + (c - a)
            BY <1>2, <2>1, <3>1 DEF Own
      <4> QED BY <4>1
    <3>3. HasEntry(disk, 0, a + j, IF j = n - 1 THEN EndOfChain ELSE a + j + 1)
      <4>1. 0 \in {0, 1}
            OBVIOUS
      <4> QED BY <2>3, <3>1, <4>1, FileStored, Zenon
    <3>4. (IF j = n - 1 THEN EndOfChain ELSE a + j + 1) \in Nat
          BY <2>2
    <3> QED BY <3>2, <3>3, <3>4
  <2>4. CASE i \in DirSteps
    <3>1. c = Begin(size, i)
          BY <2>1, <2>4, Finished, HomesDiffer
    <3>2. HasEntry(disk, 0, Begin(size, i), EndOfChain)
      <4>1. i < 12 /\ 0 \in {0, 1}
            OBVIOUS
      <4>2. DirsHeld(disk, size, 12)
            BY Finished DEF Layout
      <4> QED BY <2>4, <4>1, <4>2, Zenon DEF DirsHeld
    <3> QED BY <2>2, <3>1, <3>2
  <2>5. i \in FileSteps \/ i \in DirSteps
        BY DEF FileSteps, DirSteps
  <2> QED BY <2>3, <2>4, <2>5
<1> QED BY <1>2, <1>3, <1>4

-----------------------------------------------------------------------------
(* fat_read_file, within the size it is given                              *)

\* One turn of the for loop copies something, at most a sector, and never more
\* than what remains.
LEMMA CopyLenBounds ==
    ASSUME NEW n \in Nat
    PROVE  CopyLen(n) \in Nat /\ CopyLen(n) <= n /\ (n > 0 => CopyLen(n) > 0)
BY SectorSizeAssumption DEF CopyLen

\* What was copied and what remains keep adding up to the size.
LEMMA StepIInv == IInv /\ [Next]_vars => IInv'
<1> SUFFICES ASSUME IInv, [Next]_vars PROVE IInv'
    OBVIOUS
<1> USE DEF IInv, CopiedPlusRemaining, NoOverrun
<1>1. CASE UNCHANGED <<file, remaining, pos, dest>>
      BY <1>1 DEF file
<1>2. CASE ReadSector
  <2> DEFINE len == CopyLen(remaining)
  <2>1. PICK lba : /\ dest' = Placed(lba, len)
                   /\ pos' = pos + len /\ remaining' = remaining - len
                   /\ file_size' = file_size
        BY <1>2 DEF ReadSector, file
  <2>2. len \in Nat /\ len <= remaining
        BY CopyLenBounds
  <2>3. file_size \in Nat /\ remaining \in Nat /\ pos \in Nat /\ pos + remaining = file_size
        OBVIOUS
  <2> HIDE DEF len
  <2>4. CopiedPlusRemaining'
        BY ONLY <2>1, <2>2, <2>3, SMT DEF CopiedPlusRemaining
  <2>5. ASSUME NEW i \in DestIdx, i >= file_size
        PROVE  dest'[i] = NoData
    <3>1. i \in Nat
          BY SectorSizeAssumption, FatReadAssumption DEF DestIdx
    <3>2. i \notin pos .. pos + len - 1
          BY ONLY <2>2, <2>3, <2>5, <3>1, SMT
    <3>3. dest'[i] = dest[i]
          BY ONLY <2>1, <2>5, <3>2 DEF Placed
    <3> QED BY <2>5, <3>3
  <2> QED BY <2>1, <2>4, <2>5 DEF DestIdx
<1>3. CASE EnterCluster \/ Return \/ ReadSectorFails
      BY <1>1, <1>3 DEF EnterCluster, Return, ReadSectorFails
<1>4. CASE LeaveCluster \/ FollowChain \/ FollowChainFails
      BY <1>1, <1>4 DEF LeaveCluster, FollowChain, FollowChainFails
<1>5. CASE UNCHANGED vars
      BY <1>1, <1>5 DEF vars
<1> QED BY <1>2, <1>3, <1>4, <1>5 DEF Next

-----------------------------------------------------------------------------
(* The whole file: the inductive invariant                                 *)

Typed ==
    /\ WellFormed(vol)
    /\ pc \in {"loop", "sector", "next", "done"}
    /\ cur \in Nat /\ s \in Nat /\ walk \in Seq(Nat)
    /\ file_size \in FileSizes
    /\ dest = [b \in DestIdx |-> dest[b]]
    /\ CopiedPlusRemaining

Successor(c) == EntryValue(fs, RawEntry(vol, c))

\* The clusters read are the chain, and cur is its next one or no cluster.
WalkIsChain ==
    /\ IsChain(walk)
    /\ pc \in {"sector", "next"} => walk # <<>> /\ cur = walk[Len(walk)]
    /\ pc = "loop" =>
          IF walk = <<>> THEN cur = first
          ELSE \/ cur = Successor(walk[Len(walk)])
               \/ (ioError \/ fs.fat_type = 12) /\ ~Follows(fs, cur)

\* The bytes the loops have come past; the file may end before.
Passed ==
    IF pc = "sector" THEN (Len(walk) - 1) * ClusterBytes + s * SECTOR_SIZE
    ELSE Len(walk) * ClusterBytes
Place ==
    /\ pc = "sector" => s <= fs.sec_per_clus
    /\ pc # "done" => pos <= Passed /\ (remaining > 0 => pos = Passed)

BytesInPlace == \A b \in 0 .. pos - 1 : dest[b] = FileByte(walk, b)

FileInv == Typed /\ WalkIsChain /\ Place /\ BytesInPlace /\ ReadOkIsTheFile /\ ErrIsJustified

-----------------------------------------------------------------------------
(* Arithmetic                                                              *)

\* The byte at offset x of the t-th sector of the n-th cluster.
ByteAt(n, t, x, spc, sz) == n * (spc * sz) + t * sz + x

\* The cluster, sector and offset of a byte are those it is at.
LEMMA BytePlace ==
    ASSUME NEW n \in Nat, NEW t \in Nat, NEW x \in Nat,
           NEW spc \in Nat \ {0}, NEW sz \in Nat \ {0}, t < spc, x < sz
    PROVE  /\ ByteAt(n, t, x, spc, sz) \div (spc * sz) = n
           /\ (ByteAt(n, t, x, spc, sz) % (spc * sz)) \div sz = t
           /\ ByteAt(n, t, x, spc, sz) % sz = x
<1> DEFINE cb == spc * sz  r == t * sz + x  b == n * cb + r
<1>1. cb \in Nat \ {0} /\ r \in Nat
      OBVIOUS
<1>2. r < cb
  <2>1. (t + 1) * sz <= spc * sz
        OBVIOUS
  <2>2. (t + 1) * sz = t * sz + sz
        OBVIOUS
  <2>3. PICK ts \in Nat : ts = t * sz
        OBVIOUS
  <2>4. ts + sz <= cb
        BY <2>1, <2>2, <2>3
  <2> HIDE DEF cb, r
  <2>5. r = ts + x
        BY <2>3 DEF r
  <2> QED BY <1>1, <2>3, <2>4, <2>5
<1>3. r \div sz = t /\ r % sz = x
      BY DivMod
<1>4. b = (n * spc + t) * sz + x
      OBVIOUS
<1>5. b % sz = x
  <2>1. n * spc + t \in Nat
        OBVIOUS
  <2> HIDE DEF b
  <2> QED BY <1>4, <2>1, DivMod
<1>6. ByteAt(n, t, x, spc, sz) = b
      BY DEF ByteAt
<1> HIDE DEF cb, r
<1>7. b \div cb = n /\ b % cb = r
      BY <1>1, <1>2, DivMod
<1> HIDE DEF b
<1>8. (b % cb) \div sz = t
      BY <1>3, <1>7
<1> QED BY <1>5, <1>6, <1>7, <1>8 DEF cb

-----------------------------------------------------------------------------
(* The FAT                                                                 *)

\* The numbers fat_init() computes.
LEMMA VolumeFacts ==
    ASSUME WellFormed(vol)
    PROVE  /\ fs.sec_per_clus \in Nat \ {0} /\ fs.rsvd_sec_cnt \in Nat /\ fs.part_lba \in Nat
           /\ fs.fat_type \in {12, 16, 32}
           /\ EntrySize(fs) \in {2, 4}
           /\ SECTOR_SIZE \in Nat \ {0}
           /\ ClusterBytes \in Nat \ {0}
<1>1. /\ fs.sec_per_clus = vol.bpb.sec_per_clus /\ fs.rsvd_sec_cnt = vol.bpb.rsvd_sec_cnt
      /\ fs.part_lba = vol.part
      BY DEF fs, FatInit
<1>2. fs.fat_type \in {12, 16, 32}
      BY DEF fs, FatInit, FatType
<1>3. fs.sec_per_clus \in Nat \ {0} /\ fs.rsvd_sec_cnt \in Nat /\ fs.part_lba \in Nat
      BY <1>1 DEF WellFormed
<1>4. SECTOR_SIZE \in Nat \ {0}
      BY SectorSizeAssumption
<1>5. ClusterBytes \in Nat \ {0}
  <2>1. \A x, y \in Nat \ {0} : x * y \in Nat \ {0}
        OBVIOUS
  <2> QED BY <1>3, <1>4, <2>1 DEF ClusterBytes
<1> QED BY <1>2, <1>3, <1>4, <1>5 DEF EntrySize

\* FAT sector and offset address the raw entry of the very cluster.
LEMMA EntryAddressed ==
    ASSUME WellFormed(vol), NEW c \in Nat
    PROVE  RawEntryAt(fs, vol, FatSector(fs, c), FatOffset(fs, c)) = RawEntry(vol, c)
<1> DEFINE sz == EntrySize(fs)  base == fs.part_lba + fs.rsvd_sec_cnt
<1>1. sz \in {2, 4} /\ SECTOR_SIZE \in Nat \ {0} /\ base \in Nat
      BY VolumeFacts
<1>2. PICK x \in Nat : x = c * sz
      BY <1>1
<1>3. x \div sz = c
      BY <1>1, <1>2
<1>4. PICK q \in Nat, r \in Nat : q = x \div SECTOR_SIZE /\ r = x % SECTOR_SIZE
  <2>1. x \div SECTOR_SIZE \in Nat /\ x % SECTOR_SIZE \in 0 .. SECTOR_SIZE - 1
        BY <1>1, QuotientRemainder
  <2>2. x % SECTOR_SIZE \in Nat
        BY <1>1, <2>1
  <2> QED BY <2>1, <2>2, Zenon
<1>5. q * SECTOR_SIZE + r = x
      BY <1>1, <1>4, QuotientRemainder
<1>6. FatSector(fs, c) = base + q /\ FatOffset(fs, c) = r
      BY <1>2, <1>4 DEF FatSector, FatOffset
<1>7. (base + q) - base = q
      BY <1>1, <1>4
<1> HIDE DEF base
<1>8. RawEntryAt(fs, vol, base + q, r) = RawEntry(vol, (((base + q) - base) * SECTOR_SIZE + r) \div sz)
      BY DEF RawEntryAt, base
<1> QED BY <1>3, <1>5, <1>6, <1>7, <1>8

\* The successor of a cluster is a number.
LEMMA SuccessorType ==
    ASSUME WellFormed(vol), NEW c \in Nat
    PROVE  Successor(c) \in Nat
<1>1. RawEntry(vol, c) \in Nat
      BY DEF RawEntry, WellFormed
<1> QED BY <1>1 DEF Successor, EntryValue

\* The value a look-up answers: the successor, or the end of the chain on FAT12.
LEMMA LookUp ==
    ASSUME WellFormed(vol), NEW c \in Nat, cur = c
    PROVE  /\ NextCluster \in Nat
           /\ fs.fat_type # 12 => NextCluster = Successor(c)
           /\ fs.fat_type = 12 => ~Follows(fs, NextCluster)
<1>1. fs.fat_type # 12 => NextCluster = Successor(c)
      BY EntryAddressed DEF NextCluster, Successor
<1>2. fs.fat_type = 12 => NextCluster = 268435455 /\ ~Follows(fs, NextCluster)
      BY DEF NextCluster, Follows, IsEnd, EndMark
<1> QED BY <1>1, <1>2, SuccessorType

\* A FAT sector that cannot be read looks like the end of the chain.
LEMMA FailedLookUp ==
    ASSUME WellFormed(vol), fs.fat_type # 12
    PROVE  FailedEntry(fs) \in Nat /\ ~Follows(fs, FailedEntry(fs))
BY VolumeFacts DEF FailedEntry, Follows, IsEnd, EndMark

-----------------------------------------------------------------------------
(* The steps                                                               *)

\* The sizes that fat_read_file() counts with.
LEMMA SizeBounds ==
    ASSUME Typed
    PROVE  /\ file_size \in Nat /\ file_size <= MaxFileSize /\ MaxFileSize \in Nat
           /\ remaining \in Nat /\ pos \in Nat /\ pos + remaining = file_size
BY FatReadAssumption DEF Typed, CopiedPlusRemaining

\* The types are kept,
LEMMA FileTypedStep == Typed /\ [Next]_vars => Typed'
<1> SUFFICES ASSUME Typed, [Next]_vars PROVE Typed'
    OBVIOUS
<1> USE DEF Typed, file
<1>1. CASE EnterCluster
      BY <1>1 DEF EnterCluster, CopiedPlusRemaining
<1>2. CASE Return \/ ReadSectorFails \/ LeaveCluster
      BY <1>2 DEF Return, ReadSectorFails, LeaveCluster, CopiedPlusRemaining
<1>3. CASE ReadSector
  <2>1. CopiedPlusRemaining'
    <3>1. /\ pos' = pos + CopyLen(remaining) /\ remaining' = remaining - CopyLen(remaining)
          /\ file_size' = file_size
          BY <1>3 DEF ReadSector
    <3>2. PICK len \in Nat : len = CopyLen(remaining) /\ len <= remaining
          BY CopyLenBounds DEF CopiedPlusRemaining
    <3> QED BY <3>1, <3>2 DEF CopiedPlusRemaining
  <2>2. dest' = [b \in DestIdx |-> dest'[b]]
        BY <1>3 DEF ReadSector, Placed, DestIdx
  <2> QED BY <1>3, <2>1, <2>2 DEF ReadSector, DestIdx
<1>4. CASE FollowChain
  <2>1. NextCluster \in Nat
        BY LookUp
  <2> QED BY <1>4, <2>1 DEF FollowChain, CopiedPlusRemaining
<1>5. CASE FollowChainFails
      BY <1>5, FailedLookUp DEF FollowChainFails, CopiedPlusRemaining
<1>6. CASE UNCHANGED vars
      BY <1>6 DEF vars, CopiedPlusRemaining
<1> QED BY <1>1, <1>2, <1>3, <1>4, <1>5, <1>6 DEF Next

\* What fs and the FAT say does not change while the file is read.
LEMMA VolumeKept == [Next]_vars => UNCHANGED <<file, fs>>
BY DEF Next, vars, file, fs, EnterCluster, Return, ReadSector, ReadSectorFails, LeaveCluster,
       FollowChain, FollowChainFails

\* the clusters read stay a chain,
LEMMA ChainStep ==
    ASSUME Typed, WalkIsChain, [Next]_vars
    PROVE  WalkIsChain'
<1>0. UNCHANGED <<vol, first>> /\ fs' = fs
      BY VolumeKept DEF file
<1> USE DEF WalkIsChain, IsChain, Successor
<1>1. CASE EnterCluster
  <2>1. /\ walk' = Append(walk, cur) /\ pc' = "sector" /\ cur' = cur
        /\ pc = "loop" /\ Follows(fs, cur)
        BY <1>1 DEF EnterCluster
  <2>2. /\ Len(walk') = Len(walk) + 1 /\ Len(walk) \in Nat /\ walk' # <<>>
        /\ walk'[Len(walk')] = cur
        /\ \A j \in 1 .. Len(walk) : walk'[j] = walk[j]
        BY <2>1 DEF Typed
  <2>3. IF walk = <<>> THEN cur = first
        ELSE cur = EntryValue(fs, RawEntry(vol, walk[Len(walk)]))
        BY <2>1
  <2>4. walk'[1] = first
    <3>1. CASE walk = <<>>
          BY <2>2, <2>3, <3>1
    <3>2. CASE walk # <<>>
      <4>1. 1 \in 1 .. Len(walk)
            BY <3>2 DEF Typed
      <4> QED BY <2>2, <3>2, <4>1
    <3> QED BY <3>1, <3>2
  <2>5. \A j \in 1 .. Len(walk') : Follows(fs, walk'[j])
    <3>1. \A j \in 1 .. Len(walk') : j \in 1 .. Len(walk) \/ j = Len(walk')
          BY <2>2
    <3> QED BY <2>1, <2>2, <3>1
  <2>6. ASSUME NEW j \in 1 .. Len(walk') - 1
        PROVE  walk'[j + 1] = EntryValue(fs, RawEntry(vol, walk'[j]))
    <3>1. CASE j = Len(walk)
      <4>1. walk # <<>> /\ j \in 1 .. Len(walk) /\ j + 1 = Len(walk')
            BY <2>2, <3>1
      <4> QED BY <2>2, <2>3, <3>1, <4>1
    <3>2. CASE j # Len(walk)
      <4>1. j \in 1 .. Len(walk) - 1 /\ j \in 1 .. Len(walk) /\ j + 1 \in 1 .. Len(walk)
            BY <2>2, <3>2
      <4> QED BY <2>2, <4>1
    <3> QED BY <3>1, <3>2
  <2> QED BY <1>0, <2>1, <2>2, <2>4, <2>5, <2>6
<1>2. CASE Return \/ ReadSectorFails
      BY <1>0, <1>2 DEF Return, ReadSectorFails
<1>3. CASE ReadSector \/ LeaveCluster
      BY <1>0, <1>3 DEF ReadSector, LeaveCluster
<1>4. CASE FollowChain
  <2>1. pc' = "loop" /\ cur' = NextCluster /\ UNCHANGED <<walk, ioError>> /\ pc = "next"
        BY <1>4 DEF FollowChain
  <2>2. walk # <<>> /\ cur = walk[Len(walk)] /\ cur \in Nat
        BY <2>1 DEF Typed
  <2>3. /\ fs.fat_type # 12 => NextCluster = EntryValue(fs, RawEntry(vol, cur))
        /\ fs.fat_type = 12 => ~Follows(fs, NextCluster)
        BY <2>2, LookUp DEF Typed
  <2> QED BY <1>0, <2>1, <2>2, <2>3
<1>5. CASE FollowChainFails
  <2>1. /\ pc' = "loop" /\ cur' = FailedEntry(fs) /\ ioError' = TRUE /\ walk' = walk
        /\ pc = "next" /\ fs.fat_type # 12
        BY <1>5 DEF FollowChainFails
  <2>2. ~Follows(fs, FailedEntry(fs))
        BY <2>1, FailedLookUp DEF Typed
  <2> QED BY <1>0, <2>1, <2>2
<1>6. CASE UNCHANGED vars
      BY <1>0, <1>6 DEF vars
<1> QED BY <1>1, <1>2, <1>3, <1>4, <1>5, <1>6 DEF Next

\* the bytes copied end where the loops are,
LEMMA PlaceStep ==
    ASSUME Typed, WalkIsChain, Place, [Next]_vars
    PROVE  Place'
<1>0. fs' = fs /\ ClusterBytes' = ClusterBytes
      BY VolumeKept DEF ClusterBytes
<1> DEFINE L == Len(walk)
<1>T. L \in Nat /\ ClusterBytes \in Nat \ {0} /\ SECTOR_SIZE \in Nat \ {0} /\ s \in Nat
      BY VolumeFacts DEF Typed
<1>U. remaining \in Nat /\ pos \in Nat
      BY SizeBounds
<1> USE DEF Place
<1>1. CASE EnterCluster
  <2>1. /\ pc = "loop" /\ pc' = "sector" /\ s' = 0 /\ UNCHANGED <<remaining, pos>>
        /\ walk' = Append(walk, cur) /\ remaining > 0
        BY <1>1 DEF EnterCluster
  <2>2. Len(walk') - 1 = L
        BY <2>1, <1>T DEF Typed
  <2>3. Passed' = L * ClusterBytes + 0 * SECTOR_SIZE /\ Passed = L * ClusterBytes
        BY <1>0, <2>1, <2>2 DEF Passed
  <2>4. Passed' = Passed
        BY <1>T, <2>3
  <2>5. s' <= fs'.sec_per_clus
        BY <1>0, <2>1, VolumeFacts DEF Typed
  <2> QED BY <2>1, <2>4, <2>5
<1>2. CASE Return \/ ReadSectorFails
      BY <1>2 DEF Return, ReadSectorFails
<1>3. CASE ReadSector
  <2>1. /\ pc = "sector" /\ pc' = "sector" /\ s' = s + 1 /\ walk' = walk /\ remaining > 0
        /\ s < fs.sec_per_clus
        /\ pos' = pos + CopyLen(remaining) /\ remaining' = remaining - CopyLen(remaining)
        BY <1>3 DEF ReadSector
  <2>2. Passed' = Passed + SECTOR_SIZE
    <3>1. (s + 1) * SECTOR_SIZE = s * SECTOR_SIZE + SECTOR_SIZE
          BY <1>T
    <3>2. s * SECTOR_SIZE \in Nat /\ (L - 1) * ClusterBytes \in Int
          BY <1>T
    <3> QED BY <1>0, <1>T, <2>1, <3>1, <3>2 DEF Passed
  <2>3. pos = Passed
        BY <2>1
  <2>4. s' <= fs'.sec_per_clus
        BY <1>0, <1>T, <2>1, VolumeFacts DEF Typed
  <2>5. PICK len \in Nat : /\ len = CopyLen(remaining) /\ len <= SECTOR_SIZE
                           /\ remaining - len > 0 => len = SECTOR_SIZE
        BY <1>T, <1>U DEF CopyLen
  <2> QED BY <1>T, <1>U, <2>1, <2>2, <2>3, <2>4, <2>5
<1>4. CASE LeaveCluster
  <2>1. /\ pc = "sector" /\ pc' = "next" /\ UNCHANGED <<remaining, pos, walk>>
        /\ remaining = 0 \/ s = fs.sec_per_clus
        BY <1>4 DEF LeaveCluster
  <2>2. PICK base \in Int : base = (L - 1) * ClusterBytes
        BY <1>T
  <2>3. Passed = base + s * SECTOR_SIZE /\ Passed' = base + ClusterBytes
    <3>1. L * ClusterBytes = (L - 1) * ClusterBytes + ClusterBytes
          BY <1>T
    <3> QED BY <1>0, <2>1, <2>2, <3>1 DEF Passed
  <2>4. s * SECTOR_SIZE \in Nat /\ s * SECTOR_SIZE <= ClusterBytes
    <3>1. s <= fs.sec_per_clus /\ fs.sec_per_clus \in Nat
          BY <2>1, VolumeFacts DEF Typed
    <3>2. \A x, y, z \in Nat : x <= y => x * z <= y * z
          OBVIOUS
    <3> QED BY <1>T, <3>1, <3>2 DEF ClusterBytes
  <2>5. s = fs.sec_per_clus => Passed' = Passed
        BY <2>3 DEF ClusterBytes
  <2>6. Passed <= Passed' /\ Passed \in Int /\ Passed' \in Int
        BY <1>T, <2>2, <2>3, <2>4
  <2> QED BY <1>U, <2>1, <2>5, <2>6
<1>5. CASE FollowChain \/ FollowChainFails
  <2>1. pc = "next" /\ pc' = "loop" /\ UNCHANGED <<remaining, pos, walk>>
        BY <1>5 DEF FollowChain, FollowChainFails
  <2>2. Passed' = Passed
        BY <1>0, <2>1 DEF Passed
  <2> QED BY <2>1, <2>2
<1>6. CASE UNCHANGED vars
  <2>1. UNCHANGED <<pc, s, remaining, pos, walk>>
        BY <1>6 DEF vars
  <2>2. Passed' = Passed
        BY <1>0, <2>1 DEF Passed
  <2> QED BY <1>0, <2>1, <2>2
<1> QED BY <1>1, <1>2, <1>3, <1>4, <1>5, <1>6 DEF Next

\* and each of them is that of the file.
LEMMA BytesStep ==
    ASSUME Typed, WalkIsChain, Place, BytesInPlace, [Next]_vars
    PROVE  BytesInPlace'
<1>0. fs' = fs /\ ClusterBytes' = ClusterBytes
      BY VolumeKept DEF ClusterBytes
<1> DEFINE L == Len(walk)
<1>T. L \in Nat /\ ClusterBytes \in Nat \ {0} /\ SECTOR_SIZE \in Nat \ {0} /\ s \in Nat
      BY VolumeFacts DEF Typed
<1>U. remaining \in Nat /\ pos \in Nat
      BY SizeBounds
<1>1. CASE EnterCluster
  <2>1. pc = "loop" /\ UNCHANGED <<pos, dest>> /\ walk' = Append(walk, cur)
        BY <1>1 DEF EnterCluster
  <2>2. ASSUME NEW b \in 0 .. pos - 1
        PROVE  walk'[(b \div ClusterBytes) + 1] = walk[(b \div ClusterBytes) + 1]
    <3>1. PICK cb \in Nat \ {0} : cb = ClusterBytes
          BY <1>T
    <3>2. pos <= L * cb
          BY <2>1, <3>1 DEF Place, Passed
    <3>3. b \in Nat /\ b < L * cb /\ L * cb \in Nat
          BY <1>T, <1>U, <3>2
    <3>4. PICK q \in Nat : q = b \div cb /\ q * cb <= b
      <4>1. b \div cb \in Nat /\ (b \div cb) * cb <= b
            BY <3>3
      <4> QED BY <4>1
    <3>5. q < L
      <4> SUFFICES ASSUME L <= q PROVE FALSE
          BY <1>T
      <4>1. L * cb <= q * cb
            BY <1>T
      <4> QED BY <3>3, <3>4, <4>1
    <3>6. q + 1 \in 1 .. Len(walk)
          BY <1>T, <3>5
    <3>7. walk'[q + 1] = walk[q + 1]
          BY <2>1, <3>6 DEF Typed
    <3> QED BY <3>1, <3>4, <3>7
  <2> QED BY <1>0, <2>1, <2>2 DEF BytesInPlace, FileByte
<1>2. CASE ReadSector
  <2> DEFINE len == CopyLen(remaining)  lba == ClusterToLba(fs, cur) + s
  <2>1. /\ pc = "sector" /\ walk' = walk /\ remaining > 0 /\ s < fs.sec_per_clus
        /\ dest' = Placed(lba, len) /\ pos' = pos + len
        BY <1>2 DEF ReadSector
  <2>2. len \in Nat /\ len <= remaining /\ len <= SECTOR_SIZE
        BY <1>T, <1>U, CopyLenBounds DEF CopyLen
  <2>3. \A b \in 0 .. pos + len - 1 : b \in DestIdx
        BY <1>T, <1>U, <2>2, SizeBounds DEF DestIdx
  <2>4. ASSUME NEW b \in 0 .. pos - 1
        PROVE  dest'[b] = FileByte(walk, b)
    <3>1. b \in 0 .. pos + len - 1 /\ b \notin pos .. pos + len - 1
          BY <1>U, <2>2
    <3>2. dest'[b] = dest[b]
          BY <2>1, <2>3, <3>1 DEF Placed
    <3> QED BY <3>2 DEF BytesInPlace
  <2>5. ASSUME NEW b \in pos .. pos + len - 1
        PROVE  dest'[b] = FileByte(walk, b)
    <3>1. PICK x \in Nat : x = b - pos /\ x < SECTOR_SIZE /\ b = pos + x
          BY <1>T, <1>U, <2>2
    <3>2. dest'[b] = <<lba, x>>
      <4>1. b \in 0 .. pos + len - 1
            BY <1>U, <2>2
      <4> QED BY <2>1, <2>3, <3>1, <4>1 DEF Placed
    <3>3. L - 1 \in Nat /\ cur = walk[(L - 1) + 1]
          BY <1>T, <2>1 DEF WalkIsChain, Typed
    <3>4. b = (L - 1) * ClusterBytes + s * SECTOR_SIZE + x
          BY <2>1, <3>1 DEF Place, Passed
    <3>5. /\ b \div ClusterBytes = L - 1
          /\ (b % ClusterBytes) \div SECTOR_SIZE = s
          /\ b % SECTOR_SIZE = x
      <4>1. PICK n \in Nat, t \in Nat, spc \in Nat \ {0}, sz \in Nat \ {0} :
               n = L - 1 /\ t = s /\ spc = fs.sec_per_clus /\ sz = SECTOR_SIZE
            BY <1>T, <3>3, VolumeFacts DEF Typed
      <4>2. t < spc /\ x < sz
            BY <2>1, <3>1, <4>1
      <4>3. b = ByteAt(n, t, x, spc, sz) /\ ClusterBytes = spc * sz
            BY <3>4, <4>1 DEF ByteAt, ClusterBytes
      <4>4. /\ b \div ClusterBytes = n
            /\ (b % ClusterBytes) \div sz = t
            /\ b % sz = x
            BY <4>2, <4>3, BytePlace
      <4> QED BY <4>1, <4>4
    <3> QED BY <3>2, <3>3, <3>5 DEF FileByte
  <2>6. \A b \in 0 .. pos' - 1 : b \in 0 .. pos - 1 \/ b \in pos .. pos + len - 1
        BY <1>U, <2>1, <2>2
  <2> QED BY <1>0, <2>1, <2>4, <2>5, <2>6 DEF BytesInPlace, FileByte
<1>3. CASE UNCHANGED <<walk, pos, dest>>
      BY <1>0, <1>3 DEF BytesInPlace, FileByte
<1>4. CASE Return \/ ReadSectorFails \/ LeaveCluster \/ FollowChain \/ FollowChainFails
      BY <1>3, <1>4 DEF Return, ReadSectorFails, LeaveCluster, FollowChain, FollowChainFails
<1>5. CASE UNCHANGED vars
      BY <1>3, <1>5 DEF vars
<1> QED BY <1>1, <1>2, <1>4, <1>5 DEF Next

\* fat_read_file() has just been called.
Called ==
    /\ WellFormed(vol) /\ pc = "loop" /\ cur = first /\ s = 0 /\ walk = <<>> /\ pos = 0
    /\ first \in Nat /\ file_size \in FileSizes /\ remaining = file_size
    /\ dest = [b \in DestIdx |-> NoData]

\* FatRead begins with a call,
LEMMA InitCalled == Init => Called
BY FatReadAssumption DEF Init, Called

\* which satisfies the invariant,
LEMMA CalledInv == Called => IInv /\ FileInv
<1> SUFFICES ASSUME Called PROVE IInv /\ FileInv
    OBVIOUS
<1>1. /\ WellFormed(vol) /\ pc = "loop" /\ cur = first /\ s = 0 /\ walk = <<>> /\ pos = 0
      /\ first \in Nat /\ file_size \in FileSizes /\ file_size \in Nat /\ remaining = file_size
      /\ dest = [b \in DestIdx |-> NoData]
      BY FatReadAssumption DEF Called
<1>0. IInv
      BY <1>1 DEF IInv, CopiedPlusRemaining, NoOverrun
<1>2. Typed
      BY <1>1 DEF Typed, CopiedPlusRemaining
<1>3. WalkIsChain
      BY <1>1 DEF WalkIsChain, IsChain
<1>4. Place
  <2>1. Passed = 0
        BY <1>1, <1>2, VolumeFacts DEF Passed
  <2> QED BY <1>1, <2>1 DEF Place
<1> QED BY <1>0, <1>1, <1>2, <1>3, <1>4 DEF FileInv, BytesInPlace, ReadOkIsTheFile, ErrIsJustified

\* The verdict is given once, when the loop is over, or by a failing read.
LEMMA VerdictStep ==
    ASSUME FileInv, [Next]_vars
    PROVE  ReadOkIsTheFile' /\ ErrIsJustified'
<1>0. /\ fs' = fs /\ ClusterBytes' = ClusterBytes /\ vol' = vol /\ first' = first
      /\ file_size' = file_size
      BY VolumeKept DEF ClusterBytes, file
<1>1. CASE Return
  <2>1. /\ pc = "loop" /\ UNCHANGED <<cur, remaining, pos, dest, walk, ioError>>
        /\ ret' = IF remaining = 0 THEN "ok" ELSE "err"
        /\ remaining = 0 \/ ~Follows(fs, cur)
        BY <1>1 DEF Return
  <2>2. pos <= Len(walk) * ClusterBytes /\ (remaining > 0 => pos = Len(walk) * ClusterBytes)
        BY <2>1 DEF FileInv, Place, Passed
  <2>3. pos + remaining = file_size /\ pos \in Nat /\ remaining \in Nat
        BY SizeBounds DEF FileInv
  <2>4. CASE remaining = 0
    <3>1. pos = file_size
          BY <2>3, <2>4
    <3> QED BY <1>0, <2>1, <2>2, <2>4, <3>1
            DEF FileInv, WalkIsChain, IsChain, BytesInPlace, FileByte, ReadOkIsTheFile, ErrIsJustified
  <2>5. CASE remaining # 0
    <3>1. Len(walk) * ClusterBytes < file_size
          BY <2>2, <2>3, <2>5
    <3>2. IF walk = <<>> THEN cur = first
          ELSE \/ cur = EntryValue(fs, RawEntry(vol, walk[Len(walk)]))
               \/ ioError \/ fs.fat_type = 12
          BY <2>1 DEF FileInv, WalkIsChain, Successor
    <3> QED BY <1>0, <2>1, <2>5, <3>1, <3>2 DEF ReadOkIsTheFile, ErrIsJustified
  <2> QED BY <2>4, <2>5
<1>2. CASE ReadSectorFails
      BY <1>2 DEF ReadSectorFails, ReadOkIsTheFile, ErrIsJustified
<1>3. CASE EnterCluster \/ ReadSector \/ LeaveCluster \/ FollowChain \/ FollowChainFails
  <2>1. pc' # "done"
        BY <1>3 DEF EnterCluster, ReadSector, LeaveCluster, FollowChain, FollowChainFails
  <2> QED BY <2>1 DEF ReadOkIsTheFile, ErrIsJustified
<1>4. CASE UNCHANGED vars
      BY <1>0, <1>4 DEF vars, FileInv, ReadOkIsTheFile, ErrIsJustified, IsChain, FileByte
<1> QED BY <1>1, <1>2, <1>3, <1>4 DEF Next

\* and every step keeps it.
LEMMA StepFileInv == FileInv /\ [Next]_vars => FileInv'
BY FileTypedStep, ChainStep, PlaceStep, BytesStep, VerdictStep DEF FileInv

\* Reading a file never writes past the size its directory entry states.
THEOREM StaysWithinSize == Spec => []NoOverrun
<1>1. IInv => NoOverrun
      BY DEF IInv
<1> QED BY InitCalled, CalledInv, StepIInv, <1>1, PTL DEF Spec

\* A file is reported as read only if its clusters are the chain of the FAT and
\* every byte of it is in the buffer, from the cluster and sector the chain
\* gives for its offset.
THEOREM FileIsRead == Spec => []ReadOkIsTheFile
<1>1. FileInv => ReadOkIsTheFile
      BY DEF FileInv
<1> QED BY InitCalled, CalledInv, StepFileInv, <1>1, PTL DEF Spec

\* A file is refused only because a read failed or because the chain of the FAT
\* ends before the size its directory entry states.
THEOREM RefusalsJustified == Spec => []ErrIsJustified
<1>1. FileInv => ErrIsJustified
      BY DEF FileInv
<1> QED BY InitCalled, CalledInv, StepFileInv, <1>1, PTL DEF Spec

-----------------------------------------------------------------------------
(* Iterated functions on numbers                                           *)

\* A function on numbers that begins with x and goes on with suc exists.
IterUpTo(n, x, suc, h) == h[0] = x /\ \A i \in 1 .. n : h[i] = suc[h[i - 1]]

\* Two iterations of a function agree as far as both go.
LEMMA IterAgree ==
    ASSUME NEW x, NEW suc, NEW n \in Nat, NEW g, NEW h,
           IterUpTo(n, x, suc, g), IterUpTo(n, x, suc, h)
    PROVE  \A i \in 0 .. n : g[i] = h[i]
<1> DEFINE S == {i \in Nat : i <= n => g[i] = h[i]}
<1>1. 0 \in S
      BY DEF IterUpTo
<1>2. ASSUME NEW i \in S
      PROVE  i + 1 \in S
  <2>1. CASE i + 1 <= n
    <3>1. i + 1 \in 1 .. n /\ (i + 1) - 1 = i /\ i <= n
          BY <2>1
    <3> QED BY <3>1 DEF IterUpTo
  <2> QED BY <2>1
<1> HIDE DEF S
<1>3. S = Nat
  <2>1. S \in SUBSET Nat
        BY DEF S
  <2> QED BY <1>1, <1>2, <2>1, Induction
<1> QED BY <1>3 DEF S

Iterates(g, x, suc) == g = [n \in Nat |-> IF n = 0 THEN x ELSE suc[g[n - 1]]]

\* A function can be iterated.
LEMMA Iteration ==
    ASSUME NEW S, NEW x \in S, NEW suc \in [S -> S]
    PROVE  \E g : Iterates(g, x, suc)
<1> DEFINE T == {n \in Nat : \E h : IterUpTo(n, x, suc, h)}
<1>1. 0 \in T
  <2>1. IterUpTo(0, x, suc, [i \in {0} |-> x])
        BY DEF IterUpTo
  <2> QED BY <2>1
<1>2. ASSUME NEW n \in T
      PROVE  n + 1 \in T
  <2>1. PICK h : IterUpTo(n, x, suc, h)
        OBVIOUS
  <2>2. IterUpTo(n + 1, x, suc, [i \in 0 .. n + 1 |-> IF i = n + 1 THEN suc[h[n]] ELSE h[i]])
        BY <2>1 DEF IterUpTo
  <2> QED BY <2>2
<1>3. T = Nat
  <2> HIDE DEF T
  <2>1. T \in SUBSET Nat
        BY DEF T
  <2> QED BY <1>1, <1>2, <2>1, Induction
<1> DEFINE H(n) == CHOOSE h : IterUpTo(n, x, suc, h)
           g == [n \in Nat |-> H(n)[n]]
<1>4. \A n \in Nat : IterUpTo(n, x, suc, H(n))
      BY <1>3, Zenon
<1> HIDE DEF H, T
<1>5. ASSUME NEW n \in Nat
      PROVE  g[n] = IF n = 0 THEN x ELSE suc[g[n - 1]]
  <2>1. CASE n = 0
        BY <1>4, <2>1 DEF IterUpTo
  <2>2. CASE n # 0
    <3>1. n - 1 \in Nat /\ n \in 1 .. n /\ n - 1 \in 0 .. n - 1
          BY <2>2
    <3>2. IterUpTo(n - 1, x, suc, H(n))
          BY <1>4, <2>2 DEF IterUpTo
    <3>3. H(n)[n - 1] = H(n - 1)[n - 1]
          BY <1>4, <3>1, <3>2, IterAgree
    <3>4. H(n)[n] = suc[H(n)[n - 1]]
          BY <1>4, <3>1 DEF IterUpTo
    <3> QED BY <2>2, <3>1, <3>3, <3>4
  <2> QED BY <2>1, <2>2
<1>6. g = [n \in Nat |-> IF n = 0 THEN x ELSE suc[g[n - 1]]]
  <2> HIDE DEF g
  <2>1. g = [n \in Nat |-> g[n]]
        BY DEF g
  <2> QED BY <1>5, <2>1
<1> QED BY <1>6, Zenon DEF Iterates

-----------------------------------------------------------------------------
(* The root directory                                                      *)

SectorsPerClus == vol.bpb.sec_per_clus
RootSuccessor(c) ==
    IF Find!Follows(Find!fs, c) THEN Find!EntryValue(Find!fs, Find!RawEntry(vol, c)) ELSE c

\* The numbers of a root directory.
LEMMA RootFacts ==
    ASSUME Find!Searchable(vol)
    PROVE  /\ Find!fs.sec_per_clus = SectorsPerClus /\ SectorsPerClus \in Nat \ {0}
           /\ Find!fs.root_sectors \in Nat
           /\ \A c \in Nat : RootSuccessor(c) \in Nat
           /\ vol.bpb.root_clus \in Nat
           /\ Find!fs.root_clus \in Nat
           /\ Find!Fat32 => Find!fs.root_clus = vol.bpb.root_clus
<1> USE DEF Find!Searchable, Find!WellFormed
<1>1. Find!fs.sec_per_clus = SectorsPerClus /\ SectorsPerClus \in Nat \ {0}
      BY DEF SectorsPerClus, Find!fs, Find!FatInit
<1>2. Find!fs.root_sectors \in Nat
  <2>1. PICK x \in Nat : x = vol.bpb.root_ent_cnt * DIR_ENTRY_SIZE + SECTOR_SIZE - 1
    <3>1. /\ DIR_ENTRY_SIZE \in Nat /\ vol.bpb.root_ent_cnt \in Nat
          /\ SECTOR_SIZE \in Nat \ {0}
          BY SectorSizeAssumption, DirEntrySizeAssumption
    <3>2. vol.bpb.root_ent_cnt * DIR_ENTRY_SIZE \in Nat
          BY <3>1
    <3> QED BY <3>1, <3>2
  <2>2. Find!fs.root_sectors = x \div SECTOR_SIZE
        BY <2>1 DEF Find!fs, Find!FatInit, Find!RootDirSectors
  <2> QED BY <2>1, <2>2, SectorSizeAssumption, QuotientRemainder
<1>3. ASSUME NEW c \in Nat
      PROVE  RootSuccessor(c) \in Nat
  <2>1. Find!RawEntry(vol, c) \in Nat
        BY DEF Find!RawEntry
  <2> QED BY <2>1 DEF RootSuccessor, Find!EntryValue
<1>4. vol.bpb.root_clus \in Nat
      OBVIOUS
<1>5. Find!fs.root_clus \in Nat /\ (Find!Fat32 => Find!fs.root_clus = vol.bpb.root_clus)
      BY DEF Find!fs, Find!FatInit, Find!Fat32
<1> QED BY <1>1, <1>2, <1>3, <1>4, <1>5

\* RootCluster[n] is where n hops from the root cluster lead.
LEMMA RootChain ==
    ASSUME Find!Searchable(vol)
    PROVE  /\ Find!RootCluster[0] = vol.bpb.root_clus
           /\ \A n \in Nat : /\ Find!RootCluster[n] \in Nat
                             /\ Find!RootCluster[n + 1] = RootSuccessor(Find!RootCluster[n])
<1> DEFINE suc == [c \in Nat |-> RootSuccessor(c)]
           x == vol.bpb.root_clus
<1>1. suc \in [Nat -> Nat] /\ x \in Nat
      BY RootFacts
<1>2. PICK g : g = [n \in Nat |-> IF n = 0 THEN x ELSE suc[g[n - 1]]]
  <2>1. \E g : Iterates(g, x, suc)
    <3> HIDE DEF suc, x
    <3> QED BY <1>1, Iteration
  <2> QED BY <2>1 DEF Iterates
<1>3. ASSUME NEW n \in Nat
      PROVE  g[n] \in Nat
  <2> DEFINE T == {i \in Nat : g[i] \in Nat}
  <2>1. 0 \in T
        BY <1>1, <1>2
  <2>2. ASSUME NEW i \in T PROVE i + 1 \in T
    <3>1. g[i + 1] = suc[g[i]]
          BY <1>2
    <3> QED BY <1>1, <3>1
  <2>3. T \in SUBSET Nat
        OBVIOUS
  <2> HIDE DEF T
  <2>4. T = Nat
        BY <2>1, <2>2, <2>3, Induction
  <2> QED BY <2>4 DEF T
<1>4. g = [n \in Nat |-> IF n = 0 THEN vol.bpb.root_clus
             ELSE LET c == g[n - 1]
                  IN  IF Find!Follows(Find!fs, c)
                      THEN Find!EntryValue(Find!fs, Find!RawEntry(vol, c)) ELSE c]
  <2>1. ASSUME NEW n \in Nat, n # 0
        PROVE  suc[g[n - 1]] = RootSuccessor(g[n - 1])
        BY <1>3, <2>1
  <2>2. g = [n \in Nat |-> IF n = 0 THEN vol.bpb.root_clus ELSE RootSuccessor(g[n - 1])]
        BY <1>2, <2>1
  <2> QED BY <2>2 DEF RootSuccessor
<1>5. Find!RootCluster = [n \in Nat |-> IF n = 0 THEN vol.bpb.root_clus
             ELSE LET c == Find!RootCluster[n - 1]
                  IN  IF Find!Follows(Find!fs, c)
                      THEN Find!EntryValue(Find!fs, Find!RawEntry(vol, c)) ELSE c]
      BY <1>4, Zenon DEF Find!RootCluster
<1>6. Find!RootCluster = [n \in Nat |->
          IF n = 0 THEN vol.bpb.root_clus ELSE RootSuccessor(Find!RootCluster[n - 1])]
      BY <1>5, Zenon DEF RootSuccessor
<1>7. /\ Find!RootCluster[0] = vol.bpb.root_clus
      /\ \A n \in Nat : Find!RootCluster[n + 1] = RootSuccessor(Find!RootCluster[n])
      BY <1>6
<1>8. ASSUME NEW n \in Nat
      PROVE  Find!RootCluster[n] \in Nat
  <2> DEFINE T == {i \in Nat : Find!RootCluster[i] \in Nat}
  <2>1. 0 \in T
        BY <1>1, <1>7
  <2>2. ASSUME NEW i \in T PROVE i + 1 \in T
        BY <1>7, RootFacts
  <2>3. T \in SUBSET Nat
        OBVIOUS
  <2> HIDE DEF T
  <2>4. T = Nat
        BY <2>1, <2>2, <2>3, Induction
  <2> QED BY <2>4 DEF T
<1> QED BY <1>7, <1>8

\* The clusters a FAT32 chain goes on with.
LEMMA FollowsOnFat32 ==
    ASSUME Find!Fat32, NEW c \in Nat
    PROVE  Find!Follows(Find!fs, c) <=> c >= 2 /\ c < 268435448
<1>1. Find!EndMark(Find!fs) = 268435448
      BY DEF Find!EndMark, Find!Fat32
<1> QED BY <1>1 DEF Find!Follows, Find!IsEnd

\* fat_find_file and fat_read_file use the same functions of fat.c.
LEMMA SameLookUp ==
    ASSUME Find!Searchable(vol), fcur \in Nat, Find!Follows(Find!fs, fcur)
    PROVE  Find!NextCluster = RootSuccessor(fcur)
<1>1. Find!fs = fs
      BY DEF Find!fs, fs, Find!FatInit, FatInit, Find!FatSize, FatSize, Find!TotalSectors,
             TotalSectors, Find!RootDirSectors, RootDirSectors, Find!FatType, FatType
<1>2. WellFormed(vol)
      BY DEF Find!Searchable, Find!WellFormed, WellFormed, Find!FatAccepts, FatAccepts
<1>3. RawEntryAt(fs, vol, FatSector(fs, fcur), FatOffset(fs, fcur)) = RawEntry(vol, fcur)
      BY <1>2, EntryAddressed
<1>4. Find!RawEntryAt(fs, vol, Find!FatSector(fs, fcur), Find!FatOffset(fs, fcur))
          = Find!RawEntry(vol, fcur)
      BY <1>3 DEF RawEntryAt, Find!RawEntryAt, FatSector, Find!FatSector, FatOffset,
             Find!FatOffset, RawEntry, Find!RawEntry, EntrySize, Find!EntrySize
<1> QED BY <1>1, <1>4 DEF Find!NextCluster, RootSuccessor

\* The chain of the root stays where it ends.
LEMMA RootStays ==
    ASSUME Find!Searchable(vol), NEW n \in Nat,
           ~Find!Follows(Find!fs, Find!RootCluster[n]), NEW m \in Nat, n <= m
    PROVE  Find!RootCluster[m] = Find!RootCluster[n]
<1> DEFINE T == {i \in Nat : Find!RootCluster[n + i] = Find!RootCluster[n]}
<1>1. 0 \in T
      OBVIOUS
<1>2. ASSUME NEW i \in T PROVE i + 1 \in T
  <2>1. Find!RootCluster[(n + i) + 1] = RootSuccessor(Find!RootCluster[n + i])
        BY RootChain
  <2>2. Find!RootCluster[n + (i + 1)] = RootSuccessor(Find!RootCluster[n])
        BY <2>1
  <2> QED BY <2>2 DEF RootSuccessor
<1>3. T \in SUBSET Nat
      OBVIOUS
<1> HIDE DEF T
<1>4. T = Nat
      BY <1>1, <1>2, <1>3, Induction
<1>5. m - n \in T /\ n + (m - n) = m
      BY <1>4
<1> QED BY <1>5 DEF T

\* A chain that comes to a cluster twice goes on as it did the first time.
LEMMA RootRepeats ==
    ASSUME Find!Searchable(vol), NEW i \in Nat, NEW j \in Nat,
           Find!RootCluster[i] = Find!RootCluster[j], NEW m \in Nat
    PROVE  Find!RootCluster[i + m] = Find!RootCluster[j + m]
<1> DEFINE T == {k \in Nat : Find!RootCluster[i + k] = Find!RootCluster[j + k]}
<1>1. 0 \in T
      OBVIOUS
<1>2. ASSUME NEW k \in T PROVE k + 1 \in T
  <2>1. /\ Find!RootCluster[(i + k) + 1] = RootSuccessor(Find!RootCluster[i + k])
        /\ Find!RootCluster[(j + k) + 1] = RootSuccessor(Find!RootCluster[j + k])
        BY RootChain
  <2>2. (i + k) + 1 = i + (k + 1) /\ (j + k) + 1 = j + (k + 1)
        OBVIOUS
  <2> QED BY <2>1, <2>2
<1>3. T \in SUBSET Nat
      OBVIOUS
<1> HIDE DEF T
<1>4. T = Nat
      BY <1>1, <1>2, <1>3, Induction
<1> QED BY <1>4 DEF T

-----------------------------------------------------------------------------
(* The search: the inductive invariant                                     *)

\* The first k sectors of the directory hold neither an end nor the name.
Clean(k) ==
    \A j \in 0 .. k - 1 : Find!HasSector(j) /\ Find!Stops(Find!DirSector(j)) = {}

\* The scan is about to read sector k of the directory, in its n-th cluster.
At(k, n) ==
    IF Find!Fat32
    THEN /\ fpc = "loop" => \/ k = n * SectorsPerClus /\ fcur = Find!RootCluster[n]
                            \/ fioError /\ ~Find!Follows(Find!fs, fcur)
         /\ fpc = "sector" => /\ fsec <= SectorsPerClus
                              /\ k = n * SectorsPerClus + fsec
         /\ fpc = "next" => k = n * SectorsPerClus + SectorsPerClus
         /\ fpc \in {"sector", "next"} => /\ fcur = Find!RootCluster[n]
                                          /\ Find!Follows(Find!fs, fcur)
    ELSE fpc = "sector" /\ fsec <= Find!fs.root_sectors /\ k = fsec

ScanInv ==
    /\ Find!Searchable(vol)
    /\ fpc \in {"loop", "sector", "next", "done"}
    /\ fcur \in Nat /\ fsec \in Nat
    /\ fpc # "done" => fret = "none" /\ \E k, n \in Nat : Clean(k) /\ At(k, n)
    /\ SearchIsRight

-----------------------------------------------------------------------------
\* Sector t of the n-th cluster of a FAT32 root.
LEMMA ClusterSector ==
    ASSUME Find!Searchable(vol), Find!Fat32, NEW n \in Nat, NEW t \in Nat, t < SectorsPerClus
    PROVE  LET k == n * SectorsPerClus + t
           IN  /\ k \in Nat
               /\ Find!HasSector(k) <=> Find!Follows(Find!fs, Find!RootCluster[n])
               /\ Find!DirSector(k) = Find!ClusterToLba(Find!fs, Find!RootCluster[n]) + t
<1>1. PICK spc \in Nat \ {0} : spc = SectorsPerClus /\ Find!fs.sec_per_clus = spc
      BY RootFacts
<1>2. (n * spc + t) \div spc = n /\ (n * spc + t) % spc = t /\ n * spc + t \in Nat
      BY <1>1, DivMod
<1> QED BY <1>1, <1>2 DEF Find!HasSector, Find!DirSector

\* A cluster that is followed by another one has an entry in the table.
LEMMA FollowedIsInTable ==
    ASSUME Find!Searchable(vol), Find!Fat32, NEW n \in Nat,
           Find!Follows(Find!fs, Find!RootCluster[n]),
           Find!Follows(Find!fs, Find!RootCluster[n + 1])
    PROVE  Find!RootCluster[n] \in DOMAIN vol.table
<1> SUFFICES ASSUME Find!RootCluster[n] \notin DOMAIN vol.table PROVE FALSE
    OBVIOUS
<1>1. Find!RootCluster[n + 1] = RootSuccessor(Find!RootCluster[n])
      BY RootChain
<1>2. Find!RootCluster[n + 1] = 0
      BY <1>1 DEF RootSuccessor, Find!RawEntry, Find!EntryValue
<1> QED BY <1>2, FollowsOnFat32

\* FatFind counts with the operators of its own instance of FiniteSets.
LEMMA SameFiniteSets ==
    ASSUME NEW S
    PROVE  /\ Find!IsFiniteSet(S) <=> IsFiniteSet(S)
           /\ Find!Cardinality(S) = Cardinality(S)
<1>1. Find!IsFiniteSet(S) <=> IsFiniteSet(S)
      BY DEF Find!IsFiniteSet, IsFiniteSet
<1>2. Find!Cardinality(S) = Cardinality(S)
      BY Zenon DEF Find!Cardinality, Cardinality
<1> QED BY <1>1, <1>2

\* The table has as many entries as MaxHops says.
LEMMA TableIsFinite ==
    ASSUME Find!Searchable(vol)
    PROVE  /\ IsFiniteSet(DOMAIN vol.table) /\ Find!MaxHops = Cardinality(DOMAIN vol.table)
           /\ Find!MaxHops \in Nat
<1>1. IsFiniteSet(DOMAIN vol.table)
      BY SameFiniteSets DEF Find!Searchable
<1>2. Find!MaxHops = Cardinality(DOMAIN vol.table)
      BY SameFiniteSets DEF Find!MaxHops
<1> QED BY <1>1, <1>2, FS_CardinalityType

\* A sector that stops the scan is found within as many clusters as the table
\* has: a chain that is longer repeats itself, and so do its sectors.
LEMMA FoundInTime ==
    ASSUME Find!Searchable(vol), Find!Fat32, NEW n \in Nat, NEW t \in Nat, t < SectorsPerClus,
           Clean(n * SectorsPerClus + t), Find!Follows(Find!fs, Find!RootCluster[n]),
           Find!Stops(Find!DirSector(n * SectorsPerClus + t)) # {}
    PROVE  n <= Find!MaxHops
<1> SUFFICES ASSUME n > Find!MaxHops PROVE FALSE
    BY TableIsFinite
<1> DEFINE f == [i \in 0 .. n - 1 |-> Find!RootCluster[i]]
<1>0. PICK spc \in Nat \ {0} : spc = SectorsPerClus
      BY RootFacts
<1>1. ASSUME NEW i \in 0 .. n
      PROVE  Find!Follows(Find!fs, Find!RootCluster[i])
  <2>1. CASE i < n
    <3>1. i * spc + spc <= n * spc
      <4>1. (i + 1) * spc <= n * spc
            BY <2>1
      <4> QED BY <4>1
    <3>2. i * spc + 0 \in 0 .. (n * spc + t) - 1
          BY <3>1
    <3>3. Find!HasSector(i * spc + 0)
          BY <1>0, <3>2 DEF Clean
    <3>4. i \in Nat /\ 0 < SectorsPerClus
          BY <1>0
    <3> QED BY <1>0, <3>3, <3>4, ClusterSector
  <2> QED BY <2>1
<1>2. f \in [0 .. n - 1 -> DOMAIN vol.table]
  <2>1. ASSUME NEW i \in 0 .. n - 1
        PROVE  Find!RootCluster[i] \in DOMAIN vol.table
    <3>1. i \in Nat /\ i \in 0 .. n /\ i + 1 \in 0 .. n
          OBVIOUS
    <3> QED BY <1>1, <3>1, FollowedIsInTable
  <2> QED BY <2>1
<1>3. PICK a, b \in 0 .. n - 1 : a # b /\ f[a] = f[b]
  <2>1. IsFiniteSet(0 .. n - 1) /\ Cardinality(0 .. n - 1) = n
    <3>1. /\ IsFiniteSet(0 .. n - 1)
          /\ Cardinality(0 .. n - 1) = IF 0 > n - 1 THEN 0 ELSE (n - 1) - 0 + 1
          BY FS_Interval
    <3> QED BY <3>1
  <2>2. IsFiniteSet(DOMAIN vol.table) /\ Cardinality(DOMAIN vol.table) < n
        BY TableIsFinite
  <2> HIDE DEF f
  <2> QED BY <1>2, <2>1, <2>2, FS_PigeonHole
<1>4. PICK i, j \in 0 .. n - 1 : i < j /\ Find!RootCluster[i] = Find!RootCluster[j]
      BY <1>3
<1>5. PICK m \in Nat : m = i + (n - j) /\ m < n /\ Find!RootCluster[m] = Find!RootCluster[n]
  <2>1. PICK d \in Nat : d = n - j /\ j + d = n /\ i + d \in Nat /\ i + d < n
        BY <1>4
  <2>2. Find!RootCluster[i + d] = Find!RootCluster[j + d]
    <3>1. i \in Nat /\ j \in Nat
          OBVIOUS
    <3> QED BY <1>4, <3>1, RootRepeats
  <2> QED BY <2>1, <2>2
<1>6. m * spc + t \in 0 .. (n * spc + t) - 1
  <2>1. (m + 1) * spc <= n * spc
        BY <1>5
  <2>2. m * spc + spc <= n * spc
        BY <2>1
  <2> QED BY <2>2
<1>7. Find!DirSector(m * spc + t) = Find!DirSector(n * spc + t)
      BY <1>0, <1>5, ClusterSector
<1> QED BY <1>0, <1>6, <1>7 DEF Clean

-----------------------------------------------------------------------------
(* The search: the steps                                                   *)

\* A directory stays what it is while it is searched.
LEMMA DirectoryKept ==
    ASSUME UNCHANGED vol
    PROVE  /\ Find!fs' = Find!fs /\ Find!Fat32' = Find!Fat32
           /\ SectorsPerClus' = SectorsPerClus /\ Find!MaxHops' = Find!MaxHops
           /\ Find!RootCluster' = Find!RootCluster
           /\ Find!SectorNumbers' = Find!SectorNumbers
           /\ \A k : /\ Find!HasSector(k)' <=> Find!HasSector(k)
                     /\ Find!DirSector(k)' = Find!DirSector(k)
                     /\ Find!Stops(k)' = Find!Stops(k)
                     /\ Clean(k)' <=> Clean(k)
           /\ \A k, e : Find!IsTheEntry(k, e)' <=> Find!IsTheEntry(k, e)
<1>1. Find!fs' = Find!fs /\ Find!Fat32' = Find!Fat32 /\ SectorsPerClus' = SectorsPerClus
      BY DEF Find!fs, Find!Fat32, SectorsPerClus
<1>2. Find!RootCluster' = Find!RootCluster
      BY <1>1, Zenon DEF Find!RootCluster
<1>3. Find!MaxHops' = Find!MaxHops
      BY DEF Find!MaxHops
<1>4. Find!SectorNumbers' = Find!SectorNumbers
      BY <1>1, <1>3 DEF Find!SectorNumbers
<1>5. \A k : Find!HasSector(k)' <=> Find!HasSector(k)
      BY <1>1, <1>2 DEF Find!HasSector
<1>6. \A k : Find!DirSector(k)' = Find!DirSector(k)
      BY <1>1, <1>2 DEF Find!DirSector
<1>7. \A k, e : Find!DirEntry(k, e)' = Find!DirEntry(k, e)
      BY DEF Find!DirEntry
<1>8. \A k : Find!Stops(k)' = Find!Stops(k)
      BY DEF Find!Stops, Find!DirEntry
<1>9. \A k : Clean(k)' <=> Clean(k)
      BY <1>5, <1>6, <1>8, Zenon DEF Clean
<1>10. \A k, e : Find!IsTheEntry(k, e)' <=> Find!IsTheEntry(k, e)
      BY <1>5, <1>6, <1>7, Zenon DEF Find!IsTheEntry
<1> QED BY <1>1, <1>2, <1>3, <1>4, <1>5, <1>6, <1>8, <1>9, <1>10

\* The sector read next is sector k of the directory.
LEMMA ScanPlace ==
    ASSUME ScanInv, fpc = "sector", NEW k \in Nat, NEW n \in Nat, Clean(k), At(k, n),
           fsec < Find!SectorLimit
    PROVE  /\ Find!HasSector(k) /\ Find!DirSector(k) = Find!SectorLba
           /\ Find!Stops(Find!DirSector(k)) # {} => k \in Find!SectorNumbers
<1>0. Find!Searchable(vol) /\ fsec \in Nat
      BY DEF ScanInv
<1>1. CASE Find!Fat32
  <2>1. /\ fsec < SectorsPerClus /\ k = n * SectorsPerClus + fsec
        /\ fcur = Find!RootCluster[n] /\ Find!Follows(Find!fs, Find!RootCluster[n])
        BY <1>0, <1>1, RootFacts DEF At, Find!SectorLimit
  <2>2. Find!HasSector(k)
        BY <1>0, <1>1, <2>1, ClusterSector
  <2>3. Find!DirSector(k) = Find!SectorLba
        BY <1>0, <1>1, <2>1, ClusterSector DEF Find!SectorLba
  <2>4. ASSUME Find!Stops(Find!DirSector(k)) # {}
        PROVE  k \in Find!SectorNumbers
    <3>1. n <= Find!MaxHops
          BY <1>0, <1>1, <2>1, <2>4, FoundInTime
    <3>2. PICK spc \in Nat \ {0}, m \in Nat :
             spc = SectorsPerClus /\ spc = Find!fs.sec_per_clus /\ m = Find!MaxHops
          BY <1>0, RootFacts, TableIsFinite
    <3>3. n * spc <= m * spc /\ (m + 1) * spc = m * spc + spc
          BY <3>1, <3>2
    <3>4. k <= (m + 1) * spc - 1 /\ (m + 1) * spc \in Nat
          BY <1>0, <2>1, <3>2, <3>3
    <3> QED BY <1>1, <3>2, <3>4 DEF Find!SectorNumbers
  <2> QED BY <2>2, <2>3, <2>4
<1>2. CASE ~Find!Fat32
  <2>1. k = fsec /\ k < Find!fs.root_sectors /\ Find!fs.root_sectors \in Nat
        BY <1>0, <1>2, RootFacts DEF At, Find!SectorLimit
  <2>2. Find!HasSector(k) /\ Find!DirSector(k) = Find!SectorLba
        BY <1>2, <2>1 DEF Find!HasSector, Find!DirSector, Find!SectorLba
  <2>3. k \in Find!SectorNumbers
        BY <1>2, <2>1 DEF Find!SectorNumbers
  <2> QED BY <2>2, <2>3
<1> QED BY <1>1, <1>2

\* The entries of a sector are numbered from 0.
LEMMA EntryNumbers == Find!EntriesPerSector \in Nat /\ Find!EntryIdx \subseteq Nat
<1>1. \A x, y \in Nat \ {0} : y <= x => x \div y \in Nat
  <2> SUFFICES ASSUME NEW x \in Nat \ {0}, NEW y \in Nat \ {0} PROVE x \div y \in Nat
      OBVIOUS
  <2> QED BY QuotientRemainder
<1>2. EntriesPerSector \in Nat
      BY <1>1, SectorSizeAssumption, DirEntrySizeAssumption DEF EntriesPerSector
<1>3. Find!EntriesPerSector \in Nat
      BY <1>2 DEF EntriesPerSector, Find!EntriesPerSector
<1> QED BY <1>3 DEF Find!EntryIdx

\* A sector in which the scan stops at entry e.
LEMMA StopsAt ==
    ASSUME NEW k \in Nat, Clean(k), Find!HasSector(k),
           NEW e \in Find!Stops(Find!DirSector(k)),
           \A f \in Find!Stops(Find!DirSector(k)) : e <= f
    PROVE  /\ Find!DirEntry(Find!DirSector(k), e) = "match" => Find!IsTheEntry(k, e)
           /\ Find!DirEntry(Find!DirSector(k), e) # "match" =>
                 \A j \in Nat, f \in Find!EntryIdx : ~Find!IsTheEntry(j, f)
<1>1. e \in Find!EntryIdx /\ e \in Nat
      BY EntryNumbers DEF Find!Stops
<1>2. \A f \in 0 .. e - 1 : Find!DirEntry(Find!DirSector(k), f) \notin {"end", "match"}
  <2> SUFFICES ASSUME NEW f \in 0 .. e - 1,
                      Find!DirEntry(Find!DirSector(k), f) \in {"end", "match"}
               PROVE  FALSE
      OBVIOUS
  <2>1. f \in Find!EntryIdx
        BY <1>1, EntryNumbers DEF Find!EntryIdx
  <2>2. f \in Find!Stops(Find!DirSector(k))
        BY <2>1 DEF Find!Stops
  <2> QED BY <1>1, <2>2
<1>3. \A j \in 0 .. k - 1, f \in Find!EntryIdx :
          Find!DirEntry(Find!DirSector(j), f) \notin {"end", "match"}
      BY DEF Clean, Find!Stops
<1>4. ASSUME Find!DirEntry(Find!DirSector(k), e) # "match",
             NEW j \in Nat, NEW f \in Find!EntryIdx, Find!IsTheEntry(j, f)
      PROVE  FALSE
  <2>1. Find!DirEntry(Find!DirSector(j), f) = "match"
        BY <1>4 DEF Find!IsTheEntry
  <2>2. CASE j < k
        BY <1>3, <2>1, <2>2
  <2>3. CASE j = k
    <3>1. f \in Find!Stops(Find!DirSector(k))
          BY <2>1, <2>3 DEF Find!Stops
    <3>2. e <= f /\ e # f /\ f \in Nat
          BY <1>4, <2>1, <2>3, <3>1, EntryNumbers
    <3>3. e \in 0 .. f - 1
          BY <1>1, <3>2
    <3> QED BY <1>4, <2>3, <3>3 DEF Find!IsTheEntry, Find!Stops
  <2>4. CASE j > k
    <3>1. k \in 0 .. j - 1
          BY <2>4
    <3>2. Find!DirEntry(Find!DirSector(k), e) \notin {"end", "match"}
          BY <1>1, <1>4, <3>1 DEF Find!IsTheEntry
    <3> QED BY <3>2 DEF Find!Stops
  <2> QED BY <2>2, <2>3, <2>4
<1> QED BY <1>1, <1>2, <1>3, <1>4 DEF Find!IsTheEntry

\* The scan comes to its end without having found the name.
LEMMA NothingLeft ==
    ASSUME ScanInv, Find!Exhausted, ~fioError
    PROVE  \A k \in Find!SectorNumbers, e \in Find!EntryIdx : ~Find!IsTheEntry(k, e)
<1>0. Find!Searchable(vol) /\ fpc # "done"
      BY DEF ScanInv, Find!Exhausted
<1>1. PICK k \in Nat, n \in Nat : Clean(k) /\ At(k, n)
      BY <1>0 DEF ScanInv
<1>2. Find!SectorNumbers \subseteq Nat
      BY DEF Find!SectorNumbers
<1>3. \A j \in Nat : j >= k => ~Find!HasSector(j)
  <2>1. CASE Find!Fat32
    <3>1. /\ k = n * SectorsPerClus /\ fcur = Find!RootCluster[n]
          /\ ~Find!Follows(Find!fs, Find!RootCluster[n])
          BY <1>1, <2>1 DEF At, Find!Exhausted
    <3>2. PICK spc \in Nat \ {0} : spc = SectorsPerClus /\ spc = Find!fs.sec_per_clus
          BY <1>0, RootFacts
    <3>3. ASSUME NEW j \in Nat, j >= k
          PROVE  ~Find!HasSector(j)
      <4>1. PICK q \in Nat : q = j \div spc
            BY <3>2, QuotientRemainder
      <4>2. q >= n
        <5>1. PICK r \in 0 .. spc - 1 : q * spc + r = j
              BY <3>2, <4>1, QuotientRemainder
        <5> SUFFICES ASSUME q + 1 <= n PROVE FALSE
            OBVIOUS
        <5>2. (q + 1) * spc <= n * spc /\ (q + 1) * spc = q * spc + spc
              BY <3>2
        <5>3. n * spc \in Nat /\ q * spc \in Nat
              BY <3>2
        <5> QED BY <3>1, <3>2, <3>3, <5>1, <5>2, <5>3
      <4>3. Find!RootCluster[q] = Find!RootCluster[n]
            BY <1>0, <3>1, <4>2, RootStays
      <4> QED BY <2>1, <3>1, <3>2, <4>1, <4>3 DEF Find!HasSector
    <3> QED BY <3>3
  <2>2. CASE ~Find!Fat32
    <3>1. k = Find!fs.root_sectors /\ Find!fs.root_sectors \in Nat
          BY <1>0, <1>1, <2>2, RootFacts DEF At, Find!Exhausted
    <3> QED BY <2>2, <3>1 DEF Find!HasSector
  <2> QED BY <2>1, <2>2
<1>4. ASSUME NEW j \in Find!SectorNumbers, NEW e \in Find!EntryIdx, Find!IsTheEntry(j, e)
      PROVE  FALSE
  <2>1. j \in Nat /\ j < k
        BY <1>2, <1>3, <1>4 DEF Find!IsTheEntry
  <2>2. Find!Stops(Find!DirSector(j)) = {}
        BY <1>1, <2>1 DEF Clean
  <2> QED BY <1>4, <2>2 DEF Find!IsTheEntry, Find!Stops
<1> QED BY <1>4

\* Where the steps take the scan.
LEMMA NextSector ==
    ASSUME ScanInv, Find!ScanSector, Find!Stops(Find!SectorLba) = {}
    PROVE  ScanInv'
<1> USE DEF Find!ScanSector
<1>0. /\ UNCHANGED <<vol, fcur, fioError, fpc, found, fret>> /\ fsec' = fsec + 1
      /\ fpc = "sector" /\ fsec < Find!SectorLimit
      OBVIOUS
<1>1. PICK k \in Nat, n \in Nat : Clean(k) /\ At(k, n)
      BY <1>0 DEF ScanInv
<1>2. Find!HasSector(k) /\ Find!DirSector(k) = Find!SectorLba
      BY <1>0, <1>1, ScanPlace
<1>3. Clean(k + 1)
  <2>1. \A j \in 0 .. (k + 1) - 1 : j = k \/ j \in 0 .. k - 1
        OBVIOUS
  <2> QED BY <1>1, <1>2, <2>1 DEF Clean
<1>4. At(k + 1, n)'
  <2>1. /\ Find!fs' = Find!fs /\ (Find!Fat32' <=> Find!Fat32)
        /\ SectorsPerClus' = SectorsPerClus /\ Find!RootCluster' = Find!RootCluster
        BY <1>0, DirectoryKept
  <2>2. CASE Find!Fat32
    <3>1. PICK spc \in Nat \ {0} : spc = SectorsPerClus /\ Find!fs.sec_per_clus = spc
          BY RootFacts DEF ScanInv
    <3>2. /\ fsec' <= spc /\ k + 1 = n * spc + fsec'
          /\ fcur' = Find!RootCluster[n] /\ Find!Follows(Find!fs, fcur')
      <4>1. fsec < spc /\ k = n * spc + fsec /\ fsec \in Nat /\ n * spc \in Nat
            BY <1>0, <1>1, <2>2, <3>1 DEF At, ScanInv, Find!SectorLimit
      <4>2. fcur = Find!RootCluster[n] /\ Find!Follows(Find!fs, fcur)
            BY <1>0, <1>1, <2>2 DEF At
      <4> QED BY <1>0, <4>1, <4>2
    <3> QED BY <1>0, <2>1, <2>2, <3>1, <3>2 DEF At
  <2>3. CASE ~Find!Fat32
    <3>1. fsec' <= Find!fs.root_sectors /\ k + 1 = fsec'
          BY <1>0, <1>1, <2>3, RootFacts DEF At, ScanInv, Find!SectorLimit
    <3> QED BY <1>0, <2>1, <2>3, <3>1 DEF At
  <2> QED BY <2>2, <2>3
<1>5. Clean(k + 1)' /\ k + 1 \in Nat
      BY <1>0, <1>3, DirectoryKept
<1>6. SearchIsRight'
      BY <1>0 DEF SearchIsRight, Find!FoundIsTheEntry, Find!NotFoundIsAbsent, ScanInv
<1> QED BY <1>0, <1>4, <1>5, <1>6 DEF ScanInv

\* The scan stops at the right entry or at the end mark,
LEMMA ScanStops ==
    ASSUME ScanInv, Find!ScanSector, Find!Stops(Find!SectorLba) # {}
    PROVE  ScanInv'
<1>1. PICK e \in Find!Stops(Find!SectorLba) :
         /\ \A f \in Find!Stops(Find!SectorLba) : e <= f
         /\ IF Find!DirEntry(Find!SectorLba, e) = "match"
            THEN found' = <<Find!SectorLba, e>> /\ fret' = "ok"
            ELSE found' = found /\ fret' = "err"
         /\ fpc' = "done" /\ fsec' = fsec
      BY DEF Find!ScanSector
<1>2. /\ UNCHANGED <<vol, fcur, fioError>> /\ fpc = "sector" /\ fsec < Find!SectorLimit
      BY DEF Find!ScanSector
<1>3. PICK k \in Nat, n \in Nat : Clean(k) /\ At(k, n)
      BY <1>2 DEF ScanInv
<1>4. /\ Find!HasSector(k) /\ Find!DirSector(k) = Find!SectorLba
      /\ k \in Find!SectorNumbers
      BY <1>2, <1>3, ScanPlace
<1>5. /\ Find!DirEntry(Find!SectorLba, e) = "match" => Find!IsTheEntry(k, e)
      /\ Find!DirEntry(Find!SectorLba, e) # "match" =>
            \A j \in Nat, f \in Find!EntryIdx : ~Find!IsTheEntry(j, f)
  <2>1. e \in Find!Stops(Find!DirSector(k))
        BY <1>1, <1>4
  <2>2. \A f \in Find!Stops(Find!DirSector(k)) : e <= f
        BY <1>1, <1>4
  <2>3. /\ Find!DirEntry(Find!DirSector(k), e) = "match" => Find!IsTheEntry(k, e)
        /\ Find!DirEntry(Find!DirSector(k), e) # "match" =>
              \A j \in Nat, f \in Find!EntryIdx : ~Find!IsTheEntry(j, f)
        BY <1>3, <1>4, <2>1, <2>2, StopsAt
  <2> QED BY <1>4, <2>3
<1>6. e \in Find!EntryIdx /\ Find!EntryIdx' = Find!EntryIdx
      BY DEF Find!Stops, Find!EntryIdx, Find!EntriesPerSector
<1>7. Find!SectorNumbers \subseteq Nat
      BY DEF Find!SectorNumbers
<1>8. Find!FoundIsTheEntry'
  <2>1. CASE Find!DirEntry(Find!SectorLba, e) = "match"
    <3>1. Find!IsTheEntry(k, e) /\ found' = <<Find!DirSector(k), e>>
          BY <1>1, <1>4, <1>5, <2>1
    <3>2. /\ Find!IsTheEntry(k, e)' /\ k \in Find!SectorNumbers'
          /\ found' = <<Find!DirSector(k)', e>>
          BY <1>2, <1>4, <3>1, DirectoryKept
    <3> QED BY <1>6, <3>2 DEF Find!FoundIsTheEntry
  <2>2. CASE Find!DirEntry(Find!SectorLba, e) # "match"
        BY <1>1, <2>2 DEF Find!FoundIsTheEntry
  <2> QED BY <2>1, <2>2
<1>9. Find!NotFoundIsAbsent'
  <2>1. CASE Find!DirEntry(Find!SectorLba, e) # "match"
    <3>1. \A j \in Nat, f \in Find!EntryIdx : ~Find!IsTheEntry(j, f)'
          BY <1>2, <1>5, <2>1, DirectoryKept
    <3>2. Find!SectorNumbers' \subseteq Nat
          BY <1>2, <1>7, DirectoryKept
    <3> QED BY <1>6, <3>1, <3>2 DEF Find!NotFoundIsAbsent
  <2>2. CASE Find!DirEntry(Find!SectorLba, e) = "match"
        BY <1>1, <2>2 DEF Find!NotFoundIsAbsent
  <2> QED BY <2>1, <2>2
<1> QED BY <1>1, <1>2, <1>8, <1>9 DEF ScanInv, SearchIsRight

\* at the end of the directory,
LEMMA ScanExhausted ==
    ASSUME ScanInv, Find!Exhausted
    PROVE  ScanInv'
<1>1. /\ UNCHANGED <<vol, fcur, fsec, found, fioError>> /\ fret' = "err" /\ fpc' = "done"
      BY DEF Find!Exhausted
<1>2. ASSUME ~fioError'
      PROVE  \A k \in Find!SectorNumbers', e \in Find!EntryIdx' : ~Find!IsTheEntry(k, e)'
  <2>1. \A k \in Find!SectorNumbers, e \in Find!EntryIdx : ~Find!IsTheEntry(k, e)
        BY <1>1, <1>2, NothingLeft
  <2> QED BY <1>1, <2>1, DirectoryKept DEF Find!EntryIdx, Find!EntriesPerSector
<1> QED BY <1>1, <1>2
        DEF ScanInv, SearchIsRight, Find!FoundIsTheEntry, Find!NotFoundIsAbsent

\* and goes on from sector to sector
LEMMA ScanMoves ==
    ASSUME ScanInv, Find!EnterCluster \/ Find!LeaveCluster
    PROVE  ScanInv'
<1>0. /\ UNCHANGED <<vol, fcur, found, fret, fioError>> /\ fpc # "done" /\ fpc' # "done"
      BY DEF Find!EnterCluster, Find!LeaveCluster
<1>1. PICK k \in Nat, n \in Nat : Clean(k) /\ At(k, n)
      BY <1>0 DEF ScanInv
<1>2. /\ Find!fs' = Find!fs /\ (Find!Fat32' <=> Find!Fat32)
      /\ SectorsPerClus' = SectorsPerClus /\ Find!RootCluster' = Find!RootCluster
      /\ Clean(k)'
      BY <1>0, <1>1, DirectoryKept
<1>3. /\ Find!fs.sec_per_clus = SectorsPerClus /\ SectorsPerClus \in Nat
      /\ n * SectorsPerClus + 0 = n * SectorsPerClus
      BY RootFacts DEF ScanInv
<1>4. At(k, n)' /\ fpc' \in {"sector", "next"} /\ fsec' \in Nat
  <2>1. CASE Find!EnterCluster
    <3>1. fpc = "loop" /\ fpc' = "sector" /\ fsec' = 0 /\ Find!Follows(Find!fs, fcur)
          BY <2>1 DEF Find!EnterCluster
    <3>2. Find!Fat32 /\ k = n * SectorsPerClus /\ fcur = Find!RootCluster[n]
          BY <1>1, <3>1 DEF At
    <3> QED BY <1>0, <1>2, <1>3, <3>1, <3>2 DEF At
  <2>2. CASE Find!LeaveCluster
    <3>1. /\ fpc = "sector" /\ fpc' = "next" /\ Find!Fat32 /\ fsec = SectorsPerClus
          /\ fsec' = fsec
          BY <1>3, <2>2 DEF Find!LeaveCluster, Find!SectorLimit
    <3>2. /\ k = n * SectorsPerClus + SectorsPerClus
          /\ fcur = Find!RootCluster[n] /\ Find!Follows(Find!fs, fcur)
          BY <1>1, <3>1 DEF At
    <3> QED BY <1>0, <1>2, <1>3, <3>1, <3>2 DEF At
  <2> QED BY <2>1, <2>2
<1> QED BY <1>0, <1>2, <1>4
        DEF ScanInv, SearchIsRight, Find!FoundIsTheEntry, Find!NotFoundIsAbsent

\* and from cluster to cluster.
LEMMA ScanFollows ==
    ASSUME ScanInv, Find!FollowChain \/ Find!FollowChainFails
    PROVE  ScanInv'
<1>0. /\ UNCHANGED <<vol, fsec, found, fret>> /\ fpc = "next" /\ fpc' = "loop"
      BY DEF Find!FollowChain, Find!FollowChainFails
<1>1. PICK k \in Nat, n \in Nat : Clean(k) /\ At(k, n)
      BY <1>0 DEF ScanInv
<1>2. /\ Find!fs' = Find!fs /\ (Find!Fat32' <=> Find!Fat32)
      /\ SectorsPerClus' = SectorsPerClus /\ Find!RootCluster' = Find!RootCluster
      /\ Clean(k)'
      BY <1>0, <1>1, DirectoryKept
<1>3. /\ Find!Fat32 /\ k = n * SectorsPerClus + SectorsPerClus
      /\ fcur = Find!RootCluster[n] /\ Find!Follows(Find!fs, fcur)
      BY <1>0, <1>1 DEF At
<1>4. At(k, n + 1)' /\ fcur' \in Nat
  <2>1. CASE Find!FollowChain
    <3>1. fcur' = Find!RootCluster[n + 1] /\ fcur' \in Nat
          BY <1>3, <2>1, SameLookUp, RootChain DEF Find!FollowChain, ScanInv
    <3>2. k = (n + 1) * SectorsPerClus
          BY <1>3, RootFacts DEF ScanInv
    <3> QED BY <1>0, <1>2, <1>3, <3>1, <3>2 DEF At
  <2>2. CASE Find!FollowChainFails
    <3>1. fcur' = 268435455 /\ fioError'
          BY <1>3, <2>2 DEF Find!FollowChainFails, Find!FailedEntry, Find!Fat32
    <3>2. ~Find!Follows(Find!fs, fcur')
          BY <1>3, <3>1, FollowsOnFat32
    <3> QED BY <1>0, <1>2, <1>3, <3>1, <3>2 DEF At
  <2> QED BY <2>1, <2>2
<1>5. n + 1 \in Nat
      OBVIOUS
<1> QED BY <1>0, <1>2, <1>4, <1>5
        DEF ScanInv, SearchIsRight, Find!FoundIsTheEntry, Find!NotFoundIsAbsent

\* Every step of the scan keeps its invariant.
LEMMA ScanStep ==
    ASSUME ScanInv, Find!Next
    PROVE  ScanInv'
<1>1. CASE Find!ScanSector
      BY <1>1, NextSector, ScanStops
<1>2. CASE Find!ScanSectorFails
      BY <1>2 DEF Find!ScanSectorFails, ScanInv, SearchIsRight, Find!FoundIsTheEntry,
                  Find!NotFoundIsAbsent
<1> QED BY <1>1, <1>2, ScanExhausted, ScanMoves, ScanFollows DEF Find!Next

-----------------------------------------------------------------------------
(* The image as a volume                                                   *)

\* FatFind and FatRead ask the same of a volume.
LEMMA SameVolumes ==
    ASSUME NEW v
    PROVE  Find!WellFormed(v) <=> WellFormed(v)
BY DEF Find!WellFormed, WellFormed, Find!FatAccepts, FatAccepts

\* The parameters that the reader finds.
LEMMA ImageParameters ==
    ASSUME MkInv, ImageWritten
    PROVE  /\ ImageVolume.bpb = Bpb /\ ImageVolume.part = PARTITION_START_LBA
           /\ ImageVolume.table =
                 [c \in 0 .. next - 1 |-> disk[FatSector(ImageFs, c)][FatOffset(ImageFs, c)].fat]
           /\ ImageVolume.dir =
                 [l \in {l \in DOMAIN disk : l >= ImageFs.data_sec} |->
                    [e \in 0 .. EntriesPerSector - 1 |->
                       IF e * DIR_ENTRY_SIZE \in DOMAIN disk[l]
                       THEN EntryClass(disk[l][e * DIR_ENTRY_SIZE]) ELSE "end"]]
           /\ ImageVolume.files =
                 {x \in UNION {{disk[l][off] : off \in DOMAIN disk[l]} :
                                  l \in {l \in DOMAIN disk : l >= ImageFs.data_sec}} :
                     EntryClass(x) = "match"}
<1>1. /\ disk[0][446].start = PARTITION_START_LBA
      /\ disk[PARTITION_START_LBA][0] = Bpb
      BY ImageBootSector DEF BootSector
<1>2. FatInit(disk[disk[0][446].start][0], disk[0][446].start) = ImageFs
      BY <1>1 DEF ImageFs
<1> QED BY <1>1, <1>2, Zenon DEF ImageVolume

\* The table of the image is its first FAT.
LEMMA ImageTable ==
    ASSUME MkInv, ImageWritten, NEW c \in DOMAIN ImageVolume.table, NEW v,
           HasEntry(disk, 0, c, v)
    PROVE  ImageVolume.table[c] = v
<1>1. FatSector(ImageFs, c) = FatLba(0, c) /\ FatOffset(ImageFs, c) = FatOff(c)
  <2>1. PARTITION_START_LBA + RSVD_SEC_CNT = g_fat_start /\ g_fat_start + 0 * g_fat_size = g_fat_start
        BY FatExtent, Geography DEF g_fat_start
  <2> QED BY <2>1, ImageGeometry DEF FatSector, FatOffset, FatLba, FatOff
<1>2. ImageVolume.table[c] = disk[FatLba(0, c)][FatOff(c)].fat
      BY <1>1, ImageParameters
<1>3. FatOff(c) \in DOMAIN Sector(disk, FatLba(0, c))
      /\ Sector(disk, FatLba(0, c))[FatOff(c)] = [fat |-> v]
      BY DEF HasEntry
<1>4. disk[FatLba(0, c)] = Sector(disk, FatLba(0, c))
      BY <1>3, SectorThere
<1> QED BY <1>2, <1>3, <1>4

\* The entry of that name is the one mkdisk made for the kernel.
LEMMA KernelEntry ==
    ASSUME MkInv, ImageWritten, NEW e \in ImageVolume.files
    PROVE  e = Entry(size, 7)
<1>1. PICK l \in DOMAIN disk : \E off \in DOMAIN disk[l] : e = disk[l][off]
      BY ImageParameters
<1>2. PICK off \in DOMAIN Sector(disk, l) : e = Sector(disk, l)[off]
      BY <1>1 DEF Sector
<1>3. IsKernel(e)
      BY ImageParameters DEF EntryClass, IsKernel
<1>4. KernelOnly(disk, size)
      BY Finished DEF Layout
<1> QED BY <1>2, <1>3, <1>4 DEF KernelOnly

\* The image is a volume the loader can search.
LEMMA ImageIsVolume ==
    ASSUME MkInv, ImageWritten
    PROVE  Find!Searchable(ImageVolume) /\ HasFiles(ImageVolume)
<1>1. ASSUME NEW c \in DOMAIN ImageVolume.table
      PROVE  ImageVolume.table[c] \in Nat
  <2>1. c \in 0 .. next - 1
        BY ImageParameters
  <2>2. PICK v \in Nat : HasEntry(disk, 0, c, v)
        BY <2>1, EveryEntry
  <2> QED BY <2>2, ImageTable
<1>2. /\ Bpb.bytes_per_sec = SECTOR_SIZE /\ Bpb.sec_per_clus \in Nat \ {0}
      /\ Bpb.rsvd_sec_cnt \in Nat /\ PARTITION_START_LBA \in Nat
      /\ Bpb.root_clus \in Nat /\ Bpb.root_ent_cnt \in Nat
      BY Geography DEF Bpb, ROOT_CLUS
<1>3. Find!WellFormed(ImageVolume)
      BY <1>1, <1>2, ImageParameters DEF Find!WellFormed, Find!FatAccepts
<1>4. IsFiniteSet(DOMAIN ImageVolume.table)
  <2>1. next \in Nat
    <3>1. /\ size \in HostSizes /\ step \in 1 .. 12 /\ clus \in Seq(Nat)
          /\ next = Begin(size, step) + Len(clus)
          BY DEF MkInv, Counted
    <3>2. Begin(size, step) \in Nat
          BY <3>1, Begins, Zenon
    <3>3. Len(clus) \in Nat
          BY <3>1
    <3> QED BY <3>1, <3>2, <3>3
  <2>2. DOMAIN ImageVolume.table = 0 .. next - 1 /\ 0 \in Int /\ next - 1 \in Int
        BY <2>1, ImageParameters
  <2> QED BY <2>2, FS_Interval
<1>5. Find!Searchable(ImageVolume)
      BY <1>2, <1>3, <1>4, ImageParameters, SameFiniteSets DEF Find!Searchable
<1>6. ASSUME NEW e \in ImageVolume.files
      PROVE  e.first \in Nat /\ e.size \in FileSizes
  <2>1. e = Entry(size, 7)
        BY KernelEntry
  <2>2. Begin(size, 7) \in Nat /\ size["GEMIOS.ELF"] \in FileSizes
        BY Finished, Begins, DiskImageAssumption
  <2>3. Script[7].name = "GEMIOS.ELF" /\ 7 \in FileSteps
        BY ScriptNames DEF FileSteps
  <2> QED BY <2>1, <2>2, <2>3, EntryFields
<1> QED BY <1>5, <1>6 DEF HasFiles

-----------------------------------------------------------------------------
(* The loader: the inductive invariant                                     *)

\* Each of the two functions is idle until it is called, and then in the state
\* its own invariant describes.
FindState == IF fpc = "idle" THEN fret = "none" ELSE ScanInv
ReadState == IF pc = "idle" THEN NoOverrun ELSE IInv /\ FileInv

LoaderInv ==
    /\ MkInv
    /\ phase \in {"build", "mount", "find", "read", "loaded", "halt"}
    /\ phase \in {"build", "mount"} => fpc = "idle"
    /\ phase \in {"build", "mount", "find"} => pc = "idle"
    /\ phase = "mount" => Find!Searchable(vol)
    /\ phase \in {"mount", "find"} => HasFiles(vol)
    /\ phase = "find" => fpc # "idle"
    /\ phase = "read" => pc # "idle"
    /\ FindState /\ ReadState

\* Nothing was read before the call.
LEMMA IdleReading ==
    ASSUME ReadIdle
    PROVE  pc = "idle" /\ NoOverrun
BY DEF ReadIdle, NoOverrun

\* LoaderInv holds at first,
LEMMA LoaderInitInv == LoaderInit => LoaderInv
<1> SUFFICES ASSUME LoaderInit PROVE LoaderInv
    OBVIOUS
<1>1. MkInv
      BY MkInitInv DEF LoaderInit
<1>2. FindState /\ fpc = "idle"
      BY DEF LoaderInit, FindIdle, FindState
<1>3. CASE phase = "build" /\ ReadIdle
      BY <1>1, <1>2, <1>3, IdleReading DEF LoaderInv, ReadState
<1>4. CASE phase = "mount" /\ vol \in FindVolumes /\ ReadIdle
      BY <1>1, <1>2, <1>4, IdleReading, DiskImageAssumption DEF LoaderInv, ReadState
<1>5. CASE phase = "read" /\ Init
  <2>1. IInv /\ FileInv /\ pc # "idle"
        BY <1>5, InitCalled, CalledInv DEF Called
  <2> QED BY <1>1, <1>2, <1>5, <2>1 DEF LoaderInv, ReadState
<1> QED BY <1>3, <1>4, <1>5 DEF LoaderInit

\* Nothing that fat_find_file() has found changes when it does not run.
LEMMA FindStateKept ==
    ASSUME FindState, UNCHANGED <<vol, finding>>
    PROVE  FindState'
<1> USE DEF finding
<1>1. CASE fpc = "idle"
      BY <1>1 DEF FindState
<1>2. CASE fpc # "idle"
  <2>1. ScanInv
        BY <1>2 DEF FindState
  <2>2. SearchIsRight'
        BY <2>1, DirectoryKept DEF ScanInv, SearchIsRight, Find!FoundIsTheEntry,
                                   Find!NotFoundIsAbsent
  <2>3. \A k, n : At(k, n)' <=> At(k, n)
        BY DirectoryKept DEF At
  <2>4. (\E k, n \in Nat : Clean(k) /\ At(k, n)) => (\E k, n \in Nat : Clean(k) /\ At(k, n))'
        BY <2>3, DirectoryKept
  <2>5. ScanInv'
        BY <2>1, <2>2, <2>4 DEF ScanInv
  <2> QED BY <2>5 DEF FindState
<1> QED BY <1>1, <1>2

\* A step of fat_read_file() keeps what is known of it.
LEMMA ReadStateKept ==
    ASSUME ReadState, pc # "idle", [Next]_vars
    PROVE  ReadState' /\ pc' # "idle"
<1>1. IInv' /\ FileInv'
      BY StepIInv, StepFileInv DEF ReadState
<1>2. pc' # "idle"
      BY Zenon DEF Next, vars, EnterCluster, Return, ReadSector, ReadSectorFails, LeaveCluster,
                   FollowChain, FollowChainFails
<1> QED BY <1>1, <1>2 DEF ReadState

\* A call begins the scan at the first sector of the directory.
LEMMA CallScans ==
    ASSUME Find!Searchable(vol), Find!Call
    PROVE  FindState' /\ fpc' # "idle"
<1>1. UNCHANGED vol /\ fret' = "none" /\ fsec' = 0 /\ fcur' = Find!fs.root_clus
      /\ fpc' = IF Find!Fat32 THEN "loop" ELSE "sector"
      BY DEF Find!Call
<1>2. Find!Searchable(vol)' /\ fcur' \in Nat /\ fsec' \in Nat
      BY <1>1, RootFacts
<1>3. SearchIsRight'
      BY <1>1 DEF SearchIsRight, Find!FoundIsTheEntry, Find!NotFoundIsAbsent
<1>4. Clean(0)'
      BY DEF Clean
<1>5. At(0, 0)'
  <2>1. CASE Find!Fat32
    <3>1. SectorsPerClus' \in Nat /\ 0 * SectorsPerClus' = 0
          BY <1>1, DirectoryKept, RootFacts
    <3>2. fcur' = Find!RootCluster'[0]
          BY <1>1, <2>1, DirectoryKept, RootFacts, RootChain
    <3> QED BY <1>1, <2>1, <3>1, <3>2, DirectoryKept DEF At
  <2>2. CASE ~Find!Fat32
    <3>1. Find!fs'.root_sectors \in Nat
          BY <1>1, DirectoryKept, RootFacts
    <3> QED BY <1>1, <2>2, <3>1, DirectoryKept DEF At
  <2> QED BY <2>1, <2>2
<1>6. ScanInv'
      BY <1>1, <1>2, <1>3, <1>4, <1>5 DEF ScanInv
<1> QED BY <1>1, <1>6 DEF FindState

\* every step keeps it,
LEMMA LoaderStep == LoaderInv /\ [LoaderNext]_loadervars => LoaderInv'
<1> SUFFICES ASSUME LoaderInv, [LoaderNext]_loadervars PROVE LoaderInv'
    OBVIOUS
<1>0. MkInv /\ FindState /\ ReadState
      BY DEF LoaderInv
<1>1. UNCHANGED building => MkInv'
      BY <1>0, MkStep DEF building
<1>2. UNCHANGED <<vol, finding>> => FindState'
      BY <1>0, FindStateKept
<1>3. UNCHANGED <<vol, reading>> => ReadState' /\ (pc = "idle" => pc' = "idle")
  <2> SUFFICES ASSUME UNCHANGED <<vol, reading>>
               PROVE  ReadState' /\ (pc = "idle" => pc' = "idle")
      OBVIOUS
  <2>1. UNCHANGED vars
        BY DEF reading, vars
  <2>2. CASE pc = "idle"
        BY <1>0, <2>1, <2>2 DEF ReadState, NoOverrun, vars
  <2>3. CASE pc # "idle"
        BY <1>0, <2>1, <2>3, ReadStateKept
  <2> QED BY <2>2, <2>3
<1>4. HasFiles(vol) /\ UNCHANGED vol => HasFiles(vol)'
      BY DEF HasFiles
<1>5. CASE UNCHANGED loadervars
  <2>1. UNCHANGED <<vol, phase, building, finding, reading, fpc, pc>>
        BY <1>5 DEF loadervars, finding, reading
  <2> QED BY <1>1, <1>2, <1>3, <1>4, <2>1 DEF LoaderInv
<1>6. CASE Build
  <2>1. UNCHANGED <<vol, phase, finding, reading, fpc, pc>> /\ phase = "build"
        BY <1>6 DEF Build, finding, reading
  <2>2. MkInv'
        BY <1>0, <1>6, MkStep DEF Build
  <2> QED BY <1>2, <1>3, <2>1, <2>2 DEF LoaderInv
<1>7. CASE BootImage
  <2>1. /\ UNCHANGED <<building, finding, reading, fpc, pc>> /\ phase = "build" /\ phase' = "mount"
        /\ vol' = ImageVolume /\ ImageWritten
        BY <1>7 DEF BootImage, finding, reading, ImageWritten
  <2>2. Find!Searchable(vol)' /\ HasFiles(vol)'
        BY <1>0, <2>1, ImageIsVolume
  <2>3. pc = "idle" /\ fpc = "idle"
        BY <2>1 DEF LoaderInv
  <2>4. FindState'
        BY <1>0, <2>1, <2>3 DEF FindState, finding
  <2>5. ReadState'
        BY <1>0, <2>1, <2>3 DEF ReadState, NoOverrun, reading
  <2> QED BY <1>1, <2>1, <2>2, <2>3, <2>4, <2>5 DEF LoaderInv
<1>8. CASE Mount \/ FindAgain
  <2>1. /\ phase \in {"mount", "find"} /\ phase' = "find" /\ Find!Call /\ UNCHANGED vol
        /\ UNCHANGED <<building, reading, pc>>
        BY <1>8 DEF Mount, FindAgain, StartFind, Find!Call, reading
  <2>2. Find!Searchable(vol)
        BY <1>0, <2>1 DEF LoaderInv, FindState, ScanInv
  <2>3. FindState' /\ fpc' # "idle"
        BY <2>1, <2>2, CallScans
  <2> QED BY <1>1, <1>3, <1>4, <2>1, <2>3 DEF LoaderInv
<1>9. CASE MountFails \/ NotFound
  <2>1. phase' = "halt" /\ UNCHANGED <<vol, building, finding, reading>>
        BY <1>9 DEF MountFails, NotFound
  <2> QED BY <1>1, <1>2, <1>3, <2>1 DEF LoaderInv
<1>10. CASE FindStep
  <2>1. /\ phase = "find" /\ Find!Next /\ UNCHANGED <<phase, building, reading, pc>>
        BY <1>10 DEF FindStep, reading
  <2>2. ScanInv
        BY <1>0, <2>1 DEF LoaderInv, FindState
  <2>3. ScanInv' /\ UNCHANGED vol
    <3>1. UNCHANGED vol
          BY <2>1 DEF Find!Next, Find!EnterCluster, Find!Exhausted, Find!ScanSector,
                      Find!ScanSectorFails, Find!LeaveCluster, Find!FollowChain,
                      Find!FollowChainFails
    <3> QED BY <2>1, <2>2, <3>1, ScanStep
  <2>4. FindState' /\ fpc' # "idle"
        BY <2>3 DEF FindState, ScanInv
  <2> QED BY <1>1, <1>3, <1>4, <2>1, <2>3, <2>4 DEF LoaderInv
<1>11. CASE StartRead
  <2>1. /\ phase = "find" /\ phase' = "read" /\ UNCHANGED <<vol, building, finding>>
        BY <1>11 DEF StartRead
  <2>2. PICK e \in vol.files : first' = e.first /\ file_size' = e.size
        BY <1>11 DEF StartRead
  <2>3. e.first \in Nat /\ e.size \in FileSizes
        BY <2>1 DEF LoaderInv, HasFiles
  <2>4. WellFormed(vol)
    <3>1. Find!Searchable(vol)
          BY <1>0, <2>1 DEF LoaderInv, FindState, ScanInv
    <3> QED BY <3>1, SameVolumes DEF Find!Searchable
  <2>5. Called'
        BY <1>11, <2>1, <2>2, <2>3, <2>4 DEF StartRead, Called
  <2>6. IInv' /\ FileInv' /\ pc' # "idle"
    <3>1. IInv' /\ FileInv'
          BY <2>5, CalledInv, PTL
    <3> QED BY <2>5, <3>1 DEF Called
  <2>7. ReadState'
        BY <2>6 DEF ReadState
  <2> QED BY <1>1, <1>2, <2>1, <2>6, <2>7 DEF LoaderInv
<1>12. CASE ReadStep
  <2>1. phase = "read" /\ Next /\ UNCHANGED <<phase, building, finding>>
        BY <1>12 DEF ReadStep
  <2>2. ReadState' /\ pc' # "idle"
        BY <1>0, <2>1, ReadStateKept DEF LoaderInv
  <2>3. UNCHANGED vol
        BY <2>1, VolumeKept DEF file
  <2> QED BY <1>1, <1>2, <2>1, <2>2, <2>3 DEF LoaderInv
<1>13. CASE ReadReturns
  <2>1. phase' \in {"loaded", "halt"} /\ UNCHANGED <<vol, building, finding, reading>>
        BY <1>13 DEF ReadReturns
  <2> QED BY <1>1, <1>2, <1>3, <2>1 DEF LoaderInv
<1> QED BY <1>5, <1>6, <1>7, <1>8, <1>9, <1>10, <1>11, <1>12, <1>13 DEF LoaderNext, Running

\* and so it holds always.
LEMMA LoaderAlways == LoaderSpec => []LoaderInv
BY LoaderInitInv, LoaderStep, PTL DEF LoaderSpec

-----------------------------------------------------------------------------
(* The loader: the theorems                                                *)

\* What fat_find_file() answers is right, for every directory, FAT and pattern
\* of failing reads: the entry it hands back is the first live one of that
\* name, and without a failing read "not found" means that there is none.
THEOREM LookUpIsRight == LoaderSpec => []SearchIsRight
<1>1. LoaderInv => SearchIsRight
      BY DEF LoaderInv, FindState, ScanInv, SearchIsRight, Find!FoundIsTheEntry,
             Find!NotFoundIsAbsent
<1> QED BY LoaderAlways, <1>1, PTL

\* The kernel that bios_loader_main() reads stays in the buffer, is reported as
\* read only if it is all there, and is refused only for a reason.
THEOREM KernelIsRead == LoaderSpec => [](NoOverrun /\ ReadOkIsTheFile /\ ErrIsJustified)
<1>1. LoaderInv => NoOverrun /\ ReadOkIsTheFile /\ ErrIsJustified
      BY DEF LoaderInv, ReadState, IInv, FileInv, ReadOkIsTheFile, ErrIsJustified
<1> QED BY LoaderAlways, <1>1, PTL

\* In an image that mkdisk wrote every file is in its directory once, with a
\* chain in both FATs that holds its contents: for all sizes of the files.
THEOREM ImageIsWhole == LoaderSpec => []FilesAreWhole
<1>1. LoaderInv => FilesAreWhole
      BY FilesVerdict DEF LoaderInv
<1> QED BY LoaderAlways, <1>1, PTL

\* The first sector that may pass the test of vbr.S begins a whole, contiguous IO.SYS.
THEOREM VbrFindsIoSys == LoaderSpec => []IoSysWhereVbrLooks
<1>1. LoaderInv => IoSysWhereVbrLooks
      BY IoSysVerdict DEF LoaderInv
<1> QED BY LoaderAlways, <1>1, PTL

-----------------------------------------------------------------------------
(* The kernel that mkdisk stored comes back: the chain                     *)

\* Where the kernel is in the image, and how long it is.
LEMMA KernelIsStored ==
    ASSUME MkInv, ImageWritten
    PROVE  /\ 7 \in FileSteps /\ 7 \in 6 .. 11 /\ Script[7].name = "GEMIOS.ELF"
           /\ Begin(size, 7) \in Nat /\ Begin(size, 7) >= 3
           /\ Extent(size, 7) \in Nat /\ Extent(size, 7) >= 1
           /\ Begin(size, 7) + Extent(size, 7) <= 130044
           /\ Begin(size, 7) + Extent(size, 7) <= next
           /\ size["GEMIOS.ELF"] \in Nat
           /\ Extent(size, 7) = Clusters(size["GEMIOS.ELF"])
<1>1. 7 \in FileSteps /\ 7 \in 6 .. 11 /\ 7 \in 1 .. 12 /\ Script[7].name = "GEMIOS.ELF"
      BY ScriptNames DEF FileSteps
<1>2. size \in HostSizes
      BY Finished
<1>3. /\ Begin(size, 7) \in Nat /\ Begin(size, 7) >= 3
      /\ Begin(size, 12) \in Nat
      BY <1>1, <1>2, Begins
<1>4. /\ Extent(size, 7) \in Nat /\ Extent(size, 7) >= 1 /\ size["GEMIOS.ELF"] \in Nat
      BY <1>1, <1>2, HostFiles
<1>5. Begin(size, 7) + Extent(size, 7) <= Begin(size, 12) /\ Begin(size, 12) <= DataClusters + 2
      BY <1>2, Begins
<1>6. Begin(size, 12) <= next
  <2>1. step = 12 /\ Len(clus) \in Nat /\ next = Begin(size, step) + Len(clus)
        BY DEF MkInv, Counted, ImageWritten, FileSteps
  <2> QED BY <1>3, <2>1
<1>7. next \in Nat
  <2>1. step = 12 /\ Len(clus) \in Nat /\ next = Begin(size, step) + Len(clus)
        BY DEF MkInv, Counted, ImageWritten, FileSteps
  <2> QED BY <1>3, <2>1
<1>8. DataClusters \in Nat /\ DataClusters <= 130042
      BY Geography
<1>9. Extent(size, 7) = Clusters(size["GEMIOS.ELF"])
      BY <1>1 DEF Extent
<1> QED BY <1>1, <1>3, <1>4, <1>5, <1>6, <1>7, <1>8, <1>9

\* Both functions work with the geometry of the image.
LEMMA ImageMounted ==
    ASSUME MkInv, ImageWritten, vol = ImageVolume
    PROVE  fs = ImageFs /\ Find!fs = ImageFs
<1>1. fs = ImageFs
      BY ImageParameters DEF fs, ImageFs
<1>2. Find!fs = fs
      BY DEF Find!fs, fs, Find!FatInit, FatInit, Find!FatSize, FatSize, Find!RootDirSectors,
             RootDirSectors, Find!TotalSectors, TotalSectors, Find!FatType, FatType
<1> QED BY <1>1, <1>2

\* A cluster number is no end mark, and mkdisk's end mark is one.
LEMMA ImageFollows ==
    /\ \A c \in Nat : c >= 2 /\ c <= 130044 => Follows(ImageFs, c)
    /\ ~Follows(ImageFs, EndOfChain)
    /\ \A c \in Nat : c <= 130044 => EntryValue(ImageFs, c) = c
    /\ EntryValue(ImageFs, EndOfChain) = EndOfChain
<1>1. EndMark(ImageFs) = 268435448 /\ ImageFs.fat_type = 32
      BY ImageGeometry
<1>2. \A c \in Nat : c >= 2 /\ c <= 130044 => Follows(ImageFs, c)
      BY <1>1, SMT DEF Follows, IsEnd
<1>3. ~Follows(ImageFs, EndOfChain)
      BY <1>1, SMT DEF Follows, IsEnd, EndOfChain
<1>4. \A c \in Nat : c <= 130044 => EntryValue(ImageFs, c) = c
  <2>1. \A c \in Nat : c <= 130044 => c % 268435456 = c
        OBVIOUS
  <2> QED BY <1>1, <2>1, SMT DEF EntryValue
<1>5. EntryValue(ImageFs, EndOfChain) = EndOfChain
  <2>1. EndOfChain % 268435456 = EndOfChain
        BY SMT DEF EndOfChain
  <2> QED BY <1>1, <2>1, SMT DEF EntryValue
<1> QED BY <1>2, <1>3, <1>4, <1>5

\* The disk in the machine is the image, and the file is the kernel.
KernelFile ==
    /\ MkInv /\ ImageWritten /\ vol = ImageVolume
    /\ first = Begin(size, 7) /\ file_size = size["GEMIOS.ELF"]

\* The FAT leads from each cluster of the kernel to the next.
LEMMA KernelSuccessor ==
    ASSUME KernelFile, NEW j \in 0 .. Extent(size, 7) - 1
    PROVE  Successor(first + j) = IF j = Extent(size, 7) - 1 THEN EndOfChain ELSE first + j + 1
<1>0. MkInv /\ ImageWritten /\ vol = ImageVolume /\ first = Begin(size, 7)
      BY DEF KernelFile
<1>1. PICK a \in Nat, n \in Nat, nx \in Int :
         /\ a = Begin(size, 7) /\ n = Extent(size, 7) /\ a + n <= 130044 /\ nx = next /\ a + n <= nx
  <2>1. next \in Int
    <3>1. step = 12 /\ Len(clus) \in Nat /\ next = Begin(size, step) + Len(clus)
          BY <1>0 DEF MkInv, Counted, ImageWritten, FileSteps
    <3> QED BY <1>0, <3>1, Finished, Begins
  <2> QED BY <1>0, <2>1, KernelIsStored
<1>2. j \in Nat /\ j < n
      BY <1>1
<1> DEFINE v == IF j = n - 1 THEN EndOfChain ELSE a + j + 1
<1>3. HasEntry(disk, 0, a + j, v)
  <2>1. 0 \in {0, 1} /\ 7 \in FileSteps
        BY DEF FileSteps
  <2>2. HasEntry(disk, 0, Begin(size, 7) + j,
                 IF j = Extent(size, 7) - 1 THEN EndOfChain ELSE Begin(size, 7) + j + 1)
        BY <1>0, <2>1, FileStored, Zenon
  <2> QED BY <1>1, <2>2
<1>4. a + j \in DOMAIN vol.table
  <2>1. a + j \in 0 .. next - 1
        BY <1>1, <1>2
  <2> QED BY <1>0, <2>1, ImageParameters
<1>5. RawEntry(vol, a + j) = v
  <2> HIDE DEF v
  <2> QED BY <1>0, <1>3, <1>4, ImageTable DEF RawEntry
<1>6. EntryValue(ImageFs, v) = v
  <2>1. CASE j = n - 1
        BY <2>1, ImageFollows
  <2>2. CASE j # n - 1
    <3>1. a + j + 1 \in Nat /\ a + j + 1 <= 130044
          BY <1>1, <1>2, <2>2
    <3> QED BY <2>2, <3>1, ImageFollows
  <2> QED BY <2>1, <2>2
<1>7. Successor(a + j) = v
      BY <1>0, <1>5, <1>6, ImageMounted DEF Successor
<1> QED BY <1>0, <1>1, <1>7

\* What is read are the clusters of the kernel, in order.
LEMMA KernelWalk ==
    ASSUME KernelFile, FileInv
    PROVE  /\ Len(walk) \in Nat /\ Len(walk) <= Extent(size, 7)
           /\ \A j \in 1 .. Len(walk) : walk[j] = first + (j - 1)
<1>1. MkInv /\ ImageWritten /\ vol = ImageVolume /\ first = Begin(size, 7)
      BY DEF KernelFile
<1>2. PICK n \in Nat : n = Extent(size, 7) /\ n >= 1 /\ first \in Nat
      BY <1>1, KernelIsStored
<1>3. PICK m \in Nat : m = Len(walk)
  <2>1. walk \in Seq(Nat)
        BY DEF FileInv, Typed
  <2> QED BY <2>1
<1>4. /\ m > 0 => walk[1] = first
      /\ \A i \in 1 .. m - 1 : walk[i + 1] = Successor(walk[i])
      /\ \A i \in 1 .. m : Follows(ImageFs, walk[i])
  <2>1. IsChain(walk) /\ fs = ImageFs
        BY <1>1, ImageMounted DEF FileInv, WalkIsChain
  <2>2. m > 0 => walk # <<>>
        BY <1>3
  <2> QED BY <1>3, <2>1, <2>2 DEF IsChain, Successor
<1> DEFINE T == {j \in Nat : j + 1 <= m => j + 1 <= n /\ walk[j + 1] = first + j}
<1>5. 0 \in T
      BY <1>2, <1>4
<1>6. ASSUME NEW j \in T
      PROVE  j + 1 \in T
  <2> SUFFICES ASSUME (j + 1) + 1 <= m
               PROVE  (j + 1) + 1 <= n /\ walk[(j + 1) + 1] = first + (j + 1)
      OBVIOUS
  <2>1. j + 1 <= n /\ walk[j + 1] = first + j
        OBVIOUS
  <2>2. walk[(j + 1) + 1] = Successor(first + j)
    <3>1. j + 1 \in 1 .. m - 1
          OBVIOUS
    <3>2. walk[(j + 1) + 1] = Successor(walk[j + 1])
          BY <1>4, <3>1
    <3> QED BY <2>1, <3>2
  <2>3. Successor(first + j) = IF j = n - 1 THEN EndOfChain ELSE first + j + 1
    <3>1. j \in 0 .. Extent(size, 7) - 1
          BY <1>2, <2>1
    <3> QED BY <1>2, <3>1, KernelSuccessor
  <2>4. Follows(ImageFs, walk[(j + 1) + 1])
    <3>1. (j + 1) + 1 \in 1 .. m
          OBVIOUS
    <3> QED BY <1>4, <3>1
  <2>5. j # n - 1
        BY <2>2, <2>3, <2>4, ImageFollows
  <2> QED BY <1>2, <2>1, <2>2, <2>3, <2>5
<1> HIDE DEF T
<1>7. T = Nat
  <2>1. T \in SUBSET Nat
        BY DEF T
  <2> QED BY <1>5, <1>6, <2>1, Induction
<1>8. ASSUME NEW j \in 1 .. m
      PROVE  j <= n /\ walk[j] = first + (j - 1)
  <2>1. j - 1 \in T /\ (j - 1) + 1 = j
        BY <1>7
  <2> QED BY <2>1 DEF T
<1>9. m <= n
  <2>1. CASE m = 0
        BY <2>1
  <2>2. CASE m # 0
    <3>1. m \in 1 .. m
          BY <2>2
    <3> QED BY <1>8, <3>1
  <2> QED BY <2>1, <2>2
<1> QED BY <1>2, <1>3, <1>8, <1>9

-----------------------------------------------------------------------------
(* The kernel that mkdisk stored comes back: the bytes                     *)

\* Where byte i of a file is: in its cluster, its sector, and the sector of
\* the file.
LEMMA FileBytePlace ==
    ASSUME NEW i \in Nat, NEW sz \in Nat \ {0}
    PROVE  \E q, t, u \in Nat : /\ i \div (4 * sz) = q /\ (i % (4 * sz)) \div sz = t
                                /\ i \div sz = u /\ u = 4 * q + t /\ t < 4
                                /\ u * sz <= i /\ q * (4 * sz) <= i
<1>1. PICK u \in Nat, x \in Nat : i \div sz = u /\ i % sz = x /\ u * sz + x = i /\ x < sz
      BY Division, Zenon
<1>2. PICK q \in Nat, t \in Nat : u \div 4 = q /\ u % 4 = t /\ q * 4 + t = u /\ t < 4
  <2>1. 4 \in Nat \ {0}
        OBVIOUS
  <2> QED BY <2>1, Division, Zenon
<1>3. u * sz = q * (4 * sz) + t * sz
  <2>1. u = 4 * q + t
        BY <1>2
  <2>2. (4 * q + t) * sz = q * (4 * sz) + t * sz
        OBVIOUS
  <2> QED BY <2>1, <2>2
<1>4. i = ByteAt(q, t, x, 4, sz)
      BY ONLY <1>1, <1>3, Zenon DEF ByteAt
<1>5. 4 \in Nat \ {0} /\ t < 4 /\ x < sz
      BY <1>1, <1>2
<1>6. i \div (4 * sz) = q /\ (i % (4 * sz)) \div sz = t
  <2>1. PICK four \in Nat \ {0} : four = 4
        OBVIOUS
  <2>2. t < four
        BY <1>5, <2>1
  <2>3. /\ ByteAt(q, t, x, four, sz) \div (four * sz) = q
        /\ (ByteAt(q, t, x, four, sz) % (four * sz)) \div sz = t
    <3>1. x < sz
          BY <1>5
    <3> QED BY ONLY <2>2, <3>1, q \in Nat, t \in Nat, x \in Nat, sz \in Nat \ {0},
                    four \in Nat \ {0}, BytePlace, SMT
  <2> QED BY ONLY <1>4, <2>1, <2>3, Zenon
<1>7. t * sz \in Nat /\ q * (4 * sz) \in Nat /\ u * sz \in Nat
      OBVIOUS
<1>8. u * sz <= i /\ q * (4 * sz) <= i
  <2>1. PICK us \in Nat, qs \in Nat, ts \in Nat : us = u * sz /\ qs = q * (4 * sz) /\ ts = t * sz
        BY <1>7
  <2>2. us + x = i /\ us = qs + ts
        BY <1>1, <1>3, <2>1
  <2>3. us <= i /\ qs <= i
        BY ONLY <2>2, us \in Nat, qs \in Nat, ts \in Nat, x \in Nat, SMT
  <2> QED BY <2>1, <2>3
<1>9. u = 4 * q + t
      BY <1>2
<1> QED BY <1>1, <1>2, <1>6, <1>8, <1>9

\* The sectors of a file cover it, and so do its clusters.
LEMMA FileCovered ==
    ASSUME NEW n \in Nat
    PROVE  /\ n <= CeilDiv(n, SECTOR_SIZE) * SECTOR_SIZE
           /\ n <= Clusters(n) * (4 * SECTOR_SIZE)
<1>1. PICK ss \in Nat \ {0} : ss = SECTOR_SIZE
      BY SectorSizes
<1>2. PICK q \in Nat, r \in Nat : (n + ss - 1) \div ss = q /\ q * ss + r = n + ss - 1 /\ r < ss
  <2>1. n + ss - 1 \in Nat
        OBVIOUS
  <2> QED BY <2>1, Division, Zenon
<1>3. CeilDiv(n, SECTOR_SIZE) = q
      BY <1>1, <1>2 DEF CeilDiv
<1>4. n <= q * ss
      BY <1>2
<1>5. PICK c \in Nat : c = Clusters(n) /\ q <= 4 * c
      BY <1>3, ClusterCount
<1>6. q * ss <= (4 * c) * ss /\ (4 * c) * ss = c * (4 * ss)
      BY <1>5
<1>7. n <= c * (4 * ss)
      BY <1>4, <1>6
<1> QED BY <1>1, <1>3, <1>4, <1>5, <1>7

\* The bytes in the buffer are those of the sectors that hold the kernel.
LEMMA KernelDelivered ==
    ASSUME KernelFile, FileInv, pc = "done", ret = "ok", NEW i \in 0 .. file_size - 1
    PROVE  /\ Holds(dest[i][1], "GEMIOS.ELF", i \div SECTOR_SIZE)
           /\ dest[i][2] = i % SECTOR_SIZE
<1>1. MkInv /\ ImageWritten /\ vol = ImageVolume /\ first = Begin(size, 7)
      /\ file_size = size["GEMIOS.ELF"]
      BY DEF KernelFile
<1>2. PICK ss \in Nat \ {0}, n \in Nat : ss = SECTOR_SIZE /\ n = file_size
      BY <1>1, SectorSizes, KernelIsStored
<1>3. PICK q \in Nat, t \in Nat, u \in Nat :
         /\ i \div (4 * ss) = q /\ (i % (4 * ss)) \div ss = t
         /\ i \div ss = u /\ u = 4 * q + t /\ t < 4
         /\ u * ss <= i /\ q * (4 * ss) <= i
  <2>1. i \in Nat
        BY <1>2
  <2> QED BY <2>1, FileBytePlace, Zenon
<1>4. fs = ImageFs /\ fs.sec_per_clus = 4 /\ ClusterBytes = 4 * ss
      BY <1>1, <1>2, ImageMounted, ImageGeometry DEF ClusterBytes
<1>5. n <= Len(walk) * (4 * ss) /\ dest[i] = FileByte(walk, i)
      BY <1>2, <1>4 DEF FileInv, ReadOkIsTheFile
<1>6. PICK m \in Nat : m = Len(walk)
      BY KernelWalk
<1>7. q + 1 \in 1 .. m
  <2> SUFFICES ASSUME q >= m PROVE FALSE
      OBVIOUS
  <2>1. q * (4 * ss) >= m * (4 * ss)
        OBVIOUS
  <2>2. PICK qs \in Nat, ms \in Nat : qs = q * (4 * ss) /\ ms = m * (4 * ss)
        OBVIOUS
  <2> QED BY <1>2, <1>3, <1>5, <1>6, <2>1, <2>2
<1>8. walk[q + 1] = first + q
  <2>1. walk[q + 1] = first + ((q + 1) - 1) /\ (q + 1) - 1 = q
        BY <1>6, <1>7, KernelWalk
  <2> QED BY <2>1
<1>9. dest[i] = <<MkClusterToLba(first + q) + t, i % ss>>
  <2>1. FileByte(walk, i) = <<ClusterToLba(fs, walk[q + 1]) + t, i % ss>>
        BY <1>2, <1>3, <1>4 DEF FileByte
  <2>2. ClusterToLba(fs, walk[q + 1]) = MkClusterToLba(first + q)
        BY <1>4, <1>8, ImageGeometry
  <2> QED BY <1>5, <2>1, <2>2
<1>10. MkClusterToLba(first + q) + t = MkClusterToLba(first) + u
  <2>1. SEC_PER_CLUS = 4 /\ g_data_start \in Nat /\ first \in Nat
        BY <1>1, Geography, KernelIsStored
  <2> QED BY <1>3, <2>1 DEF MkClusterToLba
<1>11. u \in 0 .. Secs(size, 7) - 1
  <2>1. PICK c \in Nat : c = Secs(size, 7) /\ n <= c * ss
    <3>1. n = size[Script[7].name] /\ n \in Nat
          BY <1>1, <1>2, KernelIsStored
    <3>2. CeilDiv(n, SECTOR_SIZE) \in Nat /\ n <= CeilDiv(n, SECTOR_SIZE) * SECTOR_SIZE
          BY <3>1, ClusterCount, FileCovered
    <3> QED BY <1>2, <3>1, <3>2 DEF Secs
  <2> SUFFICES ASSUME u >= c PROVE FALSE
      BY <2>1
  <2>2. u * ss >= c * ss
        OBVIOUS
  <2>3. PICK us \in Nat, cs \in Nat : us = u * ss /\ cs = c * ss
        OBVIOUS
  <2> QED BY <1>2, <1>3, <2>1, <2>2, <2>3
<1>12. Holds(MkClusterToLba(first) + u, "GEMIOS.ELF", u)
  <2>1. 7 \in FileSteps /\ Script[7].name = "GEMIOS.ELF"
        BY <1>1, KernelIsStored
  <2>2. Holds(MkClusterToLba(Begin(size, 7)) + u, Script[7].name, u)
        BY <1>1, <1>11, <2>1, FileStored
  <2> QED BY <1>1, <2>1, <2>2
<1> QED BY <1>2, <1>3, <1>9, <1>10, <1>12

\* The kernel is refused only when a read fails.
LEMMA KernelNotRefused ==
    ASSUME KernelFile, FileInv, pc = "done", ret = "err"
    PROVE  ioError
<1> SUFFICES ASSUME ~ioError PROVE FALSE
    OBVIOUS
<1>1. MkInv /\ ImageWritten /\ vol = ImageVolume /\ first = Begin(size, 7)
      /\ file_size = size["GEMIOS.ELF"]
      BY DEF KernelFile
<1>2. PICK ss \in Nat \ {0}, x \in Nat, n \in Nat :
         /\ ss = SECTOR_SIZE /\ x = file_size /\ n = Extent(size, 7) /\ n >= 1
         /\ n = Clusters(x) /\ first \in Nat /\ first >= 3 /\ first + n <= 130044
      BY <1>1, SectorSizes, KernelIsStored
<1>3. fs = ImageFs /\ fs.fat_type = 32 /\ ClusterBytes = 4 * ss
      BY <1>1, <1>2, ImageMounted, ImageGeometry DEF ClusterBytes
<1>4. PICK m \in Nat : m = Len(walk)
      BY KernelWalk
<1>5. /\ m * (4 * ss) < x
      /\ ~Follows(fs, IF walk = <<>> THEN first ELSE Successor(walk[m]))
      BY <1>2, <1>3, <1>4 DEF FileInv, ErrIsJustified, Successor
<1>6. m < n
  <2> SUFFICES ASSUME m >= n PROVE FALSE
      OBVIOUS
  <2>1. x <= n * (4 * ss)
        BY <1>2, FileCovered
  <2>2. m * (4 * ss) >= n * (4 * ss)
        OBVIOUS
  <2>3. PICK ms \in Nat, ns \in Nat : ms = m * (4 * ss) /\ ns = n * (4 * ss)
        OBVIOUS
  <2> QED BY <1>5, <2>1, <2>2, <2>3
<1>7. CASE walk = <<>>
  <2>1. Follows(ImageFs, first)
        BY <1>2, ImageFollows
  <2> QED BY <1>3, <1>5, <1>7, <2>1
<1>8. CASE walk # <<>>
  <2>1. m >= 1
    <3>1. walk \in Seq(Nat)
          BY DEF FileInv, Typed
    <3> QED BY <1>4, <1>8, <3>1
  <2>2. walk[m] = first + (m - 1)
    <3>1. m \in 1 .. Len(walk)
          BY <1>4, <2>1
    <3> QED BY <3>1, KernelWalk
  <2>3. Successor(first + (m - 1)) = first + (m - 1) + 1
    <3>1. m - 1 \in 0 .. Extent(size, 7) - 1 /\ m - 1 # Extent(size, 7) - 1
          BY <1>2, <1>6, <2>1
    <3> QED BY <3>1, KernelSuccessor
  <2>4. first + (m - 1) + 1 \in Nat /\ first + (m - 1) + 1 >= 2 /\ first + (m - 1) + 1 <= 130044
        BY <1>2, <1>6, <2>1
  <2>5. Follows(ImageFs, first + (m - 1) + 1)
        BY <2>4, ImageFollows
  <2> QED BY <1>3, <1>5, <1>8, <2>2, <2>3, <2>5
<1> QED BY <1>7, <1>8

-----------------------------------------------------------------------------
(* The kernel that mkdisk stored comes back: the look-up                   *)

\* The first two slots of the root directory, of which the second is the
\* kernel's.
LEMMA RootSlot ==
    ASSUME MkInv, ImageWritten, NEW k \in {0, 1}
    PROVE  LET l == SlotLba(2, k)
           IN  /\ l \in DOMAIN ImageVolume.dir
               /\ ImageVolume.dir[l][k % EntriesPerSector] = IF k = 1 THEN "match" ELSE "other"
<1> DEFINE l == SlotLba(2, k)  off == SlotOff(k)  e == k % EntriesPerSector
<1>1. "/" \in Directories /\ Home(size, "/") = 2 /\ Count("/", 12) = 3
      BY DEF Directories, Home, Count
<1>2. 2 \in DataNos /\ DirHolds(disk, 2, Entries(size, "/"), 3)
      BY <1>1, DirectoryInImage
<1>3. off \in DOMAIN Sector(disk, l) /\ Sector(disk, l)[off] = Entries(size, "/")[k + 1]
  <2>1. k \in 0 .. 3 - 1
        OBVIOUS
  <2> QED BY <1>2, <2>1, Zenon DEF DirHolds
<1>4. l \in DOMAIN disk /\ off \in DOMAIN disk[l] /\ disk[l][off] = Entry(size, 6 + k)
  <2>1. Entries(size, "/")[k + 1] = Entry(size, 6 + k)
    <3>1. k = 0 \/ k = 1
          OBVIOUS
    <3> QED BY <3>1 DEF Entries
  <2> QED BY <1>3, <2>1, SectorThere
<1>5. l >= ImageFs.data_sec
  <2>1. k \in Nat /\ k < 4 * EntriesPerSector
        BY EntriesFit
  <2>2. l \in SectorsOf(2)
        BY <1>2, <2>1, SlotPlace
  <2> QED BY <1>2, <2>2, ClusterPlaces, ImageGeometry
<1>6. EntryClass(Entry(size, 6 + k)) = IF k = 1 THEN "match" ELSE "other"
  <2>1. Script[6].name # "GEMIOS.ELF" /\ Script[7].name = "GEMIOS.ELF"
        BY ScriptNames
  <2>2. \A i : "name" \in DOMAIN Entry(size, i) /\ Entry(size, i).name = Script[i].name
        BY EntryFields
  <2>3. (k = 0 /\ 6 + k = 6) \/ (k = 1 /\ 6 + k = 7)
        OBVIOUS
  <2> QED BY <2>1, <2>2, <2>3 DEF EntryClass
<1>7. e \in 0 .. EntriesPerSector - 1 /\ e * DIR_ENTRY_SIZE = off
  <2>1. PICK n \in Nat \ {0} : n = EntriesPerSector
        BY EntriesFit
  <2>2. k \in Nat
        OBVIOUS
  <2>3. PICK q \in Nat, r \in Nat : k \div n = q /\ k % n = r /\ q * n + r = k /\ r < n
        BY <2>2, Division, Zenon
  <2> QED BY <2>1, <2>3 DEF SlotOff
<1> DEFINE data == {x \in DOMAIN disk : x >= ImageFs.data_sec}
<1>8. l \in data
      BY <1>4, <1>5
<1>9. ImageVolume.dir = [x \in data |->
                    [f \in 0 .. EntriesPerSector - 1 |->
                       IF f * DIR_ENTRY_SIZE \in DOMAIN disk[x]
                       THEN EntryClass(disk[x][f * DIR_ENTRY_SIZE]) ELSE "end"]]
      BY ImageParameters
<1> HIDE DEF data, l, off, e
<1>10. l \in DOMAIN ImageVolume.dir
      BY <1>8, <1>9
<1>11. ImageVolume.dir[l][e] = IF e * DIR_ENTRY_SIZE \in DOMAIN disk[l]
                       THEN EntryClass(disk[l][e * DIR_ENTRY_SIZE]) ELSE "end"
      BY <1>7, <1>8, <1>9
<1>12. ImageVolume.dir[l][e] = EntryClass(Entry(size, 6 + k))
      BY <1>4, <1>7, <1>11
<1> QED BY <1>6, <1>10, <1>12 DEF l, e

\* The place of the kernel's entry, which a look-up must find.
LEMMA KernelNotMissed ==
    ASSUME MkInv, ImageWritten, vol = ImageVolume, ScanInv, fret = "err"
    PROVE  fioError
<1> SUFFICES ASSUME ~fioError PROVE FALSE
    OBVIOUS
<1>1. PICK n \in Nat \ {0} : n = EntriesPerSector /\ Find!EntriesPerSector = n
      BY EntriesFit DEF EntriesPerSector, Find!EntriesPerSector
<1>2. /\ Find!Searchable(vol) /\ Find!fs = ImageFs /\ Find!Fat32
      /\ SectorsPerClus = 4
      BY ImageMounted, ImageGeometry, RootFacts DEF ScanInv, Find!Fat32
<1>3. /\ Find!RootCluster[0] = 2 /\ Find!Follows(Find!fs, 2)
  <2>1. vol.bpb.root_clus = 2
        BY ImageParameters DEF Bpb, ROOT_CLUS
  <2>2. Follows(ImageFs, 2)
        BY ImageFollows
  <2> QED BY <1>2, <2>1, <2>2, RootChain DEF Find!Follows, Follows, Find!IsEnd, IsEnd,
             Find!EndMark, EndMark
<1>4. ASSUME NEW k \in {0, 1}
      PROVE  /\ Find!HasSector(k) /\ Find!DirSector(k) = MkClusterToLba(2) + k
             /\ k \in Find!SectorNumbers
  <2>1. 0 \in Nat /\ k \in Nat /\ k < SectorsPerClus /\ 0 * SectorsPerClus + k = k
        BY <1>2
  <2>2. /\ Find!HasSector(k)
        /\ Find!DirSector(k) = Find!ClusterToLba(Find!fs, 2) + k
        BY <1>2, <1>3, <2>1, ClusterSector
  <2>3. Find!ClusterToLba(Find!fs, 2) = MkClusterToLba(2)
        BY <1>2, ImageGeometry DEF Find!ClusterToLba, ClusterToLba
  <2>4. PICK m \in Nat : m = Find!MaxHops
        BY <1>2, TableIsFinite
  <2>5. Find!SectorNumbers = 0 .. (m + 1) * 4 - 1
        BY <1>2, <2>4, ImageGeometry DEF Find!SectorNumbers
  <2> QED BY <2>2, <2>3, <2>5
<1>5. ASSUME NEW k \in {0, 1}
      PROVE  Find!DirEntry(MkClusterToLba(2) + k \div n, k % n) =
                IF k = 1 THEN "match" ELSE "other"
  <2>1. SlotLba(2, k) = MkClusterToLba(2) + k \div n
        BY <1>1 DEF SlotLba
  <2>2. /\ SlotLba(2, k) \in DOMAIN vol.dir
        /\ vol.dir[SlotLba(2, k)][k % n] = IF k = 1 THEN "match" ELSE "other"
        BY <1>1, RootSlot
  <2> QED BY <2>1, <2>2 DEF Find!DirEntry
<1>6. Find!EntryIdx = 0 .. n - 1
      BY <1>1 DEF Find!EntryIdx
<1>7. /\ 0 \div n = 0 /\ 0 % n = 0
      /\ n = 1 => 1 \div n = 1 /\ 1 % n = 0
      /\ n # 1 => 1 \div n = 0 /\ 1 % n = 1
  <2>1. \A a \in {0, 1} : \E q, r \in Nat : a \div n = q /\ a % n = r /\ q * n + r = a /\ r < n
    <3>1. \A a \in {0, 1} : a \in Nat
          OBVIOUS
    <3> QED BY <3>1, Division, Zenon
  <2>2. PICK q0 \in Nat, r0 \in Nat : 0 \div n = q0 /\ 0 % n = r0 /\ q0 * n + r0 = 0 /\ r0 < n
        BY <2>1
  <2>3. PICK q1 \in Nat, r1 \in Nat : 1 \div n = q1 /\ 1 % n = r1 /\ q1 * n + r1 = 1 /\ r1 < n
        BY <2>1
  <2>4. q0 * n \in Nat /\ q1 * n \in Nat /\ (q0 # 0 => q0 * n >= n) /\ (q1 # 0 => q1 * n >= n)
        OBVIOUS
  <2>5. q0 = 0 /\ r0 = 0
        BY <2>2, <2>4
  <2>6. q1 = 0 => r1 = 1
        BY <2>3
  <2>7. q1 # 0 => n = 1 /\ r1 = 0
        BY <2>3, <2>4
  <2>8. q1 # 0 => q1 = 1
        BY <2>3, <2>7
  <2> QED BY <2>2, <2>3, <2>5, <2>6, <2>7, <2>8
<1> DEFINE k == 1 \div n  e == 1 % n
<1>8. Find!IsTheEntry(k, e) /\ e \in Find!EntryIdx /\ k \in {0, 1}
  <2>1. /\ Find!DirEntry(MkClusterToLba(2) + 0, 0) = "other"
        BY <1>5, <1>7
  <2>2. k \in {0, 1} /\ e \in 0 .. n - 1
        BY <1>7
  <2>3. Find!HasSector(k) /\ Find!DirEntry(Find!DirSector(k), e) = "match"
        BY <1>4, <1>5, <2>2
  <2>4. Find!DirSector(0) = MkClusterToLba(2) + 0
        BY <1>4
  <2>5. CASE n = 1
    <3>1. k = 1 /\ e = 0
          BY <1>7, <2>5
    <3>2. \A f \in 0 .. e - 1 : Find!DirEntry(Find!DirSector(k), f) \notin {"end", "match"}
          BY <3>1
    <3>3. \A j \in 0 .. k - 1, f \in Find!EntryIdx :
             Find!DirEntry(Find!DirSector(j), f) \notin {"end", "match"}
      <4>1. \A j \in 0 .. k - 1 : j = 0
            BY <3>1
      <4>2. \A f \in Find!EntryIdx : f = 0
            BY <1>6, <2>5
      <4> QED BY <2>1, <2>4, <4>1, <4>2
    <3> QED BY <1>6, <2>2, <2>3, <3>2, <3>3 DEF Find!IsTheEntry
  <2>6. CASE n # 1
    <3>1. k = 0 /\ e = 1
          BY <1>7, <2>6
    <3>2. \A f \in 0 .. e - 1 : Find!DirEntry(Find!DirSector(k), f) \notin {"end", "match"}
      <4>1. \A f \in 0 .. e - 1 : f = 0
            BY <3>1
      <4> QED BY <2>1, <2>4, <3>1, <4>1
    <3>3. \A j \in 0 .. k - 1, f \in Find!EntryIdx :
             Find!DirEntry(Find!DirSector(j), f) \notin {"end", "match"}
          BY <3>1
    <3> QED BY <1>6, <2>2, <2>3, <3>2, <3>3 DEF Find!IsTheEntry
  <2> QED BY <2>5, <2>6
<1> HIDE DEF k, e
<1>9. k \in Find!SectorNumbers
      BY <1>4, <1>8
<1> QED BY <1>8, <1>9 DEF ScanInv, SearchIsRight, Find!NotFoundIsAbsent

-----------------------------------------------------------------------------
(* The kernel that mkdisk stored comes back: the loader                    *)

\* Once the machine is started with the image, that image is its disk and the
\* kernel the file it reads.
ReadBackInv ==
    /\ phase = "build" => searches = 0
    /\ ImageWritten /\ phase # "build" =>
          /\ vol = ImageVolume
          /\ phase = "mount" => searches = 0
          /\ phase = "read" => KernelFile /\ (pc = "done" => ret \in {"ok", "err"})
    /\ KernelIsReadBack

\* The image stays as it is when mkdisk takes no step,
LEMMA ImageKept ==
    ASSUME UNCHANGED mkvars
    PROVE  ImageVolume' = ImageVolume /\ ImageWritten' = ImageWritten
<1>1. disk' = disk /\ next' = next /\ status' = status
      BY DEF mkvars
<1> QED BY <1>1 DEF ImageVolume, ImageWritten

\* and the file the kernel when fat_read_file() is not called.
LEMMA KernelFileKept ==
    ASSUME KernelFile, MkInv', UNCHANGED <<mkvars, vol, first, file_size>>
    PROVE  KernelFile'
<1>1. size' = size
      BY DEF mkvars
<1>2. Begin(size, 7)' = Begin(size, 7)
      BY <1>1
<1> QED BY <1>1, <1>2, ImageKept DEF KernelFile

\* The two phases in which something is said of the outcome are final.
LEMMA ReadBackKept ==
    ASSUME ReadBackInv, MkInv', UNCHANGED <<building, vol, phase, searches>>,
           UNCHANGED <<reading, fioError>> \/ phase \notin {"loaded", "halt"},
           ImageWritten /\ phase = "read" =>
              UNCHANGED <<first, file_size>> /\ (pc' = "done" => ret' \in {"ok", "err"})
    PROVE  ReadBackInv'
<1>1. UNCHANGED mkvars /\ status' = status /\ size' = size /\ disk' = disk
      BY DEF building, mkvars
<1>2. ImageVolume' = ImageVolume /\ ImageWritten' = ImageWritten
      BY <1>1, ImageKept
<1>3. ImageWritten /\ phase = "read" => KernelFile'
      BY <1>1, KernelFileKept DEF ReadBackInv
<1>4. KernelIsReadBack'
  <2>1. CASE phase \notin {"loaded", "halt"}
        BY <2>1 DEF KernelIsReadBack
  <2>2. CASE UNCHANGED <<reading, fioError>>
    <3>1. UNCHANGED <<file_size, dest, ioError, fioError, size, status, phase, searches>>
          BY <1>1, <2>2 DEF reading
    <3>2. \A l, f, n : Holds(l, f, n)' <=> Holds(l, f, n)
          BY <1>1 DEF Holds, Sector
    <3>3. KernelIsReadBack
          BY DEF ReadBackInv
    <3> QED BY <3>1, <3>2, <3>3 DEF KernelIsReadBack
  <2> QED BY <2>1, <2>2
<1> QED BY <1>2, <1>3, <1>4 DEF ReadBackInv

\* A read that is over has an answer.
LEMMA AnswerGiven ==
    ASSUME Next, pc = "done" => ret \in {"ok", "err"}
    PROVE  pc' = "done" => ret' \in {"ok", "err"}
BY DEF Next, EnterCluster, Return, ReadSector, ReadSectorFails, LeaveCluster, FollowChain,
       FollowChainFails

\* ReadBackInv holds at first,
LEMMA ReadBackInit == LoaderInit => ReadBackInv
<1> SUFFICES ASSUME LoaderInit PROVE ReadBackInv
    OBVIOUS
<1>1. status = "none" /\ searches = 0 /\ phase \in {"build", "mount", "read"}
      BY DEF LoaderInit, MkInit
<1> QED BY <1>1 DEF ReadBackInv, KernelIsReadBack, ImageWritten

\* and every step of mkdisk, the machine and the loader keeps it.
LEMMA ReadBackStep == LoaderInv /\ ReadBackInv /\ [LoaderNext]_loadervars => ReadBackInv'
<1> SUFFICES ASSUME LoaderInv, ReadBackInv, [LoaderNext]_loadervars PROVE ReadBackInv'
    OBVIOUS
<1>0. LoaderInv' /\ MkInv /\ MkInv'
      BY LoaderStep DEF LoaderInv
<1>1. CASE UNCHANGED loadervars
  <2>1. /\ UNCHANGED <<building, vol, phase, searches, reading, fioError>>
        /\ UNCHANGED <<first, file_size, pc, ret>>
        BY <1>1 DEF loadervars, finding, reading
  <2>2. ImageWritten /\ phase = "read" => (pc' = "done" => ret' \in {"ok", "err"})
        BY <2>1 DEF ReadBackInv
  <2> QED BY <1>0, <2>1, <2>2, ReadBackKept
<1>2. CASE Build
  <2>1. phase' = "build" /\ searches' = 0
        BY <1>2 DEF Build, ReadBackInv
  <2> QED BY <2>1 DEF ReadBackInv, KernelIsReadBack
<1>3. CASE BootImage
  <2>1. /\ phase' = "mount" /\ searches' = 0 /\ vol' = ImageVolume /\ UNCHANGED mkvars
        BY <1>3 DEF BootImage, ReadBackInv, building
  <2> QED BY <2>1, ImageKept DEF ReadBackInv, KernelIsReadBack
<1>4. CASE Mount \/ FindAgain
  <2>1. /\ phase \in {"mount", "find"} /\ phase' = "find" /\ UNCHANGED <<vol, building>>
        BY <1>4 DEF Mount, FindAgain, StartFind, Find!Call
  <2>2. ImageVolume' = ImageVolume /\ ImageWritten' = ImageWritten
        BY <2>1, ImageKept DEF building
  <2> QED BY <2>1, <2>2 DEF ReadBackInv, KernelIsReadBack
<1>5. CASE MountFails
  <2>1. /\ phase = "mount" /\ phase' = "halt" /\ UNCHANGED <<vol, building, searches>>
        BY <1>5 DEF MountFails
  <2>2. ImageVolume' = ImageVolume /\ ImageWritten' = ImageWritten
        BY <2>1, ImageKept DEF building
  <2>3. KernelIsReadBack'
    <3>1. ImageWritten' => searches' = 0
          BY <2>1, <2>2 DEF ReadBackInv
    <3> QED BY <2>1, <3>1 DEF KernelIsReadBack, ImageWritten
  <2> QED BY <2>1, <2>2, <2>3 DEF ReadBackInv
<1>6. CASE NotFound
  <2>1. /\ phase = "find" /\ phase' = "halt" /\ UNCHANGED <<vol, building, searches, fioError>>
        /\ searches = 2 /\ fret = "err"
        BY <1>6 DEF NotFound, finding
  <2>2. ImageVolume' = ImageVolume /\ ImageWritten' = ImageWritten
        BY <2>1, ImageKept DEF building
  <2>3. ScanInv
        BY <2>1 DEF LoaderInv, FindState
  <2>4. ImageWritten => vol = ImageVolume
        BY <2>1 DEF ReadBackInv
  <2>5. ImageWritten => fioError
        BY <1>0, <2>1, <2>3, <2>4, KernelNotMissed
  <2>6. KernelIsReadBack'
    <3>1. ImageWritten' => fioError' /\ searches' = 2
          BY <2>1, <2>2, <2>5
    <3> QED BY <2>1, <3>1 DEF KernelIsReadBack, ImageWritten
  <2> QED BY <2>1, <2>2, <2>4, <2>6 DEF ReadBackInv
<1>7. CASE FindStep
  <2>1. /\ phase = "find" /\ UNCHANGED <<building, phase, searches>>
        BY <1>7 DEF FindStep
  <2>2. UNCHANGED vol
        BY <1>7 DEF FindStep, Find!Next, Find!EnterCluster, Find!Exhausted, Find!ScanSector,
                    Find!ScanSectorFails, Find!LeaveCluster, Find!FollowChain,
                    Find!FollowChainFails
  <2> QED BY <1>0, <2>1, <2>2, ReadBackKept
<1>8. CASE StartRead
  <2>1. /\ phase = "find" /\ phase' = "read" /\ UNCHANGED <<vol, building>> /\ pc' = "loop"
        BY <1>8 DEF StartRead
  <2>2. PICK e \in vol.files : first' = e.first /\ file_size' = e.size
        BY <1>8 DEF StartRead
  <2>3. ImageVolume' = ImageVolume /\ ImageWritten' = ImageWritten
        BY <2>1, ImageKept DEF building
  <2>4. ASSUME ImageWritten
        PROVE  KernelFile'
    <3>1. vol = ImageVolume
          BY <2>1, <2>4 DEF ReadBackInv
    <3>2. e = Entry(size, 7)
          BY <1>0, <2>2, <2>4, <3>1, KernelEntry
    <3>3. Script[7].name = "GEMIOS.ELF" /\ 7 \in FileSteps
          BY ScriptNames DEF FileSteps
    <3>4. first' = Begin(size, 7) /\ file_size' = size["GEMIOS.ELF"]
          BY <2>2, <3>2, <3>3, EntryFields
    <3>5. size' = size
          BY <2>1 DEF building, mkvars
    <3>6. Begin(size, 7)' = Begin(size, 7)
          BY <3>5
    <3> QED BY <1>0, <2>1, <2>3, <2>4, <3>1, <3>4, <3>5, <3>6 DEF KernelFile
  <2> QED BY <2>1, <2>3, <2>4 DEF ReadBackInv, KernelFile, KernelIsReadBack
<1>9. CASE ReadStep
  <2>1. phase = "read" /\ Next /\ UNCHANGED <<building, phase, searches>>
        BY <1>9 DEF ReadStep
  <2>2. UNCHANGED <<vol, first, file_size>>
        BY <2>1, VolumeKept DEF file
  <2>3. ImageWritten => (pc' = "done" => ret' \in {"ok", "err"})
        BY <2>1, AnswerGiven DEF ReadBackInv
  <2> QED BY <1>0, <2>1, <2>2, <2>3, ReadBackKept
<1>10. CASE ReadReturns
  <2>1. /\ phase = "read" /\ pc = "done" /\ phase' = IF ret = "ok" THEN "loaded" ELSE "halt"
        /\ UNCHANGED <<vol, building, reading, mkvars>>
        BY <1>10 DEF ReadReturns, building
  <2>2. ImageVolume' = ImageVolume /\ ImageWritten' = ImageWritten
        BY <2>1, ImageKept
  <2>3. FileInv
        BY <2>1 DEF LoaderInv, ReadState
  <2>4. ASSUME ImageWritten
        PROVE  KernelIsReadBack'
    <3>1. KernelFile /\ ret \in {"ok", "err"}
          BY <2>1, <2>4 DEF ReadBackInv
    <3>2. UNCHANGED <<file_size, dest, ioError, size, disk, status>>
          BY <2>1 DEF reading, mkvars
    <3>3. \A l, f, n : Holds(l, f, n)' <=> Holds(l, f, n)
          BY <3>2 DEF Holds, Sector
    <3>4. CASE ret = "ok"
      <4>1. file_size = size["GEMIOS.ELF"]
            BY <3>1 DEF KernelFile
      <4>2. \A i \in 0 .. file_size - 1 : /\ Holds(dest[i][1], "GEMIOS.ELF", i \div SECTOR_SIZE)
                                          /\ dest[i][2] = i % SECTOR_SIZE
            BY <2>1, <2>3, <3>1, <3>4, KernelDelivered
      <4> QED BY <2>1, <3>2, <3>3, <3>4, <4>1, <4>2 DEF KernelIsReadBack
    <3>5. CASE ret = "err"
      <4>1. ioError'
            BY <2>1, <2>3, <3>1, <3>2, <3>5, KernelNotRefused
      <4> QED BY <2>1, <3>5, <4>1 DEF KernelIsReadBack
    <3> QED BY <3>1, <3>4, <3>5
  <2>5. ~ImageWritten => KernelIsReadBack'
        BY <2>2 DEF KernelIsReadBack, ImageWritten
  <2> QED BY <2>1, <2>2, <2>4, <2>5 DEF ReadBackInv
<1> QED BY <1>1, <1>2, <1>3, <1>4, <1>5, <1>6, <1>7, <1>8, <1>9, <1>10 DEF LoaderNext, Running

\* From an image that mkdisk built the loader reads the very kernel it was
\* built from, for all sizes of the files, and halts only if a read fails.
THEOREM KernelComesBack == LoaderSpec => []KernelIsReadBack
<1>1. ReadBackInv => KernelIsReadBack
      BY DEF ReadBackInv
<1> QED BY LoaderAlways, ReadBackInit, ReadBackStep, <1>1, PTL DEF LoaderSpec
=============================================================================

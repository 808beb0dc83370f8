--------------------------- MODULE FatImage_proofs ---------------------------
(***************************************************************************)
(* Theorems about FatImage, for images, tables and command lines of any    *)
(* size and any number of overlapping runs: no block is given to two       *)
(* directories, no table shows an entry older than its directory, and a    *)
(* command loses nothing of an image no other command has changed.         *)
(***************************************************************************)
EXTENDS FatImage, FiniteSetTheorems, TLAPS

(* The least element that loops over entries and blocks stop at.           *)
LEMMA LeastIsLeast ==
    ASSUME NEW S \in SUBSET Nat, S # {}
    PROVE  Least(S) \in S /\ \A y \in S : Least(S) <= y
<1> DEFINE R == {ss \in Nat \X Nat : ss[1] < ss[2]}
<1>1. IsWellFoundedOn(R, Nat)
  BY NatLessThanWellFounded DEF OpToRel
<1> HIDE DEF R
<1>2. PICK x \in S : \A y \in S : ~(<<y, x>> \in R)
  BY <1>1, WFMin
<1>3. ASSUME NEW y \in S PROVE x <= y
  <2>1. <<y, x>> \notin R /\ x \in Nat /\ y \in Nat
    BY <1>2
  <2>2. ~(y < x)
    BY <2>1 DEF R
  <2> QED
    BY <2>1, <2>2
<1> QED
  BY <1>3 DEF Least

(* The table of a later block starts at least as many entries later.       *)
LEMMA TablesMonotone ==
    ASSUME NEW a \in Nat, NEW b \in Nat, a <= b
    PROVE  /\ Table(a) \in Nat /\ Table(b) \in Nat /\ Table(a) >= RootEntries
           /\ Table(b) >= Table(a) + (b - a)
<1> DEFINE m == b - a
<1>1. m \in Nat /\ b = a + m
  OBVIOUS
<1>2. PerBlock \in Nat /\ PerBlock >= 1 /\ RootEntries \in Nat
  BY LayoutAssumption
<1>3. PerBlock * a \in Nat /\ PerBlock * m \in Nat
  BY <1>1, <1>2
<1>4. PerBlock * b = PerBlock * a + PerBlock * m
  BY <1>1, <1>2
<1>5. PerBlock * m >= m
  BY <1>1, <1>2
<1> HIDE DEF m
<1> QED
  BY <1>1, <1>2, <1>3, <1>4, <1>5 DEF Table

(* Every cell a table covers is a cell of the image.                       *)
LEMMA WindowsAreCells ==
    ASSUME NEW d \in Dirs
    PROVE  Window(d) \subseteq Cells /\ Cells \subseteq Nat /\ d \in Nat
<1>1. RootEntries \in Nat /\ ByteValues - 1 \in Nat /\ ByteValues \in Nat
  BY LayoutAssumption
<1>2. Table(0) \in Nat /\ Table(ByteValues - 1) \in Nat
  BY <1>1, TablesMonotone
<1>3. CASE d = Root
  BY <1>1, <1>2, <1>3 DEF Window, Cells, Root
<1>4. CASE d \in {Table(b) : b \in Bytes}
  <2>1. PICK b \in Bytes : d = Table(b)
    BY <1>4
  <2>2. b \in Nat /\ b <= ByteValues - 1
    BY <1>1 DEF Bytes
  <2>3. d \in Nat /\ d <= Table(ByteValues - 1)
    BY <1>1, <1>2, <2>1, <2>2, TablesMonotone
  <2> QED
    BY <1>1, <1>2, <2>3 DEF Window, Cells
<1> QED
  BY <1>3, <1>4 DEF Dirs

(* The blocks are taken in order: mkdir takes the first free one and rmdir *)
(* gives none back.                                                        *)
TakenInOrder(img) ==
    Occupied(img) \in 0..NBlocks /\ img.fat = 0..(Occupied(img) - 1)

LiveCells(img) == {c \in Cells : img.dir[c] # Free}

BlocksTaken(img) == \A c \in LiveCells(img) : img.dir[c].block \in img.fat
BlocksDiffer(img) ==
    \A c, d \in LiveCells(img) : img.dir[c].block = img.dir[d].block => c = d
EntriesYounger(img) ==
    \A b \in Bytes : \A c \in Live(img, Table(b)) : img.dir[c].block > b

(* What an image in the file or in a run's memory satisfies.               *)
Good(img) ==
    /\ img \in Images
    /\ TakenInOrder(img)
    /\ Occupied(img) <= ByteValues =>
          BlocksTaken(img) /\ BlocksDiffer(img) /\ EntriesYounger(img)

(* The image makeFileSystem writes is well formed.                         *)
LEMMA BlankIsGood == Good(Blank)
<1>1. Blank \in Images /\ LiveCells(Blank) = {}
  BY DEF Blank, Images, LiveCells
<1>2. Occupied(Blank) = 0
  BY FS_EmptySet DEF Blank, Occupied
<1>3. TakenInOrder(Blank)
  BY <1>2, LayoutAssumption DEF TakenInOrder, Blank
<1>4. \A b \in Bytes : Live(Blank, Table(b)) = {}
  <2> SUFFICES ASSUME NEW b \in Bytes PROVE Live(Blank, Table(b)) = {}
    OBVIOUS
  <2>1. Window(Table(b)) \subseteq Cells
    BY WindowsAreCells DEF Dirs
  <2> QED
    BY <2>1 DEF Live, Blank
<1> QED
  BY <1>1, <1>3, <1>4 DEF Good, BlocksTaken, BlocksDiffer, EntriesYounger

(* The first free block is the number of blocks taken.                     *)
LEMMA FirstFree ==
    ASSUME NEW img, TakenInOrder(img)
    PROVE  /\ Occupied(img) = NBlocks => FreeBlocks(img) = {}
           /\ Occupied(img) < NBlocks =>
                 FreeBlocks(img) # {} /\ Least(FreeBlocks(img)) = Occupied(img)
<1> DEFINE k == Occupied(img)
<1>1. NBlocks \in Nat /\ k \in 0..NBlocks
  BY LayoutAssumption DEF TakenInOrder
<1>2. FreeBlocks(img) = k..(NBlocks - 1)
  BY <1>1 DEF FreeBlocks, Blocks, TakenInOrder
<1> HIDE DEF k
<1>3. ASSUME k < NBlocks PROVE Least(FreeBlocks(img)) = k
  <2>1. k \in FreeBlocks(img) /\ FreeBlocks(img) \in SUBSET Nat
    BY <1>1, <1>2, <1>3
  <2>2. Least(FreeBlocks(img)) \in FreeBlocks(img) /\ Least(FreeBlocks(img)) <= k
    BY <2>1, LeastIsLeast
  <2> QED
    BY <1>1, <1>2, <2>2
<1> QED
  BY <1>1, <1>2, <1>3 DEF k

(* The table find_directory ends in belongs to a block that is taken.      *)
LEMMA FoundIsTaken ==
    ASSUME NEW img, Good(img), Occupied(img) <= ByteValues,
           NEW path \in Paths, NEW d \in AtPath(img, path)
    PROVE  d = Root \/ \E b \in Bytes : b \in img.fat /\ d = Table(b)
<1>1. Len(path) \in Nat
  BY NameAssumption
<1>2. PICK chain \in [0..Len(path) -> Dirs] :
         /\ chain[0] = Root /\ chain[Len(path)] = d
         /\ \A i \in 1..Len(path) : Child(img, chain[i - 1], path[i], chain[i])
  BY DEF AtPath
<1>3. CASE Len(path) = 0
  BY <1>2, <1>3
<1>4. CASE Len(path) # 0
  <2> DEFINE i == Len(path)
             e == chain[i - 1]
             found == Called(img, e, path[i])
  <2>1. i \in 1..Len(path) /\ e \in Dirs
    BY <1>1, <1>2, <1>4
  <2>2. found # {} /\ d = Table(img.dir[Least(found)].block)
    BY <1>2, <2>1 DEF Child
  <2>3. found \subseteq LiveCells(img) /\ found \in SUBSET Nat
    BY <2>1, WindowsAreCells DEF Called, Live, LiveCells
  <2> HIDE DEF found
  <2>4. Least(found) \in LiveCells(img)
    BY <2>2, <2>3, LeastIsLeast
  <2>5. img.dir[Least(found)].block \in Bytes
    BY <2>4 DEF Good, Images, Entry, LiveCells
  <2>6. img.dir[Least(found)].block \in img.fat
    BY <2>4 DEF Good, BlocksTaken
  <2> QED
    BY <2>2, <2>5, <2>6
<1> QED
  BY <1>3, <1>4

(* The entries before the first gap of a table have different blocks, all  *)
(* younger than the table's: there are fewer of them than blocks taken     *)
(* since.  So the gap lies before the table of every block still free.     *)
LEMMA GapIsLow ==
    ASSUME NEW img, Good(img), Occupied(img) < ByteValues,
           NEW b \in Bytes, b \in img.fat, NEW c \in Window(Table(b)),
           \A x \in Table(b)..(c - 1) : img.dir[x] # Free,
           NEW a \in Bytes, Table(a) <= c
    PROVE  a < Occupied(img)
<1> DEFINE k == Occupied(img)
           S == Table(b)..(c - 1)
           T == (b + 1)..(k - 1)
           f == [x \in S |-> img.dir[x].block]
<1> SUFFICES ASSUME ~(a < k) PROVE FALSE
  OBVIOUS
<1>1. k \in Nat /\ a \in Nat /\ b \in Nat /\ b < k /\ RootEntries \in Nat /\ ByteValues \in Nat
  BY LayoutAssumption DEF Good, TakenInOrder, Bytes
<1>2. Table(b) \in Nat /\ Table(a) \in Nat /\ Table(a) >= Table(b) + (a - b)
  BY <1>1, TablesMonotone
<1>3. c \in Nat /\ c - Table(b) >= k - b
  BY <1>1, <1>2 DEF Window
<1>4. S \subseteq Window(Table(b)) /\ S \subseteq LiveCells(img)
  <2>1. Window(Table(b)) \subseteq Cells
    BY WindowsAreCells DEF Dirs
  <2>2. S \subseteq Window(Table(b))
    BY <1>1, <1>2, <1>3 DEF Window
  <2> QED
    BY <2>1, <2>2 DEF LiveCells
<1>5. f \in [S -> T]
  <2> SUFFICES ASSUME NEW x \in S PROVE img.dir[x].block \in T
    OBVIOUS
  <2>1. x \in LiveCells(img) /\ x \in Live(img, Table(b))
    BY <1>4 DEF Live, LiveCells
  <2>2. img.dir[x].block \in img.fat /\ img.dir[x].block > b
    BY <1>1, <2>1, LayoutAssumption DEF Good, BlocksTaken, EntriesYounger
  <2>3. img.dir[x].block \in 0..(k - 1)
    BY <2>2 DEF Good, TakenInOrder
  <2> QED
    BY <1>1, <2>2, <2>3
<1>6. /\ IsFiniteSet(S) /\ Cardinality(S) = c - Table(b)
      /\ IsFiniteSet(T) /\ Cardinality(T) = (k - 1) - b
  <2>1. Table(b) <= c - 1 /\ c - 1 \in Int /\ k - 1 \in Int /\ b + 1 \in Int
    BY <1>1, <1>2, <1>3
  <2>2. Cardinality(S) = c - Table(b) /\ IsFiniteSet(S)
    BY <1>2, <1>3, <2>1, FS_Interval
  <2>3. IsFiniteSet(T) /\ Cardinality(T) = IF b + 1 > k - 1 THEN 0 ELSE (k - 1) - (b + 1) + 1
    BY <2>1, FS_Interval
  <2>4. Cardinality(T) = (k - 1) - b
    <3> HIDE DEF T, k
    <3> QED
      BY <1>1, <2>3
  <2> QED
    BY <2>2, <2>3, <2>4
<1>7. Cardinality(T) < Cardinality(S)
  BY <1>1, <1>2, <1>3, <1>6
<1>8. PICK x \in S, y \in S : x # y /\ f[x] = f[y]
  <2> HIDE DEF f, S, T
  <2> QED
    BY <1>5, <1>6, <1>7, FS_PigeonHole
<1> QED
  BY <1>4, <1>8, <1>1, LayoutAssumption DEF Good, BlocksDiffer

(* The entry mkdir fills is the first gap of a table.                      *)
LEMMA PlaceIsFirstGap ==
    ASSUME NEW img, NEW d \in Dirs, Unused(img, d) # {}
    PROVE  /\ Place(img, d) \in Window(d) /\ Place(img, d) \in Cells
           /\ Place(img, d) \in Nat /\ img.dir[Place(img, d)] = Free
           /\ \A x \in d..(Place(img, d) - 1) : img.dir[x] # Free
<1> DEFINE gaps == Unused(img, d)
           c == Place(img, d)
<1>1. Window(d) \subseteq Cells /\ Cells \subseteq Nat /\ d \in Nat
  BY WindowsAreCells
<1>2. gaps \in SUBSET Nat /\ gaps \subseteq Window(d)
  BY <1>1 DEF Unused
<1>3. c \in gaps /\ \A y \in gaps : c <= y
  BY <1>2, LeastIsLeast DEF Place
<1> HIDE DEF c
<1>4. ASSUME NEW x \in d..(c - 1) PROVE img.dir[x] # Free
  <2>1. x \in Window(d) /\ ~(c <= x)
    BY <1>1, <1>2, <1>3, LayoutAssumption DEF Window
  <2> QED
    BY <1>3, <2>1 DEF Unused
<1> QED
  BY <1>1, <1>2, <1>3, <1>4 DEF Unused, c

(* mkdir keeps an image good: with a block to spare, the new entry's block *)
(* is the youngest and no table of a free block shows it.                  *)
LEMMA CreatedIsGood ==
    ASSUME NEW img, Good(img), NEW path \in Paths, NEW n \in Names,
           NEW d \in AtPath(img, path), Unused(img, d) # {}
    PROVE  Good(Created(img, d, n))
<1> DEFINE new == Created(img, d, n)
           k == Occupied(img)
           c == Place(img, d)
<1>1. NBlocks \in Nat /\ ByteValues \in Nat \ {0} /\ ByteValues < NBlocks /\ k \in 0..NBlocks
      /\ img.fat = 0..(k - 1)
  BY LayoutAssumption DEF Good, TakenInOrder
<1>2. d \in Dirs
  BY DEF AtPath
<1>3. /\ c \in Window(d) /\ c \in Cells /\ c \in Nat /\ img.dir[c] = Free
      /\ \A x \in d..(c - 1) : img.dir[x] # Free
  BY <1>2, PlaceIsFirstGap
<1>4. /\ k = NBlocks => Mark(img) = img.fat /\ FirstBlock(img) = 0
      /\ k < NBlocks => Mark(img) = img.fat \cup {k} /\ FirstBlock(img) = k % ByteValues
  BY FirstFree DEF Good, Mark, FirstBlock
<1>5. FirstBlock(img) \in Bytes /\ (k < ByteValues => FirstBlock(img) = k)
  BY <1>1, <1>4 DEF Bytes
<1>6. /\ new.fat = Mark(img) /\ DOMAIN new.dir = Cells
      /\ new.dir[c] = [name |-> Stored[n], block |-> FirstBlock(img)]
      /\ \A x \in Cells \ {c} : new.dir[x] = img.dir[x]
  BY <1>3 DEF Created, Good, Images
<1>7. new \in Images
  <2>1. [name |-> Stored[n], block |-> FirstBlock(img)] \in Entry
    BY <1>5, NameAssumption DEF Entry
  <2>2. Mark(img) \in SUBSET Blocks
    BY <1>1, <1>4 DEF Blocks
  <2> QED
    BY <1>3, <2>1, <2>2 DEF Created, Good, Images
<1>8. TakenInOrder(new) /\ Occupied(new) = IF k = NBlocks THEN k ELSE k + 1
  <2>1. CASE k = NBlocks
    BY <1>1, <1>4, <1>6, <2>1 DEF TakenInOrder, Occupied
  <2>2. CASE k < NBlocks
    <3> HIDE DEF new, c, k
    <3>1. new.fat = img.fat \cup {k}
      BY <1>4, <1>6, <2>2
    <3>2. new.fat = 0..k
      BY <1>1, <3>1
    <3>3. Cardinality(0..k) = k + 1
      BY <1>1, FS_Interval
    <3>4. Occupied(new) = k + 1
      BY <3>2, <3>3 DEF Occupied
    <3> QED
      BY <1>1, <2>2, <3>2, <3>4 DEF TakenInOrder
  <2> QED
    BY <1>1, <2>1, <2>2
<1> HIDE DEF new, c, k
<1>9. ASSUME Occupied(new) <= ByteValues
      PROVE  BlocksTaken(new) /\ BlocksDiffer(new) /\ EntriesYounger(new)
  <2>1. k < ByteValues /\ k \in Nat /\ FirstBlock(img) = k /\ new.fat = img.fat \cup {k}
    BY <1>1, <1>4, <1>5, <1>6, <1>8, <1>9
  <2>2. BlocksTaken(img) /\ BlocksDiffer(img) /\ EntriesYounger(img)
    BY <1>1, <2>1 DEF Good, k
  <2>3. LiveCells(new) \subseteq LiveCells(img) \cup {c} /\ new.dir[c].block = k
        /\ \A x \in LiveCells(new) \ {c} : x \in LiveCells(img) /\ new.dir[x] = img.dir[x]
    BY <1>6, <2>1 DEF LiveCells
  <2>4. BlocksTaken(new)
    BY <2>1, <2>2, <2>3 DEF BlocksTaken
  <2>5. \A x \in LiveCells(new) \ {c} : new.dir[x].block # k
    BY <1>1, <2>1, <2>2, <2>3 DEF BlocksTaken
  <2>6. BlocksDiffer(new)
    BY <2>2, <2>3, <2>5 DEF BlocksDiffer
  <2>7. \A a \in Bytes : c \in Window(Table(a)) => a < k
    <3> SUFFICES ASSUME NEW a \in Bytes, c \in Window(Table(a)) PROVE a < k
      OBVIOUS
    <3>1. a \in Nat /\ RootEntries \in Nat
      BY <1>1, LayoutAssumption DEF Bytes
    <3>2. Table(a) \in Nat /\ Table(a) >= RootEntries
      BY <3>1, TablesMonotone
    <3>3. Table(a) <= c
      BY <3>1, <3>2, <1>3 DEF Window
    <3>4. CASE d = Root
      BY <1>3, <3>1, <3>2, <3>3, <3>4 DEF Window, Root
    <3>5. ASSUME NEW b \in Bytes, b \in img.fat, d = Table(b) PROVE a < k
      BY <1>3, <2>1, <3>3, <3>5, GapIsLow DEF k
    <3> QED
      BY <1>1, <2>1, <3>4, <3>5, FoundIsTaken DEF k
  <2>8. EntriesYounger(new)
    <3> SUFFICES ASSUME NEW b \in Bytes, NEW x \in Live(new, Table(b))
                 PROVE  new.dir[x].block > b
      BY DEF EntriesYounger
    <3>1. x \in Window(Table(b)) /\ x \in Cells /\ new.dir[x] # Free
      BY WindowsAreCells DEF Live, Dirs
    <3>2. CASE x = c
      BY <1>1, <2>1, <2>3, <2>7, <3>1, <3>2 DEF Bytes
    <3>3. CASE x # c
      BY <1>6, <2>2, <3>1, <3>3 DEF Live, EntriesYounger
    <3> QED
      BY <3>2, <3>3
  <2> QED
    BY <2>4, <2>6, <2>8
<1> QED
  BY <1>7, <1>8, <1>9 DEF Good, new

(* rmdir keeps an image good: an entry goes, its block stays taken.        *)
LEMMA ClearedIsGood ==
    ASSUME NEW img, Good(img), NEW t \in Cells
    PROVE  Good(Cleared(img, t))
<1> DEFINE new == Cleared(img, t)
<1>1. /\ new \in Images /\ new.fat = img.fat
      /\ new.dir[t] = Free /\ \A x \in Cells \ {t} : new.dir[x] = img.dir[x]
  BY DEF Cleared, Good, Images
<1> HIDE DEF new
<1>2. Occupied(new) = Occupied(img) /\ TakenInOrder(new)
  BY <1>1 DEF Occupied, TakenInOrder, Good
<1>3. \A x \in Cells : new.dir[x] # Free => img.dir[x] # Free /\ new.dir[x] = img.dir[x]
  BY <1>1
<1>4. BlocksTaken(img) => BlocksTaken(new)
  BY <1>1, <1>3 DEF BlocksTaken, LiveCells
<1>5. BlocksDiffer(img) => BlocksDiffer(new)
  BY <1>1, <1>3 DEF BlocksDiffer, LiveCells
<1>6. EntriesYounger(img) => EntriesYounger(new)
  <2> SUFFICES ASSUME EntriesYounger(img), NEW b \in Bytes, NEW x \in Live(new, Table(b))
               PROVE  new.dir[x].block > b
    BY DEF EntriesYounger
  <2>1. x \in Cells
    BY WindowsAreCells DEF Live, Dirs
  <2> QED
    BY <1>3, <2>1 DEF Live, EntriesYounger
<1> QED
  BY <1>1, <1>2, <1>4, <1>5, <1>6 DEF Good, new

(* What the image new has lost of the image old, and what command may.     *)
Gone(old, new) == {c \in Cells : old.dir[c] # Free /\ new.dir[c] # old.dir[c]}
Kept(old, new, command) ==
    /\ command = "mkdir" => Gone(old, new) = {}
    /\ \A c, d \in Gone(old, new) : c = d

VarsOK ==
    /\ file \in {whole, Lost}
    /\ pc \in [Procs -> {"idle", "loaded", "writing"}]
    /\ mem \in [Procs -> Images]
    /\ op \in [Procs -> Commands \cup {"none"}]
    /\ stale \subseteq Procs

(* A run under way whose copy is not stale holds the last image written,   *)
(* but for what its command may change.                                    *)
CopyKept ==
    \A p \in Procs : pc[p] # "idle" /\ p \notin stale => Kept(whole, mem[p], op[p])

IInv == VarsOK /\ Good(whole) /\ (\A p \in Procs : Good(mem[p])) /\ CopyKept

(* What mkdir and rmdir make of an image keeps every entry they were not   *)
(* asked about.                                                            *)
LEMMA CommandsKeep ==
    ASSUME NEW img, Good(img)
    PROVE  /\ \A command : Kept(img, img, command)
           /\ \A d \in Dirs, n \in Names :
                 Unused(img, d) # {} => Kept(img, Created(img, d, n), "mkdir")
           /\ \A t \in Cells : Kept(img, Cleared(img, t), "rmdir")
<1>1. \A command : Kept(img, img, command)
  BY DEF Kept, Gone
<1>2. ASSUME NEW d \in Dirs, NEW n \in Names, Unused(img, d) # {}
      PROVE  Kept(img, Created(img, d, n), "mkdir")
  <2>1. Place(img, d) \in Cells /\ img.dir[Place(img, d)] = Free
    BY <1>2, PlaceIsFirstGap
  <2>2. \A c \in Cells : c # Place(img, d) => Created(img, d, n).dir[c] = img.dir[c]
    BY DEF Created, Good, Images
  <2>3. Gone(img, Created(img, d, n)) = {}
    BY <2>1, <2>2 DEF Gone
  <2> QED
    BY <2>3 DEF Kept
<1>3. ASSUME NEW t \in Cells PROVE Kept(img, Cleared(img, t), "rmdir")
  <2>1. \A c \in Cells : c # t => Cleared(img, t).dir[c] = img.dir[c]
    BY DEF Cleared, Good, Images
  <2> QED
    BY <2>1 DEF Gone, Kept
<1> QED
  BY <1>1, <1>2, <1>3

(* What a run reads is a good image, whatever happened to the file.        *)
LEMMA ReadIsGood == IInv => Good(Read) /\ (file # Lost => Read = whole)
  BY BlankIsGood DEF IInv, VarsOK, Read

(* A run begins with a good image, from which its command took no more     *)
(* than it may.                                                            *)
LEMMA LoadInv ==
    ASSUME IInv, NEW p \in Procs, NEW command \in Commands, NEW result,
           Good(result), Kept(Read, result, command), Load(p, command, result)
    PROVE  IInv'
<1>1. VarsOK'
  <2>1. result \in Images
    BY DEF Good
  <2> QED
    BY <2>1 DEF IInv, VarsOK, Load
<1>2. Good(whole)' /\ \A q \in Procs : Good(mem'[q])
  BY DEF IInv, VarsOK, Load
<1>3. CopyKept'
  <2> SUFFICES ASSUME NEW q \in Procs, pc'[q] # "idle", q \notin stale'
               PROVE  Kept(whole', mem'[q], op'[q])
    BY DEF CopyKept
  <2>1. CASE q = p
    <3>1. file # Lost /\ whole' = whole /\ mem'[q] = result /\ op'[q] = command
      BY <2>1 DEF IInv, VarsOK, Load
    <3> QED
      BY <3>1, ReadIsGood
  <2>2. CASE q # p
    <3>1. /\ q \notin stale /\ pc[q] # "idle"
          /\ whole' = whole /\ mem'[q] = mem[q] /\ op'[q] = op[q]
      BY <2>2 DEF IInv, VarsOK, Load
    <3> QED
      BY <3>1 DEF IInv, CopyKept
  <2> QED
    BY <2>1, <2>2
<1> QED
  BY <1>1, <1>2, <1>3 DEF IInv

(* mkdir keeps the invariant, whatever image it has read.                  *)
LEMMA MakeDirInv ==
    ASSUME IInv, NEW p \in Procs, NEW path \in Paths, NEW n \in Names, MakeDir(p, path, n)
    PROVE  IInv'
<1>1. Good(Read) /\ "mkdir" \in Commands
  BY ReadIsGood DEF Commands
<1>2. ASSUME NEW d \in AtPath(Read, path), Unused(Read, d) # {},
             Load(p, "mkdir", Created(Read, d, n))
      PROVE  IInv'
  <2>1. d \in Dirs
    BY DEF AtPath
  <2>2. Good(Created(Read, d, n)) /\ Kept(Read, Created(Read, d, n), "mkdir")
    BY <1>1, <1>2, <2>1, CreatedIsGood, CommandsKeep
  <2> QED
    BY <1>1, <1>2, <2>2, LoadInv
<1>3. CASE Load(p, "mkdir", Read)
  BY <1>1, <1>3, CommandsKeep, LoadInv
<1> QED
  BY <1>2, <1>3 DEF MakeDir

(* rmdir keeps the invariant, whatever image it has read.                  *)
LEMMA RemoveDirInv ==
    ASSUME IInv, NEW p \in Procs, NEW path \in Paths, NEW n \in Names, RemoveDir(p, path, n)
    PROVE  IInv'
<1>1. Good(Read) /\ "rmdir" \in Commands
  BY ReadIsGood DEF Commands
<1>2. ASSUME NEW d \in AtPath(Read, path), Removable(Read, d, n),
             Load(p, "rmdir", Cleared(Read, Target(Read, d, n)))
      PROVE  IInv'
  <2> DEFINE found == Called(Read, d, Stored[n])
  <2>1. found # {} /\ found \in SUBSET Cells /\ found \in SUBSET Nat
    BY <1>2, WindowsAreCells DEF AtPath, Removable, Called, Live
  <2>2. Target(Read, d, n) \in Cells
    BY <2>1, LeastIsLeast DEF Target
  <2>3. /\ Good(Cleared(Read, Target(Read, d, n)))
        /\ Kept(Read, Cleared(Read, Target(Read, d, n)), "rmdir")
    BY <1>1, <2>2, ClearedIsGood, CommandsKeep
  <2> QED
    BY <1>1, <1>2, <2>3, LoadInv
<1>3. CASE Load(p, "rmdir", Read)
  BY <1>1, <1>3, CommandsKeep, LoadInv
<1> QED
  BY <1>2, <1>3 DEF RemoveDir

(* Writing back makes the run's copy the last image written; every other   *)
(* run under way is stale from then on.                                    *)
LEMMA WriteInv ==
    ASSUME IInv, NEW p \in Procs, Truncate(p) \/ Save(p) \/ Kill(p)
    PROVE  IInv'
<1>0. Blank \in Images
  BY BlankIsGood DEF Good
<1>1. CASE Truncate(p)
  <2>1. VarsOK'
    BY <1>1 DEF IInv, VarsOK, Truncate
  <2>2. \A q \in Procs : pc'[q] # "idle" => pc[q] # "idle"
    BY <1>1 DEF IInv, VarsOK, Truncate
  <2> QED
    BY <1>1, <2>1, <2>2 DEF IInv, CopyKept, Truncate
<1>2. CASE Save(p)
  <2>1. VarsOK'
    BY <1>0, <1>2 DEF IInv, VarsOK, Save
  <2>2. Good(whole)' /\ \A q \in Procs : Good(mem'[q])
    BY <1>2, BlankIsGood DEF IInv, VarsOK, Save
  <2>3. \A q \in Procs : pc'[q] # "idle" => q \in stale'
    BY <1>2 DEF IInv, VarsOK, Save
  <2> QED
    BY <2>1, <2>2, <2>3 DEF IInv, CopyKept
<1>3. CASE Kill(p)
  <2>1. VarsOK'
    BY <1>0, <1>3 DEF IInv, VarsOK, Kill
  <2>2. Good(whole)' /\ \A q \in Procs : Good(mem'[q])
    BY <1>3, BlankIsGood DEF IInv, VarsOK, Kill
  <2>3. \A q \in Procs : pc'[q] # "idle" /\ q \notin stale' =>
           /\ pc[q] # "idle" /\ q \notin stale
           /\ whole' = whole /\ mem'[q] = mem[q] /\ op'[q] = op[q]
    BY <1>3 DEF IInv, VarsOK, Kill
  <2>4. CopyKept'
    BY <2>3 DEF IInv, CopyKept
  <2> QED
    BY <2>1, <2>2, <2>4 DEF IInv
<1> QED
  BY <1>1, <1>2, <1>3

(* For any image size, names and number of runs at a time, every image on  *)
(* disk and in memory is well formed, through kills and overtaking runs    *)
(* (fileSystemOper.c 53-236).                                              *)
THEOREM Invariance == Spec => []IInv
<1>1. Init => IInv
  <2> SUFFICES ASSUME Init PROVE IInv
    OBVIOUS
  <2>1. Blank \in Images
    BY BlankIsGood DEF Good
  <2>2. VarsOK /\ CopyKept
    BY <2>1 DEF Init, VarsOK, CopyKept
  <2> QED
    BY <2>2, BlankIsGood DEF Init, IInv
<1>2. IInv /\ [Next]_vars => IInv'
  <2>1. IInv /\ UNCHANGED vars => IInv'
    BY DEF vars, IInv, VarsOK, CopyKept
  <2> QED
    BY <2>1, MakeDirInv, RemoveDirInv, WriteInv DEF Next, RunStep
<1> QED
  BY <1>1, <1>2, PTL DEF Spec

(* Every variable keeps its type: no command marks a block or writes an    *)
(* entry outside the image, as long as the data area holds every table.    *)
THEOREM TypeCorrect == Spec => []TypeOK
<1>1. IInv => TypeOK
  BY DEF IInv, VarsOK, TypeOK, Present, Good, Images
<1> QED
  BY Invariance, <1>1, PTL

(* No block is given to two directories while no more than 256 have been   *)
(* made (create_directory 114-120).                                        *)
THEOREM BlocksAreNotShared == Spec => []NoSharedBlocks
<1>1. IInv => NoSharedBlocks
  <2> SUFFICES ASSUME IInv, NEW img \in Present, Occupied(img) <= ByteValues
               PROVE  BlocksTaken(img) /\ BlocksDiffer(img)
    BY DEF NoSharedBlocks, BlocksTaken, BlocksDiffer, LiveCells
  <2> QED
    BY DEF IInv, Present, Good
<1> QED
  BY Invariance, <1>1, PTL

(* Every entry a table shows is younger than the table's directory, so no  *)
(* directory contains itself (find_directory 66-72).                       *)
THEOREM NoDirectoryInItself == Spec => []ChildrenAreYounger
<1>1. IInv => ChildrenAreYounger
  BY DEF IInv, Present, Good, EntriesYounger, ChildrenAreYounger
<1> QED
  BY Invariance, <1>1, PTL

(* A command no other command has overtaken loses no entry of the image on *)
(* disk, or at most the one it removes (write_file_system_to_file).        *)
THEOREM OnlyTheTargetGoes == Spec => NothingElseGoes
<1>1. IInv =>
        \A p \in Procs : Save(p) /\ p \notin stale =>
          LET gone == {c \in Cells : /\ whole.dir[c] # Free
                                     /\ whole'.dir[c] # whole.dir[c]}
          IN  /\ op[p] = "mkdir" => gone = {}
              /\ \A c, d \in gone : c = d
  <2> SUFFICES ASSUME IInv, NEW p \in Procs, Save(p), p \notin stale
               PROVE  Kept(whole, whole', op[p])
    BY DEF Kept, Gone
  <2>1. pc[p] # "idle" /\ whole' = mem[p]
    BY DEF Save
  <2> QED
    BY <2>1 DEF IInv, CopyKept
<1> QED
  BY Invariance, <1>1, PTL DEF NothingElseGoes
=============================================================================

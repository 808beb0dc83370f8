------------------------------ MODULE FatImage ------------------------------
(***************************************************************************)
(* The FAT12 exercise (os02): makeFileSystem writes an empty image, and    *)
(* each run of fileSystemOper reads the whole image into memory, looks up  *)
(* or changes directories there and, for mkdir and rmdir, writes the whole *)
(* image back over the file.  Several runs may overlap and any of them may *)
(* be killed.                                                              *)
(*                                                                         *)
(* The image is one array of directory entries: the root's table first,    *)
(* then the data area.  The table of the directory whose first block is b  *)
(* starts at the b-th block of the data area and, like the root's, has     *)
(* ROOT_ENTRIES entries, the length of 14 blocks: tables overlap.  The     *)
(* data area is taken to hold every table; in the program those of blocks  *)
(* 243 to 255 run past the end of the image, which is undefined.           *)
(***************************************************************************)
EXTENDS Naturals, Sequences, FiniteSets

CONSTANTS RootEntries,   \* ROOT_ENTRIES, 224: entries of a table
          PerBlock,      \* entries in a block: BYTES_PER_SECTOR / 32 = 16
          ByteValues,    \* values of first_block_number[0], 256
          NBlocks,       \* NUMBER_OF_BLOCKS, 8192
          Names,         \* the names given on command lines
          Stored,        \* [Names -> Names]: a name's first eight characters
          Paths,         \* the paths given, sequences of names
          Procs,         \* runs of fileSystemOper under way at a time
          Free,          \* an entry whose filename[0] is 0
          Lost           \* the content of a file that was only truncated

ASSUME LayoutAssumption ==
    /\ RootEntries \in Nat \ {0} /\ PerBlock \in Nat \ {0}
    /\ ByteValues \in Nat \ {0} /\ NBlocks \in Nat /\ ByteValues < NBlocks
ASSUME NameAssumption ==
    /\ Stored \in [Names -> Names] /\ \A n \in Names : Stored[Stored[n]] = Stored[n]
    /\ Paths \subseteq Seq(Names)
    /\ Free \notin [name : Names, block : Nat]

Blocks == 0..(NBlocks - 1)
Bytes  == 0..(ByteValues - 1)
Root   == 0
Table(b) == RootEntries + PerBlock * b
Dirs   == {Root} \cup {Table(b) : b \in Bytes}
Cells  == 0..(Table(ByteValues - 1) + RootEntries - 1)
Window(d) == d..(d + RootEntries - 1)

Entry  == [name : Names, block : Bytes]
Images == [fat : SUBSET Blocks, dir : [Cells -> Entry \cup {Free}]]
Commands == {"mkdir", "rmdir"}

VARIABLES
    file,    \* the image on disk, or Lost
    pc,      \* [Procs -> {"idle", "loaded", "writing"}]
    mem,     \* [Procs -> Images]: fs of main, as the command left it
    op,      \* [Procs -> Commands \cup {"none"}]
    whole,   \* history: the image last written in full
    stale    \* history: runs whose copy was read before `whole' was written,
             \*   or from a file that was Lost

vars == <<file, pc, mem, op, whole, stale>>

(* initialize_file_system: no block taken, every entry 0.  It is also what *)
(* a run that reads a truncated file finds in fs, which nothing initialises*)
(* and which lies in stack pages the program has not touched before.       *)
Blank == [fat |-> {}, dir |-> [c \in Cells |-> Free]]

Init ==
    /\ file = Blank
    /\ pc = [p \in Procs |-> "idle"]
    /\ mem = [p \in Procs |-> Blank]
    /\ op = [p \in Procs |-> "none"]
    /\ whole = Blank /\ stale = {}
-----------------------------------------------------------------------------
(* Directories.                                                            *)

Least(S) == CHOOSE x \in S : \A y \in S : x <= y

Live(img, d) == {c \in Window(d) : img.dir[c] # Free}

(* Directories called n in the table at d: strcmp with the whole name.     *)
Called(img, d, n) == {c \in Live(img, d) : img.dir[c].name = n}

(* One token of find_directory: the first entry of that name.              *)
Child(img, d, n, e) ==
    /\ Called(img, d, n) # {}
    /\ e = Table(img.dir[Least(Called(img, d, n))].block)

(* What find_directory returns, if anything: the end of a chain of tables  *)
(* from the root down the path.                                            *)
AtPath(img, path) ==
    {d \in Dirs : \E chain \in [0..Len(path) -> Dirs] :
        /\ chain[0] = Root /\ chain[Len(path)] = d
        /\ \A i \in 1..Len(path) : Child(img, chain[i - 1], path[i], chain[i])}

FreeBlocks(img) == Blocks \ img.fat

(* Defect: the block found is not marked.                                  *)
MarkForgotten(img) == img.fat

(* The first free block is marked as occupied.                             *)
Mark(img) == IF FreeBlocks(img) = {} THEN img.fat
             ELSE img.fat \cup {Least(FreeBlocks(img))}

(* Defect: the number is not cut to a byte.                                *)
WholeNumber(img) == IF FreeBlocks(img) = {} THEN 0 ELSE Least(FreeBlocks(img))

(* Its number is kept in one byte; without a free block the entry's byte   *)
(* stays 0.                                                                *)
FirstBlock(img) == IF FreeBlocks(img) = {} THEN 0
                   ELSE Least(FreeBlocks(img)) % ByteValues

Unused(img, d) == {c \in Window(d) : img.dir[c] = Free}

(* The entry mkdir uses: the first one that is free.                       *)
Place(img, d) == Least(Unused(img, d))

(* create_directory in the table at d, which has an entry to spare.  The   *)
(* name is not looked for first: a directory may hold it twice.            *)
Created(img, d, n) ==
    [fat |-> Mark(img),
     dir |-> [img.dir EXCEPT ![Place(img, d)] =
                 [name |-> Stored[n], block |-> FirstBlock(img)]]]

(* The first entry whose first eight characters are those of n.            *)
Target(img, d, n) == Least(Called(img, d, Stored[n]))

(* remove_directory's notion of an empty directory: no other entry of the  *)
(* root has the target's index, counted from the root, as its first block. *)
IsEmpty(img, t) ==
    ~\E c \in Live(img, Root) : c # t /\ img.dir[c].block = t

(* Defects: the block is given back as well; the rest of the table goes    *)
(* with the entry.                                                         *)
GivenBack(img, t)  == [fat |-> img.fat \ {img.dir[t].block},
                       dir |-> [img.dir EXCEPT ![t] = Free]]
RestCleared(img, t) == [img EXCEPT !.dir = [c \in Cells |-> IF c >= t THEN Free ELSE @[c]]]

(* remove_directory clears the entry; the block stays taken.               *)
Cleared(img, t) == [img EXCEPT !.dir[t] = Free]
-----------------------------------------------------------------------------
(* A run of fileSystemOper: read and change, truncate, write.              *)

Read == IF file = Lost THEN Blank ELSE file

(* A bound on how far runs overlap: none begins while one under way has     *)
(* already been overtaken by a save.                                       *)
OverlapBound == stale = {} \/ file = Lost

Load(p, command, result) ==
    /\ pc[p] = "idle" /\ OverlapBound
    /\ pc' = [pc EXCEPT ![p] = "loaded"]
    /\ mem' = [mem EXCEPT ![p] = result]
    /\ op' = [op EXCEPT ![p] = command]
    /\ stale' = IF file = Lost THEN stale \cup {p} ELSE stale \ {p}
    /\ UNCHANGED <<file, whole>>

(* mkdir.  Without a parent, or in a full one, nothing changes.            *)
MakeDir(p, path, n) ==
    \/ \E d \in AtPath(Read, path) : /\ Unused(Read, d) # {}
                                     /\ Load(p, "mkdir", Created(Read, d, n))
    \/ /\ \A d \in AtPath(Read, path) : Unused(Read, d) = {}
       /\ Load(p, "mkdir", Read)

Removable(img, d, n) == /\ Called(img, d, Stored[n]) # {}
                        /\ IsEmpty(img, Target(img, d, n))

(* rmdir.                                                                  *)
RemoveDir(p, path, n) ==
    \/ \E d \in AtPath(Read, path) : /\ Removable(Read, d, n)
                                     /\ Load(p, "rmdir", Cleared(Read, Target(Read, d, n)))
    \/ /\ \A d \in AtPath(Read, path) : ~Removable(Read, d, n)
       /\ Load(p, "rmdir", Read)

(* fopen(filename, "wb").                                                  *)
Truncate(p) ==
    /\ pc[p] = "loaded"
    /\ pc' = [pc EXCEPT ![p] = "writing"]
    /\ file' = Lost
    /\ UNCHANGED <<mem, op, whole, stale>>

(* fwrite and fclose; also when the command changed nothing.               *)
Save(p) ==
    /\ pc[p] = "writing"
    /\ pc' = [pc EXCEPT ![p] = "idle"]
    /\ file' = mem[p] /\ whole' = mem[p]
    /\ mem' = [mem EXCEPT ![p] = Blank]
    /\ op' = [op EXCEPT ![p] = "none"]
    /\ stale' = {q \in Procs : q # p /\ pc[q] # "idle"}

(* The run is interrupted before it is done.                               *)
Kill(p) ==
    /\ pc[p] # "idle"
    /\ pc' = [pc EXCEPT ![p] = "idle"]
    /\ mem' = [mem EXCEPT ![p] = Blank]
    /\ op' = [op EXCEPT ![p] = "none"]
    /\ stale' = stale \ {p}
    /\ UNCHANGED <<file, whole>>

RunStep(p) == \/ \E path \in Paths, n \in Names : MakeDir(p, path, n) \/ RemoveDir(p, path, n)
              \/ Truncate(p) \/ Save(p)

Next == \E p \in Procs : RunStep(p) \/ Kill(p)

Spec == Init /\ [][Next]_vars
-----------------------------------------------------------------------------
Present == {whole} \cup {mem[p] : p \in Procs}

TypeOK ==
    /\ file \in {whole, Lost}
    /\ pc \in [Procs -> {"idle", "loaded", "writing"}]
    /\ \A img \in Present : /\ img.fat \subseteq Blocks
                            /\ \A c \in Cells : img.dir[c] \in Entry \cup {Free}
    /\ op \in [Procs -> Commands \cup {"none"}]
    /\ stale \subseteq Procs

(* The number of blocks dumpe2fs prints as occupied.                       *)
Occupied(img) == Cardinality(img.fat)

(* No block is given to two directories: as long as no more than 256 have  *)
(* been made, the blocks of an image's entries are marked in its FAT and   *)
(* are all different, whatever was removed, killed or overwritten          *)
(* meanwhile (create_directory 114-120).  Beyond that the byte wraps, and  *)
(* with the FAT full every new directory gets block 0.                     *)
NoSharedBlocks ==
    \A img \in Present : Occupied(img) <= ByteValues =>
        \A c \in Cells : img.dir[c] # Free =>
            /\ img.dir[c].block \in img.fat
            /\ \A d \in Cells \ {c} :
                  img.dir[d] # Free => img.dir[d].block # img.dir[c].block

(* Tables overlap, so an entry made in one directory is listed in others,  *)
(* and removed directories leave their entries behind; yet every entry a   *)
(* table shows is younger than the table's own directory.  So a directory  *)
(* is empty when it is made, and none contains itself, however deep        *)
(* (find_directory 66-72, create_directory 100-118): only because blocks   *)
(* are taken in order and never given back.                                *)
ChildrenAreYounger ==
    \A img \in Present : Occupied(img) <= ByteValues =>
        \A b \in Bytes : \A c \in Live(img, Table(b)) : img.dir[c].block > b

(* A command that met no other command loses nothing of what was on disk:  *)
(* mkdir no entry, rmdir at most one (write_file_system_to_file writes the *)
(* whole image back).  What can be lost is lost to an overlap of two       *)
(* commands or to an interruption before line 24.                          *)
NothingElseGoes ==
    [][\A p \in Procs : Save(p) /\ p \notin stale =>
          LET gone == {c \in Cells : /\ whole.dir[c] # Free
                                     /\ whole'.dir[c] # whole.dir[c]}
          IN  /\ op[p] = "mkdir" => gone = {}
              /\ \A c, d \in gone : c = d]_vars
=============================================================================

------------------------------ MODULE SimDisk ------------------------------
(***************************************************************************)
(* The simulated disk: a file whose blocks are handed out in the order in  *)
(* which block numbers are first seen (simdisk-runtime/simdisk-API.c,      *)
(* content-simfile.c), and a hash table that leads from volume and block   *)
(* number to the place in the file (blkID-hashtab/).                       *)
(*                                                                         *)
(* A key of the table is a string.  Here it is the sequence of its digits, *)
(* with one more value for the colon.  The file is read and written        *)
(* without failure.                                                        *)
(***************************************************************************)
EXTENDS HashTab

CONSTANTS
  Places,        \* the volume and block numbers in use, as pairs
  Contents,      \* block contents
  Wrap           \* 2^27: ioblk << 5 is computed in 32 bits

VARIABLES
  collectformat, \* does the trace give hashes in place of contents?
  simfile,       \* the file: the content at each position written
  simdisk_blkid  \* the next block of the file

diskVars == <<collectformat, chains, simfile, simdisk_blkid>>

Digits[n \in Nat] == IF n < 10 THEN <<n>> ELSE Append(Digits[n \div 10], n % 10)
Colon == 10

\* Faulty variant: nothing separates the numbers.
KeyWithoutColon == [p \in Places |-> Digits[p[1]] \o Digits[p[2]]]

\* construct_key_volid_blkid
DiskKey == [p \in Places |-> Digits[p[1]] \o <<Colon>> \o Digits[p[2]]]

\* blkidcmp(key1, key2) > 0: of two lengths each key is the larger one.
BlkidAfter(k, l) ==
  \/ Len(k) # Len(l)
  \/ \E i \in 1..Len(k) :
       k[i] > l[i] /\ \A j \in 1..(i - 1) : k[j] = l[j]

ASSUME SimDiskAssumption ==
  /\ Places \subseteq Nat \X Nat
  /\ TableKeys = Range(DiskKey) /\ Data = Nat
  /\ Wrap \in Nat \ {0}

\* Where a block is in the file: read_simdisk and write_simdisk compute the
\* offset in 64 bits, get_simcontent and append_simcontent in 32.
Position(id) == IF collectformat THEN id % Wrap ELSE id

\* simdisk_trap: has the block been encountered, and what does the file hold?
Seen(p) == Finds(DiskKey[p])
Fetched(p) == simfile[Position(Search(DiskKey[p]))]

PutInFile(id, k) ==
  simfile' = [i \in DOMAIN simfile \cup {Position(id)} |->
                IF i = Position(id) THEN k ELSE simfile[i]]

DiskInit ==
  /\ collectformat \in BOOLEAN
  /\ HashtabCreate
  /\ simfile = [i \in {} |-> i]
  /\ simdisk_blkid = 0

\* Faulty variant: the next block of the file stays the same.
NewBlockInPlace(p, k) ==
  /\ PutInFile(simdisk_blkid, k)
  /\ HashtabInsert(DiskKey[p], simdisk_blkid)
  /\ UNCHANGED <<simdisk_blkid, collectformat>>

\* simdisk_trap on a block not seen yet.
NewBlock(p, k) ==
  /\ PutInFile(simdisk_blkid, k)
  /\ HashtabInsert(DiskKey[p], simdisk_blkid)
  /\ simdisk_blkid' = simdisk_blkid + 1
  /\ UNCHANGED collectformat

\* disk_write_trap
DiskWriteTrap(p, k) ==
  IF Seen(p)
  THEN /\ PutInFile(Search(DiskKey[p]), k)
       /\ UNCHANGED <<collectformat, chains, simdisk_blkid>>
  ELSE NewBlock(p, k)

\* disk_read_checkconsistency: a block not seen yet is created with the
\* content of the trace.  The content of a seen one takes the place of the
\* trace's; the caller's second check, which it asserts to succeed, changes
\* nothing.
Checked(p, k) == IF Seen(p) THEN Fetched(p) ELSE k
DiskReadCheckconsistency(p, k) ==
  IF Seen(p) THEN UNCHANGED diskVars ELSE NewBlock(p, k)

-----------------------------------------------------------------------------
\* Every block has a place of its own in the file, below the next one, and
\* the table leads to it: a block number is never met under the key of
\* another one, whatever the lengths of their keys and the order in which
\* they were first seen.
DiskSearched ==
  LET Written == {p \in Places : Seen(p)}
      IdOf(p) == Search(DiskKey[p]) IN
    /\ EveryNodeMet
    /\ {IdOf(p) : p \in Written} = 0..(simdisk_blkid - 1)
    /\ \A p, q \in Written : Position(IdOf(p)) = Position(IdOf(q)) => p = q
=============================================================================

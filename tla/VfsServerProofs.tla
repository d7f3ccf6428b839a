--------------------------- MODULE VfsServerProofs ---------------------------
(* Proofs about VfsServer for every int width and every quota.              *)
EXTENDS VfsServer, TLAPS

Inv == TypeOK /\ OffsetWithinDisk /\ AckedIsStored /\ ReadWithinLog

\* Adding a converted int to the offset: below the quota, the 32-bit sum is the
\* exact one.
LEMMA SumBelowQuota ==
  ASSUME NEW off \in Uint32Range, NEW count \in IntRange, off < DISK_SIZE,
         AddUint32(off, ToUint32(count)) < DISK_SIZE
  PROVE  /\ AddUint32(off, ToUint32(count)) = off + count
         /\ AddUint32(off, ToUint32(count)) \in Uint32Range
BY IntMaxAssumption, VfsAssumption
  DEF AddUint32, ToUint32, WordSize, IntRange, Uint32Range

\* Every size_t of the model arrives as an int.
LEMMA TruncateType ==
  ASSUME NEW count \in 0..(2 * WordSize - 1)
  PROVE  Truncate(count) \in IntRange
BY IntMaxAssumption DEF Truncate, ToInt, WordSize, IntRange

\* What a read of the log returns.
LEMMA ReadResult ==
  ASSUME NEW off \in Uint32Range, NEW count \in IntRange, off < DISK_SIZE
  PROVE  LET r == IF ToUint32(count) < off THEN count ELSE ToInt(off)
         IN  /\ r \in IntRange
             /\ 0 <= r
             /\ r <= off
             /\ count >= 0 => r <= count
BY IntMaxAssumption, VfsAssumption
  DEF ToUint32, ToInt, WordSize, IntRange, Uint32Range

LEMMA Small == 0 \in IntRange /\ -1 \in IntRange /\ 0 \in Uint32Range
BY IntMaxAssumption DEF IntRange, Uint32Range, WordSize

LEMMA WriteStep ==
  ASSUME Inv, NEW fd \in Fds \cup {0, 1}, NEW count \in IntRange,
         posix_api_write(fd, count)
  PROVE  Inv'
<1> USE DEF Inv, TypeOK, OffsetWithinDisk, AckedIsStored, ReadWithinLog, Return
<1> DEFINE end == AddUint32(disk_offset, ToUint32(count))
<1>0. end \in Int /\ DISK_SIZE \in Int
  BY IntMaxAssumption, VfsAssumption
    DEF AddUint32, ToUint32, WordSize, IntRange, Uint32Range
<1>1. CASE fd = LOG_FD /\ end >= DISK_SIZE
  <2>1. /\ UNCHANGED <<disk_offset, acked>>
        /\ call' = [op |-> "write", fd |-> fd, count |-> count, ret |-> -1]
    BY <1>0, <1>1 DEF posix_api_write
  <2> QED
    BY <2>1, Small
<1>2. CASE fd = LOG_FD /\ end < DISK_SIZE
  <2>1. end = disk_offset + count /\ end \in Uint32Range
    BY <1>2, SumBelowQuota
  <2>2. /\ disk_offset' = end
        /\ acked' = acked + count
        /\ call' = [op |-> "write", fd |-> fd, count |-> count, ret |-> count]
    BY <1>0, <1>2 DEF posix_api_write
  <2>3. count \in Int
    BY DEF IntRange
  <2> HIDE DEF end
  <2> QED
    BY <1>2, <2>1, <2>2, <2>3
<1>3. CASE fd # LOG_FD
  BY <1>3, Small DEF posix_api_write
<1>4. \/ fd = LOG_FD /\ end >= DISK_SIZE
      \/ fd = LOG_FD /\ end < DISK_SIZE
      \/ fd # LOG_FD
  BY DEF posix_api_write
<1> QED
  BY <1>1, <1>2, <1>3, <1>4

LEMMA ReadStep ==
  ASSUME Inv, NEW fd \in Fds, NEW count \in IntRange, posix_api_read(fd, count)
  PROVE  Inv'
<1> DEFINE r == IF ToUint32(count) < disk_offset THEN count
                                                  ELSE ToInt(disk_offset)
<1>1. r \in IntRange /\ 0 <= r /\ r <= disk_offset /\ (count >= 0 => r <= count)
  BY ReadResult DEF Inv, TypeOK, OffsetWithinDisk
<1>2. /\ UNCHANGED <<disk_offset, acked>>
      /\ call' = [op |-> "read", fd |-> fd, count |-> count,
                  ret |-> IF fd = LOG_FD /\ disk_offset > 0 THEN r ELSE 0]
  BY DEF posix_api_read, Return
<1>3. 0 <= disk_offset
  BY DEF Inv, TypeOK, Uint32Range
<1> HIDE DEF r
<1> QED
  BY <1>1, <1>2, <1>3, Small
    DEF Inv, TypeOK, OffsetWithinDisk, AckedIsStored, ReadWithinLog

LEMMA InvInductive == Inv /\ [Next]_vars => Inv'
<1> SUFFICES ASSUME Inv, [Next]_vars
             PROVE  Inv'
  OBVIOUS
<1>1. CASE hk_posix_write
  <2>1. PICK fd \in Fds, count \in 0..SizeMax :
          posix_api_write(fd, Truncate(count))
    BY <1>1 DEF hk_posix_write
  <2>2. Truncate(count) \in IntRange
    BY TruncateType, IntMaxAssumption, VfsAssumption DEF WordSize
  <2> QED
    BY <2>1, <2>2, WriteStep
<1>2. CASE open_file
  BY <1>2, Small DEF open_file, posix_api_open, Return, Inv, TypeOK,
    OffsetWithinDisk, AckedIsStored, ReadWithinLog
<1>3. CASE read_file
  BY <1>3, ReadStep DEF read_file
<1>4. CASE print_posix
  <2>1. PICK len \in 0..PrintMax : posix_api_write(1, Truncate(len))
    BY <1>4 DEF print_posix
  <2>2. Truncate(len) \in IntRange
    BY TruncateType, IntMaxAssumption, VfsAssumption DEF WordSize
  <2> QED
    BY <2>1, <2>2, WriteStep
<1>5. CASE close_file
  BY <1>5, Small DEF close_file, posix_api_close, Return, Inv, TypeOK,
    OffsetWithinDisk, AckedIsStored, ReadWithinLog
<1>6. CASE UNCHANGED vars
  BY <1>6 DEF vars, Inv, TypeOK, OffsetWithinDisk, AckedIsStored, ReadWithinLog
<1> QED
  BY <1>1, <1>2, <1>3, <1>4, <1>5, <1>6 DEF Next

LEMMA InitInv == Init => Inv
BY Small, VfsAssumption, IntMaxAssumption DEF Init, Inv, TypeOK,
  OffsetWithinDisk, AckedIsStored, ReadWithinLog

\* Results stay C ints and the offset a uint32_t, whatever the caller passes.
THEOREM TypeCorrect == Spec => []TypeOK
<1>1. Inv => TypeOK
  BY DEF Inv
<1> QED
  BY <1>1, InitInv, InvInductive, PTL DEF Spec

\* For every quota and every size_t, the log never reaches the end of the disk.
THEOREM OffsetCorrect == Spec => []OffsetWithinDisk
<1>1. Inv => OffsetWithinDisk
  BY DEF Inv
<1> QED
  BY <1>1, InitInv, InvInductive, PTL DEF Spec

\* The 32-bit offset is the exact sum of what was accepted.
THEOREM AccountingCorrect == Spec => []AckedIsStored
<1>1. Inv => AckedIsStored
  BY DEF Inv
<1> QED
  BY <1>1, InitInv, InvInductive, PTL DEF Spec

\* A read never returns an error or more than there is.
THEOREM ReadCorrect == Spec => []ReadWithinLog
<1>1. Inv => ReadWithinLog
  BY DEF Inv
<1> QED
  BY <1>1, InitInv, InvInductive, PTL DEF Spec
==============================================================================

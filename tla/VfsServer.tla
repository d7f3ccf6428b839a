------------------------------ MODULE VfsServer ------------------------------
(***************************************************************************)
(* The VirtualFileSystem component and the Worker's POSIX layer in front   *)
(* of it.  The RPCs carry only sizes; the payload is assumed to be in the  *)
(* shared fs_buffer already.  The server has one client thread, so every   *)
(* RPC is one step.                                                        *)
(***************************************************************************)
EXTENDS CInt

CONSTANTS DISK_SIZE,   \* quota of the log (1 MB)
          SizeMax,     \* largest size_t a caller of hk_posix_write passes
          PrintMax,    \* longest string print_posix formats (255)
          Fds,         \* descriptors a caller uses
          Paths,       \* path names a caller uses
          LogPath      \* "/var/log/worker.log"

LOG_FD == 5
SOCKET_FD_BASE == 100

ASSUME VfsAssumption == /\ DISK_SIZE \in 1..IntMax
                        /\ SizeMax \in 0..(2 * WordSize - 1)
                        /\ PrintMax \in 0..IntMax
                        /\ Fds \subseteq Int
                        /\ LogPath \in Paths

VARIABLES disk_offset,   \* bytes of the log in use
          call,          \* the last RPC: operation, arguments and result
          acked          \* history: sum of the counts of all accepted log writes

vars == <<disk_offset, call, acked>>

Init == /\ disk_offset = 0
        /\ call = [op |-> "none", fd |-> 0, count |-> 0, ret |-> 0]
        /\ acked = 0

Return(op, fd, count, ret) ==
  call' = [op |-> op, fd |-> fd, count |-> count, ret |-> ret]

posix_api_open(path) ==
  /\ Return("open", 0, 0, IF path = LogPath THEN LOG_FD ELSE -1)
  /\ UNCHANGED <<disk_offset, acked>>

\* Mutant: the comparison is signed.
ReadSigned(fd, count) ==
  /\ Return("read", fd, count,
            IF fd = LOG_FD /\ disk_offset > 0
            THEN IF count < disk_offset THEN count ELSE disk_offset
            ELSE 0)
  /\ UNCHANGED <<disk_offset, acked>>

posix_api_read(fd, count) ==
  /\ Return("read", fd, count,
            IF fd = LOG_FD /\ disk_offset > 0
            THEN IF ToUint32(count) < disk_offset THEN count
                                                  ELSE ToInt(disk_offset)
            ELSE 0)
  /\ UNCHANGED <<disk_offset, acked>>

\* Mutant: the quota is checked before the write is added.
WriteChecksOffset(fd, count) ==
  LET end == AddUint32(disk_offset, ToUint32(count)) IN
  IF fd = LOG_FD /\ disk_offset < DISK_SIZE
  THEN /\ disk_offset' = end
       /\ acked' = acked + count
       /\ Return("write", fd, count, count)
  ELSE /\ Return("write", fd, count, -1)
       /\ UNCHANGED <<disk_offset, acked>>

\* Mutant: a write over the quota is cut to what fits, but acknowledged whole.
WriteTruncates(fd, count) ==
  LET end == AddUint32(disk_offset, ToUint32(count)) IN
  IF fd = LOG_FD
  THEN /\ disk_offset' = IF end < DISK_SIZE THEN end ELSE DISK_SIZE - 1
       /\ acked' = acked + count
       /\ Return("write", fd, count, count)
  ELSE /\ Return("write", fd, count, -1)
       /\ UNCHANGED <<disk_offset, acked>>

posix_api_write(fd, count) ==
  LET end == AddUint32(disk_offset, ToUint32(count)) IN
  \/ /\ fd = LOG_FD
     /\ end >= DISK_SIZE
     /\ Return("write", fd, count, -1)
     /\ UNCHANGED <<disk_offset, acked>>
  \/ /\ fd = LOG_FD
     /\ end < DISK_SIZE
     /\ disk_offset' = end
     /\ acked' = acked + count
     /\ Return("write", fd, count, count)
  \/ /\ fd # LOG_FD
     /\ Return("write", fd, count,
               IF fd \in {1, 2} \/ fd >= SOCKET_FD_BASE THEN count ELSE -1)
     /\ UNCHANGED <<disk_offset, acked>>

posix_api_close(fd) ==
  /\ Return("close", fd, 0, 0)
  /\ UNCHANGED <<disk_offset, acked>>
------------------------------------------------------------------------------
(* The Worker's side.                                                      *)

\* (int)count keeps the low bits of a size_t.
Truncate(count) == ToInt(IF count >= WordSize THEN count - WordSize ELSE count)

hk_posix_write == \E fd \in Fds, count \in 0..SizeMax :
                     posix_api_write(fd, Truncate(count))
open_file      == \E path \in Paths : posix_api_open(path)
read_file      == \E fd \in Fds, max_len \in IntRange :
                     posix_api_read(fd, max_len)
print_posix    == \E len \in 0..PrintMax : posix_api_write(1, Truncate(len))
close_file     == \E fd \in Fds : posix_api_close(fd)

Next == hk_posix_write \/ open_file \/ read_file \/ print_posix \/ close_file

Spec == Init /\ [][Next]_vars
------------------------------------------------------------------------------
\* Every result is a C int and the offset a uint32_t.
TypeOK ==
  /\ disk_offset \in Uint32Range
  /\ call \in [op    : {"none", "open", "read", "write", "close"},
               fd    : Fds \cup {0, 1},
               count : IntRange,
               ret   : IntRange \cup {LOG_FD}]
  /\ acked \in Int

\* However large or negative a count is, the 32-bit sum that posix_api_write
\* compares with the quota never lets the offset reach the end of the disk.
OffsetWithinDisk == disk_offset < DISK_SIZE

\* A read of the log returns neither an error nor more than is in the log, nor
\* more than was asked for, whatever the sign of the count.
ReadWithinLog ==
  call.op = "read" => /\ 0 <= call.ret
                      /\ call.ret <= disk_offset
                      /\ call.count >= 0 => call.ret <= call.count

\* The log's length is the exact sum of the counts of the accepted writes: the
\* 32-bit sum never wraps past a write that is accepted.
AckedIsStored == disk_offset = acked
==============================================================================

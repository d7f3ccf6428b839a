----------------------------- MODULE MCVfsServer -----------------------------
(* VfsServer with a 5-bit int and a disk of 9 bytes.                        *)
EXTENDS VfsServer

CONSTANT OtherPath

MCFds   == {-1, 1, 2, 3, 5, 100}
MCPaths == {LogPath, OtherPath}
==============================================================================

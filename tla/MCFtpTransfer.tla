--------------------------- MODULE MCFtpTransfer ---------------------------
(***************************************************************************)
(* FtpTransfer for TLC, with the packet of ftp.h. The sizes are an empty    *)
(* file, one byte, the ends of the byte that holds the length and the ends  *)
(* of the first two packets, up to three packets.                          *)
(***************************************************************************)
EXTENDS FtpTransfer

MCSizes == {0, 1, 255, 256, 257, 507, 508, 509, 763, 1016, 1017, 1271}
=============================================================================

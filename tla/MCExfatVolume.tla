--------------------------- MODULE MCExfatVolume ----------------------------
(* Eleven clusters: three of the system, the old file in two, out of       *)
(* order, four the driver can take (7 to 10) and the last two, which it    *)
(* never tries.  The groups that calls write begin at entry 6, whose name  *)
(* entry is the first of a sector, and then at 9, or at 7 or 8 after a     *)
(* torn write.  Up to three of them fit the directory; with the old one    *)
(* three are looked at.  A short name over a stale longer one makes a      *)
(* third name.                                                             *)
EXTENDS ExfatVolume

MCOld == <<6, 5>>
MCOldName == <<1, 1>>
MCNames == {MCOldName, <<2>>, <<2, 1>>}

=============================================================================

------------------------- MODULE MCManagarmInstall -------------------------
(* A small instance of ManagarmInstall: a BIOS boot partition, the ESP and the root;
   other disks have one partition, or ours and one more.                          *)
EXTENDS ManagarmInstall

CONSTANTS biosT, espT, rootT, dataT, id1, id2

MCType == {biosT, espT, rootT, dataT}
MCPartTypes == <<biosT, espT, rootT>>
MCForeign == {<<dataT>>, <<biosT, espT, rootT, dataT>>}
MCId == {id1, id2}
=============================================================================

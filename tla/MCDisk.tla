-------------------------------- MODULE MCDisk --------------------------------
(* Small disks for TLC.  Volume "long" has a name of more than 54 characters, which  *)
(* current_disk_file holds cut down to "lon".                                        *)
EXTENDS Disk

MCFileOf(v) == v
MCCurrentOf(v) == IF v = "long" THEN "lon" ELSE v

MCFiles == {"drive", "a", "long", "lon"}
MCData == {<<1>>, <<2, 1>>}
MCOneDatum == {<<1>>}
MCIndexes == 0 .. 1
===============================================================================

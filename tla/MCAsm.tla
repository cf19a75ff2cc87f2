--------------------------------- MODULE MCAsm ---------------------------------
(* One thread calls every routine while another fills its blocks.             *)
EXTENDS Asm

CONSTANTS worker, filler

MCThreads == {worker, filler}
MCDuty(t) ==
  IF t = filler THEN {"memset"}
  ELSE {"memset", "memcpy", "strcpy", "strlen", "strcmp", "memcmp"}
================================================================================

---------------------------- MODULE MCArchivePatch ----------------------------
(* Two shipped directories, one with two PAZ files, with and without an overlay
   mounted before them. *)
EXTENDS ArchivePatch

CONSTANTS Mounted   \* whether there is an overlay

Shipped == <<"0000", "0009">>
MCGroupOf == [p \in Pazes |-> IF p = "0000/0.paz" THEN "0000" ELSE "0009"]

\* A new overlay takes the next free number, and the first record.
MCSortedDirs == IF Mounted THEN Shipped \o <<"0036">> ELSE Shipped
MCMountOrder == IF Mounted THEN <<"0036">> \o Shipped ELSE Shipped

MCRequests == {[pazes |-> {"0000/0.paz"}, meta |-> FALSE],
               [pazes |-> {"0009/0.paz", "0009/1.paz"}, meta |-> TRUE],
               [pazes |-> {"0000/0.paz", "0009/1.paz"}, meta |-> FALSE]}

MCFileOrder == <<"0000", "0000/0.paz", "0009", "0009/0.paz", "0009/1.paz", "papgt", "pathc">>
===============================================================================

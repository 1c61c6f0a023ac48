----------------------------- MODULE MCInstallLane -----------------------------
(* A window with a worker thread and an executor thread beside a session host
   or a second window, for TLC. *)
EXTENDS InstallLane

CONSTANTS window, other, worker, executor, single, r1, r2

MCProcOf == [t \in Threads |-> IF t = single THEN other ELSE window]
===============================================================================

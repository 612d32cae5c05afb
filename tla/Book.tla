-------------------------------- MODULE Book --------------------------------
(***************************************************************************)
(* The processes that share the ledger of tools/sparkpipe_pay.py.  Each has*)
(* a Book of its own: the replay of the lines it has read so far.          *)
(* Book.append takes the file lock, reads the rest of the file, and only   *)
(* then writes its line; Book.lock is held by one thread of the process    *)
(* from a check to the lines that follow from it, but it does not hold off *)
(* another process, and a process may stop between two lines.              *)
(***************************************************************************)
Server == "server"      \* sparkpipe_pay.py serve
Command == "command"    \* one run of an admin command
Writers == {Server, Command}
=============================================================================

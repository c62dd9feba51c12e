----------------------------- MODULE MCHmctlPool -----------------------------
(***************************************************************************)
(* hmctl and a small program.  The highest node the kernel could have is 3 *)
(* and the masks it reads hold the nodes 0 and 1.                          *)
(***************************************************************************)
EXTENDS HmctlPool

LowNodes    == {0, 1}
LowPreferred == {-1, 0, 1}

OneBlock == {[op |-> "hmalloc", count |-> 1, size |-> 1, align |-> 0]}
=============================================================================

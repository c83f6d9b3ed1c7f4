------------------------------ MODULE MCMemory ------------------------------
(***************************************************************************)
(* Both memories over an address space of sixteen bytes in four pages,     *)
(* under requests at the bottom, inside a page, across a page boundary and *)
(* across the top.                                                         *)
(***************************************************************************)
EXTENDS MemoryPair, MCWords

Slices == { <<>>, <<1>>, <<1, 1, 1>>, <<1, 0, 1, 1>>, <<0, 1, 1, 0, 1>> }

MCRequests ==
  [op : {"touch"}, addr : {5, 15}]
    \cup [op : {"place"}, addr : {0, 3, 4, 14}, data : Slices]
    \cup [op : {"read"}, addr : {0, 1, 2, 4, 12}, width : {1, 2, 4}]
    \cup [op : {"write"}, addr : {0, 3, 4, 6}, width : {1, 2, 4}, value : {6, 13}]
=============================================================================

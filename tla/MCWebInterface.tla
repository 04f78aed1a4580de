---------------------------- MODULE MCWebInterface ----------------------------
(***************************************************************************)
(* The instance of WebInterface for TLC: three tabs, of which two have     *)
(* parameters of their own.                                                *)
(***************************************************************************)
EXTENDS WebInterface

MCTab == <<"t1", "t2", "t3">>
MCOwnParams == [t1 |-> [x |-> 1], t2 |-> <<>>, t3 |-> [x |-> 3, y |-> 3]]

===============================================================================

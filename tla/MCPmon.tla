------------------------------- MODULE MCPmon -------------------------------
(***************************************************************************)
(* A small instance of Pmon: two GPUs, two PIDs, one row to begin with.    *)
(***************************************************************************)
EXTENDS Pmon, TLC

CONSTANTS g1, g2, p1, p2

MCConfig ==
    g1 :> [total |-> 4, reserved |-> 1, used |-> 2, mem |-> p1 :> 1, util |-> p1 :> 1]
    @@ g2 :> [total |-> 4, reserved |-> 1, used |-> 1, mem |-> NoProcs, util |-> NoProcs]

MCOrder == <<g1, g2>>

\* The two forms LlamaCPP-Manager uses, and three that are delegated.
MCArguments ==
    { <<"pmon", "-c", "1", "-s", "u">>, <<"pmon", "-c", "1">>,
      <<"pmon", "-s", "u">>, <<"pmon", "-c", "1", "-c", "1">>, <<"-L">> }

RowKinds == {"add", "update", "remove", "replace"}
=============================================================================

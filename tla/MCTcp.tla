--------------------------------- MODULE MCTcp ---------------------------------
(* Small instances of the two modules of Tcp_client.c.  program says which of *)
(* them a behaviour is about; they share nothing.                             *)
EXTENDS TcpPackets, TcpTable

CONSTANTS s, r, t

VARIABLE program

OneServer == {s}
OneRemote == {r}
TwoRemotes == {r, t}
OneByte == {1}
NoneOrTwo == {-1, 2}

MCInit == /\ Init /\ TableInit
          /\ \/ program = "packets" /\ inFront = -1
             \/ program = "table" /\ link[s] = "up"
MCNext == \/ program = "packets" /\ Next /\ UNCHANGED <<program, tableVars>>
          \/ program = "table" /\ TableNext /\ UNCHANGED <<program, vars>>
MCSpec == MCInit /\ [][MCNext]_<<program, vars, tableVars>> /\ (program = "table" => TableFairness)
=============================================================================

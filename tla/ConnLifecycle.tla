---------------------------- MODULE ConnLifecycle ----------------------------
(***************************************************************************)
(* The life of one connection as the server loop sees it: the abstract     *)
(* specification that TcpConnection implements and Server relies on.       *)
(***************************************************************************)
EXTENDS ConnPhases

VARIABLE conn

Init == conn = Absent

Next ==
    /\ conn' \in Conn
    /\ Received(conn, conn') \/ Closed(conn, conn') \/ GaveUp(conn, conn')

Spec == Init /\ [][Next]_conn

=============================================================================

---------------------------- MODULE MCControlPlane ----------------------------
(* The two ends of the control plane, checked side by side: a page keeping its   *)
(* socket (SignalClient) and a server keeping seats (Signaling).  A behaviour    *)
(* runs one of them and leaves the other where it starts, with nothing to do.    *)
EXTENDS SignalClient

CONSTANTS w1, w2, w3, p1, p2, s1, s2, s3

VARIABLES
    end,                                                    \* the end that runs
    srv, sock, missed, told, sent, serving, restarts, cause \* Signaling

\* As MCSignaling!OneRoom: the first peer may reconnect on a second socket.
Seats == INSTANCE Signaling WITH
    Peers <- {p1, p2}, RoomIds <- {"r1"}, Sockets <- {s1, s2, s3},
    Claims <- {<<s1, "r1", p1>>, <<s2, "r1", p1>>, <<s3, "r1", p2>>},
    QueueMax <- 1, MaxFrames <- 0, MaxRestarts <- 1

seatVars == <<srv, sock, missed, told, sent, serving, restarts, cause>>

ControlPlaneInit == end \in {"page", "server"} /\ Init /\ Seats!Init

ControlPlaneNext ==
    \/ end = "page" /\ Next /\ UNCHANGED <<end, seatVars>>
    \/ end = "server" /\ Seats!Next /\ UNCHANGED <<end, vars>>

ControlPlaneSpec ==
    /\ ControlPlaneInit /\ [][ControlPlaneNext]_<<end, vars, seatVars>>
    /\ Fairness /\ Seats!Fairness

-------------------------------------------------------------------------------
\* Signaling's property, of the peer that may come back on another socket.
EvaporatedIsSeenToLeave == Seats!Deserted("r1", p1) ~> ~Seats!Deserted("r1", p1)

===============================================================================

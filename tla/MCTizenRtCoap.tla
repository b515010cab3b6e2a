--------------------------- MODULE MCTizenRtCoap ---------------------------
(* The send queue, a server and a client of TizenRT's CoAP, each with its own *)
(* context: they share no state, so a behaviour explores one of them.         *)
EXTENDS CoapQueue, CoapServer, CoapClient

VARIABLE focus   \* the part this behaviour is about

coapvars == <<focus, qvars, srvvars, clivars>>

CoapInit == /\ focus \in {"queue", "server", "client"}
            /\ QInit /\ SrvInit /\ CliInit

CoapNext ==
    /\ UNCHANGED focus
    /\ \/ focus = "queue"  /\ QNext   /\ UNCHANGED <<srvvars, clivars>>
       \/ focus = "server" /\ SrvNext /\ UNCHANGED <<qvars, clivars>>
       \/ focus = "client" /\ CliNext /\ UNCHANGED <<qvars, srvvars>>

CoapSpec == CoapInit /\ [][CoapNext]_coapvars /\ SrvFairness
=============================================================================

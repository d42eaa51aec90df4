---------------------------- MODULE RpcChannel ----------------------------
(***************************************************************************)
(* What ws.Client promises to the goroutines that call Send, with the wire,*)
(* the pending table and the goroutines left out: a call is begun once and *)
(* returns once; it returns a response only if the peer answered that very *)
(* call; and a call begun after the channel went down never reaches the    *)
(* peer.                                                                   *)
(***************************************************************************)
CONSTANT Calls              \* the Send calls ever made on the channel

VARIABLES status,           \* [Calls -> Status]
          down,             \* the channel no longer accepts calls
          delivered,        \* calls whose request reached the peer
          answered          \* calls the peer has answered

rpcVars == <<status, down, delivered, answered>>

Status == {"idle", "early", "late", "response", "error"}

RpcInit ==
    /\ status = [c \in Calls |-> "idle"]
    /\ down = FALSE
    /\ delivered = {}
    /\ answered = {}

\* A call begun before the channel went down is "early", otherwise "late".
Begin(c) ==
    /\ status[c] = "idle"
    /\ status' = [status EXCEPT ![c] = IF down THEN "late" ELSE "early"]
    /\ UNCHANGED <<down, delivered, answered>>

\* Only an early call can reach the peer.
Deliver(c) ==
    /\ status[c] = "early"
    /\ delivered' = delivered \cup {c}
    /\ UNCHANGED <<status, down, answered>>

Answer(c) ==
    /\ c \in delivered
    /\ answered' = answered \cup {c}
    /\ UNCHANGED <<status, down, delivered>>

\* The call returns the peer's answer to this call, or an error.
Return(c) ==
    /\ \/ /\ status[c] = "early"
          /\ c \in answered
          /\ status' = [status EXCEPT ![c] = "response"]
       \/ /\ status[c] \in {"early", "late"}
          /\ status' = [status EXCEPT ![c] = "error"]
    /\ UNCHANGED <<down, delivered, answered>>

GoDown ==
    /\ down' = TRUE
    /\ UNCHANGED <<status, delivered, answered>>

RpcNext ==
    \/ \E c \in Calls : Begin(c) \/ Deliver(c) \/ Answer(c) \/ Return(c)
    \/ GoDown

RpcSpec == RpcInit /\ [][RpcNext]_rpcVars
=============================================================================

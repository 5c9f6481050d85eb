------------------------------ MODULE Presence ------------------------------
(***************************************************************************)
(* Which connection a device is reached through, with every change of it   *)
(* in one step and nothing else of the server: the view that the object    *)
(* table, the CB_CTX of each connection and the two threads that use them  *)
(* have to agree on.                                                       *)
(***************************************************************************)

CONSTANTS Devices, Slots, NoDev, NoSlot

VARIABLES
    live,       \* the connections that exist
    bound,      \* bound[c]: the device that has logged in on c, or NoDev
    session     \* session[d]: the connection d is reached through, or NoSlot

Init ==
    /\ live = {}
    /\ bound = [c \in Slots |-> NoDev]
    /\ session = [d \in Devices |-> NoSlot]

Accept(c) ==
    /\ c \notin live
    /\ live' = live \cup {c}
    /\ UNCHANGED <<bound, session>>

(* The first login binds the connection for as long as it lives; where     *)
(* threads are told apart the binding shows before the device is reached.  *)
Bind(c, d) ==
    /\ c \in live
    /\ bound[c] = NoDev
    /\ bound' = [bound EXCEPT ![c] = d]
    /\ UNCHANGED <<live, session>>

Login(c, d) ==
    /\ c \in live
    /\ bound[c] \in {NoDev, d}
    /\ bound' = [bound EXCEPT ![c] = d]
    /\ session' = [session EXCEPT ![d] = c]
    /\ UNCHANGED live

(* A report is proof enough that the device is at this connection.         *)
ReportFrom(c) ==
    /\ c \in live
    /\ bound[c] # NoDev
    /\ session' = [session EXCEPT ![bound[c]] = c]
    /\ UNCHANGED <<live, bound>>

(* When a connection is closed its device is not reached any more, not     *)
(* even when it had moved on to another connection.                        *)
Close(c) ==
    /\ c \in live
    /\ live' = live \ {c}
    /\ bound' = [bound EXCEPT ![c] = NoDev]
    /\ session' = [d \in Devices |-> IF d = bound[c] THEN NoSlot ELSE session[d]]

Next ==
    \E c \in Slots :
        \/ Accept(c)
        \/ \E d \in Devices : Bind(c, d) \/ Login(c, d)
        \/ ReportFrom(c)
        \/ Close(c)

Spec == Init /\ [][Next]_<<live, bound, session>>


-----------------------------------------------------------------------------
(* What this promises of every server that implements it: a device is no   *)
(* more reached only when a connection bound to it is closed, whichever of *)
(* its connections that is, and otherwise its session only moves, to a     *)
(* connection that exists and is bound to it.                              *)
HandOver(d) ==
    \/ session'[d] = session[d]
    \/ session'[d] = NoSlot /\ \E c \in live \ live' : bound[c] = d
    \/ session'[d] \in live' /\ bound'[session'[d]] = d

ChangesHands == [][\A d \in Devices : HandOver(d)]_<<live, bound, session>>

=============================================================================

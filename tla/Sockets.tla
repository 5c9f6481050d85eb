------------------------------ MODULE Sockets -------------------------------
(***************************************************************************)
(* Descriptors: the connections of trackers (server_mc.c) and of the       *)
(* health check (slb.c), whose event_cb closes a descriptor that           *)
(* bufferevent_free closes once more, because of BEV_OPT_CLOSE_ON_FREE;    *)
(* and the clients of MQTT, Yunba and LeanCloud, which open descriptors in *)
(* the same process, two of them from threads of their own.                *)
(*                                                                         *)
(* socket says what the kernel has behind a number, fd what a user takes   *)
(* for its own.                                                            *)
(***************************************************************************)
EXTENDS Integers, FiniteSets

CONSTANTS
    Trackers, Probes,   \* connections to the two listeners
    Threads, Handlers,  \* clients with a thread of their own, and without
    Yunba,              \* the one whose thread calls connectionLost
    Descriptors,        \* the numbers the process may use (RLIMIT_NOFILE)
    NONE,
    NOBODY,             \* owner of a socket that was accepted in vain
    MaxFailures,        \* bound: accepted sockets that get no bufferevent
    Deferred            \* does libevent destruct a bufferevent after the
                        \* callback that freed it (2.1), or when it returns?

Conns   == Trackers \cup Probes
Clients == Threads \cup Handlers
Users   == Conns \cup Clients

ASSUME Kinds ==
    /\ Trackers \cap Probes = {} /\ Threads \cap Handlers = {}
    /\ Conns \cap Clients = {} /\ Yunba \in Threads
    /\ NONE \notin Users \cup Descriptors
    /\ NOBODY \notin Users \cup {NONE}
ASSUME Numbers ==
    /\ Descriptors \subseteq Nat /\ IsFiniteSet(Descriptors)
    /\ MaxFailures \in Nat /\ Deferred \in BOOLEAN

VARIABLES
    socket,     \* socket[f]: whose socket the kernel has at number f
    fd,         \* fd[u]: the number u uses
    freeing,    \* connections between the two closes
    failed,     \* how many accepted sockets got no bufferevent
    gaveUp,     \* clients that do not try to connect again
    running,    \* does the event loop run?
    reused      \* has a number been given out between two closes of it?

vars == <<socket, fd, freeing, failed, gaveUp, running, reused>>

Init ==
    /\ socket = [f \in Descriptors |-> NONE]
    /\ fd = [u \in Users |-> NONE]
    /\ freeing = {} /\ gaveUp = {}
    /\ failed = 0
    /\ running = TRUE
    /\ reused = FALSE

Unused == {f \in Descriptors : socket[f] = NONE}

(* The kernel gives out the lowest number that is not in use.              *)
GiveOut(f, u) ==
    /\ \A g \in Unused : f <= g
    /\ socket' = [socket EXCEPT ![f] = u]
    /\ reused' = (reused \/ \E c \in freeing : fd[c] = f)

Open(u) == \E f \in Unused : GiveOut(f, u) /\ fd' = [fd EXCEPT ![u] = f]

(* close(f) closes whatever is there.                                      *)
NotClosed(f) == UNCHANGED socket                                 \* mutant
Closed(f) == socket' = [socket EXCEPT ![f] = NONE]

(* In 2.0 nothing else runs on the event loop before the second close.     *)
LoopIsFree == running /\ (Deferred \/ freeing = {})

(***************************************************************************)
(* Connections.                                                            *)
(***************************************************************************)
Accepted(c) ==
    /\ LoopIsFree
    /\ fd[c] = NONE
    /\ Open(c)
    /\ UNCHANGED <<freeing, failed, gaveUp, running>>

(* bufferevent_socket_new returns NULL: the callback returns, the socket   *)
(* stays open and its number is written down nowhere.                      *)
AcceptedInVain ==
    /\ LoopIsFree
    /\ failed < MaxFailures
    /\ \E f \in Unused : GiveOut(f, NOBODY)
    /\ failed' = failed + 1
    /\ UNCHANGED <<fd, freeing, gaveUp, running>>

accept_conn_cb(c) == c \in Trackers /\ (Accepted(c) \/ AcceptedInVain)
slb_accept_conn_cb(c) == c \in Probes /\ (Accepted(c) \/ AcceptedInVain)

(* accept fails for want of a number: event_base_loopexit.                 *)
accept_error_cb ==
    /\ LoopIsFree
    /\ Unused = {}
    /\ running' = FALSE
    /\ UNCHANGED <<socket, fd, freeing, failed, gaveUp, reused>>

(* event_cb closes the descriptor: the peer has closed or reset the        *)
(* connection, or nothing came for 600 s (a probe: 300 s), and that can be *)
(* a tracker that only has nothing to say ...                              *)
Close(c) ==
    /\ LoopIsFree
    /\ fd[c] # NONE /\ c \notin freeing
    /\ Closed(fd[c])
    /\ freeing' = freeing \cup {c}
    /\ UNCHANGED <<fd, failed, gaveUp, running, reused>>

event_cb(c) == c \in Trackers /\ Close(c)
slb_event_cb(c) == c \in Probes /\ Close(c)

(* ... and the bufferevent, when it is destructed, does it again.          *)
Kept(c) == fd                                                    \* mutant
MinusOne(c) == [fd EXCEPT ![c] = -1]                             \* mutant
Forgotten(c) == [fd EXCEPT ![c] = NONE]

Destruct(c) ==
    /\ c \in freeing
    /\ Closed(fd[c])
    /\ fd' = Forgotten(c)
    /\ freeing' = freeing \ {c}
    /\ UNCHANGED <<failed, gaveUp, running, reused>>

(***************************************************************************)
(* Clients: libmosquitto connects again until it succeeds, libcurl when    *)
(* the next request is made.                                               *)
(***************************************************************************)
MayRun(t) == t \in Threads \/ LoopIsFree

Connect(t) ==
    /\ MayRun(t)
    /\ fd[t] = NONE /\ t \notin gaveUp
    /\ Open(t)
    /\ UNCHANGED <<freeing, failed, gaveUp, running>>

(* It loses its connection, or finds its descriptor useless, and closes it.*)
Disconnect(t) ==
    /\ MayRun(t)
    /\ fd[t] # NONE
    /\ Closed(fd[t])
    /\ fd' = [fd EXCEPT ![t] = NONE]
    /\ UNCHANGED <<freeing, failed, gaveUp, running, reused>>

(* MQTTClient_connect in connectionLost has failed: there is no other try. *)
connectionLost(t) ==
    /\ t = Yunba /\ fd[t] = NONE
    /\ gaveUp' = gaveUp \cup {t}
    /\ UNCHANGED <<socket, fd, freeing, failed, running, reused>>

Next ==
    \/ \E c \in Conns :
           \/ accept_conn_cb(c) \/ slb_accept_conn_cb(c)
           \/ event_cb(c) \/ slb_event_cb(c) \/ Destruct(c)
    \/ \E t \in Clients : Connect(t) \/ Disconnect(t) \/ connectionLost(t)
    \/ accept_error_cb

Spec == Init /\ [][Next]_vars

-----------------------------------------------------------------------------
(***************************************************************************)
(* Properties.                                                             *)
(***************************************************************************)

TypeOK ==
    /\ socket \in [Descriptors -> Users \cup {NONE, NOBODY}]
    /\ fd \in [Users -> Descriptors \cup {NONE}]
    /\ freeing \subseteq {c \in Conns : fd[c] # NONE}
    /\ failed \in 0 .. MaxFailures
    /\ gaveUp \subseteq Clients
    /\ running \in BOOLEAN
    /\ reused \in BOOLEAN

(* Everybody has the socket it thinks it has, although descriptors are     *)
(* closed twice, unless one was given out between the two closes.          *)
OwnDescriptors ==
    ~reused => \A u \in Users \ freeing : fd[u] # NONE => socket[fd[u]] = u

(* A socket that was accepted in vain costs a number for good, and nothing *)
(* else does: whoever has a socket knows its number and will close it,     *)
(* even when others have been given, or have closed, each other's.         *)
OnlyVainAcceptsLeak ==
    /\ \A f \in Descriptors : socket[f] \in Users => fd[socket[f]] = f
    /\ Cardinality({f \in Descriptors : socket[f] = NOBODY}) <= failed

=============================================================================

------------------------------- MODULE Relay --------------------------------
(***************************************************************************)
(* The command path with its two threads.  The event loop (thread L)       *)
(* changes the presence of a device in mc_login, mc_gps and event_cb, one  *)
(* assignment after the other; app_handleApp2devMsg runs on the thread of  *)
(* the MQTT client (thread M, started by mosquitto_loop_start) and reads   *)
(* the same fields, one after the other, to find the connection a command  *)
(* has to be written to.  There is no lock between them.                   *)
(*                                                                         *)
(* When the loop has ended main takes down what thread M still uses: the   *)
(* event base, then the objects, and only then thread M itself.            *)
(*                                                                         *)
(* A step of this module is one access to a shared field; bufferevent_write*)
(* on thread M takes two, for its beginning and its end.                   *)
(***************************************************************************)
EXTENDS Naturals

CONSTANTS
    Devices, Slots, NoDev, NoSlot

ASSUME NullsAreFresh == NoDev \notin Devices /\ NoSlot \notin Slots

VARIABLES
    ctx,        \* ctx[c]: the CB_CTX at c: allocated?, its obj, is pSendMsg set?
    bev,        \* the bufferevents that exist; that of c is ctx[c]->bev
    owner,      \* owner[c]: the device at the other end of c
    obj,        \* obj[d]: isOnline and session of the OBJ_MC of d
    lpc,        \* thread L: what it does next, for which connection and object
    mpc,        \* thread M: what it does next, for which device and CB_CTX
    raced,      \* has the CB_CTX thread M holds been freed under it?
    overlapped, \* has thread L used the event base during the write of M?
    inbox,      \* inbox[c]: commands written to c: [for, raced]
    stage,      \* what main has taken down so far
    crashed     \* freed memory was used, with the worst outcome

vars == <<ctx, bev, owner, obj, lpc, mpc, raced, overlapped, inbox, stage, crashed>>

Stages == {"serving", "noBase", "noObjects", "noThread"}

LIdle == [at |-> "loop", c |-> NoSlot, d |-> NoDev]
MIdle == [at |-> "loop", c |-> NoSlot, d |-> NoDev]

LPoints == {"loop", "online", "session", "offline", "nosession", "freectx", "freebev"}
MPoints == {"loop", "isOnline", "session", "pSendMsg", "write", "writing"}

Init ==
    /\ ctx = [c \in Slots |-> [live |-> FALSE, obj |-> NoDev, send |-> FALSE]]
    /\ bev = {}
    /\ owner = [c \in Slots |-> NoDev]
    /\ obj = [d \in Devices |-> [isOnline |-> FALSE, session |-> NoSlot]]
    /\ lpc = LIdle
    /\ mpc = MIdle
    /\ raced = FALSE /\ overlapped = FALSE
    /\ inbox = [c \in Slots |-> {}]
    /\ stage = "serving"
    /\ crashed = FALSE

(***************************************************************************)
(* Thread L.                                                               *)
(***************************************************************************)
LAt(p) == lpc.at = p /\ stage = "serving" /\ ~crashed
LGoto(p) == lpc' = [lpc EXCEPT !.at = p]

(* The event base and the bufferevents belong to thread L: they are made   *)
(* without BEV_OPT_THREADSAFE and without locks.                           *)
Unguarded == overlapped' = (overlapped \/ mpc.at = "writing")

(* Nobody else knows the new CB_CTX yet: one step.                         *)
accept_conn_cb(c, d) ==
    /\ LAt("loop")
    /\ ~ctx[c].live /\ c \notin bev
    /\ ctx' = [ctx EXCEPT ![c] = [live |-> TRUE, obj |-> NoDev, send |-> TRUE]]
    /\ bev' = bev \cup {c}
    /\ owner' = [owner EXCEPT ![c] = d]
    /\ inbox' = [inbox EXCEPT ![c] = {}]
    /\ Unguarded
    /\ UNCHANGED <<obj, lpc, mpc, raced, stage, crashed>>

(* mc_login up to ctx->obj = obj.                                          *)
LoginBind(c) ==
    /\ LAt("loop")
    /\ ctx[c].live
    /\ LET d == IF ctx[c].obj = NoDev THEN owner[c] ELSE ctx[c].obj IN
       /\ ctx' = [ctx EXCEPT ![c].obj = d]
       /\ lpc' = [at |-> "online", c |-> c, d |-> d]
    /\ Unguarded
    /\ UNCHANGED <<bev, owner, obj, mpc, raced, inbox, stage, crashed>>

(* mc_gps up to the same place: "MC must first login".                     *)
AnybodyMay(c) == TRUE                                           \* mutant
HasLoggedIn(c) == ctx[c].obj # NoDev

GpsFind(c) ==
    /\ LAt("loop")
    /\ ctx[c].live /\ HasLoggedIn(c)
    /\ lpc' = [at |-> "online", c |-> c, d |-> ctx[c].obj]
    /\ Unguarded
    /\ UNCHANGED <<ctx, bev, owner, obj, mpc, raced, inbox, stage, crashed>>

SetOnline ==
    /\ LAt("online")
    /\ obj' = [obj EXCEPT ![lpc.d].isOnline = TRUE]
    /\ LGoto("session")
    /\ UNCHANGED <<ctx, bev, owner, mpc, raced, overlapped, inbox, stage, crashed>>

SetSession ==
    /\ LAt("session")
    /\ obj' = [obj EXCEPT ![lpc.d].session = lpc.c]
    /\ lpc' = LIdle
    /\ Unguarded
    /\ UNCHANGED <<ctx, bev, owner, mpc, raced, inbox, stage, crashed>>

(* event_cb: ctx->pSendMsg = NULL, then the object if there is one.        *)
FreeAtOnce(d) == "freectx"                                      \* mutant
AfterNoSend(d) == IF d = NoDev THEN "freectx" ELSE "offline"
SessionKept == "freectx"                                        \* mutant
AfterOffline == "nosession"

CloseBegin(c) ==
    /\ LAt("loop")
    /\ ctx[c].live
    /\ ctx' = [ctx EXCEPT ![c].send = FALSE]
    /\ lpc' = [at |-> AfterNoSend(ctx[c].obj), c |-> c, d |-> ctx[c].obj]
    /\ Unguarded
    /\ UNCHANGED <<bev, owner, obj, mpc, raced, inbox, stage, crashed>>

SetOffline ==
    /\ LAt("offline")
    /\ obj' = [obj EXCEPT ![lpc.d].isOnline = FALSE]
    /\ LGoto(AfterOffline)
    /\ UNCHANGED <<ctx, bev, owner, mpc, raced, overlapped, inbox, stage, crashed>>

ClearSession ==
    /\ LAt("nosession")
    /\ obj' = [obj EXCEPT ![lpc.d].session = NoSlot]
    /\ LGoto("freectx")
    /\ UNCHANGED <<ctx, bev, owner, mpc, raced, overlapped, inbox, stage, crashed>>

FreeCtx ==
    /\ LAt("freectx")
    /\ ctx' = [ctx EXCEPT ![lpc.c] = [live |-> FALSE, obj |-> NoDev, send |-> FALSE]]
    /\ raced' = (raced \/ (mpc.c = lpc.c))
    /\ LGoto("freebev")
    /\ UNCHANGED <<bev, owner, obj, mpc, overlapped, inbox, stage, crashed>>

FreeBev ==
    /\ LAt("freebev")
    /\ bev' = bev \ {lpc.c}
    /\ owner' = [owner EXCEPT ![lpc.c] = NoDev]
    /\ inbox' = [inbox EXCEPT ![lpc.c] = {}]
    /\ lpc' = LIdle
    /\ Unguarded
    /\ UNCHANGED <<ctx, obj, mpc, raced, stage, crashed>>

(***************************************************************************)
(* The stop, on the thread of the event loop, which has left               *)
(* event_base_dispatch between two callbacks.                              *)
(***************************************************************************)

(* The connections keep their CB_CTX and their bufferevent, which points   *)
(* to the event base that is freed.                                        *)
event_base_free ==
    /\ LAt("loop")
    /\ stage' = "noBase"
    /\ Unguarded
    /\ UNCHANGED <<ctx, bev, owner, obj, lpc, mpc, raced, inbox, crashed>>

mc_obj_destruct ==
    /\ stage = "noBase" /\ ~crashed
    /\ stage' = "noObjects"
    /\ UNCHANGED <<ctx, bev, owner, obj, lpc, mpc, raced, overlapped, inbox, crashed>>

(* mosquitto_destroy cancels thread M, wherever it is, and waits for it.   *)
env_cleanup ==
    /\ stage = "noObjects" /\ ~crashed
    /\ stage' = "noThread"
    /\ mpc' = MIdle /\ raced' = FALSE /\ overlapped' = FALSE
    /\ UNCHANGED <<ctx, bev, owner, obj, lpc, inbox, crashed>>

(***************************************************************************)
(* Thread M.  What it reads in a freed object is what the object was left  *)
(* with, or anything; a session that is no CB_CTX at all is a crash.       *)
(***************************************************************************)
MAt(p) == mpc.at = p /\ stage # "noThread" /\ ~crashed
MGoto(p) == mpc' = [mpc EXCEPT !.at = p]
MDone == mpc' = MIdle /\ raced' = FALSE /\ overlapped' = FALSE

Crash == crashed' = TRUE /\ UNCHANGED <<mpc, raced, overlapped>>

ObjectsFreed == stage = "noObjects"

(* mc_get has found the object; app_sendRawData2TK115 looks at it.         *)
CommandArrives(d) ==
    /\ MAt("loop")
    /\ \/ /\ mpc' = [at |-> "isOnline", c |-> NoSlot, d |-> d]
          /\ UNCHANGED <<raced, overlapped, crashed>>
       \/ ObjectsFreed /\ Crash
    /\ UNCHANGED <<ctx, bev, owner, obj, lpc, inbox, stage>>

ReadOnline ==
    /\ MAt("isOnline")
    /\ \/ /\ obj[mpc.d].isOnline \/ ObjectsFreed
          /\ MGoto("session")
          /\ UNCHANGED <<raced, overlapped>>
       \/ /\ ~obj[mpc.d].isOnline \/ ObjectsFreed
          /\ MDone
    /\ UNCHANGED <<ctx, bev, owner, obj, lpc, inbox, stage, crashed>>

(* obj->session becomes the ctx argument of mc_msg_send, which gives up    *)
(* when it is NULL.                                                        *)
ReadSession ==
    /\ MAt("session")
    /\ \/ /\ obj[mpc.d].session # NoSlot
          /\ mpc' = [mpc EXCEPT !.at = "pSendMsg", !.c = obj[mpc.d].session]
          /\ UNCHANGED <<raced, overlapped, crashed>>
       \/ /\ obj[mpc.d].session = NoSlot
          /\ MDone
          /\ UNCHANGED crashed
       \/ ObjectsFreed /\ Crash
    /\ UNCHANGED <<ctx, bev, owner, obj, lpc, inbox, stage>>

(* ctx->pSendMsg of a freed CB_CTX is the NULL it was left with, or what   *)
(* the allocator has put there since.                                      *)
ReadSend ==
    /\ MAt("pSendMsg")
    /\ \/ /\ ctx[mpc.c].send
          /\ MGoto("write")
          /\ UNCHANGED <<raced, overlapped, crashed>>
       \/ /\ ~ctx[mpc.c].send
          /\ MDone
          /\ UNCHANGED crashed
       \/ /\ ~ctx[mpc.c].live
          /\ Crash
    /\ UNCHANGED <<ctx, bev, owner, obj, lpc, inbox, stage>>

(* pfn(ctx->bev, msg, len): ctx->bev is read ...                           *)
WriteBegin ==
    /\ MAt("write")
    /\ \/ /\ MGoto("writing")
          /\ UNCHANGED <<raced, overlapped, crashed>>
       \/ ~ctx[mpc.c].live /\ Crash
    /\ UNCHANGED <<ctx, bev, owner, obj, lpc, inbox, stage>>

(* ... and bufferevent_write appends to its buffer and asks the event base *)
(* to watch the socket.  When the event loop has used the base meanwhile,  *)
(* or the base or the bufferevent is gone, the command may be lost or the  *)
(* process crash, now or whenever something that was damaged is used.      *)
Damages ==
    ~ctx[mpc.c].live \/ mpc.c \notin bev \/ stage # "serving" \/ overlapped

WriteEnd ==
    /\ MAt("writing")
    /\ \/ /\ mpc.c \in bev
          /\ inbox' = [inbox EXCEPT ![mpc.c] = @ \cup {[for |-> mpc.d, raced |-> raced]}]
          /\ MDone
          /\ UNCHANGED crashed
       \/ /\ Damages
          /\ MDone
          /\ UNCHANGED <<inbox, crashed>>
       \/ /\ Damages
          /\ Crash
          /\ UNCHANGED inbox
    /\ UNCHANGED <<ctx, bev, owner, obj, lpc, stage>>

ThreadL ==
    \/ \E c \in Slots, d \in Devices : accept_conn_cb(c, d)
    \/ \E c \in Slots : LoginBind(c)
    \/ \E c \in Slots : GpsFind(c)
    \/ SetOnline
    \/ SetSession
    \/ \E c \in Slots : CloseBegin(c)
    \/ SetOffline
    \/ ClearSession
    \/ FreeCtx
    \/ FreeBev
    \/ event_base_free
    \/ mc_obj_destruct
    \/ env_cleanup

ThreadM ==
    \/ \E d \in Devices : CommandArrives(d)
    \/ ReadOnline
    \/ ReadSession
    \/ ReadSend
    \/ WriteBegin
    \/ WriteEnd

Next == ThreadL \/ ThreadM

Spec == Init /\ [][Next]_vars

-----------------------------------------------------------------------------
(***************************************************************************)
(* Properties.                                                             *)
(***************************************************************************)

(* Types; and the loop has an object in hand wherever it assigns to one.   *)
TypeOK ==
    /\ ctx \in [Slots -> [live : BOOLEAN, obj : Devices \cup {NoDev}, send : BOOLEAN]]
    /\ bev \in SUBSET Slots
    /\ owner \in [Slots -> Devices \cup {NoDev}]
    /\ obj \in [Devices -> [isOnline : BOOLEAN, session : Slots \cup {NoSlot}]]
    /\ lpc \in [at : LPoints, c : Slots \cup {NoSlot}, d : Devices \cup {NoDev}]
    /\ lpc.at \notin {"loop", "freectx", "freebev"} => lpc.d \in Devices
    /\ lpc.at # "loop" => lpc.c \in Slots
    /\ mpc \in [at : MPoints, c : Slots \cup {NoSlot}, d : Devices \cup {NoDev}]
    /\ mpc.at # "loop" => mpc.d \in Devices
    /\ mpc.at \in {"pSendMsg", "write", "writing"} => mpc.c \in Slots
    /\ raced \in BOOLEAN
    /\ overlapped \in BOOLEAN
    /\ inbox \in [Slots -> SUBSET [for : Devices, raced : BOOLEAN]]
    /\ stage \in Stages
    /\ crashed \in BOOLEAN

(* Between any two assignments of the event loop, whoever reads            *)
(* obj->session finds NULL or a CB_CTX that exists, is bound to this very  *)
(* object and has its bufferevent: mc_login binds before it publishes the  *)
(* session, event_cb withdraws the session before it frees.                *)
SessionAlwaysLive ==
    \A d \in Devices :
        LET c == obj[d].session IN
        c # NoSlot => ctx[c].live /\ ctx[c].obj = d /\ c \in bev

(* A command is written to the connection of another device only if the    *)
(* CB_CTX was freed between the read of obj->session and the write.        *)
OnlyRacesMisdeliver ==
    \A c \in Slots : \A m \in inbox[c] : m.raced \/ m.for = owner[c]

(* While the server runs, the command path can crash it in two ways: the   *)
(* CB_CTX was freed after the read of obj->session, or the event loop was  *)
(* at work while thread M was in bufferevent_write.  Elsewhere thread M is *)
(* safe from the loop, and a device that is online without a session is no *)
(* danger.  During the stop there are two more: a write to a connection    *)
(* that outlived the event base, and whatever reads a freed object.        *)
OnlyRacesCrash ==
    crashed => \/ raced
               \/ overlapped /\ mpc.at = "writing"
               \/ stage = "noBase" /\ mpc.at = "writing" /\ ctx[mpc.c].live
               \/ stage = "noObjects"

(* Each assignment of the event loop is a step of Presence or none: a      *)
(* binding is visible at once, a session appears and disappears with its   *)
(* assignment, and a connection is gone once its session is withdrawn.     *)
Going(c) == lpc.at = "freectx" /\ lpc.c = c

Reached == INSTANCE Presence WITH
    live <- {c \in Slots : ctx[c].live /\ ~Going(c)},
    bound <- [c \in Slots |-> IF Going(c) THEN NoDev ELSE ctx[c].obj],
    session <- [d \in Devices |-> obj[d].session]

PresenceSpec == Reached!Spec

=============================================================================

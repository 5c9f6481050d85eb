------------------------------ MODULE Session -------------------------------
(***************************************************************************)
(* Connections, logins and presence of the TK115 devices, and the relay of *)
(* application commands to them: server_mc.c (accept_conn_cb, read_cb,     *)
(* event_cb), the mc_* handlers of msg_proc_mc.c as far as they touch the  *)
(* object table or a connection, and the command path of msg_proc_app.c.   *)
(*                                                                         *)
(* A handler is one atomic step here: the libevent loop runs one callback  *)
(* at a time.  Module Relay takes the command path apart, because it runs  *)
(* on the thread of the MQTT client.  What that thread does to the static  *)
(* buffer of get_IMEI_STRING while a handler uses it is a choice the       *)
(* handler makes among the strings it may find there; module Registry      *)
(* takes the buffer apart, and follows what the code that registers a      *)
(* device does with it.                                                    *)
(*                                                                         *)
(* A slot is a heap address of a CB_CTX together with the bufferevent it   *)
(* points to.  Freed addresses are handed out again, which is what makes a *)
(* forgotten pointer to one of them dangerous.                             *)
(***************************************************************************)
EXTENDS Naturals, Sequences

CONSTANTS
    Devices,            \* IMEIs
    Slots,              \* addresses a CB_CTX can be allocated at
    Tokens,             \* (cmd << 16) + seq of an application command
    Numbers,            \* the cmd and seq an answer can be stamped with
    Returned,           \* what comes back of a token; module Wire computes it
    NoDev, NoSlot, NoToken,
    Torn,               \* a string in the static buffer that is no IMEI of Devices
    Reports,            \* the kinds of frames the devices send by themselves
    MaxIn,              \* bound: received frames waiting on one connection
    MaxOut              \* bound: frames queued towards one device

(* LONGGPS is a GPS frame whose length is a multiple of 256: see mc_gps.    *)
Kinds == {"LOGIN", "GPS", "LONGGPS", "PING", "ALARM", "STATUS", "SMS", "OPERAT", "DATA"}

ASSUME NullsAreFresh ==
    NoDev \notin Devices /\ NoSlot \notin Slots /\ NoToken \notin Tokens /\
    Torn \notin Devices

ASSUME AnswersHaveNumbers == Returned \in [Tokens -> Numbers]

ASSUME BoundsAreUsable ==
    Reports \subseteq Kinds \ {"OPERAT"} /\ MaxIn \in Nat \ {0} /\ MaxOut \in Nat \ {0}

VARIABLES
    ctx,        \* ctx[c]: the CB_CTX at c: is it allocated, and its obj field
    table,      \* the keys of g_table
    obj,        \* obj[d]: the isOnline and session fields of the OBJ_MC of d
    owner,      \* owner[c]: the device at the other end of the connection
    link,       \* link[c]: what that device has done with the connection
    inbuf,      \* inbuf[c]: frames received and not yet handled
    wire,       \* wire[c]: frames on their way to the device
    mqtt,       \* the link to the MQTT broker
    subs,       \* the app2dev topics the broker forwards to the server
    issued,     \* commands published by the application, <<device, token>>
    answers,    \* answers published to it, <<device of the topic, number>>
    strays      \* those whose topic was read from the buffer after the thread
                \* of the MQTT client had written there, <<its string, number>>

conns == <<ctx, owner, link>>
cloud == <<mqtt, subs>>
told  == <<answers, strays>>
vars  == <<ctx, table, obj, owner, link, inbuf, wire, mqtt, subs, issued,
           answers, strays>>

(***************************************************************************)
(* Frames.  LOGIN carries the IMEI of the device, OPERAT a token.          *)
(***************************************************************************)
Frame == [kind : Kinds, imei : Devices \cup {NoDev}, token : Tokens \cup {NoToken}]

Report(k, d)  == [kind |-> k, imei |-> d, token |-> NoToken]
Operation(t)  == [kind |-> "OPERAT", imei |-> NoDev, token |-> t]
Response(k)   == [kind |-> k, imei |-> NoDev, token |-> NoToken]

Freed      == [live |-> FALSE, obj |-> NoDev]
BoundTo(d) == [live |-> TRUE, obj |-> d]
Offline    == [isOnline |-> FALSE, session |-> NoSlot]

(***************************************************************************)
(* The states the event loop starts in: leancloud_getOBJ has put some      *)
(* devices in the table and subscribed to their topics, unless the MQTT    *)
(* client could not be set up or lost its link meanwhile.                  *)
(***************************************************************************)
Init ==
    /\ ctx = [c \in Slots |-> Freed]
    /\ table \in SUBSET Devices
    /\ obj = [d \in Devices |-> Offline]
    /\ owner = [c \in Slots |-> NoDev]
    /\ link = [c \in Slots |-> "closed"]
    /\ inbuf = [c \in Slots |-> <<>>]
    /\ wire = [c \in Slots |-> <<>>]
    /\ mqtt \in {"absent", "up"}
    /\ subs \in SUBSET (IF mqtt = "up" THEN table ELSE {})
    /\ issued = {}
    /\ answers = {}
    /\ strays = {}

(***************************************************************************)
(* The far ends: devices and their network.                                *)
(***************************************************************************)

(* A device opens a connection and accept_conn_cb allocates its CB_CTX.    *)
(* A device that vanished from an older connection may well come back      *)
(* before the server has noticed.                                          *)
accept_conn_cb(c, d) ==
    /\ ~ctx[c].live
    /\ \A s \in Slots : owner[s] = d => link[s] # "open"
    /\ ctx' = [ctx EXCEPT ![c] = BoundTo(NoDev)]
    /\ owner' = [owner EXCEPT ![c] = d]
    /\ link' = [link EXCEPT ![c] = "open"]
    /\ UNCHANGED <<table, obj, inbuf, wire, cloud, issued, told>>

Send(c, k) ==
    /\ link[c] = "open"
    /\ Len(inbuf[c]) < MaxIn
    /\ inbuf' = [inbuf EXCEPT ![c] = Append(@, Report(k, owner[c]))]
    /\ UNCHANGED <<conns, table, obj, wire, cloud, issued, told>>

(* The device reads a frame; it executes an operation and answers with the *)
(* token of the request, unless it has no room for the answer.             *)
Read(c) ==
    /\ link[c] = "open"
    /\ wire[c] # <<>>
    /\ wire' = [wire EXCEPT ![c] = Tail(@)]
    /\ LET f == Head(wire[c]) IN
       inbuf' = IF f.kind = "OPERAT" /\ Len(inbuf[c]) < MaxIn
                THEN [inbuf EXCEPT ![c] = Append(@, f)]
                ELSE inbuf
    /\ UNCHANGED <<conns, table, obj, cloud, issued, told>>

(* It closes the connection, resets it, or loses the network and is gone   *)
(* without a word.  What was on its way to it is lost.                     *)
Leave(c, how) ==
    /\ link[c] = "open"
    /\ link' = [link EXCEPT ![c] = how]
    /\ wire' = [wire EXCEPT ![c] = <<>>]
    /\ UNCHANGED <<ctx, owner, table, obj, inbuf, cloud, issued, told>>

(***************************************************************************)
(* Handlers of frames, on the event loop.                                  *)
(***************************************************************************)
Pending(c, k) == ctx[c].live /\ inbuf[c] # <<>> /\ Head(inbuf[c]).kind = k

Consume(c) == inbuf' = [inbuf EXCEPT ![c] = Tail(@)]

(* mc_msg_send through send_msg: bytes written to a peer that has gone     *)
(* reach nobody.                                                           *)
HasRoom(c) == link[c] = "open" => Len(wire[c]) < MaxOut

Sent(w, c, f) == IF link[c] = "open" THEN [w EXCEPT ![c] = Append(@, f)] ELSE w

(* What a handler may find in the static buffer of get_IMEI_STRING when it *)
(* reads the IMEI of d there: while the thread of the MQTT client logs a   *)
(* command it drops, it writes the IMEI of that device to the same bytes,  *)
(* and the mixture of two IMEIs may be that of a third.                    *)
Strings(d) ==
    IF \E i \in issued : i[1] \in table THEN Devices \cup {Torn} ELSE {d}

(* obj->isOnline = 1; obj->session = ctx; in mc_login, and in mc_gps       *)
LoginAttach(o, d, c) == [o EXCEPT ![d] = [isOnline |-> TRUE, session |-> c]]
GpsAttachForgotten(o, d, c) == o                                \* mutant
GpsAttach(o, d, c)   == [o EXCEPT ![d] = [isOnline |-> TRUE, session |-> c]]

(* A login binds an unbound connection to the object mc_get finds for the  *)
(* string in the buffer, or to a new one when it finds none; on a bound    *)
(* connection the IMEI of the request is not looked at.  A device whose    *)
(* lookup fails although it has an object is registered again, and its     *)
(* first object freed under those who hold it: that is left to Registry.   *)
LoginUnlooked(c, x) == ctx[c].obj                               \* mutant
LoginObj(c, x) ==
    IF ctx[c].obj # NoDev THEN ctx[c].obj
    ELSE IF x \in table THEN x ELSE Head(inbuf[c]).imei

FirstLogin(c, x) ==
    /\ ctx[c].obj = NoDev
    /\ x \notin table
    /\ Head(inbuf[c]).imei \notin table

LooksUp(c, x) ==
    \/ ctx[c].obj # NoDev
    \/ x \in Strings(Head(inbuf[c]).imei) /\ x \in table
    \/ x \in Strings(Head(inbuf[c]).imei) /\ FirstLogin(c, x)

(* It ends with app_subscribe, which reads the buffer once more.           *)
Attach(c, x) ==
    LET d == LoginObj(c, x) IN
    /\ table' = IF FirstLogin(c, x) THEN table \cup {d} ELSE table
    /\ ctx' = [ctx EXCEPT ![c] = BoundTo(d)]
    /\ obj' = LoginAttach(obj, d, c)
    /\ \E topic \in Strings(d) :
          subs' = IF mqtt = "up" THEN subs \cup ({topic} \cap Devices) ELSE subs

mc_login(c) ==
    /\ Pending(c, "LOGIN")
    /\ HasRoom(c)
    /\ \E x \in Devices \cup {Torn} : LooksUp(c, x) /\ Attach(c, x)
    /\ wire' = Sent(wire, c, Response("LOGIN"))
    /\ Consume(c)
    /\ UNCHANGED <<owner, link, mqtt, issued, told>>

(* The length is compared as it stands in the frame, in network order: a   *)
(* multiple of 256 is read as a number below 256 and refused when that is  *)
(* too small, every other length passes.                                   *)
mc_gps(c) ==
    /\ \/ /\ Pending(c, "GPS")
          /\ obj' = IF ctx[c].obj = NoDev THEN obj ELSE GpsAttach(obj, ctx[c].obj, c)
       \/ /\ Pending(c, "LONGGPS")
          /\ UNCHANGED obj
    /\ Consume(c)
    /\ UNCHANGED <<conns, table, wire, cloud, issued, told>>

(* mc_ping and mc_sms answer anybody, mc_alarm and mc_status only a device *)
(* that has logged in.                                                     *)
Answers(c, k) == k \in {"PING", "SMS"} \/ ctx[c].obj # NoDev

Respond(c, k) ==
    /\ k \in {"PING", "SMS", "ALARM", "STATUS"}
    /\ Pending(c, k)
    /\ HasRoom(c)
    /\ wire' = IF Answers(c, k) THEN Sent(wire, c, Response(k)) ELSE wire
    /\ Consume(c)
    /\ UNCHANGED <<conns, table, obj, cloud, issued, told>>

mc_data(c) ==
    /\ Pending(c, "DATA")
    /\ Consume(c)
    /\ UNCHANGED <<conns, table, obj, wire, cloud, issued, told>>

(* The answer to an operation (of type 0x01, the only one handled) goes,   *)
(* stamped with what is left of its token, to the topic of the IMEI in the *)
(* buffer; it is lost when mosquitto_publish fails, as it does while the   *)
(* broker link is down.                                                    *)
Topic(c) == ctx[c].obj

Publishes(d, n) ==
    \/ answers' = answers \cup {<<d, n>>} /\ UNCHANGED strays
    \/ \E x \in Strings(d) \ {d} :
          strays' = strays \cup {<<x, n>>} /\ UNCHANGED answers

mc_operator(c) ==
    /\ Pending(c, "OPERAT")
    /\ \/ /\ Topic(c) # NoDev /\ mqtt = "up"
          /\ Publishes(Topic(c), Returned[Head(inbuf[c]).token])
       \/ UNCHANGED told
    /\ Consume(c)
    /\ UNCHANGED <<conns, table, obj, wire, cloud, issued>>

handle_one_msg(c) ==
    \/ mc_login(c)
    \/ mc_gps(c)
    \/ \E k \in Kinds : Respond(c, k)
    \/ mc_operator(c)
    \/ mc_data(c)

(***************************************************************************)
(* event_cb: the object of the connection goes offline and the CB_CTX is   *)
(* freed, whatever the session of that object is by now.                   *)
(***************************************************************************)
DetachForgotten(o, d) == o                                      \* mutant
DetachKeepsSession(o, d) ==                                     \* mutant
    IF d = NoDev THEN o ELSE [o EXCEPT ![d].isOnline = FALSE]
Detach(o, d) == IF d = NoDev THEN o ELSE [o EXCEPT ![d] = Offline]

Close(c) ==
    /\ ctx[c].live
    /\ obj' = Detach(obj, ctx[c].obj)
    /\ ctx' = [ctx EXCEPT ![c] = Freed]
    /\ owner' = [owner EXCEPT ![c] = NoDev]
    /\ link' = [link EXCEPT ![c] = "closed"]
    /\ inbuf' = [inbuf EXCEPT ![c] = <<>>]
    /\ wire' = [wire EXCEPT ![c] = <<>>]
    /\ UNCHANGED <<table, cloud, issued, told>>

(* The end of the stream comes after its data, a reset discards them, and  *)
(* 600 seconds of silence can be those of a live device too.               *)
Eof(c)     == link[c] = "fin" /\ inbuf[c] = <<>> /\ Close(c)
Error(c)   == link[c] = "reset" /\ Close(c)
Timeout(c) == link[c] \in {"open", "gone"} /\ inbuf[c] = <<>> /\ Close(c)

event_cb(c) == Eof(c) \/ Error(c) \/ Timeout(c)

(***************************************************************************)
(* The application and the broker.                                         *)
(***************************************************************************)

(* app_message_callback on a PUBLISH to app2dev/<d>: app_handleApp2devMsg  *)
(* looks the object up, app_sendRawData2TK115 drops the command when the   *)
(* object is offline and mc_msg_send when it has no session.               *)
Reachable(d) == d \in table /\ obj[d].isOnline /\ obj[d].session # NoSlot

app_handleApp2devMsg(d, t) ==
    /\ mqtt = "up" /\ d \in subs
    /\ issued' = issued \cup {<<d, t>>}
    /\ IF Reachable(d)
       THEN /\ HasRoom(obj[d].session)
            /\ wire' = Sent(wire, obj[d].session, Operation(t))
       ELSE wire' = wire
    /\ UNCHANGED <<conns, table, obj, inbuf, cloud, told>>

(* The client asked for a clean session: with the connection the broker    *)
(* forgets every subscription, and app_connect_callback renews none.       *)
MqttLost ==
    /\ mqtt = "up"
    /\ mqtt' = "down"
    /\ subs' = {}
    /\ UNCHANGED <<conns, table, obj, inbuf, wire, issued, told>>

MqttBack ==
    /\ mqtt = "down"
    /\ mqtt' = "up"
    /\ UNCHANGED <<conns, table, obj, inbuf, wire, subs, issued, told>>

Next ==
    \/ \E c \in Slots, d \in Devices : accept_conn_cb(c, d)
    \/ \E c \in Slots, k \in Reports : Send(c, k)
    \/ \E c \in Slots : Read(c)
    \/ \E c \in Slots, how \in {"fin", "reset", "gone"} : Leave(c, how)
    \/ \E c \in Slots : handle_one_msg(c)
    \/ \E c \in Slots : event_cb(c)
    \/ \E d \in Devices, t \in Tokens : app_handleApp2devMsg(d, t)
    \/ MqttLost
    \/ MqttBack

Spec == Init /\ [][Next]_vars

(***************************************************************************)
(* Fairness.  The event loop handles what it has received and notices a    *)
(* closed, reset or dead connection (for a dead one the 600 s timer is     *)
(* the guarantee); a live device reads its socket and reports its position *)
(* again and again, which is what it is built for.                         *)
(***************************************************************************)
Fairness ==
    \A c \in Slots :
        /\ WF_vars(handle_one_msg(c))
        /\ WF_vars(Eof(c) \/ Error(c) \/ (link[c] = "gone" /\ Timeout(c)))
        /\ WF_vars(Read(c))
        /\ SF_vars(Send(c, "GPS"))

FairSpec == Spec /\ Fairness

-----------------------------------------------------------------------------
(***************************************************************************)
(* Properties.                                                             *)
(***************************************************************************)

Typed ==
    /\ ctx \in [Slots -> [live : BOOLEAN, obj : Devices \cup {NoDev}]]
    /\ table \in SUBSET Devices
    /\ obj \in [Devices -> [isOnline : BOOLEAN, session : Slots \cup {NoSlot}]]
    /\ owner \in [Slots -> Devices \cup {NoDev}]
    /\ link \in [Slots -> {"closed", "open", "fin", "reset", "gone"}]
    /\ inbuf \in [Slots -> Seq(Frame)]
    /\ wire \in [Slots -> Seq(Frame)]
    /\ mqtt \in {"absent", "up", "down"}
    /\ subs \in SUBSET Devices
    /\ issued \in SUBSET (Devices \X Tokens)
    /\ answers \in SUBSET (Devices \X Numbers)
    /\ strays \in SUBSET ((Devices \cup {Torn}) \X Numbers)

FreedIsEmpty ==
    \A c \in Slots : ~ctx[c].live =>
        /\ ctx[c] = Freed
        /\ owner[c] = NoDev /\ link[c] = "closed"
        /\ inbuf[c] = <<>> /\ wire[c] = <<>>

WithinBounds ==
    \A c \in Slots : Len(inbuf[c]) <= MaxIn /\ Len(wire[c]) <= MaxOut

(* Every variable has its type; a freed connection has neither device nor  *)
(* frames, and no queue exceeds its bound.                                 *)
TypeOK == Typed /\ FreedIsEmpty /\ WithinBounds

(* obj->session, when it is set, points to an allocated CB_CTX whose own   *)
(* obj points back, and it is set exactly while isOnline is: event_cb      *)
(* leaves no object with a pointer to the CB_CTX it frees, however logins, *)
(* late GPS frames and closes of several connections of one device mix.    *)
SessionConsistent ==
    \A d \in Devices :
        /\ obj[d].isOnline <=> obj[d].session # NoSlot
        /\ obj[d].session # NoSlot =>
              ctx[obj[d].session].live /\ ctx[obj[d].session].obj = d

(* A CB_CTX is bound to an object in the table only, and while it is       *)
(* allocated: handlers use ctx->obj without looking it up again.           *)
BoundToRegistered ==
    \A c \in Slots :
        ctx[c].obj # NoDev => ctx[c].live /\ ctx[c].obj \in table

(* A frame that carries a command or the answer to one is only ever on a   *)
(* connection bound to the device the command was issued for.              *)
IssuedFor(c, f) == f.kind = "OPERAT" => <<ctx[c].obj, f.token>> \in issued

NoCrossTalk ==
    \A c \in Slots :
        /\ \A i \in DOMAIN wire[c] : IssuedFor(c, wire[c][i])
        /\ \A i \in DOMAIN inbuf[c] : IssuedFor(c, inbuf[c][i])

(* The server keeps the promise of CommandService: nobody reads on the     *)
(* topic of a device the answer to a command that was issued for another,  *)
(* although connections are freed and their addresses used again, unless   *)
(* the topic was overwritten in the static buffer; and what goes astray    *)
(* then is still the answer to a command that was issued.                  *)
Service == INSTANCE CommandService WITH answered <- answers, astray <- strays
ServiceSpec == Service!Spec

(* Every step of the server is one of Presence or changes nothing there: a *)
(* connection once bound never changes its device, sessions appear with a  *)
(* login or a report from a live bound connection and with nothing else,   *)
(* and none outlives the connection it names.                              *)
Reached == INSTANCE Presence WITH
    live <- {c \in Slots : ctx[c].live},
    bound <- [c \in Slots |-> ctx[c].obj],
    session <- [d \in Devices |-> obj[d].session]
PresenceSpec == Reached!Spec

(* A device that stays on a connection it has logged in on is in the end   *)
(* online through that connection for good: each of its older connections  *)
(* can take its presence away once more, when it is closed, and the next   *)
(* GPS report gives it back.                                               *)
PresenceRecovers ==
    \A c \in Slots, d \in Devices :
        <>[](link[c] = "open" /\ ctx[c].obj = d)
            => <>[](obj[d].isOnline /\ obj[d].session = c)

(* The log calls an object offline exactly when isOnline is 0 ("obj %s     *)
(* offline"): that no connection of a live device is bound to it.          *)
OfflineMeansGone ==
    \A d \in Devices : ~obj[d].isOnline =>
        \A c \in Slots : ~(ctx[c].live /\ link[c] = "open" /\ ctx[c].obj = d)

=============================================================================

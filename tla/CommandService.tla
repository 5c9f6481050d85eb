--------------------------- MODULE CommandService ---------------------------
(***************************************************************************)
(* What the server promises to a phone application, said without           *)
(* connections, sessions or threads: the application issues a command for  *)
(* a device under a token of its own choice, and whatever answer it later  *)
(* reads on the topic of that device is stamped as the answer to a command *)
(* it issued for that very device.  Commands may be lost (MQTT quality of  *)
(* service 0, an offline device), answers may never come, they may be      *)
(* repeated, and they may go astray: the string the topic is made from is  *)
(* shared with a thread that can overwrite it.                             *)
(*                                                                         *)
(* The stamp is not the token but what is left of it after it was packed   *)
(* into an int and taken apart again; it is for the application to choose  *)
(* tokens it can tell apart by that.                                       *)
(***************************************************************************)

CONSTANTS
    Devices,    \* the devices, named by their IMEI
    Tokens,     \* what the application stamps a command with: cmd and seq
    Returned,   \* what an answer to a command is stamped with
    Torn        \* a topic that belongs to no device

VARIABLES
    issued,     \* the commands the application has published, <<device, token>>
    answered,   \* the answers it can read, <<device of the topic, stamp>>
    astray      \* answers on the topic of another device or of none

Init ==
    /\ issued = {}
    /\ answered = {}
    /\ astray = {}

Issue(d, t) ==
    /\ issued' = issued \cup {<<d, t>>}
    /\ UNCHANGED <<answered, astray>>

Answer(d, t) ==
    /\ <<d, t>> \in issued
    /\ answered' = answered \cup {<<d, Returned[t]>>}
    /\ UNCHANGED <<issued, astray>>

(* Whoever reads the topic x gets the answer to a command for d.           *)
Stray(d, t, x) ==
    /\ <<d, t>> \in issued
    /\ x # d
    /\ astray' = astray \cup {<<x, Returned[t]>>}
    /\ UNCHANGED <<issued, answered>>

Next ==
    \E d \in Devices, t \in Tokens :
        \/ Issue(d, t)
        \/ Answer(d, t)
        \/ \E x \in Devices \cup {Torn} : Stray(d, t, x)

Spec == Init /\ [][Next]_<<issued, answered, astray>>

=============================================================================

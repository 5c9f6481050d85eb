---------------------------- MODULE Conversation ----------------------------
(***************************************************************************)
(* Both directions of one TK115 connection.  Upstream is Framing: pieces   *)
(* of the stream, and the frames that handle_one_msg is called with.       *)
(* Downstream are the responses of those handlers and the operations of    *)
(* the command path, which the device has to tell apart by the length      *)
(* field in their headers, as the server does with what the device sends.  *)
(*                                                                         *)
(* A device takes the bytes it gets in order, and waits until the bytes a  *)
(* header has announced are there; so it makes no difference when they     *)
(* arrive or how TCP cuts them, and the device is modelled at the moment   *)
(* the server writes: a message is understood when it begins where the     *)
(* device looks for a header.  Where it finds none it understands nothing  *)
(* more on this connection.                                                *)
(*                                                                         *)
(* The frames of a piece are handled one by one, and the thread of the     *)
(* MQTT client may write an operation between the responses to them.       *)
(***************************************************************************)
EXTENDS Framing, Sequences, FiniteSets

CONSTANTS
    KindOf,             \* KindOf[n]: what a frame of n bytes is
    OperationSizes,     \* the sizes of operations, header and data
    MaxOperations       \* bound: operations sent over the connection

ASSUME KindsOfSizes ==
    KindOf \in [Sizes -> {"LOGIN", "GPS", "PING", "ALARM", "STATUS", "SMS", "DATA"}]
ASSUME OperationsHaveHeaders ==
    /\ OperationSizes \subseteq {n \in Nat : n >= SizeOfHeader + 5}
    /\ MaxOperations \in Nat

VARIABLES
    todo,           \* frames in buf that handle_one_msg is still to be given
    loggedIn,       \* has mc_login bound ctx->obj?
    said,           \* what was written to the device, with what it understood
    written,        \* how many bytes that is
    expects         \* the offset at which the device looks for a header

downstream == <<todo, loggedIn, said, written, expects>>

(***************************************************************************)
(* What the server sends.                                                  *)
(***************************************************************************)
HeaderLen == 5          \* MC_MSG_HEADER_LEN
Telphone  == 21         \* sizeof(telphone) in MC_MSG_SMS_RSP

(* alloc_rspMsg knows LOGIN, PING, STATUS and SMS; mc_alarm makes its      *)
(* response itself.                                                        *)
Answerable == {"LOGIN", "PING", "STATUS", "SMS", "ALARM"}

(* The sizes of the structures, and what set_msg_len writes.               *)
SizeOfResponse(k) == IF k = "SMS" THEN SizeOfHeader + Telphone ELSE SizeOfHeader

LengthOfAll(k) == SizeOfResponse(k)                              \* mutant
LengthField(k) == SizeOfResponse(k) - HeaderLen

(* mc_status and mc_sms send sizeof(MC_MSG_PING_RSP) bytes of theirs.      *)
Response(k, f) ==
    [of |-> f, kind |-> k, at |-> written, size |-> SizeOfHeader,
     announced |-> LengthField(k) + HeaderLen, understood |-> expects = written]

(* alloc_msg(CMD_OPERAT, size) and mc_msg_send(req, size): the same size.   *)
Operation(n) ==
    [of |-> [start |-> 0, end |-> 0], kind |-> "OPERAT", at |-> written, size |-> n,
     announced |-> n, understood |-> expects = written]

(* send_msg, and what the device makes of it.                              *)
send_msg(m) ==
    /\ said' = Append(said, m)
    /\ written' = written + m.size
    /\ expects' = IF m.understood THEN written + m.announced ELSE expects

Silence == UNCHANGED <<said, written, expects>>

(***************************************************************************)
(* The handlers, as far as they answer.  ALARM and STATUS need a login on  *)
(* this connection.                                                        *)
(***************************************************************************)
AlwaysMay(k) == TRUE                                             \* mutant
MayAnswer(k) == k \in {"ALARM", "STATUS"} => loggedIn

Kind(f) == KindOf[f.end - f.start]
Earlier(f, g) == f.end <= g.start

ReadPiece ==
    /\ todo = {}
    /\ read_cb
    /\ todo' = WholeFrames(consumed, PieceEnd)
    /\ UNCHANGED loggedIn /\ Silence

(* The loop of handle_mc_msg gives it the frames of the piece in order.    *)
handle_one_msg(f) ==
    /\ f \in todo /\ \A g \in todo \ {f} : Earlier(f, g)
    /\ todo' = todo \ {f}
    /\ loggedIn' = (loggedIn \/ Kind(f) = "LOGIN")
    /\ IF Kind(f) \in Answerable /\ MayAnswer(Kind(f))
       THEN send_msg(Response(Kind(f), f))
       ELSE Silence
    /\ UNCHANGED vars

Operations == {i \in DOMAIN said : said[i].kind = "OPERAT"}

(* A command of the application, on the thread of the MQTT client; how it  *)
(* finds the connection is the subject of Relay.                           *)
app_sendRawData2TK115(n) ==
    /\ loggedIn
    /\ Cardinality(Operations) < MaxOperations
    /\ send_msg(Operation(n))
    /\ UNCHANGED <<vars, todo, loggedIn>>

ConversationInit ==
    /\ Init
    /\ todo = {}
    /\ loggedIn = FALSE
    /\ said = <<>>
    /\ written = 0 /\ expects = 0

(* The device sends at any time; libevent fills the input buffer when      *)
(* read_cb has returned.                                                   *)
ConversationNext ==
    \/ (\E n \in Sizes : Send(n)) /\ UNCHANGED downstream
    \/ todo = {} /\ (\E n \in Segments : Receive(n)) /\ UNCHANGED downstream
    \/ ReadPiece
    \/ \E f \in todo : handle_one_msg(f)
    \/ \E n \in OperationSizes : app_sendRawData2TK115(n)

ConversationSpec == ConversationInit /\ [][ConversationNext]_<<vars, downstream>>

-----------------------------------------------------------------------------
(***************************************************************************)
(* Properties.                                                             *)
(***************************************************************************)

Message ==
    [of : Frame, kind : Answerable \cup {"OPERAT"}, at : Nat, size : Nat \ {0},
     announced : Nat, understood : BOOLEAN]

(* The types of both directions; the device waits for no more than the     *)
(* rest of one SMS response.                                               *)
ConversationTypeOK ==
    /\ TypeOK
    /\ todo \subseteq handled
    /\ loggedIn \in BOOLEAN
    /\ said \in Seq(Message)
    /\ written \in Nat
    /\ expects \in 0 .. written + Telphone

(* The device gets one response to each frame that was handled and asks    *)
(* for one, in the order of the frames, except that alarms and states sent *)
(* before a login of this connection was handled get none: a login lost    *)
(* with its segment silences them all.                                     *)
AsksForAnswer(f) ==
    /\ Kind(f) \in Answerable
    /\ Kind(f) \in {"ALARM", "STATUS"} =>
           \E g \in handled : Earlier(g, f) /\ Kind(g) = "LOGIN"

Answers == {i \in DOMAIN said : said[i].kind # "OPERAT"}

AnsweredExactly ==
    /\ {said[i].of : i \in Answers} = {f \in handled \ todo : AsksForAnswer(f)}
    /\ \A i, j \in Answers : i < j => Earlier(said[i].of, said[j].of)

(* The device understands what it is sent unless an SMS response it has    *)
(* understood has taken it: the 21 bytes announced and not sent are those  *)
(* of the messages that follow.  It is in step again with the message that *)
(* begins right behind them, and never if none does: three responses are   *)
(* lost, or everything if an operation of another size is among them.      *)
UnderstoodExactly ==
    \A i \in DOMAIN said :
        said[i].understood <=>
            \A j \in 1 .. i - 1 :
                said[j].understood /\ said[j].kind = "SMS" =>
                    \E k \in j + 1 .. i :
                        said[k].at = said[j].at + said[j].size + Telphone

=============================================================================

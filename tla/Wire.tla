-------------------------------- MODULE Wire --------------------------------
(***************************************************************************)
(* What becomes of the numbers of an application command on its way        *)
(* through the server: the command code and the sequence number, which     *)
(* travel to the device and back inside the token of an operation, and the *)
(* lengths the two protocols put in their headers.  The width of a short   *)
(* is a parameter; sizes are those of the packed structures:               *)
(*                                                                         *)
(*   APP_MSG (MQTT)     header 2, cmd 2, length 2, seq 2, data             *)
(*   MC_MSG_OPERATOR    header 2, cmd 1, length 2, seq 2, type 1, token 4, *)
(*                      data                                               *)
(*                                                                         *)
(* The length of an APP_MSG counts seq and data, that of a device frame    *)
(* everything behind the length field.                                     *)
(***************************************************************************)
EXTENDS Integers

CONSTANTS
    Half,           \* where a short turns negative: 2^15 in the build
    Cmds, Seqs,     \* the command codes and sequence numbers applications use
    Payloads        \* numbers of data bytes in a command and in an answer

Word  == 2 * Half       \* unsigned short
DWord == Word * Word    \* int

ASSUME WordsHoldHeaders == Half \in Nat /\ Half > 12
ASSUME CmdsAreWords == Cmds \subseteq 0 .. Word - 1
ASSUME SeqsAreWords == Seqs \subseteq 0 .. Word - 1
ASSUME PayloadsAreNat == Payloads \subseteq Nat

SizeOfHeader   == 7     \* sizeof(MC_MSG_HEADER)
HeaderLen      == 5     \* MC_MSG_HEADER_LEN: what the length does not count
SizeOfOperator == 12    \* sizeof(MC_MSG_OPERATOR_REQ), and of the RSP
SizeOfSeq      == 2     \* sizeof(pMsg->seq)
AppFixed       == 6     \* sizeof(short) * 3: header, cmd and length

(***************************************************************************)
(* The token.  ntohs yields 0 .. Word-1, and the assignment to a short     *)
(* makes the upper half of that range negative; a token is an int, here    *)
(* its 32 bits as an unsigned number.                                      *)
(***************************************************************************)
Short(n) == IF n >= Half THEN n - Word ELSE n

SeqMasked(n) == n % Half                                        \* mutant
SeqAsStored(n) == Short(n)                  \* short seq = ntohs(pMsg->seq)

TokenSwapped(cmd, seq) == (Short(seq) * Word + Short(cmd)) % DWord  \* mutant
Token(cmd, seq) == (Short(cmd) * Word + SeqAsStored(seq)) % DWord

CmdOfToken(t) == t \div Word                \* (session & 0xffff0000) >> 16
SeqSignedBack(t) == Short(t % Word)                             \* mutant
SeqOfToken(t) == t % Word                   \* session & 0xffff

(***************************************************************************)
(* Lengths.  A header holds 16 bits of the length it is given.             *)
(***************************************************************************)
AppLength(n)     == n + SizeOfSeq               \* as the application sends it
LengthAccepted(length, total) == length + AppFixed = total
CommandData(length) == length - SizeOfSeq       \* what is copied to the device

OperatorSize(n)  == SizeOfOperator + n
LengthOfAll(size) == size % Word                                \* mutant
HeaderLength(size) == (size - HeaderLen) % Word \* set_msg_len in alloc_msg

(* mc_operator: how many bytes behind the token it passes on.              *)
AnswerData(length) == SizeOfHeader + length - SizeOfOperator

VARIABLES
    at,         \* where the exchange is: "app", "server", "device", "back", "done"
    cmd, seq,   \* what the application chose
    frame,      \* the operation on its way to the device, or its answer
    answer      \* what the application gets

vars == <<at, cmd, seq, frame, answer>>

Nothing == [token |-> 0, length |-> 0, size |-> 0]
NoAnswer == [cmd |-> 0, seq |-> 0, data |-> 0]

Init ==
    /\ at = "app"
    /\ cmd \in Cmds
    /\ seq \in Seqs
    /\ frame = Nothing
    /\ answer = NoAnswer

(* app_handleApp2devMsg and app_sendRawData2TK115 for a command with n     *)
(* bytes of data.                                                          *)
Forward(n) ==
    /\ at = "app"
    /\ LET length == AppLength(n) % Word
           data   == CommandData(length) IN
       /\ LengthAccepted(length, AppFixed + AppLength(n))
       /\ frame' = [token  |-> Token(cmd, seq),
                    length |-> HeaderLength(OperatorSize(data)),
                    size   |-> OperatorSize(data)]
    /\ at' = "device"
    /\ UNCHANGED <<cmd, seq, answer>>

(* The device answers with the same token and data of its own.             *)
DeviceAnswers(n) ==
    /\ at = "device"
    /\ n < Word - SizeOfOperator
    /\ frame' = [frame EXCEPT !.length = HeaderLength(OperatorSize(n)),
                              !.size = OperatorSize(n)]
    /\ at' = "back"
    /\ UNCHANGED <<cmd, seq, answer>>

(* mc_operator and app_sendRspMsg2App.                                     *)
Return ==
    /\ at = "back"
    /\ answer' = [cmd  |-> CmdOfToken(frame.token),
                  seq  |-> SeqOfToken(frame.token),
                  data |-> AnswerData(frame.length)]
    /\ at' = "done"
    /\ UNCHANGED <<cmd, seq, frame>>

Next ==
    \/ \E n \in Payloads : Forward(n) \/ DeviceAnswers(n)
    \/ Return

Spec == Init /\ [][Next]_vars

-----------------------------------------------------------------------------
(***************************************************************************)
(* Properties.                                                             *)
(***************************************************************************)

TypeOK ==
    /\ at \in {"app", "device", "back", "done"}
    /\ cmd \in Cmds /\ seq \in Seqs
    /\ frame \in [token : 0 .. DWord - 1, length : 0 .. Word - 1, size : Nat]
    /\ answer \in [cmd : 0 .. Word - 1, seq : 0 .. Word - 1, data : Int]

(* The application recognises the answer to its command: both numbers come *)
(* back as they were sent, as long as the sequence number is below Half.   *)
TokenRoundTrip ==
    at = "done" /\ seq < Half => answer.cmd = cmd /\ answer.seq = seq

(* Beyond that the sign of the short borrows from the command code: the    *)
(* sequence number survives, the command code comes back one too small.    *)
BorrowFromCmd ==
    at = "done" /\ seq >= Half =>
        answer.seq = seq /\ answer.cmd = (cmd + Word - 1) % Word

(* The device can tell where an operation ends: its header counts exactly  *)
(* the bytes that follow the length field.  Only for the last few payloads *)
(* an APP_MSG can announce the length of the operation has no room in it.  *)
OperationFramed ==
    at = "device" /\ frame.size < Word + HeaderLen =>
        frame.size = HeaderLen + frame.length

(* The application gets as many bytes of data as the device sent.  The     *)
(* header says what it does not count: MC_MSG_HEADER_LEN.                  *)
AnswerIsWhole ==
    at = "done" => answer.data = frame.size - SizeOfOperator

=============================================================================

------------------------------ MODULE Framing -------------------------------
(***************************************************************************)
(* How the bytes of one TK115 connection become messages: read_cb reads    *)
(* the stream in pieces of at most BufSize bytes and handle_mc_msg looks   *)
(* for whole frames in each piece by itself; what is left of a piece is    *)
(* not kept for the next one.                                              *)
(*                                                                         *)
(* A frame is the pair of the offsets in the stream where it begins and    *)
(* where the next one does.  Its length field tells its size truly, and    *)
(* the signature 0x67 0x67 occurs nowhere but in headers: a piece that     *)
(* begins inside a frame is not taken for a message.                       *)
(***************************************************************************)
EXTENDS Naturals

CONSTANTS
    Sizes,          \* the sizes of the frames devices send
    Segments,       \* the sizes of the segments TCP makes of them
    BufSize,        \* sizeof(buf) in read_cb: 1024 in the build
    MaxBytes        \* bound: how much a device sends

SizeOfHeader == 7   \* sizeof(MC_MSG_HEADER)

ASSUME FramesHaveHeaders == Sizes \subseteq {n \in Nat : n >= SizeOfHeader}
ASSUME SegmentsHaveBytes == Segments \subseteq Nat \ {0}
ASSUME SomeBuffer == BufSize \in Nat \ {0} /\ MaxBytes \in Nat

VARIABLES
    frames,         \* what the device has sent
    total,          \* how many bytes that is
    received,       \* how many of them libevent has put in the input buffer
    consumed,       \* how many bufferevent_read has taken from there
    handled,        \* the frames handle_one_msg was called with
    cuts,           \* where the pieces read so far began
    whole           \* did each segment end with a frame and fit in buf?

vars == <<frames, total, received, consumed, handled, cuts, whole>>

Frame == [start : Nat, end : Nat]

Boundaries == {0} \cup {f.end : f \in frames}

Init ==
    /\ frames = {}
    /\ total = 0 /\ received = 0 /\ consumed = 0
    /\ handled = {}
    /\ cuts = {}
    /\ whole = TRUE

(* The device writes a frame to its socket.                                *)
Send(n) ==
    /\ total + n <= MaxBytes
    /\ frames' = frames \cup {[start |-> total, end |-> total + n]}
    /\ total' = total + n
    /\ UNCHANGED <<received, consumed, handled, cuts, whole>>

(* A segment arrives: TCP may cut the stream anywhere.  libevent calls     *)
(* read_cb at once, which reads until nothing is left.                     *)
Receive(n) ==
    /\ consumed = received
    /\ received + n <= total
    /\ received' = received + n
    /\ whole' = (whole /\ received + n \in Boundaries /\ n <= BufSize)
    /\ UNCHANGED <<frames, total, consumed, handled, cuts>>

(* bufferevent_read(bev, buf, sizeof(buf)) fills buf as far as it can.     *)
PieceTakenAsFull == consumed + BufSize                           \* mutant
PieceEnd == IF received - consumed < BufSize
            THEN received ELSE consumed + BufSize

(* The loop of handle_mc_msg goes from header to header as long as the     *)
(* whole frame is in the piece.  It goes nowhere when the piece does not   *)
(* begin with a header.                                                    *)
Unchecked(from, to) ==                                           \* mutant
    {f \in frames : from <= f.start /\ f.end <= to}
WholeFrames(from, to) ==
    IF from \in Boundaries
    THEN {f \in frames : from <= f.start /\ f.end <= to}
    ELSE {}

read_cb ==
    /\ consumed < received
    /\ consumed' = PieceEnd
    /\ handled' = handled \cup WholeFrames(consumed, PieceEnd)
    /\ cuts' = cuts \cup {consumed}
    /\ UNCHANGED <<frames, total, received, whole>>

Next ==
    \/ \E n \in Sizes : Send(n)
    \/ \E n \in Segments : Receive(n)
    \/ read_cb

Spec == Init /\ [][Next]_vars

-----------------------------------------------------------------------------
(***************************************************************************)
(* Properties.                                                             *)
(***************************************************************************)

(* Offsets and flags; no more is consumed than was received, no more is    *)
(* received than was sent.                                                 *)
TypeOK ==
    /\ frames \in SUBSET Frame
    /\ total \in 0 .. MaxBytes
    /\ received \in 0 .. total
    /\ consumed \in 0 .. received
    /\ handled \in SUBSET frames
    /\ cuts \in SUBSET (0 .. MaxBytes)
    /\ whole \in BOOLEAN

(* Which frames reach a handler: those that have been consumed and whose   *)
(* last byte was in a piece that began with a frame.  So a piece that      *)
(* begins inside a frame costs every frame in it, and the connection is in *)
(* step again as soon as a piece happens to begin with a header.           *)
InAlignedPiece(f) ==
    \E c \in cuts \cap Boundaries :
        /\ c <= f.start
        /\ \A k \in cuts : k <= c \/ f.end <= k

HandledExactly ==
    \A f \in frames : f \in handled <=> f.end <= consumed /\ InAlignedPiece(f)

(* A device that sends each frame, or several together, in one segment of  *)
(* at most BufSize bytes loses none of them, whatever their sizes.         *)
WholeSegmentsAreHandled ==
    whole => \A f \in frames : f.end <= consumed => f \in handled

(* What was lost stays lost: a frame is handled when its bytes are taken   *)
(* from the input buffer and never later, nor after one sent behind it.    *)
InOrder ==
    [][\A f \in handled' \ handled :
          f.start >= consumed /\ \A g \in handled : g.end <= f.start]_vars

=============================================================================

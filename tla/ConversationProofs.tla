------------------------- MODULE ConversationProofs -------------------------
(***************************************************************************)
(* Proofs about Framing for frames, buffers and segments of every size,    *)
(* and, from the second rule on, about Conversation for operations of      *)
(* every size as well.                                                     *)
(***************************************************************************)
EXTENDS Conversation, SequenceTheorems, TLAPS

(***************************************************************************)
(* The frames follow one another without gap or overlap, and the pieces    *)
(* read so far began before what has been consumed.                        *)
(***************************************************************************)
Contiguous ==
    /\ \A f \in frames : /\ f.start < f.end /\ f.end <= total
                         /\ f.start \in Boundaries
    /\ \A f, g \in frames : f = g \/ f.end <= g.start \/ g.end <= f.start
    /\ total \in Boundaries
    /\ \A k \in cuts : k < consumed

(* While every segment ends with a frame and fits in buf, each piece       *)
(* begins with a frame, and so does what is in the input buffer.           *)
InStep ==
    whole => /\ cuts \subseteq Boundaries
             /\ consumed \in Boundaries /\ received \in Boundaries
             /\ received - consumed <= BufSize

(* What has been consumed was consumed by some piece.                      *)
Covered ==
    \A f \in frames : f.end <= consumed =>
        \E c \in cuts : c < f.end /\ \A k \in cuts : k <= c \/ f.end <= k

IInv ==
    /\ TypeOK
    /\ Contiguous
    /\ InStep
    /\ Covered
    /\ HandledExactly

(* A boundary is never inside a frame.                                     *)
LEMMA BoundariesOutside ==
    ASSUME TypeOK, Contiguous, NEW b \in Boundaries, NEW f \in frames
    PROVE  b \in Nat /\ (b <= f.start \/ f.end <= b)
  BY DEF TypeOK, Contiguous, Boundaries, Frame

(* A piece takes some bytes, and none that have not come.                  *)
LEMMA PieceIsProper ==
    ASSUME TypeOK, consumed < received
    PROVE  /\ PieceEnd \in Nat /\ consumed < PieceEnd /\ PieceEnd <= received
           /\ received - consumed <= BufSize => PieceEnd = received
  BY SomeBuffer DEF TypeOK, PieceEnd

LEMMA IInvInit == Init => IInv
<1> SUFFICES ASSUME Init
             PROVE  IInv
  OBVIOUS
<1>1. Boundaries = {0}
  BY DEF Init, Boundaries
<1> QED
  <2>1. TypeOK
    <3>1. whole \in BOOLEAN
      BY Zenon DEF Init
    <3>2. total = 0 /\ received = 0 /\ consumed = 0
      BY DEF Init
    <3>3. frames = {} /\ handled = {} /\ cuts = {}
      BY DEF Init
    <3>4. total \in 0 .. MaxBytes /\ received \in 0 .. total /\ consumed \in 0 .. received
      BY <3>2, SomeBuffer
    <3>5. frames \in SUBSET Frame /\ handled \in SUBSET frames /\ cuts \in SUBSET (0 .. MaxBytes)
      BY <3>3
    <3> QED
      BY <3>1, <3>4, <3>5 DEF TypeOK
  <2>2. Contiguous /\ Covered /\ HandledExactly
    BY <1>1 DEF Init, Contiguous, Covered, HandledExactly
  <2>3. InStep
    BY <1>1, SomeBuffer DEF Init, InStep
  <2> QED
    BY <2>1, <2>2, <2>3 DEF IInv

(* A new frame adds its end to the boundaries.                             *)
LEMMA SendBoundaries ==
    ASSUME NEW n, Send(n)
    PROVE  Boundaries' = Boundaries \cup {total + n}
<1> DEFINE new == [start |-> total, end |-> total + n]
<1>1. frames' = frames \cup {new} /\ new.end = total + n
  BY DEF Send
<1> HIDE DEF new
<1> QED
  BY <1>1 DEF Boundaries

LEMMA TypeStep == TypeOK /\ [Next]_vars => TypeOK'
<1> SUFFICES ASSUME TypeOK, [Next]_vars
             PROVE  TypeOK'
  OBVIOUS
<1> USE SomeBuffer DEF TypeOK
<1>1. ASSUME NEW n \in Sizes, Send(n)
      PROVE  TypeOK'
  BY <1>1, FramesHaveHeaders DEF Send, Frame
<1>2. ASSUME NEW n \in Segments, Receive(n)
      PROVE  TypeOK'
  BY <1>2, SegmentsHaveBytes DEF Receive
<1>3. CASE read_cb
  <2>1. WholeFrames(consumed, PieceEnd) \in SUBSET frames
    BY DEF WholeFrames
  <2>3. PieceEnd \in 0 .. received
    BY <1>3, PieceIsProper DEF read_cb
  <2> QED
    BY <1>3, <2>1, <2>3 DEF read_cb
<1>4. CASE UNCHANGED vars
  BY <1>4 DEF vars
<1> QED
  BY <1>1, <1>2, <1>3, <1>4 DEF Next

LEMMA ContiguousStep == TypeOK /\ Contiguous /\ [Next]_vars => Contiguous'
<1> SUFFICES ASSUME TypeOK, Contiguous, [Next]_vars
             PROVE  Contiguous'
  OBVIOUS
<1> USE DEF TypeOK, Contiguous
<1>1. ASSUME NEW n \in Sizes, Send(n)
      PROVE  Contiguous'
  <2> DEFINE new == [start |-> total, end |-> total + n]
  <2>1. /\ frames' = frames \cup {new} /\ total' = total + n
        /\ UNCHANGED <<cuts, consumed>>
    BY <1>1 DEF Send
  <2>2. n \in Nat /\ n > 0
    BY FramesHaveHeaders DEF SizeOfHeader
  <2>3. Boundaries' = Boundaries \cup {total + n}
    BY <1>1, SendBoundaries
  <2> QED
    BY <2>1, <2>2, <2>3 DEF Frame
<1>2. ASSUME NEW n \in Segments, Receive(n)
      PROVE  Contiguous'
  BY <1>2 DEF Receive, Boundaries
<1>3. CASE read_cb
  BY <1>3, PieceIsProper DEF read_cb, Boundaries
<1>4. CASE UNCHANGED vars
  BY <1>4 DEF vars, Boundaries
<1> QED
  BY <1>1, <1>2, <1>3, <1>4 DEF Next

LEMMA InStepStep == TypeOK /\ InStep /\ [Next]_vars => InStep'
<1> SUFFICES ASSUME TypeOK, InStep, [Next]_vars
             PROVE  InStep'
  OBVIOUS
<1> USE DEF TypeOK, InStep
<1>1. ASSUME NEW n \in Sizes, Send(n)
      PROVE  InStep'
  BY <1>1, SendBoundaries DEF Send
<1>2. ASSUME NEW n \in Segments, Receive(n)
      PROVE  InStep'
  <2>1. Boundaries' = Boundaries /\ n \in Nat
    BY <1>2, SegmentsHaveBytes DEF Receive, Boundaries
  <2>2. whole' => whole /\ received' \in Boundaries /\ received' - consumed <= BufSize
    <3>1. whole' => whole /\ received + n \in Boundaries /\ n <= BufSize
      BY <1>2, Zenon DEF Receive
    <3>2. received' = received + n /\ consumed = received
      BY <1>2 DEF Receive
    <3>3. received' - consumed = n
      BY <2>1, <3>2
    <3> QED
      BY <3>1, <3>2, <3>3, Zenon
  <2> QED
    BY <1>2, <2>1, <2>2 DEF Receive
<1>3. CASE read_cb
  <2>1. Boundaries' = Boundaries
    BY <1>3 DEF read_cb, Boundaries
  <2> QED
    BY <1>3, <2>1, PieceIsProper, SomeBuffer DEF read_cb
<1>4. CASE UNCHANGED vars
  BY <1>4 DEF vars, Boundaries
<1> QED
  BY <1>1, <1>2, <1>3, <1>4 DEF Next

LEMMA CoveredStep == TypeOK /\ Contiguous /\ Covered /\ [Next]_vars => Covered'
<1> SUFFICES ASSUME TypeOK, Contiguous, Covered, [Next]_vars
             PROVE  Covered'
  OBVIOUS
<1> USE DEF TypeOK, Covered, Frame
<1>1. ASSUME NEW n \in Sizes, Send(n)
      PROVE  Covered'
  BY <1>1, FramesHaveHeaders DEF Send, SizeOfHeader
<1>2. ASSUME NEW n \in Segments, Receive(n)
      PROVE  Covered'
  BY <1>2 DEF Receive
<1>3. CASE read_cb
  <2>1. /\ frames' = frames /\ consumed' = PieceEnd /\ cuts' = cuts \cup {consumed}
        /\ \A k \in cuts : k \in Nat /\ k < consumed
    BY <1>3 DEF read_cb, Contiguous
  <2> SUFFICES ASSUME NEW f \in frames, f.end <= PieceEnd
               PROVE  \E c \in cuts' : c < f.end /\ \A k \in cuts' : k <= c \/ f.end <= k
    BY <2>1
  <2>2. CASE f.end <= consumed
    <3>1. PICK c \in cuts : c < f.end /\ \A k \in cuts : k <= c \/ f.end <= k
      BY <2>2
    <3> QED
      BY <2>1, <2>2, <3>1
  <2>3. CASE consumed < f.end
    BY <2>1, <2>3
  <2> QED
    BY <2>2, <2>3
<1>4. CASE UNCHANGED vars
  BY <1>4 DEF vars
<1> QED
  BY <1>1, <1>2, <1>3, <1>4 DEF Next

LEMMA HandledStep ==
    TypeOK /\ Contiguous /\ HandledExactly /\ [Next]_vars => HandledExactly'
<1> SUFFICES ASSUME TypeOK, Contiguous, HandledExactly, [Next]_vars
             PROVE  HandledExactly'
  OBVIOUS
<1> USE DEF TypeOK, HandledExactly, InAlignedPiece, Frame
<1>1. ASSUME NEW n \in Sizes, Send(n)
      PROVE  HandledExactly'
  <2>1. n \in Nat /\ n > 0
    BY FramesHaveHeaders DEF SizeOfHeader
  <2>2. \A c \in cuts : c \in Boundaries' <=> c \in Boundaries
    BY <1>1, <2>1, SendBoundaries DEF Contiguous
  <2>3. ASSUME NEW f \in frames
        PROVE  f \in handled' <=> f.end <= consumed' /\ InAlignedPiece(f)'
    BY <1>1, <2>2 DEF Send
  <2>4. ASSUME NEW f \in frames', f \notin frames
        PROVE  f \notin handled' /\ ~(f.end <= consumed')
    BY <1>1, <2>1, <2>4 DEF Send
  <2> QED
    BY <2>3, <2>4
<1>2. ASSUME NEW n \in Segments, Receive(n)
      PROVE  HandledExactly'
  BY <1>2 DEF Receive, Boundaries
<1>3. CASE read_cb
  <2>1. /\ frames' = frames /\ consumed' = PieceEnd /\ cuts' = cuts \cup {consumed}
        /\ handled' = handled \cup WholeFrames(consumed, PieceEnd)
        /\ Boundaries' = Boundaries
        /\ \A k \in cuts : k \in Nat /\ k < consumed
    BY <1>3 DEF read_cb, Contiguous, Boundaries
  <2>2. PieceEnd \in Nat /\ consumed < PieceEnd
    BY <1>3, PieceIsProper DEF read_cb
  <2> SUFFICES ASSUME NEW f \in frames
               PROVE  f \in handled' <=> f.end <= PieceEnd /\ InAlignedPiece(f)'
    BY <2>1
  <2>3. f.start \in Nat /\ f.end \in Nat /\ f.start < f.end
    BY DEF Contiguous
  <2>4. ASSUME f \in handled
        PROVE  f.end <= PieceEnd /\ InAlignedPiece(f)'
    BY <2>1, <2>2, <2>3, <2>4
  <2>5. ASSUME f \in WholeFrames(consumed, PieceEnd)
        PROVE  f.end <= PieceEnd /\ InAlignedPiece(f)'
    BY <2>1, <2>5 DEF WholeFrames
  <2>6. ASSUME f.end <= PieceEnd, InAlignedPiece(f)'
        PROVE  f \in handled'
    <3>1. PICK c \in cuts' \cap Boundaries :
              c <= f.start /\ \A k \in cuts' : k <= c \/ f.end <= k
      BY <2>1, <2>6
    <3>2. CASE c = consumed
      BY <2>1, <2>6, <3>1, <3>2 DEF WholeFrames
    <3>3. CASE c \in cuts
      <4>1. f.end <= consumed
        BY <2>1, <3>1, <3>3
      <4> QED
        BY <2>1, <3>1, <3>3, <4>1
    <3> QED
      BY <2>1, <3>1, <3>2, <3>3
  <2> QED
    BY <2>1, <2>4, <2>5, <2>6
<1>4. CASE UNCHANGED vars
  BY <1>4 DEF vars, Boundaries
<1> QED
  BY <1>1, <1>2, <1>3, <1>4 DEF Next

LEMMA IInvStep == IInv /\ [Next]_vars => IInv'
  BY TypeStep, ContiguousStep, InStepStep, CoveredStep, HandledStep DEF IInv

THEOREM Inductive == Spec => []IInv
  BY IInvInit, IInvStep, PTL DEF Spec

(* Offsets stay in order whatever TCP does to the stream.                  *)
THEOREM TypeCorrect == Spec => []TypeOK
<1>1. IInv => TypeOK
  BY DEF IInv
<1> QED
  BY <1>1, Inductive, PTL

(* A frame reaches its handler if and only if the piece with its last byte *)
(* began with a frame.                                                     *)
THEOREM FramesAreHandledExactly == Spec => []HandledExactly
<1>1. IInv => HandledExactly
  BY DEF IInv
<1> QED
  BY <1>1, Inductive, PTL

(* Segments of whole frames that fit in buf lose nothing.                  *)
THEOREM WholeSegmentsLoseNothing == Spec => []WholeSegmentsAreHandled
<1>1. IInv => WholeSegmentsAreHandled
  <2> SUFFICES ASSUME IInv, whole, NEW f \in frames, f.end <= consumed
               PROVE  f \in handled
    BY DEF WholeSegmentsAreHandled
  <2>1. PICK c \in cuts : c < f.end /\ \A k \in cuts : k <= c \/ f.end <= k
    BY DEF IInv, Covered
  <2>2. c \in Boundaries
    BY DEF IInv, InStep
  <2>3. c <= f.start
    BY <2>1, <2>2, BoundariesOutside DEF IInv, TypeOK, Frame
  <2> QED
    BY <2>1, <2>2, <2>3 DEF IInv, HandledExactly, InAlignedPiece
<1> QED
  BY <1>1, Inductive, PTL

(* Frames are handled once each, in the order in which they were sent.     *)
THEOREM FramesAreHandledInOrder == Spec => InOrder
<1>1. IInv /\ [Next]_vars =>
          [\A f \in handled' \ handled :
              f.start >= consumed /\ \A g \in handled : g.end <= f.start]_vars
  <2> SUFFICES ASSUME IInv, [Next]_vars, NEW f \in handled', f \notin handled
               PROVE  f.start >= consumed /\ \A g \in handled : g.end <= f.start
    OBVIOUS
  <2>1. read_cb
    BY DEF Next, Send, Receive, vars
  <2>2. f \in frames /\ consumed <= f.start
    BY <2>1 DEF read_cb, WholeFrames
  <2>3. \A g \in handled : g \in frames /\ g.end <= consumed
    BY DEF IInv, TypeOK, HandledExactly
  <2> QED
    BY <2>2, <2>3 DEF IInv, TypeOK, Frame
<1> QED
  BY <1>1, Inductive, PTL DEF Spec, InOrder

-----------------------------------------------------------------------------
(***************************************************************************)
(* Conversation adds variables to Framing and restrains its steps: what    *)
(* holds of the bytes of a connection holds in a conversation.             *)
(***************************************************************************)
LEMMA FramingStep == [ConversationNext]_<<vars, downstream>> => [Next]_vars
<1> SUFFICES ASSUME [ConversationNext]_<<vars, downstream>>
             PROVE  [Next]_vars
  OBVIOUS
<1>1. CASE UNCHANGED <<vars, downstream>>
  BY <1>1
<1>2. CASE ReadPiece
  BY <1>2 DEF ReadPiece, Next
<1>3. ASSUME NEW f \in todo, handle_one_msg(f)
      PROVE  UNCHANGED vars
  BY <1>3 DEF handle_one_msg
<1>4. ASSUME NEW n \in OperationSizes, app_sendRawData2TK115(n)
      PROVE  UNCHANGED vars
  BY <1>4 DEF app_sendRawData2TK115
<1> QED
  BY <1>1, <1>2, <1>3, <1>4 DEF ConversationNext, Next

THEOREM ConversationIsFramed == ConversationSpec => Spec
<1>1. ConversationInit => Init
  BY DEF ConversationInit
<1> QED
  BY <1>1, FramingStep, PTL DEF ConversationSpec, Spec

(***************************************************************************)
(* The way to the device.  Its messages follow one another, only the       *)
(* response to an SMS announces more than it has, and the device looks for *)
(* a header where the last message it has understood was to end: none that *)
(* came since begins there.                                                *)
(***************************************************************************)
Excess(k) == IF k = "SMS" THEN Telphone ELSE 0

Adjacent ==
    /\ \A i \in 1 .. Len(said) :
           /\ said[i].announced = said[i].size + Excess(said[i].kind)
           /\ i < Len(said) => said[i].at + said[i].size = said[i + 1].at
           /\ i = Len(said) => said[i].at + said[i].size = written
    /\ Len(said) = 0 => written = 0

LastUnderstood(l) ==
    /\ said[l].understood
    /\ expects = said[l].at + said[l].announced
    /\ \A i \in l + 1 .. Len(said) : said[i].at # expects /\ ~said[i].understood

Looking ==
    \/ Len(said) = 0 /\ expects = 0
    \/ \E l \in 1 .. Len(said) : LastUnderstood(l)

DownType ==
    /\ said \in Seq(Message)
    /\ written \in Nat
    /\ expects \in 0 .. written + Telphone

DownInv == DownType /\ Adjacent /\ Looking /\ UnderstoodExactly

LEMMA Appended ==
    ASSUME said \in Seq(Message), NEW m \in Message, said' = Append(said, m)
    PROVE  /\ said' \in Seq(Message)
           /\ Len(said) \in Nat /\ Len(said') = Len(said) + 1
           /\ DOMAIN said = 1 .. Len(said) /\ DOMAIN said' = 1 .. Len(said) + 1
           /\ \A i \in 1 .. Len(said) : said'[i] = said[i] /\ said[i] \in Message
           /\ said'[Len(said) + 1] = m
<1>1. Len(said) \in Nat /\ DOMAIN said = 1 .. Len(said)
      /\ said' \in Seq(Message) /\ Len(said') = Len(said) + 1
      /\ \A i \in 1 .. Len(said) : said'[i] = said[i]
      /\ said'[Len(said) + 1] = m
  BY AppendProperties, LenProperties
<1>2. DOMAIN said' = 1 .. Len(said')
  BY <1>1, LenProperties
<1>3. \A i \in 1 .. Len(said) : said[i] \in Message
  BY ElementOfSeq
<1> QED
  BY <1>1, <1>2, <1>3

(* A message whose length field tells its size but for the excess.         *)
Proper(m) ==
    /\ m \in Message
    /\ m.at = written
    /\ m.announced = m.size + Excess(m.kind)
    /\ m.understood <=> expects = written

(* Such a message is understood if and only if the excess of every SMS     *)
(* response that was understood has gone by: the step of the induction     *)
(* behind UnderstoodExactly.                                               *)
LEMMA UnderstoodNext ==
    ASSUME DownInv, NEW m, Proper(m), send_msg(m)
    PROVE  m.understood <=>
               \A j \in 1 .. Len(said) :
                   said[j].understood /\ said[j].kind = "SMS" =>
                       \E k \in j + 1 .. Len(said) + 1 :
                           said'[k].at = said'[j].at + said'[j].size + Telphone
<1> DEFINE n == Len(said)
           Over(j) == \E k \in j + 1 .. n + 1 :
                          said'[k].at = said'[j].at + said'[j].size + Telphone
<1>1. /\ n \in Nat /\ said'[n + 1] = m /\ m.at = written /\ written \in Nat
      /\ DOMAIN said = 1 .. n
      /\ \A i \in 1 .. n : said'[i] = said[i] /\ said[i] \in Message
  BY Appended DEF send_msg, Proper, DownInv, DownType
<1>2. CASE n = 0
  BY <1>1, <1>2 DEF DownInv, Adjacent, Looking, Proper
<1>3. ASSUME NEW l \in 1 .. n, LastUnderstood(l)
      PROVE  m.understood <=>
                 \A j \in 1 .. n : said[j].understood /\ said[j].kind = "SMS" => Over(j)
  <2>1. ASSUME NEW j \in 1 .. l - 1, said[j].understood, said[j].kind = "SMS"
        PROVE  Over(j)
    <3>1. PICK k \in j + 1 .. l : said[k].at = said[j].at + said[j].size + Telphone
      BY <1>1, <1>3, <2>1 DEF DownInv, UnderstoodExactly, LastUnderstood
    <3> QED
      BY <1>1, <3>1
  <2>2. \A j \in l + 1 .. n : ~said[j].understood
    BY <1>3 DEF LastUnderstood
  <2>3. /\ said[l].at \in Nat /\ said[l].size \in Nat /\ said[l].size > 0
        /\ expects = said[l].at + said[l].size + Excess(said[l].kind)
    <3>1. said[l].at \in Nat /\ said[l].size \in Nat /\ said[l].size > 0
      BY <1>1 DEF Message
    <3>2. said[l].announced = said[l].size + Excess(said[l].kind)
      BY DEF DownInv, Adjacent
    <3>3. expects = said[l].at + said[l].announced
      BY <1>3 DEF LastUnderstood
    <3>4. Excess(said[l].kind) \in Nat
      BY DEF Excess, Telphone
    <3> QED
      BY <3>1, <3>2, <3>3, <3>4
  <2>4. CASE said[l].kind = "SMS"
    <3>1. Over(l) <=> written = expects
      BY <1>1, <1>3, <2>3, <2>4, SMTT(30) DEF LastUnderstood, Excess
    <3> QED
      BY <1>1, <1>3, <2>1, <2>2, <2>4, <3>1 DEF Proper, LastUnderstood
  <2>5. CASE said[l].kind # "SMS"
    <3>1. said[l].at + said[l].size = expects
      BY <2>3, <2>5 DEF Excess
    <3>2. l = n
      <4>1. ASSUME l < n
            PROVE  FALSE
        <5>1. l + 1 \in l + 1 .. n
          BY <1>1, <4>1
        <5>2. said[l + 1].at = expects
          BY <1>1, <3>1, <4>1 DEF DownInv, Adjacent
        <5> QED
          BY <1>3, <5>1, <5>2 DEF LastUnderstood
      <4>2. n \in Nat
        BY <1>1, SMTT(30)
      <4> HIDE DEF n
      <4> QED
        BY <4>1, <4>2
    <3>3. written = expects
      BY <1>1, <3>1, <3>2 DEF DownInv, Adjacent
    <3> QED
      BY <1>1, <2>1, <2>5, <3>2, <3>3 DEF Proper
  <2> QED
    BY <2>4, <2>5
<1> QED
  BY <1>2, <1>3 DEF DownInv, Looking

LEMMA SendKeepsDown ==
    ASSUME DownInv, NEW m, Proper(m), send_msg(m)
    PROVE  DownInv'
<1> DEFINE n == Len(said)
<1>1. /\ n \in Nat /\ said' \in Seq(Message) /\ Len(said') = n + 1
      /\ said'[n + 1] = m
      /\ DOMAIN said = 1 .. n /\ DOMAIN said' = 1 .. n + 1
      /\ \A i \in 1 .. n : said'[i] = said[i] /\ said[i] \in Message
  BY Appended DEF send_msg, Proper, DownInv, DownType
<1>2. /\ m.at = written /\ m.size \in Nat /\ m.size > 0 /\ m.announced \in Nat
      /\ m.announced = m.size + Excess(m.kind)
      /\ Excess(m.kind) \in 0 .. Telphone
      /\ m.understood <=> expects = written
      /\ written' = written + m.size
      /\ written \in Nat /\ expects \in 0 .. written + Telphone
  BY DEF Proper, Message, Excess, Telphone, send_msg, DownInv, DownType
<1>3. expects' = IF m.understood THEN written + m.announced ELSE expects
  BY DEF send_msg
<1>4. DownType'
  <2>1. Telphone \in Nat
    BY DEF Telphone
  <2>2. expects' \in 0 .. written' + Telphone
    <3>1. CASE m.understood
      BY <1>2, <1>3, <2>1, <3>1
    <3>2. CASE ~m.understood
      <4>1. expects' = expects
        BY <1>3, <3>2
      <4> QED
        BY <1>2, <2>1, <4>1
    <3> QED
      BY <3>1, <3>2
  <2> QED
    BY <1>1, <1>2, <2>2 DEF DownType
<1>5. Adjacent'
  <2> SUFFICES ASSUME NEW i \in 1 .. n + 1
               PROVE  /\ said'[i].announced = said'[i].size + Excess(said'[i].kind)
                      /\ i < n + 1 => said'[i].at + said'[i].size = said'[i + 1].at
                      /\ i = n + 1 => said'[i].at + said'[i].size = written'
    BY <1>1 DEF Adjacent
  <2>1. CASE i = n + 1
    BY <1>1, <1>2, <2>1, SMTT(30)
  <2>2. CASE i = n /\ i \in 1 .. n
    <3>1. said'[i] = said[i] /\ said'[i + 1] = m
      BY <1>1, <2>2
    <3> QED
      BY <1>1, <1>2, <2>2, <3>1 DEF DownInv, Adjacent
  <2>3. CASE i \in 1 .. n /\ i + 1 \in 1 .. n
    <3>1. said'[i] = said[i] /\ said'[i + 1] = said[i + 1]
      BY <1>1, <2>3
    <3> QED
      <4>1. i < n /\ i # n + 1
        BY <1>1, <2>3
      <4>2. /\ said[i].announced = said[i].size + Excess(said[i].kind)
            /\ said[i].at + said[i].size = said[i + 1].at
        BY <2>3, <4>1 DEF DownInv, Adjacent
      <4> QED
        BY <3>1, <4>1, <4>2
  <2>4. i = n + 1 \/ (i = n /\ i \in 1 .. n) \/ (i \in 1 .. n /\ i + 1 \in 1 .. n)
    <3>1. n \in Nat
      BY <1>1
    <3> HIDE DEF n
    <3> QED
      BY <3>1
  <2> QED
    BY <2>1, <2>2, <2>3, <2>4
<1>6. Looking'
  <2>1. CASE m.understood
    BY <1>1, <1>2, <1>3, <2>1 DEF Looking, LastUnderstood
  <2>2. CASE ~m.understood
    <3>1. expects' = expects /\ m.at # expects
      BY <1>2, <1>3, <2>2
    <3>2. n # 0
      BY <1>2, <3>1 DEF DownInv, Adjacent, Looking
    <3>3. PICK l \in 1 .. n : LastUnderstood(l)
      BY <3>2 DEF DownInv, Looking
    <3> QED
      BY <1>1, <2>2, <3>1, <3>3, SMTT(30) DEF Looking, LastUnderstood
  <2> QED
    BY <2>1, <2>2
<1>7. UnderstoodExactly'
  <2>1. ASSUME NEW i \in 1 .. n
        PROVE  said'[i].understood <=>
                   \A j \in 1 .. i - 1 :
                       said'[j].understood /\ said'[j].kind = "SMS" =>
                           \E k \in j + 1 .. i :
                               said'[k].at = said'[j].at + said'[j].size + Telphone
    <3>1. said[i].understood <=>
              \A j \in 1 .. i - 1 :
                  said[j].understood /\ said[j].kind = "SMS" =>
                      \E k \in j + 1 .. i :
                          said[k].at = said[j].at + said[j].size + Telphone
      BY <1>1 DEF DownInv, UnderstoodExactly
    <3>2. i \in Nat /\ \A k \in 1 .. i : said'[k] = said[k]
      BY <1>1
    <3>3. \A j \in 1 .. i - 1 :
              /\ said'[j] = said[j]
              /\ \A k \in j + 1 .. i : said'[k] = said[k]
      BY <3>2
    <3> QED
      <4> DEFINE Past(j) == \E k \in j + 1 .. i :
                                said[k].at = said[j].at + said[j].size + Telphone
                 Passed(j) == \E k \in j + 1 .. i :
                                said'[k].at = said'[j].at + said'[j].size + Telphone
      <4>1. \A j \in 1 .. i - 1 : Passed(j) <=> Past(j)
        BY <3>3
      <4>2. said'[i] = said[i]
        BY <3>2
      <4> HIDE DEF Past, Passed
      <4>3. said[i].understood <=>
                \A j \in 1 .. i - 1 : said[j].understood /\ said[j].kind = "SMS" => Past(j)
        BY <3>1 DEF Past
      <4>4. said'[i].understood <=>
                \A j \in 1 .. i - 1 : said'[j].understood /\ said'[j].kind = "SMS" => Passed(j)
        <5>1. \A j \in 1 .. i - 1 : said'[j] = said[j]
          BY <3>3
        <5> QED
          BY <4>1, <4>2, <4>3, <5>1, Zenon
      <4> QED
        BY <4>4 DEF Passed
  <2>2. m.understood <=>
            \A j \in 1 .. n :
                said[j].understood /\ said[j].kind = "SMS" =>
                    \E k \in j + 1 .. n + 1 :
                        said'[k].at = said'[j].at + said'[j].size + Telphone
    BY UnderstoodNext
  <2>3. \A j \in 1 .. n : said'[j] = said[j]
    BY <1>1
  <2> DEFINE Exact(i) ==
                 said'[i].understood <=>
                     \A j \in 1 .. i - 1 :
                         said'[j].understood /\ said'[j].kind = "SMS" =>
                             \E k \in j + 1 .. i :
                                 said'[k].at = said'[j].at + said'[j].size + Telphone
  <2>4. Exact(n + 1)
    <3> DEFINE Past(j) == \E k \in j + 1 .. n + 1 :
                              said'[k].at = said'[j].at + said'[j].size + Telphone
    <3>1. m.understood <=>
              \A j \in 1 .. n : said[j].understood /\ said[j].kind = "SMS" => Past(j)
      BY <2>2
    <3>2. /\ said'[n + 1] = m
          /\ (n + 1) - 1 = n
      BY <1>1
    <3> HIDE DEF Past, n
    <3>3. said'[n + 1].understood <=>
              \A j \in 1 .. n : said'[j].understood /\ said'[j].kind = "SMS" => Past(j)
      BY <2>3, <3>1, <3>2, Zenon
    <3> QED
      BY <3>2, <3>3, Zenon DEF Past
  <2>5. \A i \in 1 .. n : Exact(i)
    BY <2>1, Zenon
  <2>6. DOMAIN said' = 1 .. n + 1
    BY <1>1
  <2>7. \A i \in 1 .. n + 1 : i \in 1 .. n \/ i = n + 1
    <3>1. n \in Nat
      BY <1>1
    <3> HIDE DEF n
    <3> QED
      BY <3>1
  <2>8. \A i \in DOMAIN said' : Exact(i)
    <3> HIDE DEF Exact, n
    <3> QED
      BY <2>4, <2>5, <2>6, <2>7, Zenon
  <2> QED
    BY <2>8, Zenon DEF UnderstoodExactly
<1> QED
  BY <1>4, <1>5, <1>6, <1>7 DEF DownInv


-----------------------------------------------------------------------------
(***************************************************************************)
(* The way from the device.  The frames whose turn is still to come lie    *)
(* behind those that were handled, whose logins are what loggedIn tells.   *)
(***************************************************************************)
Done == handled \ todo

InTurn ==
    /\ todo \subseteq handled
    /\ \A f \in todo, g \in Done : Earlier(g, f)

LoginSeen ==
    /\ loggedIn \in BOOLEAN
    /\ loggedIn <=> \E g \in Done : Kind(g) = "LOGIN"

CInv ==
    /\ IInv
    /\ DownInv
    /\ InTurn
    /\ LoginSeen
    /\ AnsweredExactly

(* What was handled was consumed, and no frame is empty.                   *)
LEMMA HandledFrames ==
    ASSUME IInv, NEW f \in handled
    PROVE  /\ f \in Frame /\ f.start \in Nat /\ f.end \in Nat
           /\ f.start < f.end /\ f.end <= consumed /\ consumed \in Nat
  BY DEF IInv, TypeOK, Contiguous, HandledExactly, Frame

LEMMA CInvInit == ConversationInit => CInv
<1> SUFFICES ASSUME ConversationInit
             PROVE  CInv
  OBVIOUS
<1>1. /\ Init /\ todo = {} /\ said = <<>> /\ written = 0 /\ expects = 0
      /\ loggedIn = FALSE
  BY DEF ConversationInit
<1>2. IInv
  BY <1>1, IInvInit
<1>3. said \in Seq(Message) /\ Len(said) = 0 /\ DOMAIN said = {}
  BY <1>1, EmptySeq
<1>4. DownInv
  <2>1. DownType
    BY <1>1, <1>3 DEF DownType, Telphone
  <2>2. Adjacent /\ Looking
    BY <1>1, <1>3 DEF Adjacent, Looking
  <2>3. UnderstoodExactly
    BY <1>3 DEF UnderstoodExactly
  <2> QED
    BY <2>1, <2>2, <2>3 DEF DownInv
<1>5. handled = {}
  BY <1>1 DEF Init
<1>6. InTurn /\ LoginSeen
  BY <1>1, <1>5 DEF InTurn, LoginSeen, Done
<1>7. AnsweredExactly
  BY <1>3, <1>5 DEF AnsweredExactly, Answers
<1> QED
  BY <1>2, <1>4, <1>6, <1>7 DEF CInv

(* A message that is no response changes nothing of the answers.           *)
LEMMA OperationsAreNoAnswers ==
    ASSUME CInv, NEW m, Proper(m), send_msg(m), m.kind = "OPERAT",
           UNCHANGED <<vars, todo>>
    PROVE  AnsweredExactly'
<1> DEFINE n == Len(said)
<1>1. /\ n \in Nat /\ said'[n + 1] = m
      /\ DOMAIN said = 1 .. n /\ DOMAIN said' = 1 .. n + 1
      /\ \A i \in 1 .. n : said'[i] = said[i]
  BY Appended DEF send_msg, Proper, CInv, DownInv, DownType
<1>2. Answers' = Answers
  BY <1>1 DEF Answers
<1>3. Answers \subseteq 1 .. n
  BY <1>1 DEF Answers
<1>4. \A i \in Answers : said'[i].of = said[i].of
  BY <1>1, <1>3
<1>5. \A f \in handled : AsksForAnswer(f)' <=> AsksForAnswer(f)
  BY DEF AsksForAnswer, vars
<1>6. handled' = handled /\ todo' = todo
  BY DEF vars
<1> QED
  BY <1>2, <1>4, <1>5, <1>6 DEF CInv, AnsweredExactly, Earlier

(* The response to a frame that is behind all those answered so far.       *)
LEMMA ResponsesAreAnswers ==
    ASSUME CInv, NEW f \in todo, NEW m, Proper(m), send_msg(m),
           m.kind # "OPERAT", m.of = f, AsksForAnswer(f),
           UNCHANGED vars, todo' = todo \ {f}
    PROVE  AnsweredExactly'
<1> DEFINE n == Len(said)
<1>1. /\ n \in Nat /\ said'[n + 1] = m
      /\ DOMAIN said = 1 .. n /\ DOMAIN said' = 1 .. n + 1
      /\ \A i \in 1 .. n : said'[i] = said[i]
  BY Appended DEF send_msg, Proper, CInv, DownInv, DownType
<1>2. Answers' = Answers \cup {n + 1}
  BY <1>1 DEF Answers
<1>3. Answers \subseteq 1 .. n
  BY <1>1 DEF Answers
<1>4. \A i \in Answers : said'[i].of = said[i].of
  BY <1>1, <1>3
<1>5. \A g \in handled : AsksForAnswer(g)' <=> AsksForAnswer(g)
  BY DEF AsksForAnswer, vars
<1>6. handled' = handled /\ todo \subseteq handled
  BY DEF vars, CInv, InTurn
<1>7. {said[i].of : i \in Answers} = {g \in Done : AsksForAnswer(g)}
  BY DEF CInv, AnsweredExactly, Done
<1>8. {said'[i].of : i \in Answers'} = {g \in Done : AsksForAnswer(g)} \cup {f}
  BY <1>1, <1>2, <1>4, <1>7
<1>9. (handled \ todo)' = Done \cup {f}
  BY <1>6 DEF Done
<1>10. {g \in (handled \ todo)' : AsksForAnswer(g)'} = {g \in Done : AsksForAnswer(g)} \cup {f}
  BY <1>5, <1>6, <1>9 DEF Done
<1>11. ASSUME NEW i \in Answers', NEW j \in Answers', i < j
       PROVE  Earlier(said'[i].of, said'[j].of)
  <2>1. i \in Answers
    BY <1>1, <1>2, <1>3, <1>11
  <2>2. CASE j \in Answers
    BY <1>4, <1>11, <2>1, <2>2 DEF CInv, AnsweredExactly
  <2>3. CASE j = n + 1
    <3>1. said'[i].of \in Done
      BY <1>4, <1>7, <2>1
    <3> QED
      BY <1>1, <2>3, <3>1 DEF CInv, InTurn
  <2> QED
    BY <1>2, <2>2, <2>3
<1> QED
  BY <1>8, <1>10, <1>11 DEF AnsweredExactly, Earlier

(* The headers of the server's messages, but for the SMS response's.       *)
LEMMA ResponsesAreProper ==
    ASSUME CInv, NEW k \in Answerable, NEW f \in Frame
    PROVE  Proper(Response(k, f))
<1>1. LengthField(k) + HeaderLen = SizeOfHeader + Excess(k)
  BY DEF LengthField, SizeOfResponse, HeaderLen, SizeOfHeader, Telphone, Excess
<1>2. Excess(k) \in Nat
  BY DEF Excess, Telphone
<1>3. written \in Nat
  BY DEF CInv, DownInv, DownType
<1> DEFINE m == Response(k, f)
<1>4. /\ m.of = f /\ m.kind = k /\ m.at = written /\ m.size = SizeOfHeader
      /\ m.announced = LengthField(k) + HeaderLen
  BY DEF Response
<1>5. m.understood = (expects = written)
  BY Zenon DEF Response
<1>6. m = [of |-> m.of, kind |-> m.kind, at |-> m.at, size |-> m.size,
           announced |-> m.announced, understood |-> m.understood]
  BY Zenon DEF Response
<1> HIDE DEF m
<1>7. m.understood \in BOOLEAN
  BY <1>5
<1>8. m \in Message
  BY <1>1, <1>2, <1>3, <1>4, <1>6, <1>7 DEF Message, SizeOfHeader
<1>9. Proper(m)
  BY <1>1, <1>4, <1>5, <1>8 DEF Proper
<1> QED
  BY <1>9 DEF m

LEMMA OperationsAreProper ==
    ASSUME CInv, NEW n \in OperationSizes
    PROVE  Proper(Operation(n))
<1>1. n \in Nat \ {0}
  BY OperationsHaveHeaders DEF SizeOfHeader
<1>2. [start |-> 0, end |-> 0] \in Frame
  BY DEF Frame
<1>3. written \in Nat
  BY DEF CInv, DownInv, DownType
<1> DEFINE m == Operation(n)
<1>4. /\ m.of \in Frame /\ m.kind = "OPERAT" /\ m.at = written /\ m.size = n
      /\ m.announced = n
  BY <1>2 DEF Operation
<1>5. m.understood = (expects = written)
  BY Zenon DEF Operation
<1>6. m = [of |-> m.of, kind |-> m.kind, at |-> m.at, size |-> m.size,
           announced |-> m.announced, understood |-> m.understood]
  BY Zenon DEF Operation
<1> HIDE DEF m
<1>7. m.understood \in BOOLEAN
  BY <1>5
<1>8. m \in Message
  BY <1>1, <1>3, <1>4, <1>6, <1>7 DEF Message
<1>9. m.announced = m.size + Excess(m.kind)
  BY <1>1, <1>4 DEF Excess
<1>10. Proper(m)
  BY <1>4, <1>5, <1>8, <1>9, Zenon DEF Proper
<1> QED
  BY <1>10 DEF m


LEMMA ReadPieceKeeps == CInv /\ IInv' /\ ReadPiece => CInv'
<1> SUFFICES ASSUME CInv, IInv', ReadPiece
             PROVE  CInv'
  OBVIOUS
<1> DEFINE W == WholeFrames(consumed, PieceEnd)
<1>1. /\ todo = {} /\ handled' = handled \cup W /\ todo' = W
      /\ UNCHANGED <<frames, loggedIn, said, written, expects>>
  BY DEF ReadPiece, read_cb, Silence
<1>2. ASSUME NEW g \in W
      PROVE  consumed <= g.start /\ g.start \in Nat /\ g.end \in Nat /\ g.start < g.end
  BY DEF WholeFrames, CInv, IInv, TypeOK, Contiguous, Frame
<1>3. W \cap handled = {}
  BY <1>2, HandledFrames DEF CInv
<1> HIDE DEF W
<1>4. Done' = Done /\ Done = handled
  BY <1>1, <1>3 DEF Done
<1>5. InTurn'
  <2>1. \A f \in W, g \in handled : Earlier(g, f)
    BY <1>2, HandledFrames DEF CInv, Earlier
  <2> QED
    BY <1>1, <1>4, <2>1 DEF InTurn, Earlier
<1>6. LoginSeen'
  BY <1>1, <1>4 DEF CInv, LoginSeen, Kind
<1>7. AnsweredExactly'
  <2>1. ASSUME NEW f \in handled, NEW g \in W
        PROVE  ~Earlier(g, f)
    BY <1>2, HandledFrames DEF CInv, Earlier
  <2>2. \A f \in handled : AsksForAnswer(f)' <=> AsksForAnswer(f)
    BY <1>1, <2>1 DEF AsksForAnswer, Kind, Earlier
  <2>3. Answers' = Answers
    BY <1>1 DEF Answers
  <2>4. /\ {said[i].of : i \in Answers} = {f \in Done : AsksForAnswer(f)}
        /\ \A i, j \in Answers : i < j => Earlier(said[i].of, said[j].of)
    BY DEF CInv, AnsweredExactly, Done
  <2>5. {f \in Done' : AsksForAnswer(f)'} = {f \in Done : AsksForAnswer(f)}
    BY <1>4, <2>2
  <2> QED
    BY <1>1, <2>3, <2>4, <2>5 DEF AnsweredExactly, Earlier, Done
<1>8. DownInv'
  BY <1>1 DEF CInv, DownInv, DownType, Adjacent, Looking, LastUnderstood, UnderstoodExactly
<1> QED
  BY <1>5, <1>6, <1>7, <1>8 DEF CInv

LEMMA HandlingKeeps ==
    ASSUME CInv, IInv', NEW f \in todo, handle_one_msg(f)
    PROVE  CInv'
<1>1. /\ todo' = todo \ {f} /\ \A g \in todo \ {f} : Earlier(f, g)
      /\ UNCHANGED vars /\ handled' = handled
  BY DEF handle_one_msg, vars
<1>2. todo \subseteq handled /\ \A g \in Done : Earlier(g, f)
  BY DEF CInv, InTurn
<1>3. Done' = Done \cup {f}
  BY <1>1, <1>2 DEF Done
<1>4. InTurn'
  BY <1>1, <1>2, <1>3 DEF CInv, InTurn, Earlier
<1>5. LoginSeen'
  <2>1. loggedIn' = (loggedIn \/ Kind(f) = "LOGIN")
    BY Zenon DEF handle_one_msg
  <2>2. loggedIn' \in BOOLEAN
    BY <2>1, Zenon
  <2>3. loggedIn' <=> \E g \in Done' : Kind(g) = "LOGIN"
    BY <1>3, <2>1, Zenon DEF CInv, LoginSeen
  <2> QED
    BY <2>2, <2>3, Zenon DEF LoginSeen, Kind
<1>6. loggedIn <=> \E g \in handled : Earlier(g, f) /\ Kind(g) = "LOGIN"
  <2>1. ~Earlier(f, f) /\ \A g \in todo \ {f} : ~Earlier(g, f)
    BY <1>1, <1>2, HandledFrames DEF CInv, Earlier
  <2>2. \A g \in handled : Earlier(g, f) <=> g \in Done
    BY <1>2, <2>1 DEF Done
  <2>3. Done \subseteq handled
    BY DEF Done
  <2> QED
    BY <2>2, <2>3 DEF CInv, LoginSeen
<1>7. AsksForAnswer(f) <=> Kind(f) \in Answerable /\ MayAnswer(Kind(f))
  BY <1>6 DEF AsksForAnswer, MayAnswer
<1>8. CASE AsksForAnswer(f)
  <2> DEFINE m == Response(Kind(f), f)
  <2>1. send_msg(m) /\ Kind(f) \in Answerable
    BY <1>7, <1>8 DEF handle_one_msg
  <2>2. m.kind = Kind(f) /\ m.of = f
    BY DEF Response
  <2>3. Proper(m)
    BY <1>2, <2>1, HandledFrames, ResponsesAreProper DEF CInv
  <2> HIDE DEF m
  <2>4. DownInv'
    BY <2>1, <2>3, SendKeepsDown DEF CInv
  <2>5. AnsweredExactly'
    BY <1>1, <1>8, <2>1, <2>2, <2>3, ResponsesAreAnswers DEF Answerable
  <2> QED
    BY <1>4, <1>5, <2>4, <2>5 DEF CInv
<1>9. CASE ~AsksForAnswer(f)
  <2>1. UNCHANGED <<said, written, expects>>
    BY <1>7, <1>9 DEF handle_one_msg, Silence
  <2>2. DownInv'
    BY <2>1 DEF CInv, DownInv, DownType, Adjacent, Looking, LastUnderstood, UnderstoodExactly
  <2>3. \A g \in handled : AsksForAnswer(g)' <=> AsksForAnswer(g)
    BY <1>1 DEF AsksForAnswer
  <2>4. {g \in Done' : AsksForAnswer(g)'} = {g \in Done : AsksForAnswer(g)}
    BY <1>2, <1>3, <1>9, <2>3 DEF Done
  <2>5. Answers' = Answers
    BY <2>1 DEF Answers
  <2>6. /\ {said[i].of : i \in Answers} = {g \in Done : AsksForAnswer(g)}
        /\ \A i, j \in Answers : i < j => Earlier(said[i].of, said[j].of)
    BY DEF CInv, AnsweredExactly, Done
  <2>7. AnsweredExactly'
    BY <2>1, <2>4, <2>5, <2>6 DEF AnsweredExactly, Earlier, Done
  <2> QED
    BY <1>4, <1>5, <2>2, <2>7 DEF CInv
<1> QED
  BY <1>8, <1>9

(* Steps of the device and of TCP, and stuttering.                         *)
LEMMA SilenceKeeps ==
    ASSUME CInv, IInv', UNCHANGED <<handled, downstream>>
    PROVE  CInv'
<1>1. UNCHANGED <<handled, todo, loggedIn, said, written, expects>>
  BY DEF downstream
<1>2. DownInv'
  BY <1>1 DEF CInv, DownInv, DownType, Adjacent, Looking, LastUnderstood, UnderstoodExactly
<1>3. InTurn' /\ LoginSeen'
  BY <1>1 DEF CInv, InTurn, LoginSeen, Done, Earlier, Kind
<1>4. AnsweredExactly'
  BY <1>1 DEF CInv, AnsweredExactly, Answers, AsksForAnswer, Earlier, Kind
<1> QED
  BY <1>2, <1>3, <1>4 DEF CInv

LEMMA CInvStep == CInv /\ [ConversationNext]_<<vars, downstream>> => CInv'
<1> SUFFICES ASSUME CInv, [ConversationNext]_<<vars, downstream>>
             PROVE  CInv'
  OBVIOUS
<1>1. IInv'
  BY FramingStep, IInvStep DEF CInv
<1>2. CASE UNCHANGED <<vars, downstream>>
  BY <1>1, <1>2, SilenceKeeps DEF vars
<1>3. ASSUME NEW n \in Sizes, Send(n), UNCHANGED downstream
      PROVE  CInv'
  BY <1>1, <1>3, SilenceKeeps DEF Send
<1>4. ASSUME NEW n \in Segments, Receive(n), UNCHANGED downstream
      PROVE  CInv'
  BY <1>1, <1>4, SilenceKeeps DEF Receive
<1>5. CASE ReadPiece
  BY <1>1, <1>5, ReadPieceKeeps
<1>6. ASSUME NEW f \in todo, handle_one_msg(f)
      PROVE  CInv'
  BY <1>1, <1>6, HandlingKeeps
<1>7. ASSUME NEW n \in OperationSizes, app_sendRawData2TK115(n)
      PROVE  CInv'
  <2> DEFINE m == Operation(n)
  <2>1. send_msg(m) /\ UNCHANGED <<vars, todo, loggedIn>>
    BY <1>7 DEF app_sendRawData2TK115
  <2>2. m.kind = "OPERAT"
    BY DEF Operation
  <2>3. Proper(m)
    BY OperationsAreProper
  <2> HIDE DEF m
  <2>4. DownInv'
    BY <2>1, <2>3, SendKeepsDown DEF CInv
  <2>5. InTurn' /\ LoginSeen'
    BY <2>1 DEF CInv, InTurn, LoginSeen, Done, Earlier, Kind, vars
  <2>6. AnsweredExactly'
    BY <2>1, <2>2, <2>3, OperationsAreNoAnswers
  <2> QED
    BY <1>1, <2>4, <2>5, <2>6 DEF CInv
<1> QED
  BY <1>2, <1>3, <1>4, <1>5, <1>6, <1>7 DEF ConversationNext

THEOREM ConversationInductive == ConversationSpec => []CInv
  BY CInvInit, CInvStep, PTL DEF ConversationSpec


(* The device never waits for more than the end of one SMS response.       *)
THEOREM ConversationTypeCorrect == ConversationSpec => []ConversationTypeOK
<1>1. CInv => ConversationTypeOK
  BY DEF CInv, IInv, InTurn, LoginSeen, DownInv, DownType, ConversationTypeOK
<1> QED
  BY <1>1, ConversationInductive, PTL

(* Answering does not disturb framing: frames reach their handlers in a    *)
(* conversation exactly as in the stream alone.                            *)
THEOREM ConversationHandlesExactly == ConversationSpec => []HandledExactly
  BY ConversationIsFramed, FramesAreHandledExactly

(* Each frame that asks for an answer gets one, in turn, but for alarms    *)
(* and states that no login of the connection precedes.                    *)
THEOREM FramesAreAnsweredExactly == ConversationSpec => []AnsweredExactly
<1>1. CInv => AnsweredExactly
  BY DEF CInv
<1> QED
  BY <1>1, ConversationInductive, PTL

(* The device understands what does not begin within the 21 bytes that the *)
(* response to an SMS has announced and not sent.                          *)
THEOREM MessagesAreUnderstoodExactly == ConversationSpec => []UnderstoodExactly
<1>1. CInv => UnderstoodExactly
  BY DEF CInv, DownInv
<1> QED
  BY <1>1, ConversationInductive, PTL

(* Without operations the device is never lost for good: all responses     *)
(* have the size of a header, so the third behind an SMS response ends     *)
(* where the device looks again.                                           *)
THEOREM ResponsesAloneStayInStep ==
    ASSUME OperationSizes = {}
    PROVE  ConversationSpec =>
               [](expects \in {written + n * SizeOfHeader : n \in 0 .. 3})
<1> DEFINE InStep3 == expects \in {written + n * SizeOfHeader : n \in 0 .. 3}
           J == CInv /\ InStep3
<1>1. ConversationInit => J
  BY CInvInit DEF ConversationInit, CInv, DownInv, DownType, SizeOfHeader
<1>2. J /\ [ConversationNext]_<<vars, downstream>> => J'
  <2> SUFFICES ASSUME CInv, InStep3, [ConversationNext]_<<vars, downstream>>
               PROVE  InStep3'
    BY CInvStep
  <2>1. CASE UNCHANGED <<written, expects>>
    BY <2>1
  <2>2. ASSUME NEW k \in Answerable, NEW f, send_msg(Response(k, f))
        PROVE  InStep3'
    <3>1. written' = written + SizeOfHeader /\ written \in Nat
      BY <2>2 DEF send_msg, Response, CInv, DownInv, DownType
    <3>2. CASE expects = written
      <4>1. expects' = written + (LengthField(k) + HeaderLen)
        BY <2>2, <3>2 DEF send_msg, Response
      <4>2. LengthField(k) + HeaderLen \in {SizeOfHeader, 4 * SizeOfHeader}
        BY DEF LengthField, HeaderLen, SizeOfResponse, SizeOfHeader, Telphone
      <4> QED
        BY <3>1, <4>1, <4>2 DEF SizeOfHeader
    <3>3. CASE expects # written
      <4>1. expects' = expects
        BY <2>2, <3>3 DEF send_msg, Response
      <4> QED
        BY <3>1, <3>3, <4>1 DEF SizeOfHeader
    <3> QED
      BY <3>2, <3>3
  <2>3. ASSUME NEW f \in todo, handle_one_msg(f)
        PROVE  \/ UNCHANGED <<written, expects>>
               \/ Kind(f) \in Answerable /\ send_msg(Response(Kind(f), f))
    BY <2>3 DEF handle_one_msg, Silence
  <2>4. CASE UNCHANGED downstream
    BY <2>1, <2>4 DEF downstream
  <2>5. CASE ReadPiece
    BY <2>1, <2>5 DEF ReadPiece, Silence
  <2> QED
    BY <2>1, <2>2, <2>3, <2>4, <2>5 DEF ConversationNext
<1>3. J => InStep3
  OBVIOUS
<1> QED
  BY <1>1, <1>2, <1>3, PTL DEF ConversationSpec


(* From end to end: a device whose segments hold whole frames that fit in  *)
(* buf has a response to every login, ping and SMS that was consumed, as   *)
(* soon as the piece it was in has been gone through.                      *)
THEOREM WholeSegmentsAreAnswered ==
    ConversationSpec =>
        [](whole /\ todo = {} =>
               \A f \in frames :
                   f.end <= consumed /\ Kind(f) \in {"LOGIN", "PING", "SMS"} =>
                       \E i \in Answers : said[i].of = f)
<1>1. WholeSegmentsAreHandled /\ CInv =>
          (whole /\ todo = {} =>
               \A f \in frames :
                   f.end <= consumed /\ Kind(f) \in {"LOGIN", "PING", "SMS"} =>
                       \E i \in Answers : said[i].of = f)
  <2> SUFFICES ASSUME WholeSegmentsAreHandled, CInv, whole, todo = {},
                      NEW f \in frames, f.end <= consumed,
                      Kind(f) \in {"LOGIN", "PING", "SMS"}
               PROVE  \E i \in Answers : said[i].of = f
    OBVIOUS
  <2>1. f \in handled \ todo
    BY DEF WholeSegmentsAreHandled
  <2>2. AsksForAnswer(f)
    BY DEF AsksForAnswer, Answerable
  <2> QED
    BY <2>1, <2>2 DEF CInv, AnsweredExactly
<1> QED
  BY <1>1, ConversationIsFramed, WholeSegmentsLoseNothing, ConversationInductive, PTL

(* Only SMS responses do harm: before the first of them everything is      *)
(* understood, and the device looks for a header where the server writes.  *)
THEOREM InStepBeforeSms ==
    ConversationSpec =>
        []((\A i \in DOMAIN said : said[i].kind # "SMS") =>
               /\ expects = written
               /\ \A i \in DOMAIN said : said[i].understood)
<1>1. CInv => ((\A i \in DOMAIN said : said[i].kind # "SMS") =>
                   /\ expects = written
                   /\ \A i \in DOMAIN said : said[i].understood)
  <2> SUFFICES ASSUME CInv, \A i \in DOMAIN said : said[i].kind # "SMS"
               PROVE  /\ expects = written
                      /\ \A i \in DOMAIN said : said[i].understood
    OBVIOUS
  <2>1. Len(said) \in Nat /\ DOMAIN said = 1 .. Len(said)
    BY LenProperties DEF CInv, DownInv, DownType
  <2>2. \A i \in DOMAIN said : said[i].understood
    <3> SUFFICES ASSUME NEW i \in DOMAIN said
                 PROVE  said[i].understood
      OBVIOUS
    <3>1. \A j \in 1 .. i - 1 : said[j].kind # "SMS"
      BY <2>1
    <3> QED
      BY <3>1 DEF CInv, DownInv, UnderstoodExactly
  <2>3. CASE Len(said) = 0
    BY <2>1, <2>3 DEF CInv, DownInv, Adjacent, Looking
  <2>4. CASE Len(said) # 0
    <3>1. PICK l \in 1 .. Len(said) : LastUnderstood(l)
      BY <2>4 DEF CInv, DownInv, Looking
    <3>2. l = Len(said)
      <4>1. Len(said) \in l + 1 .. Len(said) => FALSE
        BY <2>1, <2>2, <2>4, <3>1 DEF LastUnderstood
      <4> DEFINE n == Len(said)
      <4>2. n \in Nat /\ n \notin l + 1 .. n /\ l \in 1 .. n
        BY <2>1, <4>1
      <4> HIDE DEF n
      <4>3. l = n
        BY <4>2, SMTT(30)
      <4> QED
        BY <4>3 DEF n
    <3>3. /\ expects = said[l].at + said[l].announced
          /\ said[l].announced = said[l].size + Excess(said[l].kind)
          /\ said[l].at + said[l].size = written
      BY <2>1, <3>1, <3>2 DEF CInv, DownInv, Adjacent, LastUnderstood
    <3>4. Excess(said[l].kind) = 0
      BY <2>1 DEF Excess
    <3>5. said[l] \in Message
      BY <2>1, ElementOfSeq DEF CInv, DownInv, DownType
    <3> QED
      BY <2>2, <3>3, <3>4, <3>5 DEF Message
  <2> QED
    BY <2>2, <2>3, <2>4
<1> QED
  BY <1>1, ConversationInductive, PTL

=============================================================================

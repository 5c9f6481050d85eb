----------------------------- MODULE WireProofs -----------------------------
(***************************************************************************)
(* Proofs about Wire for shorts of every width, every command code and     *)
(* every sequence number: how the two share a token and come back from it. *)
(***************************************************************************)
EXTENDS Wire, TLAPS

(* A quotient and a remainder are told apart again by division.            *)
LEMMA DivMod ==
    ASSUME NEW w \in Nat \ {0}, NEW q \in Int, NEW r \in 0 .. w - 1
    PROVE  (q * w + r) \div w = q /\ (q * w + r) % w = r
  BY SMTT(30)

(* Products the solver cannot expand by itself.                            *)
LEMMA Distributes ==
    ASSUME NEW w \in Int, NEW a \in Int, NEW b \in Int
    PROVE  (a + b) * w = a * w + b * w
  OBVIOUS

(* A sum of two digits and a carry, seen as a quotient and a remainder.    *)
LEMMA Regroup ==
    ASSUME NEW w \in Int, NEW x \in Int, NEW b \in Int, NEW i \in Int, NEW q \in Int,
           NEW s \in Int, x + b = i * w + q
    PROVE  x * w + (b * w + s) = i * (w * w) + (q * w + s)
<1>1. (x + b) * w = x * w + b * w
  BY Distributes
<1>2. i * w \in Int /\ (i * w + q) * w = (i * w) * w + q * w
  BY Distributes
<1>3. (i * w) * w = i * (w * w)
  BY SMTT(30)
<1>4. x * w \in Int /\ b * w \in Int /\ q * w \in Int /\ i * (w * w) \in Int
  OBVIOUS
<1> QED
  BY <1>1, <1>2, <1>3, <1>4

LEMMA WordsArePositive ==
    /\ Word \in Nat \ {0} /\ DWord \in Nat \ {0}
    /\ Half < Word
  <1>1. Word \in Nat \ {0} /\ Half < Word
    BY WordsHoldHeaders DEF Word
  <1>2. \A w \in Nat \ {0} : w * w \in Nat \ {0}
    OBVIOUS
  <1> QED
    BY <1>1, <1>2 DEF DWord

(* Two halves of a token fill a double word and no more.                   *)
LEMMA PairInRange ==
    ASSUME NEW c \in 0 .. Word - 1, NEW s \in 0 .. Word - 1
    PROVE  c * Word + s \in 0 .. DWord - 1
<1>1. \A w \in Nat \ {0} : \A a \in 0 .. w - 1, b \in 0 .. w - 1 :
          a * w + b \in 0 .. w * w - 1
  <2> SUFFICES ASSUME NEW w \in Nat \ {0}, NEW a \in 0 .. w - 1, NEW b \in 0 .. w - 1
               PROVE  a * w + b \in 0 .. w * w - 1
    OBVIOUS
  <2>1. a * w >= 0 /\ a * w \in Int
    BY SMTT(30)
  <2>2. (w - 1 - a) * w >= 0
    BY SMTT(30)
  <2>3. (w - 1 - a) * w = w * w - w - a * w
    BY SMTT(30)
  <2> QED
    BY <2>1, <2>2, <2>3
<1> QED
  BY <1>1, WordsArePositive DEF DWord

(* The command code a token holds: one less, modulo a word, when the sign  *)
(* of the sequence number borrows from it.                                 *)
Carried(c, s) == IF s < Half THEN c ELSE (c + Word - 1) % Word

LEMMA CarriedIsWord ==
    ASSUME NEW c \in 0 .. Word - 1, NEW s \in 0 .. Word - 1
    PROVE  Carried(c, s) \in 0 .. Word - 1
  BY WordsArePositive DEF Carried

LEMMA TokenOfPair ==
    ASSUME NEW c \in 0 .. Word - 1, NEW s \in 0 .. Word - 1
    PROVE  Token(c, s) = Carried(c, s) * Word + s
<1> DEFINE p == Carried(c, s) * Word + s
<1>0. Word \in Nat \ {0} /\ DWord \in Nat \ {0} /\ DWord = Word * Word
  BY WordsArePositive DEF DWord
<1>1. PICK k \in Int : Short(c) * Word + SeqAsStored(s) = k * DWord + p
  <2> DEFINE borrow == IF s < Half THEN 0 ELSE -1
  <2>1. PICK j \in Int : Short(c) + borrow = j * Word + Carried(c, s)
    <3>1. CASE s < Half
      <4>1. Short(c) = 0 * Word + c \/ Short(c) = (-1) * Word + c
        BY <1>0 DEF Short
      <4>2. Short(c) + 0 = Short(c) /\ Carried(c, s) = c
        BY <3>1, <1>0, WordsHoldHeaders DEF Carried, Short
      <4> QED
        BY <3>1, <4>1, <4>2
    <3>2. CASE ~(s < Half) /\ c = 0
      <4>1. (0 + Word - 1) % Word = Word - 1
        BY <1>0, DivMod
      <4>2. Short(c) = 0
        BY <3>2, <1>0, WordsHoldHeaders DEF Short
      <4>3. Short(c) + (-1) = (-1) * Word + (Word - 1)
        BY <4>2, <1>0
      <4> QED
        BY <3>2, <4>1, <4>3 DEF Carried
    <3>3. CASE ~(s < Half) /\ c # 0
      <4>1. (1 * Word + (c - 1)) % Word = c - 1
        BY <1>0, <3>3, DivMod
      <4>2. c + Word - 1 = 1 * Word + (c - 1)
        BY <1>0
      <4>3. Carried(c, s) = c - 1
        BY <3>3, <4>1, <4>2 DEF Carried
      <4>4. Short(c) + (-1) = 0 * Word + (c - 1) \/ Short(c) + (-1) = (-1) * Word + (c - 1)
        BY <1>0 DEF Short
      <4> QED
        BY <3>3, <4>3, <4>4
    <3> QED
      BY <3>1, <3>2, <3>3
  <2>2. Carried(c, s) \in Int /\ Short(c) \in Int
    BY CarriedIsWord, <1>0, WordsHoldHeaders DEF Short
  <2>3. SeqAsStored(s) = borrow * Word + s
    BY <1>0, WordsHoldHeaders DEF SeqAsStored, Short
  <2>5. Short(c) * Word + SeqAsStored(s) = j * (Word * Word) + p
    <3>1. borrow \in Int /\ Word \in Int /\ s \in Int
      BY <1>0
    <3> HIDE DEF borrow
    <3>2. \A x \in Int, b \in Int, i \in Int, q \in Int : x + b = i * Word + q =>
              x * Word + (b * Word + s) = i * (Word * Word) + (q * Word + s)
      <4> SUFFICES ASSUME NEW x \in Int, NEW b \in Int, NEW i \in Int, NEW q \in Int,
                          x + b = i * Word + q
                   PROVE  x * Word + (b * Word + s) = i * (Word * Word) + (q * Word + s)
        OBVIOUS
      <4> QED
        BY <3>1, Regroup
    <3>3. Short(c) * Word + (borrow * Word + s) = j * (Word * Word) + p
      BY <2>1, <2>2, <3>1, <3>2
    <3> QED
      BY <2>3, <3>3, Zenon
  <2> QED
    BY <2>5, <1>0
<1>2. p \in 0 .. DWord - 1
  BY CarriedIsWord, PairInRange
<1>3. (k * DWord + p) % DWord = p
  BY <1>0, <1>2, DivMod
<1> QED
  BY <1>1, <1>3 DEF Token

(* What mc_operator takes out of a token is what went into it, up to that  *)
(* borrow.                                                                 *)
LEMMA TokenComesBack ==
    ASSUME NEW c \in 0 .. Word - 1, NEW s \in 0 .. Word - 1
    PROVE  /\ CmdOfToken(Token(c, s)) = Carried(c, s)
           /\ SeqOfToken(Token(c, s)) = s
           /\ Token(c, s) \in 0 .. DWord - 1
<1>1. Carried(c, s) \in 0 .. Word - 1 /\ Token(c, s) = Carried(c, s) * Word + s
  BY CarriedIsWord, TokenOfPair
<1>2. /\ (Carried(c, s) * Word + s) \div Word = Carried(c, s)
      /\ (Carried(c, s) * Word + s) % Word = s
  <2>1. Carried(c, s) \in Int /\ Word \in Nat \ {0}
    BY <1>1, WordsArePositive
  <2> QED
    BY <2>1, DivMod, Zenon
<1>3. Carried(c, s) * Word + s \in 0 .. DWord - 1
  BY <1>1, PairInRange
<1> QED
  BY <1>1, <1>2, <1>3 DEF CmdOfToken, SeqOfToken

-----------------------------------------------------------------------------
(***************************************************************************)
(* The exchange.  The token is that of the command while it travels, and   *)
(* the answer is what was in it; the length of an operation is that of its *)
(* size, which has a header and a token in it at least.  The answer of the *)
(* device is short enough for its length to say its size.                  *)
(***************************************************************************)
WInv ==
    /\ TypeOK
    /\ at \in {"device", "back"} => frame.token = Token(cmd, seq)
    /\ at = "device" => /\ frame.size >= SizeOfOperator
                        /\ frame.length = HeaderLength(frame.size)
    /\ at \in {"back", "done"} => frame.length = frame.size - HeaderLen
    /\ at = "done" => /\ answer.cmd = Carried(cmd, seq) /\ answer.seq = seq
                      /\ answer.data = AnswerData(frame.length)

LEMMA WInvInit == Init => WInv
  BY WordsArePositive DEF Init, WInv, TypeOK, Nothing, NoAnswer

LEMMA LengthsAreWords ==
    ASSUME NEW n \in Int
    PROVE  HeaderLength(n) \in 0 .. Word - 1
  BY WordsArePositive DEF HeaderLength, HeaderLen

(* 16 bits hold the length of what is shorter than a word.                 *)
LEMMA LengthTellsSize ==
    ASSUME NEW n \in HeaderLen .. Word + HeaderLen - 1
    PROVE  HeaderLength(n) = n - HeaderLen
<1>1. n - HeaderLen \in 0 .. Word - 1
  BY WordsArePositive DEF HeaderLen
<1>2. (0 * Word + (n - HeaderLen)) % Word = n - HeaderLen
  BY <1>1, WordsArePositive, DivMod
<1>3. 0 * Word + (n - HeaderLen) = n - HeaderLen
  BY <1>1, WordsArePositive DEF HeaderLen
<1> QED
  BY <1>2, <1>3 DEF HeaderLength

LEMMA WInvStep == WInv /\ [Next]_vars => WInv'
<1> SUFFICES ASSUME WInv, [Next]_vars
             PROVE  WInv'
  OBVIOUS
<1>0. cmd \in 0 .. Word - 1 /\ seq \in 0 .. Word - 1
  BY CmdsAreWords, SeqsAreWords DEF WInv, TypeOK
<1>1. ASSUME NEW n \in Payloads, Forward(n)
      PROVE  WInv'
  <2> DEFINE length == AppLength(n) % Word
             size   == OperatorSize(CommandData(length))
  <2>1. n \in Nat /\ AppLength(n) \in Nat
    BY PayloadsAreNat DEF AppLength, SizeOfSeq
  <2>2. length = AppLength(n) /\ length >= 2
    <3>1. length + AppFixed = AppFixed + AppLength(n)
      BY <1>1 DEF Forward, LengthAccepted
    <3>2. length \in Int
      BY <2>1, WordsArePositive
    <3> QED
      BY <2>1, <3>1, <3>2 DEF AppLength, SizeOfSeq, AppFixed
  <2>3. size \in Nat /\ size >= SizeOfOperator
    BY <2>1, <2>2 DEF OperatorSize, CommandData, SizeOfOperator, SizeOfSeq
  <2>4. frame' = [token |-> Token(cmd, seq), length |-> HeaderLength(size), size |-> size]
    BY <1>1 DEF Forward
  <2>5. HeaderLength(size) \in 0 .. Word - 1 /\ Token(cmd, seq) \in 0 .. DWord - 1
    BY <1>0, <2>3, LengthsAreWords, TokenComesBack
  <2>6. at' = "device" /\ UNCHANGED <<cmd, seq, answer>>
    BY <1>1 DEF Forward
  <2> HIDE DEF length, size
  <2> QED
    BY <2>3, <2>4, <2>5, <2>6 DEF WInv, TypeOK
<1>2. ASSUME NEW n \in Payloads, DeviceAnswers(n)
      PROVE  WInv'
  <2>1. OperatorSize(n) \in Nat
    BY PayloadsAreNat DEF OperatorSize, SizeOfOperator
  <2>2. HeaderLength(OperatorSize(n)) \in 0 .. Word - 1
    BY <2>1, LengthsAreWords
  <2>3. HeaderLength(OperatorSize(n)) = OperatorSize(n) - HeaderLen
    <3>1. OperatorSize(n) \in HeaderLen .. Word + HeaderLen - 1
      BY <1>2, <2>1, PayloadsAreNat, WordsArePositive
      DEF DeviceAnswers, OperatorSize, SizeOfOperator, HeaderLen
    <3> QED
      BY <3>1, LengthTellsSize
  <2> QED
    BY <1>2, <2>1, <2>2, <2>3 DEF DeviceAnswers, WInv, TypeOK
<1>3. CASE Return
  <2>1. /\ CmdOfToken(frame.token) = Carried(cmd, seq)
        /\ SeqOfToken(frame.token) = seq
    BY <1>0, <1>3, TokenComesBack DEF Return, WInv
  <2>2. AnswerData(frame.length) \in Int
    BY WordsArePositive DEF WInv, TypeOK, AnswerData, SizeOfHeader, SizeOfOperator
  <2>3. Carried(cmd, seq) \in 0 .. Word - 1
    BY <1>0, CarriedIsWord
  <2> QED
    BY <1>0, <1>3, <2>1, <2>2, <2>3 DEF Return, WInv, TypeOK
<1>4. CASE UNCHANGED vars
  BY <1>4 DEF vars, WInv, TypeOK
<1> QED
  BY <1>1, <1>2, <1>3, <1>4 DEF Next

THEOREM ExchangeInductive == Spec => []WInv
  BY WInvInit, WInvStep, PTL DEF Spec

(* Whatever the width of a short, an application gets back the command     *)
(* code and the sequence number it sent when the latter is not negative.   *)
THEOREM TokensReturn == Spec => []TokenRoundTrip
<1>1. WInv => TokenRoundTrip
  BY DEF WInv, TokenRoundTrip, Carried
<1> QED
  BY <1>1, ExchangeInductive, PTL

(* When it is negative as a short, the command code comes back one less.   *)
THEOREM SignBorrows == Spec => []BorrowFromCmd
<1>1. WInv => BorrowFromCmd
  <2>1. WInv => seq \in Int
    BY SeqsAreWords, WordsArePositive DEF WInv, TypeOK
  <2> QED
    BY <2>1, WordsHoldHeaders DEF WInv, BorrowFromCmd, Carried
<1> QED
  BY <1>1, ExchangeInductive, PTL

(* The length in the header of an operation is the number of its bytes     *)
(* behind the length field, unless 16 bits cannot hold it.                 *)
THEOREM OperationsAreFramed == Spec => []OperationFramed
<1>1. WInv => OperationFramed
  <2> SUFFICES ASSUME WInv, at = "device", frame.size < Word + HeaderLen
               PROVE  frame.size = HeaderLen + frame.length
    BY DEF OperationFramed
  <2>1. frame.size \in HeaderLen .. Word + HeaderLen - 1
    BY WordsArePositive DEF WInv, TypeOK, SizeOfOperator, HeaderLen
  <2>2. frame.length = frame.size - HeaderLen
    BY <2>1, LengthTellsSize DEF WInv
  <2> QED
    BY <2>1, <2>2, WordsArePositive DEF HeaderLen
<1> QED
  BY <1>1, ExchangeInductive, PTL


(* Tokens are double words and lengths words, with borrow or without.      *)
THEOREM TypeCorrect == Spec => []TypeOK
<1>1. WInv => TypeOK
  BY DEF WInv
<1> QED
  BY <1>1, ExchangeInductive, PTL

(* Every answer reaches the application with two bytes more than the       *)
(* device sent: mc_operator takes the length field for the bytes behind    *)
(* the header, which ends two bytes after what the field does not count.   *)
THEOREM AnswersHaveTwoMore ==
    Spec => [](at = "done" => answer.data = frame.size - SizeOfOperator + 2)
<1>1. WInv => (at = "done" => answer.data = frame.size - SizeOfOperator + 2)
  BY WordsArePositive
  DEF WInv, TypeOK, AnswerData, SizeOfHeader, HeaderLen, SizeOfOperator
<1> QED
  BY <1>1, ExchangeInductive, PTL

=============================================================================

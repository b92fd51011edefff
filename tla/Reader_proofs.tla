--------------------------- MODULE Reader_proofs ----------------------------
(***************************************************************************)
(* read_until stays within its buffer and returns what was read, for every *)
(* input and every capacity it can begin with.  The invariant is that of   *)
(* its loop: what is in the buffer so far is the input since it began.     *)
(***************************************************************************)
EXTENDS Reader, TLAPS

Kept == /\ taken = start + i
        /\ \A k \in 0 .. i - 1 :
             buf[k] = input[start + k + 1] /\ ~ Stops(input[start + k + 1])

Reading == pc = "read" => i < n /\ Kept

IInv == TypeOK /\ Reading /\ StringIsInput

(* The input is a sequence.                                                *)
LEMMA LenIsNat == TypeOK => input \in Seq(Char) /\ Len(input) \in Nat
<1> SUFFICES ASSUME TypeOK PROVE input \in Seq(Char) /\ Len(input) \in Nat
  OBVIOUS
<1>1. input \in Inputs
  BY DEF TypeOK
<1>2. input \in Seq(Char)
  BY <1>1, InputsAssumption
<1>3. Len(input) \in Nat
  BY <1>2
<1> QED BY <1>2, <1>3

(* The numbers a state is made of.                                         *)
LEMMA Shape ==
  ASSUME TypeOK
  PROVE  /\ Len(input) \in Nat /\ taken \in Nat /\ taken <= Len(input)
         /\ from \in Nat /\ from <= taken /\ start \in Nat /\ start <= taken
         /\ n \in Nat /\ n > 0 /\ i \in Nat /\ DOMAIN buf = 0 .. n - 1
<1>1. Len(input) \in Nat
  BY LenIsNat
<1>2. /\ taken \in 0 .. Len(input) /\ from \in 0 .. taken /\ start \in 0 .. taken
      /\ n \in Nat \ {0} /\ i \in Nat /\ DOMAIN buf = 0 .. n - 1
  BY DEF TypeOK
<1> QED BY <1>1, <1>2

(* What the buffer is after a turn that keeps a character.                 *)
LEMMA BufferAfter ==
  ASSUME TypeOK, i < n, ReadChar
  PROVE  /\ n' \in Nat /\ n' > 0 /\ i' < n' /\ DOMAIN buf' = 0 .. n' - 1
         /\ buf'[i] = Upcoming
         /\ \A k \in 0 .. i - 1 : buf'[k] = buf[k]
<1>1. n \in Nat /\ n > 0 /\ i \in Nat /\ DOMAIN buf = 0 .. n - 1
  BY Shape
<1>2. i' = i + 1
  BY DEF ReadChar
<1>3. CASE i # n - 1 /\ buf' = [buf EXCEPT ![i] = Upcoming] /\ n' = n
  BY <1>1, <1>2, <1>3
<1>4. CASE i = n - 1 /\ n' = 2 * n /\ buf' = [Grown(2 * n) EXCEPT ![i] = Upcoming]
  <2>1. DOMAIN Grown(2 * n) = 0 .. 2 * n - 1
    BY DEF Grown
  <2>2. ASSUME NEW k \in 0 .. i - 1 PROVE Grown(2 * n)[k] = buf[k]
    <3>1. k \in 0 .. 2 * n - 1 /\ k < n
      BY <1>1, <1>4
    <3> QED BY <3>1 DEF Grown
  <2>3. DOMAIN buf' = 0 .. n' - 1
    BY <1>4, <2>1
  <2>4. buf'[i] = Upcoming
    <3>1. i \in 0 .. 2 * n - 1
      BY <1>1, <1>4
    <3> QED BY <1>4, <2>1, <3>1
  <2>5. ASSUME NEW k \in 0 .. i - 1 PROVE buf'[k] = buf[k]
    <3>1. k \in 0 .. 2 * n - 1 /\ k # i
      BY <1>1, <1>4
    <3> QED BY <1>4, <2>1, <2>2, <3>1
  <2> QED BY <1>1, <1>2, <1>4, <2>3, <2>4, <2>5
<1> QED BY <1>3, <1>4 DEF ReadChar

(* The loop's turn that keeps a character.                                 *)
LEMMA CharIsKept == ASSUME IInv, ReadChar PROVE IInv'
<1>1. TypeOK /\ pc = "read" /\ i < n /\ Kept
  BY DEF IInv, Reading, ReadChar
<1>2. /\ taken' = taken + 1 /\ i' = i + 1
      /\ input' = input /\ method' = method /\ from' = from /\ start' = start
      /\ pc' \in {"read", "out of memory"}
  BY <1>1 DEF ReadChar
<1>3. taken # Len(input) /\ ~ Stops(Upcoming) /\ Upcoming = input[taken + 1]
  BY DEF ReadChar, Ends, AtEnd, Upcoming
<1>shape. /\ Len(input) \in Nat /\ taken \in Nat /\ taken <= Len(input)
      /\ from \in Nat /\ from <= taken /\ start \in Nat /\ start <= taken
      /\ n \in Nat /\ n > 0 /\ i \in Nat
  BY <1>1, Shape
<1>buffer. /\ n' \in Nat /\ n' > 0 /\ i' < n' /\ DOMAIN buf' = 0 .. n' - 1
      /\ buf'[i] = Upcoming
      /\ \A k \in 0 .. i - 1 : buf'[k] = buf[k]
  BY <1>1, BufferAfter
<1>place. taken = start + i
  BY <1>1 DEF Kept
<1>4. TypeOK'
  <2>1. taken' \in 0 .. Len(input') /\ from' \in 0 .. taken' /\ start' \in 0 .. taken'
    <3>1. taken # Len(input) /\ taken' = taken + 1
      BY <1>2, <1>3
    <3>2. taken + 1 \in 0 .. Len(input) /\ from \in 0 .. taken + 1 /\ start \in 0 .. taken + 1
      BY <1>shape, <3>1
    <3> QED BY <1>2, <3>2
  <2>2. n' \in Nat \ {0} /\ i' \in Nat /\ DOMAIN buf' = 0 .. n' - 1
    <3>1. i' = i + 1
      BY <1>2
    <3>2. i' \in Nat
      BY <1>shape, <3>1
    <3>3. n' \in Nat \ {0} /\ DOMAIN buf' = 0 .. n' - 1
      BY <1>buffer
    <3> QED BY <3>2, <3>3
  <2>3. input' \in Inputs /\ method' \in Methods
    BY <1>1, <1>2 DEF TypeOK
  <2> QED BY <1>2, <2>1, <2>2, <2>3 DEF TypeOK
<1>5. Kept'
  <2>1. taken' = start' + i' /\ taken + 1 = start + i + 1
    <3>1. taken' = taken + 1 /\ i' = i + 1 /\ start' = start
      BY <1>2
    <3> QED BY <1>shape, <1>place, <3>1
  <2>2. ASSUME NEW k \in 0 .. i' - 1
        PROVE  buf'[k] = input[start + k + 1] /\ ~ Stops(input[start + k + 1])
    <3>1. CASE k = i
      <4>1. start + k + 1 = taken + 1
        BY <1>shape, <1>place, <3>1
      <4> QED BY <1>3, <1>buffer, <3>1, <4>1
    <3>2. CASE k # i
      <4>1. k \in 0 .. i - 1
        <5>1. i' = i + 1
          BY <1>2
        <5> QED BY <1>shape, <3>2, <5>1
      <4> QED BY <1>1, <1>buffer, <4>1 DEF Kept
    <3> QED BY <3>1, <3>2
  <2>3. \A c : Stops(c)' <=> Stops(c)
    BY <1>2 DEF Stops, Space
  <2> QED BY <1>2, <2>1, <2>2, <2>3 DEF Kept, Stops
<1>6. i' < n'
  BY <1>buffer
<1> QED BY <1>2, <1>4, <1>5, <1>6 DEF IInv, Reading, StringIsInput

(* The turn that writes the terminator.                                    *)
LEMMA EndIsWritten == ASSUME IInv, ReadEnd PROVE IInv'
<1>1. TypeOK /\ pc = "read" /\ i < n /\ Kept
  BY DEF IInv, Reading, ReadEnd
<1>2. /\ pc' = "word" /\ Ends /\ buf' = [buf EXCEPT ![i] = "nul"]
      /\ input' = input /\ taken' = taken /\ method' = method /\ from' = from
      /\ start' = start /\ n' = n /\ i' = i
  BY DEF ReadEnd
<1>3. /\ DOMAIN buf' = 0 .. n - 1 /\ buf'[i] = "nul"
      /\ \A k \in 0 .. i - 1 : buf'[k] = buf[k]
  BY <1>1, <1>2, Shape
<1>4. TypeOK'
  BY <1>1, <1>2, <1>3 DEF TypeOK
<1>5. Ends' /\ Kept'
  BY <1>1, <1>2, <1>3 DEF Ends, AtEnd, Upcoming, Kept, Stops
<1> QED BY <1>1, <1>2, <1>3, <1>4, <1>5 DEF IInv, Reading, StringIsInput, Kept

(* The other steps leave the loop alone.                                   *)
LEMMA OthersKeepIt ==
  ASSUME IInv, Call \/ Skip \/ Allocate \/ Finish \/ UNCHANGED vars
  PROVE  IInv'
<1>1. TypeOK
  BY DEF IInv
<1>2. CASE Call
  <2>1. /\ pc' \in {"skip", "allocate"} /\ method' \in Methods /\ from' = taken
        /\ UNCHANGED <<input, taken, start, n, i, buf>>
    BY <1>2 DEF Call
  <2>2. from' \in 0 .. taken'
    BY <1>1, <2>1, Shape
  <2>3. TypeOK'
    BY <1>1, <2>1, <2>2 DEF TypeOK
  <2> QED BY <2>1, <2>3 DEF IInv, Reading, StringIsInput
<1>3. CASE Skip
  <2>1. /\ pc' \in {"skip", "allocate"}
        /\ UNCHANGED <<input, method, from, start, n, i, buf>>
        /\ taken' = taken \/ (taken' = taken + 1 /\ Space(Upcoming))
    BY <1>3 DEF Skip
  <2>2. Space(Upcoming) => taken # Len(input)
    BY DEF Space, Upcoming, AtEnd
  <2>3. taken' \in 0 .. Len(input) /\ from \in 0 .. taken' /\ start \in 0 .. taken'
    BY <1>1, <2>1, <2>2, Shape
  <2>4. TypeOK'
    BY <1>1, <2>1, <2>3 DEF TypeOK
  <2> QED BY <2>1, <2>4 DEF IInv, Reading, StringIsInput
<1>4. CASE Allocate
  <2>1. /\ pc' \in {"read", "out of memory"} /\ start' = taken
        /\ n' = Capacity /\ i' = 0 /\ buf' = Fresh(Capacity)
        /\ UNCHANGED <<input, taken, method, from>>
    BY <1>4 DEF Allocate
  <2>2. DOMAIN buf' = 0 .. n' - 1
    BY <2>1 DEF Fresh
  <2>3. start' \in 0 .. taken' /\ n' \in Nat \ {0} /\ i' \in Nat /\ i' < n'
    <3>1. taken \in Nat
      BY <1>1, Shape
    <3>2. taken \in 0 .. taken /\ 0 < Capacity
      BY <3>1, CapacityAssumption
    <3> QED BY <2>1, <3>2, CapacityAssumption
  <2>4. TypeOK'
    BY <1>1, <2>1, <2>2, <2>3 DEF TypeOK
  <2>5. Kept'
    <3>1. taken \in Nat
      BY <1>1, Shape
    <3>2. taken = taken + 0 /\ 0 .. 0 - 1 = {}
      BY <3>1
    <3> QED BY <2>1, <3>2 DEF Kept
  <2> QED BY <2>1, <2>3, <2>4, <2>5 DEF IInv, Reading, StringIsInput
<1>5. CASE Finish
  <2>1. /\ pc' \in {"returned", "exited"}
        /\ UNCHANGED <<input, taken, method, from, start, n, i, buf>>
    BY <1>5 DEF Finish
  <2> QED BY <1>1, <2>1 DEF IInv, TypeOK, Reading, StringIsInput
<1>6. CASE UNCHANGED vars
  BY <1>6 DEF vars, IInv, TypeOK, Reading, Kept, StringIsInput, Stops, Ends,
              AtEnd, Upcoming
<1> QED BY <1>2, <1>3, <1>4, <1>5, <1>6

(* The invariant holds of every step.                                      *)
LEMMA Invariance == Spec => []IInv
<1>1. Init => IInv
  BY InputsAssumption, CapacityAssumption
     DEF Init, IInv, TypeOK, Reading, StringIsInput, Fresh
<1>2. IInv /\ [Next]_vars => IInv'
  BY CharIsKept, EndIsWritten, OthersKeepIt DEF Next, Turn
<1> QED BY <1>1, <1>2, PTL DEF Spec

(* The runtime's state keeps its shape: the buffer has as many places as   *)
(* the code takes it to have.                                              *)
THEOREM TypeCorrect == Spec => []TypeOK
<1>1. IInv => TypeOK
  BY DEF IInv
<1> QED BY Invariance, <1>1, PTL

(* read_until never writes behind its buffer, whatever capacity it begins  *)
(* with and however long the input is.                                     *)
THEOREM FitsCorrect == Spec => []BufferFits
<1>1. IInv => BufferFits
  BY DEF IInv, Reading, BufferFits
<1> QED BY Invariance, <1>1, PTL

(* The string it returns is exactly the input up to the character that     *)
(* ends it.                                                                *)
THEOREM StringCorrect == Spec => []StringIsInput
<1>1. IInv => StringIsInput
  BY DEF IInv
<1> QED BY Invariance, <1>1, PTL
=============================================================================

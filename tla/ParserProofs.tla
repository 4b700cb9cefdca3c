---------------------------- MODULE ParserProofs ----------------------------
(***************************************************************************)
(* The pointers of the parser stay within __instructionbuf, for every size *)
(* of the buffer, every limit and all input, well-formed or not; and what  *)
(* guac_parser_read hands to a handler are strings inside it.  When only   *)
(* instructions are written, they are handed on as they were written, and  *)
(* none is refused, given up or left lying without a reason.               *)
(*                                                                         *)
(* The second part rests on WellInv: the bytes ahead of the parser are     *)
(* those written from a certain place in the first instruction on, the     *)
(* state of the parser says which, and the elements hold what lies before  *)
(* it.  Its lemmas are about concatenations, the encoding of instructions, *)
(* and then the steps, one by one.                                         *)
(***************************************************************************)
EXTENDS Parser, SequenceTheorems, NaturalsInduction, WellFoundedInduction, TLAPS

\* The end of a string is a byte.
LEMMA NulByte == NUL \in Bytes
  BY DEF Bytes

LEMMA FunctionIsSeq == ASSUME NEW S, NEW n \in Nat, NEW f \in [1..n -> S] PROVE f \in Seq(S)
  OBVIOUS

LEMMA InitParserInv == Init => ParserInv
  <1> SUFFICES ASSUME Init PROVE ParserInv
    OBVIOUS
  <1> USE ParserAssumption
  <1>1. TypeOK
    BY DEF Init, TypeOK
  <1>2. BytesInv
    BY NulByte DEF Init, BytesInv
  <1>3. PhaseInv /\ SocketInv
    BY DEF Init, PhaseInv, SocketInv, InCall
  <1> QED BY <1>1, <1>2, <1>3 DEF ParserInv

-----------------------------------------------------------------------------
(* The writer, and the steps that leave buffer and pointers alone.         *)

LEMMA WriteStep ==
    ASSUME ParserInv, NEW item, item.bytes \in Seq(Bytes), Write(item)
    PROVE  ParserInv'
  <1> USE DEF Write, envvars, parser, pointers, history
  <1>1. TypeOK'
    BY ParserAssumption DEF ParserInv, TypeOK
  <1>2. BytesInv'
    BY DEF ParserInv, BytesInv
  <1>3. PhaseInv'
    BY DEF ParserInv, PhaseInv, InCall
  <1>4. SocketInv'
    BY DEF ParserInv, SocketInv, InCall, Parsed, Held, Ended
  <1> QED BY <1>1, <1>2, <1>3, <1>4 DEF ParserInv

LEMMA FailStep ==
    ASSUME ParserInv, Fail
    PROVE  ParserInv'
  <1> USE DEF Fail, envvars, pointers, history
  <1>1. TypeOK'
    BY ParserAssumption DEF ParserInv, TypeOK
  <1>2. BytesInv'
    BY DEF ParserInv, BytesInv
  <1>3. PhaseInv'
    BY DEF ParserInv, PhaseInv, InCall
  <1>4. SocketInv'
    BY DEF ParserInv, SocketInv, InCall
  <1> QED BY <1>1, <1>2, <1>3, <1>4 DEF ParserInv

-----------------------------------------------------------------------------
(* guac_parser_append.                                                     *)

LEMMA AppendBeginsStep ==
    ASSUME ParserInv, AppendBegins
    PROVE  ParserInv'
  <1> USE DEF AppendBegins, AtLimit, envvars, parser, pointers, history
  <1>1. TypeOK'
    BY ParserAssumption DEF ParserInv, TypeOK
  <1>2. BytesInv'
    BY DEF ParserInv, BytesInv
  <1>3. PhaseInv'
    BY ParserAssumption DEF ParserInv, PhaseInv, InCall, TypeOK, BytesInv
  <1>4. SocketInv'
    BY DEF ParserInv, SocketInv, InCall, Parsed, Held, Ended
  <1> QED BY <1>1, <1>2, <1>3, <1>4 DEF ParserInv

LEMMA ValueNat == ASSUME NEW d \in Digits PROVE Value(d) \in Nat
  BY DEF Digits, Value, DIGITS

LEMMA LengthDigitStep ==
    ASSUME ParserInv, LengthDigit
    PROVE  ParserInv'
  <1> USE DEF LengthDigit, envvars, pointers, history
  <1>1. TypeOK'
    <2>1. length' \in Nat
      BY ValueNat DEF ParserInv, TypeOK
    <2> QED BY <2>1, ParserAssumption DEF ParserInv, TypeOK
  <1>2. BytesInv'
    BY DEF ParserInv, BytesInv
  <1>3. PhaseInv'
    BY DEF ParserInv, PhaseInv, InCall
  <1>4. SocketInv'
    BY DEF ParserInv, SocketInv, InCall, Parsed, Held, Ended, TypeOK
  <1> QED BY <1>1, <1>2, <1>3, <1>4 DEF ParserInv

LEMMA LengthPeriodStep ==
    ASSUME ParserInv, LengthPeriod
    PROVE  ParserInv'
  <1> USE DEF LengthPeriod, envvars, pointers, history
  <1>1. TypeOK'
    BY ParserAssumption DEF ParserInv, TypeOK, BytesInv, PhaseInv
  <1>2. BytesInv'
    BY DEF ParserInv, BytesInv, TypeOK
  <1>3. PhaseInv'
    BY DEF ParserInv, PhaseInv, InCall
  <1>4. SocketInv'
    <2> SUFFICES ASSUME reader = "socket", NEW i \in 1..Len(elementv')
                 PROVE  Held(elementv[i])' /\ (i < Len(elementv') => Ended(elementv[i])')
      BY DEF ParserInv, SocketInv, InCall
    <2>1. /\ Len(elementv') = Len(elementv) + 1
          /\ elementv'[Len(elementv) + 1] = at + 1
          /\ \A j \in 1..Len(elementv) : elementv'[j] = elementv[j]
          /\ Len(elementv) \in Nat
      BY DEF ParserInv, BytesInv, TypeOK
    <2>2. Parsed = at /\ Parsed' = at + 1 /\ at \in instr..end /\ instr \in Int /\ end \in Int
      BY ParserAssumption DEF Parsed, ParserInv, TypeOK
    <2>3. CASE i = Len(elementv) + 1
      BY <2>1, <2>2, <2>3 DEF Held
    <2>4. CASE i # Len(elementv) + 1
      <3>1. i \in 1..Len(elementv) /\ Held(elementv[i]) /\ Ended(elementv[i])
        BY <2>1, <2>4 DEF ParserInv, SocketInv, InCall, PhaseInv
      <3> QED BY <2>1, <2>2, <3>1 DEF Held, Ended
    <2> QED BY <2>3, <2>4
  <1> QED BY <1>1, <1>2, <1>3, <1>4 DEF ParserInv

LEMMA ContentCharacterStep ==
    ASSUME ParserInv, ContentCharacter
    PROVE  ParserInv'
  <1> USE DEF ContentCharacter, CharComplete, CharSize, envvars, pointers, history
  <1>1. TypeOK'
    BY ParserAssumption DEF ParserInv, TypeOK
  <1>2. BytesInv'
    BY DEF ParserInv, BytesInv
  <1>3. PhaseInv'
    BY DEF ParserInv, PhaseInv, InCall
  <1>4. SocketInv'
    BY DEF ParserInv, SocketInv, InCall, Parsed, Held, Ended, TypeOK
  <1> QED BY <1>1, <1>2, <1>3, <1>4 DEF ParserInv

\* The terminator becomes the end of the string of the last element.
LEMMA ContentTerminatorStep ==
    ASSUME ParserInv, ContentTerminator
    PROVE  ParserInv'
  <1> USE DEF ContentTerminator, envvars, pointers, history
  <1>0. at \in start..(end - 1) /\ at' = at + 1 /\ at' \in start..end /\ at \in Positions
    <2>1. at \in start..end /\ at < end /\ start \in 0..BufSize /\ end \in start..BufSize
          /\ at' = at + 1
      BY DEF ParserInv, TypeOK, CharComplete
    <2>2. BufSize \in Nat
      BY ParserAssumption
    <2> HIDE DEF ContentTerminator, envvars, pointers, history
    <2> QED BY <2>1, <2>2 DEF Positions
  <1>1. TypeOK'
    BY <1>0, ParserAssumption DEF ParserInv, TypeOK
  <1>2. BytesInv'
    BY NulByte DEF ParserInv, BytesInv
  <1>3. PhaseInv'
    BY DEF ParserInv, PhaseInv, InCall
  <1>4. SocketInv'
    <2> SUFFICES ASSUME reader = "socket", NEW i \in 1..Len(elementv)
                 PROVE  Held(elementv[i])' /\ Ended(elementv[i])'
      BY DEF ParserInv, SocketInv, InCall
    <2>1. Held(elementv[i]) /\ (i < Len(elementv) => Ended(elementv[i]))
      BY DEF ParserInv, SocketInv, InCall, PhaseInv
    <2>2. Parsed = at /\ Parsed' = at + 1
      BY DEF Parsed
    <2>3. buf'[at] = NUL /\ \A e \in Positions : buf[e] = NUL => buf'[e] = NUL
      BY <1>0 DEF ParserInv, BytesInv
    <2>4. /\ BufSize \in Nat /\ start \in Int /\ end \in Int /\ end <= BufSize
          /\ instr \in 0..start /\ instr' = instr /\ elementv' = elementv /\ elementv[i] \in Int
      <3>1. elementv[i] \in Int
        <4> HIDE DEF ContentTerminator
        <4> QED BY DEF ParserInv, BytesInv
      <3>2. instr' = instr /\ elementv' = elementv
        OBVIOUS
      <3> HIDE DEF ContentTerminator, envvars, pointers, history
      <3> QED BY <3>1, <3>2, ParserAssumption DEF ParserInv, TypeOK
    <2> HIDE DEF ContentTerminator, envvars, pointers, history
    <2>5. Held(elementv[i])'
      BY <1>0, <2>1, <2>2, <2>4 DEF Held
    <2>6. Ended(elementv[i])'
      BY <1>0, <2>1, <2>2, <2>3, <2>4 DEF Held, Ended
    <2> QED BY <2>5, <2>6
  <1> QED BY <1>1, <1>2, <1>3, <1>4 DEF ParserInv

LEMMA ContentErrorStep ==
    ASSUME ParserInv, ContentError
    PROVE  ParserInv'
  <1> USE DEF ContentError, envvars, pointers, history
  <1>1. TypeOK'
    BY ParserAssumption DEF ParserInv, TypeOK
  <1>2. BytesInv'
    BY NulByte DEF ParserInv, BytesInv
  <1>3. PhaseInv'
    BY DEF ParserInv, PhaseInv, InCall
  <1>4. SocketInv'
    BY DEF ParserInv, SocketInv, InCall
  <1> QED BY <1>1, <1>2, <1>3, <1>4 DEF ParserInv

LEMMA IncompleteStep ==
    ASSUME ParserInv, LengthIncomplete \/ ContentIncomplete
    PROVE  ParserInv'
  <1> USE DEF LengthIncomplete, ContentIncomplete, envvars, parser, pointers, history
  <1>1. TypeOK'
    BY ParserAssumption DEF ParserInv, TypeOK
  <1>2. BytesInv'
    BY DEF ParserInv, BytesInv
  <1>3. PhaseInv'
    BY DEF ParserInv, PhaseInv, InCall
  <1>4. SocketInv'
    BY DEF ParserInv, SocketInv, InCall, Parsed, Held, Ended
  <1> QED BY <1>1, <1>2, <1>3, <1>4 DEF ParserInv

LEMMA ParseStep == ASSUME ParserInv, Parse PROVE ParserInv'
  <1>1. \/ Fail \/ AppendBegins \/ LengthDigit \/ LengthPeriod \/ ContentCharacter
        \/ ContentTerminator \/ ContentError \/ LengthIncomplete \/ ContentIncomplete
    BY DEF Parse, TooManyElements, LengthError
  <1> QED BY <1>1, FailStep, AppendBeginsStep, LengthDigitStep, LengthPeriodStep,
             ContentCharacterStep, ContentTerminatorStep, ContentErrorStep, IncompleteStep

-----------------------------------------------------------------------------
(* The loops around it.                                                    *)

LEMMA AdvanceStep ==
    ASSUME ParserInv, Advance
    PROVE  ParserInv'
  <1> USE DEF Advance, envvars, parser, pointers, history
  <1>1. TypeOK'
    BY ParserAssumption DEF ParserInv, TypeOK
  <1>2. BytesInv'
    BY DEF ParserInv, BytesInv
  <1>3. PhaseInv'
    BY DEF ParserInv, PhaseInv, InCall
  <1>4. SocketInv'
    BY DEF ParserInv, SocketInv, InCall, Parsed, Held, Ended
  <1> QED BY <1>1, <1>2, <1>3, <1>4 DEF ParserInv

LEMMA StopStep ==
    ASSUME ParserInv, TooLong \/ SocketGivesUp \/ Overrun
    PROVE  ParserInv'
  <1> USE DEF TooLong, SocketGivesUp, Overrun, NeedsData, envvars, parser, pointers, history
  <1>1. TypeOK'
    BY ParserAssumption DEF ParserInv, TypeOK
  <1>2. BytesInv'
    BY DEF ParserInv, BytesInv
  <1>3. PhaseInv'
    BY DEF ParserInv, PhaseInv, InCall
  <1>4. SocketInv'
    BY DEF ParserInv, SocketInv, InCall
  <1> QED BY <1>1, <1>2, <1>3, <1>4 DEF ParserInv

LEMMA TopStep ==
    ASSUME ParserInv, SocketTop \/ RecordingTop
    PROVE  ParserInv'
  <1> USE DEF SocketTop, RecordingTop, envvars, parser, pointers, history
  <1>1. TypeOK'
    BY ParserAssumption DEF ParserInv, TypeOK
  <1>2. BytesInv'
    BY DEF ParserInv, BytesInv
  <1>3. PhaseInv'
    BY DEF ParserInv, PhaseInv, InCall, TypeOK
  <1>4. SocketInv'
    BY DEF ParserInv, SocketInv, InCall, Parsed, Held, Ended
  <1> QED BY <1>1, <1>2, <1>3, <1>4 DEF ParserInv

\* A call begins where the last one ended; that of guac_parser_read has no element yet.
LEMMA SocketCallStep ==
    ASSUME ParserInv, SocketCall
    PROVE  ParserInv'
  <1> USE DEF SocketCall, Call, Reset, envvars, parser, pointers, history
  <1>0. /\ state' \in {"LENGTH", "CONTENT", "COMPLETE", "ERROR"} /\ state' # "ERROR"
        /\ elementv' = elementv \/ elementv' = <<>>
    BY DEF ParserInv, PhaseInv, TypeOK
  <1>1. TypeOK'
    BY ParserAssumption DEF ParserInv, TypeOK, BytesInv
  <1>2. BytesInv'
    <2>1. elementv' \in Seq(Int)
      <3> HIDE DEF SocketCall, Reset, Call, envvars, parser, pointers, history
      <3>1. elementv \in Seq(Int)
        BY DEF ParserInv, BytesInv
      <3>2. <<>> \in Seq(Int)
        OBVIOUS
      <3> QED BY <1>0, <3>1, <3>2
    <2> QED BY <2>1 DEF ParserInv, BytesInv
  <1>3. PhaseInv'
    BY <1>0 DEF PhaseInv
  <1>4. SocketInv'
    BY DEF ParserInv, SocketInv, InCall
  <1> QED BY <1>1, <1>2, <1>3, <1>4 DEF ParserInv

\* It returns with all elements in the buffer.
LEMMA SocketReturnsStep ==
    ASSUME ParserInv, SocketReturns
    PROVE  ParserInv'
  <1> USE DEF SocketReturns, Deliver, envvars, parser, pointers, history
  <1>1. TypeOK'
    BY ParserAssumption DEF ParserInv, TypeOK, BytesInv
  <1>2. BytesInv'
    BY DEF ParserInv, BytesInv, TypeOK
  <1>3. PhaseInv'
    BY DEF ParserInv, PhaseInv, InCall
  <1>4. SocketInv'
    BY DEF ParserInv, SocketInv, InCall, Held, TypeOK, BytesInv, Parsed
  <1> QED BY <1>1, <1>2, <1>3, <1>4 DEF ParserInv

\* The bytes after the instruction go to the other parser before those still to be read.
LEMMA HandOverStep ==
    ASSUME ParserInv, HandOver
    PROVE  ParserInv'
  <1> USE DEF HandOver, Reset, envvars, parser, pointers, history
  <1>1. TypeOK'
    BY ParserAssumption DEF ParserInv, TypeOK
  <1>2. BytesInv'
    <2> DEFINE rest == [i \in 1..(saved[2] - saved[1]) |-> buf[saved[1] + i - 1]]
    <2>1. /\ saved[1] \in 0..BufSize /\ saved[2] \in saved[1]..BufSize
          /\ buf \in [Positions -> Bytes] /\ input \in Seq(Bytes) /\ data \in Seq(Bytes)
      BY DEF ParserInv, TypeOK, BytesInv
    <2>2. \A i \in 1..(saved[2] - saved[1]) : saved[1] + i - 1 \in Positions
      BY <2>1, ParserAssumption DEF Positions
    <2>3. saved[2] - saved[1] \in Nat
      BY <2>1, ParserAssumption
    <2>4. rest \in Seq(Bytes)
      <3> HIDE DEF HandOver
      <3>1. rest \in [1..(saved[2] - saved[1]) -> Bytes]
        BY <2>1, <2>2
      <3> HIDE DEF rest
      <3> QED BY <2>3, <3>1, FunctionIsSeq
    <2> HIDE DEF rest
    <2>5. input' = rest \o input
      BY DEF rest
    <2>6. input' \in Seq(Bytes)
      <3> HIDE DEF HandOver
      <3> QED BY <2>1, <2>4, <2>5
    <2> QED BY <2>1, <2>6, NulByte DEF BytesInv
  <1>3. PhaseInv'
    BY DEF ParserInv, PhaseInv, InCall
  <1>4. SocketInv'
    BY DEF ParserInv, SocketInv, InCall
  <1> QED BY <1>1, <1>2, <1>3, <1>4 DEF ParserInv

LEMMA ReadByteStep ==
    ASSUME ParserInv, ReadByte
    PROVE  ParserInv'
  <1> USE DEF ReadByte, Call, envvars, parser, pointers, history
  <1>0. \/ start' = saved[1] /\ end' = saved[2] /\ instr' = saved[1] /\ pc' = "top"
        \/ start' = start /\ end' = end /\ instr' = instr /\ pc' = pc
    OBVIOUS
  <1>1. TypeOK'
    <2>1. reader' = reader /\ sent' = sent /\ saved' = saved /\ at' = at /\ state' = state
            /\ elementv' = elementv /\ length' = length /\ pc = "idle"
      OBVIOUS
    <2> HIDE DEF ReadByte, Call
    <2> QED BY <1>0, <2>1, ParserAssumption DEF ParserInv, TypeOK
  <1>2. BytesInv'
    <2>1. input \in Seq(Bytes) /\ input # <<>> /\ data \in Seq(Bytes)
      BY DEF ParserInv, BytesInv
    <2>2. Head(input) \in Bytes /\ Tail(input) \in Seq(Bytes)
      <3> HIDE DEF ReadByte
      <3> QED BY <2>1, HeadTailProperties
    <2>3. Append(data, Head(input)) \in Seq(Bytes)
      <3> HIDE DEF ReadByte
      <3> QED BY <2>1, <2>2, AppendProperties
    <2> QED BY <2>2, <2>3 DEF ParserInv, BytesInv
  <1>3. PhaseInv'
    BY <1>0 DEF ParserInv, PhaseInv
  <1>4. SocketInv'
    BY DEF ParserInv, SocketInv
  <1> QED BY <1>1, <1>2, <1>3, <1>4 DEF ParserInv

LEMMA RecordingHandlesStep ==
    ASSUME ParserInv, RecordingHandles
    PROVE  ParserInv'
  <1> USE DEF RecordingHandles, Deliver, Reset, envvars, parser, pointers, history
  <1>1. TypeOK'
    BY ParserAssumption DEF ParserInv, TypeOK
  <1>2. BytesInv'
    BY DEF ParserInv, BytesInv
  <1>3. PhaseInv'
    BY DEF ParserInv, PhaseInv, InCall
  <1>4. SocketInv'
    BY DEF ParserInv, SocketInv
  <1> QED BY <1>1, <1>2, <1>3, <1>4 DEF ParserInv

-----------------------------------------------------------------------------
(* The shift of the buffer.                                                *)

\* Shifted by as much as lies before the instruction and filled up as far as there is
\* space, the buffer holds the pointers.
LEMMA RefilledBounds ==
    ASSUME ParserInv, NeedsData, NEW more \in Seq(Bytes), Len(more) <= Space, Refilled(more)
    PROVE  /\ start' \in 0..BufSize /\ end' \in start'..BufSize /\ instr' \in 0..start'
           /\ buf' \in [Positions -> Bytes]
           /\ elementv' \in Seq(Int) /\ Len(elementv') = Len(elementv)
  <1> DEFINE e == end - Offset
  <1>1. /\ start \in 0..BufSize /\ end \in start..BufSize /\ instr \in 0..start /\ BufSize \in Nat
        /\ buf \in [Positions -> Bytes] /\ elementv \in Seq(Int)
    BY ParserAssumption DEF ParserInv, TypeOK, BytesInv
  <1>2. Offset \in 0..instr
    BY <1>1 DEF Offset
  <1>3. Len(more) \in Nat /\ e + Len(more) <= BufSize
    BY <1>1, <1>2 DEF Space
  <1>4. start' = start - Offset /\ end' = e + Len(more) /\ instr' = instr - Offset
    BY DEF Refilled
  <1>5. start' \in 0..BufSize /\ end' \in start'..BufSize /\ instr' \in 0..start'
    BY <1>1, <1>2, <1>3, <1>4
  <1>6. buf' \in [Positions -> Bytes]
    <2>1. buf' = [i \in Positions |->
                  IF i < e THEN buf[i + Offset]
                  ELSE IF i < e + Len(more) THEN more[i - e + 1] ELSE buf[i]]
      BY DEF Refilled
    <2>2. ASSUME NEW i \in Positions
          PROVE  (IF i < e THEN buf[i + Offset]
                  ELSE IF i < e + Len(more) THEN more[i - e + 1] ELSE buf[i]) \in Bytes
      <3>1. CASE i < e
        <4>1. i + Offset \in Positions
          BY <1>1, <1>2, <3>1 DEF Positions
        <4> QED BY <1>1, <3>1, <4>1
      <3>2. CASE ~(i < e) /\ i < e + Len(more)
        <4>1. i - e + 1 \in 1..Len(more)
          BY <1>1, <1>2, <1>3, <3>2 DEF Positions
        <4> QED BY <3>2, <4>1
      <3>3. CASE ~(i < e) /\ ~(i < e + Len(more))
        BY <1>1, <3>3
      <3> QED BY <3>1, <3>2, <3>3
    <2> QED BY <2>1, <2>2
  <1>7. elementv' \in Seq(Int) /\ Len(elementv') = Len(elementv)
    <2>1. elementv' = [i \in 1..Len(elementv) |-> elementv[i] - Offset]
      BY <1>1 DEF Refilled
    <2>2. \A i \in 1..Len(elementv) : elementv[i] - Offset \in Int
      BY <1>1, <1>2
    <2> HIDE DEF e
    <2> QED BY <1>1, <2>1, <2>2
  <1> QED BY <1>5, <1>6, <1>7

\* The elements move with their bytes: as all lie behind the start of the instruction, none
\* leaves the buffer.
LEMMA RefilledHeld ==
    ASSUME ParserInv, NeedsData, NEW more \in Seq(Bytes), Refilled(more), reader = "socket",
           pc' = "top", state' = state, NEW i \in 1..Len(elementv)
    PROVE  /\ Held(elementv[i])'
           /\ i < Len(elementv) \/ state # "CONTENT" => Ended(elementv[i])'
  <1>1. /\ start \in 0..BufSize /\ end \in start..BufSize /\ instr \in 0..start /\ BufSize \in Nat
        /\ buf \in [Positions -> Bytes] /\ elementv \in Seq(Int) /\ elementv[i] \in Int
    BY ParserAssumption DEF ParserInv, TypeOK, BytesInv
  <1>2. Offset \in 0..instr
    BY <1>1 DEF Offset
  <1>3. /\ Held(elementv[i])
        /\ i < Len(elementv) \/ state # "CONTENT" => Ended(elementv[i])
    BY DEF ParserInv, SocketInv, InCall, NeedsData
  <1>4. /\ start' = start - Offset /\ instr' = instr - Offset
        /\ elementv'[i] = elementv[i] - Offset
    BY <1>1 DEF Refilled
  <1>5. Parsed = start /\ Parsed' = start - Offset
    BY <1>4 DEF Parsed, NeedsData
  <1>6. Held(elementv[i])'
    BY <1>1, <1>2, <1>3, <1>4, <1>5 DEF Held
  <1>7. ASSUME Ended(elementv[i]) PROVE Ended(elementv[i])'
    <2>1. PICK e \in elementv[i]..(start - 1) : buf[e] = NUL
      BY <1>5, <1>7 DEF Ended
    <2>2. e - Offset \in Positions /\ e - Offset < end - Offset /\ (e - Offset) + Offset = e
      BY <1>1, <1>2, <1>3, <1>5 DEF Held, Positions
    <2>3. buf'[e - Offset] = buf[(e - Offset) + Offset]
      BY <2>2 DEF Refilled
    <2>4. e - Offset \in elementv'[i]..(Parsed' - 1)
      BY <1>1, <1>2, <1>4, <1>5
    <2> QED BY <2>1, <2>2, <2>3, <2>4 DEF Ended
  <1> QED BY <1>3, <1>6, <1>7

\* The first n of some bytes, and the others.
LEMMA Pieces ==
    ASSUME NEW q \in Seq(Bytes), NEW n \in 0..Len(q)
    PROVE  /\ SubSeq(q, 1, n) \in Seq(Bytes) /\ Len(SubSeq(q, 1, n)) = n
           /\ SubSeq(q, n + 1, Len(q)) \in Seq(Bytes)
  <1>1. Len(q) \in Nat
    OBVIOUS
  <1> QED BY <1>1

LEMMA SpaceNat == ASSUME ParserInv PROVE Space \in Nat
  BY ParserAssumption DEF ParserInv, TypeOK, Space, Offset

LEMMA SocketRefillStep ==
    ASSUME ParserInv, SocketRefill
    PROVE  ParserInv'
  <1>1. PICK n \in 1..SmallerOf(Space, Len(input)) :
           Refilled(SubSeq(input, 1, n)) /\ input' = SubSeq(input, n + 1, Len(input))
    BY DEF SocketRefill
  <1>2. /\ NeedsData /\ reader = "socket" /\ pc' = "top" /\ reader' = reader /\ sent' = sent
        /\ data' = data /\ saved' = saved /\ state' = state /\ length' = length
           /\ clipped' = clipped
    BY DEF SocketRefill, envvars, history
  <1> DEFINE more == SubSeq(input, 1, n)
  <1>3. n \in 0..Len(input) /\ n <= Space
    <2>1. Len(input) \in Nat
      BY DEF ParserInv, BytesInv
    <2> QED BY <2>1, SpaceNat DEF SmallerOf
  <1>4. more \in Seq(Bytes) /\ Len(more) <= Space /\ input' \in Seq(Bytes)
    <2>1. input \in Seq(Bytes)
      BY DEF ParserInv, BytesInv
    <2> QED BY <1>1, <1>3, <2>1, Pieces
  <1> HIDE DEF more
  <1>5. Refilled(more)
    BY <1>1 DEF more
  <1>6. /\ start' \in 0..BufSize /\ end' \in start'..BufSize /\ instr' \in 0..start'
        /\ buf' \in [Positions -> Bytes]
        /\ elementv' \in Seq(Int) /\ Len(elementv') = Len(elementv)
    BY <1>2, <1>4, <1>5, RefilledBounds
  <1>7. TypeOK'
    BY <1>2, <1>6, ParserAssumption DEF ParserInv, TypeOK
  <1>8. BytesInv'
    BY <1>2, <1>4, <1>6 DEF ParserInv, BytesInv
  <1>9. PhaseInv'
    BY <1>2 DEF ParserInv, PhaseInv, NeedsData
  <1>10. SocketInv'
    <2>1. ASSUME NEW i \in 1..Len(elementv)
          PROVE  /\ Held(elementv[i])'
                 /\ i < Len(elementv) \/ state # "CONTENT" => Ended(elementv[i])'
      BY <1>2, <1>4, <1>5, RefilledHeld
    <2> QED BY <1>2, <1>6, <2>1 DEF ParserInv, SocketInv
  <1> QED BY <1>7, <1>8, <1>9, <1>10 DEF ParserInv

LEMMA RecordingRefillStep ==
    ASSUME ParserInv, RecordingRefill \/ RecordingReturns
    PROVE  ParserInv'
  <1>1. PICK n \in 0..Len(data) :
           n <= Space /\ Refilled(SubSeq(data, 1, n)) /\ data' \in Seq(Bytes)
    <2>1. data \in Seq(Bytes) /\ Len(data) \in Nat
      BY DEF ParserInv, BytesInv
    <2>2. CASE RecordingRefill
      <3> DEFINE n == SmallerOf(Space, Len(data))
      <3>1. n \in 0..Len(data) /\ n <= Space
        BY <2>1, SpaceNat DEF SmallerOf
      <3>2. Refilled(SubSeq(data, 1, n)) /\ data' = SubSeq(data, n + 1, Len(data))
        BY <2>2 DEF RecordingRefill
      <3> HIDE DEF n
      <3> QED BY <2>1, <3>1, <3>2, Pieces
    <2>3. CASE RecordingReturns
      <3>1. data = <<>> /\ data' = data /\ Refilled(<<>>)
        BY <2>3 DEF RecordingReturns
      <3>2. SubSeq(data, 1, 0) = <<>> /\ 0 \in 0..Len(data)
        BY <2>1, <3>1
      <3>3. Refilled(SubSeq(data, 1, 0))
        BY <3>1, <3>2 DEF Refilled
      <3> QED BY <2>1, <3>1, <3>2, <3>3, SpaceNat
    <2> QED BY <2>2, <2>3
  <1>2. /\ NeedsData /\ reader = "recording" /\ reader' = reader /\ sent' = sent
        /\ input' = input /\ state' = state /\ length' = length
        /\ pc' \in {"top", "idle"} /\ (saved' = saved \/ saved' = <<start', end'>>)
    BY DEF RecordingRefill, RecordingReturns, envvars
  <1> DEFINE more == SubSeq(data, 1, n)
  <1>3. more \in Seq(Bytes) /\ Len(more) <= Space
    <2>1. data \in Seq(Bytes)
      BY DEF ParserInv, BytesInv
    <2> QED BY <1>1, <2>1, Pieces
  <1>4. Refilled(more)
    BY <1>1
  <1> HIDE DEF more
  <1>5. /\ start' \in 0..BufSize /\ end' \in start'..BufSize /\ instr' \in 0..start'
        /\ buf' \in [Positions -> Bytes]
        /\ elementv' \in Seq(Int) /\ Len(elementv') = Len(elementv)
    BY <1>2, <1>3, <1>4, RefilledBounds
  <1>6. /\ saved'[1] \in 0..BufSize /\ saved'[2] \in saved'[1]..BufSize
        /\ saved' \in Int \X Int
    BY <1>2, <1>5, ParserAssumption DEF ParserInv, TypeOK, BytesInv
  <1>7. TypeOK'
    BY <1>2, <1>5, <1>6, ParserAssumption DEF ParserInv, TypeOK
  <1>8. BytesInv'
    BY <1>1, <1>2, <1>5, <1>6 DEF ParserInv, BytesInv
  <1>9. PhaseInv'
    BY <1>2 DEF ParserInv, PhaseInv, NeedsData
  <1>10. SocketInv'
    BY <1>2 DEF SocketInv
  <1> QED BY <1>7, <1>8, <1>9, <1>10 DEF ParserInv

-----------------------------------------------------------------------------
(* The theorems.                                                           *)

LEMMA NextParserInv == ParserInv /\ [Next]_vars => ParserInv'
  <1> SUFFICES ASSUME ParserInv, [Next]_vars PROVE ParserInv'
    OBVIOUS
  <1>1. ASSUME NEW ins \in Instructions, Write(Well(ins)) PROVE ParserInv'
    <2>1. Well(ins).bytes \in Seq(Bytes)
      BY BytesAssumption DEF Well
    <2> QED BY <1>1, <2>1, WriteStep
  <1>2. ASSUME NEW bytes \in Broken, Write(Ill(bytes)) PROVE ParserInv'
    <2>1. Ill(bytes).bytes \in Seq(Bytes)
      BY BytesAssumption DEF Ill
    <2> QED BY <1>2, <2>1, WriteStep
  <1>3. CASE Reader
    BY <1>3, ParseStep, AdvanceStep, StopStep, TopStep, SocketCallStep, SocketReturnsStep,
       SocketRefillStep, HandOverStep, ReadByteStep, RecordingHandlesStep, RecordingRefillStep
       DEF Reader
  <1>4. CASE UNCHANGED vars
    <2> USE <1>4 DEF vars, envvars, parser, pointers, history
    <2>1. TypeOK'
      BY DEF ParserInv, TypeOK
    <2>2. BytesInv'
      BY DEF ParserInv, BytesInv
    <2>3. PhaseInv'
      BY DEF ParserInv, PhaseInv
    <2>4. SocketInv'
      BY DEF ParserInv, SocketInv, InCall, Parsed, Held, Ended
    <2> QED BY <2>1, <2>2, <2>3, <2>4 DEF ParserInv
  <1> QED BY <1>1, <1>2, <1>3, <1>4 DEF Next

LEMMA ParserInvHolds == Spec => []ParserInv
  BY InitParserInv, NextParserInv, PTL DEF Spec

\* Whatever is read, in whatever pieces, the two readers and guac_parser_append stay
\* within __instructionbuf and __elementv.
THEOREM ParserTypeOK == Spec => []TypeOK
  <1>1. ParserInv => TypeOK
    BY DEF ParserInv
  <1> QED BY <1>1, ParserInvHolds, PTL

\* Every element that guac_parser_read returns is a string that begins and ends inside
\* the buffer.
THEOREM ElementsInside == Spec => []HandedInside
  <1>1. ParserInv => HandedInside
    <2> SUFFICES ASSUME ParserInv, reader = "socket", pc = "top", state = "COMPLETE",
                        NEW i \in 1..Len(elementv)
                 PROVE  elementv[i] \in Positions
                   /\ \E e \in elementv[i]..(BufSize - 1) : buf[e] = NUL
      BY DEF HandedInside
    <2>1. Held(elementv[i]) /\ Ended(elementv[i]) /\ Parsed = start
      BY DEF ParserInv, SocketInv, InCall, Parsed
    <2>2. start \in 0..BufSize /\ instr \in 0..start /\ BufSize \in Nat
      BY ParserAssumption DEF ParserInv, TypeOK
    <2> QED BY <2>1, <2>2 DEF Held, Ended, Positions
  <1> QED BY <1>1, ParserInvHolds, PTL

\* No element of an instruction read from a socket ever lies before the buffer.
THEOREM SocketNeverClipped == Spec => [](reader = "socket" => ~ clipped)
  <1>1. ParserInv => (reader = "socket" => ~ clipped)
    BY DEF ParserInv, SocketInv
  <1> QED BY <1>1, ParserInvHolds, PTL

-----------------------------------------------------------------------------
(* Concatenations of sequences.                                            *)

\* The elements of a concatenation.
LEMMA ConcatAt ==
    ASSUME NEW S, NEW a \in Seq(S), NEW b \in Seq(S)
    PROVE  /\ \A i \in 1..Len(a) : (a \o b)[i] = a[i]
           /\ \A i \in 1..Len(b) : (a \o b)[Len(a) + i] = b[i]
  BY ConcatProperties, LenProperties

LEMMA ConcatAssoc ==
    ASSUME NEW S, NEW x \in Seq(S), NEW g \in Seq(S), NEW c \in Seq(S), NEW y, NEW h,
           y = x \o g, h = g \o c
    PROVE  y \o c = x \o h
  OBVIOUS

\* A set of natural numbers that is not empty has a least element.
LEMMA LeastOf ==
    ASSUME NEW S, S \subseteq Nat, S # {}
    PROVE  \E x \in S : \A y \in S : x <= y
  <1>1. \E x \in S : \A y \in S : ~ (<<y, x>> \in OpToRel(<, Nat))
    BY NatLessThanWellFounded, WFMin
  <1>2. \E x \in S : \A y \in S : ~ (y < x)
    BY <1>1 DEF OpToRel
  <1> QED BY <1>2

\* What FlattenSeq computes for the first n of some sequences.
Flattened(r, s, n) == r = [i \in 1..n |-> IF i = 1 THEN s[i] ELSE r[i - 1] \o s[i]]

\* There is such a function, although it is given by a recursion.
LEMMA FlattenedExists == ASSUME NEW s, NEW n \in Nat PROVE \E r : Flattened(r, s, n)
  <1> DEFINE Bad == {k \in Nat : ~ \E r : Flattened(r, s, k)}
  <1>1. SUFFICES ASSUME Bad # {} PROVE FALSE
    OBVIOUS
  <1>2. PICK k \in Bad : \A y \in Bad : k <= y
    BY <1>1, LeastOf
  <1>3. k \in Nat /\ ~ \E r : Flattened(r, s, k)
    OBVIOUS
  <1>4. k # 0
    <2> SUFFICES ASSUME k = 0 PROVE \E r : Flattened(r, s, k)
      BY <1>3
    <2> DEFINE r == [i \in {} |-> s[i]]
    <2>1. Flattened(r, s, 0)
      BY DEF Flattened
    <2> QED BY <2>1
  <1>5. PICK r : Flattened(r, s, k - 1)
    <2>1. k - 1 \in Nat /\ k - 1 \notin Bad
      <3> HIDE DEF Bad
      <3> QED BY <1>2, <1>3, <1>4
    <2> QED BY <2>1
  <1> DEFINE t == [i \in 1..k |-> IF i = k THEN (IF i = 1 THEN s[i] ELSE r[k - 1] \o s[k]) ELSE r[i]]
  <1>6. ASSUME NEW i \in 1..k
        PROVE  t[i] = IF i = 1 THEN s[i] ELSE t[i - 1] \o s[i]
    <2>1. CASE i = k
      BY <1>3, <1>4, <2>1
    <2>2. CASE i # k
      <3>1. i \in 1..(k - 1) /\ t[i] = r[i] /\ (i # 1 => t[i - 1] = r[i - 1])
        BY <1>3, <2>2
      <3>2. r[i] = IF i = 1 THEN s[i] ELSE r[i - 1] \o s[i]
        BY <1>5, <3>1 DEF Flattened
      <3> QED BY <3>1, <3>2
    <2> QED BY <2>1, <2>2
  <1>7. t = [i \in 1..k |-> IF i = 1 THEN s[i] ELSE t[i - 1] \o s[i]]
    BY <1>6
  <1> HIDE DEF t
  <1> QED BY <1>3, <1>7 DEF Flattened

\* It is the only one, and depends on the sequences up to there alone.
LEMMA FlattenedUnique ==
    ASSUME NEW r, NEW s, NEW m \in Nat, Flattened(r, s, m),
           NEW q, NEW t, NEW n \in Nat, Flattened(q, t, n),
           m <= n, \A i \in 1..m : s[i] = t[i]
    PROVE  \A i \in 1..m : r[i] = q[i]
  <1> DEFINE Bad == {i \in 1..m : r[i] # q[i]}
  <1>1. SUFFICES ASSUME Bad # {} PROVE FALSE
    OBVIOUS
  <1>2. PICK i \in Bad : \A y \in Bad : i <= y
    <2>1. Bad \subseteq Nat
      OBVIOUS
    <2> HIDE DEF Bad
    <2> QED BY <1>1, <2>1, LeastOf
  <1>3. i \in 1..m /\ i \in 1..n /\ r[i] # q[i] /\ s[i] = t[i]
    OBVIOUS
  <1>4. /\ r[i] = IF i = 1 THEN s[i] ELSE r[i - 1] \o s[i]
        /\ q[i] = IF i = 1 THEN t[i] ELSE q[i - 1] \o t[i]
    BY <1>3 DEF Flattened
  <1>5. i # 1 => r[i - 1] = q[i - 1]
    <2> SUFFICES ASSUME i # 1 PROVE r[i - 1] = q[i - 1]
      OBVIOUS
    <2>1. i - 1 \in 1..m /\ i - 1 \notin Bad
      <3>1. i - 1 \in 1..m /\ ~ (i <= i - 1)
        BY <1>3
      <3> HIDE DEF Bad
      <3> QED BY <1>2, <3>1
    <2> QED BY <2>1
  <1> QED BY <1>3, <1>4, <1>5

LEMMA FlattenedType ==
    ASSUME NEW S, NEW s \in Seq(Seq(S)), NEW n \in 0..Len(s), NEW r, Flattened(r, s, n)
    PROVE  \A i \in 1..n : r[i] \in Seq(S)
  <1> DEFINE Bad == {i \in 1..n : r[i] \notin Seq(S)}
  <1>1. SUFFICES ASSUME Bad # {} PROVE FALSE
    OBVIOUS
  <1>2. PICK i \in Bad : \A y \in Bad : i <= y
    <2>1. Bad \subseteq Nat
      OBVIOUS
    <2> HIDE DEF Bad
    <2> QED BY <1>1, <2>1, LeastOf
  <1>3. i \in 1..n /\ r[i] \notin Seq(S) /\ s[i] \in Seq(S)
    <2>1. i \in 1..n /\ r[i] \notin Seq(S) /\ i \in 1..Len(s)
      OBVIOUS
    <2> QED BY <2>1, ElementOfSeq
  <1>4. r[i] = IF i = 1 THEN s[i] ELSE r[i - 1] \o s[i]
    BY <1>3 DEF Flattened
  <1>5. i # 1 => r[i - 1] \in Seq(S)
    <2> SUFFICES ASSUME i # 1 PROVE r[i - 1] \in Seq(S)
      OBVIOUS
    <2>1. i - 1 \in 1..n /\ i - 1 \notin Bad
      <3>1. i - 1 \in 1..n /\ ~ (i <= i - 1)
        BY <1>3
      <3> HIDE DEF Bad
      <3> QED BY <1>2, <3>1
    <2> QED BY <2>1
  <1>6. i # 1 => r[i - 1] \o s[i] \in Seq(S)
    BY <1>3, <1>5, ConcatProperties
  <1> QED BY <1>3, <1>4, <1>6

LEMMA FlattenIs ==
    ASSUME NEW s, NEW n \in Nat \ {0}, Len(s) = n, NEW r, Flattened(r, s, n)
    PROVE  FlattenSeq(s) = r[n]
  <1> DEFINE q == CHOOSE q : Flattened(q, s, n)
  <1>1. Flattened(q, s, n)
    OBVIOUS
  <1>2. FlattenSeq(s) = q[n]
    BY DEF FlattenSeq, Flattened
  <1> HIDE DEF q
  <1>3. r[n] = q[n]
    <2>1. n \in 1..n /\ n \in Nat /\ n <= n
      OBVIOUS
    <2> QED BY <1>1, <2>1, FlattenedUnique
  <1> QED BY <1>2, <1>3

LEMMA FlattenEmpty == FlattenSeq(<<>>) = <<>>
  BY DEF FlattenSeq

LEMMA FlattenType == ASSUME NEW S, NEW s \in Seq(Seq(S)) PROVE FlattenSeq(s) \in Seq(S)
  <1>1. CASE s = <<>>
    BY <1>1, FlattenEmpty, EmptySeq
  <1>2. CASE s # <<>>
    <2>1. Len(s) \in Nat \ {0}
      BY <1>2, EmptySeq
    <2>2. PICK r : Flattened(r, s, Len(s))
      BY <2>1, FlattenedExists
    <2>3. Len(s) \in 0..Len(s) /\ Len(s) \in 1..Len(s)
      BY <2>1
    <2>4. r[Len(s)] \in Seq(S)
      BY <2>2, <2>3, FlattenedType
    <2> QED BY <2>1, <2>2, <2>4, FlattenIs
  <1> QED BY <1>1, <1>2

\* One sequence more at the end.
LEMMA FlattenAppend ==
    ASSUME NEW S, NEW s \in Seq(Seq(S)), NEW x \in Seq(S)
    PROVE  FlattenSeq(Append(s, x)) = FlattenSeq(s) \o x
  <1> DEFINE t == Append(s, x)
             n == Len(s)
  <1>1. /\ n \in Nat /\ n + 1 \in Nat /\ n + 1 \in Nat \ {0} /\ t \in Seq(Seq(S))
           /\ Len(t) = n + 1
        /\ t[n + 1] = x /\ \A i \in 1..n : t[i] = s[i]
    BY AppendProperties
  <1> HIDE DEF t
  <1>2. PICK q : Flattened(q, t, n + 1)
    BY <1>1, FlattenedExists
  <1>3. FlattenSeq(t) = q[n + 1]
    BY <1>1, <1>2, FlattenIs
  <1>4. CASE n = 0
    <2>1. s = <<>> /\ q[1] = x
      BY <1>1, <1>2, <1>4, EmptySeq DEF Flattened
    <2> QED BY <1>3, <1>4, <2>1, FlattenEmpty, ConcatEmptySeq DEF t
  <1>5. CASE n # 0
    <2>1. PICK r : Flattened(r, s, n)
      BY <1>1, FlattenedExists
    <2>2. FlattenSeq(s) = r[n]
      BY <1>1, <1>5, <2>1, FlattenIs
    <2>3. \A i \in 1..n : r[i] = q[i]
      <3>1. n <= n + 1
        BY <1>1
      <3>2. \A i \in 1..n : s[i] = t[i]
        BY <1>1
      <3>3. n \in Nat /\ n + 1 \in Nat
        BY <1>1
      <3> HIDE DEF n
      <3> QED BY <1>2, <2>1, <3>1, <3>2, <3>3, FlattenedUnique
    <2>4. q[n + 1] = q[n] \o x
      <3>1. n + 1 \in 1..(n + 1) /\ n + 1 # 1 /\ (n + 1) - 1 = n
        BY <1>1, <1>5
      <3> QED BY <1>1, <1>2, <3>1 DEF Flattened
    <2>5. n \in 1..n
      BY <1>1, <1>5
    <2> QED BY <1>3, <2>2, <2>3, <2>4, <2>5 DEF t
  <1> QED BY <1>4, <1>5

\* So the first j sequences are those before and the j-th.
LEMMA FlattenPrefix ==
    ASSUME NEW S, NEW s \in Seq(Seq(S)), NEW j \in 1..Len(s)
    PROVE  /\ FlattenSeq(SubSeq(s, 1, j)) = FlattenSeq(SubSeq(s, 1, j - 1)) \o s[j]
           /\ FlattenSeq(SubSeq(s, 1, j)) \in Seq(S) /\ FlattenSeq(SubSeq(s, 1, j - 1)) \in Seq(S)
           /\ s[j] \in Seq(S)
  <1>1. s[j] \in Seq(S)
    BY ElementOfSeq
  <1>2. SubSeq(s, 1, j) \in Seq(Seq(S)) /\ SubSeq(s, 1, j - 1) \in Seq(Seq(S))
    BY LenProperties
  <1>3. SubSeq(s, 1, j) = Append(SubSeq(s, 1, j - 1), s[j])
    BY LenProperties
  <1> QED BY <1>1, <1>2, <1>3, FlattenAppend, FlattenType

LEMMA FlattenWhole == ASSUME NEW S, NEW s \in Seq(Seq(S)) PROVE FlattenSeq(SubSeq(s, 1, Len(s))) = FlattenSeq(s)
  BY SubSeqFull

\* Where the sequences begin.
LEMMA BeginFirst == ASSUME NEW S, NEW s \in Seq(Seq(S)) PROVE Begin(s, 1) = 0
  <1>1. SubSeq(s, 1, 1 - 1) = <<>>
    BY SubSeqEmpty
  <1>2. Begin(s, 1) = Len(<<>>)
    BY <1>1, FlattenEmpty, Zenon DEF Begin
  <1> QED BY <1>2

LEMMA BeginNext ==
    ASSUME NEW S, NEW s \in Seq(Seq(S)), NEW j \in 1..Len(s)
    PROVE  Begin(s, j) \in Nat /\ Len(s[j]) \in Nat /\ Begin(s, j + 1) = Begin(s, j) + Len(s[j])
  <1>1. /\ FlattenSeq(SubSeq(s, 1, j)) = FlattenSeq(SubSeq(s, 1, j - 1)) \o s[j]
        /\ FlattenSeq(SubSeq(s, 1, j - 1)) \in Seq(S) /\ s[j] \in Seq(S)
    BY FlattenPrefix
  <1>2. /\ Len(FlattenSeq(SubSeq(s, 1, j - 1)) \o s[j]) = Len(FlattenSeq(SubSeq(s, 1, j - 1))) + Len(s[j])
        /\ Len(FlattenSeq(SubSeq(s, 1, j - 1))) \in Nat /\ Len(s[j]) \in Nat
    BY <1>1, ConcatProperties, LenProperties
  <1>3. (j + 1) - 1 = j
    OBVIOUS
  <1> QED BY <1>1, <1>2, <1>3, Zenon DEF Begin

LEMMA BeginEnd ==
    ASSUME NEW S, NEW s \in Seq(Seq(S))
    PROVE  Begin(s, Len(s) + 1) = Len(FlattenSeq(s)) /\ Len(FlattenSeq(s)) \in Nat
  <1>1. (Len(s) + 1) - 1 = Len(s)
    BY LenProperties
  <1> QED BY <1>1, FlattenWhole, FlattenType, LenProperties DEF Begin

LEMMA BeginNat ==
    ASSUME NEW S, NEW s \in Seq(Seq(S)), NEW j \in 1..(Len(s) + 1)
    PROVE  Begin(s, j) \in Nat
  <1>1. CASE j = Len(s) + 1
    BY <1>1, BeginEnd
  <1>2. CASE j # Len(s) + 1
    <2>1. j \in 1..Len(s)
      BY <1>2, LenProperties
    <2> QED BY <2>1, BeginNext
  <1> QED BY <1>1, <1>2

\* Later ones begin later, and none begins after the end.
LEMMA BeginGrows ==
    ASSUME NEW S, NEW s \in Seq(Seq(S)), NEW i \in 1..(Len(s) + 1), NEW j \in i..(Len(s) + 1)
    PROVE  Begin(s, i) <= Begin(s, j)
  <1> DEFINE Bad == {k \in i..(Len(s) + 1) : ~ (Begin(s, i) <= Begin(s, k))}
  <1>0. Len(s) \in Nat
    BY LenProperties
  <1>1. SUFFICES ASSUME Bad # {} PROVE FALSE
    OBVIOUS
  <1>2. PICK k \in Bad : \A y \in Bad : k <= y
    <2>1. Bad \subseteq Nat
      BY <1>0
    <2> HIDE DEF Bad
    <2> QED BY <1>1, <2>1, LeastOf
  <1>3. k \in i..(Len(s) + 1) /\ ~ (Begin(s, i) <= Begin(s, k))
    OBVIOUS
  <1>4. Begin(s, i) \in Nat /\ Begin(s, k) \in Nat
    BY <1>0, <1>3, BeginNat
  <1>5. k # i
    BY <1>3, <1>4
  <1>6. k - 1 \in i..(Len(s) + 1) /\ k - 1 \in 1..Len(s) /\ ~ (k <= k - 1) /\ (k - 1) + 1 = k
    BY <1>0, <1>3, <1>5
  <1>7. k - 1 \notin Bad
    <2> HIDE DEF Bad
    <2> QED BY <1>2, <1>6
  <1>8. Begin(s, i) <= Begin(s, k - 1)
    BY <1>6, <1>7
  <1>9. Begin(s, k - 1) \in Nat /\ Len(s[k - 1]) \in Nat
        /\ Begin(s, k) = Begin(s, k - 1) + Len(s[k - 1])
    BY <1>6, BeginNext
  <1> HIDE DEF Bad
  <1> QED BY <1>3, <1>4, <1>8, <1>9

\* There each of them is found.
LEMMA FlattenAt ==
    ASSUME NEW S, NEW s \in Seq(Seq(S)), NEW j \in 1..Len(s), NEW i \in 1..Len(s[j])
    PROVE  FlattenSeq(s)[Begin(s, j) + i] = s[j][i]
  <1> DEFINE F(m) == FlattenSeq(SubSeq(s, 1, m))
             Bad == {m \in j..Len(s) : F(m)[Begin(s, j) + i] # s[j][i]}
  <1>0. Len(s) \in Nat /\ Len(s[j]) \in Nat /\ s[j] \in Seq(S) /\ Begin(s, j) \in Nat
    BY LenProperties, BeginNext, ElementOfSeq
  <1>1. SUFFICES ASSUME Bad # {} PROVE FALSE
    <2>1. SUFFICES ASSUME Bad = {} PROVE FlattenSeq(s)[Begin(s, j) + i] = s[j][i]
      OBVIOUS
    <2>2. F(Len(s))[Begin(s, j) + i] = s[j][i]
      BY <1>0, <2>1
    <2> QED BY <2>2, FlattenWhole
  <1>2. PICK m \in Bad : \A y \in Bad : m <= y
    <2>1. Bad \subseteq Nat
      BY <1>0
    <2> HIDE DEF Bad
    <2> QED BY <1>1, <2>1, LeastOf
  <1>3. m \in j..Len(s) /\ F(m)[Begin(s, j) + i] # s[j][i]
    OBVIOUS
  <1> HIDE DEF Bad
  <1>4. m \in 1..Len(s)
    BY <1>0, <1>3
  <1>5. F(m) = F(m - 1) \o s[m] /\ F(m - 1) \in Seq(S) /\ s[m] \in Seq(S)
    BY <1>4, FlattenPrefix
  <1>6. Len(F(m - 1)) = Begin(s, m) /\ Begin(s, m) \in Nat /\ Len(s[m]) \in Nat
    BY <1>4, BeginNext DEF Begin
  <1> HIDE DEF F
  <1> DEFINE b == Begin(s, j)
             l == Len(F(m - 1))
  <1>7. CASE m = j
    <2>0. b = l /\ b \in Nat /\ Len(s[m]) \in Nat /\ i \in 1..Len(s[m])
      BY <1>0, <1>6, <1>7
    <2>1. Begin(s, j) + i \in 1..(Len(F(m - 1)) + Len(s[m]))
          /\ ~ (Begin(s, j) + i <= Len(F(m - 1)))
            /\ Begin(s, j) + i - Len(F(m - 1)) = i
      <3> HIDE DEF b, l
      <3>1. b + i \in 1..(l + Len(s[m])) /\ ~ (b + i <= l) /\ b + i - l = i
        BY <2>0
      <3> QED BY <3>1 DEF b, l
    <2>2. F(m)[Begin(s, j) + i] = s[m][Begin(s, j) + i - Len(F(m - 1))]
      <3>1. (F(m - 1) \o s[m])[Len(F(m - 1)) + i] = s[m][i]
        BY <1>5, <2>0, ConcatAt
      <3> QED BY <1>5, <2>0, <2>1, <3>1, Zenon DEF b, l
    <2> QED BY <1>3, <1>7, <2>1, <2>2
  <1>8. CASE m # j
    <2>1. m - 1 \in j..Len(s) /\ ~ (m <= m - 1) /\ j + 1 \in 1..(Len(s) + 1)
          /\ m \in (j + 1)..(Len(s) + 1)
      BY <1>0, <1>3, <1>8
    <2>2. m - 1 \notin Bad
      BY <1>2, <2>1
    <2>3. F(m - 1)[Begin(s, j) + i] = s[j][i]
      BY <2>1, <2>2 DEF Bad
    <2>4. Begin(s, j) + Len(s[j]) <= Begin(s, m)
      BY <2>1, BeginGrows, BeginNext
    <2>5. Begin(s, j) + i \in 1..(Len(F(m - 1)) + Len(s[m])) /\ Begin(s, j) + i <= Len(F(m - 1))
      <3>1. b \in Nat /\ Len(s[j]) \in Nat /\ i \in 1..Len(s[j]) /\ l \in Nat
            /\ b + Len(s[j]) <= l /\ Len(s[m]) \in Nat
        BY <1>0, <1>6, <2>4
      <3> HIDE DEF b, l
      <3>2. b + i \in 1..(l + Len(s[m])) /\ b + i <= l
        BY <3>1
      <3> QED BY <3>2 DEF b, l
    <2>6. F(m)[Begin(s, j) + i] = F(m - 1)[Begin(s, j) + i]
      BY <1>5, <2>5, ConcatProperties
    <2> QED BY <1>3, <2>3, <2>6
  <1> QED BY <1>7, <1>8

\* The first sequence, and then the others.
LEMMA FlattenTail ==
    ASSUME NEW S, NEW s \in Seq(Seq(S)), s # <<>>
    PROVE  FlattenSeq(s) = s[1] \o FlattenSeq(Tail(s))
  <1> DEFINE n == Len(s)
             t == Tail(s)
             F(m) == FlattenSeq(SubSeq(s, 1, m))
             G(m) == FlattenSeq(SubSeq(t, 1, m - 1))
             Bad == {m \in 1..n : F(m) # s[1] \o G(m)}
  <1>0. /\ n \in Nat \ {0} /\ s[1] \in Seq(S) /\ t \in Seq(Seq(S)) /\ Len(t) = n - 1
        /\ \A i \in 1..(n - 1) : t[i] = s[i + 1]
    <2>1. n \in Nat \ {0}
      BY EmptySeq
    <2> QED BY <2>1, HeadTailProperties, ElementOfSeq
  <1> HIDE DEF n, t
  <1>1. SUFFICES ASSUME Bad # {} PROVE FALSE
    <2>1. SUFFICES ASSUME Bad = {} PROVE FlattenSeq(s) = s[1] \o FlattenSeq(t)
      BY DEF t
    <2>2. F(n) = s[1] \o G(n)
      <3>1. n \in 1..n
        BY <1>0
      <3> HIDE DEF F, G
      <3> QED BY <2>1, <3>1
    <2>3. F(n) = FlattenSeq(s) /\ G(n) = FlattenSeq(t)
      BY <1>0, FlattenWhole DEF n
    <2> QED BY <2>2, <2>3
  <1>2. PICK m \in Bad : \A y \in Bad : m <= y
    <2>1. Bad \subseteq Nat
      <3> HIDE DEF F, G
      <3> QED BY <1>0
    <2> HIDE DEF Bad
    <2> QED BY <1>1, <2>1, LeastOf
  <1>3. m \in 1..n /\ F(m) # s[1] \o G(m)
    OBVIOUS
  <1> HIDE DEF Bad
  <1>4. F(m) = F(m - 1) \o s[m]
    BY <1>3, FlattenPrefix DEF n
  <1>5. CASE m = 1
    <2>1. SubSeq(s, 1, m - 1) = <<>> /\ SubSeq(t, 1, m - 1) = <<>>
      BY <1>5, SubSeqEmpty
    <2>2. F(m - 1) = <<>> /\ G(m) = <<>>
      BY <2>1, FlattenEmpty, Zenon
    <2> HIDE DEF F, G
    <2>3. F(m) = s[1] /\ s[1] \o G(m) = s[1]
      BY <1>0, <1>4, <1>5, <2>2, ConcatEmptySeq
    <2> QED BY <1>3, <2>3
  <1>6. CASE m # 1
    <2>1. m - 1 \in 1..n /\ ~ (m <= m - 1) /\ m - 1 \in 1..Len(t) /\ (m - 1) + 1 = m
      BY <1>0, <1>3, <1>6
    <2>2. m - 1 \notin Bad
      BY <1>2, <2>1
    <2>3. F(m - 1) = s[1] \o G(m - 1)
      BY <2>1, <2>2 DEF Bad
    <2>4. G(m) = G(m - 1) \o t[m - 1] /\ G(m - 1) \in Seq(S) /\ t[m - 1] \in Seq(S)
          /\ t[m - 1] = s[m]
      BY <1>0, <2>1, FlattenPrefix
    <2> HIDE DEF F, G
    <2>5. PICK x, y, g, h, c : x = s[1] /\ y = F(m - 1) /\ g = G(m - 1) /\ h = G(m) /\ c = s[m]
      OBVIOUS
    <2>6. x \in Seq(S) /\ g \in Seq(S) /\ c \in Seq(S) /\ y = x \o g /\ h = g \o c
      BY <1>0, <2>3, <2>4, <2>5
    <2>7. y \o c = x \o h
      BY <2>6, ConcatAssoc
    <2> QED BY <1>3, <1>4, <2>5, <2>7
  <1> QED BY <1>5, <1>6

-----------------------------------------------------------------------------
(* The encoding of instructions.                                           *)

Symbols == (STRING \ {NUL}) \union {"w", "w2", ".", ",", ";"} \union Digits

LEMMA DigitsListed == Digits = {"0", "1", "2", "3", "4", "5", "6", "7", "8", "9"}
  <1>1. DOMAIN DIGITS = {1, 2, 3, 4, 5, 6, 7, 8, 9, 10}
    BY DEF DIGITS
  <1> QED BY <1>1 DEF Digits, DIGITS

LEMMA DigitValue ==
    ASSUME NEW n \in 0..9
    PROVE  DIGITS[n + 1] \in Digits /\ Value(DIGITS[n + 1]) = n
  <1>1. DOMAIN DIGITS = 1..10
    BY DEF DIGITS
  <1>2. \A i, j \in 1..10 : DIGITS[i] = DIGITS[j] => i = j
    BY DEF DIGITS
  <1>3. n + 1 \in 1..10
    OBVIOUS
  <1>4. (CHOOSE i \in DOMAIN DIGITS : DIGITS[i] = DIGITS[n + 1]) = n + 1
    BY <1>1, <1>2, <1>3
  <1>5. (n + 1) - 1 = n
    OBVIOUS
  <1> QED BY <1>1, <1>3, <1>4, <1>5 DEF Digits, Value

\* No byte of an instruction ends a string.
LEMMA SymbolsNoNul == NUL \notin Symbols
  BY DigitsListed DEF Symbols, NUL

LEMMA LegalElement ==
    ASSUME Legal, NEW ins \in Instructions
    PROVE  /\ ins \in Seq(Seq(STRING \ {NUL})) /\ ins # <<>> /\ Len(ins) \in Nat \ {0}
           /\ \A j \in 1..Len(ins) : ins[j] \in Seq(STRING \ {NUL}) /\ Len(ins[j]) \in 0..9
  <1>1. ins \in Seq(Seq(STRING)) /\ ins # <<>> /\ Len(ins) \in Nat \ {0}
    BY EmptySeq DEF Legal
  <1>2. Len(DIGITS) = 10
    BY DEF DIGITS
  <1>3. ASSUME NEW j \in 1..Len(ins)
        PROVE  ins[j] \in Seq(STRING \ {NUL}) /\ Len(ins[j]) \in 0..9
    <2>1. ins[j] \in Seq(STRING) /\ j \in DOMAIN ins
      BY <1>1, ElementOfSeq, LenProperties
    <2>2. Len(ins[j]) \in Nat /\ \A k \in 1..Len(ins[j]) : ins[j][k] # NUL
      BY <2>1, LenProperties DEF Legal
    <2>3. \A k \in 1..Len(ins[j]) : ins[j][k] \in STRING \ {NUL}
      BY <2>1, <2>2, ElementOfSeq
    <2>4. ins[j] \in [1..Len(ins[j]) -> STRING \ {NUL}]
      BY <2>1, <2>3, LenProperties
    <2>5. ins[j] \in Seq(STRING \ {NUL})
      BY <2>2, <2>4, FunctionIsSeq
    <2>6. Len(ins[j]) \in 0..9
      <3>1. Len(ins[j]) \in Nat /\ Len(ins[j]) < 10
        BY <1>2, <2>1, LenProperties DEF Legal
      <3>2. \A n \in Nat : n < 10 => n \in 0..9
        OBVIOUS
      <3> QED BY <3>1, <3>2, Zenon
    <2> QED BY <2>5, <2>6
  <1>4. ins \in [1..Len(ins) -> Seq(STRING \ {NUL})]
    BY <1>1, <1>3, LenProperties
  <1> QED BY <1>1, <1>3, <1>4, FunctionIsSeq

LEMMA CharsAre ==
    ASSUME NEW e \in Seq(STRING \ {NUL})
    PROVE  /\ Chars(e) \in Seq(Seq(Symbols)) /\ Len(Chars(e)) = Len(e) /\ Len(e) \in Nat
           /\ \A k \in 1..Len(e) : /\ Len(Chars(e)[k]) = CharSize(e[k]) /\ Chars(e)[k][1] = e[k]
                                   /\ e[k] = "w" => Chars(e)[k][2] = "w2"
  <1>1. Len(e) \in Nat /\ DOMAIN e = 1..Len(e)
    BY LenProperties
  <1>2. Chars(e) = [k \in 1..Len(e) |-> IF e[k] = "w" THEN <<"w", "w2">> ELSE <<e[k]>>]
    BY <1>1 DEF Chars
  <1>3. ASSUME NEW k \in 1..Len(e)
        PROVE  Chars(e)[k] \in Seq(Symbols)
    <2>1. e[k] \in Symbols /\ "w" \in Symbols /\ "w2" \in Symbols
      BY ElementOfSeq DEF Symbols
    <2>2. <<"w", "w2">> \in Seq(Symbols) /\ <<e[k]>> \in Seq(Symbols)
      BY <2>1
    <2> QED BY <1>2, <2>2
  <1>4. Chars(e) \in [1..Len(e) -> Seq(Symbols)]
    BY <1>2, <1>3
  <1>5. Chars(e) \in Seq(Seq(Symbols))
    BY <1>1, <1>4, FunctionIsSeq
  <1>6. Len(Chars(e)) = Len(e)
    BY <1>1, <1>2
  <1>7. ASSUME NEW k \in 1..Len(e)
        PROVE  /\ Len(Chars(e)[k]) = CharSize(e[k]) /\ Chars(e)[k][1] = e[k]
               /\ e[k] = "w" => Chars(e)[k][2] = "w2"
    <2>1. PICK c, x : c = Chars(e)[k] /\ x = e[k]
      OBVIOUS
    <2>2. c = IF x = "w" THEN <<"w", "w2">> ELSE <<x>>
      BY <1>2, <2>1
    <2>3. Len(c) = CharSize(x) /\ c[1] = x /\ (x = "w" => c[2] = "w2")
      BY <2>2 DEF CharSize
    <2> QED BY <2>1, <2>3
  <1> QED BY <1>1, <1>5, <1>6, <1>7

LEMMA BytesOfIs ==
    ASSUME NEW e \in Seq(STRING \ {NUL})
    PROVE  /\ BytesOf(e) = FlattenSeq(Chars(e)) /\ BytesOf(e) \in Seq(Symbols)
           /\ Len(BytesOf(e)) \in Nat
           /\ \A i \in 1..Len(BytesOf(e)) : BytesOf(e)[i] # NUL
  <1>1. BytesOf(e) = FlattenSeq(Chars(e))
    BY DEF BytesOf, Chars
  <1>2. BytesOf(e) \in Seq(Symbols)
    BY <1>1, CharsAre, FlattenType
  <1> QED BY <1>1, <1>2, SymbolsNoNul, LenProperties, ElementOfSeq

\* A character is one byte, or two that begin with "w".
LEMMA CharAt ==
    ASSUME NEW e \in Seq(STRING \ {NUL}), NEW k \in 1..Len(e)
    PROVE  LET q == Begin(Chars(e), k)
               b == BytesOf(e) IN
           /\ q \in Nat /\ Begin(Chars(e), k + 1) = q + CharSize(e[k])
           /\ q + CharSize(e[k]) <= Len(b)
           /\ b[q + 1] = e[k] /\ (e[k] = "w" => b[q + 2] = "w2")
  <1> DEFINE q == Begin(Chars(e), k)
  <1>1. /\ Chars(e) \in Seq(Seq(Symbols)) /\ Len(Chars(e)) = Len(e) /\ Len(e) \in Nat
    BY CharsAre
  <1>2. /\ Len(Chars(e)[k]) = CharSize(e[k]) /\ Chars(e)[k][1] = e[k]
        /\ e[k] = "w" => Chars(e)[k][2] = "w2"
    BY CharsAre
  <1>3. k \in 1..Len(Chars(e)) /\ k + 1 \in 1..(Len(Chars(e)) + 1)
        /\ Len(Chars(e)) + 1 \in (k + 1)..(Len(Chars(e)) + 1)
    BY <1>1
  <1>4. q \in Nat /\ Begin(Chars(e), k + 1) = q + Len(Chars(e)[k])
    BY <1>1, <1>3, BeginNext
  <1>5. Begin(Chars(e), k + 1) <= Len(BytesOf(e))
    BY <1>1, <1>3, BeginGrows, BeginEnd, BytesOfIs
  <1>6. \A i \in 1..Len(Chars(e)[k]) : BytesOf(e)[q + i] = Chars(e)[k][i]
    <2>1. BytesOf(e) = FlattenSeq(Chars(e))
      BY BytesOfIs
    <2> QED BY <1>1, <1>3, <2>1, FlattenAt
  <1> HIDE DEF q
  <1>7. q + CharSize(e[k]) <= Len(BytesOf(e)) /\ Begin(Chars(e), k + 1) = q + CharSize(e[k])
    BY <1>2, <1>4, <1>5
  <1>8. BytesOf(e)[q + 1] = e[k]
    <2>1. 1 \in 1..Len(Chars(e)[k])
      BY <1>2 DEF CharSize
    <2> QED BY <1>2, <1>6, <2>1
  <1>9. ASSUME e[k] = "w" PROVE BytesOf(e)[q + 2] = "w2"
    <2>1. 2 \in 1..Len(Chars(e)[k])
      BY <1>2, <1>9 DEF CharSize
    <2> QED BY <1>2, <1>6, <1>9, <2>1
  <1> QED BY <1>4, <1>7, <1>8, <1>9 DEF q

LEMMA CharsBegin ==
    ASSUME NEW e \in Seq(STRING \ {NUL})
    PROVE  /\ Begin(Chars(e), 1) = 0 /\ Begin(Chars(e), Len(e) + 1) = Len(BytesOf(e))
           /\ \A k \in 1..(Len(e) + 1) : Begin(Chars(e), k) \in Nat
              /\ Begin(Chars(e), k) <= Len(BytesOf(e))
           /\ Len(BytesOf(e)) >= Len(e)
  <1>1. Chars(e) \in Seq(Seq(Symbols)) /\ Len(Chars(e)) = Len(e) /\ Len(e) \in Nat
    BY CharsAre
  <1>2. Begin(Chars(e), 1) = 0 /\ Begin(Chars(e), Len(e) + 1) = Len(BytesOf(e))
    BY <1>1, BeginFirst, BeginEnd, BytesOfIs
  <1>3. ASSUME NEW k \in 1..(Len(e) + 1)
        PROVE  Begin(Chars(e), k) \in Nat /\ Begin(Chars(e), k) <= Len(BytesOf(e))
    <2>1. Len(e) + 1 \in k..(Len(e) + 1)
      BY <1>1
    <2> QED BY <1>1, <1>2, <2>1, BeginNat, BeginGrows
  <1> DEFINE Bad == {n \in 0..Len(e) : ~ (Begin(Chars(e), n + 1) >= n)}
  <1>4. Bad = {}
    <2> SUFFICES ASSUME Bad # {} PROVE FALSE
      OBVIOUS
    <2>1. PICK n \in Bad : \A y \in Bad : n <= y
      <3>1. Bad \subseteq Nat
        BY <1>1
      <3> HIDE DEF Bad
      <3> QED BY <3>1, LeastOf
    <2>2. n \in 0..Len(e) /\ ~ (Begin(Chars(e), n + 1) >= n)
      OBVIOUS
    <2>3. n # 0
      <3> SUFFICES ASSUME n = 0 PROVE FALSE
        OBVIOUS
      <3>1. n + 1 = 1
        OBVIOUS
      <3> QED BY <1>2, <2>2, <3>1
    <2>4. n \in 1..Len(e) /\ n - 1 \in 0..Len(e) /\ ~ (n <= n - 1) /\ (n - 1) + 1 = n
      BY <1>1, <2>2, <2>3
    <2>5. n - 1 \notin Bad
      <3> HIDE DEF Bad
      <3> QED BY <2>1, <2>4
    <2>6. Begin(Chars(e), n) >= n - 1
      BY <2>4, <2>5
    <2>7. Begin(Chars(e), n) \in Nat
          /\ Begin(Chars(e), n + 1) = Begin(Chars(e), n) + CharSize(e[n])
      BY <2>4, CharAt
    <2>8. CharSize(e[n]) >= 1 /\ CharSize(e[n]) \in Nat
      BY DEF CharSize
    <2> HIDE DEF Bad
    <2> QED BY <1>1, <2>2, <2>6, <2>7, <2>8
  <1>5. Len(BytesOf(e)) >= Len(e)
    <2>1. Len(e) \in 0..Len(e) /\ Len(e) \notin Bad
      BY <1>1, <1>4
    <2> QED BY <1>2, <2>1
  <1> QED BY <1>2, <1>3, <1>5

\* Two bytes before some bytes and one after them.
LEMMA Enclosed ==
    ASSUME NEW S, NEW d \in S, NEW c \in S, NEW t \in S, NEW b \in Seq(S)
    PROVE  LET q == Append(<<d, c>> \o b, t) IN
           /\ q \in Seq(S) /\ Len(q) = Len(b) + 3
           /\ q[1] = d /\ q[2] = c /\ q[Len(b) + 3] = t
           /\ \A i \in 1..Len(b) : q[2 + i] = b[i]
  OBVIOUS

\* An element is its length, a period, its bytes and a terminator.
LEMMA PartIs ==
    ASSUME Legal, NEW ins \in Instructions, NEW j \in 1..Len(ins)
    PROVE  LET b == BytesOf(ins[j])
               p == Parts(ins)[j] IN
           /\ p \in Seq(Symbols) /\ Len(p) = Len(b) + 3
           /\ p[1] = DIGITS[Len(ins[j]) + 1] /\ p[2] = "."
           /\ \A i \in 1..Len(b) : p[2 + i] = b[i]
           /\ p[Len(b) + 3] = IF j = Len(ins) THEN ";" ELSE ","
  <1> DEFINE b == BytesOf(ins[j])
             d == DIGITS[Len(ins[j]) + 1]
             t == IF j = Len(ins) THEN ";" ELSE ","
             h == <<d, ".">>
  <1>1. ins[j] \in Seq(STRING \ {NUL}) /\ Len(ins[j]) \in 0..9 /\ ins \in Seq(Seq(STRING \ {NUL}))
    BY LegalElement
  <1>2. b \in Seq(Symbols) /\ Len(b) \in Nat
    BY <1>1, BytesOfIs
  <1>3. d \in Symbols /\ "." \in Symbols /\ t \in Symbols
    BY <1>1, DigitValue DEF Symbols
  <1>4. Parts(ins)[j] = Append(h \o b, t)
    <2>1. j \in DOMAIN ins
      BY <1>1, LenProperties
    <2> QED BY <2>1 DEF Parts, Element
  <1> HIDE DEF b, d, t
  <1>5. LET q == Append(h \o b, t) IN
        /\ q \in Seq(Symbols) /\ Len(q) = Len(b) + 3
        /\ q[1] = d /\ q[2] = "." /\ q[Len(b) + 3] = t
        /\ \A i \in 1..Len(b) : q[2 + i] = b[i]
    BY <1>2, <1>3, Enclosed
  <1>6. PICK q : q = Append(h \o b, t)
    OBVIOUS
  <1>7. Parts(ins)[j] = q
    BY <1>4, <1>6
  <1>8. /\ q \in Seq(Symbols) /\ Len(q) = Len(b) + 3
        /\ q[1] = d /\ q[2] = "." /\ q[Len(b) + 3] = t
        /\ \A i \in 1..Len(b) : q[2 + i] = b[i]
    BY <1>5, <1>6
  <1> HIDE DEF h
  <1> QED BY <1>7, <1>8, Zenon DEF b, d, t

LEMMA PartsAre ==
    ASSUME Legal, NEW ins \in Instructions
    PROVE  /\ Parts(ins) \in Seq(Seq(Symbols)) /\ Len(Parts(ins)) = Len(ins)
           /\ Encoded(ins) = FlattenSeq(Parts(ins)) /\ Encoded(ins) \in Seq(Symbols)
           /\ Len(Encoded(ins)) \in Nat
  <1>1. ins \in Seq(Seq(STRING \ {NUL})) /\ Len(ins) \in Nat
    BY LegalElement
  <1>2. DOMAIN ins = 1..Len(ins)
    BY <1>1, LenProperties
  <1>3. \A j \in 1..Len(ins) : Parts(ins)[j] \in Seq(Symbols)
    BY PartIs
  <1>4. Parts(ins) = [j \in 1..Len(ins) |-> Parts(ins)[j]]
    BY <1>2 DEF Parts
  <1>5. Parts(ins) \in [1..Len(ins) -> Seq(Symbols)]
    BY <1>3, <1>4
  <1>6. Parts(ins) \in Seq(Seq(Symbols)) /\ Len(Parts(ins)) = Len(ins)
    <2>1. DOMAIN Parts(ins) = 1..Len(ins)
      BY <1>4
    <2>2. Parts(ins) \in Seq(Seq(Symbols))
      BY <1>1, <1>5, FunctionIsSeq
    <2> QED BY <1>1, <2>1, <2>2, LenProperties
  <1>7. Encoded(ins) = FlattenSeq(Parts(ins))
    BY DEF Encoded, Parts
  <1> QED BY <1>6, <1>7, FlattenType, LenProperties

\* Where they are in the instruction.
LEMMA ElementAt ==
    ASSUME Legal, NEW ins \in Instructions, NEW j \in 1..Len(ins)
    PROVE  LET b == BytesOf(ins[j])
               p == Begin(Parts(ins), j)
               s == Encoded(ins) IN
           /\ p \in Nat /\ Len(b) \in Nat /\ Len(s) \in Nat
           /\ Begin(Parts(ins), j + 1) = p + Len(b) + 3 /\ p + Len(b) + 3 <= Len(s)
           /\ (j = Len(ins) => p + Len(b) + 3 = Len(s))
           /\ s[p + 1] = DIGITS[Len(ins[j]) + 1] /\ s[p + 2] = "."
           /\ \A i \in 1..Len(b) : s[p + 2 + i] = b[i]
           /\ s[p + Len(b) + 3] = IF j = Len(ins) THEN ";" ELSE ","
  <1> DEFINE b == BytesOf(ins[j])
             p == Begin(Parts(ins), j)
             q == Parts(ins)[j]
             s == Encoded(ins)
             n == Len(ins)
             P == Parts(ins)
  <1>1. P \in Seq(Seq(Symbols)) /\ Len(P) = n /\ s = FlattenSeq(P) /\ Len(s) \in Nat /\ n \in Nat
    BY PartsAre, LegalElement
  <1>2. /\ Len(q) = Len(b) + 3 /\ q[1] = DIGITS[Len(ins[j]) + 1] /\ q[2] = "."
        /\ \A i \in 1..Len(b) : q[2 + i] = b[i]
        /\ q[Len(b) + 3] = IF j = n THEN ";" ELSE ","
    BY PartIs
  <1>3. Len(b) \in Nat
    BY LegalElement, BytesOfIs
  <1>4. j \in 1..Len(P) /\ j + 1 \in 1..(Len(P) + 1) /\ Len(P) + 1 \in (j + 1)..(Len(P) + 1)
    BY <1>1
  <1>5. p \in Nat /\ Begin(P, j + 1) = p + Len(q)
    BY <1>1, <1>4, BeginNext
  <1>6. Begin(P, j + 1) <= Len(s) /\ (j = n => Begin(P, j + 1) = Len(s))
    <2>1. Begin(P, Len(P) + 1) = Len(s)
      BY <1>1, BeginEnd
    <2>2. Begin(P, j + 1) <= Begin(P, Len(P) + 1)
      BY <1>1, <1>4, BeginGrows
    <2> QED BY <1>1, <2>1, <2>2
  <1>7. \A i \in 1..Len(q) : s[p + i] = q[i]
    BY <1>1, <1>4, FlattenAt
  <1> HIDE DEF b, p, q, s, n, P
  <1>2a. Len(q) = Len(b) + 3
    BY <1>2
  <1>8. s[p + 1] = q[1] /\ s[p + 2] = q[2]
    <2>1. 1 \in 1..Len(q) /\ 2 \in 1..Len(q)
      BY <1>2a, <1>3
    <2> QED BY <1>7, <2>1
  <1>9. ASSUME NEW i \in 1..Len(b) PROVE s[p + 2 + i] = b[i]
    <2>1. 2 + i \in 1..Len(q) /\ p + (2 + i) = p + 2 + i
      BY <1>2a, <1>3, <1>5
    <2>2. s[p + (2 + i)] = q[2 + i]
      BY <1>7, <2>1
    <2> QED BY <1>2, <2>1, <2>2
  <1>10. s[p + Len(b) + 3] = q[Len(b) + 3]
    <2>1. Len(b) + 3 \in 1..Len(q) /\ p + (Len(b) + 3) = p + Len(b) + 3
      BY <1>2a, <1>3, <1>5
    <2> QED BY <1>7, <2>1
  <1>11. Begin(P, j + 1) = p + Len(b) + 3
    BY <1>2a, <1>3, <1>5
  <1>12. p + Len(b) + 3 <= Len(s) /\ (j = n => p + Len(b) + 3 = Len(s))
    BY <1>6, <1>11
  <1> QED BY <1>1, <1>2, <1>3, <1>5, <1>8, <1>9, <1>10, <1>11, <1>12 DEF b, p, q, s, n, P

LEMMA PartsBegin == ASSUME Legal, NEW ins \in Instructions PROVE Begin(Parts(ins), 1) = 0
  BY PartsAre, BeginFirst

\* It ends with its only ";" that is not within an element.
LEMMA EncodedEnds ==
    ASSUME Legal, NEW ins \in Instructions
    PROVE  Len(Encoded(ins)) \in Nat /\ Len(Encoded(ins)) >= 3
      /\ Encoded(ins)[Len(Encoded(ins))] = ";"
  <1>1. Len(ins) \in 1..Len(ins)
    BY LegalElement
  <1> DEFINE p == Begin(Parts(ins), Len(ins))
             b == Len(BytesOf(ins[Len(ins)]))
             s == Encoded(ins)
  <1>2. p \in Nat /\ b \in Nat /\ Len(s) \in Nat /\ p + b + 3 = Len(s)
    BY <1>1, ElementAt
  <1>3. s[p + b + 3] = ";"
    BY <1>1, ElementAt
  <1> HIDE DEF p, b, s
  <1>4. Len(s) \in Nat /\ Len(s) >= 3
    BY <1>2
  <1>5. s[Len(s)] = ";"
    BY <1>2, <1>3
  <1> QED BY <1>4, <1>5 DEF s

-----------------------------------------------------------------------------
(* What was written, and what is still to be parsed of it.                 *)

Items == {Well(ins) : ins \in Instructions}
Bodies(w) == [j \in DOMAIN w |-> w[j].bytes]

LEMMA StreamIs == Stream = FlattenSeq(Bodies(written))
  BY DEF Stream, Bodies

LEMMA BodiesAre ==
    ASSUME Legal, NEW w \in Seq(Items)
    PROVE  /\ Bodies(w) \in Seq(Seq(Symbols)) /\ Len(Bodies(w)) = Len(w) /\ Len(w) \in Nat
           /\ \A j \in 1..Len(w) : Bodies(w)[j] = w[j].bytes
  <1>1. Len(w) \in Nat /\ DOMAIN w = 1..Len(w)
    BY LenProperties
  <1>2. ASSUME NEW j \in 1..Len(w) PROVE w[j].bytes \in Seq(Symbols)
    <2>1. PICK ins \in Instructions : w[j] = Well(ins)
      BY ElementOfSeq DEF Items
    <2> QED BY <2>1, PartsAre DEF Well
  <1>3. Bodies(w) = [j \in 1..Len(w) |-> w[j].bytes]
    BY <1>1 DEF Bodies
  <1>4. Bodies(w) \in [1..Len(w) -> Seq(Symbols)]
    BY <1>2, <1>3
  <1>5. Bodies(w) \in Seq(Seq(Symbols))
    BY <1>1, <1>4, FunctionIsSeq
  <1>6. Len(Bodies(w)) = Len(w)
    BY <1>1, <1>3
  <1> QED BY <1>1, <1>3, <1>5, <1>6

LEMMA StreamType ==
    ASSUME Legal, NEW w \in Seq(Items)
    PROVE  FlattenSeq(Bodies(w)) \in Seq(Symbols) /\ Len(FlattenSeq(Bodies(w))) \in Nat
  BY BodiesAre, FlattenType, LenProperties

LEMMA StreamEmpty == FlattenSeq(Bodies(<<>>)) = <<>>
  <1>1. Bodies(<<>>) = <<>>
    BY DEF Bodies
  <1> QED BY <1>1, FlattenEmpty

LEMMA StreamMore ==
    ASSUME Legal, NEW w \in Seq(Items), NEW item \in Items
    PROVE  FlattenSeq(Bodies(Append(w, item))) = FlattenSeq(Bodies(w)) \o item.bytes
  <1>1. item.bytes \in Seq(Symbols)
    <2>1. PICK ins \in Instructions : item = Well(ins)
      BY DEF Items
    <2> QED BY <2>1, PartsAre DEF Well
  <1>2. /\ Append(w, item) \in Seq(Items) /\ Len(Append(w, item)) = Len(w) + 1
        /\ \A i \in 1..Len(w) : Append(w, item)[i] = w[i]
        /\ Append(w, item)[Len(w) + 1] = item
    BY AppendProperties
  <1>3. /\ Bodies(w) \in Seq(Seq(Symbols)) /\ Len(Bodies(w)) = Len(w) /\ Len(w) \in Nat
        /\ \A j \in 1..Len(w) : Bodies(w)[j] = w[j].bytes
    BY BodiesAre
  <1> DEFINE v == Append(w, item)
             a == Append(Bodies(w), item.bytes)
  <1> HIDE DEF v
  <1>4. /\ Bodies(v) \in Seq(Seq(Symbols)) /\ Len(Bodies(v)) = Len(v)
        /\ \A j \in 1..Len(v) : Bodies(v)[j] = v[j].bytes
    BY <1>2, BodiesAre DEF v
  <1>5. /\ a \in Seq(Seq(Symbols)) /\ Len(a) = Len(w) + 1
        /\ \A i \in 1..Len(w) : a[i] = Bodies(w)[i]
        /\ a[Len(w) + 1] = item.bytes
    BY <1>1, <1>3, AppendProperties
  <1> HIDE DEF a
  <1>6. \A i \in 1..(Len(w) + 1) : Bodies(v)[i] = a[i]
    <2> SUFFICES ASSUME NEW i \in 1..(Len(w) + 1) PROVE Bodies(v)[i] = a[i]
      OBVIOUS
    <2>1. CASE i = Len(w) + 1
      BY <1>2, <1>4, <1>5, <2>1 DEF v
    <2>2. CASE i # Len(w) + 1
      <3>1. i \in 1..Len(w) /\ i \in 1..Len(v)
        BY <1>2, <1>3, <2>2 DEF v
      <3>2. Bodies(v)[i] = v[i].bytes /\ v[i] = w[i]
        BY <1>2, <1>4, <3>1 DEF v
      <3> QED BY <1>3, <1>5, <3>1, <3>2
    <2> QED BY <2>1, <2>2
  <1>7. Bodies(v) = a
    <2>1. Len(Bodies(v)) = Len(w) + 1 /\ Len(a) = Len(w) + 1
      BY <1>2, <1>4, <1>5 DEF v
    <2> QED BY <1>4, <1>5, <1>6, <2>1, SeqEqual
  <1>8. FlattenSeq(a) = FlattenSeq(Bodies(w)) \o item.bytes
    BY <1>1, <1>3, FlattenAppend DEF a
  <1> QED BY <1>7, <1>8 DEF v

LEMMA StreamLess ==
    ASSUME Legal, NEW w \in Seq(Items), w # <<>>
    PROVE  FlattenSeq(Bodies(w)) = Head(w).bytes \o FlattenSeq(Bodies(Tail(w)))
  <1>1. /\ Bodies(w) \in Seq(Seq(Symbols)) /\ Len(Bodies(w)) = Len(w) /\ Len(w) \in Nat
        /\ \A j \in 1..Len(w) : Bodies(w)[j] = w[j].bytes
    BY BodiesAre
  <1>2. Len(w) # 0 /\ Head(w) = w[1]
    BY EmptySeq
  <1>3. /\ Tail(w) \in Seq(Items) /\ Len(Tail(w)) = Len(w) - 1
        /\ \A i \in 1..Len(Tail(w)) : Tail(w)[i] = w[i + 1]
    BY HeadTailProperties
  <1> DEFINE t == Tail(w)
             a == Tail(Bodies(w))
  <1>4. Bodies(w) # <<>>
    BY <1>1, <1>2, EmptySeq
  <1>5. /\ a \in Seq(Seq(Symbols)) /\ Len(a) = Len(w) - 1
        /\ \A i \in 1..(Len(w) - 1) : a[i] = Bodies(w)[i + 1]
    BY <1>1, <1>4, HeadTailProperties
  <1> HIDE DEF t, a
  <1>6. /\ Bodies(t) \in Seq(Seq(Symbols)) /\ Len(Bodies(t)) = Len(t)
        /\ \A j \in 1..Len(t) : Bodies(t)[j] = t[j].bytes
    BY <1>3, BodiesAre DEF t
  <1>7. Bodies(t) = a
    <2>1. \A i \in 1..(Len(w) - 1) : Bodies(t)[i] = a[i]
      <3> SUFFICES ASSUME NEW i \in 1..(Len(w) - 1) PROVE Bodies(t)[i] = a[i]
        OBVIOUS
      <3>1. i \in 1..Len(t) /\ i + 1 \in 1..Len(w)
        BY <1>1, <1>3 DEF t
      <3>2. Bodies(t)[i] = t[i].bytes /\ t[i] = w[i + 1]
        BY <1>3, <1>6, <3>1 DEF t
      <3> QED BY <1>1, <1>5, <3>1, <3>2
    <2>2. Len(Bodies(t)) = Len(w) - 1 /\ Len(a) = Len(w) - 1
      BY <1>3, <1>5, <1>6 DEF t
    <2> QED BY <1>5, <1>6, <2>1, <2>2, SeqEqual
  <1>8. FlattenSeq(Bodies(w)) = Bodies(w)[1] \o FlattenSeq(a)
    BY <1>1, <1>4, FlattenTail DEF a
  <1>9. Bodies(w)[1] = Head(w).bytes
    <2>1. 1 \in 1..Len(w)
      BY <1>1, <1>2
    <2> QED BY <1>1, <1>2, <2>1
  <1> QED BY <1>7, <1>8, <1>9 DEF t

\* What was written ends with a ";".
LEMMA StreamEnds ==
    ASSUME Legal, NEW w \in Seq(Items), w # <<>>
    PROVE  LET s == FlattenSeq(Bodies(w)) IN Len(s) \in Nat \ {0} /\ s[Len(s)] = ";"
  <1> DEFINE B == Bodies(w)
             s == FlattenSeq(B)
             n == Len(w)
  <1>1. /\ B \in Seq(Seq(Symbols)) /\ Len(B) = n /\ n \in Nat
        /\ \A j \in 1..n : B[j] = w[j].bytes
    BY BodiesAre
  <1>2. n \in 1..n
    BY <1>1, EmptySeq
  <1>3. PICK ins \in Instructions : w[n] = Well(ins)
    BY <1>2, ElementOfSeq DEF Items
  <1>4. B[n] = Encoded(ins)
    BY <1>1, <1>2, <1>3 DEF Well
  <1> DEFINE l == Len(Encoded(ins))
             p == Begin(B, n)
  <1>5. l \in Nat /\ l >= 3 /\ Encoded(ins)[l] = ";"
    BY EncodedEnds
  <1> HIDE DEF B, n, l
  <1>6. p \in Nat /\ Begin(B, n + 1) = p + l
    BY <1>1, <1>2, <1>4, BeginNext DEF l
  <1>7. Begin(B, n + 1) = Len(s)
    BY <1>1, BeginEnd
  <1>8. s[p + l] = ";"
    <2>0. Len(B[n]) = l /\ l \in 1..l
      <3>1. \A m \in Nat : m >= 3 => m \in 1..m
        OBVIOUS
      <3>2. Len(B[n]) = l
        BY <1>4 DEF l
      <3> QED BY <1>5, <3>1, <3>2, Zenon
    <2>1. l \in 1..Len(B[n])
      BY <2>0, Zenon
    <2>2. s[p + l] = B[n][l]
      BY <1>1, <1>2, <2>1, FlattenAt
    <2> QED BY <1>4, <1>5, <2>2
  <1> HIDE DEF p, s
  <1>9. Len(s) = p + l
    BY <1>6, <1>7
  <1>10. Len(s) \in Nat \ {0}
    <2>1. \A k, m \in Nat : m >= 3 => k + m \in Nat \ {0}
      OBVIOUS
    <2> QED BY <1>5, <1>6, <1>9, <2>1, Zenon
  <1>11. s[Len(s)] = ";"
    BY <1>8, <1>9
  <1> QED BY <1>10, <1>11 DEF s, B

-----------------------------------------------------------------------------
(* The place of the parser in what was written.                            *)

LEMMA Bounds ==
    ASSUME ParserInv
    PROVE  /\ BufSize \in Nat /\ start \in Nat /\ end \in Nat /\ instr \in Nat
           /\ instr <= start /\ start <= end /\ end <= BufSize
           /\ saved[1] \in Nat /\ saved[2] \in Nat /\ saved[1] <= saved[2] /\ saved[2] <= BufSize
           /\ pc \in {"length", "content", "parsed"} => at \in Nat /\ start <= at /\ at <= end
           /\ buf \in [Positions -> Bytes] /\ data \in Seq(Bytes) /\ input \in Seq(Bytes)
           /\ Len(data) \in Nat /\ Len(input) \in Nat
           /\ elementv \in Seq(Int) /\ Len(elementv) \in Nat /\ length \in Nat
  <1>1. /\ start \in 0..BufSize /\ end \in start..BufSize /\ instr \in 0..start
        /\ saved[1] \in 0..BufSize /\ saved[2] \in saved[1]..BufSize
        /\ pc \in {"length", "content", "parsed"} => at \in start..end
        /\ length \in Nat
    BY DEF ParserInv, TypeOK
  <1>2. /\ buf \in [Positions -> Bytes] /\ data \in Seq(Bytes) /\ input \in Seq(Bytes)
        /\ elementv \in Seq(Int)
    BY DEF ParserInv, BytesInv
  <1>3. Len(data) \in Nat /\ Len(input) \in Nat /\ Len(elementv) \in Nat
    BY <1>2, LenProperties
  <1>4. BufSize \in Nat
    BY ParserAssumption
  <1>5. /\ start \in Nat /\ end \in Nat /\ instr \in Nat
        /\ instr <= start /\ start <= end /\ end <= BufSize
    BY <1>1, <1>4
  <1>6. saved[1] \in Nat /\ saved[2] \in Nat /\ saved[1] <= saved[2] /\ saved[2] <= BufSize
    BY <1>1, <1>4
  <1>7. pc \in {"length", "content", "parsed"} => at \in Nat /\ start <= at /\ at <= end
    BY <1>1, <1>5
  <1> QED BY <1>1, <1>2, <1>3, <1>4, <1>5, <1>6, <1>7, Zenon

\* Where the parser is in the buffer, and how much it has before it.
LEMMA AheadNat ==
    ASSUME ParserInv, Working
    PROVE  /\ ParsedTo \in Nat /\ Buffered \in Nat /\ ParsedTo + Buffered <= BufSize
           /\ Len(data) \in Nat /\ Len(input) \in Nat
           /\ Unparsed \in Nat /\ Unparsed = Buffered + Len(data)
           /\ Ahead \in Nat /\ Ahead = Unparsed + Len(input)
           /\ InCall => ParsedTo = Parsed /\ ParsedTo + Buffered = end
                        /\ start <= ParsedTo /\ ParsedTo <= end
           /\ pc = "idle" => ParsedTo = saved[1] /\ ParsedTo + Buffered = saved[2]
  <1>1. CASE pc = "idle"
    <2>1. ParsedTo = saved[1] /\ Buffered = saved[2] - saved[1] /\ ~ InCall
      BY <1>1 DEF ParsedTo, Buffered, InCall
    <2>2. ParsedTo \in Nat /\ Buffered \in Nat /\ ParsedTo + Buffered <= BufSize
          /\ ParsedTo + Buffered = saved[2]
      <3>1. PICK s, e : s = saved[1] /\ e = saved[2]
        OBVIOUS
      <3>2. s \in Nat /\ e \in Nat /\ BufSize \in Nat /\ s <= e /\ e <= BufSize
        BY <3>1, Bounds
      <3>3. ParsedTo = s /\ Buffered = e - s
        BY <2>1, <3>1
      <3>4. ParsedTo \in Nat /\ Buffered \in Nat /\ ParsedTo + Buffered = e
        BY <3>2, <3>3
      <3>5. ParsedTo + Buffered <= BufSize
        BY <3>2, <3>4
      <3> QED BY <3>1, <3>4, <3>5
    <2>3. Len(data) \in Nat /\ Len(input) \in Nat
      BY Bounds
    <2>4. Unparsed \in Nat /\ Ahead \in Nat
      BY <2>2, <2>3 DEF Unparsed, Ahead
    <2> QED BY <2>1, <2>2, <2>3, <2>4 DEF Unparsed, Ahead
  <1>2. CASE pc # "idle" /\ InCall
    <2>1. ParsedTo = Parsed /\ Buffered = end - Parsed
      BY <1>2 DEF ParsedTo, Buffered
    <2>2. Parsed \in Nat /\ start <= Parsed /\ Parsed <= end
      <3>1. CASE pc \in {"length", "content", "parsed"}
        BY <3>1, Bounds DEF Parsed
      <3>2. CASE pc \notin {"length", "content", "parsed"}
        <4>1. Parsed = start /\ start \in Nat /\ end \in Nat /\ start <= end
          BY <3>2, Bounds DEF Parsed
        <4> QED BY <4>1
      <3> QED BY <3>1, <3>2
    <2>3. end \in Nat /\ end <= BufSize /\ BufSize \in Nat /\ Len(data) \in Nat
          /\ Len(input) \in Nat
      BY Bounds
    <2>4. Buffered \in Nat /\ ParsedTo + Buffered = end
      BY <2>1, <2>2, <2>3
    <2>5. Unparsed \in Nat /\ Ahead \in Nat
      BY <2>3, <2>4 DEF Unparsed, Ahead
    <2> QED BY <1>2, <2>1, <2>2, <2>3, <2>4, <2>5 DEF Unparsed, Ahead
  <1> QED BY <1>1, <1>2 DEF Working, InCall

\* What was written begins with the first instruction.
LEMMA HeadStream ==
    ASSUME Legal, WrittenInv, written # <<>>, NEW ins \in Instructions, Head(written) = Well(ins)
    PROVE  LET t == FlattenSeq(Bodies(Tail(written))) IN
           /\ Len(Stream) \in Nat /\ Len(Encoded(ins)) \in Nat /\ Len(t) \in Nat
           /\ Len(Stream) = Len(Encoded(ins)) + Len(t) /\ Len(Encoded(ins)) <= Len(Stream)
           /\ \A i \in 1..Len(Encoded(ins)) : Stream[i] = Encoded(ins)[i]
           /\ \A i \in 1..Len(t) : Stream[Len(Encoded(ins)) + i] = t[i]
           /\ Tail(written) \in Seq(Items)
  <1> DEFINE t == FlattenSeq(Bodies(Tail(written)))
             e == Encoded(ins)
  <1>1. written \in Seq(Items)
    BY DEF WrittenInv, Items
  <1>2. Tail(written) \in Seq(Items)
    BY <1>1, HeadTailProperties
  <1>3. Stream = e \o t
    <2>1. Head(written).bytes = e
      BY DEF Well
    <2>2. FlattenSeq(Bodies(written)) = Head(written).bytes \o t
      BY <1>1, StreamLess
    <2> HIDE DEF e, t
    <2> QED BY <2>1, <2>2, StreamIs
  <1>4. e \in Seq(Symbols) /\ t \in Seq(Symbols) /\ Len(e) \in Nat /\ Len(t) \in Nat
    BY <1>2, PartsAre, StreamType
  <1> HIDE DEF e, t
  <1>5. Len(Stream) = Len(e) + Len(t)
    BY <1>3, <1>4, ConcatProperties
  <1>6. /\ \A i \in 1..Len(e) : Stream[i] = e[i]
        /\ \A i \in 1..Len(t) : Stream[Len(e) + i] = t[i]
    BY <1>3, <1>4, ConcatAt
  <1>7. Len(Stream) \in Nat /\ Len(e) <= Len(Stream)
    BY <1>4, <1>5
  <1> QED BY <1>2, <1>4, <1>5, <1>6, <1>7 DEF e, t

\* As far as it reaches, the bytes ahead are those of the instruction.
LEMMA InHead ==
    ASSUME Legal, ParserInv, Working, WrittenInv, StreamInv,
           written # <<>>, NEW ins \in Instructions, Head(written) = Well(ins),
           NEW k \in 1..Ahead, Offset0 + k <= Len(Encoded(ins))
    PROVE  AheadAt(k) = Encoded(ins)[Offset0 + k]
  <1>1. Offset0 \in Nat /\ AheadAt(k) = Stream[Offset0 + k]
    BY DEF StreamInv
  <1>2. Len(Encoded(ins)) \in Nat /\ \A i \in 1..Len(Encoded(ins)) : Stream[i] = Encoded(ins)[i]
    BY HeadStream
  <1>3. Offset0 + k \in 1..Len(Encoded(ins))
    <2>1. k \in Nat /\ k >= 1
      BY AheadNat
    <2>2. \A o, n, m \in Nat : m >= 1 /\ o + m <= n => o + m \in 1..n
      OBVIOUS
    <2> QED BY <1>1, <1>2, <2>1, <2>2, Zenon
  <1> QED BY <1>1, <1>2, <1>3, Zenon

LEMMA StreamNat == ASSUME Legal, WrittenInv PROVE Len(Stream) \in Nat
  <1>1. written \in Seq(Items)
    BY DEF WrittenInv, Items
  <1> QED BY <1>1, StreamIs, StreamType

\* Within an instruction there is one, and nothing is ahead when none is written.
AtHead(ins) == written # <<>> /\ Head(written) = Well(ins) /\ Place(ins) /\ Contents(ins)

LEMMA HeadCase ==
    ASSUME ParserInv, Working, StreamInv, HeadInv, ~ Between, Ahead > 0 \/ ~ Fresh
    PROVE  \E ins \in Instructions : AtHead(ins)
  <1>1. \/ written = <<>> /\ Fresh
        \/ \E ins \in Instructions : AtHead(ins)
    BY DEF HeadInv, AtHead
  <1>2. ASSUME written = <<>>, Fresh PROVE FALSE
    <2>1. Stream = <<>>
      BY <1>2, StreamIs, StreamEmpty
    <2>2. Offset0 = 0 - Ahead /\ Offset0 \in Nat
      BY <2>1 DEF Offset0, StreamInv
    <2> QED BY <1>2, <2>2, AheadNat
  <1> QED BY <1>1, <1>2

\* The place is within the instruction, before its last byte unless that was parsed.
LEMMA PlaceWithin ==
    ASSUME Legal, ParserInv, NEW ins \in Instructions, Place(ins)
    PROVE  /\ Offset0 \in Nat /\ Len(Encoded(ins)) \in Nat
           /\ Offset0 <= Len(Encoded(ins))
           /\ state # "COMPLETE" => Offset0 < Len(Encoded(ins))
           /\ elementv = <<>> => Offset0 <= 1
  <1> DEFINE n == Len(elementv)
             l == Len(Encoded(ins))
  <1>0. n \in Nat /\ l \in Nat /\ length \in Nat /\ Len(ins) \in Nat \ {0}
        /\ (elementv = <<>> => n = 0)
    BY Bounds, PartsAre, LegalElement, EmptySeq
  <1> HIDE DEF n, l
  <1>1. CASE /\ state = "LENGTH" /\ n < Len(ins)
             /\ \/ Offset0 = Begin(Parts(ins), n + 1)
                \/ Offset0 = Begin(Parts(ins), n + 1) + 1
    <2>1. n + 1 \in 1..Len(ins)
      BY <1>0, <1>1
    <2>2. PICK p, b : p = Begin(Parts(ins), n + 1) /\ b = Len(BytesOf(ins[n + 1]))
      OBVIOUS
    <2>3. p \in Nat /\ b \in Nat /\ p + b + 3 <= l
      BY <2>1, <2>2, ElementAt DEF l
    <2>4. elementv = <<>> => p = 0
      <3>1. n = 0 => n + 1 = 1
        OBVIOUS
      <3> QED BY <1>0, <2>2, <3>1, PartsBegin
    <2>5. Offset0 = p \/ Offset0 = p + 1
      BY <1>1, <2>2
    <2>6. Offset0 \in Nat /\ Offset0 < l /\ Offset0 <= l /\ (elementv = <<>> => Offset0 <= 1)
      BY <1>0, <2>3, <2>4, <2>5
    <2> QED BY <1>0, <2>6 DEF l
  <1>2. CASE /\ state = "CONTENT" /\ n \in 1..Len(ins) /\ length \in 0..Len(ins[n])
             /\ Offset0 = Begin(Parts(ins), n) + 2 + Begin(Chars(ins[n]), Len(ins[n]) - length + 1)
    <2>1. PICK p, b, m, q : /\ p = Begin(Parts(ins), n) /\ b = Len(BytesOf(ins[n]))
                            /\ m = Len(ins[n])
                               /\ q = Begin(Chars(ins[n]), Len(ins[n]) - length + 1)
      OBVIOUS
    <2>2. p \in Nat /\ b \in Nat /\ p + b + 3 <= l
      BY <1>2, <2>1, ElementAt DEF l
    <2>3. ins[n] \in Seq(STRING \ {NUL}) /\ m \in Nat
      BY <1>2, <2>1, LegalElement
    <2>4. m - length + 1 \in 1..(m + 1)
      BY <1>0, <1>2, <2>1, <2>3
    <2>5. q \in Nat /\ q <= b
      BY <2>1, <2>3, <2>4, CharsBegin
    <2>6. Offset0 = p + 2 + q /\ n # 0
      BY <1>0, <1>2, <2>1
    <2>7. Offset0 \in Nat /\ Offset0 < l /\ Offset0 <= l /\ (elementv = <<>> => Offset0 <= 1)
      BY <1>0, <2>2, <2>5, <2>6
    <2> QED BY <1>0, <2>7 DEF l
  <1>3. CASE state = "COMPLETE" /\ n = Len(ins) /\ Offset0 = l
    BY <1>0, <1>3 DEF l
  <1> QED BY <1>1, <1>2, <1>3 DEF Place, n, l

\* The byte at the place, and the one after it.
LEMMA ByteAt ==
    ASSUME Legal, ParserInv, WrittenInv, StreamInv, pc \in {"length", "content"},
           NEW ins \in Instructions, AtHead(ins),
           NEW k \in Nat, at + k < end, Offset0 + k < Len(Encoded(ins))
    PROVE  buf[at + k] = Encoded(ins)[Offset0 + k + 1]
  <1>1. Working /\ InCall /\ Parsed = at
    BY DEF Working, InCall, Parsed
  <1>2. /\ ParsedTo = at /\ ParsedTo + Buffered = end /\ Buffered \in Nat /\ ParsedTo \in Nat
        /\ Unparsed = Buffered + Len(data) /\ Len(data) \in Nat /\ Len(input) \in Nat
        /\ Ahead = Unparsed + Len(input)
    BY <1>1, AheadNat
  <1>3. k + 1 <= Buffered /\ k + 1 \in 1..Ahead /\ ParsedTo + (k + 1) - 1 = at + k
    BY <1>2
  <1>4. Offset0 \in Nat /\ Len(Encoded(ins)) \in Nat
    BY <1>1, PartsAre DEF StreamInv
  <1>5. Offset0 + (k + 1) <= Len(Encoded(ins)) /\ Offset0 + (k + 1) = Offset0 + k + 1
    BY <1>4
  <1>6. AheadAt(k + 1) = Encoded(ins)[Offset0 + (k + 1)]
    BY <1>1, <1>3, <1>5, InHead DEF AtHead
  <1>7. AheadAt(k + 1) = buf[at + k]
    BY <1>3, Zenon DEF AheadAt
  <1> QED BY <1>5, <1>6, <1>7, Zenon

LEMMA AtLength ==
    ASSUME Legal, ParserInv, WrittenInv, StreamInv, HeadInv, pc = "length", at < end
    PROVE  \E ins \in Instructions :
              LET n == Len(elementv) IN
              /\ AtHead(ins) /\ n \in Nat /\ n + 1 \in 1..Len(ins) /\ n < Len(ins)
              /\ \/ /\ length = 0 /\ Offset0 = Begin(Parts(ins), n + 1)
                    /\ buf[at] = DIGITS[Len(ins[n + 1]) + 1]
                 \/ /\ length = Len(ins[n + 1]) /\ Offset0 = Begin(Parts(ins), n + 1) + 1
                    /\ buf[at] = "."
  <1>1. Working /\ InCall /\ ~ Between /\ Parsed = at /\ state = "LENGTH"
    BY DEF Working, InCall, Between, Parsed, ParserInv, PhaseInv
  <1>2. Ahead > 0
    BY <1>1, AheadNat
  <1>3. PICK ins \in Instructions : AtHead(ins)
    BY <1>1, <1>2, HeadCase
  <1> DEFINE n == Len(elementv)
             p == Begin(Parts(ins), n + 1)
             s == Encoded(ins)
  <1>4. /\ n < Len(ins)
        /\ \/ length = 0 /\ Offset0 = p
           \/ length = Len(ins[n + 1]) /\ Offset0 = p + 1
    BY <1>1, <1>3 DEF AtHead, Place
  <1>5. n \in Nat /\ n + 1 \in 1..Len(ins)
    <2>1. n \in Nat /\ Len(ins) \in Nat
      BY Bounds, LegalElement
    <2> QED BY <1>4, <2>1
  <1>6. p \in Nat /\ Len(s) \in Nat /\ p + 3 <= Len(s)
    <2>1. p \in Nat /\ Len(BytesOf(ins[n + 1])) \in Nat /\ Len(s) \in Nat
          /\ p + Len(BytesOf(ins[n + 1])) + 3 <= Len(s)
      BY <1>5, ElementAt
    <2> HIDE DEF p, s
    <2> QED BY <2>1
  <1>7. s[p + 1] = DIGITS[Len(ins[n + 1]) + 1] /\ s[p + 2] = "."
    BY <1>5, ElementAt
  <1> HIDE DEF p, s
  <1>8. at + 0 = at /\ at + 0 < end
    BY Bounds, <1>1
  <1>9. ASSUME Offset0 = p PROVE buf[at] = DIGITS[Len(ins[n + 1]) + 1]
    <2>1. Offset0 + 0 < Len(s) /\ Offset0 + 0 + 1 = p + 1 /\ 0 \in Nat
      BY <1>6, <1>9
    <2>2. buf[at + 0] = s[Offset0 + 0 + 1]
      BY <1>1, <1>3, <1>8, <2>1, ByteAt DEF s
    <2> QED BY <1>7, <1>8, <2>1, <2>2, Zenon
  <1>10. ASSUME Offset0 = p + 1 PROVE buf[at] = "."
    <2>1. Offset0 + 0 < Len(s) /\ Offset0 + 0 + 1 = p + 2 /\ 0 \in Nat
      BY <1>6, <1>10
    <2>2. buf[at + 0] = s[Offset0 + 0 + 1]
      BY <1>1, <1>3, <1>8, <2>1, ByteAt DEF s
    <2> QED BY <1>7, <1>8, <2>1, <2>2, Zenon
  <1> QED BY <1>3, <1>4, <1>5, <1>9, <1>10 DEF p

LEMMA AtContent ==
    ASSUME Legal, ParserInv, WrittenInv, StreamInv, HeadInv, pc = "content", CharComplete
    PROVE  \E ins \in Instructions :
              LET n == Len(elementv)
                  e == ins[n]
                  b == BytesOf(e)
                  m == Begin(Chars(e), Len(e) - length + 1) IN
              /\ AtHead(ins) /\ n \in 1..Len(ins) /\ length \in 0..Len(e)
              /\ m \in Nat /\ Len(b) \in Nat /\ Offset0 = Begin(Parts(ins), n) + 2 + m
              /\ length > 0 =>
                    /\ Begin(Chars(e), Len(e) - (length - 1) + 1) = m + CharSize(buf[at])
                    /\ m + CharSize(buf[at]) <= Len(b)
                    /\ buf[at] = b[m + 1] /\ (buf[at] = "w" => buf[at + 1] = b[m + 2])
              /\ length = 0 =>
                    m = Len(b) /\ buf[at] = IF n = Len(ins) THEN ";" ELSE ","
  <1>1. Working /\ InCall /\ ~ Between /\ Parsed = at /\ state = "CONTENT"
    BY DEF Working, InCall, Between, Parsed, ParserInv, PhaseInv
  <1>2. at \in Nat /\ end \in Nat /\ at < end /\ at + 0 = at /\ at + 0 < end
    BY Bounds, <1>1 DEF CharComplete
  <1>3. Ahead > 0
    BY <1>1, <1>2, AheadNat
  <1>4. PICK ins \in Instructions : AtHead(ins)
    BY <1>1, <1>3, HeadCase
  <1> DEFINE n == Len(elementv)
             e == ins[n]
             b == BytesOf(e)
             k == Len(e) - length + 1
             m == Begin(Chars(e), k)
             p == Begin(Parts(ins), n)
             s == Encoded(ins)
  <1>5. n \in 1..Len(ins) /\ length \in 0..Len(e) /\ Offset0 = p + 2 + m
    BY <1>1, <1>4 DEF AtHead, Place
  <1>6. e \in Seq(STRING \ {NUL}) /\ Len(e) \in Nat
    BY <1>5, LegalElement
  <1>7. k \in 1..(Len(e) + 1) /\ length \in Nat /\ (length = 0 => k = Len(e) + 1)
          /\ (length > 0 => k \in 1..Len(e) /\ Len(e) - (length - 1) + 1 = k + 1)
    <2>1. length \in 0..Len(e) /\ Len(e) \in Nat /\ k = Len(e) - length + 1
      BY <1>5, <1>6
    <2> HIDE DEF e, k
    <2> QED BY <2>1
  <1>8. m \in Nat /\ Len(b) \in Nat /\ m <= Len(b) /\ (length = 0 => m = Len(b))
    BY <1>6, <1>7, CharsBegin, BytesOfIs
  <1>9. /\ p \in Nat /\ Len(s) \in Nat /\ p + Len(b) + 3 <= Len(s)
        /\ \A i \in 1..Len(b) : s[p + 2 + i] = b[i]
        /\ s[p + Len(b) + 3] = IF n = Len(ins) THEN ";" ELSE ","
    BY <1>5, ElementAt
  <1>10. length > 0 => /\ Begin(Chars(e), k + 1) = m + CharSize(e[k])
         /\ m + CharSize(e[k]) <= Len(b)
                       /\ b[m + 1] = e[k] /\ (e[k] = "w" => b[m + 2] = "w2")
    BY <1>6, <1>7, CharAt
  <1> HIDE DEF e, b, k, m, p, s
  <1>9a. p \in Nat /\ Len(s) \in Nat /\ p + Len(b) + 3 <= Len(s) /\ Offset0 = p + 2 + m
    BY <1>5, <1>9
  <1>11. Offset0 + 0 < Len(s) /\ 0 \in Nat
    BY <1>8, <1>9a
  <1>12. buf[at] = s[Offset0 + 0 + 1]
    <2>1. buf[at + 0] = s[Offset0 + 0 + 1]
      BY <1>1, <1>2, <1>4, <1>11, ByteAt DEF s
    <2> QED BY <1>2, <2>1, Zenon
  <1>13. ASSUME length = 0 PROVE buf[at] = IF n = Len(ins) THEN ";" ELSE ","
    <2>1. Offset0 + 0 + 1 = p + Len(b) + 3
      BY <1>8, <1>9a, <1>13
    <2> QED BY <1>9, <1>12, <2>1, Zenon
  <1>14. ASSUME length > 0 PROVE buf[at] = e[k] /\ buf[at] = b[m + 1]
    <2>1. CharSize(e[k]) \in Nat /\ CharSize(e[k]) >= 1
      BY DEF CharSize
    <2>2. m + 1 \in 1..Len(b) /\ Offset0 + 0 + 1 = p + 2 + (m + 1)
      <3>1. m + CharSize(e[k]) <= Len(b)
        BY <1>10, <1>14
      <3>2. PICK c : c = CharSize(e[k])
        OBVIOUS
      <3> QED BY <1>8, <1>9a, <2>1, <3>1, <3>2
    <2>3. s[p + 2 + (m + 1)] = b[m + 1]
      BY <1>9, <2>2, Zenon
    <2>4. b[m + 1] = e[k]
      BY <1>10, <1>14
    <2> QED BY <1>12, <2>2, <2>3, <2>4, Zenon
  <1>15. ASSUME length > 0, buf[at] = "w" PROVE buf[at + 1] = b[m + 2]
    <2>1. at + 1 < end
      <3>1. CharSize(buf[at]) = 2 /\ at + CharSize(buf[at]) <= end
        BY <1>15 DEF CharSize, CharComplete
      <3> QED BY <1>2, <3>1
    <2>2. m + 2 <= Len(b)
      <3>1. CharSize(e[k]) = 2
        BY <1>14, <1>15 DEF CharSize
      <3> QED BY <1>10, <1>15, <3>1
    <2>3. m + 2 \in 1..Len(b) /\ Offset0 + 1 + 1 = p + 2 + (m + 2) /\ Offset0 + 1 < Len(s)
          /\ 1 \in Nat
      <3> QED BY <1>8, <1>9a, <2>2
    <2>4. s[p + 2 + (m + 2)] = b[m + 2]
      BY <1>9, <2>3, Zenon
    <2>5. buf[at + 1] = s[Offset0 + 1 + 1]
      BY <1>1, <1>4, <2>1, <2>3, ByteAt DEF s
    <2> QED BY <2>3, <2>4, <2>5, Zenon
  <1>16. length > 0 => /\ Begin(Chars(e), Len(e) - (length - 1) + 1) = m + CharSize(buf[at])
                       /\ m + CharSize(buf[at]) <= Len(b)
    BY <1>7, <1>10, <1>14, Zenon
  <1> QED BY <1>4, <1>5, <1>8, <1>13, <1>14, <1>15, <1>16, Zenon DEF e, b, k, m, p, s

-----------------------------------------------------------------------------
(* Steps that leave the place where it is.                                 *)

\* What a step leaves alone that delivers nothing.
Undelivered == UNCHANGED <<reader, written, got, last, clipped>>

LEMMA UndeliveredKept ==
    ASSUME WellInv, Undelivered
    PROVE  WrittenInv' /\ DeliveredExact' /\ ClippedOnlyInside'
  BY DEF WellInv, Undelivered, WrittenInv, DeliveredExact, ClippedOnlyInside

LEMMA NotEnded ==
    ASSUME state' # "ERROR", pc' \notin {"toolong", "overrun"}
    PROVE  EndedInv'
  BY DEF EndedInv, RefusedOnlyBroken, TooLongOnly

\* Nothing is claimed of a reader that has ended.
LEMMA NotWorking ==
    ASSUME pc' \in {"ended", "toolong", "closed", "overrun"}
    PROVE  StreamInv' /\ HeadInv' /\ StalledInv' /\ RecordingInv' /\ ExtentInv'
  <1>1. ~ Working' /\ ~ InCall' /\ pc' # "idle" /\ pc' # "parsed"
    BY DEF Working, InCall
  <1> QED BY <1>1 DEF StreamInv, HeadInv, StalledInv, RecordingInv, ExtentInv

\* The same bytes are ahead.
SameBytes ==
    /\ Ahead' = Ahead /\ \A i \in 1..Ahead : AheadAt(i)' = AheadAt(i)
    /\ reader = "socket" => data' = <<>>

LEMMA SameStream ==
    ASSUME StreamInv, Working, Undelivered, SameBytes
    PROVE  Stream' = Stream /\ Offset0' = Offset0 /\ StreamInv'
  <1>1. Stream' = Stream /\ reader' = reader
    BY DEF Stream, Undelivered
  <1>2. Offset0' = Offset0
    BY <1>1 DEF Offset0, SameBytes
  <1> QED BY <1>1, <1>2 DEF StreamInv, SameBytes

LEMMA SamePlace ==
    ASSUME ParserInv, HeadInv, StreamInv, Working, ~ Between, ~ Between', Undelivered, SameBytes,
           state' = state, length' = length, elementv' \in Seq(Int), Len(elementv') = Len(elementv),
           \A ins \in Instructions : AtHead(ins) => Contents(ins)'
    PROVE  HeadInv'
  <1>1. Offset0' = Offset0 /\ written' = written
    BY SameStream DEF Undelivered
  <1>2. Fresh => Fresh'
    <2>1. elementv = <<>> => elementv' = <<>>
      BY EmptySeq
    <2> QED BY <2>1 DEF Fresh
  <1>3. \A ins : Place(ins) => Place(ins)'
    BY <1>1 DEF Place
  <1>4. \/ written = <<>> /\ Fresh
        \/ \E ins \in Instructions : AtHead(ins)
    BY DEF HeadInv, AtHead
  <1>5. CASE written = <<>> /\ Fresh
    BY <1>1, <1>2, <1>5 DEF HeadInv
  <1>6. CASE \E ins \in Instructions : AtHead(ins)
    <2>1. PICK ins \in Instructions : AtHead(ins)
      BY <1>6
    <2>2. Head(written)' = Well(ins) /\ Place(ins)' /\ Contents(ins)' /\ written' # <<>>
      BY <1>1, <1>3, <2>1 DEF AtHead
    <2> QED BY <2>2 DEF HeadInv
  <1> QED BY <1>4, <1>5, <1>6

\* A branch of guac_parser_append that parses nothing, or the loop around it.
LEMMA MoveStep ==
    ASSUME WellInv, ParserInv', InCall, InCall', Parsed' = Parsed, StalledInv',
           UNCHANGED <<reader, written, got, last, clipped, input, data, buf, saved, end, instr,
                       state, elementv, length>>
    PROVE  WellInv'
  <1>1. ParserInv /\ StreamInv /\ HeadInv /\ RecordingInv /\ ExtentInv /\ Undelivered
    BY DEF WellInv, Undelivered
  <1>2. Working /\ Working' /\ ~ Between /\ ~ Between' /\ ParsedTo' = ParsedTo /\ pc # "idle"
        /\ pc' # "idle"
    BY DEF Working, InCall, Between, ParsedTo
  <1>3. Buffered' = Buffered /\ Unparsed' = Unparsed /\ Ahead' = Ahead
    BY <1>2 DEF Buffered, Unparsed, Ahead
  <1>4. \A i : AheadAt(i)' = AheadAt(i)
    BY <1>2, <1>3 DEF AheadAt
  <1>5. SameBytes
    BY <1>1, <1>2, <1>3, <1>4 DEF SameBytes, StreamInv
  <1>6. \A ins : AtHead(ins) => Contents(ins)'
    BY <1>2 DEF AtHead, Contents, Whole, Partial
  <1>7. StreamInv' /\ Offset0' = Offset0
    BY <1>1, <1>2, <1>5, SameStream
  <1>8. HeadInv'
    BY <1>1, <1>2, <1>5, <1>6, SamePlace, Bounds
  <1>9. RecordingInv'
    BY <1>1, <1>2, <1>3, <1>4 DEF RecordingInv
  <1>10. ExtentInv'
    BY <1>1, <1>3, <1>7 DEF ExtentInv, Handled
  <1>11. EndedInv'
    <2>1. state' # "ERROR" /\ pc' \notin {"toolong", "overrun"}
      BY <1>1 DEF ParserInv, PhaseInv, InCall
    <2> QED BY <2>1, NotEnded
  <1>12. WrittenInv' /\ DeliveredExact' /\ ClippedOnlyInside'
    BY <1>1, UndeliveredKept
  <1> QED BY <1>7, <1>8, <1>9, <1>10, <1>11, <1>12 DEF WellInv

LEMMA AppendBeginsWell == ASSUME WellInv, ParserInv', AppendBegins PROVE WellInv'
  <1>1. /\ InCall /\ InCall' /\ Parsed' = Parsed /\ StalledInv'
        /\ UNCHANGED <<reader, written, got, last, clipped, input, data, buf, saved, end, instr,
                       state, elementv, length>>
    BY DEF AppendBegins, InCall, Parsed, StalledInv, envvars, parser, pointers, history
  <1> QED BY <1>1, MoveStep

LEMMA IncompleteWell == ASSUME WellInv, ParserInv', LengthIncomplete \/ ContentIncomplete PROVE WellInv'
  <1>0. ParserInv
    BY DEF WellInv
  <1>1. /\ InCall /\ InCall' /\ Parsed' = Parsed
        /\ UNCHANGED <<reader, written, got, last, clipped, input, data, buf, saved, end, instr,
                       state, elementv, length>>
    BY DEF LengthIncomplete, ContentIncomplete, InCall, Parsed, envvars, parser, pointers, history
  <1>2. state # "COMPLETE" /\ (at = end \/ (at + 1 = end /\ buf[at] = "w"))
    <2>1. CASE LengthIncomplete
      BY <1>0, <2>1 DEF LengthIncomplete, ParserInv, PhaseInv
    <2>2. CASE ContentIncomplete
      <3>1. state = "CONTENT" /\ at \in Nat /\ end \in Nat /\ at <= end /\ ~ CharComplete
        BY <1>0, <2>2, Bounds DEF ContentIncomplete, ParserInv, PhaseInv
      <3>2. CASE buf[at] = "w"
        <4>1. ~ (at < end /\ at + 2 <= end)
          BY <3>1, <3>2 DEF CharComplete, CharSize
        <4> QED BY <3>1, <3>2, <4>1
      <3>3. CASE buf[at] # "w"
        <4>1. ~ (at < end /\ at + 1 <= end)
          BY <3>1, <3>3 DEF CharComplete, CharSize
        <4> QED BY <3>1, <4>1
      <3> QED BY <3>2, <3>3
    <2> QED BY <2>1, <2>2
  <1>3. StalledInv'
    <2>1. at' = at /\ end' = end /\ state' = state /\ buf' = buf
      BY DEF LengthIncomplete, ContentIncomplete, parser, pointers
    <2> QED BY <1>2, <2>1 DEF StalledInv
  <1> QED BY <1>1, <1>3, MoveStep

LEMMA AdvanceWell == ASSUME WellInv, ParserInv', Advance \/ SocketTop \/ RecordingTop PROVE WellInv'
  <1>1. /\ InCall /\ InCall' /\ Parsed' = Parsed /\ StalledInv'
        /\ UNCHANGED <<reader, written, got, last, clipped, input, data, buf, saved, end, instr,
                       state, elementv, length>>
    BY DEF Advance, SocketTop, RecordingTop, InCall, Parsed, StalledInv, envvars, parser,
       pointers, history
  <1> QED BY <1>1, MoveStep

-----------------------------------------------------------------------------
(* Steps that parse some bytes.                                            *)

LEMMA BufferAhead ==
    ASSUME ParserInv, InCall, NEW k \in 1..(end - Parsed)
    PROVE  AheadAt(k) = buf[Parsed + k - 1] /\ k \in 1..Unparsed /\ k \in 1..Ahead
      /\ k <= Buffered
  <1>1. /\ ParsedTo = Parsed /\ Buffered \in Nat /\ ParsedTo + Buffered = end /\ ParsedTo \in Nat
        /\ Unparsed = Buffered + Len(data) /\ Len(data) \in Nat
        /\ Ahead = Unparsed + Len(input) /\ Len(input) \in Nat
    BY AheadNat DEF Working
  <1>2. k <= Buffered /\ k \in 1..Unparsed /\ k \in 1..Ahead
    BY <1>1
  <1> QED BY <1>1, <1>2, Zenon DEF AheadAt

LEMMA Consumed ==
    ASSUME Legal, WrittenInv, ParserInv, ParserInv', StreamInv, pc \in {"length", "content"}, InCall', Undelivered,
           NEW k \in Nat, k >= 1, at + k <= end, Parsed' = at + k,
           UNCHANGED <<input, data, end>>,
           \A i \in Positions : i >= at + k => buf'[i] = buf[i]
    PROVE  /\ k \in 1..(end - Parsed) /\ k <= Unparsed
           /\ Unparsed' = Unparsed - k /\ Ahead' = Ahead - k /\ Ahead' \in Nat
              /\ Offset0' = Offset0 + k
           /\ Unparsed' <= Ahead' /\ Unparsed' \in Nat
           /\ \A i \in 1..Ahead' : AheadAt(i)' = AheadAt(i + k)
           /\ StreamInv'
  <1>1. InCall /\ Working /\ Working' /\ Parsed = at /\ pc' # "idle" /\ pc # "idle"
    BY DEF InCall, Working, Parsed
  <1>2. /\ ParsedTo = at /\ ParsedTo + Buffered = end /\ Buffered \in Nat /\ ParsedTo \in Nat
        /\ Unparsed = Buffered + Len(data) /\ Len(data) \in Nat /\ Len(input) \in Nat
        /\ Ahead = Unparsed + Len(input) /\ ParsedTo + Buffered <= BufSize /\ BufSize \in Nat
    BY <1>1, AheadNat, ParserAssumption
  <1>3. ParsedTo' = at + k /\ Buffered' = end - (at + k) /\ Unparsed' = Buffered' + Len(data)
          /\ Ahead' = Unparsed' + Len(input)
    BY <1>1 DEF ParsedTo, Buffered, Unparsed, Ahead
  <1>4. Buffered' = Buffered - k /\ Buffered' \in Nat /\ Unparsed' = Unparsed - k
        /\ Ahead' = Ahead - k /\ Ahead' \in Nat
    BY <1>2, <1>3
  <1>5. Stream' = Stream /\ reader' = reader
    BY DEF Stream, Undelivered
  <1>6. Offset0 \in Nat /\ Len(Stream) = Offset0 + Ahead /\ Offset0' = Len(Stream) - Ahead'
    <2>1. Offset0 \in Nat /\ Offset0 = Len(Stream) - Ahead
      BY <1>1 DEF StreamInv, Offset0
    <2>2. Len(Stream) \in Nat
      BY StreamNat
    <2> QED BY <1>2, <1>5, <2>1, <2>2 DEF Offset0
  <1>7. Offset0' = Offset0 + k /\ Offset0' \in Nat
    BY <1>2, <1>4, <1>6
  <1>8. ASSUME NEW i \in 1..Ahead' PROVE AheadAt(i)' = AheadAt(i + k) /\ i + k \in 1..Ahead
    <2>1. i + k \in 1..Ahead
      BY <1>2, <1>4
    <2>2. AheadAt(i)' = IF i <= Buffered' THEN buf'[at + k + i - 1]
                        ELSE IF i <= Unparsed' THEN data[i - Buffered'] ELSE input[i - Unparsed']
      BY <1>3 DEF AheadAt
    <2>3. AheadAt(i + k) = IF i + k <= Buffered THEN buf[at + (i + k) - 1]
                           ELSE IF i + k <= Unparsed THEN data[i + k - Buffered] ELSE input[i + k - Unparsed]
      BY <1>2 DEF AheadAt
    <2>4. /\ i <= Buffered' <=> i + k <= Buffered
          /\ i <= Unparsed' <=> i + k <= Unparsed
          /\ i - Buffered' = i + k - Buffered /\ i - Unparsed' = i + k - Unparsed
          /\ at + k + i - 1 = at + (i + k) - 1
      BY <1>2, <1>4
    <2>5. i + k <= Buffered => at + k + i - 1 \in Positions /\ at + k + i - 1 >= at + k
      BY <1>2, <1>4 DEF Positions
    <2>6. i + k <= Buffered => buf'[at + k + i - 1] = buf[at + (i + k) - 1]
      BY <2>4, <2>5
    <2> QED BY <2>1, <2>2, <2>3, <2>4, <2>6, Zenon
  <1>9. StreamInv'
    <2>1. ASSUME NEW i \in 1..Ahead' PROVE AheadAt(i)' = Stream'[Offset0' + i]
      <3>1. AheadAt(i)' = AheadAt(i + k) /\ i + k \in 1..Ahead
        BY <1>8
      <3>2. AheadAt(i + k) = Stream[Offset0 + (i + k)]
        BY <1>1, <3>1 DEF StreamInv
      <3>3. Offset0' + i = Offset0 + (i + k)
        BY <1>4, <1>6, <1>7
      <3> QED BY <1>5, <3>1, <3>2, <3>3, Zenon
    <2>2. reader' = "socket" => data' = <<>>
      BY <1>1, <1>5 DEF StreamInv
    <2> QED BY <1>7, <2>1, <2>2, Zenon DEF StreamInv
  <1>10. k \in 1..(end - Parsed) /\ k <= Unparsed /\ Unparsed' <= Ahead' /\ Unparsed' \in Nat
    <2>1. end - Parsed = Buffered
      BY <1>1, <1>2
    <2>2. k <= Buffered
      BY <1>1, <1>2
    <2> HIDE DEF Undelivered
    <2>3. k \in 1..Buffered /\ k <= Unparsed
      BY <1>2, <2>2
    <2>4. Unparsed' \in Nat /\ Unparsed' <= Ahead'
      <3>1. \A x, y, z \in Nat : x + y \in Nat /\ x + y <= (x + y) + z
        OBVIOUS
      <3>2. /\ Buffered' \in Nat /\ Len(data) \in Nat /\ Len(input) \in Nat
            /\ Unparsed' = Buffered' + Len(data) /\ Ahead' = Unparsed' + Len(input)
        BY <1>2, <1>3, <1>4
      <3> QED BY <3>1, <3>2, Zenon
    <2> QED BY <2>1, <2>3, <2>4, Zenon
  <1> QED BY <1>4, <1>7, <1>8, <1>9, <1>10, Zenon

LEMMA ConsumeStep ==
    ASSUME Legal, WellInv, ParserInv', pc \in {"length", "content"}, InCall', Undelivered,
           NEW k \in Nat, k >= 1, at + k <= end, Parsed' = at + k,
           UNCHANGED <<input, data, end, instr>>, state' # "ERROR",
           \A i \in Positions : i >= at + k => buf'[i] = buf[i],
           HeadInv', StalledInv',
           reader = "recording" =>
              /\ state' = "COMPLETE" => Unparsed = k
              /\ Unparsed = k /\ state' # "COMPLETE" => elementv' # <<>> /\ Inner(Head(written)),
           \A i \in 1..Len(elementv') :
              elementv'[i] < instr => i \in 1..Len(elementv) /\ elementv[i] < instr
    PROVE  WellInv'
  <1>1. ParserInv /\ StreamInv /\ RecordingInv /\ ExtentInv
    BY DEF WellInv
  <1>2. /\ k \in 1..(end - Parsed) /\ k <= Unparsed
        /\ Unparsed' = Unparsed - k /\ Ahead' = Ahead - k /\ Ahead' \in Nat
           /\ Offset0' = Offset0 + k
        /\ Unparsed' <= Ahead' /\ Unparsed' \in Nat
        /\ \A i \in 1..Ahead' : AheadAt(i)' = AheadAt(i + k)
        /\ StreamInv'
    BY <1>1, Consumed DEF WellInv
  <1>3. InCall /\ Working /\ Parsed = at /\ pc # "idle" /\ pc' # "idle" /\ written' = written
        /\ reader' = reader
    BY DEF InCall, Working, Parsed, Undelivered
  <1>4. Unparsed \in Nat /\ Ahead \in Nat /\ Unparsed' = Unparsed - k /\ k <= Unparsed
    BY <1>1, <1>2, <1>3, AheadNat
  <1>5. RecordingInv'
    <2> SUFFICES ASSUME reader = "recording"
                 PROVE  /\ \A i \in 1..Unparsed' : AheadAt(i)' = ";" <=> i = Unparsed'
                        /\ Unparsed' = 0 /\ elementv' # <<>>
                           /\ state' # "COMPLETE" => Inner(Head(written))
                        /\ state' = "COMPLETE" => Unparsed' = 0
                        /\ \A i \in 1..Len(elementv') : elementv'[i] < instr => Inner(Head(written))
      BY <1>3 DEF RecordingInv
    <2>1. ASSUME NEW i \in 1..Unparsed' PROVE AheadAt(i)' = ";" <=> i = Unparsed'
      <3>1. i \in 1..Ahead' /\ i + k \in 1..Unparsed /\ (i + k = Unparsed <=> i = Unparsed')
        <4>1. Unparsed' = Unparsed - k /\ Unparsed' <= Ahead' /\ Ahead' \in Nat
              /\ Unparsed' \in Nat /\ Unparsed \in Nat
          BY <1>2, <1>4
        <4> QED BY <4>1
      <3>2. AheadAt(i)' = AheadAt(i + k)
        BY <1>2, <3>1
      <3>3. AheadAt(i + k) = ";" <=> i + k = Unparsed
        BY <1>1, <1>3, <3>1 DEF RecordingInv
      <3> QED BY <3>1, <3>2, <3>3, Zenon
    <2>2. Unparsed' = 0 <=> Unparsed = k
      BY <1>4
    <2>3. \A i \in 1..Len(elementv') : elementv'[i] < instr => Inner(Head(written))
      BY <1>1, <1>3 DEF RecordingInv
    <2> QED BY <2>1, <2>2, <2>3
  <1>6. ExtentInv'
    <2>1. Unparsed # 0
      BY <1>4
    <2>2. Parsed - instr <= Offset0
      BY <1>1, <1>3, <2>1 DEF ExtentInv, Handled
    <2>3. ~ Handled'
      <3> SUFFICES ASSUME reader = "recording", Unparsed' = 0, elementv' = <<>>, state' # "COMPLETE" PROVE FALSE
        BY <1>3 DEF Handled
      <3>1. Unparsed = k
        BY <1>4
      <3> QED BY <3>1
    <2>4. Parsed' - instr' <= Offset0'
      <3>1. Offset0 \in Nat /\ Offset0' = Offset0 + k /\ at \in Nat /\ instr \in Nat
        BY <1>1, <1>2, <1>3, Bounds DEF StreamInv
      <3> QED BY <1>3, <2>2, <3>1
    <2> QED BY <2>3, <2>4 DEF ExtentInv
  <1>7. EndedInv'
    <2>1. pc' \notin {"toolong", "overrun"}
      BY DEF InCall
    <2> QED BY <2>1, NotEnded
  <1>8. WrittenInv' /\ DeliveredExact' /\ ClippedOnlyInside'
    BY UndeliveredKept
  <1> QED BY <1>2, <1>5, <1>6, <1>7, <1>8 DEF WellInv

LEMMA HeadThere ==
    ASSUME pc' # "idle", NEW ins \in Instructions, AtHead(ins)'
    PROVE  HeadInv'
  BY DEF HeadInv, AtHead, Between

\* An element that has ended stays as it is when more is parsed.
LEMMA WholeKept ==
    ASSUME NEW p \in Nat, NEW a, Len(a) \in Nat, Whole(p, a),
           ParsedTo \in Nat, ParsedTo' \in Nat, ParsedTo <= ParsedTo', ParsedTo <= BufSize, BufSize \in Nat,
           \A i \in Positions : i < ParsedTo => buf'[i] = buf[i]
    PROVE  Whole(p, a)'
  <1>1. /\ \A k \in 1..Len(a) : buf[p + k - 1] = a[k]
        /\ buf[p + Len(a)] = NUL /\ p + Len(a) < ParsedTo
    BY DEF Whole
  <1>2. \A k \in 1..Len(a) : p + k - 1 \in Positions /\ p + k - 1 < ParsedTo
    <2>1. p + Len(a) < ParsedTo
      BY <1>1
    <2> QED BY <2>1 DEF Positions
  <1>3. p + Len(a) \in Positions /\ p + Len(a) < ParsedTo /\ p + Len(a) < ParsedTo'
    <2>1. p + Len(a) < ParsedTo
      BY <1>1
    <2> QED BY <2>1 DEF Positions
  <1>4. \A k \in 1..Len(a) : buf'[p + k - 1] = a[k]
    BY <1>1, <1>2, Zenon
  <1>5. buf'[p + Len(a)] = NUL
    BY <1>1, <1>3, Zenon
  <1> QED BY <1>3, <1>4, <1>5, Zenon DEF Whole

\* All that were in the buffer are, and so is the part of the last one.
LEMMA OthersKept ==
    ASSUME Legal, ParserInv, pc \in {"length", "content"}, pc' \in {"length", "content", "parsed"},
           at' \in Nat, at <= at',
           \A i \in Positions : i < at => buf'[i] = buf[i],
           NEW ins \in Instructions, Contents(ins), Len(elementv) <= Len(ins),
           NEW i \in 1..Len(elementv), elementv'[i] = elementv[i],
           i = Len(elementv) => state # "CONTENT", elementv[i] >= 0
    PROVE  Whole(elementv[i], BytesOf(ins[i]))'
  <1>1. Whole(elementv[i], BytesOf(ins[i]))
    BY DEF Contents
  <1>2. ParsedTo = at /\ ParsedTo' = at'
    BY DEF ParsedTo, Parsed
  <1>3. at \in Nat /\ at <= BufSize /\ BufSize \in Nat /\ elementv[i] \in Int
        /\ Len(elementv) \in Nat
    BY Bounds, ElementOfSeq
  <1>4. elementv[i] \in Nat /\ i \in 1..Len(ins)
    <2>1. Len(ins) \in Nat
      BY LegalElement
    <2> QED BY <1>3, <2>1
  <1>5. Len(BytesOf(ins[i])) \in Nat
    BY <1>4, LegalElement, BytesOfIs
  <1>6. PICK p, a : p = elementv[i] /\ a = BytesOf(ins[i])
    OBVIOUS
  <1>7. Whole(p, a)'
    BY <1>1, <1>2, <1>3, <1>4, <1>5, <1>6, WholeKept
  <1>8. Whole(elementv[i], BytesOf(ins[i]))' <=> Whole(p, a)'
    <2>1. elementv'[i] = p
      BY <1>6
    <2> QED BY <1>6, <2>1 DEF Whole
  <1> QED BY <1>7, <1>8

LEMMA LengthDigitWell ==
    ASSUME Legal, WellInv, ParserInv', LengthDigit
    PROVE  WellInv'
  <1>0. ParserInv /\ WrittenInv /\ StreamInv /\ HeadInv /\ RecordingInv
    BY DEF WellInv
  <1>1. /\ pc = "length" /\ pc' = pc /\ at < end /\ buf[at] \in Digits /\ at' = at + 1
        /\ length' = length * 10 + Value(buf[at])
        /\ UNCHANGED <<reader, written, sent, input, data, buf, saved, start, end, instr, state,
                       elementv, got, last, clipped>>
    BY DEF LengthDigit, envvars, pointers, history
  <1>2. state = "LENGTH" /\ Undelivered /\ InCall' /\ Parsed = at /\ Parsed' = at + 1
    BY <1>0, <1>1 DEF ParserInv, PhaseInv, Undelivered, InCall, Parsed
  <1>3. at \in Nat /\ end \in Nat /\ at + 1 <= end
    BY <1>0, <1>1, Bounds
  <1> DEFINE n == Len(elementv)
  <1>4. PICK ins \in Instructions :
           /\ AtHead(ins) /\ n \in Nat /\ n + 1 \in 1..Len(ins) /\ n < Len(ins)
           /\ \/ /\ length = 0 /\ Offset0 = Begin(Parts(ins), n + 1)
                 /\ buf[at] = DIGITS[Len(ins[n + 1]) + 1]
              \/ /\ length = Len(ins[n + 1]) /\ Offset0 = Begin(Parts(ins), n + 1) + 1
                 /\ buf[at] = "."
    BY <1>0, <1>1, AtLength
  <1>5. /\ length = 0 /\ Offset0 = Begin(Parts(ins), n + 1)
        /\ buf[at] = DIGITS[Len(ins[n + 1]) + 1]
    <2>1. buf[at] # "."
      BY <1>1, DigitsListed
    <2> QED BY <1>4, <2>1
  <1>6. length' = Len(ins[n + 1])
    <2>1. Len(ins[n + 1]) \in 0..9
      BY <1>4, LegalElement
    <2>2. PICK v : v = Value(buf[at])
      OBVIOUS
    <2>3. v = Len(ins[n + 1])
      BY <1>5, <2>1, <2>2, DigitValue
    <2>4. length' = 0 * 10 + v
      BY <1>1, <1>5, <2>2
    <2> QED BY <2>1, <2>3, <2>4
  <1>7. /\ 1 \in 1..(end - Parsed)
        /\ Offset0' = Offset0 + 1
    <2>1. /\ \A i \in Positions : i >= at + 1 => buf'[i] = buf[i]
          /\ UNCHANGED <<input, data, end>>
      BY <1>1
    <2>2. 1 \in Nat /\ 1 >= 1 /\ pc \in {"length", "content"}
      BY <1>1
    <2> QED BY <1>0, <1>2, <1>3, <2>1, <2>2, Consumed
  <1>8. HeadInv'
    <2>1. Place(ins)'
      <3>1. Offset0' = Begin(Parts(ins), n + 1) + 1
        BY <1>5, <1>7
      <3> QED BY <1>1, <1>2, <1>4, <1>6, <3>1 DEF Place
    <2>2. Contents(ins)'
      <3> SUFFICES ASSUME NEW i \in 1..n, elementv[i] >= 0 PROVE Whole(elementv[i], BytesOf(ins[i]))'
        BY <1>1, <1>2 DEF Contents
      <3>1. at' \in Nat /\ at <= at'
        BY <1>1, <1>3
      <3>2. Contents(ins) /\ Len(elementv) <= Len(ins)
        <4>1. Len(ins) \in Nat
          BY LegalElement
        <4> QED BY <1>4, <4>1 DEF AtHead
      <3> QED BY <1>0, <1>1, <1>2, <3>1, <3>2, OthersKept
    <2>3. AtHead(ins)'
      BY <1>1, <1>4, <2>1, <2>2 DEF AtHead
    <2> QED BY <1>1, <2>3, HeadThere
  <1>9. reader = "recording" => Unparsed # 1
    <2> SUFFICES ASSUME reader = "recording", Unparsed = 1 PROVE FALSE
      OBVIOUS
    <2>1. AheadAt(1) = ";"
      <3>1. InCall /\ 1 \in 1..Unparsed
        BY <1>1 DEF InCall
      <3> QED BY <1>0, <3>1 DEF RecordingInv
    <2>2. AheadAt(1) = buf[Parsed + 1 - 1] /\ Parsed + 1 - 1 = at
      <3>1. InCall
        BY <1>1 DEF InCall
      <3> QED BY <1>0, <1>2, <1>3, <1>7, <3>1, BufferAhead
    <2> QED BY <1>1, <2>1, <2>2, DigitsListed
  <1>10. StalledInv'
    BY <1>1 DEF StalledInv
  <1>11. state' # "ERROR" /\ state' # "COMPLETE"
    BY <1>1, <1>2
  <1>12. 1 \in Nat /\ 1 >= 1 /\ (\A i \in Positions : i >= at + 1 => buf'[i] = buf[i])
           /\ \A i \in 1..Len(elementv') : elementv'[i] < instr => i \in 1..Len(elementv)
              /\ elementv[i] < instr
    BY <1>1
  <1> QED BY <1>1, <1>2, <1>3, <1>8, <1>9, <1>10, <1>11, <1>12, ConsumeStep

LEMMA LengthPeriodWell ==
    ASSUME Legal, WellInv, ParserInv', LengthPeriod
    PROVE  WellInv'
  <1>0. ParserInv /\ WrittenInv /\ StreamInv /\ HeadInv /\ RecordingInv
    BY DEF WellInv
  <1>1. /\ pc = "length" /\ pc' = "content" /\ at < end /\ buf[at] = "." /\ at' = at + 1
        /\ state' = "CONTENT" /\ elementv' = Append(elementv, at + 1)
        /\ UNCHANGED <<reader, written, sent, input, data, buf, saved, start, end, instr, length,
                       got, last, clipped>>
    BY DEF LengthPeriod, envvars, pointers, history
  <1>2. state = "LENGTH" /\ Undelivered /\ InCall' /\ Parsed = at /\ Parsed' = at + 1
    BY <1>0, <1>1 DEF ParserInv, PhaseInv, Undelivered, InCall, Parsed
  <1>3. at \in Nat /\ end \in Nat /\ at + 1 <= end /\ instr \in Nat /\ instr <= at
    BY <1>0, <1>1, Bounds
  <1>a. PICK n : n = Len(elementv)
    OBVIOUS
  <1> USE <1>a
  <1>4. PICK ins \in Instructions :
           /\ AtHead(ins) /\ n \in Nat /\ n + 1 \in 1..Len(ins) /\ n < Len(ins)
           /\ \/ /\ length = 0 /\ Offset0 = Begin(Parts(ins), n + 1)
                 /\ buf[at] = DIGITS[Len(ins[n + 1]) + 1]
              \/ /\ length = Len(ins[n + 1]) /\ Offset0 = Begin(Parts(ins), n + 1) + 1
                 /\ buf[at] = "."
    BY <1>0, <1>1, AtLength
  <1>5. length = Len(ins[n + 1]) /\ Offset0 = Begin(Parts(ins), n + 1) + 1
    <2>1. DIGITS[Len(ins[n + 1]) + 1] # "."
      BY <1>4, LegalElement, DigitValue, DigitsListed
    <2> QED BY <1>1, <1>4, <2>1
  <1>6. /\ Len(elementv') = n + 1 /\ elementv'[n + 1] = at + 1
        /\ \A i \in 1..n : elementv'[i] = elementv[i]
    <2>1. elementv \in Seq(Int) /\ at + 1 \in Int
      BY <1>0, <1>3, Bounds
    <2> QED BY <1>1, <2>1, AppendProperties
  <1>7. 1 \in 1..(end - Parsed) /\ Offset0' = Offset0 + 1
    <2>1. /\ \A i \in Positions : i >= at + 1 => buf'[i] = buf[i]
          /\ UNCHANGED <<input, data, end>>
      BY <1>1
    <2>2. 1 \in Nat /\ 1 >= 1 /\ pc \in {"length", "content"}
      BY <1>1
    <2> QED BY <1>0, <1>2, <1>3, <2>1, <2>2, Consumed
  <1>8. /\ ins[n + 1] \in Seq(STRING \ {NUL}) /\ Len(ins[n + 1]) \in Nat
        /\ Len(ins[n + 1]) - length + 1 = 1
        /\ Begin(Chars(ins[n + 1]), Len(ins[n + 1]) - length + 1) = 0
    <2>1. ins[n + 1] \in Seq(STRING \ {NUL}) /\ Len(ins[n + 1]) \in Nat
      BY <1>4, LegalElement
    <2>2. Len(ins[n + 1]) - length + 1 = 1
      BY <1>5, <2>1
    <2> QED BY <2>1, <2>2, CharsBegin
  <1>9. HeadInv'
    <2>1. Place(ins)'
      <3>1. Begin(Parts(ins), n + 1) \in Nat
        BY <1>4, ElementAt
      <3>2. Offset0' = Begin(Parts(ins), n + 1) + 2 + 0
        BY <1>5, <1>7, <3>1
      <3>3. length' \in 0..Len(ins[n + 1])
        BY <1>1, <1>5, <1>8
      <3> QED BY <1>1, <1>4, <1>6, <1>8, <3>2, <3>3 DEF Place
    <2>2. Contents(ins)'
      <3>1. ASSUME NEW i \in 1..n, elementv[i] >= 0 PROVE Whole(elementv[i], BytesOf(ins[i]))'
        <4>1. at' \in Nat /\ at <= at'
          BY <1>1, <1>3
        <4>2. Contents(ins) /\ Len(elementv) <= Len(ins)
          <5>1. Len(ins) \in Nat
            BY LegalElement
          <5> QED BY <1>4, <5>1 DEF AtHead
        <4> QED BY <1>0, <1>1, <1>2, <1>6, <3>1, <4>1, <4>2, OthersKept
      <3>2. Partial(elementv[n + 1], BytesOf(ins[n + 1]), 0)'
        <4>1. ParsedTo' = at + 1
          BY <1>1, <1>2 DEF ParsedTo
        <4>2. elementv'[n + 1] + 0 = ParsedTo' /\ 1..0 = {}
          BY <1>3, <1>6, <4>1
        <4> QED BY <4>2 DEF Partial
      <3> SUFFICES ASSUME NEW i \in 1..(n + 1)
                   PROVE  IF i = n + 1
                          THEN Partial(elementv[i], BytesOf(ins[i]), Begin(Chars(ins[i]), Len(ins[i]) - length + 1))'
                          ELSE elementv'[i] >= 0 => Whole(elementv[i], BytesOf(ins[i]))'
        BY <1>1, <1>6 DEF Contents
      <3>3. CASE i = n + 1
        <4>1. Begin(Chars(ins[i]), Len(ins[i]) - length' + 1) = 0
          BY <1>1, <1>8, <3>3
        <4> QED BY <3>2, <3>3, <4>1, Zenon DEF Partial
      <3>4. CASE i # n + 1
        <4>1. i \in 1..n
          BY <1>4, <3>4
        <4> QED BY <1>6, <3>1, <3>4, <4>1
      <3> QED BY <3>3, <3>4
    <2>3. AtHead(ins)'
      BY <1>1, <1>4, <2>1, <2>2 DEF AtHead
    <2> QED BY <1>1, <2>3, HeadThere
  <1>10. reader = "recording" => Unparsed # 1
    <2> SUFFICES ASSUME reader = "recording", Unparsed = 1 PROVE FALSE
      OBVIOUS
    <2>0. InCall
      BY <1>1 DEF InCall
    <2>1. AheadAt(1) = ";"
      <3>1. 1 \in 1..Unparsed
        OBVIOUS
      <3> QED BY <1>0, <2>0, <3>1 DEF RecordingInv
    <2>2. AheadAt(1) = buf[Parsed + 1 - 1] /\ Parsed + 1 - 1 = at
      BY <1>0, <1>2, <1>3, <1>7, <2>0, BufferAhead
    <2> QED BY <1>1, <2>1, <2>2
  <1>11. StalledInv'
    BY <1>1 DEF StalledInv
  <1>12. state' # "ERROR" /\ state' # "COMPLETE"
    BY <1>1
  <1>13. \A i \in 1..Len(elementv') : elementv'[i] < instr => i \in 1..Len(elementv)
         /\ elementv[i] < instr
    <2> SUFFICES ASSUME NEW i \in 1..(n + 1), elementv'[i] < instr
                 PROVE  i \in 1..n /\ elementv[i] < instr
      BY <1>6
    <2>1. i # n + 1
      BY <1>3, <1>6
    <2>2. i \in 1..n
      BY <1>4, <2>1
    <2> QED BY <1>6, <2>2
  <1>14. 1 \in Nat /\ 1 >= 1 /\ (\A i \in Positions : i >= at + 1 => buf'[i] = buf[i])
           /\ UNCHANGED <<input, data, end, instr>> /\ pc \in {"length", "content"}
    BY <1>1
  <1> QED BY <1>2, <1>3, <1>9, <1>10, <1>11, <1>12, <1>13, <1>14, ConsumeStep

\* One character more of the last element, and the end of its string.
LEMMA PartialMore ==
    ASSUME NEW p \in Int, NEW a, NEW m \in Nat, NEW c \in 1..2, Partial(p, a, m),
           buf' = buf, ParsedTo \in Nat, ParsedTo' = ParsedTo + c,
           buf[ParsedTo] = a[m + 1], c = 2 => buf[ParsedTo + 1] = a[m + 2]
    PROVE  Partial(p, a, m + c)'
  <1>1. p + m = ParsedTo /\ (p >= 0 => \A k \in 1..m : buf[p + k - 1] = a[k])
    BY DEF Partial
  <1>2. p + (m + c) = ParsedTo'
    <2>1. p + m = ParsedTo
      BY <1>1
    <2> QED BY <2>1
  <1>3. ASSUME p >= 0, NEW k \in 1..(m + c) PROVE buf'[p + k - 1] = a[k]
    <2>1. \/ k \in 1..m
          \/ k = m + 1 /\ p + k - 1 = ParsedTo
          \/ c = 2 /\ k = m + 2 /\ p + k - 1 = ParsedTo + 1
      <3>1. p + m = ParsedTo
        BY <1>1
      <3> QED BY <3>1
    <2> QED BY <1>1, <1>3, <2>1, Zenon
  <1> QED BY <1>2, <1>3 DEF Partial

LEMMA PartialEnd ==
    ASSUME NEW p \in Nat, NEW a, Len(a) \in Nat, Partial(p, a, Len(a)), BufSize \in Nat,
           ParsedTo \in Nat, ParsedTo < BufSize, ParsedTo' = ParsedTo + 1, buf'[ParsedTo] = NUL,
           \A i \in Positions : i < ParsedTo => buf'[i] = buf[i]
    PROVE  Whole(p, a)'
  <1>1. p + Len(a) = ParsedTo /\ \A k \in 1..Len(a) : buf[p + k - 1] = a[k]
    BY DEF Partial
  <1>2. p + Len(a) = ParsedTo /\ p + Len(a) < ParsedTo'
    <2>1. p + Len(a) = ParsedTo
      BY <1>1
    <2> QED BY <2>1
  <1>3. ASSUME NEW k \in 1..Len(a) PROVE buf'[p + k - 1] = a[k]
    <2>1. p + k - 1 \in Positions /\ p + k - 1 < ParsedTo
      BY <1>2 DEF Positions
    <2> QED BY <1>1, <2>1, Zenon
  <1> QED BY <1>2, <1>3 DEF Whole

LEMMA ContentCharacterWell ==
    ASSUME Legal, WellInv, ParserInv', ContentCharacter
    PROVE  WellInv'
  <1>0. ParserInv /\ WrittenInv /\ StreamInv /\ HeadInv /\ RecordingInv
    BY DEF WellInv
  <1>1. /\ pc = "content" /\ pc' = pc /\ CharComplete /\ length > 0
        /\ length' = length - 1 /\ at' = at + CharSize(buf[at])
        /\ UNCHANGED <<reader, written, sent, input, data, buf, saved, start, end, instr, state,
                       elementv, got, last, clipped>>
    BY DEF ContentCharacter, envvars, pointers, history
  <1>2. state = "CONTENT" /\ Undelivered /\ InCall /\ InCall' /\ Parsed = at /\ Parsed' = at'
    BY <1>0, <1>1 DEF ParserInv, PhaseInv, Undelivered, InCall, Parsed
  <1>a. PICK n : n = Len(elementv)
    OBVIOUS
  <1>b. PICK c : c = CharSize(buf[at])
    OBVIOUS
  <1>3. /\ at \in Nat /\ end \in Nat /\ at + c <= end /\ instr \in Nat /\ instr <= at
           /\ length \in Nat
        /\ c \in 1..2 /\ c \in Nat /\ c >= 1 /\ at < end /\ at' = at + c
    <2>1. c \in 1..2 /\ c \in Nat /\ c >= 1
      BY <1>b DEF CharSize
    <2>2. at < end /\ at + c <= end /\ at' = at + c
      BY <1>1, <1>b DEF CharComplete
    <2> QED BY <1>0, <1>1, <2>1, <2>2, Bounds
  <1>4. PICK ins \in Instructions :
              LET e == ins[n]
                  b == BytesOf(e)
                  m == Begin(Chars(e), Len(e) - length + 1) IN
              /\ AtHead(ins) /\ n \in 1..Len(ins) /\ length \in 0..Len(e)
              /\ m \in Nat /\ Len(b) \in Nat /\ Offset0 = Begin(Parts(ins), n) + 2 + m
              /\ length > 0 =>
                    /\ Begin(Chars(e), Len(e) - (length - 1) + 1) = m + CharSize(buf[at])
                    /\ m + CharSize(buf[at]) <= Len(b)
                    /\ buf[at] = b[m + 1] /\ (buf[at] = "w" => buf[at + 1] = b[m + 2])
              /\ length = 0 =>
                    m = Len(b) /\ buf[at] = IF n = Len(ins) THEN ";" ELSE ","
    BY <1>0, <1>1, <1>a, AtContent
  <1>5. PICK e, b, m : e = ins[n] /\ b = BytesOf(e) /\ m = Begin(Chars(e), Len(e) - length + 1)
    OBVIOUS
  <1>6. /\ AtHead(ins) /\ n \in 1..Len(ins) /\ length \in 0..Len(e)
        /\ m \in Nat /\ Len(b) \in Nat /\ Offset0 = Begin(Parts(ins), n) + 2 + m
        /\ Begin(Chars(e), Len(e) - (length - 1) + 1) = m + c
        /\ m + c <= Len(b)
        /\ buf[at] = b[m + 1] /\ (buf[at] = "w" => buf[at + 1] = b[m + 2])
    BY <1>1, <1>4, <1>5, <1>b
  <1>7. c \in 1..(end - Parsed) /\ Offset0' = Offset0 + c
    <2>1. /\ \A i \in Positions : i >= at + c => buf'[i] = buf[i]
          /\ UNCHANGED <<input, data, end>>
      BY <1>1
    <2>2. pc \in {"length", "content"}
      BY <1>1
    <2>3. Parsed' = at + c
      BY <1>2, <1>3
    <2> QED BY <1>0, <1>2, <1>3, <2>1, <2>2, <2>3, Consumed
  <1>8. HeadInv'
    <2>1. Place(ins)'
      <3>1. Begin(Parts(ins), n) \in Nat
        BY <1>6, ElementAt
      <3>2. Offset0' = Begin(Parts(ins), n) + 2 + (m + c)
        <4>1. Offset0 = Begin(Parts(ins), n) + 2 + m /\ m \in Nat
          BY <1>6
        <4> QED BY <1>3, <1>7, <3>1, <4>1
      <3>3. length' \in 0..Len(ins[n])
        <4>1. length \in 0..Len(e) /\ Len(e) \in Nat
          BY <1>5, <1>6, LegalElement
        <4> QED BY <1>1, <1>5, <4>1
      <3>4. Offset0' = Begin(Parts(ins), n) + 2 + Begin(Chars(ins[n]), Len(ins[n]) - length' + 1)
        <4>1. Begin(Chars(e), Len(e) - (length - 1) + 1) = m + c
          BY <1>6
        <4> QED BY <1>1, <1>5, <3>2, <4>1, Zenon
      <3>5. Len(elementv') = n /\ state' = "CONTENT"
        BY <1>1, <1>2, <1>a
      <3> QED BY <1>6, <3>3, <3>4, <3>5 DEF Place
    <2>2. Contents(ins)'
      <3>1. ASSUME NEW i \in 1..n, i # n, elementv[i] >= 0 PROVE Whole(elementv[i], BytesOf(ins[i]))'
        <4>1. at' \in Nat /\ at <= at'
          BY <1>3
        <4>2. Contents(ins) /\ Len(elementv) <= Len(ins)
          <5>1. Len(ins) \in Nat
            BY LegalElement
          <5> QED BY <1>6, <1>a, <5>1 DEF AtHead
        <4>3. elementv'[i] = elementv[i] /\ \A j \in Positions : j < at => buf'[j] = buf[j]
          BY <1>1
        <4>4. pc \in {"length", "content"} /\ pc' \in {"length", "content", "parsed"}
          BY <1>1
        <4> QED BY <1>0, <1>a, <3>1, <4>1, <4>2, <4>3, <4>4, OthersKept
      <3>2. PICK p : p = elementv[n]
        OBVIOUS
      <3>3. Partial(p, b, m)
        <4>1. n \in 1..Len(elementv) /\ n = Len(elementv)
          <5>1. n \in 1..Len(ins)
            BY <1>6
          <5> QED BY <1>a, <5>1
        <4>2. Partial(elementv[n], BytesOf(ins[n]), Begin(Chars(ins[n]), Len(ins[n]) - length + 1))
          BY <1>2, <1>6, <4>1 DEF AtHead, Contents
        <4> QED BY <1>5, <3>2, <4>2
      <3>4. Partial(p, b, m + c)'
        <4>1. ParsedTo = at /\ ParsedTo' = at + c
          BY <1>1, <1>2, <1>3 DEF ParsedTo
        <4>2. c = 2 => buf[at] = "w"
          BY <1>b DEF CharSize
        <4>3. p \in Int
          <5>1. elementv \in Seq(Int) /\ n \in 1..Len(elementv)
            BY <1>0, <1>6, <1>a, Bounds
          <5> QED BY <3>2, <5>1, ElementOfSeq
        <4>4. m \in Nat
          BY <1>6
        <4>5. buf[ParsedTo] = b[m + 1] /\ (c = 2 => buf[ParsedTo + 1] = b[m + 2])
          BY <1>6, <4>1, <4>2, Zenon
        <4>6. buf' = buf
          BY <1>1
        <4> QED BY <1>3, <3>3, <4>1, <4>3, <4>4, <4>5, <4>6, PartialMore
      <3> SUFFICES ASSUME NEW i \in 1..n
                   PROVE  IF i = n
                          THEN Partial(elementv[i], BytesOf(ins[i]), Begin(Chars(ins[i]), Len(ins[i]) - length + 1))'
                          ELSE elementv'[i] >= 0 => Whole(elementv[i], BytesOf(ins[i]))'
        BY <1>1, <1>2, <1>a DEF Contents
      <3>5. CASE i = n
        <4>1. Begin(Chars(ins[i]), Len(ins[i]) - length' + 1) = m + c /\ BytesOf(ins[i]) = b
              /\ elementv'[i] = p
          <5>1. Begin(Chars(e), Len(e) - (length - 1) + 1) = m + c
            BY <1>6
          <5>2. length' = length - 1 /\ elementv' = elementv
            BY <1>1
          <5> QED BY <1>5, <3>2, <3>5, <5>1, <5>2, Zenon
        <4> QED BY <3>4, <3>5, <4>1 DEF Partial
      <3>6. CASE i # n
        BY <1>1, <3>1, <3>6
      <3> QED BY <3>5, <3>6
    <2>3. AtHead(ins)'
      BY <1>1, <1>6, <2>1, <2>2 DEF AtHead
    <2>4. pc' # "idle"
      BY <1>1
    <2> QED BY <2>3, <2>4, HeadThere
  <1>9. ASSUME reader = "recording", Unparsed = c PROVE elementv' # <<>> /\ Inner(Head(written))
    <2>1. AheadAt(c) = ";"
      <3>1. c \in 1..Unparsed
        BY <1>3, <1>9
      <3> QED BY <1>0, <1>2, <1>9, <3>1 DEF RecordingInv
    <2>2. AheadAt(c) = buf[Parsed + c - 1]
      BY <1>0, <1>2, <1>7, BufferAhead
    <2>3. \E k \in 1..Len(b) : b[k] = ";"
      <3>1. CASE c = 1
        <4>1. Parsed + c - 1 = at /\ m + 1 \in 1..Len(b)
          <5>1. m \in Nat /\ Len(b) \in Nat /\ m + c <= Len(b)
            BY <1>6
          <5> QED BY <1>2, <1>3, <3>1, <5>1
        <4>2. b[m + 1] = ";"
          BY <1>6, <2>1, <2>2, <4>1, Zenon
        <4> QED BY <4>1, <4>2
      <3>2. CASE c = 2
        <4>1. Parsed + c - 1 = at + 1 /\ m + 2 \in 1..Len(b)
          <5>1. m \in Nat /\ Len(b) \in Nat /\ m + c <= Len(b)
            BY <1>6
          <5> QED BY <1>2, <1>3, <3>2, <5>1
        <4>2. buf[at] = "w"
          BY <1>b, <3>2 DEF CharSize
        <4>3. b[m + 2] = ";"
          BY <1>6, <2>1, <2>2, <4>1, <4>2, Zenon
        <4> QED BY <4>1, <4>3
      <3>3. c = 1 \/ c = 2
        BY <1>3
      <3> QED BY <3>1, <3>2, <3>3, Zenon
    <2>4. ";" \in ToSet(BytesOf(ins[n]))
      <3>1. b \in Seq(Symbols)
        BY <1>5, <1>6, LegalElement, BytesOfIs
      <3>2. DOMAIN b = 1..Len(b)
        BY <3>1, LenProperties
      <3> QED BY <1>5, <2>3, <3>2 DEF ToSet
    <2>5. Head(written).args[n] = BytesOf(ins[n]) /\ n \in DOMAIN Head(written).args
      <3>1. Head(written) = Well(ins)
        BY <1>6 DEF AtHead
      <3>2. DOMAIN ins = 1..Len(ins)
        BY LegalElement, LenProperties
      <3> QED BY <1>6, <3>1, <3>2 DEF Well
    <2>6. elementv' # <<>>
      <3>1. Len(elementv) # 0
        BY <1>6, <1>a
      <3> QED BY <1>1, <3>1, EmptySeq
    <2> QED BY <2>4, <2>5, <2>6 DEF Inner
  <1>10. StalledInv'
    BY <1>1 DEF StalledInv
  <1>11. state' # "ERROR" /\ state' # "COMPLETE"
    BY <1>1, <1>2
  <1>12. (\A i \in Positions : i >= at + c => buf'[i] = buf[i])
           /\ \A i \in 1..Len(elementv') : elementv'[i] < instr => i \in 1..Len(elementv)
              /\ elementv[i] < instr
    BY <1>1
  <1>13. UNCHANGED <<input, data, end, instr>> /\ pc \in {"length", "content"}
    BY <1>1
  <1>14. Parsed' = at + c
    BY <1>2, <1>3
  <1> QED BY <1>2, <1>3, <1>8, <1>9, <1>10, <1>11, <1>12, <1>13, <1>14, ConsumeStep

LEMMA ContentTerminatorWell ==
    ASSUME Legal, WellInv, ParserInv', ContentTerminator
    PROVE  WellInv'
  <1>0. ParserInv /\ WrittenInv /\ StreamInv /\ HeadInv /\ RecordingInv
    BY DEF WellInv
  <1>1. /\ pc = "content" /\ pc' = "parsed" /\ CharComplete /\ length = 0
        /\ state' = IF buf[at] = ";" THEN "COMPLETE" ELSE "LENGTH"
        /\ buf' = [buf EXCEPT ![at] = NUL] /\ at' = at + 1
        /\ UNCHANGED <<reader, written, sent, input, data, saved, start, end, instr, length,
                       elementv, got, last, clipped>>
    BY DEF ContentTerminator, envvars, pointers, history
  <1>1a. at' = at + 1 /\ start' = start /\ UNCHANGED <<input, data, end, instr>>
    BY <1>1
  <1>2. state = "CONTENT" /\ Undelivered /\ InCall /\ InCall' /\ Parsed = at /\ Parsed' = at'
    BY <1>0, <1>1 DEF ParserInv, PhaseInv, Undelivered, InCall, Parsed
  <1>a. PICK n : n = Len(elementv)
    OBVIOUS
  <1>3. /\ at \in Nat /\ end \in Nat /\ at + 1 <= end /\ start \in Nat /\ start <= at
           /\ at' = at + 1
        /\ BufSize \in Nat /\ at < BufSize /\ at \in Positions
    <2>1. at < end
      BY <1>1 DEF CharComplete
    <2>2. /\ at \in Nat /\ end \in Nat /\ start \in Nat /\ start <= at /\ BufSize \in Nat
             /\ end <= BufSize
      BY <1>0, <1>1, Bounds
    <2> QED BY <1>1a, <2>1, <2>2 DEF Positions
  <1>4. PICK ins \in Instructions :
              LET e == ins[n]
                  b == BytesOf(e)
                  m == Begin(Chars(e), Len(e) - length + 1) IN
              /\ AtHead(ins) /\ n \in 1..Len(ins) /\ length \in 0..Len(e)
              /\ m \in Nat /\ Len(b) \in Nat /\ Offset0 = Begin(Parts(ins), n) + 2 + m
              /\ length > 0 =>
                    /\ Begin(Chars(e), Len(e) - (length - 1) + 1) = m + CharSize(buf[at])
                    /\ m + CharSize(buf[at]) <= Len(b)
                    /\ buf[at] = b[m + 1] /\ (buf[at] = "w" => buf[at + 1] = b[m + 2])
              /\ length = 0 =>
                    m = Len(b) /\ buf[at] = IF n = Len(ins) THEN ";" ELSE ","
    BY <1>0, <1>1, <1>a, AtContent
  <1>5. PICK b, p : b = BytesOf(ins[n]) /\ p = Begin(Parts(ins), n)
    OBVIOUS
  <1>6. /\ AtHead(ins) /\ n \in 1..Len(ins) /\ Len(b) \in Nat
        /\ Begin(Chars(ins[n]), Len(ins[n]) - length + 1) = Len(b)
        /\ Offset0 = p + 2 + Len(b) /\ buf[at] = IF n = Len(ins) THEN ";" ELSE ","
    BY <1>1, <1>4, <1>5
  <1>6a. AtHead(ins) /\ n \in 1..Len(ins) /\ Len(b) \in Nat
    BY <1>6
  <1>7. /\ p \in Nat /\ Begin(Parts(ins), n + 1) = p + Len(b) + 3
        /\ (n = Len(ins) => p + Len(b) + 3 = Len(Encoded(ins)))
    BY <1>5, <1>6, ElementAt
  <1>8. /\ \A i \in Positions : i # at => buf'[i] = buf[i]
        /\ buf'[at] = NUL
    <2>1. buf \in [Positions -> Bytes]
      BY <1>0, Bounds
    <2> QED BY <1>1, <1>3, <2>1
  <1>9. /\ \A i \in Positions : i >= at + 1 => buf'[i] = buf[i]
        /\ \A i \in Positions : i < at => buf'[i] = buf[i]
    <2>1. \A i \in Positions : (i >= at + 1 => i # at) /\ (i < at => i # at)
      BY <1>3 DEF Positions
    <2> QED BY <1>8, <2>1, Zenon
  <1>10. 1 \in 1..(end - Parsed) /\ Offset0' = Offset0 + 1
    <2>1. UNCHANGED <<input, data, end>> /\ pc \in {"length", "content"}
      BY <1>1, <1>1a, Zenon
    <2>3. 1 \in Nat /\ 1 >= 1
      OBVIOUS
    <2>2. Parsed' = at + 1
      BY <1>2, <1>3
    <2> QED BY <1>0, <1>2, <1>3, <1>9, <2>1, <2>2, <2>3, Consumed
  <1>11. Offset0' = p + Len(b) + 3
    <2>1. Offset0 = p + 2 + Len(b)
      BY <1>6
    <2>2. p \in Nat /\ Len(b) \in Nat
      BY <1>6, <1>7
    <2> QED BY <1>10, <2>1, <2>2
  <1>12. HeadInv'
    <2>1. Place(ins)'
      <3>1. Len(elementv') = n /\ length' = 0
        BY <1>1, <1>a
      <3>2. CASE n = Len(ins)
        <4>1. state' = "COMPLETE"
          BY <1>1, <1>6, <3>2
        <4> QED BY <1>7, <1>11, <3>1, <3>2, <4>1 DEF Place
      <3>3. CASE n # Len(ins)
        <4>1. state' = "LENGTH"
          BY <1>1, <1>6, <3>3
        <4>2. n < Len(ins)
          <5>1. n \in 1..Len(ins) /\ Len(ins) \in Nat
            BY <1>6, LegalElement
          <5> QED BY <3>3, <5>1
        <4>3. Offset0' = Begin(Parts(ins), n + 1)
          BY <1>7, <1>11, Zenon
        <4> QED BY <3>1, <4>1, <4>2, <4>3 DEF Place
      <3> QED BY <3>2, <3>3
    <2>2. Contents(ins)'
      <3>1. ASSUME NEW i \in 1..n, i # n, elementv[i] >= 0 PROVE Whole(elementv[i], BytesOf(ins[i]))'
        <4>1. at' \in Nat /\ at <= at'
          BY <1>3
        <4>2. Contents(ins) /\ Len(elementv) <= Len(ins)
          <5>1. Len(ins) \in Nat
            BY LegalElement
          <5> QED BY <1>6a, <1>a, <5>1 DEF AtHead
        <4>3. elementv'[i] = elementv[i]
          BY <1>1
        <4>4. pc \in {"length", "content"} /\ pc' \in {"length", "content", "parsed"}
          BY <1>1
        <4> QED BY <1>0, <1>9, <1>a, <3>1, <4>1, <4>2, <4>3, <4>4, OthersKept
      <3>2. PICK q : q = elementv[n]
        OBVIOUS
      <3>3. Partial(q, b, Len(b))
        <4>1. n \in 1..Len(elementv) /\ n = Len(elementv)
          <5>1. n \in 1..Len(ins)
            BY <1>6
          <5> QED BY <1>a, <5>1
        <4>2. Partial(elementv[n], BytesOf(ins[n]), Begin(Chars(ins[n]), Len(ins[n]) - length + 1))
          BY <1>2, <1>6, <4>1 DEF AtHead, Contents
        <4> QED BY <1>5, <1>6, <3>2, <4>2
      <3>4. ASSUME q >= 0 PROVE Whole(q, b)'
        <4>1. ParsedTo = at /\ ParsedTo' = at + 1
          BY <1>1, <1>2, <1>3 DEF ParsedTo
        <4>2. q \in Nat
          <5>1. elementv \in Seq(Int) /\ n \in 1..Len(elementv)
            BY <1>0, <1>6a, <1>a, Bounds
          <5>2. q \in Int
            BY <3>2, <5>1, ElementOfSeq
          <5> QED BY <3>4, <5>2
        <4>3. Len(b) \in Nat
          BY <1>6
        <4> QED BY <1>3, <1>8, <1>9, <3>3, <4>1, <4>2, <4>3, PartialEnd
      <3>5. state' # "CONTENT"
        BY <1>1
      <3> SUFFICES ASSUME NEW i \in 1..n, elementv'[i] >= 0
                   PROVE  Whole(elementv[i], BytesOf(ins[i]))'
        BY <1>1, <1>a, <3>5 DEF Contents
      <3>6. CASE i = n
        <4>1. elementv'[i] = q /\ BytesOf(ins[i]) = b
          BY <1>1, <1>5, <3>2, <3>6
        <4>2. Whole(q, b)'
          BY <3>4, <4>1
        <4> QED BY <4>1, <4>2 DEF Whole
      <3>7. CASE i # n
        BY <1>1, <3>1, <3>7
      <3> QED BY <3>6, <3>7
    <2>3. AtHead(ins)'
      BY <1>1, <1>6, <2>1, <2>2 DEF AtHead
    <2>4. pc' # "idle"
      BY <1>1
    <2> QED BY <2>3, <2>4, HeadThere
  <1>13. ASSUME reader = "recording" PROVE buf[at] = ";" <=> Unparsed = 1
    <2>1. AheadAt(1) = buf[Parsed + 1 - 1] /\ 1 \in 1..Unparsed
      BY <1>0, <1>2, <1>10, BufferAhead
    <2>2. Parsed + 1 - 1 = at
      BY <1>2, <1>3
    <2>3. AheadAt(1) = ";" <=> 1 = Unparsed
      BY <1>0, <1>2, <1>13, <2>1 DEF RecordingInv
    <2> QED BY <2>1, <2>2, <2>3, Zenon
  <1>14. StalledInv'
    <2>1. at' # start'
      BY <1>1a, <1>3
    <2> QED BY <2>1 DEF StalledInv
  <1>15. /\ state' # "ERROR" /\ (state' = "COMPLETE" <=> buf[at] = ";")
    BY <1>1
  <1>16. \A i \in 1..Len(elementv') : elementv'[i] < instr => i \in 1..Len(elementv)
         /\ elementv[i] < instr
    BY <1>1
  <1>17. UNCHANGED <<input, data, end, instr>> /\ pc \in {"length", "content"}
    BY <1>1, <1>1a, Zenon
  <1>17a. 1 \in Nat /\ 1 >= 1
    OBVIOUS
  <1>18. Parsed' = at + 1
    BY <1>2, <1>3
  <1> QED BY <1>2, <1>3, <1>9, <1>12, <1>13, <1>14, <1>15, <1>16, <1>17, <1>17a, <1>18,
             ConsumeStep

-----------------------------------------------------------------------------
(* Steps that end the reader.                                              *)

LEMMA RefusedWell ==
    ASSUME WellInv, ParserInv', Fail, written # <<>>, ~ Acceptable(Head(written))
    PROVE  WellInv'
  <1>1. pc' = "ended" /\ Undelivered /\ written' = written
    BY DEF Fail, Undelivered, envvars, history
  <1>2. EndedInv'
    BY <1>1 DEF EndedInv, RefusedOnlyBroken, TooLongOnly
  <1> QED BY <1>1, <1>2, NotWorking, UndeliveredKept DEF WellInv

\* The limit is met within an instruction that has as many elements.
LEMMA TooManyElementsWell ==
    ASSUME Legal, WellInv, ParserInv', TooManyElements
    PROVE  WellInv'
  <1>0. ParserInv /\ WrittenInv /\ StreamInv /\ HeadInv
    BY DEF WellInv
  <1>1. pc = "append" /\ Len(elementv) = MaxElements /\ Fail
    BY DEF TooManyElements, AtLimit
  <1>2. Working /\ ~ Between /\ state \in {"LENGTH", "CONTENT"}
    BY <1>0, <1>1 DEF Working, InCall, Between, ParserInv, PhaseInv
  <1>3. ~ Fresh
    <2>1. Len(elementv) # 0
      BY <1>1, ParserAssumption
    <2> QED BY <2>1, EmptySeq DEF Fresh
  <1>4. PICK ins \in Instructions : AtHead(ins)
    BY <1>0, <1>2, <1>3, HeadCase
  <1>5. Len(elementv) <= Len(ins) /\ Len(ins) \in Nat
    <2>1. Len(ins) \in Nat /\ Len(elementv) \in Nat
      BY <1>0, LegalElement, Bounds
    <2>2. Len(elementv) < Len(ins) \/ Len(elementv) \in 1..Len(ins)
      BY <1>2, <1>4 DEF AtHead, Place
    <2> QED BY <2>1, <2>2
  <1>6. ~ Acceptable(Head(written))
    <2>1. Head(written).args = [i \in DOMAIN ins |-> BytesOf(ins[i])]
      BY <1>4 DEF AtHead, Well
    <2>2. DOMAIN ins = 1..Len(ins)
      BY LegalElement, LenProperties
    <2>3. Len(Head(written).args) = Len(ins)
      BY <1>5, <2>1, <2>2
    <2>4. ~ (Len(ins) < MaxElements)
      BY <1>1, <1>5, ParserAssumption
    <2> QED BY <2>3, <2>4 DEF Acceptable
  <1> QED BY <1>1, <1>4, <1>6, RefusedWell DEF AtHead

\* The length that is refused is that of an element that is too long.
LEMMA LengthErrorWell ==
    ASSUME Legal, WellInv, ParserInv', LengthError
    PROVE  WellInv'
  <1>0. ParserInv /\ WrittenInv /\ StreamInv /\ HeadInv
    BY DEF WellInv
  <1>1. /\ pc = "length" /\ Fail
        /\ (at < end /\ buf[at] \notin Digits \union {"."}) \/ length > MaxLength
    BY DEF LengthError
  <1>2. Working /\ ~ Between /\ state = "LENGTH"
    BY <1>0, <1>1 DEF Working, InCall, Between, ParserInv, PhaseInv
  <1>3. ~ (at < end /\ buf[at] \notin Digits \union {"."})
    <2> SUFFICES ASSUME at < end PROVE buf[at] \in Digits \union {"."}
      OBVIOUS
    <2>1. PICK ins \in Instructions :
              LET n == Len(elementv) IN
              /\ AtHead(ins) /\ n \in Nat /\ n + 1 \in 1..Len(ins) /\ n < Len(ins)
              /\ \/ /\ length = 0 /\ Offset0 = Begin(Parts(ins), n + 1)
                    /\ buf[at] = DIGITS[Len(ins[n + 1]) + 1]
                 \/ /\ length = Len(ins[n + 1]) /\ Offset0 = Begin(Parts(ins), n + 1) + 1
                    /\ buf[at] = "."
      BY <1>0, <1>1, AtLength
    <2>2. DIGITS[Len(ins[Len(elementv) + 1]) + 1] \in Digits
      BY <2>1, LegalElement, DigitValue
    <2> QED BY <2>1, <2>2
  <1>4. length > MaxLength /\ MaxLength \in Nat /\ length \in Nat /\ length # 0
    BY <1>0, <1>1, <1>3, Bounds, ParserAssumption
  <1>5. PICK ins \in Instructions : AtHead(ins)
    BY <1>0, <1>2, <1>4, HeadCase DEF Fresh
  <1>6. PICK j : j = Len(elementv) + 1
    OBVIOUS
  <1>7. j \in 1..Len(ins) /\ length = Len(ins[j])
    <2>1. Len(elementv) < Len(ins) /\ length = Len(ins[j])
      BY <1>2, <1>4, <1>5, <1>6 DEF AtHead, Place
    <2>2. Len(elementv) \in Nat /\ Len(ins) \in Nat
      BY <1>0, Bounds, LegalElement
    <2> QED BY <1>6, <2>1, <2>2
  <1>8. ~ (Len(BytesOf(ins[j])) <= MaxLength)
    <2>1. Len(BytesOf(ins[j])) >= Len(ins[j]) /\ Len(BytesOf(ins[j])) \in Nat
      BY <1>7, LegalElement, CharsBegin, BytesOfIs
    <2> QED BY <1>4, <1>7, <2>1
  <1>9. ~ Acceptable(Head(written))
    <2>1. Head(written).args = [i \in DOMAIN ins |-> BytesOf(ins[i])]
      BY <1>5 DEF AtHead, Well
    <2>2. DOMAIN ins = 1..Len(ins)
      BY LegalElement, LenProperties
    <2>3. j \in DOMAIN Head(written).args /\ Head(written).args[j] = BytesOf(ins[j])
      BY <1>7, <2>1, <2>2
    <2> QED BY <1>8, <2>3 DEF Acceptable
  <1> QED BY <1>1, <1>5, <1>9, RefusedWell DEF AtHead

\* Behind the last character of an element there is a terminator.
LEMMA NoContentError ==
    ASSUME Legal, WellInv
    PROVE  ~ ContentError
  <1> SUFFICES ASSUME pc = "content", CharComplete, length = 0, buf[at] \notin {";", ","} PROVE FALSE
    BY DEF ContentError
  <1>0. ParserInv /\ WrittenInv /\ StreamInv /\ HeadInv
    BY DEF WellInv
  <1>1. PICK ins \in Instructions : length = 0 => buf[at] = IF Len(elementv) = Len(ins) THEN ";" ELSE ","
    BY <1>0, AtContent
  <1> QED BY <1>1

LEMMA GivesUpWell ==
    ASSUME WellInv, ParserInv', SocketGivesUp
    PROVE  WellInv'
  <1>1. pc' = "closed" /\ Undelivered /\ state' = state /\ pc = "parsed"
    BY DEF SocketGivesUp, NeedsData, Undelivered, envvars, parser, history
  <1>2. EndedInv'
    <2>1. state' # "ERROR"
      BY <1>1 DEF WellInv, ParserInv, PhaseInv
    <2> QED BY <1>1, <2>1, NotEnded
  <1> QED BY <1>1, <1>2, NotWorking, UndeliveredKept DEF WellInv

\* The instruction that does not fit reaches at least to the end of the buffer.
LEMMA TooLongWell ==
    ASSUME Legal, BufSize > 1, WellInv, ParserInv', TooLong
    PROVE  WellInv'
  <1>0. ParserInv /\ WrittenInv /\ StreamInv /\ HeadInv /\ StalledInv /\ RecordingInv /\ ExtentInv
    BY DEF WellInv
  <1>1. /\ pc = "parsed" /\ pc' = "toolong" /\ at = start /\ end = BufSize /\ instr = 0
           /\ Undelivered
        /\ UNCHANGED <<written, last, elementv, start, end, state, buf>>
    BY DEF TooLong, Undelivered, envvars, parser, pointers, history
  <1>2. InCall /\ Working /\ ~ Between /\ Parsed = at /\ state # "ERROR" /\ state # "COMPLETE"
    BY <1>0, <1>1 DEF InCall, Working, Between, Parsed, ParserInv, PhaseInv, StalledInv
  <1>3. at \in Nat /\ BufSize \in Nat /\ (at = BufSize \/ at + 1 = BufSize)
    BY <1>0, <1>1, Bounds DEF StalledInv
  <1>4. at <= (IF Handled THEN Len(last.bytes) ELSE Offset0)
    <2>1. Parsed - instr = at
      BY <1>1, <1>2, <1>3
    <2> QED BY <1>0, <1>2, <2>1 DEF ExtentInv
  <1>5. Unparsed \in Nat /\ Ahead \in Nat /\ Unparsed <= Ahead /\ (at # BufSize => Unparsed > 0)
    <2>1. /\ ParsedTo = at /\ ParsedTo + Buffered = BufSize /\ Buffered \in Nat
          /\ Unparsed = Buffered + Len(data) /\ Ahead = Unparsed + Len(input)
          /\ Len(data) \in Nat /\ Len(input) \in Nat
      BY <1>0, <1>1, <1>2, AheadNat
    <2> QED BY <1>3, <2>1
  <1>6. CASE elementv = <<>> /\ at = BufSize
    <2>1. Handled
      <3> SUFFICES ASSUME ~ Handled PROVE FALSE
        OBVIOUS
      <3>1. Offset0 >= BufSize
        BY <1>3, <1>4, <1>6
      <3>2. CASE Fresh /\ written = <<>>
        <4>1. Stream = <<>>
          BY <3>2, StreamIs, StreamEmpty
        <4>2. Offset0 = 0 - Ahead
          BY <4>1 DEF Offset0
        <4> QED BY <1>3, <1>5, <3>1, <4>2
      <3>3. ASSUME NEW ins \in Instructions, AtHead(ins) PROVE FALSE
        <4>1. Offset0 <= 1 /\ Offset0 \in Nat
          BY <1>0, <1>6, <3>3, PlaceWithin DEF AtHead
        <4> QED BY <1>3, <3>1, <4>1
      <3> QED BY <1>0, <1>2, <3>2, <3>3 DEF HeadInv, AtHead
    <2>2. Len(last.bytes) >= BufSize
      BY <1>3, <1>4, <1>6, <2>1
    <2>3. elementv' = <<>> /\ start' = end' /\ last' = last
      BY <1>1, <1>6
    <2> QED BY <1>1, <1>2, <2>2, <2>3, NotWorking, UndeliveredKept
         DEF WellInv, EndedInv, RefusedOnlyBroken, TooLongOnly
  <1>7. CASE ~ (elementv = <<>> /\ at = BufSize)
    <2>1. Ahead > 0 \/ ~ Fresh
      BY <1>3, <1>5, <1>7 DEF Fresh
    <2>2. PICK ins \in Instructions : AtHead(ins)
      BY <1>0, <1>2, <2>1, HeadCase
    <2>3. ~ Handled
      BY <1>3, <1>5, <1>7 DEF Handled
    <2>4. at <= Offset0 /\ Offset0 \in Nat /\ Len(Encoded(ins)) \in Nat
          /\ Offset0 < Len(Encoded(ins))
      BY <1>0, <1>2, <1>4, <2>2, <2>3, PlaceWithin DEF AtHead
    <2>5. Len(Encoded(ins)) >= BufSize
      BY <1>3, <2>4
    <2>6. Head(written).bytes = Encoded(ins) /\ written # <<>>
      BY <2>2 DEF AtHead, Well
    <2>7. /\ ~ (elementv' = <<>> /\ start' = end') /\ written' = written
          /\ state' # "ERROR"
      BY <1>1, <1>2, <1>7
    <2> QED BY <1>1, <2>5, <2>6, <2>7, NotWorking, UndeliveredKept
         DEF WellInv, EndedInv, RefusedOnlyBroken, TooLongOnly
  <1> QED BY <1>6, <1>7

-----------------------------------------------------------------------------
(* Steps that begin an instruction.                                        *)

LEMMA StartPlace ==
    ASSUME Legal, WrittenInv', Fresh', Offset0' = 0
    PROVE  HeadInv'
  <1>1. state' = "LENGTH" /\ elementv' = <<>> /\ length' = 0 /\ ~ Between'
    BY DEF Fresh, Between
  <1>2. CASE written' = <<>>
    BY <1>1, <1>2 DEF HeadInv
  <1>3. CASE written' # <<>>
    <2>1. Head(written') \in Items
      <3>1. written' \in Seq(Items)
        BY DEF WrittenInv, Items
      <3> QED BY <1>3, <3>1, HeadTailProperties
    <2>2. PICK ins \in Instructions : Head(written') = Well(ins)
      BY <2>1 DEF Items
    <2>3. Len(elementv') = 0 /\ 0 < Len(ins) /\ 0 + 1 = 1 /\ 1..0 = {}
      BY <1>1, LegalElement
    <2>4. Offset0' = Begin(Parts(ins), 0 + 1)
      BY <2>3, PartsBegin
    <2>5. Place(ins)'
      BY <1>1, <2>3, <2>4 DEF Place
    <2>6. Contents(ins)'
      BY <2>3 DEF Contents
    <2> QED BY <1>1, <1>3, <2>2, <2>5, <2>6 DEF HeadInv
  <1> QED BY <1>2, <1>3

\* A call of guac_parser_read goes on where the last one ended, with a new instruction
\* or within one of which nothing but a length was read.
LEMMA SocketCallWell ==
    ASSUME Legal, WellInv, ParserInv', SocketCall
    PROVE  WellInv'
  <1>0. ParserInv /\ WrittenInv /\ StreamInv /\ HeadInv
    BY DEF WellInv
  <1>1. /\ reader = "socket" /\ pc = "idle" /\ pc' = "top"
        /\ start' = saved[1] /\ end' = saved[2] /\ instr' = saved[1]
        /\ Undelivered /\ UNCHANGED <<reader, input, data, buf, saved>>
    BY DEF SocketCall, Call, Undelivered, envvars, history
  <1>2. Working /\ Working' /\ InCall' /\ pc' # "idle" /\ ~ Between'
    BY <1>1 DEF Working, InCall, Between
  <1>3. ParsedTo' = ParsedTo /\ Buffered' = Buffered /\ Parsed' = saved[1]
    BY <1>1, <1>2 DEF ParsedTo, Parsed, Buffered
  <1>4. Unparsed' = Unparsed /\ Ahead' = Ahead /\ \A i : AheadAt(i)' = AheadAt(i)
    BY <1>1, <1>3 DEF Unparsed, Ahead, AheadAt
  <1>5. SameBytes
    BY <1>0, <1>1, <1>2, <1>4 DEF SameBytes, StreamInv
  <1>6. StreamInv' /\ Offset0' = Offset0 /\ Offset0 \in Nat
    BY <1>0, <1>1, <1>2, <1>5, SameStream DEF StreamInv
  <1>7. WrittenInv' /\ DeliveredExact' /\ ClippedOnlyInside'
    BY <1>1, UndeliveredKept
  <1>8. HeadInv'
    <2>1. CASE state = "COMPLETE"
      <3>1. Offset0 = 0
        BY <1>0, <1>1, <1>2, <2>1 DEF HeadInv, Between
      <3>2. Fresh'
        BY <2>1 DEF SocketCall, Reset, Fresh
      <3> QED BY <1>6, <1>7, <3>1, <3>2, StartPlace
    <2>2. CASE state # "COMPLETE"
      <3>1. UNCHANGED <<state, elementv, length>> /\ ~ Between
        BY <2>2 DEF SocketCall, parser, Between
      <3>2. \A ins : AtHead(ins) => Contents(ins)'
        BY <1>1, <1>3, <3>1 DEF AtHead, Contents, Whole, Partial
      <3> QED BY <1>0, <1>1, <1>2, <1>5, <3>1, <3>2, SamePlace, Bounds
    <2> QED BY <2>1, <2>2
  <1>9. StalledInv' /\ RecordingInv'
    BY <1>1 DEF StalledInv, RecordingInv
  <1>10. ExtentInv'
    <2>1. ~ Handled'
      BY <1>1 DEF Handled
    <2>2. Parsed' - instr' = 0
      <3>1. saved[1] \in Nat
        BY <1>0, Bounds
      <3> QED BY <1>1, <1>3, <3>1
    <2> QED BY <1>6, <2>1, <2>2 DEF ExtentInv
  <1>11. EndedInv'
    <2>1. state' # "ERROR" /\ pc' \notin {"toolong", "overrun"}
      BY <1>0, <1>1 DEF SocketCall, Reset, parser, ParserInv, PhaseInv
    <2> QED BY <2>1, NotEnded
  <1> QED BY <1>6, <1>7, <1>8, <1>9, <1>10, <1>11 DEF WellInv

-----------------------------------------------------------------------------
(* The delivery of an instruction.                                         *)

\* The string at an element that is in the buffer with its end.
LEMMA StringAt ==
    ASSUME ParserInv, Working, NEW p \in Nat, NEW a, a \in Seq(Symbols), Whole(p, a)
    PROVE  CString(p) = a
  <1>1. /\ \A k \in 1..Len(a) : buf[p + k - 1] = a[k]
        /\ buf[p + Len(a)] = NUL /\ p + Len(a) < ParsedTo
    BY DEF Whole
  <1>2. /\ Len(a) \in Nat /\ p + Len(a) < ParsedTo /\ ParsedTo \in Nat /\ ParsedTo <= BufSize
        /\ BufSize \in Nat
    <2>1. Len(a) \in Nat
      BY LenProperties
    <2>2. ParsedTo \in Nat /\ Buffered \in Nat /\ ParsedTo + Buffered <= BufSize
          /\ BufSize \in Nat
      BY AheadNat, Bounds
    <2> QED BY <1>1, <2>1, <2>2
  <1>3. PICK q : q = p + Len(a)
    OBVIOUS
  <1>4. q \in p..BufSize /\ q < BufSize /\ p \in Positions /\ q - p = Len(a)
    BY <1>2, <1>3 DEF Positions
  <1>5. ASSUME NEW i \in p..(q - 1) PROVE buf[i] # NUL
    <2>1. i - p + 1 \in 1..Len(a) /\ p + (i - p + 1) - 1 = i
      BY <1>2, <1>3
    <2>2. buf[i] = a[i - p + 1]
      BY <1>1, <2>1
    <2> QED BY <2>1, <2>2, SymbolsNoNul, ElementOfSeq
  <1> DEFINE E(e) == (e = BufSize \/ buf[e] = NUL) /\ \A i \in p..(e - 1) : buf[i] # NUL
  <1>6. E(q)
    <2>1. buf[q] = NUL
      BY <1>1, <1>3, Zenon
    <2> QED BY <1>5, <2>1
  <1>7. ASSUME NEW e \in p..BufSize, E(e) PROVE e = q
    <2>1. ~ (e > q)
      <3> SUFFICES ASSUME e > q PROVE FALSE
        OBVIOUS
      <3>1. q \in p..(e - 1)
        BY <1>4
      <3>2. buf[q] = NUL
        BY <1>1, <1>3, Zenon
      <3> QED BY <1>7, <3>1, <3>2
    <2>2. ~ (e < q)
      <3> SUFFICES ASSUME e < q PROVE FALSE
        OBVIOUS
      <3>1. e \in p..(q - 1) /\ e # BufSize
        BY <1>4
      <3>2. buf[e] # NUL
        BY <1>5, <3>1
      <3> QED BY <1>7, <3>1, <3>2
    <2>3. e \in Int /\ q \in Int
      BY <1>4
    <2> QED BY <2>1, <2>2, <2>3
  <1>8. (CHOOSE e \in p..BufSize : E(e)) = q
    <2> HIDE DEF E
    <2> QED BY <1>4, <1>6, <1>7
  <1>9. CString(p) = [i \in 1..(q - p) |-> buf[p + i - 1]]
    <2>1. p \in Positions
      BY <1>4
    <2> QED BY <1>8, <2>1 DEF CString
  <1>10. a = [i \in 1..Len(a) |-> a[i]]
    BY LenProperties
  <1>11. [i \in 1..Len(a) |-> buf[p + i - 1]] = [i \in 1..Len(a) |-> a[i]]
    BY <1>1
  <1> QED BY <1>4, <1>9, <1>10, <1>11

\* What is handed to the handler, and where that leaves the place.
LEMMA Delivered ==
    ASSUME Legal, WellInv, pc = "top", state = "COMPLETE", Deliver, UNCHANGED reader, SameBytes
    PROVE  /\ WrittenInv' /\ DeliveredExact' /\ ClippedOnlyInside'
           /\ StreamInv' /\ Offset0' = 0 /\ Offset0 = Len(last'.bytes) /\ Offset0 \in Nat
  <1>0. ParserInv /\ WrittenInv /\ StreamInv /\ HeadInv /\ RecordingInv /\ SocketInv
    BY DEF WellInv, ParserInv
  <1>1. InCall /\ Working /\ ~ Between
    BY DEF InCall, Working, Between
  <1>2. ~ Fresh
    BY DEF Fresh
  <1>3. PICK ins \in Instructions : AtHead(ins)
    BY <1>0, <1>1, <1>2, HeadCase
  <1>4. written # <<>> /\ Head(written) = Well(ins) /\ Contents(ins)
        /\ Len(elementv) = Len(ins) /\ Offset0 = Len(Encoded(ins))
    BY <1>3 DEF AtHead, Place
  <1>5. last' = Well(ins) /\ written' = Tail(written)
    BY <1>4 DEF Deliver
  <1>6. /\ last'.bytes = Encoded(ins)
        /\ last'.args = [i \in DOMAIN ins |-> BytesOf(ins[i])]
    BY <1>5 DEF Well
  <1>7. DOMAIN ins = 1..Len(ins) /\ DOMAIN elementv = 1..Len(ins) /\ elementv \in Seq(Int)
    <2>1. ins \in Seq(Seq(STRING \ {NUL})) /\ elementv \in Seq(Int)
      BY <1>0, LegalElement, Bounds
    <2> QED BY <1>4, <2>1, LenProperties
  <1>8. DeliveredExact'
    <2> SUFFICES ASSUME ~ clipped' PROVE got' = last'.args
      BY DEF DeliveredExact
    <2>1. ASSUME NEW i \in 1..Len(ins) PROVE CString(elementv[i]) = BytesOf(ins[i])
      <3>1. elementv[i] \in Nat
        <4>1. ~ (elementv[i] < 0)
          BY <1>7 DEF Deliver
        <4>2. elementv[i] \in Int
          BY <1>4, <1>7, ElementOfSeq
        <4> QED BY <4>1, <4>2
      <3>2. Whole(elementv[i], BytesOf(ins[i]))
        <4>1. elementv[i] >= 0
          BY <3>1
        <4>2. i \in 1..Len(elementv)
          BY <1>4
        <4> QED BY <1>4, <4>1, <4>2 DEF Contents
      <3>3. BytesOf(ins[i]) \in Seq(Symbols)
        BY LegalElement, BytesOfIs
      <3> QED BY <1>0, <1>1, <3>1, <3>2, <3>3, StringAt
    <2>2. got' = [i \in 1..Len(ins) |-> CString(elementv[i])]
      BY <1>7 DEF Deliver
    <2>3. last'.args = [i \in 1..Len(ins) |-> BytesOf(ins[i])]
      BY <1>6, <1>7
    <2> QED BY <2>1, <2>2, <2>3
  <1>9. ClippedOnlyInside'
    <2> SUFFICES ASSUME clipped' PROVE reader = "recording" /\ Inner(last')
      BY DEF ClippedOnlyInside, Inner
    <2>1. PICK i \in 1..Len(elementv) : elementv[i] < 0
      BY <1>4, <1>7 DEF Deliver
    <2>2. elementv[i] \in Int /\ instr \in Nat
      BY <1>0, <1>7, ElementOfSeq, Bounds
    <2>3. elementv[i] < instr
      BY <2>1, <2>2
    <2>4. reader # "socket"
      <3> SUFFICES ASSUME reader = "socket" PROVE FALSE
        OBVIOUS
      <3>1. elementv[i] \in instr..Parsed
        BY <1>0, <1>1 DEF SocketInv, Held
      <3> QED BY <2>2, <2>3, <3>1
    <2>5. reader = "recording"
      BY <1>0, <2>4, ParserAssumption DEF ParserInv, TypeOK
    <2>6. Inner(Head(written))
      BY <1>0, <1>1, <2>3, <2>5 DEF RecordingInv
    <2> QED BY <1>4, <1>5, <2>5, <2>6
  <1> DEFINE t == FlattenSeq(Bodies(Tail(written)))
             l == Len(Encoded(ins))
  <1>10. /\ Len(Stream) = l + Len(t) /\ l \in Nat /\ Len(t) \in Nat
         /\ \A i \in 1..Len(t) : Stream[l + i] = t[i]
         /\ Tail(written) \in Seq(Items)
    BY <1>0, <1>4, HeadStream
  <1>11. WrittenInv'
    BY <1>5, <1>10 DEF WrittenInv, Items
  <1>12. Stream' = t
    <2>1. Stream' = FlattenSeq(Bodies(written'))
      BY DEF Stream, Bodies
    <2> QED BY <1>5, <2>1
  <1> HIDE DEF t, l
  <1>13. Ahead' = Ahead /\ Ahead = Len(t) /\ Offset0' = 0
    <2>1. Ahead \in Nat /\ Len(Stream) - Ahead = l /\ Offset0' = Len(t) - Ahead'
      BY <1>0, <1>1, <1>4, <1>12, AheadNat DEF Offset0, l
    <2>2. Ahead' = Ahead
      BY DEF SameBytes
    <2>3. Len(Stream) = l + Len(t) /\ l \in Nat /\ Len(t) \in Nat
      BY <1>10
    <2> QED BY <2>1, <2>2, <2>3
  <1>14. StreamInv'
    <2>1. ASSUME NEW i \in 1..Ahead' PROVE AheadAt(i)' = Stream'[Offset0' + i]
      <3>1. i \in 1..Ahead /\ i \in 1..Len(t) /\ Offset0' + i = i
        BY <1>10, <1>13
      <3>2. AheadAt(i)' = AheadAt(i) /\ AheadAt(i) = Stream[Offset0 + i]
        BY <1>0, <1>1, <3>1 DEF SameBytes, StreamInv
      <3>3. Stream[Offset0 + i] = t[i]
        BY <1>4, <1>10, <3>1 DEF l
      <3> QED BY <1>12, <3>1, <3>2, <3>3, Zenon
    <2>2. reader' = "socket" => data' = <<>>
      BY DEF SameBytes
    <2> QED BY <1>13, <2>1, <2>2 DEF StreamInv
  <1>15. Offset0 = Len(last'.bytes) /\ Offset0 \in Nat
    BY <1>4, <1>6, <1>10 DEF l
  <1> QED BY <1>8, <1>9, <1>11, <1>13, <1>14, <1>15

LEMMA SocketReturnsWell ==
    ASSUME Legal, WellInv, ParserInv', SocketReturns
    PROVE  WellInv'
  <1>0. ParserInv /\ StreamInv
    BY DEF WellInv
  <1>1. /\ reader = "socket" /\ pc = "top" /\ pc' = "idle" /\ state = "COMPLETE" /\ state' = state
        /\ saved' = <<start, end>> /\ Deliver
        /\ UNCHANGED <<reader, input, data, buf>>
    BY DEF SocketReturns, parser, pointers
  <1>2. Working /\ InCall /\ Parsed = start /\ ~ InCall' /\ pc # "idle"
    BY <1>1 DEF Working, InCall, Parsed
  <1>3. ParsedTo' = ParsedTo /\ Buffered' = Buffered
    <2>1. saved'[1] = start /\ saved'[2] = end
      BY <1>1
    <2> QED BY <1>1, <1>2, <2>1 DEF ParsedTo, Buffered
  <1>4. Ahead' = Ahead /\ \A i : AheadAt(i)' = AheadAt(i)
    BY <1>1, <1>3 DEF Unparsed, Ahead, AheadAt
  <1>5. SameBytes
    BY <1>0, <1>1, <1>2, <1>4 DEF SameBytes, StreamInv
  <1>6. /\ WrittenInv' /\ DeliveredExact' /\ ClippedOnlyInside'
        /\ StreamInv' /\ Offset0' = 0
    BY <1>1, <1>5, Delivered
  <1>7. HeadInv'
    BY <1>1, <1>6 DEF HeadInv, Between
  <1>8. StalledInv' /\ RecordingInv' /\ ExtentInv'
    BY <1>1, <1>2 DEF StalledInv, RecordingInv, ExtentInv
  <1>9. EndedInv'
    <2>1. state' # "ERROR" /\ pc' \notin {"toolong", "overrun"}
      BY <1>1
    <2> QED BY <2>1, NotEnded
  <1> QED BY <1>6, <1>7, <1>8, <1>9 DEF WellInv

LEMMA RecordingHandlesWell ==
    ASSUME Legal, WellInv, ParserInv', RecordingHandles
    PROVE  WellInv'
  <1>0. ParserInv /\ StreamInv /\ RecordingInv /\ ExtentInv
    BY DEF WellInv
  <1>1. /\ reader = "recording" /\ pc = "top" /\ pc' = "append" /\ state = "COMPLETE"
        /\ Deliver /\ state' = "LENGTH" /\ elementv' = <<>> /\ length' = 0
        /\ UNCHANGED <<reader, input, data, buf, start, end, instr>>
    BY DEF RecordingHandles, Reset, pointers
  <1>2. Working /\ InCall /\ InCall' /\ Parsed = start /\ Parsed' = start /\ pc # "idle"
        /\ pc' # "idle"
    BY <1>1 DEF Working, InCall, Parsed
  <1>3. ParsedTo' = ParsedTo /\ Buffered' = Buffered
    BY <1>1, <1>2 DEF ParsedTo, Buffered
  <1>4. Unparsed' = Unparsed /\ Ahead' = Ahead /\ \A i : AheadAt(i)' = AheadAt(i)
    BY <1>1, <1>3 DEF Unparsed, Ahead, AheadAt
  <1>5. SameBytes
    BY <1>1, <1>4 DEF SameBytes
  <1>6. /\ WrittenInv' /\ DeliveredExact' /\ ClippedOnlyInside'
        /\ StreamInv' /\ Offset0' = 0 /\ Offset0 = Len(last'.bytes) /\ Offset0 \in Nat
    BY <1>1, <1>5, Delivered
  <1>7. HeadInv'
    BY <1>1, <1>6, StartPlace DEF Fresh
  <1>8. Unparsed = 0 /\ Len(elementv') = 0 /\ 1..0 = {}
    <2>1. Unparsed = 0
      BY <1>0, <1>1, <1>2 DEF RecordingInv
    <2>2. Len(elementv') = 0
      BY <1>1
    <2>3. 1..0 = {}
      OBVIOUS
    <2> QED BY <2>1, <2>2, <2>3
  <1>9. RecordingInv'
    BY <1>0, <1>1, <1>2, <1>4, <1>8 DEF RecordingInv
  <1>10. ExtentInv'
    <2>1. Handled'
      BY <1>1, <1>4, <1>8 DEF Handled
    <2>2. Parsed - instr <= Offset0
      BY <1>0, <1>1, <1>2 DEF ExtentInv, Handled
    <2> QED BY <1>1, <1>2, <1>6, <2>1, <2>2 DEF ExtentInv
  <1>11. StalledInv'
    BY <1>1 DEF StalledInv
  <1>12. EndedInv'
    <2>1. state' # "ERROR" /\ pc' \notin {"toolong", "overrun"}
      BY <1>1
    <2> QED BY <2>1, NotEnded
  <1> QED BY <1>6, <1>7, <1>9, <1>10, <1>11, <1>12 DEF WellInv

-----------------------------------------------------------------------------
(* The shift of the buffer, with more read behind it.                      *)

LEMMA Shifted ==
    ASSUME ParserInv, NeedsData, NEW more \in Seq(Bytes), Len(more) <= Space, Refilled(more)
    PROVE  /\ Offset \in Nat /\ Offset <= instr /\ Len(more) \in Nat
           /\ start' = start - Offset /\ end' = end - Offset + Len(more)
              /\ instr' = instr - Offset
           /\ \A j \in Nat : j < end - Offset => buf'[j] = buf[j + Offset]
           /\ \A k \in 1..Len(more) : buf'[end - Offset + k - 1] = more[k]
           /\ elementv' \in Seq(Int) /\ Len(elementv') = Len(elementv)
           /\ \A i \in 1..Len(elementv) : elementv'[i] = elementv[i] - Offset
  <1>1. /\ BufSize \in Nat /\ start \in Nat /\ end \in Nat /\ instr \in Nat
        /\ instr <= start /\ start <= end /\ end <= BufSize /\ elementv \in Seq(Int)
    BY Bounds
  <1>2. Offset \in Nat /\ Offset <= instr /\ Offset <= end
    BY <1>1 DEF Offset
  <1>3. Len(more) \in Nat /\ end - Offset + Len(more) <= BufSize
    <2>1. Len(more) \in Nat
      BY LenProperties
    <2> QED BY <1>1, <1>2, <2>1 DEF Space
  <1>4. /\ start' = start - Offset /\ end' = end - Offset + Len(more) /\ instr' = instr - Offset
    BY DEF Refilled
  <1>5. PICK e : e = end - Offset
    OBVIOUS
  <1>6. buf' = [i \in Positions |->
                  IF i < e THEN buf[i + Offset]
                  ELSE IF i < e + Len(more) THEN more[i - e + 1] ELSE buf[i]]
    BY <1>5 DEF Refilled
  <1>7. ASSUME NEW j \in Nat, j < e PROVE buf'[j] = buf[j + Offset]
    <2>1. j \in Positions
      BY <1>1, <1>2, <1>5, <1>7 DEF Positions
    <2> QED BY <1>6, <1>7, <2>1
  <1>8. ASSUME NEW k \in 1..Len(more) PROVE buf'[e + k - 1] = more[k]
    <2>1. /\ e + k - 1 \in Positions /\ ~ (e + k - 1 < e) /\ e + k - 1 < e + Len(more)
          /\ (e + k - 1) - e + 1 = k
      BY <1>1, <1>2, <1>3, <1>5 DEF Positions
    <2> QED BY <1>6, <2>1, Zenon
  <1>9. elementv' \in Seq(Int) /\ Len(elementv') = Len(elementv)
    BY RefilledBounds
  <1>10. \A i \in 1..Len(elementv) : elementv'[i] = elementv[i] - Offset
    <2>1. DOMAIN elementv = 1..Len(elementv)
      BY <1>1, LenProperties
    <2> QED BY <2>1, Zenon DEF Refilled
  <1> QED BY <1>2, <1>3, <1>4, <1>5, <1>7, <1>8, <1>9, <1>10

\* What an element has of its string moves with it.
LEMMA WholeShifted ==
    ASSUME NEW p \in Int, NEW o \in Nat, p - o >= 0, NEW a, Len(a) \in Nat, Whole(p, a),
           ParsedTo \in Nat, ParsedTo' = ParsedTo - o, end \in Nat, ParsedTo <= end,
           \A j \in Nat : j < end - o => buf'[j] = buf[j + o]
    PROVE  Whole(p - o, a)'
  <1>1. /\ \A k \in 1..Len(a) : buf[p + k - 1] = a[k]
        /\ buf[p + Len(a)] = NUL /\ p + Len(a) < ParsedTo
    BY DEF Whole
  <1>2. p + Len(a) < ParsedTo
    BY <1>1
  <1>3. ASSUME NEW k \in 1..Len(a) PROVE buf'[(p - o) + k - 1] = a[k]
    <2>1. (p - o) + k - 1 \in Nat /\ (p - o) + k - 1 < end - o /\ (p - o) + k - 1 + o = p + k - 1
      BY <1>2
    <2> QED BY <1>1, <2>1, Zenon
  <1>4. buf'[(p - o) + Len(a)] = NUL
    <2>1. (p - o) + Len(a) \in Nat /\ (p - o) + Len(a) < end - o
          /\ (p - o) + Len(a) + o = p + Len(a)
      BY <1>2
    <2> QED BY <1>1, <2>1, Zenon
  <1>5. (p - o) + Len(a) < ParsedTo'
    BY <1>2
  <1> QED BY <1>3, <1>4, <1>5, Zenon DEF Whole

LEMMA PartialShifted ==
    ASSUME NEW p \in Int, NEW o \in Nat, NEW a, NEW m \in Nat, Partial(p, a, m),
           ParsedTo \in Nat, ParsedTo' = ParsedTo - o, end \in Nat, ParsedTo <= end,
           \A j \in Nat : j < end - o => buf'[j] = buf[j + o]
    PROVE  Partial(p - o, a, m)'
  <1>1. p + m = ParsedTo /\ (p >= 0 => \A k \in 1..m : buf[p + k - 1] = a[k])
    BY DEF Partial
  <1>2. p + m = ParsedTo
    BY <1>1
  <1>3. (p - o) + m = ParsedTo'
    BY <1>2
  <1>4. ASSUME p - o >= 0, NEW k \in 1..m PROVE buf'[(p - o) + k - 1] = a[k]
    <2>1. /\ (p - o) + k - 1 \in Nat /\ (p - o) + k - 1 < end - o
          /\ (p - o) + k - 1 + o = p + k - 1 /\ p >= 0
      BY <1>2, <1>4
    <2> QED BY <1>1, <2>1, Zenon
  <1> QED BY <1>3, <1>4, Zenon DEF Partial

LEMMA ContentsShifted ==
    ASSUME Legal, ParserInv, NeedsData, NEW more \in Seq(Bytes), Len(more) <= Space, Refilled(more),
           state' = state, length' = length, ParsedTo' = ParsedTo - Offset,
           NEW ins \in Instructions, AtHead(ins)
    PROVE  Contents(ins)'
  <1>1. /\ Offset \in Nat /\ Offset <= instr
        /\ \A j \in Nat : j < end - Offset => buf'[j] = buf[j + Offset]
        /\ elementv' \in Seq(Int) /\ Len(elementv') = Len(elementv)
        /\ \A i \in 1..Len(elementv) : elementv'[i] = elementv[i] - Offset
    BY Shifted
  <1>2. PICK o, n : o = Offset /\ n = Len(elementv)
    OBVIOUS
  <1>3. o \in Nat /\ ParsedTo' = ParsedTo - o
        /\ \A j \in Nat : j < end - o => buf'[j] = buf[j + o]
    BY <1>1, <1>2
  <1>4. ParsedTo \in Nat /\ end \in Nat /\ ParsedTo <= end /\ elementv \in Seq(Int) /\ n \in Nat
    <2>1. InCall /\ Working
      BY DEF NeedsData, InCall, Working
    <2> QED BY <1>2, <2>1, AheadNat, Bounds
  <1>5. Len(ins) \in Nat /\ n <= Len(ins)
    <2>1. Len(ins) \in Nat
      BY LegalElement
    <2>2. n < Len(ins) \/ n \in 1..Len(ins) \/ n = Len(ins)
      BY <1>2 DEF AtHead, Place
    <2> QED BY <1>4, <2>1, <2>2
  <1> SUFFICES ASSUME NEW i \in 1..n
               PROVE  IF i = n /\ state = "CONTENT"
                      THEN Partial(elementv[i], BytesOf(ins[i]), Begin(Chars(ins[i]), Len(ins[i]) - length + 1))'
                      ELSE elementv'[i] >= 0 => Whole(elementv[i], BytesOf(ins[i]))'
    BY <1>1, <1>2 DEF Contents
  <1>6. PICK a, p : a = BytesOf(ins[i]) /\ p = elementv[i]
    OBVIOUS
  <1>7. i \in 1..Len(ins) /\ i \in 1..Len(elementv) /\ p \in Int
    <2>1. i \in 1..Len(ins) /\ i \in 1..Len(elementv)
      BY <1>2, <1>4, <1>5
    <2> QED BY <1>4, <1>6, <2>1, ElementOfSeq
  <1>8. Len(a) \in Nat /\ elementv'[i] = p - o
    BY <1>1, <1>2, <1>6, <1>7, LegalElement, BytesOfIs
  <1>9. CASE i = n /\ state = "CONTENT"
    <2>1. PICK m : m = Begin(Chars(ins[i]), Len(ins[i]) - length + 1)
      OBVIOUS
    <2>2. m \in Nat
      <3>1. length \in 0..Len(ins[i])
        BY <1>2, <1>9 DEF AtHead, Place
      <3>2. ins[i] \in Seq(STRING \ {NUL}) /\ Len(ins[i]) \in Nat
        BY <1>7, LegalElement
      <3>3. Len(ins[i]) - length + 1 \in 1..(Len(ins[i]) + 1)
        BY <3>1, <3>2
      <3> QED BY <2>1, <3>2, <3>3, CharsBegin
    <2>3. Partial(p, a, m)
      BY <1>2, <1>6, <1>7, <1>9, <2>1 DEF AtHead, Contents
    <2>4. Partial(p - o, a, m)'
      BY <1>3, <1>4, <1>7, <2>2, <2>3, PartialShifted
    <2>5. Begin(Chars(ins[i]), Len(ins[i]) - length' + 1) = m
      BY <2>1
    <2> QED BY <1>6, <1>8, <1>9, <2>4, <2>5, Zenon DEF Partial
  <1>10. CASE ~ (i = n /\ state = "CONTENT")
    <2> SUFFICES ASSUME elementv'[i] >= 0 PROVE Whole(elementv[i], BytesOf(ins[i]))'
      BY <1>10
    <2>1. p - o >= 0 /\ p >= 0
      BY <1>3, <1>7, <1>8
    <2>2. Whole(p, a)
      BY <1>2, <1>6, <1>7, <1>10, <2>1 DEF AtHead, Contents
    <2>3. Whole(p - o, a)'
      BY <1>3, <1>4, <1>7, <1>8, <2>1, <2>2, WholeShifted
    <2> QED BY <1>6, <1>8, <2>3, Zenon DEF Whole
  <1> QED BY <1>9, <1>10

\* The first n and the others, one by one.
LEMMA PiecesAt ==
    ASSUME NEW q \in Seq(Bytes), NEW n \in 0..Len(q)
    PROVE  /\ Len(q) \in Nat /\ SubSeq(q, 1, n) \in Seq(Bytes) /\ Len(SubSeq(q, 1, n)) = n
           /\ \A i \in 1..n : SubSeq(q, 1, n)[i] = q[i]
           /\ Len(SubSeq(q, n + 1, Len(q))) = Len(q) - n
           /\ \A i \in 1..(Len(q) - n) : SubSeq(q, n + 1, Len(q))[i] = q[n + i]
  <1>1. Len(q) \in Nat /\ n \in Nat
    BY LenProperties
  <1> QED BY <1>1

\* With the first n bytes of q read into it, the buffer holds them behind those it held.
LEMMA RefilledFrom ==
    ASSUME ParserInv, NeedsData, NEW q \in Seq(Bytes), NEW n \in 0..Len(q), n <= Space,
           Refilled(SubSeq(q, 1, n))
    PROVE  /\ ParsedTo = start /\ ParsedTo + Buffered = end /\ Buffered \in Nat
           /\ start' = start - Offset /\ start' \in Nat /\ end' = start' + (Buffered + n)
           /\ \A i \in 1..Buffered : buf'[start' + i - 1] = AheadAt(i)
           /\ \A i \in (Buffered + 1)..(Buffered + n) : buf'[start' + i - 1] = q[i - Buffered]
  <1>1. ParsedTo = start /\ ParsedTo + Buffered = end /\ Buffered \in Nat /\ ParsedTo \in Nat
    <2>1. InCall /\ Working /\ Parsed = start
      BY DEF NeedsData, InCall, Working, Parsed
    <2> QED BY <2>1, AheadNat
  <1>2. /\ SubSeq(q, 1, n) \in Seq(Bytes) /\ Len(SubSeq(q, 1, n)) = n /\ n \in Nat
        /\ \A i \in 1..n : SubSeq(q, 1, n)[i] = q[i]
    BY PiecesAt
  <1>3. PICK more : more = SubSeq(q, 1, n)
    OBVIOUS
  <1>4. more \in Seq(Bytes) /\ Len(more) = n /\ Refilled(more) /\ \A i \in 1..n : more[i] = q[i]
    BY <1>2, <1>3
  <1>5. /\ Offset \in Nat /\ Offset <= instr
        /\ start' = start - Offset /\ end' = end - Offset + n
        /\ \A j \in Nat : j < end - Offset => buf'[j] = buf[j + Offset]
        /\ \A k \in 1..n : buf'[end - Offset + k - 1] = more[k]
    BY <1>4, Shifted
  <1>6. start' \in Nat /\ end' = start' + (Buffered + n) /\ end - Offset = start' + Buffered
    <2>1. instr \in Nat /\ instr <= start
      BY Bounds
    <2>2. /\ Offset \in Nat /\ Offset <= instr /\ start' = start - Offset
             /\ end' = end - Offset + n
      BY <1>5
    <2> QED BY <1>1, <1>2, <2>1, <2>2
  <1>7. ASSUME NEW i \in 1..Buffered PROVE buf'[start' + i - 1] = AheadAt(i)
    <2>1. /\ start' + i - 1 \in Nat /\ start' + i - 1 < end - Offset
          /\ start' + i - 1 + Offset = ParsedTo + i - 1 /\ i <= Buffered
      <3>1. Offset \in Nat /\ start' = start - Offset
        BY <1>5
      <3> QED BY <1>1, <1>6, <3>1
    <2>2. buf'[start' + i - 1] = buf[ParsedTo + i - 1]
      BY <1>5, <2>1, Zenon
    <2> QED BY <2>1, <2>2 DEF AheadAt
  <1>8. ASSUME NEW i \in (Buffered + 1)..(Buffered + n) PROVE buf'[start' + i - 1] = q[i - Buffered]
    <2>1. i - Buffered \in 1..n /\ end - Offset + (i - Buffered) - 1 = start' + i - 1
      BY <1>1, <1>2, <1>6
    <2> QED BY <1>4, <1>5, <2>1, Zenon
  <1> QED BY <1>1, <1>5, <1>6, <1>7, <1>8

\* A refill leaves the bytes ahead and the place as they are.
LEMMA RefillStep ==
    ASSUME Legal, WellInv, NeedsData, SameBytes, Undelivered,
           NEW more \in Seq(Bytes), Len(more) <= Space, Refilled(more),
           state' = state, length' = length, pc' \in {"top", "idle"}, ParsedTo' = ParsedTo - Offset
    PROVE  /\ StreamInv' /\ Offset0' = Offset0 /\ HeadInv' /\ StalledInv' /\ EndedInv'
           /\ WrittenInv' /\ DeliveredExact' /\ ClippedOnlyInside'
           /\ state \notin {"COMPLETE", "ERROR"} /\ Parsed - instr = start' - instr'
  <1>0. ParserInv /\ StreamInv /\ HeadInv /\ StalledInv
    BY DEF WellInv
  <1>1. pc = "parsed" /\ at = start /\ InCall /\ Working /\ ~ Between /\ Parsed = start
    BY DEF NeedsData, InCall, Working, Between, Parsed
  <1>2. state \notin {"COMPLETE", "ERROR"}
    BY <1>0, <1>1 DEF StalledInv, ParserInv, PhaseInv
  <1>3. ~ Between'
    BY <1>2 DEF Between
  <1>4. StreamInv' /\ Offset0' = Offset0
    BY <1>0, <1>1, SameStream
  <1>5. HeadInv'
    <2>1. elementv' \in Seq(Int) /\ Len(elementv') = Len(elementv)
      BY <1>0, Shifted
    <2>2. \A ins \in Instructions : AtHead(ins) => Contents(ins)'
      BY <1>0, ContentsShifted
    <2> QED BY <1>0, <1>1, <1>3, <2>1, <2>2, SamePlace
  <1>6. StalledInv' /\ EndedInv'
    BY <1>2, NotEnded DEF StalledInv
  <1>7. WrittenInv' /\ DeliveredExact' /\ ClippedOnlyInside'
    BY UndeliveredKept
  <1>8. Parsed - instr = start' - instr'
    <2>1. start' = start - Offset /\ instr' = instr - Offset /\ Offset \in Nat
      BY <1>0, Shifted
    <2>2. start \in Nat /\ instr \in Nat
      BY <1>0, Bounds
    <2> QED BY <1>1, <2>1, <2>2
  <1> QED BY <1>2, <1>4, <1>5, <1>6, <1>7, <1>8

LEMMA SocketRefillWell ==
    ASSUME Legal, WellInv, ParserInv', SocketRefill
    PROVE  WellInv'
  <1>0. ParserInv /\ StreamInv /\ ExtentInv
    BY DEF WellInv
  <1>1. /\ NeedsData /\ reader = "socket" /\ pc = "parsed" /\ pc' = "top" /\ Undelivered
        /\ UNCHANGED <<reader, data, saved, state, length>>
    BY DEF SocketRefill, NeedsData, Undelivered, envvars, history
  <1>2. PICK n \in 1..SmallerOf(Space, Len(input)) :
           Refilled(SubSeq(input, 1, n)) /\ input' = SubSeq(input, n + 1, Len(input))
    BY DEF SocketRefill
  <1>3. n \in 0..Len(input) /\ n <= Space /\ input \in Seq(Bytes) /\ Len(input) \in Nat
        /\ n \in Nat
    <2>1. Len(input) \in Nat /\ input \in Seq(Bytes) /\ Space \in Nat
      BY <1>0, Bounds, SpaceNat
    <2> QED BY <2>1 DEF SmallerOf
  <1>4. InCall /\ Working /\ InCall' /\ Working' /\ pc' # "idle" /\ data = <<>>
        /\ Parsed' = start'
    <2>1. InCall /\ Working /\ InCall' /\ Working' /\ pc' # "idle" /\ Parsed' = start'
      BY <1>1 DEF InCall, Working, Parsed
    <2> QED BY <1>0, <1>1, <2>1 DEF StreamInv
  <1>5. /\ ParsedTo = start /\ ParsedTo + Buffered = end /\ Buffered \in Nat
        /\ start' = start - Offset /\ start' \in Nat /\ end' = start' + (Buffered + n)
        /\ \A i \in 1..Buffered : buf'[start' + i - 1] = AheadAt(i)
        /\ \A i \in (Buffered + 1)..(Buffered + n) : buf'[start' + i - 1] = input[i - Buffered]
    BY <1>0, <1>1, <1>2, <1>3, RefilledFrom
  <1>6. /\ Len(input') = Len(input) - n
        /\ \A i \in 1..(Len(input) - n) : input'[i] = input[n + i]
    BY <1>2, <1>3, PiecesAt
  <1>7. ParsedTo' = start' /\ Buffered' = Buffered + n
    <2>1. ParsedTo' = start' /\ Buffered' = end' - start'
      BY <1>4 DEF ParsedTo, Buffered
    <2>2. end' = start' + (Buffered + n) /\ start' \in Nat /\ Buffered \in Nat /\ n \in Nat
      BY <1>3, <1>5
    <2>3. \A x, y, z \in Nat : (x + (y + z)) - x = y + z
      OBVIOUS
    <2> QED BY <2>1, <2>2, <2>3, Zenon
  <1>8. /\ Unparsed = Buffered /\ Ahead = Buffered + Len(input)
        /\ Unparsed' = Buffered + n /\ Ahead' = Ahead
    <2>1. Len(data) = 0 /\ Len(data') = 0
      BY <1>1, <1>4
    <2>2. Buffered \in Nat
      BY <1>5
    <2>3. Unparsed = Buffered /\ Unparsed' = Buffered + n
      BY <1>3, <1>7, <2>1, <2>2 DEF Unparsed
    <2>4. Len(input') = Len(input) - n
      BY <1>6
    <2> QED BY <1>3, <2>2, <2>3, <2>4 DEF Ahead
  <1>9. ASSUME NEW i \in 1..Ahead PROVE AheadAt(i)' = AheadAt(i)
    <2>1. Buffered \in Nat /\ i \in Nat /\ i >= 1 /\ i <= Buffered + Len(input)
      <3>1. Buffered \in Nat
        BY <1>5
      <3> QED BY <1>3, <1>8, <3>1
    <2>2. CASE i <= Buffered
      <3>1. i <= Buffered' /\ i \in 1..Buffered
        BY <1>3, <1>7, <2>1, <2>2
      <3> QED BY <1>5, <1>7, <3>1, Zenon DEF AheadAt
    <2>3. CASE ~ (i <= Buffered) /\ i <= Buffered + n
      <3>1. /\ i <= Buffered' /\ i \in (Buffered + 1)..(Buffered + n)
            /\ ~ (i <= Unparsed) /\ i - Buffered = i - Unparsed
        BY <1>3, <1>7, <1>8, <2>1, <2>3
      <3>2. AheadAt(i) = input[i - Unparsed]
        BY <2>3, <3>1, Zenon DEF AheadAt
      <3> QED BY <1>5, <1>7, <3>1, <3>2, Zenon DEF AheadAt
    <2>4. CASE ~ (i <= Buffered + n)
      <3>1. /\ ~ (i <= Buffered) /\ ~ (i <= Buffered') /\ ~ (i <= Unparsed) /\ ~ (i <= Unparsed')
            /\ i - Unparsed' \in 1..(Len(input) - n) /\ n + (i - Unparsed') = i - Unparsed
        BY <1>3, <1>7, <1>8, <2>1, <2>4
      <3>2. AheadAt(i) = input[i - Unparsed]
        BY <3>1, Zenon DEF AheadAt
      <3>3. AheadAt(i)' = input'[i - Unparsed']
        BY <3>1, Zenon DEF AheadAt
      <3> QED BY <1>6, <3>1, <3>2, <3>3, Zenon
    <2> QED BY <2>2, <2>3, <2>4
  <1>10. SameBytes
    BY <1>1, <1>4, <1>8, <1>9 DEF SameBytes
  <1>11. PICK more : more = SubSeq(input, 1, n)
    OBVIOUS
  <1>12. more \in Seq(Bytes) /\ Len(more) <= Space /\ Refilled(more)
    BY <1>2, <1>3, <1>11, PiecesAt
  <1>13. ParsedTo' = ParsedTo - Offset /\ pc' \in {"top", "idle"}
    BY <1>1, <1>5, <1>7
  <1>14. /\ StreamInv' /\ Offset0' = Offset0 /\ HeadInv' /\ StalledInv' /\ EndedInv'
         /\ WrittenInv' /\ DeliveredExact' /\ ClippedOnlyInside'
         /\ Parsed - instr = start' - instr'
    BY <1>1, <1>10, <1>12, <1>13, RefillStep
  <1>15. RecordingInv'
    BY <1>1 DEF RecordingInv
  <1>16. ExtentInv'
    BY <1>0, <1>1, <1>4, <1>14 DEF ExtentInv, Handled
  <1> QED BY <1>14, <1>15, <1>16 DEF WellInv

\* ins_read_instructions takes what it reads from ins->data: all of that is ahead before
\* and after.
LEMMA RecordingRefilled ==
    ASSUME Legal, WellInv, NeedsData, reader = "recording", Undelivered,
           NEW n \in 0..Len(data), n <= Space, Refilled(SubSeq(data, 1, n)),
           Len(data') = Len(data) - n, \A i \in 1..(Len(data) - n) : data'[i] = data[n + i],
           UNCHANGED <<reader, input, state, length>>, pc' \in {"top", "idle"},
           pc' = "idle" => saved' = <<start', end'>>
    PROVE  /\ StreamInv' /\ Offset0' = Offset0 /\ HeadInv' /\ StalledInv' /\ EndedInv'
           /\ WrittenInv' /\ DeliveredExact' /\ ClippedOnlyInside'
           /\ state \notin {"COMPLETE", "ERROR"} /\ Parsed - instr = start' - instr'
           /\ Unparsed' = Unparsed /\ SameBytes /\ Unparsed <= Ahead /\ Unparsed \in Nat
              /\ Ahead \in Nat
           /\ Buffered' = Buffered + n /\ Buffered \in Nat /\ Unparsed = Buffered + Len(data)
  <1>0. ParserInv /\ StreamInv
    BY DEF WellInv
  <1>1. pc = "parsed" /\ InCall /\ Working
    BY DEF NeedsData, InCall, Working
  <1>2. data \in Seq(Bytes) /\ Len(data) \in Nat /\ n \in Nat /\ Len(input) \in Nat
    BY <1>0, Bounds
  <1>3. /\ ParsedTo = start /\ ParsedTo + Buffered = end /\ Buffered \in Nat
        /\ start' = start - Offset /\ start' \in Nat /\ end' = start' + (Buffered + n)
        /\ \A i \in 1..Buffered : buf'[start' + i - 1] = AheadAt(i)
        /\ \A i \in (Buffered + 1)..(Buffered + n) : buf'[start' + i - 1] = data[i - Buffered]
    BY <1>0, <1>2, RefilledFrom
  <1>4. ParsedTo' = start' /\ Buffered' = Buffered + n
    <2>1. ParsedTo' = start' /\ Buffered' = end' - start'
      <3>1. CASE pc' = "idle"
        <4>1. saved'[1] = start' /\ saved'[2] = end'
          BY <3>1
        <4> QED BY <3>1, <4>1 DEF ParsedTo, Buffered
      <3>2. CASE pc' = "top"
        BY <3>2 DEF ParsedTo, Parsed, Buffered
      <3> QED BY <3>1, <3>2
    <2>2. end' = start' + (Buffered + n) /\ start' \in Nat /\ Buffered \in Nat /\ n \in Nat
      BY <1>2, <1>3
    <2>3. \A x, y, z \in Nat : (x + (y + z)) - x = y + z
      OBVIOUS
    <2> QED BY <2>1, <2>2, <2>3, Zenon
  <1>5. /\ Unparsed = Buffered + Len(data) /\ Unparsed' = Unparsed /\ Unparsed \in Nat
        /\ Ahead = Unparsed + Len(input) /\ Ahead' = Ahead /\ Ahead \in Nat /\ Unparsed <= Ahead
    <2>1. Buffered \in Nat
      BY <1>3
    <2>2. Unparsed = Buffered + Len(data) /\ Unparsed' = Unparsed
      BY <1>2, <1>4, <2>1 DEF Unparsed
    <2> QED BY <1>2, <2>1, <2>2 DEF Ahead
  <1>6. ASSUME NEW i \in 1..Ahead PROVE AheadAt(i)' = AheadAt(i)
    <2>1. Buffered \in Nat /\ i \in Nat /\ i >= 1
      <3>1. Buffered \in Nat
        BY <1>3
      <3> QED BY <1>5, <3>1
    <2>2. CASE i <= Buffered
      <3>1. i <= Buffered' /\ i \in 1..Buffered
        BY <1>2, <1>4, <2>1, <2>2
      <3> QED BY <1>3, <1>4, <3>1, Zenon DEF AheadAt
    <2>3. CASE ~ (i <= Buffered) /\ i <= Buffered + n
      <3>1. i <= Buffered' /\ i \in (Buffered + 1)..(Buffered + n) /\ i <= Unparsed
        BY <1>2, <1>4, <1>5, <2>1, <2>3
      <3>2. AheadAt(i) = data[i - Buffered]
        BY <2>3, <3>1, Zenon DEF AheadAt
      <3> QED BY <1>3, <1>4, <3>1, <3>2, Zenon DEF AheadAt
    <2>4. CASE ~ (i <= Buffered + n) /\ i <= Unparsed
      <3>1. /\ ~ (i <= Buffered) /\ ~ (i <= Buffered') /\ i <= Unparsed'
            /\ i - Buffered' \in 1..(Len(data) - n) /\ n + (i - Buffered') = i - Buffered
        BY <1>2, <1>4, <1>5, <2>1, <2>4
      <3>2. AheadAt(i) = data[i - Buffered]
        BY <2>4, <3>1, Zenon DEF AheadAt
      <3>3. AheadAt(i)' = data'[i - Buffered']
        BY <3>1, Zenon DEF AheadAt
      <3> QED BY <3>1, <3>2, <3>3, Zenon
    <2>5. CASE ~ (i <= Unparsed)
      <3>1. ~ (i <= Buffered) /\ ~ (i <= Buffered') /\ ~ (i <= Unparsed')
        BY <1>2, <1>4, <1>5, <2>1, <2>5
      <3>2. AheadAt(i) = input[i - Unparsed]
        BY <2>5, <3>1, Zenon DEF AheadAt
      <3>3. AheadAt(i)' = input'[i - Unparsed']
        BY <3>1, Zenon DEF AheadAt
      <3> QED BY <1>5, <3>2, <3>3, Zenon
    <2> QED BY <2>2, <2>3, <2>4, <2>5
  <1>7. SameBytes
    BY <1>5, <1>6 DEF SameBytes
  <1>8. PICK more : more = SubSeq(data, 1, n)
    OBVIOUS
  <1>9. more \in Seq(Bytes) /\ Len(more) <= Space /\ Refilled(more)
    BY <1>2, <1>8, PiecesAt
  <1>10. ParsedTo' = ParsedTo - Offset
    BY <1>3, <1>4
  <1>11. /\ StreamInv' /\ Offset0' = Offset0 /\ HeadInv' /\ StalledInv' /\ EndedInv'
         /\ WrittenInv' /\ DeliveredExact' /\ ClippedOnlyInside'
         /\ state \notin {"COMPLETE", "ERROR"} /\ Parsed - instr = start' - instr'
    BY <1>7, <1>9, <1>10, RefillStep
  <1> QED BY <1>3, <1>4, <1>5, <1>7, <1>11

LEMMA RecordingRefillWell ==
    ASSUME Legal, WellInv, ParserInv', RecordingRefill
    PROVE  WellInv'
  <1>0. ParserInv /\ StreamInv /\ RecordingInv /\ ExtentInv
    BY DEF WellInv
  <1>1. /\ NeedsData /\ reader = "recording" /\ pc = "parsed" /\ pc' = "top" /\ Undelivered
        /\ UNCHANGED <<reader, written, last, input, state, length>>
    BY DEF RecordingRefill, NeedsData, Undelivered, envvars, history
  <1>2. PICK n : n = SmallerOf(Space, Len(data))
    OBVIOUS
  <1>3. Refilled(SubSeq(data, 1, n)) /\ data' = SubSeq(data, n + 1, Len(data))
    BY <1>2 DEF RecordingRefill
  <1>4. n \in 0..Len(data) /\ n <= Space /\ data \in Seq(Bytes)
    <2>1. Len(data) \in Nat /\ data \in Seq(Bytes) /\ Space \in Nat
      BY <1>0, Bounds, SpaceNat
    <2> QED BY <1>2, <2>1 DEF SmallerOf
  <1>5. /\ Len(data') = Len(data) - n
        /\ \A i \in 1..(Len(data) - n) : data'[i] = data[n + i]
    BY <1>3, <1>4, PiecesAt
  <1>6. /\ StreamInv' /\ Offset0' = Offset0 /\ HeadInv' /\ StalledInv' /\ EndedInv'
        /\ WrittenInv' /\ DeliveredExact' /\ ClippedOnlyInside'
        /\ state \notin {"COMPLETE", "ERROR"} /\ Parsed - instr = start' - instr'
        /\ Unparsed' = Unparsed /\ SameBytes /\ Unparsed <= Ahead /\ Unparsed \in Nat
           /\ Ahead \in Nat
    BY <1>1, <1>3, <1>4, <1>5, RecordingRefilled
  <1>7. InCall /\ InCall' /\ pc # "idle" /\ pc' # "idle" /\ Parsed' = start'
    BY <1>1 DEF InCall, Parsed
  <1>8. /\ instr' = instr - Offset /\ Offset \in Nat /\ Len(elementv') = Len(elementv)
        /\ \A i \in 1..Len(elementv) : elementv'[i] = elementv[i] - Offset
    <2>1. PICK more : more = SubSeq(data, 1, n)
      OBVIOUS
    <2>2. more \in Seq(Bytes) /\ Len(more) <= Space /\ Refilled(more)
      BY <1>3, <1>4, <2>1, PiecesAt
    <2> QED BY <1>0, <1>1, <2>2, Shifted
  <1>9. RecordingInv'
    <2>1. ASSUME NEW i \in 1..Unparsed' PROVE AheadAt(i)' = ";" <=> i = Unparsed'
      <3>1. i \in 1..Unparsed /\ i \in 1..Ahead
        BY <1>6
      <3> QED BY <1>0, <1>1, <1>6, <1>7, <3>1 DEF SameBytes, RecordingInv
    <2>2. Unparsed' = 0 /\ elementv' # <<>> /\ state' # "COMPLETE" => Inner(Head(written'))
      <3>1. elementv' # <<>> => elementv # <<>>
        <4>1. elementv = <<>> => Len(elementv') = 0
          BY <1>8
        <4>2. elementv' \in Seq(Int)
          BY DEF ParserInv, BytesInv
        <4> QED BY <4>1, <4>2, EmptySeq
      <3> QED BY <1>0, <1>1, <1>6, <1>7, <3>1 DEF RecordingInv
    <2>3. state' # "COMPLETE"
      BY <1>1, <1>6
    <2>4. ASSUME NEW i \in 1..Len(elementv'), elementv'[i] < instr' PROVE Inner(Head(written'))
      <3>1. i \in 1..Len(elementv) /\ elementv[i] \in Int /\ instr \in Nat
        BY <1>0, <1>8, Bounds, ElementOfSeq
      <3>2. elementv[i] < instr
        <4>1. elementv'[i] = elementv[i] - Offset /\ instr' = instr - Offset /\ Offset \in Nat
          BY <1>8, <3>1
        <4> QED BY <2>4, <3>1, <4>1
      <3> QED BY <1>0, <1>1, <1>7, <3>1, <3>2 DEF RecordingInv
    <2> QED BY <1>7, <2>1, <2>2, <2>3, <2>4 DEF RecordingInv
  <1>10. ExtentInv'
    <2>1. Handled' <=> Handled
      <3>1. elementv' = <<>> <=> elementv = <<>>
        <4>1. elementv \in Seq(Int) /\ elementv' \in Seq(Int)
          BY <1>0 DEF ParserInv, BytesInv
        <4> QED BY <1>8, <4>1, EmptySeq
      <3> QED BY <1>1, <1>6, <3>1 DEF Handled
    <2>2. Parsed' - instr' = Parsed - instr
      BY <1>6, <1>7
    <2> QED BY <1>0, <1>1, <1>6, <1>7, <2>1, <2>2 DEF ExtentInv
  <1> QED BY <1>6, <1>9, <1>10 DEF WellInv

\* A call of ins_parser_read ends with all that was read parsed: the last byte of it is a
\* ";", which is not the first half of a character.
LEMMA RecordingReturnsWell ==
    ASSUME Legal, WellInv, ParserInv', RecordingReturns
    PROVE  WellInv'
  <1>0. ParserInv /\ StreamInv /\ RecordingInv /\ ExtentInv /\ StalledInv
    BY DEF WellInv
  <1>1. /\ NeedsData /\ reader = "recording" /\ pc = "parsed" /\ pc' = "idle" /\ Undelivered
        /\ data = <<>> /\ data' = data /\ saved' = <<start', end'>> /\ Refilled(<<>>)
           /\ at = start
        /\ UNCHANGED <<reader, written, last, input, state, length>>
    BY DEF RecordingReturns, NeedsData, Undelivered, envvars, history
  <1>2. /\ 0 \in 0..Len(data) /\ 0 <= Space /\ SubSeq(data, 1, 0) = <<>>
        /\ Len(data') = Len(data) - 0 /\ \A i \in 1..(Len(data) - 0) : data'[i] = data[0 + i]
    <2>1. Len(data) = 0 /\ Space \in Nat
      BY <1>0, <1>1, SpaceNat
    <2>2. SubSeq(data, 1, 0) = <<>>
      BY <1>1
    <2>3. 0 \in 0..Len(data) /\ 0 <= Space /\ Len(data) - 0 = 0 /\ 1..0 = {}
      BY <2>1
    <2> QED BY <1>1, <2>1, <2>2, <2>3
  <1>3. Refilled(SubSeq(data, 1, 0))
    BY <1>1, <1>2
  <1>4. /\ StreamInv' /\ Offset0' = Offset0 /\ HeadInv' /\ StalledInv' /\ EndedInv'
        /\ WrittenInv' /\ DeliveredExact' /\ ClippedOnlyInside'
        /\ state \notin {"COMPLETE", "ERROR"}
        /\ Unparsed' = Unparsed /\ Unparsed \in Nat
        /\ Buffered' = Buffered + 0 /\ Buffered \in Nat /\ Unparsed = Buffered + Len(data)
    <2>1. pc' \in {"top", "idle"}
      BY <1>1
    <2> QED BY <1>1, <1>2, <1>3, <2>1, RecordingRefilled
  <1>5. InCall /\ Parsed = start /\ Working
    BY <1>1 DEF InCall, Parsed, Working
  <1>6. Buffered = 0 /\ Unparsed = 0
    <2>1. Unparsed = Buffered
      <3>1. Len(data) = 0
        BY <1>1
      <3> QED BY <1>4, <3>1
    <2>2. /\ start + Buffered = end /\ start \in Nat /\ end \in Nat /\ Buffered \in Nat
      <3>1. ParsedTo = Parsed /\ ParsedTo + Buffered = end
        BY <1>0, <1>5, AheadNat
      <3> QED BY <1>0, <1>4, <1>5, <3>1, Bounds
    <2>3. start = end \/ (start + 1 = end /\ buf[start] = "w")
      BY <1>0, <1>1 DEF StalledInv
    <2>4. CASE start = end
      BY <2>1, <2>2, <2>4
    <2>5. ASSUME start + 1 = end, buf[start] = "w" PROVE FALSE
      <3>1. Buffered = 1 /\ 1 \in 1..Unparsed /\ 1 = Unparsed /\ 1 \in 1..(end - Parsed)
            /\ Parsed + 1 - 1 = start
        BY <1>5, <2>1, <2>2, <2>5
      <3>2. AheadAt(1) = buf[start]
        BY <1>0, <1>5, <3>1, BufferAhead
      <3>3. AheadAt(1) = ";"
        BY <1>0, <1>1, <1>5, <3>1 DEF RecordingInv
      <3> QED BY <2>5, <3>2, <3>3
    <2> QED BY <2>1, <2>3, <2>4, <2>5
  <1>7. RecordingInv'
    <2>1. Buffered' = 0
      BY <1>4, <1>6
    <2>2. state' # "COMPLETE" /\ ~ InCall'
      BY <1>1, <1>4 DEF InCall
    <2>3. 1..Len(data') = {}
      BY <1>1
    <2>4. elementv' # <<>> => Inner(Head(written'))
      <3>1. elementv' # <<>> => elementv # <<>>
        <4>1. DOMAIN elementv' = DOMAIN elementv
          BY <1>1 DEF Refilled
        <4>2. elementv' \in Seq(Int)
          BY DEF ParserInv, BytesInv
        <4>3. elementv = <<>> => DOMAIN elementv' = {}
          BY <4>1
        <4> QED BY <4>2, <4>3
      <3> QED BY <1>0, <1>1, <1>4, <1>5, <1>6, <3>1 DEF RecordingInv
    <2> QED BY <2>1, <2>2, <2>3, <2>4 DEF RecordingInv
  <1>8. ExtentInv'
    BY <1>1 DEF ExtentInv, InCall
  <1> QED BY <1>4, <1>7, <1>8 DEF WellInv

-----------------------------------------------------------------------------
(* The connection handed to the process, and the bytes that come in.       *)

\* guac_parser_shift returns what the parser of guacd has not parsed, and the new parser
\* begins with it.
LEMMA HandOverWell ==
    ASSUME Legal, WellInv, ParserInv', HandOver
    PROVE  WellInv'
  <1>0. ParserInv /\ WrittenInv /\ StreamInv /\ HeadInv
    BY DEF WellInv
  <1>1. /\ reader = "socket" /\ pc = "idle" /\ pc' = "idle" /\ state = "COMPLETE"
        /\ input' = [i \in 1..(saved[2] - saved[1]) |-> buf[saved[1] + i - 1]] \o input
        /\ saved' = <<0, 0>> /\ Reset /\ Undelivered /\ UNCHANGED data
    BY DEF HandOver, Undelivered, envvars, history
  <1>2. Working /\ Working' /\ ~ InCall' /\ Between
    BY <1>1 DEF Working, InCall, Between
  <1>3. data = <<>> /\ data' = <<>> /\ Len(data) = 0 /\ Offset0 = 0
    BY <1>0, <1>1, <1>2 DEF StreamInv, HeadInv
  <1>4. PICK n \in Nat : n = saved[2] - saved[1]
    <2>1. saved[1] \in Nat /\ saved[2] \in Nat /\ saved[1] <= saved[2]
      BY <1>0, Bounds
    <2> QED BY <2>1
  <1>5. /\ ParsedTo = saved[1] /\ Buffered = n /\ Unparsed = n /\ Ahead = n + Len(input)
        /\ Len(input) \in Nat
    <2>1. ParsedTo = saved[1] /\ Buffered = n
      BY <1>1, <1>4 DEF ParsedTo, Buffered
    <2> QED BY <1>0, <1>2, <1>3, <2>1, AheadNat
  <1>6. PICK rest : rest = [i \in 1..n |-> buf[saved[1] + i - 1]]
    OBVIOUS
  <1>7. rest \in Seq(Bytes) /\ Len(rest) = n /\ input \in Seq(Bytes) /\ input' = rest \o input
    <2>1. ASSUME NEW i \in 1..n PROVE buf[saved[1] + i - 1] \in Bytes
      <3>1. saved[1] + i - 1 \in Positions
        <4>1. saved[1] \in Nat /\ saved[2] \in Nat /\ saved[2] <= BufSize /\ BufSize \in Nat
          BY <1>0, Bounds
        <4> QED BY <1>4, <4>1 DEF Positions
      <3> QED BY <1>0, <3>1, Bounds
    <2>2. rest \in [1..n -> Bytes]
      BY <1>6, <2>1
    <2>3. rest \in Seq(Bytes)
      BY <2>2, FunctionIsSeq
    <2>4. Len(rest) = n
      BY <1>6
    <2> QED BY <1>0, <1>1, <1>4, <1>6, <2>3, <2>4, Bounds
  <1>8. ParsedTo' = 0 /\ Buffered' = 0 /\ Unparsed' = 0 /\ Ahead' = n + Len(input)
    <2>1. ParsedTo' = 0 /\ Buffered' = 0
      BY <1>1 DEF ParsedTo, Buffered
    <2>2. Unparsed' = 0
      BY <1>3, <2>1 DEF Unparsed
    <2>3. Len(input') = n + Len(input)
      BY <1>7, ConcatProperties
    <2> QED BY <1>5, <2>1, <2>2, <2>3 DEF Ahead
  <1>9. ASSUME NEW i \in 1..Ahead PROVE AheadAt(i)' = AheadAt(i)
    <2>1. AheadAt(i)' = input'[i]
      <3>1. ~ (i <= 0) /\ i - 0 = i
        OBVIOUS
      <3> QED BY <1>8, <3>1 DEF AheadAt
    <2>2. CASE i <= n
      <3>1. i \in 1..n /\ i \in 1..Len(rest)
        BY <1>7, <2>2
      <3>2. input'[i] = rest[i]
        BY <1>7, <3>1, ConcatAt
      <3>3. AheadAt(i) = buf[saved[1] + i - 1]
        BY <1>5, <2>2 DEF AheadAt
      <3> QED BY <1>6, <2>1, <3>1, <3>2, <3>3
    <2>3. CASE ~ (i <= n)
      <3>1. PICK k \in 1..Len(input) : i = n + k
        <4>1. i - n \in 1..Len(input) /\ i = n + (i - n)
          BY <1>5, <2>3
        <4> QED BY <4>1
      <3>2. input'[i] = input[k]
        BY <1>7, <3>1, ConcatAt
      <3>3. i - n = k
        BY <3>1
      <3>4. AheadAt(i) = input[k]
        BY <1>5, <2>3, <3>3 DEF AheadAt
      <3> QED BY <2>1, <3>2, <3>4
    <2> QED BY <2>2, <2>3
  <1>10. SameBytes
    BY <1>3, <1>5, <1>8, <1>9 DEF SameBytes
  <1>11. StreamInv' /\ Offset0' = 0
    BY <1>0, <1>1, <1>2, <1>3, <1>10, SameStream
  <1>12. WrittenInv' /\ DeliveredExact' /\ ClippedOnlyInside'
    BY <1>1, UndeliveredKept
  <1>13. HeadInv'
    <2>1. Fresh'
      BY <1>1 DEF Reset, Fresh
    <2> QED BY <1>11, <1>12, <2>1, StartPlace
  <1>14. StalledInv' /\ RecordingInv' /\ ExtentInv'
    BY <1>1, <1>2 DEF StalledInv, RecordingInv, ExtentInv, Undelivered
  <1>15. EndedInv'
    <2>1. state' # "ERROR" /\ pc' \notin {"toolong", "overrun"}
      BY <1>1 DEF Reset
    <2> QED BY <2>1, NotEnded
  <1> QED BY <1>11, <1>12, <1>13, <1>14, <1>15 DEF WellInv

LEMMA AppendAt ==
    ASSUME NEW S, NEW q \in Seq(S), NEW x \in S
    PROVE  /\ Len(Append(q, x)) = Len(q) + 1 /\ Append(q, x)[Len(q) + 1] = x
           /\ \A i \in 1..Len(q) : Append(q, x)[i] = q[i]
  OBVIOUS

LEMMA TailAt ==
    ASSUME NEW S, NEW q \in Seq(S), q # <<>>
    PROVE  /\ Len(q) \in Nat \ {0} /\ Head(q) = q[1] /\ Head(q) \in S
           /\ Len(Tail(q)) = Len(q) - 1
           /\ \A i \in 1..(Len(q) - 1) : Tail(q)[i] = q[i + 1]
  <1>1. Len(q) \in Nat /\ Len(q) # 0
    BY EmptySeq, LenProperties
  <1>2. 1 \in 1..Len(q)
    BY <1>1
  <1>3. q[1] \in S
    BY <1>2, ElementOfSeq
  <1> QED BY <1>1, <1>3

\* job_loop_read_recodingfile reads a byte, and calls ins_parser_read with the last ";".
LEMMA ReadByteWell ==
    ASSUME Legal, WellInv, ParserInv', ReadByte
    PROVE  WellInv'
  <1>0. ParserInv /\ WrittenInv /\ StreamInv /\ HeadInv /\ RecordingInv
    BY DEF WellInv
  <1>1. /\ reader = "recording" /\ pc = "idle" /\ input # <<>>
        /\ data' = Append(data, Head(input)) /\ input' = Tail(input)
        /\ IF Head(input) = ";" THEN Call ELSE UNCHANGED <<pointers, pc>>
        /\ Undelivered /\ UNCHANGED <<reader, buf, saved, state, elementv, length>>
    BY DEF ReadByte, Undelivered, envvars, history, parser
  <1>2. /\ Buffered = 0 /\ state # "COMPLETE"
        /\ \A i \in 1..Len(data) : data[i] # ";"
        /\ elementv # <<>> => Inner(Head(written))
    BY <1>0, <1>1 DEF RecordingInv
  <1>3. /\ Working /\ Working' /\ ~ Between /\ ~ Between'
        /\ pc' = "idle" \/ (pc' = "top" /\ start' = saved[1] /\ end' = saved[2] /\ instr' = saved[1])
    BY <1>1, <1>2 DEF Working, InCall, Between, pointers, Call
  <1>4. ParsedTo' = ParsedTo /\ Buffered' = 0
    <2>1. ParsedTo' = ParsedTo
      BY <1>1, <1>3 DEF ParsedTo, Parsed
    <2>2. Buffered' = Buffered
      BY <1>1, <1>3, <2>1 DEF Buffered
    <2> QED BY <1>2, <2>1, <2>2
  <1>5. /\ data \in Seq(Bytes) /\ input \in Seq(Bytes) /\ Len(data) \in Nat
        /\ Len(input) \in Nat /\ Len(input) > 0 /\ Head(input) = input[1]
        /\ Len(input') = Len(input) - 1
        /\ \A i \in 1..(Len(input) - 1) : input'[i] = input[i + 1]
    <2>1. data \in Seq(Bytes) /\ input \in Seq(Bytes) /\ Len(data) \in Nat /\ Len(input) \in Nat
      BY <1>0, Bounds
    <2>2. Len(input) \in Nat \ {0} /\ Head(input) = input[1]
          /\ Len(Tail(input)) = Len(input) - 1
          /\ \A i \in 1..(Len(input) - 1) : Tail(input)[i] = input[i + 1]
      BY <1>1, <2>1, TailAt
    <2>3. Len(input) > 0
      BY <2>2
    <2> QED BY <1>1, <2>1, <2>2, <2>3, Zenon
  <1>6. /\ Len(data') = Len(data) + 1 /\ data'[Len(data) + 1] = input[1]
        /\ \A i \in 1..Len(data) : data'[i] = data[i]
    <2>1. Head(input) \in Bytes
      BY <1>1, <1>5, TailAt
    <2>2. data \in Seq(Bytes) /\ Head(input) = input[1] /\ data' = Append(data, Head(input))
      BY <1>1, <1>5
    <2> QED BY <2>1, <2>2, AppendAt, Zenon
  <1> DEFINE d == Len(data)
             e == Len(input)
  <1>17. d \in Nat /\ e \in Nat /\ e > 0
    BY <1>5
  <1> HIDE DEF d, e
  <1>7. /\ Unparsed = Len(data) /\ Unparsed' = Len(data) + 1
        /\ Ahead = Len(data) + Len(input) /\ Ahead' = Ahead
    <2>1. Unparsed = Len(data) /\ Ahead = Len(data) + Len(input)
      <3>1. Unparsed = Buffered + d /\ Ahead = Unparsed + e
        BY <1>0, <1>3, AheadNat DEF d, e
      <3>2. Buffered = 0
        BY <1>2
      <3>3. Unparsed = d /\ Ahead = d + e
        BY <1>17, <3>1, <3>2
      <3> QED BY <3>3 DEF d, e
    <2>2. Unparsed' = Len(data) + 1
      <3>1. Unparsed' = 0 + (Len(data) + 1)
        BY <1>4, <1>6 DEF Unparsed
      <3> QED BY <1>5, <3>1
    <2>3. Ahead' = (Len(data) + 1) + (Len(input) - 1)
      BY <1>5, <2>2 DEF Ahead
    <2> QED BY <1>5, <2>1, <2>2, <2>3
  <1>8. ASSUME NEW i \in 1..Ahead
        PROVE  /\ AheadAt(i)' = AheadAt(i)
               /\ i <= Len(data) + 1 => AheadAt(i)' = data'[i]
    <2>1. ~ (i <= 0) /\ i - 0 = i
      OBVIOUS
    <2>2. /\ AheadAt(i)' = IF i <= Len(data) + 1 THEN data'[i] ELSE input'[i - (Len(data) + 1)]
          /\ AheadAt(i) = IF i <= Len(data) THEN data[i] ELSE input[i - Len(data)]
      BY <1>2, <1>4, <1>7, <2>1 DEF AheadAt
    <2>3. CASE i <= Len(data)
      <3>1. i \in 1..Len(data) /\ i <= Len(data) + 1
        BY <1>5, <2>3
      <3> QED BY <1>6, <2>2, <2>3, <3>1
    <2>4. CASE i = Len(data) + 1
      <3>1. ~ (i <= Len(data)) /\ i <= Len(data) + 1 /\ i - Len(data) = 1
        BY <1>5, <2>4
      <3> QED BY <1>6, <2>2, <2>4, <3>1
    <2>5. CASE ~ (i <= Len(data) + 1)
      <3>1. PICK k \in 1..(Len(input) - 1) : i = Len(data) + 1 + k
        <4>1. i - (Len(data) + 1) \in 1..(Len(input) - 1)
              /\ i = Len(data) + 1 + (i - (Len(data) + 1))
          BY <1>5, <1>7, <2>5
        <4> QED BY <4>1
      <3>2. ~ (i <= Len(data)) /\ i - Len(data) = k + 1 /\ i - (Len(data) + 1) = k
        BY <1>5, <3>1
      <3> QED BY <1>5, <2>2, <2>5, <3>1, <3>2
    <2>6. i <= Len(data) \/ i = Len(data) + 1 \/ ~ (i <= Len(data) + 1)
      <3>1. i <= d \/ i = d + 1 \/ ~ (i <= d + 1)
        BY <1>7, <1>17
      <3> QED BY <3>1 DEF d
    <2> QED BY <2>3, <2>4, <2>5, <2>6
  <1>9. SameBytes
    BY <1>1, <1>7, <1>8 DEF SameBytes
  <1>10. StreamInv' /\ Offset0' = Offset0 /\ Offset0 \in Nat
    BY <1>0, <1>1, <1>3, <1>9, SameStream DEF StreamInv
  <1>11. WrittenInv' /\ DeliveredExact' /\ ClippedOnlyInside'
    BY <1>1, UndeliveredKept
  <1>12. HeadInv'
    <2>1. \A ins : AtHead(ins) => Contents(ins)'
      BY <1>1, <1>4 DEF AtHead, Contents, Whole, Partial
    <2> QED BY <1>0, <1>1, <1>3, <1>9, <2>1, SamePlace, Bounds
  <1>13. StalledInv'
    BY <1>3 DEF StalledInv
  <1>14. RecordingInv'
    <2>1. CASE pc' = "idle"
      <3>1. Head(input) # ";"
        BY <1>1, <2>1 DEF Call
      <3>2. ASSUME NEW i \in 1..Len(data') PROVE data'[i] # ";"
        <4>1. i \in 1..Len(data) \/ i = Len(data) + 1
          BY <1>5, <1>6
        <4> QED BY <1>2, <1>5, <1>6, <3>1, <4>1
      <3>3. ~ InCall'
        BY <2>1 DEF InCall
      <3> QED BY <1>1, <1>2, <1>4, <3>2, <3>3 DEF RecordingInv, Undelivered
    <2>2. CASE pc' = "top"
      <3>1. Head(input) = ";"
        BY <1>1, <2>2
      <3>2. ASSUME NEW i \in 1..Unparsed' PROVE AheadAt(i)' = ";" <=> i = Unparsed'
        <4>1. i \in 1..Ahead /\ i <= Len(data) + 1 /\ (i \in 1..Len(data) \/ i = Len(data) + 1)
          BY <1>5, <1>7
        <4>2. AheadAt(i)' = data'[i]
          BY <1>8, <4>1
        <4>3. CASE i \in 1..Len(data)
          <5>1. i # Len(data) + 1
            BY <1>5, <4>3
          <5> QED BY <1>2, <1>6, <1>7, <4>2, <4>3, <5>1
        <4>4. CASE i = Len(data) + 1
          BY <1>5, <1>6, <1>7, <3>1, <4>2, <4>4
        <4> QED BY <4>1, <4>3, <4>4
      <3>3. Unparsed' # 0
        BY <1>5, <1>7
      <3>4. ASSUME NEW i \in 1..Len(elementv'), elementv'[i] < instr' PROVE Inner(Head(written'))
        <4>1. elementv # <<>>
          <5>1. elementv = <<>> => Len(elementv') = 0
            BY <1>1
          <5> QED BY <5>1
        <4> QED BY <1>1, <1>2, <4>1 DEF Undelivered
      <3>5. state' # "COMPLETE"
        BY <1>1, <1>2
      <3> QED BY <2>2, <3>2, <3>3, <3>4, <3>5 DEF RecordingInv
    <2> QED BY <1>3, <2>1, <2>2
  <1>15. ExtentInv'
    <2>1. CASE pc' = "idle"
      BY <2>1 DEF ExtentInv, InCall
    <2>2. CASE pc' = "top"
      <3>1. ~ Handled'
        <4>1. Unparsed' # 0
          BY <1>5, <1>7
        <4> QED BY <4>1 DEF Handled
      <3>2. Parsed' - instr' = 0
        <4>1. Parsed' = saved[1] /\ instr' = saved[1]
          BY <1>3, <2>2 DEF Parsed
        <4>2. saved[1] \in Nat
          BY <1>0, Bounds
        <4> QED BY <4>1, <4>2
      <3> QED BY <1>10, <3>1, <3>2 DEF ExtentInv
    <2> QED BY <1>3, <2>1, <2>2
  <1>16. EndedInv'
    <2>1. state' # "ERROR" /\ pc' \notin {"toolong", "overrun"}
      BY <1>0, <1>1, <1>3 DEF ParserInv, PhaseInv
    <2> QED BY <2>1, NotEnded
  <1> QED BY <1>10, <1>11, <1>12, <1>13, <1>14, <1>15, <1>16 DEF WellInv

\* A byte is read past ins->data only while one instruction goes on that has filled it: the
\* last byte of an instruction is a ";", and none is among those read since the last call.
LEMMA OverrunWell ==
    ASSUME Legal, WellInv, ParserInv', Overrun
    PROVE  WellInv'
  <1>0. ParserInv /\ WrittenInv /\ StreamInv /\ HeadInv /\ RecordingInv
    BY DEF WellInv
  <1>1. /\ reader = "recording" /\ pc = "idle" /\ input # <<>> /\ Len(data) >= DataSize
        /\ pc' = "overrun" /\ Undelivered /\ UNCHANGED <<written, state>>
    BY DEF Overrun, Undelivered, envvars, parser, history
  <1>2. /\ Buffered = 0 /\ state # "COMPLETE" /\ \A i \in 1..Len(data) : data[i] # ";"
        /\ Working /\ ~ Between
    BY <1>0, <1>1 DEF RecordingInv, Working, Between
  <1>3. PICK d : d = Len(data)
    OBVIOUS
  <1>4. d \in Nat /\ DataSize \in Nat /\ d >= DataSize /\ Unparsed = d /\ Ahead > d /\ Ahead \in Nat
    <2>1. /\ Unparsed = Buffered + d /\ Ahead = Unparsed + Len(input)
          /\ d \in Nat /\ Len(input) \in Nat
      BY <1>0, <1>2, <1>3, AheadNat
    <2>2. Len(input) # 0
      BY <1>0, <1>1, Bounds, TailAt
    <2>3. Unparsed = d
      <3>1. Buffered = 0
        BY <1>2
      <3> QED BY <2>1, <3>1
    <2>4. Ahead = d + Len(input)
      BY <2>1, <2>3
    <2> QED BY <1>1, <1>3, <2>1, <2>2, <2>3, <2>4, ParserAssumption
  <1>5. PICK ins \in Instructions : AtHead(ins)
    <2>1. Ahead > 0
      BY <1>4
    <2> QED BY <1>0, <1>2, <2>1, HeadCase
  <1>6. written # <<>> /\ Head(written) = Well(ins) /\ Head(written).bytes = Encoded(ins)
    BY <1>5 DEF AtHead, Well
  <1>7. PICK o, e : o = Offset0 /\ e = Len(Encoded(ins))
    OBVIOUS
  <1>8. o \in Nat /\ e \in Nat /\ o < e
    BY <1>0, <1>2, <1>5, <1>7, PlaceWithin DEF AtHead
  <1>9. ASSUME e - o <= d PROVE FALSE
    <2>1. PICK k : k = e - o
      OBVIOUS
    <2>2. k \in 1..d /\ k \in 1..Ahead /\ o + k = e /\ ~ (k <= 0) /\ k - 0 = k
      BY <1>4, <1>8, <1>9, <2>1
    <2>3. Offset0 + k <= Len(Encoded(ins))
      BY <1>7, <1>8, <2>2
    <2>4. AheadAt(k) = Encoded(ins)[Offset0 + k]
      BY <1>0, <1>2, <1>6, <2>2, <2>3, InHead
    <2>5. Encoded(ins)[e] = ";"
      BY <1>7, EncodedEnds
    <2>6. AheadAt(k) = data[k]
      <3>1. Buffered = 0
        BY <1>2
      <3>2. Unparsed = d /\ k <= d
        BY <1>4, <2>2
      <3>3. ~ (k <= Buffered) /\ k <= Unparsed /\ k - Buffered = k
        BY <2>2, <3>1, <3>2
      <3> QED BY <3>3 DEF AheadAt
    <2>7. data[k] # ";"
      BY <1>2, <1>3, <2>2
    <2> QED BY <1>7, <2>2, <2>4, <2>5, <2>6, <2>7
  <1>10. e > DataSize
    BY <1>4, <1>8, <1>9
  <1>11. EndedInv'
    <2>1. state' # "ERROR"
      BY <1>0, <1>1 DEF ParserInv, PhaseInv
    <2>2. Len(Head(written').bytes) > DataSize /\ written' # <<>>
      BY <1>1, <1>6, <1>7, <1>10
    <2> QED BY <1>1, <2>1, <2>2 DEF EndedInv, RefusedOnlyBroken, TooLongOnly
  <1> QED BY <1>1, <1>11, NotWorking, UndeliveredKept DEF WellInv

-----------------------------------------------------------------------------
(* An instruction more is written.                                         *)

LEMMA WriteWell ==
    ASSUME Legal, WellInv, ParserInv', NEW ins \in Instructions, Write(Well(ins))
    PROVE  WellInv'
  <1>0. ParserInv /\ WrittenInv /\ StreamInv /\ HeadInv /\ StalledInv /\ RecordingInv
        /\ ExtentInv /\ EndedInv
    BY DEF WellInv
  <1>1. /\ written' = Append(written, Well(ins)) /\ input' = input \o Encoded(ins)
        /\ UNCHANGED <<reader, data, buf, saved, start, end, instr, state, elementv, length, at, pc,
                       got, last, clipped>>
    BY DEF Write, Well, pointers, parser, history
  <1>2. /\ Well(ins) \in Items /\ Well(ins).bytes = Encoded(ins) /\ Encoded(ins) \in Seq(Symbols)
        /\ Len(Encoded(ins)) \in Nat
    BY PartsAre DEF Items, Well
  <1>3. written \in Seq(Items)
    BY <1>0 DEF WrittenInv, Items
  <1>4. written' \in Seq(Items) /\ written' # <<>>
        /\ (written # <<>> => Head(written') = Head(written))
    <2>1. Len(written') = Len(written) + 1 /\ Len(written) \in Nat
      BY <1>1, <1>2, <1>3, AppendAt, LenProperties
    <2>2. written' \in Seq(Items)
      BY <1>1, <1>2, <1>3, AppendProperties
    <2>3. Len(written') # 0
      BY <2>1
    <2>4. written' # <<>>
      BY <2>3, EmptySeq
    <2>5. ASSUME written # <<>> PROVE Head(written') = Head(written)
      <3>1. Len(written) # 0 /\ Head(written) = written[1]
        BY <1>3, <2>5, TailAt
      <3>2. 1 \in 1..Len(written)
        BY <2>1, <3>1
      <3>3. Append(written, Well(ins))[1] = written[1]
        BY <1>2, <1>3, <3>2, AppendAt
      <3>4. Head(written') = written'[1]
        BY <2>2, <2>4, TailAt
      <3> QED BY <1>1, <3>1, <3>3, <3>4
    <2> QED BY <2>2, <2>4, <2>5
  <1>5. WrittenInv'
    BY <1>4 DEF WrittenInv, Items
  <1>6. StalledInv' /\ DeliveredExact' /\ ClippedOnlyInside'
    BY <1>0, <1>1 DEF WellInv, StalledInv, DeliveredExact, ClippedOnlyInside
  <1>7. EndedInv'
    <2>1. (state = "ERROR" => written # <<>> /\ ~ Acceptable(Head(written)))
      BY <1>0 DEF EndedInv, RefusedOnlyBroken
    <2>2. RefusedOnlyBroken'
      BY <1>1, <1>4, <2>1 DEF RefusedOnlyBroken
    <2>3. /\ pc = "toolong" /\ ~ (elementv = <<>> /\ start = end) => written # <<>>
          /\ pc = "overrun" => written # <<>>
          /\ TooLongOnly
      BY <1>0 DEF EndedInv
    <2>4. TooLongOnly'
      BY <1>1, <1>4, <2>3 DEF TooLongOnly
    <2> QED BY <1>1, <1>4, <2>2, <2>3, <2>4 DEF EndedInv
  <1>8. CASE ~ Working
    <2>1. pc' \in {"ended", "toolong", "closed", "overrun"}
      BY <1>0, <1>1, <1>8 DEF Working, InCall, ParserInv, TypeOK
    <2> QED BY <1>5, <1>6, <1>7, <2>1, NotWorking DEF WellInv
  <1>9. CASE Working
    <2>1. Working' /\ (InCall' <=> InCall) /\ (Between' <=> Between) /\ (Fresh' <=> Fresh)
      BY <1>1, <1>9 DEF Working, InCall, Between, Fresh
    <2>2. ParsedTo' = ParsedTo /\ Parsed' = Parsed
      BY <1>1 DEF ParsedTo, Parsed
    <2>3. Buffered' = Buffered
      BY <1>1, <2>2 DEF Buffered
    <2>4. Unparsed' = Unparsed
      BY <1>1, <2>3 DEF Unparsed
    <2>5. PICK u, a, e, m, l : u = Unparsed /\ a = Ahead /\ e = Len(Encoded(ins))
          /\ m = Len(input) /\ l = Len(Stream)
      OBVIOUS
    <2>6. u \in Nat /\ a \in Nat /\ e \in Nat /\ m \in Nat /\ l \in Nat /\ a = u + m
          /\ Offset0 = l - a /\ Offset0 \in Nat
      BY <1>0, <1>2, <1>9, <2>5, AheadNat, StreamNat DEF Offset0, StreamInv
    <2>7. /\ input \in Seq(Bytes) /\ Encoded(ins) \in Seq(Bytes) /\ Len(input') = m + e
          /\ \A i \in 1..m : input'[i] = input[i]
          /\ \A i \in 1..e : input'[m + i] = Encoded(ins)[i]
      <3>1. input \in Seq(Bytes) /\ Encoded(ins) \in Seq(Bytes)
        BY <1>0, Bounds, BytesAssumption
      <3> QED BY <1>1, <2>5, <3>1, ConcatAt, ConcatProperties
    <2>8. /\ Len(Stream') = l + e
          /\ \A i \in 1..l : Stream'[i] = Stream[i]
          /\ \A i \in 1..e : Stream'[l + i] = Encoded(ins)[i]
      <3>1. Stream' = FlattenSeq(Bodies(written'))
        BY DEF Stream, Bodies
      <3>2. Stream' = Stream \o Encoded(ins)
        BY <1>1, <1>2, <1>3, <3>1, StreamMore, StreamIs
      <3>3. Stream \in Seq(Symbols)
        BY <1>3, StreamIs, StreamType
      <3> QED BY <1>2, <2>5, <3>2, <3>3, ConcatAt, ConcatProperties
    <2>9. Ahead' = a + e /\ Offset0' = Offset0
      <3>1. Ahead' = u + (m + e)
        BY <2>4, <2>5, <2>7 DEF Ahead
      <3>2. Ahead' = a + e
        BY <2>6, <3>1
      <3>3. Offset0' = (l + e) - (a + e)
        BY <2>8, <3>2 DEF Offset0
      <3> QED BY <2>6, <3>2, <3>3
    <2>10. ASSUME NEW i \in 1..a PROVE AheadAt(i)' = AheadAt(i)
      <3>1. CASE i <= Unparsed
        BY <1>1, <2>2, <2>3, <2>4, <3>1 DEF AheadAt
      <3>2. CASE ~ (i <= Unparsed)
        <4>1. PICK k \in 1..m : i - u = k
          <5>1. i - u \in 1..m
            BY <2>5, <2>6, <3>2
          <5> QED BY <5>1
        <4>2. ~ (i <= Buffered)
          <5>1. Buffered \in Nat /\ Buffered <= Unparsed /\ Unparsed \in Nat
            <6>1. Buffered \in Nat /\ Unparsed = Buffered + Len(data) /\ Len(data) \in Nat
              BY <1>0, <1>9, AheadNat
            <6> QED BY <6>1
          <5> QED BY <3>2, <5>1
        <4>3. AheadAt(i) = input[k] /\ AheadAt(i)' = input'[k]
          BY <2>3, <2>4, <2>5, <3>2, <4>1, <4>2 DEF AheadAt
        <4> QED BY <2>7, <4>3
      <3> QED BY <3>1, <3>2
    <2>11. StreamInv'
      <3>1. ASSUME NEW i \in 1..(a + e) PROVE AheadAt(i)' = Stream'[Offset0 + i]
        <4>1. CASE i <= a
          <5>1. i \in 1..a /\ Offset0 + i \in 1..l
            BY <2>6, <4>1
          <5>2. AheadAt(i) = Stream[Offset0 + i]
            BY <1>0, <1>9, <2>5, <5>1 DEF StreamInv
          <5> QED BY <2>8, <2>10, <5>1, <5>2
        <4>2. CASE ~ (i <= a)
          <5>1. PICK k \in 1..e : i = a + k
            <6>1. i - a \in 1..e /\ i = a + (i - a)
              BY <2>6, <4>2
            <6> QED BY <6>1
          <5>2. Offset0 + i = l + k /\ i - u = m + k /\ ~ (i <= u)
            BY <2>6, <5>1
          <5>3. ~ (i <= Buffered)
            <6>1. Buffered \in Nat /\ Buffered <= Unparsed /\ Unparsed \in Nat
              <7>1. Buffered \in Nat /\ Unparsed = Buffered + Len(data) /\ Len(data) \in Nat
                BY <1>0, <1>9, AheadNat
              <7> QED BY <7>1
            <6> QED BY <2>5, <5>2, <6>1
          <5>4. AheadAt(i)' = input'[m + k]
            BY <2>3, <2>4, <2>5, <5>2, <5>3 DEF AheadAt
          <5> QED BY <2>7, <2>8, <5>2, <5>4
        <4> QED BY <4>1, <4>2
      <3>2. reader' = "socket" => data' = <<>>
        BY <1>0, <1>1, <1>9 DEF StreamInv
      <3> QED BY <2>6, <2>9, <3>1, <3>2 DEF StreamInv
    <2>12. ~ Between /\ elementv # <<>> => written # <<>>
      BY <1>0, <1>9 DEF HeadInv, Fresh
    <2>13. HeadInv'
      <3>1. CASE Between
        <4>1. Offset0 = 0 /\ reader = "socket"
          BY <1>0, <1>9, <3>1 DEF HeadInv
        <4> QED BY <1>1, <2>1, <2>9, <3>1, <4>1 DEF HeadInv
      <3>2. CASE ~ Between /\ written = <<>>
        <4>1. Fresh
          BY <1>0, <1>9, <3>2 DEF HeadInv
        <4>2. l = 0
          BY <2>5, <3>2, StreamIs, StreamEmpty
        <4>3. Offset0 = 0
          BY <2>6, <4>2
        <4> QED BY <1>5, <2>1, <2>9, <4>1, <4>3, StartPlace
      <3>3. CASE ~ Between /\ written # <<>>
        <4>1. PICK x \in Instructions : Head(written) = Well(x) /\ Place(x) /\ Contents(x)
          BY <1>0, <1>9, <3>3 DEF HeadInv
        <4>2. Place(x)'
          BY <1>1, <2>9, <4>1 DEF Place
        <4>3. Contents(x)'
          BY <1>1, <2>2, <4>1 DEF Contents, Whole, Partial
        <4> QED BY <1>4, <2>1, <3>3, <4>1, <4>2, <4>3 DEF HeadInv
      <3> QED BY <3>1, <3>2, <3>3
    <2>14. RecordingInv'
      <3> SUFFICES ASSUME reader' = "recording" PROVE RecordingInv'
        BY DEF RecordingInv
      <3>1. reader = "recording"
        BY <1>1
      <3>2. ~ Between
        BY <1>0, <3>1 DEF RecordingInv, Between
      <3>3. elementv # <<>> => Head(written') = Head(written)
        BY <1>4, <2>12, <3>2
      <3>4. ASSUME NEW i \in 1..Unparsed PROVE AheadAt(i)' = AheadAt(i)
        <4>1. i \in 1..a
          BY <2>5, <2>6
        <4> QED BY <2>10, <4>1
      <3>5. CASE pc = "idle"
        <4>1. ~ InCall'
          BY <1>1, <3>5 DEF InCall
        <4> QED BY <1>0, <1>1, <2>3, <3>1, <3>3, <3>5, <4>1 DEF RecordingInv
      <3>6. CASE InCall
        <4>1. pc' # "idle"
          BY <1>1, <3>6 DEF InCall
        <4>2. \A i \in 1..Unparsed' : AheadAt(i)' = ";" <=> i = Unparsed'
          BY <1>0, <2>4, <3>1, <3>4, <3>6 DEF RecordingInv
        <4>3. /\ Unparsed' = 0 /\ elementv' # <<>> /\ state' # "COMPLETE" => Inner(Head(written'))
              /\ state' = "COMPLETE" => Unparsed' = 0
          BY <1>0, <1>1, <2>4, <3>1, <3>3, <3>6 DEF RecordingInv
        <4>4. ASSUME NEW i \in 1..Len(elementv'), elementv'[i] < instr' PROVE Inner(Head(written'))
          <5>1. i \in 1..Len(elementv) /\ elementv[i] < instr
            BY <1>1, <4>4
          <5>2. elementv # <<>>
            <6>1. elementv = <<>> => 1..Len(elementv) = {}
              OBVIOUS
            <6> QED BY <5>1, <6>1
          <5> QED BY <1>0, <3>1, <3>3, <3>6, <5>1, <5>2 DEF RecordingInv
        <4> QED BY <4>1, <4>2, <4>3, <4>4 DEF RecordingInv
      <3> QED BY <1>9, <3>5, <3>6 DEF Working
    <2>15. ExtentInv'
      <3>1. Handled' <=> Handled
        BY <1>1, <2>4 DEF Handled
      <3> QED BY <1>0, <1>1, <2>1, <2>2, <2>9, <3>1 DEF ExtentInv
    <2> QED BY <1>5, <1>6, <1>7, <2>11, <2>13, <2>14, <2>15 DEF WellInv
  <1> QED BY <1>8, <1>9

-----------------------------------------------------------------------------
(* What holds of every behaviour when only instructions are written.       *)

LEMMA InitWell == Init => WellInv
  <1> SUFFICES ASSUME Init PROVE WellInv
    OBVIOUS
  <1>1. /\ written = <<>> /\ input = <<>> /\ data = <<>> /\ saved = <<0, 0>> /\ pc = "idle"
        /\ state = "LENGTH" /\ elementv = <<>> /\ length = 0
        /\ got = <<>> /\ last = Ill(<<>>) /\ clipped = FALSE
    BY DEF Init
  <1>2. ParserInv
    BY InitParserInv
  <1>3. WrittenInv
    BY <1>1 DEF WrittenInv
  <1>4. Offset0 = 0 /\ Ahead = 0 /\ Buffered = 0
    <2>1. ParsedTo = 0 /\ Buffered = 0
      BY <1>1 DEF ParsedTo, Buffered
    <2>2. Len(data) = 0 /\ Len(input) = 0
      BY <1>1
    <2>3. Ahead = 0
      BY <2>1, <2>2 DEF Ahead, Unparsed
    <2>4. Len(Stream) = 0
      BY <1>1, StreamIs, StreamEmpty
    <2> QED BY <2>1, <2>3, <2>4 DEF Offset0
  <1>5. StreamInv
    <2>1. 1..Ahead = {}
      BY <1>4
    <2> QED BY <1>1, <1>4, <2>1 DEF StreamInv
  <1>6. HeadInv
    BY <1>1 DEF HeadInv, Fresh, Between
  <1>7. StalledInv /\ ExtentInv /\ EndedInv
    BY <1>1 DEF StalledInv, ExtentInv, InCall, EndedInv, RefusedOnlyBroken, TooLongOnly
  <1>8. RecordingInv
    <2>1. 1..Len(data) = {}
      BY <1>1
    <2> QED BY <1>1, <1>4, <2>1 DEF RecordingInv, InCall
  <1>9. DeliveredExact /\ ClippedOnlyInside
    BY <1>1 DEF DeliveredExact, ClippedOnlyInside, Ill
  <1> QED BY <1>2, <1>3, <1>5, <1>6, <1>7, <1>8, <1>9 DEF WellInv

LEMMA ParseWell ==
    ASSUME Legal, WellInv, ParserInv', Parse
    PROVE  WellInv'
  BY AppendBeginsWell, TooManyElementsWell, LengthDigitWell, LengthPeriodWell, LengthErrorWell,
     IncompleteWell, ContentCharacterWell, ContentTerminatorWell, NoContentError DEF Parse

LEMMA ReaderWell ==
    ASSUME Legal, BufSize > 1, WellInv, ParserInv', Reader
    PROVE  WellInv'
  BY ParseWell, AdvanceWell, TooLongWell, SocketCallWell, SocketReturnsWell, SocketRefillWell,
     GivesUpWell, HandOverWell, ReadByteWell, RecordingHandlesWell, RecordingRefillWell,
     RecordingReturnsWell, OverrunWell DEF Reader

LEMMA NextWell ==
    ASSUME Legal, BufSize > 1, WellInv, [Next]_vars
    PROVE  WellInv'
  <1>1. ParserInv'
    BY NextParserInv DEF WellInv
  <1>2. ASSUME NEW ins \in Instructions, Write(Well(ins)) PROVE WellInv'
    BY <1>1, <1>2, WriteWell
  <1>3. ASSUME NEW bytes \in Broken, Write(Ill(bytes)) PROVE WellInv'
    BY DEF Legal
  <1>4. CASE Reader
    BY <1>1, <1>4, ReaderWell
  <1>5. CASE UNCHANGED vars
    <2> USE <1>5 DEF vars, envvars, parser, pointers, history
    <2>1. /\ Working' = Working /\ InCall' = InCall /\ Parsed' = Parsed /\ ParsedTo' = ParsedTo
          /\ Between' = Between /\ Fresh' = Fresh /\ Stream' = Stream
      BY DEF Working, InCall, Parsed, ParsedTo, Between, Fresh, Stream
    <2>2. Buffered' = Buffered
      BY <2>1 DEF Buffered
    <2>3. Unparsed' = Unparsed
      BY <2>2 DEF Unparsed
    <2>4. Ahead' = Ahead /\ Offset0' = Offset0
      BY <2>1, <2>3 DEF Ahead, Offset0
    <2>5. \A i : AheadAt(i)' = AheadAt(i)
      BY <2>1, <2>2, <2>3 DEF AheadAt
    <2>6. WrittenInv' /\ StalledInv' /\ DeliveredExact' /\ ClippedOnlyInside' /\ EndedInv'
      BY DEF WellInv, WrittenInv, StalledInv, DeliveredExact, ClippedOnlyInside, EndedInv,
             RefusedOnlyBroken, TooLongOnly
    <2>7. StreamInv'
      BY <2>1, <2>4, <2>5 DEF WellInv, StreamInv
    <2>8. HeadInv'
      <3>1. \A ins : (Place(ins) => Place(ins)') /\ (Contents(ins) => Contents(ins)')
        BY <2>1, <2>4 DEF Place, Contents, Whole, Partial
      <3> QED BY <2>1, <2>4, <3>1 DEF WellInv, HeadInv
    <2>9. RecordingInv'
      BY <2>1, <2>2, <2>3, <2>5 DEF WellInv, RecordingInv
    <2>10. ExtentInv'
      BY <2>1, <2>3, <2>4 DEF WellInv, ExtentInv, Handled
    <2> QED BY <1>1, <2>6, <2>7, <2>8, <2>9, <2>10 DEF WellInv
  <1> QED BY <1>2, <1>3, <1>4, <1>5 DEF Next

LEMMA WellInvHolds ==
    ASSUME Legal, BufSize > 1
    PROVE  Spec => []WellInv
  <1>1. WellInv /\ [Next]_vars => WellInv'
    BY NextWell
  <1> QED BY <1>1, InitWell, PTL DEF Spec

\* Whoever reads, and however the bytes were split, moved in the buffer or handed over to
\* another process, a handler is given the very elements that were written, unless one of
\* them lies before the buffer.
THEOREM DeliveryExact ==
    ASSUME Legal, BufSize > 1
    PROVE  Spec => []DeliveredExact
  <1>1. WellInv => DeliveredExact
    BY DEF WellInv
  <1> QED BY <1>1, WellInvHolds, PTL

\* An element lies before the buffer only when ins_parser_read was called in the middle of
\* its instruction, for a ";" within an element.
THEOREM ClippedInside ==
    ASSUME Legal, BufSize > 1
    PROVE  Spec => []ClippedOnlyInside
  <1>1. WellInv => ClippedOnlyInside
    BY DEF WellInv
  <1> QED BY <1>1, WellInvHolds, PTL

\* guac_parser_append refuses no instruction that has fewer elements, and no longer ones,
\* than its limits allow.
THEOREM RefusedBroken ==
    ASSUME Legal, BufSize > 1
    PROVE  Spec => []RefusedOnlyBroken
  <1>1. WellInv => RefusedOnlyBroken
    BY DEF WellInv, EndedInv
  <1> QED BY <1>1, WellInvHolds, PTL

\* A reader gives up for lack of space only on an instruction that is as long as its whole
\* buffer, and job_loop_read_recodingfile writes past ins->data only in one that is longer
\* than that array.
THEOREM TooLongReal ==
    ASSUME Legal, BufSize > 1
    PROVE  Spec => []TooLongOnly
  <1>1. WellInv => TooLongOnly
    BY DEF WellInv, EndedInv
  <1> QED BY <1>1, WellInvHolds, PTL

\* When all bytes of a recording have been read, every instruction that was written has
\* been handled: the last byte of an instruction makes ins_parser_read go through it.
THEOREM RecordingCaughtUp ==
    ASSUME Legal, BufSize > 1
    PROVE  Spec => []CaughtUp
  <1>1. WellInv => CaughtUp
    <2> SUFFICES ASSUME WellInv, reader = "recording", pc = "idle", input = <<>>
                 PROVE  written = <<>> /\ data = <<>>
      BY DEF CaughtUp
    <2>1. /\ ParserInv /\ WrittenInv /\ StreamInv /\ HeadInv /\ Working /\ ~ Between
          /\ Buffered = 0 /\ state # "COMPLETE" /\ \A i \in 1..Len(data) : data[i] # ";"
      BY DEF WellInv, RecordingInv, Working, Between
    <2>2. data \in Seq(Bytes) /\ written \in Seq(Items) /\ Len(input) = 0
      BY <2>1, Bounds DEF WrittenInv, Items
    <2>3. PICK d, l : d = Len(data) /\ l = Len(Stream)
      OBVIOUS
    <2>4. /\ d \in Nat /\ l \in Nat /\ Unparsed = d /\ Ahead = d /\ Offset0 = l - d
             /\ Offset0 \in Nat
      <3>1. /\ Len(data) \in Nat /\ Len(Stream) \in Nat /\ Unparsed = Buffered + Len(data)
            /\ Ahead = Unparsed + Len(input)
        BY <2>1, AheadNat, StreamNat
      <3>2. Buffered = 0
        BY <2>1
      <3>3. d \in Nat /\ l \in Nat /\ Unparsed = d /\ Ahead = d
        BY <2>2, <2>3, <3>1, <3>2
      <3>4. Offset0 = l - d
        BY <2>3, <3>3 DEF Offset0
      <3>5. Offset0 \in Nat
        BY <2>1 DEF StreamInv
      <3> QED BY <3>3, <3>4, <3>5
    <2>5. CASE written = <<>>
      <3>1. l = 0
        BY <2>3, <2>5, StreamIs, StreamEmpty
      <3>2. d = 0
        BY <2>4, <3>1
      <3> QED BY <2>2, <2>3, <2>5, <3>2, EmptySeq
    <2>6. CASE written # <<>>
      <3>1. PICK ins \in Instructions : Head(written) = Well(ins) /\ Place(ins)
        BY <2>1, <2>6 DEF HeadInv
      <3>2. Offset0 < Len(Encoded(ins)) /\ Len(Encoded(ins)) \in Nat
        BY <2>1, <3>1, PlaceWithin
      <3>3. Len(Encoded(ins)) <= l
        BY <2>1, <2>3, <2>6, <3>1, HeadStream
      <3>4. d \in 1..d /\ d <= Unparsed /\ ~ (d <= 0) /\ d - 0 = d /\ Offset0 + d = l
        BY <2>4, <3>2, <3>3
      <3>5. AheadAt(d) = Stream[l]
        BY <2>1, <2>4, <3>4 DEF StreamInv
      <3>6. Stream[l] = ";"
        BY <2>2, <2>3, <2>6, StreamIs, StreamEnds
      <3>7. AheadAt(d) = data[d]
        BY <2>1, <3>4 DEF AheadAt
      <3>8. data[d] # ";"
        BY <2>1, <2>3, <3>4
      <3> QED BY <3>5, <3>6, <3>7, <3>8
    <2> QED BY <2>5, <2>6
  <1> QED BY <1>1, WellInvHolds, PTL
=============================================================================

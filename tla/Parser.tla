------------------------------- MODULE Parser -------------------------------
(***************************************************************************)
(* The protocol parser: guac_parser_append (libguac/parser.c) and its two  *)
(* readers, guac_parser_read for a socket and ins_parser_read of guacenc   *)
(* for a recording (encode.c), which keep the instruction they read in a   *)
(* buffer of fixed size and the elements as pointers into it.              *)
(*                                                                         *)
(* A byte is a string of one character.  "w" is the first byte of a        *)
(* character of two bytes, "w2" the second.  A position is an offset from  *)
(* __instructionbuf.  A reader is one thread; a step is one byte or one    *)
(* character of guac_parser_append, or one branch of the loop around it.   *)
(* Length prefixes are one digit long.                                     *)
(***************************************************************************)
EXTENDS Integers, Sequences, SequencesExt

CONSTANTS Readers,       \* the readers considered: "socket", "recording"
          Instructions,  \* instructions: sequences of elements, each of characters
          Broken,        \* malformed instructions: sequences of bytes
          BufSize,       \* sizeof(__instructionbuf)
          DataSize,      \* sizeof(ins->data)
          MaxElements,   \* GUAC_INSTRUCTION_MAX_ELEMENTS
          MaxLength,     \* GUAC_INSTRUCTION_MAX_LENGTH
          MaxSent        \* bound on the instructions written

DIGITS == <<"0", "1", "2", "3", "4", "5", "6", "7", "8", "9">>
Digits == {DIGITS[i] : i \in DOMAIN DIGITS}
Value(d) == (CHOOSE i \in DOMAIN DIGITS : DIGITS[i] = d) - 1
NUL == "NUL"

ASSUME ParserAssumption ==
    /\ Readers \subseteq {"socket", "recording"}
    /\ BufSize \in Nat \ {0} /\ DataSize \in Nat \ {0} /\ MaxSent \in Nat
    /\ MaxElements \in Nat \ {0} /\ MaxLength \in Nat

VARIABLES
    reader,    \* who reads
    written,   \* the instructions written and not yet delivered
    sent,      \* how many were written
    input,     \* bytes written and not yet read
    data,      \* ins->data, up to ins->offsetLen
    buf,       \* __instructionbuf
    saved,     \* __instructionbuf_unparsed_start and _end
    start, end, instr,  \* unparsed_start, unparsed_end and instr_start of the call
    state,     \* parser->state
    elementv,  \* __elementv, as many as __elementc
    length,    \* __element_length
    at,        \* char_buffer in guac_parser_append
    pc,        \* where the reader is
    got,       \* the elements delivered last
    last,      \* the instruction they were written as
    clipped    \* some of them were before the start of the buffer

envvars  == <<reader, written, sent>>
parser   == <<state, elementv, length>>
pointers == <<start, end, instr>>
history  == <<got, last, clipped>>
vars == <<envvars, input, data, buf, saved, pointers, parser, at, pc, history>>

(* Instructions as they are written.                                       *)

BytesOf(element) ==
    FlattenSeq([i \in DOMAIN element |->
                   IF element[i] = "w" THEN <<"w", "w2">> ELSE <<element[i]>>])

Element(element) == <<DIGITS[Len(element) + 1], ".">> \o BytesOf(element)

Encoded(ins) ==
    FlattenSeq([i \in DOMAIN ins |->
                   Append(Element(ins[i]), IF i = Len(ins) THEN ";" ELSE ",")])

Well(ins) == [bytes |-> Encoded(ins), args |-> [i \in DOMAIN ins |-> BytesOf(ins[i])]]
Ill(bytes) == [bytes |-> bytes, args |-> <<>>]

\* What is written are bytes; the end of a string is one, too.
Bytes == STRING \union {NUL}

ASSUME BytesAssumption ==
    /\ \A ins \in Instructions : Encoded(ins) \in Seq(Bytes)
    /\ Broken \subseteq Seq(Bytes)

-----------------------------------------------------------------------------
Positions == 0..(BufSize - 1)

Init ==
    /\ reader \in Readers
    /\ written = <<>> /\ sent = 0 /\ input = <<>> /\ data = <<>>
    /\ buf = [i \in Positions |-> NUL]
    /\ saved = <<0, 0>> /\ start = 0 /\ end = 0 /\ instr = 0
    /\ state = "LENGTH" /\ elementv = <<>> /\ length = 0
    /\ at = 0 /\ pc = "idle"
    /\ got = <<>> /\ last = Ill(<<>>) /\ clipped = FALSE

Write(item) ==
    /\ sent < MaxSent /\ Len(input) < BufSize
    /\ sent' = sent + 1
    /\ written' = Append(written, item)
    /\ input' = input \o item.bytes
    /\ UNCHANGED <<reader, data, buf, saved, pointers, parser, at, pc, history>>

-----------------------------------------------------------------------------
(* guac_parser_append, from the bytes in start..end.  In pc "append" it is  *)
(* called, in pc "parsed" it has returned at - start.                       *)

Reset == state' = "LENGTH" /\ elementv' = <<>> /\ length' = 0

Fail ==
    /\ state' = "ERROR" /\ pc' = "ended"
    /\ UNCHANGED <<envvars, input, data, buf, saved, pointers, elementv, length, at, history>>

\* Mutant: the limit is met one element early.
AtLimitEarly == Len(elementv) = MaxElements - 1

\* __elementc == GUAC_INSTRUCTION_MAX_ELEMENTS
AtLimit == Len(elementv) = MaxElements

AppendBegins ==
    /\ pc = "append" /\ ~ AtLimit
    /\ at' = start
    /\ pc' = IF state = "LENGTH" THEN "length" ELSE "content"
    /\ UNCHANGED <<envvars, input, data, buf, saved, pointers, parser, history>>

\* "Do not exceed maximum number of elements"
TooManyElements ==
    /\ pc = "append" /\ AtLimit
    /\ Fail

LengthDigit ==
    /\ pc = "length" /\ at < end /\ buf[at] \in Digits
    /\ length' = length * 10 + Value(buf[at])
    /\ at' = at + 1
    /\ UNCHANGED <<envvars, input, data, buf, saved, pointers, state, elementv, pc, history>>

LengthPeriod ==
    /\ pc = "length" /\ at < end /\ buf[at] = "." /\ length <= MaxLength
    /\ elementv' = Append(elementv, at + 1)
    /\ state' = "CONTENT" /\ pc' = "content"
    /\ at' = at + 1
    /\ UNCHANGED <<envvars, input, data, buf, saved, pointers, length, history>>

\* no digit, or an element that is too long
LengthError ==
    /\ pc = "length"
    /\ \/ at < end /\ buf[at] \notin Digits \union {"."}
       \/ length > MaxLength /\ (at < end => buf[at] = ".")
    /\ Fail

LengthIncomplete ==
    /\ pc = "length" /\ at = end /\ length <= MaxLength
    /\ pc' = "parsed"
    /\ UNCHANGED <<envvars, input, data, buf, saved, pointers, parser, at, history>>

CharSize(b) == IF b = "w" THEN 2 ELSE 1    \* guac_utf8_charsize

\* Mutant: a character is taken although its end is not in the buffer yet.
CharBegun == at < end

CharComplete == at < end /\ at + CharSize(buf[at]) <= end

ContentCharacter ==
    /\ pc = "content" /\ CharComplete /\ length > 0
    /\ length' = length - 1
    /\ at' = at + CharSize(buf[at])
    /\ UNCHANGED <<envvars, input, data, buf, saved, pointers, state, elementv, pc, history>>

\* the terminator of the element becomes the end of its string
ContentTerminator ==
    /\ pc = "content" /\ CharComplete /\ length = 0
    /\ buf[at] \in {";", ","}
    /\ state' = IF buf[at] = ";" THEN "COMPLETE" ELSE "LENGTH"
    /\ buf' = [buf EXCEPT ![at] = NUL]
    /\ at' = at + 1
    /\ pc' = "parsed"
    /\ UNCHANGED <<envvars, input, data, saved, pointers, elementv, length, history>>

ContentError ==
    /\ pc = "content" /\ CharComplete /\ length = 0
    /\ buf[at] \notin {";", ","}
    /\ buf' = [buf EXCEPT ![at] = NUL]
    /\ state' = "ERROR" /\ pc' = "ended"
    /\ UNCHANGED <<envvars, input, data, saved, pointers, elementv, length, at, history>>

ContentIncomplete ==
    /\ pc = "content" /\ ~ CharComplete
    /\ pc' = "parsed"
    /\ UNCHANGED <<envvars, input, data, buf, saved, pointers, parser, at, history>>

-----------------------------------------------------------------------------
(* What the loops around guac_parser_append have in common.                *)

\* The C string at a position, and whatever is there for one outside the buffer.
CString(p) ==
    IF p \notin Positions THEN <<"?">>
    ELSE LET e == CHOOSE e \in p..BufSize :
                      /\ e = BufSize \/ buf[e] = NUL
                      /\ \A i \in p..(e - 1) : buf[i] # NUL
         IN  [i \in 1..(e - p) |-> buf[p + i - 1]]

\* The instruction is handed to its handler.
Deliver ==
    /\ got' = [i \in DOMAIN elementv |-> CString(elementv[i])]
    /\ clipped' = \E i \in DOMAIN elementv : elementv[i] < 0
    /\ last' = IF written = <<>> THEN Ill(<<>>) ELSE Head(written)
    /\ written' = IF written = <<>> THEN <<>> ELSE Tail(written)

\* Mutant: the instruction is taken to start where the buffer does.
CallFromBuffer == start' = saved[1] /\ end' = saved[2] /\ instr' = 0 /\ pc' = "top"

\* A reader is called: the pointers are those saved by the call before.
Call == start' = saved[1] /\ end' = saved[2] /\ instr' = saved[1] /\ pc' = "top"

Advance ==
    /\ pc = "parsed" /\ at > start
    /\ start' = at
    /\ pc' = "top"
    /\ UNCHANGED <<envvars, input, data, buf, saved, end, instr, parser, at, history>>

\* "Instruction too long"
TooLong ==
    /\ pc = "parsed" /\ at = start
    /\ end = BufSize /\ instr = 0
    /\ pc' = "toolong"
    /\ UNCHANGED <<envvars, input, data, buf, saved, pointers, parser, at, history>>

NeedsData == pc = "parsed" /\ at = start /\ ~ (end = BufSize /\ instr = 0)

\* Mutant: only what is not parsed yet is kept.
OffsetUnparsed == IF end = BufSize THEN start ELSE 0

\* "Shift backward if possible": by how much
Offset == IF end = BufSize THEN instr ELSE 0

\* Mutant: the elements parsed so far are not updated.
RefilledStale(more) ==
    LET e == end - Offset IN
    /\ buf' = [i \in Positions |->
                  IF i < e THEN buf[i + Offset]
                  ELSE IF i < e + Len(more) THEN more[i - e + 1] ELSE buf[i]]
    /\ start' = start - Offset /\ end' = e + Len(more) /\ instr' = instr - Offset
    /\ elementv' = elementv

\* the shift, and more read to the end of what is in the buffer
Refilled(more) ==
    LET e == end - Offset IN
    /\ buf' = [i \in Positions |->
                  IF i < e THEN buf[i + Offset]
                  ELSE IF i < e + Len(more) THEN more[i - e + 1] ELSE buf[i]]
    /\ start' = start - Offset /\ end' = e + Len(more) /\ instr' = instr - Offset
    /\ elementv' = [i \in DOMAIN elementv |-> elementv[i] - Offset]

Space == BufSize - (end - Offset)
SmallerOf(m, n) == IF m < n THEN m ELSE n

-----------------------------------------------------------------------------
(* guac_parser_read, called again and again by the thread of a user.       *)

SocketCall ==
    /\ reader = "socket" /\ pc = "idle"
    /\ IF state = "COMPLETE" THEN Reset ELSE UNCHANGED parser
    /\ Call
    /\ UNCHANGED <<envvars, input, data, buf, saved, at, history>>

SocketTop ==
    /\ reader = "socket" /\ pc = "top" /\ state # "COMPLETE"
    /\ pc' = "append"
    /\ UNCHANGED <<envvars, input, data, buf, saved, pointers, parser, at, history>>

SocketReturns ==
    /\ reader = "socket" /\ pc = "top" /\ state = "COMPLETE"
    /\ saved' = <<start, end>>
    /\ Deliver
    /\ pc' = "idle"
    /\ UNCHANGED <<reader, sent, input, data, buf, pointers, parser, at>>

\* read() returns some of what was written
SocketRefill ==
    /\ reader = "socket" /\ NeedsData
    /\ \E n \in 1..SmallerOf(Space, Len(input)) :
          /\ Refilled(SubSeq(input, 1, n))
          /\ input' = SubSeq(input, n + 1, Len(input))
    /\ pc' = "top"
    /\ UNCHANGED <<envvars, data, saved, state, length, at, history>>

\* the timeout passed, read() failed or the connection was closed: the callers
\* give the connection up
SocketGivesUp ==
    /\ reader = "socket" /\ NeedsData
    /\ pc' = "closed"
    /\ UNCHANGED <<envvars, input, data, buf, saved, pointers, parser, at, history>>

\* guacd_connection_write_thread: guac_parser_shift until nothing is left, then
\* what is still in the socket; the process at the other end has a new parser
HandOver ==
    /\ reader = "socket" /\ pc = "idle" /\ state = "COMPLETE"
    /\ input' = [i \in 1..(saved[2] - saved[1]) |-> buf[saved[1] + i - 1]] \o input
    /\ saved' = <<0, 0>>
    /\ buf' = [i \in Positions |-> NUL]
    /\ Reset
    /\ UNCHANGED <<envvars, data, pointers, at, pc, history>>

-----------------------------------------------------------------------------
(* job_loop_read_recodingfile and ins_parser_read.                         *)

ReadByte ==
    /\ reader = "recording" /\ pc = "idle" /\ input # <<>>
    /\ Len(data) < DataSize
    /\ data' = Append(data, Head(input))
    /\ input' = Tail(input)
    /\ IF Head(input) = ";" THEN Call ELSE UNCHANGED <<pointers, pc>>
    /\ UNCHANGED <<envvars, buf, saved, parser, at, history>>

\* the byte is read to ins->data + ins->offsetLen whatever offsetLen is, so here to what
\* follows the array (offsetLen itself); nothing is said of what happens then
Overrun ==
    /\ reader = "recording" /\ pc = "idle" /\ input # <<>>
    /\ Len(data) >= DataSize
    /\ pc' = "overrun"
    /\ UNCHANGED <<envvars, input, data, buf, saved, pointers, parser, at, history>>

RecordingTop ==
    /\ reader = "recording" /\ pc = "top" /\ state # "COMPLETE"
    /\ pc' = "append"
    /\ UNCHANGED <<envvars, input, data, buf, saved, pointers, parser, at, history>>

\* Mutant: a call ends with the first complete instruction, as guac_parser_read does.
RecordingReturnsComplete ==
    /\ reader = "recording" /\ pc = "top" /\ state = "COMPLETE"
    /\ saved' = <<start, end>>
    /\ pc' = "idle"
    /\ UNCHANGED <<envvars, input, data, buf, pointers, parser, at, history>>

\* ins_handle_complete_instruction and ins_parser_reset
RecordingHandles ==
    /\ reader = "recording" /\ pc = "top" /\ state = "COMPLETE"
    /\ Deliver
    /\ Reset
    /\ pc' = "append"
    /\ UNCHANGED <<reader, sent, input, data, buf, saved, pointers, at>>

\* ins_read_instructions
RecordingRefill ==
    /\ reader = "recording" /\ NeedsData /\ data # <<>>
    /\ LET n == SmallerOf(Space, Len(data)) IN
         /\ Refilled(SubSeq(data, 1, n))
         /\ data' = SubSeq(data, n + 1, Len(data))
    /\ pc' = "top"
    /\ UNCHANGED <<envvars, input, saved, state, length, at, history>>

\* Mutant: the loop goes on when there is nothing more to parse.
RecordingLoops ==
    /\ reader = "recording" /\ NeedsData /\ data = <<>>
    /\ Refilled(<<>>)
    /\ pc' = "top"
    /\ UNCHANGED <<envvars, input, data, saved, state, length, at, history>>

\* nothing is left to parse: the pointers are saved, even within an instruction
RecordingReturns ==
    /\ reader = "recording" /\ NeedsData /\ data = <<>>
    /\ Refilled(<<>>)
    /\ saved' = <<start', end'>>
    /\ pc' = "idle"
    /\ UNCHANGED <<envvars, input, data, state, length, at, history>>

-----------------------------------------------------------------------------
Parse ==
    \/ AppendBegins \/ TooManyElements
    \/ LengthDigit \/ LengthPeriod \/ LengthError \/ LengthIncomplete
    \/ ContentCharacter \/ ContentTerminator \/ ContentError \/ ContentIncomplete

Reader ==
    \/ Parse \/ Advance \/ TooLong
    \/ SocketCall \/ SocketTop \/ SocketReturns \/ SocketRefill \/ SocketGivesUp \/ HandOver
    \/ ReadByte \/ Overrun \/ RecordingTop \/ RecordingHandles \/ RecordingRefill \/ RecordingReturns

Next ==
    \/ \E ins \in Instructions : Write(Well(ins))
    \/ \E bytes \in Broken : Write(Ill(bytes))
    \/ Reader

Spec == Init /\ [][Next]_vars

(* The thread of the reader is scheduled.                                  *)
FairSpec == Spec /\ WF_vars(Reader)

-----------------------------------------------------------------------------
TypeOK ==
    /\ reader \in Readers /\ sent \in 0..MaxSent
    /\ start \in 0..BufSize /\ end \in start..BufSize /\ instr \in 0..start
    /\ saved[1] \in 0..BufSize /\ saved[2] \in saved[1]..BufSize
    /\ state \in {"LENGTH", "CONTENT", "COMPLETE", "ERROR"}
    /\ Len(elementv) <= MaxElements /\ length \in Nat
    /\ pc \in {"length", "content", "parsed"} => at \in start..end
    /\ pc \in {"idle", "top", "append", "length", "content", "parsed", "ended", "toolong",
               "closed", "overrun"}

(* The handler is given the very elements that were written, in order and   *)
(* once each, however the bytes were split, moved in the buffer or handed   *)
(* over, provided no element lies before the buffer.                        *)
DeliveredExact == ~ clipped => got = last.args

(* An element comes to lie before the buffer only in a recording, and only  *)
(* when the instruction has a ";" within an element: only then does a call  *)
(* of ins_parser_read begin, and shift the buffer, in mid-instruction.      *)
ClippedOnlyInside ==
    clipped => /\ reader = "recording"
               /\ \E i \in DOMAIN last.args : ";" \in ToSet(last.args[i])

\* An instruction is legal and below the limits.
Acceptable(item) ==
    /\ item.args # <<>> /\ Len(item.args) < MaxElements
    /\ \A i \in DOMAIN item.args : Len(item.args[i]) <= MaxLength

(* A well-formed instruction below the limits is never refused.             *)
RefusedOnlyBroken == state = "ERROR" => written # <<>> /\ ~ Acceptable(Head(written))

(* The parser gives up for lack of space only on an instruction that is at  *)
(* least as long as the whole buffer, even if it is the one just handled;   *)
(* and job_loop_read_recodingfile writes past ins->data only in one that is *)
(* longer than that (jobs.c:191).                                           *)
TooLongOnly ==
    /\ pc = "toolong" =>
         Len((IF elementv = <<>> /\ start = end THEN last ELSE Head(written)).bytes) >= BufSize
    /\ pc = "overrun" => Len(Head(written).bytes) > DataSize

(* When a recording has been read to its end, each of its instructions has  *)
(* been handled: nothing stays in a buffer until more is recorded.          *)
CaughtUp ==
    reader = "recording" /\ pc = "idle" /\ input = <<>> => written = <<>> /\ data = <<>>

(* ins_parser_read returns.                                                 *)
CallEnds ==
    reader = "recording" /\ pc = "top" ~> pc \in {"idle", "ended", "toolong"}

-----------------------------------------------------------------------------
(* The inductive invariant of ParserProofs.                                 *)

\* Where the reader is in the middle of a call, and how far it has parsed.
InCall == pc \in {"top", "append", "length", "content", "parsed"}
Parsed == IF pc \in {"length", "content", "parsed"} THEN at ELSE start

BytesInv ==
    /\ input \in Seq(Bytes) /\ data \in Seq(Bytes)
    /\ buf \in [Positions -> Bytes]
    /\ saved \in Int \X Int
    /\ elementv \in Seq(Int)

\* The state of the parser agrees with the place in the code; there is room for the
\* element whose length is read.
PhaseInv ==
    /\ pc = "length" => state = "LENGTH" /\ Len(elementv) < MaxElements
    /\ pc = "content" => state = "CONTENT"
    /\ pc = "append" => state \in {"LENGTH", "CONTENT"}
    /\ state = "ERROR" => pc = "ended"

\* Element p lies between the start of the instruction and what is parsed, and so does the
\* end of its string.
Held(p) == p \in instr..Parsed
Ended(p) == \E e \in p..(Parsed - 1) : buf[e] = NUL

\* A call of guac_parser_read begins with an instruction and keeps it in the buffer; only
\* the element that is being read has not ended.
SocketInv ==
    reader = "socket" =>
        /\ ~ clipped
        /\ pc = "idle" => state = "COMPLETE" \/ elementv = <<>>
        /\ InCall => \A i \in 1..Len(elementv) :
                        /\ Held(elementv[i])
                        /\ i < Len(elementv) \/ state # "CONTENT" => Ended(elementv[i])

ParserInv == TypeOK /\ BytesInv /\ PhaseInv /\ SocketInv

\* What guac_parser_read hands to a handler lies in the buffer, to the end of its string.
HandedInside ==
    reader = "socket" /\ pc = "top" /\ state = "COMPLETE" =>
        \A i \in 1..Len(elementv) :
            elementv[i] \in Positions /\ \E e \in elementv[i]..(BufSize - 1) : buf[e] = NUL

-----------------------------------------------------------------------------
(* What is invariant besides when all that is written are instructions.    *)

\* The instructions are those of the protocol: an opcode at least, strings without a
\* NUL, and lengths of one digit.
Legal ==
    /\ Broken = {}
    /\ \A ins \in Instructions :
          /\ ins \in Seq(Seq(STRING)) /\ ins # <<>>
          /\ \A i \in DOMAIN ins : /\ Len(ins[i]) < Len(DIGITS)
                                   /\ \A k \in DOMAIN ins[i] : ins[i][k] # NUL

\* Where the j-th sequence begins in the concatenation.
Begin(seqs, j) == Len(FlattenSeq(SubSeq(seqs, 1, j - 1)))

Parts(ins) == [i \in DOMAIN ins |-> Append(Element(ins[i]), IF i = Len(ins) THEN ";" ELSE ",")]
Chars(element) == [i \in DOMAIN element |-> IF element[i] = "w" THEN <<"w", "w2">> ELSE <<element[i]>>]

\* What the parser has before it: the rest of the buffer, of ins->data and of the input.
Working == pc = "idle" \/ InCall
ParsedTo == IF pc = "idle" THEN saved[1] ELSE Parsed
Buffered == (IF pc = "idle" THEN saved[2] ELSE end) - ParsedTo
Unparsed == Buffered + Len(data)
Ahead == Unparsed + Len(input)
AheadAt(i) ==
    IF i <= Buffered THEN buf[ParsedTo + i - 1]
    ELSE IF i <= Unparsed THEN data[i - Buffered] ELSE input[i - Unparsed]

\* It is what was written, from some place in the first instruction on.
Stream == FlattenSeq([j \in DOMAIN written |-> written[j].bytes])
Offset0 == Len(Stream) - Ahead

WrittenInv == written \in Seq({Well(ins) : ins \in Instructions})

StreamInv ==
    Working => /\ Offset0 \in Nat
               /\ \A i \in 1..Ahead : AheadAt(i) = Stream[Offset0 + i]
               /\ reader = "socket" => data = <<>>

\* That place, for every state of the parser: before an element or after the digit of its
\* length, before one of its characters, or at the end.
Place(ins) ==
    LET n == Len(elementv) IN
    \/ /\ state = "LENGTH" /\ n < Len(ins)
       /\ \/ length = 0 /\ Offset0 = Begin(Parts(ins), n + 1)
          \/ length = Len(ins[n + 1]) /\ Offset0 = Begin(Parts(ins), n + 1) + 1
    \/ /\ state = "CONTENT" /\ n \in 1..Len(ins) /\ length \in 0..Len(ins[n])
       /\ Offset0 = Begin(Parts(ins), n) + 2 + Begin(Chars(ins[n]), Len(ins[n]) - length + 1)
    \/ state = "COMPLETE" /\ n = Len(ins) /\ Offset0 = Len(Encoded(ins))

\* The i-th element is in the buffer, with the end of its string, and the part of the
\* last one that has been parsed.
Whole(p, a) ==
    /\ \A k \in 1..Len(a) : buf[p + k - 1] = a[k]
    /\ buf[p + Len(a)] = NUL /\ p + Len(a) < ParsedTo

Partial(p, a, m) == p + m = ParsedTo /\ (p >= 0 => \A k \in 1..m : buf[p + k - 1] = a[k])

Contents(ins) ==
    \A i \in 1..Len(elementv) :
        IF i = Len(elementv) /\ state = "CONTENT"
        THEN Partial(elementv[i], BytesOf(ins[i]), Begin(Chars(ins[i]), Len(ins[i]) - length + 1))
        ELSE elementv[i] >= 0 => Whole(elementv[i], BytesOf(ins[i]))

Between == pc = "idle" /\ state = "COMPLETE"
Fresh == state = "LENGTH" /\ elementv = <<>> /\ length = 0

HeadInv ==
    Working =>
        \/ Between /\ Offset0 = 0 /\ reader = "socket"
        \/ ~ Between /\ written = <<>> /\ Fresh
        \/ ~ Between /\ written # <<>>
             /\ \E ins \in Instructions : Head(written) = Well(ins) /\ Place(ins) /\ Contents(ins)

\* guac_parser_append returns without having parsed anything only at the end of what is in
\* the buffer, or in the middle of its last character.
StalledInv ==
    pc = "parsed" /\ at = start =>
        state # "COMPLETE" /\ (at = end \/ (at + 1 = end /\ buf[at] = "w"))

Inner(item) == \E i \in DOMAIN item.args : ";" \in ToSet(item.args[i])

\* A call of ins_parser_read is made with the last ";" read; it may begin within an
\* instruction only if there is one within an element.
RecordingInv ==
    reader = "recording" =>
        /\ pc = "idle" => /\ Buffered = 0 /\ state # "COMPLETE"
                          /\ \A i \in 1..Len(data) : data[i] # ";"
                          /\ elementv # <<>> => Inner(Head(written))
        /\ InCall => /\ \A i \in 1..Unparsed : AheadAt(i) = ";" <=> i = Unparsed
                     /\ Unparsed = 0 /\ elementv # <<>> /\ state # "COMPLETE" => Inner(Head(written))
                     /\ state = "COMPLETE" => Unparsed = 0
                     /\ \A i \in 1..Len(elementv) : elementv[i] < instr => Inner(Head(written))

\* What lies between the start of the call and the place is part of one instruction, the
\* last one when it has just been handled.
Handled == reader = "recording" /\ Unparsed = 0 /\ elementv = <<>> /\ state # "COMPLETE"
ExtentInv ==
    InCall => Parsed - instr <= (IF Handled THEN Len(last.bytes) ELSE Offset0)

EndedInv ==
    /\ RefusedOnlyBroken /\ TooLongOnly
    /\ pc = "toolong" /\ ~ (elementv = <<>> /\ start = end) => written # <<>>
    /\ pc = "overrun" => written # <<>>

WellInv ==
    /\ ParserInv /\ WrittenInv /\ StreamInv /\ HeadInv /\ StalledInv /\ RecordingInv /\ ExtentInv
    /\ EndedInv /\ DeliveredExact /\ ClippedOnlyInside

=============================================================================

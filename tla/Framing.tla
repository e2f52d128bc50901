------------------------------ MODULE Framing -------------------------------
(***************************************************************************)
(* The frames of the MiddleMan protocol (middleman_protocol/) on a stream  *)
(* of bytes.                                                               *)
(*                                                                         *)
(* Concent and the signing service write with send_over_stream(), whose    *)
(* socket.send() may take only a part of a frame, and MiddleMan reads with *)
(* handle_frame_receive_async(); or MiddleMan writes, always whole frames, *)
(* and they read with unescape_stream().  A direction of a link is one     *)
(* stream.                                                                 *)
(*                                                                         *)
(* The bytes that matter are the two that are escaped and the two that may *)
(* follow an escape character.  A raw frame is a body in which the         *)
(* signature, request id and length are one symbol, different for each     *)
(* frame; the signature holds for the frame that was sent and no other.    *)
(***************************************************************************)
EXTENDS Naturals, Sequences, FiniteSets, SequencesExt

CONSTANTS
  Body,           \* the bodies of frames
  MaximumLength,  \* MAXIMUM_FRAME_LENGTH
  MaxFrames       \* bound: the frames of a stream

EscapeCharacter == 162
FrameSeparator == 29
EscapedEscape == <<EscapeCharacter, 0>>
EscapedSeparator == <<EscapeCharacter, 1>>

ASSUME FramingAssumption ==
  /\ \A body \in Body : body \in Seq(0..255) /\ body # <<>>
  /\ MaximumLength \in Nat
  /\ MaxFrames \in Nat

VARIABLES
  writer,    \* who writes: "client" or "middleman"
  frames,    \* history: the raw frames, and whether they were sent to their end
  stream,    \* the bytes that are not read yet
  gathered,  \* received_data of split_stream()
  reading,   \* the reader still looks at the stream
  received   \* history: the numbers of the frames that were accepted

framingVars == <<writer, frames, stream, gathered, reading, received>>

FramingInit ==
  /\ writer \in {"client", "middleman"}
  /\ frames = <<>>
  /\ stream = <<>>
  /\ gathered = <<>>
  /\ reading = TRUE
  /\ received = <<>>

-----------------------------------------------------------------------------
(* Escaping. *)

ReplaceByte(bytes, byte, pair) ==
  FlattenSeq([i \in DOMAIN bytes |-> IF bytes[i] = byte THEN pair ELSE <<bytes[i]>>])

StartsAt(bytes, pair, i) == i \in 1..(Len(bytes) - 1) /\ SubSeq(bytes, i, i + 1) = pair

\* The escape sequences cannot overlap.
ReplacePair(bytes, pair, byte) ==
  FlattenSeq([i \in DOMAIN bytes |->
    IF StartsAt(bytes, pair, i) THEN <<byte>>
    ELSE IF StartsAt(bytes, pair, i - 1) THEN <<>> ELSE <<bytes[i]>>])

\* Mutant: the escape characters of the separators are escaped as well.
EncodeSeparatorFirst(raw) ==
  ReplaceByte(ReplaceByte(raw, FrameSeparator, EscapedSeparator), EscapeCharacter, EscapedEscape)

EscapeEncode(raw) ==
  ReplaceByte(ReplaceByte(raw, EscapeCharacter, EscapedEscape), FrameSeparator, EscapedSeparator)

Count(bytes, byte) == Cardinality({i \in DOMAIN bytes : bytes[i] = byte})

CountPair(bytes, pair) == Cardinality({i \in DOMAIN bytes : StartsAt(bytes, pair, i)})

IsBroken(data) ==
  Count(data, EscapeCharacter) # CountPair(data, EscapedEscape) + CountPair(data, EscapedSeparator)

EscapeDecode(data) ==
  ReplacePair(ReplacePair(data, EscapedSeparator, FrameSeparator), EscapedEscape, EscapeCharacter)

-----------------------------------------------------------------------------
(* Frames. *)

Serialize(body, number) == <<Head(body), 1000 + number>> \o Tail(body)

OnTheWire(raw) == Append(EscapeEncode(raw), FrameSeparator)

\* The frame that raw bytes hold: the length in the frame says where it ends, what follows
\* is ignored, and the signature must be right.
Holds(raw, number) == IsPrefix(frames[number].raw, raw)

IsValid(data) == ~IsBroken(data) /\ \E n \in DOMAIN frames : Holds(EscapeDecode(data), n)

NumberOf(data) == CHOOSE n \in DOMAIN frames : Holds(EscapeDecode(data), n)

\* What is not valid is answered with an error frame, or ignored, and the reader goes on.
AcceptFrame(data) ==
  received' = IF IsValid(data) THEN Append(received, NumberOf(data)) ELSE received

Fits(data) == Len(data) <= MaximumLength

-----------------------------------------------------------------------------
(* The writers. *)

\* send_over_stream() does not look at how much was taken.
Write(body) ==
  LET raw == Serialize(body, Len(frames) + 1)
      data == OnTheWire(raw)
  IN
  /\ Len(frames) < MaxFrames
  /\ \E length \in 1..Len(data) :
       /\ writer = "middleman" => length = Len(data)
       /\ frames' = Append(frames, [raw |-> raw, whole |-> length = Len(data)])
       /\ stream' = stream \o SubSeq(data, 1, length)
  /\ UNCHANGED <<writer, gathered, reading, received>>

-----------------------------------------------------------------------------
(* The readers. *)

\* readuntil(): the limit of the StreamReader is MAXIMUM_FRAME_LENGTH.  LimitOverrunError is
\* not caught, and the reader ends; the bytes stay where they are.
ReceiveFrame ==
  LET ends == {i \in DOMAIN stream : stream[i] = FrameSeparator}
      end == CHOOSE i \in ends : \A j \in ends : i <= j
      data == SubSeq(stream, 1, end - 1)
  IN
  /\ writer = "client"
  /\ reading
  /\ ends # {}
  /\ Fits(data)
  /\ AcceptFrame(data)
  /\ stream' = SubSeq(stream, end + 1, Len(stream))
  /\ UNCHANGED <<writer, frames, gathered, reading>>

Overrun ==
  /\ writer = "client"
  /\ reading
  /\ Len(stream) > MaximumLength
  /\ \A i \in 1..(MaximumLength + 1) : stream[i] # FrameSeparator
  /\ reading' = FALSE
  /\ UNCHANGED <<writer, frames, stream, gathered, received>>

\* Mutant: received_data is not emptied.
NoRest(data) == data

Rest(data) == <<>>

\* A frame that is too long loses its end, and is too long still.
Gather(byte) == IF MaximumLength < Len(gathered) THEN gathered ELSE Append(gathered, byte)

\* split_stream() and unescape_stream(), a byte at a time.
ReceiveByte ==
  LET byte == Head(stream) IN
  /\ writer = "middleman"
  /\ stream # <<>>
  /\ stream' = Tail(stream)
  /\ IF byte = FrameSeparator
       THEN /\ gathered' = Rest(gathered)
            /\ IF Fits(gathered) THEN AcceptFrame(gathered) ELSE UNCHANGED received
       ELSE /\ gathered' = Gather(byte)
            /\ UNCHANGED received
  /\ UNCHANGED <<writer, frames, reading>>

-----------------------------------------------------------------------------
FramingNext ==
  \/ \E body \in Body : Write(body)
  \/ ReceiveFrame
  \/ Overrun
  \/ ReceiveByte

FramingSpec == FramingInit /\ [][FramingNext]_framingVars

-----------------------------------------------------------------------------
\* The types of a stream; received_data stays one byte above the limit at most, however
\* long a frame is.
FramingTypeOK ==
  /\ writer \in {"client", "middleman"}
  /\ \A n \in DOMAIN frames : frames[n].whole \in BOOLEAN
  /\ stream \in Seq(Nat)
  /\ gathered \in Seq(Nat)
  /\ Len(gathered) <= MaximumLength + 1
  /\ reading \in BOOLEAN
  /\ received \in Seq(DOMAIN frames)

\* Frames are accepted in the order in which they were sent, and none twice, also when
\* some were sent in part: what the pieces of two frames make together is none of the two,
\* unless the first lacks its separator only.
FramesComeInOrder ==
  \A i, j \in DOMAIN received : i < j => received[i] < received[j]

StartsAfterSeparator(n) == n = 1 \/ frames[n - 1].whole

\* A frame arrives if it was sent to its end, after a frame that was sent to its end, and
\* its escaped form is within the limit: neither escapes nor a frame that was cut before it
\* disturb it, nor, with the clients' reader, one that was too long.  Such a frame ends
\* MiddleMan's reader (Overrun), which owes nothing after it (stream.py, stream_async.py).
WholeFramesArrive ==
  stream = <<>> /\ gathered = <<>> =>
    \A n \in DOMAIN frames :
      /\ frames[n].whole
      /\ StartsAfterSeparator(n)
      /\ Fits(EscapeEncode(frames[n].raw))
      => \E i \in DOMAIN received : received[i] = n
=============================================================================

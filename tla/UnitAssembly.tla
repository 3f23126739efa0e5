---------------------------- MODULE UnitAssembly ----------------------------
(***************************************************************************)
(* How the client puts the pieces of a video stream together (play_video   *)
(* of client/rtspclient.cpp).  The encoder's unit, one picture, travels as *)
(* several pieces, each an RTP payload that live555 hands to the sink in   *)
(* order, with the time stamp of its unit, and a marker on the last one.   *)
(* The decoder wants whole units.  Over UDP pieces get lost; a piece may   *)
(* be too large for the sink's buffer; the pieces may be too much for the  *)
(* private buffer; and an RTCP report may move the clock that live555      *)
(* derives the stamps from while a unit is on its way.                     *)
(***************************************************************************)
EXTENDS Integers, Sequences, SequencesExt, ListOps

CONSTANTS UnitSizes,      \* what units may be: sequences of the sizes of their pieces
          ReceiveSize,    \* DUMMY_SINK_RECEIVE_BUFFER_SIZE
          PrivateSize,    \* PRIVATE_BUFFER_SIZE
          StartCode,      \* what H264 framing puts before a piece
          MaxUnits,       \* bound: units sent
          MaxEpoch        \* bound: times that the clock is moved

ASSUME UnitAssumption ==
    /\ UnitSizes \subseteq Seq(Nat) \ {<<>>}
    /\ {ReceiveSize, PrivateSize, StartCode, MaxUnits, MaxEpoch} \subseteq Nat
    /\ ReceiveSize + StartCode <= PrivateSize

VARIABLES
    coming,         \* the pieces of the last unit that are on their way
    unit,           \* the number of the last unit
    epoch,          \* the clock that stamps are derived from
    video_framing,  \* what is put before a piece: depends on the codec
    privbuf,        \* the pieces in the private buffer
    lastpts,        \* their stamp
    received,       \* history: the pieces that were put into privbuf
    decoded,        \* history: what was handed to the decoder
    marred          \* history: the units that did not arrive as they were sent

unitvars == <<coming, unit, epoch, video_framing, privbuf, lastpts, received, decoded, marred>>

UnitInit ==
    /\ coming = <<>> /\ unit = 0 /\ epoch = 0
    /\ video_framing \in {0, StartCode}      \* strcmp("H264", codecName)
    /\ privbuf = <<>> /\ lastpts = <<0, 0>>
    /\ received = <<>> /\ decoded = <<>> /\ marred = {}

Size(pieces) == Total([i \in 1..Len(pieces) |-> pieces[i].size])

(* The pieces of unit u, of the sizes given.                               *)
PiecesOf(u, sizes) ==
    [i \in 1..Len(sizes) |->
        [unit |-> u, part |-> i, size |-> sizes[i], last |-> i = Len(sizes)]]

Framed(sizes) == [i \in 1..Len(sizes) |-> sizes[i] + video_framing]

-----------------------------------------------------------------------------
(* The server and the network.                                             *)

send_unit ==
    /\ coming = <<>> /\ unit < MaxUnits
    /\ unit' = unit + 1
    /\ \E sizes \in UnitSizes :
         /\ coming' = PiecesOf(unit', sizes)
         /\ marred' = marred \cup
              (IF Size(PiecesOf(unit', Framed(sizes))) > PrivateSize THEN {unit'} ELSE {})
    /\ UNCHANGED <<epoch, video_framing, privbuf, lastpts, received, decoded>>

piece_lost ==
    /\ coming # <<>>
    /\ coming' = Tail(coming)
    /\ marred' = marred \cup {unit}
    /\ UNCHANGED <<unit, epoch, video_framing, privbuf, lastpts, received, decoded>>

sender_report ==
    /\ epoch < MaxEpoch
    /\ epoch' = epoch + 1
    /\ marred' = marred \cup
         (IF coming # <<>> /\ Head(coming).part > 1 THEN {unit} ELSE {})
    /\ UNCHANGED <<coming, unit, video_framing, privbuf, lastpts, received, decoded>>

-----------------------------------------------------------------------------
(* The sink.                                                               *)

play_video_priv(pieces) == Append(decoded, pieces)

(* What is left in the buffer, and decoded, when a piece with stamp pts    *)
(* comes.                                                                  *)
same_stamp(pts) == TRUE                                              \* mutant
SameStamp(pts)  == pts = lastpts
FlushedBuf(pts) == IF SameStamp(pts) THEN privbuf ELSE <<>>
FlushedTo(pts)  ==
    IF SameStamp(pts) \/ privbuf = <<>> THEN decoded ELSE play_video_priv(privbuf)

append_piece(piece, pts) ==
    LET buf == Append(FlushedBuf(pts), piece) IN
    /\ Size(buf) <= PrivateSize
    /\ lastpts' = pts
    /\ received' = Append(received, piece)
    /\ IF piece.last
       THEN decoded' = Append(FlushedTo(pts), buf) /\ privbuf' = <<>>
       ELSE decoded' = FlushedTo(pts) /\ privbuf' = buf

(* The piece that does not fit is dropped.  What there is is decoded; it   *)
(* has the piece's stamp, or else the buffer would be empty.               *)
buffer_overflow(piece, pts) ==
    /\ Size(FlushedBuf(pts)) + piece.size > PrivateSize
    /\ decoded' = play_video_priv(privbuf)
    /\ privbuf' = <<>>
    /\ UNCHANGED <<lastpts, received>>

empty_piece(piece) ==
    /\ piece.size = 0
    /\ UNCHANGED <<privbuf, lastpts, received, decoded>>

play_video(piece, pts) ==
    \/ empty_piece(piece)
    \/ piece.size > 0 /\ (append_piece(piece, pts) \/ buffer_overflow(piece, pts))

(* The buffer begins with room for the start code; frameSize bytes follow, *)
(* numTruncatedBytes of the piece are gone.                                *)
afterGettingFrame ==
    /\ coming # <<>>
    /\ LET p         == Head(coming)
           frameSize == IF p.size <= ReceiveSize THEN p.size ELSE ReceiveSize
           piece     == [p EXCEPT !.size = video_framing + frameSize]
       IN /\ play_video(piece, <<epoch, unit>>)
          /\ marred' = marred \cup
               (IF frameSize < p.size \/ piece.size = 0 THEN {unit} ELSE {})
    /\ coming' = Tail(coming)
    /\ UNCHANGED <<unit, epoch, video_framing>>

UnitNext == send_unit \/ piece_lost \/ sender_report \/ afterGettingFrame

UnitSpec == UnitInit /\ [][UnitNext]_unitvars

-----------------------------------------------------------------------------
OfOneUnit(pieces) == \A i, j \in 1..Len(pieces) : pieces[i].unit = pieces[j].unit

(***************************************************************************)
(* What play_video hands to the decoder at a time are pieces of one unit,  *)
(* whatever was lost: a unit without its marker ends when the next begins. *)
(* Every piece that was put into the buffer is handed over once, in order. *)
(* A unit that arrives as it was sent is handed over whole.                *)
(***************************************************************************)
UnitsWhole ==
    /\ \A k \in 1..Len(decoded) : OfOneUnit(decoded[k])
    /\ FlattenSeq(Append(decoded, privbuf)) = received
    /\ \A u \in (1..unit) \ marred :
         u < unit \/ coming = <<>> =>
             \E k \in 1..Len(decoded) :
                 /\ Head(decoded[k]).unit = u
                 /\ Last(decoded[k]).last /\ Last(decoded[k]).part = Len(decoded[k])
=============================================================================

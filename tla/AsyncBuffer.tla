----------------------------- MODULE AsyncBuffer -----------------------------
(***************************************************************************)
(* mylog::Buffer (logSystem/logsCode/AsyncBuffer.hpp): the growing byte    *)
(* buffer of which an AsyncWorker owns two.  A buffer is a record with the *)
(* class's fields: the size of the vector, the two positions, and in place *)
(* of the bytes between them the sequence of the messages they spell, each *)
(* a record with at least a field "len", its number of bytes.              *)
(*                                                                         *)
(* Sizes are naturals: size_t has 64 bits and config.conf asks for 10^7    *)
(* bytes, so no sum below comes near the width.                            *)
(***************************************************************************)
EXTENDS Integers, Sequences

CONSTANTS
  BufferSize,    (* g_conf_data->buffer_size: the size a buffer is born with *)
  Threshold,     (* g_conf_data->threshold: below it the size doubles        *)
  LinearGrowth   (* g_conf_data->linear_growth: what is added from there on  *)

ASSUME BufferAssumption ==
  /\ BufferSize \in Nat
  /\ Threshold \in Nat
  /\ LinearGrowth \in Nat

NewBuffer == [size |-> BufferSize, write_pos |-> 0, read_pos |-> 0, data |-> <<>>]

IsEmpty(buf) == buf.write_pos = buf.read_pos

WriteableSize(buf) == buf.size - buf.write_pos

ReadableSize(buf) == buf.write_pos - buf.read_pos

\* mutant: the new size is not checked against the data.
GrownSize_Unchecked(size, len) ==
  IF size < Threshold THEN 2 * size ELSE size + LinearGrowth

(* The size ToBeEnough resizes to: doubled or extended, and never less than *)
(* what the old size plus the new data needs.                               *)
GrownSize(size, len) ==
  LET grown == IF size < Threshold THEN 2 * size ELSE size + LinearGrowth
  IN  IF grown < size + len THEN size + len ELSE grown

(* "len >= writeable_size" grows, so data that fits exactly grows as well.  *)
ToBeEnough(buf, len) ==
  IF len >= WriteableSize(buf)
  THEN [buf EXCEPT !.size = GrownSize(buf.size, len)]
  ELSE buf

Write(buf, msg) ==
  [ToBeEnough(buf, msg.len) EXCEPT !.write_pos = @ + msg.len,
                                   !.data = Append(@, msg)]

\* mutant: the positions are left where they were.
Reset_Missing(buf) == buf

(* Reset moves the positions back; the vector keeps its size.               *)
Reset(buf) == [buf EXCEPT !.write_pos = 0, !.read_pos = 0, !.data = <<>>]
=============================================================================

----------------------------- MODULE LogChannel ------------------------------
(***************************************************************************)
(* What the asynchronous logger promises, with no threads, buffers or      *)
(* locks in it: a channel that accepts messages until it is closed, hands  *)
(* them to the sinks in batches, in the order of acceptance, each of them  *)
(* once, and that finishes only when nothing it accepted is left.          *)
(* AsyncWorker is shown to implement it.                                   *)
(***************************************************************************)
EXTENDS Integers, Sequences

CONSTANT Messages

VARIABLES
  accepted,    (* the messages taken, in order                    *)
  delivered,   (* the messages handed to the sinks, in order      *)
  closed,      (* no message is accepted any more                 *)
  finished     (* the channel is gone                             *)

channelVars == <<accepted, delivered, closed, finished>>

ChannelInit ==
  /\ accepted = <<>>
  /\ delivered = <<>>
  /\ closed = FALSE
  /\ finished = FALSE

Accept ==
  /\ ~closed
  /\ \E m \in Messages : accepted' = Append(accepted, m)
  /\ UNCHANGED <<delivered, closed, finished>>

(* A batch: one or more of the oldest messages not delivered yet.           *)
Deliver ==
  /\ ~finished
  /\ \E n \in (Len(delivered) + 1) .. Len(accepted) :
        delivered' = SubSeq(accepted, 1, n)
  /\ UNCHANGED <<accepted, closed, finished>>

Close ==
  /\ ~closed
  /\ closed' = TRUE
  /\ UNCHANGED <<accepted, delivered, finished>>

Finish ==
  /\ closed
  /\ delivered = accepted
  /\ finished' = TRUE
  /\ UNCHANGED <<accepted, delivered, closed>>

ChannelNext == Accept \/ Deliver \/ Close \/ Finish

ChannelSpec == ChannelInit /\ [][ChannelNext]_channelVars
=============================================================================

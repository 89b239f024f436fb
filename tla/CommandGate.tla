----------------------------- MODULE CommandGate -----------------------------
(***************************************************************************)
(* How one client's stream of command messages becomes part of the merged  *)
(* stream the simulation decodes: CClientBase::UpdateState, the merge of   *)
(* CClientManagerImpl::UpdateStates and what Sim makes of the result.      *)
(*                                                                         *)
(* A message that is neither a source, an end of a source nor the end of a *)
(* beat is a payload: it only matters who sent it and whether it is a      *)
(* checksum report.  All operators are pure; the modules that use them     *)
(* hold the state.                                                         *)
(***************************************************************************)
EXTENDS Integers, Sequences

CONSTANTS
    Players,   \* number of players, each with one command source
    NoSource   \* 0xFF: no command source

(* The players' command sources, numbered by client index.                   *)
Player == 0 .. Players - 1

ASSUME SourceAssumption == Players \in Nat /\ NoSource \notin Player

Source(s) == [op |-> "Source", by |-> s]
Order(s) == [op |-> "Order", by |-> s]
Checksum(s) == [op |-> "Checksum", by |-> s]
Terminated == [op |-> "Terminated", by |-> NoSource]
EndGame == [op |-> "EndGame", by |-> NoSource]
Advance == [op |-> "Advance", by |-> NoSource]

(* What a stream carries in a beat besides its end: nothing, an order, or a  *)
(* checksum report and an order.                                             *)
Segment(kind, s) ==
    CASE kind = "nothing" -> <<>>
      [] kind = "order" -> <<Order(s)>>
      [] kind = "report" -> <<Checksum(s), Order(s)>>

(* A client object's part that survives from beat to beat.                   *)
Gate(id, valid) == [id |-> id, valid |-> valid]

(* The merged stream so far and mLastEmittedCommandSource.                   *)
Merged(out, last) == [out |-> out, last |-> last]

(* WriteSetCommandSourceMessage: a source is announced when it changes.      *)
Announce(merged, s) ==
    IF s = merged.last THEN merged ELSE Merged(Append(merged.out, Source(s)), s)

Write(merged, msg) == [merged EXCEPT !.out = Append(@, msg)]

-----------------------------------------------------------------------------
(* UpdateState's locals: hasCommandSource is "open"; "quiet" says that no    *)
(* checksum report counts, startedWithoutSource in the client's first beat.  *)
FaultyEnter(gate, merged, first) ==
    [gate |-> gate, open |-> gate.id # NoSource, quiet |-> first /\ gate.id = NoSource,
     merged |-> merged]

Enter(gate, merged, first) ==
    [gate |-> gate,
     open |-> gate.id # NoSource,
     quiet |-> first /\ gate.id = NoSource,
     merged |-> IF gate.id = NoSource THEN merged ELSE Announce(merged, gate.id)]

(* CMDST_SetCommandSource, of a source the client may use or not.            *)
FaultyClaim(st, s) ==
    IF s \in st.gate.valid
    THEN [st EXCEPT !.gate.id = s, !.merged = Announce(@, s)]
    ELSE [st EXCEPT !.gate.id = NoSource, !.open = FALSE]

FaultyViewerClaim(st, s) ==
    IF s \in st.gate.valid
    THEN [st EXCEPT !.gate.id = s, !.merged = Announce(@, s), !.open = TRUE]
    ELSE [st EXCEPT !.gate.id = NoSource, !.open = FALSE]

Claim(st, s) ==
    IF s \in st.gate.valid
    THEN [st EXCEPT !.gate.id = s, !.merged = Announce(@, s), !.open = s # NoSource]
    ELSE [st EXCEPT !.gate.id = NoSource, !.open = FALSE]

(* A payload while the gate is open.                                         *)
Pass(st, msg) ==
    IF msg.op = "Checksum" /\ st.quiet THEN st
    ELSE LET written == [st EXCEPT !.merged = Write(@, msg)]
         IN  IF msg.op # "Terminated" THEN written
             ELSE [written EXCEPT !.gate = Gate(NoSource, @.valid \ {@.id}),
                                  !.open = FALSE]

ReadMessage(st, msg) ==
    IF msg.op = "Source" THEN Claim(st, msg.by)
    ELSE IF st.open THEN Pass(st, msg) ELSE st

(* One beat of a stream, its closing advance left out, message by message.   *)
Drain(gate, merged, first, segment) ==
    LET st[n \in 0 .. Len(segment)] ==
          IF n = 0 THEN Enter(gate, merged, first)
          ELSE ReadMessage(st[n - 1], segment[n])
        end == st[Len(segment)]
    IN  [gate |-> end.gate, merged |-> end.merged]

(* The stream of an ejected client ends: each of its sources in turn.        *)
FaultyEndStream(gate, merged) ==
    LET ended[n \in 0 .. Players] ==
          IF n = 0 THEN Enter(gate, merged, FALSE).merged
          ELSE IF n - 1 \in gate.valid
          THEN Write([ended[n - 1] EXCEPT !.last = n - 1], Terminated)
          ELSE ended[n - 1]
    IN  [gate |-> Gate(gate.id, {}), merged |-> ended[Players]]

EndStream(gate, merged) ==
    LET ended[n \in 0 .. Players] ==
          IF n = 0 THEN Enter(gate, merged, FALSE).merged
          ELSE IF n - 1 \in gate.valid
          THEN Write(Announce(ended[n - 1], n - 1), Terminated)
          ELSE ended[n - 1]
    IN  [gate |-> Gate(gate.id, {}), merged |-> ended[Players]]

-----------------------------------------------------------------------------
(* The simulation: mCurCommandSource and what ran under it in a beat.        *)
Idle == [current |-> NoSource, ran |-> <<>>]

Decode(sim, msg) ==
    IF msg.op = "Source" THEN [sim EXCEPT !.current = msg.by]
    ELSE [sim EXCEPT !.ran = Append(@, [source |-> sim.current, op |-> msg.op, by |-> msg.by])]

(* Decodes one beat of the merged stream.                                    *)
RunBeat(current, messages) ==
    LET sim[n \in 0 .. Len(messages)] ==
          IF n = 0 THEN [Idle EXCEPT !.current = current]
          ELSE Decode(sim[n - 1], messages[n])
    IN  sim[Len(messages)]

=============================================================================

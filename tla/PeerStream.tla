----------------------------- MODULE PeerStream -----------------------------
(***************************************************************************)
(* The stream between two nodes: SendMsg, ReadData and Close of            *)
(* peer/peer.go, the goroutines of sendMessageToPeer and readFromPeer that *)
(* call them, and what the two event loops do with messages and errors.    *)
(*                                                                         *)
(* A message is written to the stream piece by piece, and its last piece   *)
(* ends with the delimiter. The libp2p stream is external: it keeps the    *)
(* order of the bytes, holds back a writer while too many are unread, and  *)
(* may fail.                                                               *)
(***************************************************************************)
EXTENDS Naturals, Sequences, SequencesExt

CONSTANTS
  Ends,      \* the two nodes
  Calls,     \* messages to send, each by a goroutine of sendMessageToPeer
  From(_),   \* the node that sends a message
  Size(_),   \* pieces of a message
  Window,    \* pieces that a stream holds unread
  Faults,    \* what may go wrong, a subset of FaultNames
  NoCall     \* mu is not locked

\* "loss" the connection breaks; "stall" a write returns an error on a stream
\* that is not broken; "close" a node is closed.
FaultNames == {"loss", "stall", "close"}

ASSUME EndsAssumption == \A e \in Ends : \E f \in Ends : Ends = {e, f} /\ e # f
ASSUME CallsAssumption ==
  /\ NoCall \notin Calls
  /\ \A c \in Calls : From(c) \in Ends /\ Size(c) \in Nat \ {0}
ASSUME StreamBounds == Window \in Nat \ {0} /\ Faults \subseteq FaultNames

VARIABLES
  at,        \* where a goroutine of sendMessageToPeer is
  left,      \* pieces that its SendMsg has not written yet
  mu,        \* the call that holds peer.mu
  werr,      \* the error of the bufio.Writer, which stays
  wire,      \* pieces on their way from an end
  flushed,   \* messages of an end whose last piece got to the stream, in order
  part,      \* pieces of the current ReadBytes at an end
  reader,    \* where readFromPeer is
  delivered, \* messages of an end that the event loop of the other got
  peer,      \* node.peers has the other end
  closed,    \* the stream was closed at an end
  quit,      \* the event loop has ended
  broken     \* the connection is broken

sendVars == <<at, left, mu, werr>>
readVars == <<part, reader, delivered>>
nodeVars == <<peer, closed, quit>>
streamVars == <<wire, flushed, broken>>
vars == <<sendVars, readVars, nodeVars, streamVars>>

Other(e) == CHOOSE f \in Ends : f # e

Pieces == UNION {{c} \X (1..Size(c)) : c \in Calls}
Frame(c) == [i \in 1..Size(c) |-> <<c, i>>]
EndsFrame(piece) == piece[2] = Size(piece[1])

TypeOK ==
  /\ at \in [Calls -> {"idle", "lock", "write", "sent", "failed", "reported"}]
  /\ left \in [Calls -> Nat] /\ \A c \in Calls : left[c] \in 0..Size(c)
  /\ mu \in [Ends -> Calls \cup {NoCall}] /\ werr \in [Ends -> BOOLEAN]
  /\ wire \in [Ends -> Seq(Pieces)] /\ part \in [Ends -> Seq(Pieces)]
  /\ reader \in [Ends -> {"read", "give", "error", "gone"}]
  /\ {flushed, delivered} \subseteq [Ends -> Seq(Calls)]
  /\ {peer, closed, quit} \subseteq [Ends -> BOOLEAN] /\ broken \in BOOLEAN
  /\ \A e \in Ends : ~closed[Other(e)] => Len(wire[e]) <= Window

\* handleNewConnection and connectToNewPeer have launched the peer at both ends.
Init ==
  /\ at = [c \in Calls |-> "idle"] /\ left = [c \in Calls |-> Size(c)]
  /\ mu = [e \in Ends |-> NoCall] /\ werr = [e \in Ends |-> FALSE]
  /\ wire = [e \in Ends |-> <<>>] /\ flushed = [e \in Ends |-> <<>>]
  /\ part = [e \in Ends |-> <<>>]
  /\ reader = [e \in Ends |-> "read"] /\ delivered = [e \in Ends |-> <<>>]
  /\ peer = [e \in Ends |-> TRUE] /\ closed = [e \in Ends |-> FALSE]
  /\ quit = [e \in Ends |-> FALSE] /\ broken = FALSE

-----------------------------------------------------------------------------
(* sendMessageToPeer and SendMsg.                                            *)

\* sendMessageToPeer starts a goroutine for a message.
Send(c) ==
  /\ at[c] = "idle" /\ peer[From(c)]
  /\ at' = [at EXCEPT ![c] = "lock"]
  /\ UNCHANGED <<left, mu, werr, readVars, nodeVars, streamVars>>

Lock(c) ==
  /\ at[c] = "lock" /\ mu[From(c)] = NoCall
  /\ mu' = [mu EXCEPT ![From(c)] = c]
  /\ at' = [at EXCEPT ![c] = "write"]
  /\ UNCHANGED <<left, werr, readVars, nodeVars, streamVars>>

\* A piece gets to the stream, from the buffer at Flush or directly at Write when
\* the message is larger than the buffer. A closed end holds nothing back.
Push(c) ==
  LET e == From(c)
  IN  /\ at[c] = "write" /\ left[c] > 0
      /\ ~werr[e] /\ ~closed[e] /\ ~broken
      /\ closed[Other(e)] \/ Len(wire[e]) < Window
      /\ wire' = [wire EXCEPT ![e] = Append(@, <<c, Size(c) - left[c] + 1>>)]
      /\ flushed' = [flushed EXCEPT ![e] = IF left[c] = 1 THEN Append(@, c) ELSE @]
      /\ left' = [left EXCEPT ![c] = @ - 1]
      /\ UNCHANGED <<at, mu, werr, readVars, nodeVars, broken>>

\* Mutant: mu is unlocked before Flush has written the last piece.
SendDoneUnflushed(c) ==
  /\ at[c] = "write" /\ left[c] <= 1
  /\ at' = [at EXCEPT ![c] = "sent"]
  /\ mu' = [mu EXCEPT ![From(c)] = NoCall]
  /\ UNCHANGED <<left, werr, readVars, nodeVars, streamVars>>

\* Flush returns nil; the deferred Unlock.
SendDone(c) ==
  /\ at[c] = "write" /\ left[c] = 0
  /\ at' = [at EXCEPT ![c] = "sent"]
  /\ mu' = [mu EXCEPT ![From(c)] = NoCall]
  /\ UNCHANGED <<left, werr, readVars, nodeVars, streamVars>>

\* What makes a write fail.
WriteError(e) == werr[e] \/ closed[e] \/ broken \/ "stall" \in Faults

\* Mutant: the next call writes again after an error.
SendFailsOnce(c) ==
  /\ at[c] = "write" /\ left[c] > 0 /\ WriteError(From(c))
  /\ at' = [at EXCEPT ![c] = "failed"]
  /\ mu' = [mu EXCEPT ![From(c)] = NoCall]
  /\ UNCHANGED <<left, werr, readVars, nodeVars, streamVars>>

\* Mutant: the early return leaves mu locked.
SendFailsLocked(c) ==
  /\ at[c] = "write" /\ left[c] > 0 /\ WriteError(From(c))
  /\ werr' = [werr EXCEPT ![From(c)] = TRUE]
  /\ at' = [at EXCEPT ![c] = "failed"]
  /\ UNCHANGED <<left, mu, readVars, nodeVars, streamVars>>

\* Write or Flush returns an error, maybe after some pieces; bufio keeps it, and
\* the deferred Unlock.
SendFails(c) ==
  /\ at[c] = "write" /\ left[c] > 0 /\ WriteError(From(c))
  /\ werr' = [werr EXCEPT ![From(c)] = TRUE]
  /\ at' = [at EXCEPT ![c] = "failed"]
  /\ mu' = [mu EXCEPT ![From(c)] = NoCall]
  /\ UNCHANGED <<left, readVars, nodeVars, streamVars>>

-----------------------------------------------------------------------------
(* readFromPeer and ReadData.                                                *)

\* ReadBytes gets a piece; with the delimiter, the frame is unmarshalled.
Read(e) ==
  LET from == Other(e)
      got  == Append(part[e], Head(wire[from]))
  IN  /\ reader[e] = "read" /\ ~closed[e] /\ wire[from] # <<>>
      /\ wire' = [wire EXCEPT ![from] = Tail(@)]
      /\ part' = [part EXCEPT ![e] = got]
      /\ reader' = [reader EXCEPT ![e] =
                      IF ~EndsFrame(Head(wire[from])) THEN "read"
                      ELSE IF \E c \in Calls : got = Frame(c) THEN "give" ELSE "error"]
      /\ UNCHANGED <<sendVars, nodeVars, delivered, flushed, broken>>

ReadError(e) == closed[e] \/ broken \/ (closed[Other(e)] /\ wire[Other(e)] = <<>>)

\* Mutant: readFromPeer goes on after an error, past the bytes that were lost.
ReadFailsGoesOn(e) ==
  /\ reader[e] = "read" /\ ReadError(e)
  /\ reader' = [reader EXCEPT ![e] = IF broken THEN "read" ELSE "error"]
  /\ wire' = [wire EXCEPT ![Other(e)] = <<>>]
  /\ UNCHANGED <<sendVars, nodeVars, part, delivered, flushed, broken>>

\* ReadBytes returns an error, and what it has read is dropped.
ReadFails(e) ==
  /\ reader[e] = "read" /\ ReadError(e)
  /\ reader' = [reader EXCEPT ![e] = "error"]
  /\ UNCHANGED <<sendVars, nodeVars, part, delivered, streamVars>>

-----------------------------------------------------------------------------
(* The event loop of a node, as far as it touches the stream.                *)

\* Mutant: what is delivered has not been unmarshalled.
DeliverBytes(e) ==
  /\ reader[e] = "give" /\ ~quit[e]
  /\ delivered' = [delivered EXCEPT ![Other(e)] = Append(@, part[e][1])]
  /\ part' = [part EXCEPT ![e] = <<>>]
  /\ reader' = [reader EXCEPT ![e] = "read"]
  /\ UNCHANGED <<sendVars, nodeVars, streamVars>>

\* <-receivedMsg.
Deliver(e) ==
  /\ reader[e] = "give" /\ ~quit[e]
  /\ delivered' = [delivered EXCEPT ![Other(e)] = Append(@, part[e][1][1])]
  /\ part' = [part EXCEPT ![e] = <<>>]
  /\ reader' = [reader EXCEPT ![e] = "read"]
  /\ UNCHANGED <<sendVars, nodeVars, streamVars>>

\* Mutant: the peer is removed and its stream stays open.
DeletePeerOnly(e) ==
  /\ peer' = [peer EXCEPT ![e] = FALSE]
  /\ UNCHANGED closed

\* deletePeer.
DeletePeer(e) ==
  /\ peer' = [peer EXCEPT ![e] = FALSE]
  /\ closed' = [closed EXCEPT ![e] = @ \/ peer[e]]

\* <-peerWErr.
ReportWrite(c) ==
  /\ at[c] = "failed" /\ ~quit[From(c)]
  /\ at' = [at EXCEPT ![c] = "reported"]
  /\ DeletePeer(From(c))
  /\ UNCHANGED <<left, mu, werr, readVars, quit, streamVars>>

\* <-peerRErr.
ReportRead(e) ==
  /\ reader[e] = "error" /\ ~quit[e]
  /\ reader' = [reader EXCEPT ![e] = "gone"]
  /\ DeletePeer(e)
  /\ UNCHANGED <<sendVars, part, delivered, quit, streamVars>>

\* Node.Close: the event loop ends, and the streams of all peers are closed.
Close(e) ==
  /\ "close" \in Faults /\ ~quit[e]
  /\ quit' = [quit EXCEPT ![e] = TRUE]
  /\ DeletePeer(e)
  /\ UNCHANGED <<sendVars, readVars, streamVars>>

Break ==
  /\ "loss" \in Faults /\ ~broken
  /\ broken' = TRUE
  /\ UNCHANGED <<sendVars, readVars, nodeVars, wire, flushed>>

-----------------------------------------------------------------------------
SendStep(c) == Lock(c) \/ Push(c) \/ SendDone(c) \/ ReportWrite(c)
ReadStep(e) == Read(e) \/ ReadFails(e) \/ Deliver(e) \/ ReportRead(e)

Next ==
  \/ \E c \in Calls : Send(c) \/ SendStep(c) \/ SendFails(c)
  \/ \E e \in Ends : ReadStep(e) \/ Close(e)
  \/ Break

Spec == Init /\ [][Next]_vars

\* Every goroutine runs and the event loops receive until they end; a write that
\* can only fail does. Nothing has to be sent, to break or to be closed.
Fairness ==
  /\ \A c \in Calls : /\ WF_vars(SendStep(c))
                      /\ WF_vars(SendFails(c) /\ (werr[From(c)] \/ closed[From(c)] \/ broken))
  /\ \A e \in Ends : WF_vars(ReadStep(e))

FairSpec == Spec /\ Fairness

-----------------------------------------------------------------------------
(* Properties.                                                               *)

\* The bytes on their way to an end, with those its reader holds.
Bytes(e) == part[Other(e)] \o wire[e]

\* Calls of SendMsg never mix their bytes: every piece is followed by the next
\* of its message or, after the delimiter, by the first of another one; and
\* only the call that holds mu, or the one after which bufio has an error, may
\* have left a message unfinished.
FramesWhole ==
  \A e \in Ends :
    LET bytes == Bytes(e)
    IN  /\ \A i \in 1..(Len(bytes) - 1) :
             \/ EndsFrame(bytes[i]) /\ bytes[i + 1][2] = 1
             \/ bytes[i + 1] = <<bytes[i][1], bytes[i][2] + 1>>
        /\ bytes # <<>> /\ ~EndsFrame(Last(bytes)) =>
             mu[e] = Last(bytes)[1] \/ werr[e]

\* SendMsg returns nil only when the whole message is in the stream: while the
\* other end reads, it has been delivered or it is still on its way.
SentArrives ==
  \A c \in Calls :
    at[c] = "sent" /\ reader[Other(From(c))] \in {"read", "give"}
                   /\ ~closed[Other(From(c))] =>
      \/ Contains(delivered[From(c)], c)
      \/ Contains(Bytes(From(c)), <<c, Size(c)>>)

\* SendMsg returns: the other node reads or closes, and a broken stream fails.
SendReturns == \A c \in Calls : at[c] = "lock" ~> at[c] \notin {"lock", "write"}

\* When the connection breaks, a write fails or one node closes the stream, both
\* nodes forget the peer: the event loops of both get an error.
BothForget ==
  (broken \/ \E e \in Ends : werr[e] \/ closed[e]) ~> \A e \in Ends : ~peer[e]

\* The messages that are wholly on their way from an end: as many as there are
\* delimiters, and those that were flushed first and are not delivered.
Whole(e) ==
  LET last == {i \in DOMAIN Bytes(e) : EndsFrame(Bytes(e)[i])}
  IN  [i \in 1..Cardinality(last) |-> flushed[e][Len(delivered[e]) + i]]

Reads(e) == reader[Other(e)] \in {"read", "give"}

Abstract == INSTANCE Channel WITH
  transit   <- [e \in Ends |-> IF Reads(e) THEN Whole(e) ELSE <<>>],
  reading   <- [e \in Ends |-> Reads(e)]

\* The stream is a channel that delivers each message once, whole, in the order
\* of the calls of SendMsg, and nothing after a gap.
ImplementsChannel == Abstract!Spec
==============================================================================

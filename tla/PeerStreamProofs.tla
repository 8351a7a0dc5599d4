--------------------------- MODULE PeerStreamProofs ---------------------------
(***************************************************************************)
(* Theorems about PeerStream and their proofs: the types, that the bytes   *)
(* of two messages never mix, that what was sent arrives or is on its way, *)
(* and that the stream implements Channel.                                 *)
(***************************************************************************)
EXTENDS PeerStream, SequenceTheorems, FiniteSetTheorems, FunctionTheorems, TLAPS

\* The holder of mu is the one that writes, and what it has left to write.
WriterInv ==
  /\ \A c \in Calls : at[c] = "write" <=> mu[From(c)] = c
  /\ \A e \in Ends : mu[e] # NoCall => From(mu[e]) = e
  /\ \A c \in Calls : /\ at[c] \in {"idle", "lock"} => left[c] = Size(c)
                      /\ at[c] = "sent" => left[c] = 0

\* The messages that were flushed are those that have nothing left.
FlushedInv ==
  /\ \A e \in Ends : \A k \in 1..Len(flushed[e]) :
       From(flushed[e][k]) = e /\ left[flushed[e][k]] = 0
  /\ \A c \in Calls : left[c] = 0 =>
       \E k \in 1..Len(flushed[From(c)]) : flushed[From(c)][k] = c

\* What was delivered was flushed, in the same order.
DeliveredInv ==
  \A e \in Ends :
    /\ Len(delivered[e]) <= Len(flushed[e])
    /\ \A k \in 1..Len(delivered[e]) : delivered[e][k] = flushed[e][k]

\* A piece and the one that follows it.
Adjacent(x, y) ==
  \/ EndsFrame(x) /\ y[2] = 1
  \/ y = <<x[1], x[2] + 1>>

\* The last piece is that of the writer, or the end of a message, unless a write
\* has failed; and a writer that has begun wrote the last piece.
LastOf(e) ==
  LET b == Bytes(e)
      n == Len(b)
  IN  /\ \A i \in 1..(n - 1) : Adjacent(b[i], b[i + 1])
      /\ n > 0 /\ ~EndsFrame(b[n]) /\ ~werr[e] =>
           mu[e] = b[n][1] /\ left[b[n][1]] = Size(b[n][1]) - b[n][2]
      /\ ~werr[e] /\ mu[e] # NoCall /\ left[mu[e]] \in 1..(Size(mu[e]) - 1) =>
           n > 0 /\ b[n] = <<mu[e], Size(mu[e]) - left[mu[e]]>>

LastInv == \A e \in Ends : LastOf(e)

\* What ReadBytes holds is the beginning of one message, or all of it.
PartInv ==
  \A e \in Ends : Reads(e) =>
    LET p == part[Other(e)]
    IN  /\ \A i \in 1..Len(p) : p[i][1] = p[1][1]
        /\ \A i \in 1..Len(p) :
             i < Len(p) \/ reader[Other(e)] = "read" => ~EndsFrame(p[i])
        /\ reader[Other(e)] = "give" => Len(p) > 0 /\ EndsFrame(p[Len(p)])

\* Each piece b[i] is numbered with the place g[i] of its message among those of
\* the end: d messages were delivered, f were flushed, q pieces are in ReadBytes.
Numbering(b, d, f, q, g) ==
  LET n == Len(b)
  IN  /\ \A i \in 1..n : g[i] > d
      /\ \A i \in 1..(n - 1) : g[i + 1] = IF EndsFrame(b[i]) THEN g[i] + 1 ELSE g[i]
      /\ n > 0 => g[1] = d + 1
      /\ n > 0 => Len(f) = IF EndsFrame(b[n]) THEN g[n] ELSE g[n] - 1
      /\ \A i \in 1..q : g[i] = d + 1
      /\ \A i \in 1..n : EndsFrame(b[i]) => g[i] <= Len(f) /\ f[g[i]] = b[i][1]
      /\ \A k \in (d + 1)..Len(f) : \E i \in 1..n : g[i] = k /\ EndsFrame(b[i])
      /\ \A i, j \in 1..n : i < j => g[i] <= g[j] /\ (EndsFrame(b[i]) => g[i] < g[j])

Numbered(e, g) ==
  Numbering(Bytes(e), Len(delivered[e]), flushed[e], Len(part[Other(e)]), g)

OrderOf(e) ==
  \E g \in [1..Len(Bytes(e)) -> 1..(Len(flushed[e]) + 1)] : Numbered(e, g)

OrderInv == \A e \in Ends : Reads(e) => OrderOf(e)

StreamInv ==
  /\ TypeOK /\ WriterInv /\ FlushedInv /\ DeliveredInv
  /\ LastInv /\ PartInv /\ OrderInv

-----------------------------------------------------------------------------
(* The two ends, pieces and bytes.                                           *)

LEMMA Others ==
  ASSUME NEW e \in Ends
  PROVE  /\ Other(e) \in Ends /\ Other(e) # e /\ Other(Other(e)) = e
         /\ \A f \in Ends : f = e \/ f = Other(e)
<1>1. PICK f \in Ends : Ends = {e, f} /\ e # f
  BY EndsAssumption
<1>2. \A x \in Ends : Other(x) \in Ends /\ Other(x) # x
  <2> SUFFICES ASSUME NEW x \in Ends
               PROVE  Other(x) \in Ends /\ Other(x) # x
    OBVIOUS
  <2>1. \E y \in Ends : y # x
    BY <1>1
  <2> QED
    BY <2>1 DEF Other
<1> QED
  BY <1>1, <1>2

LEMMA Sizes ==
  ASSUME NEW c \in Calls
  PROVE  /\ From(c) \in Ends /\ Size(c) \in Nat /\ Size(c) > 0 /\ c # NoCall
         /\ \A i \in 1..Size(c) : <<c, i>> \in Pieces
BY CallsAssumption DEF Pieces

LEMMA PieceParts ==
  ASSUME NEW x \in Pieces
  PROVE  /\ x[1] \in Calls /\ x[2] \in 1..Size(x[1]) /\ x = <<x[1], x[2]>>
         /\ EndsFrame(x) <=> x[2] = Size(x[1])
BY DEF Pieces, EndsFrame

LEMMA StreamTypes ==
  ASSUME TypeOK
  PROVE  /\ at \in [Calls -> {"idle", "lock", "write", "sent", "failed", "reported"}]
         /\ left \in [Calls -> Nat] /\ \A c \in Calls : left[c] \in 0..Size(c)
         /\ mu \in [Ends -> Calls \cup {NoCall}] /\ werr \in [Ends -> BOOLEAN]
         /\ wire \in [Ends -> Seq(Pieces)] /\ part \in [Ends -> Seq(Pieces)]
         /\ flushed \in [Ends -> Seq(Calls)] /\ delivered \in [Ends -> Seq(Calls)]
         /\ reader \in [Ends -> {"read", "give", "error", "gone"}]
         /\ peer \in [Ends -> BOOLEAN] /\ closed \in [Ends -> BOOLEAN]
         /\ quit \in [Ends -> BOOLEAN] /\ broken \in BOOLEAN
BY DEF TypeOK

LEMMA BytesType ==
  ASSUME TypeOK, NEW e \in Ends
  PROVE  LET p == part[Other(e)]
         IN  /\ Bytes(e) \in Seq(Pieces) /\ p \in Seq(Pieces) /\ wire[e] \in Seq(Pieces)
             /\ Len(p) \in Nat /\ Len(wire[e]) \in Nat
             /\ Len(Bytes(e)) = Len(p) + Len(wire[e])
             /\ \A i \in 1..Len(Bytes(e)) :
                  Bytes(e)[i] = IF i <= Len(p) THEN p[i] ELSE wire[e][i - Len(p)]
             /\ \A i \in 1..Len(Bytes(e)) : Bytes(e)[i] \in Pieces
<1>1. part[Other(e)] \in Seq(Pieces) /\ wire[e] \in Seq(Pieces)
  BY Others, StreamTypes
<1>2. Bytes(e) \in Seq(Pieces)
  BY <1>1, ConcatProperties DEF Bytes
<1> QED
  BY ZenonT(30), <1>1, <1>2, ConcatProperties, ElementOfSeq, LenProperties DEF Bytes

\* The piece that a call writes next.
Next_(c) == <<c, Size(c) - left[c] + 1>>

LEMMA NextPiece ==
  ASSUME TypeOK, NEW c \in Calls, left[c] > 0
  PROVE  /\ Next_(c) \in Pieces
         /\ EndsFrame(Next_(c)) <=> left[c] = 1
         /\ Next_(c)[1] = c /\ Next_(c)[2] = Size(c) - left[c] + 1
<1>1. left[c] \in 0..Size(c) /\ Size(c) \in Nat
  BY StreamTypes, Sizes
<1>2. Size(c) - left[c] + 1 \in 1..Size(c)
  BY <1>1
<1>3. Next_(c) \in Pieces
  BY <1>2, Sizes DEF Next_
<1> QED
  BY <1>1, <1>3 DEF Next_, EndsFrame

LEMMA ConcatAppend ==
  ASSUME NEW S, NEW s \in Seq(S), NEW t \in Seq(S), NEW x \in S
  PROVE  s \o Append(t, x) = Append(s \o t, x)
<1>1. Append(t, x) = t \o <<x>> /\ <<x>> \in Seq(S) /\ s \o t \in Seq(S)
  BY AppendIsConcat, ConcatProperties
<1>2. Append(s \o t, x) = (s \o t) \o <<x>>
  BY <1>1, AppendIsConcat
<1>3. (s \o t) \o <<x>> = s \o (t \o <<x>>)
  BY <1>1, ConcatAssociative
<1> QED
  BY <1>1, <1>2, <1>3

LEMMA MoveHead ==
  ASSUME NEW S, NEW s \in Seq(S), NEW t \in Seq(S), t # <<>>
  PROVE  Append(s, Head(t)) \o Tail(t) = s \o t
<1>1. Head(t) \in S /\ Tail(t) \in Seq(S) /\ <<Head(t)>> \in Seq(S)
  BY HeadTailProperties
<1>2. Append(s, Head(t)) = s \o <<Head(t)>>
  BY <1>1, AppendIsConcat
<1>3. (s \o <<Head(t)>>) \o Tail(t) = s \o (<<Head(t)>> \o Tail(t))
  BY <1>1, ConcatAssociative
<1>4. <<Head(t)>> \o Tail(t) = t
  <2> DEFINE h == Head(t)
             u == Tail(t)
  <2>1. Len(t) \in Nat /\ Len(t) > 0 /\ Len(u) = Len(t) - 1
        /\ (\A i \in 1..Len(u) : u[i] = t[i + 1]) /\ h = t[1]
    BY HeadTailProperties, LenProperties, EmptySeq
  <2>2. <<h>> \o u \in Seq(S) /\ Len(<<h>>) = 1 /\ <<h>>[1] = h
    BY <1>1, ConcatProperties
  <2> HIDE DEF h, u
  <2>3. Len(<<h>> \o u) = Len(t)
    BY <1>1, <2>1, <2>2, ConcatProperties DEF h, u
  <2>4. \A i \in 1..Len(t) : (<<h>> \o u)[i] = t[i]
    <3> SUFFICES ASSUME NEW i \in 1..Len(t) PROVE (<<h>> \o u)[i] = t[i]
      OBVIOUS
    <3>1. (<<h>> \o u)[i] = IF i <= 1 THEN <<h>>[i] ELSE u[i - 1]
      BY <1>1, <2>1, <2>2, ConcatProperties DEF h, u
    <3>2. CASE i = 1
      BY <2>1, <2>2, <3>1, <3>2
    <3>3. CASE i > 1
      <4>1. i - 1 \in 1..Len(u)
        BY <2>1, <3>3
      <4> QED
        BY <2>1, <3>1, <3>3, <4>1
    <3> QED
      BY <2>1, <3>2, <3>3
  <2> QED
    BY <2>2, <2>3, <2>4, SeqEqual DEF h, u
<1> QED
  BY <1>2, <1>3, <1>4

LEMMA PushBytes ==
  ASSUME TypeOK, NEW c \in Calls, Push(c)
  PROVE  LET e == From(c)
             n == Len(Bytes(e))
         IN  /\ wire' \in [Ends -> Seq(Pieces)] /\ wire'[e] = Append(wire[e], Next_(c))
             /\ \A f \in Ends \ {e} : wire'[f] = wire[f] /\ Bytes(f)' = Bytes(f)
             /\ Bytes(e)' \in Seq(Pieces) /\ n \in Nat /\ Len(Bytes(e)') = n + 1
             /\ \A i \in 1..n : Bytes(e)'[i] = Bytes(e)[i]
             /\ Bytes(e)'[n + 1] = Next_(c)
             /\ UNCHANGED part
<1> DEFINE e == From(c)
           p == part[Other(e)]
           x == Next_(c)
<1>1. /\ e \in Ends /\ x \in Pieces /\ wire \in [Ends -> Seq(Pieces)]
      /\ p \in Seq(Pieces) /\ wire[e] \in Seq(Pieces)
  BY Sizes, Others, StreamTypes, NextPiece DEF Push
<1>2. wire' = [wire EXCEPT ![e] = Append(wire[e], x)] /\ UNCHANGED part
  BY DEF Push, Next_, readVars
<1>3. Append(wire[e], x) \in Seq(Pieces)
  BY <1>1, AppendProperties
<1>4. /\ wire' \in [Ends -> Seq(Pieces)] /\ wire'[e] = Append(wire[e], x)
      /\ \A f \in Ends \ {e} : wire'[f] = wire[f]
  BY <1>1, <1>2, <1>3
<1>5. Bytes(e)' = Append(Bytes(e), x)
  <2> DEFINE w == wire[e]
  <2>1. p \in Seq(Pieces) /\ w \in Seq(Pieces) /\ x \in Pieces
    BY <1>1
  <2> HIDE DEF p, w, x
  <2>2. p \o Append(w, x) = Append(p \o w, x)
    BY <2>1, ConcatAppend
  <2> USE DEF p, w, x
  <2> QED
    BY <1>2, <1>4, <2>2 DEF Bytes
<1>6. \A f \in Ends \ {e} : Bytes(f)' = Bytes(f)
  BY <1>2, <1>4 DEF Bytes
<1>7. Bytes(e) \in Seq(Pieces) /\ Len(Bytes(e)) \in Nat
  BY <1>1, BytesType, LenProperties
<1> HIDE DEF e, p, x
<1>8. /\ Bytes(e)' \in Seq(Pieces) /\ Len(Bytes(e)') = Len(Bytes(e)) + 1
      /\ \A i \in 1..Len(Bytes(e)) : Bytes(e)'[i] = Bytes(e)[i]
      /\ Bytes(e)'[Len(Bytes(e)) + 1] = x
  BY <1>1, <1>5, <1>7, AppendProperties
<1> QED
  BY <1>2, <1>4, <1>6, <1>7, <1>8 DEF e, p, x

\* ReadBytes takes a piece: the bytes stay the same.
LEMMA ReadBytes ==
  ASSUME TypeOK, NEW f \in Ends, Read(f)
  PROVE  LET e == Other(f)
         IN  /\ \A x \in Ends : Bytes(x)' = Bytes(x)
             /\ wire' \in [Ends -> Seq(Pieces)] /\ part' \in [Ends -> Seq(Pieces)]
             /\ \A x \in Ends : Len(wire'[x]) <= Len(wire[x])
             /\ \A x \in Ends \ {f} : part'[x] = part[x]
             /\ part'[f] = Append(part[f], Head(wire[e]))
             /\ Len(part'[f]) = Len(part[f]) + 1 /\ Len(part'[f]) <= Len(Bytes(e))
             /\ \A i \in 1..Len(part[f]) : part'[f][i] = part[f][i]
             /\ part'[f][Len(part[f]) + 1] = Head(wire[e])
             /\ Head(wire[e]) = Bytes(e)[Len(part[f]) + 1]
<1> DEFINE e == Other(f)
           w == wire[e]
           p == part[f]
<1>1. /\ e \in Ends /\ e # f /\ Other(e) = f /\ \A x \in Ends : x = e \/ x = f
      /\ w \in Seq(Pieces) /\ p \in Seq(Pieces) /\ w # <<>>
      /\ wire \in [Ends -> Seq(Pieces)] /\ part \in [Ends -> Seq(Pieces)]
  BY Others, StreamTypes DEF Read
<1>2. /\ wire' = [wire EXCEPT ![e] = Tail(w)]
      /\ part' = [part EXCEPT ![f] = Append(p, Head(w))]
  BY DEF Read
<1>3. /\ Head(w) \in Pieces /\ Tail(w) \in Seq(Pieces) /\ Len(Tail(w)) = Len(w) - 1
      /\ Len(w) \in Nat /\ Len(p) \in Nat /\ Len(w) > 0 /\ Head(w) = w[1]
      /\ \A i \in 1..Len(Tail(w)) : Tail(w)[i] = w[i + 1]
  BY <1>1, HeadTailProperties, LenProperties, EmptySeq
<1>4. /\ Append(p, Head(w)) \in Seq(Pieces) /\ Len(Append(p, Head(w))) = Len(p) + 1
      /\ \A i \in 1..Len(p) : Append(p, Head(w))[i] = p[i]
      /\ Append(p, Head(w))[Len(p) + 1] = Head(w)
  BY <1>1, <1>3, AppendProperties
<1>5. /\ wire' \in [Ends -> Seq(Pieces)] /\ part' \in [Ends -> Seq(Pieces)]
      /\ wire'[e] = Tail(w) /\ part'[f] = Append(p, Head(w))
      /\ \A x \in Ends \ {e} : wire'[x] = wire[x]
      /\ \A x \in Ends \ {f} : part'[x] = part[x]
  BY <1>1, <1>2, <1>3, <1>4
<1>6. Append(p, Head(w)) \o Tail(w) = p \o w
  BY <1>1, MoveHead
<1>7. Bytes(e)' = Bytes(e)
  BY <1>1, <1>5, <1>6 DEF Bytes
<1>8. Bytes(f)' = Bytes(f)
  BY <1>1, <1>5, Others DEF Bytes
<1>9. Head(w) = Bytes(e)[Len(p) + 1] /\ Len(Bytes(e)) = Len(p) + Len(w)
  BY <1>1, <1>3, ConcatProperties DEF Bytes
<1>10. Bytes(e) \in Seq(Pieces) /\ \A x \in Ends : Len(wire[x]) \in Nat
  BY <1>1, BytesType, LenProperties
<1>11. \A x \in Ends : Len(wire'[x]) <= Len(wire[x])
  <2>1. Len(wire'[e]) <= Len(wire[e])
    BY <1>3, <1>5
  <2>2. Len(wire'[f]) <= Len(wire[f])
    BY <1>1, <1>5, <1>10
  <2> QED
    BY <1>1, <2>1, <2>2
<1>12. \A x \in Ends : Bytes(x)' = Bytes(x)
  BY <1>1, <1>7, <1>8
<1>13. Len(p) + 1 <= Len(Bytes(e))
  BY <1>3, <1>9
<1> HIDE DEF w, p, e
<1> QED
  BY <1>3, <1>4, <1>5, <1>9, <1>11, <1>12, <1>13 DEF w, p, e

-----------------------------------------------------------------------------
(* The steps keep the invariants.                                            *)

LEMMA Invs ==
  ASSUME StreamInv
  PROVE  TypeOK /\ WriterInv /\ FlushedInv /\ DeliveredInv /\ LastInv /\ PartInv /\ OrderInv
BY DEF StreamInv

LEMMA TypeStep ==
  ASSUME StreamInv, [Next]_vars
  PROVE  TypeOK'
<1> USE StreamTypes, Invs
<1> DEFINE Room == \A e \in Ends : ~closed[Other(e)] => Len(wire[e]) <= Window
<1>r. Room
  BY DEF TypeOK
<1>1. ASSUME NEW c \in Calls, Send(c) PROVE TypeOK'
  BY <1>1, <1>r DEF Send, TypeOK, readVars, nodeVars, streamVars
<1>2. ASSUME NEW c \in Calls, Lock(c) PROVE TypeOK'
  BY <1>2, <1>r, Sizes DEF Lock, TypeOK, readVars, nodeVars, streamVars
<1>3. ASSUME NEW c \in Calls, Push(c) PROVE TypeOK'
  <2> DEFINE e == From(c)
  <2>1. /\ wire' \in [Ends -> Seq(Pieces)] /\ wire'[e] = Append(wire[e], Next_(c))
        /\ \A f \in Ends \ {e} : wire'[f] = wire[f]
        /\ e \in Ends /\ Other(e) \in Ends /\ wire[e] \in Seq(Pieces) /\ Next_(c) \in Pieces
    BY <1>3, PushBytes, Sizes, Others, NextPiece DEF Push
  <2>2. Len(wire'[e]) = Len(wire[e]) + 1 /\ Len(wire[e]) \in Nat
    BY <2>1, AppendProperties, LenProperties
  <2>3. closed[Other(e)] \/ Len(wire[e]) < Window
    BY <1>3 DEF Push
  <2>4. Room'
    BY SMTT(30), <1>3, <1>r, <2>1, <2>2, <2>3, StreamBounds DEF Push, nodeVars
  <2>5. left' \in [Calls -> Nat] /\ \A x \in Calls : left'[x] \in 0..Size(x)
    BY SMTT(30), <1>3, Sizes DEF Push
  <2>6. Append(flushed[e], c) \in Seq(Calls)
    BY <2>1, AppendProperties
  <2>7. flushed' \in [Ends -> Seq(Calls)]
    BY <1>3, <2>1, <2>6 DEF Push
  <2> QED
    BY <1>3, <2>1, <2>4, <2>5, <2>7 DEF Push, TypeOK, readVars, nodeVars
<1>4. ASSUME NEW c \in Calls, SendDone(c) PROVE TypeOK'
  BY <1>4, <1>r, Sizes DEF SendDone, TypeOK, readVars, nodeVars, streamVars
<1>5. ASSUME NEW c \in Calls, SendFails(c) PROVE TypeOK'
  BY <1>5, <1>r, Sizes DEF SendFails, TypeOK, readVars, nodeVars, streamVars
<1>6. ASSUME NEW c \in Calls, ReportWrite(c) PROVE TypeOK'
  <2>1. /\ peer' \in [Ends -> BOOLEAN] /\ closed' \in [Ends -> BOOLEAN]
        /\ \A x \in Ends : closed[x] => closed'[x]
    BY <1>6, Sizes DEF ReportWrite, DeletePeer
  <2>2. Room'
    BY <1>6, <1>r, <2>1, Others DEF ReportWrite, streamVars
  <2>3. at' \in [Calls -> {"idle", "lock", "write", "sent", "failed", "reported"}]
    BY <1>6 DEF ReportWrite
  <2> QED
    BY <1>6, <2>1, <2>2, <2>3 DEF ReportWrite, TypeOK, readVars, streamVars
<1>7. ASSUME NEW f \in Ends, Read(f) PROVE TypeOK'
  <2>1. /\ wire' \in [Ends -> Seq(Pieces)] /\ part' \in [Ends -> Seq(Pieces)]
        /\ \A x \in Ends : Len(wire'[x]) <= Len(wire[x])
    BY <1>7, ReadBytes
  <2>2. \A x \in Ends : Len(wire[x]) \in Nat /\ Len(wire'[x]) \in Nat
    BY <2>1, LenProperties
  <2>3. Room'
    <3>1. UNCHANGED closed
      BY <1>7 DEF Read, nodeVars
    <3>2. ASSUME NEW x \in Ends, ~closed[Other(x)] PROVE Len(wire'[x]) <= Window
      <4>1. Len(wire[x]) <= Window /\ Len(wire'[x]) <= Len(wire[x]) /\ Window \in Nat
        BY <1>r, <2>1, <3>2, StreamBounds
      <4> QED
        BY <2>2, <4>1
    <3> QED
      BY <3>1, <3>2
  <2>4. reader' \in [Ends -> {"read", "give", "error", "gone"}]
    BY <1>7 DEF Read
  <2> QED
    BY <1>7, <2>1, <2>3, <2>4 DEF Read, TypeOK, sendVars, nodeVars
<1>8. ASSUME NEW f \in Ends, ReadFails(f) PROVE TypeOK'
  BY <1>8, <1>r DEF ReadFails, TypeOK, sendVars, nodeVars, streamVars
<1>9. ASSUME NEW f \in Ends, Deliver(f) PROVE TypeOK'
  <2> DEFINE e == Other(f)
  <2>1. e \in Ends /\ Other(e) = f /\ part[f] \in Seq(Pieces) /\ delivered[e] \in Seq(Calls)
    BY Others
  <2>2. Len(part[f]) > 0
    BY <1>9, <2>1 DEF Deliver, PartInv, Reads
  <2>3. part[f][1] \in Pieces
    BY <2>1, <2>2, LenProperties, ElementOfSeq
  <2>4. part[f][1][1] \in Calls
    BY <2>3, PieceParts
  <2>5. Append(delivered[e], part[f][1][1]) \in Seq(Calls)
    BY <2>1, <2>4, AppendProperties
  <2>6. delivered' \in [Ends -> Seq(Calls)]
    BY <1>9, <2>1, <2>5 DEF Deliver
  <2>7. <<>> \in Seq(Pieces)
    BY EmptySeq
  <2>8. part' \in [Ends -> Seq(Pieces)]
    BY <1>9, <2>7 DEF Deliver
  <2> QED
    BY <1>9, <1>r, <2>6, <2>8 DEF Deliver, TypeOK, sendVars, nodeVars, streamVars
<1>10. ASSUME NEW f \in Ends, ReportRead(f) PROVE TypeOK'
  BY <1>10, <1>r DEF ReportRead, DeletePeer, TypeOK, sendVars, streamVars
<1>11. ASSUME NEW f \in Ends, Close(f) PROVE TypeOK'
  BY <1>11, <1>r DEF Close, DeletePeer, TypeOK, sendVars, readVars, streamVars
<1>12. ASSUME Break PROVE TypeOK'
  BY <1>12, <1>r DEF Break, TypeOK, sendVars, readVars, nodeVars
<1>13. ASSUME UNCHANGED vars PROVE TypeOK'
  BY <1>13, <1>r DEF TypeOK, vars, sendVars, readVars, nodeVars, streamVars
<1> QED
  BY <1>1, <1>2, <1>3, <1>4, <1>5, <1>6, <1>7, <1>8, <1>9, <1>10, <1>11, <1>12, <1>13
     DEF Next, SendStep, ReadStep

LEMMA WriterStep ==
  ASSUME StreamInv, [Next]_vars
  PROVE  WriterInv'
<1> USE StreamTypes, Invs, Sizes DEF WriterInv
<1>1. ASSUME NEW c \in Calls, Send(c) PROVE WriterInv'
  BY <1>1 DEF Send
<1>2. ASSUME NEW c \in Calls, Lock(c) PROVE WriterInv'
  BY <1>2 DEF Lock
<1>3. ASSUME NEW c \in Calls, Push(c) PROVE WriterInv'
  BY <1>3 DEF Push
<1>4. ASSUME NEW c \in Calls, SendDone(c) PROVE WriterInv'
  BY <1>4 DEF SendDone
<1>5. ASSUME NEW c \in Calls, SendFails(c) PROVE WriterInv'
  BY <1>5 DEF SendFails
<1>6. ASSUME NEW c \in Calls, ReportWrite(c) PROVE WriterInv'
  BY <1>6 DEF ReportWrite
<1>7. ASSUME UNCHANGED sendVars PROVE WriterInv'
  BY <1>7 DEF sendVars
<1>8. \/ \E c \in Calls : Send(c) \/ SendStep(c) \/ SendFails(c)
      \/ UNCHANGED sendVars
  BY DEF Next, ReadStep, Read, ReadFails, Deliver, ReportRead, Close, Break, vars
<1> QED
  BY <1>1, <1>2, <1>3, <1>4, <1>5, <1>6, <1>7, <1>8 DEF SendStep

LEMMA FlushedStep ==
  ASSUME StreamInv, [Next]_vars
  PROVE  FlushedInv'
<1>1. ASSUME NEW c \in Calls, Push(c), left[c] # 1 PROVE FlushedInv'
  <2>1. UNCHANGED flushed /\ left' = [left EXCEPT ![c] = left[c] - 1] /\ left[c] > 1
    BY <1>1, StreamTypes, Invs DEF Push
  <2>2. \A e \in Ends : \A k \in 1..Len(flushed[e]) : flushed[e][k] \in Calls
    BY StreamTypes, Invs, Sizes, ElementOfSeq
  <2>3. \A x \in Calls : left'[x] = 0 <=> left[x] = 0
    BY <2>1, StreamTypes, Invs
  <2>4. /\ \A f \in Ends : \A k \in 1..Len(flushed[f]) :
             From(flushed[f][k]) = f /\ left'[flushed[f][k]] = 0
        /\ \A x \in Calls : left'[x] = 0 =>
             \E k \in 1..Len(flushed[From(x)]) : flushed[From(x)][k] = x
    BY <2>2, <2>3, Invs, Sizes DEF FlushedInv
  <2> QED
    BY <2>1, <2>4 DEF FlushedInv
<1>2. ASSUME NEW c \in Calls, Push(c), left[c] = 1 PROVE FlushedInv'
  <2> DEFINE e == From(c)
  <2>1. /\ flushed' = [flushed EXCEPT ![e] = Append(flushed[e], c)]
        /\ left' = [left EXCEPT ![c] = 0]
    BY <1>2, StreamTypes, Invs DEF Push
  <2>2. /\ e \in Ends /\ flushed[e] \in Seq(Calls)
        /\ \A f \in Ends : \A k \in 1..Len(flushed[f]) : flushed[f][k] \in Calls
    BY StreamTypes, Invs, Sizes, ElementOfSeq
  <2>3. /\ flushed'[e] = Append(flushed[e], c) /\ Len(flushed'[e]) = Len(flushed[e]) + 1
        /\ \A k \in 1..Len(flushed[e]) : flushed'[e][k] = flushed[e][k]
        /\ flushed'[e][Len(flushed[e]) + 1] = c /\ Len(flushed[e]) \in Nat
        /\ \A f \in Ends \ {e} : flushed'[f] = flushed[f]
    BY <2>1, <2>2, StreamTypes, Invs, AppendProperties, LenProperties
  <2>4. left'[c] = 0 /\ \A x \in Calls : x # c => left'[x] = left[x]
    BY <2>1, StreamTypes, Invs
  <2> HIDE DEF e
  <2>5. ASSUME NEW f \in Ends, NEW k \in 1..Len(flushed'[f])
        PROVE  From(flushed'[f][k]) = f /\ left'[flushed'[f][k]] = 0
    <3>1. CASE f = e /\ k = Len(flushed[e]) + 1
      BY <2>3, <2>4, <3>1 DEF e
    <3>2. CASE ~(f = e /\ k = Len(flushed[e]) + 1)
      <4>1. k \in 1..Len(flushed[f]) /\ flushed'[f][k] = flushed[f][k]
        <5>1. CASE f = e
          <6>1. k \in 1..(Len(flushed[e]) + 1) /\ k # Len(flushed[e]) + 1
            BY <2>3, <2>5, <3>2, <5>1
          <6>2. k \in 1..Len(flushed[e])
            BY <2>3, <6>1
          <6> QED
            BY <2>3, <5>1, <6>2
        <5>2. CASE f # e
          BY <2>3, <2>5, <5>2
        <5> QED
          BY <5>1, <5>2
      <4>2. /\ flushed[f][k] \in Calls /\ From(flushed[f][k]) = f
            /\ left[flushed[f][k]] = 0
        BY <2>2, <4>1, Invs DEF FlushedInv
      <4>3. left'[flushed[f][k]] = 0
        BY <2>4, <4>2
      <4> QED
        BY <4>1, <4>2, <4>3
    <3> QED
      BY <3>1, <3>2
  <2>6. ASSUME NEW x \in Calls, left'[x] = 0
        PROVE  \E k \in 1..Len(flushed'[From(x)]) : flushed'[From(x)][k] = x
    <3>1. CASE x = c
      BY <2>3, <3>1 DEF e
    <3>2. CASE x # c
      <4>1. PICK k \in 1..Len(flushed[From(x)]) : flushed[From(x)][k] = x
        BY <2>4, <2>6, <3>2, Invs DEF FlushedInv
      <4>2. k \in 1..Len(flushed'[From(x)]) /\ flushed'[From(x)][k] = x
        <5>1. CASE From(x) = e
          <6>1. k \in 1..Len(flushed[e]) /\ flushed[e][k] = x
            BY <4>1, <5>1
          <6>2. flushed'[e][k] = x
            BY <2>3, <6>1
          <6>3. Len(flushed[e]) \in Nat /\ Len(flushed'[e]) = Len(flushed[e]) + 1
            BY <2>3
          <6>4. k \in 1..Len(flushed'[e])
            BY <6>1, <6>3
          <6> QED
            BY <5>1, <6>2, <6>4
        <5>2. CASE From(x) # e
          <6>1. From(x) \in Ends \ {e}
            BY <5>2, Sizes
          <6>2. flushed'[From(x)] = flushed[From(x)]
            BY <2>3, <6>1
          <6> QED
            BY <4>1, <6>2
        <5> QED
          BY <5>1, <5>2
      <4> QED
        BY <4>2
    <3> QED
      BY <3>1, <3>2
  <2> QED
    BY <2>5, <2>6 DEF FlushedInv
<1>3. ASSUME UNCHANGED <<left, flushed>> PROVE FlushedInv'
  BY <1>3, Invs DEF FlushedInv
<1>4. (\E c \in Calls : Push(c)) \/ UNCHANGED <<left, flushed>>
  BY DEF Next, SendStep, Send, Lock, SendDone, SendFails, ReportWrite, ReadStep, Read,
         ReadFails, Deliver, ReportRead, Close, Break, vars, sendVars, streamVars
<1> QED
  BY <1>1, <1>2, <1>3, <1>4

LEMMA PartStep ==
  ASSUME StreamInv, [Next]_vars
  PROVE  PartInv'
<1>1. ASSUME NEW f \in Ends, Read(f) PROVE PartInv'
  <2> DEFINE e == Other(f)
             p == part[f]
             h == Head(wire[e])
  <2>1. /\ e \in Ends /\ Other(e) = f /\ \A x \in Ends : x = e \/ x = f
        /\ reader[f] = "read" /\ p \in Seq(Pieces) /\ Len(p) \in Nat /\ wire[e] # <<>>
        /\ wire[e] \in Seq(Pieces)
    BY <1>1, Others, StreamTypes, Invs, LenProperties DEF Read
  <2>2. /\ Len(part'[f]) = Len(p) + 1 /\ part'[f][Len(p) + 1] = h
        /\ \A i \in 1..Len(p) : part'[f][i] = p[i]
        /\ part'[e] = part[e] /\ h \in Pieces /\ h = Bytes(e)[Len(p) + 1]
    BY <1>1, <2>1, ReadBytes, Invs, HeadTailProperties, Others
  <2>3. /\ reader'[e] = reader[e]
        /\ reader'[f] = IF ~EndsFrame(h) THEN "read"
                        ELSE IF \E c \in Calls : part'[f] = Frame(c) THEN "give" ELSE "error"
    BY <1>1, <2>1, StreamTypes, Invs, Others DEF Read
  <2>4. /\ \A i \in 1..Len(p) : p[i][1] = p[1][1]
        /\ \A i \in 1..Len(p) : ~EndsFrame(p[i])
    BY <2>1, Invs DEF PartInv, Reads
  <2>5. Len(p) > 0 => h[1] = p[1][1]
    <3> SUFFICES ASSUME Len(p) > 0 PROVE h[1] = p[1][1]
      OBVIOUS
    <3>a. Len(p) > 0
      OBVIOUS
    <3>1. /\ Len(p) \in 1..(Len(Bytes(e)) - 1) /\ Bytes(e)[Len(p)] = p[Len(p)]
      <4>1. Len(wire[e]) > 0 /\ Len(wire[e]) \in Nat
        BY <2>1, EmptySeq, LenProperties
      <4>2. /\ Len(Bytes(e)) = Len(p) + Len(wire[e])
            /\ \A i \in 1..Len(Bytes(e)) :
                 Bytes(e)[i] = IF i <= Len(p) THEN p[i] ELSE wire[e][i - Len(p)]
        BY <2>1, BytesType, Invs
      <4> HIDE DEF e, p
      <4>3. Len(p) \in 1..Len(Bytes(e)) /\ Len(p) <= Len(p) /\ Len(p) <= Len(Bytes(e)) - 1
        BY <2>1, <3>a, <4>1, <4>2
      <4>4. Len(p) \in 1..(Len(Bytes(e)) - 1)
        BY <2>1, <3>a, <4>1, <4>2
      <4> QED
        BY <4>2, <4>3, <4>4
    <3>2. Adjacent(p[Len(p)], h)
      BY <2>1, <2>2, <3>1, Invs DEF LastInv, LastOf
    <3>3. ~EndsFrame(p[Len(p)]) /\ p[Len(p)][1] = p[1][1]
      BY <2>1, <2>4
    <3> QED
      BY <3>2, <3>3 DEF Adjacent
  <2> HIDE DEF e, p, h
  <2>6. \A i \in 1..Len(part'[f]) : part'[f][i][1] = part'[f][1][1]
    BY <2>1, <2>2, <2>4, <2>5
  <2>7. \A i \in 1..Len(part'[f]) :
          i < Len(part'[f]) \/ reader'[f] = "read" => ~EndsFrame(part'[f][i])
    BY <2>1, <2>2, <2>3, <2>4
  <2>8. reader'[f] = "give" => Len(part'[f]) > 0 /\ EndsFrame(part'[f][Len(part'[f])])
    BY <2>1, <2>2, <2>3
  <2>9. ASSUME NEW x \in Ends, x # e, reader'[Other(x)] \in {"read", "give"}
        PROVE  part'[Other(x)] = part[Other(x)] /\ reader'[Other(x)] = reader[Other(x)]
    BY <2>1, <2>2, <2>3, <2>9, Others DEF e
  <2>10. ASSUME NEW x \in Ends, Reads(x)'
         PROVE  LET q == part'[Other(x)]
                IN  /\ \A i \in 1..Len(q) : q[i][1] = q[1][1]
                    /\ \A i \in 1..Len(q) :
                         i < Len(q) \/ reader'[Other(x)] = "read" => ~EndsFrame(q[i])
                    /\ reader'[Other(x)] = "give" => Len(q) > 0 /\ EndsFrame(q[Len(q)])
    <3>1. CASE x = e
      BY <2>1, <2>6, <2>7, <2>8, <3>1
    <3>2. CASE x # e
      <4>1. part'[Other(x)] = part[Other(x)] /\ reader'[Other(x)] = reader[Other(x)]
        BY <2>9, <2>10, <3>2 DEF Reads
      <4> QED
        BY <2>10, <4>1, Invs DEF PartInv, Reads
    <3> QED
      BY <3>1, <3>2
  <2> QED
    BY <2>10 DEF PartInv
<1>2. ASSUME NEW f \in Ends, Deliver(f) PROVE PartInv'
  <2>1. /\ part' = [part EXCEPT ![f] = <<>>]
        /\ reader' = [reader EXCEPT ![f] = "read"]
    BY <1>2 DEF Deliver
  <2>2. /\ part'[f] = <<>> /\ reader'[f] = "read" /\ Len(part'[f]) = 0
        /\ \A x \in Ends \ {f} : part'[x] = part[x] /\ reader'[x] = reader[x]
    BY <2>1, StreamTypes, Invs
  <2>3. ASSUME NEW x \in Ends, Reads(x)'
        PROVE  LET p == part'[Other(x)]
               IN  /\ \A i \in 1..Len(p) : p[i][1] = p[1][1]
                   /\ \A i \in 1..Len(p) :
                        i < Len(p) \/ reader'[Other(x)] = "read" => ~EndsFrame(p[i])
                   /\ reader'[Other(x)] = "give" => Len(p) > 0 /\ EndsFrame(p[Len(p)])
    <3>1. CASE Other(x) = f
      BY <2>2, <3>1
    <3>2. CASE Other(x) # f
      <4>1. Other(x) \in Ends \ {f}
        BY <3>2, Others
      <4>2. part'[Other(x)] = part[Other(x)] /\ reader'[Other(x)] = reader[Other(x)]
        BY <2>2, <4>1
      <4> QED
        BY <2>3, <4>2, Invs DEF PartInv, Reads
    <3> QED
      BY <3>1, <3>2
  <2> QED
    BY <2>3 DEF PartInv
<1>3. ASSUME UNCHANGED part,
             \A x \in Ends : reader'[x] \in {"read", "give"} => reader'[x] = reader[x]
      PROVE  PartInv'
  BY <1>3, Invs, Others DEF PartInv, Reads
<1>4. ASSUME NEW f \in Ends, ReadFails(f) \/ ReportRead(f) PROVE PartInv'
  BY <1>3, <1>4, Invs, StreamTypes DEF ReadFails, ReportRead
<1>5. ASSUME UNCHANGED <<part, reader>> PROVE PartInv'
  BY <1>3, <1>5
<1>6. \/ \E f \in Ends : Read(f) \/ Deliver(f) \/ ReadFails(f) \/ ReportRead(f)
      \/ UNCHANGED <<part, reader>>
  BY DEF Next, SendStep, Send, Lock, Push, SendDone, SendFails, ReportWrite, ReadStep,
         Close, Break, vars, readVars
<1> QED
  BY <1>1, <1>2, <1>4, <1>5, <1>6

LEMMA LastStep ==
  ASSUME StreamInv, [Next]_vars
  PROVE  LastInv'
<1>1. ASSUME NEW e \in Ends, Bytes(e)' = Bytes(e), mu'[e] = mu[e], werr'[e] = werr[e],
             \A x \in Calls : From(x) = e => left'[x] = left[x]
      PROVE  LastOf(e)'
  <2>1. LastOf(e) /\ (mu[e] # NoCall => mu[e] \in Calls /\ left'[mu[e]] = left[mu[e]])
    BY <1>1, Invs, StreamTypes DEF LastInv, WriterInv
  <2>2. Len(Bytes(e)) \in Nat /\ \A i \in 1..Len(Bytes(e)) : Bytes(e)[i][1] # NoCall
    BY <1>1, Invs, BytesType, PieceParts, Sizes, LenProperties
  <2>3. Len(Bytes(e)) > 0 => Bytes(e)[Len(Bytes(e))][1] # NoCall
    BY <2>2
  <2> QED
    BY <1>1, <2>1, <2>3 DEF LastOf
<1>2. ASSUME NEW c \in Calls, Push(c) PROVE LastInv'
  <2> DEFINE e == From(c)
             b == Bytes(e)
             n == Len(b)
             x == Next_(c)
  <2>1. /\ e \in Ends /\ mu[e] = c /\ c # NoCall /\ ~werr[e] /\ left[c] \in 1..Size(c)
        /\ Size(c) \in Nat /\ UNCHANGED <<mu, werr>> /\ left' = [left EXCEPT ![c] = left[c] - 1]
    BY <1>2, Invs, StreamTypes, Sizes DEF Push, WriterInv
  <2>2. /\ n \in Nat /\ Len(b') = n + 1 /\ b'[n + 1] = x
        /\ \A i \in 1..n : b'[i] = b[i] /\ b[i] \in Pieces
        /\ \A f \in Ends \ {e} : Bytes(f)' = Bytes(f)
    BY <1>2, <2>1, Invs, PushBytes, BytesType
  <2>3. /\ EndsFrame(x) <=> left[c] = 1
        /\ x = <<c, Size(c) - left[c] + 1>> /\ x[1] = c /\ x[2] = Size(c) - left[c] + 1
    BY <1>2, Invs, NextPiece DEF Push, Next_
  <2>4. left'[c] = left[c] - 1 /\ \A y \in Calls : y # c => left'[y] = left[y]
    BY <2>1, Invs, StreamTypes
  <2>5. LastOf(e)
    BY <2>1, Invs DEF LastInv
  <2>6. n > 0 => Adjacent(b[n], x)
    <3> SUFFICES ASSUME n > 0 PROVE Adjacent(b[n], x)
      OBVIOUS
    <3>1. b[n] \in Pieces
      BY <2>2
    <3>2. /\ b[n][2] \in 1..Size(b[n][1]) /\ Size(b[n][1]) \in Nat
          /\ EndsFrame(b[n]) <=> b[n][2] = Size(b[n][1])
      BY <3>1, PieceParts, Sizes
    <3>3. CASE EndsFrame(b[n])
      <4>1. left[c] = Size(c)
        <5>1. ASSUME left[c] \in 1..(Size(c) - 1) PROVE FALSE
          <6>1. b[n] = <<c, Size(c) - left[c]>>
            BY <2>1, <2>5, <5>1 DEF LastOf
          <6>2. Size(c) - left[c] = Size(c)
            BY <3>2, <3>3, <6>1
          <6> QED
            BY <2>1, <5>1, <6>2
        <5> QED
          BY <2>1, <5>1
      <4>2. x[2] = 1
        BY <2>1, <2>3, <4>1
      <4> QED
        BY <3>3, <4>2 DEF Adjacent
    <3>4. CASE ~EndsFrame(b[n])
      <4>1. c = b[n][1] /\ left[c] = Size(c) - b[n][2]
        BY <2>1, <2>5, <3>4 DEF LastOf
      <4>2. Size(c) - left[c] + 1 = b[n][2] + 1
        BY <2>1, <3>2, <4>1
      <4> QED
        BY <2>3, <4>1, <4>2 DEF Adjacent
    <3> QED
      BY <3>3, <3>4
  <2>7. LastOf(e)'
    <3>1. \A i \in 1..n : Adjacent(b'[i], b'[i + 1])
      <4> SUFFICES ASSUME NEW i \in 1..n PROVE Adjacent(b'[i], b'[i + 1])
        OBVIOUS
      <4>1. CASE i = n
        BY <2>2, <2>6, <4>1
      <4>2. CASE i # n
        <5>1. i \in 1..(n - 1) /\ i + 1 \in 1..n
          BY <2>2, <4>2
        <5>2. Adjacent(b[i], b[i + 1])
          BY <2>5, <5>1 DEF LastOf
        <5> QED
          BY <2>2, <5>1, <5>2
      <4> QED
        BY <4>1, <4>2
    <3>2. left'[c] = Size(c) - x[2] /\ x = <<c, Size(c) - left'[c]>>
      BY <2>1, <2>3, <2>4
    <3>3. mu'[e] = c /\ Len(b') - 1 = n /\ Len(b') > 0 /\ b'[Len(b')] = x
      BY <2>1, <2>2
    <3> QED
      BY <2>3, <3>1, <3>2, <3>3 DEF LastOf
  <2>8. ASSUME NEW f \in Ends, f # e PROVE LastOf(f)'
    BY <1>1, <2>1, <2>2, <2>4, <2>8
  <2> QED
    BY <2>7, <2>8 DEF LastInv
<1>3. ASSUME NEW f \in Ends, Deliver(f) PROVE LastInv'
  <2> DEFINE e == Other(f)
             b == Bytes(e)
             n == Len(b)
             w == wire[e]
             p == part[f]
             m == Len(p)
  <2>1. /\ e \in Ends /\ Other(e) = f /\ e # f /\ reader[f] = "give"
        /\ part' = [part EXCEPT ![f] = <<>>] /\ UNCHANGED <<wire, sendVars>>
    BY <1>3, Others DEF Deliver, streamVars
  <2>2. Bytes(e)' = w
    <3>1. part'[f] = <<>>
      BY <2>1, Invs, StreamTypes
    <3>2. w \in Seq(Pieces)
      BY <2>1, Invs, StreamTypes
    <3>3. <<>> \o w = w
      BY <3>2, ConcatEmptySeq
    <3> QED
      BY <2>1, <3>1, <3>3 DEF Bytes
  <2>3. /\ m \in Nat /\ Len(w) \in Nat /\ n = m + Len(w)
        /\ \A i \in 1..n : b[i] = IF i <= m THEN p[i] ELSE w[i - m]
    BY <2>1, Invs, BytesType
  <2>4. m > 0 /\ EndsFrame(p[m]) /\ LastOf(e)
    BY <2>1, Invs DEF PartInv, LastInv, Reads
  <2>5. \A i \in 1..Len(w) : i + m \in 1..n /\ b[i + m] = w[i]
    <3> HIDE DEF b, n, w, p, m
    <3> QED
      BY <2>3
  <2>6. \A i \in 1..(Len(w) - 1) : Adjacent(w[i], w[i + 1])
    <3> SUFFICES ASSUME NEW i \in 1..(Len(w) - 1) PROVE Adjacent(w[i], w[i + 1])
      OBVIOUS
    <3> DEFINE A(j) == Adjacent(b[j], b[j + 1])
    <3>1. \A j \in 1..(n - 1) : A(j)
      BY <2>4 DEF LastOf
    <3> HIDE DEF A, b, n, w, p, m
    <3>2. /\ i + m \in 1..(n - 1) /\ (i + m) + 1 = (i + 1) + m
          /\ i \in 1..Len(w) /\ i + 1 \in 1..Len(w)
      BY <2>3
    <3>3. b[i + m] = w[i] /\ b[(i + m) + 1] = w[i + 1]
      BY <2>5, <3>2
    <3>4. A(i + m)
      BY <3>1, <3>2
    <3> QED
      BY <3>3, <3>4 DEF A
  <2>7. Len(w) > 0 => b[n] = w[Len(w)]
    <3> HIDE DEF b, n, w, p, m
    <3> QED
      BY <2>3, <2>5
  <2>8. ASSUME ~werr[e], mu[e] # NoCall, left[mu[e]] \in 1..(Size(mu[e]) - 1)
        PROVE  Len(w) > 0
    <3>1. b[n] = <<mu[e], Size(mu[e]) - left[mu[e]]>>
      BY <2>4, <2>8 DEF LastOf
    <3>2. mu[e] \in Calls /\ Size(mu[e]) \in Nat
      BY <2>1, <2>8, Invs, StreamTypes, Sizes
    <3>3. Size(mu[e]) - left[mu[e]] # Size(mu[e])
      BY <2>8, <3>2
    <3>4. ~EndsFrame(b[n])
      BY <3>1, <3>3 DEF EndsFrame
    <3>5. Len(w) = 0 => b[n] = p[m]
      <4> HIDE DEF b, n, w, p, m
      <4> QED
        BY <2>3, <2>4
    <3> HIDE DEF b, n, w, p, m
    <3> QED
      BY <2>3, <2>4, <3>4, <3>5
  <2>9. UNCHANGED <<mu, werr, left>>
    BY <2>1 DEF sendVars
  <2>10. n > 0 /\ (Len(w) > 0 => n > 0)
    <3> HIDE DEF b, n, w, p, m
    <3> QED
      BY <2>3, <2>4
  <2>11. LastOf(e)'
    <3>1. Len(w) > 0 /\ ~EndsFrame(w[Len(w)]) /\ ~werr[e] =>
             mu[e] = w[Len(w)][1]
             /\ left[w[Len(w)][1]] = Size(w[Len(w)][1]) - w[Len(w)][2]
      BY <2>4, <2>7, <2>10 DEF LastOf
    <3>2. ~werr[e] /\ mu[e] # NoCall /\ left[mu[e]] \in 1..(Size(mu[e]) - 1) =>
             Len(w) > 0 /\ w[Len(w)] = <<mu[e], Size(mu[e]) - left[mu[e]]>>
      BY <2>4, <2>7, <2>8 DEF LastOf
    <3> QED
      BY <2>2, <2>6, <2>9, <3>1, <3>2 DEF LastOf
  <2>12. LastOf(f)'
    <3>1. part'[e] = part[e]
      BY <2>1, Invs, StreamTypes
    <3>2. Bytes(f)' = Bytes(f)
      BY <2>1, <3>1 DEF Bytes
    <3> QED
      BY <1>1, <2>9, <3>2
  <2> QED
    BY <2>11, <2>12, Others DEF LastInv
<1>4. ASSUME NEW c \in Calls, Lock(c) PROVE LastInv'
  <2> DEFINE e == From(c)
  <2>1. /\ e \in Ends /\ mu[e] = NoCall /\ mu' = [mu EXCEPT ![e] = c] /\ left[c] = Size(c)
        /\ UNCHANGED <<left, werr, wire, part>> /\ Size(c) \in Nat /\ LastOf(e)
    BY <1>4, Invs, Sizes DEF Lock, readVars, streamVars, WriterInv, LastInv
  <2>2. mu'[e] = c /\ \A f \in Ends \ {e} : mu'[f] = mu[f]
    BY <2>1, Invs, StreamTypes
  <2>3. \A f \in Ends : Bytes(f)' = Bytes(f)
    BY <2>1 DEF Bytes
  <2>4. Len(Bytes(e)) \in Nat /\ \A i \in 1..Len(Bytes(e)) : Bytes(e)[i][1] # NoCall
    BY <2>1, Invs, BytesType, PieceParts, Sizes, LenProperties
  <2>5. Len(Bytes(e)) > 0 => Bytes(e)[Len(Bytes(e))][1] # NoCall
    BY <2>4
  <2>6. ~(left[c] \in 1..(Size(c) - 1))
    BY <2>1
  <2>7. LastOf(e)'
    BY <2>1, <2>2, <2>3, <2>5, <2>6 DEF LastOf
  <2>8. ASSUME NEW f \in Ends, f # e PROVE LastOf(f)'
    BY <1>1, <2>1, <2>2, <2>3, <2>8
  <2> QED
    BY <2>7, <2>8 DEF LastInv
<1>5. ASSUME NEW c \in Calls, SendDone(c) \/ SendFails(c) PROVE LastInv'
  <2> DEFINE e == From(c)
  <2>1. /\ e \in Ends /\ mu[e] = c /\ mu' = [mu EXCEPT ![e] = NoCall]
        /\ UNCHANGED <<left, wire, part>> /\ LastOf(e)
    BY <1>5, Invs, Sizes DEF SendDone, SendFails, readVars, streamVars, WriterInv, LastInv
  <2>2. mu'[e] = NoCall /\ \A f \in Ends \ {e} : mu'[f] = mu[f] /\ werr'[f] = werr[f]
    BY <1>5, <2>1, Invs, StreamTypes DEF SendDone, SendFails
  <2>3. \A f \in Ends : Bytes(f)' = Bytes(f)
    BY <2>1 DEF Bytes
  <2>4. Len(Bytes(e)) \in Nat /\ \A i \in 1..Len(Bytes(e)) : Bytes(e)[i] \in Pieces
    BY <2>1, Invs, BytesType, LenProperties
  <2>5. ~werr'[e] => ~werr[e] /\ left[c] = 0
    BY <1>5, <2>1, Invs, StreamTypes DEF SendDone, SendFails
  <2>6. Len(Bytes(e)) > 0 /\ ~werr'[e] => EndsFrame(Bytes(e)[Len(Bytes(e))])
    <3> DEFINE x == Bytes(e)[Len(Bytes(e))]
    <3> SUFFICES ASSUME Len(Bytes(e)) > 0, ~werr'[e], ~EndsFrame(x) PROVE FALSE
      OBVIOUS
    <3>1. c = x[1] /\ left[c] = Size(c) - x[2]
      BY <2>1, <2>5 DEF LastOf
    <3>2. x \in Pieces
      BY <2>4
    <3>3. x[2] = Size(x[1])
      <4>1. x[2] \in 1..Size(c) /\ Size(c) \in Nat
        BY <3>1, <3>2, PieceParts, Sizes
      <4> HIDE DEF x
      <4> QED
        BY <2>5, <3>1, <4>1
    <3> QED
      BY <3>2, <3>3, PieceParts
  <2>7. LastOf(e)'
    BY <2>1, <2>2, <2>3, <2>6 DEF LastOf
  <2>8. ASSUME NEW f \in Ends, f # e PROVE LastOf(f)'
    BY <1>1, <2>1, <2>2, <2>3, <2>8
  <2> QED
    BY <2>7, <2>8 DEF LastInv
<1>6. ASSUME NEW f \in Ends, Read(f) PROVE LastInv'
  <2>1. (\A x \in Ends : Bytes(x)' = Bytes(x)) /\ UNCHANGED <<left, mu, werr>>
    BY <1>6, Invs, ReadBytes DEF Read, sendVars
  <2> QED
    BY <1>1, <2>1 DEF LastInv
<1>7. ASSUME UNCHANGED <<left, mu, werr, wire, part>> PROVE LastInv'
  BY <1>7, Invs DEF LastInv, LastOf, Bytes
<1>8. \/ \E c \in Calls : Push(c) \/ Lock(c) \/ SendDone(c) \/ SendFails(c)
      \/ \E f \in Ends : Deliver(f) \/ Read(f)
      \/ UNCHANGED <<left, mu, werr, wire, part>>
  BY DEF Next, SendStep, Send, ReportWrite, ReadStep, ReadFails, ReportRead, Close, Break,
         vars, sendVars, readVars, streamVars
<1> QED
  BY <1>2, <1>3, <1>4, <1>5, <1>6, <1>7, <1>8

LEMMA PartBytes ==
  ASSUME StreamInv, NEW f \in Ends, Deliver(f)
  PROVE  LET e == Other(f)
             p == part[f]
             m == Len(p)
             n == Len(Bytes(e))
         IN  /\ e \in Ends /\ Other(e) = f /\ Reads(e) /\ n \in Nat /\ m \in 1..n
             /\ EndsFrame(Bytes(e)[m]) /\ Bytes(e)[m][1] = p[1][1]
             /\ Bytes(e)' \in Seq(Pieces) /\ Len(Bytes(e)') = n - m
             /\ \A i \in 1..(n - m) : Bytes(e)'[i] = Bytes(e)[i + m]
             /\ \A x \in Ends \ {e} : Bytes(x)' = Bytes(x)
             /\ part'[f] = <<>> /\ \A x \in Ends \ {f} : part'[x] = part[x]
<1> DEFINE e == Other(f)
           p == part[f]
           w == wire[e]
           b == Bytes(e)
           m == Len(p)
<1>1. /\ e \in Ends /\ Other(e) = f /\ e # f /\ reader[f] = "give"
      /\ \A x \in Ends : x = e \/ x = f
      /\ part' = [part EXCEPT ![f] = <<>>] /\ UNCHANGED wire
  BY Others DEF Deliver, streamVars
<1>2. /\ part'[f] = <<>> /\ \A x \in Ends \ {f} : part'[x] = part[x]
      /\ w \in Seq(Pieces)
  BY <1>1, Invs, StreamTypes
<1>3. Bytes(e)' = w
  <2>1. <<>> \o w = w
    BY <1>2, ConcatEmptySeq
  <2> QED
    BY <1>1, <1>2, <2>1 DEF Bytes
<1>4. /\ m \in Nat /\ Len(w) \in Nat /\ Len(b) = m + Len(w)
      /\ \A i \in 1..Len(b) : b[i] = IF i <= m THEN p[i] ELSE w[i - m]
  BY <1>1, Invs, BytesType
<1>5. m > 0 /\ EndsFrame(p[m]) /\ \A i \in 1..m : p[i][1] = p[1][1]
  BY <1>1, Invs DEF PartInv, Reads
<1>6. Reads(e)
  BY <1>1 DEF Reads
<1>7. Bytes(f)' = Bytes(f)
  BY <1>1, <1>2 DEF Bytes
<1>8. \A x \in Ends \ {e} : Bytes(x)' = Bytes(x)
  BY <1>1, <1>7
<1> HIDE DEF p, w, b, m
<1>9. m \in 1..Len(b) /\ b[m] = p[m] /\ p[m][1] = p[1][1] /\ Len(w) = Len(b) - m
  BY <1>4, <1>5
<1>10. \A i \in 1..Len(w) : w[i] = b[i + m]
  <2> SUFFICES ASSUME NEW i \in 1..Len(w) PROVE w[i] = b[i + m]
    OBVIOUS
  <2>1. i + m \in 1..Len(b) /\ ~(i + m <= m) /\ (i + m) - m = i
    BY <1>4
  <2> QED
    BY <1>4, <2>1
<1>11. Len(b) \in Nat
  BY <1>4
<1> QED
  BY <1>1, <1>2, <1>3, <1>5, <1>6, <1>8, <1>9, <1>10, <1>11 DEF p, w, b, m

\* What the event loop gets is the message that was flushed next.
LEMMA DeliverNext ==
  ASSUME StreamInv, NEW f \in Ends, Deliver(f)
  PROVE  LET e == Other(f)
             d == Len(delivered[e])
         IN  /\ d \in Nat /\ d + 1 \in 1..Len(flushed[e]) /\ Len(flushed[e]) \in Nat
             /\ delivered' = [delivered EXCEPT ![e] = Append(delivered[e], flushed[e][d + 1])]
             /\ delivered'[e] = Append(delivered[e], flushed[e][d + 1])
             /\ Len(delivered'[e]) = d + 1 /\ delivered'[e][d + 1] = flushed[e][d + 1]
             /\ \A k \in 1..d : delivered'[e][k] = delivered[e][k]
             /\ \A x \in Ends \ {e} : delivered'[x] = delivered[x]
<1> DEFINE e == Other(f)
           d == Len(delivered[e])
           c == flushed[e][d + 1]
           m == Len(part[f])
<1>1. /\ e \in Ends /\ Other(e) = f /\ Reads(e) /\ m \in 1..Len(Bytes(e))
      /\ EndsFrame(Bytes(e)[m]) /\ Bytes(e)[m][1] = part[f][1][1]
  BY PartBytes
<1>2. /\ delivered \in [Ends -> Seq(Calls)] /\ delivered[e] \in Seq(Calls) /\ d \in Nat
      /\ flushed[e] \in Seq(Calls) /\ Len(flushed[e]) \in Nat /\ m \in Nat
  BY <1>1, Invs, StreamTypes, LenProperties
<1>3. PICK g \in [1..Len(Bytes(e)) -> 1..(Len(flushed[e]) + 1)] : Numbered(e, g)
  BY <1>1, Invs DEF OrderInv, OrderOf
<1>4. g[m] = d + 1
  BY SMTT(30), <1>1, <1>2, <1>3 DEF Numbered, Numbering
<1>5. g[m] <= Len(flushed[e]) /\ flushed[e][g[m]] = Bytes(e)[m][1]
  BY <1>1, <1>3 DEF Numbered, Numbering
<1>6. c = part[f][1][1] /\ d + 1 <= Len(flushed[e])
  BY <1>1, <1>4, <1>5
<1>7. d + 1 \in 1..Len(flushed[e])
  BY <1>2, <1>6
<1>8. c \in Calls
  BY <1>2, <1>7, ElementOfSeq
<1>9. delivered' = [delivered EXCEPT ![e] = Append(delivered[e], c)]
  BY <1>6 DEF Deliver
<1>10. /\ delivered'[e] = Append(delivered[e], c)
       /\ \A x \in Ends \ {e} : delivered'[x] = delivered[x]
  BY <1>1, <1>2, <1>9
<1> HIDE DEF c, d, e
<1>11. /\ Len(Append(delivered[e], c)) = d + 1 /\ Append(delivered[e], c)[d + 1] = c
       /\ \A k \in 1..d : Append(delivered[e], c)[k] = delivered[e][k]
  BY <1>2, <1>8, AppendProperties DEF d
<1> QED
  BY <1>2, <1>7, <1>9, <1>10, <1>11 DEF c, d, e

\* What Push does to the messages that were flushed.
LEMMA PushFlushed ==
  ASSUME StreamInv, NEW c \in Calls, Push(c)
  PROVE  LET e == From(c)
             f == flushed[e]
         IN  /\ e \in Ends /\ Len(f) \in Nat
             /\ \A x \in Ends \ {e} : flushed'[x] = flushed[x]
             /\ \A k \in 1..Len(f) : flushed'[e][k] = f[k]
             /\ Len(flushed'[e]) = IF left[c] = 1 THEN Len(f) + 1 ELSE Len(f)
             /\ left[c] = 1 => flushed'[e][Len(f) + 1] = c /\ flushed'[e] = Append(f, c)
             /\ left[c] # 1 => flushed'[e] = f
<1> DEFINE e == From(c)
           f == flushed[e]
<1>1. e \in Ends /\ f \in Seq(Calls) /\ Len(f) \in Nat /\ flushed \in [Ends -> Seq(Calls)]
  BY Invs, StreamTypes, Sizes, LenProperties
<1>2. flushed' = [flushed EXCEPT ![e] = IF left[c] = 1 THEN Append(f, c) ELSE f]
  BY DEF Push
<1>3. /\ flushed'[e] = IF left[c] = 1 THEN Append(f, c) ELSE f
      /\ \A x \in Ends \ {e} : flushed'[x] = flushed[x]
  BY <1>1, <1>2
<1> HIDE DEF f, e
<1>4. /\ Len(Append(f, c)) = Len(f) + 1 /\ Append(f, c)[Len(f) + 1] = c
      /\ \A k \in 1..Len(f) : Append(f, c)[k] = f[k]
  BY <1>1, AppendProperties
<1>5. CASE left[c] = 1
  BY <1>1, <1>3, <1>4, <1>5 DEF f, e
<1>6. CASE left[c] # 1
  BY <1>1, <1>3, <1>6 DEF f, e
<1> QED
  BY <1>5, <1>6

LEMMA DeliveredStep ==
  ASSUME StreamInv, [Next]_vars
  PROVE  DeliveredInv'
<1>1. ASSUME NEW c \in Calls, Push(c) PROVE DeliveredInv'
  <2>1. UNCHANGED delivered
    BY <1>1 DEF Push, readVars
  <2>2. \A e \in Ends : Len(delivered[e]) \in Nat /\ Len(flushed[e]) \in Nat
    BY Invs, StreamTypes, LenProperties
  <2>3. \A e \in Ends : /\ Len(flushed[e]) <= Len(flushed'[e]) /\ Len(flushed'[e]) \in Nat
                        /\ \A k \in 1..Len(flushed[e]) : flushed'[e][k] = flushed[e][k]
    <3> SUFFICES ASSUME NEW e \in Ends
                 PROVE  /\ Len(flushed[e]) <= Len(flushed'[e]) /\ Len(flushed'[e]) \in Nat
                        /\ \A k \in 1..Len(flushed[e]) : flushed'[e][k] = flushed[e][k]
      OBVIOUS
    <3>1. CASE e # From(c)
      BY <1>1, <2>2, <3>1, PushFlushed
    <3>2. CASE e = From(c)
      <4>1. /\ \A k \in 1..Len(flushed[e]) : flushed'[e][k] = flushed[e][k]
            /\ Len(flushed'[e]) = IF left[c] = 1 THEN Len(flushed[e]) + 1 ELSE Len(flushed[e])
        BY <1>1, <3>2, PushFlushed
      <4> QED
        BY <2>2, <4>1
    <3> QED
      BY <3>1, <3>2
  <2>4. ASSUME NEW e \in Ends
        PROVE  /\ Len(delivered[e]) <= Len(flushed'[e])
               /\ \A k \in 1..Len(delivered[e]) : delivered[e][k] = flushed'[e][k]
    BY <2>2, <2>3, Invs DEF DeliveredInv
  <2> QED
    BY <2>1, <2>4 DEF DeliveredInv
<1>2. ASSUME NEW f \in Ends, Deliver(f) PROVE DeliveredInv'
  <2> DEFINE e == Other(f)
             d == Len(delivered[e])
  <2>1. UNCHANGED flushed /\ e \in Ends
    BY <1>2, Others DEF Deliver, streamVars
  <2>2. /\ d \in Nat /\ d + 1 \in 1..Len(flushed[e]) /\ Len(flushed[e]) \in Nat
        /\ Len(delivered'[e]) = d + 1 /\ delivered'[e][d + 1] = flushed[e][d + 1]
        /\ \A k \in 1..d : delivered'[e][k] = delivered[e][k]
        /\ \A x \in Ends \ {e} : delivered'[x] = delivered[x]
    BY <1>2, DeliverNext
  <2>3. \A k \in 1..d : delivered[e][k] = flushed[e][k]
    BY <2>1, Invs DEF DeliveredInv
  <2> HIDE DEF d, e
  <2>4. \A k \in 1..Len(delivered'[e]) : delivered'[e][k] = flushed[e][k]
    BY <2>2, <2>3
  <2>5. Len(delivered'[e]) <= Len(flushed[e])
    BY <2>2
  <2> QED
    BY <2>1, <2>2, <2>4, <2>5, Invs DEF DeliveredInv
<1>3. ASSUME UNCHANGED <<flushed, delivered>> PROVE DeliveredInv'
  BY <1>3, Invs DEF DeliveredInv
<1>4. \/ \E c \in Calls : Push(c)
      \/ \E f \in Ends : Deliver(f)
      \/ UNCHANGED <<flushed, delivered>>
  BY DEF Next, SendStep, Send, Lock, SendDone, SendFails, ReportWrite, ReadStep, Read,
         ReadFails, ReportRead, Close, Break, vars, readVars, streamVars
<1> QED
  BY <1>1, <1>2, <1>3, <1>4

LEMMA OrderStep ==
  ASSUME StreamInv, [Next]_vars
  PROVE  OrderInv'
<1>1. ASSUME NEW e \in Ends, Bytes(e)' = Bytes(e), OrderOf(e),
             UNCHANGED <<flushed[e], delivered[e], part[Other(e)]>>
      PROVE  OrderOf(e)'
  <2>1. PICK g \in [1..Len(Bytes(e)) -> 1..(Len(flushed[e]) + 1)] : Numbered(e, g)
    BY <1>1 DEF OrderOf
  <2>2. Numbered(e, g)'
    BY <1>1, <2>1 DEF Numbered
  <2> QED
    BY <1>1, <2>1, <2>2 DEF OrderOf
<1>2. ASSUME NEW c \in Calls, Push(c) PROVE OrderInv'
  <2> DEFINE e == From(c)
  <2>1. /\ e \in Ends /\ UNCHANGED <<reader, delivered, part>> /\ left[c] > 0 /\ left[c] \in Nat
    BY <1>2, Invs, StreamTypes, Sizes DEF Push, readVars
  <2>2. ASSUME Reads(e) PROVE OrderOf(e)'
    <3> DEFINE b == Bytes(e)
               n == Len(b)
               f == flushed[e]
               d == Len(delivered[e])
               x == Next_(c)
               q == Len(part[Other(e)])
    <3>1. /\ n \in Nat /\ Len(b') = n + 1 /\ b'[n + 1] = x
          /\ \A i \in 1..n : b'[i] = b[i]
      BY <1>2, Invs, PushBytes
    <3>2. /\ Len(f) \in Nat /\ \A k \in 1..Len(f) : f'[k] = f[k]
          /\ Len(f') = IF left[c] = 1 THEN Len(f) + 1 ELSE Len(f)
          /\ left[c] = 1 => f'[Len(f) + 1] = c
      BY <1>2, PushFlushed
    <3>3. x[1] = c /\ (EndsFrame(x) <=> left[c] = 1)
      BY <1>2, <2>1, Invs, NextPiece
    <3>4. d \in Nat /\ d <= Len(f) /\ UNCHANGED d /\ UNCHANGED q
      BY <2>1, Invs, StreamTypes, LenProperties DEF DeliveredInv
    <3>5. q \in Nat /\ q <= n
      <4>1. q \in Nat /\ Len(wire[e]) \in Nat /\ n = q + Len(wire[e])
        BY <2>1, Invs, BytesType
      <4> HIDE DEF q, n
      <4> QED
        BY <4>1
    <3>6. PICK g \in [1..n -> 1..(Len(f) + 1)] : Numbered(e, g)
      BY <2>1, <2>2, Invs DEF OrderInv, OrderOf
    <3>7. /\ \A i \in 1..n : g[i] > d /\ g[i] \in 1..(Len(f) + 1)
          /\ \A i \in 1..(n - 1) : g[i + 1] = IF EndsFrame(b[i]) THEN g[i] + 1 ELSE g[i]
          /\ n > 0 => g[1] = d + 1
          /\ n > 0 => Len(f) = IF EndsFrame(b[n]) THEN g[n] ELSE g[n] - 1
          /\ \A i \in 1..q : g[i] = d + 1
          /\ \A i \in 1..n : EndsFrame(b[i]) => g[i] <= Len(f) /\ f[g[i]] = b[i][1]
          /\ \A k \in (d + 1)..Len(f) : \E i \in 1..n : g[i] = k /\ EndsFrame(b[i])
          /\ \A i, j \in 1..n : i < j => g[i] <= g[j] /\ (EndsFrame(b[i]) => g[i] < g[j])
      BY <3>6 DEF Numbered, Numbering
    <3>h. PICK h : h = [i \in 1..(n + 1) |-> IF i <= n THEN g[i] ELSE Len(f) + 1]
      OBVIOUS
    <3> HIDE DEF b, n, f, d, q, x
    <3>8. h[n + 1] = Len(f) + 1 /\ \A i \in 1..n : h[i] = g[i]
      BY <3>1, <3>h
    <3>9. h \in [1..(n + 1) -> 1..(Len(f') + 1)]
      <4>1. ASSUME NEW i \in 1..(n + 1)
            PROVE  (IF i <= n THEN g[i] ELSE Len(f) + 1) \in 1..(Len(f') + 1)
        <5>1. Len(f') = Len(f) \/ Len(f') = Len(f) + 1
          BY <3>2
        <5>2. CASE i <= n
          <6>1. g[i] \in 1..(Len(f) + 1)
            BY <3>1, <3>7, <5>2
          <6> QED
            BY <3>2, <5>1, <5>2, <6>1
        <5>3. CASE ~(i <= n)
          BY <3>2, <5>1, <5>3
        <5> QED
          BY <5>2, <5>3
      <4> QED
        BY <3>h, <4>1
    <3>10. \A i \in 1..(n + 1) : h[i] > d
      BY <3>1, <3>2, <3>4, <3>7, <3>8
    <3>11. n > 0 => h[n + 1] = IF EndsFrame(b[n]) THEN g[n] + 1 ELSE g[n]
      BY <3>1, <3>2, <3>7, <3>8
    <3>12. \A i \in 1..n : h[i + 1] = IF EndsFrame(b'[i]) THEN h[i] + 1 ELSE h[i]
      <4> SUFFICES ASSUME NEW i \in 1..n
                   PROVE  h[i + 1] = IF EndsFrame(b[i]) THEN h[i] + 1 ELSE h[i]
        BY <3>1
      <4>1. CASE i = n
        BY <3>1, <3>8, <3>11, <4>1
      <4>2. CASE i # n
        <5>1. i \in 1..(n - 1) /\ i + 1 \in 1..n
          BY <3>1, <4>2
        <5>2. h[i + 1] = g[i + 1] /\ h[i] = g[i]
          BY <3>8, <5>1
        <5> QED
          BY <3>7, <5>1, <5>2
      <4> QED
        BY <4>1, <4>2
    <3>13. h[1] = d + 1
      <4>1. CASE n = 0
        <5>1. ~(Len(f) \in (d + 1)..Len(f))
          BY <3>7, <4>1
        <5>2. Len(f) = d
          BY <3>2, <3>4, <5>1
        <5> QED
          BY <3>8, <4>1, <5>2
      <4>2. CASE n > 0
        BY <3>1, <3>7, <3>8, <4>2
      <4> QED
        BY <3>1, <4>1, <4>2
    <3>14. Len(f') = IF EndsFrame(x) THEN h[n + 1] ELSE h[n + 1] - 1
      BY <3>2, <3>3, <3>8
    <3>15. \A i \in 1..q : h[i] = d + 1
      BY <3>1, <3>5, <3>7, <3>8
    <3>16. \A i \in 1..(n + 1) :
             EndsFrame(b'[i]) => h[i] <= Len(f') /\ f'[h[i]] = b'[i][1]
      <4> SUFFICES ASSUME NEW i \in 1..(n + 1), EndsFrame(b'[i])
                   PROVE  h[i] <= Len(f') /\ f'[h[i]] = b'[i][1]
        OBVIOUS
      <4>1. CASE i = n + 1
        BY <3>1, <3>2, <3>3, <3>8, <4>1
      <4>2. CASE i # n + 1
        <5>1. i \in 1..n
          BY <3>1, <4>2
        <5>2. EndsFrame(b[i]) /\ h[i] = g[i] /\ b'[i] = b[i]
          BY <3>1, <3>8, <5>1
        <5>3. g[i] \in 1..Len(f) /\ f[g[i]] = b[i][1]
          BY <3>2, <3>7, <5>1, <5>2
        <5> QED
          BY <3>2, <5>2, <5>3
      <4> QED
        BY <4>1, <4>2
    <3>17. \A k \in (d + 1)..Len(f') : \E i \in 1..(n + 1) : h[i] = k /\ EndsFrame(b'[i])
      <4> SUFFICES ASSUME NEW k \in (d + 1)..Len(f')
                   PROVE  \E i \in 1..(n + 1) : h[i] = k /\ EndsFrame(b'[i])
        OBVIOUS
      <4>1. CASE k \in (d + 1)..Len(f)
        <5>1. PICK i \in 1..n : g[i] = k /\ EndsFrame(b[i])
          BY <3>7, <4>1
        <5>2. i \in 1..(n + 1) /\ h[i] = k /\ EndsFrame(b'[i])
          BY <3>1, <3>8, <5>1
        <5> QED
          BY <5>2
      <4>2. CASE ~(k \in (d + 1)..Len(f))
        <5>1. k = Len(f) + 1 /\ left[c] = 1
          BY <3>2, <3>4, <4>2
        <5>2. n + 1 \in 1..(n + 1) /\ h[n + 1] = k /\ EndsFrame(b'[n + 1])
          BY <3>1, <3>3, <3>8, <5>1
        <5> QED
          BY <5>2
      <4> QED
        BY <4>1, <4>2
    <3>18. \A i, j \in 1..(n + 1) :
             i < j => h[i] <= h[j] /\ (EndsFrame(b'[i]) => h[i] < h[j])
      <4> SUFFICES ASSUME NEW i \in 1..(n + 1), NEW j \in 1..(n + 1), i < j
                   PROVE  h[i] <= h[j] /\ (EndsFrame(b'[i]) => h[i] < h[j])
        OBVIOUS
      <4>1. i \in 1..n /\ h[i] = g[i] /\ b'[i] = b[i] /\ g[i] \in 1..(Len(f) + 1)
        BY <3>1, <3>7, <3>8
      <4>2. CASE j = n + 1
        <5>1. h[j] = Len(f) + 1
          BY <3>8, <4>2
        <5>2. EndsFrame(b[i]) => g[i] <= Len(f)
          BY <3>7, <4>1
        <5> QED
          BY <3>2, <4>1, <5>1, <5>2
      <4>3. CASE j # n + 1
        <5>1. j \in 1..n /\ h[j] = g[j]
          BY <3>1, <3>8, <4>3
        <5> QED
          BY <3>7, <4>1, <5>1
      <4> QED
        BY <4>2, <4>3
    <3>19. (n + 1) - 1 = n /\ n + 1 > 0
      BY <3>1
    <3>20. /\ b' = Bytes(e)' /\ f' = flushed'[e] /\ d = Len(delivered'[e])
           /\ q = Len(part'[Other(e)])
      BY <3>4 DEF b, f, d, q
    <3>21. Numbered(e, h)'
      <4>1. Len(Bytes(e)') = n + 1 /\ (n > 0 => TRUE)
        BY <3>1, <3>20
      <4> QED
        BY <3>1, <3>10, <3>12, <3>13, <3>14, <3>15, <3>16, <3>17, <3>18, <3>19, <3>20, <4>1
           DEF Numbered, Numbering
    <3> QED
      BY <3>1, <3>9, <3>20, <3>21 DEF OrderOf
  <2>3. ASSUME NEW x \in Ends, x # e, Reads(x) PROVE OrderOf(x)'
    <3>1. Bytes(x)' = Bytes(x) /\ flushed'[x] = flushed[x]
      BY <1>2, <2>3, Invs, PushBytes, PushFlushed
    <3> QED
      BY <1>1, <2>1, <2>3, <3>1, Invs DEF OrderInv
  <2> QED
    BY <2>1, <2>2, <2>3 DEF OrderInv, Reads
<1>3. ASSUME NEW f \in Ends, Read(f) PROVE OrderInv'
  <2> DEFINE e == Other(f)
             b == Bytes(e)
             n == Len(b)
             q == Len(part[f])
             d == Len(delivered[e])
  <2>1. /\ e \in Ends /\ Other(e) = f /\ \A x \in Ends : x = e \/ x = f
        /\ reader[f] = "read" /\ UNCHANGED <<flushed, delivered>> /\ Reads(e)
        /\ reader'[e] = reader[e] /\ n \in Nat /\ q \in Nat /\ b \in Seq(Pieces)
    BY <1>3, Others, Invs, StreamTypes, BytesType, LenProperties DEF Read, Reads
  <2>2. /\ \A x \in Ends : Bytes(x)' = Bytes(x)
        /\ \A x \in Ends \ {f} : part'[x] = part[x]
        /\ Len(part'[f]) = q + 1 /\ q + 1 <= n
    BY <1>3, <2>1, Invs, ReadBytes
  <2>3. PICK g \in [1..n -> 1..(Len(flushed[e]) + 1)] : Numbered(e, g)
    BY <2>1, Invs DEF OrderInv, OrderOf
  <2>4. \A i \in 1..q : b[i] = part[f][i] /\ ~EndsFrame(part[f][i])
    <3>1. /\ \A i \in 1..n : b[i] = IF i <= q THEN part[f][i] ELSE wire[e][i - q]
          /\ \A i \in 1..q : ~EndsFrame(part[f][i])
      BY ZenonT(30), <2>1, Invs, BytesType DEF PartInv, Reads
    <3> HIDE DEF b, n, q
    <3> QED
      BY <2>1, <2>2, <3>1
  <2>5. /\ \A i \in 1..(n - 1) : g[i + 1] = IF EndsFrame(b[i]) THEN g[i] + 1 ELSE g[i]
        /\ n > 0 => g[1] = d + 1
        /\ \A i \in 1..q : g[i] = d + 1
    BY <2>1, <2>3 DEF Numbered, Numbering
  <2>6. \A i \in 1..(q + 1) : g[i] = d + 1
    <3> HIDE DEF b, n, q, d
    <3>1. g[q + 1] = d + 1
      <4>1. CASE q = 0
        BY <2>1, <2>2, <2>5, <4>1
      <4>2. CASE q > 0
        <5>1. q \in 1..(n - 1) /\ q \in 1..q
          BY <2>1, <2>2, <4>2
        <5> QED
          BY <2>4, <2>5, <5>1
      <4> QED
        BY <2>1, <4>1, <4>2
    <3>2. \A i \in 1..(q + 1) : i \in 1..q \/ i = q + 1
      BY <2>1
    <3> QED
      BY <2>5, <3>1, <3>2
  <2>7. Numbered(e, g)'
    BY <2>1, <2>2, <2>3, <2>6 DEF Numbered, Numbering
  <2>8. OrderOf(e)'
    BY <2>1, <2>2, <2>3, <2>7 DEF OrderOf
  <2>9. Reads(f)' => Reads(f)
    BY <2>1 DEF Reads
  <2>10. Reads(f) => OrderOf(f)'
    <3>1. f \in Ends \ {e} /\ Other(f) = e /\ part'[e] = part[e] /\ Bytes(f)' = Bytes(f)
      BY <2>1, <2>2, Others
    <3> QED
      BY <1>1, <2>1, <3>1, Invs DEF OrderInv
  <2> QED
    BY <2>1, <2>8, <2>9, <2>10 DEF OrderInv
<1>4. ASSUME NEW f \in Ends, Deliver(f) PROVE OrderInv'
  <2> DEFINE e == Other(f)
             b == Bytes(e)
             n == Len(b)
             m == Len(part[f])
             d == Len(delivered[e])
             s == flushed[e]
  <2>1. /\ e \in Ends /\ Other(e) = f /\ \A x \in Ends : x = e \/ x = f
        /\ UNCHANGED flushed /\ reader' = [reader EXCEPT ![f] = "read"]
    BY <1>4, Others DEF Deliver, streamVars
  <2>2. /\ Reads(e) /\ n \in Nat /\ m \in 1..n /\ EndsFrame(b[m])
        /\ Len(b') = n - m /\ \A i \in 1..(n - m) : b'[i] = b[i + m]
        /\ Bytes(f)' = Bytes(f) /\ part'[f] = <<>> /\ part'[e] = part[e]
    BY <1>4, <2>1, PartBytes, Others
  <2>3. /\ d \in Nat /\ Len(delivered'[e]) = d + 1 /\ Len(s) \in Nat
        /\ delivered'[f] = delivered[f]
    BY <1>4, <2>1, DeliverNext, Others
  <2>4. PICK g \in [1..n -> 1..(Len(s) + 1)] : Numbered(e, g)
    BY <2>1, <2>2, Invs DEF OrderInv, OrderOf
  <2>5. /\ \A i \in 1..n : g[i] > d /\ g[i] \in 1..(Len(s) + 1)
        /\ \A i \in 1..(n - 1) : g[i + 1] = IF EndsFrame(b[i]) THEN g[i] + 1 ELSE g[i]
        /\ n > 0 => Len(s) = IF EndsFrame(b[n]) THEN g[n] ELSE g[n] - 1
        /\ \A i \in 1..m : g[i] = d + 1
        /\ \A i \in 1..n : EndsFrame(b[i]) => g[i] <= Len(s) /\ s[g[i]] = b[i][1]
        /\ \A k \in (d + 1)..Len(s) : \E i \in 1..n : g[i] = k /\ EndsFrame(b[i])
        /\ \A i, j \in 1..n : i < j => g[i] <= g[j] /\ (EndsFrame(b[i]) => g[i] < g[j])
    BY <2>1, <2>4 DEF Numbered, Numbering
  <2>h. PICK h : h = [i \in 1..(n - m) |-> g[i + m]]
    OBVIOUS
  <2>6. Numbered(e, h)' /\ h \in [1..(n - m) -> 1..(Len(s) + 1)]
    <3> HIDE DEF b, n, m, d, s
    <3>1. \A i \in 1..(n - m) : i + m \in 1..n /\ h[i] = g[i + m] /\ i + m > m
      BY <2>2, <2>h
    <3>2. h \in [1..(n - m) -> 1..(Len(s) + 1)]
      <4>1. \A i \in 1..(n - m) : g[i + m] \in 1..(Len(s) + 1)
        BY <2>5, <3>1
      <4> QED
        BY <2>h, <4>1
    <3>3. \A i \in 1..(n - m) : h[i] > d + 1
      <4> SUFFICES ASSUME NEW i \in 1..(n - m) PROVE h[i] > d + 1
        OBVIOUS
      <4>1. m < i + m /\ m \in 1..n /\ i + m \in 1..n /\ m \in 1..m
        <5>1. n \in Nat /\ m \in 1..n
          BY <2>2
        <5>2. i + m \in 1..n /\ i + m > m
          BY <3>1
        <5> QED
          BY <5>1, <5>2
      <4>2. g[m] < g[i + m] /\ g[m] = d + 1
        BY <2>2, <2>5, <4>1
      <4> QED
        BY <3>1, <4>2
    <3>4. \A i \in 1..((n - m) - 1) : h[i + 1] = IF EndsFrame(b'[i]) THEN h[i] + 1 ELSE h[i]
      <4> SUFFICES ASSUME NEW i \in 1..((n - m) - 1)
                   PROVE  h[i + 1] = IF EndsFrame(b'[i]) THEN h[i] + 1 ELSE h[i]
        OBVIOUS
      <4>1. /\ i + m \in 1..(n - 1) /\ (i + 1) + m = (i + m) + 1
            /\ i \in 1..(n - m) /\ i + 1 \in 1..(n - m)
        BY <2>2
      <4>2. h[i] = g[i + m] /\ h[i + 1] = g[(i + m) + 1] /\ b'[i] = b[i + m]
        BY <2>2, <3>1, <4>1
      <4> QED
        BY <2>5, <4>1, <4>2
    <3>5. n - m > 0 => h[1] = (d + 1) + 1
      <4> SUFFICES ASSUME n - m > 0 PROVE h[1] = (d + 1) + 1
        OBVIOUS
      <4>1. m \in 1..(n - 1) /\ 1 \in 1..(n - m) /\ 1 + m = m + 1 /\ m \in 1..m
        BY <2>2
      <4>2. h[1] = g[m + 1] /\ g[m + 1] = g[m] + 1 /\ g[m] = d + 1
        BY <2>2, <2>5, <3>1, <4>1
      <4> QED
        BY <4>2
    <3>6. n - m > 0 => Len(s) = IF EndsFrame(b'[n - m]) THEN h[n - m] ELSE h[n - m] - 1
      <4> SUFFICES ASSUME n - m > 0
                   PROVE  Len(s) = IF EndsFrame(b'[n - m]) THEN h[n - m] ELSE h[n - m] - 1
        OBVIOUS
      <4>1. n - m \in 1..(n - m) /\ (n - m) + m = n /\ n > 0
        BY <2>2
      <4>2. h[n - m] = g[n] /\ b'[n - m] = b[n]
        BY <2>2, <3>1, <4>1
      <4> QED
        BY <2>5, <4>1, <4>2
    <3>7. \A i \in 1..(n - m) :
            EndsFrame(b'[i]) => h[i] <= Len(s) /\ s[h[i]] = b'[i][1]
      <4> SUFFICES ASSUME NEW i \in 1..(n - m), EndsFrame(b'[i])
                   PROVE  h[i] <= Len(s) /\ s[h[i]] = b'[i][1]
        OBVIOUS
      <4>1. i + m \in 1..n /\ h[i] = g[i + m] /\ b'[i] = b[i + m]
        BY <2>2, <3>1
      <4> QED
        BY <2>5, <4>1
    <3>8. \A k \in ((d + 1) + 1)..Len(s) : \E i \in 1..(n - m) : h[i] = k /\ EndsFrame(b'[i])
      <4> SUFFICES ASSUME NEW k \in ((d + 1) + 1)..Len(s)
                   PROVE  \E i \in 1..(n - m) : h[i] = k /\ EndsFrame(b'[i])
        OBVIOUS
      <4>1. k \in (d + 1)..Len(s) /\ k # d + 1
        BY <2>3
      <4>2. PICK j \in 1..n : g[j] = k /\ EndsFrame(b[j])
        BY <2>5, <4>1
      <4>3. ~(j \in 1..m)
        BY <2>5, <4>1, <4>2
      <4>4. j - m \in 1..(n - m) /\ (j - m) + m = j
        BY <2>2, <4>3
      <4>5. h[j - m] = k /\ EndsFrame(b'[j - m])
        BY <2>2, <3>1, <4>2, <4>4
      <4> QED
        BY <4>4, <4>5
    <3>9. \A i, j \in 1..(n - m) :
            i < j => h[i] <= h[j] /\ (EndsFrame(b'[i]) => h[i] < h[j])
      <4> SUFFICES ASSUME NEW i \in 1..(n - m), NEW j \in 1..(n - m), i < j
                   PROVE  h[i] <= h[j] /\ (EndsFrame(b'[i]) => h[i] < h[j])
        OBVIOUS
      <4>1. i + m \in 1..n /\ j + m \in 1..n /\ i + m < j + m
        BY <2>2
      <4>2. h[i] = g[i + m] /\ h[j] = g[j + m] /\ b'[i] = b[i + m]
        BY <2>2, <3>1
      <4> QED
        BY <2>5, <4>1, <4>2
    <3>10. /\ b' = Bytes(e)' /\ s = flushed'[e] /\ Len(delivered'[e]) = d + 1
           /\ Len(part'[Other(e)]) = 0 /\ Len(Bytes(e)') = n - m
      BY <2>1, <2>2, <2>3 DEF b, s
    <3>11. Numbered(e, h)'
      <4>1. \A i \in 1..Len(part'[Other(e)]) : h[i] = (d + 1) + 1
        BY <3>10
      <4> QED
        BY SMTT(30), <4>1, <3>3, <3>4, <3>5, <3>6, <3>7, <3>8, <3>9, <3>10 DEF Numbered, Numbering
    <3> QED
      BY <3>2, <3>11
  <2>7. OrderOf(e)'
    BY <2>1, <2>2, <2>6 DEF OrderOf
  <2>8. Reads(f) <=> Reads(f)'
    <3>1. Other(f) # f
      BY Others
    <3>2. reader'[Other(f)] = reader[Other(f)]
      BY <2>1, <3>1, Invs, StreamTypes
    <3> QED
      BY <3>2 DEF Reads
  <2>9. Reads(f) => OrderOf(f)'
    BY <1>1, <2>1, <2>2, <2>3, Invs, Others DEF OrderInv
  <2> QED
    BY <2>1, <2>7, <2>8, <2>9 DEF OrderInv
<1>5. ASSUME UNCHANGED <<wire, part, flushed, delivered>>,
             \A x \in Ends : reader'[x] \in {"read", "give"} => reader'[x] = reader[x]
      PROVE  OrderInv'
  <2>1. \A x \in Ends : Reads(x)' => Reads(x)
    BY <1>5, Others DEF Reads
  <2>2. \A x \in Ends : Bytes(x)' = Bytes(x)
    BY <1>5 DEF Bytes
  <2> QED
    BY <1>1, <1>5, <2>1, <2>2, Invs DEF OrderInv
<1>6. ASSUME NEW f \in Ends, ReadFails(f) \/ ReportRead(f) PROVE OrderInv'
  BY <1>5, <1>6, Invs, StreamTypes DEF ReadFails, ReportRead, streamVars
<1>7. ASSUME UNCHANGED <<wire, part, flushed, delivered, reader>> PROVE OrderInv'
  BY <1>5, <1>7
<1>8. \/ \E c \in Calls : Push(c)
      \/ \E f \in Ends : Read(f) \/ Deliver(f) \/ ReadFails(f) \/ ReportRead(f)
      \/ UNCHANGED <<wire, part, flushed, delivered, reader>>
  BY DEF Next, SendStep, Send, Lock, SendDone, SendFails, ReportWrite, ReadStep,
         Close, Break, vars, readVars, streamVars
<1> QED
  BY <1>2, <1>3, <1>4, <1>6, <1>7, <1>8

-----------------------------------------------------------------------------
(* Theorems.                                                                 *)

LEMMA StreamStart == Init => StreamInv
<1> SUFFICES ASSUME Init PROVE StreamInv
  OBVIOUS
<1>1. /\ \A e \in Ends : /\ wire[e] = <<>> /\ part[e] = <<>> /\ flushed[e] = <<>>
                         /\ delivered[e] = <<>> /\ mu[e] = NoCall /\ ~werr[e]
      /\ \A c \in Calls : at[c] = "idle" /\ left[c] = Size(c) /\ Size(c) > 0
  BY Sizes DEF Init
<1>2. \A e \in Ends : Bytes(e) = <<>>
  <2> SUFFICES ASSUME NEW e \in Ends PROVE Bytes(e) = <<>>
    OBVIOUS
  <2>1. <<>> \in Seq(Pieces)
    BY EmptySeq
  <2>2. <<>> \o <<>> = <<>>
    BY <2>1, ConcatEmptySeq
  <2> QED
    BY <1>1, <2>2, Others DEF Bytes
<1>3. Len(<<>>) = 0 /\ \A S : <<>> \in Seq(S)
  BY EmptySeq
<1>4. TypeOK
  <2>1. \A e \in Ends : ~closed[Other(e)] => Len(wire[e]) <= Window
    BY <1>1, <1>3, StreamBounds
  <2>2. left \in [Calls -> Nat] /\ \A c \in Calls : left[c] \in 0..Size(c)
    BY Sizes DEF Init
  <2>3. wire \in [Ends -> Seq(Pieces)] /\ part \in [Ends -> Seq(Pieces)]
    BY <1>3 DEF Init
  <2>4. {flushed, delivered} \subseteq [Ends -> Seq(Calls)]
    BY <1>3 DEF Init
  <2> QED
    BY <2>1, <2>2, <2>3, <2>4 DEF Init, TypeOK
<1>5. WriterInv
  BY <1>1, Sizes DEF WriterInv
<1>6. FlushedInv
  BY <1>1, <1>3, Sizes DEF FlushedInv
<1>7. DeliveredInv
  BY <1>1, <1>3 DEF DeliveredInv
<1>8. LastInv
  BY <1>1, <1>2, <1>3 DEF LastInv, LastOf
<1>9. PartInv
  <2>1. \A e \in Ends : part[Other(e)] = <<>> /\ reader[Other(e)] = "read"
    BY Others DEF Init
  <2> QED
    BY <1>3, <2>1 DEF PartInv
<1>10. OrderInv
  <2> SUFFICES ASSUME NEW e \in Ends PROVE OrderOf(e)
    BY DEF OrderInv
  <2>1. /\ Len(Bytes(e)) = 0 /\ Len(flushed[e]) = 0 /\ Len(delivered[e]) = 0
        /\ Len(part[Other(e)]) = 0
    BY <1>1, <1>2, <1>3, Others
  <2>2. PICK g : g = [i \in 1..0 |-> 1]
    OBVIOUS
  <2>3. g \in [1..Len(Bytes(e)) -> 1..(Len(flushed[e]) + 1)]
    BY <2>1, <2>2
  <2>4. Numbered(e, g)
    BY <2>1 DEF Numbered, Numbering
  <2> QED
    BY <2>3, <2>4 DEF OrderOf
<1> QED
  BY <1>4, <1>5, <1>6, <1>7, <1>8, <1>9, <1>10 DEF StreamInv

LEMMA StreamStep == StreamInv /\ [Next]_vars => StreamInv'
<1> SUFFICES ASSUME StreamInv, [Next]_vars PROVE StreamInv'
  OBVIOUS
<1> QED
  BY TypeStep, WriterStep, FlushedStep, DeliveredStep, LastStep, PartStep, OrderStep
     DEF StreamInv

LEMMA StreamInvariant == Spec => []StreamInv
BY StreamStart, StreamStep, PTL DEF Spec

\* The types, and that no more pieces are on their way to an open end than the
\* stream holds unread, for any number of messages of any size.
THEOREM StreamTypeCorrect == Spec => []TypeOK
<1>1. StreamInv => TypeOK
  BY DEF StreamInv
<1> QED
  BY <1>1, StreamInvariant, PTL

\* peer.mu and the error that bufio keeps: the bytes of two messages never mix.
THEOREM FramesUnmixed == Spec => []FramesWhole
<1>1. StreamInv => FramesWhole
  <2> SUFFICES ASSUME StreamInv, NEW e \in Ends
               PROVE  LET bytes == Bytes(e)
                      IN  /\ \A i \in 1..(Len(bytes) - 1) :
                               \/ EndsFrame(bytes[i]) /\ bytes[i + 1][2] = 1
                               \/ bytes[i + 1] = <<bytes[i][1], bytes[i][2] + 1>>
                          /\ bytes # <<>> /\ ~EndsFrame(Last(bytes)) =>
                               mu[e] = Last(bytes)[1] \/ werr[e]
    BY DEF FramesWhole
  <2>1. LastOf(e)
    BY Invs DEF LastInv
  <2>2. werr[e] \in BOOLEAN /\ Len(Bytes(e)) \in Nat /\ Bytes(e) \in Seq(Pieces)
    BY Invs, StreamTypes, BytesType, LenProperties
  <2>3. Bytes(e) # <<>> => Len(Bytes(e)) > 0
    BY <2>2, EmptySeq
  <2>4. Last(Bytes(e)) = Bytes(e)[Len(Bytes(e))]
    BY DEF Last
  <2> QED
    BY <2>1, <2>2, <2>3, <2>4 DEF LastOf, Adjacent
<1> QED
  BY <1>1, StreamInvariant, PTL

\* SendMsg returns nil after Flush: while the other end reads, the message has
\* been delivered or all of it is on its way.
THEOREM SentIsOnItsWay == Spec => []SentArrives
<1>1. StreamInv => SentArrives
  <2> SUFFICES ASSUME StreamInv, NEW c \in Calls, at[c] = "sent", Reads(From(c))
               PROVE  \/ Contains(delivered[From(c)], c)
                      \/ Contains(Bytes(From(c)), <<c, Size(c)>>)
    BY DEF SentArrives, Reads
  <2> DEFINE e == From(c)
             d == Len(delivered[e])
             n == Len(Bytes(e))
  <2>1. /\ e \in Ends /\ left[c] = 0 /\ d \in Nat /\ Len(flushed[e]) \in Nat
        /\ \A i \in 1..n : Bytes(e)[i] \in Pieces
    BY Invs, Sizes, StreamTypes, BytesType, LenProperties DEF WriterInv
  <2>2. PICK k \in 1..Len(flushed[e]) : flushed[e][k] = c
    BY <2>1, Invs DEF FlushedInv
  <2>3. CASE k \in 1..d
    <3>1. delivered[e][k] = c
      BY <2>1, <2>2, <2>3, Invs DEF DeliveredInv
    <3> QED
      BY <2>3, <3>1 DEF Contains
  <2>4. CASE ~(k \in 1..d)
    <3>1. k \in (d + 1)..Len(flushed[e])
      BY <2>1, <2>2, <2>4
    <3>2. PICK g \in [1..n -> 1..(Len(flushed[e]) + 1)] : Numbered(e, g)
      BY <2>1, Invs DEF OrderInv, OrderOf
    <3>3. PICK i \in 1..n : g[i] = k /\ EndsFrame(Bytes(e)[i])
      BY <3>1, <3>2 DEF Numbered, Numbering
    <3>4. Bytes(e)[i][1] = c
      BY <2>2, <3>2, <3>3 DEF Numbered, Numbering
    <3>5. Bytes(e)[i] = <<c, Size(c)>>
      BY <2>1, <3>3, <3>4, PieceParts
    <3> QED
      BY <3>3, <3>5 DEF Contains
  <2> QED
    BY <2>3, <2>4
<1> QED
  BY <1>1, StreamInvariant, PTL

-----------------------------------------------------------------------------
(* The stream implements the channel.                                        *)

\* Pieces that are numbered have as many delimiters as there are numbers.
LEMMA CountEnds ==
  ASSUME NEW b \in Seq(Pieces), NEW d \in Nat, NEW l \in Nat, d <= l,
         NEW g \in [1..Len(b) -> 1..(l + 1)],
         \A i \in 1..Len(b) : g[i] > d /\ (EndsFrame(b[i]) => g[i] <= l),
         \A k \in (d + 1)..l : \E i \in 1..Len(b) : g[i] = k /\ EndsFrame(b[i]),
         \A i, j \in 1..Len(b) : i < j => g[i] <= g[j] /\ (EndsFrame(b[i]) => g[i] < g[j])
  PROVE  Cardinality({i \in DOMAIN b : EndsFrame(b[i])}) = l - d
<1> DEFINE S == {i \in 1..Len(b) : EndsFrame(b[i])}
           T == (d + 1)..l
           h == [k \in S |-> g[k]]
<1>1. Len(b) \in Nat /\ DOMAIN b = 1..Len(b)
  BY LenProperties
<1>2. h \in [S -> T]
  BY <1>1
<1>3. \A i, j \in S : h[i] = h[j] => i = j
  <2> SUFFICES ASSUME NEW i \in S, NEW j \in S, h[i] = h[j], i # j PROVE FALSE
    OBVIOUS
  <2>1. i < j \/ j < i
    BY <1>1
  <2>2. h[i] = g[i] /\ h[j] = g[j] /\ i \in 1..Len(b) /\ j \in 1..Len(b)
    BY <1>2
  <2>3. g[i] \in Int /\ EndsFrame(b[i]) /\ EndsFrame(b[j])
    OBVIOUS
  <2>4. g[i] < g[j] \/ g[j] < g[i]
    BY <2>1, <2>2, <2>3
  <2> QED
    BY <2>2, <2>3, <2>4
<1>4. \A k \in T : \E i \in S : h[i] = k
  OBVIOUS
<1> HIDE DEF h, S, T
<1>5. h \in Bijection(S, T)
  BY <1>2, <1>3, <1>4, Fun_IsBij
<1>6. ExistsBijection(S, T)
  BY <1>5 DEF ExistsBijection
<1>7. IsFiniteSet(S)
  <2>1. IsFiniteSet(1..Len(b))
    BY <1>1, FS_Interval
  <2>2. S \in SUBSET (1..Len(b))
    BY DEF S
  <2> QED
    BY <2>1, <2>2, FS_Subset
<1>8. Cardinality(T) = Cardinality(S)
  BY <1>6, <1>7, FS_Bijection
<1>9. Cardinality(T) = l - d
  <2>1. d + 1 \in Int /\ l \in Int
    OBVIOUS
  <2>2. Cardinality((d + 1)..l) = IF d + 1 > l THEN 0 ELSE l - (d + 1) + 1
    BY <2>1, FS_Interval
  <2>3. (IF d + 1 > l THEN 0 ELSE l - (d + 1) + 1) = l - d
    OBVIOUS
  <2> QED
    BY <2>2, <2>3 DEF T
<1> QED
  BY <1>1, <1>8, <1>9 DEF S

\* The messages that were flushed and are not delivered.
Waiting(e) ==
  [i \in 1..(Len(flushed[e]) - Len(delivered[e])) |-> flushed[e][Len(delivered[e]) + i]]

InTransit == [e \in Ends |-> IF Reads(e) THEN Waiting(e) ELSE <<>>]
AllRead   == [e \in Ends |-> Reads(e)]

WholeIsWaiting == \A e \in Ends : Reads(e) => Whole(e) = Waiting(e)

LEMMA WaitingWhole == StreamInv => WholeIsWaiting
<1> SUFFICES ASSUME StreamInv, NEW e \in Ends, Reads(e) PROVE Whole(e) = Waiting(e)
  BY DEF WholeIsWaiting
<1> DEFINE b == Bytes(e)
           d == Len(delivered[e])
           l == Len(flushed[e])
<1>1. b \in Seq(Pieces) /\ d \in Nat /\ l \in Nat /\ d <= l
  BY Invs, StreamTypes, BytesType, LenProperties DEF DeliveredInv
<1>2. PICK g \in [1..Len(b) -> 1..(l + 1)] : Numbered(e, g)
  BY Invs DEF OrderInv, OrderOf
<1>3. /\ \A i \in 1..Len(b) : g[i] > d /\ (EndsFrame(b[i]) => g[i] <= l)
      /\ \A k \in (d + 1)..l : \E i \in 1..Len(b) : g[i] = k /\ EndsFrame(b[i])
      /\ \A i, j \in 1..Len(b) : i < j => g[i] <= g[j] /\ (EndsFrame(b[i]) => g[i] < g[j])
  BY <1>2 DEF Numbered, Numbering
<1> HIDE DEF b, d, l
<1>4. Cardinality({i \in DOMAIN b : EndsFrame(b[i])}) = l - d
  BY <1>1, <1>2, <1>3, CountEnds
<1> QED
  BY <1>4 DEF Whole, Waiting, b, d, l

LEMMA ChannelStart == Init => Abstract!Init
<1> SUFFICES ASSUME Init PROVE Abstract!Init
  OBVIOUS
<1>1. StreamInv /\ WholeIsWaiting
  BY StreamStart, WaitingWhole
<1>2. \A e \in Ends : Reads(e) /\ flushed[e] = <<>> /\ delivered[e] = <<>>
  BY Others DEF Init, Reads
<1>3. \A e \in Ends : Whole(e) = <<>>
  <2> SUFFICES ASSUME NEW e \in Ends PROVE Whole(e) = <<>>
    OBVIOUS
  <2>1. Len(flushed[e]) - Len(delivered[e]) = 0
    <3>1. Len(<<>>) = 0
      BY EmptySeq
    <3> QED
      BY <1>2, <3>1
  <2>2. Waiting(e) = [i \in 1..0 |-> flushed[e][Len(delivered[e]) + i]]
    BY <2>1 DEF Waiting
  <2>3. Waiting(e) = <<>>
    BY <2>2
  <2> QED
    BY <1>1, <1>2, <2>3 DEF WholeIsWaiting
<1> QED
  BY <1>2, <1>3 DEF Init, Abstract!Init

\* Waiting is a sequence of messages.
LEMMA WaitingSeq ==
  ASSUME StreamInv, NEW e \in Ends
  PROVE  LET d == Len(delivered[e])
             l == Len(flushed[e])
         IN  /\ d \in Nat /\ l \in Nat /\ d <= l /\ l - d \in Nat
             /\ Waiting(e) \in Seq(Calls) /\ Len(Waiting(e)) = l - d
             /\ \A i \in 1..(l - d) : Waiting(e)[i] = flushed[e][d + i]
<1> DEFINE d == Len(delivered[e])
           l == Len(flushed[e])
<1>1. /\ d \in Nat /\ l \in Nat /\ d <= l
      /\ \A k \in 1..l : flushed[e][k] \in Calls
  BY Invs, StreamTypes, LenProperties, ElementOfSeq DEF DeliveredInv
<1>2. Waiting(e) = [i \in 1..(l - d) |-> flushed[e][d + i]]
  BY DEF Waiting
<1> HIDE DEF d, l
<1>3. l - d \in Nat
  BY <1>1
<1>4. ASSUME NEW i \in 1..(l - d) PROVE flushed[e][d + i] \in Calls
  <2>1. d + i \in 1..l
    BY <1>1
  <2> QED
    BY <1>1, <2>1
<1>5. Waiting(e) \in [1..(l - d) -> Calls]
  BY <1>2, <1>4
<1>6. Waiting(e) \in Seq(Calls)
  BY <1>3, <1>5, SeqDef
<1>7. Len(Waiting(e)) = l - d
  BY <1>3, <1>5, <1>6, LenProperties
<1> QED
  BY <1>1, <1>2, <1>3, <1>6, <1>7 DEF d, l

LEMMA ChannelStep ==
  ASSUME StreamInv, StreamInv', WholeIsWaiting, WholeIsWaiting', [Next]_vars
  PROVE  [Abstract!Next]_(Abstract!cvars)
<1>0. /\ [e \in Ends |-> IF Reads(e) THEN Whole(e) ELSE <<>>] = InTransit
      /\ [e \in Ends |-> IF Reads(e) THEN Whole(e) ELSE <<>>]' = InTransit'
      /\ AllRead = [e \in Ends |-> Reads(e)] /\ AllRead' = [e \in Ends |-> Reads(e)]'
  BY DEF WholeIsWaiting, InTransit, AllRead
<1>1. ASSUME UNCHANGED <<InTransit, delivered, AllRead>> PROVE UNCHANGED Abstract!cvars
  BY <1>0, <1>1 DEF Abstract!cvars
<1>2. ASSUME NEW c \in Calls, Push(c) PROVE Abstract!Put(c) \/ UNCHANGED Abstract!cvars
  <2> DEFINE e == From(c)
  <2>1. /\ e \in Ends /\ UNCHANGED <<reader, delivered>> /\ left[c] > 0
        /\ \A x \in Ends \ {e} : flushed'[x] = flushed[x]
        /\ left[c] = 1 => flushed'[e] = Append(flushed[e], c)
        /\ left[c] # 1 => flushed'[e] = flushed[e]
    BY <1>2, PushFlushed DEF Push, readVars
  <2>2. /\ \A x \in Ends : Reads(x)' = Reads(x)
        /\ \A x \in Ends \ {e} : Waiting(x)' = Waiting(x)
        /\ left[c] # 1 => Waiting(e)' = Waiting(e)
    BY <2>1 DEF Reads, Waiting
  <2>3. UNCHANGED AllRead
    BY <2>2 DEF AllRead
  <2>4. CASE left[c] # 1 \/ ~Reads(e)
    <3>1. UNCHANGED InTransit
      BY <2>1, <2>2, <2>4 DEF InTransit
    <3> QED
      BY <1>1, <2>1, <2>3, <3>1
  <2>5. CASE left[c] = 1 /\ Reads(e)
    <3> DEFINE d == Len(delivered[e])
               l == Len(flushed[e])
               w == Waiting(e)
    <3>1. /\ d \in Nat /\ l \in Nat /\ d <= l /\ l - d \in Nat /\ w \in Seq(Calls)
          /\ Len(w) = l - d /\ \A i \in 1..(l - d) : w[i] = flushed[e][d + i]
      BY <2>1, WaitingSeq
    <3>2. /\ Len(flushed'[e]) = l + 1 /\ flushed'[e][l + 1] = c
          /\ \A k \in 1..l : flushed'[e][k] = flushed[e][k]
      BY <1>2, <2>5, PushFlushed
    <3>3. Waiting(e)' = [i \in 1..((l + 1) - d) |-> flushed'[e][d + i]]
      BY <2>1, <3>2 DEF Waiting
    <3>4. Waiting(e)' = Append(w, c)
      <4> HIDE DEF d, l, w
      <4>1. /\ Append(w, c) \in Seq(Calls) /\ Len(Append(w, c)) = (l + 1) - d
            /\ \A i \in 1..(l - d) : Append(w, c)[i] = w[i]
            /\ Append(w, c)[(l - d) + 1] = c
        <5>1. /\ Append(w, c) \in Seq(Calls) /\ Len(Append(w, c)) = Len(w) + 1
              /\ \A i \in 1..Len(w) : Append(w, c)[i] = w[i]
              /\ Append(w, c)[Len(w) + 1] = c
          BY <3>1, AppendProperties
        <5> QED
          BY <3>1, <5>1
      <4>2. ASSUME NEW i \in 1..((l + 1) - d)
            PROVE  flushed'[e][d + i] = Append(w, c)[i]
        <5>1. CASE i = (l - d) + 1
          <6>1. d + i = l + 1
            BY <3>1, <5>1
          <6> QED
            BY <3>2, <4>1, <5>1, <6>1
        <5>2. CASE i # (l - d) + 1
          <6>1. i \in 1..(l - d) /\ d + i \in 1..l
            BY <3>1, <5>2
          <6> QED
            BY <3>1, <3>2, <4>1, <6>1
        <5> QED
          BY <5>1, <5>2
      <4>3. Append(w, c) = [i \in 1..((l + 1) - d) |-> Append(w, c)[i]]
        BY <4>1, LenProperties
      <4> QED
        BY <3>3, <4>2, <4>3
    <3>5. InTransit' = [InTransit EXCEPT ![e] = Append(@, c)]
      <4>1. /\ Reads(e)' /\ InTransit[e] = w
            /\ \A x \in Ends \ {e} : Reads(x)' = Reads(x) /\ Waiting(x)' = Waiting(x)
        BY <2>1, <2>2, <2>5 DEF InTransit
      <4>2. [InTransit EXCEPT ![e] = Append(@, c)]
              = [x \in Ends |-> IF x = e THEN Append(w, c) ELSE InTransit[x]]
        BY <2>1, <4>1 DEF InTransit
      <4>3. ASSUME NEW x \in Ends
            PROVE  (IF Reads(x)' THEN Waiting(x)' ELSE <<>>)
                     = IF x = e THEN Append(w, c) ELSE InTransit[x]
        <5>1. CASE x = e
          BY <3>4, <4>1, <5>1
        <5>2. CASE x # e
          BY <4>1, <5>2 DEF InTransit
        <5> QED
          BY <5>1, <5>2
      <4> QED
        BY <4>2, <4>3 DEF InTransit
    <3>6. \A k \in 1..l : flushed[e][k] # c
      BY <2>1, <2>5, Invs DEF FlushedInv
    <3>7. \A i \in DOMAIN InTransit[e] : InTransit[e][i] # c
      <4>1. InTransit[e] = w /\ DOMAIN w = 1..(l - d)
        BY <2>1, <2>5, <3>1, LenProperties DEF InTransit
      <4> HIDE DEF d, l, w
      <4>2. \A i \in 1..(l - d) : d + i \in 1..l
        BY <3>1
      <4> QED
        BY <3>1, <3>6, <4>1, <4>2
    <3>8. \A i \in DOMAIN delivered[e] : delivered[e][i] # c
      <4>1. DOMAIN delivered[e] = 1..d
        BY <2>1, Invs, StreamTypes, LenProperties
      <4>2. \A k \in 1..d : delivered[e][k] = flushed[e][k] /\ k \in 1..l
        BY <2>1, <3>1, Invs DEF DeliveredInv
      <4> QED
        BY <3>6, <4>1, <4>2
    <3>9. AllRead[e]
      BY <2>1, <2>5 DEF AllRead
    <3> QED
      BY <1>0, <2>1, <2>3, <3>5, <3>7, <3>8, <3>9 DEF Abstract!Put
  <2> QED
    BY <2>4, <2>5
<1>3. ASSUME NEW f \in Ends, Deliver(f) PROVE Abstract!Get(Other(f))
  <2> DEFINE e == Other(f)
             d == Len(delivered[e])
             l == Len(flushed[e])
             w == Waiting(e)
  <2>1. /\ e \in Ends /\ Other(e) = f /\ UNCHANGED flushed /\ reader[f] = "give"
        /\ reader' = [reader EXCEPT ![f] = "read"] /\ \A x \in Ends : x = e \/ x = f
    BY <1>3, Others DEF Deliver, streamVars
  <2>2. /\ \A x \in Ends : Reads(x)' = Reads(x)
        /\ Reads(e)
    <3>1. Reads(e)
      BY <2>1 DEF Reads
    <3>2. f \in Ends /\ DOMAIN reader = Ends
      BY <1>3, Invs, StreamTypes
    <3>3. /\ reader'[f] = "read"
          /\ \A y \in Ends : y # f => reader'[y] = reader[y]
      BY <2>1, <3>2
    <3>4. ASSUME NEW x \in Ends PROVE Reads(x)' = Reads(x)
      BY <2>1, <3>3, Others DEF Reads
    <3> QED
      BY <3>1, <3>4
  <2>3. /\ d + 1 \in 1..l
        /\ delivered' = [delivered EXCEPT ![e] = Append(delivered[e], flushed[e][d + 1])]
        /\ Len(delivered'[e]) = d + 1
        /\ \A x \in Ends \ {e} : delivered'[x] = delivered[x]
    BY <1>3, DeliverNext
  <2>4. /\ d \in Nat /\ l \in Nat /\ l - d \in Nat /\ w \in Seq(Calls)
        /\ Len(w) = l - d /\ \A i \in 1..(l - d) : w[i] = flushed[e][d + i]
    BY <2>1, WaitingSeq
  <2>5. /\ w # <<>> /\ Head(w) = flushed[e][d + 1] /\ Tail(w) \in Seq(Calls)
        /\ Len(Tail(w)) = l - (d + 1)
        /\ \A i \in 1..(l - (d + 1)) : Tail(w)[i] = flushed[e][(d + 1) + i]
    <3> HIDE DEF d, l, w, e
    <3>1. 1 \in 1..(l - d) /\ l - d > 0 /\ (l - d) - 1 = l - (d + 1)
      BY <2>3, <2>4
    <3>2. w # <<>>
      BY <2>4, <3>1, EmptySeq
    <3>3. /\ Tail(w) \in Seq(Calls) /\ Len(Tail(w)) = Len(w) - 1
          /\ \A i \in 1..Len(Tail(w)) : Tail(w)[i] = w[i + 1]
      BY <2>4, <3>2, HeadTailProperties
    <3>4. Head(w) = w[1]
      BY <2>4, <3>2
    <3>5. ASSUME NEW i \in 1..(l - (d + 1))
          PROVE  Tail(w)[i] = flushed[e][(d + 1) + i]
      <4>1. i + 1 \in 1..(l - d) /\ d + (i + 1) = (d + 1) + i /\ i \in 1..Len(Tail(w))
        BY <2>4, <3>1, <3>3
      <4> QED
        BY <2>4, <3>3, <4>1
    <3>6. Len(Tail(w)) = l - (d + 1)
      BY <2>4, <3>1, <3>3
    <3> QED
      BY <2>4, <3>1, <3>2, <3>3, <3>4, <3>5, <3>6
  <2>6. Waiting(e)' = Tail(w)
    <3>1. Waiting(e)' = [i \in 1..(l - (d + 1)) |-> flushed[e][(d + 1) + i]]
      <4>1. Len(delivered'[e]) = d + 1 /\ flushed'[e] = flushed[e]
        BY <2>1, <2>3
      <4> HIDE DEF d, e
      <4> QED
        BY <4>1 DEF Waiting
    <3>2. Tail(w) = [i \in 1..(l - (d + 1)) |-> Tail(w)[i]]
      <4> HIDE DEF w, l, d
      <4> QED
        BY <2>5, LenProperties
    <3> QED
      BY <2>5, <3>1, <3>2
  <2>7. InTransit[e] = w /\ InTransit' = [InTransit EXCEPT ![e] = Tail(@)]
    <3>1. InTransit[e] = w
      BY <2>1, <2>2 DEF InTransit
    <3>2. Waiting(f)' = Waiting(f)
      <4>1. f \in Ends \ {e}
        BY Others
      <4>2. delivered'[f] = delivered[f] /\ flushed'[f] = flushed[f]
        BY <2>1, <2>3, <4>1
      <4> QED
        BY <4>2 DEF Waiting
    <3>3. [InTransit EXCEPT ![e] = Tail(@)]
            = [x \in Ends |-> IF x = e THEN Tail(w) ELSE InTransit[x]]
      BY <2>1, <3>1 DEF InTransit
    <3>4. ASSUME NEW x \in Ends
          PROVE  (IF Reads(x)' THEN Waiting(x)' ELSE <<>>)
                   = IF x = e THEN Tail(w) ELSE InTransit[x]
      <4>1. CASE x = e
        BY <2>2, <2>6, <4>1
      <4>2. CASE x # e
        BY <2>1, <2>2, <3>2, <4>2 DEF InTransit
      <4> QED
        BY <4>1, <4>2
    <3> QED
      BY <3>1, <3>3, <3>4 DEF InTransit
  <2>8. UNCHANGED AllRead
    BY <2>2 DEF AllRead
  <2>9. delivered' = [delivered EXCEPT ![e] = Append(@, Head(InTransit[e]))]
    BY <2>3, <2>5, <2>7
  <2> QED
    BY <1>0, <2>5, <2>7, <2>8, <2>9 DEF Abstract!Get
<1>4. ASSUME NEW e \in Ends, Reads(e), ~Reads(e)', UNCHANGED <<flushed, delivered>>,
             \A x \in Ends \ {e} : Reads(x)' = Reads(x)
      PROVE  Abstract!Stop(e)
  <2>1. \A x \in Ends : Waiting(x)' = Waiting(x)
    BY <1>4 DEF Waiting
  <2>2. AllRead[e] /\ AllRead' = [AllRead EXCEPT ![e] = FALSE]
    <3>1. AllRead[e] /\ Reads(e)' = FALSE
      <4>1. Reads(e) \in BOOLEAN /\ Reads(e)' \in BOOLEAN
        BY DEF Reads
      <4>2. AllRead[e] = Reads(e)
        BY DEF AllRead
      <4> QED
        BY <1>4, <4>1, <4>2
    <3>2. [AllRead EXCEPT ![e] = FALSE] = [x \in Ends |-> IF x = e THEN FALSE ELSE Reads(x)]
      BY DEF AllRead
    <3>3. AllRead' = [x \in Ends |-> IF x = e THEN FALSE ELSE Reads(x)]
      BY <1>4, <3>1 DEF AllRead
    <3> QED
      BY <3>1, <3>2, <3>3
  <2>3. InTransit' = [InTransit EXCEPT ![e] = <<>>]
    BY <1>4, <2>1 DEF InTransit
  <2> QED
    BY <1>0, <1>4, <2>2, <2>3 DEF Abstract!Stop
<1>5. ASSUME NEW f \in Ends, Read(f) \/ ReadFails(f)
      PROVE  Abstract!Stop(Other(f)) \/ UNCHANGED Abstract!cvars
  <2> DEFINE e == Other(f)
  <2>1. /\ e \in Ends /\ Other(e) = f /\ reader[f] = "read"
        /\ UNCHANGED <<flushed, delivered>>
        /\ \A x \in Ends \ {f} : reader'[x] = reader[x]
        /\ \A x \in Ends \ {e} : Other(x) \in Ends \ {f}
    BY <1>5, Others, Invs, StreamTypes DEF Read, ReadFails, streamVars
  <2>2. Reads(e) /\ \A x \in Ends \ {e} : Reads(x)' = Reads(x)
    BY <2>1 DEF Reads
  <2>3. CASE ~Reads(e)'
    BY <1>4, <2>1, <2>2, <2>3
  <2>4. CASE Reads(e)'
    <3>1. \A x \in Ends : Reads(x)' = Reads(x) /\ Waiting(x)' = Waiting(x)
      BY <2>1, <2>2, <2>4 DEF Waiting, Reads
    <3>2. UNCHANGED <<InTransit, AllRead>>
      BY <3>1 DEF InTransit, AllRead
    <3> QED
      BY <1>1, <2>1, <3>2
  <2> QED
    BY <2>3, <2>4
<1>6. ASSUME NEW f \in Ends, ReportRead(f) PROVE UNCHANGED Abstract!cvars
  <2>1. /\ UNCHANGED <<flushed, delivered>>
        /\ \A x \in Ends : reader'[x] \in {"read", "give"} <=> reader[x] \in {"read", "give"}
    BY <1>6, Invs, StreamTypes DEF ReportRead, streamVars
  <2>2. \A x \in Ends : Reads(x)' = Reads(x) /\ Waiting(x)' = Waiting(x)
    BY <2>1, Others DEF Waiting, Reads
  <2>3. UNCHANGED <<InTransit, AllRead>>
    BY <2>2 DEF InTransit, AllRead
  <2> QED
    BY <1>1, <2>1, <2>3
<1>7. ASSUME UNCHANGED <<flushed, delivered, reader>> PROVE UNCHANGED Abstract!cvars
  <2>1. UNCHANGED <<InTransit, AllRead>>
    BY <1>7 DEF InTransit, AllRead, Waiting, Reads
  <2> QED
    BY <1>1, <1>7, <2>1
<1>8. \/ \E c \in Calls : Push(c)
      \/ \E f \in Ends : Read(f) \/ Deliver(f) \/ ReadFails(f) \/ ReportRead(f)
      \/ UNCHANGED <<flushed, delivered, reader>>
  BY DEF Next, SendStep, Send, Lock, SendDone, SendFails, ReportWrite, ReadStep,
         Close, Break, vars, readVars, streamVars
<1> QED
  BY <1>2, <1>3, <1>5, <1>6, <1>7, <1>8, Others DEF Abstract!Next

\* The stream between two nodes implements Channel: for any number of messages
\* of any size, each is delivered once, whole, in the order in which SendMsg
\* flushed them, and nothing is delivered after a gap.
THEOREM StreamIsChannel == Spec => ImplementsChannel
<1>1. Init => Abstract!Init
  BY ChannelStart
<1>2. StreamInv => WholeIsWaiting
  BY WaitingWhole
<1>3. StreamInv /\ StreamInv' /\ WholeIsWaiting /\ WholeIsWaiting' /\ [Next]_vars
        => [Abstract!Next]_(Abstract!cvars)
  BY ChannelStep
<1> QED
  BY <1>1, <1>2, <1>3, StreamInvariant, PTL DEF Spec, ImplementsChannel, Abstract!Spec
==============================================================================

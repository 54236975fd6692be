----------------------------- MODULE EdgesProofs -----------------------------
(***************************************************************************)
(* Proofs about three components at the edge of a server:                  *)
(*   - LineTransport: for any lines, any cap and any number of dropped recv *)
(*     futures, no line is lost or returned out of order unless a recv that *)
(*     held a part of it was dropped;                                      *)
(*   - WsLiveness: a peer that answers is never given up, and one that does *)
(*     not is given up in time, for any interval and number of pings;      *)
(*   - JwksCache: a key that stays published is found and a retired one is *)
(*     forgotten, for any look-ups, keys, ttl and delay.                   *)
(* It ends with the type invariant of the four components that MCEdges     *)
(* sets side by side.                                                      *)
(***************************************************************************)
EXTENDS MCEdges, PipeConnectionProofs, FiniteSetTheorems, TLAPS

-----------------------------------------------------------------------------
(* The lines.                                                               *)

\* Nothing more will come: what is left of the last line was returned.
Drained(at) == eof /\ at = consumed /\ consumed = written

\* Where the read buffer stands: no newline in it, and it starts in the middle
\* of a line only after a recv that held the beginning of it was dropped, or after
\* the line was returned without its newline.
Inside(at, i) == EndOf[i - 1] < at /\ at < EndOf[i]
Buffered ==
    status = "open" =>
        /\ reading => \A i \in Numbers : ~(from < EndOf[i] /\ EndOf[i] <= consumed)
        /\ \A i \in Numbers :
             Inside(IF reading THEN from ELSE consumed, i) =>
                 i \in cut \/ (Drained(IF reading THEN from ELSE consumed) /\ Delivered(i))

\* The lines that were returned precede what is being read.
Behind ==
    /\ \A k \in DOMAIN frames : frames[k] >= k
    /\ status = "open" =>
        \A k \in DOMAIN frames :
            EndOf[frames[k]] <= (IF reading THEN from ELSE consumed)
            \/ Drained(IF reading THEN from ELSE consumed)

\* The end of the stream is reported when the peer writes no more.
EndIsKnown == status = "ended" => eof

LinesInv == TypeOK /\ Buffered /\ Behind /\ EndIsKnown /\ NoLineIsLost

-----------------------------------------------------------------------------
\* The ends of lines are numbers and in the order of the lines.
LEMMA EndsGrow ==
  /\ \A i \in 0..Lines : EndOf[i] \in Nat
  /\ \A i, j \in 0..Lines : i < j <=> EndOf[i] < EndOf[j]
  /\ \A i \in Numbers : i \in 0..Lines /\ i - 1 \in 0..Lines
  /\ Lines \in Nat /\ EndOf[0] = 0
  BY LinesAssumption DEF LinesAssumption, Numbers

\* A line is over at most once: two lines whose ends have none between are one.
LEMMA OneLine ==
  ASSUME NEW i \in Numbers, NEW j \in Numbers, EndOf[i - 1] < EndOf[j], EndOf[j] <= EndOf[i]
  PROVE  i = j
  BY EndsGrow DEF Numbers

\* What recv has returned are numbers of lines.
LEMMA FramesAreNumbers ==
  ASSUME TypeOK
  PROVE  \A k \in DOMAIN frames : frames[k] \in Numbers
  BY DEF TypeOK

\* The first newline among the bytes that are available, if there is one.
LEMMA FirstEnds ==
  ASSUME TypeOK, NEW n \in Nat
  PROVE  LET to == IF FirstEnd(n) = {} THEN n ELSE CHOOSE e \in FirstEnd(n) : TRUE
         IN  \/ /\ FirstEnd(n) # {}
                /\ \E i \in Numbers : /\ to = EndOf[i] /\ consumed < to /\ to <= n
                                      /\ \A j \in Numbers : consumed < EndOf[j] => to <= EndOf[j]
             \/ FirstEnd(n) = {} /\ to = n
  BY DEF FirstEnd, Ends

\* Some number of a set of them is the least: initial segments are finite sets,
\* which inclusion orders well.
LEMMA LeastNumber ==
  ASSUME NEW T \in SUBSET Nat, T # {}
  PROVE  \E m \in T : \A k \in T : m <= k
  <1>. DEFINE Segments == {0..n : n \in T}
  <1>1. Segments \subseteq FiniteSubsetsOf(Nat) /\ Segments # {}
    <2>1. \A n \in T : IsFiniteSet(0..n) /\ 0..n \in SUBSET Nat
      BY FS_Interval
    <2>. QED
      BY <2>1 DEF FiniteSubsetsOf
  <1>2. PICK x \in Segments : \A y \in Segments : <<y, x>> \notin StrictSubsetOrdering(Nat)
    <2>. HIDE DEF Segments
    <2>. QED
      BY <1>1, WFMin, FS_StrictSubsetOrderingWellFounded
  <1>3. PICK m \in T : x = 0..m
    OBVIOUS
  <1>4. ASSUME NEW k \in T, k < m
        PROVE  FALSE
    <2>1. 0..k \subseteq 0..m /\ 0..k # 0..m /\ 0..k \in SUBSET Nat /\ 0..m \in SUBSET Nat
      BY <1>4
    <2>2. <<0..k, x>> \in StrictSubsetOrdering(Nat)
      BY <1>3, <2>1 DEF StrictSubsetOrdering
    <2>. QED
      BY <1>2, <2>2
  <1>. QED
    BY <1>4

\* If no newline is first, there is none.
LEMMA NoEnds ==
  ASSUME TypeOK, NEW n \in Nat, FirstEnd(n) = {}
  PROVE  \A i \in Numbers : ~(consumed < EndOf[i] /\ EndOf[i] <= n)
  <1>. SUFFICES ASSUME NEW i \in Numbers, consumed < EndOf[i], EndOf[i] <= n
                PROVE  FALSE
    OBVIOUS
  <1>. DEFINE T == {e \in Ends : consumed < e}
  <1>1. T \in SUBSET Nat /\ EndOf[i] \in T
    BY EndsGrow DEF Ends
  <1>2. PICK m \in T : \A k \in T : m <= k
    BY <1>1, LeastNumber
  <1>3. m <= n
    BY <1>1, <1>2, EndsGrow
  <1>4. m \in FirstEnd(n)
    BY <1>2, <1>3 DEF FirstEnd
  <1>. QED
    BY <1>4

-----------------------------------------------------------------------------
\* The line whose newline is taken began in the buffer, or in one that was
\* dropped.
LEMMA LineAtHand ==
  ASSUME LinesInv, status = "open", reading, NEW i \in Numbers, consumed < EndOf[i],
         \A j \in Numbers : consumed < EndOf[j] => EndOf[i] <= EndOf[j]
  PROVE  EndOf[i - 1] <= from
  <1>. USE EndsGrow DEF LinesInv, TypeOK
  <1>1. CASE i = 1
    BY <1>1
  <1>2. CASE i # 1
    <2>1. i - 1 \in Numbers /\ EndOf[i - 1] < EndOf[i]
      BY <1>2 DEF Numbers
    <2>2. EndOf[i - 1] <= consumed
      <3>1. consumed \in Nat /\ EndOf[i - 1] \in Nat /\ EndOf[i] \in Nat
        OBVIOUS
      <3>. QED
        BY <2>1, <3>1
    <2>. QED
      BY <2>1, <2>2 DEF Buffered
  <1>. QED
    BY <1>1, <1>2

\* The next frame is a later line than all before it.
LEMMA LaterLine ==
  ASSUME LinesInv, status = "open", reading, NEW i \in Numbers, from = EndOf[i - 1],
         ~Drained(from)
  PROVE  /\ \A k \in DOMAIN frames : frames[k] < i
         /\ Append(frames, i) \in Seq(Numbers)
         /\ Len(Append(frames, i)) = Len(frames) + 1 /\ Len(frames) + 1 <= i
         /\ Len(frames) + 1 <= Lines
  <1>. USE EndsGrow DEF LinesInv, TypeOK
  <1>1. ASSUME NEW k \in DOMAIN frames
        PROVE  frames[k] < i
    <2>1. frames[k] \in Numbers /\ EndOf[frames[k]] <= EndOf[i - 1]
      BY DEF Behind
    <2>2. frames[k] <= i - 1
      BY <2>1 DEF Numbers
    <2>. QED
      BY <2>1, <2>2 DEF Numbers
  <1>2. Len(frames) \in Nat /\ DOMAIN frames = 1..Len(frames)
    OBVIOUS
  <1>3. Len(frames) + 1 <= i
    <2>1. CASE Len(frames) = 0
      BY <2>1 DEF Numbers
    <2>2. CASE Len(frames) # 0
      <3>1. Len(frames) \in DOMAIN frames
        BY <1>2, <2>2
      <3>2. frames[Len(frames)] < i /\ frames[Len(frames)] >= Len(frames)
            /\ frames[Len(frames)] \in Numbers
        BY <1>1, <3>1 DEF Behind
      <3>. QED
        BY <1>2, <3>2 DEF Numbers
    <2>. QED
      BY <2>1, <2>2
  <1>4. i <= Lines /\ i \in Nat
    BY DEF Numbers
  <1>5. Append(frames, i) \in Seq(Numbers) /\ Len(Append(frames, i)) = Len(frames) + 1
    OBVIOUS
  <1>. QED
    BY <1>1, <1>2, <1>3, <1>4, <1>5

\* A frame that is appended is delivered, like those before it, and in order.
LEMMA Delivering ==
  ASSUME TypeOK, \A k \in DOMAIN frames : frames[k] >= k,
         \A j, k \in DOMAIN frames : j < k => frames[j] < frames[k],
         NEW i \in Numbers, \A k \in DOMAIN frames : frames[k] < i, Len(frames) + 1 <= i,
         frames' = Append(frames, i)
  PROVE  /\ \A j \in Numbers : Delivered(j)' <=> Delivered(j) \/ j = i
         /\ \A k \in DOMAIN frames' : frames'[k] >= k
         /\ \A j, k \in DOMAIN frames' : j < k => frames'[j] < frames'[k]
         /\ \A k \in DOMAIN frames' : frames'[k] = i \/ (k \in DOMAIN frames /\ frames'[k] = frames[k])
  <1>1. /\ Len(frames) \in Nat /\ DOMAIN frames = 1..Len(frames)
        /\ DOMAIN frames' = 1..(Len(frames) + 1)
        /\ \A k \in 1..Len(frames) : frames'[k] = frames[k] /\ frames[k] \in Numbers
        /\ frames'[Len(frames) + 1] = i
    BY DEF TypeOK
  <1>2. \A k \in DOMAIN frames' : k \in DOMAIN frames \/ k = Len(frames) + 1
    BY <1>1
  <1>3. \A j \in Numbers : Delivered(j)' <=> Delivered(j) \/ j = i
    BY <1>1, <1>2 DEF Delivered
  <1>4. \A k \in DOMAIN frames' : frames'[k] >= k
    BY <1>1, <1>2
  <1>5. \A j, k \in DOMAIN frames' : j < k => frames'[j] < frames'[k]
    BY <1>1, <1>2
  <1>. QED
    BY <1>1, <1>2, <1>3, <1>4, <1>5

\* A line whose newline is read is skipped if it is blank, returned, or refused.
LEMMA NewlineSteps ==
  ASSUME LinesInv, status = "open", reading, NEW i \in Numbers,
         consumed < EndOf[i], EndOf[i] <= written, EndOf[i] - from <= MaxLine,
         \A j \in Numbers : consumed < EndOf[j] => EndOf[i] <= EndOf[j],
         consumed' = EndOf[i], Returned(EndOf[i], EndOf[i] - 1),
         UNCHANGED <<written, eof, cut, cancels>>
  PROVE  LinesInv'
  <1>. USE EndsGrow
  <1>1. EndOf[i - 1] <= from /\ from <= consumed /\ ~Drained(from)
        /\ consumed \in Nat /\ from \in Nat /\ written \in Nat /\ EndOf[i] \in Nat
    BY LineAtHand DEF LinesInv, TypeOK, Drained
  <1>2. EndOf[i - 1] = from \/ i \in cut
    BY <1>1 DEF LinesInv, Buffered, Inside
  <1>3. \A j \in Numbers : ~Inside(EndOf[i], j)
    BY OneLine DEF Inside
  <1>4. \A j \in Numbers : EndOf[j] <= EndOf[i] => EndOf[j] <= consumed \/ j = i
    <2>. SUFFICES ASSUME NEW j \in Numbers, EndOf[j] <= EndOf[i], ~(EndOf[j] <= consumed)
                  PROVE  j = i
      OBVIOUS
    <2>1. EndOf[j] = EndOf[i]
      BY <1>1
    <2>. QED
      BY <2>1 DEF Numbers
  <1>5. \A k \in DOMAIN frames : EndOf[frames[k]] <= from /\ frames[k] >= k
    BY <1>1 DEF LinesInv, Behind
  <1>6. \A j \in Numbers \ cut : EndOf[j] <= consumed => Blank(j) \/ Delivered(j)
    BY DEF LinesInv, NoLineIsLost
  <1>7. \A j, k \in DOMAIN frames : j < k => frames[j] < frames[k]
    BY DEF LinesInv, NoLineIsLost
  <1>8. \A k \in DOMAIN frames : EndOf[frames[k]] \in Nat
    <2>1. \A k \in DOMAIN frames : frames[k] \in Numbers
      BY FramesAreNumbers DEF LinesInv
    <2>. QED
      BY <2>1
  <1>9. /\ TypeOK /\ consumed' = EndOf[i] /\ written' = written /\ eof' = eof
        /\ cut' = cut /\ cancels' = cancels
    BY DEF LinesInv
  <1>10. CASE EndOf[i] = from + 1
    <2>1. /\ from' = EndOf[i] /\ reading' = reading /\ frames' = frames /\ status' = status
      BY <1>10 DEF Returned, Ends
    <2>2. TypeOK'
      <3>1. from' \in 0..consumed' /\ consumed' - from' <= MaxLine /\ consumed' \in 0..written'
        BY <1>1, <1>9, <2>1, LinesAssumption DEF LinesAssumption
      <3>. QED
        BY <1>9, <2>1, <3>1 DEF TypeOK
    <2>3. Buffered'
      BY <1>3, <1>9, <2>1 DEF Buffered, Inside
    <2>4. Behind'
      BY <1>1, <1>5, <1>8, <1>10, <2>1 DEF Behind
    <2>5. i \in cut \/ Blank(i)
      BY <1>2, <1>10 DEF Blank
    <2>6. NoLineIsLost'
      BY <1>4, <1>6, <1>7, <1>9, <2>1, <2>5 DEF NoLineIsLost, Delivered, Blank
    <2>. QED
      BY <1>9, <2>1, <2>2, <2>3, <2>4, <2>6 DEF LinesInv, EndIsKnown
  <1>11. CASE EndOf[i] # from + 1 /\ status' = status
    <2>1. PICK j \in Numbers : /\ from = EndOf[j - 1] /\ EndOf[i] - 1 = EndOf[j] - 1
                               /\ frames' = Append(frames, j)
      BY <1>11 DEF Returned
    <2>2. j = i
      BY <1>1, <2>1 DEF Numbers
    <2>3. reading' = FALSE /\ from' = from
      BY <1>11 DEF Returned
    <2>4. /\ \A k \in DOMAIN frames : frames[k] < i
          /\ frames' \in Seq(Numbers) /\ Len(frames') <= Lines /\ Len(frames) + 1 <= i
      BY <1>1, <2>1, <2>2, LaterLine
    <2>5. TypeOK'
      <3>1. from' \in 0..consumed' /\ consumed' - from' <= MaxLine /\ consumed' \in 0..written'
        BY <1>1, <1>9, <2>3
      <3>. QED
        BY <1>9, <1>11, <2>3, <2>4, <3>1 DEF TypeOK
    <2>6. Buffered'
      BY <1>3, <1>9, <2>3 DEF Buffered, Inside
    <2>7. /\ \A h \in Numbers : Delivered(h)' <=> Delivered(h) \/ h = i
          /\ \A k \in DOMAIN frames' : frames'[k] >= k
          /\ \A h, k \in DOMAIN frames' : h < k => frames'[h] < frames'[k]
          /\ \A k \in DOMAIN frames' : frames'[k] = i \/ (k \in DOMAIN frames /\ frames'[k] = frames[k])
      BY <1>5, <1>7, <1>9, <2>1, <2>2, <2>4, Delivering
    <2>8. Behind'
      BY <1>1, <1>5, <1>8, <1>9, <2>3, <2>7 DEF Behind
    <2>9. NoLineIsLost'
      BY <1>4, <1>6, <1>9, <1>11, <2>7 DEF NoLineIsLost, Blank
    <2>. QED
      BY <1>11, <2>5, <2>6, <2>8, <2>9 DEF LinesInv, EndIsKnown
  <1>12. CASE EndOf[i] # from + 1 /\ status' # status
    <2>1. reading' = FALSE /\ from' = from /\ status' = "failed" /\ frames' = frames
      BY <1>12 DEF Returned
    <2>2. TypeOK'
      <3>1. from' \in 0..consumed' /\ consumed' - from' <= MaxLine /\ consumed' \in 0..written'
        BY <1>1, <1>9, <2>1
      <3>. QED
        BY <1>9, <2>1, <3>1 DEF TypeOK
    <2>. QED
      BY <1>5, <1>7, <2>1, <2>2 DEF LinesInv, Buffered, Behind, EndIsKnown, NoLineIsLost
  <1>. QED
    BY <1>10, <1>11, <1>12

\* Bytes that are available are taken up to the first newline, if the cap allows.
LEMMA FillSteps ==
  ASSUME LinesInv, NEW n \in 1..Total, Fill(n)
  PROVE  LinesInv'
  <1>. DEFINE to == IF FirstEnd(n) = {} THEN n ELSE CHOOSE e \in FirstEnd(n) : TRUE
  <1>0. Total \in Nat /\ n \in Nat
    BY EndsGrow DEF Total
  <1>1. /\ status = "open" /\ reading /\ consumed < n /\ n <= written
        /\ UNCHANGED <<written, eof, cut, cancels>>
    BY DEF Fill, lossVars
  <1>2. TypeOK /\ consumed \in Nat /\ from \in Nat /\ from <= consumed /\ written \in Nat
    BY DEF LinesInv, TypeOK
  <1>3. \/ /\ FirstEnd(n) # {}
           /\ \E i \in Numbers : /\ to = EndOf[i] /\ consumed < to /\ to <= n
                                 /\ \A j \in Numbers : consumed < EndOf[j] => to <= EndOf[j]
        \/ FirstEnd(n) = {} /\ to = n
    BY <1>0, <1>2, FirstEnds
  <1>4. CASE to - from > MaxLine
    <2>1. status' = "failed" /\ reading' = FALSE /\ UNCHANGED <<consumed, from, frames>>
      BY <1>4 DEF Fill
    <2>. QED
      BY <1>1, <2>1 DEF LinesInv, TypeOK, Buffered, Behind, EndIsKnown, NoLineIsLost
  <1>5. CASE ~(to - from > MaxLine) /\ FirstEnd(n) # {}
    <2>1. PICK i \in Numbers : /\ to = EndOf[i] /\ consumed < to /\ to <= n
                               /\ \A j \in Numbers : consumed < EndOf[j] => to <= EndOf[j]
      BY <1>3, <1>5
    <2>2. consumed' = to /\ Returned(to, to - 1)
      BY <1>5 DEF Fill
    <2>3. to <= written /\ to - from <= MaxLine
      BY <1>0, <1>1, <1>2, <1>5, <2>1, EndsGrow, LinesAssumption DEF LinesAssumption
    <2>. HIDE DEF to
    <2>. QED
      BY <1>1, <2>1, <2>2, <2>3, NewlineSteps
  <1>6. CASE ~(to - from > MaxLine) /\ FirstEnd(n) = {}
    <2>1. consumed' = n /\ UNCHANGED <<from, reading, frames, status>> /\ n - from <= MaxLine
      BY <1>0, <1>2, <1>6, LinesAssumption DEF Fill, LinesAssumption
    <2>2. \A i \in Numbers : ~(consumed < EndOf[i] /\ EndOf[i] <= n)
      BY <1>0, <1>2, <1>6, NoEnds
    <2>3. \A i \in Numbers : EndOf[i] \in Nat
      BY EndsGrow
    <2>4. TypeOK'
      BY <1>0, <1>1, <1>2, <2>1 DEF TypeOK
    <2>5. ~Drained(from)
      BY <1>1, <1>2 DEF Drained
    <2>6. Buffered'
      BY <1>0, <1>1, <1>2, <2>1, <2>2, <2>3, <2>5 DEF LinesInv, Buffered, Inside
    <2>7. Behind'
      BY <1>1, <2>1, <2>5 DEF LinesInv, Behind
    <2>8. NoLineIsLost'
      BY <1>0, <1>1, <1>2, <2>1, <2>2, <2>3 DEF LinesInv, NoLineIsLost, Delivered
    <2>. QED
      BY <1>1, <2>1, <2>4, <2>6, <2>7, <2>8 DEF LinesInv, EndIsKnown
  <1>. QED
    BY <1>4, <1>5, <1>6

\* What is left at the end of the stream counts as a line.
LEMMA EofSteps ==
  ASSUME LinesInv, AtEof
  PROVE  LinesInv'
  <1>1. /\ status = "open" /\ reading /\ eof /\ consumed = written
        /\ UNCHANGED <<written, eof, consumed, cut, cancels>>
    BY DEF AtEof, lossVars
  <1>2. TypeOK /\ consumed \in Nat /\ from \in Nat /\ from <= consumed /\ written \in Nat
    BY DEF LinesInv, TypeOK
  <1>3. CASE status' # "open"
    <2>1. /\ reading' = FALSE /\ UNCHANGED <<from, frames>> /\ status' \in {"ended", "failed"}
          /\ status' = "ended" => from = consumed
      BY <1>1, <1>3 DEF AtEof, Returned
    <2>2. TypeOK' /\ Buffered' /\ Behind' /\ EndIsKnown'
      BY <1>1, <1>3, <2>1 DEF LinesInv, TypeOK, Buffered, Behind, EndIsKnown
    <2>3. ASSUME NEW i \in Numbers \ cut, status' = "ended", EndOf[i] - 1 <= written
          PROVE  Blank(i) \/ Delivered(i)
      <3>1. CASE EndOf[i] <= consumed
        BY <1>1, <3>1 DEF LinesInv, NoLineIsLost
      <3>2. CASE ~(EndOf[i] <= consumed) /\ ~Blank(i)
        <4>1. EndOf[i] - 1 = consumed /\ EndOf[i - 1] < EndOf[i] - 1
          BY <1>1, <1>2, <2>3, <3>2, EndsGrow DEF Blank, Numbers
        <4>2. Inside(from, i)
          BY <1>2, <2>1, <2>3, <4>1, EndsGrow DEF Inside
        <4>. QED
          BY <1>1, <2>3, <4>2 DEF LinesInv, Buffered
      <3>. QED
        BY <3>1, <3>2
    <2>4. NoLineIsLost'
      BY <1>1, <1>3, <2>1, <2>3 DEF LinesInv, NoLineIsLost, Delivered, Blank
    <2>. QED
      BY <2>2, <2>4 DEF LinesInv
  <1>4. CASE status' = "open"
    <2>1. from < consumed /\ Returned(consumed, consumed)
      BY <1>1, <1>2, <1>4 DEF AtEof
    <2>2. ~(consumed = from + 1 /\ consumed \in Ends)
      BY <1>1, <1>2, <2>1, EndsGrow DEF LinesInv, Buffered, Ends
    <2>3. reading' = FALSE /\ from' = from
      BY <2>1, <2>2 DEF Returned
    <2>4. PICK i \in Numbers : /\ from = EndOf[i - 1] /\ consumed = EndOf[i] - 1
                               /\ frames' = Append(frames, i)
      BY <1>4, <2>1, <2>2 DEF Returned
    <2>5. ~Drained(from)
      BY <1>2, <2>1 DEF Drained
    <2>6. /\ \A k \in DOMAIN frames : frames[k] < i
          /\ frames' \in Seq(Numbers) /\ Len(frames') <= Lines /\ Len(frames) + 1 <= i
      BY <1>1, <2>4, <2>5, LaterLine
    <2>7. /\ \A k \in DOMAIN frames : frames[k] >= k
          /\ \A j, k \in DOMAIN frames : j < k => frames[j] < frames[k]
          /\ \A j \in Numbers \ cut : EndOf[j] <= consumed => Blank(j) \/ Delivered(j)
      BY <1>1 DEF LinesInv, Behind, NoLineIsLost
    <2>8. /\ \A h \in Numbers : Delivered(h)' <=> Delivered(h) \/ h = i
          /\ \A k \in DOMAIN frames' : frames'[k] >= k
          /\ \A h, k \in DOMAIN frames' : h < k => frames'[h] < frames'[k]
      BY <1>2, <2>4, <2>6, <2>7, Delivering
    <2>9. Drained(consumed)'
      BY <1>1 DEF Drained
    <2>10. TypeOK'
      BY <1>1, <1>2, <1>4, <2>3, <2>6 DEF TypeOK
    <2>11. ASSUME NEW j \in Numbers, Inside(consumed, j)
           PROVE  j = i
      <3>1. EndOf[i - 1] < EndOf[j] /\ EndOf[j - 1] < EndOf[i]
        BY <1>2, <2>1, <2>4, <2>11, EndsGrow DEF Inside
      <3>. QED
        BY <3>1, OneLine, EndsGrow
    <2>12. Buffered' /\ Behind'
      BY <1>1, <2>3, <2>8, <2>9, <2>11 DEF Buffered, Behind, Inside
    <2>13. NoLineIsLost'
      BY <1>1, <1>4, <2>7, <2>8 DEF NoLineIsLost, Blank
    <2>. QED
      BY <1>4, <2>10, <2>12, <2>13 DEF LinesInv, EndIsKnown
  <1>. QED
    BY <1>3, <1>4

\* Every step keeps the invariant.
LEMMA LineSteps ==
  ASSUME LinesInv, [Next]_vars
  PROVE  LinesInv'
  <1>1. ASSUME NEW n \in 1..Total, Fill(n)
        PROVE  LinesInv'
    BY <1>1, FillSteps
  <1>2. CASE AtEof
    BY <1>2, EofSteps
  <1>3. CASE Recv
    <2>1. /\ status = "open" /\ reading = FALSE /\ reading' = TRUE /\ from' = consumed
          /\ UNCHANGED <<written, eof, consumed, frames, status, cut, cancels>>
      BY <1>3 DEF Recv, lossVars
    <2>2. TypeOK'
      BY <2>1, LinesAssumption DEF LinesInv, TypeOK, LinesAssumption
    <2>3. Buffered'
      <3>1. consumed \in Nat /\ \A i \in Numbers : EndOf[i] \in Nat
        BY EndsGrow DEF LinesInv, TypeOK
      <3>. QED
        BY <2>1, <3>1 DEF LinesInv, Buffered, Inside, Drained, Delivered
    <2>4. Behind' /\ EndIsKnown'
      BY <2>1 DEF LinesInv, Behind, Drained, EndIsKnown
    <2>5. NoLineIsLost'
      BY <2>1 DEF LinesInv, NoLineIsLost, Delivered
    <2>. QED
      BY <2>2, <2>3, <2>4, <2>5 DEF LinesInv
  <1>4. CASE Cancel
    <2>1. /\ status = "open" /\ reading /\ reading' = FALSE /\ cancels < MaxCancels
          /\ cancels' = cancels + 1
          /\ cut' = cut \cup {i \in Numbers : EndOf[i - 1] < consumed /\ consumed < EndOf[i]}
          /\ UNCHANGED <<written, eof, consumed, from, frames, status>>
      BY <1>4 DEF Cancel
    <2>2. TypeOK'
      <3>1. TypeOK /\ MaxCancels \in Nat
        BY LinesAssumption DEF LinesInv, LinesAssumption
      <3>2. cancels' \in 0..MaxCancels /\ cut' \subseteq Numbers
        BY <2>1, <3>1 DEF TypeOK
      <3>. QED
        BY <2>1, <3>1, <3>2 DEF TypeOK
    <2>3. Buffered'
      BY <2>1 DEF LinesInv, Buffered, Inside
    <2>4. Behind' /\ EndIsKnown'
      <3>1. \A k \in DOMAIN frames : EndOf[frames[k]] \in Nat
        BY EndsGrow, FramesAreNumbers DEF LinesInv
      <3>2. consumed \in Nat /\ from \in Nat /\ from <= consumed /\ written \in Nat
        BY DEF LinesInv, TypeOK
      <3>. QED
        BY <2>1, <3>1, <3>2 DEF LinesInv, Behind, EndIsKnown, Drained
    <2>5. NoLineIsLost'
      <3>1. cut \subseteq cut' /\ status = "open" /\ NoLineIsLost
        BY <2>1 DEF LinesInv
      <3>. QED
        BY <2>1, <3>1 DEF NoLineIsLost, Delivered
    <2>. QED
      BY <2>2, <2>3, <2>4, <2>5 DEF LinesInv
  <1>5. ASSUME NEW n \in 1..Total, PeerWrites(n)
        PROVE  LinesInv'
    <2>1. Total \in Nat
      BY EndsGrow DEF Total
    <2>2. ~eof /\ UNCHANGED <<eof, consumed, from, reading, frames, status, cut, cancels>>
      BY <1>5 DEF PeerWrites, readVars, lossVars
    <2>3. TypeOK'
      BY <1>5, <2>1, <2>2 DEF LinesInv, TypeOK, PeerWrites
    <2>4. Buffered' /\ Behind' /\ EndIsKnown'
      BY <2>2 DEF LinesInv, Buffered, Behind, EndIsKnown, Inside, Drained, Delivered
    <2>5. NoLineIsLost'
      BY <2>2 DEF LinesInv, EndIsKnown, NoLineIsLost, Delivered
    <2>. QED
      BY <2>3, <2>4, <2>5 DEF LinesInv
  <1>6. CASE PeerCloses
    <2>1. ~eof /\ eof' = TRUE
          /\ UNCHANGED <<written, consumed, from, reading, frames, status, cut, cancels>>
      BY <1>6 DEF PeerCloses, readVars, lossVars
    <2>2. TypeOK' /\ Buffered' /\ Behind' /\ EndIsKnown'
      BY <2>1 DEF LinesInv, TypeOK, Buffered, Behind, EndIsKnown, Inside, Drained, Delivered
    <2>3. NoLineIsLost'
      BY <2>1 DEF LinesInv, NoLineIsLost, Delivered
    <2>. QED
      BY <2>2, <2>3 DEF LinesInv
  <1>7. CASE UNCHANGED vars
    BY <1>7 DEF vars, readVars, lossVars, LinesInv, TypeOK, Buffered, Behind, EndIsKnown,
                NoLineIsLost, Inside, Drained, Delivered
  <1>. QED
    BY <1>1, <1>2, <1>3, <1>4, <1>5, <1>6, <1>7 DEF Next, Over

\* Nothing is read yet.
LEMMA LinesBegin == Init => LinesInv
  <1>. SUFFICES ASSUME Init PROVE LinesInv
    OBVIOUS
  <1>1. TypeOK
    <2>1. <<>> \in Seq(Numbers) /\ Len(<<>>) = 0 /\ Total \in Nat /\ MaxCancels \in Nat
          /\ MaxLine \in Nat /\ Lines \in Nat
      BY EndsGrow, LinesAssumption DEF LinesAssumption, Total
    <2>2. frames \in Seq(Numbers) /\ Len(frames) <= Lines
      BY <2>1 DEF Init
    <2>3. /\ written \in 0..Total /\ consumed \in 0..written /\ from \in 0..consumed
          /\ consumed - from <= MaxLine /\ cancels \in 0..MaxCancels /\ cut \subseteq Numbers
      BY <2>1 DEF Init
    <2>. QED
      BY <2>2, <2>3 DEF Init, TypeOK
  <1>2. \A i \in Numbers : EndOf[i] \in Nat /\ EndOf[i] # 0 /\ EndOf[i - 1] \in Nat
    BY EndsGrow DEF Numbers
  <1>3. Buffered /\ Behind /\ EndIsKnown /\ NoLineIsLost
    BY <1>2 DEF Init, Buffered, Behind, EndIsKnown, NoLineIsLost, Inside
  <1>. QED
    BY <1>1, <1>3 DEF LinesInv

\* The invariant holds in every state.
LEMMA LinesInvHolds == Spec => []LinesInv
  <1>1. Init => LinesInv
    BY LinesBegin
  <1>2. LinesInv /\ [Next]_vars => LinesInv'
    BY LineSteps
  <1>. QED
    BY <1>1, <1>2, PTL DEF Spec

\* The buffer keeps to max_line_bytes and no line is returned twice.
THEOREM LinesAreTyped == Spec => []TypeOK
  BY LinesInvHolds, PTL DEF LinesInv

\* recv of the line transport: frames in the order of their lines, and no line lost
\* but with a recv that was dropped or an error that was reported.
THEOREM EveryLineIsOneFrame == Spec => []NoLineIsLost
  BY LinesInvHolds, PTL DEF LinesInv

-----------------------------------------------------------------------------
(* The probes.                                                              *)

\* While recv waits, the count and the timer together measure the silence.
SilenceIsCounted == link = "open" => quiet = idle_pings * Interval + elapsed

\* The first of the pings that a living peer has not answered is as old as the
\* probes say: its pong is among those to come.
OldestPing ==
    link = "open" /\ alive /\ idle_pings > 0 =>
        \E age \in pongs : age >= (idle_pings - 1) * Interval + elapsed

WsInv == WsTypeOK /\ SilenceIsCounted /\ OldestPing /\ LivingIsKept

\* One more interval.
LEMMA OneMore ==
  ASSUME NEW n \in Nat, NEW k \in Nat
  PROVE  (n + 1) * k = n * k + k /\ n * k \in Nat
  OBVIOUS

\* n intervals are at most MaxIdle intervals when n is at most MaxIdle.
LEMMA Intervals ==
  ASSUME NEW n \in 0..MaxIdle
  PROVE  n * Interval <= MaxIdle * Interval /\ Patience = MaxIdle * Interval + Interval
         /\ n * Interval \in Nat /\ MaxIdle * Interval \in Nat
  BY TimesAssumption DEF TimesAssumption, Patience

\* Giving up needs a count at its limit, and then the first ping is too old for a
\* living peer.
LEMMA GivingUp ==
  ASSUME WsInv, Timeout, idle_pings >= MaxIdle
  PROVE  ~alive
  <1>. SUFFICES ASSUME alive PROVE FALSE
    OBVIOUS
  <1>. USE TimesAssumption DEF TimesAssumption, WsInv, WsTypeOK
  <1>1. idle_pings = MaxIdle /\ elapsed = Interval /\ link = "open"
    BY DEF Timeout
  <1>2. PICK age \in pongs : age >= (MaxIdle - 1) * Interval + Interval
    BY <1>1 DEF OldestPing
  <1>3. (MaxIdle - 1) * Interval + Interval = MaxIdle * Interval
    BY OneMore
  <1>4. age \in 0..Latency
    OBVIOUS
  <1>. QED
    BY <1>2, <1>3, <1>4

\* A probe that is sent is counted.
LEMMA Probing ==
  ASSUME WsInv, Timeout, idle_pings < MaxIdle
  PROVE  WsInv'
  <1>. USE TimesAssumption DEF TimesAssumption, WsInv, WsTypeOK
  <1>1. /\ link = "open" /\ link' = link /\ elapsed = Interval /\ elapsed' = 0
        /\ idle_pings' = idle_pings + 1 /\ alive' = alive /\ quiet' = quiet
        /\ pongs' = IF alive THEN pongs \cup {0} ELSE pongs
    BY DEF Timeout
  <1>2. (idle_pings + 1) * Interval = idle_pings * Interval + Interval
        /\ idle_pings * Interval \in Nat
    BY OneMore
  <1>3. SilenceIsCounted'
    BY <1>1, <1>2 DEF SilenceIsCounted
  <1>4. OldestPing'
    <2>. SUFFICES ASSUME alive
                  PROVE  \E age \in pongs' : age >= idle_pings * Interval
      BY <1>1, <1>2 DEF OldestPing
    <2>1. CASE idle_pings = 0
      BY <1>1, <2>1
    <2>2. CASE idle_pings # 0
      <3>1. (idle_pings - 1) * Interval + Interval = idle_pings * Interval
        BY <2>2, OneMore
      <3>. QED
        BY <1>1, <2>2, <3>1 DEF OldestPing
    <2>. QED
      BY <2>1, <2>2
  <1>. QED
    BY <1>1, <1>3, <1>4 DEF LivingIsKept

\* Every step keeps the invariant.
LEMMA ProbeSteps ==
  ASSUME WsInv, [WsNext]_wsVars
  PROVE  WsInv'
  <1>. USE TimesAssumption DEF TimesAssumption, WsInv, WsTypeOK
  <1>1. CASE Timeout
    <2>1. CASE idle_pings < MaxIdle
      BY <1>1, <2>1, Probing
    <2>2. CASE ~(idle_pings < MaxIdle)
      <3>1. ~alive
        BY <1>1, <2>2, GivingUp
      <3>2. /\ link' = "reaped" /\ alive' = FALSE /\ quiet' = quiet
            /\ idle_pings' = idle_pings /\ elapsed' = elapsed /\ pongs' = pongs
        BY <1>1, <2>2, <3>1 DEF Timeout, probeVars
      <3>. QED
        BY <3>1, <3>2 DEF SilenceIsCounted, OldestPing, LivingIsKept
    <2>. QED
      BY <2>1, <2>2
  <1>2. CASE idle_pings' = 0 /\ elapsed' = 0 /\ quiet' = 0 /\ alive' = alive
             /\ pongs' \subseteq pongs /\ link' \in {"open", "closed"}
    BY <1>2, OneMore DEF SilenceIsCounted, OldestPing, LivingIsKept
  <1>3. CASE FallSilent
    BY <1>3 DEF FallSilent, SilenceIsCounted, OldestPing, LivingIsKept, probeVars
  <1>4. CASE Tick
    <2>1. /\ link = "open" /\ link' = link /\ elapsed < Interval /\ elapsed' = elapsed + 1
          /\ pongs' = {age + 1 : age \in pongs} /\ quiet' = quiet + 1
          /\ idle_pings' = idle_pings /\ alive' = alive
      BY <1>4 DEF Tick
    <2>2. pongs' \subseteq 0..Latency
      BY <1>4 DEF Tick
    <2>3. SilenceIsCounted'
      BY <2>1, OneMore DEF SilenceIsCounted
    <2>4. OldestPing'
      <3>. SUFFICES ASSUME alive, idle_pings > 0
                    PROVE  \E age \in pongs' : age >= (idle_pings - 1) * Interval + (elapsed + 1)
        BY <2>1 DEF OldestPing
      <3>1. PICK age \in pongs : age >= (idle_pings - 1) * Interval + elapsed
        BY <2>1 DEF OldestPing
      <3>2. (idle_pings - 1) * Interval \in Nat
        BY OneMore
      <3>3. age + 1 \in pongs' /\ age + 1 >= (idle_pings - 1) * Interval + (elapsed + 1)
        BY <2>1, <3>1, <3>2
      <3>. QED
        BY <3>3
    <2>. QED
      BY <2>1, <2>2, <2>3, <2>4 DEF LivingIsKept
  <1>5. CASE UNCHANGED wsVars
    BY <1>5 DEF wsVars, probeVars, SilenceIsCounted, OldestPing, LivingIsKept
  <1>. QED
    BY <1>1, <1>2, <1>3, <1>4, <1>5
       DEF WsNext, Pong, Message, Dropped, Closed, Heard, WsOver

\* No ping is out yet.
LEMMA ProbesBegin == WsInit => WsInv
  BY TimesAssumption, OneMore DEF TimesAssumption, WsInit, WsInv, WsTypeOK, SilenceIsCounted,
     OldestPing, LivingIsKept

\* The probes of recv: a peer whose pongs take less than max_idle_pings intervals
\* is kept, and a recv that hears nothing gives up after one interval more.
THEOREM ProbesOfAnyLength == WsSpec => []ProbesAreFair
  <1>1. WsInit => WsInv
    BY ProbesBegin
  <1>2. WsInv /\ [WsNext]_wsVars => WsInv'
    BY ProbeSteps
  <1>3. WsInv => ProbesAreFair
    BY TimesAssumption, Intervals DEF TimesAssumption, WsInv, WsTypeOK, SilenceIsCounted,
       ReapedInTime, ProbesAreFair
  <1>. QED
    BY <1>1, <1>2, <1>3, PTL DEF WsSpec

-----------------------------------------------------------------------------
(* The signing keys.                                                        *)

\* A clock runs for retired keys only.
OnlyRetiredAge == \A k \in SigningKeys : keyState[k] # "retired" => sinceRetired[k] = 0

\* A set that is fresh holds keys that were published a ttl and a delay ago or
\* later; one on its way, keys that were when the server answered.
CacheIsRecent ==
    cached.age < Ttl =>
        \A k \in cached.set : keyState[k] # "unborn" /\ sinceRetired[k] <= cached.age + Delay
AnswersAreRecent ==
    \A q \in Lookups : lookup[q].at = "arriving" =>
        \A k \in lookup[q].set : keyState[k] # "unborn" /\ sinceRetired[k] <= lookup[q].age

\* The key of a look-up that has been published since the look-up began is in
\* every answer to it.
SteadyIsAnswered ==
    \A q \in steady : /\ KidOf[q] \in Published
                      /\ lookup[q].at = "arriving" => KidOf[q] \in lookup[q].set

JwksInv == JwksTypeOK /\ OnlyRetiredAge /\ CacheIsRecent /\ AnswersAreRecent /\ SteadyIsAnswered

LookupRecord ==
    [at : {"idle", "try", "asked", "arriving", "found", "missed", "failed"},
     force : BOOLEAN, set : SUBSET SigningKeys, age : 0..Delay]

\* A step of a look-up makes its record a new one, and no other.
Went(q, at, force, set, age) ==
    /\ lookup' \in [Lookups -> LookupRecord]
    /\ \A r \in Lookups \ {q} : lookup'[r] = lookup[r]
    /\ lookup'[q].at = at /\ lookup'[q].force = force
    /\ lookup'[q].set = set /\ lookup'[q].age = age

\* The record of a look-up with new fields.
Fields(r, at, force, set, age) ==
    r \in LookupRecord /\ r.at = at /\ r.force = force /\ r.set = set /\ r.age = age

\* What setting the fields of a record gives.
LEMMA FieldsSet ==
  ASSUME NEW r \in LookupRecord,
         NEW at \in {"idle", "try", "asked", "arriving", "found", "missed", "failed"},
         NEW set \in SUBSET SigningKeys
  PROVE  /\ Fields([r EXCEPT !.at = at], at, r.force, r.set, r.age)
         /\ Fields([r EXCEPT !.at = at, !.set = set], at, r.force, set, r.age)
         /\ Fields([r EXCEPT !.at = at, !.set = set, !.age = 0], at, r.force, set, 0)
         /\ Fields([r EXCEPT !.at = at, !.force = TRUE, !.set = set], at, TRUE, set, r.age)
         /\ r.set \subseteq SigningKeys /\ r.age \in 0..Delay /\ r.force \in BOOLEAN
  <1>1. Fields([r EXCEPT !.at = at], at, r.force, r.set, r.age)
    BY DEF LookupRecord, Fields
  <1>2. Fields([r EXCEPT !.at = at, !.set = set], at, r.force, set, r.age)
    BY DEF LookupRecord, Fields
  <1>3. Fields([r EXCEPT !.at = at, !.set = set, !.age = 0], at, r.force, set, 0)
    <2>1. 0 \in 0..Delay
      BY JwksAssumption DEF JwksAssumption
    <2>. QED
      BY <2>1 DEF LookupRecord, Fields
  <1>4. Fields([r EXCEPT !.at = at, !.force = TRUE, !.set = set], at, TRUE, set, r.age)
    BY DEF LookupRecord, Fields
  <1>5. r.set \subseteq SigningKeys /\ r.age \in 0..Delay /\ r.force \in BOOLEAN
    BY DEF LookupRecord
  <1>. QED
    BY <1>1, <1>2, <1>3, <1>4, <1>5

\* A step that gives a look-up a new record.
LEMMA Stepping ==
  ASSUME JwksInv, NEW q \in Lookups, NEW r, NEW at, NEW force, NEW set, NEW age,
         Fields(r, at, force, set, age), Step(q, r)
  PROVE  Went(q, at, force, set, age)
  <1>1. lookup \in [Lookups -> LookupRecord]
    BY DEF JwksInv, JwksTypeOK, LookupRecord
  <1>. QED
    BY <1>1 DEF Step, Went, Fields

\* What each step makes of its look-up.
LEMMA LookupMoves ==
  ASSUME JwksInv, NEW q \in Lookups
  PROVE  /\ Ask(q) => Went(q, "try", FALSE, {}, 0)
         /\ TryCache(q) =>
              \/ /\ ~lookup[q].force /\ cached.age < Ttl
                 /\ \/ KidOf[q] \in cached.set /\ Went(q, "found", FALSE, {}, lookup[q].age)
                    \/ Went(q, "try", TRUE, {}, lookup[q].age)
              \/ Went(q, "asked", lookup[q].force, lookup[q].set, lookup[q].age)
         /\ Answers(q) => Went(q, "arriving", lookup[q].force, Published, 0)
         /\ Arrives(q) =>
              \/ KidOf[q] \in lookup[q].set /\ Went(q, "found", lookup[q].force, {}, lookup[q].age)
              \/ KidOf[q] \notin lookup[q].set /\ Went(q, "missed", TRUE, {}, lookup[q].age)
              \/ Went(q, "try", TRUE, {}, lookup[q].age)
         /\ FetchFails(q) => Went(q, "failed", lookup[q].force, {}, lookup[q].age)
  <1>. DEFINE r == lookup[q]
  <1>1. r \in LookupRecord
    BY DEF JwksInv, JwksTypeOK, LookupRecord
  <1>2. Published \subseteq SigningKeys /\ 0 \in 0..Delay
    BY JwksAssumption DEF JwksAssumption, Published
  <1>3. r.set \subseteq SigningKeys /\ r.age \in 0..Delay /\ r.force \in BOOLEAN
    BY <1>1, FieldsSet
  <1>4. ASSUME Ask(q)
        PROVE  Went(q, "try", FALSE, {}, 0)
    <2>1. Step(q, [Resting EXCEPT !.at = "try"])
      BY <1>4 DEF Ask
    <2>2. Fields([Resting EXCEPT !.at = "try"], "try", FALSE, {}, 0)
      BY <1>2 DEF Resting, Fields, LookupRecord
    <2>. QED
      BY <2>1, <2>2, Stepping
  <1>5. ASSUME NEW set, Step(q, Searched(q, set))
        PROVE  \/ KidOf[q] \in set /\ Went(q, "found", r.force, {}, r.age)
               \/ KidOf[q] \notin set /\ r.force /\ Went(q, "missed", TRUE, {}, r.age)
               \/ Went(q, "try", TRUE, {}, r.age)
    <2>1. CASE KidOf[q] \in set
      <3>1. Step(q, [r EXCEPT !.at = "found", !.set = {}])
        BY <1>5, <2>1 DEF Searched
      <3>2. Fields([r EXCEPT !.at = "found", !.set = {}], "found", r.force, {}, r.age)
        BY <1>1, FieldsSet
      <3>. QED
        BY <2>1, <3>1, <3>2, Stepping
    <2>2. CASE KidOf[q] \notin set /\ r.force
      <3>1. Step(q, [r EXCEPT !.at = "missed", !.set = {}])
        BY <1>5, <2>2 DEF Searched
      <3>2. Fields([r EXCEPT !.at = "missed", !.set = {}], "missed", r.force, {}, r.age)
        BY <1>1, FieldsSet
      <3>3. r.force = TRUE
        BY <1>3, <2>2
      <3>. QED
        BY <2>2, <3>1, <3>2, <3>3, Stepping
    <2>3. CASE KidOf[q] \notin set /\ ~r.force
      <3>1. Step(q, [r EXCEPT !.at = "try", !.force = TRUE, !.set = {}])
        BY <1>5, <2>3 DEF Searched
      <3>2. Fields([r EXCEPT !.at = "try", !.force = TRUE, !.set = {}], "try", TRUE, {}, r.age)
        BY <1>1, FieldsSet
      <3>. QED
        BY <3>1, <3>2, Stepping
    <2>. QED
      BY <2>1, <2>2, <2>3
  <1>6. ASSUME TryCache(q)
        PROVE  \/ /\ ~r.force /\ cached.age < Ttl
                  /\ \/ KidOf[q] \in cached.set /\ Went(q, "found", FALSE, {}, r.age)
                     \/ Went(q, "try", TRUE, {}, r.age)
               \/ Went(q, "asked", r.force, r.set, r.age)
    <2>1. CASE ~r.force /\ cached.age < Ttl
      <3>1. r.force = FALSE /\ Step(q, Searched(q, cached.set))
        BY <1>3, <1>6, <2>1 DEF TryCache
      <3>. QED
        BY <1>5, <2>1, <3>1
    <2>2. CASE ~(~r.force /\ cached.age < Ttl)
      <3>1. Step(q, [r EXCEPT !.at = "asked"])
        BY <1>6, <2>2 DEF TryCache
      <3>2. Fields([r EXCEPT !.at = "asked"], "asked", r.force, r.set, r.age)
        BY <1>1, <1>3, FieldsSet
      <3>. QED
        BY <3>1, <3>2, Stepping
    <2>. QED
      BY <2>1, <2>2
  <1>7. ASSUME Answers(q)
        PROVE  Went(q, "arriving", r.force, Published, 0)
    <2>1. Step(q, [r EXCEPT !.at = "arriving", !.set = Published, !.age = 0])
      BY <1>7 DEF Answers
    <2>2. Fields([r EXCEPT !.at = "arriving", !.set = Published, !.age = 0],
                 "arriving", r.force, Published, 0)
      BY <1>1, <1>2, FieldsSet
    <2>. QED
      BY <2>1, <2>2, Stepping
  <1>8. ASSUME FetchFails(q)
        PROVE  Went(q, "failed", r.force, {}, r.age)
    <2>1. Step(q, [r EXCEPT !.at = "failed", !.set = {}])
      BY <1>8 DEF FetchFails
    <2>2. Fields([r EXCEPT !.at = "failed", !.set = {}], "failed", r.force, {}, r.age)
      BY <1>1, FieldsSet
    <2>. QED
      BY <2>1, <2>2, Stepping
  <1>9. ASSUME Arrives(q)
        PROVE  \/ KidOf[q] \in r.set /\ Went(q, "found", r.force, {}, r.age)
               \/ KidOf[q] \notin r.set /\ Went(q, "missed", TRUE, {}, r.age)
               \/ Went(q, "try", TRUE, {}, r.age)
    BY <1>5, <1>9 DEF Arrives
  <1>. QED
    BY <1>4, <1>6, <1>7, <1>8, <1>9

-----------------------------------------------------------------------------
\* The types.
LEMMA JwksTypes ==
  ASSUME JwksInv, [JwksNext]_jwksVars
  PROVE  JwksTypeOK'
  <1>. USE JwksAssumption DEF JwksAssumption, JwksInv, JwksTypeOK, Horizon
  <1>1. ASSUME NEW q \in Lookups,
               Ask(q) \/ TryCache(q) \/ Answers(q) \/ Arrives(q) \/ FetchFails(q)
        PROVE  JwksTypeOK'
    <2>1. lookup' \in [Lookups -> LookupRecord]
      BY <1>1, LookupMoves DEF Went
    <2>2. cached' \in [set : SUBSET SigningKeys, age : 0..Ttl]
      BY <1>1 DEF Ask, TryCache, Answers, Arrives, FetchFails
    <2>3. steady' \subseteq Lookups /\ keyState' = keyState /\ sinceRetired' = sinceRetired
      BY <1>1 DEF Ask, TryCache, Answers, Arrives, FetchFails
    <2>. QED
      BY <2>1, <2>2, <2>3 DEF LookupRecord
  <1>2. ASSUME NEW k \in SigningKeys, Publish(k) \/ Retire(k)
        PROVE  JwksTypeOK'
    BY <1>2 DEF Publish, Retire
  <1>3. CASE Elapse
    <2>1. sinceRetired' \in [SigningKeys -> 0..(Horizon + 1)]
      BY <1>3 DEF Elapse
    <2>2. cached' \in [set : SUBSET SigningKeys, age : 0..Ttl]
      BY <1>3 DEF Elapse
    <2>3. lookup' \in [Lookups -> LookupRecord]
      <3>1. ASSUME NEW q \in Lookups, Pending(q, "arriving")
            PROVE  [lookup[q] EXCEPT !.age = @ + 1] \in LookupRecord
        BY <1>3, <3>1 DEF Elapse, LookupRecord, Pending
      <3>. QED
        BY <1>3, <3>1 DEF Elapse, LookupRecord
    <2>. QED
      BY <1>3, <2>1, <2>2, <2>3 DEF Elapse, LookupRecord
  <1>4. CASE UNCHANGED jwksVars
    BY <1>4 DEF jwksVars
  <1>. QED
    BY <1>1, <1>2, <1>3, <1>4 DEF JwksNext

\* What the clock does to the ages.
LEMMA Elapsing ==
  ASSUME JwksInv, Elapse
  PROVE  /\ \A k \in SigningKeys : /\ sinceRetired'[k] <= sinceRetired[k] + 1
                                   /\ keyState[k] # "retired" => sinceRetired'[k] = sinceRetired[k]
         /\ cached'.set = cached.set
         /\ cached'.age = IF cached.age < Ttl THEN cached.age + 1 ELSE cached.age
         /\ \A q \in Lookups : /\ lookup'[q].at = lookup[q].at /\ lookup'[q].set = lookup[q].set
                               /\ lookup[q].at = "arriving" => lookup'[q].age = lookup[q].age + 1
  BY JwksAssumption DEF JwksAssumption, JwksInv, JwksTypeOK, Elapse, Horizon, Pending

\* Every step keeps the ages below their bounds, and the keys of those that wait.
LEMMA JwksSteps ==
  ASSUME JwksInv, [JwksNext]_jwksVars
  PROVE  JwksInv'
  <1>. USE JwksAssumption DEF JwksAssumption, JwksInv, OnlyRetiredAge, CacheIsRecent,
           AnswersAreRecent, SteadyIsAnswered, Published
  <1>1. ASSUME NEW q \in Lookups,
               Ask(q) \/ TryCache(q) \/ Answers(q) \/ Arrives(q) \/ FetchFails(q)
        PROVE  OnlyRetiredAge' /\ CacheIsRecent' /\ AnswersAreRecent' /\ SteadyIsAnswered'
    <2>1. keyState' = keyState /\ sinceRetired' = sinceRetired
      BY <1>1 DEF Ask, TryCache, Answers, Arrives, FetchFails
    <2>2. \A r \in Lookups \ {q} : lookup'[r] = lookup[r]
      BY <1>1, LookupMoves DEF Went
    <2>3. lookup'[q].at = "arriving" => lookup'[q].set = Published /\ lookup'[q].age = 0
      BY <1>1, LookupMoves DEF Went
    <2>4. cached' = cached \/ (cached' = [set |-> lookup[q].set, age |-> 0]
                                /\ lookup[q].at = "arriving")
      BY <1>1 DEF Ask, TryCache, Answers, Arrives, FetchFails, Pending
    <2>5. \A r \in steady' : r \in steady \/ (r = q /\ KidOf[q] \in Published)
      BY <1>1 DEF Ask, TryCache, Answers, Arrives, FetchFails
    <2>6. \A r \in Lookups : lookup[r].age \in 0..Delay
      BY DEF JwksTypeOK
    <2>7. CacheIsRecent'
      BY <2>1, <2>4, <2>6 DEF JwksTypeOK
    <2>8. AnswersAreRecent'
      BY <2>1, <2>2, <2>3
    <2>9. SteadyIsAnswered'
      BY <2>1, <2>2, <2>3, <2>5 DEF JwksTypeOK
    <2>. QED
      BY <2>1, <2>7, <2>8, <2>9
  <1>2. ASSUME NEW k \in SigningKeys, Publish(k) \/ Retire(k)
        PROVE  OnlyRetiredAge' /\ CacheIsRecent' /\ AnswersAreRecent' /\ SteadyIsAnswered'
    BY <1>2 DEF Publish, Retire, JwksTypeOK
  <1>3. ASSUME Elapse
        PROVE  OnlyRetiredAge' /\ CacheIsRecent' /\ AnswersAreRecent' /\ SteadyIsAnswered'
    <2>1. OnlyRetiredAge' /\ SteadyIsAnswered'
      BY <1>3, Elapsing DEF Elapse, JwksTypeOK
    <2>2. CacheIsRecent'
      BY <1>3, Elapsing DEF Elapse, JwksTypeOK, Horizon
    <2>3. AnswersAreRecent'
      BY <1>3, Elapsing DEF Elapse, JwksTypeOK, Horizon
    <2>. QED
      BY <2>1, <2>2, <2>3
  <1>4. CASE UNCHANGED jwksVars
    BY <1>4 DEF jwksVars, JwksTypeOK
  <1>5. JwksTypeOK'
    BY JwksTypes
  <1>. QED
    BY <1>1, <1>2, <1>3, <1>4, <1>5 DEF JwksNext

\* No key is cached yet.
LEMMA JwksBegins == JwksInit => JwksInv
  BY JwksAssumption DEF JwksAssumption, JwksInit, JwksInv, JwksTypeOK, OnlyRetiredAge,
     CacheIsRecent, AnswersAreRecent, SteadyIsAnswered, Resting, None, Horizon

\* decoding_key: a look-up misses no key that stays published, and finds none that
\* was retired a ttl and a response's delay ago.
THEOREM KeysAreCurrentForAnyCache == JwksSpec => KeysAreCurrent
  <1>1. JwksInit => JwksInv
    BY JwksBegins
  <1>2. JwksInv /\ [JwksNext]_jwksVars => JwksInv'
    BY JwksSteps
  <1>3. ASSUME JwksInv, JwksNext, NEW q \in Lookups
        PROVE  /\ lookup[q].at # "missed" /\ lookup'[q].at = "missed" => q \notin steady
               /\ lookup[q].at # "found" /\ lookup'[q].at = "found" =>
                    /\ keyState[KidOf[q]] # "unborn"
                    /\ sinceRetired[KidOf[q]] <= Horizon
    <2>. SUFFICES ASSUME lookup'[q].at # lookup[q].at, lookup'[q].at \in {"missed", "found"}
                  PROVE  /\ lookup'[q].at = "missed" => q \notin steady
                         /\ lookup'[q].at = "found" =>
                              /\ keyState[KidOf[q]] # "unborn"
                              /\ sinceRetired[KidOf[q]] <= Horizon
      OBVIOUS
    <2>1. TryCache(q) \/ Arrives(q)
      <3>1. PICK r \in Lookups : \/ Ask(r) \/ TryCache(r) \/ Answers(r) \/ Arrives(r)
                                 \/ FetchFails(r)
        BY <1>3, Elapsing DEF JwksNext, Publish, Retire
      <3>2. r = q
        BY <1>3, <3>1, LookupMoves DEF Went
      <3>. QED
        BY <1>3, <3>1, <3>2, LookupMoves DEF Went
    <2>2. CASE TryCache(q)
      <3>1. lookup'[q].at = "found" /\ cached.age < Ttl /\ KidOf[q] \in cached.set
        BY <1>3, <2>2, LookupMoves DEF Went
      <3>. QED
        BY <1>3, <3>1, JwksAssumption
           DEF JwksAssumption, JwksInv, JwksTypeOK, CacheIsRecent, Horizon
    <2>3. CASE Arrives(q)
      <3>1. lookup[q].at = "arriving" /\ lookup[q].age \in 0..Delay
        BY <1>3, <2>3 DEF Arrives, Pending, JwksInv, JwksTypeOK
      <3>2. lookup'[q].at = "missed" => KidOf[q] \notin lookup[q].set
        BY <1>3, <2>3, LookupMoves DEF Went
      <3>3. lookup'[q].at = "found" => KidOf[q] \in lookup[q].set
        BY <1>3, <2>3, LookupMoves DEF Went
      <3>. QED
        BY <1>3, <3>1, <3>2, <3>3, JwksAssumption
           DEF JwksAssumption, JwksInv, JwksTypeOK, AnswersAreRecent, SteadyIsAnswered, Horizon
    <2>. QED
      BY <2>1, <2>2, <2>3
  <1>4. JwksInv /\ [JwksNext]_jwksVars =>
          [\A q \in Lookups :
             /\ lookup[q].at # "missed" /\ lookup'[q].at = "missed" => q \notin steady
             /\ lookup[q].at # "found" /\ lookup'[q].at = "found" =>
                  /\ keyState[KidOf[q]] # "unborn"
                  /\ sinceRetired[KidOf[q]] <= Horizon]_jwksVars
    BY <1>3
  <1>. QED
    BY <1>1, <1>2, <1>4, PTL DEF JwksSpec, KeysAreCurrent

-----------------------------------------------------------------------------
(* The four side by side, as the run has them.                              *)

\* Every state of the run is typed: the read buffer keeps its cap, the count of
\* the probes its limit, and the tables hold what their keys say.
THEOREM EdgesAreTyped == FairEdges => []EdgesTypeOK
  <1> DEFINE Inv == LinesInv /\ TableInv /\ WsInv /\ JwksInv
             all == <<transport, vars, pipeVars, wsVars, jwksVars>>
  <1>1. EdgeInit => Inv
    BY LinesBegin, TableBegins, ProbesBegin, JwksBegins DEF EdgeInit
  <1>2. Inv /\ [LineStep \/ PipeStep \/ WsStep \/ JwksStep]_all => Inv'
    <2> SUFFICES ASSUME Inv, [LineStep \/ PipeStep \/ WsStep \/ JwksStep]_all PROVE Inv'
      OBVIOUS
    <2>1. [Next]_vars /\ [PipeNext]_pipeVars /\ [WsNext]_wsVars /\ [JwksNext]_jwksVars
      BY DEF LineStep, PipeStep, WsStep, JwksStep
    <2> QED
      BY <2>1, LineSteps, TableSteps, ProbeSteps, JwksSteps
  <1>3. Inv => EdgesTypeOK
    <2>1. TableInv => PipeTypeOK
      BY DEF TableInv, Sessions, Shape, Stored, FrameRecord, Places, PipeTypeOK
    <2> QED
      BY <2>1 DEF EdgesTypeOK, LinesInv, WsInv, JwksInv
  <1> QED
    BY <1>1, <1>2, <1>3, PTL DEF FairEdges
=============================================================================

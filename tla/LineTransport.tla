---------------------------- MODULE LineTransport ----------------------------
(***************************************************************************)
(* The newline-delimited transport (turbomcp-transport-stdio) under the    *)
(* select! loops that use it: a recv future is dropped whenever another    *)
(* arm of the loop is ready first, and the next pass calls recv again.     *)
(*                                                                         *)
(* The peer's lines are one stream of bytes, counted from 1; line i is the *)
(* bytes EndOf[i-1]+1 .. EndOf[i], the last of which is the newline.  The  *)
(* read buffer is always a run of consecutive bytes, from+1 .. consumed.   *)
(***************************************************************************)
EXTENDS Naturals, Sequences

CONSTANTS
    Lines,        \* number of lines the peer writes
    EndOf,        \* [0..Lines -> Nat], increasing, EndOf[0] = 0
    MaxLine,      \* max_line_bytes
    MaxCancels    \* bound: recv futures that are dropped

Numbers == 1..Lines
Total == EndOf[Lines]

ASSUME LinesAssumption ==
    /\ Lines \in Nat /\ MaxLine \in Nat \ {0} /\ MaxCancels \in Nat
    /\ EndOf \in [0..Lines -> Nat] /\ EndOf[0] = 0
    /\ \A i, j \in 0..Lines : i < j => EndOf[i] < EndOf[j]

VARIABLES
    written,   \* bytes the peer has written
    eof,       \* it closed its end
    consumed,  \* bytes taken from the reader
    from,      \* where the read buffer starts
    reading,   \* a recv future is alive
    frames,    \* the lines recv returned as frames
    status,    \* open, ended (Ok(None)) or failed (Err)
    cut,       \* history: lines that were being read when recv was dropped
    cancels

readVars == <<consumed, from, reading, frames, status>>
lossVars == <<cut, cancels>>
vars == <<written, eof, readVars, lossVars>>

\* Nothing is returned twice.
TypeOK ==
    /\ written \in 0..Total /\ eof \in BOOLEAN
    /\ consumed \in 0..written /\ from \in 0..consumed
    /\ consumed - from <= MaxLine
    /\ reading \in BOOLEAN
    /\ frames \in Seq(Numbers) /\ Len(frames) <= Lines
    /\ status \in {"open", "ended", "failed"}
    /\ cut \subseteq Numbers /\ cancels \in 0..MaxCancels

Init ==
    /\ written = 0 /\ eof = FALSE
    /\ consumed = 0 /\ from = 0
    /\ reading = FALSE
    /\ frames = <<>>
    /\ status = "open"
    /\ cut = {} /\ cancels = 0

Ends == {EndOf[i] : i \in Numbers}

-----------------------------------------------------------------------------
(* The transport.                                                           *)

\* recv starts with an empty buffer.
Recv ==
    /\ status = "open" /\ ~reading
    /\ reading' = TRUE
    /\ from' = consumed
    /\ UNCHANGED <<written, eof, consumed, frames, status, lossVars>>

\* The buffer holds the bytes up to `to`, a whole line or what is taken for
\* one: a blank one is skipped, the text of a line is decoded, a part of it
\* does not decode.
Returned(to, text) ==
    IF to = from + 1 /\ to \in Ends
    THEN from' = to /\ UNCHANGED <<reading, frames, status>>
    ELSE /\ reading' = FALSE
         /\ UNCHANGED from
         /\ \/ \E i \in Numbers :
                 /\ from = EndOf[i - 1] /\ text = EndOf[i] - 1
                 /\ frames' = Append(frames, i)
                 /\ UNCHANGED status
            \/ /\ \A i \in Numbers : from # EndOf[i - 1] \/ text # EndOf[i] - 1
               /\ status' = "failed"
               /\ UNCHANGED frames

\* The end of the line that is being read, if it is among the bytes up to n.
FirstEnd(n) == {e \in Ends : consumed < e /\ e <= n
                             /\ \A d \in Ends : consumed < d => e <= d}

\* Slip: everything that is available is taken.
FillGreedy(n) ==
    /\ status = "open" /\ reading
    /\ consumed < n /\ n <= written
    /\ LET ends == FirstEnd(n)
       IN  IF n - from > MaxLine
           THEN /\ status' = "failed" /\ reading' = FALSE
                /\ UNCHANGED <<consumed, from, frames>>
           ELSE /\ consumed' = n
                /\ IF ends # {} THEN \E e \in ends : Returned(e, e - 1)
                                ELSE UNCHANGED <<from, reading, frames, status>>
    /\ UNCHANGED <<written, eof, lossVars>>

\* Slip: the line is measured when it is complete.
FillUncapped(n) ==
    /\ status = "open" /\ reading
    /\ consumed < n /\ n <= written
    /\ LET ends == FirstEnd(n)
           to == IF ends = {} THEN n ELSE CHOOSE e \in ends : TRUE
       IN  IF ends # {} /\ to - from > MaxLine
           THEN /\ status' = "failed" /\ reading' = FALSE
                /\ UNCHANGED <<consumed, from, frames>>
           ELSE /\ consumed' = to
                /\ IF ends # {} THEN Returned(to, to - 1)
                                ELSE UNCHANGED <<from, reading, frames, status>>
    /\ UNCHANGED <<written, eof, lossVars>>

\* fill_buf: bytes up to n are available.  What precedes the first newline is
\* taken, or all of them; a line over the cap is refused unread.
Fill(n) ==
    /\ status = "open" /\ reading
    /\ consumed < n /\ n <= written
    /\ LET ends == FirstEnd(n)
           to == IF ends = {} THEN n ELSE CHOOSE e \in ends : TRUE
       IN  IF to - from > MaxLine
           THEN /\ status' = "failed" /\ reading' = FALSE
                /\ UNCHANGED <<consumed, from, frames>>
           ELSE /\ consumed' = to
                /\ IF ends # {} THEN Returned(to, to - 1)
                                ELSE UNCHANGED <<from, reading, frames, status>>
    /\ UNCHANGED <<written, eof, lossVars>>

\* Slip: a line that lacks its newline is not a line.
AtEofDropping ==
    /\ status = "open" /\ reading
    /\ eof /\ consumed = written
    /\ status' = "ended" /\ reading' = FALSE
    /\ UNCHANGED <<written, eof, consumed, from, frames, lossVars>>

\* End of stream: a last line without a newline still counts.
AtEof ==
    /\ status = "open" /\ reading
    /\ eof /\ consumed = written
    /\ IF from = consumed
       THEN /\ status' = "ended" /\ reading' = FALSE
            /\ UNCHANGED <<from, frames>>
       ELSE Returned(consumed, consumed)
    /\ UNCHANGED <<written, eof, consumed, lossVars>>

\* Another arm of select! is ready first: the future is dropped.
Cancel ==
    /\ status = "open" /\ reading
    /\ cancels < MaxCancels
    /\ cancels' = cancels + 1
    /\ cut' = cut \cup {i \in Numbers : EndOf[i - 1] < consumed /\ consumed < EndOf[i]}
    /\ reading' = FALSE
    /\ UNCHANGED <<written, eof, consumed, from, frames, status>>

-----------------------------------------------------------------------------
(* The peer.                                                                *)

PeerWrites(n) ==
    /\ ~eof
    /\ written < n /\ n <= Total
    /\ written' = n
    /\ UNCHANGED <<eof, readVars, lossVars>>

PeerCloses ==
    /\ ~eof
    /\ eof' = TRUE
    /\ UNCHANGED <<written, readVars, lossVars>>

Over == status # "open" /\ UNCHANGED vars

-----------------------------------------------------------------------------
Next ==
    \/ Recv \/ AtEof \/ Cancel
    \/ \E n \in 1..Total : Fill(n) \/ PeerWrites(n)
    \/ PeerCloses \/ Over

Spec == Init /\ [][Next]_vars

\* The select! loop polls the transport.
FairSpec == Spec /\ WF_vars(Recv) /\ WF_vars(AtEof)
                 /\ WF_vars(\E n \in 1..Total : Fill(n))

-----------------------------------------------------------------------------
(* Properties.                                                              *)

Delivered(i) == \E k \in DOMAIN frames : frames[k] = i
Blank(i) == EndOf[i] = EndOf[i - 1] + 1

\* "Each inbound line is one complete frame (blank lines are skipped)": frames
\* come in the order of their lines and, as long as no error was reported, every
\* line that was consumed has been returned, unless a recv that held a part of it
\* was dropped.  When recv reports the end of the stream, so has every line whose
\* text was written, be it without its newline.
NoLineIsLost ==
    /\ \A j, k \in DOMAIN frames : j < k => frames[j] < frames[k]
    /\ status # "failed" =>
        \A i \in Numbers \ cut : EndOf[i] <= consumed => Blank(i) \/ Delivered(i)
    /\ status = "ended" =>
        \A i \in Numbers \ cut : EndOf[i] - 1 <= written => Blank(i) \/ Delivered(i)

\* What the peer wrote is returned, its last line included, whether or not that
\* has its newline.
LinesArrive ==
    \A i \in Numbers :
        (written >= EndOf[i] - 1 /\ eof /\ ~Blank(i))
            ~> (Delivered(i) \/ i \in cut \/ status = "failed")
=============================================================================

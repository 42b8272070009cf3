------------------------------ MODULE LogSink ------------------------------
(***************************************************************************)
(* The log of one job: what its processes and the runner write, cut at a   *)
(* cap, and the pipes of the processes, which wait for a congested file.   *)
(* A byte is a number; the file is how many bytes of output it begins with *)
(* and whether the marker of truncation follows.                           *)
(***************************************************************************)
EXTENDS Integers

CONSTANTS
  Cap,         \* capBytes
  Marker,      \* length of the truncation marker for this cap
  Chunks,      \* sizes of what is written at once
  MaxOffered   \* bound: bytes offered

ASSUME SinkBounds == Cap \in Nat /\ Marker \in Nat /\ Chunks \subseteq Nat /\ MaxOffered \in Nat

VARIABLES
  written, truncated,    \* LogSink
  stored, marked,        \* the file
  congested,             \* the file's stream owes a drain event
  paused,                \* pipes that resume at the next one
  offered                \* history: bytes offered to the sink

sinkVars == <<written, truncated, stored, marked, congested, paused, offered>>

Pipes == {"stdout", "stderr"}
CutAt(n) == IF n > 0 THEN n ELSE 0
FullCap == Cap  \* mutant: the marker comes on top of the cap
ContentCap == CutAt(Cap - Marker)

SinkTypeOK ==
  /\ written \in Nat /\ stored \in Nat /\ offered \in Nat
  /\ truncated \in BOOLEAN /\ marked \in BOOLEAN /\ congested \in BOOLEAN
  /\ paused \subseteq Pipes

SinkInit ==
  /\ written = 0 /\ stored = 0 /\ offered = 0
  /\ truncated = FALSE /\ marked = FALSE /\ congested = FALSE
  /\ paused = {}

-----------------------------------------------------------------------------
\* Once truncated, a write is accepted and dropped.
Drop(size) ==
  /\ truncated
  /\ UNCHANGED <<written, truncated, stored, marked, congested>>

\* The answer of the stream: a stream that is congested stays so until it drains.
Fits(size) ==
  /\ ~truncated /\ size <= ContentCap - written
  /\ written' = written + size /\ stored' = stored + size
  /\ congested' \in {TRUE, congested}
  /\ UNCHANGED <<truncated, marked>>

\* The chunk that crosses the cap: its head, then the marker.
Crosses(size) == LET head == CutAt(ContentCap - written) IN
  /\ ~truncated /\ size > ContentCap - written
  /\ stored' = stored + head
  /\ written' = written + head + Marker
  /\ truncated' = TRUE /\ marked' = TRUE
  /\ congested' \in {TRUE, congested}

Offer(size) == offered + size <= MaxOffered /\ offered' = offered + size

\* Output of a step; its pipe is paused when the write was not accepted.
PipeData(pipe, size) ==
  /\ pipe \notin paused /\ Offer(size)
  /\ \/ (Drop(size) \/ Crosses(size)) /\ UNCHANGED paused
     \/ Fits(size) /\ paused' = IF congested' THEN paused \cup {pipe} ELSE paused

\* A line of the runner itself, under the same cap; nothing waits for it.
Frame(size) == Offer(size) /\ (Drop(size) \/ Fits(size) \/ Crosses(size)) /\ UNCHANGED paused

\* mutant: one pipe resumes at a drain
DrainOne ==
  /\ congested /\ congested' = FALSE
  /\ paused' = paused \ {"stdout"}
  /\ UNCHANGED <<written, truncated, stored, marked, offered>>

Drain ==
  /\ congested /\ congested' = FALSE
  /\ paused' = {}
  /\ UNCHANGED <<written, truncated, stored, marked, offered>>

SinkNext == Drain \/ \E size \in Chunks : Frame(size) \/ \E pipe \in Pipes : PipeData(pipe, size)
SinkSpec == SinkInit /\ [][SinkNext]_sinkVars

-----------------------------------------------------------------------------
(***************************************************************************)
(* The log is a prefix of the output, as long as the cap allows, and says  *)
(* that it is cut exactly when it is; with its marker it never passes the  *)
(* cap, whatever the sizes, unless the cap is too small for the marker.    *)
(***************************************************************************)
LogIsMarkedPrefix ==
  /\ stored = (IF offered <= ContentCap THEN offered ELSE ContentCap)
  /\ marked = (offered > ContentCap)
  /\ Cap >= Marker => stored + (IF marked THEN Marker ELSE 0) <= Cap

(***************************************************************************)
(* A paused pipe waits for a drain event that is still to come: the log    *)
(* never stops a job for good.                                             *)
(***************************************************************************)
PausedWillResume == paused # {} => congested
=============================================================================

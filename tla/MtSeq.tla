-------------------------------- MODULE MtSeq --------------------------------
(***************************************************************************)
(* The sequence number of the tracker (seq_begin, seq_next, seq_save in    *)
(* meshtrack/firmware/meshtrack/MtTracker.cpp) and its file in flash       *)
(* (mt_file_write and write_whole in MtConfig.cpp, which removes the file  *)
(* and then writes it again).  The number is saved once per Step messages; *)
(* a restart skips Step numbers.  The server takes a number that it saw    *)
(* within the last 24 hours for a repetition, and stores nothing.          *)
(*                                                                         *)
(* Left out: the copy in the internal flash that older firmware wrote.     *)
(***************************************************************************)
EXTENDS Integers, SequencesExt

CONSTANTS
  W,          \* 2^16: the number is a uint16_t
  Step,       \* SEQ_STEP
  MaxSent,    \* bound: messages within the window of the server
  MaxStarts    \* bound: restarts within that window

\* Within the window the number does not come around.
ASSUME SpanAssumption ==
  /\ {W, Step} \subseteq Nat \ {0} /\ {MaxSent, MaxStarts} \subseteq Nat
  /\ MaxSent + Step * MaxStarts <= W

VARIABLES
  pc,         \* "off", "boot" (seq_begin saves), "run", "next" (seq_next saves)
  file,       \* the number in the file; Missing: no file, or not a whole one
  seq,        \* s_seq
  saved,      \* s_seq_saved
  starts,     \* restarts so far
  \* history:
  log,        \* the numbers given to messages
  lost        \* a start found no whole file, though numbers had been given

seqVars == <<pc, file, seq, saved, starts, log, lost>>
-----------------------------------------------------------------------------
Numbers == 0 .. W - 1
Missing == W

Plus(a, b)  == (a + b) % W
Minus(a, b) == (a - b + W) % W

\* The outcome of seq_save once the old file is gone: writing may fail.
Written == {seq, Missing}

\* The number in use, the one saved and all numbers sent stay within their width.
SeqTypeOK ==
  /\ pc \in {"off", "boot", "run", "next"} /\ file \in Numbers \cup {Missing}
  /\ seq \in Numbers /\ saved \in Numbers /\ starts \in 0 .. MaxStarts
  /\ log \in Seq(Numbers) /\ Len(log) <= MaxSent /\ lost \in BOOLEAN

\* A tracker that is new, or was off when the window of the server began.
SeqInit ==
  /\ pc = "off" /\ file \in Numbers \cup {Missing} /\ seq = 0 /\ saved = 0 /\ starts = 0
  /\ log = <<>> /\ lost = FALSE

\* seq_begin that goes on with the number it saved.
Boot_NoSkip ==
  /\ pc = "off" /\ starts < MaxStarts
  /\ starts' = starts + 1
  /\ seq' = IF file = Missing THEN 0 ELSE file
  /\ file' = Missing /\ pc' = "boot"
  /\ lost' = (lost \/ (file = Missing /\ log # <<>>))
  /\ UNCHANGED <<saved, log>>

\* seq_begin, up to the removal of the file in seq_save.
Boot ==
  /\ pc = "off" /\ starts < MaxStarts
  /\ starts' = starts + 1
  /\ seq' = Plus(IF file = Missing THEN 0 ELSE file, Step)
  /\ file' = Missing /\ pc' = "boot"
  /\ lost' = (lost \/ (file = Missing /\ log # <<>>))
  /\ UNCHANGED <<saved, log>>

\* The end of seq_save in seq_begin; a failure is not looked at.
BootSaved ==
  /\ pc = "boot"
  /\ file' \in Written
  /\ saved' = seq /\ pc' = "run"
  /\ UNCHANGED <<seq, starts, log, lost>>

\* A number that counts on past the width of the variable.
SeqNext_NoWrap ==
  /\ pc = "run" /\ Len(log) < MaxSent
  /\ seq' = seq + 1
  /\ IF Minus(seq', saved) >= Step
     THEN pc' = "next" /\ file' = Missing /\ log' = log
     ELSE pc' = pc /\ file' = file /\ log' = Append(log, seq)
  /\ UNCHANGED <<saved, starts, lost>>

\* seq_next: the message gets its number, or the number is saved first.
SeqNext ==
  /\ pc = "run" /\ Len(log) < MaxSent
  /\ seq' = Plus(seq, 1)
  /\ IF Minus(seq', saved) >= Step
     THEN pc' = "next" /\ file' = Missing /\ log' = log
     ELSE pc' = pc /\ file' = file /\ log' = Append(log, seq)
  /\ UNCHANGED <<saved, starts, lost>>

\* The end of seq_save in seq_next; then the message gets its number.
NextSaved ==
  /\ pc = "next"
  /\ file' \in Written
  /\ saved' = seq /\ pc' = "run"
  /\ log' = Append(log, Minus(seq, 1))
  /\ UNCHANGED <<seq, starts, lost>>

\* The power fails, or the tracker restarts.
PowerOff ==
  /\ pc # "off"
  /\ pc' = "off"
  /\ UNCHANGED <<file, seq, saved, starts, log, lost>>

SeqAnyStep == Boot \/ BootSaved \/ SeqNext \/ NextSaved \/ PowerOff

SeqSpec == SeqInit /\ [][SeqAnyStep]_seqVars
-----------------------------------------------------------------------------
\* No two messages within the window of the server have the same number, also
\* over restarts, unless one of them found no file: "Na een herstart altijd
\* voorbij alles wat al verstuurd kan zijn" (seq_begin).  The server would call
\* the second message a repetition and lose its points.  That the file can be
\* gone is no modelling choice: seq_save does not look at the outcome, and
\* write_whole removes the file before it writes it.
NeverReused == ~lost => IsInjective(log)
=============================================================================

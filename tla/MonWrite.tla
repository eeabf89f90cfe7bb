----------------------------- MODULE MonWrite ------------------------------
(***************************************************************************)
(* What the write of one setting to a monitored repeater promises to the   *)
(* one who asked for it: the command leaves at most once, what is read     *)
(* back is asked for after the answer to it, and what was said and read is *)
(* there until the next write begins.  Nothing of lists, radios or other   *)
(* jobs; MonRadio implements it.                                           *)
(***************************************************************************)
EXTENDS Naturals

VARIABLES
  waiting,   \* a request waits for its turn
  stage,     \* how far the write is
  sets,      \* how many times "set" left for this write
  said,      \* what "set" answered
  read       \* a value was read back

wvars == <<waiting, stage, sets, said, read>>

Init ==
  /\ waiting = FALSE /\ stage = "rest"
  /\ sets = 0 /\ said = "no" /\ read = FALSE

\* A request is only taken when no write runs; it may replace one that expired.
Ask ==
  /\ stage = "rest"
  /\ waiting' = TRUE
  /\ UNCHANGED <<stage, sets, said, read>>

Expire ==
  /\ waiting /\ waiting' = FALSE
  /\ UNCHANGED <<stage, sets, said, read>>

\* With a session the command leaves at once; it may also come to nothing.
Begin ==
  /\ waiting /\ stage = "rest" /\ waiting' = FALSE
  /\ \/ stage' \in {"login", "rest"} /\ sets' = 0
     \/ stage' = "set" /\ sets' = 1
  /\ said' = "no" /\ read' = FALSE

SetLeaves ==
  /\ stage = "login"
  /\ stage' = "set" /\ sets' = sets + 1
  /\ UNCHANGED <<waiting, said, read>>

SetAnswered ==
  /\ stage = "set"
  /\ stage' = "pause" /\ said' \in {"ok", "err"}
  /\ UNCHANGED <<waiting, sets, read>>

GetLeaves ==
  /\ stage = "pause"
  /\ stage' = "get"
  /\ UNCHANGED <<waiting, sets, said, read>>

ReadBack ==
  /\ stage = "get"
  /\ stage' = "rest" /\ read' \in BOOLEAN
  /\ UNCHANGED <<waiting, sets, said>>

\* Silence, a full packet pool, no time or no battery: it ends where it was.
GiveUp ==
  /\ stage # "rest"
  /\ stage' = "rest"
  /\ UNCHANGED <<waiting, sets, said, read>>

Next ==
  \/ Ask \/ Expire \/ Begin \/ SetLeaves \/ SetAnswered
  \/ GetLeaves \/ ReadBack \/ GiveUp

Spec == Init /\ [][Next]_wvars
============================================================================

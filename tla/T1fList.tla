------------------------------- MODULE T1fList -------------------------------
(***************************************************************************)
(* What the scheduler of T1F messages promises of the numbers of one       *)
(* tracker, without order, time, channels and limits.  A number that came  *)
(* in with a Q message is on the list; a T1F takes numbers off it; when    *)
(* the T1F went out they are gone, and when it did not they are all back.  *)
(* So a number is on its way once, is carried again only when it was asked *)
(* for again, and no T1F carries a number that nobody asked for.  That is  *)
(* the list that FifoServer confirms from: its pending is list \cup out.   *)
(***************************************************************************)
CONSTANT Seqs  \* sequence numbers

VARIABLES
  list,  \* numbers to confirm
  out,   \* numbers of the T1F that is being sent
  open   \* numbers asked for that no T1F has carried since

listVars == <<list, out, open>>

ListInit == list = {} /\ out = {} /\ open = {}

\* A Q message with number s.
Ask(s) ==
  /\ list' = list \cup {s} /\ open' = open \cup {s}
  /\ UNCHANGED out

\* A T1F with the numbers S is being sent.
Take(S) ==
  /\ out = {} /\ S \subseteq list
  /\ list' = list \ S /\ out' = S
  /\ UNCHANGED open

\* It went out.
Carried ==
  /\ out' = {} /\ open' = open \ out
  /\ UNCHANGED list

\* It did not.
PutBack ==
  /\ list' = list \cup out /\ out' = {}
  /\ UNCHANGED open

\* The tracker is deleted: nobody waits for its numbers any more.
Abandon == open' = {} /\ UNCHANGED <<list, out>>

\* Numbers that nobody waits for are dropped.
Discard ==
  /\ open = {} /\ list' = {}
  /\ UNCHANGED <<out, open>>

\* The server restarts (the list was in memory only), or the list goes with a
\* channel that was deleted.
StartAnew == list' = {} /\ out' = {} /\ open' = {}

ListNext ==
  \/ \E s \in Seqs : Ask(s)
  \/ \E S \in SUBSET list : Take(S)
  \/ Carried \/ PutBack \/ Abandon \/ Discard \/ StartAnew

ListSpec == ListInit /\ [][ListNext]_listVars
=============================================================================

------------------------------ MODULE SweepSched ------------------------------
(***************************************************************************)
(* The planner of MeshManager that has the CLI settings of nodes read over *)
(* the radio (server/app/sweepsched.py).  A thread looks once a minute:    *)
(* first it judges the rounds that were asked for long enough ago, then it *)
(* asks for at most one new round, of the node that waits longest, from    *)
(* the monitor at the cursor in the list of that node.  All it knows is in *)
(* the ledger, one row per node, in the database.                          *)
(*                                                                         *)
(* Time is counted in units of at least a tick, and every moment is kept   *)
(* as the time since it, up to Old.  The broker, the monitors and what     *)
(* they have to say about their rights are choices, and so is what somebody *)
(* makes of the lists of monitors.  A ledger of more than 200 rows is left  *)
(* out.                                                                    *)
(***************************************************************************)
EXTENDS Integers, Sequences, Places

CONSTANTS
  Nodes,
  Interval,   \* interval_minutes of each node; 0: no schedule
  Listings,   \* the number of candidates of each node, as they may be set
  MaxEdits,   \* bound: changes of the lists of monitors
  Gap,        \* MIN_GAP_MIN
  Verify,     \* VERIFY_AFTER_S
  Day,        \* the 86400 s of _sweeps_last_day
  MaxPerDay,
  Old         \* bound: ages are told apart up to here

\* MIN_GAP_MIN is at least the ten minutes of VERIFY_AFTER_S.
ASSUME SweepAssumption ==
  /\ Interval \in [Nodes -> Nat] /\ Listings \subseteq [Nodes -> Nat] /\ MaxEdits \in Nat
  /\ {Gap, Verify, Day, MaxPerDay, Old} \subseteq Nat \ {0}
  /\ Verify <= Gap /\ Gap < Day /\ Day <= Old
  /\ \A n \in Nodes : Interval[n] < Old

VARIABLES
  ledger,     \* node -> its row: time since "at", result, cursor
  fresh,      \* nodes with values newer than "seen_before" of their row
  listed,     \* the number of candidates of each node (monitors.candidates)
  edits,
  ticked,     \* run_once ran since the last unit of time began
  \* history, read by no action:
  sent        \* times since each round that really went out in the last day

vars == <<ledger, fresh, listed, edits, ticked, sent>>
-----------------------------------------------------------------------------
\* "other": no monitor known, or publishing failed; "away": the monitor cannot
\* be reached.
Results == {"asked", "answered", "silent", "exhausted", "refused", "away", "other"}
Row     == [age : 0 .. Old, result : Results, cursor : Nat]

SweepTypeOK ==
  /\ DOMAIN ledger \subseteq Nodes /\ fresh \subseteq Nodes /\ ticked \in BOOLEAN
  /\ listed \in Listings /\ edits \in 0 .. MaxEdits
  /\ \A n \in DOMAIN ledger :
       /\ ledger[n] \in Row
       /\ ledger[n].cursor = 0 \/ \E k \in Listings : ledger[n].cursor < k[n]
  /\ sent \in Seq(0 .. Day)

Set(l, n, row) == [m \in DOMAIN l \cup {n} |-> IF m = n THEN row ELSE l[m]]
-----------------------------------------------------------------------------
\* verify_pending, with a term that must have passed entirely.
Ripe_Late(n) == ledger[n].result = "asked" /\ ledger[n].age > Verify

\* The rounds verify_pending judges.
Ripe(n) == ledger[n].result = "asked" /\ ledger[n].age >= Verify

\* _na_stilte with an off-by-one at the end of the list.
Silence_Beyond(n, row, refused) ==
  IF refused /\ row.cursor < listed[n] THEN [row EXCEPT !.result = "refused"]
  ELSE IF row.cursor + 1 > listed[n]
       THEN [row EXCEPT !.result = IF listed[n] <= 1 THEN "silent" ELSE "exhausted", !.cursor = 0]
       ELSE [row EXCEPT !.result = "silent", !.cursor = @ + 1]

\* _na_stilte that never gets to the second candidate.
Silence_FirstOnly(n, row, refused) ==
  IF refused /\ row.cursor < listed[n] THEN [row EXCEPT !.result = "refused"]
  ELSE [row EXCEPT !.result = "exhausted", !.cursor = 0]

\* _na_stilte: the row after silence.  refused: the list of the monitor shows
\* that it cannot ask this node, so the next candidate would hide that.
Silence(n, row, refused) ==
  IF refused /\ row.cursor < listed[n] THEN [row EXCEPT !.result = "refused"]
  ELSE IF row.cursor + 1 >= listed[n]
       THEN [row EXCEPT !.result = IF listed[n] <= 1 THEN "silent" ELSE "exhausted", !.cursor = 0]
       ELSE [row EXCEPT !.result = "silent", !.cursor = @ + 1]

\* verify_pending: the ledger once the rounds that are due are judged.
Judged(refusers) ==
  [n \in DOMAIN ledger |->
     IF ~Ripe(n) THEN ledger[n]
     ELSE IF n \in fresh THEN [ledger[n] EXCEPT !.result = "answered", !.cursor = 0]
     ELSE Silence(n, ledger[n], n \in refusers)]
-----------------------------------------------------------------------------
\* due_at: how long ago the turn of node n came; negative: it did not come yet.
\* A node that was never asked, and one with a candidate that had no chance
\* yet, is due now.
Overdue(l, n) ==
  IF n \notin DOMAIN l THEN 0
  ELSE IF l[n].result = "silent" /\ l[n].cursor > 0 THEN 0
  ELSE l[n].age - Interval[n]

Due(l) == {n \in Nodes : Interval[n] > 0 /\ Overdue(l, n) >= 0}

\* The minimum distance looked at per node.
MayAsk_PerNode(l) ==
  /\ \E n \in Due(l) : n \in DOMAIN l => l[n].age >= Gap
  /\ Cardinality({n \in DOMAIN l : l[n].age < Day}) < MaxPerDay

\* The minimum distance, over all rows of the ledger, and the budget of a day
\* (_last_any, _sweeps_last_day).
MayAsk(l) ==
  /\ \A n \in DOMAIN l : l[n].age >= Gap
  /\ Cardinality({n \in DOMAIN l : l[n].age < Day}) < MaxPerDay

\* The most overdue node wins; which of several is the order of the page.
First(l) == {n \in Due(l) : \A m \in Due(l) : Overdue(l, m) <= Overdue(l, n)}
-----------------------------------------------------------------------------
Init ==
  /\ ledger = [n \in {} |-> [age |-> 0, result |-> "other", cursor |-> 0]]
  /\ fresh = {} /\ listed \in Listings /\ edits = 0 /\ ticked = FALSE /\ sent = <<>>

\* run_once that asks for nothing: disabled for now by the minimum distance or
\* the budget, nobody is due, or there is no broker.
TickIdle ==
  \E refusers \in SUBSET Nodes :
    /\ ledger' = Judged(refusers)
    /\ ticked' = TRUE
    /\ UNCHANGED <<fresh, listed, edits, sent>>

\* run_once for node n, which has no monitor at all.
TickNoMonitor(n) ==
  \E refusers \in SUBSET Nodes : LET l == Judged(refusers) IN
    /\ MayAsk(l) /\ n \in First(l) /\ listed[n] = 0
    /\ ledger' = Set(l, n, [age |-> 0, result |-> "other", cursor |-> 0])
    /\ ticked' = TRUE
    /\ UNCHANGED <<fresh, listed, edits, sent>>

\* The monitor of node n whose turn it is.
Cursor(l, n) == IF n \in DOMAIN l /\ l[n].cursor < listed[n] THEN l[n].cursor ELSE 0

\* A monitor that cannot be reached and leaves no trace in the ledger.
TickAway_NoRecord(n) ==
  \E refusers \in SUBSET Nodes : LET l == Judged(refusers) IN
    /\ MayAsk(l) /\ n \in First(l) /\ listed[n] > 0
    /\ ledger' = l
    /\ ticked' = TRUE
    /\ UNCHANGED <<fresh, listed, edits, sent>>

\* run_once when that monitor cannot be reached: the next one gets the turn of
\* node n, after its interval.
TickAway(n) ==
  \E refusers \in SUBSET Nodes : LET l == Judged(refusers) IN
    /\ MayAsk(l) /\ n \in First(l) /\ listed[n] > 0
    /\ LET next == Cursor(l, n) + 1
       IN ledger' = Set(l, n, [age |-> 0, result |-> "away",
                               cursor |-> IF next < listed[n] THEN next ELSE 0])
    /\ ticked' = TRUE
    /\ UNCHANGED <<fresh, listed, edits, sent>>

\* run_once that publishes the question for node n, and notes it.
TickAsk(n, ok) ==
  \E refusers \in SUBSET Nodes : LET l == Judged(refusers) IN
    /\ MayAsk(l) /\ n \in First(l) /\ listed[n] > 0
    /\ ledger' = Set(l, n, [age |-> 0, result |-> IF ok THEN "asked" ELSE "other",
                            cursor |-> Cursor(l, n)])
    /\ fresh' = fresh \ {n}
    /\ sent' = IF ok THEN Append(sent, 0) ELSE sent
    /\ ticked' = TRUE
    /\ UNCHANGED <<listed, edits>>

\* run_once that comes to asking, and it is the turn of node n.
Turn(n) == TickNoMonitor(n) \/ TickAway(n) \/ \E ok \in BOOLEAN : TickAsk(n, ok)

\* Values of a node come in: the answer to a round, or any other.
Answer(n) ==
  /\ n \in DOMAIN ledger /\ n \notin fresh
  /\ fresh' = fresh \cup {n}
  /\ UNCHANGED <<ledger, listed, edits, ticked, sent>>

\* Somebody changes the list of a node or a group, also while a round is open:
\* the cursor in the ledger stays what it was.
SetMonitors ==
  /\ edits < MaxEdits /\ edits' = edits + 1
  /\ listed' \in Listings \ {listed}
  /\ UNCHANGED <<ledger, fresh, ticked, sent>>

\* One unit of time, in which the thread looked at least once.
Advance ==
  /\ ticked /\ ticked' = FALSE
  /\ ledger' = [n \in DOMAIN ledger |-> [ledger[n] EXCEPT !.age = Least(@ + 1, Old)]]
  /\ sent' = AtPlaces([i \in DOMAIN sent |-> sent[i] + 1],
                      {i \in DOMAIN sent : sent[i] + 1 < Day})
  /\ UNCHANGED <<fresh, listed, edits>>

Next ==
  \/ TickIdle
  \/ \E n \in Nodes : Turn(n) \/ Answer(n)
  \/ SetMonitors
  \/ Advance

\* The thread goes on, time passes, and there is a broker, often enough, when
\* it is the turn of a node.
Fairness ==
  /\ WF_vars(Advance) /\ WF_vars(TickIdle)
  /\ \A n \in Nodes : SF_vars(Turn(n))

Spec == Init /\ [][Next]_vars /\ Fairness
-----------------------------------------------------------------------------
\* "Eén ronde tegelijk, met een minimumafstand ertussen": whatever nodes they
\* are for, and however the rounds before ended (run_once, _last_any).
GapKept == \A i, j \in DOMAIN sent : i < j => sent[i] - sent[j] >= Gap

\* "zodat het oordeel altijd valt vóór de volgende ronde vertrekt": at no time
\* two rounds wait for their verdict (VERIFY_AFTER_S, verify_pending), so what
\* comes in can only belong to one.
OneOpen == Cardinality({n \in DOMAIN ledger : ledger[n].result = "asked"}) <= 1

\* Each node with a schedule gets its turn again and again: monitors that are
\* silent, refuse or are away, the budget of a day and the turns of the other
\* candidates delay it ("Anders blijft hij elke minuut de meest achterstallige
\* en komt niemand anders meer aan de beurt", run_once).
EveryNodeAsked ==
  \A n \in Nodes : Interval[n] > 0 =>
    []<>(n \in DOMAIN ledger /\ ledger[n].age = 0)

\* As long as a node stays silent, each of its candidates gets its turn again
\* and again (_na_stilte, run_once).
CandidatesTried ==
  \A n \in Nodes : \A c \in UNION {0 .. k[n] - 1 : k \in Listings} :
    \/ []<>(n \in DOMAIN ledger /\ ledger[n].cursor = c)
    \/ []<>(n \in DOMAIN ledger /\ ledger[n].result \in {"answered", "refused", "other"})
    \/ []<>(c >= listed[n])

\* "Hoeveel rondes er per etmaal in totaal mogen starten" (MAX_PER_DAY).
DayBudget == Len(sent) <= MaxPerDay
=============================================================================

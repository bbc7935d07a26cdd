----------------------------- MODULE MCTaskLoop -----------------------------
(* Small instances of TaskLoop for TLC: phase maps.                        *)
EXTENDS TaskLoop
CONSTANTS t1, t2
One == << <<t1>> >>
OnePerPhase == << <<t1>>, <<t2>> >>

\* The documented procedure: a command is sent to a loop that has returned,
\* one at a time, and the listener finishes it; no Deep Diagnose is asked for.
OrderlyStep ==
  /\ Next
  /\ ListenerRestart => \E s \in Sessions : Write(s)
  /\ UNCHANGED <<loopVars, cmdVars>> => UNCHANGED vars
  /\ commands' # commands =>
       pc = "down" /\ lastEvent = "terminal" /\ \A s \in Sessions : todo[s] = << >>
OrderlySpec == Init /\ [][OrderlyStep]_vars /\ Fairness
=============================================================================

---------------------------- MODULE LoopDetector ----------------------------
(***************************************************************************)
(* LoopDetector: for every agent and every key (upstream path and hash of  *)
(* the body) the times of the requests inside the sliding window.          *)
(***************************************************************************)
EXTENDS Naturals, Sequences, Filters

CONSTANTS
    Agents, Keys,
    Threshold, Window  \* per agent: getAgentConfig

VARIABLE windows

WindowsTypeOK == windows \in [Agents -> [Keys -> Seq(Nat)]]

NoWindows == [a \in Agents |-> [k \in Keys |-> <<>>]]

\* Mutant: a request exactly one window old still counts.
Recorded_Inclusive(a, k, t) ==
    LET s == Append(windows[a][k], t)
    IN  Filtered(s, {i \in DOMAIN s : s[i] + Window[a] >= t})

\* The timestamps recordRequest leaves for a request made at t: its own and those
\* less than one window old.
Recorded(a, k, t) ==
    LET s == Append(windows[a][k], t)
    IN  Filtered(s, {i \in DOMAIN s : s[i] + Window[a] > t})

RecordRequest(a, k, t) == windows' = [windows EXCEPT ![a][k] = Recorded(a, k, t)]

\* isLooping, asked right after recordRequest.
IsLooping(a, k, t) == Len(Recorded(a, k, t)) >= Threshold[a]
=============================================================================

--------------------------------- MODULE LogFile --------------------------------
(***************************************************************************)
(* src/Log.cpp: the log beside the DLL and its one previous generation.     *)
(* Lines are numbered.  A line stands for as many octets as it takes to     *)
(* fill the log with LogLines of them.  Logs are values: whoever owns one   *)
(* keeps it in a variable.                                                  *)
(***************************************************************************)
EXTENDS Integers, FiniteSets

CONSTANT LogLines    \* kRotateBytes, in lines

ASSUME LogLinesAssumption == LogLines \in Nat \ {0}

\* What is on disk, whether there is a Log object and its file is open (m_file),
\* the last line there was to write, and whether a file operation ever failed.
NoLog == [current |-> {}, previous |-> {}, made |-> FALSE, open |-> FALSE, last |-> 0,
          failed |-> FALSE]

\* The constructor opens to append: what an earlier session wrote stays, and
\* counts towards the limit.
MakeLog(l) == {[l EXCEPT !.made = TRUE, !.open = ok, !.failed = @ \/ ~ok] : ok \in BOOLEAN}

DropLog(l) == [l EXCEPT !.made = FALSE, !.open = FALSE]

\* Mutant: rename alone does not replace a file that exists.
Rotate_NoRemove(l) ==
    {[l EXCEPT !.previous = IF @ = {} THEN l.current ELSE @, !.current = {}]}

\* The previous generation is removed and the log takes its name; rename fails
\* when the old one is still there.
Renamed(l, removed, renamed) ==
    IF (removed \/ l.previous = {}) /\ renamed
    THEN [l EXCEPT !.previous = l.current, !.current = {}]
    ELSE [l EXCEPT !.previous = IF removed THEN {} ELSE @, !.failed = TRUE]

\* A new log is begun: fopen empties one that kept its name, or fails.
Reopened(l) == {[l EXCEPT !.current = {}], [l EXCEPT !.open = FALSE, !.failed = TRUE]}

Rotate(l) == UNION {Reopened(Renamed(l, removed, renamed)) :
                    removed \in BOOLEAN, renamed \in BOOLEAN}

\* A line that finds the file closed is dropped without a word.
AppendLine(l) ==
    IF l.open THEN [l EXCEPT !.last = @ + 1, !.current = @ \cup {l.last + 1}]
    ELSE [l EXCEPT !.last = @ + 1, !.failed = TRUE]

WriteOpen(l) ==
    {AppendLine(r) : r \in IF l.open /\ Cardinality(l.current) >= LogLines THEN Rotate(l) ELSE {l}}

\* The first line makes the log.
Write(l) == UNION {WriteOpen(made) : made \in IF l.made THEN {l} ELSE MakeLog(l)}
=============================================================================

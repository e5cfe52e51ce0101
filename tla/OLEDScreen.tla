------------------------------ MODULE OLEDScreen ------------------------------
(***************************************************************************)
(* The scrolling text screen (src/src/app/OLEDScreen/OLEDScreen.cpp):      *)
(* printScreen() keeps the last lines in a ring of N strings and redraws   *)
(* the whole display on every call.  It decides what to draw from the two  *)
(* indices alone, in three branches.  _mutex is held around every call, so *)
(* a call is one step.                                                     *)
(***************************************************************************)
EXTENDS Integers, Sequences

CONSTANTS N,         \* lines of the ring (template parameter, 12)
          Rows,      \* lines of the display (6)
          Lines,     \* the texts that are printed
          Blank,     \* an empty String
          MaxLines   \* bound: lines printed in a behaviour

ASSUME ScreenAssumption ==
    /\ N \in Nat /\ Rows \in Nat \ {0} /\ MaxLines \in Nat
    /\ Rows <= N
    /\ Blank \notin Lines

VARIABLES head, tail,  \* _head, _tail
          pool,        \* _pool
          rows,        \* rows[r]: what the display shows at height 10 * r
          log          \* every line printed so far, oldest first

vars == <<head, tail, pool, rows, log>>

Init ==
    /\ head = 0 /\ tail = 0
    /\ pool = [i \in 0 .. N - 1 |-> Blank]
    /\ rows = [r \in 0 .. Rows - 1 |-> Blank]
    /\ log = <<>>
-------------------------------------------------------------------------------
(* _pool[_head] = data, and the two indices move on modulo N.              *)
Store(line, oldest) ==
    /\ pool' = [pool EXCEPT ![head] = line]
    /\ head' = (head + 1) % N
    /\ tail' = oldest % N
    /\ log' = Append(log, line)

(* The screen is not full: the lines stand at their index.                 *)
Fill(line) ==
    /\ head - tail \in 0 .. Rows - 2
    /\ Store(line, tail)
    /\ rows' = [r \in 0 .. Rows - 1 |-> pool'[r]]

(* Upwards from the bottom of the screen, the newest line first.           *)
Scroll(line) ==
    /\ head - tail >= Rows - 1
    /\ Store(line, tail + 1)
    /\ rows' = [r \in 0 .. Rows - 1 |-> pool'[head - (Rows - 1 - r)]]

BugWrap(line) ==             \* the upper part starts behind the oldest line
    /\ head < tail
    /\ Store(line, tail + 1)
    /\ rows' = [r \in 0 .. Rows - 1 |->
                  IF Rows - 1 - r <= head THEN pool'[head - (Rows - 1 - r)]
                  ELSE pool'[(tail + 1 + r) % N]]

(* The ring has wrapped: the newest head + 1 lines from the bottom, the    *)
(* others from the oldest line at the top.                                 *)
Wrap(line) ==
    /\ head < tail
    /\ Store(line, tail + 1)
    /\ rows' = [r \in 0 .. Rows - 1 |->
                  IF Rows - 1 - r <= head THEN pool'[head - (Rows - 1 - r)]
                  ELSE pool'[tail + r]]

printScreen(line) == Fill(line) \/ Scroll(line) \/ Wrap(line)

Next == Len(log) < MaxLines /\ \E line \in Lines : printScreen(line)

Spec == Init /\ [][Next]_vars
-------------------------------------------------------------------------------
(* The indices stay inside the ring, which holds strings.                  *)
TypeOK ==
    /\ head \in 0 .. N - 1 /\ tail \in 0 .. N - 1
    /\ pool \in [0 .. N - 1 -> Lines \cup {Blank}]
    /\ rows \in [0 .. Rows - 1 -> Lines \cup {Blank}]
    /\ log \in Seq(Lines)

(* Whatever branch printScreen() takes, the display shows the last lines   *)
(* printed, oldest on top, and nothing else.                               *)
ShowsLast ==
    \A r \in 0 .. Rows - 1 :
        rows[r] = IF Len(log) >= Rows THEN log[Len(log) - Rows + r + 1]
                  ELSE IF r < Len(log) THEN log[r + 1] ELSE Blank

(* Slot(i): where the line printed i calls before the last one is kept.    *)
Slot(i) == IF i < head THEN head - 1 - i ELSE head - 1 - i + N

(* The ring holds the last lines and the difference of the indices tells   *)
(* how full the screen is: what the three branches rely on.                *)
RingKept ==
    /\ \A i \in 0 .. N - 1 :
          pool[Slot(i)] = IF i < Len(log) THEN log[Len(log) - i] ELSE Blank
    /\ IF Len(log) < Rows THEN tail = 0 /\ head = Len(log)
       ELSE tail = Slot(Rows - 2)

Inv == TypeOK /\ RingKept /\ ShowsLast
===============================================================================

------------------------------- MODULE OLEDText -------------------------------
(***************************************************************************)
(* OLEDScreen::print() cuts a text into lines that fit the width of the    *)
(* display and shows them one by one with printScreen().  The font is      *)
(* proportional, so a cut starts from a guess of GuessLen characters and   *)
(* takes characters away or adds them.  A text is the sequence of the      *)
(* widths of its characters; nothing else about it matters here.  _mutex   *)
(* is held from print() to the last line: calls do not interleave.         *)
(***************************************************************************)
EXTENDS OLEDScreen, SequencesExt

CONSTANTS Widths,    \* widths of the characters of the font, in pixels
          MaxLen,    \* bound: characters of a text
          MaxCalls,  \* bound: calls of print()
          GuessLen,  \* characters of the first guess (26)
          Limit      \* pixels a cut line is brought to (126; whole lines: 127)

ASSUME TextAssumption ==
    /\ MaxLen \in Nat /\ MaxCalls \in Nat
    /\ GuessLen \in Nat \ {0} /\ Limit \in Nat
    /\ Widths \subseteq 1 .. Limit
    /\ BoundedSeq(Widths, MaxLen) \subseteq Lines

Texts == BoundedSeq(Widths, MaxLen)

VARIABLES data,    \* the argument of the call
          text,    \* what is still to be cut
          n,       \* characters of the line that is being cut
          lines,   \* textVector
          next,    \* the line of textVector to be shown next
          pc,      \* the loop in which the call is
          calls    \* calls made so far

cutVars  == <<data, text, n, lines, next, pc, calls>>
textVars == <<vars, cutVars>>

Width(t) == FoldSeq(LAMBDA w, sum : w + sum, 0, t)     \* getStringWidth(t)
Clip(k)  == SubSeq(text, 1, IF k < Len(text) THEN k ELSE Len(text))   \* text.substring(0, k)

TextInit ==
    /\ Init
    /\ data = <<>> /\ text = <<>> /\ lines = <<>>
    /\ n = 0 /\ next = 1 /\ calls = 0
    /\ pc = "idle"
-------------------------------------------------------------------------------
print(t) ==
    /\ pc = "idle" /\ calls < MaxCalls
    /\ data' = t /\ text' = t
    /\ n' = 0 /\ lines' = <<>> /\ next' = 1
    /\ calls' = calls + 1
    /\ pc' = "outer"
    /\ UNCHANGED vars

(* What is left fits: it is the last line.                                 *)
LastLine ==
    /\ pc = "outer" /\ Width(text) <= Limit + 1
    /\ lines' = Append(lines, text)
    /\ text' = <<>>
    /\ pc' = "show"
    /\ UNCHANGED <<vars, data, n, next, calls>>

BugGuess ==               \* the guess is only ever lengthened
    /\ pc = "outer" /\ Width(text) > Limit + 1
    /\ n' = IF Len(text) > GuessLen THEN GuessLen ELSE Len(text)
    /\ pc' = "grow"
    /\ UNCHANGED <<vars, data, text, lines, next, calls>>

Guess ==
    /\ pc = "outer" /\ Width(text) > Limit + 1
    /\ n' = IF Len(text) > GuessLen THEN GuessLen ELSE Len(text)
    /\ pc' = IF Width(Clip(n')) > Limit THEN "shrink" ELSE "grow"
    /\ UNCHANGED <<vars, data, text, lines, next, calls>>

BugCut(k) ==              \* the character at the cut is skipped
    /\ lines' = Append(lines, Clip(k))
    /\ text' = SubSeq(text, k + 2, Len(text))
    /\ pc' = "outer"

(* textVector.push_back(clipText); text = text.substring(n, textLen)       *)
Cut(k) ==
    /\ lines' = Append(lines, Clip(k))
    /\ text' = SubSeq(text, k + 1, Len(text))
    /\ pc' = "outer"

(* do { clipText = text.substring(0, --n); } while (clipPix > 126)         *)
Shrink ==
    /\ pc = "shrink"
    /\ n' = n - 1
    /\ IF Width(Clip(n')) > Limit THEN UNCHANGED <<text, lines, pc>> ELSE Cut(n')
    /\ UNCHANGED <<vars, data, next, calls>>

(* do { clipText = text.substring(0, ++n); } while (clipPix < 126)         *)
Grow ==
    /\ pc = "grow"
    /\ n' = n + 1
    /\ IF Width(Clip(n')) < Limit THEN UNCHANGED <<text, lines, pc>> ELSE Cut(n')
    /\ UNCHANGED <<vars, data, next, calls>>

(* for (auto& v : textVector) printScreen(v)                               *)
Show ==
    /\ pc = "show"
    /\ printScreen(lines[next])
    /\ next' = next + 1
    /\ pc' = IF next = Len(lines) THEN "idle" ELSE "show"
    /\ UNCHANGED <<data, text, n, lines, calls>>

Step == LastLine \/ Guess \/ Shrink \/ Grow \/ Show
-------------------------------------------------------------------------------
(* No character is lost, doubled or moved by the cuts of print(), and a    *)
(* call that has returned put every line it cut on the screen, in order.   *)
NothingLost ==
    /\ FlattenSeq(lines) \o text = data
    /\ pc = "idle" => IsSuffix(lines, log)

(* However the guess was corrected, a cut line exceeds the limit by its    *)
(* last character at most, and the next character would not have fitted:   *)
(* print() neither breaks a line early nor hides more than one character.  *)
LinesFill ==
    \A i \in 1 .. Len(lines) :
        LET rest == FlattenSeq(SubSeq(lines, i + 1, Len(lines))) \o text IN
        rest # <<>> => /\ lines[i] # <<>>
                       /\ Width(Front(lines[i])) <= Limit
                       /\ Width(lines[i]) + Head(rest) > Limit
===============================================================================

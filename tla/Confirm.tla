------------------------------- MODULE Confirm ------------------------------
(***************************************************************************)
(* The question before a destructive step: util.Confirm and the loops of   *)
(* stop, delete, create, show user (10 attempts) and restore (5) around it.*)
(*                                                                         *)
(* Every attempt makes a new bufio.Scanner on standard input.  A scanner   *)
(* reads until it has a line and keeps what follows it in a buffer that is *)
(* thrown away with it.  A terminal returns one line per read.  What a     *)
(* pipe or a file returns may hold several lines and end inside one: then  *)
(* the rest of that line is a line to the scanner of the next attempt.     *)
(***************************************************************************)
EXTENDS Naturals, Sequences

CONSTANTS
    Attempts,  \* how often the command asks
    MaxLines   \* bound on the lines the user types

ASSUME AttemptsAssumption == Attempts \in Nat \ {0}
ASSUME MaxLinesAssumption == MaxLines \in Nat

VARIABLES
    piped,    \* standard input is a pipe or a file
    typed,    \* the lines the user has entered
    closed,   \* standard input has come to its end
    taken,    \* how many of the lines the program has taken, the last perhaps in part
    rest,     \* what the reader still has of that line
    attempt,  \* how many attempts were made
    answer,   \* the result: "pending", or what the loop leaves in "confirmed"
    heard     \* history: the line that the last response is, or is the end of

vars == <<piped, typed, closed, taken, rest, attempt, answer, heard>>

\* The lines Confirm tells apart: "y", "Y", "yes", "Yes" and "YES" are one.  Of
\* the lines that are no answer some end in one, as "maybe yes" and "casino" do.
Line == {"yes", "no", "empty", "other", "endsInYes", "endsInNo"}

Recognised == {"yes", "no"}

\* What may be left of a line when its beginning has been read.
EndsOf(line) ==
    CASE line = "empty"     -> {}
      [] line = "endsInYes" -> {"endsInYes", "yes", "other", "empty"}
      [] line = "endsInNo"  -> {"endsInNo", "no", "other", "empty"}
      [] OTHER              -> {"other", "empty"}

Init ==
    /\ piped \in BOOLEAN
    /\ typed = <<>>
    /\ closed = FALSE
    /\ taken = 0
    /\ rest = "none"
    /\ attempt = 0
    /\ answer = "pending"
    /\ heard = 0

Type(line) ==
    /\ ~closed
    /\ Len(typed) < MaxLines
    /\ typed' = Append(typed, line)
    /\ UNCHANGED <<piped, closed, taken, rest, attempt, answer, heard>>

Close ==
    /\ ~closed
    /\ closed' = TRUE
    /\ UNCHANGED <<piped, typed, taken, rest, attempt, answer, heard>>

\* The reader has something.
Waiting == rest # "none" \/ taken < Len(typed)

\* The line it has next, or the rest of it.
First == IF rest = "none" THEN taken + 1 ELSE taken

\* scanner.Text(): the first line of what was read, or "" at the end of input.
Response ==
    IF rest # "none" THEN rest
    ELSE IF taken < Len(typed) THEN typed[taken + 1]
    ELSE "empty"

\* Mutant: the loop counts one attempt too many.
Answer_OneMore(response) ==
    IF response \in Recognised THEN response
    ELSE IF attempt = Attempts THEN "nil"
    ELSE "pending"

\* Mutant: a "no" is a word like any other.
Answer_YesOnly(response) ==
    IF response = "yes" THEN response
    ELSE IF attempt + 1 = Attempts THEN "nil"
    ELSE "pending"

\* Mutant: just pressing enter agrees.
Answer_DefaultYes(response) ==
    IF response \in Recognised THEN response
    ELSE IF response = "empty" THEN "yes"
    ELSE IF attempt + 1 = Attempts THEN "nil"
    ELSE "pending"

\* What Confirm and the loop's condition make of it: nil asks again until the
\* attempts are used up, and then stays nil.
Answer(response) ==
    IF response \in Recognised THEN response
    ELSE IF attempt + 1 = Attempts THEN "nil"
    ELSE "pending"

\* What the scanner takes from the reader to find one line: that line at a
\* terminal; of a pipe also lines behind it, and the beginning of one.  A line
\* above the limit of a scanner, 64 KiB, is an error and may itself be taken in
\* part.  At the end of input nothing is taken.
Takes ==
    \/ ~Waiting /\ UNCHANGED <<taken, rest>>
    \/ Waiting /\ ~piped /\ taken' = taken + 1 /\ rest' = "none"
    \/ /\ Waiting /\ piped
       /\ taken' \in First..Len(typed)
       /\ \/ rest' = "none"
          \/ taken' > First /\ rest' \in EndsOf(typed[taken'])
          \/ taken' = First /\ Response \notin Recognised /\ rest' \in EndsOf(Response)

Hear ==
    /\ answer' = Answer(Response)
    /\ attempt' = attempt + 1
    /\ heard' = IF Waiting THEN First ELSE 0
    /\ Takes
    /\ UNCHANGED <<piped, typed, closed>>

\* Mutant: the end of input is not an empty answer.
Ask_WaitsForLine == answer = "pending" /\ Waiting /\ Hear

\* util.Confirm once: it waits for a line or for the end of input.
Ask == answer = "pending" /\ (Waiting \/ closed) /\ Hear

Next == (\E line \in Line : Type(line)) \/ Close \/ Ask

Spec == Init /\ [][Next]_vars

\* The process runs; the user may stay silent.
FairSpec == Spec /\ WF_vars(Ask)

-----------------------------------------------------------------------------

\* The types of the variables; no more attempts than the loop allows.
TypeOK ==
    /\ piped \in BOOLEAN
    /\ typed \in Seq(Line)
    /\ closed \in BOOLEAN
    /\ taken \in 0..Len(typed)
    /\ rest \in Line \cup {"none"}
    /\ attempt \in 0..Attempts
    /\ answer \in {"pending", "nil"} \cup Recognised
    /\ heard \in 0..taken

\* No line before the one that was heard last is an answer.
FirstHeard == \A i \in 1..(heard - 1) : typed[i] \notin Recognised

\* At a terminal the command goes on only after a "yes" that no "no" came
\* before, and stops on a "no" only when no "yes" came before it.
FirstWordCounts ==
    ~piped /\ answer \in Recognised =>
        heard > 0 /\ typed[heard] = answer /\ FirstHeard

\* At a terminal, giving up without an answer takes every attempt, and none of
\* the lines of those attempts was an answer.
SilenceIsNoAnswer ==
    ~piped /\ answer = "nil" =>
        /\ attempt = Attempts
        /\ \A i \in 1..taken : typed[i] \notin Recognised

\* Consent is never made of an end of input, of an empty line or of a line that
\* does not end in a "yes".  On the first attempt, and at a terminal on every
\* one, it is a whole line; later a pipe may have it from the end of a longer
\* line ("maybe yes") whose beginning went with the scanner of an earlier attempt.
ConsentIsTyped ==
    answer = "yes" =>
        /\ heard > 0
        /\ \/ typed[heard] = "yes"
           \/ typed[heard] = "endsInYes" /\ piped /\ attempt > 1

\* Once standard input has ended the question is over, one way or another.
EndOfInputEnds == closed ~> answer # "pending"

-----------------------------------------------------------------------------
(* What a comment says, and the code does not do.                          *)

\* stop.go:52, "retry 10 times or until a confirmation is given or denied,
\* whichever comes first": no answer was given before the one that decides,
\* wherever the answers come from.
FirstAnswerDecides == answer \in Recognised => FirstHeard
=============================================================================

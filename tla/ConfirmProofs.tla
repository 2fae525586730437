---------------------------- MODULE ConfirmProofs ---------------------------
(***************************************************************************)
(* Proofs about Confirm for any number of attempts and of lines.  The      *)
(* inductive invariant says of the lines taken so far what the answer says *)
(* of them at the end, and of the rest of a line where it comes from.      *)
(***************************************************************************)
EXTENDS Confirm, TLAPS

\* The loop goes on only while an attempt is left and gives up after the last.
Counted ==
    /\ answer = "pending" => attempt < Attempts
    /\ answer = "nil" => attempt = Attempts

\* At a terminal no line was passed over.
NoneMissed ==
    ~piped /\ answer \in {"pending", "nil"} =>
        \A i \in 1..taken : typed[i] \notin Recognised

\* Only an attempt on a pipe leaves a line without its beginning.
Left ==
    rest # "none" =>
        /\ piped /\ attempt > 0 /\ taken > 0
        /\ rest \in EndsOf(typed[taken])

\* The answer is the line heard last; the end of it only of a pipe, and only when
\* there was an attempt before.
Given ==
    answer \in Recognised =>
        /\ heard > 0
        /\ typed[heard] = answer \/ (piped /\ attempt > 1 /\ answer \in EndsOf(typed[heard]))
        /\ ~piped => FirstHeard

IInv == TypeOK /\ Counted /\ NoneMissed /\ Left /\ Given

\* What is left of the end of a line is an end of that line; a "yes" is the end
\* of one kind of lines only.
LEMMA Ends ==
    ASSUME NEW line \in Line
    PROVE  /\ EndsOf(line) \subseteq Line
           /\ \A end \in EndsOf(line) : EndsOf(end) \subseteq EndsOf(line)
           /\ "yes" \in EndsOf(line) => line = "endsInYes"
BY DEF EndsOf, Line

\* The invariant holds initially.
LEMMA InitIInv == Init => IInv
<1> SUFFICES ASSUME Init PROVE IInv
  OBVIOUS
<1>1. closed \in BOOLEAN /\ piped \in BOOLEAN
  BY DEF Init
<1>2. TypeOK
  <2>1. typed \in Seq(Line) /\ Len(typed) = 0
    BY DEF Init
  <2> QED BY <1>1, <2>1, AttemptsAssumption DEF Init, TypeOK
<1>3. Counted /\ NoneMissed /\ Left /\ Given
  BY AttemptsAssumption DEF Init, Counted, NoneMissed, Left, Given, Recognised
<1> QED BY <1>2, <1>3 DEF IInv

\* A new line is appended after those already taken and changes none of them.
LEMMA TypeIInv ==
    ASSUME IInv, NEW line \in Line, Type(line) PROVE IInv'
<1> USE DEF IInv
<1>1. /\ Len(typed') = Len(typed) + 1
      /\ \A i \in 1..taken : typed'[i] = typed[i]
      /\ UNCHANGED <<piped, closed, taken, rest, attempt, answer, heard>>
  BY DEF Type, TypeOK
<1>2. TypeOK'
  BY <1>1 DEF Type, TypeOK
<1>3. Counted' /\ NoneMissed'
  BY <1>1 DEF TypeOK, Counted, NoneMissed
<1>4. Left'
  BY <1>1 DEF TypeOK, Left
<1>5. Given'
  BY <1>1 DEF Given, FirstHeard, TypeOK
<1> QED BY <1>2, <1>3, <1>4, <1>5

\* The line an attempt hears, and what it leaves of the last line it takes.
LEMMA TakesLine ==
    ASSUME TypeOK, Left, Waiting, Takes
    PROVE  /\ First \in 1..Len(typed) /\ First \in {taken, taken + 1}
           /\ Response = typed[First]
                \/ (piped /\ attempt > 0 /\ Response \in EndsOf(typed[First]))
           /\ taken' \in First..Len(typed)
           /\ ~piped => First = taken + 1 /\ taken' = taken + 1 /\ Response = typed[First]
           /\ rest' # "none" => piped /\ rest' \in EndsOf(typed[taken'])
<1>1. /\ First \in 1..Len(typed) /\ First \in {taken, taken + 1}
      /\ Response = typed[First]
           \/ (piped /\ attempt > 0 /\ Response \in EndsOf(typed[First]))
  BY DEF TypeOK, Left, Waiting, First, Response
<1>2. ~piped => First = taken + 1 /\ Response = typed[First]
  BY DEF TypeOK, Left, Waiting, First, Response
<1>3. taken' \in First..Len(typed) /\ (~piped => taken' = taken + 1)
  BY <1>1, <1>2 DEF TypeOK, Takes
<1>4. ASSUME rest' # "none" PROVE piped /\ rest' \in EndsOf(typed[taken'])
  <2>1. piped /\ taken' \in First..Len(typed)
    BY <1>4 DEF Takes
  <2>2. CASE taken' > First /\ rest' \in EndsOf(typed[taken'])
    BY <2>1, <2>2
  <2>3. CASE taken' = First /\ rest' \in EndsOf(Response)
    <3>1. typed[First] \in Line
      BY <1>1 DEF TypeOK
    <3> QED BY <1>1, <2>1, <2>3, <3>1, Ends
  <2> QED BY <1>4, <2>1, <2>2, <2>3 DEF Takes
<1> QED BY <1>1, <1>2, <1>3, <1>4

\* One attempt.
LEMMA AskIInv ==
    ASSUME IInv, Ask PROVE IInv'
<1> USE DEF IInv
<1>1. /\ answer = "pending" /\ attempt < Attempts /\ attempt' = attempt + 1
      /\ answer' = Answer(Response) /\ heard' = (IF Waiting THEN First ELSE 0) /\ Takes
      /\ UNCHANGED <<piped, typed, closed>>
  BY DEF Ask, Hear, Counted
<1>2. TypeOK' /\ Left'
  <2>1. /\ attempt' \in 0..Attempts /\ attempt' > 0
        /\ answer' \in {"pending", "nil"} \cup Recognised
        /\ UNCHANGED <<piped, typed, closed>>
    BY <1>1, AttemptsAssumption DEF TypeOK, Answer
  <2>2. CASE Waiting
    <3>1. /\ taken' \in 0..Len(typed) /\ heard' \in 0..taken' /\ taken' > 0
      BY <1>1, <2>2, TakesLine DEF TypeOK
    <3>2. rest' # "none" => piped /\ rest' \in EndsOf(typed[taken'])
      BY <1>1, <2>2, TakesLine
    <3>3. rest' \in Line \cup {"none"}
      <4>1. typed[taken'] \in Line
        BY <3>1 DEF TypeOK
      <4> QED BY <3>2, <4>1, Ends
    <3> QED BY <2>1, <3>1, <3>2, <3>3 DEF TypeOK, Left
  <2>3. CASE ~Waiting
    <3>1. taken' = taken /\ rest' = "none" /\ heard' = 0
      BY <1>1, <2>3 DEF Takes, Waiting
    <3> QED BY <2>1, <3>1 DEF TypeOK, Left
  <2> QED BY <2>2, <2>3
<1>3. CASE Response \in Recognised
  <2>1. Waiting
    BY <1>3 DEF Response, Recognised, Waiting
  <2>2. answer' = Response /\ heard' = First
    BY <1>1, <1>3, <2>1 DEF Answer
  <2>3. Counted' /\ NoneMissed'
    BY <1>3, <2>2 DEF Counted, NoneMissed, Recognised
  <2>4. ~piped => FirstHeard'
    BY <1>1, <2>1, <2>2, TakesLine DEF NoneMissed, FirstHeard, TypeOK
  <2>5. /\ heard' > 0
        /\ typed[heard'] = answer'
             \/ (piped /\ attempt' > 1 /\ answer' \in EndsOf(typed[heard']))
    BY <1>1, <2>1, <2>2, TakesLine DEF TypeOK
  <2>6. Given'
    BY <1>1, <2>4, <2>5 DEF Given
  <2> QED BY <1>2, <2>3, <2>6
<1>4. CASE Response \notin Recognised
  <2>1. answer' \in {"pending", "nil"}
        /\ (answer' = "nil" <=> attempt + 1 = Attempts)
    BY <1>1, <1>4 DEF Answer
  <2>2. Counted' /\ Given'
    BY <1>1, <2>1, AttemptsAssumption DEF Counted, Given, Recognised, TypeOK
  <2>3. NoneMissed'
    <3> SUFFICES ASSUME ~piped, NEW i \in 1..taken' PROVE typed[i] \notin Recognised
      BY <1>1 DEF NoneMissed
    <3>1. CASE i \in 1..taken
      BY <1>1, <3>1 DEF NoneMissed
    <3>2. CASE i \notin 1..taken
      <4>1. Waiting
        BY <1>1, <3>2 DEF Takes
      <4>2. i = First /\ Response = typed[First]
        BY <1>1, <3>2, <4>1, TakesLine DEF TypeOK
      <4> QED BY <1>4, <4>2
    <3> QED BY <3>1, <3>2
  <2> QED BY <1>2, <2>2, <2>3
<1> QED BY <1>3, <1>4

\* The end of input.
LEMMA CloseIInv ==
    ASSUME IInv, Close PROVE IInv'
BY DEF Close, IInv, TypeOK, Counted, NoneMissed, Left, Given, FirstHeard

\* Nothing of the question changes.
LEMMA SameIInv ==
    ASSUME IInv, UNCHANGED vars PROVE IInv'
BY DEF vars, IInv, TypeOK, Counted, NoneMissed, Left, Given, FirstHeard

\* The inductive invariant, for every number of attempts.
THEOREM Invariance == Spec => []IInv
<1>1. ASSUME IInv, [Next]_vars PROVE IInv'
  <2>1. CASE \E line \in Line : Type(line)
    BY <1>1, <2>1, TypeIInv
  <2>2. CASE Close
    BY <1>1, <2>2, CloseIInv
  <2>3. CASE Ask
    BY <1>1, <2>3, AskIInv
  <2>4. CASE UNCHANGED vars
    BY <1>1, <2>4, SameIInv
  <2> QED BY <1>1, <2>1, <2>2, <2>3, <2>4 DEF Next
<1> QED BY <1>1, InitIInv, PTL DEF Spec

\* Type correctness; the loop never asks more often than its bound.
THEOREM TypeCorrect == Spec => []TypeOK
<1>1. IInv => TypeOK
  BY DEF IInv
<1> QED BY <1>1, Invariance, PTL

\* At a terminal the first "yes" or "no" decides (stop.go:52).
THEOREM FirstWordDecides == Spec => []FirstWordCounts
<1>1. IInv => FirstWordCounts
  BY DEF IInv, Given, FirstWordCounts
<1> QED BY <1>1, Invariance, PTL

\* At a terminal the command gives up only after all its attempts, none of
\* which was an answer.
THEOREM SilenceIsHeard == Spec => []SilenceIsNoAnswer
<1>1. IInv => SilenceIsNoAnswer
  BY DEF IInv, Counted, NoneMissed, SilenceIsNoAnswer
<1> QED BY <1>1, Invariance, PTL

\* What the invariant says of a "yes".
LEMMA HeardConsent == IInv => ConsentIsTyped
<1> SUFFICES ASSUME IInv, answer = "yes" PROVE ConsentIsTyped
  BY DEF ConsentIsTyped
<1>1. heard \in 1..Len(typed) /\ typed[heard] \in Line
  BY DEF IInv, Given, TypeOK, Recognised
<1> QED BY <1>1, Ends DEF IInv, Given, ConsentIsTyped, Recognised

\* Terminal or pipe: no "yes" that was not typed, as a line or, of a pipe and not
\* on the first attempt, as the end of one.
THEOREM NoConsentUnheard == Spec => []ConsentIsTyped
BY HeardConsent, Invariance, PTL
=============================================================================

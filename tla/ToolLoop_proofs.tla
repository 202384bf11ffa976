--------------------------- MODULE ToolLoop_proofs ---------------------------
(***************************************************************************)
(* Proofs about the loops that run the server's own tools: types, that     *)
(* every call of an earlier round has its result, that the client's calls  *)
(* are not swallowed, and that those of its functions come back under the  *)
(* names it declared. They hold for any lists of tools, any numbers of     *)
(* rounds and of calls, and whenever the context ends.                     *)
(***************************************************************************)
EXTENDS ToolLoop, WellFoundedInduction, TLAPS

USE LoopAssumption

(***************************************************************************)
(* Types. The calls of an answer are a sequence of offered tools, each     *)
(* with the round and the place it came from.                              *)
(***************************************************************************)

Typed ==
    /\ round \in Nat
    /\ calls \in Seq(Call)
    /\ results \in Seq(ResultOfCall)
    /\ sent \in Seq(SentRound)
    /\ phase \in {"ask", "run", "done"}

LEMMA AnswerTyped ==
  ASSUME Typed, NEW tools \in Answers
  PROVE  AnswerOf(tools) \in Seq(Call)
<1>1. PICK n \in 0..MaxCalls : tools \in [1..n -> Offered]
  BY DEF Answers
<1>2. \A k \in 1..n : [tool |-> tools[k], id |-> <<round, k>>] \in Call
  BY <1>1 DEF Typed, Call, Id
<1>3. AnswerOf(tools) = [k \in 1..n |-> [tool |-> tools[k], id |-> <<round, k>>]]
  BY <1>1 DEF AnswerOf
<1> QED
  BY <1>2, <1>3

(***************************************************************************)
(* The five ways to take an answer have a common form: with an answer to a *)
(* request whose context has not ended, it either becomes the client's, or *)
(* has calls of one of the server's tools alone, which are run.            *)
(***************************************************************************)
Given(answer) ==
    /\ Asks
    /\ calls' = answer
    /\ phase' = "done" /\ outcome'.kind = "answer"
    /\ \/ outcome'.calls = answer
       \/ LosesCalls /\ outcome'.calls = <<>>
    /\ UNCHANGED <<request, round, results, sent, gone>>

TakenOn(answer) ==
    /\ Asks
    /\ calls' = answer
    /\ \A k \in DOMAIN answer : answer[k].tool \in {Visual, Search}
    /\ phase' = "run" /\ results' = <<>>
    /\ UNCHANGED <<request, round, sent, outcome, gone>>

LEMMA AnsweredIs ==
  ASSUME NEW answer, NEW stop
  PROVE  /\ Answered(answer, stop).kind = "answer"
         /\ \/ Answered(answer, stop).calls = answer
            \/ LosesCalls /\ Answered(answer, stop).calls = <<>>
<1>1. CASE LosesCalls
  BY <1>1 DEF Answered
<1>2. CASE ~LosesCalls
  BY <1>2 DEF Answered
<1> QED
  BY <1>1, <1>2

LEMMA TakeGives ==
  ASSUME NEW answer, NEW stop, NEW goesOn, Take(answer, stop, goesOn),
         goesOn => \A k \in DOMAIN answer : answer[k].tool \in {Visual, Search}
  PROVE  Given(answer) \/ TakenOn(answer)
<1>1. CASE goesOn
  BY <1>1 DEF Take, TakenOn
<1>2. CASE ~goesOn
  BY <1>2, AnsweredIs DEF Take, Given, Done
<1> QED
  BY <1>1, <1>2

LEMMA AnswerForm ==
  ASSUME Answer
  PROVE  \E tools \in Answers : Given(AnswerOf(tools)) \/ TakenOn(AnswerOf(tools))
<1> USE TakeGives DEF CallsOnly
<1>1. CASE AnswerInVisualLoop
  BY <1>1 DEF AnswerInVisualLoop
<1>2. CASE AnswerFromAnthropic
  BY <1>2 DEF AnswerFromAnthropic
<1>3. CASE AnswerFromChat
  BY <1>3 DEF AnswerFromChat
<1>4. CASE AnswerFromChatStream
  BY <1>4 DEF AnswerFromChatStream
<1>5. CASE AnswerFromGemini
  BY <1>5 DEF AnswerFromGemini
<1>6. CASE AnswerAtOnce
  BY <1>6 DEF AnswerAtOnce
<1> QED
  BY <1>1, <1>2, <1>3, <1>4, <1>5, <1>6 DEF Answer

LEMMA TypedInit == Init => Typed
  BY DEF Init, Typed

LEMMA SameTools ==
  ASSUME UNCHANGED request
  PROVE  Call' = Call /\ VisualOverChat' = VisualOverChat /\ MaxRounds' = MaxRounds
  BY DEF Call, Offered, VisualTools, SearchTools, VisualOverChat, MaxRounds, VisualRuns, SearchRuns,
         VisualOverAnthropic, SearchOverAnthropic, SearchOverChat, SearchOverChatStream, SearchOverGemini

LEMMA SameRequest == [Next]_vars => UNCHANGED request
<1> SUFFICES ASSUME [Next]_vars PROVE UNCHANGED request
  OBVIOUS
<1>1. CASE Answer
  BY <1>1, AnswerForm DEF Given, TakenOn
<1>2. CASE AskFails \/ Exceeded
  BY <1>2 DEF AskFails, Exceeded, Done
<1>3. CASE Run
  BY <1>3 DEF Run, RunVisual, RunSearchForAnthropic, RunSearchForChat, RunSearchForGemini, RunCall
<1>4. CASE NextRound \/ ContextEnds \/ UNCHANGED vars
  BY <1>4 DEF NextRound, ContextEnds, vars
<1> QED
  BY <1>1, <1>2, <1>3, <1>4 DEF Next, Goes

LEMMA UnnamedTyped ==
  ASSUME results \in Seq(ResultOfCall)
  PROVE  [k \in DOMAIN results |-> [results[k] EXCEPT !.id = NoId]] \in Seq(ResultOfCall)
<1>1. \A r \in ResultOfCall : [r EXCEPT !.id = NoId] \in ResultOfCall
  BY DEF ResultOfCall
<1>2. DOMAIN results = 1..Len(results) /\ Len(results) \in Nat
  OBVIOUS
<1> QED
  BY <1>1, <1>2

LEMMA TypedNext == Typed /\ [Next]_vars => Typed'
<1> SUFFICES ASSUME Typed, [Next]_vars PROVE Typed'
  OBVIOUS
<1>0. Call' = Call /\ SentRound' = SentRound
  BY SameRequest, SameTools DEF SentRound
<1> USE <1>0 DEF Typed
<1>1. CASE Answer
  <2>1. PICK tools \in Answers : Given(AnswerOf(tools)) \/ TakenOn(AnswerOf(tools))
    BY <1>1, AnswerForm
  <2>2. calls' \in Seq(Call)
    BY <2>1, AnswerTyped DEF Given, TakenOn
  <2>3. <<>> \in Seq(ResultOfCall)
    OBVIOUS
  <2> QED
    BY <2>1, <2>2, <2>3 DEF Given, TakenOn
<1>2. CASE AskFails \/ Exceeded
  BY <1>2 DEF AskFails, Exceeded, Done
<1>3. CASE RunCall
  <2>1. PICK ok \in BOOLEAN :
          results' = Append(results, [id |-> calls[Len(results) + 1].id, ok |-> ok])
    BY <1>3 DEF RunCall, Result
  <2>2. Len(results) + 1 \in DOMAIN calls
    BY <1>3 DEF RunCall
  <2>3. calls[Len(results) + 1] \in Call
    BY <2>2
  <2>4. [id |-> calls[Len(results) + 1].id, ok |-> ok] \in ResultOfCall
    BY <2>3 DEF Call, ResultOfCall
  <2>5. results' \in Seq(ResultOfCall)
    BY <2>1, <2>4
  <2> QED
    BY <1>3, <2>5 DEF RunCall
<1>4. CASE NextRound
  <2>1. AsSent \in Seq(ResultOfCall)
    BY UnnamedTyped DEF AsSent
  <2>2. [calls |-> calls, results |-> AsSent] \in SentRound
    BY <2>1 DEF SentRound
  <2>3. sent' \in Seq(SentRound)
    BY <1>4, <2>2 DEF NextRound
  <2> QED
    BY <1>4, <2>3 DEF NextRound
<1>5. CASE ContextEnds \/ UNCHANGED vars
  BY <1>5 DEF ContextEnds, vars
<1> QED
  BY <1>1, <1>2, <1>3, <1>4, <1>5
     DEF Next, Goes, Run, RunVisual, RunSearchForAnthropic, RunSearchForChat, RunSearchForGemini

(***************************************************************************)
(* While calls are run, the results so far are those of the first calls.   *)
(***************************************************************************)
ResultsOfFirstCalls ==
    phase = "run" =>
        /\ Len(results) <= Len(calls)
        /\ \A k \in DOMAIN results : results[k].id = calls[k].id

ResultInv == ResultsOfFirstCalls /\ EveryCallHasItsResult

LEMMA ResultInit == Init => ResultInv
  BY DEF Init, ResultInv, ResultsOfFirstCalls, EveryCallHasItsResult

LEMMA ResultNext == Typed /\ ResultInv /\ [Next]_vars => ResultInv'
<1> SUFFICES ASSUME Typed, ResultInv, [Next]_vars PROVE ResultInv'
  OBVIOUS
<1>0. VisualOverChat' = VisualOverChat
  BY SameRequest, SameTools
<1> USE <1>0 DEF Typed, ResultInv, ResultsOfFirstCalls
<1>1. CASE Answer
  BY <1>1, AnswerForm DEF Given, TakenOn, EveryCallHasItsResult
<1>2. CASE AskFails \/ Exceeded
  BY <1>2 DEF AskFails, Exceeded, Done, EveryCallHasItsResult
<1>3. CASE RunCall
  <2>1. PICK ok \in BOOLEAN :
          results' = Append(results, [id |-> calls[Len(results) + 1].id, ok |-> ok])
    BY <1>3 DEF RunCall, Result
  <2>2. ResultsOfFirstCalls'
    BY <1>3, <2>1 DEF RunCall
  <2> QED
    BY <1>3, <2>2 DEF RunCall, EveryCallHasItsResult
<1>4. CASE NextRound
  <2> DEFINE next == [calls |-> calls, results |-> AsSent]
  <2>1. DOMAIN AsSent = DOMAIN calls
    BY <1>4 DEF NextRound, AsSent
  <2>2. ~VisualOverChat => \A k \in DOMAIN calls : AsSent[k].id = calls[k].id
    BY <1>4 DEF NextRound, AsSent
  <2>3. sent' = Append(sent, next) /\ phase' = "ask"
    BY <1>4 DEF NextRound
  <2>4. \A n \in DOMAIN sent' : sent'[n] = next \/ (n \in DOMAIN sent /\ sent'[n] = sent[n])
    BY <2>3
  <2> QED
    BY <2>1, <2>2, <2>3, <2>4 DEF EveryCallHasItsResult
<1>5. CASE ContextEnds \/ UNCHANGED vars
  BY <1>5 DEF ContextEnds, vars, EveryCallHasItsResult
<1> QED
  BY <1>1, <1>2, <1>3, <1>4, <1>5
     DEF Next, Goes, Run, RunVisual, RunSearchForAnthropic, RunSearchForChat, RunSearchForGemini

(***************************************************************************)
(* Between the rounds no call of the client's is kept.                     *)
(***************************************************************************)
NoneOfTheClients == phase # "done" => ClientsCalls(calls) = {}

ClientInv == NoneOfTheClients /\ ClientCallsReachTheClient

LEMMA ClientInit == Init => ClientInv
  BY DEF Init, ClientInv, NoneOfTheClients, ClientCallsReachTheClient, ClientsCalls

LEMMA ClientNext == Typed /\ ClientInv /\ [Next]_vars => ClientInv'
<1> SUFFICES ASSUME Typed, ClientInv, [Next]_vars PROVE ClientInv'
  OBVIOUS
<1> USE DEF Typed, ClientInv, NoneOfTheClients, ClientCallsReachTheClient
<1>1. CASE Answer
  <2>1. PICK tools \in Answers : Given(AnswerOf(tools)) \/ TakenOn(AnswerOf(tools))
    BY <1>1, AnswerForm
  <2>2. CASE Given(AnswerOf(tools))
    BY <2>2 DEF Given, LosesCalls, VisualOverAnthropic, StreamedForItsImage
  <2>3. CASE TakenOn(AnswerOf(tools))
    BY <2>3 DEF TakenOn, ClientsCalls
  <2> QED
    BY <2>1, <2>2, <2>3
<1>2. CASE AskFails \/ Exceeded
  BY <1>2 DEF AskFails, Exceeded, Done, Asks
<1>3. CASE RunCall
  BY <1>3 DEF RunCall
<1>4. CASE NextRound
  <2> DEFINE next == [calls |-> calls, results |-> AsSent]
  <2>1. sent' = Append(sent, next) /\ phase' = "ask" /\ phase = "run" /\ calls' = calls
    BY <1>4 DEF NextRound
  <2>2. \A n \in DOMAIN sent' : sent'[n] = next \/ (n \in DOMAIN sent /\ sent'[n] = sent[n])
    BY <2>1
  <2>3. \A n \in DOMAIN sent' : ClientsCalls(sent'[n].calls) = {}
    BY <2>1, <2>2 DEF ClientsCalls
  <2> QED
    BY <2>1, <2>3 DEF ClientsCalls
<1>5. CASE ContextEnds \/ UNCHANGED vars
  BY <1>5 DEF ContextEnds, vars, StreamedForItsImage
<1> QED
  BY <1>1, <1>2, <1>3, <1>4, <1>5
     DEF Next, Goes, Run, RunVisual, RunSearchForAnthropic, RunSearchForChat, RunSearchForGemini

-----------------------------------------------------------------------------
(***************************************************************************)
(* Lists put together, and thinned out to the first of each name. The two  *)
(* are recursive functions: each is what satisfies its equation, once      *)
(* there is such a function; a fact about all its places is shown by the   *)
(* least place where it would not hold.                                    *)
(***************************************************************************)

LEMMA Least ==
  ASSUME NEW T \in SUBSET Nat, T # {}
  PROVE  \E n \in T : \A m \in T : n <= m
<1> DEFINE less == {ss \in Nat \X Nat : ss[1] < ss[2]}
<1>1. IsWellFoundedOn(less, Nat)
  BY NatLessThanWellFounded, Zenon DEF OpToRel
<1> HIDE DEF less
<1>2. PICK n \in T : \A m \in T : ~ (<<m, n>> \in less)
  BY <1>1, WFMin
<1>3. ASSUME NEW m \in T PROVE n <= m
  <2>1. ~ (<<m, n>> \in less) /\ m \in Nat /\ n \in Nat
    BY <1>2
  <2>2. ~ (m < n)
    BY <2>1 DEF less
  <2> QED
    BY <2>1, <2>2
<1> QED
  BY <1>3

\* Induction: a set that holds 0, and k with k - 1, holds all up to n.
LEMMA AllUpTo ==
  ASSUME NEW n \in Nat, NEW T, 0 \in T, \A k \in 1..n : k - 1 \in T => k \in T
  PROVE  \A k \in 0..n : k \in T
<1> DEFINE bad == {k \in 0..n : k \notin T}
<1> SUFFICES ASSUME bad # {} PROVE FALSE
  OBVIOUS
<1>1. bad \in SUBSET Nat
  OBVIOUS
<1>2. PICK k \in bad : \A j \in bad : k <= j
  BY <1>1, Least
<1>3. k # 0 /\ k \in 0..n /\ k \notin T
  BY <1>2
<1>4. k \in 1..n /\ k - 1 \in 0..n /\ ~ (k <= k - 1)
  BY <1>3
<1>5. k - 1 \notin bad
  BY <1>2, <1>4
<1> QED
  BY <1>3, <1>4, <1>5

LEMMA RangeJoined ==
  ASSUME NEW S, NEW s \in Seq(S), NEW t \in Seq(S)
  PROVE  s \o t \in Seq(S) /\ Range(s \o t) = Range(s) \cup Range(t)
<1>1. /\ s \o t \in Seq(S) /\ DOMAIN (s \o t) = 1..(Len(s) + Len(t))
      /\ Len(s) \in Nat /\ Len(t) \in Nat /\ DOMAIN s = 1..Len(s) /\ DOMAIN t = 1..Len(t)
      /\ \A k \in 1..Len(s) : (s \o t)[k] = s[k]
      /\ \A k \in 1..Len(t) : (s \o t)[Len(s) + k] = t[k]
  OBVIOUS
<1>2. ASSUME NEW k \in DOMAIN (s \o t) PROVE (s \o t)[k] \in Range(s) \cup Range(t)
  <2>1. k \in 1..Len(s) \/ (k - Len(s) \in 1..Len(t) /\ Len(s) + (k - Len(s)) = k)
    BY <1>1
  <2> QED
    BY <1>1, <2>1 DEF Range
<1>3. ASSUME NEW k \in DOMAIN s PROVE s[k] \in Range(s \o t)
  <2>1. k \in DOMAIN (s \o t) /\ (s \o t)[k] = s[k]
    BY <1>1
  <2> QED
    BY <2>1 DEF Range
<1>4. ASSUME NEW k \in DOMAIN t PROVE t[k] \in Range(s \o t)
  <2>1. Len(s) + k \in DOMAIN (s \o t) /\ (s \o t)[Len(s) + k] = t[k]
    BY <1>1
  <2> QED
    BY <2>1 DEF Range
<1> QED
  BY <1>1, <1>2, <1>3, <1>4 DEF Range

LEMMA RangeAppended ==
  ASSUME NEW S, NEW s \in Seq(S), NEW x \in S
  PROVE  Append(s, x) \in Seq(S) /\ Range(Append(s, x)) = Range(s) \cup {x}
<1>1. /\ Append(s, x) \in Seq(S) /\ DOMAIN Append(s, x) = 1..(Len(s) + 1)
      /\ Len(s) \in Nat /\ DOMAIN s = 1..Len(s)
      /\ \A k \in 1..Len(s) : Append(s, x)[k] = s[k]
      /\ Append(s, x)[Len(s) + 1] = x
  OBVIOUS
<1>2. \A k \in 1..(Len(s) + 1) : k \in 1..Len(s) \/ k = Len(s) + 1
  BY <1>1
<1>3. Len(s) + 1 \in DOMAIN Append(s, x) /\ DOMAIN s \subseteq DOMAIN Append(s, x)
  BY <1>1
<1> QED
  BY <1>1, <1>2, <1>3 DEF Range

LEMMA NamesAre == ASSUME NEW s PROVE Names(s) = {t.name : t \in Range(s)}
  BY DEF Names, Range

\* The function in the definition of FlattenSeq, for the first n sequences.
IsFlattened(f, s, n) == f = [k \in 1..n |-> IF k = 1 THEN s[k] ELSE f[k - 1] \o s[k]]

LEMMA FlattenedLonger ==
  ASSUME NEW s, NEW n \in Nat \ {0}, NEW f, IsFlattened(f, s, n - 1)
  PROVE  \E g : IsFlattened(g, s, n)
<1> DEFINE last == IF n = 1 THEN s[1] ELSE f[n - 1] \o s[n]
           g == [k \in 1..n |-> IF k = n THEN last ELSE f[k]]
<1>1. ASSUME NEW k \in 1..n PROVE g[k] = IF k = 1 THEN s[k] ELSE g[k - 1] \o s[k]
  <2>1. CASE k = n
    <3>1. n # 1 => n - 1 \in 1..n /\ n - 1 # n
      OBVIOUS
    <3>2. n # 1 => g[n - 1] = f[n - 1]
      BY <3>1
    <3> QED
      BY <2>1, <3>2
  <2>2. CASE k # n
    <3>1. k \in 1..(n - 1) /\ (k # 1 => k - 1 \in 1..n /\ k - 1 # n)
      BY <2>2
    <3>2. f[k] = IF k = 1 THEN s[k] ELSE f[k - 1] \o s[k]
      BY <3>1 DEF IsFlattened
    <3>3. g[k] = f[k] /\ (k # 1 => g[k - 1] = f[k - 1])
      BY <2>2, <3>1
    <3> QED
      BY <3>2, <3>3
  <2> QED
    BY <2>1, <2>2
<1>2. g = [k \in 1..n |-> g[k]]
  OBVIOUS
<1> HIDE DEF g
<1>3. IsFlattened(g, s, n)
  BY <1>1, <1>2 DEF IsFlattened
<1> QED
  BY <1>3

LEMMA FlattenedExists == ASSUME NEW s, NEW n \in Nat PROVE \E f : IsFlattened(f, s, n)
<1> DEFINE T == {k \in Nat : \E f : IsFlattened(f, s, k)}
<1>1. 0 \in T
  <2>1. 1..0 = {}
    OBVIOUS
  <2>2. IsFlattened([k \in {} |-> <<>>], s, 0)
    BY <2>1 DEF IsFlattened
  <2> QED
    BY <2>2
<1>2. \A k \in 1..n : k - 1 \in T => k \in T
  BY FlattenedLonger
<1>3. n \in 0..n
  OBVIOUS
<1> HIDE DEF T
<1>4. n \in T
  BY <1>1, <1>2, <1>3, AllUpTo
<1> QED
  BY <1>4 DEF T

LEMMA FlattenSteps ==
  ASSUME NEW s, Len(s) \in Nat \ {0}
  PROVE  \E f : /\ FlattenSeq(s) = f[Len(s)] /\ f[1] = s[1]
                /\ \A k \in 2..Len(s) : f[k] = f[k - 1] \o s[k]
<1> DEFINE f == CHOOSE g : g = [i \in 1..Len(s) |-> IF i = 1 THEN s[i] ELSE g[i - 1] \o s[i]]
<1>1. FlattenSeq(s) = f[Len(s)]
  BY DEF FlattenSeq
<1>2. \E g : g = [i \in 1..Len(s) |-> IF i = 1 THEN s[i] ELSE g[i - 1] \o s[i]]
  BY FlattenedExists DEF IsFlattened
<1>3. f = [i \in 1..Len(s) |-> IF i = 1 THEN s[i] ELSE f[i - 1] \o s[i]]
  BY <1>2
<1> HIDE DEF f
<1>4. 1 \in 1..Len(s) /\ \A k \in 2..Len(s) : k \in 1..Len(s) /\ k # 1
  OBVIOUS
<1>5. f[1] = s[1]
  BY <1>3, <1>4
<1>6. ASSUME NEW k \in 2..Len(s) PROVE f[k] = f[k - 1] \o s[k]
  BY <1>3, <1>4
<1> QED
  BY <1>1, <1>5, <1>6

\* What is flattened has the elements of its parts.
LEMMA FlattenRange ==
  ASSUME NEW S, NEW s, Len(s) \in Nat, DOMAIN s = 1..Len(s),
         \A k \in 1..Len(s) : s[k] \in Seq(S), Len(s) # 0
  PROVE  /\ FlattenSeq(s) \in Seq(S)
         /\ Range(FlattenSeq(s)) = UNION {Range(s[k]) : k \in DOMAIN s}
<1>1. PICK f : /\ FlattenSeq(s) = f[Len(s)] /\ f[1] = s[1]
               /\ \A k \in 2..Len(s) : f[k] = f[k - 1] \o s[k]
  BY FlattenSteps
<1> DEFINE T == {k \in 0..Len(s) :
                   k = 0 \/ (f[k] \in Seq(S) /\ Range(f[k]) = UNION {Range(s[j]) : j \in 1..k})}
<1>2. 0 \in T
  OBVIOUS
<1>3. ASSUME NEW k \in 1..Len(s), k - 1 \in T PROVE k \in T
  <2>0. k \in 0..Len(s)
    OBVIOUS
  <2>1. CASE k = 1
    <3>1. 1..1 = {1} /\ s[1] \in Seq(S)
      BY <2>1
    <3>2. Range(f[1]) = UNION {Range(s[j]) : j \in 1..1} /\ f[1] \in Seq(S)
      BY <1>1, <3>1
    <3> QED
      BY <2>0, <2>1, <3>2
  <2>2. CASE k # 1
    <3>1. /\ k \in 2..Len(s) /\ k - 1 # 0 /\ s[k] \in Seq(S)
      BY <2>2
    <3>2. /\ f[k - 1] \in Seq(S)
          /\ Range(f[k - 1]) = UNION {Range(s[j]) : j \in 1..(k - 1)}
      BY <1>3, <3>1
    <3>3. f[k] = f[k - 1] \o s[k]
      BY <1>1, <3>1
    <3>4. f[k] \in Seq(S) /\ Range(f[k]) = Range(f[k - 1]) \cup Range(s[k])
      BY <3>1, <3>2, <3>3, RangeJoined
    <3>5. 1..k = 1..(k - 1) \cup {k}
      BY <3>1
    <3>6. Range(f[k]) = UNION {Range(s[j]) : j \in 1..k}
      BY <3>2, <3>4, <3>5
    <3> QED
      BY <2>0, <3>4, <3>6
  <2> QED
    BY <2>1, <2>2
<1>4. Len(s) \in 0..Len(s)
  OBVIOUS
<1> HIDE DEF T
<1>5. Len(s) \in T
  BY <1>2, <1>3, <1>4, AllUpTo
<1> QED
  BY <1>1, <1>5 DEF T

\* The function in the definition of FirstOfName, for the first n tools.
IsKept(f, s, n) ==
    f = [k \in 0..n |-> IF k = 0 THEN <<>>
                        ELSE IF s[k].name \in Names(f[k - 1]) THEN f[k - 1]
                        ELSE Append(f[k - 1], s[k])]

LEMMA KeptLonger ==
  ASSUME NEW s, NEW n \in Nat \ {0}, NEW f, IsKept(f, s, n - 1)
  PROVE  \E g : IsKept(g, s, n)
<1> DEFINE last == IF s[n].name \in Names(f[n - 1]) THEN f[n - 1] ELSE Append(f[n - 1], s[n])
           g == [k \in 0..n |-> IF k = n THEN last ELSE f[k]]
<1>1. ASSUME NEW k \in 0..n
      PROVE  g[k] = IF k = 0 THEN <<>>
                    ELSE IF s[k].name \in Names(g[k - 1]) THEN g[k - 1]
                    ELSE Append(g[k - 1], s[k])
  <2>1. CASE k = n
    <3>1. n - 1 \in 0..n /\ n - 1 # n
      OBVIOUS
    <3>2. g[n - 1] = f[n - 1] /\ g[n] = last
      BY <3>1
    <3> QED
      BY <2>1, <3>2
  <2>2. CASE k # n
    <3>1. k \in 0..(n - 1) /\ (k # 0 => k - 1 \in 0..n /\ k - 1 # n)
      BY <2>2
    <3>2. f[k] = IF k = 0 THEN <<>>
                 ELSE IF s[k].name \in Names(f[k - 1]) THEN f[k - 1]
                 ELSE Append(f[k - 1], s[k])
      BY <3>1 DEF IsKept
    <3>3. g[k] = f[k] /\ (k # 0 => g[k - 1] = f[k - 1])
      BY <2>2, <3>1
    <3> QED
      BY <3>2, <3>3
  <2> QED
    BY <2>1, <2>2
<1>2. g = [k \in 0..n |-> g[k]]
  OBVIOUS
<1> HIDE DEF g
<1>3. IsKept(g, s, n)
  BY <1>1, <1>2 DEF IsKept
<1> QED
  BY <1>3

LEMMA KeptExists == ASSUME NEW s, NEW n \in Nat PROVE \E f : IsKept(f, s, n)
<1> DEFINE T == {k \in Nat : \E f : IsKept(f, s, k)}
<1>1. 0 \in T
  <2>1. IsKept([k \in 0..0 |-> <<>>], s, 0)
    BY DEF IsKept
  <2> QED
    BY <2>1
<1>2. \A k \in 1..n : k - 1 \in T => k \in T
  BY KeptLonger
<1>3. n \in 0..n
  OBVIOUS
<1> HIDE DEF T
<1>4. n \in T
  BY <1>1, <1>2, <1>3, AllUpTo
<1> QED
  BY <1>4 DEF T

LEMMA KeptSteps ==
  ASSUME NEW s, Len(s) \in Nat
  PROVE  \E f : /\ FirstOfName(s) = f[Len(s)] /\ f[0] = <<>>
                /\ \A k \in 1..Len(s) :
                     f[k] = IF s[k].name \in Names(f[k - 1]) THEN f[k - 1]
                            ELSE Append(f[k - 1], s[k])
<1> DEFINE f == CHOOSE g : g = [n \in 0..Len(s) |->
                  IF n = 0 THEN <<>>
                  ELSE IF s[n].name \in Names(g[n - 1]) THEN g[n - 1]
                  ELSE Append(g[n - 1], s[n])]
<1>1. FirstOfName(s) = f[Len(s)]
  BY DEF FirstOfName
<1>2. \E g : g = [n \in 0..Len(s) |->
                  IF n = 0 THEN <<>>
                  ELSE IF s[n].name \in Names(g[n - 1]) THEN g[n - 1]
                  ELSE Append(g[n - 1], s[n])]
  BY KeptExists DEF IsKept
<1>3. f = [n \in 0..Len(s) |->
                  IF n = 0 THEN <<>>
                  ELSE IF s[n].name \in Names(f[n - 1]) THEN f[n - 1]
                  ELSE Append(f[n - 1], s[n])]
  BY <1>2
<1> HIDE DEF f
<1>4. 0 \in 0..Len(s) /\ \A k \in 1..Len(s) : k \in 0..Len(s) /\ k # 0
  OBVIOUS
<1>5. f[0] = <<>>
  BY <1>3, <1>4
<1>6. ASSUME NEW k \in 1..Len(s)
      PROVE  f[k] = IF s[k].name \in Names(f[k - 1]) THEN f[k - 1]
                    ELSE Append(f[k - 1], s[k])
  BY <1>3, <1>4
<1> QED
  BY <1>1, <1>5, <1>6

\* The first tool of each name is kept, and nothing else.
LEMMA FirstOfNameKeeps ==
  ASSUME NEW S, NEW s \in Seq(S)
  PROVE  /\ FirstOfName(s) \in Seq(S) /\ Range(FirstOfName(s)) \subseteq Range(s)
         /\ Names(FirstOfName(s)) = Names(s)
<1>0. Len(s) \in Nat /\ DOMAIN s = 1..Len(s) /\ \A k \in 1..Len(s) : s[k] \in S
  OBVIOUS
<1>1. PICK f : /\ FirstOfName(s) = f[Len(s)] /\ f[0] = <<>>
               /\ \A k \in 1..Len(s) : f[k] = IF s[k].name \in Names(f[k - 1]) THEN f[k - 1]
                                              ELSE Append(f[k - 1], s[k])
  BY <1>0, KeptSteps
<1> DEFINE T == {k \in 0..Len(s) : /\ f[k] \in Seq(S) /\ Range(f[k]) \subseteq Range(s)
                                   /\ Names(f[k]) = {s[j].name : j \in 1..k}}
<1>2. 0 \in T
  <2>1. <<>> \in Seq(S) /\ Range(<<>>) = {} /\ Names(<<>>) = {} /\ 0 \in 0..Len(s)
    BY <1>0 DEF Range, Names
  <2>2. 1..0 = {}
    OBVIOUS
  <2> QED
    BY <1>1, <2>1, <2>2
<1>3. ASSUME NEW k \in 1..Len(s), k - 1 \in T PROVE k \in T
  <2>1. /\ k \in 0..Len(s) /\ k \in DOMAIN s /\ s[k] \in S /\ s[k] \in Range(s)
        /\ 1..k = 1..(k - 1) \cup {k}
    BY <1>0 DEF Range
  <2>2. /\ f[k - 1] \in Seq(S) /\ Range(f[k - 1]) \subseteq Range(s)
        /\ Names(f[k - 1]) = {s[j].name : j \in 1..(k - 1)}
    BY <1>3
  <2>3. {s[j].name : j \in 1..k} = Names(f[k - 1]) \cup {s[k].name}
    <3>1. {s[j].name : j \in 1..k} = {s[j].name : j \in 1..(k - 1)} \cup {s[k].name}
      BY <2>1, Zenon
    <3> QED
      BY <2>2, <3>1, Zenon
  <2>4. CASE s[k].name \in Names(f[k - 1])
    BY <1>1, <2>1, <2>2, <2>3, <2>4
  <2>5. CASE s[k].name \notin Names(f[k - 1])
    <3>1. f[k] = Append(f[k - 1], s[k])
      BY <1>1, <2>5
    <3>2. f[k] \in Seq(S) /\ Range(f[k]) = Range(f[k - 1]) \cup {s[k]}
      BY <2>1, <2>2, <3>1, RangeAppended
    <3>3. Names(f[k]) = Names(f[k - 1]) \cup {s[k].name}
      BY <3>2, NamesAre
    <3> QED
      BY <2>1, <2>2, <2>3, <3>2, <3>3
  <2> QED
    BY <2>4, <2>5
<1>4. Len(s) \in 0..Len(s)
  BY <1>0
<1> HIDE DEF T
<1>5. Len(s) \in T
  BY <1>0, <1>2, <1>3, <1>4, AllUpTo
<1>6. Names(s) = {s[j].name : j \in 1..Len(s)}
  BY <1>0 DEF Names
<1> QED
  BY <1>1, <1>5, <1>6 DEF T

-----------------------------------------------------------------------------
(***************************************************************************)
(* The tools of a request and where each of them comes from.               *)
(***************************************************************************)

\* A declared tool with the namespace it stands in.
Origins(tools) ==
    UNION {IF tools[k].type = "namespace"
           THEN {<<tools[k].tools[j], tools[k].name>> : j \in DOMAIN tools[k].tools}
           ELSE {<<tools[k], <<>>>>} : k \in DOMAIN tools}

LEMMA CallableFrom ==
  ASSUME NEW tools
  PROVE  CallableTools(tools) = UNION {Callable(o[1], o[2]) : o \in Origins(tools)}
<1>2. ASSUME NEW c \in CallableTools(tools)
      PROVE  \E o \in Origins(tools) : c \in Callable(o[1], o[2])
  <2>1. PICK k \in DOMAIN tools :
          c \in IF tools[k].type = "namespace"
                THEN UNION {Callable(tools[k].tools[j], tools[k].name) : j \in DOMAIN tools[k].tools}
                ELSE Callable(tools[k], <<>>)
    BY DEF CallableTools
  <2>2. CASE tools[k].type = "namespace"
    <3>1. PICK j \in DOMAIN tools[k].tools : c \in Callable(tools[k].tools[j], tools[k].name)
      BY <2>1, <2>2
    <3>2. <<tools[k].tools[j], tools[k].name>> \in Origins(tools)
      BY <2>2 DEF Origins
    <3> QED
      BY <3>1, <3>2
  <2>3. CASE tools[k].type # "namespace"
    <3>1. <<tools[k], <<>>>> \in Origins(tools)
      BY <2>3 DEF Origins
    <3> QED
      BY <2>1, <2>3, <3>1
  <2> QED
    BY <2>2, <2>3
<1>3. ASSUME NEW o \in Origins(tools), NEW c \in Callable(o[1], o[2])
      PROVE  c \in CallableTools(tools)
  <2>1. PICK k \in DOMAIN tools :
          o \in IF tools[k].type = "namespace"
                THEN {<<tools[k].tools[j], tools[k].name>> : j \in DOMAIN tools[k].tools}
                ELSE {<<tools[k], <<>>>>}
    BY DEF Origins
  <2>2. CASE tools[k].type = "namespace"
    <3>1. PICK j \in DOMAIN tools[k].tools : o = <<tools[k].tools[j], tools[k].name>>
      BY <2>1, <2>2
    <3>2. c \in Callable(tools[k].tools[j], tools[k].name)
      BY <1>3, <3>1
    <3> QED
      BY <2>2, <3>2 DEF CallableTools
  <2>3. CASE tools[k].type # "namespace"
    <3>1. c \in Callable(tools[k], <<>>)
      BY <1>3, <2>1, <2>3
    <3> QED
      BY <2>3, <3>1 DEF CallableTools
  <2> QED
    BY <2>2, <2>3
<1> QED
  BY <1>2, <1>3

LEMMA ActionName == ASSUME NEW k \in 1..5 PROVE ActionNames[k] \in Actions
<1>1. k = 1 \/ k = 2 \/ k = 3 \/ k = 4 \/ k = 5
  OBVIOUS
<1>2. /\ ActionNames[1] \in Actions /\ ActionNames[2] \in Actions /\ ActionNames[3] \in Actions
      /\ ActionNames[4] \in Actions /\ ActionNames[5] \in Actions
  BY DEF ActionNames, Actions
<1> QED
  BY <1>1, <1>2

\* A declared tool becomes one tool, or one for each action.
LEMMA ConvertIsSeq ==
  ASSUME NEW tool, NEW ns, NEW raw
  PROVE  ConvertPlain(tool, ns, raw) \in Seq(Range(ConvertPlain(tool, ns, raw)))
<1> DEFINE name == NamespacedToolName(ns, tool.name)
<1>1. ASSUME NEW x PROVE <<x>> \in Seq(Range(<<x>>))
  <2>1. x \in Range(<<x>>)
    BY DEF Range
  <2> QED
    BY <2>1
<1>2. ApplyPatchProxies(name, tool.name) \in Seq(Range(ApplyPatchProxies(name, tool.name)))
  <2> DEFINE proxies == ApplyPatchProxies(name, tool.name)
  <2>1. DOMAIN proxies = 1..5 /\ proxies = [k \in 1..5 |-> proxies[k]]
    BY DEF ApplyPatchProxies
  <2> HIDE DEF proxies
  <2>2. \A k \in 1..5 : proxies[k] \in Range(proxies)
    BY <2>1 DEF Range
  <2>3. proxies \in Seq(Range(proxies))
    BY <2>1, <2>2
  <2> QED
    BY <2>3 DEF proxies
<1>3. \/ \E x : ConvertPlain(tool, ns, raw) = <<x>>
      \/ ConvertPlain(tool, ns, raw) = ApplyPatchProxies(name, tool.name)
  <2>1. CASE tool.type = "function"
    BY <2>1 DEF ConvertPlain, ConvertFunction
  <2>2. CASE tool.type = "custom"
    BY <2>2 DEF ConvertPlain, ConvertCustom
  <2>3. CASE tool.type \notin {"function", "custom"}
    BY <2>3 DEF ConvertPlain
  <2> QED
    BY <2>1, <2>2, <2>3
<1> QED
  BY <1>1, <1>2, <1>3

\* What the model gets for a tool is what the client expects to be called by, and,
\* if that is a function call, has what is needed to name it as the client did.
LEMMA ConvertedIsExpected ==
  ASSUME NEW tool, NEW ns, NEW raw,
         NEW t \in Range(ConvertPlain(tool, ns, raw))
  PROVE  \E c \in Callable(tool, ns) :
           /\ c.as = t.name
           /\ c.item.type = "function_call" =>
                \/ t.kind = "function"
                   /\ c.item = Item("function_call", t.openai, t.namespace, "json")
                \/ t.kind = "none" /\ c.item = Item("function_call", t.name, <<>>, "json")
<1> DEFINE name == NamespacedToolName(ns, tool.name)
<1>0. ASSUME NEW x PROVE Range(<<x>>) = {x}
  BY DEF Range
<1>1. CASE tool.type = "function"
  <2> DEFINE x == CoreTool(name, "function", tool.name, ns)
  <2>1. ConvertPlain(tool, ns, raw) = <<x>>
    BY <1>1 DEF ConvertPlain, ConvertFunction
  <2>2. t = x
    BY <1>0, <2>1
  <2>3. [as |-> name, item |-> Item("function_call", tool.name, ns, "json")] \in Callable(tool, ns)
    BY <1>1 DEF Callable
  <2> QED
    BY <2>2, <2>3 DEF CoreTool
<1>2. CASE tool.type = "custom" /\ tool.name = <<"local_shell">>
  <2> DEFINE x == CoreTool(name, "local_shell", tool.name, <<>>)
  <2>1. ConvertPlain(tool, ns, raw) = <<x>>
    BY <1>2 DEF ConvertPlain, ConvertCustom
  <2>2. t = x
    BY <1>0, <2>1
  <2>3. [as |-> name, item |-> Item("local_shell_call", <<>>, <<>>, "json")] \in Callable(tool, ns)
    BY <1>2 DEF Callable
  <2> QED
    BY <2>2, <2>3 DEF CoreTool, Item
<1>3. CASE tool.type = "custom" /\ tool.name # <<"local_shell">>
  <2>1. \/ t.name = name
        \/ \E a \in Actions : t.name = name \o <<a>>
    <3>1. \/ \E kind \in {"exec", "raw"} :
               ConvertPlain(tool, ns, raw) = <<CoreTool(name, kind, tool.name, <<>>)>>
          \/ ConvertPlain(tool, ns, raw) = ApplyPatchProxies(name, tool.name)
      BY <1>3 DEF ConvertPlain, ConvertCustom
    <3>2. CASE \E kind \in {"exec", "raw"} :
                 ConvertPlain(tool, ns, raw) = <<CoreTool(name, kind, tool.name, <<>>)>>
      BY <1>0, <3>2 DEF CoreTool
    <3>3. CASE ConvertPlain(tool, ns, raw) = ApplyPatchProxies(name, tool.name)
      <4>0. DOMAIN ApplyPatchProxies(name, tool.name) = 1..5
        BY DEF ApplyPatchProxies
      <4>1. PICK k \in 1..5 : t = ApplyPatchProxies(name, tool.name)[k]
        BY <3>3, <4>0 DEF Range
      <4>2. t.name = name \o <<ActionNames[k]>>
        BY <4>1 DEF ApplyPatchProxies, CoreTool
      <4>3. ActionNames[k] \in Actions
        BY ActionName
      <4> QED
        BY <4>2, <4>3
    <3> QED
      BY <3>1, <3>2, <3>3
  <2> DEFINE c == [as |-> t.name, item |-> Item("custom_tool_call", tool.name, ns, "grammar")]
  <2>2. c \in Callable(tool, ns)
    <3>1. t.name \in {name} \cup {name \o <<a>> : a \in Actions}
      BY <2>1
    <3>2. Callable(tool, ns) =
            {[as |-> n, item |-> Item("custom_tool_call", tool.name, ns, "grammar")] :
               n \in {name} \cup {name \o <<a>> : a \in Actions}}
      BY <1>3 DEF Callable
    <3> QED
      BY <3>1, <3>2
  <2> QED
    BY <2>2 DEF Item
<1>4. CASE tool.type \notin {"function", "custom"}
  <2> DEFINE n == OtherName(tool, ns)
             x == CoreTool(n, "none", <<>>, <<>>)
  <2>1. ConvertPlain(tool, ns, raw) = <<x>>
    BY <1>4 DEF ConvertPlain
  <2>2. t = x
    BY <1>0, <2>1
  <2>3. [as |-> n, item |-> Item("function_call", n, <<>>, "json")] \in Callable(tool, ns)
    BY <1>4 DEF Callable
  <2> QED
    BY <2>2, <2>3 DEF CoreTool
<1> QED
  BY <1>1, <1>2, <1>3, <1>4

\* The model gets a tool for every function that the client can be called by.
LEMMA ExpectedIsConverted ==
  ASSUME NEW tool, NEW ns, NEW raw,
         NEW c \in Callable(tool, ns), c.item.type = "function_call"
  PROVE  \E t \in Range(ConvertPlain(tool, ns, raw)) : t.name = c.as
<1> DEFINE name == NamespacedToolName(ns, tool.name)
<1>0. ASSUME NEW x PROVE x \in Range(<<x>>)
  BY DEF Range
<1>1. CASE tool.type = "function"
  <2>1. ConvertPlain(tool, ns, raw) = <<CoreTool(name, "function", tool.name, ns)>>
    BY <1>1 DEF ConvertPlain, ConvertFunction
  <2>2. c.as = name
    BY <1>1 DEF Callable
  <2> QED
    BY <1>0, <2>1, <2>2 DEF CoreTool
<1>2. CASE tool.type = "custom"
  BY <1>2 DEF Callable, Item
<1>3. CASE tool.type \notin {"function", "custom"}
  <2>1. ConvertPlain(tool, ns, raw) = <<CoreTool(OtherName(tool, ns), "none", <<>>, <<>>)>>
    BY <1>3 DEF ConvertPlain
  <2>2. c.as = OtherName(tool, ns)
    BY <1>3 DEF Callable
  <2> QED
    BY <1>0, <2>1, <2>2 DEF CoreTool
<1> QED
  BY <1>1, <1>2, <1>3

\* One level of flattening: what comes out of lists of the elements of S, and that
\* no name of theirs is missing.
LEMMA FlattenOnce ==
  ASSUME NEW S, NEW s, NEW n \in Nat, DOMAIN s = 1..n, Len(s) = n,
         n # 0 \/ s = <<>>, \A k \in 1..n : s[k] \in Seq(S)
  PROVE  /\ FirstOfName(FlattenSeq(s)) \in Seq(S)
         /\ \A t \in Range(FirstOfName(FlattenSeq(s))) : \E k \in 1..n : t \in Range(s[k])
         /\ \A k \in 1..n : Names(s[k]) \subseteq Names(FirstOfName(FlattenSeq(s)))
<1> DEFINE u == FlattenSeq(s)
<1>1. u \in Seq(S) /\ Range(u) = UNION {Range(s[k]) : k \in DOMAIN s}
  <2>1. CASE n = 0
    <3>1. u = <<>> /\ DOMAIN s = {}
      BY <2>1 DEF FlattenSeq
    <3>2. <<>> \in Seq(S) /\ Range(<<>>) = {}
      BY DEF Range
    <3> QED
      BY <3>1, <3>2
  <2>2. CASE n # 0
    BY <2>2, FlattenRange
  <2> QED
    BY <2>1, <2>2
<1> HIDE DEF u
<1>2. /\ FirstOfName(u) \in Seq(S) /\ Range(FirstOfName(u)) \subseteq Range(u)
      /\ Names(FirstOfName(u)) = Names(u)
  BY <1>1, FirstOfNameKeeps
<1>3. \A k \in 1..n : Names(s[k]) \subseteq Names(u)
  BY <1>1, NamesAre
<1>4. \A t \in Range(FirstOfName(u)) : \E k \in 1..n : t \in Range(s[k])
  BY <1>1, <1>2
<1> QED
  BY <1>2, <1>3, <1>4 DEF u

\* All that the tools of a list become.
Become(tools, raw) == UNION {Range(ConvertPlain(o[1], o[2], raw)) : o \in Origins(tools)}

LEMMA SeqOfMore ==
  ASSUME NEW S, NEW T, S \subseteq T, NEW s \in Seq(S)
  PROVE  s \in Seq(T)
  OBVIOUS

\* A tool of the list, or all the tools of a namespace of the list, converted.
LEMMA ConvertFrom ==
  ASSUME NEW tools \in Seq(DeclaredTools), NEW raw, NEW k \in 1..Len(tools)
  PROVE  /\ Convert(tools[k], raw) \in Seq(Become(tools, raw))
         /\ \A o \in IF tools[k].type = "namespace"
                     THEN {<<tools[k].tools[j], tools[k].name>> : j \in DOMAIN tools[k].tools}
                     ELSE {<<tools[k], <<>>>>} :
              Names(ConvertPlain(o[1], o[2], raw)) \subseteq Names(Convert(tools[k], raw))
<1> DEFINE tool == tools[k]
           S == Become(tools, raw)
<1>1. tool \in DeclaredTools /\ k \in DOMAIN tools
  OBVIOUS
<1>2. CASE tool.type = "namespace"
  <2> DEFINE n == Len(tool.tools)
             s == [j \in DOMAIN tool.tools |-> ConvertPlain(tool.tools[j], tool.name, raw)]
  <2>1. n \in Nat /\ DOMAIN tool.tools = 1..n /\ tool.tools \in Seq(InNamespace)
    BY <1>1 DEF DeclaredTools
  <2>2. ASSUME NEW j \in 1..n PROVE ConvertPlain(tool.tools[j], tool.name, raw) \in Seq(S)
    <3> DEFINE c == ConvertPlain(tool.tools[j], tool.name, raw)
    <3>1. <<tool.tools[j], tool.name>> \in Origins(tools)
      BY <1>1, <1>2, <2>1 DEF Origins
    <3>2. Range(c) \subseteq S
      BY <3>1 DEF Become
    <3>3. c \in Seq(Range(c))
      BY ConvertIsSeq
    <3> HIDE DEF S, c
    <3>4. c \in Seq(S)
      BY <3>2, <3>3, SeqOfMore
    <3> QED
      BY <3>4 DEF c
  <2>3. /\ DOMAIN s = 1..n /\ \A j \in 1..n : s[j] \in Seq(S)
        /\ \A j \in 1..n : s[j] = ConvertPlain(tool.tools[j], tool.name, raw)
    BY <2>1, <2>2
  <2>4. Len(s) = n /\ (n # 0 \/ s = <<>>)
    <3>1. s = [j \in 1..n |-> s[j]]
      BY <2>1
    <3> HIDE DEF s, n
    <3>2. Len(s) = n
      BY <2>1, <3>1
    <3>3. n = 0 => s = <<>>
      BY <3>1
    <3> QED
      BY <3>2, <3>3
  <2>5. Convert(tool, raw) = FirstOfName(FlattenSeq(s))
    <3>1. NamespacedToolName(<<>>, tool.name) = tool.name
      BY <1>1 DEF NamespacedToolName, DeclaredTools
    <3> QED
      BY <1>2, <3>1 DEF Convert, FlattenPlain
  <2> HIDE DEF s, n, S
  <2>6. /\ Convert(tool, raw) \in Seq(S)
        /\ \A j \in 1..n : Names(s[j]) \subseteq Names(Convert(tool, raw))
    BY <2>1, <2>3, <2>4, <2>5, FlattenOnce
  <2> QED
    BY <1>2, <2>1, <2>3, <2>6 DEF S
<1>3. CASE tool.type # "namespace"
  <2> DEFINE c == ConvertPlain(tool, <<>>, raw)
  <2>1. Convert(tool, raw) = c
    BY <1>3 DEF Convert
  <2>2. <<tool, <<>>>> \in Origins(tools)
    BY <1>1, <1>3 DEF Origins
  <2>3. Range(c) \subseteq S
    BY <2>2 DEF Become
  <2>4. c \in Seq(Range(c))
    BY ConvertIsSeq
  <2> HIDE DEF S, c
  <2>5. c \in Seq(S)
    BY <2>3, <2>4, SeqOfMore
  <2> QED
    BY <1>3, <2>1, <2>5 DEF S, c
<1> QED
  BY <1>2, <1>3

\* Each tool of the request stems from a declared one, and no declared name is lost.
LEMMA FlattenFrom ==
  ASSUME NEW tools \in Seq(DeclaredTools), NEW raw
  PROVE  /\ \A t \in Range(Flatten(tools, raw)) :
              \E o \in Origins(tools) : t \in Range(ConvertPlain(o[1], o[2], raw))
         /\ \A o \in Origins(tools) :
              Names(ConvertPlain(o[1], o[2], raw)) \subseteq Names(Flatten(tools, raw))
<1> DEFINE n == Len(tools)
           S == Become(tools, raw)
           s == [k \in DOMAIN tools |-> Convert(tools[k], raw)]
<1>1. n \in Nat /\ DOMAIN tools = 1..n
  OBVIOUS
<1>2. /\ DOMAIN s = 1..n /\ \A k \in 1..n : s[k] \in Seq(S)
      /\ \A k \in 1..n : s[k] = Convert(tools[k], raw)
  BY <1>1, ConvertFrom
<1>3. Len(s) = n /\ (n # 0 \/ s = <<>>)
  <2>1. s = [k \in 1..n |-> s[k]]
    BY <1>1
  <2> HIDE DEF s, n
  <2>2. Len(s) = n
    BY <1>1, <2>1
  <2>3. n = 0 => s = <<>>
    BY <2>1
  <2> QED
    BY <2>2, <2>3
<1>4. Flatten(tools, raw) = FirstOfName(FlattenSeq(s))
  BY DEF Flatten
<1>5. ASSUME NEW o \in Origins(tools)
      PROVE  \E k \in 1..n : Names(ConvertPlain(o[1], o[2], raw)) \subseteq Names(s[k])
  <2>1. PICK k \in DOMAIN tools :
          o \in IF tools[k].type = "namespace"
                THEN {<<tools[k].tools[j], tools[k].name>> : j \in DOMAIN tools[k].tools}
                ELSE {<<tools[k], <<>>>>}
    BY DEF Origins
  <2>2. k \in 1..Len(tools)
    BY <1>1
  <2>3. Names(ConvertPlain(o[1], o[2], raw)) \subseteq Names(Convert(tools[k], raw))
    BY <2>1, <2>2, ConvertFrom
  <2> QED
    BY <1>2, <2>2, <2>3
<1> HIDE DEF s, n, S
<1>6. /\ \A t \in Range(Flatten(tools, raw)) : \E k \in 1..n : t \in Range(s[k])
      /\ \A k \in 1..n : Names(s[k]) \subseteq Names(Flatten(tools, raw))
  BY <1>1, <1>2, <1>3, <1>4, FlattenOnce
<1>7. ASSUME NEW t \in Range(Flatten(tools, raw))
      PROVE  \E o \in Origins(tools) : t \in Range(ConvertPlain(o[1], o[2], raw))
  <2>1. PICK k \in 1..n : t \in Range(s[k])
    BY <1>6
  <2>2. s[k] \in Seq(S)
    BY <1>2
  <2>3. Range(s[k]) \subseteq S
    BY <2>2 DEF Range
  <2> QED
    BY <2>1, <2>3 DEF S, Become
<1> QED
  BY <1>5, <1>6, <1>7

\* The item of a call that can only be for a function is one that the client expects.
LEMMA FunctionCallComesBack ==
  ASSUME NEW tools \in Seq(DeclaredTools), NEW raw, NEW name,
         NEW expected, expected = {c.item : c \in {d \in CallableTools(tools) : d.as = name}},
         \A item \in expected : item.type = "function_call", expected # {}
  PROVE  OutputItem(name, ToolMap(Flatten(tools, raw))) \in expected
<1> DEFINE flat == Flatten(tools, raw)
           map == ToolMap(flat)
<1>1. ASSUME NEW t \in Range(flat), t.name = name
      PROVE  \/ t.kind = "function" /\ Item("function_call", t.openai, t.namespace, "json") \in expected
             \/ t.kind = "none" /\ Item("function_call", t.name, <<>>, "json") \in expected
  <2>1. PICK o \in Origins(tools) : t \in Range(ConvertPlain(o[1], o[2], raw))
    BY FlattenFrom
  <2>2. PICK c \in Callable(o[1], o[2]) :
          /\ c.as = t.name
          /\ c.item.type = "function_call" =>
               \/ t.kind = "function"
                  /\ c.item = Item("function_call", t.openai, t.namespace, "json")
               \/ t.kind = "none" /\ c.item = Item("function_call", t.name, <<>>, "json")
    BY <2>1, ConvertedIsExpected
  <2>3. c \in CallableTools(tools)
    BY CallableFrom
  <2>4. c.item \in expected
    BY <1>1, <2>2, <2>3
  <2> QED
    BY <2>2, <2>4
<1>2. CASE name \in DOMAIN map
  <2> DEFINE k == CHOOSE i \in Annotated(flat) : flat[i].name = name
  <2>1. DOMAIN map = {flat[i].name : i \in Annotated(flat)}
    BY DEF ToolMap
  <2>2. \E i \in Annotated(flat) : flat[i].name = name
    BY <1>2, <2>1
  <2>3. k \in Annotated(flat) /\ flat[k].name = name
    BY <2>2
  <2>4. map[name] = flat[k]
    BY <1>2, <2>1 DEF ToolMap
  <2> HIDE DEF k
  <2>5. flat[k] \in Range(flat) /\ flat[k].kind # "none"
    BY <2>3 DEF Annotated, Range
  <2>6. flat[k].kind = "function"
        /\ Item("function_call", flat[k].openai, flat[k].namespace, "json") \in expected
    BY <1>1, <2>3, <2>5
  <2> HIDE DEF map
  <2>7. OutputItem(name, map) = Item("function_call", flat[k].openai, flat[k].namespace, "json")
    BY <1>2, <2>4, <2>6 DEF OutputItem
  <2> QED
    BY <2>6, <2>7 DEF map
<1>3. CASE name \notin DOMAIN map
  <2>1. PICK c \in CallableTools(tools) : c.as = name /\ c.item \in expected
    OBVIOUS
  <2>2. PICK o \in Origins(tools) : c \in Callable(o[1], o[2])
    BY CallableFrom
  <2>3. PICK t \in Range(ConvertPlain(o[1], o[2], raw)) : t.name = name
    BY <2>1, <2>2, ExpectedIsConverted
  <2>4. name \in Names(flat)
    <3>1. name \in Names(ConvertPlain(o[1], o[2], raw))
      BY <2>3, NamesAre
    <3> QED
      BY <3>1, FlattenFrom
  <2>5. PICK k \in DOMAIN flat : flat[k].name = name
    BY <2>4 DEF Names
  <2>6. k \notin Annotated(flat)
    BY <1>3, <2>5 DEF ToolMap
  <2>7. flat[k] \in Range(flat) /\ flat[k].kind = "none"
    BY <2>6 DEF Annotated, Range
  <2>8. Item("function_call", name, <<>>, "json") \in expected
    BY <1>1, <2>5, <2>7
  <2> QED
    BY <1>3, <2>8 DEF OutputItem
<1> QED
  BY <1>2, <1>3

(***************************************************************************)
(* What the client is given are the items of the answer, looked up in the  *)
(* map of the request's own tools.                                         *)
(***************************************************************************)
ItemsInv ==
    /\ \E declared \in ToolLists \cup {PlainTools}, raw \in BOOLEAN :
         request.declared = declared /\ request.map = ToolMap(Flatten(declared, raw))
    /\ \A k \in DOMAIN outcome.items :
         outcome.items[k] = OutputItem(outcome.calls[k].tool, request.map)

LEMMA ItemsInit == Init => ItemsInv
<1> SUFFICES ASSUME Init PROVE ItemsInv
  OBVIOUS
<1>1. request \in Requests /\ outcome = Pending
  BY DEF Init
<1>2. PICK declared \in ToolLists \cup {PlainTools}, raw \in BOOLEAN :
        \E p, s, v, i, image : request = RequestFor(p, s, v, i, image, declared, raw)
  <2> DEFINE no == FALSE
             A == {RequestFor(p, s, v, i, image, PlainTools, no) :
                     p \in Protocols, s \in BOOLEAN, v \in BOOLEAN, i \in BOOLEAN,
                     image \in BOOLEAN}
             B == {RequestFor(p, s, no, no, no, declared, raw) :
                     p \in Protocols, s \in BOOLEAN, declared \in ToolLists, raw \in BOOLEAN}
  <2>1. Requests = A \cup B /\ no \in BOOLEAN
    BY DEF Requests
  <2> HIDE DEF no
  <2>2. request \in A => \E p, s, v, i, image :
                           request = RequestFor(p, s, v, i, image, PlainTools, no)
    OBVIOUS
  <2>3. request \in B => \E declared \in ToolLists, raw \in BOOLEAN :
                           \E p, s : request = RequestFor(p, s, no, no, no, declared, raw)
    OBVIOUS
  <2> HIDE DEF A, B
  <2> QED
    BY <1>1, <2>1, <2>2, <2>3
<1>3. request.declared = declared /\ request.map = ToolMap(Flatten(declared, raw))
  BY <1>2 DEF RequestFor
<1>4. outcome.items = <<>>
  BY <1>1 DEF Pending
<1> QED
  BY <1>3, <1>4 DEF ItemsInv

LEMMA TakeOutcome ==
  ASSUME NEW answer, NEW stop, NEW goesOn, Take(answer, stop, goesOn)
  PROVE  outcome' = outcome \/ \E given, why : outcome' = Answered(given, why)
  BY DEF Take, Done

LEMMA OutcomeNext ==
  ASSUME [Next]_vars
  PROVE  \/ outcome' = outcome \/ outcome' = Failure
         \/ \E answer, stop : outcome' = Answered(answer, stop)
<1>1. CASE Answer
  BY <1>1, TakeOutcome DEF Answer, AnswerInVisualLoop, AnswerFromAnthropic, AnswerFromChat,
     AnswerFromChatStream, AnswerFromGemini, AnswerAtOnce
<1>2. CASE AskFails \/ Exceeded
  BY <1>2 DEF AskFails, Exceeded, Done
<1>3. CASE Run \/ NextRound \/ ContextEnds \/ UNCHANGED vars
  BY <1>3 DEF Run, RunVisual, RunSearchForAnthropic, RunSearchForChat, RunSearchForGemini, RunCall,
     NextRound, ContextEnds, vars
<1> QED
  BY <1>1, <1>2, <1>3 DEF Next, Goes

LEMMA ItemsNext == ItemsInv /\ [Next]_vars => ItemsInv'
<1> SUFFICES ASSUME ItemsInv, [Next]_vars PROVE ItemsInv'
  OBVIOUS
<1>1. request' = request
  BY SameRequest
<1>2. CASE outcome' = outcome
  BY <1>1, <1>2 DEF ItemsInv
<1>3. CASE outcome' = Failure
  BY <1>1, <1>3 DEF ItemsInv, Failure
<1>4. CASE \E answer, stop : outcome' = Answered(answer, stop)
  <2>1. PICK answer, stop : outcome' = Answered(answer, stop)
    BY <1>4
  <2> DEFINE given == IF LosesCalls THEN <<>> ELSE answer
  <2>2. /\ outcome'.calls = given
        /\ outcome'.items = [k \in DOMAIN given |-> OutputItem(given[k].tool, request.map)]
    BY <2>1 DEF Answered
  <2> HIDE DEF given
  <2> QED
    BY <1>1, <2>2 DEF ItemsInv
<1> QED
  BY <1>2, <1>3, <1>4, OutcomeNext

-----------------------------------------------------------------------------
(***************************************************************************)
(* The theorems.                                                           *)
(***************************************************************************)

\* In every request of every loop each call of an earlier round has its result.
THEOREM CallsAreAnswered == Spec => []EveryCallHasItsResult
<1>1. ResultInv => EveryCallHasItsResult
  BY DEF ResultInv
<1> QED
  BY TypedInit, TypedNext, ResultInit, ResultNext, <1>1, PTL DEF Spec

\* No loop runs a call of the client's or keeps it among its rounds, and every answer
\* with such a call goes to the client with all its calls, save to a request that is
\* streamed for its image over Anthropic (adapter_dispatch.go:866).
THEOREM ClientGetsItsCalls == Spec => []ClientCallsReachTheClient
<1>1. ClientInv => ClientCallsReachTheClient
  BY DEF ClientInv
<1> QED
  BY TypedInit, TypedNext, ClientInit, ClientNext, <1>1, PTL DEF Spec
\* Whatever tools a client declares, and however their names come to be the same once
\* the namespaces are flattened: a call by a name that only functions have been
\* declared under is given back as a call of one of them, by its name and namespace.
THEOREM FunctionCallsAreFound == Spec => []FunctionCallsComeBack
<1>1. ItemsInv => FunctionCallsComeBack
  <2> SUFFICES ASSUME ItemsInv, NEW k \in DOMAIN outcome.items,
                      NEW expected, expected = ExpectedItems(outcome.calls[k].tool),
                      \A item \in expected : item.type = "function_call", expected # {}
               PROVE  outcome.items[k] \in expected
    BY DEF FunctionCallsComeBack
  <2>1. PICK declared \in ToolLists \cup {PlainTools}, raw \in BOOLEAN :
          request.declared = declared /\ request.map = ToolMap(Flatten(declared, raw))
    BY DEF ItemsInv
  <2>2. declared \in Seq(DeclaredTools)
    BY ToolAssumption
  <2>3. OutputItem(outcome.calls[k].tool, request.map) \in expected
    BY <2>1, <2>2, FunctionCallComesBack DEF ExpectedItems
  <2> QED
    BY <2>3 DEF ItemsInv
<1> QED
  BY ItemsInit, ItemsNext, <1>1, PTL DEF Spec
=============================================================================

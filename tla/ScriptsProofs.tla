---------------------------- MODULE ScriptsProofs ----------------------------
(***************************************************************************)
(* Proofs about a script and the run around it: what Plugin.run reports of *)
(* the process and of its output, and what the health checker does to the  *)
(* service, for every script, buffer size, cool-down and set of patterns.  *)
(***************************************************************************)
EXTENDS Scripts, LogBufferProofs, TLAPS

\* The bytes are integers, and a reader is in one of its four states.
RunTypes ==
    /\ written \in [Pipes -> Int] /\ pipe \in [Pipes -> Int] /\ taken \in [Pipes -> Int]
    /\ reader \in [Pipes -> {"off", "reading", "done", "failed"}]

\* What is left of a script's output after readFromReader.
Kept(p) == Min({BufferBytes, written[p] - pipe[p]})

\* A reader has kept the first bytes of what left the pipe; it is done only when the
\* pipe is empty and the process that writes to it has ended.
Output ==
    \A p \in Pipes :
        /\ taken[p] = Kept(p)
        /\ reader[p] = "done" => pipe[p] = 0 /\ main # "running"

\* Where run stands: it waits for the process after both readers are done, and judges
\* it after the goroutine of os/exec has reported.
Waiting ==
    /\ runner \in {"waiting", "reaped", "judging"} => \A p \in Pipes : reader[p] = "done"
    /\ runner \in {"reaped", "judging"} => main = "reaped"
    /\ runner = "judging" => execWatch # "watching" /\ (execWatch = "killed" => code # OK)

\* What run returned.
Returned ==
    runner = "returned" =>
        /\ result.status \in {OK, NonOK} =>
              /\ main = "reaped" /\ code = result.status /\ execWatch # "watching"
              /\ result.status = OK => execWatch # "killed"
        /\ result.message = "output" =>
              /\ \A p \in Pipes : reader[p] = "done"
              /\ result.length = Min({MaxOutputLength, taken["stdout"]})

RunInv == RunTypes /\ Output /\ Waiting /\ Returned

\* What may happen to the variables of a run.
RunAction ==
    \/ RunStep \/ RunAgain \/ ChildExits \/ UNCHANGED runVars
    \/ \E c : ExitWith(c)
    \/ \E escaped, holds \in BOOLEAN : Fork(escaped, holds)

\* The options are those of the plan; times are counted in seconds.
HealthTypes ==
    /\ plan \in Plans /\ options \in plan.options
    /\ service \in [state : {"active", "activating", "inactive"}, exited : Nat, entered : Nat,
                    answers : BOOLEAN]
    /\ IsFiniteSet(journal)
    /\ journal \subseteq [id : 1 .. MaxEntriesLogged, pattern : STRING, age : Nat,
                          current : BOOLEAN]
    /\ logStart \in Nat /\ restarted \in BOOLEAN
    /\ patterns \subseteq DOMAIN LogPatternCounts(options.logPatterns)

\* What the service logged before systemd started it is at least as old as the start;
\* the pattern check looks back no further, unless the service was started meanwhile.
Dated ==
    /\ \A e \in journal : ~e.current => service.exited <= e.age
    /\ checker = "matching" /\ ~restarted => logStart <= service.exited

\* A repair is only begun on a service that is up for longer than the cool-down.
Cooled == checker = "repairing" => service.exited > CoolDownTime \/ restarted

HealthInv == HealthTypes /\ Dated /\ Cooled /\ BlamedForItsOwnLog

\* What may happen to the variables of the health checker and its service.
HealthAction ==
    /\ plan' = plan
    /\ \/ HealthStep \/ ServiceStep \/ UNCHANGED healthVars
       \/ Forget /\ UNCHANGED <<options, service, journal, witnessed>>

\* The command line is one of those considered, and the journal has that many lines.
Line == [message : LogLines, late : BOOLEAN]
CounterTypes ==
    /\ lines \in Seq(Line) /\ read \in 0 .. Len(lines) /\ count \in Int
    /\ plan.script = "counter" => fedo \in CounterOptions

\* The buffer holds the lines read.
Buffered == RingHolds(logBuffer, Pushed(lines, read))

CounterInv == CounterTypes /\ Buffered /\ CountIsNet

\* What may happen to the variables of the log counter.
CounterAction ==
    /\ plan' = plan
    /\ \/ plan.script = "counter" /\ CounterStep
       \/ \E m \in LogLines : LogLine(m)
       \/ UNCHANGED counterVars

-----------------------------------------------------------------------------
(* Least and greatest numbers *)

\* The smaller of two integers.
LEMMA MinOfTwo ==
    ASSUME NEW a \in Int, NEW b \in Int
    PROVE  Min({a, b}) = IF a <= b THEN a ELSE b
<1> DEFINE m == IF a <= b THEN a ELSE b
<1>1. m \in {a, b} /\ \A y \in {a, b} : m <= y
  OBVIOUS
<1>2. Min({a, b}) \in {a, b} /\ \A y \in {a, b} : Min({a, b}) <= y
  BY <1>1 DEF Min
<1> QED BY <1>2

\* The smallest of three integers.
LEMMA MinOfThree ==
    ASSUME NEW a \in Int, NEW b \in Int, NEW c \in Int
    PROVE  Min({a, b, c}) = Min({a, Min({b, c})})
<1> DEFINE n == IF b <= c THEN b ELSE c
           m == IF a <= n THEN a ELSE n
<1>1. m \in {a, b, c} /\ \A y \in {a, b, c} : m <= y
  OBVIOUS
<1>2. Min({a, b, c}) \in {a, b, c} /\ \A y \in {a, b, c} : Min({a, b, c}) <= y
  BY <1>1 DEF Min
<1>3. Min({a, b, c}) = m
  BY <1>2
<1>4. Min({b, c}) = n
  BY MinOfTwo
<1>5. n \in Int
  OBVIOUS
<1> HIDE DEF n
<1>6. Min({a, n}) = m
  BY <1>5, MinOfTwo
<1> QED BY <1>3, <1>4, <1>6

-----------------------------------------------------------------------------
(* A run of a script *)

\* A run begins with nothing written.
LEMMA RunInitInv == RunInit => RunInv
<1> SUFFICES ASSUME RunInit PROVE RunInv
  OBVIOUS
<1>1. RunTypes
  BY DEF RunInit, RunTypes, Each
<1>2. Kept("stdout") = 0 /\ Kept("stderr") = 0
  <2>1. Min({BufferBytes, 0}) = 0
    BY RunAssumption, MinOfTwo
  <2> QED BY <2>1 DEF RunInit, Kept, Each, Pipes
<1> QED
  BY <1>1, <1>2 DEF RunInit, RunInv, Output, Waiting, Returned, Each, Pipes

\* Bytes are counted in integers.
LEMMA RunTypesStep ==
    ASSUME RunInv, RunAction PROVE RunTypes'
<1> USE DEF RunInv
<1>1. CASE StartRun
  BY <1>1 DEF StartRun, RunTypes, Each
<1>2. CASE StartFails
  BY <1>2 DEF StartFails, RunTypes, Each
<1>3. CASE Gathered
  BY <1>3 DEF Gathered, RunTypes, Each
<1>4. CASE Reap
  BY <1>4 DEF Reap, RunTypes, Each
<1>5. CASE WaitResult
  BY <1>5 DEF WaitResult, RunTypes, Each
<1>6. CASE Judge
  BY <1>6 DEF Judge, RunTypes, Each
<1>7. ASSUME NEW p \in Pipes, ReadPipe(p) PROVE RunTypes'
  <2>1. Min({taken[p] + 1, BufferBytes}) \in Int
    BY MinOfTwo, RunAssumption DEF RunTypes
  <2> QED BY <1>7, <2>1 DEF ReadPipe, RunTypes
<1>8. ASSUME NEW p \in Pipes, ReadEnds(p) PROVE RunTypes'
  BY <1>8 DEF ReadEnds, RunTypes, Each
<1>9. ASSUME NEW p \in Pipes, Write(p) PROVE RunTypes'
  BY <1>9 DEF Write, RunTypes, Each
<1>10. CASE DeadlinePasses
  BY <1>10 DEF DeadlinePasses, RunTypes, Each
<1>11. CASE ExecKills
  BY <1>11 DEF ExecKills, RunTypes, Each
<1>12. CASE KillerWakes
  BY <1>12 DEF KillerWakes, RunTypes, Each
<1>13. CASE Kill
  BY <1>13 DEF Kill, RunTypes, Each
<1>14. CASE RunAgain
  BY <1>14 DEF RunAgain, RunTypes, Each
<1>15. CASE ChildExits
  BY <1>15 DEF ChildExits, RunTypes, Each
<1>16. ASSUME NEW c, ExitWith(c) PROVE RunTypes'
  BY <1>16 DEF ExitWith, RunTypes, Each
<1>17. ASSUME NEW escaped \in BOOLEAN, NEW holds \in BOOLEAN, Fork(escaped, holds) PROVE RunTypes'
  BY <1>17 DEF Fork, RunTypes, Each
<1>18. CASE UNCHANGED runVars
  BY <1>18 DEF runVars, RunTypes, Each
<1> QED
  BY <1>1, <1>2, <1>3, <1>4, <1>5, <1>6, <1>7, <1>8, <1>9, <1>10, <1>11, <1>12, <1>13,
     <1>14, <1>15, <1>16, <1>17, <1>18
     DEF RunAction, RunStep

\* The bytes kept are the first ones of those that left the pipe.
LEMMA OutputStep ==
    ASSUME RunInv, RunAction PROVE Output'
<1> USE DEF RunInv
<1>1. CASE StartRun
  BY <1>1 DEF StartRun, Output, Kept, Each
<1>2. CASE StartFails
  BY <1>2 DEF StartFails, Output, Kept, Signalled, Return
<1>3. CASE Gathered
  BY <1>3 DEF Gathered, Output, Kept, Signalled, Return
<1>4. CASE Reap
  BY <1>4 DEF Reap, Output, Kept, Signalled, Return
<1>5. CASE WaitResult
  BY <1>5 DEF WaitResult, Output, Kept, Signalled, Return
<1>6. CASE Judge
  BY <1>6 DEF Judge, Output, Kept, Signalled, Return
<1>7. ASSUME NEW p \in Pipes, ReadPipe(p) PROVE Output'
  <2>1. /\ taken' = [taken EXCEPT ![p] = Min({taken[p] + 1, BufferBytes})]
        /\ pipe' = [pipe EXCEPT ![p] = pipe[p] - 1]
        /\ UNCHANGED <<written, reader, main>> /\ reader[p] = "reading"
    BY <1>7 DEF ReadPipe
  <2>2. Min({taken[p] + 1, BufferBytes}) = Min({BufferBytes, written[p] - (pipe[p] - 1)})
    <3> DEFINE left == written[p] - pipe[p]
    <3>1. left \in Int /\ written[p] - (pipe[p] - 1) = left + 1
      BY DEF RunTypes
    <3> HIDE DEF left
    <3>2. taken[p] = Min({BufferBytes, left})
      BY DEF Output, Kept, left
    <3>3. taken[p] = IF BufferBytes <= left THEN BufferBytes ELSE left
      BY <3>1, <3>2, MinOfTwo, RunAssumption
    <3>4. Min({BufferBytes, left + 1}) = IF BufferBytes <= left + 1 THEN BufferBytes ELSE left + 1
      BY <3>1, MinOfTwo, RunAssumption
    <3>5. Min({taken[p] + 1, BufferBytes})
          = IF taken[p] + 1 <= BufferBytes THEN taken[p] + 1 ELSE BufferBytes
      BY MinOfTwo, RunAssumption DEF RunTypes
    <3>6. CASE BufferBytes <= left
      BY <3>1, <3>3, <3>4, <3>5, <3>6, RunAssumption
    <3>7. CASE ~(BufferBytes <= left)
      <4>1. taken[p] = left
        BY <3>3, <3>7
      <4>2. left + 1 <= BufferBytes
        BY <3>1, <3>7, RunAssumption
      <4>3. CASE left + 1 = BufferBytes
        BY <3>1, <3>4, <3>5, <4>1, <4>3, RunAssumption
      <4>4. CASE left + 1 # BufferBytes
        BY <3>1, <3>4, <3>5, <4>1, <4>2, <4>4, RunAssumption
      <4> QED BY <4>3, <4>4
    <3> QED BY <3>6, <3>7
  <2>3. taken'[p] = Kept(p)'
    BY <2>1, <2>2 DEF Kept, RunTypes
  <2>4. \A q \in Pipes \ {p} : taken'[q] = taken[q] /\ pipe'[q] = pipe[q]
    BY <2>1 DEF RunTypes
  <2> QED BY <2>1, <2>3, <2>4, Zenon DEF Output, Kept
<1>8. ASSUME NEW p \in Pipes, ReadEnds(p) PROVE Output'
  <2>1. UNCHANGED <<written, pipe, taken, main>>
    BY <1>8 DEF ReadEnds
  <2>2. reader'[p] = "done" => pipe[p] = 0 /\ main # "running"
    BY <1>8 DEF ReadEnds, Held, RunTypes
  <2>3. \A q \in Pipes \ {p} : reader'[q] = reader[q]
    BY <1>8 DEF ReadEnds, RunTypes
  <2> QED BY <2>1, <2>2, <2>3 DEF Output, Kept
<1>9. ASSUME NEW p \in Pipes, Write(p) PROVE Output'
  <2>1. /\ written' = [written EXCEPT ![p] = written[p] + 1]
        /\ pipe' = [pipe EXCEPT ![p] = pipe[p] + 1]
        /\ UNCHANGED <<taken, reader, main>> /\ main = "running"
    BY <1>9 DEF Write
  <2>2. \A q \in Pipes : written'[q] - pipe'[q] = written[q] - pipe[q]
    BY <2>1 DEF RunTypes
  <2>3. \A q \in Pipes : Kept(q)' = Kept(q)
    BY <2>2 DEF Kept
  <2> QED BY <2>1, <2>3 DEF Output
<1>10. CASE DeadlinePasses
  BY <1>10 DEF DeadlinePasses, Output, Kept, Signalled, Return
<1>11. CASE ExecKills
  BY <1>11 DEF ExecKills, Output, Kept, Signalled, Return
<1>12. CASE KillerWakes
  BY <1>12 DEF KillerWakes, Output, Kept, Signalled, Return
<1>13. CASE Kill
  BY <1>13 DEF Kill, Output, Kept, Signalled, Return
<1>14. CASE RunAgain
  <2>1. Min({BufferBytes, 0}) = 0
    BY RunAssumption, MinOfTwo
  <2> QED BY <1>14, <2>1 DEF RunAgain, Output, Kept, Each
<1>15. CASE ChildExits
  BY <1>15 DEF ChildExits, Output, Kept, Signalled, Return
<1>16. ASSUME NEW c, ExitWith(c) PROVE Output'
  BY <1>16 DEF ExitWith, Output, Kept, Signalled, Return
<1>17. ASSUME NEW escaped \in BOOLEAN, NEW holds \in BOOLEAN, Fork(escaped, holds) PROVE Output'
  BY <1>17 DEF Fork, Output, Kept, Signalled, Return
<1>18. CASE UNCHANGED runVars
  BY <1>18 DEF runVars, Output, Kept, Signalled, Return
<1> QED
  BY <1>1, <1>2, <1>3, <1>4, <1>5, <1>6, <1>7, <1>8, <1>9, <1>10, <1>11, <1>12, <1>13,
     <1>14, <1>15, <1>16, <1>17, <1>18
     DEF RunAction, RunStep

\* run waits, reaps and judges in this order.
LEMMA WaitingStep ==
    ASSUME RunInv, RunAction PROVE Waiting'
<1> USE DEF RunInv
<1>1. CASE StartRun
  BY <1>1 DEF StartRun, Waiting, Signalled, Return
<1>2. CASE StartFails
  BY <1>2 DEF StartFails, Waiting, Signalled, Return
<1>3. CASE Gathered
  BY <1>3 DEF Gathered, Waiting, Signalled, Return
<1>4. CASE Reap
  BY <1>4 DEF Reap, Waiting, Signalled, Return
<1>5. CASE WaitResult
  BY <1>5 DEF WaitResult, Waiting, Return, OK
<1>6. CASE Judge
  BY <1>6 DEF Judge, Waiting, Signalled, Return
<1>7. ASSUME NEW p \in Pipes, ReadPipe(p) PROVE Waiting'
  BY <1>7 DEF ReadPipe, Waiting, Signalled, Return
<1>8. ASSUME NEW p \in Pipes, ReadEnds(p) PROVE Waiting'
  BY <1>8 DEF ReadEnds, Waiting, RunTypes
<1>9. ASSUME NEW p \in Pipes, Write(p) PROVE Waiting'
  BY <1>9 DEF Write, Waiting, Signalled, Return
<1>10. CASE DeadlinePasses
  BY <1>10 DEF DeadlinePasses, Waiting, Signalled, Return
<1>11. CASE ExecKills
  BY <1>11 DEF ExecKills, Waiting, Signalled, Return
<1>12. CASE KillerWakes
  BY <1>12 DEF KillerWakes, Waiting, Signalled, Return
<1>13. CASE Kill
  BY <1>13 DEF Kill, Waiting, Signalled, Return
<1>14. CASE RunAgain
  BY <1>14 DEF RunAgain, Waiting, Signalled, Return
<1>15. CASE ChildExits
  BY <1>15 DEF ChildExits, Waiting, Signalled, Return
<1>16. ASSUME NEW c, ExitWith(c) PROVE Waiting'
  BY <1>16 DEF ExitWith, Waiting, Signalled, Return
<1>17. ASSUME NEW escaped \in BOOLEAN, NEW holds \in BOOLEAN, Fork(escaped, holds) PROVE Waiting'
  BY <1>17 DEF Fork, Waiting, Signalled, Return
<1>18. CASE UNCHANGED runVars
  BY <1>18 DEF runVars, Waiting, Signalled, Return
<1> QED
  BY <1>1, <1>2, <1>3, <1>4, <1>5, <1>6, <1>7, <1>8, <1>9, <1>10, <1>11, <1>12, <1>13,
     <1>14, <1>15, <1>16, <1>17, <1>18
     DEF RunAction, RunStep

\* What run returned stays true of the process: it was reaped, and its readers are done.
LEMMA ReturnedStep ==
    ASSUME RunInv, RunAction PROVE Returned'
<1> USE DEF RunInv
<1>1. CASE StartRun
  BY <1>1 DEF StartRun, Returned, Signalled
<1>2. CASE StartFails
  BY <1>2 DEF StartFails, Returned, Error, Unknown, OK, NonOK
<1>3. CASE Gathered
  <2>1. CASE \E p \in Pipes : reader[p] = "failed"
    BY <1>3, <2>1 DEF Gathered, Return, Returned, Error, Unknown, OK, NonOK
  <2>2. CASE ~\E p \in Pipes : reader[p] = "failed"
    BY <1>3, <2>2 DEF Gathered, Returned
  <2> QED BY <2>1, <2>2
<1>4. CASE Reap
  BY <1>4 DEF Reap, Returned, Signalled
<1>5. CASE WaitResult
  <2>1. CASE execWatch = "killed" /\ code = 0
    BY <1>5, <2>1 DEF WaitResult, Return, Returned, Error, Unknown, OK, NonOK
  <2>2. CASE ~(execWatch = "killed" /\ code = 0)
    BY <1>5, <2>2 DEF WaitResult, Returned
  <2> QED BY <2>1, <2>2
<1>6. CASE Judge
  <2>1. /\ result'.status = IF code \in {OK, NonOK} THEN code ELSE Unknown
        /\ result'.message = IF timeout THEN "timeout" ELSE "output"
        /\ result'.length = Min({MaxOutputLength,
                                 taken["stdout"] + IF timeout THEN TimeoutText ELSE 0})
        /\ UNCHANGED <<main, code, execWatch, reader, taken>> /\ runner = "judging"
    BY <1>6 DEF Judge, Return
  <2>2. result'.status \in {OK, NonOK} => code = result'.status
    BY <2>1 DEF OK, NonOK, Unknown
  <2>3. result'.message = "output" => result'.length = Min({MaxOutputLength, taken["stdout"]})
    <3>1. taken["stdout"] + 0 = taken["stdout"]
      BY DEF RunTypes, Pipes
    <3> QED BY <2>1, <3>1
  <2> QED BY <2>1, <2>2, <2>3 DEF Returned, Waiting
<1>7. ASSUME NEW p \in Pipes, ReadPipe(p) PROVE Returned'
  BY <1>7 DEF ReadPipe, Returned, Signalled
<1>8. ASSUME NEW p \in Pipes, ReadEnds(p) PROVE Returned'
  BY <1>8 DEF ReadEnds, Returned, RunTypes
<1>9. ASSUME NEW p \in Pipes, Write(p) PROVE Returned'
  BY <1>9 DEF Write, Returned, Signalled
<1>10. CASE DeadlinePasses
  BY <1>10 DEF DeadlinePasses, Returned, Signalled
<1>11. CASE ExecKills
  BY <1>11 DEF ExecKills, Returned, Signalled
<1>12. CASE KillerWakes
  BY <1>12 DEF KillerWakes, Returned, Signalled
<1>13. CASE Kill
  BY <1>13 DEF Kill, Returned, Signalled
<1>14. CASE RunAgain
  BY <1>14, Zenon DEF RunAgain, Returned, Signalled
<1>15. CASE ChildExits
  BY <1>15 DEF ChildExits, Returned, Signalled
<1>16. ASSUME NEW c, ExitWith(c) PROVE Returned'
  BY <1>16 DEF ExitWith, Returned, Signalled
<1>17. ASSUME NEW escaped \in BOOLEAN, NEW holds \in BOOLEAN, Fork(escaped, holds) PROVE Returned'
  BY <1>17 DEF Fork, Returned, Signalled
<1>18. CASE UNCHANGED runVars
  BY <1>18 DEF runVars, Returned, Signalled
<1> QED
  BY <1>1, <1>2, <1>3, <1>4, <1>5, <1>6, <1>7, <1>8, <1>9, <1>10, <1>11, <1>12, <1>13,
     <1>14, <1>15, <1>16, <1>17, <1>18
     DEF RunAction, RunStep

-----------------------------------------------------------------------------
(* The health checker and its service *)

\* The greatest of some of the indices of a sequence is one of them.
LEMMA MaxOfIndices ==
    ASSUME NEW n \in Nat, NEW S \in SUBSET (1 .. n), S # {}
    PROVE  Max(S) \in S
<1> DEFINE D == {n - i : i \in S}
<1>0. \A i \in S : i \in Int /\ i <= n
  OBVIOUS
<1>1. D \in SUBSET Nat /\ D # {}
  <2>2. \A i \in S : n - i \in Nat
    BY <1>0
  <2> QED BY <2>2, Zenon
<1>2. PICK d \in D : \A e \in D : d <= e
  BY <1>1, Least, Zenon
<1>3. PICK x \in S : d = n - x
  BY <1>2
<1>4. \A y \in S : n - y \in D /\ y \in Int
  <2>1. \A y \in S : n - y \in D
    BY Zenon
  <2> QED BY <1>0, <2>1, Zenon
<1>5. ASSUME NEW y \in S PROVE x >= y
  <2>1. d <= n - y
    BY <1>2, <1>4
  <2> QED BY <2>1, <1>3, <1>4
<1> QED BY <1>5, Zenon DEF Max

\* The threshold of a pattern is an integer.
LEMMA CountsAreIntegers ==
    ASSUME NEW items \in Seq([pattern : STRING, count : Int]),
           NEW p \in DOMAIN LogPatternCounts(items)
    PROVE  LogPatternCounts(items)[p] \in Int /\ p \in STRING
<1> DEFINE S == {i \in DOMAIN items : items[i].pattern = p}
<1>1. PICK i \in DOMAIN items : items[i].pattern = p
  <2>1. DOMAIN LogPatternCounts(items) = {items[i].pattern : i \in DOMAIN items}
    BY DEF LogPatternCounts
  <2> QED BY <2>1
<1>2. S \in SUBSET (1 .. Len(items)) /\ S # {} /\ Len(items) \in Nat
  BY <1>1
<1>3. Max(S) \in S
  BY <1>2, MaxOfIndices, Zenon
<1>4. ASSUME NEW j \in DOMAIN items PROVE items[j].pattern \in STRING /\ items[j].count \in Int
  <2>1. \A R : items \in Seq(R) => items[j] \in R
    OBVIOUS
  <2>2. items[j] \in [pattern : STRING, count : Int]
    BY <2>1, Zenon
  <2> QED BY <2>2
<1>5. LogPatternCounts(items)[p] = items[Max(S)].count
  <2>1. p \in {items[j].pattern : j \in DOMAIN items}
    BY <1>1
  <2> QED BY <2>1 DEF LogPatternCounts
<1> QED BY <1>1, <1>3, <1>4, <1>5

\* The options, as far as PlansAssumption goes.
LEMMA OptionTypes ==
    ASSUME HealthTypes
    PROVE  options.loopBackTime \in Int /\ options.logPatterns \in Seq([pattern : STRING, count : Int])
BY PlansAssumption DEF HealthTypes

\* Ages count up to a limit beyond the cool-down, and keep their order.
LEMMA OlderFacts ==
    ASSUME NEW a \in Nat, NEW b \in Nat
    PROVE  /\ Older(a) \in Nat /\ Older(a) <= a + 1
           /\ a <= b => Older(a) <= Older(b)
           /\ a > CoolDownTime => Older(a) > CoolDownTime
<1>1. Older(a) = IF a + 1 <= MaxAge + 1 THEN a + 1 ELSE MaxAge + 1
  BY MinOfTwo, HealthAssumption DEF Older
<1>2. Older(b) = IF b + 1 <= MaxAge + 1 THEN b + 1 ELSE MaxAge + 1
  BY MinOfTwo, HealthAssumption DEF Older
<1> QED BY <1>1, <1>2, HealthAssumption

\* A free identifier for an entry of the journal, as long as it is not full.
LEMMA FreeEntry ==
    ASSUME IsFiniteSet(journal), Cardinality(journal) < MaxEntriesLogged
    PROVE  \E i \in 1 .. MaxEntriesLogged : \A e \in journal : e.id # i
<1> SUFFICES ASSUME \A i \in 1 .. MaxEntriesLogged : \E e \in journal : e.id = i
             PROVE  FALSE
  OBVIOUS
<1> DEFINE f == [i \in 1 .. MaxEntriesLogged |-> CHOOSE e \in journal : e.id = i]
<1>1. \A i \in 1 .. MaxEntriesLogged : f[i] \in journal /\ f[i].id = i
  OBVIOUS
<1>2. f \in Injection(1 .. MaxEntriesLogged, journal)
  BY <1>1 DEF Injection, IsInjective
<1>3. Cardinality(1 .. MaxEntriesLogged) <= Cardinality(journal)
  BY <1>2, FS_Injection
<1>4. Cardinality(1 .. MaxEntriesLogged) = MaxEntriesLogged
  BY FS_Interval, HealthAssumption
<1>5. Cardinality(journal) \in Nat
  BY FS_CardinalityType
<1> QED BY <1>3, <1>4, <1>5, HealthAssumption

\* The options stay, ages stay natural numbers and the journal stays finite.
LEMMA HealthTypesStep ==
    ASSUME HealthInv, HealthAction PROVE HealthTypes'
<1> USE DEF HealthInv
<1>0. plan' = plan
  BY DEF HealthAction
<1>1. CASE Begin
  <2>1. /\ UNCHANGED <<options, service, journal>>
        /\ patterns' \subseteq patterns /\ logStart' \in {0, logStart}
        /\ (restarted' = FALSE \/ UNCHANGED restarted)
    BY <1>1 DEF Begin, Leave
  <2>2. restarted' \in BOOLEAN
    BY <2>1, Zenon DEF HealthTypes
  <2> QED BY <1>0, <2>1, <2>2 DEF HealthTypes
<1>2. CASE Check
  <2>1. /\ UNCHANGED <<options, service, journal>>
        /\ patterns' \subseteq patterns /\ logStart' \in {0, logStart}
        /\ (restarted' = FALSE \/ UNCHANGED restarted)
    BY <1>2 DEF Check, Leave
  <2>2. restarted' \in BOOLEAN
    BY <2>1, Zenon DEF HealthTypes
  <2> QED BY <1>0, <2>1, <2>2 DEF HealthTypes
<1>3. CASE DateLogs
  <2>1. LogStart(Uptime) \in Nat
    BY OptionTypes DEF LogStart, Uptime, HealthTypes
  <2>2. /\ UNCHANGED <<options, service, journal>>
        /\ patterns' \subseteq DOMAIN LogPatternCounts(options.logPatterns)
        /\ logStart' \in Nat /\ restarted' = FALSE
    BY <1>3, <2>1 DEF DateLogs, Leave
  <2> QED BY <1>0, <2>2, Zenon DEF HealthTypes
<1>4. CASE MatchLogs
  <2>1. /\ UNCHANGED <<options, service, journal>>
        /\ patterns' \subseteq patterns /\ logStart' \in {0, logStart}
        /\ (restarted' = FALSE \/ UNCHANGED restarted)
    BY <1>4 DEF MatchLogs, Leave
  <2>2. restarted' \in BOOLEAN
    BY <2>1, Zenon DEF HealthTypes
  <2> QED BY <1>0, <2>1, <2>2 DEF HealthTypes
<1>5. CASE Decide
  <2>1. /\ UNCHANGED <<options, service, journal>>
        /\ patterns' \subseteq patterns /\ logStart' \in {0, logStart}
        /\ (restarted' = FALSE \/ UNCHANGED restarted)
    BY <1>5 DEF Decide, Leave
  <2>2. restarted' \in BOOLEAN
    BY <2>1, Zenon DEF HealthTypes
  <2> QED BY <1>0, <2>1, <2>2 DEF HealthTypes
<1>6. CASE Repair
  BY <1>6, <1>0, Zenon DEF Repair, HealthTypes, Leave
<1>7. CASE ServiceStarts
  <2> DEFINE Old(e) == [e EXCEPT !.current = FALSE]
             f == [e \in journal |-> Old(e)]
  <2>1. /\ service' = [service EXCEPT !.state = "activating", !.exited = 0]
        /\ journal' = {Old(e) : e \in journal} /\ restarted' \in BOOLEAN
        /\ UNCHANGED <<options, logStart, patterns>>
    BY <1>7 DEF ServiceStarts
  <2>2. f \in Surjection(journal, journal')
    BY <2>1, Zenon DEF Surjection
  <2>3. IsFiniteSet(journal')
    BY <2>2, FS_Surjection DEF HealthTypes
  <2>4. journal' \subseteq [id : 1 .. MaxEntriesLogged, pattern : STRING, age : Nat,
                            current : BOOLEAN]
    <3> DEFINE R == [id : 1 .. MaxEntriesLogged, pattern : STRING, age : Nat, current : BOOLEAN]
    <3>1. \A e \in R : Old(e) \in R
      BY Zenon
    <3>2. journal \subseteq R
      BY Zenon DEF HealthTypes
    <3> HIDE DEF R, Old
    <3> QED BY <2>1, <3>1, <3>2, Zenon DEF R
  <2>5. service' \in [state : {"active", "activating", "inactive"}, exited : Nat, entered : Nat,
                      answers : BOOLEAN]
    BY <2>1, Zenon DEF HealthTypes
  <2> QED BY <1>0, <2>1, <2>3, <2>4, <2>5 DEF HealthTypes
<1>8. CASE ServiceHangs
  BY <1>8, <1>0, Zenon DEF ServiceHangs, HealthTypes, Leave
<1>9. CASE ServiceDies
  BY <1>9, <1>0 DEF ServiceDies, HealthTypes, Leave
<1>10. CASE Tick
  <2> DEFINE Young == {e \in journal : e.age < MaxAge}
             Aged(e) == [e EXCEPT !.age = @ + 1]
             f == [e \in Young |-> Aged(e)]
  <2>1. /\ service' = [service EXCEPT !.exited = Older(service.exited),
                                      !.entered = Older(service.entered)]
        /\ journal' = {Aged(e) : e \in Young}
        /\ logStart' = IF checker = "matching" THEN Older(logStart) ELSE logStart
        /\ UNCHANGED <<options, patterns, restarted>>
    BY <1>10 DEF Tick
  <2>2. IsFiniteSet(Young)
    <3>1. Young \in SUBSET journal /\ IsFiniteSet(journal)
      BY DEF HealthTypes
    <3> QED BY <3>1, FS_Subset
  <2>3. f \in Surjection(Young, journal')
    BY <2>1, Zenon DEF Surjection
  <2>4. IsFiniteSet(journal')
    BY <2>2, <2>3, FS_Surjection
  <2>5. journal' \subseteq [id : 1 .. MaxEntriesLogged, pattern : STRING, age : Nat,
                            current : BOOLEAN]
    <3>1. \A e \in Young : Aged(e) \in [id : 1 .. MaxEntriesLogged, pattern : STRING, age : Nat,
                                        current : BOOLEAN]
      BY DEF HealthTypes
    <3> QED BY <2>1, <3>1
  <2>6. /\ Older(service.exited) \in Nat /\ Older(service.entered) \in Nat
        /\ Older(logStart) \in Nat
    BY OlderFacts DEF HealthTypes
  <2>7. service' \in [state : {"active", "activating", "inactive"}, exited : Nat, entered : Nat,
                      answers : BOOLEAN]
    BY <2>1, <2>6, Zenon DEF HealthTypes
  <2> QED BY <1>0, <2>1, <2>4, <2>5, <2>6, <2>7 DEF HealthTypes
<1>11. ASSUME NEW answers \in BOOLEAN, ServiceReady(answers) PROVE HealthTypes'
  BY <1>11, <1>0, Zenon DEF ServiceReady, HealthTypes, Leave
<1>12. ASSUME NEW p \in DOMAIN LogPatternCounts(options.logPatterns), Logs(p) PROVE HealthTypes'
  <2> DEFINE free == CHOOSE i \in 1 .. MaxEntriesLogged : \A e \in journal : e.id # i
             entry == [id |-> free, pattern |-> p, age |-> 0, current |-> TRUE]
  <2>1. /\ Cardinality(journal) < MaxEntriesLogged
        /\ journal' = journal \cup {entry}
        /\ UNCHANGED <<options, service, logStart, patterns, restarted>>
    BY <1>12 DEF Logs
  <2>2. free \in 1 .. MaxEntriesLogged
    BY <2>1, FreeEntry DEF HealthTypes
  <2>3. p \in STRING
    BY OptionTypes, CountsAreIntegers
  <2>4. IsFiniteSet(journal')
    BY <2>1, FS_AddElement, Zenon DEF HealthTypes
  <2>5. entry \in [id : 1 .. MaxEntriesLogged, pattern : STRING, age : Nat, current : BOOLEAN]
    BY <2>2, <2>3
  <2> HIDE DEF entry
  <2> QED BY <1>0, <2>1, <2>4, <2>5 DEF HealthTypes
<1>13. CASE UNCHANGED healthVars
  BY <1>13, <1>0 DEF healthVars, HealthTypes, Leave
<1>14. CASE Forget /\ UNCHANGED <<options, service, journal, witnessed>>
  BY <1>14, <1>0, Zenon DEF Forget, HealthTypes, Leave
<1> QED
  BY <1>1, <1>2, <1>3, <1>4, <1>5, <1>6, <1>7, <1>8, <1>9, <1>10, <1>11, <1>12, <1>13,
     <1>14
     DEF HealthAction, HealthStep, ServiceStep

\* Starts, seconds and the check keep the order of the three ages.
LEMMA DatedStep ==
    ASSUME HealthInv, HealthAction PROVE Dated'
<1> USE DEF HealthInv
<1>1. CASE Begin
  BY <1>1 DEF Begin, Dated, Leave, HealthTypes
<1>2. CASE Check
  BY <1>2 DEF Check, Dated, Leave, HealthTypes
<1>3. CASE DateLogs
  <2>1. LogStart(Uptime) <= service.exited
    BY OptionTypes DEF LogStart, Uptime, HealthTypes
  <2> QED BY <1>3, <2>1 DEF DateLogs, Dated, Leave
<1>4. CASE MatchLogs
  <2>1. /\ UNCHANGED <<service, journal>>
        /\ checker' = "matching" => UNCHANGED <<logStart, restarted>> /\ checker = "matching"
    BY <1>4 DEF MatchLogs, Leave
  <2> QED BY <2>1, HealthTypesStep DEF Dated, HealthTypes
<1>5. CASE Decide
  BY <1>5 DEF Decide, Dated, Leave, HealthTypes
<1>6. CASE Repair
  <2>1. /\ service'.exited = service.exited
        /\ journal' = journal /\ checker' = "exiting"
    BY <1>6 DEF Repair, Leave, HealthTypes
  <2> QED BY <2>1 DEF Dated
<1>7. CASE ServiceStarts
  <2>1. /\ service'.exited = 0 /\ \A e \in journal' : e.age \in Nat
        /\ checker' = "matching" => restarted'
    BY <1>7, HealthTypesStep, Zenon DEF ServiceStarts, HealthTypes
  <2> QED BY <2>1 DEF Dated
<1>8. CASE ServiceHangs
  <2>1. service'.exited = service.exited
    BY <1>8 DEF ServiceHangs, HealthTypes
  <2> QED BY <1>8, <2>1 DEF ServiceHangs, Dated, HealthTypes
<1>9. CASE ServiceDies
  <2>1. service'.exited = service.exited
    BY <1>9 DEF ServiceDies, HealthTypes
  <2> QED BY <1>9, <2>1 DEF ServiceDies, Dated, HealthTypes
<1>10. CASE Tick
  <2>1. /\ service'.exited = Older(service.exited) /\ UNCHANGED <<checker, restarted>>
        /\ checker = "matching" => logStart' = Older(logStart)
    BY <1>10 DEF Tick, HealthTypes
  <2>2. ASSUME NEW e \in journal', ~e.current PROVE Older(service.exited) <= e.age
    <3>1. PICK f \in journal : e = [f EXCEPT !.age = f.age + 1]
      BY <1>10 DEF Tick
    <3>2. e.age = f.age + 1 /\ ~f.current /\ f.age \in Nat
      BY <2>2, <3>1 DEF HealthTypes
    <3>3. service.exited <= f.age
      BY <3>2 DEF Dated
    <3> QED BY <3>2, <3>3, OlderFacts DEF HealthTypes
  <2>3. ASSUME checker = "matching", ~restarted PROVE Older(logStart) <= Older(service.exited)
    BY <2>3, OlderFacts DEF Dated, HealthTypes
  <2> QED BY <2>1, <2>2, <2>3, HealthTypesStep DEF Dated, HealthTypes
<1>11. ASSUME NEW answers \in BOOLEAN, ServiceReady(answers) PROVE Dated'
  <2>1. service'.exited = service.exited
    BY <1>11 DEF ServiceReady, HealthTypes
  <2> QED BY <1>11, <2>1 DEF ServiceReady, Dated, HealthTypes
<1>12. ASSUME NEW p \in DOMAIN LogPatternCounts(options.logPatterns), Logs(p) PROVE Dated'
  <2>1. /\ UNCHANGED <<service, checker, logStart, restarted>>
        /\ \A e \in journal' : e \in journal \/ e.current
    BY <1>12 DEF Logs
  <2> QED BY <2>1 DEF Dated, HealthTypes
<1>13. CASE UNCHANGED healthVars
  BY <1>13 DEF healthVars, Dated, Leave, HealthTypes
<1>14. CASE Forget /\ UNCHANGED <<options, service, journal, witnessed>>
  BY <1>14 DEF Forget, Dated, Leave, HealthTypes
<1> QED
  BY <1>1, <1>2, <1>3, <1>4, <1>5, <1>6, <1>7, <1>8, <1>9, <1>10, <1>11, <1>12, <1>13,
     <1>14
     DEF HealthAction, HealthStep, ServiceStep

\* The repair begins after the cool-down, which only a start begins again.
LEMMA CooledStep ==
    ASSUME HealthInv, HealthAction PROVE Cooled'
<1> USE DEF HealthInv
<1>1. CASE Begin
  BY <1>1 DEF Begin, Cooled, Leave, HealthTypes, Uptime
<1>2. CASE Check
  BY <1>2 DEF Check, Cooled, Leave, HealthTypes, Uptime
<1>3. CASE DateLogs
  BY <1>3 DEF DateLogs, Cooled, Leave, HealthTypes, Uptime
<1>4. CASE MatchLogs
  BY <1>4 DEF MatchLogs, Cooled, Leave, HealthTypes, Uptime
<1>5. CASE Decide
  BY <1>5 DEF Decide, Cooled, Leave, HealthTypes, Uptime
<1>6. CASE Repair
  BY <1>6 DEF Repair, Cooled, Leave, HealthTypes, Uptime
<1>7. CASE ServiceStarts
  BY <1>7, Zenon DEF ServiceStarts, Cooled, Leave, HealthTypes, Uptime
<1>8. CASE ServiceHangs
  <2>1. service'.exited = service.exited
    BY <1>8 DEF ServiceHangs, HealthTypes
  <2> QED BY <1>8, <2>1 DEF ServiceHangs, Cooled, HealthTypes
<1>9. CASE ServiceDies
  <2>1. service'.exited = service.exited
    BY <1>9 DEF ServiceDies, HealthTypes
  <2> QED BY <1>9, <2>1 DEF ServiceDies, Cooled, HealthTypes
<1>10. CASE Tick
  <2>1. service'.exited = Older(service.exited) /\ UNCHANGED <<checker, restarted>>
    BY <1>10 DEF Tick, HealthTypes
  <2>2. service.exited > CoolDownTime => Older(service.exited) > CoolDownTime
    BY OlderFacts DEF HealthTypes
  <2> QED BY <2>1, <2>2 DEF Cooled, HealthTypes
<1>11. ASSUME NEW answers \in BOOLEAN, ServiceReady(answers) PROVE Cooled'
  <2>1. service'.exited = service.exited
    BY <1>11 DEF ServiceReady, HealthTypes
  <2> QED BY <1>11, <2>1 DEF ServiceReady, Cooled, HealthTypes
<1>12. ASSUME NEW p \in DOMAIN LogPatternCounts(options.logPatterns), Logs(p) PROVE Cooled'
  BY <1>12 DEF Logs, Cooled, Leave, HealthTypes, Uptime
<1>13. CASE UNCHANGED healthVars
  BY <1>13 DEF healthVars, Cooled, Leave, HealthTypes, Uptime
<1>14. CASE Forget /\ UNCHANGED <<options, service, journal, witnessed>>
  BY <1>14 DEF Forget, Cooled, Leave, HealthTypes, Uptime
<1> QED
  BY <1>1, <1>2, <1>3, <1>4, <1>5, <1>6, <1>7, <1>8, <1>9, <1>10, <1>11, <1>12, <1>13,
     <1>14
     DEF HealthAction, HealthStep, ServiceStep

\* What MatchLogs finds too often is the service's own since its start.
LEMMA BlamedStep ==
    ASSUME HealthInv, HealthAction PROVE BlamedForItsOwnLog'
<1> USE DEF HealthInv
<1>1. CASE Begin
  BY <1>1 DEF Begin, BlamedForItsOwnLog, Leave
<1>2. CASE Check
  BY <1>2 DEF Check, BlamedForItsOwnLog, Leave
<1>3. CASE DateLogs
  BY <1>3 DEF DateLogs, BlamedForItsOwnLog, Leave
<1>4. CASE MatchLogs
  <2>1. PICK p \in patterns :
          \/ witnessed' = witnessed
          \/ /\ Occurrences(p) >= LogPatternCounts(options.logPatterns)[p] /\ ~restarted
             /\ witnessed' = Min({Current(p) - LogPatternCounts(options.logPatterns)[p], 0})
    BY <1>4 DEF MatchLogs
  <2> DEFINE counted == LogPatternCounts(options.logPatterns)[p]
             Found == {e \in journal : e.pattern = p /\ e.age <= logStart}
             Own == {e \in journal : e.pattern = p /\ (e.current \/ e.age = logStart)}
  <2>2. CASE /\ Occurrences(p) >= counted /\ ~restarted
             /\ witnessed' = Min({Current(p) - counted, 0})
    <3>1. checker = "matching"
      BY <1>4 DEF MatchLogs
    <3>2. counted \in Int
      BY OptionTypes, CountsAreIntegers DEF HealthTypes
    <3>3. ASSUME NEW e \in journal, e.age <= logStart, ~e.current PROVE e.age = logStart
      <4>1. service.exited <= e.age /\ logStart <= service.exited
        BY <2>2, <3>1, <3>3 DEF Dated
      <4> QED BY <3>3, <4>1 DEF HealthTypes
    <3>4. Found \in SUBSET Own /\ Own \in SUBSET journal /\ Found \in SUBSET journal
      BY <3>3
    <3>5. IsFiniteSet(journal)
      BY DEF HealthTypes
    <3>6. IsFiniteSet(Own) /\ IsFiniteSet(Found)
      BY <3>4, <3>5, FS_Subset
    <3>7. /\ Cardinality(Found) <= Cardinality(Own)
          /\ Cardinality(Found) \in Nat /\ Cardinality(Own) \in Nat
      BY <3>4, <3>6, FS_Subset, FS_CardinalityType
    <3>8. Occurrences(p) = Cardinality(Found) /\ Current(p) = Cardinality(Own)
      BY DEF Occurrences, Current
    <3> HIDE DEF counted, Found, Own
    <3>9. Current(p) - counted \in Int /\ Current(p) - counted >= 0
      BY <2>2, <3>2, <3>7, <3>8
    <3>10. Min({Current(p) - counted, 0}) = 0
      BY <3>9, MinOfTwo
    <3> QED BY <2>2, <3>10 DEF BlamedForItsOwnLog
  <2> QED BY <2>1, <2>2 DEF BlamedForItsOwnLog
<1>5. CASE Decide
  BY <1>5 DEF Decide, BlamedForItsOwnLog, Leave
<1>6. CASE Repair
  BY <1>6 DEF Repair, BlamedForItsOwnLog, Leave
<1>7. CASE ServiceStarts
  BY <1>7 DEF ServiceStarts, BlamedForItsOwnLog, Leave
<1>8. CASE ServiceHangs
  BY <1>8 DEF ServiceHangs, BlamedForItsOwnLog, Leave
<1>9. CASE ServiceDies
  BY <1>9 DEF ServiceDies, BlamedForItsOwnLog, Leave
<1>10. CASE Tick
  BY <1>10 DEF Tick, BlamedForItsOwnLog, Leave
<1>11. ASSUME NEW answers \in BOOLEAN, ServiceReady(answers) PROVE BlamedForItsOwnLog'
  BY <1>11 DEF ServiceReady, BlamedForItsOwnLog, Leave
<1>12. ASSUME NEW p \in DOMAIN LogPatternCounts(options.logPatterns), Logs(p) PROVE BlamedForItsOwnLog'
  BY <1>12 DEF Logs, BlamedForItsOwnLog, Leave
<1>13. CASE UNCHANGED healthVars
  BY <1>13 DEF healthVars, BlamedForItsOwnLog, Leave
<1>14. CASE Forget /\ UNCHANGED <<options, service, journal, witnessed>>
  BY <1>14 DEF Forget, BlamedForItsOwnLog, Leave
<1> QED
  BY <1>1, <1>2, <1>3, <1>4, <1>5, <1>6, <1>7, <1>8, <1>9, <1>10, <1>11, <1>12, <1>13,
     <1>14
     DEF HealthAction, HealthStep, ServiceStep

-----------------------------------------------------------------------------
(* The log counter *)

\* The lines pushed are the first ones of the journal, each with its message and its index.
LEMMA PushedFacts ==
    ASSUME NEW logs \in Seq(Line), NEW n \in 0 .. Len(logs)
    PROVE  /\ Pushed(logs, n) \in Seq(PushedLog) /\ Len(Pushed(logs, n)) = n
           /\ n < Len(logs) =>
                 /\ [message |-> logs[n + 1].message, time |-> n + 1] \in PushedLog
                 /\ Pushed(logs, n + 1)
                      = Append(Pushed(logs, n), [message |-> logs[n + 1].message, time |-> n + 1])
<1> DEFINE N == Len(logs)
           log(i) == [message |-> logs[i].message, time |-> i]
<1>1. N \in Nat /\ n \in Nat
  BY LenProperties
<1>2. ASSUME NEW i \in 1 .. N PROVE log(i) \in PushedLog
  <2>1. logs[i] \in Line
    BY ElementOfSeq
  <2>2. logs[i].message \in Seq(Letter)
    BY <2>1, CounterAssumption DEF Line
  <2>3. i \in Nat /\ i > 0
    BY <1>1
  <2> QED BY <2>2, <2>3 DEF PushedLog, AnyLog
<1> HIDE DEF log
<1>3. \A k \in 0 .. N : Pushed(logs, k) = [i \in 1 .. k |-> log(i)]
  BY DEF Pushed, log
<1>4. \A k \in 0 .. N : \A i \in 1 .. k : i \in 1 .. N
  BY <1>1
<1>5. Pushed(logs, n) \in Seq(PushedLog) /\ Len(Pushed(logs, n)) = n
  BY <1>1, <1>2, <1>3, <1>4
<1>6. ASSUME n < N
      PROVE  log(n + 1) \in PushedLog /\ Pushed(logs, n + 1) = Append(Pushed(logs, n), log(n + 1))
  <2>1. n + 1 \in 1 .. N /\ n + 1 \in 0 .. N
    BY <1>1, <1>6
  <2>2. Pushed(logs, n + 1) = [i \in 1 .. n + 1 |-> log(i)] /\ Pushed(logs, n) = [i \in 1 .. n |-> log(i)]
    BY <1>3, <2>1
  <2> QED BY <1>1, <1>2, <1>5, <2>1, <2>2
<1> QED BY <1>5, <1>6 DEF log

\* One more line is one more hit, if it completes a match.
LEMMA HitsStep ==
    ASSUME NEW logs, NEW n \in Nat, NEW expr
    PROVE  /\ Hits(logs, n, expr) \in Int
           /\ Hits(logs, n + 1, expr)
                = Hits(logs, n, expr)
                  + IF expr # <<>> /\ CoveredLines(Pushed(logs, n + 1), expr) # <<>> THEN 1 ELSE 0
<1> DEFINE is(i) == CoveredLines(Pushed(logs, i), expr) # <<>>
           before == {i \in 1 .. n : is(i)}
           after == {i \in 1 .. n + 1 : is(i)}
<1> HIDE DEF is
<1>1. IsFiniteSet(before)
  <2>1. IsFiniteSet(1 .. n)
    BY FS_Interval
  <2>2. before \subseteq 1 .. n
    OBVIOUS
  <2> QED BY <2>1, <2>2, FS_Subset
<1>2. Cardinality(before) \in Nat
  BY <1>1, FS_CardinalityType
<1>3. n + 1 \notin before
  OBVIOUS
<1>4. after = IF is(n + 1) THEN before \cup {n + 1} ELSE before
  <2>1. 1 .. n + 1 = 1 .. n \cup {n + 1}
    OBVIOUS
  <2> QED BY <2>1
<1> HIDE DEF before, after
<1>5. Cardinality(after) = Cardinality(before) + IF is(n + 1) THEN 1 ELSE 0
  <2>1. CASE is(n + 1)
    <3>1. Cardinality(before \cup {n + 1}) = Cardinality(before) + 1
      BY <1>1, <1>3, FS_AddElement
    <3> QED BY <1>4, <2>1, <3>1
  <2>2. CASE ~is(n + 1)
    BY <1>2, <1>4, <2>2
  <2> QED BY <2>1, <2>2
<1>6. expr # <<>> => Hits(logs, n, expr) = Cardinality(before)
                     /\ Hits(logs, n + 1, expr) = Cardinality(after)
  BY DEF Hits, before, after, is
<1>7. expr = <<>> => Hits(logs, n, expr) = 0 /\ Hits(logs, n + 1, expr) = 0
  BY DEF Hits
<1> QED BY <1>2, <1>5, <1>6, <1>7 DEF is

\* A line that is written later changes nothing of the lines before it.
LEMMA HitsKept ==
    ASSUME NEW logs \in Seq(Line), NEW line \in Line, NEW n \in 0 .. Len(logs), NEW expr
    PROVE  /\ Pushed(Append(logs, line), n) = Pushed(logs, n)
           /\ Hits(Append(logs, line), n, expr) = Hits(logs, n, expr)
<1>1. Len(logs) \in Nat
  BY LenProperties
<1>2. \A i \in 1 .. Len(logs) : Append(logs, line)[i] = logs[i]
  BY AppendProperties
<1>3. \A k \in 0 .. n : \A i \in 1 .. k : i \in 1 .. Len(logs)
  BY <1>1
<1>4. \A k \in 0 .. n : Pushed(Append(logs, line), k) = Pushed(logs, k)
  BY <1>2, <1>3 DEF Pushed
<1>5. n \in 0 .. n /\ \A i \in 1 .. n : i \in 0 .. n
  BY <1>1
<1>6. Hits(Append(logs, line), n, expr) = Hits(logs, n, expr)
  BY <1>4, <1>5, Zenon DEF Hits
<1> QED BY <1>4, <1>5, <1>6

\* Match hits when the lines pushed last complete a match.
LEMMA HitIsCovered ==
    ASSUME NEW b, NEW pushed \in Seq(PushedLog), RingHolds(b, pushed), NEW expr \in Seq(Alternative)
    PROVE  Hit(b, expr) = IF expr # <<>> /\ CoveredLines(pushed, expr) # <<>> THEN 1 ELSE 0
<1>1. Match(b, CompilePattern(expr)) = CoveredLines(pushed, expr)
  BY MatchIsCovered
<1> QED BY <1>1 DEF Hit

\* The log counter starts with nothing read.
LEMMA CounterInitInv == ASSUME Init PROVE CounterInv
<1>1. lines \in Seq(Line) /\ (plan.script = "counter" => fedo \in CounterOptions)
  <2>1. CASE plan.script = "counter"
    <3>1. PICK n \in 0 .. MaxLines : lines \in [1 .. n -> [message : LogLines, late : BOOLEAN]]
      BY <2>1 DEF Init
    <3>2. n \in Nat
      OBVIOUS
    <3>3. \A S : lines \in [1 .. n -> S] => lines \in Seq(S)
      BY <3>2
    <3> QED BY <2>1, <3>1, <3>3, Zenon DEF Init, Line
  <2>2. CASE plan.script # "counter"
    BY <2>2, EmptySeq DEF Init
  <2> QED BY <2>1, <2>2
<1>2. read = 0 /\ count = 0 /\ logBuffer = NewLogBuffer /\ counter = "off"
  BY DEF Init, CounterInit
<1>3. Len(lines) \in Nat
  BY <1>1, LenProperties
<1>4. CounterTypes
  BY <1>1, <1>2, <1>3 DEF CounterTypes
<1>5. Pushed(lines, 0) = <<>>
  BY DEF Pushed
<1>6. Buffered
  BY <1>2, <1>5, NewHolds DEF Buffered
<1>7. \A e : Hits(lines, 0, e) = 0
  BY FS_EmptySet DEF Hits
<1>8. CountIsNet
  BY <1>2, <1>7 DEF CountIsNet
<1> QED BY <1>4, <1>6, <1>8 DEF CounterInv

\* The types and the buffer, at every step.
LEMMA CounterStepInv ==
    ASSUME CounterInv, CounterAction PROVE CounterInv'
<1> USE DEF CounterInv
<1>0. Len(lines) \in Nat /\ read \in Nat /\ lines \in Seq(Line) /\ read \in 0 .. Len(lines)
  BY LenProperties, SMTT(30) DEF CounterTypes
<1>1. CASE NewJournaldLogCounter
  BY <1>1 DEF NewJournaldLogCounter, CounterAction, CounterTypes, Buffered, CountIsNet
<1>2. CASE Silence
  BY <1>2, SMTT(30) DEF Silence, Finish, CounterAction, CounterTypes, Buffered, CountIsNet
<1>3. CASE UNCHANGED counterVars
  BY <1>3 DEF counterVars, CounterAction, CounterTypes, Buffered, CountIsNet
<1>4. ASSUME NEW m \in LogLines, LogLine(m) PROVE CounterInv'
  <2> DEFINE line == [message |-> m, late |-> TRUE]
  <2>1. line \in Line
    BY DEF Line
  <2>2. lines' = Append(lines, line) /\ UNCHANGED <<fedo, counter, read, logBuffer, count, quiet>>
    BY <1>4 DEF LogLine
  <2> HIDE DEF line
  <2>3. /\ lines' \in Seq(Line) /\ Len(lines') = Len(lines) + 1
        /\ \A i \in 1 .. Len(lines) : lines'[i] = lines[i]
    BY <1>0, <2>1, <2>2, AppendProperties
  <2>4. CounterTypes'
    BY <1>0, <2>2, <2>3 DEF CounterTypes, CounterAction
  <2>5. /\ Pushed(lines', read) = Pushed(lines, read)
        /\ \A e : Hits(lines', read, e) = Hits(lines, read, e)
    BY <1>0, <2>1, <2>2, HitsKept
  <2>6. Buffered'
    BY <2>2, <2>5 DEF Buffered
  <2>7. counter # "exiting" /\ \A i \in 1 .. read : i \in 1 .. Len(lines)
    BY <1>0, <1>4 DEF LogLine
  <2>8. CountIsNet'
    BY <2>2, <2>3, <2>5, <2>7 DEF CountIsNet
  <2> QED BY <2>4, <2>6, <2>8
<1>5. CASE plan.script = "counter" /\ CountLine
  <2> DEFINE log == lines[read + 1]
             new == [message |-> log.message, time |-> read + 1]
             pushed == Push(logBuffer, new)
             matched == AfterMatch(pushed, CompilePattern(fedo.pattern))
             all == Pushed(lines, read + 1)
  <2>1. counter = "counting" /\ read < Len(lines) /\ UNCHANGED <<fedo, lines, quiet>>
    BY <1>5 DEF CountLine
  <2>2. read + 1 \in 0 .. Len(lines) /\ read + 1 \in 1 .. Len(lines)
    BY <1>0, <2>1
  <2>3. fedo \in CounterOptions /\ fedo.pattern \in Seq(Alternative) /\ fedo.revertPattern \in Seq(Alternative)
    BY <1>5, CounterAssumption DEF CounterTypes
  <2>4. CASE log.late
    <3>1. UNCHANGED <<read, logBuffer, count>> /\ counter' = "exiting"
      BY <1>5, <2>4 DEF CountLine, Finish
    <3>2. CounterTypes' /\ Buffered'
      BY <2>1, <3>1 DEF CounterTypes, Buffered, CounterAction
    <3>3. CountIsNet'
      BY <2>1, <2>4, <3>1 DEF CountIsNet
    <3> QED BY <3>2, <3>3, SMTT(30)
  <2>5. CASE ~log.late
    <3>1. /\ read' = read + 1
          /\ count' = count + Hit(pushed, fedo.pattern) - Hit(matched, fedo.revertPattern)
          /\ logBuffer' = IF fedo.revertPattern = <<>> THEN matched
                          ELSE AfterMatch(matched, CompilePattern(fedo.revertPattern))
          /\ UNCHANGED counter
      BY <1>5, <2>5, Zenon DEF CountLine
    <3>2. /\ Pushed(lines, read) \in Seq(PushedLog) /\ new \in PushedLog
          /\ all = Append(Pushed(lines, read), new) /\ all \in Seq(PushedLog)
      BY <1>0, <2>1, <2>2, PushedFacts, Zenon
    <3>3. RingHolds(pushed, all)
      BY <3>2, PushHolds, Zenon DEF Buffered
    <3> HIDE DEF pushed, all, new
    <3>4. RingHolds(matched, all)
      BY <3>2, <3>3, AfterMatchHolds, Zenon
    <3> HIDE DEF matched
    <3>5. RingHolds(AfterMatch(matched, CompilePattern(fedo.revertPattern)), all)
      BY <3>2, <3>4, AfterMatchHolds, Zenon
    <3>6. RingHolds(logBuffer', all)
      BY <3>1, <3>4, <3>5, SMTT(30)
    <3>8. Buffered'
      BY <2>1, <3>1, <3>6 DEF Buffered, all
    <3>9. Hit(pushed, fedo.pattern) = IF fedo.pattern # <<>> /\ CoveredLines(all, fedo.pattern) # <<>> THEN 1 ELSE 0
      BY <2>3, <3>2, <3>3, HitIsCovered, Zenon
    <3>10. Hit(matched, fedo.revertPattern)
             = IF fedo.revertPattern # <<>> /\ CoveredLines(all, fedo.revertPattern) # <<>> THEN 1 ELSE 0
      BY <2>3, <3>2, <3>4, HitIsCovered, Zenon
    <3>11. \A e : /\ Hits(lines, read, e) \in Int
                  /\ Hits(lines, read + 1, e)
                       = Hits(lines, read, e) + IF e # <<>> /\ CoveredLines(all, e) # <<>> THEN 1 ELSE 0
      BY <1>0, HitsStep, Zenon DEF all
    <3> DEFINE h == Hit(pushed, fedo.pattern)
               g == Hit(matched, fedo.revertPattern)
               H == Hits(lines, read, fedo.pattern)
               G == Hits(lines, read, fedo.revertPattern)
               H1 == Hits(lines, read + 1, fedo.pattern)
               G1 == Hits(lines, read + 1, fedo.revertPattern)
    <3>12. H \in Int /\ G \in Int /\ H1 = H + h /\ G1 = G + g
      BY <3>9, <3>10, <3>11, Zenon
    <3>g. h \in Int /\ g \in Int
      <4>1. \A c : (IF c THEN 1 ELSE 0) \in Int
        OBVIOUS
      <4> QED BY <3>9, <3>10, <4>1, Zenon
    <3>c. count \in Int /\ count = H - G /\ count' = count + h - g
      BY <3>1, Zenon DEF CountIsNet, CounterTypes
    <3> HIDE DEF h, g, H, G, H1, G1
    <3>13. count' = H1 - G1 /\ count' \in Int
      BY <3>12, <3>g, <3>c, SMTT(30)
    <3>14. CounterTypes'
      BY <2>1, <2>2, <3>1, <3>13 DEF CounterTypes, CounterAction
    <3>15. \A i \in 1 .. read + 1 : i \in 1 .. read \/ i = read + 1
      BY <1>0, SMTT(30)
    <3>16. CountIsNet'
      BY <2>1, <2>5, <3>1, <3>13, <3>15 DEF CountIsNet, H1, G1
    <3> QED BY <3>8, <3>14, <3>16
  <2> QED BY <2>4, <2>5, SMTT(30)
<1> QED BY <1>1, <1>2, <1>3, <1>4, <1>5 DEF CounterAction, CounterStep

-----------------------------------------------------------------------------
(* The script and the run together *)

IInv == RunInv /\ HealthInv /\ CounterInv

\* Every step of the composition is one of each part.
LEMMA StepsOfParts == ASSUME [Next]_vars PROVE RunAction /\ HealthAction /\ CounterAction
<1>1. CASE Exit
  BY <1>1 DEF Exit, RunAction, HealthAction, CounterAction, ExitWith
<1>2. CASE RunNext
  <2>1. plan' = plan
    BY <1>2, Zenon DEF RunNext, RunStep, StartRun, StartFails, Gathered, Reap, WaitResult, Judge, ReadPipe,
                ReadEnds, Write, DeadlinePasses, ExecKills, KillerWakes, Kill
  <2> QED BY <1>2, <2>1 DEF RunNext, RunAction, HealthAction, CounterAction
<1>3. CASE ForkNext
  BY <1>3 DEF ForkNext, RunAction, HealthAction, CounterAction, Fork, ChildExits
<1>4. CASE HealthNext
  BY <1>4 DEF HealthNext, RunAction, HealthAction, CounterAction, runVars
<1>5. CASE ServiceNext
  BY <1>5 DEF ServiceNext, RunAction, HealthAction, CounterAction, runVars
<1>6. CASE CounterNext
  BY <1>6 DEF CounterNext, RunAction, HealthAction, CounterAction, runVars
<1>7. CASE Again
  BY <1>7 DEF Again, RunAction, HealthAction, CounterAction, RunAgain
<1>8. CASE UNCHANGED vars
  BY <1>8 DEF vars, RunAction, HealthAction, CounterAction, runVars
<1> QED
  BY <1>1, <1>2, <1>3, <1>4, <1>5, <1>6, <1>7, <1>8, SMTT(30) DEF Next

\* Before the first run the service is up and its journal empty.
LEMMA InitInv == Init => IInv
<1> SUFFICES ASSUME Init PROVE IInv
  OBVIOUS
<1>1. RunInv
  BY RunInitInv DEF Init
<1>2. IsFiniteSet({})
  BY FS_EmptySet
<1>3. HealthInv
  BY <1>2, Zenon DEF Init, HealthInit, HealthInv, HealthTypes, Dated, Cooled, BlamedForItsOwnLog
<1> QED BY <1>1, <1>3, CounterInitInv DEF IInv

\* The invariant holds in every reachable state.
THEOREM Invariance == Spec => []IInv
<1>1. IInv /\ [Next]_vars => IInv'
  BY StepsOfParts, RunTypesStep, OutputStep, WaitingStep, ReturnedStep, HealthTypesStep, DatedStep,
     CooledStep, BlamedStep, CounterStepInv DEF IInv, RunInv, HealthInv
<1> QED BY InitInv, <1>1, PTL DEF Spec

\* Plugin.run: OK and NonOK are reported only of a script that exited by itself with
\* that code, and OK never of one that os/exec tried to kill.
THEOREM StatusIsEarnedAlways == Spec => []StatusIsEarned
<1>1. IInv => StatusIsEarned
  BY SMTT(30) DEF IInv, RunInv, Returned, StatusIsEarned
<1> QED BY Invariance, <1>1, PTL

\* Plugin.run: the output reported is the first bytes of all the script wrote to its
\* stdout, up to the two limits, for any limits, pipe size and script.
THEOREM OutputIsWholeAlways == Spec => []OutputIsWhole
<1>1. IInv => OutputIsWhole
  <2> SUFFICES ASSUME IInv, runner = "returned", result.message = "output"
               PROVE  result.length = Min({MaxOutputLength, BufferBytes, written["stdout"]})
    BY DEF OutputIsWhole
  <2> DEFINE w == written["stdout"]
  <2>1. result.length = Min({MaxOutputLength, taken["stdout"]}) /\ pipe["stdout"] = 0
    BY DEF IInv, RunInv, Returned, Output, Pipes
  <2>2. w \in Int /\ w - 0 = w
    BY DEF IInv, RunInv, RunTypes, Pipes
  <2>3. taken["stdout"] = Min({BufferBytes, w})
    BY <2>1, <2>2 DEF IInv, RunInv, Output, Kept, Pipes
  <2> HIDE DEF w
  <2>4. Min({MaxOutputLength, BufferBytes, w}) = Min({MaxOutputLength, Min({BufferBytes, w})})
    BY <2>2, RunAssumption, MinOfThree
  <2> QED BY <2>1, <2>3, <2>4, Zenon DEF w
<1> QED BY Invariance, <1>1, PTL

\* CheckHealth: whatever the service does meanwhile, it is only killed after it was up
\* for the cool-down, or if it was started after the checker read its uptime.
THEOREM CoolDownRespectedAlways == Spec => CoolDownRespected
<1>1. IInv /\ [Next]_vars =>
        [service.state # "inactive" /\ service'.state = "inactive" /\ checker = "repairing"
           /\ checker' = "exiting"
         => service.exited > CoolDownTime \/ restarted]_vars
  BY DEF IInv, HealthInv, Cooled
<1> QED BY Invariance, <1>1, PTL DEF Spec, CoolDownRespected

\* logPatternHealthCheck: a service is blamed only for what it logged since systemd
\* started it, for any look-back time, cool-down and thresholds.
THEOREM BlamedForItsOwnLogAlways == Spec => []BlamedForItsOwnLog
<1>1. IInv => BlamedForItsOwnLog
  BY DEF IInv, HealthInv
<1> QED BY Invariance, <1>1, PTL

\* Count: for any patterns, buffer size and journal, the count is that of the lines that
\* complete a match less those that complete one of the revert pattern, up to the first
\* line stamped after the start.
THEOREM CountIsNetAlways == Spec => []CountIsNet
<1>1. IInv => CountIsNet
  BY DEF IInv, CounterInv
<1> QED BY Invariance, <1>1, PTL
=============================================================================

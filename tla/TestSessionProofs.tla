------------------------- MODULE TestSessionProofs --------------------------
(***************************************************************************)
(* Proofs about TestSession, for every number of autobaud cases, every     *)
(* size of chunks, any number of garbled bytes and both kinds of timing:   *)
(* the type invariant, and that run.sh never reports success for a test    *)
(* that failed (VerdictHonest).  For the timing of a session whose         *)
(* timeouts suffice: the phone and the host stay in step, nothing is       *)
(* garbled, and boot.py fails only at a reset that did not come.           *)
(***************************************************************************)
EXTENDS TestSession, SequenceTheorems, FiniteSetTheorems, WellFoundedInduction, NaturalsInduction, TLAPS

-----------------------------------------------------------------------------
\* The inductive invariant.

Speeds == {Console, Test}
Steps ==
    Commands \cup {"flush", "await", "ready", "configure", "detect", "restore", "check", "finish",
                   "any_check", "EXPECT_RESET", "release", "reset", "ERROR", "fail"}
Texts == Symbols \ {"nul", "newline"}

\* What a variable holds, as sets of values
Types ==
    /\ program \in Seq(Steps)
    /\ ended \in {"running", "continued", "finish", "reset", "crash"}
    /\ phoneSpeed \in Speeds
    /\ hostSpeed \in Speeds
    /\ fifo \in Seq({"trigger", "frame", "R", "junk"})
    /\ detected \in BOOLEAN
    /\ failures \in Nat
    /\ failed \in BOOLEAN
    /\ output \in Seq(Symbols)
    /\ specials \in 0 .. Specials
    /\ host \in {"reading", "lines", "executing", "observing", "done", "failed"}
    /\ pending \in Seq(Texts)
    /\ newline \in BOOLEAN
    /\ lines \in Seq(Symbols \ {"nul"})
    /\ chunk \in Seq(Symbols \ {"nul"})
    /\ terminator \in BOOLEAN
    /\ block \in [open : BOOLEAN, commands : Seq(Commands \cup {"malformed"}), configuration : Speeds]
    /\ queue \in Seq(Commands \cup {"malformed"})
    /\ expected_reset \in ResetCommands \cup {"none"}
    /\ stdout \in [pass : BOOLEAN, open : Seq(Texts)]

\* p is what is left of the program t.
IsRest(p, t) == Len(p) <= Len(t) /\ \A i \in 1 .. Len(p) : p[i] = t[Len(t) - Len(p) + i]

\* The steps of an autobaud test
AutobaudSteps ==
    (Commands \ ResetCommands)
        \cup {"flush", "await", "ready", "configure", "detect", "restore", "check", "finish"}

\* The phone has n steps of the reset test to do.
AtReset(n) == IsRest(program, ResetTest) /\ Len(program) = n

Shape ==
    /\ \/ IsRest(program, ResetTest)
       \/ program \in Seq(AutobaudSteps) /\ (program # <<>> => program[Len(program)] = "finish")
    /\ program = <<>> => ended # "running"

Counted == failed <=> failures # 0

\* What was printed and not looked at as a line holds only symbols of S.
Unparsed(S) == output \in Seq(S) /\ pending \in Seq(S) /\ lines \in Seq(S)

ResetSymbols == {"ok", "not_ok", "newline", "ERROR"} \cup ResetCommands

\* Nothing the reset test prints changes a speed.
SameSpeed ==
    (\E n \in 2 .. 9 : AtReset(n)) =>
        /\ phoneSpeed = Console
        /\ hostSpeed = Console
        /\ Unparsed(ResetSymbols)
        /\ queue \in Seq({"malformed"})
        /\ ~block.open

\* The host hears of a reset only from a test that has announced it.
Announced ==
    /\ host = "observing" => expected_reset # "none"
    /\ \/ Unparsed(Symbols \ ResetCommands) /\ expected_reset = "none"
       \/ \E n \in 0 .. 5 : AtReset(n)

Late == host \in {"observing", "done", "failed"}

\* The host observes before the phone is released.
Released ==
    \/ Late
    \/ /\ fifo \in Seq({"trigger", "frame", "junk"})
       /\ \A n \in 2 .. 4 : ~AtReset(n)
       /\ ended # "continued"

\* The phone goes on only in the last steps of the reset test, and then a check fails.
Continued ==
    /\ AtReset(2) \/ AtReset(3) => ended = "continued"
    /\ ended = "continued" => \/ AtReset(3) \/ AtReset(2)
                              \/ (AtReset(1) \/ AtReset(0)) /\ failures > 0

ErrorAhead == \E i \in 1 .. Len(output) : output[i] = "ERROR"

\* While the host observes, the error of a phone that went on is still to come.
ErrorComes == host = "observing" /\ ended = "continued" => AtReset(3) \/ ErrorAhead

\* The number of failures in the announcement is still right, or the host will fail.
CountStands ==
    \/ Unparsed(Symbols \ {"EXPECT_RESET_clean"}) /\ expected_reset # "EXPECT_RESET_clean"
    \/ ~failed \/ host \in {"done", "failed"} \/ (host = "observing" /\ ErrorAhead)

Honest == program = <<>> /\ ~failed /\ ended \notin {"running", "continued"}

\* A result PASS exists only after an honest end.
PassIsHonest ==
    \/ Honest
    \/ /\ output \in Seq(Symbols \ {"PASS"})
       /\ chunk \in Seq(Symbols \ {"PASS"})
       /\ stdout.open \in Seq(Symbols \ {"PASS"})
       /\ ~stdout.pass

Inv ==
    /\ Types
    /\ Shape
    /\ Counted
    /\ SameSpeed
    /\ Announced
    /\ Released
    /\ Continued
    /\ ErrorComes
    /\ CountStands
    /\ PassIsHonest
-----------------------------------------------------------------------------
\* Sequences.

\* A non-empty set of naturals has a least element, which is its Min.
LEMMA MinInSet ==
    ASSUME NEW I, I \subseteq Nat, I # {}
    PROVE  Min(I) \in I /\ \A j \in I : Min(I) <= j
<1>1. PICK m \in I : \A j \in I : ~(<<j, m>> \in OpToRel(<, Nat))
  BY WFMin, NatLessThanWellFounded, Zenon
<1>2. \A j \in I : m <= j
  <2>1. SUFFICES ASSUME NEW j \in I PROVE ~(j < m)
    OBVIOUS
  <2>2. ~(<<j, m>> \in OpToRel(<, Nat))
    BY <1>1
  <2> QED BY <2>2, Zenon DEF OpToRel
<1>3. \E x \in I : \A y \in I : x <= y
  BY <1>2
<1> QED BY <1>3 DEF Min

\* A non-empty set of positions has a greatest element, which is its Max.
LEMMA MaxInSet ==
    ASSUME NEW n \in Nat, NEW I, I \subseteq 1 .. n, I # {}
    PROVE  Max(I) \in I /\ \A j \in I : Max(I) >= j
<1> DEFINE J == {n - i : i \in I}
<1>1. J \subseteq Nat /\ J # {}
  <2>1. PICK i \in I : TRUE
    OBVIOUS
  <2>2. n - i \in J
    BY <2>1
  <2>3. J \subseteq Nat
    OBVIOUS
  <2> QED BY <2>2, <2>3
<1>2. Min(J) \in J /\ \A j \in J : Min(J) <= j
  BY <1>1, MinInSet
<1>3. PICK m \in I : Min(J) = n - m
  BY <1>2
<1>4. \A j \in I : m >= j
  <2>1. SUFFICES ASSUME NEW j \in I PROVE m >= j
    OBVIOUS
  <2>2. n - j \in J
    OBVIOUS
  <2>3. n - m <= n - j
    BY <2>2, <1>2, <1>3
  <2> QED BY <2>3
<1>5. \E x \in I : \A y \in I : x >= y
  BY <1>4
<1> QED BY <1>5 DEF Max

\* The first and the last newline, the first completion byte and the last text are positions.
LEMMA Positions ==
    ASSUME NEW s, NEW n \in Nat, Len(s) = n
    PROVE  /\ NulAt(s) \in 0 .. n
           /\ FirstNewline(s) \in 0 .. n
           /\ LastNewline(s) \in 0 .. n
           /\ \A i \in 1 .. NulAt(s) - 1 : s[i] # "nul"
           /\ NulAt(s) = 0 => \A i \in 1 .. n : s[i] # "nul"
           /\ \A i \in LastNewline(s) + 1 .. n : s[i] # "newline"
<1> DEFINE Nuls == {i \in 1 .. Len(s) : s[i] = "nul"}
           News == {i \in 1 .. Len(s) : s[i] = "newline"}
<1>1. NulAt(s) = IF Nuls # {} THEN Min(Nuls) ELSE 0
  BY DEF NulAt, SelectInSeq
<1>2. FirstNewline(s) = IF News # {} THEN Min(News) ELSE 0
  BY DEF FirstNewline, SelectInSeq
<1>3. LastNewline(s) = IF News # {} THEN Max(News) ELSE 0
  BY DEF LastNewline, SelectLastInSeq
<1>4. Nuls # {} => Min(Nuls) \in Nuls /\ \A j \in Nuls : Min(Nuls) <= j
  BY MinInSet
<1>5. News # {} => Min(News) \in News
  BY MinInSet
<1>6. News # {} => Max(News) \in News /\ \A j \in News : Max(News) >= j
  BY MaxInSet
<1>7. NulAt(s) \in 0 .. n
  BY <1>1, <1>4
<1>8. FirstNewline(s) \in 0 .. n
  BY <1>2, <1>5
<1>9. LastNewline(s) \in 0 .. n
  BY <1>3, <1>6
<1>10. \A i \in 1 .. NulAt(s) - 1 : s[i] # "nul"
  BY <1>1, <1>4
<1>11. NulAt(s) = 0 => \A i \in 1 .. n : s[i] # "nul"
  BY <1>1, <1>4
<1>12. \A i \in LastNewline(s) + 1 .. n : s[i] # "newline"
  BY <1>3, <1>6
<1> QED BY <1>7, <1>8, <1>9, <1>10, <1>11, <1>12

\* A sequence over a set is one over every larger set.
LEMMA SeqMono ==
    ASSUME NEW S, NEW T, S \subseteq T, NEW s \in Seq(S)
    PROVE  s \in Seq(T)
OBVIOUS

\* Two sequences put together hold the first element of the second.
LEMMA CatHolds ==
    ASSUME NEW S, NEW p \in Seq(S), NEW q \in Seq(S), q # <<>>
    PROVE  \E i \in 1 .. Len(p \o q) : (p \o q)[i] = q[1]
<1>1. Len(p) \in Nat /\ Len(q) \in Nat /\ Len(q) > 0
  OBVIOUS
<1>2. (p \o q)[Len(p) + 1] = q[1] /\ Len(p) + 1 \in 1 .. Len(p \o q)
  BY <1>1
<1> QED BY <1>2

\* A part of a sequence over S is a sequence over S.
LEMMA SeqPart ==
    ASSUME NEW S, NEW s \in Seq(S), NEW a \in Nat, NEW b \in Int, 1 <= a, b <= Len(s)
    PROVE  /\ SubSeq(s, a, b) \in Seq(S)
           /\ Len(SubSeq(s, a, b)) = IF a <= b THEN b - a + 1 ELSE 0
           /\ \A i \in 1 .. Len(SubSeq(s, a, b)) : SubSeq(s, a, b)[i] = s[a + i - 1]
OBVIOUS

\* The parts of what the host has read
LEMMA Parts ==
    ASSUME NEW S, NEW s \in Seq(S)
    PROVE  /\ Before(s) \in Seq(S)
           /\ CompleteLines(s) \in Seq(S)
           /\ OpenLine(s) \in Seq(S)
           /\ FirstLine(s) \in Seq(S)
           /\ OtherLines(s) \in Seq(S)
<1> Len(s) \in Nat
  OBVIOUS
<1>1. /\ NulAt(s) \in 0 .. Len(s)
      /\ FirstNewline(s) \in 0 .. Len(s)
      /\ LastNewline(s) \in 0 .. Len(s)
  BY Positions
<1>2. Before(s) \in Seq(S)
  BY <1>1, SeqPart DEF Before
<1>3. CompleteLines(s) \in Seq(S)
  BY <1>1, SeqPart DEF CompleteLines
<1>4. OpenLine(s) \in Seq(S)
  BY <1>1, SeqPart DEF OpenLine
<1>5. FirstLine(s) \in Seq(S)
  BY <1>1, SeqPart DEF FirstLine
<1>6. OtherLines(s) \in Seq(S)
  BY <1>1, SeqPart DEF OtherLines
<1> QED BY <1>2, <1>3, <1>4, <1>5, <1>6

\* What comes before the completion byte has none, and what follows the last newline no newline.
LEMMA CleanParts ==
    ASSUME NEW s \in Seq(Symbols)
    PROVE  /\ Before(s) \in Seq(Symbols \ {"nul"})
           /\ OpenLine(s) \in Seq(Symbols \ {"newline"})
<1> Len(s) \in Nat
  OBVIOUS
<1>1. /\ NulAt(s) \in 0 .. Len(s)
      /\ LastNewline(s) \in 0 .. Len(s)
      /\ \A i \in 1 .. NulAt(s) - 1 : s[i] # "nul"
      /\ NulAt(s) = 0 => \A i \in 1 .. Len(s) : s[i] # "nul"
      /\ \A i \in LastNewline(s) + 1 .. Len(s) : s[i] # "newline"
  BY Positions
<1>2. Before(s) \in Seq(Symbols \ {"nul"})
  <2>1. CASE NulAt(s) = 0
    BY <2>1, <1>1 DEF Before
  <2>2. CASE NulAt(s) # 0
    <3> DEFINE t == SubSeq(s, 1, NulAt(s) - 1)
    <3>1. t \in Seq(Symbols) /\ Len(t) = NulAt(s) - 1 /\ \A i \in 1 .. Len(t) : t[i] = s[i]
      BY <2>2, <1>1, SeqPart
    <3>2. \A i \in 1 .. Len(t) : t[i] \in Symbols \ {"nul"}
      BY <3>1, <1>1
    <3> HIDE DEF t
    <3>3. t \in Seq(Symbols \ {"nul"})
      BY <3>1, <3>2
    <3> QED BY <3>3, <2>2 DEF Before, t
  <2> QED BY <2>1, <2>2
<1>3. OpenLine(s) \in Seq(Symbols \ {"newline"})
  <2> DEFINE t == OpenLine(s)
  <2>1. /\ t \in Seq(Symbols)
        /\ Len(t) = Len(s) - LastNewline(s)
        /\ \A i \in 1 .. Len(t) : t[i] = s[LastNewline(s) + i]
    BY <1>1, SeqPart DEF OpenLine
  <2>2. \A i \in 1 .. Len(t) : t[i] \in Symbols \ {"newline"}
    BY <2>1, <1>1
  <2> HIDE DEF t
  <2>3. t \in Seq(Symbols \ {"newline"})
    BY <2>1, <2>2
  <2> QED BY <2>3 DEF t
<1> QED BY <1>2, <1>3
-----------------------------------------------------------------------------
\* The programs.

\* Position by position, the reset test.
LEMMA ResetTestIs ==
    /\ ResetTest \in Seq(Steps)
    /\ Len(ResetTest) = 9
    /\ ResetTest[1] = "any_check" /\ ResetTest[2] = "any_check" /\ ResetTest[3] = "flush"
    /\ ResetTest[4] = "EXPECT_RESET" /\ ResetTest[5] = "release" /\ ResetTest[6] = "reset"
    /\ ResetTest[7] = "ERROR" /\ ResetTest[8] = "fail" /\ ResetTest[9] = "finish"
BY DEF ResetTest, Steps

\* The step of the reset test that the phone is at.
LEMMA ResetHead ==
    ASSUME Types, NEW n \in 1 .. 9, AtReset(n)
    PROVE  program # <<>> /\ Head(program) = ResetTest[10 - n]
<1>1. program \in Seq(Steps) /\ Len(program) = n /\ Len(program) > 0
  BY DEF Types, AtReset
<1>2. program[1] = ResetTest[9 - n + 1]
  BY <1>1, ResetTestIs DEF AtReset, IsRest
<1> QED BY <1>1, <1>2

\* A phone in the reset test has some of its steps to do.
LEMMA SomeReset ==
    ASSUME Types, IsRest(program, ResetTest)
    PROVE  \E n \in 0 .. 9 : AtReset(n)
<1>1. program \in Seq(Steps) /\ Len(program) \in Nat
  BY DEF Types
<1>2. Len(program) <= 9
  BY ResetTestIs DEF IsRest
<1>3. AtReset(Len(program))
  BY DEF AtReset
<1> QED BY <1>1, <1>2, <1>3

\* An autobaud test: its cases, and the end.
LEMMA AutobaudTestIs ==
    AutobaudTest \in Seq(AutobaudSteps) /\ AutobaudTest # <<>> /\ AutobaudTest[Len(AutobaudTest)] = "finish"
<1>1. SendAutobaudFrame \in Seq(AutobaudSteps) /\ Len(SendAutobaudFrame) = 10
  BY DEF SendAutobaudFrame, AutobaudSteps, Commands, Sends, ResetCommands
<1> DEFINE rest == <<"ready", "configure", "detect", "restore", "await", "check">>
<1>2. rest \in Seq(AutobaudSteps) /\ Len(rest) = 6
  BY DEF AutobaudSteps
<1> HIDE DEF rest
<1>3. AutobaudCase \in Seq(AutobaudSteps) /\ Len(AutobaudCase) = 16
  <2>1. AutobaudCase = SendAutobaudFrame \o rest
    BY DEF AutobaudCase, rest
  <2>2. SendAutobaudFrame \o rest \in Seq(AutobaudSteps)
        /\ Len(SendAutobaudFrame \o rest) = Len(SendAutobaudFrame) + Len(rest)
    BY <1>1, <1>2, ConcatProperties
  <2> QED BY <1>1, <1>2, <2>1, <2>2
<1> DEFINE n == Rounds * 16
           cases == [i \in 1 .. n |-> AutobaudCase[1 + ((i - 1) % 16)]]
<1>4. n \in Nat
  BY RoundsAssumption
<1> HIDE DEF n
<1>5. \A i \in 1 .. n : AutobaudCase[1 + ((i - 1) % 16)] \in AutobaudSteps
  <2>1. SUFFICES ASSUME NEW i \in 1 .. n PROVE AutobaudCase[1 + ((i - 1) % 16)] \in AutobaudSteps
    OBVIOUS
  <2> DEFINE k == 1 + ((i - 1) % 16)
  <2>2. k \in 1 .. 16
    <3> DEFINE j == i - 1
    <3>1. j \in Int
      BY <1>4
    <3> HIDE DEF j
    <3>2. j % 16 \in 0 .. 15
      BY <3>1
    <3>3. (i - 1) % 16 \in 0 .. 15
      BY <3>2 DEF j
    <3> HIDE <3>2
    <3> QED BY <3>3
  <2> HIDE DEF k
  <2>3. AutobaudCase[k] \in AutobaudSteps
    BY <1>3, <2>2, ElementOfSeq
  <2> QED BY <2>3 DEF k
<1>6. cases \in Seq(AutobaudSteps) /\ Len(cases) = n
  BY <1>4, <1>5
<1>7. AutobaudTest = cases \o <<"finish">>
  BY <1>3 DEF AutobaudTest, n
<1> HIDE DEF cases
<1>8. "finish" \in AutobaudSteps
  BY DEF AutobaudSteps
<1> QED BY <1>4, <1>6, <1>7, <1>8

\* The phone has left a step behind: the steps that are left of the reset test are one fewer, and
\* only a phone in the reset test has more than the last of its steps to do.
LEMMA Advance ==
    ASSUME Types, Shape, program # <<>>, program' = Tail(program)
    PROVE  /\ program' \in Seq(Steps)
           /\ Len(program') = Len(program) - 1
           /\ \A n \in 1 .. 9 : AtReset(n) => AtReset(n - 1)'
           /\ \A n \in 2 .. 9 : AtReset(n)' => n <= 8 /\ AtReset(n + 1)
           /\ \/ IsRest(program, ResetTest)'
              \/ program' \in Seq(AutobaudSteps) /\ (program' # <<>> => program'[Len(program')] = "finish")
           /\ Head(program) # "finish" => program' # <<>>
<1> DEFINE l == Len(program)
<1>1. program \in Seq(Steps) /\ l \in Nat /\ l > 0
  BY DEF Types
<1> HIDE DEF l
<1>2. /\ program' \in Seq(Steps)
      /\ Len(program') = l - 1
      /\ \A i \in 1 .. l - 1 : program'[i] = program[i + 1]
  BY <1>1 DEF l
<1>3. IsRest(program, ResetTest) => IsRest(program, ResetTest)'
  <2>1. SUFFICES ASSUME IsRest(program, ResetTest) PROVE IsRest(program', ResetTest)
    BY DEF IsRest
  <2>2. l <= 9 /\ \A i \in 1 .. l : program[i] = ResetTest[9 - l + i]
    BY <2>1, ResetTestIs DEF IsRest, l
  <2>3. ASSUME NEW i \in 1 .. l - 1 PROVE program'[i] = ResetTest[9 - (l - 1) + i]
    <3>1. i + 1 \in 1 .. l /\ 9 - l + (i + 1) = 9 - (l - 1) + i
      BY <1>1
    <3> QED BY <3>1, <2>2, <1>2
  <2>4. Len(program') <= Len(ResetTest)
    BY <2>2, <1>1, <1>2, ResetTestIs
  <2>5. \A i \in 1 .. Len(program') : program'[i] = ResetTest[Len(ResetTest) - Len(program') + i]
    BY <2>3, <1>2, ResetTestIs
  <2> QED BY <2>4, <2>5 DEF IsRest
<1>4. \A n \in 1 .. 9 : AtReset(n) => AtReset(n - 1)'
  BY <1>2, <1>3 DEF AtReset, l
<1>5. ASSUME NEW n \in 2 .. 9, AtReset(n)' PROVE IsRest(program, ResetTest)
  <2>1. Len(program') = n /\ program'[n - 1] = "fail"
    <3>1. n - 1 \in 1 .. n /\ 9 - n + (n - 1) = 8
      OBVIOUS
    <3>2. Len(program') = n /\ \A i \in 1 .. n : program'[i] = ResetTest[9 - n + i]
      BY <1>5, ResetTestIs DEF AtReset, IsRest
    <3> QED BY <3>1, <3>2, ResetTestIs
  <2>2. l = n + 1 /\ program[n] = "fail"
    BY <2>1, <1>1, <1>2
  <2>3. ~(program \in Seq(AutobaudSteps))
    <3>1. SUFFICES ASSUME program \in Seq(AutobaudSteps) PROVE "fail" \in AutobaudSteps
      BY DEF AutobaudSteps, Commands, Sends
    <3> QED BY <3>1, <2>2 DEF l
  <2> QED BY <2>3 DEF Shape
<1>6. \A n \in 2 .. 9 : AtReset(n)' => n <= 8 /\ AtReset(n + 1)
  <2>1. SUFFICES ASSUME NEW n \in 2 .. 9, AtReset(n)' PROVE n <= 8 /\ AtReset(n + 1)
    OBVIOUS
  <2>2. IsRest(program, ResetTest)
    BY <2>1, <1>5
  <2>3. l = n + 1 /\ l <= 9
    BY <2>1, <2>2, <1>1, <1>2, ResetTestIs DEF AtReset, IsRest, l
  <2> QED BY <2>2, <2>3 DEF AtReset, l
<1>7. ASSUME program \in Seq(AutobaudSteps), program[l] = "finish"
      PROVE  program' \in Seq(AutobaudSteps) /\ (program' # <<>> => program'[Len(program')] = "finish")
  BY <1>7, <1>1, <1>2 DEF l
<1>8. \/ IsRest(program, ResetTest)'
      \/ program' \in Seq(AutobaudSteps) /\ (program' # <<>> => program'[Len(program')] = "finish")
  BY <1>3, <1>7 DEF Shape, l
<1>9. Head(program) # "finish" => program' # <<>>
  <2>1. SUFFICES ASSUME program' = <<>> PROVE Head(program) = "finish"
    OBVIOUS
  <2>2. l = 1 /\ Head(program) = program[l]
    BY <2>1, <1>1, <1>2
  <2>3. CASE IsRest(program, ResetTest)
    BY <2>2, <2>3, ResetTestIs DEF IsRest, l
  <2>4. CASE program[l] = "finish"
    BY <2>2, <2>4
  <2> QED BY <2>3, <2>4 DEF Shape, l
<1> QED BY <1>2, <1>4, <1>6, <1>8, <1>9 DEF l
-----------------------------------------------------------------------------
\* The line.

\* What comes of bytes sent at another speed
LEMMA GarbledIs ==
    ASSUME NEW r \in Garbled
    PROVE  /\ r \in Seq({"junk", "newline", "nul"})
           /\ r # <<>>
           /\ NumSpecials(r) \in Nat
<1>1. PICK n \in 1 .. 2 : r \in [1 .. n -> {"junk", "newline", "nul"}]
  BY DEF Garbled
<1>2. r \in Seq({"junk", "newline", "nul"}) /\ Len(r) = n
  BY <1>1
<1>3. IsFiniteSet(1 .. n)
  BY FS_Interval
<1>4. {i \in 1 .. Len(r) : r[i] # "junk"} \subseteq 1 .. n
  BY <1>2
<1>5. IsFiniteSet({i \in 1 .. Len(r) : r[i] # "junk"})
  BY <1>3, <1>4, FS_Subset
<1>6. NumSpecials(r) \in Nat
  BY <1>5, FS_CardinalityType DEF NumSpecials
<1> QED BY <1>2, <1>6

\* A step of the phone only adds to the output: what it sends, or what comes of it.
LEMMA EmitAdds ==
    ASSUME Types, NEW s \in Seq(Symbols), Emit(s)
    PROVE  /\ specials' \in 0 .. Specials
           /\ output' \in Seq(Symbols)
           /\ ErrorAhead => ErrorAhead'
           /\ \A S : {"junk", "newline", "nul"} \subseteq S /\ output \in Seq(S) /\ s \in Seq(S)
                        => output' \in Seq(S)
           /\ phoneSpeed = hostSpeed => output' = output \o s
<1>0. output \in Seq(Symbols) /\ specials \in 0 .. Specials /\ Specials \in Nat
  BY SpecialsAssumption DEF Types
<1>1. CASE phoneSpeed = hostSpeed
  <2>1. output' = output \o s /\ specials' = specials
    BY <1>1 DEF Emit
  <2> QED BY <2>1, <1>0, <1>1 DEF ErrorAhead
<1>2. CASE phoneSpeed # hostSpeed
  <2>1. PICK r \in Garbled : /\ specials' = specials + NumSpecials(r)
                             /\ specials' <= Specials
                             /\ output' = Join(output, r)
    BY <1>2 DEF Emit
  <2>2. /\ r \in Seq({"junk", "newline", "nul"})
        /\ r # <<>>
        /\ NumSpecials(r) \in Nat
    BY GarbledIs
  <2>3. specials' \in 0 .. Specials
    BY <1>0, <2>1, <2>2
  <2>4. PICK q \in Seq({"junk", "newline", "nul"}) : output' = output \o q
    <3>1. output' = output \o Tail(r) \/ output' = output \o r
      BY <2>1 DEF Join
    <3>2. Tail(r) \in Seq({"junk", "newline", "nul"})
      BY <2>2
    <3> QED BY <3>1, <3>2, <2>2
  <2>5. ASSUME NEW S, {"junk", "newline", "nul"} \subseteq S, output \in Seq(S)
        PROVE  output' \in Seq(S)
    <3>1. q \in Seq(S)
      BY <2>5, SeqMono
    <3> QED BY <3>1, <2>4, <2>5
  <2>6. output' \in Seq(Symbols)
    <3>1. {"junk", "newline", "nul"} \subseteq Symbols
      BY DEF Symbols
    <3> QED BY <3>1, <2>5, <1>0
  <2>7. ErrorAhead => ErrorAhead'
    <3>1. Len(output') >= Len(output) /\ \A i \in 1 .. Len(output) : output'[i] = output[i]
      BY <1>0, <2>4
    <3> QED BY <3>1, <1>0, <2>6 DEF ErrorAhead
  <2> QED BY <2>3, <2>5, <2>6, <2>7, <1>2
<1> QED BY <1>1, <1>2
-----------------------------------------------------------------------------
\* The steps of the phone.

EndedValues == {"running", "continued", "finish", "reset", "crash"}
FifoBytes == {"trigger", "frame", "R", "junk"}
NoRelease == {"trigger", "frame", "junk"}

\* A step of the phone leaves the host alone.
LEMMA PhoneTypes ==
    ASSUME Types, UNCHANGED hostVars,
           program' \in Seq(Steps), ended' \in EndedValues, phoneSpeed' \in Speeds,
           fifo' \in Seq(FifoBytes), detected' \in BOOLEAN, failures' \in Nat, failed' \in BOOLEAN,
           output' \in Seq(Symbols), specials' \in 0 .. Specials
    PROVE  Types'
BY DEF Types, hostVars, parser, EndedValues, FifoBytes

\* At a step that is not one of the last six of the reset test, the phone runs an autobaud test or
\* has more than six steps of the reset test to do.
Ordinary ==
    /\ program # <<>>
    /\ Head(program) \notin {"EXPECT_RESET", "release", "reset", "ERROR", "fail", "finish"}

\* Of the reset test, an ordinary step is one of the first three.
LEMMA OrdinaryAt ==
    ASSUME Types, Ordinary
    PROVE  /\ \A n \in 0 .. 6 : ~AtReset(n)
           /\ Head(program) \notin {"any_check", "flush"} => \A n \in 0 .. 9 : ~AtReset(n)
<1>1. ~AtReset(0)
  BY DEF AtReset, Ordinary, Types
<1>2. \A n \in 1 .. 9 : AtReset(n) => Head(program) = ResetTest[10 - n]
  BY ResetHead
<1>3. \A n \in 1 .. 6 : ~AtReset(n)
  <2>1. SUFFICES ASSUME NEW n \in 1 .. 6, AtReset(n) PROVE FALSE
    OBVIOUS
  <2>2. Head(program) = ResetTest[10 - n] /\ 10 - n \in {4, 5, 6, 7, 8, 9}
    BY <2>1, <1>2
  <2> QED BY <2>2, ResetTestIs DEF Ordinary
<1>4. ASSUME NEW n \in 7 .. 9, AtReset(n) PROVE Head(program) \in {"any_check", "flush"}
  <2>1. Head(program) = ResetTest[10 - n] /\ 10 - n \in {1, 2, 3}
    BY <1>4, <1>2
  <2> QED BY <2>1, ResetTestIs
<1> QED BY <1>1, <1>3, <1>4

\* While the phone is at an ordinary step, nothing has been announced and nobody waits for a reset.
LEMMA OrdinaryMeans ==
    ASSUME Inv, Ordinary
    PROVE  /\ Unparsed(Symbols \ ResetCommands) /\ expected_reset = "none"
           /\ host # "observing"
           /\ ended # "continued"
           /\ ~Honest
<1>1. \A n \in 0 .. 6 : ~AtReset(n)
  BY OrdinaryAt DEF Inv
<1>2. Unparsed(Symbols \ ResetCommands) /\ expected_reset = "none"
  BY <1>1 DEF Inv, Announced
<1>3. host # "observing"
  BY <1>2 DEF Inv, Announced
<1>4. ended # "continued"
  BY <1>1 DEF Inv, Continued
<1>5. ~Honest
  BY DEF Honest, Ordinary
<1> QED BY <1>2, <1>3, <1>4, <1>5

\* What has to be shown of an ordinary step: what it prints is no command of a reset, no result and
\* no error, and in the reset test it changes no speed.
LEMMA OrdinaryStep ==
    ASSUME Inv, Ordinary, Types', UNCHANGED hostVars,
           program' = Tail(program), ended' = ended, Counted',
           fifo \in Seq(NoRelease) => fifo' \in Seq(NoRelease),
           \A S \in {Symbols \ ResetCommands, Symbols \ {"PASS"}} : output \in Seq(S) => output' \in Seq(S),
           (\E n \in 7 .. 9 : AtReset(n)) =>
               phoneSpeed' = phoneSpeed /\ (output \in Seq(ResetSymbols) => output' \in Seq(ResetSymbols))
    PROVE  Inv'
<1> USE DEF Inv
<1>0. /\ UNCHANGED <<host, hostSpeed, pending, lines, chunk, block, queue, expected_reset, stdout>>
      /\ Late' = Late
  BY DEF hostVars, parser, Late
<1>1. /\ Unparsed(Symbols \ ResetCommands) /\ expected_reset = "none"
      /\ host # "observing"
      /\ ended # "continued"
      /\ ~Honest
  BY OrdinaryMeans
<1>2. \A n \in 0 .. 6 : ~AtReset(n)
  BY OrdinaryAt
<1>3. /\ \A n \in 2 .. 9 : AtReset(n)' => n <= 8 /\ AtReset(n + 1)
      /\ \/ IsRest(program, ResetTest)'
         \/ program' \in Seq(AutobaudSteps) /\ (program' # <<>> => program'[Len(program')] = "finish")
      /\ program' # <<>>
  BY Advance DEF Ordinary
<1>4. \A n \in 2 .. 5 : ~AtReset(n)'
  BY <1>2, <1>3
<1>5. Shape'
  BY <1>3 DEF Shape
<1>6. SameSpeed'
  <2>1. SUFFICES ASSUME NEW n \in 2 .. 9, AtReset(n)'
                 PROVE  /\ phoneSpeed' = Console
                        /\ hostSpeed' = Console
                        /\ Unparsed(ResetSymbols)'
                        /\ queue' \in Seq({"malformed"})
                        /\ ~block'.open
    BY DEF SameSpeed
  <2>2. n + 1 \in 7 .. 9 /\ AtReset(n + 1)
    BY <2>1, <1>2, <1>3
  <2>3. /\ phoneSpeed = Console
        /\ hostSpeed = Console
        /\ Unparsed(ResetSymbols)
        /\ queue \in Seq({"malformed"})
        /\ ~block.open
    BY <2>2 DEF SameSpeed
  <2>4. phoneSpeed' = phoneSpeed /\ (output \in Seq(ResetSymbols) => output' \in Seq(ResetSymbols))
    BY <2>2
  <2> QED BY <2>3, <2>4, <1>0 DEF Unparsed
<1>7. Unparsed(Symbols \ ResetCommands)'
  BY <1>0, <1>1 DEF Unparsed
<1>8. Announced'
  BY <1>0, <1>1, <1>7 DEF Announced
<1>9. Released'
  BY <1>0, <1>1, <1>4 DEF Released, NoRelease
<1>10. Continued'
  BY <1>1, <1>4 DEF Continued
<1>11. ErrorComes'
  BY <1>0, <1>1 DEF ErrorComes
<1>12. CountStands'
  <2>1. Symbols \ ResetCommands \subseteq Symbols \ {"EXPECT_RESET_clean"}
    BY DEF ResetCommands
  <2>2. Unparsed(Symbols \ {"EXPECT_RESET_clean"})'
    BY <2>1, <1>7, SeqMono DEF Unparsed
  <2> QED BY <2>2, <1>0, <1>1 DEF CountStands
<1>13. PassIsHonest'
  BY <1>0, <1>1 DEF PassIsHonest
<1> QED BY <1>5, <1>6, <1>8, <1>9, <1>10, <1>11, <1>12, <1>13
\* What a line prints is a sequence over every set that holds its text.
LEMMA LineOf ==
    ASSUME NEW S, NEW a \in S, "newline" \in S
    PROVE  <<a, "newline">> \in Seq(S)
OBVIOUS

\* A command of a HOST-CMD block is printed by an autobaud test.
LEMMA PrintCommandKeeps ==
    ASSUME Inv, PrintLine, Head(program) \in Commands
    PROVE  Inv'
<1> USE DEF Inv
<1> DEFINE text == Head(program)
<1>1. /\ program # <<>>
      /\ Emit(<<TextOf(text), "newline">>)
      /\ program' = Tail(program)
      /\ UNCHANGED <<ended, phoneSpeed, fifo, detected, failures, failed, hostVars>>
  BY DEF PrintLine, Done
<1>2. TextOf(text) = text /\ Ordinary
  BY <1>1 DEF TextOf, Ordinary, Commands, Sends
<1>3. \A n \in 0 .. 9 : ~AtReset(n)
  BY <1>2, OrdinaryAt DEF Commands, Sends
<1>4. text \in AutobaudSteps
  <2>1. ~IsRest(program, ResetTest)
    BY <1>3, SomeReset
  <2> QED BY <2>1, <1>1 DEF Shape
<1>5. text \in (Symbols \ ResetCommands) \cap (Symbols \ {"PASS"}) /\ text \in Symbols
  <2>0. text \in Commands
    OBVIOUS
  <2> HIDE DEF text
  <2>1. text \in Commands \ ResetCommands
    BY <2>0, <1>4 DEF AutobaudSteps, ResetCommands
  <2>2. text # "PASS" /\ text \in Symbols
    BY <2>0 DEF Commands, Sends, Symbols
  <2> QED BY <2>1, <2>2
<1> DEFINE s == <<text, "newline">>
<1>6. ASSUME NEW S \in {Symbols, Symbols \ ResetCommands, Symbols \ {"PASS"}}
      PROVE  s \in Seq(S) /\ {"junk", "newline", "nul"} \subseteq S
  <2>1. {"junk", "newline", "nul"} \subseteq S
    BY DEF Symbols, ResetCommands
  <2> QED BY <2>1, <1>5, LineOf
<1>7. Emit(s)
  BY <1>1, <1>2
<1> HIDE DEF s
<1>8. /\ specials' \in 0 .. Specials
      /\ output' \in Seq(Symbols)
      /\ \A S : {"junk", "newline", "nul"} \subseteq S /\ output \in Seq(S) /\ s \in Seq(S)
                        => output' \in Seq(S)
  BY <1>6, <1>7, EmitAdds
<1>9. \A S \in {Symbols \ ResetCommands, Symbols \ {"PASS"}} : output \in Seq(S) => output' \in Seq(S)
  BY <1>6, <1>8
<1>10. Types'
  BY <1>1, <1>8, PhoneTypes, Advance DEF Types, EndedValues, FifoBytes
<1> QED BY <1>1, <1>2, <1>3, <1>9, <1>10, OrdinaryStep DEF Counted
\* The other steps that print nothing: the output stays.
LEMMA SilentStep ==
    ASSUME Inv, Ordinary, UNCHANGED <<line, hostVars, failures, failed, ended>>,
           program' = Tail(program),
           phoneSpeed' \in Speeds, fifo' \in Seq(FifoBytes), detected' \in BOOLEAN,
           fifo \in Seq(NoRelease) => fifo' \in Seq(NoRelease),
           (\E n \in 7 .. 9 : AtReset(n)) => phoneSpeed' = phoneSpeed
    PROVE  Inv'
<1>1. Types /\ Shape /\ Counted
  BY DEF Inv
<1>2. program' \in Seq(Steps)
  BY <1>1, Advance DEF Ordinary
<1>3. output' = output /\ specials' = specials
  BY DEF line
<1>4. Types'
  BY <1>1, <1>2, <1>3, PhoneTypes DEF Types, EndedValues
<1>5. Counted'
  BY <1>1 DEF Counted
<1> QED BY <1>3, <1>4, <1>5, OrdinaryStep

\* The bytes of a fifo without its first one
LEMMA FifoTail ==
    ASSUME Types, fifo # <<>>
    PROVE  /\ Tail(fifo) \in Seq(FifoBytes)
           /\ fifo \in Seq(NoRelease) => Tail(fifo) \in Seq(NoRelease)
BY DEF Types, FifoBytes

\* Flushing, waiting for a trigger and switching speeds are ordinary steps.
LEMMA SilentKeeps ==
    ASSUME Inv, FlushFifo \/ AwaitTrigger \/ Configure
    PROVE  Inv'
<1>0. Types /\ fifo \in Seq(FifoBytes) /\ <<>> \in Seq(FifoBytes) /\ <<>> \in Seq(NoRelease)
  BY DEF Inv, Types, FifoBytes
<1>1. CASE FlushFifo
  <2>1. Ordinary /\ program' = Tail(program)
    BY <1>1 DEF FlushFifo, Step, Done, Ordinary
  <2>2. fifo' = <<>> /\ UNCHANGED <<line, hostVars, failures, failed, ended, phoneSpeed, detected>>
    BY <1>1 DEF FlushFifo, Done
  <2>3. phoneSpeed' \in Speeds /\ detected' \in BOOLEAN
    BY <2>2, <1>0 DEF Types
  <2> QED BY <1>0, <2>1, <2>2, <2>3, SilentStep
<1>2. CASE AwaitTrigger
  <2>1. Ordinary /\ program' = Tail(program)
    BY <1>2 DEF AwaitTrigger, Step, Done, Ordinary
  <2>2. UNCHANGED <<line, hostVars, failures, failed, ended, phoneSpeed, detected>>
    BY <1>2 DEF AwaitTrigger, Done
  <2>3. fifo' = fifo \/ (fifo # <<>> /\ fifo' = Tail(fifo))
    BY <1>2 DEF AwaitTrigger
  <2>4. fifo' \in Seq(FifoBytes) /\ (fifo \in Seq(NoRelease) => fifo' \in Seq(NoRelease))
    BY <1>0, <2>3, FifoTail
  <2>5. phoneSpeed' \in Speeds /\ detected' \in BOOLEAN
    BY <2>2, <1>0 DEF Types
  <2> QED BY <2>1, <2>2, <2>4, <2>5, SilentStep
<1>3. CASE Configure
  <2>1. Ordinary /\ program' = Tail(program) /\ Head(program) \in {"configure", "restore"}
    BY <1>3 DEF Configure, Step, Done, Ordinary
  <2>2. fifo' = <<>> /\ phoneSpeed' \in Speeds
        /\ UNCHANGED <<line, hostVars, failures, failed, ended, detected>>
    BY <1>3 DEF Configure, Done, Speeds
  <2>3. detected' \in BOOLEAN
    BY <2>2, <1>0 DEF Types
  <2>4. \A n \in 0 .. 9 : ~AtReset(n)
    BY <2>1, <1>0, OrdinaryAt
  <2> QED BY <1>0, <2>1, <2>2, <2>3, <2>4, SilentStep
<1> QED BY <1>1, <1>2, <1>3

\* A byte that is taken from the fifo and does nothing
LEMMA FifoStep ==
    ASSUME Inv, UNCHANGED <<program, ended, phoneSpeed, detected, failures, failed, line, hostVars>>,
           fifo # <<>>, fifo' = Tail(fifo)
    PROVE  Inv'
<1>0. Types /\ Inv
  BY DEF Inv
<1>1. /\ UNCHANGED <<program, ended, phoneSpeed, detected, failures, failed, output, specials, host,
                     hostSpeed, pending, newline, lines, chunk, terminator, block, queue, expected_reset,
                     stdout>>
      /\ UNCHANGED hostVars
  BY DEF line, hostVars, parser
<1>2. fifo' \in Seq(FifoBytes) /\ (fifo \in Seq(NoRelease) => fifo' \in Seq(NoRelease))
  BY <1>0, FifoTail
<1>3. Types'
  BY <1>0, <1>1, <1>2, PhoneTypes DEF Types, EndedValues
<1>4. \A n \in 0 .. 9 : AtReset(n)' <=> AtReset(n)
  BY <1>1 DEF AtReset
<1>5. Shape' /\ Counted' /\ ErrorAhead' = ErrorAhead
  BY <1>0, <1>1 DEF Inv, Shape, Counted, ErrorAhead, IsRest
<1>6. \A S : Unparsed(S)' <=> Unparsed(S)
  BY <1>1 DEF Unparsed
<1>7. SameSpeed'
  BY <1>0, <1>1, <1>4, <1>6 DEF Inv, SameSpeed
<1>8. Announced'
  BY <1>0, <1>1, <1>4, <1>6 DEF Inv, Announced
<1>9. Released'
  BY <1>0, <1>1, <1>2, <1>4 DEF Inv, Released, Late, NoRelease
<1>10. Continued'
  BY <1>0, <1>1, <1>4 DEF Inv, Continued
<1>11. ErrorComes'
  BY <1>0, <1>1, <1>4, <1>5 DEF Inv, ErrorComes
<1>12. CountStands'
  BY <1>0, <1>1, <1>5, <1>6 DEF Inv, CountStands
<1>13. PassIsHonest'
  BY <1>0, <1>1 DEF Inv, PassIsHonest, Honest
<1> QED BY <1>3, <1>5, <1>7, <1>8, <1>9, <1>10, <1>11, <1>12, <1>13 DEF Inv

\* The detection takes a byte, and ends with a frame or with its timeout.
LEMMA DetectKeeps ==
    ASSUME Inv, Detect
    PROVE  Inv'
<1>0. Types /\ fifo \in Seq(FifoBytes)
  BY DEF Inv, Types, FifoBytes
<1>1. Ordinary /\ Head(program) = "detect"
  BY DEF Detect, Step, Ordinary
<1>2. \A n \in 0 .. 9 : ~AtReset(n)
  BY <1>1, <1>0, OrdinaryAt
<1>3. UNCHANGED <<line, hostVars, failures, failed, phoneSpeed>> /\ phoneSpeed' \in Speeds
  BY <1>0 DEF Detect, Types
<1>4. CASE UNCHANGED <<program, ended, detected>>
  <2>1. fifo # <<>> /\ fifo' = Tail(fifo)
    <3>1. Tail(program) # program
      BY <1>0, <1>1 DEF Ordinary, Types
    <3> QED BY <1>4, <3>1 DEF Detect, Done
  <2> QED BY <2>1, <1>3, <1>4, FifoStep
<1>5. CASE ~UNCHANGED <<program, ended, detected>>
  <2>1. program' = Tail(program) /\ ended' = ended /\ detected' \in BOOLEAN
    BY <1>5 DEF Detect, Done
  <2>2. fifo' = fifo \/ (fifo # <<>> /\ fifo' = Tail(fifo))
    BY DEF Detect
  <2>3. fifo' \in Seq(FifoBytes) /\ (fifo \in Seq(NoRelease) => fifo' \in Seq(NoRelease))
    BY <1>0, <2>2, FifoTail
  <2> QED BY <1>1, <1>2, <1>3, <2>1, <2>3, SilentStep
<1> QED BY <1>4, <1>5
\* An ordinary step that prints: none of its symbols is a command of a reset or a result.
LEMMA PrintingStep ==
    ASSUME Inv, Ordinary, UNCHANGED <<hostVars, ended, phoneSpeed, fifo, detected>>,
           program' = Tail(program),
           NEW s \in Seq({"ready", "ok", "not_ok", "newline"}), Emit(s),
           failures' \in Nat, failed' \in BOOLEAN, Counted',
           (\E n \in 7 .. 9 : AtReset(n)) => s \in Seq({"ok", "not_ok", "newline"})
    PROVE  Inv'
<1>0. Types /\ Shape /\ SameSpeed
  BY DEF Inv
<1>1. ASSUME NEW S \in {Symbols, Symbols \ ResetCommands, Symbols \ {"PASS"}}
      PROVE  s \in Seq(S) /\ {"junk", "newline", "nul"} \subseteq S
  <2>1. {"junk", "newline", "nul"} \subseteq S /\ {"ready", "ok", "not_ok", "newline"} \subseteq S
    BY DEF Symbols, ResetCommands
  <2> QED BY <2>1, SeqMono
<1>2. /\ specials' \in 0 .. Specials
      /\ output' \in Seq(Symbols)
      /\ \A S : {"junk", "newline", "nul"} \subseteq S /\ output \in Seq(S) /\ s \in Seq(S)
                        => output' \in Seq(S)
      /\ phoneSpeed = hostSpeed => output' = output \o s
  BY <1>0, <1>1, EmitAdds
<1>3. \A S \in {Symbols \ ResetCommands, Symbols \ {"PASS"}} : output \in Seq(S) => output' \in Seq(S)
  BY <1>1, <1>2
<1>4. (\E n \in 7 .. 9 : AtReset(n)) => (output \in Seq(ResetSymbols) => output' \in Seq(ResetSymbols))
  <2>1. SUFFICES ASSUME NEW n \in 7 .. 9, AtReset(n), output \in Seq(ResetSymbols)
                 PROVE  output' \in Seq(ResetSymbols)
    OBVIOUS
  <2>2. phoneSpeed = hostSpeed
    BY <1>0, <2>1 DEF SameSpeed
  <2>3. s \in Seq(ResetSymbols)
    <3>1. {"ok", "not_ok", "newline"} \subseteq ResetSymbols
      BY DEF ResetSymbols
    <3> QED BY <2>1, <3>1, SeqMono
  <2>4. output' = output \o s
    BY <2>2, <1>2
  <2> QED BY <2>1, <2>3, <2>4, ConcatProperties
<1>5. program' \in Seq(Steps)
  BY <1>0, Advance DEF Ordinary
<1>6. Types'
  BY <1>0, <1>2, <1>5, PhoneTypes DEF Types, EndedValues, FifoBytes
<1> QED BY <1>3, <1>4, <1>6, OrdinaryStep

\* The ready byte, and the checks of both tests before an announcement
LEMMA NotifyReadyKeeps ==
    ASSUME Inv, NotifyReady
    PROVE  Inv'
<1>0. Types /\ Counted
  BY DEF Inv
<1>1. /\ Ordinary /\ Head(program) = "ready" /\ program' = Tail(program)
      /\ Emit(<<"ready">>)
      /\ UNCHANGED <<hostVars, ended, phoneSpeed, fifo, detected, failures, failed>>
  BY DEF NotifyReady, Step, Done, Ordinary
<1>2. \A n \in 0 .. 9 : ~AtReset(n)
  BY <1>0, <1>1, OrdinaryAt
<1>3. failures' \in Nat /\ failed' \in BOOLEAN /\ Counted'
  BY <1>0, <1>1 DEF Types, Counted
<1> DEFINE s == <<"ready">>
<1>4. s \in Seq({"ready", "ok", "not_ok", "newline"}) /\ Emit(s)
  BY <1>1
<1> HIDE DEF s
<1> QED BY <1>1, <1>2, <1>3, <1>4, PrintingStep

\* A check counts a failure, and only then.
LEMMA CheckCounts ==
    ASSUME Types, Counted, Check
    PROVE  /\ failures' \in Nat /\ failed' \in BOOLEAN /\ Counted'
           /\ \E a \in {"ok", "not_ok"} : Emit(<<a, "newline">>)
           /\ program # <<>> /\ Head(program) \in {"check", "any_check", "fail"}
           /\ program' = Tail(program)
           /\ UNCHANGED <<hostVars, ended, phoneSpeed, fifo, detected>>
           /\ Head(program) = "fail" => failures' > 0
<1>1. PICK passed \in BOOLEAN :
         /\ \/ Step("check") /\ passed = detected
            \/ Step("any_check")
            \/ Step("fail") /\ ~passed
         /\ Emit(<<IF passed THEN "ok" ELSE "not_ok", "newline">>)
         /\ failures' = FailuresAfter(passed)
         /\ failed' = (failed \/ ~passed)
  BY DEF Check
<1>2. failures \in Nat /\ failed \in BOOLEAN /\ (failed <=> failures # 0)
  BY DEF Types, Counted
<1>3. /\ program # <<>> /\ Head(program) \in {"check", "any_check", "fail"}
      /\ Head(program) = "fail" => ~passed
  BY <1>1 DEF Step
<1>4. program' = Tail(program) /\ UNCHANGED <<hostVars, ended, phoneSpeed, fifo, detected>>
  BY DEF Check, Done
<1>5. CASE passed
  BY <1>1, <1>2, <1>3, <1>4, <1>5 DEF FailuresAfter, Counted
<1>6. CASE ~passed
  <2>1. failures' = failures + 1 /\ failed' = TRUE
    BY <1>1, <1>6 DEF FailuresAfter
  <2>2. failures' \in Nat /\ failures' > 0
    BY <2>1, <1>2
  <2> QED BY <1>1, <1>3, <1>4, <1>6, <2>1, <2>2 DEF Counted
<1> QED BY <1>5, <1>6

\* A check of an autobaud case, or of the reset test before its announcement
LEMMA CheckKeeps ==
    ASSUME Inv, Check, Head(program) # "fail"
    PROVE  Inv'
<1>0. Types /\ Counted
  BY DEF Inv
<1>1. PICK a \in {"ok", "not_ok"} : Emit(<<a, "newline">>)
  BY <1>0, CheckCounts
<1>2. /\ failures' \in Nat /\ failed' \in BOOLEAN /\ Counted'
      /\ Ordinary /\ program' = Tail(program)
      /\ UNCHANGED <<hostVars, ended, phoneSpeed, fifo, detected>>
  BY <1>0, CheckCounts DEF Ordinary
<1>3. <<a, "newline">> \in Seq({"ready", "ok", "not_ok", "newline"})
      /\ <<a, "newline">> \in Seq({"ok", "not_ok", "newline"})
  BY <1>1, LineOf
<1> QED BY <1>1, <1>2, <1>3, PrintingStep
-----------------------------------------------------------------------------
\* The last steps of the reset test.

\* The phone is at one step only.
LEMMA AtOneStep ==
    ASSUME NEW n \in 0 .. 9, NEW k \in 0 .. 9, AtReset(n), AtReset(k)
    PROVE  n = k
BY DEF AtReset

\* And so after a step of its program
LEMMA AtOneStepNext ==
    ASSUME NEW n \in 0 .. 9, NEW k \in 0 .. 9, AtReset(n)', AtReset(k)'
    PROVE  n = k
BY DEF AtReset

\* A step that only the reset test has tells where the phone is.
LEMMA LateStepIs ==
    ASSUME Types, Shape, program # <<>>
    PROVE  /\ Head(program) = "EXPECT_RESET" => AtReset(6)
           /\ Head(program) = "release" => AtReset(5)
           /\ Head(program) = "reset" => AtReset(4)
           /\ Head(program) = "ERROR" => AtReset(3)
           /\ Head(program) = "fail" => AtReset(2)
<1> DEFINE x == Head(program)
<1>1. SUFFICES ASSUME x \in {"EXPECT_RESET", "release", "reset", "ERROR", "fail"}
               PROVE  \E n \in 1 .. 9 : AtReset(n) /\ ResetTest[10 - n] = x
  <2>1. SUFFICES ASSUME NEW n \in 1 .. 9, AtReset(n), ResetTest[10 - n] = x
                 PROVE  /\ x = "EXPECT_RESET" => n = 6
                        /\ x = "release" => n = 5
                        /\ x = "reset" => n = 4
                        /\ x = "ERROR" => n = 3
                        /\ x = "fail" => n = 2
    BY <1>1
  <2> HIDE DEF x
  <2>2. n \in {1, 2, 3, 4, 5, 6, 7, 8, 9}
    OBVIOUS
  <2> QED BY <2>1, <2>2, ResetTestIs
<1>2. program \notin Seq(AutobaudSteps)
  <2>1. SUFFICES ASSUME program \in Seq(AutobaudSteps) PROVE x \in AutobaudSteps
    BY <1>1 DEF AutobaudSteps, Commands, Sends
  <2> QED BY <2>1
<1>3. PICK n \in 0 .. 9 : AtReset(n)
  BY <1>2, SomeReset DEF Shape
<1>4. n # 0
  BY <1>3 DEF AtReset, Types
<1>5. n \in 1 .. 9
  BY <1>3, <1>4
<1> QED BY <1>3, <1>5, ResetHead

\* A step after the checks: the test goes on, at the host's speed, and has been announced.
LEMMA ResetStep ==
    ASSUME Inv, NEW n \in 2 .. 6, AtReset(n), program' = Tail(program), Types', UNCHANGED hostVars,
           phoneSpeed' = phoneSpeed, Counted',
           output' = output \/ \E s \in Seq(ResetSymbols) : output' = output \o s,
           Released', Continued', ErrorComes', CountStands'
    PROVE  Inv'
<1> USE DEF Inv
<1>0. /\ UNCHANGED <<host, hostSpeed, pending, lines, chunk, block, queue, expected_reset, stdout>>
      /\ phoneSpeed = Console /\ hostSpeed = Console
      /\ Unparsed(ResetSymbols) /\ queue \in Seq({"malformed"}) /\ ~block.open
  BY DEF hostVars, parser, SameSpeed
<1>1. program # <<>>
  BY ResetHead
<1>2. /\ AtReset(n - 1)'
      /\ n - 1 \in 1 .. 5
  BY <1>1, Advance
<1>3. Shape'
  <2>1. IsRest(program, ResetTest)'
    BY <1>2 DEF AtReset
  <2>2. Head(program) = ResetTest[10 - n] /\ 10 - n \in {4, 5, 6, 7, 8}
    BY ResetHead
  <2>3. program' # <<>>
    BY <1>1, <2>2, ResetTestIs, Advance
  <2> QED BY <2>1, <2>3 DEF Shape
<1>4. ASSUME NEW S, ResetSymbols \subseteq S, output \in Seq(S) PROVE output' \in Seq(S)
  <2>1. CASE output' = output
    BY <1>4, <2>1
  <2>2. ASSUME NEW s \in Seq(ResetSymbols), output' = output \o s PROVE output' \in Seq(S)
    <3>1. s \in Seq(S)
      BY <1>4, SeqMono
    <3> QED BY <2>2, <3>1, <1>4, ConcatProperties
  <2> QED BY <2>1, <2>2
<1>5. SameSpeed'
  BY <1>0, <1>4 DEF SameSpeed, Unparsed
<1>6. Announced'
  BY <1>0, <1>2 DEF Announced
<1>7. PassIsHonest'
  <2>1. ~Honest
    BY <1>1 DEF Honest
  <2>2. ResetSymbols \subseteq Symbols \ {"PASS"}
    BY DEF ResetSymbols, ResetCommands, Symbols, Commands
  <2> QED BY <2>1, <2>2, <1>0, <1>4 DEF PassIsHonest
<1> QED BY <1>3, <1>5, <1>6, <1>7

\* The announcement carries the failures there were so far.
LEMMA AnnounceKeeps ==
    ASSUME Inv, PrintLine, Head(program) = "EXPECT_RESET"
    PROVE  Inv'
<1> USE DEF Inv
<1>0. /\ program # <<>> /\ program' = Tail(program)
      /\ Emit(<<TextOf("EXPECT_RESET"), "newline">>)
      /\ UNCHANGED <<ended, phoneSpeed, fifo, detected, failures, failed, hostVars>>
  BY DEF PrintLine, Done
<1>1. AtReset(6)
  BY <1>0, LateStepIs
<1> DEFINE a == TextOf("EXPECT_RESET")
           s == <<a, "newline">>
<1>2. a \in ResetCommands /\ (a = "EXPECT_RESET_clean" => failures = 0)
  BY DEF TextOf, ResetCommands
<1>3. s \in Seq(ResetSymbols) /\ s \in Seq(Symbols) /\ Emit(s)
  BY <1>0, <1>2, LineOf DEF ResetSymbols, Symbols, ResetCommands, Commands
<1>4. a # "EXPECT_RESET_clean" => s \in Seq(Symbols \ {"EXPECT_RESET_clean"})
  BY <1>2, LineOf DEF Symbols, ResetCommands, Commands
<1> HIDE DEF a, s
<1>5. phoneSpeed = hostSpeed
  BY <1>1 DEF SameSpeed
<1>6. specials' \in 0 .. Specials /\ output' \in Seq(Symbols) /\ output' = output \o s
  BY <1>3, <1>5, EmitAdds
<1>7. program' \in Seq(Steps) /\ AtReset(5)'
  <2>1. AtReset(6 - 1)'
    BY <1>0, <1>1, Advance
  <2> QED BY <2>1, <1>0, Advance
<1>8. Types' /\ Counted'
  BY <1>0, <1>6, <1>7, PhoneTypes DEF Types, EndedValues, FifoBytes, Counted
<1>9. UNCHANGED <<host, expected_reset, pending, lines>>
  BY <1>0 DEF hostVars, parser
<1>10. ended # "continued"
  BY <1>1, AtOneStep DEF Continued
<1>11. Released'
  <2>1. \A n \in 2 .. 4 : ~AtReset(n)'
    BY <1>7, AtOneStepNext
  <2> QED BY <2>1, <1>0, <1>9, <1>10 DEF Released, Late
<1>12. Continued'
  BY <1>0, <1>7, <1>10, AtOneStepNext DEF Continued
<1>13. ErrorComes'
  BY <1>0, <1>10 DEF ErrorComes
<1>14. CountStands'
  <2>1. host # "observing" /\ expected_reset = "none"
    BY <1>1, AtOneStep DEF Announced
  <2>2. CASE failed
    <3>1. a # "EXPECT_RESET_clean"
      BY <1>2, <2>2 DEF Counted
    <3>2. Unparsed(Symbols \ {"EXPECT_RESET_clean"}) => Unparsed(Symbols \ {"EXPECT_RESET_clean"})'
      BY <3>1, <1>4, <1>6, <1>9, ConcatProperties DEF Unparsed
    <3> QED BY <3>2, <2>1, <2>2, <1>9 DEF CountStands
  <2>3. CASE ~failed
    BY <2>3, <1>0 DEF CountStands
  <2> QED BY <2>2, <2>3
<1>15. \E q \in Seq(ResetSymbols) : output' = output \o q
  BY <1>3, <1>6
<1> HIDE DEF Inv
<1>16. 6 \in 2 .. 6 /\ program' = Tail(program) /\ UNCHANGED hostVars /\ phoneSpeed' = phoneSpeed
  BY <1>0
<1> QED BY <1>1, <1>8, <1>11, <1>12, <1>13, <1>14, <1>15, <1>16, ResetStep, Zenon
\* The phone says that it went on: while the host observes, its error comes.
LEMMA PrintErrorKeeps ==
    ASSUME Inv, PrintLine, Head(program) = "ERROR"
    PROVE  Inv'
<1> USE DEF Inv
<1>0. /\ program # <<>> /\ program' = Tail(program)
      /\ Emit(<<"ERROR", "newline">>)
      /\ UNCHANGED <<ended, phoneSpeed, fifo, detected, failures, failed, hostVars>>
  BY DEF PrintLine, Done, TextOf
<1>1. AtReset(3) /\ ended = "continued" /\ Late
  <2>1. AtReset(3)
    BY <1>0, LateStepIs
  <2> QED BY <2>1 DEF Continued, Released
<1> DEFINE s == <<"ERROR", "newline">>
<1>2. /\ s \in Seq(ResetSymbols) /\ s \in Seq(Symbols)
      /\ s \in Seq(Symbols \ {"EXPECT_RESET_clean"})
      /\ Emit(s) /\ s[1] = "ERROR" /\ Len(s) = 2
  BY <1>0, LineOf DEF ResetSymbols, Symbols, ResetCommands, Commands
<1> HIDE DEF s
<1>3. phoneSpeed = hostSpeed
  BY <1>1 DEF SameSpeed
<1>4. specials' \in 0 .. Specials /\ output' \in Seq(Symbols) /\ output' = output \o s
  BY <1>2, <1>3, EmitAdds
<1>5. program' \in Seq(Steps) /\ AtReset(2)'
  <2>1. AtReset(3 - 1)'
    BY <1>0, <1>1, Advance
  <2> QED BY <2>1, <1>0, Advance
<1>6. Types' /\ Counted'
  BY <1>0, <1>4, <1>5, PhoneTypes DEF Types, EndedValues, FifoBytes, Counted
<1>7. UNCHANGED <<host, expected_reset, pending, lines>>
  BY <1>0 DEF hostVars, parser
<1>8. Released'
  BY <1>1, <1>7 DEF Released, Late
<1>9. Continued'
  BY <1>0, <1>1, <1>5 DEF Continued
<1>10. ErrorAhead'
  <2>0. s # <<>>
    BY DEF s
  <2>1. output \in Seq(Symbols) /\ s # <<>>
    BY <2>0 DEF Types
  <2>2. \E i \in 1 .. Len(output \o s) : (output \o s)[i] = s[1]
    BY <1>2, <2>1, CatHolds
  <2> QED BY <1>2, <1>4, <2>2 DEF ErrorAhead
<1>11. ErrorComes'
  BY <1>10 DEF ErrorComes
<1>12. CountStands'
  BY <1>1, <1>7, <1>10 DEF CountStands, Late
<1>13. \E q \in Seq(ResetSymbols) : output' = output \o q
  BY <1>2, <1>4
<1> HIDE DEF Inv
<1>14. 3 \in 2 .. 6 /\ program' = Tail(program) /\ UNCHANGED hostVars /\ phoneSpeed' = phoneSpeed
  BY <1>0
<1> QED BY <1>1, <1>6, <1>8, <1>9, <1>11, <1>12, <1>13, <1>14, ResetStep, Zenon

\* The check that fails because the phone went on
LEMMA CheckFailKeeps ==
    ASSUME Inv, Check, Head(program) = "fail"
    PROVE  Inv'
<1> USE DEF Inv
<1>0. /\ program # <<>> /\ program' = Tail(program)
      /\ UNCHANGED <<ended, phoneSpeed, fifo, detected, hostVars>>
      /\ failures' \in Nat /\ failed' \in BOOLEAN /\ Counted'
      /\ failures' > 0
  BY CheckCounts
<1>1. AtReset(2) /\ ended = "continued" /\ Late
  <2>1. AtReset(2)
    BY <1>0, LateStepIs
  <2> QED BY <2>1 DEF Continued, Released
<1>2. PICK a \in {"ok", "not_ok"} : Emit(<<a, "newline">>)
  BY CheckCounts
<1> DEFINE s == <<a, "newline">>
<1>3. s \in Seq(ResetSymbols) /\ s \in Seq(Symbols) /\ Emit(s)
  BY <1>2, LineOf DEF ResetSymbols, Symbols
<1> HIDE DEF s
<1>4. phoneSpeed = hostSpeed
  BY <1>1 DEF SameSpeed
<1>5. /\ specials' \in 0 .. Specials /\ output' \in Seq(Symbols) /\ output' = output \o s
      /\ ErrorAhead => ErrorAhead'
  BY <1>3, <1>4, EmitAdds
<1>6. program' \in Seq(Steps) /\ AtReset(1)'
  <2>1. AtReset(2 - 1)'
    BY <1>0, <1>1, Advance
  <2> QED BY <2>1, <1>0, Advance
<1>7. Types'
  BY <1>0, <1>5, <1>6, PhoneTypes DEF Types, EndedValues, FifoBytes
<1>8. UNCHANGED <<host, expected_reset>>
  BY <1>0 DEF hostVars, parser
<1>9. Released'
  BY <1>1, <1>8 DEF Released, Late
<1>10. Continued'
  BY <1>0, <1>1, <1>6 DEF Continued
<1>11. host = "observing" => ErrorAhead'
  BY <1>1, <1>5, AtOneStep DEF ErrorComes
<1>12. ErrorComes'
  BY <1>8, <1>11 DEF ErrorComes
<1>13. CountStands'
  BY <1>1, <1>8, <1>11 DEF CountStands, Late
<1>14. \E q \in Seq(ResetSymbols) : output' = output \o q
  BY <1>3, <1>5
<1> HIDE DEF Inv
<1>15. 2 \in 2 .. 6 /\ program' = Tail(program) /\ UNCHANGED hostVars /\ phoneSpeed' = phoneSpeed
       /\ Counted'
  BY <1>0
<1> QED BY <1>1, <1>7, <1>9, <1>10, <1>12, <1>13, <1>14, <1>15, ResetStep, Zenon
\* The host's R is in the fifo only once the host observes.
LEMMA ReleaseKeeps ==
    ASSUME Inv, Release
    PROVE  Inv'
<1>0. /\ program # <<>> /\ Head(program) = "release" /\ fifo # <<>> /\ fifo' = Tail(fifo)
      /\ UNCHANGED <<phoneSpeed, detected, failures, failed, line, hostVars>>
      /\ IF Head(fifo) = "R" THEN program' = Tail(program) /\ ended' = ended ELSE UNCHANGED <<program, ended>>
  BY DEF Release, Step, Done
<1>1. CASE Head(fifo) # "R"
  BY <1>0, <1>1, FifoStep
<1>2. CASE Head(fifo) = "R"
  <2> USE DEF Inv
  <2>1. AtReset(5)
    BY <1>0, LateStepIs
  <2>2. program' \in Seq(Steps) /\ AtReset(4)'
    <3>1. AtReset(5 - 1)'
      BY <1>0, <1>2, <2>1, Advance
    <3> QED BY <3>1, <1>0, <1>2, Advance
  <2>3. fifo' \in Seq(FifoBytes)
    BY <1>0, FifoTail
  <2>4. Late /\ ended # "continued"
    <3>1. fifo \notin Seq(NoRelease)
      BY <1>0, <1>2 DEF NoRelease
    <3>2. ended # "continued"
      BY <2>1, AtOneStep DEF Continued
    <3> QED BY <3>1, <3>2 DEF Released, NoRelease
  <2>5. output' = output /\ specials' = specials /\ UNCHANGED <<host, expected_reset, pending, lines>>
        /\ ended' = ended
    BY <1>0, <1>2 DEF line, hostVars, parser
  <2>6. Types' /\ Counted'
    BY <1>0, <2>2, <2>3, <2>5, PhoneTypes DEF Types, EndedValues, Counted
  <2>7. Released'
    BY <2>4, <2>5 DEF Released, Late
  <2>8. Continued'
    BY <2>2, <2>4, <2>5, AtOneStepNext DEF Continued
  <2>9. ErrorComes'
    BY <2>4, <2>5 DEF ErrorComes
  <2>10. CountStands'
    BY <2>5, <1>0 DEF CountStands, Unparsed, ErrorAhead
  <2> HIDE DEF Inv
  <2>11. 5 \in 2 .. 6 /\ program' = Tail(program) /\ UNCHANGED hostVars /\ phoneSpeed' = phoneSpeed
    BY <1>0, <1>2
  <2> QED BY <2>1, <2>5, <2>6, <2>7, <2>8, <2>9, <2>10, <2>11, ResetStep, Zenon
<1> QED BY <1>1, <1>2

\* A phone that ends, by its own reset or by the watchdog
LEMMA StopKeeps ==
    ASSUME Inv, program # <<>>, program' = <<>>, ended' \in {"reset", "crash"},
           UNCHANGED <<phoneSpeed, fifo, detected, failures, failed, line, hostVars>>
    PROVE  Inv'
<1> USE DEF Inv
<1>1. UNCHANGED <<output, specials, host, hostSpeed, pending, newline, lines, chunk, terminator, block,
                  queue, expected_reset, stdout>>
  BY DEF line, hostVars, parser
<1>2. program' \in Seq(Steps) /\ AtReset(0)' /\ \A n \in 1 .. 9 : ~AtReset(n)'
  BY ResetTestIs DEF AtReset, IsRest
<1>3. Types' /\ Counted'
  BY <1>1, <1>2, PhoneTypes DEF Types, EndedValues, FifoBytes, Counted
<1>4. Shape'
  BY <1>2 DEF Shape, AtReset
<1>5. SameSpeed'
  BY <1>2 DEF SameSpeed
<1>6. Announced'
  BY <1>1, <1>2 DEF Announced
<1>7. Released'
  BY <1>1, <1>2 DEF Released, Late
<1>8. Continued' /\ ErrorComes'
  BY <1>2 DEF Continued, ErrorComes
<1>9. CountStands'
  BY <1>1 DEF CountStands, Unparsed, ErrorAhead
<1>10. PassIsHonest'
  BY <1>1 DEF PassIsHonest, Honest
<1> QED BY <1>3, <1>4, <1>5, <1>6, <1>7, <1>8, <1>9, <1>10

\* The requested reset comes, or the phone goes on.
LEMMA ResetKeeps ==
    ASSUME Inv, Reset
    PROVE  Inv'
<1>0. /\ program # <<>> /\ Head(program) = "reset"
      /\ UNCHANGED <<phoneSpeed, fifo, detected, failures, failed, line, hostVars>>
      /\ \/ program' = <<>> /\ ended' = "reset"
         \/ program' = Tail(program) /\ ended' = "continued"
  BY DEF Reset, Step
<1>1. CASE program' = <<>> /\ ended' = "reset"
  BY <1>0, <1>1, StopKeeps
<1>2. CASE program' = Tail(program) /\ ended' = "continued"
  <2> USE DEF Inv
  <2>1. AtReset(4) /\ Late
    <3>1. AtReset(4)
      BY <1>0, LateStepIs
    <3> QED BY <3>1 DEF Released
  <2>2. program' \in Seq(Steps) /\ AtReset(3)'
    <3>1. AtReset(4 - 1)'
      BY <1>0, <1>2, <2>1, Advance
    <3> QED BY <3>1, <1>0, <1>2, Advance
  <2>3. output' = output /\ specials' = specials /\ UNCHANGED <<host, expected_reset, pending, lines>>
    BY <1>0 DEF line, hostVars, parser
  <2>4. Types' /\ Counted'
    BY <1>0, <1>2, <2>2, <2>3, PhoneTypes DEF Types, EndedValues, FifoBytes, Counted
  <2>5. Released' /\ Continued' /\ ErrorComes'
    BY <1>2, <2>1, <2>2, <2>3 DEF Released, Late, Continued, ErrorComes
  <2>6. CountStands'
    BY <2>3, <1>0 DEF CountStands, Unparsed, ErrorAhead
  <2> HIDE DEF Inv
  <2>7. 4 \in 2 .. 6 /\ program' = Tail(program) /\ UNCHANGED hostVars /\ phoneSpeed' = phoneSpeed
    BY <1>0, <1>2
  <2> QED BY <2>1, <2>3, <2>4, <2>5, <2>6, <2>7, ResetStep, Zenon
<1> QED BY <1>0, <1>1, <1>2

\* The result of a test that ends by itself is PASS only if no check has failed.
LEMMA FinishKeeps ==
    ASSUME Inv, Finish
    PROVE  Inv'
<1> USE DEF Inv
<1> DEFINE s == Result(failures = 0) \o <<"nul">>
<1>0. /\ program # <<>> /\ Head(program) = "finish" /\ Emit(s)
      /\ program' = <<>>
      /\ ended' = IF ended = "continued" THEN ended ELSE "finish"
      /\ UNCHANGED <<phoneSpeed, fifo, detected, failures, failed, hostVars>>
  BY DEF Finish, Step
<1>1. UNCHANGED <<host, hostSpeed, pending, newline, lines, chunk, terminator, block, queue,
                  expected_reset, stdout>>
  BY <1>0 DEF hostVars, parser
<1>2. ended = "continued" => failures > 0
  <2>1. SUFFICES ASSUME ended = "continued", AtReset(3) \/ AtReset(2) PROVE FALSE
    BY DEF Continued
  <2>2. Head(program) = ResetTest[10 - 3] \/ Head(program) = ResetTest[10 - 2]
    BY <2>1, ResetHead
  <2>3. Head(program) = ResetTest[7] \/ Head(program) = ResetTest[8]
    BY <2>2
  <2> QED BY <2>3, <1>0, ResetTestIs
<1>3. /\ s \in Seq({"plan", "newline", "PASS", "FAIL", "nul"})
      /\ failures # 0 => s \in Seq({"plan", "newline", "FAIL", "nul"})
  BY DEF Result
<1> HIDE DEF s
<1>4. ASSUME NEW S \in {Symbols, Symbols \ ResetCommands, Symbols \ {"EXPECT_RESET_clean"}}
      PROVE  s \in Seq(S) /\ {"junk", "newline", "nul"} \subseteq S
  <2>1. {"plan", "newline", "PASS", "FAIL", "nul", "junk"} \subseteq S
    BY DEF Symbols, ResetCommands
  <2> QED BY <2>1, <1>3, SeqMono
<1>5. /\ specials' \in 0 .. Specials
      /\ output' \in Seq(Symbols)
      /\ ErrorAhead => ErrorAhead'
      /\ \A S : {"junk", "newline", "nul"} \subseteq S /\ output \in Seq(S) /\ s \in Seq(S)
                        => output' \in Seq(S)
  BY <1>0, <1>4, EmitAdds
<1>6. program' \in Seq(Steps) /\ AtReset(0)' /\ \A n \in 1 .. 9 : ~AtReset(n)'
  BY <1>0, ResetTestIs DEF AtReset, IsRest
<1>7. Types' /\ Counted'
  BY <1>0, <1>5, <1>6, PhoneTypes DEF Types, EndedValues, FifoBytes, Counted
<1>8. Shape'
  BY <1>0, <1>6 DEF Shape, AtReset
<1>9. SameSpeed'
  BY <1>6 DEF SameSpeed
<1>10. Announced'
  BY <1>1, <1>6 DEF Announced
<1>11. Released'
  BY <1>0, <1>1, <1>6 DEF Released, Late
<1>12. Continued'
  BY <1>0, <1>2, <1>6 DEF Continued
<1>13. ErrorComes'
  <2>1. ended = "continued" => ~AtReset(3)
    <3>1. AtReset(3) => Head(program) = ResetTest[10 - 3]
      BY ResetHead
    <3> QED BY <3>1, <1>0, ResetTestIs
  <2> QED BY <2>1, <1>0, <1>1, <1>5 DEF ErrorComes
<1>14. CountStands'
  <2>1. Unparsed(Symbols \ {"EXPECT_RESET_clean"}) => Unparsed(Symbols \ {"EXPECT_RESET_clean"})'
    BY <1>1, <1>4, <1>5 DEF Unparsed
  <2> QED BY <2>1, <1>0, <1>1, <1>5 DEF CountStands
<1>15. PassIsHonest'
  <2>1. CASE failures = 0
    BY <2>1, <1>0, <1>2 DEF PassIsHonest, Honest, Counted
  <2>2. CASE failures # 0
    <3>1. ~Honest
      BY <1>0 DEF Honest
    <3>2. s \in Seq(Symbols \ {"PASS"}) /\ {"junk", "newline", "nul"} \subseteq Symbols \ {"PASS"}
      <4>1. {"plan", "newline", "FAIL", "nul", "junk"} \subseteq Symbols \ {"PASS"}
        BY DEF Symbols
      <4> QED BY <4>1, <2>2, <1>3, SeqMono
    <3> QED BY <3>1, <3>2, <1>1, <1>5 DEF PassIsHonest
  <2> QED BY <2>1, <2>2
<1> QED BY <1>7, <1>8, <1>9, <1>10, <1>11, <1>12, <1>13, <1>14, <1>15

\* No step of the phone breaks the invariant.
LEMMA PhoneKeeps ==
    ASSUME Inv, PhoneSteps \/ Crash
    PROVE  Inv'
<1>1. CASE PrintLine
  <2>1. Head(program) \in Commands \cup {"EXPECT_RESET", "ERROR"}
    BY <1>1 DEF PrintLine
  <2> QED BY <1>1, <2>1, PrintCommandKeeps, AnnounceKeeps, PrintErrorKeeps
<1>2. CASE Check
  BY <1>2, CheckKeeps, CheckFailKeeps
<1>3. CASE Crash
  BY <1>3, StopKeeps DEF Crash
<1> QED BY <1>1, <1>2, <1>3, SilentKeeps, NotifyReadyKeeps, DetectKeeps, FinishKeeps, ReleaseKeeps,
           ResetKeeps DEF PhoneSteps
-----------------------------------------------------------------------------
\* The steps of the host.

HostValues == {"reading", "lines", "executing", "observing", "done", "failed"}
Blocks == [open : BOOLEAN, commands : Seq(Commands \cup {"malformed"}), configuration : Speeds]

\* A step of the host leaves the phone alone, except its fifo.
LEMMA HostTypes ==
    ASSUME Types, UNCHANGED <<program, ended, phoneSpeed, detected, failures, failed, specials>>,
           fifo' \in Seq(FifoBytes), output' \in Seq(Symbols), host' \in HostValues, hostSpeed' \in Speeds,
           pending' \in Seq(Texts), newline' \in BOOLEAN, lines' \in Seq(Symbols \ {"nul"}),
           chunk' \in Seq(Symbols \ {"nul"}), terminator' \in BOOLEAN, block' \in Blocks,
           queue' \in Seq(Commands \cup {"malformed"}), expected_reset' \in ResetCommands \cup {"none"},
           stdout' \in [pass : BOOLEAN, open : Seq(Texts)]
    PROVE  Types'
BY DEF Types, HostValues, Blocks, FifoBytes

\* No result PASS is on its way.
NoPass ==
    /\ output \in Seq(Symbols \ {"PASS"})
    /\ chunk \in Seq(Symbols \ {"PASS"})
    /\ stdout.open \in Seq(Symbols \ {"PASS"})
    /\ ~stdout.pass

\* What has to be shown of a step of a host that does not observe yet: it adds nothing to what is to
\* be looked at, takes for an announcement only a line that is one, sends R only when it goes on to
\* observe, and changes its speed only if the phone does not run the reset test.
LEMMA HostStep ==
    ASSUME Inv, ~Late, Types', UNCHANGED <<program, ended, phoneSpeed, failures, failed>>,
           host' = "observing" => expected_reset' # "none",
           \A S : Unparsed(S) => Unparsed(S)',
           Unparsed(Symbols \ ResetCommands) /\ expected_reset = "none" => expected_reset' = "none",
           Unparsed(Symbols \ {"EXPECT_RESET_clean"}) /\ expected_reset # "EXPECT_RESET_clean"
                => expected_reset' # "EXPECT_RESET_clean",
           fifo \in Seq(NoRelease) => fifo' \in Seq(NoRelease) \/ Late',
           (\E n \in 2 .. 9 : AtReset(n)) =>
                hostSpeed' = hostSpeed /\ queue' \in Seq({"malformed"}) /\ ~block'.open,
           NoPass => NoPass'
    PROVE  Inv'
<1> USE DEF Inv
<1>1. \A n \in 0 .. 9 : AtReset(n)' <=> AtReset(n)
  BY DEF AtReset
<1>2. Shape' /\ Counted'
  BY DEF Shape, Counted, IsRest
<1>3. SameSpeed'
  BY <1>1 DEF SameSpeed
<1>4. Announced'
  BY <1>1 DEF Announced
<1>5. fifo \in Seq(NoRelease) /\ (\A n \in 2 .. 4 : ~AtReset(n)) /\ ended # "continued"
  BY DEF Released, NoRelease
<1>6. Released'
  BY <1>1, <1>5 DEF Released, NoRelease
<1>7. Continued'
  BY <1>1 DEF Continued
<1>8. ErrorComes'
  BY <1>5 DEF ErrorComes
<1>9. CountStands'
  BY DEF CountStands, Late
<1>10. PassIsHonest'
  BY DEF PassIsHonest, Honest, NoPass
<1> QED BY <1>2, <1>3, <1>4, <1>6, <1>7, <1>8, <1>9, <1>10

\* boot.py ends with an error.
LEMMA FailKeeps ==
    ASSUME Inv, ~Late, Fail, UNCHANGED <<phone, specials>>, output' \in Seq(Symbols),
           \A S : output \in Seq(S) => output' \in Seq(S)
    PROVE  Inv'
<1>0. Types /\ Inv
  BY DEF Inv
<1>1. /\ UNCHANGED <<program, ended, phoneSpeed, fifo, detected, failures, failed, specials, hostSpeed,
                     pending, newline, lines, chunk, terminator, block, queue, expected_reset, stdout>>
      /\ host' = "failed"
  BY DEF Fail, phone, parser
<1>2. Types'
  BY <1>0, <1>1, HostTypes DEF Types, HostValues, Blocks, FifoBytes
<1>3. \A S : Unparsed(S) => Unparsed(S)'
  BY <1>1 DEF Unparsed
<1>4. NoPass => NoPass'
  BY <1>1 DEF NoPass
<1>5. (\E n \in 2 .. 9 : AtReset(n)) =>
                hostSpeed' = hostSpeed /\ queue' \in Seq({"malformed"}) /\ ~block'.open
  BY <1>0, <1>1 DEF Inv, SameSpeed
<1> QED BY <1>1, <1>2, <1>3, <1>4, <1>5, HostStep DEF Late

\* A chunk adds nothing to what the phone has printed.
LEMMA ReadChunkKeeps ==
    ASSUME Inv, ReadChunk
    PROVE  Inv'
<1>0. Types /\ Inv /\ ~Late
  BY DEF Inv, ReadChunk, Late
<1>1. PICK n \in (1 .. Len(output)) \cap (1 .. MaxChunk) :
         LET s == SubSeq(output, 1, n)
             text == WithPending(Before(s))
         IN  /\ output' = SubSeq(output, n + 1, Len(output))
             /\ \/ NulInLine(s) /\ Fail
                \/ /\ ~NulInLine(s)
                   /\ host' = "lines"
                   /\ terminator' = (NulAt(s) # 0)
                   /\ newline' = IF Before(s) = <<>> THEN newline ELSE Last(Before(s)) = "newline"
                   /\ lines' = CompleteLines(text)
                   /\ pending' = OpenLine(text)
                   /\ chunk' = Before(s)
                   /\ expected_reset' = "none"
                   /\ UNCHANGED <<hostSpeed, block, queue, stdout>>
  BY DEF ReadChunk
<1> DEFINE s == SubSeq(output, 1, n)
           text == WithPending(Before(s))
<1>2. UNCHANGED <<phone, specials>>
  BY DEF ReadChunk
<1>3. ASSUME NEW S, output \in Seq(S) PROVE s \in Seq(S) /\ output' \in Seq(S)
  BY <1>1, <1>3, SeqPart
<1>4. output \in Seq(Symbols) /\ pending \in Seq(Texts) /\ pending \in Seq(Symbols \ {"nul"})
  BY <1>0, SeqMono DEF Types, Texts
<1>5. s \in Seq(Symbols) /\ output' \in Seq(Symbols)
  BY <1>3, <1>4
<1>6. CASE Fail
  BY <1>0, <1>2, <1>3, <1>5, <1>6, FailKeeps
<1>7. CASE ~Fail
  <2>1. /\ host' = "lines"
        /\ terminator' = (NulAt(s) # 0)
        /\ newline' = IF Before(s) = <<>> THEN newline ELSE Last(Before(s)) = "newline"
        /\ lines' = CompleteLines(text)
        /\ pending' = OpenLine(text)
        /\ chunk' = Before(s)
        /\ expected_reset' = "none"
        /\ UNCHANGED <<hostSpeed, block, queue, stdout>>
    BY <1>1, <1>7
  <2>2. UNCHANGED <<program, ended, phoneSpeed, fifo, detected, failures, failed, specials>>
    BY <1>2 DEF phone
  <2> HIDE DEF s
  <2>3. Before(s) \in Seq(Symbols \ {"nul"})
    BY <1>5, CleanParts
  <2>4. text = pending \o Before(s)
    BY DEF WithPending
  <2>5. text \in Seq(Symbols \ {"nul"})
    BY <1>4, <2>3, <2>4, ConcatProperties
  <2>6. ASSUME NEW S, output \in Seq(S), pending \in Seq(S) PROVE lines' \in Seq(S) /\ pending' \in Seq(S)
    <3>1. Before(s) \in Seq(S)
      BY <2>6, <1>3, Parts
    <3>2. text \in Seq(S)
      BY <2>4, <2>6, <3>1, ConcatProperties
    <3> HIDE DEF text
    <3> QED BY <2>1, <3>2, Parts
  <2> HIDE DEF text
  <2>7. text \in Seq(Symbols)
    BY <2>5, SeqMono
  <2>8. OpenLine(text) \in Seq(Texts)
    <3>1. OpenLine(text) \in Seq(Symbols \ {"newline"}) /\ OpenLine(text) \in Seq(Symbols \ {"nul"})
      BY <2>5, <2>7, CleanParts, Parts
    <3> QED BY <3>1 DEF Texts
  <2>9. CompleteLines(text) \in Seq(Symbols \ {"nul"})
    BY <2>5, Parts
  <2>10. newline' \in BOOLEAN /\ terminator' \in BOOLEAN
    BY <2>1, <1>0 DEF Types
  <2>11. Types'
    BY <1>0, <1>5, <2>1, <2>2, <2>3, <2>8, <2>9, <2>10, HostTypes DEF Types, HostValues, Blocks, FifoBytes
  <2>12. \A S : Unparsed(S) => Unparsed(S)'
    BY <1>3, <2>6 DEF Unparsed
  <2>13. NoPass => NoPass'
    <3>1. output \in Seq(Symbols \ {"PASS"}) => Before(s) \in Seq(Symbols \ {"PASS"})
      BY <1>3, Parts
    <3> QED BY <3>1, <1>3, <2>1 DEF NoPass
  <2>14. (\E k \in 2 .. 9 : AtReset(k)) =>
                hostSpeed' = hostSpeed /\ queue' \in Seq({"malformed"}) /\ ~block'.open
    BY <1>0, <2>1 DEF Inv, SameSpeed
  <2> QED BY <1>0, <2>1, <2>2, <2>11, <2>12, <2>13, <2>14, HostStep
<1> QED BY <1>6, <1>7
\* A command of a line is one that the line holds.
LEMMA CommandIs ==
    ASSUME NEW S, NEW l \in Seq(S)
    PROVE  /\ CommandOf(l) \in Commands \cup {"none", "malformed"}
           /\ CommandOf(l) \in S \cup {"none", "malformed"}
<1>1. CASE l = <<>> \/ Head(l) \notin Commands
  BY <1>1 DEF CommandOf
<1>2. CASE l # <<>> /\ Head(l) \in Commands
  <2>1. Head(l) \in S
    BY <1>2
  <2> QED BY <1>2, <2>1 DEF CommandOf
<1> QED BY <1>1, <1>2

\* What a step at a line starts from, and what becomes of the lines
LEMMA LineTaken ==
    ASSUME Inv, NEW c, TakeLine(c)
    PROVE  /\ ~Late
           /\ UNCHANGED <<program, ended, phoneSpeed, fifo, detected, failures, failed, output, specials>>
           /\ c \in Commands \cup {"none", "malformed"}
           /\ \A S : lines \in Seq(S) => c \in S \cup {"none", "malformed"}
           /\ \A S : lines \in Seq(S) => OtherLines(lines) \in Seq(S)
<1>1. host = "lines" /\ c = CommandOf(FirstLine(lines)) /\ UNCHANGED <<phone, line>>
  BY DEF TakeLine
<1>2. lines \in Seq(Symbols \ {"nul"})
  BY DEF Inv, Types
<1>3. \A S : lines \in Seq(S) => FirstLine(lines) \in Seq(S) /\ OtherLines(lines) \in Seq(S)
  BY Parts
<1>4. \A S : lines \in Seq(S) => CommandOf(FirstLine(lines)) \in S \cup {"none", "malformed"}
  BY <1>3, CommandIs
<1>5. CommandOf(FirstLine(lines)) \in Commands \cup {"none", "malformed"}
  BY <1>2, <1>3, CommandIs
<1>6. ~Late
  BY <1>1 DEF Late
<1>7. UNCHANGED <<program, ended, phoneSpeed, fifo, detected, failures, failed, output, specials>>
  BY <1>1 DEF phone, line
<1> QED BY <1>1, <1>3, <1>4, <1>5, <1>6, <1>7

\* A line that is dealt with: what the command may change.
LEMMA LineStep ==
    ASSUME Inv, NEW c, TakeLine(c), NextLine,
           host' \in {"lines", "executing"}, block' \in Blocks, queue' \in Seq(Commands \cup {"malformed"}),
           expected_reset' = expected_reset \/ (c \in ResetCommands /\ expected_reset' = c),
           (\E n \in 2 .. 9 : AtReset(n)) => queue' \in Seq({"malformed"}) /\ ~block'.open
    PROVE  Inv'
<1>0. Types /\ Inv
  BY DEF Inv
<1>1. /\ ~Late
      /\ UNCHANGED <<program, ended, phoneSpeed, fifo, detected, failures, failed, output, specials>>
      /\ \A S : lines \in Seq(S) => c \in S \cup {"none", "malformed"}
      /\ \A S : lines \in Seq(S) => OtherLines(lines) \in Seq(S)
  BY LineTaken
<1>2. lines' = OtherLines(lines) /\ UNCHANGED <<hostSpeed, pending, newline, chunk, terminator, stdout>>
  BY DEF NextLine
<1>3. Types'
  BY <1>0, <1>1, <1>2, HostTypes DEF Types, HostValues, Blocks, FifoBytes
<1>4. \A S : Unparsed(S) => Unparsed(S)'
  BY <1>1, <1>2 DEF Unparsed
<1>5. NoPass => NoPass'
  BY <1>1, <1>2 DEF NoPass
<1>6. Unparsed(Symbols \ ResetCommands) /\ expected_reset = "none" => expected_reset' = "none"
  <2>1. lines \in Seq(Symbols \ ResetCommands) => c \in (Symbols \ ResetCommands) \cup {"none", "malformed"}
    BY <1>1
  <2> QED BY <2>1 DEF Unparsed, ResetCommands
<1>7. Unparsed(Symbols \ {"EXPECT_RESET_clean"}) /\ expected_reset # "EXPECT_RESET_clean"
                => expected_reset' # "EXPECT_RESET_clean"
  <2>1. lines \in Seq(Symbols \ {"EXPECT_RESET_clean"})
            => c \in (Symbols \ {"EXPECT_RESET_clean"}) \cup {"none", "malformed"}
    BY <1>1
  <2> QED BY <2>1 DEF Unparsed
<1> QED BY <1>1, <1>2, <1>3, <1>4, <1>5, <1>6, <1>7, HostStep

\* In the reset test a line is none or an announcement, or makes the host fail.
LEMMA ResetLine ==
    ASSUME Inv, NEW c, TakeLine(c), NEW n \in 2 .. 9, AtReset(n)
    PROVE  /\ c \in ResetCommands \cup {"none", "malformed"}
           /\ queue \in Seq({"malformed"}) /\ ~block.open
<1>1. lines \in Seq(ResetSymbols) /\ queue \in Seq({"malformed"}) /\ ~block.open
  BY DEF Inv, SameSpeed, Unparsed
<1>2. c \in ResetSymbols \cup {"none", "malformed"} /\ c \in Commands \cup {"none", "malformed"}
  BY <1>1, LineTaken
<1> QED BY <1>1, <1>2 DEF ResetSymbols, Commands, Sends

\* Every way to deal with a line
LEMMA LineKeeps ==
    ASSUME Inv, SkipLine \/ RefuseLine \/ BeginBlock \/ EndBlock \/ ExpectReset \/ OtherCommand
    PROVE  Inv'
<1>0. /\ Types /\ Inv /\ block \in Blocks /\ queue \in Seq(Commands \cup {"malformed"})
      /\ host \in HostValues /\ hostSpeed \in Speeds
  BY DEF Inv, Types, Blocks, HostValues
<1>1. CASE SkipLine
  <2>1. TakeLine("none") /\ NextLine /\ UNCHANGED <<host, block, queue, expected_reset>>
    BY <1>1 DEF SkipLine
  <2>2. host' \in {"lines", "executing"}
    BY <2>1 DEF TakeLine
  <2>3. (\E n \in 2 .. 9 : AtReset(n)) => queue' \in Seq({"malformed"}) /\ ~block'.open
    BY <2>1, ResetLine
  <2> QED BY <1>0, <2>1, <2>2, <2>3, LineStep
<1>2. CASE RefuseLine
  <2>1. PICK c \in Commands : TakeLine(c) /\ Fail
    BY <1>2 DEF RefuseLine
  <2>2. ~Late /\ UNCHANGED <<phone, specials>> /\ output' = output
    <3>1. ~Late
      BY <2>1, LineTaken
    <3> QED BY <2>1, <3>1 DEF TakeLine, line
  <2> QED BY <1>0, <2>1, <2>2, FailKeeps DEF Types
<1>3. CASE BeginBlock
  <2>1. /\ TakeLine("BEGIN") /\ NextLine /\ UNCHANGED <<host, queue, expected_reset>>
        /\ block' = [open |-> TRUE, commands |-> <<>>, configuration |-> hostSpeed]
    BY <1>3 DEF BeginBlock
  <2>2. host' \in {"lines", "executing"}
    BY <2>1 DEF TakeLine
  <2>3. \A n \in 2 .. 9 : ~AtReset(n)
    BY <2>1, ResetLine DEF ResetCommands
  <2>4. block' \in Blocks
    BY <1>0, <2>1 DEF Blocks
  <2> QED BY <1>0, <2>1, <2>2, <2>3, <2>4, LineStep
<1>4. CASE EndBlock
  <2>1. /\ TakeLine("END") /\ NextLine /\ UNCHANGED <<block, expected_reset>>
        /\ queue' = block.commands /\ host' = "executing"
    BY <1>4 DEF EndBlock
  <2>2. \A n \in 2 .. 9 : ~AtReset(n)
    BY <2>1, ResetLine DEF ResetCommands
  <2>3. queue' \in Seq(Commands \cup {"malformed"})
    BY <1>0, <2>1 DEF Blocks
  <2> QED BY <1>0, <2>1, <2>2, <2>3, LineStep
<1>5. CASE ExpectReset
  <2>1. PICK c \in ResetCommands : /\ TakeLine(c) /\ NextLine
                                   /\ expected_reset' = c /\ UNCHANGED <<host, block, queue>>
    BY <1>5 DEF ExpectReset
  <2>2. host' \in {"lines", "executing"}
    BY <2>1 DEF TakeLine
  <2>3. (\E n \in 2 .. 9 : AtReset(n)) => queue' \in Seq({"malformed"}) /\ ~block'.open
    BY <2>1, ResetLine
  <2> QED BY <1>0, <2>1, <2>2, <2>3, LineStep
<1>6. CASE OtherCommand
  <2>1. PICK c \in (Commands \cup {"malformed"}) \ ({"BEGIN", "END"} \cup ResetCommands) :
          /\ TakeLine(c)
          /\ \/ /\ ~block.open
                /\ queue' = <<c>>
                /\ host' = "executing"
                /\ UNCHANGED block
             \/ /\ block.open
                /\ block' = [block EXCEPT !.commands = Append(@, c)]
                /\ UNCHANGED <<host, queue>>
          /\ NextLine
          /\ UNCHANGED expected_reset
    BY <1>6 DEF OtherCommand
  <2>2. \A n \in 2 .. 9 : AtReset(n) => c = "malformed" /\ queue \in Seq({"malformed"}) /\ ~block.open
    BY <2>1, ResetLine DEF Commands, Sends
  <2>3. CASE ~block.open
    <3>1. queue' = <<c>> /\ host' = "executing" /\ block' = block
      BY <2>1, <2>3
    <3>2. queue' \in Seq(Commands \cup {"malformed"}) /\ block' \in Blocks
      BY <1>0, <2>1, <3>1
    <3>3. (\E n \in 2 .. 9 : AtReset(n)) => queue' \in Seq({"malformed"}) /\ ~block'.open
      BY <2>2, <3>1
    <3> QED BY <1>0, <2>1, <3>1, <3>2, <3>3, LineStep
  <2>4. CASE block.open
    <3>1. block' = [block EXCEPT !.commands = Append(@, c)] /\ UNCHANGED <<host, queue>>
      BY <2>1, <2>4
    <3>2. \A n \in 2 .. 9 : ~AtReset(n)
      BY <2>2, <2>4
    <3>3. Append(block.commands, c) \in Seq(Commands \cup {"malformed"})
      BY <1>0, <2>1 DEF Blocks
    <3>4. block' \in Blocks
      BY <1>0, <3>1, <3>3 DEF Blocks
    <3>5. host' \in {"lines", "executing"}
      BY <2>1, <3>1 DEF TakeLine
    <3> QED BY <1>0, <2>1, <3>1, <3>2, <3>4, <3>5, LineStep
  <2> QED BY <2>3, <2>4
<1> QED BY <1>1, <1>2, <1>3, <1>4, <1>5, <1>6
\* A command that is executed: the queue gets shorter, the rest of the parser stays.
LEMMA CommandStep ==
    ASSUME Inv, NEW c, TakeCommand(c), NextCommand,
           UNCHANGED <<program, ended, phoneSpeed, detected, failures, failed, specials>>,
           fifo' \in Seq(FifoBytes), fifo \in Seq(NoRelease) => fifo' \in Seq(NoRelease),
           hostSpeed' \in Speeds, c \in Commands \ {"BAUDRATE", "RESTORE"} => hostSpeed' = hostSpeed,
           c \in Commands,
           \A S : output \in Seq(S) => output' \in Seq(S)
    PROVE  Inv'
<1>0. Types /\ Inv
  BY DEF Inv
<1>1. host = "executing" /\ queue # <<>> /\ c = Head(queue) /\ ~Late
  BY DEF TakeCommand, Late
<1>2. /\ queue' = Tail(queue)
      /\ UNCHANGED <<host, pending, newline, lines, chunk, terminator, block, expected_reset, stdout>>
  BY DEF NextCommand, parser
<1>3. queue' \in Seq(Commands \cup {"malformed"}) /\ output' \in Seq(Symbols)
  BY <1>0, <1>1, <1>2 DEF Types
<1>4. Types'
  BY <1>0, <1>2, <1>3, HostTypes DEF Types, HostValues, Blocks
<1>5. \A n \in 2 .. 9 : ~AtReset(n)
  <2>1. SUFFICES ASSUME NEW n \in 2 .. 9, AtReset(n) PROVE FALSE
    OBVIOUS
  <2>2. queue \in Seq({"malformed"})
    BY <1>0, <2>1 DEF Inv, SameSpeed
  <2>3. c = "malformed"
    BY <1>1, <2>2
  <2> QED BY <2>3 DEF Commands, Sends
<1>6. \A S : Unparsed(S) => Unparsed(S)'
  BY <1>2 DEF Unparsed
<1>7. NoPass => NoPass'
  BY <1>2 DEF NoPass
<1> QED BY <1>0, <1>1, <1>2, <1>4, <1>5, <1>6, <1>7, HostStep DEF Late

\* What the host sends to the phone, unless it is R
LEMMA TransmitAdds ==
    ASSUME Types, NEW x \in NoRelease, Transmit(x)
    PROVE  fifo' \in Seq(FifoBytes) /\ (fifo \in Seq(NoRelease) => fifo' \in Seq(NoRelease))
<1>1. fifo' = Append(fifo, x) \/ fifo' = Append(fifo, "junk")
  BY DEF Transmit
<1>2. x \in FifoBytes /\ "junk" \in FifoBytes /\ "junk" \in NoRelease /\ fifo \in Seq(FifoBytes)
  BY DEF NoRelease, FifoBytes, Types
<1> QED BY <1>1, <1>2

\* Every way to execute a command
LEMMA CommandKeeps ==
    ASSUME Inv, SendData \/ ExpectReady \/ ChangeSpeed \/ RefuseCommand
    PROVE  Inv'
<1>0. Types /\ Inv /\ fifo \in Seq(FifoBytes) /\ hostSpeed \in Speeds /\ output \in Seq(Symbols)
  BY DEF Inv, Types, FifoBytes
<1>1. CASE SendData
  <2>1. PICK c \in Sends :
          /\ TakeCommand(c)
          /\ Transmit(IF c = "SEND_trigger" THEN "trigger" ELSE "frame")
          /\ NextCommand
          /\ UNCHANGED <<program, ended, phoneSpeed, detected, failures, failed, line, hostSpeed>>
    BY <1>1 DEF SendData
  <2>2. PICK x \in NoRelease : Transmit(x)
    BY <2>1 DEF NoRelease
  <2>3. fifo' \in Seq(FifoBytes) /\ (fifo \in Seq(NoRelease) => fifo' \in Seq(NoRelease))
    BY <1>0, <2>2, TransmitAdds
  <2>4. output' = output /\ specials' = specials
    BY <2>1 DEF line
  <2>5. c \in Commands
    BY <2>1 DEF Commands
  <2> QED BY <1>0, <2>1, <2>3, <2>4, <2>5, CommandStep
<1>2. CASE ExpectReady
  <2>1. TakeCommand("EXPECT_ready") /\ UNCHANGED <<phone, specials>> /\ ~Late
    BY <1>2 DEF ExpectReady, TakeCommand, Late
  <2>2. output' = output \/ (output # <<>> /\ output' = Tail(output))
    BY <1>2 DEF ExpectReady
  <2>3. \A S : output \in Seq(S) => output' \in Seq(S)
    BY <2>2
  <2>4. CASE Fail
    BY <1>0, <2>1, <2>3, <2>4, FailKeeps
  <2>5. CASE ~Fail
    <3>1. NextCommand /\ hostSpeed' = hostSpeed
      BY <1>2, <2>5 DEF ExpectReady
    <3>2. UNCHANGED <<program, ended, phoneSpeed, fifo, detected, failures, failed, specials>>
      BY <2>1 DEF phone
    <3>3. "EXPECT_ready" \in Commands
      BY DEF Commands
    <3> QED BY <1>0, <2>1, <2>3, <3>1, <3>2, <3>3, CommandStep
  <2> QED BY <2>4, <2>5
<1>3. CASE ChangeSpeed
  <2>1. PICK c \in {"BAUDRATE", "RESTORE"} : TakeCommand(c)
    BY <1>3 DEF ChangeSpeed
  <2>2. NextCommand /\ UNCHANGED <<phone, line>>
    BY <1>3 DEF ChangeSpeed
  <2>3. hostSpeed' \in Speeds
    BY <1>0, <1>3 DEF ChangeSpeed, Types, Speeds
  <2>4. UNCHANGED <<program, ended, phoneSpeed, fifo, detected, failures, failed, output, specials>>
    BY <2>2 DEF phone, line
  <2>5. c \in Commands
    BY <2>1 DEF Commands
  <2> QED BY <1>0, <2>1, <2>2, <2>3, <2>4, <2>5, CommandStep
<1>4. CASE RefuseCommand
  <2>1. Fail /\ UNCHANGED <<phone, line>> /\ ~Late
    BY <1>4 DEF RefuseCommand, TakeCommand, Late
  <2>2. UNCHANGED <<phone, specials>> /\ output' = output
    BY <2>1 DEF line
  <2> QED BY <1>0, <2>1, <2>2, FailKeeps
<1> QED BY <1>1, <1>2, <1>3, <1>4

\* After the last command the host goes on with the lines.
LEMMA CommandsDoneKeeps ==
    ASSUME Inv, CommandsDone
    PROVE  Inv'
<1>0. Types /\ Inv /\ ~Late
  BY DEF Inv, CommandsDone, Late
<1>1. /\ host' = "lines" /\ block' = NoBlock
      /\ UNCHANGED <<program, ended, phoneSpeed, fifo, detected, failures, failed, output, specials,
                     hostSpeed, pending, newline, lines, chunk, terminator, expected_reset, queue, stdout>>
  BY DEF CommandsDone, phone, line
<1>2. NoBlock \in Blocks /\ ~NoBlock.open
  BY DEF NoBlock, Blocks, Speeds
<1>3. Types'
  BY <1>0, <1>1, <1>2, HostTypes DEF Types, HostValues, FifoBytes
<1>4. (\E n \in 2 .. 9 : AtReset(n)) => queue' \in Seq({"malformed"}) /\ ~block'.open
  BY <1>0, <1>1, <1>2 DEF Inv, SameSpeed
<1>5. (\A S : Unparsed(S) => Unparsed(S)') /\ (NoPass => NoPass')
  BY <1>1 DEF Unparsed, NoPass
<1> QED BY <1>0, <1>1, <1>3, <1>4, <1>5, HostStep

\* What is written keeps the verdict's type, and is no PASS if nothing of it is.
LEMMA WriteIs ==
    ASSUME Types, NEW s \in Seq(Symbols \ {"nul"}), Write(s)
    PROVE  /\ stdout' \in [pass : BOOLEAN, open : Seq(Texts)]
           /\ /\ stdout.open \in Seq(Symbols \ {"PASS"})
              /\ ~stdout.pass
              /\ s \in Seq(Symbols \ {"PASS"})
              => stdout'.open \in Seq(Symbols \ {"PASS"}) /\ ~stdout'.pass
<1> DEFINE text == stdout.open \o s
           end == LastText(text)
<1>1. /\ stdout.open \in Seq(Texts) /\ stdout.open \in Seq(Symbols \ {"nul"}) /\ stdout.pass \in BOOLEAN
  BY SeqMono DEF Types, Texts
<1>2. text \in Seq(Symbols \ {"nul"}) /\ text \in Seq(Symbols)
  <2>1. text \in Seq(Symbols \ {"nul"})
    BY <1>1, ConcatProperties
  <2> HIDE DEF text
  <2> QED BY <2>1, SeqMono
<1>3. /\ stdout' = [pass |-> IF end = 0 THEN stdout.pass ELSE IsPass(text, end), open |-> OpenLine(text)]
  BY DEF Write
<1>4. /\ stdout.open \in Seq(Symbols \ {"PASS"}) /\ s \in Seq(Symbols \ {"PASS"})
      => text \in Seq(Symbols \ {"PASS"})
  BY ConcatProperties
<1> HIDE DEF text
<1>5. OpenLine(text) \in Seq(Texts)
  <2>1. OpenLine(text) \in Seq(Symbols \ {"newline"}) /\ OpenLine(text) \in Seq(Symbols \ {"nul"})
    BY <1>2, CleanParts, Parts
  <2> QED BY <2>1 DEF Texts
<1>6. end \in 0 .. Len(text)
  <2> DEFINE full == CompleteLines(text)
             I == {i \in 1 .. Len(full) : full[i] # "newline"}
  <2>1. end = IF I # {} THEN Max(I) ELSE 0
    BY DEF LastText, SelectLastInSeq
  <2>2. LastNewline(text) \in 0 .. Len(text) /\ Len(text) \in Nat
    BY <1>2, Positions
  <2>3. Len(full) \in Nat /\ Len(full) <= Len(text)
    BY <1>2, <2>2, SeqPart DEF CompleteLines
  <2> HIDE DEF full
  <2>4. I # {} => Max(I) \in I
    BY <2>3, MaxInSet
  <2> QED BY <2>1, <2>2, <2>3, <2>4
<1> HIDE DEF end
<1>7. IsPass(text, end) \in BOOLEAN /\ (IsPass(text, end) => text[end] = "PASS")
  BY DEF IsPass
<1>8. text \in Seq(Symbols \ {"PASS"}) /\ end # 0 => ~IsPass(text, end)
  BY <1>6, <1>7, ElementOfSeq
<1>9. text \in Seq(Symbols \ {"PASS"}) => OpenLine(text) \in Seq(Symbols \ {"PASS"})
  BY Parts
<1>10. stdout'.open = OpenLine(text) /\ stdout'.pass = IF end = 0 THEN stdout.pass ELSE IsPass(text, end)
  BY <1>3
<1>11. stdout' \in [pass : BOOLEAN, open : Seq(Texts)]
  BY <1>1, <1>3, <1>5, <1>7
<1> QED BY <1>4, <1>8, <1>9, <1>10, <1>11
\* The end of a chunk: it is written, and the host reads on, ends or begins to observe.
LEMMA EndOfChunkKeeps ==
    ASSUME Inv, EndOfChunk
    PROVE  Inv'
<1>0. Types /\ Inv /\ ~Late
  BY DEF Inv, EndOfChunk, Late
<1>1. output' = output /\ specials' = specials
  BY DEF EndOfChunk, line
<1>2. CASE terminator /\ block.open /\ Fail /\ UNCHANGED phone
  BY <1>0, <1>1, <1>2, FailKeeps DEF Types
<1>3. CASE ~(terminator /\ block.open /\ Fail /\ UNCHANGED phone)
  <2>1. /\ Write(chunk)
        /\ chunk' = <<>>
        /\ UNCHANGED <<hostSpeed, pending, newline, lines, terminator, block, expected_reset, queue>>
        /\ \/ host' \in {"done", "reading"} /\ UNCHANGED phone
           \/ /\ expected_reset # "none"
              /\ Transmit("R")
              /\ host' = "observing"
              /\ UNCHANGED <<program, ended, phoneSpeed, detected, failures, failed>>
    BY <1>3 DEF EndOfChunk
  <2>2. UNCHANGED <<program, ended, phoneSpeed, detected, failures, failed>>
    BY <2>1 DEF phone
  <2>3. /\ fifo' \in Seq(FifoBytes)
        /\ fifo \in Seq(NoRelease) => fifo' \in Seq(NoRelease) \/ Late'
        /\ host' \in HostValues
        /\ host' = "observing" => expected_reset' # "none"
    <3>1. CASE host' \in {"done", "reading"} /\ UNCHANGED phone
      BY <1>0, <3>1 DEF phone, Types, FifoBytes, HostValues
    <3>2. CASE Transmit("R") /\ host' = "observing" /\ expected_reset # "none"
      <4>1. fifo' = Append(fifo, "R") \/ fifo' = Append(fifo, "junk")
        BY <3>2 DEF Transmit
      <4>2. fifo \in Seq(FifoBytes) /\ "R" \in FifoBytes /\ "junk" \in FifoBytes
        BY <1>0 DEF Types, FifoBytes
      <4>3. fifo' \in Seq(FifoBytes)
        BY <4>1, <4>2
      <4> QED BY <2>1, <3>2, <4>3 DEF Late, HostValues
    <3> QED BY <2>1, <3>1, <3>2
  <2>4. chunk \in Seq(Symbols \ {"nul"})
    BY <1>0 DEF Types
  <2>5. stdout' \in [pass : BOOLEAN, open : Seq(Texts)]
    BY <1>0, <2>1, <2>4, WriteIs
  <2>6. chunk' \in Seq(Symbols \ {"nul"}) /\ chunk' \in Seq(Symbols \ {"PASS"})
    BY <2>1
  <2>7. Types'
    BY <1>0, <1>1, <2>1, <2>2, <2>3, <2>5, <2>6, HostTypes DEF Types, Blocks
  <2>8. \A S : Unparsed(S) => Unparsed(S)'
    BY <1>1, <2>1 DEF Unparsed
  <2>9. NoPass => NoPass'
    BY <1>0, <1>1, <2>1, <2>4, <2>6, WriteIs DEF NoPass
  <2>10. (\E n \in 2 .. 9 : AtReset(n)) =>
                hostSpeed' = hostSpeed /\ queue' \in Seq({"malformed"}) /\ ~block'.open
    BY <1>0, <2>1 DEF Inv, SameSpeed
  <2> QED BY <1>0, <2>1, <2>2, <2>3, <2>7, <2>8, <2>9, <2>10, HostStep
<1> QED BY <1>2, <1>3

\* The host observes: an error line makes it fail, any other symbol is passed over.
LEMMA ObserveKeeps ==
    ASSUME Inv, Observe
    PROVE  Inv'
<1> USE DEF Inv
<1>0. /\ host = "observing" /\ output # <<>> /\ output' = Tail(output)
      /\ \/ Head(output) = "ERROR" /\ host' = "failed"
         \/ Head(output) # "ERROR" /\ host' = host
      /\ UNCHANGED <<hostSpeed, pending, newline, lines, chunk, terminator, block, queue, expected_reset, stdout>>
      /\ UNCHANGED <<program, ended, phoneSpeed, fifo, detected, failures, failed, specials>>
  BY DEF Observe, Fail, phone, hostVars, parser
<1>1. output \in Seq(Symbols) /\ \A S : output \in Seq(S) => output' \in Seq(S)
  BY <1>0 DEF Types
<1>2. Types'
  BY <1>0, <1>1, HostTypes DEF Types, HostValues, Blocks, FifoBytes
<1>3. \A n \in 0 .. 9 : AtReset(n)' <=> AtReset(n)
  BY <1>0 DEF AtReset
<1>4. \A S : Unparsed(S) => Unparsed(S)'
  BY <1>0, <1>1 DEF Unparsed
<1>5. ErrorAhead /\ host' = "observing" => ErrorAhead'
  <2>1. SUFFICES ASSUME ErrorAhead, host' = "observing" PROVE ErrorAhead'
    OBVIOUS
  <2> DEFINE l == Len(output)
  <2>2. l \in Nat /\ l > 0 /\ Len(output') = l - 1 /\ \A i \in 1 .. l - 1 : output'[i] = output[i + 1]
    BY <1>0, <1>1
  <2>3. PICK i \in 1 .. l : output[i] = "ERROR"
    BY <2>1 DEF ErrorAhead
  <2>4. i # 1
    BY <1>0, <1>1, <2>1, <2>3
  <2> HIDE DEF l
  <2>5. i - 1 \in 1 .. l - 1
    BY <2>2, <2>3, <2>4
  <2>6. output'[i - 1] = output[(i - 1) + 1] /\ (i - 1) + 1 = i
    BY <2>2, <2>5
  <2> QED BY <2>2, <2>3, <2>5, <2>6 DEF ErrorAhead
<1>6. Shape' /\ Counted'
  BY <1>0 DEF Shape, Counted, IsRest
<1>7. SameSpeed'
  BY <1>0, <1>3, <1>4 DEF SameSpeed
<1>8. Announced'
  BY <1>0, <1>3, <1>4 DEF Announced
<1>9. Released' /\ Continued'
  BY <1>0, <1>3 DEF Released, Late, Continued
<1>10. ErrorComes'
  BY <1>0, <1>3, <1>5 DEF ErrorComes
<1>11. CountStands'
  BY <1>0, <1>4, <1>5 DEF CountStands
<1>12. PassIsHonest'
  BY <1>0, <1>1 DEF PassIsHonest, Honest
<1> QED BY <1>2, <1>6, <1>7, <1>8, <1>9, <1>10, <1>11, <1>12

\* The result that boot.py writes is PASS only after a reset that came, in a test without a failure.
LEMMA ObservedKeeps ==
    ASSUME Inv, Observed
    PROVE  Inv'
<1> USE DEF Inv
<1> DEFINE clean == CleanSoFar(expected_reset)
           s == <<"ok", "newline">> \o Result(clean)
<1>0. /\ host = "observing" /\ output = <<>> /\ program = <<>> /\ host' = "done" /\ Write(s)
      /\ UNCHANGED <<hostSpeed, pending, newline, lines, chunk, terminator, block, queue, expected_reset>>
      /\ UNCHANGED <<program, ended, phoneSpeed, fifo, detected, failures, failed, output, specials>>
  BY DEF Observed, phone, line, parser
<1>1. /\ s \in Seq({"ok", "newline", "plan", "PASS", "FAIL"})
      /\ ~clean => s \in Seq({"ok", "newline", "plan", "FAIL"})
  BY DEF Result
<1> HIDE DEF s
<1>2. s \in Seq(Symbols \ {"nul"})
  <2>1. {"ok", "newline", "plan", "PASS", "FAIL"} \subseteq Symbols \ {"nul"}
    BY DEF Symbols
  <2> QED BY <1>1, <2>1, SeqMono
<1>3. ~clean => s \in Seq(Symbols \ {"PASS"})
  <2>1. {"ok", "newline", "plan", "FAIL"} \subseteq Symbols \ {"PASS"}
    BY DEF Symbols
  <2> QED BY <1>1, <2>1, SeqMono
<1>4. stdout' \in [pass : BOOLEAN, open : Seq(Texts)]
  BY <1>0, <1>2, WriteIs
<1>5. Types'
  BY <1>0, <1>4, HostTypes DEF Types, HostValues, Blocks, FifoBytes
<1>6. \A n \in 0 .. 9 : AtReset(n)' <=> AtReset(n)
  BY <1>0 DEF AtReset
<1>7. \A S : Unparsed(S)' <=> Unparsed(S)
  BY <1>0 DEF Unparsed
<1>8. Shape' /\ Counted'
  BY <1>0 DEF Shape, Counted, IsRest
<1>9. SameSpeed' /\ Announced' /\ Released' /\ Continued' /\ ErrorComes' /\ CountStands'
  BY <1>0, <1>6, <1>7 DEF SameSpeed, Announced, Released, Late, Continued, ErrorComes, CountStands
<1>10. ~ErrorAhead
  BY <1>0 DEF ErrorAhead
<1>11. PassIsHonest'
  <2>1. CASE clean
    <3>1. expected_reset = "EXPECT_RESET_clean"
      BY <2>1 DEF CleanSoFar
    <3>2. ~failed
      BY <1>0, <1>10, <3>1 DEF CountStands
    <3>3. ~AtReset(3)
      BY <1>0 DEF AtReset
    <3>4. ended # "continued"
      BY <1>0, <1>10, <3>3 DEF ErrorComes
    <3>5. ended # "running"
      BY <1>0 DEF Shape
    <3> QED BY <1>0, <3>2, <3>4, <3>5 DEF PassIsHonest, Honest
  <2>2. CASE ~clean
    BY <1>0, <1>2, <1>3, <2>2, WriteIs DEF PassIsHonest, Honest
  <2> QED BY <2>1, <2>2
<1> QED BY <1>5, <1>8, <1>9, <1>11

\* No step of the host breaks the invariant.
LEMMA HostKeeps ==
    ASSUME Inv, HostSteps
    PROVE  Inv'
BY ReadChunkKeeps, LineKeeps, CommandKeeps, CommandsDoneKeeps, EndOfChunkKeeps, ObserveKeeps, ObservedKeeps
   DEF HostSteps

-----------------------------------------------------------------------------
\* The theorems.

\* Both tests start in the invariant.
LEMMA InitInv ==
    ASSUME Init
    PROVE  Inv
<1>0. /\ program \in {AutobaudTest, ResetTest} /\ ended = "running" /\ phoneSpeed = Console
      /\ fifo = <<>> /\ detected = FALSE /\ failures = 0 /\ failed = FALSE /\ output = <<>>
      /\ specials = 0 /\ host = "reading" /\ hostSpeed = Console /\ pending = <<>> /\ newline = FALSE
      /\ lines = <<>> /\ chunk = <<>> /\ terminator = FALSE /\ block = NoBlock /\ queue = <<>>
      /\ expected_reset = "none" /\ stdout = [pass |-> FALSE, open |-> <<>>]
  BY DEF Init
<1>1. AutobaudSteps \subseteq Steps
  BY DEF AutobaudSteps, Steps
<1>2. program \in Seq(Steps) /\ program # <<>>
  <2>1. AutobaudTest \in Seq(Steps) /\ AutobaudTest # <<>>
    BY <1>1, AutobaudTestIs, SeqMono
  <2>2. ResetTest \in Seq(Steps) /\ ResetTest # <<>>
    BY ResetTestIs
  <2> QED BY <1>0, <2>1, <2>2
<1>3. block \in Blocks /\ ~block.open
  BY <1>0 DEF NoBlock, Blocks, Speeds
<1>4. Types
  <2>1. \A S : <<>> \in Seq(S)
    OBVIOUS
  <2>2. specials \in 0 .. Specials
    BY <1>0, SpecialsAssumption
  <2>3. stdout \in [pass : BOOLEAN, open : Seq(Texts)]
    BY <1>0, <2>1
  <2>4. phoneSpeed \in Speeds /\ hostSpeed \in Speeds
    BY <1>0 DEF Speeds
  <2> QED BY <1>0, <1>2, <1>3, <2>1, <2>2, <2>3, <2>4 DEF Types, Blocks
<1>5. Shape
  <2>1. IsRest(ResetTest, ResetTest)
    BY ResetTestIs DEF IsRest
  <2> QED BY <1>0, <1>2, <2>1, AutobaudTestIs DEF Shape
<1>6. \A n \in 2 .. 4 : ~AtReset(n)
  <2>1. SUFFICES ASSUME NEW n \in 2 .. 4, AtReset(n) PROVE FALSE
    OBVIOUS
  <2>2. CASE program = ResetTest
    <3>1. Len(program) = n /\ Len(program) = 9
      BY <2>1, <2>2, ResetTestIs DEF AtReset
    <3> QED BY <3>1
  <2>3. CASE program = AutobaudTest
    <3>1. Len(program) = n /\ program[n - 1] = ResetTest[9 - n + (n - 1)] /\ n - 1 \in 1 .. n
      BY <2>1, ResetTestIs DEF AtReset, IsRest
    <3>2. 9 - n + (n - 1) = 8
      OBVIOUS
    <3>3. program[n - 1] = "fail"
      BY <3>1, <3>2, ResetTestIs
    <3>4. program \in Seq(AutobaudSteps)
      BY <2>3, AutobaudTestIs
    <3>5. "fail" \in AutobaudSteps
      BY <3>1, <3>3, <3>4
    <3> QED BY <3>5 DEF AutobaudSteps, Commands, Sends
  <2> QED BY <1>0, <2>2, <2>3
<1>7. \A S : <<>> \in Seq(S)
  OBVIOUS
<1>8. \A S : Unparsed(S)
  BY <1>0, <1>7 DEF Unparsed
<1>9. Counted /\ SameSpeed /\ Announced /\ ErrorComes /\ CountStands
  BY <1>0, <1>3, <1>7, <1>8 DEF Counted, SameSpeed, Announced, ErrorComes, CountStands
<1>10. Released /\ Continued
  BY <1>0, <1>6, <1>7 DEF Released, Continued
<1>11. PassIsHonest
  BY <1>0, <1>7 DEF PassIsHonest
<1> QED BY <1>4, <1>5, <1>9, <1>10, <1>11 DEF Inv

\* The invariant holds in every state of a session, whatever the timing.
THEOREM SessionInvariant == Spec => []Inv
<1>1. Init => Inv
  BY InitInv
<1>2. Inv /\ [Next]_vars => Inv'
  <2>1. SUFFICES ASSUME Inv, [Next]_vars PROVE Inv'
    OBVIOUS
  <2>2. CASE Next
    BY <2>1, <2>2, PhoneKeeps, HostKeeps DEF Next
  <2>3. CASE UNCHANGED vars
    <3>1. /\ UNCHANGED <<program, ended, phoneSpeed, fifo, detected, failures, failed, output, specials, host,
                         hostSpeed, pending, newline, lines, chunk, terminator, block, queue, expected_reset,
                         stdout>>
      BY <2>3 DEF vars, phone, line, hostVars, parser
    <3>2. Types'
      BY <2>1, <3>1 DEF Inv, Types
    <3>3. \A n \in 0 .. 9 : AtReset(n)' <=> AtReset(n)
      BY <3>1 DEF AtReset
    <3>4. \A S : Unparsed(S)' <=> Unparsed(S)
      BY <3>1 DEF Unparsed
    <3>5. Shape' /\ Counted' /\ (ErrorAhead' <=> ErrorAhead)
      BY <2>1, <3>1 DEF Inv, Shape, Counted, IsRest, ErrorAhead
    <3>6. SameSpeed' /\ Announced' /\ Released' /\ Continued' /\ ErrorComes' /\ CountStands' /\ PassIsHonest'
      BY <2>1, <3>1, <3>3, <3>4, <3>5
      DEF Inv, SameSpeed, Announced, Released, Late, Continued, ErrorComes, CountStands, PassIsHonest, Honest
    <3> QED BY <3>2, <3>5, <3>6 DEF Inv
  <2> QED BY <2>1, <2>2, <2>3
<1> QED BY <1>1, <1>2, PTL DEF Spec

\* TypeOK, for every number of cases, chunk size and number of garbled bytes.
THEOREM TypeCorrect == Spec => []TypeOK
<1>1. Inv => TypeOK
  <2>1. SUFFICES ASSUME Types PROVE TypeOK
    BY DEF Inv
  <2>2. \A S : \A s \in Seq(S) : ToSet(s) \subseteq S
    BY DEF ToSet
  <2>3. /\ ToSet(fifo) \subseteq {"trigger", "frame", "R", "junk"}
        /\ ToSet(output) \subseteq Symbols
        /\ ToSet(chunk) \subseteq Symbols \ {"nul"}
        /\ ToSet(lines) \subseteq Symbols \ {"nul"}
    BY <2>1, <2>2 DEF Types
  <2>4. ToSet(pending) \subseteq Texts /\ ToSet(stdout.open) \subseteq Texts
    BY <2>1, <2>2 DEF Types
  <2>5. /\ ToSet(block.commands) \subseteq Commands \cup {"malformed"}
        /\ ToSet(queue) \subseteq Commands \cup {"malformed"}
    BY <2>1, <2>2 DEF Types
  <2>6. /\ {phoneSpeed, hostSpeed, block.configuration} \subseteq {Console, Test}
        /\ {detected, failed, newline, terminator, block.open, stdout.pass} \subseteq BOOLEAN
    BY <2>1 DEF Types, Speeds
  <2>7. /\ ended \in {"running", "continued", "finish", "reset", "crash"}
        /\ failures \in Nat
        /\ specials \in 0 .. Specials
        /\ host \in {"reading", "lines", "executing", "observing", "done", "failed"}
        /\ expected_reset \in ResetCommands \cup {"none"}
    BY <2>1 DEF Types
  <2> QED BY <2>3, <2>4, <2>5, <2>6, <2>7 DEF TypeOK, Texts
<1> QED BY <1>1, SessionInvariant, PTL

\* VerdictHonest, for every number of cases, chunk size and number of garbled bytes, and for every
\* timing: a success of run.sh is never that of a test that failed, runs on or went on after its reset.
THEOREM VerdictIsHonest == Spec => []VerdictHonest
<1>1. Inv => VerdictHonest
  <2>1. SUFFICES ASSUME Inv, Success PROVE ~failed /\ ended \notin {"running", "continued"}
    BY DEF VerdictHonest
  <2>2. stdout.open = <<"PASS">> \/ stdout.pass
    BY <2>1 DEF Success
  <2>3. <<"PASS">> \notin Seq(Symbols \ {"PASS"})
    <3>1. <<"PASS">>[1] = "PASS" /\ Len(<<"PASS">>) = 1
      OBVIOUS
    <3> QED BY <3>1, ElementOfSeq
  <2>4. Honest
    BY <2>1, <2>2, <2>3 DEF Inv, PassIsHonest
  <2> QED BY <2>4 DEF Honest
<1> QED BY <1>1, SessionInvariant, PTL
-----------------------------------------------------------------------------
(***************************************************************************)
(* The session whose timeouts suffice (Quick): the phone and the host are  *)
(* in step, so that nothing is garbled and boot.py fails only if the phone *)
(* went on after its reset.                                                *)
(***************************************************************************)

\* The lines of a HOST-CMD block
BlockLines ==
    <<"BEGIN", "SEND_trigger", "EXPECT_ready", "BAUDRATE", "SEND_frame", "RESTORE", "SEND_trigger", "END">>
Verdicts == {"ok", "not_ok"}
FinalLines == {"ok", "not_ok", "plan", "PASS", "FAIL"}

\* The phone is at step p of an autobaud case.
AtCase(p) ==
    /\ IsRest(program, AutobaudTest)
    /\ \E k \in 1 .. Rounds : Len(program) = 16 * k + 2 - p

\* s is the lines with the texts U, and after them a completion byte if e is 1.
Lined(s, U, e) ==
    /\ Len(s) = 2 * Len(U) + e
    /\ \A i \in 1 .. Len(U) : s[2 * i - 1] = U[i] /\ s[2 * i] = "newline"
    /\ e = 1 => s[Len(s)] = "nul"

\* The texts U are results, and then the first m lines of a block, or the last of these.
InBlock(U, m) ==
    \A i \in 1 .. Len(U) :
        IF i + m > Len(U) THEN U[i] = BlockLines[m + i - Len(U)] ELSE U[i] \in Verdicts

\* What the host has not looked at yet
Untaken == lines \o (pending \o output)
NothingTaken == lines = <<>> /\ pending = <<>>

BothAt(speed) == phoneSpeed = speed /\ hostSpeed = speed
Quiet == BothAt(Console) /\ fifo = <<>> /\ queue = <<>> /\ ~terminator /\ expected_reset = "none"

\* The host has dealt with all that it has read, or goes through the lines of a chunk.
Resting == NothingTaken /\ (host = "executing" \/ (host = "reading" /\ block = NoBlock))
Looking == host = "lines" \/ (host = "reading" /\ lines = <<>>)

\* The phone prints a block: m lines so far.
Printing ==
    \E m \in 0 .. 7, U \in Seq(Texts) :
        /\ AtCase(m + 2) \/ (m = 0 /\ AtCase(1))
        /\ Lined(output, U, 0) /\ m <= Len(U) /\ InBlock(U, m)
        /\ Resting /\ Quiet

\* The block as far as the host has parsed it, with u of its lines to come
Parsed(u) ==
    IF u >= 8 THEN NoBlock
    ELSE [open |-> TRUE, commands |-> SubSeq(BlockLines, 2, 8 - u), configuration |-> Console]

\* The phone waits for its trigger, and the host has the rest of the block to read.
Parsing ==
    \E U \in Seq(Texts) :
        /\ AtCase(10) /\ Quiet
        /\ Lined(Untaken, U, 0) /\ Len(U) > 0 /\ InBlock(U, 8)
        /\ \/ Looking /\ block = Parsed(Len(U))
           \/ Resting /\ Len(U) >= 8

\* Where the phone and the line are while the host has q commands to execute
At(q, p, bytes, symbols, speed, speedOfHost) ==
    /\ Len(queue) = q
    /\ AtCase(p)
    /\ fifo = bytes
    /\ output = symbols
    /\ phoneSpeed = speed
    /\ hostSpeed = speedOfHost

InStep ==
    \/ At(6, 10, <<>>, <<>>, Console, Console)
    \/ At(5, 10, <<"trigger">>, <<>>, Console, Console)
    \/ At(5, 11, <<>>, <<>>, Console, Console)
    \/ At(5, 12, <<>>, <<"ready">>, Console, Console)
    \/ At(5, 13, <<>>, <<"ready">>, Test, Console)
    \/ At(4, 13, <<>>, <<>>, Test, Console)
    \/ At(3, 13, <<>>, <<>>, Test, Test)
    \/ At(2, 13, <<"frame">>, <<>>, Test, Test)
    \/ At(2, 14, <<>>, <<>>, Test, Test)
    \/ At(2, 15, <<>>, <<>>, Console, Test)
    \/ At(1, 15, <<>>, <<>>, Console, Console)
    \/ At(0, 15, <<"trigger">>, <<>>, Console, Console)
    \/ At(0, 16, <<>>, <<>>, Console, Console)

\* The host executes the block.
AtBlock ==
    /\ host = "executing"
    /\ NothingTaken
    /\ \A i \in 1 .. Len(queue) : queue[i] = BlockLines[7 - Len(queue) + i]
    /\ block.open /\ block.configuration = Console
    /\ ~terminator /\ expected_reset = "none"
Executing == AtBlock /\ InStep

\* The autobaud test is at its end.
Finishing ==
    \E U \in Seq(Verdicts) :
        /\ program = <<"finish">>
        /\ Lined(output, U, 0)
        /\ Resting /\ Quiet

\* The phone has stopped, and the host reads what it said last.
Over ==
    \E U \in Seq(FinalLines) :
        /\ program = <<>> /\ queue = <<>> /\ expected_reset = "none"
        /\ \/ /\ ~terminator
              /\ Lined(Untaken, U, 1)
              /\ Len(output) >= 1 /\ (Len(output) = 1 => newline)
              /\ Resting \/ (Looking /\ block = NoBlock)
           \/ /\ terminator
              /\ Lined(lines \o pending, U, 0)
              /\ host = "lines" /\ block = NoBlock

\* The reset test before its announcement
Checking ==
    \E n \in 6 .. 9, U \in Seq(Verdicts) :
        /\ AtReset(n)
        /\ Lined(output, U, 0)
        /\ Resting /\ host = "reading" /\ Quiet

\* The announcement is on its way, and then the host knows of it.
Announcing ==
    /\ AtReset(5)
    /\ BothAt(Console) /\ fifo = <<>> /\ queue = <<>> /\ ~terminator
    /\ block = NoBlock
    /\ \/ \E U \in Seq(Verdicts), c \in ResetCommands :
            /\ Lined(Untaken, Append(U, c), 0)
            /\ Looking
            /\ expected_reset = "none"
       \/ NothingTaken /\ output = <<>> /\ host = "lines" /\ expected_reset # "none"

\* The host observes the reset that it has released.
Observing ==
    /\ host = "observing" /\ BothAt(Console) /\ NothingTaken
    /\ \/ AtReset(5) /\ fifo = <<"R">> /\ output = <<>>
       \/ AtReset(4) /\ output = <<>>
       \/ AtReset(3) /\ ended = "continued" /\ output = <<>>
       \/ AtReset(0) /\ output = <<>>
       \/ /\ \E n \in 0 .. 2 : AtReset(n)
          /\ ended = "continued" /\ output # <<>> /\ output[1] = "ERROR"

Stopped == program = <<>> /\ (host = "done" \/ (host = "failed" /\ ended = "continued"))

Phases ==
    \/ Printing \/ Parsing \/ Executing \/ Finishing \/ Over
    \/ Checking \/ Announcing \/ Observing \/ Stopped

\* The lines that are still to be looked at are complete.
LinesEnd == lines # <<>> => lines[Len(lines)] = "newline"
LockStep == LinesEnd /\ Phases
-----------------------------------------------------------------------------
\* The programs, and what the two ends can do.

\* Two sequences put together
LEMMA CatIs ==
    ASSUME NEW S, NEW a \in Seq(S), NEW b \in Seq(S)
    PROVE  /\ a \o b \in Seq(S)
           /\ Len(a \o b) = Len(a) + Len(b)
           /\ \A i \in 1 .. Len(a) : (a \o b)[i] = a[i]
           /\ \A i \in 1 .. Len(b) : (a \o b)[Len(a) + i] = b[i]
<1>1. Len(a) \in Nat /\ Len(b) \in Nat
  OBVIOUS
<1> QED BY <1>1

\* A sequence of one element
LEMMA OneIs ==
    ASSUME NEW S, NEW q \in Seq(S), Len(q) = 1
    PROVE  q = <<q[1]>>
OBVIOUS

\* Position by position, the lines of a block and the steps of a case
LEMMA BlockLinesIs ==
    /\ BlockLines \in Seq(Texts)
    /\ Len(BlockLines) = 8
    /\ BlockLines[1] = "BEGIN" /\ BlockLines[2] = "SEND_trigger" /\ BlockLines[3] = "EXPECT_ready"
    /\ BlockLines[4] = "BAUDRATE" /\ BlockLines[5] = "SEND_frame" /\ BlockLines[6] = "RESTORE"
    /\ BlockLines[7] = "SEND_trigger" /\ BlockLines[8] = "END"
BY DEF BlockLines, Texts, Symbols, Commands, Sends

\* The steps of an autobaud case, one by one
LEMMA CaseIs ==
    /\ AutobaudCase \in Seq(AutobaudSteps)
    /\ Len(AutobaudCase) = 16
    /\ AutobaudCase[1] = "flush"
    /\ \A i \in 1 .. 8 : AutobaudCase[i + 1] = BlockLines[i]
    /\ AutobaudCase[10] = "await" /\ AutobaudCase[11] = "ready" /\ AutobaudCase[12] = "configure"
    /\ AutobaudCase[13] = "detect" /\ AutobaudCase[14] = "restore" /\ AutobaudCase[15] = "await"
    /\ AutobaudCase[16] = "check"
<1> DEFINE f == SendAutobaudFrame
           r == <<"ready", "configure", "detect", "restore", "await", "check">>
<1>1. f \in Seq(AutobaudSteps) /\ Len(f) = 10
  BY DEF SendAutobaudFrame, AutobaudSteps, Commands, Sends, ResetCommands
<1>2. /\ f[1] = "flush" /\ f[2] = "BEGIN" /\ f[3] = "SEND_trigger" /\ f[4] = "EXPECT_ready"
      /\ f[5] = "BAUDRATE" /\ f[6] = "SEND_frame" /\ f[7] = "RESTORE" /\ f[8] = "SEND_trigger"
      /\ f[9] = "END" /\ f[10] = "await"
  BY DEF SendAutobaudFrame
<1>3. /\ r \in Seq(AutobaudSteps) /\ Len(r) = 6
      /\ r[1] = "ready" /\ r[2] = "configure" /\ r[3] = "detect"
      /\ r[4] = "restore" /\ r[5] = "await" /\ r[6] = "check"
  BY DEF AutobaudSteps
<1>4. AutobaudCase = f \o r
  BY DEF AutobaudCase
<1> HIDE DEF f, r
<1> DEFINE c == f \o r
<1>5. /\ c \in Seq(AutobaudSteps) /\ Len(c) = 16
      /\ \A i \in 1 .. 10 : c[i] = f[i]
      /\ \A i \in 1 .. 6 : c[10 + i] = r[i]
  <2>1. f \in Seq(AutobaudSteps) /\ r \in Seq(AutobaudSteps)
    BY <1>1, <1>3
  <2>2. /\ c \in Seq(AutobaudSteps)
        /\ Len(c) = Len(f) + Len(r)
        /\ \A i \in 1 .. Len(f) : c[i] = f[i]
        /\ \A i \in 1 .. Len(r) : c[Len(f) + i] = r[i]
    BY <2>1, CatIs
  <2> HIDE DEF c
  <2> QED BY <2>2, <1>1, <1>3
<1> HIDE DEF c
<1>6. /\ \A i \in 1 .. 10 : c[i] = f[i]
      /\ \A i \in 1 .. 6 : c[10 + i] = r[i]
  BY <1>5
<1>7. ASSUME NEW i \in 1 .. 8 PROVE c[i + 1] = BlockLines[i]
  <2>1. c[i + 1] = f[i + 1]
    BY <1>6
  <2>2. i \in {1, 2, 3, 4, 5, 6, 7, 8}
    OBVIOUS
  <2> QED BY <2>1, <2>2, <1>2, BlockLinesIs
<1>8. c[11] = r[1] /\ c[12] = r[2] /\ c[13] = r[3] /\ c[14] = r[4] /\ c[15] = r[5] /\ c[16] = r[6]
  <2>1. c[10 + 1] = r[1] /\ c[10 + 2] = r[2] /\ c[10 + 3] = r[3]
        /\ c[10 + 4] = r[4] /\ c[10 + 5] = r[5] /\ c[10 + 6] = r[6]
    BY <1>6
  <2> QED BY <2>1
<1>9. c[1] = f[1] /\ c[10] = f[10]
  BY <1>6
<1>10. AutobaudCase = c /\ Len(c) = 16
  BY <1>4, <1>5 DEF c
<1> QED BY <1>2, <1>3, <1>5, <1>7, <1>8, <1>9, <1>10

\* The steps of a test, case by case
LEMMA AutobaudTestAt ==
    /\ Rounds \in Nat
    /\ Len(AutobaudTest) = 16 * Rounds + 1
    /\ \A m \in 0 .. Rounds - 1, p \in 1 .. 16 : AutobaudTest[16 * m + p] = AutobaudCase[p]
    /\ AutobaudTest[16 * Rounds + 1] = "finish"
<1> DEFINE n == Rounds * 16
           cases == [i \in 1 .. n |-> AutobaudCase[1 + ((i - 1) % 16)]]
<1>1. Rounds \in Nat /\ n = 16 * Rounds /\ n \in Nat
  BY RoundsAssumption
<1>2. AutobaudTest = cases \o <<"finish">>
  BY CaseIs DEF AutobaudTest
<1> DEFINE A == {AutobaudCase[1 + ((i - 1) % 16)] : i \in 1 .. n}
<1>3. cases \in [1 .. n -> A]
  OBVIOUS
<1>4. \A m \in 0 .. Rounds - 1, p \in 1 .. 16 : cases[16 * m + p] = AutobaudCase[p]
  <2>1. SUFFICES ASSUME NEW m \in 0 .. Rounds - 1, NEW p \in 1 .. 16
                 PROVE  cases[16 * m + p] = AutobaudCase[p]
    OBVIOUS
  <2>2. 16 * m + p \in 1 .. n
    BY <1>1
  <2>3. ((16 * m + p) - 1) % 16 = p - 1
    BY <1>1
  <2>4. cases[16 * m + p] = AutobaudCase[1 + (((16 * m + p) - 1) % 16)]
    BY <2>2
  <2> QED BY <2>3, <2>4
<1> HIDE DEF n, cases, A
<1>5. cases \in Seq(A) /\ Len(cases) = n
  BY <1>1, <1>3
<1>6. /\ Len(cases \o <<"finish">>) = n + 1
      /\ (cases \o <<"finish">>)[n + 1] = "finish"
      /\ \A i \in 1 .. n : (cases \o <<"finish">>)[i] = cases[i]
  BY <1>1, <1>5
<1>7. \A m \in 0 .. Rounds - 1, p \in 1 .. 16 : 16 * m + p \in 1 .. n
  BY <1>1
<1>8. Len(AutobaudTest) = 16 * Rounds + 1 /\ AutobaudTest[16 * Rounds + 1] = "finish"
  BY <1>1, <1>2, <1>6
<1>9. \A m \in 0 .. Rounds - 1, p \in 1 .. 16 : AutobaudTest[16 * m + p] = AutobaudCase[p]
  BY <1>2, <1>4, <1>6, <1>7
<1> QED BY <1>1, <1>8, <1>9

\* The step of a case that the phone is at
LEMMA CaseHead ==
    ASSUME Types, NEW p \in 1 .. 16, AtCase(p)
    PROVE  program # <<>> /\ Head(program) = AutobaudCase[p]
<1> DEFINE l == Len(program)
<1>1. program \in Seq(Steps) /\ l \in Nat
  BY DEF Types
<1>2. PICK k \in 1 .. Rounds : l = 16 * k + 2 - p
  BY DEF AtCase
<1>3. \A i \in 1 .. l : program[i] = AutobaudTest[16 * Rounds + 1 - l + i]
  BY AutobaudTestAt DEF AtCase, IsRest
<1> HIDE DEF l
<1>4. l >= 1 /\ Rounds \in Nat /\ Rounds - k \in 0 .. Rounds - 1
  BY <1>2, AutobaudTestAt
<1>5. program[1] = AutobaudTest[16 * Rounds + 1 - l + 1]
  BY <1>1, <1>3, <1>4
<1>6. 16 * Rounds + 1 - l + 1 = 16 * (Rounds - k) + p
  BY <1>2, <1>4
<1>7. AutobaudTest[16 * (Rounds - k) + p] = AutobaudCase[p]
  BY <1>4, AutobaudTestAt
<1> QED BY <1>1, <1>4, <1>5, <1>6, <1>7 DEF l

\* What is left of a program after a step
LEMMA RestNext ==
    ASSUME NEW S, NEW p \in Seq(S), NEW q, p # <<>>, q = Tail(p), NEW t, NEW n \in Nat, Len(t) = n, IsRest(p, t)
    PROVE  /\ Len(q) = Len(p) - 1
           /\ IsRest(q, t)
           /\ Len(p) = 2 => q = <<t[n]>>
<1>1. PICK l \in Nat : Len(p) = l /\ l >= 1
  OBVIOUS
<1>2. /\ q \in Seq(S)
      /\ Len(q) = l - 1
      /\ \A i \in 1 .. l - 1 : q[i] = p[i + 1]
  BY <1>1
<1>3. l <= n /\ \A i \in 1 .. l : p[i] = t[n - l + i]
  BY <1>1 DEF IsRest
<1>4. ASSUME NEW i \in 1 .. l - 1 PROVE q[i] = t[n - (l - 1) + i]
  <2>1. i + 1 \in 1 .. l /\ n - l + (i + 1) = n - (l - 1) + i
    BY <1>1
  <2> QED BY <2>1, <1>2, <1>3
<1>5. Len(q) <= Len(t)
  BY <1>1, <1>2, <1>3
<1>6. \A i \in 1 .. Len(q) : q[i] = t[Len(t) - Len(q) + i]
  BY <1>2, <1>4
<1>7. ASSUME l = 2 PROVE q = <<t[n]>>
  <2>1. q[1] = t[n - (l - 1) + 1] /\ n - (l - 1) + 1 = n /\ Len(q) = 1
    BY <1>2, <1>4, <1>7
  <2> QED BY <2>1, <1>2, OneIs
<1> QED BY <1>1, <1>2, <1>5, <1>6, <1>7 DEF IsRest

\* The step after it, in the same case, in the next one, or at the end of the test
LEMMA CaseNext ==
    ASSUME Types, NEW p \in 1 .. 16, AtCase(p), program' = Tail(program)
    PROVE  /\ p < 16 => AtCase(p + 1)'
           /\ p = 16 => AtCase(1)' \/ program' = <<"finish">>
<1>1. program \in Seq(Steps)
  BY DEF Types
<1>2. PICK k \in 1 .. Rounds : Len(program) = 16 * k + 2 - p
  BY DEF AtCase
<1>3. IsRest(program, AutobaudTest) /\ program # <<>>
  BY CaseHead DEF AtCase
<1>4. Len(AutobaudTest) = 16 * Rounds + 1 /\ 16 * Rounds + 1 \in Nat /\ Rounds \in Nat
  BY AutobaudTestAt, RoundsAssumption
<1>5. /\ Len(program') = Len(program) - 1
      /\ IsRest(program', AutobaudTest)
      /\ Len(program) = 2 => program' = <<AutobaudTest[16 * Rounds + 1]>>
  <2> DEFINE t == AutobaudTest
             n == 16 * Rounds + 1
  <2>1. n \in Nat /\ Len(t) = n /\ IsRest(program, t)
    BY <1>3, <1>4
  <2> HIDE DEF t, n
  <2>2. Len(program') = Len(program) - 1 /\ IsRest(program', t) /\ (Len(program) = 2 => program' = <<t[n]>>)
    BY <1>1, <1>3, <2>1, RestNext
  <2> QED BY <2>2 DEF t, n
<1> DEFINE l == Len(program')
<1>6. l = 16 * k + 2 - p - 1
  BY <1>2, <1>4, <1>5
<1> HIDE DEF l
<1>7. p < 16 => l = 16 * k + 2 - (p + 1)
  BY <1>4, <1>6
<1>8. p < 16 => AtCase(p + 1)'
  BY <1>5, <1>7 DEF AtCase, l
<1>9. p = 16 /\ k > 1 => l = 16 * (k - 1) + 2 - 1 /\ k - 1 \in 1 .. Rounds
  BY <1>4, <1>6
<1>10. p = 16 /\ k > 1 => AtCase(1)'
  BY <1>5, <1>9 DEF AtCase, l
<1>11. p = 16 /\ k = 1 => program' = <<"finish">>
  BY <1>2, <1>5, AutobaudTestAt
<1> QED BY <1>4, <1>8, <1>10, <1>11

\* The phone's next step is that of its program.
LEMMA PhoneActs ==
    ASSUME PhoneSteps
    PROVE  /\ program # <<>>
           /\ Head(program) \in Commands \cup {"EXPECT_RESET", "ERROR"} => PrintLine
           /\ Head(program) = "flush" => FlushFifo
           /\ Head(program) = "await" => AwaitTrigger
           /\ Head(program) = "ready" => NotifyReady
           /\ Head(program) \in {"configure", "restore"} => Configure
           /\ Head(program) = "detect" => Detect
           /\ Head(program) \in {"check", "any_check", "fail"} => Check
           /\ Head(program) = "finish" => Finish
           /\ Head(program) = "release" => Release
           /\ Head(program) = "reset" => Reset
<1> DEFINE x == Head(program)
           Own == Commands \cup {"EXPECT_RESET", "ERROR"}
<1>1. PrintLine => program # <<>> /\ x \in Own
  BY DEF PrintLine
<1>2. FlushFifo => program # <<>> /\ x = "flush"
  BY DEF FlushFifo, Step
<1>3. AwaitTrigger => program # <<>> /\ x = "await"
  BY DEF AwaitTrigger, Step
<1>4. NotifyReady => program # <<>> /\ x = "ready"
  BY DEF NotifyReady, Step
<1>5. Configure => program # <<>> /\ x \in {"configure", "restore"}
  BY DEF Configure, Step
<1>6. Detect => program # <<>> /\ x = "detect"
  BY DEF Detect, Step
<1>7. Check => program # <<>> /\ x \in {"check", "any_check", "fail"}
  BY DEF Check, Step
<1>8. Finish => program # <<>> /\ x = "finish"
  BY DEF Finish, Step
<1>9. Release => program # <<>> /\ x = "release"
  BY DEF Release, Step
<1>10. Reset => program # <<>> /\ x = "reset"
  BY DEF Reset, Step
<1>11. \A y \in Own : y \notin {"flush", "await", "ready", "configure", "restore", "detect", "check",
                                "any_check", "fail", "finish", "release", "reset"}
  BY DEF Commands, Sends
<1> HIDE DEF x, Own
<1> QED BY <1>1, <1>2, <1>3, <1>4, <1>5, <1>6, <1>7, <1>8, <1>9, <1>10, <1>11 DEF PhoneSteps, x, Own

\* The host takes a step only when the phone waits, and only the one of the place where it is.
LEMMA HostActs ==
    ASSUME Quick, HostSteps
    PROVE  /\ PhoneWaits
           /\ host \in {"reading", "lines", "executing", "observing"}
           /\ host = "reading" => ReadChunk
           /\ host = "lines" /\ lines = <<>> => EndOfChunk
           /\ host = "lines" /\ lines # <<>> =>
                SkipLine \/ RefuseLine \/ BeginBlock \/ EndBlock \/ ExpectReset \/ OtherCommand
           /\ host = "executing" /\ queue = <<>> => CommandsDone
           /\ host = "executing" /\ queue # <<>> => SendData \/ ExpectReady \/ ChangeSpeed \/ RefuseCommand
           /\ host = "observing" => Observe \/ Observed
<1>1. ReadChunk => PhoneWaits /\ host = "reading"
  BY DEF ReadChunk, HostTurn
<1>2. ASSUME NEW c, TakeLine(c) PROVE PhoneWaits /\ host = "lines" /\ lines # <<>>
  BY <1>2 DEF TakeLine, HostTurn
<1>3. SkipLine \/ RefuseLine \/ BeginBlock \/ EndBlock \/ ExpectReset \/ OtherCommand
        => PhoneWaits /\ host = "lines" /\ lines # <<>>
  BY <1>2 DEF SkipLine, RefuseLine, BeginBlock, EndBlock, ExpectReset, OtherCommand
<1>4. ASSUME NEW c, TakeCommand(c) PROVE PhoneWaits /\ host = "executing" /\ queue # <<>>
  BY <1>4 DEF TakeCommand, HostTurn
<1>5. SendData \/ ExpectReady \/ ChangeSpeed \/ RefuseCommand
        => PhoneWaits /\ host = "executing" /\ queue # <<>>
  BY <1>4 DEF SendData, ExpectReady, ChangeSpeed, RefuseCommand
<1>6. CommandsDone => PhoneWaits /\ host = "executing" /\ queue = <<>>
  BY DEF CommandsDone, HostTurn
<1>7. EndOfChunk => PhoneWaits /\ host = "lines" /\ lines = <<>>
  BY DEF EndOfChunk, HostTurn
<1>8. Observe \/ Observed => PhoneWaits /\ host = "observing"
  BY DEF Observe, Observed, HostTurn, PhoneWaits
<1> QED BY <1>1, <1>3, <1>5, <1>6, <1>7, <1>8 DEF HostSteps

\* A phone that neither waits nor has stopped
LEMMA Busy ==
    ASSUME program # <<>>, Head(program) \notin {"await", "detect", "release"} \/ fifo # <<>>
    PROVE  ~PhoneWaits
BY DEF PhoneWaits, Step
-----------------------------------------------------------------------------
\* Lines.

\* A sequence and its parts on both sides of a position
LEMMA SplitAt ==
    ASSUME NEW S, NEW s \in Seq(S), NEW k \in 0 .. Len(s)
    PROVE  SubSeq(s, 1, k) \o SubSeq(s, k + 1, Len(s)) = s
<1>1. Len(s) \in Nat
  OBVIOUS
<1>2. 1 \in 1 .. Len(s) + 1 /\ k \in 1 - 1 .. Len(s) /\ Len(s) \in k .. Len(s)
  BY <1>1
<1>3. SubSeq(s, 1, k) \o SubSeq(s, k + 1, Len(s)) = SubSeq(s, 1, Len(s))
  BY <1>2, ConcatAdjacentSubSeq
<1> QED BY <1>3, SubSeqFull

\* The first and the last newline, and the completion byte, where there is one
LEMMA NewlineAt ==
    ASSUME NEW s, NEW n \in Nat, Len(s) = n
    PROVE  /\ LastNewline(s) # 0 => s[LastNewline(s)] = "newline"
           /\ NulAt(s) # 0 => s[NulAt(s)] = "nul"
           /\ (\E i \in 1 .. n : s[i] = "newline") => FirstNewline(s) \in 1 .. n /\ s[FirstNewline(s)] = "newline"
           /\ \A i \in 1 .. FirstNewline(s) - 1 : s[i] # "newline"
<1> DEFINE Nuls == {i \in 1 .. Len(s) : s[i] = "nul"}
           News == {i \in 1 .. Len(s) : s[i] = "newline"}
<1>1. NulAt(s) = IF Nuls # {} THEN Min(Nuls) ELSE 0
  BY DEF NulAt, SelectInSeq
<1>2. FirstNewline(s) = IF News # {} THEN Min(News) ELSE 0
  BY DEF FirstNewline, SelectInSeq
<1>3. LastNewline(s) = IF News # {} THEN Max(News) ELSE 0
  BY DEF LastNewline, SelectLastInSeq
<1>4. Nuls # {} => Min(Nuls) \in Nuls
  BY MinInSet
<1>5. News # {} => Min(News) \in News /\ \A j \in News : Min(News) <= j
  BY MinInSet
<1>6. News # {} => Max(News) \in News
  BY MaxInSet
<1>7. LastNewline(s) # 0 => s[LastNewline(s)] = "newline"
  BY <1>3, <1>6
<1>8. NulAt(s) # 0 => s[NulAt(s)] = "nul"
  BY <1>1, <1>4
<1>9. (\E i \in 1 .. n : s[i] = "newline") => FirstNewline(s) \in 1 .. n /\ s[FirstNewline(s)] = "newline"
  BY <1>2, <1>5
<1>10. \A i \in 1 .. FirstNewline(s) - 1 : s[i] # "newline"
  BY <1>2, <1>5
<1> QED BY <1>7, <1>8, <1>9, <1>10

\* What has been read is its complete lines and what follows them.
LEMMA LinesAndRest ==
    ASSUME NEW S, NEW t \in Seq(S)
    PROVE  /\ CompleteLines(t) \o OpenLine(t) = t
           /\ CompleteLines(t) # <<>> => CompleteLines(t)[Len(CompleteLines(t))] = "newline"
<1>1. Len(t) \in Nat /\ LastNewline(t) \in 0 .. Len(t)
  BY Positions
<1>2. CompleteLines(t) \o OpenLine(t) = t
  BY <1>1, SplitAt DEF CompleteLines, OpenLine
<1> DEFINE c == CompleteLines(t)
<1>3. /\ c \in Seq(S)
      /\ Len(c) = LastNewline(t)
      /\ \A i \in 1 .. Len(c) : c[i] = t[i]
  BY <1>1, SeqPart DEF CompleteLines
<1>4. LastNewline(t) # 0 => t[LastNewline(t)] = "newline"
  BY <1>1, NewlineAt
<1> HIDE DEF c
<1>5. c # <<>> => Len(c) # 0
  BY <1>3
<1>6. c # <<>> => c[Len(c)] = "newline"
  BY <1>1, <1>3, <1>4, <1>5
<1> QED BY <1>2, <1>6 DEF c

\* A line more
LEMMA LinedMore ==
    ASSUME NEW S, NEW s \in Seq(S), NEW T, NEW U \in Seq(T), NEW x \in T, x \in S, "newline" \in S, Lined(s, U, 0)
    PROVE  Lined(s \o <<x, "newline">>, Append(U, x), 0)
<1> DEFINE z == <<x, "newline">>
           c == s \o z
           V == Append(U, x)
           u == Len(U)
<1>1. z \in Seq(S) /\ Len(z) = 2 /\ z[1] = x /\ z[2] = "newline"
  OBVIOUS
<1> HIDE DEF z
<1>2. /\ c \in Seq(S)
      /\ Len(c) = Len(s) + Len(z)
      /\ \A i \in 1 .. Len(s) : c[i] = s[i]
      /\ \A i \in 1 .. Len(z) : c[Len(s) + i] = z[i]
  <2>1. z \in Seq(S)
    BY <1>1
  <2> QED BY <2>1, CatIs
<1>3. Len(V) = u + 1 /\ V[u + 1] = x /\ u \in Nat /\ \A i \in 1 .. u : V[i] = U[i]
  OBVIOUS
<1>4. Len(s) = 2 * u /\ \A i \in 1 .. u : s[2 * i - 1] = U[i] /\ s[2 * i] = "newline"
  BY DEF Lined
<1> HIDE DEF c, V, u
<1>5. Len(c) = 2 * (u + 1)
  BY <1>1, <1>2, <1>3, <1>4
<1>6. c[2 * u + 1] = x /\ c[2 * u + 2] = "newline"
  BY <1>1, <1>2, <1>4
<1>7. ASSUME NEW i \in 1 .. u + 1 PROVE c[2 * i - 1] = V[i] /\ c[2 * i] = "newline"
  <2>1. CASE i = u + 1
    <3>1. 2 * i - 1 = 2 * u + 1 /\ 2 * i = 2 * u + 2
      BY <2>1, <1>3
    <3> QED BY <3>1, <2>1, <1>3, <1>6
  <2>2. CASE i \in 1 .. u
    <3>1. 2 * i - 1 \in 1 .. Len(s) /\ 2 * i \in 1 .. Len(s)
      BY <2>2, <1>3, <1>4
    <3> QED BY <3>1, <2>2, <1>2, <1>3, <1>4
  <2> QED BY <2>1, <2>2, <1>3
<1>8. Lined(c, V, 0)
  BY <1>3, <1>5, <1>7 DEF Lined
<1> QED BY <1>8 DEF c, z, V

\* A line fewer
LEMMA LinedFewer ==
    ASSUME NEW S, NEW s \in Seq(S), NEW r \in Seq(S), NEW T, NEW U \in Seq(T), NEW e \in 0 .. 1,
           Lined(s, U, e), U # <<>>, Len(r) = Len(s) - 2, \A i \in 1 .. Len(s) - 2 : r[i] = s[i + 2]
    PROVE  Lined(r, Tail(U), e)
<1> DEFINE V == Tail(U)
           u == Len(U)
           n == Len(s)
<1>1. u \in Nat /\ u >= 1 /\ Len(V) = u - 1 /\ \A i \in 1 .. u - 1 : V[i] = U[i + 1]
  OBVIOUS
<1>2. /\ n = 2 * u + e
      /\ \A i \in 1 .. u : s[2 * i - 1] = U[i] /\ s[2 * i] = "newline"
      /\ e = 1 => s[n] = "nul"
  BY DEF Lined
<1> HIDE DEF V, u, n
<1>3. Len(r) = 2 * (u - 1) + e
  BY <1>1, <1>2 DEF n
<1>4. \A i \in 1 .. n - 2 : r[i] = s[i + 2]
  BY DEF n
<1>5. ASSUME NEW i \in 1 .. u - 1 PROVE r[2 * i - 1] = V[i] /\ r[2 * i] = "newline"
  <2>1. 2 * i - 1 \in 1 .. n - 2 /\ 2 * i \in 1 .. n - 2
    BY <1>1, <1>2
  <2>2. r[2 * i - 1] = s[2 * (i + 1) - 1] /\ r[2 * i] = s[2 * (i + 1)]
    <3>1. r[2 * i - 1] = s[(2 * i - 1) + 2] /\ r[2 * i] = s[2 * i + 2]
      BY <2>1, <1>4
    <3>2. (2 * i - 1) + 2 = 2 * (i + 1) - 1 /\ 2 * i + 2 = 2 * (i + 1)
      BY <1>1
    <3> QED BY <3>1, <3>2
  <2>3. i + 1 \in 1 .. u
    BY <1>1
  <2> QED BY <2>2, <2>3, <1>1, <1>2
<1>6. ASSUME e = 1 PROVE r[Len(r)] = "nul"
  <2>1. n - 2 \in 1 .. n - 2 /\ n - 2 = Len(r) /\ (n - 2) + 2 = n
    BY <1>1, <1>2, <1>3, <1>6 DEF n
  <2> QED BY <2>1, <1>2, <1>4, <1>6
<1> QED BY <1>1, <1>3, <1>5, <1>6 DEF Lined, V

\* Where the untaken text begins with complete lines, the first of them is the first text.
LEMMA FirstOf ==
    ASSUME NEW l \in Seq(Symbols), NEW q \in Seq(Symbols), NEW T, T \subseteq Texts, NEW U \in Seq(T), NEW e \in 0 .. 1,
           Lined(l \o q, U, e), l # <<>>, l[Len(l)] = "newline"
    PROVE  /\ U # <<>>
           /\ FirstLine(l) = <<U[1]>>
           /\ Lined(OtherLines(l) \o q, Tail(U), e)
           /\ OtherLines(l) # <<>> => OtherLines(l)[Len(OtherLines(l))] = "newline"
<1> DEFINE n == Len(l)
           m == Len(q)
           u == Len(U)
           z == l \o q
           o == OtherLines(l)
           r == o \o q
<1>1. n \in Nat /\ n >= 1 /\ m \in Nat /\ u \in Nat /\ l[n] = "newline"
  OBVIOUS
<1>2. /\ z \in Seq(Symbols)
      /\ Len(z) = n + m
      /\ \A i \in 1 .. n : z[i] = l[i]
      /\ \A i \in 1 .. m : z[n + i] = q[i]
  BY CatIs
<1>3. /\ Len(z) = 2 * u + e
      /\ \A i \in 1 .. u : z[2 * i - 1] = U[i] /\ z[2 * i] = "newline"
      /\ e = 1 => z[Len(z)] = "nul"
  BY DEF Lined
<1>4. u # 0 => U[1] \in Texts /\ U[1] # "newline"
  <2>1. u # 0 => U[1] \in T
    BY <1>1
  <2> QED BY <2>1 DEF Texts
<1>a. Len(z) \in Nat
  BY <1>2
<1> HIDE DEF n, m, u, z
<1>5. u >= 1
  <2>1. SUFFICES ASSUME u = 0 PROVE FALSE
    BY <1>1
  <2>2. n = 1 /\ m = 0 /\ e = 1 /\ Len(z) = n
    BY <2>1, <1>1, <1>2, <1>3
  <2>3. z[n] = l[n]
    BY <2>2, <1>2
  <2> QED BY <2>2, <2>3, <1>1, <1>3
<1>6. l[1] = U[1] /\ l[1] # "newline"
  <2>1. z[2 * 1 - 1] = U[1] /\ z[1] = l[1]
    BY <1>1, <1>2, <1>3, <1>5
  <2> QED BY <2>1, <1>4, <1>5
<1>7. n >= 2 /\ l[2] = "newline"
  <2>1. n >= 2
    BY <1>1, <1>6
  <2>2. z[2 * 1] = "newline" /\ z[2] = l[2]
    BY <1>2, <1>3, <1>5, <2>1
  <2> QED BY <2>1, <2>2
<1>8. FirstNewline(l) = 2
  <2>1. /\ FirstNewline(l) \in 1 .. n /\ l[FirstNewline(l)] = "newline"
        /\ \A i \in 1 .. FirstNewline(l) - 1 : l[i] # "newline"
    BY <1>1, NewlineAt DEF n
  <2>2. FirstNewline(l) # 1
    BY <2>1, <1>6
  <2>3. ~(FirstNewline(l) > 2)
    BY <2>1, <1>7
  <2> QED BY <2>1, <2>2, <2>3, <1>1
<1>9. FirstLine(l) = <<U[1]>>
  <2> DEFINE f == SubSeq(l, 1, 1)
  <2>1. f \in Seq(Symbols) /\ Len(f) = 1 /\ f[1] = l[1]
    BY <1>7, SeqPart DEF n
  <2>2. FirstLine(l) = f
    BY <1>8 DEF FirstLine
  <2> HIDE DEF f
  <2> QED BY <2>1, <2>2, <1>6, OneIs
<1>10. /\ o \in Seq(Symbols)
       /\ Len(o) = n - 2
       /\ \A i \in 1 .. Len(o) : o[i] = l[i + 2]
  <2> DEFINE f == SubSeq(l, 3, n)
  <2>1. /\ f \in Seq(Symbols)
        /\ Len(f) = n - 2
        /\ \A i \in 1 .. Len(f) : f[i] = l[3 + i - 1]
    <3>1. n \in Int /\ (3 <= n => n - 3 + 1 = n - 2) /\ (~(3 <= n) => n - 2 = 0)
      BY <1>1, <1>7
    <3>a. n <= Len(l)
      BY <1>1 DEF n
    <3>2. /\ f \in Seq(Symbols)
          /\ Len(f) = IF 3 <= n THEN n - 3 + 1 ELSE 0
          /\ \A i \in 1 .. Len(f) : f[i] = l[3 + i - 1]
      BY <3>1, <3>a, SeqPart
    <3> QED BY <3>1, <3>2
  <2>2. o = f
    BY <1>8 DEF OtherLines, n
  <2> HIDE DEF f, o
  <2>3. \A i \in 1 .. n - 2 : 3 + i - 1 = i + 2
    BY <1>1
  <2> QED BY <2>1, <2>2, <2>3
<1> HIDE DEF o
<1>11. o # <<>> => o[Len(o)] = "newline"
  <2>1. SUFFICES ASSUME o # <<>> PROVE o[Len(o)] = "newline"
    OBVIOUS
  <2>2. n - 2 \in 1 .. Len(o) /\ (n - 2) + 2 = n
    BY <2>1, <1>1, <1>7, <1>10
  <2> QED BY <2>2, <1>1, <1>10
<1>12. /\ r \in Seq(Symbols)
       /\ Len(r) = Len(o) + m
       /\ \A i \in 1 .. Len(o) : r[i] = o[i]
       /\ \A i \in 1 .. m : r[Len(o) + i] = q[i]
  <2>1. o \in Seq(Symbols)
    BY <1>10
  <2> QED BY <2>1, CatIs DEF m
<1> HIDE DEF r
<1>13. Len(r) = Len(z) - 2
  BY <1>1, <1>2, <1>10, <1>12
<1>14. ASSUME NEW i \in 1 .. Len(z) - 2 PROVE r[i] = z[i + 2]
  <2>1. CASE i <= n - 2
    <3>1. i \in 1 .. Len(o) /\ i + 2 \in 1 .. n
      BY <2>1, <1>1, <1>10
    <3> QED BY <3>1, <1>2, <1>10, <1>12
  <2>2. CASE i > n - 2
    <3>1. PICK j \in 1 .. m : i = (n - 2) + j
      <4>1. i - (n - 2) \in 1 .. m /\ i = (n - 2) + (i - (n - 2))
        BY <2>2, <1>1, <1>2
      <4> QED BY <4>1
    <3>2. i = Len(o) + j /\ i + 2 = n + j
      BY <3>1, <1>1, <1>10
    <3> QED BY <3>2, <1>2, <1>12
  <2> QED BY <2>1, <2>2, <1>1, <1>2
<1>15. Lined(r, Tail(U), e)
  <2>1. Lined(z, U, e) /\ U # <<>>
    BY <1>5 DEF z, u
  <2> QED BY <2>1, <1>2, <1>12, <1>13, <1>14, LinedFewer
<1> QED BY <1>5, <1>9, <1>11, <1>15 DEF o, r, u

\* The texts of a block, with a line more and with a line fewer
LEMMA InBlockMore ==
    ASSUME NEW U \in Seq(Texts), NEW m \in 0 .. 7, m <= Len(U), InBlock(U, m)
    PROVE  InBlock(Append(U, BlockLines[m + 1]), m + 1)
<1> DEFINE u == Len(U)
           V == Append(U, BlockLines[m + 1])
<1>1. u \in Nat /\ Len(V) = u + 1 /\ V[u + 1] = BlockLines[m + 1] /\ \A i \in 1 .. u : V[i] = U[i]
  OBVIOUS
<1>2. \A i \in 1 .. u : IF i + m > u THEN U[i] = BlockLines[m + i - u] ELSE U[i] \in Verdicts
  BY DEF InBlock
<1> HIDE DEF u, V
<1>3. ASSUME NEW i \in 1 .. u + 1
      PROVE  IF i + (m + 1) > u + 1 THEN V[i] = BlockLines[(m + 1) + i - (u + 1)] ELSE V[i] \in Verdicts
  <2>1. CASE i = u + 1
    <3>1. (m + 1) + i - (u + 1) = m + 1 /\ i + (m + 1) > u + 1
      BY <2>1, <1>1
    <3> QED BY <3>1, <2>1, <1>1
  <2>2. CASE i \in 1 .. u
    <3>1. (m + 1) + i - (u + 1) = m + i - u /\ (i + (m + 1) > u + 1 <=> i + m > u)
      BY <1>1
    <3> QED BY <3>1, <2>2, <1>1, <1>2
  <2> QED BY <2>1, <2>2, <1>1
<1>4. InBlock(V, m + 1)
  BY <1>1, <1>3 DEF InBlock
<1> QED BY <1>4 DEF V

\* The first of the texts is taken away.
LEMMA InBlockFewer ==
    ASSUME NEW U \in Seq(Texts), U # <<>>, InBlock(U, 8)
    PROVE  InBlock(Tail(U), 8)
<1> DEFINE u == Len(U)
           V == Tail(U)
<1>1. u \in Nat /\ u >= 1 /\ Len(V) = u - 1 /\ \A i \in 1 .. u - 1 : V[i] = U[i + 1]
  OBVIOUS
<1>2. \A i \in 1 .. u : IF i + 8 > u THEN U[i] = BlockLines[8 + i - u] ELSE U[i] \in Verdicts
  BY DEF InBlock
<1> HIDE DEF u, V
<1>3. ASSUME NEW i \in 1 .. u - 1
      PROVE  IF i + 8 > u - 1 THEN V[i] = BlockLines[8 + i - (u - 1)] ELSE V[i] \in Verdicts
  <2>1. i + 1 \in 1 .. u /\ 8 + i - (u - 1) = 8 + (i + 1) - u /\ (i + 8 > u - 1 <=> (i + 1) + 8 > u)
    BY <1>1
  <2> QED BY <2>1, <1>1, <1>2
<1>4. InBlock(V, 8)
  BY <1>1, <1>3 DEF InBlock
<1> QED BY <1>4 DEF V
-----------------------------------------------------------------------------
\* A chunk.

\* A completion byte is only at the end of the lines, and follows a newline.
LEMMA NulIsLast ==
    ASSUME NEW z \in Seq(Symbols), NEW U \in Seq(Texts), NEW e \in 0 .. 1, Lined(z, U, e)
    PROVE  /\ \A j \in 1 .. Len(z) : z[j] = "nul" => e = 1 /\ j = Len(z)
           /\ e = 1 /\ Len(z) >= 2 => z[Len(z) - 1] = "newline"
<1> DEFINE u == Len(U)
           n == Len(z)
<1>1. u \in Nat /\ n \in Nat /\ \A i \in 1 .. u : U[i] # "nul"
  BY DEF Texts
<1>2. n = 2 * u + e /\ \A i \in 1 .. u : z[2 * i - 1] = U[i] /\ z[2 * i] = "newline"
  BY DEF Lined
<1> HIDE DEF u, n
<1>3. ASSUME NEW j \in 1 .. n, z[j] = "nul" PROVE e = 1 /\ j = n
  <2>1. SUFFICES ASSUME j <= 2 * u PROVE FALSE
    BY <1>1, <1>2
  <2>2. PICK i \in 1 .. u : j = 2 * i - 1 \/ j = 2 * i
    <3>1. PICK h \in Int : j = 2 * h \/ j = 2 * h - 1
      <4>1. (j + 1) \div 2 \in Int /\ (j = 2 * ((j + 1) \div 2) \/ j = 2 * ((j + 1) \div 2) - 1)
        BY <1>1
      <4> QED BY <4>1
    <3>2. h \in 1 .. u
      BY <3>1, <2>1, <1>1
    <3> QED BY <3>1, <3>2
  <2> QED BY <2>2, <1>1, <1>2, <1>3
<1>4. ASSUME e = 1, n >= 2 PROVE z[n - 1] = "newline"
  <2>1. u \in 1 .. u /\ n - 1 = 2 * u
    BY <1>1, <1>2, <1>4
  <2> QED BY <2>1, <1>2
<1> QED BY <1>3, <1>4 DEF n

\* A chunk without a completion byte: what is untaken stays the same.
LEMMA ChunkOfLines ==
    ASSUME NEW S, NEW p \in Seq(S), NEW s \in Seq(S), NEW r \in Seq(S), NEW U, NEW e, Lined(p \o (s \o r), U, e)
    PROVE  Lined(CompleteLines(p \o s) \o (OpenLine(p \o s) \o r), U, e)
<1> DEFINE t == p \o s
           a == CompleteLines(t)
           b == OpenLine(t)
<1>1. t \in Seq(S)
  BY ConcatProperties
<1>2. a \in Seq(S) /\ b \in Seq(S) /\ a \o b = t
  BY <1>1, Parts, LinesAndRest
<1> HIDE DEF a, b
<1>3. a \o (b \o r) = (a \o b) \o r
  <2>1. \A x, y \in Seq(S) : (x \o y) \o r = x \o (y \o r)
    BY ConcatAssociative
  <2> QED BY <1>2, <2>1, Zenon
<1>4. p \o (s \o r) = t \o r
  BY ConcatAssociative
<1>5. (a \o b) \o r = t \o r
  BY <1>2
<1>6. a \o (b \o r) = p \o (s \o r)
  BY <1>3, <1>4, <1>5
<1>7. Lined(a \o (b \o r), U, e)
  BY <1>6
<1> QED BY <1>7 DEF a, b, t

\* A chunk with a completion byte is the rest of the output, and what comes before the byte is lines.
LEMMA ChunkWithNul ==
    ASSUME NEW p \in Seq(Texts), NEW o \in Seq(Symbols), NEW s \in Seq(Symbols),
           Len(s) <= Len(o), \A i \in 1 .. Len(s) : s[i] = o[i], NulAt(s) # 0,
           NEW U \in Seq(Texts), NEW e \in 0 .. 1, Lined(p \o o, U, e)
    PROVE  /\ e = 1 /\ Len(s) = Len(o) /\ NulAt(s) = Len(s)
           /\ Len(s) > 1 => s[Len(s) - 1] = "newline"
           /\ Lined(p \o Before(s), U, 0)
<1> DEFINE z == p \o o
           k == NulAt(s)
           l == Len(p)
           m == Len(o)
           n == Len(s)
           b == Before(s)
           c == p \o b
<1>0. p \in Seq(Symbols)
  BY SeqMono DEF Texts
<1>1. \A i \in 1 .. n : s[i] = o[i]
  OBVIOUS
<1>2. /\ z \in Seq(Symbols) /\ Len(z) = l + m
      /\ \A i \in 1 .. l : z[i] = p[i]
      /\ \A i \in 1 .. m : z[l + i] = o[i]
  BY <1>0, CatIs
<1>3. k \in 1 .. n /\ s[k] = "nul"
  BY Positions, NewlineAt
<1>4. /\ \A j \in 1 .. Len(z) : z[j] = "nul" => e = 1 /\ j = Len(z)
      /\ e = 1 /\ Len(z) >= 2 => z[Len(z) - 1] = "newline"
  BY <1>2, NulIsLast
<1>5. l \in Nat /\ m \in Nat
  OBVIOUS
<1>6. Len(z) = 2 * Len(U) + e /\ \A i \in 1 .. Len(U) : z[2 * i - 1] = U[i] /\ z[2 * i] = "newline"
  BY DEF Lined
<1> DEFINE u == Len(U)
<1>7. n \in 1 .. m /\ u \in Nat
  BY <1>3
<1> HIDE DEF z, k, l, m, u, n
<1>8. e = 1 /\ n = m /\ k = n
  <2>a. k \in 1 .. m /\ o[k] = "nul"
    <3>1. s[k] = o[k]
      BY <1>1, <1>3, Zenon
    <3>2. k \in 1 .. m
      BY <1>3, <1>5, <1>7
    <3> QED BY <3>1, <3>2, <1>3
  <2>1. z[l + k] = "nul" /\ l + k \in 1 .. Len(z)
    BY <2>a, <1>2, <1>5
  <2>2. e = 1 /\ l + k = l + m
    BY <2>1, <1>2, <1>4
  <2> QED BY <2>2, <1>3, <1>5, <1>7
<1>9. n > 1 => s[n - 1] = "newline"
  <2>1. SUFFICES ASSUME n > 1 PROVE s[n - 1] = "newline"
    OBVIOUS
  <2>2. Len(z) >= 2 /\ Len(z) - 1 = l + (n - 1) /\ n - 1 \in 1 .. m /\ n - 1 \in 1 .. n
    BY <2>1, <1>2, <1>5, <1>8
  <2> QED BY <2>2, <1>1, <1>2, <1>4, <1>8
<1>10. b \in Seq(Symbols) /\ Len(b) = n - 1 /\ \A i \in 1 .. n - 1 : b[i] = s[i]
  <2>1. b = SubSeq(s, 1, n - 1)
    BY <1>8 DEF Before, k
  <2> HIDE DEF b
  <2>2. n - 1 \in Int /\ n - 1 \in Nat /\ (IF 1 <= n - 1 THEN (n - 1) - 1 + 1 ELSE 0) = n - 1
    BY <1>7
  <2>3. n - 1 <= Len(s)
    BY DEF n
  <2>4. /\ b \in Seq(Symbols) /\ Len(b) = IF 1 <= n - 1 THEN (n - 1) - 1 + 1 ELSE 0
        /\ \A i \in 1 .. Len(b) : b[i] = s[1 + i - 1]
    BY <2>1, <2>2, <2>3, SeqPart
  <2> QED BY <2>2, <2>4
<1> HIDE DEF b
<1>11. /\ c \in Seq(Symbols) /\ Len(c) = l + Len(b)
       /\ \A i \in 1 .. l : c[i] = p[i]
       /\ \A i \in 1 .. Len(b) : c[l + i] = b[i]
  <2>1. b \in Seq(Symbols)
    BY <1>10
  <2> QED BY <2>1, <1>0, CatIs DEF l
<1> HIDE DEF c
<1>12. Len(c) = 2 * u
  <2>1. l + n = 2 * u + 1
    BY <1>2, <1>6, <1>8 DEF u
  <2>2. Len(c) = l + (n - 1)
    BY <1>10, <1>11
  <2> QED BY <2>1, <2>2, <1>5, <1>7
<1>13. ASSUME NEW i \in 1 .. Len(c) PROVE c[i] = z[i]
  <2>1. CASE i <= l
    BY <2>1, <1>2, <1>5, <1>11
  <2>2. CASE i > l
    <3>1. PICK j \in 1 .. n - 1 : i = l + j
      <4>1. i - l \in 1 .. n - 1 /\ i = l + (i - l)
        BY <2>2, <1>5, <1>7, <1>10, <1>11
      <4> QED BY <4>1
    <3>2. j \in 1 .. Len(b) /\ j \in 1 .. m /\ j \in 1 .. n
      BY <3>1, <1>7, <1>8, <1>10
    <3> QED BY <3>1, <3>2, <1>1, <1>2, <1>10, <1>11
  <2> QED BY <2>1, <2>2, <1>5
<1>14. ASSUME NEW i \in 1 .. u PROVE c[2 * i - 1] = U[i] /\ c[2 * i] = "newline"
  <2>1. 2 * i - 1 \in 1 .. Len(c) /\ 2 * i \in 1 .. Len(c)
    BY <1>7, <1>12
  <2> QED BY <2>1, <1>6, <1>13 DEF u
<1>15. Lined(c, U, 0)
  BY <1>7, <1>12, <1>14 DEF Lined, u
<1> QED BY <1>8, <1>9, <1>15 DEF c, b, k, m, n

\* The host reads a chunk of lines: they stay untaken, and no completion byte is refused.
LEMMA ChunkTaken ==
    ASSUME Types, ReadChunk, lines = <<>>, NEW T, T \subseteq Texts, NEW U \in Seq(T), NEW e \in 0 .. 1,
           Lined(Untaken, U, e), e = 1 /\ Len(output) = 1 => newline
    PROVE  /\ UNCHANGED <<phone, hostSpeed, block, queue>>
           /\ host' = "lines" /\ expected_reset' = "none" /\ LinesEnd'
           /\ \/ /\ ~terminator'
                 /\ Lined(Untaken', U, e)
                 /\ e = 1 => Len(output') >= 1 /\ (Len(output') = 1 => newline')
              \/ e = 1 /\ terminator' /\ Lined(lines' \o pending', U, 0)
<1>1. PICK n \in (1 .. Len(output)) \cap (1 .. MaxChunk) :
         LET s == SubSeq(output, 1, n)
             text == WithPending(Before(s))
         IN  /\ output' = SubSeq(output, n + 1, Len(output))
             /\ \/ NulInLine(s) /\ Fail
                \/ /\ ~NulInLine(s)
                   /\ host' = "lines"
                   /\ terminator' = (NulAt(s) # 0)
                   /\ newline' = IF Before(s) = <<>> THEN newline ELSE Last(Before(s)) = "newline"
                   /\ lines' = CompleteLines(text)
                   /\ pending' = OpenLine(text)
                   /\ chunk' = Before(s)
                   /\ expected_reset' = "none"
                   /\ UNCHANGED <<hostSpeed, block, queue, stdout>>
  BY DEF ReadChunk
<1> DEFINE s == SubSeq(output, 1, n)
           r == SubSeq(output, n + 1, Len(output))
           text == pending \o Before(s)
           z == pending \o output
<1>2. UNCHANGED phone
  BY DEF ReadChunk
<1>3. /\ output \in Seq(Symbols) /\ pending \in Seq(Texts) /\ pending \in Seq(Symbols)
      /\ n \in 1 .. Len(output)
  BY <1>1, SeqMono DEF Types, Texts
<1>4. /\ s \in Seq(Symbols) /\ r \in Seq(Symbols)
      /\ Len(s) = n /\ Len(r) = Len(output) - n
      /\ \A i \in 1 .. Len(s) : s[i] = output[i]
  BY <1>3, SeqPart
<1>5. s \o r = output
  BY <1>3, SplitAt
<1>6. /\ output' = r
      /\ \/ NulInLine(s)
         \/ /\ host' = "lines"
            /\ terminator' = (NulAt(s) # 0)
            /\ newline' = IF Before(s) = <<>> THEN newline ELSE Last(Before(s)) = "newline"
            /\ lines' = CompleteLines(text)
            /\ pending' = OpenLine(text)
            /\ expected_reset' = "none"
            /\ UNCHANGED <<hostSpeed, block, queue>>
  BY <1>1 DEF WithPending
<1>7. Untaken = z
  <2>1. z \in Seq(Symbols)
    BY <1>3, ConcatProperties
  <2> HIDE DEF z
  <2>2. <<>> \o z = z
    BY <2>1, ConcatEmptySeq
  <2> QED BY <2>2 DEF Untaken, z
<1>8. Lined(z, U, e)
  BY <1>7
<1>9. U \in Seq(Texts)
  BY SeqMono
<1>10. z \in Seq(Symbols) /\ Len(z) = Len(pending) + Len(output)
       /\ \A i \in 1 .. Len(output) : z[Len(pending) + i] = output[i]
  BY <1>3, CatIs
<1> DEFINE l == Len(pending)
           m == Len(output)
<1>11. l \in Nat /\ m \in Nat /\ n \in 1 .. m
  BY <1>3
<1> HIDE DEF s, r, z
<1>12. text \in Seq(Symbols)
  BY <1>3, <1>4, Parts, ConcatProperties
<1>13. CASE NulAt(s) # 0
  <2>1. /\ e = 1 /\ Len(s) = Len(output) /\ NulAt(s) = Len(s)
        /\ Len(s) > 1 => s[Len(s) - 1] = "newline"
        /\ Lined(text, U, 0)
    <3>1. Len(s) <= Len(output)
      BY <1>3, <1>4
    <3>2. Lined(pending \o output, U, e)
      BY <1>8 DEF z
    <3> QED BY <3>1, <3>2, <1>3, <1>4, <1>9, <1>13, ChunkWithNul
  <2>2. ~NulInLine(s)
    <3>1. CASE n = 1
      <4>1. newline /\ NulAt(s) = 1
        BY <2>1, <3>1, <1>4
      <4> QED BY <4>1 DEF NulInLine
    <3>2. CASE n # 1
      <4>1. NulAt(s) = n /\ n > 1 /\ s[n - 1] = "newline"
        BY <2>1, <3>2, <1>3, <1>4
      <4> QED BY <4>1 DEF NulInLine
    <3> QED BY <3>1, <3>2
  <2> HIDE DEF text
  <2>3. lines' \o pending' = text /\ LinesEnd'
    BY <2>2, <1>6, <1>12, LinesAndRest DEF LinesEnd
  <2> QED BY <2>1, <2>2, <2>3, <1>2, <1>6, <1>13
<1>14. CASE NulAt(s) = 0
  <2>1. ~NulInLine(s) /\ Before(s) = s
    BY <1>14 DEF NulInLine, Before
  <2>2. LinesEnd'
    BY <2>1, <1>6, <1>12, LinesAndRest DEF LinesEnd
  <2>3. Lined(Untaken', U, e)
    <3>1. Lined(pending \o (s \o r), U, e)
      BY <1>5, <1>8 DEF z
    <3>2. Lined(CompleteLines(pending \o s) \o (OpenLine(pending \o s) \o r), U, e)
      BY <3>1, <1>3, <1>4, ChunkOfLines, Zenon
    <3>3. lines' = CompleteLines(pending \o s) /\ pending' = OpenLine(pending \o s) /\ output' = r
      BY <2>1, <1>6
    <3> QED BY <3>2, <3>3, Zenon DEF Untaken
  <2>4. ASSUME e = 1 PROVE Len(output') >= 1 /\ (Len(output') = 1 => newline')
    <3>1. z[Len(z)] = "nul" /\ (Len(z) >= 2 => z[Len(z) - 1] = "newline")
      <4>1. z[Len(z)] = "nul"
        BY <2>4, <1>8 DEF Lined
      <4>2. e = 1 /\ Len(z) >= 2 => z[Len(z) - 1] = "newline"
        <5>1. z \in Seq(Symbols)
          BY <1>10
        <5> QED BY <5>1, <1>8, <1>9, NulIsLast
      <4> QED BY <2>4, <4>1, <4>2
    <3>2. \A i \in 1 .. n : s[i] # "nul"
      BY <1>14, <1>4, Positions
    <3>3. output[m] = "nul"
      <4>1. m \in 1 .. m /\ Len(z) = l + m /\ z[l + m] = output[m]
        BY <1>10, <1>11
      <4> QED BY <4>1, <3>1
    <3>4. n # m
      BY <3>2, <3>3, <1>4, <1>11
    <3>5. ASSUME n = m - 1 PROVE newline'
      <4>1. s[n] = "newline"
        <5>1. l + n = Len(z) - 1 /\ Len(z) >= 2 /\ n \in 1 .. m
          BY <3>5, <1>10, <1>11
        <5>2. z[l + n] = output[n]
          BY <5>1, <1>10
        <5> QED BY <5>1, <5>2, <3>1, <1>4
      <4>2. s # <<>> /\ Last(s) = s[n]
        BY <1>4, <1>11 DEF Last
      <4> QED BY <4>1, <4>2, <2>1, <1>6
    <3>6. Len(output') = m - n
      BY <1>4, <1>6
    <3> HIDE DEF m
    <3> QED BY <3>4, <3>5, <3>6, <1>11
  <2> QED BY <2>1, <2>2, <2>3, <2>4, <1>2, <1>6, <1>8, <1>14
<1> QED BY <1>13, <1>14
-----------------------------------------------------------------------------
\* The phases, one by one.

\* Where nothing has been taken, all is in the output.
LEMMA UntakenNext ==
    ASSUME Types', NothingTaken'
    PROVE  Untaken' = output'
BY ConcatEmptySeq DEF Types, NothingTaken, Untaken

\* No text is left: all the parts are empty.
LEMMA AllEmpty ==
    ASSUME NEW l \in Seq(Symbols), NEW p \in Seq(Symbols), NEW o \in Seq(Symbols), NEW T, NEW U \in Seq(T),
           Len(U) = 0, Lined(l \o (p \o o), U, 0)
    PROVE  l = <<>> /\ p = <<>> /\ o = <<>>
<1> DEFINE r == p \o o
<1>1. r \in Seq(Symbols)
  BY ConcatProperties
<1> HIDE DEF r
<1>2. l \o r \in Seq(Symbols) /\ Len(l \o r) = Len(l) + Len(r)
  BY <1>1, ConcatProperties
<1>3. Len(l \o r) = 0
  BY DEF Lined, r
<1>4. Len(l) = 0 /\ Len(r) = 0
  BY <1>1, <1>2, <1>3
<1>5. l = <<>> /\ r = <<>>
  BY <1>1, <1>4
<1> QED BY <1>5, ConcatEqualIffEmpty DEF r

\* The host has taken the last line.
LEMMA AllTakenNext ==
    ASSUME Types', NEW T, NEW U \in Seq(T), Len(U) = 0, Lined(Untaken', U, 0)
    PROVE  NothingTaken' /\ output' = <<>>
<1>1. lines' \in Seq(Symbols) /\ pending' \in Seq(Symbols) /\ output' \in Seq(Symbols)
  BY SeqMono DEF Types, Texts
<1>2. Lined(lines' \o (pending' \o output'), U, 0)
  BY DEF Untaken
<1>3. lines' = <<>> /\ pending' = <<>> /\ output' = <<>>
  BY <1>1, <1>2, AllEmpty
<1> QED BY <1>3 DEF NothingTaken

\* The host's part does not change with the phone's steps.
LEMMA HostRests ==
    ASSUME UNCHANGED hostVars
    PROVE  /\ UNCHANGED <<host, hostSpeed, pending, newline, lines, chunk, terminator, block, queue,
                          expected_reset, stdout>>
           /\ Resting => Resting'
           /\ NothingTaken => NothingTaken'
           /\ LinesEnd => LinesEnd'
<1>1. UNCHANGED <<host, hostSpeed, pending, newline, lines, chunk, terminator, block, queue,
                  expected_reset, stdout>>
  BY DEF hostVars, parser
<1> QED BY <1>1 DEF Resting, NothingTaken, LinesEnd

\* The phone prints a line at the host's speed.
LEMMA PrintedLine ==
    ASSUME Types, NEW S, S \subseteq Texts, NEW U \in Seq(S), NEW x \in S, Lined(output, U, 0),
           phoneSpeed = hostSpeed, Emit(<<x, "newline">>)
    PROVE  Append(U, x) \in Seq(S) /\ Lined(output', Append(U, x), 0)
<1>1. x \in Symbols /\ "newline" \in Symbols /\ output \in Seq(Symbols)
  BY DEF Texts, Symbols, Types
<1>2. Lined(output \o <<x, "newline">>, Append(U, x), 0)
  <2>1. U \in Seq(Texts) /\ x \in Texts
    BY SeqMono
  <2> QED BY <2>1, <1>1, LinedMore
<1>3. output' = output \o <<x, "newline">>
  BY DEF Emit
<1>4. Append(U, x) \in Seq(S)
  BY AppendProperties
<1> QED BY <1>2, <1>3, <1>4

\* The phone prints the block.
LEMMA PrintingPhase ==
    ASSUME Types, Types', Quick, LinesEnd, Printing, PhoneSteps \/ HostSteps
    PROVE  LockStep'
<1>1. PICK m \in 0 .. 7, U \in Seq(Texts) :
        /\ AtCase(m + 2) \/ (m = 0 /\ AtCase(1))
        /\ Lined(output, U, 0) /\ m <= Len(U) /\ InBlock(U, m)
        /\ Resting /\ Quiet
  BY DEF Printing
<1>2. CASE AtCase(1)
  <2>1. program # <<>> /\ Head(program) = "flush"
    BY <1>2, CaseHead, CaseIs
  <2>2. FlushFifo
    BY <2>1, Busy, HostActs, PhoneActs
  <2>3. program' = Tail(program) /\ fifo' = <<>> /\ UNCHANGED <<phoneSpeed, output, hostVars>>
    BY <2>2 DEF FlushFifo, Done, line
  <2>4. AtCase(0 + 2)'
    BY <1>2, <2>3, CaseNext
  <2>5. LinesEnd' /\ Resting' /\ Quiet'
    BY <1>1, <2>3, HostRests DEF Quiet, BothAt
  <2>6. Lined(output', U, 0) /\ 0 <= Len(U) /\ InBlock(U, 0)
    <3>1. CASE m = 0
      BY <3>1, <1>1, <2>3
    <3>2. CASE m # 0
      <4>1. AtCase(m + 2)
        BY <3>2, <1>1
      <4>2. Head(program) = AutobaudCase[m + 2] /\ AutobaudCase[(m + 1) + 1] = BlockLines[m + 1]
        BY <4>1, CaseHead, CaseIs
      <4>3. m + 1 \in {1, 2, 3, 4, 5, 6, 7, 8}
        BY <1>1
      <4> QED BY <4>2, <4>3, <2>1, BlockLinesIs
    <3> QED BY <3>1, <3>2
  <2>7. Printing'
    BY <2>4, <2>5, <2>6 DEF Printing
  <2> QED BY <2>5, <2>7 DEF LockStep, Phases
<1>3. CASE AtCase(m + 2)
  <2> DEFINE x == BlockLines[m + 1]
             V == Append(U, x)
  <2>1. program # <<>> /\ Head(program) = x
    <3>1. program # <<>> /\ Head(program) = AutobaudCase[m + 2]
      BY <1>3, CaseHead
    <3>2. AutobaudCase[(m + 1) + 1] = BlockLines[m + 1] /\ (m + 1) + 1 = m + 2
      BY CaseIs
    <3> QED BY <3>1, <3>2
  <2>2. x \in Commands /\ x \in Texts /\ x \notin {"await", "detect", "release", "EXPECT_RESET"}
    <3>1. m + 1 \in {1, 2, 3, 4, 5, 6, 7, 8}
      OBVIOUS
    <3> QED BY <3>1, BlockLinesIs DEF Commands, Sends, Texts, Symbols
  <2> HIDE DEF x
  <2>3. PrintLine
    BY <2>1, <2>2, Busy, HostActs, PhoneActs
  <2>4. /\ program' = Tail(program) /\ Emit(<<x, "newline">>)
        /\ UNCHANGED <<phoneSpeed, fifo, hostVars>>
    BY <2>1, <2>2, <2>3 DEF PrintLine, Done, TextOf
  <2>5. AtCase((m + 1) + 2)'
    <3>1. AtCase((m + 2) + 1)' /\ (m + 2) + 1 = (m + 1) + 2
      BY <1>3, <2>4, CaseNext
    <3> QED BY <3>1
  <2>6. LinesEnd' /\ Resting' /\ Quiet'
    BY <1>1, <2>4, HostRests DEF Quiet, BothAt
  <2>7. V \in Seq(Texts) /\ Lined(output', V, 0)
    BY <1>1, <2>2, <2>4, PrintedLine DEF Quiet, BothAt
  <2>8. InBlock(V, m + 1) /\ Len(V) = Len(U) + 1 /\ Len(U) \in Nat
    BY <1>1, InBlockMore DEF x
  <2> HIDE DEF V
  <2>9. CASE m < 7
    <3>1. m + 1 \in 0 .. 7 /\ m + 1 <= Len(V)
      BY <2>8, <2>9, <1>1
    <3>2. Printing'
      BY <3>1, <2>5, <2>6, <2>7, <2>8 DEF Printing
    <3> QED BY <3>2, <2>6 DEF LockStep, Phases
  <2>10. CASE m = 7
    <3>1. Len(V) >= 8
      BY <1>1, <2>8, <2>10
    <3>2. AtCase(10)' /\ InBlock(V, 8)
      BY <2>5, <2>8, <2>10
    <3>3. Untaken' = output'
      <4>1. NothingTaken'
        BY <2>6 DEF Resting
      <4> QED BY <4>1, UntakenNext
    <3>4. Parsing'
      BY <3>1, <3>2, <3>3, <2>6, <2>7 DEF Parsing
    <3> QED BY <3>4, <2>6 DEF LockStep, Phases
  <2> QED BY <2>9, <2>10
<1> QED BY <1>1, <1>2, <1>3

\* The step of the host at a line that holds one text
LEMMA LineActs ==
    ASSUME Quick, HostSteps, host = "lines", lines # <<>>, NEW x, FirstLine(lines) = <<x>>
    PROVE  /\ x \notin Commands => SkipLine
           /\ x = "BEGIN" /\ ~block.open => BeginBlock
           /\ x = "END" /\ block.open => EndBlock
           /\ x \in ResetCommands /\ ~block.open /\ expected_reset = "none" => ExpectReset
           /\ x \in Commands \ ({"BEGIN", "END"} \cup ResetCommands) => OtherCommand
<1> DEFINE c == CommandOf(FirstLine(lines))
<1>1. c = IF x \in Commands THEN x ELSE "none"
  <2> DEFINE q == <<x>>
  <2>1. q # <<>> /\ Head(q) = x /\ Len(q) = 1
    OBVIOUS
  <2> HIDE DEF q
  <2>2. CommandOf(q) = IF x \in Commands THEN x ELSE "none"
    BY <2>1 DEF CommandOf
  <2>3. FirstLine(lines) = q
    BY DEF q
  <2> QED BY <2>2, <2>3
<1>2. \A d : TakeLine(d) => d = c
  BY DEF TakeLine
<1> HIDE DEF c
<1>3. SkipLine \/ RefuseLine \/ BeginBlock \/ EndBlock \/ ExpectReset \/ OtherCommand
  BY HostActs
<1>4. SkipLine => c = "none"
  BY <1>2 DEF SkipLine
<1>5. RefuseLine => c \in Commands /\ Misplaced(c)
  BY <1>2 DEF RefuseLine
<1>6. BeginBlock => c = "BEGIN"
  BY <1>2 DEF BeginBlock
<1>7. EndBlock => c = "END"
  BY <1>2 DEF EndBlock
<1>8. ExpectReset => c \in ResetCommands
  BY <1>2 DEF ExpectReset
<1>9. OtherCommand => c \in (Commands \cup {"malformed"}) \ ({"BEGIN", "END"} \cup ResetCommands)
  BY <1>2 DEF OtherCommand
<1>10. "none" \notin Commands /\ "malformed" \notin Commands /\ "BEGIN" \in Commands /\ "END" \in Commands
       /\ ResetCommands \subseteq Commands \ {"BEGIN", "END"}
  BY DEF Commands, Sends, ResetCommands
<1>11. x \notin Commands => SkipLine
  BY <1>1, <1>3, <1>5, <1>6, <1>7, <1>8, <1>9, <1>10
<1>12. x = "BEGIN" /\ ~block.open => BeginBlock
  <2>1. SUFFICES ASSUME x = "BEGIN", ~block.open PROVE BeginBlock
    OBVIOUS
  <2>2. c = "BEGIN"
    BY <2>1, <1>1, <1>10
  <2>3. ~Misplaced("BEGIN")
    BY <2>1 DEF Misplaced, ResetCommands
  <2> QED BY <2>2, <2>3, <1>3, <1>4, <1>5, <1>7, <1>8, <1>9, <1>10
<1>13. x = "END" /\ block.open => EndBlock
  <2>1. SUFFICES ASSUME x = "END", block.open PROVE EndBlock
    OBVIOUS
  <2>2. c = "END"
    BY <2>1, <1>1, <1>10
  <2>3. ~Misplaced("END")
    BY <2>1 DEF Misplaced, ResetCommands
  <2> QED BY <2>2, <2>3, <1>3, <1>4, <1>5, <1>6, <1>8, <1>9, <1>10
<1>14. x \in ResetCommands /\ ~block.open /\ expected_reset = "none" => ExpectReset
  <2>1. SUFFICES ASSUME x \in ResetCommands, ~block.open, expected_reset = "none" PROVE ExpectReset
    OBVIOUS
  <2>2. c = x
    BY <2>1, <1>1, <1>10
  <2>3. ~Misplaced(c)
    BY <2>1, <2>2 DEF Misplaced, ResetCommands
  <2> QED BY <2>1, <2>2, <2>3, <1>3, <1>4, <1>5, <1>6, <1>7, <1>9, <1>10
<1>15. x \in Commands \ ({"BEGIN", "END"} \cup ResetCommands) => OtherCommand
  <2>1. SUFFICES ASSUME x \in Commands \ ({"BEGIN", "END"} \cup ResetCommands) PROVE OtherCommand
    OBVIOUS
  <2>2. c = x
    BY <2>1, <1>1
  <2>3. ~Misplaced(c)
    BY <2>1, <2>2 DEF Misplaced
  <2> QED BY <2>1, <2>2, <2>3, <1>3, <1>4, <1>5, <1>6, <1>7, <1>8, <1>10
<1> QED BY <1>11, <1>12, <1>13, <1>14, <1>15

\* What a line that is dealt with leaves behind
LEMMA LineLeft ==
    ASSUME Types, LinesEnd, lines # <<>>, NEW c, TakeLine(c), NextLine,
           NEW T, T \subseteq Texts, NEW U \in Seq(T), NEW e \in 0 .. 1, Lined(Untaken, U, e)
    PROVE  /\ LinesEnd' /\ Lined(Untaken', Tail(U), e)
           /\ UNCHANGED <<program, ended, phoneSpeed, fifo, detected, output, hostSpeed, pending, newline, terminator>>
<1>1. UNCHANGED <<program, ended, phoneSpeed, fifo, detected, output, hostSpeed, pending, newline, terminator>>
      /\ lines' = OtherLines(lines)
  BY DEF TakeLine, NextLine, phone, line
<1>2. lines \in Seq(Symbols) /\ pending \in Seq(Symbols) /\ output \in Seq(Symbols)
  BY SeqMono DEF Types, Texts
<1> DEFINE q == pending \o output
<1>3. q \in Seq(Symbols)
  BY <1>2, ConcatProperties
<1>4. Untaken = lines \o q /\ Untaken' = lines' \o q
  BY <1>1 DEF Untaken
<1> HIDE DEF q
<1>5. lines[Len(lines)] = "newline"
  BY DEF LinesEnd
<1>6. /\ Lined(OtherLines(lines) \o q, Tail(U), e)
      /\ OtherLines(lines) # <<>> => OtherLines(lines)[Len(OtherLines(lines))] = "newline"
  BY <1>2, <1>3, <1>4, <1>5, FirstOf
<1> QED BY <1>1, <1>4, <1>6 DEF LinesEnd

\* The first of the lines is the first text.
LEMMA LineIs ==
    ASSUME Types, LinesEnd, lines # <<>>,
           NEW T, T \subseteq Texts, NEW U \in Seq(T), NEW e \in 0 .. 1, Lined(Untaken, U, e)
    PROVE  U # <<>> /\ FirstLine(lines) = <<U[1]>>
<1>2. lines \in Seq(Symbols) /\ pending \in Seq(Symbols) /\ output \in Seq(Symbols)
  BY SeqMono DEF Types, Texts
<1> DEFINE q == pending \o output
<1>3. q \in Seq(Symbols)
  BY <1>2, ConcatProperties
<1>4. Untaken = lines \o q
  BY DEF Untaken
<1> HIDE DEF q
<1>5. lines[Len(lines)] = "newline"
  BY DEF LinesEnd
<1> QED BY <1>2, <1>3, <1>4, <1>5, FirstOf

\* The end of a chunk without a completion byte and without an announcement
LEMMA ChunkLeft ==
    ASSUME Types, EndOfChunk, ~terminator, expected_reset = "none"
    PROVE  /\ host = "lines" /\ lines = <<>> /\ host' = "reading"
           /\ UNCHANGED <<program, ended, phoneSpeed, fifo, detected, output, hostSpeed, pending, newline, lines,
                          terminator, block, expected_reset, queue>>
           /\ LinesEnd' /\ Untaken' = Untaken
<1>1. /\ host = "lines" /\ lines = <<>> /\ host' = "reading" /\ UNCHANGED <<phone, line>>
      /\ UNCHANGED <<hostSpeed, pending, newline, lines, terminator, block, expected_reset, queue>>
  BY DEF EndOfChunk
<1>2. UNCHANGED <<program, ended, phoneSpeed, fifo, detected, output>>
  BY <1>1 DEF phone, line
<1> QED BY <1>1, <1>2 DEF LinesEnd, Untaken

\* The host has executed a block and forgets it.
LEMMA BlockLeft ==
    ASSUME CommandsDone
    PROVE  /\ host = "executing" /\ queue = <<>> /\ host' = "lines" /\ block' = NoBlock
           /\ UNCHANGED <<program, ended, phoneSpeed, fifo, detected, output, hostSpeed, pending, newline, lines,
                          terminator, expected_reset, queue>>
           /\ LinesEnd => LinesEnd'
           /\ Untaken' = Untaken
<1>1. /\ host = "executing" /\ queue = <<>> /\ host' = "lines" /\ block' = NoBlock
      /\ UNCHANGED <<program, ended, phoneSpeed, fifo, detected, output, hostSpeed, pending, newline, lines,
                     terminator, expected_reset, queue>>
  BY DEF CommandsDone, phone, line
<1> QED BY <1>1 DEF LinesEnd, Untaken

\* The block as it grows
LEMMA ParsedIs ==
    /\ Parsed(7) = [open |-> TRUE, commands |-> <<>>, configuration |-> Console]
    /\ \A u \in 1 .. 7 : Parsed(u).open
    /\ \A u \in Nat : u >= 8 => Parsed(u) = NoBlock
    /\ \A u \in 2 .. 7 : Parsed(u - 1) = [Parsed(u) EXCEPT !.commands = Append(@, BlockLines[9 - u])]
<1>1. Parsed(7) = [open |-> TRUE, commands |-> <<>>, configuration |-> Console]
  <2> DEFINE B == BlockLines
  <2>1. B \in Seq(Texts)
    BY BlockLinesIs
  <2> HIDE DEF B
  <2>2. SubSeq(B, 2, 1) = <<>>
    BY <2>1, SubSeqEmpty
  <2>3. Parsed(7) = [open |-> TRUE, commands |-> SubSeq(BlockLines, 2, 8 - 7), configuration |-> Console]
    BY DEF Parsed
  <2>4. 8 - 7 = 1
    OBVIOUS
  <2> QED BY <2>2, <2>3, <2>4 DEF B
<1>2. \A u \in 1 .. 7 : Parsed(u).open
  BY DEF Parsed
<1>3. \A u \in Nat : u >= 8 => Parsed(u) = NoBlock
  BY DEF Parsed
<1>4. ASSUME NEW u \in 2 .. 7
      PROVE  Parsed(u - 1) = [Parsed(u) EXCEPT !.commands = Append(@, BlockLines[9 - u])]
  <2>1. SubSeq(BlockLines, 2, 8 - (u - 1)) = Append(SubSeq(BlockLines, 2, 8 - u), BlockLines[9 - u])
    <3> DEFINE B == BlockLines
    <3>1. B \in Seq(Texts) /\ Len(B) = 8
      BY BlockLinesIs
    <3> HIDE DEF B
    <3>2. u \in {2, 3, 4, 5, 6, 7}
      OBVIOUS
    <3>3. 2 \in 1 .. Len(B) /\ 9 - u \in 2 .. Len(B)
      BY <3>1
    <3>4. SubSeq(B, 2, 9 - u) = SubSeq(B, 2, (9 - u) - 1) \o <<B[9 - u]>>
      BY <3>1, <3>3, SubSeqRecursiveSecond
    <3> DEFINE a == SubSeq(B, 2, 8 - u)
    <3>5. a \in Seq(Texts) /\ B[9 - u] \in Texts
      <4>1. 8 - u \in Int /\ 8 - u <= Len(B) /\ 2 \in Nat /\ 1 <= 2
        BY <3>1
      <4>2. a \in Seq(Texts)
        BY <3>1, <4>1, SeqPart
      <4>3. 9 - u \in 1 .. Len(B)
        BY <3>1
      <4> QED BY <4>2, <4>3, <3>1, ElementOfSeq
    <3>6. (9 - u) - 1 = 8 - u /\ 8 - (u - 1) = 9 - u
      OBVIOUS
    <3> HIDE DEF a
    <3>7. Append(a, B[9 - u]) = a \o <<B[9 - u]>>
      BY <3>5, AppendIsConcat
    <3>8. SubSeq(B, 2, 8 - (u - 1)) = a \o <<B[9 - u]>>
      BY <3>4, <3>6 DEF a
    <3> QED BY <3>7, <3>8 DEF a, B
  <2>2. ~(u >= 8) /\ ~(u - 1 >= 8)
    OBVIOUS
  <2>3. Parsed(u) = [open |-> TRUE, commands |-> SubSeq(BlockLines, 2, 8 - u), configuration |-> Console]
    BY <2>2 DEF Parsed
  <2>4. Parsed(u - 1) = [open |-> TRUE, commands |-> SubSeq(BlockLines, 2, 8 - (u - 1)), configuration |-> Console]
    BY <2>2 DEF Parsed
  <2> DEFINE a == SubSeq(BlockLines, 2, 8 - u)
             y == BlockLines[9 - u]
             b == SubSeq(BlockLines, 2, 8 - (u - 1))
  <2> HIDE DEF a, y, b
  <2>5. b = Append(a, y)
    BY <2>1 DEF a, y, b
  <2>6. [open |-> TRUE, commands |-> b, configuration |-> Console]
            = [[open |-> TRUE, commands |-> a, configuration |-> Console] EXCEPT !.commands = Append(@, y)]
    <3> DEFINE t == TRUE
    <3> HIDE DEF t
    <3>1. [open |-> t, commands |-> b, configuration |-> Console]
            = [[open |-> t, commands |-> a, configuration |-> Console] EXCEPT !.commands = Append(@, y)]
      BY <2>5
    <3> QED BY <3>1 DEF t
  <2> QED BY <2>3, <2>4, <2>6 DEF a, y, b
<1> QED BY <1>1, <1>2, <1>3, <1>4

\* A line of the block, or a result before it, is dealt with.
LEMMA ParsingLine ==
    ASSUME Types, Types', Quick, LinesEnd, HostSteps, host = "lines", lines # <<>>, AtCase(10), Quiet,
           NEW U \in Seq(Texts), Lined(Untaken, U, 0), InBlock(U, 8), block = Parsed(Len(U))
    PROVE  LockStep'
<1> DEFINE u == Len(U)
           V == Tail(U)
           x == U[1]
<1>1. U # <<>> /\ FirstLine(lines) = <<x>>
  BY LineIs
<1>2. u \in Nat /\ u >= 1 /\ V \in Seq(Texts) /\ Len(V) = u - 1
  BY <1>1
<1>3. InBlock(V, 8)
  BY <1>1, InBlockFewer
<1>4. IF 1 + 8 > u THEN x = BlockLines[8 + 1 - u] ELSE x \in Verdicts
  BY <1>2 DEF InBlock
<1>5. ASSUME NEW c, TakeLine(c), NextLine
      PROVE  /\ LinesEnd' /\ Lined(Untaken', V, 0)
             /\ AtCase(10)' /\ BothAt(Console)' /\ fifo' = <<>> /\ ~terminator' /\ hostSpeed = Console
  <2>1. LinesEnd' /\ Lined(Untaken', V, 0)
    BY <1>5, LineLeft
  <2>2. UNCHANGED <<program, phoneSpeed, fifo, hostSpeed, terminator>>
    BY <1>5, LineLeft
  <2> QED BY <2>1, <2>2 DEF Quiet, BothAt, AtCase
<1>6. ASSUME LinesEnd', Lined(Untaken', V, 0), AtCase(10)', BothAt(Console)', fifo' = <<>>, ~terminator',
             host' = "lines", UNCHANGED <<queue, expected_reset>>, u > 1, block' = Parsed(u - 1)
      PROVE  LockStep'
  <2>1. Quiet' /\ Looking'
    BY <1>6 DEF Quiet, Looking
  <2>2. Len(V) > 0 /\ block' = Parsed(Len(V))
    BY <1>2, <1>6
  <2> HIDE DEF V
  <2>3. Parsing'
    BY <2>1, <2>2, <1>2, <1>3, <1>6 DEF Parsing
  <2> QED BY <2>3, <1>6 DEF LockStep, Phases
<1> HIDE DEF u, V, x
<1>7. CASE u >= 9
  <2>1. x \in Verdicts
    BY <1>2, <1>4, <1>7
  <2>2. SkipLine
    <3>1. x \notin Commands
      BY <2>1 DEF Verdicts, Commands, Sends
    <3> QED BY <3>1, <1>1, LineActs
  <2>3. TakeLine("none") /\ NextLine /\ UNCHANGED <<host, block, queue, expected_reset>>
    BY <2>2 DEF SkipLine
  <2>4. block' = Parsed(u - 1)
    <3>1. Parsed(u) = NoBlock /\ Parsed(u - 1) = NoBlock
      <4>1. u \in Nat /\ u >= 8 /\ u - 1 \in Nat /\ u - 1 >= 8
        BY <1>2, <1>7
      <4> QED BY <4>1, ParsedIs
    <3>2. block = Parsed(u)
      BY DEF u
    <3> QED BY <3>1, <3>2, <2>3
  <2>5. u > 1
    BY <1>2, <1>7
  <2> QED BY <2>3, <2>4, <2>5, <1>5, <1>6
<1>8. CASE u = 8
  <2>1. x = "BEGIN"
    BY <1>4, <1>8, BlockLinesIs
  <2>2. block = NoBlock /\ ~block.open
    <3>1. block = Parsed(u) /\ u \in Nat /\ u >= 8
      BY <1>8 DEF u
    <3>2. block = NoBlock
      BY <3>1, ParsedIs
    <3> QED BY <3>2 DEF NoBlock
  <2>3. BeginBlock
    BY <1>1, <2>1, <2>2, LineActs
  <2>4. /\ TakeLine("BEGIN") /\ NextLine /\ UNCHANGED <<host, queue, expected_reset>>
        /\ block' = [open |-> TRUE, commands |-> <<>>, configuration |-> hostSpeed]
    BY <2>3 DEF BeginBlock
  <2>5. hostSpeed = Console
    BY <2>4, <1>5
  <2>6. block' = Parsed(u - 1)
    <3>1. u - 1 = 7
      BY <1>8
    <3> QED BY <3>1, <2>4, <2>5, ParsedIs
  <2> QED BY <2>4, <2>6, <1>5, <1>6, <1>8
<1>9. CASE u \in 2 .. 7
  <2>1. x = BlockLines[9 - u]
    <3>1. 8 + 1 - u = 9 - u /\ 1 + 8 > u
      BY <1>9
    <3> QED BY <3>1, <1>4
  <2>2. x \in Commands \ ({"BEGIN", "END"} \cup ResetCommands)
    <3>1. 9 - u \in {2, 3, 4, 5, 6, 7}
      BY <1>9
    <3> QED BY <3>1, <2>1, BlockLinesIs DEF Commands, Sends, ResetCommands
  <2>3. block.open
    <3>1. block = Parsed(u) /\ u \in 1 .. 7
      BY <1>9 DEF u
    <3> QED BY <3>1, ParsedIs
  <2>4. OtherCommand
    BY <1>1, <2>2, LineActs
  <2>5. PICK c : /\ TakeLine(c) /\ NextLine /\ UNCHANGED <<host, queue, expected_reset>>
                 /\ block' = [block EXCEPT !.commands = Append(@, c)]
    BY <2>3, <2>4 DEF OtherCommand
  <2>6. c = x
    <3>1. c = CommandOf(<<x>>)
      BY <2>5, <1>1 DEF TakeLine
    <3> DEFINE q == <<x>>
    <3>2. q # <<>> /\ Head(q) = x /\ Len(q) = 1
      OBVIOUS
    <3> HIDE DEF q
    <3>3. CommandOf(q) = x
      BY <3>2, <2>2 DEF CommandOf
    <3> QED BY <3>1, <3>3 DEF q
  <2>7. block' = Parsed(u - 1)
    BY <2>1, <2>5, <2>6, <1>9, ParsedIs DEF u
  <2> QED BY <2>5, <2>7, <1>5, <1>6, <1>9
<1>10. CASE u = 1
  <2>1. x = "END"
    BY <1>4, <1>10, BlockLinesIs
  <2>2. block.open
    BY <1>10, ParsedIs DEF u
  <2>3. EndBlock
    BY <1>1, <2>1, <2>2, LineActs
  <2>4. /\ TakeLine("END") /\ NextLine /\ UNCHANGED <<block, expected_reset>>
        /\ queue' = block.commands /\ host' = "executing"
    BY <2>3 DEF EndBlock
  <2>5. /\ LinesEnd' /\ Lined(Untaken', V, 0)
        /\ AtCase(10)' /\ BothAt(Console)' /\ fifo' = <<>> /\ ~terminator'
    BY <2>4, <1>5
  <2>6. NothingTaken' /\ output' = <<>>
    <3>1. Len(V) = 0
      BY <1>2, <1>10
    <3> QED BY <3>1, <2>5, <1>2, AllTakenNext
  <2>7. block' = Parsed(1) /\ block'.open /\ block'.configuration = Console
    <3>1. block' = Parsed(1)
      BY <2>4, <1>10 DEF u
    <3> QED BY <3>1 DEF Parsed
  <2>8. Len(queue') = 6 /\ \A i \in 1 .. Len(queue') : queue'[i] = BlockLines[7 - Len(queue') + i]
    <3> DEFINE B == BlockLines
               q == SubSeq(B, 2, 7)
    <3>1. B \in Seq(Texts) /\ Len(B) = 8
      BY BlockLinesIs
    <3>2. queue' = q
      <4>1. Parsed(1).commands = q
        BY DEF Parsed
      <4> QED BY <4>1, <2>4, <1>10 DEF u
    <3> HIDE DEF B
    <3>3. Len(q) = 6 /\ \A i \in 1 .. Len(q) : q[i] = B[2 + i - 1]
      BY <3>1, SeqPart
    <3> HIDE DEF q
    <3>4. \A i \in 1 .. 6 : 2 + i - 1 = 7 - 6 + i
      OBVIOUS
    <3>5. \A i \in 1 .. 6 : q[i] = B[7 - 6 + i]
      BY <3>3, <3>4
    <3> QED BY <3>2, <3>3, <3>5 DEF B
  <2>9. InStep'
    <3>1. Len(queue') = 6 /\ phoneSpeed' = Console /\ hostSpeed' = Console
      BY <2>5, <2>8 DEF BothAt
    <3>2. At(6, 10, <<>>, <<>>, Console, Console)'
      BY <3>1, <2>5, <2>6 DEF At
    <3> QED BY <3>2 DEF InStep
  <2>10. AtBlock'
    BY <2>4, <2>5, <2>6, <2>7, <2>8 DEF AtBlock, Quiet
  <2> QED BY <2>5, <2>9, <2>10 DEF LockStep, Phases, Executing
<1> QED BY <1>2, <1>7, <1>8, <1>9, <1>10

\* The phone waits for its trigger while the host goes through the block.
LEMMA ParsingPhase ==
    ASSUME Types, Types', Quick, LinesEnd, Parsing, PhoneSteps \/ HostSteps
    PROVE  LockStep'
<1>1. PICK U \in Seq(Texts) :
        /\ AtCase(10) /\ Quiet
        /\ Lined(Untaken, U, 0) /\ Len(U) > 0 /\ InBlock(U, 8)
        /\ \/ Looking /\ block = Parsed(Len(U))
           \/ Resting /\ Len(U) >= 8
  BY DEF Parsing
<1>2. Len(U) \in Nat /\ (Len(U) >= 8 => Parsed(Len(U)) = NoBlock)
  <2> DEFINE u == Len(U)
  <2>1. u \in Nat
    OBVIOUS
  <2> HIDE DEF u
  <2>2. u >= 8 => Parsed(u) = NoBlock
    BY <2>1, ParsedIs
  <2> QED BY <2>1, <2>2 DEF u
<1>3. /\ BothAt(Console) /\ fifo = <<>> /\ queue = <<>> /\ ~terminator /\ expected_reset = "none"
      /\ host \in {"reading", "lines", "executing"}
      /\ host = "reading" => lines = <<>> /\ block = Parsed(Len(U))
      /\ host = "lines" => block = Parsed(Len(U))
  BY <1>1, <1>2 DEF Quiet, Looking, Resting, NothingTaken
<1>4. ASSUME LinesEnd', UNCHANGED <<program, phoneSpeed, hostSpeed, fifo, queue>>, ~terminator', expected_reset' = "none",
             Lined(Untaken', U, 0), Looking', block' = Parsed(Len(U))
      PROVE  LockStep'
  <2>1. AtCase(10)' /\ Quiet'
    BY <1>1, <1>3, <1>4 DEF AtCase, Quiet, BothAt
  <2>2. Parsing'
    BY <2>1, <1>1, <1>4 DEF Parsing
  <2> QED BY <2>2, <1>4 DEF LockStep, Phases
<1>5. ~PhoneSteps
  <2>1. SUFFICES ASSUME PhoneSteps PROVE FALSE
    OBVIOUS
  <2>2. Head(program) = "await"
    BY <1>1, CaseHead, CaseIs
  <2>3. AwaitTrigger
    BY <2>1, <2>2, PhoneActs
  <2>4. host = "reading" /\ output = <<>> /\ lines = <<>>
    BY <2>3, <1>3 DEF AwaitTrigger, HostIsIdle
  <2>5. pending \in Seq(Texts) /\ Untaken = pending
    BY <2>4, ConcatEmptySeq DEF Types, Untaken
  <2> DEFINE s == pending
             u == Len(U)
  <2>6. s \in Seq(Texts) /\ u \in Nat /\ u > 0 /\ Len(s) = 2 * u + 0 /\ \A i \in 1 .. u : s[2 * i] = "newline"
    BY <2>5, <1>1, <1>2 DEF Lined
  <2> HIDE DEF s, u
  <2>7. s[2 * 1] = "newline" /\ 2 * 1 \in 1 .. Len(s)
    BY <2>6
  <2>8. s[2 * 1] \in Texts
    BY <2>6, <2>7, ElementOfSeq
  <2> QED BY <2>7, <2>8 DEF Texts
<1>6. CASE host = "reading"
  <2>1. ReadChunk
    BY <1>5, <1>6, HostActs
  <2>2. /\ UNCHANGED <<phone, hostSpeed, block, queue>>
        /\ host' = "lines" /\ expected_reset' = "none" /\ LinesEnd'
        /\ ~terminator' /\ Lined(Untaken', U, 0)
    BY <2>1, <1>1, <1>3, <1>6, ChunkTaken
  <2>3. UNCHANGED <<program, phoneSpeed, fifo>>
    BY <2>2 DEF phone
  <2>4. Looking' /\ block' = Parsed(Len(U))
    BY <2>2, <1>3, <1>6 DEF Looking
  <2> QED BY <2>2, <2>3, <2>4, <1>4
<1>7. CASE host = "executing"
  <2>1. CommandsDone
    BY <1>3, <1>5, <1>7, HostActs
  <2>2. Len(U) >= 8
    BY <1>1, <1>7 DEF Looking
  <2>3. Looking' /\ block' = Parsed(Len(U))
    BY <2>1, <2>2, <1>2, BlockLeft DEF Looking
  <2> QED BY <2>1, <2>3, <1>1, <1>3, <1>4, BlockLeft
<1>8. CASE host = "lines" /\ lines = <<>>
  <2>1. EndOfChunk
    BY <1>5, <1>8, HostActs
  <2>2. /\ host' = "reading"
        /\ UNCHANGED <<program, phoneSpeed, fifo, hostSpeed, lines, terminator, block, expected_reset, queue>>
        /\ LinesEnd' /\ Untaken' = Untaken
    BY <2>1, <1>3, ChunkLeft
  <2>3. Looking' /\ block' = Parsed(Len(U))
    BY <2>2, <1>3, <1>8 DEF Looking
  <2> QED BY <2>2, <2>3, <1>1, <1>3, <1>4
<1>9. CASE host = "lines" /\ lines # <<>>
  BY <1>1, <1>3, <1>5, <1>9, ParsingLine
<1> QED BY <1>3, <1>6, <1>7, <1>8, <1>9

\* A phone that waits for what the host executes goes on waiting.
LEMMA NoTimeout ==
    ASSUME Quick, PhoneSteps, host \in {"executing", "lines", "observing"}, fifo = <<>>
    PROVE  Head(program) \notin {"await", "detect", "release"}
<1>1. ~HostIsIdle
  BY DEF HostIsIdle
<1>2. ~AwaitTrigger
  BY <1>1 DEF AwaitTrigger
<1>3. ~Detect
  BY <1>1 DEF Detect
<1>4. ~Release
  BY DEF Release
<1> QED BY <1>2, <1>3, <1>4, PhoneActs

\* The phone takes a step while the host executes a block.
LEMMA BlockStays ==
    ASSUME AtBlock, UNCHANGED hostVars
    PROVE  AtBlock' /\ LinesEnd' /\ UNCHANGED <<queue, hostSpeed>>
<1>1. UNCHANGED <<host, hostSpeed, pending, lines, terminator, block, queue, expected_reset>>
  BY HostRests
<1>2. NothingTaken'
  BY <1>1 DEF AtBlock, NothingTaken
<1> QED BY <1>1, <1>2 DEF AtBlock, NothingTaken, LinesEnd

\* The host executes the next command of the block.
LEMMA CommandActs ==
    ASSUME Types, Quick, AtBlock, HostSteps, NEW q \in 1 .. 6, Len(queue) = q
    PROVE  /\ queue # <<>> /\ Head(queue) = BlockLines[8 - q]
           /\ BlockLines[8 - q] \in Sends => SendData
           /\ BlockLines[8 - q] = "EXPECT_ready" => ExpectReady
           /\ BlockLines[8 - q] \in {"BAUDRATE", "RESTORE"} => ChangeSpeed
<1> DEFINE x == BlockLines[8 - q]
<1>1. queue # <<>> /\ Head(queue) = x
  <2>1. queue \in Seq(Commands \cup {"malformed"})
    BY DEF Types
  <2>2. queue # <<>> /\ 1 \in 1 .. Len(queue) /\ 7 - q + 1 = 8 - q
    BY <2>1
  <2>3. queue[1] = BlockLines[7 - q + 1]
    BY <2>2 DEF AtBlock
  <2> QED BY <2>1, <2>2, <2>3
<1>2. host = "executing" /\ block.open
  BY DEF AtBlock
<1>3. SendData \/ ExpectReady \/ ChangeSpeed \/ RefuseCommand
  BY <1>1, <1>2, HostActs
<1>4. x \in {"SEND_trigger", "SEND_frame", "EXPECT_ready", "BAUDRATE", "RESTORE"}
  <2>1. 8 - q \in {2, 3, 4, 5, 6, 7}
    OBVIOUS
  <2> QED BY <2>1, BlockLinesIs
<1> HIDE DEF x
<1>5. \A c : TakeCommand(c) => c = x
  BY <1>1 DEF TakeCommand
<1>6. /\ SendData => x \in Sends
      /\ ExpectReady => x = "EXPECT_ready"
      /\ ChangeSpeed => x \in {"BAUDRATE", "RESTORE"}
      /\ ~RefuseCommand
  <2>1. SendData => x \in Sends
    BY <1>5 DEF SendData
  <2>2. ExpectReady => x = "EXPECT_ready"
    BY <1>5 DEF ExpectReady
  <2>3. ChangeSpeed => x \in {"BAUDRATE", "RESTORE"}
    BY <1>5 DEF ChangeSpeed
  <2>4. ~RefuseCommand
    BY <1>2, <1>4, <1>5 DEF RefuseCommand
  <2> QED BY <2>1, <2>2, <2>3, <2>4
<1> QED BY <1>1, <1>3, <1>6 DEF Sends, x

\* What a command leaves behind
LEMMA CommandLeft ==
    ASSUME Types, AtBlock, queue # <<>>, NextCommand
    PROVE  AtBlock' /\ LinesEnd' /\ Len(queue') = Len(queue) - 1
<1>1. UNCHANGED <<host, pending, lines, terminator, block, expected_reset>> /\ queue' = Tail(queue)
  BY DEF NextCommand, parser
<1> DEFINE l == Len(queue)
           t == Tail(queue)
           B == BlockLines
<1>2. queue \in Seq(Commands \cup {"malformed"})
  BY DEF Types
<1>3. l \in Nat /\ l >= 1 /\ Len(t) = l - 1 /\ \A i \in 1 .. l - 1 : t[i] = queue[i + 1]
  BY <1>2
<1>4. \A i \in 1 .. l : queue[i] = B[7 - l + i]
  BY DEF AtBlock
<1> HIDE DEF l, t, B
<1>5. \A i \in 1 .. l - 1 : t[i] = B[7 - (l - 1) + i]
  <2>1. SUFFICES ASSUME NEW i \in 1 .. l - 1 PROVE t[i] = B[7 - (l - 1) + i]
    OBVIOUS
  <2>2. i + 1 \in 1 .. l /\ 7 - l + (i + 1) = 7 - (l - 1) + i
    BY <1>3
  <2> QED BY <2>2, <1>3, <1>4
<1>6. \A i \in 1 .. Len(t) : t[i] = B[7 - Len(t) + i]
  BY <1>3, <1>5
<1>7. NothingTaken'
  BY <1>1 DEF AtBlock, NothingTaken
<1>8. \A i \in 1 .. Len(queue') : queue'[i] = BlockLines[7 - Len(queue') + i]
  BY <1>1, <1>6 DEF t, B
<1>9. AtBlock'
  BY <1>1, <1>7, <1>8 DEF AtBlock
<1> QED BY <1>1, <1>3, <1>7, <1>9 DEF NothingTaken, LinesEnd, l, t

\* The phone's steps while the host executes a block
LEMMA PhoneStage ==
    ASSUME Types, Quick, AtBlock, InStep, PhoneSteps, Len(queue) > 0 \/ ~AtCase(16)
    PROVE  AtBlock' /\ LinesEnd' /\ InStep'
<1>1. host = "executing"
  BY DEF AtBlock
<1>2. ASSUME UNCHANGED hostVars, program' = Tail(program), NEW p \in 1 .. 15, AtCase(p)
      PROVE  AtBlock' /\ LinesEnd' /\ UNCHANGED <<queue, hostSpeed>> /\ AtCase(p + 1)'
  BY <1>2, BlockStays, CaseNext
<1>3. ASSUME At(6, 10, <<>>, <<>>, Console, Console) PROVE FALSE
  <2>1. fifo = <<>> /\ Head(program) = "await"
    BY <1>3, CaseHead, CaseIs DEF At
  <2> QED BY <2>1, <1>1, NoTimeout
<1>4. ASSUME At(5, 10, <<"trigger">>, <<>>, Console, Console) PROVE AtBlock' /\ LinesEnd' /\ InStep'
  <2>1. Head(program) = "await" /\ fifo = <<"trigger">> /\ AtCase(10)
    BY <1>4, CaseHead, CaseIs DEF At
  <2>2. AwaitTrigger
    BY <2>1, PhoneActs
  <2>3. fifo # <<>> /\ Tail(fifo) = <<>>
    BY <2>1
  <2>4. fifo' = <<>> /\ program' = Tail(program) /\ UNCHANGED <<phoneSpeed, output, hostVars>>
    BY <2>2, <2>3 DEF AwaitTrigger, Done, line
  <2>5. AtBlock' /\ LinesEnd' /\ UNCHANGED <<queue, hostSpeed>> /\ AtCase(10 + 1)'
    BY <2>1, <2>4, <1>2
  <2>6. At(5, 11, <<>>, <<>>, Console, Console)'
    BY <2>4, <2>5, <1>4 DEF At
  <2> QED BY <2>5, <2>6 DEF InStep
<1>5. ASSUME At(5, 11, <<>>, <<>>, Console, Console) PROVE AtBlock' /\ LinesEnd' /\ InStep'
  <2>1. Head(program) = "ready" /\ AtCase(11) /\ output = <<>> /\ phoneSpeed = hostSpeed
    BY <1>5, CaseHead, CaseIs DEF At
  <2>2. NotifyReady
    BY <2>1, PhoneActs
  <2>3. output' = <<>> \o <<"ready">> /\ program' = Tail(program) /\ UNCHANGED <<fifo, phoneSpeed, hostVars>>
    BY <2>1, <2>2 DEF NotifyReady, Done, Emit
  <2>4. output' = <<"ready">>
    BY <2>3
  <2>5. AtBlock' /\ LinesEnd' /\ UNCHANGED <<queue, hostSpeed>> /\ AtCase(11 + 1)'
    BY <2>1, <2>3, <1>2
  <2>6. At(5, 12, <<>>, <<"ready">>, Console, Console)'
    BY <2>3, <2>4, <2>5, <1>5 DEF At
  <2> QED BY <2>5, <2>6 DEF InStep
<1>6. ASSUME At(5, 12, <<>>, <<"ready">>, Console, Console) PROVE AtBlock' /\ LinesEnd' /\ InStep'
  <2>1. Head(program) = "configure" /\ AtCase(12)
    BY <1>6, CaseHead, CaseIs DEF At
  <2>2. Configure
    BY <2>1, PhoneActs
  <2>3. /\ fifo' = <<>> /\ phoneSpeed' = Test /\ program' = Tail(program)
        /\ UNCHANGED <<output, hostVars>>
    BY <2>1, <2>2 DEF Configure, Done, Step, line
  <2>4. AtBlock' /\ LinesEnd' /\ UNCHANGED <<queue, hostSpeed>> /\ AtCase(12 + 1)'
    BY <2>1, <2>3, <1>2
  <2>5. At(5, 13, <<>>, <<"ready">>, Test, Console)'
    BY <2>3, <2>4, <1>6 DEF At
  <2> QED BY <2>4, <2>5 DEF InStep
<1>7. ASSUME fifo = <<>>, AtCase(13) \/ AtCase(15) PROVE FALSE
  <2>1. Head(program) \in {"detect", "await"}
    BY <1>7, CaseHead, CaseIs
  <2> QED BY <2>1, <1>1, <1>7, NoTimeout
<1>8. ASSUME At(2, 13, <<"frame">>, <<>>, Test, Test) PROVE AtBlock' /\ LinesEnd' /\ InStep'
  <2>1. Head(program) = "detect" /\ fifo = <<"frame">> /\ AtCase(13)
    BY <1>8, CaseHead, CaseIs DEF At
  <2>2. Detect
    BY <2>1, PhoneActs
  <2>3. fifo # <<>> /\ Tail(fifo) = <<>> /\ Head(fifo) = "frame"
    BY <2>1
  <2>4. fifo' = <<>> /\ program' = Tail(program) /\ UNCHANGED <<phoneSpeed, output, hostVars>>
    BY <2>2, <2>3 DEF Detect, Done, line
  <2>5. AtBlock' /\ LinesEnd' /\ UNCHANGED <<queue, hostSpeed>> /\ AtCase(13 + 1)'
    BY <2>1, <2>4, <1>2
  <2>6. At(2, 14, <<>>, <<>>, Test, Test)'
    BY <2>4, <2>5, <1>8 DEF At
  <2> QED BY <2>5, <2>6 DEF InStep
<1>9. ASSUME At(2, 14, <<>>, <<>>, Test, Test) PROVE AtBlock' /\ LinesEnd' /\ InStep'
  <2>1. Head(program) = "restore" /\ AtCase(14)
    BY <1>9, CaseHead, CaseIs DEF At
  <2>2. Configure
    BY <2>1, PhoneActs
  <2>3. /\ fifo' = <<>> /\ phoneSpeed' = Console /\ program' = Tail(program)
        /\ UNCHANGED <<output, hostVars>>
    BY <2>1, <2>2 DEF Configure, Done, Step, line
  <2>4. AtBlock' /\ LinesEnd' /\ UNCHANGED <<queue, hostSpeed>> /\ AtCase(14 + 1)'
    BY <2>1, <2>3, <1>2
  <2>5. At(2, 15, <<>>, <<>>, Console, Test)'
    BY <2>3, <2>4, <1>9 DEF At
  <2> QED BY <2>4, <2>5 DEF InStep
<1>10. ASSUME At(0, 15, <<"trigger">>, <<>>, Console, Console) PROVE AtBlock' /\ LinesEnd' /\ InStep'
  <2>1. Head(program) = "await" /\ fifo = <<"trigger">> /\ AtCase(15)
    BY <1>10, CaseHead, CaseIs DEF At
  <2>2. AwaitTrigger
    BY <2>1, PhoneActs
  <2>3. fifo # <<>> /\ Tail(fifo) = <<>>
    BY <2>1
  <2>4. fifo' = <<>> /\ program' = Tail(program) /\ UNCHANGED <<phoneSpeed, output, hostVars>>
    BY <2>2, <2>3 DEF AwaitTrigger, Done, line
  <2>5. AtBlock' /\ LinesEnd' /\ UNCHANGED <<queue, hostSpeed>> /\ AtCase(15 + 1)'
    BY <2>1, <2>4, <1>2
  <2>6. At(0, 16, <<>>, <<>>, Console, Console)'
    BY <2>4, <2>5, <1>10 DEF At
  <2> QED BY <2>5, <2>6 DEF InStep
<1>11. ASSUME NEW q, NEW s, NEW v, NEW w, At(q, 13, <<>>, s, v, w) \/ At(q, 15, <<>>, s, v, w) PROVE FALSE
  BY <1>7, <1>11 DEF At
<1>12. ~At(0, 16, <<>>, <<>>, Console, Console)
  BY DEF At
<1> QED BY <1>3, <1>4, <1>5, <1>6, <1>8, <1>9, <1>10, <1>11, <1>12 DEF InStep

\* The last step of a case, and its result
LEMMA CaseEnds ==
    ASSUME Types, Types', Quick, AtBlock, At(0, 16, <<>>, <<>>, Console, Console), PhoneSteps
    PROVE  LockStep'
<1>1. AtCase(16) /\ fifo = <<>> /\ output = <<>> /\ BothAt(Console) /\ Head(program) = "check" /\ queue = <<>>
  <2>1. AtCase(16) /\ fifo = <<>> /\ output = <<>> /\ BothAt(Console) /\ Len(queue) = 0
    BY DEF At, BothAt
  <2> QED BY <2>1, CaseHead, CaseIs DEF Types
<1>2. Check
  BY <1>1, PhoneActs
<1>3. PICK x \in Verdicts : Emit(<<x, "newline">>) /\ program' = Tail(program) /\ UNCHANGED <<phoneSpeed, fifo, hostVars>>
  BY <1>2 DEF Check, Done, Verdicts
<1> DEFINE U == Append(<<>>, x)
<1>4. U \in Seq(Verdicts) /\ Lined(output', U, 0)
  <2> DEFINE E == <<>>
  <2>1. Verdicts \subseteq Texts
    BY DEF Verdicts, Texts, Symbols
  <2>2. E \in Seq(Verdicts) /\ Lined(output, E, 0)
    BY <1>1 DEF Lined
  <2>3. phoneSpeed = hostSpeed
    BY <1>1 DEF BothAt
  <2> HIDE DEF E
  <2>4. Append(E, x) \in Seq(Verdicts) /\ Lined(output', Append(E, x), 0)
    BY <2>1, <2>2, <2>3, <1>3, PrintedLine
  <2> QED BY <2>4 DEF E
<1>5. LinesEnd' /\ Resting' /\ Quiet'
  <2>1. Resting /\ Quiet /\ LinesEnd
    BY <1>1 DEF AtBlock, Resting, Quiet, NothingTaken, LinesEnd
  <2> QED BY <2>1, <1>3, HostRests DEF Quiet, BothAt
<1>6. AtCase(1)' \/ program' = <<"finish">>
  BY <1>1, <1>3, CaseNext
<1> HIDE DEF U
<1>7. CASE AtCase(1)'
  <2>1. U \in Seq(Texts) /\ 0 <= Len(U) /\ InBlock(U, 0)
    <3>1. Verdicts \subseteq Texts
      BY DEF Verdicts, Texts, Symbols
    <3>2. U \in Seq(Texts) /\ Len(U) \in Nat /\ \A i \in 1 .. Len(U) : U[i] \in Verdicts
      BY <3>1, <1>4, SeqMono
    <3> DEFINE l == Len(U)
    <3> HIDE DEF l
    <3>3. \A i \in 1 .. l : ~(i + 0 > l) /\ l \in Nat
      BY <3>2 DEF l
    <3> QED BY <3>2, <3>3 DEF InBlock, l
  <2>2. Printing'
    BY <2>1, <1>4, <1>5, <1>7 DEF Printing
  <2> QED BY <2>2, <1>5 DEF LockStep, Phases
<1>8. CASE program' = <<"finish">>
  <2>1. Finishing'
    BY <1>4, <1>5, <1>8 DEF Finishing
  <2> QED BY <2>1, <1>5 DEF LockStep, Phases
<1> QED BY <1>6, <1>7, <1>8

\* The host's steps in a block
LEMMA HostStage ==
    ASSUME Types, Quick, AtBlock, InStep, HostSteps
    PROVE  AtBlock' /\ LinesEnd' /\ InStep'
<1>1. PhoneWaits
  BY HostActs
<1>2. ASSUME At(6, 10, <<>>, <<>>, Console, Console) PROVE AtBlock' /\ LinesEnd' /\ InStep'
  <2>1. Len(queue) = 6 /\ BlockLines[8 - 6] = "SEND_trigger"
    BY <1>2, BlockLinesIs DEF At
  <2>2. SendData /\ queue # <<>> /\ Head(queue) = "SEND_trigger"
    BY <2>1, CommandActs DEF Sends
  <2>3. /\ NextCommand /\ fifo' = Append(fifo, "trigger")
        /\ UNCHANGED <<program, phoneSpeed, hostSpeed, output>>
    BY <2>2, <1>2 DEF SendData, TakeCommand, Transmit, At, line
  <2>4. fifo' = <<"trigger">>
    BY <2>3, <1>2 DEF At
  <2>5. AtBlock' /\ LinesEnd' /\ Len(queue') = 6 - 1
    BY <2>1, <2>2, <2>3, CommandLeft
  <2>6. At(5, 10, <<"trigger">>, <<>>, Console, Console)'
    BY <2>3, <2>4, <2>5, <1>2 DEF At, AtCase
  <2> QED BY <2>5, <2>6 DEF InStep
<1>3. ASSUME At(5, 13, <<>>, <<"ready">>, Test, Console) PROVE AtBlock' /\ LinesEnd' /\ InStep'
  <2>1. Len(queue) = 5 /\ BlockLines[8 - 5] = "EXPECT_ready"
    BY <1>3, BlockLinesIs DEF At
  <2>2. ExpectReady /\ queue # <<>>
    BY <2>1, CommandActs
  <2>3. output # <<>> /\ Head(output) = "ready" /\ Tail(output) = <<>>
    BY <1>3 DEF At
  <2>4. NextCommand /\ output' = <<>> /\ UNCHANGED <<program, phoneSpeed, fifo, hostSpeed>>
    BY <2>2, <2>3 DEF ExpectReady, phone
  <2>5. AtBlock' /\ LinesEnd' /\ Len(queue') = 5 - 1
    BY <2>1, <2>2, <2>4, CommandLeft
  <2>6. At(4, 13, <<>>, <<>>, Test, Console)'
    BY <2>4, <2>5, <1>3 DEF At, AtCase
  <2> QED BY <2>5, <2>6 DEF InStep
<1>4. ASSUME At(4, 13, <<>>, <<>>, Test, Console) PROVE AtBlock' /\ LinesEnd' /\ InStep'
  <2>1. Len(queue) = 4 /\ BlockLines[8 - 4] = "BAUDRATE"
    BY <1>4, BlockLinesIs DEF At
  <2>2. ChangeSpeed /\ queue # <<>> /\ Head(queue) = "BAUDRATE"
    BY <2>1, CommandActs
  <2>3. NextCommand /\ hostSpeed' = Test /\ UNCHANGED <<program, phoneSpeed, fifo, output>>
    BY <2>2 DEF ChangeSpeed, TakeCommand, phone, line
  <2>4. AtBlock' /\ LinesEnd' /\ Len(queue') = 4 - 1
    BY <2>1, <2>2, <2>3, CommandLeft
  <2>5. At(3, 13, <<>>, <<>>, Test, Test)'
    BY <2>3, <2>4, <1>4 DEF At, AtCase
  <2> QED BY <2>4, <2>5 DEF InStep
<1>5. ASSUME At(3, 13, <<>>, <<>>, Test, Test) PROVE AtBlock' /\ LinesEnd' /\ InStep'
  <2>1. Len(queue) = 3 /\ BlockLines[8 - 3] = "SEND_frame"
    BY <1>5, BlockLinesIs DEF At
  <2>2. SendData /\ queue # <<>> /\ Head(queue) = "SEND_frame"
    BY <2>1, CommandActs DEF Sends
  <2>3. /\ NextCommand /\ fifo' = Append(fifo, "frame")
        /\ UNCHANGED <<program, phoneSpeed, hostSpeed, output>>
    BY <2>2, <1>5 DEF SendData, TakeCommand, Transmit, At, line
  <2>4. fifo' = <<"frame">>
    BY <2>3, <1>5 DEF At
  <2>5. AtBlock' /\ LinesEnd' /\ Len(queue') = 3 - 1
    BY <2>1, <2>2, <2>3, CommandLeft
  <2>6. At(2, 13, <<"frame">>, <<>>, Test, Test)'
    BY <2>3, <2>4, <2>5, <1>5 DEF At, AtCase
  <2> QED BY <2>5, <2>6 DEF InStep
<1>6. ASSUME At(2, 15, <<>>, <<>>, Console, Test) PROVE AtBlock' /\ LinesEnd' /\ InStep'
  <2>1. Len(queue) = 2 /\ BlockLines[8 - 2] = "RESTORE"
    BY <1>6, BlockLinesIs DEF At
  <2>2. ChangeSpeed /\ queue # <<>> /\ Head(queue) = "RESTORE"
    BY <2>1, CommandActs
  <2>3. NextCommand /\ hostSpeed' = Console /\ UNCHANGED <<program, phoneSpeed, fifo, output>>
    BY <2>2 DEF ChangeSpeed, TakeCommand, phone, line, AtBlock
  <2>4. AtBlock' /\ LinesEnd' /\ Len(queue') = 2 - 1
    BY <2>1, <2>2, <2>3, CommandLeft
  <2>5. At(1, 15, <<>>, <<>>, Console, Console)'
    BY <2>3, <2>4, <1>6 DEF At, AtCase
  <2> QED BY <2>4, <2>5 DEF InStep
<1>7. ASSUME At(1, 15, <<>>, <<>>, Console, Console) PROVE AtBlock' /\ LinesEnd' /\ InStep'
  <2>1. Len(queue) = 1 /\ BlockLines[8 - 1] = "SEND_trigger"
    BY <1>7, BlockLinesIs DEF At
  <2>2. SendData /\ queue # <<>> /\ Head(queue) = "SEND_trigger"
    BY <2>1, CommandActs DEF Sends
  <2>3. /\ NextCommand /\ fifo' = Append(fifo, "trigger")
        /\ UNCHANGED <<program, phoneSpeed, hostSpeed, output>>
    BY <2>2, <1>7 DEF SendData, TakeCommand, Transmit, At, line
  <2>4. fifo' = <<"trigger">>
    BY <2>3, <1>7 DEF At
  <2>5. AtBlock' /\ LinesEnd' /\ Len(queue') = 1 - 1
    BY <2>1, <2>2, <2>3, CommandLeft
  <2>6. At(0, 15, <<"trigger">>, <<>>, Console, Console)'
    BY <2>3, <2>4, <2>5, <1>7 DEF At, AtCase
  <2> QED BY <2>5, <2>6 DEF InStep
<1>8. ASSUME fifo # <<>> \/ AtCase(11) \/ AtCase(12) \/ AtCase(14) \/ AtCase(16), NEW p \in 1 .. 16, AtCase(p) PROVE FALSE
  <2>1. program # <<>>
    BY <1>8, CaseHead
  <2>2. fifo # <<>> \/ Head(program) \in {"ready", "configure", "restore", "check"}
    BY <1>8, CaseHead, CaseIs
  <2> QED BY <2>1, <2>2, <1>1, Busy
<1>9. /\ ~At(5, 11, <<>>, <<>>, Console, Console) /\ ~At(5, 12, <<>>, <<"ready">>, Console, Console)
      /\ ~At(2, 14, <<>>, <<>>, Test, Test) /\ ~At(0, 16, <<>>, <<>>, Console, Console)
  BY <1>8 DEF At
<1>10. /\ ~At(5, 10, <<"trigger">>, <<>>, Console, Console) /\ ~At(2, 13, <<"frame">>, <<>>, Test, Test)
       /\ ~At(0, 15, <<"trigger">>, <<>>, Console, Console)
  <2>1. <<"trigger">> # <<>> /\ <<"frame">> # <<>>
    OBVIOUS
  <2> QED BY <2>1, <1>8 DEF At
<1> QED BY <1>2, <1>3, <1>4, <1>5, <1>6, <1>7, <1>9, <1>10 DEF InStep

\* The two ends do the block together.
LEMMA ExecutingPhase ==
    ASSUME Types, Types', Quick, Executing, PhoneSteps \/ HostSteps
    PROVE  LockStep'
<1>1. AtBlock /\ InStep
  BY DEF Executing
<1>2. AtBlock' /\ InStep' /\ LinesEnd' => LockStep'
  BY DEF LockStep, Phases, Executing
<1>3. CASE HostSteps
  BY <1>1, <1>2, <1>3, HostStage
<1>4. CASE PhoneSteps /\ At(0, 16, <<>>, <<>>, Console, Console)
  BY <1>1, <1>4, CaseEnds
<1>5. CASE PhoneSteps /\ ~At(0, 16, <<>>, <<>>, Console, Console)
  <2>1. Len(queue) > 0 \/ ~AtCase(16)
    <3>1. SUFFICES ASSUME AtCase(16), ~(Len(queue) > 0) PROVE FALSE
      OBVIOUS
    <3>2. At(0, 15, <<"trigger">>, <<>>, Console, Console)
      BY <3>1, <1>1, <1>5 DEF InStep, At
    <3>3. AtCase(15) /\ Head(program) = "await" /\ Head(program) = "check"
      BY <3>1, <3>2, CaseHead, CaseIs DEF At
    <3> QED BY <3>3
  <2> QED BY <2>1, <1>1, <1>2, <1>5, PhoneStage
<1> QED BY <1>3, <1>4, <1>5

\* The completion byte after the lines
LEMMA LinedNul ==
    ASSUME NEW S, NEW s \in Seq(S), "nul" \in S, NEW T, NEW U \in Seq(T), Lined(s, U, 0)
    PROVE  Lined(s \o <<"nul">>, U, 1)
<1> DEFINE z == <<"nul">>
           c == s \o z
           n == Len(s)
           u == Len(U)
<1>1. z \in Seq(S) /\ Len(z) = 1 /\ z[1] = "nul"
  OBVIOUS
<1>2. n \in Nat /\ u \in Nat /\ n = 2 * u + 0 /\ \A i \in 1 .. u : s[2 * i - 1] = U[i] /\ s[2 * i] = "newline"
  BY DEF Lined
<1> HIDE DEF z
<1>3. /\ c \in Seq(S) /\ Len(c) = n + Len(z)
      /\ \A i \in 1 .. n : c[i] = s[i]
      /\ \A i \in 1 .. Len(z) : c[n + i] = z[i]
  <2>1. z \in Seq(S)
    BY <1>1
  <2> QED BY <2>1, CatIs
<1> HIDE DEF c, n, u
<1>4. Len(c) = 2 * u + 1 /\ c[Len(c)] = "nul"
  <2>1. 1 \in 1 .. Len(z) /\ Len(c) = n + 1
    BY <1>1, <1>3
  <2>2. c[n + 1] = "nul"
    BY <2>1, <1>1, <1>3
  <2> QED BY <2>1, <2>2, <1>2
<1>5. ASSUME NEW i \in 1 .. u PROVE c[2 * i - 1] = U[i] /\ c[2 * i] = "newline"
  <2>1. 2 * i - 1 \in 1 .. n /\ 2 * i \in 1 .. n
    BY <1>2
  <2> QED BY <2>1, <1>2, <1>3
<1>6. Lined(c, U, 1)
  BY <1>4, <1>5 DEF Lined, u
<1> QED BY <1>6 DEF c, z

\* What test_finish prints, after other results
LEMMA LinedResult ==
    ASSUME NEW s \in Seq(Symbols), NEW U \in Seq(FinalLines), Lined(s, U, 0), NEW clean \in BOOLEAN
    PROVE  /\ \E V \in Seq(FinalLines) : Lined(s \o (Result(clean) \o <<"nul">>), V, 1)
           /\ Len(s \o (Result(clean) \o <<"nul">>)) > 1
<1> DEFINE x == IF clean THEN "PASS" ELSE "FAIL"
           a == <<"plan", "newline">>
           b == <<x, "newline">>
           c == <<"nul">>
           V == Append(Append(U, "plan"), x)
<1>1. x \in FinalLines /\ "plan" \in FinalLines /\ FinalLines \subseteq Symbols /\ {"newline", "nul"} \subseteq Symbols
  BY DEF FinalLines, Symbols
<1> HIDE DEF x
<1>2. a \in Seq(Symbols) /\ b \in Seq(Symbols) /\ c \in Seq(Symbols)
  BY <1>1
<1>3. Result(clean) = a \o b
  BY DEF Result, x
<1>4. Append(U, "plan") \in Seq(FinalLines) /\ V \in Seq(FinalLines)
  BY <1>1, AppendProperties
<1>5. Lined(s \o a, Append(U, "plan"), 0)
  BY <1>1, LinedMore
<1>6. s \o a \in Seq(Symbols) /\ (s \o a) \o b \in Seq(Symbols)
  BY <1>2, ConcatProperties
<1>7. Lined((s \o a) \o b, V, 0)
  <2> DEFINE t == s \o a
             W == Append(U, "plan")
  <2>1. t \in Seq(Symbols) /\ W \in Seq(FinalLines) /\ Lined(t, W, 0)
    BY <1>4, <1>5, <1>6
  <2> HIDE DEF t, W
  <2>2. Lined(t \o <<x, "newline">>, Append(W, x), 0)
    BY <2>1, <1>1, LinedMore
  <2> QED BY <2>2 DEF t, W
<1> HIDE DEF V
<1>8. Lined(((s \o a) \o b) \o c, V, 1)
  <2> DEFINE t == (s \o a) \o b
  <2>1. t \in Seq(Symbols) /\ Lined(t, V, 0)
    BY <1>6, <1>7
  <2> HIDE DEF t
  <2>2. Lined(t \o <<"nul">>, V, 1)
    BY <2>1, <1>1, <1>4, LinedNul
  <2> QED BY <2>2 DEF t
<1>9. ((s \o a) \o b) \o c = s \o ((a \o b) \o c) /\ (a \o b) \o c \in Seq(Symbols)
  <2> HIDE DEF a, b, c
  <2>1. a \o b \in Seq(Symbols) /\ b \o c \in Seq(Symbols) /\ (a \o b) \o c \in Seq(Symbols)
    BY <1>2, ConcatProperties
  <2>2. (s \o a) \o b = s \o (a \o b)
    BY <1>2, ConcatAssociative
  <2> DEFINE d == a \o b
  <2>3. d \in Seq(Symbols)
    BY <2>1
  <2> HIDE DEF d
  <2>4. (s \o d) \o c = s \o (d \o c)
    BY <2>3, <1>2, ConcatAssociative
  <2> QED BY <2>1, <2>2, <2>4 DEF d
<1> DEFINE w == s \o (Result(clean) \o <<"nul">>)
<1>10. Lined(w, V, 1)
  BY <1>3, <1>8, <1>9
<1>11. Len(w) = 2 * Len(V) + 1 /\ Len(V) \in Nat /\ Len(V) > 0
  <2>1. Len(w) = 2 * Len(V) + 1
    BY <1>10 DEF Lined
  <2> DEFINE W == Append(U, "plan")
  <2>2. W \in Seq(FinalLines) /\ Len(W) \in Nat
    BY <1>4
  <2> HIDE DEF W
  <2>3. Len(Append(W, x)) = Len(W) + 1
    BY <2>2, <1>1, AppendProperties
  <2> QED BY <2>1, <2>2, <2>3 DEF V, W
<1> HIDE DEF w
<1>12. Len(w) > 1
  <2> DEFINE l == Len(V)
  <2> HIDE DEF l
  <2>1. l \in Nat /\ l > 0 /\ Len(w) = 2 * l + 1
    BY <1>11 DEF l
  <2> QED BY <2>1
<1> QED BY <1>4, <1>10, <1>12 DEF w

\* The test ends.
LEMMA FinishingPhase ==
    ASSUME Types, Types', Quick, LinesEnd, Finishing, PhoneSteps \/ HostSteps
    PROVE  LockStep'
<1>1. PICK U \in Seq(Verdicts) : program = <<"finish">> /\ Lined(output, U, 0) /\ Resting /\ Quiet
  BY DEF Finishing
<1>2. program # <<>> /\ Head(program) = "finish"
  BY <1>1
<1>3. Finish
  BY <1>2, Busy, HostActs, PhoneActs
<1>4. phoneSpeed = hostSpeed /\ queue = <<>> /\ expected_reset = "none" /\ ~terminator /\ output \in Seq(Symbols)
  BY <1>1 DEF Quiet, BothAt, Types
<1> DEFINE clean == (failures = 0)
           w == Result(clean) \o <<"nul">>
<1>5. output' = output \o w /\ program' = <<>> /\ UNCHANGED hostVars
  BY <1>3, <1>4 DEF Finish, Emit
<1>6. LinesEnd' /\ Resting' /\ NothingTaken' /\ UNCHANGED <<queue, expected_reset, terminator>>
  BY <1>1, <1>5, HostRests DEF Resting
<1>7. U \in Seq(FinalLines) /\ clean \in BOOLEAN
  <2>1. Verdicts \subseteq FinalLines
    BY DEF Verdicts, FinalLines
  <2> QED BY <2>1, SeqMono
<1> HIDE DEF clean
<1>8. (\E V \in Seq(FinalLines) : Lined(output \o w, V, 1)) /\ Len(output \o w) > 1
  BY <1>1, <1>4, <1>7, LinedResult
<1> HIDE DEF w
<1>9. PICK V \in Seq(FinalLines) : Lined(output', V, 1) /\ Len(output') > 1
  BY <1>5, <1>8
<1>10. Untaken' = output'
  BY <1>6, UntakenNext
<1>11. Len(output') >= 1 /\ (Len(output') = 1 => newline')
  <2>1. output' \in Seq(Symbols)
    BY DEF Types
  <2> DEFINE l == Len(output')
  <2>2. l \in Nat /\ l > 1
    BY <2>1, <1>9
  <2> HIDE DEF l
  <2>3. l >= 1 /\ l # 1
    BY <2>2
  <2> QED BY <2>3 DEF l
<1>12. Over'
  BY <1>4, <1>5, <1>6, <1>9, <1>10, <1>11 DEF Over
<1> QED BY <1>6, <1>12 DEF LockStep, Phases

\* The host reads what the phone said last, up to the completion byte.
LEMMA OverPhase ==
    ASSUME Types, Types', Quick, LinesEnd, Over, PhoneSteps \/ HostSteps
    PROVE  LockStep'
<1>1. PICK U \in Seq(FinalLines) :
        /\ program = <<>> /\ queue = <<>> /\ expected_reset = "none"
        /\ \/ /\ ~terminator
              /\ Lined(Untaken, U, 1)
              /\ Len(output) >= 1 /\ (Len(output) = 1 => newline)
              /\ Resting \/ (Looking /\ block = NoBlock)
           \/ /\ terminator
              /\ Lined(lines \o pending, U, 0)
              /\ host = "lines" /\ block = NoBlock
  BY DEF Over
<1>2. HostSteps
  BY <1>1, PhoneActs
<1>3. FinalLines \subseteq Texts /\ \A x \in FinalLines : x \notin Commands
  BY DEF FinalLines, Texts, Symbols, Commands, Sends
<1>4. ~NoBlock.open
  BY DEF NoBlock
<1>5. ASSUME LinesEnd', NEW V \in Seq(FinalLines), UNCHANGED <<program, queue>>, expected_reset' = "none", block' = NoBlock,
             \/ /\ ~terminator' /\ Lined(Untaken', V, 1) /\ Looking'
                /\ Len(output') >= 1 /\ (Len(output') = 1 => newline')
             \/ terminator' /\ Lined(lines' \o pending', V, 0) /\ host' = "lines"
      PROVE  LockStep'
  <2>1. Over'
    BY <1>1, <1>5 DEF Over
  <2> QED BY <2>1, <1>5 DEF LockStep, Phases
<1>6. ASSUME lines # <<>>, host = "lines", NEW x \in FinalLines, FirstLine(lines) = <<x>>
      PROVE  /\ TakeLine("none") /\ NextLine
             /\ UNCHANGED <<program, queue, host, block, expected_reset, output, newline, terminator, pending>>
  <2>1. SkipLine
    BY <1>2, <1>3, <1>6, LineActs
  <2> QED BY <2>1 DEF SkipLine, TakeLine, NextLine, phone, line
<1>7. CASE ~terminator
  <2>1. /\ Lined(Untaken, U, 1) /\ Len(output) >= 1 /\ (Len(output) = 1 => newline)
        /\ Resting \/ (Looking /\ block = NoBlock)
    BY <1>1, <1>7
  <2>2. /\ host \in {"reading", "lines", "executing"}
        /\ host = "reading" => lines = <<>> /\ block = NoBlock
        /\ host = "lines" => block = NoBlock
    BY <2>1 DEF Resting, Looking, NothingTaken
  <2>3. CASE host = "reading"
    <3>1. ReadChunk
      BY <1>2, <2>3, HostActs
    <3>2. /\ UNCHANGED <<phone, hostSpeed, block, queue>>
          /\ host' = "lines" /\ expected_reset' = "none" /\ LinesEnd'
          /\ \/ /\ ~terminator'
                /\ Lined(Untaken', U, 1)
                /\ Len(output') >= 1 /\ (Len(output') = 1 => newline')
             \/ terminator' /\ Lined(lines' \o pending', U, 0)
      BY <3>1, <2>1, <2>2, <2>3, <1>3, ChunkTaken
    <3>3. UNCHANGED program /\ block' = NoBlock /\ Looking'
      BY <3>2, <2>2, <2>3 DEF phone, Looking
    <3> QED BY <3>2, <3>3, <1>5
  <2>4. CASE host = "executing"
    <3>1. CommandsDone
      BY <1>1, <1>2, <2>4, HostActs
    <3>2. Looking'
      BY <3>1, BlockLeft DEF Looking
    <3>3. /\ block' = NoBlock /\ UNCHANGED <<program, queue, output, newline, terminator, expected_reset>>
          /\ LinesEnd' /\ Untaken' = Untaken
      BY <3>1, BlockLeft
    <3> QED BY <3>2, <3>3, <2>1, <1>1, <1>5, <1>7
  <2>5. CASE host = "lines" /\ lines = <<>>
    <3>1. EndOfChunk
      BY <1>2, <2>5, HostActs
    <3>2. /\ UNCHANGED <<program, queue, output, newline, terminator, expected_reset, block, lines>>
          /\ LinesEnd' /\ Untaken' = Untaken /\ host' = "reading"
      BY <3>1, <1>1, <1>7, ChunkLeft
    <3>3. Looking' /\ block' = NoBlock
      BY <3>2, <2>2, <2>5 DEF Looking
    <3> QED BY <3>2, <3>3, <2>1, <1>1, <1>5, <1>7
  <2>6. CASE host = "lines" /\ lines # <<>>
    <3>1. U # <<>> /\ FirstLine(lines) = <<U[1]>>
      BY <2>1, <2>6, <1>3, LineIs
    <3>2. U[1] \in FinalLines /\ Tail(U) \in Seq(FinalLines)
      BY <3>1
    <3>3. /\ TakeLine("none") /\ NextLine
          /\ UNCHANGED <<program, queue, host, block, expected_reset, output, newline, terminator>>
      BY <3>1, <3>2, <2>6, <1>6
    <3>4. LinesEnd' /\ Lined(Untaken', Tail(U), 1)
      BY <3>3, <2>1, <2>6, <1>3, LineLeft
    <3>5. Looking' /\ block' = NoBlock
      BY <3>3, <2>2, <2>6 DEF Looking
    <3> QED BY <3>2, <3>3, <3>4, <3>5, <2>1, <1>1, <1>5, <1>7
  <2> QED BY <2>2, <2>3, <2>4, <2>5, <2>6
<1>8. CASE terminator
  <2>1. Lined(lines \o pending, U, 0) /\ host = "lines" /\ block = NoBlock
    BY <1>1, <1>8
  <2>2. CASE lines = <<>>
    <3>1. EndOfChunk
      BY <1>2, <2>1, <2>2, HostActs
    <3>2. host' = "done" /\ UNCHANGED <<phone, lines>>
      BY <3>1, <2>1, <1>4, <1>8 DEF EndOfChunk
    <3>3. Stopped' /\ LinesEnd'
      BY <3>2, <2>2, <1>1 DEF Stopped, LinesEnd, phone
    <3> QED BY <3>3 DEF LockStep, Phases
  <2>3. CASE lines # <<>>
    <3>1. lines \in Seq(Symbols) /\ pending \in Seq(Symbols) /\ lines[Len(lines)] = "newline"
      BY <2>3, SeqMono DEF Types, Texts, LinesEnd
    <3>2. /\ U # <<>> /\ FirstLine(lines) = <<U[1]>>
          /\ Lined(OtherLines(lines) \o pending, Tail(U), 0)
          /\ OtherLines(lines) # <<>> => OtherLines(lines)[Len(OtherLines(lines))] = "newline"
      BY <3>1, <2>1, <2>3, <1>3, FirstOf
    <3>3. U[1] \in FinalLines /\ Tail(U) \in Seq(FinalLines)
      BY <3>2
    <3>4. /\ TakeLine("none") /\ NextLine
          /\ UNCHANGED <<program, queue, host, block, expected_reset, terminator, pending>>
      BY <3>2, <3>3, <2>1, <2>3, <1>6
    <3>5. lines' = OtherLines(lines)
      BY <3>4 DEF NextLine
    <3>6. LinesEnd' /\ Lined(lines' \o pending', Tail(U), 0)
      BY <3>2, <3>4, <3>5 DEF LinesEnd
    <3> QED BY <3>3, <3>4, <3>6, <2>1, <1>1, <1>5, <1>8
  <2> QED BY <2>2, <2>3
<1> QED BY <1>7, <1>8

\* A step of the reset test
LEMMA ResetNext ==
    ASSUME Types, NEW n \in 1 .. 9, AtReset(n), program' = Tail(program)
    PROVE  AtReset(n - 1)'
<1>1. program \in Seq(Steps) /\ program # <<>>
  BY ResetHead DEF Types
<1> DEFINE t == ResetTest
           q == program'
<1>2. Len(t) = 9 /\ 9 \in Nat /\ IsRest(program, t)
  BY ResetTestIs DEF AtReset
<1> HIDE DEF t
<1>3. Len(q) = Len(program) - 1 /\ IsRest(q, t)
  BY <1>1, <1>2, RestNext
<1> QED BY <1>3 DEF AtReset, t

\* Nothing is left of it.
LEMMA ResetOver ==
    ASSUME program' = <<>>
    PROVE  AtReset(0)'
BY ResetTestIs DEF AtReset, IsRest

\* The reset test up to its announcement
LEMMA CheckingPhase ==
    ASSUME Types, Types', Quick, LinesEnd, Checking, PhoneSteps \/ HostSteps
    PROVE  LockStep'
<1>1. PICK n \in 6 .. 9, U \in Seq(Verdicts) :
        /\ AtReset(n)
        /\ Lined(output, U, 0)
        /\ Resting /\ host = "reading" /\ Quiet
  BY DEF Checking
<1>2. program # <<>> /\ Head(program) = ResetTest[10 - n]
  BY <1>1, ResetHead
<1>3. n \in {6, 7, 8, 9}
  BY <1>1
<1>4. phoneSpeed = hostSpeed /\ Verdicts \subseteq Texts
  BY <1>1 DEF Quiet, BothAt, Verdicts, Texts, Symbols
<1>5. ASSUME UNCHANGED <<phoneSpeed, hostVars>>, fifo' = <<>>
      PROVE  LinesEnd' /\ Resting' /\ NothingTaken' /\ host' = "reading" /\ Quiet'
  BY <1>1, <1>5, HostRests DEF Quiet, BothAt, Resting
<1>6. ASSUME AtReset(n - 1)', n - 1 \in 6 .. 9, NEW V \in Seq(Verdicts), Lined(output', V, 0),
             UNCHANGED <<phoneSpeed, hostVars>>, fifo' = <<>>
      PROVE  LockStep'
  <2>1. Checking'
    BY <1>5, <1>6 DEF Checking
  <2> QED BY <2>1, <1>5, <1>6 DEF LockStep, Phases
<1>7. CASE n \in {8, 9}
  <2>1. Head(program) = "any_check"
    BY <1>2, <1>7, ResetTestIs
  <2>2. Check
    BY <1>2, <2>1, Busy, HostActs, PhoneActs
  <2>3. PICK x \in Verdicts : Emit(<<x, "newline">>) /\ program' = Tail(program) /\ UNCHANGED <<phoneSpeed, fifo, hostVars>>
    BY <2>2 DEF Check, Done, Verdicts
  <2>4. AtReset(n - 1)' /\ n - 1 \in 6 .. 9
    BY <2>3, <1>1, <1>7, ResetNext
  <2>5. Append(U, x) \in Seq(Verdicts) /\ Lined(output', Append(U, x), 0)
    BY <2>3, <1>1, <1>4, PrintedLine
  <2>6. fifo' = <<>>
    BY <2>3, <1>1 DEF Quiet
  <2> QED BY <2>3, <2>4, <2>5, <2>6, <1>6
<1>8. CASE n = 7
  <2>1. Head(program) = "flush"
    BY <1>2, <1>8, ResetTestIs
  <2>2. FlushFifo
    BY <1>2, <2>1, Busy, HostActs, PhoneActs
  <2>3. program' = Tail(program) /\ fifo' = <<>> /\ UNCHANGED <<phoneSpeed, output, hostVars>>
    BY <2>2 DEF FlushFifo, Done, line
  <2>4. AtReset(n - 1)' /\ n - 1 \in 6 .. 9
    BY <2>3, <1>1, <1>8, ResetNext
  <2> QED BY <2>3, <2>4, <1>1, <1>6
<1>9. CASE n = 6
  <2>1. Head(program) = "EXPECT_RESET"
    BY <1>2, <1>9, ResetTestIs
  <2>2. PrintLine
    BY <1>2, <2>1, Busy, HostActs, PhoneActs
  <2>3. PICK c \in ResetCommands : Emit(<<c, "newline">>) /\ program' = Tail(program) /\ UNCHANGED <<phoneSpeed, fifo, hostVars>>
    BY <2>1, <2>2 DEF PrintLine, Done, TextOf, ResetCommands
  <2>4. AtReset(6 - 1)'
    BY <2>3, <1>1, <1>9, ResetNext
  <2>5. Lined(output', Append(U, c), 0)
    <3>1. U \in Seq(Texts) /\ c \in Texts /\ Texts \subseteq Texts
      BY <1>4, SeqMono DEF ResetCommands, Texts, Symbols, Commands, Sends
    <3> QED BY <3>1, <2>3, <1>1, <1>4, PrintedLine
  <2>6. fifo' = <<>>
    BY <2>3, <1>1 DEF Quiet
  <2>7. LinesEnd' /\ NothingTaken' /\ host' = "reading" /\ Quiet'
    BY <2>3, <2>6, <1>5
  <2>8. Looking' /\ block' = NoBlock
    <3>1. block' = NoBlock
      BY <2>3, <2>7, <1>1, HostRests DEF Resting
    <3> QED BY <3>1, <2>7 DEF Looking, NothingTaken
  <2>9. Untaken' = output'
    BY <2>7, UntakenNext
  <2>10. Announcing'
    BY <2>4, <2>5, <2>7, <2>8, <2>9 DEF Announcing, Quiet
  <2> QED BY <2>7, <2>10 DEF LockStep, Phases
<1> QED BY <1>3, <1>7, <1>8, <1>9

\* The texts of an announcement after other results
LEMMA LastTaken ==
    ASSUME NEW U \in Seq(Verdicts), NEW c
    PROVE  /\ U = <<>> => Append(U, c)[1] = c /\ Len(Tail(Append(U, c))) = 0
           /\ U # <<>> => Append(U, c)[1] = U[1] /\ Tail(Append(U, c)) = Append(Tail(U), c) /\ Tail(U) \in Seq(Verdicts)
<1>1. U = <<>> => Append(U, c) = <<c>>
  OBVIOUS
<1>2. <<c>>[1] = c /\ Len(Tail(<<c>>)) = 0
  OBVIOUS
<1>3. U # <<>> => Append(U, c)[1] = U[1] /\ Tail(U) \in Seq(Verdicts)
  OBVIOUS
<1>4. U # <<>> => Tail(Append(U, c)) = Append(Tail(U), c)
  OBVIOUS
<1> QED BY <1>1, <1>2, <1>3, <1>4

\* The host reads the announcement, and then it releases the phone.
LEMMA AnnouncingPhase ==
    ASSUME Types, Types', Quick, LinesEnd, Announcing, PhoneSteps \/ HostSteps
    PROVE  LockStep'
<1>1. /\ AtReset(5) /\ BothAt(Console) /\ fifo = <<>> /\ queue = <<>> /\ ~terminator /\ block = NoBlock
      /\ host \in {"lines", "reading"}
  BY DEF Announcing, Looking
<1>2. HostSteps
  <2>1. SUFFICES ASSUME PhoneSteps PROVE FALSE
    OBVIOUS
  <2>2. Head(program) = "release"
    BY <1>1, ResetHead, ResetTestIs
  <2>3. Release
    BY <2>1, <2>2, PhoneActs
  <2> QED BY <2>3, <1>1 DEF Release
<1>3. ~block.open
  BY <1>1 DEF NoBlock
<1>4. CASE expected_reset = "none"
  <2>1. PICK U \in Seq(Verdicts), c \in ResetCommands : Lined(Untaken, Append(U, c), 0) /\ Looking
    BY <1>4 DEF Announcing
  <2> DEFINE W == Append(U, c)
  <2>2. W \in Seq(Texts) /\ Texts \subseteq Texts
    <3>1. U \in Seq(Texts) /\ c \in Texts
      BY SeqMono DEF Verdicts, ResetCommands, Texts, Symbols, Commands, Sends
    <3> QED BY <3>1, AppendProperties
  <2>3. ASSUME LinesEnd', UNCHANGED <<program, phoneSpeed, hostSpeed, fifo, queue>>, ~terminator', expected_reset' = "none",
               block' = NoBlock, NEW V \in Seq(Verdicts), Lined(Untaken', Append(V, c), 0), Looking'
        PROVE  LockStep'
    <3>1. AtReset(5)' /\ BothAt(Console)'
      BY <2>3, <1>1 DEF AtReset, BothAt
    <3>2. Announcing'
      BY <3>1, <2>3, <1>1 DEF Announcing
    <3> QED BY <3>2, <2>3 DEF LockStep, Phases
  <2>4. CASE host = "reading"
    <3>1. ReadChunk /\ lines = <<>>
      BY <1>2, <2>1, <2>4, HostActs DEF Looking
    <3>2. W \in Seq(Texts) /\ Lined(Untaken, W, 0)
      BY <2>1, <2>2
    <3> HIDE DEF W
    <3>3. /\ UNCHANGED <<phone, hostSpeed, block, queue>>
          /\ host' = "lines" /\ expected_reset' = "none" /\ LinesEnd'
          /\ ~terminator' /\ Lined(Untaken', W, 0)
      BY <3>1, <3>2, ChunkTaken
    <3>4. UNCHANGED <<program, phoneSpeed, fifo>> /\ Looking'
      BY <3>3 DEF phone, Looking
    <3> QED BY <3>3, <3>4, <2>3, <1>1 DEF W
  <2>5. CASE host = "lines" /\ lines = <<>>
    <3>1. EndOfChunk
      BY <1>2, <2>5, HostActs
    <3>2. /\ UNCHANGED <<program, phoneSpeed, fifo, hostSpeed, queue, terminator, expected_reset, block, lines>>
          /\ LinesEnd' /\ Untaken' = Untaken /\ host' = "reading"
      BY <3>1, <1>1, <1>4, ChunkLeft
    <3>3. Looking'
      BY <3>2, <2>5 DEF Looking
    <3> QED BY <3>2, <3>3, <2>1, <2>3, <1>1, <1>4
  <2>6. CASE host = "lines" /\ lines # <<>>
    <3> DEFINE x == W[1]
    <3>1. FirstLine(lines) = <<x>>
      <4>1. W \in Seq(Texts) /\ Lined(Untaken, W, 0)
        BY <2>1, <2>2
      <4> HIDE DEF W
      <4> QED BY <4>1, <2>2, <2>6, LineIs
    <3>2. ASSUME NEW d, TakeLine(d), NextLine
          PROVE  /\ LinesEnd' /\ Lined(Untaken', Tail(W), 0)
                 /\ UNCHANGED <<program, phoneSpeed, fifo, hostSpeed, terminator>>
      <4>1. W \in Seq(Texts) /\ Lined(Untaken, W, 0)
        BY <2>1, <2>2
      <4> HIDE DEF W
      <4> QED BY <4>1, <3>2, <2>2, <2>6, LineLeft
    <3>3. CASE U = <<>>
      <4>1. x = c /\ Len(Tail(W)) = 0
        BY <3>3, LastTaken
      <4>2. Tail(W) \in Seq(Texts)
        <5>1. W # <<>>
          BY <2>2
        <5> HIDE DEF W
        <5> QED BY <5>1, <2>2
      <4> HIDE DEF W, x
      <4>3. ExpectReset
        BY <3>1, <4>1, <2>6, <1>2, <1>3, <1>4, LineActs
      <4>4. PICK d \in ResetCommands : TakeLine(d) /\ NextLine /\ expected_reset' = d /\ UNCHANGED <<host, block, queue>>
        BY <4>3 DEF ExpectReset
      <4>5. /\ LinesEnd' /\ Lined(Untaken', Tail(W), 0)
            /\ UNCHANGED <<program, phoneSpeed, fifo, hostSpeed, terminator>>
        BY <4>4, <3>2
      <4>6. NothingTaken' /\ output' = <<>>
        BY <4>1, <4>2, <4>5, AllTakenNext
      <4>7. expected_reset' # "none"
        BY <4>4 DEF ResetCommands
      <4>8. AtReset(5)' /\ BothAt(Console)'
        BY <4>5, <1>1 DEF AtReset, BothAt
      <4>9. Announcing'
        BY <4>4, <4>5, <4>6, <4>7, <4>8, <2>6, <1>1 DEF Announcing
      <4> QED BY <4>5, <4>9 DEF LockStep, Phases
    <3>4. CASE U # <<>>
      <4>1. x \in Verdicts /\ Tail(W) = Append(Tail(U), c) /\ Tail(U) \in Seq(Verdicts)
        BY <3>4, LastTaken
      <4> HIDE DEF W, x
      <4>2. SkipLine
        <5>1. x \notin Commands
          BY <4>1 DEF Verdicts, Commands, Sends
        <5> QED BY <5>1, <3>1, <2>6, <1>2, LineActs
      <4>3. TakeLine("none") /\ NextLine /\ UNCHANGED <<host, block, queue, expected_reset>>
        BY <4>2 DEF SkipLine
      <4>4. /\ LinesEnd' /\ Lined(Untaken', Append(Tail(U), c), 0)
            /\ UNCHANGED <<program, phoneSpeed, fifo, hostSpeed, terminator>>
        BY <4>1, <4>3, <3>2
      <4>5. Looking'
        BY <4>3, <2>6 DEF Looking
      <4> QED BY <4>1, <4>3, <4>4, <4>5, <2>3, <1>1, <1>4
    <3> QED BY <3>3, <3>4
  <2> QED BY <2>4, <2>5, <2>6, <1>1
<1>5. CASE expected_reset # "none"
  <2>1. NothingTaken /\ output = <<>> /\ host = "lines" /\ lines = <<>>
    BY <1>5 DEF Announcing, NothingTaken
  <2>2. EndOfChunk
    BY <1>2, <2>1, HostActs
  <2>3. /\ host' = "observing" /\ fifo' = Append(fifo, "R")
        /\ UNCHANGED <<program, phoneSpeed, hostSpeed, pending, lines, line>>
    BY <2>2, <1>1, <1>5 DEF EndOfChunk, Transmit, BothAt
  <2>4. fifo' = <<"R">> /\ output' = <<>>
    BY <2>1, <2>3, <1>1 DEF line
  <2>5. AtReset(5)' /\ BothAt(Console)' /\ NothingTaken' /\ LinesEnd'
    BY <2>1, <2>3, <1>1 DEF AtReset, BothAt, NothingTaken, LinesEnd
  <2>6. Observing'
    BY <2>3, <2>4, <2>5 DEF Observing
  <2> QED BY <2>5, <2>6 DEF LockStep, Phases
<1> QED BY <1>4, <1>5

\* The phone takes a step while the host observes.
LEMMA ObservedStep ==
    ASSUME host = "observing", BothAt(Console), NothingTaken, UNCHANGED <<phoneSpeed, hostVars>>
    PROVE  host' = "observing" /\ BothAt(Console)' /\ NothingTaken' /\ LinesEnd'
BY HostRests DEF BothAt, NothingTaken, LinesEnd

\* The host observes the reset.
LEMMA ObservingPhase ==
    ASSUME Types, Types', Quick, Observing, PhoneSteps \/ HostSteps
    PROVE  LockStep'
<1>1. host = "observing" /\ BothAt(Console) /\ NothingTaken /\ phoneSpeed = hostSpeed
  BY DEF Observing, BothAt
<1>2. output \in Seq(Symbols)
  BY DEF Types
<1>3. CASE AtReset(5) /\ fifo = <<"R">> /\ output = <<>>
  <2>1. program # <<>> /\ Head(program) = "release"
    BY <1>3, ResetHead, ResetTestIs
  <2>2. fifo # <<>> /\ Head(fifo) = "R"
    BY <1>3
  <2>3. Release
    BY <2>1, <2>2, Busy, HostActs, PhoneActs
  <2>4. program' = Tail(program) /\ UNCHANGED <<phoneSpeed, output, hostVars>>
    BY <2>2, <2>3 DEF Release, Done, line
  <2>5. AtReset(5 - 1)'
    BY <2>4, <1>3, ResetNext
  <2>6. Observing' /\ LinesEnd'
    BY <2>4, <2>5, <1>1, <1>3, ObservedStep DEF Observing
  <2> QED BY <2>6 DEF LockStep, Phases
<1>4. CASE AtReset(4) /\ output = <<>>
  <2>1. program # <<>> /\ Head(program) = "reset"
    BY <1>4, ResetHead, ResetTestIs
  <2>2. Reset
    BY <2>1, Busy, HostActs, PhoneActs
  <2>3. /\ program' = <<>> \/ (program' = Tail(program) /\ ended' = "continued")
        /\ UNCHANGED <<phoneSpeed, output, hostVars>>
    BY <2>2 DEF Reset, line
  <2>4. program' = Tail(program) => AtReset(4 - 1)'
    BY <1>4, ResetNext
  <2>5. Observing' /\ LinesEnd'
    BY <2>3, <2>4, <1>1, <1>4, ResetOver, ObservedStep DEF Observing
  <2> QED BY <2>5 DEF LockStep, Phases
<1>5. CASE AtReset(3) /\ ended = "continued" /\ output = <<>>
  <2>1. program # <<>> /\ Head(program) = "ERROR"
    BY <1>5, ResetHead, ResetTestIs
  <2>2. PrintLine
    BY <2>1, Busy, HostActs, PhoneActs
  <2>3. program' = Tail(program) /\ output' = <<>> \o <<"ERROR", "newline">> /\ UNCHANGED <<phoneSpeed, ended, hostVars>>
    BY <2>1, <2>2, <1>1, <1>5 DEF PrintLine, Done, TextOf, Emit
  <2>4. output' # <<>> /\ output'[1] = "ERROR"
    BY <2>3
  <2>5. AtReset(3 - 1)'
    BY <2>3, <1>5, ResetNext
  <2>6. Observing' /\ LinesEnd'
    BY <2>3, <2>4, <2>5, <1>1, <1>5, ObservedStep DEF Observing
  <2> QED BY <2>6 DEF LockStep, Phases
<1>6. CASE AtReset(0) /\ output = <<>>
  <2>1. program = <<>>
    BY <1>6 DEF AtReset, Types
  <2>2. Observe \/ Observed
    BY <2>1, <1>1, HostActs, PhoneActs
  <2>3. host' = "done" /\ UNCHANGED <<program, lines>>
    BY <2>2, <1>6 DEF Observe, Observed, phone, parser
  <2>4. Stopped' /\ LinesEnd'
    BY <2>1, <2>3, <1>1 DEF Stopped, LinesEnd, NothingTaken
  <2> QED BY <2>4 DEF LockStep, Phases
<1>7. ASSUME NEW n \in 0 .. 2, AtReset(n), ended = "continued", output # <<>>, output[1] = "ERROR"
      PROVE  LockStep'
  <2>1. ASSUME NEW k \in 0 .. 2, AtReset(k)', UNCHANGED <<phoneSpeed, ended, hostVars>>, NEW s \in Seq(Symbols), output' = output \o s
        PROVE  LockStep'
    <3>1. output' # <<>> /\ output'[1] = "ERROR"
      <4>1. Len(output) \in Nat /\ Len(output) >= 1
        BY <1>2, <1>7
      <4>2. /\ Len(output \o s) = Len(output) + Len(s)
            /\ \A i \in 1 .. Len(output) : (output \o s)[i] = output[i]
        BY <1>2, CatIs
      <4>3. (output \o s)[1] = output[1] /\ Len(output \o s) # 0
        BY <4>1, <4>2
      <4> QED BY <4>3, <2>1, <1>7
    <3>2. Observing' /\ LinesEnd'
      BY <3>1, <2>1, <1>1, <1>7, ObservedStep DEF Observing
    <3> QED BY <3>2 DEF LockStep, Phases
  <2>2. CASE n = 2
    <3>1. program # <<>> /\ Head(program) = "fail"
      BY <2>2, <1>7, ResetHead, ResetTestIs
    <3>2. Check
      BY <3>1, Busy, HostActs, PhoneActs
    <3>3. PICK x \in Verdicts : Emit(<<x, "newline">>) /\ program' = Tail(program) /\ UNCHANGED <<phoneSpeed, ended, hostVars>>
      BY <3>2 DEF Check, Done, Verdicts
    <3> DEFINE w == <<x, "newline">>
    <3>4. output' = output \o w
      BY <3>3, <1>1 DEF Emit
    <3>5. AtReset(1)'
      <4>1. AtReset(2 - 1)'
        BY <3>3, <2>2, <1>7, ResetNext
      <4> QED BY <4>1
    <3>6. w \in Seq(Symbols)
      BY DEF Verdicts, Symbols
    <3> HIDE DEF w
    <3> QED BY <3>3, <3>4, <3>5, <3>6, <2>1
  <2>3. CASE n = 1
    <3>1. program # <<>> /\ Head(program) = "finish"
      BY <2>3, <1>7, ResetHead, ResetTestIs
    <3>2. Finish
      BY <3>1, Busy, HostActs, PhoneActs
    <3> DEFINE w == Result(failures = 0) \o <<"nul">>
    <3>3. program' = <<>> /\ output' = output \o w /\ UNCHANGED <<phoneSpeed, ended, hostVars>>
      BY <3>2, <1>1, <1>7 DEF Finish, Emit
    <3>4. w \in Seq(Symbols)
      <4>1. Result(failures = 0) \in Seq(Symbols) /\ <<"nul">> \in Seq(Symbols)
        BY DEF Result, Symbols
      <4> QED BY <4>1, ConcatProperties
    <3>5. AtReset(0)'
      BY <3>3, ResetOver
    <3> HIDE DEF w
    <3> QED BY <3>3, <3>4, <3>5, <2>1
  <2>4. CASE n = 0
    <3>1. program = <<>>
      BY <2>4, <1>7 DEF AtReset, Types
    <3>2. Observe \/ Observed
      BY <3>1, <1>1, HostActs, PhoneActs
    <3>3. Head(output) = "ERROR"
      BY <1>2, <1>7
    <3>4. host' = "failed" /\ UNCHANGED <<program, ended, lines>>
      BY <3>2, <3>3, <1>7 DEF Observe, Observed, Fail, phone, parser
    <3>5. Stopped' /\ LinesEnd'
      BY <3>1, <3>4, <1>1, <1>7 DEF Stopped, LinesEnd, NothingTaken
    <3> QED BY <3>5 DEF LockStep, Phases
  <2> QED BY <2>2, <2>3, <2>4
<1> QED BY <1>3, <1>4, <1>5, <1>6, <1>7 DEF Observing

\* A session that has ended
LEMMA StoppedPhase ==
    ASSUME Quick, Stopped
    PROVE  ~PhoneSteps /\ ~HostSteps
BY HostActs, PhoneActs DEF Stopped
-----------------------------------------------------------------------------
\* The session as a whole.

\* A session begins with a case, with the end of a test that has none, or with the reset test.
LEMMA InitLockStep ==
    ASSUME Init, Types
    PROVE  LockStep
<1>1. /\ fifo = <<>> /\ output = <<>> /\ NothingTaken /\ Quiet /\ LinesEnd
      /\ host = "reading" /\ block = NoBlock
  BY DEF Init, NothingTaken, Quiet, BothAt, LinesEnd
<1>2. Resting
  BY <1>1 DEF Resting
<1> DEFINE E == <<>>
<1>3. E \in Seq(Texts) /\ E \in Seq(Verdicts) /\ Lined(output, E, 0) /\ 0 <= Len(E) /\ InBlock(E, 0)
  BY <1>1 DEF Lined, InBlock
<1> HIDE DEF E
<1>4. CASE program = ResetTest
  <2>1. AtReset(9)
    BY <1>4, ResetTestIs DEF AtReset, IsRest
  <2>2. Checking
    BY <2>1, <1>1, <1>2, <1>3 DEF Checking
  <2> QED BY <2>2, <1>1 DEF LockStep, Phases
<1>5. CASE program = AutobaudTest
  <2>1. IsRest(program, AutobaudTest)
    <3> DEFINE t == AutobaudTest
               n == Len(t)
    <3>1. n \in Nat
      BY AutobaudTestAt
    <3> HIDE DEF t, n
    <3>2. \A i \in 1 .. n : t[i] = t[n - n + i]
      BY <3>1
    <3>3. n <= n
      BY <3>1
    <3> QED BY <3>2, <3>3, <1>5 DEF IsRest, t, n
  <2>2. Rounds \in Nat /\ Len(program) = 16 * Rounds + 1
    BY <1>5, AutobaudTestAt
  <2>3. CASE Rounds = 0
    <3>1. program = <<"finish">>
      <4>1. Len(program) = 1 /\ program[1] = "finish"
        BY <2>2, <2>3, <1>5, AutobaudTestAt
      <4> QED BY <4>1, OneIs DEF Types
    <3>2. Finishing
      BY <3>1, <1>1, <1>2, <1>3 DEF Finishing
    <3> QED BY <3>2, <1>1 DEF LockStep, Phases
  <2>4. CASE Rounds # 0
    <3>1. AtCase(1)
      <4>1. Rounds \in 1 .. Rounds /\ 16 * Rounds + 1 = 16 * Rounds + 2 - 1
        BY <2>2, <2>4
      <4> QED BY <4>1, <2>1, <2>2 DEF AtCase
    <3>2. Printing
      BY <3>1, <1>1, <1>2, <1>3 DEF Printing
    <3> QED BY <3>2, <1>1 DEF LockStep, Phases
  <2> QED BY <2>3, <2>4
<1> QED BY <1>4, <1>5 DEF Init

\* A step of a session whose timeouts suffice
LEMMA LockStepNext ==
    ASSUME Types, Types', Quick, LockStep, [Next]_vars
    PROVE  LockStep'
<1>1. LinesEnd /\ Phases
  BY DEF LockStep
<1>2. CASE PhoneSteps \/ HostSteps
  <2>1. Printing => LockStep'
    BY <1>1, <1>2, PrintingPhase
  <2>2. Parsing => LockStep'
    BY <1>1, <1>2, ParsingPhase
  <2>3. Executing => LockStep'
    BY <1>2, ExecutingPhase
  <2>4. Finishing => LockStep'
    BY <1>1, <1>2, FinishingPhase
  <2>5. Over => LockStep'
    BY <1>1, <1>2, OverPhase
  <2>6. Checking => LockStep'
    BY <1>1, <1>2, CheckingPhase
  <2>7. Announcing => LockStep'
    BY <1>1, <1>2, AnnouncingPhase
  <2>8. Observing => LockStep'
    BY <1>2, ObservingPhase
  <2>9. ~Stopped
    BY <1>2, StoppedPhase
  <2> QED BY <1>1, <2>1, <2>2, <2>3, <2>4, <2>5, <2>6, <2>7, <2>8, <2>9 DEF Phases
<1>3. CASE UNCHANGED vars
  <2>1. /\ UNCHANGED <<program, ended, phoneSpeed, fifo, detected, failures, failed, output, specials, host,
                       hostSpeed, pending, newline, lines, chunk, terminator, block, queue, expected_reset,
                       stdout>>
    BY <1>3 DEF vars, phone, line, hostVars, parser
  <2>2. /\ \A p : AtCase(p)' <=> AtCase(p)
        /\ \A n : AtReset(n)' <=> AtReset(n)
        /\ Untaken' = Untaken /\ (NothingTaken' <=> NothingTaken) /\ (LinesEnd' <=> LinesEnd)
        /\ BothAt(Console)' <=> BothAt(Console)
    BY <2>1 DEF AtCase, AtReset, Untaken, NothingTaken, BothAt, LinesEnd
  <2>3. (Quiet' <=> Quiet) /\ (Resting' <=> Resting) /\ (Looking' <=> Looking) /\ (AtBlock' <=> AtBlock)
    BY <2>1, <2>2 DEF Quiet, Resting, Looking, AtBlock
  <2>4. Printing => Printing'
    BY <2>1, <2>2, <2>3 DEF Printing
  <2>5. Parsing => Parsing'
    BY <2>1, <2>2, <2>3 DEF Parsing
  <2>6. Executing => Executing'
    <3>1. \A q, p, b, s, v, w : At(q, p, b, s, v, w) => At(q, p, b, s, v, w)'
      BY <2>1, <2>2 DEF At
    <3>2. InStep => InStep'
      BY <3>1 DEF InStep
    <3> QED BY <3>2, <2>3 DEF Executing
  <2>7. Finishing => Finishing'
    BY <2>1, <2>2, <2>3 DEF Finishing
  <2>8. Over => Over'
    BY <2>1, <2>2, <2>3 DEF Over
  <2>9. Checking => Checking'
    BY <2>1, <2>2, <2>3 DEF Checking
  <2>10. Announcing => Announcing'
    BY <2>1, <2>2, <2>3 DEF Announcing
  <2>11. Observing => Observing'
    BY <2>1, <2>2, <2>3 DEF Observing
  <2>12. Stopped => Stopped'
    BY <2>1 DEF Stopped
  <2> QED BY <1>1, <2>2, <2>4, <2>5, <2>6, <2>7, <2>8, <2>9, <2>10, <2>11, <2>12 DEF LockStep, Phases
<1> QED BY <1>2, <1>3 DEF Next, Crash

\* Where the timeouts suffice, the phone and the host are in step in every state of a session.
THEOREM QuickIsInStep == ASSUME Quick PROVE Spec => []LockStep
<1>1. Init /\ Inv => LockStep
  BY InitLockStep DEF Inv
<1>2. Inv /\ Inv' /\ LockStep /\ [Next]_vars => LockStep'
  BY LockStepNext DEF Inv
<1> QED BY <1>1, <1>2, SessionInvariant, PTL DEF Spec

\* OnlyMissedResetFails, for every number of cases and every size of chunks.
THEOREM QuickFailsOnlyAtReset == ASSUME Quick PROVE Spec => []OnlyMissedResetFails
<1>1. LockStep => OnlyMissedResetFails
  <2>1. SUFFICES ASSUME LockStep, host = "failed" PROVE ended = "continued"
    BY DEF OnlyMissedResetFails
  <2>2. ~Resting /\ ~Looking /\ ~AtBlock
    BY <2>1 DEF Resting, Looking, AtBlock
  <2>3. ~Printing /\ ~Parsing /\ ~Executing /\ ~Finishing /\ ~Over /\ ~Checking
    BY <2>1, <2>2 DEF Printing, Parsing, Executing, Finishing, Over, Checking
  <2>4. ~Announcing /\ ~Observing
    BY <2>1, <2>2 DEF Announcing, Observing
  <2> QED BY <2>1, <2>3, <2>4 DEF LockStep, Phases, Stopped
<1> QED BY <1>1, QuickIsInStep, PTL

\* The symbols that are sent
Sent == Symbols \ {"junk"}
Clear == output \in Seq(Sent) /\ pending \in Seq(Sent) /\ chunk \in Seq(Sent) /\ lines \in Seq(Sent)

\* While the speeds differ, the phone waits for the host.
LEMMA SilentApart ==
    ASSUME Types, LockStep
    PROVE  phoneSpeed = hostSpeed \/ program = <<>> \/ Head(program) \in {"detect", "await"}
<1>1. SUFFICES ASSUME phoneSpeed # hostSpeed PROVE program = <<>> \/ Head(program) \in {"detect", "await"}
  OBVIOUS
<1>2. ~BothAt(Console) /\ ~Quiet
  BY <1>1 DEF BothAt, Quiet
<1>3. ~Printing /\ ~Parsing /\ ~Finishing /\ ~Checking /\ ~Announcing /\ ~Observing
  BY <1>2 DEF Printing, Parsing, Finishing, Checking, Announcing, Observing
<1>4. Over \/ Stopped => program = <<>>
  BY DEF Over, Stopped
<1>5. ASSUME Executing PROVE Head(program) \in {"detect", "await"}
  <2>1. AtCase(13) \/ AtCase(15)
    BY <1>1, <1>5 DEF Executing, InStep, At
  <2> QED BY <2>1, CaseHead, CaseIs
<1> QED BY <1>3, <1>4, <1>5 DEF LockStep, Phases

\* What the phone sends at the host's speed
LEMMA SentArrives ==
    ASSUME phoneSpeed = hostSpeed, output \in Seq(Sent), NEW s \in Seq(Sent), Emit(s)
    PROVE  output' \in Seq(Sent)
<1>1. output' = output \o s
  BY DEF Emit
<1> QED BY <1>1, ConcatProperties

\* The phone's steps
LEMMA PhoneClear ==
    ASSUME Types, Quick, LockStep, Clear, PhoneSteps
    PROVE  Clear'
<1>1. ASSUME output' \in Seq(Sent), UNCHANGED hostVars PROVE Clear'
  BY <1>1, HostRests DEF Clear
<1>2. CASE UNCHANGED <<line, hostVars>>
  BY <1>1, <1>2 DEF Clear, line
<1>3. CASE FlushFifo \/ AwaitTrigger \/ Configure \/ Detect \/ Release \/ Reset
  BY <1>2, <1>3 DEF FlushFifo, AwaitTrigger, Configure, Detect, Release, Reset
<1>4. ASSUME program # <<>>, Head(program) \notin {"detect", "await"}, NEW s \in Seq(Sent), Emit(s), UNCHANGED hostVars
      PROVE  Clear'
  <2>1. phoneSpeed = hostSpeed
    BY <1>4, SilentApart
  <2>2. output' \in Seq(Sent)
    BY <2>1, <1>4, SentArrives DEF Clear
  <2> QED BY <2>2, <1>1, <1>4
<1>5. CASE PrintLine
  <2> DEFINE x == TextOf(Head(program))
  <2>1. x \in Commands \cup {"ERROR"}
    BY <1>5 DEF PrintLine, TextOf, Commands
  <2>2. Head(program) \notin {"detect", "await"} /\ program # <<>> /\ UNCHANGED hostVars
    BY <1>5 DEF PrintLine, Commands, Sends
  <2>3. Emit(<<x, "newline">>)
    BY <1>5 DEF PrintLine
  <2> HIDE DEF x
  <2>4. <<x, "newline">> \in Seq(Sent)
    BY <2>1 DEF Sent, Symbols, Commands, Sends
  <2> QED BY <2>2, <2>3, <2>4, <1>4
<1>6. CASE NotifyReady
  <2>1. Head(program) = "ready" /\ program # <<>> /\ UNCHANGED hostVars /\ Emit(<<"ready">>)
    BY <1>6 DEF NotifyReady, Step
  <2>2. <<"ready">> \in Seq(Sent)
    BY DEF Sent, Symbols
  <2> QED BY <2>1, <2>2, <1>4
<1>7. CASE Check
  <2>1. PICK x \in Verdicts : Emit(<<x, "newline">>)
    BY <1>7 DEF Check, Verdicts
  <2>2. Head(program) \in {"check", "any_check", "fail"} /\ program # <<>> /\ UNCHANGED hostVars
    BY <1>7 DEF Check, Step
  <2>3. <<x, "newline">> \in Seq(Sent)
    BY DEF Verdicts, Sent, Symbols
  <2> QED BY <2>1, <2>2, <2>3, <1>4
<1>8. CASE Finish
  <2> DEFINE w == Result(failures = 0) \o <<"nul">>
  <2>1. Head(program) = "finish" /\ program # <<>> /\ UNCHANGED hostVars /\ Emit(w)
    BY <1>8 DEF Finish, Step
  <2>2. w \in Seq(Sent)
    <3>1. Result(failures = 0) \in Seq(Sent) /\ <<"nul">> \in Seq(Sent)
      BY DEF Result, Sent, Symbols
    <3> QED BY <3>1, ConcatProperties
  <2> HIDE DEF w
  <2> QED BY <2>1, <2>2, <1>4
<1> QED BY <1>3, <1>5, <1>6, <1>7, <1>8 DEF PhoneSteps

\* The host takes parts of what it has.
LEMMA HostClear ==
    ASSUME Types, Clear, HostSteps
    PROVE  Clear'
<1>1. CASE UNCHANGED <<output, pending, chunk, lines>>
  BY <1>1 DEF Clear
<1>2. ASSUME Fail, output' \in Seq(Sent) PROVE Clear'
  BY <1>2 DEF Fail, parser, Clear
<1>3. CASE ReadChunk
  <2>1. PICK n \in (1 .. Len(output)) \cap (1 .. MaxChunk) :
           LET s == SubSeq(output, 1, n)
               text == WithPending(Before(s))
           IN  /\ output' = SubSeq(output, n + 1, Len(output))
               /\ \/ NulInLine(s) /\ Fail
                  \/ /\ ~NulInLine(s)
                     /\ lines' = CompleteLines(text)
                     /\ pending' = OpenLine(text)
                     /\ chunk' = Before(s)
    BY <1>3 DEF ReadChunk
  <2> DEFINE o == output
             s == SubSeq(o, 1, n)
             r == SubSeq(o, n + 1, Len(o))
             text == pending \o Before(s)
  <2>2. o \in Seq(Sent) /\ pending \in Seq(Sent)
    BY DEF Clear
  <2> HIDE DEF o
  <2>3. Len(o) \in Nat /\ n \in Nat /\ 1 <= n + 1 /\ n <= Len(o) /\ Len(o) <= Len(o)
    BY <2>1, <2>2 DEF o
  <2>4. s \in Seq(Sent) /\ r \in Seq(Sent)
    BY <2>2, <2>3, SeqPart
  <2> HIDE DEF s, r
  <2>5. Before(s) \in Seq(Sent)
    BY <2>4, Parts
  <2>6. text \in Seq(Sent)
    BY <2>2, <2>5, ConcatProperties
  <2> HIDE DEF text
  <2>7. CompleteLines(text) \in Seq(Sent) /\ OpenLine(text) \in Seq(Sent)
    BY <2>6, Parts
  <2>8. output' = r /\ (Fail \/ (lines' = CompleteLines(text) /\ pending' = OpenLine(text) /\ chunk' = Before(s)))
    BY <2>1 DEF s, r, text, o, WithPending
  <2> QED BY <2>4, <2>5, <2>7, <2>8, <1>2 DEF Clear
<1>4. ASSUME NEW c, TakeLine(c), NextLine PROVE Clear'
  <2>1. lines' = OtherLines(lines) /\ UNCHANGED <<output, pending, chunk>>
    BY <1>4 DEF TakeLine, NextLine, line
  <2>2. OtherLines(lines) \in Seq(Sent)
    BY Parts DEF Clear
  <2> QED BY <2>1, <2>2 DEF Clear
<1>5. CASE SkipLine \/ BeginBlock \/ EndBlock \/ ExpectReset \/ OtherCommand
  BY <1>4, <1>5 DEF SkipLine, BeginBlock, EndBlock, ExpectReset, OtherCommand
<1>6. CASE RefuseLine \/ RefuseCommand
  <2>1. Fail /\ UNCHANGED line
    BY <1>6 DEF RefuseLine, RefuseCommand, TakeLine
  <2> QED BY <2>1, <1>2 DEF line, Clear
<1>7. CASE SendData \/ ChangeSpeed
  <2>1. NextCommand /\ UNCHANGED line
    BY <1>7 DEF SendData, ChangeSpeed
  <2> QED BY <2>1, <1>1 DEF NextCommand, parser, line
<1>8. output # <<>> => Tail(output) \in Seq(Sent)
  BY DEF Clear
<1>9. CASE ExpectReady
  <2>1. /\ output' = output \/ (output # <<>> /\ output' = Tail(output))
        /\ NextCommand \/ Fail
    BY <1>9 DEF ExpectReady
  <2>2. output' \in Seq(Sent)
    BY <2>1, <1>8 DEF Clear
  <2>3. NextCommand => UNCHANGED <<pending, chunk, lines>>
    BY DEF NextCommand, parser
  <2> QED BY <2>1, <2>2, <2>3, <1>2 DEF Clear
<1>10. CASE CommandsDone
  BY <1>1, <1>10 DEF CommandsDone, line
<1>11. CASE EndOfChunk
  <2>1. UNCHANGED output /\ (Fail \/ (chunk' = <<>> /\ UNCHANGED <<pending, lines>>))
    BY <1>11 DEF EndOfChunk, line
  <2>2. <<>> \in Seq(Sent) /\ output' \in Seq(Sent)
    BY <2>1 DEF Clear
  <2>3. CASE Fail
    BY <2>2, <2>3, <1>2
  <2>4. CASE chunk' = <<>> /\ UNCHANGED <<pending, lines>>
    BY <2>2, <2>4 DEF Clear
  <2> QED BY <2>1, <2>3, <2>4
<1>12. CASE Observe
  <2>1. output # <<>> /\ output' = Tail(output) /\ (Fail \/ UNCHANGED hostVars)
    BY <1>12 DEF Observe
  <2>2. UNCHANGED hostVars => UNCHANGED <<pending, chunk, lines>>
    BY HostRests
  <2>3. output' \in Seq(Sent)
    BY <2>1, <1>8
  <2> QED BY <2>1, <2>2, <2>3, <1>2 DEF Clear
<1>13. CASE Observed
  <2>1. UNCHANGED <<line, parser>>
    BY <1>13 DEF Observed
  <2> QED BY <2>1, <1>1 DEF line, parser
<1> QED BY <1>3, <1>5, <1>6, <1>7, <1>9, <1>10, <1>11, <1>12, <1>13 DEF HostSteps

\* NothingGarbled, for every number of cases and every size of chunks.
THEOREM QuickNeverGarbles == ASSUME Quick PROVE Spec => []NothingGarbled
<1>1. Init => Clear
  BY DEF Init, Clear
<1>2. Inv /\ LockStep /\ Clear /\ [Next]_vars => Clear'
  <2>1. SUFFICES ASSUME Types, LockStep, Clear, [Next]_vars PROVE Clear'
    BY DEF Inv
  <2>2. CASE UNCHANGED vars
    BY <2>1, <2>2 DEF vars, line, hostVars, parser, Clear
  <2> QED BY <2>1, <2>2, PhoneClear, HostClear DEF Next, Crash
<1>3. Clear => NothingGarbled
  <2>1. \A s \in Seq(Sent) : "junk" \notin ToSet(s)
    BY DEF ToSet, Sent
  <2> QED BY <2>1 DEF Clear, NothingGarbled
<1> QED BY <1>1, <1>2, <1>3, SessionInvariant, QuickIsInStep, PTL DEF Spec
=============================================================================

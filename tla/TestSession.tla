---------------------------- MODULE TestSession -----------------------------
(***************************************************************************)
(* A test on the phone and the host that runs it: the test framework       *)
(* unit/test.c with the two kinds of tests that need the host's help       *)
(* (unit/usart/autobaud.c, unit/scu/reset.c), forward_output of boot.py    *)
(* with its HOST-CMD lines, and the verdict of unit/run.sh.                *)
(*                                                                         *)
(* The phone's output is a sequence of symbols: the text of a line, its    *)
(* newline, the ready byte of a handshake, the completion byte.  The host  *)
(* reads it in chunks that end anywhere.  What is sent while the two ends  *)
(* have different speeds arrives as other bytes.                           *)
(***************************************************************************)
EXTENDS Integers, Sequences, FiniteSets, SequencesExt

CONSTANTS
    Rounds,     \* number of autobaud cases a test has
    Quick,      \* the phone does what it can before the host takes a step, and its
                \* timeouts are longer than what the host has to do meanwhile
    Specials,   \* bound: newlines and completion bytes that come of garbled bytes
    MaxChunk    \* bound: symbols that one port.read returns

ASSUME RoundsAssumption == Rounds \in Nat
ASSUME QuickAssumption == Quick \in BOOLEAN
ASSUME SpecialsAssumption == Specials \in Nat
ASSUME ChunkAssumption == MaxChunk \in Nat \ {0}

Console == "console"        \* the two settings of the line: speed and format
Test == "test"

VARIABLES
    \* the phone
    program,        \* the steps it has still to do
    ended,          \* how it came to its end, or that it went on after the requested reset
    phoneSpeed,
    fifo,           \* bytes from the host
    detected,       \* result of the autobaud case
    failures,       \* state.failures
    failed,         \* history: a check has failed
    \* the line
    output,         \* symbols the host has not read yet
    specials,       \* number of newlines and completion bytes that the phone did not send
    \* forward_output
    host,           \* what it does
    hostSpeed,
    pending,        \* the start of a line
    newline,        \* previous_byte is a newline
    lines,          \* lines that are still to be looked at, each with its newline
    chunk,          \* data: the chunk without its completion byte
    terminator,     \* there was one
    block,          \* command_block, and whether there is one
    queue,          \* commands that are still to be executed
    expected_reset, \* the argument of EXPECT_RESET, or none
    \* run.sh
    stdout          \* whether the last complete line is the result PASS, and an open line

phone == <<program, ended, phoneSpeed, fifo, detected, failures, failed>>
parser == <<pending, newline, lines, chunk, terminator, block, expected_reset>>
hostVars == <<host, hostSpeed, parser, queue, stdout>>
line == <<output, specials>>
vars == <<phone, line, hostVars>>

-----------------------------------------------------------------------------
\* The phone's programs.  The HOST-CMD lines are steps with the command's name.  FORMAT and
\* BAUDRATE are one command; WAIT, which only delays the host, is left out: Quick is what the
\* delays are for.

Sends == {"SEND_trigger", "SEND_frame"}
Commands ==
    Sends \cup {"BEGIN", "EXPECT_ready", "BAUDRATE", "RESTORE", "END",
                "EXPECT_RESET_clean", "EXPECT_RESET_failures"}

\* send_autobaud_frame
SendAutobaudFrame ==
    <<"flush", "BEGIN", "SEND_trigger", "EXPECT_ready", "BAUDRATE", "SEND_frame", "RESTORE",
      "SEND_trigger", "END", "await">>

\* run_autobaud and the check of its caller
Bug_NoLastTrigger == SendAutobaudFrame \o <<"ready", "configure", "detect", "restore", "check">>
AutobaudCase == SendAutobaudFrame \o <<"ready", "configure", "detect", "restore", "await", "check">>

AutobaudTest ==
    [i \in 1 .. Rounds * Len(AutobaudCase) |-> AutobaudCase[1 + ((i - 1) % Len(AutobaudCase))]]
        \o <<"finish">>

\* unit/scu/reset.c with test_expect_reset
ResetTest ==
    <<"any_check", "any_check", "flush", "EXPECT_RESET", "release", "reset", "ERROR", "fail", "finish">>

-----------------------------------------------------------------------------
\* The line.

\* Bytes sent at another speed than the host's may arrive as any others.  A run of bytes that
\* are not special is one symbol.
Garbled == UNION {[1 .. n -> {"junk", "newline", "nul"}] : n \in 1 .. 2}
NumSpecials(r) == Cardinality({i \in 1 .. Len(r) : r[i] # "junk"})
Join(s, r) == IF s # <<>> /\ Last(s) = "junk" /\ Head(r) = "junk" THEN s \o Tail(r) ELSE s \o r

Emit(s) ==
    \/ phoneSpeed = hostSpeed /\ output' = output \o s /\ UNCHANGED specials
    \/ /\ phoneSpeed # hostSpeed
       /\ \E r \in Garbled :
            /\ specials' = specials + NumSpecials(r)
            /\ specials' <= Specials
            /\ output' = Join(output, r)

-----------------------------------------------------------------------------
\* The phone.

Step(name) == program # <<>> /\ Head(program) = name
Done == program' = Tail(program) /\ UNCHANGED ended

\* printf of a command or of the error, a line.  EXPECT_RESET carries the number of failures.
TextOf(step) ==
    IF step # "EXPECT_RESET" THEN step
    ELSE IF failures = 0 THEN "EXPECT_RESET_clean" ELSE "EXPECT_RESET_failures"

PrintLine ==
    /\ program # <<>>
    /\ Head(program) \in Commands \cup {"EXPECT_RESET", "ERROR"}
    /\ Emit(<<TextOf(Head(program)), "newline">>)
    /\ Done
    /\ UNCHANGED <<phoneSpeed, fifo, detected, failures, failed, hostVars>>

FlushFifo ==
    /\ Step("flush")
    /\ fifo' = <<>>
    /\ Done
    /\ UNCHANGED <<phoneSpeed, detected, failures, failed, line, hostVars>>

\* The host does nothing more before it hears from the phone.
HostIsIdle == host \in {"done", "failed"} \/ (host = "reading" /\ output = <<>>)

\* wait_for_host_trigger: any byte will do, and none after the timeout.
AwaitTrigger ==
    /\ Step("await")
    /\ \/ fifo # <<>> /\ fifo' = Tail(fifo)
       \/ fifo = <<>> /\ (Quick => HostIsIdle) /\ UNCHANGED fifo
    /\ Done
    /\ UNCHANGED <<phoneSpeed, detected, failures, failed, line, hostVars>>

NotifyReady ==
    /\ Step("ready")
    /\ Emit(<<"ready">>)
    /\ Done
    /\ UNCHANGED <<phoneSpeed, fifo, detected, failures, failed, hostVars>>

\* configure_autobaud turns the FIFO off and on, restore_usart_configuration flushes it.
Configure ==
    /\ \/ Step("configure") /\ phoneSpeed' = Test
       \/ Step("restore") /\ phoneSpeed' = Console
    /\ fifo' = <<>>
    /\ Done
    /\ UNCHANGED <<detected, failures, failed, line, hostVars>>

\* The loop of run_autobaud: the detection ends with a frame, or with the timeout.
Detect ==
    /\ Step("detect")
    /\ \/ /\ fifo # <<>>
          /\ fifo' = Tail(fifo)
          /\ IF Head(fifo) = "frame"
             THEN Done /\ detected' = TRUE
             ELSE UNCHANGED <<program, ended, detected>>
       \/ /\ fifo = <<>>
          /\ Quick => HostIsIdle
          /\ detected' = FALSE
          /\ Done
          /\ UNCHANGED fifo
    /\ UNCHANGED <<phoneSpeed, failures, failed, line, hostVars>>

\* report
FailuresAfter(passed) == IF passed THEN failures ELSE failures + 1

Check ==
    /\ \E passed \in BOOLEAN :
         /\ \/ Step("check") /\ passed = detected
            \/ Step("any_check")
            \/ Step("fail") /\ ~passed
         /\ Emit(<<IF passed THEN "ok" ELSE "not_ok", "newline">>)
         /\ failures' = FailuresAfter(passed)
         /\ failed' = (failed \/ ~passed)
    /\ Done
    /\ UNCHANGED <<phoneSpeed, fifo, detected, hostVars>>

\* The lines of a result: of test_finish, and of complete_expected_reset.
Result(clean) == <<"plan", "newline", IF clean THEN "PASS" ELSE "FAIL", "newline">>

\* test_finish: plan, result and the completion byte
Finish ==
    /\ Step("finish")
    /\ Emit(Result(failures = 0) \o <<"nul">>)
    /\ program' = <<>>
    /\ ended' = IF ended = "continued" THEN ended ELSE "finish"
    /\ UNCHANGED <<phoneSpeed, fifo, detected, failures, failed, hostVars>>

\* test_expect_reset waits for the host's R, without a timeout.
Release ==
    /\ Step("release")
    /\ fifo # <<>>
    /\ fifo' = Tail(fifo)
    /\ IF Head(fifo) = "R" THEN Done ELSE UNCHANGED <<program, ended>>
    /\ UNCHANGED <<phoneSpeed, detected, failures, failed, line, hostVars>>

\* The requested reset comes, or the program goes on.
Reset ==
    /\ Step("reset")
    /\ \/ program' = <<>> /\ ended' = "reset"
       \/ program' = Tail(program) /\ ended' = "continued"
    /\ UNCHANGED <<phoneSpeed, fifo, detected, failures, failed, line, hostVars>>

\* The watchdog ends a test that hangs, at any point.
Crash ==
    /\ ~Quick
    /\ program # <<>>
    /\ program' = <<>>
    /\ ended' = "crash"
    /\ UNCHANGED <<phoneSpeed, fifo, detected, failures, failed, line, hostVars>>

PhoneSteps ==
    \/ PrintLine \/ FlushFifo \/ AwaitTrigger \/ NotifyReady \/ Configure \/ Detect
    \/ Check \/ Finish \/ Release \/ Reset

\* The phone waits for the host, or has stopped.
PhoneWaits ==
    \/ program = <<>>
    \/ fifo = <<>> /\ \E name \in {"await", "detect", "release"} : Step(name)

-----------------------------------------------------------------------------
\* The host.

HostTurn == Quick => PhoneWaits

Fail == host' = "failed" /\ UNCHANGED <<hostSpeed, parser, queue, stdout>>

\* Position of the completion byte, and the symbols before it.
NulAt(s) == SelectInSeq(s, LAMBDA t : t = "nul")
Bug_NulKept(s) == s
Before(s) == IF NulAt(s) = 0 THEN s ELSE SubSeq(s, 1, NulAt(s) - 1)

\* split: the lines that are complete, and what follows the last newline
LastNewline(s) == SelectLastInSeq(s, LAMBDA t : t = "newline")
CompleteLines(s) == SubSeq(s, 1, LastNewline(s))
OpenLine(s) == SubSeq(s, LastNewline(s) + 1, Len(s))

\* The first of the lines, and the others
FirstNewline(s) == SelectInSeq(s, LAMBDA t : t = "newline")
FirstLine(s) == SubSeq(s, 1, FirstNewline(s) - 1)
OtherLines(s) == SubSeq(s, FirstNewline(s) + 1, Len(s))

Bug_NulOnlyAfterChunk(s) == NulAt(s) # 0 /\ (NulAt(s) = 1 \/ s[NulAt(s) - 1] # "newline")
NulInLine(s) ==
    /\ NulAt(s) # 0
    /\ IF NulAt(s) = 1 THEN ~newline ELSE s[NulAt(s) - 1] # "newline"

Bug_PendingDropped(s) == s
WithPending(s) == pending \o s

\* One port.read: a chunk of any size, its completion byte and its lines
ReadChunk ==
    /\ HostTurn
    /\ host = "reading"
    /\ \E n \in (1 .. Len(output)) \cap (1 .. MaxChunk) :
         LET s == SubSeq(output, 1, n)
             text == WithPending(Before(s))
         IN  /\ output' = SubSeq(output, n + 1, Len(output))
             /\ \/ NulInLine(s) /\ Fail
                \/ /\ ~NulInLine(s)
                   /\ host' = "lines"
                   /\ terminator' = (NulAt(s) # 0)
                   /\ newline' = IF Before(s) = <<>> THEN newline ELSE Last(Before(s)) = "newline"
                   /\ lines' = CompleteLines(text)
                   /\ pending' = OpenLine(text)
                   /\ chunk' = Before(s)
                   /\ expected_reset' = "none"
                   /\ UNCHANGED <<hostSpeed, block, queue, stdout>>
    /\ UNCHANGED <<phone, specials>>

\* parse_host_command.  A command whose newline was lost has a wrong argument or name.
CommandOf(l) ==
    IF l = <<>> \/ Head(l) \notin Commands THEN "none"
    ELSE IF Len(l) = 1 THEN Head(l) ELSE "malformed"

ResetCommands == {"EXPECT_RESET_clean", "EXPECT_RESET_failures"}
NoBlock == [open |-> FALSE, commands |-> <<>>, configuration |-> Console]

\* The for loop over the lines: c is the command of the next one.
TakeLine(c) ==
    /\ HostTurn
    /\ host = "lines"
    /\ lines # <<>>
    /\ c = CommandOf(FirstLine(lines))
    /\ UNCHANGED <<phone, line>>
NextLine ==
    /\ lines' = OtherLines(lines)
    /\ UNCHANGED <<hostSpeed, pending, newline, chunk, terminator, stdout>>

SkipLine ==
    /\ TakeLine("none")
    /\ NextLine
    /\ UNCHANGED <<host, block, queue, expected_reset>>

\* ProtocolError of BEGIN, END and EXPECT_RESET
Misplaced(c) ==
    \/ c = "BEGIN" /\ block.open
    \/ c = "END" /\ ~block.open
    \/ c \in ResetCommands /\ (block.open \/ expected_reset # "none")

RefuseLine ==
    \E c \in Commands :
        /\ TakeLine(c)
        /\ Misplaced(c)
        /\ Fail

BeginBlock ==
    /\ TakeLine("BEGIN")
    /\ ~Misplaced("BEGIN")
    /\ block' = [open |-> TRUE, commands |-> <<>>, configuration |-> hostSpeed]
    /\ NextLine
    /\ UNCHANGED <<host, queue, expected_reset>>

\* The block stays until its commands have been executed.
EndBlock ==
    /\ TakeLine("END")
    /\ ~Misplaced("END")
    /\ queue' = block.commands
    /\ host' = "executing"
    /\ NextLine
    /\ UNCHANGED <<block, expected_reset>>

ExpectReset ==
    \E c \in ResetCommands :
        /\ TakeLine(c)
        /\ ~Misplaced(c)
        /\ expected_reset' = c
        /\ NextLine
        /\ UNCHANGED <<host, block, queue>>

\* Any other command is executed at once, or kept for the end of the block.
OtherCommand ==
    \E c \in (Commands \cup {"malformed"}) \ ({"BEGIN", "END"} \cup ResetCommands) :
        /\ TakeLine(c)
        /\ \/ /\ ~block.open
              /\ queue' = <<c>>
              /\ host' = "executing"
              /\ UNCHANGED block
           \/ /\ block.open
              /\ block' = [block EXCEPT !.commands = Append(@, c)]
              /\ UNCHANGED <<host, queue>>
        /\ NextLine
        /\ UNCHANGED expected_reset

\* What is written to the port is in the phone's FIFO, if the phone has the host's speed.
Transmit(text) == fifo' = Append(fifo, IF phoneSpeed = hostSpeed THEN text ELSE "junk")

TakeCommand(c) ==
    /\ HostTurn
    /\ host = "executing"
    /\ queue # <<>>
    /\ c = Head(queue)
NextCommand == queue' = Tail(queue) /\ UNCHANGED <<host, parser, stdout>>

\* execute_host_command: SEND
SendData ==
    \E c \in Sends :
        /\ TakeCommand(c)
        /\ Transmit(IF c = "SEND_trigger" THEN "trigger" ELSE "frame")
        /\ NextCommand
        /\ UNCHANGED <<program, ended, phoneSpeed, detected, failures, failed, line, hostSpeed>>

\* EXPECT reads from the port, not from what forward_output has already read.
ExpectReady ==
    /\ TakeCommand("EXPECT_ready")
    /\ \/ /\ output # <<>>
          /\ output' = Tail(output)
          /\ \/ Head(output) = "ready" /\ NextCommand /\ UNCHANGED hostSpeed
             \/ Head(output) # "ready" /\ Fail
       \/ output = <<>> /\ Fail /\ UNCHANGED output
    /\ UNCHANGED <<phone, specials>>

\* BAUDRATE with FORMAT, and RESTORE, which needs a block
ChangeSpeed ==
    /\ \/ TakeCommand("BAUDRATE") /\ hostSpeed' = Test
       \/ TakeCommand("RESTORE") /\ block.open /\ hostSpeed' = block.configuration
    /\ NextCommand
    /\ UNCHANGED <<phone, line>>

RefuseCommand ==
    /\ \/ TakeCommand("malformed")
       \/ TakeCommand("RESTORE") /\ ~block.open
    /\ Fail
    /\ UNCHANGED <<phone, line>>

\* command_block = None after its last command
CommandsDone ==
    /\ HostTurn
    /\ host = "executing"
    /\ queue = <<>>
    /\ host' = "lines"
    /\ block' = NoBlock
    /\ UNCHANGED <<phone, line, hostSpeed, pending, newline, lines, chunk, terminator, expected_reset,
                   queue, stdout>>

\* The last line that is not empty, as tap-result.awk sees it: where it ends, and what it is
LastText(s) == SelectLastInSeq(CompleteLines(s), LAMBDA t : t # "newline")
IsPass(s, i) == s[i] = "PASS" /\ (i = 1 \/ s[i - 1] = "newline")

Write(s) ==
    LET text == stdout.open \o s
        end == LastText(text)
    IN  stdout' = [pass |-> IF end = 0 THEN stdout.pass ELSE IsPass(text, end),
                   open |-> OpenLine(text)]

\* The end of the loop over the chunk's lines
EndOfChunk ==
    /\ HostTurn
    /\ host = "lines"
    /\ lines = <<>>
    /\ \/ terminator /\ block.open /\ Fail /\ UNCHANGED phone
       \/ /\ ~(terminator /\ block.open)
          /\ Write(chunk)
          /\ chunk' = <<>>
          /\ \/ terminator /\ host' = "done" /\ UNCHANGED phone
             \/ /\ ~terminator
                /\ expected_reset = "none"
                /\ host' = "reading"
                /\ UNCHANGED phone
             \/ /\ ~terminator
                /\ expected_reset # "none"
                /\ Transmit("R")
                /\ host' = "observing"
                /\ UNCHANGED <<program, ended, phoneSpeed, detected, failures, failed>>
          /\ UNCHANGED <<hostSpeed, pending, newline, lines, terminator, block, expected_reset, queue>>
    /\ UNCHANGED line

\* complete_expected_reset: an error line in the time of observation is a failure.  What it then
\* writes has no influence on the verdict.
Observe ==
    /\ HostTurn
    /\ host = "observing"
    /\ output # <<>>
    /\ output' = Tail(output)
    /\ \/ Head(output) = "ERROR" /\ Fail
       \/ Head(output) # "ERROR" /\ UNCHANGED hostVars
    /\ UNCHANGED <<phone, specials>>

\* The time of observation, one second, is longer than the 250 ms after which a phone that
\* was not reset says so.
Bug_AlwaysClean(argument) == TRUE
CleanSoFar(argument) == argument = "EXPECT_RESET_clean"

Observed ==
    /\ host = "observing"
    /\ output = <<>>
    /\ program = <<>>
    /\ Write(<<"ok", "newline">> \o Result(CleanSoFar(expected_reset)))
    /\ host' = "done"
    /\ UNCHANGED <<phone, line, hostSpeed, parser, queue>>

HostSteps ==
    \/ ReadChunk \/ SkipLine \/ RefuseLine \/ BeginBlock \/ EndBlock \/ ExpectReset \/ OtherCommand
    \/ SendData \/ ExpectReady \/ ChangeSpeed \/ RefuseCommand \/ CommandsDone \/ EndOfChunk
    \/ Observe \/ Observed

-----------------------------------------------------------------------------

Init ==
    /\ program \in {AutobaudTest, ResetTest}
    /\ ended = "running"
    /\ phoneSpeed = Console
    /\ fifo = <<>>
    /\ detected = FALSE
    /\ failures = 0
    /\ failed = FALSE
    /\ output = <<>>
    /\ specials = 0
    /\ host = "reading"
    /\ hostSpeed = Console
    /\ pending = <<>>
    /\ newline = FALSE
    /\ lines = <<>>
    /\ chunk = <<>>
    /\ terminator = FALSE
    /\ block = NoBlock
    /\ queue = <<>>
    /\ expected_reset = "none"
    /\ stdout = [pass |-> FALSE, open |-> <<>>]

Next == PhoneSteps \/ Crash \/ HostSteps

Fairness == WF_vars(PhoneSteps) /\ WF_vars(HostSteps)
Spec == Init /\ [][Next]_vars /\ Fairness

-----------------------------------------------------------------------------
\* Properties.

\* Exit status 0 of run.sh: boot.py ended without an error, and the last line is the result PASS.
Success ==
    /\ host = "done"
    /\ IF stdout.open # <<>> THEN stdout.open = <<"PASS">> ELSE stdout.pass

Symbols ==
    Commands \cup {"ERROR", "ok", "not_ok", "plan", "PASS", "FAIL", "ready", "junk", "newline", "nul"}

\* Every variable keeps its type; chunks, lines and blocks hold symbols and commands only.
TypeOK ==
    /\ ended \in {"running", "continued", "finish", "reset", "crash"}
    /\ {phoneSpeed, hostSpeed, block.configuration} \subseteq {Console, Test}
    /\ ToSet(fifo) \subseteq {"trigger", "frame", "R", "junk"}
    /\ {detected, failed, newline, terminator, block.open, stdout.pass} \subseteq BOOLEAN
    /\ failures \in Nat
    /\ specials \in 0 .. Specials
    /\ ToSet(output) \subseteq Symbols
    /\ ToSet(chunk) \subseteq Symbols \ {"nul"}
    /\ ToSet(lines) \subseteq Symbols \ {"nul"}
    /\ ToSet(pending) \cup ToSet(stdout.open) \subseteq Symbols \ {"nul", "newline"}
    /\ host \in {"reading", "lines", "executing", "observing", "done", "failed"}
    /\ ToSet(block.commands) \cup ToSet(queue) \subseteq Commands \cup {"malformed"}
    /\ expected_reset \in ResetCommands \cup {"none"}

\* run.sh succeeds only if no check of the test has failed, the phone does not run it any more and
\* has not come back from a reset it had asked for,
\* whatever the phone's and the host's timeouts, the bytes garbled by speeds that differ and a
\* phone that stops at any point have done to the output (forward_output, tap-result.awk).
VerdictHonest == Success => ~failed /\ ended \notin {"running", "continued"}

\* Where the timeouts suffice, the two ends never talk at different speeds: nothing the host reads
\* is garbled, although each changes its speed by itself (run_autobaud and its HOST-CMD block).
NothingGarbled == \A s \in {output, pending, chunk, lines} : "junk" \notin ToSet(s)

\* Where the timeouts suffice, boot.py ends with an error only if the phone went on after the reset
\* it had announced: however the output is cut into chunks, no command line is lost or taken for
\* another, and no completion byte is refused (forward_output).
OnlyMissedResetFails == host = "failed" => ended = "continued"

\* Where the timeouts suffice, boot.py comes to its end: no HOST-CMD leaves the phone and the host
\* waiting for each other (wait_for_host_trigger, test_expect_reset, forward_output).
SessionEnds == <>(host \in {"done", "failed"})

\* unit/README.md: tests that reset the phone do not emit the result, so run.sh succeeds only when
\* the phone itself has printed it.
OnlyPhoneConfirms == Success => ended = "finish"
=============================================================================

------------------------------ MODULE Watchdog ------------------------------
(***************************************************************************)
(* The watchdog driver lib/wdt.c (the variant for the SCU's own watchdog,  *)
(* without GPIO_PM_WADOG), called by a main program and by an interrupt    *)
(* handler that may serve the watchdog too, as that of io_bridge does.     *)
(*                                                                         *)
(* The SCU watchdog is modelled from how the driver uses it.  A password   *)
(* access starts time-out mode, in which the sequence has to be finished   *)
(* within AccessTicks; a modify access relocks the register and, with      *)
(* ENDINIT set, applies WDTCON1 and restarts the count of `period` ticks.  *)
(* An access out of order, or a count that runs out, resets the phone.     *)
(*                                                                         *)
(* A tick is one input clock of the watchdog; the stopwatch is read on     *)
(* ticks too.  Times are kept as ages, which stop at Horizon, past every   *)
(* limit.  A sequence of register accesses takes less than a tick, so at   *)
(* most one tick falls into it.                                            *)
(***************************************************************************)
EXTENDS Integers

CONSTANTS
    Clock, Second,  \* Clock ticks are Second milliseconds: 1586 ticks, 1000 ms
    LongMs,         \* from here on cpu_wdt_reload_for_ms does not multiply: 60000
    Wrap,           \* 2^32: values of a uint32_t
    Factor,         \* WDT_TIMEOUT_FACTOR: 4
    MinTicks,       \* WDT_MIN_TICKS: 4
    MaxTicks,       \* WDT_MAX_TICKS: 0x10000
    AccessTicks,    \* ticks of time-out mode: 0x10000 - 0xFFFC = 4
    Intervals,      \* arguments of wdt_init_custom
    NewIntervals,   \* arguments of wdt_set_interval
    Limits,         \* arguments of wdt_set_max_execution_time
    Gap,            \* the main program returns from a wdt_serve at least this often
    Horizon

ASSUME ClockAssumption ==
    Clock \in Nat \ {0} /\ Second \in Nat \ {0} /\ LongMs \in Nat /\ Wrap \in Nat \ {0}
ASSUME TicksAssumption ==
    /\ Factor \in Nat \ {0} /\ MinTicks \in Nat \ {0} /\ MaxTicks \in Nat /\ MinTicks <= MaxTicks
    /\ AccessTicks \in Nat /\ AccessTicks >= 2
ASSUME ArgumentsAssumption ==
    /\ Intervals \subseteq Nat /\ NewIntervals \subseteq Nat /\ Limits \subseteq Nat
    /\ Gap \in Nat /\ Horizon \in Nat

VARIABLES
    \* the driver's static variables; times as ages
    wdt_interval,
    wdt_off,
    wdt_timeout,
    sinceServe,     \* stopwatch_elapsed(last_wdt_serve)
    sinceStart,     \* stopwatch_elapsed(start_execution)
    \* the two contexts
    pc,             \* where each of them is
    masked,         \* the I bit of CPSR
    saved,          \* irq_was_disabled of each
    reload,         \* argument of cpu_wdt_set_mode, as a period
    disable,        \* argument con1 of cpu_wdt_set_mode
    wanted,         \* the main program's own choice of the I bit
    idle,           \* ticks since the main program's last wdt_serve
    hung,           \* the main program has stopped to make calls
    refused,        \* wdt_serve has returned for the limit since the count was restarted
    slack,          \* a tick may fall into the running access sequence
    \* the SCU watchdog
    mode,
    count,          \* ticks since it was started
    period,         \* 0x10000 - WDTREL
    unlocked,
    endinit,
    wdtdr,          \* the disable request in WDTCON1
    reset

driver == <<wdt_interval, wdt_off, wdt_timeout, sinceServe, sinceStart>>
program == <<wanted, idle, hung, refused>>
hardware == <<mode, count, period, unlocked, endinit, wdtdr>>
vars == <<driver, pc, masked, saved, reload, disable, program, slack, hardware, reset>>

Contexts == {"main", "isr"}

\* The handler runs to its end before the main program goes on.
Turn(c) == ~reset /\ (c = "main" => pc["isr"] = "out")
Free(c) == Turn(c) /\ pc[c] = "run" /\ (c = "main" => ~hung)
Go(c, from, to) == Turn(c) /\ pc[c] = from /\ pc' = [pc EXCEPT ![c] = to]

-----------------------------------------------------------------------------
\* The SCU watchdog.

Password ==
    /\ unlocked' = TRUE
    /\ IF mode = "timeout" THEN UNCHANGED <<mode, count>> ELSE mode' = "timeout" /\ count' = 0
    /\ UNCHANGED <<period, endinit, wdtdr, reset>>

Modify(ticks, final) ==
    /\ period' = ticks
    /\ unlocked' = FALSE
    /\ endinit' = final
    /\ IF final
       THEN mode' = (IF wdtdr THEN "disabled" ELSE "normal") /\ count' = 0
       ELSE UNCHANGED <<mode, count>>
    /\ reset' = ~unlocked
    /\ UNCHANGED wdtdr

WriteCon1(off) ==
    /\ wdtdr' = off
    /\ reset' = endinit
    /\ UNCHANGED <<mode, count, period, unlocked, endinit>>

Overflow ==
    \/ mode = "timeout" /\ count + 1 >= AccessTicks
    \/ mode = "normal" /\ count + 1 >= period

-----------------------------------------------------------------------------
\* The driver.

\* cpu_wdt_reload_for_ms, as the period it programs
Bug_NotClamped(ms) == (Clock * ms) \div Second
Ticks(ms) ==
    LET ticks == IF ms < LongMs THEN (Clock * ms) \div Second ELSE MaxTicks
    IN  IF ticks < MinTicks THEN MinTicks ELSE IF ticks > MaxTicks THEN MaxTicks ELSE ticks

\* stopwatch_elapsed_ms
ElapsedMs(age) == (age * Second) \div Clock

AtLeastOne(ms) == IF ms # 0 THEN ms ELSE 1

\* wdt_init_custom: the interval and wdt_off, last_wdt_serve, then cpu_wdt_set_mode
InitCustom(ms) ==
    /\ Free("main")
    /\ wdt_interval' = AtLeastOne(ms)
    /\ wdt_off' = FALSE
    /\ Go("main", "run", "stamp_mode")
    /\ UNCHANGED <<wdt_timeout, sinceServe, sinceStart, masked, saved, reload, disable, program, slack,
                   hardware, reset>>

StampMode ==
    /\ Go("main", "stamp_mode", "mask_mode")
    /\ sinceServe' = 0
    /\ reload' = Ticks((wdt_interval * Factor) % Wrap)
    /\ disable' = FALSE
    /\ UNCHANGED <<wdt_interval, wdt_off, wdt_timeout, sinceStart, masked, saved, program, slack,
                   hardware, reset>>

SetInterval(ms) ==
    /\ Free("main")
    /\ wdt_interval' = AtLeastOne(ms)
    /\ UNCHANGED <<wdt_off, wdt_timeout, sinceServe, sinceStart, pc, masked, saved, reload, disable,
                   program, slack, hardware, reset>>

Disable ==
    /\ Free("main")
    /\ wdt_off' = TRUE
    /\ reload' = period
    /\ disable' = TRUE
    /\ Go("main", "run", "mask_mode")
    /\ UNCHANGED <<wdt_interval, wdt_timeout, sinceServe, sinceStart, masked, saved, program, slack,
                   hardware, reset>>

\* wdt_set_max_execution_time: first start_execution, then wdt_timeout
StartExecution ==
    /\ Free("main")
    /\ sinceStart' = 0
    /\ Go("main", "run", "limit")
    /\ UNCHANGED <<wdt_interval, wdt_off, wdt_timeout, sinceServe, masked, saved, reload, disable,
                   program, slack, hardware, reset>>

SetMaxExecutionTime(ms) ==
    /\ Go("main", "limit", "run")
    /\ wdt_timeout' = ms
    /\ UNCHANGED <<wdt_interval, wdt_off, sinceServe, sinceStart, masked, saved, reload, disable,
                   program, slack, hardware, reset>>

OverLimit == wdt_timeout # 0 /\ ElapsedMs(sinceStart) >= wdt_timeout

IntervalOver == ~wdt_off /\ ElapsedMs(sinceServe) >= wdt_interval

\* wdt_serve goes on to cpu_wdt_reload.
Bug_ServedTooLate == ~wdt_off /\ ElapsedMs(sinceServe) >= Factor * wdt_interval /\ ~OverLimit
Bug_LimitIgnored == IntervalOver
Due == IntervalOver /\ ~OverLimit

Served(c) == IF c = "main" THEN 0 ELSE idle

Serve(c) ==
    /\ Free(c)
    /\ IF Due
       THEN pc' = [pc EXCEPT ![c] = "mask"] /\ UNCHANGED idle
       ELSE idle' = Served(c) /\ UNCHANGED pc
    /\ refused' = (refused \/ (IntervalOver /\ OverLimit))
    /\ UNCHANGED <<driver, masked, saved, reload, disable, wanted, hung, slack, hardware, reset>>

\* bool irq_was_disabled = cpu_enable_irq(false)
Bug_NotMasked == UNCHANGED masked
MaskIrq == masked' = TRUE

Mask(c) ==
    /\ \/ Go(c, "mask", "unlock")
       \/ Go(c, "mask_mode", "unlock_mode")
    /\ saved' = [saved EXCEPT ![c] = masked]
    /\ MaskIrq
    /\ slack' = 1
    /\ UNCHANGED <<driver, reload, disable, program, hardware, reset>>

\* cpu_wdt_reload: password access, modify access with the old reload value.
Unlock(c) ==
    /\ Go(c, "unlock", "lock")
    /\ Password
    /\ UNCHANGED <<driver, masked, saved, reload, disable, program, slack>>

Bug_EndinitLeftClear(c) ==
    /\ Go(c, "lock", "restore")
    /\ Modify(period, FALSE)
    /\ refused' = FALSE
    /\ UNCHANGED <<driver, masked, saved, reload, disable, wanted, idle, hung, slack>>
Lock(c) ==
    /\ Go(c, "lock", "restore")
    /\ Modify(period, TRUE)
    /\ refused' = FALSE
    /\ UNCHANGED <<driver, masked, saved, reload, disable, wanted, idle, hung, slack>>

\* cpu_wdt_set_mode: ENDINIT has to be cleared before WDTCON1 can be written.
UnlockMode ==
    /\ \/ Go("main", "unlock_mode", "lock_mode")
       \/ Go("main", "unlock_again", "lock_again")
    /\ Password
    /\ UNCHANGED <<driver, masked, saved, reload, disable, program, slack>>

LockMode ==
    /\ \/ Go("main", "lock_mode", "con1") /\ Modify(reload, FALSE) /\ UNCHANGED refused
       \/ Go("main", "lock_again", "restore_mode") /\ Modify(reload, TRUE) /\ refused' = FALSE
    /\ UNCHANGED <<driver, masked, saved, reload, disable, wanted, idle, hung, slack>>

Bug_Con1Zero ==
    /\ Go("main", "con1", "unlock_again")
    /\ WriteCon1(FALSE)
    /\ UNCHANGED <<driver, masked, saved, reload, disable, program, slack>>
SetCon1 ==
    /\ Go("main", "con1", "unlock_again")
    /\ WriteCon1(disable)
    /\ UNCHANGED <<driver, masked, saved, reload, disable, program, slack>>

\* cpu_enable_irq(!irq_was_disabled)
Bug_AlwaysEnabled(c) == masked' = FALSE
RestoreIrq(c) == masked' = saved[c]

Restore(c) ==
    /\ \/ Go(c, "restore", "stamp")
       \/ Go(c, "restore_mode", "run")
    /\ RestoreIrq(c)
    /\ slack' = 0
    /\ UNCHANGED <<driver, saved, reload, disable, program, hardware, reset>>

\* last_wdt_serve = stopwatch_get()
Stamp(c) ==
    /\ Go(c, "stamp", "run")
    /\ sinceServe' = 0
    /\ idle' = Served(c)
    /\ UNCHANGED <<wdt_interval, wdt_off, wdt_timeout, sinceStart, masked, saved, reload, disable,
                   wanted, hung, refused, slack, hardware, reset>>

-----------------------------------------------------------------------------
\* The program, its interrupts and time.

\* The main program masks or unmasks interrupts on its own.
SwitchIrq ==
    /\ Free("main")
    /\ wanted' = ~wanted
    /\ masked' = wanted'
    /\ UNCHANGED <<driver, pc, saved, reload, disable, idle, hung, refused, slack, hardware, reset>>

\* The exception saves CPSR and sets the I bit; its return restores it.
Interrupt ==
    /\ ~reset
    /\ ~masked
    /\ pc["isr"] = "out"
    /\ pc' = [pc EXCEPT !["isr"] = "run"]
    /\ masked' = TRUE
    /\ UNCHANGED <<driver, saved, reload, disable, program, slack, hardware, reset>>

Return ==
    /\ ~reset
    /\ pc["isr"] = "run"
    /\ pc' = [pc EXCEPT !["isr"] = "out"]
    /\ masked' = FALSE
    /\ UNCHANGED <<driver, saved, reload, disable, program, slack, hardware, reset>>

Hang ==
    /\ Free("main")
    /\ pc["isr"] = "out"
    /\ hung' = TRUE
    /\ UNCHANGED <<driver, pc, masked, saved, reload, disable, wanted, idle, refused, slack,
                   hardware, reset>>

InSequence(c) == pc[c] \notin {"run", "out", "mask", "mask_mode", "stamp", "stamp_mode", "limit"}

Older(age) == IF age < Horizon THEN age + 1 ELSE age

\* A context that is not in a sequence, or is interrupted in it, lets time pass freely,
\* as long as the main program comes to its next wdt_serve in time.
Tick ==
    /\ ~reset
    /\ hung \/ idle < Gap
    /\ IF \E c \in Contexts : InSequence(c) /\ Turn(c)
       THEN slack > 0 /\ slack' = slack - 1
       ELSE UNCHANGED slack
    /\ sinceServe' = Older(sinceServe)
    /\ sinceStart' = Older(sinceStart)
    /\ idle' = Older(idle)
    /\ count' = IF mode = "disabled" THEN count ELSE count + 1
    /\ reset' = Overflow
    /\ UNCHANGED <<wdt_interval, wdt_off, wdt_timeout, pc, masked, saved, reload, disable, wanted, hung,
                   refused, mode, period, unlocked, endinit, wdtdr>>

-----------------------------------------------------------------------------

\* The preloader's first call is wdt_init, with interrupts off and before the watchdog
\* can run out: the model starts when its cpu_wdt_set_mode has returned.
Init ==
    \E ms \in Intervals :
        /\ wdt_interval = AtLeastOne(ms)
        /\ wdt_off = FALSE
        /\ wdt_timeout = 0
        /\ sinceServe = 0
        /\ sinceStart = 0
        /\ pc = [c \in Contexts |-> IF c = "main" THEN "run" ELSE "out"]
        /\ masked = TRUE
        /\ saved = [c \in Contexts |-> TRUE]
        /\ reload = Ticks((wdt_interval * Factor) % Wrap)
        /\ disable = FALSE
        /\ wanted = TRUE
        /\ idle = 0
        /\ hung = FALSE
        /\ refused = FALSE
        /\ slack = 0
        /\ mode = "normal"
        /\ count = 0
        /\ period = reload
        /\ unlocked = FALSE
        /\ endinit = TRUE
        /\ wdtdr = FALSE
        /\ reset = FALSE

Calls ==
    \/ \E ms \in Intervals : InitCustom(ms)
    \/ \E ms \in NewIntervals : SetInterval(ms)
    \/ Disable
    \/ StartExecution
    \/ \E c \in Contexts : Serve(c)

Steps ==
    \/ \E c \in Contexts : Mask(c) \/ Unlock(c) \/ Lock(c) \/ Restore(c) \/ Stamp(c)
    \/ StampMode \/ UnlockMode \/ LockMode \/ SetCon1
    \/ \E ms \in Limits : SetMaxExecutionTime(ms)

Next == Calls \/ Steps \/ SwitchIrq \/ Interrupt \/ Return \/ Hang \/ Tick

Fairness == WF_vars(Steps) /\ WF_vars(Return) /\ WF_vars(Tick)

Spec == Init /\ [][Next]_vars /\ Fairness

-----------------------------------------------------------------------------

Locations ==
    {"run", "out", "mask", "unlock", "lock", "restore", "stamp", "limit", "stamp_mode", "mask_mode",
     "unlock_mode", "lock_mode", "con1", "unlock_again", "lock_again", "restore_mode"}

\* The types of the driver's variables, the contexts and the watchdog's registers.
TypeOK ==
    /\ wdt_interval \in Nat \ {0}
    /\ wdt_off \in BOOLEAN /\ wdt_timeout \in Nat
    /\ sinceServe \in Nat /\ sinceStart \in Nat
    /\ pc \in [Contexts -> Locations]
    /\ masked \in BOOLEAN /\ saved \in [Contexts -> BOOLEAN]
    /\ reload \in MinTicks .. MaxTicks /\ disable \in BOOLEAN
    /\ wanted \in BOOLEAN /\ idle \in Nat /\ hung \in BOOLEAN /\ refused \in BOOLEAN
    /\ slack \in {0, 1}
    /\ mode \in {"normal", "timeout", "disabled"}
    /\ count \in Nat /\ period \in MinTicks .. MaxTicks
    /\ unlocked \in BOOLEAN /\ endinit \in BOOLEAN /\ wdtdr \in BOOLEAN
    /\ reset \in BOOLEAN

\* The watchdog bites only a program that deserves it: one that has stopped to call
\* wdt_serve, or was refused by it for its wdt_set_max_execution_time.  Neither a handler that
\* serves in the middle of anything, nor the early return before wdt_interval has
\* passed, nor a tick in the middle of an access resets a live phone.
NoSpuriousReset ==
    reset => hung \/ refused

\* The driver leaves the I bit as it found it, for callers with interrupts on and off.
IrqRestored ==
    pc["main"] = "run" /\ pc["isr"] = "out" => masked = wanted

\* Time-out mode ends with the sequence that started it: outside of a sequence the
\* registers are locked again and WDTCON1 is protected.
SequencesComplete ==
    ~reset /\ (\A c \in Contexts : ~InSequence(c)) =>
        mode # "timeout" /\ ~unlocked /\ endinit

\* After wdt_disable the watchdog stays off until the next wdt_init, whoever serves.
StaysOff ==
    wdt_off /\ pc["main"] = "run" => mode # "normal"

\* A program that hangs under an execution limit is reset, even when its interrupt
\* handler goes on serving the watchdog.
HungIsReset == [](hung /\ wdt_timeout # 0 /\ ~wdt_off => <>reset)

\* "How much longer than the serve interval the hardware timeout is": lib/wdt.c says it
\* of WDT_TIMEOUT_FACTOR.
TimeoutIsFactor ==
    mode = "normal" /\ pc["main"] = "run" =>
        period >= Ticks(Factor * wdt_interval)
=============================================================================

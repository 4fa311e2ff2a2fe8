--------------------------- MODULE WatchdogProofs ---------------------------
(***************************************************************************)
(* The watchdog driver for every clock, interval and limit: its types, the *)
(* I bit, the access sequences, and that no live program is reset.         *)
(***************************************************************************)
EXTENDS Watchdog, TLAPS

-----------------------------------------------------------------------------
\* The inductive invariant of the two contexts and the registers.

IsrLocations == {"out", "run", "mask", "unlock", "lock", "restore", "stamp"}

\* An interrupt never finds the main program inside an access sequence.
WhereInv ==
    /\ pc["main"] # "out" /\ pc["isr"] \in IsrLocations
    /\ pc["isr"] # "out" => ~InSequence("main")

\* Who has set the I bit: the handler, the main program's sequence, or the main
\* program itself.
IrqInv ==
    /\ saved["isr"]
    /\ pc["isr"] # "out" => masked /\ ~wanted
    /\ InSequence("main") => masked /\ saved["main"] = wanted
    /\ pc["isr"] = "out" /\ ~InSequence("main") => masked = wanted

\* What each location of a sequence finds in the registers.
LockInv ==
    /\ unlocked <=> "lock" \in {pc["main"], pc["isr"]} \/ pc["main"] \in {"lock_mode", "lock_again"}
    /\ endinit <=> pc["main"] \notin {"con1", "unlock_again", "lock_again"}
    /\ mode = "timeout" <=>
           \/ "lock" \in {pc["main"], pc["isr"]}
           \/ pc["main"] \in {"lock_mode", "con1", "unlock_again", "lock_again"}

\* wdt_off, the argument of cpu_wdt_set_mode, WDTCON1 and the mode follow each other.
OffInv ==
    /\ pc["main"] = "stamp_mode" => ~wdt_off
    /\ pc["main"] \in {"mask_mode", "unlock_mode", "lock_mode", "con1"} => disable = wdt_off
    /\ pc["main"] \notin {"stamp_mode", "mask_mode", "unlock_mode", "lock_mode", "con1"} =>
           wdtdr = wdt_off
    /\ mode # "timeout" => mode = IF wdtdr THEN "disabled" ELSE "normal"

Inv == TypeOK /\ WhereInv /\ IrqInv /\ LockInv /\ OffInv

-----------------------------------------------------------------------------
\* Arithmetic of the driver.

\* A product of ticks and milliseconds divides to a natural number.
LEMMA ScaleFact ==
    ASSUME NEW a \in Nat, NEW b \in Nat, NEW d \in Nat \ {0}
    PROVE  (a * b) \div d \in Nat
<1> DEFINE product == a * b
<1>1. product \in Nat
    OBVIOUS
<1> HIDE DEF product
<1>2. product \div d \in Nat
    BY <1>1
<1> QED BY <1>2 DEF product

\* cpu_wdt_reload_for_ms always programs a period between the two limits.
LEMMA TicksFact ==
    ASSUME NEW ms \in Nat
    PROVE  Ticks(ms) \in MinTicks .. MaxTicks
<1> DEFINE scaled == (Clock * ms) \div Second
<1>1. scaled \in Nat
    BY ScaleFact, ClockAssumption
<1> HIDE DEF scaled
<1>2. Ticks(ms) = LET ticks == IF ms < LongMs THEN scaled ELSE MaxTicks
                  IN  IF ticks < MinTicks THEN MinTicks ELSE IF ticks > MaxTicks THEN MaxTicks ELSE ticks
    BY DEF Ticks, scaled
<1> QED BY <1>1, <1>2, TicksAssumption

\* The interval of wdt_init_custom and wdt_set_interval is never zero.
LEMMA AtLeastOneFact ==
    ASSUME NEW ms \in Nat
    PROVE  AtLeastOne(ms) \in Nat \ {0}
BY DEF AtLeastOne

\* The period of wdt_init_custom is in range although the product may wrap.
LEMMA WrappedFact ==
    ASSUME NEW interval \in Nat
    PROVE  Ticks((interval * Factor) % Wrap) \in MinTicks .. MaxTicks
<1> DEFINE product == interval * Factor
<1>1. product \in Nat
    BY TicksAssumption
<1> HIDE DEF product
<1>2. product % Wrap \in Nat
    BY <1>1, ClockAssumption
<1> QED BY <1>2, TicksFact DEF product

-----------------------------------------------------------------------------
\* The invariant is inductive.

\* It holds when the first cpu_wdt_set_mode has returned.
LEMMA InitInv == Init => Inv
<1> SUFFICES ASSUME Init PROVE Inv
    OBVIOUS
<1>1. PICK ms \in Intervals : wdt_interval = AtLeastOne(ms)
    BY DEF Init
<1>2. wdt_interval \in Nat \ {0}
    BY <1>1, AtLeastOneFact, ArgumentsAssumption
<1>3. reload \in MinTicks .. MaxTicks /\ period \in MinTicks .. MaxTicks
    BY <1>2, WrappedFact DEF Init
<1>4. pc = [c \in Contexts |-> IF c = "main" THEN "run" ELSE "out"] /\ pc["main"] = "run" /\ pc["isr"] = "out"
    BY DEF Init, Contexts
<1>5. saved \in [Contexts -> BOOLEAN] /\ saved["isr"] /\ pc \in [Contexts -> Locations]
    BY <1>4 DEF Init, Contexts, Locations
<1>6. /\ wdt_off = FALSE /\ wdt_timeout = 0 /\ sinceServe = 0 /\ sinceStart = 0
      /\ masked = TRUE /\ disable = FALSE /\ wanted = TRUE /\ idle = 0 /\ hung = FALSE /\ refused = FALSE
      /\ slack = 0 /\ mode = "normal" /\ count = 0 /\ unlocked = FALSE /\ endinit = TRUE
      /\ wdtdr = FALSE /\ reset = FALSE
    BY DEF Init
<1>7. TypeOK
    BY <1>2, <1>3, <1>5, <1>6 DEF TypeOK
<1> QED
    BY <1>4, <1>5, <1>6, <1>7 DEF Inv, WhereInv, IrqInv, LockInv, OffInv, InSequence, Contexts, IsrLocations

\* One location changes, the other context's stays.
LEMMA GoFact ==
    ASSUME TypeOK, NEW c \in Contexts, NEW from \in Locations, NEW to \in Locations, Go(c, from, to)
    PROVE  /\ ~reset /\ pc[c] = from /\ pc' \in [Contexts -> Locations]
           /\ c = "main" => pc["isr"] = "out" /\ pc'["main"] = to /\ pc'["isr"] = pc["isr"]
           /\ c = "isr" => pc'["isr"] = to /\ pc'["main"] = pc["main"]
BY DEF TypeOK, Contexts, Go, Turn

\* A step of the program leaves a state of the invariant.
LEMMA NextInv == Inv /\ [Next]_vars => Inv'
<1> SUFFICES ASSUME Inv, [Next]_vars PROVE Inv'
    OBVIOUS
<1> USE DEF Inv
<1>u. CASE UNCHANGED vars
    BY <1>u DEF vars, driver, program, hardware, TypeOK, WhereInv, IrqInv, LockInv, OffInv, InSequence
<1>1. ASSUME NEW ms \in Intervals, InitCustom(ms) PROVE Inv'
    <2>1. AtLeastOne(ms) \in Nat \ {0}
        BY AtLeastOneFact, ArgumentsAssumption
    <2>2. pc["main"] = "run" /\ pc["isr"] = "out" /\ pc'["main"] = "stamp_mode" /\ pc'["isr"] = "out"
          /\ pc' \in [Contexts -> Locations]
        BY <1>1, GoFact DEF InitCustom, Contexts, Locations
    <2> QED
        BY <1>1, <2>1, <2>2
        DEF InitCustom, program, hardware, TypeOK, WhereInv, IrqInv, LockInv, OffInv, InSequence, IsrLocations
<1>2. ASSUME NEW ms \in NewIntervals, SetInterval(ms) PROVE Inv'
    <2>1. AtLeastOne(ms) \in Nat \ {0}
        BY AtLeastOneFact, ArgumentsAssumption
    <2> QED
        BY <1>2, <2>1 DEF SetInterval, program, hardware, TypeOK, WhereInv, IrqInv, LockInv, OffInv, InSequence
<1>3. CASE Disable
    <2>1. pc["main"] = "run" /\ pc["isr"] = "out" /\ pc'["main"] = "mask_mode" /\ pc'["isr"] = "out"
          /\ pc' \in [Contexts -> Locations]
        BY <1>3, GoFact DEF Disable, Contexts, Locations
    <2> QED
        BY <1>3, <2>1 DEF Disable, program, hardware, TypeOK, WhereInv, IrqInv, LockInv, OffInv, InSequence, IsrLocations
<1>4. CASE StartExecution
    <2>1. pc["main"] = "run" /\ pc["isr"] = "out" /\ pc'["main"] = "limit" /\ pc'["isr"] = "out"
          /\ pc' \in [Contexts -> Locations]
        BY <1>4, GoFact DEF StartExecution, Contexts, Locations
    <2> QED
        BY <1>4, <2>1 DEF StartExecution, program, hardware, TypeOK, WhereInv, IrqInv, LockInv, OffInv, InSequence, IsrLocations
<1>5. ASSUME NEW c \in Contexts, Serve(c) PROVE Inv'
    <2>1. pc[c] = "run" /\ (c = "main" => pc["isr"] = "out")
        BY <1>5 DEF Serve, Free, Turn
    <2>2. /\ pc' \in [Contexts -> Locations]
          /\ pc'[c] \in {"run", "mask"}
          /\ \A d \in Contexts \ {c} : pc'[d] = pc[d]
        BY <1>5, <2>1 DEF Serve, TypeOK, Contexts, Locations
    <2>3. idle' \in Nat /\ refused' \in BOOLEAN
        BY <1>5 DEF Serve, Served, TypeOK
    <2>4. UNCHANGED <<driver, masked, saved, reload, disable, wanted, hung, slack, hardware, reset>>
        BY <1>5 DEF Serve
    <2>5. TypeOK'
        BY <2>2, <2>3, <2>4 DEF driver, hardware, TypeOK
    <2> QED
        BY <2>1, <2>2, <2>4, <2>5
        DEF Contexts, driver, hardware, TypeOK, WhereInv, IrqInv, LockInv, OffInv, InSequence, IsrLocations
<1>6. ASSUME NEW c \in Contexts, Mask(c) PROVE Inv'
    <2>1. PICK from, to : <<from, to>> \in {<<"mask", "unlock">>, <<"mask_mode", "unlock_mode">>} /\ Go(c, from, to)
        BY <1>6 DEF Mask
    <2>2. /\ pc' \in [Contexts -> Locations]
          /\ pc[c] = from /\ pc'[c] = to
          /\ c = "main" => pc["isr"] = "out" /\ pc'["isr"] = pc["isr"]
          /\ c = "isr" => pc'["main"] = pc["main"]
        BY <2>1, GoFact DEF Contexts, Locations
    <2>3. /\ saved' \in [Contexts -> BOOLEAN] /\ saved'[c] = masked
          /\ \A d \in Contexts \ {c} : saved'[d] = saved[d]
          /\ masked' = TRUE /\ slack' = 1
        BY <1>6 DEF Mask, MaskIrq, TypeOK, Contexts
    <2>4. UNCHANGED <<driver, reload, disable, program, hardware, reset>>
        BY <1>6 DEF Mask
    <2>5. TypeOK'
        BY <2>2, <2>3, <2>4 DEF driver, program, hardware, TypeOK
    <2> QED
        BY <2>1, <2>2, <2>3, <2>4, <2>5
        DEF Contexts, driver, program, hardware, TypeOK, WhereInv, IrqInv, LockInv, OffInv, InSequence, IsrLocations
<1>7. ASSUME NEW c \in Contexts, Unlock(c) PROVE Inv'
    <2>1. /\ pc' \in [Contexts -> Locations]
          /\ pc[c] = "unlock" /\ pc'[c] = "lock"
          /\ c = "main" => pc["isr"] = "out" /\ pc'["isr"] = pc["isr"]
          /\ c = "isr" => pc'["main"] = pc["main"]
        BY <1>7, GoFact DEF Unlock, Contexts, Locations
    <2>2. count' \in Nat /\ mode' = "timeout" /\ unlocked' = TRUE /\ UNCHANGED <<period, endinit, wdtdr, reset>>
        BY <1>7 DEF Unlock, Password, TypeOK
    <2>3. UNCHANGED <<driver, masked, saved, reload, disable, program, slack>>
        BY <1>7 DEF Unlock
    <2>4. TypeOK'
        BY <2>1, <2>2, <2>3 DEF driver, program, TypeOK
    <2> QED
        BY <2>1, <2>2, <2>3, <2>4
        DEF Contexts, driver, program, TypeOK, WhereInv, IrqInv, LockInv, OffInv, InSequence, IsrLocations
<1>8. ASSUME NEW c \in Contexts, Lock(c) PROVE Inv'
    <2>1. /\ pc' \in [Contexts -> Locations]
          /\ pc[c] = "lock" /\ pc'[c] = "restore"
          /\ c = "main" => pc["isr"] = "out" /\ pc'["isr"] = pc["isr"]
          /\ c = "isr" => pc'["main"] = pc["main"]
        BY <1>8, GoFact DEF Lock, Contexts, Locations
    <2>2. /\ count' = 0 /\ mode' = (IF wdtdr THEN "disabled" ELSE "normal")
          /\ unlocked' = FALSE /\ endinit' = TRUE /\ reset' = ~unlocked
          /\ UNCHANGED <<period, wdtdr>> /\ refused' = FALSE
        BY <1>8 DEF Lock, Modify
    <2>3. UNCHANGED <<driver, masked, saved, reload, disable, wanted, idle, hung, slack>>
        BY <1>8 DEF Lock
    <2>4. TypeOK'
        BY <2>1, <2>2, <2>3 DEF driver, TypeOK
    <2> QED
        BY <2>1, <2>2, <2>3, <2>4
        DEF Contexts, driver, TypeOK, WhereInv, IrqInv, LockInv, OffInv, InSequence, IsrLocations
<1>9. ASSUME NEW c \in Contexts, Restore(c) PROVE Inv'
    <2>1. PICK from, to : <<from, to>> \in {<<"restore", "stamp">>, <<"restore_mode", "run">>} /\ Go(c, from, to)
        BY <1>9 DEF Restore
    <2>2. /\ pc' \in [Contexts -> Locations]
          /\ pc[c] = from /\ pc'[c] = to
          /\ c = "main" => pc["isr"] = "out" /\ pc'["isr"] = pc["isr"]
          /\ c = "isr" => pc'["main"] = pc["main"]
        BY <2>1, GoFact DEF Contexts, Locations
    <2>3. masked' = saved[c] /\ slack' = 0
        BY <1>9 DEF Restore, RestoreIrq
    <2>4. UNCHANGED <<driver, saved, reload, disable, program, hardware, reset>>
        BY <1>9 DEF Restore
    <2>5. TypeOK'
        BY <2>2, <2>3, <2>4 DEF driver, program, hardware, TypeOK
    <2> QED
        BY <2>1, <2>2, <2>3, <2>4, <2>5
        DEF Contexts, driver, program, hardware, TypeOK, WhereInv, IrqInv, LockInv, OffInv, InSequence, IsrLocations
<1>10. ASSUME NEW c \in Contexts, Stamp(c) PROVE Inv'
    <2>1. /\ pc' \in [Contexts -> Locations]
          /\ pc[c] = "stamp" /\ pc'[c] = "run"
          /\ c = "main" => pc["isr"] = "out" /\ pc'["isr"] = pc["isr"]
          /\ c = "isr" => pc'["main"] = pc["main"]
        BY <1>10, GoFact DEF Stamp, Contexts, Locations
    <2>2. sinceServe' = 0 /\ idle' \in Nat
        BY <1>10 DEF Stamp, Served, TypeOK
    <2>3. UNCHANGED <<wdt_interval, wdt_off, wdt_timeout, sinceStart, masked, saved, reload, disable,
                      wanted, hung, refused, slack, hardware, reset>>
        BY <1>10 DEF Stamp
    <2>4. TypeOK'
        BY <2>1, <2>2, <2>3 DEF hardware, TypeOK
    <2> QED
        BY <2>1, <2>2, <2>3, <2>4
        DEF Contexts, hardware, TypeOK, WhereInv, IrqInv, LockInv, OffInv, InSequence, IsrLocations
<1>11. CASE StampMode
    <2>1. pc["main"] = "stamp_mode" /\ pc["isr"] = "out" /\ pc'["main"] = "mask_mode" /\ pc'["isr"] = "out"
          /\ pc' \in [Contexts -> Locations]
        BY <1>11, GoFact DEF StampMode, Contexts, Locations
    <2>2. sinceServe' = 0 /\ reload' \in MinTicks .. MaxTicks /\ disable' = FALSE
        BY <1>11, WrappedFact DEF StampMode, TypeOK
    <2>3. UNCHANGED <<wdt_interval, wdt_off, wdt_timeout, sinceStart, masked, saved, program, slack,
                      hardware, reset>>
        BY <1>11 DEF StampMode
    <2> QED
        BY <2>1, <2>2, <2>3 DEF program, hardware, TypeOK, WhereInv, IrqInv, LockInv, OffInv, InSequence, IsrLocations
<1>12. CASE UnlockMode
    <2>1. PICK from, to : <<from, to>> \in {<<"unlock_mode", "lock_mode">>, <<"unlock_again", "lock_again">>}
                          /\ Go("main", from, to)
        BY <1>12 DEF UnlockMode
    <2>2. pc["main"] = from /\ pc["isr"] = "out" /\ pc'["main"] = to /\ pc'["isr"] = "out"
          /\ pc' \in [Contexts -> Locations]
        BY <2>1, GoFact DEF Contexts, Locations
    <2>3. count' \in Nat /\ mode' = "timeout" /\ unlocked' = TRUE /\ UNCHANGED <<period, endinit, wdtdr, reset>>
        BY <1>12 DEF UnlockMode, Password, TypeOK
    <2>4. UNCHANGED <<driver, masked, saved, reload, disable, program, slack>>
        BY <1>12 DEF UnlockMode
    <2> QED
        BY <2>1, <2>2, <2>3, <2>4 DEF driver, program, TypeOK, WhereInv, IrqInv, LockInv, OffInv, InSequence, IsrLocations
<1>13. CASE LockMode
    <2>1. UNCHANGED <<driver, masked, saved, reload, disable, wanted, idle, hung, slack>>
        BY <1>13 DEF LockMode
    <2>2. CASE Go("main", "lock_mode", "con1") /\ Modify(reload, FALSE) /\ UNCHANGED refused
        <3>1. pc["main"] = "lock_mode" /\ pc["isr"] = "out" /\ pc'["main"] = "con1" /\ pc'["isr"] = "out"
              /\ pc' \in [Contexts -> Locations]
            BY <2>2, GoFact DEF Contexts, Locations
        <3>2. /\ period' = reload /\ unlocked' = FALSE /\ endinit' = FALSE /\ reset' = ~unlocked
              /\ UNCHANGED <<mode, count, wdtdr, refused>>
            BY <2>2 DEF Modify
        <3>3. TypeOK'
            BY <2>1, <3>1, <3>2 DEF driver, TypeOK
        <3> QED
            BY <2>1, <3>1, <3>2, <3>3 DEF driver, TypeOK, WhereInv, IrqInv, LockInv, OffInv, InSequence, IsrLocations
    <2>3. CASE Go("main", "lock_again", "restore_mode") /\ Modify(reload, TRUE) /\ refused' = FALSE
        <3>1. pc["main"] = "lock_again" /\ pc["isr"] = "out" /\ pc'["main"] = "restore_mode" /\ pc'["isr"] = "out"
              /\ pc' \in [Contexts -> Locations]
            BY <2>3, GoFact DEF Contexts, Locations
        <3>2. /\ period' = reload /\ unlocked' = FALSE /\ endinit' = TRUE /\ reset' = ~unlocked /\ count' = 0
              /\ mode' = (IF wdtdr THEN "disabled" ELSE "normal") /\ wdtdr' = wdtdr /\ refused' = FALSE
            BY <2>3 DEF Modify
        <3>3. TypeOK'
            BY <2>1, <3>1, <3>2 DEF driver, TypeOK
        <3> QED
            BY <2>1, <3>1, <3>2, <3>3 DEF driver, TypeOK, WhereInv, IrqInv, LockInv, OffInv, InSequence, IsrLocations
    <2> QED BY <1>13, <2>2, <2>3 DEF LockMode
<1>14. CASE SetCon1
    <2>1. pc["main"] = "con1" /\ pc["isr"] = "out" /\ pc'["main"] = "unlock_again" /\ pc'["isr"] = "out"
          /\ pc' \in [Contexts -> Locations]
        BY <1>14, GoFact DEF SetCon1, Contexts, Locations
    <2> QED
        BY <1>14, <2>1 DEF SetCon1, WriteCon1, driver, program, TypeOK, WhereInv, IrqInv, LockInv, OffInv, InSequence, IsrLocations
<1>15. ASSUME NEW ms \in Limits, SetMaxExecutionTime(ms) PROVE Inv'
    <2>1. pc["main"] = "limit" /\ pc["isr"] = "out" /\ pc'["main"] = "run" /\ pc'["isr"] = "out"
          /\ pc' \in [Contexts -> Locations]
        BY <1>15, GoFact DEF SetMaxExecutionTime, Contexts, Locations
    <2>2. ms \in Nat
        BY ArgumentsAssumption
    <2> QED
        BY <1>15, <2>1, <2>2 DEF SetMaxExecutionTime, program, hardware, TypeOK, WhereInv, IrqInv, LockInv, OffInv, InSequence, IsrLocations
<1>16. CASE SwitchIrq
    BY <1>16 DEF SwitchIrq, Free, Turn, driver, hardware, TypeOK, WhereInv, IrqInv, LockInv, OffInv, InSequence, IsrLocations
<1>17. CASE Interrupt
    <2>1. pc["isr"] = "out" /\ pc'["isr"] = "run" /\ pc'["main"] = pc["main"] /\ pc' \in [Contexts -> Locations]
        BY <1>17 DEF Interrupt, TypeOK, Contexts, Locations
    <2> QED
        BY <1>17, <2>1 DEF Interrupt, driver, program, hardware, TypeOK, WhereInv, IrqInv, LockInv, OffInv, InSequence, IsrLocations
<1>18. CASE Return
    <2>1. pc["isr"] = "run" /\ pc'["isr"] = "out" /\ pc'["main"] = pc["main"] /\ pc' \in [Contexts -> Locations]
        BY <1>18 DEF Return, TypeOK, Contexts, Locations
    <2> QED
        BY <1>18, <2>1 DEF Return, driver, program, hardware, TypeOK, WhereInv, IrqInv, LockInv, OffInv, InSequence, IsrLocations
<1>19. CASE Hang
    BY <1>19 DEF Hang, driver, hardware, TypeOK, WhereInv, IrqInv, LockInv, OffInv, InSequence, IsrLocations
<1>20. CASE Tick
    <2>1. sinceServe' \in Nat /\ sinceStart' \in Nat /\ idle' \in Nat /\ count' \in Nat /\ slack' \in {0, 1}
        BY <1>20 DEF Tick, Older, TypeOK
    <2>2. reset' \in BOOLEAN
        BY <1>20 DEF Tick, Overflow
    <2>3. UNCHANGED <<wdt_interval, wdt_off, wdt_timeout, pc, masked, saved, reload, disable, wanted, hung,
                      refused, mode, period, unlocked, endinit, wdtdr>>
        BY <1>20 DEF Tick
    <2> QED
        BY <2>1, <2>2, <2>3 DEF TypeOK, WhereInv, IrqInv, LockInv, OffInv, InSequence, IsrLocations
<1> QED
    BY <1>u, <1>1, <1>2, <1>3, <1>4, <1>5, <1>6, <1>7, <1>8, <1>9, <1>10, <1>11, <1>12, <1>13, <1>14, <1>15,
       <1>16, <1>17, <1>18, <1>19, <1>20
    DEF Next, Calls, Steps

\* The invariant holds in every state of the driver.
THEOREM Invariance == Spec => []Inv
BY InitInv, NextInv, PTL DEF Spec

\* The driver's variables, the contexts and the registers keep their types, for every
\* clock, interval and limit; the period stays between WDT_MIN_TICKS and WDT_MAX_TICKS.
THEOREM TypeCorrect == Spec => []TypeOK
<1>1. Inv => TypeOK
    BY DEF Inv
<1> QED BY <1>1, Invariance, PTL

\* cpu_wdt_reload and cpu_wdt_set_mode give the I bit back as they found it, wherever the
\* interrupt handler comes in.
THEOREM IrqIsRestored == Spec => []IrqRestored
<1>1. Inv => IrqRestored
    BY DEF Inv, IrqInv, IrqRestored, InSequence
<1> QED BY <1>1, Invariance, PTL

\* No access sequence is left unfinished: outside of them the watchdog is locked and
\* WDTCON1 protected.
THEOREM SequencesAreComplete == Spec => []SequencesComplete
<1>1. Inv => SequencesComplete
    BY DEF Inv, WhereInv, LockInv, SequencesComplete, InSequence, Contexts, IsrLocations
<1> QED BY <1>1, Invariance, PTL

\* After wdt_disable no serve, of either context, brings the watchdog back.
THEOREM OffStaysOff == Spec => []StaysOff
<1>1. Inv => StaysOff
    BY DEF Inv, OffInv, StaysOff
<1> QED BY <1>1, Invariance, PTL
-----------------------------------------------------------------------------
\* The time of a live program.

\* The period that wdt_init_custom programs.
PeriodOf(ms) == Ticks((AtLeastOne(ms) * Factor) % Wrap)

\* The main program serves often enough for its intervals: a serve that finds the interval
\* not over yet leaves room for the time to the next one, and for as long as a serve may
\* have taken between its reload and its stamp.
GapIsEnough ==
    /\ Gap <= Horizon
    /\ \A ms \in Intervals : \A new \in NewIntervals \cup {ms} : \A age \in 0 .. Horizon :
           ElapsedMs(age) < AtLeastOne(new) => age < Horizon /\ age + 2 * Gap < PeriodOf(ms)

\* A period that wdt_init_custom programs for the interval the driver waits for, or for
\* one that wdt_set_interval has replaced.
Programmed(ticks) == \E ms \in Intervals : ticks = PeriodOf(ms)
Fits(ticks) ==
    \E ms \in Intervals :
        /\ ticks = PeriodOf(ms)
        /\ \E new \in NewIntervals \cup {ms} : wdt_interval = AtLeastOne(new)

ModeLocations == {"mask_mode", "unlock_mode", "lock_mode", "con1", "unlock_again", "lock_again"}

\* The period fits the interval, but for the time from wdt_init_custom's first assignment
\* to the modify access that programs the new one.
PeriodInv ==
    /\ Programmed(period)
    /\ pc["main"] \notin {"stamp_mode", "mask_mode", "unlock_mode", "lock_mode"} => Fits(period)
    /\ pc["main"] \in ModeLocations => Fits(reload)
    /\ pc["main"] = "stamp_mode" => \E ms \in Intervals : wdt_interval = AtLeastOne(ms)

\* A serve is on its way from the reload to the stamp.
Serving == \E c \in Contexts : pc[c] \in {"restore", "stamp"}

\* How far the count may be: in time-out mode, while a serve is on its way from the reload
\* to the stamp, behind the last stamp, and behind the main program's last serve.
TimeInv ==
    /\ sinceServe <= Horizon
    /\ ~hung => idle <= Gap
    /\ mode = "timeout" => count + slack <= 1
    /\ ~hung /\ Serving => count <= idle
    /\ mode = "normal" /\ ~hung /\ pc["main"] \notin ModeLocations =>
           sinceServe = Horizon \/ count <= sinceServe + Gap
    /\ mode = "normal" /\ ~hung /\ ~refused /\ ~reset => count + Gap < period + idle
    /\ NoSpuriousReset
\* A period that wdt_init_custom programs leaves room for two gaps.
LEMMA TwoGapsFit ==
    ASSUME GapIsEnough, NEW ticks, Programmed(ticks)
    PROVE  2 * Gap < ticks
<1>1. PICK ms \in Intervals : ticks = PeriodOf(ms)
    BY DEF Programmed
<1>2. AtLeastOne(ms) \in Nat \ {0} /\ 0 \in 0 .. Horizon
    BY AtLeastOneFact, ArgumentsAssumption
<1>3. ElapsedMs(0) = 0
    BY ClockAssumption DEF ElapsedMs
<1>4. ElapsedMs(0) < AtLeastOne(ms)
    BY <1>2, <1>3
<1>5. 0 + 2 * Gap < PeriodOf(ms)
    BY <1>2, <1>4 DEF GapIsEnough
<1> QED BY <1>1, <1>5, ArgumentsAssumption

\* A serve that is not due leaves room for two gaps more.
LEMMA NotDueFits ==
    ASSUME GapIsEnough, NEW ticks, Fits(ticks), NEW age \in 0 .. Horizon, ElapsedMs(age) < wdt_interval
    PROVE  age < Horizon /\ age + 2 * Gap < ticks
BY DEF GapIsEnough, Fits

\* The interval and the periods are as before, and so is the main program's place among
\* the locations of cpu_wdt_set_mode.
LEMMA PeriodFrame ==
    ASSUME PeriodInv, UNCHANGED <<wdt_interval, period, reload>>,
           pc'["main"] = pc["main"] \/
               (pc["main"] \notin ModeLocations \cup {"stamp_mode"} /\ pc'["main"] \notin ModeLocations \cup {"stamp_mode"})
    PROVE  PeriodInv'
BY DEF PeriodInv, Programmed, Fits, ModeLocations

\* The period and the interval fit after the first wdt_init.
LEMMA InitPeriod == Init => PeriodInv
<1> SUFFICES ASSUME Init PROVE PeriodInv
    OBVIOUS
<1>1. PICK ms \in Intervals : wdt_interval = AtLeastOne(ms) /\ reload = Ticks((wdt_interval * Factor) % Wrap)
    BY DEF Init
<1>2. period = PeriodOf(ms) /\ pc["main"] = "run"
    BY <1>1 DEF Init, PeriodOf, Contexts
<1> QED BY <1>1, <1>2 DEF PeriodInv, Programmed, Fits, ModeLocations

\* Every step keeps the period fit for the interval, or on its way to be.
LEMMA NextPeriod == Inv /\ PeriodInv /\ [Next]_vars => PeriodInv'
<1> SUFFICES ASSUME Inv, PeriodInv, [Next]_vars PROVE PeriodInv'
    OBVIOUS
<1>0. TypeOK
    BY DEF Inv
<1>u. CASE UNCHANGED vars
    BY <1>u, PeriodFrame DEF vars, driver, hardware
<1>1. ASSUME NEW ms \in Intervals, InitCustom(ms) PROVE PeriodInv'
    <2>1. pc'["main"] = "stamp_mode"
        BY <1>0, <1>1, GoFact DEF InitCustom, Contexts, Locations
    <2> QED BY <1>1, <2>1 DEF InitCustom, hardware, PeriodInv, Programmed, ModeLocations
<1>2. ASSUME NEW ms \in NewIntervals, SetInterval(ms) PROVE PeriodInv'
    BY <1>2 DEF SetInterval, Free, hardware, PeriodInv, Programmed, Fits, ModeLocations
<1>3. CASE Disable
    <2>1. pc["main"] = "run" /\ pc'["main"] = "mask_mode"
        BY <1>0, <1>3, GoFact DEF Disable, Contexts, Locations
    <2> QED BY <1>3, <2>1 DEF Disable, hardware, PeriodInv, Programmed, Fits, ModeLocations
<1>4. CASE StartExecution
    <2>1. pc["main"] = "run" /\ pc'["main"] = "limit"
        BY <1>0, <1>4, GoFact DEF StartExecution, Contexts, Locations
    <2> QED BY <1>4, <2>1, PeriodFrame DEF StartExecution, hardware, ModeLocations
<1>5. ASSUME NEW c \in Contexts, Serve(c) PROVE PeriodInv'
    <2>1. pc'["main"] = pc["main"] \/ (pc["main"] = "run" /\ pc'["main"] = "mask")
        BY <1>0, <1>5 DEF Serve, Free, TypeOK, Contexts
    <2> QED BY <1>5, <2>1, PeriodFrame DEF Serve, driver, hardware, ModeLocations
<1>6. ASSUME NEW c \in Contexts, Mask(c) PROVE PeriodInv'
    <2>1. \/ pc'["main"] = pc["main"]
          \/ pc["main"] = "mask" /\ pc'["main"] = "unlock"
          \/ pc["main"] = "mask_mode" /\ pc'["main"] = "unlock_mode"
        BY <1>0, <1>6, GoFact DEF Mask, Contexts, Locations
    <2> QED BY <1>6, <2>1 DEF Mask, driver, hardware, PeriodInv, Programmed, Fits, ModeLocations
<1>7. ASSUME NEW c \in Contexts, Unlock(c) PROVE PeriodInv'
    <2>1. pc'["main"] = pc["main"] \/ (pc["main"] = "unlock" /\ pc'["main"] = "lock")
        BY <1>0, <1>7, GoFact DEF Unlock, Contexts, Locations
    <2> QED BY <1>7, <2>1, PeriodFrame DEF Unlock, Password, driver, ModeLocations
<1>8. ASSUME NEW c \in Contexts, Lock(c) PROVE PeriodInv'
    <2>1. pc'["main"] = pc["main"] \/ (pc["main"] = "lock" /\ pc'["main"] = "restore")
        BY <1>0, <1>8, GoFact DEF Lock, Contexts, Locations
    <2> QED BY <1>8, <2>1, PeriodFrame DEF Lock, Modify, driver, ModeLocations
<1>9. ASSUME NEW c \in Contexts, Restore(c) PROVE PeriodInv'
    <2>1. \/ pc'["main"] = pc["main"]
          \/ pc["main"] = "restore" /\ pc'["main"] = "stamp"
          \/ pc["main"] = "restore_mode" /\ pc'["main"] = "run"
        BY <1>0, <1>9, GoFact DEF Restore, Contexts, Locations
    <2> QED BY <1>9, <2>1, PeriodFrame DEF Restore, driver, hardware, ModeLocations
<1>10. ASSUME NEW c \in Contexts, Stamp(c) PROVE PeriodInv'
    <2>1. pc'["main"] = pc["main"] \/ (pc["main"] = "stamp" /\ pc'["main"] = "run")
        BY <1>0, <1>10, GoFact DEF Stamp, Contexts, Locations
    <2> QED BY <1>10, <2>1, PeriodFrame DEF Stamp, hardware, ModeLocations
<1>11. CASE StampMode
    <2>1. pc["main"] = "stamp_mode" /\ pc'["main"] = "mask_mode"
        BY <1>0, <1>11, GoFact DEF StampMode, Contexts, Locations
    <2>2. PICK ms \in Intervals : wdt_interval = AtLeastOne(ms)
        BY <2>1 DEF PeriodInv
    <2>3. reload' = PeriodOf(ms) /\ UNCHANGED <<wdt_interval, period>>
        BY <1>11, <2>2 DEF StampMode, PeriodOf, hardware
    <2> QED BY <2>1, <2>2, <2>3 DEF PeriodInv, Programmed, Fits, ModeLocations
<1>12. CASE UnlockMode
    <2>1. \/ pc["main"] = "unlock_mode" /\ pc'["main"] = "lock_mode"
          \/ pc["main"] = "unlock_again" /\ pc'["main"] = "lock_again"
        BY <1>0, <1>12, GoFact DEF UnlockMode, Contexts, Locations
    <2> QED BY <1>12, <2>1 DEF UnlockMode, Password, driver, PeriodInv, Programmed, Fits, ModeLocations
<1>13. CASE LockMode
    <2>1. \/ pc["main"] = "lock_mode" /\ pc'["main"] = "con1"
          \/ pc["main"] = "lock_again" /\ pc'["main"] = "restore_mode"
        BY <1>0, <1>13, GoFact DEF LockMode, Contexts, Locations
    <2>2. period' = reload /\ UNCHANGED <<wdt_interval, reload>>
        BY <1>13 DEF LockMode, Modify, driver
    <2> QED BY <2>1, <2>2 DEF PeriodInv, Programmed, Fits, ModeLocations
<1>14. CASE SetCon1
    <2>1. pc["main"] = "con1" /\ pc'["main"] = "unlock_again"
        BY <1>0, <1>14, GoFact DEF SetCon1, Contexts, Locations
    <2> QED BY <1>14, <2>1 DEF SetCon1, WriteCon1, driver, PeriodInv, Programmed, Fits, ModeLocations
<1>15. ASSUME NEW ms \in Limits, SetMaxExecutionTime(ms) PROVE PeriodInv'
    <2>1. pc["main"] = "limit" /\ pc'["main"] = "run"
        BY <1>0, <1>15, GoFact DEF SetMaxExecutionTime, Contexts, Locations
    <2> QED BY <1>15, <2>1, PeriodFrame DEF SetMaxExecutionTime, hardware, ModeLocations
<1>16. CASE SwitchIrq
    BY <1>16, PeriodFrame DEF SwitchIrq, driver, hardware
<1>17. CASE Interrupt \/ Return
    <2>1. pc'["main"] = pc["main"]
        BY <1>0, <1>17 DEF Interrupt, Return, TypeOK, Contexts
    <2> QED BY <1>17, <2>1, PeriodFrame DEF Interrupt, Return, driver, hardware
<1>18. CASE Hang
    BY <1>18, PeriodFrame DEF Hang, driver, hardware
<1>19. CASE Tick
    BY <1>19, PeriodFrame DEF Tick
<1> QED
    BY <1>u, <1>1, <1>2, <1>3, <1>4, <1>5, <1>6, <1>7, <1>8, <1>9, <1>10, <1>11, <1>12, <1>13, <1>14, <1>15,
       <1>16, <1>17, <1>18, <1>19
    DEF Next, Calls, Steps
\* Nothing that the times depend on changes, and no serve or mode change is finished.
LEMMA TimeFrame ==
    ASSUME TypeOK, TimeInv, UNCHANGED <<sinceServe, idle, hung, mode, count, refused, period, reset>>,
           mode = "timeout" => slack' = slack,
           pc["main"] \in ModeLocations => pc'["main"] \in ModeLocations,
           Serving' => Serving
    PROVE  TimeInv'
BY DEF TimeInv, Serving, NoSpuriousReset

\* The times right after the first wdt_init.
LEMMA InitTime == GapIsEnough /\ Init => TimeInv
<1> SUFFICES ASSUME GapIsEnough, Init PROVE TimeInv
    OBVIOUS
<1>1. pc["main"] = "run" /\ pc["isr"] = "out" /\ ~Serving
    BY DEF Init, Contexts, Serving
<1>2. 2 * Gap < period
    BY InitPeriod, TwoGapsFit DEF PeriodInv
<1>3. /\ sinceServe = 0 /\ idle = 0 /\ mode = "normal" /\ count = 0 /\ reset = FALSE
    BY DEF Init
<1>4. period \in Nat
    BY InitInv, TicksAssumption DEF Inv, TypeOK
<1> QED BY <1>1, <1>2, <1>3, <1>4, ArgumentsAssumption DEF TimeInv, Serving, NoSpuriousReset

\* Every step keeps the count within its bounds.
LEMMA NextTime == GapIsEnough /\ Inv /\ PeriodInv /\ TimeInv /\ [Next]_vars => TimeInv'
<1> SUFFICES ASSUME GapIsEnough, Inv, PeriodInv, TimeInv, [Next]_vars PROVE TimeInv'
    OBVIOUS
<1>0. TypeOK /\ TypeOK' /\ WhereInv /\ LockInv /\ OffInv
    BY NextInv DEF Inv
<1>a. Gap \in Nat /\ Horizon \in Nat /\ Gap <= Horizon /\ period \in Nat /\ AccessTicks \in Nat /\ AccessTicks >= 2
    BY <1>0, ArgumentsAssumption, TicksAssumption DEF GapIsEnough, TypeOK
<1>b. 2 * Gap < period /\ (pc["main"] \in ModeLocations => 2 * Gap < reload)
    BY TwoGapsFit DEF PeriodInv, Fits, Programmed
<1>u. CASE UNCHANGED vars
    BY <1>0, <1>u, TimeFrame DEF vars, driver, program, hardware, Serving
<1>1. ASSUME NEW ms \in Intervals, InitCustom(ms) PROVE TimeInv'
    <2>1. pc["main"] = "run" /\ pc'["main"] = "stamp_mode" /\ pc'["isr"] = pc["isr"]
        BY <1>0, <1>1, GoFact DEF InitCustom, Contexts, Locations
    <2> QED BY <1>0, <1>1, <2>1, TimeFrame DEF InitCustom, program, hardware, ModeLocations, Serving, Contexts
<1>2. ASSUME NEW ms \in NewIntervals, SetInterval(ms) PROVE TimeInv'
    BY <1>0, <1>2, TimeFrame DEF SetInterval, program, hardware, Serving
<1>3. CASE Disable
    <2>1. pc["main"] = "run" /\ pc'["main"] = "mask_mode" /\ pc'["isr"] = pc["isr"]
        BY <1>0, <1>3, GoFact DEF Disable, Contexts, Locations
    <2> QED BY <1>0, <1>3, <2>1, TimeFrame DEF Disable, program, hardware, ModeLocations, Serving, Contexts
<1>4. CASE StartExecution
    <2>1. pc["main"] = "run" /\ pc'["main"] = "limit" /\ pc'["isr"] = pc["isr"]
        BY <1>0, <1>4, GoFact DEF StartExecution, Contexts, Locations
    <2> QED BY <1>0, <1>4, <2>1, TimeFrame DEF StartExecution, program, hardware, ModeLocations, Serving, Contexts
<1>5. ASSUME NEW c \in Contexts, Serve(c) PROVE TimeInv'
    <2>1. pc[c] = "run" /\ ~reset /\ UNCHANGED <<driver, hung, slack, hardware, reset>>
        BY <1>5 DEF Serve, Free, Turn
    <2>2. /\ pc'["main"] = pc["main"] \/ (pc["main"] = "run" /\ pc'["main"] = "mask")
          /\ Serving' => Serving
        BY <1>0, <1>5, <2>1 DEF Serve, TypeOK, Contexts, Serving
    <2>3. CASE idle' = idle
        BY <1>0, <1>5, <2>1, <2>2, <2>3
        DEF Serve, TimeInv, NoSpuriousReset, Serving, ModeLocations, driver, hardware, TypeOK
    <2>4. CASE c = "main" /\ ~Due
        <3>1. pc["main"] = "run" /\ pc["isr"] = "out" /\ pc' = pc /\ idle' = 0
            BY <1>5, <2>4 DEF Serve, Free, Turn, Served
        <3>2. ASSUME mode = "normal", ~hung, ~refused' PROVE count + Gap < period
            <4>1. ~wdt_off
                BY <1>0, <3>1, <3>2 DEF OffInv
            <4>2. ~(ElapsedMs(sinceServe) >= wdt_interval)
                BY <1>5, <2>4, <3>2, <4>1 DEF Serve, Due, IntervalOver
            <4>3. sinceServe \in 0 .. Horizon
                BY <1>0, <1>a DEF TimeInv, TypeOK
            <4>4. ElapsedMs(sinceServe) \in Nat
                BY <1>0, ScaleFact, ClockAssumption DEF ElapsedMs, TypeOK
            <4>5. ElapsedMs(sinceServe) < wdt_interval
                BY <1>0, <4>2, <4>4 DEF TypeOK
            <4>6. Fits(period)
                BY <3>1 DEF PeriodInv
            <4>7. sinceServe < Horizon /\ sinceServe + 2 * Gap < period
                BY <4>3, <4>5, <4>6, NotDueFits
            <4>8. count <= sinceServe + Gap
                BY <1>0, <1>a, <3>1, <3>2, <4>7 DEF TimeInv, ModeLocations, TypeOK
            <4> QED BY <1>0, <1>a, <4>7, <4>8 DEF TypeOK
        <3>3. ~Serving'
            BY <3>1 DEF Serving, Contexts
        <3>4. reset' => hung' \/ refused'
            BY <2>1
        <3> QED
            BY <1>0, <1>a, <2>1, <3>1, <3>2, <3>3, <3>4
            DEF TimeInv, NoSpuriousReset, Serving, ModeLocations, driver, hardware, TypeOK
    <2> QED BY <1>5, <2>3, <2>4 DEF Serve, Served, Contexts
<1>6. ASSUME NEW c \in Contexts, Mask(c) PROVE TimeInv'
    <2>1. /\ pc[c] \in {"mask", "mask_mode"}
          /\ c = "main" => pc["isr"] = "out" /\ pc'["isr"] = "out"
                           /\ (pc["main"] = "mask" => pc'["main"] = "unlock")
                           /\ (pc["main"] = "mask_mode" => pc'["main"] = "unlock_mode")
          /\ c = "isr" => pc'["main"] = pc["main"] /\ pc'["isr"] \in {"unlock", "unlock_mode"}
        BY <1>0, <1>6, GoFact DEF Mask, Contexts, Locations
    <2>2. mode # "timeout"
        BY <1>0, <2>1 DEF LockInv, WhereInv, InSequence, Contexts
    <2>3. UNCHANGED <<sinceServe, idle, hung, mode, count, refused, period, reset>>
        BY <1>6 DEF Mask, driver, program, hardware
    <2> QED BY <1>0, <2>1, <2>2, <2>3, TimeFrame DEF ModeLocations, Serving, Contexts
<1>7. ASSUME NEW c \in Contexts, Unlock(c) PROVE TimeInv'
    <2>1. /\ pc[c] = "unlock" /\ pc'[c] = "lock"
          /\ c = "main" => pc'["isr"] = pc["isr"]
          /\ c = "isr" => pc'["main"] = pc["main"]
        BY <1>0, <1>7, GoFact DEF Unlock, Contexts, Locations
    <2>2. mode' = "timeout" /\ (mode = "timeout" => count' = count) /\ (mode # "timeout" => count' = 0)
          /\ UNCHANGED <<sinceServe, idle, hung, refused, period, reset, slack>>
        BY <1>7 DEF Unlock, Password, driver, program
    <2>3. mode # "timeout"
        BY <1>0, <2>1 DEF LockInv, WhereInv, InSequence, Contexts, TypeOK
    <2> QED
        BY <1>0, <2>2, <2>3 DEF TimeInv, NoSpuriousReset, TypeOK
<1>8. ASSUME NEW c \in Contexts, Lock(c) PROVE TimeInv'
    <2>1. count' = 0 /\ mode' # "timeout" /\ unlocked' = FALSE /\ reset' = ~unlocked
          /\ UNCHANGED <<sinceServe, idle, hung, period, slack>>
        BY <1>8 DEF Lock, Modify, driver
    <2>2. unlocked
        BY <1>0, <1>8 DEF Lock, Go, LockInv, Contexts
    <2> QED
        BY <1>0, <1>a, <1>b, <2>1, <2>2 DEF TimeInv, NoSpuriousReset, TypeOK
<1>9. ASSUME NEW c \in Contexts, Restore(c) PROVE TimeInv'
    <2>1. /\ pc[c] \in {"restore", "restore_mode"}
          /\ c = "main" => pc["isr"] = "out" /\ pc'["isr"] = "out"
                           /\ (pc["main"] = "restore" => pc'["main"] = "stamp")
                           /\ (pc["main"] = "restore_mode" => pc'["main"] = "run")
          /\ c = "isr" => pc'["main"] = pc["main"] /\ (pc["isr"] = "restore" => pc'["isr"] = "stamp")
                          /\ (pc["isr"] = "restore_mode" => pc'["isr"] = "run")
        BY <1>0, <1>9, GoFact DEF Restore, Contexts, Locations
    <2>2. mode # "timeout"
        BY <1>0, <2>1 DEF LockInv, WhereInv, InSequence, Contexts
    <2>3. UNCHANGED <<sinceServe, idle, hung, mode, count, refused, period, reset>>
        BY <1>9 DEF Restore, driver, program, hardware
    <2> QED BY <1>0, <2>1, <2>2, <2>3, TimeFrame DEF ModeLocations, Serving, Contexts
<1>10. ASSUME NEW c \in Contexts, Stamp(c) PROVE TimeInv'
    <2>1. /\ pc[c] = "stamp" /\ pc'[c] = "run"
          /\ c = "main" => pc["isr"] = "out" /\ pc'["isr"] = pc["isr"] /\ idle' = 0
          /\ c = "isr" => pc'["main"] = pc["main"] /\ idle' = idle
        BY <1>0, <1>10, GoFact DEF Stamp, Contexts, Locations, Served
    <2>2. sinceServe' = 0 /\ UNCHANGED <<hung, mode, count, refused, period, reset, slack>>
        BY <1>10 DEF Stamp, hardware
    <2>3. ~hung => count <= idle /\ idle <= Gap
        BY <2>1 DEF TimeInv, Serving
    <2>4. Serving' => c = "isr" /\ Serving
        BY <2>1 DEF Serving, Contexts
    <2>5. mode = "normal" /\ ~hung /\ ~refused /\ ~reset => count + Gap < period + idle'
        <3>1. CASE c = "main"
            BY <1>0, <1>a, <1>b, <2>1, <2>3, <3>1 DEF TypeOK
        <3>2. CASE c = "isr"
            BY <2>1, <3>2 DEF TimeInv
        <3> QED BY <3>1, <3>2 DEF Contexts
    <2>6. ~hung => idle' <= Gap
        BY <1>a, <2>1, <2>3 DEF Contexts
    <2>7. ~hung /\ Serving' => count <= idle'
        BY <2>1, <2>3, <2>4
    <2>8. sinceServe' <= Horizon /\ (~hung => count <= sinceServe' + Gap)
        BY <1>0, <1>a, <2>2, <2>3 DEF TypeOK
    <2>9. NoSpuriousReset' /\ (mode' = "timeout" => count' + slack' <= 1)
        BY <2>2 DEF TimeInv, NoSpuriousReset
    <2> QED
        BY <2>2, <2>5, <2>6, <2>7, <2>8, <2>9 DEF TimeInv
<1>11. CASE StampMode
    <2>1. pc["main"] = "stamp_mode" /\ pc'["main"] = "mask_mode" /\ pc'["isr"] = pc["isr"]
        BY <1>0, <1>11, GoFact DEF StampMode, Contexts, Locations
    <2>2. sinceServe' = 0 /\ UNCHANGED <<idle, hung, mode, count, refused, period, reset, slack>>
        BY <1>11 DEF StampMode, program, hardware
    <2> QED
        BY <1>0, <1>a, <2>1, <2>2 DEF TimeInv, NoSpuriousReset, ModeLocations, TypeOK, Contexts, Serving
<1>12. CASE UnlockMode
    <2>1. pc'["main"] \in {"lock_mode", "lock_again"} /\ pc'["isr"] = pc["isr"] /\ pc["isr"] = "out"
        BY <1>0, <1>12, GoFact DEF UnlockMode, Contexts, Locations
    <2>2. mode' = "timeout" /\ (mode = "timeout" => count' = count) /\ (mode # "timeout" => count' = 0)
          /\ UNCHANGED <<sinceServe, idle, hung, refused, period, reset, slack>>
        BY <1>12 DEF UnlockMode, Password, driver, program
    <2>3. ~Serving'
        BY <2>1 DEF Serving, Contexts
    <2>4. count' + slack' <= 1
        <3>1. CASE mode = "timeout"
            BY <2>2, <3>1 DEF TimeInv
        <3>2. CASE mode # "timeout"
            BY <1>0, <2>2, <3>2 DEF TypeOK
        <3> QED BY <3>1, <3>2
    <2>5. NoSpuriousReset' /\ sinceServe' <= Horizon /\ (~hung' => idle' <= Gap)
        BY <2>2 DEF TimeInv, NoSpuriousReset
    <2> QED
        BY <2>2, <2>3, <2>4, <2>5 DEF TimeInv
<1>13. CASE LockMode
    <2>1. UNCHANGED <<sinceServe, idle, hung, slack>> /\ reset' = ~unlocked /\ period' = reload
        BY <1>13 DEF LockMode, Modify, driver
    <2>2. CASE Go("main", "lock_mode", "con1") /\ Modify(reload, FALSE) /\ UNCHANGED refused
        <3>1. pc["main"] = "lock_mode" /\ pc["isr"] = "out" /\ pc'["main"] = "con1" /\ pc'["isr"] = "out"
            BY <1>0, <2>2, GoFact DEF Contexts, Locations
        <3>2. mode = "timeout" /\ unlocked /\ UNCHANGED <<mode, count>>
            BY <1>0, <2>2, <3>1 DEF LockInv, Modify
        <3> QED
            BY <1>0, <2>1, <3>1, <3>2 DEF TimeInv, NoSpuriousReset, Contexts, TypeOK, Serving
    <2>3. CASE Go("main", "lock_again", "restore_mode") /\ Modify(reload, TRUE) /\ refused' = FALSE
        <3>1. pc["main"] = "lock_again" /\ pc["isr"] = "out" /\ pc'["main"] = "restore_mode" /\ pc'["isr"] = "out"
            BY <1>0, <2>3, GoFact DEF Contexts, Locations
        <3>2. unlocked /\ count' = 0 /\ mode' # "timeout"
            BY <1>0, <2>3, <3>1 DEF LockInv, Modify
        <3> QED
            BY <1>0, <1>a, <1>b, <2>1, <3>1, <3>2 DEF TimeInv, NoSpuriousReset, ModeLocations, Contexts, TypeOK
    <2> QED BY <1>13, <2>2, <2>3 DEF LockMode
<1>14. CASE SetCon1
    <2>1. pc["main"] = "con1" /\ pc'["main"] = "unlock_again" /\ pc'["isr"] = pc["isr"]
        BY <1>0, <1>14, GoFact DEF SetCon1, Contexts, Locations
    <2>2. ~endinit /\ ~reset
        BY <1>0, <1>14, <2>1 DEF LockInv, SetCon1, Go, Turn
    <2>3. UNCHANGED <<sinceServe, idle, hung, mode, count, refused, period, reset, slack>>
        BY <1>0, <1>14, <2>2 DEF SetCon1, WriteCon1, driver, program, TypeOK
    <2> QED BY <1>0, <2>1, <2>3, TimeFrame DEF ModeLocations, Serving, Contexts
<1>15. ASSUME NEW ms \in Limits, SetMaxExecutionTime(ms) PROVE TimeInv'
    <2>1. pc["main"] = "limit" /\ pc'["main"] = "run" /\ pc'["isr"] = pc["isr"]
        BY <1>0, <1>15, GoFact DEF SetMaxExecutionTime, Contexts, Locations
    <2> QED BY <1>0, <1>15, <2>1, TimeFrame DEF SetMaxExecutionTime, program, hardware, ModeLocations, Serving, Contexts
<1>16. CASE SwitchIrq
    BY <1>0, <1>16, TimeFrame DEF SwitchIrq, driver, hardware, Serving
<1>17. CASE Interrupt \/ Return
    <2>1. pc'["main"] = pc["main"] /\ pc'["isr"] \in {"run", "out"}
        BY <1>0, <1>17 DEF Interrupt, Return, TypeOK, Contexts
    <2> QED BY <1>0, <1>17, <2>1, TimeFrame DEF Interrupt, Return, driver, program, hardware, Serving, Contexts
<1>18. CASE Hang
    BY <1>0, <1>18 DEF Hang, Free, Turn, driver, hardware, TimeInv, NoSpuriousReset
<1>19. CASE Tick
    <2>1. /\ ~reset /\ (hung \/ idle < Gap)
          /\ sinceServe' = Older(sinceServe) /\ idle' = Older(idle)
          /\ count' = IF mode = "disabled" THEN count ELSE count + 1
          /\ reset' = Overflow
          /\ UNCHANGED <<pc, hung, refused, mode, period>>
        BY <1>19 DEF Tick
    <2>2. ASSUME mode = "timeout" PROVE count = 0 /\ slack = 1 /\ slack' = 0
        <3>1. \E c \in Contexts : InSequence(c) /\ Turn(c)
            BY <1>0, <2>1, <2>2 DEF LockInv, WhereInv, InSequence, Turn, Contexts
        <3>2. slack > 0 /\ slack' = slack - 1
            BY <1>19, <3>1 DEF Tick
        <3> QED BY <1>0, <2>2, <3>2 DEF TimeInv, TypeOK
    <2>3. sinceServe' <= Horizon /\ (sinceServe' = Horizon \/ sinceServe' = sinceServe + 1)
        BY <1>0, <1>a, <2>1 DEF Older, TimeInv, TypeOK
    <2>4. ~hung => idle' = idle + 1 /\ idle' <= Gap
        BY <1>0, <1>a, <2>1 DEF Older, TypeOK
    <2>5. ASSUME mode = "normal", ~hung, ~refused
          PROVE  count + 1 < period /\ count' + Gap < period' + idle'
        BY <1>0, <1>a, <2>1, <2>4, <2>5 DEF TimeInv, TypeOK
    <2>6. ASSUME ~hung, ~refused, Overflow PROVE FALSE
        <3>1. CASE mode = "timeout" /\ count + 1 >= AccessTicks
            BY <1>a, <2>2, <3>1
        <3>2. CASE mode = "normal" /\ count + 1 >= period
            BY <1>0, <1>a, <2>5, <2>6, <3>2 DEF TypeOK
        <3> QED BY <2>6, <3>1, <3>2 DEF Overflow
    <2>7. NoSpuriousReset'
        BY <2>1, <2>6 DEF NoSpuriousReset
    <2>8. ~hung /\ Serving => count' <= idle'
        BY <1>0, <1>a, <2>1, <2>4 DEF TimeInv, TypeOK, Serving
    <2>9. mode = "normal" /\ ~hung /\ pc["main"] \notin ModeLocations =>
              sinceServe' = Horizon \/ count' <= sinceServe' + Gap
        BY <1>0, <1>a, <2>1, <2>3 DEF TimeInv, TypeOK, Older
    <2>10. Serving' = Serving
        BY <2>1 DEF Serving
    <2>11. mode = "timeout" => count' + slack' <= 1
        BY <2>1, <2>2
    <2> QED
        BY <2>1, <2>3, <2>4, <2>5, <2>7, <2>8, <2>9, <2>10, <2>11 DEF TimeInv
<1> QED
    BY <1>u, <1>1, <1>2, <1>3, <1>4, <1>5, <1>6, <1>7, <1>8, <1>9, <1>10, <1>11, <1>12, <1>13, <1>14, <1>15,
       <1>16, <1>17, <1>18, <1>19
    DEF Next, Calls, Steps

\* No live phone is reset: whatever the handler serves in between, whatever the order of
\* reload and stamp, and with a tick in every access sequence, a program that serves often
\* enough and is within its execution limit keeps running.
THEOREM NoLiveReset ==
    ASSUME GapIsEnough
    PROVE  Spec => []NoSpuriousReset
<1>1. Init => Inv /\ PeriodInv /\ TimeInv
    BY InitInv, InitPeriod, InitTime
<1>2. Inv /\ PeriodInv /\ TimeInv /\ [Next]_vars => Inv' /\ PeriodInv' /\ TimeInv'
    BY NextInv, NextPeriod, NextTime
<1>3. TimeInv => NoSpuriousReset
    BY DEF TimeInv
<1> QED BY <1>1, <1>2, <1>3, PTL DEF Spec
=============================================================================

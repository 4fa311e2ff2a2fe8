----------------------------- MODULE SimReader ------------------------------
(***************************************************************************)
(* The SIM reader: a program on the phone (apps/sim-reader/main.c) that    *)
(* gives a host (sim-reader.py, or any program that speaks CCID over a     *)
(* serial line) access to the card in the phone.                           *)
(*                                                                         *)
(* A frame is SYNC, ACK, a header, a payload of the size the header gives, *)
(* and an LRC; its bytes are pairs of the request's number and the place   *)
(* in the frame.  A byte that is out of its place, or damaged, may be      *)
(* anything; the LRC is taken to tell.  The way to the host is reliable.   *)
(* Between reader and card one byte is under way at a time.  The card      *)
(* (external) answers a T=0 header with procedure bytes as it likes, stops *)
(* or is slower than the reader waits.                                     *)
(***************************************************************************)
EXTENDS Integers, Sequences

CONSTANTS
    HeaderSize,     \* bytes of a CCID header: CCID_HEADER_SIZE = 10
    TpduHeader,     \* bytes of a T=0 header: SIM_HEADER_SIZE = 5
    MaxData,        \* bytes of T=0 data: SIM_MAX_DATA_SIZE = 256
    MaxPayload,     \* bytes of a CCID payload: CCID_MAX_DATA_SIZE = 261
    MaxAtr,         \* bytes of an ATR: SIM_MAX_ATR_SIZE = 64
    PpsSizes,       \* bytes of the PPS requests
    Fidis,          \* the FI/DI bytes the host asks for
    FifoSize,       \* bytes of the receive FIFO: 8
    MaxRequests,    \* bound: requests the host makes
    MaxStray,       \* bound: bytes a late card sends beside an exchange, for one request
    MaxTroubles     \* bound: bytes damaged or lost on the way to the reader, and waits for
                    \* the card that end too early

ASSUME SizesAssumption ==
    /\ {HeaderSize, TpduHeader, MaxData, MaxAtr, FifoSize} \subseteq Nat \ {0}
    /\ MaxPayload \in Nat /\ TpduHeader + MaxData <= MaxPayload
    /\ PpsSizes \subseteq 1 .. MaxPayload /\ MaxAtr <= MaxData + 2
    /\ {MaxRequests, MaxStray, MaxTroubles} \subseteq Nat
    /\ Fidis \subseteq 0 .. 255

VARIABLES
    host,           \* "ready", "echo", "reply" (what it reads next), "exit"
    asked, count,   \* the host's last request and its number
    returned,       \* the frame whose data command() has returned last
    wire, fifo,     \* bytes on their way to the reader
    up,             \* frames on their way to the host
    told,           \* the last frame the reader has sent
    pc,             \* the function the reader is in
    got, need,      \* bytes of the frame read so far, bytes still to read
    msg, served,    \* the request being served, and its number
    icc_active, t0_fidi, brf,
    left,           \* bytes to receive from the card, before the next procedure byte
    transferred,
    response,       \* response, or atr
    out,            \* bytes to send to the card
    ok, rxb, txb,   \* SIM_RIS_OK, SIM_RXB, the byte in the transmitter
    card, todo,     \* the card: what it does next, with how many bytes
    said, took,     \* the card's answer to this TPDU, the data it has received
    stray,          \* bytes of a late card that belong to no exchange, this request
    late,           \* the card has been slower than a wait since POWER_ON
    faults, lates,  \* bytes damaged or lost, waits that were too short
    overtaken       \* a new host has started while a request was being served

hostVars == <<host, asked, count, returned>>
line == <<wire, fifo>>
frame == <<got, need>>
slot == <<icc_active, t0_fidi, brf>>
exchange == <<left, transferred, response, out>>
sim == <<ok, rxb, txb>>
cardVars == <<card, todo, said, took, stray>>
bounds == <<late, lates>>
vars == <<hostVars, line, up, told, pc, frame, msg, served, slot, exchange, sim, cardVars,
          bounds, faults, overtaken>>

-----------------------------------------------------------------------------
\* Requests and frames.

\* A TPDU sends n bytes or asks for n bytes; a PPS request has n bytes; GET stands for
\* GET_SLOT_STATUS, GET_PARAMETERS and the escape for the firmware's name.
Request(type, n, sends, fidi) == [type |-> type, n |-> n, sends |-> sends, fidi |-> fidi]
NotT0 == 256        \* parameters of another protocol, or of another size
Requests ==
    {Request(t, 0, FALSE, 0) :
        t \in {"POWER_ON", "POWER_OFF", "GET", "RESET_PARAMETERS", "ESCAPE_POWER_OFF", "UNKNOWN",
               "SHORT"}}
      \cup {Request("TPDU", MaxData, s, 0) : s \in BOOLEAN}
      \cup {Request("PPS", n, TRUE, 0) : n \in PpsSizes}
      \cup {Request("SET_PARAMETERS", 0, FALSE, f) : f \in Fidis \cup {NotT0}}
Nothing == Request("none", 0, FALSE, 0)

\* Bytes of the payload; SHORT is an XFR_BLOCK with less than a T=0 header.
Payload(r) ==
    CASE r.type = "TPDU" -> TpduHeader + (IF r.sends THEN r.n ELSE 0)
      [] r.type = "PPS" -> r.n
      [] r.type \in {"SET_PARAMETERS", "ESCAPE_POWER_OFF", "SHORT"} -> 1
      [] OTHER -> 0
FrameSize(r) == 2 + HeaderSize + Payload(r) + 1
Junk == <<0, 0>>

\* sim_fidi_to_brf
FI_CLOCKS_PER_ETU == <<372, 372, 558, 744, 1116, 1488, 1860, 0, 0, 512, 768, 1024, 1536, 2048, 0, 0>>
DI_DIVISORS == <<0, 1, 2, 4, 8, 16, 32, 64, 12, 20, 0, 0, 0, 0, 0, 0>>
SIM_DEFAULT_FIDI == 17
SIM_DEFAULT_BRF == 93
sim_fidi_to_brf(fidi) ==
    LET divisor == DI_DIVISORS[(fidi % 16) + 1]
    IN  IF divisor = 0 THEN 0 ELSE (FI_CLOCKS_PER_ETU[(fidi \div 16) + 1] \div divisor) \div 4

\* What the reader sends: the echo of a request, its reply, or a NAK.
Frame(kind, id, isActive, failed) ==
    [kind |-> kind, id |-> id, active |-> isActive, failed |-> failed]
NakFrame == Frame("nak", 0, FALSE, FALSE)
NoFrame == Frame("none", 0, FALSE, FALSE)

-----------------------------------------------------------------------------
\* The host, sim-reader.py: Reader.command and the end of the script by an exception.

Trouble == faults + lates < MaxTroubles
Serving == pc \notin {"scan", "ack", "frame", "off"}
Waiting == pc \in {"atr", "sent", "procedure", "receive", "sw2", "pps"}

Command(r) ==
    /\ host = "ready"
    /\ count < MaxRequests
    /\ asked' = r
    /\ count' = count + 1
    /\ wire' = wire \o [k \in 1 .. FrameSize(r) |-> <<count + 1, k>>]
    /\ host' = "echo"
    /\ returned' = NoFrame
    /\ UNCHANGED <<fifo, up, told, pc, frame, msg, served, slot, exchange, sim,
                   cardVars, bounds, faults, overtaken>>

\* read_frame: any frame but a NAK will do, its number is not looked at.
Bug_AnyFrame(f) == FALSE
Malformed(f) == f.kind = "nak"

ReadFrame ==
    /\ host \in {"echo", "reply"}
    /\ up # <<>>
    /\ up' = Tail(up)
    /\ LET f == Head(up)
       IN  CASE Malformed(f) \/ (host = "reply" /\ f.failed) -> host' = "exit" /\ UNCHANGED returned
             [] ~Malformed(f) /\ host = "echo" -> host' = "reply" /\ UNCHANGED returned
             [] OTHER -> host' = "ready" /\ returned' = f
    /\ UNCHANGED <<asked, count, line, told, pc, frame, msg, served, slot, exchange, sim,
                   cardVars, bounds, faults, overtaken>>

\* read_exact without data for TIMEOUT_S: nothing comes any more, or the card is slow.
HostTimeout ==
    /\ host \in {"echo", "reply"}
    /\ wire = <<>> /\ up = <<>>
    /\ \/ fifo = <<>> /\ ~Serving /\ UNCHANGED lates
       \/ Waiting /\ Trouble /\ lates' = lates + 1
       \/ pc = "off" /\ UNCHANGED lates
    /\ host' = "exit"
    /\ UNCHANGED <<asked, count, returned, line, up, told, pc, frame, msg, served, slot, exchange,
                   sim, cardVars, late, faults, overtaken>>

\* What the host has sent has arrived, and a reader that polls has taken it.
LineIdle == wire = <<>> /\ (fifo = <<>> \/ Serving \/ pc = "off")

\* The next run of the script, when the line has been idle for longer than a byte takes:
\* opening the port discards what has arrived.
HostStart ==
    /\ host = "exit"
    /\ LineIdle
    /\ host' = "ready"
    /\ up' = <<>>
    /\ overtaken' = (overtaken \/ Serving)
    /\ UNCHANGED <<asked, count, returned, line, told, pc, frame, msg, served, slot, exchange, sim,
                   cardVars, bounds, faults>>

-----------------------------------------------------------------------------
\* The line.  A reader that polls takes a byte as it arrives; while it serves a request
\* the FIFO fills and then loses.

Arrive ==
    /\ wire # <<>>
    /\ Serving \/ pc = "off"
    /\ wire' = Tail(wire)
    /\ fifo' = IF Len(fifo) < FifoSize THEN Append(fifo, Head(wire)) ELSE fifo
    /\ UNCHANGED <<hostVars, up, told, pc, frame, msg, served, slot, exchange, sim, cardVars,
                   bounds, faults, overtaken>>

\* The byte that arrives next is damaged or lost.
Fault ==
    /\ wire # <<>>
    /\ Trouble
    /\ faults' = faults + 1
    /\ wire' \in {Tail(wire), <<Junk>> \o Tail(wire)}
    /\ UNCHANGED <<hostVars, fifo, up, told, pc, frame, msg, served, slot, exchange, sim, cardVars,
                   bounds, overtaken>>

-----------------------------------------------------------------------------
\* host_read_message

\* The bytes read are those of the last request, from the start.
Intact(bytes) == bytes = [k \in 1 .. Len(bytes) |-> <<count, k>>]

Tell(f) == up' = Append(up, f) /\ told' = f

host_write_nak ==
    /\ Tell(NakFrame)
    /\ pc' = "scan" /\ got' = <<>> /\ need' = 0

\* Sizes a header can announce; more than a message holds is refused.
Announced(bytes) == IF Intact(bytes) THEN {Payload(asked)} ELSE 0 .. MaxPayload + 1

host_read_byte ==
    /\ ~Serving /\ pc # "off"
    /\ fifo \o wire # <<>>
    /\ fifo' = IF fifo # <<>> THEN Tail(fifo) ELSE fifo
    /\ wire' = IF fifo # <<>> THEN wire ELSE Tail(wire)
    /\ LET byte == Head(fifo \o wire)
           bytes == Append(got, byte)
       IN  \/ /\ pc = "scan" /\ byte[2] = 1
              /\ pc' = "ack" /\ got' = bytes
              /\ UNCHANGED <<need, up, told, msg, served>>
           \/ /\ pc = "scan" /\ byte[2] # 1            \* it may look like a SYNC
              /\ \/ pc' = "ack" /\ got' = bytes
                 \/ UNCHANGED <<pc, got>>
              /\ UNCHANGED <<need, up, told, msg, served>>
           \/ /\ pc = "ack"
              /\ pc' = "frame" /\ got' = bytes /\ need' = HeaderSize
              /\ UNCHANGED <<up, told, msg, served>>
           \/ /\ pc = "ack" /\ ~Intact(bytes)
              /\ host_write_nak
              /\ UNCHANGED <<msg, served>>
           \/ /\ pc = "frame" /\ Len(bytes) = 2 + HeaderSize
              /\ \E n \in Announced(bytes) :
                   \/ /\ n <= MaxPayload
                      /\ need' = n + 1 /\ got' = bytes
                      /\ UNCHANGED <<pc, up, told>>
                   \/ n > MaxPayload /\ host_write_nak
              /\ UNCHANGED <<msg, served>>
           \/ /\ pc = "frame" /\ Len(bytes) # 2 + HeaderSize /\ need > 1
              /\ need' = need - 1 /\ got' = bytes
              /\ UNCHANGED <<pc, up, told, msg, served>>
           \/ /\ pc = "frame" /\ Len(bytes) > 2 + HeaderSize /\ need = 1
              /\ IF Intact(bytes)
                 THEN /\ Tell(Frame("echo", count, FALSE, FALSE))      \* host_echo_message
                      /\ msg' = asked /\ served' = count
                      /\ pc' = "serve" /\ got' = <<>> /\ need' = 0
                 ELSE host_write_nak /\ UNCHANGED <<msg, served>>
    /\ UNCHANGED <<hostVars, slot, exchange, sim, cardVars, bounds, faults, overtaken>>

-----------------------------------------------------------------------------
\* host_handle_message: one action per handler.  The request ends with its reply.

elsewhere == <<hostVars, line, frame, served, faults, overtaken>>

host_reply(failed) ==
    /\ Tell(Frame("reply", served, icc_active', failed))
    /\ pc' = IF msg.type = "ESCAPE_POWER_OFF" THEN "off" ELSE "scan"
    /\ msg' = Nothing

Serve(types) == pc = "serve" /\ msg.type \in types

\* What changes nothing, and what is not supported.
host_handle_plain ==
    /\ Serve({"GET", "UNKNOWN"})
    /\ UNCHANGED slot
    /\ host_reply(msg.type = "UNKNOWN")
    /\ UNCHANGED <<elsewhere, exchange, sim, cardVars, bounds>>

t0_parameters_reset == t0_fidi' = SIM_DEFAULT_FIDI /\ brf' = SIM_DEFAULT_BRF

host_handle_reset_parameters ==
    /\ Serve({"RESET_PARAMETERS"})
    /\ t0_parameters_reset
    /\ UNCHANGED icc_active
    /\ host_reply(FALSE)
    /\ UNCHANGED <<elsewhere, exchange, sim, cardVars, bounds>>

\* Refused parameters leave both the stored ones and the bit rate alone.
host_handle_set_parameters ==
    /\ Serve({"SET_PARAMETERS"})
    /\ LET rate == IF msg.fidi = NotT0 THEN 0 ELSE sim_fidi_to_brf(msg.fidi)
       IN  /\ t0_fidi' = IF rate # 0 THEN msg.fidi ELSE t0_fidi
           /\ brf' = IF rate # 0 THEN rate ELSE brf
           /\ UNCHANGED icc_active
           /\ host_reply(rate = 0)
    /\ UNCHANGED <<elsewhere, exchange, sim, cardVars, bounds>>

\* SIM_CON = 0 takes the clock and the supply from the card, SIM_ICR clears the flags.
Bug_FlagsKept == UNCHANGED ok
ClearFlags == ok' = FALSE

sim_power_off ==
    /\ ClearFlags
    /\ txb' = <<>>
    /\ UNCHANGED rxb
    /\ said' = <<>> /\ took' = <<>> /\ stray' = 0

host_handle_power_off ==
    /\ Serve({"POWER_OFF"})
    /\ sim_power_off
    /\ card' = "off" /\ todo' = 0
    /\ icc_active' = FALSE
    /\ UNCHANGED <<t0_fidi, brf>>
    /\ host_reply(FALSE)
    /\ UNCHANGED <<elsewhere, exchange, bounds>>

\* The escape that switches the phone off: after its reply phone_power_off takes the
\* supply from the card and never returns.
host_handle_escape ==
    /\ Serve({"ESCAPE_POWER_OFF"})
    /\ sim_power_off
    /\ card' = "off" /\ todo' = 0
    /\ UNCHANGED slot
    /\ host_reply(FALSE)
    /\ UNCHANGED <<elsewhere, exchange, bounds>>

\* sim_power_on up to the reset of the card.  sim_supply_set fails when the I2C
\* transfer to the power supply does; a dead card, or none, stays mute.
host_handle_power_on ==
    /\ Serve({"POWER_ON"})
    /\ t0_parameters_reset
    /\ sim_power_off
    /\ response' = <<>> /\ out' = <<>> /\ left' = 0 /\ transferred' = 0
    /\ late' = FALSE
    /\ \/ /\ card' = "off" /\ todo' = 0                \* no supply
          /\ icc_active' = FALSE
          /\ host_reply(TRUE)
       \/ /\ card' \in {"atr", "mute"} /\ todo' = MaxAtr
          /\ pc' = "atr"
          /\ UNCHANGED <<icc_active, up, told, msg>>
    /\ UNCHANGED <<elsewhere, lates>>

sim_receive_byte == ok /\ ok' = FALSE /\ UNCHANGED <<rxb, txb>>

\* The bytes of the ATR until one does not come in time, or the buffer is full.
atr_byte ==
    /\ pc = "atr"
    /\ sim_receive_byte
    /\ response' = Append(response, rxb)
    /\ IF Len(response) + 1 < MaxAtr
       THEN UNCHANGED <<pc, up, told, msg, slot>>
       ELSE icc_active' = TRUE /\ UNCHANGED <<t0_fidi, brf>> /\ host_reply(FALSE)
    /\ UNCHANGED <<elsewhere, left, transferred, out, cardVars, bounds>>

\* Refused without a card, or with less than a header that is no PPS.
Bug_ActiveUnchecked(type) == type = "SHORT"
XfrRefused(type) == ~icc_active \/ type = "SHORT"

host_handle_xfr_block ==
    /\ Serve({"TPDU", "PPS", "SHORT"})
    /\ UNCHANGED slot
    /\ IF XfrRefused(msg.type)
       THEN host_reply(TRUE) /\ UNCHANGED <<exchange, cardVars>>
       ELSE /\ pc' = "send"
            /\ out' = [k \in 1 .. IF msg.type = "PPS" THEN msg.n ELSE TpduHeader |-> <<msg.type, k>>]
            /\ response' = <<>> /\ left' = 0 /\ transferred' = 0
            /\ said' = <<>> /\ took' = <<>> /\ stray' = 0
            /\ UNCHANGED <<up, told, msg, card, todo>>
    /\ UNCHANGED <<elsewhere, sim, bounds>>

-----------------------------------------------------------------------------
\* The exchange with the card.

\* sim_send_byte: the OK flag is cleared before the byte is sent ...
sim_send_byte ==
    /\ pc = "send"
    /\ out # <<>>
    /\ ok' = FALSE
    /\ txb' = Head(out) /\ out' = Tail(out)
    /\ pc' = "sent"
    /\ UNCHANGED <<elsewhere, up, told, msg, slot, left, transferred, response, rxb, cardVars, bounds>>

\* ... and after it has been.
send_ok ==
    /\ pc = "sent"
    /\ ok
    /\ ok' = FALSE
    /\ pc' = IF out # <<>> THEN "send" ELSE IF msg.type = "PPS" THEN "pps" ELSE "procedure"
    /\ UNCHANGED <<elsewhere, up, told, msg, slot, exchange, rxb, txb, cardVars, bounds>>

\* How many bytes a procedure byte moves.
Bug_WholeChunk(all) == IF all THEN msg.n ELSE 1
Chunk(all) == IF all THEN msg.n - transferred ELSE IF transferred < msg.n THEN 1 ELSE 0

\* sim_receive_procedure and the choice that follows in sim_exchange_tpdu.
sim_receive_procedure ==
    /\ pc = "procedure"
    /\ sim_receive_byte
    /\ CASE rxb[1] = "null" -> UNCHANGED <<pc, exchange>>
         [] rxb[1] \in {"ins", "~ins"} ->
              LET chunk == Chunk(rxb[1] = "ins")
              IN  CASE chunk = 0 -> UNCHANGED <<pc, exchange>>
                    [] chunk # 0 /\ msg.sends ->
                         /\ out' = [k \in 1 .. chunk |-> <<"data", transferred + k>>]
                         /\ transferred' = transferred + chunk
                         /\ pc' = "send"
                         /\ UNCHANGED <<left, response>>
                    [] OTHER -> left' = chunk /\ pc' = "receive" /\ UNCHANGED <<transferred, response, out>>
         [] OTHER -> /\ response' = Append(response, rxb)
                     /\ pc' = "sw2"
                     /\ UNCHANGED <<left, transferred, out>>
    /\ UNCHANGED <<elsewhere, up, told, msg, slot, cardVars, bounds>>

receive_data ==
    /\ pc = "receive"
    /\ sim_receive_byte
    /\ response' = Append(response, rxb)
    /\ transferred' = transferred + 1
    /\ left' = left - 1
    /\ pc' = IF left = 1 THEN "procedure" ELSE "receive"
    /\ UNCHANGED <<elsewhere, up, told, msg, slot, out, cardVars, bounds>>

\* The second status byte, or the last byte of the PPS answer, ends the exchange.
receive_end ==
    /\ pc \in {"sw2", "pps"}
    /\ sim_receive_byte
    /\ response' = Append(response, rxb)
    /\ UNCHANGED slot
    /\ IF pc = "pps" /\ Len(response) + 1 < msg.n
       THEN UNCHANGED <<pc, up, told, msg>>
       ELSE host_reply(FALSE)
    /\ UNCHANGED <<elsewhere, left, transferred, out, cardVars, bounds>>

\* The card has something to send, or a byte for it is in the transmitter.
CardBusy == card \in {"atr", "answer", "give", "give all", "sw2", "pps"} \/ txb # <<>>

\* sim_wait_ok returns FALSE: SIM_RIS_ERR, or the time is up, though the card may go on.
\* The ATR ends here; an exchange has failed.
sim_wait_fails ==
    /\ Waiting
    /\ ~ok
    /\ IF CardBusy THEN Trouble /\ lates' = lates + 1 /\ late' = TRUE ELSE UNCHANGED bounds
    /\ UNCHANGED <<t0_fidi, brf>>
    /\ icc_active' = IF pc = "atr" THEN response # <<>> ELSE icc_active
    /\ host_reply(pc # "atr" \/ response = <<>>)
    /\ UNCHANGED <<elsewhere, exchange, sim, cardVars>>

-----------------------------------------------------------------------------
\* The card and the transmitter.

others == <<hostVars, line, up, told, pc, frame, msg, served, slot, exchange, bounds, faults, overtaken>>

\* The byte has left the transmitter: the card has it.
TxDone ==
    /\ txb # <<>>
    /\ ok' = TRUE /\ txb' = <<>>
    /\ CASE card = "wait" /\ txb = <<"TPDU", TpduHeader>> ->
              /\ card' = "answer" /\ todo' = msg.n
              /\ UNCHANGED took
         [] card = "wait" /\ msg.type = "PPS" /\ txb = <<"PPS", msg.n>> ->
              /\ card' = "pps" /\ todo' = msg.n
              /\ UNCHANGED took
         [] card \in {"take", "take all"} ->
              /\ took' = Append(took, txb) /\ todo' = todo - 1
              /\ card' = IF card = "take" \/ todo = 1 THEN "answer" ELSE card
         [] OTHER -> UNCHANGED <<card, todo, took>>
    /\ UNCHANGED <<others, rxb, said, stray>>

\* A byte from the card.  A card in time waits until its turn has come.
CardByte(b) ==
    /\ late \/ (~ok /\ txb = <<>>)
    /\ rxb' = b /\ ok' = TRUE
    /\ UNCHANGED <<others, txb, took>>

\* The answer to reset of a card in time has MaxAtr bytes.  A shorter one ends as that of a
\* card that stops, with the time-out of sim_power_on.
CardData ==
    /\ card \in {"atr", "pps", "give", "give all"}
    /\ CardByte(<<card, Len(said) + 1>>)
    /\ said' = Append(said, rxb')
    /\ todo' = todo - 1
    /\ card' = CASE card \in {"atr", "pps"} /\ todo = 1 -> "wait"
                 [] card = "give" \/ (card = "give all" /\ todo = 1) -> "answer"
                 [] OTHER -> card
    /\ UNCHANGED stray

\* What a card out of step sends beside the data: as much as MaxStray allows.
Stray == late => stray < MaxStray
CountStray == stray' = IF late THEN stray + 1 ELSE stray

\* A card that is out of step sends more than it was asked for.
CardExcess ==
    /\ late /\ card = "give all"
    /\ Stray /\ CountStray
    /\ CardByte(<<"excess", 0>>)
    /\ UNCHANGED <<card, todo, said>>

\* A procedure byte that moves no data: NULL, or INS when all has been moved.  The reader
\* waits again, with a new time-out.
CardPutsOff ==
    /\ card = "answer"
    /\ Stray /\ CountStray
    /\ \E b \in {"null"} \cup (IF todo = 0 THEN {"ins", "~ins"} ELSE {}) : CardByte(<<b, 0>>)
    /\ UNCHANGED <<card, todo, said>>

CardProcedure ==
    /\ card = "answer"
    /\ \/ /\ todo > 0
          /\ \/ CardByte(<<"ins", 0>>) /\ card' = IF msg.sends THEN "take all" ELSE "give all"
             \/ CardByte(<<"~ins", 0>>) /\ card' = IF msg.sends THEN "take" ELSE "give"
          /\ UNCHANGED <<todo, said, stray>>
       \/ /\ CardByte(<<"sw1", 0>>)
          /\ said' = Append(said, rxb') /\ card' = "sw2"
          /\ UNCHANGED <<todo, stray>>

CardStatus ==
    /\ card = "sw2"
    /\ CardByte(<<"sw2", 0>>)
    /\ said' = Append(said, rxb') /\ card' = "wait"
    /\ UNCHANGED <<todo, stray>>

CardStops ==
    /\ card \notin {"off", "mute"}
    /\ card' = "mute"
    /\ UNCHANGED <<others, sim, todo, said, took, stray>>

-----------------------------------------------------------------------------

Init ==
    /\ host = "ready" /\ asked = Nothing /\ count = 0
    /\ returned = NoFrame
    /\ wire = <<>> /\ fifo = <<>> /\ up = <<>> /\ told = NoFrame
    /\ pc = "scan" /\ got = <<>> /\ need = 0
    /\ msg = Nothing /\ served = 0
    /\ icc_active = FALSE /\ t0_fidi = SIM_DEFAULT_FIDI /\ brf = SIM_DEFAULT_BRF
    /\ left = 0 /\ transferred = 0 /\ response = <<>> /\ out = <<>>
    /\ ok = FALSE /\ rxb = <<"none", 0>> /\ txb = <<>>
    /\ card = "off" /\ todo = 0 /\ said = <<>> /\ took = <<>> /\ stray = 0
    /\ late = FALSE /\ lates = 0 /\ faults = 0 /\ overtaken = FALSE

Reader ==
    \/ host_read_byte
    \/ host_handle_plain \/ host_handle_reset_parameters \/ host_handle_set_parameters
    \/ host_handle_power_off \/ host_handle_escape \/ host_handle_power_on \/ host_handle_xfr_block
    \/ atr_byte \/ sim_send_byte \/ send_ok \/ sim_receive_procedure \/ receive_data \/ receive_end
    \/ sim_wait_fails

Card == TxDone \/ CardData \/ CardExcess \/ CardPutsOff \/ CardProcedure \/ CardStatus

Next ==
    \/ (\E r \in Requests : Command(r)) \/ ReadFrame \/ HostTimeout \/ HostStart
    \/ Arrive \/ Fault \/ Reader \/ Card \/ CardStops

\* The reader has the CPU, the line delivers, and a wait for the card ends one way or the
\* other.  Nobody makes the host ask.  The strong fairness is an assumption on the card:
\* it does not put the reader off for ever, since nothing in sim_exchange_tpdu ends that.
Spec ==
    /\ Init /\ [][Next]_vars
    /\ WF_vars(Reader) /\ WF_vars(Card) /\ WF_vars(Arrive)
    /\ SF_vars(CardProcedure)

-----------------------------------------------------------------------------

\* The reader keeps the promise of a CCID slot: every request that arrives whole is
\* echoed and then answered once, under its number, with the state of the slot; no
\* request is served twice; a slot without a card exchanges nothing; a request that has
\* been echoed is answered in the end (host_handle_message and all it calls).
Slot == INSTANCE CcidSlot WITH
    Ids <- 1 .. MaxRequests,
    active <- icc_active,
    pending <- IF Serving THEN [request |-> msg, id |-> served] ELSE Nothing,
    last <- told,
    off <- pc = "off"
RefinesSlot == Slot!Spec

\* The one exchange that response[] is too short for: sim_exchange_pps is given the size
\* of the request, which host_read_message bounds by CCID_MAX_DATA_SIZE only.
ResponseSize == MaxData + 2
PpsTooLong == msg.type = "PPS" /\ msg.n > ResponseSize

\* What sim_exchange_tpdu and sim_exchange_pps write lies in response[] and the ATR in
\* atr[], whatever the card sends and when, but for a PPS request that is longer than
\* response[] itself; and no byte behind the end of the request's data is read for the
\* card.
ResponseFits ==
    [][/\ response' # response /\ ~PpsTooLong =>
             Len(response') <= (IF pc = "atr" THEN MaxAtr ELSE ResponseSize)
       /\ transferred' \in 0 .. MaxData /\ left' \in 0 .. MaxData]_vars

\* A card that has kept the times since POWER_ON: what the host is given as its answer is
\* what the card has said to this request, byte for byte and without procedure bytes, and
\* what the card has been sent is the data of this request, in order; all of it at the rate
\* of the parameters that the host reads back.
ExchangeExact ==
    [][told' # told /\ told'.kind = "reply" /\ ~told'.failed /\ ~late'
         /\ pc \in {"atr", "sw2", "pps"} =>
         /\ brf = sim_fidi_to_brf(t0_fidi)
         /\ response' = said
         /\ took = [k \in 1 .. Len(took) |-> <<"data", k>>]]_vars

\* What command() returns is the reader's answer to this very command, though the script
\* looks neither at the type nor at the number of a frame; but for a script that is
\* started while the reader still serves a request of an earlier one.
HostInStep ==
    returned # NoFrame /\ ~overtaken => returned.kind = "reply" /\ returned.id = count
=============================================================================

-------------------------------- MODULE CanBus --------------------------------
(***************************************************************************)
(* socketcan_vcan_demo: CAN frames as lines of text, the 16-bit values in  *)
(* them, and the monitor that turns a fault bit or silence into a runtime  *)
(* fault.  A line is two sequences of characters around the '#'; a         *)
(* character is the value of its hexadecimal digit, or Junk, which is no   *)
(* digit (nor a blank, a sign or the x of a prefix).                       *)
(*                                                                         *)
(* External: the bus, which loses, shortens and garbles lines, the         *)
(* actuators, which fill status frames in the layout the receiver decodes, *)
(* and whoever calls the monitor: it goes on after an exception.           *)
(***************************************************************************)
EXTENDS Integers, Sequences

CONSTANTS
  NodeIds,    \* node ids
  Positions,  \* values in thousandths, before they are cut to 16 bits
  Timeout,    \* timeout_ms, in ticks of the clock
  MaxTime,    \* bound on the clock
  MaxLines    \* bound on the lines on the bus

Digits == 0 .. 15
Junk == 16

ASSUME BusAssumption ==
  /\ NodeIds \subseteq Digits /\ Positions \subseteq Int
  /\ Timeout \in Nat /\ MaxTime \in Nat /\ MaxLines \in Nat

VARIABLES
  now,      \* now_ms
  bus,      \* lines that were sent and not read
  monitor,  \* CanRuntimeMonitor: state, last_rx_ms, error
  status,   \* the line a receiver has just read: what was sent, what it decoded
  life,     \* history: when the last line came that was a frame, -1 if none
  causes    \* history: the faults that were seen or found

canVars == <<now, bus, monitor, status, life, causes>>

-----------------------------------------------------------------------------
(* can_frame.hpp.                                                          *)

Error == [ok |-> FALSE]
Frame(id, data) == [ok |-> TRUE, id |-> id, data |-> data]

HexValue(text) ==
  LET value[n \in 0 .. Len(text)] == IF n = 0 THEN 0 ELSE 16 * value[n - 1] + text[n]
  IN value[Len(text)]

\* in >> std::hex >> value reads digits up to the first other character.
HexPrefix(text) ==
  SubSeq(text, 1, CHOOSE n \in 0 .. Len(text) :
                    /\ \A i \in 1 .. n : text[i] # Junk
                    /\ n < Len(text) => text[n + 1] = Junk)

ReadHex(text) == HexValue(HexPrefix(text))

Fails(text) == HexPrefix(text) = <<>>

\* substr(i, 2).
Pair(line, i) == SubSeq(line.payload, 2 * i - 1, 2 * i)

\* parseHexId, parseHexByte and parseCandumpLine.
ParseCandumpLine(line) ==
  LET n == Len(line.payload) \div 2
  IN IF \/ Fails(line.id) \/ ReadHex(line.id) > 2047
        \/ Len(line.payload) % 2 # 0 \/ Len(line.payload) > 16
        \/ \E i \in 1 .. n : Fails(Pair(line, i))
     THEN Error
     ELSE Frame(ReadHex(line.id), [i \in 1 .. n |-> ReadHex(Pair(line, i))])

\* setw(3) and setw(2).
HexId(id) == <<id \div 256, (id \div 16) % 16, id % 16>>
HexByte(byte) == <<byte \div 16, byte % 16>>

FormatCandumpLine(frame) ==
  [id |-> HexId(frame.id),
   payload |-> [k \in 1 .. 2 * Len(frame.data) |->
                  HexByte(frame.data[(k + 1) \div 2])[2 - (k % 2)]]]

\* The cast of any integer to std::int16_t.
Int16(v) == ((v + 32768) % 65536) - 32768

\* Mutant: the bytes are put together and not cast to a signed type.
ReadUnsigned(data, offset) == data[offset] + 256 * data[offset + 1]

ReadInt16Le(data, offset) == Int16(data[offset] + 256 * data[offset + 1])

WriteInt16Le(data, offset, v) ==
  [data EXCEPT ![offset] = v % 256, ![offset + 1] = (v % 65536) \div 256]

-----------------------------------------------------------------------------
(* Frames on the bus.  Offsets count from one here.                        *)

\* makeCommandFrame.
CommandFrame(node, position, velocity) ==
  LET zero == [i \in 1 .. 8 |-> 0]
      both == WriteInt16Le(WriteInt16Le(zero, 1, Int16(position)), 3, Int16(velocity))
  IN Frame(512 + node, [both EXCEPT ![5] = 1])

\* decodeStatus of a frame that parsed.
DecodeStatus(frame) ==
  IF frame.id \notin 384 .. 399 \/ Len(frame.data) # 8 THEN Error
  ELSE [ok |-> TRUE, node |-> frame.id - 384,
        position |-> ReadInt16Le(frame.data, 1), velocity |-> ReadInt16Le(frame.data, 3),
        fault |-> frame.data[5] % 2 = 1]

NoStatus == [sent |-> Error, got |-> Error]

CanInit ==
  /\ now = 0
  /\ bus = <<>>
  /\ monitor = [state |-> "STANDBY", last_rx |-> -1, error |-> "NONE"]
  /\ status = NoStatus
  /\ life = -1
  /\ causes = {}

\* Whoever calls the monitor and the receiver gives them status lines only:
\* neither observeStatus nor statusHasFault looks at the id, and byte 4 of a
\* command is 1 like that of a fault.
IsStatus(line) == HexValue(line.id) \in 384 .. 399

Tick ==
  /\ now < MaxTime
  /\ now' = now + 1
  /\ UNCHANGED <<bus, monitor, life, causes>> /\ status' = NoStatus

Put(line, sent) ==
  /\ Len(bus) < MaxLines
  /\ bus' = Append(bus, [line |-> line, sent |-> sent])
  /\ UNCHANGED <<now, monitor, life, causes>> /\ status' = NoStatus

\* periodic_command_sender: one line of its loop.
SendCommand ==
  \E n \in NodeIds, p \in Positions :
    Put(FormatCandumpLine(CommandFrame(n, p, -p)),
        [ok |-> TRUE, node |-> n, position |-> Int16(p), velocity |-> Int16(-p), fault |-> FALSE])

\* An actuator answers the command on the bus with the values it was given,
\* under its own id, with its fault bit and a code.
Actuator(fault) ==
  /\ bus # <<>>
  /\ LET command == ParseCandumpLine(Head(bus).line)
         data == [command.data EXCEPT ![5] = IF fault THEN 1 ELSE 0, ![6] = IF fault THEN 7 ELSE 0]
     IN /\ command.ok /\ command.id \in 512 .. 527
        /\ bus' = [bus EXCEPT ![1] = [line |-> FormatCandumpLine(Frame(command.id - 128, data)),
                                      sent |-> [Head(bus).sent EXCEPT !.fault = fault]]]
  /\ UNCHANGED <<now, monitor, life, causes>> /\ status' = NoStatus

\* The line is cut after two bytes, loses its last digit, or a digit is not
\* one any more.
Garbled(line) ==
  {[line EXCEPT !.payload = SubSeq(@, 1, 4)], [line EXCEPT !.payload = SubSeq(@, 1, Len(@) - 1)],
   [line EXCEPT !.payload[1] = Junk], [line EXCEPT !.payload[2] = Junk]}

Garble ==
  /\ bus # <<>> /\ Head(bus).sent.ok /\ IsStatus(Head(bus).line)
  /\ \E line \in Garbled(Head(bus).line) :
       bus' = [bus EXCEPT ![1] = [line |-> line, sent |-> [Head(bus).sent EXCEPT !.ok = FALSE]]]
  /\ UNCHANGED <<now, monitor, life, causes>> /\ status' = NoStatus

Lose ==
  /\ bus # <<>>
  /\ bus' = Tail(bus)
  /\ UNCHANGED <<now, monitor, life, causes>> /\ status' = NoStatus

-----------------------------------------------------------------------------
(* can_runtime_fault_bridge.cpp.                                           *)

TooShort(frame) == Len(frame.data) < 5

HasFault(frame) == frame.data[5] % 2 = 1

\* observeStatus: the time is noted before the frame is judged, and a frame
\* that is too short throws after that.
Observed(m, frame) ==
  LET heard == [m EXCEPT !.last_rx = now] IN
  IF ~TooShort(frame) /\ HasFault(frame)
  THEN [heard EXCEPT !.state = "FAULT", !.error = "CAN_ACTUATOR_FAULT"] ELSE heard

ObserveStatus ==
  /\ bus # <<>> /\ IsStatus(Head(bus).line)
  /\ LET entry == Head(bus)
         frame == ParseCandumpLine(entry.line)
     IN IF frame.ok
        THEN /\ monitor' = Observed(monitor, frame)
             /\ status' = [sent |-> entry.sent, got |-> DecodeStatus(frame)]
             /\ life' = now
             /\ causes' = IF ~TooShort(frame) /\ entry.sent.fault
                          THEN causes \cup {"CAN_ACTUATOR_FAULT"} ELSE causes
        ELSE /\ UNCHANGED <<monitor, life, causes>>
             /\ status' = [sent |-> entry.sent, got |-> Error]
  /\ bus' = Tail(bus)
  /\ UNCHANGED now

\* Mutant: before the first frame the age is measured from -1.
AgeFromMinusOne(m) == now - m.last_rx

Age(m) == IF m.last_rx < 0 THEN now ELSE now - m.last_rx

CheckTimeout ==
  /\ monitor' = IF Age(monitor) > Timeout
                THEN [monitor EXCEPT !.state = "FAULT", !.error = "CAN_TIMEOUT"] ELSE monitor
  /\ causes' = IF now - (IF life < 0 THEN 0 ELSE life) > Timeout
               THEN causes \cup {"CAN_TIMEOUT"} ELSE causes
  /\ UNCHANGED <<now, bus, life>> /\ status' = NoStatus

CanNext ==
  \/ Tick \/ SendCommand \/ (\E fault \in BOOLEAN : Actuator(fault)) \/ Garble \/ Lose
  \/ ObserveStatus \/ CheckTimeout

CanSpec == CanInit /\ [][CanNext]_canVars

-----------------------------------------------------------------------------
(* What a receiver decodes from the text of a status line is what the      *)
(* sender put into its command, on the way there and back through format   *)
(* and parse: negative values, the ends of 16 bits, and beyond them what   *)
(* the cast leaves.  A line of odd length or with too few bytes is refused.*)
StatusSurvivesTheBus ==
  status.sent.ok => status.got = status.sent

(* A byte with a character that is no digit is refused, as the exception   *)
(* of parseHexByte says.                                                   *)
GarbledIsRefused == status.got.ok => status.sent.ok

(* The monitor is in FAULT just when there was a cause, and names one that *)
(* really happened: an actuator had set the fault bit of a frame, or a     *)
(* check came when there was no frame for longer than the timeout, in the  *)
(* first period too.                                                       *)
FaultHasCause ==
  /\ (monitor.state = "FAULT") = (causes # {})
  /\ monitor.error \in (IF causes = {} THEN {"NONE"} ELSE causes)

=============================================================================

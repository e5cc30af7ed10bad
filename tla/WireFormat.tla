----------------------------- MODULE WireFormat -----------------------------
(***************************************************************************)
(* The payloads of the two hand-written MAVLink codecs: fleet-mavlink      *)
(* (messages.rs, encode_v2 of frame.rs) and sitsim-mavlink (messages.rs),  *)
(* on their way from a sender to a receiver.                               *)
(*                                                                         *)
(* A format says in which order `pack` writes the fields and how wide they *)
(* are ("pad" is padding), and from which bytes `unpack` reads each of them.  *)
(* Neighbouring fields of one kind are one field here.  Of a byte only     *)
(* zero, nonzero and 255 are told apart.                                   *)
(***************************************************************************)
EXTENDS Integers, Sequences, FiniteSets, SequencesExt

CONSTANT Extended  \* bytes a newer dialect appends (bound)

ASSUME WireAssumption == Extended \in Nat

VARIABLES
  meant,   \* the message, its codec and the value of every field
  wire,    \* the payload in flight
  decoded  \* what unpack made of it

wireVars == <<meant, wire, decoded>>

\* put: <<field, width>> in the order of pack.  get: <<field, offset, width>>
\* of unpack.  full: the length payloads are padded to.  least: shorter
\* payloads are refused.  strict: what stands for a field that is not
\* completely there (zeros if it is not listed).
Format(put, get, full) == [put |-> put, get |-> get, full |-> full, least |-> 0,
                           strict |-> [f \in {} |-> <<>>]]

-----------------------------------------------------------------------------
(* fleet-mavlink.                                                          *)

Heartbeat == Format(
  <<<<"custom_mode", 4>>, <<"mavtype", 1>>, <<"autopilot", 1>>, <<"base_mode", 1>>,
    <<"system_status", 1>>, <<"mavlink_version", 1>>>>,
  <<<<"custom_mode", 0, 4>>, <<"mavtype", 4, 1>>, <<"autopilot", 5, 1>>,
    <<"base_mode", 6, 1>>, <<"system_status", 7, 1>>, <<"mavlink_version", 8, 1>>>>, 9)

CommandLong == Format(
  <<<<"params", 28>>, <<"command", 2>>, <<"target", 2>>, <<"confirmation", 1>>>>,
  <<<<"params", 0, 28>>, <<"command", 28, 2>>, <<"target", 30, 2>>, <<"confirmation", 32, 1>>>>,
  33)

CommandAck == [Format(
  <<<<"command", 2>>, <<"result", 1>>, <<"progress", 1>>, <<"result_param2", 4>>,
    <<"target_system", 1>>, <<"target_component", 1>>>>,
  <<<<"command", 0, 2>>, <<"result", 2, 1>>, <<"progress", 3, 1>>,
    <<"result_param2", 4, 4>>, <<"target_system", 8, 1>>, <<"target_component", 9, 1>>>>, 10)
  EXCEPT !.least = 3,
         !.strict = [progress |-> <<255>>, result_param2 |-> <<0, 0, 0, 0>>]]

SetPositionTargetLocalNed == Format(
  <<<<"time_boot_ms", 4>>, <<"xyz", 12>>, <<"vxyz", 12>>, <<"afxyz", 12>>, <<"yaw", 4>>,
    <<"yaw_rate", 4>>, <<"type_mask", 2>>, <<"target", 2>>, <<"coordinate_frame", 1>>>>,
  <<<<"time_boot_ms", 0, 4>>, <<"xyz", 4, 12>>, <<"vxyz", 16, 12>>, <<"afxyz", 28, 12>>,
    <<"yaw", 40, 4>>, <<"yaw_rate", 44, 4>>, <<"type_mask", 48, 2>>, <<"target", 50, 2>>,
    <<"coordinate_frame", 52, 1>>>>, 53)

Attitude == Format(
  <<<<"time_boot_ms", 4>>, <<"rpy", 12>>, <<"speeds", 12>>>>,
  <<<<"time_boot_ms", 0, 4>>, <<"rpy", 4, 12>>, <<"speeds", 16, 12>>>>, 28)

LocalPositionNed == Format(
  <<<<"time_boot_ms", 4>>, <<"xyz", 12>>, <<"vxyz", 12>>>>,
  <<<<"time_boot_ms", 0, 4>>, <<"xyz", 4, 12>>, <<"vxyz", 16, 12>>>>, 28)

GlobalPositionInt == Format(
  <<<<"time_boot_ms", 4>>, <<"lat", 4>>, <<"lon", 4>>, <<"alt", 4>>, <<"relative_alt", 4>>,
    <<"vxyz", 6>>, <<"hdg", 2>>>>,
  <<<<"time_boot_ms", 0, 4>>, <<"lat", 4, 4>>, <<"lon", 8, 4>>, <<"alt", 12, 4>>,
    <<"relative_alt", 16, 4>>, <<"vxyz", 20, 6>>, <<"hdg", 26, 2>>>>, 28)

SysStatus == Format(
  <<<<"pad", 12>>, <<"load", 2>>, <<"voltage", 2>>, <<"current", 2>>, <<"pad", 12>>, <<"remaining", 1>>>>,
  <<<<"load", 12, 2>>, <<"voltage", 14, 2>>, <<"current", 16, 2>>, <<"remaining", 30, 1>>>>, 31)

BatteryStatus == Format(
  <<<<"pad", 8>>, <<"temperature", 2>>, <<"voltages", 20>>, <<"current", 2>>, <<"id", 1>>, <<"pad", 2>>,
    <<"remaining", 1>>>>,
  <<<<"temperature", 8, 2>>, <<"voltages", 10, 20>>, <<"current", 30, 2>>, <<"id", 32, 1>>,
    <<"remaining", 35, 1>>>>, 36)

StatusText == [Format(
  <<<<"severity", 1>>, <<"text", 50>>, <<"id", 1>>, <<"chunk_seq", 1>>>>,
  <<<<"severity", 0, 1>>, <<"text", 1, 50>>, <<"id", 51, 1>>, <<"chunk_seq", 52, 1>>>>, 53)
  EXCEPT !.least = 2]

HomePosition == Format(
  <<<<"lat", 4>>, <<"lon", 4>>, <<"alt", 4>>, <<"xyz", 12>>, <<"pad", 28>>>>,
  <<<<"lat", 0, 4>>, <<"lon", 4, 4>>, <<"alt", 8, 4>>, <<"xyz", 12, 12>>>>, 24)

Ping == Format(
  <<<<"time_usec", 8>>, <<"seq", 4>>, <<"target", 2>>>>,
  <<<<"time_usec", 0, 8>>, <<"seq", 8, 4>>, <<"target", 12, 2>>>>, 14)

\* MISSION_COUNT, MISSION_REQUEST and MISSION_REQUEST_INT.
MissionNumber == Format(
  <<<<"number", 2>>, <<"target", 2>>, <<"mission_type", 1>>>>,
  <<<<"number", 0, 2>>, <<"target", 2, 2>>, <<"mission_type", 4, 1>>>>, 5)

MissionItemInt == Format(
  <<<<"params", 16>>, <<"x", 4>>, <<"y", 4>>, <<"z", 4>>, <<"seq", 2>>, <<"command", 2>>,
    <<"target", 2>>, <<"frame", 1>>, <<"current", 1>>, <<"autocontinue", 1>>, <<"mission_type", 1>>>>,
  <<<<"params", 0, 16>>, <<"x", 16, 4>>, <<"y", 20, 4>>, <<"z", 24, 4>>, <<"seq", 28, 2>>,
    <<"command", 30, 2>>, <<"target", 32, 2>>, <<"frame", 34, 1>>, <<"current", 35, 1>>,
    <<"autocontinue", 36, 1>>, <<"mission_type", 37, 1>>>>, 38)

MissionAck == Format(
  <<<<"target", 2>>, <<"mission_result", 1>>, <<"mission_type", 1>>>>,
  <<<<"target", 0, 2>>, <<"mission_result", 2, 1>>, <<"mission_type", 3, 1>>>>, 4)

MissionRequestList == Format(
  <<<<"target", 2>>, <<"mission_type", 1>>>>,
  <<<<"target", 0, 2>>, <<"mission_type", 2, 1>>>>, 3)

\* from_str takes 15 bytes of an id and leaves the 16th zero.
IdBytes == 15
ParamRequestRead == Format(
  <<<<"param_index", 2>>, <<"target", 2>>, <<"param_id", IdBytes>>, <<"pad", 16 - IdBytes>>>>,
  <<<<"param_index", 0, 2>>, <<"target", 2, 2>>, <<"param_id", 4, 16>>>>, 20)

ParamRequestList == [Format(<<<<"target", 2>>>>, <<<<"target", 0, 2>>>>, 2) EXCEPT !.least = 2]

\* ParamSet::pack and ParamValue::unpack have no counterpart; the other end is
\* the vehicle's.
ParamValue == Format(
  <<<<"param_value", 4>>, <<"param_count", 2>>, <<"param_index", 2>>, <<"param_id", 16>>,
    <<"param_type", 1>>>>,
  <<<<"param_value", 0, 4>>, <<"param_count", 4, 2>>, <<"param_index", 6, 2>>,
    <<"param_id", 8, 16>>, <<"param_type", 24, 1>>>>, 25)
ParamSet == Format(
  <<<<"param_value", 4>>, <<"target", 2>>, <<"param_id", IdBytes>>, <<"pad", 16 - IdBytes>>,
    <<"param_type", 1>>>>,
  <<<<"param_value", 0, 4>>, <<"target", 4, 2>>, <<"param_id", 6, 16>>, <<"param_type", 22, 1>>>>,
  23)

Fleet == [
  HEARTBEAT |-> Heartbeat, COMMAND_LONG |-> CommandLong, COMMAND_ACK |-> CommandAck,
  SET_POSITION_TARGET |-> SetPositionTargetLocalNed, ATTITUDE |-> Attitude,
  LOCAL_POSITION_NED |-> LocalPositionNed, GLOBAL_POSITION_INT |-> GlobalPositionInt,
  SYS_STATUS |-> SysStatus, BATTERY_STATUS |-> BatteryStatus, STATUSTEXT |-> StatusText,
  HOME_POSITION |-> HomePosition, PING |-> Ping, MISSION_NUMBER |-> MissionNumber,
  MISSION_ITEM_INT |-> MissionItemInt, MISSION_ACK |-> MissionAck,
  MISSION_REQUEST_LIST |-> MissionRequestList, PARAM_REQUEST_READ |-> ParamRequestRead,
  PARAM_REQUEST_LIST |-> ParamRequestList, PARAM_VALUE |-> ParamValue, PARAM_SET |-> ParamSet]

-----------------------------------------------------------------------------
(* sitsim-mavlink.                                                         *)

HilSensor == Format(
  <<<<"time_usec", 8>>, <<"acc", 12>>, <<"gyro", 12>>, <<"mag", 12>>, <<"air", 16>>,
    <<"fields_updated", 4>>, <<"id", 1>>>>,
  <<<<"time_usec", 0, 8>>, <<"acc", 8, 12>>, <<"gyro", 20, 12>>, <<"mag", 32, 12>>,
    <<"air", 44, 16>>, <<"fields_updated", 60, 4>>, <<"id", 64, 1>>>>, 65)

HilStateQuaternion == Format(
  <<<<"time_usec", 8>>, <<"attitude", 16>>, <<"speeds", 12>>, <<"position", 12>>, <<"v", 6>>,
    <<"airspeed", 4>>, <<"acc", 6>>>>,
  <<<<"time_usec", 0, 8>>, <<"attitude", 8, 16>>, <<"speeds", 24, 12>>, <<"position", 36, 12>>,
    <<"v", 48, 6>>, <<"airspeed", 54, 4>>, <<"acc", 58, 6>>>>, 64)

HilGps == Format(
  <<<<"time_usec", 8>>, <<"position", 12>>, <<"eph_epv_vel", 6>>, <<"v", 6>>, <<"cog", 2>>,
    <<"fix_type", 1>>, <<"satellites", 1>>, <<"id", 1>>, <<"yaw", 2>>>>,
  <<<<"time_usec", 0, 8>>, <<"position", 8, 12>>, <<"eph_epv_vel", 20, 6>>, <<"v", 26, 6>>,
    <<"cog", 32, 2>>, <<"fix_type", 34, 1>>, <<"satellites", 35, 1>>, <<"id", 36, 1>>,
    <<"yaw", 37, 2>>>>, 39)

\* Mutant: common.xml's order, flags behind the controls.
FlagsLast == <<<<"time_usec", 8>>, <<"controls", 64>>, <<"mode", 1>>, <<"flags", 8>>>>
FlagsFirst == <<<<"time_usec", 8>>, <<"flags", 8>>, <<"controls", 64>>, <<"mode", 1>>>>
HilActuatorControls == Format(FlagsFirst,
  <<<<"time_usec", 0, 8>>, <<"flags", 8, 8>>, <<"controls", 16, 64>>, <<"mode", 80, 1>>>>, 81)

SimCommandLong == Format(
  <<<<"params", 28>>, <<"command", 2>>, <<"target", 2>>, <<"confirmation", 1>>>>,
  <<<<"params", 0, 28>>, <<"command", 28, 2>>, <<"target", 30, 2>>, <<"confirmation", 32, 1>>>>,
  33)

SimCommandAck == Format(
  <<<<"command", 2>>, <<"result", 1>>, <<"progress", 1>>, <<"result_param2", 4>>,
    <<"target_system", 1>>, <<"target_component", 1>>>>,
  <<<<"command", 0, 2>>, <<"result", 2, 1>>, <<"progress", 3, 1>>, <<"result_param2", 4, 4>>,
    <<"target_system", 8, 1>>, <<"target_component", 9, 1>>>>, 10)

Sim == [
  HIL_SENSOR |-> HilSensor, HIL_STATE_QUATERNION |-> HilStateQuaternion, HIL_GPS |-> HilGps,
  HIL_ACTUATOR_CONTROLS |-> HilActuatorControls, COMMAND_LONG |-> SimCommandLong,
  COMMAND_ACK |-> SimCommandAck]

Codec == [fleet |-> Fleet, sim |-> Sim]

-----------------------------------------------------------------------------
(* Packing and unpacking.                                                  *)

Zeros(n)    == [k \in 1..n |-> 0]
Fields(fmt) == {fmt.get[k][1] : k \in DOMAIN fmt.get}
Get(fmt, f) == CHOOSE g \in Range(fmt.get) : g[1] = f

\* Every byte of a message that carries a value.
Elements(fmt) == UNION {{f} \X (1..Get(fmt, f)[3]) : f \in Fields(fmt)}

\* The message whose bytes at `places` are not zero.
Value(fmt, places) ==
  [f \in Fields(fmt) |-> [k \in 1..Get(fmt, f)[3] |-> IF <<f, k>> \in places THEN 1 ELSE 0]]

Packed(fmt, value) ==
  FlattenSeq([k \in DOMAIN fmt.put |->
    LET f == fmt.put[k][1] IN
    IF f = "pad" THEN Zeros(fmt.put[k][2]) ELSE SubSeq(value[f], 1, fmt.put[k][2])])

\* Trailing zeros are dropped: all of them by encode_v2, all but the first byte
\* by pack_payload.
Trimmed(bytes, keep) ==
  LET live == {k \in DOMAIN bytes : bytes[k] # 0} \cup {keep}
  IN SubSeq(bytes, 1, CHOOSE n \in live : \A k \in live : k <= n)

Keep == [fleet |-> 0, sim |-> 1]

Padded(bytes, n) == IF Len(bytes) < n THEN bytes \o Zeros(n - Len(bytes)) ELSE SubSeq(bytes, 1, n)

Refuses(codec, fmt, bytes) ==
  Len(bytes) < fmt.least \/ (codec = "sim" /\ Len(bytes) > fmt.full)

ReadField(fmt, bytes, g) ==
  IF g[1] \in DOMAIN fmt.strict /\ Len(bytes) < g[2] + g[3]
  THEN fmt.strict[g[1]]
  ELSE SubSeq(Padded(bytes, fmt.full), g[2] + 1, g[2] + g[3])

Unpacked(fmt, bytes) == [f \in Fields(fmt) |-> ReadField(fmt, bytes, Get(fmt, f))]

-----------------------------------------------------------------------------

WireInit == meant = <<>> /\ wire = <<>> /\ decoded = <<>>

\* One byte of the message is not zero, or all but one are not.
WireSend(codec, m) ==
  LET fmt == Codec[codec][m] IN
  /\ meant = <<>>
  /\ \E b \in Elements(fmt) : \E places \in {{b}, Elements(fmt) \ {b}}, ext \in 0..Extended :
       /\ meant' = [codec |-> codec, m |-> m, value |-> Value(fmt, places)]
       /\ wire' = IF ext = 0 THEN Trimmed(Packed(fmt, meant'.value), Keep[codec])
                  ELSE Packed(fmt, meant'.value) \o [k \in 1..ext |-> 1]
  /\ UNCHANGED decoded

Receive(codec) ==
  /\ meant # <<>> /\ decoded = <<>> /\ meant.m \in DOMAIN Codec[codec]
  /\ LET fmt == Codec[codec][meant.m] IN
     decoded' = IF Refuses(codec, fmt, wire) THEN [codec |-> codec, refused |-> TRUE]
                ELSE [codec |-> codec, value |-> Unpacked(fmt, wire)]
  /\ UNCHANGED <<meant, wire>>

WireNext ==
  \E codec \in {"fleet", "sim"} :
    \/ \E m \in DOMAIN Codec[codec] : WireSend(codec, m)
    \/ Receive(codec)

WireSpec == WireInit /\ [][WireNext]_wireVars

-----------------------------------------------------------------------------
(* Properties.                                                             *)

Done == decoded # <<>>
Came == Done /\ "value" \in DOMAIN decoded

\* The three fields below a full payload that unpack of COMMAND_ACK reads only
\* when all their bytes have come.
Incomplete(f) ==
  /\ decoded.codec = "fleet" /\ meant.m = "COMMAND_ACK"
  /\ \/ f = "progress" /\ Len(wire) < 4
     \/ f = "result_param2" /\ Len(wire) < 8

\* frame.rs, "decoders must accept short payloads"; messages.rs, "Decoders
\* zero-fill, so this is value-preserving": what either codec sends, cut short
\* or with the fields of a newer dialect behind it, either codec reads as it
\* was meant, field by field.  COMMAND_ACK and ids of 16 bytes are the exceptions.
FieldsArrive ==
  Came => \A f \in DOMAIN decoded.value :
    \/ decoded.value[f] = meant.value[f]
    \/ Incomplete(f)
    \/ f = "param_id" /\ SubSeq(decoded.value[f], 1, 15) = SubSeq(meant.value[f], 1, 15)

\* A message is refused only by the three decoders that want a length, or by
\* the simulator's because it is longer than it knows.
RefusedForLength ==
  Done /\ ~Came =>
    \/ decoded.codec = "sim" /\ Extended > 0 /\ Len(wire) > Sim[meant.m].full
    \/ /\ decoded.codec = "fleet"
       /\ \/ meant.m = "COMMAND_ACK" /\ Len(wire) < 3
          \/ meant.m \in {"STATUSTEXT", "PARAM_REQUEST_LIST"} /\ Len(wire) < 2

\* messages.rs of both codecs, "value-preserving": a payload arrives as it was
\* meant, and is refused for its length alone.
PayloadsArrive == FieldsArrive /\ RefusedForLength

\* frame.rs, "Senders may omit trailing zero bytes of the payload (PX4 and
\* pymavlink both do), so decoders must accept short payloads", of the COMMAND_ACK
\* that says only which command has been accepted.
ShortAckAccepted == Done /\ meant.m = "COMMAND_ACK" /\ decoded.codec = "fleet" => Came

\* api.rs, "param id must be 1..=16 chars": an id that the handler lets through
\* is the id the vehicle reads.
IdArrives == Came /\ meant.m = "PARAM_SET" => decoded.value["param_id"] = meant.value["param_id"]
=============================================================================

---------------------------- MODULE LidarProtocol ----------------------------
(***************************************************************************)
(* The byte parser of the LD06 laser scanner, LdLidarProtocol::            *)
(* AnalysisDataPacket: a state machine kept in function-local statics that *)
(* outlive a reconnection.  The scanner sends packets back to back; a byte *)
(* may be lost or damaged on the line, noise may be read as a byte, and    *)
(* the scanner may lose its power in the middle of a packet.  A byte is    *)
(* modelled by what the parser can tell apart: the header 0x54, the three  *)
(* packet types after it, anything else.  Payload bytes may be any of them.*)
(***************************************************************************)
EXTENDS Integers

CONSTANTS
  DataLen,     \* sizeof(LiDARMeasureDataType), 47
  HealthLen,   \* sizeof(LiDARHealthInfoType), 4
  ManufLen     \* sizeof(LiDARManufactureInfoType), 23

ASSUME LengthAssumption == DataLen \in Nat /\ HealthLen \in Nat /\ ManufLen \in Nat
ASSUME BodyAssumption   == 3 <= HealthLen /\ HealthLen <= ManufLen /\ ManufLen <= DataLen

VARIABLES
  state,      \* HEADER, VER_LEN, or the kind of packet whose body is being read
  count,      \* bytes in tmp
  healthinf,  \* check_healthinf_flag
  ret,        \* what the last call returned: error, pcd, health or manuf
  kind,       \* external: the packet the scanner is sending
  pos,        \* external: the bytes of it already on the line
  whole,      \* history: the parser was in HEADER when this packet began, and
              \* has been given every byte of it since
  before,     \* history: the packet just before this one, when that one was whole
  due,        \* history: what the last byte, if it completed whole packets, says
  clean       \* history: bytes since the last fault or header in a payload

parser  == <<state, count, healthinf, ret>>
sender  == <<kind, pos>>
history == <<whole, before, due, clean>>
vars    == <<parser, sender, history>>

Kinds  == {"data", "health", "manuf"}       \* DATA_PKG_INFO, HEALTH_PKG_INFO, MANUFACT_PKG_INF
Bytes  == Kinds \cup {"head", "other"}      \* PKG_HEADER
Length == [data |-> DataLen, health |-> HealthLen, manuf |-> ManufLen]

Init ==
  /\ state = "HEADER" /\ count = 0 /\ healthinf = FALSE /\ ret = "error"
  /\ kind \in Kinds /\ pos = 0
  /\ whole = FALSE /\ before = "none" /\ due = "none" /\ clean = 0

-----------------------------------------------------------------------------
(* AnalysisDataPacket(b), one action for each state and what it looks for.  *)

\* Between packets: any byte that is not a header drops a health report.
Header(b) ==
  /\ state = "HEADER"
  /\ ret' = "error"
  /\ IF b = "head" THEN state' = "VER_LEN" /\ count' = count + 1 /\ UNCHANGED healthinf
                   ELSE healthinf' = FALSE /\ UNCHANGED <<state, count>>

\* Variant with a bug: what was counted of a false packet is kept.
VerLenKeepsCount(b) ==
  /\ state = "VER_LEN"
  /\ IF b \in Kinds
       THEN /\ state' = b /\ count' = count + 1
            /\ ret' = IF healthinf /\ b # "manuf" THEN "health" ELSE "error"
            /\ healthinf' = (healthinf /\ b = "manuf")
       ELSE /\ state' = "HEADER" /\ ret' = "error" /\ healthinf' = FALSE
            /\ UNCHANGED count

\* After a header: the type of the packet, else back to looking for a header,
\* with this byte dropped even when it is one.
VerLen(b) ==
  /\ state = "VER_LEN"
  /\ IF b \in Kinds
       THEN /\ state' = b /\ count' = count + 1
            /\ ret' = IF healthinf /\ b # "manuf" THEN "health" ELSE "error"
            /\ healthinf' = (healthinf /\ b = "manuf")
       ELSE /\ state' = "HEADER" /\ count' = 0 /\ ret' = "error" /\ healthinf' = FALSE

\* Variant with a bug: the packet ends only with the byte after its last.
BodyOverlong ==
  /\ state \in Kinds /\ count + 1 <= Length[state]
  /\ count' = count + 1 /\ ret' = "error"
  /\ UNCHANGED <<state, healthinf>>

Body ==
  /\ state \in Kinds /\ count + 1 < Length[state]
  /\ count' = count + 1 /\ ret' = "error"
  /\ UNCHANGED <<state, healthinf>>

\* Variant with a bug: the state is left only by a packet that checks.
EndOfPacketKeepsState(crc) ==
  /\ state \in Kinds /\ count + 1 >= Length[state]
  /\ state' = (IF crc THEN "HEADER" ELSE state) /\ count' = 0
  /\ healthinf' = IF state = "health" THEN crc ELSE healthinf
  /\ ret' = IF crc /\ state = "data" THEN "pcd"
            ELSE IF crc /\ state = "manuf" THEN "manuf" ELSE "error"

\* The last byte, with the outcome of CalCRC8.
EndOfPacket(crc) ==
  /\ state \in Kinds /\ count + 1 >= Length[state]
  /\ state' = "HEADER" /\ count' = 0
  /\ healthinf' = IF state = "health" THEN crc ELSE healthinf
  /\ ret' = IF crc /\ state = "data" THEN "pcd"
            ELSE IF crc /\ state = "manuf" THEN "manuf" ELSE "error"

Analyse(b, crc) == Header(b) \/ VerLen(b) \/ Body \/ EndOfPacket(crc)

-----------------------------------------------------------------------------
(* External: the scanner and the line.                                      *)
Min2(a, b) == IF a < b THEN a ELSE b

Last == pos + 1 = Length[kind]

\* The bytes that may follow, with the kind of their packet.
Following == {b \in Bytes : (pos = 0 => b = "head") /\ (pos = 1 => b = kind)}

Advance ==
  IF Last THEN pos' = 0 /\ kind' \in Kinds ELSE pos' = pos + 1 /\ UNCHANGED kind

\* What the parser owes a packet that came whole, with this byte of it.
Due(now) ==
  IF now /\ Last /\ kind # "health" THEN IF kind = "data" THEN "pcd" ELSE "manuf"
  ELSE IF now /\ pos = 1 /\ before = "health" /\ kind # "manuf" THEN "health"
  ELSE "none"

\* One byte arrives as it was sent.
Deliver(b, crc) ==
  LET now == IF pos = 0 THEN state = "HEADER" ELSE whole
  IN  /\ b \in Following
      /\ now => crc
      /\ Analyse(b, crc)
      /\ Advance
      /\ due' = Due(now)
      /\ whole' = (now /\ ~Last)
      /\ before' = IF ~Last THEN before ELSE IF now THEN kind ELSE "none"
      /\ clean' = IF pos > 0 /\ b = "head" THEN 0 ELSE Min2(clean + 1, DataLen - 1)

Disturbed == whole' = FALSE /\ before' = "none" /\ due' = "none" /\ clean' = 0

Damage(b, crc) == Analyse(b, crc) /\ Advance /\ Disturbed
Noise(b, crc)  == Analyse(b, crc) /\ UNCHANGED sender /\ Disturbed
Lose           == Advance /\ UNCHANGED parser /\ Disturbed
PowerCycle     == pos' = 0 /\ kind' \in Kinds /\ UNCHANGED parser /\ Disturbed

Next ==
  \/ \E b \in Bytes, crc \in BOOLEAN : Deliver(b, crc) \/ Damage(b, crc) \/ Noise(b, crc)
  \/ Lose
  \/ PowerCycle

Spec == Init /\ [][Next]_vars

-----------------------------------------------------------------------------
TypeOK ==
  /\ state \in {"HEADER", "VER_LEN"} \cup Kinds
  /\ count \in 0..(DataLen - 1) /\ healthinf \in BOOLEAN
  /\ ret \in {"error", "pcd", "health", "manuf"}
  /\ kind \in Kinds /\ pos \in 0..(DataLen - 1)
  /\ whole \in BOOLEAN /\ before \in Kinds \cup {"none"}
  /\ due \in {"none", "pcd", "health", "manuf"} /\ clean \in 0..(DataLen - 1)

(* After whatever the line did, DataLen - 1 bytes without a fault and      *)
(* without a header byte in a payload put the parser back in step: it looks *)
(* for a header whenever the scanner is about to send one.  A false header  *)
(* it had locked on costs one packet, not the rest of the session           *)
(* (AnalysisDataPacket has no timeout to leave a false packet by).          *)
Resynchronises == pos = 0 /\ clean = DataLen - 1 => state = "HEADER"

(* A packet that begins while the parser looks for a header and arrives     *)
(* undamaged is reported with its last byte, whatever bytes its payload is  *)
(* made of; a health packet is reported with the second byte of a data or   *)
(* health packet right behind it (AnalysisDataPacket, every return).        *)
IntactIsReported == due # "none" => ret = due

==============================================================================

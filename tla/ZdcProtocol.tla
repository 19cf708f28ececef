---------------------------- MODULE ZdcProtocol ----------------------------
(***************************************************************************)
(* The data of the zdc protocol that both nodes share: commands, entity    *)
(* types and states, status values, and how an integer attribute crosses   *)
(* the LCSF bridge (zdc_Main_{a,b}.h, LCSF_Bridge_zdc_{a,b}.{c,h}).        *)
(***************************************************************************)
EXTENDS Integers

\* enum _zdc_state_e
OFF     == 0
ON      == 1
INVALID == 2

\* enum _zdc_type_e.  BadType stands for every other value the enum field
\* can hold, which only memory that was never written holds.
Types       == {"PUB", "SUB", "QUERY", "QUERYABLE"}
BadType     == "BAD"
Declarable  == {"SUB", "QUERYABLE"}

\* enum _zdc_status_e
STATUS_OK  == 0
STATUS_ERR == 1

-----------------------------------------------------------------------------
UINT16_MAX == 65535
Uint8  == 0 .. 255
Uint16 == 0 .. UINT16_MAX

\* Faulty variant: the field is taken to be as wide as what it is given.
Int8Unsigned(v) == v

\* The value an int8_t holds after an assignment from a uint8_t (on the
\* two's-complement targets the program is built for).
Int8(v)    == IF v > 127 THEN v - 256 ELSE v
Int8Values == -128 .. 127

\* Number of bytes an integer attribute occupies on the wire.
GetVLESize(v) == IF v < 256 THEN 1 ELSE 2

\* Faulty variant: the byte lands in the high half (a big-endian copy).
CopyUint16HighByte(dst, v) ==
  IF GetVLESize(v) = 1 THEN (dst % 256) + 256 * v ELSE v

\* memcpy(&dst, pData, PayloadSize) into a uint16_t of a little-endian
\* machine: a one-byte attribute overwrites the low byte only, the high byte
\* keeps what the static payload held before.
CopyUint16(dst, v) ==
  IF GetVLESize(v) = 1 THEN (dst - (dst % 256)) + v ELSE v
=============================================================================

---------------------------- MODULE Encapsulation ----------------------------
(***************************************************************************)
(* How a packet of enhancement data travels in an access unit of the base  *)
(* codec: add_enhancement of the encoders of encoder/src/FileEncoder.cpp   *)
(* puts it into a NAL unit among those of the base, and scan_enhancement   *)
(* of decoder/src/ScanEnhancement.cpp looks for it in the bytes of the     *)
(* whole access unit.                                                      *)
(*                                                                         *)
(* An access unit is a sequence of NAL units, each a type and its bytes    *)
(* with the start code; EVC has the unit's length instead of start codes,  *)
(* and only NAL encapsulation is modelled of it.  Packets, units and       *)
(* access units are sequences of bytes, numbered from 1.                   *)
(***************************************************************************)
EXTENDS Integers, Sequences, FiniteSetsExt, SequencesExt

BaseEncoders == {"AVC", "HEVC", "X265", "VVC", "EVC"}
Encapsulations == {"None", "NAL", "SEI_Registered", "SEI_Unregistered"}

LCEVC_NON_IDR == 28
LCEVC_IDR == 29
LCEVC_RSV == 30

USER_DATA_REGISTERED == 4
USER_DATA_UNREGISTERED == 5
sei_code == <<180, 0, 80, 0>>
uuid == <<167, 196, 109, 237, 73, 216, 56, 235, 154, 173, 109, 166, 132, 151, 167, 84>>

StartCode == <<0, 0, 1>>

(* Positions in a sequence, in order. *)
InOrder(bytes, positions) == SelectSeq([i \in DOMAIN bytes |-> i], LAMBDA i : i \in positions)

Unit(type, bytes) == [type |-> type, bytes |-> bytes]

-----------------------------------------------------------------------------
(* Encoder *)

(* The zeros directly before a byte that follows two at least. *)
ZerosBefore(bytes, i) ==
  CHOOSE n \in 2 .. i - 1 : (\A k \in 1 .. n : bytes[i - k] = 0) /\ (n = i - 1 \/ bytes[i - n - 1] # 0)

(* Faulty variant of Emulating: a byte of three is not escaped. *)
EmulatingBelowThree(bytes) ==
  {i \in 3 .. Len(bytes) : bytes[i] < 3 /\ bytes[i - 1] = 0 /\ bytes[i - 2] = 0 /\ ZerosBefore(bytes, i) % 2 = 0}

(* The bytes that an emulation prevention byte goes before: after every    *)
(* second zero in a row, if they could be taken for a start code.          *)
Emulating(bytes) ==
  {i \in 3 .. Len(bytes) : bytes[i] <= 3 /\ bytes[i - 1] = 0 /\ bytes[i - 2] = 0 /\ ZerosBefore(bytes, i) % 2 = 0}

rbsp_encapsulate(bytes) ==
  Append(FoldRight(LAMBDA i, s : InsertAt(s, i, 3), InOrder(bytes, Emulating(bytes)), bytes), 128)

(* Faulty variant of SeiLength: a size is one byte. *)
SeiLengthOfOneByte(l) == <<l>>

SeiLength(l) == Append([i \in 1 .. l \div 255 |-> 255], l % 255)

RegisteredSei(unit) ==
  <<USER_DATA_REGISTERED>> \o SeiLength(Len(unit) + Len(sei_code)) \o sei_code \o unit
UnregisteredSei(payload) ==
  <<USER_DATA_UNREGISTERED>> \o SeiLength(Len(payload) + Len(uuid)) \o uuid \o payload

build_nalu(is_idr, payload) ==
  Unit(IF is_idr THEN LCEVC_IDR ELSE LCEVC_NON_IDR,
       StartCode \o <<IF is_idr THEN 123 ELSE 121, 255>> \o rbsp_encapsulate(payload))

(* The type and the header of a unit of supplemental information. *)
SeiType(base) ==
  CASE base = "AVC" -> 6 [] base \in {"HEVC", "X265"} -> 39 [] base = "VVC" -> 23
SeiHeader(base, temporal_id) ==
  CASE base = "AVC" -> <<6>> [] base \in {"HEVC", "X265"} -> <<78, 1>> [] base = "VVC" -> <<0, 184 + temporal_id + 1>>

build_sei(base, temporal_id, payload) ==
  Unit(SeiType(base), StartCode \o SeiHeader(base, temporal_id) \o rbsp_encapsulate(payload))

U32(n) == [i \in 1 .. 4 |-> (n \div 256 ^ (i - 1)) % 256]

(* The header of EVC holds the upper bits of the temporal id in its first  *)
(* byte.                                                                   *)
build_nalu_evc(temporal_id, payload) ==
  Unit(28, U32(Len(payload) + 2) \o <<60 + (temporal_id \div 4), (temporal_id * 64) % 256>> \o payload)

EnhancementUnit(base, encapsulation, temporal_id, is_idr, payload) ==
  CASE base = "EVC" -> build_nalu_evc(temporal_id, payload)
    [] base # "EVC" /\ encapsulation \in {"None", "NAL"} -> build_nalu(is_idr, payload)
    [] encapsulation = "SEI_Registered" -> build_sei(base, temporal_id, RegisteredSei(build_nalu(is_idr, payload).bytes))
    [] encapsulation = "SEI_Unregistered" -> build_sei(base, temporal_id, UnregisteredSei(payload))

(* The units that stay in front of the enhancement: parameter sets and     *)
(* what else begins an access unit.                                        *)
Leading(base) ==
  CASE base = "AVC" -> 7 .. 9
    [] base \in {"HEVC", "X265"} -> 32 .. 35
    [] base = "VVC" -> 12 .. 31
    [] base = "EVC" -> 24 .. 26

(* add_enhancement; a packet that is empty is not added. *)
add_enhancement(base, encapsulation, au, is_idr, payload) ==
  LET others == {i \in DOMAIN au.units : au.units[i].type \notin Leading(base)}
  IN  IF payload = <<>> THEN au.units
      ELSE InsertAt(au.units, Min(others \cup {Len(au.units) + 1}),
                    EnhancementUnit(base, encapsulation, au.temporal_id, is_idr, payload))

(* The access unit as it is in the file. *)
BytesOf(units) == FoldLeft(LAMBDA s, u : s \o u.bytes, <<>>, units)

-----------------------------------------------------------------------------
(* Decoder *)

(* rbsp_decoder: what get_byte returns, emulation prevention bytes left    *)
(* out.                                                                    *)
Emulated(raw) == {i \in 3 .. Len(raw) : raw[i] = 3 /\ raw[i - 1] = 0 /\ raw[i - 2] = 0}
Unescaped(raw) ==
  LET kept == InOrder(raw, DOMAIN raw \ Emulated(raw)) IN [k \in DOMAIN kept |-> raw[kept[k]]]

is_nal_marker(data, i) == data[i] = 0 /\ data[i + 1] = 0 /\ data[i + 2] = 1

Markers(data, from) == {i \in from .. Len(data) - 3 : is_nal_marker(data, i)}

(* The end of a unit without the zero of a longer start code behind it. *)
EndOfUnit(data, i) ==
  LET next == Min(Markers(data, i + 4) \cup {Len(data) + 1})
  IN  IF next <= Len(data) /\ data[next - 1] = 0 THEN next - 1 ELSE next

NalType(byte) == (byte % 64) \div 2

EnhancementUnits(data, from) ==
  {i \in Markers(data, from) :
     /\ i <= Len(data) - 4
     /\ data[i + 3] \in 64 .. 127 /\ data[i + 4] = 255
     /\ NalType(data[i + 3]) \in LCEVC_NON_IDR .. LCEVC_RSV}

Found(packet, is_lcevc_idr) == [packet |-> packet, is_lcevc_idr |-> is_lcevc_idr]

(* extract_enhancement_nal: without the stop bit's byte. *)
ExtractNal(data, i, end) ==
  Found(Front(Unescaped(SubSeq(data, i + 5, end - 1))), NalType(data[i + 3]) = LCEVC_IDR)

(* scan_enhancement_nal: a unit is taken out, and the scan goes on a byte  *)
(* behind where it began.                                                  *)
RECURSIVE ScanNal(_, _)
ScanNal(scan, from) ==
  LET data == scan.rest
      units == EnhancementUnits(data, from)
      i    == Min(units)
      end  == EndOfUnit(data, i)
  IN  IF units = {} THEN scan
      ELSE ScanNal([found |-> Append(scan.found, ExtractNal(data, i, end)),
                    rest  |-> SubSeq(data, 1, i - 1) \o SubSeq(data, end, Len(data))], i + 1)

scan_enhancement_nal(data) == ScanNal([found |-> <<>>, rest |-> data], 1)

(* scan_enhancement_nal_evc *)
RECURSIVE ScanEvc(_, _)
ScanEvc(scan, offset) ==
  LET data   == scan.rest
      length == data[offset + 1] + 256 * data[offset + 2] + 65536 * data[offset + 3]
      after  == offset + length + 4
  IN  IF offset >= Len(data) - 6 THEN scan
      ELSE IF data[offset + 5] \in {60, 61} /\ data[offset + 6] % 64 = 0
        THEN ScanEvc([found |-> Append(scan.found, Found(SubSeq(data, offset + 7, after),
                                                         data[offset + 5] \div 8 = LCEVC_IDR)),
                      rest  |-> SubSeq(data, 1, offset) \o SubSeq(data, after + 1, Len(data))], offset)
        ELSE ScanEvc(scan, after)

scan_enhancement_nal_evc(data) == ScanEvc([found |-> <<>>, rest |-> data], 0)

(* scan_enhancement_nal_prod *)
scan_enhancement_nal_prod(data) ==
  LET starts == InOrder(data, EnhancementUnits(data, 1))
  IN  [k \in DOMAIN starts |-> ExtractNal(data, starts[k], EndOfUnit(data, starts[k]))]

(* A number in the header of supplemental information, and where it ends.  *)
SeiNumber(bytes, at) ==
  LET last == Min({i \in at .. Len(bytes) : bytes[i] # 255})
  IN  [value |-> 255 * (last - at) + bytes[last], next |-> last + 1]

(* The type and the contents of a unit, read from its raw bytes; the       *)
(* contents are looked at only if the length does not exceed the unit's.   *)
SeiMessage(raw) ==
  LET bytes  == Unescaped(raw)
      type   == SeiNumber(bytes, 1)
      length == SeiNumber(bytes, type.next)
  IN  [type |-> type.value, fits |-> length.value <= Len(raw),
       contents |-> SubSeq(bytes, length.next, length.next + length.value - 1)]

Begins(message, type, mark) ==
  message.type = type /\ message.fits /\ SubSeq(message.contents, 1, Len(mark)) = mark

Behind(message, mark) == SubSeq(message.contents, Len(mark) + 1, Len(message.contents))

(* RegisteredSEI::extract_enhancement_sei: the contents are a NAL unit.    *)
ExtractRegistered(message) ==
  IF Begins(message, USER_DATA_REGISTERED, sei_code) THEN scan_enhancement_nal_prod(Behind(message, sei_code)) ELSE <<>>

(* UnregisteredSEI::extract_enhancement_sei *)
ExtractUnregistered(message, is_base_idr) ==
  IF Begins(message, USER_DATA_UNREGISTERED, uuid) THEN <<Found(Behind(message, uuid), is_base_idr)>> ELSE <<>>

(* Where supplemental information begins, and the length of the start code *)
(* and the header.                                                         *)
SeiUnits(base, data) ==
  CASE base = "AVC"  -> {i \in Markers(data, 1) : i <= Len(data) - 4 /\ data[i + 3] = 6}
    [] base = "HEVC" -> {i \in Markers(data, 1) : i <= Len(data) - 5 /\ data[i + 3] = 78 /\ data[i + 4] = 1}
    [] base = "VVC"  -> {i \in Markers(data, 1) : i <= Len(data) - 5 /\ data[i + 3] = 0 /\ data[i + 4] \div 8 = 23}
SeiHeaderSize(base) == IF base = "AVC" THEN 4 ELSE 5

(* scan_enhancement_sei_avc, _hevc and _vvc.  Nothing is taken out. *)
scan_enhancement_sei(base, encapsulation, data, is_base_idr) ==
  LET starts == InOrder(data, SeiUnits(base, data))
      End(i) == Min(Markers(data, i + 4) \cup {Len(data) + 1})
      Raw(i) == SubSeq(data, i + SeiHeaderSize(base), End(i) - 1)
      Extract(message) ==
        IF encapsulation = "SEI_Registered" THEN ExtractRegistered(message) ELSE ExtractUnregistered(message, is_base_idr)
  IN  [found |-> FlattenSeq([k \in DOMAIN starts |-> Extract(SeiMessage(Raw(starts[k])))]), rest |-> data]

BaseCoding(base) == IF base = "X265" THEN "HEVC" ELSE base

scan_enhancement(base, encapsulation, data, is_base_idr) ==
  IF encapsulation \in {"SEI_Registered", "SEI_Unregistered"}
    THEN scan_enhancement_sei(base, encapsulation, data, is_base_idr)
  ELSE IF base = "EVC" /\ encapsulation = "NAL" THEN scan_enhancement_nal_evc(data)
  ELSE scan_enhancement_nal(data)
=============================================================================

------------------------------ MODULE TlvScan ------------------------------
(***************************************************************************)
(* Protocol_FindField at work, one turn of its loop a step, on a buffer    *)
(* that holds some whole fields and then, perhaps, bytes that are not a    *)
(* whole field: that is any buffer at all, and there is one way only to    *)
(* see it so.                                                              *)
(***************************************************************************)
EXTENDS TlvCodec

CONSTANTS
  FieldLists,   \* the whole fields: sequences of [tag |-> .., value |-> ..]
  Tails,        \* what follows them
  Tags          \* what is looked for

WholeField(s) ==
  Len(s) >= 3 /\ Len(s) >= 3 + Protocol_GetU16(s[2], s[3])

(* The length a tail declares is not so large that adding the header to it    *)
(* wraps: with one, Protocol_FindField may return a value that is not there,  *)
(* or never return.                                                          *)
Modest(s) == Len(s) >= 3 => 3 + Protocol_GetU16(s[2], s[3]) \in U16

ASSUME TlvScanAssumption ==
  /\ Tags \subseteq Byte
  /\ FieldLists \subseteq Seq([tag : Byte, value : Seq(Byte)])
  /\ \A fs \in FieldLists : \A i \in DOMAIN fs : Len(fs[i].value) \in U16
  /\ \A t \in Tails : t \in Seq(Byte) /\ ~WholeField(t)

VARIABLES
  fields, tail,   \* what the buffer is made of
  buf, tag,       \* the arguments
  scanned,        \* offset: how far the scan is
  result          \* what is returned, once it is

scan == << fields, tail, buf, tag, scanned, result >>

Scanning == [res |-> "SCANNING"]

(* Callers build a message by encoding field after field into what room is   *)
(* left of a buffer that is large enough (AppendMeasurementRecord).          *)
Encoded(fs) == FlattenSeq([i \in DOMAIN fs |->
                  Protocol_EncodeTLV(fs[i].tag, fs[i].value, Base * Base - 1).out])

ScanInit ==
  /\ fields \in FieldLists
  /\ tail \in Tails
  /\ buf = Encoded(fields) \o tail
  /\ Len(buf) \in U16
  /\ tag \in Tags
  /\ scanned = 0
  /\ result = Scanning

(* One turn of the loop, or the loop's end. *)
FindFieldStep ==
  /\ result = Scanning
  /\ LET d == Protocol_DecodeTLV(buf, scanned)
     IN  \/ /\ scanned >= Len(buf)
            /\ result' = [res |-> "NOT_FOUND"]
            /\ UNCHANGED scanned
         \/ /\ scanned < Len(buf) /\ d.res # "OK"
            /\ result' = [res |-> "MALFORMED"]
            /\ UNCHANGED scanned
         \/ /\ scanned < Len(buf) /\ d.res = "OK" /\ d.tag = tag
            /\ result' = [res |-> "OK", value |-> d.value, valueLen |-> d.valueLen]
            /\ UNCHANGED scanned
         \/ /\ scanned < Len(buf) /\ d.res = "OK" /\ d.tag # tag
            /\ scanned' = uint16_t(scanned + d.consumed)
            /\ UNCHANGED result
  /\ UNCHANGED << fields, tail, buf, tag >>

(* It is a loop: it goes on until it returns. *)
ScanSpec == ScanInit /\ [][FindFieldStep]_scan /\ WF_scan(FindFieldStep)

-----------------------------------------------------------------------------
(* Correctness *)

(* The types of the variables; the scan stays inside the buffer.             *)
ScanTypeOK ==
  /\ buf \in Seq(Byte) /\ tag \in Byte
  /\ scanned \in 0..Len(buf)
  /\ result.res \in {"SCANNING", "OK", "NOT_FOUND", "MALFORMED"}

(* The scan returns the first field with the tag if a whole field has it,    *)
(* so that a value it returns lies in the buffer, all of it; otherwise it    *)
(* says whether all of the buffer was whole fields: "PROTO_ERR_MALFORMED if  *)
(* buf doesn't contain a well-formed TLV sequence (e.g. a field's declared   *)
(* length runs past the end of buf)".                                        *)
Matching == {i \in DOMAIN fields : fields[i].tag = tag}
ValueAt(i) == Len(Encoded(SubSeq(fields, 1, i - 1))) + 3

FindsFirst ==
  CASE result.res = "SCANNING"  -> TRUE
    [] result.res = "OK"        ->
         \E i \in Matching : /\ \A j \in Matching : i <= j
                             /\ result.value = ValueAt(i)
                             /\ result.valueLen = Len(fields[i].value)
    [] result.res = "NOT_FOUND" -> Matching = {} /\ tail = << >>
    [] result.res = "MALFORMED" -> Matching = {} /\ tail # << >>

(* "PROTO_ERR_NOT_FOUND if the scan completes without a match": it           *)
(* completes.                                                                *)
Completes == <>(result.res # "SCANNING")

=============================================================================

------------------------------ MODULE LogDecoder ------------------------------
(***************************************************************************)
(* mysql8-audit-log-decoder at work on one file of LogFile, in the hour it *)
(* is written or later: filePrint opens the file and then decodes and      *)
(* prints one record after another.  Between two of its reads the proxy    *)
(* may encode, rotate, die and start again.                                *)
(*                                                                         *)
(* A record is read field by field into one SendPacket that all records    *)
(* share.  Where a member has been cut, some fields of the record that was *)
(* being written may still be there.  Has a member been appended behind    *)
(* the cut, deflate goes on over its bytes and may make anything of them:  *)
(* the other fields of that record, and whole records, none of them ever   *)
(* encoded.  The version header is never among what it makes up, nor is a  *)
(* member's checksum.                                                      *)
(*                                                                         *)
(* Definitions named Slip are plausible mistakes, not the code.            *)
(***************************************************************************)
EXTENDS LogFile, SequencesExt

CONSTANTS
    Fields,           \* the fields of a record
    Garbage,          \* a record that was never encoded, or not so
    MaxGarbage        \* bound: how many of them are made of one file

ASSUME FieldsAssumption == Fields \in Nat \ {0}
ASSUME GarbageAssumption == Garbage \notin Items /\ MaxGarbage \in Nat

VARIABLES
    decoding,         \* the hour in the name of the file that filePrint has open, or None
    at,               \* items it has read that stand as written
    got,              \* fields of the next record that are in bp
    printed,          \* the records on standard output
    result            \* "none", or how filePrint ended: "nil", "error" or "panic"

decoderVars == <<decoding, at, got, printed, result>>
allVars == <<vars, decoderVars>>

DecoderInit ==
    /\ Init
    /\ decoding = None /\ at = 0 /\ got = 0
    /\ printed = <<>> /\ result = "none"

-----------------------------------------------------------------------------
(* gzip.Reader.                                                            *)

(* io.EOF is for the end of a member that is complete, with none behind.   *)
AtEOF(h) == \A i \in DOMAIN members[h] : members[h][i].sealed

(* A member that was cut has another behind it.                            *)
CutInside(h) == \E i \in 1 .. Len(members[h]) - 1 : ~ members[h][i].sealed

More(h) == at < Len(Stream(h))

-----------------------------------------------------------------------------
Ends(r) == result' = r /\ UNCHANGED <<decoding, at, got, printed>>

Reading == decoding # None /\ result = "none"

(* With the last bytes before an end or a cut, gzip may return its error,  *)
(* which checkFormat does not tell from a failure.                         *)
NewFileReader(h) ==
    /\ decoding = None /\ result = "none"
    /\ \/ /\ h \in exists /\ checkFormat(h)
          /\ decoding' = h /\ at' = 1 /\ UNCHANGED <<got, printed, result>>
       \/ /\ h \notin exists \/ ~ checkFormat(h) \/ Stream(h) = <<Hdr>>
          /\ Ends("error")

(* The last field of the record at a cut is whole only if it is made up.   *)
DecodeField ==
    /\ Reading /\ got < Fields
    /\ \/ More(decoding) \/ CutInside(decoding)
       \/ ~ AtEOF(decoding) /\ got + 1 < Fields
    /\ got' = got + 1
    /\ UNCHANGED <<decoding, at, printed, result>>

PrintRecord ==                     \* formatPacket and fmtJSON
    /\ Reading /\ got = Fields
    /\ \/ /\ More(decoding)
          /\ printed' = Append(printed, Stream(decoding)[at + 1])
          /\ at' = at + 1
       \/ /\ ~ More(decoding) /\ Len(printed) - (at - 1) < MaxGarbage
          /\ printed' = Append(printed, Garbage)
          /\ UNCHANGED at
    /\ got' = 0
    /\ UNCHANGED <<decoding, result>>

(* A COM_FIELD_LIST packet without a zero byte, a slice of length -1.      *)
FormatPanics == Reading /\ got = Fields /\ Ends("panic")

SlipTakesAnyEnd == Reading /\ ~ More(decoding) /\ Ends("nil")

SlipPrintsBeforeErr ==             \* bp still has the record before
    /\ Reading /\ ~ More(decoding) /\ printed # <<>>
    /\ result' = IF AtEOF(decoding) THEN "nil" ELSE "error"
    /\ printed' = Append(printed, Last(printed))
    /\ UNCHANGED <<decoding, at, got>>

(* DecodePacket hands on the error of whatever read had one; filePrint     *)
(* takes io.EOF alone for the end of the log.                              *)
DecodeFails ==
    /\ Reading /\ ~ More(decoding)
    /\ Ends(IF AtEOF(decoding) THEN "nil" ELSE "error")

filePrint ==
    \/ \E h \in Hours : NewFileReader(h)
    \/ DecodeField \/ PrintRecord \/ FormatPanics \/ DecodeFails

DecoderNext ==
    \/ filePrint /\ UNCHANGED vars
    \/ Next /\ UNCHANGED decoderVars

DecoderSpec == DecoderInit /\ [][DecoderNext]_allVars
=============================================================================

------------------------- MODULE LogDecoderProperties -------------------------
(* What mysql8-audit-log-decoder must satisfy.                             *)
EXTENDS LogDecoder, LogFileProperties

(* At any moment, whatever the proxy does meanwhile, the output is a       *)
(* beginning of what was encoded for the file, and nothing else unless the *)
(* proxy has appended a member behind a cut; then records may follow that  *)
(* nobody encoded, and none after them.  A record of which only some       *)
(* fields are there leaves no trace at a cut without a member behind it,   *)
(* although bp is shared by all records (main.go:46-55).                   *)
PrintsWhatWasEncoded ==
    decoding # None =>
        \E n \in 0 .. Len(printed) :
            /\ IsBeginning(FirstItems(printed, n), Encoded(decoding))
            /\ \A i \in n + 1 .. Len(printed) : printed[i] = Garbage
            /\ n < Len(printed) => CutInside(decoding)

(* filePrint returns nil when it has printed every record encoded for the  *)
(* file so far and nothing made up: a cut is reported even where it falls  *)
(* between two records or two fields, or has a member behind it, since     *)
(* gzip's error for it is not io.EOF (main.go:50, sendpacket.go:99-144).   *)
CleanEndMeansAll ==
    [][result # "nil" /\ result' = "nil" => printed' = Encoded(decoding)]_allVars
=============================================================================

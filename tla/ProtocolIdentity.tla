--------------------------- MODULE ProtocolIdentity ---------------------------
(***************************************************************************)
(* Recognising a freemkv implementation by its answer to the IDENTITY knock*)
(* (FirmwareIdentity and ProtocolIdentity of src/src/protocol.rs).         *)
(*                                                                         *)
(* An answer that leads with the magic is a record: "rest", the bytes      *)
(* behind the magic up to the extension (banner text and feature states,   *)
(* with nothing between them), "ext", what stands at the extension's       *)
(* offset, and "whole", whether all 64 bytes arrived.  A byte is a number. *)
(***************************************************************************)
EXTENDS Naturals, Sequences

Space == 32
Dot   == 46
Plus  == 43
Digits  == 48..57
Graphic == 33..126

Extensions == {"zeros", "pioneer", "other"}

MinFwVersion == <<0, 9>>
NoVersion    == <<>>

\* The bytes of s before the first one in stop.
Until(s, stop) ==
  LET ends == {i \in DOMAIN s : s[i] \in stop} IN
  IF ends = {} THEN s
  ELSE SubSeq(s, 1, (CHOOSE i \in ends : \A j \in ends : i <= j) - 1)

Behind(s, n) == SubSeq(s, n + 1, Len(s))

\* The version token: printable, non-blank bytes after the blank.  It has no
\* terminator of its own, so a state that is a printable byte joins it.
Version(rest) ==
  IF rest = <<>> \/ Head(rest) # Space THEN <<>>
  ELSE Until(Tail(rest), (0..255) \ Graphic)

Number(digits) ==
  LET value[n \in 0..Len(digits)] ==
        IF n = 0 THEN 0 ELSE 10 * value[n - 1] + (digits[n] - 48)
  IN value[Len(digits)]

AllDigits(s) == s # <<>> /\ \A i \in DOMAIN s : s[i] \in Digits

\* str::parse::<u32> accepts one leading plus sign.  The numbers a banner
\* spells are far below 2^32.
Unsigned(s) == IF s # <<>> /\ Head(s) = Plus THEN Tail(s) ELSE s

\* Variant: the patch number has to be a number too.
MajorMinorStrict(v) ==
  LET major == Until(v, {Dot})
      minor == Until(Behind(v, Len(major) + 1), {Dot})
      patch == Behind(v, Len(major) + Len(minor) + 2)
  IN IF AllDigits(major) /\ AllDigits(minor) /\ AllDigits(patch)
     THEN <<Number(major), Number(minor)>> ELSE NoVersion

\* The major number has to be one wholly; of what follows the first dot only
\* the leading digits count, and anything behind a second dot is ignored.
MajorMinor(v) ==
  LET major == Until(v, {Dot})
      whole == Unsigned(major)
      minor == Until(Until(Behind(v, Len(major) + 1), {Dot}), (0..255) \ Digits)
  IN IF Len(major) < Len(v) /\ AllDigits(whole) /\ AllDigits(minor)
     THEN <<Number(whole), Number(minor)>> ELSE NoVersion

\* At or above MIN_FW_VERSION.
RecentEnough(parsed) ==
  \/ parsed[1] > MinFwVersion[1]
  \/ parsed[1] = MinFwVersion[1] /\ parsed[2] >= MinFwVersion[2]

IsSupported(v) == MajorMinor(v) # NoVersion /\ RecentEnough(MajorMinor(v))

\* Variant: a truncated answer is read as far as it goes.
ParseShort(answer) ==
  IF ~IsSupported(Version(answer.rest)) THEN "unknown"
  ELSE CASE answer.ext = "zeros" \/ ~answer.whole -> "Firmware"
         [] answer.ext = "pioneer" -> "PioneerRuntime"
         [] OTHER -> "unknown"

\* ProtocolIdentity::parse: the implementation, or "unknown" for an answer
\* with the magic that names none this host can drive.
Parse(answer) ==
  IF ~answer.whole \/ ~IsSupported(Version(answer.rest)) THEN "unknown"
  ELSE CASE answer.ext = "zeros" -> "Firmware"
         [] answer.ext = "pioneer" -> "PioneerRuntime"
         [] OTHER -> "unknown"
=============================================================================

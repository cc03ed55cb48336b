-------------------------------- MODULE Names --------------------------------
(***************************************************************************)
(* Names of files: the validators and the sanitizer of                     *)
(* crates/storage/src/path.rs on a Unix host, the name derived from a URL  *)
(* (crates/download-engine/src/naming.rs) and the one a server suggests    *)
(* (crates/http-client/src/inspect.rs).  A name is a sequence of character *)
(* classes, each character one byte long.                                  *)
(***************************************************************************)
EXTENDS Integers, Sequences, FiniteSetsExt

CONSTANTS MaxName,   \* 255, the longest name
          Suffix     \* what the name of a part file adds: two dots, a UUID, "part"

ASSUME NamesAssumption == MaxName \in Nat /\ Suffix \in Nat

\* "a" is any harmless character, "dev" a reserved device name such as CON,
\* "c1" a control character from U+0080 on, "bad" one that Windows refuses.
Chars == {"a", "dev", ".", " ", "/", "back", "bad", "nul", "ctl", "c1"}
Control == {"nul", "ctl", "c1"}
Text == Seq(Chars)

Has(s, cs) == \E i \in 1..Len(s) : s[i] \in cs

(***************************************************************************)
(* Path::components: what stands between slashes; empty parts and "." are  *)
(* skipped.                                                                *)
(***************************************************************************)
Parts(p) ==
  {b \in (1..Len(p)) \X (1..Len(p)) :
     /\ b[1] <= b[2] /\ \A k \in b[1]..b[2] : p[k] # "/"
     /\ b[1] = 1 \/ p[b[1] - 1] = "/"
     /\ b[2] = Len(p) \/ p[b[2] + 1] = "/"}
Part(p, b) == SubSeq(p, b[1], b[2])
Normal(p) == {b \in Parts(p) : Part(p, b) \notin {<<".">>, <<".", ".">>}}
Climbs(p) == \E b \in Parts(p) : Part(p, b) = <<".", ".">>
Absolute(p) == p # <<>> /\ p[1] = "/"
\* Path::file_name of a path that does not climb.
FileName(p) ==
  Part(p, CHOOSE b \in Normal(p) : \A c \in Normal(p) : c[1] <= b[1])

\* reject_control_bytes looks at bytes, and so lets "c1" pass.
ControlBytes(s) == Has(s, {"nul", "ctl"})

\* The stem of a name ends before its first dot.
ReservedName(s) == s # <<>> /\ s[1] = "dev" /\ (Len(s) > 1 => s[2] = ".")

PathOk(p) ==
  /\ p # <<>> /\ ~Has(p, {"nul"})
  /\ ~Climbs(p)
  /\ \A b \in Normal(p) : ~ControlBytes(Part(p, b))
  /\ Normal(p) # {}

\* validate_path, for a name somebody else chose.
ValidPath(p) == PathOk(p) /\ ~Absolute(p)

\* validate_filename, not on Windows.
ValidFileName(s) ==
  s # <<>> /\ Len(s) <= MaxName /\ ~Has(s, {"/", "back"} \cup Control)

\* validate_output_path: the error, or "none".
OutputError(p) ==
  CASE ~PathOk(p) -> "InvalidPath"
    [] PathOk(p) /\ (~ValidFileName(FileName(p)) \/ ReservedName(FileName(p)))
         -> "InvalidFileName"
    [] OTHER -> "none"

(***************************************************************************)
(* sanitize_filename and default_output_for.                               *)
(***************************************************************************)
Replaced(s) ==
  [i \in 1..Len(s) |-> IF s[i] \in {"/", "back", "bad"} \cup Control THEN "a" ELSE s[i]]

Trims == {".", " "}
\* The length of s without the dots and spaces it ends with.
Kept(s) ==
  CHOOSE k \in 0..Len(s) :
    (\A i \in 1..Len(s) : i > k => s[i] \in Trims) /\ (k > 0 => s[k] \notin Trims)
TrimEnd(s) == SubSeq(s, 1, Kept(s))

Bin == <<".", "a">>
Fallback == <<"a">> \o Bin

Sanitize(s) ==
  LET t == TrimEnd(Replaced(s))
  IN  IF t = <<>> THEN Fallback ELSE IF ValidFileName(t) THEN t ELSE t \o Bin

\* Mutant: the segment is taken as it is.
DefaultOutputRaw(segment) == segment
\* default_output_for: the last segment of the URL's path, if it has one.
DefaultOutput(segment) == Sanitize(segment)

\* The length of the name of the part file next to a destination.
PartLength(p) == Len(FileName(p)) + Suffix

(***************************************************************************)
(* percent_decode, over bytes; what is not UTF-8 then is not modelled.      *)
(***************************************************************************)
Percent == 37
Hex(b) ==
  CASE b \in 48..57  -> b - 48
    [] b \in 97..102 -> b - 87
    [] b \in 65..70  -> b - 55
    [] OTHER         -> -1

\* Mutant: an escape at the very end is not seen.
EscapeNotLast(s, i) ==
  s[i] = Percent /\ i + 2 < Len(s) /\ Hex(s[i + 1]) >= 0 /\ Hex(s[i + 2]) >= 0
Escape(s, i) ==
  s[i] = Percent /\ i + 2 <= Len(s) /\ Hex(s[i + 1]) >= 0 /\ Hex(s[i + 2]) >= 0

PercentDecode(s) ==
  LET from[i \in 1..(Len(s) + 1)] ==
        IF i > Len(s) THEN <<>>
        ELSE IF Escape(s, i) THEN <<16 * Hex(s[i + 1]) + Hex(s[i + 2])>> \o from[i + 3]
        ELSE <<s[i]>> \o from[i + 1]
  IN  from[1]

(***************************************************************************)
(* parse_content_disposition_filename, over the bytes of a header's value; *)
(* numbers above them stand for the words the code looks for, and for two  *)
(* it skips.                                                               *)
(***************************************************************************)
Semicolon == 59
Quote == 39
DoubleQuote == 34
Blank == {9, 32}

Star == 128         \* filename*=
Plain == 129        \* filename=
Charset == 130      \* what stands before the quotes, such as UTF-8
Attachment == 131

\* HeaderValue::to_str
Readable(v) == \A i \in 1..Len(v) : v[i] \in {9} \cup (32..126) \cup (Star..Attachment)

\* split(';'): where the parts begin, and the one that begins at a.
Begins(v) == {a \in 1..(Len(v) + 1) : a = 1 \/ v[a - 1] = Semicolon}
Field(v, a) ==
  SubSeq(v, a, Min({b \in a..(Len(v) + 1) : b = Len(v) + 1 \/ v[b] = Semicolon}) - 1)

\* trim, and trim_matches
Outside(s, cs) == {i \in 1..Len(s) : s[i] \notin cs}
Trim(s, cs) ==
  IF Outside(s, cs) = {} THEN <<>> ELSE SubSeq(s, Min(Outside(s, cs)), Max(Outside(s, cs)))

\* strip_prefix, split_once("''"), and what is left; an empty `filename` and a
\* `filename*` without the two quotes name nothing.
From(f, i) == SubSeq(f, i, Len(f))
Splits(f) == {i \in 2..(Len(f) - 1) : f[i] = Quote /\ f[i + 1] = Quote}
NamedBy(f) ==
  CASE f # <<>> /\ f[1] = Star /\ Splits(f) # {}
         -> {PercentDecode(From(f, Min(Splits(f)) + 2))}
    [] f # <<>> /\ f[1] = Plain /\ Trim(From(f, 2), {DoubleQuote}) # <<>>
         -> {Trim(From(f, 2), {DoubleQuote})}
    [] OTHER -> {}

\* The first part that names something wins.
SuggestedName(v) ==
  LET naming == {a \in Begins(v) : NamedBy(Trim(Field(v, a), Blank)) # {}}
  IN  IF ~Readable(v) \/ naming = {} THEN {} ELSE NamedBy(Trim(Field(v, Min(naming)), Blank))
=============================================================================
